--------------------------- MODULE CaConn_proofs ---------------------------
(***************************************************************************)
(* The safety of one connection, for any channels, queue limits, commands, *)
(* reads and faults.  Each part of the invariant is shown to be inductive  *)
(* with the help of the parts before it.                                   *)
(***************************************************************************)
EXTENDS CaConn, ProofLemmas

Events == SetEvents \union {ChannelStatus}
RowKinds == {"Opened", "Closed", "Value"}
Rows == [cid : Cids, k : RowKinds, src : Cids]
Ended == state \in {"EndOfStream", "MetricsEmitted", "Done"}

(* Types, of the queues too.  A command that waits has not used its cid.   *)
TypeInv ==
    /\ TypeOK
    /\ evq \in Seq(Events) /\ rows \in Seq(Rows) /\ sp \in Seq(Rows)
    /\ db \subseteq Rows /\ ingested \subseteq Rows
    /\ status_lost \in BOOLEAN
    /\ cnt + Len(cmds) <= ncmds

(* The counter never misses a new channel.                                 *)
InitCounted == Cardinality(InState("Init")) <= init_state_count

(* A cid belongs to one channel and was taken from the counter.            *)
CidsUnique ==
    /\ \A n, m \in Known : channels[n].cid = channels[m].cid => n = m
    /\ \A n \in Known : channels[n].cid <= cnt

(* Nothing is registered under an ioid that is not used yet.               *)
IoidsFresh == \A i \in Ioids : i >= ioid => read_ioids[i] = NoCid

(* In the queue of reads an enum fetch may share its ioid only with the    *)
(* read that was begun after it; every other read is registered for its    *)
(* own channel, or not any more.                                           *)
FirstOfIoid(j) == \A i \in 1..(j - 1) : reads[i].ioid # reads[j].ioid
IsEnumFetch(j) == FirstOfIoid(j) /\ handler_by_ioid[reads[j].ioid] # NoCid
ReadsInOrder ==
    \A j \in 1..Len(reads) :
        /\ reads[j].ioid <= ioid
        /\ reads[j].ioid = ioid => IsEnumFetch(j)
        /\ IsEnumFetch(j) \/ read_ioids[reads[j].ioid] \in {NoCid, reads[j].cid}

(* Where the rows are: nothing that was queued is lost, and what is        *)
(* written was queued.                                                     *)
RowsAccounted ==
    db \union ToSet(rows) \union ToSet(sp) = ingested

(* An orderly end: no channel, and at the end nothing in the queues.       *)
OrderlyEnd ==
    /\ Ended => pc = "poll"
    /\ state = "Shutdown" => Known = {}
    /\ Ended /\ reason = "OnCommand" =>
         Known = {} /\ rows = <<>> /\ sp = <<>>

(* A channel that was opened is still there, or its end is a row.          *)
OpenedOrClosed ==
    \A r \in ingested : r.k = "Opened" =>
        \/ \E n \in Known : channels[n].cid = r.cid
        \/ Row(r.cid, "Closed", r.cid) \in ingested

IInv ==
    /\ TypeInv /\ InitCounted /\ CidsUnique
    /\ IoidsFresh /\ ReadsRegistered /\ LookupUnderWay
    /\ ~Reorder => ReadsInOrder /\ ValuesFromOwnChannel
    /\ RowsAccounted /\ OrderlyEnd /\ OpenedOrClosed
    /\ StatusNotLost
-----------------------------------------------------------------------------
(* What the fields of a channel are.                                       *)
LEMMA ChannelFacts ==
    ASSUME TypeInv, NEW n \in Chans
    PROVE  /\ n \in Known => /\ channels[n].cid \in Cids /\ channels[n].cfg \in Configs
                             /\ channels[n].st \in ChannelStates
                             /\ channels[n].ioid \in Ioids
           /\ n \notin Known => channels[n] = Absent
           /\ channels[n].cid \in Cids \union {NoCid}
           /\ channels[n].ioid \in Ioids
           /\ n \in Known <=> channels[n].cid # NoCid
           /\ n \in Known <=> channels[n].cfg # NoCfg
           /\ n \in Known <=> channels[n].st # "Absent"
  BY CaConnAssumption DEF TypeInv, TypeOK, Known, Absent, Channel, NoCfg, NoCid, Cids, Ioids,
     Configs, ChannelStates

LEMMA StatesAreSets ==
    /\ IsFiniteSet(InState("Init")) /\ Cardinality(InState("Init")) \in Nat
    /\ IsFiniteSet(Known)
  BY CaConnAssumption, FS_Subset, FS_CardinalityType DEF InState, Known

(* The tick creates all new channels, and the counter covers them.         *)
LEMMA ToCreateIsInit ==
    ASSUME TypeInv, InitCounted
    PROVE  /\ ToCreate = InState("Init")
           /\ init_state_count - Cardinality(ToCreate) \in Nat
  <1>1. init_state_count \in Nat
    BY DEF TypeInv, TypeOK
  <1>2. init_state_count = 0 => InState("Init") = {}
    BY <1>1, StatesAreSets, FS_EmptySet DEF InitCounted
  <1> QED
    BY <1>1, <1>2, StatesAreSets DEF ToCreate, InitCounted

LEMMA StateInitFacts ==
    ASSUME TypeInv
    PROVE  /\ StateInit \in [Chans -> {Absent} \union
                [cid : Cids, cfg : Configs, st : ChannelStates, ioid : Ioids]]
           /\ \A n \in Chans :
                /\ n \in Known <=> StateInit[n] # Absent
                /\ StateInit[n].cid = channels[n].cid
                /\ StateInit[n].cfg = channels[n].cfg
                /\ StateInit[n].ioid = channels[n].ioid
                /\ StateInit[n].st = IF n \in ToCreate THEN "Creating"
                                     ELSE channels[n].st
                /\ n \in ToCreate => n \in Known
  <1> DEFINE C == [cid : Cids, cfg : Configs, st : ChannelStates, ioid : Ioids]
  <1>1. ASSUME NEW n \in Chans, n \in ToCreate
        PROVE  /\ channels[n] \in C
               /\ [channels[n] EXCEPT !.st = "Creating"] \in C
    <2>1. channels[n].st = "Init"
      BY <1>1 DEF ToCreate, InState, Is
    <2>2. channels[n] \in C
      BY <2>1 DEF TypeInv, TypeOK, Absent, Channel
    <2> QED
      BY <2>2 DEF ChannelStates
  <1>2. \A n \in Chans : n \notin ToCreate => channels[n] \in {Absent} \union C
    BY DEF TypeInv, TypeOK
  <1>3. \A c \in C : c # Absent
    BY CaConnAssumption DEF Absent, Channel, Cids, NoCid
  <1> QED
    BY <1>1, <1>2, <1>3 DEF StateInit, Known

(* The counter still covers the new channels when none is added.           *)
LEMMA CountKept ==
    ASSUME InitCounted, init_state_count \in Nat, init_state_count' = init_state_count,
           InState("Init")' \subseteq InState("Init")
    PROVE  InitCounted'
  <1>1. Cardinality(InState("Init")') <= Cardinality(InState("Init"))
    BY StatesAreSets, FS_Subset
  <1>2. Cardinality(InState("Init")') \in Nat
    BY StatesAreSets, FS_Subset, FS_CardinalityType
  <1> QED
    BY <1>1, <1>2, StatesAreSets DEF InitCounted

LEMMA CountNone ==
    ASSUME init_state_count' \in Nat, InState("Init")' = {}
    PROVE  InitCounted'
  BY FS_EmptySet DEF InitCounted

(* Closing all channels.                                                   *)
LEMMA StatusType ==
    ASSUME NEW q \in Seq(Events), NEW due
    PROVE  WithChannelStatus(q, due) \in Seq(Events)
  <1>1. ChannelStatus \in Events
    BY DEF Events, SetEvents
  <1> HIDE DEF Events, SetEvents
  <1> QED
    BY <1>1 DEF WithChannelStatus

LEMMA CloseAllFacts ==
    ASSUME TypeInv, NEW due, CloseAll(due)
    PROVE  /\ channels' = [n \in Chans |-> Absent]
           /\ evq' \in Seq(Events) /\ rows' \in Seq(Rows)
           /\ ingested' = ingested \union {Closed(n) : n \in Known}
           /\ ToSet(rows') = ToSet(rows) \union {Closed(n) : n \in Known}
           /\ {Closed(n) : n \in Known} \subseteq Rows
           /\ creating' = {} /\ reads' = <<>>
  <1>1. PICK s \in SetToSeqs(Known) :
          /\ Push(Map(Closed, s) \o Map(Closed, s))
          /\ evq' = WithChannelStatus(evq \o Map(Removed, s), due)
    BY DEF CloseAll
  <1>2. s \in Seq(Known) /\ ToSet(s) = Known
    BY StatesAreSets, ListingCovers
  <1>3. {Closed(n) : n \in Known} \subseteq Rows
    BY ChannelFacts DEF Closed, Row, Rows, RowKinds, Known
  <1> DEFINE c == Map(Closed, s)
  <1>4. c \in Seq(Rows) /\ ToSet(c) = {Closed(n) : n \in Known}
    <2>1. Len(s) \in Nat /\ \A i \in 1..Len(s) : s[i] \in Known /\ Closed(s[i]) \in Rows
      BY <1>2, <1>3
    <2>2. c = [i \in 1..Len(s) |-> Closed(s[i])]
      BY DEF Map
    <2>3. c \in Seq(Rows) /\ DOMAIN c = 1..Len(s)
      BY <2>1, <2>2
    <2>4. \A n \in Known : \E i \in 1..Len(s) : s[i] = n
      BY <1>2 DEF ToSet
    <2> QED
      BY <2>1, <2>2, <2>3, <2>4 DEF ToSet
  <1>5. Map(Removed, s) \in Seq(Events)
    <2>1. Len(s) \in Nat /\ \A i \in 1..Len(s) : Removed(s[i]) \in Events
      BY <1>2 DEF Events, SetEvents, Known
    <2> QED
      BY <2>1 DEF Map
  <1>6. evq' \in Seq(Events)
    <2>1. evq \in Seq(Events)
      BY DEF TypeInv
    <2>2. evq \o Map(Removed, s) \in Seq(Events)
      BY <2>1, <1>5, ConcatProperties
    <2> QED
      BY <1>1, <2>2, StatusType
  <1> DEFINE cc == c \o c
  <1>7. rows \in Seq(Rows) /\ cc \in Seq(Rows) /\ ToSet(cc) = ToSet(c)
    <2> HIDE DEF c
    <2>1. ToSet(c \o c) = ToSet(c) \union ToSet(c)
      BY <1>4, ToSetConcat
    <2> QED
      BY <1>4, <2>1, ConcatProperties DEF TypeInv
  <1>8. rows' = rows \o cc /\ ingested' = ingested \union ToSet(cc)
    BY <1>1 DEF Push
  <1>9. rows \o cc \in Seq(Rows) /\ ToSet(rows \o cc) = ToSet(rows) \union ToSet(cc)
    <2> HIDE DEF c, cc
    <2> QED
      BY <1>7, ToSetConcat, ConcatProperties
  <1> QED
    BY <1>3, <1>4, <1>6, <1>7, <1>8, <1>9 DEF CloseAll

ChannelSet == [cid : Cids, cfg : Configs, st : ChannelStates, ioid : Ioids]

(* Changing the state of a channel that is there.                          *)
LEMMA ToFacts ==
    ASSUME TypeInv, NEW n \in Known, NEW st \in ChannelStates
    PROVE  /\ To(n, st) \in [Chans -> {Absent} \union ChannelSet]
           /\ \A m \in Chans :
                /\ m \in Known <=> To(n, st)[m] # Absent
                /\ To(n, st)[m].cid = channels[m].cid
                /\ To(n, st)[m].cfg = channels[m].cfg
                /\ To(n, st)[m].ioid = channels[m].ioid
                /\ To(n, st)[m].st = IF m = n THEN st ELSE channels[m].st
  <1>1. channels \in [Chans -> {Absent} \union ChannelSet] /\ n \in Chans
    BY DEF TypeInv, TypeOK, ChannelSet, Known
  <1>2. channels[n] \in ChannelSet
    BY <1>1 DEF Known
  <1>3. [channels[n] EXCEPT !.st = st] \in ChannelSet
    BY <1>2 DEF ChannelSet
  <1>4. \A c \in ChannelSet : c # Absent
    BY CaConnAssumption DEF Absent, Channel, Cids, NoCid, ChannelSet
  <1>5. To(n, st) = [channels EXCEPT ![n] = [channels[n] EXCEPT !.st = st]]
    BY <1>1 DEF To
  <1>6. /\ [channels[n] EXCEPT !.st = st].cid = channels[n].cid
        /\ [channels[n] EXCEPT !.st = st].cfg = channels[n].cfg
        /\ [channels[n] EXCEPT !.st = st].ioid = channels[n].ioid
        /\ [channels[n] EXCEPT !.st = st].st = st
    BY <1>2 DEF ChannelSet
  <1> QED
    BY <1>1, <1>2, <1>3, <1>4, <1>5, <1>6 DEF Known

LEMMA PushOne ==
    ASSUME TypeInv, NEW r \in Rows, Push(<<r>>)
    PROVE  /\ rows' \in Seq(Rows) /\ ingested' = ingested \union {r}
           /\ ToSet(rows') = ToSet(rows) \union {r}
  <1>1. rows \in Seq(Rows) /\ <<r>> \in Seq(Rows)
    BY DEF TypeInv
  <1>2. ToSet(rows \o <<r>>) = ToSet(rows) \union ToSet(<<r>>)
    BY <1>1, ToSetConcat
  <1> QED
    BY <1>1, <1>2, ToSetOne, ConcatProperties DEF Push

LEMMA RowFacts ==
    ASSUME TypeInv, NEW n \in Known, NEW c \in Cids
    PROVE  Opened(n) \in Rows /\ Closed(n) \in Rows /\ Value(n, c) \in Rows
  BY ChannelFacts DEF Opened, Closed, Value, Row, Rows, RowKinds, Known

LEMMA NamesKnown ==
    ASSUME TypeInv, NEW n \in Chans, channels[n].st \in ChannelStates
    PROVE  n \in Known
  BY ChannelFacts DEF ChannelStates

(* A tick at which the connection stays up: no event waits, so the health  *)
(* update finds room.                                                      *)
LEMMA TickBeginFacts ==
    ASSUME TypeInv, InitCounted, TickBegin
    PROVE  /\ evq = <<>> /\ ticker_spent' \in BOOLEAN /\ pc' = "flush"
           /\ init_state_count' \in Nat
           /\ state \in {"Connecting", "PeerReady", "Shutdown"}
           /\ ToCreate = InState("Init")
           /\ UNCHANGED <<cnt, handler_by_ioid, lookups, lookup_failed, sp, db, cmds,
                          told, ncmds>>
  BY ToCreateIsInit DEF TickBegin, AtTicker, lookupVars, cmdVars

LEMMA TickRestFacts ==
    ASSUME TypeInv, evq = <<>>, TickRest
    PROVE  /\ evq' \in Seq(Events) /\ status_lost' = status_lost
           /\ creating' \subseteq Cids
           /\ UNCHANGED <<state, reason, rows, ingested, nfaults>>
  <1>1. PICK due \in BOOLEAN :
          /\ evq' = WithChannelStatus(evq, due)
          /\ status_lost' = (status_lost \/ (due /\ evq' = evq))
    BY DEF TickRest
  <1>2. evq' \in Seq(Events)
    BY <1>1, StatusType DEF TypeInv
  <1>3. due => evq' = Append(evq, ChannelStatus) /\ evq' # evq
    BY <1>1, CaConnAssumption DEF WithChannelStatus
  <1>4. status_lost' = status_lost
    BY <1>1, <1>3 DEF TypeInv
  <1>5. \A n \in ToCreate : n \in Chans /\ n \in Known
    BY StateInitFacts DEF ToCreate, InState
  <1>6. creating' \subseteq Cids
    BY <1>5, ChannelFacts DEF TickRest, TypeInv, TypeOK
  <1> QED
    BY <1>2, <1>4, <1>6 DEF TickRest

(* A read is begun for a channel that was not new.                         *)
LEMMA BeginReadFacts ==
    ASSUME TypeInv, NEW n \in Known, NEW st \in ChannelStates, BeginRead(n, st),
           n \notin ToCreate
    PROVE  /\ ioid < MaxIoid /\ ioid' = ioid + 1 /\ ioid' \in Ioids
           /\ channels' \in [Chans -> {Absent} \union ChannelSet]
           /\ \A m \in Chans :
                /\ m \in Known <=> channels'[m] # Absent
                /\ channels'[m].cid = channels[m].cid
                /\ channels'[m].cfg = channels[m].cfg
                /\ channels'[m].ioid = IF m = n THEN ioid ELSE channels[m].ioid
                /\ channels'[m].st = IF m = n THEN st
                                     ELSE IF m \in ToCreate THEN "Creating"
                                     ELSE channels[m].st
           /\ read_ioids' = [read_ioids EXCEPT ![ioid] =
                               IF @ = NoCid THEN channels[n].cid ELSE @]
           /\ read_ioids' \in [Ioids -> Cids \union {NoCid}]
           /\ reads' = Append(reads, [ioid |-> ioid, cid |-> channels[n].cid])
           /\ reads' \in Seq([ioid : Ioids, cid : Cids])
  <1>1. n \in Chans /\ channels[n].cid \in Cids /\ ioid \in Ioids
    BY ChannelFacts DEF Known, TypeInv, TypeOK
  <1>2. /\ StateInit \in [Chans -> {Absent} \union ChannelSet]
        /\ StateInit[n] # Absent
    BY <1>1, StateInitFacts DEF ChannelSet
  <1> DEFINE c == [StateInit[n] EXCEPT !.st = st, !.ioid = ioid]
  <1>3. StateInit[n] \in ChannelSet
    BY <1>1, <1>2
  <1>4. /\ c \in ChannelSet /\ c.st = st /\ c.ioid = ioid
        /\ c.cid = StateInit[n].cid /\ c.cfg = StateInit[n].cfg
    BY <1>1, <1>3 DEF ChannelSet
  <1>5. channels' = [StateInit EXCEPT ![n] = c]
    BY <1>1, <1>2 DEF BeginRead
  <1>6. \A d \in ChannelSet : d # Absent
    BY CaConnAssumption DEF Absent, Channel, Cids, NoCid, ChannelSet
  <1>7. /\ channels' \in [Chans -> {Absent} \union ChannelSet]
        /\ \A m \in Chans :
             /\ m \in Known <=> channels'[m] # Absent
             /\ channels'[m].cid = channels[m].cid
             /\ channels'[m].cfg = channels[m].cfg
             /\ channels'[m].ioid = IF m = n THEN ioid ELSE channels[m].ioid
             /\ channels'[m].st = IF m = n THEN st
                                  ELSE IF m \in ToCreate THEN "Creating"
                                  ELSE channels[m].st
    <2> HIDE DEF c
    <2> QED
      BY <1>1, <1>2, <1>4, <1>5, <1>6, StateInitFacts
  <1>8. /\ ioid < MaxIoid /\ ioid' = ioid + 1 /\ ioid' \in Ioids
    BY <1>1, CaConnAssumption DEF BeginRead, Ioids
  <1>9. /\ read_ioids' = [read_ioids EXCEPT ![ioid] =
                            IF @ = NoCid THEN channels[n].cid ELSE @]
        /\ read_ioids' \in [Ioids -> Cids \union {NoCid}]
    BY <1>1 DEF BeginRead, TypeInv, TypeOK
  <1>10. /\ reads' = Append(reads, [ioid |-> ioid, cid |-> channels[n].cid])
         /\ reads' \in Seq([ioid : Ioids, cid : Cids])
    BY <1>1 DEF BeginRead, TypeInv, TypeOK
  <1> QED
    BY <1>7, <1>8, <1>9, <1>10

(* A polled read has timed out.                                            *)
LEMMA PollTimeoutFacts ==
    ASSUME TypeInv, NEW n \in Known, TickPollTimeout(n), n \notin ToCreate
    PROVE  /\ channels' \in [Chans -> {Absent} \union ChannelSet]
           /\ \A m \in Chans :
                /\ m \in Known <=> channels'[m] # Absent
                /\ channels'[m].cid = channels[m].cid
                /\ channels'[m].cfg = channels[m].cfg
                /\ channels'[m].ioid = channels[m].ioid
                /\ channels'[m].st = IF m = n THEN "PollIdle" ELSE StateInit[m].st
  <1>1. n \in Chans
    BY DEF Known
  <1>2. /\ StateInit \in [Chans -> {Absent} \union ChannelSet]
        /\ StateInit[n] # Absent
    BY <1>1, StateInitFacts DEF ChannelSet
  <1> DEFINE c == [StateInit[n] EXCEPT !.st = "PollIdle"]
  <1>3. StateInit[n] \in ChannelSet
    BY <1>1, <1>2
  <1>4. /\ c \in ChannelSet /\ c.st = "PollIdle" /\ c.ioid = StateInit[n].ioid
        /\ c.cid = StateInit[n].cid /\ c.cfg = StateInit[n].cfg
    BY <1>3 DEF ChannelSet, ChannelStates
  <1>5. channels' = [StateInit EXCEPT ![n] = c]
    BY <1>1, <1>2 DEF TickPollTimeout
  <1>6. \A d \in ChannelSet : d # Absent
    BY CaConnAssumption DEF Absent, Channel, Cids, NoCid, ChannelSet
  <1> HIDE DEF c
  <1> QED
    BY <1>1, <1>2, <1>4, <1>5, <1>6, StateInitFacts
-----------------------------------------------------------------------------
(* One step keeps the types, and the counter covers the new channels.      *)
TypeInvs == TypeInv /\ InitCounted

LEMMA TypeCommand ==
    ASSUME TypeInvs, SendCommand
    PROVE  TypeInvs'
  <1>1. cmds' \in Seq(Commands) /\ cnt + Len(cmds') <= ncmds' /\ told' \in BOOLEAN
    <2>1. cmds = <<>> /\ cnt <= ncmds /\ cnt \in Nat /\ ncmds \in Nat
      BY DEF TypeInvs, TypeInv, TypeOK, SendCommand
    <2>2. ncmds' = ncmds + 1
      BY DEF SendCommand
    <2>3. CASE told' = told /\ \E c \in Commands : cmds' = Append(cmds, c)
      <3>1. PICK c \in Commands : cmds' = Append(cmds, c)
        BY <2>3
      <3>2. cmds' = <<c>>
        BY <2>1, <3>1
      <3> QED
        BY <2>1, <2>2, <2>3, <3>2 DEF TypeInvs, TypeInv, TypeOK
    <2>4. CASE told' = TRUE /\ cmds' = cmds
      BY <2>1, <2>2, <2>4 DEF TypeInvs, TypeInv, TypeOK
    <2> QED
      BY <2>3, <2>4 DEF SendCommand
  <1>2. cnt \in 0..ncmds' /\ ncmds' \in 0..MaxCmds
    BY CaConnAssumption DEF SendCommand, TypeInvs, TypeInv, TypeOK
  <1>3. InitCounted'
    BY DEF TypeInvs, InitCounted, InState, Is, SendCommand, chanVars
  <1> QED
    BY <1>1, <1>2, <1>3 DEF SendCommand, TypeInvs, TypeInv, TypeOK, connVars, chanVars,
       ioVars, lookupVars, rowVars, evVars

(* Steps that leave the channels alone.                                    *)
LEMMA TypeNoChannel ==
    ASSUME TypeInvs,
           \/ PopEvent \/ EmitMetrics \/ StreamEnd \/ TickerPending
           \/ FlushSend \/ FlushSent \/ FlushDone \/ NoCommand
           \/ Connected \/ ReadUnanswered \/ Pong \/ PollEnd \/ Done
           \/ \E cid \in Cids :
                LookupUnexpected(cid) \/ LookupFails(cid) \/ CreateChanFail(cid)
    PROVE  TypeInvs'
  <1> USE DEF connVars, chanVars, ioVars, lookupVars, rowVars, evVars, cmdVars
  <1>1. CASE PopEvent
    BY <1>1 DEF PopEvent, TypeInvs, TypeInv, TypeOK, InitCounted, InState, Is
  <1>2. CASE EmitMetrics
    BY <1>2 DEF EmitMetrics, TypeInvs, TypeInv, TypeOK, InitCounted, InState, Is
  <1>3. CASE StreamEnd
    BY <1>3 DEF StreamEnd, TypeInvs, TypeInv, TypeOK, InitCounted, InState, Is
  <1>4. CASE TickerPending
    BY <1>4 DEF TickerPending, TypeInvs, TypeInv, TypeOK, InitCounted, InState, Is
  <1>5. CASE FlushSend
    BY <1>5 DEF FlushSend, TypeInvs, TypeInv, TypeOK, InitCounted, InState, Is
  <1>6. CASE FlushSent
    <2>1. ToSet(sp) \subseteq Rows
      BY ToSetType DEF TypeInvs, TypeInv
    <2> QED
      BY <1>6, <2>1 DEF FlushSent, TypeInvs, TypeInv, TypeOK, InitCounted, InState, Is
  <1>7. CASE FlushDone
    BY <1>7 DEF FlushDone, TypeInvs, TypeInv, TypeOK, InitCounted, InState, Is
  <1>8. CASE NoCommand
    BY <1>8 DEF NoCommand, TypeInvs, TypeInv, TypeOK, InitCounted, InState, Is
  <1>9. CASE Connected
    BY <1>9 DEF Connected, AtConnState, TypeInvs, TypeInv, TypeOK, InitCounted,
       InState, Is
  <1>10. CASE ReadUnanswered
    BY <1>10 DEF ReadUnanswered, AtConnState, TypeInvs, TypeInv, TypeOK, InitCounted,
       InState, Is
  <1>11. CASE Pong
    BY <1>11 DEF Pong, AtConnState, TypeInvs, TypeInv, TypeOK, InitCounted,
       InState, Is
  <1>12. CASE PollEnd
    BY <1>12 DEF PollEnd, TypeInvs, TypeInv, TypeOK, InitCounted, InState, Is
  <1>13. CASE Done
    BY <1>13 DEF Done, vars, TypeInvs, TypeInv, TypeOK, InitCounted, InState, Is
  <1>14. ASSUME NEW cid \in Cids, LookupUnexpected(cid)
         PROVE  TypeInvs'
    BY <1>14 DEF LookupUnexpected, TypeInvs, TypeInv, TypeOK, InitCounted, InState, Is
  <1>15. ASSUME NEW cid \in Cids, LookupFails(cid)
         PROVE  TypeInvs'
    BY <1>15 DEF LookupFails, TypeInvs, TypeInv, TypeOK, InitCounted, InState, Is
  <1>16. ASSUME NEW cid \in Cids, CreateChanFail(cid)
         PROVE  TypeInvs'
    <2>1. PICK c \in Chans :
            evq' = Append(evq, ConnEvent("ChannelCreateFail", c, FailText))
      BY <1>16 DEF CreateChanFail
    <2>2. evq' \in Seq(Events)
      <3>1. ConnEvent("ChannelCreateFail", c, FailText) \in Events
        BY DEF Events, SetEvents
      <3> QED
        BY <2>1, <3>1 DEF TypeInvs, TypeInv
    <2> QED
      BY <1>16, <2>2 DEF CreateChanFail, TypeInvs, TypeInv, TypeOK, InitCounted,
         InState, Is
  <1> QED
    BY <1>1, <1>2, <1>3, <1>4, <1>5, <1>6, <1>7, <1>8, <1>9, <1>10, <1>11, <1>12,
       <1>13, <1>14, <1>15, <1>16

(* The connection is shut down.                                            *)
LEMMA TypeCloseAll ==
    ASSUME TypeInvs, NEW due, CloseAll(due),
           pc' \in {"poll", "flush", "inner"},
           state' \in {"Shutdown", "EndOfStream"}, reason' \in {"OnCommand", "Failed"},
           ticker_spent' \in BOOLEAN, ping' \in BOOLEAN, init_state_count' \in Nat,
           UNCHANGED <<cnt, ioid, read_ioids, handler_by_ioid, lookups, lookup_failed,
                       sp, db, status_lost, cmds, told, ncmds>>
    PROVE  TypeInvs'
  <1>1. TypeInv
    BY DEF TypeInvs
  <1>2. /\ channels' = [n \in Chans |-> Absent]
        /\ evq' \in Seq(Events) /\ rows' \in Seq(Rows) /\ ingested' \subseteq Rows
        /\ creating' = {} /\ reads' = <<>>
    BY <1>1, CloseAllFacts DEF TypeInv
  <1>3. InitCounted'
    <2>1. InState("Init")' = {}
      BY <1>2 DEF InState, Is, Absent, Channel
    <2> QED
      BY <2>1, CountNone
  <1> QED
    BY <1>1, <1>2, <1>3 DEF TypeInvs, TypeInv, TypeOK

(* Ticks.                                                                  *)
LEMMA TypeTick ==
    ASSUME TypeInvs, TickAny
    PROVE  TypeInvs'
  <1> USE DEF connVars, chanVars, ioVars, lookupVars, rowVars, evVars, cmdVars
  <1>0. TypeInv /\ InitCounted
    BY DEF TypeInvs
  <1>1. CASE TickWithoutProto
    <2>1. PICK due : CloseAll(due)
      BY <1>1, Zenon DEF TickWithoutProto, TriggerShutdown
    <2>2. /\ state' = "Shutdown" /\ reason' = "Failed" /\ ticker_spent' \in BOOLEAN
          /\ UNCHANGED <<pc, cnt, init_state_count, ioid, read_ioids, handler_by_ioid,
                         ping, lookups, lookup_failed, sp, db, status_lost, cmds, told,
                         ncmds>>
      BY <1>1 DEF TickWithoutProto, TriggerShutdown
    <2>3. pc = "poll"
      BY <1>1 DEF TickWithoutProto, AtTicker
    <2> QED
      BY <1>0, <2>1, <2>2, <2>3, TypeCloseAll DEF TypeInvs, TypeInv, TypeOK
  <1>2. ASSUME channels' = StateInit, TickBegin, TickRest, ping' \in BOOLEAN,
               UNCHANGED <<ioid, read_ioids, reads>>
        PROVE  TypeInvs'
    <2>1. /\ evq = <<>> /\ init_state_count' \in Nat
          /\ ToCreate = InState("Init")
      BY <1>0, <1>2, TickBeginFacts
    <2>2. InState("Init")' = {}
      BY <1>0, <1>2, <2>1, StateInitFacts DEF InState, Is
    <2> QED
      BY <1>0, <1>2, <2>1, <2>2, TickBeginFacts, TickRestFacts, StateInitFacts, CountNone
         DEF TypeInvs, TypeInv, TypeOK
  <1>3. CASE Tick \/ TickPing
    BY <1>2, <1>3, <1>0 DEF Tick, TickPing, TypeInv, TypeOK
  <1>4. ASSUME TickBegin, \E due \in BOOLEAN : TriggerShutdown("Failed", due),
               ping' \in BOOLEAN, UNCHANGED <<ioid, read_ioids, status_lost>>
        PROVE  TypeInvs'
    <2>1. PICK due \in BOOLEAN : TriggerShutdown("Failed", due)
      BY <1>4
    <2>2. CloseAll(due)
      BY <2>1 DEF TriggerShutdown
    <2>3. state' = "Shutdown" /\ reason' = "Failed"
      BY <2>1 DEF TriggerShutdown
    <2> QED
      BY <1>0, <1>4, <2>2, <2>3, TickBeginFacts, TypeCloseAll DEF TypeInvs
  <1>5. CASE TickPingFails
    BY <1>4, <1>5 DEF TickPingFails
  <1>6. ASSUME NEW n \in Chans, TickReadPendingTimeout(n)
        PROVE  TypeInvs'
    BY <1>0, <1>4, <1>6 DEF TickReadPendingTimeout, TypeInv, TypeOK
  <1>7. ASSUME NEW n \in Chans, TickRead(n)
        PROVE  TypeInvs'
    <2>1. /\ evq = <<>> /\ init_state_count' \in Nat
          /\ ToCreate = InState("Init") /\ TickBegin /\ TickRest
      BY <1>0, <1>7, TickBeginFacts DEF TickRead
    <2>2. PICK st \in {"ReadPending", "PollWait"} : BeginRead(n, st)
      BY <1>7 DEF TickRead
    <2>3. n \in Known /\ n \notin ToCreate /\ st \in ChannelStates
      BY <1>0, <1>7, <2>1, NamesKnown DEF TickRead, ChannelStates, InState, Is
    <2>4. InState("Init")' = {}
      <3>1. \A m \in Chans : channels'[m].st =
              IF m = n THEN st
              ELSE IF m \in ToCreate THEN "Creating" ELSE channels[m].st
        BY <1>0, <2>2, <2>3, BeginReadFacts
      <3> QED
        BY <2>1, <3>1 DEF InState, Is
    <2> QED
      BY <1>0, <1>7, <2>1, <2>2, <2>3, <2>4, TickBeginFacts, TickRestFacts,
         BeginReadFacts, CountNone
         DEF TickRead, TypeInvs, TypeInv, TypeOK, ChannelSet
  <1>8. ASSUME NEW n \in Chans, TickPollTimeout(n)
        PROVE  TypeInvs'
    <2>1. /\ evq = <<>> /\ init_state_count' \in Nat
          /\ ToCreate = InState("Init") /\ TickBegin /\ TickRest
      BY <1>0, <1>8, TickBeginFacts DEF TickPollTimeout
    <2>2. n \in Known /\ n \notin ToCreate
      BY <1>0, <1>8, <2>1, NamesKnown DEF TickPollTimeout, ChannelStates, InState, Is
    <2>3. /\ channels' \in [Chans -> {Absent} \union ChannelSet]
          /\ \A m \in Chans : channels'[m].st =
               IF m = n THEN "PollIdle" ELSE StateInit[m].st
      BY <1>0, <1>8, <2>2, PollTimeoutFacts
    <2>4. InState("Init")' = {}
      BY <1>0, <2>1, <2>3, StateInitFacts DEF InState, Is
    <2>5. read_ioids' \in [Ioids -> Cids \union {NoCid}]
      BY <1>0, <1>8 DEF TickPollTimeout, TypeInv, TypeOK
    <2> QED
      BY <1>0, <1>8, <2>1, <2>3, <2>4, <2>5, TickBeginFacts, TickRestFacts, CountNone
         DEF TickPollTimeout, TypeInvs, TypeInv, TypeOK, ChannelSet
  <1> QED
    BY <1>1, <1>3, <1>5, <1>6, <1>7, <1>8 DEF TickAny

(* Results of lookups.                                                     *)
LEMMA ToKeepsCount ==
    ASSUME TypeInvs, NEW n \in Known, NEW st \in ChannelStates, st # "Init",
           channels' = To(n, st), init_state_count' = init_state_count
    PROVE  InitCounted' /\ channels' \in [Chans -> {Absent} \union ChannelSet]
  <1>1. TypeInv /\ InitCounted /\ init_state_count \in Nat
    BY DEF TypeInvs, TypeInv, TypeOK
  <1>2. InState("Init")' \subseteq InState("Init")
    BY <1>1, ToFacts DEF InState, Is
  <1> QED
    BY <1>1, <1>2, ToFacts, CountKept

LEMMA TypeLookup ==
    ASSUME TypeInvs, NEW n \in Chans, StatusSeriesFound(n) \/ DataSeriesFound(n)
    PROVE  TypeInvs'
  <1> USE DEF connVars, chanVars, ioVars, lookupVars, rowVars, evVars, cmdVars
  <1>0. TypeInv
    BY DEF TypeInvs
  <1>1. CASE StatusSeriesFound(n)
    <2>1. n \in Known /\ channels' = To(n, "MakingSeriesWriter")
      BY <1>0, <1>1, NamesKnown DEF StatusSeriesFound, Is, ChannelStates
    <2>2. InitCounted' /\ channels' \in [Chans -> {Absent} \union ChannelSet]
      BY <1>1, <2>1, ToKeepsCount DEF StatusSeriesFound, ChannelStates
    <2> QED
      BY <1>0, <1>1, <2>2 DEF StatusSeriesFound, TypeInvs, TypeInv, TypeOK, ChannelSet
  <1>2. CASE DataSeriesFound(n)
    <2>1. n \in Known
      BY <1>0, <1>2, NamesKnown DEF DataSeriesFound, Is, ChannelStates
    <2>2. PICK st \in {"PollIdle", "EnableMonitoring"} : channels' = To(n, st)
      BY <1>2 DEF DataSeriesFound
    <2>3. InitCounted' /\ channels' \in [Chans -> {Absent} \union ChannelSet]
      BY <1>2, <2>1, <2>2, ToKeepsCount DEF DataSeriesFound, ChannelStates
    <2>4. Opened(n) \in Rows
      <3>1. channels[n].cid \in Cids
        BY <1>0, <2>1, ChannelFacts
      <3> QED
        BY <1>0, <2>1, <3>1, RowFacts
    <2>5. rows' \in Seq(Rows) /\ ingested' \subseteq Rows
      BY <1>0, <1>2, <2>4, PushOne DEF DataSeriesFound, TypeInv
    <2> QED
      BY <1>0, <1>2, <2>3, <2>5 DEF DataSeriesFound, TypeInvs, TypeInv, TypeOK, ChannelSet
  <1> QED
    BY <1>1, <1>2

(* Commands.                                                               *)
LEMMA TakeCommandFacts ==
    ASSUME TypeInvs, NEW k, TakeCommand(k)
    PROVE  /\ Head(cmds) \in Commands /\ Head(cmds).ch \in Chans
           /\ Head(cmds).k = k
           /\ k = "ChannelAdd" => Head(cmds).cfg \in Configs
           /\ cmds' \in Seq(Commands) /\ Len(cmds) \in Nat
           /\ Len(cmds') = Len(cmds) - 1 /\ cnt + 1 <= ncmds
  <1>1. cmds \in Seq(Commands) /\ cmds # <<>> /\ cmds' = Tail(cmds) /\ Head(cmds).k = k
    BY DEF TypeInvs, TypeInv, TypeOK, TakeCommand
  <1>2. cnt + Len(cmds) <= ncmds /\ cnt \in Nat /\ ncmds \in Nat
    BY CaConnAssumption DEF TypeInvs, TypeInv, TypeOK
  <1>3. Head(cmds) \in Commands
    BY <1>1
  <1>4. /\ Len(cmds') = Len(cmds) - 1 /\ Len(cmds) \in Nat /\ Len(cmds) > 0
        /\ cmds' \in Seq(Commands)
    BY <1>1
  <1>5. Head(cmds).ch \in Chans /\ (k = "ChannelAdd" => Head(cmds).cfg \in Configs)
    BY <1>1, <1>3, CaConnAssumption DEF Commands, ConnCommand
  <1> QED
    BY <1>1, <1>2, <1>3, <1>4, <1>5

(* A channel is added: it is the only one that changes.                    *)
LEMMA AddFacts ==
    ASSUME TypeInvs, ChannelAdd, Head(cmds).ch \notin Known
    PROVE  LET n == Head(cmds).ch IN
           /\ n \in Chans /\ cnt' = cnt + 1 /\ cnt' \in Cids /\ cnt' <= ncmds
           /\ init_state_count' = init_state_count + 1
           /\ channels' \in [Chans -> {Absent} \union ChannelSet]
           /\ Known' = Known \union {n}
           /\ channels'[n] = Channel(cnt', Head(cmds).cfg, "Init", 0)
           /\ \A m \in Chans \ {n} : channels'[m] = channels[m]
  <1> DEFINE n == Head(cmds).ch
             c == Channel(cnt', Head(cmds).cfg, "Init", 0)
  <1>1. TakeCommand("ChannelAdd")
    BY DEF ChannelAdd
  <1>2. n \in Chans /\ Head(cmds).cfg \in Configs /\ cnt + 1 <= ncmds
    BY <1>1, TakeCommandFacts
  <1>3. cnt \in Nat /\ ncmds \in 0..MaxCmds
    BY CaConnAssumption DEF TypeInvs, TypeInv, TypeOK
  <1>4. /\ cnt' = cnt + 1 /\ init_state_count' = init_state_count + 1
        /\ channels' = [channels EXCEPT ![n] = c]
    BY DEF ChannelAdd
  <1>5. cnt' \in Cids /\ cnt' <= ncmds
    BY <1>2, <1>3, <1>4, CaConnAssumption DEF Cids
  <1>6. c \in ChannelSet /\ c # Absent
    BY <1>2, <1>5, CaConnAssumption DEF Channel, ChannelSet, ChannelStates, Ioids, Cids, Absent, NoCid
  <1>7. channels \in [Chans -> {Absent} \union ChannelSet]
    BY DEF TypeInvs, TypeInv, TypeOK, ChannelSet
  <1> HIDE DEF c
  <1>8. /\ channels' \in [Chans -> {Absent} \union ChannelSet]
        /\ channels'[n] = c
        /\ \A m \in Chans \ {n} : channels'[m] = channels[m]
    BY <1>2, <1>4, <1>6, <1>7
  <1>9. Known' = Known \union {n}
    BY <1>2, <1>6, <1>8 DEF Known, Absent, Channel
  <1> QED
    BY <1>2, <1>4, <1>5, <1>8, <1>9 DEF c

LEMMA TypeAdd ==
    ASSUME TypeInvs, ChannelAdd
    PROVE  TypeInvs'
  <1> USE DEF connVars, chanVars, ioVars, lookupVars, rowVars, evVars, cmdVars
  <1>1. TakeCommand("ChannelAdd")
    BY DEF ChannelAdd
  <1>2. /\ cmds' \in Seq(Commands) /\ Len(cmds) \in Nat
        /\ Len(cmds') = Len(cmds) - 1
    BY <1>1, TakeCommandFacts
  <1>3. cnt \in Nat /\ ncmds \in Nat
    BY CaConnAssumption DEF TypeInvs, TypeInv, TypeOK
  <1>4. CASE Head(cmds).ch \in Known
    <2>1. UNCHANGED chanVars
      BY <1>4 DEF ChannelAdd
    <2> QED
      BY <1>1, <1>2, <1>3, <2>1 DEF ChannelAdd, TakeCommand, TypeInvs, TypeInv, TypeOK,
         InitCounted, InState, Is
  <1>5. CASE Head(cmds).ch \notin Known
    <2> DEFINE n == Head(cmds).ch
    <2>1. /\ n \in Chans /\ cnt' = cnt + 1 /\ cnt' <= ncmds
          /\ init_state_count' = init_state_count + 1
          /\ channels' \in [Chans -> {Absent} \union ChannelSet]
          /\ channels'[n].st = "Init"
          /\ \A m \in Chans \ {n} : channels'[m] = channels[m]
      BY <1>5, AddFacts DEF Channel
    <2>2. InitCounted'
      <3>1. InState("Init")' \subseteq InState("Init") \union {n}
        BY <2>1 DEF InState, Is
      <3>2. /\ IsFiniteSet(InState("Init") \union {n})
            /\ Cardinality(InState("Init") \union {n}) <= Cardinality(InState("Init")) + 1
            /\ Cardinality(InState("Init") \union {n}) \in Nat
        <4> DEFINE I == InState("Init")
        <4>1. IsFiniteSet(I) /\ Cardinality(I) \in Nat
          BY StatesAreSets
        <4> HIDE DEF I, n
        <4>2. /\ IsFiniteSet(I \union {n})
              /\ Cardinality(I \union {n}) = IF n \in I THEN Cardinality(I)
                                             ELSE Cardinality(I) + 1
          BY <4>1, FS_AddElement
        <4>3. Cardinality(I \union {n}) \in Nat
          BY <4>2, FS_CardinalityType
        <4> QED
          BY <4>1, <4>2, <4>3 DEF I
      <3>3. /\ Cardinality(InState("Init")') <= Cardinality(InState("Init") \union {n})
            /\ Cardinality(InState("Init")') \in Nat
        BY <3>1, <3>2, FS_Subset, FS_CardinalityType
      <3> QED
        BY <2>1, <3>2, <3>3, StatesAreSets DEF InitCounted, TypeInvs, TypeInv, TypeOK
    <2> HIDE DEF n
    <2> QED
      BY <1>1, <1>2, <1>3, <2>1, <2>2 DEF ChannelAdd, TakeCommand, TypeInvs, TypeInv,
         TypeOK, ChannelSet
  <1> QED
    BY <1>4, <1>5

(* A channel is closed.                                                    *)
LEMMA CloseFacts ==
    ASSUME TypeInvs, ChannelClose, Head(cmds).ch \in Known
    PROVE  LET n == Head(cmds).ch IN
           /\ channels' = [channels EXCEPT ![n] = Absent]
           /\ channels' \in [Chans -> {Absent} \union ChannelSet]
           /\ Known' = Known \ {n}
           /\ \A m \in Chans \ {n} : channels'[m] = channels[m]
           /\ evq' = Append(evq, Removed(n)) /\ evq' \in Seq(Events)
           /\ Closed(n) \in Rows
           /\ rows' \in Seq(Rows) /\ ingested' = ingested \union {Closed(n)}
           /\ ToSet(rows') = ToSet(rows) \union {Closed(n)}
  <1> DEFINE n == Head(cmds).ch
  <1>0. TypeInv
    BY DEF TypeInvs
  <1>1. /\ n \in Known /\ n \in Chans /\ channels' = [channels EXCEPT ![n] = Absent]
        /\ evq' = Append(evq, Removed(n)) /\ Push(<<Closed(n)>>)
    BY DEF ChannelClose, Known
  <1> HIDE DEF n
  <1>2. channels \in [Chans -> {Absent} \union ChannelSet]
    BY <1>0 DEF TypeInv, TypeOK, ChannelSet
  <1>3. /\ channels' \in [Chans -> {Absent} \union ChannelSet]
        /\ Known' = Known \ {n}
        /\ \A m \in Chans \ {n} : channels'[m] = channels[m]
    BY <1>1, <1>2 DEF Known, Absent, Channel
  <1>4. evq' \in Seq(Events)
    <2>1. Removed(n) \in Events
      BY <1>1 DEF Events, SetEvents
    <2> QED
      BY <1>0, <1>1, <2>1 DEF TypeInv
  <1>5. Closed(n) \in Rows
    BY <1>0, <1>1, RowFacts, ChannelFacts
  <1>6. /\ rows' \in Seq(Rows) /\ ingested' = ingested \union {Closed(n)}
        /\ ToSet(rows') = ToSet(rows) \union {Closed(n)}
    BY <1>0, <1>1, <1>5, PushOne
  <1> QED
    BY <1>1, <1>3, <1>4, <1>5, <1>6 DEF n

LEMMA TypeClose ==
    ASSUME TypeInvs, ChannelClose
    PROVE  TypeInvs'
  <1> USE DEF connVars, chanVars, ioVars, lookupVars, rowVars, evVars, cmdVars
  <1>1. TakeCommand("ChannelClose") /\ UNCHANGED <<cnt, init_state_count>>
    BY DEF ChannelClose
  <1>2. /\ cmds' \in Seq(Commands) /\ Len(cmds) \in Nat
        /\ Len(cmds') = Len(cmds) - 1
    BY <1>1, TakeCommandFacts
  <1>3. cnt \in Nat /\ ncmds \in Nat /\ init_state_count \in Nat
    BY CaConnAssumption DEF TypeInvs, TypeInv, TypeOK
  <1>4. CASE Head(cmds).ch \notin Known
    <2>1. UNCHANGED <<channels, evq, rows, ingested>>
      BY <1>4 DEF ChannelClose
    <2> QED
      BY <1>1, <1>2, <1>3, <2>1 DEF TakeCommand, TypeInvs, TypeInv, TypeOK,
         InitCounted, InState, Is
  <1>5. CASE Head(cmds).ch \in Known
    <2> DEFINE n == Head(cmds).ch
    <2>1. /\ channels' = [channels EXCEPT ![n] = Absent]
          /\ channels' \in [Chans -> {Absent} \union ChannelSet]
          /\ \A m \in Chans \ {n} : channels'[m] = channels[m]
          /\ n \in Known /\ n \in Chans
          /\ evq' \in Seq(Events) /\ Closed(n) \in Rows
          /\ rows' \in Seq(Rows) /\ ingested' = ingested \union {Closed(n)}
      BY <1>5, CloseFacts DEF Known
    <2> HIDE DEF n
    <2>2. channels'[n].st = "Absent"
      BY <2>1 DEF Absent, Channel, TypeInvs, TypeInv, TypeOK
    <2>3. InState("Init")' \subseteq InState("Init")
      BY <2>1, <2>2 DEF InState, Is
    <2>4. InitCounted'
      BY <1>1, <1>3, <2>3, CountKept DEF TypeInvs
    <2> QED
      BY <1>1, <1>2, <1>3, <2>1, <2>4 DEF TakeCommand, TypeInvs, TypeInv, TypeOK, ChannelSet
  <1> QED
    BY <1>4, <1>5

LEMMA TypeEnds ==
    ASSUME TypeInvs, ShutdownCommand \/ PeerGone \/ ProtoError
    PROVE  TypeInvs'
  <1> USE DEF connVars, chanVars, ioVars, lookupVars, rowVars, evVars, cmdVars
  <1>1. PICK due : CloseAll(due)
    BY Zenon DEF ShutdownCommand, PeerGone, ProtoError, TriggerShutdown
  <1>2. /\ pc' \in {"poll", "inner"} /\ state' \in {"Shutdown", "EndOfStream"}
        /\ reason' \in {"OnCommand", "Failed"}
        /\ UNCHANGED <<ticker_spent, cnt, init_state_count, ioid, read_ioids,
                       handler_by_ioid, ping, lookups, lookup_failed, sp, db,
                       status_lost, cmds, told, ncmds>>
    BY DEF ShutdownCommand, PeerGone, ProtoError, TriggerShutdown, LoopInnerError,
       AtConnState
  <1> QED
    BY <1>1, <1>2, TypeCloseAll DEF TypeInvs, TypeInv, TypeOK

(* Messages of the IOC.                                                    *)
LEMMA TypeCreateChanRes ==
    ASSUME TypeInvs, NEW cid \in Cids, CreateChanRes(cid)
    PROVE  TypeInvs'
  <1> USE DEF connVars, chanVars, ioVars, lookupVars, rowVars, evVars, cmdVars
  <1>0. TypeInv
    BY DEF TypeInvs
  <1>1. CASE UNCHANGED <<channels, lookups, ioid, handler_by_ioid, reads>>
    BY <1>0, <1>1 DEF CreateChanRes, TypeInvs, TypeInv, TypeOK, InitCounted, InState, Is
  <1>2. ASSUME NEW n \in ByCid(cid), channels' = To(n, "FetchCaStatusSeries"),
               lookups' = lookups \union {cid}, UNCHANGED <<ioid, handler_by_ioid, reads>>
        PROVE  TypeInvs'
    <2>1. n \in Known
      BY DEF ByCid
    <2>2. InitCounted' /\ channels' \in [Chans -> {Absent} \union ChannelSet]
      BY <1>2, <2>1, ToKeepsCount DEF CreateChanRes, ChannelStates
    <2> QED
      BY <1>0, <1>2, <2>2 DEF CreateChanRes, TypeInvs, TypeInv, TypeOK, ChannelSet
  <1>3. ASSUME ioid < MaxIoid, ioid' = ioid + 1,
               handler_by_ioid' = [handler_by_ioid EXCEPT ![ioid'] = cid],
               reads' = Append(reads, [ioid |-> ioid', cid |-> cid]),
               UNCHANGED <<channels, lookups>>
        PROVE  TypeInvs'
    <2>1. ioid' \in Ioids
      BY <1>0, <1>3, CaConnAssumption DEF TypeInv, TypeOK, Ioids
    <2>2. /\ handler_by_ioid' \in [Ioids -> Cids \union {NoCid}]
          /\ reads' \in Seq([ioid : Ioids, cid : Cids])
      BY <1>0, <1>3, <2>1 DEF TypeInv, TypeOK
    <2> QED
      BY <1>0, <1>3, <2>1, <2>2 DEF CreateChanRes, TypeInvs, TypeInv, TypeOK, InitCounted,
         InState, Is
  <1> QED
    BY <1>1, <1>2, <1>3 DEF CreateChanRes

LEMMA TypeEventAddRes ==
    ASSUME TypeInvs, NEW n \in Chans, EventAddRes(n)
    PROVE  TypeInvs'
  <1> USE DEF connVars, chanVars, ioVars, lookupVars, rowVars, evVars, cmdVars
  <1>0. TypeInv
    BY DEF TypeInvs
  <1>1. n \in Known /\ channels[n].cid \in Cids
    BY <1>0, NamesKnown, ChannelFacts DEF EventAddRes, ChannelStates
  <1>2. InitCounted' /\ channels' \in [Chans -> {Absent} \union ChannelSet]
    <2>1. CASE channels' = channels
      BY <2>1 DEF EventAddRes, TypeInvs, TypeInv, TypeOK, InitCounted, InState, Is,
         ChannelSet
    <2>2. CASE channels' = To(n, "Passive")
      BY <1>1, <2>2, ToKeepsCount DEF EventAddRes, ChannelStates
    <2> QED
      BY <2>1, <2>2 DEF EventAddRes
  <1>3. rows' \in Seq(Rows) /\ ingested' \subseteq Rows
    BY <1>0, <1>1, RowFacts, PushOne DEF EventAddRes, TypeInv
  <1> QED
    BY <1>0, <1>2, <1>3 DEF EventAddRes, TypeInvs, TypeInv, TypeOK, ChannelSet

LEMMA TakeAnswerFacts ==
    ASSUME TypeInv, NEW i \in 1..Len(reads), TakeAnswer(i)
    PROVE  /\ reads' \in Seq([ioid : Ioids, cid : Cids])
           /\ reads[i].ioid \in Ioids /\ reads[i].cid \in Cids
           /\ read_ioids[reads[i].ioid] \in Cids \union {NoCid}
           /\ handler_by_ioid[reads[i].ioid] \in Cids \union {NoCid}
           /\ ~Reorder => i = 1 /\ reads # <<>> /\ reads' = Tail(reads)
  <1> DEFINE R == [ioid : Ioids, cid : Cids]
  <1>1. reads \in Seq(R) /\ reads' = RemoveAt(reads, i) /\ i \in Answerable
    BY DEF TypeInv, TypeOK, TakeAnswer
  <1>2. reads[i] \in R
    <2> HIDE DEF R
    <2> QED
      BY <1>1, ElementOfSeq
  <1>3. reads' \in Seq(R)
    <2> HIDE DEF R
    <2>1. Len(reads) \in Nat /\ SubSeq(reads, 1, i - 1) \in Seq(R) /\ SubSeq(reads, i + 1, Len(reads)) \in Seq(R)
      BY <1>1
    <2> QED
      BY <1>1, <2>1, ConcatProperties DEF RemoveAt
  <1>4. ASSUME ~Reorder PROVE i = 1 /\ reads # <<>> /\ reads' = Tail(reads)
    <2>1. i = 1
      BY <1>1, <1>4 DEF Answerable
    <2>2. reads # <<>>
      BY <1>1
    <2> HIDE DEF R
    <2>3. SubSeq(reads, 1, 0) = <<>> /\ SubSeq(reads, 2, Len(reads)) = Tail(reads)
      BY <1>1, <2>2, TailIsSubSeq
    <2>4. Tail(reads) \in Seq(R)
      BY <1>1, <2>2
    <2>5. <<>> \o Tail(reads) = Tail(reads)
      BY <2>4
    <2> QED
      BY <1>1, <2>1, <2>2, <2>3, <2>5 DEF RemoveAt
  <1> QED
    BY <1>2, <1>3, <1>4 DEF TypeInv, TypeOK

LEMMA TypeEnumFetched ==
    ASSUME TypeInvs, NEW i \in 1..Len(reads), EnumFetched(i)
    PROVE  TypeInvs'
  <1> USE DEF connVars, chanVars, ioVars, lookupVars, rowVars, evVars, cmdVars
  <1> DEFINE id == reads[i].ioid
             h == handler_by_ioid[id]
  <1>0. TypeInv /\ TakeAnswer(i)
    BY DEF TypeInvs, EnumFetched
  <1>1. /\ reads' \in Seq([ioid : Ioids, cid : Cids]) /\ id \in Ioids /\ h \in Cids
    BY <1>0, TakeAnswerFacts DEF EnumFetched
  <1>2. lookups' \subseteq Cids /\ handler_by_ioid' \in [Ioids -> Cids \union {NoCid}]
    BY <1>0, <1>1 DEF EnumFetched, TypeInv, TypeOK
  <1>3. /\ pc' \in {"poll", "inner"} /\ state' \in {"EndOfStream", "PeerReady"}
        /\ reason' \in {reason, "Failed"}
    BY DEF EnumFetched, LoopInnerError, TakeAnswer, AtConnState
  <1>4. InitCounted' /\ channels' \in [Chans -> {Absent} \union ChannelSet]
    <2>1. CASE channels' = channels
      BY <1>0, <2>1 DEF TakeAnswer, TypeInvs, TypeInv, TypeOK, InitCounted, InState, Is,
         ChannelSet
    <2>2. ASSUME NEW n \in ByCid(h), channels' = To(n, "FetchCaStatusSeries")
          PROVE  InitCounted' /\ channels' \in [Chans -> {Absent} \union ChannelSet]
      BY <1>0, <2>2, ToKeepsCount DEF TakeAnswer, ChannelStates, ByCid
    <2> QED
      BY <2>1, <2>2 DEF EnumFetched
  <1> HIDE DEF id, h
  <1> QED
    BY <1>0, <1>1, <1>2, <1>3, <1>4
       DEF EnumFetched, TakeAnswer, TypeInvs, TypeInv, TypeOK, ChannelSet

LEMMA TypeReadNotifyRes ==
    ASSUME TypeInvs, NEW i \in 1..Len(reads), ReadNotifyRes(i)
    PROVE  TypeInvs'
  <1> USE DEF connVars, chanVars, ioVars, lookupVars, rowVars, evVars, cmdVars
  <1> DEFINE id == reads[i].ioid
             cid == read_ioids[id]
  <1>0. TypeInv /\ TakeAnswer(i)
    BY DEF TypeInvs, ReadNotifyRes
  <1>1. /\ reads' \in Seq([ioid : Ioids, cid : Cids]) /\ id \in Ioids
        /\ reads[i].cid \in Cids
    BY <1>0, TakeAnswerFacts
  <1>2. read_ioids' \in [Ioids -> Cids \union {NoCid}]
    BY <1>0, <1>1 DEF ReadNotifyRes, TypeInv, TypeOK
  <1>3. /\ InitCounted' /\ channels' \in [Chans -> {Absent} \union ChannelSet]
        /\ rows' \in Seq(Rows) /\ ingested' \subseteq Rows
    <2>1. CASE UNCHANGED <<channels, rows, ingested>>
      BY <1>0, <2>1 DEF TakeAnswer, TypeInvs, TypeInv, TypeOK, InitCounted, InState, Is,
         ChannelSet
    <2>2. ASSUME NEW n \in ByCid(cid), channels' = To(n, "PollIdle"),
                 Push(<<Value(n, reads[i].cid)>>)
          PROVE  /\ InitCounted' /\ channels' \in [Chans -> {Absent} \union ChannelSet]
                 /\ rows' \in Seq(Rows) /\ ingested' \subseteq Rows
      <3>1. n \in Known /\ Value(n, reads[i].cid) \in Rows
        BY <1>0, <1>1, RowFacts DEF ByCid
      <3>2. rows' \in Seq(Rows) /\ ingested' \subseteq Rows
        BY <1>0, <2>2, <3>1, PushOne DEF TypeInv
      <3> QED
        BY <1>0, <2>2, <3>1, <3>2, ToKeepsCount DEF TakeAnswer, ChannelStates
    <2>3. ASSUME NEW n \in ByCid(cid), channels' = To(n, "Passive"),
                 UNCHANGED <<rows, ingested>>
          PROVE  /\ InitCounted' /\ channels' \in [Chans -> {Absent} \union ChannelSet]
                 /\ rows' \in Seq(Rows) /\ ingested' \subseteq Rows
      BY <1>0, <2>3, ToKeepsCount DEF TakeAnswer, ChannelStates, TypeInv, ByCid
    <2> QED
      BY <2>1, <2>2, <2>3 DEF ReadNotifyRes
  <1> HIDE DEF id, cid
  <1> QED
    BY <1>0, <1>1, <1>2, <1>3
       DEF ReadNotifyRes, TakeAnswer, AtConnState, TypeInvs, TypeInv, TypeOK, ChannelSet

LEMMA TypeStep ==
    ASSUME TypeInvs, [Next]_vars
    PROVE  TypeInvs'
  <1>1. CASE UNCHANGED vars
    BY <1>1 DEF vars, connVars, chanVars, ioVars, lookupVars, rowVars, evVars, cmdVars,
       TypeInvs, TypeInv, TypeOK, InitCounted, InState, Is
  <1>2. CASE SendCommand
    BY <1>2, TypeCommand
  <1>3. CASE Done \/ PopEvent \/ EmitMetrics \/ StreamEnd \/ TickerPending \/ Flush
             \/ PollEnd
    BY <1>3, TypeNoChannel DEF Flush
  <1>4. CASE TickAny
    BY <1>4, TypeTick
  <1>5. CASE Lookup
    BY <1>5, TypeLookup, TypeNoChannel DEF Lookup
  <1>6. CASE TakesCommand
    BY <1>6, TypeAdd, TypeClose, TypeEnds, TypeNoChannel DEF TakesCommand
  <1>7. CASE LoopInner
    BY <1>7, TypeEnds, TypeCreateChanRes, TypeEventAddRes, TypeEnumFetched,
       TypeReadNotifyRes, TypeNoChannel DEF LoopInner
  <1> QED
    BY <1>1, <1>2, <1>3, <1>4, <1>5, <1>6, <1>7 DEF Next, Poll

LEMMA TypeInit == Init => TypeInvs
  <1> SUFFICES ASSUME Init PROVE TypeInvs
    OBVIOUS
  <1>1. InState("Init") = {}
    BY DEF Init, InState, Is, Absent, Channel
  <1>2. InitCounted
    BY <1>1, FS_EmptySet DEF InitCounted, Init
  <1>3. \A S : <<>> \in Seq(S)
    BY EmptySeq
  <1>4. TypeOK
    <2>1. cnt \in 0..ncmds /\ ncmds \in 0..MaxCmds /\ ioid \in Ioids
      BY CaConnAssumption DEF Init, Ioids
    <2>2. reads \in Seq([ioid : Ioids, cid : Cids]) /\ cmds \in Seq(Commands)
      BY <1>3, Zenon DEF Init
    <2> QED
      BY <2>1, <2>2 DEF Init, TypeOK
  <1>5. evq \in Seq(Events) /\ rows \in Seq(Rows) /\ sp \in Seq(Rows)
    BY <1>3, Zenon DEF Init
  <1>6. cnt + Len(cmds) <= ncmds
    BY DEF Init
  <1> QED
    BY <1>2, <1>4, <1>5, <1>6 DEF Init, TypeInvs, TypeInv

LEMMA TypeInvariant == SafetySpec => []TypeInvs
  BY TypeInit, TypeStep, PTL DEF SafetySpec

(* The types of conn.rs, and that init_state_count does not go below zero: *)
(* check_channels_state_init subtracts only what channel_add has counted.  *)
THEOREM TypeCorrect == SafetySpec => []TypeOK
  BY TypeInvariant, PTL DEF TypeInvs, TypeInv
-----------------------------------------------------------------------------
(* What a step does to the channels: it keeps who they are, closes all of  *)
(* them, adds one or closes one.                                           *)
KeepsChannels ==
    /\ cnt' = cnt /\ Known' = Known
    /\ \A n \in Chans : /\ channels'[n].cid = channels[n].cid
                        /\ channels'[n].cfg = channels[n].cfg
ClosesAll == cnt' = cnt /\ ~Up' /\ \E due : CloseAll(due)
AddsOne == ChannelAdd /\ Head(cmds).ch \notin Known
ClosesOne == ChannelClose /\ Head(cmds).ch \in Known

LEMMA NothingKnown ==
    ASSUME channels' = [n \in Chans |-> Absent]
    PROVE  /\ Known' = {} /\ \A n \in Chans : channels'[n] = Absent
  BY DEF Known, Absent, Channel

(* A change of the state of one channel keeps the channels.                *)
LEMMA ToKeeps ==
    ASSUME TypeInv, NEW n \in Known, NEW st \in ChannelStates, channels' = To(n, st),
           cnt' = cnt
    PROVE  KeepsChannels
  <1>1. \A m \in Chans : channels'[m] = To(n, st)[m]
    OBVIOUS
  <1>2. Known' = {m \in Chans : channels'[m] # Absent}
    BY DEF Known, Absent, Channel
  <1> QED
    BY <1>1, <1>2, ToFacts DEF KeepsChannels, Known

LEMMA TickKeeps ==
    ASSUME TypeInvs, TickAny
    PROVE  KeepsChannels \/ ClosesAll
  <1>0. TypeInv /\ InitCounted
    BY DEF TypeInvs
  <1>1. Known' = {m \in Chans : channels'[m] # Absent}
    BY DEF Known, Absent, Channel
  <1>2. ASSUME TickBegin PROVE cnt' = cnt /\ ToCreate = InState("Init")
    BY <1>0, <1>2, TickBeginFacts
  <1>3. CASE TickWithoutProto
    BY <1>3, Zenon DEF TickWithoutProto, TriggerShutdown, ClosesAll, Up
  <1>4. CASE Tick \/ TickPing
    <2>1. channels' = StateInit /\ TickBegin
      BY <1>4 DEF Tick, TickPing
    <2> QED
      BY <1>0, <1>1, <1>2, <2>1, StateInitFacts DEF KeepsChannels, Known
  <1>5. CASE TickPingFails \/ \E n \in Chans : TickReadPendingTimeout(n)
    BY <1>2, <1>5, Zenon
       DEF TickPingFails, TickReadPendingTimeout, TriggerShutdown, ClosesAll, Up
  <1>6. ASSUME NEW n \in Chans, TickRead(n)
        PROVE  KeepsChannels
    <2>1. TickBegin
      BY <1>6 DEF TickRead
    <2>2. PICK st \in {"ReadPending", "PollWait"} : BeginRead(n, st)
      BY <1>6 DEF TickRead
    <2>3. n \in Known /\ n \notin ToCreate /\ st \in ChannelStates
      BY <1>0, <1>2, <1>6, <2>1, NamesKnown DEF TickRead, ChannelStates, InState, Is
    <2>4. \A m \in Chans : /\ m \in Known <=> channels'[m] # Absent
                           /\ channels'[m].cid = channels[m].cid
                           /\ channels'[m].cfg = channels[m].cfg
      BY <1>0, <2>2, <2>3, BeginReadFacts
    <2> QED
      BY <1>1, <1>2, <2>1, <2>4 DEF KeepsChannels, Known
  <1>7. ASSUME NEW n \in Chans, TickPollTimeout(n)
        PROVE  KeepsChannels
    <2>1. TickBegin
      BY <1>7 DEF TickPollTimeout
    <2>2. n \in Known /\ n \notin ToCreate
      BY <1>0, <1>2, <1>7, <2>1, NamesKnown DEF TickPollTimeout, ChannelStates, InState, Is
    <2> QED
      BY <1>0, <1>1, <1>2, <1>7, <2>1, <2>2, PollTimeoutFacts DEF KeepsChannels, Known
  <1> QED
    BY <1>3, <1>4, <1>5, <1>6, <1>7 DEF TickAny

LEMMA ChannelsStep ==
    ASSUME TypeInvs, [Next]_vars
    PROVE  KeepsChannels \/ ClosesAll \/ AddsOne \/ ClosesOne
  <1>0. TypeInv
    BY DEF TypeInvs
  <1>1. ASSUME UNCHANGED <<channels, cnt>> PROVE KeepsChannels
    BY <1>1 DEF KeepsChannels, Known
  <1>2. CASE UNCHANGED vars \/ Done \/ SendCommand \/ PopEvent \/ EmitMetrics
             \/ StreamEnd \/ TickerPending \/ Flush \/ PollEnd
    BY <1>1, <1>2 DEF vars, chanVars, Done, SendCommand, PopEvent, EmitMetrics,
       StreamEnd, TickerPending, Flush, FlushSend, FlushSent, FlushDone, PollEnd
  <1>3. CASE TickAny
    BY <1>3, TickKeeps
  <1>4. CASE Lookup
    <2>1. ASSUME NEW n \in Chans, StatusSeriesFound(n) PROVE KeepsChannels
      BY <1>0, <2>1, ToKeeps, NamesKnown DEF StatusSeriesFound, Is, ChannelStates
    <2>2. ASSUME NEW n \in Chans, DataSeriesFound(n) PROVE KeepsChannels
      <3>1. PICK st \in {"PollIdle", "EnableMonitoring"} : channels' = To(n, st)
        BY <2>2 DEF DataSeriesFound
      <3> QED
        BY <1>0, <2>2, <3>1, ToKeeps, NamesKnown DEF DataSeriesFound, Is, ChannelStates
    <2> QED
      BY <1>1, <1>4, <2>1, <2>2 DEF Lookup, LookupUnexpected, LookupFails, chanVars
  <1>5. CASE TakesCommand
    <2>1. CASE ChannelAdd
      BY <1>1, <2>1 DEF ChannelAdd, AddsOne, chanVars
    <2>2. CASE ChannelClose
      BY <1>1, <2>2 DEF ChannelClose, ClosesOne
    <2>3. CASE ShutdownCommand
      BY <2>3, Zenon DEF ShutdownCommand, TriggerShutdown, ClosesAll, Up
    <2> QED
      BY <1>1, <1>5, <2>1, <2>2, <2>3 DEF TakesCommand, NoCommand, chanVars
  <1>6. CASE LoopInner
    <2>1. CASE PeerGone \/ ProtoError
      BY <2>1, Zenon DEF PeerGone, ProtoError, TriggerShutdown, LoopInnerError, ClosesAll, Up
    <2>2. CASE Connected \/ ReadUnanswered \/ Pong
      BY <1>1, <2>2 DEF Connected, ReadUnanswered, Pong, chanVars
    <2>3. ASSUME NEW cid \in Cids, CreateChanRes(cid) PROVE KeepsChannels
      <3>1. cnt' = cnt
        BY <2>3 DEF CreateChanRes
      <3>2. ASSUME NEW n \in ByCid(cid), channels' = To(n, "FetchCaStatusSeries")
            PROVE  KeepsChannels
        BY <1>0, <3>1, <3>2, ToKeeps DEF ByCid, ChannelStates
      <3> QED
        BY <1>1, <2>3, <3>1, <3>2 DEF CreateChanRes
    <2>4. ASSUME NEW cid \in Cids, CreateChanFail(cid) PROVE KeepsChannels
      BY <1>1, <2>4 DEF CreateChanFail, chanVars
    <2>5. ASSUME NEW n \in Chans, EventAddRes(n) PROVE KeepsChannels
      BY <1>0, <1>1, <2>5, ToKeeps, NamesKnown DEF EventAddRes, ChannelStates
    <2>6. ASSUME NEW i \in 1..Len(reads), EnumFetched(i) PROVE KeepsChannels
      <3>1. cnt' = cnt
        BY <2>6 DEF EnumFetched, TakeAnswer
      <3>2. ASSUME NEW c, NEW n \in ByCid(c), channels' = To(n, "FetchCaStatusSeries")
            PROVE  KeepsChannels
        BY <1>0, <3>1, <3>2, ToKeeps DEF ByCid, ChannelStates
      <3> QED
        BY <1>1, <2>6, <3>1, <3>2 DEF EnumFetched
    <2>7. ASSUME NEW i \in 1..Len(reads), ReadNotifyRes(i) PROVE KeepsChannels
      <3>1. cnt' = cnt
        BY <2>7 DEF ReadNotifyRes, TakeAnswer
      <3>2. ASSUME NEW c, NEW n \in ByCid(c),
                   channels' = To(n, "PollIdle") \/ channels' = To(n, "Passive")
            PROVE  KeepsChannels
        BY <1>0, <3>1, <3>2, ToKeeps DEF ByCid, ChannelStates
      <3> QED
        BY <1>1, <2>7, <3>1, <3>2 DEF ReadNotifyRes
    <2> QED
      BY <1>6, <2>1, <2>2, <2>3, <2>4, <2>5, <2>6, <2>7 DEF LoopInner
  <1> QED
    BY <1>2, <1>3, <1>4, <1>5, <1>6 DEF Next, Poll

(* Every cid belongs to one channel.                                       *)
LEMMA CidsStep ==
    ASSUME TypeInvs, CidsUnique, [Next]_vars
    PROVE  CidsUnique'
  <1>0. TypeInv
    BY DEF TypeInvs
  <1>1. CASE KeepsChannels
    BY <1>1 DEF KeepsChannels, CidsUnique, Known
  <1>2. CASE ClosesAll
    BY <1>0, <1>2, CloseAllFacts, NothingKnown DEF ClosesAll, CidsUnique
  <1>3. CASE AddsOne
    <2> DEFINE n == Head(cmds).ch
    <2>1. /\ n \in Chans /\ cnt' = cnt + 1 /\ Known' = Known \union {n}
          /\ channels'[n].cid = cnt + 1
          /\ \A m \in Chans \ {n} : channels'[m] = channels[m]
      BY <1>3, AddFacts DEF AddsOne, Channel
    <2>2. n \notin Known /\ cnt \in Nat /\ \A m \in Known : channels[m].cid \in Nat /\ m \in Chans
      BY <1>0, <1>3, ChannelFacts, CaConnAssumption DEF AddsOne, TypeInv, TypeOK, Cids, Known
    <2> HIDE DEF n
    <2> QED
      BY <2>1, <2>2 DEF CidsUnique
  <1>4. CASE ClosesOne
    <2> DEFINE n == Head(cmds).ch
    <2>1. /\ Known' = Known \ {n} /\ cnt' = cnt
          /\ \A m \in Chans \ {n} : channels'[m] = channels[m]
      BY <1>4, CloseFacts DEF ClosesOne, ChannelClose
    <2> HIDE DEF n
    <2> QED
      BY <2>1 DEF CidsUnique, Known
  <1> QED
    BY <1>1, <1>2, <1>3, <1>4, ChannelsStep
-----------------------------------------------------------------------------
(* Reads and lookups.  A quiet step registers nothing, takes no answer and *)
(* no lookup result, and lets no channel begin to wait.                    *)
Waiting == {"ReadPending", "PollWait"}
Looking == {"FetchCaStatusSeries", "MakingSeriesWriter"}

Quiet ==
    /\ UNCHANGED <<ioid, read_ioids, handler_by_ioid, lookups, lookup_failed>>
    /\ reads' = reads \/ reads' = <<>> \/ (reads # <<>> /\ reads' = Tail(reads))
    /\ \A n \in Chans :
         /\ channels'[n].st \in Waiting =>
              /\ channels[n].st \in Waiting /\ channels'[n].cid = channels[n].cid
              /\ channels'[n].ioid = channels[n].ioid
         /\ channels'[n].st \in Looking =>
              channels[n].st \in Looking /\ channels'[n].cid = channels[n].cid

(* The steps that are not quiet.                                           *)
Busy ==
    \/ \E n \in Chans : TickRead(n) \/ TickPollTimeout(n) \/ DataSeriesFound(n)
    \/ \E cid \in Cids :
         LookupUnexpected(cid) \/ LookupFails(cid) \/ CreateChanRes(cid)
    \/ \E i \in 1..Len(reads) : EnumFetched(i) \/ ReadNotifyRes(i)

LEMMA QuietOrBusy ==
    ASSUME TypeInvs, [Next]_vars
    PROVE  Quiet \/ Busy
  <1> USE DEF connVars, chanVars, ioVars, lookupVars
  <1>0. TypeInv /\ InitCounted
    BY DEF TypeInvs
  <1>1. ASSUME UNCHANGED <<channels, ioid, read_ioids, handler_by_ioid, lookups,
                           lookup_failed>>,
               reads' = reads \/ (reads # <<>> /\ reads' = Tail(reads))
        PROVE  Quiet
    BY <1>1 DEF Quiet
  <1>2. ASSUME NEW due, CloseAll(due),
               UNCHANGED <<ioid, read_ioids, handler_by_ioid, lookups, lookup_failed>>
        PROVE  Quiet
    <2>1. reads' = <<>> /\ \A n \in Chans : channels'[n].st = "Absent"
      BY <1>0, <1>2, CloseAllFacts DEF Absent, Channel
    <2> QED
      BY <1>2, <2>1 DEF Quiet, Waiting, Looking
  <1>3. CASE UNCHANGED vars \/ Done \/ SendCommand \/ PopEvent \/ EmitMetrics
             \/ StreamEnd \/ TickerPending \/ Flush \/ PollEnd
    BY <1>1, <1>3 DEF vars, Done, SendCommand, PopEvent, EmitMetrics,
       StreamEnd, TickerPending, Flush, FlushSend, FlushSent, FlushDone, PollEnd
  <1>4. CASE TickAny
    <2>1. CASE TickWithoutProto
      <3>1. PICK due : CloseAll(due)
        BY <2>1, Zenon DEF TickWithoutProto, TriggerShutdown
      <3>2. UNCHANGED <<ioid, read_ioids, handler_by_ioid, lookups, lookup_failed>>
        BY <2>1 DEF TickWithoutProto
      <3> QED
        BY <1>2, <3>1, <3>2
    <2>2. CASE Tick \/ TickPing
      <3>1. channels' = StateInit /\ TickBegin /\ UNCHANGED <<ioid, read_ioids, reads>>
        BY <2>2 DEF Tick, TickPing
      <3>2. UNCHANGED <<handler_by_ioid, lookups, lookup_failed>>
        BY <1>0, <3>1, TickBeginFacts
      <3> QED
        BY <1>0, <3>1, <3>2, StateInitFacts DEF Quiet, Waiting, Looking
    <2>3. CASE TickPingFails \/ \E n \in Chans : TickReadPendingTimeout(n)
      <3>1. /\ TickBegin /\ UNCHANGED <<ioid, read_ioids>>
            /\ \E due \in BOOLEAN : CloseAll(due)
        BY <2>3 DEF TickPingFails, TickReadPendingTimeout, TriggerShutdown
      <3>2. UNCHANGED <<handler_by_ioid, lookups, lookup_failed>>
        BY <1>0, <3>1, TickBeginFacts
      <3> QED
        BY <1>2, <3>1, <3>2
    <2> QED
      BY <1>4, <2>1, <2>2, <2>3 DEF TickAny, Busy
  <1>5. CASE Lookup
    <2>1. ASSUME NEW n \in Chans, StatusSeriesFound(n) PROVE Quiet
      <3>1. n \in Known /\ channels' = To(n, "MakingSeriesWriter")
            /\ channels[n].st = "FetchCaStatusSeries"
        BY <1>0, <2>1, NamesKnown DEF StatusSeriesFound, Is, ChannelStates
      <3>2. \A m \in Chans :
              /\ channels'[m].cid = channels[m].cid
              /\ channels'[m].ioid = channels[m].ioid
              /\ channels'[m].st = IF m = n THEN "MakingSeriesWriter" ELSE channels[m].st
        BY <1>0, <3>1, ToFacts DEF ChannelStates
      <3> QED
        BY <2>1, <3>1, <3>2 DEF StatusSeriesFound, Quiet, Waiting, Looking
    <2> QED
      BY <1>5, <2>1 DEF Lookup, Busy
  <1>6. CASE TakesCommand
    <2>1. CASE ChannelAdd \/ ChannelClose
      <3>1. UNCHANGED <<ioid, read_ioids, handler_by_ioid, lookups, lookup_failed, reads>>
        BY <2>1 DEF ChannelAdd, ChannelClose, TakeCommand
      <3>2. CASE AddsOne
        <4> DEFINE n == Head(cmds).ch
        <4>1. /\ n \in Chans /\ channels'[n].st = "Init"
              /\ \A m \in Chans \ {n} : channels'[m] = channels[m]
          BY <3>2, AddFacts DEF AddsOne, Channel
        <4> HIDE DEF n
        <4> QED
          BY <3>1, <4>1 DEF Quiet, Waiting, Looking
      <3>3. CASE ClosesOne
        <4> DEFINE n == Head(cmds).ch
        <4>1. /\ n \in Known /\ Known' = Known \ {n}
              /\ channels' = [channels EXCEPT ![n] = Absent]
              /\ \A m \in Chans \ {n} : channels'[m] = channels[m]
          BY <3>3, CloseFacts DEF ClosesOne
        <4> HIDE DEF n
        <4>2. n \in Chans /\ channels'[n].st = "Absent"
          BY <1>0, <4>1 DEF Known, Absent, Channel, TypeInv, TypeOK
        <4> QED
          BY <3>1, <4>1, <4>2 DEF Quiet, Waiting, Looking
      <3>4. CASE ~AddsOne /\ ~ClosesOne
        BY <1>1, <2>1, <3>1, <3>4 DEF AddsOne, ClosesOne, ChannelAdd, ChannelClose
      <3> QED
        BY <3>2, <3>3, <3>4
    <2>2. CASE ShutdownCommand
      <3>1. PICK due : CloseAll(due)
        BY <2>2, Zenon DEF ShutdownCommand, TriggerShutdown
      <3> QED
        BY <1>2, <2>2, <3>1 DEF ShutdownCommand
    <2> QED
      BY <1>1, <1>6, <2>1, <2>2 DEF TakesCommand, NoCommand
  <1>7. CASE LoopInner
    <2>1. CASE PeerGone \/ ProtoError
      <3>1. PICK due : CloseAll(due)
        BY <2>1, Zenon DEF PeerGone, ProtoError, TriggerShutdown
      <3> QED
        BY <1>2, <2>1, <3>1 DEF PeerGone, ProtoError
    <2>2. CASE Connected \/ ReadUnanswered \/ Pong \/ \E cid \in Cids : CreateChanFail(cid)
      BY <1>1, <2>2 DEF Connected, ReadUnanswered, Pong, CreateChanFail
    <2>3. ASSUME NEW n \in Chans, EventAddRes(n) PROVE Quiet
      <3>1. n \in Known
        BY <1>0, <2>3, NamesKnown DEF EventAddRes, ChannelStates
      <3>2. CASE channels' = To(n, "Passive")
        BY <1>0, <2>3, <3>1, <3>2, ToFacts
           DEF EventAddRes, ChannelStates, Quiet, Waiting, Looking
      <3> QED
        BY <1>1, <2>3, <3>2 DEF EventAddRes
    <2> QED
      BY <1>7, <2>1, <2>2, <2>3 DEF LoopInner, Busy
  <1> QED
    BY <1>3, <1>4, <1>5, <1>6, <1>7 DEF Next, Poll

(* The queue of reads stays in order when its first read is taken, whether *)
(* it is answered as a read, as an enum fetch, or not at all.              *)
LEMMA TailInOrder ==
    ASSUME TypeInv, ReadsInOrder, reads # <<>>, reads' = Tail(reads), ioid' = ioid,
           \A i \in Ioids : read_ioids'[i] \in {NoCid, read_ioids[i]},
           \A i \in Ioids : i # reads[1].ioid => handler_by_ioid'[i] = handler_by_ioid[i]
    PROVE  ReadsInOrder'
  <1>1. reads \in Seq([ioid : Ioids, cid : Cids])
    BY DEF TypeInv, TypeOK
  <1>2. /\ Len(reads) \in Nat /\ Len(reads') = Len(reads) - 1
        /\ \A j \in 1..Len(reads') : j + 1 \in 1..Len(reads) /\ reads'[j] = reads[j + 1]
    BY <1>1
  <1>3. \A j \in 1..Len(reads) : reads[j].ioid \in Ioids
    <2>1. \A j \in 1..Len(reads) : reads[j] \in [ioid : Ioids, cid : Cids]
      BY <1>1, ElementOfSeq
    <2> QED
      BY <2>1
  <1>4. SUFFICES ASSUME NEW j \in 1..Len(reads')
                 PROVE  /\ reads'[j].ioid <= ioid
                        /\ reads'[j].ioid = ioid => IsEnumFetch(j)'
                        /\ \/ IsEnumFetch(j)'
                           \/ read_ioids'[reads'[j].ioid] \in {NoCid, reads'[j].cid}
    BY DEF ReadsInOrder
  <1>5. j + 1 \in 1..Len(reads) /\ reads'[j] = reads[j + 1]
    BY <1>2
  <1>6. ASSUME IsEnumFetch(j + 1) PROVE IsEnumFetch(j)'
    <2>1. \A i \in 1..j : reads[i].ioid # reads[j + 1].ioid
      BY <1>5, <1>6 DEF IsEnumFetch, FirstOfIoid
    <2>2. reads[1].ioid # reads[j + 1].ioid
      BY <2>1, <1>5
    <2>3. \A i \in 1..(j - 1) : reads'[i].ioid # reads'[j].ioid
      <3>1. ASSUME NEW i \in 1..(j - 1) PROVE reads'[i].ioid # reads'[j].ioid
        <4>1. i \in 1..Len(reads') /\ i + 1 \in 1..j
          BY <1>2, <1>5, <3>1
        <4> QED
          BY <1>2, <1>5, <2>1, <4>1
      <3> QED
        BY <3>1
    <2> QED
      BY <1>3, <1>5, <1>6, <2>2, <2>3 DEF IsEnumFetch, FirstOfIoid, NoCid
  <1> QED
    BY <1>3, <1>5, <1>6 DEF ReadsInOrder

(* ... and when a read is begun.                                           *)
LEMMA AppendInOrder ==
    ASSUME TypeInv, ReadsInOrder, IoidsFresh, NEW e \in [ioid : Ioids, cid : Cids],
           reads' = Append(reads, e), ioid < MaxIoid, ioid' = ioid + 1,
           \/ /\ e.ioid = ioid /\ handler_by_ioid' = handler_by_ioid
              /\ read_ioids' = [read_ioids EXCEPT ![ioid] = e.cid]
           \/ /\ e.ioid = ioid' /\ read_ioids' = read_ioids
              /\ handler_by_ioid' = [handler_by_ioid EXCEPT ![ioid'] = e.cid]
    PROVE  ReadsInOrder'
  <1>1. /\ reads \in Seq([ioid : Ioids, cid : Cids]) /\ ioid \in Nat
        /\ handler_by_ioid \in [Ioids -> Cids \union {NoCid}]
        /\ read_ioids \in [Ioids -> Cids \union {NoCid}]
        /\ ioid \in Ioids /\ ioid' \in Ioids /\ NoCid \notin Cids
    BY CaConnAssumption DEF TypeInv, TypeOK, Ioids, Cids, NoCid
  <1>2. /\ Len(reads) \in Nat /\ Len(reads') = Len(reads) + 1
        /\ \A j \in 1..Len(reads) : reads'[j] = reads[j]
        /\ reads'[Len(reads) + 1] = e
    BY <1>1, AppendProperties
  <1>3. \A j \in 1..Len(reads) : reads[j].ioid \in Ioids /\ reads[j].ioid <= ioid
    <2>1. \A j \in 1..Len(reads) : reads[j] \in [ioid : Ioids, cid : Cids]
      BY <1>1, ElementOfSeq
    <2> QED
      BY <2>1 DEF ReadsInOrder
  <1>4. ASSUME NEW j \in 1..Len(reads)
        PROVE  /\ reads'[j].ioid <= ioid' /\ reads'[j].ioid # ioid'
               /\ \/ IsEnumFetch(j)'
                  \/ read_ioids'[reads'[j].ioid] \in {NoCid, reads'[j].cid}
    <2>1. /\ reads'[j] = reads[j] /\ reads[j].ioid \in Ioids /\ reads[j].ioid <= ioid
          /\ reads[j].ioid \in Nat
      BY <1>2, <1>3, CaConnAssumption DEF Ioids
    <2>2. ASSUME IsEnumFetch(j) PROVE IsEnumFetch(j)'
      <3>1. \A i \in 1..(j - 1) : i \in 1..Len(reads)
        BY <1>2
      <3>2. FirstOfIoid(j)'
        BY <1>2, <2>1, <2>2, <3>1 DEF IsEnumFetch, FirstOfIoid
      <3>3. handler_by_ioid'[reads[j].ioid] # NoCid
        BY <1>1, <2>1, <2>2 DEF IsEnumFetch
      <3> QED
        BY <2>1, <3>2, <3>3 DEF IsEnumFetch, NoCid
    <2>3. CASE ~IsEnumFetch(j)
      <3>1. /\ reads[j].ioid # ioid
            /\ read_ioids[reads[j].ioid] \in {NoCid, reads[j].cid}
        BY <2>3 DEF ReadsInOrder
      <3>2. read_ioids'[reads[j].ioid] = read_ioids[reads[j].ioid]
        BY <1>1, <2>1, <3>1
      <3> QED
        BY <1>1, <2>1, <3>1, <3>2
    <2> QED
      BY <1>1, <2>1, <2>2, <2>3
  <1>0. PICK k \in Nat : k = Len(reads) + 1
    BY <1>2
  <1>5. /\ reads'[k].ioid <= ioid' /\ (reads'[k].ioid = ioid' => IsEnumFetch(k)')
        /\ \/ IsEnumFetch(k)'
           \/ read_ioids'[reads'[k].ioid] \in {NoCid, reads'[k].cid}
    <2>1. CASE e.ioid = ioid /\ read_ioids' = [read_ioids EXCEPT ![ioid] = e.cid]
      BY <1>1, <1>2, <1>0, <2>1
    <2>2. CASE e.ioid = ioid' /\ handler_by_ioid' = [handler_by_ioid EXCEPT ![ioid'] = e.cid]
      <3>1. handler_by_ioid'[ioid'] = e.cid /\ e.cid # NoCid
        BY <1>1, <2>2
      <3>2. FirstOfIoid(k)'
        BY <1>1, <1>2, <1>3, <1>0, <2>2, CaConnAssumption DEF FirstOfIoid, Ioids
      <3> QED
        BY <1>1, <1>2, <1>0, <2>2, <3>1, <3>2 DEF IsEnumFetch, NoCid
    <2> QED
      BY <2>1, <2>2
  <1>6. \A j \in 1..Len(reads') : j \in 1..Len(reads) \/ j = k
    BY <1>2, <1>0
  <1> QED
    BY <1>4, <1>5, <1>6 DEF ReadsInOrder, NoCid

ReadInvs ==
    /\ CidsUnique /\ IoidsFresh /\ ReadsRegistered /\ LookupUnderWay
    /\ ~Reorder => ReadsInOrder

LEMMA QuietReads ==
    ASSUME TypeInv, ReadInvs, CidsUnique', Quiet
    PROVE  ReadInvs'
  <1>1. IoidsFresh' /\ ReadsRegistered' /\ LookupUnderWay'
    BY DEF Quiet, ReadInvs, IoidsFresh, ReadsRegistered, LookupUnderWay, Waiting,
       Looking, NoCid, Ioids
  <1>2. ASSUME ~Reorder PROVE ReadsInOrder'
    <2>1. CASE reads' = reads
      BY <1>2, <2>1 DEF Quiet, ReadInvs, ReadsInOrder, IsEnumFetch, FirstOfIoid, NoCid
    <2>2. CASE reads' = <<>>
      BY <2>2 DEF ReadsInOrder
    <2>3. CASE reads # <<>> /\ reads' = Tail(reads)
      BY <1>2, <2>3, TailInOrder DEF Quiet, ReadInvs
    <2> QED
      BY <2>1, <2>2, <2>3 DEF Quiet
  <1> QED
    BY <1>1, <1>2 DEF ReadInvs

(* A waiting channel is found by its cid, and only by that.                *)
LEMMA WaitingFacts ==
    ASSUME TypeInv, ReadInvs, NEW n \in Chans, channels[n].st \in Waiting
    PROVE  /\ n \in Known /\ channels[n].cid \in Cids
           /\ channels[n].ioid \in Ioids /\ channels[n].ioid < ioid
           /\ read_ioids[channels[n].ioid] = channels[n].cid
           /\ \A m \in Known : channels[m].cid = channels[n].cid => m = n
  <1>1. n \in Known /\ channels[n].cid \in Cids /\ channels[n].ioid \in Ioids
    BY ChannelFacts, NamesKnown DEF Waiting, ChannelStates
  <1>2. read_ioids[channels[n].ioid] = channels[n].cid
    BY DEF ReadInvs, ReadsRegistered, Waiting
  <1>3. channels[n].ioid < ioid
    BY <1>1, <1>2, CaConnAssumption DEF ReadInvs, IoidsFresh, Ioids, Cids, NoCid, TypeInv, TypeOK
  <1> QED
    BY <1>1, <1>2, <1>3 DEF ReadInvs, CidsUnique

LEMMA TickReads ==
    ASSUME TypeInvs, ReadInvs, CidsUnique', NEW n \in Chans,
           TickRead(n) \/ TickPollTimeout(n)
    PROVE  ReadInvs'
  <1>0. TypeInv /\ InitCounted
    BY DEF TypeInvs
  <1>1. TickBegin
    BY DEF TickRead, TickPollTimeout
  <1>2. /\ ToCreate = InState("Init")
        /\ UNCHANGED <<handler_by_ioid, lookups, lookup_failed>>
    BY <1>0, <1>1, TickBeginFacts
  <1>3. n \in Known /\ n \notin ToCreate
    BY <1>0, <1>2, NamesKnown DEF TickRead, TickPollTimeout, Is, InState, ChannelStates
  <1>4. CASE TickRead(n)
    <2>1. PICK st \in Waiting : BeginRead(n, st)
      BY <1>4 DEF TickRead, Waiting
    <2>2. /\ ioid < MaxIoid /\ ioid' = ioid + 1
          /\ \A m \in Chans :
                /\ channels'[m].cid = channels[m].cid
                /\ channels'[m].ioid = IF m = n THEN ioid ELSE channels[m].ioid
                /\ channels'[m].st = IF m = n THEN st
                                     ELSE IF m \in ToCreate THEN "Creating"
                                     ELSE channels[m].st
          /\ read_ioids' = [read_ioids EXCEPT ![ioid] =
                               IF @ = NoCid THEN channels[n].cid ELSE @]
          /\ reads' = Append(reads, [ioid |-> ioid, cid |-> channels[n].cid])
      BY <1>0, <1>3, <2>1, BeginReadFacts DEF Waiting, ChannelStates
    <2>3. /\ ioid \in Ioids /\ ioid \in Nat /\ read_ioids[ioid] = NoCid
          /\ read_ioids \in [Ioids -> Cids \union {NoCid}]
          /\ channels[n].cid \in Cids /\ n \in Chans
      BY <1>0, <1>3, ChannelFacts, CaConnAssumption
         DEF TypeInv, TypeOK, ReadInvs, IoidsFresh, Ioids
    <2>4. read_ioids' = [read_ioids EXCEPT ![ioid] = channels[n].cid]
      BY <2>2, <2>3
    <2>5. IoidsFresh'
      BY <2>2, <2>3, <2>4, CaConnAssumption DEF ReadInvs, IoidsFresh, Ioids, NoCid
    <2>6. ReadsRegistered'
      <3>1. ASSUME NEW m \in Chans, channels'[m].st \in Waiting
            PROVE  read_ioids'[channels'[m].ioid] = channels'[m].cid
        <4>1. CASE m = n
          BY <2>2, <2>3, <2>4, <4>1
        <4>2. CASE m # n
          <5>1. channels[m].st \in Waiting
            BY <2>2, <3>1, <4>2 DEF Waiting
          <5>2. /\ channels[m].ioid \in Ioids /\ channels[m].ioid < ioid
                /\ read_ioids[channels[m].ioid] = channels[m].cid
            BY <1>0, <5>1, WaitingFacts
          <5> QED
            BY <2>2, <2>3, <2>4, <4>2, <5>2, CaConnAssumption DEF Ioids
        <4> QED
          BY <4>1, <4>2
      <3> QED
        BY <3>1 DEF ReadsRegistered, Waiting
    <2>7. LookupUnderWay'
      BY <1>2, <2>2 DEF ReadInvs, LookupUnderWay, Waiting
    <2>8. ASSUME ~Reorder PROVE ReadsInOrder'
      <3> DEFINE e == [ioid |-> ioid, cid |-> channels[n].cid]
      <3>1. e \in [ioid : Ioids, cid : Cids] /\ e.ioid = ioid /\ e.cid = channels[n].cid
        BY <2>3
      <3> HIDE DEF e
      <3> QED
        BY <1>0, <1>2, <2>2, <2>4, <2>8, <3>1, AppendInOrder DEF ReadInvs, e
    <2> QED
      BY <2>5, <2>6, <2>7, <2>8 DEF ReadInvs
  <1>5. CASE TickPollTimeout(n)
    <2>1. \A m \in Chans :
                /\ channels'[m].cid = channels[m].cid
                /\ channels'[m].ioid = channels[m].ioid
                /\ channels'[m].st = IF m = n THEN "PollIdle"
                                     ELSE IF m \in ToCreate THEN "Creating"
                                     ELSE channels[m].st
      BY <1>0, <1>3, <1>5, PollTimeoutFacts, StateInitFacts
    <2>2. /\ read_ioids' = [read_ioids EXCEPT ![channels[n].ioid] = NoCid]
          /\ ioid' = ioid /\ reads' = reads /\ channels[n].st \in Waiting
      BY <1>5 DEF TickPollTimeout, Waiting, Is
    <2>3. /\ channels[n].ioid \in Ioids
          /\ read_ioids[channels[n].ioid] = channels[n].cid
          /\ \A m \in Known : channels[m].cid = channels[n].cid => m = n
          /\ read_ioids \in [Ioids -> Cids \union {NoCid}]
      BY <1>0, <2>2, WaitingFacts DEF TypeInv, TypeOK
    <2>4. ReadsRegistered'
      <3>1. ASSUME NEW m \in Chans, channels'[m].st \in Waiting
            PROVE  read_ioids'[channels'[m].ioid] = channels'[m].cid
        <4>1. m # n /\ channels[m].st \in Waiting
          BY <2>1, <3>1 DEF Waiting
        <4>2. /\ channels[m].ioid \in Ioids /\ m \in Known
              /\ read_ioids[channels[m].ioid] = channels[m].cid
          BY <1>0, <4>1, WaitingFacts
        <4> QED
          BY <2>1, <2>2, <2>3, <4>1, <4>2
      <3> QED
        BY <3>1 DEF ReadsRegistered, Waiting
    <2>5. IoidsFresh'
      BY <2>2, <2>3 DEF ReadInvs, IoidsFresh, Ioids, NoCid
    <2>6. LookupUnderWay'
      BY <1>2, <2>1 DEF ReadInvs, LookupUnderWay
    <2>7. ASSUME ~Reorder PROVE ReadsInOrder'
      <3>1. \A i \in Ioids : read_ioids'[i] \in {NoCid, read_ioids[i]}
        BY <2>2, <2>3
      <3>2. \A j \in 1..Len(reads) : reads[j].ioid \in Ioids
        <4>1. \A j \in 1..Len(reads) : reads[j] \in [ioid : Ioids, cid : Cids]
          BY <1>0, ElementOfSeq DEF TypeInv, TypeOK
        <4> QED
          BY <4>1
      <3> QED
        BY <1>2, <2>2, <2>7, <3>1, <3>2
           DEF ReadInvs, ReadsInOrder, IsEnumFetch, FirstOfIoid, NoCid
    <2> QED
      BY <2>4, <2>5, <2>6, <2>7 DEF ReadInvs
  <1> QED
    BY <1>4, <1>5

(* Lookups that are answered, fail or come too late.                       *)
LEMMA LookupReads ==
    ASSUME TypeInvs, ReadInvs, CidsUnique',
           \/ \E n \in Chans : DataSeriesFound(n)
           \/ \E cid \in Cids : LookupUnexpected(cid) \/ LookupFails(cid)
    PROVE  ReadInvs'
  <1> USE DEF chanVars, ioVars, lookupVars
  <1>0. TypeInv
    BY DEF TypeInvs
  <1>1. ASSUME NEW n \in Chans, DataSeriesFound(n) PROVE ReadInvs'
    <2>1. n \in Known /\ channels[n].st = "MakingSeriesWriter"
      BY <1>0, <1>1, NamesKnown DEF DataSeriesFound, Is, ChannelStates
    <2>2. PICK st \in {"PollIdle", "EnableMonitoring"} : channels' = To(n, st)
      BY <1>1 DEF DataSeriesFound
    <2>3. \A m \in Chans :
            /\ channels'[m].cid = channels[m].cid
            /\ channels'[m].ioid = channels[m].ioid
            /\ channels'[m].st = IF m = n THEN st ELSE channels[m].st
      BY <1>0, <2>1, <2>2, ToFacts DEF ChannelStates
    <2>4. /\ lookups' = lookups \ {channels[n].cid}
          /\ UNCHANGED <<ioid, read_ioids, handler_by_ioid, reads, lookup_failed>>
      BY <1>1 DEF DataSeriesFound
    <2>5. \A m \in Chans : channels[m].st \in Looking /\ channels[m].cid = channels[n].cid
                             => m = n
      BY <1>0, <2>1, NamesKnown DEF ReadInvs, CidsUnique, Looking, ChannelStates
    <2>6. LookupUnderWay'
      BY <2>3, <2>4, <2>5 DEF ReadInvs, LookupUnderWay, Looking
    <2>7. IoidsFresh' /\ ReadsRegistered' /\ (~Reorder => ReadsInOrder')
      BY <2>3, <2>4 DEF ReadInvs, IoidsFresh, ReadsRegistered, ReadsInOrder,
         IsEnumFetch, FirstOfIoid, NoCid, Ioids
    <2> QED
      BY <2>6, <2>7 DEF ReadInvs
  <1>2. ASSUME NEW cid \in Cids, LookupUnexpected(cid) PROVE ReadInvs'
    <2>1. /\ lookups' = lookups \ {cid}
          /\ UNCHANGED <<channels, ioid, read_ioids, handler_by_ioid, reads, lookup_failed>>
      BY <1>2 DEF LookupUnexpected
    <2>2. \A n \in Chans : channels[n].st \in Looking => channels[n].cid # cid
      BY <1>0, <1>2, NamesKnown DEF LookupUnexpected, ByCid, Looking, ChannelStates
    <2>3. LookupUnderWay'
      BY <2>1, <2>2 DEF ReadInvs, LookupUnderWay, Looking
    <2> QED
      BY <2>1, <2>3 DEF ReadInvs, IoidsFresh, ReadsRegistered, ReadsInOrder,
         IsEnumFetch, FirstOfIoid, NoCid, Ioids
  <1>3. ASSUME NEW cid \in Cids, LookupFails(cid) PROVE ReadInvs'
    BY <1>3 DEF LookupFails, ReadInvs, LookupUnderWay, IoidsFresh, ReadsRegistered,
       ReadsInOrder, IsEnumFetch, FirstOfIoid, NoCid, Ioids
  <1> QED
    BY <1>1, <1>2, <1>3

(* Answers of the IOC.                                                     *)
LEMMA CreateReads ==
    ASSUME TypeInvs, ReadInvs, CidsUnique', NEW cid \in Cids, CreateChanRes(cid)
    PROVE  ReadInvs'
  <1> USE DEF chanVars, ioVars, lookupVars
  <1>0. TypeInv
    BY DEF TypeInvs
  <1>1. UNCHANGED <<read_ioids, lookup_failed>>
    BY DEF CreateChanRes
  <1>2. CASE UNCHANGED <<channels, lookups, ioid, handler_by_ioid, reads>>
    BY <1>1, <1>2 DEF ReadInvs, LookupUnderWay, IoidsFresh, ReadsRegistered,
       ReadsInOrder, IsEnumFetch, FirstOfIoid, NoCid, Ioids
  <1>3. ASSUME NEW n \in ByCid(cid), channels' = To(n, "FetchCaStatusSeries"),
               lookups' = lookups \union {cid}, UNCHANGED <<ioid, handler_by_ioid, reads>>
        PROVE  ReadInvs'
    <2>1. n \in Known /\ n \in Chans /\ channels[n].cid = cid
      BY DEF ByCid, Known
    <2>2. \A m \in Chans :
            /\ channels'[m].cid = channels[m].cid
            /\ channels'[m].ioid = channels[m].ioid
            /\ channels'[m].st = IF m = n THEN "FetchCaStatusSeries" ELSE channels[m].st
      BY <1>0, <1>3, <2>1, ToFacts DEF ChannelStates
    <2>3. LookupUnderWay'
      BY <1>1, <1>3, <2>1, <2>2 DEF ReadInvs, LookupUnderWay
    <2> QED
      BY <1>1, <1>3, <2>2, <2>3 DEF ReadInvs, IoidsFresh, ReadsRegistered,
         ReadsInOrder, IsEnumFetch, FirstOfIoid, NoCid, Ioids
  <1>4. ASSUME ioid < MaxIoid, ioid' = ioid + 1,
               handler_by_ioid' = [handler_by_ioid EXCEPT ![ioid'] = cid],
               reads' = Append(reads, [ioid |-> ioid', cid |-> cid]),
               UNCHANGED <<channels, lookups>>
        PROVE  ReadInvs'
    <2>1. ioid \in Nat /\ ioid' \in Ioids
      BY <1>0, <1>4, CaConnAssumption DEF TypeInv, TypeOK, Ioids
    <2>2. IoidsFresh' /\ ReadsRegistered' /\ LookupUnderWay'
      BY <1>1, <1>4, <2>1, CaConnAssumption DEF ReadInvs, IoidsFresh, ReadsRegistered,
         LookupUnderWay, NoCid, Ioids
    <2>3. PICK e \in [ioid : Ioids, cid : Cids] : e = [ioid |-> ioid', cid |-> cid]
      BY <2>1
    <2>4. e.ioid = ioid' /\ e.cid = cid
      BY <2>3
    <2>5. ~Reorder => ReadsInOrder'
      BY <1>0, <1>1, <1>4, <2>3, <2>4, AppendInOrder DEF ReadInvs
    <2> QED
      BY <2>2, <2>5 DEF ReadInvs
  <1> QED
    BY <1>2, <1>3, <1>4 DEF CreateChanRes

LEMMA EnumReads ==
    ASSUME TypeInvs, ReadInvs, CidsUnique', NEW i \in 1..Len(reads), EnumFetched(i)
    PROVE  ReadInvs'
  <1> DEFINE id == reads[i].ioid
             h == handler_by_ioid[id]
  <1>0. TypeInv /\ TakeAnswer(i)
    BY DEF TypeInvs, EnumFetched
  <1>1. /\ id \in Ioids /\ UNCHANGED <<ioid, lookup_failed, read_ioids>>
        /\ ~Reorder => i = 1 /\ reads # <<>> /\ reads' = Tail(reads)
        /\ handler_by_ioid' = [handler_by_ioid EXCEPT ![id] = NoCid]
        /\ lookups' = lookups \union {h}
    BY <1>0, TakeAnswerFacts DEF EnumFetched, TakeAnswer
  <1>2. \A m \in Chans :
          /\ channels'[m].cid = channels[m].cid
          /\ channels'[m].ioid = channels[m].ioid
          /\ \/ channels'[m].st = channels[m].st
             \/ channels'[m].st = "FetchCaStatusSeries" /\ channels[m].cid = h
    <2>1. CASE channels' = channels
      BY <2>1
    <2>2. ASSUME NEW n \in ByCid(h), channels' = To(n, "FetchCaStatusSeries")
          PROVE  <1>2
      <3>1. n \in Known /\ n \in Chans /\ channels[n].cid = h
        BY DEF ByCid, Known
      <3> HIDE DEF h
      <3> QED
        BY <1>0, <2>2, <3>1, ToFacts DEF ChannelStates
    <2> QED
      BY <2>1, <2>2 DEF EnumFetched
  <1> HIDE DEF h
  <1>3. LookupUnderWay'
    BY <1>1, <1>2 DEF ReadInvs, LookupUnderWay
  <1>4. IoidsFresh' /\ ReadsRegistered'
    BY <1>1, <1>2 DEF ReadInvs, IoidsFresh, ReadsRegistered, NoCid, Ioids
  <1>5. ASSUME ~Reorder PROVE ReadsInOrder'
    <2>1. \A k \in Ioids : k # reads[1].ioid => handler_by_ioid'[k] = handler_by_ioid[k]
      BY <1>0, <1>1, <1>5 DEF TypeInv, TypeOK
    <2> QED
      BY <1>0, <1>1, <1>5, <2>1, TailInOrder DEF ReadInvs
  <1> QED
    BY <1>3, <1>4, <1>5 DEF ReadInvs

LEMMA NotifyReads ==
    ASSUME TypeInvs, ReadInvs, CidsUnique', NEW i \in 1..Len(reads), ReadNotifyRes(i)
    PROVE  ReadInvs'
  <1> DEFINE id == reads[i].ioid
             cid == read_ioids[id]
  <1>0. TypeInv /\ TakeAnswer(i)
    BY DEF TypeInvs, ReadNotifyRes
  <1>1. /\ id \in Ioids
        /\ UNCHANGED <<ioid, lookups, lookup_failed, handler_by_ioid>>
        /\ ~Reorder => i = 1 /\ reads # <<>> /\ reads' = Tail(reads)
        /\ read_ioids' = [read_ioids EXCEPT ![id] = NoCid]
        /\ read_ioids \in [Ioids -> Cids \union {NoCid}]
    BY <1>0, TakeAnswerFacts DEF ReadNotifyRes, TakeAnswer, TypeInv, TypeOK
  <1>2. /\ \A m \in Chans :
             /\ channels'[m].cid = channels[m].cid
             /\ channels'[m].ioid = channels[m].ioid
             /\ channels'[m].st \in {channels[m].st, "PollIdle", "Passive"}
        /\ \A m \in ByCid(cid) :
             channels'[m].st \in Waiting => channels[m].ioid # id
    <2>0. \A m, k \in ByCid(cid) : m = k
      BY DEF ByCid, ReadInvs, CidsUnique
    <2>1. ASSUME NEW n \in ByCid(cid), NEW st \in {"PollIdle", "Passive"},
                 channels' = To(n, st)
          PROVE  <1>2
      <3>1. n \in Known /\ n \in Chans
        BY DEF ByCid, Known
      <3>2. \A m \in Chans :
              /\ channels'[m].cid = channels[m].cid
              /\ channels'[m].ioid = channels[m].ioid
              /\ channels'[m].st = IF m = n THEN st ELSE channels[m].st
        BY <1>0, <2>1, <3>1, ToFacts DEF ChannelStates
      <3>3. \A m \in ByCid(cid) : channels'[m].st = st
        BY <2>0, <3>1, <3>2
      <3> QED
        BY <3>2, <3>3 DEF Waiting
    <2>2. ASSUME \A n \in ByCid(cid) :
                   ~Is(n, "PollWait") /\ ~(Is(n, "ReadPending") /\ channels[n].ioid = id),
                 channels' = channels
          PROVE  <1>2
      BY <2>2 DEF Is, Waiting
    <2> QED
      BY <2>1, <2>2 DEF ReadNotifyRes
  <1>3. ReadsRegistered'
    <2>1. ASSUME NEW m \in Chans, channels'[m].st \in Waiting
          PROVE  read_ioids'[channels'[m].ioid] = channels'[m].cid
      <3>1. channels[m].st \in Waiting
        BY <1>2, <2>1 DEF Waiting
      <3>2. /\ m \in Known /\ channels[m].ioid \in Ioids
            /\ read_ioids[channels[m].ioid] = channels[m].cid
        BY <1>0, <3>1, WaitingFacts
      <3>3. channels[m].ioid # id
        BY <1>2, <2>1, <3>2 DEF ByCid
      <3> QED
        BY <1>1, <1>2, <3>2, <3>3
    <2> QED
      BY <2>1 DEF ReadsRegistered, Waiting
  <1>4. IoidsFresh'
    BY <1>1 DEF ReadInvs, IoidsFresh, NoCid, Ioids
  <1>5. LookupUnderWay'
    BY <1>1, <1>2 DEF ReadInvs, LookupUnderWay
  <1>6. ASSUME ~Reorder PROVE ReadsInOrder'
    <2>1. \A k \in Ioids : read_ioids'[k] \in {NoCid, read_ioids[k]}
      BY <1>1
    <2> QED
      BY <1>0, <1>1, <1>6, <2>1, TailInOrder DEF ReadInvs
  <1> QED
    BY <1>3, <1>4, <1>5, <1>6 DEF ReadInvs

LEMMA ReadStep ==
    ASSUME TypeInvs, ReadInvs, [Next]_vars
    PROVE  ReadInvs'
  <1>1. TypeInv
    BY DEF TypeInvs
  <1>2. CidsUnique'
    BY CidsStep DEF ReadInvs
  <1>3. CASE Quiet
    BY <1>1, <1>2, <1>3, QuietReads
  <1>4. CASE Busy
    BY <1>2, <1>4, TickReads, LookupReads, CreateReads, EnumReads, NotifyReads DEF Busy
  <1> QED
    BY <1>3, <1>4, QuietOrBusy

LEMMA ReadInit == Init => ReadInvs
  BY CaConnAssumption DEF Init, ReadInvs, CidsUnique, Known, IoidsFresh, ReadsRegistered,
     LookupUnderWay, ReadsInOrder, Absent, Channel

LEMMA ReadInvariant == SafetySpec => [](TypeInvs /\ ReadInvs)
  <1>1. Init => TypeInvs /\ ReadInvs
    BY TypeInit, ReadInit
  <1>2. TypeInvs /\ ReadInvs /\ [Next]_vars => (TypeInvs /\ ReadInvs)'
    BY TypeStep, ReadStep
  <1> QED
    BY <1>1, <1>2, PTL DEF SafetySpec

(* A channel that waits for a read is found by the answer, for any number  *)
(* of channels, reads, timeouts and closes (check_channels_state_poll and  *)
(* handle_read_notify_res agree).                                          *)
THEOREM ReadsAreRegistered == SafetySpec => []ReadsRegistered
  BY ReadInvariant, PTL DEF ReadInvs

(* A channel that waits for a series has a lookup under way, or one that   *)
(* failed (handle_writer_establish_result).                                *)
THEOREM LookupsAreUnderWay == SafetySpec => []LookupUnderWay
  BY ReadInvariant, PTL DEF ReadInvs
-----------------------------------------------------------------------------
(* Rows.  A step queues a set of rows, possibly none: no row for another   *)
(* channel than it was read from, an Opened row only for a channel that    *)
(* stays, and a Closed row for each channel that goes.                     *)
Queues(R) ==
    /\ ingested' = ingested \union R /\ ToSet(rows') = ToSet(rows) \union R
    /\ UNCHANGED <<sp, db>>
    /\ \A r \in R : r.k = "Opened" => \E n \in Known' : channels'[n].cid = r.cid
    /\ \A n \in Known :
         \/ n \in Known' /\ channels'[n].cid = channels[n].cid
         \/ Closed(n) \in R
    /\ ~Reorder => \A r \in R : r.src = r.cid

LEMMA QueuesNone ==
    ASSUME KeepsChannels \/ AddsOne, TypeInvs, UNCHANGED <<rows, sp, db, ingested>>
    PROVE  Queues({})
  <1>1. \A n \in Known : n \in Known' /\ channels'[n].cid = channels[n].cid
    <2>1. CASE KeepsChannels
      BY <2>1 DEF KeepsChannels, Known
    <2>2. CASE AddsOne
      <3> DEFINE n == Head(cmds).ch
      <3>1. /\ n \notin Known /\ Known' = Known \union {n}
            /\ \A m \in Chans \ {n} : channels'[m] = channels[m]
        BY <2>2, AddFacts DEF AddsOne
      <3> HIDE DEF n
      <3> QED
        BY <3>1 DEF Known
    <2> QED
      BY <2>1, <2>2
  <1> QED
    BY <1>1 DEF Queues

LEMMA QueuesOne ==
    ASSUME TypeInv, KeepsChannels, NEW r \in Rows, Push(<<r>>), UNCHANGED <<sp, db>>,
           r.k = "Opened" => \E n \in Known : channels[n].cid = r.cid,
           ~Reorder => r.src = r.cid
    PROVE  Queues({r})
  <1>1. \A n \in Known : n \in Known' /\ channels'[n].cid = channels[n].cid
    BY DEF KeepsChannels, Known
  <1> QED
    BY <1>1, PushOne DEF Queues

LEMMA QueuesClosed ==
    ASSUME TypeInv, NEW due, CloseAll(due), UNCHANGED <<sp, db>>
    PROVE  Queues({Closed(n) : n \in Known})
  <1>1. \A n \in Known : /\ Closed(n).k = "Closed" /\ Closed(n).src = Closed(n).cid
    BY DEF Closed, Row
  <1> QED
    BY <1>1, CloseAllFacts DEF Queues

LEMMA QueuesClosedOne ==
    ASSUME TypeInvs, ClosesOne
    PROVE  \E R : Queues(R)
  <1> DEFINE n == Head(cmds).ch
  <1>1. /\ n \in Known /\ Known' = Known \ {n}
        /\ \A m \in Chans \ {n} : channels'[m] = channels[m]
        /\ ingested' = ingested \union {Closed(n)}
        /\ ToSet(rows') = ToSet(rows) \union {Closed(n)}
    BY CloseFacts DEF ClosesOne
  <1>2. UNCHANGED <<sp, db>>
    BY DEF ClosesOne, ChannelClose, TakeCommand
  <1> HIDE DEF n
  <1>3. Closed(n).k = "Closed" /\ Closed(n).src = Closed(n).cid
    BY DEF Closed, Row
  <1>4. \A m \in Known : \/ m \in Known' /\ channels'[m].cid = channels[m].cid
                         \/ Closed(m) \in {Closed(n)}
    BY <1>1 DEF Known
  <1>5. Queues({Closed(n)})
    BY <1>1, <1>2, <1>3, <1>4 DEF Queues
  <1> QED
    BY <1>5

(* Where rows are queued or flushed.                                       *)
LEMMA RowFrame ==
    ASSUME [Next]_vars
    PROVE  \/ FlushSend \/ FlushSent
           \/ /\ UNCHANGED <<sp, db>>
              /\ \/ UNCHANGED <<rows, ingested>>
                 \/ \E due : CloseAll(due)
                 \/ ClosesOne
                 \/ \E n \in Chans : DataSeriesFound(n) \/ EventAddRes(n)
                 \/ \E i \in 1..Len(reads) : ReadNotifyRes(i)
  <1> USE DEF rowVars
  <1>1. CASE UNCHANGED vars \/ Done \/ SendCommand \/ PopEvent \/ EmitMetrics
             \/ StreamEnd \/ TickerPending \/ Flush \/ PollEnd
    BY <1>1 DEF vars, Done, SendCommand, PopEvent, EmitMetrics,
       StreamEnd, TickerPending, Flush, FlushDone, PollEnd
  <1>2. CASE TickAny
    <2>1. CASE TickWithoutProto
      BY <2>1, Zenon DEF TickWithoutProto, TriggerShutdown
    <2>2. CASE Tick \/ TickPing \/ \E n \in Chans : TickRead(n) \/ TickPollTimeout(n)
      BY <2>2 DEF Tick, TickPing, TickRead, TickPollTimeout, TickBegin, TickRest
    <2>3. CASE TickPingFails \/ \E n \in Chans : TickReadPendingTimeout(n)
      BY <2>3, Zenon DEF TickPingFails, TickReadPendingTimeout, TickBegin, TriggerShutdown
    <2> QED
      BY <1>2, <2>1, <2>2, <2>3 DEF TickAny
  <1>3. CASE Lookup
    BY <1>3 DEF Lookup, StatusSeriesFound, DataSeriesFound, LookupUnexpected, LookupFails
  <1>4. CASE TakesCommand
    <2>1. CASE ChannelAdd \/ NoCommand
      BY <2>1 DEF ChannelAdd, TakeCommand, NoCommand
    <2>2. CASE ChannelClose
      BY <2>2 DEF ChannelClose, TakeCommand, ClosesOne
    <2>3. CASE ShutdownCommand
      BY <2>3, Zenon DEF ShutdownCommand, TriggerShutdown
    <2> QED
      BY <1>4, <2>1, <2>2, <2>3 DEF TakesCommand
  <1>5. CASE LoopInner
    <2>1. CASE PeerGone \/ ProtoError
      BY <2>1, Zenon DEF PeerGone, ProtoError, TriggerShutdown
    <2>2. CASE Connected \/ ReadUnanswered \/ Pong
               \/ \E cid \in Cids : CreateChanRes(cid) \/ CreateChanFail(cid)
      BY <2>2 DEF Connected, ReadUnanswered, Pong, CreateChanRes, CreateChanFail
    <2>3. CASE \E n \in Chans : EventAddRes(n)
      BY <2>3 DEF EventAddRes
    <2>4. CASE \E i \in 1..Len(reads) : EnumFetched(i) \/ ReadNotifyRes(i)
      BY <2>4 DEF EnumFetched, ReadNotifyRes, TakeAnswer
    <2> QED
      BY <1>5, <2>1, <2>2, <2>3, <2>4 DEF LoopInner
  <1> QED
    BY <1>1, <1>2, <1>3, <1>4, <1>5 DEF Next, Poll

(* A value comes from the channel it is written for: answers in order.     *)
LEMMA ValueIsOwn ==
    ASSUME TypeInv, ReadInvs, NEW i \in 1..Len(reads), ReadNotifyRes(i), ~Reorder,
           NEW n \in ByCid(read_ioids[reads[i].ioid])
    PROVE  reads[i].cid = channels[n].cid
  <1>1. TakeAnswer(i) /\ handler_by_ioid[reads[i].ioid] = NoCid
    BY DEF ReadNotifyRes
  <1>2. n \in Known /\ channels[n].cid = read_ioids[reads[i].ioid]
    BY DEF ByCid
  <1>3. channels[n].cid # NoCid
    BY <1>2, ChannelFacts DEF Known
  <1>4. read_ioids[reads[i].ioid] \in {NoCid, reads[i].cid}
    BY <1>1 DEF ReadInvs, ReadsInOrder, IsEnumFetch
  <1> QED
    BY <1>2, <1>3, <1>4

LEMMA RowStep ==
    ASSUME TypeInvs, ReadInvs, [Next]_vars
    PROVE  FlushSend \/ FlushSent \/ \E R : Queues(R)
  <1>0. TypeInv
    BY DEF TypeInvs
  <1>1. ASSUME UNCHANGED <<sp, db, rows, ingested>> PROVE \E R : Queues(R)
    <2>1. CASE ClosesAll
      BY <1>0, <1>1, <2>1, QueuesClosed DEF ClosesAll
    <2> QED
      BY <1>1, <2>1, ChannelsStep, QueuesNone, QueuesClosedOne
  <1>2. ASSUME UNCHANGED <<sp, db>>, NEW due, CloseAll(due) PROVE \E R : Queues(R)
    BY <1>0, <1>2, QueuesClosed
  <1>3. ASSUME UNCHANGED <<sp, db>>, NEW n \in Chans, DataSeriesFound(n)
        PROVE  \E R : Queues(R)
    <2>1. n \in Known /\ Push(<<Opened(n)>>) /\ cnt' = cnt
      BY <1>0, <1>3, NamesKnown DEF DataSeriesFound, Is, ChannelStates
    <2>2. PICK st \in {"PollIdle", "EnableMonitoring"} : channels' = To(n, st)
      BY <1>3 DEF DataSeriesFound
    <2>3. KeepsChannels
      BY <1>0, <2>1, <2>2, ToKeeps DEF ChannelStates
    <2>4. Opened(n) \in Rows /\ Opened(n).cid = channels[n].cid
          /\ Opened(n).src = Opened(n).cid
      <3>1. channels[n].cid \in Cids
        BY <1>0, <2>1, ChannelFacts
      <3> QED
        BY <1>0, <2>1, <3>1, RowFacts DEF Opened, Row
    <2>5. Queues({Opened(n)})
      BY <1>0, <1>3, <2>1, <2>3, <2>4, QueuesOne
    <2> QED
      BY <2>5
  <1>4. ASSUME NEW n \in Known, NEW c \in Cids, Push(<<Value(n, c)>>), KeepsChannels,
               ~Reorder => c = channels[n].cid, UNCHANGED <<sp, db>>
        PROVE  \E R : Queues(R)
    <2>1. Value(n, c) \in Rows
      BY <1>0, RowFacts
    <2>2. /\ Value(n, c).k = "Value"
          /\ ~Reorder => Value(n, c).src = Value(n, c).cid
      BY <1>4 DEF Value, Row
    <2>3. Queues({Value(n, c)})
      BY <1>0, <1>4, <2>1, <2>2, QueuesOne
    <2> QED
      BY <2>3
  <1>5. ASSUME UNCHANGED <<sp, db>>, NEW n \in Chans, EventAddRes(n)
        PROVE  \E R : Queues(R)
    <2>1. n \in Known /\ channels[n].cid \in Cids /\ cnt' = cnt
      BY <1>0, <1>5, NamesKnown, ChannelFacts DEF EventAddRes, ChannelStates
    <2>2. KeepsChannels
      <3>1. CASE channels' = channels
        BY <2>1, <3>1 DEF KeepsChannels, Known
      <3>2. CASE channels' = To(n, "Passive")
        BY <1>0, <2>1, <3>2, ToKeeps DEF ChannelStates
      <3> QED
        BY <1>5, <3>1, <3>2 DEF EventAddRes
    <2> QED
      BY <1>4, <1>5, <2>1, <2>2 DEF EventAddRes
  <1>6. ASSUME UNCHANGED <<sp, db>>, NEW i \in 1..Len(reads), ReadNotifyRes(i)
        PROVE  \E R : Queues(R)
    <2>1. CASE UNCHANGED <<rows, ingested>>
      BY <1>1, <1>6, <2>1
    <2>2. ASSUME NEW n \in ByCid(read_ioids[reads[i].ioid]),
                 channels' = To(n, "PollIdle"), Push(<<Value(n, reads[i].cid)>>)
          PROVE  \E R : Queues(R)
      <3>1. n \in Known /\ cnt' = cnt /\ TakeAnswer(i)
        BY <1>6 DEF ByCid, ReadNotifyRes, TakeAnswer
      <3>2. KeepsChannels
        BY <1>0, <2>2, <3>1, ToKeeps DEF ChannelStates
      <3>3. reads[i].cid \in Cids
        BY <1>0, <3>1, TakeAnswerFacts
      <3>4. ~Reorder => reads[i].cid = channels[n].cid
        BY <1>0, <1>6, ValueIsOwn
      <3> QED
        BY <1>4, <1>6, <2>2, <3>1, <3>2, <3>3, <3>4
    <2> QED
      BY <1>6, <2>1, <2>2 DEF ReadNotifyRes
  <1> QED
    BY <1>1, <1>2, <1>3, <1>5, <1>6, RowFrame, QueuesClosedOne

RowInvs ==
    /\ RowsAccounted /\ OpenedOrClosed
    /\ ~Reorder => ValuesFromOwnChannel

LEMMA RowsKept ==
    ASSUME TypeInvs, ReadInvs, RowInvs, [Next]_vars
    PROVE  RowInvs'
  <1>0. TypeInv
    BY DEF TypeInvs
  <1>1. CASE FlushSend
    <2>1. rows' = <<>> /\ sp' = rows /\ sp = <<>> /\ UNCHANGED <<db, ingested, channels>>
      BY <1>1 DEF FlushSend, chanVars
    <2>2. ToSet(<<>>) = {}
      BY DEF ToSet
    <2>3. RowsAccounted'
      BY <2>1, <2>2 DEF RowInvs, RowsAccounted, ToSet
    <2> QED
      BY <2>1, <2>3 DEF RowInvs, OpenedOrClosed, ValuesFromOwnChannel, Known, Row, Absent,
         Channel
  <1>2. CASE FlushSent
    <2>1. /\ sp' = <<>> /\ db' = db \union ToSet(sp)
          /\ UNCHANGED <<rows, ingested, channels>>
      BY <1>2 DEF FlushSent, chanVars
    <2>2. ToSet(<<>>) = {}
      BY DEF ToSet
    <2>3. RowsAccounted'
      BY <2>1, <2>2 DEF RowInvs, RowsAccounted, ToSet
    <2> QED
      BY <2>1, <2>3 DEF RowInvs, OpenedOrClosed, ValuesFromOwnChannel, Known, Row, Absent,
         Channel
  <1>3. ASSUME NEW R, Queues(R) PROVE RowInvs'
    <2>1. RowsAccounted'
      <3>1. ToSet(sp)' = ToSet(sp)
        BY <1>3 DEF Queues, ToSet
      <3>2. ToSet(rows)' = ToSet(rows) \union R
        BY <1>3 DEF Queues, ToSet
      <3> QED
        BY <1>3, <3>1, <3>2 DEF Queues, RowInvs, RowsAccounted
    <2>2. OpenedOrClosed'
      <3>1. ASSUME NEW r \in ingested', r.k = "Opened"
            PROVE  \/ \E n \in Known' : channels'[n].cid = r.cid
                   \/ Row(r.cid, "Closed", r.cid) \in ingested'
        <4>1. CASE r \in R
          BY <1>3, <3>1, <4>1 DEF Queues
        <4>2. CASE r \in ingested /\ Row(r.cid, "Closed", r.cid) \in ingested
          BY <1>3, <4>2 DEF Queues
        <4>3. CASE \E n \in Known : channels[n].cid = r.cid
          <5>1. PICK n \in Known : channels[n].cid = r.cid
            BY <4>3
          <5>2. Closed(n) = Row(r.cid, "Closed", r.cid)
            BY <5>1 DEF Closed
          <5> QED
            BY <1>3, <5>1, <5>2 DEF Queues
        <4> QED
          BY <1>3, <3>1, <4>1, <4>2, <4>3 DEF Queues, RowInvs, OpenedOrClosed
      <3> QED
        BY <3>1 DEF OpenedOrClosed, Row
    <2>3. ~Reorder => ValuesFromOwnChannel'
      BY <1>3 DEF Queues, RowInvs, ValuesFromOwnChannel
    <2> QED
      BY <2>1, <2>2, <2>3 DEF RowInvs
  <1> QED
    BY <1>1, <1>2, <1>3, RowStep

(* The end.                                                                *)
LEMMA EndStep ==
    ASSUME TypeInvs, OrderlyEnd, [Next]_vars
    PROVE  OrderlyEnd'
  <1> USE DEF connVars, chanVars, rowVars
  <1>0. TypeInv /\ InitCounted
    BY DEF TypeInvs
  <1>1. ASSUME state' \in {"Connecting", "PeerReady"} PROVE OrderlyEnd'
    BY <1>1 DEF OrderlyEnd, Ended
  <1>2. ASSUME NEW due, CloseAll(due),
               \/ state' = "Shutdown"
               \/ state' = "EndOfStream" /\ reason' = "Failed" /\ pc' = "poll"
        PROVE  OrderlyEnd'
    BY <1>0, <1>2, CloseAllFacts, NothingKnown DEF OrderlyEnd, Ended
  <1>3. ASSUME Known' = Known, state' = state, ~Ended PROVE OrderlyEnd'
    BY <1>3 DEF OrderlyEnd, Ended
  <1>4. CASE UNCHANGED vars \/ Done \/ PopEvent
    BY <1>4 DEF vars, Done, PopEvent, OrderlyEnd, Ended, Known, Absent, Channel
  <1>5. CASE EmitMetrics \/ StreamEnd
    BY <1>5 DEF EmitMetrics, StreamEnd, OrderlyEnd, Ended, Known, Absent, Channel
  <1>6. CASE SendCommand
    BY <1>1, <1>6 DEF SendCommand, Up
  <1>7. CASE TickerPending \/ Flush \/ NoCommand
    <2>1. UNCHANGED <<channels, state>> /\ ~Ended
      BY <1>7 DEF TickerPending, Flush, FlushSend, FlushSent, FlushDone, NoCommand,
         OrderlyEnd, Ended, AtTicker
    <2> QED
      BY <1>3, <2>1 DEF Known, Absent, Channel
  <1>8. CASE PollEnd
    BY <1>8 DEF PollEnd, QueuesOutFlushed, OrderlyEnd, Ended, Known, Absent, Channel
  <1>9. CASE TickAny
    <2>1. CASE TickWithoutProto
      <3>1. \E due : CloseAll(due)
        BY <2>1, Zenon DEF TickWithoutProto, TriggerShutdown
      <3>2. state' = "Shutdown"
        BY <2>1 DEF TickWithoutProto, TriggerShutdown
      <3> QED
        BY <1>2, <3>1, <3>2
    <2>2. CASE Tick \/ TickPing \/ \E n \in Chans : TickRead(n) \/ TickPollTimeout(n)
      <3>1. state' = state /\ ~Ended
        BY <2>2 DEF Tick, TickPing, TickRead, TickPollTimeout, TickBegin, TickRest,
           AtTicker, Ended
      <3>2. CASE KeepsChannels
        BY <1>3, <3>1, <3>2 DEF KeepsChannels
      <3>3. CASE ClosesAll
        <4>1. Known' = {}
          BY <1>0, <3>3, CloseAllFacts, NothingKnown DEF ClosesAll
        <4> QED
          BY <3>1, <4>1 DEF OrderlyEnd, Ended
      <3> QED
        BY <1>9, <3>2, <3>3, TickKeeps
    <2>3. CASE TickPingFails \/ \E n \in Chans : TickReadPendingTimeout(n)
      <3>1. (\E due \in BOOLEAN : CloseAll(due)) /\ state' = "Shutdown"
        BY <2>3 DEF TickPingFails, TickReadPendingTimeout, TriggerShutdown
      <3> QED
        BY <1>2, <3>1
    <2> QED
      BY <1>9, <2>1, <2>2, <2>3 DEF TickAny
  <1>10. CASE Lookup \/ ChannelAdd \/ ChannelClose
    BY <1>1, <1>10 DEF Lookup, StatusSeriesFound, DataSeriesFound, LookupUnexpected,
       LookupFails, ChannelAdd, ChannelClose, TakeCommand, Up
  <1>11. CASE ShutdownCommand \/ PeerGone \/ ProtoError
    <2>1. \E due : CloseAll(due)
      BY <1>11, Zenon DEF ShutdownCommand, PeerGone, ProtoError, TriggerShutdown
    <2>2. \/ state' = "Shutdown"
          \/ state' = "EndOfStream" /\ reason' = "Failed" /\ pc' = "poll"
      BY <1>11 DEF ShutdownCommand, PeerGone, ProtoError, TriggerShutdown, LoopInnerError
    <2> QED
      BY <1>2, <2>1, <2>2
  <1>12. CASE LoopInner /\ ~PeerGone /\ ~ProtoError
    <2>1. CASE Connected \/ ReadUnanswered \/ Pong
               \/ (\E cid \in Cids : CreateChanRes(cid) \/ CreateChanFail(cid))
               \/ (\E n \in Chans : EventAddRes(n))
      BY <1>1, <2>1 DEF Connected, ReadUnanswered, Pong, CreateChanRes, CreateChanFail,
         EventAddRes, AtConnState
    <2>2. CASE \E i \in 1..Len(reads) : ReadNotifyRes(i)
      BY <1>1, <2>2 DEF ReadNotifyRes, TakeAnswer, AtConnState
    <2>3. ASSUME NEW i \in 1..Len(reads), EnumFetched(i) PROVE OrderlyEnd'
      <3>1. CASE state' = "PeerReady"
        BY <1>1, <3>1
      <3>2. CASE state' # "PeerReady"
        <4>1. state' = "EndOfStream" /\ reason' = "Failed" /\ pc' = "poll"
          BY <2>3, <3>2 DEF EnumFetched, TakeAnswer, AtConnState, LoopInnerError
        <4> QED
          BY <4>1 DEF OrderlyEnd, Ended
      <3> QED
        BY <3>1, <3>2
    <2> QED
      BY <1>12, <2>1, <2>2, <2>3 DEF LoopInner
  <1> QED
    BY <1>4, <1>5, <1>6, <1>7, <1>8, <1>9, <1>10, <1>11, <1>12
       DEF Next, Poll, TakesCommand

(* Health updates.                                                         *)
LEMMA StatusStep ==
    ASSUME TypeInvs, StatusNotLost, [Next]_vars
    PROVE  StatusNotLost'
  <1> USE DEF evVars
  <1>0. TypeInv /\ InitCounted
    BY DEF TypeInvs
  <1>1. ASSUME status_lost' = status_lost PROVE StatusNotLost'
    BY <1>1 DEF StatusNotLost
  <1>2. CASE UNCHANGED vars \/ Done \/ SendCommand \/ PopEvent \/ EmitMetrics
             \/ StreamEnd \/ TickerPending \/ Flush \/ PollEnd
    BY <1>1, <1>2 DEF vars, Done, SendCommand, PopEvent, EmitMetrics,
       StreamEnd, TickerPending, Flush, FlushSend, FlushSent, FlushDone, PollEnd
  <1>3. CASE TickAny
    <2>1. CASE TickWithoutProto \/ TickPingFails
               \/ \E n \in Chans : TickReadPendingTimeout(n)
      BY <1>1, <2>1 DEF TickWithoutProto, TickPingFails, TickReadPendingTimeout
    <2>2. CASE Tick \/ TickPing \/ \E n \in Chans : TickRead(n) \/ TickPollTimeout(n)
      <3>1. TickBegin /\ TickRest
        BY <2>2 DEF Tick, TickPing, TickRead, TickPollTimeout
      <3> QED
        BY <1>0, <1>1, <3>1, TickBeginFacts, TickRestFacts
    <2> QED
      BY <1>3, <2>1, <2>2 DEF TickAny
  <1>4. CASE Lookup \/ TakesCommand
    BY <1>1, <1>4 DEF Lookup, StatusSeriesFound, DataSeriesFound, LookupUnexpected,
       LookupFails, TakesCommand, ChannelAdd, ChannelClose, TakeCommand, ShutdownCommand,
       NoCommand
  <1>5. CASE LoopInner
    BY <1>1, <1>5 DEF LoopInner, Connected, PeerGone, ProtoError, CreateChanRes,
       CreateChanFail, EventAddRes, EnumFetched, ReadNotifyRes, TakeAnswer,
       ReadUnanswered, Pong
  <1> QED
    BY <1>2, <1>3, <1>4, <1>5 DEF Next, Poll
-----------------------------------------------------------------------------
LEMMA RestInit == Init => RowInvs /\ OrderlyEnd /\ StatusNotLost
  <1> SUFFICES ASSUME Init PROVE RowInvs /\ OrderlyEnd /\ StatusNotLost
    OBVIOUS
  <1>1. RowInvs
    BY DEF Init, RowInvs, RowsAccounted, OpenedOrClosed, ValuesFromOwnChannel, ToSet
  <1> QED
    BY <1>1 DEF Init, OrderlyEnd, Ended, StatusNotLost

LEMMA InvHolds == SafetySpec => []IInv
  <1> DEFINE J == TypeInvs /\ ReadInvs /\ RowInvs /\ OrderlyEnd /\ StatusNotLost
  <1>1. Init => J
    BY TypeInit, ReadInit, RestInit
  <1>2. J /\ [Next]_vars => J'
    BY TypeStep, ReadStep, RowsKept, EndStep, StatusStep
  <1>3. J => IInv
    BY DEF IInv, TypeInvs, ReadInvs, RowInvs
  <1> QED
    BY <1>1, <1>2, <1>3, PTL DEF SafetySpec

(* If the IOC answers reads in order, every value is written for the       *)
(* channel it was read from, although an enum fetch and a read may share   *)
(* an ioid (handle_read_notify_res).                                       *)
THEOREM ValuesAreOwn ==
    ASSUME ~Reorder
    PROVE  SafetySpec => []ValuesFromOwnChannel
  <1>1. IInv => ValuesFromOwnChannel
    BY DEF IInv
  <1> QED
    BY <1>1, InvHolds, PTL

(* An orderly end loses no row, and every opened channel has its Closed    *)
(* row in the database (queues_out_flushed, channel_state_on_shutdown).    *)
THEOREM NothingIsLostAtEnd == SafetySpec => []NothingLostAtEnd
  <1>1. IInv => NothingLostAtEnd
    <2> SUFFICES ASSUME IInv, Ended, reason = "OnCommand"
                 PROVE  /\ ingested \subseteq db
                        /\ \A r \in db : r.k = "Opened" =>
                             Row(r.cid, "Closed", r.cid) \in db
      BY DEF NothingLostAtEnd, Ended
    <2>1. Known = {} /\ rows = <<>> /\ sp = <<>>
      BY DEF IInv, OrderlyEnd
    <2>2. ingested = db
      <3>1. ToSet(<<>>) = {}
        BY DEF ToSet
      <3> QED
        BY <2>1, <3>1 DEF IInv, RowsAccounted
    <2> QED
      BY <2>1, <2>2 DEF IInv, OpenedOrClosed
  <1> QED
    BY <1>1, InvHolds, PTL

(* A connection that stays up never drops a health update: poll_next hands *)
(* out all events before the ticker runs, so that there is room whatever   *)
(* the limit of the queue is (emit_channel_status).                        *)
THEOREM StatusIsNotLost == SafetySpec => []StatusNotLost
  <1>1. IInv => StatusNotLost
    BY DEF IInv
  <1> QED
    BY <1>1, InvHolds, PTL
-----------------------------------------------------------------------------
(* The refinement.  A connection keeps what it promises to the connection  *)
(* set: every step of CaConn is a step of Conn, or changes nothing that    *)
(* the set sees.                                                           *)

(* What the events of this queue look like to the set.                     *)
LEMMA EventFacts ==
    /\ \A e \in Events : e.k # "EndOfStream"
    /\ \A e \in Events : e \in SetEvents <=> e.k # "ChannelStatus"
    /\ ChannelStatus \in Events /\ ChannelStatus.k = "ChannelStatus"
    /\ \A n \in Chans : Removed(n) \in Events /\ Removed(n).k # "ChannelStatus"
    /\ \A c \in Chans :
         LET e == ConnEvent("ChannelCreateFail", c, FailText) IN
         e \in Events /\ e.k # "ChannelStatus"
  BY DEF Events, SetEvents, Removed, ChannelStatus, ConnEvent

LEMMA ForSetType ==
    ASSUME NEW S, NEW q \in Seq(S)
    PROVE  ForSet(q) \in Seq(S)
  BY KeepType DEF ForSet

LEMMA ForSetSmall ==
    /\ ForSet(<<>>) = <<>>
    /\ \A e \in Events : ForSet(<<e>>) = IF e.k = "ChannelStatus" THEN <<>> ELSE <<e>>
  <1>1. PICK K : K = SetEvents
    OBVIOUS
  <1>2. Keep(<<>>, K) = <<>> /\ \A e : Keep(<<e>>, K) = IF e \in K THEN <<e>> ELSE <<>>
    BY KeepSmall
  <1> QED
    BY <1>1, <1>2, EventFacts DEF ForSet

LEMMA ForSetAppend ==
    ASSUME NEW q \in Seq(Events), NEW e \in Events
    PROVE  ForSet(Append(q, e)) = IF e.k = "ChannelStatus" THEN ForSet(q)
                                  ELSE Append(ForSet(q), e)
  <1>1. PICK S : S = Events
    OBVIOUS
  <1>2. q \in Seq(S) /\ e \in S
    BY <1>1
  <1>3. Append(q, e) = q \o <<e>> /\ <<e>> \in Seq(S)
    BY <1>2, AppendIsConcat
  <1>4. ForSet(q \o <<e>>) = ForSet(q) \o ForSet(<<e>>)
    BY <1>2, <1>3, KeepConcat DEF ForSet
  <1>5. ForSet(q) \in Seq(S)
    BY <1>2, ForSetType
  <1>6. ForSet(<<e>>) = IF e.k = "ChannelStatus" THEN <<>> ELSE <<e>>
    BY ForSetSmall
  <1>7. Append(ForSet(q), e) = ForSet(q) \o <<e>> /\ ForSet(q) \o <<>> = ForSet(q)
    BY <1>2, <1>5, AppendIsConcat, ConcatEmptySeq
  <1> QED
    BY <1>3, <1>4, <1>6, <1>7

LEMMA ForSetStatus ==
    ASSUME NEW q \in Seq(Events), NEW due
    PROVE  ForSet(WithChannelStatus(q, due)) = ForSet(q)
  <1>1. ForSet(Append(q, ChannelStatus)) = ForSet(q)
    BY EventFacts, ForSetAppend
  <1> QED
    BY <1>1 DEF WithChannelStatus

(* The event that is handed out first.                                     *)
LEMMA ForSetTail ==
    ASSUME NEW q \in Seq(Events), q # <<>>
    PROVE  /\ Tail(q) \in Seq(Events) /\ Head(q) \in Events
           /\ ForSet(Tail(q)) \in Seq(Events)
           /\ Head(q).k = "ChannelStatus" => ForSet(q) = ForSet(Tail(q))
           /\ Head(q).k # "ChannelStatus" => ForSet(q) = <<Head(q)>> \o ForSet(Tail(q))
  <1>1. PICK S : S = Events
    OBVIOUS
  <1>2. PICK h, t : h = Head(q) /\ t = Tail(q)
    OBVIOUS
  <1>3. /\ q \in Seq(S) /\ h \in S /\ t \in Seq(S) /\ <<h>> \in Seq(S)
    BY <1>1, <1>2
  <1>4. q = <<h>> \o t
    <2>1. q = <<Head(q)>> \o Tail(q)
      BY <1>1
    <2> QED
      BY <1>2, <2>1
  <1>5. ForSet(<<h>> \o t) = ForSet(<<h>>) \o ForSet(t)
    BY <1>3, KeepConcat DEF ForSet
  <1>6. ForSet(t) \in Seq(S)
    BY <1>3, ForSetType
  <1>7. ForSet(<<h>>) = IF h.k = "ChannelStatus" THEN <<>> ELSE <<h>>
    BY <1>1, <1>3, ForSetSmall
  <1>8. <<>> \o ForSet(t) = ForSet(t)
    BY <1>6, ConcatEmptySeq
  <1> QED
    BY <1>1, <1>2, <1>3, <1>4, <1>5, <1>6, <1>7, <1>8

(* The channels that are reported when the connection shuts down.          *)
LEMMA ForSetRemoved ==
    ASSUME TypeInv, NEW s \in SetToSeqs(Known), NEW due
    PROVE  /\ s \in Seq(Known)
           /\ ForSet(WithChannelStatus(evq \o Map(Removed, s), due))
                = ForSet(evq) \o [i \in 1..Len(s) |-> Removed(s[i])]
  <1>1. s \in Seq(Known)
    BY StatesAreSets, ListingCovers
  <1> DEFINE M == {Removed(n) : n \in Chans}
             r == [i \in 1..Len(s) |-> Removed(s[i])]
  <1>2. r = Map(Removed, s)
    BY DEF Map
  <1>3. r \in Seq(M)
    <2>1. Len(s) \in Nat /\ \A i \in 1..Len(s) : Removed(s[i]) \in M
      BY <1>1 DEF Known
    <2> HIDE DEF M
    <2> QED
      BY <2>1
  <1>4. M \subseteq Events /\ M \subseteq SetEvents
    BY EventFacts
  <1> HIDE DEF M, r
  <1>5. ForSet(r) = r
    BY <1>3, <1>4, KeepAll DEF ForSet
  <1>6. r \in Seq(Events) /\ evq \in Seq(Events)
    <2>1. PICK S : S = Events
      OBVIOUS
    <2>2. r \in Seq(S)
      BY <1>3, <1>4, <2>1
    <2> QED
      BY <2>1, <2>2 DEF TypeInv
  <1>7. ForSet(evq \o r) = ForSet(evq) \o ForSet(r) /\ evq \o r \in Seq(Events)
    <2>1. PICK S : S = Events
      OBVIOUS
    <2>2. ForSet(evq \o r) = ForSet(evq) \o ForSet(r) /\ evq \o r \in Seq(S)
      BY <1>6, <2>1, KeepConcat, ConcatProperties DEF ForSet
    <2> QED
      BY <2>1, <2>2
  <1>8. ForSet(WithChannelStatus(evq \o r, due)) = ForSet(evq) \o r
    BY <1>5, <1>7, ForSetStatus
  <1> QED
    BY <1>1, <1>2, <1>8 DEF r
-----------------------------------------------------------------------------
(* The connection as the set sees it, in each phase.                       *)
EndEvent(r) == ConnEvent("EndOfStream", FailText, r)

LEMMA Seen ==
    /\ Up => AbsConn = "up" /\ AbsHeld = [n \in Chans |-> channels[n].cfg]
             /\ AbsEvs = ForSet(evq)
    /\ state = "Shutdown" =>
         AbsConn = "ended" /\ AbsHeld = [n \in Chans |-> NoCfg]
         /\ AbsEvs = Append(ForSet(evq), EndEvent(reason))
    /\ state \in {"EndOfStream", "MetricsEmitted"} =>
         AbsConn = "ended" /\ AbsHeld = [n \in Chans |-> NoCfg]
         /\ AbsEvs = <<EndEvent(reason)>>
    /\ state = "Done" =>
         AbsConn = "none" /\ AbsHeld = [n \in Chans |-> NoCfg] /\ AbsEvs = <<>>
  BY DEF Up, AbsConn, AbsHeld, AbsEvs, EndEvent

LEMMA SeenNext ==
    /\ Up' => AbsConn' = "up" /\ AbsHeld' = [n \in Chans |-> channels'[n].cfg]
              /\ AbsEvs' = ForSet(evq')
    /\ state' = "Shutdown" =>
         AbsConn' = "ended" /\ AbsHeld' = [n \in Chans |-> NoCfg]
         /\ AbsEvs' = Append(ForSet(evq'), EndEvent(reason'))
    /\ state' \in {"EndOfStream", "MetricsEmitted"} =>
         AbsConn' = "ended" /\ AbsHeld' = [n \in Chans |-> NoCfg]
         /\ AbsEvs' = <<EndEvent(reason')>>
    /\ state' = "Done" =>
         AbsConn' = "none" /\ AbsHeld' = [n \in Chans |-> NoCfg] /\ AbsEvs' = <<>>
  BY DEF Up, AbsConn, AbsHeld, AbsEvs, EndEvent, NoCfg, ForSet, SetEvents, Keep, KeepUpTo,
     Removed, ConnEvent, FailText

(* Steps that the set does not see.                                        *)
LEMMA Unseen ==
    ASSUME TypeInv, reason' = reason, cmds' = cmds, ForSet(evq') = ForSet(evq),
           state' = state \/ (Up /\ Up'),
           Up => \A n \in Chans : channels'[n].cfg = channels[n].cfg
    PROVE  UNCHANGED Abs!vars
  <1>1. /\ state \in {"Connecting", "PeerReady", "Shutdown", "EndOfStream",
                       "MetricsEmitted", "Done"}
        /\ state' = state => (Up' <=> Up)
    BY DEF TypeInv, TypeOK, Up
  <1>2. AbsConn' = AbsConn /\ AbsHeld' = AbsHeld /\ AbsEvs' = AbsEvs
    <2>1. CASE Up
      BY <1>1, <2>1, Seen, SeenNext
    <2>2. CASE state' = state /\ ~Up
      BY <1>1, <2>2, Seen, SeenNext DEF Up
    <2> QED
      BY <1>1, <2>1, <2>2
  <1> QED
    BY <1>2 DEF Abs!vars

(* The connection shuts down: what it held is what it reports.             *)
LEMMA ShutdownSeen ==
    ASSUME TypeInv, Up, NEW due, CloseAll(due), NEW r, state' = "Shutdown", reason' = r,
           cmds' = cmds
    PROVE  Abs!Shutdown(r)
  <1>1. PICK s \in SetToSeqs(Known) :
          evq' = WithChannelStatus(evq \o Map(Removed, s), due)
    BY DEF CloseAll
  <1>2. ForSet(evq') = ForSet(evq) \o [i \in 1..Len(s) |-> Removed(s[i])]
    BY <1>1, ForSetRemoved
  <1>3. Abs!Held = Known
    <2>1. AbsHeld = [n \in Chans |-> channels[n].cfg]
      BY Seen
    <2> QED
      BY <2>1, ChannelFacts DEF Abs!Held, Known
  <1>4. AbsEvs' = Append(ForSet(evq'), EndEvent(r)) /\ AbsEvs = ForSet(evq)
    BY Seen, SeenNext
  <1>5. AbsConn = "up" /\ AbsConn' = "ended" /\ AbsHeld' = Abs!NothingHeld
    BY Seen, SeenNext DEF Abs!NothingHeld
  <1>6. [i \in 1..Len(s) |-> Abs!ChannelRemoved(s[i])] = [i \in 1..Len(s) |-> Removed(s[i])]
    BY DEF Abs!ChannelRemoved, Abs!ConnEvent, Removed, ConnEvent
  <1>7. Abs!EndOfStream(r) = EndEvent(r)
    BY DEF Abs!EndOfStream, Abs!ConnEvent, EndEvent, ConnEvent
  <1>8. s \in Abs!SetToSeqs(Known)
    <2>1. Abs!Cardinality(Known) = Cardinality(Known)
      BY DEF Abs!Cardinality, Cardinality
    <2> QED
      BY <2>1 DEF Abs!SetToSeqs, SetToSeqs
  <1>9. \E t \in Abs!SetToSeqs(Abs!Held) :
          AbsEvs' = Append(AbsEvs \o [i \in 1..Len(t) |-> Abs!ChannelRemoved(t[i])],
                           Abs!EndOfStream(r))
    BY <1>2, <1>3, <1>4, <1>6, <1>7, <1>8
  <1> QED
    BY <1>5, <1>9 DEF Abs!Shutdown

(* It is shutting down already and fails: the end has another reason.      *)
LEMMA ReplacedSeen ==
    ASSUME TypeInv, Known = {}, evq = <<>>, state = "Shutdown", NEW due, CloseAll(due),
           state' = "Shutdown", reason' = "Failed", cmds' = cmds
    PROVE  Abs!ReasonReplaced
  <1>1. PICK s \in SetToSeqs(Known) :
          evq' = WithChannelStatus(evq \o Map(Removed, s), due)
    BY DEF CloseAll
  <1>2. ForSet(evq') = ForSet(evq) \o [i \in 1..Len(s) |-> Removed(s[i])] /\ s \in Seq({})
    BY <1>1, ForSetRemoved
  <1>3. ForSet(evq) = <<>>
    BY ForSetSmall
  <1>4. ForSet(evq') = <<>>
    BY <1>2, <1>3
  <1>5. AbsEvs = <<EndEvent(reason)>> /\ AbsEvs' = <<EndEvent("Failed")>>
    BY <1>3, <1>4, Seen, SeenNext
  <1>6. AbsConn = "ended" /\ AbsConn' = "ended" /\ AbsHeld' = AbsHeld
    BY Seen, SeenNext
  <1>7. Abs!Last(AbsEvs).k = "EndOfStream" /\ AbsEvs # <<>> /\ Len(AbsEvs) = 1
    BY <1>5 DEF Abs!Last, EndEvent, ConnEvent
  <1>8. Abs!EndOfStream("Failed") = EndEvent("Failed")
    BY DEF Abs!EndOfStream, Abs!ConnEvent, EndEvent, ConnEvent
  <1>9. AbsEvs' = [AbsEvs EXCEPT ![Len(AbsEvs)] = Abs!EndOfStream("Failed")]
    BY <1>5, <1>7, <1>8
  <1> QED
    BY <1>6, <1>7, <1>9 DEF Abs!ReasonReplaced

(* An error of loop_inner: the events in the queue are not handed out.     *)
LEMMA ErrorSeen ==
    ASSUME TypeInv, Up, state' = "EndOfStream", reason' = "Failed", cmds' = cmds
    PROVE  Abs!Error
  <1>1. AbsConn = "up" /\ AbsConn' = "ended" /\ AbsHeld' = Abs!NothingHeld
    BY Seen, SeenNext DEF Abs!NothingHeld
  <1>2. AbsEvs \in Seq(Events)
    BY Seen, ForSetType DEF TypeInv
  <1>3. AbsEvs' = <<EndEvent("Failed")>>
    BY SeenNext
  <1>4. 0 \in 0..Len(AbsEvs) /\ SubSeq(AbsEvs, 1, 0) = <<>>
    BY <1>2
  <1>5. Abs!EndOfStream("Failed") = EndEvent("Failed")
    BY DEF Abs!EndOfStream, Abs!ConnEvent, EndEvent, ConnEvent
  <1>6. AbsEvs' = Append(SubSeq(AbsEvs, 1, 0), Abs!EndOfStream("Failed"))
    BY <1>3, <1>4, <1>5
  <1> QED
    BY <1>1, <1>4, <1>6 DEF Abs!Error
-----------------------------------------------------------------------------
(* Steps of poll_next that the set does not see, or that hand it an event. *)
LEMMA PopSeen ==
    ASSUME TypeInv, PopEvent
    PROVE  Abs!SetStep \/ UNCHANGED Abs!vars
  <1>1. /\ evq \in Seq(Events) /\ evq # <<>> /\ evq' = Tail(evq)
        /\ UNCHANGED <<state, reason, channels, cmds>>
        /\ Up \/ state = "Shutdown"
    BY DEF TypeInv, PopEvent, connVars, chanVars, cmdVars, Up
  <1>2. CASE Head(evq).k = "ChannelStatus"
    BY <1>1, <1>2, ForSetTail, Unseen
  <1>3. CASE Head(evq).k # "ChannelStatus"
    <2>1. PICK h, t : h = Head(evq) /\ t = ForSet(evq')
      OBVIOUS
    <2>2. ForSet(evq) = <<h>> \o t /\ t \in Seq(Events) /\ h \in Events
      BY <1>1, <1>3, <2>1, ForSetTail
    <2>3. h.k # "EndOfStream"
      BY <2>2, EventFacts
    <2>4. cmds \in Seq(Commands) /\ Abs!IsPrefix(cmds, cmds')
      BY <1>1 DEF TypeInv, TypeOK, Abs!IsPrefix
    <2>5. AbsConn' = AbsConn /\ AbsHeld' = AbsHeld
      BY <1>1 DEF AbsConn, AbsHeld, Up
    <2>6. AbsEvs # <<>> /\ Head(AbsEvs) = h /\ AbsEvs' = Tail(AbsEvs)
      <3>1. PICK S : S = Events \union {EndEvent(reason)}
        OBVIOUS
      <3>2. h \in S /\ t \in Seq(S) /\ EndEvent(reason) \in S
        BY <2>2, <3>1
      <3>3. CASE Up
        <4>1. AbsEvs = <<h>> \o t /\ AbsEvs' = t
          BY <1>1, <2>1, <2>2, <3>3, Seen, SeenNext DEF Up
        <4> QED
          BY <3>2, <4>1
      <3>4. CASE state = "Shutdown"
        <4>1. /\ AbsEvs = Append(<<h>> \o t, EndEvent(reason))
              /\ AbsEvs' = Append(t, EndEvent(reason))
          BY <1>1, <2>1, <2>2, <3>4, Seen, SeenNext
        <4> QED
          BY <3>2, <4>1
      <3> QED
        BY <1>1, <3>3, <3>4
    <2> QED
      BY <2>3, <2>4, <2>5, <2>6 DEF Abs!SetStep
  <1> QED
    BY <1>2, <1>3

(* The end of the stream, and the steps around it.                         *)
LEMMA EndSeen ==
    ASSUME TypeInv, EmitMetrics \/ StreamEnd \/ PollEnd
    PROVE  Abs!SetHandlesEnd \/ UNCHANGED Abs!vars
  <1> USE DEF connVars, chanVars, evVars, cmdVars
  <1>1. CASE EmitMetrics
    <2>1. /\ state = "EndOfStream" /\ state' = "MetricsEmitted"
          /\ UNCHANGED <<reason, cmds>>
      BY <1>1 DEF EmitMetrics
    <2>2. AbsConn' = AbsConn /\ AbsHeld' = AbsHeld /\ AbsEvs' = AbsEvs
      BY <2>1, Seen, SeenNext
    <2> QED
      BY <2>1, <2>2 DEF Abs!vars
  <1>2. CASE StreamEnd
    <2>1. state = "MetricsEmitted" /\ state' = "Done" /\ cmds' = <<>>
      BY <1>2 DEF StreamEnd
    <2>2. /\ AbsConn = "ended" /\ AbsConn' = "none" /\ AbsHeld' = AbsHeld
          /\ AbsEvs = <<EndEvent(reason)>> /\ AbsEvs' = <<>>
      BY <2>1, Seen, SeenNext
    <2>3. AbsEvs # <<>> /\ Head(AbsEvs).k = "EndOfStream" /\ AbsEvs' = Tail(AbsEvs)
      BY <2>2 DEF EndEvent, ConnEvent
    <2> QED
      BY <2>1, <2>2, <2>3 DEF Abs!SetHandlesEnd
  <1>3. CASE PollEnd
    <2>1. UNCHANGED <<reason, channels, evq, cmds>>
      BY <1>3 DEF PollEnd
    <2>2. CASE state' = state
      BY <2>1, <2>2, Unseen
    <2>3. CASE state = "Shutdown" /\ state' = "EndOfStream" /\ evq = <<>>
      <3>1. ForSet(evq) = <<>>
        BY <2>3, ForSetSmall
      <3>2. AbsConn' = AbsConn /\ AbsHeld' = AbsHeld /\ AbsEvs' = AbsEvs
        BY <2>1, <2>3, <3>1, Seen, SeenNext
      <3> QED
        BY <2>1, <3>2 DEF Abs!vars
    <2> QED
      BY <1>3, <2>2, <2>3 DEF PollEnd, QueuesOutFlushed
  <1> QED
    BY <1>1, <1>2, <1>3

(* A step after which the connection is up neither closed all channels,    *)
(* nor, unless it took a command, one of them.                             *)
LEMMA StepKeeps ==
    ASSUME TypeInvs, [Next]_vars, cmds' = cmds, Up'
    PROVE  KeepsChannels
  <1>1. ASSUME NEW k, TakeCommand(k) PROVE FALSE
    <2>1. Len(cmds') = Len(cmds) - 1 /\ Len(cmds) \in Nat
      BY <1>1, TakeCommandFacts
    <2> QED
      BY <2>1
  <1> QED
    BY <1>1, ChannelsStep DEF AddsOne, ClosesOne, ClosesAll, ChannelAdd, ChannelClose

LEMMA TickSeen ==
    ASSUME TypeInvs, OrderlyEnd, TickAny
    PROVE  Abs!Shutdown("Failed") \/ Abs!ReasonReplaced \/ UNCHANGED Abs!vars
  <1>0. TypeInv /\ InitCounted /\ evq \in Seq(Events)
    BY DEF TypeInvs, TypeInv
  <1>1. ASSUME NEW due, CloseAll(due), state' = "Shutdown", reason' = "Failed",
               cmds' = cmds, AtTicker
        PROVE  Abs!Shutdown("Failed") \/ Abs!ReasonReplaced
    <2>1. evq = <<>> /\ (Up \/ state = "Shutdown")
      BY <1>1 DEF AtTicker, Up
    <2>2. state = "Shutdown" => Known = {}
      BY DEF OrderlyEnd
    <2> QED
      BY <1>0, <1>1, <2>1, <2>2, ShutdownSeen, ReplacedSeen
  <1>2. CASE TickWithoutProto
    <2>1. PICK due : CloseAll(due)
      BY <1>2, Zenon DEF TickWithoutProto, TriggerShutdown
    <2>2. state' = "Shutdown" /\ reason' = "Failed" /\ cmds' = cmds /\ AtTicker
      BY <1>2 DEF TickWithoutProto, TriggerShutdown, cmdVars
    <2> QED
      BY <1>1, <2>1, <2>2
  <1>3. CASE TickPingFails \/ \E n \in Chans : TickReadPendingTimeout(n)
    <2>1. /\ TickBegin /\ state' = "Shutdown" /\ reason' = "Failed"
          /\ \E due \in BOOLEAN : CloseAll(due)
      BY <1>3 DEF TickPingFails, TickReadPendingTimeout, TriggerShutdown
    <2>2. cmds' = cmds /\ AtTicker
      BY <2>1 DEF TickBegin, cmdVars
    <2> QED
      BY <1>1, <2>1, <2>2
  <1>4. CASE Tick \/ TickPing \/ \E n \in Chans : TickRead(n) \/ TickPollTimeout(n)
    <2>1. TickBegin /\ TickRest
      BY <1>4 DEF Tick, TickPing, TickRead, TickPollTimeout
    <2>2. UNCHANGED <<state, reason, cmds>>
      BY <2>1 DEF TickBegin, TickRest, cmdVars
    <2>3. ForSet(evq') = ForSet(evq)
      <3>1. PICK due \in BOOLEAN : evq' = WithChannelStatus(evq, due)
        BY <2>1 DEF TickRest
      <3> QED
        BY <1>0, <3>1, ForSetStatus
    <2>4. Up => \A n \in Chans : channels'[n].cfg = channels[n].cfg
      <3>1. SUFFICES ASSUME Up PROVE KeepsChannels
        BY DEF KeepsChannels
      <3> QED
        BY <2>2, <3>1, TickKeeps DEF ClosesAll, Up
    <2> QED
      BY <1>0, <2>2, <2>3, <2>4, Unseen
  <1> QED
    BY <1>2, <1>3, <1>4 DEF TickAny

(* The commands of the set.                                                *)
LEMMA SendSeen ==
    ASSUME TypeInv, SendCommand
    PROVE  Abs!SetStep
  <1>1. UNCHANGED <<state, reason, channels, evq>> /\ cmds = <<>> /\ Up
    BY DEF SendCommand, connVars, chanVars, evVars
  <1>2. cmds' = <<>> \/ \E c \in Commands : cmds' = Append(<<>>, c)
    BY <1>1 DEF SendCommand
  <1>3. Abs!IsPrefix(cmds, cmds')
    BY <1>1, <1>2 DEF Abs!IsPrefix
  <1>4. AbsConn' = AbsConn /\ AbsHeld' = AbsHeld /\ AbsEvs' = AbsEvs
    <2>1. Up'
      BY <1>1 DEF Up
    <2> QED
      BY <1>1, <2>1, Seen, SeenNext
  <1> QED
    BY <1>3, <1>4 DEF Abs!SetStep

LEMMA AddSeen ==
    ASSUME TypeInvs, ChannelAdd
    PROVE  Abs!TakeAdd
  <1>0. TypeInv
    BY DEF TypeInvs
  <1> DEFINE c == Head(cmds)
  <1>1. TakeCommand("ChannelAdd") /\ UNCHANGED evq
    BY DEF ChannelAdd
  <1>2. /\ Up /\ Up' /\ cmds # <<>> /\ c.k = "ChannelAdd" /\ cmds' = Tail(cmds)
    BY <1>1 DEF TakeCommand, connVars, Up
  <1>3. c.ch \in Chans
    BY <1>1, TakeCommandFacts
  <1>4. /\ AbsConn = "up" /\ AbsConn' = "up" /\ AbsEvs' = AbsEvs
        /\ AbsHeld = [n \in Chans |-> channels[n].cfg]
        /\ AbsHeld' = [n \in Chans |-> channels'[n].cfg]
    BY <1>1, <1>2, Seen, SeenNext
  <1>5. c.ch \in Known <=> AbsHeld[c.ch] # NoCfg
    BY <1>0, <1>3, <1>4, ChannelFacts
  <1>6. CASE c.ch \in Known
    <2>1. channels' = channels
      BY <1>6 DEF ChannelAdd, chanVars
    <2> QED
      BY <1>2, <1>4, <1>5, <1>6, <2>1 DEF Abs!TakeAdd
  <1>7. CASE c.ch \notin Known
    <2>1. /\ channels'[c.ch].cfg = c.cfg
          /\ \A m \in Chans \ {c.ch} : channels'[m] = channels[m]
      BY <1>7, AddFacts DEF Channel
    <2>2. AbsHeld' = [AbsHeld EXCEPT ![c.ch] = c.cfg]
      BY <1>3, <1>4, <2>1
    <2> QED
      BY <1>2, <1>4, <1>5, <1>7, <2>2 DEF Abs!TakeAdd
  <1> QED
    BY <1>6, <1>7

LEMMA CloseSeen ==
    ASSUME TypeInvs, ChannelClose
    PROVE  Abs!TakeClose
  <1>0. TypeInv
    BY DEF TypeInvs
  <1>1. TakeCommand("ChannelClose")
    BY DEF ChannelClose
  <1>2. PICK n : n = Head(cmds).ch
    OBVIOUS
  <1>3. /\ Up /\ Up' /\ cmds # <<>> /\ Head(cmds).k = "ChannelClose" /\ cmds' = Tail(cmds)
    BY <1>1 DEF TakeCommand, connVars, Up
  <1>4. n \in Chans
    BY <1>1, <1>2, TakeCommandFacts
  <1>5. /\ AbsConn = "up" /\ AbsConn' = "up"
        /\ AbsEvs = ForSet(evq) /\ AbsEvs' = ForSet(evq')
        /\ AbsHeld = [m \in Chans |-> channels[m].cfg]
        /\ AbsHeld' = [m \in Chans |-> channels'[m].cfg]
    BY <1>3, Seen, SeenNext
  <1>6. n \in Known <=> AbsHeld[n] # NoCfg
    BY <1>0, <1>4, <1>5, ChannelFacts
  <1>7. Abs!ChannelRemoved(n) = Removed(n)
    BY DEF Abs!ChannelRemoved, Abs!ConnEvent, Removed, ConnEvent
  <1>8. CASE n \in Known
    <2>1. /\ channels' = [channels EXCEPT ![n] = Absent]
          /\ evq' = Append(evq, Removed(n))
          /\ \A m \in Chans \ {n} : channels'[m] = channels[m]
      BY <1>2, <1>8, CloseFacts
    <2>2. channels'[n].cfg = NoCfg
      BY <1>0, <1>4, <2>1 DEF Absent, Channel, TypeInv, TypeOK
    <2>3. AbsHeld' = [AbsHeld EXCEPT ![n] = NoCfg]
      BY <1>4, <1>5, <2>1, <2>2
    <2>4. AbsEvs' = Append(AbsEvs, Abs!ChannelRemoved(n))
      BY <1>0, <1>4, <1>5, <1>7, <2>1, ForSetAppend, EventFacts DEF TypeInv
    <2> QED
      BY <1>2, <1>3, <1>5, <1>6, <1>8, <2>3, <2>4 DEF Abs!TakeClose
  <1>9. CASE n \notin Known
    <2>1. UNCHANGED <<channels, evq>>
      BY <1>2, <1>9 DEF ChannelClose
    <2>2. AbsHeld' = [AbsHeld EXCEPT ![n] = NoCfg] /\ AbsEvs' = AbsEvs
      BY <1>4, <1>5, <1>6, <1>9, <2>1
    <2> QED
      BY <1>2, <1>3, <1>5, <1>6, <1>9, <2>2 DEF Abs!TakeClose
  <1> QED
    BY <1>8, <1>9

LEMMA CreateFailSeen ==
    ASSUME TypeInv, NEW cid, CreateChanFail(cid)
    PROVE  Abs!CreateFail
  <1>1. /\ UNCHANGED <<state, reason, channels, cmds>> /\ Up
    BY DEF CreateChanFail, connVars, chanVars, cmdVars, AtConnState, Up
  <1>2. PICK c \in Chans : evq' = Append(evq, ConnEvent("ChannelCreateFail", c, FailText))
    BY DEF CreateChanFail
  <1>3. PICK e : e = ConnEvent("ChannelCreateFail", c, FailText)
    OBVIOUS
  <1>4. e \in Events /\ e.k # "ChannelStatus"
    BY <1>3, EventFacts
  <1>5. ForSet(evq') = Append(ForSet(evq), e)
    BY <1>2, <1>3, <1>4, ForSetAppend DEF TypeInv
  <1>6. Up'
    BY <1>1 DEF Up
  <1>7. AbsConn = "up" /\ AbsConn' = "up" /\ AbsHeld' = AbsHeld /\ AbsEvs' = Append(AbsEvs, e)
    BY <1>1, <1>5, <1>6, Seen, SeenNext
  <1>8. e = Abs!ConnEvent("ChannelCreateFail", c, FailText)
    BY <1>3 DEF ConnEvent, Abs!ConnEvent
  <1> QED
    BY <1>1, <1>7, <1>8 DEF Abs!CreateFail
-----------------------------------------------------------------------------
LEMMA StepSeen ==
    ASSUME TypeInvs, OrderlyEnd, [Next]_vars
    PROVE  [Abs!Next]_Abs!vars
  <1> USE DEF connVars, chanVars, evVars, cmdVars
  <1>0. TypeInv
    BY DEF TypeInvs
  <1>1. ASSUME UNCHANGED <<state, reason, channels, evq, cmds>>
        PROVE  UNCHANGED Abs!vars
    BY <1>0, <1>1, Unseen
  <1>2. ASSUME UNCHANGED <<reason, evq, cmds>>, Up, Up', KeepsChannels
        PROVE  UNCHANGED Abs!vars
    BY <1>0, <1>2, Unseen DEF KeepsChannels
  <1>3. ASSUME NEW due, CloseAll(due), Up, cmds' = cmds, state' = "Shutdown",
               reason' \in {"OnCommand", "Failed"}
        PROVE  Abs!Next
    <2>1. Abs!Shutdown(reason')
      BY <1>0, <1>3, ShutdownSeen
    <2> QED
      BY <1>3, <2>1 DEF Abs!Next
  <1>4. CASE UNCHANGED vars \/ Done \/ TickerPending \/ Flush
    BY <1>1, <1>4 DEF vars, Done, TickerPending, Flush, FlushSend, FlushSent, FlushDone
  <1>5. CASE SendCommand
    BY <1>0, <1>5, SendSeen DEF Abs!Next
  <1>6. CASE PopEvent
    BY <1>0, <1>6, PopSeen DEF Abs!Next
  <1>7. CASE EmitMetrics \/ StreamEnd \/ PollEnd
    BY <1>0, <1>7, EndSeen DEF Abs!Next
  <1>8. CASE TickAny
    BY <1>8, TickSeen DEF Abs!Next
  <1>9. CASE Lookup
    <2>1. UNCHANGED <<state, reason, evq, cmds>> /\ Up
      BY <1>9 DEF Lookup, StatusSeriesFound, DataSeriesFound, LookupUnexpected, LookupFails
    <2> QED
      BY <1>2, <1>9, <2>1, StepKeeps DEF Up
  <1>10. CASE TakesCommand
    <2>1. CASE ShutdownCommand
      <3>1. PICK due : CloseAll(due)
        BY <2>1, Zenon DEF ShutdownCommand, TriggerShutdown
      <3> QED
        BY <1>3, <2>1, <3>1 DEF ShutdownCommand, TriggerShutdown
    <2>2. CASE NoCommand
      BY <1>1, <2>2 DEF NoCommand
    <2> QED
      BY <1>10, <2>1, <2>2, AddSeen, CloseSeen DEF TakesCommand, Abs!Next
  <1>11. CASE LoopInner
    <2>1. CASE PeerGone
      <3>1. PICK due : CloseAll(due)
        BY <2>1, Zenon DEF PeerGone, TriggerShutdown
      <3> QED
        BY <1>3, <2>1, <3>1 DEF PeerGone, TriggerShutdown, AtConnState, Up
    <2>2. CASE ProtoError
      BY <1>0, <2>2, ErrorSeen DEF ProtoError, LoopInnerError, AtConnState, Up, Abs!Next
    <2>3. CASE Connected
      BY <1>0, <2>3, Unseen DEF Connected, AtConnState, Up
    <2>4. CASE ReadUnanswered \/ Pong
      BY <1>1, <2>4 DEF ReadUnanswered, Pong
    <2>5. ASSUME NEW cid \in Cids, CreateChanFail(cid) PROVE Abs!Next
      BY <1>0, <2>5, CreateFailSeen DEF Abs!Next
    <2>6. ASSUME NEW i \in 1..Len(reads), EnumFetched(i), ByCid(handler_by_ioid[reads[i].ioid]) = {}
          PROVE  Abs!Next
      <3>1. Up /\ state' = "EndOfStream" /\ reason' = "Failed" /\ cmds' = cmds
        BY <2>6 DEF EnumFetched, TakeAnswer, LoopInnerError, AtConnState, Up
      <3> QED
        BY <1>0, <3>1, ErrorSeen DEF Abs!Next
    <2>7. CASE \/ \E cid \in Cids : CreateChanRes(cid)
               \/ \E n \in Chans : EventAddRes(n)
               \/ \E i \in 1..Len(reads) :
                    \/ ReadNotifyRes(i)
                    \/ EnumFetched(i) /\ ByCid(handler_by_ioid[reads[i].ioid]) # {}
      <3>1. UNCHANGED <<state, reason, evq, cmds>> /\ Up
        BY <2>7 DEF CreateChanRes, EventAddRes, ReadNotifyRes, EnumFetched, TakeAnswer,
           AtConnState, Up
      <3> QED
        BY <1>2, <2>7, <3>1, StepKeeps DEF Up
    <2> QED
      BY <1>11, <2>1, <2>2, <2>3, <2>4, <2>5, <2>6, <2>7 DEF LoopInner
  <1> QED
    BY <1>4, <1>5, <1>6, <1>7, <1>8, <1>9, <1>10, <1>11 DEF Next, Poll

(* The connection that poll_next drives implements the one that the        *)
(* connection set relies on: commands are taken in order, each close is    *)
(* reported once, an orderly end reports every channel before it, and      *)
(* nothing follows the end.                                                *)
THEOREM ConnIsRefined == SafetySpec => ConnRefined
  <1>1. Init => Abs!Init
    <2> SUFFICES ASSUME Init PROVE Abs!Init
      OBVIOUS
    <2>1. Up /\ evq = <<>> /\ cmds = <<>> /\ channels = [n \in Chans |-> Absent]
      BY DEF Init, Up
    <2>2. AbsConn = "up" /\ AbsEvs = <<>> /\ AbsHeld = Abs!NothingHeld
      BY <2>1, Seen, ForSetSmall DEF Abs!NothingHeld, Absent, Channel
    <2> QED
      BY <2>1, <2>2 DEF Abs!Init
  <1>2. IInv /\ [Next]_vars => [Abs!Next]_Abs!vars
    BY StepSeen DEF IInv, TypeInvs
  <1> QED
    BY <1>1, <1>2, InvHolds, PTL DEF SafetySpec, ConnRefined, Abs!Spec
================================================================================
