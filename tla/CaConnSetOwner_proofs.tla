------------------------ MODULE CaConnSetOwner_proofs -----------------------
(***************************************************************************)
(* Who collects a channel, when no timer of the set runs out early: for    *)
(* any number of channels, addresses, commands and failing connections, at *)
(* most one connection holds a channel, and the one that the channel is    *)
(* assigned to runs it with the current configuration.                     *)
(*                                                                         *)
(* A channel is followed through the queues: what a connection will still  *)
(* do with it (CmdsAbout), what the set will still hear of it (NotesOn),   *)
(* and whether it waits for a search or for its answer.                    *)
(***************************************************************************)
EXTENDS CaConnSet_proofs

CmdsOf(c) == {m \in Commands : m.ch = c}
CmdsAbout(a, c) == Keep(cmds[a], CmdsOf(c))
NotesOn(a, c) == Keep(evs[a], {ChannelRemoved(c)})

(* The connection at a holds the channel, or is told something about it.   *)
Active(a, c) == conn[a] = "up" /\ (held[a][c] # NoCfg \/ CmdsAbout(a, c) # <<>>)

(* The set knows that the connection at a may have the channel.            *)
Tied(c, a) ==
    \/ At(c, a)
    \/ Is(c, "UnassigningForConfigChange") /\ channel_states[c].addr = a
    \/ Is(c, "ToRemove")

Free(c) == \A a \in Addrs : ~Active(a, c) /\ NotesOn(a, c) = <<>>

(* At most one connection is active for a channel, and the set knows it.   *)
OneActive(c) ==
    \A a \in Addrs : Active(a, c) =>
        /\ Tied(c, a)
        /\ \A b \in Addrs : Active(b, c) => b = a

(* A channel that was closed is reported once, by nobody else, and is held *)
(* nowhere at that time.                                                   *)
OneNote(c) ==
    \A a \in Addrs : NotesOn(a, c) # <<>> =>
        /\ NotesOn(a, c) = <<ChannelRemoved(c)>>
        /\ Tied(c, a)
        /\ At(c, a) => conn[a] # "up"
        /\ \A b \in Addrs : ~Active(b, c) /\ (b # a => NotesOn(b, c) = <<>>)

(* What a connection is told about a channel: nothing, to close it, or,    *)
(* when it does not have it, to add it and perhaps to close it again.      *)
CmdShape(c) ==
    \A a \in Addrs : conn[a] = "up" =>
        \/ CmdsAbout(a, c) = <<>>
        \/ CmdsAbout(a, c) = <<ChannelClose(c)>>
        \/ /\ held[a][c] = NoCfg
           /\ \E x \in Configs \union {NoCfg} :
                \/ CmdsAbout(a, c) = <<ChannelAdd(c, x)>>
                \/ CmdsAbout(a, c) = <<ChannelAdd(c, x), ChannelClose(c)>>

(* An assigned channel runs as configured, or will.                        *)
RunsAsConfigured(c) ==
    \A a \in Addrs : At(c, a) /\ conn[a] = "up" =>
        \/ CmdsAbout(a, c) = <<>> /\ held[a][c] = config[c]
        \/ CmdsAbout(a, c) = <<ChannelAdd(c, config[c])>> /\ held[a][c] = NoCfg

SearchedIsFree(c) ==
    /\ c \in Range(searches) =>
         channel_states[c].v \in {"AddrSearchPending", "ToRemove"} /\ Free(c)
    /\ c \in Range(find_ioc_queue_set) =>
         channel_states[c].v \in {"AddrSearchPlanned", "ToRemove"} /\ Free(c)

ChanOK(c) ==
    /\ OneActive(c) /\ OneNote(c) /\ CmdShape(c) /\ RunsAsConfigured(c)
    /\ SearchedIsFree(c)

(* The life of a connection: it reports while it is up, then it ends.      *)
Reports ==
    {ChannelRemoved(c) : c \in Chans} \union {ChannelCreateFail(c) : c \in Chans}
ConnOK(a) ==
    \/ conn[a] = "up" /\ evs[a] \in Seq(Reports)
    \/ /\ conn[a] = "ended" /\ held[a] = NothingHeld
       /\ \E f \in Seq(Reports), r \in {"OnCommand", "Failed"} :
            evs[a] = Append(f, EndOfStream(r))
    \/ /\ conn[a] = "none" /\ held[a] = NothingHeld
       /\ evs[a] = <<>> /\ cmds[a] = <<>>

OwnerInv ==
    /\ SearchInv
    /\ Distinct(searches) /\ Distinct(find_ioc_queue_set)
    /\ \A a \in Addrs : ConnOK(a)
    /\ \A c \in Chans : ChanOK(c)
-----------------------------------------------------------------------------
(* The queues.                                                             *)

LEMMA RecordFacts ==
    /\ \A c : ChannelClose(c).ch = c /\ ChannelClose(c).k = "ChannelClose"
    /\ \A c, x : /\ ChannelAdd(c, x).ch = c /\ ChannelAdd(c, x).k = "ChannelAdd"
                 /\ ChannelAdd(c, x).cfg = x
    /\ \A c : ChannelRemoved(c).name = c /\ ChannelRemoved(c).k = "ChannelRemoved"
    /\ \A c : /\ ChannelCreateFail(c).k = "ChannelCreateFail"
              /\ ChannelCreateFail(c).name = FailText
    /\ \A r : EndOfStream(r).k = "EndOfStream" /\ EndOfStream(r).name = r
    /\ \A c \in Chans : ChannelClose(c) \in CmdsOf(c)
    /\ \A c \in Chans, x \in Configs \union {NoCfg} : ChannelAdd(c, x) \in CmdsOf(c)
    /\ \A a : WithAddress(a).v = "WithAddress" /\ WithAddress(a).addr = a
  BY DEF ChannelClose, ChannelAdd, ConnCommand, ChannelRemoved, ChannelCreateFail,
     EndOfStream, ConnEvent, CmdsOf, Commands, WithAddress, ChannelState

(* Of the channels that are closed, each is closed once.                   *)
LEMMA CloseAllAbout ==
    ASSUME NEW S \in SUBSET Chans, NEW c \in Chans
    PROVE  /\ CloseAll(S) \in Seq(Commands)
           /\ Keep(CloseAll(S), CmdsOf(c))
                = IF c \in S THEN <<ChannelClose(c)>> ELSE <<>>
  <1> DEFINE n == Cardinality(S)
  <1>1. IsFiniteSet(S)
    BY FS_Subset, ConnSetAssumption
  <1>2. PICK s : s = InOrder(S)
    OBVIOUS
  <1>3. /\ s \in Seq(S) /\ Len(s) = n /\ Distinct(s) /\ ToSet(s) = S
        /\ n \in Nat
    BY <1>1, <1>2, InOrderDistinct, FS_CardinalityType
  <1> HIDE DEF n
  <1>4. PICK q : q = CloseAll(S)
    OBVIOUS
  <1>5. q = [i \in 1..n |-> ChannelClose(s[i])]
    BY <1>2, <1>4 DEF CloseAll, n
  <1>6. \A i \in 1..n : s[i] \in Chans /\ ChannelClose(s[i]) \in Commands
    BY <1>3 DEF ChannelClose, ConnCommand, Commands
  <1>7. q \in Seq(Commands) /\ Len(q) = n /\ \A i \in 1..n : q[i] = ChannelClose(s[i])
    BY <1>3, <1>5, <1>6
  <1>8. Distinct(q)
    <2>1. ASSUME NEW i \in 1..n, NEW j \in 1..n, q[i] = q[j] PROVE i = j
      <3>1. s[i] = s[j]
        BY <1>7, <2>1, RecordFacts
      <3> QED
        BY <1>3, <3>1 DEF Distinct
    <2> QED
      BY <1>7, <2>1 DEF Distinct
  <1>9. ToSet(q) = {ChannelClose(d) : d \in S}
    <2>1. \A d \in S : \E i \in 1..n : s[i] = d
      BY <1>3 DEF ToSet
    <2>2. \A i \in 1..n : s[i] \in S
      BY <1>3
    <2> QED
      BY <1>3, <1>7, <2>1, <2>2 DEF ToSet
  <1>10. ToSet(q) \intersect CmdsOf(c) = IF c \in S THEN {ChannelClose(c)} ELSE {}
    BY <1>9, RecordFacts DEF CmdsOf
  <1>11. Keep(q, CmdsOf(c)) = IF c \in S THEN <<ChannelClose(c)>> ELSE <<>>
    BY <1>7, <1>8, <1>10, KeepOne
  <1> QED
    BY <1>4, <1>7, <1>11

(* A connection that ends reports each of its channels once.               *)
LEMMA RemovedAllOn ==
    ASSUME NEW S \in SUBSET Chans, NEW c \in Chans
    PROVE  /\ RemovedAll(S) \in Seq(Reports)
           /\ Keep(RemovedAll(S), {ChannelRemoved(c)})
                = IF c \in S THEN <<ChannelRemoved(c)>> ELSE <<>>
  <1> DEFINE n == Cardinality(S)
  <1>1. IsFiniteSet(S)
    BY FS_Subset, ConnSetAssumption
  <1>2. PICK s : s = InOrder(S)
    OBVIOUS
  <1>3. /\ s \in Seq(S) /\ Len(s) = n /\ Distinct(s) /\ ToSet(s) = S
        /\ n \in Nat
    BY <1>1, <1>2, InOrderDistinct, FS_CardinalityType
  <1> HIDE DEF n
  <1>4. PICK q : q = RemovedAll(S)
    OBVIOUS
  <1>5. q = [i \in 1..n |-> ChannelRemoved(s[i])]
    BY <1>2, <1>4 DEF RemovedAll, n
  <1>6. \A i \in 1..n : s[i] \in Chans /\ ChannelRemoved(s[i]) \in Reports
    BY <1>3 DEF Reports
  <1>7. q \in Seq(Reports) /\ Len(q) = n /\ \A i \in 1..n : q[i] = ChannelRemoved(s[i])
    BY <1>3, <1>5, <1>6
  <1>8. Distinct(q)
    <2>1. ASSUME NEW i \in 1..n, NEW j \in 1..n, q[i] = q[j] PROVE i = j
      <3>1. s[i] = s[j]
        BY <1>7, <2>1, RecordFacts
      <3> QED
        BY <1>3, <3>1 DEF Distinct
    <2> QED
      BY <1>7, <2>1 DEF Distinct
  <1>9. ToSet(q) = {ChannelRemoved(d) : d \in S}
    <2>1. \A d \in S : \E i \in 1..n : s[i] = d
      BY <1>3 DEF ToSet
    <2>2. \A i \in 1..n : s[i] \in S
      BY <1>3
    <2> QED
      BY <1>3, <1>7, <2>1, <2>2 DEF ToSet
  <1>10. ToSet(q) \intersect {ChannelRemoved(c)}
           = IF c \in S THEN {ChannelRemoved(c)} ELSE {}
    BY <1>9, RecordFacts
  <1>11. Keep(q, {ChannelRemoved(c)}) = IF c \in S THEN <<ChannelRemoved(c)>> ELSE <<>>
    BY <1>7, <1>8, <1>10, KeepOne
  <1> QED
    BY <1>4, <1>7, <1>11
-----------------------------------------------------------------------------
(* What a step may do to one channel.                                      *)

(* Nothing comes about the channel into the queues; a connection that      *)
(* starts has nothing to do with it.                                       *)
NothingNew(c) ==
    \A a \in Addrs :
        /\ NotesOn(a, c)' = NotesOn(a, c) \/ NotesOn(a, c)' = <<>>
        /\ conn'[a] = "up" =>
             /\ held'[a][c] = held[a][c]
             /\ CmdsAbout(a, c)' = CmdsAbout(a, c)
             /\ \/ conn[a] = "up"
                \/ /\ CmdsAbout(a, c) = <<>> /\ held[a][c] = NoCfg
                   /\ NotesOn(a, c) = <<>> /\ ~At(c, a)'

LEMMA ChanKeeps ==
    ASSUME NEW c \in Chans, ChanOK(c), NothingNew(c),
           \A a \in Addrs : /\ Active(a, c) \/ NotesOn(a, c)' # <<>>
                            /\ Tied(c, a)
                            => Tied(c, a)',
           \A a \in Addrs : At(c, a)' => At(c, a) /\ config'[c] = config[c],
           c \in Range(searches)' =>
             /\ channel_states'[c].v \in {"AddrSearchPending", "ToRemove"}
             /\ Free(c),
           c \in Range(find_ioc_queue_set)' =>
             /\ channel_states'[c].v \in {"AddrSearchPlanned", "ToRemove"}
             /\ Free(c)
    PROVE  ChanOK(c)'
  <1>1. \A a \in Addrs : Active(a, c)' => Active(a, c)
    BY DEF Active, NothingNew
  <1>2. \A a \in Addrs : NotesOn(a, c)' # <<>> => NotesOn(a, c)' = NotesOn(a, c)
    BY DEF NothingNew
  <1>3. OneActive(c)'
    BY <1>1 DEF ChanOK, OneActive
  <1>4. OneNote(c)'
    <2> SUFFICES ASSUME NEW a \in Addrs, NotesOn(a, c)' # <<>>
                 PROVE  /\ NotesOn(a, c)' = <<ChannelRemoved(c)>>
                        /\ Tied(c, a)'
                        /\ At(c, a)' => conn'[a] # "up"
                        /\ \A b \in Addrs :
                             ~Active(b, c)' /\ (b # a => NotesOn(b, c)' = <<>>)
      BY DEF OneNote
    <2>1. /\ NotesOn(a, c) = <<ChannelRemoved(c)>> /\ NotesOn(a, c) # <<>>
          /\ Tied(c, a)
          /\ At(c, a) => conn[a] # "up"
          /\ \A b \in Addrs : ~Active(b, c) /\ (b # a => NotesOn(b, c) = <<>>)
      BY <1>2 DEF ChanOK, OneNote
    <2>2. At(c, a)' => conn'[a] # "up"
      BY <2>1 DEF NothingNew
    <2> QED
      BY <1>1, <1>2, <2>1, <2>2
  <1>5. CmdShape(c)'
    BY DEF ChanOK, CmdShape, NothingNew
  <1>6. RunsAsConfigured(c)'
    BY DEF ChanOK, RunsAsConfigured, NothingNew
  <1>7. Free(c) => Free(c)'
    BY <1>1, <1>2 DEF Free
  <1>8. SearchedIsFree(c)'
    BY <1>7 DEF SearchedIsFree
  <1> QED
    BY <1>3, <1>4, <1>5, <1>6, <1>8 DEF ChanOK

(* A step that leaves a channel and its search alone.                      *)
LEMMA ChanFrame ==
    ASSUME NEW c \in Chans, ChanOK(c), NothingNew(c),
           channel_states'[c] = channel_states[c], config'[c] = config[c],
           Range(searches)' \subseteq Range(searches),
           Range(find_ioc_queue_set)' \subseteq Range(find_ioc_queue_set)
    PROVE  ChanOK(c)'
  <1>1. /\ \A a \in Addrs : Tied(c, a)' <=> Tied(c, a)
        /\ \A a \in Addrs : At(c, a)' <=> At(c, a)
    BY DEF Tied, At, Is
  <1>2. /\ c \in Range(searches)' =>
             /\ channel_states'[c].v \in {"AddrSearchPending", "ToRemove"}
             /\ Free(c)
        /\ c \in Range(find_ioc_queue_set)' =>
             /\ channel_states'[c].v \in {"AddrSearchPlanned", "ToRemove"}
             /\ Free(c)
    BY DEF ChanOK, SearchedIsFree
  <1> QED
    BY <1>1, <1>2, ChanKeeps

(* A channel with another state is free.                                   *)
LEMMA FreeState ==
    ASSUME NEW c \in Chans, ChanOK(c),
           channel_states[c].v \notin {"WithAddress", "UnassigningForConfigChange",
                                       "ToRemove"}
    PROVE  Free(c)
  <1>1. \A a \in Addrs : ~Tied(c, a)
    BY AtFacts DEF Tied, Is
  <1> QED
    BY <1>1 DEF Free, ChanOK, OneActive, OneNote

(* A channel moves between states in which it is free.                     *)
LEMMA ChanMoves ==
    ASSUME NEW c \in Chans, ChanOK(c), NothingNew(c), Free(c),
           channel_states'[c].v # "WithAddress",
           c \in Range(searches)' =>
             channel_states'[c].v \in {"AddrSearchPending", "ToRemove"},
           c \in Range(find_ioc_queue_set)' =>
             channel_states'[c].v \in {"AddrSearchPlanned", "ToRemove"}
    PROVE  ChanOK(c)'
  <1>1. \A a \in Addrs : ~Active(a, c) /\ NotesOn(a, c)' = <<>>
    BY DEF Free, NothingNew
  <1>2. \A a \in Addrs : ~At(c, a)'
    BY RecordFacts DEF At
  <1> QED
    BY <1>1, <1>2, ChanKeeps

(* The connection of an assigned channel is told to close it.              *)
LEMMA ChanClose ==
    ASSUME NEW c \in Chans, ChanOK(c), NEW a \in Addrs, At(c, a),
           config[c] \in Configs \union {NoCfg},
           UNCHANGED <<conn, held, searches, find_ioc_queue_set>>,
           \A b \in Addrs : NotesOn(b, c)' = NotesOn(b, c),
           \A b \in Addrs : b # a => CmdsAbout(b, c)' = CmdsAbout(b, c),
           CmdsAbout(a, c)' = CmdsAbout(a, c) \o <<ChannelClose(c)>>,
           \/ /\ channel_states'[c].v = "UnassigningForConfigChange"
              /\ channel_states'[c].addr = a
           \/ channel_states'[c].v = "ToRemove"
    PROVE  ChanOK(c)'
  <1>1. Tied(c, a)' /\ ~(\E b \in Addrs : At(c, b)')
    BY RecordFacts DEF Tied, Is, At
  <1>2. \A b \in Addrs : At(c, b) => b = a
    BY AtFacts
  <1>3. channel_states[c].v = "WithAddress"
    BY AtFacts
  <1>4. \A b \in Addrs : Tied(c, b) => b = a
    BY <1>2, <1>3 DEF Tied, Is
  <1>5. \A b \in Addrs : Active(b, c)' => b = a
    BY <1>4 DEF Active, ChanOK, OneActive
  <1>6. OneActive(c)'
    BY <1>1, <1>5 DEF OneActive
  <1>7. conn[a] = "up" => \A b \in Addrs : NotesOn(b, c) = <<>>
    BY <1>4 DEF ChanOK, OneNote
  <1>8. conn[a] # "up" => \A b \in Addrs : ~Active(b, c)'
    BY <1>5 DEF Active
  <1>9. OneNote(c)'
    BY <1>1, <1>4, <1>7, <1>8 DEF ChanOK, OneNote
  <1>10. conn[a] = "up" =>
           \/ CmdsAbout(a, c)' = <<ChannelClose(c)>>
           \/ CmdsAbout(a, c)' = <<ChannelAdd(c, config[c]), ChannelClose(c)>>
              /\ held[a][c] = NoCfg
    <2>0. ChannelClose(c) \in Commands /\ ChannelAdd(c, config[c]) \in Commands
      BY RecordFacts DEF CmdsOf
    <2>1. <<>> \o <<ChannelClose(c)>> = <<ChannelClose(c)>>
      BY <2>0, SmallConcat
    <2>2. <<ChannelAdd(c, config[c])>> \o <<ChannelClose(c)>>
            = <<ChannelAdd(c, config[c]), ChannelClose(c)>>
      BY <2>0, SmallConcat
    <2> QED
      BY <2>1, <2>2 DEF ChanOK, RunsAsConfigured
  <1>11. CmdShape(c)'
    BY <1>10 DEF ChanOK, CmdShape
  <1>12. RunsAsConfigured(c)'
    BY <1>1 DEF RunsAsConfigured
  <1>13. SearchedIsFree(c)'
    BY <1>3 DEF ChanOK, SearchedIsFree
  <1> QED
    BY <1>6, <1>9, <1>11, <1>12, <1>13 DEF ChanOK

(* handle_add_channel_with_addr: a channel that nobody has is assigned.    *)
LEMMA ChanAssign ==
    ASSUME NEW c \in Chans, ChanOK(c), NEW a \in Addrs,
           NEW cfg \in Configs \union {NoCfg},
           \A b \in Addrs : ~Active(b, c) /\ NotesOn(b, c)' = <<>>,
           channel_states'[c] = WithAddress(a), config'[c] = cfg, held' = held,
           \A b \in Addrs : b # a => /\ conn'[b] = conn[b]
                                     /\ CmdsAbout(b, c)' = CmdsAbout(b, c),
           conn'[a] = "up" =>
             CmdsAbout(a, c)' = <<ChannelAdd(c, cfg)>> /\ held[a][c] = NoCfg,
           c \notin Range(searches)', c \notin Range(find_ioc_queue_set)'
    PROVE  ChanOK(c)'
  <1>1. At(c, a)' /\ \A b \in Addrs : At(c, b)' => b = a
    BY RecordFacts DEF At
  <1>2. Tied(c, a)'
    BY <1>1 DEF Tied
  <1>3. \A b \in Addrs : Active(b, c)' => b = a
    BY DEF Active
  <1>4. OneActive(c)' /\ OneNote(c)' /\ SearchedIsFree(c)'
    BY <1>2, <1>3 DEF OneActive, OneNote, SearchedIsFree
  <1>5. \A b \in Addrs : b # a /\ conn'[b] = "up" => CmdsAbout(b, c)' = <<>>
    BY DEF Active
  <1>6. CmdShape(c)'
    BY <1>5 DEF CmdShape
  <1>7. RunsAsConfigured(c)'
    BY <1>1 DEF RunsAsConfigured
  <1> QED
    BY <1>4, <1>6, <1>7 DEF ChanOK

(* handle_conn_command: a connection takes a command about the channel.    *)
LEMMA ChanTake ==
    ASSUME NEW c \in Chans, ChanOK(c), NEW a \in Addrs, conn[a] = "up",
           NEW h \in Commands,
           CmdsAbout(a, c)' \in Seq(Commands),
           CmdsAbout(a, c) = <<h>> \o CmdsAbout(a, c)',
           UNCHANGED <<channel_states, config, conn, searches,
                       find_ioc_queue_set>>,
           \A b \in Addrs : b # a => /\ CmdsAbout(b, c)' = CmdsAbout(b, c)
                                     /\ NotesOn(b, c)' = NotesOn(b, c)
                                     /\ held'[b][c] = held[b][c],
           h.k = "ChannelAdd" =>
             /\ held'[a][c] = IF held[a][c] = NoCfg THEN h.cfg ELSE held[a][c]
             /\ NotesOn(a, c)' = NotesOn(a, c),
           h.k # "ChannelAdd" =>
             /\ held'[a][c] = NoCfg
             /\ held[a][c] # NoCfg =>
                  NotesOn(a, c)' = NotesOn(a, c) \o <<ChannelRemoved(c)>>
             /\ held[a][c] = NoCfg => NotesOn(a, c)' = NotesOn(a, c)
    PROVE  ChanOK(c)'
  <1>1. PICK q, r : q = CmdsAbout(a, c) /\ r = CmdsAbout(a, c)' /\ r \in Seq(Commands)
                    /\ q = <<h>> \o r
    OBVIOUS
  <1>2. /\ q # <<>>
        /\ \A x : q = <<x>> => h = x /\ r = <<>>
        /\ \A x, y : q = <<x, y>> => h = x /\ r = <<y>>
    BY <1>1, FirstAndRest
  <1>3. Active(a, c)
    BY <1>1, <1>2 DEF Active
  <1>4. /\ Tied(c, a) /\ \A b \in Addrs : Active(b, c) => b = a
        /\ \A b \in Addrs : NotesOn(b, c) = <<>>
    BY <1>3 DEF ChanOK, OneActive, OneNote
  <1>5. /\ Tied(c, a)' /\ \A b \in Addrs : b # a => ~Active(b, c)'
        /\ \A b \in Addrs : At(c, b)' <=> At(c, b)
    BY <1>4 DEF Active, Tied, At, Is
  <1>6. ~(c \in Range(searches)) /\ ~(c \in Range(find_ioc_queue_set))
    BY <1>3 DEF ChanOK, SearchedIsFree, Free
  <1>7. SearchedIsFree(c)' /\ OneActive(c)'
    BY <1>5, <1>6 DEF SearchedIsFree, OneActive
  <1>8. \/ h = ChannelClose(c) /\ r = <<>>
        \/ /\ held[a][c] = NoCfg
           /\ \E x \in Configs \union {NoCfg} :
                /\ h = ChannelAdd(c, x)
                /\ \/ q = <<ChannelAdd(c, x)>> /\ r = <<>>
                   \/ r = <<ChannelClose(c)>>
    BY <1>1, <1>2 DEF ChanOK, CmdShape
  <1>9. CASE h = ChannelClose(c) /\ r = <<>>
    <2>1. h.k # "ChannelAdd" /\ h # ChannelAdd(c, config[c])
      BY <1>9, RecordFacts
    <2>2. held'[a][c] = NoCfg
      BY <2>1
    <2>3. \A b \in Addrs : ~Active(b, c)'
      BY <1>1, <1>5, <1>9, <2>2 DEF Active
    <2>4. ~At(c, a)
      BY <1>1, <1>2, <2>1 DEF ChanOK, RunsAsConfigured
    <2>5. \A b \in Addrs : ~At(c, b) \/ b # a
      BY <2>4
    <2>6. /\ NotesOn(a, c)' = <<>> \/ NotesOn(a, c)' = <<ChannelRemoved(c)>>
          /\ \A b \in Addrs : b # a => NotesOn(b, c)' = <<>>
      <3>1. PICK e : e = ChannelRemoved(c)
        OBVIOUS
      <3>2. e \in {e}
        OBVIOUS
      <3>3. <<>> \o <<e>> = <<e>>
        BY <3>2, SmallConcat
      <3> QED
        BY <1>4, <2>1, <3>1, <3>3
    <2>7. OneNote(c)'
      BY <1>5, <2>3, <2>4, <2>6 DEF OneNote
    <2>8. \A b \in Addrs : At(c, b) => b = a
      BY <1>4, AtFacts DEF Tied, Is
    <2>9. RunsAsConfigured(c)'
      BY <1>5, <2>4, <2>8 DEF RunsAsConfigured
    <2>10. CmdShape(c)'
      BY <1>1, <1>9 DEF ChanOK, CmdShape
    <2> QED
      BY <1>7, <2>7, <2>9, <2>10 DEF ChanOK
  <1>10. ASSUME held[a][c] = NoCfg, NEW x \in Configs \union {NoCfg},
                h = ChannelAdd(c, x),
                \/ q = <<ChannelAdd(c, x)>> /\ r = <<>>
                \/ r = <<ChannelClose(c)>>
         PROVE  ChanOK(c)'
    <2>1. h.k = "ChannelAdd" /\ h.cfg = x
      BY <1>10, RecordFacts
    <2>2. held'[a][c] = x /\ \A b \in Addrs : NotesOn(b, c)' = <<>>
      BY <1>4, <1>10, <2>1
    <2>3. OneNote(c)'
      BY <2>2 DEF OneNote
    <2>4. CmdShape(c)'
      BY <1>1, <1>10 DEF ChanOK, CmdShape
    <2>5. \A b \in Addrs : At(c, b) => b = a
      BY <1>4, AtFacts DEF Tied, Is
    <2>6. ASSUME At(c, a) PROVE r = <<>> /\ x = config[c]
      <3>1. q = <<ChannelAdd(c, config[c])>>
        BY <1>1, <1>2, <2>6 DEF ChanOK, RunsAsConfigured
      <3>2. h = ChannelAdd(c, config[c]) /\ r = <<>>
        BY <1>2, <3>1
      <3> QED
        BY <2>1, <3>2, RecordFacts
    <2>7. RunsAsConfigured(c)'
      BY <1>1, <1>5, <2>2, <2>5, <2>6 DEF RunsAsConfigured
    <2> QED
      BY <1>7, <2>3, <2>4, <2>7 DEF ChanOK
  <1> QED
    BY <1>8, <1>9, <1>10

(* trigger_shutdown: a connection ends and reports the channels it held.   *)
LEMMA ChanNote ==
    ASSUME NEW c \in Chans, ChanOK(c), NEW a \in Addrs, conn[a] = "up",
           conn'[a] = "ended",
           UNCHANGED <<channel_states, config, searches, find_ioc_queue_set>>,
           \A b \in Addrs : b # a => /\ conn'[b] = conn[b]
                                     /\ CmdsAbout(b, c)' = CmdsAbout(b, c)
                                     /\ NotesOn(b, c)' = NotesOn(b, c)
                                     /\ held'[b][c] = held[b][c],
           held[a][c] # NoCfg =>
             NotesOn(a, c)' = NotesOn(a, c) \o <<ChannelRemoved(c)>>,
           held[a][c] = NoCfg => NotesOn(a, c)' = NotesOn(a, c)
    PROVE  ChanOK(c)'
  <1>1. CASE held[a][c] = NoCfg
    <2>1. NothingNew(c)
      BY <1>1 DEF NothingNew
    <2> QED
      BY <2>1, ChanFrame
  <1>2. CASE held[a][c] # NoCfg
    <2>1. Active(a, c)
      BY <1>2 DEF Active
    <2>2. /\ Tied(c, a) /\ \A b \in Addrs : Active(b, c) => b = a
          /\ \A b \in Addrs : NotesOn(b, c) = <<>>
      BY <2>1 DEF ChanOK, OneActive, OneNote
    <2>3. Tied(c, a)' /\ \A b \in Addrs : ~Active(b, c)'
      BY <2>2 DEF Active, Tied, At, Is
    <2>4. NotesOn(a, c)' = <<ChannelRemoved(c)>>
      <3>1. PICK e : e = ChannelRemoved(c)
        OBVIOUS
      <3>2. e \in {e}
        OBVIOUS
      <3>3. <<>> \o <<e>> = <<e>>
        BY <3>2, SmallConcat
      <3> QED
        BY <1>2, <2>2, <3>1, <3>3
    <2>5. OneNote(c)'
      BY <2>2, <2>3, <2>4 DEF OneNote
    <2>6. CmdShape(c)'
      BY DEF ChanOK, CmdShape
    <2>7. \A b \in Addrs : At(c, b) => b = a
      BY <2>2, AtFacts DEF Tied, Is
    <2>8. RunsAsConfigured(c)'
      BY <2>7 DEF RunsAsConfigured, At
    <2>9. SearchedIsFree(c)'
      BY <2>1 DEF ChanOK, SearchedIsFree, Free
    <2>10. OneActive(c)'
      BY <2>3 DEF OneActive
    <2> QED
      BY <2>5, <2>6, <2>8, <2>9, <2>10 DEF ChanOK
  <1> QED
    BY <1>1, <1>2
-----------------------------------------------------------------------------
(* What a step does to the queues of the connections.                      *)
OwnerPart ==
    /\ Distinct(searches) /\ Distinct(find_ioc_queue_set)
    /\ \A a \in Addrs : ConnOK(a)
    /\ \A c \in Chans : ChanOK(c)

LEMMA QueueTypes ==
    ASSUME IInv
    PROVE  /\ cmds \in [Addrs -> Seq(Commands)] /\ evs \in [Addrs -> Seq(Events)]
           /\ conn \in [Addrs -> {"none", "up", "ended"}]
           /\ held \in [Addrs -> [Chans -> Configs \union {NoCfg}]]
           /\ channel_states \in [Chans -> ChannelStates]
           /\ config \in [Chans -> Configs \union {NoCfg}]
  BY DEF IInv, StateTypeOK, ChannelStates

(* A command goes out to one connection.                                   *)
LEMMA PushAbout ==
    ASSUME IInv, NEW a \in Addrs, NEW m \in Commands, cmds' = Push(cmds, a, m)
    PROVE  \A b \in Addrs, d \in Chans :
             CmdsAbout(b, d)' = IF b = a /\ d = m.ch
                                THEN CmdsAbout(b, d) \o <<m>>
                                ELSE CmdsAbout(b, d)
  <1> SUFFICES ASSUME NEW b \in Addrs, NEW d \in Chans
               PROVE  CmdsAbout(b, d)' = IF b = a /\ d = m.ch
                                         THEN CmdsAbout(b, d) \o <<m>>
                                         ELSE CmdsAbout(b, d)
    OBVIOUS
  <1>1. cmds \in [Addrs -> Seq(Commands)]
    BY QueueTypes
  <1>2. PICK q, K, r : /\ q = cmds[b] /\ K = CmdsOf(d) /\ r = Keep(q, K)
                       /\ q \in Seq(Commands) /\ r \in Seq(Commands)
    BY <1>1, KeepType
  <1>3. CmdsAbout(b, d) = r
    BY <1>2 DEF CmdsAbout
  <1>4. CASE b # a
    <2>1. cmds'[b] = cmds[b]
      BY <1>1, <1>4 DEF Push
    <2> QED
      BY <1>4, <2>1 DEF CmdsAbout
  <1>5. CASE b = a
    <2>1. cmds'[b] = Append(q, m)
      BY <1>1, <1>2, <1>5 DEF Push
    <2>2. Keep(Append(q, m), K) = IF m \in K THEN Append(r, m) ELSE r
      <3>1. q \in Seq(Commands) /\ r = Keep(q, K)
        BY <1>2
      <3>2. Keep(Append(q, m), K) = IF m \in K THEN Append(Keep(q, K), m) ELSE Keep(q, K)
        BY <3>1, KeepAppend
      <3> QED
        BY <3>1, <3>2
    <2>3. m \in K <=> d = m.ch
      BY <1>2 DEF CmdsOf
    <2>4. Append(r, m) = r \o <<m>>
      BY <1>2
    <2>5. CmdsAbout(b, d)' = Keep(Append(q, m), K)
      BY <1>2, <2>1 DEF CmdsAbout
    <2> QED
      BY <1>3, <1>5, <2>2, <2>3, <2>4, <2>5
  <1> QED
    BY <1>4, <1>5

(* The connections and their queues stay as they are.                      *)
LEMMA QuietConns ==
    ASSUME UNCHANGED <<conn, cmds, held, evs>>
    PROVE  /\ \A c \in Chans : NothingNew(c)
           /\ (\A a \in Addrs : ConnOK(a)) => \A a \in Addrs : ConnOK(a)'
  <1>1. \A a, c : CmdsAbout(a, c)' = CmdsAbout(a, c) /\ NotesOn(a, c)' = NotesOn(a, c)
    BY DEF CmdsAbout, NotesOn
  <1>2. \A c \in Chans : NothingNew(c)
    BY <1>1 DEF NothingNew
  <1>3. \A a \in Addrs : ConnOK(a) => ConnOK(a)'
    BY Zenon DEF ConnOK
  <1> QED
    BY <1>2, <1>3

LEMMA QuietOwner ==
    ASSUME OwnerInv,
           UNCHANGED <<conn, cmds, held, evs, channel_states, config, searches,
                       find_ioc_queue_set>>
    PROVE  OwnerPart'
  <1>1. /\ \A c \in Chans : NothingNew(c)
        /\ \A a \in Addrs : ConnOK(a)'
    BY QuietConns DEF OwnerInv
  <1>2. \A c \in Chans : ChanOK(c)'
    BY <1>1, ChanFrame DEF OwnerInv
  <1>3. Distinct(searches)' /\ Distinct(find_ioc_queue_set)'
    BY DEF OwnerInv, Distinct
  <1> QED
    BY <1>1, <1>2, <1>3 DEF OwnerPart

(* A channel is added that the set does not have.                          *)
LEMMA AddNewOwner ==
    ASSUME OwnerInv, NEW c \in Chans, NEW cfg \in Configs, AddNew(c, cfg)
    PROVE  OwnerPart'
  <1>1. /\ UNCHANGED <<conn, cmds, held, evs, searches, find_ioc_queue_set>>
        /\ channel_states' =
             [channel_states EXCEPT ![c] = Plain("WaitForStatusSeriesId")]
        /\ config' = [config EXCEPT ![c] = cfg]
        /\ channel_states[c].v = "Absent"
    BY DEF AddNew, SetState, connVars, Is
  <1>2. /\ channel_states \in [Chans -> ChannelStates]
        /\ config \in [Chans -> Configs \union {NoCfg}]
    BY QueueTypes DEF OwnerInv, SearchInv
  <1>3. /\ \A d \in Chans : NothingNew(d)
        /\ \A a \in Addrs : ConnOK(a)'
    BY <1>1, QuietConns DEF OwnerInv
  <1>4. ASSUME NEW d \in Chans PROVE ChanOK(d)'
    <2>0. ChanOK(d)
      BY DEF OwnerInv
    <2>1. CASE d # c
      BY <1>1, <1>2, <1>3, <2>0, <2>1, ChanFrame
    <2>2. CASE d = c
      <3>1. Free(d) /\ d \notin Range(searches) /\ d \notin Range(find_ioc_queue_set)
        BY <1>1, <2>0, <2>2, FreeState DEF ChanOK, SearchedIsFree
      <3>2. channel_states'[d].v # "WithAddress"
        BY <1>1, <1>2, <2>2 DEF Plain, ChannelState
      <3> QED
        BY <1>1, <1>3, <2>0, <3>1, <3>2, ChanMoves
    <2> QED
      BY <2>1, <2>2
  <1>5. Distinct(searches)' /\ Distinct(find_ioc_queue_set)'
    BY <1>1 DEF OwnerInv, Distinct
  <1> QED
    BY <1>3, <1>4, <1>5 DEF OwnerPart

(* handle_add_channel_existing: the one connection that has the channel is *)
(* told to close it.                                                       *)
LEMMA AddExistingOwner ==
    ASSUME OwnerInv, NEW c \in Chans, NEW cfg \in Configs, AddExisting(c, cfg)
    PROVE  OwnerPart'
  <1> DEFINE st == channel_states[c]
  <1>0. /\ channel_states \in [Chans -> ChannelStates]
        /\ config \in [Chans -> Configs \union {NoCfg}]
        /\ cmds \in [Addrs -> Seq(Commands)]
        /\ IInv
    BY QueueTypes DEF OwnerInv, SearchInv
  <1>1. UNCHANGED <<conn, held, evs, searches, find_ioc_queue_set>>
    BY DEF AddExisting, searchVars
  <1>2. Distinct(searches)' /\ Distinct(find_ioc_queue_set)'
    BY <1>1 DEF OwnerInv, Distinct
  <1>3. CASE /\ UNCHANGED <<channel_states, cmds>>
             /\ \/ UNCHANGED config
                \/ /\ st.v # "WithAddress"
                   /\ config' = [config EXCEPT ![c] = cfg]
    <2>1. /\ \A d \in Chans : NothingNew(d)
          /\ \A a \in Addrs : ConnOK(a)'
      BY <1>1, <1>3, QuietConns DEF OwnerInv
    <2>2. ASSUME NEW d \in Chans PROVE ChanOK(d)'
      <3>0. ChanOK(d)
        BY DEF OwnerInv
      <3>1. CASE config'[d] = config[d]
        BY <1>1, <1>3, <2>1, <3>0, <3>1, ChanFrame
      <3>2. CASE config'[d] # config[d]
        <4>1. d = c /\ channel_states[d].v # "WithAddress"
          BY <1>0, <1>3, <3>2
        <4>2. \A a \in Addrs : ~At(d, a)' /\ (Tied(d, a)' <=> Tied(d, a))
          BY <1>3, <4>1, RecordFacts DEF At, Tied, Is
        <4>3. /\ d \in Range(searches)' =>
                   /\ channel_states'[d].v \in {"AddrSearchPending", "ToRemove"}
                   /\ Free(d)
              /\ d \in Range(find_ioc_queue_set)' =>
                   /\ channel_states'[d].v \in {"AddrSearchPlanned", "ToRemove"}
                   /\ Free(d)
          BY <1>1, <1>3, <3>0 DEF ChanOK, SearchedIsFree
        <4> QED
          BY <2>1, <3>0, <4>2, <4>3, ChanKeeps
      <3> QED
        BY <3>1, <3>2
    <2> QED
      BY <1>2, <2>1, <2>2 DEF OwnerPart
  <1>4. CASE /\ Is(c, "UnassigningForConfigChange")
             /\ SetState(c, Unassigning(st.addr, cfg))
             /\ UNCHANGED <<config, cmds>>
    <2>1. /\ \A d \in Chans : NothingNew(d)
          /\ \A a \in Addrs : ConnOK(a)'
      BY <1>1, <1>4, QuietConns DEF OwnerInv
    <2>2. channel_states' = [channel_states EXCEPT ![c] = Unassigning(st.addr, cfg)]
      BY <1>4 DEF SetState
    <2>3. ASSUME NEW d \in Chans PROVE ChanOK(d)'
      <3>0. ChanOK(d)
        BY DEF OwnerInv
      <3>1. CASE d # c
        BY <1>0, <1>1, <1>4, <2>1, <2>2, <3>0, <3>1, ChanFrame
      <3>2. CASE d = c
        <4>1. /\ channel_states'[d].v = "UnassigningForConfigChange"
              /\ channel_states'[d].addr = channel_states[d].addr
              /\ channel_states[d].v = "UnassigningForConfigChange"
          BY <1>0, <1>4, <2>2, <3>2 DEF Unassigning, ChannelState, Is
        <4>2. \A a \in Addrs : ~At(d, a)' /\ (Tied(d, a) => Tied(d, a)')
          BY <4>1, RecordFacts DEF At, Tied, Is
        <4>3. d \notin Range(searches)' /\ d \notin Range(find_ioc_queue_set)'
          BY <1>1, <3>0, <4>1 DEF ChanOK, SearchedIsFree
        <4> QED
          BY <2>1, <3>0, <4>2, <4>3, ChanKeeps
      <3> QED
        BY <3>1, <3>2
    <2> QED
      BY <1>2, <2>1, <2>3 DEF OwnerPart
  <1>5. CASE /\ Is(c, "WithAddress") /\ conn[st.addr] # "none"
             /\ SetState(c, Unassigning(st.addr, cfg))
             /\ cmds' = Push(cmds, st.addr, ChannelClose(c))
             /\ UNCHANGED config
    <2>1. PICK a \in Addrs : a = st.addr /\ At(c, a)
      BY <1>0, <1>5, AssignedFacts
    <2>2. channel_states' = [channel_states EXCEPT ![c] = Unassigning(a, cfg)]
      BY <1>5, <2>1 DEF SetState
    <2>3. PICK m \in Commands : m = ChannelClose(c) /\ m.ch = c
      BY RecordFacts DEF CmdsOf
    <2>4. cmds' = Push(cmds, a, m)
      BY <1>5, <2>1, <2>3
    <2>5. \A b \in Addrs, d \in Chans :
             CmdsAbout(b, d)' = IF b = a /\ d = m.ch
                                THEN CmdsAbout(b, d) \o <<m>>
                                ELSE CmdsAbout(b, d)
      BY <1>0, <2>4, PushAbout
    <2>6. \A b, d : NotesOn(b, d)' = NotesOn(b, d)
      BY <1>1 DEF NotesOn
    <2>7. ASSUME NEW d \in Chans PROVE ChanOK(d)'
      <3>0. ChanOK(d)
        BY DEF OwnerInv
      <3>1. CASE d # c
        <4>1. NothingNew(d)
          BY <1>1, <2>3, <2>5, <2>6, <3>1 DEF NothingNew
        <4> QED
          BY <1>0, <1>1, <1>5, <2>2, <3>0, <3>1, <4>1, ChanFrame
      <3>2. CASE d = c
        <4>1. /\ channel_states'[d].v = "UnassigningForConfigChange"
              /\ channel_states'[d].addr = a
          BY <1>0, <2>2, <3>2 DEF Unassigning, ChannelState
        <4>2. /\ \A b \in Addrs : b # a => CmdsAbout(b, d)' = CmdsAbout(b, d)
              /\ CmdsAbout(a, d)' = CmdsAbout(a, d) \o <<ChannelClose(d)>>
          BY <2>3, <2>5, <3>2
        <4>3. At(d, a) /\ config[d] \in Configs \union {NoCfg}
          BY <1>0, <2>1, <3>2
        <4> QED
          BY <1>1, <2>6, <3>0, <4>1, <4>2, <4>3, ChanClose
      <3> QED
        BY <3>1, <3>2
    <2>8. ASSUME NEW b \in Addrs PROVE ConnOK(b)'
      <3>1. ConnOK(b)
        BY DEF OwnerInv
      <3>2. conn[b] = "none" => cmds'[b] = cmds[b]
        BY <1>0, <1>5, <2>1, <2>4 DEF Push
      <3> QED
        BY <1>1, <3>1, <3>2 DEF ConnOK
    <2> QED
      BY <1>2, <2>7, <2>8 DEF OwnerPart
  <1>6. ~(Is(c, "WithAddress") /\ conn[st.addr] = "none")
    <2>1. ~shutdown_stopping
      BY DEF AddExisting, Command
    <2> QED
      BY <1>0, <2>1, AssignedFacts
  <1> QED
    BY <1>3, <1>4, <1>5, <1>6 DEF AddExisting

(* Close commands for several channels go out.                             *)
LEMMA CloseAbout ==
    ASSUME IInv, NEW a \in Addrs, NEW S \in SUBSET Chans, NEW d \in Chans
    PROVE  Keep(cmds[a] \o CloseAll(S), CmdsOf(d))
             = IF d \in S THEN CmdsAbout(a, d) \o <<ChannelClose(d)>>
               ELSE CmdsAbout(a, d)
  <1>1. PICK q, p, K, r :
          /\ q = cmds[a] /\ p = CloseAll(S) /\ K = CmdsOf(d) /\ r = Keep(q, K)
          /\ q \in Seq(Commands) /\ p \in Seq(Commands) /\ r \in Seq(Commands)
    <2>1. PICK q \in Seq(Commands) : q = cmds[a]
      BY QueueTypes
    <2>2. CloseAll(S) \in Seq(Commands)
      BY CloseAllAbout
    <2>3. Keep(q, CmdsOf(d)) \in Seq(Commands)
      BY KeepType
    <2> QED
      BY <2>1, <2>2, <2>3
  <1>2. Keep(p, K) = IF d \in S THEN <<ChannelClose(d)>> ELSE <<>>
    BY <1>1, CloseAllAbout
  <1>3. Keep(q \o p, K) = r \o Keep(p, K)
    BY <1>1, KeepConcat
  <1>4. r \o <<>> = r
    BY <1>1
  <1> QED
    BY <1>1, <1>2, <1>3, <1>4 DEF CmdsAbout

LEMMA CloseNone == CloseAll({}) = <<>>
  <1>1. Cardinality({}) = 0
    BY FS_EmptySet
  <1> QED
    BY <1>1 DEF CloseAll

(* handle_remove_channel: the connections that have one of the channels    *)
(* are told to close it.                                                   *)
LEMMA HandleRemoveOwner ==
    ASSUME OwnerInv, NEW S \in SUBSET Chans, ~shutdown_stopping, HandleRemove(S)
    PROVE  OwnerPart'
  <1>0. /\ channel_states \in [Chans -> ChannelStates]
        /\ config \in [Chans -> Configs \union {NoCfg}]
        /\ cmds \in [Addrs -> Seq(Commands)]
        /\ IInv
    BY QueueTypes DEF OwnerInv, SearchInv
  <1>1. UNCHANGED <<config, conn, held, evs, searches, find_ioc_queue_set>>
    BY DEF HandleRemove, searchVars
  <1>2. Distinct(searches)' /\ Distinct(find_ioc_queue_set)'
    BY <1>1 DEF OwnerInv, Distinct
  <1>3. PICK rem : rem = Removable(S) /\ rem \subseteq Chans
    BY RemovableType
  <1>4. channel_states' = [c \in Chans |->
          IF c \in rem
          THEN ToRemove(IF Is(c, "WithAddress") THEN channel_states[c].addr
                        ELSE NoAddr)
          ELSE channel_states[c]]
    BY <1>3 DEF HandleRemove
  <1>5. cmds' = [a \in Addrs |-> cmds[a] \o CloseAll({c \in rem : At(c, a)})]
    BY <1>3 DEF HandleRemove
  <1>6. \A b, d : NotesOn(b, d)' = NotesOn(b, d)
    BY <1>1 DEF NotesOn
  <1>7. ASSUME NEW b \in Addrs, NEW d \in Chans
        PROVE  CmdsAbout(b, d)' = IF d \in rem /\ At(d, b)
                                  THEN CmdsAbout(b, d) \o <<ChannelClose(d)>>
                                  ELSE CmdsAbout(b, d)
    <2>1. PICK R \in SUBSET Chans : R = {c \in rem : At(c, b)}
      BY <1>3
    <2>2. cmds'[b] = cmds[b] \o CloseAll(R)
      BY <1>5, <2>1
    <2>3. Keep(cmds[b] \o CloseAll(R), CmdsOf(d))
             = IF d \in R THEN CmdsAbout(b, d) \o <<ChannelClose(d)>>
               ELSE CmdsAbout(b, d)
      BY <1>0, CloseAbout
    <2>4. d \in R <=> d \in rem /\ At(d, b)
      BY <2>1
    <2>5. CmdsAbout(b, d)' = Keep(cmds[b] \o CloseAll(R), CmdsOf(d))
      BY <2>2 DEF CmdsAbout
    <2> QED
      BY <2>3, <2>4, <2>5
  <1>8. ASSUME NEW d \in Chans PROVE ChanOK(d)'
    <2>0. ChanOK(d)
      BY DEF OwnerInv
    <2>1. CASE d \notin rem
      <3>1. NothingNew(d)
        BY <1>1, <1>6, <1>7, <2>1 DEF NothingNew
      <3>2. channel_states'[d] = channel_states[d] /\ config'[d] = config[d]
        BY <1>1, <1>4, <2>1
      <3> QED
        BY <1>1, <2>0, <3>1, <3>2, ChanFrame
    <2>2. CASE d \in rem /\ \E a \in Addrs : At(d, a)
      <3>1. PICK a \in Addrs : At(d, a)
        BY <2>2
      <3>2. \A b \in Addrs : b # a => ~At(d, b)
        BY <3>1, AtFacts
      <3>3. /\ \A b \in Addrs : b # a => CmdsAbout(b, d)' = CmdsAbout(b, d)
            /\ CmdsAbout(a, d)' = CmdsAbout(a, d) \o <<ChannelClose(d)>>
        BY <1>7, <2>2, <3>1, <3>2
      <3>4. channel_states'[d].v = "ToRemove"
        BY <1>4, <2>2 DEF ToRemove, ChannelState
      <3>5. config[d] \in Configs \union {NoCfg}
        BY <1>0
      <3> QED
        BY <1>1, <1>6, <2>0, <3>1, <3>3, <3>4, <3>5, ChanClose
    <2>3. CASE d \in rem /\ ~\E a \in Addrs : At(d, a)
      <3>1. NothingNew(d)
        BY <1>1, <1>6, <1>7, <2>3 DEF NothingNew
      <3>2. channel_states'[d].v = "ToRemove"
        BY <1>4, <2>3 DEF ToRemove, ChannelState
      <3>3. \A a \in Addrs : Tied(d, a)' /\ ~At(d, a)'
        BY <3>2, RecordFacts DEF Tied, Is, At
      <3>4. /\ d \in Range(searches)' => Free(d)
            /\ d \in Range(find_ioc_queue_set)' => Free(d)
        BY <1>1, <2>0 DEF ChanOK, SearchedIsFree
      <3> QED
        BY <2>0, <3>1, <3>2, <3>3, <3>4, ChanKeeps
    <2> QED
      BY <2>1, <2>2, <2>3
  <1>9. ASSUME NEW b \in Addrs PROVE ConnOK(b)'
    <2>1. ConnOK(b)
      BY DEF OwnerInv
    <2>2. ASSUME conn[b] = "none" PROVE cmds'[b] = cmds[b]
      <3>1. {c \in rem : At(c, b)} = {}
        BY <1>0, <1>3, <2>2 DEF IInv, AssignedHasConn
      <3>2. cmds[b] \o <<>> = cmds[b]
        BY <1>0
      <3> QED
        BY <1>5, <3>1, <3>2, CloseNone
    <2> QED
      BY <1>1, <2>1, <2>2 DEF ConnOK
  <1> QED
    BY <1>2, <1>8, <1>9 DEF OwnerPart
-----------------------------------------------------------------------------
(* The search.                                                             *)

(* handle_series_lookup_result: the first search of a channel.             *)
LEMMA LookupResultOwner ==
    ASSUME OwnerInv, NEW c \in Chans, LookupResult(c)
    PROVE  OwnerPart'
  <1>0. /\ channel_states \in [Chans -> ChannelStates] /\ searches \in Seq(Chans)
    BY QueueTypes DEF OwnerInv, SearchInv, RestTypeOK
  <1>1. UNCHANGED <<config, conn, cmds, held, evs, find_ioc_queue_set>>
    BY DEF LookupResult, connVars
  <1>2. CASE UNCHANGED <<channel_states, searches>>
    BY <1>1, <1>2, QuietOwner
  <1>3. CASE /\ Is(c, "WaitForStatusSeriesId")
             /\ SetState(c, Plain("AddrSearchPending"))
             /\ searches' = Append(searches, c)
    <2>0. ChanOK(c) /\ channel_states[c].v = "WaitForStatusSeriesId"
      BY <1>3 DEF OwnerInv, Is
    <2>1. /\ \A d \in Chans : NothingNew(d)
          /\ \A a \in Addrs : ConnOK(a)'
      BY <1>1, QuietConns DEF OwnerInv
    <2>2. Free(c) /\ c \notin Range(searches) /\ c \notin Range(find_ioc_queue_set)
      BY <2>0, FreeState DEF ChanOK, SearchedIsFree
    <2>3. Range(searches') = Range(searches) \union {c}
      <3>1. PICK s : s = searches /\ s \in Seq(Chans)
        BY <1>0
      <3>2. /\ Append(s, c) \in Seq(Chans) /\ Len(Append(s, c)) = Len(s) + 1
            /\ \A i \in 1..Len(s) : Append(s, c)[i] = s[i]
            /\ Append(s, c)[Len(s) + 1] = c
        BY <3>1, AppendProperties
      <3> QED
        BY <1>3, <3>1, <3>2 DEF Range
    <2>4. channel_states' = [channel_states EXCEPT ![c] = Plain("AddrSearchPending")]
      BY <1>3 DEF SetState
    <2>5. ASSUME NEW d \in Chans PROVE ChanOK(d)'
      <3>0. ChanOK(d)
        BY DEF OwnerInv
      <3>1. CASE d = c
        <4>1. channel_states'[d].v = "AddrSearchPending"
          BY <1>0, <2>4, <3>1 DEF Plain, ChannelState
        <4> QED
          BY <1>1, <2>1, <2>2, <3>0, <3>1, <4>1, ChanMoves
      <3>2. CASE d # c
        <4>1. channel_states'[d] = channel_states[d] /\ config'[d] = config[d]
          BY <1>0, <1>1, <2>4, <3>2
        <4>2. /\ \A a \in Addrs : Tied(d, a)' <=> Tied(d, a)
              /\ \A a \in Addrs : At(d, a)' <=> At(d, a)
          BY <4>1 DEF Tied, At, Is
        <4>3. /\ d \in Range(searches)' =>
                   /\ channel_states'[d].v \in {"AddrSearchPending", "ToRemove"}
                   /\ Free(d)
              /\ d \in Range(find_ioc_queue_set)' =>
                   /\ channel_states'[d].v \in {"AddrSearchPlanned", "ToRemove"}
                   /\ Free(d)
          BY <1>1, <2>3, <3>0, <3>2, <4>1 DEF ChanOK, SearchedIsFree
        <4> QED
          BY <2>1, <3>0, <4>1, <4>2, <4>3, ChanKeeps
      <3> QED
        BY <3>1, <3>2
    <2>6. Distinct(searches)'
      <3>1. \A f : ToSet(f) = Range(f)
        BY DEF ToSet, Range
      <3>2. Distinct(Append(searches, c))
        BY <1>0, <2>2, <3>1, DistinctAppend DEF OwnerInv
      <3> QED
        BY <1>3, <3>2 DEF Distinct
    <2>7. Distinct(find_ioc_queue_set)'
      BY <1>1 DEF OwnerInv, Distinct
    <2> QED
      BY <2>1, <2>5, <2>6, <2>7 DEF OwnerPart
  <1> QED
    BY <1>2, <1>3 DEF LookupResult

(* The query at the front is answered and forgotten.                       *)
LEMMA FrontGone ==
    ASSUME OwnerInv, ResultAtFront
    PROVE  /\ Head(searches) \in Chans /\ Head(searches) \in Range(searches)
           /\ Range(searches)' \subseteq Range(searches)
           /\ Head(searches) \notin Range(searches)'
           /\ Distinct(searches)'
  <1>1. PICK s : s = searches /\ s \in Seq(Chans) /\ s # <<>> /\ Distinct(s)
    BY DEF OwnerInv, SearchInv, RestTypeOK, ResultAtFront
  <1>2. PICK t : t = Tail(s)
    OBVIOUS
  <1>3. /\ t \in Seq(Chans) /\ Len(t) = Len(s) - 1
        /\ \A i \in 1..Len(t) : t[i] = s[i + 1]
        /\ Head(s) = s[1] /\ Len(s) \in Nat /\ Len(s) >= 1
    BY <1>1, <1>2
  <1>4. \A i \in 1..Len(t) : i + 1 \in 1..Len(s) /\ i + 1 # 1
    BY <1>3
  <1>5. DOMAIN t = 1..Len(t) /\ DOMAIN s = 1..Len(s) /\ 1 \in 1..Len(s)
    BY <1>1, <1>3
  <1>6. Range(t) \subseteq Range(s)
    BY <1>3, <1>4, <1>5 DEF Range
  <1>7. Head(s) \notin Range(t)
    BY <1>1, <1>3, <1>4, <1>5 DEF Range, Distinct
  <1>8. Distinct(t)
    <2>1. ASSUME NEW i \in 1..Len(t), NEW j \in 1..Len(t), t[i] = t[j] PROVE i = j
      <3>1. s[i + 1] = s[j + 1] /\ i + 1 \in 1..Len(s) /\ j + 1 \in 1..Len(s)
        BY <1>3, <1>4, <2>1
      <3>2. i + 1 = j + 1
        BY <1>1, <3>1 DEF Distinct
      <3> QED
        BY <3>2
    <2> QED
      BY <2>1 DEF Distinct
  <1>9. Head(s) \in Chans /\ Head(s) \in Range(s)
    BY <1>1, <1>3, <1>5 DEF Range
  <1>10. searches' = t
    BY <1>1, <1>2 DEF ResultAtFront
  <1> QED
    BY <1>1, <1>6, <1>7, <1>8, <1>9, <1>10 DEF Distinct

(* Where no connection is, nothing is known of any channel.                *)
LEMMA NoneEmpty ==
    ASSUME NEW a \in Addrs, ConnOK(a), conn[a] = "none", NEW c \in Chans
    PROVE  CmdsAbout(a, c) = <<>> /\ NotesOn(a, c) = <<>> /\ held[a][c] = NoCfg
  <1>1. cmds[a] = <<>> /\ evs[a] = <<>> /\ held[a] = NothingHeld
    BY DEF ConnOK
  <1>2. \A K : Keep(<<>>, K) = <<>>
    BY KeepSmall
  <1> QED
    BY <1>1, <1>2 DEF CmdsAbout, NotesOn, NothingHeld

(* handle_add_channel_with_addr and create_ca_conn, for a channel that     *)
(* nobody has.                                                             *)
LEMMA AssignOwner ==
    ASSUME OwnerInv, NEW c \in Chans, NEW a \in Addrs,
           NEW cfg \in Configs \union {NoCfg},
           ~shutdown_stopping, AddWithAddr(c, a, cfg), held' = held,
           \A b \in Addrs : ~Active(b, c) /\ NotesOn(b, c)' = <<>>,
           \A b \in Addrs, d \in Chans : d # c => NotesOn(b, d)' = NotesOn(b, d),
           config'[c] = cfg, \A d \in Chans : d # c => config'[d] = config[d],
           Range(searches)' \subseteq Range(searches),
           find_ioc_queue_set' = find_ioc_queue_set,
           c \notin Range(searches)', c \notin Range(find_ioc_queue_set)
    PROVE  /\ \A d \in Chans : ChanOK(d)'
           /\ \A b \in Addrs : b # a => cmds'[b] = cmds[b] /\ conn'[b] = conn[b]
           /\ conn'[a] # "none"
           /\ conn'[a] = conn[a] \/ (conn[a] = "none" /\ conn'[a] = "up")
  <1>0. /\ channel_states \in [Chans -> ChannelStates]
        /\ cmds \in [Addrs -> Seq(Commands)]
        /\ conn \in [Addrs -> {"none", "up", "ended"}]
        /\ IInv
    BY QueueTypes DEF OwnerInv, SearchInv
  <1>1. /\ channel_states' = [channel_states EXCEPT ![c] = WithAddress(a)]
        /\ conn' = [conn EXCEPT ![a] = IF @ = "none" THEN "up" ELSE @]
        /\ cmds' = Push(cmds, a, ChannelAdd(c, cfg))
    BY DEF AddWithAddr, SetState
  <1>2. PICK m \in Commands : m = ChannelAdd(c, cfg) /\ m.ch = c
    BY RecordFacts DEF CmdsOf
  <1>3. \A b \in Addrs, d \in Chans :
          CmdsAbout(b, d)' = IF b = a /\ d = m.ch
                             THEN CmdsAbout(b, d) \o <<m>>
                             ELSE CmdsAbout(b, d)
    BY <1>0, <1>1, <1>2, PushAbout
  <1>4. /\ \A b \in Addrs : b # a => conn'[b] = conn[b] /\ cmds'[b] = cmds[b]
        /\ conn[a] = "none" => conn'[a] = "up"
        /\ conn[a] # "none" => conn'[a] = conn[a]
    BY <1>0, <1>1 DEF Push
  <1>5. \A b \in Addrs : ConnOK(b)
    BY DEF OwnerInv
  <1>6. ASSUME NEW d \in Chans, d # c PROVE ChanOK(d)'
    <2>1. channel_states'[d] = channel_states[d]
      BY <1>0, <1>1, <1>6
    <2>2. ASSUME NEW b \in Addrs, conn[b] = "none", conn'[b] = "up"
          PROVE  /\ CmdsAbout(b, d) = <<>> /\ held[b][d] = NoCfg
                 /\ NotesOn(b, d) = <<>> /\ ~At(d, b)'
      <3>1. ~At(d, b)
        BY <1>0, <2>2 DEF IInv, AssignedHasConn
      <3> QED
        BY <1>5, <2>1, <2>2, <3>1, NoneEmpty DEF At
    <2>3. NothingNew(d)
      BY <1>2, <1>3, <1>4, <1>6, <2>2 DEF NothingNew
    <2> QED
      BY <1>6, <2>1, <2>3, ChanFrame DEF OwnerInv
  <1>7. ChanOK(c)'
    <2>1. conn'[a] = "up" => CmdsAbout(a, c) = <<>> /\ held[a][c] = NoCfg
      BY <1>4, <1>5, NoneEmpty DEF Active
    <2>2. <<>> \o <<m>> = <<m>>
      BY SmallConcat
    <2>3. conn'[a] = "up" =>
            CmdsAbout(a, c)' = <<ChannelAdd(c, cfg)>> /\ held[a][c] = NoCfg
      BY <1>2, <1>3, <2>1, <2>2
    <2>4. channel_states'[c] = WithAddress(a)
      BY <1>0, <1>1
    <2>5. \A b \in Addrs : b # a => /\ conn'[b] = conn[b]
                                    /\ CmdsAbout(b, c)' = CmdsAbout(b, c)
      BY <1>3, <1>4
    <2> QED
      BY <2>3, <2>4, <2>5, ChanAssign DEF OwnerInv
  <1> QED
    BY <1>4, <1>6, <1>7

(* handle_ioc_query_result: an address was found.                          *)
LEMMA IocFoundOwner ==
    ASSUME OwnerInv, NEW a \in Addrs, IocFound(a)
    PROVE  OwnerPart'
  <1>0. ResultAtFront
    BY DEF IocFound
  <1>1. PICK c \in Chans : c = Head(searches)
    BY <1>0, FrontGone
  <1>2. /\ c \in Range(searches) /\ c \notin Range(searches)'
        /\ Range(searches)' \subseteq Range(searches)
        /\ Distinct(searches)'
    BY <1>0, <1>1, FrontGone
  <1>3. UNCHANGED <<config, held, evs, find_ioc_queue_set>>
    BY <1>0 DEF ResultAtFront
  <1>4. Distinct(find_ioc_queue_set)'
    BY <1>3 DEF OwnerInv, Distinct
  <1>5. \A b, d : NotesOn(b, d)' = NotesOn(b, d)
    BY <1>3 DEF NotesOn
  <1>6. CASE UNCHANGED <<channel_states, conn, cmds>>
    <2>1. /\ \A d \in Chans : NothingNew(d)
          /\ \A b \in Addrs : ConnOK(b)'
      BY <1>3, <1>6, QuietConns DEF OwnerInv
    <2>2. \A d \in Chans : ChanOK(d)'
      BY <1>2, <1>3, <1>6, <2>1, ChanFrame DEF OwnerInv
    <2> QED
      BY <1>2, <1>4, <2>1, <2>2 DEF OwnerPart
  <1>7. CASE ~shutdown_stopping /\ c \in WithStatusSeriesId /\ AddWithAddr(c, a, config[c])
    <2>1. Is(c, "AddrSearchPending") /\ Free(c)
      BY <1>2, <1>7 DEF OwnerInv, ChanOK, SearchedIsFree, WithStatusSeriesId, Inner, Is
    <2>2. c \notin Range(find_ioc_queue_set)
      BY <2>1 DEF OwnerInv, ChanOK, SearchedIsFree, Is
    <2>3. config[c] \in Configs \union {NoCfg}
      BY QueueTypes DEF OwnerInv, SearchInv
    <2>4. \A b \in Addrs : ~Active(b, c) /\ NotesOn(b, c)' = <<>>
      BY <1>5, <2>1 DEF Free
    <2>5. /\ \A d \in Chans : ChanOK(d)'
          /\ \A b \in Addrs : b # a => cmds'[b] = cmds[b] /\ conn'[b] = conn[b]
          /\ conn'[a] # "none"
          /\ conn'[a] = conn[a] \/ (conn[a] = "none" /\ conn'[a] = "up")
      BY <1>2, <1>3, <1>5, <1>7, <2>2, <2>3, <2>4, AssignOwner
    <2>6. ASSUME NEW b \in Addrs PROVE ConnOK(b)'
      <3>1. ConnOK(b)
        BY DEF OwnerInv
      <3>2. <<>> \in Seq(Reports)
        BY EmptySeq
      <3> QED
        BY <1>3, <2>5, <3>1, <3>2 DEF ConnOK
    <2> QED
      BY <1>2, <1>4, <2>5, <2>6 DEF OwnerPart
  <1> QED
    BY <1>1, <1>6, <1>7 DEF IocFound

(* ... or was not found.                                                   *)
LEMMA IocNotFoundOwner ==
    ASSUME OwnerInv, IocNotFound
    PROVE  OwnerPart'
  <1>0. ResultAtFront
    BY DEF IocNotFound
  <1>1. PICK c \in Chans : c = Head(searches)
    BY <1>0, FrontGone
  <1>2. /\ c \in Range(searches) /\ c \notin Range(searches)'
        /\ Range(searches)' \subseteq Range(searches)
        /\ Distinct(searches)'
    BY <1>0, <1>1, FrontGone
  <1>3. UNCHANGED <<config, conn, cmds, held, evs, find_ioc_queue_set>>
    BY <1>0 DEF ResultAtFront, IocNotFound
  <1>4. Distinct(find_ioc_queue_set)'
    BY <1>3 DEF OwnerInv, Distinct
  <1>5. /\ \A d \in Chans : NothingNew(d)
        /\ \A b \in Addrs : ConnOK(b)'
    BY <1>3, QuietConns DEF OwnerInv
  <1>6. CASE UNCHANGED channel_states
    <2>1. \A d \in Chans : ChanOK(d)'
      BY <1>2, <1>3, <1>5, <1>6, ChanFrame DEF OwnerInv
    <2> QED
      BY <1>2, <1>4, <1>5, <2>1 DEF OwnerPart
  <1>7. CASE c \in WithStatusSeriesId /\ SetState(c, Plain("UnknownAddress"))
    <2>0. channel_states \in [Chans -> ChannelStates]
      BY QueueTypes DEF OwnerInv, SearchInv
    <2>1. Is(c, "AddrSearchPending") /\ Free(c)
      BY <1>2, <1>7 DEF OwnerInv, ChanOK, SearchedIsFree, WithStatusSeriesId, Inner, Is
    <2>2. c \notin Range(find_ioc_queue_set)
      BY <2>1 DEF OwnerInv, ChanOK, SearchedIsFree, Is
    <2>3. channel_states' = [channel_states EXCEPT ![c] = Plain("UnknownAddress")]
      BY <1>7 DEF SetState
    <2>4. ASSUME NEW d \in Chans PROVE ChanOK(d)'
      <3>0. ChanOK(d)
        BY DEF OwnerInv
      <3>1. CASE d # c
        BY <1>2, <1>3, <1>5, <2>0, <2>3, <3>0, <3>1, ChanFrame
      <3>2. CASE d = c
        <4>1. channel_states'[d].v = "UnknownAddress"
          BY <2>0, <2>3, <3>2 DEF Plain, ChannelState
        <4> QED
          BY <1>2, <1>3, <1>5, <2>1, <2>2, <3>0, <3>2, <4>1, ChanMoves
      <3> QED
        BY <3>1, <3>2
    <2> QED
      BY <1>2, <1>4, <1>5, <2>4 DEF OwnerPart
  <1> QED
    BY <1>1, <1>6, <1>7 DEF IocNotFound

(* Without early timeouts a tick only moves channels that nobody has, and  *)
(* sends no command.                                                       *)
LEMMA TickCalm ==
    ASSUME OwnerInv, "Timeout" \notin Faults, NEW fired \in SUBSET Chans, Tick(fired)
    PROVE  /\ UNCHANGED <<config, conn, cmds, held, evs>>
           /\ TickSick(fired) = {}
           /\ \A c \in fired :
                /\ channel_states[c].v \in {"UnknownAddress", "NoAddress",
                                            "MaybeWrongAddress"}
                /\ TickStates(fired)[c].v \in {"AddrSearchPlanned", "UnknownAddress"}
  <1> DEFINE adv == {c \in fired : channel_states[c].v \in Adverse}
  <1>1. Cardinality(adv) > 0 => "Timeout" \in Faults
    BY Zenon DEF Tick
  <1>2. IsFiniteSet(adv)
    BY FS_Subset, ConnSetAssumption
  <1> HIDE DEF adv
  <1>3. adv = {}
    <2>1. Cardinality(adv) \in Nat
      BY <1>2, FS_CardinalityType
    <2>2. Cardinality(adv) = 0
      BY <1>1, <2>1
    <2> QED
      BY <1>2, <2>2, FS_EmptySet
  <1>4. \A c \in fired : HasTimer(c)
    BY Zenon DEF Tick
  <1>5. ASSUME NEW c \in fired
        PROVE  channel_states[c].v \in {"UnknownAddress", "NoAddress",
                                        "MaybeWrongAddress"}
    BY <1>3, <1>4 DEF adv, HasTimer
  <1>6. TickSick(fired) = {}
    BY <1>5 DEF TickSick, Is
  <1>7. UNCHANGED <<config, conn, held, evs>>
    BY Zenon DEF Tick
  <1>8. cmds' = [a \in Addrs |->
          IF conn[a] = "none" THEN cmds[a]
          ELSE cmds[a] \o CloseAll({c \in TickSick(fired) : At(c, a)})]
    BY Zenon DEF Tick, TickSick
  <1>9. cmds' = cmds
    <2>1. cmds \in [Addrs -> Seq(Commands)]
      BY QueueTypes DEF OwnerInv, SearchInv
    <2>2. \A a \in Addrs : cmds[a] \o <<>> = cmds[a]
      BY <2>1
    <2>3. \A a : {c \in TickSick(fired) : At(c, a)} = {}
      BY <1>6
    <2>4. \A a \in Addrs : cmds[a] \o CloseAll({c \in TickSick(fired) : At(c, a)}) = cmds[a]
      BY <2>2, <2>3, CloseNone
    <2> QED
      BY <1>8, <2>1, <2>4
  <1>10. ASSUME NEW c \in fired
         PROVE  TickStates(fired)[c].v \in {"AddrSearchPlanned", "UnknownAddress"}
    BY <1>5 DEF TickStates, TimerState, Plain, ChannelState
  <1> QED
    BY <1>5, <1>6, <1>7, <1>9, <1>10

(* The ticker: channels that nobody has wait for a search, and searches    *)
(* are issued for some of them.                                            *)
LEMMA TickOwner ==
    ASSUME OwnerInv, "Timeout" \notin Faults, NEW fired \in SUBSET Chans, Tick(fired)
    PROVE  OwnerPart'
  <1>1. /\ UNCHANGED <<config, conn, cmds, held, evs>>
        /\ TickSick(fired) = {}
        /\ \A c \in fired :
             /\ channel_states[c].v \in {"UnknownAddress", "NoAddress",
                                         "MaybeWrongAddress"}
             /\ TickStates(fired)[c].v \in {"AddrSearchPlanned", "UnknownAddress"}
    BY TickCalm
  <1>2. PICK q, n, issue, sts, new :
          /\ q = TickQueue(fired) /\ n = TickSlots(fired) /\ issue = TickIssue(fired)
          /\ sts = TickStates(fired) /\ new = TickNew(fired)
    OBVIOUS
  <1>3. IInv /\ RestTypeOK
    BY DEF OwnerInv, SearchInv
  <1>4. nfaults \in Nat
    BY <1>3 DEF RestTypeOK
  <1>5. channel_states' = [c \in Chans |->
          IF c \in issue THEN Plain("AddrSearchPending") ELSE sts[c]]
    BY <1>1, <1>2, <1>4, TickSteps
  <1>6. /\ find_ioc_queue_set' = SubSeq(q, n + 1, Len(q))
        /\ searches' = searches \o Keep(SubSeq(q, 1, n), issue)
    BY <1>2, <1>4, TickSteps
  <1>7. /\ q \in Seq(Chans) /\ n \in 0..Len(q)
        /\ SubSeq(q, 1, n) \in Seq(Chans)
    BY <1>2, <1>3, TickSplit
  <1>8. find_ioc_queue_set \in Seq(Chans) /\ searches \in Seq(Chans)
    BY <1>3 DEF RestTypeOK
  <1>9. /\ Range(q) = Range(find_ioc_queue_set) \union new
        /\ new = {c \in fired : sts[c].v = "AddrSearchPlanned"}
        /\ issue = {c \in Range(SubSeq(q, 1, n)) : sts[c].v \in Inner}
        /\ \A c \in Chans : c \notin fired => sts[c] = channel_states[c]
    BY <1>2, <1>8, TickQueueFacts DEF TickNew, TickStates, TickIssue
  <1>10. \A f : ToSet(f) = Range(f)
    BY DEF ToSet, Range
  <1>11. Distinct(q)
    <2>1. Distinct(find_ioc_queue_set) /\ TickNew(fired) \in SUBSET Chans
      BY DEF OwnerInv, TickNew
    <2> QED
      BY <1>2, <1>8, <2>1, PushBackDistinct DEF TickQueue
  <1>12. /\ Distinct(SubSeq(q, 1, n)) /\ Distinct(SubSeq(q, n + 1, Len(q)))
         /\ Range(SubSeq(q, n + 1, Len(q))) \subseteq Range(q)
         /\ Range(SubSeq(q, 1, n)) \subseteq Range(q)
         /\ Range(SubSeq(q, 1, n)) \intersect Range(SubSeq(q, n + 1, Len(q))) = {}
    BY <1>7, <1>11, SplitDistinct
  <1>13. PICK u : /\ u = Keep(SubSeq(q, 1, n), issue) /\ u \in Seq(Chans)
                  /\ Distinct(u) /\ Range(u) = issue
    <2>1. PICK p \in Seq(Chans) : p = SubSeq(q, 1, n) /\ Distinct(p)
      BY <1>7, <1>12
    <2>2. /\ Keep(p, issue) \in Seq(Chans) /\ Distinct(Keep(p, issue))
          /\ ToSet(Keep(p, issue)) = ToSet(p) \intersect issue
      BY <2>1, KeepType, KeepDistinct, KeepSet
    <2>3. ToSet(p) \intersect issue = issue
      BY <1>9, <1>10, <2>1
    <2> QED
      BY <1>10, <2>1, <2>2, <2>3
  <1>14. /\ \A d \in Chans : ChanOK(d)
         /\ Distinct(searches)
    BY DEF OwnerInv
  <1>15. ASSUME NEW d \in Chans, d \in issue
         PROVE  Free(d) /\ d \notin Range(searches)
    <2>1. CASE d \in fired
      BY <1>1, <1>14, <2>1, FreeState DEF ChanOK, SearchedIsFree
    <2>2. CASE d \notin fired
      <3>1. d \in Range(find_ioc_queue_set) /\ channel_states[d].v \in Inner
        BY <1>9, <1>12, <1>15, <2>2
      <3>2. channel_states[d].v = "AddrSearchPlanned" /\ Free(d)
        BY <1>14, <3>1 DEF ChanOK, SearchedIsFree, Inner
      <3> QED
        BY <1>14, <3>2 DEF ChanOK, SearchedIsFree
    <2> QED
      BY <2>1, <2>2
  <1>16. searches' \in Seq(Chans) /\ Range(searches') = Range(searches) \union issue
    <2>1. ToSet(searches \o u) = ToSet(searches) \union ToSet(u)
      BY <1>8, <1>13, ToSetConcat
    <2>2. searches \o u \in Seq(Chans)
      BY <1>8, <1>13
    <2> QED
      BY <1>6, <1>10, <1>13, <2>1, <2>2
  <1>17. Distinct(searches')
    <2>1. issue \subseteq Chans
      BY <1>7, <1>9 DEF Range
    <2>2. ToSet(searches) \intersect ToSet(u) = {}
      BY <1>10, <1>13, <1>15, <2>1
    <2>3. Distinct(searches \o u)
      BY <1>8, <1>13, <1>14, <2>2, DistinctConcat
    <2> QED
      BY <1>6, <1>13, <2>3
  <1>18. /\ \A d \in Chans : NothingNew(d)
         /\ \A b \in Addrs : ConnOK(b)'
    BY <1>1, QuietConns DEF OwnerInv
  <1>19. ASSUME NEW d \in Chans PROVE ChanOK(d)'
    <2>0. ChanOK(d) /\ NothingNew(d)
      BY <1>14, <1>18
    <2>1. CASE d \in issue
      <3>1. channel_states'[d].v = "AddrSearchPending"
        BY <1>5, <2>1 DEF Plain, ChannelState
      <3>2. d \notin Range(find_ioc_queue_set)'
        BY <1>6, <1>9, <1>12, <2>1
      <3> QED
        BY <1>15, <2>0, <2>1, <3>1, <3>2, ChanMoves
    <2>2. CASE d \notin issue /\ d \in fired
      <3>1. Free(d) /\ d \notin Range(searches) /\ d \notin Range(find_ioc_queue_set)
        BY <1>1, <2>0, <2>2, FreeState DEF ChanOK, SearchedIsFree
      <3>2. d \notin Range(searches')
        BY <1>16, <2>2, <3>1
      <3>3. channel_states'[d].v \in {"AddrSearchPlanned", "UnknownAddress"}
        BY <1>1, <1>2, <1>5, <2>2
      <3>4. d \in Range(find_ioc_queue_set') => channel_states'[d].v = "AddrSearchPlanned"
        BY <1>5, <1>6, <1>9, <1>12, <2>2, <3>1
      <3> QED
        BY <2>0, <3>1, <3>2, <3>3, <3>4, ChanMoves
    <2>3. CASE d \notin issue /\ d \notin fired
      <3>1. channel_states'[d] = channel_states[d] /\ config'[d] = config[d]
        BY <1>1, <1>5, <1>9, <2>3
      <3>2. /\ \A a \in Addrs : Tied(d, a)' <=> Tied(d, a)
            /\ \A a \in Addrs : At(d, a)' <=> At(d, a)
        BY <3>1 DEF Tied, At, Is
      <3>3. d \in Range(searches') => d \in Range(searches)
        BY <1>16, <2>3
      <3>4. d \in Range(find_ioc_queue_set') => d \in Range(find_ioc_queue_set)
        BY <1>6, <1>9, <1>12, <2>3
      <3>5. /\ d \in Range(searches)' =>
                 /\ channel_states'[d].v \in {"AddrSearchPending", "ToRemove"}
                 /\ Free(d)
            /\ d \in Range(find_ioc_queue_set)' =>
                 /\ channel_states'[d].v \in {"AddrSearchPlanned", "ToRemove"}
                 /\ Free(d)
        BY <2>0, <3>1, <3>3, <3>4 DEF ChanOK, SearchedIsFree
      <3> QED
        BY <2>0, <3>1, <3>2, <3>5, ChanKeeps
    <2> QED
      BY <2>1, <2>2, <2>3
  <1>20. Distinct(find_ioc_queue_set') /\ Distinct(searches')
    BY <1>6, <1>12, <1>17
  <1> QED
    BY <1>18, <1>19, <1>20 DEF OwnerPart, Distinct
-----------------------------------------------------------------------------
(* The connections.                                                        *)
LEMMA ReportsAreEvents ==
    /\ Reports \subseteq Events
    /\ \A r \in {"OnCommand", "Failed"} : EndOfStream(r) \in Events
    /\ \A r, c : EndOfStream(r) # ChannelRemoved(c)
    /\ \A c \in Chans : ChannelRemoved(c) \in Reports /\ ChannelCreateFail(c) \in Reports
    /\ \A c, d : ChannelCreateFail(d) # ChannelRemoved(c)
    /\ \A c, d : ChannelRemoved(d) = ChannelRemoved(c) => c = d
    /\ \A r : EndOfStream(r) \notin Reports
  <1>1. /\ \A c \in Chans : ChannelRemoved(c) \in Events /\ ChannelCreateFail(c) \in Events
        /\ \A r \in {"OnCommand", "Failed"} : EndOfStream(r) \in Events
    BY DEF Events, EndOfStream, ChannelRemoved, ChannelCreateFail, ConnEvent
  <1>2. /\ \A c \in Chans : ChannelRemoved(c) \in Reports /\ ChannelCreateFail(c) \in Reports
        /\ \A r \in Reports : \E c \in Chans : r = ChannelRemoved(c) \/ r = ChannelCreateFail(c)
    BY DEF Reports
  <1>3. Reports \subseteq Events
    BY <1>1, <1>2
  <1>4. \A r, c : EndOfStream(r) # ChannelRemoved(c) /\ EndOfStream(r) # ChannelCreateFail(c)
    BY RecordFacts
  <1>5. /\ \A c, d : ChannelCreateFail(d) # ChannelRemoved(c)
        /\ \A c, d : ChannelRemoved(d) = ChannelRemoved(c) => c = d
    BY RecordFacts
  <1>6. \A r : EndOfStream(r) \notin Reports
    BY <1>2, <1>4
  <1> QED
    BY <1>1, <1>2, <1>3, <1>4, <1>5, <1>6

(* An event of a connection goes out.                                      *)
LEMMA PushNote ==
    ASSUME IInv, NEW a \in Addrs, NEW e \in Events, evs' = Push(evs, a, e)
    PROVE  \A b \in Addrs, d \in Chans :
             NotesOn(b, d)' = IF b = a /\ e = ChannelRemoved(d)
                              THEN NotesOn(b, d) \o <<ChannelRemoved(d)>>
                              ELSE NotesOn(b, d)
  <1> SUFFICES ASSUME NEW b \in Addrs, NEW d \in Chans
               PROVE  NotesOn(b, d)' = IF b = a /\ e = ChannelRemoved(d)
                                       THEN NotesOn(b, d) \o <<ChannelRemoved(d)>>
                                       ELSE NotesOn(b, d)
    OBVIOUS
  <1>1. evs \in [Addrs -> Seq(Events)]
    BY QueueTypes
  <1>2. PICK q, K, r : /\ q = evs[b] /\ K = {ChannelRemoved(d)} /\ r = Keep(q, K)
                       /\ q \in Seq(Events) /\ r \in Seq(Events)
    BY <1>1, KeepType
  <1>3. NotesOn(b, d) = r
    BY <1>2 DEF NotesOn
  <1>4. CASE b # a
    <2>1. evs'[b] = evs[b]
      BY <1>1, <1>4 DEF Push
    <2> QED
      BY <1>4, <2>1 DEF NotesOn
  <1>5. CASE b = a
    <2>1. evs'[b] = Append(q, e)
      BY <1>1, <1>2, <1>5 DEF Push
    <2>2. Keep(Append(q, e), K) = IF e \in K THEN Append(r, e) ELSE r
      <3>1. q \in Seq(Events) /\ r = Keep(q, K)
        BY <1>2
      <3>2. Keep(Append(q, e), K) = IF e \in K THEN Append(Keep(q, K), e) ELSE Keep(q, K)
        BY <3>1, KeepAppend
      <3> QED
        BY <3>1, <3>2
    <2>3. e \in K <=> e = ChannelRemoved(d)
      BY <1>2
    <2>4. Append(r, e) = r \o <<e>>
      BY <1>2
    <2>5. NotesOn(b, d)' = Keep(Append(q, e), K)
      BY <1>2, <2>1 DEF NotesOn
    <2> QED
      BY <1>3, <1>5, <2>2, <2>3, <2>4, <2>5
  <1> QED
    BY <1>4, <1>5

(* handle_conn_command.                                                    *)
LEMMA ConnTakesCommandOwner ==
    ASSUME OwnerInv, NEW a \in Addrs, ConnTakesCommand(a)
    PROVE  OwnerPart'
  <1>0. /\ cmds \in [Addrs -> Seq(Commands)] /\ evs \in [Addrs -> Seq(Events)]
        /\ held \in [Addrs -> [Chans -> Configs \union {NoCfg}]]
        /\ conn \in [Addrs -> {"none", "up", "ended"}]
        /\ IInv
    BY QueueTypes DEF OwnerInv, SearchInv
  <1>1. /\ UNCHANGED <<channel_states, config, conn, searches, find_ioc_queue_set>>
        /\ conn[a] = "up" /\ cmds[a] # <<>>
        /\ cmds' = [cmds EXCEPT ![a] = Tail(@)]
    BY DEF ConnTakesCommand, chanVars, searchVars
  <1>2. Distinct(searches)' /\ Distinct(find_ioc_queue_set)'
    BY <1>1 DEF OwnerInv, Distinct
  <1>3. PICK q \in Seq(Commands) : q = cmds[a] /\ q # <<>>
    BY <1>0, <1>1
  <1>4. PICK h \in Commands : h = Head(q)
    BY <1>3
  <1>5. PICK c \in Chans : c = h.ch
    BY DEF Commands
  <1>6. /\ h.k = "ChannelAdd" =>
             /\ held' = IF held[a][c] = NoCfg
                        THEN [held EXCEPT ![a][c] = h.cfg] ELSE held
             /\ evs' = evs
        /\ h.k # "ChannelAdd" =>
             /\ held' = [held EXCEPT ![a][c] = NoCfg]
             /\ evs' = IF held[a][c] # NoCfg
                       THEN Push(evs, a, ChannelRemoved(c)) ELSE evs
    BY <1>3, <1>4, <1>5 DEF ConnTakesCommand
  <1>7. ASSUME NEW d \in Chans
        PROVE  /\ \A b \in Addrs : b # a => CmdsAbout(b, d)' = CmdsAbout(b, d)
               /\ CmdsAbout(a, d)' \in Seq(Commands)
               /\ CmdsAbout(a, d) = IF d = c THEN <<h>> \o CmdsAbout(a, d)'
                                    ELSE CmdsAbout(a, d)'
    <2>1. PICK t \in Seq(Commands) : t = Tail(q)
      BY <1>3, HeadTailProperties
    <2>2. cmds'[a] = t /\ \A b \in Addrs : b # a => cmds'[b] = cmds[b]
      BY <1>0, <1>1, <1>3, <2>1
    <2>3. PICK K : K = CmdsOf(d)
      OBVIOUS
    <2>4. Keep(q, K) = IF Head(q) \in K THEN <<Head(q)>> \o Keep(Tail(q), K)
                       ELSE Keep(Tail(q), K)
      BY <1>3, KeepTail
    <2>5. Keep(t, K) \in Seq(Commands)
      BY KeepType
    <2>6. h \in K <=> d = c
      BY <1>5, <2>3 DEF CmdsOf
    <2>7. CmdsAbout(a, d)' = Keep(t, K) /\ CmdsAbout(a, d) = Keep(q, K)
      BY <1>3, <2>2, <2>3 DEF CmdsAbout
    <2>8. \A b \in Addrs : b # a => CmdsAbout(b, d)' = CmdsAbout(b, d)
      BY <2>2 DEF CmdsAbout
    <2> QED
      BY <1>4, <2>1, <2>4, <2>5, <2>6, <2>7, <2>8
  <1>8. /\ \A b \in Addrs, d \in Chans : b # a \/ d # c => held'[b][d] = held[b][d]
        /\ h.k = "ChannelAdd" =>
             held'[a][c] = IF held[a][c] = NoCfg THEN h.cfg ELSE held[a][c]
        /\ h.k # "ChannelAdd" => held'[a][c] = NoCfg
    BY <1>0, <1>6
  <1>9. PICK e \in Events : e = ChannelRemoved(c) /\ e \in Reports
    BY ReportsAreEvents
  <1>10. /\ \A b \in Addrs, d \in Chans : b # a \/ d # c => NotesOn(b, d)' = NotesOn(b, d)
         /\ h.k = "ChannelAdd" => NotesOn(a, c)' = NotesOn(a, c)
         /\ h.k # "ChannelAdd" =>
              /\ held[a][c] # NoCfg =>
                   NotesOn(a, c)' = NotesOn(a, c) \o <<ChannelRemoved(c)>>
              /\ held[a][c] = NoCfg => NotesOn(a, c)' = NotesOn(a, c)
    <2>1. CASE evs' = Push(evs, a, e) /\ h.k # "ChannelAdd" /\ held[a][c] # NoCfg
      <3>1. \A b \in Addrs, d \in Chans :
              NotesOn(b, d)' = IF b = a /\ e = ChannelRemoved(d)
                               THEN NotesOn(b, d) \o <<ChannelRemoved(d)>>
                               ELSE NotesOn(b, d)
        BY <1>0, <2>1, PushNote
      <3>2. \A d \in Chans : e = ChannelRemoved(d) <=> d = c
        BY <1>9, ReportsAreEvents
      <3> QED
        BY <2>1, <3>1, <3>2
    <2>2. CASE evs' = evs /\ (h.k = "ChannelAdd" \/ held[a][c] = NoCfg)
      <3>1. \A b, d : NotesOn(b, d)' = NotesOn(b, d)
        BY <2>2 DEF NotesOn
      <3> QED
        BY <2>2, <3>1
    <2> QED
      BY <1>6, <1>9, <2>1, <2>2
  <1>11. ASSUME NEW d \in Chans PROVE ChanOK(d)'
    <2>0. ChanOK(d)
      BY DEF OwnerInv
    <2>1. CASE d # c
      <3>1. NothingNew(d)
        BY <1>1, <1>7, <1>8, <1>10, <2>1 DEF NothingNew
      <3> QED
        BY <1>1, <2>0, <3>1, ChanFrame
    <2>2. CASE d = c
      <3>1. /\ CmdsAbout(a, c)' \in Seq(Commands)
            /\ CmdsAbout(a, c) = <<h>> \o CmdsAbout(a, c)'
            /\ \A b \in Addrs : b # a => /\ CmdsAbout(b, c)' = CmdsAbout(b, c)
                                         /\ NotesOn(b, c)' = NotesOn(b, c)
                                         /\ held'[b][c] = held[b][c]
        BY <1>7, <1>8, <1>10
      <3>2. ChanOK(c)'
        BY <1>1, <1>8, <1>10, <2>0, <2>2, <3>1, ChanTake
      <3> QED
        BY <2>2, <3>2
    <2> QED
      BY <2>1, <2>2
  <1>12. ASSUME NEW b \in Addrs PROVE ConnOK(b)'
    <2>0. ConnOK(b) /\ ConnOK(a)
      BY DEF OwnerInv
    <2>1. CASE b # a
      <3>1. evs'[b] = evs[b] /\ cmds'[b] = cmds[b] /\ conn'[b] = conn[b]
        BY <1>0, <1>1, <1>6, <2>1 DEF Push
      <3>2. held'[b] = held[b]
        BY <1>0, <1>6, <2>1
      <3> QED
        BY <2>0, <3>1, <3>2 DEF ConnOK
    <2>2. CASE b = a
      <3>1. evs[a] \in Seq(Reports)
        BY <1>1, <2>0 DEF ConnOK
      <3>2. Append(evs[a], e) \in Seq(Reports)
        BY <1>9, <3>1, AppendProperties
      <3>3. evs'[a] = evs[a] \/ evs'[a] = Append(evs[a], e)
        BY <1>0, <1>6, <1>9 DEF Push
      <3> QED
        BY <1>1, <2>2, <3>1, <3>2, <3>3 DEF ConnOK
    <2> QED
      BY <2>1, <2>2
  <1> QED
    BY <1>2, <1>11, <1>12 DEF OwnerPart

(* A connection that ends leaves the others alone.                         *)
LEMMA OthersOK ==
    ASSUME OwnerInv, NEW a \in Addrs,
           conn' = [conn EXCEPT ![a] = "ended"],
           held' = [held EXCEPT ![a] = NothingHeld], cmds' = cmds,
           NEW f \in Seq(Reports), NEW r \in {"OnCommand", "Failed"},
           evs' = [evs EXCEPT ![a] = Append(f, EndOfStream(r))]
    PROVE  /\ \A b \in Addrs : ConnOK(b)'
           /\ conn'[a] = "ended"
           /\ \A b \in Addrs, c \in Chans : b # a =>
                /\ conn'[b] = conn[b] /\ CmdsAbout(b, c)' = CmdsAbout(b, c)
                /\ NotesOn(b, c)' = NotesOn(b, c) /\ held'[b][c] = held[b][c]
           /\ \A c \in Chans : NotesOn(a, c)' = Keep(f, {ChannelRemoved(c)})
  <1>0. /\ cmds \in [Addrs -> Seq(Commands)] /\ evs \in [Addrs -> Seq(Events)]
        /\ held \in [Addrs -> [Chans -> Configs \union {NoCfg}]]
        /\ conn \in [Addrs -> {"none", "up", "ended"}]
    BY QueueTypes DEF OwnerInv, SearchInv
  <1>1. /\ conn'[a] = "ended" /\ held'[a] = NothingHeld
        /\ evs'[a] = Append(f, EndOfStream(r))
        /\ \A b \in Addrs : b # a => /\ conn'[b] = conn[b] /\ held'[b] = held[b]
                                     /\ evs'[b] = evs[b] /\ cmds'[b] = cmds[b]
    BY <1>0
  <1>2. ASSUME NEW b \in Addrs PROVE ConnOK(b)'
    <2>1. CASE b = a
      BY <1>1, <2>1 DEF ConnOK
    <2>2. CASE b # a
      <3>1. ConnOK(b)
        BY DEF OwnerInv
      <3> QED
        BY <1>1, <2>2, <3>1 DEF ConnOK
    <2> QED
      BY <2>1, <2>2
  <1>3. ASSUME NEW c \in Chans PROVE NotesOn(a, c)' = Keep(f, {ChannelRemoved(c)})
    <2>1. PICK e \in Events : e = EndOfStream(r) /\ e \notin {ChannelRemoved(c)}
      BY ReportsAreEvents
    <2>2. f \in Seq(Events)
      BY ReportsAreEvents
    <2>3. Keep(Append(f, e), {ChannelRemoved(c)})
            = IF e \in {ChannelRemoved(c)} THEN Append(Keep(f, {ChannelRemoved(c)}), e)
              ELSE Keep(f, {ChannelRemoved(c)})
      BY <2>2, KeepAppend
    <2>4. NotesOn(a, c)' = Keep(Append(f, e), {ChannelRemoved(c)})
      BY <1>1, <2>1 DEF NotesOn
    <2> QED
      BY <2>1, <2>3, <2>4
  <1> QED
    BY <1>1, <1>2, <1>3 DEF CmdsAbout, NotesOn

(* trigger_shutdown: what a connection held is reported as removed.        *)
LEMMA TriggerShutdownOwner ==
    ASSUME OwnerInv, NEW a \in Addrs, NEW r \in {"OnCommand", "Failed"},
           TriggerShutdown(a, r)
    PROVE  OwnerPart'
  <1>1. /\ UNCHANGED <<channel_states, config, cmds, searches, find_ioc_queue_set>>
        /\ conn[a] = "up"
        /\ conn' = [conn EXCEPT ![a] = "ended"]
        /\ held' = [held EXCEPT ![a] = NothingHeld]
        /\ evs' = [evs EXCEPT ![a] =
             Append(@ \o RemovedAll({c \in Chans : held[a][c] # NoCfg}),
                    EndOfStream(r))]
    BY DEF TriggerShutdown, chanVars, searchVars
  <1>2. Distinct(searches)' /\ Distinct(find_ioc_queue_set)'
    BY <1>1 DEF OwnerInv, Distinct
  <1>3. evs \in [Addrs -> Seq(Events)]
    BY QueueTypes DEF OwnerInv, SearchInv
  <1>4. PICK H \in SUBSET Chans : H = {c \in Chans : held[a][c] # NoCfg}
    OBVIOUS
  <1>5. PICK p \in Seq(Reports), t \in Seq(Reports) : p = evs[a] /\ t = RemovedAll(H)
    <2>1. CASE H = {}
      <3>1. Cardinality({}) = 0
        BY FS_EmptySet
      <3>2. RemovedAll({}) = <<>>
        BY <3>1 DEF RemovedAll
      <3> QED
        BY <1>1, <2>1, <3>2, EmptySeq DEF OwnerInv, ConnOK
    <2>2. CASE H # {}
      <3>1. RemovedAll(H) \in Seq(Reports)
        BY <2>2, RemovedAllOn
      <3> QED
        BY <1>1, <3>1 DEF OwnerInv, ConnOK
    <2> QED
      BY <2>1, <2>2
  <1>6. PICK f \in Seq(Reports) : f = p \o t
    BY ConcatProperties
  <1>7. evs' = [evs EXCEPT ![a] = Append(f, EndOfStream(r))]
    BY <1>1, <1>3, <1>4, <1>5, <1>6
  <1>8. /\ \A b \in Addrs : ConnOK(b)'
        /\ conn'[a] = "ended"
        /\ \A b \in Addrs, c \in Chans : b # a =>
             /\ conn'[b] = conn[b] /\ CmdsAbout(b, c)' = CmdsAbout(b, c)
             /\ NotesOn(b, c)' = NotesOn(b, c) /\ held'[b][c] = held[b][c]
        /\ \A c \in Chans : NotesOn(a, c)' = Keep(f, {ChannelRemoved(c)})
    BY <1>1, <1>7, OthersOK
  <1>9. ASSUME NEW c \in Chans PROVE ChanOK(c)'
    <2>0. ChanOK(c)
      BY DEF OwnerInv
    <2>1. PICK K : K = {ChannelRemoved(c)}
      OBVIOUS
    <2>2. Keep(p \o t, K) = Keep(p, K) \o Keep(t, K)
      BY KeepConcat
    <2>3. Keep(t, K) = IF c \in H THEN <<ChannelRemoved(c)>> ELSE <<>>
      BY <1>5, <2>1, RemovedAllOn
    <2>4. Keep(p, K) \in Seq(Reports)
      BY KeepType
    <2>5. NotesOn(a, c) = Keep(p, K) /\ NotesOn(a, c)' = Keep(p \o t, K)
      BY <1>5, <1>6, <1>8, <2>1 DEF NotesOn
    <2>6. Keep(p, K) \o <<>> = Keep(p, K)
      BY <2>4
    <2>7. NotesOn(a, c)' = IF c \in H THEN NotesOn(a, c) \o <<ChannelRemoved(c)>>
                           ELSE NotesOn(a, c)
      BY <2>2, <2>3, <2>5, <2>6
    <2>8. /\ held[a][c] # NoCfg =>
               NotesOn(a, c)' = NotesOn(a, c) \o <<ChannelRemoved(c)>>
          /\ held[a][c] = NoCfg => NotesOn(a, c)' = NotesOn(a, c)
      BY <1>4, <2>7
    <2> QED
      BY <1>1, <1>8, <2>0, <2>8, ChanNote
  <1> QED
    BY <1>2, <1>8, <1>9 DEF OwnerPart

(* A part of a queue of at most one element is empty or all of it.         *)
LEMMA PartOfOne ==
    ASSUME NEW S, NEW k \in Seq(S), NEW r \in Seq(S), NEW x,
           k \o r = <<>> \/ k \o r = <<x>>
    PROVE  k = <<>> \/ k = k \o r
  <1>1. PICK u : u = k \o r
    OBVIOUS
  <1>2. /\ u \in Seq(S) /\ Len(u) = Len(k) + Len(r) /\ Len(k) \in Nat /\ Len(r) \in Nat
        /\ \A i \in 1..Len(k) : u[i] = k[i]
    BY <1>1, ConcatProperties
  <1>3. Len(u) = 0 \/ Len(u) = 1
    BY <1>1
  <1>4. CASE Len(k) = 0
    BY <1>4
  <1>5. CASE Len(k) # 0
    <2>1. Len(k) = 1 /\ Len(u) = 1
      <3>1. PICK m \in Nat, n \in Nat, z \in Nat : m = Len(k) /\ n = Len(r) /\ z = Len(u)
        BY <1>2
      <3>2. z = m + n /\ (z = 0 \/ z = 1) /\ m # 0
        BY <1>2, <1>3, <1>5, <3>1
      <3>3. m = 1 /\ z = 1
        BY <3>2
      <3> QED
        BY <3>1, <3>3
    <2>2. k = u
      BY <1>2, <2>1, SeqEqual
    <2> QED
      BY <1>1, <2>2
  <1> QED
    BY <1>4, <1>5

(* A connection that fails loses reports.                                  *)
LEMMA ConnErrorOwner ==
    ASSUME OwnerInv, NEW a \in Addrs, ConnError(a)
    PROVE  OwnerPart'
  <1>1. /\ UNCHANGED <<channel_states, config, cmds, searches, find_ioc_queue_set>>
        /\ conn[a] = "up"
        /\ conn' = [conn EXCEPT ![a] = "ended"]
        /\ held' = [held EXCEPT ![a] = NothingHeld]
    BY DEF ConnError, chanVars, searchVars
  <1>2. Distinct(searches)' /\ Distinct(find_ioc_queue_set)'
    BY <1>1 DEF OwnerInv, Distinct
  <1>3. evs \in [Addrs -> Seq(Events)]
    BY QueueTypes DEF OwnerInv, SearchInv
  <1>4. PICK p \in Seq(Reports) : p = evs[a]
    BY <1>1 DEF OwnerInv, ConnOK
  <1>5. PICK n \in 0..Len(p) :
          evs' = [evs EXCEPT ![a] = Append(SubSeq(p, 1, n), EndOfStream("Failed"))]
    <2>1. PICK n \in 0..Len(evs[a]) :
            evs' = [evs EXCEPT ![a] = Append(SubSeq(@, 1, n), EndOfStream("Failed"))]
      BY DEF ConnError
    <2> QED
      BY <1>3, <1>4, <2>1
  <1>6. PICK f \in Seq(Reports) : f = SubSeq(p, 1, n)
    BY KeepSubSeq
  <1>7. /\ \A b \in Addrs : ConnOK(b)'
        /\ conn'[a] = "ended"
        /\ \A b \in Addrs, c \in Chans : b # a =>
             /\ conn'[b] = conn[b] /\ CmdsAbout(b, c)' = CmdsAbout(b, c)
             /\ NotesOn(b, c)' = NotesOn(b, c) /\ held'[b][c] = held[b][c]
        /\ \A c \in Chans : NotesOn(a, c)' = Keep(f, {ChannelRemoved(c)})
    BY <1>1, <1>5, <1>6, OthersOK
  <1>8. ASSUME NEW c \in Chans PROVE ChanOK(c)'
    <2>0. ChanOK(c)
      BY DEF OwnerInv
    <2>1. PICK K : K = {ChannelRemoved(c)}
      OBVIOUS
    <2>2. PICK t \in Seq(Reports) : Keep(p, K) = Keep(SubSeq(p, 1, n), K) \o t
      <3>1. PICK S : S = Reports
        OBVIOUS
      <3>2. p \in Seq(S)
        BY <3>1
      <3>3. /\ SubSeq(p, 1, n) \in Seq(S)
            /\ \E r \in Seq(S) : Keep(p, K) = Keep(SubSeq(p, 1, n), K) \o r
        BY <3>2, KeepSubSeq, ZenonT(60)
      <3> QED
        BY <3>1, <3>3
    <2>3. PICK k \in Seq(Reports) : k = Keep(f, K)
      BY KeepType
    <2>4. NotesOn(a, c) = k \o t /\ NotesOn(a, c)' = k
      BY <1>4, <1>6, <1>7, <2>1, <2>2, <2>3 DEF NotesOn
    <2>5. NotesOn(a, c) = <<>> \/ NotesOn(a, c) = <<ChannelRemoved(c)>>
      BY <2>0 DEF ChanOK, OneNote
    <2>6. k = <<>> \/ k = k \o t
      <3>1. PICK x : x = ChannelRemoved(c)
        OBVIOUS
      <3>2. k \o t = <<>> \/ k \o t = <<x>>
        BY <2>4, <2>5, <3>1
      <3> QED
        BY <3>2, PartOfOne
    <2>7. NothingNew(c)
      BY <1>1, <1>7, <2>4, <2>6 DEF NothingNew
    <2> QED
      BY <1>1, <2>0, <2>7, ChanFrame
  <1> QED
    BY <1>2, <1>7, <1>8 DEF OwnerPart

(* The reason of the end is replaced, the reports are not.                 *)
LEMMA ConnReasonReplacedOwner ==
    ASSUME OwnerInv, NEW a \in Addrs, ConnReasonReplaced(a)
    PROVE  OwnerPart'
  <1>1. /\ UNCHANGED <<channel_states, config, conn, cmds, held, searches,
                       find_ioc_queue_set>>
        /\ conn[a] = "ended"
        /\ evs' = [evs EXCEPT ![a] =
             Append(SubSeq(@, 1, Len(@) - 1), EndOfStream("Failed"))]
    BY DEF ConnReasonReplaced, chanVars, searchVars
  <1>2. Distinct(searches)' /\ Distinct(find_ioc_queue_set)'
    BY <1>1 DEF OwnerInv, Distinct
  <1>3. /\ evs \in [Addrs -> Seq(Events)]
        /\ held \in [Addrs -> [Chans -> Configs \union {NoCfg}]]
        /\ conn \in [Addrs -> {"none", "up", "ended"}]
    BY QueueTypes DEF OwnerInv, SearchInv
  <1>4. PICK f \in Seq(Reports), r \in {"OnCommand", "Failed"} :
          evs[a] = Append(f, EndOfStream(r)) /\ held[a] = NothingHeld
    BY <1>1 DEF OwnerInv, ConnOK
  <1>5. PICK e \in Events : e = EndOfStream(r) /\ \A c : e \notin {ChannelRemoved(c)}
    BY ReportsAreEvents
  <1>6. f \in Seq(Events)
    BY ReportsAreEvents
  <1>7. SubSeq(Append(f, e), 1, Len(Append(f, e)) - 1) = f
    <2>1. PICK u : u = Append(f, e)
      OBVIOUS
    <2>2. /\ u \in Seq(Events) /\ Len(u) = Len(f) + 1 /\ Len(f) \in Nat
          /\ \A i \in 1..Len(f) : u[i] = f[i]
      BY <1>6, <2>1, AppendProperties
    <2>3. PICK s : s = SubSeq(u, 1, Len(f))
      OBVIOUS
    <2>4. s \in Seq(Events) /\ Len(s) = Len(f) /\ \A i \in 1..Len(f) : s[i] = u[i]
      BY <2>2, <2>3
    <2>5. s = f
      BY <1>6, <2>2, <2>4, SeqEqual
    <2>6. Len(u) - 1 = Len(f)
      BY <2>2
    <2> QED
      BY <2>1, <2>3, <2>5, <2>6
  <1>8. evs' = [evs EXCEPT ![a] = Append(f, EndOfStream("Failed"))]
    BY <1>1, <1>3, <1>4, <1>5, <1>7
  <1>9. conn' = [conn EXCEPT ![a] = "ended"] /\ held' = [held EXCEPT ![a] = NothingHeld]
    BY <1>1, <1>3, <1>4
  <1>10. /\ \A b \in Addrs : ConnOK(b)'
         /\ conn'[a] = "ended"
         /\ \A b \in Addrs, c \in Chans : b # a =>
              /\ conn'[b] = conn[b] /\ CmdsAbout(b, c)' = CmdsAbout(b, c)
              /\ NotesOn(b, c)' = NotesOn(b, c) /\ held'[b][c] = held[b][c]
         /\ \A c \in Chans : NotesOn(a, c)' = Keep(f, {ChannelRemoved(c)})
    BY <1>1, <1>8, <1>9, OthersOK
  <1>11. ASSUME NEW c \in Chans PROVE ChanOK(c)'
    <2>1. Keep(Append(f, e), {ChannelRemoved(c)})
            = IF e \in {ChannelRemoved(c)} THEN Append(Keep(f, {ChannelRemoved(c)}), e)
              ELSE Keep(f, {ChannelRemoved(c)})
      BY <1>6, KeepAppend
    <2>2. NotesOn(a, c) = NotesOn(a, c)'
      BY <1>4, <1>5, <1>10, <2>1 DEF NotesOn
    <2>3. NothingNew(c)
      BY <1>1, <1>10, <2>2 DEF NothingNew
    <2> QED
      BY <1>1, <2>3, ChanFrame DEF OwnerInv
  <1> QED
    BY <1>2, <1>10, <1>11 DEF OwnerPart

(* The IOC refuses to create a channel.                                    *)
LEMMA ConnCreateFailOwner ==
    ASSUME OwnerInv, NEW a \in Addrs, NEW c \in Chans, ConnCreateFail(a, c)
    PROVE  OwnerPart'
  <1>1. /\ UNCHANGED <<channel_states, config, conn, cmds, held, searches,
                       find_ioc_queue_set>>
        /\ conn[a] = "up"
        /\ evs' = Push(evs, a, ChannelCreateFail(c))
    BY DEF ConnCreateFail, chanVars, searchVars
  <1>2. Distinct(searches)' /\ Distinct(find_ioc_queue_set)'
    BY <1>1 DEF OwnerInv, Distinct
  <1>3. IInv /\ evs \in [Addrs -> Seq(Events)]
    BY QueueTypes DEF OwnerInv, SearchInv
  <1>4. PICK e \in Reports : /\ e = ChannelCreateFail(c) /\ e \in Events
                             /\ \A d : e # ChannelRemoved(d)
    BY ReportsAreEvents
  <1>5. \A b \in Addrs, d \in Chans :
          NotesOn(b, d)' = IF b = a /\ e = ChannelRemoved(d)
                           THEN NotesOn(b, d) \o <<ChannelRemoved(d)>>
                           ELSE NotesOn(b, d)
    BY <1>1, <1>3, <1>4, PushNote
  <1>6. \A b \in Addrs, d \in Chans : NotesOn(b, d)' = NotesOn(b, d)
    BY <1>4, <1>5
  <1>7. ASSUME NEW d \in Chans PROVE ChanOK(d)'
    <2>1. NothingNew(d)
      BY <1>1, <1>6 DEF NothingNew, CmdsAbout
    <2> QED
      BY <1>1, <2>1, ChanFrame DEF OwnerInv
  <1>8. ASSUME NEW b \in Addrs PROVE ConnOK(b)'
    <2>0. ConnOK(b)
      BY DEF OwnerInv
    <2>1. CASE b = a
      <3>1. evs[a] \in Seq(Reports)
        BY <1>1, <2>0, <2>1 DEF ConnOK
      <3>2. Append(evs[a], e) \in Seq(Reports)
        BY <3>1, AppendProperties
      <3>3. evs'[a] = Append(evs[a], e)
        BY <1>1, <1>3, <1>4 DEF Push
      <3> QED
        BY <1>1, <2>1, <3>2, <3>3 DEF ConnOK
    <2>2. CASE b # a
      <3>1. evs'[b] = evs[b]
        BY <1>1, <1>3, <2>2 DEF Push
      <3> QED
        BY <1>1, <2>0, <3>1 DEF ConnOK
    <2> QED
      BY <2>1, <2>2
  <1> QED
    BY <1>2, <1>7, <1>8 DEF OwnerPart
-----------------------------------------------------------------------------
(* handle_ca_conn_event.                                                   *)

(* What the set hears next from a connection: a report, or its end.        *)
LEMMA EventFront ==
    ASSUME OwnerInv, NEW a \in Addrs, NEW k, NextEvent(a, k)
    PROVE  LET h == Head(evs[a]) IN
           /\ h.k = k /\ conn[a] # "none"
           /\ \A b \in Addrs : b # a => evs'[b] = evs[b]
           /\ \A c \in Chans :
                NotesOn(a, c) = IF h = ChannelRemoved(c)
                                THEN <<h>> \o NotesOn(a, c)'
                                ELSE NotesOn(a, c)'
           /\ \A c \in Chans : NotesOn(a, c)' \in Seq(Events)
           /\ \A b \in Addrs, c \in Chans : b # a => NotesOn(b, c)' = NotesOn(b, c)
           /\ h \in Events
           /\ \/ /\ h \in Reports
                 /\ \/ conn[a] = "up" /\ evs'[a] \in Seq(Reports)
                    \/ /\ conn[a] = "ended" /\ held[a] = NothingHeld
                       /\ \E f \in Seq(Reports), r \in {"OnCommand", "Failed"} :
                            evs'[a] = Append(f, EndOfStream(r))
              \/ /\ k = "EndOfStream" /\ conn[a] = "ended" /\ held[a] = NothingHeld
                 /\ evs'[a] = <<>>
  <1>0. evs \in [Addrs -> Seq(Events)]
    BY QueueTypes DEF OwnerInv, SearchInv
  <1>1. PICK q \in Seq(Events) : q = evs[a] /\ q # <<>> /\ Head(q).k = k
    BY <1>0 DEF NextEvent
  <1>2. PICK h, t : h = Head(q) /\ t = Tail(q)
    OBVIOUS
  <1>3. h \in Events /\ t \in Seq(Events)
    BY <1>1, <1>2, HeadTailProperties
  <1>4. evs'[a] = t /\ \A b \in Addrs : b # a => evs'[b] = evs[b]
    BY <1>0, <1>1, <1>2 DEF NextEvent
  <1>5. ASSUME NEW c \in Chans
        PROVE  /\ NotesOn(a, c) = IF h = ChannelRemoved(c)
                                  THEN <<h>> \o NotesOn(a, c)'
                                  ELSE NotesOn(a, c)'
               /\ NotesOn(a, c)' \in Seq(Events)
    <2>1. PICK K : K = {ChannelRemoved(c)}
      OBVIOUS
    <2>2. Keep(q, K) = IF Head(q) \in K THEN <<Head(q)>> \o Keep(Tail(q), K)
                       ELSE Keep(Tail(q), K)
      BY <1>1, KeepTail
    <2>3. Keep(t, K) \in Seq(Events)
      BY <1>3, KeepType
    <2>4. NotesOn(a, c) = Keep(q, K) /\ NotesOn(a, c)' = Keep(t, K)
      BY <1>1, <1>4, <2>1 DEF NotesOn
    <2>5. h \in K <=> h = ChannelRemoved(c)
      BY <2>1
    <2> QED
      BY <1>2, <2>2, <2>3, <2>4, <2>5
  <1>6. \A b \in Addrs, c \in Chans : b # a => NotesOn(b, c)' = NotesOn(b, c)
    BY <1>4 DEF NotesOn
  <1>7. ConnOK(a)
    BY DEF OwnerInv
  <1>8. conn[a] # "none"
    BY <1>1, <1>7 DEF ConnOK
  <1>9. CASE conn[a] = "up"
    <2>1. q \in Seq(Reports)
      BY <1>1, <1>7, <1>9 DEF ConnOK
    <2>2. h \in Reports /\ t \in Seq(Reports)
      BY <1>1, <1>2, <2>1, HeadTailProperties
    <2> QED
      BY <1>1, <1>2, <1>3, <1>4, <1>5, <1>6, <1>8, <1>9, <2>2
  <1>10. CASE conn[a] # "up"
    <2>1. conn[a] = "ended" /\ held[a] = NothingHeld
      BY <1>7, <1>8, <1>10 DEF ConnOK
    <2>2. PICK f \in Seq(Reports), r \in {"OnCommand", "Failed"} :
            q = Append(f, EndOfStream(r))
      BY <1>1, <1>7, <2>1 DEF ConnOK
    <2>3. PICK e \in Events : e = EndOfStream(r) /\ e.k = "EndOfStream"
      BY ReportsAreEvents, RecordFacts
    <2>4. f \in Seq(Events)
      BY ReportsAreEvents
    <2>5. /\ Len(q) = Len(f) + 1 /\ Len(f) \in Nat /\ q[Len(f) + 1] = e
          /\ \A i \in 1..Len(f) : q[i] = f[i]
      BY <2>2, <2>3, <2>4, AppendProperties
    <2>6. /\ h = q[1] /\ Len(t) = Len(f)
          /\ \A i \in 1..Len(f) : t[i] = q[i + 1]
      <3>1. /\ Len(Tail(q)) = Len(q) - 1
            /\ \A i \in 1..Len(Tail(q)) : Tail(q)[i] = q[i + 1]
        BY <1>1, HeadTailProperties
      <3>2. Len(q) - 1 = Len(f)
        BY <2>5
      <3> QED
        BY <1>2, <3>1, <3>2
    <2>7. CASE f = <<>>
      <3>1. Len(f) = 0
        BY <2>7
      <3>2. h = e /\ t = <<>>
        BY <1>3, <2>5, <2>6, <3>1
      <3>3. k = "EndOfStream"
        BY <1>1, <1>2, <2>3, <3>2
      <3> QED
        BY <1>1, <1>2, <1>3, <1>4, <1>5, <1>6, <1>8, <2>1, <3>2, <3>3
    <2>8. CASE f # <<>>
      <3>1. PICK g \in Seq(Reports) : g = Tail(f)
        BY <2>8, HeadTailProperties
      <3>2. /\ Len(g) = Len(f) - 1 /\ Len(f) >= 1
            /\ \A i \in 1..Len(g) : g[i] = f[i + 1]
            /\ f[1] \in Reports
        BY <2>8, <3>1, HeadTailProperties
      <3>3. h \in Reports
        BY <2>5, <2>6, <3>2
      <3>4. PICK u : u = Append(g, e)
        OBVIOUS
      <3>5. /\ u \in Seq(Events) /\ Len(u) = Len(g) + 1 /\ u[Len(g) + 1] = e
            /\ \A i \in 1..Len(g) : u[i] = g[i]
        <4>1. g \in Seq(Events)
          BY ReportsAreEvents
        <4> QED
          BY <3>4, <4>1, AppendProperties
      <3>6. ASSUME NEW i \in 1..Len(f) PROVE t[i] = u[i]
        <4>1. CASE i = Len(f)
          <5>1. i = Len(g) + 1
            BY <2>5, <3>2, <4>1
          <5> QED
            BY <2>5, <2>6, <3>5, <4>1, <5>1
        <4>2. CASE i # Len(f)
          <5>1. i \in 1..Len(g) /\ i + 1 \in 1..Len(f)
            BY <2>5, <3>2, <4>2
          <5> QED
            BY <2>5, <2>6, <3>2, <3>5, <5>1
        <4> QED
          BY <4>1, <4>2
      <3>7. Len(u) = Len(f)
        BY <2>5, <3>2, <3>5
      <3>8. t = u
        BY <1>3, <2>6, <3>5, <3>6, <3>7, SeqEqual
      <3> QED
        BY <1>1, <1>2, <1>3, <1>4, <1>5, <1>6, <1>8, <2>1, <2>3, <3>3, <3>4, <3>8
    <2> QED
      BY <2>7, <2>8
  <1> QED
    BY <1>9, <1>10

(* handle_ca_conn_channel_removed: nobody has the channel any more.        *)
LEMMA HandleChannelRemovedOwner ==
    ASSUME OwnerInv, NEW a \in Addrs, HandleChannelRemoved(a)
    PROVE  OwnerPart'
  <1>0. /\ channel_states \in [Chans -> ChannelStates]
        /\ config \in [Chans -> Configs \union {NoCfg}]
        /\ conn \in [Addrs -> {"none", "up", "ended"}]
        /\ IInv
    BY QueueTypes DEF OwnerInv, SearchInv
  <1>1. NextEvent(a, "ChannelRemoved")
    BY DEF HandleChannelRemoved
  <1>2. PICK h : h = Head(evs[a])
    OBVIOUS
  <1>3. /\ h.k = "ChannelRemoved" /\ conn[a] # "none"
        /\ \A b \in Addrs : b # a => evs'[b] = evs[b]
        /\ \A c \in Chans :
             NotesOn(a, c) = IF h = ChannelRemoved(c)
                             THEN <<h>> \o NotesOn(a, c)'
                             ELSE NotesOn(a, c)'
        /\ \A c \in Chans : NotesOn(a, c)' \in Seq(Events)
        /\ \A b \in Addrs, c \in Chans : b # a => NotesOn(b, c)' = NotesOn(b, c)
        /\ h \in Events
        /\ h \in Reports
        /\ \/ conn[a] = "up" /\ evs'[a] \in Seq(Reports)
           \/ /\ conn[a] = "ended" /\ held[a] = NothingHeld
              /\ \E f \in Seq(Reports), r \in {"OnCommand", "Failed"} :
                   evs'[a] = Append(f, EndOfStream(r))
    BY <1>1, <1>2, EventFront
  <1>4. PICK c \in Chans : h = ChannelRemoved(c) /\ h.name = c
    BY <1>3, RecordFacts DEF Reports
  <1>5. UNCHANGED <<held, searches, find_ioc_queue_set>>
    BY DEF HandleChannelRemoved, searchVars
  <1>6. Distinct(searches)' /\ Distinct(find_ioc_queue_set)'
    BY <1>5 DEF OwnerInv, Distinct
  <1>7. \A b \in Addrs, d \in Chans : d # c => NotesOn(b, d)' = NotesOn(b, d)
    BY <1>3, <1>4, ReportsAreEvents
  <1>8. /\ NotesOn(a, c) # <<>> /\ \A b \in Addrs : ~Active(b, c)
        /\ \A b \in Addrs : NotesOn(b, c)' = <<>>
    <2>1. PICK r \in Seq(Events) : r = NotesOn(a, c)'
      BY <1>3
    <2>2. NotesOn(a, c) = <<h>> \o r
      BY <1>3, <1>4, <2>1
    <2>3. <<h>> \o r # <<>> /\ (<<h>> \o r = <<h>> => r = <<>>)
      BY <1>3, FirstAndRest
    <2>4. NotesOn(a, c) # <<>>
      BY <2>2, <2>3
    <2>5. /\ NotesOn(a, c) = <<ChannelRemoved(c)>>
          /\ \A b \in Addrs : ~Active(b, c) /\ (b # a => NotesOn(b, c) = <<>>)
      BY <2>4 DEF OwnerInv, ChanOK, OneNote
    <2>6. r = <<>>
      BY <1>4, <2>2, <2>3, <2>5
    <2> QED
      BY <1>3, <2>1, <2>4, <2>5, <2>6
  <1>9. c \notin Range(searches) /\ c \notin Range(find_ioc_queue_set)
    BY <1>8 DEF OwnerInv, ChanOK, SearchedIsFree, Free
  <1>10. \A b \in Addrs : ConnOK(b) /\ \A d \in Chans : ChanOK(d)
    BY DEF OwnerInv
  <1>11. ASSUME UNCHANGED <<conn, cmds>>,
                \A d \in Chans : d # c => /\ channel_states'[d] = channel_states[d]
                                          /\ config'[d] = config[d],
                \A b \in Addrs : At(c, b)' => At(c, b) /\ config'[c] = config[c]
         PROVE  OwnerPart'
    <2>1. \A d \in Chans : NothingNew(d)
      BY <1>5, <1>7, <1>8, <1>11 DEF NothingNew, CmdsAbout
    <2>2. ASSUME NEW d \in Chans PROVE ChanOK(d)'
      <3>1. CASE d # c
        BY <1>5, <1>11, <2>1, <3>1, ChanFrame DEF OwnerInv
      <3>2. CASE d = c
        <4>1. ChanOK(c) /\ NothingNew(c)
          BY <2>1 DEF OwnerInv
        <4>2. c \notin Range(searches)' /\ c \notin Range(find_ioc_queue_set)'
          BY <1>5, <1>9
        <4>3. ChanOK(c)'
          BY <1>8, <1>11, <4>1, <4>2, ChanKeeps
        <4> QED
          BY <3>2, <4>3
      <3> QED
        BY <3>1, <3>2
    <2>3. ASSUME NEW b \in Addrs PROVE ConnOK(b)'
      BY <1>3, <1>5, <1>10, <1>11 DEF ConnOK
    <2> QED
      BY <1>6, <2>2, <2>3 DEF OwnerPart
  <1>12. CASE /\ Is(c, "UnassigningForConfigChange")
              /\ config' = [config EXCEPT ![c] = channel_states[c].config_new]
              /\ UNCHANGED <<channel_states, conn, cmds>>
    <2>1. \A b \in Addrs : ~At(c, b)'
      BY <1>12, RecordFacts DEF At, Is
    <2> QED
      BY <1>0, <1>11, <1>12, <2>1
  <1>13. CASE /\ Is(c, "ToRemove") /\ SetState(c, Absent)
              /\ config' = [config EXCEPT ![c] = NoCfg]
              /\ UNCHANGED <<conn, cmds>>
    <2>1. channel_states' = [channel_states EXCEPT ![c] = Absent]
      BY <1>13 DEF SetState
    <2>2. channel_states'[c].v = "Absent"
      BY <1>0, <2>1 DEF Absent, Plain, ChannelState
    <2>3. \A b \in Addrs : ~At(c, b)'
      BY <2>2, RecordFacts DEF At
    <2> QED
      BY <1>0, <1>11, <1>13, <2>1, <2>3
  <1>14. CASE UNCHANGED <<channel_states, config, conn, cmds>>
    BY <1>11, <1>14 DEF At
  <1>15. CASE /\ Is(c, "UnassigningForConfigChange") /\ ~shutdown_stopping
              /\ config' = [config EXCEPT ![c] = channel_states[c].config_new]
              /\ AddWithAddr(c, channel_states[c].addr, ReaddConfig(c))
    <2>1. PICK b \in Addrs : b = channel_states[c].addr
      BY <1>0, <1>15 DEF IInv, AddrsOK, Is
    <2>2. PICK cfg \in Configs \union {NoCfg} : cfg = channel_states[c].config_new
      BY <1>0 DEF ChannelStates
    <2>3. /\ AddWithAddr(c, b, cfg) /\ config'[c] = cfg
          /\ \A d \in Chans : d # c => config'[d] = config[d]
      BY <1>0, <1>15, <2>1, <2>2 DEF ReaddConfig
    <2>4. /\ Range(searches)' \subseteq Range(searches) /\ c \notin Range(searches)'
          /\ find_ioc_queue_set' = find_ioc_queue_set
      BY <1>5, <1>9
    <2>5. /\ \A d \in Chans : ChanOK(d)'
          /\ \A x \in Addrs : x # b => cmds'[x] = cmds[x] /\ conn'[x] = conn[x]
          /\ conn'[b] # "none"
          /\ conn'[b] = conn[b] \/ (conn[b] = "none" /\ conn'[b] = "up")
      BY <1>5, <1>7, <1>8, <1>9, <1>15, <2>3, <2>4, AssignOwner
    <2>6. ASSUME NEW x \in Addrs PROVE ConnOK(x)'
      <3>0. ConnOK(x)
        BY DEF OwnerInv
      <3>1. <<>> \in Seq(Reports)
        BY EmptySeq
      <3>2. CASE x = a
        <4>1. conn'[x] = conn[x] /\ conn[x] # "none"
          BY <1>3, <2>5, <3>2
        <4> QED
          BY <1>3, <1>5, <3>2, <4>1 DEF ConnOK
      <3>3. CASE x # a
        BY <1>3, <1>5, <2>5, <3>0, <3>1, <3>3 DEF ConnOK
      <3> QED
        BY <3>2, <3>3
    <2> QED
      BY <1>6, <2>5, <2>6 DEF OwnerPart
  <1> QED
    <2>1. Head(evs[a]).name = c
      BY <1>2, <1>4
    <2> QED
      BY <1>12, <1>13, <1>14, <1>15, <2>1 DEF HandleChannelRemoved

(* handle_channel_create_fail: the text is not the name of a channel.      *)
LEMMA HandleCreateFailOwner ==
    ASSUME OwnerInv, NEW a \in Addrs, HandleCreateFail(a)
    PROVE  OwnerPart'
  <1>1. NextEvent(a, "ChannelCreateFail")
    BY DEF HandleCreateFail
  <1>2. PICK h : h = Head(evs[a])
    OBVIOUS
  <1>3. /\ h.k = "ChannelCreateFail"
        /\ \A b \in Addrs : b # a => evs'[b] = evs[b]
        /\ \A c \in Chans :
             NotesOn(a, c) = IF h = ChannelRemoved(c)
                             THEN <<h>> \o NotesOn(a, c)'
                             ELSE NotesOn(a, c)'
        /\ \A b \in Addrs, c \in Chans : b # a => NotesOn(b, c)' = NotesOn(b, c)
        /\ h \in Reports
        /\ \/ conn[a] = "up" /\ evs'[a] \in Seq(Reports)
           \/ /\ conn[a] = "ended" /\ held[a] = NothingHeld
              /\ \E f \in Seq(Reports), r \in {"OnCommand", "Failed"} :
                   evs'[a] = Append(f, EndOfStream(r))
    BY <1>1, <1>2, EventFront
  <1>4. \A c \in Chans : h # ChannelRemoved(c)
    BY <1>3, RecordFacts
  <1>5. h.name = FailText
    BY <1>3, RecordFacts DEF Reports
  <1>6. h.name \notin WithStatusSeriesId
    BY <1>5, ConnSetAssumption DEF WithStatusSeriesId
  <1>7. UNCHANGED <<channel_states, config, conn, cmds, held, searches,
                    find_ioc_queue_set>>
    BY <1>2, <1>6 DEF HandleCreateFail, searchVars
  <1>8. Distinct(searches)' /\ Distinct(find_ioc_queue_set)'
    BY <1>7 DEF OwnerInv, Distinct
  <1>9. \A b \in Addrs, c \in Chans : NotesOn(b, c)' = NotesOn(b, c)
    BY <1>3, <1>4
  <1>10. ASSUME NEW c \in Chans PROVE ChanOK(c)'
    <2>1. NothingNew(c)
      BY <1>7, <1>9 DEF NothingNew, CmdsAbout
    <2> QED
      BY <1>7, <2>1, ChanFrame DEF OwnerInv
  <1>11. ASSUME NEW b \in Addrs PROVE ConnOK(b)'
    <2>1. ConnOK(b)
      BY DEF OwnerInv
    <2> QED
      BY <1>3, <1>7, <2>1 DEF ConnOK
  <1> QED
    BY <1>8, <1>10, <1>11 DEF OwnerPart

(* handle_ca_conn_eos: the channels of a connection that ended are free.   *)
LEMMA HandleEosOwner ==
    ASSUME OwnerInv, NEW a \in Addrs, HandleEos(a)
    PROVE  OwnerPart'
  <1>0. /\ cmds \in [Addrs -> Seq(Commands)]
        /\ conn \in [Addrs -> {"none", "up", "ended"}]
        /\ channel_states \in [Chans -> ChannelStates]
    BY QueueTypes DEF OwnerInv, SearchInv
  <1>1. NextEvent(a, "EndOfStream")
    BY DEF HandleEos
  <1>2. PICK h : h = Head(evs[a])
    OBVIOUS
  <1>3. \A c \in Chans : ChannelRemoved(c).k # "EndOfStream"
    BY RecordFacts
  <1>4. \A e \in Reports : e.k # "EndOfStream"
    BY RecordFacts DEF Reports
  <1>5. /\ h.k = "EndOfStream" /\ conn[a] = "ended" /\ held[a] = NothingHeld
        /\ evs'[a] = <<>>
        /\ \A b \in Addrs : b # a => evs'[b] = evs[b]
        /\ \A c \in Chans :
             NotesOn(a, c) = IF h = ChannelRemoved(c)
                             THEN <<h>> \o NotesOn(a, c)'
                             ELSE NotesOn(a, c)'
        /\ \A b \in Addrs, c \in Chans : b # a => NotesOn(b, c)' = NotesOn(b, c)
    BY <1>1, <1>2, <1>4, EventFront
  <1>6. \A b \in Addrs, c \in Chans : NotesOn(b, c)' = NotesOn(b, c)
    BY <1>3, <1>5
  <1>7. /\ UNCHANGED <<config, held, searches, find_ioc_queue_set>>
        /\ conn' = [conn EXCEPT ![a] = "none"]
        /\ cmds' = [cmds EXCEPT ![a] = <<>>]
        /\ \A c \in Chans :
             \/ channel_states'[c] = channel_states[c]
             \/ At(c, a) /\ channel_states'[c] = Plain("MaybeWrongAddress")
    BY DEF HandleEos, searchVars
  <1>8. /\ conn'[a] = "none" /\ cmds'[a] = <<>>
        /\ \A b \in Addrs : b # a => conn'[b] = conn[b] /\ cmds'[b] = cmds[b]
    BY <1>0, <1>7
  <1>9. Distinct(searches)' /\ Distinct(find_ioc_queue_set)'
    BY <1>7 DEF OwnerInv, Distinct
  <1>10. \A c \in Chans : NotesOn(a, c)' = <<>>
    <2>1. \A K : Keep(<<>>, K) = <<>>
      BY KeepSmall
    <2> QED
      BY <1>5, <2>1 DEF NotesOn
  <1>11. ASSUME NEW c \in Chans PROVE ChanOK(c)'
    <2>0. ChanOK(c)
      BY DEF OwnerInv
    <2>1. NothingNew(c)
      BY <1>6, <1>7, <1>8 DEF NothingNew, CmdsAbout
    <2>2. CASE channel_states'[c] = channel_states[c]
      BY <1>7, <2>0, <2>1, <2>2, ChanFrame
    <2>3. CASE At(c, a) /\ channel_states'[c] = Plain("MaybeWrongAddress")
      <3>1. \A b \in Addrs : Tied(c, b) => b = a
        BY <2>3, AtFacts DEF Tied, Is
      <3>2. Free(c)
        BY <1>5, <1>6, <1>10, <2>0, <3>1 DEF Free, Active, ChanOK, OneActive, OneNote
      <3>3. channel_states[c].v = "WithAddress"
        BY <2>3, AtFacts
      <3>4. channel_states'[c].v = "MaybeWrongAddress"
        BY <2>3 DEF Plain, ChannelState
      <3>5. c \notin Range(searches)' /\ c \notin Range(find_ioc_queue_set)'
        BY <1>7, <2>0, <3>3 DEF ChanOK, SearchedIsFree
      <3> QED
        BY <2>0, <2>1, <3>2, <3>4, <3>5, ChanMoves
    <2> QED
      BY <1>7, <2>2, <2>3
  <1>12. ASSUME NEW b \in Addrs PROVE ConnOK(b)'
    <2>1. ConnOK(b)
      BY DEF OwnerInv
    <2> QED
      BY <1>5, <1>7, <1>8, <2>1 DEF ConnOK
  <1> QED
    BY <1>9, <1>11, <1>12 DEF OwnerPart
-----------------------------------------------------------------------------
(* The steps together.                                                     *)
LEMMA OwnerInit == Init => OwnerInv
  <1> SUFFICES ASSUME Init PROVE OwnerInv
    OBVIOUS
  <1>1. SearchInv
    BY SearchInit
  <1>2. /\ searches = <<>> /\ find_ioc_queue_set = <<>>
        /\ \A a \in Addrs : /\ conn[a] = "none" /\ cmds[a] = <<>> /\ evs[a] = <<>>
                            /\ held[a] = NothingHeld
        /\ \A c \in Chans : channel_states[c] = Absent
    BY DEF Init
  <1>3. Distinct(searches) /\ Distinct(find_ioc_queue_set)
    BY <1>2 DEF Distinct
  <1>4. \A a \in Addrs : ConnOK(a)
    BY <1>2 DEF ConnOK
  <1>5. ASSUME NEW c \in Chans PROVE ChanOK(c)
    <2>1. \A a \in Addrs : CmdsAbout(a, c) = <<>> /\ NotesOn(a, c) = <<>>
                           /\ ~Active(a, c)
      BY <1>2, <1>4, NoneEmpty DEF Active
    <2>2. c \notin Range(searches) /\ c \notin Range(find_ioc_queue_set)
      BY <1>2 DEF Range
    <2>3. OneActive(c) /\ OneNote(c) /\ CmdShape(c) /\ SearchedIsFree(c)
      BY <2>1, <2>2 DEF OneActive, OneNote, CmdShape, SearchedIsFree
    <2>4. RunsAsConfigured(c)
      BY <1>2 DEF RunsAsConfigured
    <2> QED
      BY <2>3, <2>4 DEF ChanOK
  <1> QED
    BY <1>1, <1>3, <1>4, <1>5 DEF OwnerInv

LEMMA OwnerNext ==
    ASSUME "Timeout" \notin Faults, OwnerInv, [Next]_vars
    PROVE  OwnerInv'
  <1>1. SearchInv'
    BY SearchNext DEF OwnerInv
  <1>2. ASSUME DaemonCommand PROVE OwnerPart'
    <2>1. ASSUME NEW c \in Chans, NEW cfg \in Configs,
                 AddNew(c, cfg) \/ AddExisting(c, cfg)
          PROVE  OwnerPart'
      BY <2>1, AddNewOwner, AddExistingOwner
    <2>2. ASSUME NEW c \in Chans, RemoveChannel(c) PROVE OwnerPart'
      <3>1. ~shutdown_stopping /\ HandleRemove({c}) /\ {c} \in SUBSET Chans
        BY <2>2 DEF RemoveChannel, Command
      <3> QED
        BY <3>1, HandleRemoveOwner
    <2>3. CASE ConfigRemoveUnflagged
      <3>1. PICK S \in SUBSET Chans : S = {c \in Chans : ~Is(c, "Absent") /\ ~touched[c]}
        OBVIOUS
      <3>2. ~shutdown_stopping /\ HandleRemove(S)
        BY <2>3, <3>1 DEF ConfigRemoveUnflagged, Command
      <3> QED
        BY <3>2, HandleRemoveOwner
    <2>4. CASE ConfigFlagReset \/ Shutdown
      BY <2>4, QuietOwner DEF ConfigFlagReset, Shutdown, chanVars, searchVars, connVars
    <2> QED
      BY <1>2, <2>1, <2>2, <2>3, <2>4 DEF DaemonCommand
  <1>3. ASSUME NEW c \in Chans, LookupResult(c) \/ LookupError(c) PROVE OwnerPart'
    <2>1. CASE LookupResult(c)
      BY <2>1, LookupResultOwner
    <2>2. CASE LookupError(c)
      BY <2>2, QuietOwner DEF LookupError, chanVars, connVars
    <2> QED
      BY <1>3, <2>1, <2>2
  <1>4. ASSUME FinderDrop PROVE OwnerPart'
    BY <1>4, QuietOwner DEF FinderDrop, chanVars, connVars
  <1>5. ASSUME NEW a \in Addrs,
               \/ ConnTakesCommand(a) \/ ConnShutdown(a) \/ ConnEnd(a)
               \/ ConnStuck(a) \/ ConnError(a) \/ ConnReasonReplaced(a)
               \/ \E c \in Chans : ConnCreateFail(a, c)
               \/ ConnStatus(a) \/ HandleConnEvent(a)
        PROVE  OwnerPart'
    <2>1. CASE ConnTakesCommand(a)
      BY <2>1, ConnTakesCommandOwner
    <2>2. CASE ConnShutdown(a)
      <3>1. TriggerShutdown(a, "OnCommand")
        BY <2>2 DEF ConnShutdown
      <3> QED
        BY <3>1, TriggerShutdownOwner
    <2>3. CASE ConnEnd(a)
      <3>1. TriggerShutdown(a, "Failed")
        BY <2>3 DEF ConnEnd
      <3> QED
        BY <3>1, TriggerShutdownOwner
    <2>4. CASE ConnError(a)
      BY <2>4, ConnErrorOwner
    <2>5. CASE ConnReasonReplaced(a)
      BY <2>5, ConnReasonReplacedOwner
    <2>6. CASE \E c \in Chans : ConnCreateFail(a, c)
      BY <2>6, ConnCreateFailOwner
    <2>7. CASE ConnStatus(a)
      BY <2>7, QuietOwner DEF ConnStatus, chanVars, searchVars, connVars
    <2>8. CASE HandleConnEvent(a)
      BY <2>8, HandleChannelRemovedOwner, HandleCreateFailOwner, HandleEosOwner
         DEF HandleConnEvent
    <2>9. CASE ConnStuck(a)
      <3>1. TriggerShutdown(a, "Failed")
        BY <2>9 DEF ConnStuck
      <3> QED
        BY <3>1, TriggerShutdownOwner
    <2> QED
      BY <1>5, <2>1, <2>2, <2>3, <2>4, <2>5, <2>6, <2>7, <2>8, <2>9
  <1>6. ASSUME JoinConn \/ EndStream \/ Ended \/ UNCHANGED vars PROVE OwnerPart'
    BY <1>6, QuietOwner DEF JoinConn, EndStream, Ended, vars, chanVars, searchVars,
       connVars
  <1>7. OwnerPart'
    <2>1. CASE \E a \in Addrs : IocFound(a)
      BY <2>1, IocFoundOwner
    <2>2. CASE IocNotFound
      BY <2>2, IocNotFoundOwner
    <2>3. CASE \E fired \in SUBSET Chans : Tick(fired)
      BY <2>3, TickOwner
    <2> QED
      BY <1>2, <1>3, <1>4, <1>5, <1>6, <2>1, <2>2, <2>3
         DEF Next, StuckTick
  <1> QED
    BY <1>1, <1>7 DEF OwnerInv, OwnerPart

LEMMA OwnerInvHolds ==
    ASSUME "Timeout" \notin Faults
    PROVE  SafetySpec => []OwnerInv
  <1>1. OwnerInv /\ [Next]_vars => OwnerInv'
    BY OwnerNext
  <1> QED
    BY <1>1, OwnerInit, PTL DEF SafetySpec

(* A channel is never collected by two connections at once                 *)
(* (CaConn::channels of two connections), in whatever order connections    *)
(* end, are created again, lose reports, and channels are reconfigured,    *)
(* removed and searched, as long as no timer of the set runs out early.    *)
THEOREM OneHolderOnly ==
    ASSUME "Timeout" \notin Faults
    PROVE  SafetySpec => []OneHolder
  <1>1. ASSUME OwnerInv PROVE OneHolder
    <2> SUFFICES ASSUME NEW c \in Chans, NEW a \in Addrs, NEW b \in Addrs,
                        held[a][c] # NoCfg, held[b][c] # NoCfg
                 PROVE  a = b
      BY DEF OneHolder
    <2>1. \A x \in Addrs : held[x][c] # NoCfg => conn[x] = "up"
      BY <1>1 DEF OwnerInv, ConnOK, NothingHeld
    <2>2. Active(a, c) /\ Active(b, c)
      BY <2>1 DEF Active
    <2> QED
      BY <1>1, <2>2 DEF OwnerInv, ChanOK, OneActive
  <1> QED
    BY <1>1, OwnerInvHolds, PTL

(* The connection that a channel is assigned to, once it has taken its     *)
(* commands, runs it with the current configuration of the set, under the  *)
(* same condition.                                                         *)
THEOREM RunsAsAssigned ==
    ASSUME "Timeout" \notin Faults
    PROVE  SafetySpec => []HeldAsConfigured
  <1>1. ASSUME OwnerInv PROVE HeldAsConfigured
    <2> SUFFICES ASSUME NEW c \in Chans, NEW a \in Addrs,
                        At(c, a), conn[a] = "up", cmds[a] = <<>>
                 PROVE  held[a][c] = config[c]
      BY DEF HeldAsConfigured
    <2>1. \A K : Keep(<<>>, K) = <<>>
      BY KeepSmall
    <2>2. CmdsAbout(a, c) = <<>>
      BY <2>1 DEF CmdsAbout
    <2>3. <<>> # <<ChannelAdd(c, config[c])>>
      OBVIOUS
    <2> QED
      BY <1>1, <2>2, <2>3 DEF OwnerInv, ChanOK, RunsAsConfigured
  <1> QED
    BY <1>1, OwnerInvHolds, PTL
=============================================================================
