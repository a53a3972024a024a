-------------------------- MODULE CaConnSet_proofs --------------------------
(***************************************************************************)
(* No handler of the connection set fails, for any number of channels,     *)
(* addresses, commands and faults: a channel that is assigned to an        *)
(* address finds a connection there, and whatever a connection collects is *)
(* known by its status series.                                             *)
(***************************************************************************)
EXTENDS CaConnSet, ProofLemmas

(* What may be in the queues: an add is about a channel whose status       *)
(* series is known; ChannelRemoved names a channel; a connection ends      *)
(* "OnCommand" only after the shutdown of the set.                         *)
GoodCommands ==
    {m \in Commands : m.k = "ChannelAdd" => m.ch \in channel_by_cssid}
GoodEvents ==
    {e \in Events :
       /\ e.k = "ChannelRemoved" => e.name \in Chans
       /\ e.k = "EndOfStream" /\ e.name = "OnCommand" => shutdown_stopping}

(* The address of a state that has one.                                    *)
AddrsOK ==
    \A c \in Chans :
        /\ Is(c, "WithAddress") => \E a \in Addrs : At(c, a)
        /\ Is(c, "UnassigningForConfigChange") => channel_states[c].addr \in Addrs

(* A status series is known from the moment a channel leaves               *)
(* WaitForStatusSeriesId, and stays known.                                 *)
SeriesKnown ==
    /\ WithStatusSeriesId \subseteq channel_by_cssid
    /\ \A a \in Addrs, c \in Chans :
           held[a][c] # NoCfg => c \in channel_by_cssid

QueuesOK ==
    /\ cmds \in [Addrs -> Seq(GoodCommands)]
    /\ evs \in [Addrs -> Seq(GoodEvents)]
    /\ conn_shutdown # {} => shutdown_stopping

IInv ==
    /\ StateTypeOK
    /\ AddrsOK /\ SeriesKnown /\ QueuesOK
    /\ AssignedHasConn /\ NoHandlerError
-----------------------------------------------------------------------------
(* A finite set can be listed.                                             *)
LEMMA InOrderType ==
    ASSUME NEW S, IsFiniteSet(S)
    PROVE  /\ Cardinality(S) \in Nat
           /\ InOrder(S) \in [1..Cardinality(S) -> S]
           /\ Range(InOrder(S)) = S
  <1>1. Cardinality(S) \in Nat /\ ExistsBijection(1..Cardinality(S), S)
    BY FS_CardinalityType
  <1>2. PICK f : f \in Bijection(1..Cardinality(S), S)
    BY <1>1 DEF ExistsBijection
  <1>3. f \in [1..Cardinality(S) -> S] /\ Range(f) = S
    BY <1>2 DEF Bijection, Surjection, Injection, Range
  <1> QED
    BY <1>1, <1>3 DEF InOrder

(* Closing channels puts close commands into a queue, and reporting them   *)
(* removed puts events there that name them.                               *)
LEMMA CloseAllType ==
    ASSUME NEW S \in SUBSET Chans
    PROVE  CloseAll(S) \in Seq(GoodCommands)
  <1>1. IsFiniteSet(S)
    BY FS_Subset, ConnSetAssumption
  <1>2. Cardinality(S) \in Nat /\ InOrder(S) \in [1..Cardinality(S) -> S]
    BY <1>1, InOrderType
  <1>3. \A i \in 1..Cardinality(S) : ChannelClose(InOrder(S)[i]) \in GoodCommands
    BY <1>2 DEF ChannelClose, ConnCommand, GoodCommands, Commands
  <1> QED
    BY <1>2, <1>3, IsASeq DEF CloseAll

(* Reporting channels as removed gives events that name them.              *)
LEMMA RemovedAllType ==
    ASSUME NEW S \in SUBSET Chans
    PROVE  RemovedAll(S) \in Seq(GoodEvents)
  <1>1. IsFiniteSet(S)
    BY FS_Subset, ConnSetAssumption
  <1>2. Cardinality(S) \in Nat /\ InOrder(S) \in [1..Cardinality(S) -> S]
    BY <1>1, InOrderType
  <1>3. \A i \in 1..Cardinality(S) : ChannelRemoved(InOrder(S)[i]) \in GoodEvents
    BY <1>2 DEF ChannelRemoved, ConnEvent, GoodEvents, Events
  <1> QED
    BY <1>2, <1>3, IsASeq DEF RemovedAll

(* Queues stay good while series become known and the set shuts down.      *)
LEMMA GoodMonotone ==
    /\ channel_by_cssid \subseteq channel_by_cssid'
         => Seq(GoodCommands) \subseteq Seq(GoodCommands')
    /\ (shutdown_stopping => shutdown_stopping')
         => Seq(GoodEvents) \subseteq Seq(GoodEvents')
    /\ Seq(GoodCommands) \subseteq Seq(Commands)
    /\ Seq(GoodEvents) \subseteq Seq(Events)
  <1>1. channel_by_cssid \subseteq channel_by_cssid'
          => GoodCommands \subseteq GoodCommands'
    BY Zenon DEF GoodCommands, Commands
  <1>2. (shutdown_stopping => shutdown_stopping')
          => GoodEvents \subseteq GoodEvents'
    BY Zenon DEF GoodEvents, Events
  <1>3. GoodCommands \subseteq Commands /\ GoodEvents \subseteq Events
    BY DEF GoodCommands, GoodEvents
  <1> HIDE DEF GoodCommands, GoodEvents, Commands, Events
  <1> QED
    BY <1>1, <1>2, <1>3, SeqMonotonic, Zenon

(* An assigned channel has one address, and finds its connection there.    *)
LEMMA AtFacts ==
    ASSUME NEW c, NEW a, At(c, a)
    PROVE  channel_states[c].v = "WithAddress" /\ channel_states[c].addr = a
  <1>1. WithAddress(a).v = "WithAddress" /\ WithAddress(a).addr = a
    BY DEF WithAddress, ChannelState
  <1> QED
    BY <1>1 DEF At

(* What holds of an assigned channel.                                      *)
LEMMA AssignedFacts ==
    ASSUME IInv, NEW c \in Chans, Is(c, "WithAddress")
    PROVE  /\ channel_states[c].addr \in Addrs
           /\ At(c, channel_states[c].addr)
           /\ c \in channel_by_cssid
           /\ ~shutdown_stopping => conn[channel_states[c].addr] # "none"
  <1>1. PICK a \in Addrs : At(c, a)
    BY DEF IInv, AddrsOK
  <1>2. channel_states[c].addr = a
    BY <1>1, AtFacts
  <1>3. c \in channel_by_cssid
    BY DEF IInv, SeriesKnown, WithStatusSeriesId, Is, Inner
  <1>4. ~shutdown_stopping => conn[a] # "none"
    BY <1>1 DEF IInv, AssignedHasConn
  <1> QED
    BY <1>1, <1>2, <1>3, <1>4

(* Steps that change neither channels nor connections.                     *)
LEMMA QuietStep ==
    ASSUME IInv,
           UNCHANGED <<channel_states, config, channel_by_cssid, connVars,
                       conn_shutdown, shutdown_stopping, err>>
    PROVE  IInv'
  BY DEF IInv, StateTypeOK, AddrsOK, SeriesKnown, QueuesOK, AssignedHasConn,
         NoHandlerError, Is, At, WithStatusSeriesId, connVars, GoodCommands,
         GoodEvents, Commands, Events

(* handle_add_channel_with_addr: a channel with a known series is assigned *)
(* and the connection is there.                                            *)
LEMMA AddWithAddrInv ==
    ASSUME IInv, NEW c \in WithStatusSeriesId, NEW a \in Addrs,
           NEW cfg \in Configs \union {NoCfg},
           AddWithAddr(c, a, cfg),
           config' \in [Chans -> Configs \union {NoCfg}],
           evs' \in [Addrs -> Seq(GoodEvents)],
           UNCHANGED <<channel_by_cssid, held, conn_shutdown, shutdown_stopping,
                       err>>
    PROVE  IInv'
  <1> USE DEF IInv
  <1>0. c \in Chans /\ c \in channel_by_cssid
    BY DEF WithStatusSeriesId, SeriesKnown
  <1>1. GoodCommands' = GoodCommands /\ GoodEvents' = GoodEvents
    BY DEF GoodCommands, GoodEvents, Commands, Events
  <1>2. ChannelAdd(c, cfg) \in GoodCommands
    BY <1>0 DEF ChannelAdd, ConnCommand, GoodCommands, Commands
  <1>3. QueuesOK'
    BY <1>1, <1>2, AppendProperties DEF QueuesOK, AddWithAddr, Push
  <1>4. channel_states' = [channel_states EXCEPT ![c] = WithAddress(a)]
    BY DEF AddWithAddr, SetState
  <1>5. WithAddress(a) \in [v : States, addr : Addrs \union {NoAddr},
                            config_new : Configs \union {NoCfg}]
    BY DEF WithAddress, ChannelState, States, Inner
  <1>6. StateTypeOK'
    <2>1. cmds' \in [Addrs -> Seq(Commands)] /\ evs' \in [Addrs -> Seq(Events)]
      BY <1>1, <1>3, GoodMonotone DEF QueuesOK
    <2>2. conn' \in [Addrs -> {"none", "up", "ended"}]
      BY DEF StateTypeOK, AddWithAddr
    <2> QED
      BY <1>4, <1>5, <2>1, <2>2 DEF StateTypeOK, Commands, Events
  <1>7. AddrsOK'
    BY <1>4, <1>0 DEF AddrsOK, StateTypeOK, Is, At, WithAddress, ChannelState
  <1>8. SeriesKnown'
    BY <1>4, <1>0 DEF SeriesKnown, StateTypeOK, WithStatusSeriesId
  <1>9. AssignedHasConn'
    BY <1>4, <1>0 DEF AssignedHasConn, AddWithAddr, StateTypeOK, At, WithAddress,
       ChannelState
  <1> QED
    BY <1>3, <1>6, <1>7, <1>8, <1>9 DEF NoHandlerError

ChannelStates ==
    [v : States, addr : Addrs \union {NoAddr},
     config_new : Configs \union {NoCfg}]

(* Steps that move channels to states other than WithAddress.              *)
LEMMA ChannelStep ==
    ASSUME IInv,
           channel_states' \in [Chans -> ChannelStates],
           config' \in [Chans -> Configs \union {NoCfg}],
           channel_by_cssid' \subseteq Chans,
           channel_by_cssid \subseteq channel_by_cssid',
           \A c \in Chans :
             \/ channel_states'[c] = channel_states[c]
             \/ /\ channel_states'[c].v # "WithAddress"
                /\ channel_states'[c].v = "UnassigningForConfigChange" =>
                      channel_states'[c].addr \in Addrs
                /\ channel_states'[c].v \in Inner => c \in channel_by_cssid',
           cmds' \in [Addrs -> Seq(GoodCommands)],
           evs' \in [Addrs -> Seq(GoodEvents)],
           UNCHANGED <<conn, held, conn_shutdown, shutdown_stopping, err>>
    PROVE  IInv'
  <1> USE DEF IInv
  <1>1. QueuesOK'
    BY GoodMonotone DEF QueuesOK
  <1>2. cmds' \in [Addrs -> Seq(Commands)] /\ evs' \in [Addrs -> Seq(Events)]
    BY GoodMonotone
  <1>3. StateTypeOK'
    BY <1>2 DEF StateTypeOK, ChannelStates, Commands, Events
  <1>4. AddrsOK'
    BY DEF AddrsOK, Is, At
  <1>5. SeriesKnown'
    BY DEF SeriesKnown, WithStatusSeriesId
  <1>6. AssignedHasConn'
    <2>1. ASSUME NEW c \in Chans, NEW a \in Addrs, At(c, a)'
          PROVE  At(c, a)
      <3>1. WithAddress(a).v = "WithAddress"
        BY DEF WithAddress, ChannelState
      <3> QED
        BY <2>1, <3>1 DEF At
    <2> QED
      BY <2>1 DEF AssignedHasConn
  <1> QED
    BY <1>1, <1>3, <1>4, <1>5, <1>6 DEF NoHandlerError

(* Steps of a connection task.                                             *)
LEMMA ConnStep ==
    ASSUME IInv,
           conn' \in [Addrs -> {"none", "up", "ended"}],
           \A a \in Addrs : conn[a] # "none" => conn'[a] # "none",
           held' \in [Addrs -> [Chans -> Configs \union {NoCfg}]],
           \A a \in Addrs, c \in Chans :
               held'[a][c] # NoCfg => c \in channel_by_cssid,
           cmds' \in [Addrs -> Seq(GoodCommands)],
           evs' \in [Addrs -> Seq(GoodEvents)],
           UNCHANGED <<channel_states, config, channel_by_cssid, conn_shutdown,
                       shutdown_stopping, err>>
    PROVE  IInv'
  <1> USE DEF IInv
  <1>1. QueuesOK'
    BY GoodMonotone DEF QueuesOK
  <1>2. cmds' \in [Addrs -> Seq(Commands)] /\ evs' \in [Addrs -> Seq(Events)]
    BY GoodMonotone
  <1>3. StateTypeOK'
    BY <1>2 DEF StateTypeOK, Commands, Events
  <1>4. AddrsOK' /\ SeriesKnown' /\ AssignedHasConn'
    BY DEF AddrsOK, SeriesKnown, AssignedHasConn, Is, At, WithStatusSeriesId
  <1> QED
    BY <1>1, <1>3, <1>4 DEF NoHandlerError
-----------------------------------------------------------------------------
(* The commands of the daemon.                                             *)

(* handle_add_channel_new: a new channel waits for its status series.      *)
LEMMA AddNewInv ==
    ASSUME IInv, NEW c \in Chans, NEW cfg \in Configs, AddNew(c, cfg)
    PROVE  IInv'
  <1>1. Plain("WaitForStatusSeriesId") \in ChannelStates
    BY DEF Plain, ChannelState, ChannelStates, States, Inner
  <1>2. channel_states' =
          [channel_states EXCEPT ![c] = Plain("WaitForStatusSeriesId")]
    BY DEF AddNew, SetState
  <1>3. /\ Plain("WaitForStatusSeriesId").v = "WaitForStatusSeriesId"
        /\ "WaitForStatusSeriesId" \notin Inner
    BY DEF Plain, ChannelState, Inner
  <1>4. channel_states' \in [Chans -> ChannelStates]
    BY <1>1, <1>2 DEF IInv, StateTypeOK, ChannelStates
  <1>5. config' \in [Chans -> Configs \union {NoCfg}]
    BY DEF AddNew, IInv, StateTypeOK
  <1>6. \A d \in Chans :
          \/ channel_states'[d] = channel_states[d]
          \/ channel_states'[d].v = "WaitForStatusSeriesId"
    BY <1>2, <1>3 DEF IInv, StateTypeOK
  <1> QED
    BY <1>3, <1>4, <1>5, <1>6, ChannelStep
       DEF AddNew, IInv, StateTypeOK, QueuesOK, connVars, endVars

(* handle_add_channel_existing: the address of an assigned channel is kept *)
(* while it is closed there, and its connection is always found.           *)
LEMMA AddExistingInv ==
    ASSUME IInv, NEW c \in Chans, NEW cfg \in Configs, AddExisting(c, cfg)
    PROVE  IInv'
  <1> DEFINE st == channel_states[c]
  <1>0. ~shutdown_stopping
    BY DEF AddExisting, Command
  <1>1. CASE UNCHANGED <<channel_states, cmds, err>>
    <2>1. config' \in [Chans -> Configs \union {NoCfg}]
      BY DEF AddExisting, IInv, StateTypeOK
    <2> QED
      BY <1>1, <2>1, ChannelStep DEF AddExisting, IInv, StateTypeOK, QueuesOK,
         endVars, ChannelStates
  <1>2. CASE /\ Is(c, "WithAddress") /\ conn[st.addr] # "none"
             /\ SetState(c, Unassigning(st.addr, cfg))
             /\ cmds' = Push(cmds, st.addr, ChannelClose(c))
             /\ UNCHANGED <<config, err>>
    <2>1. st.addr \in Addrs
      BY <1>2, AssignedFacts
    <2>2. ChannelClose(c) \in GoodCommands
      BY DEF ChannelClose, ConnCommand, GoodCommands, Commands
    <2>3. cmds' \in [Addrs -> Seq(GoodCommands)]
      BY <1>2, <2>1, <2>2, AppendProperties DEF IInv, QueuesOK, Push
    <2>4. c \in channel_by_cssid
      BY <1>2 DEF IInv, SeriesKnown, WithStatusSeriesId, Is, Inner
    <2>5. /\ Unassigning(st.addr, cfg) \in ChannelStates
          /\ Unassigning(st.addr, cfg).v = "UnassigningForConfigChange"
          /\ Unassigning(st.addr, cfg).addr = st.addr
      BY <2>1 DEF Unassigning, ChannelState, ChannelStates, States, Inner
    <2>6. /\ channel_states' \in [Chans -> ChannelStates]
          /\ \A d \in Chans :
               \/ channel_states'[d] = channel_states[d]
               \/ /\ d \in channel_by_cssid
                  /\ channel_states'[d].v = "UnassigningForConfigChange"
                  /\ channel_states'[d].addr \in Addrs
      BY <1>2, <2>1, <2>4, <2>5 DEF SetState, IInv, StateTypeOK, ChannelStates
    <2> QED
      BY <1>2, <2>3, <2>6, ChannelStep
         DEF AddExisting, IInv, StateTypeOK, QueuesOK, endVars
  <1>3. CASE /\ Is(c, "UnassigningForConfigChange")
             /\ SetState(c, Unassigning(st.addr, cfg))
             /\ UNCHANGED <<config, cmds, err>>
    <2>1. st.addr \in Addrs
      BY <1>3 DEF IInv, AddrsOK
    <2>4. c \in channel_by_cssid
      BY <1>3 DEF IInv, SeriesKnown, WithStatusSeriesId, Is, Inner
    <2>5. /\ Unassigning(st.addr, cfg) \in ChannelStates
          /\ Unassigning(st.addr, cfg).v = "UnassigningForConfigChange"
          /\ Unassigning(st.addr, cfg).addr = st.addr
      BY <2>1 DEF Unassigning, ChannelState, ChannelStates, States, Inner
    <2>6. /\ channel_states' \in [Chans -> ChannelStates]
          /\ \A d \in Chans :
               \/ channel_states'[d] = channel_states[d]
               \/ /\ d \in channel_by_cssid
                  /\ channel_states'[d].v = "UnassigningForConfigChange"
                  /\ channel_states'[d].addr \in Addrs
      BY <1>3, <2>1, <2>4, <2>5 DEF SetState, IInv, StateTypeOK, ChannelStates
    <2> QED
      BY <1>3, <2>6, ChannelStep
         DEF AddExisting, IInv, StateTypeOK, QueuesOK, endVars
  <1>4. ~(Is(c, "WithAddress") /\ conn[st.addr] = "none")
    BY <1>0, AssignedFacts
  <1> QED
    BY <1>1, <1>2, <1>3, <1>4 DEF AddExisting

(* What a step of check_channel_states or handle_remove_channel puts into  *)
(* a command queue.                                                        *)
LEMMA CmdsAfterClose ==
    ASSUME IInv, NEW a \in Addrs, NEW S \in SUBSET Chans
    PROVE  cmds[a] \o CloseAll(S) \in Seq(GoodCommands)
  <1>1. cmds[a] \in Seq(GoodCommands)
    BY DEF IInv, QueuesOK
  <1> QED
    BY <1>1, CloseAllType, ConcatProperties

(* The state of a channel that is to be removed.                           *)
LEMMA ToRemoveType ==
    ASSUME NEW a \in Addrs \union {NoAddr}
    PROVE  ToRemove(a) \in ChannelStates /\ ToRemove(a).v = "ToRemove"
  BY DEF ToRemove, ChannelState, ChannelStates, States

(* A state without address.                                                *)
LEMMA PlainType ==
    ASSUME NEW v \in States
    PROVE  Plain(v) \in ChannelStates /\ Plain(v).v = v
  BY DEF Plain, ChannelState, ChannelStates

(* Only channels that are there are removed.                               *)
LEMMA RemovableType ==
    ASSUME NEW S \in SUBSET Chans
    PROVE  Removable(S) \subseteq Chans
  <1> DEFINE rem == Removable(S)
             T == {c \in S : channel_states[c].v \notin {"Absent", "ToRemove"}}
  <1>1. IsFiniteSet(T)
    BY FS_Subset, ConnSetAssumption
  <1>2. Cardinality(T) \in Nat /\ InOrder(T) \in [1..Cardinality(T) -> T]
    BY <1>1, InOrderType
  <1>3. Len(InOrder(T)) = Cardinality(T)
    BY <1>2, LenProperties, IsASeq
  <1>4. rem = {InOrder(T)[i] : i \in {n \in 1..Len(InOrder(T)) :
                 \A m \in 1..n : ~RemoveFails(InOrder(T)[m])}}
    BY DEF Removable
  <1> HIDE DEF rem
  <1>5. rem \subseteq Chans
    BY <1>2, <1>3, <1>4
  <1> QED
    BY <1>5 DEF rem

(* handle_remove_channel never fails before the shutdown: the connection   *)
(* of every assigned channel is there.                                     *)
LEMMA HandleRemoveInv ==
    ASSUME IInv, NEW S \in SUBSET Chans, ~shutdown_stopping, HandleRemove(S)
    PROVE  IInv'
  <1> DEFINE rem == Removable(S)
  <1>1. \A c \in S : ~RemoveFails(c)
    BY AssignedFacts DEF RemoveFails
  <1>2. err' = err
    BY <1>1 DEF HandleRemove
  <1>3. cmds' \in [Addrs -> Seq(GoodCommands)]
    <2>1. \A a \in Addrs : {c \in rem : At(c, a)} \subseteq Chans
      <3>1. rem \subseteq Chans
        BY RemovableType
      <3> QED
        BY <3>1
    <2> HIDE DEF rem
    <2>2. cmds' = [a \in Addrs |-> cmds[a] \o CloseAll({c \in rem : At(c, a)})]
      BY DEF HandleRemove, rem
    <2> QED
      BY <2>1, <2>2, CmdsAfterClose
  <1>4. ASSUME NEW c \in Chans
        PROVE  \/ channel_states'[c] = channel_states[c]
               \/ \E a \in Addrs \union {NoAddr} :
                     channel_states'[c] = ToRemove(a)
    BY DEF HandleRemove, IInv, StateTypeOK
  <1>5. /\ channel_states' \in [Chans -> ChannelStates]
        /\ \A c \in Chans : \/ channel_states'[c] = channel_states[c]
                            \/ channel_states'[c].v = "ToRemove"
    <2>1. \A c \in Chans : channel_states[c] \in ChannelStates
      BY DEF IInv, StateTypeOK, ChannelStates
    <2>2. \A c \in Chans : channel_states'[c] \in ChannelStates
      BY <1>4, <2>1, ToRemoveType
    <2>3. channel_states' = [c \in Chans |-> channel_states'[c]]
      BY DEF HandleRemove
    <2> QED
      BY <1>4, <2>2, <2>3, ToRemoveType
  <1>6. "ToRemove" \notin Inner
    BY DEF Inner
  <1> QED
    BY <1>2, <1>3, <1>5, <1>6, ChannelStep
       DEF HandleRemove, IInv, StateTypeOK, QueuesOK, endVars

(* The shutdown of the set.                                                *)
LEMMA ShutdownInv ==
    ASSUME IInv, Shutdown
    PROVE  IInv'
  <1>1. shutdown_stopping'
    BY DEF Shutdown
  <1>2. QueuesOK'
    BY <1>1, GoodMonotone DEF Shutdown, IInv, QueuesOK, chanVars, connVars
  <1>3. StateTypeOK' /\ AddrsOK' /\ SeriesKnown' /\ NoHandlerError'
    BY DEF Shutdown, IInv, StateTypeOK, AddrsOK, SeriesKnown, NoHandlerError, Is,
           At, WithStatusSeriesId, Commands, Events, chanVars, connVars, ghostVars
  <1>4. AssignedHasConn'
    BY <1>1 DEF AssignedHasConn
  <1> QED
    BY <1>2, <1>3, <1>4 DEF IInv
-----------------------------------------------------------------------------
(* Answers of the lookup and the finder.                                   *)

(* One channel moves to a state without address.                           *)
LEMMA MoveChannel ==
    ASSUME IInv, NEW c \in Chans, NEW v \in States,
           channel_states' = [channel_states EXCEPT ![c] = Plain(v)]
    PROVE  /\ channel_states' \in [Chans -> ChannelStates]
           /\ \A d \in Chans :
                \/ channel_states'[d] = channel_states[d]
                \/ d = c /\ channel_states'[d].v = v
  BY PlainType DEF IInv, StateTypeOK, ChannelStates

(* handle_series_lookup_result: the series is entered before the channel   *)
(* leaves WaitForStatusSeriesId.                                           *)
LEMMA LookupResultInv ==
    ASSUME IInv, NEW c \in Chans, LookupResult(c)
    PROVE  IInv'
  <1>1. /\ channel_by_cssid' \subseteq Chans
        /\ channel_by_cssid \subseteq channel_by_cssid'
    BY DEF LookupResult, IInv, StateTypeOK
  <1>2. CASE UNCHANGED channel_states
    BY <1>1, <1>2, ChannelStep DEF LookupResult, IInv, StateTypeOK, QueuesOK,
       connVars, endVars, ghostVars, ChannelStates
  <1>3. CASE /\ SetState(c, Plain("AddrSearchPending"))
             /\ c \in channel_by_cssid'
    <2>1. "AddrSearchPending" \in States
      BY DEF States, Inner
    <2>2. /\ channel_states' \in [Chans -> ChannelStates]
          /\ \A d \in Chans :
                \/ channel_states'[d] = channel_states[d]
                \/ d = c /\ channel_states'[d].v = "AddrSearchPending"
      BY <1>3, <2>1, MoveChannel DEF SetState
    <2> QED
      BY <1>1, <1>3, <2>2, ChannelStep DEF LookupResult, IInv, StateTypeOK,
         QueuesOK, connVars, endVars, ghostVars
  <1> QED
    BY <1>2, <1>3 DEF LookupResult

(* handle_ioc_query_result with an address: only a channel with a known    *)
(* series is assigned.                                                     *)
LEMMA IocFoundInv ==
    ASSUME IInv, NEW a \in Addrs, IocFound(a)
    PROVE  IInv'
  <1> DEFINE c == Head(searches)
  <1>1. CASE UNCHANGED <<channel_states, conn, cmds>>
    BY <1>1, QuietStep DEF IocFound, ResultAtFront, connVars, endVars, ghostVars
  <1>2. CASE c \in WithStatusSeriesId /\ AddWithAddr(c, a, config[c])
    <2>1. config[c] \in Configs \union {NoCfg}
      BY <1>2 DEF IInv, StateTypeOK, WithStatusSeriesId
    <2>2. /\ config' = config /\ evs' = evs
          /\ UNCHANGED <<channel_by_cssid, held, conn_shutdown,
                         shutdown_stopping, err>>
      BY DEF IocFound, ResultAtFront, endVars, ghostVars
    <2> HIDE DEF c
    <2> QED
      BY <1>2, <2>1, <2>2, AddWithAddrInv DEF IInv, StateTypeOK, QueuesOK
  <1> QED
    BY <1>1, <1>2 DEF IocFound

(* handle_ioc_query_result without an address.                             *)
LEMMA IocNotFoundInv ==
    ASSUME IInv, IocNotFound
    PROVE  IInv'
  <1> DEFINE c == Head(searches)
  <1>1. CASE UNCHANGED channel_states
    BY <1>1, QuietStep DEF IocNotFound, ResultAtFront, connVars, endVars,
       ghostVars
  <1>2. CASE c \in WithStatusSeriesId /\ SetState(c, Plain("UnknownAddress"))
    <2>1. "UnknownAddress" \in States
      BY DEF States, Inner
    <2>2. c \in Chans /\ c \in channel_by_cssid
      BY <1>2 DEF IInv, SeriesKnown, WithStatusSeriesId
    <2> HIDE DEF c
    <2>3. /\ channel_states' \in [Chans -> ChannelStates]
          /\ \A d \in Chans :
                \/ channel_states'[d] = channel_states[d]
                \/ d = c /\ channel_states'[d].v = "UnknownAddress"
      BY <1>2, <2>1, <2>2, MoveChannel DEF SetState
    <2> QED
      BY <2>2, <2>3, ChannelStep DEF IocNotFound, ResultAtFront, IInv,
         StateTypeOK, QueuesOK, endVars, ghostVars
  <1> QED
    BY <1>1, <1>2 DEF IocNotFound
-----------------------------------------------------------------------------
(* The ticker.  A timer leads from a state with a status series to one     *)
(* with it, or from WaitForStatusSeriesId to Init, never to WithAddress.   *)
LEMMA TimerFacts ==
    ASSUME NEW c \in Chans, HasTimer(c)
    PROVE  /\ TimerState(c) \in ChannelStates
           /\ TimerState(c).v \notin {"WithAddress",
                                      "UnassigningForConfigChange"}
           /\ TimerState(c).v \in Inner => c \in WithStatusSeriesId
  <1> DEFINE w == CASE Is(c, "WaitForStatusSeriesId") -> "Init"
                    [] Is(c, "UnknownAddress") -> "AddrSearchPlanned"
                    [] Is(c, "AddrSearchPending") -> "NoAddress"
                    [] Is(c, "WithAddress") -> "MaybeWrongAddress"
                    [] Is(c, "NoAddress") -> "UnknownAddress"
                    [] Is(c, "MaybeWrongAddress") -> "AddrSearchPlanned"
  <1>1. /\ w \in States \ {"WithAddress", "UnassigningForConfigChange"}
        /\ w \in Inner => c \in WithStatusSeriesId
    BY DEF HasTimer, Adverse, Is, States, Inner, WithStatusSeriesId
  <1>2. TimerState(c) = Plain(w)
    BY DEF TimerState, Is
  <1> HIDE DEF w
  <1> QED
    BY <1>1, <1>2, PlainType

(* check_channel_states: the timers and the search loop.                   *)
LEMMA TickInv ==
    ASSUME IInv, NEW fired \in SUBSET Chans, Tick(fired)
    PROVE  IInv'
  <1> DEFINE sts1 == [c \in Chans |-> IF c \in fired THEN TimerState(c)
                                     ELSE channel_states[c]]
             sick == {c \in fired : Is(c, "WithAddress")}
  <1>1. \A c \in fired : HasTimer(c)
    BY DEF Tick
  <1>2. PICK issue :
          /\ \A c \in issue : sts1[c].v \in Inner
          /\ channel_states' = [c \in Chans |->
                IF c \in sick THEN ToRemove(NoAddr)
                ELSE IF c \in issue THEN Plain("AddrSearchPending")
                ELSE sts1[c]]
    BY Zenon DEF Tick
  <1>3. cmds' \in [Addrs -> Seq(GoodCommands)]
    <2>1. cmds' = [a \in Addrs |->
            IF conn[a] = "none" THEN cmds[a]
            ELSE cmds[a] \o CloseAll({c \in sick : At(c, a)})]
      BY DEF Tick
    <2>2. \A a \in Addrs : {c \in sick : At(c, a)} \in SUBSET Chans
      OBVIOUS
    <2> HIDE DEF sick
    <2> QED
      BY <2>1, <2>2, CmdsAfterClose DEF IInv, QueuesOK
  <1>4. ASSUME NEW c \in Chans
        PROVE  /\ channel_states'[c] \in ChannelStates
               /\ \/ channel_states'[c] = channel_states[c]
                  \/ /\ channel_states'[c].v \notin
                           {"WithAddress", "UnassigningForConfigChange"}
                     /\ channel_states'[c].v \in Inner => c \in channel_by_cssid
    <2>1. channel_states[c] \in ChannelStates
      BY DEF IInv, StateTypeOK, ChannelStates
    <2>2. c \in WithStatusSeriesId => c \in channel_by_cssid
      BY DEF IInv, SeriesKnown
    <2>3. CASE c \in sick
      <3>1. channel_states'[c] = ToRemove(NoAddr)
        BY <1>2, <2>3
      <3>2. "ToRemove" \notin Inner
        BY DEF Inner
      <3> QED
        BY <3>1, <3>2, ToRemoveType
    <2>4. CASE c \notin sick /\ c \in issue
      <3>1. channel_states'[c] = Plain("AddrSearchPending")
        BY <1>2, <2>4
      <3>2. "AddrSearchPending" \in States
        BY DEF States, Inner
      <3>3. c \in WithStatusSeriesId
        <4>1. sts1[c].v \in Inner
          BY <1>2, <2>4
        <4>2. CASE c \in fired
          <5>1. sts1[c] = TimerState(c)
            BY <4>2
          <5> QED
            BY <1>1, <4>1, <4>2, <5>1, TimerFacts
        <4>3. CASE c \notin fired
          BY <4>1, <4>3 DEF WithStatusSeriesId
        <4> QED
          BY <4>2, <4>3
      <3> QED
        BY <3>1, <3>2, <3>3, <2>2, PlainType
    <2>5. CASE c \notin sick /\ c \notin issue /\ c \in fired
      <3>1. channel_states'[c] = TimerState(c)
        BY <1>2, <2>5
      <3> QED
        BY <1>1, <2>2, <2>5, <3>1, TimerFacts
    <2>6. CASE c \notin sick /\ c \notin issue /\ c \notin fired
      BY <1>2, <2>1, <2>6
    <2> QED
      BY <2>3, <2>4, <2>5, <2>6
  <1>5. channel_states' \in [Chans -> ChannelStates]
    <2>1. channel_states' = [c \in Chans |-> channel_states'[c]]
      BY <1>2
    <2> QED
      BY <1>4, <2>1
  <1> QED
    BY <1>3, <1>4, <1>5, ChannelStep
       DEF Tick, IInv, StateTypeOK, QueuesOK, endVars
-----------------------------------------------------------------------------
(* The steps of a connection task.                                         *)

(* handle_conn_command: an added channel is one whose series is known.     *)
LEMMA ConnTakesCommandInv ==
    ASSUME IInv, NEW a \in Addrs, ConnTakesCommand(a)
    PROVE  IInv'
  <1> DEFINE cmd == Head(cmds[a])
  <1>1. cmds[a] \in Seq(GoodCommands) /\ cmds[a] # <<>>
    BY DEF ConnTakesCommand, IInv, QueuesOK
  <1>2. cmd \in GoodCommands /\ Tail(cmds[a]) \in Seq(GoodCommands)
    BY <1>1, HeadTailProperties
  <1>3. /\ cmd.ch \in Chans /\ cmd.cfg \in Configs \union {NoCfg}
        /\ cmd.k = "ChannelAdd" => cmd.ch \in channel_by_cssid
    BY <1>2 DEF GoodCommands, Commands
  <1>4. ChannelRemoved(cmd.ch) \in GoodEvents
    BY <1>3 DEF ChannelRemoved, ConnEvent, GoodEvents, Events
  <1>5. cmds' \in [Addrs -> Seq(GoodCommands)]
    BY <1>2 DEF ConnTakesCommand, IInv, QueuesOK
  <1>6. evs' \in [Addrs -> Seq(GoodEvents)]
    <2>1. evs' = evs \/ evs' = Push(evs, a, ChannelRemoved(cmd.ch))
      BY DEF ConnTakesCommand
    <2> HIDE DEF cmd
    <2>2. evs \in [Addrs -> Seq(GoodEvents)]
      BY DEF IInv, QueuesOK
    <2>3. Append(evs[a], ChannelRemoved(cmd.ch)) \in Seq(GoodEvents)
      BY <1>4, <2>2, AppendProperties
    <2> QED
      BY <2>1, <2>2, <2>3 DEF Push
  <1>7. /\ held' \in [Addrs -> [Chans -> Configs \union {NoCfg}]]
        /\ \A b \in Addrs, c \in Chans :
              held'[b][c] # NoCfg => c \in channel_by_cssid
    <2>1. \/ held' = held
          \/ /\ cmd.k = "ChannelAdd"
             /\ held' = [held EXCEPT ![a][cmd.ch] = cmd.cfg]
          \/ held' = [held EXCEPT ![a][cmd.ch] = NoCfg]
      BY DEF ConnTakesCommand
    <2> HIDE DEF cmd
    <2>2. PICK x \in Configs \union {NoCfg} :
            /\ \/ held' = held
               \/ held' = [held EXCEPT ![a] = [held[a] EXCEPT ![cmd.ch] = x]]
            /\ x # NoCfg => cmd.ch \in channel_by_cssid
      BY <1>3, <2>1
    <2>3. /\ held \in [Addrs -> [Chans -> Configs \union {NoCfg}]]
          /\ \A b \in Addrs, c \in Chans :
                held[b][c] # NoCfg => c \in channel_by_cssid
      BY DEF IInv, StateTypeOK, SeriesKnown
    <2>4. [held[a] EXCEPT ![cmd.ch] = x] \in [Chans -> Configs \union {NoCfg}]
      BY <2>3
    <2>5. held' \in [Addrs -> [Chans -> Configs \union {NoCfg}]]
      BY <2>2, <2>3, <2>4
    <2>6. ASSUME NEW b \in Addrs, NEW c \in Chans, held'[b][c] # NoCfg
          PROVE  c \in channel_by_cssid
      BY <1>3, <2>2, <2>3, <2>6
    <2> QED
      BY <2>5, <2>6
  <1> QED
    BY <1>5, <1>6, <1>7, ConnStep
       DEF ConnTakesCommand, IInv, StateTypeOK, chanVars, endVars, ghostVars

(* A connection that ends orderly; the reason tells whether the set is     *)
(* shutting down.                                                          *)
LEMMA TriggerShutdownInv ==
    ASSUME IInv, NEW a \in Addrs, NEW reason \in {"OnCommand", "Failed"},
           reason = "OnCommand" => shutdown_stopping,
           TriggerShutdown(a, reason)
    PROVE  IInv'
  <1> DEFINE S == {c \in Chans : held[a][c] # NoCfg}
  <1>1. EndOfStream(reason) \in GoodEvents
    BY DEF EndOfStream, ConnEvent, GoodEvents, Events
  <1>2. evs[a] \in Seq(GoodEvents) /\ RemovedAll(S) \in Seq(GoodEvents)
    BY RemovedAllType DEF IInv, QueuesOK
  <1>3. Append(evs[a] \o RemovedAll(S), EndOfStream(reason)) \in Seq(GoodEvents)
    BY <1>1, <1>2, ConcatProperties, AppendProperties
  <1>4. evs' \in [Addrs -> Seq(GoodEvents)]
    BY <1>3 DEF TriggerShutdown, IInv, QueuesOK
  <1>5. /\ held' \in [Addrs -> [Chans -> Configs \union {NoCfg}]]
        /\ \A b \in Addrs, c \in Chans :
              held'[b][c] # NoCfg => c \in channel_by_cssid
    BY DEF TriggerShutdown, NothingHeld, IInv, StateTypeOK, SeriesKnown
  <1>6. /\ conn' \in [Addrs -> {"none", "up", "ended"}]
        /\ \A b \in Addrs : conn[b] # "none" => conn'[b] # "none"
    BY DEF TriggerShutdown, IInv, StateTypeOK
  <1> QED
    BY <1>4, <1>5, <1>6, ConnStep
       DEF TriggerShutdown, IInv, QueuesOK, chanVars

(* A connection that ends with an error, its last events lost.             *)
LEMMA ConnErrorInv ==
    ASSUME IInv, NEW a \in Addrs, ConnError(a)
    PROVE  IInv'
  <1>1. PICK n \in 0..Len(evs[a]) :
          evs' = [evs EXCEPT ![a] =
                    Append(SubSeq(@, 1, n), EndOfStream("Failed"))]
    BY DEF ConnError
  <1>2. EndOfStream("Failed") \in GoodEvents
    BY DEF EndOfStream, ConnEvent, GoodEvents, Events
  <1>3. evs[a] \in Seq(GoodEvents)
    BY DEF IInv, QueuesOK
  <1>4. SubSeq(evs[a], 1, n) \in Seq(GoodEvents)
    BY <1>3
  <1>5. evs' \in [Addrs -> Seq(GoodEvents)]
    BY <1>1, <1>2, <1>4, AppendProperties DEF IInv, QueuesOK
  <1>6. /\ held' \in [Addrs -> [Chans -> Configs \union {NoCfg}]]
        /\ \A b \in Addrs, c \in Chans :
              held'[b][c] # NoCfg => c \in channel_by_cssid
    BY DEF ConnError, NothingHeld, IInv, StateTypeOK, SeriesKnown
  <1>7. /\ conn' \in [Addrs -> {"none", "up", "ended"}]
        /\ \A b \in Addrs : conn[b] # "none" => conn'[b] # "none"
    BY DEF ConnError, IInv, StateTypeOK
  <1> QED
    BY <1>5, <1>6, <1>7, ConnStep
       DEF ConnError, IInv, QueuesOK, chanVars, endVars

(* A connection that fails while it shuts down.                            *)
LEMMA ConnReasonReplacedInv ==
    ASSUME IInv, NEW a \in Addrs, ConnReasonReplaced(a)
    PROVE  IInv'
  <1>1. EndOfStream("Failed") \in GoodEvents
    BY DEF EndOfStream, ConnEvent, GoodEvents, Events
  <1>2. evs[a] \in Seq(GoodEvents) /\ Len(evs[a]) - 1 \in 0..Len(evs[a])
    BY DEF ConnReasonReplaced, IInv, QueuesOK
  <1>3. SubSeq(evs[a], 1, Len(evs[a]) - 1) \in Seq(GoodEvents)
    BY <1>2
  <1>4. evs' \in [Addrs -> Seq(GoodEvents)]
    BY <1>1, <1>3, AppendProperties DEF ConnReasonReplaced, IInv, QueuesOK
  <1> QED
    BY <1>4, ConnStep
       DEF ConnReasonReplaced, IInv, QueuesOK, StateTypeOK, SeriesKnown,
           chanVars, endVars

(* The IOC refuses a channel.                                              *)
LEMMA ConnCreateFailInv ==
    ASSUME IInv, NEW a \in Addrs, NEW c \in Chans, ConnCreateFail(a, c)
    PROVE  IInv'
  <1>1. ChannelCreateFail(c) \in GoodEvents
    BY DEF ChannelCreateFail, ConnEvent, GoodEvents, Events
  <1>2. evs' \in [Addrs -> Seq(GoodEvents)]
    BY <1>1, AppendProperties DEF ConnCreateFail, Push, IInv, QueuesOK
  <1> QED
    BY <1>2, ConnStep DEF ConnCreateFail, IInv, StateTypeOK, SeriesKnown,
       QueuesOK, chanVars, endVars

(* A health update finds the series of all channels that it reports.       *)
LEMMA ConnStatusInv ==
    ASSUME IInv, NEW a \in Addrs, ConnStatus(a)
    PROVE  IInv'
  <1>1. err' = err
    BY DEF ConnStatus, IInv, SeriesKnown
  <1> QED
    BY <1>1, QuietStep DEF ConnStatus, chanVars, endVars
-----------------------------------------------------------------------------
(* The events of a connection.                                             *)

(* The event that is handled, and the ones behind it.                      *)
LEMMA NextEventFacts ==
    ASSUME IInv, NEW a \in Addrs, NEW k, NextEvent(a, k)
    PROVE  /\ Head(evs[a]) \in GoodEvents
           /\ Head(evs[a]).k = k
           /\ evs' \in [Addrs -> Seq(GoodEvents)]
  <1>1. evs \in [Addrs -> Seq(GoodEvents)] /\ evs[a] # <<>>
    BY DEF NextEvent, IInv, QueuesOK
  <1>2. Head(evs[a]) \in GoodEvents /\ Tail(evs[a]) \in Seq(GoodEvents)
    BY <1>1, HeadTailProperties
  <1> QED
    BY <1>1, <1>2 DEF NextEvent

(* handle_ca_conn_channel_removed: a channel that was closed for a change  *)
(* of its configuration goes back to its address, where a connection is    *)
(* made if there is none.                                                  *)
LEMMA HandleChannelRemovedInv ==
    ASSUME IInv, NEW a \in Addrs, HandleChannelRemoved(a)
    PROVE  IInv'
  <1> DEFINE c == Head(evs[a]).name
             st == channel_states[c]
  <1>1. c \in Chans /\ evs' \in [Addrs -> Seq(GoodEvents)]
    <2>1. NextEvent(a, "ChannelRemoved")
      BY DEF HandleChannelRemoved
    <2> QED
      BY <2>1, NextEventFacts DEF GoodEvents
  <1>2. UNCHANGED <<channel_by_cssid, held, conn_shutdown, shutdown_stopping, err>>
    BY DEF HandleChannelRemoved, endVars, ghostVars
  <1>3. channel_states \in [Chans -> ChannelStates]
    BY DEF IInv, StateTypeOK, ChannelStates
  <1>4. st.config_new \in Configs \union {NoCfg}
    BY <1>1, <1>3 DEF ChannelStates
  <1>5. \/ /\ Is(c, "UnassigningForConfigChange")
           /\ config' = [config EXCEPT ![c] = st.config_new]
           /\ AddWithAddr(c, st.addr, ReaddConfig(c))
        \/ /\ config' = [config EXCEPT ![c] = st.config_new] \/ config' = config
           /\ UNCHANGED <<channel_states, conn, cmds>>
        \/ /\ SetState(c, Absent)
           /\ config' = [config EXCEPT ![c] = NoCfg]
           /\ UNCHANGED <<conn, cmds>>
    BY DEF HandleChannelRemoved
  <1> HIDE DEF c
  <1>6. config' \in [Chans -> Configs \union {NoCfg}]
    BY <1>1, <1>4, <1>5 DEF IInv, StateTypeOK
  <1>7. CASE /\ Is(c, "UnassigningForConfigChange")
             /\ AddWithAddr(c, st.addr, ReaddConfig(c))
    <2>1. st.addr \in Addrs
      BY <1>1, <1>7 DEF IInv, AddrsOK
    <2>2. c \in WithStatusSeriesId
      BY <1>1, <1>7 DEF WithStatusSeriesId, Is, Inner
    <2>3. ReaddConfig(c) \in Configs \union {NoCfg}
      BY <1>4 DEF ReaddConfig
    <2> QED
      BY <1>1, <1>2, <1>6, <1>7, <2>1, <2>2, <2>3, AddWithAddrInv
  <1>8. CASE UNCHANGED <<channel_states, conn, cmds>>
    BY <1>1, <1>2, <1>3, <1>6, <1>8, ChannelStep DEF IInv, StateTypeOK, QueuesOK
  <1>9. CASE SetState(c, Absent) /\ UNCHANGED <<conn, cmds>>
    <2>1. "Absent" \in States /\ "Absent" \notin Inner
      BY DEF States, Inner
    <2>2. /\ channel_states' \in [Chans -> ChannelStates]
          /\ \A d \in Chans :
                \/ channel_states'[d] = channel_states[d]
                \/ d = c /\ channel_states'[d].v = "Absent"
      BY <1>1, <1>9, <2>1, MoveChannel DEF SetState, Absent
    <2> QED
      BY <1>1, <1>2, <1>6, <1>9, <2>1, <2>2, ChannelStep
         DEF IInv, StateTypeOK, QueuesOK
  <1> QED
    BY <1>5, <1>7, <1>8, <1>9

(* handle_channel_create_fail.                                             *)
LEMMA HandleCreateFailInv ==
    ASSUME IInv, NEW a \in Addrs, HandleCreateFail(a)
    PROVE  IInv'
  <1> DEFINE n == Head(evs[a]).name
  <1>1. evs' \in [Addrs -> Seq(GoodEvents)]
    BY NextEventFacts DEF HandleCreateFail
  <1>2. UNCHANGED <<config, channel_by_cssid, conn, cmds, held, conn_shutdown,
                    shutdown_stopping, err>>
    BY DEF HandleCreateFail, endVars, ghostVars
  <1>3. \/ UNCHANGED channel_states
        \/ n \in WithStatusSeriesId /\ SetState(n, Plain("MaybeWrongAddress"))
    BY DEF HandleCreateFail
  <1> HIDE DEF n
  <1>4. CASE UNCHANGED channel_states
    BY <1>1, <1>2, <1>4, ChannelStep
       DEF IInv, StateTypeOK, QueuesOK, ChannelStates
  <1>5. CASE n \in WithStatusSeriesId /\ SetState(n, Plain("MaybeWrongAddress"))
    <2>1. "MaybeWrongAddress" \in States
      BY DEF States, Inner
    <2>2. n \in Chans /\ n \in channel_by_cssid
      BY <1>5 DEF IInv, SeriesKnown, WithStatusSeriesId
    <2>3. /\ channel_states' \in [Chans -> ChannelStates]
          /\ \A d \in Chans :
                \/ channel_states'[d] = channel_states[d]
                \/ d = n /\ channel_states'[d].v = "MaybeWrongAddress"
      BY <1>5, <2>1, <2>2, MoveChannel DEF SetState
    <2> QED
      BY <1>1, <1>2, <2>2, <2>3, ChannelStep DEF IInv, StateTypeOK, QueuesOK
  <1> QED
    BY <1>3, <1>4, <1>5

(* The connection is gone; its channels are taken off it, unless the whole *)
(* set is shutting down.                                                   *)
LEMMA HandleEosInv ==
    ASSUME IInv, NEW a \in Addrs, HandleEos(a)
    PROVE  IInv'
  <1> DEFINE keep == Head(evs[a]).name = "OnCommand"
  <1>1. evs' \in [Addrs -> Seq(GoodEvents)] /\ (keep => shutdown_stopping)
    <2>1. NextEvent(a, "EndOfStream")
      BY DEF HandleEos
    <2> QED
      BY <2>1, NextEventFacts DEF GoodEvents
  <1>2. channel_states' = [c \in Chans |->
          IF At(c, a) /\ ~keep THEN Plain("MaybeWrongAddress")
          ELSE channel_states[c]]
    BY DEF HandleEos
  <1> HIDE DEF keep
  <1>3. /\ conn' = [conn EXCEPT ![a] = "none"]
        /\ cmds' = [cmds EXCEPT ![a] = <<>>]
        /\ conn_shutdown' = conn_shutdown \ {a}
        /\ UNCHANGED <<config, channel_by_cssid, held, shutdown_stopping, err>>
    BY DEF HandleEos, ghostVars
  <1>4. cmds' \in [Addrs -> Seq(GoodCommands)]
    BY <1>3, EmptySeq DEF IInv, QueuesOK
  <1>5. /\ cmds' \in [Addrs -> Seq(Commands)] /\ evs' \in [Addrs -> Seq(Events)]
        /\ Seq(GoodCommands) \subseteq Seq(GoodCommands')
        /\ Seq(GoodEvents) \subseteq Seq(GoodEvents')
    BY <1>1, <1>3, <1>4, GoodMonotone
  <1>6. QueuesOK'
    BY <1>1, <1>3, <1>4, <1>5 DEF IInv, QueuesOK
  <1>7. "MaybeWrongAddress" \in States
    BY DEF States, Inner
  <1>8. channel_states \in [Chans -> ChannelStates]
    BY DEF IInv, StateTypeOK, ChannelStates
  <1>9. StateTypeOK'
    <2>1. channel_states' \in [Chans -> ChannelStates]
      BY <1>2, <1>7, <1>8, PlainType
    <2>2. conn' \in [Addrs -> {"none", "up", "ended"}]
      BY <1>3 DEF IInv, StateTypeOK
    <2> QED
      BY <1>3, <1>5, <2>1, <2>2
         DEF IInv, StateTypeOK, ChannelStates, Commands, Events
  <1>10. ASSUME NEW c \in Chans
         PROVE  \/ /\ channel_states'[c] = channel_states[c]
                   /\ ~At(c, a) \/ keep
                \/ /\ channel_states'[c].v = "MaybeWrongAddress"
                   /\ c \in channel_by_cssid
    <2>1. CASE At(c, a) /\ ~keep
      <3>1. channel_states'[c] = Plain("MaybeWrongAddress")
        BY <1>2, <2>1
      <3>2. Is(c, "WithAddress")
        BY <2>1, AtFacts DEF Is
      <3> QED
        BY <1>7, <3>1, <3>2, PlainType, AssignedFacts
    <2>2. CASE ~At(c, a) \/ keep
      BY <1>2, <2>2
    <2> QED
      BY <2>1, <2>2
  <1>11. AddrsOK'
    BY <1>10 DEF IInv, AddrsOK, Is, At
  <1>12. SeriesKnown'
    BY <1>3, <1>10 DEF IInv, SeriesKnown, WithStatusSeriesId
  <1>13. AssignedHasConn'
    <2> SUFFICES ASSUME NEW c \in Chans, NEW b \in Addrs, At(c, b)',
                        ~shutdown_stopping'
                 PROVE  conn'[b] # "none"
      BY DEF AssignedHasConn
    <2>1. ~shutdown_stopping /\ ~keep
      BY <1>1, <1>3
    <2>2. channel_states'[c].v = "WithAddress"
      BY DEF At, WithAddress, ChannelState
    <2>3. channel_states'[c] = channel_states[c] /\ ~At(c, a)
      BY <1>10, <2>1, <2>2
    <2>4. At(c, b) /\ b # a
      BY <2>3 DEF At
    <2> QED
      BY <1>3, <2>1, <2>4 DEF IInv, AssignedHasConn, StateTypeOK
  <1> QED
    BY <1>3, <1>6, <1>9, <1>11, <1>12, <1>13 DEF IInv, NoHandlerError
-----------------------------------------------------------------------------
(* IInv holds when the set starts.                                         *)
LEMMA InitInv == Init => IInv
  <1> SUFFICES ASSUME Init PROVE IInv
    OBVIOUS
  <1>1. Absent \in ChannelStates /\ Absent.v = "Absent"
    BY PlainType DEF Absent, States
  <1>2. channel_states \in [Chans -> ChannelStates]
        /\ \A c \in Chans : channel_states[c].v = "Absent"
    BY <1>1 DEF Init
  <1>3. cmds \in [Addrs -> Seq(GoodCommands)] /\ evs \in [Addrs -> Seq(GoodEvents)]
    BY EmptySeq DEF Init
  <1>4. cmds \in [Addrs -> Seq(Commands)] /\ evs \in [Addrs -> Seq(Events)]
    BY <1>3, GoodMonotone
  <1>5. StateTypeOK
    BY <1>2, <1>4 DEF Init, StateTypeOK, ChannelStates, NothingHeld
  <1>6. QueuesOK
    BY <1>3 DEF Init, QueuesOK
  <1>7. AddrsOK /\ SeriesKnown
    BY <1>2 DEF Init, AddrsOK, SeriesKnown, Is, WithStatusSeriesId, Inner,
       NothingHeld
  <1>8. AssignedHasConn
    BY <1>2, AtFacts DEF AssignedHasConn
  <1> QED
    BY <1>5, <1>6, <1>7, <1>8 DEF IInv, NoHandlerError, Init

(* Every step preserves IInv, one case per action.                         *)
LEMMA NextInv == IInv /\ [Next]_vars => IInv'
  <1> SUFFICES ASSUME IInv, [Next]_vars PROVE IInv'
    OBVIOUS
  <1>1. CASE DaemonCommand
    <2>1. ASSUME NEW c \in Chans, NEW cfg \in Configs, AddNew(c, cfg)
          PROVE  IInv'
      BY <2>1, AddNewInv
    <2>2. ASSUME NEW c \in Chans, NEW cfg \in Configs, AddExisting(c, cfg)
          PROVE  IInv'
      BY <2>2, AddExistingInv
    <2>3. ASSUME NEW c \in Chans, RemoveChannel(c)
          PROVE  IInv'
      BY <2>3, HandleRemoveInv DEF RemoveChannel, Command
    <2>4. CASE ConfigFlagReset
      BY <2>4, QuietStep DEF ConfigFlagReset, endVars
    <2>5. CASE ConfigRemoveUnflagged
      BY <2>5, HandleRemoveInv DEF ConfigRemoveUnflagged, Command
    <2>6. CASE Shutdown
      BY <2>6, ShutdownInv
    <2> QED
      BY <1>1, <2>1, <2>2, <2>3, <2>4, <2>5, <2>6 DEF DaemonCommand
  <1>2. ASSUME NEW c \in Chans, LookupResult(c)
        PROVE  IInv'
    BY <1>2, LookupResultInv
  <1>3. ASSUME NEW c \in Chans, LookupError(c)
        PROVE  IInv'
    BY <1>3, QuietStep DEF LookupError, chanVars, endVars
  <1>4. ASSUME NEW a \in Addrs, IocFound(a)
        PROVE  IInv'
    BY <1>4, IocFoundInv
  <1>5. CASE IocNotFound
    BY <1>5, IocNotFoundInv
  <1>6. CASE FinderDrop
    BY <1>6, QuietStep DEF FinderDrop, chanVars, endVars
  <1>7. ASSUME NEW fired \in SUBSET Chans, Tick(fired)
        PROVE  IInv'
    BY <1>7, TickInv
  <1>8. ASSUME NEW a \in Addrs, ConnTakesCommand(a)
        PROVE  IInv'
    BY <1>8, ConnTakesCommandInv
  <1>9. ASSUME NEW a \in Addrs, ConnShutdown(a)
        PROVE  IInv'
    <2>1. shutdown_stopping
      BY <1>9 DEF ConnShutdown, IInv, QueuesOK
    <2> QED
      BY <1>9, <2>1, TriggerShutdownInv DEF ConnShutdown
  <1>10. ASSUME NEW a \in Addrs, ConnEnd(a)
         PROVE  IInv'
    BY <1>10, TriggerShutdownInv DEF ConnEnd
  <1>11. ASSUME NEW a \in Addrs, ConnError(a)
         PROVE  IInv'
    BY <1>11, ConnErrorInv
  <1>12. ASSUME NEW a \in Addrs, NEW c \in Chans, ConnCreateFail(a, c)
         PROVE  IInv'
    BY <1>12, ConnCreateFailInv
  <1>13. ASSUME NEW a \in Addrs, ConnStatus(a)
         PROVE  IInv'
    BY <1>13, ConnStatusInv
  <1>14. ASSUME NEW a \in Addrs, HandleConnEvent(a)
         PROVE  IInv'
    BY <1>14, HandleChannelRemovedInv, HandleCreateFailInv, HandleEosInv
       DEF HandleConnEvent
  <1>15. CASE JoinConn
    BY <1>15, QuietStep DEF JoinConn, chanVars, ghostVars
  <1>16. CASE EndStream
    BY <1>16, QuietStep DEF EndStream, chanVars, ghostVars
  <1>17. CASE UNCHANGED vars
    BY <1>17, QuietStep DEF vars, chanVars, endVars, ghostVars
  <1>18. ASSUME NEW a \in Addrs, ConnReasonReplaced(a)
         PROVE  IInv'
    BY <1>18, ConnReasonReplacedInv
  <1>19. ASSUME NEW a \in Addrs, ConnStuck(a)
         PROVE  IInv'
    BY <1>19, TriggerShutdownInv DEF ConnStuck
  <1> QED
    BY <1>1, <1>2, <1>3, <1>4, <1>5, <1>6, <1>7, <1>8, <1>9, <1>10, <1>11,
       <1>12, <1>13, <1>14, <1>15, <1>16, <1>17, <1>18, <1>19
       DEF Next, StuckTick, Ended

(* IInv is an invariant of the connection set.                             *)
LEMMA IInvHolds == SafetySpec => []IInv
  BY InitInv, NextInv, PTL DEF SafetySpec

(* As long as the set is not shut down, an assigned channel finds the      *)
(* connection of its address in ca_conn_ress: handle_ca_conn_eos takes all *)
(* channels off a connection in the same step that forgets it.             *)
THEOREM AssignedConnExists == SafetySpec => []AssignedHasConn
  <1>1. IInv => AssignedHasConn
    BY DEF IInv
  <1> QED
    BY <1>1, IInvHolds, PTL

(* No handler goes out with ChannelAssignedWithoutConnRess or UnknownCssid *)
(* in whatever order channels are configured, searched, moved and removed  *)
(* and connections end.                                                    *)
THEOREM HandlersDoNotFail == SafetySpec => []NoHandlerError
  <1>1. IInv => NoHandlerError
    BY DEF IInv
  <1> QED
    BY <1>1, IInvHolds, PTL
-----------------------------------------------------------------------------
(***************************************************************************)
(* The search loop of the connection set, for any number of channels and   *)
(* whatever is removed, times out or fails meanwhile: no channel is        *)
(* forgotten, and searches are issued up to CURRENT_SEARCH_PENDING_MAX.    *)
(***************************************************************************)
(* The part of TypeOK that the proof of the handlers does without.         *)
RestTypeOK ==
    /\ touched \in [Chans -> BOOLEAN]
    /\ lookups \in [Chans -> Nat]
    /\ find_ioc_queue_set \in Seq(Chans) /\ searches \in Seq(Chans)
    /\ IsQueueSet(find_ioc_queue_set)
    /\ front_dropped \in BOOLEAN
    /\ stuck \subseteq Addrs /\ await_jhs \in Nat
    /\ stream_ended \in BOOLEAN
    /\ ncmds \in 0..MaxCmds /\ nfaults \in 0..MaxFaults

SearchInv == IInv /\ RestTypeOK /\ SearchNotForgotten

(* The two states of a channel that the search loop is responsible for.    *)
InLoop == {"AddrSearchPlanned", "AddrSearchPending"}
-----------------------------------------------------------------------------
(* The local definitions of Tick.                                          *)
TickStates(fired) ==
    [c \in Chans |-> IF c \in fired THEN TimerState(c) ELSE channel_states[c]]
TickNew(fired) ==
    {c \in fired : TickStates(fired)[c].v = "AddrSearchPlanned"}
TickQueue(fired) == PushBack(find_ioc_queue_set, TickNew(fired))
TickSlots(fired) == SearchSlots(TickStates(fired), TickQueue(fired))
TickIssue(fired) ==
    {c \in Range(SubSeq(TickQueue(fired), 1, TickSlots(fired))) :
       TickStates(fired)[c].v \in Inner}
TickSick(fired) == {c \in fired : Is(c, "WithAddress")}

(* What a tick does to the channels and to the two queues of the search.   *)
LEMMA TickSteps ==
    ASSUME NEW fired \in SUBSET Chans, Tick(fired), nfaults \in Nat
    PROVE  /\ ~shutdown_stopping
           /\ \A c \in fired : HasTimer(c)
           /\ channel_states' = [c \in Chans |->
                IF c \in TickSick(fired) THEN ToRemove(NoAddr)
                ELSE IF c \in TickIssue(fired) THEN Plain("AddrSearchPending")
                ELSE TickStates(fired)[c]]
           /\ find_ioc_queue_set' =
                SubSeq(TickQueue(fired), TickSlots(fired) + 1,
                       Len(TickQueue(fired)))
           /\ searches' = searches
                \o Keep(SubSeq(TickQueue(fired), 1, TickSlots(fired)),
                        TickIssue(fired))
           /\ nfaults' \in 0..MaxFaults
           /\ UNCHANGED <<touched, lookups, front_dropped, stuck, await_jhs,
                          stream_ended, ncmds>>
  <1> USE DEF TickStates, TickNew, TickQueue, TickSlots, TickIssue, TickSick
  <1>1. /\ ~shutdown_stopping
        /\ \A c \in fired : HasTimer(c)
    BY Zenon DEF Tick
  <1>2. channel_states' = [c \in Chans |->
                IF c \in TickSick(fired) THEN ToRemove(NoAddr)
                ELSE IF c \in TickIssue(fired) THEN Plain("AddrSearchPending")
                ELSE TickStates(fired)[c]]
    BY Zenon DEF Tick
  <1>3. find_ioc_queue_set' =
                SubSeq(TickQueue(fired), TickSlots(fired) + 1,
                       Len(TickQueue(fired)))
    BY Zenon DEF Tick
  <1>4. searches' = searches
                \o Keep(SubSeq(TickQueue(fired), 1, TickSlots(fired)),
                        TickIssue(fired))
    BY Zenon DEF Tick
  <1>5. nfaults' \in 0..MaxFaults
    <2> DEFINE adverse ==
                 Cardinality({c \in fired : channel_states[c].v \in Adverse})
    <2>1. nfaults + adverse <= MaxFaults /\ nfaults' = nfaults + adverse
      BY Zenon DEF Tick
    <2>2. adverse \in Nat
      BY FS_Subset, FS_CardinalityType, ConnSetAssumption
    <2> HIDE DEF adverse
    <2> QED
      BY <2>1, <2>2, ConnSetAssumption
  <1>6. UNCHANGED <<touched, lookups, front_dropped, stuck, await_jhs,
                    stream_ended, ncmds>>
    BY Zenon DEF Tick, endVars
  <1> QED
    BY <1>1, <1>2, <1>3, <1>4, <1>5, <1>6

(* A set is listed without repetition.                                     *)
LEMMA InOrderDistinct ==
    ASSUME NEW S, IsFiniteSet(S)
    PROVE  /\ InOrder(S) \in Seq(S) /\ Len(InOrder(S)) = Cardinality(S)
           /\ Distinct(InOrder(S)) /\ ToSet(InOrder(S)) = S
  <1> DEFINE s == InOrder(S)
             D == 1..Cardinality(S)
  <1>1. Cardinality(S) \in Nat /\ s \in [D -> S] /\ Range(s) = S
    BY InOrderType
  <1> HIDE DEF s
  <1>2. s \in Surjection(D, S)
    BY <1>1 DEF Surjection, Range
  <1>3. IsFiniteSet(D) /\ Cardinality(D) = Cardinality(S)
    BY <1>1, FS_Interval
  <1>4. s \in Injection(D, S)
    <2> HIDE DEF D
    <2> QED
      BY <1>2, <1>3, FS_SurjSameCardinalityImpliesInj
  <1>5. \A i, j \in D : s[i] = s[j] => i = j
    BY <1>4 DEF Injection, IsInjective
  <1>6. s \in Seq(S) /\ Len(s) = Cardinality(S)
    BY <1>1
  <1>7. Distinct(s) /\ ToSet(s) = S
    BY <1>1, <1>5, <1>6 DEF Distinct, ToSet, Range
  <1> QED
    BY <1>6, <1>7 DEF s

(* A queue is served from its front: what goes and what stays.             *)
LEMMA SplitDistinct ==
    ASSUME NEW S, NEW q \in Seq(S), NEW n \in 0..Len(q), Distinct(q)
    PROVE  /\ Distinct(SubSeq(q, 1, n)) /\ Distinct(SubSeq(q, n + 1, Len(q)))
           /\ Range(SubSeq(q, n + 1, Len(q))) \subseteq Range(q)
           /\ Range(SubSeq(q, 1, n)) \subseteq Range(q)
           /\ Range(SubSeq(q, 1, n)) \intersect Range(SubSeq(q, n + 1, Len(q))) = {}
  <1>1. PICK s, t : s = SubSeq(q, 1, n) /\ t = SubSeq(q, n + 1, Len(q))
    OBVIOUS
  <1>0. DOMAIN q = 1..Len(q)
    OBVIOUS
  <1>2. Len(q) \in Nat /\ n \in Nat /\ n <= Len(q)
    OBVIOUS
  <1>3. /\ Len(s) = n /\ DOMAIN s = 1..n
        /\ \A i \in 1..n : s[i] = q[i] /\ i \in 1..Len(q)
    BY <1>1, <1>2
  <1>4. /\ Len(t) = Len(q) - n /\ DOMAIN t = 1..(Len(q) - n)
        /\ \A i \in 1..(Len(q) - n) : t[i] = q[n + i] /\ n + i \in 1..Len(q)
    <2>1. /\ t \in Seq(S) /\ Len(t) = Len(q) - n
          /\ \A i \in 1..(Len(q) - n) : t[i] = q[n + i]
      BY <1>1, <1>2
    <2>3. \A i \in 1..(Len(q) - n) : n + i \in 1..Len(q)
      BY <1>2
    <2> QED
      BY <2>1, <2>3
  <1>5. Distinct(s)
    BY <1>3 DEF Distinct
  <1>6. Distinct(t)
    <2>1. ASSUME NEW i \in 1..(Len(q) - n), NEW j \in 1..(Len(q) - n), t[i] = t[j]
          PROVE  i = j
      <3>1. n + i = n + j
        BY <1>4, <2>1 DEF Distinct
      <3> QED
        BY <1>2, <3>1
    <2> QED
      BY <1>4, <2>1 DEF Distinct
  <1>7. Range(s) \subseteq Range(q) /\ Range(t) \subseteq Range(q)
    <2>1. /\ Range(s) = {s[i] : i \in 1..n} /\ Range(t) = {t[i] : i \in 1..(Len(q) - n)}
          /\ Range(q) = {q[i] : i \in 1..Len(q)}
      BY <1>0, <1>3, <1>4 DEF Range
    <2>2. {s[i] : i \in 1..n} \subseteq {q[i] : i \in 1..Len(q)}
      BY <1>3
    <2>3. {t[i] : i \in 1..(Len(q) - n)} \subseteq {q[i] : i \in 1..Len(q)}
      BY <1>4
    <2> QED
      BY <2>1, <2>2, <2>3
  <1>8. Range(s) \intersect Range(t) = {}
    <2>1. ASSUME NEW i \in 1..n, NEW j \in 1..(Len(q) - n), s[i] = t[j] PROVE FALSE
      <3>1. i = n + j
        BY <1>3, <1>4, <2>1 DEF Distinct
      <3> QED
        BY <1>2, <3>1
    <2> QED
      BY <1>3, <1>4, <2>1 DEF Range
  <1> QED
    BY <1>1, <1>5, <1>6, <1>7, <1>8

(* What PushBack adds comes in once, and nothing twice.                    *)
LEMMA PushBackDistinct ==
    ASSUME NEW S \in SUBSET Chans, NEW q \in Seq(Chans), Distinct(q)
    PROVE  Distinct(PushBack(q, S))
  <1>1. PICK new : new = S \ Range(q)
    OBVIOUS
  <1>2. PICK s : s = InOrder(new)
    OBVIOUS
  <1>3. new \subseteq Chans /\ IsFiniteSet(new)
    BY <1>1, FS_Subset, ConnSetAssumption
  <1>4. s \in Seq(new) /\ Distinct(s) /\ ToSet(s) = new
    BY <1>2, <1>3, InOrderDistinct
  <1>5. s \in Seq(Chans)
    BY <1>3, <1>4, SeqMonotonic
  <1>6. ToSet(q) = Range(q)
    BY DEF ToSet, Range
  <1>7. ToSet(q) \intersect ToSet(s) = {}
    BY <1>1, <1>4, <1>6
  <1>8. Distinct(q \o s)
    BY <1>4, <1>5, <1>7, DistinctConcat
  <1> QED
    BY <1>1, <1>2, <1>8 DEF PushBack

(* The channels that come into the queue are listed once each.             *)
LEMMA TickQueueFacts ==
    ASSUME NEW fired \in SUBSET Chans, find_ioc_queue_set \in Seq(Chans)
    PROVE  /\ TickQueue(fired) \in Seq(Chans)
           /\ Range(TickQueue(fired))
                = Range(find_ioc_queue_set) \union TickNew(fired)
  <1> DEFINE S == TickNew(fired) \ Range(find_ioc_queue_set)
             s == InOrder(S)
  <1>1. S \subseteq Chans /\ IsFiniteSet(S)
    BY FS_Subset, ConnSetAssumption DEF TickNew
  <1> HIDE DEF S
  <1>2. /\ Cardinality(S) \in Nat /\ s \in [1..Cardinality(S) -> S]
        /\ Range(s) = S
    BY <1>1, InOrderType
  <1> HIDE DEF s
  <1>3. s \in Seq(Chans)
    BY <1>1, <1>2
  <1>4. TickQueue(fired) = find_ioc_queue_set \o s
    BY DEF TickQueue, PushBack, s, S
  <1>5. TickQueue(fired) \in Seq(Chans)
    BY <1>3, <1>4, ConcatProperties
  <1>6. ToSet(find_ioc_queue_set \o s) = ToSet(find_ioc_queue_set) \union ToSet(s)
    BY <1>3, ToSetConcat
  <1>7. \A f : ToSet(f) = Range(f)
    BY DEF ToSet, Range
  <1>8. Range(TickQueue(fired)) = Range(find_ioc_queue_set) \union S
    BY <1>2, <1>4, <1>6, <1>7
  <1> QED
    BY <1>5, <1>8 DEF S
-----------------------------------------------------------------------------
(* The number of searches that the first n entries of q ask for.           *)
Issued(sts, q, n) == {i \in 1..n : sts[q[i]].v \in Inner}
PendingIn(sts) == {c \in Chans : sts[c].v = "AddrSearchPending"}

(* One more entry asks for at most one more search.                        *)
LEMMA IssuedGrows ==
    ASSUME NEW sts, NEW q, NEW n \in Nat
    PROVE  /\ IsFiniteSet(Issued(sts, q, n))
           /\ Cardinality(Issued(sts, q, n)) \in Nat
           /\ Cardinality(Issued(sts, q, n + 1))
                <= Cardinality(Issued(sts, q, n)) + 1
  <1>1. IsFiniteSet(1..n)
    BY FS_Interval
  <1>2. IsFiniteSet(Issued(sts, q, n)) /\ Cardinality(Issued(sts, q, n)) \in Nat
    BY <1>1, FS_Subset, FS_CardinalityType DEF Issued
  <1>3. \/ Issued(sts, q, n + 1) = Issued(sts, q, n)
        \/ Issued(sts, q, n + 1) = Issued(sts, q, n) \union {n + 1}
    BY DEF Issued
  <1>4. Cardinality(Issued(sts, q, n) \union {n + 1})
          <= Cardinality(Issued(sts, q, n)) + 1
    BY <1>2, FS_AddElement
  <1>5. Cardinality(Issued(sts, q, n + 1)) <= Cardinality(Issued(sts, q, n)) + 1
    <2>1. CASE Issued(sts, q, n + 1) = Issued(sts, q, n)
      BY <1>2, <2>1
    <2>2. CASE Issued(sts, q, n + 1) = Issued(sts, q, n) \union {n + 1}
      BY <1>4, <2>2
    <2> QED
      BY <1>3, <2>1, <2>2
  <1> QED
    BY <1>2, <1>5

(* The loop stops at the first entry where the limit is reached, or at the *)
(* end of the queue.                                                       *)
LEMMA SearchSlotsFacts ==
    ASSUME NEW sts, NEW q \in Seq(Chans)
    PROVE  LET n == SearchSlots(sts, q)
               p == Cardinality(PendingIn(sts))
           IN  /\ n \in 0..Len(q)
               /\ \A m \in 0..(n - 1) :
                    p + Cardinality(Issued(sts, q, m)) < SearchPendingMax
  <1> DEFINE p == Cardinality(PendingIn(sts))
             P(n) == n = Len(q)
                       \/ p + Cardinality(Issued(sts, q, n)) >= SearchPendingMax
             T == {n \in 0..Len(q) : P(n)}
  <1>1. Len(q) \in Nat /\ Len(q) \in T /\ T \subseteq Nat
    OBVIOUS
  <1>2. PICK n \in T : \A m \in T : n <= m
    <2> HIDE DEF T
    <2> QED
      BY <1>1, LeastNat
  <1>3. p \in Nat /\ SearchPendingMax \in Nat
    <2>1. IsFiniteSet(PendingIn(sts))
      BY FS_Subset, ConnSetAssumption DEF PendingIn
    <2> QED
      BY <2>1, FS_CardinalityType, ConnSetAssumption
  <1> HIDE DEF p
  <1>4. ASSUME NEW m \in 0..(n - 1)
        PROVE  p + Cardinality(Issued(sts, q, m)) < SearchPendingMax
    <2>1. m \in 0..Len(q) /\ ~(n <= m) /\ m # Len(q) /\ m \in Nat
      BY <1>1, <1>2
    <2>2. m \notin T
      BY <1>2, <2>1
    <2>3. ~P(m)
      BY <2>1, <2>2
    <2>4. Cardinality(Issued(sts, q, m)) \in Nat
      BY <2>1, IssuedGrows
    <2> QED
      BY <1>3, <2>3, <2>4
  <1>5. n \in 0..Len(q) /\ P(n)
    BY <1>2
  <1>6. SearchSlots(sts, q) = CHOOSE k \in 0..Len(q) :
            /\ P(k)
            /\ \A m \in 0..(k - 1) :
                 p + Cardinality(Issued(sts, q, m)) < SearchPendingMax
    BY DEF SearchSlots, p, Issued, PendingIn
  <1> HIDE DEF P
  <1>7. \E k \in 0..Len(q) :
            /\ P(k)
            /\ \A m \in 0..(k - 1) :
                 p + Cardinality(Issued(sts, q, m)) < SearchPendingMax
    BY <1>4, <1>5
  <1>8. /\ SearchSlots(sts, q) \in 0..Len(q)
        /\ \A m \in 0..(SearchSlots(sts, q) - 1) :
             p + Cardinality(Issued(sts, q, m)) < SearchPendingMax
    BY <1>6, <1>7
  <1> QED
    BY <1>8 DEF p
-----------------------------------------------------------------------------
(* No timer leads into AddrSearchPending.                                  *)
LEMMA TimerNotPending ==
    ASSUME NEW c \in Chans, HasTimer(c)
    PROVE  TimerState(c).v # "AddrSearchPending"
  <1> DEFINE w == CASE Is(c, "WaitForStatusSeriesId") -> "Init"
                    [] Is(c, "UnknownAddress") -> "AddrSearchPlanned"
                    [] Is(c, "AddrSearchPending") -> "NoAddress"
                    [] Is(c, "WithAddress") -> "MaybeWrongAddress"
                    [] Is(c, "NoAddress") -> "UnknownAddress"
                    [] Is(c, "MaybeWrongAddress") -> "AddrSearchPlanned"
  <1>1. w # "AddrSearchPending"
    BY DEF HasTimer, Adverse, Is
  <1>2. TimerState(c) = Plain(w)
    BY DEF TimerState, Is
  <1> HIDE DEF w
  <1> QED
    BY <1>1, <1>2 DEF Plain, ChannelState

(* A channel is pending after a tick if it is issued or was pending, and   *)
(* planned if its timer or an earlier one planned it and it has no slot.   *)
LEMMA TickChannel ==
    ASSUME IInv, RestTypeOK, NEW fired \in SUBSET Chans, Tick(fired),
           NEW c \in Chans
    PROVE  /\ channel_states'[c].v = "AddrSearchPending" =>
                \/ c \in TickIssue(fired)
                \/ /\ TickStates(fired)[c].v = "AddrSearchPending"
                   /\ channel_states[c].v = "AddrSearchPending"
           /\ channel_states'[c].v = "AddrSearchPlanned" =>
                /\ c \notin TickIssue(fired)
                /\ TickStates(fired)[c].v = "AddrSearchPlanned"
                /\ \/ channel_states[c].v = "AddrSearchPlanned"
                   \/ c \in TickNew(fired)
  <1>1. nfaults \in Nat
    BY DEF RestTypeOK
  <1>2. /\ \A d \in fired : HasTimer(d)
        /\ channel_states' = [d \in Chans |->
                IF d \in TickSick(fired) THEN ToRemove(NoAddr)
                ELSE IF d \in TickIssue(fired) THEN Plain("AddrSearchPending")
                ELSE TickStates(fired)[d]]
    BY <1>1, TickSteps
  <1>3. CASE c \in TickSick(fired)
    BY <1>2, <1>3 DEF ToRemove, ChannelState
  <1>4. CASE c \notin TickSick(fired) /\ c \in TickIssue(fired)
    BY <1>2, <1>4 DEF Plain, ChannelState
  <1>5. CASE c \notin TickSick(fired) /\ c \notin TickIssue(fired)
    <2>1. channel_states'[c] = TickStates(fired)[c]
      BY <1>2, <1>5
    <2>2. CASE c \in fired
      <3>1. TickStates(fired)[c] = TimerState(c)
        BY <2>2 DEF TickStates
      <3> QED
        BY <1>2, <1>5, <2>1, <2>2, <3>1, TimerNotPending DEF TickNew
    <2>3. CASE c \notin fired
      <3>1. TickStates(fired)[c] = channel_states[c]
        BY <2>3 DEF TickStates
      <3> QED
        BY <1>5, <2>1, <3>1
    <2> QED
      BY <2>2, <2>3
  <1> QED
    BY <1>3, <1>4, <1>5

(* The entries that are popped, and the ones that stay.                    *)
LEMMA TickSplit ==
    ASSUME IInv, RestTypeOK, NEW fired \in SUBSET Chans
    PROVE  LET q == TickQueue(fired)
               n == TickSlots(fired)
           IN  /\ q \in Seq(Chans) /\ n \in 0..Len(q)
               /\ SubSeq(q, 1, n) \in Seq(Chans)
               /\ SubSeq(q, n + 1, Len(q)) \in Seq(Chans)
               /\ Range(SubSeq(q, 1, n)) = {q[i] : i \in 1..n}
               /\ \A i \in (n + 1)..Len(q) : q[i] \in Range(SubSeq(q, n + 1, Len(q)))
  <1>1. PICK q \in Seq(Chans) : q = TickQueue(fired)
    BY TickQueueFacts DEF RestTypeOK
  <1>2. PICK n \in 0..Len(q) : n = TickSlots(fired)
    BY <1>1, SearchSlotsFacts DEF TickSlots
  <1>3. Len(q) \in Nat /\ n \in Nat /\ n <= Len(q)
    BY <1>2
  <1>4. /\ SubSeq(q, 1, n) \in Seq(Chans) /\ Len(SubSeq(q, 1, n)) = n
        /\ \A i \in 1..n : SubSeq(q, 1, n)[i] = q[i]
    BY <1>3
  <1>5. DOMAIN SubSeq(q, 1, n) = 1..n
    BY <1>3, <1>4
  <1>6. Range(SubSeq(q, 1, n)) = {q[i] : i \in 1..n}
    BY <1>4, <1>5 DEF Range
  <1> DEFINE r == SubSeq(q, n + 1, Len(q))
  <1>7. /\ r \in Seq(Chans) /\ Len(r) = Len(q) - n
        /\ \A i \in 1..(Len(q) - n) : r[i] = q[n + i]
    BY <1>3
  <1> HIDE DEF r
  <1>8. ASSUME NEW i \in (n + 1)..Len(q) PROVE q[i] \in Range(r)
    <2>1. i - n \in 1..(Len(q) - n) /\ n + (i - n) = i
      BY <1>3
    <2>2. r[i - n] = q[i] /\ i - n \in DOMAIN r
      BY <1>3, <1>7, <2>1
    <2> QED
      BY <2>2 DEF Range
  <1> QED
    BY <1>1, <1>2, <1>4, <1>6, <1>7, <1>8 DEF r

(* The tick forgets no channel: one without a slot stays queued, one that  *)
(* leaves the queue is searched.                                           *)
LEMMA TickSearch ==
    ASSUME SearchInv, NEW fired \in SUBSET Chans, Tick(fired)
    PROVE  RestTypeOK' /\ SearchNotForgotten'
  <1>0. IInv /\ RestTypeOK /\ nfaults \in Nat
    BY DEF SearchInv, RestTypeOK
  <1>1. PICK q, n, issue :
          /\ q = TickQueue(fired) /\ n = TickSlots(fired)
          /\ issue = TickIssue(fired)
    OBVIOUS
  <1>2. /\ q \in Seq(Chans) /\ n \in 0..Len(q)
        /\ SubSeq(q, 1, n) \in Seq(Chans)
        /\ SubSeq(q, n + 1, Len(q)) \in Seq(Chans)
        /\ Range(SubSeq(q, 1, n)) = {q[i] : i \in 1..n}
        /\ \A i \in (n + 1)..Len(q) : q[i] \in Range(SubSeq(q, n + 1, Len(q)))
    BY <1>0, <1>1, TickSplit
  <1>3. /\ ~shutdown_stopping
        /\ find_ioc_queue_set' = SubSeq(q, n + 1, Len(q))
        /\ searches' = searches \o Keep(SubSeq(q, 1, n), issue)
        /\ nfaults' \in 0..MaxFaults
        /\ UNCHANGED <<touched, lookups, front_dropped, stuck, await_jhs,
                       stream_ended, ncmds>>
    BY <1>0, <1>1, TickSteps
  <1>4. searches \in Seq(Chans) /\ find_ioc_queue_set \in Seq(Chans)
    BY <1>0 DEF RestTypeOK
  <1>5. /\ Keep(SubSeq(q, 1, n), issue) \in Seq(Chans)
        /\ ToSet(Keep(SubSeq(q, 1, n), issue)) = ToSet(SubSeq(q, 1, n)) \intersect issue
    BY <1>2, KeepType, KeepSet
  <1>6. searches' \in Seq(Chans)
    BY <1>3, <1>4, <1>5, ConcatProperties
  <1>20. IsQueueSet(find_ioc_queue_set')
    <2>1. Distinct(find_ioc_queue_set)
      BY <1>0 DEF RestTypeOK, IsQueueSet, Distinct
    <2>2. TickNew(fired) \in SUBSET Chans
      BY DEF TickNew
    <2>3. Distinct(q)
      BY <1>1, <1>4, <2>1, <2>2, PushBackDistinct DEF TickQueue
    <2>4. Distinct(SubSeq(q, n + 1, Len(q)))
      BY <1>2, <2>3, SplitDistinct
    <2> QED
      BY <1>3, <2>4 DEF IsQueueSet, Distinct
  <1>7. RestTypeOK'
    BY <1>0, <1>2, <1>3, <1>6, <1>20 DEF RestTypeOK
  <1>8. \A f : ToSet(f) = Range(f)
    BY DEF ToSet, Range
  <1>9. /\ issue \subseteq Range(SubSeq(q, 1, n))
        /\ \A c \in Range(SubSeq(q, 1, n)) :
              TickStates(fired)[c].v \in Inner => c \in issue
    BY <1>1 DEF TickIssue
  <1>10. Range(searches') = Range(searches) \union issue
    <2>1. ToSet(searches') = ToSet(searches) \union ToSet(Keep(SubSeq(q, 1, n), issue))
      BY <1>3, <1>4, <1>5, ToSetConcat
    <2> QED
      BY <2>1, <1>5, <1>8, <1>9
  <1>11. SearchNotForgotten
    BY DEF SearchInv
  <1>12. PlannedIsQueued'
    <2> SUFFICES ASSUME NEW c \in Chans, Is(c, "AddrSearchPlanned")'
                 PROVE  c \in Range(find_ioc_queue_set')
      BY DEF PlannedIsQueued
    <2>1. /\ c \notin issue
          /\ TickStates(fired)[c].v = "AddrSearchPlanned"
          /\ channel_states[c].v = "AddrSearchPlanned" \/ c \in TickNew(fired)
      BY <1>0, <1>1, TickChannel DEF Is
    <2>2. c \in Range(q)
      BY <1>1, <1>3, <1>4, <1>11, <2>1, TickQueueFacts
         DEF SearchNotForgotten, PlannedIsQueued, Is
    <2>3. PICK i \in 1..Len(q) : q[i] = c
      BY <1>2, <2>2 DEF Range
    <2>4. c \notin Range(SubSeq(q, 1, n))
      BY <1>9, <2>1 DEF Inner
    <2>5. i \notin 1..n
      BY <1>2, <2>3, <2>4
    <2>6. i \in (n + 1)..Len(q)
      BY <1>2, <2>3, <2>5
    <2> QED
      BY <1>2, <1>3, <2>3, <2>6
  <1>13. PendingIsSearched'
    <2> SUFFICES ASSUME NEW c \in Chans, Is(c, "AddrSearchPending")'
                 PROVE  c \in Range(searches')
      BY DEF PendingIsSearched
    <2>1. c \in issue \/ channel_states[c].v = "AddrSearchPending"
      BY <1>0, <1>1, TickChannel DEF Is
    <2> QED
      BY <1>3, <1>10, <1>11, <2>1 DEF SearchNotForgotten, PendingIsSearched, Is
  <1> QED
    BY <1>7, <1>12, <1>13 DEF SearchNotForgotten

(* A tick that issues searches stays within the limit.                     *)
LEMMA TickLimit ==
    ASSUME IInv, RestTypeOK, NEW fired \in SUBSET Chans, Tick(fired),
           NEW d \in Chans, SearchesAgain(d)
    PROVE  Cardinality({c \in Chans : channel_states'[c].v = "AddrSearchPending"})
             <= SearchPendingMax
  <1>1. PICK q, n, issue, sts :
          /\ q = TickQueue(fired) /\ n = TickSlots(fired)
          /\ issue = TickIssue(fired) /\ sts = TickStates(fired)
    OBVIOUS
  <1>2. /\ q \in Seq(Chans) /\ n \in 0..Len(q)
        /\ Range(SubSeq(q, 1, n)) = {q[i] : i \in 1..n}
    BY <1>1, TickSplit
  <1> DEFINE I == Issued(sts, q, n)
             after == {c \in Chans : channel_states'[c].v = "AddrSearchPending"}
  <1>3. issue = {q[i] : i \in I}
    BY <1>1, <1>2 DEF TickIssue, Issued
  <1>4. d \in issue
    BY <1>1, TickChannel DEF SearchesAgain
  <1>5. n # 0 /\ n - 1 \in Nat /\ n - 1 \in 0..(n - 1) /\ n = (n - 1) + 1
    BY <1>2, <1>3, <1>4 DEF Issued
  <1>6. Cardinality(PendingIn(sts)) + Cardinality(Issued(sts, q, n - 1))
          < SearchPendingMax
    BY <1>1, <1>2, <1>5, SearchSlotsFacts DEF TickSlots
  <1>7. /\ Cardinality(Issued(sts, q, n - 1)) \in Nat
        /\ Cardinality(I) <= Cardinality(Issued(sts, q, n - 1)) + 1
        /\ IsFiniteSet(I) /\ Cardinality(I) \in Nat
    <2>1. PICK m \in Nat : m = n - 1 /\ n = m + 1
      BY <1>5
    <2>2. /\ Cardinality(Issued(sts, q, m)) \in Nat
          /\ Cardinality(Issued(sts, q, m + 1)) <= Cardinality(Issued(sts, q, m)) + 1
      BY IssuedGrows
    <2>3. IsFiniteSet(I) /\ Cardinality(I) \in Nat
      BY <1>5, IssuedGrows
    <2> QED
      BY <2>1, <2>2, <2>3
  <1> HIDE DEF I
  <1>8. IsFiniteSet(issue) /\ Cardinality(issue) <= Cardinality(I)
    <2> DEFINE f == [i \in I |-> q[i]]
    <2>1. f \in Surjection(I, issue)
      BY <1>3 DEF Surjection
    <2> HIDE DEF f
    <2> QED
      BY <1>7, <2>1, FS_Surjection
  <1>9. IsFiniteSet(PendingIn(sts)) /\ Cardinality(PendingIn(sts)) \in Nat
    BY FS_Subset, FS_CardinalityType, ConnSetAssumption DEF PendingIn
  <1>10. after \subseteq PendingIn(sts) \union issue
    BY <1>1, TickChannel DEF PendingIn
  <1> HIDE DEF after
  <1>11. /\ IsFiniteSet(PendingIn(sts) \union issue)
         /\ Cardinality(PendingIn(sts) \union issue)
              <= Cardinality(PendingIn(sts)) + Cardinality(issue)
    <2>1. IsFiniteSet(PendingIn(sts) \intersect issue)
      BY <1>8, FS_Subset
    <2>2. /\ Cardinality(PendingIn(sts) \intersect issue) \in Nat
          /\ Cardinality(issue) \in Nat
      BY <1>8, <2>1, FS_CardinalityType
    <2>3. /\ IsFiniteSet(PendingIn(sts) \union issue)
          /\ Cardinality(PendingIn(sts) \union issue) =
               Cardinality(PendingIn(sts)) + Cardinality(issue)
                 - Cardinality(PendingIn(sts) \intersect issue)
      BY <1>8, <1>9, FS_Union
    <2> QED
      BY <1>9, <2>2, <2>3
  <1>12. /\ Cardinality(after) <= Cardinality(PendingIn(sts) \union issue)
         /\ Cardinality(after) \in Nat
         /\ Cardinality(PendingIn(sts) \union issue) \in Nat
         /\ Cardinality(issue) \in Nat
    BY <1>8, <1>10, <1>11, FS_Subset, FS_CardinalityType
  <1>13. Cardinality(after) <= SearchPendingMax
    BY <1>6, <1>7, <1>8, <1>9, <1>11, <1>12, ConnSetAssumption
  <1> QED
    BY <1>13 DEF after
-----------------------------------------------------------------------------
(* A step outside the search loop brings no channel into it.               *)
Calm ==
    /\ UNCHANGED <<find_ioc_queue_set, searches>>
    /\ \A c \in Chans :
         channel_states'[c].v \in InLoop =>
           channel_states'[c].v = channel_states[c].v
    /\ shutdown_stopping => shutdown_stopping'

LEMMA CalmSearch ==
    ASSUME SearchInv, Calm
    PROVE  SearchNotForgotten'
  BY DEF SearchInv, Calm, SearchNotForgotten, PlannedIsQueued,
     PendingIsSearched, Is, InLoop

(* The channels stay as they are.                                          *)
LEMMA CalmStill ==
    ASSUME channel_states' = channel_states,
           find_ioc_queue_set' = find_ioc_queue_set, searches' = searches,
           shutdown_stopping' = shutdown_stopping
    PROVE  Calm
  BY Zenon DEF Calm

(* One channel moves to a state outside the search loop.                   *)
LEMMA CalmMove ==
    ASSUME IInv, NEW c, NEW st, st.v \notin InLoop,
           channel_states' = [channel_states EXCEPT ![c] = st],
           UNCHANGED <<find_ioc_queue_set, searches, shutdown_stopping>>
    PROVE  Calm
  BY DEF Calm, IInv, StateTypeOK

LEMMA CalmCommand ==
    ASSUME SearchInv, DaemonCommand
    PROVE  RestTypeOK' /\ Calm
  <1>0. IInv /\ RestTypeOK /\ MaxCmds \in Nat
    BY ConnSetAssumption DEF SearchInv
  <1>1. ASSUME NEW c \in Chans, NEW cfg \in Configs, AddNew(c, cfg)
        PROVE  RestTypeOK' /\ Calm
    <2>1. RestTypeOK'
      BY <1>0, <1>1 DEF AddNew, Command, RestTypeOK, endVars
    <2>2. Plain("WaitForStatusSeriesId").v \notin InLoop
      BY DEF Plain, ChannelState, InLoop
    <2>3. channel_states' =
            [channel_states EXCEPT ![c] = Plain("WaitForStatusSeriesId")]
      BY <1>1 DEF AddNew, SetState
    <2>4. UNCHANGED <<find_ioc_queue_set, searches, shutdown_stopping>>
      BY <1>1 DEF AddNew, endVars
    <2> QED
      BY <1>0, <2>1, <2>2, <2>3, <2>4, CalmMove
  <1>2. ASSUME NEW c \in Chans, NEW cfg \in Configs, AddExisting(c, cfg)
        PROVE  RestTypeOK' /\ Calm
    <2>1. RestTypeOK'
      BY <1>0, <1>2 DEF AddExisting, Command, RestTypeOK, endVars, searchVars
    <2>2. \/ channel_states' = channel_states
          \/ channel_states' = [channel_states EXCEPT ![c] =
                                  Unassigning(channel_states[c].addr, cfg)]
      BY <1>2 DEF AddExisting, SetState
    <2>3. Unassigning(channel_states[c].addr, cfg).v \notin InLoop
      BY DEF Unassigning, ChannelState, InLoop
    <2>4. UNCHANGED <<find_ioc_queue_set, searches, shutdown_stopping>>
      BY <1>2 DEF AddExisting, endVars, searchVars
    <2>5. CASE channel_states' = channel_states
      BY <2>1, <2>4, <2>5, CalmStill, Zenon
    <2> QED
      BY <1>0, <2>1, <2>2, <2>3, <2>4, <2>5, CalmMove
  <1>3. ASSUME NEW S, HandleRemove(S), Command
        PROVE  RestTypeOK' /\ Calm
    <2>1. RestTypeOK'
      BY <1>0, <1>3 DEF HandleRemove, Command, RestTypeOK, endVars, searchVars
    <2>2. PICK rem : channel_states' = [c \in Chans |->
                IF c \in rem
                THEN ToRemove(IF Is(c, "WithAddress") THEN channel_states[c].addr
                              ELSE NoAddr)
                ELSE channel_states[c]]
      BY <1>3 DEF HandleRemove
    <2>3. \A a : ToRemove(a).v \notin InLoop
      BY DEF ToRemove, ChannelState, InLoop
    <2>4. UNCHANGED <<find_ioc_queue_set, searches, shutdown_stopping>>
      BY <1>3 DEF HandleRemove, endVars, searchVars
    <2>5. Calm
      BY <2>2, <2>3, <2>4 DEF Calm
    <2> QED
      BY <2>1, <2>5
  <1>4. CASE ConfigFlagReset
    BY <1>0, <1>4 DEF ConfigFlagReset, Command, RestTypeOK, Calm, endVars, searchVars
  <1>5. CASE Shutdown
    BY <1>0, <1>5 DEF Shutdown, RestTypeOK, Calm, chanVars, searchVars, ghostVars
  <1> QED
    BY <1>1, <1>2, <1>3, <1>4, <1>5
       DEF DaemonCommand, RemoveChannel, ConfigRemoveUnflagged

(* The steps of a connection task leave the channels of the set alone.     *)
LEMMA CalmConn ==
    ASSUME SearchInv, NEW a \in Addrs,
           \/ ConnTakesCommand(a) \/ ConnShutdown(a) \/ ConnEnd(a)
           \/ ConnStuck(a) \/ ConnError(a) \/ ConnReasonReplaced(a)
           \/ \E c \in Chans : ConnCreateFail(a, c)
           \/ ConnStatus(a)
    PROVE  RestTypeOK' /\ Calm
  <1>0. RestTypeOK /\ MaxFaults \in Nat
    BY ConnSetAssumption DEF SearchInv
  <1>1. /\ UNCHANGED <<chanVars, searchVars, await_jhs, shutdown_stopping,
                       stream_ended, ncmds>>
        /\ stuck' = stuck \/ stuck' = stuck \union {a}
        /\ \/ nfaults' = nfaults
           \/ nfaults < MaxFaults /\ nfaults' = nfaults + 1
    <2>1. CASE ConnTakesCommand(a)
      BY <2>1 DEF ConnTakesCommand, ghostVars, endVars
    <2>2. CASE ConnShutdown(a)
      BY <2>2 DEF ConnShutdown, TriggerShutdown
    <2>3. CASE ConnEnd(a)
      BY <2>3, Zenon DEF ConnEnd, TriggerShutdown, Fault
    <2>4. CASE ConnError(a)
      BY <2>4, Zenon DEF ConnError, Fault, endVars
    <2>5. CASE ConnReasonReplaced(a)
      BY <2>5, Zenon DEF ConnReasonReplaced, Fault, endVars
    <2>6. CASE \E c \in Chans : ConnCreateFail(a, c)
      BY <2>6, Zenon DEF ConnCreateFail, Fault, endVars
    <2>7. CASE ConnStatus(a)
      BY <2>7 DEF ConnStatus, endVars
    <2>8. CASE ConnStuck(a)
      BY <2>8, Zenon DEF ConnStuck, TriggerShutdown, Fault
    <2> QED
      BY <2>1, <2>2, <2>3, <2>4, <2>5, <2>6, <2>7, <2>8
  <1> QED
    BY <1>0, <1>1 DEF RestTypeOK, Calm, chanVars, searchVars

LEMMA CalmEvent ==
    ASSUME SearchInv, NEW a \in Addrs, HandleConnEvent(a)
    PROVE  RestTypeOK' /\ Calm
  <1>0. IInv /\ RestTypeOK
    BY DEF SearchInv
  <1>1. CASE HandleChannelRemoved(a)
    <2> DEFINE c == Head(evs[a]).name
    <2>1. touched' = touched \/ touched' = [touched EXCEPT ![c] = FALSE]
      BY <1>1 DEF HandleChannelRemoved
    <2>2. \/ channel_states' = channel_states
          \/ channel_states' = [channel_states EXCEPT ![c] = Absent]
          \/ channel_states' = [channel_states EXCEPT ![c] =
                                  WithAddress(channel_states[c].addr)]
      BY <1>1 DEF HandleChannelRemoved, AddWithAddr, SetState
    <2>3. UNCHANGED <<searchVars, endVars, ghostVars>>
      BY <1>1 DEF HandleChannelRemoved
    <2> HIDE DEF c
    <2>4. RestTypeOK'
      BY <1>0, <2>1, <2>3 DEF RestTypeOK, searchVars, endVars, ghostVars
    <2>5. /\ Absent.v \notin InLoop
          /\ WithAddress(channel_states[c].addr).v \notin InLoop
      BY DEF Absent, Plain, WithAddress, ChannelState, InLoop
    <2>6. UNCHANGED <<find_ioc_queue_set, searches, shutdown_stopping>>
      BY <2>3 DEF endVars, searchVars
    <2>7. CASE channel_states' = channel_states
      BY <2>4, <2>6, <2>7, CalmStill, Zenon
    <2> QED
      BY <1>0, <2>2, <2>4, <2>5, <2>6, <2>7, CalmMove
  <1>2. CASE HandleCreateFail(a)
    <2> DEFINE c == Head(evs[a]).name
    <2>1. \/ channel_states' = channel_states
          \/ channel_states' = [channel_states EXCEPT ![c] = Plain("MaybeWrongAddress")]
      BY <1>2 DEF HandleCreateFail, SetState
    <2>2. UNCHANGED <<touched, searchVars, endVars, ghostVars>>
      BY <1>2 DEF HandleCreateFail
    <2> HIDE DEF c
    <2>3. RestTypeOK'
      BY <1>0, <2>2 DEF RestTypeOK, searchVars, endVars, ghostVars
    <2>4. Plain("MaybeWrongAddress").v \notin InLoop
      BY DEF Plain, ChannelState, InLoop
    <2>5. UNCHANGED <<find_ioc_queue_set, searches, shutdown_stopping>>
      BY <2>2 DEF endVars, searchVars
    <2>6. CASE channel_states' = channel_states
      BY <2>3, <2>5, <2>6, CalmStill, Zenon
    <2> QED
      BY <1>0, <2>1, <2>3, <2>4, <2>5, <2>6, CalmMove
  <1>3. CASE HandleEos(a)
    <2>1. \A c \in Chans : \/ channel_states'[c] = channel_states[c]
                           \/ channel_states'[c] = Plain("MaybeWrongAddress")
      BY <1>3 DEF HandleEos
    <2>2. /\ UNCHANGED <<touched, searchVars, stuck, shutdown_stopping, stream_ended,
                        ghostVars>>
          /\ await_jhs' = await_jhs + 1
      BY <1>3 DEF HandleEos
    <2>3. RestTypeOK'
      BY <1>0, <2>2 DEF RestTypeOK, searchVars, ghostVars
    <2>4. Plain("MaybeWrongAddress").v \notin InLoop
      BY DEF Plain, ChannelState, InLoop
    <2>5. Calm
      BY <2>1, <2>2, <2>4 DEF Calm, searchVars
    <2> QED
      BY <2>3, <2>5
  <1> QED
    BY <1>1, <1>2, <1>3 DEF HandleConnEvent

(* The remaining steps leave the channels alone too.                       *)
LEMMA CalmRest ==
    ASSUME SearchInv,
           \/ \E c \in Chans : LookupError(c)
           \/ FinderDrop \/ JoinConn \/ EndStream \/ UNCHANGED vars
    PROVE  RestTypeOK' /\ Calm
  <1>0. RestTypeOK /\ MaxFaults \in Nat
    BY ConnSetAssumption DEF SearchInv
  <1>1. ASSUME NEW c \in Chans, LookupError(c) PROVE RestTypeOK' /\ Calm
    BY <1>0, <1>1 DEF LookupError, Fault, RestTypeOK, Calm, chanVars, endVars
  <1>2. CASE FinderDrop
    BY <1>0, <1>2 DEF FinderDrop, Fault, RestTypeOK, Calm, chanVars, endVars
  <1>3. CASE JoinConn
    BY <1>0, <1>3 DEF JoinConn, RestTypeOK, Calm, chanVars, searchVars, ghostVars
  <1>4. CASE EndStream
    BY <1>0, <1>4 DEF EndStream, RestTypeOK, Calm, chanVars, searchVars, ghostVars
  <1>5. CASE UNCHANGED vars
    BY <1>0, <1>5 DEF vars, RestTypeOK, Calm, chanVars, searchVars, ghostVars, endVars
  <1> QED
    BY <1>1, <1>2, <1>3, <1>4, <1>5
-----------------------------------------------------------------------------
(* handle_series_lookup_result: the first search of a channel.             *)
LEMMA LookupSearch ==
    ASSUME SearchInv, NEW c \in Chans, LookupResult(c)
    PROVE  RestTypeOK' /\ SearchNotForgotten'
  <1>0. IInv /\ RestTypeOK /\ SearchNotForgotten
    BY DEF SearchInv
  <1>1. /\ lookups' \in [Chans -> Nat]
        /\ UNCHANGED <<touched, find_ioc_queue_set, front_dropped, endVars, ghostVars>>
    BY <1>0 DEF LookupResult, RestTypeOK
  <1>2. CASE UNCHANGED <<channel_states, searches>>
    BY <1>0, <1>1, <1>2 DEF RestTypeOK, SearchNotForgotten, PlannedIsQueued,
       PendingIsSearched, Is, endVars, ghostVars
  <1>3. CASE /\ channel_states' = [channel_states EXCEPT ![c] = Plain("AddrSearchPending")]
             /\ searches' = Append(searches, c)
    <2>1. PICK s : s = searches /\ s \in Seq(Chans)
      BY <1>0 DEF RestTypeOK
    <2>2. /\ Append(s, c) \in Seq(Chans) /\ Len(Append(s, c)) = Len(s) + 1
          /\ \A i \in 1..Len(s) : Append(s, c)[i] = s[i]
          /\ Append(s, c)[Len(s) + 1] = c
      BY <2>1, AppendProperties
    <2>3. Range(searches') = Range(searches) \union {c}
      BY <1>3, <2>1, <2>2 DEF Range
    <2>4. RestTypeOK'
      BY <1>0, <1>1, <1>3, <2>1, <2>2 DEF RestTypeOK, endVars, ghostVars
    <2>5. Plain("AddrSearchPending").v = "AddrSearchPending"
      BY DEF Plain, ChannelState
    <2>6. \A d \in Chans : d # c => channel_states'[d] = channel_states[d]
      BY <1>3
    <2>7. channel_states'[c].v = "AddrSearchPending"
      BY <1>0, <1>3, <2>5 DEF IInv, StateTypeOK
    <2>8. SearchNotForgotten'
      BY <1>0, <1>1, <2>3, <2>6, <2>7 DEF SearchNotForgotten, PlannedIsQueued,
         PendingIsSearched, Is, endVars
    <2> QED
      BY <2>4, <2>8
  <1> QED
    BY <1>2, <1>3 DEF LookupResult, SetState

(* handle_ioc_query_result: the channel whose search is answered is no     *)
(* longer pending.                                                         *)
LEMMA ResultSearch ==
    ASSUME SearchInv, (\E a \in Addrs : IocFound(a)) \/ IocNotFound
    PROVE  RestTypeOK' /\ SearchNotForgotten'
  <1>0. IInv /\ RestTypeOK /\ SearchNotForgotten
    BY DEF SearchInv
  <1>1. PICK c : c = Head(searches)
    OBVIOUS
  <1>2. ResultAtFront
    BY DEF IocFound, IocNotFound
  <1>3. /\ searches # <<>> /\ searches' = Tail(searches)
        /\ UNCHANGED <<touched, lookups, find_ioc_queue_set, front_dropped,
                       endVars, ghostVars>>
    BY <1>2 DEF ResultAtFront
  <1>4. PICK s : s = searches /\ s \in Seq(Chans) /\ s # <<>>
    BY <1>0, <1>3 DEF RestTypeOK
  <1>5. /\ c \in Chans /\ Tail(s) \in Seq(Chans)
        /\ Range(s) \subseteq Range(Tail(s)) \union {c}
    <2>1. Len(Tail(s)) = Len(s) - 1 /\ \A i \in 1..Len(Tail(s)) : Tail(s)[i] = s[i + 1]
      BY <1>4
    <2>2. \A i \in 1..Len(s) : \/ i = 1
                               \/ i - 1 \in 1..Len(Tail(s)) /\ (i - 1) + 1 = i
      BY <1>4, <2>1
    <2>3. Tail(s) \in Seq(Chans) /\ c = s[1] /\ c \in Chans
      BY <1>1, <1>4
    <2>4. ASSUME NEW i \in 1..Len(s) PROVE s[i] \in Range(Tail(s)) \union {c}
      <3>1. DOMAIN Tail(s) = 1..Len(Tail(s))
        BY <2>3
      <3>2. CASE i = 1
        BY <2>3, <3>2
      <3>3. CASE i - 1 \in 1..Len(Tail(s)) /\ (i - 1) + 1 = i
        <4>1. Tail(s)[i - 1] = s[i]
          BY <2>1, <3>3
        <4> QED
          BY <3>1, <3>3, <4>1 DEF Range
      <3> QED
        BY <2>2, <3>2, <3>3
    <2>5. DOMAIN s = 1..Len(s)
      BY <1>4
    <2> QED
      BY <2>3, <2>4, <2>5 DEF Range
  <1>6. RestTypeOK'
    BY <1>0, <1>3, <1>4, <1>5 DEF RestTypeOK, endVars, ghostVars
  <1>7. ASSUME ~shutdown_stopping
        PROVE  /\ channel_states'[c].v \notin {"AddrSearchPending"}
               /\ channel_states'[c].v = "AddrSearchPlanned" =>
                     channel_states[c].v = "AddrSearchPlanned"
               /\ \A d \in Chans : d # c => channel_states'[d] = channel_states[d]
    <2>1. channel_states \in [Chans -> ChannelStates]
      BY <1>0 DEF IInv, StateTypeOK, ChannelStates
    <2>2. CASE \E a \in Addrs : IocFound(a)
      <3>1. PICK a \in Addrs : IocFound(a)
        BY <2>2
      <3>2. CASE c \in WithStatusSeriesId
        <4>1. channel_states' = [channel_states EXCEPT ![c] = WithAddress(a)]
          BY <1>1, <1>7, <3>1, <3>2 DEF IocFound, AddWithAddr, SetState
        <4> QED
          BY <1>5, <2>1, <4>1 DEF WithAddress, ChannelState
      <3>3. CASE c \notin WithStatusSeriesId
        <4>1. channel_states' = channel_states
          BY <1>1, <1>7, <3>1, <3>3 DEF IocFound
        <4> QED
          BY <1>5, <3>3, <4>1 DEF WithStatusSeriesId, Inner
      <3> QED
        BY <3>2, <3>3
    <2>3. CASE IocNotFound
      <3>1. CASE /\ c \in WithStatusSeriesId
                 /\ channel_states[c].v \notin {"UnknownAddress", "MaybeWrongAddress",
                                                "AddrSearchPlanned"}
        <4>1. channel_states' = [channel_states EXCEPT ![c] = Plain("UnknownAddress")]
          BY <1>1, <1>7, <2>3, <3>1 DEF IocNotFound, SetState
        <4> QED
          BY <1>5, <2>1, <4>1 DEF Plain, ChannelState
      <3>2. CASE \/ c \notin WithStatusSeriesId
                 \/ channel_states[c].v \in {"UnknownAddress", "MaybeWrongAddress",
                                             "AddrSearchPlanned"}
        <4>1. channel_states' = channel_states
          BY <1>1, <1>7, <2>3, <3>2 DEF IocNotFound
        <4> QED
          BY <1>5, <3>2, <4>1 DEF WithStatusSeriesId, Inner
      <3> QED
        BY <3>1, <3>2
    <2> QED
      BY <2>2, <2>3
  <1>8. SearchNotForgotten'
    BY <1>0, <1>3, <1>4, <1>5, <1>7 DEF SearchNotForgotten, PlannedIsQueued,
       PendingIsSearched, Is, endVars
  <1> QED
    BY <1>6, <1>8
-----------------------------------------------------------------------------
LEMMA SearchInit == Init => SearchInv
  <1> SUFFICES ASSUME Init PROVE SearchInv
    OBVIOUS
  <1>1. IInv
    BY InitInv
  <1>2. RestTypeOK
    <2>1. 0 \in 0..MaxCmds /\ 0 \in 0..MaxFaults
      BY ConnSetAssumption
    <2>2. touched \in [Chans -> BOOLEAN] /\ lookups \in [Chans -> Nat]
      BY DEF Init
    <2>3. find_ioc_queue_set \in Seq(Chans) /\ searches \in Seq(Chans)
      BY EmptySeq DEF Init
    <2>4. IsQueueSet(find_ioc_queue_set)
      BY DEF Init, IsQueueSet
    <2> QED
      BY <2>1, <2>2, <2>3, <2>4 DEF Init, RestTypeOK
  <1>3. SearchNotForgotten
    BY DEF Init, SearchNotForgotten, PlannedIsQueued, PendingIsSearched, Is,
       Absent, Plain, ChannelState
  <1> QED
    BY <1>1, <1>2, <1>3 DEF SearchInv

(* Every step preserves SearchInv.                                         *)
LEMMA SearchNext == SearchInv /\ [Next]_vars => SearchInv'
  <1> SUFFICES ASSUME SearchInv, [Next]_vars PROVE SearchInv'
    OBVIOUS
  <1>1. IInv'
    BY NextInv DEF SearchInv
  <1>2. \/ RestTypeOK' /\ Calm
        \/ RestTypeOK' /\ SearchNotForgotten'
    BY CalmCommand, CalmConn, CalmEvent, CalmRest, LookupSearch, ResultSearch,
       TickSearch DEF Next, StuckTick, Ended
  <1> QED
    BY <1>1, <1>2, CalmSearch DEF SearchInv

LEMMA SearchInvHolds == SafetySpec => []SearchInv
  BY SearchInit, SearchNext, PTL DEF SafetySpec

(* Every variable of the connection set keeps its type, and the search     *)
(* queue (QueueSet) never holds a channel twice, however often it is       *)
(* planned again while an old entry is still queued.                       *)
THEOREM TypeCorrect == SafetySpec => []TypeOK
  <1>1. SearchInv => TypeOK
    BY DEF SearchInv, RestTypeOK, IInv, NoHandlerError, TypeOK
  <1> QED
    BY <1>1, SearchInvHolds, PTL

(* check_channel_states forgets no channel: one that is planned is in the  *)
(* queue that the next tick serves, and one that is pending has its query  *)
(* with the finder.                                                        *)
THEOREM SearchIsNotForgotten == SafetySpec => []SearchNotForgotten
  <1>1. SearchInv => SearchNotForgotten
    BY DEF SearchInv
  <1> QED
    BY <1>1, SearchInvHolds, PTL

(* A step that searches a channel again is a tick.                         *)
LEMMA OnlyTickSearchesAgain ==
    ASSUME SearchInv, [Next]_vars, NEW d \in Chans, SearchesAgain(d)
    PROVE  \E fired \in SUBSET Chans : Tick(fired)
  <1>1. ASSUME Calm PROVE FALSE
    BY <1>1 DEF Calm, SearchesAgain, InLoop
  <1>2. ASSUME NEW c \in Chans, LookupResult(c) PROVE FALSE
    <2>1. \/ channel_states' = channel_states
          \/ /\ channel_states[c].v = "WaitForStatusSeriesId"
             /\ channel_states' =
                  [channel_states EXCEPT ![c] = Plain("AddrSearchPending")]
      BY <1>2 DEF LookupResult, SetState, Is
    <2>2. \A e \in Chans : e # c => channel_states'[e] = channel_states[e]
      BY <2>1 DEF SearchInv, IInv, StateTypeOK
    <2> QED
      BY <2>1, <2>2 DEF SearchesAgain
  <1>3. ASSUME (\E a \in Addrs : IocFound(a)) \/ IocNotFound PROVE FALSE
    <2>1. PICK c, a, v :
            \/ channel_states' = channel_states
            \/ channel_states' = [channel_states EXCEPT ![c] = WithAddress(a)]
            \/ channel_states' = [channel_states EXCEPT ![c] = Plain("UnknownAddress")]
      BY <1>3 DEF IocFound, IocNotFound, AddWithAddr, SetState
    <2>2. /\ WithAddress(a).v # "AddrSearchPending"
          /\ Plain("UnknownAddress").v # "AddrSearchPending"
      BY DEF WithAddress, Plain, ChannelState
    <2>3. channel_states \in [Chans -> ChannelStates]
      BY DEF SearchInv, IInv, StateTypeOK, ChannelStates
    <2> QED
      BY <2>1, <2>2, <2>3 DEF SearchesAgain
  <1> QED
    BY <1>1, <1>2, <1>3, CalmCommand, CalmConn, CalmEvent, CalmRest
       DEF Next, StuckTick, Ended

(* CURRENT_SEARCH_PENDING_MAX is respected, with any number of channels    *)
(* that wait: a step that searches a channel again leaves no more than     *)
(* that many searches pending.                                             *)
THEOREM SearchesAreLimited == SafetySpec => SearchLimit
  <1>1. SearchInv /\ [Next]_vars =>
          [ (\E c \in Chans : SearchesAgain(c)) =>
              Cardinality({c \in Chans : channel_states'[c].v = "AddrSearchPending"})
                 <= SearchPendingMax ]_vars
    BY OnlyTickSearchesAgain, TickLimit DEF SearchInv
  <1> QED
    BY <1>1, SearchInvHolds, PTL DEF SafetySpec, SearchLimit
=============================================================================
