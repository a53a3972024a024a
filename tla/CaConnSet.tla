------------------------------ MODULE CaConnSet -------------------------------
(***************************************************************************)
(* The connection set of the ingest daemon, daqbuf-netfetch/src/ca/        *)
(* connset.rs: one task that owns the state of every configured channel,   *)
(* looks up its status series, searches the IOC that serves it, opens one  *)
(* CaConn per IOC address and moves channels between connections when      *)
(* configuration changes, connections end or searches fail.                *)
(*                                                                         *)
(* The CaConn tasks (conn.rs) are modelled as the set sees them: commands  *)
(* in, events out.  The series lookup and the IOC finder are services that *)
(* answer.  Time is abstracted: a tick may find any timer elapsed.         *)
(*                                                                         *)
(* One action is one handler call of CaConnSet::poll_next, or one step of  *)
(* a CaConn.  The queues between them keep their order: commands to one    *)
(* connection, events of one connection, IOC searches (find_ioc_rxs is     *)
(* polled at its front only).                                              *)
(***************************************************************************)
EXTENDS Integers, Sequences, FiniteSets, Functions, Filter

CONSTANTS
    Chans, Addrs, Configs,
    SearchPendingMax,   \* CURRENT_SEARCH_PENDING_MAX
    Faults,             \* enabled kinds of faults
    MaxCmds,            \* bound: commands the daemon sends
    MaxFaults           \* bound: faults

FaultKinds == {"ConnEnd", "ConnError", "ConnStuck", "CreateFail", "Timeout",
               "LookupError", "FinderDrop"}

NoAddr == "NoAddr"
NoCfg == "NoCfg"

(* The text that CaConn puts into ChannelCreateFail.                       *)
FailText == "name and cid"

ASSUME ConnSetAssumption ==
    /\ IsFiniteSet(Chans) /\ FailText \notin Chans
    /\ IsFiniteSet(Addrs) /\ NoAddr \notin Addrs
    /\ IsFiniteSet(Configs) /\ NoCfg \notin Configs
    /\ SearchPendingMax \in Nat
    /\ Faults \subseteq FaultKinds
    /\ MaxCmds \in Nat /\ MaxFaults \in Nat

VARIABLES
    channel_states,     \* state of each channel, Absent if not in the map
    config, touched,    \* the other fields of ChannelState
    channel_by_cssid,   \* channels with a known status series
    lookups,            \* series lookups under way, per channel
    find_ioc_queue_set, \* channels waiting for a search slot
    searches,           \* find_ioc_query_queue and find_ioc_rxs
    front_dropped,      \* the finder dropped the query of the front receiver
    conn,               \* ca_conn_ress and the life of the CaConn task
    cmds,               \* cmd_queue and command channel of each connection
    held,               \* CaConn::channels with the config they run with
    evs,                \* events of each connection not yet handled
    conn_shutdown,      \* connections that were sent ConnCommand::Shutdown
    stuck,              \* connections in Shutdown whose stream never ends
    await_jhs,          \* length of await_ca_conn_jhs
    shutdown_stopping,
    stream_ended,       \* poll_next returned Ready(None)
    err,                \* first error that went out as CaConnSetItem::Error
    ncmds, nfaults      \* bounds

chanVars == <<channel_states, config, touched, channel_by_cssid>>
searchVars == <<lookups, find_ioc_queue_set, searches, front_dropped>>
connVars == <<conn, cmds, held, evs>>
endVars == <<conn_shutdown, stuck, await_jhs, shutdown_stopping, stream_ended>>
ghostVars == <<err, ncmds, nfaults>>
vars == <<chanVars, searchVars, connVars, endVars, ghostVars>>
-----------------------------------------------------------------------------
(* ActiveChannelState, WithStatusSeriesIdStateInner and ChannelStateValue. *)
Inner == {"AddrSearchPending", "WithAddress", "UnknownAddress", "NoAddress",
          "MaybeWrongAddress", "UnassigningForConfigChange",
          "AddrSearchPlanned"}
States == Inner \union {"Absent", "Init", "WaitForStatusSeriesId", "ToRemove"}

ChannelState(v, a, c) == [v |-> v, addr |-> a, config_new |-> c]
Plain(v) == ChannelState(v, NoAddr, NoCfg)
Absent == Plain("Absent")
WithAddress(a) == ChannelState("WithAddress", a, NoCfg)
Unassigning(a, cfg) == ChannelState("UnassigningForConfigChange", a, cfg)
ToRemove(a) == ChannelState("ToRemove", a, NoCfg)

Is(c, v) == channel_states[c].v = v
At(c, a) == channel_states[c] = WithAddress(a)
WithStatusSeriesId == {c \in Chans : channel_states[c].v \in Inner}

ConnCommand(k, c, cfg) == [k |-> k, ch |-> c, cfg |-> cfg]
ChannelAdd(c, cfg) == ConnCommand("ChannelAdd", c, cfg)
ChannelClose(c) == ConnCommand("ChannelClose", c, NoCfg)

(* ch is the channel an event is about, name what the event says.          *)
ConnEvent(k, c, n) == [k |-> k, ch |-> c, name |-> n]
ChannelRemoved(c) == ConnEvent("ChannelRemoved", c, c)
(* Mutant: the event carries the bare channel name, so that the set does   *)
(* search again, while the connection keeps the channel.                   *)
ChannelCreateFailByName(c) == ConnEvent("ChannelCreateFail", c, c)

ChannelCreateFail(c) == ConnEvent("ChannelCreateFail", c, FailText)
EndOfStream(reason) == ConnEvent("EndOfStream", FailText, reason)

(* channel_states is a BTreeMap: it is always iterated in one fixed order. *)
InOrder(S) ==
    CHOOSE s \in [1..Cardinality(S) -> S] : Range(s) = S

(* The channels in S closed, or reported as removed, one after the other.  *)
CloseAll(S) ==
    [i \in 1..Cardinality(S) |-> ChannelClose(InOrder(S)[i])]
RemovedAll(S) ==
    [i \in 1..Cardinality(S) |-> ChannelRemoved(InOrder(S)[i])]

Push(q, a, item) == [q EXCEPT ![a] = Append(@, item)]

Commands ==
    [k : {"ChannelAdd", "ChannelClose"}, ch : Chans,
     cfg : Configs \union {NoCfg}]
Events ==
    [k : {"ChannelRemoved", "ChannelCreateFail", "EndOfStream"},
     ch : Chans \union {FailText},
     name : Chans \union {FailText, "OnCommand", "Failed"}]

StateTypeOK ==
    /\ channel_states \in [Chans -> [v : States, addr : Addrs \union {NoAddr},
                                     config_new : Configs \union {NoCfg}]]
    /\ config \in [Chans -> Configs \union {NoCfg}]
    /\ channel_by_cssid \subseteq Chans
    /\ conn \in [Addrs -> {"none", "up", "ended"}]
    /\ cmds \in [Addrs -> Seq(Commands)]
    /\ held \in [Addrs -> [Chans -> Configs \union {NoCfg}]]
    /\ evs \in [Addrs -> Seq(Events)]
    /\ conn_shutdown \subseteq Addrs
    /\ shutdown_stopping \in BOOLEAN

(* A QueueSet holds no name twice.                                         *)
IsQueueSet(q) == \A i, j \in 1..Len(q) : q[i] = q[j] => i = j

TypeOK ==
    /\ StateTypeOK
    /\ touched \in [Chans -> BOOLEAN]
    /\ lookups \in [Chans -> Nat]
    /\ find_ioc_queue_set \in Seq(Chans) /\ searches \in Seq(Chans)
    /\ IsQueueSet(find_ioc_queue_set)
    /\ front_dropped \in BOOLEAN
    /\ stuck \subseteq Addrs /\ await_jhs \in Nat
    /\ stream_ended \in BOOLEAN
    /\ err \in {"none", "ChannelAssignedWithoutConnRess", "UnknownCssid"}
    /\ ncmds \in 0..MaxCmds /\ nfaults \in 0..MaxFaults

NothingHeld == [c \in Chans |-> NoCfg]

Init ==
    /\ channel_states = [c \in Chans |-> Absent]
    /\ config = [c \in Chans |-> NoCfg]
    /\ touched = [c \in Chans |-> FALSE]
    /\ channel_by_cssid = {}
    /\ lookups = [c \in Chans |-> 0]
    /\ find_ioc_queue_set = <<>> /\ searches = <<>> /\ front_dropped = FALSE
    /\ conn = [a \in Addrs |-> "none"]
    /\ cmds = [a \in Addrs |-> <<>>]
    /\ held = [a \in Addrs |-> NothingHeld]
    /\ evs = [a \in Addrs |-> <<>>]
    /\ conn_shutdown = {} /\ stuck = {} /\ await_jhs = 0
    /\ shutdown_stopping = FALSE /\ stream_ended = FALSE
    /\ err = "none"
    /\ ncmds = 0 /\ nfaults = 0

Fault(k) ==
    /\ k \in Faults /\ nfaults < MaxFaults
    /\ nfaults' = nfaults + 1

Raise(e) == err' = IF err = "none" THEN e ELSE err
-----------------------------------------------------------------------------
(* Commands of the daemon (handle_event).  After shutdown they return      *)
(* early (only the touched flags, then unused, may still be cleared).      *)
Command ==
    /\ ~shutdown_stopping
    /\ ncmds < MaxCmds
    /\ ncmds' = ncmds + 1

SetState(c, s) == channel_states' = [channel_states EXCEPT ![c] = s]

(* handle_add_channel_new.                                                 *)
AddNew(c, cfg) ==
    /\ Command
    /\ Is(c, "Absent")
    /\ SetState(c, Plain("WaitForStatusSeriesId"))
    /\ config' = [config EXCEPT ![c] = cfg]
    /\ touched' = [touched EXCEPT ![c] = TRUE]
    /\ lookups' = [lookups EXCEPT ![c] = @ + 1]
    /\ UNCHANGED <<channel_by_cssid, find_ioc_queue_set, searches,
                   front_dropped, connVars, endVars, err, nfaults>>

(* handle_add_channel_existing: the channel of an assigned connection is   *)
(* closed there first, everybody else just takes the new configuration.    *)
AddExisting(c, cfg) ==
    LET st == channel_states[c] IN
    /\ Command
    /\ ~Is(c, "Absent")
    /\ touched' = [touched EXCEPT ![c] = TRUE]
    /\ \/ /\ cfg = config[c]
          /\ UNCHANGED <<channel_states, config, cmds, err>>
       \/ /\ cfg # config[c]
          /\ Is(c, "WithAddress") /\ conn[st.addr] # "none"
          /\ SetState(c, Unassigning(st.addr, cfg))
          /\ cmds' = Push(cmds, st.addr, ChannelClose(c))
          /\ UNCHANGED <<config, err>>
       \/ /\ cfg # config[c]
          /\ Is(c, "WithAddress") /\ conn[st.addr] = "none"
          /\ Raise("ChannelAssignedWithoutConnRess")
          /\ UNCHANGED <<channel_states, config, cmds>>
       \/ /\ cfg # config[c]
          /\ Is(c, "UnassigningForConfigChange")
          /\ SetState(c, Unassigning(st.addr, cfg))
          /\ UNCHANGED <<config, cmds, err>>
       \/ /\ cfg # config[c]
          /\ st.v \notin {"WithAddress", "UnassigningForConfigChange"}
          /\ config' = [config EXCEPT ![c] = cfg]
          /\ UNCHANGED <<channel_states, cmds, err>>
    /\ UNCHANGED <<channel_by_cssid, searchVars, conn, held, evs, endVars,
                   nfaults>>

(* handle_remove_channel for the channels in S, in map order up to the     *)
(* first that fails.                                                       *)
RemoveFails(c) ==
    Is(c, "WithAddress") /\ conn[channel_states[c].addr] = "none"

Removable(S) ==
    LET ord == InOrder({c \in S : channel_states[c].v \notin
                                    {"Absent", "ToRemove"}})
    IN  {ord[i] : i \in {n \in 1..Len(ord) :
                           \A m \in 1..n : ~RemoveFails(ord[m])}}

HandleRemove(S) ==
    LET rem == Removable(S) IN
    /\ channel_states' = [c \in Chans |->
         IF c \in rem
         THEN ToRemove(IF Is(c, "WithAddress") THEN channel_states[c].addr
                       ELSE NoAddr)
         ELSE channel_states[c]]
    /\ cmds' = [a \in Addrs |-> cmds[a] \o CloseAll({c \in rem : At(c, a)})]
    /\ IF \E c \in S : RemoveFails(c)
       THEN Raise("ChannelAssignedWithoutConnRess") ELSE err' = err
    /\ UNCHANGED <<config, touched, channel_by_cssid, searchVars, conn, held,
                   evs, endVars, nfaults>>

RemoveChannel(c) ==
    /\ Command
    /\ HandleRemove({c})

(* The two markers around the channel-add commands of a config reload.     *)
ConfigFlagReset ==
    /\ Command
    /\ touched' = [c \in Chans |-> FALSE]
    /\ UNCHANGED <<channel_states, config, channel_by_cssid, searchVars,
                   connVars, endVars, err, nfaults>>

ConfigRemoveUnflagged ==
    /\ Command
    /\ HandleRemove({c \in Chans : ~Is(c, "Absent") /\ ~touched[c]})

(* Mutant: the connections are not told.                                   *)
ShutdownTellsNobody ==
    /\ ~shutdown_stopping
    /\ shutdown_stopping' = TRUE
    /\ UNCHANGED <<chanVars, searchVars, connVars, conn_shutdown, stuck,
                   await_jhs, stream_ended, ghostVars>>

(* Every connection is told through a cloned sender: the command does not  *)
(* wait behind those in cmd_queue.                                         *)
Shutdown ==
    /\ ~shutdown_stopping
    /\ shutdown_stopping' = TRUE
    /\ conn_shutdown' = {a \in Addrs : conn[a] # "none"}
    /\ UNCHANGED <<chanVars, searchVars, connVars, stuck, await_jhs,
                   stream_ended, ghostVars>>
-----------------------------------------------------------------------------
(* Mutant: the channel is not entered into channel_by_cssid.               *)
LookupResultNoCssid(c) ==
    /\ lookups[c] > 0
    /\ lookups' = [lookups EXCEPT ![c] = @ - 1]
    /\ IF ~shutdown_stopping /\ Is(c, "WaitForStatusSeriesId")
       THEN /\ SetState(c, Plain("AddrSearchPending"))
            /\ searches' = Append(searches, c)
       ELSE UNCHANGED <<channel_states, searches>>
    /\ UNCHANGED <<config, touched, channel_by_cssid, find_ioc_queue_set,
                   front_dropped, connVars, endVars, ghostVars>>

(* handle_series_lookup_result; a channel leaves WaitForStatusSeriesId and *)
(* its first IOC search is issued.                                         *)
LookupResult(c) ==
    /\ lookups[c] > 0
    /\ lookups' = [lookups EXCEPT ![c] = @ - 1]
    /\ IF shutdown_stopping \/ Is(c, "Absent")
       THEN UNCHANGED <<channel_states, channel_by_cssid, searches>>
       ELSE /\ channel_by_cssid' = channel_by_cssid \union {c}
            /\ IF Is(c, "WaitForStatusSeriesId")
               THEN /\ SetState(c, Plain("AddrSearchPending"))
                    /\ searches' = Append(searches, c)
               ELSE UNCHANGED <<channel_states, searches>>
    /\ UNCHANGED <<config, touched, find_ioc_queue_set, front_dropped, connVars,
                   endVars, ghostVars>>

(* The lookup failed: "TODO handle error".                                 *)
LookupError(c) ==
    /\ Fault("LookupError")
    /\ lookups[c] > 0
    /\ lookups' = [lookups EXCEPT ![c] = @ - 1]
    /\ UNCHANGED <<chanVars, find_ioc_queue_set, searches, front_dropped,
                   connVars, endVars, err, ncmds>>

(* handle_add_channel_with_addr and create_ca_conn.                        *)
AddWithAddr(c, a, cfg) ==
    /\ SetState(c, WithAddress(a))
    /\ conn' = [conn EXCEPT ![a] = IF @ = "none" THEN "up" ELSE @]
    /\ cmds' = Push(cmds, a, ChannelAdd(c, cfg))

(* handle_ioc_query_result for the query at the front.                     *)
ResultAtFront ==
    /\ searches # <<>> /\ ~front_dropped
    /\ searches' = Tail(searches)
    /\ UNCHANGED <<config, touched, channel_by_cssid, lookups,
                   find_ioc_queue_set, front_dropped, held, evs, endVars,
                   ghostVars>>

IocFound(a) ==
    LET c == Head(searches) IN
    /\ ResultAtFront
    /\ IF ~shutdown_stopping /\ c \in WithStatusSeriesId
       THEN AddWithAddr(c, a, config[c])
       ELSE UNCHANGED <<channel_states, conn, cmds>>

(* Mutant: search again at once, without queueing for a search slot.       *)
IocNotFoundPlansDirectly ==
    LET c == Head(searches) IN
    /\ ResultAtFront
    /\ IF ~shutdown_stopping /\ c \in WithStatusSeriesId
       THEN SetState(c, Plain("AddrSearchPlanned"))
       ELSE UNCHANGED channel_states
    /\ UNCHANGED <<conn, cmds>>

IocNotFound ==
    LET c == Head(searches) IN
    /\ ResultAtFront
    /\ IF /\ ~shutdown_stopping /\ c \in WithStatusSeriesId
          /\ channel_states[c].v \notin {"UnknownAddress", "MaybeWrongAddress",
                                         "AddrSearchPlanned"}
       THEN SetState(c, Plain("UnknownAddress"))
       ELSE UNCHANGED channel_states
    /\ UNCHANGED <<conn, cmds>>

(* finder_worker_single throws a batch away when its database query fails; *)
(* the receiver then yields None, which poll_next leaves at the front.     *)
FinderDrop ==
    /\ Fault("FinderDrop")
    /\ searches # <<>> /\ ~front_dropped
    /\ front_dropped' = TRUE
    /\ UNCHANGED <<chanVars, lookups, find_ioc_queue_set, searches, connVars,
                   endVars, err, ncmds>>
-----------------------------------------------------------------------------
(* The ticker: handle_check_health, check_channel_states.  fired are the   *)
(* channels whose timer has elapsed.                                       *)
Adverse == {"WaitForStatusSeriesId", "AddrSearchPending", "WithAddress"}

(* Mutant: MaybeWrongAddress is never left.                                *)
TimerStateMaybeWrongStays(c) ==
    LET v == channel_states[c].v IN
    Plain(CASE v = "WaitForStatusSeriesId" -> "Init"
            [] v = "AddrSearchPending" -> "NoAddress"
            [] v = "NoAddress" -> "UnknownAddress"
            [] v = "UnknownAddress" -> "AddrSearchPlanned"
            [] v \in {"WithAddress", "MaybeWrongAddress"} -> "MaybeWrongAddress")

TimerState(c) ==
    LET v == channel_states[c].v IN
    Plain(CASE v = "WaitForStatusSeriesId" -> "Init"
            [] v = "UnknownAddress" -> "AddrSearchPlanned"
            [] v = "AddrSearchPending" -> "NoAddress"
            [] v = "WithAddress" -> "MaybeWrongAddress"
            [] v = "NoAddress" -> "UnknownAddress"
            [] v = "MaybeWrongAddress" -> "AddrSearchPlanned")

HasTimer(c) ==
    channel_states[c].v \in Adverse \union
        {"UnknownAddress", "NoAddress", "MaybeWrongAddress"}

(* Mutant: the limit is compared with > instead of >=.                     *)
SearchSlotsOneMore(sts, q) ==
    LET pending == Cardinality({c \in Chans : sts[c].v = "AddrSearchPending"})
        issued(n) == Cardinality({i \in 1..n : sts[q[i]].v \in Inner})
    IN  CHOOSE n \in 0..Len(q) :
          /\ n = Len(q) \/ pending + issued(n) > SearchPendingMax
          /\ \A m \in 0..(n-1) : pending + issued(m) <= SearchPendingMax

(* Mutant: the set that goes with the queue is not asked.                  *)
PushAgain(q, S) == q \o InOrder(S)

(* QueueSet::push_back of the names in S, one after the other.             *)
PushBack(q, S) == q \o InOrder(S \ Range(q))

(* The number of entries the search loop pops from queue q: it stops at    *)
(* the limit, entries of channels that are gone do not count.              *)
SearchSlots(sts, q) ==
    LET pending == Cardinality({c \in Chans : sts[c].v = "AddrSearchPending"})
        issued(n) == Cardinality({i \in 1..n : sts[q[i]].v \in Inner})
    IN  CHOOSE n \in 0..Len(q) :
          /\ n = Len(q) \/ pending + issued(n) >= SearchPendingMax
          /\ \A m \in 0..(n-1) : pending + issued(m) < SearchPendingMax

Tick(fired) ==
    LET sts1   == [c \in Chans |-> IF c \in fired THEN TimerState(c)
                                   ELSE channel_states[c]]
        new    == {c \in fired : sts1[c].v = "AddrSearchPlanned"}
        q      == PushBack(find_ioc_queue_set, new)
        n      == SearchSlots(sts1, q)
        issue  == {c \in Range(SubSeq(q, 1, n)) : sts1[c].v \in Inner}
        sick   == {c \in fired : Is(c, "WithAddress")}
        adverse ==
          Cardinality({c \in fired : channel_states[c].v \in Adverse})
    IN
    /\ ~shutdown_stopping
    /\ \A c \in fired : HasTimer(c)
    /\ channel_states' = [c \in Chans |->
         IF c \in sick THEN ToRemove(NoAddr)
         ELSE IF c \in issue THEN Plain("AddrSearchPending")
         ELSE sts1[c]]
    /\ find_ioc_queue_set' = SubSeq(q, n + 1, Len(q))
    /\ searches' =
         searches \o Keep(SubSeq(q, 1, n), issue)
    /\ cmds' = [a \in Addrs |->
         IF conn[a] = "none" THEN cmds[a]
         ELSE cmds[a] \o CloseAll({c \in sick : At(c, a)})]
    /\ adverse > 0 => "Timeout" \in Faults
    /\ nfaults + adverse <= MaxFaults
    /\ nfaults' = nfaults + adverse
    /\ UNCHANGED <<config, touched, channel_by_cssid, lookups, front_dropped,
                   conn, held, evs, endVars, err, ncmds>>
-----------------------------------------------------------------------------
(* The CaConn task of address a.                                           *)

(* handle_conn_command.  A name that is there already is not added again,  *)
(* a name that is not there is not reported as removed.                    *)
ConnTakesCommand(a) ==
    LET cmd == Head(cmds[a]) IN
    /\ conn[a] = "up" /\ cmds[a] # <<>>
    /\ cmds' = [cmds EXCEPT ![a] = Tail(@)]
    /\ IF cmd.k = "ChannelAdd"
       THEN /\ held' = IF held[a][cmd.ch] = NoCfg
                       THEN [held EXCEPT ![a][cmd.ch] = cmd.cfg] ELSE held
            /\ evs' = evs
       ELSE /\ held' = [held EXCEPT ![a][cmd.ch] = NoCfg]
            /\ evs' = IF held[a][cmd.ch] # NoCfg
                      THEN Push(evs, a, ChannelRemoved(cmd.ch)) ELSE evs
    /\ UNCHANGED <<chanVars, searchVars, conn, endVars, ghostVars>>

(* trigger_shutdown closes every channel, the events go out, then the end  *)
(* of the stream with the reason.  Commands are no longer taken.           *)
TriggerShutdown(a, reason) ==
    /\ conn[a] = "up"
    /\ conn' = [conn EXCEPT ![a] = "ended"]
    /\ held' = [held EXCEPT ![a] = NothingHeld]
    /\ evs' = [evs EXCEPT ![a] =
         Append(@ \o RemovedAll({c \in Chans : held[a][c] # NoCfg}),
                EndOfStream(reason))]
    /\ UNCHANGED <<chanVars, searchVars, cmds, conn_shutdown, await_jhs,
                   shutdown_stopping, stream_ended, err, ncmds>>

(* The command is taken and the stream gets to its end: the connection     *)
(* writes out what it has queued.                                          *)
ConnShutdown(a) ==
    /\ a \in conn_shutdown
    /\ TriggerShutdown(a, "OnCommand")
    /\ UNCHANGED <<stuck, nfaults>>

(* A shutdown, for whatever reason, that does not end: a channel closed    *)
(* before is still counted in init_state_count, so every tick fails for    *)
(* the protocol that is gone (check_channels_state_init, poll_own_ticker). *)
(* The events go out, but EndOfStream is sent on to the set when the       *)
(* stream is over (ca_conn_item_merge_inner), which it never is.           *)
ConnStuck(a) ==
    /\ Fault("ConnStuck")
    /\ TriggerShutdown(a, "Failed")
    /\ stuck' = stuck \union {a}

(* The next tick fails alike.                                              *)
StuckTick(a) == a \in stuck /\ UNCHANGED vars

(* Connect refused or timed out, closed by the IOC, IO or protocol error.  *)
ConnEnd(a) ==
    /\ Fault("ConnEnd")
    /\ TriggerShutdown(a, "Failed")
    /\ UNCHANGED stuck

(* loop_inner returns an error: events still in ca_conn_event_out_queue    *)
(* are lost, no channel is closed.                                         *)
ConnError(a) ==
    /\ Fault("ConnError")
    /\ conn[a] = "up"
    /\ conn' = [conn EXCEPT ![a] = "ended"]
    /\ held' = [held EXCEPT ![a] = NothingHeld]
    /\ \E n \in 0..Len(evs[a]) :
         evs' = [evs EXCEPT ![a] =
                   Append(SubSeq(@, 1, n), EndOfStream("Failed"))]
    /\ UNCHANGED <<chanVars, searchVars, cmds, endVars, err, ncmds>>

(* A connection that still writes out its queues fails in a tick: the      *)
(* reason of its end is replaced.                                          *)
ConnReasonReplaced(a) ==
    /\ Fault("ConnEnd")
    /\ conn[a] = "ended" /\ evs[a] # <<>>
    /\ evs' = [evs EXCEPT ![a] =
                 Append(SubSeq(@, 1, Len(@) - 1), EndOfStream("Failed"))]
    /\ UNCHANGED <<chanVars, searchVars, conn, cmds, held, endVars, err, ncmds>>

(* The IOC answers CreateChanFail; the channel stays in CaConn::channels.  *)
ConnCreateFail(a, c) ==
    /\ Fault("CreateFail")
    /\ conn[a] = "up" /\ held[a][c] # NoCfg
    /\ evs' = Push(evs, a, ChannelCreateFail(c))
    /\ UNCHANGED <<chanVars, searchVars, conn, cmds, held, endVars, err, ncmds>>

(* The health update of a connection, apply_ca_conn_health_update: apart   *)
(* from the time stamps it can only fail.                                  *)
ConnStatus(a) ==
    /\ conn[a] = "up"
    /\ \E c \in Chans : held[a][c] # NoCfg
    /\ IF \A c \in Chans : held[a][c] # NoCfg => c \in channel_by_cssid
       THEN err' = err ELSE Raise("UnknownCssid")
    /\ UNCHANGED <<chanVars, searchVars, connVars, endVars, ncmds, nfaults>>
-----------------------------------------------------------------------------
(* handle_ca_conn_event.                                                   *)
NextEvent(a, k) ==
    /\ evs[a] # <<>> /\ Head(evs[a]).k = k
    /\ evs' = [evs EXCEPT ![a] = Tail(@)]

(* Mutant: the channel is added again with the configuration it had.       *)
ReaddOldConfig(c) == config[c]

(* ... with the one that it was closed for.                                *)
ReaddConfig(c) == channel_states[c].config_new

(* handle_ca_conn_channel_removed; the address is not compared.            *)
HandleChannelRemoved(a) ==
    LET c  == Head(evs[a]).name
        st == channel_states[c]
    IN
    /\ NextEvent(a, "ChannelRemoved")
    /\ \/ /\ Is(c, "UnassigningForConfigChange")
          /\ config' = [config EXCEPT ![c] = st.config_new]
          /\ touched' = touched
          /\ IF shutdown_stopping
             THEN UNCHANGED <<channel_states, conn, cmds>>
             ELSE AddWithAddr(c, st.addr, ReaddConfig(c))
       \/ /\ Is(c, "ToRemove")
          /\ SetState(c, Absent)
          /\ config' = [config EXCEPT ![c] = NoCfg]
          /\ touched' = [touched EXCEPT ![c] = FALSE]
          /\ UNCHANGED <<conn, cmds>>
       \/ /\ st.v \notin {"UnassigningForConfigChange", "ToRemove"}
          /\ UNCHANGED <<channel_states, config, touched, conn, cmds>>
    /\ UNCHANGED <<channel_by_cssid, searchVars, held, endVars, ghostVars>>

(* handle_channel_create_fail looks up the text it got as a name.          *)
HandleCreateFail(a) ==
    LET n == Head(evs[a]).name IN
    /\ NextEvent(a, "ChannelCreateFail")
    /\ IF n \in WithStatusSeriesId
       THEN SetState(n, Plain("MaybeWrongAddress"))
       ELSE UNCHANGED channel_states
    /\ UNCHANGED <<config, touched, channel_by_cssid, searchVars, conn, cmds,
                   held, endVars, ghostVars>>

(* Mutant: the channels stay assigned whatever the reason is.              *)
HandleEosKeepsAssigned(a) ==
    /\ NextEvent(a, "EndOfStream") /\ a \notin stuck
    /\ conn' = [conn EXCEPT ![a] = "none"]
    /\ cmds' = [cmds EXCEPT ![a] = <<>>]
    /\ await_jhs' = await_jhs + 1
    /\ conn_shutdown' = conn_shutdown \ {a}
    /\ UNCHANGED <<chanVars, searchVars, held, stuck, shutdown_stopping,
                   stream_ended, ghostVars>>

(* handle_ca_conn_eos; after a shutdown command the channels stay as they  *)
(* are.                                                                    *)
HandleEos(a) ==
    /\ NextEvent(a, "EndOfStream") /\ a \notin stuck
    /\ conn' = [conn EXCEPT ![a] = "none"]
    /\ cmds' = [cmds EXCEPT ![a] = <<>>]
    /\ await_jhs' = await_jhs + 1
    /\ conn_shutdown' = conn_shutdown \ {a}
    /\ channel_states' = [c \in Chans |->
         IF At(c, a) /\ Head(evs[a]).name # "OnCommand"
         THEN Plain("MaybeWrongAddress") ELSE channel_states[c]]
    /\ UNCHANGED <<config, touched, channel_by_cssid, searchVars, held, stuck,
                   shutdown_stopping, stream_ended, ghostVars>>

(* A finished CaConn task is joined.                                       *)
JoinConn ==
    /\ await_jhs > 0
    /\ await_jhs' = await_jhs - 1
    /\ UNCHANGED <<chanVars, searchVars, connVars, conn_shutdown, stuck,
                   shutdown_stopping, stream_ended, ghostVars>>

(* ready_for_end_of_stream, the last poll.                                 *)
EndStream ==
    /\ shutdown_stopping /\ ~stream_ended
    /\ \A a \in Addrs : conn[a] = "none"
    /\ await_jhs = 0
    /\ stream_ended' = TRUE
    /\ UNCHANGED <<chanVars, searchVars, connVars, conn_shutdown, stuck,
                   await_jhs, shutdown_stopping, ghostVars>>

Ended == stream_ended /\ UNCHANGED vars
-----------------------------------------------------------------------------
HandleConnEvent(a) ==
    HandleChannelRemoved(a) \/ HandleCreateFail(a) \/ HandleEos(a)

DaemonCommand ==
    \/ \E c \in Chans, cfg \in Configs : AddNew(c, cfg) \/ AddExisting(c, cfg)
    \/ \E c \in Chans : RemoveChannel(c)
    \/ ConfigFlagReset
    \/ ConfigRemoveUnflagged
    \/ Shutdown

Next ==
    \/ DaemonCommand
    \/ \E c \in Chans : LookupResult(c) \/ LookupError(c)
    \/ \E a \in Addrs : IocFound(a)
    \/ IocNotFound
    \/ FinderDrop
    \/ \E fired \in SUBSET Chans : Tick(fired)
    \/ \E a \in Addrs :
         \/ ConnTakesCommand(a)
         \/ ConnShutdown(a)
         \/ ConnEnd(a)
         \/ ConnError(a)
         \/ ConnStuck(a) \/ StuckTick(a)
         \/ ConnReasonReplaced(a)
         \/ \E c \in Chans : ConnCreateFail(a, c)
         \/ ConnStatus(a)
         \/ HandleConnEvent(a)
    \/ JoinConn
    \/ EndStream
    \/ Ended

(* Timers that elapse in the normal course of a search.                    *)
BenignTick(fired) ==
    /\ \A c \in fired : channel_states[c].v \notin Adverse
    /\ Tick(fired)

(* The set polls all its queues and its ticker, a connection its commands; *)
(* the lookup and the finder answer, and the finder finds the IOC of a     *)
(* channel that is searched over and over.  Faults are never forced.       *)
Fairness ==
    /\ \A c \in Chans :
         /\ WF_vars(LookupResult(c))
         /\ WF_vars(\E fired \in SUBSET Chans : c \in fired /\ BenignTick(fired))
         /\ SF_vars(searches # <<>> /\ Head(searches) = c
                      /\ \E a \in Addrs : IocFound(a))
    /\ WF_vars(Tick({}))
    /\ WF_vars(IocNotFound)
    /\ \A a \in Addrs :
         /\ WF_vars(ConnTakesCommand(a))
         /\ WF_vars(ConnShutdown(a))
         /\ WF_vars(HandleConnEvent(a))
    /\ WF_vars(JoinConn)
    /\ WF_vars(EndStream)

SafetySpec == Init /\ [][Next]_vars
Spec == SafetySpec /\ Fairness
-----------------------------------------------------------------------------
(* No handler fails: a channel that is assigned to an address always finds *)
(* the connection there (ChannelAssignedWithoutConnRess), a health update  *)
(* always finds the channel (UnknownCssid), in whatever order connections  *)
(* end and channels come and go.                                           *)
AssignedHasConn ==
    \A c \in Chans, a \in Addrs :
        At(c, a) /\ ~shutdown_stopping => conn[a] # "none"
NoHandlerError == err = "none"

(* No search is forgotten: a channel that waits for a search slot is in    *)
(* the queue that the tick serves, and a channel in AddrSearchPending has  *)
(* a query under way.  Either would wait forever otherwise (a pending one  *)
(* until its timeout).                                                     *)
PlannedIsQueued ==
    \A c \in Chans :
        Is(c, "AddrSearchPlanned") => c \in Range(find_ioc_queue_set)
PendingIsSearched ==
    \A c \in Chans : Is(c, "AddrSearchPending") => c \in Range(searches)
SearchNotForgotten ==
    ~shutdown_stopping => PlannedIsQueued /\ PendingIsSearched

(* A channel is never collected by two connections at once, and the        *)
(* connection it is assigned to, once it has taken its commands, runs it   *)
(* with the current configuration.  Both hold without "Timeout" faults     *)
(* only: after a search timeout the late answer and the answer of the      *)
(* second search assign the channel twice.                                 *)
OneHolder ==
    \A c \in Chans, a, b \in Addrs :
        held[a][c] # NoCfg /\ held[b][c] # NoCfg => a = b
HeldAsConfigured ==
    \A c \in Chans, a \in Addrs :
        At(c, a) /\ conn[a] = "up" /\ cmds[a] = <<>> => held[a][c] = config[c]

(* The search loop respects CURRENT_SEARCH_PENDING_MAX: after a step that  *)
(* searches a channel again, whatever state the channel was in, no more    *)
(* than that many searches are pending.  Only the first search of a        *)
(* channel, which follows its series lookup, does not wait for a slot.     *)
SearchesAgain(c) ==
    /\ channel_states[c].v \notin {"AddrSearchPending", "WaitForStatusSeriesId"}
    /\ channel_states'[c].v = "AddrSearchPending"
SearchLimit ==
    [][ (\E c \in Chans : SearchesAgain(c)) =>
          Cardinality({c \in Chans : channel_states'[c].v = "AddrSearchPending"})
             <= SearchPendingMax ]_vars

(* After the shutdown command the stream of the set ends: every connection *)
(* is told, ends and is joined, also one that dies meanwhile.  If one      *)
(* hangs in its own shutdown (ConnStuck) all the others still end; for     *)
(* that one the set waits forever, it has no timeout.                      *)
OthersEnded ==
    stuck # {} /\ \A a \in Addrs \ stuck : conn[a] = "none"
ShutdownEnds == shutdown_stopping ~> (stream_ended \/ OthersEnded)

(* A channel whose IOC is not known, or whose connection failed, is        *)
(* searched until it is assigned again (or removed, or all is shut down).  *)
Searching ==
    {"AddrSearchPending", "UnknownAddress", "NoAddress", "MaybeWrongAddress",
     "AddrSearchPlanned"}
SearchResolved ==
    \A c \in Chans :
        channel_states[c].v \in Searching ~>
            (channel_states[c].v \in {"WithAddress", "ToRemove"}
              \/ shutdown_stopping)

(* conn.rs, CreateChanFail: "The channel status must be "Fail" so that     *)
(* ConnSet can decide to re-search": the event makes the set suspect the   *)
(* address.                                                                *)
CreateFailSuspectsAddress ==
    [][ \A a \in Addrs, c \in Chans :
          /\ evs[a] # <<>> /\ evs'[a] = Tail(evs[a])
          /\ Head(evs[a]) = ChannelCreateFail(c)
          /\ c \in WithStatusSeriesId
          => channel_states'[c].v = "MaybeWrongAddress" ]_vars

(* connset.rs, try_push_ca_conn_cmds, on a command that could not be sent: *)
(* "Should be nothing to do here. The connection ended, which CaConnSet    *)
(* notices anyway."  So no channel may stay in UnassigningForConfigChange  *)
(* for a connection that is gone.                                          *)
ClosedConnIsNoticed ==
    \A c \in Chans :
        Is(c, "UnassigningForConfigChange") /\ ~shutdown_stopping =>
            conn[channel_states[c].addr] # "none"
=============================================================================
