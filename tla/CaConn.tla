-------------------------------- MODULE CaConn --------------------------------
(***************************************************************************)
(* One Channel Access connection, daqbuf-netfetch/src/ca/conn.rs, with the *)
(* fetch of enum strings, ca/conn/enumfetch.rs.                            *)
(*                                                                         *)
(* pc follows poll_next: hand out an event, the ticker, flush the insert   *)
(* queues, results of series lookups and then one command ("lookup"),      *)
(* protocol messages ("inner"), and back.  A step that returns from        *)
(* poll_next goes to "poll".  What the world does (an answer arrives, a    *)
(* timer has elapsed, an insert queue has room) is chosen by the step that *)
(* looks.                                                                  *)
(*                                                                         *)
(* The states of ChannelState and ReadingState are flattened to one name.  *)
(* With DO_RATE_CHECK off, and one branch under `if false`, the states     *)
(* StopMonitoringForPolling and Closing cannot occur; FetchEnumDetails and *)
(* Error are never produced.  A channel is subscribed once, its subid is   *)
(* therefore its cid here.                                                 *)
(***************************************************************************)
EXTENDS Integers, Sequences, SequencesExt, FiniteSets, Filter

CONSTANTS
    Chans,
    EnumChans,          \* channels whose IOC says ScalarType::Enum
    Offered,            \* the channels with the configurations asked for
    InsertQueueMax,     \* insert_queue_max
    EventQueueMax,      \* ca_conn_event_out_queue_max
    Reorder,            \* the IOC may answer reads in another order
    MaxCmds,            \* bound: commands, and with them cids
    MaxIoid,            \* bound: reads
    MaxFaults           \* bound: faults

Configs == {"Monitor", "Poll"}
NoCfg == "NoCfg"
FailText == "name and cid"
NoCid == 0
Cids == 1..MaxCmds
Ioids == 0..MaxIoid

ASSUME CaConnAssumption ==
    /\ IsFiniteSet(Chans) /\ EnumChans \subseteq Chans
    /\ Offered \subseteq Chans \X Configs
    /\ InsertQueueMax \in Nat /\ EventQueueMax \in Nat
    /\ Reorder \in BOOLEAN
    /\ MaxCmds \in Nat /\ MaxIoid \in Nat /\ MaxFaults \in Nat

VARIABLES
    pc,
    state, reason,          \* CaConnState
    channels,               \* by name: cid_by_name and channels agree
    cnt, ioid,              \* CidStore, next read
    init_state_count,
    read_ioids, handler_by_ioid,
    lookups,                \* channel_info_query_qu and _res_rxs, by cid
    creating, reads,        \* requests that the IOC has not answered
    ping,                   \* ioc_ping_start is set
    ticker_spent,           \* elapsed and, in shutdown, not armed again
    evq,                    \* ca_conn_event_out_queue
    rows, sp,               \* iqdqs and the batch in flight (iqsp)
    cmds, told,             \* commands sent; the shutdown command overtakes
    db, ingested,           \* history: rows written, rows queued
    lookup_failed,          \* history: cids whose lookup failed
    status_lost,            \* history: a health update lost before the end
    ncmds, nfaults          \* bounds

connVars == <<state, reason, ticker_spent>>
chanVars == <<channels, cnt, init_state_count>>
ioVars == <<ioid, read_ioids, handler_by_ioid, creating, reads, ping>>
lookupVars == <<lookups, lookup_failed>>
rowVars == <<rows, sp, db, ingested>>
evVars == <<evq, status_lost>>
cmdVars == <<cmds, told, ncmds>>
vars == <<pc, connVars, chanVars, ioVars, lookupVars, rowVars, evVars, cmdVars,
          nfaults>>
-----------------------------------------------------------------------------
ChannelStates ==
    {"Init", "Creating", "FetchCaStatusSeries", "MakingSeriesWriter",
     "EnableMonitoring", "Passive", "ReadPending", "PollIdle", "PollWait"}

Channel(cid, cfg, st, id) == [cid |-> cid, cfg |-> cfg, st |-> st, ioid |-> id]
Absent == Channel(NoCid, NoCfg, "Absent", 0)

Known == {n \in Chans : channels[n] # Absent}
Is(n, st) == channels[n].st = st
InState(st) == {n \in Chans : Is(n, st)}
ByCid(cid) == {n \in Known : channels[n].cid = cid}
To(n, st) == [channels EXCEPT ![n].st = st]

Up == state \in {"Connecting", "PeerReady"}
HasProto == state = "PeerReady"

Row(cid, k, src) == [cid |-> cid, k |-> k, src |-> src]
Opened(n) == Row(channels[n].cid, "Opened", channels[n].cid)
Closed(n) == Row(channels[n].cid, "Closed", channels[n].cid)
Value(n, src) == Row(channels[n].cid, "Value", src)

ConnEvent(k, c, n) == [k |-> k, ch |-> c, name |-> n]
Removed(n) == ConnEvent("ChannelRemoved", n, n)
ChannelStatus == ConnEvent("ChannelStatus", FailText, FailText)

ConnCommand(k, c, cfg) == [k |-> k, ch |-> c, cfg |-> cfg]
Commands ==
    {ConnCommand("ChannelAdd", o[1], o[2]) : o \in Offered}
      \union {ConnCommand("ChannelClose", n, NoCfg) : n \in Chans}

Map(f(_), s) == [i \in 1..Len(s) |-> f(s[i])]

Push(more) == rows' = rows \o more /\ ingested' = ingested \union ToSet(more)
-----------------------------------------------------------------------------
Init ==
    /\ pc = "poll" /\ state = "Connecting" /\ reason = "none"
    /\ channels = [n \in Chans |-> Absent]
    /\ cnt = 0 /\ ioid = 0 /\ init_state_count = 0
    /\ read_ioids = [i \in Ioids |-> NoCid]
    /\ handler_by_ioid = [i \in Ioids |-> NoCid]
    /\ lookups = {} /\ lookup_failed = {}
    /\ creating = {} /\ reads = <<>> /\ ping = FALSE
    /\ ticker_spent = FALSE
    /\ evq = <<>> /\ status_lost = FALSE
    /\ rows = <<>> /\ sp = <<>> /\ db = {} /\ ingested = {}
    /\ cmds = <<>> /\ told = FALSE
    /\ ncmds = 0 /\ nfaults = 0

(* The set sends a command; it shows where handle_conn_command looks.      *)
SendCommand ==
    /\ pc = "lookup" /\ Up /\ cmds = <<>> /\ ~told /\ ncmds < MaxCmds
    /\ ncmds' = ncmds + 1
    /\ \/ told' = told /\ \E c \in Commands : cmds' = Append(cmds, c)
       \/ told' = TRUE /\ cmds' = cmds
    /\ UNCHANGED <<pc, connVars, chanVars, ioVars, lookupVars, rowVars, evVars,
                   nfaults>>

Fault == nfaults < MaxFaults /\ nfaults' = nfaults + 1

(* emit_channel_status, if its interval has passed, onto the queue q.      *)
WithChannelStatus(q, due) ==
    IF due /\ Len(q) <= EventQueueMax THEN Append(q, ChannelStatus) ELSE q

(* channel_state_on_shutdown, then channel_close_by_cid for each channel,  *)
(* in the order of the hash map; the protocol is dropped.  A channel is    *)
(* Ended when it is closed: its writer is neither ticked nor closed.       *)
CloseAll(due) ==
    /\ channels' = [n \in Chans |-> Absent]
    /\ \E s \in SetToSeqs(Known) :
         /\ Push(Map(Closed, s) \o Map(Closed, s))
         /\ evq' = WithChannelStatus(evq \o Map(Removed, s), due)
    /\ creating' = {} /\ reads' = <<>>

TriggerShutdown(r, due) ==
    /\ state' = "Shutdown" /\ reason' = r
    /\ CloseAll(due)

(* loop_inner returned an error: the queues are not flushed any more.      *)
LoopInnerError ==
    /\ state' = "EndOfStream" /\ reason' = "Failed"
    /\ pc' = "poll"
-----------------------------------------------------------------------------
(* The top of poll_next.                                                   *)
PopEvent ==
    /\ pc = "poll" /\ state \in {"Connecting", "PeerReady", "Shutdown"}
    /\ evq # <<>> /\ evq' = Tail(evq)
    /\ UNCHANGED <<pc, connVars, chanVars, ioVars, lookupVars, rowVars,
                   status_lost, cmdVars, nfaults>>

EmitMetrics ==
    /\ pc = "poll" /\ state = "EndOfStream"
    /\ state' = "MetricsEmitted"
    /\ UNCHANGED <<pc, reason, ticker_spent, chanVars, ioVars, lookupVars,
                   rowVars, evVars, cmdVars, nfaults>>

(* The stream is over; ca_conn_item_merge sends the end with its reason,   *)
(* the set handles it.                                                     *)
StreamEnd ==
    /\ pc = "poll" /\ state = "MetricsEmitted"
    /\ state' = "Done" /\ cmds' = <<>>
    /\ UNCHANGED <<pc, reason, ticker_spent, chanVars, ioVars, lookupVars,
                   rowVars, evVars, told, ncmds, nfaults>>

Done == state = "Done" /\ UNCHANGED vars

(* Mutant: the ticker runs although events are waiting.                    *)
AtTickerEarly ==
    pc = "poll" /\ state \in {"Connecting", "PeerReady", "Shutdown"}

(* poll_next goes on to the ticker only when no event is left.             *)
AtTicker ==
    /\ pc = "poll" /\ state \in {"Connecting", "PeerReady", "Shutdown"}
    /\ evq = <<>>
-----------------------------------------------------------------------------
(* poll_own_ticker, handle_own_ticker.  In shutdown the ticker is not      *)
(* armed again: once elapsed it runs in every later poll.                  *)
TickerPending ==
    /\ AtTicker /\ ~ticker_spent
    /\ pc' = "flush"
    /\ UNCHANGED <<connVars, chanVars, ioVars, lookupVars, rowVars, evVars,
                   cmdVars, nfaults>>

(* check_channels_state_init needs the protocol when it has something to   *)
(* do.  The error ends this call of poll_next before anything is flushed.  *)
TickWithoutProto ==
    /\ AtTicker /\ init_state_count # 0 /\ ~HasProto
    /\ ticker_spent' = (state = "Shutdown")
    /\ TriggerShutdown("Failed", FALSE)
    /\ UNCHANGED <<pc, cnt, init_state_count, ioid, read_ioids,
                   handler_by_ioid, ping, lookupVars, sp, db, status_lost,
                   cmdVars, nfaults>>

(* check_channels_state_init: every new channel is created, if any counts. *)
ToCreate == IF init_state_count = 0 THEN {} ELSE InState("Init")

(* Mutant: in shutdown the tick ends the call of poll_next.                *)
TickBeginReturns ==
    /\ AtTicker /\ (init_state_count = 0 \/ HasProto)
    /\ ticker_spent' = (state = "Shutdown")
    /\ init_state_count' = init_state_count - Cardinality(ToCreate)
    /\ pc' = IF state = "Shutdown" THEN "poll" ELSE "flush"
    /\ UNCHANGED <<cnt, handler_by_ioid, lookupVars, sp, db, cmdVars>>

TickBegin ==
    /\ AtTicker /\ (init_state_count = 0 \/ HasProto)
    /\ ticker_spent' = (state = "Shutdown")
    /\ init_state_count' = init_state_count - Cardinality(ToCreate)
    /\ pc' = "flush"
    /\ UNCHANGED <<cnt, handler_by_ioid, lookupVars, sp, db, cmdVars>>

StateInit == [n \in Chans |-> IF n \in ToCreate
                              THEN [channels[n] EXCEPT !.st = "Creating"]
                              ELSE channels[n]]

(* The rest of a tick in which the connection stays up.                    *)
TickRest ==
    /\ creating' = creating \union {channels[n].cid : n \in ToCreate}
    /\ \E due \in BOOLEAN :
         /\ evq' = WithChannelStatus(evq, due)
         /\ status_lost' = (status_lost \/ (due /\ evq' = evq))
    /\ UNCHANGED <<state, reason, rows, ingested, nfaults>>

(* No timer of a channel has elapsed.                                      *)
Tick ==
    /\ TickBegin
    /\ channels' = StateInit
    /\ TickRest
    /\ UNCHANGED <<ioid, read_ioids, reads, ping>>

(* Mutant: the read is registered under the number of the next one.        *)
BeginReadOffByOne(n, st) ==
    /\ ioid < MaxIoid /\ ioid' = ioid + 1
    /\ read_ioids' = [read_ioids EXCEPT ![ioid'] = channels[n].cid]
    /\ reads' = Append(reads, [ioid |-> ioid, cid |-> channels[n].cid])
    /\ channels' = [StateInit EXCEPT ![n].st = st, ![n].ioid = ioid]

(* Mutant: the ioid is used again.                                         *)
BeginReadSameIoid(n, st) ==
    /\ ioid < MaxIoid /\ ioid' = ioid
    /\ read_ioids' = [read_ioids EXCEPT ![ioid] =
                        IF @ = NoCid THEN channels[n].cid ELSE @]
    /\ reads' = Append(reads, [ioid |-> ioid, cid |-> channels[n].cid])
    /\ channels' = [StateInit EXCEPT ![n].st = st, ![n].ioid = ioid]

(* A read with a new ioid: Ioid(self.ioid), then self.ioid += 1.           *)
BeginRead(n, st) ==
    /\ ioid < MaxIoid /\ ioid' = ioid + 1
    /\ read_ioids' = [read_ioids EXCEPT ![ioid] =
                        IF @ = NoCid THEN channels[n].cid ELSE @]
    /\ reads' = Append(reads, [ioid |-> ioid, cid |-> channels[n].cid])
    /\ channels' = [StateInit EXCEPT ![n].st = st, ![n].ioid = ioid]

(* check_channels_state_poll: a monitor was quiet, or a poll is due.       *)
TickRead(n) ==
    /\ TickBegin
    /\ \/ Is(n, "Passive") /\ BeginRead(n, "ReadPending")
       \/ Is(n, "PollIdle") /\ BeginRead(n, "PollWait")
    /\ TickRest
    /\ UNCHANGED ping

(* ... a polled read has timed out.                                        *)
TickPollTimeout(n) ==
    /\ TickBegin
    /\ Is(n, "PollWait")
    /\ read_ioids' = [read_ioids EXCEPT ![channels[n].ioid] = NoCid]
    /\ channels' = [StateInit EXCEPT ![n].st = "PollIdle"]
    /\ TickRest
    /\ UNCHANGED <<ioid, reads, ping>>

(* ... or the read after silence has: the connection is shut down, and the *)
(* rest of the tick finds no channel.                                      *)
TickReadPendingTimeout(n) ==
    /\ TickBegin
    /\ Is(n, "ReadPending")
    /\ \E due \in BOOLEAN : TriggerShutdown("Failed", due)
    /\ UNCHANGED <<ioid, read_ioids, ping, status_lost, nfaults>>

(* check_channels_alive starts a ping.                                     *)
TickPing ==
    /\ TickBegin
    /\ ~ping /\ HasProto /\ ping' = TRUE
    /\ channels' = StateInit
    /\ TickRest
    /\ UNCHANGED <<ioid, read_ioids, reads>>

(* ... the pong is late, or there is no protocol to ping with.  Also when  *)
(* the connection is shutting down already: the reason is replaced.        *)
TickPingFails ==
    /\ TickBegin
    /\ Fault
    /\ ping \/ ~HasProto
    /\ ping' = FALSE
    /\ \E due \in BOOLEAN : TriggerShutdown("Failed", due)
    /\ UNCHANGED <<ioid, read_ioids, status_lost>>
-----------------------------------------------------------------------------
(* flush_queue_dqs, attempt_flush_queue over one of the five insert        *)
(* queues: while the sender is idle the next batch goes into flight.       *)
FlushSend ==
    /\ pc = "flush" /\ sp = <<>> /\ rows # <<>>
    /\ sp' = rows /\ rows' = <<>>
    /\ UNCHANGED <<pc, connVars, chanVars, ioVars, lookupVars, db, ingested,
                   evVars, cmdVars, nfaults>>

(* The queue has room: the send completes.                                 *)
FlushSent ==
    /\ pc = "flush" /\ sp # <<>>
    /\ db' = db \union ToSet(sp) /\ sp' = <<>>
    /\ UNCHANGED <<pc, connVars, chanVars, ioVars, lookupVars, rows, ingested,
                   evVars, cmdVars, nfaults>>

(* Everything is sent, or the send is pending.                             *)
FlushDone ==
    /\ pc = "flush" /\ (sp = <<>> => rows = <<>>)
    /\ pc' = "lookup"
    /\ UNCHANGED <<connVars, chanVars, ioVars, lookupVars, rowVars, evVars,
                   cmdVars, nfaults>>
-----------------------------------------------------------------------------
(* handle_writer_establish_result: the status series is known, the data    *)
(* series is asked for.                                                    *)
StatusSeriesFound(n) ==
    /\ pc = "lookup" /\ Up
    /\ Is(n, "FetchCaStatusSeries") /\ channels[n].cid \in lookups
    /\ channels' = To(n, "MakingSeriesWriter")
    /\ UNCHANGED <<pc, connVars, cnt, init_state_count, ioVars, lookupVars,
                   rowVars, evVars, cmdVars, nfaults>>

(* handle_writer_establish_inner.                                          *)
DataSeriesFound(n) ==
    /\ pc = "lookup" /\ Up
    /\ Is(n, "MakingSeriesWriter") /\ channels[n].cid \in lookups
    /\ lookups' = lookups \ {channels[n].cid}
    /\ channels' = To(n, IF channels[n].cfg = "Poll"
                         THEN "PollIdle" ELSE "EnableMonitoring")
    /\ Push(<<Opened(n)>>)
    /\ UNCHANGED <<pc, connVars, cnt, init_state_count, ioVars, lookup_failed,
                   sp, db, evVars, cmdVars, nfaults>>

(* The channel was closed meanwhile, or is not waiting for this: an error  *)
(* event, but the connection goes on.                                      *)
LookupUnexpected(cid) ==
    /\ pc = "lookup" /\ Up /\ cid \in lookups
    /\ \A n \in ByCid(cid) :
         channels[n].st \notin {"FetchCaStatusSeries", "MakingSeriesWriter"}
    /\ lookups' = lookups \ {cid}
    /\ pc' = "poll"
    /\ UNCHANGED <<connVars, chanVars, ioVars, lookup_failed, rowVars, evVars,
                   cmdVars, nfaults>>

(* A failed lookup likewise, and it is not repeated.                       *)
LookupFails(cid) ==
    /\ pc = "lookup" /\ Up /\ cid \in lookups
    /\ Fault
    /\ lookups' = lookups \ {cid}
    /\ lookup_failed' = lookup_failed \union {cid}
    /\ pc' = "poll"
    /\ UNCHANGED <<connVars, chanVars, ioVars, rowVars, evVars, cmdVars>>
-----------------------------------------------------------------------------
(* handle_conn_command.                                                    *)
TakeCommand(k) ==
    /\ pc = "lookup" /\ Up
    /\ cmds # <<>> /\ Head(cmds).k = k /\ cmds' = Tail(cmds)
    /\ pc' = "inner"
    /\ UNCHANGED <<connVars, ioVars, lookupVars, sp, db, status_lost, told,
                   ncmds, nfaults>>

(* Mutant: the new channel is not counted.                                 *)
ChannelAddUncounted ==
    LET c == Head(cmds) IN
    /\ TakeCommand("ChannelAdd")
    /\ IF c.ch \in Known
       THEN UNCHANGED chanVars
       ELSE /\ cnt' = cnt + 1
            /\ channels' = [channels EXCEPT ![c.ch] =
                               Channel(cnt', c.cfg, "Init", 0)]
            /\ UNCHANGED init_state_count
    /\ UNCHANGED <<rows, ingested, evq>>

(* channel_add.                                                            *)
ChannelAdd ==
    LET c == Head(cmds) IN
    /\ TakeCommand("ChannelAdd")
    /\ IF c.ch \in Known
       THEN UNCHANGED chanVars
       ELSE /\ cnt' = cnt + 1
            /\ channels' = [channels EXCEPT ![c.ch] =
                               Channel(cnt', c.cfg, "Init", 0)]
            /\ init_state_count' = init_state_count + 1
    /\ UNCHANGED <<rows, ingested, evq>>

(* Mutant: a close is reported whether or not the channel was there.       *)
ChannelCloseAlwaysReports ==
    LET n == Head(cmds).ch IN
    /\ TakeCommand("ChannelClose")
    /\ channels' = [channels EXCEPT ![n] = Absent]
    /\ evq' = Append(evq, Removed(n))
    /\ IF n \in Known THEN Push(<<Closed(n)>>) ELSE UNCHANGED <<rows, ingested>>
    /\ UNCHANGED <<cnt, init_state_count>>

(* Mutant: every close uncounts, also that of a channel that left Init.    *)
ChannelCloseUncounts ==
    LET n == Head(cmds).ch IN
    /\ TakeCommand("ChannelClose")
    /\ IF n \in Known
       THEN /\ channels' = [channels EXCEPT ![n] = Absent]
            /\ evq' = Append(evq, Removed(n))
            /\ Push(<<Closed(n)>>)
            /\ init_state_count' = init_state_count - 1
       ELSE UNCHANGED <<channels, evq, rows, ingested, init_state_count>>
    /\ UNCHANGED cnt

(* channel_close_by_name, channel_close_by_cid.  What was asked for the    *)
(* channel stays: reads, lookups, an enum fetch, and its place in          *)
(* init_state_count.                                                       *)
ChannelClose ==
    LET n == Head(cmds).ch IN
    /\ TakeCommand("ChannelClose")
    /\ IF n \in Known
       THEN /\ channels' = [channels EXCEPT ![n] = Absent]
            /\ evq' = Append(evq, Removed(n))
            /\ Push(<<Closed(n)>>)
       ELSE UNCHANGED <<channels, evq, rows, ingested>>
    /\ UNCHANGED <<cnt, init_state_count>>

ShutdownCommand ==
    /\ pc = "lookup" /\ Up /\ told
    /\ TriggerShutdown("OnCommand", FALSE)
    /\ pc' = "inner"
    /\ UNCHANGED <<ticker_spent, cnt, init_state_count, ioid, read_ioids,
                   handler_by_ioid, ping, lookupVars, sp, db, status_lost,
                   cmdVars, nfaults>>

(* No command yet, or none is taken any more.                              *)
NoCommand ==
    /\ pc = "lookup" /\ (Up => cmds = <<>> /\ ~told)
    /\ pc' = "inner"
    /\ UNCHANGED <<connVars, chanVars, ioVars, lookupVars, rowVars, evVars,
                   cmdVars, nfaults>>
-----------------------------------------------------------------------------
(* loop_inner, handle_conn_state: it stops when the insert queue is full.  *)
AtConnState(st) == pc = "inner" /\ state = st /\ Len(rows) < InsertQueueMax

Connected ==
    /\ AtConnState("Connecting")
    /\ state' = "PeerReady"
    /\ UNCHANGED <<pc, reason, ticker_spent, chanVars, ioVars, lookupVars,
                   rowVars, evVars, cmdVars, nfaults>>

(* The connect failed, or the IOC closed the connection.                   *)
PeerGone ==
    /\ AtConnState("Connecting") \/ AtConnState("PeerReady")
    /\ Fault
    /\ TriggerShutdown("Failed", FALSE)
    /\ UNCHANGED <<pc, ticker_spent, cnt, init_state_count, ioid, read_ioids,
                   handler_by_ioid, ping, lookupVars, sp, db, status_lost,
                   cmdVars>>

(* CaProto yields an error: trigger_shutdown, and then the error of        *)
(* loop_inner on top of it.                                                *)
ProtoError ==
    /\ AtConnState("PeerReady")
    /\ Fault
    /\ CloseAll(FALSE) /\ LoopInnerError
    /\ UNCHANGED <<ticker_spent, cnt, init_state_count, ioid, read_ioids,
                   handler_by_ioid, ping, lookupVars, sp, db, status_lost,
                   cmdVars>>

(* handle_create_chan_res; an enum is asked for its strings first, with    *)
(* ioid_next: self.ioid += 1, then Ioid(self.ioid).                        *)
CreateChanRes(cid) ==
    /\ AtConnState("PeerReady") /\ cid \in creating
    /\ creating' = creating \ {cid}
    /\ \/ /\ ByCid(cid) = {}
          /\ UNCHANGED <<channels, lookups, ioid, handler_by_ioid, reads>>
       \/ \E n \in ByCid(cid) \ EnumChans :
            /\ Is(n, "Creating")
            /\ channels' = To(n, "FetchCaStatusSeries")
            /\ lookups' = lookups \union {cid}
            /\ UNCHANGED <<ioid, handler_by_ioid, reads>>
       \/ \E n \in ByCid(cid) \intersect EnumChans :
            /\ Is(n, "Creating")
            /\ ioid < MaxIoid /\ ioid' = ioid + 1
            /\ handler_by_ioid' = [handler_by_ioid EXCEPT ![ioid'] = cid]
            /\ reads' = Append(reads, [ioid |-> ioid', cid |-> cid])
            /\ UNCHANGED <<channels, lookups>>
    /\ UNCHANGED <<pc, connVars, cnt, init_state_count, read_ioids, ping,
                   lookup_failed, rowVars, evVars, cmdVars, nfaults>>

(* CreateChanFail: the channel stays where it is.                          *)
CreateChanFail(cid) ==
    /\ AtConnState("PeerReady") /\ cid \in creating
    /\ Fault
    /\ creating' = creating \ {cid}
    /\ \E c \in Chans :
         /\ c \in ByCid(cid) \/ ByCid(cid) = {}
         /\ evq' = Append(evq, ConnEvent("ChannelCreateFail", c, FailText))
    /\ UNCHANGED <<pc, connVars, chanVars, ioid, read_ioids, handler_by_ioid,
                   reads, ping, lookupVars, rowVars, status_lost, cmdVars>>

(* handle_event_add_res: a value of a subscribed channel.                  *)
EventAddRes(n) ==
    /\ AtConnState("PeerReady")
    /\ channels[n].st \in {"EnableMonitoring", "Passive", "ReadPending"}
    /\ channels' = IF Is(n, "ReadPending") THEN channels
                   ELSE To(n, "Passive")
    /\ Push(<<Value(n, channels[n].cid)>>)
    /\ UNCHANGED <<pc, connVars, cnt, init_state_count, ioVars, lookupVars,
                   sp, db, evVars, cmdVars, nfaults>>

(* The answers come in the order of the reads, unless Reorder.             *)
Answerable == IF Reorder THEN 1..Len(reads) ELSE {1} \intersect 1..Len(reads)

TakeAnswer(i) ==
    /\ AtConnState("PeerReady") /\ i \in Answerable
    /\ reads' = RemoveAt(reads, i)
    /\ UNCHANGED <<ticker_spent, ioid, creating, ping, cnt, init_state_count,
                   lookup_failed, sp, db, evVars, cmdVars, nfaults>>

(* Mutant: the lookup of the status series is not queued.                  *)
EnumFetchedNoLookup(i) ==
    LET id == reads[i].ioid
        h  == handler_by_ioid[id] IN
    /\ TakeAnswer(i) /\ h # NoCid
    /\ handler_by_ioid' = [handler_by_ioid EXCEPT ![id] = NoCid]
    /\ IF ByCid(h) = {}
       THEN LoopInnerError /\ UNCHANGED channels
       ELSE /\ \E n \in ByCid(h) : channels' = To(n, "FetchCaStatusSeries")
            /\ UNCHANGED <<pc, state, reason>>
    /\ UNCHANGED <<lookups, read_ioids, rows, ingested>>

(* handle_read_notify_res, EnumFetch::camsg.                               *)
EnumFetched(i) ==
    LET id == reads[i].ioid
        h  == handler_by_ioid[id] IN
    /\ TakeAnswer(i) /\ h # NoCid
    /\ lookups' = lookups \union {h}
    /\ handler_by_ioid' = [handler_by_ioid EXCEPT ![id] = NoCid]
    /\ IF ByCid(h) = {}
       THEN LoopInnerError /\ UNCHANGED channels
       ELSE /\ \E n \in ByCid(h) : channels' = To(n, "FetchCaStatusSeries")
            /\ UNCHANGED <<pc, state, reason>>
    /\ UNCHANGED <<read_ioids, rows, ingested>>

(* handle_read_notify_res.  A polled channel that waits takes any answer   *)
(* that is registered for it, a monitored one that of its last read.       *)
ReadNotifyRes(i) ==
    LET id  == reads[i].ioid
        cid == read_ioids[id] IN
    /\ TakeAnswer(i) /\ handler_by_ioid[id] = NoCid
    /\ read_ioids' = [read_ioids EXCEPT ![id] = NoCid]
    /\ \/ \E n \in ByCid(cid) :
            /\ Is(n, "PollWait")
            /\ channels' = To(n, "PollIdle")
            /\ Push(<<Value(n, reads[i].cid)>>)
       \/ \E n \in ByCid(cid) :
            /\ Is(n, "ReadPending") /\ channels[n].ioid = id
            /\ channels' = To(n, "Passive")
            /\ UNCHANGED <<rows, ingested>>
       \/ /\ \A n \in ByCid(cid) :
               ~Is(n, "PollWait")
                 /\ ~(Is(n, "ReadPending") /\ channels[n].ioid = id)
          /\ UNCHANGED <<channels, rows, ingested>>
    /\ UNCHANGED <<pc, state, reason, handler_by_ioid, lookups>>

(* The IOC does not answer a read (external).                              *)
ReadUnanswered ==
    /\ AtConnState("PeerReady") /\ reads # <<>>
    /\ reads' = Tail(reads)
    /\ UNCHANGED <<pc, connVars, chanVars, ioid, read_ioids, handler_by_ioid,
                   creating, ping, lookupVars, rowVars, evVars, cmdVars,
                   nfaults>>

(* Echo.                                                                   *)
Pong ==
    /\ AtConnState("PeerReady") /\ ping
    /\ ping' = FALSE
    /\ UNCHANGED <<pc, connVars, chanVars, ioid, read_ioids, handler_by_ioid,
                   creating, reads, lookupVars, rowVars, evVars, cmdVars,
                   nfaults>>

(* Mutant: the end does not wait for the batch in flight.                  *)
QueuesOutFlushedButFlight == rows = <<>> /\ evq = <<>>

QueuesOutFlushed == rows = <<>> /\ sp = <<>> /\ evq = <<>>

(* The end of poll_next: nothing more to read now; in shutdown the stream  *)
(* ends when everything is out.                                            *)
PollEnd ==
    /\ pc = "inner" /\ pc' = "poll"
    /\ state' = IF state = "Shutdown" /\ QueuesOutFlushed
                THEN "EndOfStream" ELSE state
    /\ UNCHANGED <<reason, ticker_spent, chanVars, ioVars, lookupVars, rowVars,
                   evVars, cmdVars, nfaults>>
-----------------------------------------------------------------------------
TickAny ==
    \/ TickWithoutProto \/ Tick \/ TickPing \/ TickPingFails
    \/ \E n \in Chans :
         TickRead(n) \/ TickPollTimeout(n) \/ TickReadPendingTimeout(n)

Flush == FlushSend \/ FlushSent \/ FlushDone

Lookup ==
    \/ \E n \in Chans : StatusSeriesFound(n) \/ DataSeriesFound(n)
    \/ \E cid \in Cids : LookupUnexpected(cid) \/ LookupFails(cid)

TakesCommand == ChannelAdd \/ ChannelClose \/ ShutdownCommand \/ NoCommand

LoopInner ==
    \/ Connected \/ PeerGone \/ ProtoError
    \/ \E cid \in Cids : CreateChanRes(cid) \/ CreateChanFail(cid)
    \/ \E n \in Chans : EventAddRes(n)
    \/ \E i \in 1..Len(reads) : EnumFetched(i) \/ ReadNotifyRes(i)
    \/ ReadUnanswered \/ Pong

Poll ==
    \/ PopEvent \/ EmitMetrics \/ StreamEnd
    \/ TickerPending \/ TickAny
    \/ Flush \/ Lookup \/ TakesCommand \/ LoopInner \/ PollEnd

Next == SendCommand \/ Poll \/ Done

(* A tick at which no health update is due: its interval is longer than a  *)
(* round of poll_next.                                                     *)
TickBetweenUpdates == TickWithoutProto \/ (Tick /\ evq' = evq)

(* The task is polled until its stream ends, the insert queues are         *)
(* drained, the ticker elapses.                                            *)
Fairness ==
    /\ WF_vars(Poll)
    /\ SF_vars(FlushSent)
    /\ SF_vars(TickBetweenUpdates)

SafetySpec == Init /\ [][Next]_vars
Spec == SafetySpec /\ Fairness
-----------------------------------------------------------------------------
TypeOK ==
    /\ pc \in {"poll", "flush", "lookup", "inner"}
    /\ state \in {"Connecting", "PeerReady", "Shutdown", "EndOfStream",
                  "MetricsEmitted", "Done"}
    /\ reason \in {"none", "OnCommand", "Failed"}
    /\ channels \in [Chans -> {Absent} \union
         [cid : Cids, cfg : Configs, st : ChannelStates, ioid : Ioids]]
    /\ cnt \in 0..ncmds /\ ioid \in Ioids /\ ncmds \in 0..MaxCmds
    /\ read_ioids \in [Ioids -> Cids \union {NoCid}]
    /\ handler_by_ioid \in [Ioids -> Cids \union {NoCid}]
    /\ lookups \subseteq Cids /\ lookup_failed \subseteq Cids
    /\ creating \subseteq Cids
    /\ reads \in Seq([ioid : Ioids, cid : Cids])
    /\ ping \in BOOLEAN /\ ticker_spent \in BOOLEAN /\ told \in BOOLEAN
    /\ cmds \in Seq(Commands)
    /\ init_state_count \in Nat

(* A channel that waits for a read is found by the answer: its ioid is     *)
(* registered for its own cid (check_channels_state_poll registers what    *)
(* handle_read_notify_res looks up), whatever was closed, added again,     *)
(* timed out or answered late before.                                      *)
ReadsRegistered ==
    \A n \in Chans : channels[n].st \in {"ReadPending", "PollWait"} =>
        read_ioids[channels[n].ioid] = channels[n].cid

(* A value that is written for a channel was read from that channel, not   *)
(* from another one whose read had the same ioid (handle_read_notify_res), *)
(* nor from an earlier life of the channel under the same name.            *)
ValuesFromOwnChannel == \A r \in ingested : r.src = r.cid

(* A channel that waits for a series has a lookup under way: the answer of *)
(* handle_writer_establish_result is never taken by another channel.  Only *)
(* a failed lookup leaves a channel waiting for nothing.                   *)
LookupUnderWay ==
    \A n \in Chans :
        channels[n].st \in {"FetchCaStatusSeries", "MakingSeriesWriter"} =>
            channels[n].cid \in lookups \union lookup_failed

(* A connection that ends after the shutdown command has written every row *)
(* that its channels queued, and for each channel that was opened the row  *)
(* that it was closed (queues_out_flushed in poll_next).                   *)
NothingLostAtEnd ==
    state \in {"EndOfStream", "MetricsEmitted", "Done"} /\ reason = "OnCommand"
      => /\ ingested \subseteq db
         /\ \A r \in db : r.k = "Opened" =>
              Row(r.cid, "Closed", r.cid) \in db

(* A health update is dropped for a full event queue only by a tick that   *)
(* shuts the connection down: while it is up, poll_next hands out every    *)
(* event before the ticker runs (emit_channel_status).                     *)
StatusNotLost == ~status_lost

(* A connection that is shut down ends, once the insert queues drain, if   *)
(* no channel was closed or dropped before it was created                  *)
(* (init_state_count counts those for good).                               *)
ShutdownEnds == state = "Shutdown" /\ init_state_count = 0 ~> state = "Done"

(* Channels that were added leave Init: they are created, or closed, or    *)
(* the connection goes down (init_state_count never misses one).           *)
AddedIsCreated == InState("Init") # {} ~> InState("Init") = {} \/ ~Up

(* The comment in EnumFetch::camsg: "This handler must not exist if the    *)
(* channel gets removed."                                                  *)
EnumHandlerHasChannel ==
    Up => \A i \in Ioids : handler_by_ioid[i] # NoCid =>
              ByCid(handler_by_ioid[i]) # {}

(* The connection as the set sees it: health updates change nothing there, *)
(* and the end follows what is still in the queue.                         *)
SetEvents ==
    {Removed(n) : n \in Chans}
      \union {ConnEvent("ChannelCreateFail", c, FailText) : c \in Chans}
ForSet(q) == Keep(q, SetEvents)

AbsConn == IF Up THEN "up" ELSE IF state = "Done" THEN "none" ELSE "ended"
AbsHeld == [n \in Chans |-> IF Up THEN channels[n].cfg ELSE NoCfg]
AbsEvs ==
    CASE Up -> ForSet(evq)
      [] state = "Shutdown" ->
           Append(ForSet(evq), ConnEvent("EndOfStream", FailText, reason))
      [] state \in {"EndOfStream", "MetricsEmitted"} ->
           <<ConnEvent("EndOfStream", FailText, reason)>>
      [] state = "Done" -> <<>>

Abs == INSTANCE Conn WITH
    conn <- AbsConn, cmds <- cmds, held <- AbsHeld, evs <- AbsEvs

(* The connection keeps what the connection set relies on: commands in     *)
(* order, each close reported once, every held channel reported before an  *)
(* orderly end, nothing after the end.                                     *)
ConnRefined == Abs!Spec
===============================================================================
