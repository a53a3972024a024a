# Verification of daqbuf

daqbuf collects the values of EPICS Channel Access process variables
(*ingest*: `daqbuf-daqingest`, `daqbuf-netfetch`, `daqbuf-serieswriter`,
`daqbuf-scywr`), stores them in ScyllaDB with an index in PostgreSQL, and serves
events and time-binned aggregates over HTTP (*retrieval*: `daqbuf-httpret`,
`daqbuf-nodenet`, `daqbuf-streams`, `daqbuf-items-2`, `daqbuf-scyllaconn`).

This directory holds TLA+ models of the parts of that program where
interleavings, failures and edges decide whether data is collected, and whether
what is collected is served completely and once.

## 1. Inventory

### Ingest

| Part | State | Operations | What is hard |
|---|---|---|---|
| `CaConnSet` (`netfetch/src/ca/connset.rs`, `statemap.rs`, `queueset.rs`) | a state per channel (11 states), a search queue, queries under way, one resource per connection with a command queue, shutdown flags | commands of the daemon (add, remove, reload markers, shutdown), results of the series lookup and the IOC finder, events of connections, a ticker with timeouts, joins | everything is asynchronous: answers for channels that have moved on, connections that end with commands queued, timeouts that race late answers, a limited number of searches, shutdown while connections die |
| `CaConn` (`ca/conn.rs`) | connection state, a state per channel (create, subscribe, read back, monitor, poll, close), output queues | commands, protocol messages, ticker | subscribe and poll interleave; answers for channels that were closed or added again; queues at their limit; one error ends all channels; end of connection |
| IOC finder (`ca/finder.rs`, `findioc.rs`, `search.rs`) | batches, cache query, UDP search | a query gets one answer | a failed batch drops its queries |
| Series lookup (`dbpg/src/seriesbychannel.rs`) | database | a query gets one answer | may fail or be slow |
| Series writers (`serieswriter`) | last written value and time per retention time, the current partition | write, tick, housekeeping, close | three stores with different rates share one stream of values; an event is found only through the row of its partition |
| Insert queues and workers (`scywr`) | bounded queues, one batch in flight per sender | send, insert | rows lost at shutdown; inserts unordered and failing |
| Daemon (`daqingest/src/daemon.rs`) | timers, reload | event loop | waits for the set while the set waits for it |

### Retrieval

| Part | State | Operations | What is hard |
|---|---|---|---|
| `Merger` (`items-2/src/merger.rs`) | one slot per input, the output under construction, a buffer of finished items, end flags | poll | ties, duplicates, type changes, empty containers, any order of readiness |
| `RangeFilter2` (`streams/src/rangefilter2.rs`) | two slots, an order watermark, end flags | poll | the event before the range, cuts at its edges |
| Time-weighted binning (`items-2/src/binning/timeweight`) | open bin, last value, output of limited size | ingest, output, end | integration over gaps, edges, output that fills up in the middle |
| Binned reads, gap filling (`streams/src/timebin`) | cache reader, gap reader | poll | cover the range once |
| Scylla readers (`scyllaconn/src/events3`) | partitions known, opened ahead, being merged; pages under way; per keyspace | poll | partitions overlap and grow while they are read; paging of partitions and of events; the event before the range; keyspaces with the same events |
| Transport, HTTP, files (`nodenet`, `httpret`, `disk`) | sockets, files | | I/O |

The parts interact through bounded channels and polled streams only: the daemon
sends commands to `CaConnSet`, which spawns one task per `CaConn`; each forwards
its events into one channel back to the set. On the read path every stage is a
`Stream` that polls the one before it: the readers of a node feed `Merger`, that
feeds `RangeFilter2`, and that the binning. Ingest and retrieval meet in the
tables only.

## 2. Modules

| Module | Models |
|---|---|
| `CaConnSet` | the connection set together with the connections, lookup and finder as it sees them |
| `Conn` | what the set relies on of one connection: an abstract specification |
| `CaConn` | one connection: the round of `poll_next`, its channels, reads, queues; implements `Conn` |
| `EventDb` | the event tables: insert workers on one side, queries on the other |
| `RtWriter` | the writer of a series for three retention times (extends `EventDb`) |
| `EventReader` | a read of events over partitions and keyspaces (extends `EventDb`) |
| `EventStore` | writer, insert workers and reader together |
| `Merger` | the k-way merge |
| `RangeFilter2` | the range filter |
| `TimeBin` | bins from events, and coarser bins from bins |
| `Filter` | the elements of a sequence that are in a set, the one helper the models share |
| `ProofLemmas` | facts about numbers, finite sets and sequences for the proofs |
| `RangeFilter2_proofs`, `Merger_proofs`, `CaConn_proofs`, `EventStore_proofs`, `TimeBin_proofs` | theorems about these components |
| `CaConnSet_proofs`, `CaConnSetOwner_proofs` | theorems about the connection set; the second extends the first |
| `MC*` | instances for TLC |

Operators that start with the comment *Mutant* are wrong variants of the
definition that follows them. No specification uses them; replacing the
definition by its mutant shows that the property it is listed with notices.

### CaConnSet

One action is one handler call of `CaConnSet::poll_next`, or one step of a
connection task.

* `channel_states[c]` is the value of the channel in `ChannelStateMap`: the
  three nested enums of `statemap.rs` flattened to one name, with the address
  (`WithAddress`, `UnassigningForConfigChange`, `ToRemove`) and the new
  configuration. `Absent` is a missing entry. `WithAddressState::Unassigned` and
  `InitDummy` are never produced.
* Time is abstracted: `Tick(fired)` is one call of `check_channel_states` in
  which the timers of the channels in `fired` have elapsed. It contains the whole
  function: the timeouts, the search loop with its limit, the removal of
  channels without health update. Backoff times are therefore irrelevant.
  Elapsed timers that mean trouble (lookup, search and health timeout) count as
  faults.
* `searches` joins `find_ioc_query_queue` and `find_ioc_rxs`: both are FIFO and
  only the front receiver is polled. `FinderDrop` is the finder dropping a batch
  on a database error; `poll_next` then sees `Ready(None)` at the front and never
  pops it. `find_ioc_queue_set` is a `QueueSet`: a name that is queued is not
  pushed again (`PushBack`), and `TypeOK` says that none is there twice, although
  a channel that was removed and added again may be planned while its old entry
  is still queued.
* A connection is `none`, `up`, or `ended` (its task is over, its `EndOfStream`
  event is not handled yet). `cmds[a]` joins the command queue and the command
  channel, `evs[a]` the event queues up to the set. The shutdown command goes
  through a cloned sender in a spawned task, so it can overtake queued commands.
* `held[a]` is `CaConn::channels` with the configuration each channel was added
  with. An add of a name that is there is ignored; a close of a name that is not
  there is silent. The close with and without reconfiguration differ in the
  status they write only.
* `TriggerShutdown` is the orderly end (a `ChannelRemoved` for each channel, then
  `EndOfStream`), `ConnError` the error exit of `poll_next`, which loses queued
  events. `ConnStuck` is an orderly end that never comes to its end: with a
  channel left over in `init_state_count` every tick of the connection fails
  (`conn.rs:2705`, `3517`), and `ca_conn_item_merge_inner` passes `EndOfStream` on
  only when the stream is over. The set then never hears of the end (`stuck`).
* `ChannelCreateFail` carries the text that `conn.rs` formats, which is not a
  channel name; the model keeps this (`FailText`).
* After shutdown a command returns early; the model does not take commands then.
* Left out: the drop of a search query when the channel to the finder is closed
  (`connset.rs:2113`; the finder task is gone then), read-only status requests,
  the status rows written to the insert queues, metrics, `handle_connect_fail`
  (no caller), `chan_check_next` (the whole map fits one tick), IPv6 addresses
  (an error that stops nothing).

### Conn and CaConn

`Conn` states the interface between `conn.rs` and `connset.rs` for one
connection: commands are taken in order; a channel is held until it is closed and
each close is reported once; at an orderly end every held channel is reported
before the end of the stream, at an error the events may be cut short; the end
comes once, is last, and its reason may still change to a failure while queues
are flushed. `CaConnSet` uses a connection in just this way (`conn`, `cmds`,
`held`, `evs`), and `ConnRefined` shows that `CaConn` implements it under the
mapping `AbsConn`, `AbsHeld`, `AbsEvs`.

`CaConn` follows one round of `poll_next`; `pc` is the place in it. The ticker
runs `handle_own_ticker` as one step, with at most one elapsed timer of a
channel (`TickRead`, `TickPollTimeout`, `TickReadPendingTimeout`) or of the
ping; all new channels are created in it. `FlushSend`, `FlushSent` and
`FlushDone` are `attempt_flush_queue` with `SenderPolling` over the insert
queues, which behave alike and are one here; the error for a closed queue
(`conn.rs:3832`), which needs all insert workers gone, is left out. A row is
`Opened`, `Closed` or a `Value` with the cid whose read brought it; other status
rows (pong, poll timeout) are left out. `init_state_count`, `read_ioids`,
`handler_by_ioid` and the two ways of taking an ioid are those of the code. What
the IOC has not answered is in `creating` and `reads`; answers may be late or
missing, and come in order unless `Reorder`. An error of the ticker or of a
lookup ends one call of `poll_next` with an `EndOfStream` item, which
`ca_conn_item_merge` only notes as the reason; an error of `loop_inner` ends the
stream (`LoopInnerError`).

### EventDb, RtWriter, EventReader, EventStore

Time is counted in ticks, `MsLen` to the millisecond, so that the places where
the code cuts to milliseconds show. There are tables per keyspace (`Stores`):
one for each retention time, and that of `st_rf1_qu`. `Insert` hands rows to
workers that run unordered (`late`) and only count a failure (`nlost`). The
queries are what the statements select: msps in a range of milliseconds, events
of a partition in a range of lsps, the last event before a time. A page (`Page`)
is what `order by` with `limit` returns: the first rows in order (`InOrder`).

`RtWriter` keeps, per retention time, the state of `RateLimitWriter`,
`SeriesWriter` and `MspSplitDyn` in one record. `Write`, `Tick`, `Housekeeping`
and `Close` contain all they call: rate limit, split, the rows of the retired
and of the new partition, the event. `Close` is the tick and `on_close` of
`channel_close_by_cid` in one step; the msp that `on_close` puts is a row of its
own (`OnCloseRow`), since the tick may have put the same msp just before and one
of the two may fail. Both it and the re-put of `Housekeeping` go, for the short
term, to `st_rf1` (`ReputKs`), while `Write` sends the events and the first msp
to `st_rf3_qu`: `do_st_rf1` comes from `ChannelConfig::replication()`, which
returns true (`conf.rs:1014`, `conn.rs:1778`; `rtwriter.rs:337`, `498`, `509`),
and the two queues are served by workers of different keyspaces
(`daemon.rs:303`). A read of `st_rf1` would find msps without events there, and
is left out. `settled` records the partitions whose msp was put twice where
their events are: those retired by the next one, in any store, and those closed
in the medium and long term. Values are stamped with the local clock
(`ChannelTimestamp::Archiver`) and always change.

`EventReader` sets up one keyspace after the other (`msp_bck`, then `BckLspLst`
if one event before the range is wanted, then a `LspFwdMspMulti`) and merges them
with `LspMerge`. Every query answered is a step, so that writes fall between any
two. `LspLst` stands for both ways of `BckLspLst`: with `avoid_order_desc` all
lsps of the partition are fetched and the last before the range is taken, which is
the same event; if there is none, `lsps.get(i - 1)` at `i = 0` is `None` in the
release profiles (`overflow-checks = false`) and a panic elsewhere, which is not
modelled. What a poll does without an answer is not interrupted by one (`Polling`),
with one exception: `poll_state` keeps an item in `retitem` and polls on, see
`ItemDropped`. The properties look at what `Dedup` leaves of the merged events;
`MergedSorted` is what makes it safe. `Dedup` carries the latest timestamp from
item to item, so it is one pass over all that was merged (`WithLater`).
`ReaderAssumption` has the limits at least 1 and `BckMax >= 2` (`msp_max` is 10 in
`mspbck.rs`), and ranges that do not end before they begin; `WindowAssumption` is
about the numbers of `ttl.rs`: a read looks back further than a partition lasts.

### TimeBin

Averages are kept exact, as integral and duration; the sum in a coarse bin,
which weighs the averages of its bins, is multiplied by `Scale`, which every
width up to `BinLen` divides. Values are natural numbers. The integral that a
bin must have (`Integral`) is the number of unit squares under the graph of the
series, counted directly from the events (`Area`), so that it shares nothing
with the incremental sum of the code. A container of events (`Chunks`) is an
increasing sequence of up to `MaxChunk` events after those before it.
`IngestCycle`, `IngestEvent` and `Output` are the loop of `ingest` and
`consume_evsbuf`; `Eos`, `EosCycle`, `EosCycled`, `Remains` the end of the range
with an output of at most `OutMax + 1` bins per call. Each bin goes to the
coarse binner at once (`HandOn`), with the whole of `ingest_bins`
(`IngestBins`). A failed assertion of `cycle_01` leads to the phase `Panic`.

### Merger

A container is a value type and a sequence of timestamps. `Refill*` is one
result of polling one input in `refill`; `Poll3` is `poll3` with the whole of
`process`: the lowest and second-lowest input, the whole-item and the partial
path, a container of another type (which forces the output out first), the
discard of duplicates, the decision to hand out. `byte_estimate` is a free
choice. `ChannelEvents::Status` is never produced outside tests and left out.
Inputs are ordered over their containers, which the readers guarantee and
`refill` checks per container (`RefillNotMonotonic`).

### RangeFilter2

A container is its sequence of timestamps. The four end flags `inp_done`,
`raco_done`, `done`, `complete` are set one after the other and make up `phase`.
`RecvData` is `handle_item` with `prune_high`: cut at `End`, then search for the
one-before event (`SearchOneBefore`) or pass what is in range (`PassInRange`).
`seen`, `out`, `err`, `raco_out` record the history that the properties compare.

## 3. Runs

| Run | Instance | Shows |
|---|---|---|
| `range_filter` | 5 timestamps around [2, 4), 3 containers of up to 2 events | type, `OutputSafe`, `NoLossAtEnd` (the output equals a filter over the whole input), `NothingAfterRangeComplete`, `StreamEnds` |
| `range_filter_logic` | the same | **violated**: `NeverLogicError` |
| `merger` | 3 inputs, 3 items in all of up to 2 events, 3 timestamps, 2 types | type, `EmittedSorted`, `DuplicatesRemoved`, `NoTimestampLost`, `NoInternalError`, `MergeEnds` |
| `merger_range_complete` | 2 inputs | **violated**: `RangeCompleteForwarded` |
| `connset` | 2 channels, 2 addresses, 2 configurations, 1 search slot, 3 commands, 2 faults of any kind | type, `AssignedHasConn`, `NoHandlerError`, `SearchNotForgotten`, `SearchLimit` |
| `connset_live` | the same with faults other than timeouts | `OneHolder`, `HeldAsConfigured`, `ShutdownEnds`, `SearchResolved` |
| `connset_create_fail` | 1 channel, 1 address | **violated**: `CreateFailSuspectsAddress` |
| `connset_closed_conn` | 1 channel, 1 address | **violated**: `ClosedConnIsNoticed` |
| `caconn` | a monitored enum channel and a polled one, queues of length 1, 3 commands, 2 reads, 1 fault | type, `ConnRefined`, `ReadsRegistered`, `ValuesFromOwnChannel`, `LookupUnderWay`, `NothingLostAtEnd`, `StatusNotLost`, `ShutdownEnds`, `AddedIsCreated` |
| `caconn_enum_handler` | the same | **violated**: `EnumHandlerHasChannel` |
| `store` | 4 times over 3 partitions, 3 retention times, 2 of them read, pages of 1 or 2, 2 faults | type, `MergedSorted`, `ReadComplete`, `OneBeforeFound`, `SettledIsFindable`, `QuietReachesLong`, `ReadEnds` |
| `binning` | 6 bins of 2 ticks, 3 coarse bins, up to 4 events of 2 values, output of 2 bins | type, `BinsMatch`, `CoarseMatch`, `RangeCovered` |

**Bounds.** The range filter treats a container by the position of its events
relative to `Beg`, `End` and the events held back; two events per container
reach every cut of `lo` and `hi`, and three containers reach "held back, held
back again, then emitted together with a following container". The merger
compares the first and last timestamps of two inputs at a time; three inputs
reach ties of all, two events per item the whole-item and the partial path, three
items a refill between two outputs and a type change inside an input. In the
connection set two channels compete for one search slot and share a connection,
two addresses let a channel move; a channel interacts with others only through
the search queue and a shared connection. Three commands and two faults reach a
reconfiguration or removal whose connection dies, or hangs.

In the connection three commands reach add, close and add of the same name, with
answers for the first life under way, and a shutdown; two reads reach an enum
fetch and a poll with ioids next to each other, and a late answer; queues of
length 1 are full at once. In the store, partitions of at least three
milliseconds and rollover intervals of 4, 6 and 8 ticks let each retention time
split differently; pages of one msp and of two events make every read a paged
one; the two ranges begin and end inside and at the edge of a partition, one with
the event before it. Late and failed rows and replaced writers (`MaxFaults`) are
explored without a read, a read with writes between its queries but without
faults (`MaxReadFaults = 0`): with one fault during a read the states exceed what
a run can visit. For the same reason, while a read is under way only those steps
of the writer are explored that change a table it reads (`ReadTables`); the others
happen before or after it. The theorems of section 4 need no such bound for
`ReadComplete`. In the binning an output of two bins fills up in the middle of a
container and at the end; containers hold up to two events (`MaxChunk`); four
events reach two in one bin, one on an edge, gaps
of several bins, and one before the range.

**Deadlock** is checked except in `store`, where the writers may have no more
values and no read be asked for. Elsewhere the only state without a real
successor is the ended stream, where `Ended`, `PollOnComplete`, `Done` and
`Terminated` stutter. In the connection set the ticker never stops before a
shutdown, so the deadlock check is informative after shutdown only, and
`ShutdownEnds` says more.

**Fairness.** In the range filter `WF(Poll)`, in the merger weak fairness of its
own steps and of the end of each input: the consumer polls a stream until it
ends, and inputs end. In the store weak fairness of the reader: it is polled and
its queries are answered; the writers owe nothing. In the connection `WF(Poll)`,
since its task is polled until the stream ends; strong fairness of `FlushSent`,
since the workers drain the insert queues again and again; and of a tick without
health update, since the ticker re-arms itself and the interval of health
updates is longer. The IOC owes nothing: `ShutdownEnds` and `AddedIsCreated`
hold if it never answers. In the connection set weak fairness for each handler,
since `poll_next` visits every queue in each round and is woken by each; for the
steps of a connection task, which is spawned on the runtime; for the answers of
the lookup; for the ticker, which re-arms itself. A connection that is told to
shut down ends, unless it hangs (`ConnStuck`); then `ShutdownEnds` says that all
others end and are joined, and the set waits for that one, having no timeout.
Strong fairness for a positive answer of the finder: a channel that is searched
again and again is eventually found. No fairness for commands and faults. Ticks
with an adverse timeout are never forced.

### Disagreements found

1. `range_filter_logic`: `rangefilter2.rs:190` "checked already above, should
   never get here". The check precedes `prune_high`; a container wholly after the
   range, with the one-before event still searched, ends the stream with
   `Error::Logic`, and the event held in `slot1` is lost.
2. `merger_range_complete`: `RangeComplete` is queued after
   `done_range_complete` is set, and the next poll tests that flag before the
   queue. The documented `rangeFinal` cannot result from a merged stream.
3. `connset_create_fail`: the comment at `conn.rs:3160` wants a re-search; the
   event carries a formatted text that `handle_channel_create_fail` looks up as a
   channel name.
4. `connset_closed_conn`: the comment at `connset.rs:1805` says that the end of
   the connection is noticed anyway; a channel in `UnassigningForConfigChange` is
   not touched by `handle_ca_conn_eos` and its timeout only logs.
5. `caconn_enum_handler`: `enumfetch.rs:83` "This handler must not exist if the
   channel gets removed." Closing a channel leaves the handler; the answer then
   fails with `MissingState`, which ends the whole connection without a flush.

Also visible in the model, without a line that promises otherwise: after a
search timeout the late and the new answer assign a channel twice (`OneHolder`
fails when `"Timeout"` is in `Faults`); a dropped finder query blocks all later
answers (`SearchResolved` fails with `"FinderDrop"`); a channel whose lookup
timed out stays in `Init`; a channel removed while it had no connection stays in
`ToRemove`, and adding it again has no effect. In the parts added later:

* `ItemDropped`: `poll_state` of `lsp_fwd_msp_multi.rs` holds an item, polls on,
  and returns a log item (line 548) if the msps arrive in the same poll and a
  stream is opened ahead. The events of the item are lost. `ReadComplete` and
  `OneBeforeFound` except such reads; removing `~item_lost` from them gives the
  counterexample. (`api4.html:177` promises "the full event values in a given time
  range.")
* The end of a range is cut to milliseconds for partitions and not for events: a
  partition that begins in the last, broken millisecond is not read (`Findable`
  excepts it).
* At the end of a range with exactly `OUT_LEN_MAX + 1` bins left `cycle_01` fails
  its assertion, with more than `2 * (OUT_LEN_MAX + 1)` the last ones are never
  made (`RangeCovered` excepts both).
* A coarse bin weighs a bin in which the series begins like a full one
  (`CoarseMatch` excepts it).
* A channel closed in `Init` stays in `init_state_count`; without protocol every
  tick then fails, and a shutdown does not end (`ShutdownEnds` of `CaConn` is
  stated for a count of zero). The set waits for that connection forever
  (`OthersEnded` in `ShutdownEnds` of `CaConnSet`).
* The msp of a short-term partition that is closed, or that housekeeping puts
  again, goes to the keyspace of `st_rf1`, where no event of it is. After a close
  such a partition has one msp row where its events are, and one failed insert
  makes them unreachable; in the other stores, and when a partition is retired by
  the next one, it takes two. `SettledIsFindable` speaks of the latter; with the
  closed short-term partitions among `settled` TLC gives the counterexample. No
  line of the repository says what the second put is for, so this is not listed as
  a disagreement.
* An enum fetch and the next read use the same ioid. `ValuesFromOwnChannel` holds
  because answers come in order, and fails with `Reorder = TRUE`.
* A value that the long-term store is due for skips the medium one in
  `check_quiet_reput`; `QuietReachesLong` is therefore about the long-term store
  only. A shutdown drops the writers without tick and `on_close`.

## 4. Proofs

Every theorem is about all values of the constants: any number of channels,
addresses, inputs, timestamps, commands, faults, and any queue limits. What is
assumed of the constants is the `ASSUME` of the component's module (finite sets,
natural numbers, markers like `NoAddr` or `"None"` that are not data) and, where
it says so, a hypothesis of the theorem.

| Module | Theorem | Property |
|---|---|---|
| `RangeFilter2_proofs` | `TypeCorrect`, `OutputIsSafe`, `NothingIsLost`, `RangeCompleteIsLast` | `TypeOK`, `OutputSafe`, `NoLossAtEnd`, `NothingAfterRangeComplete` |
| `Merger_proofs` | `TypeCorrect`, `OutputIsSorted`, `NoDuplicates`, `NothingIsLost`, `InternalErrorsNeverOccur` | `TypeOK`, `EmittedSorted`, `DuplicatesRemoved`, `NoTimestampLost`, `NoInternalError` |
| `CaConnSet_proofs` | `AssignedConnExists`, `HandlersDoNotFail` | `AssignedHasConn`, `NoHandlerError` |
| `CaConnSet_proofs` | `TypeCorrect`, `SearchIsNotForgotten`, `SearchesAreLimited` | `TypeOK`, `SearchNotForgotten`, `SearchLimit` |
| `CaConnSetOwner_proofs` | `OneHolderOnly`, `RunsAsAssigned` | `OneHolder`, `HeldAsConfigured`, if `"Timeout" \notin Faults` |
| `CaConn_proofs` | `TypeCorrect`, `ReadsAreRegistered`, `LookupsAreUnderWay`, `NothingIsLostAtEnd`, `StatusIsNotLost` | `TypeOK`, `ReadsRegistered`, `LookupUnderWay`, `NothingLostAtEnd`, `StatusNotLost` |
| `CaConn_proofs` | `ValuesAreOwn` | `ValuesFromOwnChannel`, if `~Reorder` |
| `CaConn_proofs` | `ConnIsRefined` | `ConnRefined` |
| `EventStore_proofs` | `StoreTypes`, `SettledIsFound`, `MergedIsSorted`, `ReadIsComplete` | `TypeOK`, `SettledIsFindable`, `MergedSorted`, `ReadComplete` |
| `EventStore_proofs` | `OneBeforeIsFound` | `OneBeforeFound`, if `FaultFree` |
| `EventStore_proofs` | `QuietIsKept` | `QuietReachesLong`, if `MinQuiet["lt"] # 0` |
| `TimeBin_proofs` | `TypeCorrect`, `BinsAreRight`, `RangeIsCovered` | `TypeOK`, `BinsMatch`, `RangeCovered` |
| `TimeBin_proofs` | `CoarseAreRight` | `CoarseMatch`, if `Coarse <= 2 * (OutMax + 1)` |

The hypotheses are not for convenience. With timeouts among the faults the
set assigns a channel twice, and with answers out of order a value is written for
the wrong channel; the disagreements in section 3 list both, and TLC gives the
counterexamples. With a long-term store that is never quiet (a quiet time of 0), a
value within a millisecond of that store's last one is taken by another store
only, and "later than the quiet time" holds at once, before any tick. `FaultFree`
says that no row is late or lost while a read is under way (`MaxReadFaults = 0`, as
in the run, or no late and lost rows at all): a partition whose msp was written
but whose events were lost counts among the `BckMax` last ones that `msp_bck`
keeps, and may push out the one with the last event before the range. A coarse bin
of more than `2 * (OutMax + 1)` bins (`OUT_LEN_MAX` is 10000) could lie, with
events in it, partly in the rest of the range that is never made.

**Sequences.** The models filter sequences with `Keep` (`Filter`), a recursive
function. The induction theorems of the library take an operator and cannot be
used; `ProofLemmas` derives induction over a *set* of numbers (`NatSetInduction`)
from the library's well-founded subsets, and from it what `Keep` does with a
concatenation, a subsequence, an append, and an order.

**RangeFilter2.** `OutputSafe` is not inductive: whether the next emission keeps
the order depends on what is held back. `IInv` adds `SlotsOK`: what was emitted
and what is held is at or before `tsmax`; `slot1` holds at most one event, before
`Beg` and below `End`, and only while nothing has been emitted; `slot2` holds a
sorted container of the range that continues the output. For `NoLossAtEnd` the
invariant `Flow` says where the input is at any time: while the one-before event
is searched, nothing of the range was seen and `slot1` is the last event before
it; afterwards `out \o slot2` equals the filter over what was seen. That an event
before the range cannot come later (it would be cut) needs that a found
one-before event implies `Beg <= tsmax`. `CutKeeps` shows that the two cuts of
`handle_item` part a container into the events before, in and after the range.
`RacoInv` ties `RangeComplete` to the end phases. Nothing is assumed of the order
of `Beg` and `End`.

**Merger.** `Inv` speaks of `Made`, the events handed out, finished and under
construction, and of what waits in the slots. `Produced`: `Made` is in order,
ends at `dim0ix_max` and has events of the inputs only. `Waiting`: what is in a
slot is in order and not before `dim0ix_max`. `Used`: every event of an input is
in `Made` or in its slot. `Reached`: an open input with an empty slot has
delivered up to `dim0ix_max`, so that its next container, which continues it,
cannot go back behind the output; without this part the order is not inductive.
`CoreStep` shows once that moving events from one slot to the output and dropping
duplicates from the others keeps all four, and `process` is reduced to it
(whole-item path, partial path, incompatible type). `Shape` and `AtEnd` say what
is left in the buffers at the end. Inputs that repeat a timestamp are allowed;
`DuplicatesRemoved` is conditional on inputs that do not.
Of `InternalErrors` only `PartialPathDrainedAllItems` has a path in the model; the
others guard options the code tests just before.

**CaConnSet.** That `handle_ca_conn_eos` takes all channels off a connection it
forgets depends on the reason in the event: after `OnCommand` they stay, which is
harmless only because that reason is never in a queue before the shutdown. That a
health update finds every status series depends on what is in the command queues:
an add that is still under way must be about a channel whose series is known.
`IInv` therefore adds to the two properties `AddrsOK` (a state that has an
address has a real one), `SeriesKnown` (a channel that left
`WaitForStatusSeriesId`, and one that a connection collects, is in
`channel_by_cssid`), `QueuesOK` (every queued add is about a channel in
`channel_by_cssid`, every `ChannelRemoved` names a channel, `OnCommand` is queued
only after the shutdown) and `StateTypeOK`. `AddWithAddrInv`, `ChannelStep`,
`ConnStep` and `QuietStep` say once what the four shapes of step preserve; each
action has a lemma that reduces it to one of them.

`SearchInv` adds the search queues. The work is in `Tick`: a prefix of the queue
is taken, and of it only the channels still in `AddrSearchPlanned` are issued;
`Issued` counts them against the free slots, which gives both that the rest stays
queued and the limit.

`OwnerInv` follows one channel through all queues (`ChanOK`): at most one
connection is active for it, that is holds it or has commands about it, and the
set's state is tied to that one (`OneActive`); it is reported as removed at most
once, and then active nowhere (`OneNote`); the commands about it have one of
three shapes (`CmdShape`); an assigned channel runs as configured or will
(`RunsAsConfigured`); a channel that is searched is free (`SearchedIsFree`).
`OneHolder` alone says nothing about the adds in the queues, which is where a
second holder would come from. `ConnOK` describes the life of a connection, and
the search queues have no channel twice.

**CaConn.** The parts of `IInv` build on each other: types with the queues, where
a command that waits has not used its cid (`TypeInv`); the counter of new
channels (`InitCounted`), without which it could go below zero; a cid belongs to
one channel (`CidsUnique`); ioids not yet used are not registered (`IoidsFresh`),
and then `ReadsRegistered` and `LookupUnderWay` are inductive. For
`ValuesFromOwnChannel`, `ReadsInOrder` says that in the queue of reads an enum
fetch can share its ioid only with the read begun after it. For
`NothingLostAtEnd`, `RowsAccounted` (queued rows are in the queue, the sender or
the database), `OrderlyEnd` and `OpenedOrClosed`.

**Refinement.** `ConnIsRefined` maps the steps: taking an add or close is the
abstract command, with the report of the close; the orderly shutdown is the
abstract one with a `ChannelRemoved` per channel in the same order; an error of
`loop_inner` is the abstract failure, which cuts the events short; an end whose
reason changes while queues are flushed is its own abstract step; handing out an
event is the delivery; everything else (reads, rows, ticks, lookups, and status
events, which `ForSet` hides) changes nothing the set sees.

**EventStore.** `SettledIsFindable` speaks of a state without late rows and with
at most one failure; what is inductive (`MspsKept`) speaks of any state: the row
of a partition that is over is in the table or late, unless two inserts failed;
the row of a partition that is written to is in the table or late, unless one
failed. A partition is put once when it begins and again when it is retired or,
in the medium and long term, closed, and `InsertKeeps` shows that a put row is
in the table, late, or adds to the failures, and that two equal rows of one call
add two. The case that needs the second fact is a close whose tick begins a
partition. Nothing is assumed of the order in which inserts end. The reader
changes neither the tables nor the writer. `QuietReachesLong` is inductive
together with the types: a write makes its own time the newest one, a tick
leaves the newest value as it is (`NewestAfter`) and puts it into the long-term
store where `check_quiet_reput` finds it missing.

The reader needs to know how partitions lie in time. `HInv` is the history of the
tables: of what is written or on its way (`MspsOf`, `EventsOf`), an event is in a
partition that began at most `GridLen + RolloverIvl` before it, an event of an
earlier partition is not later than one of a later partition nor than the grid
cell in which that began (`Hist`), and, if nothing was lost, each partition has an
event of its first grid cell (`Begun`). Rows that are late or lost keep all of it
but the last.

`RInv` describes a stream by what it has and what it will hand on: the pages of a
partition are in order and the query goes on after the last of them (`StreamOK`);
an input's buffer comes before its pages (`InpOK`); the msps read ahead are in
order and the stream of msps goes on after them (`MultiOK`). `Beyond(m, x)` says
that nothing before `x` will come out of a `LspFwdMspMulti`, neither from its
inputs nor from partitions that it has not opened or has not yet heard of, and
`OrderInv` that this holds for everything handed on. That is why partitions have
to be opened before anything of their time goes out (`MustOpen`), and why a
partition that appears in the table while the read is past its time does no harm:
its events are later. `MergedIsSorted` follows.

For `ReadComplete`, `DueInv` follows each event that was there at the start:
either its keyspace is not set up yet; or its partition is among those found
before the range or will be (`BckHas`), where `msp_bck` cuts a partition only if
two later ones began before the range, and then it has no event in the range
(`CutMsp`); or a stream has it, or will fetch it (`Tracked`). Every step of the
merge keeps all events tracked (`TracksAll`), and at the end of the merge what is
tracked has been handed on. `DedupFacts` shows that `Dedup` leaves every time of a
sequence in order. `OneInv` does the same for the event before the range, with a
witness that changes: if its partition is cut, a later partition has a later event
(`LaterEvent`, from `Begun`); when all partitions have answered, it is the latest
event found, from which the streams begin (`ScanBeg`).

**TimeBin.** Between two steps a bin is neither empty nor full. `Active` says
what the open bin holds: count, least, greatest and integral of the part up to
`until`, which is the last event or the begin of the bin; `Blank` is the bin
before the first event, and `Made` a bin that was put out, wherever it is on its
way. `Following` says that the open bin never begins after the next event;
without it an event could be counted in a later bin. The integral is a number of
unit squares, and the steps add disjoint areas (`FiniteSetTheorems`), so no
induction over the events is needed. `OrderInv` numbers the bins made from the
first event on. `EndInv` counts the bins that are left in the two calls of
`cycle_01` at the end, which gives exactly when its assertion fails and when
bins are never made. `CoarseInv` says what the coarse binner knows after the
bins it has been given (`Knows`, `PutOut`); `IngestBins` is a recursive
function, and the invariant is carried through it by induction over a set of
numbers.

**Only model-checked.** The liveness properties (`StreamEnds`, `MergeEnds`,
`ShutdownEnds`, `SearchResolved`, `AddedIsCreated`, `ReadEnds`) with the fairness
they need, which the prover does not have: theorems about `CaConnSet` and
`CaConn` are stated for `SafetySpec`, the specification without fairness. Every
invariant and action property of the passing runs is a theorem. The five
disagreements are counterexamples of TLC.

## 5. Not modelled

* The finder beyond one answer per query (batches, cache, UDP), the series lookup
  beyond one answer: their state is that of a database and of sockets.
* The daemon's event loop; what an acknowledged command promises is nowhere said.
* The choice of cached layers in binned reads and the bin cache: bookkeeping
  around database statements. The binners are modelled.
* Errors of queries in a read: they end it.
* The experimental connection stack (`conn2`, `connset2`) and its channels, which
  the daemon does not reach.
* Codecs, file formats, HTTP, configuration, metrics, database connections,
  bitshuffle: byte layout and I/O, with no state that several actors share.

Most of the repository's lines are of the last two kinds; the modules cover the
parts whose state is shared between tasks or carried from call to call.

## 6. Plan

What the project could take on next, in this order:

1. Binned reads with gap filling (`streams/src/timebin`), between the reader and
   the binner: that cache and gap readers cover the range once.
2. The daemon's reload against the connection set, both waiting for room in a
   bounded channel.
3. `OneBeforeFound` with lost rows: how many the look back of `msp_bck` tolerates.
