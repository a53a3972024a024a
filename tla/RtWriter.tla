------------------------------- MODULE RtWriter -------------------------------
(***************************************************************************)
(* The writer of one series: RtWriter over the three retention times, with *)
(* the rate limit (RateLimitWriter), the partitions (SeriesWriter and      *)
(* MspSplitDyn) of each.                     daqbuf-serieswriter/src       *)
(*                                                                         *)
(* The writer is created when a channel is set up and goes away with it,   *)
(* properly closed or dropped in a shutdown of the connection.  A value    *)
(* that did not change is ignored; here it is not written at all.  Values  *)
(* are stamped with the local clock (ChannelTimestamp::Archiver).          *)
(***************************************************************************)
EXTENDS EventDb

CONSTANTS
    MinQuiet,           \* min_quiets, in milliseconds
    PollSlack,          \* 800 ms if polled, 0 if monitored
    ReputIvl,           \* the hour after which housekeeping puts an msp again
    CountMax,           \* count_max; the byte limit acts alike
    MaxWriters          \* bound: writers

ASSUME WriterAssumption ==
    /\ \A rt \in Rts : MinQuiet[rt] \in Nat
    /\ PollSlack \in Nat /\ ReputIvl \in Nat /\ CountMax \in Nat \ {0} /\ MaxWriters \in Nat

VARIABLES
    now,                \* the clock
    writer,             \* by retention time, see NoState
    last_insert_ts,     \* of RtWriter
    open,               \* there is a writer
    nwriters,           \* bound
    settled             \* history: partitions that are over: retired, or
                        \* closed in the medium or the long term

writerVars == <<now, writer, last_insert_ts, open, nwriters, settled>>

NoMsp == 0 - 1

(* last_insert_ts of RateLimitWriter; last, count, rollover_at of          *)
(* MspSplitDyn; evts_on_msp_write and ts_ts_msp_put_last of SeriesWriter.  *)
State(ts, msp, at, put_at) ==
    [ts |-> ts, msp |-> msp, count |-> 1, rollover_at |-> at,
     put |-> ts, put_at |-> put_at]
NoState == [State(0, NoMsp, 0, 0) EXCEPT !.count = 0]

WriterInit ==
    /\ now = Min(Ts)
    /\ writer = [rt \in Rts |-> NoState]
    /\ last_insert_ts = 0 /\ open = FALSE /\ nwriters = 0
    /\ settled = [rt \in Rts |-> {}]

(* A channel becomes Writable: RtWriter::new.                              *)
NewWriter ==
    /\ ~open /\ open' = TRUE
    /\ nwriters < MaxWriters /\ nwriters' = nwriters + 1
    /\ writer' = [rt \in Rts |-> NoState]
    /\ last_insert_ts' = 0
    /\ UNCHANGED <<now, settled, dbVars>>
-----------------------------------------------------------------------------
(* MspSplitDyn::split.                                                     *)
GridMsp(ts) == Ms((ts \div GridLen) * GridLen)

RolloverDue(w, ts) == w.count >= CountMax \/ w.rollover_at <= ts

Rollover(w, ts) ==
    \/ w.msp = NoMsp
    \/ RolloverDue(w, ts) /\ GridMsp(ts) # w.msp

(* The state after the value of time ts, written at time t.                *)
Split(rt, w, ts, t) ==
    IF Rollover(w, ts)
    THEN State(ts, GridMsp(ts), ts + RolloverIvl[rt], t)
    ELSE [w EXCEPT !.ts = ts,
            !.count = IF RolloverDue(w, ts) THEN @ ELSE @ + 1]

(* Mutant: the retired partition is not put again.                         *)
PutsOnChange(rt, w, ts) ==
    IF Rollover(w, ts) THEN {MspRow(rt, GridMsp(ts))} ELSE {}

(* SeriesWriter::write: the retired msp once more, the new msp, the event. *)
Puts(rt, w, ts) ==
    IF ~Rollover(w, ts) THEN {}
    ELSE {MspRow(rt, GridMsp(ts))} \union
         (IF w.msp = NoMsp THEN {} ELSE {MspRow(rt, w.msp)})

SeriesRows(rt, w, ts) ==
    Puts(rt, w, ts) \union
    {EventRow(rt, IF Rollover(w, ts) THEN GridMsp(ts) ELSE w.msp, ts)}

Retired(rt, w, ts) ==
    IF Rollover(w, ts) /\ w.msp # NoMsp THEN {w.msp} ELSE {}

(* RateLimitWriter::write: is the value accepted?                          *)
Accepts(rt, w, ts) ==
    /\ Ms(ts) + PollSlack >= Ms(w.ts) + MinQuiet[rt]
    /\ ts >= w.ts + MsLen

(* The stores in rts write the value of time ts at time t.                 *)
WriteTo(rts, ts, t) ==
    /\ writer' = [rt \in Rts |-> IF rt \in rts THEN Split(rt, writer[rt], ts, t)
                                 ELSE writer[rt]]
    /\ settled' = [rt \in Rts |-> IF rt \in rts
                       THEN settled[rt] \union Retired(rt, writer[rt], ts)
                       ELSE settled[rt]]
    /\ Insert(UNION {SeriesRows(rt, writer[rt], ts) : rt \in rts})

(* RtWriter::write: a value of time ts arrives.                            *)
Write(ts) ==
    LET rts == {rt \in Rts : Accepts(rt, writer[rt], ts)} IN
    /\ open /\ ts \in Ts /\ ts >= now /\ now' = ts
    /\ ts > last_insert_ts /\ rts # {}
    /\ last_insert_ts' = ts
    /\ WriteTo(rts, ts, ts)
    /\ UNCHANGED <<open, nwriters>>
-----------------------------------------------------------------------------
(* check_quiet_reput: the store with the newest value, the coarser one     *)
(* where two are equal.                                                    *)
Newest == Max({writer[rt].ts : rt \in Rts})
Holder ==
    IF writer["lt"].ts = Newest THEN "lt"
    ELSE IF writer["mt"].ts = Newest THEN "mt" ELSE "st"

QuietFor(rt, t) == Newest + Start(MinQuiet[rt]) <= t

(* Mutant: only the medium store is looked after.                          *)
ReputToNoLong(t) ==
    IF Newest = 0 THEN {}
    ELSE IF Holder = "st" /\ QuietFor("mt", t) THEN {"mt"}
    ELSE {}

(* A quiet value that the coarser stores have not taken is written there.  *)
ReputTo(t) ==
    IF Newest = 0 THEN {}
    ELSE IF Holder \in {"st", "mt"} /\ QuietFor("lt", t) THEN {"lt"}
    ELSE IF Holder = "st" /\ QuietFor("mt", t) THEN {"mt"}
    ELSE {}

(* RtWriter::tick at time t.                                               *)
Tick(t) ==
    /\ open /\ t \in Ts /\ t >= now /\ now' = t
    /\ WriteTo(ReputTo(t), Newest, t)
    /\ UNCHANGED <<last_insert_ts, open, nwriters>>

(* The stores whose msp housekeeping puts again: some time after the last  *)
(* put, and only if there were events since.                               *)
ReputDue == {rt \in Rts : LET w == writer[rt] IN
               /\ w.msp # NoMsp /\ w.ts # w.put
               /\ w.put_at + ReputIvl <= now}

(* Mutant: the time of the put is taken for that of the last event.        *)
ReputAtNow(w) == [w EXCEPT !.put = now, !.put_at = now]

Reput(w) == [w EXCEPT !.put = w.ts, !.put_at = now]

(* Where housekeeping and on_close put the msp of a partition.  do_st_rf1  *)
(* is always set (ChannelConfig::replication), and so the msp of the short *)
(* term goes to st_rf1_qu, while write sends its events to st_rf3_qu.      *)
ReputKs(rt) == IF rt = "st" THEN "st_rf1" ELSE rt

(* RtWriter::housekeeping.                                                 *)
Housekeeping ==
    /\ open /\ ReputDue # {}
    /\ writer' = [rt \in Rts |-> IF rt \in ReputDue THEN Reput(writer[rt])
                                 ELSE writer[rt]]
    /\ Insert({MspRow(ReputKs(rt), writer[rt].msp) : rt \in ReputDue})
    /\ UNCHANGED <<now, last_insert_ts, open, nwriters, settled>>

(* The msp that on_close puts is a row of its own, also if the tick before *)
(* it began that partition: one of the two may fail.                       *)
OnCloseRow(rt, msp) == [MspRow(ReputKs(rt), msp) EXCEPT !.ts = 1]

(* channel_close_by_cid: tick and on_close.                                *)
AfterTick(rt) ==
    IF rt \in ReputTo(now) THEN Split(rt, writer[rt], Newest, now)
    ELSE writer[rt]
WithMsp == {rt \in Rts : AfterTick(rt).msp # NoMsp}

CloseRows ==
    (UNION {SeriesRows(rt, writer[rt], Newest) : rt \in ReputTo(now)})
    \union {OnCloseRow(rt, AfterTick(rt).msp) : rt \in WithMsp}

Close ==
    /\ open /\ open' = FALSE
    /\ writer' = [rt \in Rts |-> NoState]
    /\ settled' = [rt \in Rts |-> settled[rt] \union
         (IF rt \in ReputTo(now) THEN Retired(rt, writer[rt], Newest) ELSE {}) \union
         (IF rt \in WithMsp \ {"st"} THEN {AfterTick(rt).msp} ELSE {})]
    /\ Insert(CloseRows)
    /\ last_insert_ts' = 0
    /\ UNCHANGED <<now, nwriters>>

(* The connection shuts down: the writer is dropped without on_close.      *)
DropWriter ==
    /\ open /\ open' = FALSE
    /\ writer' = [rt \in Rts |-> NoState]
    /\ last_insert_ts' = 0
    /\ UNCHANGED <<now, nwriters, settled, dbVars>>

WriterNext ==
    \/ NewWriter \/ Housekeeping \/ Close \/ DropWriter
    \/ \E ts \in Ts : Write(ts) \/ Tick(ts)
    \/ LateInsert /\ UNCHANGED writerVars
===============================================================================
