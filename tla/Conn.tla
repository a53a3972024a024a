--------------------------------- MODULE Conn ---------------------------------
(***************************************************************************)
(* What a connection task promises to the connection set that started it:  *)
(* the interface between daqbuf-netfetch/src/ca/conn.rs and connset.rs.    *)
(*                                                                         *)
(* Commands are taken in order.  A channel that is held stays held until   *)
(* it is closed, and each close is reported once.  When the connection     *)
(* ends, either every channel it held is reported as removed before the    *)
(* end, or an error cuts the events short; in both cases the end of the    *)
(* stream is the last event, it comes once, and nothing is held any more.  *)
(*                                                                         *)
(* CaConn implements this specification.                                   *)
(***************************************************************************)
EXTENDS Sequences, SequencesExt, Integers

CONSTANTS Chans, Configs, NoCfg, FailText

VARIABLES
    conn,   \* "none", "up", or "ended": its end is not handled yet
    cmds,   \* commands that the connection has not taken
    held,   \* the configuration each channel is held with, or NoCfg
    evs     \* events that the set has not handled

vars == <<conn, cmds, held, evs>>

ConnEvent(k, c, n) == [k |-> k, ch |-> c, name |-> n]
ChannelRemoved(c) == ConnEvent("ChannelRemoved", c, c)
EndOfStream(reason) == ConnEvent("EndOfStream", FailText, reason)

NothingHeld == [c \in Chans |-> NoCfg]
Held == {c \in Chans : held[c] # NoCfg}

Init == conn \in {"none", "up"} /\ cmds = <<>> /\ held = NothingHeld
        /\ evs = <<>>
-----------------------------------------------------------------------------
(* Steps of the set.                                                       *)

(* The set starts the connection, sends commands, handles an event.        *)
SetStep ==
    /\ conn' = conn \/ (conn = "none" /\ conn' = "up")
    /\ IsPrefix(cmds, cmds')
    /\ evs' = evs \/ (evs # <<>> /\ Head(evs).k # "EndOfStream"
                       /\ evs' = Tail(evs))
    /\ UNCHANGED held

(* The set handles the end and forgets what it had queued.                 *)
SetHandlesEnd ==
    /\ evs # <<>> /\ Head(evs).k = "EndOfStream"
    /\ conn = "ended" /\ conn' = "none"
    /\ cmds' = <<>> /\ evs' = Tail(evs)
    /\ UNCHANGED held
-----------------------------------------------------------------------------
(* Steps of the connection.                                                *)

TakeAdd ==
    LET cmd == Head(cmds) IN
    /\ conn = "up" /\ cmds # <<>> /\ cmd.k = "ChannelAdd"
    /\ cmds' = Tail(cmds)
    /\ held' = IF held[cmd.ch] = NoCfg
               THEN [held EXCEPT ![cmd.ch] = cmd.cfg] ELSE held
    /\ UNCHANGED <<conn, evs>>

TakeClose ==
    LET cmd == Head(cmds) IN
    /\ conn = "up" /\ cmds # <<>> /\ cmd.k = "ChannelClose"
    /\ cmds' = Tail(cmds)
    /\ held' = [held EXCEPT ![cmd.ch] = NoCfg]
    /\ evs' = IF held[cmd.ch] # NoCfg
              THEN Append(evs, ChannelRemoved(cmd.ch)) ELSE evs
    /\ UNCHANGED conn

CreateFail ==
    /\ conn = "up"
    /\ \E c \in Chans :
         evs' = Append(evs, ConnEvent("ChannelCreateFail", c, FailText))
    /\ UNCHANGED <<conn, cmds, held>>

Shutdown(reason) ==
    /\ conn = "up" /\ conn' = "ended"
    /\ held' = NothingHeld
    /\ \E s \in SetToSeqs(Held) :
         evs' = Append(evs \o [i \in 1..Len(s) |-> ChannelRemoved(s[i])],
                       EndOfStream(reason))
    /\ UNCHANGED cmds

Error ==
    /\ conn = "up" /\ conn' = "ended"
    /\ held' = NothingHeld
    /\ \E n \in 0..Len(evs) :
         evs' = Append(SubSeq(evs, 1, n), EndOfStream("Failed"))
    /\ UNCHANGED cmds

(* A connection that is still writing out its queues when something fails. *)
ReasonReplaced ==
    /\ conn = "ended" /\ evs # <<>> /\ Last(evs).k = "EndOfStream"
    /\ evs' = [evs EXCEPT ![Len(evs)] = EndOfStream("Failed")]
    /\ UNCHANGED <<conn, cmds, held>>

Next ==
    \/ SetStep \/ SetHandlesEnd
    \/ TakeAdd \/ TakeClose \/ CreateFail
    \/ \E reason \in {"OnCommand", "Failed"} : Shutdown(reason)
    \/ Error \/ ReasonReplaced

Spec == Init /\ [][Next]_vars
===============================================================================
