--------------------------- MODULE ModeSwitching ----------------------------
(***************************************************************************)
(* What the executor promises about its modes, as handle_mode_changes()   *)
(* describes it ("ensures any previously running thread is terminated     *)
(* first") and executor_stop() carries out: the handler accepts a new     *)
(* RUN_MODE, stops the current mode thread and starts one for the new     *)
(* mode (none for IDLE) only once the old one has ended; the process exits *)
(* normally only when the handler is gone and no mode thread runs.  It     *)
(* may crash at any time (the undefined pthread calls).                    *)
(*                                                                         *)
(* The setup threads are not part of this view: whether they still run is *)
(* the detailed model's StudentCodeExclusive, which the code breaks.       *)
(***************************************************************************)
CONSTANTS IDLE, AUTO, TELEOP

VARIABLES
    runMode,    \* RUN_MODE in the robot description
    accepted,   \* the mode the handler last took from RUN_MODE
    handler,    \* "none", "polling", "replacing" or "gone"
    current,    \* the mode thread: "none" yet, "running" or "ended"
    proc        \* "running", "exited" or "crashed"

mvars == <<runMode, accepted, handler, current, proc>>

SModes == {IDLE, AUTO, TELEOP}

MTypeOK ==
    /\ runMode \in SModes /\ accepted \in SModes
    /\ handler \in {"none", "polling", "replacing", "gone"}
    /\ current \in {"none", "running", "ended"}
    /\ proc \in {"running", "exited", "crashed"}

MInit ==
    /\ runMode \in SModes /\ accepted = IDLE
    /\ handler = "none" /\ current = "none" /\ proc = "running"

(* Another process writes RUN_MODE.                                       *)
ChangeMode(m) ==
    /\ m # runMode /\ runMode' = m
    /\ UNCHANGED <<accepted, handler, current, proc>>

(* The handler thread is created and starts polling.                      *)
StartHandler ==
    /\ handler = "none" /\ handler' = "polling"
    /\ UNCHANGED <<runMode, accepted, current, proc>>

(* The handler sees RUN_MODE differ from the mode it runs.                *)
Accept ==
    /\ handler = "polling" /\ runMode # accepted
    /\ accepted' = runMode /\ handler' = "replacing"
    /\ UNCHANGED <<runMode, current, proc>>

(* The old mode thread has ended: a thread for the accepted mode starts,  *)
(* unless that mode is IDLE, and the handler polls again.                 *)
Replace ==
    /\ handler = "replacing" /\ current # "running"
    /\ current' = IF accepted # IDLE THEN "running" ELSE current
    /\ handler' = "polling"
    /\ UNCHANGED <<runMode, accepted, proc>>

(* The mode thread ends (cancelled, or no main function).                 *)
ModeEnds ==
    /\ current = "running" /\ current' = "ended"
    /\ UNCHANGED <<runMode, accepted, handler, proc>>

(* The handler is cancelled.                                              *)
HandlerGone ==
    /\ handler \in {"polling", "replacing"} /\ handler' = "gone"
    /\ UNCHANGED <<runMode, accepted, current, proc>>

(* exit(1) at the end of executor_stop.                                   *)
Exit ==
    /\ handler \in {"none", "gone"} /\ current # "running"
    /\ proc' = "exited"
    /\ UNCHANGED <<runMode, accepted, handler, current>>

Fault ==
    /\ proc' = "crashed"
    /\ UNCHANGED <<runMode, accepted, handler, current>>

MNext ==
    /\ proc = "running"
    /\ \/ \E m \in SModes : ChangeMode(m)
       \/ StartHandler \/ Accept \/ Replace \/ ModeEnds \/ HandlerGone
       \/ Exit \/ Fault

MSpec == MInit /\ [][MNext]_mvars
=============================================================================
