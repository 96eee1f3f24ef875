--------------------------- MODULE RelayLifecycle ---------------------------
(***************************************************************************)
(* What one device's relay promises, as the supervisor state machine of    *)
(* the design (OPENING .. HANDSHAKING, ACTIVE, TEARDOWN) sees it: the      *)
(* supervisor goes through its phases in order, the start flag is raised   *)
(* only by a successful handshake, the worker threads (sender, receiver)   *)
(* start work only once it is raised and stop only once they have been     *)
(* cancelled, and the relay is freed only after the cancellation.          *)
(*                                                                         *)
(* The setup phase stands for OPENING, CLAIMING_INTERFACE,                 *)
(* DISCOVERING_ENDPOINTS and HANDSHAKING; "done" is the freed relay.       *)
(* Nothing here says that the workers have stopped when the relay is       *)
(* freed: that is Relay's TeardownWaitsForThreads, which the code breaks.  *)
(***************************************************************************)
VARIABLES
    phase,       \* "setup", "active", "teardown" or "done"
    started,     \* the start flag seen by the workers
    identified,  \* the device identity has been read by the handshake
    cancelled,   \* the workers have been asked to stop
    worker       \* worker -> "waiting", "working" or "stopped"

lvars == <<phase, started, identified, cancelled, worker>>

Workers == {"sender", "receiver"}
Phases  == {"setup", "active", "teardown", "done"}

LTypeOK ==
    /\ phase \in Phases
    /\ started \in BOOLEAN /\ identified \in BOOLEAN /\ cancelled \in BOOLEAN
    /\ worker \in [Workers -> {"waiting", "working", "stopped"}]

LInit ==
    /\ phase = "setup"
    /\ started = FALSE /\ identified = FALSE /\ cancelled = FALSE
    /\ worker = [w \in Workers |-> "waiting"]

(* The handshake succeeds: the identity is known and the workers may go.  *)
Handshake ==
    /\ phase = "setup"
    /\ phase' = "active" /\ started' = TRUE /\ identified' = TRUE
    /\ UNCHANGED <<cancelled, worker>>

(* Setup fails (no config, no usable interface, no valid response), or   *)
(* the active device is gone or timed out: the supervisor tears down.     *)
Abort ==
    /\ phase = "setup"
    /\ phase' = "teardown"
    /\ UNCHANGED <<started, identified, cancelled, worker>>

Lost ==
    /\ phase = "active"
    /\ phase' = "teardown"
    /\ UNCHANGED <<started, identified, cancelled, worker>>

Cancel ==
    /\ phase = "teardown" /\ ~cancelled
    /\ cancelled' = TRUE
    /\ UNCHANGED <<phase, started, identified, worker>>

Free ==
    /\ phase = "teardown" /\ cancelled
    /\ phase' = "done"
    /\ UNCHANGED <<started, identified, cancelled, worker>>

(* A worker passes the start gate, or stops at a cancellation point.      *)
Begin(w) ==
    /\ started /\ worker[w] = "waiting"
    /\ worker' = [worker EXCEPT ![w] = "working"]
    /\ UNCHANGED <<phase, started, identified, cancelled>>

Stop(w) ==
    /\ cancelled /\ worker[w] # "stopped"
    /\ worker' = [worker EXCEPT ![w] = "stopped"]
    /\ UNCHANGED <<phase, started, identified, cancelled>>

LNext ==
    \/ Handshake \/ Abort \/ Lost \/ Cancel \/ Free
    \/ \E w \in Workers : Begin(w) \/ Stop(w)

LSpec == LInit /\ [][LNext]_lvars
=============================================================================
