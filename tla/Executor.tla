------------------------------ MODULE Executor ------------------------------
(***************************************************************************)
(* The student-code executor of src/executor/executor.c.  The main thread *)
(* runs executor_init() and spins; handle_mode_changes() (the handler     *)
(* thread) polls RUN_MODE and, on a change, cancels and joins mode_thread  *)
(* and starts run_mode_functions() for the new mode.  A mode thread runs  *)
(* the mode's setup function in a child thread (run_function_timeout: a   *)
(* timed wait on a condition variable the child signals when it is done), *)
(* cancels and joins the child, then calls the main function for ever     *)
(* (run_function_loop).  SIGINT runs executor_stop() on the main thread.  *)
(*                                                                         *)
(* Cancellation is deferred: a cancelled thread exits only at a           *)
(* cancellation point (the timed wait, pthread_join, fprintf, and the     *)
(* student code when it calls one, e.g. time.sleep).  pthread_cancel and  *)
(* pthread_join on an id that is not a live, unjoined thread, and         *)
(* pthread_cond_signal on a condition variable that no longer exists, are *)
(* undefined: the process crashes or the call has no effect.              *)
(***************************************************************************)
EXTENDS Naturals

CONSTANTS
    IDLE, AUTO, TELEOP,     \* robot_desc_val_t values of RUN_MODE
    MaxModeChanges,         \* bound on the writes to RUN_MODE
    SetupBehaviours,        \* what a student setup function may do
    MainBehaviours          \* what a student main function may do

(* A behaviour says whether a call of the function returns, and whether   *)
(* it reaches cancellation points while it runs.                          *)
Behaviours == [returns : BOOLEAN, cancellable : BOOLEAN]

ASSUME ConstantsAssumption ==
    /\ MaxModeChanges \in Nat
    /\ SetupBehaviours \subseteq Behaviours /\ SetupBehaviours # {}
    /\ MainBehaviours \subseteq Behaviours /\ MainBehaviours # {}

Modes == {IDLE, AUTO, TELEOP}

(* The handler starts a mode thread and it a setup child for the initial  *)
(* RUN_MODE and for each change.                                          *)
NumTids == 2 * (MaxModeChanges + 1)
Tids == 1 .. NumTids
NoThread == 0

ModePcs  == {"setup", "wait", "waiting", "woken", "timedout", "join_child",
             "main_start", "main", "exited"}
SetupPcs == {"setmode", "call", "signal", "exited"}
CondStates == {"none", "live", "destroyed", "gone"}

VARIABLES
    runMode,        \* RUN_MODE in the robot description (another process)
    modeChanges,    \* writes to RUN_MODE so far
    mainPc,         \* the main thread
    hpc,            \* handle_mode_changes(); "none" before it is created
    hmode,          \* its local mode
    hcancel,        \* a cancel of handler_thread is pending
    modeThread,     \* the global mode_thread (0 until first assigned)
    th,             \* per thread id: the thread's state
    nextTid,        \* the id the next pthread_create returns
    joined,         \* thread ids already joined
    proc            \* "running", "exited" (exit(1)) or "crashed"

vars == <<runMode, modeChanges, mainPc, hpc, hmode, hcancel, modeThread, th,
          nextTid, joined, proc>>

(* kind: "none" (not created), "mode" or "setup".  peer: a mode thread's  *)
(* setup child, or a setup thread's parent.  cond: the mode thread's      *)
(* condition variable, local to run_function_timeout.  beh: the student   *)
(* function the thread is running.  signalled: the setup thread has       *)
(* signalled its parent's condition variable.                             *)
NoBeh == [returns |-> TRUE, cancellable |-> TRUE]
Unused == [kind |-> "none", pc |-> "exited", cancel |-> FALSE, peer |-> NoThread,
           cond |-> "none", beh |-> NoBeh, signalled |-> FALSE]

TypeOK ==
    /\ runMode \in Modes /\ hmode \in Modes
    /\ modeChanges \in 0 .. MaxModeChanges
    /\ mainPc \in {"init", "loop", "stop_cancel_h", "stop_join_h",
                   "stop_cancel_m", "stop_join_m"}
    /\ hpc \in {"none", "read", "cancel", "join", "exited"}
    /\ hcancel \in BOOLEAN
    /\ modeThread \in Tids \cup {NoThread}
    /\ nextTid \in 1 .. NumTids + 1
    /\ joined \subseteq Tids \cup {NoThread}
    /\ proc \in {"running", "exited", "crashed"}
    /\ th \in [Tids -> [kind : {"none", "mode", "setup"},
                        pc : ModePcs \cup SetupPcs, cancel : BOOLEAN,
                        peer : Tids \cup {NoThread}, cond : CondStates,
                        beh : Behaviours, signalled : BOOLEAN]]

(* The state after main() starts: executor_init() has not run yet.        *)
Init ==
    /\ runMode \in Modes /\ modeChanges = 0
    /\ mainPc = "init"
    /\ hpc = "none" /\ hmode = IDLE /\ hcancel = FALSE
    /\ modeThread = NoThread
    /\ th = [t \in Tids |-> Unused]
    /\ nextTid = 1
    /\ joined = {}
    /\ proc = "running"

-----------------------------------------------------------------------------
(* An id pthread_cancel/pthread_join may be given: created, not joined.   *)
Joinable(t) == t \in Tids /\ th[t].kind # "none" /\ t \notin joined

Crash == proc' = "crashed"

(* pthread_cancel(t): a pending request the thread acts on at its next    *)
(* cancellation point.                                                     *)
CancelThread(t) == th' = [th EXCEPT ![t].cancel = TRUE]

(* The calls whose outcome is undefined: pthread_cancel/pthread_join on   *)
(* handler_thread before it is created, or on a mode_thread that is 0 (no *)
(* mode thread yet) or already joined (the last mode was IDLE).           *)
StaleThreadCall ==
    \/ hpc \in {"cancel", "join"} /\ ~Joinable(modeThread)
    \/ mainPc \in {"stop_cancel_h", "stop_join_h"} /\ hpc = "none"
    \/ mainPc \in {"stop_cancel_m", "stop_join_m"} /\ ~Joinable(modeThread)

(* pthread_cond_signal on the condition variable of a run_function_timeout *)
(* that has destroyed it or is no longer on the stack.                     *)
StaleSignal ==
    \E s \in Tids : /\ th[s].kind = "setup" /\ th[s].pc = "signal"
                   /\ th[th[s].peer].cond # "live"

(* Undefined behaviour may bring the process down at the call.  Otherwise *)
(* the call has no effect, and the actions below treat it that way.       *)
UndefinedCall ==
    /\ StaleThreadCall \/ StaleSignal
    /\ Crash
    /\ UNCHANGED <<runMode, modeChanges, mainPc, hpc, hmode, hcancel,
                   modeThread, th, nextTid, joined>>

-----------------------------------------------------------------------------
(* Main thread.  executor_init() (110-180): each import and lookup of the *)
(* Python API and the student module may fail, which calls executor_stop; *)
(* on success main() creates the handler thread (520) and spins.          *)
ExecutorInit ==
    /\ mainPc = "init"
    /\ \/ mainPc' = "loop" /\ hpc' = "read"
       \/ mainPc' = "stop_cancel_h" /\ UNCHANGED hpc
    /\ UNCHANGED <<runMode, modeChanges, hmode, hcancel, modeThread, th,
                   nextTid, joined, proc>>

(* SIGINT: sigintHandler() calls executor_stop() on the main thread.      *)
SigInt ==
    /\ mainPc = "loop"
    /\ mainPc' = "stop_cancel_h"
    /\ UNCHANGED <<runMode, modeChanges, hpc, hmode, hcancel, modeThread, th,
                   nextTid, joined, proc>>

(* executor_stop(): pthread_cancel(handler_thread).                       *)
StopCancelHandler ==
    /\ mainPc = "stop_cancel_h"
    /\ hcancel' = (hpc # "none")
    /\ mainPc' = "stop_join_h"
    /\ UNCHANGED <<runMode, modeChanges, hpc, hmode, modeThread, th, nextTid,
                   joined, proc>>

(* executor_stop(): pthread_join(handler_thread).                         *)
StopJoinHandler ==
    /\ mainPc = "stop_join_h"
    /\ hpc \in {"none", "exited"}
    /\ mainPc' = "stop_cancel_m"
    /\ UNCHANGED <<runMode, modeChanges, hpc, hmode, hcancel, modeThread, th,
                   nextTid, joined, proc>>

(* Mutant: executor_stop joins mode_thread without cancelling it.         *)
StopCancelModeDropped ==
    /\ mainPc = "stop_cancel_m"
    /\ mainPc' = "stop_join_m"
    /\ UNCHANGED <<runMode, modeChanges, hpc, hmode, hcancel, modeThread, th,
                   nextTid, joined, proc>>

(* executor_stop(): pthread_cancel(mode_thread).                          *)
StopCancelMode ==
    /\ mainPc = "stop_cancel_m"
    /\ IF Joinable(modeThread) THEN CancelThread(modeThread) ELSE UNCHANGED th
    /\ mainPc' = "stop_join_m"
    /\ UNCHANGED <<runMode, modeChanges, hpc, hmode, hcancel, modeThread,
                   nextTid, joined, proc>>

(* executor_stop(): pthread_join(mode_thread), the Python and shared      *)
(* memory clean-up, then exit(1).                                         *)
StopJoinMode ==
    /\ mainPc = "stop_join_m"
    /\ \/ Joinable(modeThread) /\ th[modeThread].pc = "exited"
          /\ joined' = joined \cup {modeThread}
       \/ ~Joinable(modeThread) /\ UNCHANGED joined
    /\ proc' = "exited"
    /\ UNCHANGED <<runMode, modeChanges, mainPc, hpc, hmode, hcancel,
                   modeThread, th, nextTid>>

MainStep ==
    ExecutorInit \/ StopCancelHandler \/ StopJoinHandler \/ StopCancelMode
    \/ StopJoinMode
-----------------------------------------------------------------------------
(* handle_mode_changes(), 387-404.                                        *)

(* One turn of the loop that sees RUN_MODE differ from the local mode.    *)
(* fprintf is a cancellation point, so a pending cancel ends the thread   *)
(* first.                                                                 *)
HandlerRead ==
    /\ hpc = "read" /\ ~hcancel
    /\ runMode # hmode
    /\ hmode' = runMode /\ hpc' = "cancel"
    /\ UNCHANGED <<runMode, modeChanges, mainPc, hcancel, modeThread, th,
                   nextTid, joined, proc>>

(* A turn of the loop that sees no change: the handler keeps polling.     *)
HandlerPoll ==
    /\ hpc = "read" /\ ~hcancel
    /\ runMode = hmode
    /\ UNCHANGED vars

(* A cancel of the handler takes effect at fprintf or pthread_join.       *)
HandlerCancelled ==
    /\ hpc \in {"read", "join"} /\ hcancel
    /\ hpc' = "exited"
    /\ UNCHANGED <<runMode, modeChanges, mainPc, hmode, hcancel, modeThread,
                   th, nextTid, joined, proc>>

(* Mutant: the pthread_cancel before the join is left out.                *)
HandlerCancelDropped ==
    /\ hpc = "cancel"
    /\ hpc' = "join"
    /\ UNCHANGED <<runMode, modeChanges, mainPc, hmode, hcancel, modeThread,
                   th, nextTid, joined, proc>>

(* pthread_cancel(mode_thread).                                           *)
HandlerCancel ==
    /\ hpc = "cancel"
    /\ IF Joinable(modeThread) THEN CancelThread(modeThread) ELSE UNCHANGED th
    /\ hpc' = "join"
    /\ UNCHANGED <<runMode, modeChanges, mainPc, hmode, hcancel, modeThread,
                   nextTid, joined, proc>>

(* A new mode thread running run_mode_functions(), about to do the setup. *)
NewModeThread == [Unused EXCEPT !.kind = "mode", !.pc = "setup"]

(* Mutant: the new mode thread is started without waiting for the old    *)
(* one to end (the pthread_join left out).                                *)
HandlerJoinNoWait ==
    /\ hpc = "join" /\ ~hcancel
    /\ UNCHANGED joined
    /\ IF hmode # IDLE
       THEN /\ nextTid \in Tids
            /\ th' = [th EXCEPT ![nextTid] = NewModeThread]
            /\ modeThread' = nextTid /\ nextTid' = nextTid + 1
       ELSE UNCHANGED <<th, modeThread, nextTid>>
    /\ hpc' = "read"
    /\ UNCHANGED <<runMode, modeChanges, mainPc, hmode, hcancel, proc>>

(* pthread_join(mode_thread) returns once the thread has ended; then, for *)
(* a mode other than IDLE, pthread_create(&mode_thread, ...).             *)
HandlerJoin ==
    /\ hpc = "join" /\ ~hcancel
    /\ \/ Joinable(modeThread) /\ th[modeThread].pc = "exited"
          /\ joined' = joined \cup {modeThread}
       \/ ~Joinable(modeThread) /\ UNCHANGED joined
    /\ IF hmode # IDLE
       THEN /\ nextTid \in Tids
            /\ th' = [th EXCEPT ![nextTid] = NewModeThread]
            /\ modeThread' = nextTid /\ nextTid' = nextTid + 1
       ELSE UNCHANGED <<th, modeThread, nextTid>>
    /\ hpc' = "read"
    /\ UNCHANGED <<runMode, modeChanges, mainPc, hmode, hcancel, proc>>

HandlerStep ==
    HandlerRead \/ HandlerPoll \/ HandlerCancelled \/ HandlerCancel \/ HandlerJoin

-----------------------------------------------------------------------------
(* A mode thread t: run_mode_functions(), 366-378, with                   *)
(* run_function_timeout() for the setup and run_function_loop() for main. *)

(* run_function_timeout(): args->cond = &cond, lock the mutex, compute the *)
(* deadline, pthread_create the setup thread running run_py_function.     *)
ModeSetup(t) ==
    /\ th[t].pc = "setup" /\ nextTid \in Tids
    /\ th' = [th EXCEPT ![t].pc = "wait", ![t].peer = nextTid,
                        ![t].cond = "live",
                        ![nextTid] = [Unused EXCEPT !.kind = "setup",
                                                    !.pc = "setmode",
                                                    !.peer = t]]
    /\ nextTid' = nextTid + 1
    /\ UNCHANGED <<runMode, modeChanges, mainPc, hpc, hmode, hcancel,
                   modeThread, joined, proc>>

(* pthread_cond_timedwait releases the mutex and blocks.  A signal sent   *)
(* before this point finds no waiter and is lost.                         *)
ModeEnterWait(t) ==
    /\ th[t].pc = "wait" /\ ~th[t].cancel
    /\ th' = [th EXCEPT ![t].pc = "waiting"]
    /\ UNCHANGED <<runMode, modeChanges, mainPc, hpc, hmode, hcancel,
                   modeThread, nextTid, joined, proc>>

(* The deadline passes: ETIMEDOUT, logged as a setup that took too long.  *)
ModeTimeout(t) ==
    /\ th[t].pc = "waiting"
    /\ th' = [th EXCEPT ![t].pc = "timedout"]
    /\ UNCHANGED <<runMode, modeChanges, mainPc, hpc, hmode, hcancel,
                   modeThread, nextTid, joined, proc>>

(* A spurious wakeup: the wait returns 0 with no signal (there is no      *)
(* predicate to recheck).                                                 *)
ModeSpurious(t) ==
    /\ th[t].pc = "waiting"
    /\ th' = [th EXCEPT ![t].pc = "woken"]
    /\ UNCHANGED <<runMode, modeChanges, mainPc, hpc, hmode, hcancel,
                   modeThread, nextTid, joined, proc>>

(* Unlock and destroy the mutex, destroy cond, pthread_cancel(tid).        *)
ModeCleanup(t) ==
    /\ th[t].pc \in {"woken", "timedout"}
    /\ th' = [th EXCEPT ![t].pc = "join_child", ![t].cond = "destroyed",
                        ![th[t].peer].cancel = TRUE]
    /\ UNCHANGED <<runMode, modeChanges, mainPc, hpc, hmode, hcancel,
                   modeThread, nextTid, joined, proc>>

(* pthread_join(tid) returns when the setup thread has ended; then        *)
(* run_function_timeout returns and its cond leaves the stack.            *)
ModeJoinChild(t) ==
    /\ th[t].pc = "join_child" /\ ~th[t].cancel
    /\ th[th[t].peer].pc = "exited"
    /\ th' = [th EXCEPT ![t].pc = "main_start", ![t].cond = "gone"]
    /\ joined' = joined \cup {th[t].peer}
    /\ UNCHANGED <<runMode, modeChanges, mainPc, hpc, hmode, hcancel,
                   modeThread, nextTid, proc>>

(* run_function_loop(): setting Gamepad.mode may fail, and the error path *)
(* calls pthread_cond_signal(args->cond) with cond NULL; a missing main   *)
(* function returns; otherwise the main function is called for ever.      *)
ModeMainStart(t) ==
    /\ th[t].pc = "main_start"
    /\ \/ Crash /\ UNCHANGED th
       \/ th' = [th EXCEPT ![t].pc = "exited"] /\ UNCHANGED proc
       \/ \E b \in MainBehaviours :
              th' = [th EXCEPT ![t].pc = "main", ![t].beh = b] /\ UNCHANGED proc
    /\ UNCHANGED <<runMode, modeChanges, mainPc, hpc, hmode, hcancel,
                   modeThread, nextTid, joined>>

(* One more turn of run_function_loop's while (1): the main function is  *)
(* called again (and runs for ever if it never returns).                  *)
ModeMainCall(t) ==
    /\ th[t].pc = "main"
    /\ UNCHANGED vars

(* A pending cancel takes effect at the timed wait, at pthread_join, or   *)
(* inside a main function that reaches cancellation points.  The thread   *)
(* ends without a clean-up handler for the setup thread or the cond.      *)
ModeCancelled(t) ==
    /\ th[t].cancel
    /\ \/ th[t].pc \in {"wait", "waiting", "join_child"}
       \/ th[t].pc = "main" /\ th[t].beh.cancellable
    /\ th' = [th EXCEPT ![t].pc = "exited", ![t].cond = "gone"]
    /\ UNCHANGED <<runMode, modeChanges, mainPc, hpc, hmode, hcancel,
                   modeThread, nextTid, joined, proc>>

ModeStep(t) ==
    /\ th[t].kind = "mode"
    /\ \/ ModeSetup(t) \/ ModeEnterWait(t) \/ ModeTimeout(t)
       \/ ModeSpurious(t) \/ ModeCleanup(t) \/ ModeJoinChild(t)
       \/ ModeMainStart(t) \/ ModeMainCall(t) \/ ModeCancelled(t)

-----------------------------------------------------------------------------
(* A setup thread s: run_py_function(), 196-241.                          *)

(* Set Gamepad.mode; on failure signal args->cond and return.  Otherwise  *)
(* look the function up and call it.                                      *)
SetupSetMode(s) ==
    /\ th[s].pc = "setmode"
    /\ \/ th' = [th EXCEPT ![s].pc = "signal"]
       \/ \E b \in SetupBehaviours :
              th' = [th EXCEPT ![s].pc = "call", ![s].beh = b]
    /\ UNCHANGED <<runMode, modeChanges, mainPc, hpc, hmode, hcancel,
                   modeThread, nextTid, joined, proc>>

(* The student setup function returns (or is not found).                  *)
SetupReturn(s) ==
    /\ th[s].pc = "call" /\ th[s].beh.returns
    /\ th' = [th EXCEPT ![s].pc = "signal"]
    /\ UNCHANGED <<runMode, modeChanges, mainPc, hpc, hmode, hcancel,
                   modeThread, nextTid, joined, proc>>

(* The student setup function is still running.                          *)
SetupRunning(s) ==
    /\ th[s].pc = "call"
    /\ UNCHANGED vars

(* A pending cancel takes effect inside a function that reaches a         *)
(* cancellation point.                                                    *)
SetupCancelled(s) ==
    /\ th[s].pc = "call" /\ th[s].cancel /\ th[s].beh.cancellable
    /\ th' = [th EXCEPT ![s].pc = "exited"]
    /\ UNCHANGED <<runMode, modeChanges, mainPc, hpc, hmode, hcancel,
                   modeThread, nextTid, joined, proc>>

(* pthread_cond_signal(args->cond), without the mutex: it wakes the       *)
(* parent only if the parent is blocked in the timed wait.                *)
SetupSignal(s) ==
    /\ th[s].pc = "signal"
    /\ LET p == th[s].peer
       IN  th' = [th EXCEPT ![s].pc = "exited", ![s].signalled = TRUE,
                            ![p].pc = IF @ = "waiting" /\ th[p].cond = "live"
                                      THEN "woken" ELSE @]
    /\ UNCHANGED <<runMode, modeChanges, mainPc, hpc, hmode, hcancel,
                   modeThread, nextTid, joined, proc>>

SetupStep(s) ==
    /\ th[s].kind = "setup"
    /\ \/ SetupSetMode(s) \/ SetupReturn(s) \/ SetupRunning(s)
       \/ SetupCancelled(s) \/ SetupSignal(s)

-----------------------------------------------------------------------------
(* Another process writes RUN_MODE.                                       *)
SetRunMode(m) ==
    /\ modeChanges < MaxModeChanges /\ m # runMode
    /\ runMode' = m /\ modeChanges' = modeChanges + 1
    /\ UNCHANGED <<mainPc, hpc, hmode, hcancel, modeThread, th, nextTid,
                   joined, proc>>

Terminated == proc # "running" /\ UNCHANGED vars

Next ==
    \/ /\ proc = "running"
       /\ \/ MainStep \/ SigInt \/ HandlerStep \/ UndefinedCall
          \/ \E t \in Tids : ModeStep(t) \/ SetupStep(t)
          \/ \E m \in Modes : SetRunMode(m)
    \/ Terminated

(* Every thread is scheduled while it can run, a returning student        *)
(* function returns and a timed wait times out.  SIGINT, RUN_MODE writes  *)
(* and the undefined outcomes are not owed.                               *)
Spec ==
    /\ Init /\ [][Next]_vars
    /\ WF_vars(proc = "running" /\ MainStep)
    /\ WF_vars(proc = "running" /\ HandlerStep)
    /\ \A t \in Tids : /\ WF_vars(proc = "running" /\ ModeStep(t))
                      /\ WF_vars(proc = "running" /\ SetupStep(t))
-----------------------------------------------------------------------------
(* A thread that has been created and has not ended.                      *)
Live(t, k) == th[t].kind = k /\ th[t].pc # "exited"

(* The Python interpreter is used by a setup thread from Gamepad.mode to  *)
(* the end of the call, and by a mode thread from run_function_loop on.   *)
InPython(t) ==
    \/ Live(t, "setup") /\ th[t].pc \in {"setmode", "call"}
    \/ Live(t, "mode") /\ th[t].pc \in {"main_start", "main"}

(* handle_mode_changes "ensures any previously running thread is          *)
(* terminated first": at most one mode thread is alive at any time.       *)
OneModeThread ==
    \A t, u \in Tids : Live(t, "mode") /\ Live(u, "mode") => t = u

(* Once RUN_MODE stops changing, the handler catches up with it and goes  *)
(* back to polling: a mode change is never left half done (cancel and     *)
(* join of the old mode thread, start of the new one).  A process that is *)
(* stopping is left to StopTerminates.                                    *)
ModeChangeTakesEffect ==
    <>[](proc # "running" \/ mainPc \notin {"init", "loop"}
         \/ (hpc = "read" /\ hmode = runMode))

(* After SIGINT (or a failed executor_init) the process ends: every join  *)
(* in executor_stop returns.                                              *)
StopTerminates ==
    (mainPc \notin {"init", "loop"}) ~> (proc # "running")

(* Student code runs in one thread at a time: the setup and main         *)
(* functions, of this mode or of an earlier one, never share the         *)
(* interpreter.                                                           *)
StudentCodeExclusive ==
    \A t, u \in Tids : InPython(t) /\ InPython(u) => t = u

(* run_function_timeout logs "taking longer than ... and was timed out"   *)
(* only for a setup function that has not finished: a wait never times   *)
(* out after the setup thread has signalled.                              *)
TimeoutMeansSetupRunning ==
    [][\A t \in Tids :
           (th[t].pc = "waiting" /\ th'[t].pc = "timedout")
               => ~th[th[t].peer].signalled]_vars

(* No pthread call is made on an object that no longer exists: every     *)
(* pthread_cancel and pthread_join is given a thread that was created and *)
(* not yet joined, and run_py_function signals the condition variable     *)
(* only while the run_function_timeout that owns it is still using it.   *)
NoUndefinedThreadOp == ~StaleThreadCall /\ ~StaleSignal
-----------------------------------------------------------------------------
(* The refinement mapping to ModeSwitching: the handler's phase from its   *)
(* program counter, and the state of the mode thread mode_thread names.    *)
HandlerPhase(pc) ==
    CASE pc = "none"               -> "none"
      [] pc = "read"               -> "polling"
      [] pc \in {"cancel", "join"} -> "replacing"
      [] pc = "exited"             -> "gone"

ModeThreadState ==
    IF modeThread = NoThread THEN "none"
    ELSE IF th[modeThread].pc = "exited" THEN "ended" ELSE "running"

Switching == INSTANCE ModeSwitching WITH
    runMode <- runMode, accepted <- hmode, handler <- HandlerPhase(hpc),
    current <- ModeThreadState, proc <- proc

(* The executor implements ModeSwitching: handle_mode_changes starts a    *)
(* mode thread only after the previous one has ended and only for a mode  *)
(* it took from RUN_MODE, and executor_stop exits only once the handler    *)
(* and the mode thread are gone.                                          *)
ImplementsModeSwitching == Switching!MSpec
=============================================================================
