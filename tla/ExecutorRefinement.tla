------------------------- MODULE ExecutorRefinement -------------------------
(***************************************************************************)
(* Proof that the executor model implements ModeSwitching under the        *)
(* mapping of Executor's refinement section: every step of the main,       *)
(* handler, mode and setup threads is a step of the abstract mode switch   *)
(* or leaves its image unchanged.  It rests on ExecutorProofs' invariant   *)
(* IInv (mode_thread names the only mode thread that may be alive) and on  *)
(* StopInv below.                                                          *)
(***************************************************************************)
EXTENDS ExecutorProofs

USE ConstantsAssumption DEF NumTids, Tids, NoThread

(* executor_stop reaches pthread_cancel(mode_thread) only after its        *)
(* pthread_join(handler_thread) returned: from then on the handler is gone *)
(* (or was never created) and cannot start another mode thread.            *)
(* Before executor_init has finished there is no handler thread either.   *)
StopInv ==
    /\ mainPc = "init" => hpc = "none"
    /\ mainPc \in {"stop_cancel_m", "stop_join_m"} => hpc \in {"none", "exited"}

RInv == IInv /\ StopInv

LEMMA StopInvStep == StopInv /\ [Next]_vars => StopInv'
<1> SUFFICES ASSUME StopInv, [Next]_vars PROVE StopInv'
  OBVIOUS
<1>1. CASE ExecutorInit \/ SigInt \/ StopCancelHandler \/ StopJoinHandler
  BY <1>1 DEF ExecutorInit, SigInt, StopCancelHandler, StopJoinHandler, StopInv
<1>2. CASE HandlerRead \/ HandlerPoll \/ HandlerCancelled \/ HandlerCancel
           \/ HandlerJoin
  BY <1>2 DEF HandlerRead, HandlerPoll, HandlerCancelled, HandlerCancel,
              HandlerJoin, StopInv, vars
<1>3. CASE \/ StopCancelMode \/ StopJoinMode \/ UndefinedCall
           \/ \E m \in Modes : SetRunMode(m)
           \/ \E t \in Tids : ModeStep(t) \/ SetupStep(t)
           \/ Terminated \/ UNCHANGED vars
  <2>1. CASE \/ StopCancelMode \/ StopJoinMode \/ UndefinedCall
             \/ \E m \in Modes : SetRunMode(m)
             \/ Terminated \/ UNCHANGED vars
    BY <2>1 DEF StopCancelMode, StopJoinMode, UndefinedCall, SetRunMode,
                Terminated, vars, StopInv
  <2>2. CASE \E t \in Tids : ModeStep(t)
    <3>1. PICK t \in Tids : ModeStep(t)
      BY <2>2
    <3>2. UNCHANGED <<mainPc, hpc>>
      BY <3>1 DEF ModeStep, ModeSetup, ModeEnterWait, ModeTimeout,
                  ModeSpurious, ModeCleanup, ModeJoinChild, ModeMainStart,
                  ModeMainCall, ModeCancelled, vars
    <3>3. QED
      BY <3>2 DEF StopInv
  <2>3. CASE \E s \in Tids : SetupStep(s)
    <3>1. PICK s \in Tids : SetupStep(s)
      BY <2>3
    <3>2. UNCHANGED <<mainPc, hpc>>
      BY <3>1 DEF SetupStep, SetupSetMode, SetupReturn, SetupRunning,
                  SetupCancelled, SetupSignal, vars
    <3>3. QED
      BY <3>2 DEF StopInv
  <2>4. QED
    BY <1>3, <2>1, <2>2, <2>3
<1>4. QED
  BY <1>1, <1>2, <1>3 DEF Next, MainStep, HandlerStep

LEMMA RInvariant == Spec => []RInv
<1>1. Init => RInv
  BY InitIInv DEF Init, RInv, StopInv
<1>2. RInv /\ [Next]_vars => RInv'
  BY IInvStep, StopInvStep DEF RInv
<1>3. QED
  BY <1>1, <1>2, PTL DEF Spec

-----------------------------------------------------------------------------
(* A step that keeps RUN_MODE, the handler's mode and phase, the process  *)
(* and the state of the mode thread is an abstract stutter.               *)
LEMMA SwitchStutter ==
  ASSUME UNCHANGED <<runMode, hmode, proc>>,
         HandlerPhase(hpc') = HandlerPhase(hpc),
         ModeThreadState' = ModeThreadState
  PROVE  UNCHANGED Switching!mvars
BY DEF Switching!mvars

(* The abstract mode thread's state depends only on whether the thread    *)
(* mode_thread names has ended.                                           *)
LEMMA SameModeState ==
  ASSUME modeThread' = modeThread,
         modeThread # NoThread =>
           (th'[modeThread].pc = "exited" <=> th[modeThread].pc = "exited")
  PROVE  ModeThreadState' = ModeThreadState
BY DEF ModeThreadState

(* A setup thread's step ends no other thread and revives none.           *)
LEMMA SetupKeepsExited ==
  ASSUME th \in [Tids -> ThreadRec], NEW s \in Tids, SetupStep(s)
  PROVE  \A u \in Tids : u # s => (th'[u].pc = "exited" <=> th[u].pc = "exited")
<1>1. CASE SetupSetMode(s)
  <2>1. CASE th' = [th EXCEPT ![s].pc = "signal"]
    BY <2>1, Zenon DEF ThreadRec
  <2>2. CASE \E b \in SetupBehaviours :
                 th' = [th EXCEPT ![s].pc = "call", ![s].beh = b]
    <3>1. PICK b \in SetupBehaviours :
                 th' = [[th EXCEPT ![s].pc = "call"] EXCEPT ![s].beh = b]
      BY <2>2
    <3>2. QED
      BY <3>1, Zenon DEF ThreadRec
  <2>3. QED
    BY <1>1, <2>1, <2>2 DEF SetupSetMode
<1>2. CASE SetupReturn(s) \/ SetupCancelled(s)
  BY <1>2, Zenon DEF SetupReturn, SetupCancelled, ThreadRec
<1>3. CASE SetupRunning(s)
  BY <1>3 DEF SetupRunning, vars
<1>4. CASE SetupSignal(s)
  BY <1>4, ZenonT(60) DEF SetupSignal, ThreadRec
<1>5. QED
  BY <1>1, <1>2, <1>3, <1>4 DEF SetupStep

(* A mode thread's steps that do not end it: it was running before and   *)
(* still is.  The setup thread run_function_timeout creates gets a fresh   *)
(* id, above the mode thread's own.                                       *)
LEMMA ModeKeepsRunning ==
  ASSUME th \in [Tids -> ThreadRec], NEW t \in Tids, t # nextTid,
         \/ ModeSetup(t) \/ ModeEnterWait(t) \/ ModeTimeout(t)
         \/ ModeSpurious(t) \/ ModeCleanup(t) \/ ModeJoinChild(t)
         \/ ModeMainCall(t)
  PROVE  th[t].pc # "exited" /\ th'[t].pc # "exited"
<1>1. CASE ModeSetup(t)
  BY <1>1, Zenon DEF ModeSetup, ThreadRec
<1>2. CASE ModeEnterWait(t) \/ ModeTimeout(t) \/ ModeSpurious(t)
  BY <1>2, Zenon DEF ModeEnterWait, ModeTimeout, ModeSpurious, ThreadRec
<1>3. CASE ModeCleanup(t)
  <2> DEFINE g2 == [[th EXCEPT ![t].pc = "join_child"] EXCEPT ![t].cond = "destroyed"]
  <2>1. th' = [g2 EXCEPT ![th[t].peer].cancel = TRUE]
    BY <1>3 DEF ModeCleanup
  <2>2. g2 \in [Tids -> ThreadRec] /\ g2[t].pc = "join_child"
    <3>1. [th EXCEPT ![t].pc = "join_child"] \in [Tids -> ThreadRec]
      BY PcUpd DEF ModePcs
    <3>2. g2 \in [Tids -> ThreadRec]
      BY <3>1, CondUpd DEF CondStates
    <3>3. g2[t].pc = "join_child"
      BY Zenon DEF ThreadRec
    <3> QED
      BY <3>2, <3>3
  <2>3. th'[t].pc = g2[t].pc
    BY <2>1, <2>2, CancelShape2
  <2> QED
    BY <1>3, <2>2, <2>3 DEF ModeCleanup
<1>4. CASE ModeJoinChild(t)
  BY <1>4, Zenon DEF ModeJoinChild, ThreadRec
<1>5. CASE ModeMainCall(t)
  BY <1>5 DEF ModeMainCall, vars
<1> QED
  BY <1>1, <1>2, <1>3, <1>4, <1>5

(* handle_mode_changes(), run_mode_functions() and executor_stop()        *)
(* implement ModeSwitching, for every bound on the RUN_MODE writes and    *)
(* every behaviour of the student functions: a mode thread is started     *)
(* only for a mode the handler took from RUN_MODE and only after the      *)
(* previous one ended, and exit(1) comes only after the handler and the   *)
(* mode thread are gone.                                                  *)
THEOREM ModeRefinement == Spec => ImplementsModeSwitching
<1>1. Init => Switching!MInit
  BY DEF Init, Switching!MInit, Switching!SModes, Modes, HandlerPhase,
         ModeThreadState
<1>2. RInv /\ [Next]_vars => [Switching!MNext]_Switching!mvars
  <2> SUFFICES ASSUME RInv, [Next]_vars
               PROVE  [Switching!MNext]_Switching!mvars
    OBVIOUS
  <2>0. /\ TypeOK /\ th \in [Tids -> ThreadRec] /\ CurrentMode
        /\ JoinedExited /\ OldModesExited /\ FreshIds /\ StopInv
    BY TypeOKThreads DEF RInv, IInv
  <2>1. CASE Terminated \/ UNCHANGED vars
    <3>1. UNCHANGED vars
      BY <2>1 DEF Terminated
    <3>2. ModeThreadState' = ModeThreadState
      BY <3>1, SameModeState DEF vars
    <3> QED
      BY <3>1, <3>2, SwitchStutter DEF vars
  <2>2. CASE proc = "running" /\ ExecutorInit
    <3>1. hpc = "none"
      BY <2>0, <2>2 DEF ExecutorInit, StopInv
    <3>2. CASE hpc' = "read"
      <4>1. Switching!StartHandler
        BY <2>2, <3>1, <3>2, SameModeState
        DEF ExecutorInit, Switching!StartHandler, HandlerPhase
      <4> QED
        BY <2>2, <4>1 DEF Switching!MNext
    <3>3. CASE hpc' # "read"
      <4>1. UNCHANGED <<runMode, hmode, proc, hpc, th, modeThread>>
        BY <2>2, <3>3 DEF ExecutorInit
      <4>2. ModeThreadState' = ModeThreadState
        BY <4>1, SameModeState
      <4> QED
        BY <4>1, <4>2, SwitchStutter
    <3> QED
      BY <3>2, <3>3
  <2>3. CASE proc = "running" /\ (SigInt \/ StopCancelHandler \/ StopJoinHandler)
    <3>1. UNCHANGED <<runMode, hmode, proc, hpc, th, modeThread>>
      BY <2>3 DEF SigInt, StopCancelHandler, StopJoinHandler
    <3>2. ModeThreadState' = ModeThreadState
      BY <3>1, SameModeState
    <3> QED
      BY <3>1, <3>2, SwitchStutter
  <2>4. CASE proc = "running" /\ HandlerPoll
    <3>1. UNCHANGED <<runMode, hmode, proc, hpc, th, modeThread>>
      BY <2>4 DEF HandlerPoll, vars
    <3>2. ModeThreadState' = ModeThreadState
      BY <3>1, SameModeState
    <3> QED
      BY <3>1, <3>2, SwitchStutter
  <2>5. CASE proc = "running" /\ (StopCancelMode \/ HandlerCancel)
    <3>1. /\ UNCHANGED <<runMode, hmode, proc, modeThread>>
          /\ HandlerPhase(hpc') = HandlerPhase(hpc)
      BY <2>5 DEF StopCancelMode, HandlerCancel, HandlerPhase
    <3>2. CASE Joinable(modeThread)
      <4>1. th' = [th EXCEPT ![modeThread].cancel = TRUE] /\ modeThread \in Tids
        BY <2>5, <3>2 DEF StopCancelMode, HandlerCancel, CancelThread, Joinable
      <4>2. th'[modeThread].pc = th[modeThread].pc
        BY <2>0, <4>1, CancelShape2
      <4>3. ModeThreadState' = ModeThreadState
        BY <3>1, <4>2, SameModeState
      <4> QED
        BY <3>1, <4>3, SwitchStutter
    <3>3. CASE ~Joinable(modeThread)
      <4>1. UNCHANGED th
        BY <2>5, <3>3 DEF StopCancelMode, HandlerCancel
      <4>2. ModeThreadState' = ModeThreadState
        BY <3>1, <4>1, SameModeState
      <4> QED
        BY <3>1, <4>2, SwitchStutter
    <3> QED
      BY <3>2, <3>3
  <2>6. CASE proc = "running" /\ StopJoinMode
    <3>1. hpc \in {"none", "exited"}
      BY <2>0, <2>6 DEF StopJoinMode, StopInv
    <3>2. ModeThreadState # "running"
      BY <2>0, <2>6
      DEF StopJoinMode, Joinable, ModeThreadState, TypeOK, CurrentMode,
          JoinedExited
    <3>3. Switching!Exit
      BY <2>6, <3>1, <3>2, SameModeState
      DEF StopJoinMode, Switching!Exit, HandlerPhase
    <3> QED
      BY <2>6, <3>3 DEF Switching!MNext
  <2>7. CASE proc = "running" /\ HandlerRead
    <3>1. ModeThreadState' = ModeThreadState
      BY <2>7, SameModeState DEF HandlerRead
    <3>2. Switching!Accept
      BY <2>7, <3>1 DEF HandlerRead, Switching!Accept, HandlerPhase
    <3> QED
      BY <2>7, <3>2 DEF Switching!MNext
  <2>8. CASE proc = "running" /\ HandlerCancelled
    <3>1. ModeThreadState' = ModeThreadState
      BY <2>8, SameModeState DEF HandlerCancelled
    <3>2. Switching!HandlerGone
      BY <2>8, <3>1 DEF HandlerCancelled, Switching!HandlerGone, HandlerPhase
    <3> QED
      BY <2>8, <3>2 DEF Switching!MNext
  <2>9. CASE proc = "running" /\ UndefinedCall
    <3>1. ModeThreadState' = ModeThreadState
      BY <2>9, SameModeState DEF UndefinedCall
    <3>2. Switching!Fault
      BY <2>9, <3>1 DEF UndefinedCall, Crash, Switching!Fault
    <3> QED
      BY <2>9, <3>2 DEF Switching!MNext
  <2>10. CASE proc = "running" /\ \E m \in Modes : SetRunMode(m)
    <3>1. PICK m \in Modes : SetRunMode(m)
      BY <2>10
    <3>2. ModeThreadState' = ModeThreadState
      BY <3>1, SameModeState DEF SetRunMode
    <3>3. Switching!ChangeMode(m)
      BY <3>1, <3>2 DEF SetRunMode, Switching!ChangeMode
    <3> QED
      BY <2>10, <3>3 DEF Switching!MNext, Switching!SModes, Modes
  <2>11. CASE proc = "running" /\ HandlerJoin
    <3>1. hpc = "join" /\ hpc' = "read" /\ UNCHANGED <<runMode, hmode, proc>>
      BY <2>11 DEF HandlerJoin
    <3>2. ModeThreadState # "running"
      BY <2>0, <2>11
      DEF HandlerJoin, Joinable, ModeThreadState, TypeOK, CurrentMode,
          JoinedExited
    <3>3. ModeThreadState' = IF hmode # IDLE THEN "running" ELSE ModeThreadState
      <4>1. CASE hmode # IDLE
        <5>1. /\ nextTid \in Tids /\ modeThread' = nextTid
              /\ th' = [th EXCEPT ![nextTid] = NewModeThread]
          BY <2>11, <4>1 DEF HandlerJoin
        <5>2. th'[modeThread'].pc = "setup"
          BY <2>0, <5>1, NewModeThreadFields
        <5> QED
          BY <4>1, <5>1, <5>2 DEF ModeThreadState
      <4>2. CASE hmode = IDLE
        <5>1. UNCHANGED <<th, modeThread>>
          BY <2>11, <4>2 DEF HandlerJoin
        <5> QED
          BY <4>2, <5>1, SameModeState
      <4> QED
        BY <4>1, <4>2
    <3>4. Switching!Replace
      BY <3>1, <3>2, <3>3 DEF Switching!Replace, HandlerPhase
    <3> QED
      BY <2>11, <3>4 DEF Switching!MNext
  <2>12. CASE proc = "running" /\ \E t \in Tids : ModeStep(t)
    <3>1. PICK t \in Tids : ModeStep(t)
      BY <2>12
    <3>2. th[t].kind = "mode" /\ UNCHANGED <<runMode, hmode, hpc, modeThread>>
      BY <3>1 DEF ModeStep, ModeSetup, ModeEnterWait, ModeTimeout,
                  ModeSpurious, ModeCleanup, ModeJoinChild, ModeMainStart,
                  ModeMainCall, ModeCancelled, vars
    <3>3. th[t].pc # "exited" => t = modeThread /\ modeThread # NoThread
      BY <2>0, <3>2 DEF OldModesExited
    <3>4. CASE ModeMainStart(t)
      <4>1. th[t].pc = "main_start"
        BY <3>4 DEF ModeMainStart
      <4>2. CASE Crash /\ UNCHANGED th
        <5>1. ModeThreadState' = ModeThreadState
          BY <3>2, <4>2, SameModeState
        <5>2. Switching!Fault
          BY <3>2, <4>2, <5>1 DEF Crash, Switching!Fault
        <5> QED
          BY <2>12, <5>2 DEF Switching!MNext
      <4>3. CASE th' = [th EXCEPT ![t].pc = "exited"] /\ UNCHANGED proc
        <5>1. th'[t].pc = "exited"
          BY <2>0, <4>3, Zenon DEF ThreadRec
        <5>2. Switching!ModeEnds
          BY <3>2, <3>3, <4>1, <4>3, <5>1
          DEF Switching!ModeEnds, ModeThreadState
        <5> QED
          BY <2>12, <5>2 DEF Switching!MNext
      <4>4. CASE \E b \in MainBehaviours :
                    th' = [th EXCEPT ![t].pc = "main", ![t].beh = b]
                 /\ UNCHANGED proc
        <5>1. PICK b \in MainBehaviours :
                    th' = [[th EXCEPT ![t].pc = "main"] EXCEPT ![t].beh = b]
          BY <4>4
        <5>2. th'[t].pc = "main"
          BY <2>0, <5>1, Zenon DEF ThreadRec
        <5>3. ModeThreadState' = ModeThreadState
          BY <3>2, <3>3, <4>1, <5>2, SameModeState
        <5> QED
          BY <3>2, <4>4, <5>3, SwitchStutter
      <4> QED
        BY <3>4, <4>2, <4>3, <4>4 DEF ModeMainStart
    <3>5. CASE ModeCancelled(t)
      <4>1. th[t].pc # "exited"
        BY <3>5 DEF ModeCancelled
      <4>2. th'[t].pc = "exited" /\ UNCHANGED proc
        BY <2>0, <3>5, Zenon DEF ModeCancelled, ThreadRec
      <4>3. Switching!ModeEnds
        BY <3>2, <3>3, <4>1, <4>2 DEF Switching!ModeEnds, ModeThreadState
      <4> QED
        BY <2>12, <4>3 DEF Switching!MNext
    <3>6. CASE \/ ModeSetup(t) \/ ModeEnterWait(t) \/ ModeTimeout(t)
               \/ ModeSpurious(t) \/ ModeCleanup(t) \/ ModeJoinChild(t)
               \/ ModeMainCall(t)
      <4>1. UNCHANGED proc
        BY <3>6 DEF ModeSetup, ModeEnterWait, ModeTimeout, ModeSpurious,
                    ModeCleanup, ModeJoinChild, ModeMainCall, vars
      <4>2. t # nextTid
        BY <2>0, <3>2 DEF FreshIds, TypeOK
      <4>3. th[t].pc # "exited" /\ th'[t].pc # "exited"
        BY <2>0, <3>6, <4>2, ModeKeepsRunning
      <4>4. ModeThreadState' = ModeThreadState
        BY <3>2, <3>3, <4>3, SameModeState
      <4> QED
        BY <3>2, <4>1, <4>4, SwitchStutter
    <3>7. QED
      BY <3>1, <3>4, <3>5, <3>6 DEF ModeStep
  <2>13. CASE proc = "running" /\ \E s \in Tids : SetupStep(s)
    <3>1. PICK s \in Tids : SetupStep(s)
      BY <2>13
    <3>2. /\ th[s].kind = "setup"
          /\ UNCHANGED <<runMode, hmode, hpc, proc, modeThread>>
      BY <3>1 DEF SetupStep, SetupSetMode, SetupReturn, SetupRunning,
                  SetupCancelled, SetupSignal, vars
    <3>3. modeThread # NoThread => modeThread # s
      BY <2>0, <3>2 DEF CurrentMode
    <3>4. ModeThreadState' = ModeThreadState
      BY <2>0, <3>1, <3>2, <3>3, SetupKeepsExited, SameModeState
      DEF TypeOK
    <3> QED
      BY <3>2, <3>4, SwitchStutter
  <2>14. QED
    BY <2>1, <2>2, <2>3, <2>4, <2>5, <2>6, <2>7, <2>8, <2>9, <2>10, <2>11,
       <2>12, <2>13
    DEF Next, MainStep, HandlerStep
<1>3. QED
  BY <1>1, <1>2, RInvariant, PTL
  DEF Spec, ImplementsModeSwitching, Switching!MSpec
=============================================================================
