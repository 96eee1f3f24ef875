--------------------------- MODULE ExecutorProofs ---------------------------
(***************************************************************************)
(* Proofs about the executor model, for every MaxModeChanges and every set *)
(* of student-function behaviours: the state stays well typed, and at most *)
(* one mode thread is ever alive.                                          *)
(***************************************************************************)
EXTENDS Executor, TLAPS

USE ConstantsAssumption DEF NumTids, Tids, NoThread

(* The steps that leave th and nextTid alone.                              *)
LEMMA NoThreadChangeTypeOK ==
    ASSUME TypeOK, [Next]_vars,
           ~ \E t \in Tids : ModeStep(t) \/ SetupStep(t),
           ~ HandlerJoin, ~ StopCancelMode, ~ HandlerCancel
    PROVE  TypeOK'
<1>1. CASE ExecutorInit
  BY <1>1 DEF ExecutorInit, TypeOK
<1>2. CASE SigInt
  BY <1>2 DEF SigInt, TypeOK
<1>3. CASE StopCancelHandler
  BY <1>3 DEF StopCancelHandler, TypeOK
<1>4. CASE StopJoinHandler
  BY <1>4 DEF StopJoinHandler, TypeOK
<1>5. CASE StopJoinMode
  BY <1>5 DEF StopJoinMode, TypeOK, Joinable
<1>6. CASE HandlerRead
  BY <1>6 DEF HandlerRead, TypeOK
<1>7. CASE HandlerPoll
  BY <1>7 DEF HandlerPoll, TypeOK, vars
<1>8. CASE HandlerCancelled
  BY <1>8 DEF HandlerCancelled, TypeOK
<1>9. CASE UndefinedCall
  BY <1>9 DEF UndefinedCall, Crash, TypeOK
<1>10. CASE \E m \in Modes : SetRunMode(m)
  BY <1>10 DEF SetRunMode, TypeOK
<1>11. CASE Terminated \/ UNCHANGED vars
  BY <1>11 DEF Terminated, TypeOK, vars
<1>12. QED
  BY <1>1, <1>2, <1>3, <1>4, <1>5, <1>6, <1>7, <1>8, <1>9, <1>10, <1>11
  DEF Next, MainStep, HandlerStep

(* The inductive invariant behind OneModeThread.  Thread ids are handed   *)
(* out in order, so every id at or above nextTid is unused, and every peer *)
(* and every joined id was handed out before.  mode_thread names the mode  *)
(* thread created last; every other mode thread has ended, and so has     *)
(* every joined mode thread (pthread_join returns only then).             *)
FreshIds == \A t \in Tids : t >= nextTid => th[t].kind = "none"
PeersCreated == \A t \in Tids : th[t].peer = NoThread \/ th[t].peer < nextTid
JoinedCreated == \A t \in joined : t = NoThread \/ t < nextTid
CurrentMode ==
    modeThread = NoThread \/ (modeThread < nextTid /\ th[modeThread].kind = "mode")
JoinedExited ==
    \A t \in joined \cap Tids : th[t].kind = "mode" => th[t].pc = "exited"
OldModesExited ==
    \A t \in Tids : th[t].kind = "mode" /\ t # modeThread => th[t].pc = "exited"

IInv ==
    /\ TypeOK /\ FreshIds /\ PeersCreated /\ JoinedCreated /\ CurrentMode
    /\ JoinedExited /\ OldModesExited

(* The record of one thread, as TypeOK constrains it.                      *)
ThreadRec == [kind : {"none", "mode", "setup"},
              pc : ModePcs \cup SetupPcs, cancel : BOOLEAN,
              peer : Tids \cup {NoThread}, cond : CondStates,
              beh : Behaviours, signalled : BOOLEAN]

(* Setting one field of one thread's record to a value of its type keeps  *)
(* the threads well typed; an index outside Tids changes nothing.          *)
LEMMA PcUpd ==
    ASSUME NEW f \in [Tids -> ThreadRec], NEW t, NEW v \in ModePcs \cup SetupPcs
    PROVE  [f EXCEPT ![t].pc = v] \in [Tids -> ThreadRec]
BY Zenon DEF ThreadRec

LEMMA CancelUpd ==
    ASSUME NEW f \in [Tids -> ThreadRec], NEW t
    PROVE  [f EXCEPT ![t].cancel = TRUE] \in [Tids -> ThreadRec]
BY Zenon DEF ThreadRec

LEMMA CondUpd ==
    ASSUME NEW f \in [Tids -> ThreadRec], NEW t, NEW c \in CondStates
    PROVE  [f EXCEPT ![t].cond = c] \in [Tids -> ThreadRec]
BY Zenon DEF ThreadRec

LEMMA PeerUpd ==
    ASSUME NEW f \in [Tids -> ThreadRec], NEW t, NEW p \in Tids
    PROVE  [f EXCEPT ![t].peer = p] \in [Tids -> ThreadRec]
BY Zenon DEF ThreadRec

LEMMA BehUpd ==
    ASSUME NEW f \in [Tids -> ThreadRec], NEW t, NEW b \in Behaviours
    PROVE  [f EXCEPT ![t].beh = b] \in [Tids -> ThreadRec]
BY Zenon DEF ThreadRec

LEMMA SignalledUpd ==
    ASSUME NEW f \in [Tids -> ThreadRec], NEW t
    PROVE  [f EXCEPT ![t].signalled = TRUE] \in [Tids -> ThreadRec]
BY Zenon DEF ThreadRec

LEMMA RecUpd ==
    ASSUME NEW f \in [Tids -> ThreadRec], NEW t, NEW r \in ThreadRec
    PROVE  [f EXCEPT ![t] = r] \in [Tids -> ThreadRec]
BY Zenon

(* The records the code's pthread_create calls start a thread with.        *)
LEMMA UnusedType == Unused \in ThreadRec
<1>1. NoBeh \in Behaviours
  BY Zenon DEF NoBeh, Behaviours
<1>2. QED
  BY <1>1 DEF Unused, ThreadRec, ModePcs, CondStates

LEMMA NewThreadTypes ==
    ASSUME NEW t \in Tids
    PROVE  /\ NewModeThread \in ThreadRec
           /\ [Unused EXCEPT !.kind = "setup", !.pc = "setmode", !.peer = t]
                \in ThreadRec
BY UnusedType, Zenon DEF NewModeThread, ThreadRec, ModePcs, SetupPcs

(* TypeOK with its thread records written through ThreadRec.               *)
LEMMA TypeOKThreads ==
    TypeOK <=> (TypeOK /\ th \in [Tids -> ThreadRec])
BY DEF TypeOK, ThreadRec

(* The other conjuncts of TypeOK hold after a step that changes only the  *)
(* threads, when the new threads are well typed.                          *)
LEMMA ThreadsOnly ==
    ASSUME TypeOK, th' \in [Tids -> ThreadRec],
           UNCHANGED <<runMode, modeChanges, mainPc, hpc, hmode, hcancel,
                       modeThread, nextTid, joined, proc>>
    PROVE  TypeOK'
BY DEF TypeOK, ThreadRec

(* pthread_cancel by the handler or by executor_stop.                      *)
LEMMA CancelTypeOK ==
    ASSUME TypeOK, HandlerCancel \/ StopCancelMode
    PROVE  TypeOK'
<1>1. th \in [Tids -> ThreadRec]
  BY TypeOKThreads
<1>2. th' \in [Tids -> ThreadRec]
  <2>1. CASE Joinable(modeThread)
    BY <1>1, <2>1, CancelUpd DEF HandlerCancel, StopCancelMode, CancelThread
  <2>2. CASE ~Joinable(modeThread)
    BY <1>1, <2>2 DEF HandlerCancel, StopCancelMode
  <2>3. QED
    BY <2>1, <2>2
<1>3. QED
  BY <1>2 DEF HandlerCancel, StopCancelMode, TypeOK, ThreadRec

(* pthread_join and pthread_create in handle_mode_changes.                 *)
LEMMA JoinTypeOK ==
    ASSUME TypeOK, HandlerJoin
    PROVE  TypeOK'
<1>1. th \in [Tids -> ThreadRec]
  BY TypeOKThreads
<1>2. th' \in [Tids -> ThreadRec]
  BY <1>1, NewThreadTypes, RecUpd DEF HandlerJoin
<1>3. joined' \subseteq Tids \cup {NoThread}
  BY DEF HandlerJoin, Joinable, TypeOK
<1>4. modeThread' \in Tids \cup {NoThread} /\ nextTid' \in 1 .. NumTids + 1
  <2>1. CASE hmode # IDLE
    BY <2>1 DEF HandlerJoin, TypeOK
  <2>2. CASE hmode = IDLE
    BY <2>2 DEF HandlerJoin, TypeOK
  <2>3. QED
    BY <2>1, <2>2
<1>5. QED
  BY <1>2, <1>3, <1>4 DEF HandlerJoin, TypeOK, ThreadRec
(* A step of a mode thread.                                                *)
LEMMA ModeTypeOK ==
    ASSUME TypeOK, NEW t \in Tids, ModeStep(t)
    PROVE  TypeOK'
<1>1. th \in [Tids -> ThreadRec]
  BY TypeOKThreads
<1>2. CASE ModeSetup(t)
  <2> DEFINE g1 == [th EXCEPT ![t].pc = "wait"]
             g2 == [g1 EXCEPT ![t].peer = nextTid]
             g3 == [g2 EXCEPT ![t].cond = "live"]
             child == [Unused EXCEPT !.kind = "setup", !.pc = "setmode",
                                     !.peer = t]
  <2>1. th' = [g3 EXCEPT ![nextTid] = child] /\ nextTid \in Tids
    BY <1>2 DEF ModeSetup
  <2>2. g3 \in [Tids -> ThreadRec]
    BY <1>1, <2>1, PcUpd, PeerUpd, CondUpd DEF ModePcs, CondStates
  <2>3. th' \in [Tids -> ThreadRec]
    <3>1. child \in ThreadRec
      BY NewThreadTypes
    <3>2. QED
      BY <2>1, <2>2, <3>1, RecUpd, Zenon
  <2>4. nextTid' \in 1 .. NumTids + 1
    BY <1>2, <2>1 DEF ModeSetup, Tids
  <2>5. UNCHANGED <<runMode, modeChanges, mainPc, hpc, hmode, hcancel,
                    modeThread, joined, proc>>
    BY <1>2 DEF ModeSetup
  <2>6. QED
    BY <2>3, <2>4, <2>5, Zenon DEF TypeOK, ThreadRec
<1>3. CASE ModeEnterWait(t)
  BY <1>1, <1>3, PcUpd, ThreadsOnly DEF ModeEnterWait, ModePcs
<1>10. CASE ModeTimeout(t)
  BY <1>1, <1>10, PcUpd, ThreadsOnly DEF ModeTimeout, ModePcs
<1>11. CASE ModeSpurious(t)
  BY <1>1, <1>11, PcUpd, ThreadsOnly DEF ModeSpurious, ModePcs
<1>4. CASE ModeCleanup(t)
  <2> DEFINE g1 == [th EXCEPT ![t].pc = "join_child"]
             g2 == [g1 EXCEPT ![t].cond = "destroyed"]
  <2>1. th' = [g2 EXCEPT ![th[t].peer].cancel = TRUE]
    BY <1>4 DEF ModeCleanup
  <2>2. th' \in [Tids -> ThreadRec]
    BY <1>1, <2>1, PcUpd, CondUpd, CancelUpd DEF ModePcs, CondStates
  <2>3. QED
    BY <1>4, <2>2, ThreadsOnly DEF ModeCleanup
<1>5. CASE ModeJoinChild(t)
  <2> DEFINE g1 == [th EXCEPT ![t].pc = "main_start"]
  <2>1. th' = [g1 EXCEPT ![t].cond = "gone"]
    BY <1>5 DEF ModeJoinChild
  <2>2. th' \in [Tids -> ThreadRec]
    BY <1>1, <2>1, PcUpd, CondUpd DEF ModePcs, CondStates
  <2>3. QED
    BY <1>5, <2>2 DEF ModeJoinChild, TypeOK, ThreadRec
<1>6. CASE ModeMainStart(t)
  <2>1. th' \in [Tids -> ThreadRec]
    <3>1. CASE UNCHANGED th
      BY <1>1, <3>1
    <3>2. CASE th' = [th EXCEPT ![t].pc = "exited"]
      BY <1>1, <3>2, PcUpd DEF ModePcs
    <3>3. CASE \E b \in MainBehaviours :
                   th' = [th EXCEPT ![t].pc = "main", ![t].beh = b]
      <4>1. PICK b \in MainBehaviours :
                   th' = [[th EXCEPT ![t].pc = "main"] EXCEPT ![t].beh = b]
        BY <3>3
      <4>2. [th EXCEPT ![t].pc = "main"] \in [Tids -> ThreadRec]
        BY <1>1, PcUpd DEF ModePcs
      <4>3. QED
        BY <4>1, <4>2, BehUpd
    <3>4. QED
      BY <1>6, <3>1, <3>2, <3>3 DEF ModeMainStart
  <2>2. QED
    BY <1>6, <2>1 DEF ModeMainStart, Crash, TypeOK, ThreadRec
<1>7. CASE ModeMainCall(t)
  BY <1>7 DEF ModeMainCall, TypeOK, vars
<1>8. CASE ModeCancelled(t)
  <2> DEFINE g1 == [th EXCEPT ![t].pc = "exited"]
  <2>1. th' = [g1 EXCEPT ![t].cond = "gone"]
    BY <1>8 DEF ModeCancelled
  <2>2. th' \in [Tids -> ThreadRec]
    BY <1>1, <2>1, PcUpd, CondUpd DEF ModePcs, CondStates
  <2>3. QED
    BY <1>8, <2>2, ThreadsOnly DEF ModeCancelled
<1>9. QED
  BY <1>2, <1>3, <1>4, <1>5, <1>6, <1>7, <1>8, <1>10, <1>11 DEF ModeStep

(* A step of a setup thread.                                               *)
LEMMA SetupTypeOK ==
    ASSUME TypeOK, NEW s \in Tids, SetupStep(s)
    PROVE  TypeOK'
<1>1. th \in [Tids -> ThreadRec]
  BY TypeOKThreads
<1>2. CASE SetupSetMode(s)
  <2>1. th' \in [Tids -> ThreadRec]
    <3>1. CASE th' = [th EXCEPT ![s].pc = "signal"]
      BY <1>1, <3>1, PcUpd DEF SetupPcs
    <3>2. CASE \E b \in SetupBehaviours :
                   th' = [th EXCEPT ![s].pc = "call", ![s].beh = b]
      <4>1. PICK b \in SetupBehaviours :
                   th' = [[th EXCEPT ![s].pc = "call"] EXCEPT ![s].beh = b]
        BY <3>2
      <4>2. [th EXCEPT ![s].pc = "call"] \in [Tids -> ThreadRec]
        BY <1>1, PcUpd DEF SetupPcs
      <4>3. QED
        BY <4>1, <4>2, BehUpd
    <3>3. QED
      BY <1>2, <3>1, <3>2 DEF SetupSetMode
  <2>2. QED
    BY <1>2, <2>1, ThreadsOnly DEF SetupSetMode
<1>3. CASE SetupReturn(s)
  BY <1>1, <1>3, PcUpd, ThreadsOnly DEF SetupReturn, SetupPcs
<1>7. CASE SetupCancelled(s)
  BY <1>1, <1>7, PcUpd, ThreadsOnly DEF SetupCancelled, SetupPcs
<1>4. CASE SetupRunning(s)
  BY <1>4 DEF SetupRunning, TypeOK, vars
<1>5. CASE SetupSignal(s)
  <2> DEFINE p == th[s].peer
             g2 == [[th EXCEPT ![s].pc = "exited"] EXCEPT ![s].signalled = TRUE]
             v == IF th[p].pc = "waiting" /\ th[p].cond = "live"
                  THEN "woken" ELSE th[p].pc
  <2>1. g2 \in [Tids -> ThreadRec]
    BY <1>1, PcUpd, SignalledUpd DEF SetupPcs
  <2>2. th' = [g2 EXCEPT ![p].pc = v]
    BY <1>5 DEF SetupSignal, p, g2, v
  <2>3. th' \in [Tids -> ThreadRec]
    <3>1. CASE p \in Tids
      <4>1. v \in ModePcs \cup SetupPcs
        BY <1>1, <3>1 DEF ThreadRec, ModePcs, v, p
      <4>2. QED
        BY <2>1, <2>2, <4>1, PcUpd
    <3>2. CASE p \notin Tids
      <4>1. [g2 EXCEPT ![p].pc = v] = g2
        BY <2>1, <3>2, Zenon
      <4>2. QED
        BY <2>1, <2>2, <4>1
    <3>3. QED
      BY <3>1, <3>2
  <2>4. QED
    BY <1>5, <2>3, ThreadsOnly DEF SetupSignal
<1>6. QED
  BY <1>2, <1>3, <1>4, <1>5, <1>7 DEF SetupStep

(* Every step keeps the state well typed.                                  *)
LEMMA TypeStep == TypeOK /\ [Next]_vars => TypeOK'
BY NoThreadChangeTypeOK, CancelTypeOK, JoinTypeOK, ModeTypeOK, SetupTypeOK

(* The executor's state is well typed in every reachable state: RUN_MODE  *)
(* and the handler's mode are modes, thread ids stay within the ids the    *)
(* handler and the mode threads can create, and every thread record has   *)
(* its fields in range.                                                    *)
(* The initial state is well typed.                                       *)
LEMMA InitTypeOK == Init => TypeOK
<1> SUFFICES ASSUME Init PROVE TypeOK
  OBVIOUS
<1>1. th \in [Tids -> ThreadRec]
  BY UnusedType DEF Init
<1>2. hcancel \in BOOLEAN
  BY Zenon DEF Init
<1>3. QED
  BY <1>1, <1>2 DEF Init, TypeOK, ThreadRec, Modes

(* The executor's state is well typed in every reachable state: RUN_MODE  *)
(* and the handler's mode are modes, thread ids stay within the ids the    *)
(* handler and the mode threads can create, and every thread record has   *)
(* its fields in range.                                                    *)
THEOREM TypeCorrect == Spec => []TypeOK
BY InitTypeOK, TypeStep, PTL DEF Spec

-----------------------------------------------------------------------------
(* A step that creates no thread, changes no thread's kind or peer, never  *)
(* brings an ended mode thread back, and leaves mode_thread, nextTid and   *)
(* joined alone keeps the invariant.                                       *)
StableShape ==
    \A u \in Tids :
        /\ th'[u].kind = th[u].kind
        /\ th'[u].peer = th[u].peer
        /\ th[u].kind = "mode" /\ th[u].pc = "exited" => th'[u].pc = "exited"

LEMMA StableStep ==
    ASSUME IInv, TypeOK', StableShape,
           UNCHANGED <<modeThread, nextTid, joined>>
    PROVE  IInv'
BY DEF IInv, StableShape, TypeOK, FreshIds, PeersCreated, JoinedCreated,
       CurrentMode, JoinedExited, OldModesExited

(* The steps that leave th alone.                                          *)
LEMMA UnchangedShape ==
    ASSUME UNCHANGED th
    PROVE  StableShape
BY DEF StableShape

(* pthread_cancel only sets a pending request.                             *)
LEMMA CancelShape ==
    ASSUME th \in [Tids -> ThreadRec], NEW t
    PROVE  LET g == [th EXCEPT ![t].cancel = TRUE]
           IN  \A u \in Tids : /\ g[u].kind = th[u].kind
                               /\ g[u].peer = th[u].peer
                               /\ g[u].pc = th[u].pc
BY Zenon DEF ThreadRec

LEMMA CancelShape2 ==
    ASSUME NEW f \in [Tids -> ThreadRec], NEW t
    PROVE  \A u \in Tids : /\ [f EXCEPT ![t].cancel = TRUE][u].kind = f[u].kind
                           /\ [f EXCEPT ![t].cancel = TRUE][u].peer = f[u].peer
                           /\ [f EXCEPT ![t].cancel = TRUE][u].pc = f[u].pc
BY Zenon DEF ThreadRec

(* A mode thread's steps other than ModeSetup and ModeJoinChild.           *)
LEMMA ModeShape ==
    ASSUME th \in [Tids -> ThreadRec], NEW t \in Tids, th[t].kind = "mode",
           \/ ModeEnterWait(t) \/ ModeTimeout(t) \/ ModeSpurious(t)
           \/ ModeCleanup(t) \/ ModeMainStart(t) \/ ModeMainCall(t)
           \/ ModeCancelled(t)
    PROVE  StableShape
<1>1. CASE ModeEnterWait(t)
  BY <1>1, Zenon DEF ModeEnterWait, ThreadRec, StableShape
<1>2. CASE ModeTimeout(t)
  BY <1>2, Zenon DEF ModeTimeout, ThreadRec, StableShape
<1>3. CASE ModeSpurious(t)
  BY <1>3, Zenon DEF ModeSpurious, ThreadRec, StableShape
<1>4. CASE ModeCleanup(t)
  <2> DEFINE g2 == [[th EXCEPT ![t].pc = "join_child"] EXCEPT ![t].cond = "destroyed"]
  <2>1. th' = [g2 EXCEPT ![th[t].peer].cancel = TRUE]
    BY <1>4 DEF ModeCleanup
  <2>2. g2 \in [Tids -> ThreadRec]
    BY PcUpd, CondUpd DEF ModePcs, CondStates
  <2>3. \A u \in Tids : /\ g2[u].kind = th[u].kind
                        /\ g2[u].peer = th[u].peer
                        /\ u # t => g2[u].pc = th[u].pc
    BY Zenon DEF ThreadRec
  <2>4. \A u \in Tids : /\ th'[u].kind = g2[u].kind
                        /\ th'[u].peer = g2[u].peer
                        /\ th'[u].pc = g2[u].pc
    <3> DEFINE g3 == [g2 EXCEPT ![th[t].peer].cancel = TRUE]
    <3>1. \A u \in Tids : /\ g3[u].kind = g2[u].kind
                          /\ g3[u].peer = g2[u].peer
                          /\ g3[u].pc = g2[u].pc
      BY <2>2, CancelShape2
    <3>2. th' = g3
      BY <2>1
    <3>3. QED
      BY <3>1, <3>2
  <2>5. QED
    BY <1>4, <2>3, <2>4 DEF ModeCleanup, StableShape
<1>5. CASE ModeMainStart(t)
  <2>1. CASE UNCHANGED th
    BY <2>1 DEF StableShape
  <2>2. CASE th' = [th EXCEPT ![t].pc = "exited"]
    BY <2>2, Zenon DEF ThreadRec, StableShape
  <2>3. CASE \E b \in MainBehaviours :
                 th' = [th EXCEPT ![t].pc = "main", ![t].beh = b]
    <3>1. PICK b \in MainBehaviours :
                 th' = [[th EXCEPT ![t].pc = "main"] EXCEPT ![t].beh = b]
      BY <2>3
    <3>2. QED
      BY <1>5, <3>1, Zenon DEF ModeMainStart, ThreadRec, StableShape
  <2>4. QED
    BY <1>5, <2>1, <2>2, <2>3 DEF ModeMainStart
<1>6. CASE ModeMainCall(t)
  BY <1>6 DEF ModeMainCall, vars, StableShape
<1>7. CASE ModeCancelled(t)
  BY <1>7, Zenon DEF ModeCancelled, ThreadRec, StableShape
<1>8. QED
  BY <1>1, <1>2, <1>3, <1>4, <1>5, <1>6, <1>7

(* A setup thread's steps.                                                 *)
LEMMA SetupShape ==
    ASSUME th \in [Tids -> ThreadRec], NEW s \in Tids, th[s].kind = "setup",
           SetupStep(s)
    PROVE  StableShape
<1>1. CASE SetupSetMode(s)
  <2>1. CASE th' = [th EXCEPT ![s].pc = "signal"]
    BY <2>1, Zenon DEF ThreadRec, StableShape
  <2>2. CASE \E b \in SetupBehaviours :
                 th' = [th EXCEPT ![s].pc = "call", ![s].beh = b]
    <3>1. PICK b \in SetupBehaviours :
                 th' = [[th EXCEPT ![s].pc = "call"] EXCEPT ![s].beh = b]
      BY <2>2
    <3>2. QED
      BY <3>1, Zenon DEF ThreadRec, StableShape
  <2>3. QED
    BY <1>1, <2>1, <2>2 DEF SetupSetMode
<1>2. CASE SetupReturn(s)
  BY <1>2, Zenon DEF SetupReturn, ThreadRec, StableShape
<1>3. CASE SetupRunning(s)
  BY <1>3 DEF SetupRunning, vars, StableShape
<1>4. CASE SetupCancelled(s)
  BY <1>4, Zenon DEF SetupCancelled, ThreadRec, StableShape
<1>5. CASE SetupSignal(s)
  BY <1>5, ZenonT(60) DEF SetupSignal, ThreadRec, StableShape
<1>6. QED
  BY <1>1, <1>2, <1>3, <1>4, <1>5 DEF SetupStep

(* The thread handle_mode_changes creates is a mode thread about to set   *)
(* up, with no child yet.                                                  *)
LEMMA NewModeThreadFields ==
    /\ NewModeThread.kind = "mode"
    /\ NewModeThread.pc = "setup"
    /\ NewModeThread.peer = NoThread
BY Zenon DEF NewModeThread, Unused

(* pthread_join and pthread_create in handle_mode_changes: the new mode   *)
(* thread gets a fresh id, and the old one has ended, or was never        *)
(* created, or was joined before.                                          *)
LEMMA JoinIInv ==
    ASSUME IInv, TypeOK', HandlerJoin
    PROVE  IInv'
<1>1. \/ Joinable(modeThread) /\ th[modeThread].pc = "exited"
         /\ joined' = joined \cup {modeThread}
      \/ ~Joinable(modeThread) /\ joined' = joined
  BY DEF HandlerJoin
<1>2. CASE hmode # IDLE
  <2>1. /\ nextTid \in Tids
        /\ modeThread' = nextTid /\ nextTid' = nextTid + 1
        /\ \A u \in Tids : th'[u] = IF u = nextTid THEN NewModeThread ELSE th[u]
    BY <1>2 DEF HandlerJoin, IInv, TypeOK
  <2>2. QED
    BY <1>1, <2>1, NewModeThreadFields
    DEF IInv, TypeOK, Joinable, FreshIds, PeersCreated, JoinedCreated,
        CurrentMode, JoinedExited, OldModesExited
<1>3. CASE hmode = IDLE
  <2>1. UNCHANGED <<th, modeThread, nextTid>>
    BY <1>3 DEF HandlerJoin
  <2>2. QED
    BY <1>1, <2>1
    DEF IInv, TypeOK, Joinable, FreshIds, PeersCreated, JoinedCreated,
        CurrentMode, JoinedExited, OldModesExited
<1>4. QED
  BY <1>2, <1>3

(* run_function_timeout creates the setup thread with the next id.         *)
LEMMA ModeSetupIInv ==
    ASSUME IInv, TypeOK', NEW t \in Tids, th[t].kind = "mode", ModeSetup(t)
    PROVE  IInv'
<1>1. th \in [Tids -> ThreadRec]
  BY TypeOKThreads DEF IInv
<1>2. \A u \in Tids :
        /\ th'[u].kind = IF u = nextTid THEN "setup" ELSE th[u].kind
        /\ th'[u].peer = IF u = nextTid THEN t
                         ELSE IF u = t THEN nextTid ELSE th[u].peer
        /\ th'[u].pc = IF u = nextTid THEN "setmode"
                       ELSE IF u = t THEN "wait" ELSE th[u].pc
  BY <1>1, Zenon DEF ModeSetup, ThreadRec, Unused
<1>3. /\ th[t].pc = "setup" /\ nextTid \in Tids /\ nextTid' = nextTid + 1
      /\ UNCHANGED <<modeThread, joined>>
  BY DEF ModeSetup
<1>4. t < nextTid /\ t = modeThread
  BY <1>3 DEF IInv, TypeOK, FreshIds, OldModesExited
<1>5. FreshIds'
  BY <1>2, <1>3, <1>4 DEF IInv, TypeOK, FreshIds
<1>6. PeersCreated'
  BY <1>2, <1>3, <1>4 DEF IInv, TypeOK, PeersCreated
<1>7. JoinedCreated' /\ CurrentMode'
  BY <1>2, <1>3, <1>4 DEF IInv, TypeOK, JoinedCreated, CurrentMode
<1>8. JoinedExited'
  BY <1>2, <1>3, <1>4 DEF IInv, TypeOK, JoinedCreated, JoinedExited
<1>9. OldModesExited'
  BY <1>2, <1>3, <1>4 DEF IInv, TypeOK, OldModesExited
<1>10. QED
  BY <1>5, <1>6, <1>7, <1>8, <1>9 DEF IInv

(* run_function_timeout joins its setup thread once it has ended.          *)
LEMMA ModeJoinChildIInv ==
    ASSUME IInv, TypeOK', NEW t \in Tids, th[t].kind = "mode", ModeJoinChild(t)
    PROVE  IInv'
<1>1. th \in [Tids -> ThreadRec]
  BY TypeOKThreads DEF IInv
<1>2. \A u \in Tids :
        /\ th'[u].kind = th[u].kind
        /\ th'[u].peer = th[u].peer
        /\ th'[u].pc = IF u = t THEN "main_start" ELSE th[u].pc
  BY <1>1, Zenon DEF ModeJoinChild, ThreadRec
<1>3. /\ th[t].pc = "join_child" /\ th[th[t].peer].pc = "exited"
      /\ joined' = joined \cup {th[t].peer}
      /\ UNCHANGED <<modeThread, nextTid>>
  BY DEF ModeJoinChild
<1>4. QED
  BY <1>2, <1>3
  DEF IInv, TypeOK, FreshIds, PeersCreated, JoinedCreated, CurrentMode,
      JoinedExited, OldModesExited

(* executor_stop joins mode_thread once it has ended.                      *)
LEMMA StopJoinModeIInv ==
    ASSUME IInv, TypeOK', StopJoinMode
    PROVE  IInv'
<1>1. \/ Joinable(modeThread) /\ th[modeThread].pc = "exited"
         /\ joined' = joined \cup {modeThread}
      \/ joined' = joined
  BY DEF StopJoinMode
<1>2. UNCHANGED <<th, modeThread, nextTid>>
  BY DEF StopJoinMode
<1>3. QED
  BY <1>1, <1>2
  DEF IInv, TypeOK, Joinable, FreshIds, PeersCreated, JoinedCreated,
      CurrentMode, JoinedExited, OldModesExited

(* Every step keeps the invariant.                                         *)
LEMMA IInvStep == IInv /\ [Next]_vars => IInv'
<1> SUFFICES ASSUME IInv, [Next]_vars PROVE IInv'
  OBVIOUS
<1>1. TypeOK'
  BY TypeStep DEF IInv
<1>2. th \in [Tids -> ThreadRec]
  BY TypeOKThreads DEF IInv
<1>3. CASE \/ ExecutorInit \/ SigInt \/ StopCancelHandler \/ StopJoinHandler
           \/ HandlerRead \/ HandlerPoll \/ HandlerCancelled \/ UndefinedCall
           \/ \E m \in Modes : SetRunMode(m)
           \/ Terminated \/ UNCHANGED vars
  <2>1. UNCHANGED <<th, modeThread, nextTid, joined>>
    BY <1>3 DEF ExecutorInit, SigInt, StopCancelHandler, StopJoinHandler,
                HandlerRead, HandlerPoll, HandlerCancelled, UndefinedCall,
                SetRunMode, Terminated, vars
  <2>2. QED
    BY <1>1, <2>1, UnchangedShape, StableStep
<1>4. CASE HandlerCancel \/ StopCancelMode
  <2>1. UNCHANGED <<modeThread, nextTid, joined>>
    BY <1>4 DEF HandlerCancel, StopCancelMode
  <2>2. StableShape
    <3>1. CASE Joinable(modeThread)
      <4>1. th' = [th EXCEPT ![modeThread].cancel = TRUE]
        BY <1>4, <3>1 DEF HandlerCancel, StopCancelMode, CancelThread
      <4>2. QED
        BY <1>2, <4>1, CancelShape2 DEF StableShape
    <3>2. CASE ~Joinable(modeThread)
      BY <1>4, <3>2, UnchangedShape DEF HandlerCancel, StopCancelMode
    <3>3. QED
      BY <3>1, <3>2
  <2>3. QED
    BY <1>1, <2>1, <2>2, StableStep
<1>5. CASE HandlerJoin
  BY <1>1, <1>5, JoinIInv
<1>6. CASE StopJoinMode
  BY <1>1, <1>6, StopJoinModeIInv
<1>7. CASE \E t \in Tids : ModeStep(t)
  <2>1. PICK t \in Tids : ModeStep(t)
    BY <1>7
  <2>2. th[t].kind = "mode"
    BY <2>1 DEF ModeStep
  <2>3. CASE ModeSetup(t)
    BY <1>1, <2>2, <2>3, ModeSetupIInv
  <2>4. CASE ModeJoinChild(t)
    BY <1>1, <2>2, <2>4, ModeJoinChildIInv
  <2>5. CASE \/ ModeEnterWait(t) \/ ModeTimeout(t) \/ ModeSpurious(t)
             \/ ModeCleanup(t) \/ ModeMainStart(t) \/ ModeMainCall(t)
             \/ ModeCancelled(t)
    <3>1. UNCHANGED <<modeThread, nextTid, joined>>
      BY <2>5 DEF ModeEnterWait, ModeTimeout, ModeSpurious, ModeCleanup,
                  ModeMainStart, ModeMainCall, ModeCancelled, vars
    <3>2. QED
      BY <1>1, <1>2, <2>2, <2>5, <3>1, ModeShape, StableStep
  <2>6. QED
    BY <2>1, <2>3, <2>4, <2>5 DEF ModeStep
<1>8. CASE \E s \in Tids : SetupStep(s)
  <2>1. PICK s \in Tids : SetupStep(s)
    BY <1>8
  <2>2. th[s].kind = "setup"
    BY <2>1 DEF SetupStep
  <2>3. UNCHANGED <<modeThread, nextTid, joined>>
    BY <2>1 DEF SetupStep, SetupSetMode, SetupReturn, SetupRunning,
                SetupCancelled, SetupSignal, vars
  <2>4. QED
    BY <1>1, <1>2, <2>1, <2>2, <2>3, SetupShape, StableStep
<1>9. QED
  BY <1>3, <1>4, <1>5, <1>6, <1>7, <1>8 DEF Next, MainStep, HandlerStep

(* No thread exists before executor_init.                                  *)
LEMMA InitIInv == Init => IInv
<1> SUFFICES ASSUME Init PROVE IInv
  OBVIOUS
<1>1. Unused.kind = "none" /\ Unused.peer = NoThread
  BY Zenon DEF Unused
<1>2. QED
  BY <1>1, InitTypeOK
  DEF Init, IInv, FreshIds, PeersCreated, JoinedCreated, CurrentMode,
      JoinedExited, OldModesExited

(* handle_mode_changes "ensures any previously running thread is          *)
(* terminated first": for every bound on the RUN_MODE changes and every   *)
(* behaviour of the student functions, at most one mode thread is alive. *)
THEOREM ModeThreadUnique == Spec => []OneModeThread
<1>1. IInv => OneModeThread
  BY DEF IInv, OldModesExited, OneModeThread, Live
<1>2. QED
  BY <1>1, InitIInv, IInvStep, PTL DEF Spec

=============================================================================
