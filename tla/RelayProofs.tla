---------------------------- MODULE RelayProofs ----------------------------
(***************************************************************************)
(* Proofs about the relay thread trio of module Relay, for every value of  *)
(* the constants allowed by ConstantsAssumption.                           *)
(***************************************************************************)
EXTENDS Relay, TLAPS

USE ConstantsAssumption

-----------------------------------------------------------------------------
(* Every step keeps the program counters, the USB state, the clock and    *)
(* the counters in their types (arithmetic and sets: SMT).                *)
LEMMA DataTypeStep == TypeOK /\ [Next]_vars => DataTypeOK'
  <2> SUFFICES ASSUME TypeOK, [Next]_vars PROVE DataTypeOK'
    OBVIOUS
  <2> USE DEF TypeOK, DataTypeOK, Ifaces, NoIdx, Times, RelayerPcs,
              SenderPcs, ReceiverPcs, TestCancel
  <2>1. CASE GetConfig
    BY <2>1 DEF GetConfig
  <2>2. CASE ClaimInterface
    BY <2>2 DEF ClaimInterface, NewRxEp, NewTxEp, IfaceKinds
  <2>3. CASE Ping
    BY <2>3 DEF Ping
  <2>4. CASE Monitor
    BY <2>4 DEF Monitor
  <2>5. CASE ReleaseAndClose
    BY <2>5 DEF ReleaseAndClose
  <2>6. CASE CancelThreads
    BY <2>6 DEF CancelThreads
  <2>7. CASE FreeRelay
    BY <2>7 DEF FreeRelay
  <2>8. CASE SenderWait
    BY <2>8 DEF SenderWait
  <2>9. CASE SenderCheckWrite
    BY <2>9 DEF SenderCheckWrite
  <2>10. CASE SenderSendWrite
    BY <2>10 DEF SenderSendWrite
  <2>11. CASE SenderCheckHbReq
    BY <2>11 DEF SenderCheckHbReq
  <2>12. CASE SenderSendHbReq
    BY <2>12 DEF SenderSendHbReq
  <2>13. CASE SenderCheckHbResp
    BY <2>13 DEF SenderCheckHbResp
  <2>14. CASE SenderSendHbResp
    BY <2>14 DEF SenderSendHbResp, ResolveHbReq
  <2>15. CASE ReceiverWait
    BY <2>15 DEF ReceiverWait
  <2>16. CASE ReceiveNothing
    BY <2>16 DEF ReceiveNothing
  <2>17. CASE ReceiveMessage
    BY <2>17 DEF ReceiveMessage, ClearMessage
  <2>18. CASE Unplug
    BY <2>18 DEF Unplug
  <2>19. CASE Tick
    BY <2>19 DEF Tick
  <2>20. CASE BadHandleFault
    BY <2>20 DEF BadHandleFault
  <2>21. CASE Finished
    BY <2>21 DEF Finished, vars
  <2>22. CASE UNCHANGED vars
    BY <2>22 DEF vars
  <2>23. QED
    BY <2>1, <2>2, <2>3, <2>4, <2>5, <2>6, <2>7, <2>8, <2>9, <2>10, <2>11, <2>12, <2>13, <2>14, <2>15, <2>16, <2>17, <2>18, <2>19, <2>20, <2>21, <2>22
       DEF Next, Relayer, Sender, Receiver

(* Every step keeps the Boolean fields Boolean (propositional: Zenon).    *)
LEMMA FlagsTypeStep == TypeOK /\ [Next]_vars => FlagsTypeOK'
  <2> SUFFICES ASSUME TypeOK, [Next]_vars PROVE FlagsTypeOK'
    OBVIOUS
  <2> USE DEF TypeOK, FlagsTypeOK
  <2>1. CASE GetConfig
    BY <2>1, Zenon DEF GetConfig
  <2>2. CASE ClaimInterface
    BY <2>2, Zenon DEF ClaimInterface
  <2>3. CASE Ping
    BY <2>3, Zenon DEF Ping
  <2>4. CASE Monitor
    BY <2>4, Zenon DEF Monitor
  <2>5. CASE ReleaseAndClose
    BY <2>5, Zenon DEF ReleaseAndClose
  <2>6. CASE CancelThreads
    BY <2>6, Zenon DEF CancelThreads
  <2>7. CASE FreeRelay
    BY <2>7, Zenon DEF FreeRelay
  <2>8. CASE SenderWait
    BY <2>8, Zenon DEF SenderWait
  <2>9. CASE SenderCheckWrite
    BY <2>9, Zenon DEF SenderCheckWrite
  <2>10. CASE SenderSendWrite
    BY <2>10, Zenon DEF SenderSendWrite
  <2>11. CASE SenderCheckHbReq
    BY <2>11, Zenon DEF SenderCheckHbReq
  <2>12. CASE SenderSendHbReq
    BY <2>12, Zenon DEF SenderSendHbReq
  <2>13. CASE SenderCheckHbResp
    BY <2>13, Zenon DEF SenderCheckHbResp
  <2>14. CASE SenderSendHbResp
    BY <2>14, Zenon DEF SenderSendHbResp, ResolveHbReq
  <2>15. CASE ReceiverWait
    BY <2>15, Zenon DEF ReceiverWait
  <2>16. CASE ReceiveNothing
    BY <2>16, Zenon DEF ReceiveNothing
  <2>17. CASE ReceiveMessage
    BY <2>17, Zenon DEF ReceiveMessage, ClearMessage
  <2>18. CASE Unplug
    BY <2>18, Zenon DEF Unplug
  <2>19. CASE Tick
    BY <2>19, Zenon DEF Tick
  <2>20. CASE BadHandleFault
    BY <2>20, Zenon DEF BadHandleFault
  <2>21. CASE Finished
    BY <2>21, Zenon DEF Finished, vars
  <2>22. CASE UNCHANGED vars
    BY <2>22, Zenon DEF vars
  <2>23. QED
    BY <2>1, <2>2, <2>3, <2>4, <2>5, <2>6, <2>7, <2>8, <2>9, <2>10, <2>11, <2>12, <2>13, <2>14, <2>15, <2>16, <2>17, <2>18, <2>19, <2>20, <2>21, <2>22
       DEF Next, Relayer, Sender, Receiver

LEMMA TypeOKStep == TypeOK /\ [Next]_vars => TypeOK'
  BY DataTypeStep, FlagsTypeStep DEF TypeOK

LEMMA InitTypeOK == Init => TypeOK
<1>1. Init => DataTypeOK
  BY DEF Init, DataTypeOK, Ifaces, NoIdx, Times, RelayerPcs, SenderPcs,
         ReceiverPcs
<1>2. Init => FlagsTypeOK
  BY Zenon DEF Init, FlagsTypeOK
<1>3. QED
  BY <1>1, <1>2 DEF TypeOK

(* Type correctness of the relay's shared state and program counters.     *)
THEOREM TypeCorrect == Spec => []TypeOK
  BY InitTypeOK, TypeOKStep, PTL DEF Spec

-----------------------------------------------------------------------------
(* Responses owed: one for each response sent, plus one when the sender   *)
(* has read got_hb_req and is about to send.                               *)
Answered == hbRespSent + (IF spc = "hbresp_send" THEN 1 ELSE 0)

(* HeartbeatResponsesMatchRequests is not inductive: a step of the sender *)
(* from "hbresp" to "hbresp_send" raises Answered, so the flag being set  *)
(* must mean a request is still unanswered.                               *)
Counting ==
    /\ Answered <= hbReqRecv
    /\ (gotHbReq /\ spc # "hbresp_send") => Answered < hbReqRecv

IInv == TypeOK /\ Counting

(* A step that leaves the handshake's four variables alone keeps Counting. *)
LEMMA CountingFrame ==
  ASSUME Counting, UNCHANGED <<spc, gotHbReq, hbReqRecv, hbRespSent>>
  PROVE  Counting'
  BY DEF Counting, Answered

(* The sender never transmits more HeartBeatResponses than the receiver   *)
(* parsed HeartBeatRequests, for every number of interfaces, timeouts and *)
(* message bound: the got_hb_req flag protocol of sender()/receiver().    *)
THEOREM ResponsesMatchRequests == Spec => []HeartbeatResponsesMatchRequests
<1>1. Init => IInv
  <2> SUFFICES ASSUME Init PROVE IInv
    OBVIOUS
  <2>1. hbRespSent = 0 /\ hbReqRecv = 0 /\ spc = "wait" /\ gotHbReq = FALSE
    BY DEF Init
  <2> QED
    BY <2>1, InitTypeOK DEF IInv, Counting, Answered
<1>2. IInv /\ [Next]_vars => IInv'
  <2> SUFFICES ASSUME IInv, [Next]_vars PROVE IInv'
    OBVIOUS
  <2>1. TypeOK'
    BY TypeOKStep DEF IInv
  <2>2. Counting'
    <3> USE DEF IInv
    <3> DEFINE Frame == UNCHANGED <<spc, gotHbReq, hbReqRecv, hbRespSent>>
    <3>1. CASE Relayer \/ ReceiverWait \/ ReceiveNothing \/ Unplug \/ Tick
               \/ BadHandleFault \/ Finished \/ UNCHANGED vars
      <4>1. Frame
        BY <3>1 DEF Relayer, GetConfig, ClaimInterface, Ping, Monitor,
                    ReleaseAndClose, CancelThreads, FreeRelay, ReceiverWait,
                    ReceiveNothing, Unplug, Tick, BadHandleFault, Finished,
                    vars
      <4> QED
        BY <4>1, CountingFrame
    <3>2. CASE SenderWait \/ SenderCheckWrite \/ SenderSendWrite
               \/ SenderCheckHbReq \/ SenderSendHbReq
      <4>1. /\ spc \notin {"hbresp", "hbresp_send"}
            /\ spc' # "hbresp_send"
            /\ UNCHANGED <<gotHbReq, hbReqRecv, hbRespSent>>
        BY <3>2 DEF SenderWait, SenderCheckWrite, SenderSendWrite,
                    SenderCheckHbReq, SenderSendHbReq, TestCancel
      <4> QED
        BY <4>1 DEF Counting, Answered, TypeOK, DataTypeOK
    <3>3. CASE SenderCheckHbResp
      BY <3>3 DEF SenderCheckHbResp, TestCancel, Counting, Answered, TypeOK,
                  DataTypeOK
    <3>4. CASE SenderSendHbResp
      BY <3>4 DEF SenderSendHbResp, ResolveHbReq, TestCancel, Counting,
                  Answered, TypeOK, DataTypeOK
    <3>5. CASE ReceiveMessage
      BY <3>5 DEF ReceiveMessage, ClearMessage, Counting, Answered, TypeOK,
                  DataTypeOK
    <3> QED
      BY <3>1, <3>2, <3>3, <3>4, <3>5 DEF Next, Sender, Receiver
  <2> QED
    BY <2>1, <2>2 DEF IInv
<1>3. IInv => HeartbeatResponsesMatchRequests
  BY DEF IInv, Counting, Answered, TypeOK, DataTypeOK,
         HeartbeatResponsesMatchRequests
<1>4. QED
  BY <1>1, <1>2, <1>3, PTL DEF Spec

-----------------------------------------------------------------------------
(* WorkOnlyAfterHandshake is not inductive: a thread leaves its start     *)
(* spin when relay->start is set, so start must imply that ping() has     *)
(* filled in the identity.                                                *)
Gate == (start => idSet) /\ WorkOnlyAfterHandshake

(* The sender and receiver do device I/O only once ping() has filled in   *)
(* relay->dev_id: relay->start, raised only after ping() succeeded, is    *)
(* the gate both spin on.                                                 *)
THEOREM WorkAfterHandshake == Spec => []WorkOnlyAfterHandshake
<1>1. Init => Gate
  BY DEF Init, Gate, WorkOnlyAfterHandshake
<1>2. Gate /\ [Next]_vars => Gate'
  <2> SUFFICES ASSUME Gate, [Next]_vars PROVE Gate'
    OBVIOUS
  <2> USE DEF Gate, WorkOnlyAfterHandshake
  <2>1. CASE Relayer
    BY <2>1 DEF Relayer, GetConfig, ClaimInterface, Ping, Monitor,
                ReleaseAndClose, CancelThreads, FreeRelay
  <2>2. CASE SenderWait \/ ReceiverWait
    BY <2>2 DEF SenderWait, ReceiverWait
  <2>3. CASE Sender \/ Receiver
    <3>1. UNCHANGED <<start, idSet>>
      BY <2>3 DEF Sender, SenderWait, SenderCheckWrite, SenderSendWrite,
                  SenderCheckHbReq, SenderSendHbReq, SenderCheckHbResp,
                  SenderSendHbResp, Receiver, ReceiverWait, ReceiveNothing,
                  ReceiveMessage
    <3>2. spc # "wait" => spc' \in {spc, "dead"} \cup
                           {"write", "write_send", "hbreq", "hbreq_send",
                            "hbresp", "hbresp_send"}
      BY <2>3 DEF Sender, SenderWait, SenderCheckWrite, SenderSendWrite,
                  SenderCheckHbReq, SenderSendHbReq, SenderCheckHbResp,
                  SenderSendHbResp, Receiver, ReceiverWait, ReceiveNothing,
                  ReceiveMessage, TestCancel
    <3>3. CASE SenderWait \/ ReceiverWait
      BY <2>2, <3>3
    <3>4. CASE ~(SenderWait \/ ReceiverWait)
      <4>1. (spc' \notin {"wait", "dead"} => spc \notin {"wait", "dead"})
            /\ (rcpc' = "loop" => rcpc = "loop")
        BY <2>3, <3>4 DEF Sender, SenderCheckWrite, SenderSendWrite,
                  SenderCheckHbReq, SenderSendHbReq, SenderCheckHbResp,
                  SenderSendHbResp, Receiver, ReceiveNothing,
                  ReceiveMessage, TestCancel
      <4> QED
        BY <3>1, <4>1
    <3> QED
      BY <3>3, <3>4
  <2>4. CASE Unplug \/ Tick \/ BadHandleFault \/ Finished \/ UNCHANGED vars
    BY <2>4 DEF Unplug, Tick, BadHandleFault, Finished, vars
  <2> QED
    BY <2>1, <2>3, <2>4 DEF Next
<1>3. QED
  BY <1>1, <1>2, PTL DEF Spec, Gate

-----------------------------------------------------------------------------
(* The invariant the refinement needs: relay_clean_up() cancels the two   *)
(* threads in one step, and does so exactly when the relayer has passed   *)
(* its pthread_cancel() calls.                                            *)
CancelInv ==
    /\ senderCancel = receiverCancel
    /\ senderCancel <=> rpc \in {"free", "done"}

LEMMA CancelInvariant == Spec => []CancelInv
<1>1. Init => CancelInv
  BY DEF Init, CancelInv
<1>2. CancelInv /\ [Next]_vars => CancelInv'
  <2> SUFFICES ASSUME CancelInv, [Next]_vars PROVE CancelInv'
    OBVIOUS
  <2>1. CASE GetConfig \/ ClaimInterface \/ Ping \/ Monitor \/ ReleaseAndClose
    BY <2>1 DEF GetConfig, ClaimInterface, Ping, Monitor, ReleaseAndClose,
                CancelInv
  <2>2. CASE CancelThreads \/ FreeRelay
    BY <2>2 DEF CancelThreads, FreeRelay, CancelInv
  <2>3. CASE Sender \/ Receiver \/ Unplug \/ Tick \/ BadHandleFault
             \/ Finished \/ UNCHANGED vars
    <3>1. UNCHANGED <<rpc, senderCancel, receiverCancel>>
      BY <2>3 DEF Sender, SenderWait, SenderCheckWrite, SenderSendWrite,
                  SenderCheckHbReq, SenderSendHbReq, SenderCheckHbResp,
                  SenderSendHbResp, Receiver, ReceiverWait, ReceiveNothing,
                  ReceiveMessage, Unplug, Tick, BadHandleFault, Finished, vars
    <3> QED
      BY <3>1 DEF CancelInv
  <2> QED
    BY <2>1, <2>2, <2>3 DEF Next, Relayer
<1>3. QED
  BY <1>1, <1>2, PTL DEF Spec

(* The abstract variables, written out.                                   *)
AWorker == [w \in {"sender", "receiver"} |->
              IF w = "sender" THEN WorkerOf(spc) ELSE WorkerOf(rcpc)]

(* A step that keeps each abstract variable's image is an abstract        *)
(* stutter.                                                               *)
LEMMA AbstractStutter ==
  ASSUME UNCHANGED <<start, idSet, senderCancel, receiverCancel>>,
         PhaseOf(rpc') = PhaseOf(rpc),
         WorkerOf(spc') = WorkerOf(spc), WorkerOf(rcpc') = WorkerOf(rcpc)
  PROVE  UNCHANGED Lifecycle!lvars
  BY DEF Lifecycle!lvars

(* A step of one worker changes only that worker's abstract state.       *)
LEMMA SenderMoves ==
  ASSUME NEW a, WorkerOf(spc') = a, rcpc' = rcpc
  PROVE  AWorker' = [AWorker EXCEPT !["sender"] = a]
  BY DEF AWorker

LEMMA ReceiverMoves ==
  ASSUME NEW a, WorkerOf(rcpc') = a, spc' = spc
  PROVE  AWorker' = [AWorker EXCEPT !["receiver"] = a]
  BY DEF AWorker

(* relayer(), relay_clean_up(), sender() and receiver() implement the     *)
(* supervisor state machine of RelayLifecycle under the mapping of        *)
(* Relay's refinement section, for every value of the constants.          *)
THEOREM Refinement == Spec => ImplementsLifecycle
<1>1. Init => Lifecycle!LInit
  <2> SUFFICES ASSUME Init PROVE Lifecycle!LInit
    OBVIOUS
  <2>1. rpc = "config" /\ spc = "wait" /\ rcpc = "wait"
        /\ start = FALSE /\ idSet = FALSE /\ senderCancel = FALSE
    BY DEF Init
  <2>2. AWorker = [w \in Lifecycle!Workers |-> "waiting"]
    BY <2>1 DEF AWorker, WorkerOf, Lifecycle!Workers
  <2> QED
    BY <2>1, <2>2 DEF Lifecycle!LInit, PhaseOf, AWorker
<1>2. CancelInv /\ [Next]_vars => [Lifecycle!LNext]_Lifecycle!lvars
  <2> SUFFICES ASSUME CancelInv, [Next]_vars
               PROVE  [Lifecycle!LNext]_Lifecycle!lvars
    OBVIOUS
  <2>1. CASE GetConfig \/ ClaimInterface
    <3>1. CASE rpc' = "release"
      <4>1. Lifecycle!Abort
        BY <2>1, <3>1 DEF GetConfig, ClaimInterface, Lifecycle!Abort,
                          PhaseOf
      <4> QED
        BY <4>1 DEF Lifecycle!LNext
    <3>2. CASE rpc' # "release"
      <4>1. rpc' \in {"claim", "ping"} /\ rpc \in {"config", "claim"}
        BY <2>1, <3>2 DEF GetConfig, ClaimInterface
      <4> QED
        BY <2>1, <4>1, AbstractStutter DEF GetConfig, ClaimInterface, PhaseOf
    <3> QED
      BY <3>1, <3>2
  <2>2. CASE Ping
    <3>1. CASE rpc' = "monitor"
      <4>1. Lifecycle!Handshake
        BY <2>2, <3>1 DEF Ping, Lifecycle!Handshake, PhaseOf, WorkerOf
      <4> QED
        BY <4>1 DEF Lifecycle!LNext
    <3>2. CASE rpc' = "release"
      <4>1. Lifecycle!Abort
        BY <2>2, <3>2 DEF Ping, Lifecycle!Abort, PhaseOf, WorkerOf
      <4> QED
        BY <4>1 DEF Lifecycle!LNext
    <3>3. CASE rpc' = "ping"
      BY <2>2, <3>3, AbstractStutter DEF Ping
    <3> QED
      BY <2>2, <3>1, <3>2, <3>3 DEF Ping
  <2>3. CASE Monitor
    <3>1. Lifecycle!Lost
      BY <2>3 DEF Monitor, Lifecycle!Lost, PhaseOf, WorkerOf
    <3> QED
      BY <3>1 DEF Lifecycle!LNext
  <2>4. CASE ReleaseAndClose
    BY <2>4, AbstractStutter DEF ReleaseAndClose, PhaseOf
  <2>5. CASE CancelThreads
    <3>1. Lifecycle!Cancel
      BY <2>5 DEF CancelThreads, CancelInv, Lifecycle!Cancel, PhaseOf,
                  WorkerOf
    <3> QED
      BY <3>1 DEF Lifecycle!LNext
  <2>6. CASE FreeRelay
    <3>1. Lifecycle!Free
      BY <2>6 DEF FreeRelay, CancelInv, Lifecycle!Free, PhaseOf, WorkerOf
    <3> QED
      BY <3>1 DEF Lifecycle!LNext
  <2>7. CASE SenderWait
    <3>1. CASE start
      <4>1. spc = "wait" /\ spc' = "write"
            /\ UNCHANGED <<rpc, rcpc, start, idSet, senderCancel,
                           receiverCancel>>
        BY <2>7, <3>1 DEF SenderWait
      <4>2. AWorker' = [AWorker EXCEPT !["sender"] = "working"]
        BY <4>1, SenderMoves DEF WorkerOf
      <4>3. Lifecycle!Begin("sender")
        BY <3>1, <4>1, <4>2 DEF Lifecycle!Begin, AWorker, WorkerOf
      <4> QED
        BY <4>3 DEF Lifecycle!LNext, Lifecycle!Workers
    <3>2. CASE ~start
      <4>1. spc = "wait" /\ spc' = "dead" /\ senderCancel
            /\ UNCHANGED <<rpc, rcpc, start, idSet, senderCancel,
                           receiverCancel>>
        BY <2>7, <3>2 DEF SenderWait
      <4>2. AWorker' = [AWorker EXCEPT !["sender"] = "stopped"]
        BY <4>1, SenderMoves DEF WorkerOf
      <4>3. Lifecycle!Stop("sender")
        BY <4>1, <4>2 DEF CancelInv, Lifecycle!Stop, AWorker, WorkerOf
      <4> QED
        BY <4>3 DEF Lifecycle!LNext, Lifecycle!Workers
    <3> QED
      BY <3>1, <3>2
  <2>8. CASE SenderCheckWrite \/ SenderSendWrite \/ SenderCheckHbReq
             \/ SenderSendHbReq \/ SenderCheckHbResp \/ SenderSendHbResp
    <3>1. /\ spc \notin {"wait", "dead"} /\ spc' # "wait"
          /\ spc' = "dead" => senderCancel
          /\ UNCHANGED <<rpc, rcpc, start, idSet, senderCancel,
                         receiverCancel>>
      BY <2>8 DEF SenderCheckWrite, SenderSendWrite, SenderCheckHbReq,
                  SenderSendHbReq, SenderCheckHbResp, SenderSendHbResp,
                  TestCancel
    <3>2. CASE spc' = "dead"
      <4>1. AWorker' = [AWorker EXCEPT !["sender"] = "stopped"]
        BY <3>1, <3>2, SenderMoves DEF WorkerOf
      <4>2. Lifecycle!Stop("sender")
        BY <3>1, <3>2, <4>1 DEF CancelInv, Lifecycle!Stop, AWorker, WorkerOf
      <4> QED
        BY <4>2 DEF Lifecycle!LNext, Lifecycle!Workers
    <3>3. CASE spc' # "dead"
      BY <3>1, <3>3, AbstractStutter DEF WorkerOf
    <3> QED
      BY <3>2, <3>3
  <2>9. CASE ReceiverWait
    <3>1. CASE start
      <4>1. rcpc = "wait" /\ rcpc' = "loop"
            /\ UNCHANGED <<rpc, spc, start, idSet, senderCancel,
                           receiverCancel>>
        BY <2>9, <3>1 DEF ReceiverWait
      <4>2. AWorker' = [AWorker EXCEPT !["receiver"] = "working"]
        BY <4>1, ReceiverMoves DEF WorkerOf
      <4>3. Lifecycle!Begin("receiver")
        BY <3>1, <4>1, <4>2 DEF Lifecycle!Begin, AWorker, WorkerOf
      <4> QED
        BY <4>3 DEF Lifecycle!LNext, Lifecycle!Workers
    <3>2. CASE ~start
      <4>1. rcpc = "wait" /\ rcpc' = "dead" /\ receiverCancel
            /\ UNCHANGED <<rpc, spc, start, idSet, senderCancel,
                           receiverCancel>>
        BY <2>9, <3>2 DEF ReceiverWait
      <4>2. AWorker' = [AWorker EXCEPT !["receiver"] = "stopped"]
        BY <4>1, ReceiverMoves DEF WorkerOf
      <4>3. Lifecycle!Stop("receiver")
        BY <4>1, <4>2 DEF CancelInv, Lifecycle!Stop, AWorker, WorkerOf
      <4> QED
        BY <4>3 DEF Lifecycle!LNext, Lifecycle!Workers
    <3> QED
      BY <3>1, <3>2
  <2>10. CASE ReceiveNothing
    <3>1. CASE receiverCancel
      <4>1. rcpc = "loop" /\ rcpc' = "dead"
            /\ UNCHANGED <<rpc, spc, start, idSet, senderCancel,
                           receiverCancel>>
        BY <2>10, <3>1 DEF ReceiveNothing, TestCancel
      <4>2. AWorker' = [AWorker EXCEPT !["receiver"] = "stopped"]
        BY <4>1, ReceiverMoves DEF WorkerOf
      <4>3. Lifecycle!Stop("receiver")
        BY <3>1, <4>1, <4>2 DEF CancelInv, Lifecycle!Stop, AWorker, WorkerOf
      <4> QED
        BY <4>3 DEF Lifecycle!LNext, Lifecycle!Workers
    <3>2. CASE ~receiverCancel
      BY <2>10, <3>2, AbstractStutter DEF ReceiveNothing, TestCancel
    <3> QED
      BY <3>1, <3>2
  <2>11. CASE ReceiveMessage \/ Unplug \/ Tick \/ BadHandleFault
              \/ Finished \/ UNCHANGED vars
    <3>1. UNCHANGED <<rpc, spc, rcpc, start, idSet, senderCancel,
                      receiverCancel>>
      BY <2>11 DEF ReceiveMessage, Unplug, Tick, BadHandleFault, Finished,
                   vars
    <3> QED
      BY <3>1, AbstractStutter
  <2>20. QED
    BY <2>1, <2>2, <2>3, <2>4, <2>5, <2>6, <2>7, <2>8, <2>9, <2>10, <2>11
       DEF Next, Relayer, Sender, Receiver
<1>3. QED
  BY <1>1, <1>2, CancelInvariant, PTL DEF Spec, ImplementsLifecycle,
     Lifecycle!LSpec
=============================================================================
