------------------------------- MODULE Relay -------------------------------
(***************************************************************************)
(* The per-device thread trio of dev_handler.c: the relayer (supervisor),  *)
(* the sender and the receiver, sharing one msg_relay_t without locks,     *)
(* together with the USB device they talk to.  One action per step of      *)
(* relayer(), relay_clean_up(), sender() and receiver(); the device and    *)
(* the clock are the environment.                                          *)
(*                                                                         *)
(* Data is abstracted: an interface is its index and the kind of its 0th   *)
(* alternate setting, an endpoint is the index of the interface it was     *)
(* found on, a message is its kind.  Time is millis() as a bounded clock   *)
(* that starts at Epoch (milliseconds since 1970, far above any timeout).  *)
(***************************************************************************)
EXTENDS Integers

CONSTANTS
    NumInterfaces,  \* config->bNumInterfaces of the device
    DeviceTimeout,  \* DEVICE_TIMEOUT (ms)
    HbReqFreq,      \* HB_REQ_FREQ (ms)
    Epoch,          \* value of millis() when the threads start
    MaxTime,        \* bound on how far the clock advances past Epoch
    MaxMsgs         \* bound on HeartBeatRequests received from the device

ASSUME ConstantsAssumption ==
    /\ NumInterfaces \in Nat
    /\ DeviceTimeout \in Nat \ {0}
    /\ HbReqFreq \in Nat \ {0}
    /\ MaxTime \in Nat
    /\ MaxMsgs \in Nat
    \* millis() counts from 1970: it is larger than any timeout constant
    /\ Epoch \in Nat /\ Epoch >= DeviceTimeout /\ Epoch >= HbReqFreq

Ifaces == 0 .. NumInterfaces - 1
NoIdx  == -1                                  \* the code's "-1" sentinel
Times  == Epoch .. Epoch + MaxTime

(* What get_endpoints() finds on the 0th altsetting of an interface:       *)
(* fewer than two endpoints, or two or more among which a bulk IN only, a  *)
(* bulk OUT only, both, or neither.                                        *)
IfaceKinds == {"lt2", "in", "out", "both", "neither"}

(* Kinds of message the receiver can parse out of a frame.                *)
RecvKinds == {"HeartBeatRequest", "HeartBeatResponse", "DeviceData",
              "Log", "Error", "Other"}

RelayerPcs   == {"config", "claim", "ping", "monitor", "release", "cancel",
                 "free", "done"}
SenderPcs    == {"wait", "write", "write_send", "hbreq", "hbreq_send",
                 "hbresp", "hbresp_send", "dead"}
ReceiverPcs  == {"wait", "loop", "dead"}

VARIABLES
    rpc, spc, rcpc,          \* program counters of relayer, sender, receiver
    desc,                    \* the device's interface descriptors
    attached,                \* the device is still plugged in
    handle,                  \* relay->handle: "open", "invalid" or "closed"
    iface,                   \* loop index i of the claim loop in relayer()
    interfaceIdx,            \* relay->interface_idx
    rxEp, txEp,              \* relay->receive_endpoint, relay->send_endpoint
    idSet,                   \* relay->dev_id filled in by ping()
    start,                   \* relay->start
    sentHbReq,               \* relay->sent_hb_req
    gotHbReq,                \* relay->got_hb_req
    senderCancel,            \* pthread_cancel(relay->sender) was called
    receiverCancel,          \* pthread_cancel(relay->receiver) was called
    freed,                   \* free(relay) was called
    payloadNull,             \* receiver's msg->payload was set to NULL
    crashed,                 \* the dev_handler process died (SIGSEGV)
    now,                     \* millis()
    \* history variables, not in the code; used only by properties
    cause,                   \* why the relayer left its monitor loop
    lastReqAt,               \* when a HeartBeatRequest last reached the device
    hbReqRecv,               \* HeartBeatRequests parsed by the receiver
    hbRespSent               \* HeartBeatResponses transmitted by the sender

vars == <<rpc, spc, rcpc, desc, attached, handle, iface, interfaceIdx, rxEp,
          txEp, idSet, start, sentHbReq, gotHbReq, senderCancel,
          receiverCancel, freed, payloadNull, crashed, now, cause, lastReqAt,
          hbReqRecv, hbRespSent>>

-----------------------------------------------------------------------------
(* The type of the program counters, the USB state, the clock and the    *)
(* counters; the Boolean fields are FlagsTypeOK.                          *)
DataTypeOK ==
    /\ rpc \in RelayerPcs /\ spc \in SenderPcs /\ rcpc \in ReceiverPcs
    /\ desc \in [Ifaces -> IfaceKinds]
    /\ handle \in {"open", "invalid", "closed"}
    /\ iface \in 0 .. NumInterfaces
    /\ rpc = "config" => iface = 0
    /\ rpc = "claim" => iface \in Ifaces
    /\ interfaceIdx \in Ifaces \cup {NoIdx}
    /\ rxEp \in Ifaces \cup {NoIdx} /\ txEp \in Ifaces \cup {NoIdx}
    /\ sentHbReq \in {0} \cup Times
    /\ now \in Times
    /\ cause \in {"none", "gone", "timeout"}
    /\ lastReqAt \in {NoIdx} \cup Times
    /\ hbReqRecv \in 0 .. MaxMsgs /\ hbRespSent \in Nat

FlagsTypeOK ==
    /\ attached \in BOOLEAN /\ idSet \in BOOLEAN /\ start \in BOOLEAN
    /\ gotHbReq \in BOOLEAN
    /\ senderCancel \in BOOLEAN /\ receiverCancel \in BOOLEAN
    /\ freed \in BOOLEAN /\ payloadNull \in BOOLEAN /\ crashed \in BOOLEAN

TypeOK == DataTypeOK /\ FlagsTypeOK

(* communicate(): relay fields initialised, libusb_open() has succeeded or *)
(* failed (failure is only logged: the handle stays uninitialised), and    *)
(* the three threads are created.                                          *)
Init ==
    /\ rpc = "config" /\ spc = "wait" /\ rcpc = "wait"
    /\ desc \in [Ifaces -> IfaceKinds]
    /\ attached = TRUE
    /\ handle \in {"open", "invalid"}
    /\ iface = 0 /\ interfaceIdx = NoIdx /\ rxEp = NoIdx /\ txEp = NoIdx
    /\ idSet = FALSE /\ start = FALSE
    /\ sentHbReq = 0 /\ gotHbReq = FALSE
    /\ senderCancel = FALSE /\ receiverCancel = FALSE /\ freed = FALSE
    /\ payloadNull = FALSE /\ crashed = FALSE
    /\ now = Epoch
    /\ cause = "none" /\ lastReqAt = NoIdx
    /\ hbReqRecv = 0 /\ hbRespSent = 0

(* Mutant: a cancellation point that never acts on the request.          *)
TestCancelIgnored(cancelled, next) == next

(* pthread_testcancel(): the thread ends here if it was cancelled.        *)
TestCancel(cancelled, next) == IF cancelled THEN "dead" ELSE next

(* A bulk transfer on the claimed endpoints can reach the device.          *)
Reachable(ep) == handle = "open" /\ attached /\ ep # NoIdx

-----------------------------------------------------------------------------
(***************************** relayer() **********************************)

(* libusb_get_active_config_descriptor(), then auto-detach on the handle. *)
GetConfig ==
    /\ rpc = "config"
    /\ \/ rpc' = "release"                                  \* error: clean up
       \/ rpc' = IF NumInterfaces = 0 THEN "ping" ELSE "claim"
    /\ UNCHANGED <<spc, rcpc, desc, attached, handle, iface, interfaceIdx,
                   rxEp, txEp, idSet, start, sentHbReq, gotHbReq,
                   senderCancel, receiverCancel, freed, payloadNull, crashed,
                   now, cause, lastReqAt, hbReqRecv, hbRespSent>>

(* get_endpoints(): sets each endpoint it finds, succeeds iff both found. *)
NewRxEp(i) == IF desc[i] \in {"in", "both"} THEN i ELSE rxEp
NewTxEp(i) == IF desc[i] \in {"out", "both"} THEN i ELSE txEp

(* Mutant: the claim loop runs to i <= bNumInterfaces.                   *)
ClaimInterfaceOffByOne ==
    /\ rpc = "claim"
    /\ LET i == iface
           last == i = NumInterfaces
       IN \/ /\ iface' = i + 1                     \* claim failed
             /\ rpc' = IF last THEN "ping" ELSE "claim"
             /\ UNCHANGED <<interfaceIdx, rxEp, txEp>>
          \/ /\ handle = "open"                   \* claimed
             /\ rxEp' = NewRxEp(i) /\ txEp' = NewTxEp(i)
             /\ IF desc[i] = "both"
                  THEN /\ interfaceIdx' = i /\ rpc' = "ping"
                       /\ UNCHANGED iface
                  ELSE /\ iface' = i + 1
                       /\ rpc' = IF last THEN "release" ELSE "claim"
                       /\ UNCHANGED interfaceIdx
    /\ UNCHANGED <<spc, rcpc, desc, attached, handle, idSet, start, sentHbReq,
                   gotHbReq, senderCancel, receiverCancel, freed, payloadNull,
                   crashed, now, cause, lastReqAt, hbReqRecv, hbRespSent>>

(* One iteration of the claim loop for interface iface.  A failed claim   *)
(* is "continue": on the last interface it leaves the loop and falls      *)
(* through to ping().  A claimed interface without both endpoints is      *)
(* released; on the last interface that is the "give up" clean-up.        *)
ClaimInterface ==
    /\ rpc = "claim"
    /\ LET i == iface
           last == i = NumInterfaces - 1
       IN \/ /\ iface' = i + 1                     \* claim failed
             /\ rpc' = IF last THEN "ping" ELSE "claim"
             /\ UNCHANGED <<interfaceIdx, rxEp, txEp>>
          \/ /\ handle = "open"                   \* claimed
             /\ rxEp' = NewRxEp(i) /\ txEp' = NewTxEp(i)
             /\ IF desc[i] = "both"
                  THEN /\ interfaceIdx' = i /\ rpc' = "ping"
                       /\ UNCHANGED iface
                  ELSE /\ iface' = i + 1
                       /\ rpc' = IF last THEN "release" ELSE "claim"
                       /\ UNCHANGED interfaceIdx
    /\ UNCHANGED <<spc, rcpc, desc, attached, handle, idSet, start, sentHbReq,
                   gotHbReq, senderCancel, receiverCancel, freed, payloadNull,
                   crashed, now, cause, lastReqAt, hbReqRecv, hbRespSent>>

(* Mutant: relay->start raised before ping()'s result is checked.        *)
PingStartEarly ==
    /\ rpc = "ping"
    /\ start' = TRUE
    /\ \/ /\ Reachable(txEp) /\ Reachable(rxEp)
          /\ idSet' = TRUE /\ rpc' = "monitor"
          /\ UNCHANGED crashed
       \/ /\ Reachable(txEp) /\ Reachable(rxEp)
          /\ crashed' = TRUE
          /\ UNCHANGED <<idSet, rpc>>
       \/ /\ rpc' = "release"
          /\ UNCHANGED <<idSet, crashed>>
    /\ UNCHANGED <<spc, rcpc, desc, attached, handle, iface, interfaceIdx,
                   rxEp, txEp, sentHbReq, gotHbReq, senderCancel,
                   receiverCancel, freed, payloadNull, now, cause,
                   lastReqAt, hbReqRecv, hbRespSent>>

(* ping(): send a Ping, read a SubscriptionResponse, check its checksum   *)
(* and kind, copy the identity.  Any failure cleans up.  On success the   *)
(* relayer (device_connect() being commented out) sets relay->start.      *)
(* The response is parsed into a malloc'd message_t whose payload pointer *)
(* is never set: parse_message() writes through it, which may fault.      *)
Ping ==
    /\ rpc = "ping"
    /\ \/ /\ Reachable(txEp) /\ Reachable(rxEp)
          /\ idSet' = TRUE /\ start' = TRUE /\ rpc' = "monitor"
          /\ UNCHANGED crashed
       \/ /\ Reachable(txEp) /\ Reachable(rxEp)
          /\ crashed' = TRUE
          /\ UNCHANGED <<idSet, start, rpc>>
       \/ /\ rpc' = "release"
          /\ UNCHANGED <<idSet, start, crashed>>
    /\ UNCHANGED <<spc, rcpc, desc, attached, handle, iface, interfaceIdx,
                   rxEp, txEp, sentHbReq, gotHbReq, senderCancel,
                   receiverCancel, freed, payloadNull, now, cause,
                   lastReqAt, hbReqRecv, hbRespSent>>

(* The monitor loop: libusb_get_device_descriptor() fails (possible once  *)
(* the device is gone) or millis() - relay->sent_hb_req >= DEVICE_TIMEOUT *)
(* sends the relayer to relay_clean_up(); otherwise it spins.             *)
Monitor ==
    /\ rpc = "monitor"
    /\ \/ /\ ~attached /\ cause' = "gone"
       \/ /\ now - sentHbReq >= DeviceTimeout
          /\ cause' = IF attached THEN "timeout" ELSE "gone"
    /\ rpc' = "release"
    /\ UNCHANGED <<spc, rcpc, desc, attached, handle, iface, interfaceIdx,
                   rxEp, txEp, idSet, start, sentHbReq, gotHbReq,
                   senderCancel, receiverCancel, freed, payloadNull, crashed,
                   now, lastReqAt, hbReqRecv, hbRespSent>>

(*************************** relay_clean_up() *****************************)

(* Mutant: relay_clean_up() without its pthread_cancel() calls.         *)
ReleaseSkipCancel ==
    /\ rpc = "release"
    /\ handle' = "closed" /\ rpc' = "free"
    /\ UNCHANGED <<spc, rcpc, desc, attached, iface, interfaceIdx, rxEp, txEp,
                   idSet, start, sentHbReq, gotHbReq, senderCancel,
                   receiverCancel, freed, payloadNull, crashed, now, cause,
                   lastReqAt, hbReqRecv, hbRespSent>>

(* libusb_release_interface(handle, interface_idx); libusb_close(handle). *)
ReleaseAndClose ==
    /\ rpc = "release"
    /\ handle' = "closed" /\ rpc' = "cancel"
    /\ UNCHANGED <<spc, rcpc, desc, attached, iface, interfaceIdx, rxEp, txEp,
                   idSet, start, sentHbReq, gotHbReq, senderCancel,
                   receiverCancel, freed, payloadNull, crashed, now, cause,
                   lastReqAt, hbReqRecv, hbRespSent>>

(* pthread_cancel() of sender and receiver: a request, acted upon at the  *)
(* target's next cancellation point.                                      *)
CancelThreads ==
    /\ rpc = "cancel"
    /\ senderCancel' = TRUE /\ receiverCancel' = TRUE /\ rpc' = "free"
    /\ UNCHANGED <<spc, rcpc, desc, attached, handle, iface, interfaceIdx,
                   rxEp, txEp, idSet, start, sentHbReq, gotHbReq, freed,
                   payloadNull, crashed, now, cause, lastReqAt, hbReqRecv,
                   hbRespSent>>

(* sleep(1) stands in for a join: nothing makes the other threads reach a *)
(* cancellation point first.  device_disconnect() is commented out;       *)
(* free(relay); pthread_cancel(pthread_self()).                           *)
FreeRelay ==
    /\ rpc = "free"
    /\ freed' = TRUE /\ rpc' = "done"
    /\ UNCHANGED <<spc, rcpc, desc, attached, handle, iface, interfaceIdx,
                   rxEp, txEp, idSet, start, sentHbReq, gotHbReq,
                   senderCancel, receiverCancel, payloadNull, crashed, now,
                   cause, lastReqAt, hbReqRecv, hbRespSent>>

Relayer == GetConfig \/ ClaimInterface \/ Ping \/ Monitor
           \/ ReleaseAndClose \/ CancelThreads \/ FreeRelay

-----------------------------------------------------------------------------
(****************************** sender() **********************************)

(* Spin until relay->start == 1, calling pthread_testcancel() each turn.   *)
SenderWait ==
    /\ spc = "wait"
    /\ start \/ senderCancel
    /\ spc' = IF start THEN "write" ELSE "dead"
    /\ UNCHANGED <<rpc, rcpc, desc, attached, handle, iface, interfaceIdx,
                   rxEp, txEp, idSet, start, sentHbReq, gotHbReq,
                   senderCancel, receiverCancel, freed, payloadNull, crashed,
                   now, cause, lastReqAt, hbReqRecv, hbRespSent>>

(* pmap[0] & (1 << relay->shm_dev_idx): pmap is never assigned (the        *)
(* get_param_bitmap() call is commented out) and shm_dev_idx is -1, so the *)
(* test reads through an uninitialised pointer: it may fault, or read      *)
(* either outcome.                                                        *)
SenderCheckWrite ==
    /\ spc = "write"
    /\ \/ /\ \E pending \in BOOLEAN :
               spc' = IF pending THEN "write_send"
                      ELSE TestCancel(senderCancel, "hbreq")
          /\ UNCHANGED crashed
       \/ /\ crashed' = TRUE
          /\ UNCHANGED spc
    /\ UNCHANGED <<rpc, rcpc, desc, attached, handle, iface, interfaceIdx,
                   rxEp, txEp, idSet, start, sentHbReq, gotHbReq,
                   senderCancel, receiverCancel, freed, payloadNull,
                   now, cause, lastReqAt, hbReqRecv, hbRespSent>>

(* make_device_write(&relay->dev_id, pmap[1 + shm_dev_idx], params):      *)
(* param_values is the uint32_t read from pmap and len the params        *)
(* pointer, so param_values[len-1] is a wild read that may fault.  Else   *)
(* send_message(); a failed transfer is only logged.                      *)
SenderSendWrite ==
    /\ spc = "write_send"
    /\ \/ /\ spc' = TestCancel(senderCancel, "hbreq")
          /\ UNCHANGED crashed
       \/ /\ crashed' = TRUE
          /\ UNCHANGED spc
    /\ UNCHANGED <<rpc, rcpc, desc, attached, handle, iface, interfaceIdx,
                   rxEp, txEp, idSet, start, sentHbReq, gotHbReq,
                   senderCancel, receiverCancel, freed, payloadNull,
                   now, cause, lastReqAt, hbReqRecv, hbRespSent>>

(* millis() - relay->sent_hb_req >= HB_REQ_FREQ ?                          *)
SenderCheckHbReq ==
    /\ spc = "hbreq"
    /\ spc' = IF now - sentHbReq >= HbReqFreq THEN "hbreq_send"
              ELSE TestCancel(senderCancel, "hbresp")
    /\ UNCHANGED <<rpc, rcpc, desc, attached, handle, iface, interfaceIdx,
                   rxEp, txEp, idSet, start, sentHbReq, gotHbReq,
                   senderCancel, receiverCancel, freed, payloadNull, crashed,
                   now, cause, lastReqAt, hbReqRecv, hbRespSent>>

(* make_heartbeat_request() + send_message().  relay->sent_hb_req is not  *)
(* assigned here (nor anywhere else but to 0 by the receiver).            *)
SenderSendHbReq ==
    /\ spc = "hbreq_send"
    /\ lastReqAt' = IF Reachable(txEp) THEN now ELSE lastReqAt
    /\ spc' = TestCancel(senderCancel, "hbresp")
    /\ UNCHANGED <<rpc, rcpc, desc, attached, handle, iface, interfaceIdx,
                   rxEp, txEp, idSet, start, sentHbReq, gotHbReq,
                   senderCancel, receiverCancel, freed, payloadNull, crashed,
                   now, cause, hbReqRecv, hbRespSent>>

(* if (relay->got_hb_req): read the flag the receiver sets.               *)
SenderCheckHbResp ==
    /\ spc = "hbresp"
    /\ spc' = IF gotHbReq THEN "hbresp_send"
              ELSE TestCancel(senderCancel, "write")
    /\ UNCHANGED <<rpc, rcpc, desc, attached, handle, iface, interfaceIdx,
                   rxEp, txEp, idSet, start, sentHbReq, gotHbReq,
                   senderCancel, receiverCancel, freed, payloadNull, crashed,
                   now, cause, lastReqAt, hbReqRecv, hbRespSent>>

(* Mutant: the request is never marked resolved.                         *)
ResolveHbReqForgotten == UNCHANGED gotHbReq

(* relay->got_hb_req = 0: "Mark as resolved".                             *)
ResolveHbReq == gotHbReq' = FALSE

(* make_heartbeat_response() + send_message(), then resolve the request.  *)
SenderSendHbResp ==
    /\ spc = "hbresp_send"
    /\ hbRespSent' = hbRespSent + 1
    /\ ResolveHbReq
    /\ spc' = TestCancel(senderCancel, "write")
    /\ UNCHANGED <<rpc, rcpc, desc, attached, handle, iface, interfaceIdx,
                   rxEp, txEp, idSet, start, sentHbReq, senderCancel,
                   receiverCancel, freed, payloadNull, crashed, now, cause,
                   lastReqAt, hbReqRecv>>

Sender == SenderWait \/ SenderCheckWrite \/ SenderSendWrite
          \/ SenderCheckHbReq \/ SenderSendHbReq
          \/ SenderCheckHbResp \/ SenderSendHbResp

-----------------------------------------------------------------------------
(***************************** receiver() *********************************)

ReceiverWait ==
    /\ rcpc = "wait"
    /\ start \/ receiverCancel
    /\ rcpc' = IF start THEN "loop" ELSE "dead"
    /\ UNCHANGED <<rpc, spc, desc, attached, handle, iface, interfaceIdx,
                   rxEp, txEp, idSet, start, sentHbReq, gotHbReq,
                   senderCancel, receiverCancel, freed, payloadNull, crashed,
                   now, cause, lastReqAt, hbReqRecv, hbRespSent>>

(* One turn of the loop: pthread_testcancel(), then receive_message()      *)
(* finds no complete frame (timeout, stray byte, short read: "continue").  *)
ReceiveNothing ==
    /\ rcpc = "loop"
    /\ rcpc' = TestCancel(receiverCancel, "loop")
    /\ UNCHANGED <<rpc, spc, desc, attached, handle, iface, interfaceIdx,
                   rxEp, txEp, idSet, start, sentHbReq, gotHbReq,
                   senderCancel, receiverCancel, freed, payloadNull, crashed,
                   now, cause, lastReqAt, hbReqRecv, hbRespSent>>

(* Clearing msg after dispatch: msg->payload = 0x0 among the resets.      *)
ClearMessage == payloadNull' = TRUE

(* A complete frame is read and parse_message() copies its payload into   *)
(* msg->payload.  After the first dispatched message that pointer is NULL *)
(* and the copy faults.  A bad checksum drops the frame; otherwise the    *)
(* message is dispatched by kind and msg is cleared (payload = NULL).     *)
ReceiveMessage ==
    /\ rcpc = "loop" /\ ~receiverCancel
    /\ Reachable(rxEp)
    /\ \E kind \in RecvKinds, checksumOk \in BOOLEAN :
         IF payloadNull
           THEN /\ crashed' = TRUE
                /\ UNCHANGED <<gotHbReq, sentHbReq, payloadNull, hbReqRecv>>
           ELSE /\ UNCHANGED crashed
                /\ IF ~checksumOk
                     THEN UNCHANGED <<gotHbReq, sentHbReq, payloadNull,
                                      hbReqRecv>>
                     ELSE /\ ClearMessage
                          /\ IF kind = "HeartBeatRequest"
                               THEN /\ hbReqRecv < MaxMsgs
                                    /\ gotHbReq' = TRUE
                                    /\ hbReqRecv' = hbReqRecv + 1
                               ELSE UNCHANGED <<gotHbReq, hbReqRecv>>
                          /\ sentHbReq' = IF kind = "HeartBeatResponse"
                                            THEN 0 ELSE sentHbReq
    /\ UNCHANGED <<rpc, spc, rcpc, desc, attached, handle, iface, interfaceIdx,
                   rxEp, txEp, idSet, start, senderCancel, receiverCancel,
                   freed, now, cause, lastReqAt, hbRespSent>>

Receiver == ReceiverWait \/ ReceiveNothing \/ ReceiveMessage

-----------------------------------------------------------------------------
(************************* environment and faults *************************)

(* The device is unplugged.                                               *)
Unplug ==
    /\ attached
    /\ attached' = FALSE
    /\ UNCHANGED <<rpc, spc, rcpc, desc, handle, iface, interfaceIdx, rxEp,
                   txEp, idSet, start, sentHbReq, gotHbReq, senderCancel,
                   receiverCancel, freed, payloadNull, crashed, now, cause,
                   lastReqAt, hbReqRecv, hbRespSent>>

(* millis() advances.                                                     *)
Tick ==
    /\ now < Epoch + MaxTime
    /\ now' = now + 1
    /\ UNCHANGED <<rpc, spc, rcpc, desc, attached, handle, iface,
                   interfaceIdx, rxEp, txEp, idSet, start, sentHbReq,
                   gotHbReq, senderCancel, receiverCancel, freed, payloadNull,
                   crashed, cause, lastReqAt, hbReqRecv, hbRespSent>>

(* A libusb call on relay->handle when it is not an open handle (never    *)
(* opened, or already freed by libusb_close()) is undefined: it may fault. *)
HandleUse ==
    \/ rpc \in {"config", "claim", "ping", "release"}
    \/ spc \in {"write_send", "hbreq_send", "hbresp_send"}
    \/ rcpc = "loop" /\ ~receiverCancel

BadHandleFault ==
    /\ handle # "open" /\ HandleUse
    /\ crashed' = TRUE
    /\ UNCHANGED <<rpc, spc, rcpc, desc, attached, handle, iface,
                   interfaceIdx, rxEp, txEp, idSet, start, sentHbReq,
                   gotHbReq, senderCancel, receiverCancel, freed, payloadNull,
                   now, cause, lastReqAt, hbReqRecv, hbRespSent>>

(* Nothing is left to run for this device (or the process is gone).       *)
Finished ==
    /\ crashed \/ (rpc = "done" /\ spc = "dead" /\ rcpc = "dead")
    /\ UNCHANGED vars

Next ==
    \/ ~crashed /\ (Relayer \/ Sender \/ Receiver \/ BadHandleFault)
    \/ ~crashed /\ (Unplug \/ Tick)
    \/ Finished

(* Each thread is an OS thread under a preemptive scheduler: one that can *)
(* run eventually does.  Whether a frame arrives is up to the device, so  *)
(* the receiver is owed only the steps that need no message; the device   *)
(* and the clock get no fairness.                                         *)
Fairness ==
    /\ WF_vars(~crashed /\ Relayer)
    /\ WF_vars(~crashed /\ Sender)
    /\ WF_vars(~crashed /\ (ReceiverWait \/ ReceiveNothing))

Spec == Init /\ [][Next]_vars /\ Fairness

-----------------------------------------------------------------------------
(******************************* properties *******************************)

(* The sender never transmits more HeartBeatResponses than the receiver   *)
(* has parsed HeartBeatRequests: the got_hb_req handshake between the two *)
(* threads (set by receiver(), tested then cleared by sender()) never     *)
(* produces a response nobody asked for.                                  *)
HeartbeatResponsesMatchRequests == hbRespSent <= hbReqRecv

(* The sender and the receiver do device I/O only once the relayer's ping *)
(* handshake has filled in relay->dev_id: relay->start is the only gate.  *)
WorkOnlyAfterHandshake ==
    (spc \notin {"wait", "dead"} \/ rcpc = "loop") => idSet

(* A pthread_cancel() of the sender or receiver takes effect: the thread  *)
(* reaches a cancellation point and stops.                                *)
CancelledThreadsStop ==
    /\ senderCancel ~> (spc = "dead" \/ crashed)
    /\ receiverCancel ~> (rcpc = "dead" \/ crashed)

(* Spec 4.3/8: the relayer tears a device down for a heartbeat timeout    *)
(* only when a HeartBeatRequest reached the device DEVICE_TIMEOUT ago     *)
(* (relayer()'s monitor loop against sender()'s heartbeat bookkeeping).   *)
TimeoutJustified ==
    cause = "timeout" =>
        /\ lastReqAt # NoIdx
        /\ now - lastReqAt >= DeviceTimeout

(* Spec 5: teardown waits for the sender and receiver to stop before it   *)
(* frees the relay (relay_clean_up()'s sleep(1) before free(relay)).      *)
TeardownWaitsForThreads ==
    (freed /\ ~crashed) => (spc = "dead" /\ rcpc = "dead")

(* Spec 5: in-flight transfers are not corrupted by teardown: no transfer *)
(* of the sender or receiver uses relay->handle after libusb_close().     *)
TransfersUseOpenHandle ==
    ~crashed =>
        ~(handle = "closed"
          /\ (spc \in {"write_send", "hbreq_send", "hbresp_send"}
              \/ (rcpc = "loop" /\ ~receiverCancel)))

(* Spec 7: a device's failure never takes down the process.               *)
NoProcessCrash == ~crashed

(* Spec 4.3: the handshake is done over the endpoints of the interface    *)
(* the relayer claimed; if every interface fails it tears down instead.   *)
HandshakeOnClaimedInterface ==
    idSet => /\ interfaceIdx # NoIdx
             /\ rxEp = interfaceIdx /\ txEp = interfaceIdx

-----------------------------------------------------------------------------
(***************************** refinement ********************************)

(* The supervisor phase of relayer()'s program counter; a worker is       *)
(* waiting in its start spin, stopped once it has ended, working between. *)
PhaseOf(pc) ==
    CASE pc \in {"config", "claim", "ping"}      -> "setup"
      [] pc = "monitor"                          -> "active"
      [] pc \in {"release", "cancel", "free"}    -> "teardown"
      [] pc = "done"                             -> "done"

WorkerOf(pc) ==
    CASE pc = "wait" -> "waiting"
      [] pc = "dead" -> "stopped"
      [] OTHER       -> "working"

Lifecycle == INSTANCE RelayLifecycle WITH
    phase      <- PhaseOf(rpc),
    started    <- start,
    identified <- idSet,
    cancelled  <- senderCancel /\ receiverCancel,
    worker     <- [w \in {"sender", "receiver"} |->
                     IF w = "sender" THEN WorkerOf(spc) ELSE WorkerOf(rcpc)]

(* relayer(), relay_clean_up(), sender() and receiver() together behave   *)
(* as the supervisor state machine of RelayLifecycle: phases in order,    *)
(* start raised only by ping()'s success, workers past their start spin   *)
(* only after it, stopped only after pthread_cancel(), free(relay) only   *)
(* after both pthread_cancel() calls.                                     *)
ImplementsLifecycle == Lifecycle!LSpec
=============================================================================
