# TLA+ models of the runtime (`src/dev_handler`, `src/executor`)

This directory holds a verification development for the USB device layer,
its wire codec and the student-code executor of the runtime. It contains TLA+ modules written from the C source, TLC
configurations that model-check them on small instances, and TLAPS proofs
of the main safety properties for every value of the constants.

## The system

`dev_handler.c` runs one **Discovery Poller** (`poll_connected_devices`).
For each device the poller sees appear, `communicate()` creates three
threads that share one `msg_relay_t` without locks:

* the **relayer** (supervisor) claims an interface, finds the bulk
  endpoints (`get_endpoints`), does the Ping/SubscriptionResponse
  handshake (`ping`) and then sets `relay->start`. It then watches the
  device and the heartbeat timestamp, and tears down in `relay_clean_up`:
  release, close, cancel both threads, `sleep(1)`, `free(relay)`;
* the **sender** spins on `start` and then loops. Each turn it may send a
  DeviceWrite, may send a HeartBeatRequest (when `millis() - sent_hb_req`
  reaches `HB_REQ_FREQ`), and sends a HeartBeatResponse when
  `got_hb_req` is set, clearing the flag afterwards;
* the **receiver** spins on `start`, then reads frames
  (`receive_message`) and dispatches them by kind. A HeartBeatRequest
  sets `got_hb_req`; a HeartBeatResponse sets `sent_hb_req = 0`.

The **Wire Codec** (`message.c`: checksum, COBS, `message_to_bytes`,
`parse_message`) gives the byte format all of them use. The executor
(`src/executor`) is a separate process that runs student code. The
parameter store (`shm_wrapper.h`) is only a header here. Every call to
it from the device core is commented out. The executor does call the
auxiliary wrapper (`shm_aux_init`, `shm_aux_stop`, `robot_desc_read`),
whose source is not in this repository either.

## Modules

| module | models | source |
|---|---|---|
| `Relay` | the relayer, sender and receiver of one device, plus the device and the clock as environment | `dev_handler.c` 212-471, 482-675 |
| `MCRelay` | TLC instance of `Relay` (constants in the `.cfg`) | |
| `RelayLifecycle` | abstract spec of one relay's lifecycle: setup, active, teardown, freed; workers wait, work, stop | the design's supervisor states; `dev_handler.c` 246-414 through the mapping in `Relay` |
| `RelayProofs` | TLAPS proofs about `Relay`, including that it refines `RelayLifecycle` | |
| `Poller` | the polling loop, the tracked list and `get_new_device`, with a bus on which devices are plugged and unplugged | `dev_handler.c` 90-199 |
| `MCPoller` | TLC instance of `Poller` with three model-value devices | |
| `Message` | the message layer: constructors, `append_payload`, `device_data_payload_size`, `checksum`, `message_to_bytes`, `parse_message`, the byte path of `receive_message`, the identity fields `ping()` reads | `message.c` 25-39, 45-142, 217-259, 389-414; `dev_handler.c` 561-606, 665-675 |
| `MessageProofs` | TLAPS proofs about `Message`: serialize/parse round trip, and what `receive_message` accepts | |
| `Cobs` | `cobs_encode` and its `finish_block()` macro | `message.c` 264-303 |
| `CobsProofs` | TLAPS proofs about `Cobs`: the encoder's loop invariant and `EncodingHasNoZero` | |
| `Codec` | extends `Message` and `Cobs` with `encode_params`, `make_device_write`/`make_device_data` and `cobs_decode` | `message.c` 155-197, 304-359 |
| `CodecInputs` | the part of the codec harness that reaches only `Cobs`: the input variable, its steps, and `CobsNoZeroBytes` | |
| `MCCodec` | TLC harness: every byte sequence up to a bound is a state | |
| `Executor` | the executor process: main thread, SIGINT/`executor_stop`, the mode-change handler, mode threads, setup threads | `executor.c` 74-404, 487-530 |
| `MCExecutor` | TLC instance of `Executor` with model-value modes and student-code behaviours | |
| `ModeSwitching` | abstract spec of what the executor promises about modes: accept a RUN_MODE, start its thread only after the old one ended, exit only with nothing running | `executor.c` 380-403, 74-84 through the mapping in `Executor` |
| `ExecutorProofs` | TLAPS proofs about `Executor` | |
| `ExecutorRefinement` | TLAPS proof that `Executor` refines `ModeSwitching` | |

### `Relay`

There is one program counter per thread: `rpc`, `spc` and `rcpc`. Each
action is one step between the code's blocking or observable points:

* relayer actions:
  * `GetConfig` (249-262).
  * `ClaimInterface` (one iteration of the loop at 265-286, with
    `get_endpoints` abstracted to the kind of interface 0's altsetting).
  * `Ping` (`ping()` plus 288-304). It succeeds, fails, or faults when
    parsing into the unset `sub_response->payload`.
  * `Monitor` (306-317).
  * `ReleaseAndClose`, `CancelThreads` and `FreeRelay`
    (`relay_clean_up`).
* sender actions:
  * `SenderWait` (353-359).
  * `SenderCheckWrite` (365-379). `pmap` is never assigned and the shift
    count is `shm_dev_idx = -1`, so the test is undefined behaviour: it
    either picks a write decision freely or faults (`crashed`).
  * `SenderSendWrite` (380-390) likewise sends or faults, since
    `make_device_write` gets the same wild arguments.
  * `SenderCheckHbReq`, `SenderSendHbReq`,
    `SenderCheckHbResp` and `SenderSendHbResp`.
  * `TestCancel` models `pthread_testcancel()` at each cancellation point.
* receiver actions:
  * `ReceiverWait`.
  * `ReceiveNothing`: a cancellation point, then no complete frame.
  * `ReceiveMessage`: a parsed frame. Its checksum may be bad. When it is
    good the message is dispatched by kind and cleared, and the clear sets
    the payload pointer to NULL (`payloadNull`), so the next frame
    faults (`crashed`).
* environment and fault actions:
  * `Unplug` and `Tick` (`millis()`).
  * `BadHandleFault`: a libusb call on a handle that was never opened
    (a `libusb_open` failure is only logged) or was already closed. This
    is undefined behaviour, so it may fault.

Data is abstracted:

* an interface is its index and a kind (`IfaceKinds`);
* an endpoint is the index of the interface it came from, or `NoIdx`;
* a message is its kind plus a checksum verdict;
* time is a clock that starts at `Epoch` (`millis()` is far above any
  timeout).

At the end of `Relay` the refinement mapping sends the state to
`RelayLifecycle`: `PhaseOf(rpc)` groups the relayer's program counter
into the four phases, `WorkerOf` maps each pump's program counter to
waiting (start spin), stopped (`dead`) or working, `start` and `idSet`
are the start and identified flags, and `cancelled` is the conjunction
of the two threads' pending cancellations.

The history variables `cause`, `lastReqAt`, `hbReqRecv` and `hbRespSent`
are not in the code. The properties use them.

### `Poller`

The bus is a set of devices (`Devs`). Each device is plugged in at most
once, because a replugged device gets a new address and so a new
identity. `tracked` is the previous enumeration, in order.

`Poll` models one turn of the loop:

* libusb enumerates the bus in some order (any permutation);
* only the counts are compared;
* on an increase `get_new_device` picks the first position `i` where
  `connected[i] != tracked[i]`. This is the `tracked[i]` bug at 185:
  the loop over `j` does not change what is compared. The count of
  relays for that device goes up, or, when `i` is past the tracked array,
  the process faults;
* after any change the tracked list is retracked.

The history variable `booted` (the bus when the poller started) is not in
the code; `SpawnsBoundedByAttaches` uses it.

### `Message`, `Cobs` and `Codec`

Every function of the codec is pure, so each is an operator over byte
sequences (naturals below 256). A `message_t` is a record
`[id, payload, max]`.

The layer is split in three modules. `Message` holds everything a
message is built from and read back with. `Cobs` holds the COBS
encoder. Neither uses `Bitwise` or `RECURSIVE`, so `MessageProofs` and
`CobsProofs` can prove things about them. `Codec` extends both with the
parameter masks (which use `Bitwise`) and the COBS decoder (which is
`RECURSIVE`).

* `Checksum` is the loop of `checksum()` as a recursive function over
  the first `len` bytes (the only ones the code reads); it starts from
  `data[0]` and XORs `data[0]` in again, as the code does. The XOR of C
  is `ByteXor`, bit by bit from the lowest, written as a recursive
  function rather than taken from `Bitwise` so that `Message` can be
  reasoned about.
* `CobsEncode` (in `Cobs`) runs `EncodeLoop` and ends with `FinishBlock`
  (the `finish_block()` macro).
  * `EncodeLoop` is a recursive function over the input. Its entry `i`
    is the encoder's locals after `i` bytes, starting from `EncoderInit`.
  * `EncodeByte` is one turn of the `while` loop. `CopyByte` is its
    data branch.
  * The slot reserved for the next code byte is part of the state, so the
    extra code byte after a full block appears.
* `DecodeFrom` is the outer loop of `cobs_decode()` (a `RECURSIVE`
  operator, which is why `Codec` has no theorems). A block that claims
  more bytes than remain is the "Bad packet" return.
* `MessageToBytes`/`ParseMessage` write and read id, length, payload and
  checksum. `ReceiveFrame` is `receive_message()` on the bytes the device
  has queued: its return codes, and `parse_message` on the raw frame body
  followed by uninitialised buffer bytes (`junk`).
* `EncodeParams` is `encode_params`: each name's first index in the
  catalogue, or a junk value for a name not found (the uninitialised
  `param_nums[i]`), ORed as `1 << n` (`n % 32`).
* `MakeSubscriptionRequest` and `MakeDeviceRead` append the mask
  (`Uint32Bytes`, little-endian) and the delay's memory bytes.
* `MakeDeviceWrite` is `make_device_write`: `WriteMask` builds the mask
  from the last parameter down (161-167, shifts kept to `MaskBits` bits),
  then `ParamBytes` appends each present value by its catalogue type
  (4 bytes for int and float, 1 for bool, nothing for another type).
  The record carries `alloc`, the `malloc` size from
  `DeviceDataPayloadSize` (`device_data_payload_size`).
  `MakeDeviceData` changes the id of that message.
* `MakeSubscriptionResponse` copies from the memory images of its
  arguments (so the bytes after `uid` are a parameter) and `PingIdentity`
  reads type, year and uid at the offsets `ping()` uses.

`MCCodec` has one variable, the input `x` (declared with its steps in
`CodecInputs`), ranging over every sequence
of at most `MaxLen` bytes from `ByteVals`; the properties are state
invariants of `x`. `BlockMax` is 0xFF in the code. The round-trip run
sets it to 4 so that runs that fill a block, and a zero right after a
full block, occur in inputs of 6 bytes; the code's logic does not depend
on the value. The runs about the checksum, the wire and the identity use
the real 255. `MaskBits` is the width of `uint32_t`; TLC's integers are
32-bit signed, so the runs use 16, wider than any mask of the three-parameter
catalogues checked.

### `Executor`

State: `runMode` (RUN_MODE in shared memory, written by the
environment), the main thread's `mainPc`, the handler's `hpc`, its local
`hmode` and pending cancel `hcancel`, the global `mode_thread`
(`modeThread`), and a record per thread id in `th`: kind (mode or setup),
pc, pending cancel, peer (child or parent), the state of the condition
variable a mode thread owns (`cond`: none, live, destroyed, gone), the
student function's behaviour, and whether a setup thread has signalled.
`proc` is running, exited or crashed.

* Main: `ExecutorInit` (`executor_init` either succeeds and the handler
  thread is created, or an import fails and `executor_stop` runs),
  `SigInt`, and the four steps of `executor_stop`: cancel and join the
  handler, then cancel and join the mode thread, then `exit`.
* Handler: `HandlerRead` (a new RUN_MODE), `HandlerPoll` (unchanged, a
  busy turn of the loop), `HandlerCancelled` (the `fprintf`
  cancellation point), `HandlerCancel`, `HandlerJoin` (blocks until the
  old mode thread has ended, then creates the new one unless IDLE).
* Mode thread: `ModeSetup` (create the setup thread), `ModeEnterWait`,
  `ModeTimeout`, `ModeSpurious` (the wait is woken), `ModeCleanup`
  (destroy the cond, cancel the child), `ModeJoinChild`, `ModeMainStart`
  and `ModeMainCall` (the main loop), `ModeCancelled`.
* Setup thread: `SetupSetMode`, `SetupReturn`, `SetupRunning` (a
  function still running), `SetupCancelled`, `SetupSignal`.
* `UndefinedCall`: a cancel or join on a thread id that was never created
  or already joined, or a signal on a destroyed condition variable, is
  undefined; the model lets it crash the process, and the normal action
  treats it as having no effect.

**Refinement.** The end of `Executor` maps it to `ModeSwitching`.
`runMode` maps to itself, and the handler's local `mode` maps to
`accepted`. The handler's phase comes from `hpc` (`HandlerPhase`):
none, polling (`read`), replacing (`cancel`, `join`) or gone. The mode
thread comes from `mode_thread` (`ModeThreadState`): none, running or
ended. `proc` maps to itself. `ImplementsModeSwitching` is
`Switching!MSpec`, a property of `executor_core`. Setup threads have no
image, because whether they stop is the separate question
`StudentCodeExclusive` asks (and the code gets it wrong).

Busy loops (the handler's poll, the main thread's `while(1)`, a student
function that does not return) are self-loop steps, so a state where
only they can run is not a deadlock and TLC reports the liveness
property it breaks.

## Runs

| run | cfg | expect | shows |
|---|---|---|---|
| relay_core | `MCRelay.cfg` | pass | TypeOK, HeartbeatResponsesMatchRequests, WorkOnlyAfterHandshake, CancelledThreadsStop, ImplementsLifecycle |
| relay_timeout_justified | `MCRelay_TimeoutJustified.cfg` | violation | timeout with no request ever sent |
| relay_teardown_waits | `MCRelay_TeardownWaitsForThreads.cfg` | violation | `free(relay)` with sender/receiver still live |
| relay_process_crash | `MCRelay_NoProcessCrash.cfg` | violation | one device takes the process down |
| poller_spawn_bound | `MCPoller.cfg` | pass | SpawnsBoundedByAttaches: `communicate()` runs at most once per device plugged in after start |
| poller_one_relay | `MCPoller_OneRelayPerDevice.cfg` | violation | a second relay for a tracked device |
| codec_roundtrip | `MCCodec.cfg` | pass | CobsRoundTrip, CobsNoZeroBytes, MessageRoundTrip, DeviceWriteLayout, DeviceWriteFitsAlloc |
| codec_wire_roundtrip | `MCCodec_WireRoundTrip.cfg` | violation | a COBS frame is parsed without decoding |
| executor_core | `MCExecutor.cfg` | pass | OneModeThread, ModeChangeTakesEffect, StopTerminates, ImplementsModeSwitching |
| executor_student_exclusive | `MCExecutor_StudentCodeExclusive.cfg` | violation | two threads run student code after a mode change during setup |
| executor_undefined_thread_op | `MCExecutor_NoUndefinedThreadOp.cfg` | violation | cancel/join on thread 0 or a joined thread, signal on a destroyed condition variable |
| executor_spinning_main | `MCExecutor_ModeChangeTakesEffect.cfg` | violation | an uncancellable main blocks every later mode change |

Bounds for the relay runs:

* `NumInterfaces = 3`. This is enough for an interface to fail before a
  good one, and for the last one to fail.
* `DeviceTimeout = 2`, `HbReqFreq = 1`, `Epoch = 2` and `MaxTime = 1`.
  With these, a timeout can fire both with and without a request having
  been sent.
* `MaxMsgs = 2`. The first HeartBeatRequest is answered, and the second
  exercises the cleared buffer.

The relay runs reach 405,420 distinct states in about 30 s. The poller
runs use three devices, which is the smallest number where a reordered
enumeration can pick a tracked device, and where a device can be swapped
for another while a third stays; the passing run reaches 3,119 states.

The codec round-trip run covers all 1,093 inputs of up to 6 bytes over
{0, 1, 2} with block limit 4; the same states give every catalogue of
one to three parameters over int, float, bool and an unknown type, with
every presence pattern of its values, to `DeviceWriteLayout`
(the mask has bit i exactly when value i is present, and the values
follow in index order) and `DeviceWriteFitsAlloc` (the payload fits the
`malloc` of `device_data_payload_size`). The executor runs use at most 2 RUN_MODE
changes (the second one can arrive during the first one's setup), thread
ids `1 .. 2*(MaxModeChanges+1)` (one mode and one setup thread per
mode), three setup behaviours (returns; loops until cancelled; a busy loop
that ignores cancellation), besides the failed `Gamepad.mode`
assignment that skips the call, and a main that runs until cancelled (or, in the
spinning-main run, one that ignores cancellation). The passing run
reaches 512,845 distinct states in about 70 s.

Each property of a passing run has a mutant in `PROJECT.json`: a
plausible bug (a forgotten reset, an off-by-one loop bound, `start`
raised before the handshake result is checked, a cancellation point that
does nothing, a tracked list that is not refreshed after a spawn) that
TLC shows breaks it.

**A race the crash hides.** The sender clears `got_hb_req` at line 409
after answering; a second HeartBeatRequest flagged between its test and
that clear would be lost. In the code as it stands this cannot happen:
the receiver faults on the second frame it parses (the NULL payload of
line 466), before a second request can be flagged. No property states
it, because any property that held would hold only through that fault.

## Fairness

Every thread is an OS thread under a preemptive scheduler, so each one
has weak fairness for its own steps while the process is alive. The
receiver's fairness covers only the steps that need no frame
(`ReceiverWait`, `ReceiveNothing`), because whether a frame arrives is
up to the device. The device (`Unplug`) and the clock (`Tick`) get no
fairness: a device may stay attached and silent for ever, and the
bounded clock may stop. In the poller only `Poll` is fair; the bus owes
nothing. No poller property is a liveness property, so no result
depends on this fairness.

In the executor each thread (main, handler, every mode and setup
thread) has weak fairness for its own steps: they are OS threads.
A timed wait always ends (`ModeTimeout` is one of the mode thread's
steps), and a student function given the behaviour "returns" returns.
SIGINT, RUN_MODE writes and the undefined outcomes get no fairness:
nobody has to press Ctrl-C, change the mode, or crash the process.

## Proofs (`RelayProofs`, checked by `tlapm`)

Every theorem here assumes `ConstantsAssumption`: all constants are naturals,
the timeouts are positive, and `Epoch` is at least each timeout.

* `TypeCorrect`: `Spec => []TypeOK`.
  * `TypeOK` is the conjunction of `DataTypeOK` and `FlagsTypeOK`. It
    includes `rpc = "config" => iface = 0` and
    `rpc = "claim" => iface \in Ifaces`, which make it inductive.
  * The step lemma is split by action. `DataTypeStep` is proved with SMT
    and `FlagsTypeStep` (the Boolean fields) with Zenon. The SMT encoding
    cannot prove `x = FALSE => x \in BOOLEAN`.
* `ResponsesMatchRequests`: `Spec => []HeartbeatResponsesMatchRequests`.
  * The property is not inductive: the sender's step from `hbresp` to
    `hbresp_send` commits to a response before sending it.
  * The inductive invariant `IInv` adds `Counting`:
    `Answered <= hbReqRecv`, where `Answered` counts the responses sent
    plus the one committed to. It also says that when `got_hb_req` is set
    and the sender has not committed, a request is still unanswered.
  * `CountingFrame` handles every action that does not touch the
    handshake's variables. The sender's heartbeat steps and
    `ReceiveMessage` are proved one by one.

* `WorkAfterHandshake`: `Spec => []WorkOnlyAfterHandshake`, from the
  inductive `Gate`: `start => idSet` plus the property itself.
* `Refinement`: `Spec => ImplementsLifecycle`, i.e. the relay trio
  implements `RelayLifecycle!LSpec` under the mapping above. `Init`
  maps to `LInit`; with `CancelInv` (both pumps' cancellation flags are
  equal, and set exactly in `free` and `done`) every step maps to one
  abstract step or a stutter: `Ping` success to `Handshake`, a setup
  failure to `Abort`, the monitor's exit to `Lost`, `CancelThreads` to
  `Cancel`, `FreeRelay` to `Free`, a pump leaving its start spin to
  `Begin` and its cancellation to `Stop`. The lemmas `SenderMoves` and
  `ReceiverMoves` state how one pump's step changes the worker map. The
  abstract spec has no fairness and the theorem is safety only: a fault
  freezes the process, so no phase is owed.

## Proofs (`ExecutorProofs`)

Its theorems assume only `ConstantsAssumption` of `Executor`:
`MaxModeChanges` is a natural, and the two behaviour sets are non-empty
sets of `[returns, cancellable]` records.

* `TypeCorrect`: `Spec => []TypeOK`. The thread records are updated one
  field at a time (`th' = [th EXCEPT ![t].pc = ...]`), which the SMT
  backend does not encode. So each field update has a lemma (`PcUpd`,
  `CondUpd`, `CancelUpd`, ...) proved with Zenon, and every action's
  case rewrites its update as a chain of them.
* `ModeThreadUnique`: `Spec => []OneModeThread`.
  * `OneModeThread` is not inductive. A step of the handler that
    creates a thread must know that the id it takes is unused and that
    the old mode thread has ended.
  * `IInv` adds the following facts:
    * `FreshIds`: ids at or above `nextTid` are unused;
    * `PeersCreated` and `JoinedCreated`: peers and joined ids were
      handed out before;
    * `CurrentMode`: `mode_thread` is 0 or the mode thread created last;
    * `JoinedExited`: a joined mode thread has ended;
    * `OldModesExited`: every mode thread other than `mode_thread` has
      ended.
  * TLC checks `IInv` on the `executor_core` instance before it is
    proved.
  * The proof splits the steps into two groups:
    * steps that keep every thread's kind and peer and never restart an
      ended thread (`StableShape`, with `StableStep`);
    * the four steps that create or join threads: `HandlerJoin`,
      `ModeSetup`, `ModeJoinChild` and `StopJoinMode`.
  * The crux is `HandlerJoin`. When `mode_thread` is not joinable, it
    is 0, or it was joined before and so has ended (`JoinedExited`).

## Proofs (`ExecutorRefinement`)

`ModeRefinement`: `Spec => ImplementsModeSwitching`, under the mapping
of `Executor`'s refinement section.

* `IInv` alone is not enough. `StopInv` adds what `executor_stop`
  guarantees:
  * before `executor_init` finishes there is no handler;
  * once `executor_stop` reaches `pthread_cancel(mode_thread)`, the
    handler is gone or was never created.
* `RInv == IInv /\ StopInv` is proved invariant (`RInvariant`).
* Each detailed step maps as follows:
  * the handler's creation is `StartHandler`;
  * `HandlerRead` is `Accept`;
  * `HandlerJoin` is `Replace`. Its guard, that the old thread is no
    longer running, is the crux of `ModeThreadUnique` again;
  * `HandlerCancelled` is `HandlerGone`;
  * a mode thread's `ModeCancelled`, or its main function's end, is
    `ModeEnds`;
  * `StopJoinMode` is `Exit`. `StopInv` gives "no handler", and
    `IInv` with the join gives "no mode thread running";
  * `SetRunMode` is `ChangeMode`;
  * a crash is `Fault`;
  * every other step leaves the image unchanged.
* Lemmas:
  * `SwitchStutter` turns "these five expressions are unchanged" into
    a stutter of the abstract spec;
  * `ModeKeepsRunning` and `SetupKeepsExited` show which thread steps
    leave `ModeThreadState` unchanged.

## Proofs (`MessageProofs`)

No constants are involved, so these hold for every message.

* `ParseSerialized`: `parse_message` applied to the bytes
  `message_to_bytes` wrote returns 0, with the same id, the same payload
  and `max` equal to its length, for every id and every payload.
  * `SerializeLayout` gives the layout of those bytes.
  * `ChecksumPrefix` says `checksum` depends only on the first `len`
    bytes. The checksum is computed over the same bytes on both sides,
    so no fact about XOR is needed.
* `ReceiveRawFrame`: `receive_message` returns the message when the
  bytes after the delimiter and the length byte are the raw
  `message_to_bytes` output. This holds whatever the uninitialised rest
  of its buffer holds (`ParseIgnoresTail`).
  * So the code expects unencoded frames. This is the finding of
    `codec_wire_roundtrip` stated positively.
  * Together with `CobsRoundTrip` (TLC only), `ParseSerialized` is
    `MessageRoundTrip`.

## Proofs (`CobsProofs`)

`EncodingHasNoZero` proves `Spec => []CobsNoZeroBytes` for every block
limit `BlockMax` in 2..255. This is the property the codec run checks:
`cobs_encode` never writes 0x00 into the bytes it reports. So 0x00 can
delimit frames. The assumptions are `BlockMaxAssumption` and
`InputsAssumption` (inputs are bytes, `MaxLen` a natural).

The property is not inductive as it stands: it speaks of the output, and
the output is made by a loop. The inductive invariant is `EncInv`, a
fact about the encoder's locals after each turn:

* `dst` holds bytes;
* the slot reserved at `block_len_loc` is inside `dst`, and it is the
  only byte of `dst` that may be zero;
* `out_len` is `Len(dst) - 1`;
* `block_len` is in `1 .. BlockMax - 1` between turns.

TLC checked it on the codec run's inputs before it was proved.
`EncShape(s, BlockMax)` is the same fact with `block_len` allowed to
reach `BlockMax`. That is the state just after `CopyByte` and before
the `finish_block()` a full block triggers.

The proof runs as follows:

* `FinishBlockInv`: `finish_block()` writes `block_len` (a non-zero
  byte) into the slot and reserves a new slot at the end.
* `DataStepShape`: `CopyByte` of a non-zero byte keeps the shape.
* `EncodeByteInv`: every turn of the loop keeps `EncInv`, whatever the
  byte.
* `EncodeLoopInv`: `EncInv` holds after every prefix of the input. This
  is an induction on the number of bytes read, in two parts:
  * `EncodeLoopDef` unfolds the recursive function. It comes from
    `FiniteNatInductiveDef`, with the step given as an explicit `LAMBDA`.
  * `SetInduction` is induction over `Nat` for a set. Its proof takes
    the least non-member (`WFMin` with `NatLessThanWellFounded`). The
    library's induction rules take an operator parameter, which the
    provers cannot instantiate; this form has none.
* `EncodeBytesNonZero`: the final `finish_block()` leaves the reserved
  slot last. The `out_len` bytes reported stop before it, so they are
  all in 1..255.

What stays with TLC only:

* the liveness property `CancelledThreadsStop` of the relay, because it
  rests on fairness and ENABLED;
* the `Poller` module and `SpawnsBoundedByAttaches`: the module uses
  `SequencesExt` (recursive operators) and so has no theorems;
* the `Codec` properties `CobsRoundTrip`, `MessageRoundTrip` (through
  COBS), `DeviceWriteLayout` and `DeviceWriteFitsAlloc`:
  * `DecodeFrom` is `RECURSIVE` and the masks use `Bitwise`, so no
    module that reaches `Codec` can hold a theorem;
  * stating the decoder as a recursive function would let it be
    reasoned about, but that changes the shape of the `cobs_decode`
    model (its inner copy loop), so it has been left as it is;
  * the part of `MessageRoundTrip` that needs no induction is proved in
    `MessageProofs`;
* the other `Executor` properties (two liveness properties, and the
  violations).
* the violations, which are counterexamples.

## Findings

Each run marked "violation" above is a finding; `PROJECT.json` says what
each shows. Five further properties are stated in the modules but are not
among the runs, so nothing re-checks them. When each was written, TLC,
given a `.cfg` with the listed constants and that property as its only
INVARIANT or PROPERTY, found it violated:

* `Relay`, under the constants of `MCRelay.cfg`: `TransfersUseOpenHandle`
  (the handle is closed before the threads are cancelled,
  `dev_handler.c:329`) and `HandshakeOnClaimedInterface` (a failed last
  claim falls through to `ping()`, `dev_handler.c:269`).
* `MCCodec`, with BlockMax 255 and `ByteVals = {0, 1, 2}`:
  `ChecksumDetectsBitFlip` (`checksum()` leaves the id byte out,
  `message.c:254`; MaxLen 3) and `IdentityRoundTrip` (the
  SubscriptionResponse layout differs between builder and `ping()`,
  `message.c:123`; MaxLen 1).
* `Executor`, under the constants of `MCExecutor.cfg`:
  `TimeoutMeansSetupRunning` (a lost wakeup: the setup thread signals
  before its parent waits, `executor.c:238`, `268`).

## Not modelled

* In the codec: `make_log` (formatting), `decode_params` (the inverse
  table lookup; nothing calls it) and `destroy_message` (memory). The
  device parameter tables are abstracted to a catalogue of names and
  types. `make_device_data` dereferences a NULL result of
  `make_device_write`, which needs more than 32 parameters, beyond TLC.
* In the executor: the old unused code (`executor.c` 407-484), Python
  reference counts and logging.
* **Shared memory wrappers**: `shm_wrapper.h` is a header only, and every
  call to it from the device core is commented out. The executor's calls
  to the auxiliary wrapper (`shm_aux_init`, `shm_aux_stop`) are left out,
  and `robot_desc_read(RUN_MODE)` reads a mode the environment sets.
* **Test client and integration tests**: they are drivers, not system
  behaviour.
* Also left out:
  * memory: the frame buffer in `receive_message` leaks on every call,
    and buffer over-reads in `cobs_decode` and `parse_message`;
  * a negative return of `libusb_get_device_list`;
  * message contents inside the relay (DeviceWrite and DeviceData
    payloads); the codec module covers the bytes.
