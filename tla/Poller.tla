------------------------------ MODULE Poller -------------------------------
(***************************************************************************)
(* The discovery loop of dev_handler.c: poll_connected_devices() with      *)
(* alloc_tracked_devices() and get_new_device(), and the USB bus it polls. *)
(* A device is its usb_id_t triple; a device that is unplugged and plugged *)
(* in again gets a new address, so each element of Devs is plugged in at  *)
(* most once.  communicate() is recorded as a count of relays per device;  *)
(* the relay itself is module Relay.                                       *)
(***************************************************************************)
EXTENDS Integers, Sequences, SequencesExt, FiniteSets

CONSTANTS Devs          \* usb_id_t triples (model values)

ASSUME DevsAssumption == IsFiniteSet(Devs)

VARIABLES
    bus,        \* devices attached now
    used,       \* devices that have been attached (each is attached once)
    tracked,    \* the usb_id_t array of the previous enumeration, in order
    relays,     \* number of communicate() calls made for each device
    crashed,    \* the dev_handler process died (SIGSEGV)
    \* history variable, not in the code; used only by a property
    booted      \* the devices attached when poll_connected_devices started

vars == <<bus, used, tracked, relays, crashed, booted>>

TypeOK ==
    /\ bus \subseteq used /\ used \subseteq Devs
    /\ tracked \in Seq(Devs)
    /\ relays \in [Devs -> Nat]
    /\ crashed \in BOOLEAN
    /\ booted \subseteq used

(* The initial libusb_get_device_list(): whatever is attached is tracked  *)
(* and gets no relay.                                                     *)
Init ==
    /\ bus \in SUBSET Devs
    /\ used = bus
    /\ tracked \in SetToSeqs(bus)
    /\ relays = [d \in Devs |-> 0]
    /\ crashed = FALSE
    /\ booted = bus

-----------------------------------------------------------------------------
(* get_new_device(): the inner loop compares connected[i] with tracked[i] *)
(* (not tracked[j]), so position i "is tracked" iff the two lists agree   *)
(* there.  The first position where they do not is returned.              *)
InTracked(order, i) == i <= Len(tracked) /\ order[i] = tracked[i]

FirstUntracked(order) ==
    CHOOSE i \in 1 .. Len(order) :
        /\ ~InTracked(order, i)
        /\ \A j \in 1 .. i - 1 : InTracked(order, j)

(* Reaching position i > num_tracked with num_tracked > 0 reads tracked[i] *)
(* past the end of the malloc'd array and dereferences what it finds.      *)
ReadsPastTracked(order) ==
    Len(tracked) > 0 /\ FirstUntracked(order) > Len(tracked)

(* Mutant: the tracked list is not refreshed.                            *)
RetrackForgotten(order) == UNCHANGED tracked

(* free_tracked_devices(); tracked = alloc_tracked_devices(connected, ..) *)
Retrack(order) == tracked' = order

(* One iteration of the polling loop: enumerate the bus (libusb lists the *)
(* devices in an order of its own), compare only the counts, spawn a relay *)
(* for get_new_device() on an increase, and retrack on any change.        *)
Poll ==
    /\ \E order \in SetToSeqs(bus) :
         \/ /\ Len(order) = Len(tracked)
            /\ UNCHANGED <<tracked, relays, crashed>>
         \/ /\ Len(order) > Len(tracked)
            /\ \/ /\ ReadsPastTracked(order)
                  /\ crashed' = TRUE
                  /\ UNCHANGED <<tracked, relays>>
               \/ /\ relays' = [relays EXCEPT ![order[FirstUntracked(order)]]
                                   = @ + 1]
                  /\ Retrack(order)
                  /\ UNCHANGED crashed
         \/ /\ Len(order) < Len(tracked)
            /\ Retrack(order)
            /\ UNCHANGED <<relays, crashed>>
    /\ UNCHANGED <<bus, used, booted>>

(* A new device is plugged in.                                            *)
Plug(d) ==
    /\ d \notin used
    /\ bus' = bus \cup {d} /\ used' = used \cup {d}
    /\ UNCHANGED <<tracked, relays, crashed, booted>>

(* A device is unplugged.                                                 *)
Unplug(d) ==
    /\ d \in bus
    /\ bus' = bus \ {d}
    /\ UNCHANGED <<used, tracked, relays, crashed, booted>>

Finished == crashed /\ UNCHANGED vars

Next ==
    \/ ~crashed /\ (Poll \/ \E d \in Devs : Plug(d) \/ Unplug(d))
    \/ Finished

(* The polling loop runs forever in its own thread; the bus owes nothing. *)
Spec == Init /\ [][Next]_vars /\ WF_vars(~crashed /\ Poll)

-----------------------------------------------------------------------------
(* Spec 3: exactly one relay per physical device per connection: the      *)
(* poller never calls communicate() twice for the same device.            *)
OneRelayPerDevice == \A d \in Devs : relays[d] <= 1

(* Spec 2/4.2: a Relay Supervisor is spawned for a newly seen device, so  *)
(* communicate() runs at most once per device plugged in after the poller *)
(* started.  It rests on the refresh of tracked after every spawn (121-  *)
(* 123) across later polls, on unplugs the count comparison cannot see,   *)
(* and on libusb's enumeration order; a stale tracked list re-spawns on   *)
(* every later poll.                                                       *)
SpawnsBoundedByAttaches == SumFunction(relays) <= Cardinality(used \ booted)
=============================================================================
