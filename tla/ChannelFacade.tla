---------------------------- MODULE ChannelFacade ----------------------------
(***************************************************************************)
(* The channel facade of src/mpsc/mod.rs: the constructors, the dispatch   *)
(* of Sender/SyncSender/Receiver operations on the Channel enum, Clone and *)
(* the Drop impls that decide from Arc::strong_count when to disconnect.   *)
(*                                                                         *)
(* The queues behind the enum (bounded, rendezvous, unbounded) are not     *)
(* part of this repository's sources: their disconnect() is the flag       *)
(* `disconnected` and a send on them fails exactly when it is set.         *)
(* Arc::strong_count is a load of the count; the Arc field is dropped (the *)
(* count decremented) after Drop::drop has returned, so a drop is two      *)
(* steps.                                                                  *)
(***************************************************************************)
EXTENDS Naturals, FiniteSets

CONSTANTS
    Handles,    \* sender handles: the first is made by the constructor
    Bound,      \* the bound given to sync_channel, or NoBound for channel()
    NoBound

ASSUME HandlesAssumption == IsFiniteSet(Handles) /\ Handles # {}
ASSUME BoundAssumption == Bound \in Nat \cup {NoBound} /\ NoBound \notin Nat

VARIABLES
    handle,         \* each sender handle: "unused", "live", "dropping", "gone"
    rx,             \* the Receiver: "live", "dropping", "gone"
    arc,            \* Arc::strong_count of the shared Channel
    disconnected,   \* the queue's disconnect() has been called
    panicked,       \* a dispatch reached unreachable!()
    outcome         \* each sender's last send result: "none", "ok", "err"

vars == <<handle, rx, arc, disconnected, panicked, outcome>>

\* channel() builds Unbounded; sync_channel(0) Rendezvous, sync_channel(n) Bounded.
Flavor ==
    IF Bound \notin Nat THEN "Unbounded"
    ELSE IF Bound = 0 THEN "Rendezvous" ELSE "Bounded"

\* channel() hands out a Sender, sync_channel a SyncSender.
SenderKind == IF Bound \notin Nat THEN "Sender" ELSE "SyncSender"

\* The queue send that Sender::send / SyncSender::send reach, or unreachable!().
SendDispatch(kind, flavor) ==
    IF kind = "Sender"
    THEN IF flavor \in {"Rendezvous", "Unbounded"} THEN flavor ELSE "unreachable"
    ELSE IF flavor = "Bounded" THEN flavor ELSE "unreachable"

FirstHandle == CHOOSE h \in Handles : TRUE

Init ==
    /\ handle = [h \in Handles |-> IF h = FirstHandle THEN "live" ELSE "unused"]
    /\ rx = "live"
    /\ arc = 2
    /\ disconnected = FALSE
    /\ panicked = FALSE
    /\ outcome = [h \in Handles |-> "none"]

\* Sender::send / SyncSender::send: dispatch, then the queue's send.
Send(h) ==
    /\ handle[h] = "live"
    /\ ~panicked
    /\ IF SendDispatch(SenderKind, Flavor) = "unreachable"
       THEN /\ panicked' = TRUE
            /\ UNCHANGED outcome
       ELSE /\ outcome' = [outcome EXCEPT ![h] = IF disconnected THEN "err" ELSE "ok"]
            /\ UNCHANGED panicked
    /\ UNCHANGED <<handle, rx, arc, disconnected>>

\* Clone for Sender / SyncSender: Arc::clone increments the count.
Clone(h, new) ==
    /\ handle[h] = "live"
    /\ handle[new] = "unused"
    /\ handle' = [handle EXCEPT ![new] = "live"]
    /\ arc' = arc + 1
    /\ UNCHANGED <<rx, disconnected, panicked, outcome>>

LastSenderTestAtLeast(n) == n >= 2

\* The test of Sender::drop: only this sender and the receiver are left.
LastSenderTest(n) == n = 2

\* Sender::drop: disconnect if strong_count says this is the last sender.
SenderDrop(h) ==
    /\ handle[h] = "live"
    /\ handle' = [handle EXCEPT ![h] = "dropping"]
    /\ disconnected' = (disconnected \/ LastSenderTest(arc))
    /\ UNCHANGED <<rx, arc, panicked, outcome>>

\* The Arc field of a dropped Sender is released.
SenderRelease(h) ==
    /\ handle[h] = "dropping"
    /\ handle' = [handle EXCEPT ![h] = "gone"]
    /\ arc' = arc - 1
    /\ UNCHANGED <<rx, disconnected, panicked, outcome>>

\* Receiver::drop: disconnect unless the receiver is the last owner.
ReceiverDrop ==
    /\ rx = "live"
    /\ rx' = "dropping"
    /\ disconnected' = (disconnected \/ arc # 1)
    /\ UNCHANGED <<handle, arc, panicked, outcome>>

ReceiverRelease ==
    /\ rx = "dropping"
    /\ rx' = "gone"
    /\ arc' = arc - 1
    /\ UNCHANGED <<handle, disconnected, panicked, outcome>>

Next ==
    \/ \E h \in Handles : Send(h) \/ SenderDrop(h) \/ SenderRelease(h)
    \/ \E h, new \in Handles : Clone(h, new)
    \/ ReceiverDrop \/ ReceiverRelease

Spec == Init /\ [][Next]_vars

-----------------------------------------------------------------------------
(* Every variable has its type.                                            *)
TypeOK ==
    /\ handle \in [Handles -> {"unused", "live", "dropping", "gone"}]
    /\ rx \in {"live", "dropping", "gone"}
    /\ arc \in Nat
    /\ disconnected \in BOOLEAN
    /\ panicked \in BOOLEAN
    /\ outcome \in [Handles -> {"none", "ok", "err"}]

(* Sender::send docs (mod.rs 571-577): a send fails only when the receiver *)
(* has already been deallocated; no sender's drop disconnects a channel    *)
(* whose receiver and other senders are still there.                       *)
SendErrOnlyWithoutReceiver ==
    \A h \in Handles : outcome[h] = "err" => rx # "live"

(* recv docs (mod.rs 826-830) and spec I7: once every sender has been      *)
(* dropped while the receiver lives, the channel is disconnected, so recv  *)
(* returns RecvError instead of blocking forever.                          *)
LastSenderDisconnects ==
    (rx = "live" /\ \A h \in Handles : handle[h] \in {"unused", "gone"})
        => disconnected

(* sync_channel docs (mod.rs 101-106, 668-681): send on every channel a    *)
(* constructor returns reaches a queue, never unreachable!().              *)
NoUnreachableDispatch == ~panicked

=============================================================================
