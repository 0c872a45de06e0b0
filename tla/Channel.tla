------------------------------- MODULE Channel -------------------------------
(***************************************************************************)
(* The channel of src/mpsc/mod.rs with both of its ends: the facade of     *)
(* ChannelFacade (constructors, send dispatch, Clone, the Drop impls and   *)
(* their Arc::strong_count tests) composed with the queue it dispatches to *)
(* and with the Receiver's operations: try_recv, recv, recv_timeout,       *)
(* recv_deadline and the iterators, each with the conversion mod.rs makes  *)
(* of the queue's Result<Option<T>, ()>.                                   *)
(*                                                                         *)
(* The queues (mpsc::unbounded and mpsc::bounded) are not part of the      *)
(* repository's sources and follow spec sections 4.4 and 4.5: a FIFO       *)
(* buffer, a send that fails once disconnected, a bounded send that blocks *)
(* while the buffer is full, a receive that returns buffered messages      *)
(* before reporting the disconnect, and a timed receive that looks at the  *)
(* queue once more before it reports a timeout.  A message is the handle   *)
(* that sent it; sent and rcvd count each handle's messages.  The          *)
(* rendezvous queue (sync_channel(0)) is left out: its handoff is not a    *)
(* buffer, and its send is unreachable!() in the facade anyway.            *)
(***************************************************************************)
EXTENDS ChannelFacade, Sequences

CONSTANT MaxSends   \* successful sends per handle

ASSUME ChannelAssumption == MaxSends \in Nat \ {0} /\ Bound # 0

VARIABLES
    buf,    \* the queue's buffer, oldest first: the handle each message came from
    sent,   \* each handle's successful sends
    rcvd,   \* each handle's messages the receiver has taken
    txpc,   \* each sender: "idle", or "blocked" in a bounded send
    rxpc,   \* the receiver: "idle", or the blocking call it is parked in
    ret     \* the last receive call and the value it returned to the user

chvars == <<buf, sent, rcvd, txpc, rxpc, ret>>

allvars == <<vars, chvars>>

\* The receive calls whose result the facade converts.
RxCalls == {"try_recv", "recv", "recv_timeout", "deadline_passed", "iter", "try_iter"}

\* What the receive calls return, after the facade's conversion ("none"
\* before the first call).
RxResults == {"none", "Ok", "Empty", "Disconnected", "RecvError", "unreachable",
              "Timeout", "Some", "None"}

\* The calls that park the receiver when the queue is empty.
BlockingCalls == {"recv", "recv_timeout", "iter"}

-----------------------------------------------------------------------------
(* The queue (spec 4.4, 4.5).                                              *)

\* A bounded send finds a free slot; an unbounded one always does.
HasRoom == IF Bound \in Nat THEN Len(buf) < Bound ELSE TRUE

\* The queue's non-blocking receive: a buffered message first, then the
\* disconnect (Err(())), else nothing (Ok(None)).
Poll == IF buf # <<>> THEN "some" ELSE IF disconnected THEN "err" ELSE "none"

\* The queue's send after the facade's dispatch: enqueue unless disconnected.
Enqueue(h) ==
    IF disconnected THEN UNCHANGED <<buf, sent>>
    ELSE /\ buf' = Append(buf, h)
         /\ sent' = [sent EXCEPT ![h] = @ + 1]

\* The message counted as received but left in the buffer.
TakeNoPop(r) ==
    IF r = "some"
    THEN /\ rcvd' = [rcvd EXCEPT ![Head(buf)] = @ + 1]
         /\ UNCHANGED buf
    ELSE UNCHANGED <<buf, rcvd>>

\* The receive takes the oldest message when Poll found one.
Take(r) ==
    IF r = "some"
    THEN /\ buf' = Tail(buf)
         /\ rcvd' = [rcvd EXCEPT ![Head(buf)] = @ + 1]
    ELSE UNCHANGED <<buf, rcvd>>

-----------------------------------------------------------------------------
(* The facade's conversions of the queue's result.                         *)

\* try_recv: Err(()) is Disconnected, Ok(None) Empty, Ok(Some(t)) Ok(t).
TryRecvResult == [err |-> "Disconnected", none |-> "Empty", some |-> "Ok"]

\* recv: Err(()) is RecvError; Ok(None) is unreachable!().
RecvResult == [err |-> "RecvError", none |-> "unreachable", some |-> "Ok"]

\* recv_timeout: Err(()) is Disconnected, Ok(None) Timeout.
RecvTimeoutResult == [err |-> "Disconnected", none |-> "Timeout", some |-> "Ok"]

\* The two error arms of recv_deadline's match swapped.
DeadlinePassedResultSwapped ==
    [err |-> "Timeout", none |-> "Disconnected", some |-> "Ok"]

\* recv_deadline with a deadline already passed: try_recv, Empty as Timeout.
DeadlinePassedResult ==
    [r \in {"err", "none", "some"} |->
        IF TryRecvResult[r] = "Empty" THEN "Timeout" ELSE TryRecvResult[r]]

\* Result::ok, as Iter, IntoIter and TryIter's next return it.
OkOption(x) == IF x = "Ok" THEN "Some" ELSE "None"

\* What a receive call returns for the queue's result r.
Returned(c, r) ==
    CASE c = "try_recv"        -> TryRecvResult[r]
      [] c = "recv"            -> RecvResult[r]
      [] c = "recv_timeout"    -> RecvTimeoutResult[r]
      [] c = "deadline_passed" -> DeadlinePassedResult[r]
      [] c = "iter"            -> OkOption(RecvResult[r])
      [] c = "try_iter"        -> OkOption(TryRecvResult[r])

\* A receive call of kind c completes on the queue's current result.
Finish(c) ==
    /\ Take(Poll)
    /\ ret' = [call |-> c, val |-> Returned(c, Poll)]
    /\ rxpc' = "idle"

-----------------------------------------------------------------------------
(* The senders.                                                            *)

(* Sender::send, SyncSender::send and a try_send that finds room: the      *)
(* facade's dispatch and outcome (Send) together with the queue's enqueue. *)
(* A bounded send on a full buffer parks until a slot frees or the channel *)
(* is disconnected.                                                        *)
SendCall(h) ==
    /\ handle[h] = "live"
    /\ txpc[h] = "idle"
    /\ ~panicked
    /\ sent[h] < MaxSends
    /\ \/ /\ disconnected \/ HasRoom
          /\ Send(h)
          /\ Enqueue(h)
          /\ UNCHANGED <<rcvd, txpc, rxpc, ret>>
       \/ /\ ~disconnected /\ ~HasRoom
          /\ txpc' = [txpc EXCEPT ![h] = "blocked"]
          /\ UNCHANGED <<vars, buf, sent, rcvd, rxpc, ret>>

\* A blocked send woken only by a free slot, never by the disconnect.
SendWakeRoomOnly(h) ==
    /\ txpc[h] = "blocked"
    /\ HasRoom
    /\ Send(h)
    /\ Enqueue(h)
    /\ txpc' = [txpc EXCEPT ![h] = "idle"]
    /\ UNCHANGED <<rcvd, rxpc, ret>>

\* A blocked bounded send is unparked by a receive or by the disconnect.
SendWake(h) ==
    /\ txpc[h] = "blocked"
    /\ disconnected \/ HasRoom
    /\ Send(h)
    /\ Enqueue(h)
    /\ txpc' = [txpc EXCEPT ![h] = "idle"]
    /\ UNCHANGED <<rcvd, rxpc, ret>>

\* Clone and Drop run on the owner's thread, never during its own send.
ChClone(h, new) == Clone(h, new) /\ txpc[h] = "idle" /\ UNCHANGED chvars

ChSenderDrop(h) == SenderDrop(h) /\ txpc[h] = "idle" /\ UNCHANGED chvars

ChSenderRelease(h) == SenderRelease(h) /\ UNCHANGED chvars

-----------------------------------------------------------------------------
(* The receiver.                                                           *)

(* A receive call c: try_recv, recv, recv_timeout, recv_deadline (a future *)
(* deadline is recv_timeout, a past one deadline_passed) or the next() of  *)
(* an iterator.  A blocking call parks when the queue has nothing for it.  *)
Receive(c) ==
    /\ rx = "live"
    /\ rxpc = "idle"
    /\ IF c \in BlockingCalls /\ Poll = "none"
       THEN /\ rxpc' = c
            /\ UNCHANGED <<buf, rcvd, ret>>
       ELSE Finish(c)
    /\ UNCHANGED <<vars, sent, txpc>>

\* The parked receiver is unparked by a send or by the disconnect.
RecvWake ==
    /\ rxpc \in BlockingCalls
    /\ Poll # "none"
    /\ Finish(rxpc)
    /\ UNCHANGED <<vars, sent, txpc>>

\* The deadline of recv_timeout passes: the queue is looked at once more.
RecvTimedOut ==
    /\ rxpc = "recv_timeout"
    /\ Finish("recv_timeout")
    /\ UNCHANGED <<vars, sent, txpc>>

\* Receiver::drop runs when the receiver is not inside a call.
ChReceiverDrop == ReceiverDrop /\ rxpc = "idle" /\ UNCHANGED chvars

ChReceiverRelease == ReceiverRelease /\ UNCHANGED chvars

-----------------------------------------------------------------------------
ChInit ==
    /\ Init
    /\ buf = <<>>
    /\ sent = [h \in Handles |-> 0]
    /\ rcvd = [h \in Handles |-> 0]
    /\ txpc = [h \in Handles |-> "idle"]
    /\ rxpc = "idle"
    /\ ret = [call |-> "none", val |-> "none"]

ChNext ==
    \/ \E h \in Handles :
          \/ SendCall(h) \/ SendWake(h)
          \/ ChSenderDrop(h) \/ ChSenderRelease(h)
          \/ \E new \in Handles : ChClone(h, new)
    \/ \E c \in RxCalls : Receive(c)
    \/ RecvWake \/ RecvTimedOut
    \/ ChReceiverDrop \/ ChReceiverRelease

ChSpec == ChInit /\ [][ChNext]_allvars

(* The queue unparks a parked receiver or sender once its wait can end,    *)
(* and a dropped handle's Arc field is always released after Drop::drop:   *)
(* these are steps the code takes on its own.  Calls, drops and deadlines  *)
(* are the user's and carry no fairness.                                   *)
ChFairness ==
    /\ WF_allvars(RecvWake)
    /\ WF_allvars(ChReceiverRelease)
    /\ \A h \in Handles : WF_allvars(SendWake(h)) /\ WF_allvars(ChSenderRelease(h))

ChFairSpec == ChSpec /\ ChFairness

-----------------------------------------------------------------------------
\* A receive result that reports the hang-up: an error, or a blocking
\* iterator's None.
HungUp(r) ==
    \/ r.val \in {"Disconnected", "RecvError"}
    \/ r.call = "iter" /\ r.val = "None"

(* Every variable has its type.                                            *)
ChTypeOK ==
    /\ TypeOK
    /\ buf \in Seq(Handles)
    /\ sent \in [Handles -> 0..MaxSends]
    /\ rcvd \in [Handles -> 0..MaxSends]
    /\ txpc \in [Handles -> {"idle", "blocked"}]
    /\ rxpc \in {"idle"} \cup BlockingCalls
    /\ ret \in [call : {"none"} \cup RxCalls, val : RxResults]

(* Spec I7 and the recv docs (mod.rs 826-830): a receive reports the hang- *)
(* up (try_recv and recv_timeout Disconnected, recv RecvError, a blocking  *)
(* iterator ending) only after every sender is dropped and every message   *)
(* a send accepted has been received: no message is lost behind it.       *)
HangUpAfterDrain ==
    HungUp(ret) => \A h \in Handles : rcvd[h] = sent[h] /\ handle[h] # "live"

(* The recv docs (mod.rs 826-830): a recv blocked when the last sender is  *)
(* dropped returns (RecvError, or the iterator ends) instead of blocking   *)
(* forever.  Sender::drop decides from Arc::strong_count whether it is the *)
(* last sender.                                                            *)
RecvReturnsOnHangUp ==
    (rxpc # "idle" /\ \A h \in Handles : handle[h] \in {"unused", "gone"})
        ~> rxpc = "idle"

(* Spec 9 (dropping a receiver while senders are parked) and 4.5: a       *)
(* SyncSender blocked on a full buffer returns, with SendError, once the   *)
(* receiver is dropped; Receiver::drop disconnects because the blocked     *)
(* sender's own Arc keeps strong_count above 1.                            *)
BlockedSendReturns ==
    \A h \in Handles : (txpc[h] = "blocked" /\ rx # "live") ~> txpc[h] = "idle"

=============================================================================
