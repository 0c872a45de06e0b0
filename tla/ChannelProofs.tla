---------------------------- MODULE ChannelProofs ----------------------------
(***************************************************************************)
(* Proofs about the channel with its receive side, for every number of     *)
(* sender handles, every bound and every MaxSends: a receive reports the   *)
(* hang-up only after every sender is dropped and every accepted message   *)
(* has been received.                                                      *)
(*                                                                         *)
(* The argument counts messages: each handle's accepted sends are the ones *)
(* the receiver took plus the ones still in the buffer.  A hang-up result  *)
(* is produced only by a poll that found the buffer empty and the channel  *)
(* disconnected, and the facade's invariant says that a disconnect seen by *)
(* a live receiver leaves no live sender; with no live sender nothing can  *)
(* be sent or cloned, so the buffer stays empty afterwards.                *)
(***************************************************************************)
EXTENDS Channel, ChannelFacadeProofs, SequenceTheorems

\* The positions of the buffer that hold a message of handle h.
Positions(s, h) == {i \in 1..Len(s) : s[i] = h}

\* How many messages of handle h the sequence s holds.
Occ(s, h) == Cardinality(Positions(s, h))

LEMMA PositionsFinite ==
    ASSUME NEW S, NEW s \in Seq(S), NEW h
    PROVE  IsFiniteSet(Positions(s, h)) /\ Occ(s, h) \in Nat
<1>1. IsFiniteSet(1..Len(s))
    BY FS_Interval
<1>2. IsFiniteSet(Positions(s, h))
    BY <1>1, FS_Subset DEF Positions
<1>3. QED
    BY <1>2, FS_CardinalityType DEF Occ

(* The empty buffer holds no message of any handle.                       *)
LEMMA OccEmpty == \A h : Occ(<<>>, h) = 0
BY FS_EmptySet DEF Occ, Positions

(* Appending a message of x adds one occurrence of x and no other.         *)
LEMMA OccAppend ==
    ASSUME NEW S, NEW s \in Seq(S), NEW x \in S, NEW h
    PROVE  Occ(Append(s, x), h) = Occ(s, h) + (IF x = h THEN 1 ELSE 0)
<1>1. IsFiniteSet(Positions(s, h))
    BY PositionsFinite
<1>2. Len(s) + 1 \notin Positions(s, h)
    BY DEF Positions
<1>3. CASE x = h
    <2>1. Positions(Append(s, x), h) = Positions(s, h) \cup {Len(s) + 1}
        BY <1>3 DEF Positions
    <2>2. QED
        BY <1>1, <1>2, <1>3, <2>1, FS_AddElement DEF Occ
<1>4. CASE x # h
    <2>1. Positions(Append(s, x), h) = Positions(s, h)
        BY <1>4 DEF Positions
    <2>2. Occ(s, h) \in Nat
        BY PositionsFinite
    <2>3. QED
        BY <1>4, <2>1, <2>2 DEF Occ
<1>5. QED
    BY <1>3, <1>4

(* Taking the head removes one occurrence of the head's handle.            *)
LEMMA OccTail ==
    ASSUME NEW S, NEW s \in Seq(S), s # <<>>, NEW h
    PROVE  Occ(s, h) = Occ(Tail(s), h) + (IF Head(s) = h THEN 1 ELSE 0)
<1> DEFINE P == Positions(s, h)
           T == Positions(Tail(s), h)
           f == [i \in T |-> i + 1]
<1>1. IsFiniteSet(P) /\ IsFiniteSet(T)
    BY PositionsFinite, HeadTailProperties
<1>2. P \ {1} = {i + 1 : i \in T}
    BY HeadTailProperties DEF Positions
<1>3. f \in Bijection(T, P \ {1})
    BY <1>2 DEF Bijection, Injection, Surjection, IsInjective
<1>4. Cardinality(P \ {1}) = Cardinality(T)
    BY <1>1, <1>3, FS_Bijection DEF ExistsBijection
<1>5. Cardinality(P \ {1}) = IF 1 \in P THEN Cardinality(P) - 1 ELSE Cardinality(P)
    BY <1>1, FS_RemoveElement
<1>6. 1 \in P <=> Head(s) = h
    BY EmptySeq, LenProperties DEF Positions
<1>7. Cardinality(P) \in Nat /\ Cardinality(T) \in Nat
    BY <1>1, FS_CardinalityType
<1>8. QED
    BY <1>4, <1>5, <1>6, <1>7 DEF Occ

-----------------------------------------------------------------------------
(* Only a poll that found the channel disconnected and drained, or a       *)
(* blocking iterator's Ok(None), converts to a hang-up result.             *)
LEMMA HangUpResult ==
    ASSUME NEW c \in RxCalls, NEW r \in {"err", "none", "some"},
           HungUp([call |-> c, val |-> Returned(c, r)])
    PROVE  r = "err" \/ (c = "iter" /\ r = "none")
BY DEF HungUp, Returned, TryRecvResult, RecvResult, RecvTimeoutResult,
       DeadlinePassedResult, OkOption, RxCalls

(* What the queue's poll answers.                                          *)
LEMMA PollFacts ==
    /\ Poll \in {"err", "none", "some"}
    /\ Poll = "err" => buf = <<>> /\ disconnected
    /\ Poll = "some" <=> buf # <<>>
BY DEF Poll

(* Every step of the channel is a step of the facade or leaves it alone.  *)
LEMMA FacadeStep == [ChNext]_allvars => [Next]_vars
<1> SUFFICES ASSUME [ChNext]_allvars PROVE [Next]_vars
    OBVIOUS
<1>1. ASSUME NEW h \in Handles, SendCall(h) PROVE [Next]_vars
    BY <1>1 DEF SendCall, Next
<1>2. ASSUME NEW h \in Handles, SendWake(h) PROVE [Next]_vars
    BY <1>2 DEF SendWake, Next
<1>3. ASSUME NEW h \in Handles, NEW new \in Handles, ChClone(h, new)
      PROVE [Next]_vars
    BY <1>3 DEF ChClone, Next
<1>4. ASSUME NEW h \in Handles, ChSenderDrop(h) \/ ChSenderRelease(h)
      PROVE [Next]_vars
    BY <1>4 DEF ChSenderDrop, ChSenderRelease, Next
<1>5. ASSUME NEW c \in RxCalls, Receive(c) PROVE [Next]_vars
    BY <1>5 DEF Receive
<1>6. CASE RecvWake \/ RecvTimedOut
    BY <1>6 DEF RecvWake, RecvTimedOut
<1>7. CASE ChReceiverDrop \/ ChReceiverRelease
    BY <1>7 DEF ChReceiverDrop, ChReceiverRelease, Next
<1>8. CASE UNCHANGED allvars
    BY <1>8 DEF allvars
<1>9. QED
    BY <1>1, <1>2, <1>3, <1>4, <1>5, <1>6, <1>7, <1>8 DEF ChNext

-----------------------------------------------------------------------------
(* The inductive invariant: the facade's, the types the proof needs, the   *)
(* message count, that only live handles block and only a live receiver    *)
(* is inside a call, and that after a hang-up result the buffer is empty   *)
(* and no sender is live.                                                  *)
ChIInv ==
    /\ IInv
    /\ buf \in Seq(Handles)
    /\ sent \in [Handles -> Nat]
    /\ rcvd \in [Handles -> Nat]
    /\ txpc \in [Handles -> {"idle", "blocked"}]
    /\ rxpc \in {"idle"} \cup BlockingCalls
    /\ \A h \in Handles : sent[h] = rcvd[h] + Occ(buf, h)
    /\ \A h \in Handles : txpc[h] = "blocked" => handle[h] = "live"
    /\ rxpc # "idle" => rx = "live"
    /\ HungUp(ret) => buf = <<>> /\ \A h \in Handles : handle[h] # "live"

(* The initial state satisfies the inductive invariant.                    *)
THEOREM ChInitIInv == ChInit => ChIInv
<1> SUFFICES ASSUME ChInit PROVE ChIInv
    OBVIOUS
<1>1. IInv
    BY InitIInv DEF ChInit
<1>2. \A h \in Handles : sent[h] = rcvd[h] + Occ(buf, h)
    BY OccEmpty DEF ChInit
<1>3. ~HungUp(ret)
    BY DEF ChInit, HungUp
<1>4. QED
    BY <1>1, <1>2, <1>3 DEF ChInit, ChIInv, BlockingCalls

(* A receive call that completes on a live receiver keeps the invariant: a *)
(* taken message moves from the buffer to rcvd, and a hang-up result comes *)
(* from a poll that found the buffer empty after the last sender's drop.   *)
LEMMA FinishStep ==
    ASSUME ChIInv, NEW c \in RxCalls, Finish(c), rx = "live",
           c = "iter" => Poll # "none",
           UNCHANGED <<vars, sent, txpc>>
    PROVE  ChIInv'
<1> USE DEF ChIInv
<1>1. IInv'
    BY DEF vars, IInv, TypeOK, Owners, RxRef, SendErrOnlyWithoutReceiver
<1>2. ret' = [call |-> c, val |-> Returned(c, Poll)] /\ rxpc' = "idle"
    BY DEF Finish
<1>3. CASE Poll = "some"
    <2>1. buf # <<>> /\ Head(buf) \in Handles
        BY <1>3, PollFacts, HeadTailProperties
    <2>2. buf' = Tail(buf) /\ rcvd' = [rcvd EXCEPT ![Head(buf)] = @ + 1]
        BY <1>3 DEF Finish, Take
    <2>3. buf' \in Seq(Handles) /\ rcvd' \in [Handles -> Nat]
        BY <2>1, <2>2, HeadTailProperties
    <2>4. ASSUME NEW h \in Handles PROVE sent'[h] = rcvd'[h] + Occ(buf', h)
        <3>1. Occ(buf, h) = Occ(buf', h) + (IF Head(buf) = h THEN 1 ELSE 0)
            BY <2>1, <2>2, OccTail
        <3>2. Occ(buf', h) \in Nat
            BY <2>3, PositionsFinite
        <3>3. sent' = sent /\ sent[h] = rcvd[h] + Occ(buf, h) /\ rcvd[h] \in Nat
            OBVIOUS
        <3>4. rcvd'[h] = rcvd[h] + (IF Head(buf) = h THEN 1 ELSE 0)
            BY <2>1, <2>2
        <3>5. QED
            BY <3>1, <3>2, <3>3, <3>4
    <2>5. ~HungUp(ret')
        BY <1>2, <1>3, HangUpResult
    <2>6. QED
        BY <1>1, <1>2, <2>3, <2>4, <2>5 DEF vars
<1>4. CASE Poll # "some"
    <2>1. UNCHANGED <<buf, rcvd>>
        BY <1>4 DEF Finish, Take
    <2>2. HungUp(ret') => Poll = "err"
        BY <1>2, <1>4, PollFacts, HangUpResult
    <2>3. Poll = "err" => buf = <<>> /\ \A h \in Handles : handle[h] # "live"
        BY PollFacts DEF IInv
    <2>4. QED
        BY <1>1, <1>2, <2>1, <2>2, <2>3 DEF vars
<1>5. QED
    BY <1>3, <1>4


(* A send that completes on a live handle keeps the message count and the *)
(* buffer's type; no hang-up has been reported while a sender is live.     *)
LEMMA EnqueueStep ==
    ASSUME ChIInv, NEW h \in Handles, handle[h] = "live", Send(h), Enqueue(h),
           UNCHANGED <<rcvd, rxpc, ret>>
    PROVE  /\ buf' \in Seq(Handles)
           /\ sent' \in [Handles -> Nat]
           /\ \A g \in Handles : sent'[g] = rcvd'[g] + Occ(buf', g)
           /\ ~HungUp(ret')
           /\ UNCHANGED <<handle, rx>>
<1> USE DEF ChIInv
<1>1. ~HungUp(ret')
    OBVIOUS
<1>2. UNCHANGED <<handle, rx>>
    BY DEF Send
<1>3. CASE disconnected
    BY <1>1, <1>2, <1>3 DEF Enqueue
<1>4. CASE ~disconnected
    <2>1. buf' = Append(buf, h) /\ sent' = [sent EXCEPT ![h] = @ + 1]
        BY <1>4 DEF Enqueue
    <2>2. buf' \in Seq(Handles) /\ sent' \in [Handles -> Nat]
        BY <2>1
    <2>3. ASSUME NEW g \in Handles PROVE sent'[g] = rcvd'[g] + Occ(buf', g)
        <3>1. Occ(buf', g) = Occ(buf, g) + (IF h = g THEN 1 ELSE 0)
            BY <2>1, OccAppend
        <3>2. sent'[g] = sent[g] + (IF h = g THEN 1 ELSE 0)
            BY <2>1
        <3>3. Occ(buf, g) \in Nat /\ rcvd[g] \in Nat
            BY PositionsFinite
        <3>4. QED
            BY <3>1, <3>2, <3>3
    <2>4. QED
        BY <1>1, <1>2, <2>2, <2>3
<1>5. QED
    BY <1>3, <1>4

(* Every step of the channel preserves the inductive invariant.            *)
THEOREM ChNextIInv == ChIInv /\ [ChNext]_allvars => ChIInv'
<1> SUFFICES ASSUME ChIInv, [ChNext]_allvars PROVE ChIInv'
    OBVIOUS
<1>0. IInv'
    BY FacadeStep, NextIInv DEF ChIInv
<1> USE DEF ChIInv
<1>1. ASSUME NEW h \in Handles, SendCall(h) PROVE ChIInv'
    <2>1. CASE /\ disconnected \/ HasRoom
               /\ Send(h) /\ Enqueue(h)
               /\ UNCHANGED <<rcvd, txpc, rxpc, ret>>
        BY <1>0, <1>1, <2>1, EnqueueStep DEF SendCall
    <2>2. CASE /\ txpc' = [txpc EXCEPT ![h] = "blocked"]
               /\ UNCHANGED <<vars, buf, sent, rcvd, rxpc, ret>>
        BY <1>0, <1>1, <2>2 DEF SendCall, vars
    <2>3. QED
        BY <1>1, <2>1, <2>2 DEF SendCall
<1>2. ASSUME NEW h \in Handles, SendWake(h) PROVE ChIInv'
    <2>1. handle[h] = "live"
        BY <1>2 DEF SendWake
    <2>2. QED
        BY <1>0, <1>2, <2>1, EnqueueStep DEF SendWake
<1>3. ASSUME NEW h \in Handles, NEW new \in Handles, ChClone(h, new)
      PROVE ChIInv'
    <2>1. handle[new] = "unused" /\ handle[h] = "live"
        BY <1>3 DEF ChClone, Clone
    <2>2. txpc[new] = "idle"
        BY <2>1
    <2>3. ~HungUp(ret)
        BY <2>1
    <2>4. QED
        BY <1>0, <1>3, <2>2, <2>3 DEF ChClone, Clone, chvars
<1>4. ASSUME NEW h \in Handles, ChSenderDrop(h) PROVE ChIInv'
    BY <1>0, <1>4 DEF ChSenderDrop, SenderDrop, chvars
<1>5. ASSUME NEW h \in Handles, ChSenderRelease(h) PROVE ChIInv'
    BY <1>0, <1>5 DEF ChSenderRelease, SenderRelease, chvars
<1>6. ASSUME NEW c \in RxCalls, Receive(c) PROVE ChIInv'
    <2>1. CASE c \in BlockingCalls /\ Poll = "none"
        BY <1>0, <1>6, <2>1 DEF Receive, vars
    <2>2. CASE ~(c \in BlockingCalls /\ Poll = "none")
        <3>1. Finish(c) /\ rx = "live" /\ UNCHANGED <<vars, sent, txpc>>
            BY <1>6, <2>2 DEF Receive
        <3>2. c = "iter" => Poll # "none"
            BY <2>2 DEF BlockingCalls
        <3>3. QED
            BY <3>1, <3>2, FinishStep
    <2>3. QED
        BY <2>1, <2>2
<1>7. CASE RecvWake
    <2>1. rxpc \in RxCalls /\ rx = "live"
        BY <1>7 DEF RecvWake, BlockingCalls, RxCalls
    <2>2. QED
        BY <1>7, <2>1, FinishStep DEF RecvWake
<1>8. CASE RecvTimedOut
    <2>1. rx = "live"
        BY <1>8 DEF RecvTimedOut
    <2>2. QED
        BY <1>8, <2>1, FinishStep DEF RecvTimedOut, RxCalls
<1>9. CASE ChReceiverDrop
    BY <1>0, <1>9 DEF ChReceiverDrop, ReceiverDrop, chvars
<1>10. CASE ChReceiverRelease
    BY <1>0, <1>10 DEF ChReceiverRelease, ReceiverRelease, chvars
<1>11. CASE UNCHANGED allvars
    BY <1>0, <1>11 DEF allvars, chvars, vars
<1>12. QED
    BY <1>1, <1>2, <1>3, <1>4, <1>5, <1>6, <1>7, <1>8, <1>9, <1>10, <1>11
    DEF ChNext


(* Spec I7: for every number of handles, every bound and every MaxSends, a *)
(* receive reports the hang-up (Disconnected, RecvError, or the end of a   *)
(* blocking iterator) only after every sender has been dropped and every   *)
(* message a send accepted has been received.                              *)
THEOREM HangUpAfterDrainInvariant == ChSpec => []HangUpAfterDrain
<1>1. ChIInv => HangUpAfterDrain
    <2> SUFFICES ASSUME ChIInv, HungUp(ret), NEW h \in Handles
                 PROVE  rcvd[h] = sent[h] /\ handle[h] # "live"
        BY DEF HangUpAfterDrain
    <2>1. buf = <<>> /\ handle[h] # "live"
        BY DEF ChIInv
    <2>2. sent[h] = rcvd[h] + Occ(buf, h) /\ rcvd[h] \in Nat
        BY DEF ChIInv
    <2>3. QED
        BY <2>1, <2>2, OccEmpty
<1>2. QED
    BY <1>1, ChInitIInv, ChNextIInv, PTL DEF ChSpec


-----------------------------------------------------------------------------
(* Type correctness of the channel needs two more facts than ChIInv: no    *)
(* handle sends more than MaxSends (SendCall's guard), and a sender parked *)
(* in a bounded send still has that send to make, since SendWake finishes  *)
(* the send SendCall started without testing the bound again.              *)
SendBound ==
    /\ \A h \in Handles : sent[h] <= MaxSends
    /\ \A h \in Handles : txpc[h] = "blocked" => sent[h] < MaxSends

\* The last receive result is a call and a converted value.
RetType == ret \in [call : {"none"} \cup RxCalls, val : RxResults]

ChTypeInv == ChIInv /\ SendBound /\ RetType

(* Every conversion of the facade yields a result value.                   *)
LEMMA ReturnedType ==
    ASSUME NEW c \in RxCalls, NEW r \in {"err", "none", "some"}
    PROVE  Returned(c, r) \in RxResults
BY DEF RxResults, Returned, RxCalls, TryRecvResult, RecvResult, RecvTimeoutResult,
       DeadlinePassedResult, OkOption

(* A completed receive call leaves a well-typed result.                    *)
LEMMA FinishRetType ==
    ASSUME NEW c \in RxCalls, Finish(c) PROVE RetType'
BY PollFacts, ReturnedType DEF Finish, RetType

(* The initial state satisfies the strengthened invariant.                 *)
THEOREM ChInitTypeInv == ChInit => ChTypeInv
<1> SUFFICES ASSUME ChInit PROVE ChTypeInv
    OBVIOUS
<1>1. ChIInv
    BY ChInitIInv
<1>2. SendBound
    BY ChannelAssumption DEF ChInit, SendBound
<1>3. RetType
    BY DEF ChInit, RetType, RxResults
<1>4. QED
    BY <1>1, <1>2, <1>3 DEF ChTypeInv

(* Every step of the channel preserves the strengthened invariant.         *)
THEOREM ChNextTypeInv == ChTypeInv /\ [ChNext]_allvars => ChTypeInv'
<1> SUFFICES ASSUME ChTypeInv, [ChNext]_allvars PROVE ChTypeInv'
    OBVIOUS
<1>0. /\ ChIInv' /\ MaxSends \in Nat
      /\ sent \in [Handles -> Nat] /\ txpc \in [Handles -> {"idle", "blocked"}]
    BY ChNextIInv, ChannelAssumption DEF ChTypeInv, ChIInv
<1> USE DEF ChTypeInv
<1>1. ASSUME NEW h \in Handles, SendCall(h) PROVE ChTypeInv'
    <2>1. sent[h] < MaxSends /\ txpc[h] = "idle" /\ UNCHANGED ret
        BY <1>1 DEF SendCall
    <2>2. CASE UNCHANGED <<sent, txpc>>
        BY <1>0, <2>1, <2>2 DEF SendBound, RetType
    <2>3. CASE sent' = [sent EXCEPT ![h] = @ + 1] /\ UNCHANGED txpc
        <3>1. \A g \in Handles : sent'[g] <= MaxSends
            BY <1>0, <2>1, <2>3 DEF SendBound
        <3>2. \A g \in Handles : txpc'[g] = "blocked" => sent'[g] < MaxSends
            BY <1>0, <2>1, <2>3 DEF SendBound
        <3>3. QED
            BY <1>0, <2>1, <3>1, <3>2 DEF SendBound, RetType
    <2>4. CASE txpc' = [txpc EXCEPT ![h] = "blocked"] /\ UNCHANGED sent
        BY <1>0, <2>1, <2>4 DEF SendBound, RetType
    <2>5. QED
        BY <1>1, <2>2, <2>3, <2>4 DEF SendCall, Enqueue
<1>2. ASSUME NEW h \in Handles, SendWake(h) PROVE ChTypeInv'
    <2>1. sent[h] < MaxSends /\ UNCHANGED ret
        BY <1>2 DEF SendWake, SendBound
    <2>2. txpc' = [txpc EXCEPT ![h] = "idle"]
        BY <1>2 DEF SendWake
    <2>3. CASE UNCHANGED sent
        BY <1>0, <2>1, <2>2, <2>3 DEF SendBound, RetType
    <2>4. CASE sent' = [sent EXCEPT ![h] = @ + 1]
        <3>1. \A g \in Handles : sent'[g] <= MaxSends
            BY <1>0, <2>1, <2>4 DEF SendBound
        <3>2. \A g \in Handles : txpc'[g] = "blocked" => sent'[g] < MaxSends
            BY <1>0, <2>1, <2>2, <2>4 DEF SendBound
        <3>3. QED
            BY <1>0, <2>1, <3>1, <3>2 DEF SendBound, RetType
    <2>5. QED
        BY <1>2, <2>3, <2>4 DEF SendWake, Enqueue
<1>3. ASSUME NEW h \in Handles,
             \/ ChSenderDrop(h) \/ ChSenderRelease(h)
             \/ \E new \in Handles : ChClone(h, new)
      PROVE ChTypeInv'
    BY <1>0, <1>3 DEF ChSenderDrop, ChSenderRelease, ChClone, chvars,
                      SendBound, RetType
<1>4. ASSUME NEW c \in RxCalls, Receive(c) PROVE ChTypeInv'
    <2>1. SendBound'
        BY <1>4 DEF Receive, SendBound
    <2>2. RetType'
        BY <1>4, FinishRetType DEF Receive, RetType
    <2>3. QED
        BY <1>0, <2>1, <2>2
<1>5. CASE RecvWake \/ RecvTimedOut
    <2>1. SendBound'
        BY <1>5 DEF RecvWake, RecvTimedOut, SendBound
    <2>2. RetType'
        BY <1>5, FinishRetType DEF RecvWake, RecvTimedOut, BlockingCalls, RxCalls
    <2>3. QED
        BY <1>0, <2>1, <2>2
<1>6. CASE ChReceiverDrop \/ ChReceiverRelease
    BY <1>0, <1>6 DEF ChReceiverDrop, ChReceiverRelease, chvars, SendBound, RetType
<1>7. CASE UNCHANGED allvars
    BY <1>0, <1>7 DEF allvars, chvars, SendBound, RetType
<1>8. QED
    BY <1>1, <1>2, <1>3, <1>4, <1>5, <1>6, <1>7 DEF ChNext

(* Type correctness of the channel for every number of handles, bound and  *)
(* MaxSends: in particular no handle sends more than MaxSends, and the     *)
(* receiver never counts more messages of a handle than it sent.           *)
THEOREM ChTypeCorrect == ChSpec => []ChTypeOK
<1>1. ChTypeInv => ChTypeOK
    <2> SUFFICES ASSUME ChTypeInv PROVE ChTypeOK
        OBVIOUS
    <2>1. ASSUME NEW h \in Handles PROVE sent[h] \in 0..MaxSends /\ rcvd[h] \in 0..MaxSends
        <3>1. sent[h] = rcvd[h] + Occ(buf, h) /\ rcvd[h] \in Nat /\ sent[h] \in Nat
            BY DEF ChTypeInv, ChIInv
        <3>2. Occ(buf, h) \in Nat
            BY PositionsFinite DEF ChTypeInv, ChIInv
        <3>3. sent[h] <= MaxSends /\ MaxSends \in Nat
            BY ChannelAssumption DEF ChTypeInv, SendBound
        <3>4. QED
            BY <3>1, <3>2, <3>3
    <2>2. QED
        BY <2>1 DEF ChTypeOK, ChTypeInv, ChIInv, IInv, RetType
<1>2. QED
    BY <1>1, ChInitTypeInv, ChNextTypeInv, PTL DEF ChSpec

=============================================================================
