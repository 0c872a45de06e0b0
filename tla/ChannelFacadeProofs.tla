------------------------- MODULE ChannelFacadeProofs -------------------------
(***************************************************************************)
(* Proofs about the channel facade for every number of sender handles and *)
(* every bound: the type invariant and that a send fails only once the     *)
(* receiver is being dropped.                                              *)
(***************************************************************************)
EXTENDS ChannelFacade, TLAPS, FiniteSetTheorems

\* The handles that still own a reference to the Arc.
Owners == {h \in Handles : handle[h] \in {"live", "dropping"}}

RxRef == IF rx = "gone" THEN 0 ELSE 1

(* Arc::strong_count counts the sender handles not yet released and the   *)
(* receiver; a disconnect while the receiver lives happened at the last    *)
(* sender's drop, so no live sender is left to send.                       *)
IInv ==
    /\ TypeOK
    /\ arc = Cardinality(Owners) + RxRef
    /\ disconnected /\ rx = "live" => \A h \in Handles : handle[h] # "live"
    /\ SendErrOnlyWithoutReceiver

LEMMA OwnersFinite == IsFiniteSet(Owners) /\ Owners \subseteq Handles
BY HandlesAssumption, FS_Subset DEF Owners

(* The initial state satisfies the inductive invariant.                    *)
THEOREM InitIInv == Init => IInv
<1> SUFFICES ASSUME Init PROVE IInv
    OBVIOUS
<1>1. Owners = {FirstHandle}
    <2>1. FirstHandle \in Handles
        BY HandlesAssumption DEF FirstHandle
    <2>2. \A h \in Handles : h \in Owners <=> h = FirstHandle
        BY DEF Init, Owners
    <2>3. QED
        BY <2>1, <2>2 DEF Owners
<1>2. Cardinality(Owners) = 1
    BY <1>1, FS_Singleton
<1>3. TypeOK
    BY DEF Init, TypeOK
<1>4. arc = Cardinality(Owners) + RxRef
    BY <1>2 DEF Init, RxRef
<1>5. QED
    BY <1>3, <1>4 DEF Init, IInv, SendErrOnlyWithoutReceiver

(* Every step of the facade preserves the inductive invariant.             *)
THEOREM NextIInv == IInv /\ [Next]_vars => IInv'
<1> SUFFICES ASSUME IInv, [Next]_vars PROVE IInv'
    OBVIOUS
<1> USE DEF IInv, TypeOK, SendErrOnlyWithoutReceiver
<1>0. IsFiniteSet(Owners) /\ Cardinality(Owners) \in Nat
    BY OwnersFinite, FS_CardinalityType
<1>1. ASSUME NEW h \in Handles, Send(h) PROVE IInv'
    <2>1. Owners' = Owners
        BY <1>1 DEF Send, Owners
    <2>2. QED
        BY <1>1, <2>1 DEF Send, RxRef
<1>2. ASSUME NEW h \in Handles, NEW new \in Handles, Clone(h, new)
      PROVE IInv'
    <2>1. Owners' = Owners \cup {new} /\ new \notin Owners
        BY <1>2 DEF Clone, Owners
    <2>2. Cardinality(Owners') = Cardinality(Owners) + 1
        BY <2>1, <1>0, FS_AddElement
    <2>3. ~(disconnected /\ rx = "live")
        BY <1>2 DEF Clone
    <2>4. QED
        BY <1>2, <2>2, <2>3, <1>0 DEF Clone, RxRef
<1>3. ASSUME NEW h \in Handles, SenderDrop(h) PROVE IInv'
    <2>1. Owners' = Owners
        BY <1>3 DEF SenderDrop, Owners
    <2>2. LastSenderTest(arc) /\ rx = "live" => Owners = {h}
        <3>1. SUFFICES ASSUME arc = 2, rx = "live" PROVE Owners = {h}
            BY DEF LastSenderTest
        <3>2. Cardinality(Owners) = 1 /\ h \in Owners
            BY <3>1, <1>3, <1>0 DEF RxRef, SenderDrop, Owners
        <3>3. PICK o : Owners = {o}
            BY <3>2, <1>0, FS_Singleton
        <3>4. QED
            BY <3>2, <3>3
    <2>3. disconnected' /\ rx' = "live" => \A g \in Handles : handle'[g] # "live"
        BY <1>3, <2>2 DEF SenderDrop, Owners
    <2>4. QED
        BY <1>3, <2>1, <2>3 DEF SenderDrop, RxRef
<1>4. ASSUME NEW h \in Handles, SenderRelease(h) PROVE IInv'
    <2>1. Owners' = Owners \ {h} /\ h \in Owners
        BY <1>4 DEF SenderRelease, Owners
    <2>2. /\ Cardinality(Owners') = Cardinality(Owners) - 1
          /\ IsFiniteSet(Owners')
        BY <2>1, <1>0, FS_RemoveElement
    <2>4. Cardinality(Owners') \in Nat
        BY <2>2, FS_CardinalityType
    <2>3. QED
        BY <1>4, <2>2, <2>4, <1>0 DEF SenderRelease, RxRef
<1>5. CASE ReceiverDrop
    <2>1. Owners' = Owners
        BY <1>5 DEF ReceiverDrop, Owners
    <2>2. QED
        BY <1>5, <2>1, <1>0 DEF ReceiverDrop, RxRef
<1>6. CASE ReceiverRelease
    <2>1. Owners' = Owners
        BY <1>6 DEF ReceiverRelease, Owners
    <2>2. QED
        BY <1>6, <2>1, <1>0 DEF ReceiverRelease, RxRef
<1>7. CASE UNCHANGED vars
    BY <1>7 DEF vars, Owners, RxRef
<1>8. QED
    BY <1>1, <1>2, <1>3, <1>4, <1>5, <1>6, <1>7 DEF Next

(* Every variable of the facade keeps its type; in particular the strong  *)
(* count never goes below zero on a release.                              *)
THEOREM TypeCorrect == Spec => []TypeOK
<1>1. IInv => TypeOK
    BY DEF IInv
<1>2. QED
    BY <1>1, InitIInv, NextIInv, PTL DEF Spec

(* Sender::send docs: a send returns an error only once the receiver has  *)
(* been dropped, for any number of clones and drops of the senders.       *)
THEOREM SendErrInvariant == Spec => []SendErrOnlyWithoutReceiver
<1>1. IInv => SendErrOnlyWithoutReceiver
    BY DEF IInv
<1>2. QED
    BY <1>1, InitIInv, NextIInv, PTL DEF Spec

=============================================================================
