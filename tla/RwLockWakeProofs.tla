-------------------------- MODULE RwLockWakeProofs --------------------------
(***************************************************************************)
(* Proofs about how RwLock wakes its waiters, for every set of threads and *)
(* every reader bound:                                                     *)
(*   - no waiter is lost or woken twice (WaitersAccounted);                *)
(*   - while a waiter is queued, someone is bound to wake it              *)
(*     (WakeupPending);                                                    *)
(*   - with writers only, LOCKED is set only while the lock is held        *)
(*     (LockedOnlyWhileHeld).                                              *)
(*                                                                         *)
(* The first rests on WakeAcct, which follows every thread's Waiter node   *)
(* and token through the waiter list, the wake lists of unpark_waiters and *)
(* the Parker, given the thread's pc and the pc lock() returns to; the     *)
(* second on WakeAcct and WakerBusy (a thread in unpark_waiters has        *)
(* threads left to wake).  Both are proved relative to IInv of             *)
(* RwLockProofs, one lemma per action.                                     *)
(***************************************************************************)
EXTENDS RwLockQueueProofs

(* A waiter is accounted for when it is queued, in a wake list or holds    *)
(* its token: someone is bound to make its park return.                    *)
Accounted(t) == t \in Range(q) \/ InWakeList(t) \/ notified[t]

(* The waiter list and the wake lists hold each thread at most once, and   *)
(* no thread is in two of them.                                            *)
ListsDisjoint ==
    /\ IsInjective(q)
    /\ \A u \in Threads : IsInjective(towake[u])
    /\ \A t \in Threads : t \in Range(q) => ~InWakeList(t)
    /\ \A u, v \in Threads : u # v => Range(towake[u]) \cap Range(towake[v]) = {}

(* Where a thread's Waiter node and unpark token can be, given its pc and  *)
(* the pc lock() returns to (ret): a queued or waking thread is inside     *)
(* lock() without a token; only unpark_waiters takes threads off a wake    *)
(* list; a token is only pending for a thread that is about to park; a     *)
(* pushed thread is accounted for until it parks; only unpark_waiters      *)
(* holds a wake list; unlock_exclusive_slow runs outside lock().           *)
WaiterState(t) ==
    /\ t \in Range(q) \/ InWakeList(t) =>
          /\ ~notified[t] /\ ret[t] = "park"
          /\ pc[t] \in {"park", "link_queue_or_unpark", "unpark", "unpark_waiters"}
    /\ InWakeList(t) => pc[t] \in {"park", "unpark_waiters"}
    /\ notified[t] => pc[t] = "park" \/ (pc[t] = "unpark_waiters" /\ ret[t] = "park")
    /\ pc[t] = "park" => Accounted(t)
    /\ pc[t] \in {"link_queue_or_unpark", "unpark", "unpark_waiters"} /\ ret[t] = "park"
          => Accounted(t)
    /\ pc[t] # "unpark_waiters" => towake[t] = <<>>
    /\ pc[t] = "unlock_exclusive_slow" => ret[t] = "idle"

WakeAcct == ListsDisjoint /\ \A t \in Threads : WaiterState(t)

-----------------------------------------------------------------------------
(* The pcs of a thread inside lock() after its push, until it parks or     *)
(* returns.                                                                *)
InLock == {"park", "link_queue_or_unpark", "unpark", "unpark_waiters"}

(* A thread outside InLock is in no list, holds no token and no wake list. *)
LEMMA OutsideLists ==
    ASSUME WakeAcct, NEW t \in Threads, pc[t] \notin InLock
    PROVE  t \notin Range(q) /\ ~InWakeList(t) /\ ~notified[t] /\ towake[t] = <<>>
BY DEF WakeAcct, WaiterState, InLock

(* A step that leaves the lists and the tokens alone and changes the pc    *)
(* and ret of one thread t keeps WakeAcct if t's own condition holds after *)
(* it.                                                                     *)
LEMMA WakeFrame ==
    ASSUME WakeAcct, NEW t \in Threads,
           q' = q, towake' = towake, notified' = notified,
           \A u \in Threads \ {t} : pc'[u] = pc[u] /\ ret'[u] = ret[u],
           WaiterState(t)'
    PROVE  WakeAcct'
<1>1. \A u \in Threads : InWakeList(u)' <=> InWakeList(u)
    BY DEF InWakeList
<1>2. ListsDisjoint'
    BY <1>1 DEF WakeAcct, ListsDisjoint
<1>3. ASSUME NEW u \in Threads \ {t} PROVE WaiterState(u)'
    <2>1. WaiterState(u)
        BY DEF WakeAcct
    <2>2. Accounted(u)' <=> Accounted(u)
        BY <1>1 DEF Accounted
    <2>3. QED
        BY <1>1, <2>1, <2>2 DEF WaiterState
<1>4. QED
    BY <1>2, <1>3 DEF WakeAcct

(* A step of a thread that is outside lock() before and after it, and     *)
(* enters unlock_exclusive_slow only with ret = idle, keeps WakeAcct.      *)
LEMMA OutsideStep ==
    ASSUME WakeAcct, NEW t \in Threads, pc[t] \notin InLock, pc'[t] \notin InLock,
           q' = q, towake' = towake, notified' = notified,
           \A u \in Threads \ {t} : pc'[u] = pc[u] /\ ret'[u] = ret[u],
           pc'[t] = "unlock_exclusive_slow" => ret'[t] = "idle"
    PROVE  WakeAcct'
<1>1. t \notin Range(q) /\ ~InWakeList(t) /\ ~notified[t] /\ towake[t] = <<>>
    BY OutsideLists
<1>2. ~InWakeList(t)'
    BY <1>1 DEF InWakeList
<1>3. WaiterState(t)'
    BY <1>1, <1>2 DEF WaiterState, InLock
<1>4. QED
    BY <1>3, WakeFrame


(* The releases keep WakeAcct: unlock_exclusive, unlock_shared and the     *)
(* fetch_sub of unlock_shared_slow touch neither list nor token, and       *)
(* unlock_exclusive enters its slow path with ret = idle.                  *)
LEMMA ReleaseWake ==
    ASSUME IInv, WakeAcct, NEW t \in Threads,
           UnlockExclusive(t) \/ UnlockShared(t) \/ UnlockSharedSlow(t)
    PROVE  WakeAcct'
<1>1. /\ pc[t] \in {"holding", "unlock_shared_slow"}
      /\ pc'[t] \in {"unlock_exclusive_slow", "idle", "unlock_shared_slow"}
      /\ \A u \in Threads \ {t} : pc'[u] = pc[u] /\ ret'[u] = ret[u]
      /\ pc'[t] = "unlock_exclusive_slow" => ret'[t] = "idle"
      /\ q' = q /\ towake' = towake /\ notified' = notified
    BY DEF UnlockExclusive, UnlockShared, UnlockSharedSlow, IInv, CoreInv, TypeOK
<1>2. pc[t] \notin InLock /\ pc'[t] \notin InLock
    BY <1>1 DEF InLock
<1>3. QED
    BY <1>1, <1>2, OutsideStep

(* unlock_exclusive_slow keeps WakeAcct: it returns, or goes on to unpark  *)
(* with ret = idle, in no list and without a token.                        *)
LEMMA UnlockExclusiveSlowWake ==
    ASSUME IInv, WakeAcct, NEW t \in Threads, UnlockExclusiveSlow(t)
    PROVE  WakeAcct'
<1>1. /\ pc[t] = "unlock_exclusive_slow" /\ ret[t] = "idle"
      /\ \A u \in Threads \ {t} : pc'[u] = pc[u]
      /\ pc'[t] \in {"unpark", "idle"}
      /\ ret' = ret /\ q' = q /\ towake' = towake /\ notified' = notified
    BY DEF UnlockExclusiveSlow, WakeAcct, WaiterState, IInv, CoreInv, TypeOK
<1>2. t \notin Range(q) /\ ~InWakeList(t) /\ ~notified[t] /\ towake[t] = <<>>
    BY <1>1, OutsideLists DEF InLock
<1>3. CASE pc'[t] = "idle"
    <2>1. pc[t] \notin InLock /\ pc'[t] \notin InLock
        BY <1>1, <1>3 DEF InLock
    <2>2. QED
        BY <1>1, <2>1, OutsideStep
<1>4. CASE pc'[t] = "unpark"
    <2>1. ~InWakeList(t)'
        BY <1>1, <1>2 DEF InWakeList
    <2>2. WaiterState(t)'
        BY <1>1, <1>2, <1>4, <2>1 DEF WaiterState
    <2>3. QED
        BY <1>1, <2>2, WakeFrame
<1>5. QED
    BY <1>1, <1>3, <1>4


(* A step that changes none of the lists, tokens, pcs and rets keeps       *)
(* WakeAcct: the failed CASs that refresh a local state.                   *)
LEMMA WakeUnchanged ==
    ASSUME WakeAcct, q' = q, towake' = towake, notified' = notified,
           pc' = pc, ret' = ret
    PROVE  WakeAcct'
BY DEF WakeAcct, ListsDisjoint, WaiterState, Accounted, InWakeList

(* The holder of QUEUE_LOCKED gives it up by CAS and leaves for ret: to    *)
(* park, accounted for as it was, or out of lock(), in no list.            *)
LEMMA LeaveQueueLock ==
    ASSUME TypeOK, WakeAcct, NEW t \in Threads,
           pc[t] \in {"link_queue_or_unpark", "unpark"}, pc'[t] = ret[t],
           \A u \in Threads \ {t} : pc'[u] = pc[u],
           ret' = ret, q' = q, towake' = towake, notified' = notified
    PROVE  WakeAcct'
<1>1. ~InWakeList(t) /\ ~notified[t] /\ towake[t] = <<>>
    BY DEF WakeAcct, WaiterState
<1>2. ~InWakeList(t)'
    BY <1>1 DEF InWakeList
<1>3. CASE ret[t] = "park"
    <2>1. Accounted(t)'
        <3>1. Accounted(t)
            BY <1>3 DEF WakeAcct, WaiterState
        <3>2. QED
            BY <3>1 DEF Accounted, InWakeList
    <2>2. WaiterState(t)'
        BY <1>1, <1>2, <1>3, <2>1 DEF WaiterState
    <2>3. QED
        BY <2>2, WakeFrame
<1>4. CASE ret[t] = "idle"
    <2>1. t \notin Range(q)
        BY <1>4 DEF WakeAcct, WaiterState
    <2>2. WaiterState(t)'
        BY <1>1, <1>2, <1>4, <2>1 DEF WaiterState
    <2>3. QED
        BY <2>2, WakeFrame
<1>5. QED
    BY <1>3, <1>4 DEF TypeOK

(* link_queue_or_unpark keeps WakeAcct: on to unpark, accounted for as     *)
(* before; give QUEUE_LOCKED up; or refresh its state.                     *)
LEMMA LinkQueueOrUnparkWake ==
    ASSUME IInv, WakeAcct, NEW t \in Threads, LinkQueueOrUnpark(t)
    PROVE  WakeAcct'
<1> USE DEF IInv, CoreInv
<1>0. /\ pc[t] = "link_queue_or_unpark"
      /\ UNCHANGED <<q, towake, notified, ret>>
    BY DEF LinkQueueOrUnpark
<1>1. CASE LockFree(st[t])
    <2>1. pc' = [pc EXCEPT ![t] = "unpark"]
        BY <1>1 DEF LinkQueueOrUnpark
    <2>2. ~InWakeList(t)' /\ ~notified[t] /\ towake[t] = <<>>
        BY <1>0 DEF WakeAcct, WaiterState, InWakeList
    <2>3. ret[t] = "park" => Accounted(t)'
        BY <1>0 DEF WakeAcct, WaiterState, Accounted, InWakeList
    <2>4. WaiterState(t)
        BY DEF WakeAcct
    <2>5. WaiterState(t)'
        BY <1>0, <2>1, <2>2, <2>3, <2>4 DEF WaiterState, TypeOK
    <2>6. QED
        BY <1>0, <2>1, <2>5, WakeFrame DEF TypeOK
<1>2. CASE ~LockFree(st[t]) /\ word = st[t]
    <2>1. pc' = [pc EXCEPT ![t] = ret[t]]
        BY <1>2 DEF LinkQueueOrUnpark
    <2>2. QED
        BY <1>0, <2>1, LeaveQueueLock DEF TypeOK
<1>3. CASE ~LockFree(st[t]) /\ word # st[t]
    BY <1>0, <1>3, WakeUnchanged DEF LinkQueueOrUnpark
<1>4. QED
    BY <1>1, <1>2, <1>3


(* park returns by consuming the token, which a thread only holds once it  *)
(* has left both lists: it goes back to lock() accounted for by nothing    *)
(* and needing nothing.                                                    *)
LEMMA ParkWake ==
    ASSUME IInv, WakeAcct, NEW t \in Threads, Park(t)
    PROVE  WakeAcct'
<1> USE DEF IInv, CoreInv
<1>0. /\ pc[t] = "park" /\ notified[t]
      /\ notified' = [notified EXCEPT ![t] = FALSE]
      /\ pc' = [pc EXCEPT ![t] = "locking"]
      /\ UNCHANGED <<q, towake, ret>>
    BY DEF Park
<1>1. t \notin Range(q) /\ ~InWakeList(t) /\ towake[t] = <<>>
    BY <1>0 DEF WakeAcct, WaiterState
<1>2. \A u \in Threads : InWakeList(u)' <=> InWakeList(u)
    BY <1>0 DEF InWakeList
<1>3. ListsDisjoint'
    BY <1>0, <1>2 DEF WakeAcct, ListsDisjoint
<1>4. WaiterState(t)'
    BY <1>0, <1>1, <1>2 DEF WaiterState, TypeOK
<1>5. ASSUME NEW u \in Threads \ {t} PROVE WaiterState(u)'
    <2>1. WaiterState(u)
        BY DEF WakeAcct
    <2>2. notified'[u] = notified[u] /\ pc'[u] = pc[u]
        BY <1>0 DEF TypeOK
    <2>3. Accounted(u)' <=> Accounted(u)
        BY <1>0, <1>2, <2>2 DEF Accounted
    <2>4. QED
        BY <1>0, <1>2, <2>1, <2>2, <2>3 DEF WaiterState
<1>6. QED
    BY <1>3, <1>4, <1>5 DEF WakeAcct


(* A pass of lock() keeps WakeAcct: the acquire leaves lock(); the push    *)
(* puts the thread, in no list and without a token, at the head of the    *)
(* list, where it is accounted for until it parks.                         *)
LEMMA LockWake ==
    ASSUME IInv, WakeAcct, NEW t \in Threads, NEW m,
           pc[t] \in {"idle", "locking"}, Lock(t, m)
    PROVE  WakeAcct'
<1> USE DEF IInv, CoreInv
<1>0. t \notin Range(q) /\ ~InWakeList(t) /\ ~notified[t] /\ towake[t] = <<>>
    BY OutsideLists DEF InLock
<1>1. CASE TryLockApplies(m, word)
    <2>1. /\ pc' = [pc EXCEPT ![t] = "holding"]
          /\ UNCHANGED <<q, towake, notified, ret>>
        BY <1>1 DEF Lock
    <2>2. /\ pc[t] \notin InLock /\ pc'[t] \notin InLock
          /\ \A u \in Threads \ {t} : pc'[u] = pc[u] /\ ret'[u] = ret[u]
        BY <2>1 DEF InLock, TypeOK
    <2>3. QED
        BY <2>1, <2>2, OutsideStep
<1>2. CASE ~TryLockApplies(m, word)
    <2>1. /\ q' = <<t>> \o q
          /\ pc' = [pc EXCEPT ![t] = IF word.queued /\ ~word.qlocked
                                     THEN "link_queue_or_unpark" ELSE "park"]
          /\ ret' = [ret EXCEPT ![t] = "park"]
          /\ UNCHANGED <<towake, notified>>
        BY <1>2 DEF Lock
    <2>2. Range(q') = {t} \cup Range(q) /\ IsInjective(q')
        BY <1>0, <2>1, PushList DEF WakeAcct, ListsDisjoint, TypeOK
    <2>3. \A u \in Threads : InWakeList(u)' <=> InWakeList(u)
        BY <2>1 DEF InWakeList
    <2>4. ListsDisjoint'
        BY <1>0, <2>1, <2>2, <2>3 DEF WakeAcct, ListsDisjoint
    <2>5. /\ pc'[t] \in {"link_queue_or_unpark", "park"} /\ ret'[t] = "park"
          /\ \A u \in Threads \ {t} : pc'[u] = pc[u] /\ ret'[u] = ret[u]
        BY <2>1 DEF TypeOK
    <2>6. WaiterState(t)'
        <3>1. t \in Range(q') /\ Accounted(t)'
            BY <2>2 DEF Accounted
        <3>2. QED
            BY <1>0, <2>1, <2>3, <2>5, <3>1 DEF WaiterState
    <2>7. ASSUME NEW u \in Threads \ {t} PROVE WaiterState(u)'
        <3>1. WaiterState(u)
            BY DEF WakeAcct
        <3>2. (u \in Range(q')) <=> (u \in Range(q))
            BY <2>2
        <3>3. Accounted(u)' <=> Accounted(u)
            BY <2>1, <2>3, <3>2 DEF Accounted
        <3>4. QED
            BY <2>1, <2>3, <2>5, <3>1, <3>2, <3>3 DEF WaiterState
    <2>8. QED
        BY <2>4, <2>6, <2>7 DEF WakeAcct
<1>3. QED
    BY <1>1, <1>2


(* unpark_waiters keeps WakeAcct: the woken thread leaves its wake list,   *)
(* which is the only list it was in, and gets its token; the waker leaves  *)
(* for ret with an empty wake list once it has woken the last one.         *)
LEMMA UnparkWaitersWake ==
    ASSUME IInv, WakeAcct, NEW t \in Threads, UnparkWaiters(t)
    PROVE  WakeAcct'
<1> USE DEF IInv, CoreInv
<1>a. PICK x \in Threads : x = Head(towake[t])
    <2>1. towake[t] \in Seq(Threads) /\ towake[t] # <<>>
        BY DEF UnparkWaiters, TypeOK
    <2>2. QED
        BY <2>1, HeadTailProperties
<1>0. /\ pc[t] = "unpark_waiters" /\ towake[t] # <<>>
      /\ notified' = [notified EXCEPT ![x] = TRUE]
      /\ towake' = [towake EXCEPT ![t] = Tail(towake[t])]
      /\ pc' = [pc EXCEPT ![t] = IF Len(towake[t]) = 1 THEN ret[t]
                                  ELSE "unpark_waiters"]
      /\ UNCHANGED <<q, ret>>
    BY <1>a DEF UnparkWaiters
<1>1. /\ towake[t] \in Seq(Threads)
      /\ Range(towake[t]) = {x} \cup Range(Tail(towake[t]))
      /\ IsInjective(Tail(towake[t])) /\ x \notin Range(Tail(towake[t]))
    <2>1. towake[t] \in Seq(Threads) /\ IsInjective(towake[t])
        BY DEF TypeOK, WakeAcct, ListsDisjoint
    <2>2. QED
        BY <1>0, <1>a, <2>1, PopList
<1>2. x \in Threads /\ InWakeList(x)
    <2>1. x \in Range(towake[t])
        BY <1>1
    <2>2. QED
        BY <2>1, <1>1 DEF InWakeList, Range
<1>3. /\ x \notin Range(q) /\ ~notified[x] /\ ret[x] = "park"
      /\ pc[x] \in {"park", "unpark_waiters"}
    BY <1>2 DEF WakeAcct, WaiterState, ListsDisjoint
<1>4. \A u \in Threads : Range(towake'[u]) \subseteq Range(towake[u])
    BY <1>0, <1>1 DEF TypeOK
<1>5. \A y \in Threads : InWakeList(y)' <=> InWakeList(y) /\ y # x
    <2>1. ASSUME NEW y \in Threads, InWakeList(y)' PROVE InWakeList(y) /\ y # x
        <3>1. PICK u \in Threads : y \in Range(towake'[u])
            BY <2>1 DEF InWakeList
        <3>2. y \in Range(towake[u])
            BY <1>4, <3>1
        <3>3. CASE u = t
            BY <1>0, <1>1, <3>1, <3>2, <3>3 DEF InWakeList, TypeOK
        <3>4. CASE u # t
            <4>1. x \in Range(towake[t])
                BY <1>1
            <4>2. Range(towake[u]) \cap Range(towake[t]) = {}
                BY <3>4 DEF WakeAcct, ListsDisjoint
            <4>3. QED
                BY <3>2, <4>1, <4>2 DEF InWakeList
        <3>5. QED
            BY <3>3, <3>4
    <2>2. ASSUME NEW y \in Threads, InWakeList(y), y # x PROVE InWakeList(y)'
        <3>1. PICK u \in Threads : y \in Range(towake[u])
            BY <2>2 DEF InWakeList
        <3>2. CASE u = t
            <4>1. y \in Range(towake'[t])
                BY <1>0, <1>1, <2>2, <3>1, <3>2 DEF TypeOK
            <4>2. QED
                BY <4>1 DEF InWakeList
        <3>3. CASE u # t
            BY <1>0, <3>1, <3>3 DEF InWakeList
        <3>4. QED
            BY <3>2, <3>3
    <2>3. QED
        BY <2>1, <2>2
<1>6. \A y \in Threads : Accounted(y)' <=> Accounted(y)
    <2>1. ASSUME NEW y \in Threads PROVE Accounted(y)' <=> Accounted(y)
        <3>1. CASE y = x
            BY <1>0, <1>2, <3>1 DEF Accounted, TypeOK
        <3>2. CASE y # x
            <4>1. notified'[y] = notified[y]
                BY <1>0, <3>2 DEF TypeOK
            <4>2. QED
                BY <1>0, <1>5, <3>2, <4>1 DEF Accounted
        <3>3. QED
            BY <3>1, <3>2
    <2>2. QED
        BY <2>1
<1>7. ListsDisjoint'
    <2>1. IsInjective(q') /\ \A u \in Threads : IsInjective(towake'[u])
        BY <1>0, <1>1 DEF WakeAcct, ListsDisjoint, TypeOK
    <2>2. \A y \in Threads : y \in Range(q') => ~InWakeList(y)'
        BY <1>0, <1>5 DEF WakeAcct, ListsDisjoint
    <2>3. \A u, v \in Threads : u # v => Range(towake'[u]) \cap Range(towake'[v]) = {}
        BY <1>4 DEF WakeAcct, ListsDisjoint
    <2>4. QED
        BY <2>1, <2>2, <2>3 DEF ListsDisjoint
<1>8. ASSUME NEW y \in Threads \ {t, x} PROVE WaiterState(y)'
    <2>1. /\ pc'[y] = pc[y] /\ notified'[y] = notified[y] /\ towake'[y] = towake[y]
          /\ (InWakeList(y)' <=> InWakeList(y)) /\ (Accounted(y)' <=> Accounted(y))
        BY <1>0, <1>5, <1>6 DEF TypeOK
    <2>2. WaiterState(y)
        BY DEF WakeAcct
    <2>3. QED
        BY <1>0, <2>1, <2>2 DEF WaiterState
<1>9. x # t => WaiterState(x)'
    <2> SUFFICES ASSUME x # t PROVE WaiterState(x)'
        OBVIOUS
    <2>1. /\ pc'[x] = pc[x] /\ notified'[x] /\ towake'[x] = towake[x]
          /\ ~InWakeList(x)' /\ Accounted(x)'
        <3>1. pc'[x] = pc[x] /\ notified'[x] /\ towake'[x] = towake[x]
            BY <1>0 DEF TypeOK
        <3>2. ~InWakeList(x)'
            BY <1>5
        <3>3. QED
            BY <3>1, <3>2 DEF Accounted
    <2>2. pc[x] # "unpark_waiters" => towake[x] = <<>>
        BY <1>2 DEF WakeAcct, WaiterState
    <2>3. QED
        BY <1>0, <1>3, <2>1, <2>2 DEF WaiterState
<1>10. WaiterState(t)'
    <2>1. /\ (InWakeList(t)' => InWakeList(t) /\ t # x)
          /\ (Accounted(t)' <=> Accounted(t))
          /\ ret'[t] = ret[t]
          /\ notified'[t] = (t = x \/ notified[t])
        BY <1>0, <1>5, <1>6 DEF TypeOK
    <2>2. WaiterState(t)
        BY DEF WakeAcct
    <2>3. CASE Len(towake[t]) # 1
        <3>1. pc'[t] = "unpark_waiters"
            BY <1>0, <2>3 DEF TypeOK
        <3>2. t = x => ret[t] = "park"
            BY <1>3
        <3>3. QED
            BY <1>0, <1>3, <2>1, <2>2, <3>1, <3>2 DEF WaiterState
    <2>4. CASE Len(towake[t]) = 1
        <3>1. pc'[t] = ret[t] /\ towake'[t] = <<>>
            <4>1. Len(Tail(towake[t])) = 0 /\ Tail(towake[t]) \in Seq(Threads)
                BY <1>0, <1>1, <2>4, HeadTailProperties
            <4>2. QED
                BY <1>0, <2>4, <4>1, EmptySeq DEF TypeOK
        <3>2. CASE ret[t] = "park"
            <4>1. Accounted(t)
                BY <1>0, <2>2, <3>2 DEF WaiterState
            <4>2. t \in Range(q') \/ InWakeList(t)' => ~notified'[t]
                BY <1>0, <1>3, <2>1, <2>2 DEF WaiterState
            <4>3. QED
                BY <1>0, <2>1, <3>1, <3>2, <4>1, <4>2 DEF WaiterState
        <3>3. CASE ret[t] = "idle"
            <4>1. t # x /\ t \notin Range(q) /\ ~InWakeList(t) /\ ~notified[t]
                BY <1>0, <1>3, <2>2, <3>3 DEF WaiterState
            <4>2. QED
                BY <1>0, <2>1, <3>1, <3>3, <4>1 DEF WaiterState
        <3>4. QED
            BY <3>2, <3>3 DEF TypeOK
    <2>5. QED
        BY <2>3, <2>4
<1>11. QED
    BY <1>7, <1>8, <1>9, <1>10 DEF WakeAcct


(* The holder of QUEUE_LOCKED in unpark moves threads from the list into   *)
(* its own wake list, which is empty, and goes on to unpark_waiters (the   *)
(* wake-all moves the whole list, in walking order).  The moved            *)
(* threads other than the holder are parked or waking others, since only   *)
(* the holder runs link_queue_or_unpark or unpark.                         *)
LEMMA MoveToWake ==
    ASSUME IInv, WakeAcct, NEW t \in Threads, pc[t] = "unpark",
           NEW w \in Seq(Threads), IsInjective(w),
           q' \in Seq(Threads), IsInjective(q'),
           Range(q) = Range(q') \cup Range(w), Range(q') \cap Range(w) = {},
           towake' = [towake EXCEPT ![t] = w],
           pc' = [pc EXCEPT ![t] = "unpark_waiters"],
           notified' = notified, ret' = ret
    PROVE  WakeAcct'
<1> USE DEF IInv, CoreInv
<1>0. /\ towake[t] = <<>> /\ ~InWakeList(t) /\ ~notified[t]
      /\ \A u \in Threads \ {t} : ~QLHolder(u)
    <2>1. towake[t] = <<>> /\ ~InWakeList(t) /\ ~notified[t]
        BY DEF WakeAcct, WaiterState
    <2>2. QLHolder(t)
        BY DEF QLHolder
    <2>3. QED
        BY <2>1, <2>2, OnlyHolder
<1>1. \A y \in Threads : InWakeList(y)' <=> InWakeList(y) \/ y \in Range(w)
    <2>1. ASSUME NEW y \in Threads, InWakeList(y)' PROVE InWakeList(y) \/ y \in Range(w)
        <3>1. PICK u \in Threads : y \in Range(towake'[u])
            BY <2>1 DEF InWakeList
        <3>2. QED
            BY <3>1 DEF InWakeList, TypeOK
    <2>2. ASSUME NEW y \in Threads, InWakeList(y) PROVE InWakeList(y)'
        <3>1. PICK u \in Threads : y \in Range(towake[u])
            BY <2>2 DEF InWakeList
        <3>2. u # t
            BY <1>0, <3>1, EmptyList
        <3>3. QED
            BY <3>1, <3>2 DEF InWakeList, TypeOK
    <2>3. ASSUME NEW y \in Range(w) PROVE InWakeList(y)'
        BY DEF InWakeList, TypeOK
    <2>4. QED
        BY <2>1, <2>2, <2>3
<1>2. \A y \in Threads : Accounted(y)' <=> Accounted(y)
    BY <1>1 DEF Accounted
<1>3. ListsDisjoint'
    <2>1. \A u \in Threads : IsInjective(towake'[u])
        BY DEF WakeAcct, ListsDisjoint, TypeOK
    <2>2. \A y \in Threads : y \in Range(q') => ~InWakeList(y)'
        BY <1>1 DEF WakeAcct, ListsDisjoint
    <2>3. ASSUME NEW u \in Threads, NEW v \in Threads, u # v
          PROVE  Range(towake'[u]) \cap Range(towake'[v]) = {}
        <3>1. \A y \in Range(w) : ~InWakeList(y)
            <4>1. Range(w) \subseteq Range(q)
                OBVIOUS
            <4>2. Range(q) \subseteq Threads
                BY LenProperties DEF Range, TypeOK
            <4>3. QED
                BY <4>1, <4>2 DEF WakeAcct, ListsDisjoint
        <3>2. CASE u = t
            BY <2>3, <3>1, <3>2 DEF InWakeList, TypeOK
        <3>3. CASE v = t
            BY <2>3, <3>1, <3>3 DEF InWakeList, TypeOK
        <3>4. CASE u # t /\ v # t
            BY <2>3, <3>4 DEF WakeAcct, ListsDisjoint, TypeOK
        <3>5. QED
            BY <3>2, <3>3, <3>4
    <2>4. QED
        BY <2>1, <2>2, <2>3 DEF ListsDisjoint
<1>4. ASSUME NEW y \in Threads \ {t} PROVE WaiterState(y)'
    <2>1. /\ pc'[y] = pc[y] /\ towake'[y] = towake[y]
          /\ WaiterState(y) /\ (Accounted(y)' <=> Accounted(y))
        BY <1>2 DEF WakeAcct, TypeOK
    <2>2. CASE y \in Range(w)
        <3>1. /\ y \in Range(q) /\ y \notin Range(q') /\ ~InWakeList(y)
              /\ ~notified[y] /\ ret[y] = "park" /\ pc[y] \in InLock
            BY <2>1, <2>2 DEF WakeAcct, ListsDisjoint, WaiterState, InLock
        <3>2. pc[y] \in {"park", "unpark_waiters"}
            BY <1>0, <3>1 DEF QLHolder, InLock
        <3>3. QED
            BY <1>1, <2>1, <3>1, <3>2 DEF WaiterState
    <2>3. CASE y \notin Range(w)
        <3>1. (y \in Range(q') => y \in Range(q)) /\ (InWakeList(y)' <=> InWakeList(y))
            BY <1>1, <2>3
        <3>2. QED
            BY <2>1, <3>1 DEF WaiterState
    <2>4. QED
        BY <2>2, <2>3
<1>5. WaiterState(t)'
    <2>1. WaiterState(t) /\ pc'[t] = "unpark_waiters"
        BY DEF WakeAcct, TypeOK
    <2>2. t \in Range(q') \/ InWakeList(t)' => t \in Range(q)
        BY <1>0, <1>1
    <2>3. ret[t] = "park" => Accounted(t)'
        BY <1>2, <2>1 DEF WaiterState
    <2>4. QED
        BY <1>0, <2>1, <2>2, <2>3 DEF WaiterState
<1>6. QED
    BY <1>3, <1>4, <1>5 DEF WakeAcct


(* unpark keeps WakeAcct: it gives QUEUE_LOCKED up by CAS while the lock  *)
(* is held, moves the whole list into its wake list,                      *)
(* or refreshes its state.                                                 *)
LEMMA UnparkWake ==
    ASSUME IInv, WakeAcct, NEW t \in Threads, Unpark(t)
    PROVE  WakeAcct'
<1> USE DEF IInv, CoreInv
<1>0. /\ pc[t] = "unpark" /\ UNCHANGED <<notified, ret>>
      /\ q \in Seq(Threads) /\ IsInjective(q)
    BY DEF Unpark, TypeOK, WakeAcct, ListsDisjoint
<1>1. CASE ~LockFree(st[t]) /\ word = st[t]
    <2>1. pc' = [pc EXCEPT ![t] = ret[t]] /\ UNCHANGED <<q, towake>>
        BY <1>1 DEF Unpark
    <2>2. QED
        BY <1>0, <2>1, LeaveQueueLock DEF TypeOK
<1>2. CASE ~LockFree(st[t]) /\ word # st[t]
    BY <1>0, <1>2, WakeUnchanged DEF Unpark
<1>3. CASE LockFree(st[t]) /\ word = st[t]
    <2>1. /\ q' = <<>>
          /\ towake' = [towake EXCEPT ![t] = Reverse(q)]
          /\ pc' = [pc EXCEPT ![t] = "unpark_waiters"]
        BY <1>3 DEF Unpark, WakeOrder
    <2>2. /\ Reverse(q) \in Seq(Threads)
          /\ Range(Reverse(q)) = Range(q) /\ IsInjective(Reverse(q))
        BY <1>0, ReverseType, ReverseList
    <2>3. <<>> \in Seq(Threads) /\ Range(<<>>) = {} /\ IsInjective(<<>>)
        BY EmptyList
    <2>4. QED
        BY <1>0, <2>1, <2>2, <2>3, MoveToWake
<1>4. CASE LockFree(st[t]) /\ word # st[t]
    BY <1>0, <1>4, WakeUnchanged DEF Unpark
<1>5. QED
    BY <1>1, <1>2, <1>3, <1>4


(* Every step of the lock and a stutter preserve WakeAcct.                 *)
THEOREM NextWakeAcct == IInv /\ WakeAcct /\ [Next]_vars => WakeAcct'
<1> SUFFICES ASSUME IInv, WakeAcct, [Next]_vars PROVE WakeAcct'
    OBVIOUS
<1>1. CASE UNCHANGED vars
    BY <1>1, WakeUnchanged DEF vars
<1>2. ASSUME NEW t \in Threads, LockExclusive(t) \/ LockShared(t) \/ Relock(t)
      PROVE  WakeAcct'
    BY <1>2, LockWake DEF LockExclusive, LockShared, Relock
<1>3. QED
    BY <1>1, <1>2, ParkWake, LinkQueueOrUnparkWake, UnparkWake,
       UnparkWaitersWake, UnlockExclusiveSlowWake, ReleaseWake DEF Next

(* Initially every list is empty, no token is pending and every thread is  *)
(* idle.                                                                   *)
THEOREM InitWakeAcct == Init => WakeAcct
<1> SUFFICES ASSUME Init PROVE WakeAcct
    OBVIOUS
<1>1. q = <<>> /\ \A u \in Threads : towake[u] = <<>>
    BY DEF Init
<1>2. \A u \in Threads : ~InWakeList(u)
    BY <1>1, EmptyList DEF InWakeList
<1>3. ListsDisjoint
    BY <1>1, <1>2, EmptyList DEF ListsDisjoint
<1>4. \A u \in Threads : WaiterState(u)
    BY <1>1, <1>2, EmptyList DEF Init, WaiterState
<1>5. QED
    BY <1>3, <1>4 DEF WakeAcct

(* IInv and WakeAcct hold in every reachable state.                        *)
THEOREM WakeAcctInvariant == Spec => [](IInv /\ WakeAcct)
BY InitIInv, NextIInv, InitWakeAcct, NextWakeAcct, PTL DEF Spec

(* No waiter is lost or woken twice, for every set of threads and either  *)
(* writer flag: the waiter list and the wake lists hold each thread once   *)
(* and never share one, a queued or waking thread has no pending token and *)
(* has not left lock(), and a parked thread is queued, about to be woken   *)
(* by unpark_waiters, or holds its token (lock(), unpark and              *)
(* unpark_waiters; rwlock.rs 384-433, 511-575).                          *)
THEOREM WaitersAccountedInvariant == Spec => []WaitersAccounted
<1>1. WakeAcct => WaitersAccounted
    BY DEF WakeAcct, ListsDisjoint, WaiterState, Accounted, WaitersAccounted
<1>2. QED
    BY <1>1, WakeAcctInvariant, PTL


-----------------------------------------------------------------------------
(* A queued waiter is never forgotten: while the list is non-empty the     *)
(* lock or QUEUE_LOCKED is held, a writer is on its way to its slow path,  *)
(* a thread is retrying lock(), a wake list is being walked or a token is  *)
(* pending (WakeupPending).  Its strengthening adds that a thread in       *)
(* unpark_waiters still has threads to wake.                               *)
WakerBusy == \A t \in Threads : pc[t] = "unpark_waiters" => towake[t] # <<>>

PendInv == WakeupPending /\ WakerBusy

(* A push on a word without QUEUED finds the lock held: a word without     *)
(* LOCKED and QUEUED is UNLOCKED, on which try_lock always applies when   *)
(* the crate is built with hardware-lock-elision.                          *)
LEMMA PushLocked ==
    ASSUME IInv, LockElision, NEW m \in {"X", "S"}, ~TryLockApplies(m, word),
           ~word.queued
    PROVE  word.locked
<1> USE DEF IInv, CoreInv
<1> SUFFICES ASSUME ~word.locked PROVE FALSE
    OBVIOUS
<1>1. ~word.reading /\ ~word.qlocked /\ word.head = NoWaiter
    BY DEF LockWordShape
<1>2. word.cnt = 0
    <2>1. Readers = {} /\ word.cnt = Cardinality(Readers)
        BY HolderFacts DEF ReaderCount, Readers
    <2>2. QED
        BY <2>1, FS_EmptySet
<1>3. word = UNLOCKED
    BY <1>1, <1>2 DEF TypeOK, Word, UNLOCKED
<1>4. QED
    BY <1>3 DEF TryLockApplies, TryLockExclusive, TryLockShared, UNLOCKED

(* A step that keeps the word, the lists and the tokens and moves one      *)
(* thread that was no witness of WakeupPending keeps WakeupPending.        *)
LEMMA PendFrame ==
    ASSUME WakeupPending, NEW t \in Threads,
           pc[t] \notin {"unlock_exclusive_slow", "locking", "park"},
           word' = word, q' = q, towake' = towake, notified' = notified,
           \A u \in Threads \ {t} : pc'[u] = pc[u]
    PROVE  WakeupPending'
BY DEF WakeupPending


(* A non-empty list reversed, or with more than one element popped, is     *)
(* non-empty.                                                              *)
LEMMA NonEmptyList ==
    ASSUME NEW S, NEW s \in Seq(S), s # <<>>
    PROVE  Reverse(s) # <<>> /\ (Len(s) # 1 => Tail(s) # <<>>)
<1>1. Len(s) \in Nat /\ Len(s) > 0
    BY EmptySeq, LenProperties
<1>2. DOMAIN Reverse(s) = 1 .. Len(s)
    BY DEF Reverse
<1>3. Reverse(s) # <<>>
    BY <1>1, <1>2
<1>4. Len(s) # 1 => Tail(s) # <<>>
    <2>1. Len(Tail(s)) = Len(s) - 1 /\ Tail(s) \in Seq(S)
        BY <1>1, HeadTailProperties
    <2>2. QED
        BY <1>1, <2>1, EmptySeq
<1>5. QED
    BY <1>3, <1>4

(* A step that keeps the wake lists and moves one thread t out of          *)
(* unpark_waiters or keeps it out keeps WakerBusy.                         *)
LEMMA BusyFrame ==
    ASSUME WakerBusy, NEW t \in Threads, pc'[t] # "unpark_waiters",
           towake' = towake, \A u \in Threads \ {t} : pc'[u] = pc[u]
    PROVE  WakerBusy'
BY DEF WakerBusy


(* A word with LOCKED or QUEUE_LOCKED set is a witness of WakeupPending.   *)
LEMMA PendByWord ==
    ASSUME word'.locked \/ word'.qlocked
    PROVE  WakeupPending'
BY DEF WakeupPending

(* A pass of lock() keeps PendInv: the acquire sets LOCKED; the push sets  *)
(* QUEUE_LOCKED on a queued word and otherwise found LOCKED set.           *)
LEMMA LockPend ==
    ASSUME IInv, PendInv, LockElision, NEW t \in Threads, NEW m \in {"X", "S"},
           pc[t] \in {"idle", "locking"}, Lock(t, m)
    PROVE  PendInv'
<1> USE DEF IInv, CoreInv
<1>1. WakeupPending'
    <2>1. CASE TryLockApplies(m, word)
        <3>1. word' = Acquired(m, word)
            BY <2>1 DEF Lock
        <3>2. word'.locked
            BY <3>1 DEF Acquired, LockBts, TypeOK, Word
        <3>3. QED
            BY <3>2, PendByWord
    <2>2. CASE ~TryLockApplies(m, word)
        <3>1. word' = Enqueued(t, word)
            BY <2>2 DEF Lock
        <3>2. word'.qlocked = (word.qlocked \/ word.queued) /\ word'.locked = word.locked
            BY <3>1 DEF Enqueued, TypeOK, Word
        <3>3. word.queued \/ word.locked
            BY <2>2, PushLocked
        <3>4. QED
            BY <3>2, <3>3, PendByWord
    <2>3. QED
        BY <2>1, <2>2
<1>2. WakerBusy'
    <2>1. /\ pc'[t] \in {"holding", "link_queue_or_unpark", "park"}
          /\ \A u \in Threads \ {t} : pc'[u] = pc[u]
          /\ towake' = towake
        BY DEF Lock, TypeOK
    <2>2. QED
        BY <2>1, BusyFrame DEF PendInv
<1>3. QED
    BY <1>1, <1>2 DEF PendInv

(* park returns into the outer loop of lock(), a witness itself.           *)
LEMMA ParkPend ==
    ASSUME IInv, PendInv, NEW t \in Threads, Park(t)
    PROVE  PendInv'
<1>1. /\ pc' = [pc EXCEPT ![t] = "locking"] /\ towake' = towake
      /\ pc \in [Threads -> PCs]
    BY DEF Park, IInv, CoreInv, TypeOK
<1>2. WakeupPending'
    BY <1>1 DEF WakeupPending
<1>3. WakerBusy'
    BY <1>1, BusyFrame DEF PendInv
<1>4. QED
    BY <1>2, <1>3 DEF PendInv

(* link_queue_or_unpark holds QUEUE_LOCKED, and gives it up only by a CAS  *)
(* on a word that has LOCKED set.                                          *)
LEMMA LinkQueueOrUnparkPend ==
    ASSUME IInv, PendInv, NEW t \in Threads, LinkQueueOrUnpark(t)
    PROVE  PendInv'
<1> USE DEF IInv, CoreInv
<1>0. /\ word.qlocked /\ word \in Word /\ towake' = towake
      /\ pc'[t] # "unpark_waiters" /\ \A u \in Threads \ {t} : pc'[u] = pc[u]
    BY DEF LinkQueueOrUnpark, QueueLockHeld, QLHolder, TypeOK
<1>1. WakeupPending'
    <2>1. CASE ~LockFree(st[t]) /\ word = st[t]
        <3>1. word' = [word EXCEPT !.qlocked = FALSE] /\ word.locked
            BY <2>1 DEF LinkQueueOrUnpark, LockFree
        <3>2. QED
            BY <1>0, <3>1, PendByWord
    <2>2. CASE ~(~LockFree(st[t]) /\ word = st[t])
        <3>1. word' = word
            BY <2>2 DEF LinkQueueOrUnpark
        <3>2. QED
            BY <1>0, <3>1, PendByWord
    <2>3. QED
        BY <2>1, <2>2
<1>2. QED
    BY <1>0, <1>1, BusyFrame DEF PendInv


(* unpark holds QUEUE_LOCKED; it gives it up by a CAS on a word with       *)
(* LOCKED set, or by the wake-all, which empties the list into its wake    *)
(* list.                                                                   *)
LEMMA UnparkPend ==
    ASSUME IInv, PendInv, NEW t \in Threads, Unpark(t)
    PROVE  PendInv'
<1> USE DEF IInv, CoreInv
<1>0. /\ word.qlocked /\ word \in Word /\ q # <<>> /\ q \in Seq(Threads)
      /\ pc \in [Threads -> PCs] /\ towake \in [Threads -> Seq(Threads)]
      /\ \A u \in Threads \ {t} : pc'[u] = pc[u] /\ towake'[u] = towake[u]
    BY DEF Unpark, QueueLockHeld, QLHolder, LockWordShape, TypeOK
<1>1. CASE ~LockFree(st[t]) /\ word = st[t]
    <2>1. /\ word' = [word EXCEPT !.qlocked = FALSE] /\ word.locked
          /\ pc'[t] # "unpark_waiters" /\ towake' = towake
        BY <1>1 DEF Unpark, LockFree, TypeOK
    <2>2. QED
        BY <1>0, <2>1, PendByWord, BusyFrame DEF PendInv
<1>2. CASE LockFree(st[t]) /\ word = st[t]
    <2>1. /\ q' = <<>> /\ towake'[t] = Reverse(q) /\ pc'[t] = "unpark_waiters"
        BY <1>0, <1>2 DEF Unpark, WakeOrder
    <2>2. Reverse(q) # <<>>
        BY <1>0, NonEmptyList
    <2>3. WakeupPending'
        BY <2>1 DEF WakeupPending
    <2>4. WakerBusy'
        BY <1>0, <2>1, <2>2 DEF PendInv, WakerBusy
    <2>5. QED
        BY <2>3, <2>4 DEF PendInv
<1>3. CASE word # st[t]
    <2>1. UNCHANGED <<word, pc, towake>>
        BY <1>3 DEF Unpark
    <2>2. QED
        BY <1>0, <2>1, PendByWord DEF PendInv, WakerBusy
<1>4. QED
    BY <1>1, <1>2, <1>3

(* unpark_waiters keeps a thread to wake while its list has more than one, *)
(* and its last wake-up leaves a witness: the woken thread parked with its *)
(* token, or itself walking a wake list.                                   *)
LEMMA UnparkWaitersPend ==
    ASSUME IInv, WakeAcct, PendInv, NEW t \in Threads, UnparkWaiters(t)
    PROVE  PendInv'
<1> USE DEF IInv, CoreInv
<1>a. PICK x \in Threads : x = Head(towake[t])
    BY HeadTailProperties DEF UnparkWaiters, TypeOK
<1>0. /\ pc[t] = "unpark_waiters" /\ towake[t] # <<>> /\ towake[t] \in Seq(Threads)
      /\ notified' = [notified EXCEPT ![x] = TRUE]
      /\ towake' = [towake EXCEPT ![t] = Tail(towake[t])]
      /\ pc' = [pc EXCEPT ![t] = IF Len(towake[t]) = 1 THEN ret[t]
                                  ELSE "unpark_waiters"]
      /\ pc \in [Threads -> PCs] /\ ret \in [Threads -> {"park", "idle"}]
      /\ towake \in [Threads -> Seq(Threads)] /\ notified \in [Threads -> BOOLEAN]
    BY <1>a DEF UnparkWaiters, TypeOK
<1>1. CASE Len(towake[t]) # 1
    <2>1. Tail(towake[t]) # <<>>
        BY <1>0, <1>1, NonEmptyList
    <2>2. towake'[t] # <<>> /\ pc'[t] = "unpark_waiters"
        BY <1>0, <1>1, <2>1
    <2>3. WakeupPending'
        BY <2>2 DEF WakeupPending
    <2>4. WakerBusy'
        BY <1>0, <2>2 DEF PendInv, WakerBusy
    <2>5. QED
        BY <2>3, <2>4 DEF PendInv
<1>2. CASE Len(towake[t]) = 1
    <2>1. /\ pc[x] \in {"park", "unpark_waiters"} /\ ret[x] = "park"
          /\ (pc[x] = "unpark_waiters" => towake[x] # <<>>)
        <3>1. InWakeList(x)
            BY <1>0, <1>a, PopList DEF InWakeList
        <3>2. QED
            BY <3>1 DEF WakeAcct, WaiterState, PendInv, WakerBusy
    <2>2. pc'[t] = ret[t] /\ pc'[t] # "unpark_waiters" /\ notified'[x]
        BY <1>0, <1>2
    <2>3. WakeupPending'
        <3>1. CASE x = t
            <4>1. pc'[x] = "park"
                BY <2>1, <2>2, <3>1
            <4>2. QED
                BY <2>2, <4>1 DEF WakeupPending
        <3>2. CASE x # t /\ pc[x] = "park"
            <4>1. pc'[x] = "park"
                BY <1>0, <3>2
            <4>2. QED
                BY <2>2, <4>1 DEF WakeupPending
        <3>3. CASE x # t /\ pc[x] = "unpark_waiters"
            <4>1. towake'[x] # <<>>
                BY <1>0, <2>1, <3>3
            <4>2. QED
                BY <4>1 DEF WakeupPending
        <3>4. QED
            BY <2>1, <3>1, <3>2, <3>3
    <2>4. WakerBusy'
        BY <1>0, <2>2 DEF PendInv, WakerBusy
    <2>5. QED
        BY <2>3, <2>4 DEF PendInv
<1>3. QED
    BY <1>1, <1>2


(* The releases keep PendInv: unlock_exclusive clears LOCKED only to enter *)
(* its slow path, or when QUEUE_LOCKED is held or no waiter is queued;     *)
(* unlock_exclusive_slow returns only on such a word; the reader releases  *)
(* clear LOCKED only without waiters.                                      *)
LEMMA ReleasePend ==
    ASSUME IInv, PendInv, NEW t \in Threads,
           \/ UnlockExclusive(t) \/ UnlockExclusiveSlow(t)
           \/ UnlockShared(t) \/ UnlockSharedSlow(t)
    PROVE  PendInv'
<1> USE DEF IInv, CoreInv
<1>0. /\ q' = q /\ towake' = towake /\ notified' = notified /\ word \in Word
      /\ pc[t] \in {"holding", "unlock_exclusive_slow", "unlock_shared_slow"}
      /\ pc'[t] \in {"idle", "unlock_exclusive_slow", "unpark", "unlock_shared_slow"}
      /\ \A u \in Threads \ {t} : pc'[u] = pc[u]
      /\ (q # <<>> <=> word.queued)
    BY DEF UnlockExclusive, UnlockExclusiveSlow, UnlockShared, UnlockSharedSlow,
       TypeOK, LockWordShape
<1>1. WakerBusy'
    BY <1>0, BusyFrame DEF PendInv
<1>2. ASSUME UnlockExclusive(t) PROVE WakeupPending'
    <2>1. CASE NeedsUnpark(word)
        BY <1>0, <1>2, <2>1 DEF UnlockExclusive, WakeupPending
    <2>2. CASE ~NeedsUnpark(word)
        <3>1. word' = Released(word)
            BY <1>2 DEF UnlockExclusive
        <3>2. word.queued => word'.qlocked
            BY <1>0, <2>2, <3>1 DEF NeedsUnpark, Released
        <3>3. QED
            BY <1>0, <3>2 DEF WakeupPending
    <2>3. QED
        BY <2>1, <2>2
<1>3. ASSUME UnlockExclusiveSlow(t) PROVE WakeupPending'
    <2>1. CASE SlowPathApplies(word)
        <3>1. word' = [word EXCEPT !.qlocked = TRUE]
            BY <1>3, <2>1 DEF UnlockExclusiveSlow
        <3>2. QED
            BY <1>0, <3>1, PendByWord
    <2>2. CASE ~SlowPathApplies(word)
        <3>1. word' = word
            BY <1>3, <2>2 DEF UnlockExclusiveSlow
        <3>2. word.queued => word.locked \/ word.qlocked
            BY <2>2 DEF SlowPathApplies
        <3>3. QED
            BY <1>0, <3>1, <3>2 DEF WakeupPending
    <2>3. QED
        BY <2>1, <2>2
<1>4. ASSUME UnlockShared(t), ~word.queued PROVE WakeupPending'
    BY <1>0, <1>4 DEF WakeupPending
<1>5. ASSUME (UnlockShared(t) /\ word.queued) \/ UnlockSharedSlow(t)
      PROVE  WakeupPending'
    <2>1. word' = word /\ pc[t] \in {"holding", "unlock_shared_slow"}
        BY <1>5 DEF UnlockShared, UnlockSharedSlow
    <2>2. QED
        BY <1>0, <2>1, PendFrame DEF PendInv
<1>6. QED
    BY <1>1, <1>2, <1>3, <1>4, <1>5 DEF PendInv


(* Every step of the lock and a stutter preserve PendInv.                  *)
THEOREM NextPendInv ==
    ASSUME LockElision
    PROVE  IInv /\ WakeAcct /\ PendInv /\ [Next]_vars => PendInv'
<1> SUFFICES ASSUME IInv, WakeAcct, PendInv, [Next]_vars PROVE PendInv'
    OBVIOUS
<1>1. CASE UNCHANGED vars
    BY <1>1 DEF vars, PendInv, WakeupPending, WakerBusy
<1>2. ASSUME NEW t \in Threads, LockExclusive(t) \/ LockShared(t) \/ Relock(t)
      PROVE  PendInv'
    <2>1. mode[t] \in {"X", "S"}
        BY DEF IInv, CoreInv, TypeOK
    <2>2. QED
        BY <1>2, <2>1, LockPend DEF LockExclusive, LockShared, Relock
<1>3. QED
    BY <1>1, <1>2, ParkPend, LinkQueueOrUnparkPend, UnparkPend,
       UnparkWaitersPend, ReleasePend DEF Next

(* Initially the list is empty and nobody walks a wake list.               *)
THEOREM InitPendInv == Init => PendInv
BY DEF Init, PendInv, WakeupPending, WakerBusy

(* IInv, WakeAcct and PendInv hold in every reachable state.               *)
THEOREM PendInvInvariant ==
    ASSUME LockElision
    PROVE  Spec => [](IInv /\ WakeAcct /\ PendInv)
<1>1. IInv /\ WakeAcct /\ PendInv /\ [Next]_vars => PendInv'
    BY NextPendInv
<1>2. QED
    BY <1>1, InitIInv, NextIInv, InitWakeAcct, NextWakeAcct, InitPendInv,
       PTL DEF Spec

(* No queued waiter is forgotten, for every set of threads and both modes, *)
(* in the build with hardware-lock-elision (without it a reader parks on   *)
(* an unlocked lock, run rw_default_build): while the list is non-empty,   *)
(* LOCKED or QUEUE_LOCKED is set, a writer is on its way into              *)
(* unlock_exclusive_slow, a thread is retrying lock(), a wake list is      *)
(* being walked or a parked thread holds its token.  In particular the     *)
(* last wake-up of unpark_waiters and the fetch_sub of unlock_exclusive    *)
(* never leave the list without one of them.                               *)
THEOREM WakeupPendingInvariant ==
    ASSUME LockElision
    PROVE  Spec => []WakeupPending
<1>1. Spec => [](IInv /\ WakeAcct /\ PendInv)
    BY PendInvInvariant
<1>2. QED
    BY <1>1, PTL DEF PendInv


-----------------------------------------------------------------------------
(* LOCKED is set only while a thread holds the lock, when every thread     *)
(* locks exclusively (Modes = {"X"}).  With readers it fails: the last     *)
(* reader of a queued lock leaves LOCKED set (run rw_reader_release_stuck).*)

\* Each thread's mode is one the configuration allows.
ModesInv == \A t \in Threads : mode[t] \in Modes

\* LOCKED is set only while some thread is in a holding pc.
LockedHeld == word.locked => \E t \in Threads : pc[t] \in HoldPCs

(* A step of lock() leaves a thread in a mode of Modes.                    *)
THEOREM NextModesInv == ModesInv /\ [Next]_vars => ModesInv'
<1> SUFFICES ASSUME ModesInv, [Next]_vars PROVE ModesInv'
    OBVIOUS
<1>1. ASSUME NEW t \in Threads, NEW m \in Modes, Lock(t, m) PROVE ModesInv'
    BY <1>1 DEF Lock, ModesInv
<1>2. ASSUME NEW t \in Threads, LockExclusive(t) \/ LockShared(t) \/ Relock(t)
      PROVE  ModesInv'
    BY <1>1, <1>2 DEF LockExclusive, LockShared, Relock, ModesInv
<1>3. QED
    BY <1>2 DEF Next, vars, ModesInv, Park, LinkQueueOrUnpark, Unpark,
       UnparkWaiters, UnlockExclusive, UnlockExclusiveSlow, UnlockShared,
       UnlockSharedSlow

(* Initially every thread has the mode Init chooses from Modes.            *)
THEOREM InitModesInv == Init => ModesInv
BY ModesAssumption DEF Init, ModesInv

(* A step that keeps LOCKED and moves one thread that holds the lock       *)
(* neither before nor after it keeps LockedHeld.                           *)
LEMMA LockedFrame ==
    ASSUME LockedHeld, NEW t \in Threads, word'.locked = word.locked,
           pc[t] \notin HoldPCs, pc'[t] \notin HoldPCs,
           \A u \in Threads \ {t} : pc'[u] = pc[u]
    PROVE  LockedHeld'
BY DEF LockedHeld


(* With writers only, every step keeps LockedHeld: an acquire makes a      *)
(* holder, unlock_exclusive clears LOCKED as its holder leaves, no reader  *)
(* release can run, and every other step keeps LOCKED and the holders.     *)
THEOREM NextLockedHeld ==
    ASSUME Modes = {"X"}
    PROVE  IInv /\ ModesInv /\ LockedHeld /\ [Next]_vars => LockedHeld'
<1> SUFFICES ASSUME IInv, ModesInv, LockedHeld, [Next]_vars PROVE LockedHeld'
    OBVIOUS
<1> USE DEF IInv, CoreInv
<1>0. word \in Word /\ pc \in [Threads -> PCs] /\ ret \in [Threads -> {"park", "idle"}]
    BY DEF TypeOK
<1>1. CASE UNCHANGED vars
    BY <1>1 DEF vars, LockedHeld
<1>2. ASSUME NEW t \in Threads, NEW m, pc[t] \in {"idle", "locking"}, Lock(t, m)
      PROVE  LockedHeld'
    <2>1. CASE TryLockApplies(m, word)
        <3>1. pc'[t] = "holding"
            BY <1>0, <1>2, <2>1 DEF Lock
        <3>2. QED
            BY <3>1 DEF LockedHeld, HoldPCs
    <2>2. CASE ~TryLockApplies(m, word)
        <3>1. word'.locked = word.locked /\ pc'[t] \in {"link_queue_or_unpark", "park"}
              /\ \A u \in Threads \ {t} : pc'[u] = pc[u]
            <4>1. word' = Enqueued(t, word)
                  /\ pc' = [pc EXCEPT ![t] = IF word.queued /\ ~word.qlocked
                                             THEN "link_queue_or_unpark" ELSE "park"]
                BY <1>2, <2>2 DEF Lock
            <4>2. QED
                BY <1>0, <4>1 DEF Enqueued, Word
        <3>2. QED
            BY <1>2, <3>1, LockedFrame DEF HoldPCs
    <2>3. QED
        BY <2>1, <2>2
<1>3. ASSUME NEW t \in Threads, LockExclusive(t) \/ LockShared(t) \/ Relock(t)
      PROVE  LockedHeld'
    BY <1>2, <1>3 DEF LockExclusive, LockShared, Relock
<1>4. ASSUME NEW t \in Threads,
             \/ Park(t) \/ LinkQueueOrUnpark(t) \/ Unpark(t) \/ UnparkWaiters(t)
             \/ UnlockExclusiveSlow(t)
      PROVE  LockedHeld'
    <2>1. /\ pc[t] \notin HoldPCs /\ pc'[t] \notin HoldPCs
          /\ \A u \in Threads \ {t} : pc'[u] = pc[u]
        BY <1>0, <1>4 DEF Park, LinkQueueOrUnpark, Unpark, UnparkWaiters,
           UnlockExclusiveSlow, HoldPCs
    <2>2. word'.locked = word.locked
        BY <1>0, <1>4 DEF Park, LinkQueueOrUnpark, Unpark, UnparkWaiters,
           UnlockExclusiveSlow, Word
    <2>3. QED
        BY <2>1, <2>2, LockedFrame
<1>5. ASSUME NEW t \in Threads, UnlockExclusive(t) PROVE LockedHeld'
    BY <1>0, <1>5 DEF UnlockExclusive, Released, LockedHeld
<1>6. ASSUME NEW t \in Threads, UnlockShared(t) \/ UnlockSharedSlow(t) PROVE FALSE
    <2>1. mode[t] = "S"
        BY <1>6 DEF UnlockShared, UnlockSharedSlow, ReleaseTailInv
    <2>2. QED
        BY <2>1 DEF ModesInv
<1>7. QED
    BY <1>1, <1>3, <1>4, <1>5, <1>6 DEF Next

(* Initially LOCKED is clear.                                              *)
THEOREM InitLockedHeld == Init => LockedHeld
BY DEF Init, LockedHeld, UNLOCKED


(* When every thread locks exclusively, for every set of threads, LOCKED   *)
(* is set only while some thread holds the lock: unlock_exclusive's        *)
(* fetch_sub(LOCKED) always clears it, whatever the waiters do (rwlock.rs  *)
(* unlock_exclusive and lock_exclusive_slow).                              *)
THEOREM LockedOnlyWhileHeldWriters ==
    ASSUME Modes = {"X"}
    PROVE  Spec => []LockedOnlyWhileHeld
<1>1. IInv /\ ModesInv /\ LockedHeld => LockedOnlyWhileHeld
    <2> SUFFICES ASSUME IInv, ModesInv, LockedHeld, word.locked
                 PROVE  Holders("X") \cup Holders("S") # {}
        BY DEF LockedOnlyWhileHeld
    <2>1. PICK t \in Threads : pc[t] \in HoldPCs
        BY DEF LockedHeld
    <2>2. t \in Holders("X")
        BY <2>1 DEF ModesInv, Holders, HoldPCs
    <2>3. QED
        BY <2>2
<1>2. Init => IInv /\ ModesInv /\ LockedHeld
    BY InitIInv, InitModesInv, InitLockedHeld
<1>3. IInv /\ ModesInv /\ LockedHeld /\ [Next]_vars
         => (IInv /\ ModesInv /\ LockedHeld)'
    BY NextIInv, NextModesInv, NextLockedHeld
<1>4. QED
    BY <1>1, <1>2, <1>3, PTL DEF Spec


====
