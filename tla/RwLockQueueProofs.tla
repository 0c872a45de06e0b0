------------------------- MODULE RwLockQueueProofs -------------------------
(***************************************************************************)
(* Proofs about RwLock's QUEUE_LOCKED protocol, for every set of threads   *)
(* and every reader bound: QUEUE_LOCKED is a lock owned by the one thread  *)
(* in link_queue_or_unpark or unpark, and the assert!s of the code never   *)
(* fire.                                                                   *)
(*                                                                         *)
(* Both rest on IInv of RwLockProofs and on QueueLockInv, which says what  *)
(* IInv leaves out: a set QUEUE_LOCKED always has its holder (it is only   *)
(* set by the push CAS or unlock_exclusive_slow, which then go on to       *)
(* link_queue_or_unpark or unpark, and every step that leaves them clears  *)
(* it), and the local `state` of that holder shows QUEUED and QUEUE_LOCKED *)
(* (it is only ever refreshed from the word while the holder owns it).     *)
(*                                                                         *)
(* It also holds the lemmas about the list operations (push, pop and the   *)
(* reversal) that RwLockWakeProofs builds on.                              *)
(***************************************************************************)
EXTENDS RwLockProofs

-----------------------------------------------------------------------------
(* Lemmas about the list operations the waiter list and the wake lists are *)
(* built with: which threads a list holds (Range) and that it holds each   *)
(* at most once (IsInjective), after a push, a pop and the reversal of    *)
(* unpark_waiters.                                                         *)

LEMMA EmptyList ==
    Range(<<>>) = {} /\ IsInjective(<<>>)
BY DEF Range, IsInjective

LEMMA SingletonList ==
    ASSUME NEW x
    PROVE  Range(<<x>>) = {x} /\ IsInjective(<<x>>)
BY DEF Range, IsInjective

(* lock()'s push: the new head joins the list.                             *)
LEMMA PushList ==
    ASSUME NEW S, NEW s \in Seq(S), NEW x \in S
    PROVE  /\ Range(<<x>> \o s) = {x} \cup Range(s)
           /\ IsInjective(s) /\ x \notin Range(s) => IsInjective(<<x>> \o s)
<1>1. /\ Len(<<x>> \o s) = Len(s) + 1
      /\ (<<x>> \o s)[1] = x
      /\ \A i \in 2 .. Len(s) + 1 : (<<x>> \o s)[i] = s[i - 1]
      /\ DOMAIN (<<x>> \o s) = 1 .. Len(s) + 1
    BY ConcatProperties, LenProperties
<1>2. Range(<<x>> \o s) = {x} \cup Range(s)
    <2>1. DOMAIN s = 1 .. Len(s) /\ Len(s) \in Nat
        BY LenProperties
    <2>2. ASSUME NEW y \in Range(<<x>> \o s) PROVE y \in {x} \cup Range(s)
        <3>1. PICK i \in 1 .. Len(s) + 1 : y = (<<x>> \o s)[i]
            BY <1>1 DEF Range
        <3>2. CASE i = 1
            BY <1>1, <3>1, <3>2
        <3>3. CASE i # 1
            <4>1. i - 1 \in DOMAIN s /\ y = s[i - 1]
                BY <1>1, <2>1, <3>1, <3>3
            <4>2. QED
                BY <4>1 DEF Range
        <3>4. QED
            BY <3>2, <3>3
    <2>3. x \in Range(<<x>> \o s)
        BY <1>1 DEF Range
    <2>4. ASSUME NEW y \in Range(s) PROVE y \in Range(<<x>> \o s)
        <3>1. PICK j \in 1 .. Len(s) : y = s[j]
            BY <2>1 DEF Range
        <3>2. j + 1 \in DOMAIN (<<x>> \o s) /\ (<<x>> \o s)[j + 1] = y
            BY <1>1, <2>1, <3>1
        <3>3. QED
            BY <3>2 DEF Range
    <2>5. QED
        BY <2>2, <2>3, <2>4
<1>3. IsInjective(s) /\ x \notin Range(s) => IsInjective(<<x>> \o s)
    <2>1. DOMAIN s = 1 .. Len(s) /\ Len(s) \in Nat
        BY LenProperties
    <2>2. QED
        BY <1>1, <2>1 DEF Range, IsInjective
<1>4. QED
    BY <1>2, <1>3

(* unpark_waiters' step: the head leaves the wake list.                    *)
LEMMA PopList ==
    ASSUME NEW S, NEW s \in Seq(S), s # <<>>
    PROVE  /\ Range(s) = {Head(s)} \cup Range(Tail(s))
           /\ IsInjective(s) => IsInjective(Tail(s)) /\ Head(s) \notin Range(Tail(s))
<1>1. /\ Len(s) \in Nat /\ Len(s) > 0 /\ DOMAIN s = 1 .. Len(s)
      /\ Len(Tail(s)) = Len(s) - 1 /\ DOMAIN Tail(s) = 1 .. Len(s) - 1
      /\ Head(s) = s[1]
      /\ \A i \in 1 .. Len(s) - 1 : Tail(s)[i] = s[i + 1]
    BY HeadTailProperties, LenProperties, EmptySeq
<1>2. Range(s) = {Head(s)} \cup Range(Tail(s))
    <2>1. ASSUME NEW y \in Range(s) PROVE y \in {Head(s)} \cup Range(Tail(s))
        <3>1. PICK i \in 1 .. Len(s) : y = s[i]
            BY <1>1 DEF Range
        <3>2. CASE i = 1
            BY <1>1, <3>1, <3>2
        <3>3. CASE i # 1
            <4>1. i - 1 \in DOMAIN Tail(s) /\ Tail(s)[i - 1] = y
                BY <1>1, <3>1, <3>3
            <4>2. QED
                BY <4>1 DEF Range
        <3>4. QED
            BY <3>2, <3>3
    <2>2. Head(s) \in Range(s)
        BY <1>1 DEF Range
    <2>3. ASSUME NEW y \in Range(Tail(s)) PROVE y \in Range(s)
        <3>1. PICK j \in 1 .. Len(s) - 1 : y = Tail(s)[j]
            BY <1>1 DEF Range
        <3>2. j + 1 \in DOMAIN s /\ s[j + 1] = y
            BY <1>1, <3>1
        <3>3. QED
            BY <3>2 DEF Range
    <2>4. QED
        BY <2>1, <2>2, <2>3
<1>3. IsInjective(s) => IsInjective(Tail(s)) /\ Head(s) \notin Range(Tail(s))
    BY <1>1 DEF Range, IsInjective
<1>4. QED
    BY <1>2, <1>3

(* unpark_waiters walks the list from the tail: the same threads, each     *)
(* once.                                                                   *)
LEMMA ReverseList ==
    ASSUME NEW S, NEW s \in Seq(S)
    PROVE  /\ Range(Reverse(s)) = Range(s)
           /\ IsInjective(s) => IsInjective(Reverse(s))
<1>1. Len(s) \in Nat /\ DOMAIN s = 1 .. Len(s)
    BY LenProperties
<1>2. \A i \in 1 .. Len(s) : (Len(s) - i) + 1 \in 1 .. Len(s)
    BY <1>1
<1>3. \A j \in 1 .. Len(s) : \E i \in 1 .. Len(s) : j = (Len(s) - i) + 1
    <2> SUFFICES ASSUME NEW j \in 1 .. Len(s)
                 PROVE  \E i \in 1 .. Len(s) : j = (Len(s) - i) + 1
        OBVIOUS
    <2>1. (Len(s) - j) + 1 \in 1 .. Len(s) /\ j = (Len(s) - ((Len(s) - j) + 1)) + 1
        BY <1>1
    <2>2. QED
        BY <2>1
<1>4. DOMAIN Reverse(s) = 1 .. Len(s)
      /\ \A i \in 1 .. Len(s) : Reverse(s)[i] = s[(Len(s) - i) + 1]
    BY DEF Reverse
<1>5. Range(Reverse(s)) = Range(s)
    <2>1. ASSUME NEW y \in Range(Reverse(s)) PROVE y \in Range(s)
        <3>1. PICK i \in 1 .. Len(s) : y = Reverse(s)[i]
            BY <1>4 DEF Range
        <3>2. QED
            BY <1>1, <1>2, <1>4, <3>1 DEF Range
    <2>2. ASSUME NEW y \in Range(s) PROVE y \in Range(Reverse(s))
        <3>1. PICK j \in 1 .. Len(s) : y = s[j]
            BY <1>1 DEF Range
        <3>2. PICK i \in 1 .. Len(s) : j = (Len(s) - i) + 1
            BY <1>3
        <3>3. Reverse(s)[i] = y
            BY <1>4, <3>1, <3>2
        <3>4. QED
            BY <1>4, <3>3 DEF Range
    <2>3. QED
        BY <2>1, <2>2
<1>6. IsInjective(s) => IsInjective(Reverse(s))
    BY <1>1, <1>2, <1>4 DEF IsInjective
<1>7. QED
    BY <1>5, <1>6

-----------------------------------------------------------------------------
QueueLockInv ==
    /\ word.qlocked => \E t \in Threads : QLHolder(t)
    /\ \A t \in Threads : QLHolder(t) => st[t].queued /\ st[t].qlocked


-----------------------------------------------------------------------------
(* A step that keeps QUEUE_LOCKED, the set of its holders and the holders' *)
(* local states keeps QueueLockInv.                                        *)
LEMMA QueueLockFrame ==
    ASSUME QueueLockInv,
           word'.qlocked = word.qlocked,
           \A u \in Threads : QLHolder(u)' <=> QLHolder(u),
           \A u \in Threads : QLHolder(u) => st'[u] = st[u]
    PROVE  QueueLockInv'
BY DEF QueueLockInv

(* A step that leaves QUEUE_LOCKED clear and nobody in link_queue_or_unpark *)
(* or unpark keeps QueueLockInv.                                           *)
LEMMA QueueLockFree ==
    ASSUME ~word'.qlocked, \A u \in Threads : ~QLHolder(u)'
    PROVE  QueueLockInv'
BY DEF QueueLockInv

(* The holder of QUEUE_LOCKED is the only thread that can be it.           *)
LEMMA OnlyHolder ==
    ASSUME CoreInv, NEW t \in Threads, QLHolder(t)
    PROVE  \A u \in Threads \ {t} : ~QLHolder(u)
BY DEF CoreInv, QueueLockHeld

(* A step of lock() keeps QueueLockInv: the push CAS takes QUEUE_LOCKED    *)
(* exactly when it goes on to link_queue_or_unpark, with that word as its  *)
(* local state; an acquire and any other push leave QUEUE_LOCKED alone.    *)
LEMMA LockQueueLock ==
    ASSUME IInv, QueueLockInv, NEW t \in Threads, NEW m,
           pc[t] \in {"idle", "locking"}, Lock(t, m)
    PROVE  QueueLockInv'
<1> USE DEF IInv, CoreInv
<1>0. ~QLHolder(t) /\ \A u \in Threads \ {t} : pc'[u] = pc[u]
    BY DEF Lock, QLHolder, TypeOK
<1>1. CASE TryLockApplies(m, word)
    <2>1. word'.qlocked = word.qlocked /\ pc'[t] = "holding" /\ st' = st
        BY <1>1 DEF Lock, Acquired, LockBts, TypeOK, Word
    <2>2. QED
        BY <1>0, <2>1, QueueLockFrame DEF QLHolder
<1>2. CASE ~TryLockApplies(m, word)
    <2>1. /\ word' = Enqueued(t, word)
          /\ st' = [st EXCEPT ![t] = Enqueued(t, word)]
          /\ pc' = [pc EXCEPT ![t] = IF word.queued /\ ~word.qlocked
                                     THEN "link_queue_or_unpark" ELSE "park"]
        BY <1>2 DEF Lock
    <2>2. CASE word.queued /\ ~word.qlocked
        <3>1. ~\E u \in Threads : QLHolder(u)
            BY <2>2 DEF QueueLockHeld
        <3>2. word'.qlocked /\ st'[t].queued /\ st'[t].qlocked /\ QLHolder(t)'
            BY <2>1, <2>2 DEF Enqueued, TypeOK, Word, QLHolder
        <3>3. \A u \in Threads : QLHolder(u)' => u = t
            BY <1>0, <3>1 DEF QLHolder
        <3>4. QED
            BY <3>2, <3>3 DEF QueueLockInv
    <2>3. CASE ~(word.queued /\ ~word.qlocked)
        <3>1. word'.qlocked = word.qlocked
            BY <2>1, <2>3 DEF Enqueued, TypeOK, Word, LockWordShape
        <3>2. pc'[t] = "park"
            BY <2>1, <2>3 DEF TypeOK
        <3>3. \A u \in Threads : QLHolder(u) => st'[u] = st[u]
            BY <1>0, <2>1 DEF TypeOK
        <3>4. QED
            BY <1>0, <3>1, <3>2, <3>3, QueueLockFrame DEF QLHolder
    <2>4. QED
        BY <2>2, <2>3
<1>3. QED
    BY <1>1, <1>2


(* The holder's failed CAS refreshes its local state from the word, which  *)
(* it owns: the new state shows QUEUED and QUEUE_LOCKED.                   *)
LEMMA RefreshQueueLock ==
    ASSUME IInv, QueueLockInv, NEW t \in Threads, QLHolder(t),
           st' = [st EXCEPT ![t] = word], UNCHANGED <<word, pc>>
    PROVE  QueueLockInv'
<1> USE DEF IInv, CoreInv
<1>1. word.qlocked /\ word.queued
    BY DEF QueueLockHeld
<1>2. QED
    BY <1>1 DEF QueueLockInv, QLHolder, TypeOK

(* The holder gives QUEUE_LOCKED up and leaves: no holder is left.         *)
LEMMA ReleaseQueueLock ==
    ASSUME IInv, NEW t \in Threads, QLHolder(t),
           ~word'.qlocked, ~QLHolder(t)',
           \A u \in Threads \ {t} : pc'[u] = pc[u]
    PROVE  QueueLockInv'
BY OnlyHolder, QueueLockFree DEF IInv, QLHolder

(* link_queue_or_unpark keeps QueueLockInv: it goes on to unpark, gives    *)
(* QUEUE_LOCKED up by CAS, or refreshes its state.                         *)
LEMMA LinkQueueOrUnparkQueueLock ==
    ASSUME IInv, QueueLockInv, NEW t \in Threads, LinkQueueOrUnpark(t)
    PROVE  QueueLockInv'
<1>0. QLHolder(t) /\ ret[t] \in {"park", "idle"}
    BY DEF LinkQueueOrUnpark, QLHolder, IInv, CoreInv, TypeOK
<1>1. CASE LockFree(st[t])
    <2>1. UNCHANGED <<word, st>> /\ pc' = [pc EXCEPT ![t] = "unpark"]
        BY <1>1 DEF LinkQueueOrUnpark
    <2>2. \A u \in Threads : QLHolder(u)' <=> QLHolder(u)
        BY <1>0, <2>1 DEF QLHolder, IInv, CoreInv, TypeOK
    <2>3. QED
        BY <2>1, <2>2, QueueLockFrame
<1>2. CASE ~LockFree(st[t]) /\ word = st[t]
    <2>1. word' = [word EXCEPT !.qlocked = FALSE] /\ pc' = [pc EXCEPT ![t] = ret[t]]
        BY <1>2 DEF LinkQueueOrUnpark
    <2>2. QED
        BY <1>0, <2>1, ReleaseQueueLock DEF IInv, CoreInv, TypeOK, Word, QLHolder
<1>3. CASE ~LockFree(st[t]) /\ word # st[t]
    BY <1>0, <1>3, RefreshQueueLock DEF LinkQueueOrUnpark
<1>4. QED
    BY <1>1, <1>2, <1>3

(* unpark keeps QueueLockInv: every branch that leaves clears QUEUE_LOCKED *)
(* (the CAS while the lock is held, the CAS of the wake-all), and a      *)
(* failed CAS refreshes the state.                                         *)
LEMMA UnparkQueueLock ==
    ASSUME IInv, QueueLockInv, NEW t \in Threads, Unpark(t)
    PROVE  QueueLockInv'
<1>0. QLHolder(t) /\ ret[t] \in {"park", "idle"} /\ word \in Word
    BY DEF Unpark, QLHolder, IInv, CoreInv, TypeOK
<1>1. CASE ~LockFree(st[t]) /\ word = st[t]
    <2>1. word' = [word EXCEPT !.qlocked = FALSE] /\ pc' = [pc EXCEPT ![t] = ret[t]]
        BY <1>1 DEF Unpark
    <2>2. QED
        BY <1>0, <2>1, ReleaseQueueLock DEF IInv, CoreInv, TypeOK, Word, QLHolder
<1>2. CASE ~LockFree(st[t]) /\ word # st[t]
    BY <1>0, <1>2, RefreshQueueLock DEF Unpark
<1>3. CASE LockFree(st[t]) /\ word = st[t]
    <2>1. word' = [word EXCEPT !.queued = FALSE, !.qlocked = FALSE,
                               !.cnt = 0, !.head = NoWaiter]
          /\ pc' = [pc EXCEPT ![t] = "unpark_waiters"]
        BY <1>3 DEF Unpark
    <2>2. QED
        BY <1>0, <2>1, ReleaseQueueLock DEF IInv, CoreInv, TypeOK, Word, QLHolder
<1>4. CASE LockFree(st[t]) /\ word # st[t]
    BY <1>0, <1>4, RefreshQueueLock DEF Unpark
<1>5. QED
    BY <1>1, <1>2, <1>3, <1>4


(* unlock_exclusive_slow takes QUEUE_LOCKED only on a word where it was    *)
(* clear, so nobody held it, and goes on to unpark with that word as its   *)
(* state; when the word changed under it, it returns.                      *)
LEMMA UnlockExclusiveSlowQueueLock ==
    ASSUME IInv, QueueLockInv, NEW t \in Threads, UnlockExclusiveSlow(t)
    PROVE  QueueLockInv'
<1> USE DEF IInv, CoreInv
<1>0. ~QLHolder(t) /\ \A u \in Threads \ {t} : pc'[u] = pc[u] /\ st'[u] = st[u]
    BY DEF UnlockExclusiveSlow, QLHolder, TypeOK
<1>1. CASE SlowPathApplies(word)
    <2>1. /\ word' = [word EXCEPT !.qlocked = TRUE]
          /\ st' = [st EXCEPT ![t] = [word EXCEPT !.qlocked = TRUE]]
          /\ pc' = [pc EXCEPT ![t] = "unpark"]
        BY <1>1 DEF UnlockExclusiveSlow
    <2>2. ~\E u \in Threads : QLHolder(u)
        BY <1>1 DEF SlowPathApplies, QueueLockHeld
    <2>3. word'.qlocked /\ st'[t].queued /\ st'[t].qlocked /\ QLHolder(t)'
        BY <1>1, <2>1 DEF SlowPathApplies, TypeOK, Word, QLHolder
    <2>4. \A u \in Threads : QLHolder(u)' => u = t
        BY <1>0, <2>2 DEF QLHolder
    <2>5. QED
        BY <2>3, <2>4 DEF QueueLockInv
<1>2. CASE ~SlowPathApplies(word)
    <2>1. UNCHANGED <<word, st>> /\ pc' = [pc EXCEPT ![t] = "idle"]
        BY <1>2 DEF UnlockExclusiveSlow
    <2>2. \A u \in Threads : QLHolder(u)' <=> QLHolder(u)
        BY <1>0, <2>1 DEF QLHolder, TypeOK
    <2>3. QED
        BY <2>1, <2>2, QueueLockFrame
<1>3. QED
    BY <1>1, <1>2

(* The steps of a thread that neither holds QUEUE_LOCKED nor takes it:    *)
(* park, unpark_waiters, the releases.  unlock_exclusive's fetch_sub and   *)
(* unlock_shared's CAS change LOCKED and the count only.                   *)
LEMMA OtherQueueLock ==
    ASSUME IInv, QueueLockInv, NEW t \in Threads,
           \/ Park(t) \/ UnparkWaiters(t) \/ UnlockSharedSlow(t)
           \/ UnlockExclusive(t) \/ UnlockShared(t)
    PROVE  QueueLockInv'
<1> USE DEF IInv, CoreInv
<1>1. ret[t] \in {"park", "idle"} /\ word \in Word
    BY DEF TypeOK
<1>2. ~QLHolder(t) /\ ~QLHolder(t)' /\ st' = st
      /\ \A u \in Threads \ {t} : pc'[u] = pc[u]
    BY <1>1 DEF Park, UnparkWaiters, UnlockSharedSlow, UnlockExclusive,
       UnlockShared, QLHolder, TypeOK
<1>3. word'.qlocked = word.qlocked
    <2>1. CASE UnlockShared(t) /\ ~word.queued
        <3>2. word' = ReaderReleased(word)
            BY <2>1 DEF UnlockShared
        <3>3. ReaderReleased(word).qlocked = word.qlocked
            <4>1. CASE word = SINGLE_READER
                BY <4>1 DEF ReaderReleased, UNLOCKED, SINGLE_READER
            <4>2. CASE word # SINGLE_READER
                <5>1. ReaderReleased(word) = [word EXCEPT !.cnt = @ - 1]
                    BY <4>2 DEF ReaderReleased
                <5>2. QED
                    BY <1>1, <5>1 DEF Word
            <4>3. QED
                BY <4>1, <4>2
        <3>4. QED
            BY <3>2, <3>3
    <2>2. CASE ~(UnlockShared(t) /\ ~word.queued)
        BY <1>1, <2>2 DEF Park, UnparkWaiters, UnlockSharedSlow,
           UnlockExclusive, UnlockShared, Released, Word
    <2>3. QED
        BY <2>1, <2>2
<1>4. \A u \in Threads : QLHolder(u)' <=> QLHolder(u)
    BY <1>2 DEF QLHolder
<1>5. QED
    BY <1>2, <1>3, <1>4, QueueLockFrame

(* Every step of the lock and a stutter preserve QueueLockInv.             *)
THEOREM NextQueueLockInv == IInv /\ QueueLockInv /\ [Next]_vars => QueueLockInv'
<1> SUFFICES ASSUME IInv, QueueLockInv, [Next]_vars PROVE QueueLockInv'
    OBVIOUS
<1>1. CASE UNCHANGED vars
    BY <1>1 DEF vars, QueueLockInv, QLHolder
<1>2. ASSUME NEW t \in Threads, LockExclusive(t) \/ LockShared(t) \/ Relock(t)
      PROVE  QueueLockInv'
    BY <1>2, LockQueueLock DEF LockExclusive, LockShared, Relock
<1>3. QED
    BY <1>1, <1>2, LinkQueueOrUnparkQueueLock, UnparkQueueLock,
       UnlockExclusiveSlowQueueLock, OtherQueueLock DEF Next

(* The initial word has QUEUE_LOCKED clear and no thread owns it.          *)
THEOREM InitQueueLockInv == Init => QueueLockInv
BY DEF Init, QueueLockInv, QLHolder, UNLOCKED

(* IInv and QueueLockInv hold in every reachable state.                    *)
THEOREM QueueLockInvInvariant == Spec => [](IInv /\ QueueLockInv)
BY InitIInv, NextIInv, InitQueueLockInv, NextQueueLockInv, PTL DEF Spec


-----------------------------------------------------------------------------
(* QUEUE_LOCKED is a lock: for every set of threads it is set exactly      *)
(* while one thread runs link_queue_or_unpark or unpark, and only on a     *)
(* word with a waiter list.  So the list's links are only ever repaired,   *)
(* and waiters only ever taken off it, by one thread at a time.            *)
THEOREM QueueLockOwnerInvariant == Spec => []QueueLockOwner
<1>1. IInv /\ QueueLockInv => QueueLockOwner
    <2> SUFFICES ASSUME IInv, QueueLockInv PROVE QueueLockOwner
        OBVIOUS
    <2> USE DEF IInv, CoreInv
    <2>1. word.qlocked => word.queued
        BY DEF LockWordShape
    <2>2. CASE word.qlocked
        <3>1. PICK t \in Threads : QLHolder(t)
            BY <2>2 DEF QueueLockInv
        <3>2. QueueLockHolders = {t}
            BY <3>1, OnlyHolder DEF QueueLockHolders, QLHolder
        <3>3. QED
            BY <2>1, <2>2, <3>2, FS_Singleton DEF QueueLockOwner
    <2>3. CASE ~word.qlocked
        <3>1. QueueLockHolders = {}
            BY <2>3 DEF QueueLockHolders, QueueLockHeld, QLHolder
        <3>2. QED
            BY <2>1, <2>3, <3>1, FS_EmptySet DEF QueueLockOwner
    <2>4. QED
        BY <2>2, <2>3
<1>2. QED
    BY <1>1, QueueLockInvInvariant, PTL

(* A reader that holds the lock is counted: the word has LOCKED and        *)
(* READING, and the count, in the word or in the tail's counter, is not 0. *)
LEMMA ReaderCounted ==
    ASSUME IInv, NEW t \in Readers
    PROVE  /\ word.locked /\ word.reading
           /\ ~word.queued => word.cnt # 0
           /\ word.queued => counter[Last(q)] # 0
<1> USE DEF IInv, CoreInv
<1>1. word.locked /\ word.reading /\ IsFiniteSet(Readers)
    BY HolderFacts
<1>2. Cardinality(Readers) # 0
    BY <1>1, FS_EmptySet
<1>3. QED
    BY <1>1, <1>2 DEF ReaderCount, Readers

(* The code's assert!s never fire, for every set of threads: the QUEUED   *)
(* and QUEUE_LOCKED asserts of link_queue_or_unpark and unpark (488-489,  *)
(* 513-514), the LOCKED and READING asserts of the releases (164-165,     *)
(* 330-332), and the non-zero reader counts of unlock_shared_slow          *)
(* (359-361, 367): a fetch_sub never takes a counter below one reader.     *)
THEOREM CodeAssertionsInvariant == Spec => []CodeAssertions
<1>1. IInv /\ QueueLockInv => CodeAssertions
    <2> SUFFICES ASSUME IInv, QueueLockInv, NEW t \in Threads
                 PROVE  /\ pc[t] \in {"link_queue_or_unpark", "unpark"} =>
                             st[t].queued /\ st[t].qlocked
                        /\ pc[t] = "holding" /\ mode[t] = "X" =>
                             word.locked /\ ~word.reading
                        /\ pc[t] = "holding" /\ mode[t] = "S" =>
                             /\ word.locked /\ word.reading
                             /\ ~word.queued => word.cnt # 0
                             /\ word.queued => counter[Last(q)] # 0
                        /\ pc[t] = "unlock_shared_slow" => counter[tail[t]] # 0
        BY DEF CodeAssertions
    <2> USE DEF IInv, CoreInv
    <2>1. pc[t] \in {"link_queue_or_unpark", "unpark"} => st[t].queued /\ st[t].qlocked
        BY DEF QueueLockInv, QLHolder
    <2>2. pc[t] = "holding" /\ mode[t] = "X" => word.locked /\ ~word.reading
        BY DEF WriterAlone, Writers, Holders
    <2>3. pc[t] = "holding" /\ mode[t] = "S" =>
              /\ word.locked /\ word.reading
              /\ ~word.queued => word.cnt # 0
              /\ word.queued => counter[Last(q)] # 0
        BY ReaderCounted DEF Readers, Holders
    <2>4. ASSUME pc[t] = "unlock_shared_slow" PROVE counter[tail[t]] # 0
        <3>1. mode[t] = "S" /\ q # <<>> /\ tail[t] = Last(q)
            BY <2>4 DEF ReleaseTailInv
        <3>2. t \in Readers
            BY <2>4, <3>1 DEF Readers, Holders
        <3>3. word.queued
            BY <3>1 DEF LockWordShape
        <3>4. QED
            BY <3>1, <3>2, <3>3, ReaderCounted
    <2>5. QED
        BY <2>1, <2>2, <2>3, <2>4
<1>2. QED
    BY <1>1, QueueLockInvInvariant, PTL

=============================================================================
