------------------------------- MODULE RwLock -------------------------------
(***************************************************************************)
(* The queued reader-writer lock of src/rwlock.rs (RawRwLock).             *)
(*                                                                         *)
(* The lock word packs LOCKED, READING, QUEUED, QUEUE_LOCKED and, above    *)
(* READER_SHIFT, either the reader count (QUEUED clear) or the address of  *)
(* the newest Waiter (QUEUED set).  It is modelled as a record with one    *)
(* field per bit field; the CAS of the code compares whole records.        *)
(*                                                                         *)
(* The intrusive waiter list (next/prev/tail links repaired by             *)
(* Waiter::get_and_link_queue, in the shared module that is not part of    *)
(* this repository's sources) is abstracted to the sequence q of waiting   *)
(* threads, newest first: Head(q) is the head the word points to, Last(q)  *)
(* the tail get_and_link_queue returns.                                    *)
(*                                                                         *)
(* Build modelled: x86_64 with the hardware-lock-elision feature, the only *)
(* build in which READING is ever set (without it try_lock_shared_         *)
(* uncontended returns None and no reader can take an unlocked lock), with *)
(* the fetch_sub version of unlock_exclusive (the spec's choice of the two *)
(* x86 versions).  A load followed by a CAS loop whose expected value is   *)
(* the last load is one atomic step at the instant of the successful CAS; *)
(* a spurious compare_exchange_weak failure is a stutter.                  *)
(***************************************************************************)
EXTENDS Naturals, Sequences, SequencesExt, FiniteSets

CONSTANTS
    Threads,            \* the threads that use the lock
    NoWaiter,           \* the null head pointer
    ReaderMax,          \* usize::MAX >> READER_SHIFT: the largest reader count
    Modes,              \* the lock operations the threads call: "X", "S"
    LockElision         \* the crate is built with hardware-lock-elision

ASSUME ThreadsAssumption == IsFiniteSet(Threads) /\ Threads # {}
ASSUME NoWaiterAssumption == NoWaiter \notin Threads
ASSUME ReaderMaxAssumption == ReaderMax \in Nat \ {0}
ASSUME ModesAssumption == Modes \subseteq {"X", "S"} /\ Modes # {}
ASSUME LockElisionAssumption == LockElision \in BOOLEAN

VARIABLES
    word,       \* RawRwLock::state
    q,          \* the waiter list, newest (head) first
    counter,    \* Waiter::counter of each thread's waiter
    notified,   \* each thread's Parker holds an unpark token
    pc,         \* where each thread is
    mode,       \* "X" or "S": the acquisition a thread is making or holds
    st,         \* the local `state` of unpark / link_queue_or_unpark
    ret,        \* where unpark returns to: "park" (lock) or "idle" (unlock)
    towake,     \* the waiters unpark_waiters still has to unpark, in order
    tail        \* the tail unlock_shared_slow got from get_and_link_queue

vars == <<word, q, counter, notified, pc, mode, st, ret, towake, tail>>

PCs == {"idle", "locking", "park", "link_queue_or_unpark", "unpark",
        "unpark_waiters", "holding", "unlock_exclusive_slow",
        "unlock_shared_slow"}

Word == [locked : BOOLEAN, reading : BOOLEAN, queued : BOOLEAN,
         qlocked : BOOLEAN, cnt : 0..ReaderMax, head : Threads \cup {NoWaiter}]

UNLOCKED == [locked |-> FALSE, reading |-> FALSE, queued |-> FALSE,
             qlocked |-> FALSE, cnt |-> 0, head |-> NoWaiter]

SINGLE_READER == [locked |-> TRUE, reading |-> TRUE, queued |-> FALSE,
                  qlocked |-> FALSE, cnt |-> 1, head |-> NoWaiter]

-----------------------------------------------------------------------------
\* Plausible bugs, each the replacement of the definition that follows it.
(* The try_lock closure of lock_exclusive_slow: an attempt is made        *)
(* (Some) whenever LOCKED is clear.                                        *)
TryLockExclusive(w) == ~w.locked

TryLockSharedUnchecked(w) ==                \* no checked_add overflow test
    (w = UNLOCKED /\ LockElision) \/ (w.locked /\ w.reading /\ ~w.queued)
TryLockSharedLockedOnly(w) ==               \* READING not tested
    (w = UNLOCKED /\ LockElision) \/ (w.locked /\ ~w.queued /\ w.cnt < ReaderMax)

(* try_lock_shared_assuming, the closure of lock_shared_slow: an attempt   *)
(* is made on an unlocked word (by try_lock_shared_uncontended, which      *)
(* returns None unless the crate is built with hardware-lock-elision), or  *)
(* on a read-locked word without waiters whose count can take one more.    *)
TryLockShared(w) ==
    \/ w = UNLOCKED /\ LockElision
    \/ /\ w.locked /\ w.reading /\ ~w.queued
       /\ w.cnt < ReaderMax             \* state.checked_add(1 << READER_SHIFT)

\* lock() calls the closure of its caller: TRUE when it returns Some.
TryLockApplies(m, w) ==
    IF m = "X" THEN TryLockExclusive(w) ELSE TryLockShared(w)

\* try_lock_exclusive on x86: lock bts sets LOCKED whatever the word holds.
LockBts(w) == [w EXCEPT !.locked = TRUE]

(* The word after a successful attempt: lock bts, or the shared acquire of *)
(* try_lock_shared_assuming (the xacquire cmpxchg UNLOCKED -> SINGLE_READER *)
(* or the CAS adding one reader).                                          *)
Acquired(m, w) ==
    IF m = "X"
    THEN LockBts(w)
    ELSE [w EXCEPT !.locked = TRUE, !.reading = TRUE, !.cnt = @ + 1]

\* QUEUE_LOCKED not added on a prepend (as in unpark_requeue, line 458).
EnqueuedNoQueueLock(t, w) ==
    [w EXCEPT !.queued = TRUE, !.cnt = 0, !.head = t]

\* new_state of the enqueue CAS in lock().
Enqueued(t, w) ==
    [w EXCEPT !.queued = TRUE, !.qlocked = w.qlocked \/ w.queued,
              !.cnt = 0, !.head = t]

SavedCountLost(w) == 0                      \* count not migrated

\* The reader count the first waiter saves in Waiter::counter.
SavedCount(w) == w.cnt

(* One pass of lock(): try_lock on the current word, or push the waiter    *)
(* and, when this push took QUEUE_LOCKED, link_queue_or_unpark; then park. *)
Lock(t, m) ==
    /\ mode' = [mode EXCEPT ![t] = m]
    /\ \/ /\ TryLockApplies(m, word)
          /\ word' = Acquired(m, word)
          /\ pc' = [pc EXCEPT ![t] = "holding"]
          /\ UNCHANGED <<q, counter, st, ret>>
       \/ /\ ~TryLockApplies(m, word)
          /\ word' = Enqueued(t, word)
          /\ q' = <<t>> \o q
          /\ counter' = IF word.queued THEN counter
                        ELSE [counter EXCEPT ![t] = SavedCount(word)]
          /\ pc' = [pc EXCEPT ![t] = IF word.queued /\ ~word.qlocked
                                     THEN "link_queue_or_unpark" ELSE "park"]
          /\ st' = [st EXCEPT ![t] = Enqueued(t, word)]
          /\ ret' = [ret EXCEPT ![t] = "park"]
    /\ UNCHANGED <<notified, towake, tail>>

LockExclusive(t) == pc[t] = "idle" /\ "X" \in Modes /\ Lock(t, "X")

LockShared(t) == pc[t] = "idle" /\ "S" \in Modes /\ Lock(t, "S")

\* The outer loop of lock() after park returned.
Relock(t) == pc[t] = "locking" /\ Lock(t, mode[t])

\* Parker::park(None): returns once an unpark token is present.
Park(t) ==
    /\ pc[t] = "park"
    /\ notified[t]
    /\ notified' = [notified EXCEPT ![t] = FALSE]
    /\ pc' = [pc EXCEPT ![t] = "locking"]
    /\ UNCHANGED <<word, q, counter, mode, st, ret, towake, tail>>

\* The test as is_locked_exclusive writes it: a read-locked lock counts as free.
LockFreeExclusiveMask(s) == ~(s.locked /\ ~s.reading)

\* state & LOCKED == 0: nobody holds the lock, in either mode.
LockFree(s) == ~s.locked

\* link_queue_or_unpark: unpark if the lock is free, else drop QUEUE_LOCKED.
LinkQueueOrUnpark(t) ==
    /\ pc[t] = "link_queue_or_unpark"
    /\ \/ /\ LockFree(st[t])
          /\ pc' = [pc EXCEPT ![t] = "unpark"]
          /\ UNCHANGED <<word, st>>
       \/ /\ ~LockFree(st[t])
          /\ IF word = st[t]
             THEN /\ word' = [word EXCEPT !.qlocked = FALSE]
                  /\ pc' = [pc EXCEPT ![t] = ret[t]]
                  /\ UNCHANGED st
             ELSE /\ st' = [st EXCEPT ![t] = word]
                  /\ UNCHANGED <<word, pc>>
    /\ UNCHANGED <<q, counter, notified, mode, ret, towake, tail>>

WakeOrderMissingHead(s) == Front(Reverse(s))  \* walk stops before the head

\* unpark_waiters walks from the tail along prev to the head.
WakeOrder(s) == Reverse(s)

(* unpark, holding QUEUE_LOCKED: if the lock is held drop QUEUE_LOCKED,    *)
(* else clear the list and wake it all.  The branch that wakes a writer at *)
(* the tail alone (lines 532-540) tests Waiter::flags, which lock() sets    *)
(* from is_writer, and both callers pass false (lines 150 and 286): it is  *)
(* never taken, and the model leaves it out.                               *)
Unpark(t) ==
    /\ pc[t] = "unpark"
    /\ \/ /\ ~LockFree(st[t])
          /\ IF word = st[t]
             THEN /\ word' = [word EXCEPT !.qlocked = FALSE]
                  /\ pc' = [pc EXCEPT ![t] = ret[t]]
                  /\ UNCHANGED st
             ELSE /\ st' = [st EXCEPT ![t] = word]
                  /\ UNCHANGED <<word, pc>>
          /\ UNCHANGED <<q, towake>>
       \/ /\ LockFree(st[t])
          /\ IF word = st[t]
             THEN /\ word' = [word EXCEPT !.queued = FALSE, !.qlocked = FALSE,
                                          !.cnt = 0, !.head = NoWaiter]
                  /\ q' = <<>>
                  /\ towake' = [towake EXCEPT ![t] = WakeOrder(q)]
                  /\ pc' = [pc EXCEPT ![t] = "unpark_waiters"]
                  /\ UNCHANGED st
             ELSE /\ st' = [st EXCEPT ![t] = word]
                  /\ UNCHANGED <<word, q, towake, pc>>
    /\ UNCHANGED <<counter, notified, mode, ret, tail>>

\* unpark_waiters: unpark each waiter from the tail along prev, one a step.
UnparkWaiters(t) ==
    /\ pc[t] = "unpark_waiters"
    /\ towake[t] # <<>>
    /\ notified' = [notified EXCEPT ![Head(towake[t])] = TRUE]
    /\ towake' = [towake EXCEPT ![t] = Tail(towake[t])]
    /\ pc' = [pc EXCEPT ![t] = IF Len(towake[t]) = 1 THEN ret[t]
                                ELSE "unpark_waiters"]
    /\ UNCHANGED <<word, q, counter, mode, st, ret, tail>>

\* The CAS(LOCKED, UNLOCKED) version: with waiters LOCKED is never cleared.
ReleasedCasVariant(w) == IF w.queued THEN w ELSE [w EXCEPT !.locked = FALSE]

\* The word after fetch_sub(LOCKED).
Released(w) == [w EXCEPT !.locked = FALSE]

NeedsUnparkSwapped(w) == w.queued /\ w.qlocked

\* state & (QUEUED | QUEUE_LOCKED) == QUEUED: nobody else will unpark.
NeedsUnpark(w) == w.queued /\ ~w.qlocked

\* unlock_exclusive: fetch_sub(LOCKED); the slow path if QUEUED alone was set.
UnlockExclusive(t) ==
    /\ pc[t] = "holding"
    /\ mode[t] = "X"
    /\ word' = Released(word)
    /\ pc' = [pc EXCEPT ![t] = IF NeedsUnpark(word)
                                THEN "unlock_exclusive_slow" ELSE "idle"]
    /\ ret' = [ret EXCEPT ![t] = "idle"]
    /\ UNCHANGED <<q, counter, notified, mode, st, towake, tail>>

SlowPathAppliesNoQueuedTest(w) == ~w.locked /\ ~w.qlocked

\* The loop test state & (LOCKED | QUEUED | QUEUE_LOCKED) == QUEUED.
SlowPathApplies(w) == ~w.locked /\ w.queued /\ ~w.qlocked

\* unlock_exclusive_slow: take QUEUE_LOCKED while only QUEUED is set, then unpark.
UnlockExclusiveSlow(t) ==
    /\ pc[t] = "unlock_exclusive_slow"
    /\ IF SlowPathApplies(word)
       THEN /\ word' = [word EXCEPT !.qlocked = TRUE]
            /\ st' = [st EXCEPT ![t] = [word EXCEPT !.qlocked = TRUE]]
            /\ pc' = [pc EXCEPT ![t] = "unpark"]
       ELSE /\ pc' = [pc EXCEPT ![t] = "idle"]
            /\ UNCHANGED <<word, st>>
    /\ UNCHANGED <<q, counter, notified, mode, ret, towake, tail>>

(* The reader release of a lock without waiters: the last reader's        *)
(* xrelease cmpxchg SINGLE_READER -> UNLOCKED (try_unlock_shared_          *)
(* uncontended), any other reader's CAS taking one off the count.          *)
ReaderReleased(w) ==
    IF w = SINGLE_READER THEN UNLOCKED ELSE [w EXCEPT !.cnt = @ - 1]

SlowTailHead(s) == Head(s)                  \* the head taken for the tail

\* The tail get_and_link_queue returns: the oldest waiter.
SlowTail(s) == Last(s)

(* unlock_shared: without waiters release on the word; with waiters take   *)
(* the tail from get_and_link_queue, run without QUEUE_LOCKED.             *)
UnlockShared(t) ==
    /\ pc[t] = "holding"
    /\ mode[t] = "S"
    /\ \/ /\ ~word.queued
          /\ word' = ReaderReleased(word)
          /\ pc' = [pc EXCEPT ![t] = "idle"]
          /\ UNCHANGED tail
       \/ /\ word.queued
          /\ tail' = [tail EXCEPT ![t] = SlowTail(q)]
          /\ pc' = [pc EXCEPT ![t] = "unlock_shared_slow"]
          /\ UNCHANGED word
    /\ UNCHANGED <<q, counter, notified, mode, st, ret, towake>>

(* unlock_shared_slow after the walk: fetch_sub on the tail's counter, and *)
(* return, since `readers > 0` holds for every usize that passed           *)
(* assert_ne!(readers, 0).                                                 *)
UnlockSharedSlow(t) ==
    /\ pc[t] = "unlock_shared_slow"
    /\ counter' = [counter EXCEPT ![tail[t]] = @ - 1]
    /\ pc' = [pc EXCEPT ![t] = "idle"]
    /\ tail' = [tail EXCEPT ![t] = NoWaiter]
    /\ UNCHANGED <<word, q, notified, mode, st, ret, towake>>

-----------------------------------------------------------------------------
Init ==
    /\ word = UNLOCKED
    /\ q = <<>>
    /\ counter = [t \in Threads |-> 0]
    /\ notified = [t \in Threads |-> FALSE]
    /\ pc = [t \in Threads |-> "idle"]
    /\ mode = [t \in Threads |-> CHOOSE m \in Modes : TRUE]
    /\ st = [t \in Threads |-> UNLOCKED]
    /\ ret = [t \in Threads |-> "idle"]
    /\ towake = [t \in Threads |-> <<>>]
    /\ tail = [t \in Threads |-> NoWaiter]

Next ==
    \E t \in Threads :
        \/ LockExclusive(t) \/ LockShared(t) \/ Relock(t) \/ Park(t)
        \/ LinkQueueOrUnpark(t) \/ Unpark(t) \/ UnparkWaiters(t)
        \/ UnlockExclusive(t) \/ UnlockExclusiveSlow(t) \/ UnlockShared(t)
        \/ UnlockSharedSlow(t)

Spec == Init /\ [][Next]_vars

-----------------------------------------------------------------------------
(* Every variable has its type; the reader count stays within the word.    *)
TypeOK ==
    /\ word \in Word
    /\ q \in Seq(Threads)
    /\ counter \in [Threads -> Nat]
    /\ notified \in [Threads -> BOOLEAN]
    /\ pc \in [Threads -> PCs]
    /\ mode \in [Threads -> {"X", "S"}]
    /\ st \in [Threads -> Word]
    /\ ret \in [Threads -> {"park", "idle"}]
    /\ towake \in [Threads -> Seq(Threads)]
    /\ tail \in [Threads -> Threads \cup {NoWaiter}]

(* The threads holding the lock in mode m: a reader holds it until its    *)
(* release has taken it off the count, in the word or in the tail.         *)
Holders(m) ==
    {t \in Threads : pc[t] \in {"holding", "unlock_shared_slow"} /\ mode[t] = m}

(* I1: a writer holds the lock alone: never with another writer, never     *)
(* with a reader (lock bts and the shared CAS against each other).         *)
MutualExclusion ==
    /\ Cardinality(Holders("X")) <= 1
    /\ Holders("X") # {} => Holders("S") = {}

(* I2: the reader count lives in the word while no waiter is queued and in *)
(* the tail waiter's counter once one is, and always equals the number of  *)
(* reading threads: the migration in lock() and the two release paths of   *)
(* unlock_shared never lose or double a reader.                            *)
ReaderCount ==
    /\ ~word.queued => word.cnt = Cardinality(Holders("S"))
    /\ word.queued /\ word.reading => counter[Last(q)] = Cardinality(Holders("S"))
    /\ ~word.reading => Holders("S") = {}

InWakeList(t) == \E u \in Threads : t \in Range(towake[u])

(* No waiter is lost or woken twice: a thread in the list or in a wake     *)
(* list has no pending token and has not left lock(); a parked thread is   *)
(* in the list, in a wake list or already holds its token; the list and    *)
(* the wake lists never share or repeat a thread (Waiter nodes are reused).*)
WaitersAccounted ==
    /\ IsInjective(q)
    /\ \A u \in Threads : IsInjective(towake[u])
    /\ \A t \in Threads :
         /\ t \in Range(q) \/ InWakeList(t) =>
              /\ ~notified[t]
              /\ pc[t] \in {"park", "link_queue_or_unpark", "unpark", "unpark_waiters"}
         /\ pc[t] = "park" => t \in Range(q) \/ InWakeList(t) \/ notified[t]
         /\ t \in Range(q) => ~InWakeList(t)
    /\ \A u, v \in Threads : u # v => Range(towake[u]) \cap Range(towake[v]) = {}

QueueLockHolders == {t \in Threads : pc[t] \in {"link_queue_or_unpark", "unpark"}}

(* QUEUE_LOCKED is a lock: it is set exactly while one thread runs         *)
(* link_queue_or_unpark or unpark, and only on a word with a waiter list. *)
QueueLockOwner ==
    /\ Cardinality(QueueLockHolders) = IF word.qlocked THEN 1 ELSE 0
    /\ word.qlocked => word.queued

(* The assert!s of the code never fire: lines 164-165, 330-332, 359-361,  *)
(* 367, 488-489 and 513-514, stated on the state each of them reads.       *)
CodeAssertions ==
    \A t \in Threads :
       /\ pc[t] \in {"link_queue_or_unpark", "unpark"} =>
            st[t].queued /\ st[t].qlocked
       /\ pc[t] = "holding" /\ mode[t] = "X" => word.locked /\ ~word.reading
       /\ pc[t] = "holding" /\ mode[t] = "S" =>
            /\ word.locked /\ word.reading
            /\ ~word.queued => word.cnt # 0
            /\ word.queued => counter[Last(q)] # 0
       /\ pc[t] = "unlock_shared_slow" => counter[tail[t]] # 0

(* Whenever a waiter is queued someone is bound to wake it: the lock or   *)
(* QUEUE_LOCKED is held, a writer is between fetch_sub and its slow path, *)
(* a thread is retrying lock(), or a wake-up is under way.                 *)
WakeupPending ==
    q # <<>> =>
        \/ word.locked
        \/ word.qlocked
        \/ \E t \in Threads :
              \/ pc[t] \in {"unlock_exclusive_slow", "locking"}
              \/ towake[t] # <<>>
              \/ pc[t] = "park" /\ notified[t]

(* LOCKED is set only while some thread holds the lock: the last release  *)
(* always clears it.                                                       *)
LockedOnlyWhileHeld == word.locked => Holders("X") \cup Holders("S") # {}

(* A reader's release with waiters finds the tail without QUEUE_LOCKED    *)
(* (line 364) and decrements its counter in a later step (line 366): in    *)
(* between, the tail it found is still the list's tail, so the fetch_sub   *)
(* never lands on a waiter that unpark has already taken off the list and  *)
(* woken (whose stack node may be gone).                                   *)
ReleaseTailCurrent ==
    \A t \in Threads :
        pc[t] = "unlock_shared_slow" => q # <<>> /\ tail[t] = Last(q)

-----------------------------------------------------------------------------
(* Fairness.  Every step a thread takes inside the lock code (retrying    *)
(* lock() after park, the CAS loops of link_queue_or_unpark, unpark and    *)
(* the slow release paths, unpark_waiters) is weakly fair: a running       *)
(* thread is not descheduled forever.  Park is weakly fair too, since the  *)
(* token stays until park consumes it.  A holder eventually releases (the *)
(* lock_api guards are dropped).  Calling lock_exclusive / lock_shared is *)
(* up to the user and carries no fairness.                                 *)
Fairness ==
    \A t \in Threads :
        /\ WF_vars(Relock(t)) /\ WF_vars(Park(t))
        /\ WF_vars(LinkQueueOrUnpark(t)) /\ WF_vars(Unpark(t))
        /\ WF_vars(UnparkWaiters(t)) /\ WF_vars(UnlockExclusiveSlow(t))
        /\ WF_vars(UnlockExclusive(t)) /\ WF_vars(UnlockShared(t))
        /\ WF_vars(UnlockSharedSlow(t))

FairSpec == Spec /\ Fairness

(* Deadlock freedom of the wake-up protocol: while a thread is parked in  *)
(* lock(), some thread eventually holds the lock; waiters never all sleep  *)
(* on a lock that nobody holds and nobody will release.                    *)
LockProgress ==
    (\E t \in Threads : pc[t] = "park") ~> (\E t \in Threads : pc[t] = "holding")

\* From some point on, no thread calls lock_exclusive or lock_shared again.
CallsStop ==
    <>[][\A t \in Threads : ~LockExclusive(t) /\ ~LockShared(t)]_vars

(* I3, no lost wake-up: once the threads stop calling lock_*, every thread *)
(* parked in lock() is eventually unparked and returns from park.  (While *)
(* calls go on, a thread that keeps relocking can make the unparking       *)
(* thread's CAS fail forever; weak fairness does not exclude that.)        *)
NoLostWakeup == CallsStop => \A t \in Threads : pc[t] = "park" ~> pc[t] = "locking"

=============================================================================
