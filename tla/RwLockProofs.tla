---------------------------- MODULE RwLockProofs ----------------------------
(***************************************************************************)
(* Proofs about RwLock for every set of threads and every reader bound:    *)
(* the type invariant, the reader count (I2), mutual exclusion (I1), and   *)
(* that a releasing reader's fetch_sub lands on the list's current tail.   *)
(*                                                                         *)
(* All rest on one inductive invariant IInv: the word's bit fields agree   *)
(* with each other and with the waiter list, QUEUE_LOCKED has one holder,  *)
(* a writer is alone, the reader count sits in the word or in the tail's   *)
(* counter, and a reader between its walk and its fetch_sub holds the     *)
(* list's tail.  Each action has a lemma that it preserves the invariant. *)
(***************************************************************************)
EXTENDS RwLock, TLAPS, FiniteSetTheorems, SequenceTheorems

Readers == Holders("S")
Writers == Holders("X")

\* The pcs of a thread that holds the lock.
HoldPCs == {"holding", "unlock_shared_slow"}

\* Bit fields of the word that the code keeps consistent with each other.
LockWordShape ==
    /\ word.reading => word.locked
    /\ word.queued <=> q # <<>>
    /\ ~word.queued => word.head = NoWaiter /\ ~word.qlocked

QLHolder(t) == pc[t] \in {"link_queue_or_unpark", "unpark"}

(* The thread in link_queue_or_unpark or unpark holds QUEUE_LOCKED alone,  *)
(* so the list stays installed; if its local state saw the lock free, no   *)
(* reader can have come in since (readers never join a queued lock).       *)
QueueLockHeld ==
    \A t \in Threads : QLHolder(t) =>
        /\ word.qlocked /\ word.queued
        /\ \A u \in Threads \ {t} : ~QLHolder(u)
        /\ ~st[t].locked => ~word.reading

\* A writer holds LOCKED without READING, and alone among writers.
WriterAlone == \A t \in Writers : word.locked /\ ~word.reading /\ Writers = {t}

CoreInv == TypeOK /\ LockWordShape /\ QueueLockHeld /\ WriterAlone /\ ReaderCount

(* A releasing reader between its walk and its fetch_sub is a reader, and *)
(* the tail it found is the list's tail.                                   *)
ReleaseTailInv ==
    \A t \in Threads :
        pc[t] = "unlock_shared_slow" => mode[t] = "S" /\ q # <<>> /\ tail[t] = Last(q)

IInv == CoreInv /\ ReleaseTailInv

-----------------------------------------------------------------------------
(* The order unpark_waiters walks is a list of the same threads.           *)
LEMMA ReverseType ==
    ASSUME NEW S, NEW s \in Seq(S)
    PROVE  Reverse(s) \in Seq(S)
BY DEF Reverse

(* The length of a list is the size of its domain.                        *)
LEMMA DomainSeqLen ==
    ASSUME NEW S, NEW s \in Seq(S), NEW n \in Nat, DOMAIN s = 1 .. n
    PROVE  Len(s) = n
<1>1. DOMAIN s = 1 .. Len(s) /\ Len(s) \in Nat
    BY LenProperties
<1>2. QED
    BY <1>1, FS_Interval
(* The set of holders in a given mode is a finite set of threads.          *)
LEMMA HoldersFinite ==
    ASSUME NEW m
    PROVE  IsFiniteSet(Holders(m)) /\ Holders(m) \subseteq Threads
BY ThreadsAssumption, FS_Subset DEF Holders

(* The initial state satisfies the inductive invariant.                    *)
THEOREM InitIInv == Init => IInv
<1> SUFFICES ASSUME Init PROVE IInv
    OBVIOUS
<1>1. TypeOK
    <2>1. (CHOOSE m \in Modes : TRUE) \in {"X", "S"}
        BY ModesAssumption
    <2>2. UNLOCKED \in Word
        BY ReaderMaxAssumption DEF Word, UNLOCKED
    <2>3. QED
        BY <2>1, <2>2 DEF Init, TypeOK, PCs
<1>2. Holders("S") = {} /\ Holders("X") = {}
    BY DEF Init, Holders
<1>3. LockWordShape /\ QueueLockHeld /\ WriterAlone
    BY <1>2 DEF Init, LockWordShape, QueueLockHeld, QLHolder, WriterAlone,
                Writers, UNLOCKED
<1>4. ReaderCount
    BY <1>2, FS_EmptySet DEF Init, ReaderCount, UNLOCKED
<1>5. ReleaseTailInv
    BY DEF Init, ReleaseTailInv
<1>6. QED
    BY <1>1, <1>3, <1>4, <1>5 DEF IInv, CoreInv

(* Consequences of the invariant that most steps use: who may hold the     *)
(* lock given the LOCKED and READING bits.                                 *)
LEMMA HolderFacts ==
    ASSUME CoreInv
    PROVE  /\ IsFiniteSet(Readers) /\ Cardinality(Readers) \in Nat
           /\ Readers # {} => word.reading /\ word.locked
           /\ Writers # {} => Readers = {} /\ word.locked
           /\ ~word.locked => Readers = {} /\ Writers = {}
<1>1. IsFiniteSet(Readers) /\ Cardinality(Readers) \in Nat
    BY HoldersFinite, FS_CardinalityType DEF Readers
<1>2. Readers # {} => word.reading /\ word.locked
    BY DEF CoreInv, ReaderCount, LockWordShape, Readers
<1>3. Writers # {} => Readers = {} /\ word.locked
    BY <1>2 DEF CoreInv, WriterAlone
<1>4. QED
    BY <1>1, <1>2, <1>3 DEF CoreInv, WriterAlone


(* lock(): a successful try_lock adds the thread to the holders with the   *)
(* count of the word; a push keeps the count where it was (the first       *)
(* waiter takes it into its counter) and takes QUEUE_LOCKED when the list  *)
(* was installed and free.                                                 *)
LEMMA LockCoreInv ==
    ASSUME CoreInv, NEW t \in Threads, NEW m \in {"X", "S"},
           pc[t] \in {"idle", "locking"}, Lock(t, m)
    PROVE  CoreInv'
<1> USE DEF CoreInv
<1>0. /\ t \notin Readers /\ t \notin Writers /\ ~QLHolder(t)
      /\ mode' = [mode EXCEPT ![t] = m]
      /\ UNCHANGED <<notified, towake, tail>>
    BY DEF Readers, Writers, Holders, QLHolder, Lock
<1>1. CASE /\ TryLockApplies(m, word)
           /\ word' = Acquired(m, word)
           /\ pc' = [pc EXCEPT ![t] = "holding"]
           /\ UNCHANGED <<q, counter, st, ret>>
    <2>1. Readers' = IF m = "S" THEN Readers \cup {t} ELSE Readers
        BY <1>0, <1>1 DEF Readers, Holders, TypeOK
    <2>2. Writers' = IF m = "X" THEN Writers \cup {t} ELSE Writers
        BY <1>0, <1>1 DEF Writers, Holders, TypeOK
    <2>3. \A u \in Threads : QLHolder(u)' = QLHolder(u)
        BY <1>0, <1>1 DEF QLHolder, TypeOK
    <2>4. CASE m = "X"
        <3>1. ~word.locked /\ word' = [word EXCEPT !.locked = TRUE]
            BY <2>4, <1>1 DEF TryLockApplies, TryLockExclusive, TryLockShared, Acquired, LockBts
        <3>2. Readers = {} /\ Writers = {} /\ ~word.reading
            BY <3>1, HolderFacts DEF LockWordShape
        <3>3. TypeOK'
            BY <3>1, <1>0, <1>1, <2>4 DEF TypeOK, Word, PCs
        <3>4. LockWordShape'
            BY <3>1, <3>2, <1>1 DEF LockWordShape
        <3>5. QueueLockHeld'
            BY <3>1, <2>3, <1>1 DEF QueueLockHeld
        <3>6. WriterAlone'
            BY <3>1, <3>2, <2>2, <2>4 DEF WriterAlone
        <3>7. ReaderCount'
            BY <3>1, <3>2, <2>1, <2>4, <1>1 DEF ReaderCount, Readers
        <3>8. QED
            BY <3>3, <3>4, <3>5, <3>6, <3>7
    <2>5. CASE m = "S"
        <3>1. Writers' = {}
            <4>1. word = UNLOCKED \/ word.reading
                BY <2>5, <1>1 DEF TryLockApplies, TryLockExclusive, TryLockShared
            <4>2. Writers = {}
                BY <4>1, HolderFacts DEF WriterAlone, UNLOCKED
            <4>3. QED
                BY <4>2, <2>2, <2>5
        <3>2. ~word.queued /\ word.cnt < ReaderMax
            BY <2>5, <1>1, ReaderMaxAssumption DEF TryLockApplies, TryLockExclusive, TryLockShared, UNLOCKED
        <3>3. word' = [word EXCEPT !.locked = TRUE, !.reading = TRUE, !.cnt = @ + 1]
            BY <2>5, <1>1 DEF Acquired
        <3>4. ~QLHolder(t)' /\ \A u \in Threads : ~QLHolder(u)
            BY <3>2, <1>0, <1>1 DEF QueueLockHeld, QLHolder
        <3>5. Cardinality(Readers') = word.cnt + 1
            BY <3>2, <2>1, <2>5, <1>0, HolderFacts, FS_AddElement
            DEF ReaderCount, Readers
        <3>6. TypeOK'
            <4>0. word.cnt + 1 \in 0 .. ReaderMax
                BY <3>2, ReaderMaxAssumption DEF TypeOK, Word
            <4>1. word' \in Word
                BY <4>0, <3>3 DEF TypeOK, Word
            <4>2. QED
                BY <4>1, <1>0, <1>1 DEF TypeOK, PCs
        <3>7. LockWordShape'
            BY <3>2, <3>3, <1>1 DEF LockWordShape
        <3>8. QueueLockHeld'
            BY <3>4, <2>3 DEF QueueLockHeld
        <3>9. WriterAlone'
            BY <3>1 DEF WriterAlone
        <3>10. ReaderCount'
            BY <3>2, <3>3, <3>5, <2>1, <2>5 DEF ReaderCount, Readers
        <3>11. QED
            BY <3>6, <3>7, <3>8, <3>9, <3>10
    <2>6. QED
        BY <2>4, <2>5
<1>2. CASE /\ ~TryLockApplies(m, word)
           /\ word' = Enqueued(t, word)
           /\ q' = <<t>> \o q
           /\ counter' = IF word.queued THEN counter
                         ELSE [counter EXCEPT ![t] = SavedCount(word)]
           /\ pc' = [pc EXCEPT ![t] = IF word.queued /\ ~word.qlocked
                                      THEN "link_queue_or_unpark" ELSE "park"]
           /\ st' = [st EXCEPT ![t] = Enqueued(t, word)]
           /\ ret' = [ret EXCEPT ![t] = "park"]
    <2>1. Readers' = Readers /\ Writers' = Writers
        BY <1>0, <1>2 DEF Readers, Writers, Holders, TypeOK
    <2>2. word' = [word EXCEPT !.queued = TRUE, !.qlocked = word.qlocked \/ word.queued,
                               !.cnt = 0, !.head = t]
        BY <1>2 DEF Enqueued
    <2>3. TypeOK'
        <3>1. word' \in Word /\ st' \in [Threads -> Word]
            <4>1. 0 \in 0 .. ReaderMax /\ t \in Threads \cup {NoWaiter}
                BY ReaderMaxAssumption
            <4>2. word' \in Word
                BY <4>1, <2>2 DEF TypeOK, Word
            <4>3. QED
                BY <4>2, <2>2, <1>2 DEF TypeOK, Enqueued
        <3>2. q' \in Seq(Threads)
            BY <1>2, ConcatProperties DEF TypeOK
        <3>3. counter' \in [Threads -> Nat]
            BY <1>2 DEF TypeOK, Word, SavedCount
        <3>4. QED
            BY <3>1, <3>2, <3>3, <1>0, <1>2 DEF TypeOK, PCs
    <2>4. LockWordShape'
        BY <1>2, <2>2 DEF LockWordShape
    <2>5. QueueLockHeld'
        <3>1. SUFFICES ASSUME NEW u \in Threads, QLHolder(u)'
                       PROVE  (/\ word.qlocked /\ word.queued
                               /\ \A v \in Threads \ {u} : ~QLHolder(v)
                               /\ ~st[u].locked => ~word.reading)'
            BY DEF QueueLockHeld
        <3>2. CASE u = t
            <4>1. word.queued /\ ~word.qlocked
                BY <3>1, <3>2, <1>2 DEF QLHolder, TypeOK
            <4>2. \A v \in Threads : ~QLHolder(v)
                BY <4>1 DEF QueueLockHeld
            <4>3. word'.qlocked /\ word'.queued
                BY <4>1, <2>2 DEF TypeOK, Word
            <4>4. \A v \in Threads \ {u} : ~QLHolder(v)'
                BY <4>2, <3>2, <1>2 DEF QLHolder, TypeOK
            <4>5. ~st'[u].locked => ~word'.reading
                BY <3>2, <1>2, <2>2 DEF TypeOK, Word, LockWordShape, Enqueued
            <4>6. QED
                BY <4>3, <4>4, <4>5
        <3>3. CASE u # t
            <4>1. QLHolder(u) /\ word.qlocked /\ word.queued
                BY <3>1, <3>3, <1>2 DEF QLHolder, QueueLockHeld
            <4>2. word'.qlocked /\ word'.queued /\ word'.reading = word.reading
                BY <4>1, <2>2 DEF TypeOK, Word
            <4>3. pc'[t] # "link_queue_or_unpark" /\ pc'[t] # "unpark"
                BY <4>1, <1>2 DEF TypeOK
            <4>4. \A v \in Threads \ {u} : ~QLHolder(v)'
                BY <4>1, <4>3, <3>3, <1>2 DEF QLHolder, QueueLockHeld, TypeOK
            <4>5. ~st'[u].locked => ~word'.reading
                BY <4>1, <4>2, <3>3, <1>2 DEF QueueLockHeld, TypeOK
            <4>6. QED
                BY <4>2, <4>4, <4>5
        <3>4. QED
            BY <3>2, <3>3
    <2>6. WriterAlone'
        BY <2>1, <2>2 DEF WriterAlone
    <2>7. ReaderCount'
        <3>1. CASE word.queued
            <4>1. Len(q) > 0 /\ q \in Seq(Threads)
                BY <3>1 DEF LockWordShape, TypeOK
            <4>2. Last(q') = Last(q)
                BY <4>1, <1>2 DEF Last
            <4>3. QED
                BY <4>2, <3>1, <2>1, <2>2, <1>2 DEF ReaderCount, Readers
        <3>2. CASE ~word.queued
            <4>1. q = <<>>
                BY <3>2 DEF LockWordShape
            <4>2. Last(q') = t
                BY <4>1, <1>2 DEF Last
            <4>3. QED
                BY <4>2, <3>2, <2>1, <2>2, <1>2 DEF ReaderCount, Readers, SavedCount,
                   TypeOK
        <3>3. QED
            BY <3>1, <3>2
    <2>8. QED
        BY <2>3, <2>4, <2>5, <2>6, <2>7
<1>3. QED
    BY <1>1, <1>2 DEF Lock


(* Park returning and unpark_waiters touch only tokens, wake lists and the *)
(* program counter of a thread outside the lock and QUEUE_LOCKED.          *)
LEMMA ParkCoreInv ==
    ASSUME CoreInv, NEW t \in Threads, Park(t)
    PROVE  CoreInv'
<1> USE DEF CoreInv
<1>1. Readers' = Readers /\ Writers' = Writers
    BY DEF Park, Readers, Writers, Holders, TypeOK
<1>2. \A u \in Threads : QLHolder(u)' = QLHolder(u)
    BY DEF Park, QLHolder, TypeOK
<1>3. TypeOK'
    BY DEF Park, TypeOK, PCs
<1>4. QED
    BY <1>1, <1>2, <1>3 DEF Park, LockWordShape, QueueLockHeld, WriterAlone,
       ReaderCount, Readers, Writers

LEMMA UnparkWaitersCoreInv ==
    ASSUME CoreInv, NEW t \in Threads, UnparkWaiters(t)
    PROVE  CoreInv'
<1> USE DEF CoreInv
<1>0. ret[t] \in {"park", "idle"} /\ towake[t] \in Seq(Threads)
    BY DEF TypeOK
<1>1. Readers' = Readers /\ Writers' = Writers
    BY <1>0 DEF UnparkWaiters, Readers, Writers, Holders, TypeOK
<1>2. \A u \in Threads : QLHolder(u)' = QLHolder(u)
    BY <1>0 DEF UnparkWaiters, QLHolder, TypeOK
<1>3. TypeOK'
    <2>1. Tail(towake[t]) \in Seq(Threads)
        BY <1>0, HeadTailProperties DEF UnparkWaiters
    <2>2. QED
        BY <2>1, <1>0 DEF UnparkWaiters, TypeOK, PCs
<1>4. QED
    BY <1>1, <1>2, <1>3 DEF UnparkWaiters, LockWordShape, QueueLockHeld,
       WriterAlone, ReaderCount, Readers, Writers

(* The QUEUE_LOCKED holder either moves on to unpark, drops QUEUE_LOCKED   *)
(* by a CAS against the word it last read, or reloads that word.           *)
LEMMA LinkQueueOrUnparkCoreInv ==
    ASSUME CoreInv, NEW t \in Threads, LinkQueueOrUnpark(t)
    PROVE  CoreInv'
<1> USE DEF CoreInv
<1>0. /\ QLHolder(t) /\ word.qlocked /\ word.queued
      /\ \A u \in Threads \ {t} : ~QLHolder(u)
      /\ ret[t] \in {"park", "idle"}
      /\ Readers' = Readers /\ Writers' = Writers
    BY DEF LinkQueueOrUnpark, QLHolder, QueueLockHeld, TypeOK, Readers,
       Writers, Holders
<1>1. CASE ~st[t].locked /\ pc' = [pc EXCEPT ![t] = "unpark"] /\ UNCHANGED <<word, st>>
    <2>1. \A u \in Threads : QLHolder(u)' = QLHolder(u)
        BY <1>0, <1>1 DEF QLHolder, TypeOK
    <2>2. QED
        BY <1>0, <1>1, <2>1 DEF LinkQueueOrUnpark, TypeOK, PCs, LockWordShape,
           QueueLockHeld, WriterAlone, ReaderCount, Readers, Writers
<1>2. CASE /\ st[t].locked /\ word = st[t]
           /\ word' = [word EXCEPT !.qlocked = FALSE]
           /\ pc' = [pc EXCEPT ![t] = ret[t]]
           /\ UNCHANGED st
    <2>1. \A u \in Threads : ~QLHolder(u)'
        BY <1>0, <1>2 DEF QLHolder, TypeOK
    <2>2. TypeOK'
        BY <1>0, <1>2 DEF LinkQueueOrUnpark, TypeOK, PCs, Word
    <2>3. QED
        BY <1>0, <1>2, <2>1, <2>2 DEF LinkQueueOrUnpark, TypeOK, Word,
           LockWordShape, QueueLockHeld, WriterAlone, ReaderCount, Readers,
           Writers
<1>3. CASE /\ st[t].locked /\ word # st[t]
           /\ st' = [st EXCEPT ![t] = word]
           /\ UNCHANGED <<word, pc>>
    <2>1. \A u \in Threads : QLHolder(u)' = QLHolder(u)
        BY <1>3 DEF QLHolder
    <2>2. ~st'[t].locked => ~word'.reading
        BY <1>3 DEF LockWordShape, TypeOK
    <2>3. TypeOK'
        BY <1>3 DEF LinkQueueOrUnpark, TypeOK
    <2>4. QED
        BY <1>0, <1>3, <2>1, <2>2, <2>3 DEF LinkQueueOrUnpark, QueueLockHeld,
           LockWordShape, WriterAlone, ReaderCount, Readers, Writers
<1>4. QED
    BY <1>1, <1>2, <1>3 DEF LinkQueueOrUnpark, LockFree


(* unpark: with the lock held, as link_queue_or_unpark; on the wake-all    *)
(* the word is cleared of a list while nobody holds the lock.              *)
LEMMA UnparkCoreInv ==
    ASSUME CoreInv, NEW t \in Threads, Unpark(t)
    PROVE  CoreInv'
<1> USE DEF CoreInv
<1>0. /\ QLHolder(t) /\ word.qlocked /\ word.queued
      /\ \A u \in Threads \ {t} : ~QLHolder(u)
      /\ ~st[t].locked => ~word.reading
      /\ ret[t] \in {"park", "idle"}
      /\ Readers' = Readers /\ Writers' = Writers
    BY DEF Unpark, QLHolder, QueueLockHeld, TypeOK, Readers, Writers, Holders
<1>1. CASE /\ st[t].locked /\ word = st[t]
           /\ word' = [word EXCEPT !.qlocked = FALSE]
           /\ pc' = [pc EXCEPT ![t] = ret[t]]
           /\ UNCHANGED <<st, q, towake>>
    <2>1. \A u \in Threads : ~QLHolder(u)'
        BY <1>0, <1>1 DEF QLHolder, TypeOK
    <2>2. TypeOK'
        BY <1>0, <1>1 DEF Unpark, TypeOK, PCs, Word
    <2>3. QED
        BY <1>0, <1>1, <2>1, <2>2 DEF Unpark, TypeOK, Word, LockWordShape,
           QueueLockHeld, WriterAlone, ReaderCount, Readers, Writers
<1>2. CASE /\ st[t].locked /\ word # st[t]
           /\ st' = [st EXCEPT ![t] = word]
           /\ UNCHANGED <<word, pc, q, towake>>
    <2>1. \A u \in Threads : QLHolder(u)' = QLHolder(u)
        BY <1>2 DEF QLHolder
    <2>2. ~st'[t].locked => ~word'.reading
        BY <1>2 DEF LockWordShape, TypeOK
    <2>3. TypeOK'
        BY <1>2 DEF Unpark, TypeOK
    <2>4. QED
        BY <1>0, <1>2, <2>1, <2>2, <2>3 DEF Unpark, QueueLockHeld,
           LockWordShape, WriterAlone, ReaderCount, Readers, Writers
<1>3. CASE /\ ~st[t].locked /\ word = st[t]
           /\ word' = [word EXCEPT !.queued = FALSE, !.qlocked = FALSE,
                                   !.cnt = 0, !.head = NoWaiter]
           /\ q' = <<>>
           /\ towake' = [towake EXCEPT ![t] = WakeOrder(q)]
           /\ pc' = [pc EXCEPT ![t] = "unpark_waiters"]
           /\ UNCHANGED st
    <2>1. Readers = {} /\ Writers = {} /\ ~word.reading
        BY <1>0, <1>3, HolderFacts
    <2>2. \A u \in Threads : ~QLHolder(u)'
        BY <1>0, <1>3 DEF QLHolder, TypeOK
    <2>3. TypeOK'
        <3>1. 0 \in 0 .. ReaderMax /\ NoWaiter \in Threads \cup {NoWaiter}
            BY ReaderMaxAssumption
        <3>2. word' \in Word
            BY <3>1, <1>3 DEF TypeOK, Word
        <3>3. WakeOrder(q) \in Seq(Threads)
            BY ReverseType DEF WakeOrder, TypeOK
        <3>4. QED
            BY <3>2, <3>3, <1>3 DEF Unpark, TypeOK, PCs
    <2>4. ReaderCount'
        <3>1. Holders("S")' = {}
            BY <1>0, <2>1 DEF Readers
        <3>2. ~word'.queued /\ word'.cnt = 0 /\ ~word'.reading
            BY <1>3, <2>1 DEF TypeOK, Word
        <3>3. QED
            BY <3>1, <3>2, FS_EmptySet DEF ReaderCount
    <2>5. QED
        BY <1>0, <1>3, <2>1, <2>2, <2>3, <2>4 DEF Unpark, TypeOK,
           LockWordShape, QueueLockHeld, WriterAlone, Readers, Writers
<1>4. CASE /\ ~st[t].locked /\ word # st[t]
           /\ st' = [st EXCEPT ![t] = word]
           /\ UNCHANGED <<word, q, towake, pc>>
    <2>1. \A u \in Threads : QLHolder(u)' = QLHolder(u)
        BY <1>4 DEF QLHolder
    <2>2. ~st'[t].locked => ~word'.reading
        BY <1>4 DEF LockWordShape, TypeOK
    <2>3. TypeOK'
        BY <1>4 DEF Unpark, TypeOK
    <2>4. QED
        BY <1>0, <1>4, <2>1, <2>2, <2>3 DEF Unpark, QueueLockHeld,
           LockWordShape, WriterAlone, ReaderCount, Readers, Writers
<1>5. QED
    BY <1>1, <1>2, <1>3, <1>4 DEF Unpark, LockFree


(* unlock_exclusive: the writer held the lock alone, so clearing LOCKED    *)
(* leaves no holder behind and the count in the word is still zero.        *)
LEMMA UnlockExclusiveCoreInv ==
    ASSUME CoreInv, NEW t \in Threads, UnlockExclusive(t)
    PROVE  CoreInv'
<1> USE DEF CoreInv
<1>1. t \in Writers
    BY DEF UnlockExclusive, Writers, Holders
<1>2. word.locked /\ ~word.reading /\ Writers = {t} /\ Readers = {}
    BY <1>1, HolderFacts DEF WriterAlone
<1>3. Readers' = {} /\ Writers' = {}
    BY <1>2 DEF UnlockExclusive, Readers, Writers, Holders, TypeOK
<1>4. \A u \in Threads : QLHolder(u)' = QLHolder(u)
    BY DEF UnlockExclusive, QLHolder, TypeOK
<1>5. word' = [word EXCEPT !.locked = FALSE]
    BY DEF UnlockExclusive, Released
<1>6. TypeOK'
    BY <1>5 DEF UnlockExclusive, TypeOK, Word, PCs
<1>7. ReaderCount'
    <2>1. ~word.queued => word.cnt = 0
        BY <1>2, FS_EmptySet DEF ReaderCount, Readers
    <2>2. QED
        BY <1>2, <1>3, <1>5, <2>1, FS_EmptySet DEF ReaderCount, Readers,
           TypeOK, Word
<1>8. QED
    BY <1>2, <1>3, <1>4, <1>5, <1>6, <1>7 DEF UnlockExclusive, TypeOK, Word,
       LockWordShape, QueueLockHeld, WriterAlone, Writers

(* unlock_exclusive_slow takes QUEUE_LOCKED only when nobody holds it and  *)
(* LOCKED is clear, so the word it hands to unpark shows the lock free.    *)
LEMMA UnlockExclusiveSlowCoreInv ==
    ASSUME CoreInv, NEW t \in Threads, UnlockExclusiveSlow(t)
    PROVE  CoreInv'
<1> USE DEF CoreInv
<1>0. Readers' = Readers /\ Writers' = Writers
    BY DEF UnlockExclusiveSlow, Readers, Writers, Holders, TypeOK
<1>1. CASE SlowPathApplies(word)
    <2>1. ~word.locked /\ word.queued /\ ~word.qlocked /\ ~word.reading
        BY <1>1 DEF SlowPathApplies, LockWordShape
    <2>2. \A u \in Threads : ~QLHolder(u)
        BY <2>1 DEF QueueLockHeld
    <2>3. /\ word' = [word EXCEPT !.qlocked = TRUE]
          /\ st' = [st EXCEPT ![t] = word']
          /\ pc' = [pc EXCEPT ![t] = "unpark"]
        BY <1>1 DEF UnlockExclusiveSlow
    <2>4. TypeOK'
        BY <2>3 DEF UnlockExclusiveSlow, TypeOK, Word, PCs
    <2>5. QueueLockHeld'
        BY <2>1, <2>2, <2>3 DEF QueueLockHeld, QLHolder, TypeOK, Word
    <2>6. QED
        BY <1>0, <2>1, <2>3, <2>4, <2>5 DEF UnlockExclusiveSlow, TypeOK, Word,
           LockWordShape, WriterAlone, ReaderCount, Readers, Writers
<1>2. CASE ~SlowPathApplies(word)
    <2>1. pc' = [pc EXCEPT ![t] = "idle"] /\ UNCHANGED <<word, st>>
        BY <1>2 DEF UnlockExclusiveSlow
    <2>2. \A u \in Threads : QLHolder(u)' = QLHolder(u)
        BY <2>1 DEF UnlockExclusiveSlow, QLHolder, TypeOK
    <2>3. QED
        BY <1>0, <2>1, <2>2 DEF UnlockExclusiveSlow, TypeOK, PCs,
           LockWordShape, QueueLockHeld, WriterAlone, ReaderCount, Readers,
           Writers
<1>3. QED
    BY <1>1, <1>2


(* unlock_shared: without waiters the departing reader was counted once in *)
(* the word and that count goes down by one (the last reader is the word   *)
(* SINGLE_READER and unlocks the lock); with waiters it only takes the     *)
(* tail and is still counted in the tail's counter.                        *)
LEMMA UnlockSharedCoreInv ==
    ASSUME CoreInv, NEW t \in Threads, UnlockShared(t)
    PROVE  CoreInv'
<1> USE DEF CoreInv
<1>0. /\ t \in Readers /\ word.reading /\ word.locked /\ Writers = {}
      /\ IsFiniteSet(Readers) /\ Cardinality(Readers) \in Nat \ {0}
    <2>1. t \in Readers
        BY DEF UnlockShared, Readers, Holders
    <2>2. Writers = {}
        BY <2>1, HolderFacts
    <2>3. Cardinality(Readers) # 0
        BY <2>1, HolderFacts, FS_EmptySet
    <2>4. QED
        BY <2>1, <2>2, <2>3, HolderFacts
<1>2. \A u \in Threads : QLHolder(u)' = QLHolder(u)
    BY DEF UnlockShared, QLHolder, TypeOK
<1>3. CASE ~word.queued
    <2>0. /\ word' = ReaderReleased(word)
          /\ pc' = [pc EXCEPT ![t] = "idle"]
          /\ UNCHANGED <<tail, counter, q, mode>>
        BY <1>3 DEF UnlockShared
    <2>a. /\ Readers' = Readers \ {t} /\ Writers' = {}
          /\ Cardinality(Readers') = Cardinality(Readers) - 1
          /\ IsFiniteSet(Readers')
        <3>1. Readers' = Readers \ {t} /\ Writers' = Writers
            BY <2>0, <1>0 DEF Readers, Writers, Holders, TypeOK
        <3>2. QED
            BY <1>0, <3>1, FS_RemoveElement
    <2>1. word.cnt = Cardinality(Readers) /\ ~word.qlocked /\ word.head = NoWaiter
        BY <1>3 DEF ReaderCount, Readers, LockWordShape
    <2>2. \A u \in Threads : ~QLHolder(u)
        BY <1>3 DEF QueueLockHeld
    <2>3. CASE word = SINGLE_READER
        <3>1. Cardinality(Readers) = 1
            BY <2>1, <2>3 DEF SINGLE_READER, UNLOCKED
        <3>2. Readers' = {}
            BY <1>0, <2>a, <3>1, FS_EmptySet
        <3>3. word' = UNLOCKED
            BY <2>0, <2>3 DEF ReaderReleased
        <3>4. UNLOCKED \in Word
            BY ReaderMaxAssumption DEF Word, UNLOCKED
        <3>5. QED
            BY <2>0, <2>a, <1>2, <2>2, <3>2, <3>3, <3>4, FS_EmptySet, <1>3
            DEF UnlockShared, UNLOCKED, TypeOK, PCs, LockWordShape,
                QueueLockHeld, WriterAlone, ReaderCount, Readers, Writers
    <2>4. CASE word # SINGLE_READER
        <3>1. word.cnt # 1
            <4>1. word = [locked |-> word.locked, reading |-> word.reading,
                          queued |-> word.queued, qlocked |-> word.qlocked,
                          cnt |-> word.cnt, head |-> word.head]
                BY DEF TypeOK, Word
            <4>2. SINGLE_READER = [locked |-> TRUE, reading |-> TRUE,
                                   queued |-> FALSE, qlocked |-> FALSE,
                                   cnt |-> 1, head |-> NoWaiter]
                BY DEF SINGLE_READER
            <4>3. word.locked = TRUE /\ word.reading = TRUE /\ word.queued = FALSE
                  /\ word.qlocked = FALSE /\ word.head = NoWaiter
                BY <2>1, <1>3, <1>0 DEF TypeOK, Word
            <4>4. QED
                BY <4>1, <4>2, <4>3, <2>4
        <3>2. word.cnt - 1 \in 1 .. ReaderMax
            BY <3>1, <2>1, <1>0, ReaderMaxAssumption DEF TypeOK, Word
        <3>3. word' = [word EXCEPT !.cnt = word.cnt - 1]
            BY <2>0, <2>4 DEF ReaderReleased
        <3>4. Cardinality(Readers') = word'.cnt /\ Readers' # {}
            <4>1. word'.cnt = word.cnt - 1
                BY <3>3 DEF TypeOK, Word
            <4>2. Cardinality(Readers') = word.cnt - 1
                BY <2>a, <2>1
            <4>3. Cardinality(Readers') # 0
                BY <4>2, <3>2
            <4>4. QED
                BY <4>1, <4>2, <4>3, <2>a, FS_EmptySet
        <3>5. word' \in Word
            <4>1. word.cnt - 1 \in 0 .. ReaderMax
                BY <3>2
            <4>2. QED
                BY <4>1, <3>3 DEF TypeOK, Word
        <3>6. QED
            BY <1>0, <2>0, <2>a, <1>2, <1>3, <2>2, <3>3, <3>4, <3>5
            DEF UnlockShared, TypeOK, Word, PCs, LockWordShape, QueueLockHeld,
                WriterAlone, ReaderCount, Readers, Writers
    <2>5. QED
        BY <2>3, <2>4
<1>4. CASE word.queued
    <2>0. /\ tail' = [tail EXCEPT ![t] = Last(q)]
          /\ pc' = [pc EXCEPT ![t] = "unlock_shared_slow"]
          /\ UNCHANGED <<word, counter, q, mode>>
        BY <1>4 DEF UnlockShared, SlowTail
    <2>1. q \in Seq(Threads) /\ Len(q) > 0
        BY <1>4 DEF LockWordShape, TypeOK
    <2>2. Last(q) \in Threads
        BY <2>1, ElementOfSeq DEF Last
    <2>3. Readers' = Readers /\ Writers' = Writers
        BY <2>0, <1>0 DEF Readers, Writers, Holders, TypeOK
    <2>4. TypeOK'
        BY <2>0, <2>2 DEF UnlockShared, TypeOK, PCs
    <2>5. QED
        BY <1>2, <2>0, <2>3, <2>4 DEF UnlockShared, LockWordShape,
           QueueLockHeld, WriterAlone, ReaderCount, Readers, Writers
<1>5. QED
    BY <1>3, <1>4

(* unlock_shared_slow's fetch_sub: the reader was counted in the counter  *)
(* of the tail it found, which is still the list's tail, and leaves it.    *)
LEMMA UnlockSharedSlowCoreInv ==
    ASSUME IInv, NEW t \in Threads, UnlockSharedSlow(t)
    PROVE  CoreInv'
<1> USE DEF IInv, CoreInv
<1>0. /\ t \in Readers /\ word.reading /\ word.locked /\ Writers = {}
      /\ IsFiniteSet(Readers) /\ Cardinality(Readers) \in Nat \ {0}
    <2>1. t \in Readers
        BY DEF UnlockSharedSlow, ReleaseTailInv, Readers, Holders
    <2>2. Writers = {}
        BY <2>1, HolderFacts
    <2>3. Cardinality(Readers) # 0
        BY <2>1, HolderFacts, FS_EmptySet
    <2>4. QED
        BY <2>1, <2>2, <2>3, HolderFacts
<1>1. /\ Readers' = Readers \ {t} /\ Writers' = {}
      /\ Cardinality(Readers') = Cardinality(Readers) - 1
      /\ IsFiniteSet(Readers')
    <2>1. Readers' = Readers \ {t} /\ Writers' = Writers
        BY <1>0 DEF UnlockSharedSlow, Readers, Writers, Holders, TypeOK
    <2>2. QED
        BY <1>0, <2>1, FS_RemoveElement
<1>2. \A u \in Threads : QLHolder(u)' = QLHolder(u)
    BY DEF UnlockSharedSlow, QLHolder, TypeOK
<1>3. q # <<>> /\ tail[t] = Last(q) /\ word.queued
    BY DEF ReleaseTailInv, UnlockSharedSlow, LockWordShape
<1>4. q \in Seq(Threads) /\ Len(q) > 0
    BY <1>3, EmptySeq, LenProperties DEF TypeOK
<1>5. Last(q) \in Threads
    BY <1>4, ElementOfSeq DEF Last
<1>6. counter[Last(q)] = Cardinality(Readers)
    BY <1>3, <1>0 DEF ReaderCount, Readers
<1>7. /\ counter' = [counter EXCEPT ![Last(q)] = Cardinality(Readers) - 1]
      /\ UNCHANGED <<word, q>>
    BY <1>3, <1>6 DEF UnlockSharedSlow
<1>8. counter' \in [Threads -> Nat]
    BY <1>0, <1>5, <1>7 DEF TypeOK
<1>9. counter'[Last(q')] = Cardinality(Readers')
    BY <1>1, <1>5, <1>7 DEF TypeOK
<1>10. TypeOK'
    BY <1>7, <1>8 DEF UnlockSharedSlow, TypeOK, PCs
<1>11. QED
    BY <1>1, <1>2, <1>3, <1>7, <1>9, <1>10 DEF UnlockSharedSlow,
       LockWordShape, QueueLockHeld, WriterAlone, ReaderCount, Readers, Writers

(* The tail a releasing reader found stays the list's tail: pushes only   *)
(* add at the head, and unpark, the only step that takes waiters off, runs *)
(* on a word it read with LOCKED clear, which no word is while a reader    *)
(* still holds the lock.                                                   *)
LEMMA ReleaseTailStep ==
    ASSUME IInv, [Next]_vars
    PROVE  ReleaseTailInv'
<1> USE DEF IInv, CoreInv
<1> SUFFICES ASSUME NEW u \in Threads, pc'[u] = "unlock_shared_slow"
             PROVE  mode'[u] = "S" /\ q' # <<>> /\ tail'[u] = Last(q')
    BY DEF ReleaseTailInv
<1>1. CASE UNCHANGED vars
    BY <1>1 DEF vars, ReleaseTailInv
<1>2. ASSUME NEW t \in Threads,
             \/ Park(t) \/ UnparkWaiters(t) \/ LinkQueueOrUnpark(t)
             \/ UnlockExclusive(t) \/ UnlockExclusiveSlow(t)
      PROVE  mode'[u] = "S" /\ q' # <<>> /\ tail'[u] = Last(q')
    <2>1. ret[t] \in {"park", "idle"}
        BY DEF TypeOK
    <2>2. pc[u] = "unlock_shared_slow" /\ UNCHANGED <<q, tail, mode>>
        BY <1>2, <2>1 DEF Park, UnparkWaiters, LinkQueueOrUnpark,
           UnlockExclusive, UnlockExclusiveSlow, TypeOK
    <2>3. QED
        BY <2>2 DEF ReleaseTailInv
<1>3. ASSUME NEW t \in Threads, LockExclusive(t) \/ LockShared(t) \/ Relock(t)
      PROVE  mode'[u] = "S" /\ q' # <<>> /\ tail'[u] = Last(q')
    <2>1. /\ pc[u] = "unlock_shared_slow" /\ u # t /\ tail' = tail
          /\ mode'[u] = mode[u]
          /\ (q' = q \/ q' = <<t>> \o q)
        BY <1>3 DEF LockExclusive, LockShared, Relock, Lock, TypeOK
    <2>2. mode[u] = "S" /\ q # <<>> /\ tail[u] = Last(q)
        BY <2>1 DEF ReleaseTailInv
    <2>3. q \in Seq(Threads) /\ Len(q) > 0
        BY <2>2, EmptySeq, LenProperties DEF TypeOK
    <2>4. Last(q') = Last(q) /\ q' # <<>>
        BY <2>1, <2>3 DEF Last
    <2>5. QED
        BY <2>1, <2>2, <2>4
<1>4. ASSUME NEW t \in Threads, Unpark(t)
      PROVE  mode'[u] = "S" /\ q' # <<>> /\ tail'[u] = Last(q')
    <2>1. pc[u] = "unlock_shared_slow" /\ u # t /\ UNCHANGED <<tail, mode>>
        BY <1>4 DEF Unpark, TypeOK
    <2>2. u \in Readers
        BY <2>1 DEF ReleaseTailInv, Readers, Holders
    <2>3. word.reading
        BY <2>2, HolderFacts
    <2>4. ~st[t].locked => ~word.reading
        BY <1>4 DEF Unpark, QLHolder, QueueLockHeld
    <2>5. q' = q
        BY <1>4, <2>3, <2>4 DEF Unpark, LockFree
    <2>6. QED
        BY <2>1, <2>5 DEF ReleaseTailInv
<1>5. ASSUME NEW t \in Threads, UnlockShared(t)
      PROVE  mode'[u] = "S" /\ q' # <<>> /\ tail'[u] = Last(q')
    <2>1. CASE u = t
        <3>1. word.queued /\ tail'[t] = Last(q) /\ UNCHANGED <<q, mode>>
            BY <1>5, <2>1 DEF UnlockShared, SlowTail, TypeOK
        <3>2. q # <<>>
            BY <3>1 DEF LockWordShape
        <3>3. QED
            BY <1>5, <2>1, <3>1, <3>2 DEF UnlockShared
    <2>2. CASE u # t
        BY <1>5, <2>2 DEF UnlockShared, ReleaseTailInv, TypeOK
    <2>3. QED
        BY <2>1, <2>2
<1>6. ASSUME NEW t \in Threads, UnlockSharedSlow(t)
      PROVE  mode'[u] = "S" /\ q' # <<>> /\ tail'[u] = Last(q')
    BY <1>6 DEF UnlockSharedSlow, ReleaseTailInv, TypeOK
<1>7. QED
    BY <1>1, <1>2, <1>3, <1>4, <1>5, <1>6 DEF Next

(* Every step of the lock and a stutter preserve the inductive invariant.  *)
THEOREM NextIInv == IInv /\ [Next]_vars => IInv'
<1> SUFFICES ASSUME IInv, [Next]_vars PROVE IInv'
    OBVIOUS
<1>1. CoreInv'
    <2>0. CoreInv
        BY DEF IInv
    <2>1. CASE UNCHANGED vars
        BY <2>0, <2>1 DEF vars, CoreInv, TypeOK, LockWordShape, QueueLockHeld,
           QLHolder, WriterAlone, ReaderCount, Readers, Writers, Holders
    <2>2. ASSUME NEW t \in Threads,
                 LockExclusive(t) \/ LockShared(t) \/ Relock(t)
          PROVE  CoreInv'
        <3>1. pc[t] \in {"idle", "locking"}
            BY <2>2 DEF LockExclusive, LockShared, Relock
        <3>2. mode[t] \in {"X", "S"}
            BY <2>0 DEF CoreInv, TypeOK
        <3>3. QED
            BY <2>0, <2>2, <3>1, <3>2, LockCoreInv
            DEF LockExclusive, LockShared, Relock
    <2>3. CASE Next
        BY <2>0, <2>3, <2>2, ParkCoreInv, LinkQueueOrUnparkCoreInv,
           UnparkCoreInv, UnparkWaitersCoreInv, UnlockExclusiveCoreInv,
           UnlockExclusiveSlowCoreInv, UnlockSharedCoreInv,
           UnlockSharedSlowCoreInv DEF Next
    <2>4. QED
        BY <2>1, <2>3
<1>2. ReleaseTailInv'
    BY ReleaseTailStep
<1>3. QED
    BY <1>1, <1>2 DEF IInv

(* The inductive invariant holds in every reachable state.                 *)
THEOREM IInvInvariant == Spec => []IInv
BY InitIInv, NextIInv, PTL DEF Spec

(* Every variable of the lock keeps its type: in particular the reader     *)
(* count in the word stays within 0 .. usize::MAX >> READER_SHIFT and no   *)
(* Waiter::counter ever goes below zero.                                   *)
THEOREM TypeCorrect == Spec => []TypeOK
<1>1. IInv => TypeOK
    BY DEF IInv, CoreInv
<1>2. QED
    BY <1>1, IInvInvariant, PTL

(* I2: the reader count, in the word without waiters and in the tail      *)
(* waiter's counter with them, always equals the number of reading        *)
(* threads, through lock()'s migration and both paths of unlock_shared.   *)
THEOREM ReaderCountInvariant == Spec => []ReaderCount
<1>1. IInv => ReaderCount
    BY DEF IInv, CoreInv
<1>2. QED
    BY <1>1, IInvInvariant, PTL

(* I1: at most one writer holds the lock, and never together with readers. *)
THEOREM MutualExclusionInvariant == Spec => []MutualExclusion
<1>1. IInv => MutualExclusion
    <2> SUFFICES ASSUME CoreInv PROVE MutualExclusion
        BY DEF IInv
    <2>1. Cardinality(Writers) <= 1
        <3>1. CASE Writers = {}
            BY <3>1, FS_EmptySet
        <3>2. CASE Writers # {}
            <4>1. PICK w \in Writers : TRUE
                BY <3>2
            <4>2. Writers = {w}
                BY <4>1 DEF CoreInv, WriterAlone
            <4>3. Cardinality({w}) = 1
                BY FS_Singleton
            <4>4. QED
                BY <4>2, <4>3
        <3>3. QED
            BY <3>1, <3>2
    <2>2. Writers # {} => Readers = {}
        BY HolderFacts
    <2>3. QED
        BY <2>1, <2>2 DEF MutualExclusion, Readers, Writers
<1>2. QED
    BY <1>1, IInvInvariant, PTL


(* A reader's fetch_sub always lands on the list's current tail.           *)
THEOREM ReleaseTailInvariant == Spec => []ReleaseTailCurrent
<1>1. IInv => ReleaseTailCurrent
    BY DEF IInv, ReleaseTailInv, ReleaseTailCurrent
<1>2. QED
    BY <1>1, IInvInvariant, PTL

=====
