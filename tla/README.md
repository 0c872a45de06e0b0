# Formal models of usync: the queued RwLock and the mpsc channel facade

This directory holds TLA+ models of the two subsystems of the repository:
- the reader-writer lock of `src/src/rwlock.rs`;
- the channel facade of `src/src/mpsc/mod.rs`.

It also holds the TLC configurations that model-check them, and TLAPS proofs of their main invariants for every value of the constants.

## 1. The system and its parts

| Part | Source | State | Operations | Module |
|---|---|---|---|---|
| Lock word (QueuedLockWord) | `rwlock.rs` 8-32 | one `AtomicUsize` with LOCKED, READING, QUEUED, QUEUE_LOCKED and a reader count or head pointer | the CASes and `fetch_sub` of the lock operations | `RwLock` (`word`) |
| RawRwLock | `rwlock.rs` 26-575 | the word, plus per-thread Waiter nodes | lock/unlock exclusive and shared, `lock()`, `link_queue_or_unpark`, `unpark`, `unpark_waiters` | `RwLock`, `RwLockProofs` |
| Waiter, Parker, SpinWait | `shared` module, **not in the sources** | the node's links, `flags`, `counter`, and the parker token | `get_and_link_queue`, `park`, `unpark` | abstracted in `RwLock` (`q`, `counter`, `notified`) |
| Channel facade | `mpsc/mod.rs` 456-1145 | `Arc<Channel>` strong count, the handles, the flavour | constructors, send dispatch, `Clone`, `Drop` of senders and the receiver | `ChannelFacade`, `ChannelFacadeProofs` |
| Receiver and iterators | `mpsc/mod.rs` 769-1133 | none of its own | `try_recv`, `recv`, `recv_timeout`, `recv_deadline`, `Iter`/`TryIter`/`IntoIter::next`, and their result conversions | `Channel`, `ChannelProofs` |
| Unbounded and bounded queues | `mpsc::{unbounded,bounded}`, **not in the sources** | a FIFO buffer, parked senders and receiver | `send`, `recv`, `try_recv`, `disconnect` | `Channel`, modelled from spec §4.4-4.5 |
| Rendezvous queue | `mpsc::rendezvous`, **not in the sources** | a handoff slot | `send`, `recv` | not modelled |
| Error enums, Display, `lock_api` aliases | `mpsc/mod.rs` 394-455, 1147-1254, `rwlock.rs` 577-584 | none | formatting | not modelled |

**How the lock's parts interact.**
- A thread that cannot take the lock runs `lock()`:
  - it pushes its stack-allocated Waiter by CAS on the word;
  - the word then holds the head pointer;
  - the reader count moves into the first waiter's `counter`.
- The pushing thread takes QUEUE_LOCKED when the list was already there and free. It then repairs the links in `link_queue_or_unpark`, or, if the lock is free, wakes waiters in `unpark`.
- Releasers do different things:
  - `unlock_exclusive` clears LOCKED. If QUEUED alone is set, it takes QUEUE_LOCKED in `unlock_exclusive_slow` and calls `unpark`.
  - `unlock_shared` with waiters queued walks the list to its tail (`get_and_link_queue`, without QUEUE_LOCKED), then decrements the tail's `counter`.
- `unpark`, on a free lock, clears the list from the word and wakes every waiter, from the tail along `prev`. Its branch that would wake a writer at the tail alone is never taken (see below).

**How the channel's parts interact.** The facade owns an `Arc<Channel>`. `Sender::drop` disconnects the queue when `Arc::strong_count == 2`. `Receiver::drop` disconnects when the count is not 1. The receive calls poll the queue and convert its answer (`Err(())`, `Ok(None)`, `Ok(Some(t))`) into each call's error type. A blocked `recv` or bounded `send` parks in the queue until a message, room or the disconnect wakes it.

## 2. Modules

| Module | Role |
|---|---|
| `RwLock.tla` | The lock: constants, variables, one action per operation, `Spec`, `FairSpec` and the properties. |
| `MCRwLock.tla` | Model values `t1..t3` for the threads, and a thread-permutation symmetry. |
| `RwLockProofs.tla` | The inductive invariant and the TLAPS proofs of `TypeOK`, `ReaderCount`, `MutualExclusion`, and `ReleaseTailCurrent`. |
| `RwLockQueueProofs.tla` | Lemmas about the list operations (push, pop, reversal), the QUEUE_LOCKED invariant `QueueLockInv`, and the proofs of `QueueLockOwner` and `CodeAssertions`. |
| `RwLockWakeProofs.tla` | The waiter-accounting invariant `WakeAcct` and the proofs of `WaitersAccounted`, `WakeupPending` and `LockedOnlyWhileHeld` (writers only). |
| `ChannelFacade.tla` | Handles, strong count, flavour, dispatch and drops. |
| `MCChannelFacade.tla` | Model values `h1..h3` for the sender handles. |
| `ChannelFacadeProofs.tla` | The inductive invariant and the proofs of `TypeOK` and `SendErrOnlyWithoutReceiver`. |
| `Channel.tla` | The facade composed with the queue and the receiver: `EXTENDS ChannelFacade`, and each sender action conjoins the facade's with the queue's. |
| `MCChannel.tla` | Model values `h1..h3` and the handle sets for the channel runs. |
| `ChannelProofs.tla` | The counting invariant and the proofs of `HangUpAfterDrain` and `ChTypeOK`. |

### RwLock: state and actions

**Build modelled.** The model is the x86_64 build, with or without the `hardware-lock-elision` feature (constant `LockElision`):
- Without that feature `try_lock_shared_uncontended` returns `None`, so no reader can ever take an unlocked lock (finding 2). Every run but `rw_default_build` sets `LockElision = TRUE`.
- Of the two x86 `unlock_exclusive` definitions, the model uses the `fetch_sub` one, as the spec's open question 2 advises.
- The other one is the mutant `ReleasedCasVariant`.

**Variables.**
- `word` is the lock word, as a record with one field per bit field (`cnt` is the count, `head` the head waiter).
- `q` is the waiter list, newest first: `Head(q)` is the head the word points to, `Last(q)` the tail.
- `counter` holds `Waiter::counter` for each thread.
- `notified` is each thread's parker token.
- `pc` is where each thread is.
- `mode` is the acquisition a thread is making or holds, X or S.
- `st` is the local `state` of `unpark` and `link_queue_or_unpark`: their CASes expect it, and a failure reloads it.
- `ret` is where `unpark` returns to.
- `towake` is what `unpark_waiters` still has to wake.

**Atomicity.** A load followed by a CAS loop whose expected value is the last load is one step, at the instant of the successful CAS. A spurious `compare_exchange_weak` failure, or a spin or backoff, is a stutter. Where the code acts on a value read earlier (`st`), the CAS compares `word = st[t]` and the failure reloads `st`, as the code does.

**Actions.**
- `Lock(t, m)` is one pass of `lock()` with the try_lock closure of mode `m`. It either acquires (`bts`, or the shared CAS with `checked_add`) or pushes the waiter. It covers:
  - `LockExclusive`, `LockShared` and `Relock` (the outer loop after `park`);
  - the standalone `try_lock_*`, whose failure changes nothing.
- `Park(t)` is `Parker::park`: it consumes the token.
- `LinkQueueOrUnpark(t)` is `link_queue_or_unpark`.
- `Unpark(t)` is `unpark`, with two disjuncts:
  - LOCKED set: drop QUEUE_LOCKED by CAS;
  - lock free: clear the list from the word by CAS and wake it all.

  The branch at lines 532-540 wakes a writer at the tail alone. It tests `Waiter::flags`, which `lock()` sets from `is_writer`, and both callers pass `false` (lines 150 and 286). It is never taken, so the model leaves it out. The spec's fairness policy (§4.2) asks for it; see the note on I4 in section 6.
- `UnparkWaiters(t)` wakes one waiter per step.
- `UnlockExclusive(t)` and `UnlockExclusiveSlow(t)` are the writer release.
- `UnlockShared(t)` is `unlock_shared`. Without waiters it takes one reader off the word (`try_unlock_shared_uncontended`), and the last one sets the word to `UNLOCKED`. With waiters it is the first half of `unlock_shared_slow`: the walk of `get_and_link_queue`, which records the tail it found in `tail[t]` (`SlowTail`).
- `UnlockSharedSlow(t)` is the rest: the `fetch_sub` on `tail[t]`'s counter and the `readers > 0` return. Splitting there lets writers push and the QUEUE_LOCKED holder run between the walk and the decrement, as they can in the code.

**Constants.**
- `Modes` restricts which lock operations threads call.
- `LockElision` is whether the crate is built with `hardware-lock-elision`.
- `ReaderMax` stands for `usize::MAX >> READER_SHIFT`.

**Code that does not compile as written.** Lines 269 and 289 do not compile, and `NonNull` is not imported. They are modelled with their evident intent: `Some(Ok(_))` and `Some(result.is_ok())`.

### ChannelFacade: state and actions

**Variables.**
- `handle` is the state of each sender handle: `unused`, `live`, `dropping` or `gone`.
- `rx` is the receiver's state.
- `arc` is `Arc::strong_count`.
- `disconnected` means the queue's `disconnect()` has been called.
- `panicked` means an `unreachable!()` was hit.
- `outcome` is each sender's last send result.

**Drops.** A drop is two steps: `Drop::drop` with its `strong_count` test, then the release of the `Arc` field. Two drops can therefore interleave as they do in the code.

**Flavour.** `Bound` selects the flavour as `channel` and `sync_channel` do: `NoBound` for unbounded, `0` for rendezvous, larger values for bounded.

### Channel: the queue and the receiver

**Variables** (added to the facade's):
- `buf` is the queue's buffer, a sequence of the handles that sent each message;
- `sent[h]` and `rcvd[h]` count the messages of `h` accepted and received;
- `txpc[h]` is `idle` or `blocked` (parked in a bounded send);
- `rxpc` is `idle` or the blocking call the receiver is parked in;
- `ret` is the last receive call and the value it returned, after conversion.

**Actions.**
- `SendCall(h)` is `Sender::send` or `SyncSender::send` (the facade's `Send`) together with the queue's `send`: the message is appended unless the queue is disconnected. A bounded send on a full buffer parks (`txpc = blocked`) and `SendWake(h)` finishes it once there is room or a disconnect. `MaxSends` bounds each handle's sends.
- `Receive(c)` is one receive call `c`: `try_recv`, `recv`, `recv_timeout`, `recv_deadline` past its deadline (`deadline_passed`; before the deadline it is `recv_timeout`), `Iter`/`IntoIter::next` (`iter`) and `TryIter::next` (`try_iter`). The queue is polled (`Poll`: a buffered message first, then the disconnect, else nothing). A blocking call that finds nothing parks; otherwise `Finish` takes the message and records the converted result (`TryRecvResult`, `RecvResult`, `RecvTimeoutResult`, `DeadlinePassedResult`, `OkOption`).
- `RecvWake` finishes a parked call once the poll has an answer, and `RecvTimedOut` finishes a parked `recv_timeout` at its deadline with one more poll.
- `ChClone`, `ChSenderDrop`, `ChReceiverDrop` and the releases are the facade's actions. A handle that is parked in `send`, or a receiver parked in a receive, is busy and cannot be dropped at the same time.
- A `try_send` that finds the buffer full returns `Full` and changes nothing, so it is a stutter.

The queue part (`HasRoom`, `Poll`, `Enqueue`, `Take`, `Finish`, `SendWake`, `RecvWake`) is modelled from spec §4.4-4.5, because the queue modules are not in the repository.

## 3. Runs

Every run uses 3 threads or 3 handles. For the lock, `ReaderMax = 2`.

| Run | Checks | Expect | What it shows |
|---|---|---|---|
| `rw_mixed` | TypeOK, MutualExclusion, ReaderCount, WaitersAccounted, QueueLockOwner, CodeAssertions, ReleaseTailCurrent | pass | Exclusion, the reader count, waiter bookkeeping, QUEUE_LOCKED ownership and the code's `assert!`s, for readers and writers together. A releasing reader's decrement hits the list's current tail. |
| `rw_writers_live` | NoLostWakeup, LockProgress | pass, under `FairSpec`, deadlock checked | With three writers: while someone is parked, someone eventually holds the lock; once lock calls stop, every parked thread is woken. |
| `rw_writers` | LockedOnlyWhileHeld, WakeupPending | pass, deadlock checked | With writers only, no state is stuck, LOCKED implies a holder, and every queued waiter has a waker. |
| `rw_reader_release_stuck` | LockedOnlyWhileHeld | violation | A reader leaving a lock with waiters leaves LOCKED set with no holder. |
| `rw_default_build` | LockProgress | violation, under `FairSpec` | Without `hardware-lock-elision`, readers alone: a reader parks on an unlocked lock and nobody ever holds it. |
| `facade_unbounded` | SendErrOnlyWithoutReceiver | pass | A send fails only once the receiver is being dropped. |
| `facade_last_sender_race` | LastSenderDisconnects | violation | Two concurrent sender drops both miss the last-sender test. |
| `facade_rendezvous_send` | NoUnreachableDispatch | violation | `sync_channel(0)` plus `SyncSender::send` panics. |
| `channel_unbounded` | ChTypeOK, HangUpAfterDrain | pass (3 handles, 1 send each) | Every receive call reports a hang-up (`Disconnected`, `RecvError`, `None` from `Iter`) only when every sender is gone and every accepted message has been received. |
| `channel_bounded` | HangUpAfterDrain, BlockedSendReturns | pass, under `ChFairSpec` (2 handles, bound 1, 2 sends each) | The same with senders parked on a full buffer, and a parked sender returns once the receiver is dropped. |
| `channel_recv_hang` | RecvReturnsOnHangUp | violation, under `ChFairSpec` | After two concurrent sender drops, a parked `recv` never returns. |

**Bounds.**
- Three threads give a holder, a waiter that installs the list and one that prepends to it. Every branch of `lock()`, of `unpark`, of both release paths and of the QUEUE_LOCKED handoff is then reachable.
- `ReaderMax = 2` makes the `checked_add` refusal happen with three readers.
- The channel runs use two or three handles, enough for a clone, a concurrent drop of two, and a drop while another handle is parked. `Bound = 1` with two sends per handle fills the buffer, so senders park. One send per handle in the unbounded run keeps it under a minute while still buffering three messages from three handles.
- Symmetry over threads is sound in `rw_mixed` and `rw_writers`: no definition names a thread.

**Deadlock checking.**
- `rw_writers` checks deadlock.
- `rw_mixed` turns it off, because with readers the code really can stop: the deadlock of finding 1.
- The facade and channel runs turn it off, because every handle may have been dropped.
- `rw_writers_live` checks deadlock: with writers only the lock never stops.

**Fairness.**
- `FairSpec` adds weak fairness of every step a thread takes on its own once it is inside a lock operation: `Relock`, `Park`, `LinkQueueOrUnpark`, `Unpark`, `UnparkWaiters` and the unlock steps. The code justifies this: none of these steps waits for anything except the lock word, and the OS schedules every runnable thread. `Park` is only enabled once the token is there, so weak fairness of it is the parker's promise to return after `unpark`.
- The user's calls (`LockExclusive`, `LockShared`) carry no fairness: a thread need never call the lock.
- `NoLostWakeup` (I3) is conditioned on `CallsStop`, meaning lock calls eventually stop. Without that condition it fails, and the failure is real: `unpark` and `link_queue_or_unpark` retry their `compare_exchange_weak` whenever the word changed. A thread that keeps locking and unlocking changes the word between the load and the CAS every time, and the parked waiter is never woken. `LockProgress` needs no such condition: meanwhile the barging thread does hold the lock.
- `ChFairSpec` gives weak fairness to the queue's wake-ups (`RecvWake`, `SendWake`) and to the `Arc` releases. The queue's `disconnect()` and `send` unpark the parked side (spec §4.4-4.5), and a drop always finishes.

**Mutants.** Every property of a passing run has a mutant in `PROJECT.json`. The mutant is a plausible bug in the definition it replaces, and TLC finds the property violated under the run's cfg. The mutants are written just before the definitions they replace:
- the `checked_add` dropped;
- READING not tested;
- the saved count lost;
- the wake walk stopping before the head;
- QUEUE_LOCKED not taken on a prepend;
- the QUEUED test dropped;
- the CAS variant of `unlock_exclusive`;
- swapped QUEUED and QUEUE_LOCKED tests;
- `>=` for `==` in the last-sender test;
- the lock-free test of `link_queue_or_unpark` misread, and the shared try-lock not testing READING (for the tail and exclusion);
- `unlock_exclusive` testing the bits the wrong way round, and the wake walk missing the head (for the liveness properties);
- a receive that does not pop, the past-deadline conversion swapped, and a parked send woken only by room.

## 4. Findings

1. **A reader's release with waiters deadlocks** (`rwlock.rs:369`).
   - `readers` is a `usize` that passed `assert_ne!(readers, 0)`, so `if readers > 0 { return; }` always returns.
   - The last reader leaves LOCKED set, and no waiter is ever woken.
   - TLC trace: a reader holds, a writer enqueues and saves count 1, the reader releases through the counter, and LOCKED stays set.
2. **Without lock elision no reader takes an unlocked lock** (`rwlock.rs:262`).
   - Without the `hardware-lock-elision` feature `try_lock_shared_uncontended` returns `None`, so `try_lock_shared_assuming` returns `None` on `UNLOCKED` (line 214).
   - `lock_shared` then pushes its waiter onto the unlocked word. The word had no QUEUED, so nobody is asked to link or unpark, and the reader parks with nobody to wake it.
   - Spec §5 says elision is an optimization that does not affect semantics. `rw_default_build` shows `LockProgress` violated: a reader is parked and no thread ever holds the lock.
3. **Concurrent sender drops lose the disconnect** (`mpsc/mod.rs:619`).
   - Each drop reads the count before any decrement, both see 3, and neither disconnects.
   - A receiver blocked in `recv` then waits forever. `channel_recv_hang` shows it under fair scheduling: after the two drops, `recv` parks and is never woken, though the `recv` docs (lines 826-830) say it returns `RecvError` once every sender has hung up.
4. **`sync_channel(0)` senders panic** (`mpsc/mod.rs:685`, and `try_send` at 743).
   - The SyncSender dispatch matches only `Bounded`, but `sync_channel(0)` builds `Rendezvous`.

## 5. Proofs

**RwLockProofs.** It assumes `ThreadsAssumption`, `NoWaiterAssumption`, `ReaderMaxAssumption`, `ModesAssumption` and `LockElisionAssumption`. From them it proves, for every finite set of threads and every `ReaderMax`:
- `TypeCorrect: Spec => []TypeOK`;
- `ReaderCountInvariant: Spec => []ReaderCount`;
- `MutualExclusionInvariant: Spec => []MutualExclusion`.

The three theorems follow from `IInvInvariant: Spec => []IInv`. Neither `TypeOK` nor `ReaderCount` is inductive alone: the decrements of `unlock_shared` are only safe because the reader is counted, and the count can only be kept right with the following facts. `IInv` conjoins:
- `TypeOK`;
- `LockWordShape`: READING implies LOCKED; QUEUED holds exactly when the list is nonempty; without QUEUED there is no head and no QUEUE_LOCKED;
- `QueueLockHeld`: a thread in `link_queue_or_unpark` or `unpark` holds QUEUE_LOCKED alone, on a queued word. If its local `state` saw the lock free, READING is still clear.;
- `WriterAlone`: a writer holds LOCKED without READING, and is the only writer;
- `ReaderCount` (these five are `CoreInv`);
- `ReleaseTailInv`: a reader between its walk and its `fetch_sub` is a reader, the list is non-empty, and its `tail` is `Last(q)`.

TLC checked `IInv` as an invariant of the `rw_mixed` model before the proof was written.

**How the proof is built.**
- `InitIInv` proves that the initial state satisfies `IInv`.
- `NextIInv` proves that every step preserves it. It rests on one lemma per action for `CoreInv`: `LockCoreInv`, `ParkCoreInv`, `LinkQueueOrUnparkCoreInv`, `UnparkCoreInv`, `UnparkWaitersCoreInv`, `UnlockExclusiveCoreInv`, `UnlockExclusiveSlowCoreInv`, `UnlockSharedCoreInv` and `UnlockSharedSlowCoreInv`, and on `ReleaseTailStep` for `ReleaseTailInv`.
- Each lemma splits the action into its branches, with one step per conjunct the branch can disturb.
- The lemmas rest on:
  - `ReverseType` and `DomainSeqLen` about sequences;
  - `HoldersFinite` and `HolderFacts` about the holder sets;
  - `FS_AddElement`, `FS_RemoveElement`, `FS_EmptySet` and `FS_Singleton` for the counts.

A fourth theorem rests on `IInv` too:
- `ReleaseTailInvariant: Spec => []ReleaseTailCurrent`. A reader between the walk and the `fetch_sub` has the list's current tail. This needs `IInv` to say so: the list is non-empty while such a reader is there, and a push prepends, which keeps `Last(q)`. Only `unpark`'s wake-all empties the list, and it cannot run then: the reader still holds READING, so the lock is not free.

**RwLockQueueProofs.** It proves `QueueLockOwnerInvariant: Spec => []QueueLockOwner` and `CodeAssertionsInvariant: Spec => []CodeAssertions`, for every set of threads. `IInv` says that a thread in `link_queue_or_unpark` or `unpark` holds QUEUE_LOCKED alone. It does not say the converse, that a set QUEUE_LOCKED has a holder. It also says nothing about the holder's local `state`, which the asserts at 488-489 and 513-514 read. `QueueLockInv` adds both:
- a set QUEUE_LOCKED has a holder. Only the push CAS and `unlock_exclusive_slow` set it, and both go on to `link_queue_or_unpark` or `unpark`. Every step that leaves those pcs clears it;
- the holder's `state` shows QUEUED and QUEUE_LOCKED. It is refreshed from the word only while the holder owns it.

`QueueLockInv` is proved inductive relative to `IInv` (`NextQueueLockInv`, one lemma per action), so the large per-action lemmas of `RwLockProofs` are left untouched. `CodeAssertions` also uses `ReaderCounted`: a holding reader makes the count non-zero.

The module's first section proves lemmas about the list operations the model uses. Each gives which threads a list holds (`Range`) and that it holds each thread at most once (`IsInjective`):
- `PushList` for lock()'s push `<<t>> \o q`;
- `PopList` for unpark_waiters' `Tail`;
- `ReverseList` for the wake order;
- `EmptyList` and `SingletonList` as small helpers.

**RwLockWakeProofs.** `WaitersAccountedInvariant: Spec => []WaitersAccounted` rests on `WakeAcct`. It is checked by TLC first, as an invariant of the `rw_mixed` model with 3 and 4 threads. `WaitersAccounted` alone is not inductive. A thread that leaves `link_queue_or_unpark` or `unpark_waiters` for `park` must already be accounted for. A thread leaving for `idle` must be in no list. Both depend on `ret`, the pc that lock() returns to. `WakeAcct` is the conjunction of two parts:
- `ListsDisjoint`: the list and the wake lists are injective and pairwise disjoint;
- `WaiterState(t)`, for every thread, which says:
  - a queued or waking thread has `ret = "park"`, no token, and a pc in `InLock`;
  - only a thread in `park` or `unpark_waiters` is in a wake list;
  - a token is pending only for a thread in `park`, or for one in `unpark_waiters` with `ret = "park"`;
  - a pushed thread in `link_queue_or_unpark`, `unpark` or `unpark_waiters` is accounted for;
  - only a thread in `unpark_waiters` holds a non-empty wake list;
  - `unlock_exclusive_slow` runs with `ret = "idle"`.

The proof has one lemma per action. `WakeFrame` and `OutsideStep` handle the steps that change only one thread's pc and `ret`. `MoveToWake` handles the wake-all of `unpark`, which moves the list into its empty wake list. Moved threads other than the holder are parked or in `unpark_waiters`, because only the holder of QUEUE_LOCKED runs `link_queue_or_unpark` or `unpark` (`OnlyHolder`).

`WakeupPendingInvariant: ASSUME LockElision PROVE Spec => []WakeupPending` holds for both modes, which is more than the writers-only run checks. Without elision it fails (finding 2: a reader pushes onto an unlocked word), so the hypothesis is needed. It rests on `WakeAcct` and `WakerBusy`, which says that a thread in `unpark_waiters` has a non-empty wake list. Three cases carry the argument:
- the last wake-up of `unpark_waiters` leaves a witness: the woken thread parked with its token, or itself walking a wake list;
- `unlock_exclusive` clears LOCKED on a queued word only when QUEUE_LOCKED is held or it enters its slow path;
- a push on a word without QUEUED finds LOCKED set (`PushLocked`: a word without LOCKED and QUEUED is `UNLOCKED`, by `ReaderCount`, and with elision both try-locks apply to it).

A further theorem carries the hypothesis of the run that checks it:
- `LockedOnlyWhileHeldWriters: ASSUME Modes = {"X"} PROVE Spec => []LockedOnlyWhileHeld`. It rests on `ModesInv` and `LockedHeld`. With readers the property fails (finding 1), so the hypothesis is needed.

**ChannelFacadeProofs.** It proves `TypeCorrect` and `SendErrInvariant` for any number of handles. The inductive invariant states two facts:
- `arc` equals the number of unreleased handles plus the receiver;
- a disconnect while the receiver lives leaves no live sender.

**ChannelProofs.** It proves `HangUpAfterDrainInvariant: ChSpec => []HangUpAfterDrain` for any handles, bound and `MaxSends`. `HangUpAfterDrain` is not inductive: a later receive could see an empty buffer only because of what was sent and taken earlier. `ChIInv` adds:
- the facade's `IInv` (the `arc` count);
- a count per handle: `sent[h] = rcvd[h] + Occ(buf, h)`, where `Occ` is the number of positions of `h` in `buf`;
- a parked sender is live, and a parked receive needs a live receiver;
- the last result being a hang-up implies an empty buffer and no live handle.

`ChTypeCorrect: ChSpec => []ChTypeOK` rests on `ChTypeInv`, which is `ChIInv` plus two facts:
- `SendBound`: no handle sends more than `MaxSends`, and a parked sender has a send left;
- `RetType`: the receive result is in `RxResults`. This is the finite set of results after the facade's conversion; a set of string literals, rather than `STRING`, is what the provers can check.

`FacadeStep` shows that every channel step is a facade step or a stutter, so the facade's invariant carries over. The lemmas `OccEmpty`, `OccAppend` and `OccTail` give the count after each queue operation (`OccTail` through the bijection `i |-> i + 1` and `FS_Bijection`). `FinishStep` and `EnqueueStep` do the two queue operations once for all the actions that use them.

**Only model-checked.** These are checked by TLC and not proved:
- the liveness properties `NoLostWakeup`, `LockProgress` and `BlockedSendReturns`;
- the violations (runs with `expect: violation`), which TLC exhibits by a trace.

Every safety invariant of a passing run has a theorem.

**Out of the provers' reach.** These stay with TLC:
- liveness under fairness, and `ENABLED`;
- induction over data;
- modules with RECURSIVE operators. None of the modules here declares one.

## 6. Not modelled, and what is left

- **The queue modules.** `mpsc::unbounded`, `bounded`, `rendezvous` and `shared` (Waiter, Parker, SpinWait) are not in the repository. The lock uses them only through the list of waiters and the parker token. The unbounded and bounded queues are modelled from the spec in `Channel`. The rendezvous handoff is not: no `SyncSender::send` can reach it (finding 4), and `Sender` is never built on it.
- **`unpark_requeue`** (`rwlock.rs` 440-484). It is `pub(super)`, and its caller, a condition variable, is not in the sources. What lists it is handed, and what the caller does after it returns, are unknown, so the step cannot be sequenced faithfully. Reading the code shows two defects:
  - line 458 `new_state | QUEUE_LOCKED;` has no effect, so on a queued word that nobody QUEUE_LOCKs, the following `link_queue_or_unpark` fires its first `assert_ne!`;
  - a requeue onto a reader-held word does not save the count.
- **The link race at `rwlock.rs:364`.** `get_and_link_queue` writes `prev` links without QUEUE_LOCKED. The links are abstracted into the sequence `q`, so that data race is not observed. The stale-tail consequence is what `ReleaseTailCurrent` covers.
- **The timeout race of `recv_timeout`.** The second look after the deadline is in the queue module. `Channel` models it (`RecvTimedOut` polls once more), but no property separates a timeout from a late message.
- **Formatting.** `Display` and `Error` impls and the `lock_api` aliases are left out.
- **I4, writer non-starvation.** The writer-alone wake of spec §4.2 is dead code (`is_writer = false` at lines 150 and 286), so a tail writer is woken with every reader behind it. No property checks I4. With readers and a queued writer, the first reader release reaches the deadlock of finding 1 before any starvation can show, so a writer-progress property would be violated by that bug and say nothing about the wake policy.
- **The prev-read order of `unpark_waiters`** (lines 566-567). A woken waiter's node may die, so `prev` is read before the unpark. The model wakes one thread per step from a sequence and never reuses a node, so this order is not observed.
- **Next steps:**
  - I4 once finding 1 is fixed;
  - an abstract specification of the channel, and a proof that `Channel` implements it.
