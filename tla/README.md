# TLA+ models of HYU-ITE4065 (project2 and project3)

This directory holds TLA+ models of the two concurrent cores of the repository:

- **Core A** (`src/project2`) is a wait-free atomic snapshot. It has one
  single-writer register per thread and one versioned snapshot holder per
  writer. `update()` scans, publishes the scan, then writes.
- **Core B** (`src/project3`) is a two-phase-locking lock table. Each record has
  a lock-free request queue, request objects are recycled, there is a
  conflict-graph deadlock detector and a condition-variable wait. Above the
  table sits a transaction manager whose commit log the harness's `IsCorrect`
  replays.

`PROJECT.json` lists the components, runs, mutants, the map from definitions to
source lines, findings and hazards.

## Inventory

| Part | Source | State | Operations | Module |
|---|---|---|---|---|
| Packed register | `project2/include/AtomicRegister.hpp` | 64-bit (timestamp, value), a plain `uint64_t` | `write`, copy | `WaitfreeAtomicSnapshot` (`reg`, store buffers `wbuf`) |
| Snapshot holder | `project2/src/WaitfreeAtomicSnapshot.cpp` 46-203 | N+1 buffers, inner counts, recycle flags, control word (outer count, index) | `acquire`, `release`, `exchange` (search, install, swap, reset) | `WaitfreeAtomicSnapshot` (`bufs`, `inner`, `recycle`, `ctrl`) |
| Snapshot engine | same file, 233-304 | per-thread collect vectors, change counts | `scan`, `update` | `WaitfreeAtomicSnapshot` |
| Thread registry | same file, 221-230 | hash_mutex, tid_index, tid_to_index | `RegisterTid` | `WaitfreeAtomicSnapshot` (`slot`, `tidIndex`, `hashMutex`) |
| Core A harness | `project2/src/main.cpp` 14-73 | count, total_count | CountUpdate loop | `WaitfreeAtomicSnapshot` (`count`, `totalCount`, `Finish`) |
| Lock record / request | `project3/include/{LockManager,Lock}.hpp` | head, tail, head_mutex, value; every `lock_t` field | - | `LockManager` |
| AcquireLock | `project3/src/Acquire.cpp` 24-254 | per-thread pool, locals | recycle/new, tail exchange, link, id hand-over, scan, compatibility loop, deadlock exit, wait | `LockManager` |
| ReleaseLock | `project3/src/Release.cpp` 15-120 | - | OBSOLETE, head_mutex, head advance, wake head, wake SHARED chain | `LockManager` |
| IsDeadlock | `project3/src/Deadlock.cpp` 40-169 | conflict pointers; queue, pass set, loaded conflict lock and id, walk target, tmp | BFS over waits-for | `LockManager` (one atomic operator, or one step per read with `DeadlockSteps`) |
| Global-mutex build | `Acquire.cpp` 257-415, `Release.cpp` 124-226, `Deadlock.cpp` 173-268 | global_mutex | AcquireLock, ReleaseLock, IsDeadlock2 | `LockManager` (`G*` actions, with `GlobalMutex`) |
| Lock-table promise | - | holders per record | grant, release | `LockTable` (abstract) |
| TrxManager | `project3/src/TrxManager.cpp` 40-189 | deque, conflict lock, global counter, commit log | Begin, Find, Update, Abort, Commit | `TrxManager` |
| Harness | `project3/src/main.cpp` 112-341 | - | RepeatTrx loop, IsCorrect replay | `TrxManager` (worker actions, `Replay`) |

These parts interact as follows:

- **Core A.** Each writer publishes a scan into its own holder. Any scanner may
  borrow that buffer through `acquire`/`release` while the writer `exchange`s a
  new one in. The reference counts decide when a buffer may be recycled.
- **Core B.** Transactions call AcquireLock and ReleaseLock. Several threads
  meet in one record's queue and walk nodes that other threads recycle.
  ReleaseLock wakes waiters through each transaction's mutex and condvar.
  IsDeadlock reads the other threads' conflict pointers.

## Modules

- **`WaitfreeAtomicSnapshot`** takes one step per atomic access of the code: a
  register read, the control-word fetch_add, the copy out of a borrowed buffer,
  release, installing a buffer, the exchange, reset and the register write.
  `pc` holds the code position of each thread. `MC_WaitfreeAtomicSnapshot`
  instantiates it with 2 writers and 4 updates each.
  - Each thread starts in `RegisterTid`: `RegisterLock` takes hash_mutex,
    `RegisterRead` is the load of `tid_index++`, and `RegisterInsert` is its
    store, the map insert and the unlock. The thread's `slot` then indexes
    the register, holder and buffers it writes.
  - **Memory model.** `timestamp_with_value` is a plain `uint64_t`, so its
    store goes through the writing CPU's store buffer (x86-TSO).
    - `Write` puts the new word in `wbuf[p]`, and `Drain(p)` later moves it
      into `reg`.
    - `Load(p, k)` is a register read: a thread sees its own buffered
      store, but not another thread's.
    - Every locked read-modify-write first waits for the thread's buffer
      to drain (`StoreBufferEmpty`). These are the fetch_adds of acquire
      and release, the exchange, reset's fetch_sub and `total_count`'s
      fetch_add.
    - An aligned 64-bit load or store is not torn on x86-64, so each is one
      step.
  - `recycle_flag` is a plain `bool`. The flag a reader stores in `release`
    is `pending` until that thread's next atomic read-modify-write (its
    control-word exchange). Until then the owner's search in `Install` may
    still read it as false (`StaleFlags`, `VisibleFree`).
- **`LockManager`** holds the lock table and the two procedures AcquireLock
  and ReleaseLock as labelled steps.
  - `pc` holds the label; `ret` holds the caller's return label.
  - The `a*` and `r*` variables are the procedures' locals.
  - `lockFields` are the fields of every `lock_t` in the per-thread pool of
    `PoolSize` objects.
  - One step is one atomic access or one critical section. For example,
    `TailExchange` is `tail.exchange`; `ScanStep` reads one node's fields;
    `ReleaseAdvance` advances head one node while holding head_mutex.
  - `WaitCheck`/`Wakeup` are the locked check of `signal_flag`, then the
    return from `cond.wait`.
  - With the constant `SpuriousWakeup`, `Wakeup` may also return without a
    signal, which is what `std::condition_variable::wait` allows.
- **The global-mutex build.** The constant `GlobalMutex` selects it: the
  callers enter AcquireLock at `g_acquire` and ReleaseLock at `g_release`
  (`AcquireEntry`, `ReleaseEntry`).
  - Every critical section under `global_mutex` is one step: `GAcquireLock`
    (allocation, enqueue, the path to new_lock), the compatibility check
    with `IsDeadlock2`, and `GReleaseLock`/`GReleaseAdvance`.
  - The mutex itself is "no thread at `g_compat`" (`GlobalMutexFree`), and
    `cond.wait` drops it (`g_sleep`).
- **IsDeadlock step by step.** With the constant `DeadlockSteps`, Recheck
  fills `wait_lock_queue` and the `Detect*` actions run the search. There is
  one step per read of shared state:
  - the pop with its state test;
  - the `conflict_lock` load, then the `lock_id_on_record` load;
  - the head load;
  - each walk iteration (the conflict-moved test, the own-lock test, and
    the step to `next`);
  - the restart from head.

  Other threads' locks, conflict pointers and ids move in between. Without
  `DeadlockSteps`, `IsDeadlock` is one atomic operator, which keeps the
  other runs small.
- **`LockTable`** is the abstract specification of what the lock table
  promises: per record, the set of (transaction, mode) pairs holding it. A
  grant needs compatibility with every holder. `LockManager` maps its state
  onto it (`GrantedMap`: the granted locks in a transaction's deque) through
  `INSTANCE LockTable WITH granted <- GrantedMap`. `ImplementsLockTable`
  checks that every step of either build is a grant, a release or a
  stutter of the abstract table.
- **`TrxManager`** extends `LockManager` with the RepeatTrx worker of
  `main.cpp` and the TrxManager calls it makes: Begin, Find(i), Update(j),
  Update(k), Commit, Abort on a nullptr result, and rollback above the commit
  cap. The constant `Draws` gives the triples the random draw may produce.
  It is every triple, except in `trx_deadlock_steps`, which fixes one per
  worker.
- **`LockClient`** extends `LockManager` with one-lock transactions on a single
  record. It puts several requests in one queue, which reaches the
  recycling and SHARED-chain cases within TLC's range.

The `MC_*` modules do three things:

- give the model values;
- define symmetry sets over threads and records;
- define a VIEW (`MCView`) that replaces the locals of a procedure a thread is
  not executing by `NoLock` or an empty value.

The code never reads those locals before assigning them. Two states that
differ only in them therefore behave alike, and the VIEW is sound for safety.
Liveness runs use neither VIEW nor symmetry.

## Runs

| Run | What it shows |
|---|---|
| `snapshot` | All under the store-buffer memory model. `UpdateReturns`: with only thread 0 scheduled fairly, thread 0 finishes every update it starts, whatever thread 1 does (wait-freedom). `SlotsDistinct`: `RegisterTid` gives every thread its own register index, the premise of single-writer registers. `BorrowedBufferIntact`: a buffer being copied out is never recycled and overwritten. `ExchangeFindsFreeVersion`: N+1 versions always leave a free one, even when a flag just set by a reader still reads as false. `ScanWaitFree`: no scan needs more than N+1 collects. |
| `store_buffering` | Expected violation of `ScanSeesOwnUpdates`: a scan must hold the scanning thread's own register as its last write left it. Thread 1's store is still buffered while thread 0 scans, and thread 0 publishes that scan. Thread 1's next scan borrows it and returns its own register one write behind. So `scan()` is not linearizable on x86, because `AtomicRegister.hpp:88` is a plain store. |
| `trx_serializable` | `ImplementsLockTable`: the default build refines `LockTable`. `GrantsFollowQueueOrder`: no request is granted while an earlier live incompatible request on the record exists. `CommitLogSerializable`: the commit log replays in commit-id order as `IsCorrect` does. This covers aborts after partial updates and deadlock exits. TLC's deadlock check also shows that the detector breaks every cycle. |
| `trx_commit_cap` | `LogComplete`: when workers stop at the cap, exactly `last_commit_id` lines are logged. |
| `client_recycling` | `QueueIntact`: every enqueued request is reachable from head with consecutive ids, while `lock_t`s are reused. `GrantsFollowQueueOrder` is checked on the same run. |
| `client_shared` | Three requests in one queue. It checks the SHARED wake-up chain behind a new head against `GrantsFollowQueueOrder`. |
| `client_liveness` | `AllWorkersFinish`: every AcquireLock and ReleaseLock returns and every worker finishes its transactions. This rules out lost wake-ups, endless scan restarts and a stuck hand-over. |
| `trx_deadlock_steps` | `NoStrandedWaiters` with IsDeadlock taken one read at a time, for three workers: t1 and t2 lock r1 and r2 in opposite orders, and t3 queues behind both. The workers never all end blocked in `cond.wait` with no notify coming. This checks `Deadlock.cpp`'s claim that, when a moving conflict lock makes one detector drop its walk, the other detector still sees the cycle. |
| `global_trx` | The transaction workload in the global-mutex build. It checks `GrantsFollowChainOrder` (grants follow the position in the chain, since this build has no ids), `CommitLogSerializable`, `NoStrandedWaiters` for `IsDeadlock2`, and `ImplementsLockTable`. |
| `global_client` | Reuse of `lock_t`s and the SHARED wake-all in the global build, with three workers of two transactions each and a pool of 2. It checks `GrantsFollowChainOrder` and `ImplementsLockTable`. |
| `global_client_liveness` | `AllWorkersFinish` in the global build. |
| `spurious_wakeup` | Expected violation. A `cond.wait` that returns without a notify lets AcquireLock grant t2's EXCLUSIVE request while t1's earlier SHARED request is still ACTIVE at the head of the queue. `Acquire.cpp:243-246` uses `if`, not a predicate loop. |

Every property has a mutant in `PROJECT.json`: a plausible bug in the mapped
code that TLC finds under the same configuration. Examples include borrowing
only after three changes, one buffer too few, no rollback on abort, an off-by-one
commit cap, recycling without the id hand-over, restarting the scan one id
early, and stopping the SHARED wake loop only at the end of the queue.

## Bounds

- **Snapshot.** 2 writers and 4 updates each. That is enough for a writer to
  change twice during the other's scan, which forces a borrow. It is also
  enough for the writer to cycle through all three buffers while the scanner
  still holds one. A single value suffices, because timestamps tell register
  states apart. The store buffers add about 1 million states, and the run
  takes about 1.5 minutes. `store_buffering` needs only 2 updates per
  thread: its violation takes 46 steps.
- **Transactions.** 2 workers, 3 records, one attempt each, a pool of 1 and a
  cap of 2, or 1 for `trx_commit_cap`. With symmetry over workers and
  records this is about 18,000 distinct states. Two workers that pick (i, j, k) on
  overlapping records reach lock upgrades within a transaction, deadlock
  cycles, aborts after a partial update, and commits whose releases interleave.
- **Step-wise detection.** `trx_deadlock_steps` needs a queue of three
  locks before a walk steps over a node or restarts. That takes three
  workers.
  - t3 reads a fourth record of its own, r4, before writing r1 and r2.
    Reading r3, on which t1 and t2 also queue, adds about 650,000 states
    but no new case. The run is about 1.8 million states, or 2 to 3
    minutes.
  - With one draw per worker there is no symmetry to exploit.
  - Two workers reach the racing detectors, but never a walk longer than
    one node.
  - A third attempt or a larger pool does not finish within the time
    bound.
- **Global build.** `global_trx` uses two workers with one attempt each; three
  workers do not finish within five minutes. `global_client` runs three
  workers × 2 transactions with a pool of 2, about 274,000 states in about
  a minute. The coarser steps of this build make that fit; the default
  build needs two separate client runs for the same cases.
- **Client.** One record:
  - 2 workers × 2 transactions with a pool of 2 reach reuse of a `lock_t`;
  - 3 workers × 1 transaction reach queues of three and the SHARED chain.
  - The liveness run uses 2 × 2 and no reductions. It completes in under a
    minute.

## Fairness

Workers are OS threads, so every thread that can step eventually does: weak
fairness on each thread's steps.

The snapshot module takes the fair threads as the constant `Scheduled`.
- The `snapshot` run makes only thread 0 fair. Thread 1 may then stop for
  good between any two steps, which is the setting wait-freedom is about.
  `UpdateReturns` holds for thread 0 there.
- `RegisterTid` blocks on `hash_mutex`, so the property covers `update()`
  only.
- `store_buffering` makes every thread fair.
- `Drain(p)` is one of thread p's steps, so a fair thread's buffer drains
  eventually, as a CPU's store buffer does. A thread that stops may leave
  its store buffered. This over-approximates the hardware, which is
  harmless for the other thread's progress.

`head_mutex`, and `global_mutex` in the other build, are blocking mutexes
that other threads take and drop again. A thread waiting for one is only
sure to get it under strong fairness on the steps that take it (`MutexStep`:
`ReleaseLockHead`, `GAcquireLock`, `GWakeup`, `GReleaseLock`,
`GReleaseAdvance`). This matches a fair futex-based mutex.

No fairness is assumed for spurious wake-ups.

The liveness runs set `CHECK_DEADLOCK FALSE`, because the workers do stop
once their transactions are done. Termination is checked instead as the
property `AllWorkersFinish`. A lost wake-up therefore shows up as a
violated property rather than as a deadlock.

## Abstractions and what is not modelled

- `IsDeadlock` is one atomic step except in `trx_deadlock_steps`.
- In the step-wise model, two reads are merged into one step:
  - the conflict-moved test reads `conflict_lock` and the lock's id;
  - the restart reads head and its id.
- The critical sections under a transaction's mutex are atomic, as in the
  code.
- The TrxManager overloads that take `global_mutex` make the same
  AcquireLock/ReleaseLock calls as the default ones. `RepeatTrx2` is
  RepeatTrx with those overloads. Both are modelled by the same worker
  actions, with `GlobalMutex` selecting the procedures.
- Also not modelled:
  - the thread registry `GetTrxNode` of Core B, which is identity on
    threads;
  - the `tid_to_index` lookup in `update`, which is unused because
    `CountUpdate` passes its index;
  - file output, timing, and random number generation, which becomes a
    nondeterministic choice.
- Timestamp overflow is not modelled. Updates per thread stay far below
  2^32, so the `assert(new_timestamp_mask != 0)` of `write()` never fires
  and the timestamp never wraps.
- The memory model is x86-TSO, with no stronger reordering. The code's
  unsynchronized access to `timestamp_with_value` is a data race, so the
  C++ standard does not define it at all. The model takes what an x86-64
  build does: a single 64-bit load or store, with no reordering by the
  compiler. Under the weaker ARM model the same race allows more
  behaviours still.
- The recycle_flag store of `release` and the register store are not kept
  in one FIFO buffer. The flag's visibility is over-approximated: any
  search before the thread's next exchange may miss it.
- A torn read of `recycle_flag` is not modelled, since a `bool` store is
  single-byte. Only the delayed visibility of the store is modelled.

## Left open

- **Termination of RepeatTrx with deadlock aborts.** This is not checked
  as a liveness property.
  - The runs that reach wait-for cycles (`trx_serializable`, `global_trx`,
    `trx_deadlock_steps`) use a VIEW, or symmetry, or both. TLC cannot use
    either when it checks liveness, and without them these runs do not
    finish within five minutes.
  - Their deadlock check still shows that no reachable state leaves a
    worker stuck.
  - `client_liveness` and `global_client_liveness` check termination for
    one-lock transactions.
- **A longer step-wise detector run.** More attempts or a larger pool in
  `trx_deadlock_steps` need a smaller encoding of the queue.
