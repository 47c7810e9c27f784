----------------------- MODULE WaitfreeAtomicSnapshot -----------------------
(***************************************************************************)
(* The wait-free atomic snapshot of project2: one SWMR AtomicRegister per  *)
(* writer thread, one shared_snapshot holder per writer with             *)
(* version_count = thread_count + 1 Snapshot buffers and a packed control  *)
(* word (outer reference count, current index), and update(), which      *)
(* scans, exchanges the scan into the caller's holder and then writes the  *)
(* caller's register.  As in main.cpp, every thread is a writer that       *)
(* repeatedly calls update(); scan() runs inside update().                 *)
(*                                                                         *)
(* Each thread first takes its register index from RegisterTid(), under  *)
(* hash_mutex; the per-writer state below is indexed by that slot.        *)
(*                                                                         *)
(* Granularity: one step per atomic access of the code -- each read of a   *)
(* packed 64-bit register, the fetch_add on the control word, the copy out *)
(* of a borrowed buffer, the release fetch_add, the buffer installation,   *)
(* the control-word exchange, the reset fetch_sub and the register write.  *)
(*                                                                         *)
(* Memory model: timestamp_with_value is a plain uint64_t, so the store of *)
(* write() goes through the writing CPU's store buffer (x86-TSO): the      *)
(* writer's own loads see it at once, other threads only once it drains.   *)
(* It drains in a step of its own, or before the thread's next locked      *)
(* read-modify-write (fetch_add, exchange, fetch_sub).                     *)
(***************************************************************************)
EXTENDS Integers, FiniteSets

CONSTANTS
  ThreadCount,  \* thread_count: number of writer threads and registers
  Values,       \* values passed to update() (random ints in main.cpp)
  MaxWrites,    \* bound: updates per writer (the harness runs 60 s)
  NoSnapshot,   \* nullptr in snapshot_ptr_vector
  Scheduled     \* the threads the scheduler is assumed to keep running

ASSUME ThreadCount \in Nat \ {0}
ASSUME MaxWrites \in Nat \ {0}
ASSUME Scheduled \subseteq 0 .. ThreadCount - 1

Writers == 0 .. ThreadCount - 1

\* Fault variant: one buffer per writer thread only.
VersionCountTooFew == ThreadCount

\* WaitfreeAtomicSnapshot(): shared_snapshot_vector.emplace_back(thread_count + 1)
VersionCount == ThreadCount + 1

Versions == 0 .. VersionCount - 1

\* Before RegisterTid() returns: no slot yet, hash_mutex not held.
NoSlot == -1
NoHolder == -1

\* No recycle_flag store of the thread is waiting to become visible.
NoFlag == <<>>

\* The thread's store buffer holds no register store.
NoStore == <<>>

\* AtomicRegister::timestamp_with_value: the high half is the timestamp,
\* the low half the value.  The default register is the all-zero word.
\* With MaxWrites far below 2^32 the timestamp never wraps.
Reg == [ts : 0 .. MaxWrites, val : Values \cup {0}]
ZeroReg == [ts |-> 0, val |-> 0]

\* A Snapshot's atomic_register_vector.
Snap == [Writers -> Reg]

VARIABLES
  reg,        \* atomic_register_vector
  bufs,       \* bufs[w][b]: *snapshot_ptr_vector[b] of writer w's holder
  inner,      \* inner[w][b]: Snapshot::inner_cnt
  recycle,    \* recycle[w][b]: Snapshot::recycle_flag
  ctrl,       \* ctrl[w]: outer_cnt_with_index as [cnt, idx]
  pc,         \* program counter of each thread
  first,      \* scan(): first_snapshot
  second,     \* scan(): second_snapshot
  i,          \* loop index of the collect loops
  cc,         \* scan(): change_count_vector
  same,       \* scan(): same_flag
  borrow,     \* scan(): the writer whose register changed twice
  held,       \* acquire(): the index the fetch_add landed on
  xSlot,      \* exchange(): the free index found
  xOld,       \* exchange(): the old control word
  collects,   \* ghost: collects done by the running scan
  bufVer,     \* ghost: installations into each buffer
  heldVer,    \* ghost: bufVer of the held buffer when it was acquired
  count,      \* CountUpdate: count
  totalCount, \* total_count
  slot,       \* CountUpdate: index, also its tid_to_index entry
  tidIndex,   \* tid_index
  hashMutex,  \* the thread holding hash_mutex, or NoHolder
  pending,    \* pending[p]: the <<writer, index>> whose recycle_flag p
              \* stored in release() and may not yet be visible to others
  wbuf        \* wbuf[p]: p's register store still in its store buffer

holderVars == <<bufs, inner, recycle, ctrl>>
scanVars == <<first, second, i, cc, same, borrow, held>>
ghostVars == <<collects, bufVer, heldVer>>
harnessVars == <<count, totalCount, slot, tidIndex, hashMutex>>
vars == <<reg, holderVars, pc, scanVars, xSlot, xOld, ghostVars, harnessVars,
          pending, wbuf>>

ScanLabels == {"first", "second", "acquire", "copy", "release"}

TypeOK ==
  /\ reg \in [Writers -> Reg]
  /\ bufs \in [Writers -> [Versions -> Snap \cup {NoSnapshot}]]
  /\ inner \in [Writers -> [Versions -> Int]]
  /\ recycle \in [Writers -> [Versions -> BOOLEAN]]
  \* The outer count only counts readers that landed since the last
  \* exchange: at most one per other thread.
  /\ ctrl \in [Writers -> [cnt : 0 .. ThreadCount - 1, idx : Versions]]
  /\ pc \in [Writers -> ScanLabels \cup {"idle", "x_install", "x_swap",
                                        "x_reset", "write", "done",
                                        "register", "r_read", "r_insert"}]
  /\ first \in [Writers -> Snap]
  /\ second \in [Writers -> Snap]
  /\ i \in [Writers -> Writers]
  /\ cc \in [Writers -> [Writers -> Nat]]
  /\ same \in [Writers -> BOOLEAN]
  /\ borrow \in [Writers -> Writers]
  /\ held \in [Writers -> Versions]
  /\ xSlot \in [Writers -> Versions]
  /\ xOld \in [Writers -> [cnt : Nat, idx : Versions]]
  /\ count \in [Writers -> 0 .. MaxWrites]
  /\ slot \in [Writers -> Writers \cup {NoSlot}]
  /\ tidIndex \in 0 .. ThreadCount
  /\ hashMutex \in Writers \cup {NoHolder}
  /\ pending \in [Writers -> (Writers \X Versions) \cup {NoFlag}]
  /\ wbuf \in [Writers -> Reg \cup {NoStore}]

Init ==
  /\ reg = [w \in Writers |-> ZeroReg]
  /\ bufs = [w \in Writers |-> [b \in Versions |-> NoSnapshot]]
  /\ inner = [w \in Writers |-> [b \in Versions |-> 0]]
  /\ recycle = [w \in Writers |-> [b \in Versions |-> FALSE]]
  /\ ctrl = [w \in Writers |-> [cnt |-> 0, idx |-> 0]]
  /\ pc = [p \in Writers |-> "register"]
  /\ first = [p \in Writers |-> [w \in Writers |-> ZeroReg]]
  /\ second = [p \in Writers |-> [w \in Writers |-> ZeroReg]]
  /\ i = [p \in Writers |-> 0]
  /\ cc = [p \in Writers |-> [w \in Writers |-> 0]]
  /\ same = [p \in Writers |-> TRUE]
  /\ borrow = [p \in Writers |-> 0]
  /\ held = [p \in Writers |-> 0]
  /\ xSlot = [p \in Writers |-> 0]
  /\ xOld = [p \in Writers |-> [cnt |-> 0, idx |-> 0]]
  /\ collects = [p \in Writers |-> 0]
  /\ bufVer = [w \in Writers |-> [b \in Versions |-> 0]]
  /\ heldVer = [p \in Writers |-> 0]
  /\ count = [p \in Writers |-> 0]
  /\ totalCount = 0
  /\ slot = [p \in Writers |-> NoSlot]
  /\ tidIndex = 0
  /\ hashMutex = NoHolder
  /\ pending = [p \in Writers |-> NoFlag]
  /\ wbuf = [p \in Writers |-> NoStore]

Goto(p, l) == pc' = [pc EXCEPT ![p] = l]

LastWriter == ThreadCount - 1

-----------------------------------------------------------------------------
(* RegisterTid() *)

\* Fault variant: RegisterTid() without its unique_lock.
HashMutexIgnored(p) == TRUE

\* std::unique_lock<std::mutex> lock(hash_mutex) can be taken.
HashMutexFree(p) == hashMutex = NoHolder

\* CountUpdate calls RegisterTid(), which locks hash_mutex.
RegisterLock(p) ==
  /\ pc[p] = "register"
  /\ HashMutexFree(p)
  /\ hashMutex' = p
  /\ Goto(p, "r_read")
  /\ UNCHANGED <<reg, holderVars, scanVars, xSlot, xOld, ghostVars, count,
                 totalCount, slot, tidIndex, pending, wbuf>>

\* int index = tid_index++: the load of tid_index.
RegisterRead(p) ==
  /\ pc[p] = "r_read"
  /\ slot' = [slot EXCEPT ![p] = tidIndex]
  /\ Goto(p, "r_insert")
  /\ UNCHANGED <<reg, holderVars, scanVars, xSlot, xOld, ghostVars, count,
                 totalCount, tidIndex, hashMutex, pending, wbuf>>

\* The store of tid_index++, tid_to_index.insert(tid, index), return, and
\* the unlock of hash_mutex by the lock's destructor.
RegisterInsert(p) ==
  /\ pc[p] = "r_insert"
  /\ tidIndex' = slot[p] + 1
  /\ hashMutex' = NoHolder
  /\ Goto(p, "idle")
  /\ UNCHANGED <<reg, holderVars, scanVars, xSlot, xOld, ghostVars, count,
                 totalCount, slot, pending, wbuf>>

-----------------------------------------------------------------------------
(* scan() *)

\* A plain load of register k by p: p's own store is forwarded from its
\* store buffer; another thread's buffered store is not visible.
Load(p, k) == IF k = slot[p] /\ wbuf[p] /= NoStore THEN wbuf[p] ELSE reg[k]

\* No register store of p is waiting in its store buffer: a locked
\* read-modify-write of p drains the buffer before it takes effect.
StoreBufferEmpty(p) == wbuf[p] = NoStore

\* update() calls scan(); scan() builds first_snapshot by copying the
\* registers (the copy reads them one at a time).
StartUpdate(p) ==
  /\ pc[p] = "idle"
  /\ count[p] < MaxWrites
  /\ Goto(p, "first")
  /\ i' = [i EXCEPT ![p] = 0]
  /\ cc' = [cc EXCEPT ![p] = [w \in Writers |-> 0]]
  /\ same' = [same EXCEPT ![p] = TRUE]
  /\ collects' = [collects EXCEPT ![p] = 1]
  /\ UNCHANGED <<reg, holderVars, first, second, borrow, held, xSlot, xOld,
                 bufVer, heldVer,
                 harnessVars, pending, wbuf>>

\* Snapshot first_snapshot(atomic_register_vector): read register i[p].
FirstCollect(p) ==
  /\ pc[p] = "first"
  /\ first' = [first EXCEPT ![p][i[p]] = Load(p, i[p])]
  /\ IF i[p] = LastWriter
       THEN /\ Goto(p, "second")
            /\ i' = [i EXCEPT ![p] = 0]
            /\ collects' = [collects EXCEPT ![p] = @ + 1]
       ELSE /\ i' = [i EXCEPT ![p] = @ + 1]
            /\ UNCHANGED <<pc, collects>>
  /\ UNCHANGED <<reg, holderVars, second, cc, same, borrow, held, xSlot,
                 xOld, bufVer, heldVer,
                 harnessVars, pending, wbuf>>

\* Fault variant: borrow only on the third change.
BorrowAfterThreeChanges == 3

\* if (++change_count_vector[i] == 2): the change count at which scan()
\* returns the changing writer's published snapshot.
BorrowThreshold == 2

\* One iteration of the for loop of the while (true) loop of scan():
\* read register i into second_snapshot, compare it with first_snapshot,
\* count a change, borrow the writer's snapshot on its second change, and
\* at the end of the collect either return first_snapshot (clean collect)
\* or continue with first_snapshot = second_snapshot.
SecondCollect(p) ==
  LET k == i[p]
      r == Load(p, k)
      changed == first[p][k] /= r
      cnt == IF changed THEN cc[p][k] + 1 ELSE cc[p][k]
      clean == same[p] /\ ~changed
      snap2 == [second[p] EXCEPT ![k] = r]
  IN
  /\ pc[p] = "second"
  /\ second' = [second EXCEPT ![p] = snap2]
  /\ cc' = [cc EXCEPT ![p][k] = cnt]
  /\ IF changed /\ cnt = BorrowThreshold
       THEN /\ Goto(p, "acquire")
            /\ borrow' = [borrow EXCEPT ![p] = k]
            /\ UNCHANGED <<first, same, i, collects>>
       ELSE IF k < LastWriter
       THEN /\ i' = [i EXCEPT ![p] = k + 1]
            /\ same' = [same EXCEPT ![p] = clean]
            /\ UNCHANGED <<pc, first, borrow, collects>>
       ELSE IF clean
       THEN /\ Goto(p, "x_install")
            /\ UNCHANGED <<first, same, i, borrow, collects>>
       ELSE /\ first' = [first EXCEPT ![p] = snap2]
            /\ same' = [same EXCEPT ![p] = TRUE]
            /\ i' = [i EXCEPT ![p] = 0]
            /\ collects' = [collects EXCEPT ![p] = @ + 1]
            /\ UNCHANGED <<pc, borrow>>
  /\ UNCHANGED <<reg, holderVars, held, xSlot, xOld, bufVer, heldVer,
                 harnessVars, pending, wbuf>>

\* shared_snapshot::acquire(): fetch_add on the outer count; the low half
\* of the returned word is the index of the buffer the count landed on.
Acquire(p) ==
  LET w == borrow[p]
      b == ctrl[w].idx
  IN
  /\ pc[p] = "acquire"
  /\ StoreBufferEmpty(p)
  /\ ctrl' = [ctrl EXCEPT ![w].cnt = @ + 1]
  /\ held' = [held EXCEPT ![p] = b]
  /\ heldVer' = [heldVer EXCEPT ![p] = bufVer[w][b]]
  /\ Goto(p, "copy")
  /\ UNCHANGED <<reg, bufs, inner, recycle, first, second, i, cc, same,
                 borrow, xSlot, xOld, collects, bufVer,
                 harnessVars, pending, wbuf>>

\* first_snapshot = writer_snapshot: copy the borrowed buffer out.
CopyBorrowed(p) ==
  /\ pc[p] = "copy"
  /\ first' = [first EXCEPT ![p] = bufs[borrow[p]][held[p]]]
  /\ Goto(p, "release")
  /\ UNCHANGED <<reg, holderVars, second, i, cc, same, borrow, held, xSlot,
                 xOld, ghostVars,
                 harnessVars, pending, wbuf>>

\* Snapshot::release(): the recycle flag is set when the incremented inner
\* count is zero.
ReleaseRecycles(remain) == remain = 0

\* Snapshot::release(): inner_cnt.fetch_add(1) + 1; set the recycle flag
\* when the count reaches zero.  scan() then returns first_snapshot and
\* update() goes on to exchange() it.  recycle_flag is a plain bool: the
\* store is ordered before the next atomic read-modify-write of the same
\* thread (the exchange of its own control word), and until then the
\* owner's search may still read the old value (pending).
Release(p) ==
  LET w == borrow[p]
      b == held[p]
      remain == inner[w][b] + 1
  IN
  /\ pc[p] = "release"
  /\ StoreBufferEmpty(p)
  /\ inner' = [inner EXCEPT ![w][b] = remain]
  /\ IF ReleaseRecycles(remain)
       THEN /\ recycle' = [recycle EXCEPT ![w][b] = TRUE]
            /\ pending' = [pending EXCEPT ![p] = <<w, b>>]
       ELSE UNCHANGED <<recycle, pending>>
  /\ Goto(p, "x_install")
  /\ UNCHANGED <<reg, bufs, ctrl, scanVars, xSlot, xOld, ghostVars,
                 harnessVars, wbuf>>

-----------------------------------------------------------------------------
(* shared_snapshot::exchange() and AtomicRegister::write() *)

\* The search of exchange(): the first index whose pointer is null or whose
\* buffer has its recycle flag set.  Empty when no index is free, which
\* the code asserts never happens.
FreeVersions(p) == {b \in Versions : bufs[p][b] = NoSnapshot \/ recycle[p][b]}

\* The recycle flags of p's buffers that another thread stored in release()
\* and whose store p's search may not see yet.
StaleFlags(w) ==
  {b \in Versions : \E q \in Writers : pending[q] = <<w, b>>}

\* The free indexes as p's search may read them: a pending flag may read
\* as still false.
VisibleFree(p, hidden) == FreeVersions(p) \ hidden

FindFreeVersion(free) == CHOOSE b \in free : \A c \in free : b <= c

\* Search for a free index and install the scan into it: new Snapshot(...)
\* or Snapshot::operator=, both of which leave inner_cnt = 0 and the
\* recycle flag false.
Install(p) ==
  LET me == slot[p] IN
  \E hidden \in SUBSET StaleFlags(me) :
  LET b == FindFreeVersion(VisibleFree(me, hidden)) IN
  /\ pc[p] = "x_install"
  /\ VisibleFree(me, hidden) /= {}
  /\ bufs' = [bufs EXCEPT ![me][b] = first[p]]
  /\ inner' = [inner EXCEPT ![me][b] = 0]
  /\ recycle' = [recycle EXCEPT ![me][b] = FALSE]
  /\ bufVer' = [bufVer EXCEPT ![me][b] = @ + 1]
  /\ xSlot' = [xSlot EXCEPT ![p] = b]
  /\ Goto(p, "x_swap")
  /\ UNCHANGED <<reg, ctrl, scanVars, xOld, collects, heldVer,
                 harnessVars, pending, wbuf>>

\* Fault variant: the new control word keeps the old outer count.
SwapKeepsCount(p) ==
  /\ pc[p] = "x_swap"
  /\ StoreBufferEmpty(p)
  /\ xOld' = [xOld EXCEPT ![p] = ctrl[slot[p]]]
  /\ ctrl' = [ctrl EXCEPT ![slot[p]] = [cnt |-> ctrl[slot[p]].cnt,
                                         idx |-> xSlot[p]]]
  /\ pending' = [pending EXCEPT ![p] = NoFlag]
  /\ Goto(p, "x_reset")
  /\ UNCHANGED <<reg, bufs, inner, recycle, scanVars, xSlot, ghostVars,
                 harnessVars, wbuf>>

\* outer_cnt_with_index.exchange(i): new readers now land on the new buffer.
\* As an atomic read-modify-write it also publishes p's earlier plain
\* store to a recycle_flag.
Swap(p) ==
  /\ pc[p] = "x_swap"
  /\ StoreBufferEmpty(p)
  /\ xOld' = [xOld EXCEPT ![p] = ctrl[slot[p]]]
  /\ ctrl' = [ctrl EXCEPT ![slot[p]] = [cnt |-> 0, idx |-> xSlot[p]]]
  /\ pending' = [pending EXCEPT ![p] = NoFlag]
  /\ Goto(p, "x_reset")
  /\ UNCHANGED <<reg, bufs, inner, recycle, scanVars, xSlot, ghostVars,
                 harnessVars, wbuf>>

\* Fault variant: recycle as soon as the count is not positive.
ResetRecyclesAtOrBelowZero(remain) == remain <= 0

\* Snapshot::reset(): the recycle flag is set when the decremented inner
\* count is zero.
ResetRecycles(remain) == remain = 0

\* if (old_index != i) snapshot_ptr_vector[old_index]->reset(old_ref_cnt):
\* inner_cnt.fetch_sub(old_ref_cnt); recycle when the result is zero.
Reset(p) ==
  LET me == slot[p]
      b == xOld[p].idx
      remain == inner[me][b] - xOld[p].cnt
  IN
  /\ pc[p] = "x_reset"
  /\ StoreBufferEmpty(p)
  /\ IF b /= xSlot[p]
       THEN /\ inner' = [inner EXCEPT ![me][b] = remain]
            /\ recycle' = IF ResetRecycles(remain)
                             THEN [recycle EXCEPT ![me][b] = TRUE]
                                        ELSE recycle
       ELSE UNCHANGED <<inner, recycle>>
  /\ Goto(p, "write")
  /\ UNCHANGED <<reg, bufs, ctrl, scanVars, xSlot, xOld, ghostVars,
                 harnessVars, pending, wbuf>>

\* The timestamp of the write: TIMESTAMP_MASK(word) + TIMESTAMP_INC.
NextTimestamp(ts) == ts + 1

\* AtomicRegister::write(value): compute (timestamp + 1, value) from the
\* thread's own view of its register and store it in one plain word
\* store, which enters p's store buffer; update() returns and CountUpdate
\* counts it.
Write(p) ==
  \E v \in Values :
    LET w == [ts |-> NextTimestamp(Load(p, slot[p]).ts), val |-> v] IN
    /\ pc[p] = "write"
    /\ wbuf' = [wbuf EXCEPT ![p] = w]
    /\ count' = [count EXCEPT ![p] = @ + 1]
    /\ Goto(p, "idle")
    /\ UNCHANGED <<reg, holderVars, scanVars, xSlot, xOld, collects,
                   bufVer, heldVer, totalCount, slot, tidIndex,
                   hashMutex, pending>>

\* The store buffer of p drains: its register store reaches memory and
\* every thread's loads see it.
Drain(p) ==
  /\ ~StoreBufferEmpty(p)
  /\ reg' = [reg EXCEPT ![slot[p]] = wbuf[p]]
  /\ wbuf' = [wbuf EXCEPT ![p] = NoStore]
  /\ UNCHANGED <<holderVars, pc, scanVars, xSlot, xOld, collects, bufVer,
                 heldVer, harnessVars, pending>>

\* CountUpdate() leaves its loop when its time is up (here: its updates)
\* and adds its count to total_count.
Finish(p) ==
  /\ pc[p] = "idle"
  /\ count[p] = MaxWrites
  /\ StoreBufferEmpty(p)
  /\ totalCount' = totalCount + count[p]
  /\ Goto(p, "done")
  /\ UNCHANGED <<reg, holderVars, scanVars, xSlot, xOld, ghostVars, count,
                 slot, tidIndex, hashMutex, pending, wbuf>>

Terminated == \A p \in Writers : pc[p] = "done"

Step(p) ==
  \/ RegisterLock(p) \/ RegisterRead(p) \/ RegisterInsert(p)
  \/ StartUpdate(p) \/ FirstCollect(p) \/ SecondCollect(p)
  \/ Acquire(p) \/ CopyBorrowed(p) \/ Release(p)
  \/ Install(p) \/ Swap(p) \/ Reset(p) \/ Write(p) \/ Finish(p)
  \/ Drain(p)

Next ==
  \/ \E p \in Writers : Step(p)
  \/ Terminated /\ UNCHANGED vars

\* OS threads are scheduled fairly, and a store buffer drains eventually;
\* with Scheduled a strict subset of the threads, the others may stop for
\* good between any two steps.
Spec == Init /\ [][Next]_vars /\ \A p \in Scheduled : WF_vars(Step(p))

-----------------------------------------------------------------------------
(* Properties *)

\* Labels between the return of scan() and the end of update().
AfterScan == {"x_install", "x_swap", "x_reset", "write"}

\* Linearizability of scan() (spec 8) within one thread: every update()
\* a thread completed precedes its next scan(), so the snapshot that scan
\* returns, by a clean double collect or by borrowing the snapshot a
\* writer published after changing twice, holds the thread's own register
\* as its last write() left it.
ScanSeesOwnUpdates ==
  \A p \in Writers : pc[p] \in AfterScan =>
    first[p][slot[p]] = Load(p, slot[p])

\* Recycling safety of shared_snapshot: a buffer a reader acquired is not
\* null and is not reinstalled by its writer's exchange() until the reader
\* has copied it out and called release() on it.
BorrowedBufferIntact ==
  \A p \in Writers : pc[p] \in {"copy", "release"} =>
     /\ bufs[borrow[p]][held[p]] /= NoSnapshot
     /\ bufVer[borrow[p]][held[p]] = heldVer[p]

\* The assert(i != version_count) of exchange(): with thread_count + 1
\* versions a free or recyclable buffer always exists, even when every
\* recycle_flag another thread has just stored in release() still reads as
\* false to the search.
ExchangeFindsFreeVersion ==
  \A p \in Writers :
    pc[p] = "x_install" => FreeVersions(slot[p]) \ StaleFlags(slot[p]) /= {}

\* Wait-freedom of scan() (spec 4.3): a scan performs at most
\* thread_count + 1 collects before it returns or borrows.
ScanWaitFree ==
  \A p \in Writers : collects[p] <= ThreadCount + 1

\* The single-writer premise of the algorithm: RegisterTid() hands every
\* thread its own register index, so no two threads write, publish into
\* or reset the same AtomicRegister and shared_snapshot.  Two threads
\* racing through tid_index++ without hash_mutex can both read the same
\* value.
SlotsDistinct ==
  \A p, q \in Writers :
    p /= q /\ slot[p] /= NoSlot /\ slot[q] /= NoSlot => slot[p] /= slot[q]

\* Wait-freedom of update() (spec 4.3): a thread that keeps being
\* scheduled finishes every update() it starts, whatever the other threads
\* do, even if they stop for good while holding one of its buffers or in
\* the middle of their own exchange().  (RegisterTid() is not wait-free:
\* it blocks on hash_mutex.)
UpdateReturns ==
  \A p \in Scheduled : pc[p] = "first" ~> pc[p] = "idle"

=============================================================================
