---------------------------- MODULE LockManager ----------------------------
(***************************************************************************)
(* The lock table of project3 in its default build (no global mutex):     *)
(* per record a singly linked queue of lock_t with an atomic head and     *)
(* tail and a head_mutex, lock_t objects recycled per thread and record,  *)
(* LockManager::AcquireLock (tail exchange, lock-id hand-over, the scan    *)
(* from head with restarts, the compatibility check, deadlock detection,  *)
(* the condition-variable wait) and LockManager::ReleaseLock (head        *)
(* advance under head_mutex, wake-up of the new head and of the SHARED    *)
(* requests behind it).                                                   *)
(*                                                                         *)
(* AcquireLock and ReleaseLock are procedures run by a thread: a caller   *)
(* (TrxManager) sets pc to the first label and ret to the label to return *)
(* to.  Each action is one atomic access of the code, except where the    *)
(* comment says that a block of thread-local work is merged into it.      *)
(***************************************************************************)
EXTENDS Integers, Sequences, FiniteSets

CONSTANTS
  Threads,        \* worker threads (one TrxNode each)
  Records,        \* record ids
  PoolSize,       \* bound: lock_t objects a thread may create per record
  NoLock,         \* nullptr
  NoThread,       \* head_mutex is free
  SpuriousWakeup, \* whether cond.wait may return without a notify
  GlobalMutex,    \* the build: TRUE for the global_mutex overloads
  DeadlockSteps   \* IsDeadlock as one step per read (TRUE) or as one step

ASSUME PoolSize \in Nat \ {0}
ASSUME SpuriousWakeup \in BOOLEAN
ASSUME GlobalMutex \in BOOLEAN
ASSUME DeadlockSteps \in BOOLEAN

SHARED == "SHARED"
EXCLUSIVE == "EXCLUSIVE"
ACTIVE == "ACTIVE"
WAIT == "WAIT"
OBSOLETE == "OBSOLETE"

\* lock_id_on_record's initial value 0xffffffffffffffff.  Every comparison
\* the code makes with it has the same outcome with any number above the
\* ids a run can assign.
NoLockId == 2147483647

\* A lock_t is named by the thread whose pool holds it, its record (pools
\* are kept per record) and its position in thread_local_lock_saved_vector.
Locks == Threads \X Records \X (1 .. PoolSize)
Owner(l) == l[1]
RecOf(l) == l[2]

VARIABLES
  head, tail,     \* LockTableNode::head, LockTableNode::tail
  headMutex,      \* LockTableNode::head_mutex: the thread holding it
  recordValue,    \* LockTableNode::record_value
  poolLen,        \* size of thread_local_lock_saved_vector per record
  lockMode, lockState, lockId, lockNext, diff,
  idPass, headPass, signal,   \* the fields of lock_t
  deque,          \* TrxNode::trx_lock_deque
  conflict,       \* TrxNode::conflict_lock
  sleeping,       \* the thread is blocked in cond.wait
  woken,          \* cond.notify_one() has been sent to the blocked thread
  pc, ret,        \* program counter and return label of each thread
  aMode, aRec,    \* AcquireLock's arguments
  aLock,          \* AcquireLock: new_lock (also its result; NoLock = nullptr)
  aPrev,          \* AcquireLock: prev_tail
  aTarget,        \* AcquireLock: target
  aVec,           \* AcquireLock: waiting_lock_vector
  aIdx,           \* AcquireLock: index of the compatibility loop
  rLock,          \* ReleaseLock's argument
  rTarget,        \* ReleaseLock: target
  rNewHead,       \* ReleaseLock: new_head
  dQueue,         \* IsDeadlock: wait_lock_queue
  dPass,          \* IsDeadlock: pass_id_set
  dOwner,         \* IsDeadlock: the thread of the popped target (trx)
  dConf,          \* IsDeadlock: local_conflict_lock
  dId,            \* IsDeadlock: local_lock_id_on_record
  dTarget,        \* IsDeadlock: target in the walk
  dTmp            \* IsDeadlock: tmp_wait_lock_vector

lmVars == <<head, tail, headMutex, recordValue, poolLen, lockMode, lockState,
            lockId, lockNext, diff, idPass, headPass, signal, deque, conflict,
            sleeping, woken, pc, ret, aMode, aRec, aLock, aPrev, aTarget, aVec,
            aIdx, rLock, rTarget, rNewHead, dQueue, dPass, dOwner, dConf,
            dId, dTarget, dTmp>>

AcquireLabels == {"a_alloc", "a_init", "a_tail", "a_link", "a_setid",
                  "a_first", "a_conflict", "a_scan", "a_compat", "a_recheck",
                  "a_fail", "a_wait", "a_sleep", "a_done",
                  "g_acquire", "g_compat", "g_sleep",
                  "d_pop", "d_conf", "d_id", "d_head", "d_walk", "d_next"}
ReleaseLabels == {"r_obsolete", "r_lock", "r_advance", "r_wake_head",
                  "r_wake_shared", "g_release"}

\* The first label of AcquireLock and of ReleaseLock in the build.
AcquireEntry == IF GlobalMutex THEN "g_acquire" ELSE "a_alloc"
ReleaseEntry == IF GlobalMutex THEN "g_release" ELSE "r_obsolete"

LMTypeOK ==
  /\ head \in [Records -> Locks \cup {NoLock}]
  /\ tail \in [Records -> Locks \cup {NoLock}]
  /\ headMutex \in [Records -> Threads \cup {NoThread}]
  /\ recordValue \in [Records -> Int]
  /\ poolLen \in [Threads -> [Records -> 0 .. PoolSize]]
  /\ lockMode \in [Locks -> {SHARED, EXCLUSIVE}]
  /\ lockState \in [Locks -> {ACTIVE, WAIT, OBSOLETE}]
  /\ lockId \in [Locks -> Nat]
  /\ lockNext \in [Locks -> Locks \cup {NoLock}]
  /\ diff \in [Locks -> Int]
  /\ idPass \in [Locks -> BOOLEAN]
  /\ headPass \in [Locks -> BOOLEAN]
  /\ signal \in [Locks -> BOOLEAN]
  /\ deque \in [Threads -> Seq(Locks)]
  /\ conflict \in [Threads -> Locks \cup {NoLock}]
  /\ sleeping \in [Threads -> BOOLEAN]
  /\ woken \in [Threads -> BOOLEAN]
  /\ aLock \in [Threads -> Locks \cup {NoLock}]
  /\ aVec \in [Threads -> Seq(Locks)]
  /\ dQueue \in [Threads -> Seq(Locks)]
  /\ dPass \in [Threads -> SUBSET Threads]
  /\ dConf \in [Threads -> Locks \cup {NoLock}]
  /\ dTmp \in [Threads -> Seq(Locks)]

LMInit ==
  /\ head = [r \in Records |-> NoLock]
  /\ tail = [r \in Records |-> NoLock]
  /\ headMutex = [r \in Records |-> NoThread]
  /\ recordValue = [r \in Records |-> 100]
  /\ poolLen = [t \in Threads |-> [r \in Records |-> 0]]
  /\ lockMode = [l \in Locks |-> SHARED]
  /\ lockState = [l \in Locks |-> ACTIVE]
  /\ lockId = [l \in Locks |-> NoLockId]
  /\ lockNext = [l \in Locks |-> NoLock]
  /\ diff = [l \in Locks |-> 0]
  /\ idPass = [l \in Locks |-> FALSE]
  /\ headPass = [l \in Locks |-> FALSE]
  /\ signal = [l \in Locks |-> FALSE]
  /\ deque = [t \in Threads |-> <<>>]
  /\ conflict = [t \in Threads |-> NoLock]
  /\ sleeping = [t \in Threads |-> FALSE]
  /\ woken = [t \in Threads |-> FALSE]
  /\ aMode = [t \in Threads |-> SHARED]
  /\ aRec = [t \in Threads |-> CHOOSE r \in Records : TRUE]
  /\ aLock = [t \in Threads |-> NoLock]
  /\ aPrev = [t \in Threads |-> NoLock]
  /\ aTarget = [t \in Threads |-> NoLock]
  /\ aVec = [t \in Threads |-> <<>>]
  /\ aIdx = [t \in Threads |-> 0]
  /\ rLock = [t \in Threads |-> NoLock]
  /\ rTarget = [t \in Threads |-> NoLock]
  /\ rNewHead = [t \in Threads |-> NoLock]
  /\ dQueue = [t \in Threads |-> <<>>]
  /\ dPass = [t \in Threads |-> {}]
  /\ dOwner = [t \in Threads |-> NoThread]
  /\ dConf = [t \in Threads |-> NoLock]
  /\ dId = [t \in Threads |-> NoLockId]
  /\ dTarget = [t \in Threads |-> NoLock]
  /\ dTmp = [t \in Threads |-> <<>>]

Goto(t, l) == pc' = [pc EXCEPT ![t] = l]
Return(t) == pc' = [pc EXCEPT ![t] = ret[t]]

\* Faulty variant: only an EXCLUSIVE newcomer waits.
IncompatibleIfNewExclusive(l1, l2) == lockMode[l1] = EXCLUSIVE

\* Two requests conflict unless both are SHARED.
Incompatible(l1, l2) == lockMode[l1] = EXCLUSIVE \/ lockMode[l2] = EXCLUSIVE

lockFields == <<lockMode, lockState, lockId, lockNext, diff, idPass, headPass,
                signal>>
aLocals == <<aMode, aRec, aLock, aPrev, aTarget, aVec, aIdx>>
rLocals == <<rLock, rTarget, rNewHead>>
dLocals == <<dQueue, dPass, dOwner, dConf, dId, dTarget, dTmp>>

LOCAL Seqs == INSTANCE SequencesExt

-----------------------------------------------------------------------------
(* AcquireLock: taking a lock_t from the pool *)

\* Faulty variant: any OBSOLETE lock is reused.
RecycleObsoleteOnly(l) == lockState[l] = OBSOLETE

\* The recycling test of the global-mutex variant (Acquire.cpp, second
\* AcquireLock): no id_pass_flag.
RecyclableWithoutIdPass(l) == lockState[l] = OBSOLETE /\ headPass[l]

\* The three recycling restrictions of Lock.hpp: OBSOLETE, its id handed to
\* the next lock, and passed by the head.
Recyclable(l) == lockState[l] = OBSOLETE /\ idPass[l] /\ headPass[l]

\* Search thread_local_lock_saved_vector for a recyclable lock; reuse the
\* first one found (resetting its id and id_pass_flag here, the other
\* fields in InitLock), or create a new lock_t and push it to the vector.
AllocLock(t) ==
  LET r == aRec[t]
      free == {n \in 1 .. poolLen[t][r] : Recyclable(<<t, r, n>>)}
      n == CHOOSE k \in free : \A j \in free : k <= j
  IN
  /\ pc[t] = "a_alloc"
  /\ IF free /= {}
       THEN /\ lockId' = [lockId EXCEPT ![<<t, r, n>>] = NoLockId]
            /\ idPass' = [idPass EXCEPT ![<<t, r, n>>] = FALSE]
            /\ aLock' = [aLock EXCEPT ![t] = <<t, r, n>>]
            /\ UNCHANGED poolLen
       ELSE /\ poolLen[t][r] < PoolSize
            /\ poolLen' = [poolLen EXCEPT ![t][r] = @ + 1]
            /\ aLock' = [aLock EXCEPT ![t] = <<t, r, poolLen[t][r] + 1>>]
            /\ UNCHANGED <<lockId, idPass>>
  /\ Goto(t, "a_init")
  /\ UNCHANGED <<head, tail, headMutex, recordValue, lockMode, lockState,
                 lockNext, diff, headPass, signal, deque, conflict, sleeping,
                 woken, ret, aMode, aRec, aPrev, aTarget, aVec, aIdx, rLocals,
                 dLocals>>

\* The rest of the reset of a recycled lock (state, next, diff,
\* head_pass_flag, signal_flag), new_lock->mode = mode, and
\* trx->trx_lock_deque.push_back(new_lock).
InitLock(t) ==
  LET l == aLock[t] IN
  /\ pc[t] = "a_init"
  /\ lockState' = [lockState EXCEPT ![l] = ACTIVE]
  /\ lockNext' = [lockNext EXCEPT ![l] = NoLock]
  /\ diff' = [diff EXCEPT ![l] = 0]
  /\ headPass' = [headPass EXCEPT ![l] = FALSE]
  /\ signal' = [signal EXCEPT ![l] = FALSE]
  /\ lockMode' = [lockMode EXCEPT ![l] = aMode[t]]
  /\ deque' = [deque EXCEPT ![t] = Append(@, l)]
  /\ Goto(t, "a_tail")
  /\ UNCHANGED <<head, tail, headMutex, recordValue, poolLen, lockId, idPass,
                 conflict, sleeping, woken, ret, aLocals, rLocals, dLocals>>

-----------------------------------------------------------------------------
(* AcquireLock: insertion at the tail and the lock-id hand-over *)

\* prev_tail = lock_table_node->tail.exchange(new_lock)
TailExchange(t) ==
  LET r == aRec[t] IN
  /\ pc[t] = "a_tail"
  /\ aPrev' = [aPrev EXCEPT ![t] = tail[r]]
  /\ tail' = [tail EXCEPT ![r] = aLock[t]]
  /\ Goto(t, IF tail[r] /= NoLock THEN "a_link" ELSE "a_first")
  /\ UNCHANGED <<head, headMutex, recordValue, poolLen, lockFields, deque,
                 conflict, sleeping, woken, ret, aMode, aRec, aLock, aTarget,
                 aVec, aIdx, rLocals, dLocals>>

\* prev_tail->next = new_lock
Link(t) ==
  /\ pc[t] = "a_link"
  /\ lockNext' = [lockNext EXCEPT ![aPrev[t]] = aLock[t]]
  /\ Goto(t, "a_setid")
  /\ UNCHANGED <<head, tail, headMutex, recordValue, poolLen, lockMode,
                 lockState, lockId, diff, idPass, headPass, signal, deque,
                 conflict, sleeping, woken, ret, aLocals, rLocals, dLocals>>

\* Spin until prev_tail's id and the head are set, then take
\* prev_tail's id + 1 and set prev_tail's id_pass_flag.
SetLockId(t) ==
  LET p == aPrev[t] IN
  /\ pc[t] = "a_setid"
  /\ lockId[p] /= NoLockId
  /\ head[aRec[t]] /= NoLock
  /\ lockId' = [lockId EXCEPT ![aLock[t]] = lockId[p] + 1]
  /\ idPass' = [idPass EXCEPT ![p] = TRUE]
  /\ Goto(t, "a_conflict")
  /\ UNCHANGED <<head, tail, headMutex, recordValue, poolLen, lockMode,
                 lockState, lockNext, diff, headPass, signal, deque, conflict,
                 sleeping, woken, ret, aLocals, rLocals, dLocals>>

\* No previous tail: the lock gets id 0 and becomes the head.
SetFirst(t) ==
  /\ pc[t] = "a_first"
  /\ lockId' = [lockId EXCEPT ![aLock[t]] = 0]
  /\ head' = [head EXCEPT ![aRec[t]] = aLock[t]]
  /\ Goto(t, "a_conflict")
  /\ UNCHANGED <<tail, headMutex, recordValue, poolLen, lockMode, lockState,
                 lockNext, diff, idPass, headPass, signal, deque, conflict,
                 sleeping, woken, ret, aLocals, rLocals, dLocals>>

-----------------------------------------------------------------------------
(* AcquireLock: collecting the locks before new_lock *)

\* trx->conflict_lock.store(new_lock), then target = head.
SetConflict(t) ==
  /\ pc[t] = "a_conflict"
  /\ conflict' = [conflict EXCEPT ![t] = aLock[t]]
  /\ aTarget' = [aTarget EXCEPT ![t] = head[aRec[t]]]
  /\ aVec' = [aVec EXCEPT ![t] = <<>>]
  /\ Goto(t, "a_scan")
  /\ UNCHANGED <<head, tail, headMutex, recordValue, poolLen, lockFields,
                 deque, sleeping, woken, ret, aMode, aRec, aLock, aPrev, aIdx,
                 rLocals, dLocals>>

\* Faulty variant: an off-by-one that also restarts at the immediate
\* predecessor.
ScanRestartAtPredecessor(t, x) ==
  lockId[x] >= lockId[aLock[t]] - 1 \/ lockNext[x] = NoLock

\* target was recycled: its id is above new_lock's, or its next is null.
ScanRestart(t, x) == lockId[x] > lockId[aLock[t]] \/ lockNext[x] = NoLock

\* One iteration of while (target != new_lock): restart from the head when
\* target's id is above new_lock's (target was recycled) or when its next
\* pointer is null (it was recycled after being read); otherwise save it
\* and move on.
ScanStep(t) ==
  LET r == aRec[t]
      x == aTarget[t]
      restart == /\ aVec' = [aVec EXCEPT ![t] = <<>>]
                 /\ aTarget' = [aTarget EXCEPT ![t] = head[r]]
  IN
  /\ pc[t] = "a_scan"
  /\ IF x = aLock[t]
       THEN /\ aIdx' = [aIdx EXCEPT ![t] = Len(aVec[t])]
            /\ Goto(t, "a_compat")
            /\ UNCHANGED <<aVec, aTarget>>
       ELSE /\ IF ScanRestart(t, x)
                 THEN restart
                 ELSE /\ aVec' = [aVec EXCEPT ![t] = Append(@, x)]
                      /\ aTarget' = [aTarget EXCEPT ![t] = lockNext[x]]
            /\ UNCHANGED <<pc, aIdx>>
  /\ UNCHANGED <<head, tail, headMutex, recordValue, poolLen, lockFields,
                 deque, conflict, sleeping, woken, ret, aMode, aRec, aLock,
                 aPrev, rLocals, dLocals>>

-----------------------------------------------------------------------------
(* LockManager::IsDeadlock, evaluated in one step *)

\* The walk of IsDeadlock from the head of the conflict lock c's record
\* towards c: the caller's own live lock closes a cycle (found); otherwise
\* the locks passed are the new wait-for edges (tmp).  A next pointer that
\* is null or leads past c's id ends the walk without edges (the code
\* restarts from the head, which on an unchanging queue walks the same
\* nodes again and then breaks).
RECURSIVE WalkToConflict(_, _, _, _)
WalkToConflict(self, x, c, tmp) ==
  IF x = c THEN [found |-> FALSE, tmp |-> tmp]
  ELSE IF Owner(x) = self /\ lockState[x] /= OBSOLETE
  THEN [found |-> TRUE, tmp |-> tmp]
  ELSE IF lockNext[x] = NoLock \/ lockId[lockNext[x]] > lockId[c]
  THEN [found |-> FALSE, tmp |-> <<>>]
  ELSE WalkToConflict(self, lockNext[x], c, Append(tmp, x))

\* The breadth-first search of IsDeadlock over wait_lock_queue, with
\* pass_id_set the threads already explored.
RECURSIVE DeadlockSearch(_, _, _)
DeadlockSearch(self, queue, pass) ==
  IF queue = <<>> THEN FALSE
  ELSE
    LET x == Head(queue)
        o == Owner(x)
        c == conflict[o]
        w == WalkToConflict(self, head[RecOf(c)], c, <<>>)
    IN
    IF o \in pass \/ lockState[x] = OBSOLETE
      THEN DeadlockSearch(self, Tail(queue), pass)
    ELSE IF c = NoLock
      THEN DeadlockSearch(self, Tail(queue), pass \cup {o})
    ELSE IF w.found
      THEN TRUE
    ELSE DeadlockSearch(self, Tail(queue) \o w.tmp, pass \cup {o})

\* IsDeadlock(waiting_lock_vector): the search starts from the live locks
\* of the vector, last one first.
InitialWaitQueue(vec) ==
  SelectSeq(Seqs!Reverse(vec), LAMBDA x : lockState[x] /= OBSOLETE)

IsDeadlock(self, vec) == DeadlockSearch(self, InitialWaitQueue(vec), {})

-----------------------------------------------------------------------------
(* AcquireLock: the compatibility check and the wait *)

\* The locks of waiting_lock_vector the compatibility loop skips: released
\* ones, and ones whose id is above new_lock's (recycled and reinserted).
Skippable(t, x) ==
  lockState[x] = OBSOLETE \/ lockId[x] > lockId[aLock[t]]

\* One iteration of the compatibility loop, from the back of the vector:
\* an incompatible live predecessor sets new_lock's state to WAIT.
CompatStep(t) ==
  LET x == aVec[t][aIdx[t]] IN
  /\ pc[t] = "a_compat"
  /\ IF aIdx[t] = 0
       THEN /\ Goto(t, "a_wait")
            /\ UNCHANGED <<lockState, aIdx>>
       ELSE IF ~Skippable(t, x) /\ Incompatible(aLock[t], x)
       THEN /\ lockState' = [lockState EXCEPT ![aLock[t]] = WAIT]
            /\ Goto(t, "a_recheck")
            /\ UNCHANGED aIdx
       ELSE /\ aIdx' = [aIdx EXCEPT ![t] = @ - 1]
            /\ UNCHANGED <<pc, lockState>>
  /\ UNCHANGED <<head, tail, headMutex, recordValue, poolLen, lockMode, lockId,
                 lockNext, diff, idPass, headPass, signal, deque, conflict,
                 sleeping, woken, ret, aMode, aRec, aLock, aPrev, aTarget,
                 aVec, rLocals, dLocals>>

\* After setting WAIT: if the predecessor has meanwhile been released or
\* recycled, go back to ACTIVE and continue the loop; else run the deadlock
\* check; on a deadlock mark new_lock OBSOLETE, else break to the wait.
Recheck(t) ==
  LET l == aLock[t]
      x == aVec[t][aIdx[t]]
  IN
  /\ pc[t] = "a_recheck"
  /\ IF Skippable(t, x)
       THEN /\ lockState' = [lockState EXCEPT ![l] = ACTIVE]
            /\ aIdx' = [aIdx EXCEPT ![t] = @ - 1]
            /\ Goto(t, "a_compat")
            /\ UNCHANGED <<dQueue, dPass>>
       ELSE IF DeadlockSteps
       THEN /\ dQueue' = [dQueue EXCEPT ![t] = InitialWaitQueue(aVec[t])]
            /\ dPass' = [dPass EXCEPT ![t] = {}]
            /\ Goto(t, "d_pop")
            /\ UNCHANGED <<lockState, aIdx>>
       ELSE IF IsDeadlock(t, aVec[t])
       THEN /\ lockState' = [lockState EXCEPT ![l] = OBSOLETE]
            /\ Goto(t, "a_fail")
            /\ UNCHANGED <<aIdx, dQueue, dPass>>
       ELSE /\ Goto(t, "a_wait")
            /\ UNCHANGED <<lockState, aIdx, dQueue, dPass>>
  /\ UNCHANGED <<head, tail, headMutex, recordValue, poolLen, lockMode, lockId,
                 lockNext, diff, idPass, headPass, signal, deque, conflict,
                 sleeping, woken, ret, aMode, aRec, aLock, aPrev, aTarget,
                 aVec, rLocals, dOwner, dConf, dId, dTarget, dTmp>>

-----------------------------------------------------------------------------
(* LockManager::IsDeadlock, one step per read of shared state (with       *)
(* DeadlockSteps).  Entered from Recheck with wait_lock_queue filled; it   *)
(* returns to Recheck's two exits: new_lock OBSOLETE and a_fail when a     *)
(* cycle is found, a_wait when the queue runs empty.                      *)

\* Every variable but pc and the given detector locals is left alone.
DetectFrame ==
  <<head, tail, headMutex, recordValue, poolLen, lockFields, deque, conflict,
    sleeping, woken, ret, aLocals, rLocals>>

\* wait_lock_queue is empty: no deadlock, break to the wait.
DetectNone(t) ==
  /\ pc[t] = "d_pop"
  /\ dQueue[t] = <<>>
  /\ Goto(t, "a_wait")
  /\ UNCHANGED <<DetectFrame, dLocals>>

\* Pop the front; a target whose thread is in pass_id_set or whose state
\* is OBSOLETE is skipped.
DetectPop(t) ==
  LET x == Head(dQueue[t]) IN
  /\ pc[t] = "d_pop"
  /\ dQueue[t] /= <<>>
  /\ dQueue' = [dQueue EXCEPT ![t] = Tail(@)]
  /\ IF Owner(x) \in dPass[t] \/ lockState[x] = OBSOLETE
       THEN UNCHANGED <<pc, dOwner>>
       ELSE /\ dOwner' = [dOwner EXCEPT ![t] = Owner(x)]
            /\ Goto(t, "d_conf")
  /\ UNCHANGED <<DetectFrame, dPass, dConf, dId, dTarget, dTmp>>

\* local_conflict_lock = trx->conflict_lock.load(); nullptr puts the
\* thread in pass_id_set.
DetectConflict(t) ==
  LET c == conflict[dOwner[t]] IN
  /\ pc[t] = "d_conf"
  /\ IF c = NoLock
       THEN /\ dPass' = [dPass EXCEPT ![t] = @ \cup {dOwner[t]}]
            /\ Goto(t, "d_pop")
            /\ UNCHANGED dConf
       ELSE /\ dConf' = [dConf EXCEPT ![t] = c]
            /\ Goto(t, "d_id")
            /\ UNCHANGED dPass
  /\ UNCHANGED <<DetectFrame, dQueue, dOwner, dId, dTarget, dTmp>>

\* local_lock_id_on_record = local_conflict_lock->lock_id_on_record.
DetectId(t) ==
  /\ pc[t] = "d_id"
  /\ dId' = [dId EXCEPT ![t] = lockId[dConf[t]]]
  /\ Goto(t, "d_head")
  /\ UNCHANGED <<DetectFrame, dQueue, dPass, dOwner, dConf, dTarget, dTmp>>

\* target = lock_table_node->head.load(), with an empty tmp vector.
DetectHead(t) ==
  /\ pc[t] = "d_head"
  /\ dTarget' = [dTarget EXCEPT ![t] = head[RecOf(dConf[t])]]
  /\ dTmp' = [dTmp EXCEPT ![t] = <<>>]
  /\ Goto(t, "d_walk")
  /\ UNCHANGED <<DetectFrame, dQueue, dPass, dOwner, dConf, dId>>

\* The end of the walk for this thread: push what tmp holds and add the
\* thread to pass_id_set.
DetectPass(t, tmp) ==
  /\ dQueue' = [dQueue EXCEPT ![t] = @ \o tmp]
  /\ dPass' = [dPass EXCEPT ![t] = @ \cup {dOwner[t]}]
  /\ Goto(t, "d_pop")

\* Faulty variant: the loaded id is compared with new_lock's id.
ConflictMovedAgainstNewLock(t) ==
  dConf[t] /= conflict[dOwner[t]] \/ lockId[dConf[t]] /= lockId[aLock[t]]

\* The conflict lock of the explored thread changed, or was recycled
\* (its id changed), since it was loaded.
ConflictMoved(t) ==
  dConf[t] /= conflict[dOwner[t]] \/ lockId[dConf[t]] /= dId[t]

\* The caller's own lock, not OBSOLETE, lies before the conflict lock.
OwnLiveLock(t, x) == Owner(x) = t /\ lockState[x] /= OBSOLETE

\* while (target != local_conflict_lock) ends: the walk reached c.
DetectReached(t) ==
  /\ pc[t] = "d_walk"
  /\ dTarget[t] = dConf[t]
  /\ DetectPass(t, dTmp[t])
  /\ UNCHANGED <<DetectFrame, dOwner, dConf, dId, dTarget, dTmp>>

\* The conflict lock moved: clear tmp and break (the thread is still
\* running, not blocked).
DetectMoved(t) ==
  /\ pc[t] = "d_walk"
  /\ dTarget[t] /= dConf[t]
  /\ ConflictMoved(t)
  /\ DetectPass(t, <<>>)
  /\ UNCHANGED <<DetectFrame, dOwner, dConf, dId, dTarget, dTmp>>

\* A lock of the caller's own, not OBSOLETE, is in front of the conflict
\* lock: IsDeadlock returns true, and AcquireLock marks new_lock OBSOLETE.
DetectFound(t) ==
  /\ pc[t] = "d_walk"
  /\ dTarget[t] /= dConf[t]
  /\ ~ConflictMoved(t)
  /\ OwnLiveLock(t, dTarget[t])
  /\ lockState' = [lockState EXCEPT ![aLock[t]] = OBSOLETE]
  /\ Goto(t, "a_fail")
  /\ UNCHANGED <<head, tail, headMutex, recordValue, poolLen, lockMode, lockId,
                 lockNext, diff, idPass, headPass, signal, deque, conflict,
                 sleeping, woken, ret, aLocals, rLocals, dLocals>>

\* Save the target in tmp and move to target->next.
DetectStep(t) ==
  LET x == dTarget[t] IN
  /\ pc[t] = "d_walk"
  /\ x /= dConf[t]
  /\ ~ConflictMoved(t)
  /\ ~OwnLiveLock(t, x)
  /\ dTmp' = [dTmp EXCEPT ![t] = Append(@, x)]
  /\ dTarget' = [dTarget EXCEPT ![t] = lockNext[x]]
  /\ Goto(t, "d_next")
  /\ UNCHANGED <<DetectFrame, dQueue, dPass, dOwner, dConf, dId>>

\* A next that is nullptr or behind the conflict lock's id restarts the
\* walk from head with tmp cleared, and a head whose id has reached the
\* conflict lock's ends it (the conflict lock was released).  The reads
\* of head and of its id are one step.
DetectNext(t) ==
  LET x == dTarget[t]
      h == head[RecOf(dConf[t])]
  IN
  /\ pc[t] = "d_next"
  /\ IF x = NoLock \/ lockId[x] > dId[t]
       THEN IF lockId[h] >= dId[t]
              THEN /\ DetectPass(t, <<>>)
                   /\ UNCHANGED <<dTarget, dTmp>>
              ELSE /\ dTarget' = [dTarget EXCEPT ![t] = h]
                   /\ dTmp' = [dTmp EXCEPT ![t] = <<>>]
                   /\ Goto(t, "d_walk")
                   /\ UNCHANGED <<dQueue, dPass>>
       ELSE /\ Goto(t, "d_walk")
            /\ UNCHANGED <<dQueue, dPass, dTarget, dTmp>>
  /\ UNCHANGED <<DetectFrame, dOwner, dConf, dId>>

\* Deadlock: conflict_lock = nullptr and return nullptr.
AcquireFail(t) ==
  /\ pc[t] = "a_fail"
  /\ conflict' = [conflict EXCEPT ![t] = NoLock]
  /\ aLock' = [aLock EXCEPT ![t] = NoLock]
  /\ Return(t)
  /\ UNCHANGED <<head, tail, headMutex, recordValue, poolLen, lockFields,
                 deque, sleeping, woken, ret, aMode, aRec, aPrev, aTarget,
                 aVec, aIdx, rLocals, dLocals>>

\* if (state == WAIT): under trx->mutex, sleep on trx->cond unless the
\* signal_flag is already set, in which case become ACTIVE at once.
WaitCheck(t) ==
  LET l == aLock[t] IN
  /\ pc[t] = "a_wait"
  /\ IF lockState[l] = WAIT /\ ~signal[l]
       THEN /\ sleeping' = [sleeping EXCEPT ![t] = TRUE]
            /\ Goto(t, "a_sleep")
            /\ UNCHANGED lockState
       ELSE /\ lockState' = [lockState EXCEPT ![l] = ACTIVE]
            /\ Goto(t, "a_done")
            /\ UNCHANGED sleeping
  /\ UNCHANGED <<head, tail, headMutex, recordValue, poolLen, lockMode, lockId,
                 lockNext, diff, idPass, headPass, signal, deque, conflict,
                 woken, ret, aLocals, rLocals, dLocals>>

\* trx->cond.wait(lock) returns (after a notify, or spuriously when the
\* platform does so) and new_lock becomes ACTIVE.  The code does not
\* re-check signal_flag after waking.
Wakeup(t) ==
  /\ pc[t] = "a_sleep"
  /\ woken[t] \/ SpuriousWakeup
  /\ lockState' = [lockState EXCEPT ![aLock[t]] = ACTIVE]
  /\ sleeping' = [sleeping EXCEPT ![t] = FALSE]
  /\ woken' = [woken EXCEPT ![t] = FALSE]
  /\ Goto(t, "a_done")
  /\ UNCHANGED <<head, tail, headMutex, recordValue, poolLen, lockMode, lockId,
                 lockNext, diff, idPass, headPass, signal, deque, conflict,
                 ret, aLocals, rLocals, dLocals>>

\* conflict_lock = nullptr and return new_lock.
AcquireDone(t) ==
  /\ pc[t] = "a_done"
  /\ conflict' = [conflict EXCEPT ![t] = NoLock]
  /\ Return(t)
  /\ UNCHANGED <<head, tail, headMutex, recordValue, poolLen, lockFields,
                 deque, sleeping, woken, ret, aLocals, rLocals, dLocals>>

-----------------------------------------------------------------------------
(* LockManager::ReleaseLock *)

\* release_lock->state = OBSOLETE (before taking head_mutex).
ReleaseObsolete(t) ==
  /\ pc[t] = "r_obsolete"
  /\ lockState' = [lockState EXCEPT ![rLock[t]] = OBSOLETE]
  /\ Goto(t, "r_lock")
  /\ UNCHANGED <<head, tail, headMutex, recordValue, poolLen, lockMode, lockId,
                 lockNext, diff, idPass, headPass, signal, deque, conflict,
                 sleeping, woken, ret, aLocals, rLocals, dLocals>>

\* Take head_mutex and read the head; a head that is not OBSOLETE cannot
\* move, and the function returns (releasing the mutex).
ReleaseLockHead(t) ==
  LET r == RecOf(rLock[t])
      x == head[r]
  IN
  /\ pc[t] = "r_lock"
  /\ headMutex[r] = NoThread
  /\ IF lockState[x] /= OBSOLETE
       THEN /\ Return(t)
            /\ UNCHANGED <<headMutex, rTarget>>
       ELSE /\ headMutex' = [headMutex EXCEPT ![r] = t]
            /\ rTarget' = [rTarget EXCEPT ![t] = x]
            /\ Goto(t, "r_advance")
  /\ UNCHANGED <<head, tail, recordValue, poolLen, lockFields, deque,
                 conflict, sleeping, woken, ret, aLocals, rLock, rNewHead,
                 dLocals>>

Unlock(t) == headMutex' = [headMutex EXCEPT ![RecOf(rLock[t])] = NoThread]

\* One iteration of the do-while loop: move the head to target->next and
\* set the passed lock's head_pass_flag; stop at the end of the list
\* (return) or at a lock that is not OBSOLETE (the new head).
ReleaseAdvance(t) ==
  LET r == RecOf(rLock[t])
      x == rTarget[t]
      n == lockNext[x]
  IN
  /\ pc[t] = "r_advance"
  /\ IF n = NoLock
       THEN /\ Unlock(t)
            /\ Return(t)
            /\ UNCHANGED <<head, headPass, rTarget, rNewHead>>
       ELSE /\ head' = [head EXCEPT ![r] = n]
            /\ headPass' = [headPass EXCEPT ![x] = TRUE]
            /\ IF lockState[n] = OBSOLETE
                 THEN /\ rTarget' = [rTarget EXCEPT ![t] = n]
                      /\ UNCHANGED <<pc, rNewHead>>
                 ELSE /\ rNewHead' = [rNewHead EXCEPT ![t] = n]
                      /\ Goto(t, "r_wake_head")
                      /\ UNCHANGED rTarget
            /\ UNCHANGED headMutex
  /\ UNCHANGED <<tail, recordValue, poolLen, lockMode, lockState, lockId,
                 lockNext, diff, idPass, signal, deque, conflict, sleeping,
                 woken, ret, aLocals, rLock, dLocals>>

\* Under the owner's trx->mutex: notify_one if the lock is in WAIT (this
\* wakes the owner if it is blocked in cond.wait), then set signal_flag.
WakeLock(x) ==
  /\ signal' = [signal EXCEPT ![x] = TRUE]
  /\ woken' = [woken EXCEPT ![Owner(x)] =
                 @ \/ (lockState[x] = WAIT /\ sleeping[Owner(x)])]

\* Wake the new head; if it is SHARED, go on to the requests behind it.
ReleaseWakeHead(t) ==
  LET nh == rNewHead[t] IN
  /\ pc[t] = "r_wake_head"
  /\ WakeLock(nh)
  /\ IF lockMode[nh] = SHARED
       THEN /\ rTarget' = [rTarget EXCEPT ![t] = lockNext[nh]]
            /\ Goto(t, "r_wake_shared")
            /\ UNCHANGED headMutex
       ELSE /\ Unlock(t)
            /\ Return(t)
            /\ UNCHANGED rTarget
  /\ UNCHANGED <<head, tail, recordValue, poolLen, lockMode, lockState, lockId,
                 lockNext, diff, idPass, headPass, deque, conflict, sleeping,
                 ret, aLocals, rLock, rNewHead, dLocals>>

\* Faulty variant: the loop runs to the end of the queue.
WakeSharedStopsAtEnd(x) == x = NoLock

\* The wake-up loop ends at the end of the queue or at a live EXCLUSIVE
\* request.
WakeSharedStops(x) ==
  x = NoLock \/ (lockState[x] /= OBSOLETE /\ lockMode[x] = EXCLUSIVE)

\* One iteration of the loop waking the SHARED requests behind a SHARED new
\* head: skip OBSOLETE ones, stop at the end or at an EXCLUSIVE request.
ReleaseWakeShared(t) ==
  LET x == rTarget[t] IN
  /\ pc[t] = "r_wake_shared"
  /\ IF WakeSharedStops(x)
       THEN /\ Unlock(t)
            /\ Return(t)
            /\ UNCHANGED <<signal, woken, rTarget>>
       ELSE /\ IF lockState[x] = OBSOLETE
                 THEN UNCHANGED <<signal, woken>>
                 ELSE WakeLock(x)
            /\ rTarget' = [rTarget EXCEPT ![t] = lockNext[x]]
            /\ UNCHANGED <<pc, headMutex>>
  /\ UNCHANGED <<head, tail, recordValue, poolLen, lockMode, lockState, lockId,
                 lockNext, diff, idPass, headPass, deque, conflict, sleeping,
                 ret, aLocals, rLock, rNewHead, dLocals>>

-----------------------------------------------------------------------------
(* The global-mutex build: AcquireLock(mode, r, trx, global_mutex),       *)
(* IsDeadlock2 and ReleaseLock(lock, global_mutex).  All their work is    *)
(* done holding global_mutex, except the wait on trx->cond, which drops   *)
(* it.  A thread holds the mutex exactly between inserting new_lock and   *)
(* the end of the compatibility check (label g_compat); every other       *)
(* critical section is one step.                                          *)

GlobalMutexFree == \A u \in Threads : pc[u] /= "g_compat"

\* The locks from x up to, not including, l along the next pointers nxt:
\* what while (target != new_lock) pushes into waiting_lock_vector.
RECURSIVE PathTo(_, _, _, _)
PathTo(x, l, nxt, n) ==
  IF x = l \/ x = NoLock \/ n = 0 THEN <<>>
  ELSE <<x>> \o PathTo(nxt[x], l, nxt, n - 1)

\* Take global_mutex; reuse the first lock of the pool that is OBSOLETE and
\* passed by the head (resetting state, next, diff, head_pass_flag and
\* signal_flag; the id is not used in this build) or create one; set its
\* mode and push it to the deque; link it behind the tail (or make it the
\* head) and make it the tail; set conflict_lock; collect the locks from
\* the head up to it.
GAcquireLock(t) ==
  LET r == aRec[t]
      free == {n \in 1 .. poolLen[t][r] : RecyclableWithoutIdPass(<<t, r, n>>)}
      l == IF free /= {} THEN <<t, r, CHOOSE k \in free : \A j \in free : k <= j>>
           ELSE <<t, r, poolLen[t][r] + 1>>
      prev == tail[r]
      nxt == IF prev = NoLock THEN [lockNext EXCEPT ![l] = NoLock]
             ELSE [lockNext EXCEPT ![l] = NoLock, ![prev] = l]
      hd == IF prev = NoLock THEN l ELSE head[r]
  IN
  /\ pc[t] = "g_acquire"
  /\ GlobalMutexFree
  /\ free /= {} \/ poolLen[t][r] < PoolSize
  /\ poolLen' = [poolLen EXCEPT ![t][r] = IF free /= {} THEN @ ELSE @ + 1]
  /\ lockState' = [lockState EXCEPT ![l] = ACTIVE]
  /\ lockMode' = [lockMode EXCEPT ![l] = aMode[t]]
  /\ lockNext' = nxt
  /\ diff' = [diff EXCEPT ![l] = 0]
  /\ headPass' = [headPass EXCEPT ![l] = FALSE]
  /\ signal' = [signal EXCEPT ![l] = FALSE]
  /\ deque' = [deque EXCEPT ![t] = Append(@, l)]
  /\ tail' = [tail EXCEPT ![r] = l]
  /\ head' = [head EXCEPT ![r] = hd]
  /\ conflict' = [conflict EXCEPT ![t] = l]
  /\ aLock' = [aLock EXCEPT ![t] = l]
  /\ aVec' = [aVec EXCEPT ![t] = PathTo(hd, l, nxt, Cardinality(Locks))]
  /\ Goto(t, "g_compat")
  /\ UNCHANGED <<headMutex, recordValue, lockId, idPass, sleeping, woken, ret,
                 aMode, aRec, aPrev, aTarget, aIdx, rLocals, dLocals>>

\* IsDeadlock2's walk from the head of the conflict lock c's record to c:
\* a live lock of the caller closes a cycle; otherwise the locks passed
\* are the new wait-for edges.
\* Faulty variant: the owner test looks at target->next, not target.
RECURSIVE WalkToConflict2PeekNext(_, _, _, _)
WalkToConflict2PeekNext(self, x, c, tmp) ==
  IF x = c \/ x = NoLock THEN [found |-> FALSE, tmp |-> tmp]
  ELSE IF lockNext[x] /= NoLock /\ lockNext[x] /= c
          /\ Owner(lockNext[x]) = self /\ lockState[lockNext[x]] /= OBSOLETE
  THEN [found |-> TRUE, tmp |-> tmp]
  ELSE WalkToConflict2PeekNext(self, lockNext[x], c, Append(tmp, x))

RECURSIVE WalkToConflict2(_, _, _, _)
WalkToConflict2(self, x, c, tmp) ==
  IF x = c \/ x = NoLock THEN [found |-> FALSE, tmp |-> tmp]
  ELSE IF Owner(x) = self /\ lockState[x] /= OBSOLETE
  THEN [found |-> TRUE, tmp |-> tmp]
  ELSE WalkToConflict2(self, lockNext[x], c, Append(tmp, x))

\* The breadth-first search of IsDeadlock2 over wait_lock_queue, with
\* pass_id_set the threads already explored.
RECURSIVE DeadlockSearch2(_, _, _)
DeadlockSearch2(self, queue, pass) ==
  IF queue = <<>> THEN FALSE
  ELSE
    LET x == Head(queue)
        o == Owner(x)
        c == conflict[o]
        w == WalkToConflict2(self, head[RecOf(c)], c, <<>>)
    IN
    IF o \in pass \/ lockState[x] = OBSOLETE
      THEN DeadlockSearch2(self, Tail(queue), pass)
    ELSE IF c = NoLock
      THEN DeadlockSearch2(self, Tail(queue), pass \cup {o})
    ELSE IF w.found
      THEN TRUE
    ELSE DeadlockSearch2(self, Tail(queue) \o w.tmp, pass \cup {o})

IsDeadlock2(self, vec) ==
  DeadlockSearch2(self,
                  SelectSeq(Seqs!Reverse(vec),
                            LAMBDA x : lockState[x] /= OBSOLETE),
                  {})

\* Faulty variant: only the lock right before new_lock is checked.
GBlockedByLastOnly(t) ==
  LET v == aVec[t] IN
  /\ v /= <<>>
  /\ lockState[v[Len(v)]] /= OBSOLETE /\ Incompatible(aLock[t], v[Len(v)])

\* The compatibility loop finds a live lock before new_lock that conflicts
\* with it.
GBlocked(t) ==
  \E k \in 1 .. Len(aVec[t]) :
    lockState[aVec[t][k]] /= OBSOLETE /\ Incompatible(aLock[t], aVec[t][k])

\* No conflict: conflict_lock = nullptr, drop global_mutex, return new_lock.
GAcquireGranted(t) ==
  /\ pc[t] = "g_compat"
  /\ ~GBlocked(t)
  /\ conflict' = [conflict EXCEPT ![t] = NoLock]
  /\ Return(t)
  /\ UNCHANGED <<head, tail, headMutex, recordValue, poolLen, lockFields,
                 deque, sleeping, woken, ret, aLocals, rLocals, dLocals>>

\* WAIT, and IsDeadlock2 finds a cycle: new_lock becomes OBSOLETE,
\* conflict_lock = nullptr, return nullptr.
GAcquireDeadlock(t) ==
  /\ pc[t] = "g_compat"
  /\ GBlocked(t)
  /\ IsDeadlock2(t, aVec[t])
  /\ lockState' = [lockState EXCEPT ![aLock[t]] = OBSOLETE]
  /\ conflict' = [conflict EXCEPT ![t] = NoLock]
  /\ aLock' = [aLock EXCEPT ![t] = NoLock]
  /\ Return(t)
  /\ UNCHANGED <<head, tail, headMutex, recordValue, poolLen, lockMode, lockId,
                 lockNext, diff, idPass, headPass, signal, deque, sleeping,
                 woken, ret, aMode, aRec, aPrev, aTarget, aVec, aIdx, rLocals,
                 dLocals>>

\* WAIT and no cycle: signal_flag is still false (no other thread has held
\* global_mutex since new_lock was inserted), so cond.wait(global_lock)
\* drops the mutex and blocks.
GAcquireWait(t) ==
  /\ pc[t] = "g_compat"
  /\ GBlocked(t)
  /\ ~IsDeadlock2(t, aVec[t])
  /\ lockState' = [lockState EXCEPT ![aLock[t]] = WAIT]
  /\ sleeping' = [sleeping EXCEPT ![t] = TRUE]
  /\ Goto(t, "g_sleep")
  /\ UNCHANGED <<head, tail, headMutex, recordValue, poolLen, lockMode, lockId,
                 lockNext, diff, idPass, headPass, signal, deque, conflict,
                 woken, ret, aLocals, rLocals, dLocals>>

\* cond.wait returns (after a notify, or spuriously) holding global_mutex
\* again; new_lock becomes ACTIVE, conflict_lock = nullptr, return it.
GWakeup(t) ==
  /\ pc[t] = "g_sleep"
  /\ woken[t] \/ SpuriousWakeup
  /\ GlobalMutexFree
  /\ lockState' = [lockState EXCEPT ![aLock[t]] = ACTIVE]
  /\ sleeping' = [sleeping EXCEPT ![t] = FALSE]
  /\ woken' = [woken EXCEPT ![t] = FALSE]
  /\ conflict' = [conflict EXCEPT ![t] = NoLock]
  /\ Return(t)
  /\ UNCHANGED <<head, tail, headMutex, recordValue, poolLen, lockMode, lockId,
                 lockNext, diff, idPass, headPass, signal, deque, ret, aLocals,
                 rLocals, dLocals>>

\* The do-while loop of the global-mutex ReleaseLock from head x, with the
\* lock states st: every OBSOLETE lock with a successor is passed; the
\* result is the passed locks, the last head stored and the new head
\* (NoLock when the loop reached the end of the list).
RECURSIVE Advance(_, _, _)
Advance(x, st, n) ==
  LET nx == lockNext[x] IN
  IF nx = NoLock \/ n = 0
    THEN [passed |-> {}, last |-> x, newHead |-> NoLock]
  ELSE IF st[nx] = OBSOLETE
    THEN LET a == Advance(nx, st, n - 1) IN [a EXCEPT !.passed = @ \cup {x}]
  ELSE [passed |-> {x}, last |-> nx, newHead |-> nx]

\* The SHARED requests the wake-up loop behind a SHARED new head reaches:
\* live ones up to the end or to a live EXCLUSIVE request.
RECURSIVE SharedFollowers(_, _, _)
SharedFollowers(x, st, n) ==
  IF x = NoLock \/ n = 0 \/ (st[x] /= OBSOLETE /\ lockMode[x] = EXCLUSIVE)
    THEN {}
  ELSE (IF st[x] = OBSOLETE THEN {} ELSE {x})
         \cup SharedFollowers(lockNext[x], st, n - 1)

\* Set signal_flag of the locks S and notify the owners of those in WAIT.
WakeAll(S) ==
  /\ signal' = [l \in Locks |-> signal[l] \/ l \in S]
  /\ woken' = [u \in Threads |->
                 woken[u] \/ \E l \in S : Owner(l) = u /\ lockState[l] = WAIT
                                          /\ sleeping[u]]

\* Faulty variant: the head is read before the lock is marked OBSOLETE.
GReleaseLockHeadFirst(t) ==
  /\ pc[t] = "g_release"
  /\ GlobalMutexFree
  /\ lockState[head[RecOf(rLock[t])]] /= OBSOLETE
  /\ lockState' = [lockState EXCEPT ![rLock[t]] = OBSOLETE]
  /\ Return(t)
  /\ UNCHANGED <<head, tail, headMutex, recordValue, poolLen, lockMode, lockId,
                 lockNext, diff, idPass, headPass, signal, deque, conflict,
                 sleeping, woken, ret, aLocals, rLocals, dLocals>>

\* ReleaseLock(lock, global_mutex) on a record whose head is not OBSOLETE
\* afterwards: mark the lock OBSOLETE and return.
GReleaseLock(t) ==
  LET st == [lockState EXCEPT ![rLock[t]] = OBSOLETE] IN
  /\ pc[t] = "g_release"
  /\ GlobalMutexFree
  /\ st[head[RecOf(rLock[t])]] /= OBSOLETE
  /\ lockState' = st
  /\ Return(t)
  /\ UNCHANGED <<head, tail, headMutex, recordValue, poolLen, lockMode, lockId,
                 lockNext, diff, idPass, headPass, signal, deque, conflict,
                 sleeping, woken, ret, aLocals, rLocals, dLocals>>

\* ReleaseLock(lock, global_mutex) when the head is OBSOLETE afterwards:
\* move the head past the OBSOLETE locks (setting their head_pass_flag);
\* unless the end of the list was reached, wake the new head and, if it is
\* SHARED, the SHARED requests behind it.
GReleaseAdvance(t) ==
  LET rl == rLock[t]
      r == RecOf(rl)
      st == [lockState EXCEPT ![rl] = OBSOLETE]
      a == Advance(head[r], st, Cardinality(Locks))
      nh == a.newHead
      wake == IF nh = NoLock THEN {}
              ELSE {nh} \cup IF lockMode[nh] = SHARED
                               THEN SharedFollowers(lockNext[nh], st,
                                                    Cardinality(Locks))
                               ELSE {}
  IN
  /\ pc[t] = "g_release"
  /\ GlobalMutexFree
  /\ st[head[r]] = OBSOLETE
  /\ lockState' = st
  /\ head' = [head EXCEPT ![r] = a.last]
  /\ headPass' = [l \in Locks |-> headPass[l] \/ l \in a.passed]
  /\ WakeAll(wake)
  /\ Return(t)
  /\ UNCHANGED <<tail, headMutex, recordValue, poolLen, lockMode, lockId,
                 lockNext, diff, idPass, deque, conflict, sleeping, ret,
                 aLocals, rLocals, dLocals>>

\* All steps of AcquireLock and ReleaseLock a thread can take.
LockManagerStep(t) ==
  \/ AllocLock(t) \/ InitLock(t) \/ TailExchange(t) \/ Link(t)
  \/ SetLockId(t) \/ SetFirst(t) \/ SetConflict(t) \/ ScanStep(t)
  \/ CompatStep(t) \/ Recheck(t) \/ AcquireFail(t) \/ WaitCheck(t)
  \/ Wakeup(t) \/ AcquireDone(t)
  \/ DetectNone(t) \/ DetectPop(t) \/ DetectConflict(t) \/ DetectId(t)
  \/ DetectHead(t) \/ DetectReached(t) \/ DetectMoved(t) \/ DetectFound(t)
  \/ DetectStep(t) \/ DetectNext(t)
  \/ ReleaseObsolete(t) \/ ReleaseLockHead(t) \/ ReleaseAdvance(t)
  \/ ReleaseWakeHead(t) \/ ReleaseWakeShared(t)
  \/ GAcquireLock(t) \/ GAcquireGranted(t) \/ GAcquireDeadlock(t)
  \/ GAcquireWait(t) \/ GWakeup(t) \/ GReleaseLock(t) \/ GReleaseAdvance(t)

\* The steps that take a blocking mutex (head_mutex, or global_mutex in the
\* other build); a thread waiting for one is only sure to get it under
\* strong fairness, since the holders keep taking and dropping it.
MutexStep(t) ==
  \/ ReleaseLockHead(t)
  \/ GAcquireLock(t) \/ GWakeup(t) \/ GReleaseLock(t) \/ GReleaseAdvance(t)

-----------------------------------------------------------------------------
(* Properties of the lock table *)

InDeque(t, l) == \E n \in 1 .. Len(deque[t]) : deque[t][n] = l

\* new_lock while AcquireLock is still deciding whether it may proceed.
Pending(l) ==
  /\ pc[Owner(l)] \in AcquireLabels \ {"a_alloc", "a_init", "a_done",
                                        "g_acquire"}
  /\ l = aLock[Owner(l)]

\* A request that is in the queue of its record and not yet released.
Live(l) ==
  /\ InDeque(Owner(l), l)
  /\ lockState[l] /= OBSOLETE
  /\ lockId[l] /= NoLockId

\* A request linked into its record's queue: live, or linked behind its
\* predecessor and spinning in the hand-over while the predecessor has an
\* id (and so is in the queue itself) and the head is stored.
Enqueued(l) ==
  \/ Live(l)
  \/ /\ pc[Owner(l)] = "a_setid"
     /\ aLock[Owner(l)] = l
     /\ lockId[aPrev[Owner(l)]] /= NoLockId
     /\ head[RecOf(l)] /= NoLock

\* A lock the transaction holds: AcquireLock has returned it (or is about
\* to) and ReleaseLock has not marked it OBSOLETE.
Granted(l) == InDeque(Owner(l), l) /\ lockState[l] = ACTIVE /\ ~Pending(l)

\* Two-phase locking on each record's queue: AcquireLock grants a request
\* only when no earlier live request on the record conflicts with it.  A
\* granted lock never has a live request with a smaller lock_id_on_record
\* on the same record unless both are SHARED.  This covers the races of
\* the scan (restarts on recycled nodes), the compatibility loop's skips,
\* the WAIT/recheck window against ReleaseLock, and the lost or early
\* wake-up of the condition-variable wait.
GrantsFollowQueueOrder ==
  \A l1, l2 \in Locks :
    /\ RecOf(l1) = RecOf(l2) /\ l1 /= l2
    /\ Live(l1) /\ Granted(l2)
    /\ lockId[l1] < lockId[l2]
    => lockMode[l1] = SHARED /\ lockMode[l2] = SHARED

\* The nodes reachable from a record's head through next pointers.
RECURSIVE ChainFrom(_, _)
ChainFrom(x, n) ==
  IF x = NoLock \/ n = 0 THEN <<>>
  ELSE <<x>> \o ChainFrom(lockNext[x], n - 1)

Chain(r) == ChainFrom(head[r], Cardinality(Locks) + 1)

\* A lock_t is recycled while other threads may still reach it: ReleaseLock
\* advancing head, AcquireLock's scan and hand-over, and IsDeadlock all read
\* it without a lock.  The recycling restrictions must keep every queue
\* intact: from the head, each live request is reachable, the ids along the
\* queue rise by one, no node that was passed by the head is in it, and a
\* request spinning in the lock-id hand-over is still linked behind the
\* predecessor whose id it waits for.
QueueIntact ==
  \A r \in Records :
    LET ch == Chain(r) IN
    /\ \A l \in Locks : RecOf(l) = r /\ Enqueued(l) =>
         \E n \in 1 .. Len(ch) : ch[n] = l
    /\ \A n \in 1 .. Len(ch) - 1 :
         lockId[ch[n + 1]] /= NoLockId =>
           /\ lockId[ch[n]] /= NoLockId
           /\ lockId[ch[n + 1]] = lockId[ch[n]] + 1
    /\ \A n \in 1 .. Len(ch) : ~headPass[ch[n]] /\ RecOf(ch[n]) = r
    /\ \A t \in Threads :
         pc[t] = "a_setid" /\ aRec[t] = r => lockNext[aPrev[t]] = aLock[t]

\* The global-mutex build keeps no lock ids: there a request's place in the
\* queue is its position in the chain from the head.  A granted lock has
\* no live incompatible request before it in its record's chain.
GrantsFollowChainOrder ==
  \A r \in Records :
    LET ch == Chain(r) IN
    \A i, j \in 1 .. Len(ch) :
      /\ i < j
      /\ InDeque(Owner(ch[i]), ch[i]) /\ lockState[ch[i]] /= OBSOLETE
      /\ Granted(ch[j])
      => lockMode[ch[i]] = SHARED /\ lockMode[ch[j]] = SHARED

\* The abstract lock table: the transactions holding a granted lock on
\* each record, in the lock's mode.
GrantedMap ==
  [r \in Records |->
     {<<Owner(l), lockMode[l]>> : l \in {k \in Locks : RecOf(k) = r /\ Granted(k)}}]

LT == INSTANCE LockTable WITH
        granted <- GrantedMap, Modes <- {SHARED, EXCLUSIVE}

\* The lock manager implements the abstract lock table: every step either
\* leaves the holders of every record alone, grants one lock compatible
\* with all current holders of its record (AcquireLock returning), or
\* removes one holder (ReleaseLock marking it OBSOLETE).  A grant behind a
\* live incompatible holder, from a wake-up of the wrong request, a skipped
\* compatibility check or a recycled lock still counted as held, breaks it.
ImplementsLockTable == LT!Spec
====
