----------------------------- MODULE TrxManager -----------------------------
(***************************************************************************)
(* TrxManager of project3 (Begin, Find, Update, Abort, Commit, default     *)
(* build without the global mutex) driven by the worker loop RepeatTrx of  *)
(* main.cpp: pick three distinct records i, j, k; read Ri; Rj += Ri + 1;   *)
(* Rk -= Ri; commit; on MUST_ABORTED abort and retry; stop when Commit()   *)
(* returns -1.  The lock manager is the procedure-style LockManager        *)
(* module; a call sets pc to its first label and ret to the label after   *)
(* the call.                                                               *)
(***************************************************************************)
EXTENDS LockManager

CONSTANTS
  LastCommitId,   \* last_global_execution_order (third argument of main)
  MaxAttempts,    \* bound: transactions a worker begins (committed or not)
  Draws           \* the (i, j, k) a worker's random draw may give

ASSUME LastCommitId \in Nat
ASSUME MaxAttempts \in Nat \ {0}
ASSUME Draws \in [Threads -> SUBSET (Records \X Records \X Records)]

VARIABLES
  globalCount,    \* TrxManager::global_execution_count
  commitLog,      \* the lines of all thread<N>.txt files
  recs,           \* RepeatTrx: <<i, j, k>>
  recordI,        \* RepeatTrx: record_i
  commitId,       \* Commit: commit_id
  loopIdx,        \* Abort / Commit: index into trx_lock_deque
  logVals,        \* Commit: record_value_queue
  attempts        \* transactions begun by the worker

trxVars == <<globalCount, commitLog, recs, recordI, commitId, loopIdx,
             logVals, attempts>>
vars == <<lmVars, trxVars>>

\* A commit-log line: commit_id, the record ids in deque order and the
\* values read at commit time.  Only ids up to last_global_execution_order
\* are ever logged.
LogLine == [cid : 1 .. LastCommitId, recs : Seq(Records), vals : Seq(Int)]

TrxLabels == {"t_begin", "t_find_ret", "t_upd1_ret", "t_upd2_ret",
              "t_commit", "t_commit_loop", "t_abort", "t_rollback", "t_done",
              "t_capped"}

TypeOK ==
  /\ LMTypeOK
  /\ pc \in [Threads -> TrxLabels \cup AcquireLabels \cup ReleaseLabels]
  /\ globalCount \in Nat
  /\ commitLog \subseteq LogLine
  /\ recs \in [Threads -> Seq(Records)]
  /\ recordI \in [Threads -> Int]
  /\ loopIdx \in [Threads -> Nat]
  /\ attempts \in [Threads -> 0 .. MaxAttempts]

Init ==
  /\ LMInit
  /\ pc = [t \in Threads |-> "t_begin"]
  /\ ret = [t \in Threads |-> "t_begin"]
  /\ globalCount = 0
  /\ commitLog = {}
  /\ recs = [t \in Threads |-> <<>>]
  /\ recordI = [t \in Threads |-> 0]
  /\ commitId = [t \in Threads |-> 0]
  /\ loopIdx = [t \in Threads |-> 1]
  /\ logVals = [t \in Threads |-> <<>>]
  /\ attempts = [t \in Threads |-> 0]

\* Call AcquireLock(mode, record_id, trx), returning to label back.
CallAcquire(t, m, r, back) ==
  /\ aMode' = [aMode EXCEPT ![t] = m]
  /\ aRec' = [aRec EXCEPT ![t] = r]
  /\ ret' = [ret EXCEPT ![t] = back]
  /\ Goto(t, AcquireEntry)

\* Call ReleaseLock(l), returning to label back.
CallRelease(t, l, back) ==
  /\ rLock' = [rLock EXCEPT ![t] = l]
  /\ ret' = [ret EXCEPT ![t] = back]
  /\ Goto(t, ReleaseEntry)

-----------------------------------------------------------------------------
(* RepeatTrx and the TrxManager operations *)

\* Pick three distinct records (the code redraws until they are distinct),
\* Begin() (conflict_lock = nullptr, clear trx_lock_deque), and call
\* Find(i), which acquires a SHARED lock.  Draws[t] is every triple, or a
\* few of them to reach more workers within TLC's range.
BeginTrx(t) ==
  \E <<i, j, k>> \in Draws[t] :
    /\ pc[t] = "t_begin"
    /\ i /= j /\ i /= k /\ j /= k
    /\ attempts[t] < MaxAttempts
    /\ attempts' = [attempts EXCEPT ![t] = @ + 1]
    /\ recs' = [recs EXCEPT ![t] = <<i, j, k>>]
    /\ conflict' = [conflict EXCEPT ![t] = NoLock]
    /\ deque' = [deque EXCEPT ![t] = <<>>]
    /\ CallAcquire(t, SHARED, i, "t_find_ret")
    /\ UNCHANGED <<head, tail, headMutex, recordValue, poolLen, lockFields,
                   sleeping, woken, aLock, aPrev, aTarget, aVec, aIdx, rLocals,
                   globalCount, commitLog, recordI, commitId, loopIdx, logVals,
                   dLocals>>

\* The worker has begun as many transactions as the model allows.
StopWorker(t) ==
  /\ pc[t] = "t_begin"
  /\ attempts[t] = MaxAttempts
  /\ Goto(t, "t_capped")
  /\ UNCHANGED <<head, tail, headMutex, recordValue, poolLen, lockFields,
                 deque, conflict, sleeping, woken, ret, aLocals, rLocals,
                 trxVars, dLocals>>

\* On MUST_ABORTED the worker calls Abort(), which walks the deque from
\* its first lock.
StartAbort(t) ==
  /\ loopIdx' = [loopIdx EXCEPT ![t] = 1]
  /\ Goto(t, "t_abort")

\* Find returns: nullptr gives MUST_ABORTED; otherwise read the record
\* value (GetRecord) and call Update(j, Ri + 1), which acquires EXCLUSIVE.
FindReturn(t) ==
  /\ pc[t] = "t_find_ret"
  /\ IF aLock[t] = NoLock
       THEN /\ StartAbort(t)
            /\ UNCHANGED <<aMode, aRec, ret, recordI>>
       ELSE /\ recordI' = [recordI EXCEPT ![t] = recordValue[recs[t][1]]]
            /\ CallAcquire(t, EXCLUSIVE, recs[t][2], "t_upd1_ret")
            /\ UNCHANGED loopIdx
  /\ UNCHANGED <<head, tail, headMutex, recordValue, poolLen, lockFields,
                 deque, conflict, sleeping, woken, aLock, aPrev, aTarget,
                 aVec, aIdx, rLocals, globalCount, commitLog, recs, commitId,
                 logVals, attempts, dLocals>>

\* Update returns: on success ChangeRecord (record_value += diff) and
\* lock->diff = diff.
ApplyUpdate(t, d) ==
  LET l == aLock[t] IN
  /\ recordValue' = [recordValue EXCEPT ![RecOf(l)] = @ + d]
  /\ diff' = [diff EXCEPT ![l] = d]

\* Update(j, Ri + 1) returns; on success call Update(k, -Ri).
Update1Return(t) ==
  /\ pc[t] = "t_upd1_ret"
  /\ IF aLock[t] = NoLock
       THEN /\ StartAbort(t)
            /\ UNCHANGED <<recordValue, diff, aMode, aRec, ret>>
       ELSE /\ ApplyUpdate(t, recordI[t] + 1)
            /\ CallAcquire(t, EXCLUSIVE, recs[t][3], "t_upd2_ret")
            /\ UNCHANGED loopIdx
  /\ UNCHANGED <<head, tail, headMutex, poolLen, lockMode, lockState, lockId,
                 lockNext, idPass, headPass, signal, deque, conflict,
                 sleeping, woken, aLock, aPrev, aTarget, aVec, aIdx, rLocals,
                 globalCount, commitLog, recs, recordI, commitId, logVals,
                 attempts, dLocals>>

\* Update(k, -Ri) returns; on success the worker calls Commit().
Update2Return(t) ==
  /\ pc[t] = "t_upd2_ret"
  /\ IF aLock[t] = NoLock
       THEN /\ StartAbort(t)
            /\ UNCHANGED <<recordValue, diff>>
       ELSE /\ ApplyUpdate(t, -recordI[t])
            /\ Goto(t, "t_commit")
            /\ UNCHANGED loopIdx
  /\ UNCHANGED <<head, tail, headMutex, poolLen, lockMode, lockState, lockId,
                 lockNext, idPass, headPass, signal, deque, conflict,
                 sleeping, woken, ret, aLocals, rLocals, globalCount,
                 commitLog, recs, recordI, commitId, logVals, attempts,
                 dLocals>>

\* Commit(): commit_id = global_execution_count.fetch_add(1) + 1; above
\* last_global_execution_order the transaction is rolled back and Commit
\* returns -1, otherwise its locks are released one by one.
\* Faulty variant: an off-by-one in the cap test.
CommitCapAtLast(c) == c >= LastCommitId
\* Faulty variant: the cap lets one commit too many through.
CommitCapAfterLast(c) == c > LastCommitId + 1
CommitCapExceeded(c) == c > LastCommitId

CommitStart(t) ==
  LET c == globalCount + 1 IN
  /\ pc[t] = "t_commit"
  /\ globalCount' = c
  /\ commitId' = [commitId EXCEPT ![t] = c]
  /\ loopIdx' = [loopIdx EXCEPT ![t] = 1]
  /\ logVals' = [logVals EXCEPT ![t] = <<>>]
  /\ Goto(t, IF CommitCapExceeded(c) THEN "t_rollback" ELSE "t_commit_loop")
  /\ UNCHANGED <<head, tail, headMutex, recordValue, poolLen, lockFields,
                 deque, conflict, sleeping, woken, ret, aLocals, rLocals,
                 commitLog, recs, recordI, attempts, dLocals>>

\* Faulty variant: the rollback leaves the record as it is.
RollbackNothing(l) == UNCHANGED recordValue

\* The rollback of Abort() and of Commit() above the cap: an EXCLUSIVE
\* lock that is not OBSOLETE has its diff subtracted (ChangeRecord).
Rollback(l) ==
  IF lockMode[l] = EXCLUSIVE /\ lockState[l] /= OBSOLETE
    THEN recordValue' = [recordValue EXCEPT ![RecOf(l)] = @ - diff[l]]
    ELSE UNCHANGED recordValue

\* One iteration of the loop of Abort() (here = "t_abort", after which
\* RepeatTrx retries) or of Commit()'s rollback (here = "t_rollback", after
\* which Commit returns -1 and RepeatTrx ends): roll the lock back and
\* call ReleaseLock on it.
UndoStep(t, here, exit) ==
  LET l == deque[t][loopIdx[t]] IN
  /\ pc[t] = here
  /\ IF loopIdx[t] > Len(deque[t])
       THEN /\ Goto(t, exit)
            /\ UNCHANGED <<recordValue, ret, rLock, loopIdx>>
       ELSE /\ Rollback(l)
            /\ CallRelease(t, l, here)
            /\ loopIdx' = [loopIdx EXCEPT ![t] = @ + 1]
  /\ UNCHANGED <<head, tail, headMutex, poolLen, lockFields, deque, conflict,
                 sleeping, woken, aLocals, rTarget, rNewHead, globalCount,
                 commitLog, recs, recordI, commitId, logVals, attempts,
                 dLocals>>

AbortStep(t) == UndoStep(t, "t_abort", "t_begin")
RollbackStep(t) == UndoStep(t, "t_rollback", "t_done")

\* One iteration of Commit()'s release loop: push the record id and its
\* value (GetRecord) and release the lock; after the loop append the line
\* "commit_id ids values" to the thread's log file.
CommitLoop(t) ==
  LET l == deque[t][loopIdx[t]] IN
  /\ pc[t] = "t_commit_loop"
  /\ IF loopIdx[t] > Len(deque[t])
       THEN /\ commitLog' = commitLog \cup
                 {[cid |-> commitId[t],
                   recs |-> [n \in 1 .. Len(deque[t]) |-> RecOf(deque[t][n])],
                   vals |-> logVals[t]]}
            /\ Goto(t, "t_begin")
            /\ UNCHANGED <<ret, rLock, loopIdx, logVals>>
       ELSE /\ logVals' = [logVals EXCEPT ![t] = Append(@, recordValue[RecOf(l)])]
            /\ CallRelease(t, l, "t_commit_loop")
            /\ loopIdx' = [loopIdx EXCEPT ![t] = @ + 1]
            /\ UNCHANGED commitLog
  /\ UNCHANGED <<head, tail, headMutex, recordValue, poolLen, lockFields,
                 deque, conflict, sleeping, woken, aLocals, rTarget, rNewHead,
                 globalCount, recs, recordI, commitId, attempts, dLocals>>

TrxStep(t) ==
  \/ BeginTrx(t) \/ StopWorker(t) \/ FindReturn(t) \/ Update1Return(t)
  \/ Update2Return(t) \/ CommitStart(t) \/ CommitLoop(t)
  \/ AbortStep(t) \/ RollbackStep(t)

Finished(t) == pc[t] \in {"t_done", "t_capped"}
AllFinished == \A t \in Threads : Finished(t)

\* A step of AcquireLock or ReleaseLock leaves the TrxManager state alone.
\* (Listed one by one so that each is an action of its own.)
Next ==
  \/ \E t \in Threads :
       \/ TrxStep(t)
       \/ AllocLock(t) /\ UNCHANGED trxVars
       \/ InitLock(t) /\ UNCHANGED trxVars
       \/ TailExchange(t) /\ UNCHANGED trxVars
       \/ Link(t) /\ UNCHANGED trxVars
       \/ SetLockId(t) /\ UNCHANGED trxVars
       \/ SetFirst(t) /\ UNCHANGED trxVars
       \/ SetConflict(t) /\ UNCHANGED trxVars
       \/ ScanStep(t) /\ UNCHANGED trxVars
       \/ CompatStep(t) /\ UNCHANGED trxVars
       \/ Recheck(t) /\ UNCHANGED trxVars
       \/ AcquireFail(t) /\ UNCHANGED trxVars
       \/ WaitCheck(t) /\ UNCHANGED trxVars
       \/ Wakeup(t) /\ UNCHANGED trxVars
       \/ AcquireDone(t) /\ UNCHANGED trxVars
       \/ DetectNone(t) /\ UNCHANGED trxVars
       \/ DetectPop(t) /\ UNCHANGED trxVars
       \/ DetectConflict(t) /\ UNCHANGED trxVars
       \/ DetectId(t) /\ UNCHANGED trxVars
       \/ DetectHead(t) /\ UNCHANGED trxVars
       \/ DetectReached(t) /\ UNCHANGED trxVars
       \/ DetectMoved(t) /\ UNCHANGED trxVars
       \/ DetectFound(t) /\ UNCHANGED trxVars
       \/ DetectStep(t) /\ UNCHANGED trxVars
       \/ DetectNext(t) /\ UNCHANGED trxVars
       \/ ReleaseObsolete(t) /\ UNCHANGED trxVars
       \/ ReleaseLockHead(t) /\ UNCHANGED trxVars
       \/ ReleaseAdvance(t) /\ UNCHANGED trxVars
       \/ ReleaseWakeHead(t) /\ UNCHANGED trxVars
       \/ ReleaseWakeShared(t) /\ UNCHANGED trxVars
       \/ GAcquireLock(t) /\ UNCHANGED trxVars
       \/ GAcquireGranted(t) /\ UNCHANGED trxVars
       \/ GAcquireDeadlock(t) /\ UNCHANGED trxVars
       \/ GAcquireWait(t) /\ UNCHANGED trxVars
       \/ GWakeup(t) /\ UNCHANGED trxVars
       \/ GReleaseLock(t) /\ UNCHANGED trxVars
       \/ GReleaseAdvance(t) /\ UNCHANGED trxVars
  \/ AllFinished /\ UNCHANGED vars

\* Threads are OS threads: each keeps running while it can.  Taking a
\* mutex (head_mutex, global_mutex) that others keep taking and dropping
\* needs strong fairness.
Fairness ==
  \A t \in Threads :
    /\ WF_vars(TrxStep(t) \/ (LockManagerStep(t) /\ UNCHANGED trxVars))
    /\ SF_vars(MutexStep(t) /\ UNCHANGED trxVars)

Spec == Init /\ [][Next]_vars /\ Fairness

-----------------------------------------------------------------------------
(* Properties *)

\* IsCorrect of main.cpp: replay the log lines in commit-id order on a
\* table of 100s (Rj += Ri + 1, then Rk -= Ri) and compare each line's
\* values with the table.
RECURSIVE Replay(_, _, _)
Replay(table, c, n) ==
  IF c > n THEN TRUE
  ELSE
    LET x == CHOOSE y \in commitLog : y.cid = c
        i == x.recs[1]
        j == x.recs[2]
        k == x.recs[3]
        t1 == [table EXCEPT ![j] = @ + table[i] + 1]
        t2 == [t1 EXCEPT ![k] = @ - t1[i]]
    IN /\ x.vals = <<t2[i], t2[j], t2[k]>>
       /\ Replay(t2, c + 1, n)

\* Strict two-phase locking makes the committed transactions serializable
\* in commit-id order: whenever the lines of commit ids 1 .. n have all been
\* written, they pass IsCorrect's replay.  Aborted and rolled-back
\* transactions leave no trace (Abort's and Commit's rollback of diff).
CommitLogSerializable ==
  \A n \in 1 .. LastCommitId :
    (\A c \in 1 .. n : \E y \in commitLog : y.cid = c)
      => Replay([r \in Records |-> 100], 1, n)

\* assert(log_vector.size() == last_global_execution_order): once a worker
\* has stopped because Commit() returned -1 and every worker has stopped,
\* every commit id up to the last has its log line.
LogComplete ==
  (AllFinished /\ \E t \in Threads : pc[t] = "t_done")
    => Cardinality(commitLog) = LastCommitId

\* Deadlock.cpp's claim for racing detectors: when two transactions close
\* a wait-for cycle while the conflict locks they read are still being
\* set, one of the IsDeadlock calls sees the cycle.  Otherwise every
\* worker ends up blocked in cond.wait with no notify_one on its way, and
\* nobody is left to release a lock.  The same holds of IsDeadlock2 in
\* the global-mutex build, whose wait is at g_sleep.
NoStrandedWaiters ==
  ~\A t \in Threads : pc[t] \in {"a_sleep", "g_sleep"} /\ ~woken[t]

====
