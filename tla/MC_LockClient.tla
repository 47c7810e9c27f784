---------------------------- MODULE MC_LockClient ----------------------------
(* Workers on one record: every request meets every other in the same     *)
(* queue, and a worker's later request may reuse the lock_t of an earlier  *)
(* one.                                                                    *)
EXTENDS LockClient, TLC

CONSTANTS t1, t2, t3, r1

MCThreads2 == {t1, t2}
MCThreads3 == {t1, t2, t3}
MCRecords == {r1}
MCSymmetry2 == Permutations(MCThreads2)
MCSymmetry3 == Permutations(MCThreads3)

\* Local variables of a function that is not running are dead: no step
\* reads them before the function assigns them again.  The view hides
\* them so that states differing only there are explored once.
LiveIn(t, labels, v) == IF pc[t] \in labels THEN v ELSE NoLock

LiveLocals ==
  [t \in Threads |->
    <<LiveIn(t, AcquireLabels, aMode[t]), LiveIn(t, AcquireLabels, aRec[t]),
      LiveIn(t, AcquireLabels, aLock[t]), LiveIn(t, AcquireLabels, aPrev[t]),
      LiveIn(t, AcquireLabels, aTarget[t]), LiveIn(t, AcquireLabels, aVec[t]),
      LiveIn(t, AcquireLabels, aIdx[t]), LiveIn(t, ReleaseLabels, rLock[t]),
      LiveIn(t, ReleaseLabels, rTarget[t]),
      LiveIn(t, ReleaseLabels, rNewHead[t])>>]

MCView ==
  <<head, tail, headMutex, poolLen, lockFields, deque, conflict, sleeping,
    woken, pc, ret, trxCount, LiveLocals>>
=============================================================================
