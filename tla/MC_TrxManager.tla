---------------------------- MODULE MC_TrxManager ----------------------------
(* Two workers over three records, as "./run 2 3 N": every transaction     *)
(* locks all three records, so every pair of transactions conflicts and a  *)
(* read-then-write order can close a wait-for cycle.                       *)
EXTENDS TrxManager, TLC

CONSTANTS t1, t2, t3, r1, r2, r3, r4

MCThreads == {t1, t2}
\* Three workers: a wait-for cycle through three transactions.
MCThreads3 == {t1, t2, t3}

MCRecords == {r1, r2, r3}
\* Every draw of the random number generator.
MCDraws == [t \in MCThreads |-> MCRecords \X MCRecords \X MCRecords]
\* Three workers with one draw each: t1 and t2 lock r1 and r2 in opposite
\* orders, and t3 queues behind them on r1 and r2.  t3 reads a record of
\* its own, r4, so that its first lock adds no queue states of interest.
MCRecords4 == {r1, r2, r3, r4}
MCDraws3 ==
  (t1 :> {<<r1, r2, r3>>}) @@ (t2 :> {<<r2, r1, r3>>}) @@
  (t3 :> {<<r4, r1, r2>>})
MCSymmetry == Permutations(MCThreads) \cup Permutations(MCRecords)
MCSymmetry3 == Permutations(MCThreads3) \cup Permutations(MCRecords)


\* Local variables of a function that is not running are dead: no step
\* reads them before the function assigns them again.  The view hides
\* them so that states differing only there are explored once.
LiveIn(t, labels, v) == IF pc[t] \in labels THEN v ELSE NoLock
InAcquire == AcquireLabels
InRelease == ReleaseLabels
\* Where TrxManager reads the result of AcquireLock.
AcquireResultRead == {"t_find_ret", "t_upd1_ret", "t_upd2_ret"}
InCommit == {"t_commit_loop", "t_abort", "t_rollback"} \cup ReleaseLabels
InTrx == {"t_find_ret", "t_upd1_ret", "t_upd2_ret"} \cup AcquireLabels
InDetect == {"d_pop", "d_conf", "d_id", "d_head", "d_walk", "d_next"}

LiveLocals ==
  [t \in Threads |->
    LET acq == pc[t] \in InAcquire
        rel == pc[t] \in InRelease
        trx == pc[t] \in InTrx
        com == pc[t] \in InCommit
        det == pc[t] \in InDetect
        Keep(live, v) == IF live THEN v ELSE NoLock
    IN
    <<Keep(acq, aMode[t]), Keep(acq, aRec[t]),
      Keep(acq \/ pc[t] \in AcquireResultRead, aLock[t]),
      Keep(acq, aPrev[t]), Keep(acq, aTarget[t]), Keep(acq, aVec[t]),
      Keep(acq, aIdx[t]), Keep(rel, rLock[t]), Keep(rel, rTarget[t]),
      Keep(rel, rNewHead[t]), Keep(trx, recordI[t]), Keep(com, loopIdx[t]),
      Keep(com, logVals[t]), Keep(com, commitId[t]), Keep(trx \/ com, recs[t]),
      Keep(det, dQueue[t]), Keep(det, dPass[t]), Keep(det, dOwner[t]),
      Keep(det, dConf[t]), Keep(det, dId[t]), Keep(det, dTarget[t]),
      Keep(det, dTmp[t])>>]

MCView ==
  <<head, tail, headMutex, recordValue, poolLen, lockFields, deque, conflict,
    sleeping, woken, pc, ret, globalCount, commitLog, attempts, LiveLocals>>

=============================================================================
