----------------------------- MODULE LockClient -----------------------------
(***************************************************************************)
(* The lock table driven by transactions of one operation: each worker    *)
(* repeatedly runs Begin(), then Find(r) (a SHARED lock) or Update(r, d)  *)
(* (an EXCLUSIVE lock), then Commit() or, when AcquireLock returned        *)
(* nullptr, Abort(); both end by calling ReleaseLock on the transaction's  *)
(* lock.  Record values, diffs and the commit log belong to TrxManager and *)
(* are left out here.  Several workers meet on one record, so this driver  *)
(* reaches what the three-record transactions of main.cpp reach only in   *)
(* long runs: a queue of three requests, SHARED requests woken together,  *)
(* and a worker reusing its lock_t while the others still walk the queue. *)
(***************************************************************************)
EXTENDS LockManager

CONSTANTS
  MaxTrx          \* bound: transactions a worker runs

ASSUME MaxTrx \in Nat \ {0}
\* A one-lock transaction never closes a wait-for cycle, so IsDeadlock is
\* always taken as one step here.
ASSUME ~DeadlockSteps

VARIABLES
  trxCount        \* transactions begun by the worker

clientVars == <<trxCount>>
vars == <<lmVars, clientVars>>

ClientLabels == {"c_begin", "c_acquired", "c_done"}

TypeOK ==
  /\ LMTypeOK
  /\ pc \in [Threads -> ClientLabels \cup AcquireLabels \cup ReleaseLabels]
  /\ trxCount \in [Threads -> 0 .. MaxTrx]

Init ==
  /\ LMInit
  /\ pc = [t \in Threads |-> "c_begin"]
  /\ ret = [t \in Threads |-> "c_begin"]
  /\ trxCount = [t \in Threads |-> 0]

\* Begin() (conflict_lock = nullptr, clear trx_lock_deque) followed by
\* Find(r) or Update(r, d): AcquireLock(mode, r, trx).
ClientBegin(t) ==
  \E m \in {SHARED, EXCLUSIVE}, r \in Records :
    /\ pc[t] = "c_begin"
    /\ trxCount[t] < MaxTrx
    /\ trxCount' = [trxCount EXCEPT ![t] = @ + 1]
    /\ conflict' = [conflict EXCEPT ![t] = NoLock]
    /\ deque' = [deque EXCEPT ![t] = <<>>]
    /\ aMode' = [aMode EXCEPT ![t] = m]
    /\ aRec' = [aRec EXCEPT ![t] = r]
    /\ ret' = [ret EXCEPT ![t] = "c_acquired"]
    /\ Goto(t, AcquireEntry)
    /\ UNCHANGED <<head, tail, headMutex, recordValue, poolLen, lockFields,
                   sleeping, woken, aLock, aPrev, aTarget, aVec, aIdx,
                   rLocals, dLocals>>

\* AcquireLock returned.  Commit() (on success) and Abort() (on nullptr)
\* both call ReleaseLock on every lock of the deque, here the only one.
ClientRelease(t) ==
  /\ pc[t] = "c_acquired"
  /\ rLock' = [rLock EXCEPT ![t] = deque[t][1]]
  /\ ret' = [ret EXCEPT ![t] = "c_begin"]
  /\ Goto(t, ReleaseEntry)
  /\ UNCHANGED <<head, tail, headMutex, recordValue, poolLen, lockFields,
                 deque, conflict, sleeping, woken, aLocals, rTarget, rNewHead,
                 clientVars, dLocals>>

\* The worker has run its transactions.
ClientStop(t) ==
  /\ pc[t] = "c_begin"
  /\ trxCount[t] = MaxTrx
  /\ Goto(t, "c_done")
  /\ UNCHANGED <<head, tail, headMutex, recordValue, poolLen, lockFields,
                 deque, conflict, sleeping, woken, ret, aLocals, rLocals,
                 clientVars, dLocals>>

AllDone == \A t \in Threads : pc[t] = "c_done"

\* A step of AcquireLock or ReleaseLock leaves the client state alone.
\* AcquireFail and GAcquireDeadlock are left out: a one-lock transaction
\* holds no lock while it waits, so IsDeadlock and IsDeadlock2 never find
\* a cycle through it.
Next ==
  \/ \E t \in Threads :
       \/ ClientBegin(t) \/ ClientRelease(t) \/ ClientStop(t)
       \/ AllocLock(t) /\ UNCHANGED clientVars
       \/ InitLock(t) /\ UNCHANGED clientVars
       \/ TailExchange(t) /\ UNCHANGED clientVars
       \/ Link(t) /\ UNCHANGED clientVars
       \/ SetLockId(t) /\ UNCHANGED clientVars
       \/ SetFirst(t) /\ UNCHANGED clientVars
       \/ SetConflict(t) /\ UNCHANGED clientVars
       \/ ScanStep(t) /\ UNCHANGED clientVars
       \/ CompatStep(t) /\ UNCHANGED clientVars
       \/ Recheck(t) /\ UNCHANGED clientVars
       \/ WaitCheck(t) /\ UNCHANGED clientVars
       \/ Wakeup(t) /\ UNCHANGED clientVars
       \/ AcquireDone(t) /\ UNCHANGED clientVars
       \/ ReleaseObsolete(t) /\ UNCHANGED clientVars
       \/ ReleaseLockHead(t) /\ UNCHANGED clientVars
       \/ ReleaseAdvance(t) /\ UNCHANGED clientVars
       \/ ReleaseWakeHead(t) /\ UNCHANGED clientVars
       \/ ReleaseWakeShared(t) /\ UNCHANGED clientVars
       \/ GAcquireLock(t) /\ UNCHANGED clientVars
       \/ GAcquireGranted(t) /\ UNCHANGED clientVars
       \/ GAcquireWait(t) /\ UNCHANGED clientVars
       \/ GWakeup(t) /\ UNCHANGED clientVars
       \/ GReleaseLock(t) /\ UNCHANGED clientVars
       \/ GReleaseAdvance(t) /\ UNCHANGED clientVars
  \/ AllDone /\ UNCHANGED vars

ClientStep(t) ==
  ClientBegin(t) \/ ClientRelease(t) \/ ClientStop(t)
    \/ (LockManagerStep(t) /\ UNCHANGED clientVars)

\* Worker threads keep running while they can (weak fairness); taking a
\* mutex (head_mutex, global_mutex) that others take and drop again needs
\* strong fairness.
Spec ==
  /\ Init /\ [][Next]_vars
  /\ \A t \in Threads :
       /\ WF_vars(ClientStep(t))
       /\ SF_vars(MutexStep(t) /\ UNCHANGED clientVars)

-----------------------------------------------------------------------------
(* Liveness *)

\* The workers run to completion: every AcquireLock call returns -- a
\* request that waits is woken by the ReleaseLock that makes it the head
\* (or one of the SHARED requests behind the head), and the spin of the
\* lock-id hand-over ends -- every ReleaseLock returns, and no worker is
\* left blocked in cond.wait or on a mutex, so the program, which joins all
\* its threads, ends.  A lost wake-up (notify sent before the waiter
\* sleeps, signal_flag not set) would leave a worker blocked forever.
AllWorkersFinish == <>AllDone
====
