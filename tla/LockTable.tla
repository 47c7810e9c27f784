----------------------------- MODULE LockTable -----------------------------
(***************************************************************************)
(* What the lock table of project3 promises its transactions, with the    *)
(* queues, lock ids, recycling and wake-ups left out: for every record,    *)
(* the set of transactions holding a lock on it and in which mode.  A     *)
(* lock is granted only when it is compatible with every lock held on the  *)
(* record (any number of SHARED holders, or one EXCLUSIVE holder), and a   *)
(* holder gives it up by releasing it.  Both builds of LockManager (the    *)
(* lock-free one and the one under a global mutex) implement this.        *)
(***************************************************************************)
EXTENDS FiniteSets

CONSTANTS
  Threads,    \* transactions, one per worker thread
  Records,    \* record ids
  Modes       \* {SHARED, EXCLUSIVE} of the implementation

VARIABLES
  granted     \* granted[r]: the pairs <<thread, mode>> holding a lock on r

Shared == CHOOSE m \in Modes : m = "SHARED"

TypeOK == granted \in [Records -> SUBSET (Threads \X Modes)]

Init == granted = [r \in Records |-> {}]

HoldsOn(t, r) == \E m \in Modes : <<t, m>> \in granted[r]

\* A request of mode m is compatible with the holders of r.
Compatible(m, r) ==
  \/ granted[r] = {}
  \/ m = Shared /\ \A h \in granted[r] : h[2] = Shared

Grant(t, r, m) ==
  /\ ~HoldsOn(t, r)
  /\ Compatible(m, r)
  /\ granted' = [granted EXCEPT ![r] = @ \cup {<<t, m>>}]

Release(t, r, m) ==
  /\ <<t, m>> \in granted[r]
  /\ granted' = [granted EXCEPT ![r] = @ \ {<<t, m>>}]

Next ==
  \E t \in Threads, r \in Records, m \in Modes :
    Grant(t, r, m) \/ Release(t, r, m)

Spec == Init /\ [][Next]_granted

\* Readers and a writer never hold the same record at once.
MutualExclusion ==
  \A r \in Records :
    \A h \in granted[r] : h[2] /= Shared => granted[r] = {h}
====
