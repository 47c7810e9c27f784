--------------------- MODULE MC_WaitfreeAtomicSnapshot ---------------------
(* Two writer threads, as in "./run 2"; four updates each so that a writer *)
(* can change twice during another thread's scan and then cycle through    *)
(* its buffers while that thread still holds the one it borrowed.          *)
EXTENDS WaitfreeAtomicSnapshot

MCThreadCount == 2
MCValues == {7}
MCMaxWrites == 4
\* Two updates each: enough for both threads to finish an update() whose
\* store is still buffered and then scan.
MCMaxWrites2 == 2
\* Every thread is scheduled fairly.
MCAllScheduled == 0 .. MCThreadCount - 1
\* Only thread 0 is: thread 1 may stop anywhere, for good.
MCScheduled0 == {0}
============================================================================
