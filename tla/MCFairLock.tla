----------------------------- MODULE MCFairLock -----------------------------
(* Two relay processes: one with three threads, one with a single thread.  *)
EXTENDS FairLock, TLC

CONSTANTS t1, t2, t3, u1, relay, worker

MCThreads == {t1, t2, t3, u1}
MCProcesses == {relay, worker}
MCProcOf == [t \in MCThreads |-> IF t = u1 THEN worker ELSE relay]
=============================================================================
