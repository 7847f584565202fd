\* A worker crashes anywhere; two recoveries, the first of which may crash too, and a rejection; every step is a transaction of the store.
CONSTANTS
  e1 = e1
  e2 = e2
  p1 = p1
  p2 = p2
  p3 = p3
  c1 = c1
  c2 = c2
  c3 = c3
  c4 = c4
  NoExec = NoExec
  NoProc = NoProc
  Execs = {e1}
  Procs = {p1, p2, p3}
  NumSteps = 2
  MaxAttempts = 3
  Calls = {c1, c2, c3, c4}
  Op <- ThenRecover
  ProcOf <- OwnProcesses
  ExecOf <- SameId
  Behaviour <- BlockedLast
  Idempotent = {2}
  Admission = {"runs"}
  CanCrash = {p1, p2}
  Stalls = {}
  CarefulRecovery = TRUE
  ItemsExpire = TRUE
SPECIFICATION EngineSpec
INVARIANTS AttemptedOnce
PROPERTIES StoreSpec
CHECK_DEADLOCK FALSE
