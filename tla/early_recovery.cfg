\* A recovery comes before the first step of a worker that lives, in time with its leases.
CONSTANTS
  e1 = e1
  e2 = e2
  p1 = p1
  p2 = p2
  p3 = p3
  c1 = c1
  c2 = c2
  c3 = c3
  c4 = c4
  NoExec = NoExec
  NoProc = NoProc
  Execs = {e1}
  Procs = {p1, p2, p3}
  NumSteps = 2
  MaxAttempts = 3
  Calls = {c1, c2}
  Op <- ThenRecover
  ProcOf <- OwnProcesses
  ExecOf <- SameId
  Behaviour <- AlwaysOk
  Idempotent = {}
  Admission = {"runs"}
  CanCrash = {}
  Stalls = {}
  CarefulRecovery = FALSE
  ItemsExpire = FALSE
SPECIFICATION EngineSpec
INVARIANTS SideEffectOnce
CHECK_DEADLOCK FALSE
