\* Two clients execute one plan of three steps at once, held runs included, and an operator approves its last step.
CONSTANTS
  e1 = e1
  e2 = e2
  p1 = p1
  p2 = p2
  p3 = p3
  c1 = c1
  c2 = c2
  c3 = c3
  c4 = c4
  NoExec = NoExec
  NoProc = NoProc
  Execs = {e1, e2}
  Procs = {p1, p2, p3}
  NumSteps = 3
  MaxAttempts = 3
  Calls = {c1, c2, c3}
  Op <- ExecuteAndApprove
  ProcOf <- OwnProcesses
  ExecOf <- TwoIds
  Behaviour <- ReviewedLast
  Idempotent = {}
  Admission = {"runs", "held"}
  CanCrash = {}
  Stalls = {}
  CarefulRecovery = FALSE
  ItemsExpire = FALSE
SPECIFICATION EngineSpec
INVARIANTS AtMostOneExecution DriverHoldsLock EndsUnlocked
CHECK_DEADLOCK FALSE
