\* An approval is sent again, to another process, before its answer is stored.
CONSTANTS
  e1 = e1
  p1 = p1
  p2 = p2
  c1 = c1
  c2 = c2
  c3 = c3
  c4 = c4
  c5 = c5
  k1 = k1
  k2 = k2
  k3 = k3
  k4 = k4
  NoExec = NoExec
  NoProc = NoProc
  Execs = {e1}
  Procs = {p1, p2}
  NumSteps = 3
  MaxAttempts = 4
  Calls = {c1, c2, c3}
  Op <- ThenApprove
  ProcOf <- OtherProcess
  ExecOf <- SameId
  Action <- AllApprove
  Key <- OneKey
  Named = {}
  Behaviour <- ThenBlocked
  Idempotent = {}
  Admission = {"runs"}
  CanCrash = {}
  Stalls = {}
  CarefulRecovery = FALSE
  ItemsExpire = FALSE
SPECIFICATION OperatorSpec
INVARIANTS KeyActsOnce
CHECK_DEADLOCK FALSE
