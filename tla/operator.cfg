\* A client executes the plan; operators approve, reject, retry and cancel it.
CONSTANTS
  e1 = e1
  p1 = p1
  p2 = p2
  c1 = c1
  c2 = c2
  c3 = c3
  c4 = c4
  c5 = c5
  k1 = k1
  k2 = k2
  k3 = k3
  k4 = k4
  NoExec = NoExec
  NoProc = NoProc
  Execs = {e1}
  Procs = {p1, p2}
  NumSteps = 3
  MaxAttempts = 4
  Calls = {c1, c2, c3, c4, c5}
  Op <- ByTheEngine
  ProcOf <- TwoProcesses
  ExecOf <- SameId
  Action <- ByOperators
  Key <- Keys
  Named = {}
  Behaviour <- ThenBlocked
  Idempotent = {}
  Admission = {"runs"}
  CanCrash = {}
  Stalls = {}
  CarefulRecovery = FALSE
  ItemsExpire = FALSE
SPECIFICATION OperatorSpec
INVARIANTS EngineTypeOK OneDriver AtMostOneCompletion
PROPERTIES CancelHolds
CHECK_DEADLOCK FALSE
