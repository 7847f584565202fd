\* Two clients execute, a third recovers at any time; leases lapse, processes crash.
CONSTANTS
  e1 = e1
  e2 = e2
  p1 = p1
  p2 = p2
  p3 = p3
  c1 = c1
  c2 = c2
  c3 = c3
  c4 = c4
  NoExec = NoExec
  NoProc = NoProc
  Execs = {e1, e2}
  Procs = {p1, p2, p3}
  NumSteps = 2
  MaxAttempts = 3
  Calls = {c1, c2, c3}
  Op <- ExecuteAndRecover
  ProcOf <- OwnProcesses
  ExecOf <- TwoIds
  Behaviour <- AnyOutcome
  Idempotent = {2}
  Admission = {"runs", "aside", "barred"}
  CanCrash = {p1, p2}
  Stalls = {p1}
  CarefulRecovery = FALSE
  ItemsExpire = TRUE
SPECIFICATION EngineSpec
INVARIANTS CompletionIsWhole StepsInOrder CheckpointIsTrue
PROPERTIES PlanIsServed
CHECK_DEADLOCK FALSE
