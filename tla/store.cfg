\* Any caller, any transaction: one execution, one worker, two attempts of each step.
CONSTANTS
  e1 = e1
  p1 = p1
  Execs = {e1}
  Procs = {p1}
  NumSteps = 2
  NoExec = NoExec
  NoProc = NoProc
  MaxAttempts = 2
SPECIFICATION SomeSpec
INVARIANTS TypeOK AtMostOneCompletion CompletionInRows LastStepIsCompleted
PROPERTY CompletedIsSettled
