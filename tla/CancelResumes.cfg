SPECIFICATION Spec
CONSTANTS
  t1 = t1
  a = a
  b = b
  w1 = w1
  w2 = w2
  e1 = e1
  e2 = e2
  None = None
  WorkerId = worker
  Task <- OneTask
  Step <- SingleStep
  TaskOf <- SingleTaskOf
  Ordinal <- SingleOrdinal
  DependsOn <- SingleDeps
  Kind <- SingleHosted
  Cap <- SingleNoCap
  Limit <- SingleLimit
  Account <- OneAccount
  Worker = {w1}
  Executor = {}
  DeviceCaps <- NoDevices
  SandboxEnabled = TRUE
  Policies <- Ask
  ClientOps <- ClientOp
  MaxCalls = 1
  MaxReports = 1
  MaxCrashes = 0
  AttemptCap = 3
CHECK_DEADLOCK FALSE
PROPERTY CancellationStopsFutureSteps
