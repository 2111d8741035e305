SPECIFICATION Spec
CONSTANTS
  t1 = t1
  a = a
  b = b
  w1 = w1
  w2 = w2
  e1 = e1
  e2 = e2
  None = None
  WorkerId = worker
  Task <- OneTask
  Step <- PairStep
  TaskOf <- PairTaskOf
  Ordinal <- PairOrdinal
  DependsOn <- PairParallel
  Kind <- PairDesktop
  Cap <- PairReadWrite
  Limit <- PairReadTwice
  Account <- OneAccount
  Worker = {w1}
  Executor = {e1, e2}
  DeviceCaps <- ReadWriteDevices
  SandboxEnabled = TRUE
  Policies <- AnyPolicy
  ClientOps <- ClientOp
  MaxCalls = 1
  MaxReports = 1
  MaxCrashes = 0
  AttemptCap = 3
CHECK_DEADLOCK FALSE
SYMMETRY SwapDevices
INVARIANTS LeaseAuthority
PROPERTIES ImplementsLocalEffects
