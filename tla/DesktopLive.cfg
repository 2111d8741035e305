SPECIFICATION FairSpec
CONSTANTS
  t1 = t1
  a = a
  b = b
  w1 = w1
  w2 = w2
  e1 = e1
  e2 = e2
  None = None
  WorkerId = worker
  Task <- OneTask
  Step <- PairStep
  TaskOf <- PairTaskOf
  Ordinal <- PairOrdinal
  DependsOn <- PairChain
  Kind <- PairDesktop
  Cap <- PairWrites
  Limit <- PairLimit
  Account <- OneAccount
  Worker = {w1}
  Executor = {e1, e2}
  DeviceCaps <- ReadWriteDevices
  SandboxEnabled = TRUE
  Policies <- AskOrLocal
  ClientOps <- Reopening
  MaxCalls = 2
  MaxReports = 1
  MaxCrashes = 1
  AttemptCap = 3
CHECK_DEADLOCK FALSE
PROPERTIES DesktopCancelTerminates DesktopTaskSettles
