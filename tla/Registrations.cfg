SPECIFICATION Spec
CONSTANTS
  s1 = s1
  s2 = s2
  Subs <- MCSubs
  BadNames = {"", "2nd"}
  BadSymbols = {"2nd"}
  Requests <- MCRequests
  Kernels <- MCKernels
  PlanOf <- Plan
  PanicsOn <- Panics
  KernelTakes <- Accepts
  FieldTypes <- MCFieldTypes
  FieldValues <- MCFieldValues
INVARIANTS
  DummyCounted
  DummyWhileProbed
  NothingLeftBehind
PROPERTIES
  FiltersKeepTheirMeaning
  SyscallsNeedAnID
CHECK_DEADLOCK FALSE
