SPECIFICATION Spec
CONSTANTS
  Clients = {c1, c2}
  Jobs <- MCJobs
SYMMETRY Interchangeable
INVARIANTS
  RunsAPrefix
  ReportedLineIsTheBoundary
  RefusalLeavesNoTrace
  DryRunOnlyParses
  BlockIsContiguous
  ReadonlyMutatesUnseen
PROPERTY KeepsScriptPromise
CHECK_DEADLOCK FALSE
