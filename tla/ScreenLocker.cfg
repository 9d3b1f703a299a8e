SPECIFICATION Spec
CONSTANT Budget = 3
INVARIANTS
  TypeOK
  SharedDeadline
  FailureOnlyAfterFallback
PROPERTY ImplementsContract
