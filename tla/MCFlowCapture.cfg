SPECIFICATION Spec
CONSTANTS
  Flows = {f1, f2}
  Servers = {s1}
  Scope = {f1, s1}
INVARIANTS
  EndedIsFinal
  StartTimesAreUsed
  PrintedIsStored
PROPERTY RowsMoveForward
