SPECIFICATION Spec
CONSTANTS
  Writers = {w1, w2}
  Flows = {f1, f2}
  plain = plain
  risky = risky
  Records <- MCRecords
  Findings = {x, y}
  FindingsOf <- MCFindingsOf
  NoRow = NoRow
  Nobody = Nobody
  Outside = Outside
  MaxRevision = 3
INVARIANTS
  FindingsMatchRecord
  NewestIsAnnounced
  RevisionsAreDistinct
  LockLeakedOnlyByFailure
PROPERTIES
  ImplementsFlowTable
SYMMETRY Symmetric
