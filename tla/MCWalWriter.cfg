CONSTANTS
  e1 = e1
  e2 = e2
  Events <- MCEvents
  MaxFile = 4
SPECIFICATION Spec
CHECK_DEADLOCK FALSE
INVARIANTS
  TypeOK
  ReadersSeeDurableRecords
PROPERTIES
  HistoryIsAppendOnly
  ImplementsDurableLog
