SPECIFICATION Spec
CONSTANTS
  Job = {1, 2, 3}
  Tool = {t1}
  NoTool = NoTool
  Absent = Absent
  Limit = {1, 2}
  MaxWrites = 6
INVARIANT TypeOK
INVARIANT IndexesSound
INVARIANT IndexesComplete
PROPERTY ImplementsRecords
CHECK_DEADLOCK FALSE
