SPECIFICATION LibSpec
CONSTANTS
  Callers = {c1, c2, c3}
  NSplit = 2
  Environments = {"overlap", "failing"}
  Shapes <- BitShapes
  MatrixShapes <- BitMatrices
  TableWidths <- BitTableWidths
CHECK_DEADLOCK FALSE
INVARIANTS TablesComeRight FailuresContained FieldRight WordMatricesRight WordsRestored BitMatricesRight SchedulesRight BitsRestored
