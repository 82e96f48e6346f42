SPECIFICATION ImportsSpec
CONSTANTS
  Editors = {e1}
  Importers = {i1, i2}
  Sessions = {s1, s2}
  UserOf <- MCUserOf
  ProductIds = {1, 2}
  PriceIds = {1, 2}
  PreviewIds = {v1, v2}
  Names = {"filete", "lomo"}
  Amounts = {10, 20}
  Workbooks <- MCWorkbooks
  MaxPending = 1
  Faults = {"db", "crash"}
  None = None
CHECK_DEADLOCK FALSE
INVARIANTS TypeOK ConsumedOnce
PROPERTIES ImportAsReviewed ImportIsAudited
