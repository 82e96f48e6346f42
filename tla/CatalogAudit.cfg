SPECIFICATION Spec
CONSTANTS
  Editors = {e1, e2}
  Importers = {}
  Sessions = {s1}
  UserOf <- MCUserOf
  ProductIds = {1, 2}
  PriceIds = {1, 2}
  PreviewIds = {v1}
  Names = {"filete", "lomo"}
  Amounts = {10, 20}
  Workbooks <- MCWorkbooks
  MaxPending = 1
  Faults = {"db", "crash"}
  None = None
SYMMETRY Symmetry
CHECK_DEADLOCK FALSE
PROPERTIES AuditTellsChange
