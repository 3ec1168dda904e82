CONSTANTS
  Names = {l, m}
  Ids = {i, j, k}
  Editors = {e}
  Handlers = {h, g}
  Ops = {"add", "remove", "move"}
SPECIFICATION Spec
SYMMETRY Symmetry
CHECK_DEADLOCK TRUE
INVARIANTS
  TypeOK
  OneEngineUnlessRaced
  LoginStartsAll
  OrderAsConfigured
