CONSTANTS
  first = first
  inner = inner
  Objs = {o1, o2}
  Tabs = {first, inner}
  Names = {"a", "5"}
  IntOf <- MCIntOf
  Ints = {"int 5"}
  Scalars = {"x"}
  Arrays <- MCArrays
  First = first
  NULL = NULL
  MaxLen = 3
SYMMETRY Symmetry
SPECIFICATION Spec
INVARIANTS DataTypeOK VisitsKept
PROPERTIES ReadsBack ReadonlyDeep
CHECK_DEADLOCK FALSE
