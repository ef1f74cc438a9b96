SPECIFICATION Spec
CONSTANTS
  Editors = {e1, e2}
  Contents = {c1, c2}
  Variables = {v1, v2}
  Absent = Absent
  NoRow = NoRow
  MaxEdits = 3
SYMMETRY Symmetry
PROPERTIES BumpsVersion
CHECK_DEADLOCK FALSE
