CONSTANTS
  model = model  cost = cost
  on = on  off = off
  Field = {model, cost}
  Val = {on, off}
  None = None
  MaxRequests = 4
  MaxOther = 2
SPECIFICATION Spec
SYMMETRY Symmetric
INVARIANTS TypeOK ReadYourWrites
PROPERTIES EditsSurvive SavesOnlyEdits
CHECK_DEADLOCK FALSE
