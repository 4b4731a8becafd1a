CONSTANTS
  Objects = {1}
  MaxChanges = 2
  MaxUpdateSockets = 2
  Undefined = Undefined
CHECK_DEADLOCK FALSE
SPECIFICATION UpdateSpec
PROPERTIES AllFieldsAreLive
