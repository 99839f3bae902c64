SPECIFICATION Spec
CONSTANT Null = Null
PROPERTIES TransfersEnd JobsEnd OperationsEnd
CHECK_DEADLOCK FALSE
