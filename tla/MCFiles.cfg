SPECIFICATION Spec
INVARIANTS TypesOK   PageShowsServer
 
CHECK_DEADLOCK FALSE
