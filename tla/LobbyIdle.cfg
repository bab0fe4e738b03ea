CONSTANTS
  TIMEOUT = 3
  MaxPeople = 3
  MaxTasks = 4
SPECIFICATION Spec
INVARIANTS TypeOK  
 
CHECK_DEADLOCK FALSE
