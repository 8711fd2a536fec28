SPECIFICATION Spec
CONSTANTS
  MaxTid = 0
  Algoritmos = {"CMN"}
  MaxTickets = 2
  MaxPosts = 2
PROPERTIES
  InterrumpeAlSuyo
CHECK_DEADLOCK FALSE
