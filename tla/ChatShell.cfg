SPECIFICATION Spec
CONSTANTS
  c1 = c1
  c2 = c2
  Null = Null
  Chats = {c1, c2}
  Existing = {c1}
  Sends = {1, 2}
  MaxMount = 2
  MaxStop = 1
INVARIANTS
  TypeOK
  OnlyThisChat
  AnswerIsShown
  InServersOrder
PROPERTIES
  NothingVanishes
  EverythingSettles
CHECK_DEADLOCK FALSE
