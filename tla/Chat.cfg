SPECIFICATION Spec
CONSTANTS
  c1 = c1
  q1 = q1
  q2 = q2
  once = once
  write = write
  None = None
  Chat = {c1}
  Call = {q1, q2}
  Tool = {once, write}
  Access <- MCAccess
  MaxChats = 1
  MaxIn = 1
  MaxClicks = 2
CHECK_DEADLOCK FALSE
INVARIANTS
  TypeOK
  NothingLeftBehind
  ReachableUntilFinished
  CardsAnswerable
PROPERTIES
  ImplementsProtocol
  ChatsEnd
