SPECIFICATION Spec
CONSTANTS
  Messages <- MCMessages
  MaxBytes = 4
  MaxItems = 2
INVARIANTS
  TextIsDecoded
  SameHoweverCut
  MessagesArrive
  CallsAreNested
  BlocksAreWellFormed
  BlocksCarryTheAnswer
CHECK_DEADLOCK FALSE
