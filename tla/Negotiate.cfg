SPECIFICATION Spec
CONSTANTS
  Handlers <- Few
  MaxRounds = 2
  MaxCalls = 1
  MaxCrashes = 1
CHECK_DEADLOCK FALSE
INVARIANTS
  TypeOK
  AgreementBacked
  LiveHoldsSlot
  SlotAccounted
PROPERTIES
  TerminalFinal
