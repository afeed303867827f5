CONSTANTS
  NoSaga = NoSaga
  Sagas = {s1}
  NumSteps = 3
  Compensable <- MCCompensable
  Workers = {w1, w2, w3}
  MaxWaits = 2
  MaxCrashes = 2
SPECIFICATION FairSpec
INVARIANTS CursorMatchesEffects OutcomeIsHonest
PROPERTIES TerminalIsFinal EventuallyTerminal
CHECK_DEADLOCK FALSE
