SPECIFICATION Spec
CONSTANTS
  Words <- SomeWords
  CommandLines <- UpToThree
  UnsetMode <- OneTestMode
  IntValues = 64
INVARIANTS TypeOK PeerModeWithFailure LastOptionWins AcceptedInRange StringTerminated StringIsAlphabet SameLengthNeeded
CHECK_DEADLOCK FALSE
