SPECIFICATION Spec
CONSTANTS
  Callers = {"app", "worker"}
  Asked <- AskedOf
  Before <- Befores
  Script <- AllScripts
  ErrorsFor <- ErrorsOf
  Attempts = 3
  Patience = 2
  Faults = {"lost", "overloaded", "refused", "garbled", "slow", "failed", "edited"}
  MaxFaults = 4
INVARIANTS
  TypeOK
  OutIsWhole
  TwiceHasACause
  SamePostOnce
  ToldIsOut
  ErrorsSayWhatWentOut
  SignInAgainHasACause
  LikedTwiceHasACause
  ChecksComeFirst
  DeclaredMethodsExist
