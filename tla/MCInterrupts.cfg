SPECIFICATION Spec
CONSTANTS
  Chars = {"BS", "CR"}
  MaxChars = 3
  FifoSize = 2
  Period = 2
  Message <- TwoCharacters
INVARIANTS
  TypeOK
  MessageIntact
  EchoExact
  ClaimsCompleted
PROPERTIES
  EveryCharEchoed
  TimerKeepsFiring
