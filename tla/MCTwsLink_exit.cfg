SPECIFICATION TwsSpec
CONSTANTS
  NoTimer = off
  ShortPages = 1
  LongPages = 2
  Phones = 1
  QMax = 2
INVARIANT NoTimerWithoutStack
