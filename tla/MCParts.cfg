SPECIFICATION PartsSpec
CONSTANTS
  Task <- MCTask
  NoTask = NoTask
  TaskList <- MCTaskList
  BootTask <- MCBootTask
  FinalTask <- MCFinalTask
  LingerTask <- MCLingerTask
  CommitWindow = FALSE
  Card = {sd0, udisk0}
  WithRec = {sd0}
  RecFolder = TRUE
  Node = {n1, n2, n3, n4}
  NoNode = NoNode
  MaxStamp = 4
  Key = {a, b}
  NoKey = no
  FirstKey = a
  ClickOnly = {b}
  FilterTime = 2
  LongTime = 5
  HoldTime = 8
  ClickDelayTime = 4
  Active = 11
  Others = 1
  MaxClicks = 6
  NoTimer = off
  ShortPages = 1
  LongPages = 1
  Phones = 1
  QMax = 2
  Tones = {bt, fm, call}
  NoTone = NoTone
  ToneFiles <- MCToneFiles
  WithCb = {bt, fm}
  CbMax = 2
INVARIANTS TypeOK CommitChangesMode RequestKept BodyIsCurrent
INVARIANTS DevTypeOK EachOnce ValidIsMounted ActiveIsLastUsed NextVisitsAll IndexEnumerates
INVARIANTS KeyTypeOK CountsBelong FollowsLevel AwakeForItsShare
INVARIANTS TwsTypeOK OneTimer KnowsSibling NeverDeaf
INVARIANTS PlaysAFile
PROPERTIES RequestActedOn ImplementsTones
PROPERTIES Debounced ImplementsGestures Settles PhoneCanConnect
