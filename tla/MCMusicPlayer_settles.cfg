SPECIFICATION FairSpec
CONSTANTS
  Card = {sd0, udisk0}
  WithRec = {}
  RecFolder = FALSE
  Node = {n1, n2}
  NoNode = NoNode
  Preferred = udisk0
  NoCard = NoCard
  Files = 1
  QMax = 1
  Keys = {"next"}
  Usb = {udisk0}
PROPERTY Settles
