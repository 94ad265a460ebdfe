SPECIFICATION Spec
CONSTANTS
  Card = {sd0, udisk0}
  WithRec = {}
  RecFolder = FALSE
  Node = {n1, n2}
  NoNode = NoNode
  Preferred = udisk0
  NoCard = NoCard
  Files = 1
  QMax = 2
  Keys = {"mode"}
  Usb = {udisk0}
INVARIANTS TypeOK DecodesWhatIsMounted HandleOfDevice PlayedIsActive ListFollowsSockets PlaysWhatThereIs
SYMMETRY Addresses
