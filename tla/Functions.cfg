SPECIFICATION FunctionsSpec

CONSTANTS
  Octets    = 2
  OctetBits = 3
  Port      = {"1"}
  p1        = "1"
  RuleText  <- MCRuleText
  Passing   <- MCPassing
  MaxRules  = 2
  MaxFrames = 3
  Thread    = {t1, t2}
  Item      = {i1, i2, i3}
  Null      = null
  Counts    = 8
  MaxOps    = 3

INVARIANTS
  AlignedMembers
  MaskTravels
  ChecksumVerifies
  HexTravels
  ValidIpRead
  CommandRead
  LineFits
  CountedOnce
  NewestDecides
  ListTypeOK
  NullNeedsDelete
  FreedUnreachable
  KeptUnlessOverlapped
  WalkMissesNothing

PROPERTIES
  SerialCalls

CHECK_DEADLOCK FALSE
