SPECIFICATION FairSpec

CONSTANTS
  Options   <- MCOptions
  Lines     <- MCLines
  Datagrams <- MCDatagrams
  Listing   = {2}
  Width     = 1
  Room      = 3

INVARIANTS
  TypeOK
  BootOrder
  ReplyOwn
  AddressWhole
  ScreenOnce

PROPERTIES
  RenderingResumes
  Answered

CHECK_DEADLOCK FALSE
