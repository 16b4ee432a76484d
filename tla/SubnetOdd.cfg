SPECIFICATION Spec
CONSTANTS
  Octets = 2
  OctetBits = 3
INVARIANTS InterfaceInItsNetwork 
