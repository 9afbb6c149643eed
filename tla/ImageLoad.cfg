SPECIFICATION Spec
CONSTANTS
  Block = 4
  WindowTop = 16
  UbootMin = 1
  Flash = 28
  Ram2 = 28
  ClearEnd = 35
  Top = 36
  Unsigned = 1
  Footer = 2
  FooterRead = {FALSE}
  Layouts <- Devices
INVARIANTS TypeOK VerifiedInPlace NotMisread
PROPERTIES WithinImage
CHECK_DEADLOCK FALSE
