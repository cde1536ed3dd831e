SPECIFICATION MCSpec
CONSTANTS
  one = one
  two = two
  junk = junk
  Undefined = junk
  Component <- TwoComponents
  MaxLength = 3
  Kinds <- AllKinds
  Given <- FourTexts
  OutText <- OutChars
  MaxText = 3
  Limits <- TwoWidths
  Caps = {2}
  Streams <- FourBytes
  SockBuf = 3
  LineCaps = {1, 2}
  Addresses = 2
  MaxWrite = 2
CHECK_DEADLOCK FALSE
INVARIANTS WaitMissesNothing
PROPERTIES ImplementsFile ImplementsText LinesAreOfTheStream
