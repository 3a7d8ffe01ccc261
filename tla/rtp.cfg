CONSTANTS
  MaxSize = 4
  BufferSize = 23
  StampMod = 8
  StampStep = 5
  MaxUnits = 3
  MaxWire = 2
  SeqMod = 4
  Units <- UnitsOf
SPECIFICATION Spec
INVARIANTS TypeOK ClientWritesTheStream IntactUnitsSurvive PacketsFitBuffer UnitsHaveOwnTimestamp
CHECK_DEADLOCK FALSE
