SPECIFICATION Spec
CONSTANTS
  Commands <- TwoPlayersCommands
  Acks <- DistinctAcks
  MaxLength = 11
INVARIANTS
  TypeOK
  OneOrder
