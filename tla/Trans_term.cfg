SPECIFICATION Spec
CONSTANTS
  Trans = {client, chan}
  Client = client
  Chan = chan
  NoTrans = none
  Draws = {client, chan}
  HeaderSize = 1
  BodySize = 1
  MaxWrite = 2
  MaxBytes = 2
  MaxIn = 1
  Cap = 1
  MayClose = {chan}
  MayTerm = TRUE
PROPERTIES
  ReliableBytes
