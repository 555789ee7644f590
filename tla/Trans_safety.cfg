SPECIFICATION Spec
CONSTANTS
  Trans = {client, chan}
  Client = client
  Chan = chan
  NoTrans = none
  Draws = {client}
  HeaderSize = 1
  BodySize = 1
  MaxWrite = 2
  MaxBytes = 3
  MaxIn = 1
  Cap = 1
  MayClose = {chan}
  MayTerm = FALSE
INVARIANTS
  TypeOK
  BytesInOrder
  SourceAccounting
  CurSourceIsInnermost
  NoUseAfterDelete
PROPERTIES
  BackPressure
  LostChargeBlocksSource
