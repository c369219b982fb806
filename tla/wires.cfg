SPECIFICATION WiresSpec
CONSTANTS
  Width = 2
  PortSize = 3
  MaxGroups = 2
  MaxLen = 2
  Pin <- MCPin
  Layouts <- MCLayouts
  Objects = {o1, o2}
  None = None
  SpiMessages <- MCSpiMessages
  I2cMessages <- MCShortMessages
  FlexioMessages <- MCShortMessages
  BulkThreshold = 3
  Setting <- MCSetting
  Painting = {0, 1}
  PixelOf <- MCPixelOf
  ChunkSize <- MCChunkSize
INVARIANTS
  TypeOK
  OtherPinsKept
  PanelGetsBytes
  Delivered
