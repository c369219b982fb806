\* Payloads up to one chunk longer than the two buffers; a second payload can
\* start while the first is in flight, and errors and timeouts come anywhere.
CONSTANTS
  QSPI_DMA_BUFFER_COUNT = 2
  MaxPayload = 3
  MaxChunks = 5
SPECIFICATION Spec
INVARIANT TypeOK
INVARIANT InflightExact
INVARIANT PanelInOrder
INVARIANT BuffersOutliveTransfers
PROPERTY MethodsReturn
