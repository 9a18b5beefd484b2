CONSTANTS
  text = text
  binary = binary
  Jobs <- MCJobs
  ExternalId <- MCExternalId
  NoExternalId = NoExternalId
  Chunks <- MCChunks
  Owner = worker
  NoOwner = NoOwner
  MaxAttempts = 2
  LeaseDuration = 1
  Delays = {0}
  MaxVersion = 3
  MaxFaults = 2
SPECIFICATION Spec
INVARIANTS
  SucceededIsComplete
  GraphRestsOnEvidence
  UploadsAreTracked
  RowsRestOnNewerRows
CHECK_DEADLOCK FALSE
