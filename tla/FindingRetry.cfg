CONSTANTS
  text = text
  binary = binary
  Jobs <- MCJobs
  ExternalId <- MCExternalId
  NoExternalId = NoExternalId
  Chunks <- MCChunks
  Owner = worker
  NoOwner = NoOwner
  MaxAttempts = 2
  LeaseDuration = 1
  Delays = {0}
  MaxVersion = 1
  MaxFaults = 1
SPECIFICATION Spec
PROPERTIES
  OutageStaysRetryable
CHECK_DEADLOCK FALSE
