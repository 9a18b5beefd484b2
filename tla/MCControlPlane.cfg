CONSTANTS
  Jobs = {upload, connector}
  UploadJobs = {upload}
  Owners = {w1, w2}
  NoOwner = NoOwner
  MaxAttempts = 2
  LeaseDuration = 2
  Delays = {0, 1}
  States = {s1, s2, s3}
  Browsers = {b1, b2}
  Callbacks = {c1, c2, c3}
  Identities = {alice, bob}
  Legacy = {bob}
  None = None
SPECIFICATION ControlPlaneSpec
SYMMETRY Symmetry
INVARIANTS
  TypeOK
  LeaseColumns
  AttemptsCountLeases
  SettledByNewestLease
  OutcomeHasACause
  StateOpensOneSession
  UsersAreIdentified
  FirstLoginsConverge
  SessionsAreVouchedFor
PROPERTIES
  TakenOverOnlyAfterExpiry
  ImplementsLifecycle
CHECK_DEADLOCK FALSE
