SPECIFICATION OracleFairSpec
CONSTANTS
  Names = {x1}
  a1 = a1
  a2 = a2
  a3 = a3
  Addresses <- MCAddresses
  Signers <- MCSigners
  Resolvers <- MCResolvers
  zero = zero
  None = None
  MAX_TIME_DRIFT = 1
  Expiries = {3}
  MaxTime = 4
  maxRetries = 2
  Failures = {"crash", "disconnect", "rpc", "filter"}
  MaxEvents = 3
  MaxFailures = 2
INVARIANT OracleTypeOK ActiveIsOwners ActiveIsAccepted SyncedHandled
PROPERTY SignerKept UnexpiredKept SubmissionDecided
\* The clock is bounded and the listener has nothing to do without events.
CHECK_DEADLOCK FALSE
