SPECIFICATION FairSpec
CONSTANTS
  None = None
  n1 = n1
  n2 = n2
  local = local
  shared = shared
  s1 = s1
  s2 = s2
  s3 = s3
  s4 = s4
  s5 = s5
  Nodes <- MCNodes
  Keys <- MCKeys
  Faults = {"put"}
  Sessions <- MCSessions
  KeyOf <- MCKeyOf
  Home <- MCHome
  Releaser <- MCReleaser
  Crashes = {n1}
INVARIANT TypeOK LocalExclusion LockInvariant
PROPERTY ImplementsLock CallsReturn
\* Once every session has ended there is nothing left to do.
CHECK_DEADLOCK FALSE
