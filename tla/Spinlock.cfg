\* Seven nops (XS2/XS3 build) with the largest skew they tolerate.
CONSTANTS
  Cores = {0, 1, 2}
  NoCore = NoCore
  Nops = 7
  Skew = 4
SPECIFICATION FairSpec
INVARIANTS TypeOK MutualExclusion NoOrphanedClaim
PROPERTIES ImplementsLock SomeCoreAcquires
