CONSTANTS
  Units = {u0, u1}
  Threads = {t0, t1}
  Locks = {A}
  NoUnit = NoUnit
  NoThread = NoThread
  NoLock = NoLock
SPECIFICATION FairSpec
INVARIANT MutexBalanced
INVARIANT ResetLosesNoLink
INVARIANT MutualExclusion
INVARIANT TokenInv
PROPERTY ReleaseReturns
