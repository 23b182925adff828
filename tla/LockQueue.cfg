CONSTANTS
  Units = {u0, u1, u2}
  Threads = {t0}
  Locks = {A}
  NoUnit = NoUnit
  NoThread = NoThread
  NoLock = NoLock
SPECIFICATION FairSpec
PROPERTY ImplementsFairLock
PROPERTY QueuedIsGranted
