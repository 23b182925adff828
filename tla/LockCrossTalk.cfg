CONSTANTS
  Units = {u0, u1}
  Threads = {t0, t1}
  Locks = {A, B}
  NoUnit = NoUnit
  NoThread = NoThread
  NoLock = NoLock
SPECIFICATION Spec
SYMMETRY Symm
CHECK_DEADLOCK FALSE
INVARIANT MutualExclusion
