CONSTANTS
  t1 = t1
  t2 = t2
  o1 = o1
  o2 = o2
  f1 = f1
  f2 = f2
  Owner <- MCRootsOnly
  Ird = FALSE
  ClientOps = {"swap", "cas"}
  MaxWeak = 0
  Threads <- MCThreads
  Obj = {o1}
  Slots = {s1}
  Null = Null
  MaxEpoch = 2
  MaxRc = 2
  MaxTag = 0
  MaxMany = 2
  CountBits = 16
  MaxSnaps = 1

SPECIFICATION Spec
SYMMETRY MCSymmetry
VIEW MCView

INVARIANT TypeOK
INVARIANT NoUseAfterFree
INVARIANT CountCoversHolders
INVARIANT OneDestroyer
INVARIANT UnheldIsScheduled
