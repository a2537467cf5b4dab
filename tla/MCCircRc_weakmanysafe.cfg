CONSTANTS
  t1 = t1
  t2 = t2
  o1 = o1
  o2 = o2
  f1 = f1
  f2 = f2
  Owner <- MCRootsOnly
  Ird = FALSE
  ClientOps = {"weak_many"}
  MaxWeak = 1
  Threads <- MCThreads
  Obj = {o1}
  Slots = {s1}
  Null = Null
  MaxEpoch = 2
  MaxRc = 2
  MaxTag = 0
  MaxMany = 1
  CountBits = 16
  MaxSnaps = 1

SPECIFICATION Spec
SYMMETRY MCThreadSymmetry
VIEW MCUnstampedView

INVARIANT NoUseAfterFree
INVARIANT CountCoversHolders
