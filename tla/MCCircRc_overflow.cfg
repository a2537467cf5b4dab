\* RcInner.strong at a width of 2 bits: four handles to one block, made at
\* once by new_many or one by one by clone, wrap the count to 0, as 2^32
\* handles would at the code's width of 32.
CONSTANTS
  t1 = t1
  t2 = t2
  o1 = o1
  o2 = o2
  f1 = f1
  f2 = f2
  Owner <- MCRootsOnly
  Ird = FALSE
  ClientOps = {}
  MaxWeak = 0
  Threads = {t1, t2}
  Obj = {o1}
  Slots = {s1}
  Null = Null
  MaxEpoch = 2
  MaxRc = 4
  MaxTag = 0
  MaxMany = 1
  CountBits = 2
  MaxSnaps = 1

SPECIFICATION Spec

INVARIANT NoUseAfterFree
