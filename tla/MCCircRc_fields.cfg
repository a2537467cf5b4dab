CONSTANTS
  t1 = t1
  t2 = t2
  o1 = o1
  o2 = o2
  f1 = f1
  f2 = f2
  Owner <- MCNodeFields
  Ird = FALSE
  ClientOps = {}
  MaxWeak = 0
  Threads = {t1}
  Obj = {o1, o2}
  Slots = {s1, f1}
  Null = Null
  MaxEpoch = 2
  MaxRc = 1
  MaxTag = 0
  MaxMany = 1
  CountBits = 16
  MaxSnaps = 2

SPECIFICATION Spec
VIEW MCUnstampedView


INVARIANT NoUseAfterFree
INVARIANT UnheldIsScheduled
