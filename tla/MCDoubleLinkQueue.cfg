CONSTANTS
  t1 = t1
  t2 = t2
  t3 = t3
  n1 = n1
  n2 = n2
  n3 = n3
  Threads <- MCThreads3
  Nodes <- MCNodes2
  Sentinel = Sentinel
  Null = Null

SPECIFICATION FairSpec

INVARIANT TypeOK
INVARIANT TailReachable

PROPERTY Refines
PROPERTY LockFree
