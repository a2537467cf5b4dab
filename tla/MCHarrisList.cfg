CONSTANTS
  t1 = t1
  t2 = t2
  t3 = t3
  n1 = n1
  n2 = n2
  n3 = n3
  Threads <- MCThreads2
  Nodes <- MCNodes2
  Keys = {1, 2}
  ListHead = ListHead
  Null = Null

SPECIFICATION FairSpec

INVARIANT TypeOK
INVARIANT Sorted
INVARIANT UnlinkedAreMarked
INVARIANT ReadsLinearizable

PROPERTY MarkedFrozen
PROPERTY Refines
PROPERTY LockFree
