------------------------------ MODULE MCCircRc ------------------------------
(* Model-checking instances of CircRc: two threads sharing AtomicRc roots, *)
(* and blocks that are list nodes with one AtomicRc field each.            *)
EXTENDS CircRc, TLC

CONSTANTS t1, t2, o1, o2, f1, f2

MCThreads == {t1, t2}
MCObj == {o1, o2}

\* Every slot is a root.
MCRootsOnly == [s \in Slots |-> Null]
\* f1 is the next field of o1 and f2 that of o2; the rest are roots.
MCNodeFields == [s \in Slots |-> CASE s = f1 -> o1 [] s = f2 -> o2 [] OTHER -> Null]

\* Threads are interchangeable, and so are blocks: no property names one.
MCSymmetry == Permutations(MCThreads) \cup Permutations(MCObj)
\* With fields, a block and its field are named together: only threads.
MCThreadSymmetry == Permutations(MCThreads)
\* local[t] means nothing while t is unpinned.
MCView == <<global, pinned, [t \in Threads |-> IF pinned[t] THEN local[t] ELSE 0],
            deferred, strong, weak, state, slot, owned, snaps, iter, wowned, pc>>
\* Without IRD and without compare-exchange nothing reads a link's epoch
\* stamp, so states that differ only in stamps behave alike.
Unstamped(p) == [p EXCEPT !.ep = 0]
MCUnstampedView ==
  <<global, pinned, [t \in Threads |-> IF pinned[t] THEN local[t] ELSE 0],
    deferred, strong, weak, state, [s \in Slots |-> Unstamped(slot[s])], owned,
    [t \in Threads |-> {Unstamped(p) : p \in snaps[t]}], iter, wowned, pc>>
=============================================================================
