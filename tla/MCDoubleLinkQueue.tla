------------------------ MODULE MCDoubleLinkQueue ------------------------
(* Model values for checking DoubleLinkQueue with TLC. *)
EXTENDS DoubleLinkQueue

CONSTANTS t1, t2, t3, n1, n2, n3

MCThreads2 == {t1, t2}
MCThreads3 == {t1, t2, t3}
MCNodes2 == {n1, n2}
MCNodes3 == {n1, n2, n3}
============================================================================
