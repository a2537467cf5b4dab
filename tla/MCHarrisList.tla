--------------------------- MODULE MCHarrisList ---------------------------
(* Model values for checking HarrisList with TLC. *)
EXTENDS HarrisList

CONSTANTS t1, t2, t3, n1, n2, n3

MCThreads2 == {t1, t2}
MCThreads3 == {t1, t2, t3}
MCNodes2 == {n1, n2}
MCNodes3 == {n1, n2, n3}
============================================================================
