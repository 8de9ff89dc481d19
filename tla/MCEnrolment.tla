---------------------------- MODULE MCEnrolment -----------------------------
(* Four attempts: one code has been sent to three people, the other to one.*)
EXTENDS Enrolment

CONSTANTS c1, c2, t1, t2, t3, t4

MCCodeOf == [a \in Attempt |-> IF a = t4 THEN c2 ELSE c1]
=============================================================================
