---------------------------- MODULE MCTestRunner ----------------------------
(* A small registry for TLC: two modules of one and two tests.               *)
EXTENDS TestRunner

CONSTANTS t1, t2, t3, t0

AllOfThem == {t0, t1, t2, t3}
TwoModules == << <<t1>>, <<t2, t3>> >>
WithoutRng == {t0}
=============================================================================
