------------------------------- MODULE MCGroup -------------------------------
(* Small instances of Group.                                               *)
EXTENDS Group

CONSTANTS m1, m2,           \* the members
          c1, c2, c3, c4,   \* the calls
          a, b              \* two deployments

InOrder == <<m1, m2>>
=============================================================================
