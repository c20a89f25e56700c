---------------------------- MODULE MCDomovoyCore ----------------------------
(***************************************************************************)
(* A small instance of the life cycle: three calls of Init, so that two of *)
(* them may throw or a second session follow the first, and a capacity     *)
(* above the pool's minimum block.                                         *)
(***************************************************************************)
EXTENDS DomovoyCore

MCCapacities == {2, 8}
=============================================================================
