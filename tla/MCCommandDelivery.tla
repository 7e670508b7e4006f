------------------------- MODULE MCCommandDelivery -------------------------
(***************************************************************************)
(* CommandDelivery on small instances.  Commands are numbers for the order *)
(* of the CommandId column; connections are interchangeable model values.  *)
(***************************************************************************)
EXTENDS CommandDelivery, TLC

ConnSymmetry == Permutations(Conns)
=============================================================================
