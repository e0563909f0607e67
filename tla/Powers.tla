-------------------------------- MODULE Powers --------------------------------
(***************************************************************************)
(* Powers of two, for the shifts of the code.  They are 2 ^ n; as a function *)
(* they can be reasoned about.                                              *)
(***************************************************************************)
EXTENDS Integers

PowerOf2[n \in Nat] == IF n = 0 THEN 1 ELSE 2 * PowerOf2[n - 1]
=============================================================================
