------------------------------ MODULE MetalEdits ------------------------------
(***************************************************************************)
(* How freedom-metal's drivers write registers whose fields they share: a   *)
(* call is a sequence of edits, and an edit reads the register, sets, clears *)
(* or toggles bits of what it read, and writes that back.  Registers are    *)
(* sets of bits.                                                            *)
(***************************************************************************)
EXTENDS Sequences

Edit(r, o, p) == [reg |-> r, op |-> o, pins |-> p]

Apply(e, v) == CASE e.op = "set"   -> v \cup e.pins
                 [] e.op = "clear" -> v \ e.pins
                 [] OTHER          -> (v \ e.pins) \cup (e.pins \ v)
=============================================================================
