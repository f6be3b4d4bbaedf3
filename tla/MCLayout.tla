------------------------------ MODULE MCLayout ------------------------------
(***************************************************************************)
(* Model checking of Layout with bytes of two bits.                        *)
(***************************************************************************)
EXTENDS Layout
=============================================================================
