----------------------------- MODULE MCFraming ------------------------------
(***************************************************************************)
(* A small instance of the framing.                                        *)
(***************************************************************************)
EXTENDS FramingProps, TLC

CONSTANTS m1, m2, m3

MCSize == (m1 :> 1) @@ (m2 :> 3) @@ (m3 :> 1)

=============================================================================
