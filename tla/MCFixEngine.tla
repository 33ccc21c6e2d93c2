----------------------------- MODULE MCFixEngine -----------------------------
(***************************************************************************)
(* Two hook points, two captures at a time, three fixes, two timeouts.     *)
(***************************************************************************)
EXTENDS FixEngine

CONSTANTS h1, h2

MCHooks == {h1, h2}
=============================================================================
