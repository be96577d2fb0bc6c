------------------------------- MODULE MCRounds -------------------------------
(***************************************************************************)
(* Small instances of Rounds for TLC.                                      *)
(***************************************************************************)
EXTENDS RoundsProps

CONSTANTS p0, p1

\* p0 delivers to itself and p1; p1 to p0.
MCReceivers == [p \in Peers |-> IF p = p0 THEN {p0, p1} ELSE {p0}]
=============================================================================
