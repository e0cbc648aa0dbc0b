------------------------------- MODULE MCRacoon -------------------------------
(* A small instance of Racoon for TLC: its handlers.                        *)
EXTENDS Racoon

CONSTANTS p1, p2, h1, s1
=============================================================================
