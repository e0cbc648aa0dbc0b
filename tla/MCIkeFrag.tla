------------------------------ MODULE MCIkeFrag ------------------------------
(* Small instances of IkeFrag for TLC: the lengths of the messages.          *)
EXTENDS IkeFrag

MCSize4 == <<4, 3>>
=============================================================================
