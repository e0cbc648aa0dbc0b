----------------------------- MODULE MCAftrBucket -----------------------------
(* Small instances of AftrBucket for TLC.                                    *)
EXTENDS AftrBucket, MCAftrNat
=============================================================================
