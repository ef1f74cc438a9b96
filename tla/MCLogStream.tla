---------------------------- MODULE MCLogStream ----------------------------
(* Three rows, two polls under way at one time.                            *)
EXTENDS LogStream
=============================================================================
