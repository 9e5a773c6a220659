------------------------------ MODULE MCWatch ------------------------------
(* Watch with two files.                                                   *)
EXTENDS Watch
=============================================================================
