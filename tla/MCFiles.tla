------------------------------ MODULE MCFiles ------------------------------
(* Three uploads race for the indices of a file they do not all fit in.     *)
EXTENDS FilesGateway

CONSTANTS r1, r2, r3
============================================================================
