------------------------------ MODULE MCClient ------------------------------
(* A full block and a smaller one, each tried twice, both at a time.         *)
EXTENDS FilesService, TLC

CONSTANTS r00, r01, r10, r11

MCInput == <<2, 1>>
MCBlockOf == (r00 :> 0) @@ (r01 :> 0) @@ (r10 :> 1) @@ (r11 :> 1)
MCAttemptOf == (r00 :> 0) @@ (r01 :> 1) @@ (r10 :> 0) @@ (r11 :> 1)
=============================================================================
