---------------------------- MODULE MCJwtValidator ---------------------------
(* TLC instance of JwtValidator.                                           *)
EXTENDS JwtValidator

CONSTANTS k1, k2

(* One key at a time.                                                      *)
Rotating == {{k1}, {k2}}
=============================================================================
