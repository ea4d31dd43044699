--------------------------- MODULE MCSigningKeys ---------------------------
(***************************************************************************)
(* Instances of SigningKeys for TLC: both supported algorithms, and two    *)
(* goroutines, enough for a request to race a rotation, another request or *)
(* another rotation.                                                       *)
(***************************************************************************)
EXTENDS SigningKeys

CONSTANTS RS256, ES256
MCAlg == {RS256, ES256}
=============================================================================
