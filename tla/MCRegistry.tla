----------------------------- MODULE MCRegistry -----------------------------
(***************************************************************************)
(* A small instance of Registry: two algorithms share a name, so that      *)
(* concurrent registrations collide; a second name is only looked up.      *)
(***************************************************************************)
EXTENDS Registry, TLC

CONSTANTS x25519, x25519bis, X25519, MLKEM768

MCNameOf == (x25519 :> X25519) @@ (x25519bis :> X25519)
=============================================================================
