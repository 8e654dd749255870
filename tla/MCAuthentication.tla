--------------------------- MODULE MCAuthentication ---------------------------
(***************************************************************************)
(* Authentication with two users, each with a password of its own: the     *)
(* other one's is the wrong password.  Only alice's is remembered.         *)
(***************************************************************************)
EXTENDS Authentication, TLC

CONSTANTS alice, bob, pa, pb

RightPasswords == (alice :> pa) @@ (bob :> pb)
RememberedPasswords == (alice :> pa) @@ (bob :> NoPassword)
=============================================================================
