--------------------------- MODULE LibPurpleOwner ---------------------------
(***************************************************************************)
(* What the handshake of LibPurpleAccess promises, and nothing of how it   *)
(* does it: libpurple has one owner at a time, and it changes hands only   *)
(* through its being free.                                                 *)
(***************************************************************************)
CONSTANTS
  Users,   \* the threads that may own libpurple
  Nobody   \* libpurple is free

VARIABLE owner

Init == owner = Nobody

Acquire(u) ==
  /\ owner = Nobody
  /\ owner' = u

Release(u) ==
  /\ owner = u
  /\ owner' = Nobody

Next == \E u \in Users : Acquire(u) \/ Release(u)

Spec == Init /\ [][Next]_owner
=============================================================================
