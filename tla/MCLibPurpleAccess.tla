-------------------------- MODULE MCLibPurpleAccess --------------------------
(***************************************************************************)
(* LibPurpleAccess with the two threads that go through the handshake in   *)
(* the program, the one of the user interface and the asynchronous one.    *)
(***************************************************************************)
EXTENDS LibPurpleAccess

CONSTANTS uim, async, worker1, worker2

MCSerialized == {uim, async}
MCWorkers == {worker1, worker2}
=============================================================================
