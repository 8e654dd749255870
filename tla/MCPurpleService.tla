--------------------------- MODULE MCPurpleService ---------------------------
(***************************************************************************)
(* PurpleService with the two threads of the program that go through the   *)
(* handshake, one worker that notifies and one that takes a request to the *)
(* user.                                                                   *)
(***************************************************************************)
EXTENDS PurpleService

CONSTANTS uim, async, notifier, requester

MCSerialized == {uim, async}
MCWorkers == {notifier, requester}
MCRequesters == {requester}
=============================================================================
