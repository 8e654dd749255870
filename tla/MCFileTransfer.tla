---------------------------- MODULE MCFileTransfer ----------------------------
(***************************************************************************)
(* A transfer to send and one to receive, of two contacts.                 *)
(***************************************************************************)
EXTENDS FileTransfer, TLC

CONSTANTS s1, r1, ca, cb

WhoIs == [x \in Xfers |-> IF x = s1 THEN ca ELSE cb]
=============================================================================
