-------------------------- MODULE MCDesktopImports --------------------------
(***************************************************************************)
(* Three imports and two chats.                                            *)
(***************************************************************************)
EXTENDS DesktopImports

CONSTANTS c1, c2
=============================================================================
