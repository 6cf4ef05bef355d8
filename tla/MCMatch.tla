------------------------------ MODULE MCMatch ------------------------------
(***************************************************************************)
(* Match with its two clients.                                             *)
(***************************************************************************)
EXTENDS Match

MCClients == <<"client", "client2">>
=============================================================================
