----------------------------- MODULE MCCatalog -----------------------------
(***************************************************************************)
(* Two clients, a table and a system view, three transactions between two  *)
(* starts of the server.                                                   *)
(***************************************************************************)
EXTENDS Catalog
=============================================================================
