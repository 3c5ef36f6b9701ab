--------------------------- MODULE MCReplication ---------------------------
(* Three events on pages of two: a tail that grows, a page that is padded  *)
(* and a second segment, with a broken stream and a crash.                 *)
EXTENDS Replication
=============================================================================
