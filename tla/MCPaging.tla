------------------------------ MODULE MCPaging ------------------------------
(* Small instances of Paging for TLC. *)
EXTENDS Paging

Every == {"single", "offset", "page", "sized", "cursor"}
=============================================================================
