---------------------------- MODULE MCPagination ----------------------------
(* Small instances of Pagination.                                           *)
EXTENDS Pagination
=============================================================================
