----------------------------- MODULE MCCommFsm -----------------------------
(* One file that is received while another is stored. *)
EXTENDS CommFsm

MCPaths == {"fw", "algo"}
MCBytes == {0, 1}
=============================================================================
