--------------------------- MODULE MCPagedChunk ---------------------------
(* Small geometries of PagedChunk for TLC. *)
EXTENDS PagedChunk

CONSTANTS r1, r2

TwoRows == {r1, r2}
============================================================================
