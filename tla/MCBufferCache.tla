--------------------------- MODULE MCBufferCache ---------------------------
(***************************************************************************)
(* Model-checking instance of BufferCache: fewer entries than sectors, so  *)
(* that misses evict, and two values so that a stale copy is visible.      *)
(***************************************************************************)
EXTENDS BufferCache, TLC

\* Sectors are interchangeable: they all start zero on the device.
SectorSymmetry == Permutations(Sectors)
=============================================================================
