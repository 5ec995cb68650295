--------------------------- MODULE MCPixmapMemory ---------------------------
(* Model checking PixmapMemory: Pixmaps.cfg and MigrateCached.cfg give the   *)
(* constants their values.  Pixmaps are interchangeable.                     *)
EXTENDS PixmapMemory

PixmapSymmetry == Permutations(Pixmaps)
=============================================================================
