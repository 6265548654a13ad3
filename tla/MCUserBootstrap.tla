-------------------------- MODULE MCUserBootstrap --------------------------
(* The attached files for TLC: images of every machine that end before, in   *)
(* and behind the stack page and behind the region.                          *)
EXTENDS UserBootstrap

MCAttached ==
  [machine : {"X64", "ARM64", "OTHER"}, pages : {1, 2, 3, 4, 5, 6, 7}, loads : BOOLEAN]
=============================================================================
