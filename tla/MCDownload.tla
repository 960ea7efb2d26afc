----------------------------- MODULE MCDownload -----------------------------
(***************************************************************************)
(* Instances of Download for TLC; requests are interchangeable.            *)
(***************************************************************************)
EXTENDS Download, TLC

Symmetry == Permutations(Handlers)
=============================================================================
