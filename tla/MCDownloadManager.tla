------------------------- MODULE MCDownloadManager -------------------------
(* Instances of the download manager.                                      *)
EXTENDS DownloadManager, TLC

Symmetry == Permutations(Clients) \cup Permutations(Ids)
=============================================================================
