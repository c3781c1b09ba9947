------------------------------ MODULE MCAssets ------------------------------
(* A small instance of the asset files.                                    *)
EXTENDS Assets, TLC

CONSTANTS d1, d2, d3, d4, u1, plain, metadata

MCDownloads == {d1, d2, d3, d4}
MCUploads == {u1}
MCNames == {plain, metadata}

Symmetric == Permutations(MCDownloads)
=============================================================================
