---------------------------- MODULE MCHeadOutput ----------------------------
(* Two ranks, two window sizes, rings of one and of two. *)
EXTENDS HeadOutput

MCRanks == {0, 1}
MCWindows == {1, 2}
MCTotals == {2}
MCWorlds == {1, 2}
OneRank == {0}
OneWindow == {1}
=============================================================================
