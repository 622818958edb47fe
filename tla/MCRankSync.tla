----------------------------- MODULE MCRankSync -----------------------------
(* RankSync on a small instance.                                           *)
EXTENDS RankSync, TLC
=============================================================================
