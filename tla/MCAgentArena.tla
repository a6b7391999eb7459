---------------------------- MODULE MCAgentArena ----------------------------
(***************************************************************************)
(* Two markets and two stakers; the liquidity is a third party's.          *)
(***************************************************************************)
EXTENDS AgentArena, TLC

Alike == Permutations(Market) \cup Permutations(User) \cup Permutations(Juror)
=============================================================================
