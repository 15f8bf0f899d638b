---------------------------- MODULE MCArenaPages ----------------------------
(***************************************************************************)
(* TLC instance of ArenaPages: like 131,048 bytes in pages of 4,096, the   *)
(* 11 words of an arena leave a rest of its last page of 4.                *)
(***************************************************************************)
EXTENDS ArenaPages
=============================================================================
