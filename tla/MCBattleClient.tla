-------------------------- MODULE MCBattleClient --------------------------
(* A battle between classes and one between two players, on one page.      *)
EXTENDS BattleClient

CONSTANTS war, duel

MCBattles == {war, duel}
MCTeamed == {war}
MCMaxTokens == [b \in MCBattles |-> IF b = war THEN 2 ELSE 1]
=============================================================================
