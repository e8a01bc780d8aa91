--------------------------- MODULE MCBattleEngine ---------------------------
(***************************************************************************)
(* Three players on a small lattice: a1 and a2 of one class against the    *)
(* unaffiliated b1, with two summoning fields side by side.                *)
(***************************************************************************)
EXTENDS BattleEngine, TLC

CONSTANTS a1, a2, b1, classA, math, art

MCPlayers == {a1, a2, b1}
MCRoster  == <<a1, b1, a2>>
MCTeamID  == (a1 :> classA) @@ (a2 :> classA) @@ (b1 :> NoTeam)
MCSoloID  == [p \in MCPlayers |-> NoTeam]
MCLeaders == {a1}
MCStats ==
  (a1 :> (math :> [hp |-> 2, attack |-> 3, defense |-> 1, speed |-> 2]
       @@ art  :> [hp |-> 1, attack |-> 1, defense |-> 0, speed |-> 0]))
  @@ (a2 :> (math :> [hp |-> 1, attack |-> 1, defense |-> 2, speed |-> 0]
          @@ art  :> [hp |-> 1, attack |-> 1, defense |-> 0, speed |-> 0]))
  @@ (b1 :> (math :> [hp |-> 3, attack |-> 2, defense |-> 1, speed |-> 1]
          @@ art  :> [hp |-> 1, attack |-> 2, defense |-> 0, speed |-> 0]))
MCFields ==
  <<[subject |-> math, x |-> 2, z |-> 0, radius |-> 1],
    [subject |-> art, x |-> 3, z |-> 0, radius |-> 1]>>

Press(keys) ==
  [forward |-> "forward" \in keys, back |-> "back" \in keys, left |-> "left" \in keys,
   right |-> "right" \in keys, attack |-> "attack" \in keys, summon |-> "summon" \in keys]
MCInputs == {Press({"summon", "attack"}), Press({"attack", "left"}), Press({"forward"})}
=============================================================================
