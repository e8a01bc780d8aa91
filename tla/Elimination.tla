----------------------------- MODULE Elimination -----------------------------
(***************************************************************************)
(* What a battle promises its players, without fields, beasts or ticks:    *)
(* players fall one at a time by another standing player's hand, nobody    *)
(* comes back, and the battle is decided once, for the only team left.     *)
(***************************************************************************)
EXTENDS FiniteSets

CONSTANTS Players, Team, Leaders, NoTeam

VARIABLES
  rule,     \* whether a team falls with its leaders
  standing, \* the players still in the battle
  decided, winner

vars == <<rule, standing, decided, winner>>

Teams == {Team[p] : p \in Players}
Led(t) == \E p \in Leaders : Team[p] = t
TeamsLeft ==
  {t \in {Team[p] : p \in standing} :
     rule /\ Led(t) => \E p \in Leaders \cap standing : Team[p] = t}

Init == rule \in BOOLEAN /\ standing = Players /\ decided = FALSE /\ winner = NoTeam

\* by strikes out q.
Fall(by, q) ==
  /\ ~decided /\ by # q /\ {by, q} \subseteq standing
  /\ standing' = standing \ {q}
  /\ UNCHANGED <<rule, decided, winner>>

\* The only team left wins; NoTeam does when every team lost its leader.
Decide ==
  /\ ~decided /\ decided' = TRUE
  /\ \/ TeamsLeft = {} /\ rule /\ winner' = NoTeam
     \/ TeamsLeft = {winner'} /\ winner' \in Teams /\ Teams # {winner'}
  /\ UNCHANGED <<rule, standing>>

Next == (\E by, q \in Players : Fall(by, q)) \/ Decide

Spec == Init /\ [][Next]_vars
=============================================================================
