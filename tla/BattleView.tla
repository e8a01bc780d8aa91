----------------------------- MODULE BattleView -----------------------------
(***************************************************************************)
(* What a battle page promises its player: from opening to closing it      *)
(* shows one battle, its states first and then a verdict that a room of    *)
(* this battle has reached.                                                *)
(***************************************************************************)
CONSTANTS Battles, Verdict, None

VARIABLES at, seen, told, reached

vars == <<at, seen, told, reached>>

Init ==
  /\ at = None /\ seen = FALSE /\ told = None
  /\ reached = [b \in Battles |-> {}]

Open(b) ==
  /\ at = None /\ at' = b
  /\ seen' = FALSE /\ told' = None
  /\ UNCHANGED reached

See == at # None /\ seen' = TRUE /\ UNCHANGED <<at, told, reached>>

Tell ==
  /\ at # None /\ seen
  /\ told' \in reached[at]
  /\ UNCHANGED <<at, seen, reached>>

Shut ==
  /\ at # None /\ at' = None
  /\ seen' = FALSE /\ told' = None
  /\ UNCHANGED reached

Reach(b, v) ==
  /\ reached' = [reached EXCEPT ![b] = @ \cup {v}]
  /\ UNCHANGED <<at, seen, told>>

Next ==
  \/ \E b \in Battles : Open(b)
  \/ See \/ Tell \/ Shut
  \/ \E b \in Battles, v \in Verdict : Reach(b, v)

Spec == Init /\ [][Next]_vars
=============================================================================
