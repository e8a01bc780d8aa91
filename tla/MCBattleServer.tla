--------------------------- MODULE MCBattleServer ---------------------------
(***************************************************************************)
(* Two users, one of whom may connect a second time (a reload or a second  *)
(* tab), over two lifetimes of the battle's room.                          *)
(***************************************************************************)
EXTENDS BattleServer, TLC

CONSTANTS c1, c2, c3, u1, u2, r1, r2, w1, w2

MCUserOf == [c \in Conns |-> IF c = c2 THEN u2 ELSE u1]

\* Connections of the same user, rooms, and verdicts, are interchangeable.
Symmetry ==
  {p @@ q @@ w : p \in Permutations({c1, c3}), q \in Permutations({r1, r2}),
                 w \in Permutations({w1, w2})}
=============================================================================
