--------------------------- MODULE OneShotOverlay ---------------------------
(***************************************************************************)
(* What an avatar promises: it plays animations one at a time, newer keys  *)
(* after older ones and none twice; each ends, recovers and gives way to   *)
(* the base, or to a newer one at any point; closed, it plays no more.     *)
(***************************************************************************)
EXTENDS Naturals

CONSTANTS NoKey, MaxKey

VARIABLES phase, last, open

vars == <<phase, last, open>>

Init == phase = "base" /\ last = NoKey /\ open = TRUE

Play(k) ==
  /\ open
  /\ last # NoKey => k > last
  /\ phase' = "overlay"
  /\ last' = k
  /\ UNCHANGED open

End == open /\ phase = "overlay" /\ phase' = "recovering" /\ UNCHANGED <<last, open>>

Settle == open /\ phase = "recovering" /\ phase' = "base" /\ UNCHANGED <<last, open>>

Close == open /\ open' = FALSE /\ phase' = "base" /\ last' = NoKey

Next == (\E k \in 0..MaxKey : Play(k)) \/ End \/ Settle \/ Close

Spec == Init /\ [][Next]_vars
=============================================================================
