---------------------------- MODULE BattleRecord ----------------------------
(***************************************************************************)
(* What the servers promise about the outcome of one battle, whatever      *)
(* rooms, connections and crashes it takes: a room reaches one verdict,    *)
(* a connection is told the verdict of its own room once at most, and the  *)
(* record is written once, with a verdict some room reached.               *)
(***************************************************************************)
CONSTANTS Rooms, Conns, Winners, None

VARIABLES
  joined,   \* connection -> the room it belongs to
  reached,  \* room -> its verdict
  told,     \* connection -> the verdict it was sent
  recorded  \* the verdict stored for good

vars == <<joined, reached, told, recorded>>

Init ==
  /\ joined = [c \in Conns |-> None] /\ reached = [r \in Rooms |-> None]
  /\ told = [c \in Conns |-> None] /\ recorded = None

Join(c, r) ==
  /\ joined[c] = None
  /\ joined' = [joined EXCEPT ![c] = r]
  /\ UNCHANGED <<reached, told, recorded>>

Reach(r, w) ==
  /\ reached[r] = None
  /\ reached' = [reached EXCEPT ![r] = w]
  /\ UNCHANGED <<joined, told, recorded>>

Tell(c) ==
  /\ joined[c] # None /\ told[c] = None
  /\ reached[joined[c]] # None
  /\ told' = [told EXCEPT ![c] = reached[joined[c]]]
  /\ UNCHANGED <<joined, reached, recorded>>

Record(r) ==
  /\ recorded = None /\ reached[r] # None
  /\ recorded' = reached[r]
  /\ UNCHANGED <<joined, reached, told>>

Next ==
  \/ \E c \in Conns, r \in Rooms : Join(c, r)
  \/ \E r \in Rooms, w \in Winners : Reach(r, w)
  \/ \E c \in Conns : Tell(c)
  \/ \E r \in Rooms : Record(r)

Spec == Init /\ [][Next]_vars
=============================================================================
