---------------------------- MODULE BattleEngine ----------------------------
(***************************************************************************)
(* The authoritative state of one battle: game/internal/battle.            *)
(*                                                                         *)
(* Room.Step is modelled as a short run of actions between two "idle"      *)
(* states: StartTick (counters, movement, summoning), one attack-loop      *)
(* iteration per player in any order (Go's map order is unspecified), and  *)
(* CheckVictory.  Only the idle states are visible to the rest of the      *)
(* server, which holds the room's mutex for the whole Step.                *)
(*                                                                         *)
(* Geometry is exact on an integer lattice: positions are integers, the    *)
(* turn rate is a quarter turn, and distances are compared squared, so     *)
(* nothing is rounded.  FrontDot is DefaultConfig's 1/2.                   *)
(***************************************************************************)
EXTENDS Integers, Sequences, FiniteSets

CONSTANTS
  Players,      \* user ids in the room
  Roster,       \* the players in the order of the start data
  TeamID,       \* player -> class id, or NoTeam
  Leaders,      \* the players whose Leader flag is set
  LeaderRules,  \* the values of Room.LeaderRule considered
  NoTeam,       \* the empty team id
  Nobody,       \* the empty user id
  Subjects,     \* the subjects of the battle; each player has a summon in each
  Neutral,      \* the empty subject: outside every field
  Stats,        \* player -> subject -> the snapshot Battles::Create took
  Fields,       \* sequence of [subject, x, z, radius]
  Inputs,       \* the inputs a player may have latched at a tick
  AttackRange, MoveBase, MovePerSpeed, CooldownBase, CooldownMin,
  SpawnOffset,  \* distance of the two spawn lines from the field's centre
  SpawnRowGap,  \* gap between two players of one team on their line
  MaxTick       \* bound: no tick is started after this many

Input == [forward : BOOLEAN, back : BOOLEAN, left : BOOLEAN,
          right : BOOLEAN, attack : BOOLEAN, summon : BOOLEAN]
Stat  == [hp : Nat \ {0}, attack : Nat, defense : Nat, speed : Nat]
Field == [subject : Subjects, x : Int, z : Int, radius : Nat]

ASSUME PlayersAssumption ==
  /\ Players # {} /\ Leaders \subseteq Players
  /\ {Nobody, NoTeam} \cap Players = {}
  /\ Roster \in Seq(Players) /\ \A p \in Players : \E i \in DOMAIN Roster : Roster[i] = p
ASSUME StatsAssumption ==
  /\ Subjects # {} /\ IsFiniteSet(Subjects) /\ Neutral \notin Subjects
  /\ Stats \in [Players -> [Subjects -> Stat]]
  /\ Fields \in Seq(Field) /\ Len(Fields) > 0
ASSUME ConfigAssumption ==
  /\ {AttackRange, MoveBase, MovePerSpeed, CooldownBase, CooldownMin} \subseteq Nat
  /\ {SpawnOffset, SpawnRowGap, MaxTick} \subseteq Nat
  /\ Inputs \subseteq Input /\ LeaderRules \subseteq BOOLEAN

VARIABLES
  leaderRule,   \* Room.LeaderRule, fixed when the room is made
  tick,         \* Room.Tick
  phase,        \* "idle" between Steps, "attacks" while the attack loop runs
  pending,      \* players the attack loop has still to visit
  inputs,       \* the copy of the inputs this Step works on
  pose,         \* player -> [x, z, angle]
  summoned, attacking, cooldown,
  hp,           \* player -> subject -> current HP
  finished,     \* Room.Finished
  verdict,      \* WinnerTeam, LoserTeam, WinnerID, LoserID
  log           \* the attack events of all Steps so far

vars == <<leaderRule, tick, phase, pending, inputs, pose, summoned, attacking,
          cooldown, hp, finished, verdict, log>>

-----------------------------------------------------------------------------
(* Teams *)

\* A player without a team is a team of one.
TeamKey(p) == IF TeamID[p] = NoTeam THEN p ELSE TeamID[p]
AllTeams == {TeamKey(p) : p \in Players}

Defeated(p) == \E s \in Subjects : hp[p][s] <= 0
Standing == {p \in Players : ~Defeated(p)}

\* Teams with a player standing; under LeaderRule, less those whose leaders fell.
SurvivingTeams ==
  {t \in {TeamKey(p) : p \in Standing} :
     leaderRule => \/ \A p \in Leaders : TeamKey(p) # t
                   \/ \E p \in Leaders : TeamKey(p) = t /\ p \in Standing}

\* Two teams still fight, or a lone team has not yet been wiped out.
Undecided ==
  \/ \E t, u \in SurvivingTeams : t # u
  \/ (SurvivingTeams # {} /\ \A t, u \in AllTeams : t = u)

(* Geometry *)

Cos == [a \in 0..3 |-> IF a = 0 THEN 1 ELSE IF a = 2 THEN -1 ELSE 0]
Sin == [a \in 0..3 |-> IF a = 1 THEN 1 ELSE IF a = 3 THEN -1 ELSE 0]

Dist2(a, b) == (b.x - a.x) * (b.x - a.x) + (b.z - a.z) * (b.z - a.z)

FieldContains(f, a) == Dist2(f, a) <= f.radius * f.radius
FieldsAt(a) == {i \in DOMAIN Fields : FieldContains(Fields[i], a)}

\* The subject of the first field that contains the point.
SubjectAt(a) ==
  IF FieldsAt(a) = {} THEN Neutral
  ELSE Fields[CHOOSE i \in FieldsAt(a) : \A j \in FieldsAt(a) : i <= j].subject

CurrentSubject(p) == SubjectAt(pose[p])
InField(p) == CurrentSubject(p) # Neutral
ActiveStat(p) == Stats[p][CurrentSubject(p)]

\* dot / dist >= 1/2, with both sides squared.
InAttackRange(a, b) ==
  LET dot == Cos[a.angle] * (b.x - a.x) + Sin[a.angle] * (b.z - a.z)
  IN  /\ Dist2(a, b) <= AttackRange * AttackRange
      /\ Dist2(a, b) = 0 \/ (dot >= 0 /\ 4 * dot * dot >= Dist2(a, b))

\* Mutant: an attacker is within its own range.
TargetsSelf(p) ==
  {q \in Players : ~Defeated(q) /\ InField(q) /\ InAttackRange(pose[p], pose[q])}

\* Who an attack of p can hit, and the nearest of them: among equally near
\* ones the map's iteration order decides.
Targets(p) ==
  {q \in Players \ {p} : ~Defeated(q) /\ InField(q) /\ InAttackRange(pose[p], pose[q])}
NearestTargets(p) ==
  {q \in Targets(p) : \A r \in Targets(p) : Dist2(pose[p], pose[q]) <= Dist2(pose[p], pose[r])}

Damage(a, d) == IF a - d < 1 THEN 1 ELSE a - d
\* Mutant: a fast beast's cooldown has no floor.
CooldownUnbounded(s) == CooldownBase - s.speed
CooldownOf(s) == IF CooldownBase - s.speed < CooldownMin THEN CooldownMin
                 ELSE CooldownBase - s.speed

-----------------------------------------------------------------------------
(* The room buildRoom makes of the start data *)

FirstSlot(p) == CHOOSE i \in DOMAIN Roster : /\ Roster[i] = p
                                             /\ \A j \in 1..(i - 1) : Roster[j] # p
\* The index of p's team in order of appearance, and p's place in its team.
TeamSide(p) ==
  LET first == CHOOSE i \in DOMAIN Roster :
                 /\ TeamKey(Roster[i]) = TeamKey(p)
                 /\ \A j \in 1..(i - 1) : TeamKey(Roster[j]) # TeamKey(p)
  IN  Cardinality({TeamKey(Roster[j]) : j \in 1..(first - 1)})
TeamRow(p) == Cardinality({j \in 1..(FirstSlot(p) - 1) : TeamKey(Roster[j]) = TeamKey(p)})

\* Rails puts the first field on the x axis, so the spawn axis is +x: even
\* teams stand at -x facing +x, odd teams opposite, rows along z.
Spawn(p) ==
  LET even == TeamSide(p) % 2 = 0
  IN  [x |-> IF even THEN Fields[1].x - SpawnOffset ELSE Fields[1].x + SpawnOffset,
       z |-> Fields[1].z + TeamRow(p) * SpawnRowGap,
       angle |-> IF even THEN 0 ELSE 2]

NoInput == [forward |-> FALSE, back |-> FALSE, left |-> FALSE,
            right |-> FALSE, attack |-> FALSE, summon |-> FALSE]
NoVerdict == [winnerTeam |-> NoTeam, loserTeam |-> NoTeam,
              winnerID |-> Nobody, loserID |-> Nobody]

Init ==
  /\ leaderRule \in LeaderRules
  /\ tick = 0 /\ phase = "idle" /\ pending = {}
  /\ inputs = [p \in Players |-> NoInput]
  /\ pose = [p \in Players |-> Spawn(p)]
  /\ summoned = [p \in Players |-> FALSE]
  /\ attacking = [p \in Players |-> FALSE]
  /\ cooldown = [p \in Players |-> 0]
  /\ hp = [p \in Players |-> [s \in Subjects |-> Stats[p][s].hp]]
  /\ finished = FALSE /\ verdict = NoVerdict /\ log = << >>

-----------------------------------------------------------------------------
(* Room.Step *)

\* applyMove: turn, then walk at the speed of the summon active where the
\* player stood before the step.
Moved(p, in) ==
  LET turned == (pose[p].angle + (IF in.left THEN 3 ELSE 0) + (IF in.right THEN 1 ELSE 0)) % 4
      speed  == MoveBase + (IF InField(p) THEN ActiveStat(p).speed * MovePerSpeed ELSE 0)
      dir    == IF in.forward THEN 1 ELSE IF in.back THEN -1 ELSE 0
  IN  [x |-> pose[p].x + Cos[turned] * speed * dir,
       z |-> pose[p].z + Sin[turned] * speed * dir,
       angle |-> turned]

\* Mutant: the summoning loop runs before the movement loop.
StartTickSummonFirst(in) ==
  /\ phase = "idle" /\ ~finished /\ tick < MaxTick
  /\ tick' = tick + 1
  /\ inputs' = in
  /\ attacking' = [p \in Players |-> FALSE]
  /\ cooldown' = [p \in Players |-> IF cooldown[p] > 0 THEN cooldown[p] - 1 ELSE 0]
  /\ pose' = [p \in Players |-> IF Defeated(p) THEN pose[p] ELSE Moved(p, in[p])]
  /\ summoned' = [p \in Players |->
       ~Defeated(p) /\ InField(p) /\ (summoned[p] \/ in[p].summon)]
  /\ phase' = "attacks" /\ pending' = Players
  /\ UNCHANGED <<leaderRule, hp, finished, verdict, log>>

\* The start of a Step: counters, then the movement loop, then the summoning
\* loop, which sees the new positions.  A defeated player leaves the field.
StartTick(in) ==
  /\ phase = "idle" /\ ~finished /\ tick < MaxTick
  /\ tick' = tick + 1
  /\ inputs' = in
  /\ attacking' = [p \in Players |-> FALSE]
  /\ cooldown' = [p \in Players |-> IF cooldown[p] > 0 THEN cooldown[p] - 1 ELSE 0]
  /\ pose' = [p \in Players |-> IF Defeated(p) THEN pose[p] ELSE Moved(p, in[p])]
  /\ summoned' = [p \in Players |->
       ~Defeated(p) /\ SubjectAt(pose'[p]) # Neutral /\ (summoned[p] \/ in[p].summon)]
  /\ phase' = "attacks" /\ pending' = Players
  /\ UNCHANGED <<leaderRule, hp, finished, verdict, log>>

\* Mutant: a player defeated earlier in the loop still strikes.
CanAttackFallen(p) ==
  inputs[p].attack /\ InField(p) /\ summoned[p] /\ cooldown[p] = 0

CanAttack(p) ==
  /\ ~Defeated(p) /\ inputs[p].attack /\ InField(p) /\ summoned[p] /\ cooldown[p] = 0

\* The attack loop visits p, who does not (or may not) attack.
Pass(p) ==
  /\ phase = "attacks" /\ p \in pending
  /\ ~CanAttack(p)
  /\ pending' = pending \ {p}
  /\ UNCHANGED <<leaderRule, tick, phase, inputs, pose, summoned, attacking, cooldown,
                 hp, finished, verdict, log>>

\* p's attack passes the checks, whether or not it will hit anyone.
Swing(p) ==
  /\ phase = "attacks" /\ p \in pending
  /\ CanAttack(p)
  /\ pending' = pending \ {p}
  /\ attacking' = [attacking EXCEPT ![p] = TRUE]
  /\ cooldown' = [cooldown EXCEPT ![p] = CooldownOf(ActiveStat(p))]
  /\ UNCHANGED <<leaderRule, tick, phase, inputs, pose, summoned, finished, verdict>>

Whiff(p) ==
  /\ Swing(p)
  /\ NearestTargets(p) = {}
  /\ UNCHANGED <<hp, log>>

\* Mutants: the blow takes the hit points below zero, or is logged undefended.
HitUnclamped(p, q) ==
  /\ Swing(p)
  /\ q \in NearestTargets(p)
  /\ LET dmg == Damage(ActiveStat(p).attack, ActiveStat(q).defense)
     IN  /\ hp' = [hp EXCEPT ![q][CurrentSubject(q)] = @ - dmg]
         /\ log' = Append(log, [turn |-> tick, actor |-> p, target |-> q, damage |-> dmg])

HitLogsAttack(p, q) ==
  /\ Swing(p)
  /\ q \in NearestTargets(p)
  /\ LET dmg == Damage(ActiveStat(p).attack, ActiveStat(q).defense)
     IN  /\ hp' = [hp EXCEPT ![q][CurrentSubject(q)] = IF @ - dmg < 0 THEN 0 ELSE @ - dmg]
         /\ log' = Append(log, [turn |-> tick, actor |-> p, target |-> q,
                                damage |-> ActiveStat(p).attack])

Hit(p, q) ==
  /\ Swing(p)
  /\ q \in NearestTargets(p)
  /\ LET dmg == Damage(ActiveStat(p).attack, ActiveStat(q).defense)
     IN  /\ hp' = [hp EXCEPT ![q][CurrentSubject(q)] = IF @ - dmg < 0 THEN 0 ELSE @ - dmg]
         /\ log' = Append(log, [turn |-> tick, actor |-> p, target |-> q, damage |-> dmg])

\* Mutant: a team that stands without its leader may still win.
VerdictsStanding ==
  {v \in [winnerTeam : AllTeams \cup {NoTeam}, loserTeam : AllTeams,
          winnerID : Players \cup {Nobody}, loserID : Players] :
     /\ v.winnerTeam \in {TeamKey(p) : p \in Standing}
     /\ v.winnerID \in Players /\ TeamKey(v.winnerID) = v.winnerTeam
     /\ v.loserTeam # v.winnerTeam
     /\ TeamKey(v.loserID) = v.loserTeam}

\* WinnerTeam, then any team that did not survive, then a member of each.
Verdicts ==
  {v \in [winnerTeam : AllTeams \cup {NoTeam}, loserTeam : AllTeams,
          winnerID : Players \cup {Nobody}, loserID : Players] :
     /\ IF SurvivingTeams = {} THEN v.winnerTeam = NoTeam /\ v.winnerID = Nobody
        ELSE /\ v.winnerTeam \in SurvivingTeams
             /\ v.winnerID \in Players /\ TeamKey(v.winnerID) = v.winnerTeam
     /\ v.loserTeam \notin SurvivingTeams
     /\ TeamKey(v.loserID) = v.loserTeam}

\* The loop is over: the Step decides the battle or leaves it to the next tick,
\* and its copy of the inputs goes out of scope.
CheckVictory ==
  /\ phase = "attacks" /\ pending = {}
  /\ phase' = "idle"
  /\ \/ Undecided /\ UNCHANGED <<finished, verdict>>
     \/ ~Undecided /\ finished' = TRUE /\ verdict' \in Verdicts
  /\ inputs' = [p \in Players |-> NoInput]
  /\ UNCHANGED <<leaderRule, tick, pending, pose, summoned, attacking,
                 cooldown, hp, log>>

Next ==
  \/ \E in \in [Players -> Inputs] : StartTick(in)
  \/ \E p \in Players : Pass(p)
  \/ \E p \in Players : Whiff(p)
  \/ \E p, q \in Players : Hit(p, q)
  \/ CheckVictory

Spec == Init /\ [][Next]_vars

-----------------------------------------------------------------------------
(* Properties *)

Pose == [x : Int, z : Int, angle : 0..3]
Event == [turn : Nat, actor : Players, target : Players, damage : Nat \ {0}]
Verdict == [winnerTeam : AllTeams \cup {NoTeam}, loserTeam : AllTeams \cup {NoTeam},
            winnerID : Players \cup {Nobody}, loserID : Players \cup {Nobody}]

\* The types of the room's state.
TypeOK ==
  /\ leaderRule \in BOOLEAN /\ tick \in Nat /\ phase \in {"idle", "attacks"}
  /\ pending \subseteq Players
  /\ inputs \in [Players -> Input]
  /\ pose \in [Players -> Pose]
  /\ summoned \in [Players -> BOOLEAN] /\ attacking \in [Players -> BOOLEAN]
  /\ cooldown \in [Players -> Nat]
  /\ hp \in [Players -> [Subjects -> Nat]]
  /\ finished \in BOOLEAN /\ verdict \in Verdict /\ log \in Seq(Event)

\* However the map orders the attack loop, somebody is left standing: the
\* last one to hit is not hit, so a tick cannot wipe out the whole room.
SomeoneStands == Standing # {}

\* A finished room's verdict agrees with who is standing: the winner is the
\* only surviving team and the loser did not survive, the representatives
\* belong to their teams, and a battle without LeaderRule is never a draw;
\* between Steps, an unfinished room has a reason to go on.
VerdictSound ==
  phase = "idle" =>
    IF ~finished THEN Undecided
    ELSE /\ SurvivingTeams = {verdict.winnerTeam} \ {NoTeam}
         /\ verdict.loserTeam \in AllTeams \ SurvivingTeams
         /\ verdict.loserID \in Players /\ TeamKey(verdict.loserID) = verdict.loserTeam
         /\ verdict.winnerTeam # NoTeam => /\ verdict.winnerID \in Players
                                           /\ TeamKey(verdict.winnerID) = verdict.winnerTeam
         /\ ~leaderRule => verdict.winnerTeam # NoTeam

\* A battle between members of one team is never decided: it would take a
\* wipe-out, which SomeoneStands rules out.
LoneTeamNeverEnds == (\A t, u \in AllTeams : t = u) /\ ~leaderRule => ~finished

\* A beast on the field stands in a summoning field, although it moves first
\* and the summoning loop alone puts it away.
SummonedOnlyInField == \A p \in Players : summoned[p] => InField(p)

\* Two hits of one player are at least the minimum cooldown apart, and a
\* player hits at most once a tick, whichever fields it fought in between.
HitsAreSpaced ==
  \A i, j \in DOMAIN log :
    i < j /\ log[i].actor = log[j].actor =>
      /\ log[j].turn >= log[i].turn + CooldownMin
      /\ log[j].turn > log[i].turn

\* The hit points q has lost, each subject's numbered, and the points of damage
\* logged against it, each blow's numbered.
PointsLost(q) ==
  UNION {{s} \X ((hp[q][s] + 1)..Stats[q][s].hp) : s \in Subjects}
PointsLogged(q) ==
  UNION {{i} \X (1..log[i].damage) : i \in {j \in DOMAIN log : log[j].target = q}}

\* The action log that Rails stores accounts for every lost hit point: a
\* standing player lost exactly the damage logged against it, a defeated one
\* at most that (the last blow is clamped at 0).
LogAccountsForDamage ==
  \A q \in Players :
    /\ Cardinality(PointsLost(q)) <= Cardinality(PointsLogged(q))
    /\ ~Defeated(q) => Cardinality(PointsLost(q)) = Cardinality(PointsLogged(q))

\* A defeated player never recovers, moves, strikes or is struck again.
DefeatedAreOut ==
  [][\A p \in Players : Defeated(p) =>
       /\ Defeated(p)' /\ hp'[p] = hp[p] /\ pose'[p] = pose[p]
       /\ ~(attacking'[p] /\ ~attacking[p])
       /\ log' # log => log'[Len(log')].actor # p]_vars

\* The room implements the abstract battle.
E == INSTANCE Elimination WITH
       Team <- [p \in Players |-> TeamKey(p)], rule <- leaderRule,
       standing <- Standing, decided <- finished, winner <- verdict.winnerTeam
Elimination == E!Spec

\* The comment over nearestTarget's call says the nearest target is unique.
NearestIsUnique ==
  phase = "attacks" =>
    \A p \in pending : CanAttack(p) => \A q, r \in NearestTargets(p) : q = r
=============================================================================
