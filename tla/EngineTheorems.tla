--------------------------- MODULE EngineTheorems ---------------------------
(***************************************************************************)
(* What BattleEngine guarantees for every roster, team sheet, field layout *)
(* and configuration.                                                      *)
(***************************************************************************)
EXTENDS BattleEngine, FiniteSetTheorems, WellFoundedInduction, SequenceTheorems, TLAPS

(* Data *)

\* Every nonempty set of naturals has a least element: the initial segments
\* are finite sets, and strict inclusion is well-founded on those.
LEMMA LeastNatural ==
  ASSUME NEW S, S \subseteq Nat, S # {}
  PROVE  \E i \in S : \A j \in S : i <= j
<1> DEFINE Segments == {1..i : i \in S}
<1>1. Segments # {} /\ Segments \subseteq FiniteSubsetsOf(Nat)
  <2>1. \A i \in S : 1..i \in SUBSET Nat /\ IsFiniteSet(1..i)
    BY FS_Interval
  <2> QED
    BY <2>1 DEF FiniteSubsetsOf
<1>2. PICK seg \in Segments : \A other \in Segments :
                                ~ (<<other, seg>> \in StrictSubsetOrdering(Nat))
  <2> HIDE DEF Segments
  <2> QED
    BY <1>1, FS_StrictSubsetOrderingWellFounded, WFMin
<1>3. PICK i \in S : seg = 1..i
  OBVIOUS
<1>4. ASSUME NEW j \in S, j < i
      PROVE  FALSE
  <2>1. i \in Nat /\ j \in Nat /\ 1..j \in Segments
    OBVIOUS
  <2>2. 1..j \subseteq 1..i /\ i \in 1..i /\ i \notin 1..j
    BY <1>4, <2>1
  <2>3. 1..j \in SUBSET Nat /\ 1..i \in SUBSET Nat
    OBVIOUS
  <2> QED
    BY <1>2, <1>3, <2>1, <2>2, <2>3 DEF StrictSubsetOrdering
<1> QED
  BY <1>4

\* The fields are the records the configuration promises.
LEMMA FieldsType ==
  /\ DOMAIN Fields = 1..Len(Fields) /\ Len(Fields) \in Nat \ {0}
  /\ \A i \in DOMAIN Fields : Fields[i] \in Field
<1>1. Fields \in Seq(Field) /\ Len(Fields) > 0
  BY StatsAssumption
<1>2. Len(Fields) \in Nat /\ DOMAIN Fields = 1..Len(Fields)
  BY <1>1, LenProperties, Zenon
<1>3. \A i \in 1..Len(Fields) : Fields[i] \in Field
  BY <1>1, ElementOfSeq, Zenon
<1> QED
  BY <1>1, <1>2, <1>3

\* The first field that contains a point exists whenever one contains it.
LEMMA SubjectAtType ==
  ASSUME NEW a
  PROVE  SubjectAt(a) \in Subjects \cup {Neutral}
<1>1. CASE FieldsAt(a) = {}
  BY <1>1 DEF SubjectAt
<1>2. CASE FieldsAt(a) # {}
  <2>1. FieldsAt(a) \subseteq Nat
    BY FieldsType DEF FieldsAt
  <2>2. \E i \in FieldsAt(a) : \A j \in FieldsAt(a) : i <= j
    BY <1>2, <2>1, LeastNatural
  <2>3. PICK i \in FieldsAt(a) : SubjectAt(a) = Fields[i].subject
    BY <1>2, <2>2 DEF SubjectAt
  <2>4. i \in DOMAIN Fields
    BY DEF FieldsAt
  <2> QED
    BY <2>3, <2>4, FieldsType DEF Field
<1> QED
  BY <1>1, <1>2

\* A place on the roster exists for every player, so a spawn row is a number.
LEMMA SpawnType ==
  ASSUME NEW p \in Players
  PROVE  Spawn(p) \in Pose
<1>1. /\ Roster \in Seq(Players) /\ DOMAIN Roster = 1..Len(Roster)
      /\ Len(Roster) \in Nat
  BY PlayersAssumption, LenProperties, Zenon
<1> DEFINE Places == {i \in DOMAIN Roster : Roster[i] = p}
<1>2. Places \subseteq Nat /\ Places # {}
  BY <1>1, PlayersAssumption
<1>3. PICK i \in Places : \A j \in Places : i <= j
  <2> HIDE DEF Places
  <2> QED
    BY <1>2, LeastNatural
<1>4. \A j \in 1..(i - 1) : Roster[j] # p
  BY <1>1, <1>3
<1>5. FirstSlot(p) \in 1..Len(Roster)
  BY <1>1, <1>3, <1>4 DEF FirstSlot
<1>6. TeamRow(p) \in Nat
  <2>1. IsFiniteSet(1..(FirstSlot(p) - 1))
    BY <1>1, <1>5, FS_Interval
  <2>2. IsFiniteSet({j \in 1..(FirstSlot(p) - 1) : TeamKey(Roster[j]) = TeamKey(p)})
    BY <2>1, FS_Subset
  <2> QED
    BY <2>2, FS_CardinalityType DEF TeamRow
<1>7. Fields[1].x \in Int /\ Fields[1].z \in Int
  BY FieldsType DEF Field
<1>8. TeamRow(p) * SpawnRowGap \in Nat /\ SpawnOffset \in Nat
  BY <1>6, ConfigAssumption
<1> QED
  BY <1>7, <1>8 DEF Spawn, Pose

\* Walking keeps a pose on the lattice.
LEMMA MovedType ==
  ASSUME TypeOK, NEW p \in Players, NEW in \in Input
  PROVE  Moved(p, in) \in Pose
<1> DEFINE turned == (pose[p].angle + (IF in.left THEN 3 ELSE 0) + (IF in.right THEN 1 ELSE 0)) % 4
           speed == MoveBase + (IF InField(p) THEN ActiveStat(p).speed * MovePerSpeed ELSE 0)
           dir == IF in.forward THEN 1 ELSE IF in.back THEN -1 ELSE 0
<1>1. pose[p] \in Pose
  BY DEF TypeOK
<1>2. turned \in 0..3
  BY <1>1 DEF Pose
<1>3. speed \in Nat
  <2>1. InField(p) => ActiveStat(p).speed \in Nat
    BY SubjectAtType, StatsAssumption DEF InField, CurrentSubject, ActiveStat, Stat
  <2>2. InField(p) => ActiveStat(p).speed * MovePerSpeed \in Nat
    BY <2>1, ConfigAssumption
  <2> QED
    BY <2>2, ConfigAssumption
<1>4. Cos[turned] \in {-1, 0, 1} /\ Sin[turned] \in {-1, 0, 1} /\ dir \in {-1, 0, 1}
  BY <1>2 DEF Cos, Sin
<1>5. Cos[turned] * speed * dir \in Int /\ Sin[turned] * speed * dir \in Int
  <2> HIDE DEF turned, speed, dir
  <2> QED
    BY <1>3, <1>4
<1>6. Moved(p, in) = [x |-> pose[p].x + Cos[turned] * speed * dir,
                      z |-> pose[p].z + Sin[turned] * speed * dir,
                      angle |-> turned]
  BY DEF Moved
<1> QED
  <2> HIDE DEF turned, speed, dir
  <2> QED
    BY <1>1, <1>2, <1>5, <1>6 DEF Pose

LEMMA CooldownType ==
  ASSUME NEW s \in Stat
  PROVE  CooldownOf(s) \in Nat /\ CooldownOf(s) >= CooldownMin
BY ConfigAssumption DEF CooldownOf, Stat

LEMMA ActiveStatType ==
  ASSUME NEW p \in Players, InField(p)
  PROVE  CurrentSubject(p) \in Subjects /\ ActiveStat(p) \in Stat
BY SubjectAtType, StatsAssumption DEF InField, CurrentSubject, ActiveStat

\* The hit points a blow leaves.
Wounded(q, dmg) ==
  [hp EXCEPT ![q][CurrentSubject(q)] = IF @ - dmg < 0 THEN 0 ELSE @ - dmg]

LEMMA HitStep ==
  ASSUME TypeOK, NEW p \in Players, NEW q \in Players, Hit(p, q)
  PROVE  /\ q # p /\ ~Defeated(p) /\ ~Defeated(q) /\ InField(p) /\ InField(q)
         /\ \E dmg \in Nat \ {0} :
              /\ hp' = Wounded(q, dmg)
              /\ log' = Append(log, [turn |-> tick, actor |-> p, target |-> q, damage |-> dmg])
<1>1. q # p /\ ~Defeated(p) /\ ~Defeated(q) /\ InField(p) /\ InField(q)
  BY DEF Hit, Swing, CanAttack, NearestTargets, Targets
<1>2. ActiveStat(p) \in Stat /\ ActiveStat(q) \in Stat
  BY <1>1, ActiveStatType
<1>3. Damage(ActiveStat(p).attack, ActiveStat(q).defense) \in Nat \ {0}
  BY <1>2 DEF Damage, Stat
<1> QED
  BY <1>1, <1>3 DEF Hit, Wounded

LEMMA WoundedType ==
  ASSUME TypeOK, NEW q \in Players, NEW dmg \in Nat \ {0}
  PROVE  /\ Wounded(q, dmg) \in [Players -> [Subjects -> Nat]]
         /\ \A p \in Players \ {q} : Wounded(q, dmg)[p] = hp[p]
         /\ \A s \in Subjects : Wounded(q, dmg)[q][s] <= hp[q][s]
<1> DEFINE c == CurrentSubject(q)
           left == IF hp[q][c] - dmg < 0 THEN 0 ELSE hp[q][c] - dmg
<1>1. hp \in [Players -> [Subjects -> Nat]]
  BY DEF TypeOK
<1>2. Wounded(q, dmg) = [hp EXCEPT ![q] = [hp[q] EXCEPT ![c] = left]]
  BY <1>1 DEF Wounded
<1>3. c \in Subjects => left \in Nat /\ left <= hp[q][c]
  BY <1>1
<1>4. /\ [hp[q] EXCEPT ![c] = left] \in [Subjects -> Nat]
      /\ \A s \in Subjects : [hp[q] EXCEPT ![c] = left][s] <= hp[q][s]
  <2>1. hp[q] \in [Subjects -> Nat]
    BY <1>1
  <2> HIDE DEF c, left
  <2>2. \A s \in Subjects : [hp[q] EXCEPT ![c] = left][s] = IF s = c THEN left ELSE hp[q][s]
    BY <2>1
  <2>3. \A s \in Subjects : hp[q][s] \in Nat /\ hp[q][s] <= hp[q][s]
    BY <2>1
  <2>4. \A s \in Subjects : [hp[q] EXCEPT ![c] = left][s] \in Nat
                          /\ [hp[q] EXCEPT ![c] = left][s] <= hp[q][s]
    BY <2>2, <2>3, <1>3
  <2> QED
    BY <2>1, <2>4
<1> QED
  <2> HIDE DEF c, left
  <2> QED
    BY <1>1, <1>2, <1>4

LEMMA TypeInit == Init => TypeOK
<1> SUFFICES ASSUME Init PROVE TypeOK
  OBVIOUS
<1>1. inputs \in [Players -> Input]
  BY DEF Init, NoInput, Input
<1>2. pose \in [Players -> Pose]
  BY SpawnType DEF Init
<1>3. hp \in [Players -> [Subjects -> Nat]]
  BY StatsAssumption DEF Init, Stat
<1>4. verdict \in Verdict
  BY DEF Init, NoVerdict, Verdict
<1>5. log \in Seq(Event)
  BY DEF Init
<1> QED
  BY <1>1, <1>2, <1>3, <1>4, <1>5, ConfigAssumption DEF Init, TypeOK

\* What every visit of the attack loop leaves well typed.
LEMMA TypeSwing ==
  ASSUME TypeOK, NEW p \in Players, Swing(p)
  PROVE  /\ pending' \subseteq Players /\ attacking' \in [Players -> BOOLEAN]
         /\ cooldown' \in [Players -> Nat]
<1>1. ActiveStat(p) \in Stat
  BY ActiveStatType DEF Swing, CanAttack
<1>2. CooldownOf(ActiveStat(p)) \in Nat
  BY <1>1, CooldownType
<1> QED
  BY <1>2 DEF Swing, TypeOK

LEMMA TypeStep == TypeOK /\ [Next]_vars => TypeOK'
<1> SUFFICES ASSUME TypeOK, [Next]_vars PROVE TypeOK'
  OBVIOUS
<1>1. ASSUME NEW in \in [Players -> Inputs], StartTick(in) PROVE TypeOK'
  <2>1. in \in [Players -> Input]
    BY ConfigAssumption
  <2>2. pose' \in [Players -> Pose]
    <3>1. \A p \in Players : Moved(p, in[p]) \in Pose /\ pose[p] \in Pose
      BY <2>1, MovedType DEF TypeOK
    <3> QED
      BY <1>1, <3>1 DEF StartTick
  <2>3. cooldown' \in [Players -> Nat] /\ tick' \in Nat
    BY <1>1 DEF StartTick, TypeOK
  <2>4. summoned' \in [Players -> BOOLEAN]
    BY <1>1 DEF StartTick
  <2> QED
    BY <1>1, <2>1, <2>2, <2>3, <2>4 DEF StartTick, TypeOK
<1>2. ASSUME NEW p \in Players, Pass(p) PROVE TypeOK'
  BY <1>2 DEF Pass, TypeOK
<1>3. ASSUME NEW p \in Players, Whiff(p) PROVE TypeOK'
  BY <1>3, TypeSwing DEF Whiff, Swing, TypeOK
<1>4. ASSUME NEW p \in Players, NEW q \in Players, Hit(p, q) PROVE TypeOK'
  <2>1. PICK dmg \in Nat \ {0} :
          /\ hp' = Wounded(q, dmg)
          /\ log' = Append(log, [turn |-> tick, actor |-> p, target |-> q, damage |-> dmg])
    BY <1>4, HitStep
  <2>2. hp' \in [Players -> [Subjects -> Nat]]
    BY <2>1, WoundedType
  <2>3. log' \in Seq(Event)
    BY <2>1 DEF TypeOK, Event
  <2>4. Swing(p)
    BY <1>4 DEF Hit
  <2> QED
    BY <2>2, <2>3, <2>4, TypeSwing DEF Swing, TypeOK
<1>5. CASE CheckVictory
  <2>1. verdict' \in Verdict
    BY <1>5 DEF CheckVictory, Verdicts, Verdict, TypeOK
  <2>2. inputs' \in [Players -> Input]
    BY <1>5 DEF CheckVictory, NoInput, Input
  <2> QED
    BY <1>5, <2>1, <2>2 DEF CheckVictory, TypeOK
<1>6. CASE UNCHANGED vars
  BY <1>6 DEF vars, TypeOK
<1> QED
  BY <1>1, <1>2, <1>3, <1>4, <1>5, <1>6 DEF Next

\* The room's state keeps its types, whatever the players press and in
\* whatever order the attack loop visits them.
THEOREM TypeCorrect == Spec => []TypeOK
<1> QED
  BY TypeInit, TypeStep, PTL DEF Spec

-----------------------------------------------------------------------------
(* Who is left, and what the verdict says about it *)

\* A finished room is between Steps.
FinishedIdle == finished => phase = "idle"

\* The strengthening that makes the verdict's soundness inductive.
VerdictInv == TypeOK /\ SomeoneStands /\ FinishedIdle /\ VerdictSound

\* A blow fells at most its target, never the one who strikes.
LEMMA HitStanding ==
  ASSUME TypeOK, NEW p \in Players, NEW q \in Players, Hit(p, q)
  PROVE  p \in Standing' /\ Standing' \in {Standing, Standing \ {q}}
<1>1. PICK dmg \in Nat \ {0} : hp' = Wounded(q, dmg)
  BY HitStep
<1>2. \A r \in Players \ {q} : hp'[r] = hp[r]
  BY <1>1, WoundedType
<1>3. \A r \in Players \ {q} : Defeated(r)' <=> Defeated(r)
  BY <1>2 DEF Defeated
<1>4. p # q /\ ~Defeated(p) /\ ~Defeated(q)
  BY HitStep
<1> QED
  BY <1>3, <1>4 DEF Standing

LEMMA NoTeamIsNoTeam == NoTeam \notin AllTeams
BY PlayersAssumption DEF AllTeams, TeamKey

LEMMA SurvivorsAreTeams ==
  /\ SurvivingTeams \subseteq AllTeams
  /\ ~leaderRule /\ SomeoneStands => SurvivingTeams # {}
BY DEF SurvivingTeams, AllTeams, Standing, SomeoneStands

LEMMA AllStandAtFirst == Init => Standing = Players
<1> SUFFICES ASSUME Init PROVE Standing = Players
  OBVIOUS
<1>1. \A p \in Players, s \in Subjects : Stats[p][s] \in Stat
  BY StatsAssumption
<1>2. \A p \in Players, s \in Subjects : hp[p][s] \in Nat \ {0}
  BY <1>1 DEF Init, Stat
<1> QED
  BY <1>2 DEF Standing, Defeated

LEMMA VerdictInit == Init => VerdictInv
<1> SUFFICES ASSUME Init PROVE VerdictInv
  OBVIOUS
<1>1. Standing = Players
  BY AllStandAtFirst
<1>2. SurvivingTeams = AllTeams
  BY <1>1, PlayersAssumption DEF SurvivingTeams, AllTeams
<1>3. Undecided
  BY <1>2, PlayersAssumption DEF Undecided, AllTeams
<1> QED
  BY <1>1, <1>3, PlayersAssumption, TypeInit
  DEF Init, VerdictInv, SomeoneStands, FinishedIdle, VerdictSound

\* Deciding picks the only team left, or nobody when leaders took their teams
\* down with them.
LEMMA VerdictChosen ==
  ASSUME SomeoneStands, ~Undecided, NEW v \in Verdicts
  PROVE  /\ SurvivingTeams = {v.winnerTeam} \ {NoTeam}
         /\ v.loserTeam \in AllTeams \ SurvivingTeams
         /\ v.loserID \in Players /\ TeamKey(v.loserID) = v.loserTeam
         /\ v.winnerTeam # NoTeam => /\ v.winnerID \in Players
                                     /\ TeamKey(v.winnerID) = v.winnerTeam
         /\ ~leaderRule => v.winnerTeam # NoTeam
<1>1. /\ v.loserTeam \in AllTeams \ SurvivingTeams
      /\ v.loserID \in Players /\ TeamKey(v.loserID) = v.loserTeam
  BY DEF Verdicts
<1>2. CASE SurvivingTeams = {}
  BY <1>1, <1>2, SurvivorsAreTeams DEF Verdicts
<1>3. CASE SurvivingTeams # {}
  <2>1. v.winnerTeam \in SurvivingTeams /\ v.winnerID \in Players
        /\ TeamKey(v.winnerID) = v.winnerTeam
    BY <1>3 DEF Verdicts
  <2>2. SurvivingTeams = {v.winnerTeam}
    BY <2>1 DEF Undecided
  <2>3. v.winnerTeam # NoTeam
    BY <2>1, SurvivorsAreTeams, NoTeamIsNoTeam
  <2> QED
    BY <1>1, <2>1, <2>2, <2>3
<1> QED
  BY <1>2, <1>3

LEMMA VerdictStep == VerdictInv /\ [Next]_vars => VerdictInv'
<1> SUFFICES ASSUME VerdictInv, [Next]_vars PROVE VerdictInv'
  OBVIOUS
<1>0. TypeOK'
  BY TypeStep DEF VerdictInv
<1> USE <1>0
\* Steps inside a tick: the verdict is not looked at, and someone stands.
<1>1. ASSUME NEW in \in [Players -> Inputs], StartTick(in) PROVE VerdictInv'
  BY <1>1 DEF StartTick, VerdictInv, SomeoneStands, Standing, Defeated, FinishedIdle, VerdictSound
<1>2. ASSUME NEW p \in Players, Pass(p) \/ Whiff(p) PROVE VerdictInv'
  BY <1>2 DEF Pass, Whiff, Swing, VerdictInv, SomeoneStands, Standing, Defeated,
              FinishedIdle, VerdictSound
<1>3. ASSUME NEW p \in Players, NEW q \in Players, Hit(p, q) PROVE VerdictInv'
  <2>1. SomeoneStands'
    BY <1>3, HitStanding DEF VerdictInv, SomeoneStands
  <2> QED
    BY <1>3, <2>1 DEF Hit, Swing, VerdictInv, FinishedIdle, VerdictSound
<1>4. CASE CheckVictory
  <2>1. /\ Standing' = Standing /\ SurvivingTeams' = SurvivingTeams
        /\ Undecided' = Undecided
    BY <1>4 DEF CheckVictory, Standing, Defeated, SurvivingTeams, Undecided
  <2>2. SomeoneStands' /\ FinishedIdle'
    BY <1>4, <2>1 DEF CheckVictory, VerdictInv, SomeoneStands, FinishedIdle
  <2>3. ~finished /\ phase' = "idle" /\ leaderRule' = leaderRule
    BY <1>4 DEF CheckVictory, VerdictInv, FinishedIdle
  <2>4. CASE Undecided /\ UNCHANGED <<finished, verdict>>
    BY <2>1, <2>2, <2>3, <2>4 DEF VerdictInv, VerdictSound
  <2>5. CASE ~Undecided /\ finished' = TRUE /\ verdict' \in Verdicts
    BY <2>1, <2>2, <2>3, <2>5, VerdictChosen DEF VerdictInv, VerdictSound
  <2> QED
    BY <1>4, <2>4, <2>5 DEF CheckVictory
<1>5. CASE UNCHANGED vars
  BY <1>5 DEF vars, VerdictInv, SomeoneStands, FinishedIdle, VerdictSound, Standing,
              Defeated, SurvivingTeams, Undecided
<1> QED
  BY <1>1, <1>2, <1>3, <1>4, <1>5 DEF Next

LEMMA VerdictInvariant == Spec => []VerdictInv
<1> QED
  BY VerdictInit, VerdictStep, PTL DEF Spec

\* In no room, with no attack order, do all players fall.
THEOREM SomeoneAlwaysStands == Spec => []SomeoneStands
<1>1. VerdictInv => SomeoneStands
  BY DEF VerdictInv
<1> QED
  BY <1>1, VerdictInvariant, PTL

\* What the finished message and Rails are told agrees with who is standing.
THEOREM VerdictAlwaysSound == Spec => []VerdictSound
<1>1. VerdictInv => VerdictSound
  BY DEF VerdictInv
<1> QED
  BY <1>1, VerdictInvariant, PTL

\* A battle of one team is never decided, so its room runs for ever.
THEOREM LoneTeamNeverDecided == Spec => []LoneTeamNeverEnds
<1>1. VerdictInv => LoneTeamNeverEnds
  BY SurvivorsAreTeams
  DEF VerdictInv, LoneTeamNeverEnds, VerdictSound, FinishedIdle
<1> QED
  BY <1>1, VerdictInvariant, PTL

-----------------------------------------------------------------------------
(* The abstract battle *)

LEMMA SameTeams ==
  /\ E!Teams = AllTeams
  /\ E!TeamsLeft = SurvivingTeams
<1>1. \A p \in Players : [r \in Players |-> TeamKey(r)][p] = TeamKey(p)
  OBVIOUS
<1>2. Standing \subseteq Players /\ Leaders \subseteq Players
  BY PlayersAssumption DEF Standing
<1> QED
  BY <1>1, <1>2 DEF E!Teams, E!TeamsLeft, E!Led, AllTeams, SurvivingTeams

LEMMA EliminationInit == Init => E!Init
<1> SUFFICES ASSUME Init PROVE E!Init
  OBVIOUS
<1>1. Standing = Players
  BY AllStandAtFirst
<1> QED
  BY <1>1, ConfigAssumption DEF Init, NoVerdict, E!Init

LEMMA EliminationStep == VerdictInv /\ [Next]_vars => [E!Next]_(E!vars)
<1> SUFFICES ASSUME VerdictInv, [Next]_vars PROVE [E!Next]_(E!vars)
  OBVIOUS
<1>1. ASSUME UNCHANGED <<leaderRule, hp, finished, verdict>> PROVE UNCHANGED E!vars
  BY <1>1 DEF E!vars, Standing, Defeated
<1>2. ASSUME NEW in \in [Players -> Inputs], StartTick(in) PROVE UNCHANGED E!vars
  BY <1>1, <1>2 DEF StartTick
<1>3. ASSUME NEW p \in Players, Pass(p) \/ Whiff(p) PROVE UNCHANGED E!vars
  BY <1>1, <1>3 DEF Pass, Whiff, Swing
<1>4. ASSUME NEW p \in Players, NEW q \in Players, Hit(p, q) PROVE [E!Next]_(E!vars)
  <2>1. UNCHANGED <<leaderRule, finished, verdict>> /\ ~finished
    BY <1>4 DEF Hit, Swing, VerdictInv, FinishedIdle
  <2>2. p # q /\ {p, q} \subseteq Standing
    BY <1>4, HitStep DEF VerdictInv, Standing
  <2>3. CASE Standing' = Standing
    BY <2>1, <2>3 DEF E!vars
  <2>4. CASE Standing' = Standing \ {q}
    BY <2>1, <2>2, <2>4 DEF E!Next, E!Fall
  <2> QED
    BY <1>4, <2>3, <2>4, HitStanding DEF VerdictInv
<1>5. CASE CheckVictory
  <2>1. CASE Undecided /\ UNCHANGED <<finished, verdict>>
    BY <1>1, <1>5, <2>1 DEF CheckVictory
  <2>2. CASE ~Undecided /\ finished' = TRUE /\ verdict' \in Verdicts
    <3>1. UNCHANGED <<leaderRule, Standing>> /\ ~finished
      BY <1>5 DEF CheckVictory, VerdictInv, FinishedIdle, Standing, Defeated
    <3>2. SurvivingTeams = {verdict'.winnerTeam} \ {NoTeam}
          /\ (~leaderRule => verdict'.winnerTeam # NoTeam)
      BY <2>2, VerdictChosen DEF VerdictInv
    <3>3. leaderRule \in BOOLEAN
      BY DEF VerdictInv, TypeOK
    <3>4. CASE SurvivingTeams = {}
      <4>1. verdict'.winnerTeam = NoTeam /\ leaderRule
        BY <3>2, <3>4
      <4> QED
        BY <2>2, <3>1, <3>4, <4>1, SameTeams DEF E!Next, E!Decide
    <3>5. CASE SurvivingTeams # {}
      <4>1. SurvivingTeams = {verdict'.winnerTeam}
        BY <3>2, <3>5
      <4>2. verdict'.winnerTeam \in AllTeams /\ AllTeams # {verdict'.winnerTeam}
        BY <2>2, <4>1, SurvivorsAreTeams DEF Undecided
      <4> QED
        BY <2>2, <3>1, <4>1, <4>2, SameTeams DEF E!Next, E!Decide
    <3> QED
      BY <3>4, <3>5
  <2> QED
    BY <1>5, <2>1, <2>2 DEF CheckVictory
<1>6. CASE UNCHANGED vars
  BY <1>1, <1>6 DEF vars
<1> QED
  BY <1>2, <1>3, <1>4, <1>5, <1>6 DEF Next

\* Every Step of the room is a few falls and at most one decision of the
\* abstract battle, or nothing.
THEOREM ImplementsElimination == Spec => Elimination
<1> QED
  BY EliminationInit, EliminationStep, VerdictInvariant, PTL DEF Spec, Elimination, E!Spec

-----------------------------------------------------------------------------
(* The beasts and the blows *)

LEMMA SummonedStep == TypeOK /\ SummonedOnlyInField /\ [Next]_vars => SummonedOnlyInField'
<1> SUFFICES ASSUME TypeOK, SummonedOnlyInField, [Next]_vars PROVE SummonedOnlyInField'
  OBVIOUS
<1>1. ASSUME NEW in \in [Players -> Inputs], StartTick(in) PROVE SummonedOnlyInField'
  BY <1>1 DEF StartTick, SummonedOnlyInField, InField, CurrentSubject, SubjectAt, FieldsAt,
              FieldContains
<1>2. ASSUME UNCHANGED <<summoned, pose>> PROVE SummonedOnlyInField'
  BY <1>2 DEF SummonedOnlyInField, InField, CurrentSubject, SubjectAt, FieldsAt, FieldContains
<1> QED
  BY <1>1, <1>2 DEF Next, Pass, Whiff, Hit, Swing, CheckVictory, vars

\* Moving out of every field puts the beast away before anyone can see it
\* outside or hit it there.
THEOREM SummonedStaysInField == Spec => []SummonedOnlyInField
<1>1. Init => SummonedOnlyInField
  BY DEF Init, SummonedOnlyInField
<1> QED
  BY <1>1, SummonedStep, TypeCorrect, PTL DEF Spec

\* The defeated are out: by each action, the hit points, the place and the
\* record of a defeated player stay as they are.
LEMMA DefeatedStep ==
  ASSUME TypeOK, [Next]_vars, NEW p \in Players, Defeated(p)
  PROVE  /\ Defeated(p)' /\ hp'[p] = hp[p] /\ pose'[p] = pose[p]
         /\ ~(attacking'[p] /\ ~attacking[p])
         /\ log' # log => log'[Len(log')].actor # p
<1>1. ASSUME NEW in \in [Players -> Inputs], StartTick(in)
      PROVE  pose'[p] = pose[p] /\ ~attacking'[p] /\ hp' = hp /\ log' = log
  BY <1>1 DEF StartTick
<1>2. ASSUME NEW r \in Players, Pass(r) \/ Whiff(r)
      PROVE  /\ pose' = pose /\ hp' = hp /\ log' = log
             /\ attacking'[p] = attacking[p]
  <2>1. Whiff(r) => r # p
    BY DEF Whiff, Swing, CanAttack
  <2> QED
    BY <1>2, <2>1 DEF Pass, Whiff, Swing, TypeOK
<1>3. ASSUME NEW r \in Players, NEW q \in Players, Hit(r, q)
      PROVE  /\ pose' = pose /\ hp'[p] = hp[p] /\ attacking'[p] = attacking[p]
             /\ log'[Len(log')].actor # p
  <2>1. r # p /\ q # p
    BY <1>3, HitStep
  <2>2. PICK dmg \in Nat \ {0} :
          /\ hp' = Wounded(q, dmg)
          /\ log' = Append(log, [turn |-> tick, actor |-> r, target |-> q, damage |-> dmg])
    BY <1>3, HitStep
  <2>3. hp'[p] = hp[p]
    BY <2>1, <2>2, WoundedType
  <2>4. log'[Len(log')].actor = r
    BY <2>2, AppendProperties DEF TypeOK
  <2> QED
    BY <1>3, <2>1, <2>3, <2>4 DEF Hit, Swing, TypeOK
<1>4. CASE CheckVictory \/ UNCHANGED vars
  BY <1>4 DEF CheckVictory, vars, Defeated
<1>5. hp'[p] = hp[p] => Defeated(p)'
  BY DEF Defeated
<1> QED
  BY <1>1, <1>2, <1>3, <1>4, <1>5 DEF Next

\* Defeat is for good, and a defeated player takes no more part.
THEOREM DefeatedStayOut == Spec => DefeatedAreOut
<1>1. TypeOK /\ [Next]_vars =>
        [\A p \in Players : Defeated(p) =>
           /\ Defeated(p)' /\ hp'[p] = hp[p] /\ pose'[p] = pose[p]
           /\ ~(attacking'[p] /\ ~attacking[p])
           /\ log' # log => log'[Len(log')].actor # p]_vars
  BY DefeatedStep
<1> QED
  BY <1>1, TypeCorrect, PTL DEF Spec, DefeatedAreOut

\* The cooldowns remember every logged blow: its turn is past, the cooldown
\* left covers what is missing of the minimum, and within a tick a player the
\* loop has still to visit has not struck yet.
CooldownCoversLog ==
  \A i \in DOMAIN log :
    /\ log[i].turn <= tick
    /\ log[i].turn + CooldownMin <= tick + cooldown[log[i].actor]
    /\ phase = "attacks" /\ log[i].actor \in pending => log[i].turn < tick

SpacingInv == HitsAreSpaced /\ CooldownCoversLog

LEMMA LogType ==
  ASSUME TypeOK
  PROVE  /\ DOMAIN log = 1..Len(log) /\ Len(log) \in Nat
         /\ \A i \in DOMAIN log : log[i] \in Event
<1>1. log \in Seq(Event)
  BY DEF TypeOK
<1>2. DOMAIN log = 1..Len(log) /\ Len(log) \in Nat
  BY <1>1, LenProperties, Zenon
<1>3. \A i \in 1..Len(log) : log[i] \in Event
  BY <1>1, ElementOfSeq, Zenon
<1> QED
  BY <1>2, <1>3

LEMMA SpacingStep == TypeOK /\ SpacingInv /\ [Next]_vars => SpacingInv'
<1> SUFFICES ASSUME TypeOK, SpacingInv, [Next]_vars PROVE SpacingInv'
  OBVIOUS
<1>0. \A i \in DOMAIN log : log[i].turn \in Nat /\ log[i].actor \in Players
  BY LogType DEF Event
<1>m. CooldownMin \in Nat
  BY ConfigAssumption
<1>1. ASSUME NEW in \in [Players -> Inputs], StartTick(in) PROVE SpacingInv'
  <2>1. log' = log /\ tick' = tick + 1 /\ tick \in Nat
    BY <1>1 DEF StartTick, TypeOK
  <2>2. \A p \in Players : cooldown[p] \in Nat /\ cooldown'[p] \in Nat
                          /\ cooldown'[p] + 1 >= cooldown[p]
    BY <1>1 DEF StartTick, TypeOK
  <2> QED
    BY <1>0, <1>m, <2>1, <2>2 DEF SpacingInv, HitsAreSpaced, CooldownCoversLog
<1>2. ASSUME NEW p \in Players, Pass(p) PROVE SpacingInv'
  BY <1>2 DEF Pass, SpacingInv, HitsAreSpaced, CooldownCoversLog
\* A swing, hit or not, renews the cooldown, which covers every past blow.
<1>3. ASSUME NEW p \in Players, Swing(p)
      PROVE  \A i \in DOMAIN log :
               /\ log[i].turn <= tick'
               /\ log[i].turn + CooldownMin <= tick' + cooldown'[log[i].actor]
               /\ phase' = "attacks" /\ log[i].actor \in pending' => log[i].turn < tick'
  <2>1. tick' = tick /\ tick \in Nat /\ phase' = phase /\ pending' = pending \ {p}
    BY <1>3 DEF Swing, TypeOK
  <2>2. ActiveStat(p) \in Stat
    BY <1>3, ActiveStatType DEF Swing, CanAttack
  <2>3. cooldown'[p] \in Nat /\ cooldown'[p] >= CooldownMin
    BY <1>3, <2>2, CooldownType DEF Swing, TypeOK
  <2>4. \A r \in Players \ {p} : cooldown'[r] = cooldown[r]
    BY <1>3 DEF Swing, TypeOK
  <2> QED
    BY <1>0, <1>m, <2>1, <2>3, <2>4 DEF SpacingInv, CooldownCoversLog
<1>4. ASSUME NEW p \in Players, Whiff(p) PROVE SpacingInv'
  <2>1. Swing(p) /\ log' = log
    BY <1>4 DEF Whiff
  <2> QED
    BY <1>3, <2>1 DEF SpacingInv, HitsAreSpaced, CooldownCoversLog
<1>5. ASSUME NEW p \in Players, NEW q \in Players, Hit(p, q) PROVE SpacingInv'
  <2>1. Swing(p)
    BY <1>5 DEF Hit
  <2>2. PICK dmg \in Nat \ {0} :
          log' = Append(log, [turn |-> tick, actor |-> p, target |-> q, damage |-> dmg])
    BY <1>5, HitStep
  <2> DEFINE blow == [turn |-> tick, actor |-> p, target |-> q, damage |-> dmg]
  <2>3. /\ DOMAIN log' = 1..(Len(log) + 1) /\ DOMAIN log = 1..Len(log) /\ Len(log) \in Nat
        /\ \A i \in 1..Len(log) : log'[i] = log[i]
        /\ log'[Len(log) + 1] = blow
    <3>1. blow \in Event /\ log \in Seq(Event)
      BY DEF TypeOK, Event
    <3>2. log' = Append(log, blow)
      BY <2>2
    <3> HIDE DEF blow
    <3> QED
      BY <3>1, <3>2, AppendProperties, LogType
  <2>4. /\ tick' = tick /\ tick \in Nat /\ pending' = pending \ {p}
        /\ phase = "attacks" /\ p \in pending /\ cooldown[p] = 0
    BY <2>1 DEF Swing, CanAttack, TypeOK
  <2>5. cooldown'[p] \in Nat /\ cooldown'[p] >= CooldownMin
    BY <2>1, ActiveStatType, CooldownType DEF Swing, CanAttack, TypeOK
  <2>6. blow.turn = tick /\ blow.actor = p
    OBVIOUS
  <2> HIDE DEF blow
  <2>7. CooldownCoversLog'
    BY <1>3, <1>m, <2>1, <2>3, <2>4, <2>5, <2>6 DEF CooldownCoversLog
  \* p's earlier blows are CooldownMin back, for its cooldown is over.
  <2>8. \A i \in DOMAIN log : log[i].actor = p =>
          tick >= log[i].turn + CooldownMin /\ tick > log[i].turn
    BY <1>0, <1>m, <2>4 DEF SpacingInv, CooldownCoversLog
  <2>9. HitsAreSpaced'
    <3> SUFFICES ASSUME NEW i \in DOMAIN log', NEW j \in DOMAIN log', i < j,
                        log'[i].actor = log'[j].actor
                 PROVE  /\ log'[j].turn >= log'[i].turn + CooldownMin
                        /\ log'[j].turn > log'[i].turn
      BY DEF HitsAreSpaced
    <3>1. i \in DOMAIN log /\ log'[i] = log[i]
      BY <2>3
    <3>2. CASE j \in DOMAIN log
      BY <2>3, <3>1, <3>2 DEF SpacingInv, HitsAreSpaced
    <3>3. CASE j = Len(log) + 1
      BY <2>3, <2>6, <2>8, <3>1, <3>3
    <3> QED
      BY <2>3, <3>2, <3>3
  <2> QED
    BY <2>7, <2>9 DEF SpacingInv
<1>6. CASE CheckVictory
  BY <1>6 DEF CheckVictory, SpacingInv, HitsAreSpaced, CooldownCoversLog
<1>7. CASE UNCHANGED vars
  BY <1>7 DEF vars, SpacingInv, HitsAreSpaced, CooldownCoversLog
<1> QED
  BY <1>1, <1>2, <1>4, <1>5, <1>6, <1>7 DEF Next

\* No player ever strikes twice within the minimum cooldown, whatever fields
\* and beasts it strikes from.
THEOREM HitsAlwaysSpaced == Spec => []HitsAreSpaced
<1>1. Init => SpacingInv
  BY DEF Init, SpacingInv, HitsAreSpaced, CooldownCoversLog
<1>2. SpacingInv => HitsAreSpaced
  BY DEF SpacingInv
<1> QED
  BY <1>1, <1>2, SpacingStep, TypeCorrect, PTL DEF Spec

-----------------------------------------------------------------------------
\* The log as a history of the battle: hit points from the first to the last
\* blow, each of which is one standing player's against another and takes
\* from one subject what the two beasts' numbers say.
InitialHP == [p \in Players |-> [s \in Subjects |-> Stats[p][s].hp]]

StandsIn(h, p) == \A s \in Subjects : h[p][s] > 0

Explains(g, e, h) ==
  /\ e.actor # e.target /\ StandsIn(g, e.actor) /\ StandsIn(g, e.target)
  /\ \E u, s \in Subjects :
       /\ e.damage = Damage(Stats[e.actor][u].attack, Stats[e.target][s].defense)
       /\ h = [g EXCEPT ![e.target][s] = IF @ - e.damage < 0 THEN 0 ELSE @ - e.damage]

LogIsHistory ==
  \E h \in [0..Len(log) -> [Players -> [Subjects -> Nat]]] :
    /\ h[0] = InitialHP /\ h[Len(log)] = hp
    /\ \A i \in DOMAIN log : Explains(h[i - 1], log[i], h[i])

LEMMA HistoryInit == Init => LogIsHistory
<1> SUFFICES ASSUME Init PROVE LogIsHistory
  OBVIOUS
<1>1. hp = InitialHP /\ hp \in [Players -> [Subjects -> Nat]]
  BY TypeInit DEF Init, InitialHP, TypeOK
<1>2. log = << >> /\ Len(log) = 0 /\ DOMAIN log = {}
  BY DEF Init
<1> DEFINE h == [i \in 0..0 |-> hp]
<1>3. h \in [0..Len(log) -> [Players -> [Subjects -> Nat]]] /\ h[0] = hp
  BY <1>1, <1>2
<1> QED
  BY <1>1, <1>2, <1>3 DEF LogIsHistory

\* A blow is explained by the numbers of the two beasts.
LEMMA HitExplained ==
  ASSUME TypeOK, NEW p \in Players, NEW q \in Players, Hit(p, q)
  PROVE  \E e \in Event : log' = Append(log, e) /\ Explains(hp, e, hp')
<1> DEFINE u == CurrentSubject(p)
           s == CurrentSubject(q)
           dmg == Damage(ActiveStat(p).attack, ActiveStat(q).defense)
           e == [turn |-> tick, actor |-> p, target |-> q, damage |-> dmg]
<1>1. q # p /\ ~Defeated(p) /\ ~Defeated(q) /\ InField(p) /\ InField(q)
  BY HitStep
<1>2. /\ hp' = [hp EXCEPT ![q][s] = IF @ - dmg < 0 THEN 0 ELSE @ - dmg]
      /\ log' = Append(log, e)
  BY DEF Hit
<1>3. u \in Subjects /\ s \in Subjects
  <2>1. pose[p] \in Pose /\ pose[q] \in Pose BY DEF TypeOK
  <2> QED BY <1>1, <2>1, SubjectAtType DEF InField, CurrentSubject
<1>4. dmg = Damage(Stats[p][u].attack, Stats[q][s].defense)
  BY DEF ActiveStat
<1>5. dmg \in Nat \ {0}
  <2>1. ActiveStat(p) \in Stat /\ ActiveStat(q) \in Stat BY <1>1, ActiveStatType
  <2> HIDE DEF u, s
  <2> QED BY <2>1 DEF Damage, Stat
<1>6. StandsIn(hp, p) /\ StandsIn(hp, q)
  BY <1>1 DEF StandsIn, Defeated, TypeOK
<1> HIDE DEF u, s, dmg
<1>7. e \in Event /\ e.actor = p /\ e.target = q /\ e.damage = dmg
  BY <1>5 DEF TypeOK, Event
<1> HIDE DEF e
<1>8. Explains(hp, e, hp')
  BY <1>1, <1>2, <1>3, <1>4, <1>6, <1>7 DEF Explains
<1> QED
  BY <1>2, <1>7, <1>8

LEMMA HistoryStep == TypeOK /\ LogIsHistory /\ [Next]_vars => LogIsHistory'
<1> SUFFICES ASSUME TypeOK, LogIsHistory, [Next]_vars PROVE LogIsHistory'
  OBVIOUS
<1> DEFINE HP == [Players -> [Subjects -> Nat]]
<1>1. CASE hp' = hp /\ log' = log
  BY <1>1 DEF LogIsHistory
<1>2. ASSUME NEW p \in Players, NEW q \in Players, Hit(p, q) PROVE LogIsHistory'
  <2> DEFINE n == Len(log)
  <2>1. PICK h \in [0..n -> HP] :
          /\ h[0] = InitialHP /\ h[n] = hp
          /\ \A i \in DOMAIN log : Explains(h[i - 1], log[i], h[i])
    BY DEF LogIsHistory
  <2>2. PICK e \in Event : log' = Append(log, e) /\ Explains(hp, e, hp')
    BY <1>2, HitExplained
  <2>3. /\ DOMAIN log = 1..n /\ n \in Nat /\ DOMAIN log' = 1..(n + 1) /\ Len(log') = n + 1
        /\ \A i \in 1..n : log'[i] = log[i]
        /\ log'[n + 1] = e
    <3>1. log \in Seq(Event)
      BY DEF TypeOK
    <3> QED
      BY <2>2, <3>1, AppendProperties, LogType
  <2>4. hp' \in HP
    <3>1. TypeOK'
      BY <1>2, TypeStep DEF Next
    <3> QED
      BY <3>1 DEF TypeOK
  <2> DEFINE g == [i \in 0..(n + 1) |-> IF i = n + 1 THEN hp' ELSE h[i]]
  <2> HIDE DEF n, HP
  <2>5. g \in [0..(n + 1) -> HP] /\ g[0] = InitialHP /\ g[n + 1] = hp' /\ g[n] = hp
        /\ \A i \in 0..n : g[i] = h[i]
    BY <2>1, <2>3, <2>4
  <2> HIDE DEF g
  <2>6. ASSUME NEW i \in 1..(n + 1) PROVE Explains(g[i - 1], log'[i], g[i])
    <3>1. CASE i \in 1..n
      BY <2>1, <2>3, <2>5, <3>1
    <3>2. CASE i = n + 1
      <4>1. i - 1 = n BY <2>3, <3>2
      <4> QED BY <2>2, <2>3, <2>5, <3>2, <4>1
    <3> QED
      BY <2>3, <3>1, <3>2
  <2> QED
    BY <2>3, <2>5, <2>6 DEF LogIsHistory, HP
<1> QED
  BY <1>1, <1>2 DEF Next, StartTick, Pass, Whiff, Swing, CheckVictory, vars

\* The log that Rails stores is a history of the battle: from the first hit
\* points, its blows lead to those there are, and each is one that a standing
\* beast of that strength could deal to another that stood.
THEOREM LogTellsTheBattle == Spec => []LogIsHistory
  BY HistoryInit, HistoryStep, TypeCorrect, PTL DEF Spec
-----------------------------------------------------------------------------
(* The log as an account of the hit points.  Totals are sizes of sets of    *)
(* points: a blow adds a strip of points to what is lost and to what is    *)
(* logged.                                                                 *)

\* The points numbered a to b of x: as many as the interval has numbers.
Strip(x, a, b) == {x} \X (a..b)

LEMMA StripSize ==
  ASSUME NEW x, NEW a \in Int, NEW b \in Int
  PROVE  /\ IsFiniteSet(Strip(x, a, b))
         /\ Cardinality(Strip(x, a, b)) = IF a > b THEN 0 ELSE b - a + 1
<1>1. IsFiniteSet({x}) /\ Cardinality({x}) = 1
  BY FS_Singleton
<1> DEFINE n == IF a > b THEN 0 ELSE b - a + 1
<1>2. IsFiniteSet(a..b) /\ Cardinality(a..b) = n /\ n \in Nat
  BY FS_Interval
<1> HIDE DEF n
<1>3. IsFiniteSet({x} \X (a..b)) /\ Cardinality({x} \X (a..b)) = Cardinality({x}) * Cardinality(a..b)
  BY <1>1, <1>2, FS_Product
<1> QED
  BY <1>1, <1>2, <1>3 DEF n, Strip

\* Disjoint finite sets have the sum of their sizes.
LEMMA DisjointSize ==
  ASSUME NEW S, NEW T, IsFiniteSet(S), IsFiniteSet(T), S \cap T = {}
  PROVE  /\ IsFiniteSet(S \cup T)
         /\ Cardinality(S \cup T) = Cardinality(S) + Cardinality(T)
<1>1. Cardinality(S \cap T) = 0 /\ Cardinality(S) \in Nat /\ Cardinality(T) \in Nat
  BY FS_EmptySet, FS_CardinalityType
<1>2. /\ IsFiniteSet(S \cup T)
      /\ Cardinality(S \cup T) = Cardinality(S) + Cardinality(T) - Cardinality(S \cap T)
  BY FS_Union
<1> QED
  BY <1>1, <1>2

\* No beast has more hit points than it started with.
HPBounded == \A p \in Players, s \in Subjects : hp[p][s] <= Stats[p][s].hp

\* What a blow takes: from one subject, at least a point, at most the logged
\* damage, and all of it if it leaves any.
LEMMA BlowTakes ==
  ASSUME TypeOK, HPBounded, NEW p \in Players, NEW q \in Players, Hit(p, q)
  PROVE  \E c \in Subjects, h \in Nat, dmg \in Nat \ {0} :
           /\ hp' = [hp EXCEPT ![q] = [hp[q] EXCEPT ![c] = h]]
           /\ log' = Append(log, [turn |-> tick, actor |-> p, target |-> q, damage |-> dmg])
           /\ h < hp[q][c] /\ hp[q][c] - h <= dmg
           /\ h > 0 => hp[q][c] - h = dmg
<1> DEFINE c == CurrentSubject(q)
<1>1. PICK dmg \in Nat \ {0} :
        /\ hp' = Wounded(q, dmg)
        /\ log' = Append(log, [turn |-> tick, actor |-> p, target |-> q, damage |-> dmg])
  BY HitStep
<1>2. InField(q) /\ ~Defeated(q)
  BY HitStep
<1>3. c \in Subjects
  BY <1>2, ActiveStatType
<1>4. hp \in [Players -> [Subjects -> Nat]]
  BY DEF TypeOK
<1> DEFINE h == IF hp[q][c] - dmg < 0 THEN 0 ELSE hp[q][c] - dmg
<1>5. hp[q][c] \in Nat /\ hp[q][c] > 0
  <2> HIDE DEF c
  <2> QED BY <1>2, <1>3, <1>4 DEF Defeated
<1>6. hp' = [hp EXCEPT ![q] = [hp[q] EXCEPT ![c] = h]]
  BY <1>1, <1>4 DEF Wounded
<1> HIDE DEF c
<1>7. h \in Nat /\ h < hp[q][c] /\ hp[q][c] - h <= dmg /\ (h > 0 => hp[q][c] - h = dmg)
  BY <1>5
<1> HIDE DEF h
<1> QED
  BY <1>1, <1>3, <1>6, <1>7

\* The points of one player that a smaller number in one subject adds.
LEMMA PointsAdded ==
  ASSUME TypeOK, HPBounded, NEW q \in Players, NEW c \in Subjects, NEW h \in Nat,
         h < hp[q][c], hp' = [hp EXCEPT ![q] = [hp[q] EXCEPT ![c] = h]]
  PROVE  /\ PointsLost(q)' = PointsLost(q) \cup ({c} \X ((h + 1)..hp[q][c]))
         /\ PointsLost(q) \cap ({c} \X ((h + 1)..hp[q][c])) = {}
         /\ \A r \in Players \ {q} : PointsLost(r)' = PointsLost(r)
         /\ HPBounded'
<1>1. hp \in [Players -> [Subjects -> Nat]]
  BY DEF TypeOK
<1>2. /\ hp'[q][c] = h
      /\ \A s \in Subjects \ {c} : hp'[q][s] = hp[q][s]
      /\ \A r \in Players \ {q} : hp'[r] = hp[r]
  BY <1>1
<1>3. \A s \in Subjects : hp[q][s] \in Nat /\ Stats[q][s].hp \in Nat /\ hp[q][s] <= Stats[q][s].hp
  BY <1>1, StatsAssumption DEF HPBounded, Stat
<1>4. \A r \in Players : \A x : x \in PointsLost(r) <=>
        \E s \in Subjects : \E k \in (hp[r][s] + 1)..Stats[r][s].hp : x = <<s, k>>
  BY DEF PointsLost
<1>5. \A r \in Players : \A x : x \in PointsLost(r)' <=>
        \E s \in Subjects : \E k \in (hp'[r][s] + 1)..Stats[r][s].hp : x = <<s, k>>
  BY DEF PointsLost
<1>6. (h + 1)..Stats[q][c].hp = ((hp[q][c] + 1)..Stats[q][c].hp) \cup ((h + 1)..hp[q][c])
  BY <1>3
<1>7. PointsLost(q)' = PointsLost(q) \cup ({c} \X ((h + 1)..hp[q][c]))
  <2>1. ASSUME NEW x \in PointsLost(q)' PROVE x \in PointsLost(q) \cup ({c} \X ((h + 1)..hp[q][c]))
    <3>1. PICK s \in Subjects : \E k \in (hp'[q][s] + 1)..Stats[q][s].hp : x = <<s, k>>
      BY <1>5
    <3>2. CASE s = c
      BY <1>2, <1>4, <1>6, <3>1, <3>2
    <3>3. CASE s # c
      BY <1>2, <1>4, <3>1, <3>3
    <3> QED
      BY <3>2, <3>3
  <2>2. ASSUME NEW x \in {c} \X ((h + 1)..hp[q][c]) PROVE x \in PointsLost(q)'
    BY <1>2, <1>5, <1>6, <2>2
  <2>3. ASSUME NEW x \in PointsLost(q) PROVE x \in PointsLost(q)'
    <3>1. PICK s \in Subjects : \E k \in (hp[q][s] + 1)..Stats[q][s].hp : x = <<s, k>>
      BY <1>4
    <3>2. CASE s = c
      BY <1>2, <1>5, <1>6, <3>1, <3>2
    <3>3. CASE s # c
      BY <1>2, <1>5, <3>1, <3>3
    <3> QED
      BY <3>2, <3>3
  <2> QED
    BY <2>1, <2>2, <2>3
<1>8. PointsLost(q) \cap ({c} \X ((h + 1)..hp[q][c])) = {}
  BY <1>3, <1>4
<1>9. \A r \in Players \ {q} : PointsLost(r)' = PointsLost(r)
  BY <1>2 DEF PointsLost
<1>10. HPBounded'
  BY <1>2, <1>3 DEF HPBounded
<1> QED
  BY <1>7, <1>8, <1>9, <1>10

\* The points of damage that one more blow logs.
LEMMA PointsLoggedMore ==
  ASSUME TypeOK, NEW e \in Event, log' = Append(log, e)
  PROVE  /\ PointsLogged(e.target)' = PointsLogged(e.target) \cup ({Len(log) + 1} \X (1..e.damage))
         /\ PointsLogged(e.target) \cap ({Len(log) + 1} \X (1..e.damage)) = {}
         /\ \A r \in Players \ {e.target} : PointsLogged(r)' = PointsLogged(r)
<1> DEFINE n == Len(log)
<1>1. /\ DOMAIN log = 1..n /\ n \in Nat /\ DOMAIN log' = 1..(n + 1)
      /\ \A i \in 1..n : log'[i] = log[i]
      /\ log'[n + 1] = e
  <2>1. log \in Seq(Event)
    BY DEF TypeOK
  <2> QED
    BY <2>1, AppendProperties, LogType
<1> HIDE DEF n
<1> DEFINE At(l, q) == {j \in DOMAIN l : l[j].target = q}
<1>2. At(log', e.target) = At(log, e.target) \cup {n + 1}
  BY <1>1
<1>3. \A r \in Players \ {e.target} : At(log', r) = At(log, r)
  BY <1>1
<1>4. \A q : At(log, q) \subseteq 1..n /\ \A i \in At(log, q) : log'[i] = log[i]
  BY <1>1
<1>5. \A q : /\ PointsLogged(q) = UNION {{i} \X (1..log[i].damage) : i \in At(log, q)}
             /\ PointsLogged(q)' = UNION {{i} \X (1..log'[i].damage) : i \in At(log', q)}
  BY DEF PointsLogged
<1> HIDE DEF At
<1>6. PointsLogged(e.target)' = PointsLogged(e.target) \cup ({n + 1} \X (1..e.damage))
  BY <1>1, <1>2, <1>4, <1>5
<1>7. PointsLogged(e.target) \cap ({n + 1} \X (1..e.damage)) = {}
  <2>1. n + 1 \notin At(log, e.target)
    BY <1>1, <1>4
  <2> QED
    BY <1>5, <2>1
<1>8. \A r \in Players \ {e.target} : PointsLogged(r)' = PointsLogged(r)
  BY <1>3, <1>4, <1>5
<1> QED
  BY <1>6, <1>7, <1>8 DEF n

\* The account stays that of a finite number of points.
AccountInv ==
  /\ HPBounded
  /\ \A q \in Players : IsFiniteSet(PointsLost(q)) /\ IsFiniteSet(PointsLogged(q))
  /\ LogAccountsForDamage

LEMMA AccountInit == Init => AccountInv
<1> SUFFICES ASSUME Init PROVE AccountInv
  OBVIOUS
<1>1. \A p \in Players, s \in Subjects : hp[p][s] = Stats[p][s].hp /\ hp[p][s] \in Nat
  BY StatsAssumption DEF Init, Stat
<1>2. \A p \in Players : PointsLost(p) = {}
  BY <1>1 DEF PointsLost
<1>3. \A p \in Players : PointsLogged(p) = {}
  BY DEF Init, PointsLogged
<1> QED
  BY <1>1, <1>2, <1>3, FS_EmptySet DEF AccountInv, HPBounded, LogAccountsForDamage

LEMMA AccountStep == TypeOK /\ AccountInv /\ [Next]_vars => AccountInv'
<1> SUFFICES ASSUME TypeOK, AccountInv, [Next]_vars PROVE AccountInv'
  OBVIOUS
<1>1. CASE hp' = hp /\ log' = log
  <2>1. HPBounded'
    BY <1>1 DEF AccountInv, HPBounded
  <2>2. ASSUME NEW q \in Players
        PROVE  /\ IsFiniteSet(PointsLost(q)') /\ IsFiniteSet(PointsLogged(q)')
               /\ Cardinality(PointsLost(q)') <= Cardinality(PointsLogged(q)')
               /\ ~Defeated(q)' => Cardinality(PointsLost(q)') = Cardinality(PointsLogged(q)')
    <3>1. /\ IsFiniteSet(PointsLost(q)) /\ IsFiniteSet(PointsLogged(q))
          /\ Cardinality(PointsLost(q)) <= Cardinality(PointsLogged(q))
          /\ ~Defeated(q) => Cardinality(PointsLost(q)) = Cardinality(PointsLogged(q))
      BY DEF AccountInv, LogAccountsForDamage
    <3>2. /\ PointsLost(q)' = PointsLost(q) /\ PointsLogged(q)' = PointsLogged(q)
          /\ Defeated(q)' <=> Defeated(q)
      BY <1>1 DEF PointsLost, PointsLogged, Defeated
    <3>3. Cardinality(PointsLost(q)') <= Cardinality(PointsLogged(q)')
      BY <3>1, <3>2
    <3>4. IsFiniteSet(PointsLost(q)') /\ IsFiniteSet(PointsLogged(q)')
      BY <3>1, <3>2
    <3>5. ~Defeated(q)' => Cardinality(PointsLost(q)') = Cardinality(PointsLogged(q)')
      BY <3>1, <3>2
    <3> QED
      BY <3>3, <3>4, <3>5
  <2> QED
    BY <2>1, <2>2 DEF AccountInv, LogAccountsForDamage
<1>2. ASSUME NEW p \in Players, NEW q \in Players, Hit(p, q) PROVE AccountInv'
  <2>1. HPBounded
    BY DEF AccountInv
  <2>2. PICK c \in Subjects, h \in Nat, dmg \in Nat \ {0} :
          /\ hp' = [hp EXCEPT ![q] = [hp[q] EXCEPT ![c] = h]]
          /\ log' = Append(log, [turn |-> tick, actor |-> p, target |-> q, damage |-> dmg])
          /\ h < hp[q][c] /\ hp[q][c] - h <= dmg
          /\ h > 0 => hp[q][c] - h = dmg
    BY <1>2, <2>1, BlowTakes
  <2> DEFINE e == [turn |-> tick, actor |-> p, target |-> q, damage |-> dmg]
             taken == Strip(c, h + 1, hp[q][c])
             strip == Strip(Len(log) + 1, 1, dmg)
  <2>3. /\ PointsLost(q)' = PointsLost(q) \cup taken /\ PointsLost(q) \cap taken = {}
        /\ \A r \in Players \ {q} : PointsLost(r)' = PointsLost(r)
        /\ HPBounded'
    BY <2>1, <2>2, PointsAdded DEF Strip
  <2>4. e \in Event /\ e.target = q /\ e.damage = dmg
    BY DEF TypeOK, Event
  <2>5. /\ PointsLogged(q)' = PointsLogged(q) \cup strip /\ PointsLogged(q) \cap strip = {}
        /\ \A r \in Players \ {q} : PointsLogged(r)' = PointsLogged(r)
    <3> HIDE DEF e
    <3>1. log' = Append(log, e)
      BY <2>2 DEF e
    <3> QED
      BY <2>4, <3>1, PointsLoggedMore DEF Strip
  <2>6. hp[q][c] \in Nat
    BY DEF TypeOK
  <2>7. /\ IsFiniteSet(PointsLost(q)')
        /\ Cardinality(PointsLost(q)') = Cardinality(PointsLost(q)) + (hp[q][c] - h)
    <3>1. IsFiniteSet(PointsLost(q))
      BY DEF AccountInv
    <3>2. IsFiniteSet(taken) /\ Cardinality(taken) = hp[q][c] - h
      <4>1. IsFiniteSet(taken) /\ Cardinality(taken) = IF h + 1 > hp[q][c] THEN 0 ELSE hp[q][c] - (h + 1) + 1
        BY <2>6, StripSize
      <4> HIDE DEF taken
      <4> QED
        BY <2>2, <2>6, <4>1
    <3> HIDE DEF e, taken
    <3>3. /\ IsFiniteSet(PointsLost(q) \cup taken)
          /\ Cardinality(PointsLost(q) \cup taken) = Cardinality(PointsLost(q)) + Cardinality(taken)
      BY <2>3, <3>1, <3>2, DisjointSize
    <3> QED
      BY <2>3, <3>2, <3>3
  <2>8. /\ IsFiniteSet(PointsLogged(q)')
        /\ Cardinality(PointsLogged(q)') = Cardinality(PointsLogged(q)) + dmg
    <3>1. IsFiniteSet(PointsLogged(q))
      BY DEF AccountInv
    <3>2. IsFiniteSet(strip) /\ Cardinality(strip) = dmg
      <4>1. IsFiniteSet(strip) /\ Cardinality(strip) = IF 1 > dmg THEN 0 ELSE dmg - 1 + 1
        BY StripSize
      <4> HIDE DEF strip
      <4> QED
        BY <4>1
    <3> HIDE DEF e, strip
    <3>3. /\ IsFiniteSet(PointsLogged(q) \cup strip)
          /\ Cardinality(PointsLogged(q) \cup strip) = Cardinality(PointsLogged(q)) + Cardinality(strip)
      BY <2>5, <3>1, <3>2, DisjointSize
    <3> QED
      BY <2>5, <3>2, <3>3
  \* Before the blow the account of its target was exact, for it stood.
  <2>9. /\ Cardinality(PointsLost(q)) = Cardinality(PointsLogged(q))
        /\ Cardinality(PointsLost(q)) \in Nat
    BY <1>2, HitStep, FS_CardinalityType DEF AccountInv, LogAccountsForDamage
  <2>10. /\ Cardinality(PointsLost(q)') <= Cardinality(PointsLogged(q)')
         /\ ~Defeated(q)' => Cardinality(PointsLost(q)') = Cardinality(PointsLogged(q)')
    <3>1. hp'[q][c] = h
      BY <2>2 DEF TypeOK
    <3>2. ~Defeated(q)' => h > 0
      BY <3>1 DEF Defeated
    <3> QED
      BY <2>2, <2>6, <2>7, <2>8, <2>9, <3>2
  <2>11. \A r \in Players \ {q} : Defeated(r)' <=> Defeated(r)
    <3>1. \A r \in Players \ {q} : hp'[r] = hp[r]
      BY <2>2 DEF TypeOK
    <3> QED
      BY <3>1 DEF Defeated
  <2> QED
    BY <2>3, <2>5, <2>7, <2>8, <2>10, <2>11 DEF AccountInv, LogAccountsForDamage
<1> QED
  BY <1>1, <1>2 DEF Next, StartTick, Pass, Whiff, Swing, CheckVictory, vars

\* The stored log adds up: in any battle the damage logged against a player
\* who stands is what it has lost, and no defeated one lost more than that.
THEOREM LogAlwaysAccounts == Spec => []LogAccountsForDamage
<1>1. AccountInv => LogAccountsForDamage
  BY DEF AccountInv
<1> QED
  BY <1>1, AccountInit, AccountStep, TypeCorrect, PTL DEF Spec
-----------------------------------------------------------------------------
(* Who decides a battle                                                    *)

\* A blow of this tick felled its target, and while the tick lasts the striker
\* is one whose input attacks.
FellByABlow ==
  \E i \in DOMAIN log :
    /\ log[i].turn = tick /\ Defeated(log[i].target)
    /\ phase = "attacks" => inputs[log[i].actor].attack

\* During the attack loop a battle that can no longer go on was ended by a blow
\* of this very tick; so was a finished one.
BlowInv ==
  /\ phase = "attacks" => Undecided \/ FellByABlow
  /\ finished => FellByABlow

LEMMA BlowKept ==
  ASSUME TypeOK, [Next]_vars, FellByABlow, tick' = tick, phase' = phase => inputs' = inputs,
         phase' \in {phase, "idle"},
         log' = log \/ \E e \in Event : log' = Append(log, e)
  PROVE  FellByABlow'
<1>1. PICK i \in DOMAIN log :
        /\ log[i].turn = tick /\ Defeated(log[i].target)
        /\ phase = "attacks" => inputs[log[i].actor].attack
  BY DEF FellByABlow
<1>2. i \in DOMAIN log' /\ log'[i] = log[i]
  <2>1. CASE log' = log
    BY <2>1
  <2>2. ASSUME NEW e \in Event, log' = Append(log, e) PROVE i \in DOMAIN log' /\ log'[i] = log[i]
    <3>1. log \in Seq(Event)
      BY DEF TypeOK
    <3> QED
      BY <2>2, <3>1, AppendProperties
  <2> QED
    BY <2>1, <2>2
<1>3. \E q \in Players : q = log[i].target
  BY LogType DEF Event
<1>4. PICK q \in Players : q = log[i].target
  BY <1>3
<1>5. Defeated(q)'
  BY <1>1, <1>4, DefeatedStep
<1> QED
  BY <1>1, <1>2, <1>4, <1>5 DEF FellByABlow, Defeated, TypeOK

LEMMA BlowStep == VerdictInv /\ BlowInv /\ [Next]_vars => BlowInv'
<1> SUFFICES ASSUME VerdictInv, BlowInv, [Next]_vars PROVE BlowInv'
  OBVIOUS
<1> USE DEF VerdictInv
<1>1. ASSUME NEW in \in [Players -> Inputs], StartTick(in) PROVE BlowInv'
  <2>1. Undecided
    BY <1>1 DEF StartTick, VerdictSound
  <2>2. Undecided'
    BY <1>1, <2>1 DEF StartTick, Undecided, SurvivingTeams, Standing, Defeated
  <2> QED
    BY <1>1, <2>2 DEF BlowInv, StartTick
<1>2. CASE (\E p \in Players : Pass(p) \/ Whiff(p)) \/ UNCHANGED vars
  <2>1. UNCHANGED <<tick, phase, inputs, hp, log, finished, leaderRule>>
    BY <1>2 DEF Pass, Whiff, Swing, vars
  <2>2. Undecided' <=> Undecided
    BY <2>1 DEF Undecided, SurvivingTeams, Standing, Defeated
  <2>3. FellByABlow' <=> FellByABlow
    BY <2>1 DEF FellByABlow, Defeated
  <2> QED
    BY <2>1, <2>2, <2>3 DEF BlowInv
<1>3. ASSUME NEW p \in Players, NEW q \in Players, Hit(p, q) PROVE BlowInv'
  <2>1. /\ phase = "attacks" /\ UNCHANGED <<tick, phase, inputs, finished, leaderRule>>
        /\ inputs[p].attack
    BY <1>3 DEF Hit, Swing, CanAttack
  <2>2. PICK dmg \in Nat \ {0} :
          log' = Append(log, [turn |-> tick, actor |-> p, target |-> q, damage |-> dmg])
    BY <1>3, HitStep
  <2> DEFINE e == [turn |-> tick, actor |-> p, target |-> q, damage |-> dmg]
  <2>3. e \in Event /\ e.turn = tick /\ e.target = q /\ e.actor = p
    BY DEF Event, TypeOK
  <2>4. log' = Append(log, e)
    BY <2>2
  <2> HIDE DEF e
  <2>5. CASE FellByABlow
    BY <2>1, <2>3, <2>4, <2>5, BlowKept DEF BlowInv
  <2>6. CASE Undecided /\ Standing' = Standing
    <3>1. Undecided'
      BY <2>1, <2>6 DEF Undecided, SurvivingTeams
    <3> QED
      BY <2>1, <3>1 DEF BlowInv, FinishedIdle
  <2>7. CASE Standing' # Standing
    <3>1. Defeated(q)'
      BY <1>3, <2>7, HitStanding DEF Standing
    <3>2. Len(log) + 1 \in DOMAIN log' /\ log'[Len(log) + 1] = e
      <4>1. log \in Seq(Event)
        BY DEF TypeOK
      <4> QED
        BY <2>3, <2>4, <4>1, AppendProperties
    <3>3. FellByABlow'
      BY <2>1, <2>3, <3>1, <3>2 DEF FellByABlow, Defeated
    <3> QED
      BY <3>3 DEF BlowInv
  <2> QED
    BY <2>1, <2>5, <2>6, <2>7 DEF BlowInv
<1>4. CASE CheckVictory
  <2>1. /\ UNCHANGED <<tick, log>> /\ phase = "attacks" /\ phase' = "idle"
        /\ ~Undecided \/ finished' = finished
    BY <1>4 DEF CheckVictory
  <2>2. finished' => FellByABlow
    BY <1>4, <2>1 DEF BlowInv, CheckVictory
  <2> QED
    BY <2>1, <2>2, BlowKept DEF BlowInv
<1> QED
  BY <1>1, <1>2, <1>3, <1>4 DEF Next

\* A battle is decided in no tick but one in which somebody fell by a blow:
\* the last entries of the log that Rails stores always show it.
THEOREM DecidedByABlow ==
  Spec => [](finished => \E i \in DOMAIN log : log[i].turn = tick /\ Defeated(log[i].target))
<1>1. Init => BlowInv
  BY DEF Init, BlowInv
<1>2. BlowInv => (finished => \E i \in DOMAIN log : log[i].turn = tick /\ Defeated(log[i].target))
  BY DEF BlowInv, FellByABlow
<1> QED
  BY <1>1, <1>2, BlowStep, VerdictInvariant, PTL DEF Spec

\* A Step whose inputs attack nowhere decides nothing: the engine gives the
\* server no result for a room in which nobody fights.
THEOREM OnlyAnAttackDecides ==
  Spec => [][~finished /\ finished' => \E p \in Players : inputs[p].attack]_vars
<1>1. Init => BlowInv
  BY DEF Init, BlowInv
<1>2. VerdictInv /\ BlowInv /\ [Next]_vars =>
        [~finished /\ finished' => \E p \in Players : inputs[p].attack]_vars
  <2> SUFFICES ASSUME VerdictInv, BlowInv, [Next]_vars, ~finished, finished'
               PROVE  \E p \in Players : inputs[p].attack
    OBVIOUS
  <2>1. CheckVictory
    BY DEF Next, StartTick, Pass, Whiff, Hit, Swing, vars
  <2>2. phase = "attacks" /\ ~Undecided
    BY <2>1 DEF CheckVictory
  <2>3. PICK i \in DOMAIN log : inputs[log[i].actor].attack
    BY <2>2 DEF BlowInv, FellByABlow
  <2>4. log[i].actor \in Players
    BY LogType DEF VerdictInv, Event
  <2> QED
    BY <2>3, <2>4
<1> QED
  BY <1>1, <1>2, BlowStep, VerdictInvariant, PTL DEF Spec
-----------------------------------------------------------------------------
(* How long a battle's log can get                                         *)

\* The hit points of the start data, and those lost since: each numbered.
AllPoints ==
  UNION {Strip(x, 1, Stats[x[1]][x[2]].hp) : x \in Players \X Subjects}
AllLost ==
  UNION {Strip(x, hp[x[1]][x[2]] + 1, Stats[x[1]][x[2]].hp) : x \in Players \X Subjects}

\* Rails makes a battle of finitely many players, each with five summons.
LEMMA PointsAreFinite == IsFiniteSet(AllPoints)
<1>1. IsFiniteSet(Players)
  <2> DEFINE n == Len(Roster)
  <2>1. Roster \in [1..n -> Players] /\ n \in Nat
    BY PlayersAssumption, LenProperties
  <2>2. \A p \in Players : \E i \in 1..n : Roster[i] = p
    BY PlayersAssumption, LenProperties
  <2> HIDE DEF n
  <2>3. Roster \in Surjection(1..n, Players)
    BY <2>1, <2>2 DEF Surjection
  <2> QED
    BY <2>1, <2>3, FS_Interval, FS_Surjection
<1> DEFINE Pairs == Players \X Subjects
           points == [x \in Pairs |-> Strip(x, 1, Stats[x[1]][x[2]].hp)]
           Strips == {points[x] : x \in Pairs}
<1>2. IsFiniteSet(Pairs)
  BY <1>1, StatsAssumption, FS_Product
<1>3. \A x \in Pairs : IsFiniteSet(points[x])
  <2> SUFFICES ASSUME NEW x \in Pairs PROVE IsFiniteSet(Strip(x, 1, Stats[x[1]][x[2]].hp))
    OBVIOUS
  <2>1. Stats[x[1]][x[2]].hp \in Int
    BY StatsAssumption DEF Stat
  <2> QED
    BY <2>1, StripSize
<1>4. DOMAIN points = Pairs
  OBVIOUS
<1>5. AllPoints = UNION Strips
  BY DEF AllPoints
<1> HIDE DEF Pairs, points
<1>6. points \in Surjection(Pairs, Strips)
  <2>1. points \in [Pairs -> Strips]
    BY <1>4 DEF points
  <2> QED
    BY <2>1 DEF Surjection
<1>7. IsFiniteSet(Strips)
  BY <1>2, <1>6, FS_Surjection
<1>8. \A T \in Strips : IsFiniteSet(T)
  BY <1>3
<1> HIDE DEF Strips
<1> QED
  BY <1>5, <1>7, <1>8, FS_UNION

\* Every entry of the log took a point of its own.
LogBound == Len(log) <= Cardinality(AllLost)

\* What is lost was there.
LostAreOfStart == AllLost \subseteq AllPoints

LEMMA LostWereThere == TypeOK => LostAreOfStart
<1> SUFFICES ASSUME TypeOK, NEW x \in Players \X Subjects
             PROVE  Strip(x, hp[x[1]][x[2]] + 1, Stats[x[1]][x[2]].hp)
                      \subseteq Strip(x, 1, Stats[x[1]][x[2]].hp)
  BY DEF LostAreOfStart, AllLost, AllPoints
<1>1. hp[x[1]][x[2]] \in Nat /\ Stats[x[1]][x[2]].hp \in Nat
  BY StatsAssumption DEF TypeOK, Stat
<1> QED
  BY <1>1 DEF Strip

LEMMA BoundStep ==
  TypeOK /\ HPBounded /\ LostAreOfStart' /\ LogBound /\ [Next]_vars => LogBound'
<1> SUFFICES ASSUME TypeOK, HPBounded, LostAreOfStart', LogBound, [Next]_vars PROVE LogBound'
  OBVIOUS
<1>1. AllLost' \subseteq AllPoints
  BY DEF LostAreOfStart, AllPoints
<1>2. CASE hp' = hp /\ log' = log
  BY <1>2 DEF LogBound, AllLost
<1>3. ASSUME NEW p \in Players, NEW q \in Players, Hit(p, q) PROVE LogBound'
  <2>1. PICK c \in Subjects, h \in Nat, dmg \in Nat \ {0} :
          /\ hp' = [hp EXCEPT ![q] = [hp[q] EXCEPT ![c] = h]]
          /\ log' = Append(log, [turn |-> tick, actor |-> p, target |-> q, damage |-> dmg])
          /\ h < hp[q][c]
    BY <1>3, BlowTakes
  <2>2. /\ Len(log') = Len(log) + 1 /\ Len(log) \in Nat
    <3> DEFINE e == [turn |-> tick, actor |-> p, target |-> q, damage |-> dmg]
    <3>1. e \in Event /\ log \in Seq(Event)
      BY DEF Event, TypeOK
    <3> HIDE DEF e
    <3>2. log' = Append(log, e)
      BY <2>1 DEF e
    <3> QED
      BY <3>1, <3>2, AppendProperties, LenProperties
  <2>3. \A r \in Players, s \in Subjects :
          hp[r][s] \in Nat /\ hp'[r][s] \in Nat /\ hp'[r][s] <= hp[r][s]
    BY <2>1 DEF TypeOK
  <2>4. hp'[q][c] = h /\ hp[q][c] <= Stats[q][c].hp /\ Stats[q][c].hp \in Nat
    <3>1. hp'[q][c] = h
      BY <2>1 DEF TypeOK
    <3>2. hp[q][c] <= Stats[q][c].hp /\ Stats[q][c].hp \in Nat
      BY StatsAssumption DEF HPBounded, Stat
    <3> QED
      BY <3>1, <3>2
  <2> DEFINE pt == <<<<q, c>>, hp[q][c]>>
  <2>5. \A y : y \in AllLost <=>
          \E r \in Players, s \in Subjects :
            \E k \in (hp[r][s] + 1)..Stats[r][s].hp : y = <<<<r, s>>, k>>
    BY DEF AllLost, Strip
  <2>6. \A y : y \in AllLost' <=>
          \E r \in Players, s \in Subjects :
            \E k \in (hp'[r][s] + 1)..Stats[r][s].hp : y = <<<<r, s>>, k>>
    BY DEF AllLost, Strip
  <2>7. pt \notin AllLost
    BY <2>3, <2>5
  <2>8. pt \in AllLost'
    <3>1. hp[q][c] \in (hp'[q][c] + 1)..Stats[q][c].hp
      BY <2>1, <2>3, <2>4
    <3> QED
      BY <2>6, <3>1
  <2>9. AllLost \subseteq AllLost'
    <3> SUFFICES ASSUME NEW y \in AllLost PROVE y \in AllLost'
      OBVIOUS
    <3>1. PICK r \in Players, s \in Subjects :
            \E k \in (hp[r][s] + 1)..Stats[r][s].hp : y = <<<<r, s>>, k>>
      BY <2>5
    <3>2. Stats[r][s].hp \in Nat
      BY StatsAssumption DEF Stat
    <3>3. (hp[r][s] + 1)..Stats[r][s].hp \subseteq (hp'[r][s] + 1)..Stats[r][s].hp
      BY <2>3, <3>2
    <3> QED
      BY <2>6, <3>1, <3>3
  <2> HIDE DEF pt
  <2>10. IsFiniteSet(AllLost) /\ IsFiniteSet(AllLost')
    <3>1. AllLost' \cup AllLost \subseteq AllPoints
      BY <1>1, <2>9
    <3> QED
      BY <3>1, PointsAreFinite, FS_Subset
  <2>11. Cardinality(AllLost \cup {pt}) = Cardinality(AllLost) + 1
    BY <2>7, <2>10, FS_AddElement
  <2>12. Cardinality(AllLost \cup {pt}) <= Cardinality(AllLost')
    BY <2>8, <2>9, <2>10, FS_Subset
  <2>13. Cardinality(AllLost) \in Nat /\ Cardinality(AllLost') \in Nat
    BY <2>10, FS_CardinalityType
  <2>14. Len(log') <= Cardinality(AllLost')
    BY <2>2, <2>11, <2>12, <2>13 DEF LogBound
  <2> QED
    BY <2>14 DEF LogBound
<1> QED
  BY <1>2, <1>3 DEF Next, StartTick, Pass, Whiff, Swing, CheckVictory, vars

\* The log that a room keeps, and Rails stores in one request, cannot outgrow
\* the hit points of the start data, however long the battle lasts.
THEOREM LogStaysBounded == Spec => [](Len(log) <= Cardinality(AllPoints))
<1>1. Init => LogBound
  <2> SUFFICES ASSUME Init PROVE LogBound
    OBVIOUS
  <2>1. AllLost \subseteq AllPoints
    BY TypeInit, LostWereThere DEF LostAreOfStart
  <2>2. IsFiniteSet(AllLost)
    BY <2>1, PointsAreFinite, FS_Subset
  <2>3. Cardinality(AllLost) \in Nat
    BY <2>2, FS_CardinalityType
  <2>4. Len(log) = 0
    BY DEF Init
  <2> QED
    BY <2>3, <2>4 DEF LogBound
<1>2. TypeOK /\ AccountInv /\ LostAreOfStart' /\ LogBound /\ [Next]_vars => LogBound'
  BY BoundStep DEF AccountInv
<1>3. TypeOK /\ LostAreOfStart /\ LogBound => Len(log) <= Cardinality(AllPoints)
  <2> SUFFICES ASSUME TypeOK, LostAreOfStart, LogBound PROVE Len(log) <= Cardinality(AllPoints)
    OBVIOUS
  <2>1. IsFiniteSet(AllLost) /\ Cardinality(AllLost) <= Cardinality(AllPoints)
    BY PointsAreFinite, FS_Subset DEF LostAreOfStart
  <2>2. Cardinality(AllLost) \in Nat /\ Cardinality(AllPoints) \in Nat
    BY <2>1, PointsAreFinite, FS_CardinalityType
  <2> QED
    BY <2>1, <2>2, LogType DEF LogBound
<1> QED
  BY <1>1, <1>2, <1>3, LostWereThere, AccountInit, AccountStep, TypeCorrect, PTL DEF Spec
=============================================================================
