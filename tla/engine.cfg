SPECIFICATION Spec
CONSTANTS
  a1 = a1
  a2 = a2
  b1 = b1
  classA = classA
  math = math
  art = art
  NoTeam = NoTeam
  Nobody = Nobody
  Neutral = Neutral
  Players <- MCPlayers
  Roster <- MCRoster
  TeamID <- MCTeamID
  Leaders <- MCLeaders
  LeaderRules = {FALSE, TRUE}
  Subjects = {math, art}
  Stats <- MCStats
  Fields <- MCFields
  Inputs <- MCInputs
  AttackRange = 2
  MoveBase = 1
  MovePerSpeed = 0
  CooldownBase = 3
  CooldownMin = 2
  SpawnOffset = 1
  SpawnRowGap = 1
  MaxTick = 3
INVARIANTS
  TypeOK
  SomeoneStands
  VerdictSound
  SummonedOnlyInField
  HitsAreSpaced
  LogAccountsForDamage
PROPERTIES
  DefeatedAreOut
  Elimination
CHECK_DEADLOCK FALSE
