SPECIFICATION FairSpec
CONSTANTS
  NoKey = NoKey
  Policies <- MCPolicies
  Deltas <- MCDeltas
  ClipTicks = 6
  EnterTicks = 2
  ExitTicks = 3
  InterruptTicks = 1
  MaxKey = 5
INVARIANTS
  TypeOK
  PhaseFollowsClip
  NoRequestLost
  QuietAfterUnmount
PROPERTIES
  NothingSetsBack
  ReturnsToBase
  PlaysOnce
CHECK_DEADLOCK FALSE
