SPECIFICATION FairSpec
CONSTANTS
  war = war
  duel = duel
  Battles <- MCBattles
  Teamed <- MCTeamed
  MaxSocks = 2
  None = None
  MaxTick = 1
  MaxRooms = 1
  MaxTokens <- MCMaxTokens
  MaxInbox = 2
INVARIANTS
  TypeOK
  OutcomeIsVerdict
  SentToItsBattle
  ResultPageSound
PROPERTIES
  VoiceListens
  MicGivenBack
  ShowsOneBattle
CHECK_DEADLOCK FALSE
