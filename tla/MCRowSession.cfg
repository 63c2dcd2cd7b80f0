SPECIFICATION Spec
CONSTANTS
  U32Max = 31
  LLMax = 1023
  Percentages <- MCPercentages
  Originals <- MCOriginals
  MaxPlayers = 6
INVARIANTS TypeOK NearestOrSaturated
PROPERTY MorePlayersMoreHp
