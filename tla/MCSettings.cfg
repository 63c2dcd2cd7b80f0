SPECIFICATION Spec
CONSTANTS
  Names <- MCNames
  KeyNames <- MCKeyNames
  Values <- MCValues
  MaxLines = 4
INVARIANTS TypeOK LastSettingWins
CHECK_DEADLOCK FALSE
