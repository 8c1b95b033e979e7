CONSTANTS
  Spellings <- MCSpellings
  Param <- MCParam
  Values <- MCValues
  Chars <- MCChars
  MaxPairs = 3
  MaxText = 7
SPECIFICATION TypingSpec
INVARIANTS FrontEndsAgree ValueFollowsName
\* Requests and texts of the greatest length are not continued.
CHECK_DEADLOCK FALSE
