SPECIFICATION ReflectSpec
CONSTANTS
  Bits <- MCBits
  Doubles <- MCDoubles
  Structs <- MCStructs
  Texts <- MCTexts
  Segments <- MCSegments
  CopySizes = {2}
  Unknown = Unknown
  MaxCalls = 3
  MaxText = 2
INVARIANTS MembersHold SavedComesBack
CHECK_DEADLOCK FALSE
