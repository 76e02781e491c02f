\* Every stream of up to six bytes, in every split, for a buffer of four.
SPECIFICATION FairSpec
CONSTANTS
  CR = CR
  LF = LF
  Other = Other
  Nul = Nul
  Size = 4
  MaxLen = 6
INVARIANTS TypeOK BufferHolds NothingLost HeadersEndAtBlankLine
PROPERTY HeadersEnd
