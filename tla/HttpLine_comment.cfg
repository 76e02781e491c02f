\* The comment after the loop over the headers: not so after a line that fills the buffer.
SPECIFICATION Spec
CONSTANTS
  CR = CR
  LF = LF
  Other = Other
  Nul = Nul
  Size = 4
  MaxLen = 5
INVARIANT HeadersReadThrough
