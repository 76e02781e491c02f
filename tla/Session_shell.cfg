\* Six messages of three bytes, and a buffer that is no multiple of that.
SPECIFICATION SessionSpec
CONSTANTS
  Messages = 6
  MsgLen = 3
  BufLen = 7
INVARIANTS ChildWritesAll PrintedUnlessLate
PROPERTIES WakesUp PromptComesBack
