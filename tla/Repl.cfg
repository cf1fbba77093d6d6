SPECIFICATION Spec
CONSTANTS
  NoText = NoText
  Char <- MCChar
  ReadOne <- read_one
  Failing <- MCFailing
  Exiting <- MCExiting
  ExitStatus = 3
  Newline <- MCNewline
  Invocations <- MCInvocations
  Lines <- MCLines
  MaxLines = 3
  MaxNesting = 3
INVARIANTS PromptTells PiecesAreTheWhole BatchStatus NeverWaitsInVain ReadsWhatItWrites
CHECK_DEADLOCK FALSE
