SPECIFICATION Spec
CONSTANTS
  IobufLen = 11
  BigArg = 12
  InlineMax = 5
  MaxMultibulk = 3
  MaxBulkLen = 12
  MaxQuerybuf = 33
  Digits <- MCDigits
  LowerCase <- MCLowerCase
  CommandTable <- MCCommandTable
  ErrorArgsMax = 6
  Inputs <- MCInputs
INVARIANTS
  RepliesFramed
  CommandsExact
  ArgvFits
PROPERTIES
  BigArgAlone
  CommandsSpec
\* A closed connection and a dead process take no step.
CHECK_DEADLOCK FALSE
