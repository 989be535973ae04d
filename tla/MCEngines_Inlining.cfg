CONSTANTS
  BuiltinNames <- MCBuiltins
  TextOrder <- MCTexts
  Stdin <- MCStdin
  Reserved <- MCReserved
  Programs <- MCInlinePrograms
  Log2Steps = 9
SPECIFICATION EngSpec
INVARIANT InliningIsInvisible
CHECK_DEADLOCK FALSE
