CONSTANTS
  BuiltinNames <- MCBuiltins
  TextOrder <- MCTexts
  Stdin <- MCStdin
  Reserved <- MCReserved
  Programs <- MCPrograms
  Log2Steps = 9
SPECIFICATION EngSpec
INVARIANTS
  FastAgrees
  BytecodeAgrees
  LinesAgree
  OnlyReadsAreLost
  FileIsFaithful
  NativeAgrees
  CodeIsLevel
  InliningOfTame
CHECK_DEADLOCK FALSE
