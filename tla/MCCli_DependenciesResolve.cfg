CONSTANTS
  BuiltinNames <- MCBuiltins
  Inputs <- MCInputs
  MaxTyped = 5
  Uris = {"u"}
  Texts <- MCTexts
  MaxSent = 4
  Diagnose <- MCDiagnose
  Hub <- MCHub
  Projects <- MCProjects
  Drafts <- MCDrafts
  MaxCommands = 3
SPECIFICATION CliSpec
INVARIANT DependenciesResolve
CHECK_DEADLOCK FALSE
