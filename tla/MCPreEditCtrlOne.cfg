\* Ctrl-1 and the symbol list.
SPECIFICATION Spec
CONSTANTS
    Events <- ModeEvents
    Configs <- MCModeConfigs
    PhraseLen = 1
    MaxTyped = 2
INVARIANTS
    CtrlOneOpensSymbols
