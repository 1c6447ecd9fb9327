\* The End key while composing.
SPECIFICATION Spec
CONSTANTS
    Events <- MCTextEvents
    Configs <- MCTextConfigs
    PhraseLen = 1
    MaxTyped = 2
INVARIANTS
    EndIsHandled
