\* Plain Zhuyin mode switched on in the middle of a composition.
SPECIFICATION Spec
CONSTANTS
    Events <- PlainEvents
    Configs <- MCPlainSwitchConfigs
    PhraseLen = 1
    MaxTyped = 3
INVARIANTS
    FlagMeansDelivered
