\* Plain Zhuyin mode.
SPECIFICATION Spec
CONSTANTS
    Events <- PlainEvents
    Configs <- MCPlainConfigs
    PhraseLen = 1
    MaxTyped = 3
INVARIANTS
    PreEditMirrors
    CommitAccounted
    OpenListIsShown
    EachCharacterOnce
PROPERTIES
    KeysKeepText
    IgnoredKeyFlushes
    DeliversAsTextStream
