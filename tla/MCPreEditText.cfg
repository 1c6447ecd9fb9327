\* Text, editing and mode keys, modifiers and releases, in ordinary (non-plain)
\* composition.
SPECIFICATION Spec
CONSTANTS
    Events <- MCTextEvents
    Configs <- MCTextConfigs
    PhraseLen = 1
    MaxTyped = 3
INVARIANTS
    TypeOK
    PreEditMirrors
    CommitAccounted
    OpenListIsShown
    SettingsRestored
    EnglishHasNoSyllable
    EachCharacterOnce
    FalseKeyNeverSeen
PROPERTIES
    KeysKeepText
    DeliversAsTextStream
