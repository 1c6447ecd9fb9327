\* A password with a capital letter, then Shift-Tab out of the password field.
SPECIFICATION DesktopSpec
CONSTANTS
    Events <- ShiftedEvents
    Configs <- MCConfigs
    PhraseLen = 1
    MaxTyped = 1
    SyncModes = {"disable"}
    SelKeys <- MCSelKeys
    UsKey <- SameKey
    SystemLayouts = {TRUE}
    Purposes = {"free-form", "password"}
    Capabilities = {9}
    Windows = {w1, w2}
    Nowhere = Nowhere
PROPERTIES
    CombinationIsNoShift
