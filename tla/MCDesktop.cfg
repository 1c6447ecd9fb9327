\* Every call of the daemon around a short composition, in two windows.
SPECIFICATION DesktopSpec
CONSTANTS
    Events <- MCEvents
    Configs <- MCConfigs
    PhraseLen = 1
    MaxTyped = 2
    SyncModes = {"keyboard", "input method"}
    SelKeys <- MCSelKeys
    UsKey <- MCUsKey
    SystemLayouts = {TRUE, FALSE}
    Purposes = {"free-form", "password"}
    Capabilities = {0, 9}
    Windows = {w1, w2}
    Nowhere = Nowhere
SYMMETRY Symmetry
INVARIANTS
    PanelShowsAllText
    LabelsTruthful
    OpenListOnScreen
    AppTextOnce
    EnglishHasNoSyllable
    TextStaysHome
PROPERTIES
    NothingLost
    LightFollowsLanguage
    DeliversOnScreenText
