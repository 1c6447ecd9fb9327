\* cand-per-page changed while the engine runs.
SPECIFICATION SettingsSpec
CONSTANTS
    Studied <- SelKeys
    SelKeyLists <- MCSelKeyLists
    Stored <- MCStored
    Picked <- MCPicked
    Lockable = {}
    Dialogs = {"d1"}
INVARIANTS
    PageFits
