\* The loops end, whatever is written, locked or disconnected meanwhile.
SPECIFICATION FairSettingsSpec
CONSTANTS
    Studied <- SelKeys
    SelKeyLists <- MCSelKeyLists
    Stored <- MCStored
    Picked <- MCPicked
    Lockable = {"cand-per-page"}
    Dialogs = {"d1"}
PROPERTIES
    EachIsRead
    OkEnds
