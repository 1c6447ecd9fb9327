\* The selection keys, their number, and a list setting, shared by an engine,
\* a dialog and the gsettings tool.
SPECIFICATION SettingsSpec
CONSTANTS
    Studied <- Lists
    SelKeyLists <- MCSelKeyLists
    Stored <- MCStored
    Picked <- MCPicked
    Lockable = {"sync-caps-lock"}
    Dialogs = {"d1"}
INVARIANTS
    ContextFollowsCache
    FreshUnlessWritten
    OkSaved
    UntouchedKept
