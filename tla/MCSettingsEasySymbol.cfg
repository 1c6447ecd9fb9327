\* easy-symbol-input off, shift-toggle-chinese on.
SPECIFICATION SettingsSpec
CONSTANTS
    Studied <- Symbols
    SelKeyLists <- MCSelKeyLists
    Stored <- MCStored
    Picked <- MCPicked
    Lockable = {}
    Dialogs = {"d1"}
INVARIANTS
    EasySymbolHonoured
