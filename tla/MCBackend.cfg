\* Three properties, two clients, three services.
SPECIFICATION BackendSpec
CONSTANTS
    Services = {"gsettings", "gconf2", "ibus-config"}
    Clients = {c1, c2}
    Keys = {"plain-zhuyin", "max-chi-symbol-len", "cand-per-page"}
    valueType <- MCType
    subSection <- NoSections
    defaultValue <- MCDefault
    Strings = {"0", "10", "20"}
    Parsed <- MCParsed
    basePath <- MCBasePath
    schemasHome <- MCSchemasHome
    Assigned <- MCAssigned
    Foreign <- MCForeign
    HalfRange = 32
INVARIANTS
    ContextsTyped
    UnsetMeansDefault
PROPERTIES
    StoresTypedValues
