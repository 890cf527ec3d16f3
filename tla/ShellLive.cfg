CONSTANTS
    SECURITY_MAX_AUDIT_EVENTS = 2
    SeqModulus = 3
    Pids = {1}
    KEYBOARD_BUFFER_SIZE = 2
    Prompt = 1
    Width = 2
    FirstRow = 1
    Rows = 2
    Keys <- ThreeKeys
    Spelling <- UtilitySpelling
    AuditLines = 1
    BootResults <- NothingBooted
    FilesystemReady = {TRUE, FALSE}
SPECIFICATION ShellSpec
PROPERTIES
    RequestsServed
    UtilitiesEnd
CHECK_DEADLOCK FALSE
