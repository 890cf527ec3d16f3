CONSTANTS
    SECURITY_MAX_AUDIT_EVENTS = 1
    SeqModulus = 2
    Pids = {1}
    KEYBOARD_BUFFER_SIZE = 3
    Prompt = 1
    Width = 4
    FirstRow = 1
    Rows = 3
    Keys <- TwoKeys
    Spelling <- AuditSpelling
    AuditLines = 1
    BootResults <- NothingBooted
    FilesystemReady = {TRUE}
SPECIFICATION ShellSpec
CHECK_DEADLOCK FALSE
INVARIANTS
    FilterOfOneCommand
