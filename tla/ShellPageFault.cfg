CONSTANTS
    SECURITY_MAX_AUDIT_EVENTS = 16
    SeqModulus = 20
    Pids = {1}
    KEYBOARD_BUFFER_SIZE = 3
    Prompt = 1
    Width = 4
    FirstRow = 1
    Rows = 3
    Keys <- TwoKeys
    Spelling <- PlainSpelling
    AuditLines = 5
    BootResults <- Booted
    FilesystemReady = {TRUE}
SPECIFICATION ShellSpec
CHECK_DEADLOCK FALSE
PROPERTIES
    PromptReturns
