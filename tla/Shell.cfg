CONSTANTS
    SECURITY_MAX_AUDIT_EVENTS = 1
    SeqModulus = 2
    Pids = {1}
    KEYBOARD_BUFFER_SIZE = 2
    Prompt = 1
    Width = 3
    FirstRow = 1
    Rows = 3
    Keys <- FiveKeys
    Spelling <- CommandSpelling
    AuditLines = 1
    BootResults <- NothingBooted
    FilesystemReady = {TRUE, FALSE}
SPECIFICATION ShellSpec
INVARIANTS
    ShellTypeOK
    PromptOnScreen
    
    LastFilterRun
