CONSTANTS
    SECURITY_MAX_AUDIT_EVENTS = 3
    SeqModulus = 5
    Pids = {1, 2}
SPECIFICATION AuditSpec
INVARIANTS
    AuditTypeOK
    ConsecutiveSequences
    FilteredReadIsSelection
PROPERTIES
    ImplementsAuditLog
