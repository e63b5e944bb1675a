SPECIFICATION Spec
CONSTANTS
    r1 = r1
    r2 = r2
    r3 = r3
    c1 = c1
    c2 = c2
    s1 = s1
    s2 = s2
    Requests = {r1, r2}
    Keys = {c1, c2}
    Sessions = {s1, s2}
    NoSession = s1
    KindOf <- MCKindOf
    DefaultMode = "approve_risky"
    ApprovalTTL = 1
    TrustTTL = 2
    MaxTime = 2
SYMMETRY Symmetry
INVARIANTS
    TypeOK
    AtMostOnce
    AuditTrail
    EffectOnRecord
PROPERTIES
    EffectAuthorised
    PendingKept
    ImplementsGate
