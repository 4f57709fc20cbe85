SPECIFICATION Spec
CONSTANT
    near = near
    far = far
    twin = twin
    Domains <- MCDomains
    Zones = {near, far, twin}
    NameOf <- MCNameOf
    Statuses = {"moved", "deleted"}
    NoZone = NoZone
    NoDomain = NoDomain
    Expiration = 2
    MaxChanges = 2
    MaxFailures = 1
INVARIANTS
    TypeOK
PROPERTIES
    AnswerIsRecent
    RetriesAfterDeadEnd
    RightAtLast
