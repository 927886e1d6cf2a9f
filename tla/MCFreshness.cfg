SPECIFICATION Spec
CONSTANTS
    Validities = {1, 13}
    TTL = 4
    MaxAge = 2
    Period = 2
    Delay = 1
    Horizon = 14
    Never = Never
INVARIANTS TypeOK PublishedUnexpired NeverWithout RevocationHeeded ExpiryBounds
