SPECIFICATION Spec
CONSTANTS
    None = None
    Null = Null
    x = x
    y = y
    Empty = Empty
    Names = {x, y}
    MaxCents = 1000
    MaxVersion = 3
    MaxSent = 3
    Requests <- SomeRequests
INVARIANTS KeyIdentifiesRequest RetryIsRecognised
PROPERTY EffectIsAsWritten
CHECK_DEADLOCK FALSE
