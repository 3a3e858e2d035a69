SPECIFICATION Spec
CONSTANTS
    a = a
    b = b
    c = c
    alice = alice
    bob = bob
    Env = {a, b, c}
    Recipient = {alice, bob}
    RecipientOf <- MCRecipientOf
    Priority = {0, 2}
    MaxTotal = 2
    MaxPerRecipient = 1
    MaxAttempts = 2
    BackoffBase = 1
    BackoffMax = 3
    Retention = 2
    Batches = {1, 2}
    MaxTime = 3
    MaxHandOuts = 2
INVARIANTS
    TypeOK
    EveryEnvelopeAccountedFor
    WithinCaps
    AttemptsSayOnlyWhether
PROPERTY
    NoOvertaking
