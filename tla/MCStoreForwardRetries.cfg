SPECIFICATION Spec
CONSTANTS
    a = a
    b = b
    c = c
    alice = alice
    bob = bob
    Env = {a, b, c}
    Recipient = {alice, bob}
    RecipientOf <- MCRecipientOf
    Priority = {0, 2}
    MaxTotal = 3
    MaxPerRecipient = 2
    MaxAttempts = 2
    BackoffBase = 1
    BackoffMax = 3
    Retention = 4
    Batches = {1, 2}
    MaxTime = 6
    MaxHandOuts = 3
PROPERTY
    GcDropsExhausted
