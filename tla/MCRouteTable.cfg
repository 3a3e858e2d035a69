SPECIFICATION Spec
CONSTANTS
    us = us
    honest = honest
    rogue = rogue
    Node = {us, honest, rogue}
    Self = us
    Rogue = {rogue}
    HopCounts = {0, 1, 3}
    MaxHopCount = 3
    Seqs = {1, 2, 4, 6, 7}
    SeqMax = 7
    MaxSeqJump = 2
    MaxIssued = 4
INVARIANTS
    TypeOK
    RoutesAuthentic
    BestOfferWins
PROPERTY
    NeverBackwards
