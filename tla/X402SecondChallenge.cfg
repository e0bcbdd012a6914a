\* The repeated request may be asked another price than the first.
SPECIFICATION Spec
CONSTANTS
    Payments = {p1, p2}
    Offers = {1, 2}
    MaxCost = 1
    Timeouts = {2}
    Grace = 1
    Slack = 1
    Concurrent = FALSE
    MaxTime = 7
    None = None
SYMMETRY Symmetry
INVARIANT
    SignedWithinMaximum
