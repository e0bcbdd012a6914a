\* One payment at a time, one price, one timeout: only the signature may be late.
SPECIFICATION Spec
CONSTANTS
    Payments = {p1, p2}
    Offers = {1}
    MaxCost = 1
    Timeouts = {2}
    Grace = 1
    Slack = 1
    Concurrent = FALSE
    MaxTime = 7
    None = None
SYMMETRY Symmetry
INVARIANT
    ExpiredIsUnsettled
