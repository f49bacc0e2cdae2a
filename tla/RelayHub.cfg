\* Two requests, two polls side by side
CONSTANTS
    Requests = {r1, r2}
    Polls = {p1, p2}
    None = none
SPECIFICATION FairSpec
INVARIANT NoneSlipsThrough
PROPERTY ImplementsDelivery
PROPERTY EndsSomehow
