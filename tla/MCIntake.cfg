\* Two addresses under three keys, or two uploads, two payments and two assets; two requests
\* pass per two time units, and the process restarts once.  A behaviour ends
\* where its bounds end: the clock, the assets.
SPECIFICATION Spec
CONSTANTS
    k1 = k1
    k2 = k2
    Addresses = {k1, k2}
    Forwarded = {k2}
    Senders <- SmallSenders
    Reqs = {r1, r2}
    Payments = {p1, p2}
    Assets = {a1, a2}
    None = None
    Window = 2
    Limit = 2
    Traffic <- OneKind
    MaxNow = 3
    MaxSpilled = 1
    MaxRestarts = 1
    Files <- SmallFiles
    MaxSize <- SizePerKind
SYMMETRY Interchangeable
INVARIANTS TypeOK RateBounded TemporaryFilesRemoved ProofsAccounted ProofsAsTold
CHECK_DEADLOCK FALSE
