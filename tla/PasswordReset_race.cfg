SPECIFICATION ResetSpec
CHECK_DEADLOCK FALSE
CONSTANTS
    Requests = {r1, r2, r3}
    Consumers = {c1, c2}
    Users = {u1}
    Unknown = Unknown
    Ips = {i1}
    NoIp = NoIp
    MaxPerEmail = 2
    MaxPerIp = 2
    Ttl = 2
    Window = 1
    MaxTime = 2
SYMMETRY MCSymmetry
INVARIANTS SingleUse OnlyWinnersRotate OkMeansUsable RateLimited FreshestOnly
