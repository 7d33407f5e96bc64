CONSTANTS
    ARP_TABLE_LEN = 3
    IPs = {r1, r2}
    ZeroIP = zeroIP
    MACs = {m1, m2}
    ZeroMAC = zeroMAC
    NoMAC = noMAC
    LocalIPs = {me, me2}
    Routers = {r1, r2}
    NoFrame = noFrame
SPECIFICATION Spec
INVARIANTS
    CopiesAgree
PROPERTIES
    RouterKept
    CacheSpec
CHECK_DEADLOCK TRUE
