\* two processes of the host owner on an interface of two conversations: clone, open, close, every ctl command and wstat (which can take every permission away); the lock-order inversion of clone and netifclose is a real deadlock (run netif_lock_order), so deadlock is not checked here
CONSTANTS
    p1 = p1  p2 = p2  u1 = u1  u2 = u2
    Procs = {p1, p2}
    UserOf <- MCOneUser
    Eve = u1
    NoUser = NoUser
    None = None
    NFile = 2
    Addrs = {a1}
    ConnTypes <- MCAllType
    ScanArgs = {0}
    Mtus = {1500}
    CtlFlags = {"vlan"}
    MinMtu = 60
    MaxMtu = 1514
    OModes = {3}
    WstatModes = {0}
    Bound = 2
    RefBound = 1
    MultiBound = 2
SPECIFICATION Spec
INVARIANT TypeOK
INVARIANT InUseCovers
INVARIANT InterfaceModes
INVARIANT MulticastFilter
CHECK_DEADLOCK FALSE
VIEW Observed
SYMMETRY MCSymmetry
