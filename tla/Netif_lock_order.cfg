\* clone holds qlock(nif) and waits for qlock(f) of the conversation a last close holds while that close waits for qlock(nif): opens, closes and "promiscuous" by two processes suffice
CONSTANTS
    p1 = p1  p2 = p2  u1 = u1  u2 = u2
    Procs = {p1, p2}
    UserOf <- MCOneUser
    Eve = u1
    NoUser = NoUser
    None = None
    NFile = 2
    Addrs = {}
    ConnTypes = {}
    ScanArgs = {}
    Mtus = {}
    CtlFlags = {}
    MinMtu = 60
    MaxMtu = 1514
    OModes = {3}
    WstatModes = {}
    Bound = 2
    RefBound = 1
    MultiBound = 1
SPECIFICATION Spec
PROPERTY CallsReturn
CHECK_DEADLOCK FALSE
