SPECIFICATION Spec
CONSTANTS
    k1 = k1
    k2 = k2
    peer1 = peer1
    peer2 = peer2
    Caller = {k1, k2}
    Peer = {peer1, peer2}
    Self = self
    Dialable = {peer1}
    None = None
    MaxConns = 3
    Scenarios <- Impatient
INVARIANTS NoLockCycle
CHECK_DEADLOCK FALSE
