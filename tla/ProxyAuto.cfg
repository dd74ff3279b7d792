CONSTANTS
    Orders <- Socks5Env
    MaxReentries = 0
SPECIFICATION ChainSpec
CHECK_DEADLOCK FALSE
INVARIANT AllHops
