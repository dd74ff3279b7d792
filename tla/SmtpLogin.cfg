CONSTANTS
    RetryLimit = 1
    Rcpts = 1
    ServerTLS = TRUE
    Split = FALSE
SPECIFICATION Spec
CHECK_DEADLOCK FALSE
INVARIANT LoginEncrypted
