CONSTANTS
    RetryLimit = 1
    Rcpts = 2
    ServerTLS = TRUE
    Split = TRUE
SPECIFICATION FairSpec
CHECK_DEADLOCK FALSE
INVARIANTS SessionInv DuplicatesNeedLoss
PROPERTIES DeliverySpec Reported
