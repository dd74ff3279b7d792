CONSTANTS
    List <- ThreePages
SPECIFICATION OsSpec
CHECK_DEADLOCK FALSE
INVARIANT ListInv
PROPERTIES StreamSpec StopSettles CrawlEnds
