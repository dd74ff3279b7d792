CONSTANTS
    Clients = {"viewer", "progress"}
    NumPosts = 3
    MaxSaves = 1
    MaxMails = 1
SPECIFICATION FairSpec
CHECK_DEADLOCK FALSE
INVARIANT ProgressMailsWhole
