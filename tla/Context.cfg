CONSTANTS
    Authors = {"host", "guest"}
    Host = "host"
    NoOne = "noone"
    Separator = "dashes"
    Site <- Thread
    MaxToggles = 2
SPECIFICATION OsSpec
CHECK_DEADLOCK FALSE
INVARIANTS ContextInv FilterExact
PROPERTIES StreamSpec StopSettles DownloadEnds
