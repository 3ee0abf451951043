SPECIFICATION FairSpec
CONSTANTS
    NoApp = NoApp
    Apps = {zoom, teams}
    DebouncePolls = 2
    MaxMoves = 5
    MaxMonitors = 1
    DeliveryBeatsPoll = TRUE
INVARIANTS
    PromptIsDebounced
    OnePromptPerCall
    BannerTracksMonitor
    SilencedAppNotShown
PROPERTIES
    BannerGoesAway
\* The call and the user may do nothing more.
CHECK_DEADLOCK FALSE
