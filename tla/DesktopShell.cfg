SPECIFICATION FairSpec
CONSTANTS
    Versions = {0, 1, 2}
    MaxLaunches = 2
    Scenes = {"settings", "updates"}
    MaxWrites = 1
INVARIANTS
    SettingsKept
    ThemeShown
PROPERTIES
    UpdateIsOffered
\* The interface waits for the user.
CHECK_DEADLOCK FALSE
