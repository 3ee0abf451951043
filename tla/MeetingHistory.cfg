SPECIFICATION FairHistorySpec
CONSTANTS
    Meetings = {1, 2, 3}
    AtLaunch = 2
    Tagged = {1, 3}
    Editable = {2}
    PageLimit = 1
    Drafts = {"", "a", "ab"}
    Topics = {"tags", "search"}
INVARIANTS
    ListHasNoGaps
PROPERTIES
    DraftIsSearched
\* The interface waits for the user.
CHECK_DEADLOCK FALSE
