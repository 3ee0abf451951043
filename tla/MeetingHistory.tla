--------------------------- MODULE MeetingHistory ---------------------------
(***************************************************************************)
(* The list of past meetings: GET /meetings with its cursor, the infinite  *)
(* query of useMeetingsList(), and the views that read it, RecentMeetings  *)
(* on the home screen and HistoryView with its search box and filters.     *)
(*                                                                         *)
(* Meetings are numbered in the order of started_at, so the newest has the *)
(* largest number.  A query key is a filter combination; each key has its  *)
(* own pages.  React Query refetches the loaded pages one after the other, *)
(* each with the cursor of the page before it, and replaces them together; *)
(* [Load more] appends a page and abandons a refetch in flight.            *)
(***************************************************************************)
EXTENDS Integers, Sequences, FiniteSets

CONSTANTS
    Meetings,     \* numbers of the meetings, 1..n
    AtLaunch,     \* how many of them exist at launch
    Tagged,       \* those created with the tag the filters may ask for
    Editable,     \* those whose tags the user edits
    PageLimit,    \* page size of GET /meetings
    Drafts,       \* texts the user may type, "" among them
    Topics        \* what a behaviour is about: "tags" are edited, a "search" is
                  \* typed, or "both"

ASSUME PagingAssumption ==
    /\ Meetings \subseteq Nat \ {0} /\ AtLaunch \in Nat /\ PageLimit \in Nat \ {0}
    /\ {Tagged, Editable} \subseteq SUBSET Meetings

Blank == ""   \* an empty search box
ASSUME DraftsAssumption == Blank \in Drafts /\ Topics \subseteq {"tags", "search", "both"}

VARIABLES
    topic,      \* one of Topics
    newest,     \* the server's newest meeting
    tagged,     \* the meetings that carry the tag
    list,       \* per key: pages, stale, error of the infinite query
    fetch,      \* per key: the fetch in flight
    view,       \* ui-store: view
    segment,    \* ui-store: pendingSegmentStartMs is set
    focus,      \* ui-store: searchFocusPending
    filters,    \* HistoryView: filters.tags
    query,      \* HistoryView: the committed query
    draft,      \* SearchInput: draft
    submitted,  \* SearchInput: lastSubmittedRef
    syncing,    \* the effect on a new value has not run yet
    hits        \* useSearch() of the current query and filters

uiVars      == <<view, segment, focus>>
searchVars  == <<query, draft, submitted, syncing, hits>>
serverVars  == <<topic, newest, tagged>>
historyVars == <<serverVars, list, fetch, uiVars, filters, searchVars>>

Keys  == {"all", "tagged"}
(* "moved" is a history of what is loaded or read: the meetings that       *)
(* entered or left the filter since the first of its pages was read.       *)
Idle  == [kind |-> "idle", pages |-> <<>>, left |-> 0, moved |-> {}]
Empty == [pages |-> <<>>, stale |-> TRUE, error |-> FALSE, moved |-> {}]

-----------------------------------------------------------------------------
(* GET /meetings: the rows after the cursor, newest first, one more than   *)
(* the limit to see whether there are others.                              *)
Matching(key) == {m \in Meetings : m <= newest /\ (key = "tagged" => m \in tagged)}

Newer(rows, m) == {n \in rows : n > m}
Oldest(rows)   == CHOOSE m \in rows : \A n \in rows : m <= n
Newest(rows)   == CHOOSE m \in rows : \A n \in rows : m >= n

FirstPage(rows) == {m \in rows : Cardinality(Newer(rows, m)) < PageLimit}

(* Mutant: the cursor is the row that shows that there are others.         *)
PageFromExtraRow(key, cursor) ==
    LET rows  == {m \in Matching(key) : cursor = 0 \/ m < cursor}
        items == FirstPage(rows)
    IN  [items |-> items,
         next  |-> IF rows = items THEN 0 ELSE Newest(rows \ items)]

Page(key, cursor) ==
    LET rows  == {m \in Matching(key) : cursor = 0 \/ m < cursor}
        items == FirstPage(rows)
    IN  [items |-> items,
         next  |-> IF rows = items THEN 0 ELSE Oldest(items)]

(* What a list of pages shows.                                             *)
Shown(pages) == UNION {pages[i].items : i \in DOMAIN pages}

(* getNextPageParam; 0 is null.                                            *)
NextCursor(pages) == IF pages = <<>> THEN 0 ELSE pages[Len(pages)].next

HasNextPage(key) == NextCursor(list[key].pages) # 0

(* filters.tags is absent, an empty array or a selection; the key folds    *)
(* the first two.                                                          *)
NormaliseFilters(f) == IF f = "selected" THEN "tagged" ELSE "all"
ToggleTag(f)        == IF f = "selected" THEN "absent" ELSE "selected"
ClearChip(f)        == IF f = "selected" THEN "empty" ELSE f

(* The key a view observes: RecentMeetings the unfiltered one.             *)
Observed(v, f) ==
    CASE v = "recording" -> {"all"}
      [] v = "history"   -> {NormaliseFilters(f)}
      [] v = "detail"    -> {}

-----------------------------------------------------------------------------
(* A refetch of every page that is loaded, from the top.                   *)
Refetch(key) ==
    [kind |-> "refetch", pages |-> <<>>, moved |-> {},
     left |-> IF list[key].pages = <<>> THEN 1 ELSE Len(list[key].pages)]

(* A view mounts, or the mounted one turns to another key: the key is      *)
(* fetched if it is stale and not being fetched already.                   *)
Observe(v, f) ==
    fetch' = [k \in Keys |->
        IF /\ k \in Observed(v, f)
           /\ v # view \/ k \notin Observed(view, filters)
           /\ list[k].stale /\ fetch[k] = Idle
        THEN Refetch(k) ELSE fetch[k]]

HistoryInit ==
    /\ topic \in Topics
    /\ newest = AtLaunch /\ tagged = Tagged
    /\ list = [k \in Keys |-> Empty]
    /\ fetch = [k \in Keys |-> IF k = "all" THEN Refetch(k) ELSE Idle]
    /\ view = "recording" /\ segment = FALSE /\ focus = FALSE
    /\ filters = "absent" /\ query = Blank /\ draft = Blank /\ submitted = Blank
    /\ syncing = FALSE /\ hits = "disabled"

-----------------------------------------------------------------------------
(* POST /meetings and PATCH /meetings/{id}, as the server carries them     *)
(* out; their success, the end of a session and a deleted archive all      *)
(* invalidate ["meetings"].                                                *)
CreateMeeting ==
    /\ view = "recording" /\ newest + 1 \in Meetings
    /\ newest' = newest + 1
    /\ UNCHANGED <<topic, tagged, list, fetch, uiVars, filters, searchVars>>

Touch(r, m) == IF r.pages = <<>> THEN r ELSE [r EXCEPT !.moved = @ \cup {m}]

(* The tag is added to a meeting of any age, or taken away; the PATCH may   *)
(* land after the user has left the detail view.  The end of a session     *)
(* does the same to a filter by duration.                                  *)
Retag(m) ==
    /\ topic # "search" /\ m <= newest
    /\ tagged' = IF m \in tagged THEN tagged \ {m} ELSE tagged \cup {m}
    /\ list' = [list EXCEPT !["tagged"] = Touch(@, m)]
    /\ fetch' = [fetch EXCEPT !["tagged"] = Touch(@, m)]
    /\ UNCHANGED <<topic, newest, uiVars, filters, searchVars>>

InvalidateMeetings ==
    /\ list' = [k \in Keys |-> [list[k] EXCEPT !.stale = TRUE]]
    /\ fetch' = [k \in Keys |-> IF k \in Observed(view, filters) THEN Refetch(k)
                                ELSE fetch[k]]
    /\ UNCHANGED <<serverVars, uiVars, filters, searchVars>>

(* A page arrives, read from the server as it is; after the last one, or   *)
(* when there is no next page, the pages become the data.                  *)
PageArrives(key) ==
    LET f     == fetch[key]
        pages == Append(f.pages, Page(key, NextCursor(f.pages)))
    IN  /\ f # Idle
        /\ IF f.left = 1 \/ NextCursor(pages) = 0
           THEN /\ list' = [list EXCEPT ![key] =
                               [pages |-> pages, stale |-> FALSE, error |-> FALSE,
                                moved |-> f.moved]]
                /\ fetch' = [fetch EXCEPT ![key] = Idle]
           ELSE /\ fetch' = [fetch EXCEPT ![key].pages = pages, ![key].left = @ - 1]
                /\ UNCHANGED list
        /\ UNCHANGED <<serverVars, uiVars, filters, searchVars>>

FetchFails(key) ==
    /\ fetch[key] # Idle
    /\ fetch' = [fetch EXCEPT ![key] = Idle]
    /\ list' = [list EXCEPT ![key].error = TRUE]
    /\ UNCHANGED <<serverVars, uiVars, filters, searchVars>>

Ages(key) ==
    /\ ~list[key].stale
    /\ list' = [list EXCEPT ![key].stale = TRUE]
    /\ UNCHANGED <<serverVars, fetch, uiVars, filters, searchVars>>

(* [Load more], disabled while a next page is being fetched.               *)
LoadMore ==
    LET key == NormaliseFilters(filters)
    IN  /\ view = "history" /\ query = Blank
        /\ ~list[key].error /\ HasNextPage(key) /\ fetch[key].kind # "more"
        /\ fetch' = [fetch EXCEPT ![key] =
                        [kind |-> "more", pages |-> list[key].pages, left |-> 1,
                         moved |-> list[key].moved]]
        /\ UNCHANGED <<serverVars, list, uiVars, filters, searchVars>>

(* [Retry] of the error view, in the history or among the recent meetings. *)
RetryList ==
    \E key \in Observed(view, filters) :
        /\ list[key].error /\ fetch[key] = Idle /\ (view = "history" => query = Blank)
        /\ fetch' = [fetch EXCEPT ![key] = Refetch(key)]
        /\ UNCHANGED <<serverVars, list, uiVars, filters, searchVars>>

-----------------------------------------------------------------------------
(* ui-store.  HistoryView loses its filters and its query when it          *)
(* unmounts.                                                               *)
ShowView(v) ==
    /\ view' = v
    /\ Observe(v, IF v = view THEN filters ELSE "absent")
    /\ IF v = view THEN UNCHANGED <<filters, searchVars>>
       ELSE /\ filters' = "absent" /\ query' = Blank /\ draft' = Blank
            /\ submitted' = Blank /\ syncing' = FALSE /\ hits' = "disabled"
    /\ UNCHANGED <<serverVars, list>>

GoRecording == view # "recording" /\ ShowView("recording") /\ segment' = FALSE
               /\ UNCHANGED focus

GoHistory == ShowView("history") /\ segment' = FALSE /\ UNCHANGED focus

(* A row of a list opens its meeting; a hit of a search asks the detail    *)
(* view to scroll to its segment too.                                      *)
OpenRow ==
    /\ \E key \in Observed(view, filters) : Shown(list[key].pages) # {}
    /\ query = Blank
    /\ segment' = FALSE
    /\ ShowView("detail")
    /\ UNCHANGED focus

OpenHit ==
    /\ hits = "found"
    /\ segment' = TRUE
    /\ ShowView("detail")
    /\ UNCHANGED focus

ConsumePendingSegment ==
    /\ view = "detail" /\ segment
    /\ segment' = FALSE
    /\ UNCHANGED <<serverVars, list, fetch, view, focus, filters, searchVars>>

RequestSearchFocus ==
    /\ ShowView("history")
    /\ focus' = TRUE
    /\ UNCHANGED segment

ConsumeSearchFocus ==
    /\ view = "history" /\ focus
    /\ focus' = FALSE
    /\ UNCHANGED <<serverVars, list, fetch, view, segment, filters, searchVars>>

-----------------------------------------------------------------------------
(* useSearch(): a new key is fetched or found in the cache.                *)
Search(q) == hits' \in IF q = Blank THEN {"disabled"} ELSE {"pending", "found"}

ChangeFilters ==
    /\ view = "history"
    /\ filters' \in {ToggleTag(filters), ClearChip(filters), "absent"} \ {filters}
    /\ Observe(view, filters')
    /\ IF NormaliseFilters(filters') = NormaliseFilters(filters) THEN UNCHANGED hits
       ELSE Search(query)
    /\ UNCHANGED <<serverVars, list, uiVars, query, draft, submitted, syncing>>

SearchAnswers ==
    /\ hits = "pending"
    /\ hits' \in {"found", "failed"}
    /\ UNCHANGED <<serverVars, list, fetch, uiVars, filters, query, draft, submitted, syncing>>

RetrySearch ==
    /\ hits = "failed"
    /\ hits' = "pending"
    /\ UNCHANGED <<serverVars, list, fetch, uiVars, filters, query, draft, submitted, syncing>>

(* onSubmit(): the parent takes the value; the effect that copies it back  *)
(* runs after the next paint.                                              *)
Submit(text) ==
    /\ submitted' = text
    /\ query' = text
    /\ syncing' = (syncing \/ text # query)
    /\ IF text = query THEN UNCHANGED hits ELSE Search(text)
    /\ UNCHANGED <<serverVars, list, fetch, uiVars, filters>>

(* Typing, the clear button and Escape; an emptied box is submitted at     *)
(* once.                                                                   *)
Type(text) ==
    /\ topic # "tags" /\ view = "history" /\ text # draft
    /\ draft' = text
    /\ IF text = Blank /\ submitted # Blank THEN Submit(Blank)
       ELSE UNCHANGED <<serverVars, list, fetch, uiVars, filters, query, submitted, syncing, hits>>

Enter ==
    /\ view = "history"
    /\ Submit(draft)
    /\ UNCHANGED draft

(* Mutant: the timer is not armed while the box is not empty in the parent.*)
DebounceFirst ==
    /\ view = "history" /\ draft # submitted /\ submitted = Blank
    /\ Submit(draft)
    /\ UNCHANGED draft

(* 300 ms without a keystroke.                                             *)
Debounce ==
    /\ view = "history" /\ draft # submitted
    /\ Submit(draft)
    /\ UNCHANGED draft

SyncDraft ==
    /\ syncing
    /\ syncing' = FALSE
    /\ draft' = query
    /\ submitted' = query
    /\ UNCHANGED <<serverVars, list, fetch, uiVars, filters, query, hits>>

HistoryNext ==
    \/ CreateMeeting \/ InvalidateMeetings
    \/ \E m \in Editable : Retag(m)
    \/ \E key \in Keys : PageArrives(key) \/ FetchFails(key) \/ Ages(key)
    \/ LoadMore \/ RetryList
    \/ GoRecording \/ GoHistory \/ OpenRow \/ OpenHit \/ ConsumePendingSegment
    \/ RequestSearchFocus \/ ConsumeSearchFocus
    \/ ChangeFilters \/ SearchAnswers \/ RetrySearch
    \/ \E text \in Drafts : Type(text)
    \/ Enter \/ Debounce \/ SyncDraft

HistorySpec == HistoryInit /\ [][HistoryNext]_historyVars

(* The user pauses now and then for as long as the timer needs; effects    *)
(* run.                                                                    *)
FairHistorySpec == HistorySpec /\ SF_historyVars(Debounce) /\ WF_historyVars(SyncDraft)

-----------------------------------------------------------------------------
Pages   == [items : SUBSET Meetings, next : Meetings \cup {0}]
Lists   == [pages : Seq(Pages), stale : BOOLEAN, error : BOOLEAN, moved : SUBSET Meetings]
Fetches == [kind : {"refetch", "more"}, pages : Seq(Pages), left : Nat \ {0},
            moved : SUBSET Meetings]

HistoryTypeOK ==
    /\ topic \in Topics /\ newest \in Nat /\ tagged \subseteq Meetings
    /\ list \in [Keys -> Lists]
    /\ fetch \in [Keys -> {Idle} \cup Fetches]
    /\ view \in {"recording", "history", "detail"}
    /\ {segment, focus, syncing} \subseteq BOOLEAN
    /\ filters \in {"absent", "empty", "selected"}
    /\ {query, draft, submitted} \subseteq Drafts
    /\ hits \in {"disabled", "pending", "found", "failed"}

(* The list is a window of the server's: newest first, nothing twice,      *)
(* nothing skipped between its first and its last meeting, nothing that    *)
(* does not belong, and when it says that there is no more, nothing older  *)
(* is missing - whatever meetings were created between the reads of its    *)
(* pages and whatever refetch was abandoned for another page.  Of a        *)
(* filtered list that holds but for the meetings that entered or left the  *)
(* filter since the first of its pages was read.                           *)
ListHasNoGaps ==
    \A key \in Keys :
        LET pages   == list[key].pages
            shown   == Shown(pages)
            excused == IF key = "all" THEN {} ELSE list[key].moved
        IN  /\ \A i, j \in DOMAIN pages : i < j =>
                   \A m \in pages[i].items, n \in pages[j].items : n < m
            /\ shown \ excused \subseteq Matching(key)
            /\ \A m \in Matching(key) \ excused :
                   /\ \E newer \in shown : m < newer
                   /\ (\E older \in shown : older < m) \/ ~HasNextPage(key)
                   => m \in shown

(* What stands in the search box is what is searched, once the user        *)
(* pauses: no draft is left behind by the debounce, the emptied box or     *)
(* the copy of the parent's value.                                         *)
DraftIsSearched == draft # query ~> draft = query
=============================================================================
