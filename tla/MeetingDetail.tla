--------------------------- MODULE MeetingDetail ---------------------------
(***************************************************************************)
(* One meeting as the desktop app shows it: the cache entry of             *)
(* ["meeting", id], the requests that read and write it, and the two views *)
(* that render it, MeetingDetailView and SessionEndedView.                 *)
(*                                                                         *)
(* The cache is React Query's.  Of the library the model keeps what the    *)
(* hooks rely on: one GET of the key at a time; an invalidation marks the  *)
(* entry stale and, while a view observes it, abandons the GET in flight   *)
(* and sends another; setQueryData replaces the data, counts as fresh and  *)
(* lets a GET in flight go on; equal data does not render a view again.    *)
(*                                                                         *)
(* The server's row changes under the app: the session is finalized, the   *)
(* archive and the summary are produced by workers.  A request is applied  *)
(* by the server in one step and answered in another, and any of them may  *)
(* fail before or after it is applied.                                     *)
(***************************************************************************)
EXTENDS Integers, FiniteSets

CONSTANTS
    Items,         \* action items of a summary
    MaxWrites,     \* bound: writing requests of a behaviour
    PatientUser    \* the user does not leave a view or rename a speaker while
                   \* a write is pending, nor write while a rename is

ASSUME DetailAssumption == MaxWrites \in Nat /\ PatientUser \in BOOLEAN

VARIABLES
    row,       \* the server's MeetingDetail
    encoded,   \* the archive task has stored a key
    recent,    \* less than AUDIO_POLL_BUDGET_MS has passed since endedAt
    cache,     \* data of the query ["meeting", id], or NoRow
    stale,     \* the query is invalidated or older than its staleTime
    error,     \* the query's last GET failed
    fetch,     \* GET in flight: Idle, Sent, or the row it will answer with
    writes,    \* mutations in flight
    made,      \* mutations so far
    view,      \* the mounted view
    audio,     \* MeetingDetailView: audioState as last rendered
    poll,      \* refetchInterval is set
    saw,       \* MeetingDetailView: sawAudioKeyRef
    gaveUp,    \* MeetingDetailView: encodeFailed
    stuck      \* MeetingDetailView: summaryStuck

serverVars == <<row, encoded, recent>>
queryVars  == <<cache, stale, error, fetch>>
viewVars   == <<view, audio, poll, saw, gaveUp, stuck>>
vars       == <<serverVars, queryVars, writes, made, viewVars>>

NoRow == [status |-> "none", key |-> FALSE, summary |-> "none", gen |-> 0, done |-> {}]
Idle  == [at |-> "idle"]
Sent  == [at |-> "sent"]

Kinds    == {"tick", "edit", "rename", "regenerate", "delete"}
Statuses == {"recording", "completed", "failed"}
Working  == {"pending", "processing"}
Finished == {"completed", "too_short", "failed"}

(* summary = "pending" is the absence of a meeting_summaries row; gen is   *)
(* the number of summaries stored so far, whose items replace each other.  *)
Rows == [status : Statuses, key : BOOLEAN, summary : Working \cup Finished,
         gen : Nat, done : SUBSET Items]

(* A request that writes; gen is the summary the user saw, data a snapshot *)
(* for a rollback or the reply.                                            *)
Writes == [id : Nat, kind : Kinds, at : {"sent", "applied", "refused"},
           item : Items \cup {{}}, value : BOOLEAN, gen : Nat,
           data : Rows \cup {NoRow}]

-----------------------------------------------------------------------------
(* The state of the audio block.                                           *)
AudioState(c, seen, failed) ==
    IF c = NoRow THEN "loading"
    ELSE IF c.status = "recording" THEN "hidden"
    ELSE IF c.status = "failed" THEN "unavailable"
    ELSE IF c.key THEN "ready"
    ELSE IF seen THEN "deleted"
    ELSE IF failed THEN "failed-encode"
    ELSE IF recent THEN "pending" ELSE "no-archive"

(* The card of MeetingSummary.                                             *)
SummaryCard(c) ==
    IF c.summary \in Working THEN "loading"
    ELSE IF stuck /\ c.summary = "pending" THEN "failed"
    ELSE c.summary

IsPendingSummary(c, giveUp) == c.summary \in Working /\ ~giveUp

(* Mutant: only the archive is polled for.                                 *)
PollAudio(sound, c, giveUp) == sound = "pending"

ShouldPoll(sound, c, giveUp) == sound = "pending" \/ IsPendingSummary(c, giveUp)

(* MeetingDetailView renders when the data or its own state changed, and   *)
(* its effects set the polling.                                            *)
Render(c, failed, giveUp) ==
    LET seen == saw \/ c.key
    IN  /\ saw' = seen
        /\ audio' = AudioState(c, seen, failed)
        /\ poll' = ShouldPoll(audio', c, giveUp)
        /\ gaveUp' = failed
        /\ stuck' = giveUp
        /\ UNCHANGED view

Rendered(force) ==
    IF view = "detail" /\ (force \/ cache' # cache \/ error' # error)
    THEN Render(cache', gaveUp, stuck)
    ELSE UNCHANGED viewVars

SetQueryData(data) == cache' = data /\ error' = FALSE

Invalidate == stale' = TRUE /\ fetch' = IF view # "none" THEN Sent ELSE fetch

-----------------------------------------------------------------------------
Init ==
    /\ row \in [status : {"recording", "completed"}, key : {FALSE},
                summary : {"pending"}, gen : {0}, done : {{}}]
    /\ encoded = FALSE /\ recent = (row.status = "completed")
    /\ cache = NoRow /\ stale = FALSE /\ error = FALSE /\ fetch = Idle
    /\ writes = {} /\ made = 0
    /\ view = "none" /\ audio = "loading" /\ poll = FALSE /\ saw = FALSE
    /\ gaveUp = FALSE /\ stuck = FALSE

-----------------------------------------------------------------------------
(* The server and its workers.                                             *)

Finalize ==
    /\ row.status = "recording"
    /\ \E s \in {"completed", "failed"} : row' = [row EXCEPT !.status = s]
    /\ recent' = TRUE
    /\ UNCHANGED <<encoded, queryVars, writes, made, viewVars>>

Encode ==
    /\ row.status = "completed" /\ ~encoded
    /\ row' = [row EXCEPT !.key = TRUE]
    /\ encoded' = TRUE
    /\ UNCHANGED <<recent, queryVars, writes, made, viewVars>>

Summarise ==
    /\ row.status # "recording" /\ row.summary \in Working
    /\ \/ row' = [row EXCEPT !.summary = "completed", !.gen = @ + 1, !.done = {}]
       \/ \E s \in {"too_short", "failed"} : row' = [row EXCEPT !.summary = s]
    /\ UNCHANGED <<encoded, recent, queryVars, writes, made, viewVars>>

TimePasses ==
    /\ recent /\ row.status # "recording"
    /\ recent' = FALSE
    /\ UNCHANGED <<row, encoded, queryVars, writes, made, viewVars>>

(* The server applies a write: an item of a summary that is gone is 404, a *)
(* second summarise within the minute 429.  The reply of a regeneration or *)
(* a rename is the whole meeting.                                          *)
Apply(w) ==
    /\ w \in writes /\ w.at = "sent"
    /\ row' = CASE w.kind = "tick" /\ w.gen = row.gen ->
                       [row EXCEPT !.done = IF w.value THEN @ \cup {w.item}
                                            ELSE @ \ {w.item}]
                [] w.kind = "regenerate" -> [row EXCEPT !.summary = "processing"]
                [] w.kind = "delete"     -> [row EXCEPT !.key = FALSE]
                [] OTHER -> row
    /\ writes' = (writes \ {w}) \cup
                 {[w EXCEPT !.at = IF w.kind = "tick" /\ w.gen # row.gen
                                   THEN "refused" ELSE "applied",
                            !.data = IF w.kind \in {"regenerate", "rename"}
                                     THEN row' ELSE @]}
    /\ UNCHANGED <<encoded, recent, queryVars, made, viewVars>>

Refuse(w) ==
    /\ w \in writes /\ w.at = "sent"
    /\ writes' = (writes \ {w}) \cup {[w EXCEPT !.at = "refused"]}
    /\ UNCHANGED <<serverVars, queryVars, made, viewVars>>

-----------------------------------------------------------------------------
(* Reading: useMeetingDetail().                                            *)

(* A view mounts on what the cache holds; the GET of the mount is sent if  *)
(* there is nothing or the entry is stale.  The refs and flags are reset   *)
(* by an effect, after the first render.                                   *)
Mount(v) ==
    /\ view = "none"
    /\ view' = v
    /\ fetch' = IF fetch = Idle /\ (cache = NoRow \/ stale) THEN Sent ELSE fetch
    /\ saw' = FALSE /\ gaveUp' = FALSE /\ stuck' = FALSE
    /\ audio' = IF v = "detail"
                THEN AudioState(cache, cache.key, FALSE)
                ELSE "loading"
    /\ poll' = (v = "ended" \/ ShouldPoll(audio', cache, FALSE))
    /\ UNCHANGED <<serverVars, cache, stale, error, writes, made>>

(* Back to the list, or on from the ended session.                         *)
Leave ==
    /\ view # "none"
    /\ PatientUser => writes = {}
    /\ view' = "none" /\ audio' = "loading" /\ poll' = FALSE
    /\ saw' = FALSE /\ gaveUp' = FALSE /\ stuck' = FALSE
    /\ UNCHANGED <<serverVars, queryVars, writes, made>>

(* staleTime elapses.                                                      *)
Ages ==
    /\ cache # NoRow /\ ~stale
    /\ stale' = TRUE
    /\ UNCHANGED <<serverVars, cache, error, fetch, writes, made, viewVars>>

(* The interval elapses; or the user asks for another try.                 *)
Refetch ==
    /\ view # "none" /\ fetch = Idle
    /\ poll \/ (view = "detail" /\ error)
    /\ fetch' = Sent
    /\ UNCHANGED <<serverVars, cache, stale, error, writes, made, viewVars>>

ServerReads ==
    /\ fetch = Sent
    /\ fetch' = [at |-> "read", data |-> row]
    /\ UNCHANGED <<serverVars, cache, stale, error, writes, made, viewVars>>

FetchSucceeds ==
    /\ fetch.at = "read"
    /\ SetQueryData(fetch.data)
    /\ stale' = FALSE
    /\ fetch' = Idle
    /\ Rendered(FALSE)
    /\ UNCHANGED <<serverVars, writes, made>>

(* After the one retry, if the error allows one.                           *)
FetchFails ==
    /\ fetch # Idle
    /\ error' = TRUE
    /\ fetch' = Idle
    /\ UNCHANGED <<cache, stale>>
    /\ Rendered(FALSE)
    /\ UNCHANGED <<serverVars, writes, made>>

-----------------------------------------------------------------------------
(* Writing.                                                                *)

Pending(kind) == \E w \in writes : w.kind = kind

Write(kind, item, value, data) ==
    /\ made < MaxWrites
    /\ PatientUser => ~Pending("rename") /\ (kind = "rename" => writes = {})
    /\ made' = made + 1
    /\ writes' = writes \cup
        {[id |-> made, kind |-> kind, at |-> "sent", item |-> item, value |-> value,
          gen |-> cache.gen, data |-> data]}

(* onMutate of usePatchActionItem: the cached item is changed at once.     *)
OptimisticTick(item, value) ==
    [cache EXCEPT !.done = IF value THEN @ \cup {item} ELSE @ \ {item}]

(* A checkbox or the editor of a row: the GET in flight is cancelled and   *)
(* the snapshot kept for a rollback.                                       *)
Tick(item) ==
    /\ view # "none" /\ SummaryCard(cache) = "completed"
    /\ LET value == item \notin cache.done
       IN  /\ Write("tick", item, value, cache)
           /\ SetQueryData(OptimisticTick(item, value))
    /\ stale' = FALSE
    /\ fetch' = Idle
    /\ Rendered(TRUE)
    /\ UNCHANGED serverVars

(* Retry of the failed card, or Regenerate and its confirmation; disabled  *)
(* while one is pending.                                                   *)
Regenerate ==
    /\ view # "none" /\ SummaryCard(cache) \in {"completed", "failed"}
    /\ ~Pending("regenerate")
    /\ Write("regenerate", {}, FALSE, NoRow)
    /\ UNCHANGED <<cache, stale, error, fetch>>
    /\ Rendered(TRUE)
    /\ UNCHANGED serverVars

(* The player is ready: [Delete audio], behind its dialog, whose button is *)
(* disabled while the request is pending.                                  *)
DeleteAudio ==
    /\ view = "detail" /\ audio = "ready" /\ ~Pending("delete")
    /\ Write("delete", {}, FALSE, NoRow)
    /\ UNCHANGED <<serverVars, queryVars, viewVars>>

(* A commit of EditableTitle or of EditableTagList.                        *)
EditHeader ==
    /\ view = "detail" /\ cache # NoRow
    /\ Write("edit", {}, FALSE, NoRow)
    /\ UNCHANGED <<cache, stale, error, fetch>>
    /\ Rendered(TRUE)
    /\ UNCHANGED serverVars

(* A commit in ParticipantsSection, whose mutation is not a hook of the    *)
(* view.                                                                   *)
RenameSpeaker ==
    /\ view = "detail" /\ cache # NoRow
    /\ Write("rename", {}, FALSE, NoRow)
    /\ UNCHANGED <<serverVars, queryVars, viewVars>>

(* Mutant: onSuccess in place of onSettled.                                *)
PatchOnSuccess(w, ok) ==
    [data |-> IF ok THEN NoRow ELSE w.data, invalidate |-> ok]

(* The callbacks of a mutation: what becomes the data, NoRow for nothing,  *)
(* and whether the key is invalidated.                                     *)
PatchActionItem(w, ok) ==
    [data |-> IF ok THEN NoRow ELSE w.data, invalidate |-> TRUE]
SummariseMeeting(w, ok) ==
    [data |-> IF ok THEN w.data ELSE NoRow, invalidate |-> TRUE]
UpdateMeeting(w, ok) == [data |-> NoRow, invalidate |-> ok]
DeleteMeetingAudio(w, ok) == [data |-> NoRow, invalidate |-> ok]
UpdateSpeakerAliases(w, ok) ==
    [data |-> IF ok THEN w.data ELSE NoRow, invalidate |-> FALSE]

Callback(w, ok) ==
    CASE w.kind = "tick"       -> PatchActionItem(w, ok)
      [] w.kind = "regenerate" -> SummariseMeeting(w, ok)
      [] w.kind = "edit"       -> UpdateMeeting(w, ok)
      [] w.kind = "delete"     -> DeleteMeetingAudio(w, ok)
      [] w.kind = "rename"     -> UpdateSpeakerAliases(w, ok)

(* A write is answered, or fails, applied or not.                          *)
Settle(w, ok) ==
    /\ w \in writes
    /\ ok => w.at = "applied"
    /\ writes' = writes \ {w}
    /\ LET after == Callback(w, ok)
       IN  /\ IF after.data # NoRow THEN SetQueryData(after.data)
              ELSE UNCHANGED <<cache, error>>
           /\ IF after.invalidate THEN Invalidate
              ELSE /\ stale' = (stale /\ after.data = NoRow)
                   /\ UNCHANGED fetch
    /\ Rendered(w.kind \notin {"rename", "delete"})
    /\ UNCHANGED <<serverVars, made>>

-----------------------------------------------------------------------------
(* The 2-minute budgets of MeetingDetailView.                              *)

(* Mutant: the timer of the archive is armed only when no summary is       *)
(* awaited.                                                                *)
EncodeBudgetAlone ==
    /\ audio = "pending" /\ ~IsPendingSummary(cache, stuck)
    /\ Render(cache, TRUE, stuck)
    /\ UNCHANGED <<serverVars, queryVars, writes, made>>

EncodeBudgetElapses ==
    /\ audio = "pending"
    /\ Render(cache, TRUE, stuck)
    /\ UNCHANGED <<serverVars, queryVars, writes, made>>

SummaryBudgetElapses ==
    /\ view = "detail" /\ ~stuck
    /\ cache.status = "failed" /\ cache.summary = "pending"
    /\ Render(cache, gaveUp, TRUE)
    /\ UNCHANGED <<serverVars, queryVars, writes, made>>

ServerStep == Finalize \/ Encode \/ Summarise \/ TimePasses

Next ==
    \/ ServerStep
    \/ \E w \in writes : Apply(w) \/ Refuse(w) \/ \E ok \in BOOLEAN : Settle(w, ok)
    \/ \E v \in {"detail", "ended"} : Mount(v)
    \/ Leave \/ Ages \/ Refetch \/ ServerReads \/ FetchSucceeds \/ FetchFails
    \/ \E item \in Items : Tick(item)
    \/ Regenerate \/ DeleteAudio \/ EditHeader \/ RenameSpeaker
    \/ EncodeBudgetElapses \/ SummaryBudgetElapses

Spec == Init /\ [][Next]_vars

(* Timers fire and requests are answered, now and then with success.       *)
(* Nothing is assumed of the workers or the user.                          *)
Fairness ==
    /\ WF_vars(Refetch) /\ SF_vars(ServerReads) /\ SF_vars(FetchSucceeds)
    /\ WF_vars(EncodeBudgetElapses) /\ WF_vars(SummaryBudgetElapses)

FairSpec == Spec /\ Fairness

-----------------------------------------------------------------------------
TypeOK ==
    /\ row \in Rows /\ cache \in Rows \cup {NoRow}
    /\ fetch \in {Idle, Sent} \cup [at : {"read"}, data : Rows]
    /\ {encoded, recent, stale, error, poll, saw, gaveUp, stuck} \subseteq BOOLEAN
    /\ made \in 0..MaxWrites
    /\ view \in {"none", "detail", "ended"}
    /\ writes \subseteq Writes
    /\ \A w \in writes : w.kind = "tick" => w.item \in Items

(* "On settle we invalidate so the truth resyncs" (use-patch-action-item): *)
(* once nothing is in flight, an entry that counts as fresh shows the      *)
(* ticks the server has, however ticks, refused ticks, polls and           *)
(* regenerations have overlapped.                                          *)
TicksConverge ==
    (writes = {} /\ fetch = Idle /\ ~stale /\ cache # NoRow /\ cache.gen = row.gen) =>
        cache.done = row.done

(* "Preparing audio" gives way: to the player or to a message.             *)
PreparingEnds == audio = "pending" ~> audio # "pending"

(* A summary the server has finished appears in the view that waits for    *)
(* it, without the user's help.                                            *)
SummaryAppears ==
    view # "none" /\ ~stuck /\ cache.summary \in Working /\ row.summary \in Finished
        ~> \/ view = "none" \/ stuck \/ row.summary \in Working
           \/ cache.summary \in Finished

=============================================================================
