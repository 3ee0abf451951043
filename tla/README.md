# Meeting Intelligence: verification project

Meeting Intelligence records meetings on the desktop, streams their audio to a
server, turns it into a transcript, and summarises it. This directory models the
parts of it where several actors share state: TLA+ modules translated from the
source, TLC configurations that check them on small instances, and theorems that
TLAPS proves for every value of the constants. `PROJECT.json` ties every
definition to its source lines, every property to a run and to a mutant of the
code that breaks it, and every hazard of the code to the properties that watch
it.

Paths below are relative to `src/`; `desktop/` stands for `apps/desktop/`, and
`mi/` for `backend/src/meeting_intelligence/`.

## 1. Inventory

The system is a desktop application (Tauri: Rust native side, React webview), a
FastAPI backend, Celery workers on Redis, PostgreSQL with row security, and an
object store.

| Part | State it keeps | Operations | Interacts with | Hard because |
|---|---|---|---|---|
| Reconnecting transcript client (`desktop/src/lib/reconnecting-ws-client.ts`) | phase, attempt, outage anchor, timer, socket, chunk buffer | send, close, socket callbacks, back-off timer, flush timer | token provider, WebSocket, ring buffer | callbacks of an old socket, awaited token, zero-timeouts that outlive a connection |
| Audio ring buffer (`desktop/src/lib/audio-buffer.ts`) | slots, head, size, dropped count | push, shift, drain, clear | the client | indices at capacity |
| Recording commands (`desktop/src/hooks/use-recording.ts`, `src-tauri/src/lib.rs`) | phase, native session, refs with client and listeners of each instance of the hook, recording flag | start, stop, auto-stop, cancel, permission request | all of the desktop | awaits inside start and stop, two instances of the hook |
| Native audio pipeline (`src-tauri/src/audio/`) | bounded channels, mixer and encoder threads | capture, mix, encode, drain on stop | recording commands | threads and full channels |
| Meeting detection (`src-tauri/src/detection/`, `lib.rs`, detection store and hook) | state machine, poll thread, banner | poll, snooze, suppress, start, stop, answer the banner | recording flag, settings | read-then-lock-then-emit; commands in any order |
| Desktop authentication (`src-tauri/src/lib.rs`, `auth-store.ts`) | stored tokens, pending nonce, the sign-in gate | login, refresh, logout | every API call, the shell | concurrent refreshes, a logout that answers late |
| Views of one meeting (`desktop/src/hooks/use-*.ts`, `meeting-detail-view.tsx` and the components in it) | one query of the cache, polling, two budgets | fetch, poll, tick, edit, rename, regenerate, delete audio | meetings API | optimistic writes under refetches, polling switched by what it fetches |
| List of meetings and search (`history-view.tsx`, `use-meetings-list.ts`, `search-input.tsx`) | pages with cursors per filter, query, draft | load more, filter, type, search | meetings API | meetings inserted between pages, debounce against keystrokes |
| Settings, theme, updates (`settings-store.ts`, `theme-provider.tsx`, `use-update-checker.ts`) | settings file, boot cache, update status | hydrate, set, flip, check, download, install | sign-in gate, recording phase | written behind the setter, read at the next launch |
| Transcript WebSocket session (`mi/api/transcript.py`, `mi/stt/`) | audio queue, WAV, consumer task, counters | receive loop, consumer, provider pump, wind-down | client, provider, database, broker | three coroutines; any of four outside services fails |
| Summary pipeline (`mi/worker/tasks/summarise.py`, `mi/api/meetings.py`) | summary row, action items, queued tasks | summarise, regenerate, park, patch | sessions, workers, LLM | redelivery, several transactions per task |
| Audio archive (`mi/worker/tasks/audio_archive.py`) | WAV file, object, key, dead letters | encode, upload, retry, delete | sessions, object store | retries, lost workers, one path per meeting |
| Search and embeddings (`mi/worker/tasks/embed.py`) | vectors per segment | embed, backfill, search | summary pipeline | two tasks on one meeting |
| Meetings API (`mi/api/meetings.py`) | meetings, tags, aliases | CRUD, cursors, export | database | cursor pagination |
| Authentication and row security, object storage, worker setup (`mi/auth/`, `mi/storage/`, `mi/worker/`) | JWKS cache, connection settings | verify, put, delete, deliver | all of the backend | late acknowledgement |
| Website, infrastructure, shared types, release tooling | none at run time | | | |

What makes each part correct, where it has more than one actor:

- **client**: no chunk is sent twice or reordered within the buffer, no state is
  without a way out, a closed client leaves nothing behind, an outage ends.
- **ring buffer**: it is a queue that drops its oldest element when full.
- **session**: the archived audio has no gaps, lines are stored in order, the
  status, summary and close code tell one story, the session always ends.
- **summary**: what a reader sees is one summary with its own action items, and
  "processing" does not last.
- **archive**: the key leads to an object and the object is complete, no audio stays
  on the disk, every task ends.
- **detection**: one prompt per call, after the debounce, and a banner that goes
  when its call goes.
- **recording**: the record button is never disabled for good, what is called a
  recording streams, to its own socket only, and only a stop ends it.
- **one meeting on screen**: ticks end up as the server has them, no spinner
  stays.
- **list and search**: no meeting is skipped, what was typed is searched.
- **settings and updates**: a choice survives the launch, the window shows it, a
  release is offered.

## 2. Modules

| Module | Models | Status |
|---|---|---|
| `ReconnectingWs` | the client with its timers, token request, socket and drain | checked, safety proved |
| `AudioRingBuffer` | the circular array | checked, proved |
| `DropOldestFifo` | abstract: a queue that drops its oldest element | `AudioRingBuffer` implements it |
| `TranscriptUplink` | abstract: what the recorder is promised about its audio | `ReconnectingWs` implements it |
| `SummaryCard` | abstract: what a reader sees of the summary of a meeting | `SummaryPipeline` implements it |
| `RecordingSession` | `start()`, `stop()`, permissions and views around a recording | checked, safety proved |
| `TranscriptSession` | one WebSocket session after the handshake | checked, safety proved |
| `SummaryPipeline` | the summary of one meeting | checked, safety proved |
| `AudioArchive` | the audio file of one meeting | checked, safety proved |
| `MeetingDetection` | monitor, commands, banner | checked, safety proved |
| `MeetingDetail` | one meeting in the query cache and on screen | checked, safety proved |
| `MeetingHistory` | the list of meetings, its filters and its search box | checked, safety proved |
| `DesktopShell` | sign-in gate, settings, theme, updates, from launch to launch | checked, safety proved |
| `<Module>Proofs` | theorems about the above; those about `AudioRingBuffer` are in `ReconnectingWsProofs`, those about `MeetingHistory` in `DesktopShellProofs` | proved |

The pieces meet at named points: the client of `RecordingSession` is
`ReconnectingWs`, whose buffer is `AudioRingBuffer`; its peer is
`TranscriptSession`, which hands the WAV to `AudioArchive` and the lines to
`SummaryPipeline`; what those two store is what `MeetingDetail` fetches, and the
meetings a recording creates are what `MeetingHistory` lists. `MeetingDetection`
sees a recording as a flag, and `DesktopShell` as a phase. At such a point the
neighbour is a choice: a server that answers or does not, a worker that stores or
fails, a recording that begins or ends.

### How they correspond to the code

**ReconnectingWs.** `phase`, `attempt`, `elapsed` (time since `outageStartedAt`),
`timer`, `sock`, `userClosed` and `buffer` are the closure variables of
`createReconnectingWsClient`; `flushers` counts the pending
`setTimeout(flushBatch, 0)` callbacks. Each callback is one action:
`FireRetryTimer` leads to the token request, `TokenResolved` to the socket,
`SocketOpened` and `SocketClosed` are the socket's handlers (`PeerCloses` is the
server or the network), `FlushTimer` the zero-timeout, `Send` and `Close` the
methods. JavaScript runs a callback to completion, so an action is everything
between two returns to the event loop. Time advances in steps of a back-off unit;
jitter is a choice within its bounds. `sent`, `evicted` and `lost` are histories.
`TranscriptUplink` forgets sockets, tokens, timers and batches: a chunk that is
offered is held, passed on or lost, the oldest held ones are delivered or
discarded, and the connection goes down or is closed. The refinement mapping reads
the phase as the caller sees it (`Mode`).

**AudioRingBuffer.** One variable per field, one action per method; a slot that
was never written is `Undefined`. `DropOldestFifo` keeps a sequence; the
refinement mapping reads `size` slots from `head` on.

**RecordingSession.** One action is one task of the event loop, from one await of
`start()`, `stop()` or `requestPermissions()` to the next. A call of `start()` is
numbered, and the number names the meeting it creates, its native session, its
client and its listeners; `stage` says what the call awaits. `useRecording()` is
instantiated by the shell and again by the ended view; an instance is a
component with the number of starts made before it was mounted, so that a
component mounted twice is two instances. `res[k].live` is what start `k` has
registered and nobody has released, `res[k].held` what the refs of its instance
still reach: assigning a ref puts what it held out of reach. `Render` is what React
does after the task: the ended view appears, or unmounts and tears its instance
down. `requests` counts the permission requests each shell awaits: Continue is
disabled in phase `requesting-permissions` only, which a cancelled start ends while
the request is still pending. The Rust side is the session slot (`native`), the
`stop_recording` commands on their way to it (`stops`), and those that have run and
drain (`drains`): a command takes what is in the slot when it runs, which may be a
session stored after the click. `ClientDies` is a client that exhausts its budget
on an instance that has stopped by itself already: it publishes "failed", and
nothing stops a second time.

**TranscriptSession.** The handler of `transcript_ws` is a program counter `pc`
that moves between awaits; `transcribe_consumer` and the provider's pump are two
more processes. `queue` is the bounded `asyncio.Queue` with the `None` sentinel
in it, `heard` what the provider has taken and not answered. A send to a peer
that has left succeeds or raises; after the first one that raises the
application side is closed, and the next receive raises a `RuntimeError` that no
handler expects. `faults`, chosen when the session begins, says which outside
services misbehave in it.

**SummaryPipeline.** One action per transaction, broker call or LLM call.
Segments are counted; a result carries the run that made it and the number of
segments it was made of. `locked` is the row lock that the regenerate request
holds between flush and commit. The number of workers is chosen at the start.
The database's own guarantees (row locks, atomic transactions) are taken as
PostgreSQL gives them. `SummaryCard` has the summary, its items, the length of the
transcript, and the attempts that have begun and not ended. An attempt is one
delivery of a task: it begins when it loads the transcript, and is open until its
result is stored, parked, raised or lost with its worker. The mapping (`Begun`,
`Open`) reads both off the tasks.

**AudioArchive.** A file is an inode, so that a truncating `wave.open` and an
`unlink` under an open handle mean what they mean on a POSIX file system.
A session that cannot open its WAV goes on without a path, and one whose disk fails
in the middle goes on without the tap (`tap`), while the partial WAV is archived.
Leaving the task is three steps: its outcome, the `finally` that unlinks, and
the acknowledgement. A worker can be lost before each of them. A retry is published
with its outcome, before the unlink, and is due 30 seconds later: the model queues it
at the acknowledgement, and takes these steps to need less than the countdown. A
worker lost in between leaves two messages, the one never acknowledged and the
retry, so a task is a set of deliveries `<<session, number>>`. The deletion is a
request with three steps, and its flush or commit may fail after the object is gone.
`crossed`, `torn` and `stuck` remember that an upload met a deletion and that the last change
of object and key has stopped halfway, and that the file system has refused an unlink.
`faults`, chosen in the beginning, says what may go wrong in a behaviour.

**MeetingDetection.** `StepFsm` is `DetectionFsm::step` as a function of the
sample; a poll thread samples, steps under the lock, and emits after it. Commands
are issued without being awaited, so `inflight` is a set. `streak` and `nevers`
are histories. Recording appears only as the phase, the stored session and the
flag that detection reads.

**MeetingDetail.** `cache`, `stale`, `error` and `fetch` are the query
`["meeting", id]`; `row` is the server's row, changed by the session that ends and
by the two workers. A fetch is sent, read by the server in one moment, and
answered in a later one; a write is sent, applied or refused, and settled. The
callbacks of the five mutations are the operators `PatchActionItem`,
`SummariseMeeting`, `UpdateMeeting`, `DeleteMeetingAudio` and
`UpdateSpeakerAliases`: what becomes the data, and whether the key is
invalidated. `audio`, `poll`, `saw`, `gaveUp` and `stuck` are the state of
`MeetingDetailView`, recomputed when React renders it and not before. Of React
Query the model keeps what the hooks rely on, marked external in the map.

**MeetingHistory.** Meetings are numbered by `started_at`. `list` holds the pages
of each filter combination, each the set of its meetings and the cursor to the
next one, `fetch` the fetch in flight, page by page. `draft`, `submitted` and `syncing` are the search box: the text, the
last text given to the parent, and the effect that copies the parent's value
back. The server's page is the cursor query of `list_meetings`. `Retag` is the
server carrying out a PATCH that adds a tag to a meeting or takes it away (a
filter by duration changes in the same way when a session ends); `moved`
remembers, for each list and fetch, which meetings have entered or left the filter
since its first page was read.

**DesktopShell.** `gate` is the status of `auth-store`; `file` the settings file
with its schema version, `settings` the values in memory, `writes` the
`store.set()` calls in flight, in order. `Boot` is what a launch resets. `run` is
where the update check of the mounted checker stands, `orphan` a download whose
checker has unmounted. `chosen` and `lost` are histories.

## 3. Runs

Passing runs. Every property has a mutant of the modelled code, named in
`PROJECT.json`, that violates it under the same configuration. The type
invariants are theorems (section 4).

| Run | Instance | What it shows |
|---|---|---|
| `ws` | 5 chunks, buffer of 3, batches of 2, budget of 4 units, delays of 2 to 4 | The client never wedges: each phase has a timer, a request or a socket behind it. A chunk is sent, evicted or lost at most once. A client that is closed or has given up comes to rest: no token, handshake, timer or flush under way leaves a socket or a timer behind. The client implements the uplink: buffered chunks leave oldest first, only an overflow evicts, and a closed client sends nothing. Every outage ends, and what is buffered leaves an open connection. |
| `ring_buffer` | 3 items, capacity 3, 4 drops | The array implements the drop-oldest queue. |
| `rec` | 2 starts, 2 stops awaiting their reply, 2 permission requests | A phase that disables the record button has a pending flow behind it and ends. While a session runs its audio goes to its own socket only. What is called a recording has a live client that the footer shows. A recording is left through `stop()` only. |
| `ts` | 3 chunks, 1 probe, queue of 2; no fault, each pair of faults, and all six | No gaps in the WAV, lines in order, nothing moves once finalization has begun. If the sentinel got through, peer and provider and database being fine, every line is stored. "Failed before any transcript" is said only of a session that stored no line. A session that is ending ends. |
| `sp` | 2 sessions, 2 segments, 2 tasks of 2 deliveries, 1 or 2 workers, all faults | Items belong to the summary shown and the status agrees with the payload. The pipeline implements the card: a summary gives way to an attempt's result only, never to nothing because of a new attempt or a failure, and never comes back once it was replaced. With one worker a summary never gives way to an older transcript's. A processing row becomes terminal although a worker was lost, unless a dispatch was lost or a task has raised. |
| `aa` | 2 sessions, 1 chunk each, 1 retry, 1 lost worker; a failing disk, ffmpeg and worker, or every other fault and a deletion | Without a reconnect the stored object is what the session captured, from its beginning without a gap, and all of it unless the disk failed. Key and object part only where an upload met a deletion or one of them stopped halfway. When a delivery of the newest session's task is over, no WAV is left, unless the file system refused to unlink it; every task ends. |
| `md` | 2 applications, debounce of 2, 5 moves, 1 monitor; events and commands settle within a poll interval | A prompt is debounced, and one call prompts once. A banner belongs to the monitor's active meeting or its end is on the way; silenced applications are not shown; the banner goes when the call does. |
| `detail` | 2 action items, 2 writes, a patient user | Once nothing is in flight, a fresh entry shows the ticks the server has. "Preparing audio" gives way. A summary the server has finished appears in the view that waits for it. |
| `history` | 3 meetings, 2 of them there at launch, one retagged at any moment, pages of 1, 3 drafts | Loaded pages are a window of the server's list without a gap or a repetition, and "no more" means that nothing older is missing; of a filtered list, but for the meetings that entered or left the filter since its first page was read. What stands in the search box is searched once the user pauses. |
| `shell` | 2 launches, file of schema version 0, 1 or 2, 1 write in flight | A choice is kept in this launch and the next. The window has the theme of the preference. A release is offered to a user who stays signed in, however often checks fail. |

### Where code and documentation disagree

Two runs expect a violation. Each checks one property taken from a comment.

- `aa_retry`: "encode and upload failures retry up to 3 times"
  (`audio_archive.py:17`). The `finally` block unlinks the WAV before the retry,
  so each retry fails with "wav source missing".
- `rec_ended`: a start "must not be re-entered mid-session"
  (`recording-phase.ts:18`). The ended view appears while the stop is still
  draining, and its start looks at no phase. The reply of that stop then ends the
  new session in the interface, while it goes on recording.

Other disagreements show in the same models without a run of their own. The
modules contain the steps that lead to them, and the premises of the properties
say where.

Client and recording:

- "drained in FIFO order on reopen" (`reconnecting-ws-client.ts:19`): the drain
  yields after every batch, and a chunk sent then goes straight to the open
  socket, ahead of the buffered ones;
- a flush scheduled on a connection that has gone down empties the buffer into a
  closed socket (`reconnecting-ws-client.ts:192`, counted in `lost`);
- `start()` awaits its listeners after the recording is up, so a stop in between
  leaves a listener and a client behind (`use-recording.ts:360`); a stale listener
  "can't accidentally interleave events into the new session's WS stream"
  (`audio-bridge.ts:79-81`), yet the chunks of an old session's drain are forwarded
  to whatever socket its instance holds by then;
- `stop()` tears the socket down before the native drain, so the last chunks have
  none (`use-recording.ts:158`);
- a logout during a recording leaves the native session running;
- the message of a fatal capture error is lost, because `stop()` has moved the
  phase on when `cancelStart()` runs (`use-recording.ts:373-379`);
- the strip that says the reconnection has failed is never seen, because the
  give-up stops the session in the same task and that resets the connection store
  (`reconnect-banner.tsx:15-18`);
- the permission dialog opens when the permission changes, so Record, pressed
  again while it is still undetermined, does nothing visible
  (`app-shell.tsx:74-85`).

Server:

- "Everything else dispatches summarise" (`transcript.py:634`): a send that meets
  a departed peer closes the application side, and the `RuntimeError` of the next
  receive skips stamp, archive and summary;
- a full queue drops the end-of-audio sentinel (`transcript.py:578`), and a
  departed peer ends the consumer in mid-drain (`transcript.py:452`), so trailing
  lines are lost: the premises of `TrailingLinesStored`;
- "On error: status='failed'" (`summarise.py:21`): an exception of the LLM call
  leaves the task before the result is stored, and the row stays `processing`;
  SQL errors are not retried (`summarise.py:422`), a regenerate whose dispatch
  fails leaves the row `processing` (`meetings.py:767`): the exceptions of
  `ProcessingResolves`;
- a failed reconnect parks its failure over a meeting with a transcript
  (`transcript.py:645`);
- a reconnect truncates the WAV of the session before it, or has its own unlinked
  (`transcript.py:402`): the premise of `StoredIsComplete`;
- a disk error turns the WAV tap off, and what was written until then is archived
  as the audio of the meeting (`transcript.py:531`): the exception of
  `StoredIsComplete`;
- `DELETE /audio` removes the object first, so a flush or commit that fails
  afterwards leaves a key to nowhere (`meetings.py:606-619`); so does a deletion
  between a repeated upload and its key, and an upload whose key is not stored
  leaves an object that nothing leads to: the premises of `KeyMatchesObject`;
- a worker lost after it has published a retry leaves the task in the queue twice
  (`audio_archive.py:192`);
- an unlink that the file system refuses is logged and never repeated
  (`audio_archive.py:225`): the exception of `NoWavLeftBehind`.

Detection:

- a poll that read the flag early prompts during a recording (`monitor.rs:290`),
  a new monitor forgets the applications silenced for the session (`lib.rs:347`),
  the stop of an effect's cleanup may run after the start that follows
  (`use-meeting-detection.ts:48`), and a detection delivered while the recorder is
  busy is never repeated (`detection-store.ts:40`).

Views:

- polling for the summary goes on for as long as the summary is unfinished in a
  completed meeting, although "give up" is announced after two minutes
  (`meeting-detail-view.tsx:27-32`, `137-153`), and the ended view polls without its
  "5-min cap" (`session-ended-view.tsx:33-37`);
- a tick that fails restores its snapshot over a later tick that has succeeded,
  until the refetch brings it back, and that refetch happens while a view observes
  the entry only (`use-patch-action-item.ts:69`); alias writes return the meeting of
  an earlier moment and invalidate nothing. `TicksConverge` is checked for a user
  who waits for a write before leaving or renaming;
- two edits of the tag list or of the aliases replace each other, because each
  sends the whole (`participants-section.tsx:57-64`);
- a refetch that fails in the background replaces the transcript by the error
  view (`meeting-detail-view.tsx:211`);
- [Load more] pressed while an invalidation refetches abandons the refetch, and
  the newest meeting is missing until the next one (`history-view.tsx:150`). If a
  meeting was tagged in the meantime that belongs between two pages of a filtered
  list, the list goes on from the old pages, counts as fresh, and skips that meeting
  until something invalidates it: the exception of `ListHasNoGaps`;
- the effect that copies the committed query into the draft may overwrite a
  keystroke (`search-input.tsx:58-61`).

Shell:

- an installation goes on when a recording starts under it, and its relaunch ends
  the capture (`update-banner.tsx:28-38`, against `10-15`);
- a sign-out during a download leaves "downloading" behind, which keeps every
  later check of this launch from running (`use-update-checker.ts:29-31`): `Stranded`
  in `UpdateIsOffered`;
- a setter that runs while the file is being loaded is overwritten in memory
  (`settings-store.ts:207`), and a flip of the appearance before hydration overrides
  the cached theme until then: the premises of `SettingsKept` and `ThemeShown`.

### Bounds, and why they are enough

- `ws`: 5 chunks overflow a buffer of 3, which takes two batches of 2; the budget
  of 4 units admits several attempts with growing delays before it is used up.
- `ring_buffer`: capacity 3 has a first, a middle and a last slot, and 4 drops
  turn the head more than once round.
- `rec`: `MaxStarts` of 2 is a session and one that overlaps it in every way, on
  the same instance or another; `MaxDrains` of 2 lets a stop meet another. The
  safety properties are proved for all bounds. `MaxRequests` of 2 is a permission
  request beside one that was overtaken. `RepliesInOrder` says that the
  reply of `start_recording` for the session that runs arrives after those for
  earlier sessions. The IPC does not promise it, and it matters from three starts
  on: a late reply of the second then puts the second's client where the third's
  listener forwards to. `AudioToOwnSocket` is checked and proved under it.
- `ts`: 3 chunks fill a queue of 2 and are refused, and leave one chunk behind
  which the sentinel has to queue. `MaxFaults` bounds the kinds of fault in one
  session to two, or all of them: a safety property that holds with all faults
  holds with fewer, while the properties with a premise on the faults need the
  small sets.
- `sp`: two sessions and two tasks are the least for a race between two results;
  two deliveries repeat a task once after a lost worker.
- `aa`: two sessions share one path; one retry is a first and a last attempt, and
  a lost worker a delivery beside it. One chunk tells a whole file from an empty or
  a truncated one; that no gap opens between chunks is proved for any number. A
  behaviour has one of two sets of faults, with the disk or with the deletion: the
  disk decides what a file holds, the deletion what becomes of object and key. The
  proof is for any set, all of them at once included.
- `md`: two applications replace each other; a debounce of 2 is the code's
  default. `MaxMoves` counts calls begun and user gestures. Five of them are
  enough to switch on, meet a call, silence it, meet another and record.
  `MaxMonitors` of 1: with a second monitor that overlaps the first, the banner
  properties do not hold (the disagreements above); the two prompt properties are
  proved for any number of monitors.
- `detail`: two items tell an overwritten tick from a kept one; `MaxWrites` of 2
  is the least for a write that settles under another. `PatientUser` is described
  above.
- `history`: pages of one meeting make every cursor a boundary; a third meeting
  is created between two pages. The one retagged is in the middle, and does not
  carry the tag at first. Drafts are the empty text, a text and a longer one. `Topics`
  makes a behaviour either about tags or about searching, which share the list and
  its filters only; the proof is for a behaviour about both as well.
- `shell`: schema versions 0, 1 and 2 are an older file, one of this build and one
  of a newer build. Two launches are the least for a setting to be read again.
  `Scenes` makes a behaviour either about settings or about updates: they share
  only the gate and the launch. `MaxWrites` counts writes in flight. Reading and
  seeding the file is one step, a daily check is shorter than a day, and
  `language` stands for the settings that differ from it in their values only.

### Fairness

- `ws`: timers fire, promises settle, the browser ends a handshake and a closing
  socket, time passes. Nothing is assumed of the server or the user.
- `rec`: a `stop_recording` runs, and it and an await of `start()` are answered, with
  success or failure. Nothing is assumed of the user, the network or the OS prompts, so
  `requesting-permissions` may last.
- `ts`: the event loop runs every coroutine that is ready; a client that is there
  keeps sending (the microphone does not pause), and one that is gone is
  reported. The provider answers in a session without the fault "slow"; with it
  nothing is assumed of the provider, and the drain timeout must end the wait.
- `sp`: workers go on working, and a regenerate request that was begun is
  finished.
- `aa`: a queued task is delivered and a delivered one runs.
- `md`: threads run, commands execute, events arrive.
- `detail`: the polling interval and the two budgets elapse (weak). A request that
  is sent again and again is answered, and not only with failures (strong): a
  server that always fails refutes nothing about the view.
- `history`: effects run. The user pauses long enough, now and then, for the
  debounce to elapse (strong, because each keystroke restarts it).
- `shell`: the daily timer ticks; checks and downloads that are begun again and
  again end well at some time (strong).

Deadlock is checked where a stop would be a fault of the code (`ts`,
`ring_buffer`). In the others the system may rest: a closed client, a meeting
without further sessions, a machine without calls, an interface that waits for
its user.

## 4. Proofs

The assumptions are those the modules state about their constants; nothing else
is taken on trust. Each proof rests on an inductive invariant, which TLC checked
on the bounds of the run first: one lemma says that it holds initially, one lemma
per action that the action preserves it, and the theorems follow from it.

**ReconnectingWsProofs.** `TypeCorrect` is `Spec => []TypeOK`. From it, for all
bounds, batch sizes and delays: `ClientNeverWedged` (each phase has what will move
it on) and `BufferedChunksAreFlushed` (an open connection with a non-empty buffer has
a flush pending). `DeliveredAtMostOnce` and
`BufferStaysInOrder` rest on `Places`: a chunk is counted once among those sent,
evicted and lost; the buffer is ordered and holds only chunks produced; and
`WaitsOnce`, a waiting chunk is neither evicted nor lost, without which a flush
could count it twice. Lemmas say what taking from or adding to an ordered
sequence does to its contents and their number.

`ClientImplementsUplink` takes each action of the client to a step of
`TranscriptUplink` or to a stutter, one lemma per action: a drain is a delivery
while its socket is up and a discard when it has gone, and giving up after the
budget is the uplink's end. It uses `NeverWedged` to know the phase in which a socket
opens or closes, and `Places` for the buffer's bound.

The same module has the proofs about the ring buffer. `AlwaysConsistent`: for any
capacity, `head` and `size` stay in range and exactly the `size` slots from `head`
on are written. `RingBufferImplementsFifo`: with that invariant each method is the
queue's operation under the refinement mapping. Arithmetic modulo the capacity is
dealt with in lemmas about `Advance` and slot positions.

**RecordingSessionProofs.** `Inv` is the type invariant with `Numbers` (starts are
numbered in order, and an instance has a smaller number than any start made on
it, so a new shell is never the home of a running session), `EndedMatches` (the
ended view is mounted exactly when the phase and the view call for it),
`BusyHasFlow` and `RecordingIsStreamed`. `BusyHasFlow` alone is not inductive: it
takes the numbers to know that a new start does not overwrite a pending one, and
that a shell not yet mounted awaits no permission.
`RecordingLeftByStop` needs `EndedMatches`: [Back to home] resets the phase, and
is out of reach while a recording runs. `AudioReachesOwnSocket` adds `OwnClient`:
once `start()` goes on after the reply for the running session, the client of that
session is the only one its instance reaches, no reply that could replace it is
outstanding, and its listener comes later. It assumes `RepliesInOrder`.

**TranscriptSessionProofs.** All safety properties of the `ts` run, for any
number of chunks and probes, any queue and any combination of faults, follow
from `Inv`. Beside the types and `WavHasNoGaps` it says:

- `Ordered`: a chunk is in the queue, with the provider, in the consumer's hand
  or stored; each place is in audio order and entirely before the next one, so
  no step can store a line out of order or twice (`LinesStoredInOrder`).
  `PersistedInOrder` alone is not inductive: it says nothing of what is still
  on its way.
- `Ended`: after the drain the consumer is done and the WAV closed, and the
  sentinel is the last item ever queued. `FinalizationIsSettled` follows.
- `Told`: the status, the summary and the close code rest on `sttFailed` and
  `finalLines`, which no longer change when they are read; a stored or pending
  line has been counted (`OutcomesAlwaysAgree`, `ParkedHasNoLines`).
- `Departed`: a handler abandons a session only when the peer is gone, which
  `Accounted` needs.
- `Accounted`: with only the disk and the broker failing, every chunk received is
  refused or at one of the four places, and a consumer whose pump took the
  sentinel ends with nothing left to hear (`TrailingLinesAreStored`).

**SummaryPipelineProofs.** `Inv` adds to the types, `ItemsMatchSummary` and
`StatusMatchesSummary` the facts about tasks (a waiting one has a delivery left, a
summarised one an answer, nothing loaded is longer than the transcript is now)
and two statements for one worker: `OneAtATime`, it runs one task, and
`LoadedIsNewer`, until that task's result is stored the row's summary is of a
transcript no longer than the one the task has loaded. `SummaryNeverOlder` is the
step from the second. `PreviousSummaryStays` follows because one action replaces
a summary, and only with a result. Sessions and tasks are finite sets of any
size.

`PipelineImplementsCard` is the refinement of `SummaryCard`. An action that moves
a task is a beginning, an end or a stutter of its attempt, which lemmas about
`Begun` and `Open` settle once for all actions: when they stay, when a run is
added, when it is taken away. `Inv` gives that a run that loads has not begun
before, because a delivery is counted before it.

`ProcessingIsNotAbandoned` is the safety half of `ProcessingResolves`: a row that
says "processing" has a task that is queued, runs or has raised, unless a dispatch
was lost. It is not inductive: a regenerate request writes "processing"
before it dispatches, and commits afterwards. `RequestHasTask` adds that a request
that holds the row and has dispatched has a task that cannot store its result
before the request commits.

**AudioArchiveProofs.** `Inv` has, beside the types, `Order` (a session without an
end has no delivery, a repeated one comes from a lost worker, the newest session is
the last that began), `Gone` (a delivery of the newest session's task past its unlink
means no file, unless the file system refused), `OneFile` (in a meeting of one session one file, whose chunks are the
first ones captured and all of them while the tap is on, is what is encoded and
stored) and `KeyStory` (as long as no upload has met a deletion, the object is gone
while a deletion says so, there while a delivery has uploaded it, and otherwise there
exactly with its key, unless something stopped halfway). `DiskIsCleared`,
`ArchiveIsComplete` and `KeyLeadsToObject` follow. `KeyMatchesObject` alone is not
inductive: it says nothing of an object that an upload or a deletion is about to
change, nor of the time after something stopped halfway, which the next completed
change repairs. Assumed: finitely many sessions, and that "no file" and "no object"
are none of them.

**MeetingDetectionProofs.** `TypeCorrect`, then `MonitorsKnowTheCall`:
`PromptIsDebounced` and `OnePromptPerCall` are not inductive, because they speak
of an edge that has been produced and say nothing of what the state machine
counts. The strengthening `MonitorsTrackPolls` adds that the candidate counted
and the meeting held active are the call of the current run of polls, that no
more polls are counted than the run has, and that a run that has prompted is
active still or silenced. `PromptsAreDebounced` and `AtMostOnePrompt` follow. The
lemmas treat `StepFsm` case by case: recording, no candidate, debounce, follow.

`NoOrphanedBanner` and `SilencedStaysSilent` (`BannerTracksMonitor`,
`SilencedAppNotShown`) assume `OneSession`: detection is switched on once, and what
a poll emits or a gesture commands takes effect before the next poll. Without the
first a new monitor leaves the banner of the old one up and has forgotten what was
silenced; without the second an "ended" arrives after the next "detected". Neither
property is inductive. `BannerInv` adds

- `OneEdgeAtATime`: one edge at most is between the monitor and the webview;
- `StartedOnce`: before its monitor polls nothing has happened;
- `GestureTakesBannerDown`: while a "snooze" or "never" is on its way there is no
  banner, and the poll under way cannot bring one;
- `PromptFindsNoBanner`: a prompt on its way meets no other banner, and the monitor
  still holds its meeting when it arrives;
- `BannerIsBacked`: the monitor holds the meeting of the banner, or the edge that
  takes it down is on the way.

**MeetingDetailProofs.** `TypeCorrect` is for any user. `FreshEntryShowsServersTicks`
(`TicksConverge`) assumes the patient user, as the run does: without one it is
false, as told above. It is not inductive, because a fetch that was read before a
tick, or a snapshot, may become the entry later. `Inv` adds `NoneFromTheFuture` (no
copy of the row is newer than the row), `OneAtATime` (what the patient user
guarantees) and `NoStaleTicks`: while no tick is pending, no copy that is or may
become fresh data (the entry, an answer on its way, the reply of a rename) shows
other ticks than the server has. `SpinnersArePolled`, for any user, is the safety
half of `PreparingEnds` and `SummaryAppears`: whatever has been fetched, written,
rolled back or given up, a view with a spinner goes on polling. `PollFollows` says
that polling is what the last rendering decided, and that every change of what it
depends on renders.

**DesktopShellProofs.** `Inv` has, beside the types, `FileFollows`: while nothing
was lost, nothing is written before the settings are loaded, a file that will be
seeded means that nothing was ever chosen, and after the queued writes the file
will hold every choice (the last write of each setting is the choice).
`ChoicesAreKept` holds for any number of launches and of writes in flight.
`ThemeShown` is inductive with `MountedFirst`: the listener for the system's
appearance is there before the settings are. `UpdateStatusIsTrue` is the safety
half of `UpdateIsOffered`: while the user is signed in, "checking" has a check
behind it and "ready" a release that was downloaded. The status outlives the
checker that set it, so `CheckerFollows` adds that a run belongs to a signed-in
gate, that its status is the run's own, and that a sign-in and a sign-out are never
both under way. For "downloading" the same is false (`Stranded`).

The same module has the proofs about the list. `HistoryHasNoGaps`: with any number
of meetings, pages of any size and meetings created or retagged at any moment, the
unfiltered list skips nothing between its first meeting and its cursor, and a
filtered one nothing but what has moved since it was begun. `ListHasNoGaps` speaks
of what is loaded; the invariant `Windows` says it of what a fetch has read so far as well,
page by page, and that a fetch goes on from a cursor only. The lemma about a page
says that the `limit` newest meetings before a cursor leave nothing out between the
cursor and the last of them. `DraftIsNeverForgotten`, the safety half of
`DraftIsSearched`: a draft that is not what is searched is in a box on screen with
its debounce armed. `BoxFollows` gives it: what was last submitted is the committed
query, and outside the list both are empty.

Model-checked only: the liveness properties (`ComesToRest`, `OutageEnds`, `BufferDrains`,
`BusyPhaseResolves`, `EndingSessionEnds`, `ProcessingResolves`, `ArchiveSettles`,
`BannerGoesAway`, `PreparingEnds`, `SummaryAppears`, `DraftIsSearched`,
`UpdateIsOffered`), because fairness and `ENABLED` are beyond the prover. For most
of them the safety half, that what must move on has something that moves it, is
proved: `NeverWedged`, `BusyHasFlow`, `ProcessingHasTask`, `BannerTracksMonitor`,
`SpinnerIsPolled`, `DraftIsPending`, `UpdateStatusTrue`. Every other property of a
passing run is a theorem. No module has a RECURSIVE operator.

## 5. Not modelled, and why

- **Handshake of the session** and the synthetic ticker of the development mode;
  the session begins at `session_started`.
- **A server that stops** in the middle of a session, and duration and speaker
  count, which a reconnect overwrites (`transcript.py:792`): nothing recovers such
  a meeting or adds such figures up, so there is no promise to check.
- **Native audio pipeline** (`pipeline.rs:153`): threads and bounded channels that
  drop when a stage is late; `RecordingSession` sees a session that runs or drains.
  The order of the flag and the slot in `lib.rs:216` is in `MeetingDetection`'s
  reading of the flag only.
- **Token refresh and the loopback server** (`lib.rs:564`): two requests near
  expiry refresh with the same token, and the one that fails clears what the
  other stored, while the interface stays signed in. `DesktopShell` has the gate
  without tokens, `ReconnectingWs` a token that comes or does not.
- **Embedding task** (`embed.py:88`): its dispatch is modelled, its batches and
  backfill are not.
- **Signal processing**, capture devices, prompts and the LLM graph: numeric or
  textual, or owned by the operating system. An LLM call is an answer, a failure
  or an exception.
- **Row security and token verification**: enforced by PostgreSQL policies and a
  library.
- **In the views**: the transport of the audio player and its presigned URL, open
  menus and dialogs, editor drafts, export and copy, contents of titles and tags,
  the list of devices, the transcript panel, layout.
- **Website, infrastructure, types**: no behaviour over time.
- **A meeting whose row has gone** when its archive task stores the key
  (`audio_archive.py:114`): no request of the API deletes a meeting.
- Two meetings share nothing in the modelled parts but the workers and the list,
  so one meeting is modelled at a time.

## 6. Plan

Done: the uplink (`ReconnectingWs`, `AudioRingBuffer`), the recording session, the
server side of a meeting (`TranscriptSession`, `SummaryPipeline`, `AudioArchive`),
`MeetingDetection`, the views of a meeting, the list, and the shell, with the
proofs above.

Next, in order:

1. `Uplink`: the client with `AudioRingBuffer` as its buffer, composed, so that
   the two are checked in one run.
2. `TokenSession`: refresh, concurrent refresh and logout. Properties: a logout
   stays, a refresh that succeeded is not undone by one that failed.
3. `AudioPipeline`: bounded channels, mixer and encoder threads, drain on stop.
4. `EmbedSegments`; several sessions of one meeting with their duration, speaker
   count and line order.

Proofs worth adding:

- an abstract specification of a session's outcome (open, settled, announced) that
  `TranscriptSession` implements, and one of an archive (captured, stored, gone)
  for `AudioArchive`;
- the safety halves of `EndingSessionEnds` and `ArchiveSettles`: a coroutine that
  waits has one that will wake it, a file has a task that will unlink it;
- with `Uplink`, that the client over the circular array implements
  `TranscriptUplink` as well, from the two refinements there are.
