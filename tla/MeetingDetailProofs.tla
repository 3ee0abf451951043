------------------------ MODULE MeetingDetailProofs -------------------------
(***************************************************************************)
(* For every set of action items and any number of writes: when the user   *)
(* waits for writes to be answered, the ticks a fresh cache entry shows    *)
(* are the server's.                                                       *)
(***************************************************************************)
EXTENDS MeetingDetail, TLAPS

(* The three parts of the type invariant that steps change apart from each *)
(* other.                                                                  *)
ServerTypeOK == row \in Rows /\ encoded \in BOOLEAN /\ recent \in BOOLEAN

QueryTypeOK ==
    /\ cache \in Rows \cup {NoRow}
    /\ fetch \in {Idle, Sent} \cup [at : {"read"}, data : Rows]
    /\ stale \in BOOLEAN /\ error \in BOOLEAN

WriteTypeOK ==
    /\ made \in 0..MaxWrites
    /\ writes \subseteq Writes
    /\ \A w \in writes : w.kind = "tick" => w.item \in Items

ViewTypeOK ==
    /\ view \in {"none", "detail", "ended"}
    /\ poll \in BOOLEAN /\ saw \in BOOLEAN /\ gaveUp \in BOOLEAN /\ stuck \in BOOLEAN

LEMMA TypeSplit ==
    TypeOK <=> ServerTypeOK /\ QueryTypeOK /\ WriteTypeOK /\ ViewTypeOK
BY DEF TypeOK, ServerTypeOK, QueryTypeOK, WriteTypeOK, ViewTypeOK

LEMMA TypeSplitNext ==
    TypeOK' <=> ServerTypeOK' /\ QueryTypeOK' /\ WriteTypeOK' /\ ViewTypeOK'
BY TypeSplit, PTL

(* What a GET that has been read will answer with.                         *)
LEMMA ReadLemma ==
    ASSUME QueryTypeOK, fetch.at = "read"
    PROVE  fetch.data \in Rows
BY DEF QueryTypeOK, Idle, Sent

(* Rendering a view changes neither which view it is nor the types.        *)
LEMMA RenderLemma ==
    ASSUME ViewTypeOK, NEW c \in Rows \cup {NoRow}, NEW failed \in BOOLEAN,
           NEW giveUp \in BOOLEAN, Render(c, failed, giveUp)
    PROVE  ViewTypeOK' /\ view' = view
<1>1. c.key \in BOOLEAN
  <2>1. ASSUME c \in Rows PROVE c.key \in BOOLEAN
    BY <2>1 DEF Rows
  <2>2. ASSUME c = NoRow PROVE c.key \in BOOLEAN
    BY <2>2 DEF NoRow
  <2> QED BY <2>1, <2>2
<1> QED BY <1>1 DEF Render, ViewTypeOK, ShouldPoll, IsPendingSummary

LEMMA RenderedLemma ==
    ASSUME ViewTypeOK, QueryTypeOK', NEW force, Rendered(force)
    PROVE  ViewTypeOK' /\ view' = view
<1>1. CASE UNCHANGED viewVars
  BY <1>1 DEF viewVars, ViewTypeOK
<1>2. CASE Render(cache', gaveUp, stuck)
  BY <1>2, RenderLemma DEF QueryTypeOK, ViewTypeOK
<1> QED BY <1>1, <1>2 DEF Rendered

-----------------------------------------------------------------------------
(* Type correctness, action by action.                                     *)

LEMMA InitType == Init => TypeOK
<1> SUFFICES ASSUME Init PROVE TypeOK
  OBVIOUS
<1>1. ServerTypeOK
  <2>1. PICK s \in {"recording", "completed"} :
           row = [status |-> s, key |-> FALSE, summary |-> "pending", gen |-> 0, done |-> {}]
    BY DEF Init
  <2>2. row \in Rows
    BY <2>1 DEF Rows, Statuses, Working
  <2> QED BY <2>2 DEF Init, ServerTypeOK
<1>2. QueryTypeOK
  BY DEF Init, QueryTypeOK
<1>3. WriteTypeOK
  BY DetailAssumption DEF Init, WriteTypeOK
<1>4. ViewTypeOK
  BY DEF Init, ViewTypeOK
<1> QED BY <1>1, <1>2, <1>3, <1>4, TypeSplit

LEMMA ServerType == TypeOK /\ ServerStep => TypeOK'
<1> SUFFICES ASSUME TypeOK, ServerStep PROVE TypeOK'
  OBVIOUS
<1>1. /\ UNCHANGED <<queryVars, writes, made, viewVars>>
      /\ row' \in Rows /\ encoded' \in BOOLEAN /\ recent' \in BOOLEAN
  <2>1. CASE Finalize
    BY <2>1 DEF Finalize, TypeOK, Rows, Statuses
  <2>2. CASE Encode
    BY <2>2 DEF Encode, TypeOK, Rows
  <2>3. CASE Summarise
    <3>1. CASE row' = [row EXCEPT !.summary = "completed", !.gen = @ + 1, !.done = {}]
      <4>1. row.gen + 1 \in Nat /\ {} \in SUBSET Items
        BY DEF TypeOK, Rows
      <4>2. row' \in Rows
        BY <3>1, <4>1 DEF TypeOK, Rows, Finished
      <4> QED BY <2>3, <4>2 DEF Summarise, TypeOK
    <3>2. ASSUME NEW s \in {"too_short", "failed"}, row' = [row EXCEPT !.summary = s]
          PROVE  row' \in Rows
      BY <3>2 DEF TypeOK, Rows, Finished
    <3> QED BY <2>3, <3>1, <3>2 DEF Summarise, TypeOK
  <2>4. CASE TimePasses
    BY <2>4 DEF TimePasses, TypeOK
  <2> QED BY <2>1, <2>2, <2>3, <2>4 DEF ServerStep
<1> QED BY <1>1 DEF TypeOK, queryVars, viewVars

(* What applying a write does to the row, and the reply it becomes.        *)
LEMMA ApplyLemma ==
    ASSUME TypeOK, NEW w \in writes, Apply(w)
    PROVE  /\ row' \in Rows /\ row'.gen = row.gen
           /\ w.kind # "tick" => row'.done = row.done
           /\ \E reply \in Writes :
                  /\ writes' = (writes \ {w}) \cup {reply}
                  /\ reply.kind = w.kind /\ reply.item = w.item
                  /\ reply.data = IF w.kind \in {"regenerate", "rename"} THEN row' ELSE w.data
<1>1. w \in Writes /\ (w.kind = "tick" => w.item \in Items) /\ row \in Rows
  BY DEF TypeOK
<1>2. row' \in Rows /\ row'.gen = row.gen /\ (w.kind # "tick" => row'.done = row.done)
  <2>1. CASE w.kind = "tick" /\ w.gen = row.gen
    BY <1>1, <2>1 DEF Apply, Rows
  <2>2. CASE w.kind = "regenerate"
    BY <1>1, <2>2 DEF Apply, Rows, Working
  <2>3. CASE w.kind = "delete"
    BY <1>1, <2>3 DEF Apply, Rows
  <2>4. CASE ~(w.kind = "tick" /\ w.gen = row.gen) /\ w.kind \notin {"regenerate", "delete"}
    BY <1>1, <2>4 DEF Apply
  <2> QED BY <2>1, <2>2, <2>3, <2>4
<1> DEFINE reply == [w EXCEPT !.at = IF w.kind = "tick" /\ w.gen # row.gen
                                     THEN "refused" ELSE "applied",
                              !.data = IF w.kind \in {"regenerate", "rename"}
                                       THEN row' ELSE @]
<1>3. /\ reply \in Writes /\ reply.kind = w.kind /\ reply.item = w.item
      /\ reply.data = IF w.kind \in {"regenerate", "rename"} THEN row' ELSE w.data
  BY <1>1, <1>2 DEF Writes
<1>4. writes' = (writes \ {w}) \cup {reply}
  BY DEF Apply
<1> HIDE DEF reply
<1> QED BY <1>2, <1>3, <1>4

LEMMA ApplyType == TypeOK /\ (\E w \in writes : Apply(w)) => TypeOK'
<1> SUFFICES ASSUME TypeOK, NEW w \in writes, Apply(w) PROVE TypeOK'
  OBVIOUS
<1>1. WriteTypeOK'
  <2>1. PICK reply \in Writes : /\ writes' = (writes \ {w}) \cup {reply}
                                /\ reply.kind = w.kind /\ reply.item = w.item
    BY ApplyLemma
  <2> QED BY <2>1 DEF Apply, TypeOK, WriteTypeOK
<1>2. row' \in Rows
  BY ApplyLemma
<1> QED BY <1>1, <1>2, TypeSplitNext, TypeSplit
        DEF Apply, ServerTypeOK, QueryTypeOK, ViewTypeOK, queryVars, viewVars

LEMMA RefuseType == TypeOK /\ (\E w \in writes : Refuse(w)) => TypeOK'
<1> SUFFICES ASSUME TypeOK, NEW w \in writes, Refuse(w) PROVE TypeOK'
  OBVIOUS
<1> DEFINE done == [w EXCEPT !.at = "refused"]
<1>1. done \in Writes /\ done.kind = w.kind /\ done.item = w.item
  BY DEF Writes, TypeOK
<1>2. writes' = (writes \ {w}) \cup {done}
  BY DEF Refuse
<1> HIDE DEF done
<1>3. WriteTypeOK'
  BY <1>1, <1>2 DEF Refuse, TypeOK, WriteTypeOK
<1> QED BY <1>3, TypeSplitNext, TypeSplit
        DEF Refuse, ServerTypeOK, QueryTypeOK, ViewTypeOK, serverVars, queryVars, viewVars

(* What a callback hands to the cache has the type of the entry.           *)
LEMMA CallbackLemma ==
    ASSUME NEW w \in Writes, NEW ok \in BOOLEAN
    PROVE  /\ Callback(w, ok).data \in Rows \cup {NoRow}
           /\ Callback(w, ok).invalidate \in BOOLEAN
           /\ w.kind \in {"tick", "regenerate"} => Callback(w, ok).invalidate
           /\ w.kind \in {"edit", "delete"} => Callback(w, ok).data = NoRow
           /\ w.kind = "rename" => Callback(w, ok).data = IF ok THEN w.data ELSE NoRow
BY DEF Callback, PatchActionItem, SummariseMeeting, UpdateMeeting,
       DeleteMeetingAudio, UpdateSpeakerAliases, Writes, Kinds

(* What settling a write does to the cache entry and to the GET in flight. *)
LEMMA SettleLemma ==
    ASSUME TypeOK, NEW w \in writes, NEW ok \in BOOLEAN, Settle(w, ok)
    PROVE  /\ QueryTypeOK'
           /\ Callback(w, ok).data = NoRow => cache' = cache
           /\ Callback(w, ok).data # NoRow => cache' = Callback(w, ok).data
           /\ Callback(w, ok).invalidate =>
                  stale' = TRUE /\ fetch' = IF view # "none" THEN Sent ELSE fetch
           /\ ~Callback(w, ok).invalidate =>
                  /\ fetch' = fetch
                  /\ stale' = (stale /\ Callback(w, ok).data = NoRow)
<1>1. Callback(w, ok).data \in Rows \cup {NoRow} /\ Callback(w, ok).invalidate \in BOOLEAN
  BY CallbackLemma DEF TypeOK
<1> QED BY <1>1 DEF Settle, SetQueryData, Invalidate, TypeOK, QueryTypeOK

LEMMA SettleType ==
    TypeOK /\ (\E w \in writes : \E ok \in BOOLEAN : Settle(w, ok)) => TypeOK'
<1> SUFFICES ASSUME TypeOK, NEW w \in writes, NEW ok \in BOOLEAN, Settle(w, ok)
             PROVE  TypeOK'
  OBVIOUS
<1>1. QueryTypeOK'
  BY SettleLemma
<1>2. ViewTypeOK'
  BY <1>1, TypeSplit, RenderedLemma DEF Settle
<1>3. WriteTypeOK' /\ ServerTypeOK'
  BY DEF Settle, TypeOK, WriteTypeOK, ServerTypeOK, serverVars
<1> QED BY <1>1, <1>2, <1>3, TypeSplitNext

LEMMA CacheGen ==
    ASSUME QueryTypeOK
    PROVE  cache.gen \in Nat /\ (cache = NoRow => cache.gen = 0)
<1>1. ASSUME cache \in Rows PROVE cache.gen \in Nat
  BY <1>1 DEF Rows
<1>2. ASSUME cache = NoRow PROVE cache.gen = 0
  BY <1>2 DEF NoRow
<1> QED BY <1>1, <1>2 DEF QueryTypeOK

(* The request a mutation adds.                                            *)
Added(kind, data) ==
    \E new \in Writes : /\ writes' = writes \cup {new}
                        /\ new.kind = kind /\ new.at = "sent" /\ new.data = data

LEMMA WriteLemma ==
    ASSUME TypeOK, NEW kind \in Kinds, NEW item \in Items \cup {{}}, NEW value \in BOOLEAN,
           NEW data \in Rows \cup {NoRow}, kind = "tick" => item \in Items,
           Write(kind, item, value, data)
    PROVE  /\ WriteTypeOK'
           /\ Added(kind, data)
           /\ PatientUser => ~Pending("rename") /\ (kind = "rename" => writes = {})
<1> DEFINE new == [id |-> made, kind |-> kind, at |-> "sent", item |-> item,
                   value |-> value, gen |-> cache.gen, data |-> data]
<1>1. made \in Nat /\ made + 1 \in 0..MaxWrites
  BY DetailAssumption DEF Write, TypeOK
<1>2. /\ new \in Writes
      /\ new.kind = kind /\ new.at = "sent" /\ new.data = data /\ new.item = item
  BY <1>1, CacheGen, TypeSplit DEF Writes
<1>3. writes' = writes \cup {new} /\ made' = made + 1
  BY DEF Write
<1> HIDE DEF new
<1>4. WriteTypeOK'
  BY <1>1, <1>2, <1>3 DEF TypeOK, WriteTypeOK
<1> QED BY <1>2, <1>3, <1>4 DEF Write, Added

(* Only an entry with a summary has checkboxes.                            *)
LEMMA TickedRow ==
    ASSUME QueryTypeOK, SummaryCard(cache) = "completed"
    PROVE  cache \in Rows
BY DEF QueryTypeOK, SummaryCard, NoRow, Working

LEMMA OptimisticLemma ==
    ASSUME cache \in Rows, NEW item \in Items, NEW value \in BOOLEAN
    PROVE  OptimisticTick(item, value) \in Rows /\ OptimisticTick(item, value).gen = cache.gen
<1>1. (IF value THEN cache.done \cup {item} ELSE cache.done \ {item}) \in SUBSET Items
  BY DEF Rows
<1> QED BY <1>1 DEF OptimisticTick, Rows

LEMMA TickType ==
    ASSUME TypeOK, NEW item \in Items, Tick(item)
    PROVE  TypeOK'
<1> DEFINE value == item \notin cache.done
<1>1. cache \in Rows
  BY TickedRow, TypeSplit DEF Tick
<1>2. Write("tick", item, value, cache) /\ SetQueryData(OptimisticTick(item, value))
  BY DEF Tick
<1>3. value \in BOOLEAN
  OBVIOUS
<1> HIDE DEF value
<1>4. WriteTypeOK'
  BY <1>1, <1>2, <1>3, WriteLemma DEF Kinds
<1>5. QueryTypeOK'
  BY <1>1, <1>2, <1>3, OptimisticLemma DEF Tick, SetQueryData, QueryTypeOK
<1>6. ViewTypeOK'
  BY <1>5, TypeSplit, RenderedLemma DEF Tick
<1>7. ServerTypeOK'
  BY TypeSplit DEF Tick, serverVars, ServerTypeOK
<1> QED BY <1>4, <1>5, <1>6, <1>7, TypeSplitNext

(* The mutations without an optimistic update.                             *)
OtherWrite == Regenerate \/ DeleteAudio \/ EditHeader \/ RenameSpeaker

LEMMA OtherWriteLemma ==
    ASSUME TypeOK, OtherWrite
    PROVE  /\ \E kind \in Kinds \ {"tick"} : Write(kind, {}, FALSE, NoRow)
           /\ UNCHANGED <<serverVars, queryVars>>
           /\ view' = view /\ ViewTypeOK' /\ view # "none"
<1>1. ASSUME UNCHANGED queryVars PROVE QueryTypeOK'
  BY <1>1, TypeSplit DEF queryVars, QueryTypeOK
<1>2. ASSUME UNCHANGED viewVars PROVE ViewTypeOK' /\ view' = view
  BY <1>2, TypeSplit DEF viewVars, ViewTypeOK
<1>3. CASE Regenerate
  <2>1. UNCHANGED queryVars
    BY <1>3 DEF Regenerate, queryVars
  <2> QED BY <1>1, <1>3, <2>1, RenderedLemma, TypeSplit DEF Regenerate, Kinds
<1>4. CASE DeleteAudio
  BY <1>2, <1>4 DEF DeleteAudio, Kinds
<1>5. CASE EditHeader
  <2>1. UNCHANGED queryVars
    BY <1>5 DEF EditHeader, queryVars
  <2> QED BY <1>1, <1>5, <2>1, RenderedLemma, TypeSplit DEF EditHeader, Kinds
<1>6. CASE RenameSpeaker
  BY <1>2, <1>6 DEF RenameSpeaker, Kinds
<1> QED BY <1>3, <1>4, <1>5, <1>6 DEF OtherWrite

LEMMA OtherWriteType == TypeOK /\ OtherWrite => TypeOK'
<1> SUFFICES ASSUME TypeOK, OtherWrite PROVE TypeOK'
  OBVIOUS
<1>1. WriteTypeOK'
  <2>1. PICK kind \in Kinds \ {"tick"} : Write(kind, {}, FALSE, NoRow)
    BY OtherWriteLemma
  <2> QED BY <2>1, WriteLemma
<1>2. ServerTypeOK' /\ QueryTypeOK' /\ ViewTypeOK'
  BY OtherWriteLemma, TypeSplit DEF serverVars, queryVars, ServerTypeOK, QueryTypeOK
<1> QED BY <1>1, <1>2, TypeSplitNext

(* Reading: what it does to the GET, the entry and the view.               *)
ReadStep ==
    \/ \E v \in {"detail", "ended"} : Mount(v)
    \/ Leave \/ Ages \/ Refetch \/ ServerReads \/ FetchSucceeds \/ FetchFails
    \/ EncodeBudgetElapses \/ SummaryBudgetElapses

LEMMA ReadType == TypeOK /\ ReadStep => TypeOK'
<1> SUFFICES ASSUME TypeOK, ReadStep PROVE TypeOK'
  OBVIOUS
<1> USE TypeSplit
<1>1. UNCHANGED <<serverVars, writes, made>>
  BY DEF ReadStep, Mount, Leave, Ages, Refetch, ServerReads, FetchSucceeds, FetchFails,
         EncodeBudgetElapses, SummaryBudgetElapses
<1>2. ServerTypeOK' /\ WriteTypeOK'
  BY <1>1 DEF serverVars, ServerTypeOK, WriteTypeOK
<1> SUFFICES QueryTypeOK' /\ ViewTypeOK'
  BY <1>2, TypeSplitNext
<1>3. ASSUME NEW v \in {"detail", "ended"}, Mount(v) PROVE QueryTypeOK' /\ ViewTypeOK'
  BY <1>3 DEF Mount, QueryTypeOK, ViewTypeOK, ShouldPoll, IsPendingSummary
<1>4. CASE Leave
  BY <1>4 DEF Leave, queryVars, QueryTypeOK, ViewTypeOK
<1>5. CASE Ages
  BY <1>5 DEF Ages, viewVars, QueryTypeOK, ViewTypeOK
<1>6. CASE Refetch
  BY <1>6 DEF Refetch, viewVars, QueryTypeOK, ViewTypeOK
<1>7. CASE ServerReads
  BY <1>7 DEF ServerReads, viewVars, QueryTypeOK, ViewTypeOK, ServerTypeOK
<1>8. CASE FetchSucceeds
  <2>1. QueryTypeOK'
    BY <1>8, ReadLemma DEF FetchSucceeds, SetQueryData, QueryTypeOK
  <2> QED BY <1>8, <2>1, RenderedLemma DEF FetchSucceeds
<1>9. CASE FetchFails
  <2>1. QueryTypeOK'
    BY <1>9 DEF FetchFails, QueryTypeOK
  <2> QED BY <1>9, <2>1, RenderedLemma DEF FetchFails
<1>10. CASE EncodeBudgetElapses
  <2>1. Render(cache, TRUE, stuck) /\ UNCHANGED queryVars
    BY <1>10 DEF EncodeBudgetElapses
  <2> QED BY <2>1, RenderLemma DEF queryVars, QueryTypeOK, ViewTypeOK
<1>11. CASE SummaryBudgetElapses
  <2>1. Render(cache, gaveUp, TRUE) /\ UNCHANGED queryVars
    BY <1>11 DEF SummaryBudgetElapses
  <2> QED BY <2>1, RenderLemma DEF queryVars, QueryTypeOK, ViewTypeOK
<1> QED BY <1>3, <1>4, <1>5, <1>6, <1>7, <1>8, <1>9, <1>10, <1>11 DEF ReadStep

LEMMA NextCases ==
    Next => \/ ServerStep \/ ReadStep \/ OtherWrite
            \/ \E w \in writes : Apply(w) \/ Refuse(w) \/ \E ok \in BOOLEAN : Settle(w, ok)
            \/ \E item \in Items : Tick(item)
BY DEF Next, ReadStep, OtherWrite

LEMMA NextType == TypeOK /\ [Next]_vars => TypeOK'
<1>1. TypeOK /\ UNCHANGED vars => TypeOK'
  BY DEF vars, serverVars, queryVars, viewVars, TypeOK
<1> QED BY <1>1, NextCases, ServerType, ApplyType, RefuseType, SettleType, TickType,
           OtherWriteType, ReadType

(* In every reachable state the row, the entry, the requests and the view  *)
(* have their types.                                                       *)
THEOREM TypeCorrect == Spec => []TypeOK
BY InitType, NextType, PTL DEF Spec

-----------------------------------------------------------------------------
(* No copy of the row knows of a summary the server has not stored.        *)
NoneFromTheFuture ==
    /\ cache.gen <= row.gen
    /\ fetch.at = "read" => fetch.data.gen <= row.gen
    /\ \A w \in writes : w.data.gen <= row.gen

(* What the patient user guarantees: a write is answered to a mounted      *)
(* view, and a rename waits and is answered alone.                         *)
OneAtATime ==
    /\ writes # {} => view # "none"
    /\ \A w \in writes : w.kind = "rename" => writes = {w}

(* A copy of the row shows the ticks of the summary it was read from.      *)
Current(data) == data.gen = row.gen => data.done = row.done

(* While no tick is pending, nothing that is or may become fresh data - an *)
(* answer on its way, the reply of a rename, the entry itself - shows      *)
(* other ticks than the server has.                                        *)
NoStaleTicks ==
    ~Pending("tick") =>
        /\ fetch.at = "read" => Current(fetch.data)
        /\ ~stale /\ cache # NoRow => Current(cache)
        /\ \A w \in writes : w.kind = "rename" /\ w.at = "applied" => Current(w.data)

Inv == TypeOK /\ NoneFromTheFuture /\ OneAtATime /\ NoStaleTicks

(* The numbers of summaries are comparable.                                *)
LEMMA GenTypes ==
    ASSUME TypeOK
    PROVE  /\ row.gen \in Nat /\ cache.gen \in Nat
           /\ fetch.at = "read" => fetch.data.gen \in Nat
           /\ \A w \in writes : w.data.gen \in Nat
<1>1. \A c \in Rows \cup {NoRow} : c.gen \in Nat
  <2>1. \A c \in Rows : c.gen \in Nat
    BY DEF Rows
  <2>2. NoRow.gen \in Nat
    BY DEF NoRow
  <2> QED BY <2>1, <2>2
<1>2. \A w \in writes : w.data \in Rows \cup {NoRow}
  BY DEF TypeOK, Writes
<1>3. fetch.at = "read" => fetch.data \in Rows
  BY ReadLemma, TypeSplit
<1> QED BY <1>1, <1>2, <1>3 DEF TypeOK

LEMMA InitInv == Init => Inv
<1> SUFFICES ASSUME Init PROVE Inv
  OBVIOUS
<1>1. TypeOK
  BY InitType
<1>2. /\ cache = NoRow /\ fetch = Idle /\ writes = {}
      /\ row.gen \in Nat /\ cache.gen = 0
  BY <1>1, GenTypes DEF Init, NoRow
<1> QED BY <1>1, <1>2 DEF Inv, NoneFromTheFuture, OneAtATime, NoStaleTicks, Idle

LEMMA ServerInv == Inv /\ ServerStep => Inv'
<1> SUFFICES ASSUME Inv, ServerStep PROVE Inv'
  OBVIOUS
<1> USE DEF Inv
<1>1. UNCHANGED <<cache, stale, fetch, writes, view>>
  BY DEF ServerStep, Finalize, Encode, Summarise, TimePasses, queryVars, viewVars
<1>2. (row'.gen = row.gen /\ row'.done = row.done) \/ row'.gen = row.gen + 1
  BY DEF ServerStep, Finalize, Encode, Summarise, TimePasses, TypeOK, Rows
<1>3. TypeOK'
  BY ServerType
<1>4. NoneFromTheFuture' /\ NoStaleTicks'
  BY <1>1, <1>2, GenTypes DEF NoneFromTheFuture, NoStaleTicks, Current, Pending
<1> QED BY <1>1, <1>3, <1>4 DEF OneAtATime

LEMMA ApplyInv == Inv /\ (\E w \in writes : Apply(w)) => Inv'
<1> SUFFICES ASSUME Inv, NEW w \in writes, Apply(w) PROVE Inv'
  OBVIOUS
<1> USE DEF Inv
<1>1. UNCHANGED <<cache, stale, fetch, view>>
  BY DEF Apply, queryVars, viewVars
<1>2. row'.gen = row.gen /\ (w.kind # "tick" => row'.done = row.done)
  BY ApplyLemma
<1>3. PICK reply \in Writes :
         /\ writes' = (writes \ {w}) \cup {reply} /\ reply.kind = w.kind
         /\ reply.data = IF w.kind \in {"regenerate", "rename"} THEN row' ELSE w.data
  BY ApplyLemma
<1>4. TypeOK'
  BY ApplyType
<1>5. NoneFromTheFuture'
  BY <1>1, <1>2, <1>3, GenTypes DEF NoneFromTheFuture
<1>6. OneAtATime'
  BY <1>1, <1>3 DEF OneAtATime
<1>7. NoStaleTicks'
  <2>1. CASE w.kind = "tick"
    BY <1>3, <2>1 DEF NoStaleTicks, Pending
  <2>2. CASE w.kind # "tick"
    <3>1. Pending("tick")' <=> Pending("tick")
      BY <1>3, <2>2 DEF Pending
    <3>2. \A data : Current(data) => (data.gen = row'.gen => data.done = row'.done)
      BY <1>2, <2>2 DEF Current
    <3>3. reply.kind = "rename" => reply.data = row'
      BY <1>3
    <3> QED BY <1>1, <1>3, <3>1, <3>2, <3>3 DEF NoStaleTicks, Current
  <2> QED BY <2>1, <2>2
<1> QED BY <1>4, <1>5, <1>6, <1>7

LEMMA RefuseInv == Inv /\ (\E w \in writes : Refuse(w)) => Inv'
<1> SUFFICES ASSUME Inv, NEW w \in writes, Refuse(w) PROVE Inv'
  OBVIOUS
<1> USE DEF Inv
<1> DEFINE reply == [w EXCEPT !.at = "refused"]
<1>1. UNCHANGED <<row, cache, stale, fetch, view>>
  BY DEF Refuse, serverVars, queryVars, viewVars
<1>2. reply.kind = w.kind /\ reply.data = w.data /\ reply.at = "refused"
  BY DEF TypeOK, Writes
<1>3. writes' = (writes \ {w}) \cup {reply}
  BY DEF Refuse
<1> HIDE DEF reply
<1>4. TypeOK'
  BY RefuseType
<1>5. NoneFromTheFuture'
  BY <1>1, <1>2, <1>3 DEF NoneFromTheFuture
<1>6. OneAtATime'
  BY <1>1, <1>2, <1>3 DEF OneAtATime
<1>7. NoStaleTicks'
  BY <1>1, <1>2, <1>3 DEF NoStaleTicks, Current, Pending
<1> QED BY <1>4, <1>5, <1>6, <1>7

(* The callbacks of a write that is not a tick leave the entry current; a  *)
(* tick that is answered, well or not, leaves it stale and asks again.     *)
LEMMA SettleInv == Inv /\ (\E w \in writes : \E ok \in BOOLEAN : Settle(w, ok)) => Inv'
<1> SUFFICES ASSUME Inv, NEW w \in writes, NEW ok \in BOOLEAN, Settle(w, ok)
             PROVE  Inv'
  OBVIOUS
<1> USE DEF Inv
<1> DEFINE after == Callback(w, ok)
<1>1. TypeOK'
  BY SettleType
<1>2. w \in Writes /\ row' = row /\ writes' = writes \ {w} /\ (ok => w.at = "applied")
  BY DEF Settle, serverVars, TypeOK
<1>3. view' = view /\ view # "none"
  <2>1. QueryTypeOK'
    BY <1>1, TypeSplitNext
  <2> QED BY <2>1, TypeSplit, RenderedLemma DEF Settle, OneAtATime
<1>4. /\ after.data = NoRow => cache' = cache
      /\ after.data # NoRow => cache' = after.data
      /\ after.invalidate => stale' = TRUE /\ fetch' = Sent
      /\ ~after.invalidate => fetch' = fetch /\ stale' = (stale /\ after.data = NoRow)
  BY <1>3, SettleLemma
<1>5. /\ w.kind \in {"tick", "regenerate"} => after.invalidate
      /\ w.kind \in {"edit", "delete"} => after.data = NoRow
      /\ w.kind = "rename" => after.data = IF ok THEN w.data ELSE NoRow
      /\ after.data \in {w.data, NoRow}
  BY <1>2, CallbackLemma DEF Callback, PatchActionItem, SummariseMeeting, UpdateMeeting,
     DeleteMeetingAudio, UpdateSpeakerAliases, Writes, Kinds
<1>6. w.kind \in {"tick", "regenerate", "edit", "delete", "rename"}
  BY <1>2 DEF Writes, Kinds
<1> HIDE DEF after
<1>7. NoneFromTheFuture'
  <2>1. cache' \in {cache, w.data}
    BY <1>4, <1>5
  <2>2. fetch' \in {fetch, Sent}
    BY <1>3, <1>4, SettleLemma, CallbackLemma DEF after
  <2> QED BY <1>2, <2>1, <2>2 DEF NoneFromTheFuture, Sent
<1>8. OneAtATime'
  BY <1>2, <1>3 DEF OneAtATime
<1>9. NoStaleTicks'
  <2>1. CASE after.invalidate
    <3>1. fetch'.at # "read" /\ stale'
      BY <1>4, <2>1 DEF Sent
    <3>2. \A x \in writes' : x.kind # "rename"
      BY <1>2 DEF OneAtATime
    <3> QED BY <3>1, <3>2 DEF NoStaleTicks
  <2>2. CASE ~after.invalidate
    <3>1. Pending("tick")' <=> Pending("tick")
      BY <1>2, <1>5, <2>2 DEF Pending
    <3>2. w.kind \in {"edit", "delete", "rename"} /\ fetch' = fetch
      BY <1>4, <1>5, <1>6, <2>2
    <3>3. after.data # NoRow => w.kind = "rename" /\ after.data = w.data /\ w.at = "applied"
      BY <1>2, <1>5, <3>2
    <3>4. ~Pending("tick") => (~stale' /\ cache' # NoRow => Current(cache'))
      BY <1>4, <2>2, <3>3 DEF NoStaleTicks
    <3> QED BY <1>2, <3>1, <3>2, <3>4 DEF NoStaleTicks, Current
  <2> QED BY <2>1, <2>2, <1>2, CallbackLemma DEF after
<1> QED BY <1>1, <1>7, <1>8, <1>9

LEMMA TickInv == PatientUser /\ Inv /\ (\E item \in Items : Tick(item)) => Inv'
<1> SUFFICES ASSUME PatientUser, Inv, NEW item \in Items, Tick(item) PROVE Inv'
  OBVIOUS
<1> USE DEF Inv
<1> DEFINE value == item \notin cache.done
<1>1. TypeOK'
  BY TickType
<1>2. cache \in Rows
  BY TickedRow, TypeSplit DEF Tick
<1>3. Write("tick", item, value, cache) /\ cache' = OptimisticTick(item, value)
  BY DEF Tick, SetQueryData
<1>4. value \in BOOLEAN
  OBVIOUS
<1> HIDE DEF value
<1>5. PICK new \in Writes : /\ writes' = writes \cup {new}
                            /\ new.kind = "tick" /\ new.data = cache
  BY <1>2, <1>3, <1>4, WriteLemma DEF Kinds, Added
<1>6. /\ cache'.gen = cache.gen /\ fetch' = Idle /\ row' = row
      /\ view # "none" /\ ~Pending("rename")
  BY <1>2, <1>3, <1>4, OptimisticLemma, WriteLemma DEF Tick, serverVars, Kinds
<1>7. view' = view
  <2>1. QueryTypeOK'
    BY <1>1, TypeSplitNext
  <2> QED BY <2>1, TypeSplit, RenderedLemma DEF Tick
<1>8. NoneFromTheFuture' /\ OneAtATime'
  BY <1>5, <1>6, <1>7 DEF NoneFromTheFuture, OneAtATime, Pending, Idle
<1>9. NoStaleTicks'
  BY <1>5 DEF NoStaleTicks, Pending
<1> QED BY <1>1, <1>8, <1>9

LEMMA OtherWriteInv == PatientUser /\ Inv /\ OtherWrite => Inv'
<1> SUFFICES ASSUME PatientUser, Inv, OtherWrite PROVE Inv'
  OBVIOUS
<1> USE DEF Inv
<1>1. TypeOK'
  BY OtherWriteType
<1>2. PICK kind \in Kinds \ {"tick"} : Write(kind, {}, FALSE, NoRow)
  BY OtherWriteLemma
<1>3. UNCHANGED <<row, cache, stale, fetch, view>> /\ view # "none"
  BY OtherWriteLemma DEF serverVars, queryVars
<1>4. ~Pending("rename") /\ (kind = "rename" => writes = {})
  BY <1>2, WriteLemma
<1>5. PICK new \in Writes :
         /\ writes' = writes \cup {new}
         /\ new.kind = kind /\ new.at = "sent" /\ new.data = NoRow
  <2>1. Added(kind, NoRow)
    BY <1>2, WriteLemma
  <2> QED BY <2>1 DEF Added
<1>6. NoneFromTheFuture'
  BY <1>3, <1>5, GenTypes DEF NoneFromTheFuture, NoRow
<1>7. OneAtATime'
  BY <1>3, <1>4, <1>5 DEF OneAtATime, Pending
<1>8. NoStaleTicks'
  BY <1>3, <1>5 DEF NoStaleTicks, Current, Pending
<1> QED BY <1>1, <1>6, <1>7, <1>8

LEMMA ReadInv == PatientUser /\ Inv /\ ReadStep => Inv'
<1> SUFFICES ASSUME PatientUser, Inv, ReadStep PROVE Inv'
  OBVIOUS
<1> USE DEF Inv
<1>1. TypeOK'
  BY ReadType
<1>2. UNCHANGED <<row, writes>>
  BY DEF ReadStep, Mount, Leave, Ages, Refetch, ServerReads, FetchSucceeds, FetchFails,
         EncodeBudgetElapses, SummaryBudgetElapses, serverVars
<1>3. writes # {} => view' # "none"
  <2>1. CASE \E v \in {"detail", "ended"} : Mount(v)
    BY <2>1 DEF Mount
  <2>2. CASE Leave
    BY <2>2 DEF Leave
  <2>3. CASE Ages \/ Refetch \/ ServerReads
    BY <2>3 DEF Ages, Refetch, ServerReads, viewVars, OneAtATime
  <2>4. CASE FetchSucceeds \/ FetchFails
    <3>1. QueryTypeOK'
      BY <1>1, TypeSplitNext
    <3>2. view' = view
      BY <2>4, <3>1, RenderedLemma, TypeSplit DEF FetchSucceeds, FetchFails
    <3> QED BY <3>2 DEF OneAtATime
  <2>5. CASE EncodeBudgetElapses \/ SummaryBudgetElapses
    BY <2>5 DEF EncodeBudgetElapses, SummaryBudgetElapses, Render, OneAtATime
  <2> QED BY <2>1, <2>2, <2>3, <2>4, <2>5 DEF ReadStep
<1>4. \/ /\ cache' = cache
         /\ stale' \in {stale, TRUE}
         /\ fetch' \in {fetch, Idle, Sent} \/ fetch' = [at |-> "read", data |-> row]
      \/ fetch.at = "read" /\ cache' = fetch.data /\ fetch' = Idle
  BY DEF ReadStep, Mount, Leave, Ages, Refetch, ServerReads, FetchSucceeds, FetchFails,
         EncodeBudgetElapses, SummaryBudgetElapses, queryVars, SetQueryData
<1>5. row.gen <= row.gen
  BY GenTypes
<1>6. fetch'.at = "read" => fetch' = fetch \/ fetch'.data = row
  <2>1. Idle.at # "read" /\ Sent.at # "read"
    BY DEF Idle, Sent
  <2>2. ASSUME NEW d, fetch' = [at |-> "read", data |-> d] PROVE fetch'.data = d
    BY <2>2
  <2> QED BY <1>4, <2>1, <2>2
<1>7. NoneFromTheFuture'
  <2>1. cache'.gen <= row.gen
    BY <1>4 DEF NoneFromTheFuture
  <2>2. fetch'.at = "read" => fetch'.data.gen <= row.gen
    BY <1>5, <1>6 DEF NoneFromTheFuture
  <2> QED BY <1>2, <2>1, <2>2 DEF NoneFromTheFuture
<1>8. OneAtATime'
  BY <1>2, <1>3 DEF OneAtATime
<1>9. NoStaleTicks'
  <2>1. ASSUME ~Pending("tick"), fetch'.at = "read" PROVE Current(fetch'.data)
    BY <1>6, <2>1 DEF NoStaleTicks, Current
  <2>2. ASSUME ~Pending("tick"), ~stale', cache' # NoRow PROVE Current(cache')
    BY <1>4, <2>2 DEF NoStaleTicks
  <2>3. Pending("tick")' = Pending("tick")
    BY <1>2 DEF Pending
  <2> QED BY <1>2, <2>1, <2>2, <2>3 DEF NoStaleTicks, Current
<1> QED BY <1>1, <1>7, <1>8, <1>9

LEMMA NextInv == PatientUser /\ Inv /\ [Next]_vars => Inv'
<1>1. Inv /\ UNCHANGED vars => Inv'
  <2> SUFFICES ASSUME Inv, UNCHANGED vars PROVE Inv'
    OBVIOUS
  <2>1. TypeOK'
    BY NextType DEF Inv
  <2>2. UNCHANGED <<row, cache, stale, fetch, writes, view>>
    BY DEF vars, serverVars, queryVars, viewVars
  <2> QED BY <2>1, <2>2
          DEF Inv, NoneFromTheFuture, OneAtATime, NoStaleTicks, Current, Pending
<1> QED BY <1>1, NextCases, ServerInv, ApplyInv, RefuseInv, SettleInv, TickInv,
           OtherWriteInv, ReadInv

(* For every set of action items and any number of overlapping ticks,      *)
(* regenerations, edits and polls of a user who waits for answers: once    *)
(* nothing is in flight, an entry that counts as fresh shows the server's  *)
(* ticks.                                                                  *)
THEOREM FreshEntryShowsServersTicks ==
    ASSUME PatientUser
    PROVE  Spec => []TicksConverge
<1>1. PatientUser
  OBVIOUS
<1>2. Init => Inv
  BY InitInv
<1>3. Inv /\ [Next]_vars => Inv'
  BY <1>1, NextInv
<1>4. Inv => TicksConverge
  BY DEF Inv, NoStaleTicks, Current, TicksConverge, Pending
<1> QED BY <1>2, <1>3, <1>4, PTL DEF Spec

-----------------------------------------------------------------------------
(* Polling follows what was rendered: the flag of the mounted view is that  *)
(* of the audio block and the entry on screen, whatever has been fetched,   *)
(* ticked, rolled back, regenerated or given up since the view was mounted. *)
PollFollows ==
    /\ view = "detail" => poll = ShouldPoll(audio, cache, stuck)
    /\ view = "ended" => poll
    /\ audio = "pending" => view = "detail"

LEMMA RenderPoll ==
    ASSUME view = "detail", NEW failed, NEW giveUp, Render(cache', failed, giveUp)
    PROVE  PollFollows'
BY DEF Render, PollFollows, ShouldPoll, IsPendingSummary

LEMMA RenderedPoll ==
    ASSUME PollFollows, NEW force, Rendered(force)
    PROVE  PollFollows'
<1>1. CASE view = "detail" /\ (force \/ cache' # cache \/ error' # error)
  BY <1>1, RenderPoll DEF Rendered
<1>2. CASE ~(view = "detail" /\ (force \/ cache' # cache \/ error' # error))
  BY <1>2 DEF Rendered, viewVars, PollFollows, ShouldPoll, IsPendingSummary
<1> QED BY <1>1, <1>2

LEMMA QuietPoll ==
    ASSUME PollFollows, UNCHANGED <<cache, viewVars>>
    PROVE  PollFollows'
BY DEF viewVars, PollFollows, ShouldPoll, IsPendingSummary

LEMMA NextPoll == PollFollows /\ [Next]_vars => PollFollows'
<1> SUFFICES ASSUME PollFollows, [Next]_vars PROVE PollFollows'
  OBVIOUS
<1>1. ASSUME \/ ServerStep \/ Ages \/ Refetch \/ ServerReads \/ DeleteAudio \/ RenameSpeaker
             \/ \E w \in writes : Apply(w) \/ Refuse(w)
             \/ UNCHANGED vars
      PROVE  UNCHANGED <<cache, viewVars>>
  BY <1>1 DEF ServerStep, Finalize, Encode, Summarise, TimePasses, Ages, Refetch,
              ServerReads, DeleteAudio, RenameSpeaker, Apply, Refuse, queryVars, vars
<1>2. ASSUME \/ \E w \in writes, ok \in BOOLEAN : Settle(w, ok)
             \/ \E item \in Items : Tick(item)
             \/ FetchSucceeds \/ FetchFails \/ Regenerate \/ EditHeader
      PROVE  \E force : Rendered(force)
  BY <1>2 DEF Settle, Tick, FetchSucceeds, FetchFails, Regenerate, EditHeader
<1>3. ASSUME NEW v \in {"detail", "ended"}, Mount(v) PROVE PollFollows'
  <2>1. /\ view' = v /\ stuck' = FALSE /\ cache' = cache
        /\ v = "ended" => audio' = "loading"
        /\ poll' = (v = "ended" \/ ShouldPoll(audio', cache, FALSE))
    BY <1>3 DEF Mount
  <2>2. CASE v = "detail"
    BY <2>1, <2>2 DEF PollFollows, ShouldPoll, IsPendingSummary
  <2>3. CASE v = "ended"
    BY <2>1, <2>3 DEF PollFollows
  <2> QED BY <2>2, <2>3
<1>4. CASE Leave
  BY <1>4 DEF Leave, PollFollows
<1>5. CASE EncodeBudgetElapses \/ SummaryBudgetElapses
  <2>1. view = "detail"
    BY <1>5 DEF EncodeBudgetElapses, SummaryBudgetElapses, PollFollows
  <2>2. cache' = cache /\ \E failed, giveUp : Render(cache, failed, giveUp)
    BY <1>5 DEF EncodeBudgetElapses, SummaryBudgetElapses, queryVars
  <2> QED BY <2>1, <2>2, RenderPoll
<1> QED BY <1>1, <1>2, <1>3, <1>4, <1>5, QuietPoll, RenderedPoll DEF Next

(* While a view shows a spinner, for the audio or for the summary, it goes  *)
(* on asking the server; with any user and any number of writes.            *)
SpinnerIsPolled ==
    view # "none" /\ (audio = "pending" \/ (cache.summary \in Working /\ ~stuck)) => poll

THEOREM SpinnersArePolled == Spec => []SpinnerIsPolled
<1>1. Init => PollFollows
  BY DEF Init, PollFollows
<1>2. TypeOK /\ PollFollows => SpinnerIsPolled
  BY DEF TypeOK, PollFollows, SpinnerIsPolled, ShouldPoll, IsPendingSummary
<1> QED BY <1>1, <1>2, NextPoll, TypeCorrect, PTL DEF Spec
=============================================================================
