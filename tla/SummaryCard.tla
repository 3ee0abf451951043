------------------------------ MODULE SummaryCard ------------------------------
(***************************************************************************)
(* What a reader sees of the summary of a meeting, with workers, queues,   *)
(* requests, locks and segments left out.  An attempt is made of the       *)
(* transcript there is when it begins.  It ends in at most one way: it     *)
(* puts its own summary with its own action items in the place of what is  *)
(* shown, clears it, fails over it, or is abandoned.  Nothing else takes a *)
(* summary away, and one that was replaced never comes back.               *)
(***************************************************************************)
EXTENDS Integers

CONSTANTS
    Attempts,   \* names of attempts
    NoAttempt   \* in the place of an attempt: there is no summary

VARIABLES
    shown,       \* status, run, of and error of the summary
    todo,        \* its action items
    transcript,  \* length of the transcript
    begun,       \* attempts that have begun
    open         \* those of them that have not ended, and their transcripts

cardVars == <<shown, todo, transcript, begun, open>>

CardInit ==
    /\ shown = [status |-> "pending", run |-> NoAttempt, of |-> 0, error |-> FALSE]
    /\ todo = {}
    /\ transcript = 0
    /\ begun = {} /\ open = {}

Grow ==
    /\ transcript' = transcript + 1
    /\ UNCHANGED <<shown, todo, begun, open>>

Begin(r) ==
    /\ r \notin begun
    /\ begun' = begun \cup {r}
    /\ open' = open \cup {[run |-> r, of |-> transcript]}
    /\ UNCHANGED <<shown, todo, transcript>>

Abandon(a) ==
    /\ open' = open \ {a}
    /\ UNCHANGED <<shown, todo, transcript, begun>>

Replace(a) ==
    /\ shown' = [status |-> "completed", run |-> a.run, of |-> a.of, error |-> FALSE]
    /\ todo' = {[run |-> a.run, completed |-> FALSE]}
    /\ open' = open \ {a}
    /\ UNCHANGED <<transcript, begun>>

Clear(a) ==
    /\ shown' = [status |-> "too_short", run |-> NoAttempt, of |-> a.of, error |-> FALSE]
    /\ todo' = {}
    /\ open' = open \ {a}
    /\ UNCHANGED <<transcript, begun>>

\* An attempt fails, or a session before one.
Fail ==
    /\ shown' = [shown EXCEPT !.status = "failed", !.error = TRUE]
    /\ open' = open \/ \E a \in open : open' = open \ {a}
    /\ UNCHANGED <<todo, transcript, begun>>

\* The reader is told that an attempt is under way.
Announce ==
    /\ shown' = [shown EXCEPT !.status = "processing", !.error = FALSE]
    /\ UNCHANGED <<todo, transcript, begun, open>>

Tick(i) ==
    /\ todo' = (todo \ {i}) \cup {[i EXCEPT !.completed = ~@]}
    /\ UNCHANGED <<shown, transcript, begun, open>>

CardNext ==
    \/ Grow \/ Fail \/ Announce
    \/ \E r \in Attempts : Begin(r)
    \/ \E a \in open : Abandon(a) \/ Replace(a) \/ Clear(a)
    \/ \E i \in todo : Tick(i)

CardSpec == CardInit /\ [][CardNext]_cardVars
=============================================================================
