------------------------ MODULE NormalizationService ------------------------
(***************************************************************************)
(* What a client may rely on, without manager, workers, queues or disk.    *)
(* Requests wait in one line and are taken from it one at a time, each     *)
(* once; the one that was taken is answered once or lost with the daemon.  *)
(* Success means that everything it asked for is in storage, unless this   *)
(* run of the service was disturbed before.                                *)
(***************************************************************************)
EXTENDS Sequences

CONSTANTS
    Request,
    Segment,    \* what can be stored
    Wanted      \* Wanted[r]: the segments of the files r asks for

VARIABLES
    waiting,    \* the line of requests
    outcome,    \* what became of each
    stored,     \* the segments in storage
    disturbed   \* a stop or an abandoned cycle may have left work behind

vars == <<waiting, outcome, stored, disturbed>>

Failure == {"partial", "unlisted", "aborted"}

Becomes(r, from, to) ==
    outcome[r] = from /\ outcome' = [outcome EXCEPT ![r] = to]

-----------------------------------------------------------------------------
Init ==
    /\ waiting = <<>>
    /\ outcome = [r \in Request |-> "unsent"]
    /\ stored = {}
    /\ disturbed = FALSE

Ask(r) ==
    /\ Becomes(r, "unsent", "queued")
    /\ waiting' = Append(waiting, r)
    /\ UNCHANGED <<stored, disturbed>>

(* The first of the line is taken: to be served when nobody else is, or     *)
(* never to be heard of again.                                              *)
Take(to) ==
    /\ waiting # <<>>
    /\ \A r \in Request : outcome[r] # "running"
    /\ Becomes(Head(waiting), "queued", to)
    /\ waiting' = Tail(waiting)
    /\ UNCHANGED <<stored, disturbed>>

(* Only what was asked for by a request that was taken is ever stored.  It  *)
(* may be stored late, or be replaced by less when a cycle fails.           *)
Asked == UNION {Wanted[r] : r \in {x \in Request :
                    outcome[x] \notin {"unsent", "queued", "dropped"}}}

Store ==
    /\ stored' \subseteq Asked
    /\ UNCHANGED <<waiting, outcome, disturbed>>

Succeed(r) ==
    /\ Becomes(r, "running", "success")
    /\ disturbed \/ Wanted[r] \subseteq stored
    /\ UNCHANGED <<waiting, stored, disturbed>>

Fail(r) ==
    /\ \E answer \in Failure : Becomes(r, "running", answer)
    /\ disturbed' \in {disturbed, TRUE}
    /\ UNCHANGED <<waiting, stored>>

Disturb == disturbed' = TRUE /\ UNCHANGED <<waiting, outcome, stored>>

(* The daemon goes down with the request it serves, or comes back fresh.    *)
Lose(r) ==
    /\ Becomes(r, "running", "lost")
    /\ disturbed' \in {disturbed, FALSE}
    /\ UNCHANGED <<waiting, stored>>

Refresh == disturbed' = FALSE /\ UNCHANGED <<waiting, outcome, stored>>

Next ==
    \/ \E to \in {"running", "dropped", "lost"} : Take(to)
    \/ \E r \in Request : Ask(r) \/ Succeed(r) \/ Fail(r) \/ Lose(r)
    \/ Store \/ Disturb \/ Refresh

Spec == Init /\ [][Next]_vars

=============================================================================
