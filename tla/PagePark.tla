------------------------------ MODULE PagePark ------------------------------
(***************************************************************************)
(* Parking a page (src/src/page-park.ts): freezing its lifecycle and       *)
(* stopping its animations while nobody drives it.  A caller writes what   *)
(* it wants into `desired` and queues a job on the page's promise chain;   *)
(* a job, when its turn comes, drives the page to what is desired by then, *)
(* one CDP command after another, and any of them may fail.  The caller    *)
(* that parks does not wait for its job, the callers that wake do.         *)
(***************************************************************************)
EXTENDS Naturals, Sequences

CONSTANTS
    Page,       \* the pages
    Refusals    \* how many CDP commands may be refused altogether

VARIABLES
    desired,    \* what the last caller wanted
    applied,    \* what the last job that succeeded brought about
    failed,     \* the latch: some job of the page failed
    chain,      \* who queued the jobs not yet finished, oldest first
    at,         \* where the oldest job is
    frozen,     \* Chromium: the page's lifecycle state is "frozen"
    paused,     \* Chromium: the page's animation playback rate is 0
    refused     \* how many commands have been refused

parkVars == <<desired, applied, failed, chain, at, frozen, paused, refused>>

\* Callers: a park, an execution that begins, a live view that starts.
Caller == {"park", "execution", "view"}

\* Before its first look at `desired`, then before each command's answer.
Stage == {"queued", "pausing", "freezing", "thawing", "resuming"}

ParkInit ==
    /\ desired = [p \in Page |-> "active"]
    /\ applied = [p \in Page |-> "active"]
    /\ failed = [p \in Page |-> FALSE]
    /\ chain = [p \in Page |-> <<>>]
    /\ at = [p \in Page |-> "queued"]
    /\ frozen = [p \in Page |-> FALSE]
    /\ paused = [p \in Page |-> FALSE]
    /\ refused = 0

Queued(p, who) == \E i \in DOMAIN chain[p] : chain[p][i] = who

Awake(p) == ~frozen[p] /\ ~paused[p]

\* parkPage: nothing for a page that is parked already or could not be.
Park(p) ==
    IF applied[p] = "parked" \/ failed[p]
    THEN UNCHANGED parkVars
    ELSE /\ desired' = [desired EXCEPT ![p] = "parked"]
         /\ chain' = [chain EXCEPT ![p] = Append(@, "park")]
         /\ UNCHANGED <<applied, failed, at, frozen, paused, refused>>

\* Fault: whether there is anything to undo is read off the applied state
\* alone, so a park still in the queue is not countermanded.
UnparkApplied(p, who) ==
    IF applied[p] = "active"
    THEN UNCHANGED parkVars
    ELSE /\ desired' = [desired EXCEPT ![p] = "active"]
         /\ chain' = [chain EXCEPT ![p] = Append(@, who)]
         /\ UNCHANGED <<applied, failed, at, frozen, paused, refused>>

\* unparkPage: countermand a park that is queued or done.  When another
\* caller has countermanded it already, it may return before that job ran.
Unpark(p, who) ==
    IF desired[p] = "active" /\ applied[p] = "active"
    THEN UNCHANGED parkVars
    ELSE /\ desired' = [desired EXCEPT ![p] = "active"]
         /\ chain' = [chain EXCEPT ![p] = Append(@, who)]
         /\ UNCHANGED <<applied, failed, at, frozen, paused, refused>>

\* The page is closed.  Its entry goes away with it: its jobs find it closed
\* or their commands are rejected, and a later page starts afresh.
ClosePage(p) ==
    /\ desired' = [desired EXCEPT ![p] = "active"]
    /\ applied' = [applied EXCEPT ![p] = "active"]
    /\ failed' = [failed EXCEPT ![p] = FALSE]
    /\ chain' = [chain EXCEPT ![p] = <<>>]
    /\ at' = [at EXCEPT ![p] = "queued"]
    /\ frozen' = [frozen EXCEPT ![p] = FALSE]
    /\ paused' = [paused EXCEPT ![p] = FALSE]
    /\ UNCHANGED refused

\* The oldest job is done; the next one may begin.
JobEnds(p) ==
    /\ chain' = [chain EXCEPT ![p] = Tail(@)]
    /\ at' = [at EXCEPT ![p] = "queued"]

\* The oldest job starts and finds that there is nothing to do.
JobIdle(p) ==
    /\ chain[p] # <<>> /\ at[p] = "queued"
    /\ applied[p] = desired[p]
    /\ JobEnds(p)
    /\ UNCHANGED <<desired, applied, failed, frozen, paused, refused>>

\* The oldest job starts and sends its first command.
JobBegins(p) ==
    /\ chain[p] # <<>> /\ at[p] = "queued"
    /\ applied[p] # desired[p]
    /\ at' = [at EXCEPT ![p] =
                 IF desired[p] = "parked" THEN "pausing" ELSE "thawing"]
    /\ UNCHANGED <<desired, applied, failed, chain, frozen, paused, refused>>

\* Animation.setPlaybackRate 0 is answered, and the job sends "frozen".
AnimationsPaused(p) ==
    /\ at[p] = "pausing"
    /\ paused' = [paused EXCEPT ![p] = TRUE]
    /\ at' = [at EXCEPT ![p] = "freezing"]
    /\ UNCHANGED <<desired, applied, failed, chain, frozen, refused>>

\* Page.setWebLifecycleState "frozen" is answered: the page is parked.
PageFrozen(p) ==
    /\ at[p] = "freezing"
    /\ frozen' = [frozen EXCEPT ![p] = TRUE]
    /\ applied' = [applied EXCEPT ![p] = "parked"]
    /\ JobEnds(p)
    /\ UNCHANGED <<desired, failed, paused, refused>>

\* Page.setWebLifecycleState "active" is answered.
PageThawed(p) ==
    /\ at[p] = "thawing"
    /\ frozen' = [frozen EXCEPT ![p] = FALSE]
    /\ at' = [at EXCEPT ![p] = "resuming"]
    /\ UNCHANGED <<desired, applied, failed, chain, paused, refused>>

\* Animation.setPlaybackRate 1 is answered: the page runs again.
AnimationsResumed(p) ==
    /\ at[p] = "resuming"
    /\ paused' = [paused EXCEPT ![p] = FALSE]
    /\ applied' = [applied EXCEPT ![p] = "active"]
    /\ JobEnds(p)
    /\ UNCHANGED <<desired, failed, frozen, refused>>

\* A command is refused.  enqueue swallows the failure and sets the latch;
\* `applied` stays what it was although earlier commands have taken effect.
CommandRefused(p) ==
    /\ at[p] # "queued"
    /\ refused < Refusals
    /\ refused' = refused + 1
    /\ failed' = [failed EXCEPT ![p] = TRUE]
    /\ JobEnds(p)
    /\ UNCHANGED <<desired, applied, frozen, paused>>

ParkTypeOK ==
    /\ desired \in [Page -> {"active", "parked"}]
    /\ applied \in [Page -> {"active", "parked"}]
    /\ failed \in [Page -> BOOLEAN]
    /\ chain \in [Page -> Seq(Caller)]
    /\ at \in [Page -> Stage]
    /\ frozen \in [Page -> BOOLEAN] /\ paused \in [Page -> BOOLEAN]
    /\ refused \in 0 .. Refusals
=============================================================================
