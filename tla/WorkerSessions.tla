--------------------------- MODULE WorkerSessions ---------------------------
(***************************************************************************)
(* The sessions of one browser worker, and everything in the worker that   *)
(* acts on a session's page beside its own executions: the timer that      *)
(* parks it (PagePark), a live view that starts or stops, a handoff or an  *)
(* ask that waits for a human, and the reaper of idle sessions             *)
(* (src/src/worker.ts, src/src/worker-live-view.ts).  Executions of one    *)
(* session come one at a time, from its queue; the rest bypasses queues.   *)
(* A session has one page, made by its first execution.                    *)
(***************************************************************************)
EXTENDS PagePark, FiniteSets

CONSTANTS
    Session,    \* session names; a session's page goes by its name
    Asked,      \* the sessions in which a human is asked
    Nobody,     \* no wait in this slot of the live view
    Gone        \* the wait in this slot belongs to a session since forgotten

ASSUME SessionAssumption ==
    /\ Page = Session /\ Asked \subseteq Session
    /\ {Nobody, Gone} \cap Session = {}
    /\ Refusals \in Nat

VARIABLES
    known,      \* the worker's table `sessions`
    open,       \* sessions whose page is open
    phase,      \* where the execution of each session is
    timer,      \* pendingParkTimers
    hold,       \* awaitingAnswerSince is set
    wait,       \* the handoff and the ask the live view is waiting for
    view,       \* the reference `liveView`: null, a server, a running server
    start,      \* the live_view_start under way
    woken,      \* the sessions it has been through
    detached,   \* a stop came since it took its reference
    touched     \* history: sessions whose pending wait was not left alone

execVars == <<phase, timer>>
waitVars == <<hold, wait, touched>>
viewVars == <<view, start, woken, detached>>
vars == <<parkVars, known, open, execVars, waitVars, viewVars>>

Kind == {"handoff", "ask"}
Executing(s) == phase[s] # "idle"
Waits(s) == {k \in Kind : wait[k] = s}

Init ==
    /\ ParkInit
    /\ known = {} /\ open = {}
    /\ phase = [s \in Session |-> "idle"]
    /\ timer = {}
    /\ hold = [s \in Session |-> FALSE]
    /\ wait = [k \in Kind |-> Nobody]
    /\ view = "none" /\ start = "none" /\ woken = {}
    /\ detached = FALSE
    /\ touched = {}

-----------------------------------------------------------------------------
(* Executions *)

\* An execution leaves the session's queue.  It counts as executing, takes
\* whatever question the session had for answered, and wakes the session's
\* page (wakeSessionPages).  The browser is up; launching is DownloadGate's.
Begin(s) ==
    /\ phase[s] = "idle"
    /\ phase' = [phase EXCEPT ![s] = "waking"]
    /\ known' = known \cup {s}
    /\ hold' = [hold EXCEPT ![s] = FALSE]
    /\ touched' = IF Waits(s) # {} THEN touched \cup {s} ELSE touched
    /\ timer' = timer \ {s}
    /\ IF s \in open THEN Unpark(s, "execution") ELSE UNCHANGED parkVars
    /\ UNCHANGED <<open, wait, viewVars>>

\* Its wake-up, if it had to queue one, is over; ensureSessionPage.
RunSnippet(s) ==
    /\ phase[s] = "waking"
    /\ ~Queued(s, "execution")
    /\ phase' = [phase EXCEPT ![s] = "running"]
    /\ open' = open \cup {s}
    /\ UNCHANGED <<parkVars, known, timer, waitVars, viewVars>>

\* The snippet takes a screenshot of kind "question".
SnippetAsks(s) ==
    /\ s \in Asked
    /\ phase[s] = "running"
    /\ hold' = [hold EXCEPT ![s] = TRUE]
    /\ UNCHANGED <<parkVars, known, open, execVars, wait, touched, viewVars>>

\* Fault: the live view is forgotten when the timer is armed.
FinishBlind(s) ==
    /\ phase[s] = "running"
    /\ phase' = [phase EXCEPT ![s] = "idle"]
    /\ timer' = timer \cup {s}
    /\ UNCHANGED <<parkVars, known, open, waitVars, viewVars>>

\* The finally block: quietSessionPages arms the timer unless there is a live
\* view.
Finish(s) ==
    /\ phase[s] = "running"
    /\ phase' = [phase EXCEPT ![s] = "idle"]
    /\ timer' = IF view = "none" THEN timer \cup {s} ELSE timer \ {s}
    /\ UNCHANGED <<parkVars, known, open, waitVars, viewVars>>

\* The park timer goes off, and looks again whether the session executes.
TimerFires(s) ==
    /\ s \in timer
    /\ timer' = timer \ {s}
    /\ IF ~Executing(s) /\ s \in open THEN Park(s) ELSE UNCHANGED parkVars
    /\ UNCHANGED <<known, open, phase, waitVars, viewVars>>
-----------------------------------------------------------------------------
(* The end of a session *)

\* The session's pages are closed, its timer is cancelled and the worker
\* forgets it.  A wait of it goes on, with a record nobody looks at again.
Forget(s) ==
    /\ known' = known \ {s}
    /\ open' = open \ {s}
    /\ timer' = timer \ {s}
    /\ wait' = [k \in Kind |-> IF wait[k] = s THEN Gone ELSE wait[k]]
    /\ hold' = [hold EXCEPT ![s] = FALSE]
    /\ touched' = touched \ {s}
    /\ ClosePage(s)
    /\ UNCHANGED <<phase, viewVars>>

\* The idle reaper forgets a session that neither executes nor waits for a
\* human.  When a session counts as idle is a matter of the clock.
Reap(s) ==
    /\ s \in known
    /\ ~Executing(s)
    /\ ~hold[s]
    /\ Forget(s)

\* session_close comes out of the session's queue, and asks nothing.
CloseSession(s) ==
    /\ s \in known
    /\ ~Executing(s)
    /\ Forget(s)
-----------------------------------------------------------------------------
(* The live view *)

\* live_view_start takes its reference to the server once the browser is up.
ViewStart ==
    /\ start = "none"
    /\ view' = IF view = "none" THEN "created" ELSE view
    /\ start' = "waking"
    /\ UNCHANGED <<parkVars, known, open, execVars, waitVars, woken, detached>>

\* It wakes the next session, and waits for its page.
ViewWakes(s) ==
    /\ start = "waking"
    /\ s \in known \ woken
    /\ \A r \in woken : ~Queued(r, "view")
    /\ woken' = woken \cup {s}
    /\ timer' = timer \ {s}
    /\ IF s \in open THEN Unpark(s, "view") ELSE UNCHANGED parkVars
    /\ UNCHANGED <<known, open, phase, waitVars, view, start, detached>>

\* All are awake: view.start listens, or cannot.  After a stop it listens all
\* the same, on a server that nothing refers to and nobody will stop.
ViewListens ==
    /\ start = "waking"
    /\ known \subseteq woken
    /\ \A r \in woken : ~Queued(r, "view")
    /\ start' = "none" /\ woken' = {} /\ detached' = FALSE
    /\ \/ view' = IF detached THEN view ELSE "running"
       \/ view # "running" /\ UNCHANGED view
    /\ UNCHANGED <<parkVars, known, open, execVars, waitVars>>

\* live_view_stop: the reference goes first; a running server then answers
\* its waits, whose sessions give up their holds.
ViewStop ==
    /\ view # "none"
    /\ view' = "none"
    /\ detached' = (start # "none")
    /\ hold' = [s \in Session |-> hold[s] /\ Waits(s) = {}]
    /\ wait' = [k \in Kind |-> Nobody]
    /\ touched' = {}
    /\ UNCHANGED <<parkVars, known, open, execVars, start, woken>>
-----------------------------------------------------------------------------
(* Handoffs and asks *)

\* The finally block of a wait of s that is over (or never began): the hold
\* goes, whether or not the session's other wait still needs it.
LetGo(s, others) ==
    /\ hold' = [hold EXCEPT ![s] = FALSE]
    /\ touched' = IF others = {} THEN touched \ {s} ELSE touched \cup {s}

\* Fault: the hold is not taken.
WaitBeginsUnheld(k, s) ==
    /\ view = "running" /\ wait[k] = Nobody
    /\ wait' = [wait EXCEPT ![k] = s]
    /\ UNCHANGED <<hold, touched>>
    /\ known' = known \cup {s}
    /\ UNCHANGED <<parkVars, open, execVars, viewVars>>

\* handoffWait and askWait: the session is held and the wait begins.
WaitBegins(k, s) ==
    /\ view = "running" /\ wait[k] = Nobody
    /\ wait' = [wait EXCEPT ![k] = s]
    /\ hold' = [hold EXCEPT ![s] = TRUE]
    /\ known' = known \cup {s}
    /\ UNCHANGED <<parkVars, open, execVars, touched, viewVars>>

\* They are refused: there is no view, or it has such a wait already.
WaitRefused(k, s) ==
    /\ view # "running" \/ wait[k] # Nobody
    /\ known' = known \cup {s}
    /\ LetGo(s, Waits(s))
    /\ UNCHANGED <<parkVars, open, execVars, wait, viewVars>>

\* The human answers, or the time is up.
WaitEnds(k) ==
    /\ wait[k] # Nobody
    /\ wait' = [wait EXCEPT ![k] = Nobody]
    /\ IF wait[k] = Gone
       THEN UNCHANGED <<hold, touched>>
       ELSE LetGo(wait[k], Waits(wait[k]) \ {k})
    /\ UNCHANGED <<parkVars, known, open, execVars, viewVars>>
-----------------------------------------------------------------------------
workerVars == <<known, open, execVars, waitVars, viewVars>>

\* What the queue of page s's jobs does; the worker does not look.
ParkStep(s) ==
    \/ JobIdle(s) /\ UNCHANGED workerVars
    \/ JobBegins(s) /\ UNCHANGED workerVars
    \/ AnimationsPaused(s) /\ UNCHANGED workerVars
    \/ PageFrozen(s) /\ UNCHANGED workerVars
    \/ PageThawed(s) /\ UNCHANGED workerVars
    \/ AnimationsResumed(s) /\ UNCHANGED workerVars
    \/ CommandRefused(s) /\ UNCHANGED workerVars

Next ==
    \/ \E s \in Session :
          \/ Begin(s) \/ RunSnippet(s) \/ SnippetAsks(s)
          \/ Finish(s) \/ TimerFires(s) \/ ParkStep(s)
          \/ Reap(s) \/ CloseSession(s) \/ ViewWakes(s)
    \/ \E k \in Kind :
          \/ \E s \in Asked : WaitBegins(k, s) \/ WaitRefused(k, s)
          \/ WaitEnds(k)
    \/ ViewStart \/ ViewListens \/ ViewStop

Spec == Init /\ [][Next]_vars
-----------------------------------------------------------------------------
\* The types.
TypeOK ==
    /\ ParkTypeOK
    /\ known \subseteq Session /\ open \subseteq known
    /\ phase \in [Session -> {"idle", "waking", "running"}]
    /\ timer \subseteq Session
    /\ hold \in [Session -> BOOLEAN]
    /\ wait \in [Kind -> Session \cup {Nobody, Gone}]
    /\ view \in {"none", "created", "running"}
    /\ start \in {"none", "waking"}
    /\ woken \subseteq Session /\ touched \subseteq Session
    /\ detached \in BOOLEAN

\* "Model code never observes a parked page": while a snippet runs its page
\* is awake.  Two exceptions: a page that refused a command; and a page whose
\* park a starting live view has already countermanded, because unparkPage
\* then returns although the view's job is still in the queue.
AwakeUnderSnippet ==
    \A s \in Session :
        phase[s] = "running" =>
            Awake(s) \/ failed[s] \/ Queued(s, "view")

\* A live view does not stream a page that is asleep: once it runs, every
\* page is awake or its wake-up is in the queue, whatever timers were armed
\* before and whatever executions come and go.
ViewSeesLivePages ==
    view = "running" /\ start = "none" =>
        \A s \in open :
            \/ Awake(s) \/ failed[s]
            \/ Queued(s, "view") \/ Queued(s, "execution")

\* The reaper spares a session that waits for a human, as long as nothing
\* else in that session (its other wait, a refused one, an execution) has
\* touched the hold they share.
LoneWaitHolds ==
    \A s \in Session : Waits(s) # {} /\ s \notin touched => hold[s]

-----------------------------------------------------------------------------
(* The inductive invariant *)

\* A job that will wake page p is at this place of its queue or further back.
WakerFrom(p, i) ==
    \E j \in DOMAIN chain[p] : j >= i /\ chain[p][j] \in {"execution", "view"}

\* A page whose commands were all accepted sleeps only while it is parked or
\* being parked, and if it is to be awake, somebody's job that sees to it is
\* still in the queue, behind the one that is putting it to sleep.
Driven(p) ==
    /\ at[p] # "queued" => chain[p] # <<>>
    /\ ~failed[p] =>
          /\ frozen[p] => applied[p] = "parked" /\ at[p] # "resuming"
          /\ paused[p] => applied[p] = "parked" \/ at[p] = "freezing"
          /\ desired[p] = "active" =>
                /\ applied[p] = "parked" => WakerFrom(p, 1)
                /\ at[p] \in {"pausing", "freezing"} => WakerFrom(p, 2)

\* Only an open page has been touched.
Fresh(p) == desired[p] = "active" /\ chain[p] = <<>> /\ at[p] = "queued" /\ applied[p] = "active"
            /\ ~frozen[p] /\ ~paused[p] /\ ~failed[p]

Opened ==
    /\ timer \subseteq known
    /\ \A s \in Session \ open : Fresh(s)

\* Nobody puts the page of an execution to sleep, and a snippet runs only
\* once its own wake-up is over.
Undisturbed ==
    \A s \in Session :
        /\ Executing(s) => s \in known /\ desired[s] = "active"
        /\ phase[s] = "running" => s \in open /\ ~Queued(s, "execution")

\* With a live view, only a session that the view has still to wake may have
\* a timer or a page that is to sleep.
Watched ==
    /\ start = "none" => woken = {} /\ ~detached
    /\ IF detached THEN view = "none" ELSE start = "waking" => view # "none"
    /\ view # "none" =>
          \A s \in Session :
              s \in timer \/ desired[s] = "parked" => start = "waking" /\ s \notin woken

\* The state is well formed, a lone wait keeps its hold, and what makes pages
\* awake when they have to be.
IndInv ==
    /\ TypeOK
    /\ LoneWaitHolds
    /\ \A p \in Page : Driven(p)
    /\ Opened
    /\ Undisturbed
    /\ Watched
=============================================================================
