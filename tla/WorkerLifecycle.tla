--------------------------- MODULE WorkerLifecycle ---------------------------
(***************************************************************************)
(* How the host client owns its worker process (src/src/client.ts): calls  *)
(* of several sessions prepare a worker, dispatch to it and await the      *)
(* answer; a timeout, an abort, a worker's own request, a changed config   *)
(* or a final close takes it down; the next call brings up a replacement,  *)
(* but only after the old worker's cleanup, which erases the vault secrets *)
(* known to the redactor, is over.  An action is what the client does      *)
(* between two awaits.                                                     *)
(*                                                                         *)
(* A child process is a token of Children; a token nobody refers to any    *)
(* more is used again for a later process.                                 *)
(***************************************************************************)
EXTENDS Naturals, FiniteSets

CONSTANTS
    Callers,     \* sessions; each has at most one call in flight (its lane)
    Children,    \* tokens for worker processes
    None         \* no process

ASSUME NoneIsNoChild == None \notin Children

VARIABLES
    proc,        \* what each child process has reached
    current,     \* this._process
    barrier,     \* the child whose cleanup _workerCloseBarrier waits for
    owner,       \* _vaultRedactionOwner
    preserves,   \* _workerClosePreservesPending
    closed,      \* this._closed
    config,      \* what _workerConfig() returns now
    lastConfig,  \* _lastConfig, or None
    prep,        \* where the single preparation in flight is (_preparing)
    wanted,      \* the config that preparation read
    subject,     \* the child that preparation is closing or starting
    phase,       \* where each session's call is
    child        \* the child it was dispatched to, or waits for

process == <<proc, current, barrier, owner, preserves>>
preparation == <<prep, wanted, subject>>
calls == <<phase, child>>
vars == <<process, closed, config, lastConfig, preparation, calls>>

Live == {"starting", "ready", "ending"}
Down == {"none", "gone"}
Awaiting == {"sent", "timing", "aborting", "restarting"}

Alive(g) == g # None /\ proc[g] \in Live
IsGone(g) == g # None => proc[g] \in Down

Init ==
    /\ proc = [g \in Children |-> "none"]
    /\ current = None /\ barrier = None /\ owner = None
    /\ preserves = {}
    /\ closed = FALSE
    /\ config = "a" /\ lastConfig = None
    /\ prep = "none" /\ wanted = "a" /\ subject = None
    /\ phase = [c \in Callers |-> "idle"]
    /\ child = [c \in Callers |-> None]

\* close({ child: g }) up to its await: forget the worker if it is the current
\* one, and end its stdin; a worker that does not leave is killed later.
Stop(g) ==
    /\ current' = IF current = g THEN None ELSE current
    /\ lastConfig' = IF current = g THEN None ELSE lastConfig
    /\ proc' = [p \in Children |->
                  IF p = g /\ Alive(g) THEN "ending" ELSE proc[p]]

\* Fault: the redaction set is reset whoever owns it.
CloserResetsAny(g) == owner' = None

\* close() after its await: the reset, unless the child has had its own.
CloserResets(g) == owner' = IF owner = g THEN None ELSE owner

-----------------------------------------------------------------------------
(* Preparing a worker *)

\* A session calls: it shares the preparation in flight, or begins one, which
\* first closes a worker that was started with another config.
Call(c) ==
    /\ phase[c] = "idle"
    /\ phase' = [phase EXCEPT ![c] = "preparing"]
    /\ \/ /\ prep # "none"
          /\ UNCHANGED <<process, lastConfig, preparation>>
       \/ /\ prep = "none"
          /\ wanted' = config
          /\ IF current # None /\ lastConfig # config
             THEN /\ Stop(current)
                  /\ prep' = "closing" /\ subject' = current
             ELSE /\ prep' = "start"
                  /\ UNCHANGED <<proc, current, lastConfig, subject>>
          /\ UNCHANGED <<barrier, owner, preserves>>
    /\ UNCHANGED <<closed, config, child>>

\* The worker of the old config is gone.
ClosedForConfig ==
    /\ prep = "closing"
    /\ IsGone(subject)
    /\ CloserResets(subject)
    /\ prep' = "start"
    /\ UNCHANGED <<proc, current, barrier, preserves, closed, config,
                   lastConfig, wanted, subject, calls>>

\* Every call that shared the preparation goes on, or is rejected.
Conclude(next) ==
    /\ prep' = "none"
    /\ phase' = [c \in Callers |->
                   IF phase[c] = "preparing" THEN next ELSE phase[c]]

\* _start: a live worker is used as it is; a closed browser refuses; otherwise
\* the previous worker's cleanup is awaited.
Start ==
    /\ prep = "start"
    /\ \/ current # None /\ Conclude("prepared") /\ lastConfig' = wanted
       \/ current = None /\ closed /\ Conclude("idle") /\ UNCHANGED lastConfig
       \/ current = None /\ ~closed /\ prep' = "barrier"
            /\ UNCHANGED <<phase, lastConfig>>
    /\ UNCHANGED <<process, closed, config, wanted, subject, child>>

\* No call, preparation or cleanup refers to the token.
Free(g) == proc[g] \in Down /\ \A c \in Callers : child[c] # g

Launch(g) ==
    /\ Free(g)
    /\ proc' = [proc EXCEPT ![g] = "starting"]
    /\ current' = g /\ barrier' = g /\ owner' = g
    /\ preserves' = preserves \ {g}
    /\ prep' = "handshake" /\ subject' = g

\* Fault: a replacement is spawned without waiting for the cleanup.
SpawnAtOnce(g) ==
    /\ prep = "barrier"
    /\ ~closed
    /\ Launch(g)
    /\ UNCHANGED <<closed, config, lastConfig, wanted, calls>>

\* Fault: whether the browser was closed meanwhile is not looked at again.
SpawnUnchecked(g) ==
    /\ prep = "barrier"
    /\ IsGone(barrier)
    /\ Launch(g)
    /\ UNCHANGED <<closed, config, lastConfig, wanted, calls>>

\* The cleanup is over: spawn the replacement.
Spawn(g) ==
    /\ prep = "barrier"
    /\ IsGone(barrier)
    /\ ~closed
    /\ Launch(g)
    /\ UNCHANGED <<closed, config, lastConfig, wanted, calls>>

\* The browser was closed while the cleanup was awaited.
RefuseSpawn ==
    /\ prep = "barrier"
    /\ IsGone(barrier)
    /\ closed
    /\ Conclude("idle")
    /\ UNCHANGED <<process, closed, config, lastConfig, wanted, subject, child>>

\* The worker's "ready" line.
Ready ==
    /\ prep = "handshake"
    /\ proc[subject] \in {"starting", "ending"}
    /\ proc' = [proc EXCEPT ![subject] = IF @ = "starting" THEN "ready" ELSE @]
    /\ Conclude("prepared")
    /\ lastConfig' = wanted
    /\ UNCHANGED <<current, barrier, owner, preserves, closed, config, wanted,
                   subject, child>>

\* Fault: the handshake is awaited without a timer.
StartNeverTimesOut == FALSE

\* The start timer: the worker is killed and dropped.
StartTimesOut ==
    /\ prep = "handshake"
    /\ proc' = [proc EXCEPT ![subject] = IF @ \in Live THEN "ending" ELSE @]
    /\ current' = IF current = subject THEN None ELSE current
    /\ Conclude("idle")
    /\ UNCHANGED <<barrier, owner, preserves, closed, config, lastConfig,
                   wanted, subject, child>>
-----------------------------------------------------------------------------
(* A dispatched call *)

\* _dispatch: the worker may have gone since the preparation ended.
Dispatch(c) ==
    /\ phase[c] = "prepared"
    /\ IF current = None
       THEN phase' = [phase EXCEPT ![c] = "idle"] /\ UNCHANGED child
       ELSE /\ phase' = [phase EXCEPT ![c] = "sent"]
            /\ child' = [child EXCEPT ![c] = current]
    /\ UNCHANGED <<process, closed, config, lastConfig, preparation>>

Settle(c) ==
    /\ phase' = [phase EXCEPT ![c] = "idle"]
    /\ child' = [child EXCEPT ![c] = None]

\* Output of the child can be read until its "close" event.
Readable(g) == proc[g] \in {"ready", "ending", "exited"}

\* A result arrives.
Respond(c) ==
    /\ phase[c] \in {"sent", "timing"}
    /\ Readable(child[c])
    /\ Settle(c)
    /\ UNCHANGED <<process, closed, config, lastConfig, preparation>>

\* A result that asks for a new worker: close({ restart: true }) takes down
\* the current worker and waits for it, or else for the last one's cleanup.
RespondRestart(c) ==
    /\ phase[c] \in {"sent", "timing"}
    /\ Readable(child[c])
    /\ IF current = None
       THEN /\ child' = [child EXCEPT ![c] = barrier]
            /\ UNCHANGED <<proc, current, lastConfig>>
       ELSE /\ child' = [child EXCEPT ![c] = current]
            /\ Stop(current)
    /\ phase' = [phase EXCEPT ![c] = "restarting"]
    /\ UNCHANGED <<barrier, owner, preserves, closed, config, preparation>>

\* Fault: the timer closes the current worker, whichever it is.
TimerFiresAtCurrent(c) ==
    /\ phase[c] = "sent"
    /\ Stop(current)
    /\ preserves' = preserves \cup {child[c]}
    /\ phase' = [phase EXCEPT ![c] = "timing"]
    /\ UNCHANGED <<barrier, owner, closed, config, preparation, child>>

\* The execution timer takes down the call's own worker; the other calls
\* pending on that worker are left to their timers.
TimerFires(c) ==
    /\ phase[c] = "sent"
    /\ Stop(child[c])
    /\ preserves' = preserves \cup {child[c]}
    /\ phase' = [phase EXCEPT ![c] = "timing"]
    /\ UNCHANGED <<barrier, owner, closed, config, preparation, child>>

\* The caller aborts: results are ignored until the worker is gone.
Abort(c) ==
    /\ phase[c] = "sent"
    /\ Stop(child[c])
    /\ phase' = [phase EXCEPT ![c] = "aborting"]
    /\ UNCHANGED <<barrier, owner, preserves, closed, config, preparation,
                   child>>

\* The close a call awaited is over.
CloseAwaited(c) ==
    /\ phase[c] \in {"timing", "aborting", "restarting"}
    /\ IsGone(child[c])
    /\ CloserResets(child[c])
    /\ Settle(c)
    /\ UNCHANGED <<proc, current, barrier, preserves, closed, config,
                   lastConfig, preparation>>
-----------------------------------------------------------------------------
(* The worker process, and the owner of the browser *)

\* The process is gone: at the host's request, killed, or on its own.
Exit(g) ==
    /\ proc[g] \in Live
    /\ proc' = [proc EXCEPT ![g] = "exited"]
    /\ current' = IF current = g THEN None ELSE current
    /\ UNCHANGED <<barrier, owner, preserves, closed, config, lastConfig,
                   preparation, calls>>

\* "close": its output has been read to the end.  A start that still waits
\* for this child's handshake fails.
CloseEvent(g) ==
    /\ proc[g] = "exited"
    /\ proc' = [proc EXCEPT ![g] = "draining"]
    /\ IF prep = "handshake" /\ subject = g
       THEN Conclude("idle")
       ELSE UNCHANGED <<prep, phase>>
    /\ UNCHANGED <<current, barrier, owner, preserves, closed, config,
                   lastConfig, wanted, subject, child>>

\* Its outstanding RPCs have settled or timed out: the calls pending on it are
\* told, unless a timeout closed it, and the redaction reset begins.
Drain(g) ==
    /\ proc[g] = "draining"
    /\ LET told == {c \in Callers : phase[c] = "sent" /\ child[c] = g
                                      /\ g \notin preserves} IN
       /\ phase' = [c \in Callers |-> IF c \in told THEN "idle" ELSE phase[c]]
       /\ child' = [c \in Callers |-> IF c \in told THEN None ELSE child[c]]
    /\ proc' = [proc EXCEPT ![g] = IF owner = g THEN "resetting" ELSE "gone"]
    /\ owner' = IF owner = g THEN None ELSE owner
    /\ UNCHANGED <<current, barrier, preserves, closed, config, lastConfig,
                   preparation>>

\* The vault's resetRedactionSecrets has settled; the barrier opens.
ResetDone(g) ==
    /\ proc[g] = "resetting"
    /\ proc' = [proc EXCEPT ![g] = "gone"]
    /\ UNCHANGED <<current, barrier, owner, preserves, closed, config,
                   lastConfig, preparation, calls>>

\* The owner changes an option the worker was configured with.
Reconfigure ==
    /\ \E k \in {"a", "b"} \ {config} : config' = k
    /\ UNCHANGED <<process, closed, lastConfig, preparation, calls>>

\* close(), for good.
FinalClose ==
    /\ ~closed
    /\ closed' = TRUE
    /\ Stop(current)
    /\ UNCHANGED <<barrier, owner, preserves, config, preparation, calls>>

Cleanup(g) == CloseEvent(g) \/ Drain(g) \/ ResetDone(g)
Prepare == ClosedForConfig \/ Start \/ RefuseSpawn \/ \E g \in Children : Spawn(g)

Next ==
    \/ \E c \in Callers :
          \/ Call(c) \/ Dispatch(c)
          \/ Respond(c) \/ RespondRestart(c)
          \/ TimerFires(c) \/ Abort(c) \/ CloseAwaited(c)
    \/ \E g \in Children : Exit(g) \/ Cleanup(g)
    \/ Prepare
    \/ Ready
    \/ StartTimesOut
    \/ Reconfigure
    \/ FinalClose

Spec == Init /\ [][Next]_vars

\* Timers go off, a worker told to end does or is killed, its output ends, its
\* RPCs are waited for only so long, and the vault's reset settles.  Nobody
\* has to call, abort, reconfigure or close, and no worker has to answer.
Fairness ==
    /\ \A c \in Callers :
          WF_vars(Dispatch(c)) /\ WF_vars(TimerFires(c)) /\ WF_vars(CloseAwaited(c))
    /\ \A g \in Children :
          WF_vars(proc[g] = "ending" /\ Exit(g)) /\ WF_vars(Cleanup(g))
    /\ WF_vars(Prepare) /\ WF_vars(StartTimesOut)

FairSpec == Spec /\ Fairness
-----------------------------------------------------------------------------
\* The types; a call in flight names the worker it waits for.
TypeOK ==
    /\ proc \in [Children -> Live \cup Down \cup {"exited", "draining", "resetting"}]
    /\ {current, barrier, owner, subject} \subseteq Children \cup {None}
    /\ preserves \subseteq Children
    /\ closed \in BOOLEAN
    /\ config \in {"a", "b"} /\ wanted \in {"a", "b"}
    /\ lastConfig \in {"a", "b", None}
    /\ prep \in {"none", "closing", "start", "barrier", "handshake"}
    /\ phase \in [Callers -> {"idle", "preparing", "prepared"} \cup Awaiting]
    /\ child \in [Callers -> Children \cup {None}]
    /\ \A c \in Callers : phase[c] \in Awaiting => child[c] # None

\* "A replacement cannot claim ownership while an older generation's
\* asynchronous reset is still running": two workers never overlap, from the
\* spawn of one to the end of the cleanup after it.
OneWorker ==
    \A g, h \in Children : proc[g] \notin Down /\ proc[h] \notin Down => g = h

\* Nothing erases the secrets the redactor knows while the worker that may
\* still disclose them runs: a living worker owns the redaction set.
RedactionOwned == \A g \in Children : Alive(g) => owner = g

\* A worker is taken down on account of one session only if that session's
\* call runs in it; otherwise its config has changed, it did not start, or
\* the browser is closed.  The late timer of a call to a dead worker never
\* hits the replacement.
OnlyOwnWorker ==
    [][\A g \in Children :
          proc[g] = "ready" /\ proc'[g] = "ending" =>
             \/ closed'
             \/ lastConfig # config
             \/ \E c \in Callers : child[c] = g /\ phase[c] = "sent"
                                     /\ phase'[c] # "sent"]_vars

\* Every call is answered, whatever the worker does.
EveryCallSettles == \A c \in Callers : phase[c] # "idle" ~> phase[c] = "idle"

\* Once the browser is closed no worker survives and none is started again,
\* not even by a call that was waiting for the last one's cleanup.
ClosedStaysClosed == closed ~> [](\A g \in Children : proc[g] \in Down)
-----------------------------------------------------------------------------
(* The inductive invariant *)

\* The barrier is that of every process not yet cleaned up after.
Barred == \A g \in Children : proc[g] \notin Down => barrier = g

\* The worker of a call whose time is up has been told to end, and one that
\* has answered the handshake is not waited for any more.
Told ==
    /\ \A c \in Callers :
          phase[c] = "timing" => proc[child[c]] \notin {"starting", "ready"}
    /\ prep = "handshake" => subject # None /\ proc[subject] # "ready"

\* The state is well formed, an answer is awaited from a worker alone, two
\* workers never overlap (the profile is never opened twice), and why.
IndInv == TypeOK /\ OneWorker /\ Barred /\ RedactionOwned /\ Told
=============================================================================
