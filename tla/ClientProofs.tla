---------------------------- MODULE ClientProofs ----------------------------
(***************************************************************************)
(* Proofs about the host client.                                           *)
(*                                                                         *)
(* Its worker's generations, for any number of sessions and process        *)
(* tokens: everything follows from one fact, that the barrier a            *)
(* replacement waits for is that of whatever process is not yet cleaned up *)
(* after, so a spawn finds none.                                           *)
(*                                                                         *)
(* Its queues, for any set of lanes and any number of jobs: jobs that may  *)
(* not overlap run one at a time and in the order of their enqueueing,     *)
(* which is why a session has at most one call in flight.                  *)
(***************************************************************************)
EXTENDS WorkerLifecycle, SessionLanes, TLAPS

-----------------------------------------------------------------------------
(* The worker's generations *)

\* Nothing runs to begin with.
LEMMA InitInv == Init => IndInv
BY NoneIsNoChild DEF Init, IndInv, TypeOK, OneWorker, Barred, RedactionOwned, Told,
   Alive, Live, Down, Awaiting

\* The state stays well formed.
LEMMA TypeStep ==
    ASSUME TypeOK, Barred, [Next]_vars
    PROVE  TypeOK'
<1> USE NoneIsNoChild DEF TypeOK, Live, Down, Awaiting, process, preparation, calls
<1>1. ASSUME NEW c \in Callers, Call(c) PROVE TypeOK'
  BY <1>1 DEF Call, Stop, Alive
<1>2. ASSUME NEW c \in Callers, Dispatch(c) \/ Respond(c) PROVE TypeOK'
  BY <1>2 DEF Dispatch, Respond, Settle
<1>3. ASSUME NEW c \in Callers, RespondRestart(c) PROVE TypeOK'
  <2>1. child[c] # None /\ barrier = child[c]
    BY <1>3 DEF RespondRestart, Readable, Barred
  <2>2. CASE current = None
    BY <1>3, <2>1, <2>2 DEF RespondRestart
  <2>3. CASE current # None
    BY <1>3, <2>3 DEF RespondRestart, Stop, Alive
  <2>4. QED BY <2>2, <2>3
<1>4. ASSUME NEW c \in Callers, TimerFires(c) \/ Abort(c) PROVE TypeOK'
  BY <1>4 DEF TimerFires, Abort, Stop, Alive
<1>5. ASSUME NEW c \in Callers, CloseAwaited(c) PROVE TypeOK'
  BY <1>5 DEF CloseAwaited, CloserResets, Settle
<1>6. ASSUME NEW g \in Children, Exit(g) \/ CloseEvent(g) \/ ResetDone(g) PROVE TypeOK'
  BY <1>6 DEF Exit, CloseEvent, ResetDone, Conclude
<1>7. ASSUME NEW g \in Children, Drain(g) PROVE TypeOK'
  BY <1>7 DEF Drain
<1>8. CASE ClosedForConfig \/ Start \/ RefuseSpawn
  BY <1>8 DEF ClosedForConfig, CloserResets, Start, RefuseSpawn, Conclude
<1>9. ASSUME NEW g \in Children, Spawn(g) PROVE TypeOK'
  BY <1>9 DEF Spawn, Launch
<1>10. CASE Ready \/ StartTimesOut
  BY <1>10 DEF Ready, StartTimesOut, Conclude
<1>11. CASE Reconfigure \/ UNCHANGED vars
  BY <1>11 DEF Reconfigure, vars
<1>12. CASE FinalClose
  BY <1>12 DEF FinalClose, Stop, Alive
<1>13. QED
  BY <1>1, <1>2, <1>3, <1>4, <1>5, <1>6, <1>7, <1>8, <1>9, <1>10, <1>11, <1>12
  DEF Next, Cleanup, Prepare

\* A process begins only where the barrier is open, takes the barrier and the
\* redaction set, and keeps both until it is down.
LEMMA BarrierStep ==
    ASSUME TypeOK, Barred, RedactionOwned, [Next]_vars
    PROVE  Barred' /\ RedactionOwned'
<1> USE NoneIsNoChild DEF TypeOK, Barred, RedactionOwned, Live, Down, Alive, IsGone,
        process, preparation, calls
<1>1. ASSUME NEW c \in Callers, Call(c) PROVE Barred' /\ RedactionOwned'
  BY <1>1 DEF Call, Stop
<1>2. ASSUME NEW c \in Callers, Dispatch(c) \/ Respond(c) PROVE Barred' /\ RedactionOwned'
  BY <1>2 DEF Dispatch, Respond
<1>3. ASSUME NEW c \in Callers, RespondRestart(c) PROVE Barred' /\ RedactionOwned'
  BY <1>3 DEF RespondRestart, Stop
<1>4. ASSUME NEW c \in Callers, TimerFires(c) \/ Abort(c) PROVE Barred' /\ RedactionOwned'
  BY <1>4 DEF TimerFires, Abort, Stop
<1>5. ASSUME NEW c \in Callers, CloseAwaited(c) PROVE Barred' /\ RedactionOwned'
  BY <1>5 DEF CloseAwaited, CloserResets
<1>6. ASSUME NEW g \in Children, Exit(g) \/ CloseEvent(g) \/ ResetDone(g)
      PROVE  Barred' /\ RedactionOwned'
  BY <1>6 DEF Exit, CloseEvent, ResetDone
<1>7. ASSUME NEW g \in Children, Drain(g) PROVE Barred' /\ RedactionOwned'
  BY <1>7 DEF Drain
<1>8. CASE ClosedForConfig \/ Start \/ RefuseSpawn
  BY <1>8 DEF ClosedForConfig, CloserResets, Start, RefuseSpawn
<1>9. ASSUME NEW g \in Children, Spawn(g) PROVE Barred' /\ RedactionOwned'
  <2>1. \A h \in Children : proc[h] \in Down
    BY <1>9 DEF Spawn
  <2>2. QED BY <1>9, <2>1 DEF Spawn, Launch
<1>10. CASE Ready \/ StartTimesOut
  BY <1>10 DEF Ready, StartTimesOut
<1>11. CASE Reconfigure \/ UNCHANGED vars
  BY <1>11 DEF Reconfigure, vars
<1>12. CASE FinalClose
  BY <1>12 DEF FinalClose, Stop
<1>13. QED
  BY <1>1, <1>2, <1>3, <1>4, <1>5, <1>6, <1>7, <1>8, <1>9, <1>10, <1>11, <1>12
  DEF Next, Cleanup, Prepare

\* No worker that was told to end is ready again, and its token is not given
\* to another while a call refers to it.
LEMMA ToldStep ==
    ASSUME TypeOK, Barred, Told, [Next]_vars
    PROVE  Told'
<1> USE NoneIsNoChild DEF TypeOK, Told, Live, Down, Alive, Awaiting, process, preparation, calls
<1>1. ASSUME NEW c \in Callers, Call(c) PROVE Told'
  BY <1>1 DEF Call, Stop
<1>2. ASSUME NEW c \in Callers, Dispatch(c) \/ Respond(c) PROVE Told'
  BY <1>2 DEF Dispatch, Respond, Settle
<1>3. ASSUME NEW c \in Callers, RespondRestart(c) PROVE Told'
  BY <1>3 DEF RespondRestart, Stop
<1>4. ASSUME NEW c \in Callers, TimerFires(c) \/ Abort(c) PROVE Told'
  BY <1>4 DEF TimerFires, Abort, Stop
<1>5. ASSUME NEW c \in Callers, CloseAwaited(c) PROVE Told'
  BY <1>5 DEF CloseAwaited, Settle
<1>6. ASSUME NEW g \in Children, Exit(g) \/ CloseEvent(g) \/ ResetDone(g) PROVE Told'
  BY <1>6 DEF Exit, CloseEvent, ResetDone, Conclude
<1>7. ASSUME NEW g \in Children, Drain(g) PROVE Told'
  BY <1>7 DEF Drain
<1>8. CASE ClosedForConfig \/ Start \/ RefuseSpawn
  BY <1>8 DEF ClosedForConfig, Start, RefuseSpawn, Conclude
<1>9. ASSUME NEW g \in Children, Spawn(g) PROVE Told'
  BY <1>9 DEF Spawn, Launch, Free
<1>10. CASE Ready \/ StartTimesOut
  BY <1>10 DEF Ready, StartTimesOut, Conclude
<1>11. CASE Reconfigure \/ UNCHANGED vars
  BY <1>11 DEF Reconfigure, vars
<1>12. CASE FinalClose
  BY <1>12 DEF FinalClose, Stop
<1>13. QED
  BY <1>1, <1>2, <1>3, <1>4, <1>5, <1>6, <1>7, <1>8, <1>9, <1>10, <1>11, <1>12
  DEF Next, Cleanup, Prepare
-----------------------------------------------------------------------------
\* Two workers never overlap, from the spawn of one to the end of the cleanup
\* after it, in whatever order calls, timers, exits and closes come.
THEOREM Inductive == Spec => []IndInv
<1>1. ASSUME IndInv, [Next]_vars PROVE IndInv'
  <2>1. TypeOK' /\ Barred' /\ RedactionOwned' /\ Told'
    BY <1>1, TypeStep, BarrierStep, ToldStep DEF IndInv
  <2>2. Barred' => OneWorker'
    BY DEF Barred, OneWorker
  <2>3. QED BY <2>1, <2>2 DEF IndInv
<1>2. QED BY InitInv, <1>1, PTL DEF Spec

\* Nothing erases the redactor's secrets while the worker that may still
\* disclose them runs.
THEOREM SecretsStayRedacted == Spec => []RedactionOwned
<1>1. IndInv => RedactionOwned
  BY DEF IndInv
<1>2. QED BY Inductive, <1>1, PTL

\* A call takes down no worker but the one it runs in.
THEOREM StopsOnlyItsOwn == Spec => OnlyOwnWorker
<1>1. ASSUME IndInv, [Next]_vars
      PROVE  [\A g \in Children :
                 proc[g] = "ready" /\ proc'[g] = "ending" =>
                    \/ closed'
                    \/ lastConfig # config
                    \/ \E c \in Callers : child[c] = g /\ phase[c] = "sent"
                                            /\ phase'[c] # "sent"]_vars
  <2> SUFFICES ASSUME Next, NEW g \in Children, proc[g] = "ready", proc'[g] = "ending",
                      ~closed', lastConfig = config
               PROVE  \E c \in Callers : child[c] = g /\ phase[c] = "sent" /\ phase'[c] # "sent"
    BY <1>1
  <2> USE <1>1, NoneIsNoChild DEF IndInv, TypeOK, Barred, Told, Down, Live, Awaiting,
          process, preparation, calls
  <2>1. ASSUME NEW c \in Callers, RespondRestart(c)
        PROVE  child[c] = g /\ phase[c] = "sent" /\ phase'[c] # "sent"
    <3>1. current = g
      BY <2>1 DEF RespondRestart, Stop
    <3>2. child[c] = g
      BY <2>1 DEF RespondRestart, Readable
    <3>3. QED BY <2>1, <3>2 DEF RespondRestart
  <2>2. ASSUME NEW c \in Callers, TimerFires(c) \/ Abort(c)
        PROVE  child[c] = g /\ phase[c] = "sent" /\ phase'[c] # "sent"
    BY <2>2 DEF TimerFires, Abort, Stop
  <2>3. ASSUME NEW c \in Callers, Call(c) \/ Dispatch(c) \/ Respond(c) \/ CloseAwaited(c)
        PROVE  FALSE
    BY <2>3 DEF Call, Stop, Dispatch, Respond, CloseAwaited
  <2>4. ASSUME NEW h \in Children, Exit(h) \/ Cleanup(h) \/ Spawn(h)
        PROVE  FALSE
    BY <2>4 DEF Exit, Cleanup, CloseEvent, Drain, ResetDone, Spawn, Launch
  <2>5. CASE ClosedForConfig \/ Start \/ RefuseSpawn \/ Ready \/ StartTimesOut \/ Reconfigure \/ FinalClose
    BY <2>5 DEF ClosedForConfig, Start, RefuseSpawn, Ready, StartTimesOut, Reconfigure, FinalClose
  <2>6. QED BY <2>1, <2>2, <2>3, <2>4, <2>5 DEF Next, Prepare
<1>2. QED BY Inductive, <1>1, PTL DEF Spec, OnlyOwnWorker

\* A browser that is closed and whose worker has been cleaned up after has come
\* to rest: no call, not even one that was waiting for that cleanup, starts
\* another worker.  What ClosedStaysClosed adds is that it gets there.
THEOREM RestIsForGood ==
    Spec => [](closed /\ (\A g \in Children : proc[g] \in Down)
                 => [](closed /\ \A g \in Children : proc[g] \in Down))
<1> DEFINE AtRest == closed /\ \A g \in Children : proc[g] \in Down
<1>1. ASSUME TypeOK, Told, AtRest, [Next]_vars PROVE AtRest'
  <2> USE <1>1, NoneIsNoChild DEF TypeOK, Told, Down, Live, Alive, process, preparation, calls
  <2>1. ASSUME NEW c \in Callers, Call(c) \/ TimerFires(c) \/ Abort(c) \/ RespondRestart(c)
        PROVE  AtRest'
    <3>1. \/ UNCHANGED <<proc, closed>>
          \/ \E h \in Children \cup {None} : Stop(h) /\ closed' = closed
      BY <2>1 DEF Call, TimerFires, Abort, RespondRestart
    <3>2. ASSUME NEW h \in Children \cup {None}, Stop(h) PROVE proc' = proc
      BY <3>2 DEF Stop
    <3>3. QED BY <3>1, <3>2
  <2>2. ASSUME NEW c \in Callers, Dispatch(c) \/ Respond(c) \/ CloseAwaited(c)
        PROVE  AtRest'
    BY <2>2 DEF Dispatch, Respond, CloseAwaited
  <2>3. ASSUME NEW g \in Children, Exit(g) \/ Cleanup(g) \/ Spawn(g)
        PROVE  AtRest'
    BY <2>3 DEF Exit, Cleanup, CloseEvent, Drain, ResetDone, Spawn
  <2>4. CASE ClosedForConfig \/ Start \/ RefuseSpawn \/ Reconfigure \/ FinalClose
    BY <2>4 DEF ClosedForConfig, Start, RefuseSpawn, Reconfigure, FinalClose
  <2>5. CASE Ready \/ StartTimesOut
    BY <2>5 DEF Ready, StartTimesOut
  <2>6. CASE UNCHANGED vars
    BY <2>6 DEF vars
  <2>7. QED BY <2>1, <2>2, <2>3, <2>4, <2>5, <2>6 DEF Next, Prepare
<1>2. IndInv => TypeOK /\ Told
  BY DEF IndInv
<1> HIDE DEF AtRest
<1>3. Spec => [](AtRest => []AtRest)
  BY Inductive, <1>1, <1>2, PTL DEF Spec
<1>4. QED BY <1>3 DEF AtRest

\* A process that is told to end, or has ended.
Leaving(g) == g # None => proc[g] \notin {"starting", "ready"}

\* Whatever a call or the preparation awaits is on its way out, so that the
\* await ends without anybody else doing anything; and a worker that is up is
\* the one that the next close takes down.
Underway ==
    /\ \A g \in Children : proc[g] \in {"starting", "ready"} => current = g
    /\ \A c \in Callers : phase[c] \in {"timing", "aborting", "restarting"} => Leaving(child[c])
    /\ prep = "closing" => Leaving(subject)
    /\ prep = "barrier" => current = None
    /\ (\E c \in Callers : phase[c] = "preparing") => prep # "none"
    /\ closed => \A g \in Children : Leaving(g)

\* Stopping a worker, or leaving it alone, keeps what is up the current one.
LEMMA Stopped ==
    ASSUME TypeOK, Underway, NEW g \in Children \cup {None}, Stop(g)
    PROVE  /\ \A h \in Children : proc'[h] \in {"starting", "ready"} =>
                 proc[h] \in {"starting", "ready"} /\ h # g /\ current' = h
           /\ Leaving(g)'
           /\ \A h \in Children \cup {None} : Leaving(h) => Leaving(h)'
           /\ current = None => current' = None
BY NoneIsNoChild DEF Stop, Alive, Live, TypeOK, Underway, Leaving

\* Everybody who waits for a preparation is told when it is concluded.
LEMMA Concluded ==
    ASSUME NEW next \in {"prepared", "idle"}, Conclude(next)
    PROVE  /\ prep' = "none" /\ \A c \in Callers : phase'[c] # "preparing"
           /\ \A c \in Callers : phase'[c] \in {"timing", "aborting", "restarting"} => phase[c] = phase'[c]
BY DEF Conclude

LEMMA UnderwayStep ==
    ASSUME TypeOK, Barred, Told, Underway, [Next]_vars
    PROVE  Underway'
<1> USE NoneIsNoChild DEF process, preparation, calls
<1>1. ASSUME NEW c \in Callers, Call(c) PROVE Underway'
  <2>1. /\ UNCHANGED <<closed, child>> /\ prep' # "none"
        /\ \A d \in Callers : phase'[d] \in {"timing", "aborting", "restarting"} => phase[d] = phase'[d]
    BY <1>1 DEF Call, TypeOK
  <2>2. CASE UNCHANGED <<proc, current, subject>> /\ (prep' = prep \/ prep' = "start")
    BY <2>1, <2>2 DEF Underway, Leaving
  <2>3. CASE Stop(current) /\ prep' = "closing" /\ subject' = current
    <3>1. PICK g \in Children \cup {None} : g = current
      BY DEF TypeOK
    <3>2. Stop(g) /\ subject' = g
      BY <2>3, <3>1
    <3>3. Leaving(g)' /\ \A h \in Children \cup {None} : Leaving(h) => Leaving(h)'
      BY <3>2, Stopped
    <3>4. \A h \in Children : proc'[h] \in {"starting", "ready"} => current' = h
      BY <3>2, Stopped
    <3>5. QED BY <2>1, <2>3, <3>2, <3>3, <3>4 DEF Underway, TypeOK, Leaving
  <2>4. QED BY <1>1, <2>2, <2>3 DEF Call
<1>2. ASSUME NEW c \in Callers, Dispatch(c) \/ Respond(c) \/ CloseAwaited(c) PROVE Underway'
  <2>1. /\ UNCHANGED <<proc, current, prep, subject, closed>>
        /\ phase'[c] \in {"idle", "sent"}
        /\ \A d \in Callers \ {c} : phase'[d] = phase[d] /\ child'[d] = child[d]
    BY <1>2 DEF Dispatch, Respond, CloseAwaited, Settle, TypeOK
  <2>2. QED BY <2>1 DEF Underway, Leaving
<1>3. ASSUME NEW c \in Callers, RespondRestart(c) PROVE Underway'
  <2>1. /\ UNCHANGED <<prep, subject, closed>>
        /\ phase'[c] = "restarting"
        /\ \A d \in Callers \ {c} : phase'[d] = phase[d] /\ child'[d] = child[d]
        /\ child'[c] = IF current = None THEN barrier ELSE current
    BY <1>3 DEF RespondRestart, TypeOK
  <2>2. CASE current = None
    <3>1. UNCHANGED <<proc, current>> /\ Leaving(barrier)
      BY <1>3, <2>2 DEF RespondRestart, Underway, Leaving, TypeOK
    <3>2. QED BY <2>1, <2>2, <3>1 DEF Underway, Leaving
  <2>3. CASE current # None
    <3>1. PICK g \in Children \cup {None} : g = current
      BY DEF TypeOK
    <3>2. Stop(g) /\ child'[c] = g
      BY <1>3, <2>1, <2>3, <3>1 DEF RespondRestart
    <3>3. /\ Leaving(g)' /\ \A h \in Children \cup {None} : Leaving(h) => Leaving(h)'
          /\ current = None => current' = None
      BY <3>2, Stopped
    <3>4. \A h \in Children : proc'[h] \in {"starting", "ready"} => current' = h
      BY <3>2, Stopped
    <3>5. QED BY <2>1, <3>2, <3>3, <3>4 DEF Underway, TypeOK, Leaving
  <2>4. QED BY <2>2, <2>3
<1>4. ASSUME NEW c \in Callers, TimerFires(c) \/ Abort(c) PROVE Underway'
  <2>1. /\ UNCHANGED <<prep, subject, closed, child>>
        /\ \A d \in Callers \ {c} : phase'[d] = phase[d]
        /\ phase'[c] \in {"timing", "aborting"}
        /\ Stop(child[c]) /\ child[c] \in Children \cup {None}
    BY <1>4 DEF TimerFires, Abort, TypeOK
  <2>2. Leaving(child[c])' /\ \A h \in Children \cup {None} : Leaving(h) => Leaving(h)'
    BY <2>1, Stopped
  <2>3. QED BY <2>1, <2>2, Stopped DEF Underway, TypeOK, Leaving
<1>5. ASSUME NEW g \in Children, Exit(g) \/ Cleanup(g) PROVE Underway'
  <2>1. /\ \A h \in Children : proc'[h] \in {"starting", "ready"} => proc[h] = proc'[h] /\ h # g
        /\ current' = current \/ current' = None
        /\ current # g => current' = current
        /\ UNCHANGED <<subject, closed>>
    BY <1>5 DEF Exit, Cleanup, CloseEvent, Drain, ResetDone, TypeOK
  <2>2. \/ prep' = prep /\ \A c \in Callers : phase'[c] = phase[c] \/ phase'[c] = "idle"
        \/ Conclude("idle")
    BY <1>5 DEF Exit, Cleanup, CloseEvent, Drain, ResetDone, TypeOK
  <2>3. \A c \in Callers : child'[c] = child[c] \/ child'[c] = None
    BY <1>5 DEF Exit, Cleanup, CloseEvent, Drain, ResetDone, TypeOK
  <2>4. \A h \in Children \cup {None} : Leaving(h) => Leaving(h)'
    BY <2>1 DEF Leaving
  <2>5. CASE prep' = prep /\ \A c \in Callers : phase'[c] = phase[c] \/ phase'[c] = "idle"
    BY <2>1, <2>3, <2>4, <2>5 DEF Underway, TypeOK, Leaving
  <2>6. CASE Conclude("idle")
    BY <2>1, <2>3, <2>4, <2>6, Concluded DEF Underway, TypeOK, Leaving
  <2>7. QED BY <2>2, <2>5, <2>6
<1>6. CASE ClosedForConfig
  BY <1>6 DEF ClosedForConfig, Underway, Leaving
<1>7. CASE Start \/ RefuseSpawn
  <2>1. UNCHANGED <<proc, current, subject, closed, child>>
    BY <1>7 DEF Start, RefuseSpawn
  <2>2. \/ \E next \in {"prepared", "idle"} : Conclude(next)
        \/ prep' = "barrier" /\ current = None /\ phase' = phase
    BY <1>7 DEF Start, RefuseSpawn
  <2>3. CASE \E next \in {"prepared", "idle"} : Conclude(next)
    BY <2>1, <2>3, Concluded DEF Underway, Leaving
  <2>4. CASE prep' = "barrier" /\ current = None /\ phase' = phase
    BY <2>1, <2>4 DEF Underway, Leaving
  <2>5. QED BY <2>2, <2>3, <2>4
<1>8. ASSUME NEW g \in Children, Spawn(g) PROVE Underway'
  <2>1. /\ \A h \in Children \ {g} : proc'[h] = proc[h] /\ proc[h] \notin {"starting", "ready"}
        /\ current' = g /\ prep' = "handshake" /\ ~closed /\ UNCHANGED <<closed, phase, child>>
        /\ \A c \in Callers : child[c] # g
    BY <1>8 DEF Spawn, Launch, Free, Underway, TypeOK
  <2>2. QED BY <2>1 DEF Underway, TypeOK, Leaving
<1>9. CASE Ready
  <2>1. /\ UNCHANGED <<current, subject, closed, child>> /\ Conclude("prepared")
        /\ \A h \in Children : proc'[h] \in {"starting", "ready"} => proc[h] \in {"starting", "ready"}
    BY <1>9 DEF Ready, TypeOK
  <2>2. QED BY <2>1, Concluded DEF Underway, TypeOK, Leaving
<1>10. CASE StartTimesOut
  <2>1. /\ UNCHANGED <<subject, closed, child>> /\ Conclude("idle")
        /\ \A h \in Children : proc'[h] \in {"starting", "ready"} => proc[h] = proc'[h] /\ h # subject
        /\ current # subject => current' = current
    BY <1>10 DEF StartTimesOut, TypeOK, Live
  <2>2. QED BY <2>1, Concluded DEF Underway, TypeOK, Leaving
<1>11. CASE FinalClose
  <2>1. /\ UNCHANGED <<prep, subject, phase, child>> /\ Stop(current)
        /\ current \in Children \cup {None}
    BY <1>11 DEF FinalClose, TypeOK
  <2>2. \A h \in Children : Leaving(h)'
    BY <2>1, Stopped DEF Underway, Leaving
  <2>3. QED BY <2>1, <2>2, Stopped DEF Underway, TypeOK, Leaving
<1>12. CASE Reconfigure \/ UNCHANGED vars
  BY <1>12 DEF Reconfigure, vars, Underway, Leaving
<1>13. QED
  BY <1>1, <1>2, <1>3, <1>4, <1>5, <1>6, <1>7, <1>8, <1>9, <1>10, <1>11, <1>12
  DEF Next, Prepare

\* Nobody waits in vain: a timed out, aborted or restarting call waits for a
\* worker that has been told to end, a preparation for one that has, or for the
\* handshake of the current one, and a closed browser has no worker that has
\* not been told.  That they all do end is EveryCallSettles and ClosedStaysClosed.
THEOREM NobodyWaitsInVain == Spec => []Underway
<1>1. Init => Underway
  BY DEF Init, Underway, Leaving
<1>2. ASSUME IndInv, Underway, [Next]_vars PROVE Underway'
  BY <1>2, UnderwayStep DEF IndInv
<1>3. QED BY Inductive, <1>1, <1>2, PTL DEF Spec
-----------------------------------------------------------------------------
(* The queues *)

\* A job that has not finished stands before the tail of its lane, or before
\* the gate if it is exclusive: whoever chains to these is covered.
LEMMA TailCovers ==
    ASSUME LanesTypeOK, TailsAndGate, NEW i \in Jobs, state[i] # "done"
    PROVE  /\ lane[i] = Exclusive => gate \in Jobs /\ lane[gate] = Exclusive /\ i <= gate
           /\ lane[i] # Exclusive =>
                /\ lane[i] \in Lanes
                /\ tail[lane[i]] \in Jobs
                /\ lane[tail[lane[i]]] = lane[i]
                /\ i <= tail[lane[i]]
<1>1. CASE lane[i] = Exclusive
  BY <1>1 DEF LanesTypeOK, TailsAndGate, Jobs
<1>2. CASE lane[i] # Exclusive
  <2>1. lane[i] \in Lanes
    BY <1>2 DEF LanesTypeOK
  <2>2. i <= tail[lane[i]]
    BY <2>1 DEF TailsAndGate
  <2>3. tail[lane[i]] \in Jobs
    BY <2>1, <2>2 DEF LanesTypeOK, Jobs
  <2>4. lane[tail[lane[i]]] = lane[i]
    BY <2>1, <2>3 DEF TailsAndGate, Jobs
  <2> QED
    BY <1>2, <2>1, <2>2, <2>3, <2>4
<1> QED
  BY <1>1, <1>2

\* Enqueueing one more job keeps the invariant, provided that the new job is
\* chained to enough earlier jobs and only to those it conflicts with.
LEMMA ChainKeeps ==
    ASSUME LanesInv, NEW l \in Lanes \cup {Exclusive}, NEW deps \in SUBSET Jobs,
           Chain(l, deps),
           \A i \in Jobs :
               state[i] # "done" /\ (lane[i] = l \/ lane[i] = Exclusive \/ l = Exclusive)
               => \E k \in deps : k = i \/ (i < k /\ Conflict(i, k)),
           \A k \in deps : lane[k] = l \/ lane[k] = Exclusive \/ l = Exclusive
    PROVE  /\ last' \in Nat
           /\ lane' \in [Jobs' -> Lanes \cup {Exclusive}]
           /\ state' \in [Jobs' -> {"waiting", "running", "done"}]
           /\ waits' \in [Jobs' -> SUBSET Jobs']
           /\ InOrder' /\ Covered' /\ Backward'
<1> USE DEF LanesInv
<1>0. PICK n : n = last + 1
  OBVIOUS
<1>1. /\ last \in Nat /\ last' = n /\ Jobs = 1 .. last /\ Jobs' = 1 .. n
      /\ Jobs' = Jobs \cup {n} /\ n \notin Jobs
      /\ \A j \in Jobs : j \in Nat /\ j < n
  BY <1>0 DEF LanesTypeOK, Chain, Jobs
<1>2. /\ lane' \in [Jobs' -> Lanes \cup {Exclusive}]
      /\ state' \in [Jobs' -> {"waiting", "running", "done"}]
      /\ waits' \in [Jobs' -> SUBSET Jobs']
  BY <1>0, <1>1 DEF LanesTypeOK, Chain
<1>3. /\ \A j \in Jobs : lane'[j] = lane[j] /\ state'[j] = state[j] /\ waits'[j] = waits[j]
      /\ lane'[n] = l /\ state'[n] = "waiting" /\ waits'[n] = deps
  BY <1>0, <1>1 DEF Chain
<1>4. \A i, j \in Jobs : Conflict(i, j)' <=> Conflict(i, j)
  BY <1>3 DEF Conflict
<1>5. \A i \in Jobs :
           Conflict(i, n)' <=> (lane[i] = l \/ lane[i] = Exclusive \/ l = Exclusive)
  BY <1>3 DEF Conflict
<1>6. InOrder'
  BY <1>1, <1>3, <1>4 DEF InOrder
<1>7. Covered'
  <2> SUFFICES ASSUME NEW i \in Jobs', NEW j \in Jobs', i < j,
                      Conflict(i, j)', state'[i] # "done"
               PROVE  \E k \in waits'[j] : k = i \/ (i < k /\ Conflict(i, k)')
    BY DEF Covered
  <2>1. i \in Jobs
    BY <1>1
  <2>2. CASE j \in Jobs
    <3>1. PICK k \in waits[j] : k = i \/ (i < k /\ Conflict(i, k))
      BY <2>1, <2>2, <1>3, <1>4 DEF Covered
    <3>2. k \in Jobs
      BY <2>2 DEF LanesTypeOK
    <3> QED
      BY <2>1, <2>2, <3>1, <3>2, <1>3, <1>4
  <2>3. CASE j = n
    <3>1. PICK k \in deps : k = i \/ (i < k /\ Conflict(i, k))
      BY <2>1, <2>3, <1>3, <1>5
    <3> QED
      BY <2>1, <2>3, <3>1, <1>3, <1>4
  <2> QED
    BY <2>2, <2>3, <1>1
<1>8. Backward'
  <2> SUFFICES ASSUME NEW j \in Jobs', NEW k \in waits'[j]
               PROVE  k < j /\ Conflict(k, j)'
    BY DEF Backward
  <2>1. CASE j \in Jobs
    <3>1. k \in Jobs
      BY <2>1, <1>3 DEF LanesTypeOK
    <3> QED
      BY <2>1, <3>1, <1>3, <1>4 DEF Backward
  <2>2. CASE j = n
    BY <2>2, <1>1, <1>3, <1>5
  <2> QED
    BY <2>1, <2>2, <1>1
<1> QED
  BY <1>1, <1>2, <1>6, <1>7, <1>8

LEMMA EnqueueKeeps ==
    ASSUME LanesInv, NEW l \in Lanes, Enqueue(l)
    PROVE  LanesInv'
<1> DEFINE deps == {tail[l], gate} \ {0}
<1>1. deps \in SUBSET Jobs
  BY DEF LanesInv, LanesTypeOK, Jobs
<1>2. \A i \in Jobs : state[i] # "done" /\ (lane[i] = l \/ lane[i] = Exclusive)
        => \E k \in deps : k = i \/ (i < k /\ Conflict(i, k))
  <2> SUFFICES ASSUME NEW i \in Jobs, state[i] # "done", lane[i] = l \/ lane[i] = Exclusive
               PROVE  \E k \in deps : k = i \/ (i < k /\ Conflict(i, k))
    OBVIOUS
  <2>1. CASE lane[i] = Exclusive
    <3>1. gate \in Jobs /\ lane[gate] = Exclusive /\ i <= gate
      BY <2>1, TailCovers DEF LanesInv
    <3>2. gate \in deps
      BY <3>1 DEF Jobs
    <3> QED
      BY <2>1, <3>1, <3>2 DEF Conflict, Jobs
  <2>2. CASE lane[i] # Exclusive
    <3>1. tail[l] \in Jobs /\ lane[tail[l]] = l /\ i <= tail[l] /\ lane[i] = l
      BY <2>2, TailCovers DEF LanesInv
    <3>2. tail[l] \in deps
      BY <3>1 DEF Jobs
    <3> QED
      BY <3>1, <3>2 DEF Conflict, Jobs
  <2> QED
    BY <2>1, <2>2
<1>3. l # Exclusive
  BY ExclusiveIsNoLane
<1>4. \A k \in deps : lane[k] = l \/ lane[k] = Exclusive
  BY DEF LanesInv, TailsAndGate
<1>5. Chain(l, deps) /\ tail' = [tail EXCEPT ![l] = last + 1] /\ gate' = gate
  BY DEF Enqueue
<1>6. /\ last' \in Nat
      /\ lane' \in [Jobs' -> Lanes \cup {Exclusive}]
      /\ state' \in [Jobs' -> {"waiting", "running", "done"}]
      /\ waits' \in [Jobs' -> SUBSET Jobs']
      /\ InOrder' /\ Covered' /\ Backward'
  <2> HIDE DEF deps
  <2> QED
    BY <1>1, <1>2, <1>3, <1>4, <1>5, ChainKeeps
<1>7. tail' \in [Lanes -> 0 .. last'] /\ gate' \in 0 .. last'
  BY <1>5 DEF LanesInv, LanesTypeOK, Chain
<1>8. TailsAndGate'
  BY <1>3, <1>5 DEF LanesInv, LanesTypeOK, TailsAndGate, Chain, Jobs
<1> QED
  BY <1>6, <1>7, <1>8 DEF LanesInv, LanesTypeOK

LEMMA EnqueueExclusiveKeeps ==
    ASSUME LanesInv, EnqueueExclusive
    PROVE  LanesInv'
<1> DEFINE deps == ({gate} \cup {tail[l] : l \in Lanes}) \ {0}
<1>1. deps \in SUBSET Jobs
  BY DEF LanesInv, LanesTypeOK, Jobs
<1>2. \A i \in Jobs : state[i] # "done"
        => \E k \in deps : k = i \/ (i < k /\ Conflict(i, k))
  <2> SUFFICES ASSUME NEW i \in Jobs, state[i] # "done"
               PROVE  \E k \in deps : k = i \/ (i < k /\ Conflict(i, k))
    OBVIOUS
  <2>1. CASE lane[i] = Exclusive
    <3>1. gate \in Jobs /\ lane[gate] = Exclusive /\ i <= gate
      BY <2>1, TailCovers DEF LanesInv
    <3>2. gate \in deps
      BY <3>1 DEF Jobs
    <3> QED
      BY <2>1, <3>1, <3>2 DEF Conflict, Jobs
  <2>2. CASE lane[i] # Exclusive
    <3>1. /\ lane[i] \in Lanes /\ tail[lane[i]] \in Jobs
          /\ lane[tail[lane[i]]] = lane[i] /\ i <= tail[lane[i]]
      BY <2>2, TailCovers DEF LanesInv
    <3>2. tail[lane[i]] \in deps
      BY <3>1 DEF Jobs
    <3> QED
      BY <3>1, <3>2 DEF Conflict, Jobs
  <2> QED
    BY <2>1, <2>2
<1>3. Chain(Exclusive, deps) /\ gate' = last + 1 /\ tail' = tail
  BY DEF EnqueueExclusive
<1>4. /\ last' \in Nat
      /\ lane' \in [Jobs' -> Lanes \cup {Exclusive}]
      /\ state' \in [Jobs' -> {"waiting", "running", "done"}]
      /\ waits' \in [Jobs' -> SUBSET Jobs']
      /\ InOrder' /\ Covered' /\ Backward'
  <2> HIDE DEF deps
  <2> QED
    BY <1>1, <1>2, <1>3, ChainKeeps
<1>5. tail' \in [Lanes -> 0 .. last'] /\ gate' \in 0 .. last'
  BY <1>3 DEF LanesInv, LanesTypeOK, Chain
<1>6. TailsAndGate'
  BY <1>3, ExclusiveIsNoLane
  DEF LanesInv, LanesTypeOK, TailsAndGate, Chain, Jobs
<1> QED
  BY <1>4, <1>5, <1>6 DEF LanesInv, LanesTypeOK

LEMMA StartKeeps ==
    ASSUME LanesInv, NEW j \in Jobs, StartJob(j)
    PROVE  LanesInv'
<1> USE DEF LanesInv, StartJob
<1>1. LanesTypeOK'
  BY DEF LanesTypeOK, Jobs
<1>2. InOrder'
  <2> SUFFICES ASSUME NEW i \in Jobs, NEW k \in Jobs, i < k,
                      Conflict(i, k), state'[k] # "waiting"
               PROVE  state'[i] = "done"
    BY DEF InOrder, Conflict, Jobs
  <2>1. CASE k # j
    BY <2>1 DEF LanesTypeOK, InOrder
  <2>2. CASE k = j
    <3>1. state[i] = "done"
      <4> SUFFICES ASSUME state[i] # "done" PROVE FALSE
        OBVIOUS
      <4>1. PICK w \in waits[j] : w = i \/ (i < w /\ Conflict(i, w))
        BY <2>2 DEF Covered
      <4>2. w \in Jobs /\ state[w] = "done"
        BY DEF LanesTypeOK
      <4> QED
        BY <4>1, <4>2 DEF InOrder
    <3> QED
      BY <2>2, <3>1 DEF LanesTypeOK, Jobs
  <2> QED
    BY <2>1, <2>2
<1>3. Covered'
  BY DEF LanesTypeOK, Covered, Conflict, Jobs
<1>4. Backward'
  BY DEF Backward, Conflict, Jobs
<1>5. TailsAndGate'
  BY DEF LanesTypeOK, TailsAndGate, Jobs
<1> QED
  BY <1>1, <1>2, <1>3, <1>4, <1>5

LEMMA FinishKeeps ==
    ASSUME LanesInv, NEW j \in Jobs, Finish(j)
    PROVE  LanesInv'
<1> USE DEF LanesInv, Finish
<1>1. LanesTypeOK'
  BY DEF LanesTypeOK, ForgetDrained, Jobs
<1>2. \A i \in Jobs : state'[i] = (IF i = j THEN "done" ELSE state[i])
  BY DEF LanesTypeOK
<1>3. InOrder'
  BY <1>2 DEF InOrder, Conflict, Jobs
<1>4. Covered'
  BY <1>2 DEF Covered, Conflict, Jobs
<1>5. Backward'
  BY DEF Backward, Conflict, Jobs
<1>6. TailsAndGate'
  <2>1. ASSUME NEW l \in Lanes
        PROVE  /\ tail'[l] # 0 => lane[tail'[l]] = l
               /\ \A i \in Jobs : lane[i] = l => i <= tail'[l] \/ state'[i] = "done"
    <3>1. CASE tail[l] # j
      BY <3>1, <1>2 DEF ForgetDrained, TailsAndGate
    <3>2. CASE tail[l] = j
      <4>1. tail'[l] = 0 /\ lane[j] = l
        BY <3>2 DEF ForgetDrained, TailsAndGate, Jobs
      <4>2. ASSUME NEW i \in Jobs, lane[i] = l PROVE state'[i] = "done"
        <5>1. CASE i < j
          BY <5>1, <4>1, <4>2, <1>2 DEF InOrder, Conflict
        <5>2. CASE i = j
          BY <5>2, <1>2
        <5>3. CASE i > j
          BY <5>3, <3>2, <4>2, <1>2 DEF TailsAndGate, Jobs
        <5> QED
          BY <5>1, <5>2, <5>3 DEF Jobs
      <4> QED
        BY <4>1, <4>2
    <3> QED
      BY <3>1, <3>2
  <2>2. /\ gate # 0 => lane[gate] = Exclusive
        /\ \A i \in Jobs : lane[i] = Exclusive => i <= gate
    BY DEF TailsAndGate
  <2> QED
    BY <2>1, <2>2 DEF TailsAndGate, Jobs
<1> QED
  BY <1>1, <1>3, <1>4, <1>5, <1>6

\* The invariant holds of every behaviour of the queues.
THEOREM LanesInductive ==
    LanesSpec => []LanesInv
<1>1. LanesInit => LanesInv
  BY DEF LanesInit, LanesInv, LanesTypeOK, InOrder, Covered, Backward, TailsAndGate,
         Jobs
<1>2. LanesInv /\ [LanesNext]_lanesVars => LanesInv'
  <2> SUFFICES ASSUME LanesInv, [LanesNext]_lanesVars PROVE LanesInv'
    OBVIOUS
  <2>1. CASE \E l \in Lanes : Enqueue(l)
    BY <2>1, EnqueueKeeps
  <2>2. CASE EnqueueExclusive
    BY <2>2, EnqueueExclusiveKeeps
  <2>3. CASE \E j \in Jobs : StartJob(j) \/ Finish(j)
    BY <2>3, StartKeeps, FinishKeeps
  <2>4. CASE UNCHANGED lanesVars
    BY <2>4
    DEF lanesVars, LanesInv, LanesTypeOK, InOrder, Covered, Backward, TailsAndGate,
        Conflict, Jobs
  <2> QED
    BY <2>1, <2>2, <2>3, <2>4 DEF LanesNext
<1> QED
  BY <1>1, <1>2, PTL DEF LanesSpec

\* What a waiting job is chained to is finished exactly when every job that it
\* may not overtake is.
LEMMA ChainedToEnough ==
    ASSUME LanesInv, NEW j \in Jobs
    PROVE  (\A i \in waits[j] : state[i] = "done") <=> Serial!Due(j)
<1> USE DEF LanesInv, Serial!Due, Serial!Jobs, Serial!Conflict, Conflict, Jobs
<1>1. ASSUME \A i \in waits[j] : state[i] = "done",
             NEW i \in Jobs, i < j, Conflict(i, j)
      PROVE  state[i] = "done"
  <2> SUFFICES ASSUME state[i] # "done" PROVE FALSE
    OBVIOUS
  <2>1. PICK k \in waits[j] : k = i \/ (i < k /\ Conflict(i, k))
    BY <1>1 DEF Covered
  <2>2. k \in Jobs /\ state[k] = "done"
    BY <1>1 DEF LanesTypeOK
  <2>3. QED BY <2>1, <2>2 DEF InOrder
<1>2. ASSUME \A i \in Jobs : i < j /\ Conflict(i, j) => state[i] = "done",
             NEW i \in waits[j]
      PROVE  state[i] = "done"
  <2>1. i \in Jobs /\ i < j /\ Conflict(i, j)
    BY DEF LanesTypeOK, Backward
  <2>2. QED BY <1>2, <2>1
<1>3. QED BY <1>1, <1>2

\* A step of the queues is a step of the serial lanes, or leaves the jobs alone.
LEMMA SerialStep ==
    ASSUME LanesInv, [LanesNext]_lanesVars
    PROVE  [Serial!Next]_(Serial!vars)
<1> USE DEF Serial!Next, Serial!vars, Serial!Jobs, Jobs
<1>1. ASSUME NEW l \in Lanes, Enqueue(l) PROVE Serial!Submit(l)
  BY <1>1 DEF Enqueue, Chain, Serial!Submit
<1>2. CASE EnqueueExclusive
  <2>1. Serial!Submit(Exclusive)
    BY <1>2 DEF EnqueueExclusive, Chain, Serial!Submit
  <2>2. QED BY <2>1
<1>3. ASSUME NEW j \in Jobs, StartJob(j) PROVE Serial!Start(j)
  BY <1>3, ChainedToEnough DEF StartJob, Serial!Start
<1>4. ASSUME NEW j \in Jobs, Finish(j) PROVE Serial!Finish(j)
  BY <1>4 DEF Finish, Serial!Finish
<1>5. CASE UNCHANGED lanesVars
  BY <1>5 DEF lanesVars
<1>6. QED BY <1>1, <1>2, <1>3, <1>4, <1>5 DEF LanesNext

\* The promise chains of _enqueue and _enqueueExclusive implement serial lanes:
\* a job that starts has nothing before it that it may not overtake.
THEOREM ImplementsSerialLanes ==
    LanesSpec => SerialSpec
<1>1. LanesInit => Serial!Init
  BY DEF LanesInit, Serial!Init
<1>2. QED
  BY <1>1, LanesInductive, SerialStep, PTL
  DEF LanesSpec, SerialSpec, Serial!Spec

\* They hold nobody back either: a waiting job that may start according to
\* SerialLanes has nothing left to wait for.
THEOREM NoNeedlessWait ==
    LanesSpec => [](\A j \in Jobs :
               Serial!Due(j) => \A i \in waits[j] : state[i] = "done")
<1>1. LanesInv => \A j \in Jobs :
          Serial!Due(j) => \A i \in waits[j] : state[i] = "done"
  BY ChainedToEnough
<1>2. QED BY <1>1, LanesInductive, PTL

\* Of the jobs that may not overlap one runs at most: a session has one call in
\* flight, which is how WorkerLifecycle names its calls, and Cookie Sync none
\* beside it.
THEOREM OneJobRuns ==
    LanesSpec => [](\A i, j \in Jobs :
               Conflict(i, j) /\ state[i] = "running" /\ state[j] = "running" => i = j)
<1>1. ASSUME LanesTypeOK, InOrder, NEW i \in Jobs, NEW j \in Jobs,
             Conflict(i, j), state[i] = "running", state[j] = "running"
      PROVE  i = j
  <2>1. Conflict(j, i)
    BY <1>1 DEF Conflict
  <2>2. ~(i < j) /\ ~(j < i)
    BY <1>1, <2>1 DEF InOrder
  <2>3. i \in Nat /\ j \in Nat
    BY <1>1 DEF Jobs, LanesTypeOK
  <2>4. QED BY <2>2, <2>3
<1>2. LanesInv => (\A i, j \in Jobs :
          Conflict(i, j) /\ state[i] = "running" /\ state[j] = "running" => i = j)
  BY <1>1 DEF LanesInv
<1>3. QED BY LanesInductive, <1>2, PTL
=============================================================================
