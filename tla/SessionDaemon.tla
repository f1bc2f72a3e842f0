--------------------------- MODULE SessionDaemon ---------------------------
(***************************************************************************)
(* The agent runs of one session of the session daemon: startSessionDaemon *)
(* in src/src/daemon.ts with execTask and reattach in                      *)
(* src/src/daemon-client.ts.                                               *)
(*                                                                         *)
(* Every client asks for one task; its request and the run that serves it  *)
(* carry the client's name.  The daemon chains the tasks of a session, so  *)
(* that a run starts when the one before it has settled, streams a run's   *)
(* notes to whoever subscribes, and lets a client whose connection broke   *)
(* attach to the run again.  Connections break without either end knowing: *)
(* the client's end is gone as soon as the client has lost it, the         *)
(* daemon's end when Release sees it.  What is delivered is received at    *)
(* once; a note in flight on a connection that breaks is one that was sent *)
(* after the break.                                                        *)
(***************************************************************************)
EXTENDS Naturals

CONSTANTS
  Client,     \* clients, their requests and their runs
  None,       \* no client
  Fresh,      \* those that ask for a fresh conversation
  Limit,      \* frames a ReplayBuffer keeps
  Frames,     \* bound: notes of each run that are told apart
  MaxDrops,   \* bound: connections a client loses and replaces
  Flaky,      \* bound: the clients whose connections may break
  MaxUpsets   \* bound: how often the session is closed or the daemon dies

ASSUME ConstAssumption ==
  /\ None \notin Client
  /\ Limit \in Nat \ {0}
  /\ Frames \in [Client -> Nat]
  /\ Fresh \subseteq Client /\ Flaky \subseteq Client
  /\ MaxDrops \in Nat /\ MaxUpsets \in Nat

VARIABLES
  phase,    \* client: "idle", "waiting", "lost", "done" or "failed"
  link,     \* client: which of its connections is the current one
  known,    \* client: the run id and the last note it has seen
  kept,     \* client: what it knew when it lost its first connection
  skipped,  \* client: was it ever sent past a note without being told?
  answer,   \* client: the run whose result it was given
  open,     \* connections the daemon believes are open
  run,      \* run: "none", "queued", "running", "settled" or "gone"
  prior,    \* run: the run it is chained to
  seq,      \* run: how many notes it has emitted
  subs,     \* run: the connections that subscribe to it
  timer,    \* run: is its orphan timer armed?
  aborted,  \* run: was its controller aborted?
  base,     \* run: the runs its conversation remembers
  record,   \* the entry of the session in the registry of runs
  tail,     \* the entry of the session in execChains
  closing,  \* the run a close_session waits for
  story,    \* the runs the saved transcript remembers
  upsets,   \* how often the session was closed or the daemon died
  left      \* the runs that were queued when the session was closed

clientVars == <<phase, link, known, kept, skipped, answer>>
runVars == <<run, prior, seq, subs, timer, aborted, base>>
daemonVars == <<open, record, tail, closing, story, upsets, left>>
vars == <<clientVars, runVars, daemonVars>>

MaybeClient == Client \cup {None}
Connection == Client \X (0..MaxDrops)
Cursor == [run : MaybeClient, seq : Nat]
NoCursor == [run |-> None, seq |-> 0]

TypeOK ==
  /\ phase \in [Client -> {"idle", "waiting", "lost", "done", "failed"}]
  /\ link \in [Client -> 0..MaxDrops]
  /\ known \in [Client -> Cursor] /\ kept \in [Client -> Cursor]
  /\ skipped \in [Client -> BOOLEAN]
  /\ answer \in [Client -> MaybeClient]
  /\ open \subseteq Connection
  /\ run \in [Client -> {"none", "queued", "running", "settled", "gone"}]
  /\ prior \in [Client -> MaybeClient]
  /\ seq \in [Client -> Nat] /\ \A c \in Client : seq[c] <= Frames[c]
  /\ subs \in [Client -> SUBSET Connection]
  /\ timer \in [Client -> BOOLEAN] /\ aborted \in [Client -> BOOLEAN]
  /\ base \in [Client -> SUBSET Client]
  /\ record \in MaybeClient /\ tail \in MaybeClient /\ closing \in MaybeClient
  /\ upsets \in 0..MaxUpsets
  /\ story \subseteq Client /\ left \subseteq Client
  /\ \A c \in Client : timer[c] => run[c] = "running" /\ subs[c] = {}

Init ==
  /\ phase = [c \in Client |-> "idle"]
  /\ link = [c \in Client |-> 0]
  /\ known = [c \in Client |-> NoCursor] /\ kept = [c \in Client |-> NoCursor]
  /\ skipped = [c \in Client |-> FALSE]
  /\ answer = [c \in Client |-> None]
  /\ open = {}
  /\ run = [c \in Client |-> "none"]
  /\ prior = [c \in Client |-> None]
  /\ seq = [c \in Client |-> 0]
  /\ subs = [c \in Client |-> {}]
  /\ timer = [c \in Client |-> FALSE] /\ aborted = [c \in Client |-> FALSE]
  /\ base = [c \in Client |-> {}]
  /\ record = None /\ tail = None /\ closing = None
  /\ story = {} /\ upsets = 0 /\ left = {}

\* The client's end of the connection still stands.
Live(s) == phase[s[1]] = "waiting" /\ link[s[1]] = s[2]

\* The clients a send to these connections reaches.
Reached(S) == {c \in Client : phase[c] = "waiting" /\ <<c, link[c]>> \in S}

Heard(c, r) == IF known[c].run = r THEN known[c].seq ELSE 0

-----------------------------------------------------------------------------
(***************************************************************************)
(* The chain of a session's tasks.                                         *)
(***************************************************************************)

\* What is due in the microtasks of the last event comes before the next one:
\* a close that waited for a run goes on three microtasks before the chain
\* starts a task whose predecessor has settled.
CloseIsDue == closing # None /\ run[closing] # "running"
StartIsDue(c) == run[c] = "queued" /\ (prior[c] # None => run[prior[c]] = "settled")
Quiet == ~CloseIsDue /\ \A c \in Client : ~StartIsDue(c)

\* Fault: the task is not chained to the one before it.
RunExecOpUnchained(c) ==
  /\ Quiet /\ phase[c] = "idle"
  /\ phase' = [phase EXCEPT ![c] = "waiting"]
  /\ open' = open \cup {<<c, 0>>}
  /\ run' = [run EXCEPT ![c] = "queued"]
  /\ tail' = c
  /\ UNCHANGED <<link, known, kept, skipped, answer, prior, seq, subs, timer,
                 aborted, base, record, closing, story, upsets, left>>

\* The exec request arrives, and runExecOp chains it to the session's tail;
\* or the connection breaks before the daemon has read it.
RunExecOp(c) ==
  /\ Quiet /\ phase[c] = "idle"
  /\ \/ /\ phase' = [phase EXCEPT ![c] = "waiting"]
        /\ open' = open \cup {<<c, 0>>}
        /\ run' = [run EXCEPT ![c] = "queued"]
        /\ prior' = [prior EXCEPT ![c] = tail]
        /\ tail' = c
     \/ /\ c \in Flaky
        /\ phase' = [phase EXCEPT ![c] = "lost"]
        /\ UNCHANGED <<open, run, prior, tail>>
  /\ UNCHANGED <<link, known, kept, skipped, answer, seq, subs, timer, aborted,
                 base, record, closing, story, upsets, left>>

\* execOne up to the first step of the task: the run is registered, its
\* connection subscribes whether or not it still stands, and the run id is
\* announced.  A fresh task forgets the conversation.
ExecOne(c) ==
  /\ StartIsDue(c) /\ ~CloseIsDue
  /\ run' = [run EXCEPT ![c] = "running"]
  /\ record' = c
  /\ subs' = [subs EXCEPT ![c] = {<<c, 0>>}]
  /\ known' = IF Live(<<c, 0>>)
              THEN [known EXCEPT ![c] = [run |-> c, seq |-> 0]] ELSE known
  /\ story' = IF c \in Fresh THEN {} ELSE story
  /\ base' = [base EXCEPT ![c] = story']
  /\ UNCHANGED <<phase, link, kept, skipped, answer, open, prior, seq, timer,
                 aborted, tail, closing, upsets, left>>

\* The task returns a transcript, which is saved even after an interruption,
\* or it throws; either way everybody who watches is given its answer.
SettleRun(c) ==
  /\ Quiet /\ run[c] = "running"
  /\ run' = [run EXCEPT ![c] = "settled"]
  /\ story' \in {base[c] \cup {c}, story}
  /\ LET told == Reached(subs[c] \cap open) IN
       /\ phase' = [d \in Client |-> IF d \in told THEN "done" ELSE phase[d]]
       /\ answer' = [d \in Client |-> IF d \in told THEN c ELSE answer[d]]
       /\ known' = [d \in Client |-> IF d \in told THEN NoCursor ELSE known[d]]
       /\ open' = open \ {s \in open : s[1] \in told}
  /\ subs' = [subs EXCEPT ![c] = {}]
  /\ timer' = [timer EXCEPT ![c] = FALSE]
  /\ aborted' = [aborted EXCEPT ![c] = FALSE]
  /\ base' = [base EXCEPT ![c] = {}]
  /\ tail' = IF tail = c THEN None ELSE tail
  /\ UNCHANGED <<link, kept, skipped, prior, seq, record, closing,
                 upsets, left>>

\* An aborted task unwinds.
Unwind(c) == aborted[c] /\ SettleRun(c)

-----------------------------------------------------------------------------
(***************************************************************************)
(* Notes, subscribers and the orphan timer.                                *)
(***************************************************************************)

\* Fault: the last subscriber goes and no timer is armed.
DropUnarmed(c, S) ==
  /\ subs' = [subs EXCEPT ![c] = @ \ S]
  /\ UNCHANGED timer

\* dropSubscriber, then armOrphanTimer if nobody is left.
Drop(c, S) ==
  /\ subs' = [subs EXCEPT ![c] = @ \ S]
  /\ timer' = IF subs[c] \cap S # {} /\ subs[c] \subseteq S
              THEN [timer EXCEPT ![c] = TRUE] ELSE timer

\* emitFrame.  Beyond Frames a note only finds out who has gone away.
EmitFrame(c) ==
  /\ Quiet /\ run[c] = "running"
  /\ Drop(c, subs[c] \ open)
  /\ \/ /\ seq[c] < Frames[c]
        /\ seq' = [seq EXCEPT ![c] = @ + 1]
        /\ LET told == Reached(subs[c] \cap open) IN
             /\ known' = [d \in Client |-> IF d \in told
                            THEN [run |-> c, seq |-> seq'[c]] ELSE known[d]]
             /\ skipped' = [d \in Client |->
                  skipped[d] \/ (d \in told /\ seq'[c] > Heard(d, c) + 1)]
     \/ seq[c] = Frames[c] /\ UNCHANGED <<seq, known, skipped>>
  /\ UNCHANGED <<phase, link, kept, answer, open, run, prior, aborted, base,
                 record, tail, closing, story, upsets, left>>

\* The socket's close event: the subscriptions of the registered run go.
Release(s) ==
  /\ Quiet /\ s \in open /\ ~Live(s)
  /\ open' = open \ {s}
  /\ IF record # None /\ run[record] = "running"
     THEN Drop(record, {s}) ELSE UNCHANGED <<subs, timer>>
  /\ UNCHANGED <<clientVars, run, prior, seq, aborted, base, record, tail,
                 closing, story, upsets, left>>

OrphanTimer(c) ==
  /\ Quiet /\ timer[c]
  /\ timer' = [timer EXCEPT ![c] = FALSE]
  /\ aborted' = [aborted EXCEPT ![c] = @ \/ (run[c] = "running" /\ subs[c] = {})]
  /\ UNCHANGED <<clientVars, daemonVars, run, prior, seq, subs, base>>

-----------------------------------------------------------------------------
(***************************************************************************)
(* A client that loses its connection, and attaches again.                 *)
(***************************************************************************)

\* The request is rejected; what the client knows the first time is what it
\* will ask with every time.
Break(c) ==
  /\ Quiet /\ phase[c] = "waiting" /\ c \in Flaky
  /\ phase' = [phase EXCEPT ![c] = "lost"]
  /\ kept' = IF link[c] = 0 THEN [kept EXCEPT ![c] = known[c]] ELSE kept
  /\ UNCHANGED <<link, known, skipped, answer, runVars, daemonVars>>

\* The window for reattaching passes.
GiveUp(c) ==
  /\ Quiet /\ phase[c] = "lost"
  /\ phase' = [phase EXCEPT ![c] = "failed"]
  /\ UNCHANGED <<link, known, kept, skipped, answer, runVars, daemonVars>>

FirstFrame(r) == IF seq[r] > Limit THEN seq[r] - Limit + 1 ELSE 1

\* Fault: whatever is left in the ring is handed out as if it were everything.
SinceGapless(r, cursor) == [from |-> FirstFrame(r), gap |-> FALSE]

\* ReplayBuffer.since: the first frame it hands to a client that asks with
\* this cursor, and whether it admits that others have rolled out.
Since(r, cursor) ==
  [from |-> IF cursor.run = r /\ cursor.seq + 1 > FirstFrame(r)
            THEN cursor.seq + 1 ELSE FirstFrame(r),
   gap |-> cursor.run = r /\ cursor.seq > 0 /\ cursor.seq + 1 < FirstFrame(r)]

\* Fault: the run id the client names is not compared.
RefusedIfGone(c) == record = None

\* The registry has no run of the session, or another than the client names.
Refused(c) == record = None \/ kept[c].run \notin {None, record}

\* catchUp: the client is handed the notes of the run it has missed.
CatchUp(c, r) ==
  LET replay == Since(r, kept[c]) IN
  IF replay.from <= seq[r]
  THEN /\ known' = [known EXCEPT ![c] = [run |-> r, seq |-> seq[r]]]
       /\ skipped' = [skipped EXCEPT ![c] =
            @ \/ (~replay.gap /\ replay.from > Heard(c, r) + 1)]
  ELSE UNCHANGED <<known, skipped>>

\* addSubscriber.
Subscribe(r, s) ==
  /\ subs' = [subs EXCEPT ![r] = @ \cup {s}]
  /\ timer' = [timer EXCEPT ![r] = FALSE]

\* Fault: a client is subscribed to a run that will never settle again.
Unsettled(r) == TRUE

\* A run that can still be subscribed to.
IsRunning(r) == run[r] = "running"

\* attachToRun over a new connection: refused, or caught up and then answered
\* or subscribed.  A client that was never told its run id names none.
AttachToRun(c) ==
  /\ Quiet /\ phase[c] = "lost" /\ link[c] < MaxDrops
  /\ link' = [link EXCEPT ![c] = @ + 1]
  /\ \/ /\ Refused(c)
        /\ phase' = [phase EXCEPT ![c] = "failed"]
        /\ UNCHANGED <<known, skipped, answer, open, subs, timer>>
     \/ /\ ~Refused(c) /\ ~IsRunning(record)
        /\ CatchUp(c, record)
        /\ phase' = [phase EXCEPT ![c] = "done"]
        /\ answer' = [answer EXCEPT ![c] = record]
        /\ UNCHANGED <<open, subs, timer>>
     \/ /\ ~Refused(c) /\ IsRunning(record)
        /\ CatchUp(c, record)
        /\ phase' = [phase EXCEPT ![c] = "waiting"]
        /\ open' = open \cup {<<c, link'[c]>>}
        /\ Subscribe(record, <<c, link'[c]>>)
        /\ UNCHANGED answer
  /\ UNCHANGED <<kept, run, prior, seq, aborted, base, record, tail, closing,
                 story, upsets, left>>

-----------------------------------------------------------------------------
(***************************************************************************)
(* Stopping runs, closing the session, losing the daemon.                  *)
(***************************************************************************)

\* interruptSession: the registered run is aborted.
InterruptSession ==
  /\ Quiet /\ record # None /\ run[record] = "running"
  /\ aborted' = [aborted EXCEPT ![record] = TRUE]
  /\ UNCHANGED <<clientVars, daemonVars, run, prior, seq, subs, timer, base>>

\* The middle of closeOneSession: run record, chain and conversation are
\* dropped; the transcript on disk stays.
Forget ==
  /\ record' = None /\ tail' = None
  /\ left' = left \cup {c \in Client : run[c] = "queued"}

\* Fault: the session is deleted without waiting for its run to unwind.
CloseOneSessionAtOnce ==
  /\ Quiet /\ closing = None /\ upsets < MaxUpsets
  /\ upsets' = upsets + 1
  /\ aborted' = [c \in Client |-> aborted[c] \/ (record = c /\ run[c] = "running")]
  /\ Forget
  /\ UNCHANGED <<clientVars, run, prior, seq, subs, timer, base, open, story, closing>>

\* closeOneSession: first the registered run is stopped ...
CloseOneSession ==
  /\ Quiet /\ closing = None /\ upsets < MaxUpsets
  /\ upsets' = upsets + 1
  /\ IF record # None /\ run[record] = "running"
     THEN /\ aborted' = [aborted EXCEPT ![record] = TRUE]
          /\ closing' = record
          /\ UNCHANGED <<record, tail, left>>
     ELSE Forget /\ UNCHANGED <<aborted, closing>>
  /\ UNCHANGED <<clientVars, run, prior, seq, subs, timer, base,
                 open, story>>

\* ... and when it has settled the session is deleted.
CloseGoesOn ==
  /\ CloseIsDue
  /\ closing' = None
  /\ Forget
  /\ UNCHANGED <<clientVars, runVars, open, story, upsets>>

\* forgetRunIfExpired: a settled run is no longer kept for late arrivals.
ForgetRunIfExpired ==
  /\ Quiet /\ record # None /\ run[record] = "settled"
  /\ record' = None
  /\ UNCHANGED <<clientVars, runVars, open, tail, closing, story, upsets, left>>

\* shutdown, or a crash: everything but the transcripts is lost, and so is
\* every connection.  The next client talks to a new daemon.
Shutdown ==
  /\ Quiet /\ upsets < MaxUpsets
  /\ upsets' = upsets + 1
  /\ run' = [c \in Client |-> IF run[c] \in {"queued", "running"} THEN "gone" ELSE run[c]]
  /\ phase' = [c \in Client |-> IF phase[c] = "waiting" THEN "lost" ELSE phase[c]]
  /\ kept' = [c \in Client |-> IF phase[c] = "waiting" /\ link[c] = 0
                                 THEN known[c] ELSE kept[c]]
  /\ open' = {} /\ record' = None /\ tail' = None /\ closing' = None
  /\ subs' = [c \in Client |-> {}]
  /\ timer' = [c \in Client |-> FALSE]
  /\ UNCHANGED <<link, known, skipped, answer, prior, seq, aborted, base,
                 story, left>>

-----------------------------------------------------------------------------
Next ==
  \/ \E c \in Client :
       \/ RunExecOp(c) \/ ExecOne(c)
       \/ SettleRun(c) \/ EmitFrame(c) \/ OrphanTimer(c)
       \/ Break(c) \/ GiveUp(c) \/ AttachToRun(c)
  \/ \E s \in Connection : Release(s)
  \/ InterruptSession \/ CloseOneSession \/ CloseGoesOn
  \/ ForgetRunIfExpired \/ Shutdown

Spec == Init /\ [][Next]_vars

\* The daemon goes on: the chain and a close proceed, sockets report their
\* end, timers fire, an aborted task unwinds and any other keeps telling what
\* it does.  No task has to end by itself, and no client to come back.
Fairness ==
  /\ \A c \in Client :
       /\ WF_vars(ExecOne(c))
       /\ WF_vars(Unwind(c)) /\ WF_vars(EmitFrame(c)) /\ WF_vars(OrphanTimer(c))
  /\ \A s \in Connection : WF_vars(Release(s))
  /\ WF_vars(CloseGoesOn)

FairSpec == Spec /\ Fairness

-----------------------------------------------------------------------------
(***************************************************************************)
(* Properties                                                              *)
(***************************************************************************)

\* No task that was queued when the session was closed has got to run.
Undisturbed == \A c \in left : run[c] = "queued"

\* A client that had learned its run id is answered with the result of its
\* own task, whatever ran, was closed or died in the meantime.
OwnAnswer ==
  \A c \in Client :
    answer[c] # None /\ (link[c] = 0 \/ kept[c].run # None) => answer[c] = c

\* A client that had seen a note of its run before it lost the connection is
\* not sent past one that has rolled out of the ring without being told.
NoSilentSkip == \A c \in Client : kept[c].seq > 0 => ~skipped[c]

\* A client that has not asked has no run, the daemon has not forgotten one that
\* waits, there is nothing of a run that has not begun, and nobody is answered
\* twice.
Standing ==
  /\ \A c \in Client : phase[c] = "idle" => run[c] = "none" /\ link[c] = 0
  /\ \A c \in Client : phase[c] = "waiting" => <<c, link[c]>> \in open
  /\ \A c \in Client : run[c] \in {"none", "queued"} => seq[c] = 0 /\ subs[c] = {}
  /\ \A c \in Client : answer[c] # None => phase[c] = "done"

\* A client's first connection subscribes to its own run only, and a later one
\* to the run that the client names, if it can name one.
Subscribed ==
  \A c, r \in Client : \A k \in 0..MaxDrops : <<c, k>> \in subs[r] =>
    /\ k <= link[c]
    /\ k = 0 => r = c
    /\ k > 0 => kept[c].run \in {None, r}

\* What a client knows it was sent, no client names another's run, and what it
\* asks again from is no more than what it knows.
Cursors ==
  \A c \in Client :
    /\ kept[c].run \in {None, c} /\ kept[c].seq <= seq[c]
    /\ kept[c].seq > 0 => kept[c].run = c
    /\ known[c].run # None => known[c].seq <= seq[known[c].run]
    /\ known[c].run = None => known[c].seq = 0
    /\ link[c] = 0 => known[c].run \in {None, c} /\ ~skipped[c]
    /\ kept[c].seq > 0 /\ phase[c] \in {"waiting", "lost"} =>
         known[c].run = c /\ kept[c].seq <= known[c].seq

\* A client that has been sent every note so far has seen the last one.
Abreast ==
  \A c, r \in Client :
    phase[c] = "waiting" /\ <<c, link[c]>> \in subs[r] /\ (link[c] = 0 \/ kept[c].seq > 0)
      => known[c] = [run |-> r, seq |-> seq[r]]

\* The state is well formed, an orphan timer on a running run nobody watches
\* among it, no client is sent past a lost note without being told, and why:
\* the daemon's subscriptions and the clients' cursors agree.
IndInv ==
  /\ TypeOK /\ OwnAnswer /\ NoSilentSkip
  /\ Standing /\ Subscribed /\ Cursors /\ Abreast

\* Until one does, a task that settles takes no other task out of the saved
\* conversation: it started from what the one before it had saved.
SettleExtends ==
  [][\A c \in Client : Undisturbed /\ run[c] = "running" /\ run'[c] = "settled"
       => story \subseteq story']_vars

\* A run that nobody watches any more, because terminals were killed or the
\* connection is half open, is interrupted unless somebody comes back.
UnwatchedStops ==
  \A c \in Client :
    (run[c] = "running" /\ ~\E s \in subs[c] : Live(s))
      ~> (run[c] # "running" \/ \E s \in subs[c] : Live(s))

\* If tasks end, a client that waits and keeps its connection is answered.
EveryExecAnswered ==
  (\A c \in Client : WF_vars(SettleRun(c)))
    => \A c \in Client : phase[c] = "waiting" ~> phase[c] # "waiting"

\* src/src/daemon.ts promises one task at a time per session ("two execs on
\* the same session can never interleave their conversations").
OneExecAtATime ==
  \A c, d \in Client : run[c] = "running" /\ run[d] = "running" => c = d
=============================================================================
