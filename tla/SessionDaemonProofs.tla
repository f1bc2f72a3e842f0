------------------------- MODULE SessionDaemonProofs -------------------------
(***************************************************************************)
(* Proofs about the daemon's runs and the clients that come and go, for    *)
(* any number of clients, lost connections, notes and places in the ring.  *)
(* The daemon's subscriptions and the clients' cursors agree: a client     *)
(* that is still sent notes has been sent all of them, and one that comes  *)
(* back names its own run or none.                                         *)
(***************************************************************************)
EXTENDS SessionDaemon, TLAPS

\* No client is there to begin with.
LEMMA InitInv == Init => IndInv
BY ConstAssumption
DEF Init, IndInv, TypeOK, OwnAnswer, NoSilentSkip, Standing, Subscribed, Cursors, Abreast,
    MaybeClient, Connection, Cursor, NoCursor

\* Whom a message reaches has its end of the connection.
LEMMA ReachedWaits ==
    ASSUME NEW S, NEW d \in Reached(S)
    PROVE  d \in Client /\ phase[d] = "waiting" /\ <<d, link[d]>> \in S
BY DEF Reached

\* A client that comes back names its own run or none, so what it is caught up
\* with, if it may complain, are the notes of its own run; it has then seen them.
LEMMA CaughtUp ==
    ASSUME TypeOK, Cursors, NEW c \in Client, NEW r \in Client,
           phase[c] = "lost", kept[c].run \in {None, r}, CatchUp(c, r)
    PROVE  /\ known' \in [Client -> Cursor] /\ skipped' \in [Client -> BOOLEAN]
           /\ \A d \in Client \ {c} : known'[d] = known[d] /\ skipped'[d] = skipped[d]
           /\ known'[c] = known[c] \/ known'[c] = [run |-> r, seq |-> seq[r]]
           /\ kept[c].seq > 0 =>
                /\ r = c /\ known'[c] = [run |-> c, seq |-> seq[c]]
                /\ skipped'[c] = skipped[c]
<1> DEFINE replay == Since(r, kept[c])
<1>1. /\ known[c] \in Cursor /\ kept[c] \in Cursor /\ seq[r] \in Nat /\ seq[c] \in Nat
      /\ Limit \in Nat \ {0} /\ None \notin Client
  BY ConstAssumption DEF TypeOK
<1>2. FirstFrame(r) \in Nat /\ (FirstFrame(r) <= seq[r] \/ seq[r] = 0)
  BY <1>1 DEF FirstFrame
<1>3. replay.from \in Nat /\ replay.gap \in BOOLEAN
  BY <1>1, <1>2 DEF Since, Cursor
<1>4. \/ /\ replay.from <= seq[r]
         /\ known' = [known EXCEPT ![c] = [run |-> r, seq |-> seq[r]]]
         /\ skipped' = [skipped EXCEPT ![c] =
              @ \/ (~replay.gap /\ replay.from > Heard(c, r) + 1)]
      \/ ~(replay.from <= seq[r]) /\ UNCHANGED <<known, skipped>>
  BY DEF CatchUp
<1>5. /\ known' \in [Client -> Cursor] /\ skipped' \in [Client -> BOOLEAN]
      /\ \A d \in Client \ {c} : known'[d] = known[d] /\ skipped'[d] = skipped[d]
      /\ known'[c] = known[c] \/ known'[c] = [run |-> r, seq |-> seq[r]]
  <2>1. [run |-> r, seq |-> seq[r]] \in Cursor
    BY <1>1 DEF Cursor, MaybeClient
  <2>2. CASE replay.from <= seq[r]
    <3>1. known' = [known EXCEPT ![c] = [run |-> r, seq |-> seq[r]]]
      BY <1>4, <2>2
    <3>2. skipped' \in [Client -> BOOLEAN] /\ \A d \in Client \ {c} : skipped'[d] = skipped[d]
      BY <1>4, <2>2 DEF TypeOK
    <3>3. QED BY <2>1, <3>1, <3>2 DEF TypeOK
  <2>3. CASE ~(replay.from <= seq[r])
    BY <1>4, <2>3 DEF TypeOK
  <2>4. QED BY <2>2, <2>3
<1>6. ASSUME kept[c].seq > 0
      PROVE  /\ r = c /\ known'[c] = [run |-> c, seq |-> seq[c]]
             /\ skipped'[c] = skipped[c]
  <2>1. /\ r = c /\ kept[c].run = c /\ known[c].run = c
        /\ kept[c].seq <= known[c].seq /\ known[c].seq <= seq[c] /\ Heard(c, r) = known[c].seq
        /\ kept[c].seq \in Nat /\ known[c].seq \in Nat
    BY <1>1, <1>6 DEF Cursors, Heard, Cursor
  <2>2. replay.gap <=> kept[c].seq + 1 < FirstFrame(c)
    BY <1>1, <1>6, <2>1 DEF Since
  <2>3. replay.from = IF kept[c].seq + 1 > FirstFrame(c) THEN kept[c].seq + 1 ELSE FirstFrame(c)
    BY <1>1, <2>1 DEF Since
  <2>4. replay.gap \/ replay.from <= known[c].seq + 1
    BY <1>2, <2>1, <2>2, <2>3
  <2>5. ~(replay.from <= seq[c]) => known[c].seq = seq[c]
    BY <1>1, <1>2, <1>6, <2>1, <2>3
  <2>6. CASE replay.from <= seq[r]
    BY <1>1, <1>3, <1>4, <2>1, <2>4, <2>6 DEF TypeOK
  <2>7. CASE ~(replay.from <= seq[r])
    <3>1. known' = known /\ skipped' = skipped /\ known[c].seq = seq[c]
      BY <1>4, <2>1, <2>5, <2>7
    <3>2. known[c] = [run |-> c, seq |-> seq[c]]
      BY <1>1, <2>1, <3>1 DEF Cursor
    <3>3. QED BY <2>1, <3>1, <3>2
  <2>8. QED BY <2>6, <2>7
<1>7. QED BY <1>5, <1>6

-----------------------------------------------------------------------------
\* The parts of the state that are plain functions or sets.
ClientTypes ==
  /\ phase \in [Client -> {"idle", "waiting", "lost", "done", "failed"}]
  /\ link \in [Client -> 0..MaxDrops]
  /\ known \in [Client -> Cursor] /\ kept \in [Client -> Cursor]
  /\ skipped \in [Client -> BOOLEAN]
  /\ answer \in [Client -> MaybeClient]

RunTypes ==
  /\ run \in [Client -> {"none", "queued", "running", "settled", "gone"}]
  /\ prior \in [Client -> MaybeClient]
  /\ seq \in [Client -> Nat] /\ \A c \in Client : seq[c] <= Frames[c]
  /\ subs \in [Client -> SUBSET Connection]
  /\ timer \in [Client -> BOOLEAN] /\ aborted \in [Client -> BOOLEAN]
  /\ base \in [Client -> SUBSET Client]
  /\ \A c \in Client : timer[c] => run[c] = "running" /\ subs[c] = {}

DaemonTypes ==
  /\ open \subseteq Connection
  /\ record \in MaybeClient /\ tail \in MaybeClient /\ closing \in MaybeClient
  /\ upsets \in 0..MaxUpsets
  /\ story \subseteq Client /\ left \subseteq Client

\* TypeOK in these parts.
LEMMA Types == TypeOK <=> ClientTypes /\ RunTypes /\ DaemonTypes
BY DEF TypeOK, ClientTypes, RunTypes, DaemonTypes

\* What attaching does, case by case.
LEMMA Attached ==
    ASSUME TypeOK, Cursors, NEW c \in Client, AttachToRun(c)
    PROVE  /\ phase[c] = "lost" /\ link[c] < MaxDrops
           /\ link' = [link EXCEPT ![c] = @ + 1]
           /\ link'[c] = link[c] + 1 /\ \A d \in Client \ {c} : link'[d] = link[d]
           /\ UNCHANGED <<kept, run, prior, seq, aborted, base, record, tail, closing,
                          story, upsets, left>>
           /\ known' \in [Client -> Cursor] /\ skipped' \in [Client -> BOOLEAN]
           /\ \A d \in Client \ {c} : known'[d] = known[d] /\ skipped'[d] = skipped[d]
           /\ \/ /\ phase' = [phase EXCEPT ![c] = "failed"]
                 /\ UNCHANGED <<known, skipped, answer, open, subs, timer>>
              \/ /\ record \in Client /\ kept[c].run \in {None, record}
                 /\ known'[c] = known[c] \/ known'[c] = [run |-> record, seq |-> seq[record]]
                 /\ kept[c].seq > 0 =>
                      /\ record = c /\ known'[c] = [run |-> c, seq |-> seq[c]]
                      /\ skipped'[c] = skipped[c]
                 /\ \/ /\ phase' = [phase EXCEPT ![c] = "done"]
                       /\ answer' = [answer EXCEPT ![c] = record]
                       /\ UNCHANGED <<open, subs, timer>>
                    \/ /\ phase' = [phase EXCEPT ![c] = "waiting"]
                       /\ open' = open \cup {<<c, link[c] + 1>>}
                       /\ run[record] = "running"
                       /\ subs' = [subs EXCEPT ![record] = @ \cup {<<c, link[c] + 1>>}]
                       /\ timer' = [timer EXCEPT ![record] = FALSE]
                       /\ UNCHANGED answer
<1>1. /\ phase[c] = "lost" /\ link[c] < MaxDrops /\ link' = [link EXCEPT ![c] = @ + 1]
      /\ link'[c] = link[c] + 1 /\ \A d \in Client \ {c} : link'[d] = link[d]
      /\ UNCHANGED <<kept, run, prior, seq, aborted, base, record, tail, closing,
                     story, upsets, left>>
  BY DEF AttachToRun, TypeOK
<1>2. CASE Refused(c)
  <2>1. /\ phase' = [phase EXCEPT ![c] = "failed"]
        /\ UNCHANGED <<known, skipped, answer, open, subs, timer>>
    BY <1>2 DEF AttachToRun
  <2>2. QED BY <1>1, <2>1 DEF TypeOK
<1>3. CASE ~Refused(c)
  <2>1. record \in Client /\ kept[c].run \in {None, record}
    BY <1>3 DEF Refused, TypeOK, MaybeClient
  <2>2. CatchUp(c, record)
    BY <1>3 DEF AttachToRun
  <2>3. /\ known' \in [Client -> Cursor] /\ skipped' \in [Client -> BOOLEAN]
        /\ \A d \in Client \ {c} : known'[d] = known[d] /\ skipped'[d] = skipped[d]
        /\ known'[c] = known[c] \/ known'[c] = [run |-> record, seq |-> seq[record]]
        /\ kept[c].seq > 0 =>
             /\ record = c /\ known'[c] = [run |-> c, seq |-> seq[c]]
             /\ skipped'[c] = skipped[c]
    BY <1>1, <2>1, <2>2, CaughtUp
  <2>4. \/ /\ phase' = [phase EXCEPT ![c] = "done"]
           /\ answer' = [answer EXCEPT ![c] = record]
           /\ UNCHANGED <<open, subs, timer>>
        \/ /\ phase' = [phase EXCEPT ![c] = "waiting"]
           /\ open' = open \cup {<<c, link[c] + 1>>}
           /\ run[record] = "running"
           /\ subs' = [subs EXCEPT ![record] = @ \cup {<<c, link[c] + 1>>}]
           /\ timer' = [timer EXCEPT ![record] = FALSE]
           /\ UNCHANGED answer
    BY <1>1, <1>3 DEF AttachToRun, IsRunning, Subscribe
  <2>5. QED BY <1>1, <2>1, <2>3, <2>4
<1>4. QED BY <1>2, <1>3

\* What is known about the clients stays well formed.
LEMMA ClientStep ==
    ASSUME TypeOK, Cursors, [Next]_vars
    PROVE  ClientTypes'
<1> USE ConstAssumption DEF ClientTypes
<1> ClientTypes /\ RunTypes /\ DaemonTypes
  BY Types
<1>1. CASE UNCHANGED clientVars
  BY <1>1 DEF clientVars
<1>2. ASSUME NEW c \in Client, RunExecOp(c) PROVE ClientTypes'
  BY <1>2 DEF RunExecOp
<1>3. ASSUME NEW c \in Client, ExecOne(c) PROVE ClientTypes'
  <2>1. [run |-> c, seq |-> 0] \in Cursor
    BY DEF Cursor, MaybeClient
  <2>2. QED BY <1>3, <2>1 DEF ExecOne
<1>4. ASSUME NEW c \in Client, SettleRun(c) PROVE ClientTypes'
  <2>1. NoCursor \in Cursor /\ c \in MaybeClient
    BY DEF Cursor, NoCursor, MaybeClient
  <2>2. QED BY <1>4, <2>1 DEF SettleRun
<1>5. ASSUME NEW c \in Client, EmitFrame(c) PROVE ClientTypes'
  <2>1. UNCHANGED <<phase, link, kept, answer>>
    BY <1>5 DEF EmitFrame
  <2>2. CASE UNCHANGED <<seq, known, skipped>>
    BY <2>1, <2>2
  <2>3. CASE seq' = [seq EXCEPT ![c] = @ + 1]
    <3>1. seq'[c] \in Nat /\ [run |-> c, seq |-> seq'[c]] \in Cursor
      BY <2>3 DEF RunTypes, Cursor, MaybeClient
    <3>2. known' \in [Client -> Cursor]
      BY <1>5, <3>1 DEF EmitFrame
    <3>3. skipped' \in [Client -> BOOLEAN]
      BY <1>5, <2>3 DEF EmitFrame
    <3>4. QED BY <2>1, <3>2, <3>3
  <2>4. QED BY <1>5, <2>2, <2>3 DEF EmitFrame
<1>6. ASSUME NEW c \in Client, Break(c) \/ GiveUp(c) PROVE ClientTypes'
  BY <1>6 DEF Break, GiveUp
<1>7. ASSUME NEW c \in Client, AttachToRun(c) PROVE ClientTypes'
  <2>1. link[c] + 1 \in 0..MaxDrops
    BY <1>7 DEF AttachToRun
  <2>2. link' \in [Client -> 0..MaxDrops]
    BY <1>7, <2>1 DEF AttachToRun
  <2>3. \E now \in {"failed", "done", "waiting"} : phase' = [phase EXCEPT ![c] = now]
    BY <1>7, Attached
  <2>4. answer' = answer \/ answer' = [answer EXCEPT ![c] = record]
    BY <1>7, Attached
  <2>5. known' \in [Client -> Cursor] /\ skipped' \in [Client -> BOOLEAN] /\ kept' = kept
    BY <1>7, Attached
  <2>6. phase' \in [Client -> {"idle", "waiting", "lost", "done", "failed"}]
    BY <2>3
  <2>7. answer' \in [Client -> MaybeClient]
    BY <2>4 DEF DaemonTypes
  <2>8. QED BY <2>2, <2>5, <2>6, <2>7
<1>8. CASE Shutdown
  BY <1>8 DEF Shutdown
<1>9. QED
  BY <1>1, <1>2, <1>3, <1>4, <1>5, <1>6, <1>7, <1>8
  DEF Next, OrphanTimer, Release, InterruptSession, CloseOneSession, CloseGoesOn,
      ForgetRunIfExpired, vars

\* So do the runs; an orphan timer is armed when the last subscriber goes, and
\* disarmed when another comes or the run ends.
LEMMA RunStep ==
    ASSUME TypeOK, Standing, Cursors, [Next]_vars
    PROVE  RunTypes'
<1> USE ConstAssumption DEF RunTypes
<1> ClientTypes /\ RunTypes /\ DaemonTypes
  BY Types
<1>1. CASE UNCHANGED runVars
  BY <1>1 DEF runVars
<1>2. ASSUME NEW c \in Client, RunExecOp(c) PROVE RunTypes'
  <2>1. run[c] = "none" /\ ~timer[c] /\ tail \in MaybeClient
    BY <1>2 DEF RunExecOp, Standing, DaemonTypes
  <2>2. UNCHANGED <<seq, subs, timer, aborted, base>>
    BY <1>2 DEF RunExecOp
  <2>3. \/ UNCHANGED <<run, prior>>
        \/ run' = [run EXCEPT ![c] = "queued"] /\ prior' = [prior EXCEPT ![c] = tail]
    BY <1>2 DEF RunExecOp
  <2>4. QED BY <2>1, <2>2, <2>3
<1>3. ASSUME NEW c \in Client, ExecOne(c) PROVE RunTypes'
  <2>1. <<c, 0>> \in Connection /\ story' \subseteq Client /\ run[c] = "queued"
    BY <1>3 DEF ExecOne, Connection, DaemonTypes, StartIsDue
  <2>2. QED BY <1>3, <2>1 DEF ExecOne
<1>4. ASSUME NEW c \in Client, SettleRun(c) PROVE RunTypes'
  BY <1>4 DEF SettleRun
<1>5. ASSUME NEW c \in Client, NEW S, run[c] = "running", Drop(c, S),
             UNCHANGED <<run, prior, aborted, base>>,
             seq' \in [Client -> Nat], \A d \in Client : seq'[d] <= Frames[d]
      PROVE  RunTypes'
  <2>1. /\ subs' = [subs EXCEPT ![c] = @ \ S]
        /\ timer' = timer \/ (timer' = [timer EXCEPT ![c] = TRUE] /\ subs[c] \subseteq S)
    BY <1>5 DEF Drop
  <2>2. subs' \in [Client -> SUBSET Connection] /\ timer' \in [Client -> BOOLEAN]
    BY <2>1
  <2>3. \A d \in Client : timer'[d] => run[d] = "running" /\ subs'[d] = {}
    BY <1>5, <2>1
  <2>4. QED BY <1>5, <2>2, <2>3
<1>6. ASSUME NEW c \in Client, EmitFrame(c) PROVE RunTypes'
  <2>1. run[c] = "running" /\ Drop(c, subs[c] \ open) /\ UNCHANGED <<run, prior, aborted, base>>
    BY <1>6 DEF EmitFrame
  <2>2. UNCHANGED seq \/ (seq[c] < Frames[c] /\ seq' = [seq EXCEPT ![c] = @ + 1])
    BY <1>6 DEF EmitFrame
  <2>3. seq' \in [Client -> Nat] /\ \A d \in Client : seq'[d] <= Frames[d]
    BY <2>2
  <2>4. QED BY <1>5, <2>1, <2>3
<1>7. ASSUME NEW s \in Connection, Release(s) PROVE RunTypes'
  <2>1. UNCHANGED <<run, prior, seq, aborted, base>>
    BY <1>7 DEF Release
  <2>2. CASE record # None /\ run[record] = "running"
    <3>1. record \in Client /\ Drop(record, {s})
      BY <1>7, <2>2 DEF Release, DaemonTypes, MaybeClient
    <3>2. QED BY <1>5, <2>1, <2>2, <3>1
  <2>3. CASE UNCHANGED <<subs, timer>>
    BY <2>1, <2>3
  <2>4. QED BY <1>7, <2>2, <2>3 DEF Release
<1>8. ASSUME NEW c \in Client, OrphanTimer(c) PROVE RunTypes'
  BY <1>8 DEF OrphanTimer
<1>9. ASSUME NEW c \in Client, AttachToRun(c) PROVE RunTypes'
  <2>1. UNCHANGED <<run, prior, seq, aborted, base>>
    BY <1>9 DEF AttachToRun
  <2>2. CASE UNCHANGED <<subs, timer>>
    BY <2>1, <2>2
  <2>3. CASE ~UNCHANGED <<subs, timer>>
    <3>1. /\ record \in Client
          /\ subs' = [subs EXCEPT ![record] = @ \cup {<<c, link[c] + 1>>}]
          /\ timer' = [timer EXCEPT ![record] = FALSE]
      BY <1>9, <2>3, Attached
    <3>2. <<c, link[c] + 1>> \in Connection
      BY <1>9 DEF AttachToRun, Connection, ClientTypes
    <3>3. subs' \in [Client -> SUBSET Connection] /\ timer' \in [Client -> BOOLEAN]
      BY <3>1, <3>2
    <3>4. QED BY <2>1, <3>1, <3>3
  <2>4. QED BY <2>2, <2>3
<1>10. CASE InterruptSession \/ CloseOneSession
  BY <1>10 DEF InterruptSession, CloseOneSession
<1>11. CASE Shutdown
  BY <1>11 DEF Shutdown
<1>12. QED
  BY <1>1, <1>2, <1>3, <1>4, <1>6, <1>7, <1>8, <1>9, <1>10, <1>11
  DEF Next, Break, GiveUp, CloseGoesOn, ForgetRunIfExpired, vars, runVars

\* And the daemon's own tables.
LEMMA DaemonStep ==
    ASSUME TypeOK, Cursors, [Next]_vars
    PROVE  DaemonTypes'
<1> USE ConstAssumption DEF DaemonTypes
<1> ClientTypes /\ RunTypes /\ DaemonTypes
  BY Types
<1>1. CASE UNCHANGED daemonVars
  BY <1>1 DEF daemonVars
<1>2. ASSUME NEW c \in Client, RunExecOp(c) PROVE DaemonTypes'
  <2>1. <<c, 0>> \in Connection /\ c \in MaybeClient
    BY DEF Connection, MaybeClient
  <2>2. QED BY <1>2, <2>1 DEF RunExecOp
<1>3. ASSUME NEW c \in Client, ExecOne(c) PROVE DaemonTypes'
  BY <1>3 DEF ExecOne, MaybeClient
<1>4. ASSUME NEW c \in Client, SettleRun(c) PROVE DaemonTypes'
  <2>1. open' \subseteq open /\ story' \subseteq Client /\ tail' \in MaybeClient
    BY <1>4 DEF SettleRun, RunTypes, MaybeClient
  <2>2. QED BY <1>4, <2>1 DEF SettleRun
<1>5. ASSUME NEW c \in Client, AttachToRun(c) PROVE DaemonTypes'
  <2>1. open' = open \/ open' = open \cup {<<c, link[c] + 1>>}
    BY <1>5, Attached
  <2>2. <<c, link[c] + 1>> \in Connection
    BY <1>5 DEF AttachToRun, Connection, ClientTypes
  <2>3. QED BY <1>5, <2>1, <2>2 DEF AttachToRun
<1>6. ASSUME NEW s \in Connection, Release(s) PROVE DaemonTypes'
  BY <1>6 DEF Release
<1>7. CASE CloseOneSession
  BY <1>7 DEF CloseOneSession, Forget, MaybeClient
<1>8. CASE CloseGoesOn \/ ForgetRunIfExpired
  BY <1>8 DEF CloseGoesOn, ForgetRunIfExpired, Forget, MaybeClient
<1>9. CASE Shutdown
  BY <1>9 DEF Shutdown, MaybeClient
<1>10. QED
  BY <1>1, <1>2, <1>3, <1>4, <1>5, <1>6, <1>7, <1>8, <1>9
  DEF Next, EmitFrame, OrphanTimer, Break, GiveUp, InterruptSession, vars, daemonVars

-----------------------------------------------------------------------------
\* A client that waits stays on the daemon's books.
LEMMA StandingStep ==
    ASSUME TypeOK, Standing, Subscribed, Cursors, [Next]_vars
    PROVE  Standing'
<1> USE DEF Standing
<1> ClientTypes /\ RunTypes /\ DaemonTypes
  BY Types
<1> USE DEF ClientTypes, RunTypes
<1>1. CASE UNCHANGED <<phase, link, answer, open, run, seq, subs>>
  BY <1>1
<1>2. ASSUME NEW c \in Client, RunExecOp(c) PROVE Standing'
  BY <1>2 DEF RunExecOp
<1>3. ASSUME NEW c \in Client, ExecOne(c) PROVE Standing'
  BY <1>3 DEF ExecOne, StartIsDue
<1>4. ASSUME NEW c \in Client, SettleRun(c) PROVE Standing'
  <2>1. DEFINE told == Reached(subs[c] \cap open)
  <2>2. /\ UNCHANGED <<link, seq>> /\ run[c] = "running"
        /\ run' = [run EXCEPT ![c] = "settled"] /\ subs' = [subs EXCEPT ![c] = {}]
        /\ phase' = [d \in Client |-> IF d \in told THEN "done" ELSE phase[d]]
        /\ answer' = [d \in Client |-> IF d \in told THEN c ELSE answer[d]]
        /\ open' = open \ {s \in open : s[1] \in told}
    BY <1>4 DEF SettleRun
  <2>3. \A d \in Client : phase'[d] = "waiting" => phase[d] = "waiting" /\ d \notin told
    BY <2>2
  <2>4. \A d \in Client : d \notin told /\ <<d, link[d]>> \in open => <<d, link[d]>> \in open'
    BY <2>2
  <2>5. \A d \in Client : phase'[d] = "idle" => run'[d] = "none" /\ link'[d] = 0
    BY <2>2
  <2>6. \A d \in Client : answer'[d] # None => phase'[d] = "done"
    BY <2>2
  <2>7. QED BY <2>2, <2>3, <2>4, <2>5, <2>6
<1>5. ASSUME NEW c \in Client, EmitFrame(c) PROVE Standing'
  <2>1. /\ UNCHANGED <<phase, link, answer, open, run>> /\ run[c] = "running"
        /\ \A d \in Client \ {c} : seq'[d] = seq[d] /\ subs'[d] = subs[d]
    BY <1>5 DEF EmitFrame, Drop
  <2>2. QED BY <2>1
<1>6. ASSUME NEW s \in Connection, Release(s) PROVE Standing'
  <2>1. UNCHANGED <<phase, link, answer, run, seq>> /\ open' = open \ {s} /\ ~Live(s)
    BY <1>6 DEF Release, clientVars
  <2>2. \A d \in Client : subs'[d] \subseteq subs[d]
    BY <1>6 DEF Release, Drop, DaemonTypes, MaybeClient
  <2>3. \A d \in Client : s = <<d, link[d]>> => phase[d] # "waiting"
    BY <2>1 DEF Live
  <2>4. QED BY <2>1, <2>2, <2>3
<1>7. ASSUME NEW c \in Client, Break(c) \/ GiveUp(c) PROVE Standing'
  BY <1>7 DEF Break, GiveUp, runVars, daemonVars
<1>8. ASSUME NEW c \in Client, AttachToRun(c) PROVE Standing'
  <2>1. /\ phase[c] = "lost" /\ UNCHANGED <<run, seq>>
        /\ \A d \in Client \ {c} : link'[d] = link[d]
    BY <1>8, Attached
  <2>2. CASE phase' = [phase EXCEPT ![c] = "failed"] /\ UNCHANGED <<answer, open, subs>>
    BY <2>1, <2>2
  <2>3. CASE /\ phase' = [phase EXCEPT ![c] = "done"]
             /\ answer' = [answer EXCEPT ![c] = record] /\ UNCHANGED <<open, subs>>
    BY <2>1, <2>3
  <2>4. CASE /\ phase' = [phase EXCEPT ![c] = "waiting"] /\ UNCHANGED answer
             /\ open' = open \cup {<<c, link[c] + 1>>} /\ run[record] = "running"
             /\ subs' = [subs EXCEPT ![record] = @ \cup {<<c, link[c] + 1>>}]
    <3>1. link'[c] = link[c] + 1
      BY <1>8, Attached
    <3>2. \A d \in Client : d # record => subs'[d] = subs[d]
      BY <2>4
    <3>3. QED BY <2>1, <2>4, <3>1, <3>2
  <2>5. QED BY <1>8, <2>2, <2>3, <2>4, Attached
<1>9. CASE Shutdown
  BY <1>9 DEF Shutdown
<1>10. QED
  BY <1>1, <1>2, <1>3, <1>4, <1>5, <1>6, <1>7, <1>8, <1>9
  DEF Next, OrphanTimer, InterruptSession, CloseOneSession, CloseGoesOn,
      ForgetRunIfExpired, vars, clientVars, runVars, daemonVars, Forget

\* A subscription is made when a run starts, or by a client that comes back.
LEMMA SubscribedStep ==
    ASSUME TypeOK, Standing, Subscribed, Cursors, [Next]_vars
    PROVE  Subscribed'
<1> USE DEF Subscribed
<1> ClientTypes /\ RunTypes /\ DaemonTypes
  BY Types
<1> USE DEF ClientTypes, RunTypes
<1>1. ASSUME \A d \in Client : subs'[d] \subseteq subs[d], UNCHANGED <<link, kept>>
      PROVE  Subscribed'
  BY <1>1
<1>2. ASSUME NEW c \in Client, ExecOne(c) PROVE Subscribed'
  <2>1. subs' = [subs EXCEPT ![c] = {<<c, 0>>}] /\ UNCHANGED <<link, kept>>
    BY <1>2 DEF ExecOne
  <2>2. QED BY <2>1
<1>3. ASSUME NEW c \in Client, SettleRun(c) \/ EmitFrame(c) PROVE Subscribed'
  <2>1. /\ UNCHANGED <<link, kept>>
        /\ \E S \in {{}, subs[c] \cap open} : subs' = [subs EXCEPT ![c] = S]
    BY <1>3 DEF SettleRun, EmitFrame, Drop
  <2>2. \A d \in Client : subs'[d] \subseteq subs[d]
    BY <2>1
  <2>3. QED BY <1>1, <2>1, <2>2
<1>4. ASSUME NEW s \in Connection, Release(s) PROVE Subscribed'
  <2>1. UNCHANGED <<link, kept>>
    BY <1>4 DEF Release, clientVars
  <2>2. UNCHANGED subs \/ subs' = [subs EXCEPT ![record] = @ \ {s}]
    BY <1>4 DEF Release, Drop
  <2>3. \A d \in Client : subs'[d] \subseteq subs[d]
    BY <2>2
  <2>4. QED BY <1>1, <2>1, <2>3
<1>5. ASSUME NEW c \in Client, Break(c) PROVE Subscribed'
  <2>1. UNCHANGED <<link, subs>>
    BY <1>5 DEF Break, runVars
  <2>2. \A d \in Client : kept'[d] = kept[d] \/ link[d] = 0
    BY <1>5 DEF Break
  <2>3. \A d, r \in Client : \A k \in 0..MaxDrops : <<d, k>> \in subs[r] /\ k > 0 => link[d] # 0
    BY ConstAssumption
  <2>4. QED BY <2>1, <2>2, <2>3
<1>6. ASSUME NEW c \in Client, AttachToRun(c) PROVE Subscribed'
  <2>1. /\ link'[c] = link[c] + 1 /\ \A d \in Client \ {c} : link'[d] = link[d]
        /\ UNCHANGED kept
    BY <1>6, Attached
  <2>2. CASE UNCHANGED subs
    BY <2>1, <2>2
  <2>3. CASE /\ record \in Client /\ kept[c].run \in {None, record}
             /\ subs' = [subs EXCEPT ![record] = @ \cup {<<c, link[c] + 1>>}]
    <3>1. \A d \in Client : subs'[d] = subs[d] \/ (d = record /\ subs'[d] = subs[d] \cup {<<c, link[c] + 1>>})
      BY <2>3
    <3>2. QED BY <2>1, <2>3, <3>1
  <2>4. QED BY <1>6, <2>2, <2>3, Attached
<1>7. CASE Shutdown
  <2>1. \A d \in Client : subs'[d] = {}
    BY <1>7 DEF Shutdown
  <2>2. QED BY <2>1
<1>8. CASE UNCHANGED <<link, kept, subs>>
  BY <1>8
<1>9. QED
  BY <1>2, <1>3, <1>4, <1>5, <1>6, <1>7, <1>8
  DEF Next, RunExecOp, GiveUp, OrphanTimer, InterruptSession, CloseOneSession, CloseGoesOn,
      ForgetRunIfExpired, vars, clientVars, runVars

-----------------------------------------------------------------------------
\* What a note does: it goes to every subscriber whose connection stands, and
\* they have then seen the last note of the run; or nobody is told anything.
LEMMA Emitted ==
    ASSUME TypeOK, Standing, NEW c \in Client, EmitFrame(c)
    PROVE  /\ UNCHANGED <<phase, link, kept, answer, run, open>>
           /\ run[c] = "running"
           /\ \A d \in Client : subs'[d] \subseteq subs[d]
           /\ \A d \in Client : <<d, link[d]>> \in subs'[c] => <<d, link[d]>> \in subs[c] \cap open
           /\ \/ UNCHANGED <<seq, known, skipped>>
              \/ /\ seq'[c] = seq[c] + 1 /\ \A d \in Client \ {c} : seq'[d] = seq[d]
                 /\ \A d \in Client :
                      IF phase[d] = "waiting" /\ <<d, link[d]>> \in subs[c] \cap open
                      THEN /\ known'[d] = [run |-> c, seq |-> seq'[c]]
                           /\ skipped'[d] = (skipped[d] \/ seq'[c] > Heard(d, c) + 1)
                      ELSE known'[d] = known[d] /\ skipped'[d] = skipped[d]
<1> ClientTypes /\ RunTypes
  BY Types
<1>1. UNCHANGED <<phase, link, kept, answer, run, open>> /\ run[c] = "running"
  BY DEF EmitFrame
<1>2. subs' = [subs EXCEPT ![c] = @ \ (subs[c] \ open)]
  BY DEF EmitFrame, Drop
<1>3. \A d \in Client : subs'[d] \subseteq subs[d]
  BY <1>2 DEF RunTypes
<1>4. \A d \in Client : <<d, link[d]>> \in subs'[c] => <<d, link[d]>> \in subs[c] \cap open
  BY <1>2 DEF RunTypes
<1>5. CASE UNCHANGED <<seq, known, skipped>>
  BY <1>1, <1>3, <1>4, <1>5
<1>6. CASE ~UNCHANGED <<seq, known, skipped>>
  <2>1. DEFINE told == Reached(subs[c] \cap open)
  <2>2. /\ seq' = [seq EXCEPT ![c] = @ + 1]
        /\ known' = [d \in Client |-> IF d \in told
                       THEN [run |-> c, seq |-> seq'[c]] ELSE known[d]]
        /\ skipped' = [d \in Client |->
             skipped[d] \/ (d \in told /\ seq'[c] > Heard(d, c) + 1)]
    BY <1>6 DEF EmitFrame
  <2>3. seq'[c] = seq[c] + 1 /\ \A d \in Client \ {c} : seq'[d] = seq[d]
    BY <2>2 DEF RunTypes
  <2>4. \A d \in Client : d \in told <=> phase[d] = "waiting" /\ <<d, link[d]>> \in subs[c] \cap open
    BY DEF Reached
  <2>5. ASSUME NEW d \in Client
        PROVE  IF phase[d] = "waiting" /\ <<d, link[d]>> \in subs[c] \cap open
               THEN /\ known'[d] = [run |-> c, seq |-> seq'[c]]
                    /\ skipped'[d] = (skipped[d] \/ seq'[c] > Heard(d, c) + 1)
               ELSE known'[d] = known[d] /\ skipped'[d] = skipped[d]
    <3> HIDE DEF told
    <3>1. /\ known'[d] = IF d \in told THEN [run |-> c, seq |-> seq'[c]] ELSE known[d]
          /\ skipped'[d] = (skipped[d] \/ (d \in told /\ seq'[c] > Heard(d, c) + 1))
      BY <2>2
    <3>2. skipped[d] \in BOOLEAN
      BY DEF ClientTypes
    <3>3. QED BY <2>4, <3>1, <3>2, Zenon
  <2>6. QED BY <1>1, <1>3, <1>4, <2>3, <2>5
<1>7. QED BY <1>5, <1>6

\* What the end of a run does: those it reaches are answered, and go.
LEMMA Ended ==
    ASSUME TypeOK, NEW c \in Client, SettleRun(c)
    PROVE  /\ UNCHANGED <<link, kept, skipped, seq>>
           /\ subs'[c] = {} /\ \A d \in Client \ {c} : subs'[d] = subs[d]
           /\ \A d \in Client :
                \/ /\ phase[d] = "waiting" /\ <<d, link[d]>> \in subs[c]
                   /\ phase'[d] = "done" /\ answer'[d] = c /\ known'[d] = NoCursor
                \/ phase'[d] = phase[d] /\ answer'[d] = answer[d] /\ known'[d] = known[d]
<1> ClientTypes /\ RunTypes
  BY Types
<1>1. DEFINE told == Reached(subs[c] \cap open)
<1>2. /\ UNCHANGED <<link, kept, skipped, seq>>
      /\ subs' = [subs EXCEPT ![c] = {}]
      /\ phase' = [d \in Client |-> IF d \in told THEN "done" ELSE phase[d]]
      /\ answer' = [d \in Client |-> IF d \in told THEN c ELSE answer[d]]
      /\ known' = [d \in Client |-> IF d \in told THEN NoCursor ELSE known[d]]
  BY DEF SettleRun
<1>3. \A d \in told : phase[d] = "waiting" /\ <<d, link[d]>> \in subs[c]
  BY DEF Reached
<1>4. subs'[c] = {} /\ \A d \in Client \ {c} : subs'[d] = subs[d]
  BY <1>2 DEF RunTypes
<1> HIDE DEF told
<1>5. QED BY <1>2, <1>3, <1>4

\* An answer to a client that could name its run is that run's.
LEMMA AnswerStep ==
    ASSUME TypeOK, Standing, Subscribed, Cursors, OwnAnswer, [Next]_vars
    PROVE  OwnAnswer'
<1> USE DEF OwnAnswer
<1> ClientTypes /\ RunTypes /\ DaemonTypes
  BY Types
<1>1. CASE UNCHANGED <<link, kept, answer>>
  BY <1>1
<1>2. ASSUME NEW c \in Client, SettleRun(c) PROVE OwnAnswer'
  <2>1. \A d \in Client : <<d, link[d]>> \in subs[c] /\ (link[d] = 0 \/ kept[d].run # None) => d = c
    BY ConstAssumption DEF Subscribed, Cursors, ClientTypes
  <2>2. QED BY <1>2, <2>1, Ended
<1>3. ASSUME NEW c \in Client, Break(c) PROVE OwnAnswer'
  <2>1. UNCHANGED <<link, answer>> /\ phase[c] = "waiting"
    BY <1>3 DEF Break
  <2>2. \A d \in Client \ {c} : kept'[d] = kept[d]
    BY <1>3 DEF Break, ClientTypes
  <2>3. answer[c] = None
    BY <2>1 DEF Standing
  <2>4. QED BY <2>1, <2>2, <2>3
<1>4. ASSUME NEW c \in Client, AttachToRun(c) PROVE OwnAnswer'
  <2>1. answer[c] = None
    BY <1>4 DEF Standing, AttachToRun
  <2>2. UNCHANGED kept /\ \A d \in Client \ {c} : link'[d] = link[d]
    BY <1>4, Attached
  <2>3. CASE UNCHANGED answer
    BY <2>1, <2>2, <2>3
  <2>4. link'[c] # 0
    <3>1. link[c] \in Nat
      BY ConstAssumption DEF ClientTypes
    <3>2. link'[c] = link[c] + 1
      BY <1>4, Attached
    <3>3. QED BY <3>1, <3>2
  <2>5. CASE answer' = [answer EXCEPT ![c] = record] /\ kept[c].run \in {None, record}
    <3>1. answer'[c] = record /\ \A d \in Client \ {c} : answer'[d] = answer[d]
      BY <2>5 DEF ClientTypes
    <3>2. kept[c].run \in {None, c}
      BY DEF Cursors
    <3>3. QED BY <2>2, <2>4, <2>5, <3>1, <3>2
  <2>6. QED BY <1>4, <2>3, <2>5, Attached
<1>5. CASE Shutdown
  <2>1. UNCHANGED <<link, answer>>
    BY <1>5 DEF Shutdown
  <2>2. \A d \in Client : kept'[d] = kept[d] \/ phase[d] = "waiting"
    BY <1>5 DEF Shutdown
  <2>3. \A d \in Client : phase[d] = "waiting" => answer[d] = None
    BY DEF Standing
  <2>4. QED BY <2>1, <2>2, <2>3
<1>6. QED
  BY <1>1, <1>2, <1>3, <1>4, <1>5
  DEF Next, RunExecOp, ExecOne, EmitFrame, GiveUp, Release, OrphanTimer, InterruptSession,
      CloseOneSession, CloseGoesOn, ForgetRunIfExpired, vars, clientVars

\* A cursor is what the client had heard of its own run.
LEMMA CursorStep ==
    ASSUME TypeOK, Standing, Subscribed, Cursors, Abreast, NoSilentSkip, [Next]_vars
    PROVE  Cursors' /\ NoSilentSkip'
<1> USE DEF Cursors, NoSilentSkip
<1> ClientTypes /\ RunTypes /\ DaemonTypes
  BY Types
<1>1. \A d \in Client : /\ known[d].seq \in Nat /\ kept[d].seq \in Nat /\ seq[d] \in Nat
                        /\ known[d].run \in MaybeClient
  BY DEF ClientTypes, RunTypes, Cursor
<1>2. CASE UNCHANGED <<phase, link, known, kept, skipped, seq>>
  BY <1>2
<1>3. ASSUME NEW c \in Client, RunExecOp(c) PROVE Cursors' /\ NoSilentSkip'
  <2>1. UNCHANGED <<link, known, kept, skipped, seq>> /\ phase[c] = "idle"
        /\ \A d \in Client \ {c} : phase'[d] = phase[d]
    BY <1>3 DEF RunExecOp, ClientTypes
  <2>2. kept[c].seq = 0
    BY <1>1, <2>1 DEF Standing
  <2>3. QED BY <2>1, <2>2
<1>4. ASSUME NEW c \in Client, ExecOne(c) PROVE Cursors' /\ NoSilentSkip'
  <2>1. /\ UNCHANGED <<phase, link, kept, skipped, seq>>
        /\ known' = known \/ known' = [known EXCEPT ![c] = [run |-> c, seq |-> 0]]
    BY <1>4 DEF ExecOne
  <2>2. seq[c] = 0
    BY <1>4 DEF ExecOne, StartIsDue, Standing
  <2>3. kept[c].seq = 0
    BY <1>1, <2>2
  <2>4. \A d \in Client : known'[d] = known[d] \/ (d = c /\ known'[d] = [run |-> c, seq |-> 0])
    BY <2>1 DEF ClientTypes
  <2>5. QED BY <2>1, <2>2, <2>3, <2>4, ConstAssumption
<1>5. ASSUME NEW c \in Client, SettleRun(c) PROVE Cursors' /\ NoSilentSkip'
  <2>1. UNCHANGED <<link, kept, skipped, seq>>
    BY <1>5, Ended
  <2>2. \A d \in Client : \/ phase'[d] = "done" /\ known'[d] = NoCursor
                          \/ phase'[d] = phase[d] /\ known'[d] = known[d]
    BY <1>5, Ended
  <2>3. NoCursor.run = None /\ NoCursor.seq = 0
    BY DEF NoCursor
  <2>4. QED BY <2>1, <2>2, <2>3, ConstAssumption
<1>6. ASSUME NEW c \in Client, EmitFrame(c) PROVE Cursors' /\ NoSilentSkip'
  <2>1. CASE UNCHANGED <<seq, known, skipped>>
    BY <1>6, <2>1, Emitted
  <2>2. CASE ~UNCHANGED <<seq, known, skipped>>
    <3>1. /\ UNCHANGED <<phase, link, kept>>
          /\ seq'[c] = seq[c] + 1 /\ \A d \in Client \ {c} : seq'[d] = seq[d]
          /\ \A d \in Client :
               IF phase[d] = "waiting" /\ <<d, link[d]>> \in subs[c] \cap open
               THEN /\ known'[d] = [run |-> c, seq |-> seq'[c]]
                    /\ skipped'[d] = (skipped[d] \/ seq'[c] > Heard(d, c) + 1)
               ELSE known'[d] = known[d] /\ skipped'[d] = skipped[d]
      BY <1>6, <2>2, Emitted
    <3>2. ASSUME NEW d \in Client, phase[d] = "waiting", <<d, link[d]>> \in subs[c],
                 link[d] = 0 \/ kept[d].seq > 0
          PROVE  c = d /\ Heard(d, c) = seq[c]
      <4>1. c = d
        BY <3>2, ConstAssumption DEF Subscribed, ClientTypes
      <4>2. known[d] = [run |-> c, seq |-> seq[c]]
        BY <3>2 DEF Abreast
      <4>3. QED BY <4>1, <4>2 DEF Heard
    <3>3. ASSUME NEW d \in Client, phase[d] = "waiting", <<d, link[d]>> \in subs[c] \cap open
          PROVE  /\ known'[d] = [run |-> c, seq |-> seq'[c]]
                 /\ link[d] = 0 \/ kept[d].seq > 0 => c = d /\ skipped'[d] = skipped[d]
      <4>1. skipped[d] \in BOOLEAN
        BY DEF ClientTypes
      <4>2. link[d] = 0 \/ kept[d].seq > 0 => ~(seq'[c] > Heard(d, c) + 1)
        BY <1>1, <3>1, <3>2, <3>3
      <4>3. QED BY <3>1, <3>2, <3>3, <4>1, <4>2
    <3>4. \A d \in Client : seq[d] <= seq'[d]
      BY <1>1, <3>1
    <3>5. ASSUME NEW d \in Client
          PROVE  /\ kept[d].seq <= seq'[d]
                 /\ known'[d].run # None => known'[d].seq <= seq'[known'[d].run]
                 /\ known'[d].run = None => known'[d].seq = 0
                 /\ link[d] = 0 => known'[d].run \in {None, d} /\ ~skipped'[d]
                 /\ kept[d].seq > 0 /\ phase[d] \in {"waiting", "lost"} =>
                      known'[d].run = d /\ kept[d].seq <= known'[d].seq
                 /\ kept[d].seq > 0 => ~skipped'[d]
      <4>1. CASE phase[d] = "waiting" /\ <<d, link[d]>> \in subs[c] \cap open
        <5>1. /\ known'[d].run = c /\ known'[d].seq = seq'[c] /\ seq'[c] \in Nat
              /\ link[d] = 0 \/ kept[d].seq > 0 => c = d /\ skipped'[d] = skipped[d]
              /\ kept[d].seq <= seq'[d]
          BY <1>1, <3>1, <3>3, <3>4, <4>1
        <5>2. QED BY <1>1, <5>1, ConstAssumption
      <4>2. CASE ~(phase[d] = "waiting" /\ <<d, link[d]>> \in subs[c] \cap open)
        <5>1. known'[d] = known[d] /\ skipped'[d] = skipped[d]
          BY <3>1, <4>2
        <5>2. known[d].run # None => seq[known[d].run] <= seq'[known[d].run] /\ known[d].run \in Client
          BY <1>1, <3>4 DEF MaybeClient
        <5>3. known[d].run # None => known[d].seq <= seq'[known[d].run]
          BY <1>1, <3>1, <5>2
        <5>4. kept[d].seq <= seq'[d]
          BY <1>1, <3>1
        <5>5. QED BY <5>1, <5>3, <5>4
      <4>3. QED BY <4>1, <4>2
    <3>6. QED BY <3>1, <3>5
  <2>3. QED BY <2>1, <2>2
<1>7. ASSUME UNCHANGED <<link, known, skipped, seq>>,
             \A d \in Client : \/ kept'[d] = kept[d]
                               \/ kept'[d] = known[d] /\ link[d] = 0,
             \A d \in Client : phase'[d] \in {"waiting", "lost"} => phase[d] \in {"waiting", "lost"}
      PROVE  Cursors' /\ NoSilentSkip'
  <2>1. ASSUME NEW d \in Client, kept'[d] = known[d], link[d] = 0
        PROVE  /\ kept'[d].run \in {None, d} /\ kept'[d].seq <= seq[d]
               /\ kept'[d].seq > 0 => kept'[d].run = d
               /\ kept'[d].seq > 0 => known[d].run = d /\ kept'[d].seq <= known[d].seq
               /\ kept'[d].seq > 0 => ~skipped[d]
    BY <1>1, <2>1
  <2>2. QED BY <1>7, <2>1
<1>8. ASSUME NEW c \in Client, Break(c) PROVE Cursors' /\ NoSilentSkip'
  <2>1. UNCHANGED <<link, known, skipped, seq>> /\ phase[c] = "waiting"
    BY <1>8 DEF Break, runVars
  <2>2. \A d \in Client : kept'[d] = kept[d] \/ (kept'[d] = known[d] /\ link[d] = 0)
    BY <1>8 DEF Break, ClientTypes
  <2>3. \A d \in Client \ {c} : phase'[d] = phase[d]
    BY <1>8 DEF Break, ClientTypes
  <2>4. QED BY <1>7, <2>1, <2>2, <2>3
<1>9. ASSUME NEW c \in Client, GiveUp(c) PROVE Cursors' /\ NoSilentSkip'
  <2>1. UNCHANGED <<link, known, kept, skipped, seq>>
    BY <1>9 DEF GiveUp, runVars
  <2>2. \A d \in Client : phase'[d] = phase[d] \/ phase'[d] = "failed"
    BY <1>9 DEF GiveUp, ClientTypes
  <2>3. QED BY <1>7, <2>1, <2>2
<1>10. ASSUME NEW c \in Client, AttachToRun(c) PROVE Cursors' /\ NoSilentSkip'
  <2>1. /\ phase[c] = "lost" /\ UNCHANGED <<kept, seq>> /\ link'[c] = link[c] + 1
        /\ \A d \in Client \ {c} : /\ link'[d] = link[d] /\ known'[d] = known[d]
                                   /\ skipped'[d] = skipped[d]
    BY <1>10, Attached
  <2>2. \A d \in Client \ {c} : phase'[d] = phase[d]
    <3>1. \E now \in {"failed", "done", "waiting"} : phase' = [phase EXCEPT ![c] = now]
      BY <1>10, Attached
    <3>2. QED BY <3>1 DEF ClientTypes
  <2>3. /\ \/ known'[c] = known[c]
           \/ record \in Client /\ known'[c] = [run |-> record, seq |-> seq[record]]
        /\ kept[c].seq > 0 => skipped'[c] = skipped[c]
        /\ kept[c].seq > 0 => known'[c] = known[c] \/ known'[c] = [run |-> c, seq |-> seq[c]]
    BY <1>10, Attached
  <2>4. link'[c] # 0
    BY <2>1, ConstAssumption DEF ClientTypes
  <2>5. /\ known'[c].run # None => known'[c].seq <= seq[known'[c].run]
        /\ known'[c].run = None => known'[c].seq = 0
        /\ kept[c].seq > 0 => known'[c].run = c /\ kept[c].seq <= known'[c].seq
    BY <1>1, <2>1, <2>3, ConstAssumption
  <2>6. QED BY <2>1, <2>2, <2>3, <2>4, <2>5
<1>11. CASE Shutdown
  <2>1. UNCHANGED <<link, known, skipped, seq>>
    BY <1>11 DEF Shutdown
  <2>2. \A d \in Client : kept'[d] = kept[d] \/ (kept'[d] = known[d] /\ link[d] = 0)
    BY <1>11 DEF Shutdown
  <2>3. \A d \in Client : phase'[d] \in {"waiting", "lost"} => phase[d] \in {"waiting", "lost"}
    BY <1>11 DEF Shutdown
  <2>4. QED BY <1>7, <2>1, <2>2, <2>3
<1>12. QED
  BY <1>2, <1>3, <1>4, <1>5, <1>6, <1>8, <1>9, <1>10, <1>11
  DEF Next, Release, OrphanTimer, InterruptSession, CloseOneSession, CloseGoesOn,
      ForgetRunIfExpired, vars, clientVars, runVars

\* A client that is still sent notes has seen the last one.
LEMMA AbreastStep ==
    ASSUME TypeOK, Standing, Subscribed, Cursors, Abreast, [Next]_vars
    PROVE  Abreast'
<1> USE DEF Abreast
<1> ClientTypes /\ RunTypes /\ DaemonTypes
  BY Types
<1>1. ASSUME UNCHANGED <<link, known, seq>>,
             \A d \in Client : subs'[d] \subseteq subs[d],
             \A d \in Client : phase'[d] = "waiting" => phase[d] = "waiting" /\ kept'[d] = kept[d]
      PROVE  Abreast'
  BY <1>1
<1>2. CASE UNCHANGED <<phase, link, known, kept, seq, subs>>
  BY <1>2
<1>3. ASSUME NEW c \in Client, RunExecOp(c) PROVE Abreast'
  <2>1. /\ UNCHANGED <<link, known, kept, seq, subs>> /\ phase[c] = "idle"
        /\ \A d \in Client \ {c} : phase'[d] = phase[d]
    BY <1>3 DEF RunExecOp, ClientTypes
  <2>2. run[c] = "none" /\ link[c] = 0 /\ subs[c] = {}
    BY <2>1 DEF Standing
  <2>3. \A r \in Client : <<c, link[c]>> \notin subs[r]
    BY <2>2, ConstAssumption DEF Subscribed
  <2>4. QED BY <2>1, <2>3
<1>4. ASSUME NEW c \in Client, ExecOne(c) PROVE Abreast'
  <2>1. /\ UNCHANGED <<phase, link, kept, seq>>
        /\ subs'[c] = {<<c, 0>>} /\ \A d \in Client \ {c} : subs'[d] = subs[d]
    BY <1>4 DEF ExecOne, RunTypes
  <2>2. seq[c] = 0
    BY <1>4 DEF ExecOne, StartIsDue, Standing
  <2>3. \A d \in Client \ {c} : known'[d] = known[d]
    BY <1>4 DEF ExecOne, ClientTypes
  <2>4. CASE phase[c] = "waiting" /\ link[c] = 0
    <3>1. known'[c] = [run |-> c, seq |-> 0]
      BY <1>4, <2>4 DEF ExecOne, Live, ClientTypes
    <3>2. \A r \in Client \ {c} : <<c, link[c]>> \notin subs[r]
      BY <2>4, ConstAssumption DEF Subscribed
    <3>3. QED BY <2>1, <2>2, <2>3, <3>1, <3>2
  <2>5. CASE ~(phase[c] = "waiting" /\ link[c] = 0)
    <3>1. known'[c] = known[c]
      BY <1>4, <2>5 DEF ExecOne, Live
    <3>2. \A d \in Client : <<d, link[d]>> \in subs'[c] => d = c /\ link[c] = 0
      BY <2>1
    <3>3. QED BY <2>1, <2>3, <2>5, <3>1, <3>2
  <2>6. QED BY <2>4, <2>5
<1>5. ASSUME NEW c \in Client, SettleRun(c) PROVE Abreast'
  <2>1. UNCHANGED <<link, kept, seq>> /\ \A d \in Client : subs'[d] \subseteq subs[d]
    BY <1>5, Ended
  <2>2. \A d \in Client : phase'[d] = "waiting" => phase[d] = "waiting" /\ known'[d] = known[d]
    BY <1>5, Ended
  <2>3. QED BY <2>1, <2>2
<1>6. ASSUME NEW c \in Client, EmitFrame(c) PROVE Abreast'
  <2>1. /\ UNCHANGED <<phase, link, kept>> /\ \A d \in Client : subs'[d] \subseteq subs[d]
        /\ \A d \in Client : <<d, link[d]>> \in subs'[c] => <<d, link[d]>> \in subs[c] \cap open
    BY <1>6, Emitted
  <2>2. CASE UNCHANGED <<seq, known, skipped>>
    BY <2>1, <2>2
  <2>3. CASE ~UNCHANGED <<seq, known, skipped>>
    <3>1. /\ \A d \in Client \ {c} : seq'[d] = seq[d]
          /\ \A d \in Client :
               IF phase[d] = "waiting" /\ <<d, link[d]>> \in subs[c] \cap open
               THEN known'[d] = [run |-> c, seq |-> seq'[c]]
               ELSE known'[d] = known[d]
      BY <1>6, <2>3, Emitted
    <3>2. ASSUME NEW d \in Client, NEW r \in Client,
                 phase[d] = "waiting", <<d, link[d]>> \in subs'[r], link[d] = 0 \/ kept[d].seq > 0
          PROVE  known'[d] = [run |-> r, seq |-> seq'[r]]
      <4>1. CASE r = c
        BY <2>1, <3>1, <3>2, <4>1
      <4>2. CASE r # c
        <5>1. r = d
          BY <2>1, <3>2, ConstAssumption DEF Subscribed, Cursors, ClientTypes
        <5>2. <<d, link[d]>> \notin subs[c]
          BY <3>2, <4>2, <5>1, ConstAssumption DEF Subscribed, Cursors, ClientTypes
        <5>3. known'[d] = known[d] /\ seq'[r] = seq[r] /\ <<d, link[d]>> \in subs[r]
          BY <2>1, <3>1, <3>2, <4>2, <5>2
        <5>4. QED BY <3>2, <5>3
      <4>3. QED BY <4>1, <4>2
    <3>3. QED BY <2>1, <3>2
  <2>4. QED BY <2>2, <2>3
<1>7. ASSUME NEW s \in Connection, Release(s) PROVE Abreast'
  <2>1. UNCHANGED <<phase, link, kept, known, seq>>
    BY <1>7 DEF Release, clientVars
  <2>2. UNCHANGED subs \/ subs' = [subs EXCEPT ![record] = @ \ {s}]
    BY <1>7 DEF Release, Drop
  <2>3. \A d \in Client : subs'[d] \subseteq subs[d]
    BY <2>2 DEF RunTypes
  <2>4. QED BY <1>1, <2>1, <2>3
<1>8. ASSUME NEW c \in Client, Break(c) \/ GiveUp(c) PROVE Abreast'
  <2>1. UNCHANGED <<link, known, seq, subs>> /\ phase'[c] # "waiting"
    BY <1>8 DEF Break, GiveUp, runVars, ClientTypes
  <2>2. \A d \in Client \ {c} : phase'[d] = phase[d] /\ kept'[d] = kept[d]
    BY <1>8 DEF Break, GiveUp, ClientTypes
  <2>3. QED BY <1>1, <2>1, <2>2
<1>9. ASSUME NEW c \in Client, AttachToRun(c) PROVE Abreast'
  <2>1. /\ UNCHANGED <<kept, seq>> /\ link'[c] = link[c] + 1
        /\ \A d \in Client \ {c} : link'[d] = link[d] /\ known'[d] = known[d]
    BY <1>9, Attached
  <2>2. link[c] \in Nat /\ \A r \in Client : <<c, link'[c]>> \notin subs[r]
    <3>1. link[c] \in 0..MaxDrops /\ link[c] < MaxDrops
      BY <1>9 DEF AttachToRun, ClientTypes
    <3>2. link[c] \in Nat /\ link[c] + 1 \in 0..MaxDrops /\ ~(link[c] + 1 <= link[c])
      BY <3>1, ConstAssumption
    <3>3. QED BY <2>1, <3>2 DEF Subscribed
  <2>3. CASE UNCHANGED subs /\ \E now \in {"failed", "done"} : phase' = [phase EXCEPT ![c] = now]
    <3>1. phase'[c] # "waiting" /\ \A d \in Client \ {c} : phase'[d] = phase[d]
      BY <2>3 DEF ClientTypes
    <3>2. QED BY <2>1, <2>3, <3>1
  <2>4. CASE /\ phase' = [phase EXCEPT ![c] = "waiting"]
             /\ subs' = [subs EXCEPT ![record] = @ \cup {<<c, link[c] + 1>>}]
             /\ record \in Client
             /\ kept[c].seq > 0 => record = c /\ known'[c] = [run |-> c, seq |-> seq[c]]
    <3>1. \A d \in Client \ {c} : phase'[d] = phase[d]
      BY <2>4 DEF ClientTypes
    <3>2. \A r \in Client : subs'[r] = subs[r] \/ (r = record /\ subs'[r] = subs[r] \cup {<<c, link'[c]>>})
      BY <2>1, <2>4 DEF RunTypes
    <3>3. \A d \in Client \ {c} : \A r \in Client : <<d, link'[d]>> \in subs'[r] => <<d, link[d]>> \in subs[r]
      BY <2>1, <3>2
    <3>4. \A r \in Client : <<c, link'[c]>> \in subs'[r] => r = record
      BY <2>2, <3>2
    <3>5. link'[c] # 0
      BY <2>1, <2>2
    <3>6. QED BY <2>1, <2>4, <3>1, <3>3, <3>4, <3>5
  <2>5. QED BY <1>9, <2>3, <2>4, Attached
<1>10. CASE Shutdown
  <2>1. \A d \in Client : phase'[d] # "waiting"
    BY <1>10 DEF Shutdown
  <2>2. QED BY <2>1
<1>11. QED
  BY <1>2, <1>3, <1>4, <1>5, <1>6, <1>7, <1>8, <1>9, <1>10
  DEF Next, OrphanTimer, InterruptSession, CloseOneSession, CloseGoesOn,
      ForgetRunIfExpired, vars, clientVars, runVars

-----------------------------------------------------------------------------
\* The daemon's subscriptions and the clients' cursors agree, however runs
\* start, settle, are interrupted or closed, connections break unseen, clients
\* come back and the daemon dies.
THEOREM Inductive == Spec => []IndInv
<1>1. ASSUME IndInv, [Next]_vars PROVE IndInv'
  <2>1. ClientTypes' /\ RunTypes' /\ DaemonTypes'
    BY <1>1, ClientStep, RunStep, DaemonStep DEF IndInv
  <2>2. TypeOK'
    BY <2>1 DEF TypeOK, ClientTypes, RunTypes, DaemonTypes
  <2>3. OwnAnswer' /\ NoSilentSkip' /\ Standing' /\ Subscribed' /\ Cursors' /\ Abreast'
    BY <1>1, AnswerStep, CursorStep, StandingStep, SubscribedStep, AbreastStep DEF IndInv
  <2>4. QED BY <2>2, <2>3 DEF IndInv
<1>2. QED BY InitInv, <1>1, PTL DEF Spec

\* A client that had learned its run id is never given another task's result.
THEOREM AnswersAreOwn == Spec => []OwnAnswer
<1>1. IndInv => OwnAnswer
  BY DEF IndInv
<1>2. QED BY Inductive, <1>1, PTL

\* A client that had seen a note of its run is told when it missed others.
THEOREM SkipsAreTold == Spec => []NoSilentSkip
<1>1. IndInv => NoSilentSkip
  BY DEF IndInv
<1>2. QED BY Inductive, <1>1, PTL

-----------------------------------------------------------------------------
(* The chain of a session's tasks *)

\* The tasks that are queued or running, those apart that a close left behind.
InLine(c) == c \notin left /\ run[c] \in {"queued", "running"}

\* They stand in one line: each but the first is queued on the one before it,
\* and the next task will be queued on the last.
Line(n, line) ==
  /\ line \in [1..n -> Client]
  /\ \A i, j \in 1..n : line[i] = line[j] => i = j
  /\ \A c \in Client : InLine(c) <=> \E i \in 1..n : line[i] = c
  /\ \A i \in 2..n : run[line[i]] = "queued" /\ prior[line[i]] = line[i - 1]
  /\ tail = IF n = 0 THEN None ELSE line[n]

\* Only the registered run runs, a close waits for none but that, and it has
\* begun with all that is saved.
Registered ==
  /\ \A c \in Client : run[c] = "running" => record = c /\ story \subseteq base[c]
  /\ closing # None => record = closing

\* All this until a task that a close left behind gets to run.
Ordered ==
  /\ \A c \in left : run[c] # "none"
  /\ Undisturbed => Registered /\ \E n \in Nat : \E line \in [1..n -> Client] : Line(n, line)

\* The order of tasks, at first.
LEMMA OrderedInit == Init => Ordered
<1> SUFFICES ASSUME Init PROVE Ordered
  OBVIOUS
<1>1. \A c \in left : run[c] # "none"
  BY DEF Init
<1>2. Registered
  BY DEF Init, Registered
<1>3. [i \in 1..0 |-> None] \in [1..0 -> Client]
  OBVIOUS
<1>4. Line(0, [i \in 1..0 |-> None])
  BY <1>3 DEF Init, Line, InLine
<1>5. QED BY <1>1, <1>2, <1>3, <1>4 DEF Ordered

\* A task that was left behind stays queued as long as nothing is disturbed.
LEMMA StillUndisturbed ==
    ASSUME TypeOK, Standing, Ordered, [Next]_vars
    PROVE  /\ \A c \in left' : run'[c] # "none"
           /\ Undisturbed' => Undisturbed
<1> ClientTypes /\ RunTypes /\ DaemonTypes
  BY Types
<1>1. \A c \in left : c \in Client /\ run[c] # "none"
  BY DEF DaemonTypes, Ordered
<1>2. \A c \in Client : run[c] # "none" => run'[c] # "none" /\ (run'[c] = "queued" => run[c] = "queued")
  <2> USE DEF RunTypes
  <2>1. CASE UNCHANGED run
    BY <2>1
  <2>2. ASSUME NEW c \in Client, RunExecOp(c)
        PROVE  \A d \in Client : run[d] # "none" => run'[d] # "none" /\ (run'[d] = "queued" => run[d] = "queued")
    <3>1. run[c] = "none" /\ (run' = run \/ run' = [run EXCEPT ![c] = "queued"])
      BY <2>2 DEF RunExecOp, Standing
    <3>2. QED BY <3>1
  <2>3. ASSUME NEW c \in Client, ExecOne(c) \/ SettleRun(c)
        PROVE  \A d \in Client : run[d] # "none" => run'[d] # "none" /\ (run'[d] = "queued" => run[d] = "queued")
    <3>1. \E now \in {"running", "settled"} : run' = [run EXCEPT ![c] = now]
      BY <2>3 DEF ExecOne, SettleRun
    <3>2. QED BY <3>1
  <2>4. CASE Shutdown
    BY <2>4 DEF Shutdown
  <2>5. QED
    BY <2>1, <2>2, <2>3, <2>4
    DEF Next, EmitFrame, OrphanTimer, Break, GiveUp, AttachToRun, Release, InterruptSession,
        CloseOneSession, CloseGoesOn, ForgetRunIfExpired, vars, runVars
<1>3. left \subseteq left' /\ \A c \in left' \ left : c \in Client /\ run[c] = "queued" /\ run'[c] = run[c]
  BY DEF Next, RunExecOp, ExecOne, SettleRun, EmitFrame, OrphanTimer, Break, GiveUp, AttachToRun,
     Release, InterruptSession, CloseOneSession, CloseGoesOn, ForgetRunIfExpired, Shutdown, Forget,
     vars, runVars, daemonVars
<1>4. QED BY <1>1, <1>2, <1>3 DEF Undisturbed

\* The first in line is the only one that may run or start.
LEMMA FirstInLine ==
    ASSUME TypeOK, NEW n \in Nat, NEW line \in [1..n -> Client], Line(n, line),
           NEW c \in Client, InLine(c), run[c] = "running" \/ StartIsDue(c)
    PROVE  n > 0 /\ c = line[1] /\ \A d \in Client \ {c} : InLine(d) => run[d] = "queued"
<1>1. PICK i \in 1..n : line[i] = c
  BY DEF Line
<1>2. i \notin 2..n
  <2> SUFFICES ASSUME i \in 2..n PROVE FALSE
    OBVIOUS
  <2>1. i - 1 \in 1..n /\ run[c] = "queued" /\ prior[c] = line[i - 1]
    BY <1>1 DEF Line
  <2>2. line[i - 1] \in Client /\ run[line[i - 1]] \in {"queued", "running"}
    BY <2>1 DEF Line, InLine
  <2>3. QED BY <2>1, <2>2, ConstAssumption DEF StartIsDue
<1>3. i = 1 /\ n > 0
  BY <1>2
<1>4. ASSUME NEW d \in Client \ {c}, InLine(d) PROVE run[d] = "queued"
  <2>1. PICK j \in 1..n : line[j] = d
    BY <1>4 DEF Line
  <2>2. j \in 2..n
    BY <1>1, <1>3, <1>4, <2>1
  <2>3. QED BY <2>1, <2>2 DEF Line
<1>5. QED BY <1>1, <1>3, <1>4

\* The line loses its first when that settles, grows at its end, and is gone
\* when the session is closed or the daemon dies.
LEMMA LineStep ==
    ASSUME TypeOK, Standing, Ordered, Undisturbed, Undisturbed', [Next]_vars
    PROVE  \E n \in Nat : \E line \in [1..n -> Client] : Line(n, line)'
<1> ClientTypes /\ RunTypes /\ DaemonTypes
  BY Types
<1>0. PICK n \in Nat : \E line \in [1..n -> Client] : Line(n, line)
  BY DEF Ordered
<1>1. PICK line \in [1..n -> Client] : Line(n, line)
  BY <1>0
<1>2. CASE UNCHANGED <<run, prior, left, tail>>
  BY <1>1, <1>2 DEF Line, InLine
<1>3. ASSUME NEW c \in Client, RunExecOp(c)
      PROVE  \E m \in Nat : \E l \in [1..m -> Client] : Line(m, l)'
  <2>1. CASE UNCHANGED <<run, prior, tail>>
    BY <1>2, <1>3, <2>1 DEF RunExecOp
  <2>2. CASE run' = [run EXCEPT ![c] = "queued"] /\ prior' = [prior EXCEPT ![c] = tail] /\ tail' = c
    <3>1. run[c] = "none" /\ c \notin left /\ left' = left
      BY <1>3 DEF RunExecOp, Standing, Ordered
    <3>2. \A i \in 1..n : line[i] # c
      BY <1>1, <3>1 DEF Line, InLine
    <3> DEFINE l == [i \in 1..n + 1 |-> IF i = n + 1 THEN c ELSE line[i]]
    <3>3. /\ l \in [1..n + 1 -> Client] /\ l[n + 1] = c
          /\ \A i \in 1..n : l[i] = line[i]
      OBVIOUS
    <3>4. run'[c] = "queued" /\ prior'[c] = tail
          /\ \A d \in Client \ {c} : run'[d] = run[d] /\ prior'[d] = prior[d]
      BY <2>2 DEF RunTypes
    <3> HIDE DEF l
    <3>5. \A i, j \in 1..n + 1 : l[i] = l[j] => i = j
      BY <1>1, <3>2, <3>3 DEF Line
    <3>6. ASSUME NEW d \in Client PROVE InLine(d)' <=> \E i \in 1..n + 1 : l[i] = d
      <4>1. CASE d = c
        <5>1. InLine(d)' /\ n + 1 \in 1..n + 1
          BY <3>1, <3>4, <4>1 DEF InLine
        <5>2. QED BY <3>3, <4>1, <5>1
      <4>2. CASE d # c
        <5>1. InLine(d)' <=> InLine(d)
          BY <3>1, <3>4, <4>2 DEF InLine
        <5>2. InLine(d) <=> \E i \in 1..n : line[i] = d
          BY <1>1 DEF Line
        <5>3. (\E i \in 1..n : line[i] = d) <=> \E i \in 1..n + 1 : l[i] = d
          BY <3>3, <4>2
        <5>4. QED BY <5>1, <5>2, <5>3
      <4>3. QED BY <4>1, <4>2
    <3>7. ASSUME NEW i \in 2..n + 1 PROVE run'[l[i]] = "queued" /\ prior'[l[i]] = l[i - 1]
      <4>1. CASE i = n + 1
        <5>1. i - 1 \in 1..n /\ l[i - 1] = line[n] /\ tail = line[n]
          BY <1>1, <3>3, <4>1 DEF Line
        <5>2. QED BY <3>3, <3>4, <4>1, <5>1
      <4>2. CASE i \in 2..n
        <5>1. l[i] = line[i] /\ l[i - 1] = line[i - 1] /\ line[i] \in Client \ {c}
          BY <3>2, <3>3, <4>2
        <5>2. run[line[i]] = "queued" /\ prior[line[i]] = line[i - 1]
          BY <1>1, <4>2 DEF Line
        <5>3. QED BY <3>4, <5>1, <5>2
      <4>3. QED BY <4>1, <4>2
    <3>8. Line(n + 1, l)'
      BY <2>2, <3>3, <3>5, <3>6, <3>7 DEF Line
    <3>9. QED BY <3>3, <3>8
  <2>3. QED BY <1>3, <2>1, <2>2 DEF RunExecOp
<1>4. ASSUME NEW c \in Client, ExecOne(c)
      PROVE  \E m \in Nat : \E l \in [1..m -> Client] : Line(m, l)'
  <2>1. /\ UNCHANGED <<prior, left, tail>> /\ run'[c] = "running" /\ StartIsDue(c)
        /\ \A d \in Client \ {c} : run'[d] = run[d]
    BY <1>4 DEF ExecOne, RunTypes
  <2>2. InLine(c)
    BY <2>1 DEF InLine, StartIsDue, Undisturbed
  <2>3. n > 0 /\ c = line[1]
    BY <1>1, <2>1, <2>2, FirstInLine
  <2>4. \A d \in Client : InLine(d)' <=> InLine(d)
    BY <2>1, <2>2 DEF InLine
  <2>5. \A i \in 2..n : line[i] \in Client \ {c}
    BY <1>1, <2>3 DEF Line
  <2>6. Line(n, line)'
    BY <1>1, <2>1, <2>4, <2>5 DEF Line
  <2>7. QED BY <2>6
<1>5. ASSUME NEW c \in Client, SettleRun(c)
      PROVE  \E m \in Nat : \E l \in [1..m -> Client] : Line(m, l)'
  <2>1. /\ UNCHANGED <<prior, left>> /\ run[c] = "running" /\ run'[c] = "settled"
        /\ \A d \in Client \ {c} : run'[d] = run[d]
        /\ tail' = IF tail = c THEN None ELSE tail
    BY <1>5 DEF SettleRun, RunTypes
  <2>2. InLine(c)
    BY <2>1 DEF InLine, Undisturbed
  <2>3. n > 0 /\ c = line[1]
    BY <1>1, <2>1, <2>2, FirstInLine
  <2> DEFINE l == [i \in 1..n - 1 |-> line[i + 1]]
  <2>4. /\ n - 1 \in Nat /\ l \in [1..n - 1 -> Client]
        /\ \A i \in 1..n - 1 : i + 1 \in 2..n /\ l[i] = line[i + 1] /\ l[i] # c
    BY <1>1, <2>3 DEF Line
  <2> HIDE DEF l
  <2>5. \A i, j \in 1..n - 1 : l[i] = l[j] => i = j
    BY <1>1, <2>4 DEF Line
  <2>6. ASSUME NEW d \in Client PROVE InLine(d)' <=> \E i \in 1..n - 1 : l[i] = d
    <3>1. InLine(d)' <=> InLine(d) /\ d # c
      BY <2>1 DEF InLine
    <3>2. InLine(d) <=> \E i \in 1..n : line[i] = d
      BY <1>1 DEF Line
    <3>3. ASSUME NEW i \in 1..n, line[i] = d, d # c PROVE \E j \in 1..n - 1 : l[j] = d
      <4>1. i - 1 \in 1..n - 1 /\ (i - 1) + 1 = i
        BY <2>3, <3>3
      <4>2. QED BY <2>4, <3>3, <4>1
    <3>4. ASSUME NEW i \in 1..n - 1, l[i] = d PROVE d # c /\ \E j \in 1..n : line[j] = d
      BY <2>4, <3>4
    <3>5. QED BY <3>1, <3>2, <3>3, <3>4
  <2>7. ASSUME NEW i \in 2..n - 1 PROVE run'[l[i]] = "queued" /\ prior'[l[i]] = l[i - 1]
    <3>1. /\ i \in 1..n - 1 /\ i - 1 \in 1..n - 1 /\ i + 1 \in 2..n /\ (i - 1) + 1 = i
          /\ (i + 1) - 1 = i
      BY <2>4
    <3>2. l[i] = line[i + 1] /\ l[i - 1] = line[i] /\ l[i] \in Client \ {c}
      BY <2>4, <3>1
    <3>3. run[line[i + 1]] = "queued" /\ prior[line[i + 1]] = line[i]
      BY <1>1, <3>1 DEF Line
    <3>4. QED BY <2>1, <3>2, <3>3
  <2>8. tail' = IF n - 1 = 0 THEN None ELSE l[n - 1]
    <3>1. CASE n = 1
      BY <1>1, <2>1, <2>3, <3>1 DEF Line
    <3>2. CASE n # 1
      <4>1. n - 1 \in 1..n - 1 /\ (n - 1) + 1 = n /\ 1 \in 1..n /\ n \in 1..n
        BY <2>3, <3>2
      <4>2. tail = line[n] /\ l[n - 1] = line[n] /\ line[n] # c
        BY <1>1, <2>3, <2>4, <3>2, <4>1 DEF Line
      <4>3. QED BY <2>1, <2>3, <3>2, <4>2
    <3>3. QED BY <3>1, <3>2
  <2>9. Line(n - 1, l)'
    BY <2>4, <2>5, <2>6, <2>7, <2>8 DEF Line
  <2>10. QED BY <2>4, <2>9
<1>6. ASSUME tail' = None, \A c \in Client : ~InLine(c)'
      PROVE  \E m \in Nat : \E l \in [1..m -> Client] : Line(m, l)'
  <2>1. [i \in 1..0 |-> None] \in [1..0 -> Client]
    OBVIOUS
  <2>2. Line(0, [i \in 1..0 |-> None])'
    BY <1>6, <2>1 DEF Line
  <2>3. QED BY <2>1, <2>2
<1>7. CASE CloseOneSession \/ CloseGoesOn
  <2>1. CASE UNCHANGED <<left, tail>>
    BY <1>2, <1>7, <2>1 DEF CloseOneSession, CloseGoesOn, runVars
  <2>2. CASE Forget
    <3>1. run' = run
      BY <1>7 DEF CloseOneSession, CloseGoesOn, runVars
    <3>2. \A c \in Client : run[c] # "running"
      <4>1. record # None => run[record] # "running"
        BY <1>7, <2>2, ConstAssumption DEF CloseOneSession, CloseGoesOn, CloseIsDue, Forget, Ordered, Registered,
           DaemonTypes, MaybeClient
      <4>2. QED BY <4>1, ConstAssumption DEF Ordered, Registered
    <3>3. QED BY <1>6, <2>2, <3>1, <3>2 DEF Forget, InLine
  <2>3. QED BY <1>7, <2>1, <2>2 DEF CloseOneSession, CloseGoesOn
<1>8. CASE Shutdown
  <2>1. tail' = None /\ \A c \in Client : run'[c] \notin {"queued", "running"}
    BY <1>8 DEF Shutdown, RunTypes
  <2>2. QED BY <1>6, <2>1 DEF InLine
<1>9. QED
  BY <1>2, <1>3, <1>4, <1>5, <1>7, <1>8
  DEF Next, EmitFrame, OrphanTimer, Break, GiveUp, AttachToRun, Release, InterruptSession,
      ForgetRunIfExpired, vars, runVars, daemonVars

\* A task starts only when none runs, and what it remembers is what is saved
\* until it settles itself.
LEMMA RegisteredStep ==
    ASSUME TypeOK, Standing, Ordered, Undisturbed, Undisturbed', [Next]_vars
    PROVE  Registered'
<1> ClientTypes /\ RunTypes /\ DaemonTypes
  BY Types
<1> Registered
  BY DEF Ordered
<1> USE DEF Registered
<1>1. CASE UNCHANGED <<run, record, story, base, closing>>
  BY <1>1
<1>2. ASSUME NEW c \in Client, RunExecOp(c) PROVE Registered'
  <2>1. /\ UNCHANGED <<record, story, base, closing>>
        /\ \A d \in Client : run'[d] = "running" => run[d] = "running"
    BY <1>2 DEF RunExecOp, RunTypes
  <2>2. QED BY <2>1
<1>3. ASSUME NEW c \in Client, ExecOne(c) PROVE Registered'
  <2>1. /\ run'[c] = "running" /\ UNCHANGED <<left, closing>> /\ record' = c
        /\ StartIsDue(c) /\ ~CloseIsDue /\ base'[c] = story'
        /\ \A d \in Client \ {c} : run'[d] = run[d]
    BY <1>3 DEF ExecOne, RunTypes
  <2>2. InLine(c)
    BY <2>1 DEF InLine, StartIsDue, Undisturbed
  <2>3. \E n \in Nat : \E line \in [1..n -> Client] : Line(n, line)
    BY DEF Ordered
  <2>4. \A d \in Client \ {c} : InLine(d) => run[d] = "queued"
    BY <2>1, <2>2, <2>3, FirstInLine
  <2>5. \A d \in Client : run[d] = "running" => InLine(d)
    BY DEF InLine, Undisturbed
  <2>6. \A d \in Client : run[d] # "running"
    BY <2>1, <2>4, <2>5 DEF StartIsDue
  <2>7. closing = None
    BY <2>1, <2>6 DEF CloseIsDue, DaemonTypes, MaybeClient
  <2>8. QED BY <2>1, <2>6, <2>7
<1>4. ASSUME NEW c \in Client, SettleRun(c) PROVE Registered'
  <2>1. /\ run[c] = "running" /\ run'[c] = "settled" /\ UNCHANGED <<record, closing>>
        /\ \A d \in Client \ {c} : run'[d] = run[d]
    BY <1>4 DEF SettleRun, RunTypes
  <2>2. \A d \in Client : run'[d] # "running"
    BY <2>1
  <2>3. QED BY <2>1, <2>2
<1>5. CASE CloseOneSession
  <2>1. UNCHANGED <<run, story, base>>
    BY <1>5 DEF CloseOneSession
  <2>2. CASE closing' = record /\ record' = record
    BY <2>1, <2>2
  <2>3. CASE Forget /\ closing' = closing /\ closing = None /\ ~(record # None /\ run[record] = "running")
    <3>1. \A c \in Client : run[c] # "running"
      BY <2>3, ConstAssumption
    <3>2. QED BY <2>1, <2>3, <3>1 DEF Forget
  <2>4. QED BY <1>5, <2>2, <2>3 DEF CloseOneSession
<1>6. CASE CloseGoesOn
  <2>1. UNCHANGED <<run, story, base>> /\ closing' = None /\ closing # None /\ run[closing] # "running"
    BY <1>6 DEF CloseGoesOn, CloseIsDue, runVars
  <2>2. \A c \in Client : run[c] # "running"
    BY <2>1
  <2>3. QED BY <2>1, <2>2
<1>7. CASE ForgetRunIfExpired
  <2>1. /\ UNCHANGED <<run, story, base, closing>> /\ record # None /\ run[record] = "settled"
        /\ ~CloseIsDue
    BY <1>7 DEF ForgetRunIfExpired, Quiet, runVars
  <2>2. closing = None
    BY <2>1 DEF CloseIsDue
  <2>3. \A c \in Client : run[c] # "running"
    BY <2>1
  <2>4. QED BY <2>1, <2>2, <2>3
<1>8. CASE Shutdown
  <2>1. closing' = None /\ \A c \in Client : run'[c] # "running"
    BY <1>8 DEF Shutdown, RunTypes
  <2>2. QED BY <2>1
<1>9. QED
  BY <1>1, <1>2, <1>3, <1>4, <1>5, <1>6, <1>7, <1>8
  DEF Next, EmitFrame, OrphanTimer, Break, GiveUp, AttachToRun, Release, InterruptSession,
      vars, runVars, daemonVars

\* The line and the registration are kept by every step.
THEOREM OrderKept == Spec => []Ordered
<1>1. ASSUME IndInv, Ordered, [Next]_vars PROVE Ordered'
  <2>1. TypeOK /\ Standing
    BY <1>1 DEF IndInv
  <2>2. QED BY <1>1, <2>1, StillUndisturbed, LineStep, RegisteredStep DEF Ordered
<1>2. QED BY Inductive, OrderedInit, <1>1, PTL DEF Spec

\* One task runs at a time until one that was queued when the session was
\* closed gets to run: a close is all that lets two of them meet, and the run
\* session_daemon_overlap shows that it does.
THEOREM OneExecUntilClose == Spec => [](Undisturbed => OneExecAtATime)
<1>1. Ordered => (Undisturbed => OneExecAtATime)
  BY DEF Ordered, Registered, OneExecAtATime
<1>2. QED BY OrderKept, <1>1, PTL

\* Until a task that a close left behind gets to run, a task that settles keeps
\* everything that the saved conversation had.
THEOREM SettlesExtend == Spec => SettleExtends
<1>1. ASSUME IndInv, Ordered, [Next]_vars
      PROVE  [\A c \in Client : Undisturbed /\ run[c] = "running" /\ run'[c] = "settled"
                => story \subseteq story']_vars
  <2>1. ASSUME NEW c \in Client, Undisturbed, run[c] = "running", run'[c] = "settled", Next
        PROVE  story \subseteq story'
    <3>1. story \subseteq base[c]
      BY <2>1, <1>1 DEF Ordered, Registered
    <3>2. run \in [Client -> {"none", "queued", "running", "settled", "gone"}]
      BY <1>1 DEF IndInv, TypeOK
    <3>3. CASE run' = run
      BY <2>1, <3>3
    <3>4. ASSUME NEW d \in Client, RunExecOp(d) \/ ExecOne(d) PROVE FALSE
      <4>1. \E now \in {"queued", "running"} : run' = run \/ run' = [run EXCEPT ![d] = now]
        BY <3>4 DEF RunExecOp, ExecOne
      <4>2. QED BY <2>1, <3>2, <4>1
    <3>5. ASSUME NEW d \in Client, SettleRun(d) PROVE story \subseteq story'
      <4>1. d = c
        BY <2>1, <3>2, <3>5 DEF SettleRun
      <4>2. QED BY <3>1, <3>5, <4>1 DEF SettleRun
    <3>6. CASE Shutdown
      BY <2>1, <3>2, <3>6 DEF Shutdown
    <3>7. QED
      BY <2>1, <3>3, <3>4, <3>5, <3>6
      DEF Next, EmitFrame, OrphanTimer, Break, GiveUp, AttachToRun, Release, InterruptSession,
          CloseOneSession, CloseGoesOn, ForgetRunIfExpired, runVars
  <2>2. QED BY <1>1, <2>1
<1>2. QED BY Inductive, OrderKept, <1>1, PTL DEF Spec, SettleExtends

-----------------------------------------------------------------------------
(***************************************************************************)
(* What UnwatchedStops and EveryExecAnswered rest on.  That a run nobody   *)
(* watches stops, and that a client that waits is answered, is for TLC;    *)
(* that there is always something that can bring it about is proved here.  *)
(***************************************************************************)

\* A run without subscribers is about to be interrupted, or has been.
Tended == \A c \in Client : run[c] = "running" /\ subs[c] = {} => timer[c] \/ aborted[c]

\* A client that waits has its own task in the queue or watches a run that runs.
Served ==
  \A c \in Client : phase[c] = "waiting" =>
    \/ link[c] = 0 /\ run[c] = "queued"
    \/ \E r \in Client : run[r] = "running" /\ <<c, link[c]>> \in subs[r]

\* A task is queued on one that has not died with its daemon, and so will the
\* next one be.
Chained ==
  /\ \A c \in Client :
       run[c] = "queued" /\ prior[c] # None => run[prior[c]] \in {"queued", "running", "settled"}
  /\ tail # None => run[tail] \in {"queued", "running"}

Attended == Tended /\ Served /\ Chained

\* Whoever drops the last subscriber of a run arms its timer.
LEMMA DropTends ==
    ASSUME RunTypes, Tended, NEW r \in Client, NEW S, Drop(r, S), UNCHANGED <<run, aborted>>
    PROVE  Tended'
<1>1. /\ subs'[r] = subs[r] \ S /\ \A c \in Client \ {r} : subs'[c] = subs[c]
      /\ \A c \in Client \ {r} : timer'[c] = timer[c]
      /\ timer'[r] = IF subs[r] \cap S # {} /\ subs[r] \subseteq S THEN TRUE ELSE timer[r]
  BY DEF Drop, RunTypes
<1>2. subs'[r] = {} => subs[r] = {} \/ (subs[r] \cap S # {} /\ subs[r] \subseteq S)
  BY <1>1
<1>3. QED BY <1>1, <1>2 DEF Tended

LEMMA TendedStep ==
    ASSUME TypeOK, Cursors, Tended, [Next]_vars
    PROVE  Tended'
<1> ClientTypes /\ RunTypes /\ DaemonTypes
  BY Types
<1> USE ConstAssumption
<1>1. CASE UNCHANGED <<run, subs, timer, aborted>>
  BY <1>1 DEF Tended
<1>2. ASSUME NEW c \in Client, RunExecOp(c) PROVE Tended'
  <2>1. UNCHANGED <<subs, timer, aborted>> /\ \A d \in Client : run'[d] = "running" => run[d] = "running"
    BY <1>2 DEF RunExecOp, RunTypes
  <2>2. QED BY <2>1 DEF Tended
<1>3. ASSUME NEW c \in Client, ExecOne(c) PROVE Tended'
  <2>1. /\ UNCHANGED <<timer, aborted>> /\ subs'[c] # {}
        /\ \A d \in Client \ {c} : run'[d] = run[d] /\ subs'[d] = subs[d]
    BY <1>3 DEF ExecOne, RunTypes
  <2>2. QED BY <2>1 DEF Tended
<1>4. ASSUME NEW c \in Client, SettleRun(c) PROVE Tended'
  <2>1. /\ run'[c] = "settled"
        /\ \A d \in Client \ {c} : /\ run'[d] = run[d] /\ subs'[d] = subs[d]
                                   /\ timer'[d] = timer[d] /\ aborted'[d] = aborted[d]
    BY <1>4 DEF SettleRun, RunTypes
  <2>2. QED BY <2>1 DEF Tended
<1>5. ASSUME NEW c \in Client, EmitFrame(c) PROVE Tended'
  BY <1>5, DropTends DEF EmitFrame
<1>6. ASSUME NEW s \in Connection, Release(s) PROVE Tended'
  <2>1. CASE record # None /\ run[record] = "running"
    BY <1>6, <2>1, DropTends DEF Release, DaemonTypes, MaybeClient
  <2>2. CASE ~(record # None /\ run[record] = "running")
    BY <1>6, <2>2 DEF Release, Tended
  <2>3. QED BY <2>1, <2>2
<1>7. ASSUME NEW c \in Client, OrphanTimer(c) PROVE Tended'
  <2>1. /\ UNCHANGED <<run, subs>>
        /\ \A d \in Client \ {c} : timer'[d] = timer[d] /\ aborted'[d] = aborted[d]
        /\ aborted'[c] <=> aborted[c] \/ (run[c] = "running" /\ subs[c] = {})
    BY <1>7 DEF OrphanTimer, RunTypes
  <2>2. QED BY <2>1 DEF Tended
<1>8. ASSUME NEW c \in Client, AttachToRun(c) PROVE Tended'
  <2>1. UNCHANGED <<run, aborted>>
    BY <1>8, Attached
  <2>2. CASE UNCHANGED <<subs, timer>>
    BY <2>1, <2>2 DEF Tended
  <2>3. CASE ~UNCHANGED <<subs, timer>>
    <3>1. /\ record \in Client
          /\ subs' = [subs EXCEPT ![record] = @ \cup {<<c, link[c] + 1>>}]
          /\ timer' = [timer EXCEPT ![record] = FALSE]
      BY <1>8, <2>3, Attached
    <3>2. /\ subs'[record] # {}
          /\ \A d \in Client \ {record} : subs'[d] = subs[d] /\ timer'[d] = timer[d]
      BY <3>1 DEF RunTypes
    <3>3. QED BY <2>1, <3>1, <3>2 DEF Tended
  <2>4. QED BY <2>2, <2>3
<1>9. CASE InterruptSession \/ CloseOneSession
  <2>1. /\ UNCHANGED <<run, subs, timer>>
        /\ aborted' = aborted \/ aborted' = [aborted EXCEPT ![record] = TRUE]
    BY <1>9 DEF InterruptSession, CloseOneSession
  <2>2. \A d \in Client : aborted[d] => aborted'[d]
    BY <2>1 DEF RunTypes
  <2>3. QED BY <2>1, <2>2 DEF Tended
<1>10. CASE Shutdown
  <2>1. \A d \in Client : run'[d] # "running"
    BY <1>10 DEF Shutdown, RunTypes
  <2>2. QED BY <2>1 DEF Tended
<1>11. QED
  BY <1>1, <1>2, <1>3, <1>4, <1>5, <1>6, <1>7, <1>8, <1>9, <1>10
  DEF Next, Break, GiveUp, CloseGoesOn, ForgetRunIfExpired, vars, runVars

\* A client that waits keeps what it waits for until it is told.
LEMMA ServedStep ==
    ASSUME TypeOK, Standing, Cursors, Served, [Next]_vars
    PROVE  Served'
<1> ClientTypes /\ RunTypes /\ DaemonTypes
  BY Types
<1> USE ConstAssumption
<1>1. CASE UNCHANGED <<phase, link, run, subs>>
  BY <1>1 DEF Served
<1>2. ASSUME NEW c \in Client, RunExecOp(c) PROVE Served'
  <2>1. /\ UNCHANGED <<link, subs>> /\ link[c] = 0 /\ run[c] = "none"
        /\ \A d \in Client \ {c} : phase'[d] = phase[d] /\ run'[d] = run[d]
        /\ phase'[c] = "waiting" => run'[c] = "queued"
    BY <1>2 DEF RunExecOp, ClientTypes, RunTypes, Standing
  <2>2. \A r \in Client : run[r] = "running" => run'[r] = "running"
    BY <2>1
  <2>3. QED BY <2>1, <2>2 DEF Served
<1>3. ASSUME NEW c \in Client, ExecOne(c) PROVE Served'
  <2>1. /\ UNCHANGED <<phase, link>> /\ run[c] = "queued" /\ run'[c] = "running"
        /\ subs'[c] = {<<c, 0>>}
        /\ \A d \in Client \ {c} : run'[d] = run[d] /\ subs'[d] = subs[d]
    BY <1>3 DEF ExecOne, StartIsDue, RunTypes
  <2>2. QED BY <2>1 DEF Served
<1>4. ASSUME NEW c \in Client, SettleRun(c) PROVE Served'
  <2>1. /\ UNCHANGED link /\ run[c] = "running"
        /\ \A d \in Client \ {c} : run'[d] = run[d] /\ subs'[d] = subs[d]
        /\ phase' = [d \in Client |-> IF d \in Reached(subs[c] \cap open) THEN "done" ELSE phase[d]]
    BY <1>4 DEF SettleRun, RunTypes
  <2>2. ASSUME NEW d \in Client, phase'[d] = "waiting"
        PROVE  phase[d] = "waiting" /\ <<d, link[d]>> \notin subs[c]
    <3>1. phase[d] = "waiting" /\ d \notin Reached(subs[c] \cap open)
      BY <2>1, <2>2
    <3>2. <<d, link[d]>> \in open
      BY <3>1 DEF Standing
    <3>3. QED BY <3>1, <3>2 DEF Reached
  <2>3. QED BY <2>1, <2>2 DEF Served
<1>5. ASSUME NEW r \in Client, NEW S, Drop(r, S), UNCHANGED <<phase, link, run>>,
             \A c \in Client : phase[c] = "waiting" => <<c, link[c]>> \notin S
      PROVE  Served'
  <2>1. subs'[r] = subs[r] \ S /\ \A c \in Client \ {r} : subs'[c] = subs[c]
    BY <1>5 DEF Drop, RunTypes
  <2>2. QED BY <1>5, <2>1 DEF Served
<1>6. ASSUME NEW c \in Client, EmitFrame(c) PROVE Served'
  <2>1. \A d \in Client : phase[d] = "waiting" => <<d, link[d]>> \notin subs[c] \ open
    BY DEF Standing
  <2>2. QED BY <1>5, <1>6, <2>1 DEF EmitFrame
<1>7. ASSUME NEW s \in Connection, Release(s) PROVE Served'
  <2>1. UNCHANGED <<phase, link, run>>
    BY <1>7 DEF Release, clientVars
  <2>2. \A c \in Client : phase[c] = "waiting" => <<c, link[c]>> \notin {s}
    BY <1>7 DEF Release, Live
  <2>3. CASE record # None /\ run[record] = "running"
    <3>1. record \in Client /\ Drop(record, {s})
      BY <1>7, <2>3 DEF Release, DaemonTypes, MaybeClient
    <3>2. QED BY <1>5, <2>1, <2>2, <3>1
  <2>4. CASE ~(record # None /\ run[record] = "running")
    BY <1>7, <2>1, <2>4 DEF Release, Served
  <2>5. QED BY <2>3, <2>4
<1>8. ASSUME NEW c \in Client, Break(c) \/ GiveUp(c) PROVE Served'
  <2>1. /\ UNCHANGED <<link, run, subs>> /\ phase'[c] # "waiting"
        /\ \A d \in Client \ {c} : phase'[d] = phase[d]
    BY <1>8 DEF Break, GiveUp, runVars, ClientTypes
  <2>2. QED BY <2>1 DEF Served
<1>9. ASSUME NEW c \in Client, AttachToRun(c) PROVE Served'
  <2>1. /\ UNCHANGED run
        /\ link'[c] = link[c] + 1 /\ \A d \in Client \ {c} : link'[d] = link[d]
    BY <1>9, Attached
  <2>2. \/ phase'[c] # "waiting" /\ UNCHANGED subs
        \/ /\ record \in Client /\ run[record] = "running"
           /\ subs' = [subs EXCEPT ![record] = @ \cup {<<c, link[c] + 1>>}]
    <3>1. \/ /\ \E end \in {"failed", "done"} : phase' = [phase EXCEPT ![c] = end]
             /\ UNCHANGED subs
          \/ /\ record \in Client /\ run[record] = "running"
             /\ subs' = [subs EXCEPT ![record] = @ \cup {<<c, link[c] + 1>>}]
      BY <1>9, Attached
    <3>2. QED BY <3>1 DEF ClientTypes
  <2>3. \A d \in Client \ {c} : phase'[d] = phase[d]
    <3>1. \E now \in {"failed", "done", "waiting"} : phase' = [phase EXCEPT ![c] = now]
      BY <1>9, Attached
    <3>2. QED BY <3>1 DEF ClientTypes
  <2>4. \A r \in Client : subs[r] \subseteq subs'[r]
    BY <2>2 DEF RunTypes
  <2>5. phase'[c] = "waiting" => \E r \in Client : run[r] = "running" /\ <<c, link'[c]>> \in subs'[r]
    BY <2>1, <2>2 DEF RunTypes
  <2>6. QED BY <2>1, <2>3, <2>4, <2>5 DEF Served
<1>10. CASE Shutdown
  <2>1. \A d \in Client : phase'[d] # "waiting"
    BY <1>10 DEF Shutdown, ClientTypes
  <2>2. QED BY <2>1 DEF Served
<1>11. QED
  BY <1>1, <1>2, <1>3, <1>4, <1>6, <1>7, <1>8, <1>9, <1>10
  DEF Next, OrphanTimer, InterruptSession, CloseOneSession, CloseGoesOn, ForgetRunIfExpired,
      vars, clientVars, runVars, daemonVars

\* The chain goes on from task to task until its end settles, and is dropped
\* as a whole when the session is closed or the daemon dies.
LEMMA ChainedStep ==
    ASSUME TypeOK, Standing, Chained, [Next]_vars
    PROVE  Chained'
<1> ClientTypes /\ RunTypes /\ DaemonTypes
  BY Types
<1> USE ConstAssumption DEF MaybeClient
<1>1. CASE UNCHANGED <<run, prior, tail>>
  BY <1>1 DEF Chained
<1>2. ASSUME NEW c \in Client, RunExecOp(c) PROVE Chained'
  <2>1. run[c] = "none"
    BY <1>2 DEF RunExecOp, Standing
  <2>2. CASE UNCHANGED <<run, prior, tail>>
    BY <2>2 DEF Chained
  <2>3. CASE /\ run' = [run EXCEPT ![c] = "queued"]
             /\ prior' = [prior EXCEPT ![c] = tail] /\ tail' = c
    <3>1. /\ run'[c] = "queued" /\ prior'[c] = tail
          /\ \A d \in Client \ {c} : run'[d] = run[d] /\ prior'[d] = prior[d]
      BY <2>3 DEF RunTypes
    <3>2. \A d \in Client : prior[d] \in MaybeClient /\ tail \in MaybeClient
      BY DEF RunTypes, DaemonTypes
    <3>3. QED BY <2>1, <2>3, <3>1, <3>2 DEF Chained
  <2>4. QED BY <1>2, <2>2, <2>3 DEF RunExecOp
<1>3. ASSUME NEW c \in Client, ExecOne(c) \/ SettleRun(c) PROVE Chained'
  <2>1. /\ UNCHANGED prior /\ \A d \in Client \ {c} : run'[d] = run[d]
        /\ run'[c] \in {"running", "settled"} /\ run'[c] # run[c]
        /\ run[c] \in {"queued", "running"}
        /\ run'[c] = "settled" => tail' = IF tail = c THEN None ELSE tail
        /\ run'[c] = "running" => tail' = tail
    BY <1>3 DEF ExecOne, SettleRun, StartIsDue, RunTypes
  <2>2. \A d \in Client : prior[d] \in MaybeClient /\ tail \in MaybeClient
    BY DEF RunTypes, DaemonTypes
  <2>3. \A d \in Client : run[d] \in {"queued", "running", "settled"} => run'[d] \in {"queued", "running", "settled"}
    BY <2>1
  <2>4. tail' # None => tail' = tail /\ run'[tail] \in {"queued", "running"}
    BY <2>1, <2>2 DEF Chained
  <2>5. ASSUME NEW d \in Client, run'[d] = "queued", prior[d] # None
        PROVE  run'[prior[d]] \in {"queued", "running", "settled"}
    <3>1. run[d] = "queued" /\ prior[d] \in Client
      BY <2>1, <2>2, <2>5
    <3>2. QED BY <2>3, <2>5, <3>1 DEF Chained
  <2>6. QED BY <2>1, <2>4, <2>5 DEF Chained
<1>4. CASE UNCHANGED <<run, prior>> /\ tail' = None
  BY <1>4 DEF Chained
<1>5. CASE CloseOneSession \/ CloseGoesOn
  BY <1>1, <1>4, <1>5 DEF CloseOneSession, CloseGoesOn, Forget, runVars
<1>6. CASE Shutdown
  <2>1. tail' = None /\ \A d \in Client : run'[d] # "queued"
    BY <1>6 DEF Shutdown, RunTypes
  <2>2. QED BY <2>1 DEF Chained
<1>7. QED
  BY <1>1, <1>2, <1>3, <1>5, <1>6
  DEF Next, EmitFrame, OrphanTimer, Break, GiveUp, AttachToRun, Release, InterruptSession,
      ForgetRunIfExpired, vars, runVars, daemonVars

\* Nothing is forgotten: a run that nobody watches has its orphan timer armed or
\* its abort on the way (dropSubscriber, armOrphanTimer), a client that waits is
\* in the queue or on the list of subscribers of a run that goes on (execOne,
\* attachToRun, settleRun), and no task is chained to one that will not settle.
THEOREM NothingForgotten == Spec => []Attended
<1>1. Init => Attended
  BY DEF Init, Attended, Tended, Served, Chained
<1>2. ASSUME IndInv, Attended, [Next]_vars PROVE Attended'
  BY <1>2, TendedStep, ServedStep, ChainedStep DEF IndInv, Attended
<1>3. QED BY Inductive, <1>1, <1>2, PTL DEF Spec
=============================================================================
