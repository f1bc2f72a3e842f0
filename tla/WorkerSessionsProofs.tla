------------------------ MODULE WorkerSessionsProofs ------------------------
(***************************************************************************)
(* Proofs about the worker's sessions and their pages, for any sessions    *)
(* and any number of refused commands.  The lemmas about the queue of one  *)
(* page come first, then what each step does to a page, then the sessions. *)
(***************************************************************************)
EXTENDS WorkerSessions, SequenceTheorems, TLAPS

\* What a job at the end of a page's queue changes about that queue.
LEMMA QueueGrows ==
    ASSUME ParkTypeOK, NEW p \in Page, NEW who \in Caller,
           chain' = [chain EXCEPT ![p] = Append(@, who)]
    PROVE  /\ chain' \in [Page -> Seq(Caller)]
           /\ chain'[p] # <<>>
           /\ WakerFrom(p, 1) => WakerFrom(p, 1)'
           /\ WakerFrom(p, 2) => WakerFrom(p, 2)'
           /\ who # "park" => WakerFrom(p, 1)'
           /\ who # "park" /\ chain[p] # <<>> => WakerFrom(p, 2)'
           /\ \A x \in Caller : Queued(p, x)' => Queued(p, x) \/ x = who
<1> DEFINE c == chain[p]
           d == chain'[p]
           n == Len(c)
<1>1. c \in Seq(Caller) /\ d = Append(c, who)
  BY DEF ParkTypeOK
<1>2. /\ d \in Seq(Caller) /\ Len(d) = n + 1 /\ n \in Nat
      /\ \A i \in 1 .. n : d[i] = c[i]
      /\ d[n + 1] = who
  BY <1>1, AppendProperties, LenProperties
<1>3. DOMAIN c = 1 .. n /\ DOMAIN d = 1 .. n + 1
  BY <1>1, <1>2, LenProperties
<1>4. d # <<>> /\ (c # <<>> => n >= 1)
  <2>1. Len(<<>>) = 0
    OBVIOUS
  <2>2. c # <<>> => n # 0
    BY <1>1, EmptySeq, Zenon
  <2>3. QED BY <1>2, <2>1, <2>2
<1>5. chain' \in [Page -> Seq(Caller)]
  BY <1>1, <1>2 DEF ParkTypeOK
<1> HIDE DEF c, d, n
<1>6. ASSUME NEW i \in {1, 2}, \E j \in DOMAIN c : j >= i /\ c[j] \in {"execution", "view"}
      PROVE  \E j \in DOMAIN d : j >= i /\ d[j] \in {"execution", "view"}
  <2>1. PICK j \in 1 .. n : j >= i /\ c[j] \in {"execution", "view"}
    BY <1>3, <1>6
  <2>2. j \in 1 .. n + 1 /\ d[j] = c[j]
    BY <1>2
  <2>3. QED BY <1>3, <2>1, <2>2
<1>7. who # "park" => who \in {"execution", "view"}
  BY DEF Caller
<1>8. n + 1 \in DOMAIN d /\ n + 1 >= 1 /\ (c # <<>> => n + 1 >= 2)
  BY <1>2, <1>3, <1>4
<1>9. ASSUME NEW x \in Caller, \E i \in DOMAIN d : d[i] = x
      PROVE  (\E i \in DOMAIN c : c[i] = x) \/ x = who
  <2>1. PICK i \in 1 .. n + 1 : d[i] = x
    BY <1>3, <1>9
  <2>2. i \in 1 .. n \/ i = n + 1
    BY <1>2
  <2>3. QED BY <1>2, <1>3, <2>1, <2>2
<1>10. QED BY <1>2, <1>4, <1>5, <1>6, <1>7, <1>8, <1>9 DEF WakerFrom, Queued, c, d

\* What the end of its oldest job changes about a page's queue.
LEMMA QueueShrinks ==
    ASSUME ParkTypeOK, NEW p \in Page, chain[p] # <<>>,
           chain' = [chain EXCEPT ![p] = Tail(@)]
    PROVE  /\ chain' \in [Page -> Seq(Caller)]
           /\ WakerFrom(p, 2) => WakerFrom(p, 1)'
           /\ \A x \in Caller : Queued(p, x)' => Queued(p, x)
<1> DEFINE c == chain[p]
           d == chain'[p]
           n == Len(c)
<1>1. c \in Seq(Caller) /\ c # <<>> /\ d = Tail(c)
  BY DEF ParkTypeOK
<1>2. /\ d \in Seq(Caller) /\ Len(d) = n - 1 /\ n \in Nat
      /\ \A i \in 1 .. Len(d) : d[i] = c[i + 1]
  BY <1>1, HeadTailProperties, LenProperties
<1>3. DOMAIN c = 1 .. n /\ DOMAIN d = 1 .. n - 1
  BY <1>1, <1>2, LenProperties
<1>4. chain' \in [Page -> Seq(Caller)]
  BY <1>1, <1>2 DEF ParkTypeOK
<1> HIDE DEF c, d, n
<1>5. ASSUME \E j \in DOMAIN c : j >= 2 /\ c[j] \in {"execution", "view"}
      PROVE  \E j \in DOMAIN d : j >= 1 /\ d[j] \in {"execution", "view"}
  <2>1. PICK j \in 1 .. n : j >= 2 /\ c[j] \in {"execution", "view"}
    BY <1>3, <1>5
  <2>2. j - 1 \in 1 .. n - 1 /\ (j - 1) + 1 = j
    BY <1>2, <2>1
  <2>3. d[j - 1] = c[j]
    BY <1>2, <2>2
  <2>4. QED BY <1>3, <2>1, <2>2, <2>3
<1>6. ASSUME NEW x \in Caller, \E i \in DOMAIN d : d[i] = x
      PROVE  \E i \in DOMAIN c : c[i] = x
  <2>1. PICK i \in 1 .. n - 1 : d[i] = x
    BY <1>3, <1>6
  <2>2. i + 1 \in 1 .. n /\ d[i] = c[i + 1]
    BY <1>2, <2>1
  <2>3. QED BY <1>3, <2>1, <2>2
<1>7. QED BY <1>4, <1>5, <1>6 DEF WakerFrom, Queued, c, d

\* A queue nobody touched.
LEMMA QueueSame ==
    ASSUME NEW p \in Page, chain'[p] = chain[p]
    PROVE  /\ WakerFrom(p, 1)' <=> WakerFrom(p, 1)
           /\ WakerFrom(p, 2)' <=> WakerFrom(p, 2)
           /\ \A x \in Caller : Queued(p, x)' <=> Queued(p, x)
BY DEF WakerFrom, Queued

\* A page nobody touched.
LEMMA PageSame ==
    ASSUME NEW p \in Page, Driven(p),
           desired'[p] = desired[p], applied'[p] = applied[p], failed'[p] = failed[p],
           chain'[p] = chain[p], at'[p] = at[p], frozen'[p] = frozen[p],
           paused'[p] = paused[p]
    PROVE  Driven(p)'
BY QueueSame DEF Driven

\* A caller keeps the types, and every page driven.
LEMMA CallerStep ==
    ASSUME ParkTypeOK, \A q \in Page : Driven(q), NEW p \in Page, NEW who \in Caller \ {"park"},
           Park(p) \/ Unpark(p, who)
    PROVE  ParkTypeOK' /\ \A q \in Page : Driven(q)'
<1>1. CASE UNCHANGED parkVars
  BY <1>1, PageSame DEF parkVars, ParkTypeOK
<1>2. CASE /\ desired' = [desired EXCEPT ![p] = "parked"]
           /\ chain' = [chain EXCEPT ![p] = Append(@, "park")]
           /\ UNCHANGED <<applied, failed, at, frozen, paused, refused>>
  <2>1. "park" \in Caller
    BY DEF Caller
  <2>2. chain' \in [Page -> Seq(Caller)] /\ chain'[p] # <<>>
    BY <1>2, <2>1, QueueGrows
  <2>3. ParkTypeOK'
    BY <1>2, <2>2 DEF ParkTypeOK
  <2>4. Driven(p)'
    BY <1>2, <2>2 DEF ParkTypeOK, Driven
  <2>5. \A q \in Page \ {p} : Driven(q)'
    BY <1>2, PageSame DEF ParkTypeOK
  <2>6. QED BY <2>3, <2>4, <2>5
<1>3. CASE /\ desired' = [desired EXCEPT ![p] = "active"]
           /\ chain' = [chain EXCEPT ![p] = Append(@, who)]
           /\ UNCHANGED <<applied, failed, at, frozen, paused, refused>>
  <2>1. /\ chain' \in [Page -> Seq(Caller)] /\ chain'[p] # <<>>
        /\ WakerFrom(p, 1)' /\ (chain[p] # <<>> => WakerFrom(p, 2)')
    BY <1>3, QueueGrows
  <2>2. ParkTypeOK'
    BY <1>3, <2>1 DEF ParkTypeOK
  <2>3. Driven(p)'
    BY <1>3, <2>1 DEF Driven
  <2>4. \A q \in Page \ {p} : Driven(q)'
    BY <1>3, PageSame DEF ParkTypeOK
  <2>5. QED BY <2>2, <2>3, <2>4
<1>4. QED BY <1>1, <1>2, <1>3 DEF Park, Unpark

\* So does the end of a page.
LEMMA CloseStep ==
    ASSUME ParkTypeOK, \A q \in Page : Driven(q), NEW p \in Page, ClosePage(p)
    PROVE  ParkTypeOK' /\ (\A q \in Page : Driven(q)') /\ Fresh(p)'
<1>1. <<>> \in Seq(Caller)
  OBVIOUS
<1>2. ParkTypeOK'
  BY <1>1 DEF ClosePage, ParkTypeOK, Stage
<1>3. Fresh(p)'
  BY DEF ClosePage, ParkTypeOK, Fresh
<1>4. Driven(p)'
  BY <1>3 DEF Fresh, Driven
<1>5. \A q \in Page \ {p} : Driven(q)'
  BY PageSame DEF ClosePage, ParkTypeOK
<1>6. QED BY <1>2, <1>3, <1>4, <1>5

\* A job that stays in its queue: the types, and every page driven.
LEMMA JobGoesOn ==
    ASSUME ParkTypeOK, \A q \in Page : Driven(q), NEW p \in Page,
           JobBegins(p) \/ AnimationsPaused(p) \/ PageThawed(p)
    PROVE  ParkTypeOK' /\ \A q \in Page : Driven(q)'
<1>1. ParkTypeOK'
  BY DEF JobBegins, AnimationsPaused, PageThawed, ParkTypeOK, Stage
<1>2. chain' = chain /\ desired' = desired /\ failed' = failed /\ applied' = applied
  BY DEF JobBegins, AnimationsPaused, PageThawed
<1>3. Driven(p)'
  <2> USE <1>2, QueueSame DEF ParkTypeOK, Driven
  <2>1. CASE JobBegins(p)
    BY <2>1 DEF JobBegins
  <2>2. CASE AnimationsPaused(p)
    BY <2>2 DEF AnimationsPaused
  <2>3. CASE PageThawed(p)
    BY <2>3 DEF PageThawed
  <2>4. QED BY <2>1, <2>2, <2>3
<1>4. \A q \in Page \ {p} : Driven(q)'
  BY <1>2, PageSame DEF JobBegins, AnimationsPaused, PageThawed, ParkTypeOK
<1>5. QED BY <1>1, <1>3, <1>4

\* The end of a job, whether its last command was accepted or one refused.
LEMMA JobIsOver ==
    ASSUME ParkTypeOK, \A q \in Page : Driven(q), NEW p \in Page, Refusals \in Nat,
           JobIdle(p) \/ PageFrozen(p) \/ AnimationsResumed(p) \/ CommandRefused(p)
    PROVE  ParkTypeOK' /\ \A q \in Page : Driven(q)'
<1>1. /\ chain[p] # <<>> /\ chain' = [chain EXCEPT ![p] = Tail(@)]
      /\ at' = [at EXCEPT ![p] = "queued"] /\ desired' = desired
  BY DEF JobIdle, PageFrozen, AnimationsResumed, CommandRefused, JobEnds, Driven
<1>2. chain' \in [Page -> Seq(Caller)] /\ (WakerFrom(p, 2) => WakerFrom(p, 1)')
  BY <1>1, QueueShrinks
<1>3. ParkTypeOK'
  <2>1. at' \in [Page -> Stage] /\ desired' \in [Page -> {"active", "parked"}]
    BY <1>1 DEF ParkTypeOK, Stage
  <2>2. /\ applied' \in [Page -> {"active", "parked"}]
        /\ failed' \in [Page -> BOOLEAN]
        /\ frozen' \in [Page -> BOOLEAN] /\ paused' \in [Page -> BOOLEAN]
    BY DEF JobIdle, PageFrozen, AnimationsResumed, CommandRefused, ParkTypeOK
  <2>3. refused' \in 0 .. Refusals
    BY DEF JobIdle, PageFrozen, AnimationsResumed, CommandRefused, ParkTypeOK
  <2>4. QED BY <1>2, <2>1, <2>2, <2>3 DEF ParkTypeOK
<1>4. Driven(p)'
  <2> USE <1>1, <1>2 DEF ParkTypeOK, Driven
  <2>1. CASE JobIdle(p)
    BY <2>1 DEF JobIdle
  <2>2. CASE PageFrozen(p)
    BY <2>2 DEF PageFrozen
  <2>3. CASE AnimationsResumed(p)
    BY <2>3 DEF AnimationsResumed
  <2>4. CASE CommandRefused(p)
    BY <2>4 DEF CommandRefused
  <2>5. QED BY <2>1, <2>2, <2>3, <2>4
<1>5. \A q \in Page \ {p} : Driven(q)'
  BY <1>1, PageSame DEF JobIdle, PageFrozen, AnimationsResumed, CommandRefused, ParkTypeOK
<1>6. QED BY <1>3, <1>4, <1>5

\* No job wants anything by itself, adds to a queue or finds an untouched page.
LEMMA JobModest ==
    ASSUME ParkTypeOK, \A q \in Page : Driven(q), NEW p \in Page,
           \/ JobIdle(p) \/ JobBegins(p) \/ AnimationsPaused(p) \/ PageFrozen(p)
           \/ PageThawed(p) \/ AnimationsResumed(p) \/ CommandRefused(p)
    PROVE  /\ desired' = desired
           /\ \A q \in Page : Fresh(q) => Fresh(q)'
           /\ \A q \in Page, x \in Caller : Queued(q, x)' => Queued(q, x)
<1>1. chain[p] # <<>> /\ desired' = desired
  BY DEF JobIdle, JobBegins, AnimationsPaused, PageFrozen, PageThawed,
     AnimationsResumed, CommandRefused, Driven
<1>2. \/ chain' = chain
      \/ chain' = [chain EXCEPT ![p] = Tail(@)]
  BY DEF JobIdle, JobBegins, AnimationsPaused, PageFrozen, PageThawed,
     AnimationsResumed, CommandRefused, JobEnds
<1>3. \A q \in Page \ {p} : chain'[q] = chain[q]
  BY <1>2 DEF ParkTypeOK
<1>4. ASSUME NEW q \in Page, NEW x \in Caller, Queued(q, x)' PROVE Queued(q, x)
  <2>1. CASE chain'[q] = chain[q]
    BY <1>4, <2>1, QueueSame
  <2>2. CASE q = p /\ chain' = [chain EXCEPT ![p] = Tail(@)]
    BY <1>1, <1>4, <2>2, QueueShrinks
  <2>3. QED BY <1>2, <1>3, <2>1, <2>2
<1>5. ASSUME NEW q \in Page, Fresh(q) PROVE Fresh(q)'
  <2>1. q # p
    BY <1>1, <1>5 DEF Fresh
  <2>2. QED
    BY <1>3, <1>5, <2>1 DEF JobIdle, JobBegins, AnimationsPaused, PageFrozen, PageThawed,
       AnimationsResumed, CommandRefused, JobEnds, Fresh, ParkTypeOK
<1>6. QED BY <1>1, <1>4, <1>5

\* A wake-up wants one page awake and queues at most its own job.
LEMMA WakeEffect ==
    ASSUME ParkTypeOK, NEW p \in Page, NEW who \in Caller \ {"park"}, Unpark(p, who)
    PROVE  /\ desired' = [desired EXCEPT ![p] = "active"]
           /\ \A q \in Page \ {p} : Fresh(q) => Fresh(q)'
           /\ \A q \in Page, x \in Caller :
                 Queued(q, x)' => Queued(q, x) \/ (q = p /\ x = who)
<1>1. CASE UNCHANGED parkVars /\ desired[p] = "active"
  <2>1. \A q \in Page, x \in Caller : Queued(q, x)' <=> Queued(q, x)
    BY <1>1, QueueSame DEF parkVars
  <2>2. QED BY <1>1, <2>1 DEF parkVars, ParkTypeOK, Fresh
<1>2. CASE /\ desired' = [desired EXCEPT ![p] = "active"]
           /\ chain' = [chain EXCEPT ![p] = Append(@, who)]
           /\ UNCHANGED <<applied, failed, at, frozen, paused, refused>>
  <2>1. \A q \in Page \ {p} : chain'[q] = chain[q] /\ desired'[q] = desired[q]
    BY <1>2 DEF ParkTypeOK
  <2>2. \A q \in Page \ {p} : Fresh(q) => Fresh(q)'
    BY <1>2, <2>1 DEF Fresh
  <2>3. ASSUME NEW q \in Page, NEW x \in Caller, Queued(q, x)'
        PROVE  Queued(q, x) \/ (q = p /\ x = who)
    <3>1. CASE q = p
      BY <1>2, <2>3, <3>1, QueueGrows
    <3>2. CASE q # p
      BY <2>1, <2>3, <3>2, QueueSame
    <3>3. QED BY <3>1, <3>2
  <2>4. QED BY <1>2, <2>2, <2>3
<1>3. QED BY <1>1, <1>2 DEF Unpark

\* A park touches one page and queues no wake-up.
LEMMA ParkEffect ==
    ASSUME ParkTypeOK, NEW p \in Page, Park(p)
    PROVE  /\ \A q \in Page \ {p} : desired'[q] = desired[q] /\ (Fresh(q) => Fresh(q)')
           /\ \A q \in Page : Queued(q, "execution")' => Queued(q, "execution")
<1>1. CASE UNCHANGED parkVars
  <2>1. \A q \in Page, x \in Caller : Queued(q, x)' <=> Queued(q, x)
    BY <1>1, QueueSame DEF parkVars
  <2>2. QED BY <1>1, <2>1 DEF parkVars, Fresh, Caller
<1>2. CASE /\ desired' = [desired EXCEPT ![p] = "parked"]
           /\ chain' = [chain EXCEPT ![p] = Append(@, "park")]
           /\ UNCHANGED <<applied, failed, at, frozen, paused, refused>>
  <2>1. \A q \in Page \ {p} : chain'[q] = chain[q] /\ desired'[q] = desired[q]
    BY <1>2 DEF ParkTypeOK
  <2>2. "park" \in Caller /\ "execution" \in Caller /\ "execution" # "park"
    BY DEF Caller
  <2>3. ASSUME NEW q \in Page, Queued(q, "execution")' PROVE Queued(q, "execution")
    <3>1. CASE q = p
      BY <1>2, <2>2, <2>3, <3>1, QueueGrows
    <3>2. CASE q # p
      BY <2>1, <2>2, <2>3, <3>2, QueueSame
    <3>3. QED BY <3>1, <3>2
  <2>4. QED BY <1>2, <2>1, <2>3 DEF Fresh
<1>3. QED BY <1>1, <1>2 DEF Park

\* What is true of a page stays so while nobody touches any.
LEMMA PagesSame ==
    ASSUME UNCHANGED parkVars
    PROVE  /\ ParkTypeOK => ParkTypeOK'
           /\ \A p \in Page : Driven(p) => Driven(p)'
           /\ \A p \in Page : Fresh(p) <=> Fresh(p)'
           /\ \A p \in Page, x \in Caller : Queued(p, x)' <=> Queued(p, x)
           /\ desired' = desired
BY PageSame, QueueSame DEF parkVars, ParkTypeOK, Fresh
-----------------------------------------------------------------------------
\* Every step of the worker keeps the pages well formed and driven.
LEMMA DrivenStep ==
    ASSUME ParkTypeOK, \A p \in Page : Driven(p), [Next]_vars
    PROVE  ParkTypeOK' /\ \A p \in Page : Driven(p)'
<1> USE SessionAssumption
<1>1. ASSUME NEW s \in Session, Begin(s) \/ ViewWakes(s)
      PROVE  ParkTypeOK' /\ \A p \in Page : Driven(p)'
  <2>1. PICK who \in {"execution", "view"} : UNCHANGED parkVars \/ Unpark(s, who)
    BY <1>1 DEF Begin, ViewWakes
  <2>2. QED BY <2>1, CallerStep, PagesSame DEF Caller
<1>2. ASSUME NEW s \in Session, TimerFires(s)
      PROVE  ParkTypeOK' /\ \A p \in Page : Driven(p)'
  <2>1. "view" \in Caller \ {"park"}
    BY DEF Caller
  <2>2. UNCHANGED parkVars \/ Park(s)
    BY <1>2 DEF TimerFires
  <2>3. QED BY <2>1, <2>2, CallerStep, PagesSame
<1>3. ASSUME NEW s \in Session, Reap(s) \/ CloseSession(s)
      PROVE  ParkTypeOK' /\ \A p \in Page : Driven(p)'
  BY <1>3, CloseStep DEF Reap, CloseSession, Forget
<1>4. ASSUME NEW s \in Session, ParkStep(s)
      PROVE  ParkTypeOK' /\ \A p \in Page : Driven(p)'
  BY <1>4, JobGoesOn, JobIsOver DEF ParkStep
<1>5. ASSUME NEW s \in Session, RunSnippet(s) \/ SnippetAsks(s) \/ Finish(s)
      PROVE  UNCHANGED parkVars
  BY <1>5 DEF RunSnippet, SnippetAsks, Finish
<1>6. ASSUME NEW k \in Kind, WaitEnds(k) \/ \E s \in Asked : WaitBegins(k, s) \/ WaitRefused(k, s)
      PROVE  UNCHANGED parkVars
  BY <1>6 DEF WaitEnds, WaitBegins, WaitRefused
<1>7. ViewStart \/ ViewListens \/ ViewStop => UNCHANGED parkVars
  BY DEF ViewStart, ViewListens, ViewStop
<1>8. UNCHANGED vars => UNCHANGED parkVars
  BY DEF vars
<1>9. QED
  BY <1>1, <1>2, <1>3, <1>4, <1>5, <1>6, <1>7, <1>8, PagesSame DEF Next

\* Every step keeps the worker's tables well formed.
LEMMA TypeStep ==
    ASSUME TypeOK, ParkTypeOK', Undisturbed, [Next]_vars
    PROVE  TypeOK'
<1> USE SessionAssumption DEF TypeOK, execVars, waitVars, viewVars
<1>1. ASSUME NEW s \in Session, Begin(s) \/ RunSnippet(s) \/ SnippetAsks(s) \/ Finish(s) \/ TimerFires(s)
      PROVE  TypeOK'
  <2>1. CASE Begin(s)
    BY <2>1 DEF Begin
  <2>2. CASE RunSnippet(s)
    <3>1. s \in known
      BY <2>2 DEF RunSnippet, Undisturbed, Executing
    <3>2. QED BY <2>2, <3>1 DEF RunSnippet
  <2>3. CASE SnippetAsks(s)
    BY <2>3 DEF SnippetAsks
  <2>4. CASE Finish(s) \/ TimerFires(s)
    BY <2>4 DEF Finish, TimerFires
  <2>5. QED BY <1>1, <2>1, <2>2, <2>3, <2>4
<1>2. ASSUME NEW s \in Session, Reap(s) \/ CloseSession(s) PROVE TypeOK'
  BY <1>2 DEF Reap, CloseSession, Forget
<1>3. ASSUME NEW s \in Session, ParkStep(s) PROVE TypeOK'
  BY <1>3 DEF ParkStep, workerVars
<1>4. CASE ViewStart \/ ViewListens \/ ViewStop \/ \E s \in Session : ViewWakes(s)
  BY <1>4 DEF ViewStart, ViewListens, ViewStop, ViewWakes
<1>5. ASSUME NEW k \in Kind, WaitEnds(k) \/ \E s \in Asked : WaitBegins(k, s) \/ WaitRefused(k, s)
      PROVE TypeOK'
  <2>1. ASSUME NEW s \in Asked, WaitBegins(k, s) PROVE TypeOK'
    BY <2>1 DEF WaitBegins
  <2>2. ASSUME NEW s \in Asked, WaitRefused(k, s) PROVE TypeOK'
    BY <2>2 DEF WaitRefused, LetGo
  <2>3. CASE WaitEnds(k) /\ wait[k] = Gone
    BY <2>3 DEF WaitEnds
  <2>4. CASE WaitEnds(k) /\ wait[k] # Gone
    <3>1. wait[k] \in Session
      BY <2>4 DEF WaitEnds
    <3>2. QED BY <2>4, <3>1 DEF WaitEnds, LetGo
  <2>5. QED BY <1>5, <2>1, <2>2, <2>3, <2>4
<1>6. CASE UNCHANGED vars
  BY <1>6 DEF vars
<1>7. QED BY <1>1, <1>2, <1>3, <1>4, <1>5, <1>6 DEF Next

\* A lone wait keeps its hold.
LEMMA HoldStep ==
    ASSUME TypeOK, LoneWaitHolds, [Next]_vars
    PROVE  LoneWaitHolds'
<1> USE SessionAssumption DEF TypeOK, LoneWaitHolds, Waits, Kind, execVars, waitVars, viewVars
<1>1. ASSUME NEW s \in Session, Begin(s) \/ RunSnippet(s) \/ SnippetAsks(s) \/ Finish(s) \/ TimerFires(s)
      PROVE  LoneWaitHolds'
  BY <1>1 DEF Begin, RunSnippet, SnippetAsks, Finish, TimerFires
<1>2. ASSUME NEW s \in Session, Reap(s) \/ CloseSession(s) PROVE LoneWaitHolds'
  BY <1>2 DEF Reap, CloseSession, Forget
<1>3. ASSUME NEW s \in Session, ParkStep(s) PROVE LoneWaitHolds'
  BY <1>3 DEF ParkStep, workerVars
<1>4. CASE ViewStart \/ ViewListens \/ \E s \in Session : ViewWakes(s)
  BY <1>4 DEF ViewStart, ViewListens, ViewWakes
<1>5. CASE ViewStop
  BY <1>5 DEF ViewStop
<1>6. ASSUME NEW k \in Kind, NEW s \in Asked, WaitBegins(k, s) \/ WaitRefused(k, s)
      PROVE  LoneWaitHolds'
  BY <1>6 DEF WaitBegins, WaitRefused, LetGo
<1>7. ASSUME NEW k \in Kind, WaitEnds(k) PROVE LoneWaitHolds'
  BY <1>7 DEF WaitEnds, LetGo
<1>8. CASE UNCHANGED vars
  BY <1>8 DEF vars
<1>9. QED BY <1>1, <1>2, <1>3, <1>4, <1>5, <1>6, <1>7, <1>8 DEF Next

\* Pages that are not open stay untouched, and timers belong to known sessions.
LEMMA OpenedStep ==
    ASSUME TypeOK, \A p \in Page : Driven(p), Undisturbed, Opened, [Next]_vars
    PROVE  Opened'
<1> USE SessionAssumption DEF TypeOK, Opened, execVars, waitVars, viewVars
<1>1. ASSUME NEW s \in Session, Begin(s) \/ ViewWakes(s) PROVE Opened'
  <2>1. /\ timer' \subseteq known' /\ open' = open
        /\ \/ s \in open /\ \E who \in {"execution", "view"} : Unpark(s, who)
           \/ UNCHANGED parkVars
    BY <1>1 DEF Begin, ViewWakes
  <2>2. CASE UNCHANGED parkVars
    BY <2>1, <2>2, PagesSame
  <2>3. ASSUME s \in open, NEW who \in {"execution", "view"}, Unpark(s, who) PROVE Opened'
    BY <2>1, <2>3, WakeEffect DEF Caller
  <2>4. QED BY <2>1, <2>2, <2>3
<1>2. ASSUME NEW s \in Session, RunSnippet(s) \/ SnippetAsks(s) \/ Finish(s) PROVE Opened'
  <2>1. UNCHANGED parkVars /\ open \subseteq open' /\ known' = known
    BY <1>2 DEF RunSnippet, SnippetAsks, Finish
  <2>2. timer' \subseteq known'
    BY <1>2 DEF RunSnippet, SnippetAsks, Finish, Undisturbed, Executing
  <2>3. QED BY <2>1, <2>2, PagesSame
<1>3. ASSUME NEW s \in Session, TimerFires(s) PROVE Opened'
  <2>1. /\ timer' \subseteq known' /\ open' = open
        /\ (s \in open /\ Park(s)) \/ UNCHANGED parkVars
    BY <1>3 DEF TimerFires
  <2>2. CASE UNCHANGED parkVars
    BY <2>1, <2>2, PagesSame
  <2>3. CASE s \in open /\ Park(s)
    BY <2>1, <2>3, ParkEffect
  <2>4. QED BY <2>1, <2>2, <2>3
<1>4. ASSUME NEW s \in Session, Reap(s) \/ CloseSession(s) PROVE Opened'
  <2>1. /\ ClosePage(s) /\ open' = open \ {s} /\ timer' = timer \ {s} /\ known' = known \ {s}
    BY <1>4 DEF Reap, CloseSession, Forget
  <2>2. Fresh(s)'
    BY <2>1, CloseStep
  <2>3. \A r \in Session \ {s} : Fresh(r) => Fresh(r)'
    BY <2>1 DEF ClosePage, Fresh, ParkTypeOK
  <2>4. QED BY <2>1, <2>2, <2>3
<1>5. ASSUME NEW s \in Session, ParkStep(s) PROVE Opened'
  <2>1. \A r \in Session : Fresh(r) => Fresh(r)'
    BY <1>5, JobModest DEF ParkStep
  <2>2. UNCHANGED <<timer, known, open>>
    BY <1>5 DEF ParkStep, workerVars
  <2>3. QED BY <2>1, <2>2
<1>6. ASSUME NEW k \in Kind, WaitEnds(k) \/ \E s \in Asked : WaitBegins(k, s) \/ WaitRefused(k, s)
      PROVE  UNCHANGED <<parkVars, timer, open>> /\ known \subseteq known'
  BY <1>6 DEF WaitEnds, WaitBegins, WaitRefused
<1>7. ViewStart \/ ViewListens \/ ViewStop \/ UNCHANGED vars => UNCHANGED <<parkVars, timer, open, known>>
  BY DEF ViewStart, ViewListens, ViewStop, vars
<1>8. UNCHANGED <<parkVars, timer, open>> /\ known \subseteq known' => Opened'
  BY PagesSame
<1>9. QED BY <1>1, <1>2, <1>3, <1>4, <1>5, <1>6, <1>7, <1>8 DEF Next

\* Nobody puts to sleep what an execution woke.
LEMMA UndisturbedStep ==
    ASSUME TypeOK, \A p \in Page : Driven(p), Opened, Undisturbed, [Next]_vars
    PROVE  Undisturbed'
<1> USE SessionAssumption DEF TypeOK, Undisturbed, Executing, execVars, waitVars, viewVars
<1> "execution" \in Caller /\ "view" \in Caller \ {"park"}
  BY DEF Caller
<1>1. ASSUME NEW s \in Session, Begin(s) PROVE Undisturbed'
  <2>1. /\ phase[s] = "idle" /\ phase' = [phase EXCEPT ![s] = "waking"]
        /\ known' = known \cup {s} /\ open' = open
    BY <1>1 DEF Begin
  <2>2. \A r \in Session \ {s} : desired'[r] = desired[r]
                                 /\ (Queued(r, "execution")' => Queued(r, "execution"))
    <3>1. CASE Unpark(s, "execution")
      BY <3>1, WakeEffect DEF Caller, ParkTypeOK
    <3>2. CASE UNCHANGED parkVars
      BY <3>2, PagesSame
    <3>3. QED BY <1>1, <3>1, <3>2 DEF Begin
  <2>3. desired'[s] = "active"
    <3>1. CASE s \in open
      BY <1>1, <3>1, WakeEffect DEF Begin, Caller, ParkTypeOK
    <3>2. CASE s \notin open
      BY <1>1, <3>2, PagesSame DEF Begin, Opened, Fresh
    <3>3. QED BY <3>1, <3>2
  <2>4. QED BY <2>1, <2>2, <2>3
<1>2. ASSUME NEW s \in Session, RunSnippet(s) \/ SnippetAsks(s) \/ Finish(s) PROVE Undisturbed'
  <2>1. UNCHANGED <<parkVars, known>> /\ open \subseteq open'
    BY <1>2 DEF RunSnippet, SnippetAsks, Finish
  <2>2. desired' = desired /\ \A r \in Session : Queued(r, "execution")' <=> Queued(r, "execution")
    BY <2>1, PagesSame
  <2>3. QED BY <1>2, <2>1, <2>2 DEF RunSnippet, SnippetAsks, Finish
<1>3. ASSUME NEW s \in Session, TimerFires(s) PROVE Undisturbed'
  <2>1. UNCHANGED <<known, open, phase>>
    BY <1>3 DEF TimerFires
  <2>2. \A r \in Session : Executing(r) => desired'[r] = desired[r]
    BY <1>3, ParkEffect, PagesSame DEF TimerFires
  <2>3. \A r \in Session : Queued(r, "execution")' => Queued(r, "execution")
    BY <1>3, ParkEffect, PagesSame DEF TimerFires
  <2>4. QED BY <2>1, <2>2, <2>3
<1>4. ASSUME NEW s \in Session, Reap(s) \/ CloseSession(s) PROVE Undisturbed'
  <2>1. /\ ClosePage(s) /\ open' = open \ {s} /\ known' = known \ {s}
        /\ phase' = phase /\ phase[s] = "idle"
    BY <1>4 DEF Reap, CloseSession, Forget
  <2>2. \A r \in Session \ {s} : desired'[r] = desired[r] /\ chain'[r] = chain[r]
    BY <2>1 DEF ClosePage, ParkTypeOK
  <2>3. \A r \in Session \ {s} : Queued(r, "execution")' <=> Queued(r, "execution")
    BY <2>2, QueueSame
  <2>4. QED BY <2>1, <2>2, <2>3
<1>5. ASSUME NEW s \in Session, ViewWakes(s) PROVE Undisturbed'
  <2>1. UNCHANGED <<known, open, phase>>
    BY <1>5 DEF ViewWakes
  <2>2. desired' = desired \/ desired' = [desired EXCEPT ![s] = "active"]
    BY <1>5, WakeEffect, PagesSame DEF ViewWakes
  <2>3. \A r \in Session : Queued(r, "execution")' => Queued(r, "execution")
    <3>1. CASE Unpark(s, "view")
      BY <3>1, WakeEffect DEF Caller
    <3>2. CASE UNCHANGED parkVars
      BY <3>2, PagesSame
    <3>3. QED BY <1>5, <3>1, <3>2 DEF ViewWakes
  <2>4. QED BY <2>1, <2>2, <2>3 DEF ParkTypeOK
<1>6. ASSUME NEW s \in Session, ParkStep(s) PROVE Undisturbed'
  <2>1. desired' = desired /\ \A r \in Session : Queued(r, "execution")' => Queued(r, "execution")
    BY <1>6, JobModest DEF ParkStep
  <2>2. UNCHANGED <<known, open, phase>>
    BY <1>6 DEF ParkStep, workerVars
  <2>3. QED BY <2>1, <2>2
<1>7. ASSUME NEW k \in Kind, WaitEnds(k) \/ \E s \in Asked : WaitBegins(k, s) \/ WaitRefused(k, s)
      PROVE  UNCHANGED <<parkVars, phase, open>> /\ known \subseteq known'
  BY <1>7 DEF WaitEnds, WaitBegins, WaitRefused
<1>8. ViewStart \/ ViewListens \/ ViewStop \/ UNCHANGED vars => UNCHANGED <<parkVars, phase, open, known>>
  BY DEF ViewStart, ViewListens, ViewStop, vars
<1>9. ASSUME UNCHANGED <<parkVars, phase, open>>, known \subseteq known' PROVE Undisturbed'
  <2>1. desired' = desired /\ \A r \in Session : Queued(r, "execution")' <=> Queued(r, "execution")
    BY <1>9, PagesSame
  <2>2. QED BY <1>9, <2>1
<1>10. QED BY <1>1, <1>2, <1>3, <1>4, <1>5, <1>6, <1>7, <1>8, <1>9 DEF Next

\* With a live view nothing is left to put a page to sleep.
LEMMA WatchedStep ==
    ASSUME TypeOK, \A p \in Page : Driven(p), Opened, Watched, [Next]_vars
    PROVE  Watched'
<1> USE SessionAssumption DEF TypeOK, Watched, execVars, waitVars, viewVars
<1> "execution" \in Caller \ {"park"} /\ "view" \in Caller \ {"park"}
  BY DEF Caller
<1>1. ASSUME NEW s \in Session, Begin(s) PROVE Watched'
  <2>1. timer' = timer \ {s} /\ UNCHANGED viewVars
    BY <1>1 DEF Begin
  <2>2. desired' = desired \/ desired' = [desired EXCEPT ![s] = "active"]
    BY <1>1, WakeEffect, PagesSame DEF Begin
  <2>3. QED BY <2>1, <2>2 DEF ParkTypeOK
<1>2. ASSUME NEW s \in Session, RunSnippet(s) \/ SnippetAsks(s) \/ Finish(s) PROVE Watched'
  BY <1>2 DEF RunSnippet, SnippetAsks, Finish, parkVars
<1>3. ASSUME NEW s \in Session, TimerFires(s) PROVE Watched'
  <2>1. s \in timer /\ timer' = timer \ {s} /\ UNCHANGED viewVars
    BY <1>3 DEF TimerFires
  <2>2. \A r \in Session \ {s} : desired'[r] = desired[r]
    BY <1>3, ParkEffect, PagesSame DEF TimerFires
  <2>3. QED BY <2>1, <2>2
<1>4. ASSUME NEW s \in Session, Reap(s) \/ CloseSession(s) PROVE Watched'
  BY <1>4 DEF Reap, CloseSession, Forget, ClosePage, ParkTypeOK
<1>5. ASSUME NEW s \in Session, ViewWakes(s) PROVE Watched'
  <2>1. /\ start = "waking" /\ s \in known /\ woken' = woken \cup {s} /\ timer' = timer \ {s}
        /\ UNCHANGED <<view, start, detached>>
    BY <1>5 DEF ViewWakes
  <2>2. \A r \in Session \ {s} : desired'[r] = desired[r]
    BY <1>5, WakeEffect, PagesSame DEF ViewWakes, ParkTypeOK
  <2>3. desired'[s] = "active"
    <3>1. CASE s \in open
      BY <1>5, <3>1, WakeEffect DEF ViewWakes, ParkTypeOK
    <3>2. CASE s \notin open
      BY <1>5, <3>2, PagesSame DEF ViewWakes, Opened, Fresh
    <3>3. QED BY <3>1, <3>2
  <2>4. QED BY <2>1, <2>2, <2>3
<1>6. ASSUME NEW s \in Session, ParkStep(s) PROVE Watched'
  <2>1. desired' = desired
    BY <1>6, JobModest DEF ParkStep
  <2>2. QED BY <1>6, <2>1 DEF ParkStep, workerVars
<1>7. ASSUME NEW k \in Kind, WaitEnds(k) \/ \E s \in Asked : WaitBegins(k, s) \/ WaitRefused(k, s)
      PROVE  Watched'
  BY <1>7 DEF WaitEnds, WaitBegins, WaitRefused, parkVars
<1>8. CASE ViewStart
  <2>1. /\ start = "none" /\ woken = {} /\ ~detached /\ start' = "waking" /\ view' # "none"
        /\ UNCHANGED <<timer, desired, woken, detached>>
    BY <1>8 DEF ViewStart, parkVars
  <2>2. QED BY <2>1
<1>9. CASE ViewListens
  <2>1. \A s \in Session : s \in timer \/ desired[s] = "parked" => s \in woken
    BY <1>9 DEF ViewListens, Opened, Fresh
  <2>2. /\ start = "waking" /\ start' = "none" /\ woken' = {} /\ ~detached'
        /\ UNCHANGED <<timer, desired>>
        /\ view' # "none" => view # "none"
    <3>1. CASE detached
      BY <1>9, <3>1 DEF ViewListens, parkVars
    <3>2. CASE ~detached
      BY <1>9, <3>2 DEF ViewListens, parkVars
    <3>3. QED BY <3>1, <3>2
  <2>3. view # "none" => \A s \in Session : ~(s \in timer \/ desired[s] = "parked")
    BY <2>1, <2>2
  <2>4. QED BY <2>2, <2>3
<1>10. CASE ViewStop
  <2>1. view' = "none" /\ UNCHANGED <<start, woken>>
    BY <1>10 DEF ViewStop
  <2>2. detached' <=> start # "none"
    BY <1>10, Zenon DEF ViewStop
  <2>3. QED BY <2>1, <2>2
<1>11. CASE UNCHANGED vars
  BY <1>11 DEF vars, parkVars
<1>12. QED
  BY <1>1, <1>2, <1>3, <1>4, <1>5, <1>6, <1>7, <1>8, <1>9, <1>10, <1>11 DEF Next
-----------------------------------------------------------------------------
\* The worker starts without sessions, and its pages are untouched.
LEMMA InitInv == Init => IndInv
<1> SUFFICES ASSUME Init PROVE IndInv
  OBVIOUS
<1> USE SessionAssumption DEF Init, ParkInit
<1>1. <<>> \in Seq(Caller)
  OBVIOUS
<1>2. ParkTypeOK
  BY <1>1 DEF ParkTypeOK, Stage
<1>3. TypeOK
  BY <1>2 DEF TypeOK, Kind
<1>4. \A p \in Page : Fresh(p)
  BY DEF Fresh
<1>5. \A p \in Page : Driven(p)
  BY <1>4 DEF Fresh, Driven
<1>6. LoneWaitHolds /\ Opened
  BY <1>4 DEF LoneWaitHolds, Waits, Kind, Opened
<1>7. Undisturbed /\ Watched
  BY DEF Undisturbed, Executing, Watched
<1>8. QED BY <1>3, <1>5, <1>6, <1>7 DEF IndInv

\* Every state of the worker satisfies every part of the invariant.
THEOREM Inductive == Spec => []IndInv
<1>1. ASSUME IndInv, [Next]_vars PROVE IndInv'
  <2>1. /\ TypeOK /\ ParkTypeOK /\ LoneWaitHolds /\ \A p \in Page : Driven(p)
        /\ Opened /\ Undisturbed /\ Watched
    BY <1>1 DEF IndInv, TypeOK
  <2>2. ParkTypeOK' /\ \A p \in Page : Driven(p)'
    BY <1>1, <2>1, DrivenStep
  <2>3. TypeOK' /\ LoneWaitHolds'
    BY <1>1, <2>1, <2>2, TypeStep, HoldStep
  <2>4. Opened' /\ Undisturbed' /\ Watched'
    BY <1>1, <2>1, OpenedStep, UndisturbedStep, WatchedStep
  <2>5. QED BY <2>2, <2>3, <2>4 DEF IndInv
<1>2. QED BY InitInv, <1>1, PTL DEF Spec

\* A page that is to be awake is awake, has refused a command, or has somebody
\* in its queue who wakes it.
LEMMA AwakeOrComing ==
    ASSUME TypeOK, NEW p \in Page, Driven(p), desired[p] = "active"
    PROVE  Awake(p) \/ failed[p] \/ Queued(p, "execution") \/ Queued(p, "view")
<1>1. WakerFrom(p, 1) \/ WakerFrom(p, 2) => Queued(p, "execution") \/ Queued(p, "view")
  BY DEF WakerFrom, Queued
<1>2. QED BY <1>1 DEF Driven, Awake, TypeOK, ParkTypeOK, Stage

\* While a snippet runs its page is awake, has refused a command, or is being
\* woken by a live view.
THEOREM SnippetsFindPagesAwake == Spec => []AwakeUnderSnippet
<1>1. ASSUME IndInv PROVE AwakeUnderSnippet
  <2> SUFFICES ASSUME NEW s \in Session, phase[s] = "running"
               PROVE  Awake(s) \/ failed[s] \/ Queued(s, "view")
    BY DEF AwakeUnderSnippet
  <2>1. desired[s] = "active" /\ ~Queued(s, "execution")
    BY <1>1 DEF IndInv, Undisturbed, Executing
  <2>2. QED BY <1>1, <2>1, SessionAssumption, AwakeOrComing DEF IndInv
<1>2. QED BY Inductive, <1>1, PTL

\* A running live view finds every open page awake, refusing or being woken.
THEOREM ViewsShowLivePages == Spec => []ViewSeesLivePages
<1>1. ASSUME IndInv PROVE ViewSeesLivePages
  <2> SUFFICES ASSUME view = "running", start = "none", NEW s \in open
               PROVE  Awake(s) \/ failed[s] \/ Queued(s, "view") \/ Queued(s, "execution")
    BY DEF ViewSeesLivePages
  <2>1. s \in Page /\ desired[s] = "active"
    BY <1>1, SessionAssumption DEF IndInv, Watched, TypeOK, ParkTypeOK
  <2>2. QED BY <1>1, <2>1, AwakeOrComing DEF IndInv
<1>2. QED BY Inductive, <1>1, PTL
=============================================================================
