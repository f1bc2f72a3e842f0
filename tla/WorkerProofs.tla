---------------------------- MODULE WorkerProofs ----------------------------
(***************************************************************************)
(* Proofs about what a worker process shares.                              *)
(*                                                                         *)
(* Its browser's download switch, among the executes of any finite number  *)
(* of sessions: a download is taken on only under an approval, an approval *)
(* ends before the result is reported, and no execute waits for an answer  *)
(* that will not come.                                                     *)
(*                                                                         *)
(* The saved profile, with any number of other workers: a worker that      *)
(* starts alone gets past what crashed ones have left behind, and two own  *)
(* the profile only if some lock directory was taken away.                 *)
(***************************************************************************)
EXTENDS DownloadGate, ProfileLock, FiniteSetTheorems, TLAPS

\* The types, but for the bounds on the count of claims and on the wire.
Shape ==
    /\ browser \in BOOLEAN /\ ready \in BOOLEAN
    /\ worker \in {"up", "stopping", "closed"}
    /\ switch \in {"allow", "deny", "default"}
    /\ current \in {"allow", "deny"}
    /\ wire \in Seq(Command)
    /\ holders \in Nat
    /\ approved \subseteq Sessions /\ saving \subseteq Sessions
    /\ phase \in [Sessions -> Phases]
    /\ wants \in [Sessions -> BOOLEAN]
    /\ holds \in [Sessions -> BOOLEAN]
    /\ fatal \in [Sessions -> BOOLEAN]
    /\ report \in [Sessions -> {"none", "ok", "failed"}]

\* The waits for a command, and what follows each.
LEMMA Waits ==
    /\ DOMAIN Answered = {"opening", "closing", "failClosing"}
    /\ DOMAIN Thrown = {"opening", "closing", "failClosing"}
    /\ Answered["opening"] = "running"
    /\ Answered["closing"] = "reporting"
    /\ Answered["failClosing"] = "failDraining"
    /\ Thrown["opening"] = "failing"
    /\ Thrown["closing"] = "broken"
    /\ Thrown["failClosing"] = "broken"
BY DEF Answered, Thrown

\* Those phases and the others.
LEMMA AllPhases ==
    Phases = {"idle", "launching", "launched", "running", "draining", "reporting",
              "failing", "failDraining", "broken", "opening", "closing", "failClosing"}
BY Waits DEF Phases

\* With one command of an execute on the wire, and one claim counted for a
\* claimant, there are no more of either than sessions.
LEMMA Bounded ==
    ASSUME Shape, Queued, Claimed
    PROVE  TypeOK
<1>1. Cardinality(Sessions) \in Nat
  BY SessionsAreFinite, FS_CardinalityType
<1>2. holders <= Cardinality(Sessions)
  <2>1. Claimants \in SUBSET Sessions
    BY DEF Claimants
  <2>2. IsFiniteSet(Claimants) /\ Cardinality(Claimants) <= Cardinality(Sessions)
    BY <2>1, SessionsAreFinite, FS_Subset
  <2>3. Cardinality(Claimants) \in Nat
    BY <2>2, FS_CardinalityType
  <2>4. QED BY <1>1, <2>2, <2>3 DEF Shape, Claimed
<1>3. Len(wire) <= Cardinality(Sessions)
  <2> DEFINE f == [i \in 1 .. Len(wire) |-> wire[i].by]
  <2>1. Len(wire) \in Nat /\ DOMAIN wire = 1 .. Len(wire)
    BY DEF Shape
  <2>2. \A i \in 1 .. Len(wire) : wire[i].by \in Sessions
    <3>1. wire \in Seq(Command)
      BY DEF Shape
    <3>2. \A i \in 1 .. Len(wire) : wire[i] \in Command
      BY <3>1
    <3>3. \A c \in Command : c.by \in Sessions
      BY DEF Command
    <3>4. QED BY <3>2, <3>3
  <2>3. f \in [1 .. Len(wire) -> Sessions]
    BY <2>2
  <2>4. \A i, j \in 1 .. Len(wire) : f[i] = f[j] => i = j
    BY <2>1 DEF Queued
  <2>5. CASE Len(wire) > Cardinality(Sessions)
    <3>1. IsFiniteSet(1 .. Len(wire)) /\ Cardinality(1 .. Len(wire)) = Len(wire)
      <4>1. \A n \in Nat : IsFiniteSet(1 .. n)
                            /\ Cardinality(1 .. n) = IF 1 > n THEN 0 ELSE n - 1 + 1
        BY FS_Interval
      <4>2. \A n \in Nat : n = IF 1 > n THEN 0 ELSE n - 1 + 1
        OBVIOUS
      <4>3. QED BY <2>1, <4>1, <4>2
    <3>2. \E i, j \in 1 .. Len(wire) : i # j /\ f[i] = f[j]
      <4> HIDE DEF f
      <4> QED BY <1>1, <2>1, <2>3, <2>5, <3>1, SessionsAreFinite, FS_PigeonHole
    <3>3. QED BY <2>4, <3>2
  <2>6. QED BY <1>1, <2>1, <2>5
<1>4. QED BY <1>1, <1>2, <1>3 DEF Shape, TypeOK

LEMMA InitInv == Init => IndInv
<1> SUFFICES ASSUME Init PROVE IndInv
  OBVIOUS
<1>1. Shape
  <2>1. <<>> \in Seq(Command)
    OBVIOUS
  <2>2. QED BY <2>1 DEF Init, Shape, Phases
<1>2. Queued
  BY Waits DEF Init, Queued
<1>3. Claimed
  <2>1. Claimants = {}
    BY DEF Init, Claimants
  <2>2. QED BY <2>1, FS_EmptySet DEF Init, Claimed
<1>4. Settled /\ NoLateSave
  BY DEF Init, Settled, NoLateSave
<1>5. QED BY <1>1, <1>2, <1>3, <1>4, Bounded DEF IndInv
-----------------------------------------------------------------------------
(* The types *)

\* Where setting the permission leaves the execute, and the wire.
LEMMA PermissionShape ==
    ASSUME Shape, NEW s \in Sessions, NEW await \in DOMAIN Answered,
           NEW open \in BOOLEAN, SetPermission(s, await, open)
    PROVE  /\ phase' \in [Sessions -> Phases]
           /\ wire' \in Seq(Command)
           /\ fatal' \in [Sessions -> BOOLEAN]
<1>1. /\ Answered[await] \in Phases /\ Thrown[await] \in Phases /\ await \in Phases
  BY Waits DEF Phases
<1>2. [by |-> s, set |-> Behavior(open)] \in Command
  BY DEF Command, Behavior
<1>3. Append(wire, [by |-> s, set |-> Behavior(open)]) \in Seq(Command)
  BY <1>2 DEF Shape
<1>4. QED BY <1>1, <1>3 DEF Shape, SetPermission

\* The head of the wire.
LEMMA Heads ==
    ASSUME Shape, Queued, wire # <<>>
    PROVE  /\ Head(wire) \in Command
           /\ Head(wire) = wire[1] /\ 1 \in DOMAIN wire
           /\ Head(wire).by \in Sessions
           /\ phase[Head(wire).by] \in DOMAIN Answered
           /\ Tail(wire) \in Seq(Command)
           /\ DOMAIN Tail(wire) = 1 .. Len(wire) - 1
           /\ \A i \in DOMAIN Tail(wire) : Tail(wire)[i] = wire[i + 1]
<1>1. wire \in Seq(Command) /\ Len(wire) \in Nat \ {0}
  BY DEF Shape
<1>2. Head(wire) = wire[1] /\ 1 \in DOMAIN wire /\ wire[1] \in Command
  BY <1>1
<1>3. wire[1].by \in Sessions
  BY <1>2 DEF Command
<1>4. phase[wire[1].by] \in DOMAIN Answered
  BY <1>2, <1>3 DEF Queued
<1>5. QED BY <1>1, <1>2, <1>3, <1>4

\* Nothing leaves the types.
LEMMA ShapeStep ==
    ASSUME Shape, Queued, [Next]_vars
    PROVE  Shape'
<1> USE DEF gate, runs
<1>1. ASSUME NEW s \in Sessions, Begin(s) \/ Launch(s) \/ LaunchFails(s) \/ Join(s)
      PROVE  Shape'
  <2>1. CASE Begin(s) \/ Join(s)
    BY <2>1, AllPhases DEF Shape, Begin, Join
  <2>2. CASE Launch(s)
    BY <2>2, AllPhases DEF Shape, Launch
  <2>3. CASE LaunchFails(s)
    BY <2>3, AllPhases DEF Shape, LaunchFails
  <2>4. QED BY <1>1, <2>1, <2>2, <2>3
<1>2. ASSUME NEW s \in Sessions, Claim(s) PROVE Shape'
  <2>1. holders' \in Nat /\ (holders' > 0) \in BOOLEAN
    BY <1>2 DEF Shape, Claim
  <2>2. /\ phase' \in [Sessions -> Phases] /\ wire' \in Seq(Command)
        /\ fatal' \in [Sessions -> BOOLEAN]
    BY <1>2, <2>1, Waits, PermissionShape DEF Claim
  <2>3. QED BY <1>2, <2>1, <2>2 DEF Shape, Claim
<1>3. ASSUME NEW s \in Sessions,
             SnippetReturns(s) \/ SnippetFails(s) \/ DrainTimesOut(s) \/ FailureDrains(s)
      PROVE  Shape'
  BY <1>3, AllPhases DEF Shape, SnippetReturns, SnippetFails, DrainTimesOut, FailureDrains
<1>4. ASSUME NEW s \in Sessions, Drained(s) \/ FailureReleases(s) PROVE Shape'
  <2>1. holders' \in Nat /\ (holders' > 0) \in BOOLEAN
    BY <1>4 DEF Shape, Drained, FailureReleases, ReleaseGate, Released
  <2>2. SetPermission(s, "closing", holders' > 0) \/ SetPermission(s, "failClosing", holders' > 0)
    BY <1>4 DEF Drained, FailureReleases, ReleaseGate
  <2>3. /\ phase' \in [Sessions -> Phases] /\ wire' \in Seq(Command)
        /\ fatal' \in [Sessions -> BOOLEAN]
    BY <2>1, <2>2, Waits, PermissionShape
  <2>4. QED BY <1>4, <2>1, <2>3 DEF Shape, Drained, FailureReleases, ReleaseGate
<1>5. ASSUME NEW s \in Sessions, ReportSuccess(s) \/ ReportFailure(s) \/ CapacityExceeded(s)
      PROVE  Shape'
  <2>1. PICK outcome \in {"ok", "failed"}, restart \in BOOLEAN : Finally(s, outcome, restart)
    BY <1>5 DEF Shape, ReportSuccess, ReportFailure, CapacityExceeded
  <2>2. holders' \in Nat
    BY <2>1 DEF Shape, Finally, Released
  <2>3. QED BY <2>1, <2>2, AllPhases DEF Shape, Finally
<1>6. ASSUME NEW s \in Sessions, DownloadAccepted(s) \/ DownloadSettles(s) PROVE Shape'
  BY <1>6 DEF Shape, DownloadAccepted, DownloadSettles
<1>7. CASE Acknowledge
  BY <1>7, Heads, Waits DEF Shape, Acknowledge, Phases, Command
<1>8. CASE CommandFails
  BY <1>8, Heads, Waits DEF Shape, CommandFails, Phases
<1>9. CASE BrowserCloses \/ Teardown
  <2>1. Disconnect
    BY <1>9 DEF BrowserCloses, Teardown
  <2>2. \A s \in Sessions : (\E i \in DOMAIN wire : wire[i].by = s) => Thrown[phase[s]] \in Phases
    BY Waits DEF Queued, Phases
  <2>3. phase' \in [Sessions -> Phases] /\ fatal' \in [Sessions -> BOOLEAN] /\ wire' \in Seq(Command)
    BY <2>1, <2>2 DEF Disconnect, Shape
  <2>4. CASE BrowserCloses
    BY <2>4, <2>1, <2>3 DEF Shape, BrowserCloses, Disconnect
  <2>5. CASE Teardown
    BY <2>5, <2>1, <2>3 DEF Shape, Teardown, Disconnect
  <2>6. QED BY <1>9, <2>4, <2>5
<1>10. CASE Exit
  <2>1. <<>> \in Seq(Command)
    OBVIOUS
  <2>2. QED BY <1>10, <2>1, AllPhases DEF Shape, Exit
<1>11. CASE UNCHANGED vars
  BY <1>11 DEF Shape, vars
<1>12. QED
  BY <1>1, <1>2, <1>3, <1>4, <1>5, <1>6, <1>7, <1>8, <1>9, <1>10, <1>11 DEF Next, Advance
-----------------------------------------------------------------------------
(* Commands and those who wait for them *)

\* A step that leaves the wire alone and in which nobody begins or ends a wait.
LEMMA WireRests ==
    ASSUME Queued, wire' = wire, browser' = browser, ready' => ready,
           \A t \in Sessions :
               phase'[t] \in DOMAIN Answered <=> phase[t] \in DOMAIN Answered
    PROVE  Queued'
BY DEF Queued

\* Setting the permission sends a command at most, and waits for it.
LEMMA PermissionQueues ==
    ASSUME Shape, Queued, NEW s \in Sessions, NEW await \in DOMAIN Answered,
           NEW open, SetPermission(s, await, open), phase[s] \notin DOMAIN Answered,
           browser' = browser, ready' = ready
    PROVE  Queued'
<1>1. /\ Answered[await] \notin DOMAIN Answered /\ Thrown[await] \notin DOMAIN Answered
  BY Waits
<1>2. CASE wire' = wire /\ \E x : x \notin DOMAIN Answered /\ phase' = [phase EXCEPT ![s] = x]
  BY <1>2, WireRests DEF Shape
<1>3. CASE /\ ready
           /\ wire' = Append(wire, [by |-> s, set |-> Behavior(open)])
           /\ phase' = [phase EXCEPT ![s] = await]
  <2> DEFINE n == Len(wire) + 1
  <2>1. /\ Len(wire) \in Nat /\ DOMAIN wire = 1 .. Len(wire)
        /\ DOMAIN wire' = 1 .. n
        /\ \A i \in DOMAIN wire : wire'[i] = wire[i]
        /\ wire'[n].by = s
    BY <1>3 DEF Shape
  <2>2. /\ DOMAIN wire' = DOMAIN wire \cup {n} /\ n \notin DOMAIN wire
    BY <2>1
  <2>3. \A i \in DOMAIN wire : wire[i].by # s
    BY DEF Queued
  <2> HIDE DEF n
  <2>4. \A t \in Sessions : phase'[t] = IF t = s THEN await ELSE phase[t]
    BY <1>3 DEF Shape
  <2>5. \A t \in Sessions :
           phase'[t] \in DOMAIN Answered <=> \E i \in DOMAIN wire' : wire'[i].by = t
    <3>1. phase'[s] \in DOMAIN Answered /\ \E i \in DOMAIN wire' : wire'[i].by = s
      BY <2>1, <2>2, <2>4
    <3>2. ASSUME NEW t \in Sessions, t # s
          PROVE  (\E i \in DOMAIN wire' : wire'[i].by = t) <=> \E i \in DOMAIN wire : wire[i].by = t
      BY <2>1, <2>2, <3>2
    <3>3. QED BY <2>4, <3>1, <3>2 DEF Queued
  <2>6. \A i, j \in DOMAIN wire' : wire'[i].by = wire'[j].by => i = j
    BY <2>1, <2>2, <2>3 DEF Queued
  <2>7. browser'
    BY <1>3 DEF Queued
  <2>8. QED BY <2>5, <2>6, <2>7 DEF Queued
<1>4. QED BY <1>1, <1>2, <1>3 DEF SetPermission

\* The answer to the oldest command ends the wait of its sender alone.
LEMMA AnswerQueues ==
    ASSUME Shape, Queued, wire # <<>>, NEW x, x \notin DOMAIN Answered,
           wire' = Tail(wire), phase' = [phase EXCEPT ![Head(wire).by] = x],
           browser' = browser, ready' => ready
    PROVE  Queued'
<1> DEFINE h == Head(wire).by
<1>1. /\ h \in Sessions /\ h = wire[1].by /\ 1 \in DOMAIN wire
      /\ Len(wire) \in Nat /\ DOMAIN wire = 1 .. Len(wire)
      /\ DOMAIN wire' = 1 .. Len(wire) - 1
      /\ \A i \in DOMAIN wire' : wire'[i] = wire[i + 1]
  BY Heads DEF Shape
<1> HIDE DEF h
<1>2. \A t \in Sessions : phase'[t] = IF t = h THEN x ELSE phase[t]
  BY <1>1 DEF Shape, h
<1>3. \A i \in DOMAIN wire' : i + 1 \in DOMAIN wire /\ i + 1 # 1
  BY <1>1
<1>4. \A i \in DOMAIN wire : i # 1 => i - 1 \in DOMAIN wire' /\ wire'[i - 1] = wire[i]
  BY <1>1
<1>5. \A i \in DOMAIN wire' : wire'[i].by # h
  BY <1>1, <1>3 DEF Queued
<1>6. ASSUME NEW t \in Sessions
      PROVE  phase'[t] \in DOMAIN Answered <=> \E i \in DOMAIN wire' : wire'[i].by = t
  <2>1. CASE t = h
    BY <2>1, <1>2, <1>5
  <2>2. CASE t # h
    <3>1. ASSUME NEW i \in DOMAIN wire, wire[i].by = t
          PROVE  \E j \in DOMAIN wire' : wire'[j].by = t
      <4>1. i # 1
        BY <2>2, <3>1, <1>1
      <4>2. i - 1 \in DOMAIN wire' /\ wire'[i - 1].by = t
        BY <3>1, <4>1, <1>4
      <4>3. QED BY <4>2
    <3>2. ASSUME NEW j \in DOMAIN wire', wire'[j].by = t
          PROVE  \E i \in DOMAIN wire : wire[i].by = t
      <4>1. j + 1 \in DOMAIN wire /\ wire[j + 1].by = t
        BY <3>2, <1>1, <1>3
      <4>2. QED BY <4>1
    <3>3. phase'[t] = phase[t]
      BY <2>2, <1>2
    <3>4. QED BY <3>1, <3>2, <3>3 DEF Queued
  <2>3. QED BY <2>1, <2>2
<1>7. \A i, j \in DOMAIN wire' : wire'[i].by = wire'[j].by => i = j
  <2>1. \A i, j \in DOMAIN wire' : wire'[i].by = wire'[j].by => i + 1 = j + 1
    BY <1>1, <1>3 DEF Queued
  <2>2. QED BY <1>1, <2>1
<1>8. ready' \/ wire' # <<>> => browser'
  BY DEF Queued
<1>9. QED BY <1>6, <1>7, <1>8 DEF Queued

\* Whoever waits has a command on the wire, whatever happens.
LEMMA QueuedStep ==
    ASSUME Shape, Queued, [Next]_vars
    PROVE  Queued'
<1> USE Waits DEF gate, runs
<1>1. ASSUME NEW s \in Sessions, Launch(s)
      PROVE  Queued'
  BY <1>1 DEF Shape, Launch, Queued
<1>2. ASSUME NEW s \in Sessions,
             \/ Begin(s) \/ Join(s) \/ LaunchFails(s) \/ SnippetReturns(s) \/ SnippetFails(s)
             \/ DrainTimesOut(s) \/ FailureDrains(s)
             \/ DownloadAccepted(s) \/ DownloadSettles(s)
      PROVE  Queued'
  <2>1. CASE Begin(s) \/ Join(s) \/ LaunchFails(s)
    BY <2>1, WireRests DEF Shape, Begin, Join, LaunchFails
  <2>2. CASE SnippetReturns(s) \/ SnippetFails(s) \/ DrainTimesOut(s) \/ FailureDrains(s)
    BY <2>2, WireRests DEF Shape, SnippetReturns, SnippetFails, DrainTimesOut, FailureDrains
  <2>3. CASE DownloadAccepted(s) \/ DownloadSettles(s)
    BY <2>3, WireRests DEF DownloadAccepted, DownloadSettles
  <2>4. QED BY <1>2, <2>1, <2>2, <2>3
<1>3. ASSUME NEW s \in Sessions, ReportSuccess(s) \/ ReportFailure(s) \/ CapacityExceeded(s)
      PROVE  Queued'
  <2>1. PICK outcome, restart : Finally(s, outcome, restart) /\ phase[s] \notin DOMAIN Answered
    BY <1>3 DEF ReportSuccess, ReportFailure, CapacityExceeded
  <2>2. QED BY <2>1, WireRests DEF Shape, Finally
<1>4. ASSUME NEW s \in Sessions, Claim(s) PROVE Queued'
  BY <1>4, PermissionQueues DEF Claim
<1>5. ASSUME NEW s \in Sessions, Drained(s) PROVE Queued'
  BY <1>5, PermissionQueues DEF Drained, ReleaseGate
<1>6. ASSUME NEW s \in Sessions, FailureReleases(s) PROVE Queued'
  BY <1>6, PermissionQueues DEF FailureReleases, ReleaseGate
<1>7. CASE Acknowledge
  <2>1. Answered[phase[Head(wire).by]] \notin DOMAIN Answered
    BY <1>7, Heads DEF Acknowledge
  <2>2. phase' = [phase EXCEPT ![Head(wire).by] = Answered[phase[Head(wire).by]]]
    BY <1>7, Heads DEF Acknowledge, Shape
  <2>3. QED BY <1>7, <2>1, <2>2, AnswerQueues DEF Acknowledge
<1>8. CASE CommandFails
  <2>1. Thrown[phase[Head(wire).by]] \notin DOMAIN Answered
    BY <1>8, Heads DEF CommandFails
  <2>2. phase' = [phase EXCEPT ![Head(wire).by] = Thrown[phase[Head(wire).by]]]
    BY <1>8, Heads DEF CommandFails, Shape
  <2>3. QED BY <1>8, <2>1, <2>2, AnswerQueues DEF CommandFails
<1>9. CASE BrowserCloses \/ Teardown
  <2>1. Disconnect
    BY <1>9 DEF BrowserCloses, Teardown
  <2>2. \A s \in Sessions : phase'[s] \notin DOMAIN Answered
    BY <2>1 DEF Disconnect, Queued
  <2>3. QED BY <2>1, <2>2 DEF Disconnect, Queued
<1>10. CASE Exit
  <2>1. wire' = <<>> /\ DOMAIN wire' = {} /\ ~ready'
    BY <1>10 DEF Exit
  <2>2. \A s \in Sessions : phase'[s] \notin DOMAIN Answered
    BY <1>10 DEF Exit
  <2>3. QED BY <2>1, <2>2 DEF Queued
<1>11. CASE UNCHANGED vars
  BY <1>11, WireRests DEF vars
<1>12. QED
  BY <1>1, <1>2, <1>3, <1>4, <1>5, <1>6, <1>7, <1>8, <1>9, <1>10, <1>11 DEF Next, Advance
-----------------------------------------------------------------------------
(* Claims and approvals *)

\* An execute is in the part of its run that may hold a claim.
InRun(s) == phase[s] \in {"opening", "running", "draining", "failing"}

\* A step in which the claimants and the approved become no more, and no run
\* that keeps its claim leaves that part, keeps the count within bounds.
LEMMA ClaimsRest ==
    ASSUME Shape, Claimed, wants' = wants, holds' = holds,
           holders' = holders \/ holders' = 0, approved' \subseteq approved,
           \A t \in Claimants : InRun(t) => InRun(t)'
    PROVE  Claimed'
<1>1. Claimants' = Claimants
  BY DEF Claimants
<1>2. Cardinality(Claimants) \in Nat
  BY SessionsAreFinite, FS_Subset, FS_CardinalityType DEF Claimants
<1>3. QED BY <1>1, <1>2 DEF Claimed, Claimants, InRun

\* Giving a claim back takes it from the count, unless the count has been
\* forgotten meanwhile.
LEMMA ClaimEnds ==
    ASSUME Shape, Claimed, NEW s \in Sessions, wants' = wants,
           holds' = [holds EXCEPT ![s] = FALSE], holders' = Released(s),
           approved' = approved \ {s},
           \A t \in Sessions \ {s} : phase'[t] = phase[t]
    PROVE  Claimed'
<1>1. Claimants' = Claimants \ {s}
  BY DEF Claimants, Shape
<1>2. IsFiniteSet(Claimants)
  BY SessionsAreFinite, FS_Subset DEF Claimants
<1>3. Cardinality(Claimants) \in Nat
  BY <1>2, FS_CardinalityType
<1>4. Cardinality(Claimants') = IF holds[s] THEN Cardinality(Claimants) - 1 ELSE Cardinality(Claimants)
  BY <1>1, <1>2, FS_RemoveElement DEF Claimants
<1>5. holders' <= Cardinality(Claimants')
  <2>1. Cardinality(Claimants') \in Nat
    BY <1>1, <1>2, FS_RemoveElement, FS_CardinalityType
  <2>2. QED BY <1>3, <1>4, <2>1 DEF Released, Claimed, Shape
<1>6. approved' \subseteq Claimants'
  BY <1>1 DEF Claimed
<1>7. \A t \in Claimants' : t \in Claimants /\ t # s /\ t \in Sessions
  BY <1>1 DEF Claimants
<1>8. QED BY <1>5, <1>6, <1>7 DEF Claimed

\* Only runs that the user approved claim, each once, and give back once.
LEMMA ClaimedStep ==
    ASSUME Shape, Queued, Claimed, [Next]_vars
    PROVE  Claimed'
<1> USE Waits DEF gate, runs
<1>1. ASSUME NEW s \in Sessions, Begin(s) PROVE Claimed'
  <2>1. s \notin Claimants
    BY <1>1 DEF Begin, Claimed
  <2>2. Claimants' = Claimants
    BY <1>1 DEF Begin, Claimants
  <2>3. QED BY <1>1, <2>1, <2>2 DEF Begin, Claimed, Shape, Claimants
<1>2. ASSUME NEW s \in Sessions,
             \/ Launch(s) \/ LaunchFails(s) \/ Join(s)
             \/ SnippetReturns(s) \/ SnippetFails(s) \/ DrainTimesOut(s) \/ FailureDrains(s)
             \/ DownloadAccepted(s) \/ DownloadSettles(s)
      PROVE  Claimed'
  <2>1. CASE Launch(s) \/ LaunchFails(s) \/ Join(s)
    BY <2>1, ClaimsRest DEF Launch, LaunchFails, Join, Shape, InRun, Claimants
  <2>2. CASE SnippetReturns(s) \/ SnippetFails(s) \/ DrainTimesOut(s) \/ FailureDrains(s)
    BY <2>2, ClaimsRest
    DEF SnippetReturns, SnippetFails, DrainTimesOut, FailureDrains, Shape, InRun, Claimants
  <2>3. CASE DownloadAccepted(s) \/ DownloadSettles(s)
    BY <2>3, ClaimsRest DEF DownloadAccepted, DownloadSettles, InRun
  <2>4. QED BY <1>2, <2>1, <2>2, <2>3
<1>3. ASSUME NEW s \in Sessions, Claim(s) PROVE Claimed'
  <2>1. ~holds[s]
    BY <1>3 DEF Claim, Claimed, Claimants
  <2>2. \A t \in Sessions \ {s} : phase'[t] = phase[t]
    BY <1>3 DEF Claim, SetPermission, Shape
  <2>3. CASE wants[s]
    <3>1. Claimants' = Claimants \cup {s} /\ s \notin Claimants
      BY <1>3, <2>1, <2>3 DEF Claim, Claimants, Shape
    <3>2. IsFiniteSet(Claimants)
      BY SessionsAreFinite, FS_Subset DEF Claimants
    <3>3. Cardinality(Claimants) \in Nat
      BY <3>2, FS_CardinalityType
    <3>4. Cardinality(Claimants') = Cardinality(Claimants) + 1
      BY <3>1, <3>2, FS_AddElement
    <3>5. holders' = holders + 1 /\ approved' = approved \cup {s}
      BY <1>3, <2>3 DEF Claim
    <3>6. phase'[s] \in {"opening", "running", "failing"}
      BY <1>3 DEF Claim, SetPermission, Shape
    <3>7. \A t \in Claimants' : wants'[t] /\ InRun(t)'
      BY <1>3, <2>2, <2>3, <3>1, <3>6 DEF Claim, Claimed, Claimants, InRun
    <3>8. QED BY <3>1, <3>3, <3>4, <3>5, <3>7 DEF Claimed, Shape, InRun
  <2>4. CASE ~wants[s]
    <3>1. holds' = holds
      BY <1>3, <2>1, <2>4 DEF Claim, Shape
    <3>2. \A t \in Claimants : InRun(t)'
      BY <2>1, <2>2 DEF Claimed, Claimants, InRun
    <3>3. QED BY <1>3, <2>4, <3>1, <3>2, ClaimsRest DEF Claim, Shape
  <2>5. QED BY <2>3, <2>4
<1>4. ASSUME NEW s \in Sessions, Drained(s) \/ FailureReleases(s) PROVE Claimed'
  <2>1. \A t \in Sessions \ {s} : phase'[t] = phase[t]
    BY <1>4 DEF Drained, FailureReleases, ReleaseGate, SetPermission, Shape
  <2>2. QED BY <1>4, <2>1, ClaimEnds DEF Drained, FailureReleases, ReleaseGate
<1>5. ASSUME NEW s \in Sessions, ReportSuccess(s) \/ ReportFailure(s) \/ CapacityExceeded(s)
      PROVE  Claimed'
  <2>1. PICK outcome, restart : Finally(s, outcome, restart)
    BY <1>5 DEF ReportSuccess, ReportFailure, CapacityExceeded
  <2>2. QED BY <2>1, ClaimEnds DEF Finally, Shape
<1>6. CASE Acknowledge
  <2>1. \A t \in Claimants : InRun(t)'
    BY <1>6, Heads DEF Acknowledge, Claimed, Claimants, InRun, Shape
  <2>2. QED BY <1>6, <2>1, ClaimsRest DEF Acknowledge
<1>7. CASE CommandFails
  <2>1. \A t \in Claimants : InRun(t)'
    BY <1>7, Heads DEF CommandFails, Claimed, Claimants, InRun, Shape
  <2>2. QED BY <1>7, <2>1, ClaimsRest DEF CommandFails
<1>8. CASE BrowserCloses \/ Teardown
  <2>1. Disconnect
    BY <1>8 DEF BrowserCloses, Teardown
  <2>2. \A t \in Claimants : InRun(t)'
    BY <2>1 DEF Disconnect, Claimed, Claimants, InRun, Queued
  <2>3. QED BY <1>8, <2>1, <2>2, ClaimsRest DEF Disconnect, BrowserCloses, Teardown
<1>9. CASE Exit
  <2>1. Claimants' = {}
    BY <1>9 DEF Exit, Claimants
  <2>2. QED BY <1>9, <2>1, FS_EmptySet DEF Exit, Claimed
<1>10. CASE UNCHANGED vars
  BY <1>10, ClaimsRest DEF vars, InRun
<1>11. QED
  BY <1>1, <1>2, <1>3, <1>4, <1>5, <1>6, <1>7, <1>8, <1>9, <1>10 DEF Next, Advance
-----------------------------------------------------------------------------
(* Downloads and results *)

\* Once the approval of a run has ended nothing more of its session is taken
\* on, so what had settled stays settled until the result is out.
LEMMA SettledStep ==
    ASSUME Shape, Queued, Claimed, Settled, NoLateSave, [Next]_vars
    PROVE  Settled' /\ NoLateSave'
<1> USE Waits DEF gate, runs, Settled, NoLateSave
<1>1. ASSUME NEW s \in Sessions, Begin(s) \/ Launch(s) \/ LaunchFails(s) \/ Join(s)
      PROVE  Settled' /\ NoLateSave'
  BY <1>1 DEF Begin, Launch, LaunchFails, Join, Shape
<1>2. ASSUME NEW s \in Sessions, Claim(s) \/ FailureReleases(s) PROVE Settled' /\ NoLateSave'
  <2>1. /\ report' = report /\ saving' = saving /\ report[s] # "ok"
        /\ phase'[s] \notin {"closing", "reporting"}
        /\ \A t \in Sessions \ {s} : phase'[t] = phase[t]
    BY <1>2 DEF Claim, FailureReleases, ReleaseGate, SetPermission, Shape
  <2>2. QED BY <2>1
<1>3. ASSUME NEW s \in Sessions,
             SnippetReturns(s) \/ SnippetFails(s) \/ DrainTimesOut(s) \/ FailureDrains(s)
      PROVE  Settled' /\ NoLateSave'
  BY <1>3 DEF SnippetReturns, SnippetFails, DrainTimesOut, FailureDrains, Shape
<1>4. ASSUME NEW s \in Sessions, Drained(s) PROVE Settled' /\ NoLateSave'
  <2>1. /\ report' = report /\ saving' = saving /\ report[s] # "ok" /\ saving = {}
        /\ \A t \in Sessions \ {s} : phase'[t] = phase[t]
    BY <1>4 DEF Drained, ReleaseGate, SetPermission, Shape
  <2>2. QED BY <2>1
<1>5. ASSUME NEW s \in Sessions, ReportSuccess(s) PROVE Settled' /\ NoLateSave'
  BY <1>5 DEF ReportSuccess, Finally, Shape
<1>6. ASSUME NEW s \in Sessions, ReportFailure(s) \/ CapacityExceeded(s)
      PROVE  Settled' /\ NoLateSave'
  BY <1>6 DEF ReportFailure, CapacityExceeded, Finally, Shape
<1>7. ASSUME NEW s \in Sessions, DownloadAccepted(s) PROVE Settled' /\ NoLateSave'
  <2>1. phase[s] \notin {"idle", "closing", "reporting"}
    BY <1>7 DEF DownloadAccepted, Accepts, Claimed, Claimants
  <2>2. QED BY <1>7, <2>1 DEF DownloadAccepted
<1>8. ASSUME NEW s \in Sessions, DownloadSettles(s) PROVE Settled' /\ NoLateSave'
  BY <1>8 DEF DownloadSettles
<1>9. CASE Acknowledge
  BY <1>9, Heads DEF Acknowledge, Shape
<1>10. CASE CommandFails
  BY <1>10, Heads DEF CommandFails, Shape
<1>11. CASE BrowserCloses \/ Teardown
  <2>1. Disconnect
    BY <1>11 DEF BrowserCloses, Teardown
  <2>2. \A s \in Sessions :
           \/ phase'[s] = phase[s]
           \/ phase[s] \in DOMAIN Answered /\ phase'[s] \in {"failing", "broken"}
    BY <2>1 DEF Disconnect, Queued
  <2>3. saving' = saving /\ report' = report
    BY <2>1 DEF Disconnect
  <2>4. QED BY <2>2, <2>3
<1>12. CASE Exit \/ UNCHANGED vars
  BY <1>12 DEF Exit, vars
<1>13. QED
  BY <1>1, <1>2, <1>3, <1>4, <1>5, <1>6, <1>7, <1>8, <1>9, <1>10, <1>11, <1>12
  DEF Next, Advance
-----------------------------------------------------------------------------
\* However executes, commands, downloads, crashes of the browser and restarts of
\* the worker interleave, no file of a run reported successful is still to come
\* (with Queued: and no execute waits for an answer that will not come).
THEOREM GateInductive == Spec => []IndInv
<1>1. ASSUME IndInv, [Next]_vars PROVE IndInv'
  <2>1. Shape
    <3>1. Cardinality(Sessions) \in Nat
      BY SessionsAreFinite, FS_CardinalityType
    <3>2. QED BY <1>1, <3>1 DEF IndInv, TypeOK, Shape
  <2>2. Shape' /\ Queued' /\ Claimed' /\ Settled' /\ NoLateSave'
    BY <1>1, <2>1, ShapeStep, QueuedStep, ClaimedStep, SettledStep DEF IndInv
  <2>3. (Shape /\ Queued /\ Claimed => TypeOK)'
    BY Bounded, PTL
  <2>4. QED BY <2>2, <2>3 DEF IndInv
<1>2. QED BY InitInv, <1>1, PTL DEF Spec

\* The artifacts of a result reported successful are all there will be.
THEOREM NothingSavedLate == Spec => []NoLateSave
<1>1. IndInv => NoLateSave
  BY DEF IndInv
<1>2. QED BY GateInductive, <1>1, PTL

\* Whatever gate its neighbours hold open, a session's download is taken on
\* only during a run of that session that the user approved.
THEOREM DownloadsNeedApproval == Spec => AcceptedUnderApproval
<1>1. ASSUME IndInv, [Next]_vars
      PROVE  [\A s \in saving' \ saving : phase[s] # "idle" /\ wants[s]]_vars
  <2> SUFFICES ASSUME Next, NEW s \in saving' \ saving
               PROVE  phase[s] # "idle" /\ wants[s]
    BY <1>1
  <2>1. PICK t \in Sessions : DownloadAccepted(t)
    <3>1. ASSUME NEW t \in Sessions, Begin(t) \/ Advance(t) \/ CapacityExceeded(t) \/ DownloadSettles(t)
          PROVE  FALSE
      BY <3>1
      DEF Begin, Advance, CapacityExceeded, DownloadSettles, Launch, LaunchFails, Join, Claim,
          SnippetReturns, SnippetFails, Drained, DrainTimesOut, FailureReleases, FailureDrains,
          ReportSuccess, ReportFailure, Finally
    <3>2. CASE Acknowledge \/ CommandFails \/ BrowserCloses \/ Teardown \/ Exit
      BY <3>2 DEF Acknowledge, CommandFails, BrowserCloses, Teardown, Disconnect, Exit
    <3>3. QED BY <3>1, <3>2 DEF Next
  <2>2. s = t /\ t \in approved
    BY <2>1 DEF DownloadAccepted, Accepts
  <2>3. QED BY <1>1, <2>2 DEF IndInv, Claimed, Claimants
<1>2. QED BY GateInductive, <1>1, PTL DEF Spec, AcceptedUnderApproval
\* What is left of a run in each phase: it may skip phases, and fail in most.
StepsOfRun ==
    [launching |-> 10, launched |-> 9, opening |-> 8, running |-> 7, draining |-> 6,
     failing |-> 5, failClosing |-> 4, failDraining |-> 3, closing |-> 3,
     reporting |-> 2, broken |-> 1, idle |-> 0]

\* Each step of a run and each answer it waits for bring it nearer to its end,
\* and nothing that happens elsewhere, the browser's end included, sets it back.
RunsGoForward ==
    [][\A s \in Sessions : phase[s] # "idle" =>
          /\ StepsOfRun[phase'[s]] <= StepsOfRun[phase[s]]
          /\ \/ Advance(s)
             \/ (Acknowledge \/ CommandFails) /\ Head(wire).by = s
             => StepsOfRun[phase'[s]] < StepsOfRun[phase[s]]]_vars

\* The safety half of EveryRunEnds: a run has ten steps and answers at most, and
\* by GateInductive each answer it waits for has its command under way.
THEOREM RunsAreShort == Spec => RunsGoForward
<1>1. ASSUME IndInv, [Next]_vars, NEW s \in Sessions, phase[s] # "idle"
      PROVE  /\ StepsOfRun[phase'[s]] <= StepsOfRun[phase[s]]
             /\ \/ Advance(s)
                \/ (Acknowledge \/ CommandFails) /\ Head(wire).by = s
                => StepsOfRun[phase'[s]] < StepsOfRun[phase[s]]
  <2> USE DEF StepsOfRun, Answered, Thrown
  <2>1. phase \in [Sessions -> Phases] /\ phase' \in [Sessions -> Phases]
    <3>1. Cardinality(Sessions) \in Nat
      BY SessionsAreFinite, FS_CardinalityType
    <3>2. Shape
      BY <1>1, <3>1 DEF IndInv, TypeOK, Shape
    <3>3. Shape'
      BY <1>1, <3>2, ShapeStep DEF IndInv
    <3>4. QED BY <3>2, <3>3 DEF Shape
  <2>2. ASSUME Advance(s) PROVE StepsOfRun[phase'[s]] < StepsOfRun[phase[s]]
    <3>1. CASE Launch(s) \/ LaunchFails(s) \/ Join(s)
      BY <2>1, <3>1 DEF Launch, LaunchFails, Join
    <3>2. CASE Claim(s) \/ Drained(s) \/ FailureReleases(s)
      BY <2>1, <3>2 DEF Claim, Drained, FailureReleases, ReleaseGate, SetPermission
    <3>3. CASE SnippetReturns(s) \/ SnippetFails(s) \/ DrainTimesOut(s) \/ FailureDrains(s)
      BY <2>1, <3>3 DEF SnippetReturns, SnippetFails, DrainTimesOut, FailureDrains
    <3>4. CASE ReportSuccess(s) \/ ReportFailure(s)
      BY <2>1, <3>4 DEF ReportSuccess, ReportFailure, Finally
    <3>5. QED BY <2>2, <3>1, <3>2, <3>3, <3>4 DEF Advance
  <2>3. ASSUME Acknowledge \/ CommandFails
        PROVE  /\ Head(wire).by # s => phase'[s] = phase[s]
               /\ Head(wire).by = s => StepsOfRun[phase'[s]] < StepsOfRun[phase[s]]
    <3>1. wire # <<>> /\ 1 \in DOMAIN wire /\ Head(wire) = wire[1]
      BY <1>1, <2>3 DEF Acknowledge, CommandFails, IndInv, TypeOK
    <3>2. Head(wire).by = s => phase[s] \in DOMAIN Answered
      BY <1>1, <3>1 DEF IndInv, Queued
    <3>3. \/ phase' = [phase EXCEPT ![Head(wire).by] = Answered[@]]
          \/ phase' = [phase EXCEPT ![Head(wire).by] = Thrown[@]]
      BY <2>3 DEF Acknowledge, CommandFails
    <3>4. QED BY <2>1, <3>2, <3>3
  <2>4. StepsOfRun[phase[s]] \in Nat
    BY <2>1 DEF Phases
  <2>5. ASSUME NEW t \in Sessions \ {s}, Begin(t) \/ Advance(t) \/ CapacityExceeded(t)
        PROVE  phase'[s] = phase[s]
    BY <2>1, <2>5
    DEF Begin, Advance, CapacityExceeded, Launch, LaunchFails, Join, Claim, SnippetReturns,
        SnippetFails, Drained, DrainTimesOut, FailureReleases, FailureDrains, ReportSuccess,
        ReportFailure, Finally, ReleaseGate, SetPermission
  <2>6. ASSUME BrowserCloses \/ Teardown PROVE StepsOfRun[phase'[s]] <= StepsOfRun[phase[s]]
    <3>1. \/ phase'[s] = phase[s]
          \/ phase'[s] = Thrown[phase[s]] /\ phase[s] \in DOMAIN Answered
      BY <1>1, <2>6 DEF BrowserCloses, Teardown, Disconnect, IndInv, Queued
    <3>2. QED BY <2>4, <3>1
  <2>7. ASSUME CapacityExceeded(s) \/ Exit PROVE phase'[s] = "idle"
    BY <2>1, <2>7 DEF CapacityExceeded, Finally, Exit
  <2>8. ASSUME (\E t \in Sessions : DownloadAccepted(t) \/ DownloadSettles(t)) \/ UNCHANGED vars
        PROVE  phase' = phase
    BY <2>8 DEF DownloadAccepted, DownloadSettles, runs, vars
  <2>9. ~Begin(s)
    BY <1>1 DEF Begin
  <2>10. StepsOfRun[phase'[s]] <= StepsOfRun[phase[s]]
    <3>1. CASE \E t \in Sessions : \/ Begin(t) \/ Advance(t) \/ CapacityExceeded(t)
                                   \/ DownloadAccepted(t) \/ DownloadSettles(t)
      <4>1. PICK t \in Sessions : \/ Begin(t) \/ Advance(t) \/ CapacityExceeded(t)
                                  \/ DownloadAccepted(t) \/ DownloadSettles(t)
        BY <3>1
      <4>2. CASE t = s
        BY <2>1, <2>2, <2>4, <2>7, <2>8, <2>9, <4>1, <4>2 DEF Phases
      <4>3. CASE t # s
        <5>1. phase'[s] = phase[s]
          BY <2>5, <2>8, <4>1, <4>3
        <5>2. QED BY <2>4, <5>1
      <4>4. QED BY <4>2, <4>3
    <3>2. CASE Acknowledge \/ CommandFails
      <4>1. StepsOfRun[phase'[s]] < StepsOfRun[phase[s]] \/ phase'[s] = phase[s]
        BY <2>3, <3>2
      <4>2. StepsOfRun[phase'[s]] \in Nat
        BY <2>1 DEF Phases
      <4>3. QED BY <2>4, <4>1, <4>2
    <3>3. CASE Exit \/ UNCHANGED vars
      BY <2>4, <2>7, <2>8, <3>3
    <3>4. QED BY <1>1, <2>6, <3>1, <3>2, <3>3 DEF Next
  <2>11. QED BY <2>2, <2>3, <2>10
<1>2. ASSUME IndInv, [Next]_vars
      PROVE  [\A s \in Sessions : phase[s] # "idle" =>
                /\ StepsOfRun[phase'[s]] <= StepsOfRun[phase[s]]
                /\ \/ Advance(s)
                   \/ (Acknowledge \/ CommandFails) /\ Head(wire).by = s
                   => StepsOfRun[phase'[s]] < StepsOfRun[phase[s]]]_vars
  BY <1>1, <1>2
<1>3. QED BY GateInductive, <1>2, PTL DEF Spec, RunsGoForward
-----------------------------------------------------------------------------
(* The lock of the saved profile *)

\* The types of the profile lock; no heartbeat timer outlives its owner's hold.
THEOREM ProfileTypes == ProfileSpec => []ProfileTypeOK
<1> USE ProfileConstants DEF ProfileTypeOK, Acquiring, Owning, Final, Dir, Goto
<1>1. ProfileInit => ProfileTypeOK
  BY DEF ProfileInit
<1>2. ASSUME ProfileTypeOK, [ProfileNext]_profileVars PROVE ProfileTypeOK'
  <2>1. ASSUME NEW p \in Proc, BeginAcquire(p) \/ Exhaust(p) \/ Denied(p)
        PROVE  ProfileTypeOK'
    BY <1>2, <2>1 DEF BeginAcquire, Exhaust, Denied
  <2>2. ASSUME NEW p \in Proc, MkDir(p) PROVE ProfileTypeOK'
    BY <1>2, <2>2 DEF MkDir
  <2>3. ASSUME NEW p \in Proc, Write(p) \/ Cleanup(p) PROVE ProfileTypeOK'
    <3>1. CASE Write(p)
      <4>1. lock # NoDir => lock \in Dir
        BY <1>2
      <4>2. CASE lock # NoDir /\ pc' = [pc EXCEPT ![p] = "own"]
        <5>1. /\ signer' = [signer EXCEPT ![lock] = p] /\ stale' = stale \ {lock}
              /\ beating' = beating \cup {p} /\ UNCHANGED <<tries, lock, read>>
          <6>1. pc'[p] = "own"
            BY <1>2, <4>2
          <6>2. ~(pc' = [pc EXCEPT ![p] = "cleanup"])
            BY <1>2, <6>1
          <6>3. QED BY <3>1, <6>2 DEF Write
        <5>2. signer' \in [Dir -> Proc \cup {NoProc}]
          <6> HIDE DEF Dir
          <6>1. QED BY <1>2, <5>1
        <5>3. QED BY <1>2, <4>2, <5>1, <5>2
      <4>3. CASE pc' = [pc EXCEPT ![p] = "cleanup"] /\ UNCHANGED <<signer, stale, beating>>
        BY <1>2, <3>1, <4>3 DEF Write
      <4>4. QED BY <3>1, <4>2, <4>3 DEF Write
    <3>2. CASE Cleanup(p)
      BY <1>2, <3>2 DEF Cleanup
    <3>3. QED BY <2>3, <3>1, <3>2
  <2>4. ASSUME NEW p \in Proc,
               Inspect(p) \/ Stat(p) \/ StatDir(p) \/ Rename(p)
        PROVE  ProfileTypeOK'
    BY <1>2, <2>4
    DEF Inspect, Stat, StatDir, Rename, Signed
  <2>5. ASSUME NEW p \in Proc, Tick(p) \/ Touch(p) PROVE ProfileTypeOK'
    BY <1>2, <2>5 DEF Tick, Touch, Signed
  <2>6. ASSUME NEW p \in Proc, Release(p) \/ Remove(p) \/ Crash(p)
        PROVE  ProfileTypeOK'
    BY <1>2, <2>6 DEF Release, Remove, Crash
  <2>7. CASE Expire \/ UNCHANGED profileVars
    BY <1>2, <2>7 DEF Expire, profileVars
  <2>8. QED
    BY <1>2, <2>1, <2>2, <2>3, <2>4, <2>5, <2>6, <2>7
    DEF ProfileNext, ProcNext, Acquire
<1>3. QED BY <1>1, <1>2, PTL DEF ProfileSpec

\* Nobody takes away the directory of a worker that is about to sign it or owns
\* the profile with it.  Its own release and its own failed write may, and so may
\* whoever finds that its maker has died.
NotRobbed ==
    \A p \in Proc :
        pc[p] \in {"write", "own", "touch"} /\ lock # NoDir /\ lock.maker = p => lock' = lock

\* While nobody is robbed of the directory it made, at most one worker has been
\* given the saved profile: suspended owners, crashes, releases, the reclaiming
\* of dead workers' locks and simultaneous starts do no harm by themselves.  The
\* run profile_lock_owner shows how somebody is.
THEOREM OwnersNeedRemoval ==
    ProfileSpec /\ [][NotRobbed]_profileVars => []OneOwner
<1> DEFINE Made == \A p \in Proc :
               pc[p] \in {"write", "own", "touch"} => lock # NoDir /\ lock.maker = p
<1>1. ProfileInit => Made
  BY DEF ProfileInit
<1>2. ASSUME ProfileTypeOK, Made, [ProfileNext]_profileVars, [NotRobbed]_profileVars
      PROVE  Made'
  <2> USE <1>2 DEF ProfileTypeOK, Goto, profileVars, NotRobbed
  <2>1. ASSUME NEW p \in Proc, MkDir(p) PROVE Made'
    <3>1. CASE lock = NoDir
      <4>1. lock' = [maker |-> p, n |-> tries[p] + 1] /\ lock' \in Dir
        BY <2>1, <3>1, ProfileConstants DEF MkDir, Dir
      <4>2. lock' # NoDir /\ lock'.maker = p
        BY <4>1, ProfileConstants
      <4>3. QED BY <2>1, <3>1, <4>2 DEF MkDir
    <3>2. CASE lock # NoDir
      BY <2>1, <3>2 DEF MkDir
    <3>3. QED BY <3>1, <3>2
  <2>2. ASSUME NEW p \in Proc,
               \/ BeginAcquire(p) \/ Exhaust(p) \/ Denied(p) \/ Write(p)
               \/ Inspect(p) \/ Stat(p) \/ StatDir(p)
               \/ Tick(p) \/ Touch(p) \/ Release(p) \/ Crash(p)
        PROVE  Made'
    BY <2>2
    DEF BeginAcquire, Exhaust, Denied, Write, Inspect, Stat, StatDir, Tick, Touch,
        Release, Crash
  <2>3. ASSUME NEW p \in Proc, Cleanup(p) \/ Rename(p) \/ Remove(p)
        PROVE  Made'
    BY <2>3 DEF Cleanup, Rename, Remove
  <2>4. CASE Expire \/ UNCHANGED profileVars
    BY <2>4 DEF Expire
  <2>5. QED
    BY <2>1, <2>2, <2>3, <2>4 DEF ProfileNext, ProcNext, Acquire
<1>3. ASSUME Made PROVE OneOwner
  BY <1>3 DEF OneOwner
<1> HIDE DEF Made
<1>4. ProfileSpec => []ProfileTypeOK
  BY ProfileTypes
<1>5. QED BY <1>1, <1>2, <1>3, <1>4, PTL DEF ProfileSpec

\* Two attempts are enough: a worker that starts alone, with a lock that is free
\* or expired, is on the way to the saved profile and stays on it while it is
\* alone.
THEOREM LoneWorkerKeepsCourse ==
    ASSUME MaxTries > 1
    PROVE  ProfileSpec => KeepsCourse
<1>1. ASSUME ProfileTypeOK, [ProfileNext]_profileVars
      PROVE  [\A p \in Proc :
                OnCourse(p) /\ Alone(p) /\ Alone(p)'
                  => OnCourse(p)' \/ HasProfile(p)' \/ pc'[p] = "dead"]_profileVars
  <2> SUFFICES ASSUME ProfileNext, NEW p \in Proc,
                      OnCourse(p), Alone(p), Alone(p)'
               PROVE  OnCourse(p)' \/ HasProfile(p)' \/ pc'[p] = "dead"
    BY <1>1
  <2> USE <1>1 DEF ProfileTypeOK, OnCourse, HasProfile, Goto, Owning
  <2>1. CASE Expire
    BY <2>1 DEF Expire
  <2>2. ASSUME NEW q \in Proc \ {p}, ProcNext(q) PROVE FALSE
    <3>1. ~Running(q) /\ ~Running(q)'
      BY DEF Alone
    <3>2. pc[q] = "new" => pc'[q] = "mkdir"
      BY <2>2, <3>1
      DEF ProcNext, BeginAcquire, Acquire, MkDir, Exhaust, Denied, Write, Cleanup,
          Inspect, Stat, StatDir, Rename, Tick, Touch, Release, Remove, Crash,
          Running, Acquiring
    <3>3. pc[q] # "new"
      BY <3>1, <3>2 DEF Running, Acquiring
    <3>4. QED
      BY <2>2, <3>1, <3>3
      DEF ProcNext, BeginAcquire, Acquire, MkDir, Exhaust, Denied, Write, Cleanup,
          Inspect, Stat, StatDir, Rename, Tick, Touch, Release, Remove, Crash,
          Running, Acquiring
  <2>3. CASE MkDir(p)
    <3>1. CASE lock = NoDir
      <4>1. lock' = [maker |-> p, n |-> tries[p] + 1] /\ lock' \in Dir
        BY <2>3, <3>1, ProfileConstants DEF MkDir, Dir
      <4>2. QED BY <2>3, <3>1, <4>1, ProfileConstants DEF MkDir
    <3>2. CASE lock # NoDir
      BY <2>3, <3>2 DEF MkDir
    <3>3. QED BY <3>1, <3>2
  <2>4. CASE Exhaust(p)
    BY <2>4, ProfileConstants DEF Exhaust
  <2>5. CASE Write(p) \/ Cleanup(p) \/ Denied(p) \/ Crash(p)
    <3>1. CASE Write(p)
      <4>1. pc[p] = "write" /\ lock # NoDir /\ lock' = lock
        BY <3>1 DEF Write
      <4>2. \/ pc' = [pc EXCEPT ![p] = "own"]
            \/ MayDeny /\ pc' = [pc EXCEPT ![p] = "cleanup"]
        BY <3>1, <4>1 DEF Write
      <4>3. QED BY <4>2
    <3>2. CASE Cleanup(p) \/ Denied(p) \/ Crash(p)
      BY <3>2 DEF Cleanup, Denied, Crash
    <3>3. QED BY <2>5, <3>1, <3>2
  <2>6. CASE Inspect(p) \/ Stat(p) \/ StatDir(p) \/ Rename(p)
    BY <2>6 DEF Inspect, Stat, StatDir, Rename, Signed
  <2>7. CASE \/ BeginAcquire(p) \/ Tick(p) \/ Touch(p)
             \/ Release(p) \/ Remove(p)
    BY <2>7 DEF BeginAcquire, Tick, Touch, Release, Remove
  <2>8. QED
    BY <2>1, <2>2, <2>3, <2>4, <2>5, <2>6, <2>7
    DEF ProfileNext, ProcNext, Acquire
<1>2. QED BY ProfileTypes, <1>1, PTL DEF ProfileSpec, KeepsCourse
=============================================================================
