---------------------------- MODULE DownloadGate ----------------------------
(***************************************************************************)
(* The browser worker's download gate (src/src/worker.ts).  Chromium has   *)
(* one download switch for the whole browser, set by a CDP command that    *)
(* takes effect and is acknowledged later; every execute in flight shares  *)
(* it.  The worker counts the executes that claim an open gate, remembers  *)
(* the last acknowledged setting, and decides per session which downloads  *)
(* an open gate actually permits.  Sessions run concurrently: an action    *)
(* below is what one execute does between two awaits.                      *)
(*                                                                         *)
(* Modelled for downloadPolicy "ask", where an execute claims the gate     *)
(* exactly when the user approved its downloads.                           *)
(***************************************************************************)
EXTENDS Naturals, FiniteSets, Sequences

CONSTANTS
    Sessions,   \* the session names whose executes share the worker
    MayClose,   \* may the browser context close (crash) under the worker?
    MayFail     \* may Browser.setDownloadBehavior fail while it is open?

ASSUME SessionsAreFinite == IsFiniteSet(Sessions)

VARIABLES
    browser,    \* is there an open browserContext?
    switch,     \* Chromium's own download switch
    wire,       \* setDownloadBehavior commands sent and not yet answered
    current,    \* currentDownloadBehavior: the last acknowledged command
    ready,      \* downloadGuardReady
    holders,    \* downloadAllowHolders
    approved,   \* approvedDownloadSessions
    phase,      \* where each session's execute is
    wants,      \* was the session's current run approved for downloads?
    holds,      \* holdsDownloadGate of the session's execute
    fatal,      \* restartWorker of the session's execute
    report,     \* the result sent for the session's last run
    saving,     \* sessions with a download accepted and not yet settled
    worker      \* the worker process: up, about to stop, or torn down

gate == <<browser, switch, wire, current, ready, holders, approved>>
runs == <<phase, wants, holds, fatal, report>>
vars == <<gate, runs, saving, worker>>

Behavior(open) == IF open THEN "allow" ELSE "deny"

\* What an execute does once the command it awaits is answered: the snippet
\* runs, the result is reported, or the failed run waits for its downloads.
Answered == [opening     |-> "running",
             closing     |-> "reporting",
             failClosing |-> "failDraining"]

\* Where the execute's catch block picks up when that await throws instead.
Thrown == [opening     |-> "failing",
           closing     |-> "broken",
           failClosing |-> "broken"]

Phases == {"idle", "launching", "launched", "running", "draining", "reporting",
           "failing", "failDraining", "broken"} \cup DOMAIN Answered

Init ==
    /\ browser = FALSE
    /\ switch = "deny"
    /\ wire = <<>>
    /\ current = "deny"
    /\ ready = FALSE
    /\ holders = 0
    /\ approved = {}
    /\ phase = [s \in Sessions |-> "idle"]
    /\ wants = [s \in Sessions |-> FALSE]
    /\ holds = [s \in Sessions |-> FALSE]
    /\ fatal = [s \in Sessions |-> FALSE]
    /\ report = [s \in Sessions |-> "none"]
    /\ saving = {}
    /\ worker = "up"

-----------------------------------------------------------------------------
(* The shared gate *)

\* setDownloadPermission(open), called by s, which then waits in `await`: it
\* returns at once when the remembered setting already agrees (even if a
\* command that changes it is on the wire), or when there is no guard and
\* nothing to open; it throws when there is no guard to open; otherwise it
\* sends the command.
SetPermission(s, await, open) ==
    \/ /\ IF ready THEN current = Behavior(open) ELSE ~open
       /\ phase' = [phase EXCEPT ![s] = Answered[await]]
       /\ UNCHANGED <<wire, fatal>>
    \/ /\ ~ready /\ open
       /\ phase' = [phase EXCEPT ![s] = Thrown[await]]
       /\ fatal' = [fatal EXCEPT ![s] = FALSE]
       /\ UNCHANGED wire
    \/ /\ ready /\ current # Behavior(open)
       /\ wire' = Append(wire, [by |-> s, set |-> Behavior(open)])
       /\ phase' = [phase EXCEPT ![s] = await]
       /\ UNCHANGED fatal

\* The count after s gives its claim back.
Released(s) == IF holds[s] /\ holders > 0 THEN holders - 1 ELSE holders

\* releaseDownloadGate: give the claim back at most once, then bring the
\* switch in line with the claims that are left.
ReleaseGate(s, await) ==
    /\ holders' = Released(s)
    /\ holds' = [holds EXCEPT ![s] = FALSE]
    /\ SetPermission(s, await, holders' > 0)

\* Chromium carries out the oldest command and the worker sees the reply.
Acknowledge ==
    /\ browser
    /\ wire # <<>>
    /\ LET head == Head(wire) IN
       /\ switch' = head.set
       /\ current' = head.set
       /\ phase' = [phase EXCEPT ![head.by] = Answered[@]]
    /\ wire' = Tail(wire)
    /\ UNCHANGED <<browser, ready, holders, approved, wants, holds, fatal,
                   report, saving, worker>>

\* The command fails: BW_DOWNLOAD_GUARD, which calls for a new worker.
CommandFails ==
    /\ MayFail
    /\ wire # <<>>
    /\ LET s == Head(wire).by IN
       /\ phase' = [phase EXCEPT ![s] = Thrown[@]]
       /\ fatal' = [fatal EXCEPT ![s] = TRUE]
    /\ ready' = FALSE
    /\ wire' = Tail(wire)
    /\ UNCHANGED <<browser, switch, current, holders, approved, wants, holds,
                   report, saving, worker>>
-----------------------------------------------------------------------------
(* One execute *)

\* The session's lane starts a run.
Begin(s) ==
    /\ phase[s] = "idle"
    /\ phase' = [phase EXCEPT ![s] = "launching"]
    /\ \E w \in BOOLEAN : wants' = [wants EXCEPT ![s] = w]
    /\ fatal' = [fatal EXCEPT ![s] = FALSE]
    /\ report' = [report EXCEPT ![s] = "none"]
    /\ UNCHANGED <<gate, holds, saving, worker>>

\* ensureBrowser without a context: installDownloadGuard forgets every claim
\* and every approval, and starts the new browser with the gate shut.
Launch(s) ==
    /\ phase[s] = "launching"
    /\ ~browser
    /\ browser' = TRUE
    /\ ready' = TRUE
    /\ switch' = "deny"
    /\ current' = "deny"
    /\ holders' = 0
    /\ approved' = {}
    /\ phase' = [phase EXCEPT ![s] = "launched"]
    /\ UNCHANGED <<wire, wants, holds, fatal, report, saving, worker>>

\* ensureBrowser with an open context.
Join(s) ==
    /\ phase[s] = "launching"
    /\ browser
    /\ phase' = [phase EXCEPT ![s] = "launched"]
    /\ UNCHANGED <<gate, wants, holds, fatal, report, saving, worker>>

\* No candidate launches: closeDownloadGuard, and the run ends without ever
\* having configured downloads.
LaunchFails(s) ==
    /\ phase[s] = "launching"
    /\ ~browser
    /\ ready' = FALSE
    /\ current' = "deny"
    /\ holders' = 0
    /\ approved' = {}
    /\ phase' = [phase EXCEPT ![s] = "broken"]
    /\ UNCHANGED <<browser, switch, wire, wants, holds, fatal, report, saving,
                   worker>>

\* Record the approval, take the claim, set the switch.  The browser may have
\* closed since ensureBrowser returned.
Claim(s) ==
    /\ phase[s] = "launched"
    /\ approved' = IF wants[s] THEN approved \cup {s} ELSE approved
    /\ holds' = [holds EXCEPT ![s] = wants[s]]
    /\ holders' = holders + (IF wants[s] THEN 1 ELSE 0)
    /\ SetPermission(s, "opening", holders' > 0)
    /\ UNCHANGED <<browser, switch, current, ready, wants, report, saving,
                   worker>>

\* The snippet returns; the run now waits for every download in the worker.
SnippetReturns(s) ==
    /\ phase[s] = "running"
    /\ phase' = [phase EXCEPT ![s] = "draining"]
    /\ UNCHANGED <<gate, wants, holds, fatal, report, saving, worker>>

\* The snippet throws, or is timed out (BW_TIMEOUT, which restarts the worker).
SnippetFails(s) ==
    /\ phase[s] = "running"
    /\ phase' = [phase EXCEPT ![s] = "failing"]
    /\ \E timeout \in BOOLEAN : fatal' = [fatal EXCEPT ![s] = timeout]
    /\ UNCHANGED <<gate, wants, holds, report, saving, worker>>

\* Fault: the run does not wait for its downloads.
DrainedUnwaited(s) ==
    /\ phase[s] = "draining"
    /\ approved' = approved \ {s}
    /\ ReleaseGate(s, "closing")
    /\ UNCHANGED <<browser, switch, current, ready, wants, report, saving,
                   worker>>

\* waitForPendingDownloads has seen the last one settle: the approval ends
\* and the claim is released.
Drained(s) ==
    /\ phase[s] = "draining"
    /\ saving = {}
    /\ approved' = approved \ {s}
    /\ ReleaseGate(s, "closing")
    /\ UNCHANGED <<browser, switch, current, ready, wants, report, saving,
                   worker>>

\* A download of some session outlives this run's deadline.
DrainTimesOut(s) ==
    /\ phase[s] = "draining"
    /\ saving # {}
    /\ phase' = [phase EXCEPT ![s] = "failing"]
    /\ fatal' = [fatal EXCEPT ![s] = TRUE]
    /\ UNCHANGED <<gate, wants, holds, report, saving, worker>>

\* The catch block of a run that configured downloads: close the approval
\* window before waiting on what is still downloading.
FailureReleases(s) ==
    /\ phase[s] = "failing"
    /\ approved' = approved \ {s}
    /\ ReleaseGate(s, "failClosing")
    /\ UNCHANGED <<browser, switch, current, ready, wants, report, saving,
                   worker>>

\* Fault: the catch block waits for the downloads without a deadline.
FailureDrainsUnbounded(s) ==
    /\ phase[s] = "failDraining"
    /\ saving = {}
    /\ phase' = [phase EXCEPT ![s] = "broken"]
    /\ UNCHANGED <<gate, wants, holds, fatal, report, saving, worker>>

\* waitForPendingDownloads(2_000) in the catch block: it ends when nothing is
\* pending, and throws BW_TIMEOUT when something still is.
FailureDrains(s) ==
    /\ phase[s] = "failDraining"
    /\ phase' = [phase EXCEPT ![s] = "broken"]
    /\ fatal' = [fatal EXCEPT ![s] = @ \/ saving # {}]
    /\ UNCHANGED <<gate, wants, holds, report, saving, worker>>

\* The finally block: a claim not given back is dropped from the count, with
\* no command to the browser, and a fatal failure schedules the restart.
Finally(s, outcome, restart) ==
    /\ phase' = [phase EXCEPT ![s] = "idle"]
    /\ report' = [report EXCEPT ![s] = outcome]
    /\ approved' = approved \ {s}
    /\ holders' = Released(s)
    /\ holds' = [holds EXCEPT ![s] = FALSE]
    /\ worker' = IF restart /\ worker = "up" THEN "stopping" ELSE worker
    /\ UNCHANGED <<browser, switch, wire, current, ready, wants, fatal,
                   saving>>

ReportSuccess(s) ==
    /\ phase[s] = "reporting"
    /\ Finally(s, "ok", FALSE)

\* A failure: in the run, or while its result is summarised.
ReportFailure(s) ==
    /\ phase[s] \in {"broken", "reporting"}
    /\ Finally(s, "failed", phase[s] = "broken" /\ fatal[s])

\* The redaction capacity is exceeded: the catch block returns before it
\* releases anything, and the worker restarts.
CapacityExceeded(s) ==
    /\ phase[s] \in {"launching", "running", "draining", "reporting"}
    /\ Finally(s, "failed", TRUE)
-----------------------------------------------------------------------------
(* Downloads, the browser, the worker process *)

\* Fault: any open claim vouches for any session's download.
AcceptsAnyClaim(s) ==
    /\ current = "allow"
    /\ holders > 0
    /\ phase[s] # "idle"
    /\ ready

\* handleDownload's decision for a page of session s.
Accepts(s) ==
    /\ current = "allow"
    /\ s \in approved
    /\ phase[s] # "idle"
    /\ ready

\* A page of session s starts a download and the handler takes it on.
DownloadAccepted(s) ==
    /\ browser
    /\ s \notin saving
    /\ Accepts(s)
    /\ saving' = saving \cup {s}
    /\ UNCHANGED <<gate, runs, worker>>

\* It is saved, or it fails.
DownloadSettles(s) ==
    /\ s \in saving
    /\ saving' = saving \ {s}
    /\ UNCHANGED <<gate, runs, worker>>

\* The transport goes away: every command still on the wire is rejected.
Disconnect ==
    LET waiting == {wire[i].by : i \in DOMAIN wire} IN
    /\ browser' = FALSE
    /\ ready' = FALSE
    /\ wire' = <<>>
    /\ phase' = [s \in Sessions |->
                    IF s \in waiting THEN Thrown[phase[s]] ELSE phase[s]]
    /\ fatal' = [s \in Sessions |-> fatal[s] \/ s \in waiting]
    /\ UNCHANGED <<wants, holds, report, saving>>

\* The context closes under the worker; its "close" handler leaves the count
\* and the approvals as they are.
BrowserCloses ==
    /\ MayClose
    /\ browser
    /\ Disconnect
    /\ UNCHANGED <<switch, current, holders, approved, worker>>

\* performShutdown: closeDownloadGuard, then the context is closed.
Teardown ==
    /\ worker = "stopping"
    /\ worker' = "closed"
    /\ Disconnect
    /\ switch' = "default"
    /\ current' = "deny"
    /\ holders' = 0
    /\ approved' = {}

\* process.exit, and the host's next request spawns a fresh worker.
Exit ==
    /\ worker = "closed"
    /\ browser' = FALSE
    /\ switch' = "deny"
    /\ wire' = <<>>
    /\ current' = "deny"
    /\ ready' = FALSE
    /\ holders' = 0
    /\ approved' = {}
    /\ phase' = [s \in Sessions |-> "idle"]
    /\ wants' = [s \in Sessions |-> FALSE]
    /\ holds' = [s \in Sessions |-> FALSE]
    /\ fatal' = [s \in Sessions |-> FALSE]
    /\ report' = [s \in Sessions |-> "none"]
    /\ saving' = {}
    /\ worker' = "up"

\* What the execute of s does on its own once it has begun.
Advance(s) ==
    \/ Launch(s)
    \/ LaunchFails(s)
    \/ Join(s)
    \/ Claim(s)
    \/ SnippetReturns(s)
    \/ SnippetFails(s)
    \/ Drained(s)
    \/ DrainTimesOut(s)
    \/ FailureReleases(s)
    \/ FailureDrains(s)
    \/ ReportSuccess(s)
    \/ ReportFailure(s)

Next ==
    \/ \E s \in Sessions :
          \/ Begin(s)
          \/ Advance(s)
          \/ CapacityExceeded(s)
          \/ DownloadAccepted(s)
          \/ DownloadSettles(s)
    \/ Acknowledge
    \/ CommandFails
    \/ BrowserCloses
    \/ Teardown
    \/ Exit

Spec == Init /\ [][Next]_vars

\* Every await of an execute ends: the snippet and both download waits have a
\* deadline, a launch succeeds or fails, Chromium answers or the transport
\* reports that it will not.  Nothing obliges a download to finish, a new run
\* to start, or a browser to stay open.
Fairness ==
    /\ \A s \in Sessions : WF_vars(Advance(s))
    /\ WF_vars(Acknowledge \/ CommandFails)

FairSpec == Spec /\ Fairness
-----------------------------------------------------------------------------
Command == [by : Sessions, set : {"allow", "deny"}]

\* The types; the count of claims is never negative and never exceeds the
\* number of sessions, and an execute has at most one command on the wire.
TypeOK ==
    /\ browser \in BOOLEAN /\ ready \in BOOLEAN
    /\ worker \in {"up", "stopping", "closed"}
    /\ switch \in {"allow", "deny", "default"}
    /\ current \in {"allow", "deny"}
    /\ wire \in Seq(Command) /\ Len(wire) <= Cardinality(Sessions)
    /\ holders \in 0 .. Cardinality(Sessions)
    /\ approved \subseteq Sessions /\ saving \subseteq Sessions
    /\ phase \in [Sessions -> Phases]
    /\ wants \in [Sessions -> BOOLEAN]
    /\ holds \in [Sessions -> BOOLEAN]
    /\ fatal \in [Sessions -> BOOLEAN]
    /\ report \in [Sessions -> {"none", "ok", "failed"}]

\* Once a run has been reported successful, no download it started is still
\* being saved: the artifacts in the result are all there will be.
NoLateSave ==
    \A s \in Sessions : report[s] = "ok" => s \notin saving

\* An approval never leaks, neither sideways into another session nor into a
\* later run: whatever gate its neighbours hold open, a session's download is
\* taken on only during a run of that session that the user approved.
AcceptedUnderApproval ==
    [][\A s \in saving' \ saving : phase[s] # "idle" /\ wants[s]]_vars

\* Every run comes to an end, even if a download of its own or of another
\* session never does and the browser dies under it.
EveryRunEnds ==
    \A s \in Sessions : phase[s] # "idle" ~> phase[s] = "idle"
-----------------------------------------------------------------------------
(* The inductive invariant *)

\* An execute that waits for a command has exactly one on the wire, and one
\* that does not has none: no answer is waited for that will not come.  Only
\* an open browser has a guard or commands to answer.
Queued ==
    /\ ready \/ wire # <<>> => browser
    /\ \A s \in Sessions :
          phase[s] \in DOMAIN Answered <=> \E i \in DOMAIN wire : wire[i].by = s
    /\ \A i, j \in DOMAIN wire : wire[i].by = wire[j].by => i = j

\* The sessions whose execute has a claim to give back.
Claimants == {s \in Sessions : holds[s]}

\* A claim is that of a run the user approved, which has not given it back
\* yet; no claim is counted twice, and only claimants are approved.
Claimed ==
    /\ \A s \in Claimants :
          wants[s] /\ phase[s] \in {"opening", "running", "draining", "failing"}
    /\ holders <= Cardinality(Claimants)
    /\ approved \subseteq Claimants

\* From the last look at the downloads in progress to the result, and until
\* the next run, nothing of a successful run is being saved.
Settled ==
    \A s \in Sessions :
        /\ phase[s] \in {"closing", "reporting"} => s \notin saving
        /\ report[s] = "ok" => phase[s] = "idle"

\* The state is well formed, no file of a run reported successful is still to
\* come, and why.
IndInv == TypeOK /\ NoLateSave /\ Queued /\ Claimed /\ Settled
=============================================================================
