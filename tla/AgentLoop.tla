----------------------------- MODULE AgentLoop -----------------------------
(***************************************************************************)
(* One task of the agent harness: runAgentTask of src/agent.ts.  The loop  *)
(* alternates model turns and tool batches until an answer is accepted, a  *)
(* bound is hit, the deadline passes or the caller interrupts it.  People  *)
(* steer it meanwhile, from a terminal and from the chat of the live view, *)
(* and the live view itself is started, on the side, by the first progress *)
(* note that wants to be mirrored there.                                   *)
(*                                                                         *)
(* The transcript is kept as far as the next request can be refused for    *)
(* it: what its last message is, which calls of it have no result yet, and *)
(* whether any earlier turn was left open.                                 *)
(***************************************************************************)
EXTENDS Integers, Sequences, FiniteSets

CONSTANTS
    Messages,       \* bound: messages people type while the task runs
    Options,        \* the ways the task may have been started
    MaxCalls,       \* bound: calls the model batches in one turn
    MaxLane,        \* bound: live view operations queued at once
    InboxLimit,     \* HUMAN_INBOX_LIMIT of the viewer's chat, 50 in the code
    FailureLimit,   \* REPEATED_FAILURE_LIMIT, 5 in the code
    CheckLimit      \* completion checks between two human messages, 3 in the code

(* handoff: there is somewhere to put a viewer's URL; watch: the viewer    *)
(* was asked for up front; checkout: the task gets completion checks;      *)
(* guarded: the deployer set limits; owns: the run made its own browser.   *)
ASSUME OptionsAssumption ==
    /\ Options \subseteq [handoff : BOOLEAN, watch : BOOLEAN, checkout : BOOLEAN,
                          guarded : BOOLEAN, owns : BOOLEAN]
    /\ Messages \in Nat /\ MaxCalls \in Nat \ {0} /\ MaxLane \in Nat \ {0} /\ InboxLimit \in Nat \ {0}
    /\ FailureLimit \in Nat \ {0} /\ CheckLimit \in Nat \ {0}

VARIABLES
    opts,              \* the options of this task
    pc,                \* where the loop stands
    at,                \* what the steering being collected was collected for
    news,              \* whether that collection found any
    reply,             \* the answer in prose being considered
    calls,             \* the calls of this turn still to be carried out
    unanswered,        \* how many calls of this turn have no result yet
    last,              \* the last message of the transcript
    broken,            \* an earlier turn of the transcript was left open
    finished, reason, answer,       \* what the task would return
    noProgress, repeated,           \* the streak of identical failures
    completionChecks, proposed, evidence,  \* the completion check
    checked,           \* history: the answer the last check was asked about
    where,             \* where each human message is
    inbox,             \* the chat's uncollected messages, the oldest first
    due,               \* history: messages that must reach the model first
    left,              \* history: those of them a collection could not get at
    viewer,            \* the live view, by who started it
    liveViewReady, agentStarted,    \* what the run believes of it
    lane,              \* the browser's host lane: live view operations in order
    stopped, late      \* the caller's signal; the deadline

turnVars == <<calls, unanswered, last, broken>>
resultVars == <<finished, reason, answer, noProgress, repeated>>
checkVars == <<completionChecks, proposed, evidence, checked>>
steerVars == <<where, inbox, due, left>>
viewVars == <<viewer, liveViewReady, agentStarted, lane>>
envVars == <<opts, stopped, late>>
vars == <<pc, at, news, reply, turnVars, resultVars, checkVars, steerVars, viewVars, envVars>>

Tools == {"done", "browser", "login", "human", "stop", "status", "other"}
Answers == {"none", "claim", "huge", "fixed", "notice"}
Replies == {"answer", "huge", "empty", "truncated", "refused"}
Guarded == {"model", "browser", "view", "human", "observe", "inspect", "judge"}
Waiting == {"opening", "view", "lane", "posting", "teardown"}
Ending == {"post", "posting", "closing", "teardown", "over"}
Loop == Guarded \cup Waiting
          \cup {"start", "top", "drain", "terminal", "drained", "calls", "login", "post", "closing"}

\* The messages of people, numbered in the order they are typed.
Message == 1 .. Messages

In(place) == {m \in Message : where[m] = place}
Heard(messages, to) == [m \in Message |-> IF m \in messages THEN to ELSE where[m]]
Unheeded == {m \in due \ left : where[m] # "gone"}

Init ==
    /\ opts \in Options
    /\ pc = "start" /\ at = "top" /\ news = FALSE /\ reply = "empty"
    /\ calls = <<>> /\ unanswered = 0 /\ last = "user" /\ broken = FALSE
    /\ finished = FALSE /\ reason = "stopped" /\ answer = "none"
    /\ noProgress = FALSE /\ repeated = 0
    /\ completionChecks = 0 /\ proposed = "none" /\ evidence = FALSE /\ checked = "none"
    /\ where = [m \in Message |-> "unsent"] /\ inbox = <<>> /\ due = {} /\ left = {}
    /\ viewer \in {"none", "host"} /\ liveViewReady = FALSE /\ agentStarted = FALSE
    /\ lane = <<>>
    /\ stopped = FALSE /\ late = FALSE
-----------------------------------------------------------------------------
(* The people around the run.  It looks at the signal and the deadline no  *)
(* more once it is ending.                                                 *)

Interrupt == ~stopped /\ pc \notin Ending /\ stopped' = TRUE
             /\ UNCHANGED <<pc, at, news, reply, turnVars, resultVars, checkVars, steerVars, viewVars, opts, late>>

Expire == ~late /\ pc \notin Ending /\ late' = TRUE
          /\ UNCHANGED <<pc, at, news, reply, turnVars, resultVars, checkVars, steerVars, viewVars, opts, stopped>>

(* A pending ask, of the run or of somebody else on the browser, takes the *)
(* text as its answer.  Otherwise it is queued, and a full inbox loses the *)
(* oldest message for it.                                                  *)
QueueHumanMessage(m) ==
    \/ where' = [where EXCEPT ![m] = "gone"] /\ UNCHANGED inbox
    \/ /\ Len(inbox) < InboxLimit
       /\ where' = [where EXCEPT ![m] = "view"] /\ inbox' = Append(inbox, m)
    \/ /\ Len(inbox) >= InboxLimit
       /\ where' = [where EXCEPT ![m] = "view", ![Head(inbox)] = "gone"]
       /\ inbox' = Append(Tail(inbox), m)

Steer(m, source) ==
    /\ where[m] = "unsent" /\ pc # "over" /\ \A n \in Message : n < m => where[n] # "unsent"
    /\ \/ source = "terminal" /\ where' = [where EXCEPT ![m] = source] /\ UNCHANGED inbox
       \/ source = "view" /\ viewer # "none" /\ QueueHumanMessage(m)
    /\ UNCHANGED <<pc, at, news, reply, turnVars, resultVars, checkVars, due, left, viewVars, envVars>>

Emptied(to) == inbox' = <<>> /\ where' = Heard(In("view"), to)

(* What was typed into a viewer and not collected goes with it. *)
ViewerGone == viewer' = "none" /\ Emptied("gone") /\ UNCHANGED <<due, left>>

(* The host, or another run on the browser, opens a viewer, stops it, or   *)
(* drains its chat for itself.                                             *)
HostView ==
    /\ pc # "over"
    /\ \/ viewer = "none" /\ viewer' = "host" /\ UNCHANGED steerVars
       \/ viewer # "none" /\ ViewerGone
       \/ viewer # "none" /\ Emptied("gone") /\ UNCHANGED <<viewer, due, left>>
    /\ UNCHANGED <<pc, at, news, reply, turnVars, resultVars, checkVars,
                   liveViewReady, agentStarted, lane, envVars>>
-----------------------------------------------------------------------------
(* The live view operations of the run, carried out in order by the host   *)
(* lane of the browser.  One the run does not wait for any more is carried *)
(* out all the same, and what it reports still reaches the run's flags.    *)

Fresh == viewer = "none"

\* Fault: a second start, which finds the viewer running, disowns it.
LastStartCounts ==
    \/ UNCHANGED <<viewer, liveViewReady, agentStarted>>
    \/ /\ viewer' = IF Fresh THEN "own" ELSE viewer
       /\ agentStarted' = Fresh
       /\ liveViewReady' = TRUE

StartView ==
    \/ UNCHANGED <<viewer, liveViewReady, agentStarted>>
    \/ /\ viewer' = IF Fresh THEN "own" ELSE viewer
       /\ agentStarted' = (agentStarted \/ Fresh)
       /\ liveViewReady' = TRUE

(* A stop that fails took the worker with it, and its viewer.  Only one    *)
(* that the live_view tool asked for clears the flags, when it succeeds.   *)
StopView ==
    /\ ViewerGone
    /\ \/ UNCHANGED <<liveViewReady, agentStarted>>
       \/ Head(lane) = "stop" /\ liveViewReady' = FALSE /\ agentStarted' = FALSE

ViewStatus == liveViewReady' = (liveViewReady \/ viewer # "none")

Serve ==
    /\ lane # <<>>
    /\ lane' = Tail(lane)
    /\ \/ Head(lane) = "start" /\ StartView /\ UNCHANGED steerVars
       \/ Head(lane) \in {"stop", "end"} /\ StopView
       \/ Head(lane) = "status" /\ ViewStatus /\ UNCHANGED <<steerVars, viewer, agentStarted>>
    /\ UNCHANGED <<pc, at, news, reply, turnVars, resultVars, checkVars, envVars>>

Enqueue(op) == lane' = Append(lane, op) /\ UNCHANGED <<viewer, liveViewReady, agentStarted>>

(* A progress note is mirrored into the chat, and nobody waits for the     *)
(* viewer it may have to start.                                            *)
Mirror ==
    IF opts.handoff /\ ~liveViewReady /\ Len(lane) < MaxLane
    THEN Enqueue("start") ELSE UNCHANGED viewVars
-----------------------------------------------------------------------------
(* The loop's own bookkeeping.                                             *)

Goto(p) == pc' = p /\ UNCHANGED <<at, news, reply>>
Collect(for) == pc' = "drain" /\ at' = for /\ UNCHANGED <<news, reply>>

Break(why) == reason' = why /\ UNCHANGED <<finished, answer, noProgress, repeated>> /\ Goto("post")

(* What was typed by now has to reach the model before an answer is taken. *)
Note == due' = due \cup In("terminal") \cup In("view") /\ left' = {}
        /\ UNCHANGED <<where, inbox>>

(* A message that follows a turn with open calls and is not their results  *)
(* makes the transcript one that every provider refuses.                   *)
AppendMessage(kind) ==
    /\ last' = kind
    /\ broken' = (broken \/ (last = "calls" /\ (kind # "tool" \/ unanswered # 0)))

Begin ==
    /\ pc = "start"
    /\ IF opts.handoff /\ opts.watch THEN Enqueue("start") /\ Goto("opening")
                                     ELSE UNCHANGED viewVars /\ Goto("top")
    /\ UNCHANGED <<turnVars, resultVars, checkVars, steerVars, envVars>>

Opened ==
    /\ pc = "opening" /\ lane = <<>> /\ Goto("top")
    /\ UNCHANGED <<turnVars, resultVars, checkVars, steerVars, viewVars, envVars>>

Top ==
    /\ pc = "top"
    /\ \/ stopped /\ Break("interrupted")
       \/ ~stopped /\ Break("context_limit")
       \/ ~stopped /\ Collect("top") /\ UNCHANGED resultVars
    /\ UNCHANGED <<turnVars, checkVars, steerVars, viewVars, envVars>>

(* The chat is drained first, the terminal after it, and what either holds *)
(* is appended as one message.  A drain that fails is taken for an empty   *)
(* one: the chat keeps its messages unless it had handed them over.  A     *)
(* viewer the run has not joined is not drained.                           *)
DrainChat ==
    /\ pc = "drain" /\ Goto("terminal")
    /\ \/ /\ opts.handoff /\ liveViewReady
          /\ Emptied("held") \/ Emptied("gone")
          /\ left' = left \ In("view")
       \/ left' = left \cup (due \cap In("view")) /\ UNCHANGED <<where, inbox>>
    /\ UNCHANGED <<due, turnVars, resultVars, checkVars, viewVars, envVars>>

DrainTerminal ==
    /\ pc = "terminal" /\ pc' = "drained"
    /\ \E heard \in {In("terminal"), {}} :
        LET lines == heard \cup In("held") IN
        /\ news' = (lines # {})
        /\ where' = Heard(lines, "told")
        /\ left' = (left \ heard) \cup (due \cap (In("terminal") \ heard))
        /\ IF lines = {} THEN UNCHANGED <<last, broken>> ELSE AppendMessage("user")
        /\ UNCHANGED <<at, reply, calls, unanswered, inbox, due, resultVars, checkVars, viewVars, envVars>>

\* Fault: no watchdog, only the caller's signal ends what runs.
CutByCaller ==
    /\ pc \in Guarded /\ stopped /\ reason' = "interrupted"
    /\ Goto("closing")
    /\ UNCHANGED <<finished, answer, noProgress, repeated, turnVars, checkVars, steerVars, viewVars, envVars>>

(* The deadline and the caller's signal end what runs under them. *)
Cut ==
    /\ pc \in Guarded
    /\ \/ stopped /\ reason' = "interrupted"
       \/ late /\ reason' = "timeout"
    /\ Goto("closing")
    /\ UNCHANGED <<finished, answer, noProgress, repeated, turnVars, checkVars, steerVars, viewVars, envVars>>

InTime == ~stopped /\ ~late
-----------------------------------------------------------------------------
(* The model's turn. *)

CallModel ==
    /\ pc = "drained" /\ at = "top" /\ pc' = "model"
    /\ news' = FALSE /\ reply' = "empty" /\ UNCHANGED at
    /\ due' = Unheeded \ In("told") /\ left' = {}
    /\ proposed' = "none" /\ evidence' = FALSE /\ checked' = "none"
    /\ UNCHANGED <<where, inbox, turnVars, resultVars, completionChecks, viewVars, envVars>>

(* Transient failures that outlast the retries end the run with what it    *)
(* has; any other failure is the caller's.                                 *)
ModelFails ==
    /\ pc = "model" /\ InTime
    /\ \/ Break("model_error")
       \/ reason' = "thrown" /\ Goto("closing") /\ UNCHANGED <<finished, answer, noProgress, repeated>>
    /\ UNCHANGED <<turnVars, checkVars, steerVars, viewVars, envVars>>

ModelAnswers(text) ==
    /\ pc = "model" /\ InTime
    /\ pc' = "drain" /\ at' = "prose" /\ reply' = text /\ UNCHANGED news
    /\ AppendMessage("assistant") /\ UNCHANGED <<calls, unanswered>>
    /\ Note
    /\ UNCHANGED <<resultVars, checkVars, viewVars, envVars>>

ModelCalls(batch) ==
    /\ pc = "model" /\ InTime
    /\ calls' = batch /\ unanswered' = Len(batch)
    /\ AppendMessage("calls")
    /\ Goto("calls")
    /\ UNCHANGED <<resultVars, checkVars, steerVars, viewVars, envVars>>

(* checkCheckoutCompletion, up to its first await: the answer is withdrawn *)
(* until a check has approved it.                                          *)
Settle(text, why, streak) ==
    IF ~opts.checkout \/ text = "none"
    THEN /\ finished' = TRUE /\ answer' = text /\ reason' = why
         /\ noProgress' = streak /\ UNCHANGED proposed /\ Goto("post")
    ELSE IF text = "huge"
    THEN /\ finished' = FALSE /\ answer' = "notice" /\ reason' = "no_progress"
         /\ noProgress' = TRUE /\ UNCHANGED proposed /\ Goto("post")
    ELSE /\ finished' = FALSE /\ answer' = "none" /\ reason' = why
         /\ noProgress' = streak /\ proposed' = text /\ Goto("observe")

Prose ==
    /\ pc = "drained" /\ at = "prose"
    /\ \/ news /\ Goto("top") /\ UNCHANGED <<resultVars, checkVars>>
       \/ /\ ~news /\ reply \in {"truncated", "refused"}
          /\ answer' = "claim" /\ Goto("post")
          /\ reason' = IF reply = "truncated" THEN "max_tokens" ELSE "refusal"
          /\ UNCHANGED <<finished, noProgress, repeated, checkVars>>
       \/ /\ ~news /\ reply = "empty" /\ Settle("none", "stopped", noProgress)
          /\ UNCHANGED <<repeated, completionChecks, evidence, checked>>
       \/ /\ ~news /\ reply \in {"answer", "huge"}
          /\ Settle(IF reply = "huge" THEN "huge" ELSE "claim", "answered", noProgress)
          /\ UNCHANGED <<repeated, completionChecks, evidence, checked>>
    /\ UNCHANGED <<turnVars, steerVars, viewVars, envVars>>
-----------------------------------------------------------------------------
(* The tool batch: every call gets one result, whatever becomes of it.     *)

Answer == calls' = Tail(calls) /\ unanswered' = unanswered - 1 /\ UNCHANGED <<last, broken>>

Facing(tool) == pc = "calls" /\ calls # <<>> /\ Head(calls) = tool
Taken(tool) == Facing(tool) /\ ~finished

Done(text) ==
    /\ Facing("done") /\ Answer
    /\ answer' = text /\ reason' = "done" /\ finished' = TRUE
    /\ UNCHANGED <<noProgress, repeated, pc, at, news, reply, checkVars, steerVars, viewVars, envVars>>

Ignored ==
    /\ pc = "calls" /\ calls # <<>>
    /\ \/ finished /\ Head(calls) # "done"
       \/ Head(calls) = "other"
       \/ Head(calls) \in {"human", "stop", "status"} /\ ~opts.handoff
    /\ Answer
    /\ UNCHANGED <<pc, at, news, reply, resultVars, checkVars, steerVars, viewVars, envVars>>

(* login waits for the browser, and for it alone: a signal does not end    *)
(* the wait, the fill's own timeout does.                                  *)
Login ==
    /\ Taken("login") /\ Mirror
    /\ IF late THEN reason' = "timeout" /\ Goto("closing")
               ELSE UNCHANGED reason /\ Goto("login")
    /\ UNCHANGED <<finished, answer, noProgress, repeated, turnVars, checkVars, steerVars, envVars>>

LoginEnds ==
    /\ pc = "login" /\ Answer /\ Goto("calls")
    /\ UNCHANGED <<resultVars, checkVars, steerVars, viewVars, envVars>>

RunBrowser ==
    /\ Taken("browser") /\ Mirror /\ Goto("browser")
    /\ UNCHANGED <<turnVars, resultVars, checkVars, steerVars, envVars>>

(* The same failure again and again ends the run; another failure starts a *)
(* new streak, a success clears it, and a returned finalAnswer completes.  *)
BrowserEnds(outcome) ==
    LET streak == CASE outcome = "same" -> repeated + 1
                    [] outcome = "fails" -> 1
                    [] OTHER -> 0
    IN  /\ pc = "browser" /\ InTime
        /\ outcome = "same" => repeated \in 1 .. FailureLimit
        /\ repeated' = IF streak > FailureLimit THEN FailureLimit ELSE streak
        /\ noProgress' = (noProgress \/ streak >= FailureLimit)
        /\ IF outcome \in {"claim", "huge"}
           THEN answer' = outcome /\ reason' = "done" /\ finished' = TRUE
           ELSE UNCHANGED <<answer, reason, finished>>
        /\ Answer /\ Goto("calls")
        /\ UNCHANGED <<checkVars, steerVars, viewVars, envVars>>

(* A browser that rejects the call, or a look the checker takes at the     *)
(* page, instead of answering it is the caller's to deal with.             *)
BrowserRejects ==
    /\ pc \in {"browser", "observe", "inspect"} /\ InTime
    /\ reason' = "thrown" /\ Goto("closing") /\ UNCHANGED <<finished, answer, noProgress, repeated>>
    /\ UNCHANGED <<turnVars, checkVars, steerVars, viewVars, envVars>>

(* ask, handoff and live_view start open the viewer first; ask at a        *)
(* terminal does not.  What follows waits for a person, or for nobody.     *)
Human ==
    /\ Taken("human")
    /\ \/ opts.handoff /\ Enqueue("start") /\ Goto("view")
       \/ Goto("human") /\ UNCHANGED viewVars
    /\ UNCHANGED <<turnVars, resultVars, checkVars, steerVars, envVars>>

ViewOpened ==
    /\ pc = "view" /\ lane = <<>> /\ InTime
    /\ \/ Answer /\ Goto("calls")
       \/ Goto("human") /\ UNCHANGED turnVars
    /\ UNCHANGED <<resultVars, checkVars, steerVars, viewVars, envVars>>

HumanAnswers ==
    /\ pc = "human" /\ InTime /\ Answer /\ Goto("calls")
    /\ UNCHANGED <<resultVars, checkVars, steerVars, viewVars, envVars>>

ViewTool(action) ==
    /\ Taken(action) /\ opts.handoff /\ Enqueue(action) /\ Goto("lane")
    /\ UNCHANGED <<turnVars, resultVars, checkVars, steerVars, envVars>>

ViewToolEnds ==
    /\ pc = "lane" /\ lane = <<>> /\ Answer /\ Goto("calls")
    /\ UNCHANGED <<resultVars, checkVars, steerVars, viewVars, envVars>>

BatchEnds ==
    /\ pc = "calls" /\ calls = <<>>
    /\ AppendMessage("tool") /\ UNCHANGED <<calls, unanswered>>
    /\ Note /\ Collect("batch")
    /\ UNCHANGED <<resultVars, checkVars, viewVars, envVars>>

(* Steering that came during the turn takes back what the turn concluded. *)
Defer ==
    /\ finished' = FALSE /\ reason' = "stopped" /\ answer' = "none"
    /\ repeated' = 0 /\ noProgress' = FALSE
    /\ Goto("top")

AfterBatch ==
    /\ pc = "drained" /\ at = "batch"
    /\ \/ news /\ Defer /\ UNCHANGED checkVars
       \/ /\ ~news /\ finished /\ Settle(answer, reason, noProgress)
          /\ UNCHANGED <<repeated, completionChecks, evidence, checked>>
       \/ ~news /\ ~finished /\ noProgress /\ Break("no_progress") /\ UNCHANGED checkVars
       \/ ~news /\ ~finished /\ ~noProgress /\ Goto("top") /\ UNCHANGED <<resultVars, checkVars>>
    /\ UNCHANGED <<turnVars, steerVars, viewVars, envVars>>
-----------------------------------------------------------------------------
(* The completion check of a checkout: fresh evidence, then a model call   *)
(* that approves, corrects, asks to see more, or leaves the answer open.   *)

AskChecker(text) ==
    /\ completionChecks' = completionChecks + 1
    /\ proposed' = text /\ checked' = text
    /\ Mirror /\ Goto("judge")

(* A reading of the page counts when any of them came back. *)
Observe ==
    /\ pc \in {"observe", "inspect"} /\ InTime
    /\ \E seen \in BOOLEAN : evidence' = (seen \/ (pc = "inspect" /\ evidence))
    /\ AskChecker(proposed)
    /\ UNCHANGED <<turnVars, resultVars, steerVars, envVars>>

GiveUp(why) ==
    /\ noProgress' = TRUE /\ reason' = why /\ answer' = "notice"
    /\ UNCHANGED <<finished, repeated>>
    /\ Goto("post")

CheckFails ==
    /\ pc = "judge" /\ InTime
    /\ \/ GiveUp("model_error")
       \/ reason' = "thrown" /\ Goto("closing") /\ UNCHANGED <<finished, answer, noProgress, repeated>>
    /\ UNCHANGED <<turnVars, checkVars, steerVars, viewVars, envVars>>

CheckAnswers ==
    /\ pc = "judge" /\ InTime
    /\ Note /\ Collect("judge")
    /\ UNCHANGED <<turnVars, resultVars, checkVars, viewVars, envVars>>

\* Fault: the verdict is taken although steering came during the check.
JudgedAnyway == pc = "drained" /\ at = "judge"

Judged == pc = "drained" /\ at = "judge" /\ ~news

\* Fault: the bound on checks is off by one.
SpentLate == completionChecks > CheckLimit

Spent == completionChecks >= CheckLimit

Redirected ==
    /\ pc = "drained" /\ at = "judge" /\ news
    /\ reason' = "stopped" /\ repeated' = 0 /\ noProgress' = FALSE
    /\ completionChecks' = 0 /\ Goto("top")
    /\ UNCHANGED <<finished, answer, proposed, evidence, checked, turnVars, steerVars, viewVars, envVars>>

Approve ==
    /\ Judged
    /\ IF evidence
       THEN /\ answer' = proposed /\ finished' = TRUE
            /\ AppendMessage("assistant") /\ Goto("post")
            /\ UNCHANGED <<reason, noProgress, repeated, calls, unanswered>>
       ELSE GiveUp("no_progress") /\ AppendMessage("assistant") /\ UNCHANGED <<calls, unanswered>>
    /\ UNCHANGED <<checkVars, steerVars, viewVars, envVars>>

\* Fault: the checker's own wording is taken as approved.
CorrectAtOnce ==
    /\ Judged /\ ~Spent
    /\ answer' = "fixed" /\ finished' = TRUE /\ Goto("post")
    /\ UNCHANGED <<reason, noProgress, repeated, turnVars, checkVars, steerVars, viewVars, envVars>>

(* A correction is a new proposal: it has to be approved in its turn. *)
Correct ==
    /\ Judged /\ ~Spent /\ AskChecker("fixed")
    /\ UNCHANGED <<evidence, turnVars, resultVars, steerVars, envVars>>

Inspect ==
    /\ Judged /\ ~Spent /\ Goto("inspect")
    /\ UNCHANGED <<turnVars, resultVars, checkVars, steerVars, viewVars, envVars>>

(* A verdict that contradicts itself, repeats a request or comes too late. *)
Reject ==
    /\ Judged /\ GiveUp("no_progress")
    /\ AppendMessage("assistant") /\ UNCHANGED <<calls, unanswered>>
    /\ UNCHANGED <<checkVars, steerVars, viewVars, envVars>>

LeaveOpen ==
    /\ Judged /\ ~opts.guarded
    /\ AppendMessage("user") /\ UNCHANGED <<calls, unanswered>>
    /\ IF Spent THEN GiveUp("no_progress")
       ELSE IF noProgress THEN Break("no_progress")
       ELSE reason' = "stopped" /\ Goto("top") /\ UNCHANGED <<finished, answer, noProgress, repeated>>
    /\ UNCHANGED <<checkVars, steerVars, viewVars, envVars>>
-----------------------------------------------------------------------------
(* The end of the run. *)

(* The answer is posted to the chat, which may have to be opened for it. *)
Post ==
    /\ pc = "post"
    /\ IF finished /\ answer # "none" /\ opts.handoff /\ ~liveViewReady
       THEN Enqueue("start") /\ Goto("posting")
       ELSE UNCHANGED viewVars /\ Goto("closing")
    /\ UNCHANGED <<turnVars, resultVars, checkVars, steerVars, envVars>>

Posted ==
    /\ pc = "posting" /\ lane = <<>> /\ Goto("closing")
    /\ UNCHANGED <<turnVars, resultVars, checkVars, steerVars, viewVars, envVars>>

\* Fault: a turn cut short is handed back as it is.
SealNothing ==
    /\ calls' = <<>> /\ unanswered' = 0 /\ UNCHANGED <<last, broken>>

(* sealTranscript: every call of a turn cut short gets a stub result. *)
Seal ==
    /\ last' = IF last = "calls" THEN "tool" ELSE last
    /\ calls' = <<>> /\ unanswered' = 0 /\ UNCHANGED broken

Close ==
    /\ pc = "closing" /\ Seal
    /\ \/ agentStarted /\ ~opts.owns /\ Enqueue("end") /\ Goto("teardown") /\ UNCHANGED steerVars
       \/ ~agentStarted /\ ~opts.owns /\ Goto("over") /\ UNCHANGED <<viewVars, steerVars>>
       \/ /\ opts.owns /\ Goto("over") /\ ViewerGone /\ lane' = <<>>
          /\ UNCHANGED <<liveViewReady, agentStarted>>
    /\ UNCHANGED <<resultVars, checkVars, envVars>>

TornDown ==
    /\ pc = "teardown" /\ lane = <<>> /\ Goto("over")
    /\ UNCHANGED <<turnVars, resultVars, checkVars, steerVars, viewVars, envVars>>
-----------------------------------------------------------------------------
(* What the run does by itself, as against what it waits for. *)
Proceed ==
    \/ Begin \/ Opened \/ Top \/ DrainChat \/ DrainTerminal \/ CallModel \/ Prose
    \/ \E text \in {"claim", "huge", "none"} : Done(text)
    \/ Ignored \/ Login \/ LoginEnds \/ RunBrowser
    \/ Human \/ ViewOpened \/ ViewToolEnds
    \/ \E action \in {"stop", "status"} : ViewTool(action)
    \/ BatchEnds \/ AfterBatch
    \/ Redirected \/ Approve \/ Correct \/ Inspect \/ Reject \/ LeaveOpen
    \/ Post \/ Posted \/ Close \/ TornDown

Batches == UNION {[1 .. n -> Tools] : n \in 1 .. MaxCalls}

Next ==
    \/ Proceed \/ Cut \/ Serve
    \/ ModelFails \/ BrowserRejects \/ CheckFails \/ CheckAnswers \/ Observe \/ HumanAnswers
    \/ \E text \in Replies : ModelAnswers(text)
    \/ \E batch \in Batches : ModelCalls(batch)
    \/ \E outcome \in {"works", "fails", "same", "claim", "huge"} : BrowserEnds(outcome)
    \/ \E m \in Message, source \in {"terminal", "view"} : Steer(m, source)
    \/ HostView \/ Interrupt \/ Expire

(* The deadline is a timer and the host lane's operations have timeouts of *)
(* their own.  Nothing makes the model, the page or a person answer.       *)
Fairness == WF_vars(Proceed \/ Cut \/ Serve) /\ WF_vars(Expire)

Spec == Init /\ [][Next]_vars /\ Fairness
-----------------------------------------------------------------------------
Returned == pc = "over" /\ reason # "thrown"
Ok == finished /\ reason # "stopped"

Flags ==
    /\ stopped \in BOOLEAN /\ late \in BOOLEAN /\ news \in BOOLEAN /\ broken \in BOOLEAN
    /\ finished \in BOOLEAN /\ noProgress \in BOOLEAN /\ evidence \in BOOLEAN
    /\ liveViewReady \in BOOLEAN /\ agentStarted \in BOOLEAN

Places ==
    /\ where \in [Message -> {"unsent", "view", "terminal", "held", "told", "gone"}]
    /\ inbox \in Seq(Message) /\ due \subseteq Message /\ left \subseteq Message

TypeOK ==
    /\ Flags /\ Places
    /\ opts \in Options
    /\ pc \in Loop \cup {"over"}
    /\ at \in {"top", "prose", "batch", "judge"} /\ reply \in Replies
    /\ last \in {"user", "assistant", "calls", "tool"}
    /\ answer \in Answers /\ proposed \in Answers /\ checked \in Answers
    /\ viewer \in {"none", "own", "host"}

(* The call being carried out is the first of those without a result. *)
Queues ==
    /\ calls \in Seq(Tools) /\ unanswered = Len(calls)
    /\ pc \in {"browser", "login", "view", "human", "lane"} => calls # <<>>
    /\ lane \in Seq({"start", "stop", "status", "end"})

(* No turn is left open but the one being carried out. *)
Whole ==
    /\ ~broken
    /\ last = "calls" => pc \in {"calls", "browser", "login", "view", "human", "lane", "closing"}

Collecting == {"drain", "terminal", "drained"}
Asking == pc = "judge" \/ (pc \in Collecting /\ at = "judge")
Checking == pc \in {"observe", "inspect"} \/ Asking

(* A check is asked for only while there is one left. *)
Bounded ==
    /\ repeated \in 0 .. FailureLimit /\ completionChecks \in 0 .. CheckLimit
    /\ completionChecks = CheckLimit => pc \in Ending \/ Asking

(* A conclusion is drawn at the end of a turn, withdrawn for the check and *)
(* comes back with it.                                                     *)
Earned ==
    /\ finished => pc \in Ending \cup {"calls"} \/ (pc \in Collecting /\ at = "batch")
    /\ finished => reason \in {"done", "answered"} \/ (reason = "stopped" /\ answer = "none")
    /\ reason \in {"done", "answered"} => finished \/ Checking
    /\ Checking => ~finished /\ reason \in {"done", "answered"}
    /\ Asking => checked = proposed
    /\ finished /\ pc \in Ending /\ opts.checkout /\ answer # "none" => answer = checked

(* Only a run with a surface for it has live view operations. *)
Lanes == lane # <<>> \/ liveViewReady \/ agentStarted => opts.handoff

(* The inbox holds each of the chat's messages once, and never too many.   *)
Boxed ==
    /\ Len(inbox) <= InboxLimit
    /\ \A m \in Message : where[m] = "view" <=> \E i \in DOMAIN inbox : inbox[i] = m
    /\ \A i, j \in DOMAIN inbox : inbox[i] = inbox[j] => i = j

(* What has to reach the model is where the next collection finds it, or   *)
(* in the transcript the next model turn is given.                         *)
Heeded ==
    /\ \A m \in left : where[m] \in {"terminal", "view", "gone"}
    /\ Unheeded # {} => pc \in Collecting \cup {"top"} \/ (pc \in Ending /\ ~finished)
    /\ \A m \in Unheeded :
          /\ pc = "top" => where[m] = "told"
          /\ pc = "drain" => where[m] \in IF at = "top" THEN {"told"} ELSE {"terminal", "view"}
          /\ pc = "terminal" => where[m] \in {"held", IF at = "top" THEN "told" ELSE "terminal"}
          /\ pc = "drained" => where[m] = "told" /\ (at # "top" => news)

(* The run knows of every viewer it started, and waits for its stop. *)
Owned ==
    /\ viewer = "own" => agentStarted
    /\ pc = "teardown" => IF lane = <<>> THEN viewer # "own" ELSE lane[Len(lane)] = "end"

(* sealTranscript and the loop: whenever the run hands its transcript back *)
(* (answered, interrupted, timed out, out of bounds), every tool call in   *)
(* it has its result in the very next message; any other shape is refused  *)
(* by every provider and would make the saved session unresumable.         *)
TurnsAnswered == Returned => ~broken /\ last # "calls"

(* The inductive invariant: every part is disturbed by some step that only *)
(* the others forbid.                                                      *)
IndInv == TypeOK /\ Queues /\ Whole /\ Bounded /\ Earned /\ Lanes /\ Boxed /\ Heeded /\ Owned

(* What a person typed, at the terminal or in a viewer's chat, before the  *)
(* reply, the batch or the check that completes a task had ended, was put  *)
(* before the model first: a completion is not accepted over steering that *)
(* had arrived.  It may have failed to arrive: it is gone from the chat    *)
(* (pushed out of a full inbox, closed with its viewer, drained by another *)
(* reader or by a drain that failed on the way back), or the collection    *)
(* after it was typed could not get at it (its drain failed, or the run    *)
(* had not joined that viewer) and it is left where it was typed.          *)
SteeringHeard == Returned /\ Ok => \A m \in due : where[m] = "gone" \/ m \in left

(* ok is reported for reasons "done" and "answered" alone, and for nothing *)
(* that was cut, deferred or given up; and under the checkout skill the    *)
(* answer reported is the very one the last check was asked about.         *)
OkIsEarned ==
    Returned =>
        /\ Ok <=> reason \in {"done", "answered"}
        /\ Ok /\ opts.checkout /\ answer # "none" => answer = checked

(* A run that returns with no live view operation outstanding leaves none  *)
(* of its own viewers behind, in whatever order the chat mirror, the tools *)
(* and the host opened and closed them.                                    *)
OwnViewerStopped ==
    [][pc # "over" /\ pc' = "over" /\ lane' = <<>> => viewer' # "own"]_vars

(* Every run ends: not the model, not the page and not the person asked    *)
(* has to answer for it, the deadline does.                                *)
EveryRunReturns == <>(pc = "over")
=============================================================================
