-------------------------- MODULE PendingCredentials --------------------------
(***************************************************************************)
(* Two-phase generated credentials.  A snippet asks for a password, the    *)
(* host (src/src/client.ts, _serviceRpc) has the vault store a provisional *)
(* entry, and the snippet types it; later the caller commits or discards   *)
(* the entry by its id.  The execution may time out, be aborted or lose    *)
(* its worker at any moment, while the vault still waits for its lock, so  *)
(* the host keeps two tables: which origin an entry belongs to, and which  *)
(* entry a failed execution must name in its answer.                       *)
(*                                                                         *)
(* An execution generates at most once, and its entry has its name.  The   *)
(* vault is the local one, whose operations run one at a time in the order *)
(* of their calls (vault.ts, serialize).  Host crashes are not modelled.   *)
(***************************************************************************)
EXTENDS Naturals, Sequences, FiniteSets

CONSTANTS
    Exec,        \* executions
    Finalizers,  \* concurrent commit or discard requests
    NoExec,      \* the entry of an idle finalizer
    MaxTracked   \* MAX_PENDING_CREDENTIAL_ORIGINS (100 in the code)

ASSUME PendingConstants == NoExec \notin Exec /\ MaxTracked \in Nat \ {0}

VARIABLES
    call,        \* the host's side of each execution (_pending)
    answer,      \* what it answered: "named" and "bare" are failures
    snip,        \* the snippet in the worker
    dead,        \* executions whose worker has exited
    pipe,        \* lines of each execution on its worker's stdout
    rpc,         \* the generate request in the host
    entry,       \* the provisional entry in the vault
    origins,     \* _pendingCredentialOrigins: entries whose origin is kept
    recoveries,  \* _pendingCredentialRecoveries: executions with an entry to name
    fin,         \* the finalization requests in the host
    late         \* executions that asked for a password after their result

vars == <<call, answer, snip, dead, pipe, rpc, entry, origins, recoveries, fin, late>>
host == <<rpc, entry, origins, recoveries, fin>>

Idle == [at |-> "idle", entry |-> NoExec, elsewhere |-> FALSE, tracked |-> FALSE, own |-> FALSE]
Open == {"open", "aborting", "expiring"}

\* An answered call has an answer.
CallTypes ==
    /\ call \in [Exec -> {"new", "answered"} \cup Open]
    /\ answer \in [Exec -> {"none", "ok", "named", "bare"}]
    /\ \A e \in Exec : call[e] = "answered" <=> answer[e] # "none"

\* A dead worker runs nothing.
WorkerTypes ==
    /\ snip \in [Exec -> {"none", "running", "asked", "held", "clear", "zombie", "over"}]
    /\ dead \subseteq {e \in Exec : snip[e] = "over"}
    /\ pipe \in [Exec -> Seq({"generate", "ok", "named", "bare"})]
    /\ late \subseteq Exec

TableTypes ==
    /\ rpc \in [Exec -> {"none", "queued", "done"}]
    /\ entry \in [Exec -> {"absent", "pending", "final"}]
    /\ origins \subseteq Exec /\ Cardinality(origins) <= MaxTracked
    /\ recoveries \subseteq Exec
    /\ fin \in [Finalizers ->
                  [at : {"idle", "asked", "fallback", "lost"}, entry : Exec \cup {NoExec},
                   elsewhere : BOOLEAN, tracked : BOOLEAN, own : BOOLEAN]]

TypeOK == CallTypes /\ WorkerTypes /\ TableTypes

Init ==
    /\ call = [e \in Exec |-> "new"]
    /\ answer = [e \in Exec |-> "none"]
    /\ snip = [e \in Exec |-> "none"]
    /\ dead = {}
    /\ pipe = [e \in Exec |-> <<>>]
    /\ rpc = [e \in Exec |-> "none"]
    /\ entry = [e \in Exec |-> "absent"]
    /\ origins = {} /\ recoveries = {} /\ late = {}
    /\ fin = [f \in Finalizers |-> Idle]

Sends(e, line) == pipe' = [pipe EXCEPT ![e] = Append(@, line)]
Snippet(e, now) == snip' = [snip EXCEPT ![e] = now]
Finalizing(e) == \E f \in Finalizers : fin[f].entry = e /\ fin[f].own

-----------------------------------------------------------------------------
(***************************************************************************)
(* The worker: execute and performCredentialFill                           *)
(***************************************************************************)
Call(e) ==
    /\ call[e] = "new"
    /\ call' = [call EXCEPT ![e] = "open"]
    /\ Snippet(e, "running")
    /\ UNCHANGED <<answer, dead, pipe, host, late>>

\* generateAndFill reaches the vault request.  A snippet whose time is up may
\* still be on its way there: only the exit of the worker stops it.
Generate(e) ==
    /\ snip[e] \in {"running", "zombie"}
    /\ Sends(e, "generate")
    /\ Snippet(e, IF snip[e] = "zombie" THEN "over" ELSE "asked")
    /\ late' = IF snip[e] = "zombie" THEN late \cup {e} ELSE late
    /\ UNCHANGED <<call, answer, dead, host>>

\* The snippet and all its credential calls have ended.  A failure names the
\* entry that the vault returned to this execution.
Return(e) ==
    /\ snip[e] \in {"running", "held", "clear"}
    /\ ~Finalizing(e)
    /\ \/ Sends(e, "ok")
       \/ Sends(e, IF snip[e] = "held" THEN "named" ELSE "bare")
    /\ Snippet(e, "over")
    /\ UNCHANGED <<call, answer, dead, host, late>>

\* BW_TIMEOUT: the failure is reported while the snippet runs on.
TimeOut(e) ==
    /\ snip[e] \in {"running", "asked", "held", "clear"}
    /\ Sends(e, IF snip[e] = "held" THEN "named" ELSE "bare")
    /\ Snippet(e, IF snip[e] = "running" THEN "zombie" ELSE "over")
    /\ UNCHANGED <<call, answer, dead, host, late>>

\* A worker exits with every execution it has been given: a crash, a restart
\* after a time-out, a teardown.  What it wrote is still read.
WorkerExits ==
    /\ \E e \in Exec : call[e] # "new" /\ e \notin dead
    /\ dead' = {e \in Exec : call[e] # "new"}
    /\ snip' = [e \in Exec |-> IF call[e] # "new" THEN "over" ELSE snip[e]]
    /\ UNCHANGED <<call, answer, pipe, host, late>>

-----------------------------------------------------------------------------
(***************************************************************************)
(* The host's calls: _dispatch and the worker's close                      *)
(***************************************************************************)
Answers(e, result) ==
    /\ call' = [call EXCEPT ![e] = "answered"]
    /\ answer' = [answer EXCEPT ![e] = result]

\* Fault: attaching forgets the recovery even while an abort still needs it.
AttachConsumes(e, result) ==
    /\ recoveries' = recoveries \ {e}
    /\ IF call[e] = "aborting" THEN UNCHANGED <<call, answer>>
       ELSE Answers(e, IF result = "bare" /\ e \in recoveries THEN "named" ELSE result)

\* A result is completed with the entry of its execution, which is forgotten.
\* A call being aborted ignores its result and keeps the entry for later.
Attach(e, result) ==
    IF call[e] = "aborting" THEN UNCHANGED <<call, answer, recoveries>>
    ELSE /\ Answers(e, IF result = "bare" /\ e \in recoveries THEN "named" ELSE result)
         /\ recoveries' = recoveries \ {e}

ReadResult(e) ==
    /\ pipe[e] # <<>> /\ Head(pipe[e]) # "generate"
    /\ pipe' = [pipe EXCEPT ![e] = Tail(@)]
    /\ IF call[e] \in Open THEN Attach(e, Head(pipe[e]))
       ELSE UNCHANGED <<call, answer, recoveries>>
    /\ UNCHANGED <<snip, dead, rpc, entry, origins, fin, late>>

\* The host's timer, or the caller's signal, starts the worker's teardown.
Expire(e) ==
    /\ call[e] = "open"
    /\ call' = [call EXCEPT ![e] = "expiring"]
    /\ UNCHANGED <<answer, snip, dead, pipe, host, late>>

Abort(e) ==
    /\ call[e] = "open"
    /\ call' = [call EXCEPT ![e] = "aborting"]
    /\ UNCHANGED <<answer, snip, dead, pipe, host, late>>

\* The worker's output has been read to its end: its calls fail.  A vault
\* request that takes longer than 250ms goes on in the host.
Closed(e) ==
    /\ call[e] \in Open /\ e \in dead /\ pipe[e] = <<>>
    /\ Answers(e, IF e \in recoveries THEN "named" ELSE "bare")
    /\ recoveries' = recoveries \ {e}
    /\ UNCHANGED <<snip, dead, pipe, rpc, entry, origins, fin, late>>

-----------------------------------------------------------------------------
(***************************************************************************)
(* The host's generate request                                             *)
(***************************************************************************)

\* Nothing is stored any more for a request that was turned down.
TurnedDown(e) ==
    /\ rpc' = [rpc EXCEPT ![e] = "done"]
    /\ snip' = [snip EXCEPT ![e] = IF @ = "asked" THEN "clear" ELSE @]

\* The proposed id is put in both tables before the vault is called.
Serve(e) ==
    /\ pipe[e] # <<>> /\ Head(pipe[e]) = "generate"
    /\ pipe' = [pipe EXCEPT ![e] = Tail(@)]
    /\ IF Cardinality(origins) >= MaxTracked
       THEN TurnedDown(e) /\ UNCHANGED <<origins, recoveries>>
       ELSE /\ rpc' = [rpc EXCEPT ![e] = "queued"]
            /\ origins' = origins \cup {e}
            /\ recoveries' = recoveries \cup {e}
            /\ UNCHANGED snip
    /\ UNCHANGED <<call, answer, dead, entry, fin, late>>

\* The vault persisted the entry and returned it.
Stored(e) ==
    /\ rpc[e] = "queued"
    /\ rpc' = [rpc EXCEPT ![e] = "done"]
    /\ entry' = [entry EXCEPT ![e] = "pending"]
    /\ origins' = origins \cup {e}
    /\ recoveries' = IF call[e] \in Open THEN recoveries \cup {e} ELSE recoveries
    /\ snip' = [snip EXCEPT ![e] = IF @ = "asked" THEN "held" ELSE @]
    /\ UNCHANGED <<call, answer, dead, pipe, fin, late>>

\* Fault: an ambiguous failure is taken for a definitive one.
StoredOrNotForgets(e) ==
    /\ rpc[e] = "queued"
    /\ \E stored \in {"absent", "pending"} : entry' = [entry EXCEPT ![e] = stored]
    /\ origins' = origins \ {e}
    /\ recoveries' = recoveries \ {e}
    /\ TurnedDown(e)
    /\ UNCHANGED <<call, answer, dead, pipe, fin, late>>

\* The vault failed in a way that leaves open what it stored (an I/O error
\* around the rename, a locked vault): both tables keep the entry.
StoredOrNot(e) ==
    /\ rpc[e] = "queued"
    /\ \E stored \in {"absent", "pending"} : entry' = [entry EXCEPT ![e] = stored]
    /\ TurnedDown(e)
    /\ UNCHANGED <<call, answer, dead, pipe, origins, recoveries, fin, late>>

\* A failure that says that nothing was stored.
Refused(e) ==
    /\ rpc[e] = "queued"
    /\ origins' = origins \ {e}
    /\ recoveries' = recoveries \ {e}
    /\ TurnedDown(e)
    /\ UNCHANGED <<call, answer, dead, pipe, entry, fin, late>>

-----------------------------------------------------------------------------
(***************************************************************************)
(* The host's commit and discard requests                                  *)
(***************************************************************************)

\* Somebody who knows the id finalizes the entry: the snippet it was returned
\* to, a later execution at the right site, or one a redirect took elsewhere.
Ask(f, e) ==
    /\ fin[f] = Idle
    /\ \E own, elsewhere \in BOOLEAN :
          /\ IF own THEN snip[e] = "held" /\ ~Finalizing(e)
                    ELSE entry[e] = "pending" \/ answer[e] = "named"
          /\ fin' = [fin EXCEPT ![f] = [at |-> "asked", entry |-> e, elsewhere |-> elsewhere,
                                        tracked |-> e \in origins, own |-> own]]
    /\ UNCHANGED <<call, answer, snip, dead, pipe, rpc, entry, origins, recoveries, late>>

\* The vault's queue has come to the request: a generate called before has
\* been answered.
VaultTurn(f, at) == fin[f].at = at /\ rpc[fin[f].entry] # "queued"

Found(f) == entry[fin[f].entry] = "pending" /\ (fin[f].at = "fallback" \/ ~fin[f].elsewhere)

Finalize(f) ==
    LET e == fin[f].entry IN
    /\ VaultTurn(f, "asked") \/ VaultTurn(f, "fallback")
    /\ Found(f)
    /\ entry' = [entry EXCEPT ![e] = "final"]
    /\ origins' = origins \ {e}
    /\ recoveries' = IF fin[f].own THEN recoveries \ {e} ELSE recoveries
    /\ snip' = [snip EXCEPT ![e] = IF fin[f].own /\ @ = "held" THEN "clear" ELSE @]
    /\ fin' = [fin EXCEPT ![f] = Idle]
    /\ UNCHANGED <<call, answer, dead, pipe, rpc, late>>

\* Fault: an entry not found at the current origin is not looked for again.
NotFoundForgets(f) ==
    /\ VaultTurn(f, "asked") /\ ~Found(f)
    /\ fin' = [fin EXCEPT ![f].at = "lost"]
    /\ origins' = origins \ {fin[f].entry}
    /\ UNCHANGED <<call, answer, snip, dead, pipe, rpc, entry, recoveries, late>>

\* PENDING_NOT_FOUND at the current origin: the origin on record is tried, if
\* it was another when the request arrived.
NotFound(f) ==
    /\ VaultTurn(f, "asked") /\ ~Found(f)
    /\ IF fin[f].tracked /\ fin[f].elsewhere
       THEN fin' = [fin EXCEPT ![f].at = "fallback"] /\ UNCHANGED origins
       ELSE fin' = [fin EXCEPT ![f].at = "lost"] /\ origins' = origins \ {fin[f].entry}
    /\ UNCHANGED <<call, answer, snip, dead, pipe, rpc, entry, recoveries, late>>

NotFoundAgain(f) ==
    /\ VaultTurn(f, "fallback") /\ ~Found(f)
    /\ fin' = [fin EXCEPT ![f].at = "lost"]
    /\ origins' = origins \ {fin[f].entry}
    /\ UNCHANGED <<call, answer, snip, dead, pipe, rpc, entry, recoveries, late>>

\* Any other failure (a stale rotation, I/O) leaves the tables alone.  So does
\* the caller who is told that there is no such entry.
GiveUp(f) ==
    /\ fin[f].at # "idle"
    /\ fin' = [fin EXCEPT ![f] = Idle]
    /\ UNCHANGED <<call, answer, snip, dead, pipe, rpc, entry, origins, recoveries, late>>

Next ==
    \/ WorkerExits
    \/ \E e \in Exec :
          \/ Call(e) \/ Generate(e) \/ Return(e) \/ TimeOut(e)
          \/ ReadResult(e) \/ Expire(e) \/ Abort(e) \/ Closed(e)
          \/ Serve(e) \/ Stored(e) \/ StoredOrNot(e) \/ Refused(e)
    \/ \E f \in Finalizers :
          \/ \E e \in Exec : Ask(f, e)
          \/ Finalize(f) \/ NotFound(f) \/ NotFoundAgain(f) \/ GiveUp(f)

Spec == Init /\ [][Next]_vars

-----------------------------------------------------------------------------
(***************************************************************************)
(* Properties                                                              *)
(***************************************************************************)
MayHoldEntry(e) == entry[e] = "pending" \/ rpc[e] = "queued"

\* "If generation reaches the vault but the page detaches, times out, or the
\* worker exits before filling can report success, the failed result includes
\* a secret-free pendingCredential recovery object" (docs/credentials.md lines
\* 83-85): no failure leaves an entry, stored or about to be, without its name,
\* if the password was asked for before the result was sent.  Whatever the
\* order in which vault, timers and worker come to their ends.
TimelyEntryNamed == \A e \in Exec \ late : answer[e] = "bare" => ~MayHoldEntry(e)

\* "A live host also retains the exact frame origin across worker restarts and
\* redirects" (docs/credentials.md lines 91-92): as long as an entry is provisional
\* the host knows where it belongs, whoever else asks for it in vain.
OriginKept == \A e \in Exec : MayHoldEntry(e) => e \in origins

\* What is on the pipe of e at position i.
Line(e, i) == pipe[e][i]

\* An execution asks once: before it has, or while its request is on its way,
\* the host has not served it and the vault holds nothing.
AsksOnce ==
    \A e \in Exec :
       /\ call[e] = "new" <=> snip[e] = "none"
       /\ rpc[e] # "done" => entry[e] = "absent"
       /\ snip[e] \in {"none", "running", "zombie"} => rpc[e] = "none"
       /\ snip[e] = "held" => rpc[e] = "done"
       /\ \A i \in 1..Len(pipe[e]) : Line(e, i) = "generate" =>
             /\ rpc[e] = "none" /\ snip[e] \notin {"none", "running", "zombie"}
             /\ \A j \in i + 1..Len(pipe[e]) : Line(e, j) # "generate"

\* A result is the last thing a snippet in time says, and a result that names
\* the entry has one to name.
ResultsLast ==
    \A e \in Exec : \A i \in 1..Len(pipe[e]) : Line(e, i) # "generate" =>
       /\ snip[e] \in {"zombie", "over"}
       /\ Line(e, i) = "named" => rpc[e] # "none"
       /\ e \in late \/ \A j \in i + 1..Len(pipe[e]) : Line(e, j) # "generate"

\* An entry that an open call may leave behind is on record, what is on record
\* was asked for, and a call that ended without a name leaves nothing to come.
Recoverable ==
    \A e \in Exec :
       /\ call[e] \in Open /\ MayHoldEntry(e) => e \in recoveries
       /\ e \in recoveries \/ answer[e] = "named" => rpc[e] # "none"
       /\ answer[e] = "bare" /\ e \notin late =>
             /\ ~MayHoldEntry(e) /\ snip[e] \in {"zombie", "over"}
             /\ \A i \in 1..Len(pipe[e]) : Line(e, i) # "generate"

\* A request to finalize is about an entry that was asked for; where its origin
\* was not on record, or was and did not help, there is nothing to find.
Finalizable ==
    \A f \in Finalizers : fin[f].at # "idle" =>
       /\ fin[f].entry \in Exec /\ rpc[fin[f].entry] # "none"
       /\ ~fin[f].tracked \/ fin[f].at = "lost" => ~MayHoldEntry(fin[f].entry)

\* The state is well formed, the tracked origins within their cap among it, a
\* provisional entry keeps its origin, and the reasons: each execution's request,
\* result and entry come in this order, whatever else is in flight.
IndInv ==
    /\ TypeOK /\ IsFiniteSet(origins)
    /\ OriginKept /\ AsksOnce /\ ResultsLast /\ Recoverable /\ Finalizable

\* A finalization is told that there is no such entry only when there is none:
\* a redirect between generating and committing does not strand the password.
RedirectFindsEntry ==
    \A f \in Finalizers : fin[f].at = "lost" => entry[fin[f].entry] # "pending"
=============================================================================
