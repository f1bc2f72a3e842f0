---------------------- MODULE PendingCredentialsProofs ----------------------
(***************************************************************************)
(* Proofs about generated credentials, for any executions, finalizers and  *)
(* room for tracked entries.  The order of one execution's request, result *)
(* and entry carries them: what is on the pipe is read in the order it was *)
(* written, and a snippet in time writes its result last.                  *)
(***************************************************************************)
EXTENDS PendingCredentials, FiniteSetTheorems, TLAPS

Lines == {"generate", "ok", "named", "bare"}

\* A line written to a pipe comes last, and moves no other.
LEMMA Written ==
    ASSUME NEW S, NEW s \in Seq(S), NEW x \in S
    PROVE  /\ Append(s, x) \in Seq(S) /\ Len(Append(s, x)) = Len(s) + 1
           /\ \A i \in 1..Len(s) : Append(s, x)[i] = s[i]
           /\ Append(s, x)[Len(s) + 1] = x
OBVIOUS

\* A line read from a pipe was the first, and the others move up.
LEMMA Read ==
    ASSUME NEW S, NEW s \in Seq(S), s # <<>>
    PROVE  /\ Tail(s) \in Seq(S) /\ Len(s) \in Nat \ {0} /\ Len(Tail(s)) = Len(s) - 1
           /\ \A i \in 1..Len(s) - 1 : Tail(s)[i] = s[i + 1]
           /\ Head(s) = s[1] /\ Head(s) \in S
OBVIOUS

\* A set with fewer than m elements has room for one more.
LEMMA RoomForOne ==
    ASSUME NEW S, NEW x, NEW m \in Nat, IsFiniteSet(S), ~(Cardinality(S) >= m)
    PROVE  IsFiniteSet(S \cup {x}) /\ Cardinality(S \cup {x}) <= m
<1>1. Cardinality(S) \in Nat
  BY FS_CardinalityType
<1>2. IsFiniteSet(S \cup {x})
  BY FS_AddElement
<1>3. Cardinality(S \cup {x}) = IF x \in S THEN Cardinality(S) ELSE Cardinality(S) + 1
  BY FS_AddElement
<1>4. QED BY <1>1, <1>2, <1>3

\* Nothing has happened to begin with.
LEMMA InitInv == Init => IndInv
<1> SUFFICES ASSUME Init PROVE IndInv
  OBVIOUS
<1>1. IsFiniteSet(origins) /\ Cardinality(origins) <= MaxTracked
  BY FS_EmptySet, PendingConstants DEF Init
<1>2. <<>> \in Seq(Lines) /\ Len(<<>>) = 0
  OBVIOUS
<1>3. TypeOK
  BY <1>1, <1>2 DEF Init, TypeOK, CallTypes, WorkerTypes, TableTypes, Idle, Lines, Open
<1>4. OriginKept /\ AsksOnce /\ ResultsLast /\ Recoverable /\ Finalizable
  BY DEF Init, OriginKept, AsksOnce, ResultsLast, Recoverable, Finalizable, MayHoldEntry,
     Open, Idle
<1>5. QED BY <1>1, <1>3, <1>4 DEF IndInv

-----------------------------------------------------------------------------
\* The tracked origins stay within their cap: only a request that found room
\* adds one, and storing its entry finds it there.
LEMMA CapStep ==
    ASSUME TypeOK, IsFiniteSet(origins), OriginKept, [Next]_vars
    PROVE  IsFiniteSet(origins') /\ Cardinality(origins') <= MaxTracked
<1>1. Cardinality(origins) \in Nat /\ Cardinality(origins) <= MaxTracked /\ MaxTracked \in Nat
  BY FS_CardinalityType, PendingConstants DEF TypeOK, TableTypes
<1>2. CASE UNCHANGED origins
  BY <1>1, <1>2
<1>3. ASSUME NEW e, origins' = origins \ {e}
      PROVE  IsFiniteSet(origins') /\ Cardinality(origins') <= MaxTracked
  BY <1>1, <1>3, FS_RemoveElement
<1>4. ASSUME NEW e \in Exec, Serve(e)
      PROVE  IsFiniteSet(origins') /\ Cardinality(origins') <= MaxTracked
  <2>1. CASE Cardinality(origins) >= MaxTracked
    BY <1>1, <1>4, <2>1 DEF Serve
  <2>2. CASE ~(Cardinality(origins) >= MaxTracked)
    <3>1. origins' = origins \cup {e}
      BY <1>4, <2>2 DEF Serve
    <3>2. IsFiniteSet(origins \cup {e}) /\ Cardinality(origins \cup {e}) <= MaxTracked
      BY <1>1, <2>2, RoomForOne
    <3>3. QED BY <3>1, <3>2
  <2>3. QED BY <2>1, <2>2
<1>5. ASSUME NEW e \in Exec, Stored(e) PROVE UNCHANGED origins
  BY <1>5 DEF Stored, OriginKept, MayHoldEntry
<1>6. ASSUME NEW e \in Exec,
             \/ Call(e) \/ Generate(e) \/ Return(e) \/ TimeOut(e)
             \/ ReadResult(e) \/ Expire(e) \/ Abort(e) \/ Closed(e) \/ StoredOrNot(e)
      PROVE  UNCHANGED origins
  BY <1>6 DEF Call, Generate, Return, TimeOut, ReadResult, Expire, Abort, Closed, StoredOrNot, host
<1>7. ASSUME NEW f \in Finalizers, NotFound(f)
      PROVE  UNCHANGED origins \/ origins' = origins \ {fin[f].entry}
  BY <1>7 DEF NotFound
<1>8. QED
  BY <1>2, <1>3, <1>4, <1>5, <1>6, <1>7
  DEF Next, WorkerExits, Refused, Ask, Finalize, NotFoundAgain, GiveUp, vars, host

\* Calls and their answers.
LEMMA CallStep ==
    ASSUME TypeOK, [Next]_vars
    PROVE  CallTypes'
<1> USE DEF TypeOK, CallTypes, Open
<1>1. CASE UNCHANGED <<call, answer>>
  BY <1>1
<1>2. ASSUME NEW e \in Exec, Call(e) \/ Expire(e) \/ Abort(e) PROVE CallTypes'
  BY <1>2 DEF Call, Expire, Abort
<1>3. ASSUME NEW e \in Exec, NEW r \in {"ok", "named", "bare"}, call[e] \in Open, Answers(e, r)
      PROVE  CallTypes'
  BY <1>3 DEF Answers
<1>4. ASSUME NEW e \in Exec, Closed(e) PROVE CallTypes'
  BY <1>3, <1>4 DEF Closed
<1>5. ASSUME NEW e \in Exec, ReadResult(e) PROVE CallTypes'
  <2>1. pipe[e] \in Seq(Lines) /\ pipe[e] # <<>>
    BY <1>5 DEF ReadResult, WorkerTypes, Lines
  <2>2. Head(pipe[e]) \in {"ok", "named", "bare"}
    BY <1>5, <2>1, Read DEF ReadResult, Lines
  <2>3. CASE call[e] \in Open
    BY <1>3, <1>5, <2>2, <2>3 DEF ReadResult, Attach
  <2>4. CASE call[e] \notin Open
    BY <1>1, <1>5, <2>4 DEF ReadResult
  <2>5. QED BY <2>3, <2>4
<1>6. ASSUME NEW e \in Exec,
             \/ Generate(e) \/ Return(e) \/ TimeOut(e)
             \/ Serve(e) \/ Stored(e) \/ StoredOrNot(e) \/ Refused(e)
      PROVE  CallTypes'
  BY <1>1, <1>6 DEF Generate, Return, TimeOut, Serve, Stored, StoredOrNot, Refused
<1>7. QED
  BY <1>1, <1>2, <1>4, <1>5, <1>6
  DEF Next, WorkerExits, Ask, Finalize, NotFound, NotFoundAgain, GiveUp, vars

\* The worker's side, and the pipes.
LEMMA WorkerStep ==
    ASSUME TypeOK, AsksOnce, [Next]_vars
    PROVE  WorkerTypes'
<1> USE DEF TypeOK, WorkerTypes
<1>1. pipe \in [Exec -> Seq(Lines)]
  BY DEF Lines
<1>2. ASSUME NEW e \in Exec, NEW line \in Lines, Sends(e, line)
      PROVE  pipe' \in [Exec -> Seq({"generate", "ok", "named", "bare"})]
  BY <1>1, <1>2, Written DEF Sends, Lines
<1>3. ASSUME NEW e \in Exec, pipe[e] # <<>>, pipe' = [pipe EXCEPT ![e] = Tail(@)]
      PROVE  pipe' \in [Exec -> Seq({"generate", "ok", "named", "bare"})]
  BY <1>1, <1>3, Read DEF Lines
<1>4. CASE UNCHANGED <<snip, dead, pipe, late>>
  BY <1>4
<1>5. ASSUME NEW e \in Exec, Call(e) PROVE WorkerTypes'
  BY <1>5 DEF Call, Snippet, AsksOnce
<1>6. ASSUME NEW e \in Exec, Generate(e) PROVE WorkerTypes'
  <2>1. pipe' \in [Exec -> Seq({"generate", "ok", "named", "bare"})]
    BY <1>2, <1>6 DEF Generate, Lines
  <2>2. QED BY <1>6, <2>1 DEF Generate, Snippet
<1>7. ASSUME NEW e \in Exec, Return(e) \/ TimeOut(e) PROVE WorkerTypes'
  <2>1. pipe' \in [Exec -> Seq({"generate", "ok", "named", "bare"})]
    BY <1>2, <1>7 DEF Return, TimeOut, Lines
  <2>2. dead' = dead /\ late' = late /\ \E now \in {"zombie", "over"} : Snippet(e, now)
    BY <1>7 DEF Return, TimeOut
  <2>3. e \notin dead
    BY <1>7 DEF Return, TimeOut
  <2>4. QED BY <2>1, <2>2, <2>3 DEF Snippet
<1>8. ASSUME NEW e \in Exec, ReadResult(e) PROVE WorkerTypes'
  <2>1. pipe' \in [Exec -> Seq({"generate", "ok", "named", "bare"})]
    BY <1>3, <1>8 DEF ReadResult
  <2>2. QED BY <1>8, <2>1 DEF ReadResult
<1>9. ASSUME NEW e \in Exec, Serve(e) PROVE WorkerTypes'
  <2>1. pipe' \in [Exec -> Seq({"generate", "ok", "named", "bare"})]
    BY <1>3, <1>9 DEF Serve
  <2>2. QED BY <1>9, <2>1 DEF Serve, TurnedDown
<1>10. ASSUME NEW e \in Exec, Stored(e) \/ StoredOrNot(e) \/ Refused(e) PROVE WorkerTypes'
  BY <1>10 DEF Stored, StoredOrNot, Refused, TurnedDown
<1>11. CASE WorkerExits
  BY <1>11 DEF WorkerExits, AsksOnce
<1>12. ASSUME NEW f \in Finalizers, Finalize(f) PROVE WorkerTypes'
  BY <1>12 DEF Finalize
<1>13. QED
  BY <1>4, <1>5, <1>6, <1>7, <1>8, <1>9, <1>10, <1>11, <1>12
  DEF Next, Expire, Abort, Closed, Ask, NotFound, NotFoundAgain, GiveUp, vars

\* The host's tables and the vault.
LEMMA TableStep ==
    ASSUME TypeOK, IsFiniteSet(origins), OriginKept, [Next]_vars
    PROVE  TableTypes'
<1> USE DEF TypeOK, TableTypes
<1>1. Cardinality(origins') <= MaxTracked
  BY CapStep
<1>2. CASE UNCHANGED <<rpc, entry, origins, recoveries, fin>>
  BY <1>2
<1>3. ASSUME NEW e \in Exec, ReadResult(e) \/ Closed(e) PROVE TableTypes'
  <2>1. recoveries' \subseteq recoveries
    BY <1>3 DEF ReadResult, Attach, Closed
  <2>2. QED BY <1>3, <2>1 DEF ReadResult, Closed
<1>4. ASSUME NEW e \in Exec, Serve(e) PROVE TableTypes'
  BY <1>1, <1>4 DEF Serve, TurnedDown
<1>5. ASSUME NEW e \in Exec, Stored(e) \/ StoredOrNot(e) \/ Refused(e) PROVE TableTypes'
  BY <1>1, <1>5 DEF Stored, StoredOrNot, Refused, TurnedDown
<1>6. ASSUME NEW f \in Finalizers, NEW e \in Exec, Ask(f, e) PROVE TableTypes'
  BY <1>6 DEF Ask
<1>7. ASSUME NEW f \in Finalizers, Finalize(f) PROVE TableTypes'
  <2>1. fin' = [fin EXCEPT ![f] = Idle] /\ UNCHANGED rpc
    BY <1>7 DEF Finalize
  <2>2. origins' \subseteq origins /\ recoveries' \subseteq recoveries
    BY <1>7 DEF Finalize
  <2>3. entry' \in [Exec -> {"absent", "pending", "final"}]
    BY <1>7 DEF Finalize
  <2>4. QED BY <1>1, <2>1, <2>2, <2>3 DEF Idle
<1>8. ASSUME NEW f \in Finalizers, NotFound(f) PROVE TableTypes'
  BY <1>1, <1>8 DEF NotFound
<1>9. ASSUME NEW f \in Finalizers, NotFoundAgain(f) \/ GiveUp(f) PROVE TableTypes'
  <2>1. UNCHANGED <<rpc, entry, recoveries>> /\ origins' \subseteq origins
    BY <1>9 DEF NotFoundAgain, GiveUp
  <2>2. fin' = [fin EXCEPT ![f].at = "lost"] \/ fin' = [fin EXCEPT ![f] = Idle]
    BY <1>9 DEF NotFoundAgain, GiveUp
  <2>3. fin' \in [Finalizers ->
                    [at : {"idle", "asked", "fallback", "lost"}, entry : Exec \cup {NoExec},
                     elsewhere : BOOLEAN, tracked : BOOLEAN, own : BOOLEAN]]
    <3>1. CASE fin' = [fin EXCEPT ![f].at = "lost"]
      BY <3>1
    <3>2. CASE fin' = [fin EXCEPT ![f] = Idle]
      BY <3>2 DEF Idle
    <3>3. QED BY <2>2, <3>1, <3>2
  <2>4. QED BY <1>1, <2>1, <2>3
<1>10. QED
  BY <1>2, <1>3, <1>4, <1>5, <1>6, <1>7, <1>8, <1>9
  DEF Next, WorkerExits, Call, Generate, Return, TimeOut, Expire, Abort, vars, host

-----------------------------------------------------------------------------
\* A step of one execution leaves the pipes of the others alone, and adds a line
\* at the end of its own or takes the first away.
LEMMA PipeWritten ==
    ASSUME TypeOK, NEW e \in Exec, NEW line \in Lines, Sends(e, line)
    PROVE  /\ \A x \in Exec \ {e} : pipe'[x] = pipe[x]
           /\ Len(pipe'[e]) = Len(pipe[e]) + 1 /\ Len(pipe[e]) \in Nat
           /\ \A i \in 1..Len(pipe[e]) : pipe'[e][i] = pipe[e][i]
           /\ pipe'[e][Len(pipe[e]) + 1] = line
<1>1. pipe[e] \in Seq(Lines) /\ pipe'[e] = Append(pipe[e], line)
  BY DEF TypeOK, WorkerTypes, Lines, Sends
<1>2. \A x \in Exec \ {e} : pipe'[x] = pipe[x]
  BY DEF TypeOK, WorkerTypes, Sends
<1>3. Len(pipe[e]) \in Nat
  BY <1>1
<1>4. QED BY <1>1, <1>2, <1>3, Written

LEMMA PipeRead ==
    ASSUME TypeOK, NEW e \in Exec, pipe[e] # <<>>, pipe' = [pipe EXCEPT ![e] = Tail(@)]
    PROVE  /\ \A x \in Exec \ {e} : pipe'[x] = pipe[x]
           /\ Len(pipe[e]) \in Nat \ {0} /\ Len(pipe'[e]) = Len(pipe[e]) - 1
           /\ \A i \in 1..Len(pipe[e]) - 1 : pipe'[e][i] = pipe[e][i + 1]
           /\ Head(pipe[e]) = pipe[e][1] /\ Head(pipe[e]) \in Lines
<1>1. pipe[e] \in Seq(Lines) /\ pipe'[e] = Tail(pipe[e])
  BY DEF TypeOK, WorkerTypes, Lines
<1>2. \A x \in Exec \ {e} : pipe'[x] = pipe[x]
  BY DEF TypeOK, WorkerTypes
<1>3. /\ Len(pipe[e]) \in Nat \ {0} /\ Len(Tail(pipe[e])) = Len(pipe[e]) - 1
      /\ \A i \in 1..Len(pipe[e]) - 1 : Tail(pipe[e])[i] = pipe[e][i + 1]
      /\ Head(pipe[e]) = pipe[e][1] /\ Head(pipe[e]) \in Lines
  BY <1>1, Read, Zenon
<1>4. QED BY <1>1, <1>2, <1>3, Zenon

LEMMA PipeKept ==
    ASSUME TypeOK, UNCHANGED pipe
    PROVE  \A x \in Exec : Len(pipe[x]) \in Nat
BY DEF TypeOK, WorkerTypes

\* An execution still asks once.
LEMMA AskStep ==
    ASSUME TypeOK, AsksOnce, [Next]_vars
    PROVE  AsksOnce'
<1> USE DEF TypeOK, CallTypes, TableTypes, AsksOnce, Line, Open
<1> snip \in [Exec -> {"none", "running", "asked", "held", "clear", "zombie", "over"}]
  BY DEF WorkerTypes
<1>1. CASE UNCHANGED <<call, snip, rpc, entry, pipe>>
  BY <1>1
<1>2. ASSUME NEW e \in Exec, Call(e) PROVE AsksOnce'
  BY <1>2 DEF Call, Snippet, host
<1>3. ASSUME NEW e \in Exec, Generate(e) PROVE AsksOnce'
  <2>1. Sends(e, "generate") /\ UNCHANGED <<call, rpc, entry>>
    BY <1>3 DEF Generate, host
  <2>2. snip[e] \in {"running", "zombie"} /\ \E now \in {"asked", "over"} : Snippet(e, now)
    BY <1>3 DEF Generate
  <2>3. QED BY <2>1, <2>2, PipeWritten, PipeKept DEF Snippet, Lines
<1>4. ASSUME NEW e \in Exec, Return(e) \/ TimeOut(e) PROVE AsksOnce'
  <2>1. PICK line \in {"ok", "named", "bare"} : Sends(e, line)
    BY <1>4 DEF Return, TimeOut
  <2>2. /\ snip[e] \in {"running", "asked", "held", "clear"} /\ UNCHANGED <<call, rpc, entry>>
        /\ \E now \in {"zombie", "over"} : /\ Snippet(e, now)
                                           /\ now = "zombie" => snip[e] = "running"
    BY <1>4 DEF Return, TimeOut, host
  <2>3. /\ \A x \in Exec \ {e} : pipe'[x] = pipe[x]
        /\ Len(pipe'[e]) = Len(pipe[e]) + 1 /\ Len(pipe[e]) \in Nat
        /\ \A i \in 1..Len(pipe[e]) : pipe'[e][i] = pipe[e][i]
        /\ pipe'[e][Len(pipe[e]) + 1] # "generate"
    BY <2>1, PipeWritten DEF Lines
  <2>4. /\ snip'[e] \in {"zombie", "over"}
        /\ snip'[e] = "zombie" => snip[e] = "running"
        /\ \A x \in Exec \ {e} : snip'[x] = snip[x]
    BY <2>2 DEF Snippet
  <2>5. \A i \in 1..Len(pipe'[e]) : pipe'[e][i] = "generate" =>
           /\ i \in 1..Len(pipe[e]) /\ pipe[e][i] = "generate"
           /\ \A j \in i + 1..Len(pipe'[e]) : pipe'[e][j] # "generate"
    <3> SUFFICES ASSUME NEW i \in 1..Len(pipe'[e]), pipe'[e][i] = "generate"
                 PROVE  /\ i \in 1..Len(pipe[e]) /\ pipe[e][i] = "generate"
                        /\ \A j \in i + 1..Len(pipe'[e]) : pipe'[e][j] # "generate"
      OBVIOUS
    <3>1. i \in 1..Len(pipe[e])
      BY <2>3
    <3>2. \A j \in i + 1..Len(pipe[e]) : pipe[e][j] # "generate" /\ j \in 1..Len(pipe[e])
      BY <2>3, <3>1
    <3>3. \A j \in i + 1..Len(pipe'[e]) : j \in i + 1..Len(pipe[e]) \/ j = Len(pipe[e]) + 1
      BY <2>3, <3>1
    <3>4. QED BY <2>3, <3>1, <3>2, <3>3
  <2>6. QED BY <2>2, <2>3, <2>4, <2>5
<1>5. ASSUME NEW e \in Exec, ReadResult(e) PROVE AsksOnce'
  <2>1. UNCHANGED <<snip, rpc, entry>> /\ \A x \in Exec : call'[x] = "new" <=> call[x] = "new"
    BY <1>5 DEF ReadResult, Attach, Answers
  <2>2. pipe[e] # <<>> /\ pipe' = [pipe EXCEPT ![e] = Tail(@)]
    BY <1>5 DEF ReadResult
  <2>3. QED BY <2>1, <2>2, PipeRead
<1>6. ASSUME NEW e \in Exec, Expire(e) \/ Abort(e) \/ Closed(e) PROVE AsksOnce'
  BY <1>6 DEF Expire, Abort, Closed, Answers, host
<1>7. ASSUME NEW e \in Exec, Serve(e) PROVE AsksOnce'
  <2>1. pipe[e] # <<>> /\ pipe' = [pipe EXCEPT ![e] = Tail(@)] /\ Head(pipe[e]) = "generate"
    BY <1>7 DEF Serve
  <2>2. /\ UNCHANGED <<call, entry>>
        /\ \E now \in {"queued", "done"} : rpc' = [rpc EXCEPT ![e] = now]
        /\ \/ UNCHANGED snip
           \/ snip[e] = "asked" /\ rpc'[e] = "done" /\ Snippet(e, "clear")
    BY <1>7 DEF Serve, TurnedDown, Snippet
  <2>3. /\ \A x \in Exec \ {e} : pipe'[x] = pipe[x]
        /\ Len(pipe[e]) \in Nat \ {0} /\ Len(pipe'[e]) = Len(pipe[e]) - 1
        /\ \A i \in 1..Len(pipe[e]) - 1 : pipe'[e][i] = pipe[e][i + 1]
        /\ pipe[e][1] = "generate"
    BY <2>1, PipeRead
  <2>4. /\ snip[e] \notin {"none", "running", "zombie"} /\ rpc[e] = "none"
        /\ \A i \in 1..Len(pipe'[e]) : pipe'[e][i] # "generate"
    <3>1. 1 \in 1..Len(pipe[e])
      BY <2>3
    <3>2. /\ snip[e] \notin {"none", "running", "zombie"} /\ rpc[e] = "none"
          /\ \A j \in 1 + 1..Len(pipe[e]) : pipe[e][j] # "generate"
      BY <2>3, <3>1
    <3>3. \A i \in 1..Len(pipe[e]) - 1 : i + 1 \in 1 + 1..Len(pipe[e])
      BY <2>3
    <3>4. QED BY <2>3, <3>2, <3>3
  <2>5. QED BY <2>2, <2>3, <2>4 DEF Snippet
<1>8. ASSUME NEW e \in Exec, Stored(e) \/ StoredOrNot(e) \/ Refused(e) PROVE AsksOnce'
  BY <1>8 DEF Stored, StoredOrNot, Refused, TurnedDown
<1>9. CASE WorkerExits
  BY <1>9 DEF WorkerExits, host
<1>10. ASSUME NEW f \in Finalizers, Finalize(f) PROVE AsksOnce'
  BY <1>10 DEF Finalize, VaultTurn, Found
<1>11. QED
  BY <1>1, <1>2, <1>3, <1>4, <1>5, <1>6, <1>7, <1>8, <1>9, <1>10
  DEF Next, Ask, NotFound, NotFoundAgain, GiveUp, vars

\* What was asked for stays so, and an entry that is not there and not on its
\* way never comes.
LEMMA Settled ==
    ASSUME TypeOK, AsksOnce, [Next]_vars, NEW x \in Exec
    PROVE  /\ rpc[x] # "none" => rpc'[x] # "none"
           /\ rpc[x] # "none" /\ ~MayHoldEntry(x) => ~MayHoldEntry(x)'
<1> USE DEF TypeOK, TableTypes, MayHoldEntry
<1> DEFINE Goal == /\ rpc[x] # "none" => rpc'[x] # "none"
                   /\ rpc[x] # "none" /\ ~MayHoldEntry(x) => ~MayHoldEntry(x)'
<1>1. CASE UNCHANGED <<rpc, entry>>
  BY <1>1
<1>2. ASSUME NEW e \in Exec, Serve(e) PROVE Goal
  <2>1. rpc[e] = "none"
    <3>1. pipe[e] # <<>> /\ pipe' = [pipe EXCEPT ![e] = Tail(@)] /\ Head(pipe[e]) = "generate"
      BY <1>2 DEF Serve
    <3>2. 1 \in 1..Len(pipe[e]) /\ pipe[e][1] = "generate"
      BY <3>1, PipeRead
    <3>3. QED BY <3>2 DEF AsksOnce, Line
  <2>2. UNCHANGED entry /\ \E now \in {"queued", "done"} : rpc' = [rpc EXCEPT ![e] = now]
    BY <1>2 DEF Serve, TurnedDown
  <2>3. QED BY <2>1, <2>2
<1>3. ASSUME NEW e \in Exec, Stored(e) \/ StoredOrNot(e) \/ Refused(e) PROVE Goal
  BY <1>3 DEF Stored, StoredOrNot, Refused, TurnedDown
<1>4. ASSUME NEW f \in Finalizers, Finalize(f) PROVE Goal
  BY <1>4 DEF Finalize
<1>5. QED
  BY <1>1, <1>2, <1>3, <1>4
  DEF Next, WorkerExits, Call, Generate, Return, TimeOut, ReadResult, Expire, Abort, Closed,
      Ask, NotFound, NotFoundAgain, GiveUp, vars, host

\* A result is still the last line of a snippet in time.
LEMMA ResultStep ==
    ASSUME TypeOK, AsksOnce, ResultsLast, [Next]_vars
    PROVE  ResultsLast'
<1> USE DEF ResultsLast, Line
<1> DEFINE Calm == /\ \A x \in Exec : snip[x] \in {"zombie", "over"} => snip'[x] \in {"zombie", "over"}
                   /\ \A x \in Exec : rpc[x] # "none" => rpc'[x] # "none"
                   /\ late \subseteq late'
<1> HIDE DEF Calm
<1>1. \A x \in Exec : rpc[x] # "none" => rpc'[x] # "none"
  BY Settled
<1>2. ASSUME Calm, UNCHANGED pipe PROVE ResultsLast'
  BY <1>2 DEF Calm
<1>3. ASSUME NEW e \in Exec, Calm, pipe[e] # <<>>, pipe' = [pipe EXCEPT ![e] = Tail(@)]
      PROVE  ResultsLast'
  BY <1>3, PipeRead DEF Calm
<1>4. ASSUME NEW e \in Exec, Generate(e) PROVE ResultsLast'
  <2>1. /\ \A x \in Exec \ {e} : pipe'[x] = pipe[x] /\ snip'[x] = snip[x]
        /\ Len(pipe'[e]) = Len(pipe[e]) + 1 /\ Len(pipe[e]) \in Nat
        /\ \A i \in 1..Len(pipe[e]) : pipe'[e][i] = pipe[e][i]
        /\ pipe'[e][Len(pipe[e]) + 1] = "generate"
    BY <1>4, PipeWritten DEF Generate, Snippet, Lines, TypeOK, WorkerTypes
  <2>2. CASE snip[e] = "running"
    <3>1. \A i \in 1..Len(pipe[e]) : pipe[e][i] = "generate"
      BY <2>2
    <3>2. late' = late
      BY <1>4, <2>2 DEF Generate
    <3>3. QED BY <1>1, <2>1, <3>1, <3>2
  <2>3. CASE snip[e] = "zombie"
    <3>1. snip'[e] = "over" /\ late' = late \cup {e}
      BY <1>4, <2>3 DEF Generate, Snippet, TypeOK, WorkerTypes
    <3>2. QED BY <1>1, <2>1, <2>3, <3>1
  <2>4. QED BY <1>4, <2>2, <2>3 DEF Generate
<1>5. ASSUME NEW e \in Exec, Return(e) \/ TimeOut(e) PROVE ResultsLast'
  <2>1. PICK line \in {"ok", "named", "bare"} : Sends(e, line) /\ (line = "named" => snip[e] = "held")
    BY <1>5 DEF Return, TimeOut
  <2>2. /\ \A x \in Exec \ {e} : pipe'[x] = pipe[x]
        /\ Len(pipe'[e]) = Len(pipe[e]) + 1 /\ Len(pipe[e]) \in Nat
        /\ \A i \in 1..Len(pipe[e]) : pipe'[e][i] = pipe[e][i]
        /\ pipe'[e][Len(pipe[e]) + 1] = line
    BY <2>1, PipeWritten DEF Lines
  <2>3. /\ snip'[e] \in {"zombie", "over"} /\ late' = late
        /\ \A x \in Exec \ {e} : snip'[x] = snip[x]
    BY <1>5 DEF Return, TimeOut, Snippet, TypeOK, WorkerTypes
  <2>4. \A i \in 1..Len(pipe[e]) : pipe[e][i] = "generate"
    BY <1>5 DEF Return, TimeOut
  <2>5. line = "named" => rpc'[e] # "none"
    BY <1>1, <2>1 DEF AsksOnce
  <2>6. QED BY <1>1, <2>1, <2>2, <2>3, <2>4, <2>5
<1>6. ASSUME NEW e \in Exec, Call(e) PROVE ResultsLast'
  <2>1. \A x \in Exec \ {e} : snip'[x] = snip[x]
    BY <1>6 DEF Call, Snippet, TypeOK, WorkerTypes
  <2>2. UNCHANGED <<pipe, late>> /\ snip[e] = "none"
    BY <1>6 DEF Call, AsksOnce
  <2>3. QED BY <1>1, <2>1, <2>2
<1>7. ASSUME NEW e \in Exec, ReadResult(e) PROVE ResultsLast'
  <2>1. Calm
    BY <1>1, <1>7 DEF Calm, ReadResult
  <2>2. QED BY <1>3, <1>7, <2>1 DEF ReadResult
<1>8. ASSUME NEW e \in Exec, Serve(e) PROVE ResultsLast'
  <2>1. Calm
    BY <1>1, <1>8 DEF Calm, Serve, TurnedDown, TypeOK, WorkerTypes
  <2>2. QED BY <1>3, <1>8, <2>1 DEF Serve
<1>9. ASSUME NEW e \in Exec, Stored(e) \/ StoredOrNot(e) \/ Refused(e) PROVE ResultsLast'
  <2>1. Calm
    BY <1>1, <1>9 DEF Calm, Stored, StoredOrNot, Refused, TurnedDown, TypeOK, WorkerTypes
  <2>2. QED BY <1>2, <1>9, <2>1 DEF Stored, StoredOrNot, Refused
<1>10. CASE WorkerExits
  <2>1. Calm
    BY <1>1, <1>10 DEF Calm, WorkerExits
  <2>2. QED BY <1>2, <1>10, <2>1 DEF WorkerExits
<1>11. ASSUME NEW f \in Finalizers, Finalize(f) PROVE ResultsLast'
  <2>1. Calm
    BY <1>1, <1>11 DEF Calm, Finalize, TypeOK, WorkerTypes
  <2>2. QED BY <1>2, <1>11, <2>1 DEF Finalize
<1>12. CASE UNCHANGED <<pipe, snip, late>>
  BY <1>1, <1>2, <1>12 DEF Calm
<1>13. QED
  BY <1>4, <1>5, <1>6, <1>7, <1>8, <1>9, <1>10, <1>11, <1>12
  DEF Next, Expire, Abort, Closed, Ask, NotFound, NotFoundAgain, GiveUp, vars

-----------------------------------------------------------------------------
\* A provisional entry keeps its origin: what removes one has found that there
\* is no such entry, or has just finalized it.
LEMMA OriginStep ==
    ASSUME TypeOK, OriginKept, AsksOnce, Finalizable, [Next]_vars
    PROVE  OriginKept'
<1> USE DEF TypeOK, TableTypes, OriginKept, MayHoldEntry
<1>1. CASE UNCHANGED <<rpc, entry, origins>>
  BY <1>1
<1>2. ASSUME NEW e \in Exec, Serve(e) PROVE OriginKept'
  BY <1>2 DEF Serve, TurnedDown
<1>3. ASSUME NEW e \in Exec, Stored(e) \/ StoredOrNot(e) \/ Refused(e) PROVE OriginKept'
  BY <1>3 DEF Stored, StoredOrNot, Refused, TurnedDown, AsksOnce
<1>4. ASSUME NEW f \in Finalizers, Finalize(f) PROVE OriginKept'
  BY <1>4 DEF Finalize, VaultTurn, Finalizable
<1>5. ASSUME NEW f \in Finalizers, NotFound(f) \/ NotFoundAgain(f) PROVE OriginKept'
  <2>1. fin[f].at # "idle" /\ rpc[fin[f].entry] # "queued" /\ ~Found(f)
    BY <1>5 DEF NotFound, NotFoundAgain, VaultTurn
  <2>2. origins' = origins \/ (origins' = origins \ {fin[f].entry} /\ ~MayHoldEntry(fin[f].entry))
    BY <1>5, <2>1 DEF NotFound, NotFoundAgain, VaultTurn, Found, Finalizable
  <2>3. UNCHANGED <<rpc, entry>>
    BY <1>5 DEF NotFound, NotFoundAgain
  <2>4. QED BY <2>2, <2>3
<1>6. QED
  BY <1>1, <1>2, <1>3, <1>4, <1>5
  DEF Next, WorkerExits, Call, Generate, Return, TimeOut, ReadResult, Expire, Abort, Closed,
      Ask, GiveUp, vars, host

\* A request that finds no record of an entry's origin, or looks for the entry
\* in vain, is about an entry that is not there.
LEMMA FinStep ==
    ASSUME TypeOK, OriginKept, AsksOnce, Recoverable, Finalizable, [Next]_vars
    PROVE  Finalizable'
<1> USE DEF Finalizable
<1>1. fin \in [Finalizers ->
                 [at : {"idle", "asked", "fallback", "lost"}, entry : Exec \cup {NoExec},
                  elsewhere : BOOLEAN, tracked : BOOLEAN, own : BOOLEAN]]
  BY DEF TypeOK, TableTypes
<1>2. \A x \in Exec : /\ rpc[x] # "none" => rpc'[x] # "none"
                      /\ rpc[x] # "none" /\ ~MayHoldEntry(x) => ~MayHoldEntry(x)'
  BY Settled
<1>3. CASE UNCHANGED fin
  BY <1>2, <1>3
<1>4. ASSUME NEW f \in Finalizers, NEW e \in Exec, Ask(f, e) PROVE Finalizable'
  <2>1. rpc[e] # "none"
    BY <1>4 DEF Ask, AsksOnce, Recoverable
  <2>2. e \notin origins => ~MayHoldEntry(e)
    BY DEF OriginKept
  <2>3. PICK own, elsewhere \in BOOLEAN :
           fin' = [fin EXCEPT ![f] = [at |-> "asked", entry |-> e, elsewhere |-> elsewhere,
                                      tracked |-> e \in origins, own |-> own]]
    BY <1>4 DEF Ask
  <2>4. fin'[f].entry = e /\ fin'[f].at = "asked" /\ (fin'[f].tracked <=> e \in origins)
    BY <1>1, <2>3
  <2>5. \A g \in Finalizers \ {f} : fin'[g] = fin[g]
    BY <1>1, <2>3
  <2>6. QED BY <1>2, <2>1, <2>2, <2>4, <2>5
<1>5. ASSUME NEW f \in Finalizers, fin' = [fin EXCEPT ![f] = Idle] PROVE Finalizable'
  BY <1>1, <1>2, <1>5 DEF Idle
<1>6. ASSUME NEW f \in Finalizers, NotFound(f) \/ NotFoundAgain(f) PROVE Finalizable'
  <2>1. fin[f].at # "idle" /\ rpc[fin[f].entry] # "queued" /\ ~Found(f)
    BY <1>6 DEF NotFound, NotFoundAgain, VaultTurn
  <2>2. \/ fin' = [fin EXCEPT ![f].at = "fallback"]
        \/ fin' = [fin EXCEPT ![f].at = "lost"] /\ ~MayHoldEntry(fin[f].entry)
    BY <1>1, <1>6, <2>1 DEF NotFound, NotFoundAgain, VaultTurn, Found, MayHoldEntry
  <2>3. /\ fin'[f].entry = fin[f].entry /\ fin'[f].tracked = fin[f].tracked
        /\ fin'[f].at = "lost" => ~MayHoldEntry(fin[f].entry)
    BY <1>1, <2>2
  <2>4. \A g \in Finalizers \ {f} : fin'[g] = fin[g]
    BY <1>1, <2>2
  <2>5. QED BY <1>2, <2>1, <2>3, <2>4
<1>7. QED
  BY <1>3, <1>4, <1>5, <1>6
  DEF Next, WorkerExits, Call, Generate, Return, TimeOut, ReadResult, Expire, Abort, Closed,
      Serve, Stored, StoredOrNot, Refused, Finalize, GiveUp, vars, host

\* A call that is open can still name what it may leave behind, and one that
\* ended without a name leaves nothing.
LEMMA RecoverStep ==
    ASSUME TypeOK, AsksOnce, ResultsLast, Recoverable, [Next]_vars
    PROVE  Recoverable'
<1> USE DEF Recoverable, Line
<1> call \in [Exec -> {"new", "answered"} \cup Open] /\ answer \in [Exec -> {"none", "ok", "named", "bare"}]
  BY DEF TypeOK, CallTypes
<1> /\ snip \in [Exec -> {"none", "running", "asked", "held", "clear", "zombie", "over"}]
    /\ \A x \in dead : x \in Exec /\ snip[x] = "over"
  BY DEF TypeOK, WorkerTypes
<1> /\ rpc \in [Exec -> {"none", "queued", "done"}] /\ entry \in [Exec -> {"absent", "pending", "final"}]
  BY DEF TypeOK, TableTypes
<1>1. \A x \in Exec : /\ rpc[x] # "none" => rpc'[x] # "none"
                      /\ rpc[x] # "none" /\ ~MayHoldEntry(x) => ~MayHoldEntry(x)'
  BY Settled
<1>2. CASE UNCHANGED <<call, answer, snip, pipe, rpc, entry, recoveries, late>>
  BY <1>2 DEF MayHoldEntry
<1>3. ASSUME NEW e \in Exec, Call(e) PROVE Recoverable'
  BY <1>3 DEF Call, Snippet, AsksOnce, MayHoldEntry, Open, host
<1>4. ASSUME NEW e \in Exec, Generate(e) PROVE Recoverable'
  <2>1. /\ \A x \in Exec \ {e} : pipe'[x] = pipe[x] /\ snip'[x] = snip[x]
        /\ late \subseteq late' /\ (snip[e] = "zombie" => e \in late')
        /\ snip[e] \in {"running", "zombie"} /\ UNCHANGED <<call, answer, rpc, entry, recoveries>>
    BY <1>4, PipeWritten DEF Generate, Snippet, Lines, host
  <2>2. QED BY <2>1 DEF MayHoldEntry
<1>5. ASSUME NEW e \in Exec, Return(e) \/ TimeOut(e) PROVE Recoverable'
  <2>1. PICK line \in {"ok", "named", "bare"} : Sends(e, line)
    BY <1>5 DEF Return, TimeOut
  <2>2. /\ \A x \in Exec \ {e} : pipe'[x] = pipe[x] /\ snip'[x] = snip[x]
        /\ UNCHANGED <<call, answer, rpc, entry, recoveries, late>>
        /\ snip[e] \notin {"zombie", "over"}
    BY <1>5, <2>1, PipeWritten DEF Return, TimeOut, Snippet, Lines, host
  <2>3. QED BY <2>2 DEF MayHoldEntry
<1>6. ASSUME NEW e \in Exec, ReadResult(e) PROVE Recoverable'
  <2>1. /\ \A x \in Exec \ {e} : pipe'[x] = pipe[x]
        /\ Len(pipe[e]) \in Nat \ {0} /\ Len(pipe'[e]) = Len(pipe[e]) - 1
        /\ \A i \in 1..Len(pipe[e]) - 1 : pipe'[e][i] = pipe[e][i + 1]
        /\ Head(pipe[e]) = pipe[e][1] /\ Head(pipe[e]) \in {"ok", "named", "bare"}
    BY <1>6, PipeRead DEF ReadResult, Lines
  <2>2. 1 \in 1..Len(pipe[e])
    BY <2>1
  <2>3. /\ snip[e] \in {"zombie", "over"} /\ (Head(pipe[e]) = "named" => rpc[e] # "none")
        /\ e \in late \/ \A j \in 1 + 1..Len(pipe[e]) : pipe[e][j] # "generate"
    BY <2>1, <2>2 DEF ResultsLast
  <2>4. e \in late \/ \A i \in 1..Len(pipe'[e]) : pipe'[e][i] # "generate"
    <3>1. \A i \in 1..Len(pipe[e]) - 1 : i + 1 \in 1 + 1..Len(pipe[e])
      BY <2>1
    <3>2. QED BY <2>1, <2>3, <3>1
  <2>5. UNCHANGED <<snip, rpc, entry, late>>
    BY <1>6 DEF ReadResult
  <2>6. CASE UNCHANGED <<call, answer, recoveries>>
    <3>1. answer[e] = "bare" /\ e \notin late =>
             /\ ~MayHoldEntry(e) /\ snip[e] \in {"zombie", "over"}
             /\ \A i \in 1..Len(pipe'[e]) : pipe'[e][i] # "generate"
      BY <2>4
    <3>2. QED BY <2>1, <2>5, <2>6, <3>1 DEF MayHoldEntry
  <2>7. CASE /\ call[e] \in Open
             /\ Answers(e, IF Head(pipe[e]) = "bare" /\ e \in recoveries THEN "named" ELSE Head(pipe[e]))
             /\ recoveries' = recoveries \ {e}
    <3>1. /\ \A x \in Exec \ {e} : call'[x] = call[x] /\ answer'[x] = answer[x]
          /\ call'[e] \notin Open
          /\ answer'[e] = (IF Head(pipe[e]) = "bare" /\ e \in recoveries THEN "named" ELSE Head(pipe[e]))
      BY <2>7 DEF Answers, Open
    <3>2. answer'[e] = "named" => rpc[e] # "none"
      BY <2>3, <3>1
    <3>3. answer'[e] = "bare" => ~MayHoldEntry(e)
      BY <2>7, <3>1
    <3>4. QED BY <2>1, <2>3, <2>4, <2>5, <2>7, <3>1, <3>2, <3>3 DEF MayHoldEntry
  <2>8. QED BY <1>6, <2>6, <2>7 DEF ReadResult, Attach
<1>7. ASSUME NEW e \in Exec, Expire(e) \/ Abort(e) PROVE Recoverable'
  BY <1>7 DEF Expire, Abort, MayHoldEntry, Open, host
<1>8. ASSUME NEW e \in Exec, Closed(e) PROVE Recoverable'
  <2>1. /\ \A x \in Exec \ {e} : call'[x] = call[x] /\ answer'[x] = answer[x]
        /\ call'[e] \notin Open /\ answer'[e] = (IF e \in recoveries THEN "named" ELSE "bare")
        /\ recoveries' = recoveries \ {e} /\ UNCHANGED <<snip, pipe, rpc, entry, late>>
        /\ call[e] \in Open /\ snip[e] = "over" /\ pipe[e] = <<>>
    BY <1>8 DEF Closed, Answers, Open
  <2>2. Len(pipe[e]) = 0
    BY <2>1
  <2>3. QED BY <2>1, <2>2 DEF MayHoldEntry
<1>9. ASSUME NEW e \in Exec, Serve(e) PROVE Recoverable'
  <2>1. /\ \A x \in Exec \ {e} : pipe'[x] = pipe[x]
        /\ 1 \in 1..Len(pipe[e]) /\ pipe[e][1] = "generate"
    BY <1>9, PipeRead DEF Serve
  <2>2. rpc[e] = "none" /\ entry[e] = "absent" /\ ~(answer[e] = "bare" /\ e \notin late)
    BY <2>1 DEF AsksOnce
  <2>3. /\ UNCHANGED <<call, answer, entry, late>> /\ \A x \in Exec \ {e} : snip'[x] = snip[x]
        /\ \/ rpc' = [rpc EXCEPT ![e] = "queued"] /\ recoveries' = recoveries \cup {e}
           \/ rpc' = [rpc EXCEPT ![e] = "done"] /\ recoveries' = recoveries
    BY <1>9 DEF Serve, TurnedDown
  <2>4. QED BY <2>1, <2>2, <2>3 DEF MayHoldEntry
<1>10. ASSUME NEW e \in Exec, Stored(e) PROVE Recoverable'
  BY <1>10 DEF Stored, MayHoldEntry
<1>11. ASSUME NEW e \in Exec, StoredOrNot(e) \/ Refused(e) PROVE Recoverable'
  BY <1>11 DEF StoredOrNot, Refused, TurnedDown, MayHoldEntry, AsksOnce
<1>12. CASE WorkerExits
  <2>1. \A x \in Exec : snip'[x] = "over" \/ snip'[x] = snip[x]
    BY <1>12 DEF WorkerExits
  <2>2. QED BY <1>12, <2>1 DEF WorkerExits, host, MayHoldEntry
<1>13. ASSUME NEW f \in Finalizers, Finalize(f) PROVE Recoverable'
  BY <1>13 DEF Finalize, VaultTurn, MayHoldEntry
<1>14. QED
  BY <1>2, <1>3, <1>4, <1>5, <1>6, <1>7, <1>8, <1>9, <1>10, <1>11, <1>12, <1>13
  DEF Next, Ask, NotFound, NotFoundAgain, GiveUp, vars

-----------------------------------------------------------------------------
\* The host tracks no more entries than it has room for, knows the origin of
\* every provisional one, and sees each execution's request, result and entry in
\* this order, however the vault, the timers, the worker's exit and the requests
\* to finalize interleave.
THEOREM Inductive == Spec => []IndInv
<1>1. ASSUME IndInv, [Next]_vars PROVE IndInv'
  <2>1. CallTypes' /\ WorkerTypes' /\ TableTypes' /\ IsFiniteSet(origins)'
    BY <1>1, CallStep, WorkerStep, TableStep, CapStep DEF IndInv
  <2>2. OriginKept' /\ AsksOnce' /\ ResultsLast' /\ Recoverable' /\ Finalizable'
    BY <1>1, OriginStep, AskStep, ResultStep, RecoverStep, FinStep DEF IndInv
  <2>3. QED BY <2>1, <2>2 DEF IndInv, TypeOK
<1>2. QED BY InitInv, <1>1, PTL DEF Spec

\* No failed execution that asked for its password in time is answered without
\* the name of the entry it may have left in the vault.
THEOREM FailuresNameEntries == Spec => []TimelyEntryNamed
<1>1. IndInv => TimelyEntryNamed
  BY DEF IndInv, Recoverable, TimelyEntryNamed
<1>2. QED BY Inductive, <1>1, PTL

\* A request to finalize an entry, from its site or after a redirect, is told
\* that there is none only when there is none.
THEOREM RedirectsFindEntries == Spec => []RedirectFindsEntry
<1>1. IndInv => RedirectFindsEntry
  BY DEF IndInv, Finalizable, MayHoldEntry, RedirectFindsEntry
<1>2. QED BY Inductive, <1>1, PTL
=============================================================================
