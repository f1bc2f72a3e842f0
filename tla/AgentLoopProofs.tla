--------------------------- MODULE AgentLoopProofs ---------------------------
(***************************************************************************)
(* Theorems about the agent loop, for any number of messages, any limit of *)
(* the chat's inbox, any bounds and any options a task may be started with.*)
(*                                                                         *)
(* IndInv is proved part by part.  Each part has a lemma that says which   *)
(* of the other parts its preservation rests on: the calls without a       *)
(* result are the rest of the batch (Queues), so the message that ends the *)
(* batch closes the turn (Whole); a conclusion is only drawn at the end of *)
(* a turn (Earned), so what is due when it is drawn is where the next      *)
(* collection looks for it (Heeded); and the stop the run waits for is the *)
(* last operation of its lane (Owned).  Nothing is assumed but the named   *)
(* assumption on the constants.                                            *)
(***************************************************************************)
EXTENDS AgentLoop, SequenceTheorems, TLAPS

\* What can become of the messages in one step.
LEMMA SteeringMoves ==
    ASSUME [Next]_vars
    PROVE  \/ UNCHANGED steerVars
           \/ Note
           \/ Emptied("gone") /\ UNCHANGED <<due, left>>
           \/ DrainChat \/ DrainTerminal \/ CallModel
           \/ \E m \in Message, source \in {"terminal", "view"} : Steer(m, source)
<1>1. CASE Begin \/ Opened \/ Top \/ Prose \/ Ignored \/ Login \/ LoginEnds \/ RunBrowser
  BY <1>1 DEF Begin, Opened, Top, Prose, Ignored, Login, LoginEnds, RunBrowser
<1>2. CASE \/ \E text \in {"claim", "huge", "none"} : Done(text)
           \/ \E action \in {"stop", "status"} : ViewTool(action)
           \/ Human \/ ViewOpened \/ ViewToolEnds \/ AfterBatch
  BY <1>2 DEF Done, ViewTool, Human, ViewOpened, ViewToolEnds, AfterBatch
<1>3. CASE BatchEnds \/ CheckAnswers \/ \E text \in Replies : ModelAnswers(text)
  BY <1>3 DEF BatchEnds, CheckAnswers, ModelAnswers
<1>4. CASE Redirected \/ Approve \/ Correct \/ Inspect \/ Reject \/ LeaveOpen
  BY <1>4 DEF Redirected, Approve, Correct, Inspect, Reject, LeaveOpen
<1>5. CASE Post \/ Posted \/ Close \/ TornDown \/ Serve \/ HostView
  BY <1>5 DEF Post, Posted, Close, TornDown, Serve, StopView, HostView, ViewerGone
<1>6. CASE Cut \/ ModelFails \/ BrowserRejects \/ CheckFails \/ Observe \/ HumanAnswers
  BY <1>6 DEF Cut, ModelFails, BrowserRejects, CheckFails, Observe, HumanAnswers
<1>7. CASE \/ \E batch \in Batches : ModelCalls(batch)
           \/ \E outcome \in {"works", "fails", "same", "claim", "huge"} : BrowserEnds(outcome)
           \/ Interrupt \/ Expire \/ UNCHANGED vars
  BY <1>7 DEF ModelCalls, BrowserEnds, Interrupt, Expire, vars
<1>8. QED BY <1>1, <1>2, <1>3, <1>4, <1>5, <1>6, <1>7 DEF Next, Proceed

\* A message that is queued is in the chat, and the one pushed out is gone.
LEMMA QueuedPlaces ==
    ASSUME Places, NEW m \in Message, QueueHumanMessage(m)
    PROVE  /\ where' \in [Message -> {"unsent", "view", "terminal", "held", "told", "gone"}]
           /\ inbox' \in Seq(Message)
<1> USE DEF Places, QueueHumanMessage
<1>1. CASE Len(inbox) >= InboxLimit
  <2>1. Len(inbox) > 0
    BY <1>1, LenProperties, OptionsAssumption
  <2>2. inbox # <<>>
    BY <2>1, EmptySeq
  <2>3. Tail(inbox) \in Seq(Message)
    BY <2>2, HeadTailProperties
  <2>4. QED BY <2>3, AppendProperties
<1>2. CASE ~(Len(inbox) >= InboxLimit)
  BY <1>2, AppendProperties
<1>3. QED BY <1>1, <1>2

\* The messages stay where messages can be.
LEMMA PlacesStep ==
    ASSUME Places, [Next]_vars
    PROVE  Places'
<1> USE DEF Places
<1>1. CASE UNCHANGED steerVars
  BY <1>1 DEF steerVars
<1>2. CASE Note
  BY <1>2 DEF Note, In
<1>3. ASSUME NEW to \in {"gone", "held"}, Emptied(to)
      PROVE  /\ where' \in [Message -> {"unsent", "view", "terminal", "held", "told", "gone"}]
             /\ inbox' \in Seq(Message)
  BY <1>3 DEF Emptied, Heard
<1>4. CASE Emptied("gone") /\ UNCHANGED <<due, left>>
  BY <1>3, <1>4
<1>5. CASE DrainChat
  BY <1>3, <1>5 DEF DrainChat, In
<1>6. CASE DrainTerminal
  <2> PICK heard \in {In("terminal"), {}} :
           /\ where' = Heard(heard \cup In("held"), "told")
           /\ left' = (left \ heard) \cup (due \cap (In("terminal") \ heard))
           /\ UNCHANGED <<inbox, due>>
    BY <1>6 DEF DrainTerminal
  <2>1. where' \in [Message -> {"unsent", "view", "terminal", "held", "told", "gone"}]
    BY DEF Heard
  <2>2. QED BY <2>1
<1>7. CASE CallModel
  BY <1>7 DEF CallModel, Unheeded
<1>8. ASSUME NEW m \in Message, NEW source \in {"terminal", "view"}, Steer(m, source)
      PROVE  Places'
  <2>1. CASE source = "terminal"
    BY <1>8, <2>1 DEF Steer
  <2>2. CASE source = "view"
    BY <1>8, <2>2, QueuedPlaces DEF Steer
  <2>3. QED BY <2>1, <2>2
<1>9. QED BY <1>1, <1>2, <1>4, <1>5, <1>6, <1>7, <1>8, SteeringMoves

\* Every variable stays in its domain.
LEMMA KindStep ==
    ASSUME TypeOK, Flags', Places', [Next]_vars
    PROVE  TypeOK'
<1> USE DEF TypeOK, Answers, Loop, Guarded, Waiting, Replies, vars,
       turnVars, resultVars, checkVars, steerVars, viewVars, envVars
<1>1. CASE Begin
  BY <1>1 DEF Begin, Enqueue, Goto
<1>2. CASE Opened
  BY <1>2 DEF Opened, Goto
<1>3. CASE Top
  BY <1>3 DEF Top, Break, Collect, Goto
<1>4. CASE DrainChat
  BY <1>4 DEF DrainChat, Goto
<1>5. CASE DrainTerminal
  BY <1>5 DEF DrainTerminal, AppendMessage
<1>6. CASE CallModel
  BY <1>6 DEF CallModel
<1>7. CASE Prose
  BY <1>7 DEF Prose, Settle, Goto
<1>8. CASE \E text \in {"claim", "huge", "none"} : Done(text)
  BY <1>8 DEF Done, Answer, Facing
<1>9. CASE Ignored
  BY <1>9 DEF Ignored, Answer
<1>10. CASE Login
  BY <1>10 DEF Login, Taken, Facing, Mirror, Enqueue, Goto
<1>11. CASE LoginEnds
  BY <1>11 DEF LoginEnds, Answer, Goto
<1>12. CASE RunBrowser
  BY <1>12 DEF RunBrowser, Taken, Facing, Mirror, Enqueue, Goto
<1>13. CASE Human
  BY <1>13 DEF Human, Taken, Facing, Enqueue, Goto
<1>14. CASE ViewOpened
  BY <1>14 DEF ViewOpened, InTime, Answer, Goto
<1>15. CASE ViewToolEnds
  BY <1>15 DEF ViewToolEnds, Answer, Goto
<1>16. CASE \E action \in {"stop", "status"} : ViewTool(action)
  BY <1>16 DEF ViewTool, Taken, Facing, Enqueue, Goto
<1>17. CASE BatchEnds
  BY <1>17 DEF BatchEnds, AppendMessage, Note, Collect
<1>18. CASE AfterBatch
  <2> USE <1>18 DEF AfterBatch, Goto
  <2>1. CASE news
    BY <2>1 DEF Defer
  <2>2. CASE ~news /\ finished
    BY <2>2 DEF Settle
  <2>3. CASE ~news /\ ~finished
    BY <2>3 DEF Break
  <2>4. QED BY <2>1, <2>2, <2>3
<1>19. CASE Redirected
  BY <1>19 DEF Redirected, Goto
<1>20. CASE Approve
  BY <1>20 DEF Approve, Judged, AppendMessage, GiveUp, Goto
<1>21. CASE Correct
  BY <1>21 DEF Correct, Judged, Spent, AskChecker, Mirror, Enqueue, Goto
<1>22. CASE Inspect
  BY <1>22 DEF Inspect, Judged, Spent, Goto
<1>23. CASE Reject
  BY <1>23 DEF Reject, Judged, GiveUp, AppendMessage, Goto
<1>24. CASE LeaveOpen
  BY <1>24 DEF LeaveOpen, Judged, Spent, GiveUp, AppendMessage, Break, Goto
<1>25. CASE Post
  BY <1>25 DEF Post, Enqueue, Goto
<1>26. CASE Posted
  BY <1>26 DEF Posted, Goto
<1>27. CASE Close
  BY <1>27 DEF Close, Seal, Enqueue, Goto, ViewerGone
<1>28. CASE TornDown
  BY <1>28 DEF TornDown, Goto
<1>29. CASE Cut
  BY <1>29 DEF Cut, Guarded, Goto
<1>30. CASE Serve
  <2> USE <1>30 DEF Serve, ViewerGone, Fresh
  <2>1. CASE Head(lane) = "start"
    BY <2>1 DEF StartView
  <2>2. CASE Head(lane) \in {"stop", "end"}
    BY <2>2 DEF StopView
  <2>3. CASE Head(lane) = "status"
    BY <2>3 DEF ViewStatus
  <2>4. QED BY <2>1, <2>2, <2>3
<1>31. CASE ModelFails
  BY <1>31 DEF ModelFails, InTime, Break, Goto
<1>32. CASE CheckFails
  BY <1>32 DEF CheckFails, InTime, GiveUp, Goto
<1>33. CASE CheckAnswers
  BY <1>33 DEF CheckAnswers, InTime, Note, Collect
<1>34. CASE Observe
  BY <1>34 DEF Observe, InTime, AskChecker, Mirror, Enqueue, Goto
<1>35. CASE HumanAnswers
  BY <1>35 DEF HumanAnswers, InTime, Answer, Goto
<1>36. CASE \E text \in Replies : ModelAnswers(text)
  BY <1>36 DEF ModelAnswers, InTime, AppendMessage, Note, Replies
<1>37. CASE \E batch \in Batches : ModelCalls(batch)
  BY <1>37 DEF ModelCalls, InTime, AppendMessage, Goto, Batches
<1>38. CASE \E outcome \in {"works", "fails", "same", "claim", "huge"} : BrowserEnds(outcome)
  BY <1>38 DEF BrowserEnds, InTime, Answer, Goto
<1>39. CASE \E m \in Message, source \in {"terminal", "view"} : Steer(m, source)
  BY <1>39 DEF Steer
<1>40. CASE HostView
  BY <1>40 DEF HostView, ViewerGone
<1>41. CASE Interrupt
  BY <1>41 DEF Interrupt
<1>42. CASE Expire
  BY <1>42 DEF Expire
<1>43. CASE UNCHANGED vars
  BY <1>43
<1>44. CASE BrowserRejects
  BY <1>44 DEF BrowserRejects, InTime, Goto
<1>45. QED
  BY <1>1, <1>2, <1>3, <1>4, <1>5, <1>6, <1>7, <1>8, <1>9, <1>10, <1>11,
     <1>12, <1>13, <1>14, <1>15, <1>16, <1>17, <1>18, <1>19, <1>20, <1>21,
     <1>22, <1>23, <1>24, <1>25, <1>26, <1>27, <1>28, <1>29, <1>30, <1>31,
     <1>32, <1>33, <1>34, <1>35, <1>36, <1>37, <1>38, <1>39, <1>40, <1>41,
     <1>42, <1>43, <1>44 DEF Next, Proceed

\* The flags are Boolean.
LEMMA FlagStep ==
    ASSUME Flags, [Next]_vars
    PROVE  Flags'
<1> USE DEF Flags, vars, turnVars, resultVars, checkVars, steerVars,
       viewVars, envVars
<1>1. CASE Begin
  BY <1>1 DEF Begin, Enqueue, Goto
<1>2. CASE Opened
  BY <1>2 DEF Opened, Goto
<1>3. CASE Top
  BY <1>3 DEF Top, Break, Collect, Goto
<1>4. CASE DrainChat
  BY <1>4 DEF DrainChat, Goto
<1>5. CASE DrainTerminal
  BY <1>5 DEF DrainTerminal, AppendMessage
<1>6. CASE CallModel
  BY <1>6 DEF CallModel
<1>7. CASE Prose
  BY <1>7 DEF Prose, Settle, Goto
<1>8. CASE \E text \in {"claim", "huge", "none"} : Done(text)
  BY <1>8 DEF Done, Answer, Facing
<1>9. CASE Ignored
  BY <1>9 DEF Ignored, Answer
<1>10. CASE Login
  BY <1>10 DEF Login, Taken, Facing, Mirror, Enqueue, Goto
<1>11. CASE LoginEnds
  BY <1>11 DEF LoginEnds, Answer, Goto
<1>12. CASE RunBrowser
  BY <1>12 DEF RunBrowser, Taken, Facing, Mirror, Enqueue, Goto
<1>13. CASE Human
  BY <1>13 DEF Human, Taken, Facing, Enqueue, Goto
<1>14. CASE ViewOpened
  BY <1>14 DEF ViewOpened, InTime, Answer, Goto
<1>15. CASE ViewToolEnds
  BY <1>15 DEF ViewToolEnds, Answer, Goto
<1>16. CASE \E action \in {"stop", "status"} : ViewTool(action)
  BY <1>16 DEF ViewTool, Taken, Facing, Enqueue, Goto
<1>17. CASE BatchEnds
  BY <1>17 DEF BatchEnds, AppendMessage, Note, Collect
<1>18. CASE AfterBatch
  BY <1>18 DEF AfterBatch, Defer, Settle, Break, Goto
<1>19. CASE Redirected
  BY <1>19 DEF Redirected, Goto
<1>20. CASE Approve
  BY <1>20 DEF Approve, Judged, AppendMessage, GiveUp, Goto
<1>21. CASE Correct
  BY <1>21 DEF Correct, Judged, Spent, AskChecker, Mirror, Enqueue, Goto
<1>22. CASE Inspect
  BY <1>22 DEF Inspect, Judged, Spent, Goto
<1>23. CASE Reject
  BY <1>23 DEF Reject, Judged, GiveUp, AppendMessage, Goto
<1>24. CASE LeaveOpen
  BY <1>24 DEF LeaveOpen, Judged, Spent, GiveUp, AppendMessage, Break, Goto
<1>25. CASE Post
  BY <1>25 DEF Post, Enqueue, Goto
<1>26. CASE Posted
  BY <1>26 DEF Posted, Goto
<1>27. CASE Close
  BY <1>27 DEF Close, Seal, Enqueue, Goto, ViewerGone
<1>28. CASE TornDown
  BY <1>28 DEF TornDown, Goto
<1>29. CASE Cut
  BY <1>29 DEF Cut, Guarded, Goto
<1>30. CASE Serve
  BY <1>30 DEF Serve, StartView, StopView, ViewStatus, Fresh, ViewerGone
<1>31. CASE ModelFails
  BY <1>31 DEF ModelFails, InTime, Break, Goto
<1>32. CASE CheckFails
  BY <1>32 DEF CheckFails, InTime, GiveUp, Goto
<1>33. CASE CheckAnswers
  BY <1>33 DEF CheckAnswers, InTime, Note, Collect
<1>34. CASE Observe
  BY <1>34 DEF Observe, InTime, AskChecker, Mirror, Enqueue, Goto
<1>35. CASE HumanAnswers
  BY <1>35 DEF HumanAnswers, InTime, Answer, Goto
<1>36. CASE \E text \in Replies : ModelAnswers(text)
  BY <1>36 DEF ModelAnswers, InTime, AppendMessage, Note, Replies
<1>37. CASE \E batch \in Batches : ModelCalls(batch)
  BY <1>37 DEF ModelCalls, InTime, AppendMessage, Goto, Batches
<1>38. CASE \E outcome \in {"works", "fails", "same", "claim", "huge"} : BrowserEnds(outcome)
  BY <1>38 DEF BrowserEnds, InTime, Answer, Goto
<1>39. CASE \E m \in Message, source \in {"terminal", "view"} : Steer(m, source)
  BY <1>39 DEF Steer
<1>40. CASE HostView
  BY <1>40 DEF HostView, ViewerGone
<1>41. CASE Interrupt
  BY <1>41 DEF Interrupt
<1>42. CASE Expire
  BY <1>42 DEF Expire
<1>43. CASE UNCHANGED vars
  BY <1>43
<1>44. CASE BrowserRejects
  BY <1>44 DEF BrowserRejects, InTime, Goto
<1>45. QED
  BY <1>1, <1>2, <1>3, <1>4, <1>5, <1>6, <1>7, <1>8, <1>9, <1>10, <1>11,
     <1>12, <1>13, <1>14, <1>15, <1>16, <1>17, <1>18, <1>19, <1>20, <1>21,
     <1>22, <1>23, <1>24, <1>25, <1>26, <1>27, <1>28, <1>29, <1>30, <1>31,
     <1>32, <1>33, <1>34, <1>35, <1>36, <1>37, <1>38, <1>39, <1>40, <1>41,
     <1>42, <1>43, <1>44 DEF Next, Proceed

\* The calls without a result are counted, and the lane holds operations.
LEMMA QueueStep ==
    ASSUME Queues, [Next]_vars
    PROVE  Queues'
<1> USE DEF Queues, Tools, vars, turnVars, resultVars, checkVars, steerVars,
       viewVars, envVars
<1>1. CASE Begin
  BY <1>1 DEF Begin, Enqueue, Goto
<1>2. CASE Opened
  BY <1>2 DEF Opened, Goto
<1>3. CASE Top
  BY <1>3 DEF Top, Break, Collect, Goto
<1>4. CASE DrainChat
  BY <1>4 DEF DrainChat, Goto
<1>5. CASE DrainTerminal
  BY <1>5 DEF DrainTerminal, AppendMessage
<1>6. CASE CallModel
  BY <1>6 DEF CallModel
<1>7. CASE Prose
  BY <1>7 DEF Prose, Settle, Goto
<1>8. CASE \E text \in {"claim", "huge", "none"} : Done(text)
  BY <1>8 DEF Done, Answer, Facing
<1>9. CASE Ignored
  BY <1>9 DEF Ignored, Answer
<1>10. CASE Login
  BY <1>10 DEF Login, Taken, Facing, Mirror, Enqueue, Goto
<1>11. CASE LoginEnds
  BY <1>11 DEF LoginEnds, Answer, Goto
<1>12. CASE RunBrowser
  BY <1>12 DEF RunBrowser, Taken, Facing, Mirror, Enqueue, Goto
<1>13. CASE Human
  BY <1>13 DEF Human, Taken, Facing, Enqueue, Goto
<1>14. CASE ViewOpened
  BY <1>14 DEF ViewOpened, InTime, Answer, Goto
<1>15. CASE ViewToolEnds
  BY <1>15 DEF ViewToolEnds, Answer, Goto
<1>16. CASE \E action \in {"stop", "status"} : ViewTool(action)
  BY <1>16 DEF ViewTool, Taken, Facing, Enqueue, Goto
<1>17. CASE BatchEnds
  BY <1>17 DEF BatchEnds, AppendMessage, Note, Collect
<1>18. CASE AfterBatch
  BY <1>18 DEF AfterBatch, Defer, Settle, Break, Goto
<1>19. CASE Redirected
  BY <1>19 DEF Redirected, Goto
<1>20. CASE Approve
  BY <1>20 DEF Approve, Judged, AppendMessage, GiveUp, Goto
<1>21. CASE Correct
  BY <1>21 DEF Correct, Judged, Spent, AskChecker, Mirror, Enqueue, Goto
<1>22. CASE Inspect
  BY <1>22 DEF Inspect, Judged, Spent, Goto
<1>23. CASE Reject
  BY <1>23 DEF Reject, Judged, GiveUp, AppendMessage, Goto
<1>24. CASE LeaveOpen
  BY <1>24 DEF LeaveOpen, Judged, Spent, GiveUp, AppendMessage, Break, Goto
<1>25. CASE Post
  <2>1. calls' = calls /\ unanswered' = unanswered /\ pc' \in {"posting", "closing"}
    BY <1>25 DEF Post, Goto
  <2>2. lane' = lane \/ lane' = Append(lane, "start")
    BY <1>25 DEF Post, Enqueue
  <2>3. QED BY <2>1, <2>2
<1>26. CASE Posted
  BY <1>26 DEF Posted, Goto
<1>27. CASE Close
  <2>1. calls' = <<>> /\ unanswered' = 0 /\ pc' \in {"teardown", "over"}
    BY <1>27 DEF Close, Seal, Goto
  <2>2. lane' = lane \/ lane' = Append(lane, "end") \/ lane' = <<>>
    BY <1>27 DEF Close, Enqueue
  <2>3. <<>> \in Seq(Tools) /\ Len(<<>>) = 0
    OBVIOUS
  <2>4. calls' \in Seq(Tools) /\ unanswered' = Len(calls')
    BY <2>1, <2>3
  <2>5. lane' \in Seq({"start", "stop", "status", "end"})
    <3>1. CASE lane' = <<>>
      BY <3>1
    <3>2. CASE lane' = Append(lane, "end")
      BY <3>2
    <3>3. CASE lane' = lane
      BY <3>3
    <3>4. QED BY <2>2, <3>1, <3>2, <3>3
  <2>6. QED BY <2>1, <2>4, <2>5
<1>28. CASE TornDown
  BY <1>28 DEF TornDown, Goto
<1>29. CASE Cut
  BY <1>29 DEF Cut, Guarded, Goto
<1>30. CASE Serve
  BY <1>30 DEF Serve, StartView, StopView, ViewStatus, Fresh, ViewerGone
<1>31. CASE ModelFails
  BY <1>31 DEF ModelFails, InTime, Break, Goto
<1>32. CASE CheckFails
  BY <1>32 DEF CheckFails, InTime, GiveUp, Goto
<1>33. CASE CheckAnswers
  BY <1>33 DEF CheckAnswers, InTime, Note, Collect
<1>34. CASE Observe
  BY <1>34 DEF Observe, InTime, AskChecker, Mirror, Enqueue, Goto
<1>35. CASE HumanAnswers
  BY <1>35 DEF HumanAnswers, InTime, Answer, Goto
<1>36. CASE \E text \in Replies : ModelAnswers(text)
  BY <1>36 DEF ModelAnswers, InTime, AppendMessage, Note, Replies
<1>37. CASE \E batch \in Batches : ModelCalls(batch)
  BY <1>37 DEF ModelCalls, InTime, AppendMessage, Goto, Batches
<1>38. CASE \E outcome \in {"works", "fails", "same", "claim", "huge"} : BrowserEnds(outcome)
  BY <1>38 DEF BrowserEnds, InTime, Answer, Goto
<1>39. CASE \E m \in Message, source \in {"terminal", "view"} : Steer(m, source)
  BY <1>39 DEF Steer
<1>40. CASE HostView
  BY <1>40 DEF HostView, ViewerGone
<1>41. CASE Interrupt
  BY <1>41 DEF Interrupt
<1>42. CASE Expire
  BY <1>42 DEF Expire
<1>43. CASE UNCHANGED vars
  BY <1>43
<1>44. CASE BrowserRejects
  BY <1>44 DEF BrowserRejects, InTime, Goto
<1>45. QED
  BY <1>1, <1>2, <1>3, <1>4, <1>5, <1>6, <1>7, <1>8, <1>9, <1>10, <1>11,
     <1>12, <1>13, <1>14, <1>15, <1>16, <1>17, <1>18, <1>19, <1>20, <1>21,
     <1>22, <1>23, <1>24, <1>25, <1>26, <1>27, <1>28, <1>29, <1>30, <1>31,
     <1>32, <1>33, <1>34, <1>35, <1>36, <1>37, <1>38, <1>39, <1>40, <1>41,
     <1>42, <1>43, <1>44 DEF Next, Proceed

\* A message is appended to a closed turn, or closes it.
LEMMA WholeStep ==
    ASSUME TypeOK, Queues, Whole, [Next]_vars
    PROVE  Whole'
<1> USE DEF Whole, vars, turnVars, resultVars, checkVars, steerVars,
       viewVars, envVars
<1>1. CASE Begin
  BY <1>1 DEF Begin, Enqueue, Goto
<1>2. CASE Opened
  BY <1>2 DEF Opened, Goto
<1>3. CASE Top
  BY <1>3 DEF Top, Break, Collect, Goto
<1>4. CASE DrainChat
  BY <1>4 DEF DrainChat, Goto
<1>5. CASE DrainTerminal
  BY <1>5 DEF DrainTerminal, AppendMessage
<1>6. CASE CallModel
  BY <1>6 DEF CallModel
<1>7. CASE Prose
  BY <1>7 DEF Prose, Settle, Goto
<1>8. CASE \E text \in {"claim", "huge", "none"} : Done(text)
  BY <1>8 DEF Done, Answer, Facing
<1>9. CASE Ignored
  BY <1>9 DEF Ignored, Answer
<1>10. CASE Login
  BY <1>10 DEF Login, Taken, Facing, Mirror, Enqueue, Goto
<1>11. CASE LoginEnds
  BY <1>11 DEF LoginEnds, Answer, Goto
<1>12. CASE RunBrowser
  BY <1>12 DEF RunBrowser, Taken, Facing, Mirror, Enqueue, Goto
<1>13. CASE Human
  BY <1>13 DEF Human, Taken, Facing, Enqueue, Goto
<1>14. CASE ViewOpened
  BY <1>14 DEF ViewOpened, InTime, Answer, Goto
<1>15. CASE ViewToolEnds
  BY <1>15 DEF ViewToolEnds, Answer, Goto
<1>16. CASE \E action \in {"stop", "status"} : ViewTool(action)
  BY <1>16 DEF ViewTool, Taken, Facing, Enqueue, Goto
<1>17. CASE BatchEnds
  BY <1>17 DEF BatchEnds, AppendMessage, Note, Collect, Queues
<1>18. CASE AfterBatch
  BY <1>18 DEF AfterBatch, Defer, Settle, Break, Goto
<1>19. CASE Redirected
  BY <1>19 DEF Redirected, Goto
<1>20. CASE Approve
  BY <1>20 DEF Approve, Judged, AppendMessage, GiveUp, Goto
<1>21. CASE Correct
  BY <1>21 DEF Correct, Judged, Spent, AskChecker, Mirror, Enqueue, Goto
<1>22. CASE Inspect
  BY <1>22 DEF Inspect, Judged, Spent, Goto
<1>23. CASE Reject
  BY <1>23 DEF Reject, Judged, GiveUp, AppendMessage, Goto
<1>24. CASE LeaveOpen
  BY <1>24 DEF LeaveOpen, Judged, Spent, GiveUp, AppendMessage, Break, Goto
<1>25. CASE Post
  BY <1>25 DEF Post, Enqueue, Goto
<1>26. CASE Posted
  BY <1>26 DEF Posted, Goto
<1>27. CASE Close
  BY <1>27 DEF Close, Seal, Enqueue, Goto, ViewerGone
<1>28. CASE TornDown
  BY <1>28 DEF TornDown, Goto
<1>29. CASE Cut
  BY <1>29 DEF Cut, Guarded, Goto
<1>30. CASE Serve
  BY <1>30 DEF Serve, StartView, StopView, ViewStatus, Fresh, ViewerGone
<1>31. CASE ModelFails
  BY <1>31 DEF ModelFails, InTime, Break, Goto
<1>32. CASE CheckFails
  BY <1>32 DEF CheckFails, InTime, GiveUp, Goto
<1>33. CASE CheckAnswers
  BY <1>33 DEF CheckAnswers, InTime, Note, Collect
<1>34. CASE Observe
  BY <1>34 DEF Observe, InTime, AskChecker, Mirror, Enqueue, Goto
<1>35. CASE HumanAnswers
  BY <1>35 DEF HumanAnswers, InTime, Answer, Goto
<1>36. CASE \E text \in Replies : ModelAnswers(text)
  BY <1>36 DEF ModelAnswers, InTime, AppendMessage, Note, Replies
<1>37. CASE \E batch \in Batches : ModelCalls(batch)
  BY <1>37 DEF ModelCalls, InTime, AppendMessage, Goto, Batches
<1>38. CASE \E outcome \in {"works", "fails", "same", "claim", "huge"} : BrowserEnds(outcome)
  BY <1>38 DEF BrowserEnds, InTime, Answer, Goto
<1>39. CASE \E m \in Message, source \in {"terminal", "view"} : Steer(m, source)
  BY <1>39 DEF Steer
<1>40. CASE HostView
  BY <1>40 DEF HostView, ViewerGone
<1>41. CASE Interrupt
  BY <1>41 DEF Interrupt
<1>42. CASE Expire
  BY <1>42 DEF Expire
<1>43. CASE UNCHANGED vars
  BY <1>43
<1>44. CASE BrowserRejects
  BY <1>44 DEF BrowserRejects, InTime, Goto
<1>45. QED
  BY <1>1, <1>2, <1>3, <1>4, <1>5, <1>6, <1>7, <1>8, <1>9, <1>10, <1>11,
     <1>12, <1>13, <1>14, <1>15, <1>16, <1>17, <1>18, <1>19, <1>20, <1>21,
     <1>22, <1>23, <1>24, <1>25, <1>26, <1>27, <1>28, <1>29, <1>30, <1>31,
     <1>32, <1>33, <1>34, <1>35, <1>36, <1>37, <1>38, <1>39, <1>40, <1>41,
     <1>42, <1>43, <1>44 DEF Next, Proceed

\* The streak and the checks stay within their bounds.
LEMMA BoundedStep ==
    ASSUME TypeOK, Bounded, [Next]_vars
    PROVE  Bounded'
<1> USE OptionsAssumption DEF Bounded, Asking, Collecting, Ending, vars,
       turnVars, resultVars, checkVars, steerVars, viewVars, envVars
<1>1. CASE Begin
  BY <1>1 DEF Begin, Enqueue, Goto
<1>2. CASE Opened
  BY <1>2 DEF Opened, Goto
<1>3. CASE Top
  BY <1>3 DEF Top, Break, Collect, Goto
<1>4. CASE DrainChat
  BY <1>4 DEF DrainChat, Goto
<1>5. CASE DrainTerminal
  BY <1>5 DEF DrainTerminal, AppendMessage
<1>6. CASE CallModel
  BY <1>6 DEF CallModel
<1>7. CASE Prose
  BY <1>7 DEF Prose, Settle, Goto
<1>8. CASE \E text \in {"claim", "huge", "none"} : Done(text)
  BY <1>8 DEF Done, Answer, Facing
<1>9. CASE Ignored
  BY <1>9 DEF Ignored, Answer
<1>10. CASE Login
  BY <1>10 DEF Login, Taken, Facing, Mirror, Enqueue, Goto
<1>11. CASE LoginEnds
  BY <1>11 DEF LoginEnds, Answer, Goto
<1>12. CASE RunBrowser
  BY <1>12 DEF RunBrowser, Taken, Facing, Mirror, Enqueue, Goto
<1>13. CASE Human
  BY <1>13 DEF Human, Taken, Facing, Enqueue, Goto
<1>14. CASE ViewOpened
  BY <1>14 DEF ViewOpened, InTime, Answer, Goto
<1>15. CASE ViewToolEnds
  BY <1>15 DEF ViewToolEnds, Answer, Goto
<1>16. CASE \E action \in {"stop", "status"} : ViewTool(action)
  BY <1>16 DEF ViewTool, Taken, Facing, Enqueue, Goto
<1>17. CASE BatchEnds
  BY <1>17 DEF BatchEnds, AppendMessage, Note, Collect
<1>18. CASE AfterBatch
  BY <1>18 DEF AfterBatch, Defer, Settle, Break, Goto
<1>19. CASE Redirected
  BY <1>19 DEF Redirected, Goto
<1>20. CASE Approve
  BY <1>20 DEF Approve, Judged, AppendMessage, GiveUp, Goto
<1>21. CASE Correct
  BY <1>21 DEF Correct, Judged, Spent, AskChecker, Mirror, Enqueue, Goto
<1>22. CASE Inspect
  BY <1>22 DEF Inspect, Judged, Spent, Goto
<1>23. CASE Reject
  BY <1>23 DEF Reject, Judged, GiveUp, AppendMessage, Goto
<1>24. CASE LeaveOpen
  BY <1>24 DEF LeaveOpen, Judged, Spent, GiveUp, AppendMessage, Break, Goto
<1>25. CASE Post
  BY <1>25 DEF Post, Enqueue, Goto
<1>26. CASE Posted
  BY <1>26 DEF Posted, Goto
<1>27. CASE Close
  BY <1>27 DEF Close, Seal, Enqueue, Goto, ViewerGone
<1>28. CASE TornDown
  BY <1>28 DEF TornDown, Goto
<1>29. CASE Cut
  BY <1>29 DEF Cut, Guarded, Goto
<1>30. CASE Serve
  BY <1>30 DEF Serve, StartView, StopView, ViewStatus, Fresh, ViewerGone
<1>31. CASE ModelFails
  BY <1>31 DEF ModelFails, InTime, Break, Goto
<1>32. CASE CheckFails
  BY <1>32 DEF CheckFails, InTime, GiveUp, Goto
<1>33. CASE CheckAnswers
  BY <1>33 DEF CheckAnswers, InTime, Note, Collect
<1>34. CASE Observe
  BY <1>34 DEF Observe, InTime, AskChecker, Mirror, Enqueue, Goto
<1>35. CASE HumanAnswers
  BY <1>35 DEF HumanAnswers, InTime, Answer, Goto
<1>36. CASE \E text \in Replies : ModelAnswers(text)
  BY <1>36 DEF ModelAnswers, InTime, AppendMessage, Note, Replies
<1>37. CASE \E batch \in Batches : ModelCalls(batch)
  BY <1>37 DEF ModelCalls, InTime, AppendMessage, Goto, Batches
<1>38. CASE \E outcome \in {"works", "fails", "same", "claim", "huge"} : BrowserEnds(outcome)
  BY <1>38 DEF BrowserEnds, InTime, Answer, Goto
<1>39. CASE \E m \in Message, source \in {"terminal", "view"} : Steer(m, source)
  BY <1>39 DEF Steer
<1>40. CASE HostView
  BY <1>40 DEF HostView, ViewerGone
<1>41. CASE Interrupt
  BY <1>41 DEF Interrupt
<1>42. CASE Expire
  BY <1>42 DEF Expire
<1>43. CASE UNCHANGED vars
  BY <1>43
<1>44. CASE BrowserRejects
  BY <1>44 DEF BrowserRejects, InTime, Goto
<1>45. QED
  BY <1>1, <1>2, <1>3, <1>4, <1>5, <1>6, <1>7, <1>8, <1>9, <1>10, <1>11,
     <1>12, <1>13, <1>14, <1>15, <1>16, <1>17, <1>18, <1>19, <1>20, <1>21,
     <1>22, <1>23, <1>24, <1>25, <1>26, <1>27, <1>28, <1>29, <1>30, <1>31,
     <1>32, <1>33, <1>34, <1>35, <1>36, <1>37, <1>38, <1>39, <1>40, <1>41,
     <1>42, <1>43, <1>44 DEF Next, Proceed

\* A conclusion is withdrawn for the check and comes back approved.
LEMMA EarnedStep ==
    ASSUME TypeOK, Earned, [Next]_vars
    PROVE  Earned'
<1> USE DEF Earned, Checking, Asking, Collecting, Ending, vars, turnVars,
       resultVars, checkVars, steerVars, viewVars, envVars
<1>1. CASE Begin
  BY <1>1 DEF Begin, Enqueue, Goto
<1>2. CASE Opened
  BY <1>2 DEF Opened, Goto
<1>3. CASE Top
  BY <1>3 DEF Top, Break, Collect, Goto
<1>4. CASE DrainChat
  BY <1>4 DEF DrainChat, Goto
<1>5. CASE DrainTerminal
  BY <1>5 DEF DrainTerminal, AppendMessage
<1>6. CASE CallModel
  BY <1>6 DEF CallModel
<1>7. CASE Prose
  BY <1>7 DEF Prose, Settle, Goto
<1>8. CASE \E text \in {"claim", "huge", "none"} : Done(text)
  BY <1>8 DEF Done, Answer, Facing
<1>9. CASE Ignored
  BY <1>9 DEF Ignored, Answer
<1>10. CASE Login
  BY <1>10 DEF Login, Taken, Facing, Mirror, Enqueue, Goto
<1>11. CASE LoginEnds
  BY <1>11 DEF LoginEnds, Answer, Goto
<1>12. CASE RunBrowser
  BY <1>12 DEF RunBrowser, Taken, Facing, Mirror, Enqueue, Goto
<1>13. CASE Human
  BY <1>13 DEF Human, Taken, Facing, Enqueue, Goto
<1>14. CASE ViewOpened
  BY <1>14 DEF ViewOpened, InTime, Answer, Goto
<1>15. CASE ViewToolEnds
  BY <1>15 DEF ViewToolEnds, Answer, Goto
<1>16. CASE \E action \in {"stop", "status"} : ViewTool(action)
  BY <1>16 DEF ViewTool, Taken, Facing, Enqueue, Goto
<1>17. CASE BatchEnds
  BY <1>17 DEF BatchEnds, AppendMessage, Note, Collect
<1>18. CASE AfterBatch
  BY <1>18 DEF AfterBatch, Defer, Settle, Break, Goto
<1>19. CASE Redirected
  BY <1>19 DEF Redirected, Goto
<1>20. CASE Approve
  BY <1>20 DEF Approve, Judged, AppendMessage, GiveUp, Goto
<1>21. CASE Correct
  BY <1>21 DEF Correct, Judged, Spent, AskChecker, Mirror, Enqueue, Goto
<1>22. CASE Inspect
  BY <1>22 DEF Inspect, Judged, Spent, Goto
<1>23. CASE Reject
  BY <1>23 DEF Reject, Judged, GiveUp, AppendMessage, Goto
<1>24. CASE LeaveOpen
  BY <1>24 DEF LeaveOpen, Judged, Spent, GiveUp, AppendMessage, Break, Goto
<1>25. CASE Post
  BY <1>25 DEF Post, Enqueue, Goto
<1>26. CASE Posted
  BY <1>26 DEF Posted, Goto
<1>27. CASE Close
  BY <1>27 DEF Close, Seal, Enqueue, Goto, ViewerGone
<1>28. CASE TornDown
  BY <1>28 DEF TornDown, Goto
<1>29. CASE Cut
  BY <1>29 DEF Cut, Guarded, Goto
<1>30. CASE Serve
  BY <1>30 DEF Serve, StartView, StopView, ViewStatus, Fresh, ViewerGone
<1>31. CASE ModelFails
  BY <1>31 DEF ModelFails, InTime, Break, Goto
<1>32. CASE CheckFails
  BY <1>32 DEF CheckFails, InTime, GiveUp, Goto
<1>33. CASE CheckAnswers
  BY <1>33 DEF CheckAnswers, InTime, Note, Collect
<1>34. CASE Observe
  BY <1>34 DEF Observe, InTime, AskChecker, Mirror, Enqueue, Goto
<1>35. CASE HumanAnswers
  BY <1>35 DEF HumanAnswers, InTime, Answer, Goto
<1>36. CASE \E text \in Replies : ModelAnswers(text)
  BY <1>36 DEF ModelAnswers, InTime, AppendMessage, Note, Replies
<1>37. CASE \E batch \in Batches : ModelCalls(batch)
  BY <1>37 DEF ModelCalls, InTime, AppendMessage, Goto, Batches
<1>38. CASE \E outcome \in {"works", "fails", "same", "claim", "huge"} : BrowserEnds(outcome)
  BY <1>38 DEF BrowserEnds, InTime, Answer, Goto
<1>39. CASE \E m \in Message, source \in {"terminal", "view"} : Steer(m, source)
  BY <1>39 DEF Steer
<1>40. CASE HostView
  BY <1>40 DEF HostView, ViewerGone
<1>41. CASE Interrupt
  BY <1>41 DEF Interrupt
<1>42. CASE Expire
  BY <1>42 DEF Expire
<1>43. CASE UNCHANGED vars
  BY <1>43
<1>44. CASE BrowserRejects
  BY <1>44 DEF BrowserRejects, InTime, Goto
<1>45. QED
  BY <1>1, <1>2, <1>3, <1>4, <1>5, <1>6, <1>7, <1>8, <1>9, <1>10, <1>11,
     <1>12, <1>13, <1>14, <1>15, <1>16, <1>17, <1>18, <1>19, <1>20, <1>21,
     <1>22, <1>23, <1>24, <1>25, <1>26, <1>27, <1>28, <1>29, <1>30, <1>31,
     <1>32, <1>33, <1>34, <1>35, <1>36, <1>37, <1>38, <1>39, <1>40, <1>41,
     <1>42, <1>43, <1>44 DEF Next, Proceed

\* Without a surface for a viewer the run queues nothing.
LEMMA LanesStep ==
    ASSUME TypeOK, Lanes, [Next]_vars
    PROVE  Lanes'
<1> USE DEF Lanes, vars, turnVars, resultVars, checkVars, steerVars,
       viewVars, envVars
<1>1. CASE Begin
  BY <1>1 DEF Begin, Enqueue, Goto
<1>2. CASE Opened
  BY <1>2 DEF Opened, Goto
<1>3. CASE Top
  BY <1>3 DEF Top, Break, Collect, Goto
<1>4. CASE DrainChat
  BY <1>4 DEF DrainChat, Goto
<1>5. CASE DrainTerminal
  BY <1>5 DEF DrainTerminal, AppendMessage
<1>6. CASE CallModel
  BY <1>6 DEF CallModel
<1>7. CASE Prose
  BY <1>7 DEF Prose, Settle, Goto
<1>8. CASE \E text \in {"claim", "huge", "none"} : Done(text)
  BY <1>8 DEF Done, Answer, Facing
<1>9. CASE Ignored
  BY <1>9 DEF Ignored, Answer
<1>10. CASE Login
  BY <1>10 DEF Login, Taken, Facing, Mirror, Enqueue, Goto
<1>11. CASE LoginEnds
  BY <1>11 DEF LoginEnds, Answer, Goto
<1>12. CASE RunBrowser
  BY <1>12 DEF RunBrowser, Taken, Facing, Mirror, Enqueue, Goto
<1>13. CASE Human
  BY <1>13 DEF Human, Taken, Facing, Enqueue, Goto
<1>14. CASE ViewOpened
  BY <1>14 DEF ViewOpened, InTime, Answer, Goto
<1>15. CASE ViewToolEnds
  BY <1>15 DEF ViewToolEnds, Answer, Goto
<1>16. CASE \E action \in {"stop", "status"} : ViewTool(action)
  BY <1>16 DEF ViewTool, Taken, Facing, Enqueue, Goto
<1>17. CASE BatchEnds
  BY <1>17 DEF BatchEnds, AppendMessage, Note, Collect
<1>18. CASE AfterBatch
  BY <1>18 DEF AfterBatch, Defer, Settle, Break, Goto
<1>19. CASE Redirected
  BY <1>19 DEF Redirected, Goto
<1>20. CASE Approve
  BY <1>20 DEF Approve, Judged, AppendMessage, GiveUp, Goto
<1>21. CASE Correct
  BY <1>21 DEF Correct, Judged, Spent, AskChecker, Mirror, Enqueue, Goto
<1>22. CASE Inspect
  BY <1>22 DEF Inspect, Judged, Spent, Goto
<1>23. CASE Reject
  BY <1>23 DEF Reject, Judged, GiveUp, AppendMessage, Goto
<1>24. CASE LeaveOpen
  BY <1>24 DEF LeaveOpen, Judged, Spent, GiveUp, AppendMessage, Break, Goto
<1>25. CASE Post
  BY <1>25 DEF Post, Enqueue, Goto
<1>26. CASE Posted
  BY <1>26 DEF Posted, Goto
<1>27. CASE Close
  BY <1>27 DEF Close, Seal, Enqueue, Goto, ViewerGone
<1>28. CASE TornDown
  BY <1>28 DEF TornDown, Goto
<1>29. CASE Cut
  BY <1>29 DEF Cut, Guarded, Goto
<1>30. CASE Serve
  BY <1>30 DEF Serve, StartView, StopView, ViewStatus, Fresh, ViewerGone
<1>31. CASE ModelFails
  BY <1>31 DEF ModelFails, InTime, Break, Goto
<1>32. CASE CheckFails
  BY <1>32 DEF CheckFails, InTime, GiveUp, Goto
<1>33. CASE CheckAnswers
  BY <1>33 DEF CheckAnswers, InTime, Note, Collect
<1>34. CASE Observe
  BY <1>34 DEF Observe, InTime, AskChecker, Mirror, Enqueue, Goto
<1>35. CASE HumanAnswers
  BY <1>35 DEF HumanAnswers, InTime, Answer, Goto
<1>36. CASE \E text \in Replies : ModelAnswers(text)
  BY <1>36 DEF ModelAnswers, InTime, AppendMessage, Note, Replies
<1>37. CASE \E batch \in Batches : ModelCalls(batch)
  BY <1>37 DEF ModelCalls, InTime, AppendMessage, Goto, Batches
<1>38. CASE \E outcome \in {"works", "fails", "same", "claim", "huge"} : BrowserEnds(outcome)
  BY <1>38 DEF BrowserEnds, InTime, Answer, Goto
<1>39. CASE \E m \in Message, source \in {"terminal", "view"} : Steer(m, source)
  BY <1>39 DEF Steer
<1>40. CASE HostView
  BY <1>40 DEF HostView, ViewerGone
<1>41. CASE Interrupt
  BY <1>41 DEF Interrupt
<1>42. CASE Expire
  BY <1>42 DEF Expire
<1>43. CASE UNCHANGED vars
  BY <1>43
<1>44. CASE BrowserRejects
  BY <1>44 DEF BrowserRejects, InTime, Goto
<1>45. QED
  BY <1>1, <1>2, <1>3, <1>4, <1>5, <1>6, <1>7, <1>8, <1>9, <1>10, <1>11,
     <1>12, <1>13, <1>14, <1>15, <1>16, <1>17, <1>18, <1>19, <1>20, <1>21,
     <1>22, <1>23, <1>24, <1>25, <1>26, <1>27, <1>28, <1>29, <1>30, <1>31,
     <1>32, <1>33, <1>34, <1>35, <1>36, <1>37, <1>38, <1>39, <1>40, <1>41,
     <1>42, <1>43, <1>44 DEF Next, Proceed

\* Pushing the oldest message out of a full inbox makes room for the new one.
LEMMA BoxedQueue ==
    ASSUME Places, Boxed, NEW m \in Message, where[m] = "unsent", QueueHumanMessage(m)
    PROVE  Boxed'
<1> DEFINE n == Len(inbox)
<1>1. inbox \in Seq(Message) /\ n \in Nat /\ DOMAIN inbox = 1 .. n
  BY LenProperties DEF Places
<1>2. \A i \in 1 .. n : inbox[i] \in Message /\ inbox[i] # m
  BY <1>1 DEF Boxed
<1>3. CASE where' = [where EXCEPT ![m] = "gone"] /\ inbox' = inbox
  BY <1>1, <1>2, <1>3 DEF Boxed, Places
<1>4. CASE n < InboxLimit /\ where' = [where EXCEPT ![m] = "view"] /\ inbox' = Append(inbox, m)
  <2>1. /\ Len(inbox') = n + 1 /\ DOMAIN inbox' = 1 .. n + 1
        /\ \A i \in 1 .. n : inbox'[i] = inbox[i]
        /\ inbox'[n + 1] = m
    BY <1>1, <1>4, AppendProperties, LenProperties
  <2>2. Len(inbox') <= InboxLimit
    BY <1>1, <1>4, <2>1, OptionsAssumption
  <2>3. \A k \in Message : where'[k] = "view" <=> \E i \in DOMAIN inbox' : inbox'[i] = k
    <3>1. where'[m] = "view" /\ \A k \in Message \ {m} : where'[k] = where[k]
      BY <1>4 DEF Places
    <3>2. \A i \in 1 .. n + 1 : i \in 1 .. n \/ i = n + 1
      BY <1>1
    <3>3. n + 1 \in 1 .. n + 1 /\ \A i \in 1 .. n : i \in 1 .. n + 1
      BY <1>1
    <3>4. QED BY <1>1, <1>2, <2>1, <3>1, <3>2, <3>3 DEF Boxed
  <2>4. \A i, j \in DOMAIN inbox' : inbox'[i] = inbox'[j] => i = j
    <3>1. \A i \in 1 .. n + 1 : i \in 1 .. n \/ i = n + 1
      BY <1>1
    <3>2. QED BY <1>1, <1>2, <2>1, <3>1 DEF Boxed
  <2>5. QED BY <2>2, <2>3, <2>4 DEF Boxed
<1>5. CASE /\ n >= InboxLimit
           /\ where' = [where EXCEPT ![m] = "view", ![Head(inbox)] = "gone"]
           /\ inbox' = Append(Tail(inbox), m)
  <2> DEFINE t == Tail(inbox)
  <2>1. n > 0 /\ n = InboxLimit /\ inbox # <<>>
    <3>1. n \in Nat /\ n <= InboxLimit /\ n >= InboxLimit /\ Len(<<>>) = 0
      BY <1>1, <1>5 DEF Boxed
    <3>2. inbox = <<>> => n = 0
      BY <3>1
    <3>3. InboxLimit \in Nat \ {0}
      BY OptionsAssumption
    <3>4. QED
      <4> HIDE DEF n
      <4>1. QED BY <3>1, <3>2, <3>3
  <2>2. /\ t \in Seq(Message) /\ Len(t) = n - 1
        /\ \A i \in 1 .. Len(t) : t[i] = inbox[i + 1]
    BY <1>1, <2>1, HeadTailProperties
  <2>3. Head(inbox) = inbox[1] /\ inbox[1] \in Message /\ inbox[1] # m
    BY <1>1, <1>2, <2>1
  <2>4. /\ Len(inbox') = n /\ DOMAIN inbox' = 1 .. n
        /\ \A i \in 1 .. n - 1 : inbox'[i] = inbox[i + 1]
        /\ inbox'[n] = m
    <3> HIDE DEF t
    <3>1. inbox' = Append(t, m)
      BY <1>5 DEF t
    <3>2. QED BY <1>1, <2>1, <2>2, <3>1, AppendProperties, LenProperties
  <2> HIDE DEF t
  <2>5. Len(inbox') <= InboxLimit
    BY <2>1, <2>4, OptionsAssumption
  <2>6. \A i \in 1 .. n : i \in 1 .. n - 1 \/ i = n
    <3> HIDE DEF n
    <3>1. n \in Nat
      BY <1>1
    <3>2. QED BY <3>1
  <2>7. \A k \in Message : where'[k] = "view" <=> \E i \in DOMAIN inbox' : inbox'[i] = k
    <3>1. /\ where'[m] = "view" /\ where'[inbox[1]] = "gone"
          /\ \A k \in Message \ {m, inbox[1]} : where'[k] = where[k]
      BY <1>5, <2>3 DEF Places
    <3>2. ASSUME NEW k \in Message, where'[k] = "view", k # m
          PROVE  \E i \in 1 .. n : inbox'[i] = k
      <4>1. where[k] = "view" /\ k # inbox[1]
        BY <3>1, <3>2, <2>3
      <4>2. PICK i \in 1 .. n : inbox[i] = k
        BY <1>1, <4>1 DEF Boxed
      <4>3. i - 1 \in 1 .. n - 1 /\ (i - 1) + 1 = i /\ i - 1 \in 1 .. n
        BY <1>1, <4>1, <4>2
      <4>4. inbox'[i - 1] = k
        BY <2>4, <4>2, <4>3
      <4>5. QED BY <4>3, <4>4
    <3>3. ASSUME NEW i \in 1 .. n - 1
          PROVE  where'[inbox'[i]] = "view"
      <4>1. i + 1 \in 1 .. n /\ i + 1 # 1 /\ 1 \in 1 .. n
        BY <1>1, <2>1
      <4>2. inbox[i + 1] # inbox[1] /\ inbox[i + 1] # m /\ inbox[i + 1] \in Message
        BY <1>1, <1>2, <4>1 DEF Boxed
      <4>3. where[inbox[i + 1]] = "view"
        BY <1>1, <4>1, <4>2 DEF Boxed
      <4>4. QED BY <2>4, <3>1, <4>2, <4>3
    <3>4. n \in 1 .. n /\ \A i \in 1 .. n - 1 : i \in 1 .. n
      BY <1>1, <2>1
    <3>5. ASSUME NEW k \in Message, NEW i \in 1 .. n, inbox'[i] = k
          PROVE  where'[k] = "view"
      BY <2>4, <2>6, <3>1, <3>3, <3>5
    <3>6. ASSUME NEW k \in Message, where'[k] = "view"
          PROVE  \E i \in 1 .. n : inbox'[i] = k
      BY <2>4, <3>2, <3>4, <3>6
    <3>7. QED BY <2>4, <3>5, <3>6
  <2>8. \A i, j \in DOMAIN inbox' : inbox'[i] = inbox'[j] => i = j
    <3>1. ASSUME NEW i \in 1 .. n - 1
          PROVE  i + 1 \in 1 .. n /\ inbox'[i] = inbox[i + 1] /\ inbox'[i] # m
      <4>1. i + 1 \in 1 .. n
        BY <1>1
      <4>2. QED BY <1>2, <2>4, <4>1
    <3>2. ASSUME NEW i \in 1 .. n - 1, NEW j \in 1 .. n - 1, inbox'[i] = inbox'[j]
          PROVE  i = j
      <4>1. i + 1 = j + 1
        BY <1>1, <3>1, <3>2 DEF Boxed
      <4>2. QED BY <4>1
    <3>3. QED BY <2>4, <2>6, <3>1, <3>2
  <2>9. QED BY <2>5, <2>7, <2>8 DEF Boxed
<1>6. QED BY <1>1, <1>3, <1>4, <1>5, OptionsAssumption DEF QueueHumanMessage

\* The inbox holds the chat's messages once each.
LEMMA BoxedStep ==
    ASSUME Places, Boxed, [Next]_vars
    PROVE  Boxed'
<1>1. CASE UNCHANGED <<where, inbox>>
  BY <1>1 DEF Boxed
<1>2. ASSUME NEW to \in {"gone", "held"}, Emptied(to)
      PROVE  Boxed'
  <2>1. inbox' = <<>> /\ Len(<<>>) = 0 /\ DOMAIN <<>> = {}
    BY <1>2 DEF Emptied
  <2>2. \A m \in Message : where'[m] # "view"
    BY <1>2 DEF Emptied, Heard, In
  <2>3. QED BY <2>1, <2>2, OptionsAssumption DEF Boxed
<1>3. CASE DrainChat
  BY <1>1, <1>2, <1>3 DEF DrainChat
<1>4. CASE DrainTerminal
  <2>1. inbox' = inbox /\ \A m \in Message : where'[m] = "view" <=> where[m] = "view"
    BY <1>4 DEF DrainTerminal, Heard, In
  <2>2. QED BY <2>1 DEF Boxed
<1>5. ASSUME NEW m \in Message, NEW source \in {"terminal", "view"}, Steer(m, source)
      PROVE  Boxed'
  <2>1. CASE source = "terminal"
    <3>1. inbox' = inbox /\ \A k \in Message : where'[k] = "view" <=> where[k] = "view"
      BY <1>5, <2>1 DEF Steer, Places
    <3>2. QED BY <3>1 DEF Boxed
  <2>2. CASE source = "view"
    BY <1>5, <2>2, BoxedQueue DEF Steer
  <2>3. QED BY <2>1, <2>2
<1>6. CASE UNCHANGED steerVars \/ Note \/ CallModel
  BY <1>1, <1>6 DEF steerVars, Note, CallModel
<1>7. QED BY <1>2, <1>3, <1>4, <1>5, <1>6, SteeringMoves

\* What leaves the chat unheard is no longer waited for, and the rest stays
\* where it was.
LEMMA EmptiedHeeded ==
    ASSUME Places, Heeded, Emptied("gone"), due' = due, left' = left,
           pc' = pc, at' = at, news' = news, finished' = finished
    PROVE  Heeded'
<1>1. \A m \in Message : where'[m] = IF where[m] = "view" THEN "gone" ELSE where[m]
  BY DEF Emptied, Heard, In
<1>2. \A m \in Unheeded' : m \in Unheeded /\ where'[m] = where[m]
  BY <1>1 DEF Unheeded, Places
<1>3. \A m \in left' : where'[m] \in {"terminal", "view", "gone"}
  BY <1>1 DEF Heeded, Places
<1>4. QED BY <1>2, <1>3 DEF Heeded, Collecting, Ending

\* Steering that is due is collected before a conclusion is drawn.
LEMMA HeededStep ==
    ASSUME TypeOK, Queues, Lanes, Earned, Heeded, [Next]_vars
    PROVE  Heeded'
<1> USE DEF Heeded, Unheeded, Collecting, Ending, vars, turnVars, resultVars,
       checkVars, steerVars, viewVars, envVars
<1>1. CASE Begin
  BY <1>1 DEF Begin, Enqueue, Goto
<1>2. CASE Opened
  BY <1>2 DEF Opened, Goto
<1>3. CASE Top
  <2>1. ~finished
    BY <1>3 DEF Top, Earned
  <2>2. QED BY <1>3, <2>1 DEF Top, Break, Collect, Goto
<1>4. CASE DrainChat
  <2> USE <1>4 DEF DrainChat, Goto, TypeOK, Places
  <2>1. pc = "drain" /\ pc' = "terminal" /\ at' = at /\ due' = due
    OBVIOUS
  <2>2. \A m \in Unheeded : where[m] \in IF at = "top" THEN {"told"} ELSE {"terminal", "view"}
    BY <2>1
  <2>3. ASSUME NEW to \in {"held", "gone"}, Emptied(to), left' = left \ In("view")
        PROVE  /\ \A m \in left' : where'[m] \in {"terminal", "view", "gone"}
               /\ \A m \in Unheeded' : where'[m] \in {"held", IF at = "top" THEN "told" ELSE "terminal"}
    <3>1. \A m \in Message : where'[m] = IF where[m] = "view" THEN to ELSE where[m]
      BY <2>3 DEF Emptied, Heard, In
    <3>2. \A m \in left' : m \in left /\ m \in Message /\ where[m] # "view"
      BY <2>3 DEF In
    <3>3. \A m \in Unheeded' : m \in Message /\ m \in due /\ (m \notin left \/ where[m] = "view")
      BY <2>1, <2>3 DEF In
    <3>4. ASSUME NEW m \in Unheeded'
          PROVE  where'[m] \in {"held", IF at = "top" THEN "told" ELSE "terminal"}
      <4>1. CASE where[m] = "view"
        BY <3>1, <3>3, <3>4, <4>1, <2>3
      <4>2. CASE where[m] # "view"
        <5>1. where'[m] = where[m] /\ m \in Unheeded
          BY <3>1, <3>3, <3>4, <4>2
        <5>2. QED BY <2>2, <4>2, <5>1
      <4>3. QED BY <4>1, <4>2
    <3>5. QED BY <3>1, <3>2, <3>4
  <2>4. ASSUME left' = left \cup (due \cap In("view")), where' = where
        PROVE  /\ \A m \in left' : where'[m] \in {"terminal", "view", "gone"}
               /\ \A m \in Unheeded' : where'[m] \in {"held", IF at = "top" THEN "told" ELSE "terminal"}
    <3>1. \A m \in Unheeded' : m \in Unheeded /\ where[m] # "view"
      BY <2>1, <2>4 DEF In
    <3>2. QED BY <2>2, <2>4, <3>1 DEF In
  <2>5. QED BY <2>1, <2>3, <2>4
<1>5. CASE DrainTerminal
  <2> DEFINE held == In("held")
  <2> PICK heard \in {In("terminal"), {}} :
           /\ pc = "terminal" /\ pc' = "drained" /\ at' = at /\ due' = due
           /\ news' = (heard \cup held # {})
           /\ where' = Heard(heard \cup held, "told")
           /\ left' = (left \ heard) \cup (due \cap (In("terminal") \ heard))
    BY <1>5 DEF DrainTerminal
  <2>1. \A m \in Message : where'[m] = IF m \in heard \cup held THEN "told" ELSE where[m]
    BY DEF Heard
  <2>2. ASSUME NEW m \in left'
        PROVE  where'[m] \in {"terminal", "view", "gone"}
    <3>1. m \in Message /\ m \notin heard /\ where[m] \in {"terminal", "view", "gone"}
      BY <2>2 DEF TypeOK, Places, In
    <3>2. m \notin held
      BY <3>1 DEF In
    <3>3. QED BY <2>1, <3>1, <3>2
  <2>3. ASSUME NEW m \in Unheeded'
        PROVE  where'[m] = "told" /\ (at # "top" => news')
    <3>1. m \in Message /\ m \in due /\ where'[m] # "gone" /\ (where[m] = "terminal" => m \in heard)
      BY <2>3 DEF TypeOK, Places, In
    <3>2. CASE m \in heard \cup held
      BY <2>1, <3>1, <3>2
    <3>3. CASE m \notin heard \cup held
      <4>1. where'[m] = where[m] /\ m \in Unheeded /\ where[m] # "terminal" /\ where[m] # "held"
        BY <2>1, <2>3, <3>1, <3>3 DEF In
      <4>2. QED BY <4>1
    <3>4. QED BY <3>2, <3>3
  <2>4. QED BY <2>2, <2>3
<1>6. CASE CallModel
  <2>1. \A m \in Unheeded : where[m] = "told"
    BY <1>6 DEF CallModel
  <2>2. due' = {} /\ left' = {}
    BY <1>6, <2>1 DEF CallModel, In, TypeOK, Places
  <2>3. QED BY <2>2
<1>7. CASE Prose
  BY <1>7 DEF Prose, Settle, Goto
<1>8. CASE \E text \in {"claim", "huge", "none"} : Done(text)
  BY <1>8 DEF Done, Answer, Facing
<1>9. CASE Ignored
  BY <1>9 DEF Ignored, Answer
<1>10. CASE Login
  BY <1>10 DEF Login, Taken, Facing, Mirror, Enqueue, Goto
<1>11. CASE LoginEnds
  BY <1>11 DEF LoginEnds, Answer, Goto
<1>12. CASE RunBrowser
  BY <1>12 DEF RunBrowser, Taken, Facing, Mirror, Enqueue, Goto
<1>13. CASE Human
  BY <1>13 DEF Human, Taken, Facing, Enqueue, Goto
<1>14. CASE ViewOpened
  BY <1>14 DEF ViewOpened, InTime, Answer, Goto
<1>15. CASE ViewToolEnds
  BY <1>15 DEF ViewToolEnds, Answer, Goto
<1>16. CASE \E action \in {"stop", "status"} : ViewTool(action)
  BY <1>16 DEF ViewTool, Taken, Facing, Enqueue, Goto
<1>17. CASE BatchEnds
  BY <1>17 DEF BatchEnds, AppendMessage, Note, Collect, In
<1>18. CASE AfterBatch
  BY <1>18 DEF AfterBatch, Defer, Settle, Break, Goto
<1>19. CASE Redirected
  BY <1>19 DEF Redirected, Goto
<1>20. CASE Approve
  BY <1>20 DEF Approve, Judged, AppendMessage, GiveUp, Goto
<1>21. CASE Correct
  BY <1>21 DEF Correct, Judged, Spent, AskChecker, Mirror, Enqueue, Goto
<1>22. CASE Inspect
  BY <1>22 DEF Inspect, Judged, Spent, Goto
<1>23. CASE Reject
  BY <1>23 DEF Reject, Judged, GiveUp, AppendMessage, Goto
<1>24. CASE LeaveOpen
  BY <1>24 DEF LeaveOpen, Judged, Spent, GiveUp, AppendMessage, Break, Goto
<1>25. CASE Post
  BY <1>25 DEF Post, Enqueue, Goto
<1>26. CASE Posted
  BY <1>26 DEF Posted, Goto
<1>27. CASE Close
  <2>1. pc = "closing" /\ pc' \in {"teardown", "over"} /\ finished' = finished
    BY <1>27 DEF Close, Goto
  <2>2. CASE UNCHANGED steerVars
    BY <2>1, <2>2
  <2>3. CASE ViewerGone
    <3>1. \A m \in Message : where'[m] = IF where[m] = "view" THEN "gone" ELSE where[m]
      BY <2>3 DEF ViewerGone, Emptied, Heard, In
    <3>2. \A m \in Unheeded' : m \in Unheeded
      BY <2>3, <3>1 DEF ViewerGone, TypeOK, Places
    <3>3. \A m \in left' : where'[m] \in {"terminal", "view", "gone"}
      BY <2>3, <3>1 DEF ViewerGone, TypeOK, Places
    <3>4. QED BY <2>1, <3>2, <3>3
  <2>4. QED BY <1>27, <2>2, <2>3 DEF Close
<1>28. CASE TornDown
  BY <1>28 DEF TornDown, Goto
<1>29. CASE Cut
  BY <1>29 DEF Cut, Guarded, Goto
<1>30. CASE Serve
  <2>1. pc' = pc /\ at' = at /\ news' = news /\ finished' = finished
    BY <1>30 DEF Serve
  <2>2. CASE UNCHANGED steerVars
    BY <2>1, <2>2
  <2>3. CASE ViewerGone
    BY <2>1, <2>3, EmptiedHeeded DEF ViewerGone, TypeOK
  <2>4. CASE Head(lane) = "start"
    BY <1>30, <2>4, <2>2 DEF Serve, StartView
  <2>5. CASE Head(lane) \in {"stop", "end"}
    BY <1>30, <2>5, <2>3 DEF Serve, StopView
  <2>6. CASE Head(lane) = "status"
    BY <1>30, <2>6, <2>2 DEF Serve
  <2>7. QED BY <1>30, <2>4, <2>5, <2>6 DEF Serve
<1>31. CASE ModelFails
  BY <1>31 DEF ModelFails, InTime, Break, Goto
<1>32. CASE CheckFails
  BY <1>32 DEF CheckFails, InTime, GiveUp, Goto
<1>33. CASE CheckAnswers
  BY <1>33 DEF CheckAnswers, InTime, Note, Collect, In
<1>34. CASE Observe
  BY <1>34 DEF Observe, InTime, AskChecker, Mirror, Enqueue, Goto
<1>35. CASE HumanAnswers
  BY <1>35 DEF HumanAnswers, InTime, Answer, Goto
<1>36. CASE \E text \in Replies : ModelAnswers(text)
  BY <1>36 DEF ModelAnswers, InTime, AppendMessage, Note, In, Replies
<1>37. CASE \E batch \in Batches : ModelCalls(batch)
  BY <1>37 DEF ModelCalls, InTime, AppendMessage, Goto, Batches
<1>38. CASE \E outcome \in {"works", "fails", "same", "claim", "huge"} : BrowserEnds(outcome)
  BY <1>38 DEF BrowserEnds, InTime, Answer, Goto
<1>39. ASSUME NEW m \in Message, NEW source \in {"terminal", "view"}, Steer(m, source)
       PROVE  Heeded'
  <2> USE <1>39 DEF Steer, TypeOK, Places
  <2>1. where[m] = "unsent" /\ UNCHANGED <<pc, at, news, finished, due, left>>
    OBVIOUS
  <2>2. \A n \in Message \ {m} : where'[n] = where[n] \/ where'[n] = "gone"
    BY DEF QueueHumanMessage
  <2>3. \A n \in left' : n # m /\ where'[n] \in {"terminal", "view", "gone"}
    BY <2>1, <2>2
  <2>4. \A n \in Unheeded' : n # m => n \in Unheeded /\ where'[n] = where[n]
    BY <2>1, <2>2
  <2>5. m \in Unheeded' => m \in Unheeded
    BY <2>1
  <2>6. m \in Unheeded => pc \in Ending
    BY <2>1
  <2>7. QED BY <2>1, <2>3, <2>4, <2>5, <2>6
<1>40. CASE HostView
  <2>1. pc' = pc /\ at' = at /\ news' = news /\ finished' = finished
    BY <1>40 DEF HostView
  <2>2. CASE UNCHANGED steerVars
    BY <1>40, <2>1, <2>2 DEF HostView
  <2>3. CASE Emptied("gone") /\ UNCHANGED <<due, left>>
    BY <2>1, <2>3, EmptiedHeeded DEF TypeOK
  <2>4. QED BY <1>40, <2>2, <2>3 DEF HostView, ViewerGone
<1>41. CASE Interrupt
  BY <1>41 DEF Interrupt
<1>42. CASE Expire
  BY <1>42 DEF Expire
<1>43. CASE UNCHANGED vars
  BY <1>43
<1>44. CASE BrowserRejects
  BY <1>44 DEF BrowserRejects, InTime, Goto
<1>45. QED
  BY <1>1, <1>2, <1>3, <1>4, <1>5, <1>6, <1>7, <1>8, <1>9, <1>10, <1>11,
     <1>12, <1>13, <1>14, <1>15, <1>16, <1>17, <1>18, <1>19, <1>20, <1>21,
     <1>22, <1>23, <1>24, <1>25, <1>26, <1>27, <1>28, <1>29, <1>30, <1>31,
     <1>32, <1>33, <1>34, <1>35, <1>36, <1>37, <1>38, <1>39, <1>40, <1>41,
     <1>42, <1>43, <1>44 DEF Next, Proceed

\* Taking the first of several leaves the last where it was.
LEMMA LastStays ==
    ASSUME NEW T, NEW s \in Seq(T), s # <<>>, Len(s) # 1
    PROVE  Tail(s) # <<>> /\ Tail(s)[Len(Tail(s))] = s[Len(s)]
<1>1. Len(s) \in Nat \ {0}
  BY EmptySeq, Zenon
<1> DEFINE t == Tail(s)
           n == Len(s)
<1>2. \A k \in Nat \ {0} : k # 1 => k \in Nat /\ k > 1
  OBVIOUS
<1>3. n \in Nat /\ n > 1
  BY <1>1, <1>2, Zenon
<1>4. /\ t \in Seq(T) /\ Len(t) = n - 1
      /\ \A i \in 1 .. Len(t) : t[i] = s[i + 1]
  BY HeadTailProperties
<1>5. Len(<<>>) = 0
  OBVIOUS
<1> HIDE DEF t, n
<1>6. t # <<>>
  BY <1>3, <1>4, <1>5
<1>7. t[Len(t)] = s[n]
  <2>1. Len(t) \in 1 .. Len(t) /\ Len(t) + 1 = n
    BY <1>3, <1>4
  <2>2. t[Len(t)] = s[Len(t) + 1]
    BY <1>4, <2>1, Zenon
  <2>3. QED BY <2>1, <2>2
<1>8. QED BY <1>6, <1>7 DEF t, n

\* The run knows of the viewers it started.
LEMMA OwnedStep ==
    ASSUME TypeOK, Queues, Owned, [Next]_vars
    PROVE  Owned'
<1> USE DEF Owned, vars, turnVars, resultVars, checkVars, steerVars,
       viewVars, envVars
<1>1. CASE Begin
  BY <1>1 DEF Begin, Enqueue, Goto
<1>2. CASE Opened
  BY <1>2 DEF Opened, Goto
<1>3. CASE Top
  BY <1>3 DEF Top, Break, Collect, Goto
<1>4. CASE DrainChat
  BY <1>4 DEF DrainChat, Goto
<1>5. CASE DrainTerminal
  BY <1>5 DEF DrainTerminal, AppendMessage
<1>6. CASE CallModel
  BY <1>6 DEF CallModel
<1>7. CASE Prose
  BY <1>7 DEF Prose, Settle, Goto
<1>8. CASE \E text \in {"claim", "huge", "none"} : Done(text)
  BY <1>8 DEF Done, Answer, Facing
<1>9. CASE Ignored
  BY <1>9 DEF Ignored, Answer
<1>10. CASE Login
  BY <1>10 DEF Login, Taken, Facing, Mirror, Enqueue, Goto
<1>11. CASE LoginEnds
  BY <1>11 DEF LoginEnds, Answer, Goto
<1>12. CASE RunBrowser
  BY <1>12 DEF RunBrowser, Taken, Facing, Mirror, Enqueue, Goto
<1>13. CASE Human
  BY <1>13 DEF Human, Taken, Facing, Enqueue, Goto
<1>14. CASE ViewOpened
  BY <1>14 DEF ViewOpened, InTime, Answer, Goto
<1>15. CASE ViewToolEnds
  BY <1>15 DEF ViewToolEnds, Answer, Goto
<1>16. CASE \E action \in {"stop", "status"} : ViewTool(action)
  BY <1>16 DEF ViewTool, Taken, Facing, Enqueue, Goto
<1>17. CASE BatchEnds
  BY <1>17 DEF BatchEnds, AppendMessage, Note, Collect
<1>18. CASE AfterBatch
  BY <1>18 DEF AfterBatch, Defer, Settle, Break, Goto
<1>19. CASE Redirected
  BY <1>19 DEF Redirected, Goto
<1>20. CASE Approve
  BY <1>20 DEF Approve, Judged, AppendMessage, GiveUp, Goto
<1>21. CASE Correct
  BY <1>21 DEF Correct, Judged, Spent, AskChecker, Mirror, Enqueue, Goto
<1>22. CASE Inspect
  BY <1>22 DEF Inspect, Judged, Spent, Goto
<1>23. CASE Reject
  BY <1>23 DEF Reject, Judged, GiveUp, AppendMessage, Goto
<1>24. CASE LeaveOpen
  BY <1>24 DEF LeaveOpen, Judged, Spent, GiveUp, AppendMessage, Break, Goto
<1>25. CASE Post
  BY <1>25 DEF Post, Enqueue, Goto
<1>26. CASE Posted
  BY <1>26 DEF Posted, Goto
<1>27. CASE Close
  BY <1>27 DEF Close, Seal, Enqueue, Goto, ViewerGone
<1>28. CASE TornDown
  BY <1>28 DEF TornDown, Goto
<1>29. CASE Cut
  BY <1>29 DEF Cut, Guarded, Goto
<1>30. CASE Serve
  <2>1. pc' = pc /\ lane # <<>> /\ lane' = Tail(lane)
    BY <1>30 DEF Serve
  <2>2. viewer' = "own" => agentStarted'
    <3>1. CASE Head(lane) = "start"
      <4>1. CASE UNCHANGED <<viewer, agentStarted>>
        BY <4>1
      <4>2. CASE /\ viewer' = IF Fresh THEN "own" ELSE viewer
                 /\ agentStarted' = (agentStarted \/ Fresh)
        <5>1. CASE Fresh
          BY <4>2, <5>1, Zenon
        <5>2. CASE ~Fresh
          BY <4>2, <5>2, Zenon
        <5>3. QED BY <5>1, <5>2
      <4>3. QED BY <1>30, <3>1, <4>1, <4>2 DEF Serve, StartView
    <3>2. CASE Head(lane) \in {"stop", "end"}
      BY <1>30, <3>2 DEF Serve, StopView, ViewerGone
    <3>3. CASE Head(lane) = "status"
      BY <1>30, <3>3 DEF Serve
    <3>4. QED BY <1>30, <3>1, <3>2, <3>3 DEF Serve
  <2>3. ASSUME pc = "teardown"
        PROVE  IF lane' = <<>> THEN viewer' # "own" ELSE lane'[Len(lane')] = "end"
    <3> USE <2>1, <2>3 DEF Queues
    <3>1. lane[Len(lane)] = "end"
      OBVIOUS
    <3>2. CASE Len(lane) = 1
      <4>1. Head(lane) = "end"
        BY <3>1, <3>2
      <4>2. viewer' = "none"
        BY <1>30, <4>1 DEF Serve, StopView, ViewerGone
      <4>3. lane' = <<>>
        BY <3>2
      <4>4. QED BY <4>2, <4>3
    <3>3. CASE Len(lane) # 1
      BY <3>1, <3>3, LastStays
    <3>4. QED BY <3>2, <3>3
  <2>4. QED BY <2>1, <2>2, <2>3
<1>31. CASE ModelFails
  BY <1>31 DEF ModelFails, InTime, Break, Goto
<1>32. CASE CheckFails
  BY <1>32 DEF CheckFails, InTime, GiveUp, Goto
<1>33. CASE CheckAnswers
  BY <1>33 DEF CheckAnswers, InTime, Note, Collect
<1>34. CASE Observe
  BY <1>34 DEF Observe, InTime, AskChecker, Mirror, Enqueue, Goto
<1>35. CASE HumanAnswers
  BY <1>35 DEF HumanAnswers, InTime, Answer, Goto
<1>36. CASE \E text \in Replies : ModelAnswers(text)
  BY <1>36 DEF ModelAnswers, InTime, AppendMessage, Note, Replies
<1>37. CASE \E batch \in Batches : ModelCalls(batch)
  BY <1>37 DEF ModelCalls, InTime, AppendMessage, Goto, Batches
<1>38. CASE \E outcome \in {"works", "fails", "same", "claim", "huge"} : BrowserEnds(outcome)
  BY <1>38 DEF BrowserEnds, InTime, Answer, Goto
<1>39. CASE \E m \in Message, source \in {"terminal", "view"} : Steer(m, source)
  BY <1>39 DEF Steer
<1>40. CASE HostView
  BY <1>40 DEF HostView, ViewerGone
<1>41. CASE Interrupt
  BY <1>41 DEF Interrupt
<1>42. CASE Expire
  BY <1>42 DEF Expire
<1>43. CASE UNCHANGED vars
  BY <1>43
<1>44. CASE BrowserRejects
  BY <1>44 DEF BrowserRejects, InTime, Goto
<1>45. QED
  BY <1>1, <1>2, <1>3, <1>4, <1>5, <1>6, <1>7, <1>8, <1>9, <1>10, <1>11,
     <1>12, <1>13, <1>14, <1>15, <1>16, <1>17, <1>18, <1>19, <1>20, <1>21,
     <1>22, <1>23, <1>24, <1>25, <1>26, <1>27, <1>28, <1>29, <1>30, <1>31,
     <1>32, <1>33, <1>34, <1>35, <1>36, <1>37, <1>38, <1>39, <1>40, <1>41,
     <1>42, <1>43, <1>44 DEF Next, Proceed

-----------------------------------------------------------------------------
\* The loop starts with nothing in flight.
LEMMA InitInv == Init => IndInv
<1> SUFFICES ASSUME Init PROVE IndInv
  OBVIOUS
<1> USE OptionsAssumption DEF Init
<1>1. /\ <<>> \in Seq(Tools) /\ <<>> \in Seq({"start", "stop", "status", "end"})
      /\ <<>> \in Seq(Message) /\ Len(<<>>) = 0 /\ DOMAIN <<>> = {}
  OBVIOUS
<1>2. Places
  BY <1>1 DEF Places
<1>3. TypeOK
  BY <1>2 DEF TypeOK, Flags, Loop, Guarded, Waiting, Ending, Replies, Answers
<1>4. Queues
  BY <1>1 DEF Queues
<1>5. Whole /\ Bounded
  BY DEF Whole, Bounded
<1>6. Earned /\ Lanes
  BY DEF Earned, Checking, Asking, Collecting, Ending, Lanes
<1>7. Heeded /\ Owned
  BY DEF Heeded, Unheeded, Owned
<1>8. Boxed
  BY <1>1 DEF Boxed
<1>9. QED BY <1>3, <1>4, <1>5, <1>6, <1>7, <1>8 DEF IndInv

\* Every state the loop reaches satisfies every part of the invariant.
THEOREM Inductive == Spec => []IndInv
<1>1. ASSUME IndInv, [Next]_vars PROVE IndInv'
  <2>1. TypeOK /\ Flags /\ Places /\ Queues /\ Whole /\ Bounded /\ Earned /\ Lanes /\ Boxed /\ Heeded /\ Owned
    BY <1>1 DEF IndInv, TypeOK
  <2>2. Flags' /\ TypeOK'
    BY <1>1, <2>1, FlagStep, PlacesStep, KindStep
  <2>3. Queues' /\ Whole'
    BY <1>1, <2>1, QueueStep, WholeStep
  <2>4. Bounded' /\ Earned' /\ Lanes'
    BY <1>1, <2>1, BoundedStep, EarnedStep, LanesStep
  <2>5. Boxed' /\ Heeded' /\ Owned'
    BY <1>1, <2>1, BoxedStep, HeededStep, OwnedStep
  <2>6. QED BY <2>2, <2>3, <2>4, <2>5 DEF IndInv
<1>2. QED BY InitInv, <1>1, PTL DEF Spec

\* Whatever cuts the run, the transcript it hands back has a result for
\* every call of every turn.
THEOREM TranscriptWhole == Spec => []TurnsAnswered
<1>1. IndInv => TurnsAnswered
  BY DEF IndInv, Whole, TurnsAnswered, Returned
<1>2. QED BY Inductive, <1>1, PTL

\* A run does not complete over a message that had been typed, at the terminal
\* or in a viewer's chat, before the last reply, batch or check ended: it was
\* put before the model, unless it was gone from the chat (a full inbox, a closed
\* viewer, another reader, a drain that failed on the way back) or the collection
\* could not get at it and it is where it was typed.
THEOREM SteeringIsHeard == Spec => []SteeringHeard
<1>1. IndInv => SteeringHeard
  BY DEF IndInv, Heeded, Unheeded, Collecting, Ending, SteeringHeard, Returned, Ok
<1>2. QED BY Inductive, <1>1, PTL

\* ok is reported for an accepted answer alone, and under the checkout skill
\* for the answer the last check was asked about.
THEOREM OkEarned == Spec => []OkIsEarned
<1>1. IndInv => OkIsEarned
  BY DEF IndInv, Earned, Checking, Asking, Collecting, Ending, OkIsEarned, Returned, Ok
<1>2. QED BY Inductive, <1>1, PTL

\* A run that returns with its lane empty leaves no viewer of its own.
THEOREM ViewerStopped == Spec => OwnViewerStopped
<1>1. ASSUME IndInv, [Next]_vars
      PROVE  [pc # "over" /\ pc' = "over" /\ lane' = <<>> => viewer' # "own"]_vars
  <2> SUFFICES ASSUME Next, pc # "over", pc' = "over", lane' = <<>> PROVE viewer' # "own"
    BY <1>1
  <2>1. TypeOK /\ Queues /\ Owned
    BY <1>1 DEF IndInv
  <2>2. CASE Close
    BY <2>1, <2>2 DEF Close, Goto, Enqueue, ViewerGone, Owned, TypeOK, Flags, viewVars
  <2>3. CASE TornDown
    BY <2>1, <2>3 DEF TornDown, Owned, viewVars
  <2>4. CASE ~Close /\ ~TornDown
    <3> USE <2>4
    <3> USE DEF turnVars, resultVars, checkVars, steerVars, viewVars, envVars
    <3>1. CASE Begin
      BY <3>1 DEF Begin, Enqueue, Goto
    <3>2. CASE Opened
      BY <3>2 DEF Opened, Goto
    <3>3. CASE Top
      BY <3>3 DEF Top, Break, Collect, Goto
    <3>4. CASE DrainChat
      BY <3>4 DEF DrainChat, Goto
    <3>5. CASE DrainTerminal
      BY <3>5 DEF DrainTerminal, AppendMessage
    <3>6. CASE CallModel
      BY <3>6 DEF CallModel
    <3>7. CASE Prose
      BY <3>7 DEF Prose, Settle, Goto
    <3>8. CASE \E text \in {"claim", "huge", "none"} : Done(text)
      BY <3>8 DEF Done, Answer, Facing
    <3>9. CASE Ignored
      BY <3>9 DEF Ignored, Answer
    <3>10. CASE Login
      BY <3>10 DEF Login, Taken, Facing, Mirror, Enqueue, Goto
    <3>11. CASE LoginEnds
      BY <3>11 DEF LoginEnds, Answer, Goto
    <3>12. CASE RunBrowser
      BY <3>12 DEF RunBrowser, Taken, Facing, Mirror, Enqueue, Goto
    <3>13. CASE Human
      BY <3>13 DEF Human, Taken, Facing, Enqueue, Goto
    <3>14. CASE ViewOpened
      BY <3>14 DEF ViewOpened, InTime, Answer, Goto
    <3>15. CASE ViewToolEnds
      BY <3>15 DEF ViewToolEnds, Answer, Goto
    <3>16. CASE \E action \in {"stop", "status"} : ViewTool(action)
      BY <3>16 DEF ViewTool, Taken, Facing, Enqueue, Goto
    <3>17. CASE BatchEnds
      BY <3>17 DEF BatchEnds, AppendMessage, Note, Collect
    <3>18. CASE AfterBatch
      BY <3>18 DEF AfterBatch, Defer, Settle, Break, Goto
    <3>19. CASE Redirected
      BY <3>19 DEF Redirected, Goto
    <3>20. CASE Approve
      BY <3>20 DEF Approve, Judged, AppendMessage, GiveUp, Goto
    <3>21. CASE Correct
      BY <3>21 DEF Correct, Judged, Spent, AskChecker, Mirror, Enqueue, Goto
    <3>22. CASE Inspect
      BY <3>22 DEF Inspect, Judged, Spent, Goto
    <3>23. CASE Reject
      BY <3>23 DEF Reject, Judged, GiveUp, AppendMessage, Goto
    <3>24. CASE LeaveOpen
      BY <3>24 DEF LeaveOpen, Judged, Spent, GiveUp, AppendMessage, Break, Goto
    <3>25. CASE Post
      BY <3>25 DEF Post, Enqueue, Goto
    <3>26. CASE Posted
      BY <3>26 DEF Posted, Goto
    <3>27. CASE Cut
      BY <3>27 DEF Cut, Guarded, Goto
    <3>28. CASE Serve
      BY <3>28 DEF Serve, StartView, StopView, ViewStatus, Fresh, ViewerGone
    <3>29. CASE ModelFails
      BY <3>29 DEF ModelFails, InTime, Break, Goto
    <3>30. CASE CheckFails
      BY <3>30 DEF CheckFails, InTime, GiveUp, Goto
    <3>31. CASE CheckAnswers
      BY <3>31 DEF CheckAnswers, InTime, Note, Collect
    <3>32. CASE Observe
      BY <3>32 DEF Observe, InTime, AskChecker, Mirror, Enqueue, Goto
    <3>33. CASE HumanAnswers
      BY <3>33 DEF HumanAnswers, InTime, Answer, Goto
    <3>34. CASE \E text \in Replies : ModelAnswers(text)
      BY <3>34 DEF ModelAnswers, InTime, AppendMessage, Note, Replies
    <3>35. CASE \E batch \in Batches : ModelCalls(batch)
      BY <3>35 DEF ModelCalls, InTime, AppendMessage, Goto, Batches
    <3>36. CASE \E outcome \in {"works", "fails", "same", "claim", "huge"} : BrowserEnds(outcome)
      BY <3>36 DEF BrowserEnds, InTime, Answer, Goto
    <3>37. CASE \E m \in Message, source \in {"terminal", "view"} : Steer(m, source)
      BY <3>37 DEF Steer
    <3>38. CASE HostView
      BY <3>38 DEF HostView, ViewerGone
    <3>39. CASE Interrupt
      BY <3>39 DEF Interrupt
    <3>40. CASE Expire
      BY <3>40 DEF Expire
    <3>41. CASE BrowserRejects
      BY <3>41 DEF BrowserRejects, InTime, Goto
    <3>42. QED
      BY <3>1, <3>2, <3>3, <3>4, <3>5, <3>6, <3>7, <3>8, <3>9, <3>10, <3>11,
         <3>12, <3>13, <3>14, <3>15, <3>16, <3>17, <3>18, <3>19, <3>20,
         <3>21, <3>22, <3>23, <3>24, <3>25, <3>26, <3>27, <3>28, <3>29,
         <3>30, <3>31, <3>32, <3>33, <3>34, <3>35, <3>36, <3>37, <3>38,
         <3>39, <3>40, <3>41 DEF Next, Proceed
  <2>5. QED BY <2>2, <2>3, <2>4
<1>2. QED BY Inductive, <1>1, PTL DEF Spec, OwnViewerStopped
-----------------------------------------------------------------------------
(***************************************************************************)
(* The safety half of EveryRunReturns.  That the loop takes its next step  *)
(* is fairness; that only so many are left once its time is up, or the     *)
(* caller has interrupted it, is proved here.                              *)
(***************************************************************************)

\* What is left of the loop: a call takes two steps at most, what runs under
\* the deadline is cut, and what the turn concludes is posted and closed.
StepsLeft ==
    CASE pc = "over" -> 0
      [] pc = "teardown" -> 1
      [] pc = "closing" -> 2
      [] pc \in Guarded \cup {"posting"} -> 3
      [] pc = "post" -> 4
      [] pc = "drained" -> IF at = "top" THEN 4 ELSE 8
      [] pc = "terminal" -> IF at = "top" THEN 5 ELSE 9
      [] pc = "drain" -> IF at = "top" THEN 6 ELSE 10
      [] pc = "top" -> 7
      [] pc = "opening" -> 8
      [] pc = "start" -> 9
      [] pc \in {"login", "lane"} -> 10 + 2 * Len(calls)
      [] pc = "calls" -> 11 + 2 * Len(calls)

\* Once the deadline has passed or the caller has interrupted the run, every
\* step of the loop brings it nearer to its end, and no host, human or live
\* view operation that comes in between takes it back.
NearsEnd ==
    /\ Proceed \/ Cut => StepsLeft' < StepsLeft
    /\ StepsLeft' <= StepsLeft
    /\ Serve => Len(lane') < Len(lane)
CutRunsEnd == [][~InTime => NearsEnd]_vars

\* Every step of the loop counts.
LEMMA LoopStep ==
    ASSUME TypeOK, Queues, ~InTime, Proceed \/ Cut
    PROVE  StepsLeft' < StepsLeft
<1>1. Len(calls) \in Nat
  BY LenProperties DEF Queues
<1>2. ASSUME calls # <<>>, Answer PROVE Len(calls') = Len(calls) - 1
  BY <1>2, HeadTailProperties DEF Queues, Answer
<1>3. ASSUME calls # <<>> PROVE Len(calls) > 0
  BY <1>3, EmptySeq, LenProperties DEF Queues
<1> USE <1>1 DEF StepsLeft, Guarded
<1>4. CASE Begin \/ Opened \/ Top
  BY <1>4 DEF Begin, Opened, Top, Break, Collect, Goto
<1>5. CASE DrainChat \/ DrainTerminal
  BY <1>5 DEF DrainChat, DrainTerminal, Goto
<1>6. CASE CallModel
  BY <1>6 DEF CallModel
<1>7. CASE Prose
  BY <1>7 DEF Prose, Settle, Goto
<1>8. CASE (\E text \in {"claim", "huge", "none"} : Done(text)) \/ Ignored
  <2>1. pc = "calls" /\ pc' = "calls" /\ calls # <<>> /\ Answer
    BY <1>8 DEF Done, Ignored, Facing
  <2>2. QED BY <2>1, <1>2
<1>9. CASE Login
  BY <1>9, <1>3 DEF Login, Taken, Facing, Goto, turnVars
<1>10. CASE LoginEnds \/ ViewToolEnds
  <2>1. pc \in {"login", "lane"} /\ pc' = "calls" /\ Answer
    BY <1>10 DEF LoginEnds, ViewToolEnds, Goto
  <2>2. QED BY <2>1, <1>2 DEF Queues
<1>11. CASE RunBrowser
  BY <1>11 DEF RunBrowser, Taken, Facing, Goto
<1>12. CASE Human
  BY <1>12 DEF Human, Taken, Facing, Goto
<1>13. CASE ViewOpened
  BY <1>13 DEF ViewOpened
<1>14. CASE \E action \in {"stop", "status"} : ViewTool(action)
  BY <1>14 DEF ViewTool, Taken, Facing, Goto, turnVars
<1>15. CASE BatchEnds
  BY <1>15 DEF BatchEnds, Collect
<1>16. CASE AfterBatch
  BY <1>16 DEF AfterBatch, Defer, Settle, Break, Goto
<1>17. CASE Redirected \/ Approve \/ Correct
  BY <1>17 DEF Redirected, Approve, Correct, Judged, AskChecker, GiveUp, Goto
<1>18. CASE Inspect \/ Reject \/ LeaveOpen
  BY <1>18 DEF Inspect, Reject, LeaveOpen, Judged, GiveUp, Break, Goto
<1>19. CASE Post \/ Posted
  BY <1>19 DEF Post, Posted, Goto
<1>20. CASE Close \/ TornDown
  BY <1>20 DEF Close, TornDown, Goto
<1>21. CASE Cut
  BY <1>21 DEF Cut, Goto
<1>22. QED
  BY <1>4, <1>5, <1>6, <1>7, <1>8, <1>9, <1>10, <1>11, <1>12, <1>13, <1>14, <1>15,
     <1>16, <1>17, <1>18, <1>19, <1>20, <1>21 DEF Proceed

\* Whatever the model, the page and the people do, a run whose time is up or
\* that was interrupted has two steps of its own left for each call of the turn
\* and eleven more at most, and every live view operation carried out shortens
\* the lane that it may still have to wait for.
THEOREM LateRunsEnd == Spec => CutRunsEnd
<1>1. ASSUME IndInv, [Next]_vars, ~InTime PROVE NearsEnd
  <2> USE <1>1 DEF IndInv
  <2>1. Proceed \/ Cut => StepsLeft' < StepsLeft
    BY LoopStep
  <2>2. StepsLeft \in Nat
    BY LenProperties DEF StepsLeft, Queues, TypeOK, Loop, Guarded, Waiting
  <2>3. ASSUME UNCHANGED <<pc, at, calls>> PROVE StepsLeft' = StepsLeft
    BY <2>3 DEF StepsLeft
  <2>4. ASSUME Serve PROVE Len(lane') < Len(lane) /\ UNCHANGED <<pc, at, calls>>
    <3>1. Len(lane') = Len(lane) - 1
      BY <2>4, HeadTailProperties DEF Serve, Queues
    <3>2. QED BY <2>4, <3>1, LenProperties DEF Serve, Queues, turnVars
  <2>5. ASSUME ~(Proceed \/ Cut), ~Serve PROVE UNCHANGED <<pc, at, calls>>
    <3>1. ~(\/ ModelFails \/ BrowserRejects \/ CheckFails \/ CheckAnswers \/ Observe \/ HumanAnswers
            \/ \E text \in Replies : ModelAnswers(text)
            \/ \E batch \in Batches : ModelCalls(batch)
            \/ \E outcome \in {"works", "fails", "same", "claim", "huge"} : BrowserEnds(outcome))
      BY DEF ModelFails, BrowserRejects, CheckFails, CheckAnswers, Observe, HumanAnswers, ModelAnswers,
             ModelCalls, BrowserEnds
    <3>2. CASE \/ \E m \in Message, source \in {"terminal", "view"} : Steer(m, source)
               \/ HostView \/ Interrupt \/ Expire \/ UNCHANGED vars
      BY <3>2 DEF Steer, HostView, Interrupt, Expire, vars, turnVars
    <3>3. QED BY <2>5, <3>1, <3>2 DEF Next
  <2>6. QED
    <3>1. StepsLeft' \in Nat
      <4>1. (TypeOK /\ Queues)'
        BY KindStep, FlagStep, PlacesStep, QueueStep DEF TypeOK
      <4>2. QED BY <4>1, LenProperties DEF StepsLeft, Queues, TypeOK, Loop, Guarded, Waiting
    <3>2. QED BY <2>1, <2>2, <2>3, <2>4, <2>5, <3>1 DEF NearsEnd
<1>2. IndInv /\ [Next]_vars => [~InTime => NearsEnd]_vars
  BY <1>1
<1>3. QED BY Inductive, <1>2, PTL DEF Spec, CutRunsEnd
=============================================================================
