---------------------------- MODULE MCAgentLoop ----------------------------
(* AgentLoop for TLC: two messages, of which the chat holds one, batches   *)
(* of two calls, and the options under which the loop takes different ways.*)
EXTENDS AgentLoop, TLC

Plain == [handoff |-> FALSE, watch |-> FALSE, checkout |-> FALSE, guarded |-> FALSE, owns |-> TRUE]

MCOptions ==
    {[Plain EXCEPT !.handoff = TRUE, !.watch = TRUE, !.owns = FALSE],
     [Plain EXCEPT !.checkout = TRUE]}
=============================================================================
