--------------------------- MODULE MCAgentRuntime ---------------------------
(* AgentRuntime with a local worker that implements and a hosted one that     *)
(* reviews, so that both kinds of call ids, and the slot pool, are exercised. *)
EXTENDS AgentRuntime, TLC

MCWorker == "implementation" :> "ollama" @@ "review" :> "claude"
=============================================================================
