---------------------------- MODULE MCAgentTurns ----------------------------
(***************************************************************************)
(* Two gated turns and a cron turn over two chats.  The chats are alike, so *)
(* the first message may as well come from the first of them.               *)
(***************************************************************************)
EXTENDS AgentTurns

MCOrigins == [t \in Turns |-> IF t = "m1" THEN {"a"} ELSE Chats]
=============================================================================
