-------------------------- MODULE MCAssistantChat --------------------------
(* A cyclic catalog (agent.update only refuses a parent of itself): the     *)
(* main agent has one child, which has a child and the main agent again.    *)
EXTENDS AssistantChat

MCChildren == [a \in Agents |-> CASE a = 1 -> {2} [] a = 2 -> {1, 3} [] OTHER -> {}]

\* one blocking and one observing hook before the model call, an enabled one at the end
MCHooks == [p \in Points |->
    CASE p = "before_llm_call" -> <<[enabled |-> TRUE, blocking |-> TRUE]>>
      [] p = "before_tool_call" -> <<[enabled |-> FALSE, blocking |-> TRUE],
                                     [enabled |-> TRUE, blocking |-> TRUE]>>
      [] p = "after_agent_end" -> <<[enabled |-> TRUE, blocking |-> FALSE]>>
      [] OTHER -> <<>>]
=============================================================================
