--------------------------- MODULE MCAgentRunner ---------------------------
(* A stored conversation with two tool exchanges, of which any part may be *)
(* missing from the session file when the run starts.                      *)
EXTENDS AgentRunner

MCConversation ==
    <<User,
      Asking(<<[id |-> 1, tool |-> "web_search"], [id |-> 2, tool |-> "spawn"]>>),
      ToolMessage([id |-> 1, tool |-> "web_search"], 8),
      ToolMessage([id |-> 2, tool |-> "spawn"], 8),
      Asking(<<[id |-> 3, tool |-> "web_search"]>>),
      ToolMessage([id |-> 3, tool |-> "web_search"], 8)>>

MCMenus == {<<>>, <<"web_search">>, <<"spawn", "web_search">>}
=============================================================================
