----------------------------- MODULE MCAgentLoop -----------------------------
(***************************************************************************)
(* Values of AgentLoop's constants for TLC: one registered tool that can   *)
(* return a small or a large result, a call that activates it, one that    *)
(* asks for a tool too many, a call to it, and a call to a tool that does  *)
(* not exist.                                                              *)
(***************************************************************************)
EXTENDS AgentLoop

AllToolOf ==
    [activate |-> Manual, overreach |-> Manual, search |-> "web_search", guess |-> "no_such_tool"]
AllRequested ==
    [activate |-> {"web_search"}, overreach |-> {"web_search", "no_such_tool"}, search |-> {}, guess |-> {}]
=============================================================================
