----------------------------- MODULE MCWorkspaces -----------------------------
(***************************************************************************)
(* Instance of the update workspaces for TLC: two processes, one directory   *)
(* left behind at a time.                                                   *)
(***************************************************************************)
EXTENDS Workspaces

\* A release build and one with the opt-in; a development build is like the latter.
MCPolicies == {[insecure |-> FALSE, strict |-> TRUE], [insecure |-> TRUE, strict |-> TRUE]}

\* A body announced and within the ceiling, one announced beyond it, one beyond it
\* in chunks, and one that may end anywhere.
MCAnswers == {[total |-> 2, framing |-> "length"], [total |-> 3, framing |-> "length"],
              [total |-> 3, framing |-> "chunked"], [total |-> 2, framing |-> "close"]}
=============================================================================
