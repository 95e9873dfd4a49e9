--------------------------- MODULE MCExploration ---------------------------
(* Small instances of Exploration for TLC. *)
EXTENDS Exploration

\* Two profiles of config/harness_policy.yaml, and one it does not have.
Profiles ==
  [researcher |-> [tools |-> {"web_search"}, net |-> "tool-mediated-only"],
   reviewer |-> [tools |-> {"knowledge_query", "state_sync"}, net |-> "none"],
   offline |-> [tools |-> {"web_search"}, net |-> "open"]]

Shipped == [mode |-> "standard", allow_unknown |-> FALSE, profiles |-> Profiles]
TwoPolicies == {Shipped, [Shipped EXCEPT !.mode = "core"]}

Envelope(profile, tools, explores, executes) ==
  [profile |-> profile, tools |-> tools, explores |-> explores, executes |-> executes]

TestEnvelopes ==
  {Envelope("researcher", {}, TRUE, TRUE),
   Envelope("researcher", {"search"}, FALSE, FALSE),
   Envelope("reviewer", {"knowledge_query", "web_search"}, TRUE, FALSE),
   Envelope("offline", {"web_search"}, FALSE, FALSE),
   Envelope("researcher", {"shell_exec"}, FALSE, FALSE)}

\* A tool that may be offered, one that never is, and a name nobody registered.
TestCallable == {"web_search", "dynamic_trace", "unregistered"}

TestIntents == {"dynamic_flow"}

Line(kind, says) == [kind |-> kind, says |-> says]
TestAnswers ==
  {<<Line("next", {}), Line("text", {"analyst", "coder"}), Line("text", {"analyst"})>>,
   <<Line("next", {}), Line("bullet", {"coder"}), Line("other", {}),
     Line("text", {"analyst"}), Line("next", {}), Line("text", {"none"})>>}
=============================================================================
