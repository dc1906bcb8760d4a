----------------------------- MODULE MCAgentLoop -----------------------------
(* Small instances of AgentLoop for TLC: two configs with disjoint tool sets, *)
(* so that a batch run under the wrong snapshot meets an unknown tool.        *)
EXTENDS AgentLoop

CONSTANTS plain, guarded, read, write

MCConfigs   == {plain, guarded}
MCTools     == {read, write}
MCToolsOf   == [c \in MCConfigs |-> IF c = plain THEN {read} ELSE {write}]
MCHasPolicy == {guarded}

ShortPorts(deadline, rounds) ==
  [deadline |-> deadline, maxToolRounds |-> rounds, prompt |-> "Short", policy |-> "Short",
   tool |-> "Short", model |-> "Short"]

NoDeadline    == {ShortPorts(FALSE, 0)}
WithDeadline  == {ShortPorts(TRUE, 0)}
\* At most one tool round; its policy or its tool may have a timeout beyond the clock.
OneToolRound ==
  {ShortPorts(TRUE, 1), ShortPorts(FALSE, 1),
   [ShortPorts(FALSE, 1) EXCEPT !.policy = "Overflow"],
   [ShortPorts(FALSE, 1) EXCEPT !.tool = "Overflow"]}

\* Port timeouts at and beyond the 24 h horizon, and beyond the clock.
LongPorts ==
  {[ShortPorts(d, 0) EXCEPT !.tool = "Long", !.model = "Long"] : d \in BOOLEAN}
EdgeTimeouts ==
  NoDeadline \cup LongPorts \cup
                 {[ShortPorts(FALSE, 1) EXCEPT !.prompt = "Overflow"],
                  [ShortPorts(FALSE, 1) EXCEPT !.policy = "Overflow"],
                  [ShortPorts(FALSE, 1) EXCEPT !.tool = "Overflow"]}

\* All of them: every way a deadline can come, or not.
EveryEnding == WithDeadline \cup EdgeTimeouts
=============================================================================
