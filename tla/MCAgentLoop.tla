---------------------------- MODULE MCAgentLoop -----------------------------
(* Two steering messages and a follow-up, and both modes of the queues.     *)
EXTENDS AgentLoop

CONSTANTS s1, s2, f1

TwoSteers   == {s1, s2}
OneFollowUp == {f1}
BothModes   == {[steer |-> q, followUp |-> q] : q \in {"all", "one-at-a-time"}}

\* The steering messages are alike, so they are sent in one order.
InOrder == fate[s2] # "unsent" => fate[s1] # "unsent"
=============================================================================
