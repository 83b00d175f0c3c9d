---------------------------- MODULE MCJudgeEngine ----------------------------
(***************************************************************************)
(* JudgeEngine on one host each; MCParts has the others.                   *)
(***************************************************************************)
EXTENDS JudgeEngine

\* The default configuration.
PlainHosts == {[cgroup |-> "off", ns |-> FALSE, peak |-> TRUE, kill |-> TRUE]}

\* A kernel that has both, with cgroups.
NewHosts == {[cgroup |-> "auto", ns |-> FALSE, peak |-> TRUE, kill |-> TRUE]}
=============================================================================
