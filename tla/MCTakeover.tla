----------------------------- MODULE MCTakeover -----------------------------
(* Instances of Takeover and ExtensionPatch for TLC, with one job and two   *)
(* values of `bind`.                                                        *)
EXTENDS Takeover, ExtensionPatch, TLC

CONSTANTS j1, p1, p2

MCJobs == {j1}
MCPorts == {p1, p2}
Symmetry == Permutations(MCPorts)

\* What the properties except lasts: nothing is learnt from going on.
Unharmed == before.harm = {}

\* The configuration and the extension share no file: each is explored by
\* itself, the extension beside an untouched Codex home.
MCInit ==
  \/ Init /\ PatchInit("off")
  \/ Init /\ config = Missing /\ auth = NoLogin /\ PatchInit("down")

MCNext ==
  \/ daemon = "off" /\ Next /\ UNCHANGED patchVars
  \/ daemon # "off" /\ PatchNext /\ UNCHANGED vars

MCSpec == MCInit /\ [][MCNext]_<<vars, patchVars>>
=============================================================================
