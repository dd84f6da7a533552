----------------------------- MODULE MCToolCalls -----------------------------
(* The tool calls for TLC: they are told apart only by their tool.          *)
EXTENDS ToolCalls, TLC
CallSymmetry == Permutations(Calls)
=============================================================================
