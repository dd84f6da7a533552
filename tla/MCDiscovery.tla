----------------------------- MODULE MCDiscovery -----------------------------
(* Discovery for TLC: a caller asks for nothing, or for a module by two     *)
(* patterns with white space between them; another module matches neither. *)
EXTENDS Discovery
CONSTANTS m1, m2
MCModules == {m1, m2}
MCRequests == {<<{}>>, <<{m1}, {}, {m1}>>}
=============================================================================
