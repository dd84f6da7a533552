---------------------------- MODULE MCCdbSession ----------------------------
(* The session for TLC.  The calls are told apart only by what they ask,    *)
(* so that they are interchangeable in a check of safety.                   *)
EXTENDS CdbSession, TLC
CallSymmetry == Permutations(Calls)
=============================================================================
