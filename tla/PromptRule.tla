----------------------------- MODULE PromptRule -----------------------------
(***************************************************************************)
(* When does the output of cdb end at a prompt?  find_prompt of            *)
(* src/src/cdb/prompt.rs as CdbSession sees it, on chunks of output:       *)
(*   prompt  a prompt                  line   text that ends its line      *)
(*   frag    text without a newline    blank  an empty line                *)
(* PromptText checks this rule against the pattern itself.                 *)
(***************************************************************************)
EXTENDS Naturals, Sequences

\* Mutant of EndsAtPrompt: the pattern without its end anchor.
PromptAnywhere(l) ==
  \E i \in DOMAIN l :
    l[i].kind = "prompt" /\ (i > 1 => l[i-1].kind # "frag")

\* find_prompt on the tail of the ring.  The pattern is anchored at a line
\* start or right after another prompt, and only white space may follow.
EndsAtPrompt(l) ==
  \E i \in DOMAIN l :
    /\ l[i].kind = "prompt"
    /\ i > 1 => l[i-1].kind # "frag"
    /\ \A j \in DOMAIN l : j > i => l[j].kind = "blank"
=============================================================================
