----------------------------- MODULE PromptText -----------------------------
(***************************************************************************)
(* Prompts in the text of cdb: src/src/cdb/prompt.rs.                      *)
(*                                                                         *)
(* The text is what read_since returns for a command, in tokens: `label`   *)
(* is the digits and colons of a prompt, `gt` the character >, `cmd` the   *)
(* text of the command, `text` anything else.  cdb writes it in chunks,    *)
(* and after every chunk on_output looks for a prompt and, when there is   *)
(* one, cleans the text for the caller.                                    *)
(***************************************************************************)
EXTENDS PromptRule, FiniteSetsExt, SequencesExt

CONSTANT MaxChunks  \* bound: chunks of output of a command

ASSUME MaxChunksAssumption == MaxChunks \in Nat

VARIABLES
  chunks,    \* the kinds of the chunks written since the command began
  text,      \* their tokens: what read_since returns
  answered,  \* was a prompt found before the last chunk
  before,    \* ghost: the text without the last chunk
  echoed     \* ghost: where the echo of the command ends, 0 if there is none

textVars == <<chunks, text, answered, before, echoed>>

Spelling == [prompt |-> <<"label", "gt", "space">>,
             line   |-> <<"text", "newline">>,
             frag   |-> <<"text">>,
             blank  |-> <<"newline">>,
             echo   |-> <<"cmd", "newline">>,          \* cdb echoes the command
             like   |-> <<"cmd", "text", "newline">>,  \* begins like the command
             angle  |-> <<"text", "gt", "newline">>]   \* ends with >

Kinds == DOMAIN Spelling

Tokens == {"label", "gt", "space", "newline", "cmd", "text"}
White == {"space", "newline"}

-----------------------------------------------------------------------------
\* \d+:[0-9a-fA-F]+(:[0-9a-fA-F]+)?>\s*\z matches at i.
PromptAt(s, i) ==
  /\ i < Len(s) /\ s[i] = "label" /\ s[i+1] = "gt"
  /\ \A j \in i+2..Len(s) : s[j] \in White

\* The alternatives >\s, \n and ^ before it: where the match begins.
AfterPrompt(s, i) == {j \in {i-2} : j > 0 /\ s[j] = "gt" /\ s[j+1] \in White}
AtNewline(s, i)   == {j \in {i-1} : j > 0 /\ s[j] = "newline"}
AtStart(i)        == {j \in {i} : j = 1}

\* Mutant of Starts: a prompt right after a prompt is no prompt.
StartsAtLine(s, i) == AtNewline(s, i) \cup AtStart(i)

Starts(s, i) == AfterPrompt(s, i) \cup AtNewline(s, i) \cup AtStart(i)

\* find_prompt and rfind_prompt: the leftmost match, 0 if there is none.
Matches(s) == UNION {Starts(s, i) : i \in {i \in DOMAIN s : PromptAt(s, i)}}
FindPrompt(s) == IF Matches(s) = {} THEN 0 ELSE Min(Matches(s))

\* trim_end and trim_start_matches(['\r', '\n']).
TrimEnd(s) == SubSeq(s, 1, Max({0} \cup {i \in DOMAIN s : s[i] \notin White}))
TrimNewlines(s) ==
  SubSeq(s, Min({Len(s) + 1} \cup {i \in DOMAIN s : s[i] # "newline"}), Len(s))

\* The text before its last newline.
BeforeNewline(s) ==
  LET newlines == {i \in DOMAIN s : s[i] = "newline"}
  IN IF newlines = {} THEN s ELSE SubSeq(s, 1, Max(newlines) - 1)

\* The text without its prompt.
Content(s) ==
  IF FindPrompt(s) > 0 THEN SubSeq(s, 1, FindPrompt(s) - 1) ELSE BeforeNewline(s)

\* The text without the first of the candidates that it begins with.
WithoutEcho(s, candidates) ==
  LET found == {i \in DOMAIN candidates : IsPrefix(candidates[i], TrimNewlines(s))}
  IN IF found = {} THEN s
     ELSE SubSeq(TrimNewlines(s), Len(candidates[Min(found)]) + 1,
                 Len(TrimNewlines(s)))

\* Mutant of Clean: the bare command is tried before the command and a newline.
CleanBareFirst(s) ==
  TrimEnd(WithoutEcho(Content(s), <<<<"cmd">>, <<"cmd", "newline">>>>))

\* clean_command_output.
Clean(s) ==
  TrimEnd(WithoutEcho(Content(s), <<<<"cmd", "newline">>, <<"cmd">>>>))

-----------------------------------------------------------------------------
TextInit ==
  /\ chunks = <<>> /\ text = <<>> /\ answered = FALSE
  /\ before = <<>> /\ echoed = 0

\* The command is echoed before anything else but empty lines.
NothingYet == \A i \in DOMAIN text : text[i] = "newline"

\* on_output takes a chunk; the first prompt answers the command.
Receive(kind) ==
  /\ Len(chunks) < MaxChunks
  /\ chunks' = Append(chunks, kind)
  /\ text' = text \o Spelling[kind]
  /\ answered' = (answered \/ FindPrompt(text) > 0)
  /\ before' = text
  /\ echoed' = IF kind = "echo" /\ NothingYet THEN Len(text) + 2 ELSE echoed

TextNext == \E kind \in Kinds : Receive(kind)

TextSpec == TextInit /\ [][TextNext]_textVars

-----------------------------------------------------------------------------
\* Types.
TextTypeOK ==
  /\ chunks \in Seq(Kinds) /\ text \in Seq(Tokens) /\ answered \in BOOLEAN
  /\ before \in Seq(Tokens) /\ echoed \in Nat

\* CdbSession's rule on chunks decides as the pattern decides on their text,
\* a prompt after a prompt and an empty line after a prompt included.
RuleIsThePattern ==
  EndsAtPrompt([i \in DOMAIN chunks |-> [kind |-> chunks[i]]])
    <=> FindPrompt(text) > 0

\* The last chunk answers the command: the text ends at a prompt for the first
\* time.
Answering == FindPrompt(text) > 0 /\ ~answered

\* What the command wrote, without the echo and without white space at the end.
Written == TrimEnd(SubSeq(before, echoed + 1, Len(before)))

\* Output the cleaning does not cope with: it begins with the command's text, or
\* ends with the character >.
BeginsLikeCommand == IsPrefix(<<"cmd", "text">>, TrimNewlines(text))
EndsLikePrompt == Written # <<>> /\ Last(Written) = "gt"

\* Otherwise the caller of a command gets all it wrote and nothing else: no
\* echo, no prompt, and no line that only looks like one is lost.
CleanReturnsWritten ==
  (Answering /\ ~BeginsLikeCommand /\ ~EndsLikePrompt) => Clean(text) = Written

\* clean_command_output strips the trailing prompt and the leading echo of the
\* issued command, and nothing else.
CleanStripsOnlyPromptAndEcho == Answering => Clean(text) = Written
=============================================================================
