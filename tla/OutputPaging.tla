---------------------------- MODULE OutputPaging ----------------------------
(***************************************************************************)
(* debug_output: a client that pages through the output of a session with  *)
(* since_offset, as the doc of ring.rs and the tool's description have it. *)
(*                                                                         *)
(* The client begins at offset 0 and goes on from the next_offset it got,  *)
(* while the actor pushes what cdb writes.  Each of its requests has a     *)
(* max_bytes of Limits: 16 KiB if it says nothing (default_output_bytes),  *)
(* 0 for no limit.  A page that is cut is the END of what is new: its      *)
(* front is dropped by handle_request, and next_offset moves past it.      *)
(***************************************************************************)
EXTENDS RingBuffer

CONSTANT Limits  \* the max_bytes the client asks with

ASSUME LimitsAssumption == Limits \subseteq Nat

VARIABLES
  cursor,    \* the since_offset of the client's next request
  received,  \* all bytes of its pages
  warned,    \* was truncated_from_start ever set in a page
  full       \* was a page ever as long as the limit it was asked with

client == <<cursor, received, warned, full>>

PageOf(r, bytes) == [bytes |-> bytes,
                     next_offset |-> r.next,
                     truncated_from_start |-> r.truncated]

\* Mutant of Page: one byte too many is skipped.
PageOneShort(since, max) ==
  LET r == ReadSince(since)
  IN PageOf(r, IF max > 0 /\ Len(r.bytes) > max THEN LastOf(r.bytes, max - 1)
                                                 ELSE r.bytes)

\* Request::ReadOutput.
Page(since, max) ==
  LET r == ReadSince(since)
  IN PageOf(r, IF max > 0 /\ Len(r.bytes) > max THEN LastOf(r.bytes, max)
                                                 ELSE r.bytes)

\* A page is asked for when there is something new; another one is empty.
ReadPage(max) ==
  LET page == Page(cursor, max)
  IN /\ cursor < total_written
     /\ cursor' = page.next_offset
     /\ received' = received \o page.bytes
     /\ warned' = (warned \/ page.truncated_from_start)
     /\ full' = (full \/ (max > 0 /\ Len(page.bytes) >= max))
     /\ UNCHANGED ring

Init ==
  RingInit /\ cursor = 0 /\ received = <<>> /\ warned = FALSE /\ full = FALSE

Next == (\E max \in Limits : ReadPage(max)) \/ (RingNext /\ UNCHANGED client)

Spec == Init /\ [][Next]_<<ring, client>>

-----------------------------------------------------------------------------
\* A client misses output only behind a sign that it can see: truncated_from_start,
\* or a page as long as the limit, which may have been cut.  Without either it has
\* all the output, in order, over any evictions and with any limits.
GapHasSign == ~warned /\ ~full => received = SubSeq(history, 1, cursor)

\* A client that was told misses something, and never gets a byte twice.
WarningIsTrue == warned => Len(received) < cursor

-----------------------------------------------------------------------------
\* What the tool's description says, and the code does not do (README,
\* "Disagreements"): debug_output is for "paginating long command output", but only
\* a client that asks for no limit gets all of it.
NoSilentGap == ~warned => received = SubSeq(history, 1, cursor)
=============================================================================
