----------------------------- MODULE RingBuffer -----------------------------
(***************************************************************************)
(* The bounded buffer of cdb output: src/src/cdb/ring.rs.                  *)
(*                                                                         *)
(* Offsets count every byte ever written, so they survive eviction: a      *)
(* reader asks for what was written from an offset on, and is told when    *)
(* the beginning of that is gone.  `history` is a ghost: all that was      *)
(* pushed, against which what the buffer kept is judged.                   *)
(*                                                                         *)
(* total_written is a u64 and saturates in the code; at any rate of output *)
(* that takes centuries, and here it counts on.                            *)
(***************************************************************************)
EXTENDS Integers, Sequences

CONSTANTS
  Byte,      \* the bytes cdb writes
  Chunks,    \* the chunks read_stream passes on
  Capacity,  \* bytes kept (debugger.output_ring_bytes)
  MaxTotal   \* bound: bytes ever written

ASSUME CapacityAssumption == Capacity \in Nat
ASSUME ChunksAssumption == Chunks \subseteq Seq(Byte)
ASSUME MaxTotalAssumption == MaxTotal \in Nat

VARIABLES
  data,           \* the deque of retained bytes
  total_written,
  history         \* ghost: every byte pushed

ring == <<data, total_written, history>>

\* The last n elements of s.
LastOf(s, n) == SubSeq(s, Len(s) - n + 1, Len(s))

RingInit == data = <<>> /\ total_written = 0 /\ history = <<>>

\* What push leaves of data when its front makes room.
AfterDropping(overflow) ==
  IF overflow > 0 THEN SubSeq(data, overflow + 1, Len(data)) ELSE data

\* A chunk that fills the buffer replaces it; another is appended.
Retained(chunk) ==
  IF Len(chunk) >= Capacity
    THEN LastOf(chunk, Capacity)
    ELSE AfterDropping(Len(data) + Len(chunk) - Capacity) \o chunk

PushAs(chunk, total, bytes) ==
  /\ total_written' = total
  /\ data' = bytes
  /\ history' = history \o chunk

\* Mutant of Push: the wrong end of a long chunk is kept.
PushFront(chunk) ==
  PushAs(chunk, total_written + Len(chunk),
         IF Len(chunk) >= Capacity THEN SubSeq(chunk, 1, Capacity)
                                   ELSE Retained(chunk))

Push(chunk) == PushAs(chunk, total_written + Len(chunk), Retained(chunk))

EarliestOffset == total_written - Len(data)

\* Mutant of ReadSince: the oldest byte counts as evicted.
ReadSinceTooWary(since) ==
  LET start == IF since <= EarliestOffset THEN 0 ELSE since - EarliestOffset
  IN [bytes     |-> SubSeq(data, start + 1, Len(data)),
      next      |-> total_written,
      truncated |-> since <= EarliestOffset]

\* read_since: the bytes from an offset on, the offset to go on from, and
\* whether the beginning was evicted.
ReadSince(since) ==
  LET start == IF since < EarliestOffset THEN 0 ELSE since - EarliestOffset
  IN [bytes     |-> SubSeq(data, start + 1, Len(data)),
      next      |-> total_written,
      truncated |-> since < EarliestOffset]

\* Mutant of SnapshotTail: the head of the buffer.
SnapshotHead(n) == SubSeq(data, 1, IF n < Len(data) THEN n ELSE Len(data))

\* snapshot_tail: at most the last n bytes, in which prompts are looked for.
SnapshotTail(n) == LastOf(data, IF n < Len(data) THEN n ELSE Len(data))

RingNext ==
  \E chunk \in Chunks : Len(history) + Len(chunk) <= MaxTotal /\ Push(chunk)

RingSpec == RingInit /\ [][RingNext]_ring

-----------------------------------------------------------------------------
\* Types: the buffer never holds more than its capacity.
RingTypeOK ==
  /\ data \in Seq(Byte) /\ Len(data) <= Capacity
  /\ total_written \in Nat
  /\ history \in Seq(Byte)

\* The buffer is the most recent part of the output, as long as the capacity
\* allows: nothing is lost, repeated or reordered by the eviction in push.
HoldsRecentOutput ==
  /\ total_written = Len(history)
  /\ data = LastOf(history, IF Len(history) < Capacity THEN Len(history)
                                                       ELSE Capacity)

\* read_since returns exactly what was written from the offset on, or says that
\* the beginning is missing and returns all that is kept.
ReadsWhatWasWritten ==
  \A since \in 0..Len(history) :
    LET r == ReadSince(since)
    IN /\ r.next = Len(history)
       /\ r.truncated \/ r.bytes = LastOf(history, Len(history) - since)
       /\ r.truncated => r.bytes = data /\ Len(data) < Len(history) - since

\* Offsets are monotonic: the window never moves back, so that an offset once
\* given out as next stays meaningful.
OffsetsGrow ==
  [][total_written <= total_written' /\ EarliestOffset <= EarliestOffset']_ring

\* The tail in which on_output looks for a prompt is the end of what cdb wrote.
TailIsTheEnd ==
  \A n \in 0..Len(history) : LET t == SnapshotTail(n) IN
    Len(t) = (IF n < Len(data) THEN n ELSE Len(data)) /\ t = LastOf(history, Len(t))
=============================================================================
