---------------------------- MODULE Output_proofs ----------------------------
(***************************************************************************)
(* Theorems about the output of cdb on its way to a client.                *)
(*   RingBuffer and OutputPaging, for any capacity, any chunks and any     *)
(* limits on its pages: the buffer is the end of the output, reads are     *)
(* exact or warned of, and a client that saw no sign has everything.       *)
(*   PromptText, for texts of any length: the rule on chunks is the        *)
(* pattern, and the cleaned text is what the command wrote.                *)
(***************************************************************************)
EXTENDS OutputPaging, PromptText, SequenceTheorems, WellFoundedInduction, TLAPS

-----------------------------------------------------------------------------
(* The buffer and its readers.                                             *)


\* The last n elements of a sequence, one by one.
LEMMA LastOfElements ==
  ASSUME NEW S, NEW s \in Seq(S), NEW n \in 0..Len(s)
  PROVE  /\ LastOf(s, n) \in Seq(S)
         /\ Len(LastOf(s, n)) = n
         /\ \A i \in 1..n : LastOf(s, n)[i] = s[Len(s) - n + i]
<1> DEFINE m == Len(s) - n + 1
<1>1. Len(s) \in Nat /\ m \in Int
  BY LenProperties
<1>2. \A i \in m..Len(s) : s[i] \in S
  BY <1>1, ElementOfSeq
<1>3. /\ SubSeq(s, m, Len(s)) \in Seq(S)
      /\ Len(SubSeq(s, m, Len(s))) = IF m <= Len(s) THEN Len(s) - m + 1 ELSE 0
      /\ \A i \in 1..Len(s) - m + 1 : SubSeq(s, m, Len(s))[i] = s[m + i - 1]
  BY <1>1, <1>2, SubSeqProperties
<1>4. \A i \in 1..n : m + i - 1 = Len(s) - n + i
  BY <1>1
<1> QED
  BY <1>1, <1>3, <1>4 DEF LastOf

\* How many bytes the buffer holds when n have been written.
KeptOf(n) == IF n < Capacity THEN n ELSE Capacity

\* The inductive invariant: the buffer is full or has everything, and its bytes
\* are the last ones of the history.
RingInv ==
  /\ data \in Seq(Byte) /\ history \in Seq(Byte)
  /\ total_written = Len(history)
  /\ Len(data) = KeptOf(Len(history))
  /\ \A i \in 1..Len(data) : data[i] = history[Len(history) - Len(data) + i]

LEMMA RingInvInit == RingInit => RingInv
BY EmptySeq, CapacityAssumption DEF RingInit, RingInv, KeptOf

\* What is left of the buffer when its front has made room for a chunk shorter
\* than the buffer.
LEMMA AfterDroppingElements ==
  ASSUME RingInv, NEW k \in Int, k <= Len(data)
  PROVE  /\ AfterDropping(k) \in Seq(Byte)
         /\ Len(AfterDropping(k)) = Len(data) - (IF k > 0 THEN k ELSE 0)
         /\ \A i \in 1..Len(AfterDropping(k)) :
              AfterDropping(k)[i] = data[(IF k > 0 THEN k ELSE 0) + i]
<1>1. data \in Seq(Byte) /\ Len(data) \in Nat
  BY LenProperties DEF RingInv
<1>2. CASE k > 0
  <2>1. \A i \in k + 1..Len(data) : data[i] \in Byte
    BY <1>1, <1>2, ElementOfSeq
  <2>2. /\ SubSeq(data, k + 1, Len(data)) \in Seq(Byte)
        /\ Len(SubSeq(data, k + 1, Len(data)))
             = IF k + 1 <= Len(data) THEN Len(data) - (k + 1) + 1 ELSE 0
        /\ \A i \in 1..Len(data) - (k + 1) + 1 :
             SubSeq(data, k + 1, Len(data))[i] = data[k + 1 + i - 1]
    BY <1>1, <2>1, SubSeqProperties
  <2>3. \A i \in Int : k + 1 + i - 1 = k + i
    OBVIOUS
  <2> QED
    BY <1>1, <1>2, <2>2, <2>3 DEF AfterDropping
<1>3. CASE ~(k > 0)
  BY <1>1, <1>3 DEF AfterDropping
<1> QED
  BY <1>2, <1>3

\* push keeps the invariant.
LEMMA PushKeeps ==
  ASSUME RingInv, NEW chunk \in Chunks, Push(chunk)
  PROVE  RingInv'
<1> DEFINE n == Len(chunk)
           h == Len(history)
           d == Len(data)
           new == history \o chunk
<1>1. chunk \in Seq(Byte) /\ data \in Seq(Byte) /\ history \in Seq(Byte)
  BY ChunksAssumption DEF RingInv
<1>2. n \in Nat /\ h \in Nat /\ d \in Nat /\ Capacity \in Nat
  BY <1>1, CapacityAssumption, LenProperties
<1>3. d = KeptOf(h)
  BY DEF RingInv
<1>4. /\ new \in Seq(Byte) /\ Len(new) = h + n
      /\ \A i \in 1..h + n : new[i] = IF i <= h THEN history[i] ELSE chunk[i - h]
  BY <1>1, ConcatProperties
<1>5. /\ history' = new /\ total_written' = Len(new) /\ data' = Retained(chunk)
  BY <1>4 DEF Push, PushAs, RingInv
<1>6. \A i \in 1..d : data[i] = history[h - d + i]
  BY DEF RingInv
<1>7. /\ Retained(chunk) \in Seq(Byte) /\ Len(Retained(chunk)) = KeptOf(h + n)
      /\ \A i \in 1..KeptOf(h + n) :
           Retained(chunk)[i] = new[h + n - KeptOf(h + n) + i]
  <2>1. CASE n >= Capacity
    <3>1. Retained(chunk) = LastOf(chunk, Capacity) /\ Capacity \in 0..n
      BY <1>2, <2>1 DEF Retained
    <3>2. /\ LastOf(chunk, Capacity) \in Seq(Byte)
          /\ Len(LastOf(chunk, Capacity)) = Capacity
          /\ \A i \in 1..Capacity : LastOf(chunk, Capacity)[i] = chunk[n - Capacity + i]
      BY <1>1, <3>1, LastOfElements
    <3> HIDE DEF n, h, d, new
    <3>3. KeptOf(h + n) = Capacity
      BY <1>2, <2>1 DEF KeptOf
    <3>4. ASSUME NEW i \in 1..Capacity
          PROVE  new[h + n - Capacity + i] = chunk[n - Capacity + i]
      <4> DEFINE j == h + n - Capacity + i
      <4>1. j \in 1..h + n /\ ~(j <= h) /\ j - h = n - Capacity + i
        BY <1>2, <2>1
      <4> HIDE DEF j
      <4>2. new[j] = chunk[n - Capacity + i]
        BY <1>4, <4>1
      <4> QED
        BY <4>2 DEF j
    <3> QED
      BY <3>1, <3>2, <3>3, <3>4
  <2>2. CASE ~(n >= Capacity)
    <3> DEFINE k == d + n - Capacity
               drop == IF k > 0 THEN k ELSE 0
               left == AfterDropping(k)
    <3>1. k \in Int /\ k <= d /\ Retained(chunk) = left \o chunk
      BY <1>2, <2>2 DEF Retained
    <3>2. /\ left \in Seq(Byte) /\ Len(left) = d - drop
          /\ \A i \in 1..Len(left) : left[i] = data[drop + i]
      BY <3>1, AfterDroppingElements
    <3>3. /\ left \o chunk \in Seq(Byte)
          /\ Len(left \o chunk) = Len(left) + n
          /\ \A i \in 1..Len(left) + n :
               (left \o chunk)[i] = IF i <= Len(left) THEN left[i]
                                    ELSE chunk[i - Len(left)]
      BY <1>1, <3>2, ConcatProperties
    <3> HIDE DEF n, h, d, new, left
    <3>4. /\ d - drop + n = KeptOf(h + n) /\ d - drop \in Nat
          /\ drop \in Nat /\ d <= h
      BY <1>2, <1>3, <2>2 DEF KeptOf
    <3> HIDE DEF k, drop
    <3>5. ASSUME NEW i \in 1..KeptOf(h + n)
          PROVE  (left \o chunk)[i] = new[h + n - KeptOf(h + n) + i]
      <4> DEFINE j == h + n - KeptOf(h + n) + i
      <4>1. /\ j = h - (d - drop) + i /\ i \in 1..d - drop + n /\ i \in Int
            /\ j \in 1..h + n
        BY <1>2, <3>4
      <4> HIDE DEF j
      <4>2. CASE i <= d - drop
        <5>1. drop + i \in 1..d /\ i \in 1..Len(left) /\ i \in 1..Len(left) + n
          BY <1>2, <3>2, <3>4, <4>1, <4>2
        <5>2. (left \o chunk)[i] = data[drop + i]
          BY <3>2, <3>3, <4>2, <5>1
        <5>3. data[drop + i] = history[h - d + (drop + i)]
          BY <1>6, <5>1
        <5>4. j = h - d + (drop + i) /\ j <= h
          BY <1>2, <3>4, <4>1, <4>2
        <5>5. new[j] = history[j]
          BY <1>4, <4>1, <5>4
        <5> QED
          BY <5>2, <5>3, <5>4, <5>5 DEF j
      <4>3. CASE ~(i <= d - drop)
        <5>1. ~(j <= h) /\ j - h = i - (d - drop)
          BY <1>2, <3>4, <4>1, <4>3
        <5>2. new[j] = chunk[j - h]
          BY <1>4, <4>1, <5>1
        <5>3. (left \o chunk)[i] = chunk[i - (d - drop)]
          BY <3>2, <3>3, <4>1, <4>3
        <5> QED
          BY <5>1, <5>2, <5>3 DEF j
      <4> QED
        BY <4>2, <4>3
    <3> QED
      BY <3>1, <3>2, <3>3, <3>4, <3>5
  <2> QED
    BY <2>1, <2>2
<1>8. data' \in Seq(Byte) /\ history' \in Seq(Byte) /\ total_written' = Len(history')
  BY <1>4, <1>5, <1>7
<1>9. Len(data') = KeptOf(Len(history')) /\ Len(history') = h + n
  BY <1>4, <1>5, <1>7
<1>10. \A i \in 1..KeptOf(h + n) : data'[i] = history'[h + n - KeptOf(h + n) + i]
  BY <1>5, <1>7
<1> HIDE DEF n, h, d, new
<1>11. Len(data') = KeptOf(h + n)
  BY <1>9
<1>12. KeptOf(h + n) \in Nat /\ h + n \in Nat
  BY <1>2 DEF KeptOf
<1>13. \A i \in 1..Len(data') : data'[i] = history'[Len(history') - Len(data') + i]
  <2>1. Len(history') - Len(data') = h + n - KeptOf(h + n)
    BY <1>2, <1>9, <1>11, <1>12
  <2> QED
    BY <1>2, <1>10, <1>11, <1>12, <2>1
<1>14. Len(data') = KeptOf(Len(history'))
  BY <1>9
<1> QED
  BY <1>8, <1>13, <1>14 DEF RingInv, KeptOf

LEMMA RingInvStep == RingInv /\ [RingNext]_ring => RingInv'
<1>1. ASSUME RingInv, RingNext PROVE RingInv'
  BY <1>1, PushKeeps DEF RingNext
<1>2. RingInv /\ UNCHANGED ring => RingInv'
  BY DEF RingInv, ring
<1> QED
  BY <1>1, <1>2
-----------------------------------------------------------------------------
(* What the invariant says.                                                *)

LEMMA LengthsOfRing ==
  ASSUME RingInv
  PROVE  /\ Len(data) \in Nat /\ Len(history) \in Nat
         /\ Len(data) <= Len(history) /\ Len(data) <= Capacity
         /\ EarliestOffset = Len(history) - Len(data)
<1>1. Len(data) \in Nat /\ Len(history) \in Nat
  BY LenProperties DEF RingInv
<1> QED
  BY <1>1, CapacityAssumption DEF RingInv, KeptOf, EarliestOffset

\* A stretch at the end of the buffer is that stretch of the history.
LEMMA EndOfRing ==
  ASSUME RingInv, NEW n \in 0..Len(data)
  PROVE  LastOf(data, n) = LastOf(history, n)
<1>1. /\ Len(data) \in Nat /\ Len(history) \in Nat /\ n \in 0..Len(history)
      /\ data \in Seq(Byte) /\ history \in Seq(Byte)
  BY LengthsOfRing DEF RingInv
<1>2. /\ LastOf(data, n) \in Seq(Byte) /\ Len(LastOf(data, n)) = n
      /\ \A i \in 1..n : LastOf(data, n)[i] = data[Len(data) - n + i]
  BY <1>1, LastOfElements
<1>3. /\ LastOf(history, n) \in Seq(Byte) /\ Len(LastOf(history, n)) = n
      /\ \A i \in 1..n : LastOf(history, n)[i] = history[Len(history) - n + i]
  BY <1>1, LastOfElements
<1>4. ASSUME NEW i \in 1..n PROVE LastOf(data, n)[i] = LastOf(history, n)[i]
  <2> DEFINE j == Len(data) - n + i
  <2>1. j \in 1..Len(data) /\ Len(history) - Len(data) + j = Len(history) - n + i
    BY <1>1
  <2>2. data[j] = history[Len(history) - Len(data) + j]
    BY <2>1 DEF RingInv
  <2> QED
    BY <1>2, <1>3, <2>1, <2>2
<1> QED
  BY <1>2, <1>3, <1>4, SeqEqual

\* The whole buffer is the end of the history.
LEMMA AllOfRing == ASSUME RingInv PROVE data = LastOf(history, Len(data))
<1>1. data \in Seq(Byte) /\ Len(data) \in Nat
  BY LengthsOfRing DEF RingInv
<1>2. LastOf(data, Len(data)) = data
  BY <1>1, SubSeqFull DEF LastOf
<1> QED
  BY <1>1, <1>2, EndOfRing

\* The buffer is the most recent part of the output.
LEMMA RingHolds == RingInv => HoldsRecentOutput
BY AllOfRing DEF HoldsRecentOutput, RingInv, KeptOf

\* The end of the buffer that read_since returns, and when it says that the
\* beginning is missing.
LEMMA ReadSinceElements ==
  ASSUME RingInv, NEW since \in 0..Len(history)
  PROVE  LET r == ReadSince(since)
             n == Len(history) - since
         IN /\ r.next = Len(history)
            /\ r.truncated <=> n > Len(data)
            /\ ~r.truncated => n \in 0..Len(data) /\ r.bytes = LastOf(history, n)
            /\ r.truncated => r.bytes = data
<1> DEFINE n == Len(history) - since
<1>1. /\ Len(data) \in Nat /\ Len(history) \in Nat /\ Len(data) <= Len(history)
      /\ EarliestOffset = Len(history) - Len(data) /\ total_written = Len(history)
      /\ data \in Seq(Byte)
  BY LengthsOfRing DEF RingInv
<1>2. CASE since < EarliestOffset
  <2>1. SubSeq(data, 0 + 1, Len(data)) = data
    BY <1>1, SubSeqFull
  <2>2. n > Len(data)
    BY <1>1, <1>2
  <2> QED
    BY <1>1, <1>2, <2>1, <2>2 DEF ReadSince
<1>3. CASE ~(since < EarliestOffset)
  <2>1. n \in 0..Len(data) /\ since - EarliestOffset + 1 = Len(data) - n + 1
    BY <1>1, <1>3
  <2>2. SubSeq(data, since - EarliestOffset + 1, Len(data)) = LastOf(history, n)
    BY <2>1, EndOfRing DEF LastOf
  <2>3. ~(n > Len(data))
    BY <1>1, <2>1
  <2> QED
    BY <1>1, <1>3, <2>1, <2>2, <2>3 DEF ReadSince
<1> QED
  BY <1>2, <1>3

LEMMA RingReads == RingInv => ReadsWhatWasWritten
<1> SUFFICES ASSUME RingInv, NEW since \in 0..Len(history)
             PROVE  LET r == ReadSince(since)
                    IN /\ r.next = Len(history)
                       /\ r.truncated \/ r.bytes = LastOf(history, Len(history) - since)
                       /\ r.truncated => r.bytes = data /\ Len(data) < Len(history) - since
  BY DEF ReadsWhatWasWritten
<1> QED
  BY LengthsOfRing, ReadSinceElements

LEMMA RingTail == RingInv => TailIsTheEnd
<1> SUFFICES ASSUME RingInv, NEW n \in 0..Len(history)
             PROVE  LET t == SnapshotTail(n)
                    IN /\ Len(t) = (IF n < Len(data) THEN n ELSE Len(data))
                       /\ t = LastOf(history, Len(t))
  BY DEF TailIsTheEnd
<1> DEFINE m == IF n < Len(data) THEN n ELSE Len(data)
<1>1. m \in 0..Len(data) /\ data \in Seq(Byte)
  BY LengthsOfRing DEF RingInv
<1>2. SnapshotTail(n) = LastOf(data, m)
  BY DEF SnapshotTail
<1>3. Len(LastOf(data, m)) = m
  BY <1>1, LastOfElements
<1> QED
  BY <1>1, <1>2, <1>3, EndOfRing

-----------------------------------------------------------------------------
(* The theorems about the buffer.                                          *)

LEMMA StepOfRing == [Next]_<<ring, client>> => [RingNext]_ring
BY DEF Next, ReadPage, ring

LEMMA RingInvariant == Spec => []RingInv
<1>1. Init => RingInv
  BY RingInvInit DEF Init
<1>2. RingInv /\ [Next]_<<ring, client>> => RingInv'
  BY StepOfRing, RingInvStep
<1> QED
  BY <1>1, <1>2, PTL DEF Spec

\* The buffer never holds more than its capacity.
THEOREM RingTypes == Spec => []RingTypeOK
<1>1. RingInv => RingTypeOK
  BY LengthsOfRing DEF RingInv, RingTypeOK
<1> QED
  BY <1>1, RingInvariant, PTL

\* Eviction loses nothing but the oldest bytes, whatever the sizes of chunks.
THEOREM RingHoldsTheEnd == Spec => []HoldsRecentOutput
BY RingInvariant, RingHolds, PTL

\* A read by offset is exact, or says that it is not.
THEOREM ReadsAreExact == Spec => []ReadsWhatWasWritten
BY RingInvariant, RingReads, PTL

\* Prompts are looked for at the end of what cdb wrote.
THEOREM SearchedTailIsTheEnd == Spec => []TailIsTheEnd
BY RingInvariant, RingTail, PTL

\* The window of offsets never moves back.
LEMMA WindowStep ==
  RingInv /\ RingInv' /\ [RingNext]_ring
    => [total_written <= total_written' /\ EarliestOffset <= EarliestOffset']_ring
<1> SUFFICES ASSUME RingInv, RingInv', RingNext
             PROVE  total_written <= total_written' /\ EarliestOffset <= EarliestOffset'
  OBVIOUS
<1>1. PICK chunk \in Chunks : Push(chunk)
  BY DEF RingNext
<1>2. /\ chunk \in Seq(Byte) /\ history \in Seq(Byte) /\ Len(chunk) \in Nat
      /\ history' = history \o chunk
  BY <1>1, ChunksAssumption, LenProperties DEF Push, PushAs, RingInv
<1> DEFINE m == Len(history)
           n == Len(chunk)
<1>3. Len(history') = m + n /\ m \in Nat /\ n \in Nat
  BY <1>2, ConcatProperties, LengthsOfRing
<1>4. /\ EarliestOffset = m - KeptOf(m) /\ total_written = m
      /\ EarliestOffset' = Len(history') - KeptOf(Len(history'))
      /\ total_written' = Len(history')
  BY DEF RingInv, EarliestOffset
<1> HIDE DEF m, n
<1>5. /\ KeptOf(m) \in Nat /\ KeptOf(m + n) \in Nat /\ m + n \in Nat
      /\ m - KeptOf(m) <= m + n - KeptOf(m + n)
  BY <1>3, CapacityAssumption DEF KeptOf
<1>6. EarliestOffset' = m + n - KeptOf(m + n) /\ total_written' = m + n
  BY <1>3, <1>4, <1>5
<1> QED
  BY <1>3, <1>4, <1>5, <1>6

THEOREM OffsetsNeverMoveBack == Spec => OffsetsGrow
<1>1. RingInv /\ RingInv' /\ [Next]_<<ring, client>>
        => [total_written <= total_written' /\ EarliestOffset <= EarliestOffset']_ring
  BY StepOfRing, WindowStep
<1> QED
  BY <1>1, RingInvariant, PTL DEF Spec, OffsetsGrow

-----------------------------------------------------------------------------
(* The theorems about the client.                                          *)

\* It has received no more than it was told it has, and less if warned.
ClientInv ==
  /\ cursor \in 0..Len(history)
  /\ received \in Seq(Byte) /\ warned \in BOOLEAN /\ full \in BOOLEAN
  /\ Len(received) <= cursor
  /\ WarningIsTrue

\* A page in full: what it holds and how long it is.
LEMMA PageElements ==
  ASSUME RingInv, NEW since \in 0..Len(history), NEW max \in Limits
  PROVE  LET p == Page(since, max)
             n == Len(history) - since
         IN /\ p.bytes \in Seq(Byte)
            /\ p.next_offset = Len(history)
            /\ p.truncated_from_start \in BOOLEAN
            /\ Len(p.bytes) <= n
            /\ p.truncated_from_start => Len(p.bytes) < n
            /\ (~p.truncated_from_start /\ ~(max > 0 /\ Len(p.bytes) >= max))
                 => p.bytes = LastOf(history, n)
<1> DEFINE r == ReadSince(since)
           n == Len(history) - since
           p == Page(since, max)
<1>1. /\ Len(data) \in Nat /\ Len(history) \in Nat /\ Len(data) <= Len(history)
      /\ data \in Seq(Byte) /\ history \in Seq(Byte) /\ n \in 0..Len(history)
  BY LengthsOfRing DEF RingInv
<1>2. /\ r.next = Len(history)
      /\ r.truncated <=> n > Len(data)
      /\ ~r.truncated => n \in 0..Len(data) /\ r.bytes = LastOf(history, n)
      /\ r.truncated => r.bytes = data
  BY ReadSinceElements
<1>3. r.truncated \in BOOLEAN
  BY DEF ReadSince
<1>4. /\ r.bytes \in Seq(Byte) /\ Len(r.bytes) \in Nat /\ Len(r.bytes) <= n
      /\ r.truncated => Len(r.bytes) < n
  <2>1. CASE r.truncated
    BY <1>1, <1>2, <2>1
  <2>2. CASE ~r.truncated
    <3>1. LastOf(history, n) \in Seq(Byte) /\ Len(LastOf(history, n)) = n
      BY <1>1, LastOfElements
    <3> QED
      BY <1>1, <1>2, <2>2, <3>1
  <2> QED
    BY <1>3, <2>1, <2>2
<1>5. /\ p.next_offset = r.next /\ p.truncated_from_start = r.truncated
      /\ p.bytes = IF max > 0 /\ Len(r.bytes) > max
                     THEN LastOf(r.bytes, max) ELSE r.bytes
  BY DEF Page, PageOf
<1> HIDE DEF r, p
<1>6. CASE max > 0 /\ Len(r.bytes) > max
  <2>1. max \in 0..Len(r.bytes)
    BY <1>4, <1>6, LimitsAssumption
  <2>2. p.bytes \in Seq(Byte) /\ Len(p.bytes) = max
    BY <1>4, <1>5, <1>6, <2>1, LastOfElements
  <2>3. Len(p.bytes) <= n /\ (r.truncated => Len(p.bytes) < n)
    BY <1>1, <1>4, <1>6, <2>2, LimitsAssumption
  <2> QED
    BY <1>2, <1>3, <1>5, <1>6, <2>2, <2>3, LimitsAssumption DEF p
<1>7. CASE ~(max > 0 /\ Len(r.bytes) > max)
  <2>1. p.bytes = r.bytes
    BY <1>5, <1>7
  <2> QED
    BY <1>2, <1>3, <1>4, <1>5, <2>1 DEF p
<1> QED
  BY <1>6, <1>7

LEMMA ClientStep ==
  RingInv /\ ClientInv /\ [Next]_<<ring, client>> => ClientInv'
<1>1. ASSUME RingInv, ClientInv, NEW max \in Limits, ReadPage(max) PROVE ClientInv'
  <2> DEFINE p == Page(cursor, max)
  <2>1. /\ p.bytes \in Seq(Byte) /\ p.next_offset = Len(history)
        /\ p.truncated_from_start \in BOOLEAN
        /\ Len(p.bytes) <= Len(history) - cursor
        /\ p.truncated_from_start => Len(p.bytes) < Len(history) - cursor
    BY <1>1, PageElements DEF ClientInv
  <2>2. /\ cursor' = p.next_offset /\ received' = received \o p.bytes
        /\ warned' = (warned \/ p.truncated_from_start) /\ history' = history
    BY <1>1 DEF ReadPage, ring
  <2> HIDE DEF p
  <2>3. /\ received' \in Seq(Byte) /\ Len(received') = Len(received) + Len(p.bytes)
        /\ Len(received) \in Nat /\ Len(p.bytes) \in Nat /\ Len(history) \in Nat
    BY <1>1, <2>1, <2>2, ConcatProperties, LenProperties, LengthsOfRing DEF ClientInv
  <2>4. cursor' \in 0..Len(history') /\ warned' \in BOOLEAN
    BY <1>1, <2>1, <2>2, <2>3 DEF ClientInv
  <2>6. full' \in BOOLEAN
    BY <1>1, Zenon DEF ReadPage
  <2>5. /\ Len(received') <= cursor'
        /\ warned' => Len(received') < cursor'
    BY <1>1, <2>1, <2>2, <2>3 DEF ClientInv, WarningIsTrue
  <2> QED
    BY <2>3, <2>4, <2>5, <2>6 DEF ClientInv, WarningIsTrue
<1>2. ASSUME RingInv, ClientInv, RingNext, UNCHANGED client PROVE ClientInv'
  <2>1. PICK chunk \in Chunks : Push(chunk)
    BY <1>2 DEF RingNext
  <2>2. Len(history') = Len(history) + Len(chunk) /\ Len(chunk) \in Nat
    BY <1>2, <2>1, ConcatProperties, LenProperties, ChunksAssumption
       DEF Push, PushAs, RingInv
  <2>3. cursor' \in 0..Len(history')
    BY <1>2, <2>2, LengthsOfRing DEF ClientInv, client
  <2> QED
    BY <1>2, <2>3 DEF ClientInv, WarningIsTrue, client
<1>3. ClientInv /\ UNCHANGED <<ring, client>> => ClientInv'
  BY DEF ClientInv, WarningIsTrue, ring, client
<1> QED
  BY <1>1, <1>2, <1>3 DEF Next

LEMMA ClientInvariant == Spec => []ClientInv
<1>1. Init => ClientInv
  <2>1. <<>> \in Seq(Byte) /\ Len(<<>>) = 0
    BY EmptySeq
  <2> SUFFICES ASSUME Init PROVE ClientInv
    OBVIOUS
  <2>2. Len(history) = 0 /\ Len(received) = 0 /\ received \in Seq(Byte)
    BY <2>1 DEF Init, RingInit
  <2>3. cursor = 0 /\ warned = FALSE /\ full = FALSE
    BY DEF Init
  <2>4. cursor \in 0..Len(history) /\ Len(received) <= cursor
    BY <2>2, <2>3
  <2>5. warned \in BOOLEAN /\ full \in BOOLEAN /\ WarningIsTrue
    BY <2>3, Zenon DEF WarningIsTrue
  <2> QED
    BY <2>2, <2>4, <2>5 DEF ClientInv
<1> QED
  BY <1>1, ClientStep, RingInvariant, PTL DEF Spec

\* A warned client misses something: truncated_from_start is never a false alarm.
THEOREM WarningsAreTrue == Spec => []WarningIsTrue
BY ClientInvariant, PTL DEF ClientInv

\* A client that saw neither a warning nor a full page has all the output.
LEMMA GapStep ==
  ASSUME RingInv, ClientInv, GapHasSign, [Next]_<<ring, client>>
  PROVE  GapHasSign'
<1> USE DEF GapHasSign
<1>1. /\ history \in Seq(Byte) /\ Len(history) \in Nat /\ cursor \in 0..Len(history)
  BY LengthsOfRing DEF RingInv, ClientInv
<1>2. ASSUME NEW max \in Limits, ReadPage(max) PROVE GapHasSign'
  <2> SUFFICES ASSUME ~warned' /\ ~full'
               PROVE  received' = SubSeq(history', 1, cursor')
    OBVIOUS
  <2> DEFINE p == Page(cursor, max)
             n == Len(history) - cursor
  <2>1. /\ cursor' = p.next_offset /\ received' = received \o p.bytes
        /\ warned' = (warned \/ p.truncated_from_start) /\ history' = history
        /\ full' = (full \/ (max > 0 /\ Len(p.bytes) >= max))
    BY <1>2 DEF ReadPage, ring
  <2>2. /\ p.next_offset = Len(history) /\ p.truncated_from_start \in BOOLEAN
        /\ (~p.truncated_from_start /\ ~(max > 0 /\ Len(p.bytes) >= max))
             => p.bytes = LastOf(history, n)
    BY <1>1, <1>2, PageElements
  <2> HIDE DEF p
  <2>3. received = SubSeq(history, 1, cursor) /\ p.bytes = LastOf(history, n)
    BY <2>1, <2>2
  <2>4. LastOf(history, n) = SubSeq(history, cursor + 1, Len(history))
    <3>1. Len(history) - n + 1 = cursor + 1
      BY <1>1
    <3> QED
      BY <3>1 DEF LastOf
  <2>5. SubSeq(history, 1, cursor) \o SubSeq(history, cursor + 1, Len(history))
          = SubSeq(history, 1, Len(history))
    <3>1. /\ 1 \in 1..Len(history) + 1 /\ cursor \in 1 - 1..Len(history)
          /\ Len(history) \in cursor..Len(history)
      BY <1>1
    <3> QED
      BY <1>1, <3>1, ConcatAdjacentSubSeq
  <2> QED
    BY <2>1, <2>2, <2>3, <2>4, <2>5
<1>3. CASE RingNext /\ UNCHANGED client
  <2>1. PICK chunk \in Chunks : Push(chunk)
    BY <1>3 DEF RingNext
  <2>2. history' = history \o chunk /\ chunk \in Seq(Byte)
    BY <2>1, ChunksAssumption DEF Push, PushAs
  <2>3. SubSeq(history \o chunk, 1, cursor) = SubSeq(history, 1, cursor)
    <3>1. CASE cursor = 0
      BY <3>1, SubSeqEmpty
    <3>2. CASE cursor # 0
      BY <1>1, <2>2, <3>2, SubSeqOfConcat1
    <3> QED
      BY <3>1, <3>2
  <2> QED
    BY <1>3, <2>2, <2>3 DEF client
<1>4. CASE UNCHANGED <<ring, client>>
  BY <1>4 DEF ring, client
<1> QED
  BY <1>2, <1>3, <1>4 DEF Next

\* Whatever limits a client pages with, what it misses is behind a warning or a page
\* that is as long as its limit.
THEOREM GapsHaveSigns == Spec => []GapHasSign
<1>1. Init => GapHasSign
  BY SubSeqEmpty DEF Init, RingInit, GapHasSign
<1>2. RingInv /\ ClientInv /\ GapHasSign /\ [Next]_<<ring, client>> => GapHasSign'
  BY GapStep
<1> QED
  BY <1>1, <1>2, RingInvariant, ClientInvariant, PTL DEF Spec

-----------------------------------------------------------------------------
(* Prompts in the text of a command.                                       *)

\* A set of numbers that is not empty has a least one.
LEMMA MinOfSet ==
  ASSUME NEW S, S \subseteq Nat, S # {}
  PROVE  Min(S) \in S /\ \A x \in S : Min(S) <= x
<1>1. PICK x \in S : \A y \in S : ~(<<y, x>> \in OpToRel(<, Nat))
  BY NatLessThanWellFounded, WFMin, Zenon
<1>2. \A y \in S : ~(y < x)
  BY <1>1, Zenon DEF OpToRel
<1>3. \A y \in S : x =< y
  BY <1>2
<1> QED
  BY <1>3 DEF Min

\* And one with a bound has a greatest one.
LEMMA MaxOfSet ==
  ASSUME NEW S, NEW n \in Nat, S \subseteq 0..n, S # {}
  PROVE  Max(S) \in S /\ \A x \in S : x <= Max(S)
<1> DEFINE T == {n - x : x \in S}
<1>1. T \subseteq Nat
  OBVIOUS
<1>2. Min(T) \in T /\ \A y \in T : Min(T) <= y
  <2>1. T # {}
    OBVIOUS
  <2> HIDE DEF T
  <2> QED
    BY <1>1, <2>1, MinOfSet
<1>3. PICK x \in S : Min(T) = n - x
  BY <1>2
<1>4. \A y \in S : n - y \in T
  OBVIOUS
<1>5. \A y \in S : x >= y
  BY <1>2, <1>3, <1>4
<1> QED
  BY <1>5 DEF Max

\* The white space at the end of a text is what TrimEnd leaves out.
LEMMA TrimEndAt ==
  ASSUME NEW S, NEW s \in Seq(S), NEW n \in 0..Len(s),
         n > 0 => s[n] \notin White,
         \A i \in n + 1..Len(s) : s[i] \in White
  PROVE  TrimEnd(s) = SubSeq(s, 1, n)
<1> DEFINE T == {0} \cup {i \in DOMAIN s : s[i] \notin White}
<1>1. Len(s) \in Nat /\ DOMAIN s = 1..Len(s)
  BY LenProperties
<1>2. T \subseteq 0..Len(s) /\ T # {}
  BY <1>1
<1>3. Max(T) \in T /\ \A x \in T : x <= Max(T)
  BY <1>1, <1>2, MaxOfSet
<1>4. n \in T /\ \A x \in T : x <= n
  BY <1>1
<1>5. Max(T) = n
  BY <1>1, <1>2, <1>3, <1>4
<1> QED
  BY <1>5 DEF TrimEnd

LEMMA TrimEndExists ==
  ASSUME NEW S, NEW s \in Seq(S)
  PROVE  \E n \in 0..Len(s) : /\ n > 0 => s[n] \notin White
                              /\ \A i \in n + 1..Len(s) : s[i] \in White
<1> DEFINE T == {0} \cup {i \in DOMAIN s : s[i] \notin White}
<1>1. Len(s) \in Nat /\ DOMAIN s = 1..Len(s)
  BY LenProperties
<1>2. T \subseteq 0..Len(s) /\ T # {}
  BY <1>1
<1>3. Max(T) \in T /\ \A x \in T : x <= Max(T)
  BY <1>1, <1>2, MaxOfSet
<1>4. Max(T) \in 0..Len(s) /\ (Max(T) > 0 => s[Max(T)] \notin White)
  BY <1>2, <1>3
<1>5. \A i \in Max(T) + 1..Len(s) : s[i] \in White
  BY <1>1, <1>2, <1>3
<1> QED
  BY <1>4, <1>5

\* The newlines at the start are what TrimNewlines leaves out.
LEMMA TrimNewlinesAt ==
  ASSUME NEW S, NEW s \in Seq(S), NEW n \in 1..Len(s) + 1,
         n <= Len(s) => s[n] # "newline",
         \A i \in 1..n - 1 : s[i] = "newline"
  PROVE  TrimNewlines(s) = SubSeq(s, n, Len(s))
<1> DEFINE T == {Len(s) + 1} \cup {i \in DOMAIN s : s[i] # "newline"}
<1>1. Len(s) \in Nat /\ DOMAIN s = 1..Len(s)
  BY LenProperties
<1>2. T \subseteq Nat /\ T # {}
  BY <1>1
<1>3. Min(T) \in T /\ \A x \in T : Min(T) <= x
  BY <1>2, MinOfSet
<1>4. n \in T /\ \A x \in T : n <= x
  BY <1>1
<1>5. Min(T) = n
  BY <1>1, <1>2, <1>3, <1>4
<1> QED
  BY <1>5 DEF TrimNewlines

\* The chunks, one by one.
LEMMA Spellings ==
  /\ Kinds = {"prompt", "line", "frag", "blank", "echo", "like", "angle"}
  /\ Spelling["prompt"] = <<"label", "gt", "space">>
  /\ Spelling["line"] = <<"text", "newline">>
  /\ Spelling["frag"] = <<"text">>
  /\ Spelling["blank"] = <<"newline">>
  /\ Spelling["echo"] = <<"cmd", "newline">>
  /\ Spelling["like"] = <<"cmd", "text", "newline">>
  /\ Spelling["angle"] = <<"text", "gt", "newline">>
  /\ \A k \in Kinds : Spelling[k] \in Seq(Tokens)
<1>1. Kinds = {"prompt", "line", "frag", "blank", "echo", "like", "angle"}
  BY DEF Kinds, Spelling
<1>2. /\ Spelling["prompt"] = <<"label", "gt", "space">>
      /\ Spelling["line"] = <<"text", "newline">>
      /\ Spelling["frag"] = <<"text">>
      /\ Spelling["blank"] = <<"newline">>
      /\ Spelling["echo"] = <<"cmd", "newline">>
      /\ Spelling["like"] = <<"cmd", "text", "newline">>
      /\ Spelling["angle"] = <<"text", "gt", "newline">>
  BY DEF Spelling
<1>3. \A a, b, c \in Tokens : <<a>> \in Seq(Tokens) /\ <<a, b>> \in Seq(Tokens)
                              /\ <<a, b, c>> \in Seq(Tokens)
  OBVIOUS
<1>4. {"label", "gt", "space", "newline", "cmd", "text"} \subseteq Tokens
  BY DEF Tokens
<1>5. \A k \in Kinds : Spelling[k] \in Seq(Tokens)
  BY <1>1, <1>2, <1>3, <1>4
<1> QED
  BY <1>1, <1>2, <1>5

\* A text with one more chunk, token by token.
LEMMA WithChunk ==
  ASSUME NEW b \in Seq(Tokens), NEW k \in Kinds
  PROVE  LET s == b \o Spelling[k] IN
         /\ Len(b) \in Nat /\ s \in Seq(Tokens)
         /\ Len(s) = Len(b) + Len(Spelling[k]) /\ DOMAIN s = 1..Len(s)
         /\ \A i \in 1..Len(b) : s[i] = b[i]
         /\ k = "prompt" => /\ Len(s) = Len(b) + 3 /\ s[Len(b) + 1] = "label"
                            /\ s[Len(b) + 2] = "gt" /\ s[Len(b) + 3] = "space"
         /\ k = "blank" => Len(s) = Len(b) + 1 /\ s[Len(b) + 1] = "newline"
         /\ k = "frag" => Len(s) = Len(b) + 1 /\ s[Len(b) + 1] = "text"
         /\ k \in {"line", "echo"} =>
              /\ Len(s) = Len(b) + 2 /\ s[Len(b) + 2] = "newline"
              /\ s[Len(b) + 1] = IF k = "line" THEN "text" ELSE "cmd"
         /\ k \in {"like", "angle"} =>
              /\ Len(s) = Len(b) + 3 /\ s[Len(b) + 3] = "newline"
              /\ s[Len(b) + 1] = IF k = "like" THEN "cmd" ELSE "text"
              /\ s[Len(b) + 2] = IF k = "like" THEN "text" ELSE "gt"
<1> DEFINE s == b \o Spelling[k]
<1>1. Spelling[k] \in Seq(Tokens) /\ Len(Spelling[k]) \in Nat /\ Len(b) \in Nat
  BY Spellings, LenProperties
<1>2. /\ s \in Seq(Tokens) /\ Len(s) = Len(b) + Len(Spelling[k])
      /\ \A i \in 1..Len(b) + Len(Spelling[k]) :
           s[i] = IF i <= Len(b) THEN b[i] ELSE Spelling[k][i - Len(b)]
  BY <1>1, ConcatProperties
<1>3. DOMAIN s = 1..Len(s)
  BY <1>2, LenProperties
<1>4. \A i \in 1..Len(b) : s[i] = b[i]
  BY <1>1, <1>2
<1>5. \A i \in 1..Len(Spelling[k]) : s[Len(b) + i] = Spelling[k][i]
  BY <1>1, <1>2
<1> HIDE DEF s
<1>6. CASE k = "prompt"
  BY <1>1, <1>2, <1>3, <1>4, <1>5, <1>6, Spellings
<1>7. CASE k = "blank"
  BY <1>1, <1>2, <1>3, <1>4, <1>5, <1>7, Spellings
<1>8. CASE k = "frag"
  BY <1>1, <1>2, <1>3, <1>4, <1>5, <1>8, Spellings
<1>9. CASE k = "line"
  BY <1>1, <1>2, <1>3, <1>4, <1>5, <1>9, Spellings
<1>10. CASE k = "echo"
  BY <1>1, <1>2, <1>3, <1>4, <1>5, <1>10, Spellings
<1>11. CASE k = "like"
  BY <1>1, <1>2, <1>3, <1>4, <1>5, <1>11, Spellings
<1>12. CASE k = "angle"
  BY <1>1, <1>2, <1>3, <1>4, <1>5, <1>12, Spellings
<1> QED
  BY <1>6, <1>7, <1>8, <1>9, <1>10, <1>11, <1>12, Spellings DEF s

\* Where a match begins.
LEMMA MatchesArePositions ==
  ASSUME NEW s \in Seq(Tokens)
  PROVE  Matches(s) \subseteq Nat \ {0}
<1>1. DOMAIN s = 1..Len(s) /\ Len(s) \in Nat
  BY LenProperties
<1>2. ASSUME NEW i \in DOMAIN s, NEW x \in Starts(s, i)
      PROVE  x \in Nat \ {0}
  <2>1. i \in Nat \ {0}
    BY <1>1
  <2>2. \/ x = i - 2 /\ x > 0
        \/ x = i - 1 /\ x > 0
        \/ x = i
    BY <1>2 DEF Starts, AfterPrompt, AtNewline, AtStart
  <2> QED
    BY <2>1, <2>2
<1>3. ASSUME NEW x \in Matches(s)
      PROVE  \E i \in DOMAIN s : x \in Starts(s, i)
  BY <1>3 DEF Matches
<1>4. ASSUME NEW x \in Matches(s)
      PROVE  x \in Nat \ {0}
  BY <1>2, <1>3
<1> QED
  BY <1>4

LEMMA FoundIfMatch ==
  ASSUME NEW s \in Seq(Tokens)
  PROVE  /\ FindPrompt(s) > 0 <=> Matches(s) # {}
         /\ Matches(s) # {} => /\ FindPrompt(s) \in Matches(s)
                               /\ \A x \in Matches(s) : FindPrompt(s) <= x
BY MatchesArePositions, MinOfSet DEF FindPrompt

\* After the text of a line there is no prompt, but at a label.
LEMMA NoPromptAfterText ==
  ASSUME NEW s \in Seq(Tokens), NEW j \in 1..Len(s), s[j] \in {"text", "cmd"},
         \A i \in j + 1..Len(s) : s[i] # "label"
  PROVE  Matches(s) = {}
<1>1. DOMAIN s = 1..Len(s) /\ Len(s) \in Nat
  BY LenProperties
<1>2. ASSUME NEW i \in DOMAIN s, PromptAt(s, i)
      PROVE  FALSE
  <2>1. i < Len(s) /\ s[i] = "label" /\ s[i + 1] = "gt"
        /\ \A n \in i + 2..Len(s) : s[n] \in White
    BY <1>2 DEF PromptAt
  <2>2. i < j /\ i + 1 # j
    BY <1>1, <2>1
  <2>3. j \in i + 2..Len(s)
    BY <1>1, <2>2
  <2> QED
    BY <2>1, <2>3 DEF White
<1> QED
  BY <1>2 DEF Matches

\* A prompt at the end is the only one that can match, with what is before it.
LEMMA MatchOfLastPrompt ==
  ASSUME NEW s \in Seq(Tokens), NEW b \in Nat, Len(s) = b + 3,
         s[b + 1] = "label", s[b + 2] = "gt", s[b + 3] = "space"
  PROVE  Matches(s) = Starts(s, b + 1)
<1>1. DOMAIN s = 1..b + 3
  BY LenProperties
<1>2. PromptAt(s, b + 1)
  BY DEF PromptAt, White
<1>3. ASSUME NEW i \in DOMAIN s, PromptAt(s, i)
      PROVE  i = b + 1
  <2>1. i < b + 3 /\ s[i] = "label" /\ s[i + 1] = "gt"
        /\ \A n \in i + 2..b + 3 : s[n] \in White
    BY <1>3 DEF PromptAt
  <2>2. i # b + 2 /\ i + 1 # b + 1
    BY <2>1
  <2>3. ~(i < b)
    <3>1. i < b => b + 1 \in i + 2..b + 3
      BY <1>1
    <3> QED
      BY <2>1, <3>1 DEF White
  <2> QED
    BY <1>1, <2>1, <2>2, <2>3
<1>4. {i \in DOMAIN s : PromptAt(s, i)} = {b + 1}
  BY <1>1, <1>2, <1>3
<1> QED
  BY <1>4 DEF Matches

\* An empty line changes no match.
LEMMA BlankKeepsMatches ==
  ASSUME NEW b \in Seq(Tokens)
  PROVE  Matches(b \o Spelling["blank"]) = Matches(b)
<1> DEFINE s == b \o Spelling["blank"]
<1>1. /\ Len(b) \in Nat /\ s \in Seq(Tokens) /\ Len(s) = Len(b) + 1
      /\ DOMAIN s = 1..Len(s) /\ DOMAIN b = 1..Len(b)
      /\ s[Len(b) + 1] = "newline" /\ \A i \in 1..Len(b) : s[i] = b[i]
  BY WithChunk, Spellings, LenProperties
<1> HIDE DEF s
<1>2. ASSUME NEW i \in DOMAIN s
      PROVE  PromptAt(s, i) <=> i \in DOMAIN b /\ PromptAt(b, i)
  <2>1. CASE i < Len(b)
    <3>1. s[i] = b[i] /\ s[i + 1] = b[i + 1] /\ i \in DOMAIN b
      BY <1>1, <2>1
    <3>2. (\A n \in i + 2..Len(s) : s[n] \in White)
            <=> (\A n \in i + 2..Len(b) : b[n] \in White)
      BY <1>1 DEF White
    <3> QED
      BY <1>1, <2>1, <3>1, <3>2 DEF PromptAt
  <2>2. CASE i >= Len(b)
    <3>1. ~PromptAt(s, i)
      BY <1>1, <2>2 DEF PromptAt
    <3>2. ~PromptAt(b, i)
      BY <1>1, <2>2 DEF PromptAt
    <3> QED
      BY <3>1, <3>2
  <2> QED
    BY <1>1, <2>1, <2>2
<1>3. {i \in DOMAIN s : PromptAt(s, i)} = {i \in DOMAIN b : PromptAt(b, i)}
  BY <1>1, <1>2
<1>4. \A i \in DOMAIN b : PromptAt(b, i) => Starts(s, i) = Starts(b, i)
  <2>1. ASSUME NEW i \in DOMAIN b, PromptAt(b, i)
        PROVE  Starts(s, i) = Starts(b, i)
    <3>1. i \in 1..Len(b)
      BY <1>1
    <3>2. AfterPrompt(s, i) = AfterPrompt(b, i)
      BY <1>1, <3>1 DEF AfterPrompt
    <3>3. AtNewline(s, i) = AtNewline(b, i)
      BY <1>1, <3>1 DEF AtNewline
    <3> QED
      BY <3>2, <3>3 DEF Starts
  <2> QED
    BY <2>1
<1>5. Matches(s) = Matches(b)
  BY <1>3, <1>4 DEF Matches
<1> QED
  BY <1>5 DEF s

\* What a chunk does to the matches.
LEMMA MatchesWithChunk ==
  ASSUME NEW b \in Seq(Tokens), NEW k \in Kinds
  PROVE  LET s == b \o Spelling[k] IN
         /\ k = "blank" => Matches(s) = Matches(b)
         /\ k = "prompt" => Matches(s) = Starts(s, Len(b) + 1)
         /\ k \notin {"blank", "prompt"} => Matches(s) = {}
<1> DEFINE s == b \o Spelling[k]
           l == Len(b)
<1>1. /\ l \in Nat /\ s \in Seq(Tokens)
      /\ k = "prompt" => /\ Len(s) = l + 3 /\ s[l + 1] = "label"
                         /\ s[l + 2] = "gt" /\ s[l + 3] = "space"
  BY WithChunk
<1>2. CASE k = "blank"
  BY <1>2, BlankKeepsMatches
<1>3. CASE k = "prompt"
  <2> HIDE DEF s, l
  <2>1. Matches(s) = Starts(s, l + 1)
    BY <1>1, <1>3, MatchOfLastPrompt
  <2> QED
    BY <2>1, <1>3 DEF s, l
<1>4. CASE k \notin {"blank", "prompt"}
  <2>1. /\ l + 1 \in 1..Len(s) /\ s[l + 1] \in {"text", "cmd"}
        /\ \A i \in l + 2..Len(s) : s[i] # "label"
    <3>1. CASE k = "frag"
      BY <3>1, WithChunk, <1>1
    <3>2. CASE k = "line"
      BY <3>2, WithChunk, <1>1
    <3>3. CASE k = "echo"
      BY <3>3, WithChunk, <1>1
    <3>4. CASE k = "like"
      <4>1. /\ Len(s) = l + 3 /\ s[l + 1] = "cmd"
            /\ s[l + 2] = "text" /\ s[l + 3] = "newline"
        BY <3>4, WithChunk
      <4> HIDE DEF s, l
      <4> QED
        BY <1>1, <4>1
    <3>5. CASE k = "angle"
      <4>1. /\ Len(s) = l + 3 /\ s[l + 1] = "text"
            /\ s[l + 2] = "gt" /\ s[l + 3] = "newline"
        BY <3>5, WithChunk
      <4> HIDE DEF s, l
      <4> QED
        BY <1>1, <4>1
    <3> QED
      BY <1>4, <3>1, <3>2, <3>3, <3>4, <3>5, Spellings
  <2> HIDE DEF s, l
  <2>2. Matches(s) = {}
    BY <1>1, <2>1, NoPromptAfterText
  <2> QED
    BY <1>4, <2>2 DEF s
<1> QED
  BY <1>2, <1>3, <1>4

\* CdbSession's rule, on the kinds of the chunks.
LEMMA RuleOnKinds ==
  ASSUME NEW c \in Seq(Kinds)
  PROVE  EndsAtPrompt([i \in DOMAIN c |-> [kind |-> c[i]]])
           <=> \E i \in 1..Len(c) :
                 /\ c[i] = "prompt"
                 /\ i > 1 => c[i - 1] # "frag"
                 /\ \A j \in i + 1..Len(c) : c[j] = "blank"
<1> DEFINE r == [i \in DOMAIN c |-> [kind |-> c[i]]]
<1>1. DOMAIN c = 1..Len(c) /\ Len(c) \in Nat
  BY LenProperties
<1>2. DOMAIN r = 1..Len(c) /\ \A i \in 1..Len(c) : r[i].kind = c[i]
  BY <1>1
<1> HIDE DEF r
<1>3. ASSUME NEW i \in 1..Len(c)
      PROVE  (\A j \in DOMAIN r : j > i => r[j].kind = "blank")
               <=> \A j \in i + 1..Len(c) : c[j] = "blank"
  BY <1>1, <1>2
<1>4. ASSUME NEW i \in 1..Len(c)
      PROVE  (i > 1 => r[i - 1].kind # "frag") <=> (i > 1 => c[i - 1] # "frag")
  BY <1>1, <1>2
<1>5. EndsAtPrompt(r)
        <=> \E i \in 1..Len(c) :
              /\ c[i] = "prompt"
              /\ i > 1 => c[i - 1] # "frag"
              /\ \A j \in i + 1..Len(c) : c[j] = "blank"
  BY <1>2, <1>3, <1>4 DEF EndsAtPrompt
<1> QED
  BY <1>5 DEF r

\* The text ends with the last chunk.
LastChunk ==
  IF chunks = <<>> THEN text = <<>> /\ before = <<>>
                   ELSE text = before \o Spelling[chunks[Len(chunks)]]

\* How the text ends after a chunk that is no prompt, or is one.
LEMMA TextEnds ==
  ASSUME TextTypeOK, LastChunk, chunks # <<>>
  PROVE  LET k == chunks[Len(chunks)] IN
         /\ k \in Kinds /\ Len(text) \in Nat
         /\ k = "frag" => Len(text) > 0 /\ text[Len(text)] = "text"
         /\ k = "prompt" => /\ Len(text) > 1 /\ text[Len(text) - 1] = "gt"
                            /\ text[Len(text)] = "space"
         /\ k \notin {"frag", "prompt"} =>
              Len(text) > 0 /\ text[Len(text)] = "newline"
<1> DEFINE k == chunks[Len(chunks)]
<1>1. k \in Kinds /\ before \in Seq(Tokens) /\ text = before \o Spelling[k]
  BY EmptySeq, ElementOfSeq DEF TextTypeOK, LastChunk
<1> HIDE DEF k
<1>2. Len(before) \in Nat /\ Len(text) \in Nat
  BY <1>1, LenProperties DEF TextTypeOK
<1>3. CASE k = "frag"
  BY <1>1, <1>2, <1>3, WithChunk DEF k
<1>4. CASE k = "prompt"
  <2>1. /\ Len(text) = Len(before) + 3
        /\ text[Len(before) + 2] = "gt" /\ text[Len(before) + 3] = "space"
    BY <1>1, <1>4, WithChunk
  <2>2. Len(text) - 1 = Len(before) + 2
    BY <1>2, <2>1
  <2> QED
    BY <1>1, <1>2, <1>4, <2>1, <2>2 DEF k
<1>5. CASE k \in {"line", "echo"}
  BY <1>1, <1>2, <1>5, WithChunk DEF k
<1>6. CASE k \in {"like", "angle"}
  BY <1>1, <1>2, <1>6, WithChunk DEF k
<1>7. CASE k = "blank"
  BY <1>1, <1>2, <1>7, WithChunk DEF k
<1> QED
  BY <1>1, <1>2, <1>3, <1>4, <1>5, <1>6, <1>7, Spellings DEF k

LEMMA RuleNext ==
  ASSUME TextTypeOK, LastChunk, RuleIsThePattern, NEW kind \in Kinds, Receive(kind)
  PROVE  RuleIsThePattern'
<1> DEFINE n == Len(chunks)
           l == Len(text)
           At(c, i) == /\ c[i] = "prompt"
                       /\ i > 1 => c[i - 1] # "frag"
                       /\ \A j \in i + 1..Len(c) : c[j] = "blank"
<1>1. /\ chunks \in Seq(Kinds) /\ n \in Nat /\ text \in Seq(Tokens) /\ l \in Nat
      /\ chunks = <<>> <=> n = 0
  BY LenProperties, EmptySeq DEF TextTypeOK
<1>2. /\ chunks' \in Seq(Kinds) /\ Len(chunks') = n + 1 /\ chunks'[n + 1] = kind
      /\ \A i \in 1..n : chunks'[i] = chunks[i]
  BY <1>1, AppendProperties DEF Receive
<1>3. text' = text \o Spelling[kind] /\ text' \in Seq(Tokens)
  BY <1>1, WithChunk DEF Receive
<1>4. EndsAtPrompt([i \in DOMAIN chunks |-> [kind |-> chunks[i]]])
        <=> \E i \in 1..n : At(chunks, i)
  BY <1>1, RuleOnKinds
<1>5. EndsAtPrompt([i \in DOMAIN chunks' |-> [kind |-> chunks'[i]]])
        <=> \E i \in 1..n + 1 : At(chunks', i)
  BY <1>2, RuleOnKinds
<1>6. (\E i \in 1..n + 1 : At(chunks', i)) <=> FindPrompt(text') > 0
  <2>1. CASE kind = "blank"
    <3>1. Matches(text') = Matches(text)
      BY <1>1, <1>3, <2>1, MatchesWithChunk
    <3>2. (\E i \in 1..n + 1 : At(chunks', i)) <=> (\E i \in 1..n : At(chunks, i))
      <4>1. ~At(chunks', n + 1)
        BY <1>2, <2>1
      <4>2. ASSUME NEW i \in 1..n
            PROVE  At(chunks', i) <=> At(chunks, i)
        BY <1>1, <1>2, <2>1
      <4>3. 1..n + 1 = 1..n \cup {n + 1}
        BY <1>1
      <4> HIDE DEF At
      <4> QED
        BY <4>1, <4>2, <4>3
    <3> QED
      BY <1>4, <3>1, <3>2 DEF RuleIsThePattern, FindPrompt
  <2>2. CASE kind = "prompt"
    <3>1. (\E i \in 1..n + 1 : At(chunks', i)) <=> n = 0 \/ chunks[n] # "frag"
      <4>1. At(chunks', n + 1) <=> (n = 0 \/ chunks[n] # "frag")
        BY <1>1, <1>2, <2>2
      <4>2. \A i \in 1..n : ~At(chunks', i)
        BY <1>1, <1>2, <2>2
      <4> HIDE DEF At
      <4> QED
        BY <1>1, <4>1, <4>2
    <3>2. Matches(text') # {} <=> n = 0 \/ chunks[n] # "frag"
      <4>1. Matches(text') = Starts(text', l + 1)
        BY <1>1, <1>3, <2>2, MatchesWithChunk
      <4>2. \A i \in 1..l : text'[i] = text[i]
        BY <1>1, <1>3, WithChunk
      <4>3. CASE n = 0
        <5>1. l = 0
          BY <1>1, <4>3, EmptySeq DEF LastChunk
        <5>2. 1 \in Starts(text', l + 1)
          BY <5>1 DEF Starts, AtStart
        <5> QED
          BY <4>1, <4>3, <5>2
      <4>4. CASE n # 0 /\ chunks[n] = "frag"
        <5>1. l > 0 /\ text'[l] = "text"
          BY <1>1, <4>2, <4>4, TextEnds
        <5>2. Starts(text', l + 1) = {}
          BY <1>1, <5>1 DEF Starts, AfterPrompt, AtNewline, AtStart, White
        <5> QED
          BY <4>1, <4>4, <5>2
      <4>5. CASE n # 0 /\ chunks[n] = "prompt"
        <5>1. l > 1 /\ text'[l - 1] = "gt" /\ text'[l] = "space"
          BY <1>1, <4>2, <4>5, TextEnds
        <5>2. l - 1 \in Starts(text', l + 1)
          BY <1>1, <5>1 DEF Starts, AfterPrompt, White
        <5> QED
          BY <4>1, <4>5, <5>2
      <4>6. CASE n # 0 /\ chunks[n] \notin {"frag", "prompt"}
        <5>1. l > 0 /\ text'[l] = "newline"
          BY <1>1, <4>2, <4>6, TextEnds
        <5>2. l \in Starts(text', l + 1)
          BY <1>1, <5>1 DEF Starts, AtNewline
        <5> QED
          BY <4>1, <4>6, <5>2
      <4> QED
        BY <4>3, <4>4, <4>5, <4>6
    <3> QED
      BY <1>3, <3>1, <3>2, FoundIfMatch
  <2>3. CASE kind \notin {"blank", "prompt"}
    <3>1. \A i \in 1..n + 1 : ~At(chunks', i)
      BY <1>1, <1>2, <2>3
    <3>2. Matches(text') = {}
      BY <1>1, <1>3, <2>3, MatchesWithChunk
    <3> QED
      BY <3>1, <3>2 DEF FindPrompt
  <2> QED
    BY <2>1, <2>2, <2>3
<1> QED
  BY <1>5, <1>6 DEF RuleIsThePattern

\* How a text begins whose echo ends at e: with empty lines only, with anything
\* else but the command, with text that begins like the command, or the echo.
BeginsWith(s, p, t) ==
  /\ p \in 1..Len(s) /\ s[p] = t
  /\ \A i \in 1..p - 1 : s[i] = "newline"

Beginning(s, e) ==
  \/ e = 0 /\ \A i \in 1..Len(s) : s[i] = "newline"
  \/ /\ e = 0
     /\ \E p \in 1..Len(s), t \in Tokens \ {"newline", "cmd"} : BeginsWith(s, p, t)
  \/ e = 0 /\ \E p \in 1..Len(s) - 1 : BeginsWith(s, p, "cmd") /\ s[p + 1] = "text"
  \/ e \in 2..Len(s) /\ BeginsWith(s, e - 1, "cmd") /\ s[e] = "newline"

\* Only the echo, or text that looks like it, has the command's text at its
\* beginning, and echoed says which.
LEMMA BeginningNext ==
  ASSUME TextTypeOK, Beginning(text, echoed), NEW kind \in Kinds, Receive(kind)
  PROVE  Beginning(text', echoed')
<1> DEFINE l == Len(text)
           s == text \o Spelling[kind]
<1>1. /\ text \in Seq(Tokens) /\ l \in Nat /\ s \in Seq(Tokens) /\ Len(s) \in Nat
      /\ Len(s) > l /\ \A i \in 1..l : s[i] = text[i]
      /\ DOMAIN text = 1..l
  <2>1. /\ text \in Seq(Tokens) /\ l \in Nat /\ s \in Seq(Tokens)
        /\ \A i \in 1..l : s[i] = text[i]
        /\ Len(s) = l + Len(Spelling[kind])
    BY WithChunk DEF TextTypeOK
  <2>2. Len(Spelling[kind]) \in Nat \ {0}
    BY Spellings, EmptySeq
  <2> QED
    BY <2>1, <2>2, LenProperties
<1>2. text' = s
  BY DEF Receive
<1>3. echoed' = IF kind = "echo" /\ NothingYet THEN l + 2 ELSE echoed
  BY DEF Receive
<1>4. ASSUME NEW p \in 1..l, NEW t, BeginsWith(text, p, t)
      PROVE  BeginsWith(s, p, t)
  BY <1>1, <1>4 DEF BeginsWith
<1>5. ASSUME NEW p \in 1..l, NEW t, t # "newline", BeginsWith(text, p, t)
      PROVE  echoed' = echoed
  BY <1>1, <1>3, <1>5 DEF BeginsWith, NothingYet
<1>6. CASE echoed = 0 /\ \A i \in 1..l : text[i] = "newline"
  <2>1. NothingYet
    BY <1>1, <1>6 DEF NothingYet
  <2>2. \A i \in 1..l : s[i] = "newline"
    BY <1>1, <1>6
  <2>3. \A t \in Tokens : s[l + 1] = t => BeginsWith(s, l + 1, t)
    BY <1>1, <2>2 DEF BeginsWith
  <2>4. CASE kind = "blank"
    <3>1. Len(s) = l + 1 /\ s[l + 1] = "newline"
      BY <1>1, <2>4, WithChunk
    <3> HIDE DEF s, l
    <3>2. \A i \in 1..Len(s) : s[i] = "newline"
      BY <1>1, <2>2, <3>1
    <3>3. echoed' = 0
      BY <1>3, <1>6, <2>4
    <3> QED
      BY <1>2, <3>2, <3>3 DEF Beginning
  <2>5. CASE kind \in {"prompt", "line", "frag", "angle"}
    <3>1. s[l + 1] \in {"label", "text"}
      <4>1. CASE kind = "prompt"
        BY <1>1, <4>1, WithChunk
      <4>2. CASE kind = "line"
        BY <1>1, <4>2, WithChunk
      <4>3. CASE kind = "frag"
        BY <1>1, <4>3, WithChunk
      <4>4. CASE kind = "angle"
        BY <1>1, <4>4, WithChunk
      <4> QED
        BY <2>5, <4>1, <4>2, <4>3, <4>4
    <3>2. echoed' = 0
      BY <1>3, <1>6, <2>5
    <3> HIDE DEF s, l
    <3>3. l + 1 \in 1..Len(s) /\ s[l + 1] \in Tokens \ {"newline", "cmd"}
      BY <1>1, <3>1 DEF Tokens
    <3>4. BeginsWith(s, l + 1, s[l + 1])
      BY <2>3, <3>3
    <3> QED
      BY <1>2, <3>2, <3>3, <3>4 DEF Beginning
  <2>6. CASE kind = "like"
    <3>1. Len(s) = l + 3 /\ s[l + 1] = "cmd" /\ s[l + 2] = "text"
      BY <1>1, <2>6, WithChunk
    <3>2. echoed' = 0
      BY <1>3, <1>6, <2>6
    <3> HIDE DEF s, l
    <3>3. l + 1 \in 1..Len(s) - 1 /\ s[l + 1 + 1] = "text"
      BY <1>1, <3>1
    <3>4. BeginsWith(s, l + 1, "cmd")
      BY <2>3, <3>1 DEF Tokens
    <3>5. \E p \in 1..Len(s) - 1 : BeginsWith(s, p, "cmd") /\ s[p + 1] = "text"
      BY <3>3, <3>4
    <3> QED
      BY <1>2, <3>2, <3>5 DEF Beginning
  <2>7. CASE kind = "echo"
    <3>1. Len(s) = l + 2 /\ s[l + 1] = "cmd" /\ s[l + 2] = "newline"
      BY <1>1, <2>7, WithChunk
    <3>2. echoed' = l + 2
      BY <1>3, <2>1, <2>7
    <3> HIDE DEF s, l
    <3>3. l + 2 \in 2..Len(s) /\ l + 2 - 1 = l + 1
      BY <1>1, <3>1
    <3>4. BeginsWith(s, l + 2 - 1, "cmd")
      BY <2>3, <3>1, <3>3 DEF Tokens
    <3>5. Beginning(s, l + 2)
      BY <1>1, <3>1, <3>3, <3>4 DEF Beginning
    <3> QED
      BY <1>2, <3>2, <3>5
  <2> QED
    BY <2>4, <2>5, <2>6, <2>7, Spellings
<1> HIDE DEF s
<1>7. ASSUME echoed = 0, NEW p \in 1..l, NEW t \in Tokens \ {"newline", "cmd"},
             BeginsWith(text, p, t)
      PROVE  Beginning(text', echoed')
  <2>1. p \in 1..Len(s) /\ BeginsWith(s, p, t) /\ echoed' = 0
    BY <1>1, <1>4, <1>5, <1>7
  <2> QED
    BY <1>2, <2>1 DEF Beginning
<1>8. ASSUME echoed = 0, NEW p \in 1..l - 1, BeginsWith(text, p, "cmd"),
             text[p + 1] = "text"
      PROVE  Beginning(text', echoed')
  <2>1. p \in 1..l /\ p \in 1..Len(s) - 1 /\ s[p + 1] = "text"
    BY <1>1, <1>8
  <2>2. BeginsWith(s, p, "cmd") /\ echoed' = 0
    BY <1>4, <1>5, <1>8, <2>1
  <2> QED
    BY <1>2, <2>1, <2>2 DEF Beginning
<1>9. ASSUME echoed \in 2..l, BeginsWith(text, echoed - 1, "cmd"),
             text[echoed] = "newline"
      PROVE  Beginning(text', echoed')
  <2>1. echoed - 1 \in 1..l /\ echoed \in 2..Len(s) /\ s[echoed] = "newline"
    BY <1>1, <1>9
  <2>2. BeginsWith(s, echoed - 1, "cmd") /\ echoed' = echoed
    BY <1>4, <1>5, <1>9, <2>1
  <2> QED
    BY <1>2, <2>1, <2>2 DEF Beginning
<1> QED
  BY <1>6, <1>7, <1>8, <1>9 DEF Beginning

\* White space at the end makes no difference to TrimEnd.
LEMMA TrimEndOfLonger ==
  ASSUME NEW s \in Seq(Tokens), NEW n \in 1..Len(s), NEW m \in 1..n, s[n] \in White
  PROVE  TrimEnd(SubSeq(s, m, n)) = TrimEnd(SubSeq(s, m, n - 1))
<1> DEFINE x == SubSeq(s, m, n)
           y == SubSeq(s, m, n - 1)
           d == n - m
<1>1. Len(s) \in Nat /\ \A i \in 1..Len(s) : s[i] \in Tokens
  BY LenProperties, ElementOfSeq
<1>2. /\ x \in Seq(Tokens) /\ Len(x) = d + 1
      /\ \A i \in 1..d + 1 : x[i] = s[m + i - 1]
  <2>1. \A i \in m..n : s[i] \in Tokens
    BY <1>1
  <2>2. n - m + 1 = d + 1 /\ m <= n /\ m \in Int /\ n \in Int
    BY <1>1
  <2> HIDE DEF d
  <2> QED
    BY <2>1, <2>2, SubSeqProperties
<1>3. /\ y \in Seq(Tokens) /\ Len(y) = d
      /\ \A i \in 1..d : y[i] = s[m + i - 1]
  <2>1. \A i \in m..n - 1 : s[i] \in Tokens
    BY <1>1
  <2>2. /\ n - 1 - m + 1 = d /\ m \in Int /\ n - 1 \in Int
        /\ (IF m <= n - 1 THEN n - 1 - m + 1 ELSE 0) = d
    BY <1>1
  <2> HIDE DEF d
  <2> QED
    BY <2>1, <2>2, SubSeqProperties
<1>4. d \in Nat /\ x[d + 1] = s[n]
  BY <1>1, <1>2
<1> HIDE DEF x, y, d
<1>5. ASSUME NEW i \in 1..d
      PROVE  x[i] = y[i]
  <2>1. i \in 1..d + 1
    BY <1>4
  <2>2. x[i] = s[m + i - 1] /\ y[i] = s[m + i - 1]
    BY <1>2, <1>3, <2>1
  <2> QED
    BY <2>2
<1>6. PICK k \in 0..d : /\ k > 0 => y[k] \notin White
                        /\ \A i \in k + 1..d : y[i] \in White
  BY <1>3, TrimEndExists
<1>7. TrimEnd(y) = SubSeq(y, 1, k)
  BY <1>3, <1>6, TrimEndAt
<1>8. TrimEnd(x) = SubSeq(x, 1, k)
  <2>1. k \in 0..Len(x) /\ (k > 0 => x[k] \notin White)
    BY <1>2, <1>4, <1>5, <1>6
  <2>2. \A i \in k + 1..Len(x) : x[i] \in White
    BY <1>2, <1>4, <1>5, <1>6
  <2> QED
    BY <1>2, <2>1, <2>2, TrimEndAt
<1>9. SubSeq(x, 1, k) = SubSeq(y, 1, k)
  <2>1. ASSUME NEW i \in 1..k
        PROVE  x[i] \in Tokens /\ y[i] \in Tokens /\ x[i] = y[i]
    <3>1. i \in 1..d /\ i \in 1..d + 1
      BY <1>4
    <3>2. x[i] \in Tokens
      BY <1>2, <3>1, ElementOfSeq
    <3>3. y[i] \in Tokens
      BY <1>3, <3>1, ElementOfSeq
    <3> QED
      BY <1>5, <3>1, <3>2, <3>3
  <2>2. /\ SubSeq(x, 1, k) \in Seq(Tokens) /\ SubSeq(y, 1, k) \in Seq(Tokens)
        /\ Len(SubSeq(x, 1, k)) = k /\ Len(SubSeq(y, 1, k)) = k
        /\ \A i \in 1..k : SubSeq(x, 1, k)[i] = x[i] /\ SubSeq(y, 1, k)[i] = y[i]
    BY <1>4, <2>1, SubSeqProperties
  <2> QED
    BY <2>1, <2>2, SeqEqual
<1> QED
  BY <1>7, <1>8, <1>9 DEF x, y

\* The candidates of clean_command_output.
Candidates == <<<<"cmd", "newline">>, <<"cmd">>>>

LEMMA WithoutEchoIs ==
  ASSUME NEW s, TrimNewlines(s) \in Seq(Tokens)
  PROVE  LET t == TrimNewlines(s) IN
         /\ (Len(t) = 0 \/ t[1] # "cmd") => WithoutEcho(s, Candidates) = s
         /\ (Len(t) > 1 /\ t[1] = "cmd" /\ t[2] = "newline")
              => WithoutEcho(s, Candidates) = SubSeq(t, 3, Len(t))
         /\ (Len(t) = 1 /\ t[1] = "cmd")
              => WithoutEcho(s, Candidates) = SubSeq(t, 2, 1)
<1> DEFINE t == TrimNewlines(s)
           found == {i \in DOMAIN Candidates : IsPrefix(Candidates[i], t)}
<1>1. /\ DOMAIN Candidates = {1, 2} /\ Candidates[1] = <<"cmd", "newline">>
      /\ Candidates[2] = <<"cmd">> /\ Len(Candidates[1]) = 2 /\ Len(Candidates[2]) = 1
  BY DEF Candidates
<1>2. t \in Seq(Tokens) /\ Len(t) \in Nat /\ \A i \in 1..Len(t) : t[i] \in Tokens
  BY LenProperties, ElementOfSeq
<1>3. WithoutEcho(s, Candidates)
        = IF found = {} THEN s
          ELSE SubSeq(t, Len(Candidates[Min(found)]) + 1, Len(t))
  BY DEF WithoutEcho
<1> HIDE DEF t
<1>4. \A n \in 1..Len(t) : /\ SubSeq(t, 1, n) \in Seq(Tokens) /\ Len(SubSeq(t, 1, n)) = n
                           /\ \A i \in 1..n : SubSeq(t, 1, n)[i] = t[i]
  <2>1. ASSUME NEW n \in 1..Len(t)
        PROVE  /\ SubSeq(t, 1, n) \in Seq(Tokens) /\ Len(SubSeq(t, 1, n)) = n
               /\ \A i \in 1..n : SubSeq(t, 1, n)[i] = t[i]
    <3>1. \A i \in 1..n : t[i] \in Tokens
      BY <1>2
    <3> QED
      BY <3>1, SubSeqProperties
  <2> QED
    BY <2>1
<1>5. IsPrefix(<<"cmd">>, t) <=> Len(t) >= 1 /\ t[1] = "cmd"
  <2> DEFINE c == <<"cmd">>
  <2>1. c \in Seq(Tokens) /\ Len(c) = 1 /\ c[1] = "cmd"
    BY DEF Tokens
  <2> HIDE DEF c
  <2>2. SubSeq(c, 1, 1) = c
    BY <2>1, SubSeqFull
  <2>3. CASE Len(t) >= 1
    <3>1. SubSeq(t, 1, 1) \in Seq(Tokens) /\ Len(SubSeq(t, 1, 1)) = 1
          /\ SubSeq(t, 1, 1)[1] = t[1]
      BY <1>2, <1>4, <2>3
    <3>2. t[1] = "cmd" => SubSeq(t, 1, 1) = c
      BY <2>1, <3>1, SeqEqual
    <3> QED
      BY <1>2, <2>1, <2>2, <2>3, <3>1, <3>2 DEF IsPrefix
  <2>4. CASE Len(t) < 1
    BY <1>2, <2>1, <2>4 DEF IsPrefix
  <2> QED
    BY <1>2, <2>3, <2>4 DEF c
<1>6. IsPrefix(<<"cmd", "newline">>, t)
        <=> Len(t) >= 2 /\ t[1] = "cmd" /\ t[2] = "newline"
  <2> DEFINE c == <<"cmd", "newline">>
  <2>1. c \in Seq(Tokens) /\ Len(c) = 2 /\ c[1] = "cmd" /\ c[2] = "newline"
    BY DEF Tokens
  <2> HIDE DEF c
  <2>2. SubSeq(c, 1, 2) = c
    BY <2>1, SubSeqFull
  <2>3. CASE Len(t) >= 2
    <3>1. /\ SubSeq(t, 1, 2) \in Seq(Tokens) /\ Len(SubSeq(t, 1, 2)) = 2
          /\ SubSeq(t, 1, 2)[1] = t[1] /\ SubSeq(t, 1, 2)[2] = t[2]
      BY <1>2, <1>4, <2>3
    <3>2. t[1] = "cmd" /\ t[2] = "newline" => SubSeq(t, 1, 2) = c
      BY <2>1, <3>1, SeqEqual
    <3> QED
      BY <1>2, <2>1, <2>2, <2>3, <3>1, <3>2 DEF IsPrefix
  <2>4. CASE Len(t) < 2
    BY <1>2, <2>1, <2>4 DEF IsPrefix
  <2> QED
    BY <1>2, <2>3, <2>4 DEF c
<1>7. ASSUME found # {}
      PROVE  Min(found) \in found /\ \A x \in found : Min(found) <= x
  <2>1. found \subseteq Nat
    BY <1>1
  <2> HIDE DEF found
  <2> QED
    BY <1>7, <2>1, MinOfSet
<1>8. found \subseteq {1, 2}
  BY <1>1
<1>9. /\ 1 \in found <=> Len(t) >= 2 /\ t[1] = "cmd" /\ t[2] = "newline"
      /\ 2 \in found <=> Len(t) >= 1 /\ t[1] = "cmd"
  BY <1>1, <1>5, <1>6
<1> HIDE DEF found
<1>10. CASE Len(t) = 0 \/ t[1] # "cmd"
  <2>1. found = {}
    BY <1>2, <1>8, <1>9, <1>10
  <2> QED
    BY <1>3, <1>10, <2>1 DEF t
<1>11. CASE Len(t) > 1 /\ t[1] = "cmd" /\ t[2] = "newline"
  <2>1. 1 \in found
    BY <1>2, <1>9, <1>11
  <2>2. Min(found) \in {1, 2} /\ Min(found) <= 1
    BY <1>7, <1>8, <2>1
  <2>3. Min(found) = 1
    BY <2>2
  <2>4. found # {}
    BY <2>1
  <2>5. Len(Candidates[Min(found)]) = 2
    BY <1>1, <2>3, Zenon
  <2>6. Len(Candidates[Min(found)]) + 1 = 3
    BY <2>5
  <2>7. WithoutEcho(s, Candidates) = SubSeq(t, 3, Len(t))
    BY <1>3, <2>4, <2>6
  <2> QED
    BY <1>11, <2>7 DEF t
<1>12. CASE Len(t) = 1 /\ t[1] = "cmd"
  <2>1. 2 \in found /\ 1 \notin found
    BY <1>2, <1>9, <1>12
  <2>2. Min(found) = 2
    BY <1>7, <1>8, <2>1
  <2> QED
    BY <1>1, <1>3, <1>9, <1>12, <2>1, <2>2 DEF t
<1> QED
  BY <1>10, <1>11, <1>12 DEF t

\* A piece of a text, token by token.
LEMMA Piece ==
  ASSUME NEW s \in Seq(Tokens), NEW m \in Nat \ {0}, NEW n \in Nat, n <= Len(s),
         m <= n + 1
  PROVE  /\ SubSeq(s, m, n) \in Seq(Tokens) /\ Len(SubSeq(s, m, n)) = n - m + 1
         /\ \A i \in 1..n - m + 1 : SubSeq(s, m, n)[i] = s[m + i - 1]
<1>1. Len(s) \in Nat
  BY LenProperties
<1>2. \A i \in m..n : s[i] \in Tokens
  BY <1>1, ElementOfSeq
<1>3. (IF m <= n THEN n - m + 1 ELSE 0) = n - m + 1
  OBVIOUS
<1> QED
  BY <1>2, <1>3, SubSeqProperties

\* The text of a command that ends its line before the prompt is stripped of the
\* prompt and of the echo.
LEMMA CleanOf ==
  ASSUME NEW b \in Seq(Tokens), NEW s \in Seq(Tokens), NEW e \in Nat, Beginning(b, e),
         Len(b) > 0, b[Len(b)] = "newline", Len(s) = Len(b) + 3,
         \A i \in 1..Len(b) : s[i] = b[i], FindPrompt(s) = Len(b),
         ~IsPrefix(<<"cmd", "text">>, TrimNewlines(s))
  PROVE  Clean(s) = TrimEnd(SubSeq(b, e + 1, Len(b)))
<1> DEFINE l == Len(b)
           c == SubSeq(s, 1, l - 1)
           t == TrimNewlines(c)
<1>1. l \in Nat \ {0} /\ l - 1 \in Nat
  BY LenProperties
<1>2. /\ c \in Seq(Tokens) /\ Len(c) = l - 1
      /\ \A i \in 1..l - 1 : c[i] = b[i]
  <2>1. /\ SubSeq(s, 1, l - 1) \in Seq(Tokens)
        /\ Len(SubSeq(s, 1, l - 1)) = l - 1 - 1 + 1
        /\ \A i \in 1..l - 1 - 1 + 1 : SubSeq(s, 1, l - 1)[i] = s[1 + i - 1]
    BY <1>1, Piece
  <2>2. l - 1 - 1 + 1 = l - 1 /\ \A i \in 1..l - 1 : 1 + i - 1 = i /\ i \in 1..l
    BY <1>1
  <2> HIDE DEF l
  <2> QED
    BY <2>1, <2>2 DEF l
<1>3. c = SubSeq(b, 1, l - 1)
  <2>1. /\ SubSeq(b, 1, l - 1) \in Seq(Tokens)
        /\ Len(SubSeq(b, 1, l - 1)) = l - 1 - 1 + 1
        /\ \A i \in 1..l - 1 - 1 + 1 : SubSeq(b, 1, l - 1)[i] = b[1 + i - 1]
    BY <1>1, Piece
  <2>2. l - 1 - 1 + 1 = l - 1 /\ \A i \in 1..l - 1 : 1 + i - 1 = i
    BY <1>1
  <2>3. Len(SubSeq(b, 1, l - 1)) = Len(c)
        /\ \A i \in 1..Len(c) : c[i] = SubSeq(b, 1, l - 1)[i]
    BY <1>2, <2>1, <2>2
  <2> HIDE DEF c, l
  <2> QED
    BY <1>2, <2>1, <2>3, SeqEqual
<1>4. Clean(s) = TrimEnd(WithoutEcho(c, Candidates))
  BY <1>1 DEF Clean, Content, Candidates
<1>5. TrimEnd(SubSeq(b, 1, l)) = TrimEnd(c)
  <2>1. l \in 1..Len(b) /\ 1 \in 1..l /\ b[l] \in White
    BY <1>1 DEF White
  <2>2. TrimEnd(SubSeq(b, 1, l)) = TrimEnd(SubSeq(b, 1, l - 1))
    BY <2>1, TrimEndOfLonger
  <2> HIDE DEF c, l
  <2> QED
    BY <1>3, <2>2
<1> HIDE DEF c
<1>6. ASSUME NEW p \in 1..l - 1, NEW x \in Tokens \ {"newline"}, BeginsWith(b, p, x)
      PROVE  /\ t \in Seq(Tokens) /\ Len(t) = l - p /\ t = SubSeq(c, p, l - 1)
             /\ \A i \in 1..l - p : t[i] = b[p + i - 1]
             /\ t[1] = x
  <2>1. p \in 1..Len(c) + 1 /\ c[p] = x /\ \A i \in 1..p - 1 : c[i] = "newline"
    BY <1>1, <1>2, <1>6 DEF BeginsWith
  <2>2. t = SubSeq(c, p, l - 1)
    BY <1>2, <2>1, TrimNewlinesAt
  <2>3. /\ SubSeq(c, p, l - 1) \in Seq(Tokens)
        /\ Len(SubSeq(c, p, l - 1)) = l - 1 - p + 1
        /\ \A i \in 1..l - 1 - p + 1 : SubSeq(c, p, l - 1)[i] = c[p + i - 1]
    BY <1>1, <1>2, Piece
  <2>4. l - 1 - p + 1 = l - p /\ \A i \in 1..l - p : p + i - 1 \in 1..l - 1
    BY <1>1
  <2>5. 1 \in 1..l - p /\ p + 1 - 1 = p
    BY <1>1
  <2> HIDE DEF t, l
  <2> QED
    BY <1>2, <2>1, <2>2, <2>3, <2>4, <2>5
<1>7. CASE e = 0 /\ \A i \in 1..l : b[i] = "newline"
  <2>1. t = SubSeq(c, l, l - 1)
    <3>1. l \in 1..Len(c) + 1 /\ ~(l <= Len(c)) /\ \A i \in 1..l - 1 : c[i] = "newline"
      BY <1>1, <1>2, <1>7
    <3> QED
      BY <1>2, <3>1, TrimNewlinesAt
  <2>2. t = <<>>
    BY <1>1, <2>1, SubSeqEmpty
  <2>3. t \in Seq(Tokens) /\ Len(t) = 0
    BY <2>2, EmptySeq
  <2>4. WithoutEcho(c, Candidates) = c
    BY <2>3, WithoutEchoIs
  <2> QED
    BY <1>4, <1>5, <1>7, <2>4
<1>8. ASSUME e = 0, NEW p \in 1..l, NEW x \in Tokens \ {"newline", "cmd"},
             BeginsWith(b, p, x)
      PROVE  Clean(s) = TrimEnd(SubSeq(b, e + 1, l))
  <2>1. p \in 1..l - 1
    BY <1>1, <1>8 DEF BeginsWith
  <2>2. t \in Seq(Tokens) /\ t[1] # "cmd"
    BY <1>6, <1>8, <2>1
  <2>3. WithoutEcho(c, Candidates) = c
    BY <2>2, WithoutEchoIs
  <2> QED
    BY <1>4, <1>5, <1>8, <2>3
<1>9. ASSUME NEW p \in 1..l - 1, BeginsWith(b, p, "cmd"), b[p + 1] = "text"
      PROVE  FALSE
  <2> DEFINE u == TrimNewlines(s)
             a == <<"cmd", "text">>
  <2>1. /\ p \in 1..Len(s) + 1 /\ s[p] = "cmd" /\ s[p + 1] = "text"
        /\ \A i \in 1..p - 1 : s[i] = "newline"
    BY <1>1, <1>9 DEF BeginsWith
  <2>2. u = SubSeq(s, p, Len(s))
    BY <2>1, TrimNewlinesAt
  <2>3. Len(s) \in Nat /\ p + 3 <= Len(s)
    BY <1>1
  <2>4. /\ u \in Seq(Tokens) /\ Len(u) = Len(s) - p + 1
        /\ \A i \in 1..Len(s) - p + 1 : u[i] = s[p + i - 1]
    BY <2>2, <2>3, Piece
  <2>5. 1 \in 1..Len(s) - p + 1 /\ 2 \in 1..Len(s) - p + 1
        /\ p + 1 - 1 = p /\ p + 2 - 1 = p + 1
    BY <2>3
  <2> HIDE DEF u
  <2>6. Len(u) >= 2 /\ Len(u) \in Nat /\ u[1] = "cmd" /\ u[2] = "text"
    BY <2>1, <2>3, <2>4, <2>5
  <2>7. /\ SubSeq(u, 1, 2) \in Seq(Tokens) /\ Len(SubSeq(u, 1, 2)) = 2 - 1 + 1
        /\ \A i \in 1..2 - 1 + 1 : SubSeq(u, 1, 2)[i] = u[1 + i - 1]
    BY <2>4, <2>6, Piece
  <2>8. Len(SubSeq(u, 1, 2)) = 2 /\ SubSeq(u, 1, 2)[1] = "cmd"
        /\ SubSeq(u, 1, 2)[2] = "text"
    BY <2>6, <2>7
  <2>9. a \in Seq(Tokens) /\ Len(a) = 2 /\ a[1] = "cmd" /\ a[2] = "text"
    BY DEF Tokens
  <2> HIDE DEF a
  <2>10. SubSeq(u, 1, 2) = a /\ SubSeq(a, 1, 2) = a
    BY <2>7, <2>8, <2>9, SeqEqual, SubSeqFull
  <2>11. IsPrefix(a, u)
    BY <2>6, <2>9, <2>10 DEF IsPrefix
  <2> QED
    BY <2>11 DEF a, u
<1>10. CASE e \in 2..l /\ BeginsWith(b, e - 1, "cmd") /\ b[e] = "newline"
  <2>1. e - 1 \in 1..l - 1
    BY <1>1, <1>10
  <2>2. /\ t \in Seq(Tokens) /\ Len(t) = l - (e - 1) /\ t = SubSeq(c, e - 1, l - 1)
        /\ \A i \in 1..l - (e - 1) : t[i] = b[e - 1 + i - 1]
        /\ t[1] = "cmd"
    BY <1>6, <1>10, <2>1 DEF Tokens
  <2>3. CASE e = l
    <3>1. Len(t) = 1
      BY <1>1, <2>2, <2>3
    <3>2. WithoutEcho(c, Candidates) = SubSeq(t, 2, 1)
      BY <2>2, <3>1, WithoutEchoIs
    <3>3. SubSeq(t, 2, 1) = <<>> /\ SubSeq(b, e + 1, l) = <<>>
      BY <1>1, <2>3, SubSeqEmpty
    <3> QED
      BY <1>4, <3>2, <3>3
  <2>4. CASE e < l
    <3>1. 2 \in 1..l - (e - 1) /\ e - 1 + 2 - 1 = e
      BY <1>1, <1>10, <2>4
    <3>2. Len(t) > 1 /\ t[2] = "newline"
      BY <1>1, <1>10, <2>2, <2>4, <3>1
    <3>3. WithoutEcho(c, Candidates) = SubSeq(t, 3, Len(t))
      BY <2>2, <3>2, WithoutEchoIs
    <3>4. SubSeq(t, 3, Len(t)) = SubSeq(b, e + 1, l - 1)
      <4> DEFINE d == l - (e - 1)
      <4>1. d \in Nat /\ Len(t) = d /\ d >= 2
        BY <1>1, <1>10, <2>2, <2>4
      <4>2. /\ SubSeq(t, 3, d) \in Seq(Tokens) /\ Len(SubSeq(t, 3, d)) = d - 3 + 1
            /\ \A i \in 1..d - 3 + 1 : SubSeq(t, 3, d)[i] = t[3 + i - 1]
        <5> HIDE DEF d, t
        <5> QED
          BY <2>2, <4>1, Piece
      <4>3. /\ SubSeq(b, e + 1, l - 1) \in Seq(Tokens)
            /\ Len(SubSeq(b, e + 1, l - 1)) = l - 1 - (e + 1) + 1
            /\ \A i \in 1..l - 1 - (e + 1) + 1 :
                 SubSeq(b, e + 1, l - 1)[i] = b[e + 1 + i - 1]
        BY <1>1, <1>10, <2>4, Piece
      <4>4. l - 1 - (e + 1) + 1 = d - 3 + 1
        BY <1>1, <1>10
      <4>5. ASSUME NEW i \in 1..d - 3 + 1
            PROVE  t[3 + i - 1] = b[e + 1 + i - 1]
        <5>1. 3 + i - 1 \in 1..d /\ e - 1 + (3 + i - 1) - 1 = e + 1 + i - 1
          BY <1>1, <1>10, <4>1
        <5> HIDE DEF t
        <5> QED
          BY <2>2, <5>1
      <4> HIDE DEF d, t, l
      <4>6. /\ Len(SubSeq(t, 3, d)) = Len(SubSeq(b, e + 1, l - 1))
            /\ \A i \in 1..Len(SubSeq(t, 3, d)) :
                 SubSeq(t, 3, d)[i] = SubSeq(b, e + 1, l - 1)[i]
        BY <4>2, <4>3, <4>4, <4>5
      <4>7. SubSeq(t, 3, d) = SubSeq(b, e + 1, l - 1)
        BY <4>2, <4>3, <4>6, SeqEqual
      <4> QED
        BY <4>1, <4>7
    <3>5. TrimEnd(SubSeq(b, e + 1, l)) = TrimEnd(SubSeq(b, e + 1, l - 1))
      BY <1>1, <1>10, <2>4, TrimEndOfLonger DEF White
    <3> QED
      BY <1>4, <3>3, <3>4, <3>5
  <2> QED
    BY <1>1, <1>10, <2>3, <2>4
<1> QED
  BY <1>7, <1>8, <1>9, <1>10 DEF Beginning

\* When > and white space end what is before the prompt, they end what the command
\* wrote.
LEMMA WrittenEndsInGt ==
  ASSUME NEW b \in Seq(Tokens), NEW e \in Nat, Beginning(b, e), Len(b) > 1,
         b[Len(b) - 1] = "gt", b[Len(b)] \in White
  PROVE  LET w == TrimEnd(SubSeq(b, e + 1, Len(b))) IN w # <<>> /\ Last(w) = "gt"
<1> DEFINE l == Len(b)
           x == SubSeq(b, e + 1, l)
           d == l - (e + 1) + 1
<1>1. l \in Nat /\ l > 1
  BY LenProperties
<1>2. e + 1 <= l - 1
  BY <1>1 DEF Beginning, BeginsWith
<1>3. d \in Nat /\ d > 1 /\ d - 1 \in 1..d /\ d \in 1..d
      /\ e + 1 + d - 1 = l /\ e + 1 + (d - 1) - 1 = l - 1
  BY <1>1, <1>2
<1>4. x \in Seq(Tokens) /\ Len(x) = d /\ \A i \in 1..d : x[i] = b[e + 1 + i - 1]
  BY <1>1, <1>2, Piece
<1> HIDE DEF x, d
<1>5. x[d - 1] = "gt" /\ x[d] \in White
  BY <1>1, <1>3, <1>4
<1>6. TrimEnd(x) = SubSeq(x, 1, d - 1)
  <2>1. d - 1 \in 0..Len(x) /\ x[d - 1] \notin White
    BY <1>3, <1>4, <1>5 DEF White
  <2>2. \A i \in d - 1 + 1..Len(x) : x[i] \in White
    BY <1>3, <1>4, <1>5
  <2> QED
    BY <1>4, <2>1, <2>2, TrimEndAt
<1>7. /\ SubSeq(x, 1, d - 1) \in Seq(Tokens) /\ Len(SubSeq(x, 1, d - 1)) = d - 1
      /\ SubSeq(x, 1, d - 1)[d - 1] = x[d - 1]
  <2>1. /\ SubSeq(x, 1, d - 1) \in Seq(Tokens)
        /\ Len(SubSeq(x, 1, d - 1)) = d - 1 - 1 + 1
        /\ \A i \in 1..d - 1 - 1 + 1 : SubSeq(x, 1, d - 1)[i] = x[1 + i - 1]
    BY <1>3, <1>4, Piece
  <2>2. d - 1 - 1 + 1 = d - 1 /\ d - 1 \in 1..d - 1 /\ 1 + (d - 1) - 1 = d - 1
    BY <1>3
  <2> QED
    BY <2>1, <2>2
<1>8. SubSeq(x, 1, d - 1) # <<>>
  <2>1. Len(SubSeq(x, 1, d - 1)) # 0
    BY <1>3, <1>7
  <2> QED
    BY <2>1, EmptySeq
<1>9. Last(SubSeq(x, 1, d - 1)) = "gt"
  BY <1>5, <1>7 DEF Last
<1> QED
  BY <1>6, <1>8, <1>9 DEF x

\* What on_output knew before the last chunk.
BeforeLast ==
  chunks # <<>> =>
    /\ chunks[Len(chunks)] # "echo" => Beginning(before, echoed)
    /\ FindPrompt(before) > 0 => answered

\* The inductive invariant.
TextInv ==
  /\ TextTypeOK /\ LastChunk /\ RuleIsThePattern
  /\ Beginning(text, echoed) /\ BeforeLast

LEMMA TextInvInit == TextInit => TextInv
<1> SUFFICES ASSUME TextInit PROVE TextInv
  OBVIOUS
<1>1. TextTypeOK /\ LastChunk /\ BeforeLast
  BY EmptySeq DEF TextInit, TextTypeOK, LastChunk, BeforeLast
<1>2. DOMAIN text = {} /\ DOMAIN chunks = {} /\ Len(text) = 0
  BY DEF TextInit
<1>3. Beginning(text, echoed)
  BY <1>2 DEF TextInit, Beginning
<1>4. RuleIsThePattern
  <2>1. Matches(text) = {}
    BY <1>2 DEF Matches
  <2>2. ~EndsAtPrompt([i \in DOMAIN chunks |-> [kind |-> chunks[i]]])
    BY <1>2 DEF EndsAtPrompt
  <2> QED
    BY <2>1, <2>2 DEF RuleIsThePattern, FindPrompt
<1> QED
  BY <1>1, <1>3, <1>4 DEF TextInv

LEMMA TextInvReceive ==
  ASSUME TextInv, NEW kind \in Kinds, Receive(kind)
  PROVE  TextInv'
<1>1. TextTypeOK /\ Beginning(text, echoed) /\ Len(text) \in Nat
  BY LenProperties DEF TextInv, TextTypeOK
<1>2. /\ chunks' \in Seq(Kinds) /\ chunks' # <<>>
      /\ chunks'[Len(chunks')] = kind
  <2>1. chunks \in Seq(Kinds) /\ chunks' = Append(chunks, kind)
    BY <1>1 DEF TextTypeOK, Receive
  <2> QED
    BY <2>1, AppendProperties
<1>3. TextTypeOK'
  <2>1. text' \in Seq(Tokens) /\ before' \in Seq(Tokens)
    BY <1>1, WithChunk DEF TextTypeOK, Receive
  <2>2. echoed' \in Nat
    BY <1>1 DEF TextTypeOK, Receive
  <2>3. answered' \in BOOLEAN
    BY DEF Receive
  <2> QED
    BY <1>2, <2>1, <2>2, <2>3 DEF TextTypeOK
<1>4. LastChunk'
  BY <1>2 DEF LastChunk, Receive
<1>5. RuleIsThePattern'
  BY RuleNext DEF TextInv
<1>6. Beginning(text', echoed')
  BY <1>1, BeginningNext
<1>7. BeforeLast'
  <2>1. before' = text /\ (kind # "echo" => echoed' = echoed)
    BY DEF Receive
  <2>2. FindPrompt(text) > 0 => answered'
    BY Zenon DEF Receive
  <2> QED
    BY <1>1, <1>2, <2>1, <2>2 DEF BeforeLast
<1> QED
  BY <1>3, <1>4, <1>5, <1>6, <1>7 DEF TextInv

\* An answer is complete and has nothing else.
LEMMA AnswerIsWritten == TextInv => CleanReturnsWritten
<1> SUFFICES ASSUME TextInv, Answering, ~BeginsLikeCommand, ~EndsLikePrompt
             PROVE  Clean(text) = Written
  BY DEF CleanReturnsWritten
<1> DEFINE l == Len(before)
           k == chunks[Len(chunks)]
<1>1. /\ chunks \in Seq(Kinds) /\ text \in Seq(Tokens) /\ before \in Seq(Tokens)
      /\ echoed \in Nat /\ l \in Nat
  BY LenProperties DEF TextInv, TextTypeOK
<1>2. Matches(text) # {}
  BY <1>1, FoundIfMatch DEF Answering
<1>3. chunks # <<>>
  <2>1. ASSUME chunks = <<>> PROVE FALSE
    <3>1. DOMAIN text = {}
      BY <2>1 DEF TextInv, LastChunk
    <3> QED
      BY <1>2, <3>1 DEF Matches
  <2> QED
    BY <2>1
<1>4. k \in Kinds /\ text = before \o Spelling[k]
  BY <1>1, <1>3, EmptySeq, ElementOfSeq DEF TextInv, LastChunk
<1>5. k = "prompt"
  <2>1. k # "blank"
    <3>1. FindPrompt(before) > 0 => answered
      BY <1>3 DEF TextInv, BeforeLast
    <3>2. k = "blank" => FindPrompt(before) > 0
      BY <1>1, <1>2, <1>4, MatchesWithChunk, FoundIfMatch
    <3> QED
      BY <3>1, <3>2 DEF Answering
  <2> HIDE DEF k
  <2> QED
    BY <1>1, <1>2, <1>4, <2>1, MatchesWithChunk
<1>6. Beginning(before, echoed)
  BY <1>3, <1>5 DEF TextInv, BeforeLast
<1> HIDE DEF k
<1>7. Len(text) = l + 3 /\ \A i \in 1..l : text[i] = before[i]
  BY <1>1, <1>4, <1>5, WithChunk
<1>8. FindPrompt(text) \in Starts(text, l + 1)
      /\ \A x \in Starts(text, l + 1) : FindPrompt(text) <= x
  <2>1. Matches(text) = Starts(text, l + 1)
    BY <1>1, <1>4, <1>5, MatchesWithChunk
  <2>2. /\ FindPrompt(text) \in Matches(text)
        /\ \A x \in Matches(text) : FindPrompt(text) <= x
    BY <1>1, <1>2, FoundIfMatch
  <2> QED
    BY <2>1, <2>2
<1>9. CASE l = 0
  <2>1. FindPrompt(text) = 1
    BY <1>8, <1>9 DEF Starts, AfterPrompt, AtNewline, AtStart
  <2>2. Content(text) = <<>>
    BY <2>1, SubSeqEmpty DEF Content
  <2>3. echoed = 0
    BY <1>6, <1>9 DEF Beginning
  <2>4. TrimNewlines(<<>>) = <<>>
    <3>1. <<>> \in Seq(Tokens) /\ Len(<<>>) = 0
      BY EmptySeq
    <3>2. \A s \in Seq(Tokens) : Len(s) = 0 => TrimNewlines(s) = SubSeq(s, 1, 0)
      <4>1. ASSUME NEW s \in Seq(Tokens), Len(s) = 0
            PROVE  TrimNewlines(s) = SubSeq(s, 1, 0)
        <5>1. 1 \in 1..Len(s) + 1 /\ ~(1 <= Len(s)) /\ 1..1 - 1 = {}
          BY <4>1
        <5>2. TrimNewlines(s) = SubSeq(s, 1, Len(s))
          BY <5>1, TrimNewlinesAt
        <5> QED
          BY <4>1, <5>2
      <4> QED
        BY <4>1
    <3>3. TrimNewlines(<<>>) = SubSeq(<<>>, 1, 0)
      BY <3>1, <3>2
    <3>4. SubSeq(<<>>, 1, 0) = <<>>
      BY SubSeqEmpty
    <3> QED
      BY <3>3, <3>4
  <2>5. WithoutEcho(<<>>, Candidates) = <<>>
    BY <2>4, EmptySeq, WithoutEchoIs
  <2>6. SubSeq(before, echoed + 1, l) = <<>>
    BY <1>9, <2>3, SubSeqEmpty
  <2> QED
    BY <2>2, <2>5, <2>6 DEF Clean, Written, Candidates
<1>10. CASE l > 0
  <2>1. ~(l > 1 /\ before[l - 1] = "gt" /\ before[l] \in White)
    BY <1>1, <1>6, WrittenEndsInGt DEF EndsLikePrompt, Written
  <2>2. FindPrompt(text) = l /\ before[l] = "newline"
    <3>1. /\ l + 1 - 2 = l - 1 /\ l + 1 - 1 = l /\ l \in 1..l
          /\ l > 1 => l - 1 \in 1..l /\ l - 1 + 1 = l
      BY <1>1, <1>10
    <3>2. AfterPrompt(text, l + 1) = {}
      BY <1>1, <1>7, <2>1, <3>1 DEF AfterPrompt
    <3>3. AtStart(l + 1) = {}
      BY <1>1, <1>10 DEF AtStart
    <3>4. FindPrompt(text) \in AtNewline(text, l + 1)
      BY <1>8, <3>2, <3>3 DEF Starts
    <3> QED
      BY <1>7, <3>1, <3>4 DEF AtNewline
  <2> QED
    BY <1>1, <1>6, <1>7, <1>10, <2>2, CleanOf DEF Written, BeginsLikeCommand
<1> QED
  BY <1>1, <1>9, <1>10

\* The inductive invariant holds of every text.
LEMMA TextInvHolds == TextSpec => []TextInv
<1>1. TextInv /\ [TextNext]_textVars => TextInv'
  <2>1. ASSUME TextInv, TextNext PROVE TextInv'
    BY <2>1, TextInvReceive DEF TextNext
  <2>2. ASSUME TextInv, UNCHANGED textVars PROVE TextInv'
    BY <2>2 DEF textVars, TextInv, TextTypeOK, LastChunk, RuleIsThePattern, Beginning,
       BeginsWith, BeforeLast, FindPrompt
  <2> QED
    BY <2>1, <2>2
<1> QED
  BY TextInvInit, <1>1, PTL DEF TextSpec

\* Type correctness of the text and what is known of it.
THEOREM TextTypes == TextSpec => []TextTypeOK
<1>1. TextInv => TextTypeOK
  BY DEF TextInv
<1> QED
  BY TextInvHolds, <1>1, PTL

\* On a text of any length the rule on chunks decides as the pattern does.
THEOREM RuleDecidesAsPattern == TextSpec => []RuleIsThePattern
<1>1. TextInv => RuleIsThePattern
  BY DEF TextInv
<1> QED
  BY TextInvHolds, <1>1, PTL

\* A command whose output does not look like itself or like a prompt is answered with
\* all it wrote and nothing else.
THEOREM AnswersAreWhatWasWritten == TextSpec => []CleanReturnsWritten
BY TextInvHolds, AnswerIsWritten, PTL
=============================================================================
