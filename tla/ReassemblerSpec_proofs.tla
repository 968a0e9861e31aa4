----------------------- MODULE ReassemblerSpec_proofs -----------------------
(***************************************************************************)
(* The reassembler puts out a prefix of the peer's stream and implements   *)
(* the set of received indices, for every capacity and length of stream.   *)
(***************************************************************************)
EXTENDS ReassemblerSpec, NumberFacts, SequenceTheorems

\* The index k lies in an interval of the map.
Holds(map, k) == \E s \in DOMAIN map : s <= k /\ k < s + map[s]

\* A map of intervals between lo and hi, none empty, no two of which touch.
IntervalMap(map, lo, hi) ==
  /\ DOMAIN map \subseteq Nat
  /\ \A s \in DOMAIN map : map[s] \in Nat /\ map[s] > 0 /\ lo <= s /\ s + map[s] <= hi
  /\ \A s, t \in DOMAIN map : s < t => s + map[s] < t

\* The map that MergeInterval leaves.
Merged(map, index, size) ==
  LET hit == Touching(map, index, size)
      first == Min(hit \cup {index})
      last == Max({s + map[s] : s \in hit} \cup {index + size})
  IN  [s \in (DOMAIN map \ hit) \cup {first} |-> IF s = first THEN last - first ELSE map[s]]

-----------------------------------------------------------------------------
(* MergeInterval                                                           *)

\* Merging an interval adds its indices and leaves intervals that do not touch.
LEMMA MergeAdds ==
  ASSUME NEW map, NEW lo \in Nat, NEW hi \in Nat, IntervalMap(map, lo, hi),
         NEW index \in Nat, NEW size \in Nat, size > 0, lo <= index, index + size <= hi,
         NEW new, new = Merged(map, index, size)
  PROVE  /\ IntervalMap(new, lo, hi)
         /\ \A k \in Nat : Holds(new, k) <=> Holds(map, k) \/ (index <= k /\ k < index + size)
<1> DEFINE hit == Touching(map, index, size)
           ends == {s + map[s] : s \in hit} \cup {index + size}
           first == Min(hit \cup {index})
           last == Max(ends)
           kept == DOMAIN map \ hit
<1>1. \A s \in DOMAIN map : /\ s \in Nat /\ map[s] \in Nat /\ s + map[s] \in Nat /\ map[s] > 0
                            /\ lo <= s /\ s + map[s] <= hi
  BY DEF IntervalMap
<1>2. \A s, t \in DOMAIN map : s < t => s + map[s] < t
  BY DEF IntervalMap
<1>3. \A s \in DOMAIN map : s \in hit <=> index + size >= s /\ index <= s + map[s]
  BY DEF Touching
<1>4. hit \subseteq DOMAIN map
  BY DEF Touching
<1>5. new = [s \in kept \cup {first} |-> IF s = first THEN last - first ELSE map[s]]
  BY DEF Merged
<1> HIDE DEF hit
<1>6. /\ first \in hit \cup {index} /\ first <= index
      /\ \A s \in hit : first <= s
  <2>1. hit \cup {index} \in SUBSET Nat /\ hit \cup {index} # {}
    BY <1>1, <1>4
  <2> QED BY <2>1, MinExists
<1>7. /\ last \in ends /\ index + size <= last
      /\ \A s \in hit : s + map[s] <= last
  <2>1. ends \in SUBSET Nat /\ ends # {} /\ \A k \in ends : k <= hi
    BY <1>1, <1>4
  <2>2. last \in ends /\ \A k \in ends : k <= last
    BY <2>1, MaxExists
  <2> QED BY <2>2
<1>8. \/ last = index + size
      \/ \E s \in hit : last = s + map[s]
  BY <1>7
<1> HIDE DEF first, last, ends
<1>9. first \in Nat /\ last \in Nat /\ first < last /\ lo <= first /\ last <= hi
  BY <1>1, <1>4, <1>6, <1>7, <1>8
<1>10. DOMAIN new = kept \cup {first} /\ new[first] = last - first
       /\ \A s \in kept : s # first => new[s] = map[s]
  BY <1>5
<1>11. first \notin kept
  BY <1>1, <1>2, <1>3, <1>6
<1>12. \A s \in kept : s + map[s] < first \/ last < s
  <2> SUFFICES ASSUME NEW s \in kept PROVE s + map[s] < first \/ last < s
    OBVIOUS
  <2>1. s \in DOMAIN map /\ s \in Nat /\ map[s] \in Nat /\ map[s] > 0
    BY <1>1
  <2>2. index + size < s \/ s + map[s] < index
    BY <1>1, <1>3, <2>1
  <2>3. \A t \in hit : t \in Nat /\ map[t] \in Nat /\ t <= index + size /\ index <= t + map[t]
                       /\ (s + map[s] < t \/ t + map[t] < s)
    <3> TAKE t \in hit
    <3>1. t \in DOMAIN map /\ t # s /\ t \in Nat /\ map[t] \in Nat
      BY <1>1, <1>4
    <3>2. s < t \/ t < s
      BY <2>1, <3>1
    <3>3. s + map[s] < t \/ t + map[t] < s
      BY <1>2, <2>1, <3>1, <3>2
    <3> QED BY <1>3, <3>1, <3>3
  <2>4. CASE index + size < s
    <3>1. \A t \in hit : t + map[t] < s
      BY <2>1, <2>3, <2>4
    <3> QED BY <1>8, <2>4, <3>1
  <2>5. CASE s + map[s] < index
    <3>1. \A t \in hit : s + map[s] < t
      BY <2>1, <2>3, <2>5
    <3> QED BY <1>6, <2>5, <3>1
  <2> QED BY <2>2, <2>4, <2>5
<1>13. IntervalMap(new, lo, hi)
  <2>1. \A s \in DOMAIN new : /\ s \in Nat /\ new[s] \in Nat /\ new[s] > 0
                              /\ lo <= s /\ s + new[s] <= hi
    BY <1>1, <1>9, <1>10, <1>11
  <2>2. ASSUME NEW s \in DOMAIN new, NEW t \in DOMAIN new, s < t
        PROVE  s + new[s] < t
    <3>1. CASE s \in kept /\ t \in kept
      <4>1. new[s] = map[s]
        BY <1>10, <1>11, <3>1
      <4>2. s + map[s] < t
        BY <1>2, <2>2, <3>1
      <4> QED BY <4>1, <4>2
    <3>2. CASE s = first /\ t \in kept
      <4>1. ~(t + map[t] < first)
        BY <1>1, <1>9, <2>2, <3>2
      <4> QED BY <1>9, <1>10, <1>12, <3>2, <4>1
    <3>3. CASE s \in kept /\ t = first
      <4>1. ~(last < s)
        BY <1>1, <1>9, <2>2, <3>3
      <4> QED BY <1>10, <1>11, <1>12, <3>3, <4>1
    <3>4. CASE s = first /\ t = first
      BY <1>9, <2>2, <3>4
    <3> QED BY <1>10, <3>1, <3>2, <3>3, <3>4
  <2> QED BY <2>1, <2>2 DEF IntervalMap
<1>14. ASSUME NEW k \in Nat
       PROVE  Holds(new, k) <=> Holds(map, k) \/ (index <= k /\ k < index + size)
  <2>1. Holds(new, k) <=> (first <= k /\ k < last) \/ \E s \in kept : s <= k /\ k < s + map[s]
    BY <1>9, <1>10, <1>11 DEF Holds
  <2>2. first <= k /\ k < last <=>
          (index <= k /\ k < index + size) \/ \E s \in hit : s <= k /\ k < s + map[s]
    <3>1. ASSUME first <= k, k < last, k < index
          PROVE  \E s \in hit : s <= k /\ k < s + map[s]
      <4>1. first \in hit
        BY <1>6, <1>9, <3>1
      <4> QED BY <1>1, <1>3, <1>4, <3>1, <4>1
    <3>2. ASSUME first <= k, k < last, k >= index + size
          PROVE  \E s \in hit : s <= k /\ k < s + map[s]
      <4>1. PICK s \in hit : last = s + map[s]
        BY <1>8, <3>2
      <4> QED BY <1>1, <1>3, <1>4, <3>2, <4>1
    <3>3. ASSUME NEW s \in hit, s <= k, k < s + map[s]
          PROVE  first <= k /\ k < last
      BY <1>1, <1>4, <1>6, <1>7, <1>9, <3>3
    <3>4. ASSUME index <= k, k < index + size
          PROVE  first <= k /\ k < last
      BY <1>6, <1>7, <1>9, <3>4
    <3> QED BY <3>1, <3>2, <3>3, <3>4
  <2>3. Holds(map, k) <=> (\E s \in hit : s <= k /\ k < s + map[s])
                          \/ \E s \in kept : s <= k /\ k < s + map[s]
    BY <1>4 DEF Holds
  <2> QED BY <2>1, <2>2, <2>3
<1> QED BY <1>13, <1>14
-----------------------------------------------------------------------------
(* The ring                                                                *)

\* data holds the n bytes of the stream from index.
Part(data, index, n) ==
  data \in Seq(Nat) /\ Len(data) = n /\ \A j \in 1 .. n : data[j] = index + j - 1

\* Every byte that the map holds is where the ring looks for it.
InPlace(buffer, start, map, written) ==
  \A k \in Nat : Holds(map, k) => buffer[(start + k - written) % Capacity] = k

\* Distances from e to d along the ring, in one turn.
LEMMA Distances ==
  ASSUME NEW c \in Nat \ {0}, NEW start \in 0 .. c - 1, NEW e \in Nat, NEW d \in Nat, NEW n \in Nat,
         start <= e, e + n <= start + c, start <= d, d < start + c,
         NEW pos \in Nat, pos = (IF e < c THEN e ELSE e - c),
         NEW slot \in Nat, slot = (IF d < c THEN d ELSE d - c)
  PROVE  /\ e <= d /\ d < e + n =>
              \/ pos <= slot /\ slot < pos + n /\ slot - pos = d - e
              \/ slot < pos /\ slot < pos + n - c /\ c - pos + slot = d - e
         /\ ~(e <= d /\ d < e + n) => ~(pos <= slot /\ slot < pos + n) /\ ~(slot < pos + n - c)
<1>1. CASE e < c /\ d < c
  BY <1>1
<1>2. CASE e >= c /\ d >= c
  BY <1>2
<1>3. CASE e < c /\ d >= c
  BY <1>3
<1>4. CASE e >= c /\ d < c
  BY <1>4
<1> QED BY <1>1, <1>2, <1>3, <1>4

\* memcpy in one or two pieces puts each byte on its slot and leaves the
\* slots of all other indices the ring may hold.
LEMMA CopyPlaces ==
  ASSUME NEW x, DOMAIN x.buffer = 0 .. Capacity - 1, NEW start \in 0 .. Capacity - 1,
         NEW w \in Nat, NEW index \in Nat, w <= index, NEW n \in Nat, n > 0,
         index + n <= w + Capacity, NEW data, Part(data, index, n),
         NEW new, new = ring_copy_in(x, (start + index - w) % Capacity, data),
         NEW k \in Nat, w <= k, k < w + Capacity
  PROVE  /\ DOMAIN new = 0 .. Capacity - 1
         /\ new[(start + k - w) % Capacity] =
              IF index <= k /\ k < index + n THEN k ELSE x.buffer[(start + k - w) % Capacity]
<1> DEFINE e == start + index - w
           d == start + k - w
           pos == e % Capacity
           slot == d % Capacity
<1>1. Capacity \in Nat \ {0}
  BY ReassemblerAssumption
<1>2. e \in Nat /\ e < 2 * Capacity /\ d \in Nat /\ d < 2 * Capacity
  BY <1>1
<1>0. /\ start <= e /\ e + n <= start + Capacity /\ start <= d /\ d < start + Capacity
      /\ d - e = k - index /\ (e <= d /\ d < e + n <=> index <= k /\ k < index + n)
      /\ k - index \in Int
  <2>1. start \in Nat
    BY <1>1
  <2>2. start <= e /\ e + n <= start + Capacity
    BY <1>1, <2>1
  <2>3. start <= d /\ d < start + Capacity
    BY <1>1, <2>1
  <2>4. d - e = k - index /\ k - index \in Int
    BY <1>1, <2>1
  <2>5. e <= d /\ d < e + n <=> index <= k /\ k < index + n
    BY <1>1, <2>1
  <2> QED BY <2>2, <2>3, <2>4, <2>5
<1> HIDE DEF e, d
<1>3. pos = (IF e < Capacity THEN e ELSE e - Capacity) /\ pos \in 0 .. Capacity - 1
  BY <1>1, <1>2, RingSlot
<1>4. slot = (IF d < Capacity THEN d ELSE d - Capacity) /\ slot \in 0 .. Capacity - 1
  BY <1>1, <1>2, RingSlot
<1>5. new = [p \in 0 .. Capacity - 1 |->
               IF pos <= p /\ p < pos + n THEN data[p - pos + 1]
               ELSE IF p < pos + n - Capacity THEN data[Capacity - pos + p + 1]
               ELSE x.buffer[p]]
  BY DEF ring_copy_in, Part, e
<1> HIDE DEF pos, slot
<1>6. new[slot] = IF pos <= slot /\ slot < pos + n THEN data[slot - pos + 1]
                  ELSE IF slot < pos + n - Capacity THEN data[Capacity - pos + slot + 1]
                  ELSE x.buffer[slot]
  BY <1>4, <1>5
<1>7. /\ e <= d /\ d < e + n =>
           \/ pos <= slot /\ slot < pos + n /\ slot - pos = d - e
           \/ slot < pos /\ slot < pos + n - Capacity /\ Capacity - pos + slot = d - e
      /\ ~(e <= d /\ d < e + n) => ~(pos <= slot /\ slot < pos + n) /\ ~(slot < pos + n - Capacity)
  <2>1. pos \in Nat /\ slot \in Nat
    BY <1>1, <1>3, <1>4
  <2> QED BY <1>0, <1>1, <1>2, <1>3, <1>4, <2>1, Distances
<1>8. ASSUME index <= k, k < index + n
      PROVE  new[slot] = k
  <2>1. k - index + 1 \in 1 .. n
    BY <1>8
  <2>2. data[k - index + 1] = k
    BY <2>1 DEF Part
  <2>3. CASE pos <= slot /\ slot < pos + n /\ slot - pos = k - index
    BY <1>6, <2>2, <2>3
  <2>4. CASE slot < pos /\ slot < pos + n - Capacity /\ Capacity - pos + slot = k - index
    <3>1. ~(pos <= slot)
      BY <1>1, <1>3, <1>4, <2>4
    <3> QED BY <1>6, <2>2, <2>4, <3>1
  <2> QED BY <1>0, <1>7, <1>8, <2>3, <2>4
<1>9. ASSUME ~(index <= k /\ k < index + n)
      PROVE  new[slot] = x.buffer[slot]
  BY <1>0, <1>6, <1>7, <1>9
<1> QED BY <1>5, <1>8, <1>9 DEF slot, d

\* Popping from the ring moves start_pos_ and the output together.
LEMMA PopShifts ==
  ASSUME NEW start \in 0 .. Capacity - 1, NEW w \in Nat, NEW size \in 1 .. Capacity,
         NEW k \in Nat, w + size <= k, k < w + Capacity
  PROVE  (((start + size) % Capacity) + k - (w + size)) % Capacity = (start + k - w) % Capacity
<1> DEFINE turned == start + size
           d == start + k - w
           moved == turned % Capacity
<1>1. Capacity \in Nat \ {0}
  BY ReassemblerAssumption
<1>2. turned \in Nat /\ turned < 2 * Capacity /\ d \in Nat /\ d < 2 * Capacity /\ turned <= d
  BY <1>1
<1>3. moved + k - (w + size) = moved + d - turned
  BY <1>1
<1> HIDE DEF turned, d
<1>4. moved = (IF turned < Capacity THEN turned ELSE turned - Capacity) /\ moved \in 0 .. Capacity - 1
  BY <1>1, <1>2, RingSlot
<1> HIDE DEF moved
<1>5. CASE turned < Capacity
  <2>1. moved + d - turned = d
    BY <1>2, <1>4, <1>5
  <2> QED BY <1>3, <2>1 DEF moved, turned, d
<1>6. CASE turned >= Capacity
  <2> DEFINE f == d - Capacity
  <2>1. f \in Nat /\ f < Capacity /\ f < 2 * Capacity /\ moved + d - turned = f
    BY <1>1, <1>2, <1>4, <1>6
  <2>2. d % Capacity = f
    <3>1. ~(d < Capacity)
      BY <1>1, <1>2, <1>6
    <3>2. d % Capacity = IF d < Capacity THEN d ELSE d - Capacity
      BY <1>1, <1>2, RingSlot
    <3> QED BY <3>1, <3>2
  <2> HIDE DEF f
  <2>3. f % Capacity = f
    BY <1>1, <2>1, RingSlot
  <2>4. (moved + k - (w + size)) % Capacity = d % Capacity
    BY <1>3, <2>1, <2>2, <2>3
  <2> QED BY <2>4 DEF moved, turned, d
<1>7. turned < Capacity \/ turned >= Capacity
  BY <1>1, <1>2
<1> QED BY <1>5, <1>6, <1>7
-----------------------------------------------------------------------------
(* The invariant                                                           *)

Fields == {"buffer", "index_map", "used_size", "start_pos", "eof_index", "out", "assembled",
           "asserted"}

\* Where the peer's stream or the window ends.
Limit(popped) == smaller(popped + Capacity, StreamLen)

\* The fields with their types; what used_size is plays no part here.
Typed(x) ==
  /\ DOMAIN x = Fields
  /\ x.out \in Stream /\ x.start_pos \in 0 .. Capacity - 1
  /\ DOMAIN x.buffer = 0 .. Capacity - 1

\* The output holds no more than the capacity and is a prefix of the stream.
Prefix(x) ==
  /\ x.out.popped <= x.out.written /\ x.out.written <= Limit(x.out.popped)
  /\ Part(x.assembled, 0, x.out.written)

\* What is stored lies past the output and inside the window, in its place.
Stored(x) ==
  /\ IntervalMap(x.index_map, x.out.written + 1, Limit(x.out.popped))
  /\ InPlace(x.buffer, x.start_pos, x.index_map, x.out.written)

Core(x) == Typed(x) /\ Prefix(x) /\ Stored(x) /\ x.asserted

\* The index k was received and kept.
Seen(x, k) == k < x.out.written \/ Holds(x.index_map, k)

-----------------------------------------------------------------------------
(* StoreAndPop                                                             *)

\* The map without the interval that starts at w.
Without(map, w) == [s \in DOMAIN map \ {w} |-> map[s]]

\* The bytes of the ring from start.
FirstBytes(buffer, start, size) == [i \in 1 .. size |-> buffer[(start + i - 1) % Capacity]]

\* A sequence followed by the first n bytes of another.
Extended(a, f, n) == a \o SubSeq(f, 1, n)

\* The state after StoreAndPop, and the ring, the map, the place and the size of
\* the first interval before it is popped.
StoreNames(x, data, index, y, buffer, map, w, size) ==
  /\ y = StoreAndPop(x, data, index)
  /\ buffer = ring_copy_in(x, (x.start_pos + index - x.out.written) % Capacity, data)
  /\ map = Merged(x.index_map, index, Len(data))
  /\ w = x.out.written /\ size = map[w]

\* What StoreAndPop does to the fields.
LEMMA StoreFields ==
  ASSUME NEW x, Typed(x), NEW data, NEW index, NEW y, NEW buffer, NEW map, NEW w, NEW size,
         StoreNames(x, data, index, y, buffer, map, w, size)
  PROVE  /\ DOMAIN y = Fields /\ y.buffer = buffer
         /\ y.eof_index = x.eof_index /\ y.asserted = x.asserted
         /\ w \notin DOMAIN map =>
              /\ y.index_map = map /\ y.start_pos = x.start_pos /\ y.out = x.out
              /\ y.assembled = x.assembled
         /\ w \in DOMAIN map =>
              /\ y.index_map = Without(map, w)
              /\ y.start_pos = (x.start_pos + size) % Capacity
              /\ y.out = write(x.out, size, Capacity)
              /\ y.assembled = Extended(x.assembled, FirstBytes(buffer, x.start_pos, size),
                                      accepted(x.out, size, Capacity))
<1>0. /\ y = StoreAndPop(x, data, index)
      /\ buffer = ring_copy_in(x, (x.start_pos + index - x.out.written) % Capacity, data)
      /\ map = Merged(x.index_map, index, Len(data))
      /\ w = x.out.written /\ size = map[w]
  BY DEF StoreNames
<1> DEFINE stored == [x EXCEPT !.buffer = buffer]
           merged == MergeInterval(stored, index, Len(data))
<1>1. /\ DOMAIN stored = Fields /\ stored.buffer = buffer /\ stored.index_map = x.index_map
      /\ stored.start_pos = x.start_pos /\ stored.out = x.out /\ stored.assembled = x.assembled
      /\ stored.eof_index = x.eof_index /\ stored.asserted = x.asserted
  BY DEF Typed, Fields
<1> HIDE DEF stored
<1>2. /\ DOMAIN merged = Fields /\ merged.buffer = buffer /\ merged.index_map = map
      /\ merged.start_pos = x.start_pos /\ merged.out = x.out /\ merged.assembled = x.assembled
      /\ merged.eof_index = x.eof_index /\ merged.asserted = x.asserted
  BY <1>0, <1>1 DEF MergeInterval, Merged, Fields
<1> HIDE DEF merged
<1>3. y = IF w \notin DOMAIN map THEN merged
          ELSE [merged EXCEPT
                 !.used_size = @ - size,
                 !.index_map = [s \in DOMAIN @ \ {w} |-> @[s]],
                 !.start_pos = (@ + size) % Capacity,
                 !.out = write(@, size, Capacity),
                 !.assembled = @ \o SubSeq(ring_copy_out(merged, size), 1,
                                           accepted(x.out, size, Capacity))]
  BY <1>0, <1>2, ZenonT(60) DEF StoreAndPop, stored, merged
<1>4. ring_copy_out(merged, size) = FirstBytes(buffer, x.start_pos, size)
  BY <1>2 DEF ring_copy_out, FirstBytes
<1>5. CASE w \notin DOMAIN map
  BY <1>2, <1>3, <1>5
<1>6. CASE w \in DOMAIN map
  <2> DEFINE rest == Without(map, w)
             start == (x.start_pos + size) % Capacity
             out == write(x.out, size, Capacity)
             assembled == Extended(x.assembled, FirstBytes(buffer, x.start_pos, size),
                                      accepted(x.out, size, Capacity))
  <2>1. y = [merged EXCEPT !.used_size = @ - size, !.index_map = rest, !.start_pos = start,
                           !.out = out, !.assembled = assembled]
    <3>1. /\ [s \in DOMAIN merged.index_map \ {w} |-> merged.index_map[s]] = rest
          /\ (merged.start_pos + size) % Capacity = start /\ write(merged.out, size, Capacity) = out
          /\ merged.assembled \o SubSeq(ring_copy_out(merged, size), 1, accepted(x.out, size, Capacity))
               = assembled
      BY <1>2, <1>4 DEF Without, Extended
    <3> HIDE DEF rest, start, out, assembled
    <3> QED BY <1>3, <1>6, <3>1
  <2> HIDE DEF rest, start, out, assembled
  <2>2. /\ DOMAIN y = Fields /\ y.buffer = buffer
        /\ y.eof_index = x.eof_index /\ y.asserted = x.asserted
        /\ y.index_map = rest /\ y.start_pos = start /\ y.out = out /\ y.assembled = assembled
    BY <1>2, <2>1 DEF Fields
  <2> QED BY <1>6, <2>2, Zenon DEF rest, start, out, assembled
<1> QED BY <1>5, <1>6
\* A map of intervals holds only what lies between its bounds.
LEMMA HoldsBetween ==
  ASSUME NEW map, NEW lo \in Nat, NEW hi \in Nat, IntervalMap(map, lo, hi),
         NEW k \in Nat, Holds(map, k)
  PROVE  lo <= k /\ k < hi
  BY DEF IntervalMap, Holds

\* Wider bounds hold too.
LEMMA WiderBounds ==
  ASSUME NEW map, NEW lo \in Nat, NEW hi \in Nat, IntervalMap(map, lo, hi),
         NEW lo2 \in Nat, NEW hi2 \in Nat, lo2 <= lo, hi <= hi2
  PROVE  IntervalMap(map, lo2, hi2)
  BY DEF IntervalMap

\* The first interval is taken off the front.
LEMMA FrontRemoved ==
  ASSUME NEW map, NEW w \in Nat, NEW hi \in Nat, IntervalMap(map, w, hi), w \in DOMAIN map
  PROVE  /\ map[w] \in Nat /\ map[w] > 0 /\ w + map[w] <= hi
         /\ IntervalMap(Without(map, w), w + map[w] + 1, hi)
         /\ \A k \in Nat : Holds(map, k) <=> (w <= k /\ k < w + map[w]) \/ Holds(Without(map, w), k)
<1> DEFINE size == map[w]
           rest == Without(map, w)
<1>1. size \in Nat /\ size > 0 /\ w + size <= hi
  BY DEF IntervalMap
<1>2. DOMAIN rest = DOMAIN map \ {w} /\ \A s \in DOMAIN rest : rest[s] = map[s]
  BY DEF Without
<1> HIDE DEF rest
<1>3. \A s \in DOMAIN rest : s \in Nat /\ w + size < s
  BY <1>1, <1>2 DEF IntervalMap
<1>4. IntervalMap(rest, w + size + 1, hi)
  BY <1>1, <1>2, <1>3 DEF IntervalMap
<1>5. \A k \in Nat : Holds(map, k) <=> (w <= k /\ k < w + size) \/ Holds(rest, k)
  BY <1>2 DEF Holds
<1> QED BY <1>1, <1>4, <1>5 DEF rest

\* The part before an index, extended by the first bytes of the part after it.
LEMMA PartExtended ==
  ASSUME NEW w \in Nat, NEW a, Part(a, 0, w), NEW size \in Nat, NEW f, Part(f, w, size),
         NEW n \in 0 .. size
  PROVE  Part(Extended(a, f, n), 0, w + n)
<1>1. a \in Seq(Nat) /\ Len(a) = w /\ f \in Seq(Nat) /\ Len(f) = size
  BY DEF Part
<1> DEFINE g == SubSeq(f, 1, n)
<1>2. g \in Seq(Nat) /\ Len(g) = n /\ \A j \in 1 .. n : g[j] = f[j]
  BY <1>1
<1> HIDE DEF g
<1> DEFINE h == a \o g
<1>3. /\ h \in Seq(Nat) /\ Len(h) = w + n
      /\ \A j \in 1 .. w + n : h[j] = IF j <= w THEN a[j] ELSE g[j - w]
  BY <1>1, <1>2, ConcatProperties
<1> HIDE DEF h
<1>4. ASSUME NEW j \in 1 .. w + n
      PROVE  h[j] = 0 + j - 1
  <2>1. CASE j <= w
    <3>1. j \in 1 .. w /\ a[j] = 0 + j - 1
      BY <2>1 DEF Part
    <3> QED BY <1>3, <2>1, <3>1
  <2>2. CASE j > w
    <3>1. j - w \in 1 .. n /\ j - w \in 1 .. size
      BY <2>2
    <3>2. h[j] = g[j - w]
      BY <1>3, <2>2
    <3>3. f[j - w] = w + (j - w) - 1
      BY <3>1 DEF Part
    <3>4. g[j - w] = f[j - w]
      BY <1>2, <3>1
    <3> QED BY <3>1, <3>2, <3>3, <3>4
  <2> QED BY <2>1, <2>2
<1> QED BY <1>3, <1>4 DEF Part, Extended, h, g

\* Writing counts bytes and changes nothing else.
LEMMA WriteCounts ==
  ASSUME NEW st \in Stream, NEW n \in Nat, NEW q, q = [st EXCEPT !.written = @ + n]
  PROVE  /\ q \in Stream /\ q.written = st.written + n
         /\ q.popped = st.popped /\ q.ended = st.ended
  BY DEF Stream

\* A window that is not full takes all of a substring inside it; a full one takes
\* one byte, which the output then does not accept.
LEMMA StoreStep ==
  ASSUME NEW x, Core(x), NEW index \in Nat, NEW n \in Nat, n > 0, x.out.written <= index,
         index + n <= larger(x.out.popped + Capacity, x.out.written + 1), index + n <= StreamLen,
         NEW data, Part(data, index, n), NEW y, y = StoreAndPop(x, data, index)
  PROVE  /\ Core(y)
         /\ y.out.popped = x.out.popped /\ y.out.ended = x.out.ended /\ y.eof_index = x.eof_index
         /\ \A k \in Nat : Seen(y, k) <=>
              Seen(x, k) \/ (index <= k /\ k < index + n /\ k < x.out.popped + Capacity)
<1> DEFINE w == x.out.written
           p == x.out.popped
           start == x.start_pos
           buffer == ring_copy_in(x, (start + index - w) % Capacity, data)
           map == Merged(x.index_map, index, Len(data))
           hi == smaller(larger(p + Capacity, w + 1), StreamLen)
<1>1. /\ w \in Nat /\ p \in Nat /\ start \in 0 .. Capacity - 1 /\ p <= w
      /\ DOMAIN x.buffer = 0 .. Capacity - 1
  BY DEF Core, Typed, Prefix, Stream
<1>0. /\ x.out.written = w /\ x.out.popped = p /\ x.start_pos = start
      /\ w <= index /\ index + n <= larger(p + Capacity, w + 1)
      /\ buffer = ring_copy_in(x, (x.start_pos + index - x.out.written) % Capacity, data)
  OBVIOUS
<1> HIDE DEF w, p, start
<1>2. Capacity \in Nat /\ Capacity > 0 /\ StreamLen \in Nat
  BY ReassemblerAssumption
<1>3. w <= p + Capacity /\ w <= StreamLen
  BY <1>0, <1>1, <1>2 DEF Core, Prefix, Limit, smaller
<1>4. Len(data) = n
  BY DEF Part
<1>5. /\ hi \in Nat /\ Limit(p) \in Nat /\ Limit(p) <= hi /\ index + n <= hi /\ hi <= w + Capacity
      /\ w < p + Capacity => hi = Limit(p)
      /\ w = p + Capacity => hi <= w + 1
  <2> DEFINE top == p + Capacity
  <2>1. top \in Nat /\ w <= top /\ top <= w + Capacity /\ w + 1 <= w + Capacity
    BY <1>1, <1>2, <1>3
  <2>2. index + n <= larger(top, w + 1) /\ hi = smaller(larger(top, w + 1), StreamLen)
    BY <1>0
  <2>3. Limit(p) = smaller(top, StreamLen)
    BY DEF Limit
  <2> HIDE DEF top, hi
  <2>4. /\ hi \in Nat /\ index + n <= hi /\ hi <= w + Capacity
    BY <1>1, <1>2, <2>1, <2>2 DEF smaller, larger
  <2>5. /\ Limit(p) \in Nat /\ Limit(p) <= hi
        /\ w < top => hi = Limit(p)
    BY <1>1, <1>2, <2>1, <2>2, <2>3 DEF smaller, larger
  <2>6. w = top => hi <= w + 1
    BY <1>1, <1>2, <2>1, <2>2 DEF smaller, larger
  <2> QED BY <2>4, <2>5, <2>6 DEF top
<1>6. IntervalMap(x.index_map, w + 1, Limit(p)) /\ InPlace(x.buffer, start, x.index_map, w)
  BY <1>0 DEF Core, Stored
<1>7. IntervalMap(x.index_map, w, hi)
  <2>1. w + 1 \in Nat /\ w <= w + 1
    BY <1>1
  <2> QED BY <1>1, <1>5, <1>6, <2>1, WiderBounds
<1> HIDE DEF hi
<1>8. /\ IntervalMap(map, w, hi)
      /\ \A k \in Nat : Holds(map, k) <=> Holds(x.index_map, k) \/ (index <= k /\ k < index + n)
  BY <1>0, <1>1, <1>4, <1>5, <1>7, MergeAdds
<1>9. DOMAIN buffer = 0 .. Capacity - 1
  BY <1>1 DEF ring_copy_in
<1>10. ASSUME NEW k \in Nat, Holds(map, k)
       PROVE  w <= k /\ k < w + Capacity /\ buffer[(start + k - w) % Capacity] = k
  <2>1. w <= k /\ k < hi
    BY <1>1, <1>5, <1>8, <1>10, HoldsBetween
  <2>2. k < w + Capacity /\ index + n <= w + Capacity
    BY <1>1, <1>2, <1>5, <2>1
  <2>3. buffer[(start + k - w) % Capacity] =
          IF index <= k /\ k < index + n THEN k ELSE x.buffer[(start + k - w) % Capacity]
    BY <1>0, <1>1, <2>1, <2>2, CopyPlaces
  <2>4. Holds(x.index_map, k) => x.buffer[(start + k - w) % Capacity] = k
    BY <1>6 DEF InPlace
  <2> HIDE DEF buffer
  <2> QED BY <1>8, <1>10, <2>1, <2>2, <2>3, <2>4
<1>11. /\ x.asserted /\ Part(x.assembled, 0, w) /\ x.out \in Stream
  BY <1>0 DEF Core, Prefix, Typed
<1> DEFINE size == map[w]
<1>12. /\ DOMAIN y = Fields /\ y.buffer = buffer
       /\ y.eof_index = x.eof_index /\ y.asserted = x.asserted
       /\ w \notin DOMAIN map =>
            /\ y.index_map = map /\ y.start_pos = start /\ y.out = x.out
            /\ y.assembled = x.assembled
       /\ w \in DOMAIN map =>
            /\ y.index_map = Without(map, w)
            /\ y.start_pos = (start + size) % Capacity
            /\ y.out = write(x.out, size, Capacity)
            /\ y.assembled = Extended(x.assembled, FirstBytes(buffer, start, size),
                                      accepted(x.out, size, Capacity))
  <2>1. Typed(x) /\ map = Merged(x.index_map, index, Len(data))
    BY DEF Core
  <2> HIDE DEF map, buffer, size
  <2>2. size = map[w] /\ w = x.out.written
    BY <1>0 DEF size
  <2>3. buffer = ring_copy_in(x, (x.start_pos + index - x.out.written) % Capacity, data)
    BY <1>0
  <2>4. start = x.start_pos
    BY <1>0
  <2>5. StoreNames(x, data, index, y, buffer, map, w, size)
    BY <2>1, <2>2, <2>3 DEF StoreNames
  <2>6. /\ DOMAIN y = Fields /\ y.buffer = buffer
        /\ y.eof_index = x.eof_index /\ y.asserted = x.asserted
    BY <2>1, <2>5, StoreFields
  <2>7. ASSUME w \notin DOMAIN map
        PROVE  /\ y.index_map = map /\ y.start_pos = x.start_pos /\ y.out = x.out
               /\ y.assembled = x.assembled
    BY <2>1, <2>5, <2>7, StoreFields
  <2>8. ASSUME w \in DOMAIN map
        PROVE  /\ y.index_map = Without(map, w)
               /\ y.start_pos = (x.start_pos + size) % Capacity
               /\ y.out = write(x.out, size, Capacity)
               /\ y.assembled = Extended(x.assembled, FirstBytes(buffer, x.start_pos, size),
                                      accepted(x.out, size, Capacity))
    BY <2>1, <2>5, <2>8, StoreFields
  <2> QED BY <2>4, <2>6, <2>7, <2>8, Zenon
<1> HIDE DEF map, buffer
<1>13. CASE w \notin DOMAIN map
  <2>1. \A s \in DOMAIN map : w + 1 <= s
    BY <1>1, <1>8, <1>13 DEF IntervalMap
  <2>2. w < p + Capacity
    <3> SUFFICES ASSUME w = p + Capacity PROVE FALSE
      BY <1>1, <1>2, <1>3
    <3>1. w = p + Capacity
      OBVIOUS
    <3>2. index = w
      BY <1>0, <1>1, <1>2, <1>5, <3>1
    <3>3. Holds(map, w)
      BY <1>1, <1>8, <3>2
    <3> QED BY <1>1, <1>8, <2>1, <3>3 DEF Holds, IntervalMap
  <2>3. IntervalMap(map, w + 1, Limit(p))
    BY <1>5, <1>8, <2>1, <2>2 DEF IntervalMap
  <2>4. InPlace(y.buffer, y.start_pos, y.index_map, y.out.written)
    BY <1>0, <1>10, <1>12, <1>13 DEF InPlace
  <2>5. Typed(y) /\ Prefix(y) /\ y.asserted
    BY <1>0, <1>1, <1>9, <1>11, <1>12, <1>13 DEF Core, Typed, Prefix
  <2>6. Core(y)
    BY <1>0, <1>12, <1>13, <2>3, <2>4, <2>5 DEF Core, Stored
  <2>7. \A k \in Nat : k < index + n => k < p + Capacity
    BY <1>0, <1>1, <1>2, <2>2 DEF larger
  <2> QED BY <1>0, <1>8, <1>12, <1>13, <2>6, <2>7 DEF Seen
<1>14. CASE w \in DOMAIN map
  <2> DEFINE rest == Without(map, w)
             f == FirstBytes(buffer, start, size)
             taken == accepted(x.out, size, Capacity)
  <2>2. /\ y.index_map = rest /\ y.start_pos = (start + size) % Capacity
        /\ y.out = [x.out EXCEPT !.written = @ + taken]
        /\ y.assembled = Extended(x.assembled, f, taken)
    BY <1>12, <1>14 DEF write
  <2>3. taken = smaller(size, p + Capacity - w)
    BY <1>0, <1>1, <1>2 DEF accepted, remaining_capacity, buffer_size
  <2> HIDE DEF size, rest, taken
  <2>1. /\ size \in Nat /\ size > 0 /\ w + size <= hi
        /\ IntervalMap(rest, w + size + 1, hi)
        /\ \A k \in Nat : Holds(map, k) <=> (w <= k /\ k < w + size) \/ Holds(rest, k)
    BY <1>1, <1>5, <1>8, <1>14, FrontRemoved DEF size, rest
  <2>4. Part(f, w, size)
    <3>1. ASSUME NEW i \in 1 .. size
          PROVE  f[i] = w + i - 1 /\ f[i] \in Nat
      <4> DEFINE k == w + i - 1
      <4>1. k \in Nat /\ w <= k /\ k < w + size /\ start + k - w = start + i - 1
        BY <1>0, <1>1, <1>2, <2>1
      <4>2. Holds(map, k)
        BY <2>1, <4>1
      <4>3. buffer[(start + k - w) % Capacity] = k
        BY <1>10, <4>1, <4>2
      <4>4. f[i] = buffer[(start + i - 1) % Capacity]
        BY DEF FirstBytes
      <4> QED BY <4>1, <4>3, <4>4
    <3>2. f \in Seq(Nat) /\ Len(f) = size
      BY <2>1, <3>1 DEF FirstBytes
    <3> QED BY <3>1, <3>2 DEF Part
  <2> HIDE DEF f
  <2>5. taken \in 0 .. size
    BY <1>0, <1>1, <1>2, <1>3, <2>1, <2>3 DEF smaller
  <2>6. Part(y.assembled, 0, w + taken)
    BY <1>1, <1>11, <2>1, <2>2, <2>4, <2>5, PartExtended
  <2>7. /\ y.out \in Stream /\ y.out.written = w + taken
        /\ y.out.popped = p /\ y.out.ended = x.out.ended
    <3>1. taken \in Nat
      BY <2>5
    <3> QED BY <1>0, <1>11, <2>2, <3>1, WriteCounts
  <2>8. size <= Capacity /\ y.start_pos \in 0 .. Capacity - 1
    <3>1. size <= Capacity
      BY <1>0, <1>1, <1>2, <1>5, <2>1
    <3> DEFINE turned == start + size
    <3>4. start \in Nat /\ start < Capacity
      BY <1>1, <1>2
    <3>2. turned \in Nat /\ turned < 2 * Capacity
      BY <1>2, <2>1, <3>1, <3>4
    <3> HIDE DEF turned
    <3>3. turned % Capacity \in 0 .. Capacity - 1
      BY <1>2, <3>2, RingSlot
    <3> QED BY <2>2, <3>1, <3>3 DEF turned
  <2>9. Typed(y) /\ y.asserted
    BY <1>9, <1>11, <1>12, <2>7, <2>8 DEF Typed
  <2>10. CASE w < p + Capacity
    <3>1. taken = size
      <4>1. p \in Nat /\ w \in Nat /\ p + Capacity \in Nat
        BY <1>1, <1>2
      <4>2. Limit(p) <= p + Capacity
        BY <1>2, <4>1 DEF Limit, smaller
      <4>3. w + size <= p + Capacity
        BY <1>5, <2>1, <2>10, <4>1, <4>2
      <4> DEFINE room == p + Capacity - w
      <4>4. room \in Int /\ size <= room
        <5>1. size \in Nat
          BY <2>1
        <5> QED BY <1>2, <4>1, <4>3, <5>1
      <4> HIDE DEF room
      <4>5. smaller(size, room) = size
        BY <2>1, <4>4 DEF smaller
      <4> QED BY <2>3, <4>5 DEF room
    <3>2. Prefix(y)
      BY <1>1, <1>5, <2>1, <2>6, <2>7, <2>10, <3>1 DEF Prefix
    <3>3. IntervalMap(y.index_map, y.out.written + 1, Limit(y.out.popped))
      BY <1>5, <2>1, <2>2, <2>7, <2>10, <3>1
    <3>4. ASSUME NEW k \in Nat, Holds(rest, k)
          PROVE  y.buffer[(y.start_pos + k - y.out.written) % Capacity] = k
      <4>1. Holds(map, k)
        BY <2>1, <3>4
      <4>2. k < w + Capacity /\ buffer[(start + k - w) % Capacity] = k
        BY <1>10, <4>1
      <4>3. w + size <= k
        <5>1. w + size + 1 \in Nat
          BY <1>1, <2>1
        <5>2. w + size + 1 <= k
          BY <1>5, <2>1, <3>4, <5>1, HoldsBetween
        <5> QED BY <1>1, <2>1, <5>2
      <4>4. size \in 1 .. Capacity
        BY <1>2, <2>1, <2>8
      <4>5. (((start + size) % Capacity) + k - (w + size)) % Capacity = (start + k - w) % Capacity
        BY <1>1, <4>2, <4>3, <4>4, PopShifts
      <4> QED BY <1>12, <2>2, <2>7, <3>1, <4>2, <4>5
    <3>5. Core(y)
      BY <2>2, <2>9, <3>2, <3>3, <3>4 DEF Core, Stored, InPlace
    <3>6. ASSUME NEW k \in Nat
          PROVE  Seen(y, k) <=> Seen(x, k) \/ (index <= k /\ k < index + n /\ k < p + Capacity)
      <4>0. Seen(y, k) <=> k < w + size \/ Holds(rest, k)
        BY <2>2, <2>7, <3>1 DEF Seen
      <4>1. Seen(y, k) <=> k < w \/ Holds(map, k)
        BY <1>1, <2>1, <4>0
      <4>2. index + n <= p + Capacity
        BY <1>0, <1>1, <1>2, <2>10 DEF larger
      <4>3. Holds(map, k) <=> Holds(x.index_map, k) \/ (index <= k /\ k < index + n)
        BY <1>8
      <4>4. Seen(x, k) <=> k < w \/ Holds(x.index_map, k)
        BY <1>0 DEF Seen
      <4>5. k < index + n => k < p + Capacity
        BY <1>1, <1>2, <4>2
      <4> QED BY <4>1, <4>3, <4>4, <4>5
    <3> QED BY <1>0, <1>12, <2>7, <3>5, <3>6
  <2>11. CASE w = p + Capacity
    <3>0. hi <= w + 1 /\ p + Capacity - w = 0
      BY <1>1, <1>2, <1>5, <2>11
    <3>1. size = 1 /\ taken = 0
      BY <1>1, <1>5, <2>1, <2>3, <3>0 DEF smaller
    <3>2. DOMAIN rest = {}
      <4> SUFFICES ASSUME NEW s \in DOMAIN rest PROVE FALSE
        OBVIOUS
      <4>1. s \in Nat /\ rest[s] \in Nat /\ w + size + 1 <= s /\ s + rest[s] <= hi
        BY <2>1 DEF IntervalMap
      <4> QED BY <1>1, <1>5, <3>0, <3>1, <4>1
    <3>3. y.out.written = w
      BY <1>1, <2>7, <3>1
    <3>4. Prefix(y)
      BY <1>0, <1>1, <1>3, <2>6, <2>7, <3>1, <3>3 DEF Prefix, Core
    <3>5. \A k \in Nat : ~Holds(rest, k)
      BY <3>2 DEF Holds
    <3>6. Stored(y)
      BY <2>2, <3>2, <3>5 DEF Stored, IntervalMap, InPlace
    <3>7. \A k \in Nat : ~Holds(x.index_map, k)
      BY <1>8, <2>1, <3>1, <3>5, <1>6, <1>1, <1>5, <2>11, HoldsBetween
    <3>8. \A k \in Nat : ~(index <= k /\ k < p + Capacity)
      BY <1>0, <1>1, <1>2, <2>11
    <3> QED BY <1>0, <1>12, <2>2, <2>7, <2>9, <3>3, <3>4, <3>5, <3>6, <3>7, <3>8 DEF Core, Seen
  <2> QED BY <1>0, <1>1, <1>2, <1>3, <2>10, <2>11
<1> QED BY <1>13, <1>14
-----------------------------------------------------------------------------
(* push_substring                                                          *)

\* eof_index_ is the length of the stream once its last byte was received, and
\* the output ends there.
Ending(x) ==
  /\ x.eof_index \in {NoEof, StreamLen}
  /\ x.out.ended <=> (x.eof_index = StreamLen /\ x.out.written = StreamLen)
  /\ StreamLen > 0 /\ Seen(x, StreamLen - 1) => x.eof_index = StreamLen

Inv(x) == Core(x) /\ Ending(x)

\* The excerpt without what has been written.
LEMMA FreshPart ==
  ASSUME NEW first \in Nat, NEW len \in Nat, NEW f \in Nat, first <= f, f <= first + len,
         NEW n \in Nat, n = first + len - f
  PROVE  Part(SubSeq(Excerpt(first, len), f - first + 1, len), f, n)
<1> DEFINE e == Excerpt(first, len)
           g == SubSeq(e, f - first + 1, len)
<1>1. e \in Seq(Nat) /\ Len(e) = len /\ \A i \in 1 .. len : e[i] = first + i - 1
  BY DEF Excerpt
<1> HIDE DEF e
<1>2. g \in Seq(Nat) /\ Len(g) = n
  BY <1>1
<1>3. ASSUME NEW j \in 1 .. n
      PROVE  g[j] = f + j - 1
  <2>1. j + (f - first) \in 1 .. len /\ g[j] = e[(f - first + 1) + j - 1]
    BY <1>1
  <2> QED BY <1>1, <2>1
<1> QED BY <1>2, <1>3 DEF Part, e, g

\* A part shortened to a length that is not less than its own.
LEMMA PartWhole ==
  ASSUME NEW f \in Nat, NEW n \in Nat, NEW data, Part(data, f, n)
  PROVE  SubSeq(data, 1, n) = data /\ (data = << >> <=> n = 0)
<1>1. data \in Seq(Nat) /\ Len(data) = n
  BY DEF Part
<1> QED BY <1>1

\* FinishInput ends the output when it has reached eof_index_.
LEMMA FinishStep ==
  ASSUME NEW z, Core(z), z.eof_index \in {NoEof, StreamLen},
         z.out.ended => z.eof_index = StreamLen /\ z.out.written = StreamLen,
         NEW y, y = FinishInput(z)
  PROVE  /\ Core(y) /\ y.eof_index = z.eof_index /\ y.index_map = z.index_map
         /\ y.out.written = z.out.written /\ y.out.popped = z.out.popped
         /\ y.out.ended <=> (y.eof_index = StreamLen /\ y.out.written = StreamLen)
<1>1. NoEof # StreamLen
  BY ReassemblerAssumption
<1>2. CASE z.eof_index = StreamLen /\ z.out.written = StreamLen
  <2>1. y = [z EXCEPT !.out = end_input(@)]
    BY <1>1, <1>2 DEF FinishInput
  <2>2. z.out \in Stream /\ DOMAIN z = Fields
    BY DEF Core, Typed
  <2> DEFINE out == end_input(z.out)
  <2>3. /\ out \in Stream /\ out.written = z.out.written /\ out.popped = z.out.popped
        /\ out.ended = TRUE
    BY <2>2 DEF Stream, end_input
  <2> HIDE DEF out
  <2>4. y = [z EXCEPT !.out = out]
    BY <2>1 DEF out
  <2>5. /\ DOMAIN y = Fields /\ y.out = out /\ y.buffer = z.buffer /\ y.index_map = z.index_map
        /\ y.start_pos = z.start_pos /\ y.eof_index = z.eof_index /\ y.assembled = z.assembled
        /\ y.asserted = z.asserted
    BY <2>2, <2>4 DEF Fields
  <2>6. Core(y)
    BY <2>3, <2>5 DEF Core, Typed, Prefix, Stored
  <2> QED BY <1>2, <2>3, <2>5, <2>6
<1>3. CASE ~(z.eof_index = StreamLen /\ z.out.written = StreamLen)
  <2>1. y = z
    BY <1>1, <1>3 DEF FinishInput
  <2>2. z.out.ended \in BOOLEAN
    BY DEF Core, Typed, Stream
  <2> QED BY <1>3, <2>1, <2>2
<1> QED BY <1>2, <1>3
\* push_substring of an excerpt that the window admits and that does not end
\* before the output does.
LEMMA PushStep ==
  ASSUME NEW x, Inv(x), NEW first \in Nat, NEW len \in Nat, first + len <= StreamLen,
         first + len <= larger(x.out.popped + Capacity, x.out.written + 1),
         x.out.written <= first + len,
         NEW y, y = push_substring(x, Excerpt(first, len), first, first + len = StreamLen)
  PROVE  /\ Inv(y) /\ y.out.popped = x.out.popped
         /\ y.out.ended <=> y.out.written = StreamLen
         /\ \A k \in Nat : Seen(y, k) <=>
              Seen(x, k) \/ (first <= k /\ k < first + len /\ k < x.out.popped + Capacity)
<1> DEFINE w == x.out.written
           p == x.out.popped
           f == larger(first, w)
           n == first + len - f
           last == first + len = StreamLen
           fresh == Unwritten(x, Excerpt(first, len), first)
           max_len == Capacity - (f - w)
           sv == SubSeq(fresh, 1, smaller(Len(fresh), max_len))
           marked == IF last THEN [x EXCEPT !.eof_index = f + Len(sv)] ELSE x
           z == IF sv # << >> THEN StoreAndPop(marked, sv, f) ELSE marked
<1>1. Core(x) /\ Ending(x)
  BY DEF Inv
<1>2. x.out \in Stream /\ w \in Nat /\ p \in Nat /\ p <= w /\ DOMAIN x = Fields
  BY <1>1 DEF Core, Typed, Prefix, Stream
<1>3. Capacity \in Nat /\ Capacity > 0 /\ StreamLen \in Nat /\ NoEof \notin Nat
  BY ReassemblerAssumption
<1>4. /\ f \in Nat /\ n \in Nat /\ first <= f /\ w <= f /\ f + n = first + len /\ n = first + len - f
      /\ f <= first + len /\ n <= max_len /\ max_len \in Nat
      /\ f = first \/ f = w
  BY <1>2, <1>3 DEF larger
<1>5. Len(Excerpt(first, len)) = len
  BY DEF Excerpt
<1>6. fresh = SubSeq(Excerpt(first, len), f - first + 1, len)
  BY <1>5 DEF Unwritten
<1>7. y = FinishInput(z)
  <2>1. ~(first + Len(Excerpt(first, len)) < w) /\ ~(max_len < 0)
    <3> HIDE DEF max_len, f, w
    <3>1. first + Len(Excerpt(first, len)) = first + len /\ w <= first + len
      BY <1>5 DEF w
    <3>2. ~(max_len < 0)
      BY <1>4
    <3> QED BY <1>2, <3>1, <3>2
  <2> QED BY <2>1 DEF push_substring
<1> HIDE DEF f, n, fresh, max_len
<1>8. Part(fresh, f, n)
  BY <1>4, <1>6, FreshPart
<1>9. smaller(Len(fresh), max_len) = n
  BY <1>4, <1>8 DEF Part, smaller
<1>10. Part(sv, f, n) /\ Len(sv) = n /\ (sv = << >> <=> n = 0)
  <2>1. sv = fresh
    BY <1>4, <1>8, <1>9, PartWhole
  <2>2. Len(fresh) = n /\ (fresh = << >> <=> n = 0)
    BY <1>4, <1>8, PartWhole DEF Part
  <2> HIDE DEF sv
  <2> QED BY <1>8, <2>1, <2>2
<1> HIDE DEF sv
<1>11. /\ Core(marked) /\ marked.out = x.out /\ marked.index_map = x.index_map
       /\ marked.eof_index = IF last THEN StreamLen ELSE x.eof_index
  <2>1. CASE last
    <3>1. f + Len(sv) = StreamLen
      BY <1>4, <1>10, <2>1
    <3>2. marked = [x EXCEPT !.eof_index = StreamLen]
      BY <2>1, <3>1
    <3>3. /\ DOMAIN marked = Fields /\ marked.out = x.out /\ marked.buffer = x.buffer
          /\ marked.index_map = x.index_map /\ marked.start_pos = x.start_pos
          /\ marked.eof_index = StreamLen /\ marked.assembled = x.assembled
          /\ marked.asserted = x.asserted
      BY <1>2, <3>2 DEF Fields
    <3> HIDE DEF marked
    <3>4. Core(marked)
      BY <1>1, <3>3 DEF Core, Typed, Prefix, Stored
    <3> QED BY <2>1, <3>3, <3>4
  <2>2. CASE ~last
    BY <1>1, <2>2
  <2> QED BY <2>1, <2>2
<1> HIDE DEF marked
<1>12. /\ Core(z) /\ z.out.popped = p /\ z.out.ended = x.out.ended
       /\ z.eof_index = marked.eof_index
       /\ \A k \in Nat : Seen(z, k) <=> Seen(x, k) \/ (f <= k /\ k < f + n /\ k < p + Capacity)
       /\ n = 0 => z.out.written = w
  <2>1. \A k \in Nat : Seen(marked, k) <=> Seen(x, k)
    BY <1>11 DEF Seen
  <2>2. CASE n = 0
    <3>1. z = marked
      BY <1>10, <2>2
    <3>2. \A k \in Nat : ~(f <= k /\ k < f + n)
      BY <1>4, <2>2
    <3> QED BY <1>11, <2>1, <3>1, <3>2
  <2>3. CASE n > 0
    <3>1. z = StoreAndPop(marked, sv, f)
      BY <1>4, <1>10, <2>3
    <3>2. /\ marked.out.written <= f /\ f + n <= StreamLen
          /\ f + n <= larger(marked.out.popped + Capacity, marked.out.written + 1)
      BY <1>4, <1>11
    <3> HIDE DEF z
    <3>3. /\ Core(z)
          /\ z.out.popped = marked.out.popped /\ z.out.ended = marked.out.ended
          /\ z.eof_index = marked.eof_index
          /\ \A k \in Nat : Seen(z, k) <=>
                Seen(marked, k) \/ (f <= k /\ k < f + n /\ k < marked.out.popped + Capacity)
      BY <1>4, <1>10, <1>11, <2>3, <3>1, <3>2, StoreStep
    <3>4. n # 0
      BY <1>4, <2>3
    <3> QED BY <1>11, <2>1, <3>3, <3>4, SMTT(30)
  <2> QED BY <1>4, <2>2, <2>3
<1> HIDE DEF z
<1>13. z.eof_index \in {NoEof, StreamLen}
  BY <1>1, <1>11, <1>12 DEF Ending
<1>14. z.out.ended => z.eof_index = StreamLen /\ z.out.written = StreamLen
  <2>1. x.out.ended => x.eof_index = StreamLen /\ w = StreamLen
    BY <1>1 DEF Ending
  <2>2. w = StreamLen => n = 0
    BY <1>3, <1>4
  <2> QED BY <1>11, <1>12, <2>1, <2>2
<1>15. /\ Core(y) /\ y.eof_index = z.eof_index /\ y.index_map = z.index_map
       /\ y.out.written = z.out.written /\ y.out.popped = z.out.popped
       /\ y.out.ended <=> (y.eof_index = StreamLen /\ y.out.written = StreamLen)
  BY <1>7, <1>12, <1>13, <1>14, FinishStep
<1>16. \A k \in Nat : Seen(y, k) <=> Seen(x, k) \/ (f <= k /\ k < f + n /\ k < p + Capacity)
  BY <1>12, <1>15 DEF Seen
<1>17. \A k \in Nat : Seen(y, k) <=>
         Seen(x, k) \/ (first <= k /\ k < first + len /\ k < p + Capacity)
  <2> TAKE k \in Nat
  <2>1. k < w => Seen(x, k)
    BY DEF Seen
  <2>2. CASE k < w
    BY <1>16, <2>1, <2>2
  <2>3. CASE k >= w
    <3>1. f <= k /\ k < f + n <=> first <= k /\ k < first + len
      BY <1>2, <1>4, <2>3
    <3> QED BY <1>16, <3>1
  <2> QED BY <1>2, <2>2, <2>3
<1>18. ASSUME StreamLen > 0, Seen(y, StreamLen - 1)
       PROVE  y.eof_index = StreamLen
  <2>1. StreamLen - 1 \in Nat
    BY <1>3, <1>18
  <2>2. CASE Seen(x, StreamLen - 1)
    BY <1>1, <1>11, <1>12, <1>15, <1>18, <2>2 DEF Ending
  <2>3. CASE ~Seen(x, StreamLen - 1)
    <3>1. StreamLen - 1 < first + len
      BY <1>17, <1>18, <2>1, <2>3
    <3>2. last
      BY <1>3, <3>1
    <3> QED BY <1>11, <1>12, <1>15, <3>2
  <2> QED BY <2>2, <2>3
<1>19. Ending(y)
  BY <1>13, <1>15, <1>18 DEF Ending
<1>20. y.out.written = StreamLen => y.eof_index = StreamLen
  <2>1. CASE StreamLen = 0
    <3>1. last
      BY <1>3, <2>1
    <3> QED BY <1>11, <1>12, <1>15, <3>1
  <2>2. CASE StreamLen > 0
    <3>1. y.out.written = StreamLen => Seen(y, StreamLen - 1)
      BY <1>3, <2>2 DEF Seen
    <3> QED BY <1>18, <2>2, <3>1
  <2> QED BY <1>3, <2>1, <2>2
<1> QED BY <1>12, <1>15, <1>17, <1>19, <1>20 DEF Inv
-----------------------------------------------------------------------------
(* The invariant holds                                                     *)

\* What the program holds, as the sets that the properties name.
LEMMA SeenSet ==
  ASSUME NEW x, Inv(x)
  PROVE  /\ \A k : k \in Held(x) <=> k \in Nat /\ Holds(x.index_map, k)
         /\ \A k : k \in 0 .. x.out.written - 1 \cup Held(x) <=> k \in Nat /\ Seen(x, k)
         /\ x.out.written \in 0 .. StreamLen /\ ~Seen(x, x.out.written)
<1>1. /\ IntervalMap(x.index_map, x.out.written + 1, Limit(x.out.popped))
      /\ x.out.written \in Nat /\ x.out.popped \in Nat /\ x.out.written <= Limit(x.out.popped)
  BY DEF Inv, Core, Typed, Prefix, Stored, Stream
<1>2. \A s \in DOMAIN x.index_map : s \in Nat /\ x.index_map[s] \in Nat
  BY <1>1 DEF IntervalMap
<1>3. \A k : k \in Held(x) <=> k \in Nat /\ Holds(x.index_map, k)
  BY <1>2 DEF Held, Holds
<1>4. \A k : k \in 0 .. x.out.written - 1 \cup Held(x) <=> k \in Nat /\ Seen(x, k)
  BY <1>1, <1>3 DEF Seen
<1>5. ~Seen(x, x.out.written)
  BY <1>1 DEF Seen, Holds, IntervalMap
<1>6. x.out.written \in 0 .. StreamLen
  BY <1>1, ReassemblerAssumption DEF Limit, smaller
<1> QED BY <1>3, <1>4, <1>5, <1>6

\* The reader takes bytes of the output, which opens the window.
LEMMA ReadStep ==
  ASSUME NEW x, Inv(x), NEW n \in 1 .. Capacity, n <= buffer_size(x.out),
         NEW y, y = [x EXCEPT !.out = read(@, n)]
  PROVE  /\ Inv(y) /\ y.index_map = x.index_map /\ y.out.popped = x.out.popped + n
         /\ y.out.written = x.out.written /\ y.out.ended = x.out.ended
<1>1. Core(x) /\ Ending(x) /\ x.out \in Stream /\ DOMAIN x = Fields
  BY DEF Inv, Core, Typed
<1>2. Capacity \in Nat /\ StreamLen \in Nat
  BY ReassemblerAssumption
<1> DEFINE out == read(x.out, n)
<1>3. /\ out \in Stream /\ out.written = x.out.written /\ out.popped = x.out.popped + n
      /\ out.ended = x.out.ended /\ out.popped <= out.written
  BY <1>1, <1>2 DEF Stream, read, smaller, buffer_size
<1> HIDE DEF out
<1>4. /\ DOMAIN y = Fields /\ y.out = out /\ y.buffer = x.buffer /\ y.index_map = x.index_map
      /\ y.start_pos = x.start_pos /\ y.eof_index = x.eof_index /\ y.assembled = x.assembled
      /\ y.asserted = x.asserted
  BY <1>1 DEF Fields, out
<1>5. /\ Limit(x.out.popped) \in Nat /\ Limit(out.popped) \in Nat /\ x.out.written + 1 \in Nat
      /\ Limit(x.out.popped) <= Limit(out.popped)
  BY <1>1, <1>2, <1>3 DEF Limit, smaller, Stream
<1>6. IntervalMap(y.index_map, y.out.written + 1, Limit(y.out.popped))
  <2>1. IntervalMap(x.index_map, x.out.written + 1, Limit(x.out.popped))
    BY <1>1 DEF Core, Stored
  <2>2. x.out.written + 1 <= x.out.written + 1
    BY <1>5
  <2>3. IntervalMap(x.index_map, x.out.written + 1, Limit(out.popped))
    BY <1>5, <2>1, <2>2, WiderBounds
  <2> QED BY <1>3, <1>4, <2>3
<1>7. y.out.written <= Limit(y.out.popped)
  <2>1. x.out.written <= Limit(x.out.popped) /\ x.out.written \in Nat
    BY <1>1 DEF Core, Prefix, Stream
  <2> QED BY <1>3, <1>4, <1>5, <2>1
<1>8. Core(y)
  BY <1>1, <1>3, <1>4, <1>6, <1>7 DEF Core, Typed, Prefix, Stored
<1>9. Ending(y)
  BY <1>1, <1>3, <1>4 DEF Ending, Seen
<1> QED BY <1>3, <1>4, <1>8, <1>9 DEF Inv

\* The new reassembler.
LEMMA InitInv == Init => Inv(r)
<1> SUFFICES ASSUME Init PROVE Inv(r)
  OBVIOUS
<1>1. Capacity \in Nat /\ Capacity > 0 /\ StreamLen \in Nat
  BY ReassemblerAssumption
<1>2. /\ DOMAIN r = Fields /\ r.index_map = << >> /\ r.start_pos = 0 /\ r.eof_index = NoEof
      /\ r.out = NewStream /\ r.assembled = << >> /\ r.asserted
      /\ DOMAIN r.buffer = 0 .. Capacity - 1
  BY DEF Init, NewReassembler, Fields
<1>3. /\ NewStream \in Stream /\ NewStream.written = 0 /\ NewStream.popped = 0
      /\ NewStream.ended = FALSE
  BY DEF NewStream, Stream
<1>4. DOMAIN r.index_map = {}
  BY <1>2
<1>5. Typed(r)
  BY <1>1, <1>2, <1>3 DEF Typed
<1>6. Part(r.assembled, 0, 0)
  BY <1>2 DEF Part
<1>7. Prefix(r)
  BY <1>1, <1>2, <1>3, <1>6 DEF Prefix, Limit, smaller
<1>8. \A k : ~Holds(r.index_map, k)
  BY <1>4 DEF Holds
<1>9. Stored(r)
  BY <1>4, <1>8 DEF Stored, IntervalMap, InPlace
<1>10. ~(StreamLen > 0 /\ Seen(r, StreamLen - 1))
  BY <1>1, <1>2, <1>3, <1>8 DEF Seen
<1>11. NoEof # StreamLen
  BY ReassemblerAssumption
<1> QED BY <1>2, <1>3, <1>5, <1>7, <1>9, <1>10, <1>11 DEF Inv, Core, Ending

\* An excerpt that ends before the output does changes nothing.
LEMMA OldExcerpt ==
  ASSUME NEW first \in Nat, NEW len \in Nat, first + len < r.out.written, Push(first, len)
  PROVE  r' = r
<1>1. Len(Excerpt(first, len)) = len
  BY DEF Excerpt
<1> QED BY <1>1 DEF Push, push_substring

\* One step keeps the invariant.
LEMMA NextInv == Inv(r) /\ [ReceiveInWindow \/ Read]_r => Inv(r')
<1> SUFFICES ASSUME Inv(r), [ReceiveInWindow \/ Read]_r PROVE Inv(r')
  OBVIOUS
<1>1. ASSUME NEW first \in 0 .. StreamLen, NEW len \in 0 .. StreamLen - first,
             InWindow(first, len), Push(first, len)
      PROVE  Inv(r')
  <2>1. /\ first \in Nat /\ len \in Nat /\ first + len <= StreamLen /\ StreamLen \in Nat
        /\ r.out.written \in Nat
    BY ReassemblerAssumption DEF Inv, Core, Typed, Stream
  <2>2. CASE first + len < r.out.written
    BY <1>1, <2>1, <2>2, OldExcerpt
  <2>3. CASE r.out.written <= first + len
    BY <1>1, <2>1, <2>3, PushStep DEF InWindow, Push
  <2> QED BY <2>1, <2>2, <2>3
<1>2. CASE Read
  BY <1>2, ReadStep, ZenonT(60) DEF Read
<1>3. CASE UNCHANGED r
  BY <1>3
<1> QED BY <1>1, <1>2, <1>3 DEF ReceiveInWindow
-----------------------------------------------------------------------------
(* Theorems                                                                *)

\* The invariant holds in every reachable state.
LEMMA AlwaysInv == Spec => []Inv(r)
<1>1. Inv(r) /\ [ReceiveInWindow \/ Read]_r => Inv(r)'
  BY NextInv
<1> QED BY InitInv, <1>1, PTL DEF Spec

\* The output of StreamReassembler is a prefix of the peer's stream, whatever
\* order, overlap or repetition its substrings arrive in.
THEOREM PutsOutPrefix == Spec => []OutputIsPrefix
<1>1. Inv(r) => OutputIsPrefix
  <2> SUFFICES ASSUME Inv(r) PROVE OutputIsPrefix
    OBVIOUS
  <2>1. Part(r.assembled, 0, r.out.written)
    BY DEF Inv, Core, Prefix
  <2>2. Len(r.assembled) = r.out.written /\ \A j \in 1 .. r.out.written : r.assembled[j] = 0 + j - 1
    BY <2>1 DEF Part
  <2>3. r.out.written \in Nat
    BY DEF Inv, Core, Typed, Stream
  <2> QED BY <2>2, <2>3 DEF OutputIsPrefix
<1> QED BY AlwaysInv, <1>1, PTL

\* Every byte that UnAssembleBuffer stores is on the slot from which it will be
\* popped, however often the ring has turned.
THEOREM StoresInPlace == Spec => []StoredInPlace
<1>1. Inv(r) => StoredInPlace
  <2> SUFFICES ASSUME Inv(r), NEW k \in Held(r)
               PROVE  r.buffer[(r.start_pos + k - r.out.written) % Capacity] = k
    BY DEF StoredInPlace
  <2>1. k \in Nat /\ Holds(r.index_map, k)
    BY SeenSet
  <2> QED BY <2>1 DEF Inv, Core, Stored, InPlace
<1> QED BY AlwaysInv, <1>1, PTL

\* The intervals of UnAssembleBuffer never touch, never reach back to the output
\* and never overrun the ring, and no assert of push_substring fails.
THEOREM KeepsIntervalsApart == Spec => [](IntervalsApart /\ r.asserted)
<1>1. Inv(r) => IntervalsApart /\ r.asserted
  <2> SUFFICES ASSUME Inv(r) PROVE IntervalsApart /\ r.asserted
    OBVIOUS
  <2>1. /\ IntervalMap(r.index_map, r.out.written + 1, Limit(r.out.popped)) /\ r.asserted
        /\ r.out.written \in Nat /\ r.out.popped \in Nat /\ r.out.popped <= r.out.written
    BY DEF Inv, Core, Typed, Stored, Prefix, Stream
  <2>2. Limit(r.out.popped) \in Nat /\ Limit(r.out.popped) <= r.out.written + Capacity
    BY <2>1, ReassemblerAssumption DEF Limit, smaller
  <2> QED BY <2>1, <2>2, ReassemblerAssumption DEF IntervalsApart, IntervalMap
<1> QED BY AlwaysInv, <1>1, PTL

\* The length of the output is the first index that has not been received.
LEMMA OutputIsFrontier ==
  ASSUME NEW x, Inv(x)
  PROVE  Abstract!Frontier(0 .. x.out.written - 1 \cup Held(x)) = x.out.written
<1> DEFINE s == 0 .. x.out.written - 1 \cup Held(x)
           w == x.out.written
<1>1. w \in 0 .. StreamLen /\ w \notin s /\ 0 .. w - 1 \subseteq s
  BY SeenSet
<1>2. StreamLen \in Nat
  BY ReassemblerAssumption
<1> HIDE DEF s, w
<1>3. ASSUME NEW k \in 0 .. StreamLen, k \notin s, 0 .. k - 1 \subseteq s
      PROVE  k = w
  <2>1. ~(k < w)
    BY <1>1, <1>2, <1>3
  <2>2. ~(w < k)
    BY <1>1, <1>2, <1>3
  <2> QED BY <1>1, <1>2, <2>1, <2>2
<1>4. Abstract!Frontier(s) = w
  BY <1>1, <1>3 DEF Abstract!Frontier
<1> QED BY <1>4 DEF s, w

\* StreamReassembler implements InOrderAssembly: nothing received inside the
\* window is forgotten, what becomes contiguous is put out in the same call, and
\* the output ends with the last byte of the stream.
THEOREM AssemblesInOrder == Spec => ImplementsAssembly
<1>1. Init => Abstract!Init
  <2> SUFFICES ASSUME Init PROVE Abstract!Init
    OBVIOUS
  <2>1. /\ r.out.written = 0 /\ r.out.popped = 0 /\ r.out.ended = FALSE /\ r.index_map = << >>
    BY DEF Init, NewReassembler, NewStream
  <2>2. Held(r) = {}
    BY <2>1 DEF Held
  <2>3. 0 .. r.out.written - 1 = {}
    BY <2>1
  <2> QED BY <2>1, <2>2, <2>3 DEF Abstract!Init
<1>2. Inv(r) /\ [ReceiveInWindow \/ Read]_r => [Abstract!Next]_(Abstract!vars)
  <2> SUFFICES ASSUME Inv(r), [ReceiveInWindow \/ Read]_r PROVE [Abstract!Next]_(Abstract!vars)
    OBVIOUS
  <2>1. ASSUME r' = r PROVE UNCHANGED Abstract!vars
    BY <2>1 DEF Abstract!vars, Held
  <2>2. ASSUME NEW first \in 0 .. StreamLen, NEW len \in 0 .. StreamLen - first,
               InWindow(first, len), Push(first, len)
        PROVE  Abstract!Receive(first, len) \/ UNCHANGED Abstract!vars
    <3>1. /\ first \in Nat /\ len \in Nat /\ first + len <= StreamLen /\ StreamLen \in Nat
          /\ r.out.written \in Nat
      BY ReassemblerAssumption DEF Inv, Core, Typed, Stream
    <3>2. CASE first + len < r.out.written
      BY <2>1, <2>2, <3>1, <3>2, OldExcerpt
    <3>3. CASE r.out.written <= first + len
      <4>1. /\ Inv(r') /\ r'.out.popped = r.out.popped
            /\ r'.out.ended <=> r'.out.written = StreamLen
            /\ \A k \in Nat : Seen(r', k) <=>
                 Seen(r, k) \/ (first <= k /\ k < first + len /\ k < r.out.popped + Capacity)
        BY <2>2, <3>1, <3>3, PushStep DEF InWindow, Push
      <4>2. r'.out.ended = (r'.out.written = StreamLen)
        <5>1. r'.out.ended \in BOOLEAN
          BY <4>1 DEF Inv, Core, Typed, Stream
        <5> QED BY <4>1, <5>1
      <4>3. Abstract!Frontier(0 .. r'.out.written - 1 \cup Held(r')) = r'.out.written
        BY <4>1, OutputIsFrontier
      <4> DEFINE before == 0 .. r.out.written - 1 \cup Held(r)
                 after == 0 .. r'.out.written - 1 \cup Held(r')
                 new == {k \in first .. first + len - 1 : k < r.out.popped + Capacity}
      <4>4. after = before \cup new
        <5>1. \A k : k \in after <=> k \in Nat /\ Seen(r', k)
          BY <4>1, SeenSet
        <5>2. \A k : k \in before <=> k \in Nat /\ Seen(r, k)
          BY SeenSet
        <5>3. \A k : k \in new <=> k \in Nat /\ first <= k /\ k < first + len
                                   /\ k < r.out.popped + Capacity
          BY <3>1
        <5> HIDE DEF before, after, new
        <5>4. \A k : k \in after <=> k \in before \cup new
          BY <4>1, <5>1, <5>2, <5>3
        <5> QED BY <5>4
      <4> QED BY <4>1, <4>2, <4>3, <4>4 DEF Abstract!Receive, Held
    <3> QED BY <3>1, <3>2, <3>3
  <2>3. ASSUME NEW n \in 1 .. Capacity, n <= buffer_size(r.out), r' = [r EXCEPT !.out = read(@, n)]
        PROVE  n \in 0 .. Capacity /\ Abstract!Consume(n)
    <3>1. /\ r'.index_map = r.index_map /\ r'.out.popped = r.out.popped + n
          /\ r'.out.written = r.out.written /\ r'.out.ended = r.out.ended
      BY <2>3, ReadStep, ZenonT(60)
    <3>2. Held(r') = Held(r)
      BY <3>1 DEF Held
    <3>3. n <= r.out.written - r.out.popped
      BY <2>3 DEF buffer_size
    <3>4. 0 .. r'.out.written - 1 \cup Held(r') = 0 .. r.out.written - 1 \cup Held(r)
      BY <3>1, <3>2
    <3>5. n \in 0 .. Capacity
      BY <2>3, ReassemblerAssumption
    <3> QED BY <3>1, <3>3, <3>4, <3>5 DEF Abstract!Consume
  <2>4. CASE ReceiveInWindow
    BY <2>2, <2>4 DEF ReceiveInWindow, Abstract!Next
  <2>5. CASE Read
    BY <2>3, <2>5 DEF Read, Abstract!Next
  <2> QED BY <2>1, <2>4, <2>5
<1> QED BY AlwaysInv, <1>1, <1>2, PTL DEF Spec, ImplementsAssembly, Abstract!Spec
=============================================================================
