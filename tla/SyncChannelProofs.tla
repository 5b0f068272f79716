------------------------- MODULE SyncChannelProofs -------------------------
(***************************************************************************)
(* The safety of the synchronisation engine, for every pair of ends, every *)
(* set of cells and values and every ring depth.                           *)
(***************************************************************************)
EXTENDS SyncChannel, SequenceTheorems, TLAPS

-----------------------------------------------------------------------------
(* Rings. *)

\* The sequence numbers of a ring grow by at least one per entry.
Sorted(ring) ==
    \A i, j \in 1..Len(ring) :
        i <= j => ring[j].seq - ring[i].seq >= j - i

\* A ring is a sequence of states, so its last entry is one.
LEMMA LastIsState ==
    ASSUME NEW ring \in Seq(State), Len(ring) >= 1
    PROVE  /\ Last(ring) \in State
           /\ Last(ring).seq \in Nat
           /\ Last(ring).val \in Content
  <1>1. Len(ring) \in Nat /\ Len(ring) \in 1..Len(ring)
    BY LenProperties
  <1>2. Last(ring) \in State
    BY <1>1, ElementOfSeq DEF Last
  <1> QED BY <1>2 DEF State

\* `find` returns an entry of the ring with the number asked for.
LEMMA EntryIsFound ==
    ASSUME NEW ring \in Seq(State), NEW n, Holds(ring, n)
    PROVE  \E i \in 1..Len(ring) : Entry(ring, n) = ring[i] /\ ring[i].seq = n
  BY Zenon DEF Holds, Entry

\* Pushing a state puts it last.
LEMMA AppendRing ==
    ASSUME NEW ring \in Seq(State), NEW s \in State
    PROVE  /\ Append(ring, s) \in Seq(State)
           /\ Len(Append(ring, s)) = Len(ring) + 1
           /\ Len(ring) \in Nat
           /\ \A i \in 1..Len(ring) : Append(ring, s)[i] = ring[i]
           /\ Append(ring, s)[Len(ring) + 1] = s
  BY AppendProperties, LenProperties

\* Trimming a ring keeps its newest entries.
LEMMA CapKeepsNewest ==
    ASSUME NEW ring \in Seq(State), NEW n \in Nat \ {0}, Len(ring) >= 1
    PROVE  \E k \in 0..(Len(ring) - 1) :
              /\ Cap(ring, n) \in Seq(State)
              /\ Len(Cap(ring, n)) = Len(ring) - k
              /\ Len(ring) - k <= n
              /\ \A i \in 1..(Len(ring) - k) : Cap(ring, n)[i] = ring[i + k]
              /\ k > 0 => k = Len(ring) - n
  <1> DEFINE L == Len(ring)
  <1>0. L \in Nat /\ \A i \in 1..L : ring[i] \in State
    BY LenProperties, ElementOfSeq
  <1>1. CASE L > n
    <2> DEFINE k == L - n
    <2>1. k \in 0..(L - 1) /\ Cap(ring, n) = SubSeq(ring, k + 1, L)
      BY <1>0, <1>1 DEF Cap
    <2>2. \A i \in (k + 1)..L : ring[i] \in State
      BY <1>0, <2>1
    <2> HIDE DEF k, L
    <2>3. /\ SubSeq(ring, k + 1, L) \in Seq(State)
          /\ Len(SubSeq(ring, k + 1, L)) = L - (k + 1) + 1
          /\ \A i \in 1..(L - (k + 1) + 1) :
                SubSeq(ring, k + 1, L)[i] = ring[(k + 1) + i - 1]
      <3>1. k + 1 \in Int /\ L \in Int /\ k + 1 <= L
        BY <1>0, <2>1
      <3> QED BY <3>1, <2>2, SubSeqProperties
    <2>4. L - (k + 1) + 1 = L - k /\ L - k = n
      BY <1>0, <2>1 DEF k
    <2>5. \A i \in 1..(L - k) : SubSeq(ring, k + 1, L)[i] = ring[i + k]
      <3> TAKE i \in 1..(L - k)
      <3>1. (k + 1) + i - 1 = i + k
        BY <1>0, <2>1
      <3> QED BY <2>3, <2>4, <3>1
    <2>6. k > 0 => k = L - n
      BY DEF k
    <2>7. k \in 0..(Len(ring) - 1)
      BY <2>1 DEF L
    <2> WITNESS k \in 0..(Len(ring) - 1)
    <2>8. L - k <= n
      BY <1>0, <2>1, <2>4
    <2> USE DEF L
    <2> QED BY <2>1, <2>3, <2>4, <2>5, <2>6, <2>8
  <1>2. CASE ~(L > n)
    <2>1. Cap(ring, n) = ring
      BY <1>2 DEF Cap
    <2>2. 0 \in 0..(Len(ring) - 1)
      BY <1>0
    <2> WITNESS 0 \in 0..(Len(ring) - 1)
    <2>3. Len(ring) - 0 = Len(ring) /\ \A i \in 1..Len(ring) : i + 0 = i
      BY <1>0
    <2> QED BY <1>0, <1>2, <2>1, <2>3
  <1> QED BY <1>1, <1>2

\* Pruning below n drops a prefix of entries, all of them older than n.
LEMMA PopBelowDropsOlder ==
    ASSUME NEW ring \in Seq(State), NEW n \in Nat, Sorted(ring),
           \/ ring = <<>>
           \/ \A i \in 1..Len(ring) : ring[i].seq >= n
           \/ Holds(ring, n)
    PROVE  \E k \in 0..Len(ring) :
              /\ PopBelow(ring, n) \in Seq(State)
              /\ Len(PopBelow(ring, n)) = Len(ring) - k
              /\ \A i \in 1..(Len(ring) - k) : PopBelow(ring, n)[i] = ring[i + k]
              /\ \A i \in 1..k : ring[i].seq < n
  <1> DEFINE L == Len(ring)
             First0(k) == /\ \A i \in 1..(k - 1) : ring[i].seq < n
                          /\ k <= L => ring[k].seq >= n
             c == CHOOSE k \in 1..(L + 1) : First0(k)
  <1>0. L \in Nat /\ \A i \in 1..L : ring[i] \in State /\ ring[i].seq \in Nat
    <2>1. L \in Nat /\ \A i \in 1..L : ring[i] \in State
      BY LenProperties, ElementOfSeq
    <2> QED BY <2>1 DEF State
  <1>1. \E k \in 1..(L + 1) : First0(k)
    <2>1. CASE ring = <<>>
      <3>1. L = 0
        BY <2>1
      <3>2. First0(1) /\ 1 \in 1..(L + 1)
        BY <3>1
      <3> QED BY <3>2
    <2>2. CASE \A i \in 1..L : ring[i].seq >= n
      <3>1. First0(1) /\ 1 \in 1..(L + 1)
        BY <2>2, <1>0
      <3> QED BY <3>1
    <2>3. CASE Holds(ring, n)
      <3>1. PICK j \in 1..L : ring[j].seq = n
        BY <2>3 DEF Holds
      <3>2. \A i \in 1..(j - 1) : ring[i].seq < n
        <4> TAKE i \in 1..(j - 1)
        <4>1. i \in 1..L /\ i <= j /\ j - i >= 1
          BY <1>0
        <4>2. ring[j].seq - ring[i].seq >= j - i
          BY <4>1 DEF Sorted
        <4> QED BY <1>0, <3>1, <4>1, <4>2
      <3>3. First0(j) /\ j \in 1..(L + 1)
        BY <1>0, <3>1, <3>2
      <3> QED BY <3>3
    <2> QED BY <2>1, <2>2, <2>3
  <1>2. c \in 1..(L + 1) /\ First0(c)
    BY ZenonT(30), <1>1
  <1>3. PopBelow(ring, n) = SubSeq(ring, c, L)
    BY DEF PopBelow
  <1> HIDE DEF c
  <1>4. \A i \in c..L : ring[i] \in State
    BY <1>0, <1>2
  <1>5. /\ SubSeq(ring, c, L) \in Seq(State)
        /\ Len(SubSeq(ring, c, L)) = IF c <= L THEN L - c + 1 ELSE 0
        /\ \A i \in 1..(L - c + 1) : SubSeq(ring, c, L)[i] = ring[c + i - 1]
    <2>1. c \in Int /\ L \in Int
      BY <1>0, <1>2
    <2> HIDE DEF L
    <2> QED BY <2>1, <1>4, SubSeqProperties
  <1> DEFINE k == c - 1
  <1>6. k \in 0..L /\ Len(SubSeq(ring, c, L)) = L - k
    BY <1>0, <1>2, <1>5
  <1>7. \A i \in 1..(L - k) : SubSeq(ring, c, L)[i] = ring[i + k]
    <2> TAKE i \in 1..(L - k)
    <2>1. i \in 1..(L - c + 1) /\ c + i - 1 = i + k
      BY <1>0, <1>2
    <2> QED BY <1>5, <2>1
  <1>8. \A i \in 1..k : ring[i].seq < n
    BY <1>2
  <1> QED BY Zenon, <1>3, <1>5, <1>6, <1>7, <1>8

-----------------------------------------------------------------------------
(* Diffs. *)

\* A patched content is a content.
LEMMA PatchIsContent ==
    ASSUME NEW base \in Content, NEW diff \in Diff
    PROVE  Patch(base, diff) \in Content
  <1>1. PICK S \in SUBSET Cell : diff \in [S -> Val]
    BY DEF Diff
  <1> QED BY <1>1 DEF Patch, Content

\* A diff turns its base into its target.
LEMMA DiffRoundTrips ==
    ASSUME NEW base \in Content, NEW target \in Content
    PROVE  /\ diff_from(target, base) \in Diff
           /\ Patch(base, diff_from(target, base)) = target
  <1> DEFINE S == {c \in Cell : target[c] # base[c]}
  <1>1. diff_from(target, base) \in [S -> Val] /\ S \in SUBSET Cell
    BY DEF diff_from, Content
  <1>2. diff_from(target, base) \in Diff
    BY <1>1 DEF Diff
  <1>3. \A c \in Cell : Patch(base, diff_from(target, base))[c] = target[c]
    BY DEF Patch, diff_from
  <1>4. Patch(base, diff_from(target, base)) \in [Cell -> Val]
    BY <1>2, PatchIsContent DEF Content
  <1> QED BY <1>2, <1>3, <1>4 DEF Content

\* A full state replaces whatever is held.
LEMMA FullDiffReplaces ==
    ASSUME NEW base \in Content, NEW target \in Content
    PROVE  /\ full_diff(target) \in Diff
           /\ Patch(base, full_diff(target)) = target
  <1>1. full_diff(target) \in Diff
    BY DEF full_diff, Diff, Content
  <1>2. \A c \in Cell : Patch(base, full_diff(target))[c] = target[c]
    BY DEF Patch, full_diff, Content
  <1>3. Patch(base, full_diff(target)) \in [Cell -> Val]
    BY <1>1, PatchIsContent DEF Content
  <1> QED BY <1>1, <1>2, <1>3 DEF Content

-----------------------------------------------------------------------------
(* What one call of on_frame does to the ring. *)

\* The base of a frame is an entry of the ring, so the result is a state.
LEMMA BaseIsEntry ==
    ASSUME NEW r \in Receiver, NEW f \in Frame, Len(r.ring) >= 1
    PROVE  /\ \E i \in 1..Len(r.ring) : Base(r, f) = r.ring[i]
           /\ Base(r, f) \in State
           /\ Applied(r, f) \in State
           /\ Applied(r, f).seq = f.my_state
           /\ Applied(r, f).val = Patch(Base(r, f).val, f.diff)
  <1>1. r.ring \in Seq(State)
    BY DEF Receiver
  <1>2. Len(r.ring) \in Nat /\ Len(r.ring) \in 1..Len(r.ring)
    BY <1>1, LenProperties
  <1>3. \E i \in 1..Len(r.ring) : Base(r, f) = r.ring[i]
    <2>1. CASE f.from_state # 0 /\ Holds(r.ring, f.from_state)
      BY <1>1, <2>1, EntryIsFound DEF Base
    <2>2. CASE ~(f.from_state # 0 /\ Holds(r.ring, f.from_state))
      BY <1>2, <2>2 DEF Base, Last
    <2> QED BY <2>1, <2>2
  <1>4. Base(r, f) \in State
    BY <1>1, <1>3, ElementOfSeq
  <1>5. Patch(Base(r, f).val, f.diff) \in Content
    BY <1>4, PatchIsContent DEF State, Frame
  <1>6. f.my_state \in Nat
    BY DEF Frame
  <1> QED BY <1>3, <1>4, <1>5, <1>6 DEF Applied, State

\* Committing a frame leaves a sorted ring within its cap that ends in the new
\* state; every other entry was there before, and an entry survives that is
\* neither older than the frame's base nor further back than the ring is deep.
LEMMA PushedRing ==
    ASSUME NEW r \in Receiver, NEW f \in Frame,
           Len(r.ring) \in 1..(STATE_RING + 1), Sorted(r.ring),
           f.from_state = 0 \/ ~r.applied_any \/ Holds(r.ring, f.from_state),
           r.applied_any => f.my_state > Last(r.ring).seq
    PROVE  /\ Pushed(r, f) \in Seq(State)
           /\ Len(Pushed(r, f)) \in 1..(STATE_RING + 1)
           /\ Sorted(Pushed(r, f))
           /\ Last(Pushed(r, f)) = Applied(r, f)
           /\ \A i \in 1..Len(Pushed(r, f)) :
                 \/ Pushed(r, f)[i] = Applied(r, f)
                 \/ r.applied_any /\ \E j \in 1..Len(r.ring) : Pushed(r, f)[i] = r.ring[j]
           /\ \A n \in Nat :
                 (/\ r.applied_any /\ Holds(r.ring, n)
                  /\ n >= f.from_state /\ n > f.my_state - STATE_RING - 1)
                 => Holds(Pushed(r, f), n)
  <1> DEFINE old == IF r.applied_any THEN r.ring ELSE <<>>
             kept == PopBelow(old, f.from_state)
             new == Applied(r, f)
             long == Append(kept, new)
             out == Cap(long, STATE_RING + 1)
  <1>0. STATE_RING \in Nat \ {0} /\ STATE_RING + 1 \in Nat \ {0}
    BY RingAssumption
  <1>1. /\ new \in State /\ new.seq = f.my_state
        /\ f.my_state \in Nat /\ f.from_state \in Nat
        /\ Len(r.ring) >= 1
    <2>1. Len(r.ring) >= 1
      BY <1>0
    <2> QED BY <2>1, BaseIsEntry DEF Frame
  <1>2. r.ring \in Seq(State) /\ Len(r.ring) \in Nat /\ old \in Seq(State) /\ Len(old) \in Nat
    BY LenProperties DEF Receiver
  <1>3. Sorted(old)
    BY DEF Sorted
  <1>4. \A i \in 1..Len(old) : old[i] \in State /\ old[i].seq \in Nat
    <2>1. \A i \in 1..Len(old) : old[i] \in State
      BY <1>2, ElementOfSeq
    <2> QED BY <2>1 DEF State
  <1>5. \/ old = <<>>
        \/ \A i \in 1..Len(old) : old[i].seq >= f.from_state
        \/ Holds(old, f.from_state)
    BY <1>1, <1>4
  <1>6. PICK k \in 0..Len(old) :
              /\ kept \in Seq(State)
              /\ Len(kept) = Len(old) - k
              /\ \A i \in 1..(Len(old) - k) : kept[i] = old[i + k]
              /\ \A i \in 1..k : old[i].seq < f.from_state
    <2> HIDE DEF old
    <2> QED BY Zenon, <1>1, <1>2, <1>3, <1>5, PopBelowDropsOlder
  <1>7. /\ long \in Seq(State) /\ Len(long) = Len(kept) + 1
        /\ \A i \in 1..Len(kept) : long[i] = kept[i]
        /\ long[Len(kept) + 1] = new
    <2>1. new \in State /\ kept \in Seq(State)
      BY <1>1, <1>6
    <2> HIDE DEF kept, new
    <2> QED BY <2>1, AppendRing
  <1>8. PICK m \in 0..(Len(long) - 1) :
              /\ out \in Seq(State)
              /\ Len(out) = Len(long) - m
              /\ Len(long) - m <= STATE_RING + 1
              /\ \A i \in 1..(Len(long) - m) : out[i] = long[i + m]
              /\ m > 0 => m = Len(long) - (STATE_RING + 1)
    <2>1. Len(long) >= 1
      BY <1>2, <1>6, <1>7
    <2> HIDE DEF long
    <2> QED BY Zenon, <1>0, <1>7, <2>1, CapKeepsNewest
  <1>9. Pushed(r, f) = out
    BY DEF Pushed
  <1> DEFINE K == Len(kept)
             N == Len(out)
  <1>10. K \in Nat /\ N \in 1..(STATE_RING + 1) /\ N = K + 1 - m /\ K = Len(old) - k
         /\ k \in Nat /\ m \in Nat /\ m <= K
    <2>1. Len(kept) = Len(old) - k /\ k \in 0..Len(old) /\ Len(old) \in Nat
      BY <1>2, <1>6
    <2>2. Len(long) = Len(kept) + 1
      BY <1>7
    <2>3. m \in 0..(Len(long) - 1) /\ Len(out) = Len(long) - m /\ Len(long) - m <= STATE_RING + 1
      BY <1>8
    <2> HIDE DEF old, kept, long, out
    <2> QED BY <1>0, <2>1, <2>2, <2>3
  <1> HIDE DEF old, kept, new, long, out, K, N
  <1>11. \A i \in 1..N : out[i] = IF i + m <= K THEN old[i + m + k] ELSE new
    <2> TAKE i \in 1..N
    <2>1. i + m \in 1..(K + 1) /\ out[i] = long[i + m]
      <3>1. i + m \in 1..(K + 1) /\ i \in 1..(Len(long) - m)
        BY <1>7, <1>10 DEF K
      <3> QED BY <1>8, <3>1
    <2>2. CASE i + m <= K
      <3>1. i + m \in 1..K /\ i + m \in 1..(Len(old) - k)
        BY <1>10, <2>1, <2>2
      <3>2. kept[i + m] = old[(i + m) + k]
        BY <1>6, <3>1
      <3>3. long[i + m] = kept[i + m]
        BY <1>7, <3>1 DEF K
      <3> QED BY <2>1, <2>2, <3>2, <3>3
    <2>3. CASE ~(i + m <= K)
      <3>1. i + m = K + 1
        BY SMTT(30), Z3T(30), <1>10, <2>1, <2>3
      <3>2. long[i + m] = new
        BY <1>7, <3>1 DEF K
      <3> QED BY <2>1, <2>3, <3>2
    <2> QED BY <2>2, <2>3
  <1>12. out[N] = new
    <2>1. N \in 1..N /\ ~(N + m <= K)
      BY <1>10
    <2> QED BY <1>11, <2>1
  <1>13. \A i \in 1..N : i + m <= K => i + m + k \in 1..Len(old)
    BY <1>2, <1>10
  <1>14. \A i \in 1..Len(old) : old[i].seq <= f.my_state - (Len(old) - i) - 1
    <2> TAKE i \in 1..Len(old)
    <2>1. r.applied_any /\ old = r.ring
      BY <1>2 DEF old
    <2>2. Len(old) \in 1..Len(old) /\ i <= Len(old) /\ i \in Nat
      BY <1>2
    <2>3. old[Len(old)].seq - old[i].seq >= Len(old) - i
      BY <1>3, <2>2 DEF Sorted
    <2>4. f.my_state > old[Len(old)].seq
      BY <2>1 DEF Last
    <2>5. old[i].seq \in Nat /\ old[Len(old)].seq \in Nat /\ f.my_state \in Nat
      BY <1>1, <1>4, <2>2
    <2>6. \A a, b, c, d, x \in Nat :
             a - b >= c - d /\ x > a => b <= x - (c - d) - 1
      OBVIOUS
    <2>7. Len(old) \in Nat /\ i \in Nat
      BY <1>2
    <2> QED BY Zenon, <2>3, <2>4, <2>5, <2>6, <2>7
  <1>15. Sorted(out)
    <2> SUFFICES ASSUME NEW i \in 1..N, NEW j \in 1..N, i <= j
                 PROVE  out[j].seq - out[i].seq >= j - i
      BY DEF Sorted, N
    <2>1. CASE j + m <= K
      <3>1. i + m <= K
        BY <1>10, <2>1
      <3>2. out[i] = old[i + m + k] /\ out[j] = old[j + m + k]
        BY ZenonT(30), <1>11, <2>1, <3>1
      <3>3. i + m + k \in 1..Len(old) /\ j + m + k \in 1..Len(old)
        BY <1>13, <2>1, <3>1
      <3>4. i + m + k <= j + m + k
        BY <1>10
      <3>5. old[j + m + k].seq - old[i + m + k].seq >= (j + m + k) - (i + m + k)
        BY <1>3, <3>3, <3>4 DEF Sorted
      <3> QED BY <1>10, <3>2, <3>5
    <2>2. CASE ~(j + m <= K) /\ i + m <= K
      <3>1. out[i] = old[i + m + k] /\ out[j] = new
        BY <1>11, <2>2
      <3>5. j + m = K + 1
        BY <1>10, <2>2
      <3>2. i + m + k \in 1..Len(old)
        BY <1>13, <2>2
      <3>3. old[i + m + k].seq <= f.my_state - (Len(old) - (i + m + k)) - 1
        BY <1>14, <3>2
      <3>4. old[i + m + k].seq \in Nat
        BY <1>4, <3>2
      <3>6. out[j].seq = f.my_state /\ f.my_state \in Nat
        BY <1>1, <3>1
      <3>7. f.my_state - old[i + m + k].seq >= (Len(old) - (i + m + k)) + 1
        <4>1. \A a, x, d \in Int : a <= x - d - 1 => x - a >= d + 1
          OBVIOUS
        <4>2. Len(old) - (i + m + k) \in Int
          BY <1>2, <1>10
        <4>3. old[i + m + k].seq \in Int /\ f.my_state \in Int
          BY <3>4, <3>6
        <4> QED BY Zenon, <3>3, <4>1, <4>2, <4>3
      <3>8. (Len(old) - (i + m + k)) + 1 = j - i
        BY <1>2, <1>10, <3>5
      <3> QED BY <3>1, <3>6, <3>7, <3>8
    <2>3. CASE ~(j + m <= K) /\ ~(i + m <= K)
      <3>1. i = j /\ out[j] = new
        BY SMTT(30), Z3T(30), <1>10, <1>11, <2>3
      <3> QED BY SMTT(30), Z3T(30), <1>1, <1>10, <3>1
    <2> QED BY <2>1, <2>2, <2>3
  <1>16. \A i \in 1..N :
            \/ out[i] = new
            \/ r.applied_any /\ \E j \in 1..Len(r.ring) : out[i] = r.ring[j]
    <2> TAKE i \in 1..N
    <2>1. CASE i + m <= K
      <3>1. out[i] = old[i + m + k] /\ i + m + k \in 1..Len(old)
        BY <1>11, <1>13, <2>1
      <3>2. r.applied_any /\ old = r.ring
        BY <1>2, <3>1 DEF old
      <3> QED BY <3>1, <3>2
    <2>2. CASE ~(i + m <= K)
      BY <1>11, <2>2
    <2> QED BY <2>1, <2>2
  <1>17. ASSUME NEW n \in Nat, r.applied_any, Holds(r.ring, n),
                n >= f.from_state, n > f.my_state - STATE_RING - 1
         PROVE  Holds(out, n)
    <2>1. old = r.ring
      BY <1>17 DEF old
    <2>2. PICK i \in 1..Len(old) : old[i].seq = n
      BY <1>17, <2>1 DEF Holds
    <2>3. i > k
      <3>1. ~(i \in 1..k)
        BY SMTT(30), Z3T(30), <1>1, <1>6, <1>17, <2>2
      <3> QED BY <1>2, <1>10, <3>1
    <2>4. i > k + m
      <3>1. CASE m = 0
        BY <1>10, <2>3, <3>1
      <3>2. CASE m > 0
        <4>1. m = K + 1 - (STATE_RING + 1)
          <5>1. Len(long) = K + 1
            BY <1>7 DEF K
          <5>2. m > 0 => m = Len(long) - (STATE_RING + 1)
            BY <1>8
          <5> QED BY <1>0, <1>10, <3>2, <5>1, <5>2
        <4>2. n <= f.my_state - (Len(old) - i) - 1
          BY <1>14, <2>2
        <4>3. n \in Nat /\ n > f.my_state - STATE_RING - 1 /\ f.my_state \in Nat
          BY <1>1, <1>17
        <4>4. \A a, x, d, S \in Int : a <= x - d - 1 /\ a > x - S - 1 => d < S
          OBVIOUS
        <4>5. Len(old) - i < STATE_RING
          <5>1. Len(old) - i \in Int /\ STATE_RING \in Int
            BY <1>0, <1>2
          <5> QED BY SMTT(30), Z3T(30), <4>2, <4>3, <4>4, <5>1
        <4> QED BY <1>0, <1>2, <1>10, <4>1, <4>5
      <3> QED BY <1>10, <3>1, <3>2
    <2>5. (i - m - k) \in 1..N /\ (i - m - k) + m <= K /\ (i - m - k) + m + k = i
      BY <1>2, <1>10, <2>4
    <2>6. out[i - m - k] = old[i]
      BY <1>11, <2>5
    <2> QED BY Zenon, <2>2, <2>5, <2>6 DEF Holds, N
  <1>18. Last(out) = new
    BY <1>12 DEF Last, N
  <1> QED BY ZenonT(30), <1>8, <1>9, <1>10, <1>15, <1>16, <1>17, <1>18 DEF N, new

-----------------------------------------------------------------------------
(* The inductive invariant. *)

\* A sender's ring is the unbroken tail of what it minted, and what it minted
\* never takes a counter back.
SenderInv(e) ==
    /\ Last(tx[e].ring).seq = Len(authored[e])
    /\ \A i \in 1..Len(tx[e].ring) :
          /\ tx[e].ring[i].seq = Len(authored[e]) - Len(tx[e].ring) + i
          /\ tx[e].ring[i].seq >= 1
          /\ tx[e].ring[i].val = authored[e][tx[e].ring[i].seq]
    /\ \A i, j \in 1..Len(authored[e]) :
          i <= j => validate_transition(e, authored[e][j], authored[e][i])

\* A receiver's ring is sorted, and holds what it invented until it holds only
\* what its peer minted.
ReceiverInv(e) ==
    /\ Sorted(rx[e].ring)
    /\ rx[e].applied_any =>
          \A i \in 1..Len(rx[e].ring) :
             /\ rx[e].ring[i].seq \in 1..Len(authored[Peer[e]])
             /\ rx[e].ring[i].val = authored[Peer[e]][rx[e].ring[i].seq]
    /\ ~rx[e].applied_any => rx[e].ring = <<[seq |-> 1, val |-> Invented[e]]>>

\* An acknowledgement on its way to e, or arrived there, is not ahead of what
\* the peer of e holds.
AckInv(e) ==
    /\ tx[e].peer_saw <= rx[e].peer_ack
    /\ rx[e].peer_ack <= ack(rx[Peer[e]])
    /\ \A f \in net[e] : f.ack_state <= ack(rx[Peer[e]])

\* Every acknowledgement that the sender of e knows or can still learn.
Known(e) ==
    {tx[e].peer_saw, rx[e].peer_ack, ack(rx[Peer[e]])}
        \union {f.ack_state : f \in net[e]}

\* The peer holds every state the sender might yet name as a base.
HeldInv(e) ==
    \A a \in Known(e) :
        (a # 0 /\ a >= tx[e].peer_saw /\ a > Len(authored[e]) - STATE_RING)
           => Holds(rx[Peer[e]].ring, a)

\* A frame of e carries one of its states, as a diff that turns the state it
\* names into that one; the peer holds the named state while the frame is not
\* stale; and of two frames the newer names a base at least as new.
FrameInv(e) ==
    \A f \in net[Peer[e]] :
        /\ f.my_state \in 1..Len(authored[e])
        /\ f.from_state <= tx[e].peer_saw
        /\ f.from_state = 0 => f.diff = authored[e][f.my_state]
        /\ f.from_state # 0 =>
              /\ f.from_state <= f.my_state
              /\ f.my_state - f.from_state < STATE_RING
              /\ Patch(authored[e][f.from_state], f.diff) = authored[e][f.my_state]
              /\ f.my_state > Last(rx[Peer[e]].ring).seq
                    => Holds(rx[Peer[e]].ring, f.from_state)
              /\ \A g \in net[Peer[e]] :
                    (g.from_state # 0 /\ f.my_state > g.my_state)
                       => f.from_state >= g.from_state

IInv ==
    /\ TypeOK
    /\ \A e \in End : /\ SenderInv(e)
                      /\ ReceiverInv(e)
                      /\ AckInv(e)
                      /\ HeldInv(e)
                      /\ FrameInv(e)

-----------------------------------------------------------------------------
(* Arithmetic of numbers and windows, in the form the proofs cite. *)

\* A position of a log is a position of the log once it has grown.
LEMMA RangeGrows ==
    ASSUME NEW m \in Nat, NEW n \in Nat, n >= m, NEW i \in 1..m
    PROVE  i \in 1..n
  OBVIOUS

\* A number at or above a bound is at or above what the bound is above.
LEMMA Between ==
    ASSUME NEW a \in Nat, NEW b \in Nat, NEW c \in Nat, a >= b, c <= b
    PROVE  a >= c
  OBVIOUS

\* What was below a number is below it once it has grown.
LEMMA BelowGrowing ==
    ASSUME NEW a \in Nat, NEW b \in Nat, NEW c \in Nat, a <= b, c >= b
    PROVE  a <= c
  OBVIOUS

\* At most a number that is at most another.
LEMMA AtMost ==
    ASSUME NEW a \in Nat, NEW b \in Nat, NEW c \in Nat, a <= b, b <= c
    PROVE  a <= c
  OBVIOUS

\* Newer than a newer number is newer.
LEMMA Newer ==
    ASSUME NEW a \in Nat, NEW b \in Nat, NEW c \in Nat, a > b, b > c
    PROVE  a > c
  OBVIOUS

\* What is above a number that is not zero is not zero.
LEMMA AboveNonZero ==
    ASSUME NEW a \in Nat, NEW b \in Nat, NEW c \in Nat, NEW d \in Nat,
           a # 0, a <= b, b <= c, c <= d
    PROVE  d # 0
  OBVIOUS

\* A number in the window that ends at n is in the window that ends at an earlier m.
LEMMA WithinWindow ==
    ASSUME NEW a \in Nat, NEW n \in Nat, NEW k \in Nat, NEW m \in 1..n, a > n - k
    PROVE  a > m - k - 1
  OBVIOUS

\* The base of a frame newer than m is in the window that ends at m.
LEMMA BaseWithinWindow ==
    ASSUME NEW a \in Nat, NEW b \in Nat, NEW m \in Nat, NEW k \in Nat,
           a > m, a - b < k
    PROVE  b > m - k - 1
  OBVIOUS

-----------------------------------------------------------------------------
(* Consequences of the type invariant, in the form the proofs cite. *)

\* The parts of a sender and of a receiver have their types.
LEMMA EndTypes ==
    ASSUME TypeOK, NEW e \in End
    PROVE  /\ Peer[e] \in End /\ Peer[Peer[e]] = e /\ Peer[e] # e
           /\ STATE_RING \in Nat \ {0}
           /\ tx[e] \in Sender /\ rx[e] \in Receiver
           /\ tx[e].ring \in Seq(State) /\ Len(tx[e].ring) \in 1..STATE_RING
           /\ tx[e].peer_saw \in Nat /\ tx[e].last_ack_sent \in Nat
           /\ rx[e].ring \in Seq(State) /\ Len(rx[e].ring) \in 1..(STATE_RING + 1)
           /\ rx[e].peer_ack \in Nat /\ rx[e].applied_any \in BOOLEAN
           /\ net[e] \in SUBSET Frame
           /\ authored[e] \in Seq(Content) /\ Len(authored[e]) \in Nat
           /\ Last(tx[e].ring) \in State /\ Last(rx[e].ring) \in State
           /\ Last(rx[e].ring).seq \in Nat
           /\ ack(rx[e]) \in Nat
           /\ STATE_RING \in Nat /\ Len(rx[e].ring) \in Nat /\ Len(rx[e].ring) >= 1
  <1>1. Peer[e] \in End /\ Peer[Peer[e]] = e /\ Peer[e] # e
    BY EndAssumption
  <1>2. tx[e] \in Sender /\ rx[e] \in Receiver /\ net[e] \in SUBSET Frame
        /\ authored[e] \in Seq(Content)
    BY DEF TypeOK
  <1>3. Len(tx[e].ring) \in 1..STATE_RING /\ Len(rx[e].ring) \in 1..(STATE_RING + 1)
    BY DEF TypeOK
  <1>4. /\ tx[e].ring \in Seq(State) /\ tx[e].peer_saw \in Nat /\ tx[e].last_ack_sent \in Nat
        /\ rx[e].ring \in Seq(State) /\ rx[e].peer_ack \in Nat /\ rx[e].applied_any \in BOOLEAN
    BY <1>2 DEF Sender, Receiver
  <1>5. Len(authored[e]) \in Nat
    BY <1>2, LenProperties
  <1>6. Len(tx[e].ring) >= 1 /\ Len(rx[e].ring) >= 1
    BY <1>3, RingAssumption
  <1>7. Last(tx[e].ring) \in State /\ Last(rx[e].ring) \in State /\ Last(rx[e].ring).seq \in Nat
    BY <1>4, <1>6, LastIsState
  <1>8. ack(rx[e]) \in Nat
    BY <1>7 DEF ack
  <1>9. STATE_RING \in Nat /\ STATE_RING \in Nat \ {0} /\ Len(rx[e].ring) \in Nat
    BY <1>3, RingAssumption
  <1> QED BY Zenon, <1>1, <1>2, <1>3, <1>4, <1>5, <1>6, <1>7, <1>8, <1>9

\* The numbers an end is known to have reached are natural.
LEMMA KnownNat ==
    ASSUME TypeOK, NEW e \in End
    PROVE  \A a \in Known(e) : a \in Nat
  <1>1. rx[e].peer_ack \in Nat /\ tx[e].peer_saw \in Nat /\ net[e] \in SUBSET Frame
        /\ Peer[e] \in End
    BY Zenon, EndTypes
  <1>2. ack(rx[Peer[e]]) \in Nat
    BY Zenon, <1>1, EndTypes
  <1>3. \A f \in net[e] : f.ack_state \in Nat
    BY Zenon, <1>1 DEF Frame
  <1> QED BY ZenonT(30), <1>1, <1>2, <1>3 DEF Known

\* Entries of a ring have natural numbers.
LEMMA RingEntries ==
    ASSUME NEW ring \in Seq(State)
    PROVE  /\ Len(ring) \in Nat
           /\ \A i \in 1..Len(ring) :
                 ring[i] \in State /\ ring[i].seq \in Nat /\ ring[i].val \in Content
  <1>1. Len(ring) \in Nat /\ \A i \in 1..Len(ring) : ring[i] \in State
    BY LenProperties, ElementOfSeq
  <1> QED BY <1>1 DEF State

\* The initial states satisfy the invariant.
LEMMA InitInv == Init => IInv
  <1> SUFFICES ASSUME Init PROVE IInv
    OBVIOUS
  <1>1. \A e \in End : /\ Peer[e] \in End /\ Peer[Peer[e]] = e
                      /\ First[e] \in Content /\ Invented[e] \in Content
    BY EndAssumption, CellAssumption DEF Content
  <1>2. \A v \in Content : /\ <<[seq |-> 1, val |-> v]>> \in Seq(State)
                          /\ Len(<<[seq |-> 1, val |-> v]>>) = 1
                          /\ <<[seq |-> 1, val |-> v]>>[1] = [seq |-> 1, val |-> v]
    BY DEF State
  <1>3. \A v \in Content : <<v>> \in Seq(Content) /\ Len(<<v>>) = 1 /\ <<v>>[1] = v
    OBVIOUS
  <1>4. 1 \in 1..STATE_RING /\ 1 \in 1..(STATE_RING + 1)
    BY RingAssumption
  <1>5. TypeOK
    BY Zenon, <1>1, <1>2, <1>3, <1>4 DEF Init, TypeOK, Sender, Receiver
  <1>6. ASSUME NEW e \in End
        PROVE  /\ SenderInv(e) /\ ReceiverInv(e) /\ AckInv(e)
               /\ HeldInv(e) /\ FrameInv(e)
    <2>1. /\ Len(tx[e].ring) = 1 /\ tx[e].ring[1].seq = 1 /\ tx[e].ring[1].val = First[e]
          /\ Len(authored[e]) = 1 /\ authored[e][1] = First[e]
      BY <1>1, <1>2, <1>3 DEF Init
    <2>2. Len(rx[e].ring) = 1 /\ rx[e].ring = <<[seq |-> 1, val |-> Invented[e]]>>
          /\ ~rx[e].applied_any
      BY <1>1, <1>2 DEF Init
    <2>3. \A c \in Counters[e] : First[e][c] \in Nat
      BY Zenon, <1>1, CellAssumption DEF Content
    <2>4. SenderInv(e)
      BY <2>1, <2>3 DEF SenderInv, Last, validate_transition
    <2>5. rx[e].ring[1].seq = 1
      BY <1>1, <1>2, <2>2
    <2>6. ReceiverInv(e)
      BY SMTT(30), Z3T(30), <2>2, <2>5 DEF ReceiverInv, Sorted
    <2>7. Known(e) = {0} /\ AckInv(e) /\ FrameInv(e)
      BY SMTT(30), <1>1 DEF Init, Known, AckInv, FrameInv, ack
    <2>8. HeldInv(e)
      BY <2>7 DEF HeldInv
    <2> QED BY <2>4, <2>6, <2>7, <2>8
  <1> QED BY <1>5, <1>6 DEF IInv

\* Minting a state preserves the invariant: the ring stays the tail of what was
\* minted, and what was minted before stays as it was.
LEMMA UpdateInv ==
    ASSUME IInv, NEW x \in End, Update(x)
    PROVE  IInv'
  <1> DEFINE s == tx[x]
             L == Len(s.ring)
             n == Len(authored[x])
  <1>1. PICK val \in Content :
           /\ validate_transition(x, val, Last(s.ring).val)
           /\ tx' = [tx EXCEPT ![x] = update(@, val)]
           /\ authored' = [authored EXCEPT ![x] = Append(@, val)]
           /\ UNCHANGED <<rx, net>>
    BY Zenon DEF Update
  <1>2. TypeOK /\ \A e \in End : /\ SenderInv(e) /\ ReceiverInv(e) /\ AckInv(e)
                                 /\ HeldInv(e) /\ FrameInv(e)
    BY DEF IInv
  <1>3. /\ s \in Sender /\ s.ring \in Seq(State) /\ L \in Nat /\ L >= 1 /\ L <= STATE_RING
        /\ n \in Nat /\ authored[x] \in Seq(Content) /\ STATE_RING \in Nat \ {0}
    BY <1>2, EndTypes
  <1> DEFINE next == [seq |-> Last(s.ring).seq + 1, val |-> val]
             long == Append(s.ring, next)
             out == Cap(long, STATE_RING)
  <1>4. Last(s.ring).seq = n /\ next \in State /\ next.seq = n + 1 /\ next.val = val
    <2>1. Last(s.ring).seq = n
      BY Zenon, <1>2 DEF SenderInv
    <2>2. n + 1 \in Nat
      BY <1>3
    <2> HIDE DEF n
    <2> QED BY <2>1, <2>2 DEF State
  <1>5. /\ long \in Seq(State) /\ Len(long) = L + 1
        /\ \A i \in 1..L : long[i] = s.ring[i]
        /\ long[L + 1] = next
    <2> HIDE DEF next
    <2> QED BY <1>3, <1>4, AppendRing
  <1>6. PICK k \in 0..(Len(long) - 1) :
              /\ out \in Seq(State)
              /\ Len(out) = Len(long) - k
              /\ Len(long) - k <= STATE_RING
              /\ \A i \in 1..(Len(long) - k) : out[i] = long[i + k]
    <2>1. Len(long) >= 1
      BY <1>3, <1>5
    <2> HIDE DEF long
    <2> QED BY Zenon, <1>3, <1>5, <2>1, CapKeepsNewest
  <1>7. tx' = [tx EXCEPT ![x] = [s EXCEPT !.ring = out]]
    BY <1>1 DEF update
  <1>8. /\ tx'[x].ring = out /\ tx'[x].peer_saw = s.peer_saw
        /\ tx'[x].last_ack_sent = s.last_ack_sent
        /\ \A e \in End : e # x => tx'[e] = tx[e]
        /\ \A e \in End : tx'[e].peer_saw = tx[e].peer_saw
    <2> HIDE DEF out
    <2> QED BY <1>2, <1>7 DEF TypeOK, Sender
  <1> HIDE DEF next, long, out, L, n
  <1>9. /\ authored'[x] \in Seq(Content) /\ Len(authored'[x]) = n + 1
        /\ \A i \in 1..n : authored'[x][i] = authored[x][i]
        /\ authored'[x][n + 1] = val
        /\ \A e \in End : e # x => authored'[e] = authored[e]
    <2> USE DEF n
    <2>1. authored'[x] = Append(authored[x], val)
      BY <1>1, <1>2 DEF TypeOK
    <2>2. \A e \in End : e # x => authored'[e] = authored[e]
      BY <1>1, <1>2 DEF TypeOK
    <2> QED BY <1>3, <2>1, <2>2, AppendProperties
  <1>10. \A e \in End : /\ Len(authored'[e]) \in Nat /\ Len(authored[e]) \in Nat
                        /\ Len(authored'[e]) >= Len(authored[e])
                        /\ \A i \in 1..Len(authored[e]) : authored'[e][i] = authored[e][i]
    <2> TAKE e \in End
    <2>1. Len(authored[e]) \in Nat
      BY <1>2, EndTypes
    <2>2. e = x => Len(authored[e]) = n
      BY DEF n
    <2> QED BY SMTT(30), Z3T(30), <1>3, <1>9, <2>1, <2>2
  <1>11. Len(out) \in 1..STATE_RING /\ Len(out) = L + 1 - k /\ k \in 0..L
    <2>1. k \in 0..L /\ Len(out) = L + 1 - k /\ L + 1 - k <= STATE_RING
      BY <1>3, <1>5, <1>6
    <2> QED BY <1>3, <2>1
  <1>12. TypeOK'
    <2>1. tx' \in [End -> Sender]
      BY Zenon, <1>2, <1>6, <1>7 DEF TypeOK, Sender
    <2>2. authored' \in [End -> Seq(Content)]
      BY <1>1, <1>2, <1>9 DEF TypeOK
    <2>3. \A e \in End : Len(tx'[e].ring) \in 1..STATE_RING
      BY Zenon, <1>2, <1>8, <1>11 DEF TypeOK
    <2> QED BY <1>1, <1>2, <2>1, <2>2, <2>3 DEF TypeOK
  <1>13. SenderInv(x)'
    <2>1. \A i \in 1..Len(out) :
            /\ out[i] = long[i + k] /\ i + k \in 1..(L + 1)
            /\ (n + 1) - Len(out) + i = n - L + (i + k)
      <3> TAKE i \in 1..Len(out)
      <3>1. L \in Nat /\ n \in Nat
        BY Zenon, <1>3
      <3>2. /\ i + k \in 1..(L + 1)
            /\ (n + 1) - Len(out) + i = n - L + (i + k)
        BY <1>11, <3>1
      <3>3. out[i] = long[i + k]
        BY Zenon, <1>6
      <3> QED BY Zenon, <3>2, <3>3
    <2>2. \A j \in 1..L : /\ s.ring[j].seq = n - L + j /\ s.ring[j].seq >= 1
                          /\ s.ring[j].val = authored[x][s.ring[j].seq]
                          /\ s.ring[j].seq \in 1..n
      <3> TAKE j \in 1..L
      <3>1. /\ s.ring[j].seq = n - L + j /\ s.ring[j].seq >= 1
            /\ s.ring[j].val = authored[x][s.ring[j].seq]
        BY Zenon, <1>2 DEF SenderInv, n, L
      <3> QED BY SMTT(30), Z3T(30), <1>3, <3>1
    <2>3. ASSUME NEW i \in 1..Len(out)
          PROVE  /\ out[i].seq = (n + 1) - Len(out) + i
                 /\ out[i].seq >= 1
                 /\ out[i].val = authored'[x][out[i].seq]
      <3>1. CASE i + k \in 1..L
        <4>1. out[i] = s.ring[i + k]
          BY <1>5, <2>1, <3>1
        <4>2. /\ s.ring[i + k].seq = n - L + (i + k) /\ s.ring[i + k].seq >= 1
              /\ s.ring[i + k].val = authored[x][s.ring[i + k].seq]
              /\ s.ring[i + k].seq \in 1..n
          BY SMTT(30), <2>2, <3>1
        <4>3. authored'[x][s.ring[i + k].seq] = authored[x][s.ring[i + k].seq]
          BY <1>9, <4>2
        <4> QED BY <2>1, <4>1, <4>2, <4>3
      <3>2. CASE ~(i + k \in 1..L)
        <4>1. i + k = L + 1
          BY <1>3, <2>1, <3>2
        <4>2. out[i] = next
          BY <1>5, <2>1, <4>1
        <4>3. (n + 1) - Len(out) + i = n + 1
          <5>1. (n + 1) - Len(out) + i = n - L + (i + k)
            BY <2>1
          <5>2. n - L + (L + 1) = n + 1
            BY <1>3
          <5> QED BY <4>1, <5>1, <5>2
        <4> QED BY <1>3, <1>4, <1>9, <4>2, <4>3
      <3> QED BY <3>1, <3>2
    <2>4. Len(out) \in 1..Len(out)
      BY <1>3, <1>11
    <2>5. Last(out).seq = n + 1
      BY <1>3, <1>11, <2>3, <2>4 DEF Last
    <2>6. Last(s.ring).val = authored[x][n] /\ n \in 1..n
      <3>1. L \in 1..L
        BY <1>3
      <3> QED BY Zenon, <1>3, <1>4, <2>2, <3>1 DEF Last, L
    <2>7. ASSUME NEW i \in 1..(n + 1), NEW j \in 1..(n + 1), i <= j
          PROVE  validate_transition(x, authored'[x][j], authored'[x][i])
      <3>0. \A a, b \in 1..n : a <= b => validate_transition(x, authored[x][b], authored[x][a])
        BY Zenon, <1>2 DEF SenderInv, n
      <3>1. \A a \in 1..(n + 1) : \A c \in Counters[x] : authored'[x][a][c] \in Nat
        <4> TAKE a \in 1..(n + 1)
        <4>1. authored'[x][a] \in Content
          BY <1>9, ElementOfSeq
        <4> QED BY Zenon, <4>1, CellAssumption DEF Content
      <3>2. CASE j <= n
        <4>1. i \in 1..n /\ j \in 1..n
          BY <1>3, <2>7, <3>2
        <4> QED BY <1>9, <2>7, <3>0, <4>1
      <3>3. CASE j = n + 1 /\ i <= n
        <4>1. i \in 1..n /\ i <= n
          BY <1>3, <2>7, <3>3
        <4>2. validate_transition(x, authored[x][n], authored[x][i])
          BY <2>6, <3>0, <4>1
        <4>3. validate_transition(x, val, authored[x][n])
          BY <1>1, <2>6
        <4>4. authored'[x][j] = val /\ authored'[x][i] = authored[x][i]
              /\ authored'[x][n] = authored[x][n]
          BY ZenonT(30), <1>9, <2>6, <3>3, <4>1
        <4>5. n \in 1..(n + 1)
          BY <2>6
        <4>6. \A c \in Counters[x] : authored'[x][j][c] >= authored'[x][i][c]
          <5> TAKE c \in Counters[x]
          <5>1. /\ authored'[x][j][c] >= authored'[x][n][c]
                /\ authored'[x][n][c] >= authored'[x][i][c]
            BY <4>2, <4>3, <4>4 DEF validate_transition
          <5>2. \A p, q, r \in Nat : p >= q /\ q >= r => p >= r
            OBVIOUS
          <5> QED BY ZenonT(30), <3>1, <4>5, <5>1, <5>2
        <4> QED BY <4>6 DEF validate_transition
      <3>4. CASE i = j
        BY <3>1, <3>4 DEF validate_transition
      <3> QED BY <1>3, <2>7, <3>2, <3>3, <3>4
    <2> QED BY ZenonT(30), <1>8, <1>9, <2>3, <2>5, <2>7 DEF SenderInv
  <1>14. ASSUME NEW e \in End
         PROVE  SenderInv(e)'
    <2>1. CASE e = x
      BY <1>13, <2>1
    <2>2. CASE e # x
      <3>1. tx'[e] = tx[e] /\ authored'[e] = authored[e]
        BY <1>8, <1>9, <2>2
      <3>2. SenderInv(e)
        BY <1>2
      <3> QED BY Zenon, <3>1, <3>2 DEF SenderInv
    <2> QED BY <2>1, <2>2
  <1>15. ASSUME NEW e \in End
         PROVE  ReceiverInv(e)' /\ AckInv(e)' /\ HeldInv(e)' /\ FrameInv(e)'
    <2>1. Peer[e] \in End /\ rx' = rx /\ net' = net
      BY <1>1, EndAssumption
    <2>2. ReceiverInv(e)'
      <3>1. ReceiverInv(e)
        BY <1>2
      <3>2. ASSUME rx[e].applied_any, NEW i \in 1..Len(rx[e].ring)
            PROVE  /\ rx[e].ring[i].seq \in 1..Len(authored'[Peer[e]])
                   /\ rx[e].ring[i].val = authored'[Peer[e]][rx[e].ring[i].seq]
        <4>1. /\ rx[e].ring[i].seq \in 1..Len(authored[Peer[e]])
              /\ rx[e].ring[i].val = authored[Peer[e]][rx[e].ring[i].seq]
          BY ZenonT(30), <3>1, <3>2 DEF ReceiverInv
        <4>2. /\ Len(authored'[Peer[e]]) \in Nat /\ Len(authored[Peer[e]]) \in Nat
              /\ Len(authored'[Peer[e]]) >= Len(authored[Peer[e]])
              /\ authored'[Peer[e]][rx[e].ring[i].seq] = authored[Peer[e]][rx[e].ring[i].seq]
          BY Zenon, <1>10, <2>1, <4>1
        <4> QED BY ZenonT(30), <4>1, <4>2, RangeGrows
      <3> QED BY ZenonT(30), <2>1, <3>1, <3>2 DEF ReceiverInv
    <2>3. AckInv(e)'
      BY SMTT(30), Z3T(30), <1>2, <1>8, <2>1 DEF AckInv, ack
    <2>4. HeldInv(e)'
      <3>1. HeldInv(e)
        BY <1>2
      <3>2. Known(e)' = Known(e)
        BY <1>8, <2>1 DEF Known, ack
      <3>3. \A a \in Known(e) : a \in Nat
        BY Zenon, <1>2, KnownNat
      <3>4. ASSUME NEW a \in Known(e), a > Len(authored'[e]) - STATE_RING
            PROVE  a > Len(authored[e]) - STATE_RING
        BY SMTT(30), Z3T(30), <1>3, <1>10, <3>3, <3>4
      <3> QED BY SMTT(30), <1>8, <2>1, <3>1, <3>2, <3>4 DEF HeldInv
    <2>5. FrameInv(e)'
      <3>1. FrameInv(e)
        BY <1>2
      <3>2. ASSUME NEW f \in net[Peer[e]]
            PROVE  /\ f.my_state \in 1..Len(authored'[e])
                   /\ authored'[e][f.my_state] = authored[e][f.my_state]
                   /\ f.from_state # 0 => authored'[e][f.from_state] = authored[e][f.from_state]
        <4>1. f.my_state \in 1..Len(authored[e]) /\ (f.from_state # 0 => f.from_state <= f.my_state)
          BY <3>1 DEF FrameInv
        <4>2. f.from_state \in Nat
          BY ZenonT(30), <1>2, <2>1, EndTypes DEF Frame
        <4>3. /\ Len(authored'[e]) \in Nat /\ Len(authored[e]) \in Nat
              /\ Len(authored'[e]) >= Len(authored[e])
              /\ \A i \in 1..Len(authored[e]) : authored'[e][i] = authored[e][i]
          BY <1>10
        <4>4. f.from_state # 0 => f.from_state \in 1..Len(authored[e])
          BY <4>1, <4>2, <4>3
        <4> QED BY ZenonT(30), <4>1, <4>3, <4>4, RangeGrows
      <3> QED BY ZenonT(30), <1>8, <2>1, <3>1, <3>2 DEF FrameInv
    <2> QED BY <2>2, <2>3, <2>4, <2>5
  <1> QED BY <1>12, <1>14, <1>15 DEF IInv

-----------------------------------------------------------------------------
(* Offering and losing frames. *)

\* The frame a sender makes carries its newest state, either in full or as a
\* diff from the acknowledged state when its ring still holds that one.
LEMMA FrameMade ==
    ASSUME NEW s \in Sender, NEW log \in Seq(Content), NEW a \in Nat,
           Len(s.ring) \in 1..STATE_RING,
           \A i \in 1..Len(s.ring) :
              /\ s.ring[i].seq = Len(log) - Len(s.ring) + i
              /\ s.ring[i].seq >= 1
              /\ s.ring[i].val = log[s.ring[i].seq]
    PROVE  LET f == make_frame(s, a)
           IN  /\ f \in Frame
               /\ f.my_state = Len(log) /\ Len(log) \in Nat \ {0}
               /\ f.ack_state = a
               /\ f.from_state = 0 => f.diff = log[f.my_state]
               /\ f.from_state # 0 =>
                     /\ f.from_state = s.peer_saw
                     /\ f.from_state <= f.my_state
                     /\ f.my_state - f.from_state < STATE_RING
                     /\ Patch(log[f.from_state], f.diff) = log[f.my_state]
  <1> DEFINE n == Len(log)
             L == Len(s.ring)
             current == Last(s.ring)
             f == make_frame(s, a)
  <1>1. s.ring \in Seq(State) /\ s.peer_saw \in Nat
    BY DEF Sender
  <1>2. L \in Nat /\ L >= 1 /\ L <= STATE_RING /\ n \in Nat /\ STATE_RING \in Nat
    BY RingAssumption, LenProperties
  <1>3. current.seq = n /\ n >= 1 /\ current.val = log[n] /\ current.val \in Content
    <2>1. L \in 1..L
      BY <1>2
    <2>2. current.seq = n - L + L /\ current.seq >= 1 /\ current.val = log[current.seq]
      BY Zenon, <2>1 DEF Last
    <2>3. n - L + L = n
      BY <1>2
    <2>4. current.val \in Content
      BY <1>1, <1>2, LastIsState
    <2> QED BY <2>2, <2>3, <2>4
  <1>4. CASE Holds(s.ring, s.peer_saw)
    <2> DEFINE base == Entry(s.ring, s.peer_saw)
    <2>1. PICK i \in 1..L : base = s.ring[i] /\ s.ring[i].seq = s.peer_saw
      BY <1>1, <1>4, EntryIsFound
    <2>2. /\ s.peer_saw = n - L + i /\ s.peer_saw >= 1
          /\ base.val = log[s.peer_saw]
      BY Zenon, <2>1
    <2>3. base.val \in Content
      BY <1>1, <2>1, RingEntries
    <2>4. /\ diff_from(current.val, base.val) \in Diff
          /\ Patch(base.val, diff_from(current.val, base.val)) = current.val
      BY <1>3, <2>3, DiffRoundTrips
    <2> HIDE DEF base, current
    <2>5. f = [my_state |-> current.seq, from_state |-> s.peer_saw,
               ack_state |-> a, diff |-> diff_from(current.val, base.val)]
      BY <1>4 DEF make_frame, base, current
    <2> HIDE DEF f
    <2>6. /\ f.my_state = n /\ f.from_state = s.peer_saw /\ f.ack_state = a
          /\ f.diff = diff_from(current.val, base.val)
      BY <1>3, <2>5
    <2>7. f \in Frame
      BY <1>1, <1>2, <1>3, <2>4, <2>5 DEF Frame
    <2>8. s.peer_saw <= n /\ n - s.peer_saw < STATE_RING
      BY <1>2, <2>2
    <2>9. s.peer_saw # 0 /\ n \in Nat \ {0}
      BY <1>2, <1>3, <2>2
    <2>10. Patch(log[f.from_state], f.diff) = log[f.my_state]
      BY Zenon, <1>3, <2>2, <2>4, <2>6
    <2> HIDE DEF n
    <2>11. /\ f \in Frame /\ f.my_state = n /\ n \in Nat \ {0} /\ f.ack_state = a
           /\ f.from_state # 0 /\ f.from_state = s.peer_saw
           /\ f.from_state <= f.my_state /\ f.my_state - f.from_state < STATE_RING
           /\ Patch(log[f.from_state], f.diff) = log[f.my_state]
      BY <2>6, <2>7, <2>8, <2>9, <2>10
    <2> QED BY ZenonT(30), <2>11 DEF f, n
  <1>5. CASE ~Holds(s.ring, s.peer_saw)
    <2>1. full_diff(current.val) \in Diff /\ full_diff(current.val) = log[n]
      BY <1>3, FullDiffReplaces DEF full_diff
    <2> HIDE DEF current
    <2>2. f = [my_state |-> current.seq, from_state |-> 0,
               ack_state |-> a, diff |-> full_diff(current.val)]
      BY <1>5 DEF make_frame, current
    <2> HIDE DEF f, n
    <2>3. /\ f.my_state = n /\ f.from_state = 0 /\ f.ack_state = a /\ f.diff = log[n]
          /\ f \in Frame /\ n \in Nat \ {0}
      BY <1>2, <1>3, <2>1, <2>2 DEF Frame
    <2> QED BY <2>3 DEF f, n
  <1> QED BY ZenonT(30), <1>4, <1>5

\* Losing a frame preserves the invariant: each conjunct speaks of all frames.
LEMMA LoseInv ==
    ASSUME IInv, NEW x \in End, LoseFrame(x)
    PROVE  IInv'
  <1>1. /\ tx' = tx /\ rx' = rx /\ authored' = authored
        /\ net' \in [End -> SUBSET Frame]
        /\ \A e \in End : net'[e] \subseteq net[e]
    BY DEF LoseFrame, IInv, TypeOK
  <1>2. TypeOK'
    BY <1>1 DEF IInv, TypeOK
  <1>3. ASSUME NEW e \in End
        PROVE  /\ SenderInv(e)' /\ ReceiverInv(e)' /\ AckInv(e)'
               /\ HeldInv(e)' /\ FrameInv(e)'
    <2>1. Peer[e] \in End
      BY EndAssumption
    <2>2. SenderInv(e) /\ ReceiverInv(e) /\ AckInv(e) /\ HeldInv(e) /\ FrameInv(e)
      BY DEF IInv
    <2>3. SenderInv(e)'
      BY Zenon, <1>1, <2>2 DEF SenderInv
    <2>4. ReceiverInv(e)'
      BY ZenonT(30), <1>1, <2>2 DEF ReceiverInv
    <2>5. AckInv(e)'
      BY ZenonT(30), <1>1, <2>2 DEF AckInv, ack
    <2>6. HeldInv(e)'
      <3>1. \A a \in Known(e)' : a \in Known(e)
        BY <1>1 DEF Known, ack
      <3> QED BY ZenonT(30), <1>1, <2>2, <3>1 DEF HeldInv
    <2>7. FrameInv(e)'
      BY SMTT(30), <1>1, <2>1, <2>2 DEF FrameInv
    <2> QED BY <2>3, <2>4, <2>5, <2>6, <2>7
  <1> QED BY <1>2, <1>3 DEF IInv

\* Offering a frame preserves the invariant: the frame names a base the peer
\* holds, and one at least as new as any base named before.
LEMMA OfferInv ==
    ASSUME IInv, NEW x \in End, OfferFrame(x)
    PROVE  IInv'
  <1> DEFINE p == Peer[x]
             s == on_ack(tx[x], rx[x].peer_ack)
             a == ack(rx[x])
             F == make_frame(s, a)
             n == Len(authored[x])
  <1>1. TypeOK /\ \A e \in End : /\ SenderInv(e) /\ ReceiverInv(e) /\ AckInv(e)
                                 /\ HeldInv(e) /\ FrameInv(e)
    BY DEF IInv
  <1>2. /\ p \in End /\ Peer[p] = x /\ p # x /\ a \in Nat
        /\ tx[x] \in Sender /\ tx[x].peer_saw \in Nat /\ rx[x].peer_ack \in Nat
        /\ authored[x] \in Seq(Content) /\ Len(tx[x].ring) \in 1..STATE_RING
        /\ STATE_RING \in Nat \ {0} /\ n \in Nat
    BY ZenonT(30), <1>1, EndTypes
  <1>3. s \in Sender /\ s.ring = tx[x].ring /\ s.peer_saw = rx[x].peer_ack
        /\ tx[x].peer_saw <= s.peer_saw
    <2>1. tx[x].peer_saw <= rx[x].peer_ack
      BY ZenonT(30), <1>1 DEF AckInv
    <2> QED BY SMTT(30), Z3T(30), <1>2, <2>1 DEF on_ack, Sender
  <1>4. /\ F \in Frame
        /\ F.my_state = n /\ n \in Nat \ {0}
        /\ F.ack_state = a
        /\ F.from_state = 0 => F.diff = authored[x][F.my_state]
        /\ F.from_state # 0 =>
              /\ F.from_state = s.peer_saw
              /\ F.from_state <= F.my_state
              /\ F.my_state - F.from_state < STATE_RING
              /\ Patch(authored[x][F.from_state], F.diff) = authored[x][F.my_state]
    <2>1. \A i \in 1..Len(s.ring) :
              /\ s.ring[i].seq = Len(authored[x]) - Len(s.ring) + i
              /\ s.ring[i].seq >= 1
              /\ s.ring[i].val = authored[x][s.ring[i].seq]
      BY Zenon, <1>1, <1>3 DEF SenderInv
    <2> HIDE DEF s, a
    <2> QED BY ZenonT(30), <1>2, <1>3, <2>1, FrameMade
  <1>5. \E last \in Nat : tx' = [tx EXCEPT ![x] = [s EXCEPT !.last_ack_sent = last]]
    <2>1. CASE tx' = [tx EXCEPT ![x] = [s EXCEPT !.last_ack_sent = a]]
      BY Zenon, <1>2, <2>1
    <2>2. CASE tx' = [tx EXCEPT ![x] = s]
      <3>1. s.last_ack_sent \in Nat /\ s = [s EXCEPT !.last_ack_sent = s.last_ack_sent]
        BY <1>3 DEF Sender
      <3> QED BY Zenon, <2>2, <3>1
    <2> QED BY <2>1, <2>2 DEF OfferFrame
  <1>6. /\ rx' = rx /\ authored' = authored
        /\ \A e \in End : e # p => net'[e] = net[e]
        /\ net'[p] = net[p] \/ net'[p] = net[p] \union {F}
        /\ net' \in [End -> SUBSET Frame]
    <2>1. rx' = rx /\ authored' = authored /\ (net' = net \/ Send(p, F))
      BY DEF OfferFrame
    <2> HIDE DEF F, p
    <2>2. \/ net' = net
          \/ net' = [net EXCEPT ![p] = net[p]]
          \/ net' = [net EXCEPT ![p] = net[p] \union {F}]
      <3> DEFINE room == Cardinality(net[p]) < MaxInFlight[p]
      <3>1. Send(p, F) <=> net' = [net EXCEPT ![p] = IF room THEN net[p] \union {F} ELSE net[p]]
        BY DEF Send
      <3> HIDE DEF room
      <3> QED BY <2>1, <3>1
    <2>3. net \in [End -> SUBSET Frame] /\ F \in Frame /\ p \in End
      BY ZenonT(30), <1>1, <1>2, <1>4 DEF TypeOK
    <2> QED BY <2>1, <2>2, <2>3
  <1>7. /\ tx' \in [End -> Sender]
        /\ tx'[x].ring = tx[x].ring /\ tx'[x].peer_saw = rx[x].peer_ack
        /\ \A e \in End : e # x => tx'[e] = tx[e]
        /\ \A e \in End : tx'[e].ring = tx[e].ring
        /\ \A e \in End : tx'[e].peer_saw >= tx[e].peer_saw /\ tx'[e].peer_saw \in Nat
    <2>1. PICK last \in Nat : tx' = [tx EXCEPT ![x] = [s EXCEPT !.last_ack_sent = last]]
      BY Zenon, <1>5
    <2> HIDE DEF s
    <2>2. /\ tx' \in [End -> Sender]
          /\ tx'[x].ring = s.ring /\ tx'[x].peer_saw = s.peer_saw
          /\ \A e \in End : e # x => tx'[e] = tx[e]
      BY Zenon, <1>1, <1>3, <2>1 DEF TypeOK, Sender
    <2>3. \A e \in End : tx[e].peer_saw \in Nat
      BY <1>1, EndTypes
    <2>4. \A e \in End : tx'[e].peer_saw >= tx[e].peer_saw /\ tx'[e].peer_saw \in Nat
      BY SMTT(30), <1>2, <1>3, <2>2, <2>3
    <2> QED BY <1>3, <2>2, <2>4
  <1> HIDE DEF p, s, a, F, n
  <1>8. TypeOK'
    BY ZenonT(30), <1>1, <1>6, <1>7 DEF TypeOK
  <1>9. \A e \in End : Peer[e] = p => e = x
    BY <1>2, EndAssumption DEF p
  <1>10. ASSUME NEW e \in End
         PROVE  SenderInv(e)' /\ ReceiverInv(e)' /\ AckInv(e)' /\ HeldInv(e)'
    <2>1. SenderInv(e) /\ ReceiverInv(e) /\ AckInv(e) /\ HeldInv(e) /\ Peer[e] \in End
      BY <1>1, EndAssumption
    <2>2. SenderInv(e)'
      BY Zenon, <1>6, <1>7, <2>1 DEF SenderInv
    <2>3. ReceiverInv(e)'
      BY Zenon, <1>6, <2>1 DEF ReceiverInv
    <2>4. \A f \in net'[e] : f.ack_state = ack(rx[Peer[e]]) \/ f \in net[e]
      <3>1. CASE e = p
        BY <1>2, <1>4, <1>6, <3>1 DEF a
      <3>2. CASE e # p
        BY <1>6, <3>2
      <3> QED BY <3>1, <3>2
    <2>5. ack(rx[Peer[e]])' = ack(rx[Peer[e]]) /\ ack(rx[Peer[e]]) \in Nat
      BY ZenonT(30), <1>1, <1>6, <2>1, EndTypes DEF ack
    <2>6. tx'[e].peer_saw = tx[e].peer_saw \/ tx'[e].peer_saw = rx[e].peer_ack
      BY <1>7
    <2>7. AckInv(e)'
      <3>1. tx'[e].peer_saw <= rx[e].peer_ack
        BY SMTT(30), Z3T(30), <1>1, <2>1, <2>6, EndTypes DEF AckInv
      <3>2. rx[e].peer_ack <= ack(rx[Peer[e]])
        BY <2>1 DEF AckInv
      <3>3. \A f \in net'[e] : f.ack_state <= ack(rx[Peer[e]])
        BY SMTT(30), Z3T(30), <2>1, <2>4, <2>5 DEF AckInv
      <3> QED BY ZenonT(30), <1>6, <2>5, <3>1, <3>2, <3>3 DEF AckInv
    <2>8. HeldInv(e)'
      <3>1. \A b \in Known(e)' : b \in Known(e)
        BY SMTT(30), <1>6, <2>4, <2>5, <2>6 DEF Known
      <3>2. \A b \in Known(e) : b \in Nat
        BY Zenon, <1>1, KnownNat
      <3>3. \A b \in Known(e) : b >= tx'[e].peer_saw => b >= tx[e].peer_saw
        <4>1. tx[e].peer_saw \in Nat /\ tx'[e].peer_saw \in Nat /\ tx'[e].peer_saw >= tx[e].peer_saw
          BY ZenonT(30), <1>1, <1>7, EndTypes
        <4> QED BY <3>2, <4>1
      <3> QED BY <1>6, <2>1, <3>1, <3>3 DEF HeldInv
    <2> QED BY <2>2, <2>3, <2>7, <2>8
  <1>11. F.from_state # 0 => Holds(rx[p].ring, F.from_state)
    <2> SUFFICES ASSUME F.from_state # 0 PROVE Holds(rx[p].ring, F.from_state)
      OBVIOUS
    <2>1. F.from_state = rx[x].peer_ack /\ n - F.from_state < STATE_RING
      BY <1>3, <1>4
    <2>2. rx[x].peer_ack \in Known(x) /\ rx[x].peer_ack >= tx[x].peer_saw
      BY <1>2, <1>3 DEF Known
    <2>3. rx[x].peer_ack > Len(authored[x]) - STATE_RING
      BY <1>2, <2>1 DEF n
    <2> QED BY ZenonT(30), <1>1, <2>1, <2>2, <2>3 DEF HeldInv, p
  <1>12. FrameInv(x)'
    <2> SUFFICES ASSUME NEW f \in net'[p]
                 PROVE  /\ f.my_state \in 1..n
                        /\ f.from_state <= tx'[x].peer_saw
                        /\ f.from_state = 0 => f.diff = authored[x][f.my_state]
                        /\ f.from_state # 0 =>
                              /\ f.from_state <= f.my_state
                              /\ f.my_state - f.from_state < STATE_RING
                              /\ Patch(authored[x][f.from_state], f.diff) = authored[x][f.my_state]
                              /\ f.my_state > Last(rx[p].ring).seq => Holds(rx[p].ring, f.from_state)
                              /\ \A g \in net'[p] :
                                    (g.from_state # 0 /\ f.my_state > g.my_state)
                                       => f.from_state >= g.from_state
      BY ZenonT(30), <1>6 DEF FrameInv, p, n
    <2>1. /\ tx'[x].peer_saw \in Nat /\ tx'[x].peer_saw >= tx[x].peer_saw
          /\ tx[x].peer_saw \in Nat /\ tx'[x].peer_saw = s.peer_saw
      BY ZenonT(30), <1>1, <1>3, <1>7, EndTypes
    <2>2. \A g \in net[p] : /\ g.from_state \in Nat /\ g.my_state \in Nat
                            /\ g.my_state <= n
                            /\ g.from_state <= tx'[x].peer_saw
      <3> TAKE g \in net[p]
      <3>1. g.from_state \in Nat /\ g.my_state \in Nat
        BY Zenon, <1>1, <1>2, EndTypes DEF Frame
      <3>2. g.my_state \in 1..n /\ g.from_state <= tx[x].peer_saw
        BY ZenonT(30), <1>1 DEF FrameInv, p, n
      <3> QED BY SMTT(30), <1>2, <2>1, <3>1, <3>2
    <2>3. CASE f \in net[p]
      <3>1. /\ f.my_state \in 1..n
            /\ f.from_state = 0 => f.diff = authored[x][f.my_state]
            /\ f.from_state # 0 =>
                  /\ f.from_state <= f.my_state
                  /\ f.my_state - f.from_state < STATE_RING
                  /\ Patch(authored[x][f.from_state], f.diff) = authored[x][f.my_state]
                  /\ f.my_state > Last(rx[p].ring).seq => Holds(rx[p].ring, f.from_state)
                  /\ \A g \in net[p] :
                        (g.from_state # 0 /\ f.my_state > g.my_state)
                           => f.from_state >= g.from_state
        BY ZenonT(30), <1>1, <2>3 DEF FrameInv, p, n
      <3>2. ~(f.my_state > F.my_state)
        <4>1. F.my_state = n /\ n \in Nat /\ f.my_state \in 1..n
          BY Zenon, <1>2, <1>4, <3>1
        <4> HIDE DEF F, n
        <4> QED BY SMTT(30), <4>1
      <3>3. \A g \in net'[p] : g \in net[p] \/ g = F
        BY <1>6
      <3>4. f.from_state <= tx'[x].peer_saw
        BY Zenon, <2>2, <2>3
      <3>5. f.from_state # 0 => \A g \in net'[p] :
               (g.from_state # 0 /\ f.my_state > g.my_state)
                  => f.from_state >= g.from_state
        BY Zenon, <3>1, <3>2, <3>3
      <3> QED BY Zenon, <3>1, <3>4, <3>5
    <2>4. CASE f = F
      <3>1. F.my_state \in 1..n
        BY <1>2, <1>4
      <3>2. F.from_state <= tx'[x].peer_saw
        BY SMTT(30), Z3T(30), <1>4, <2>1
      <3>3. ASSUME NEW g \in net'[p], F.from_state # 0, F.my_state > g.my_state
            PROVE  F.from_state >= g.from_state
        <4>1. g # F
          BY <1>4, <3>3
        <4>2. g \in net[p]
          BY <1>6, <4>1
        <4> QED BY <1>4, <2>1, <2>2, <3>3, <4>2
      <3> QED BY ZenonT(30), <1>4, <1>11, <2>4, <3>1, <3>2, <3>3
    <2>5. f \in net[p] \/ f = F
      BY <1>6
    <2> QED BY ZenonT(30), <2>3, <2>4, <2>5
  <1>13. ASSUME NEW e \in End
         PROVE  FrameInv(e)'
    <2>1. CASE e = x
      BY <1>12, <2>1
    <2>2. CASE e # x
      <3>1. tx'[e] = tx[e] /\ net'[Peer[e]] = net[Peer[e]]
        BY ZenonT(30), <1>6, <1>7, <1>9, <2>2, EndAssumption
      <3>2. FrameInv(e)
        BY <1>1
      <3> QED BY ZenonT(30), <1>6, <3>1, <3>2 DEF FrameInv
    <2> QED BY <2>1, <2>2
  <1> QED BY <1>8, <1>10, <1>13 DEF IInv

-----------------------------------------------------------------------------
(* Receiving frames. *)

\* A frame in flight that is not stale is applied to the state it was made
\* from, so on_frame neither reports BaseMismatch nor refuses the result, and
\* the result is the state that was minted.
LEMMA FrameAccepted ==
    ASSUME IInv, NEW x \in End, NEW f \in net[x], ~Stale(rx[x], f)
    PROVE  /\ Applied(rx[x], f).val = authored[Peer[x]][f.my_state]
           /\ ~Rejects(Peer[x], rx[x], f)
           /\ f.from_state # 0 => rx[x].applied_any /\ Holds(rx[x].ring, f.from_state)
           /\ rx[x].applied_any => f.my_state > Last(rx[x].ring).seq
  <1> DEFINE p == Peer[x]
             r == rx[x]
             log == authored[p]
             n == Len(log)
  <1>1. /\ TypeOK /\ SenderInv(p) /\ ReceiverInv(x) /\ AckInv(p) /\ FrameInv(p)
        /\ p \in End /\ Peer[p] = x
    BY EndAssumption DEF IInv
  <1>2. /\ r \in Receiver /\ r.ring \in Seq(State) /\ r.applied_any \in BOOLEAN
        /\ Len(r.ring) \in Nat /\ Len(r.ring) >= 1
        /\ Last(r.ring).seq \in Nat
        /\ log \in Seq(Content) /\ n \in Nat
        /\ tx[p].peer_saw \in Nat /\ rx[p].peer_ack \in Nat /\ ack(r) \in Nat
        /\ STATE_RING \in Nat
    BY Zenon, <1>1, EndTypes
  <1>3. /\ f \in Frame /\ f.my_state \in Nat /\ f.from_state \in Nat
        /\ f.my_state \in 1..n
        /\ f.from_state <= tx[p].peer_saw
        /\ f.from_state = 0 => f.diff = log[f.my_state]
        /\ f.from_state # 0 =>
              /\ f.from_state <= f.my_state
              /\ Patch(log[f.from_state], f.diff) = log[f.my_state]
              /\ f.my_state > Last(r.ring).seq => Holds(r.ring, f.from_state)
    <2>1. f \in Frame
      BY ZenonT(30), <1>1, EndTypes
    <2>2. f.my_state \in Nat /\ f.from_state \in Nat
      BY SMTT(30), <2>1 DEF Frame
    <2> QED BY Zenon, <1>1, <2>1, <2>2 DEF FrameInv
  <1>4. \A i \in 1..n : log[i] \in Content
    BY ZenonT(30), <1>2, ElementOfSeq
  <1>5. /\ Base(r, f) \in State
        /\ Applied(r, f).val = Patch(Base(r, f).val, f.diff)
        /\ Base(r, f).val \in Content
    <2>1. Base(r, f) \in State /\ Applied(r, f).val = Patch(Base(r, f).val, f.diff)
      BY ZenonT(30), <1>2, <1>3, BaseIsEntry
    <2> QED BY <2>1 DEF State
  <1>6. f.from_state # 0 => r.applied_any
    <2>1. f.from_state <= ack(r)
      <3>1. tx[p].peer_saw <= rx[p].peer_ack /\ rx[p].peer_ack <= ack(r)
        BY Zenon, <1>1 DEF AckInv
      <3>2. f.from_state <= tx[p].peer_saw /\ f.from_state \in Nat
        BY Zenon, <1>3
      <3>3. tx[p].peer_saw \in Nat /\ rx[p].peer_ack \in Nat /\ ack(r) \in Nat
        BY Zenon, <1>2
      <3> QED BY SMTT(30), <3>1, <3>2, <3>3
    <2> QED BY SMTT(30), Z3T(30), <1>3, <2>1 DEF ack
  <1>7. r.applied_any => f.my_state > Last(r.ring).seq
    BY SMTT(30), Z3T(30), <1>2, <1>3 DEF Stale
  <1>8. f.my_state >= Last(r.ring).seq
    BY SMTT(30), Z3T(30), <1>2, <1>3 DEF Stale
  <1>9. f.from_state # 0 => Holds(r.ring, f.from_state)
    BY SMTT(30), <1>3, <1>6, <1>7
  <1>10. Applied(r, f).val = log[f.my_state] /\ (f.from_state # 0 => Base(r, f).seq = f.from_state)
    <2>1. CASE f.from_state = 0
      <3>1. Patch(Base(r, f).val, log[f.my_state]) = log[f.my_state]
        BY Zenon, <1>3, <1>4, <1>5, FullDiffReplaces DEF full_diff
      <3> QED BY ZenonT(30), <1>3, <1>5, <2>1, <3>1
    <2>2. CASE f.from_state # 0
      <3>1. Base(r, f) = Entry(r.ring, f.from_state)
        BY SMTT(30), <1>9, <2>2 DEF Base
      <3>2. PICK i \in 1..Len(r.ring) :
               Entry(r.ring, f.from_state) = r.ring[i] /\ r.ring[i].seq = f.from_state
        BY ZenonT(30), <1>2, <1>9, <2>2, EntryIsFound
      <3>3. r.ring[i].val = log[f.from_state]
        BY Zenon, <1>1, <1>6, <2>2, <3>2 DEF ReceiverInv
      <3> QED BY ZenonT(30), <1>3, <1>5, <2>2, <3>1, <3>2, <3>3
    <2> QED BY ZenonT(30), <2>1, <2>2
  <1>11. validate_transition(p, log[f.my_state], Last(r.ring).val)
    <2>1. CASE r.applied_any
      <3>1. Len(r.ring) \in 1..Len(r.ring)
        BY SMTT(30), <1>2
      <3>2. Last(r.ring).seq \in 1..n /\ Last(r.ring).val = log[Last(r.ring).seq]
        BY ZenonT(30), <1>1, <2>1, <3>1 DEF ReceiverInv, Last
      <3>3. \A i, j \in 1..n : i <= j => validate_transition(p, log[j], log[i])
        BY Zenon, <1>1 DEF SenderInv
      <3>4. Last(r.ring).seq <= f.my_state
        BY ZenonT(30), <1>2, <1>3, <1>8
      <3> QED BY ZenonT(30), <1>3, <3>2, <3>3, <3>4
    <2>2. CASE ~r.applied_any
      <3>1. r.ring = <<[seq |-> 1, val |-> Invented[x]]>>
        BY SMTT(30), Z3T(30), <1>1, <2>2 DEF ReceiverInv
      <3>2. Last(r.ring).val = Invented[x]
        BY <3>1 DEF Last
      <3>3. \A c \in Counters[p] : Invented[x][c] = 0 /\ log[f.my_state][c] \in Nat
        BY Zenon, <1>1, <1>3, <1>4, CellAssumption DEF Content
      <3>4. \A c \in Counters[p] : log[f.my_state][c] >= Invented[x][c]
        BY SMTT(30), Z3T(30), <3>3
      <3> QED BY <3>2, <3>4 DEF validate_transition
    <2> QED BY SMTT(30), <2>1, <2>2
  <1>12. ~Rejects(p, r, f)
    BY SMTT(30), <1>10, <1>11 DEF Rejects
  <1> QED BY ZenonT(30), <1>6, <1>7, <1>9, <1>10, <1>12

\* What a call of on_frame leaves behind, for a frame that is in flight.
LEMMA OnFrame ==
    ASSUME IInv, NEW x \in End, NEW f \in net[x],
           rx' = [rx EXCEPT ![x] = on_frame(Peer[x], @, f)]
    PROVE  /\ rx' \in [End -> Receiver]
           /\ \A e \in End : e # x => rx'[e] = rx[e]
           /\ rx'[x].peer_ack \in {rx[x].peer_ack, f.ack_state}
           /\ rx'[x].peer_ack >= rx[x].peer_ack
           /\ Stale(rx[x], f) => /\ rx'[x].ring = rx[x].ring
                                 /\ rx'[x].applied_any = rx[x].applied_any
           /\ ~Stale(rx[x], f) =>
                 /\ rx'[x].applied_any
                 /\ rx'[x].ring \in Seq(State)
                 /\ Len(rx'[x].ring) \in 1..(STATE_RING + 1)
                 /\ Sorted(rx'[x].ring)
                 /\ Last(rx'[x].ring).seq = f.my_state
                 /\ \A i \in 1..Len(rx'[x].ring) :
                       \/ /\ rx'[x].ring[i].seq = f.my_state
                          /\ rx'[x].ring[i].val = authored[Peer[x]][f.my_state]
                       \/ rx[x].applied_any /\ \E j \in 1..Len(rx[x].ring) : rx'[x].ring[i] = rx[x].ring[j]
                 /\ \A n \in Nat :
                       (/\ rx[x].applied_any /\ Holds(rx[x].ring, n)
                        /\ n >= f.from_state /\ n > f.my_state - STATE_RING - 1)
                       => Holds(rx'[x].ring, n)
  <1> DEFINE r == rx[x]
             q == on_frame(Peer[x], r, f)
             top == IF f.ack_state > r.peer_ack THEN f.ack_state ELSE r.peer_ack
  <1>1. TypeOK /\ ReceiverInv(x)
    BY Zenon DEF IInv
  <1>2. /\ r \in Receiver /\ r.ring \in Seq(State) /\ r.applied_any \in BOOLEAN
        /\ Len(r.ring) \in 1..(STATE_RING + 1) /\ Len(r.ring) \in Nat /\ Len(r.ring) >= 1
        /\ r.peer_ack \in Nat /\ f \in Frame
    BY Zenon, <1>1, EndTypes
  <1>3. f.ack_state \in Nat /\ top \in Nat /\ top \in {r.peer_ack, f.ack_state} /\ top >= r.peer_ack
    BY SMTT(30), <1>2 DEF Frame
  <1>4. rx \in [End -> Receiver] /\ rx' = [rx EXCEPT ![x] = q]
    BY <1>1 DEF TypeOK
  <1>5. ~Rejects(Peer[x], r, f)
    BY ZenonT(30), FrameAccepted DEF Rejects
  <1>6. q = IF Stale(r, f) THEN [r EXCEPT !.peer_ack = top]
            ELSE [[r EXCEPT !.peer_ack = top] EXCEPT !.ring = Pushed(r, f), !.applied_any = TRUE]
    BY <1>5 DEF on_frame
  <1> HIDE DEF q, top
  <1>7. CASE Stale(r, f)
    <2>1. q \in Receiver /\ q.peer_ack = top /\ q.ring = r.ring /\ q.applied_any = r.applied_any
      BY <1>2, <1>3, <1>6, <1>7 DEF Receiver
    <2> QED BY Zenon, <1>3, <1>4, <1>7, <2>1
  <1>8. CASE ~Stale(r, f)
    <2>1. /\ Applied(r, f).val = authored[Peer[x]][f.my_state]
          /\ f.from_state # 0 => r.applied_any /\ Holds(r.ring, f.from_state)
          /\ r.applied_any => f.my_state > Last(r.ring).seq
      BY Zenon, <1>8, FrameAccepted
    <2>2. Applied(r, f).seq = f.my_state
      BY Zenon, <1>2, BaseIsEntry
    <2>3. Sorted(r.ring)
      BY Zenon, <1>1 DEF ReceiverInv
    <2>4. /\ Pushed(r, f) \in Seq(State)
          /\ Len(Pushed(r, f)) \in 1..(STATE_RING + 1)
          /\ Sorted(Pushed(r, f))
          /\ Last(Pushed(r, f)) = Applied(r, f)
          /\ \A i \in 1..Len(Pushed(r, f)) :
                 \/ Pushed(r, f)[i] = Applied(r, f)
                 \/ r.applied_any /\ \E j \in 1..Len(r.ring) : Pushed(r, f)[i] = r.ring[j]
          /\ \A n \in Nat :
                 (/\ r.applied_any /\ Holds(r.ring, n)
                  /\ n >= f.from_state /\ n > f.my_state - STATE_RING - 1)
                 => Holds(Pushed(r, f), n)
      BY ZenonT(30), <1>2, <2>1, <2>3, PushedRing
    <2>5. q \in Receiver /\ q.peer_ack = top /\ q.ring = Pushed(r, f) /\ q.applied_any = TRUE
      BY Zenon, <1>2, <1>3, <1>6, <1>8, <2>4 DEF Receiver
    <2>6. rx' \in [End -> Receiver] /\ rx'[x] = q /\ \A e \in End : e # x => rx'[e] = rx[e]
      BY SMTT(30), <1>4, <2>5
    <2>7. \A i \in 1..Len(Pushed(r, f)) :
                       \/ /\ Pushed(r, f)[i].seq = f.my_state
                          /\ Pushed(r, f)[i].val = authored[Peer[x]][f.my_state]
                       \/ r.applied_any /\ \E j \in 1..Len(r.ring) : Pushed(r, f)[i] = r.ring[j]
      BY Zenon, <2>1, <2>2, <2>4
    <2>8. rx'[x].ring = Pushed(r, f) /\ rx'[x].applied_any /\ rx'[x].peer_ack = top
      BY Zenon, <2>5, <2>6
    <2>9. Last(rx'[x].ring).seq = f.my_state
      BY Zenon, <2>2, <2>4, <2>8
    <2>10. /\ rx'[x].ring \in Seq(State)
           /\ Len(rx'[x].ring) \in 1..(STATE_RING + 1)
           /\ Sorted(rx'[x].ring)
           /\ \A n \in Nat :
                 (/\ r.applied_any /\ Holds(r.ring, n)
                  /\ n >= f.from_state /\ n > f.my_state - STATE_RING - 1)
                 => Holds(rx'[x].ring, n)
      BY Zenon, <2>4, <2>8
    <2>11. \A i \in 1..Len(rx'[x].ring) :
              \/ /\ rx'[x].ring[i].seq = f.my_state
                 /\ rx'[x].ring[i].val = authored[Peer[x]][f.my_state]
              \/ r.applied_any /\ \E j \in 1..Len(r.ring) : rx'[x].ring[i] = r.ring[j]
      BY ZenonT(30), <2>7, <2>8
    <2> QED BY Zenon, <1>3, <1>8, <2>6, <2>8, <2>9, <2>10, <2>11
  <1> QED BY Zenon, <1>7, <1>8

\* Receiving a frame preserves the invariant: pruning and trimming take away no
\* state that the sender, or a frame still in flight, could name as a base.
LEMMA ReceiveInv ==
    ASSUME IInv, NEW x \in End, ReceiveFrame(x)
    PROVE  IInv'
  <1> DEFINE p == Peer[x]
             r == rx[x]
             q == rx'[x]
             log == authored[p]
  <1>1. TypeOK /\ \A e \in End : /\ SenderInv(e) /\ ReceiverInv(e) /\ AckInv(e)
                                 /\ HeldInv(e) /\ FrameInv(e)
    BY DEF IInv
  <1>2. PICK f \in net[x] :
           /\ rx' = [rx EXCEPT ![x] = on_frame(Peer[x], @, f)]
           /\ net' = [net EXCEPT ![x] = @ \ {f}]
           /\ tx' = tx /\ authored' = authored
    BY Zenon DEF ReceiveFrame
  <1>3. /\ rx' \in [End -> Receiver]
        /\ \A e \in End : e # x => rx'[e] = rx[e]
        /\ q.peer_ack \in {r.peer_ack, f.ack_state}
        /\ q.peer_ack >= r.peer_ack
        /\ Stale(r, f) => q.ring = r.ring /\ q.applied_any = r.applied_any
        /\ ~Stale(r, f) =>
              /\ q.applied_any
              /\ q.ring \in Seq(State)
              /\ Len(q.ring) \in 1..(STATE_RING + 1)
              /\ Sorted(q.ring)
              /\ Last(q.ring).seq = f.my_state
              /\ \A i \in 1..Len(q.ring) :
                    \/ q.ring[i].seq = f.my_state /\ q.ring[i].val = log[f.my_state]
                    \/ r.applied_any /\ \E j \in 1..Len(r.ring) : q.ring[i] = r.ring[j]
              /\ \A n \in Nat :
                    (/\ r.applied_any /\ Holds(r.ring, n)
                     /\ n >= f.from_state /\ n > f.my_state - STATE_RING - 1)
                    => Holds(q.ring, n)
    BY Zenon, <1>2, OnFrame
  <1>4. /\ p \in End /\ Peer[p] = x /\ p # x
        /\ \A e \in End : (Peer[e] = x => e = p) /\ Peer[e] \in End
    BY EndAssumption
  <1>5. /\ net' \in [End -> SUBSET Frame]
        /\ \A e \in End : net'[e] \subseteq net[e]
        /\ \A e \in End : e # x => net'[e] = net[e]
    BY <1>1, <1>2 DEF TypeOK
  <1>6. /\ f \in Frame /\ f.my_state \in Nat /\ f.from_state \in Nat /\ f.ack_state \in Nat
        /\ f.my_state \in 1..Len(log) /\ f.from_state <= tx[p].peer_saw
    <2>1. f \in Frame
      BY ZenonT(30), <1>1, EndTypes
    <2>2. FrameInv(p)
      BY ZenonT(30), <1>1, <1>4
    <2> QED BY ZenonT(30), <1>4, <2>1, <2>2 DEF Frame, FrameInv
  <1>7. /\ r.applied_any \in BOOLEAN /\ Last(r.ring).seq \in Nat /\ ack(r) \in Nat
        /\ r.ring \in Seq(State)
        /\ tx[p].peer_saw \in Nat /\ rx[p].peer_ack \in Nat /\ r.peer_ack \in Nat
        /\ STATE_RING \in Nat \ {0} /\ Len(log) \in Nat
    BY ZenonT(30), <1>1, <1>4, EndTypes
  <1>8. ~Stale(r, f) => (r.applied_any => f.my_state > Last(r.ring).seq)
    BY Zenon, FrameAccepted
  <1>9. TypeOK'
    <2>1. \A e \in End : Len(rx'[e].ring) \in 1..(STATE_RING + 1)
      BY Zenon, <1>1, <1>3 DEF TypeOK
    <2> QED BY Zenon, <1>1, <1>2, <1>3, <1>5, <2>1 DEF TypeOK
  <1> HIDE DEF p, r, q, log
  <1>10. /\ ack(q) \in Nat /\ ack(q) >= ack(r)
         /\ ~Stale(r, f) => ack(q) = f.my_state
         /\ Stale(r, f) => ack(q) = ack(r)
    <2>1. CASE Stale(r, f)
      <3>1. ack(q) = ack(r)
        BY ZenonT(30), <1>3, <2>1 DEF ack
      <3> QED BY <1>7, <2>1, <3>1
    <2>2. CASE ~Stale(r, f)
      <3>1. ack(q) = f.my_state
        BY SMTT(30), Z3T(30), <1>3, <2>2 DEF ack
      <3> QED BY SMTT(30), Z3T(30), <1>6, <1>7, <1>8, <2>2, <3>1 DEF ack
    <2> QED BY ZenonT(30), <2>1, <2>2
  <1>11. ASSUME NEW e \in End
         PROVE  SenderInv(e)' /\ ReceiverInv(e)'
    <2>1. SenderInv(e)'
      <3>1. SenderInv(e)
        BY <1>1
      <3> QED BY Zenon, <1>2, <3>1 DEF SenderInv
    <2>2. ReceiverInv(e)
      BY <1>1
    <2>3. CASE e # x \/ Stale(r, f)
      <3>1. rx'[e].ring = rx[e].ring /\ rx'[e].applied_any = rx[e].applied_any
        BY ZenonT(30), <1>3, <2>3 DEF q, r
      <3>2. ReceiverInv(e)'
        BY Zenon, <1>2, <2>2, <3>1 DEF ReceiverInv
      <3> QED BY <2>1, <3>2
    <2>4. CASE e = x /\ ~Stale(r, f)
      <3>1. ASSUME NEW i \in 1..Len(q.ring)
            PROVE  q.ring[i].seq \in 1..Len(log) /\ q.ring[i].val = log[q.ring[i].seq]
        <4>1. CASE q.ring[i].seq = f.my_state /\ q.ring[i].val = log[f.my_state]
          BY <1>6, <4>1
        <4>2. CASE r.applied_any /\ \E j \in 1..Len(r.ring) : q.ring[i] = r.ring[j]
          <5>1. PICK j \in 1..Len(r.ring) : q.ring[i] = r.ring[j]
            BY <4>2
          <5>2. r.ring[j].seq \in 1..Len(log) /\ r.ring[j].val = log[r.ring[j].seq]
            BY Zenon, <2>2, <2>4, <4>2 DEF ReceiverInv, r, log, p
          <5> QED BY <5>1, <5>2
        <4> QED BY ZenonT(30), <1>3, <2>4, <4>1, <4>2
      <3>2. Sorted(q.ring) /\ q.applied_any
        BY Zenon, <1>3, <2>4
      <3>3. ReceiverInv(e)'
        BY Zenon, <1>2, <2>4, <3>1, <3>2 DEF ReceiverInv, q, log, p
      <3> QED BY <2>1, <3>3
    <2> QED BY <2>3, <2>4
  <1>12. ASSUME NEW e \in End
         PROVE  AckInv(e)'
    <2>1. AckInv(e)
      BY ZenonT(30), <1>1
    <2>2. /\ tx[e].peer_saw \in Nat /\ rx[e].peer_ack \in Nat /\ ack(rx[Peer[e]]) \in Nat
          /\ \A g \in net[e] : g.ack_state \in Nat
      BY ZenonT(30), <1>1, <1>4, EndTypes DEF Frame
    <2>3. ack(rx'[Peer[e]]) \in Nat /\ ack(rx'[Peer[e]]) >= ack(rx[Peer[e]])
      <3>1. CASE Peer[e] = x
        BY <1>10, <3>1 DEF q, r
      <3>2. CASE Peer[e] # x
        <4>1. rx'[Peer[e]] = rx[Peer[e]]
          BY ZenonT(30), <1>3, <1>4, <3>2
        <4> QED BY <2>2, <4>1
      <3> QED BY ZenonT(30), <3>1, <3>2
    <2>4. /\ rx'[e].peer_ack \in Nat /\ rx'[e].peer_ack >= rx[e].peer_ack
          /\ rx'[e].peer_ack <= ack(rx[Peer[e]])
      <3>1. rx[e].peer_ack <= ack(rx[Peer[e]]) /\ \A g \in net[e] : g.ack_state <= ack(rx[Peer[e]])
        BY <2>1 DEF AckInv
      <3>2. CASE e = x
        <4>1. rx'[e].peer_ack \in {rx[e].peer_ack, f.ack_state} /\ rx'[e].peer_ack >= rx[e].peer_ack
          BY ZenonT(30), <1>3, <3>2 DEF q, r
        <4> QED BY <1>6, <2>2, <3>1, <3>2, <4>1
      <3>3. CASE e # x
        <4>1. rx'[e] = rx[e]
          BY <1>3, <3>3
        <4>2. rx[e].peer_ack >= rx[e].peer_ack
          BY <2>2
        <4> QED BY ZenonT(30), <2>2, <3>1, <4>1, <4>2
      <3> QED BY <3>2, <3>3
    <2>5. tx[e].peer_saw <= rx'[e].peer_ack
      BY ZenonT(30), <2>1, <2>2, <2>4, BelowGrowing DEF AckInv
    <2>6. rx'[e].peer_ack <= ack(rx'[Peer[e]])
      BY SMTT(30), Z3T(30), <2>2, <2>3, <2>4
    <2>7. \A g \in net'[e] : g.ack_state <= ack(rx'[Peer[e]])
      <3> TAKE g \in net'[e]
      <3>1. g \in net[e] /\ g.ack_state <= ack(rx[Peer[e]]) /\ g.ack_state \in Nat
        BY ZenonT(30), <1>5, <2>1, <2>2 DEF AckInv
      <3> QED BY <2>2, <2>3, <3>1
    <2>8. ack(rx[Peer[e]])' = ack(rx'[Peer[e]])
      BY ZenonT(30) DEF ack
    <2> QED BY ZenonT(30), <1>2, <2>5, <2>6, <2>7, <2>8 DEF AckInv
  <1>13. HeldInv(p)'
    <2>1. HeldInv(p) /\ AckInv(p)
      BY <1>1, <1>4
    <2>2. rx'[p] = rx[p] /\ net'[p] = net[p] /\ Peer[p] = x
      BY ZenonT(30), <1>3, <1>4, <1>5
    <2>3. ack(rx[Peer[p]])' = ack(q) /\ ack(rx[Peer[p]]) = ack(r)
      BY <2>2 DEF ack, q, r
    <2>4. \A a \in Known(p)' : a \in Known(p) \/ a = ack(q)
      BY ZenonT(30), <1>2, <2>2, <2>3 DEF Known
    <2>5. \A a \in Known(p) : a \in Nat /\ a <= ack(r)
      <3>1. \A g \in net[p] : g.ack_state \in Nat
        BY ZenonT(30), <1>1, <1>4, EndTypes DEF Frame
      <3>2. /\ tx[p].peer_saw <= rx[p].peer_ack /\ rx[p].peer_ack <= ack(r)
            /\ \A g \in net[p] : g.ack_state <= ack(r)
        BY ZenonT(30), <2>1, <2>3 DEF AckInv
      <3>3. tx[p].peer_saw <= ack(r) /\ ack(r) <= ack(r)
        BY <1>7, <3>2
      <3> QED BY ZenonT(30), <1>7, <2>3, <3>1, <3>2, <3>3 DEF Known
    <2>6. ASSUME NEW a \in Known(p)', a # 0, a >= tx[p].peer_saw,
                 a > Len(log) - STATE_RING
          PROVE  Holds(q.ring, a)
      <3>1. CASE a \in Known(p)
        <4>1. Holds(r.ring, a)
          BY <2>1, <2>2, <2>6, <3>1 DEF HeldInv, r, log
        <4>2. CASE Stale(r, f)
          BY ZenonT(30), <1>3, <4>1, <4>2
        <4>3. CASE ~Stale(r, f)
          <5>1. a \in Nat /\ a <= ack(r)
            BY <2>5, <3>1
          <5>2. r.applied_any
            BY <2>6, <5>1 DEF ack
          <5>3. a >= f.from_state
            BY ZenonT(30), <1>6, <1>7, <2>6, <5>1, Between
          <5>4. a > f.my_state - STATE_RING - 1
            BY ZenonT(30), <1>6, <1>7, <2>6, <5>1, WithinWindow
          <5> QED BY ZenonT(30), <1>3, <4>1, <4>3, <5>1, <5>2, <5>3, <5>4
        <4> QED BY <4>2, <4>3
      <3>2. CASE a \notin Known(p)
        <4>1. a = ack(q)
          BY <2>4, <3>2
        <4>2. ~Stale(r, f)
          <5>1. ack(r) \in Known(p)
            BY ZenonT(30), <2>3 DEF Known
          <5> QED BY <1>10, <3>2, <4>1, <5>1
        <4>3. Last(q.ring).seq = a /\ Len(q.ring) \in 1..Len(q.ring)
          <5>1. /\ Len(q.ring) \in 1..(STATE_RING + 1) /\ STATE_RING \in Nat \ {0}
                /\ Last(q.ring).seq = f.my_state /\ ack(q) = f.my_state
            BY Zenon, <1>3, <1>7, <1>10, <4>2
          <5>2. Len(q.ring) \in 1..Len(q.ring)
            BY <5>1
          <5> QED BY Zenon, <4>1, <5>1, <5>2
        <4> QED BY <4>3 DEF Holds, Last
      <3> QED BY <3>1, <3>2
    <2> QED BY SMTT(30), Z3T(30), <1>2, <2>2, <2>6 DEF HeldInv, q, log
  <1>14. ASSUME NEW e \in End
         PROVE  HeldInv(e)'
    <2>1. CASE e = p
      BY <1>13, <2>1
    <2>2. CASE e # p
      <3>1. Peer[e] # x /\ rx'[Peer[e]] = rx[Peer[e]] /\ HeldInv(e)
        BY ZenonT(30), <1>1, <1>3, <1>4, <2>2
      <3>2. rx'[e].peer_ack = rx[e].peer_ack \/ (rx'[e].peer_ack = f.ack_state /\ f \in net[e])
        BY Zenon, <1>3 DEF q, r
      <3>3. \A a \in Known(e)' : a \in Known(e)
        BY ZenonT(30), <1>2, <1>5, <3>1, <3>2 DEF Known, ack
      <3> QED BY ZenonT(30), <1>2, <3>1, <3>3 DEF HeldInv
    <2> QED BY <2>1, <2>2
  <1>15. FrameInv(p)'
    <2>1. FrameInv(p) /\ AckInv(p) /\ Peer[p] = x
      BY ZenonT(30), <1>1, <1>4
    <2>2. \A g \in net[x] : g.my_state \in Nat /\ g.from_state \in Nat
      BY ZenonT(30), <1>1, EndTypes DEF Frame
    <2>3. ASSUME NEW g \in net'[x], g.from_state # 0, g.my_state > Last(q.ring).seq
          PROVE  Holds(q.ring, g.from_state)
      <3>1. /\ g \in net[x] /\ g.my_state \in Nat /\ g.from_state \in Nat
            /\ g.from_state <= tx[p].peer_saw
            /\ g.my_state - g.from_state < STATE_RING
            /\ g.my_state > Last(r.ring).seq => Holds(r.ring, g.from_state)
            /\ (f.from_state # 0 /\ g.my_state > f.my_state) => g.from_state >= f.from_state
        BY Zenon, <1>5, <2>1, <2>2, <2>3 DEF FrameInv, r
      <3>2. CASE Stale(r, f)
        BY Zenon, <1>3, <2>3, <3>1, <3>2
      <3>3. CASE ~Stale(r, f)
        <4>1. g.my_state > f.my_state
          BY ZenonT(30), <1>3, <2>3, <3>3
        <4>2. tx[p].peer_saw <= rx[p].peer_ack /\ rx[p].peer_ack <= ack(r)
          BY <2>1 DEF AckInv, r
        <4>3. ack(r) # 0
          BY ZenonT(30), <1>7, <2>3, <3>1, <4>2, AboveNonZero
        <4>4. r.applied_any
          BY ZenonT(30), <4>3 DEF ack
        <4>5. Holds(r.ring, g.from_state)
          <5>1. f.my_state > Last(r.ring).seq
            BY ZenonT(30), <1>8, <3>3, <4>4
          <5>2. g.my_state > Last(r.ring).seq
            BY ZenonT(30), <1>6, <1>7, <3>1, <4>1, <5>1, Newer
          <5> QED BY ZenonT(30), <3>1, <5>2
        <4>6. g.from_state >= f.from_state
          BY <1>6, <3>1, <4>1
        <4>7. g.from_state > f.my_state - STATE_RING - 1
          BY ZenonT(30), <1>6, <1>7, <3>1, <4>1, BaseWithinWindow
        <4> QED BY ZenonT(30), <1>3, <3>1, <3>3, <4>4, <4>5, <4>6, <4>7
      <3> QED BY <3>2, <3>3
    <2>4. net'[x] \subseteq net[x]
      BY <1>5
    <2> QED BY Zenon, <1>2, <2>1, <2>3, <2>4 DEF FrameInv, q
  <1>16. ASSUME NEW e \in End
         PROVE  FrameInv(e)'
    <2>1. CASE e = p
      BY <1>15, <2>1
    <2>2. CASE e # p
      <3>1. net'[Peer[e]] = net[Peer[e]] /\ rx'[Peer[e]] = rx[Peer[e]] /\ FrameInv(e)
        BY Zenon, <1>1, <1>3, <1>4, <1>5, <2>2
      <3> QED BY Zenon, <1>2, <3>1 DEF FrameInv
    <2> QED BY <2>1, <2>2
  <1> QED BY Zenon, <1>9, <1>11, <1>12, <1>14, <1>16 DEF IInv

-----------------------------------------------------------------------------
(* The theorems. *)

\* The invariant is inductive.
LEMMA NextInv == IInv /\ [Next]_vars => IInv'
  <1> SUFFICES ASSUME IInv, [Next]_vars PROVE IInv'
    OBVIOUS
  <1>1. CASE Next
    <2>1. PICK x \in End : Update(x) \/ OfferFrame(x) \/ ReceiveFrame(x) \/ LoseFrame(x)
      BY <1>1 DEF Next
    <2> QED BY <2>1, UpdateInv, OfferInv, ReceiveInv, LoseInv
  <1>2. CASE UNCHANGED vars
    <2>1. tx' = tx /\ rx' = rx /\ net' = net /\ authored' = authored
      BY <1>2 DEF vars
    <2>2. TypeOK'
      BY <2>1 DEF IInv, TypeOK
    <2>3. ASSUME NEW e \in End
          PROVE  /\ SenderInv(e)' /\ ReceiverInv(e)' /\ AckInv(e)'
                 /\ HeldInv(e)' /\ FrameInv(e)'
      <3>1. SenderInv(e) /\ ReceiverInv(e) /\ AckInv(e) /\ HeldInv(e) /\ FrameInv(e)
        BY DEF IInv
      <3>2. SenderInv(e)'
        BY Zenon, <2>1, <3>1 DEF SenderInv
      <3>3. ReceiverInv(e)'
        BY ZenonT(30), <2>1, <3>1 DEF ReceiverInv
      <3>4. AckInv(e)' /\ HeldInv(e)'
        BY Zenon, <2>1, <3>1 DEF AckInv, HeldInv, Known, ack
      <3>5. FrameInv(e)'
        BY ZenonT(30), <2>1, <3>1 DEF FrameInv
      <3> QED BY <3>2, <3>3, <3>4, <3>5
    <2> QED BY <2>2, <2>3 DEF IInv
  <1> QED BY <1>1, <1>2

\* The invariant holds in every reachable state.
THEOREM Invariance == Spec => []IInv
  BY InitInv, NextInv, PTL DEF Spec

\* Rings never become empty and never outgrow their caps.
THEOREM TypeCorrect == Spec => []TypeOK
  <1>1. IInv => TypeOK
    BY DEF IInv
  <1> QED BY <1>1, Invariance, PTL

\* What a receiver shows is what its peer minted, whatever was lost or
\* overtaken on the way.
THEOREM ReplicaAgreement == Spec => []ReplicaAgrees
  <1>1. IInv => ReplicaAgrees
    BY Zenon DEF IInv, ReceiverInv, ReplicaAgrees
  <1> QED BY <1>1, Invariance, PTL

\* No frame in flight is ever refused by on_frame.
THEOREM NoRejection == Spec => []NoFrameRejected
  <1>1. IInv => NoFrameRejected
    <2> SUFFICES ASSUME IInv, NEW e \in End, NEW f \in net[e]
                 PROVE  ~Rejects(Peer[e], rx[e], f)
      BY DEF NoFrameRejected
    <2>1. CASE Stale(rx[e], f)
      BY Zenon, <2>1 DEF Rejects
    <2>2. CASE ~Stale(rx[e], f)
      BY Zenon, <2>2, FrameAccepted
    <2> QED BY <2>1, <2>2
  <1> QED BY <1>1, Invariance, PTL

\* What a sender believes acknowledged was applied by its peer, which holds it
\* for as long as the sender could name it as a base.
THEOREM AckedHeld == Spec => []AckedStateIsHeld
  <1>1. ASSUME IInv, NEW e \in End
        PROVE  /\ tx[e].peer_saw <= ack(rx[Peer[e]])
               /\ (tx[e].peer_saw # 0 /\ Holds(tx[e].ring, tx[e].peer_saw))
                     => Holds(rx[Peer[e]].ring, tx[e].peer_saw)
    <2>1. TypeOK /\ SenderInv(e) /\ AckInv(e) /\ HeldInv(e)
      BY <1>1 DEF IInv
    <2>2. /\ tx[e].peer_saw \in Nat /\ rx[e].peer_ack \in Nat /\ Peer[e] \in End
          /\ Len(authored[e]) \in Nat /\ Len(tx[e].ring) \in 1..STATE_RING
          /\ STATE_RING \in Nat \ {0}
      BY <2>1, EndTypes
    <2>3. ack(rx[Peer[e]]) \in Nat
      BY ZenonT(30), <2>1, <2>2, EndTypes
    <2>4. tx[e].peer_saw <= ack(rx[Peer[e]])
      BY ZenonT(30), <2>1, <2>2, <2>3, AtMost DEF AckInv
    <2>5. ASSUME tx[e].peer_saw # 0, Holds(tx[e].ring, tx[e].peer_saw)
          PROVE  Holds(rx[Peer[e]].ring, tx[e].peer_saw)
      <3>1. PICK i \in 1..Len(tx[e].ring) : tx[e].ring[i].seq = tx[e].peer_saw
        BY SMTT(30), <2>5 DEF Holds
      <3>2. tx[e].peer_saw = Len(authored[e]) - Len(tx[e].ring) + i
        BY Zenon, <2>1, <3>1 DEF SenderInv
      <3>3. tx[e].peer_saw > Len(authored[e]) - STATE_RING
        <4>1. \A n \in Nat : \A m, k, d \in Int : 1 <= d /\ k <= m => n - k + d > n - m
          OBVIOUS
        <4>2. /\ Len(tx[e].ring) \in Int /\ i \in Int /\ 1 <= i
              /\ Len(tx[e].ring) <= STATE_RING /\ STATE_RING \in Int
          BY <2>2
        <4> QED BY Zenon, <2>2, <3>2, <4>1, <4>2
      <3>4. tx[e].peer_saw \in Known(e) /\ tx[e].peer_saw >= tx[e].peer_saw
        BY SMTT(30), Z3T(30), <2>2 DEF Known
      <3> QED BY ZenonT(30), <2>1, <2>5, <3>3, <3>4 DEF HeldInv
    <2> QED BY <2>4, <2>5
  <1>2. IInv => AckedStateIsHeld
    BY SMTT(30), <1>1 DEF AckedStateIsHeld
  <1> QED BY <1>2, Invariance, PTL

-----------------------------------------------------------------------------
(* Steps. *)

\* A frame either leaves what is shown alone or moves it forwards to the state
\* minted under the frame's number.
LEMMA ReceiveMovesOn ==
    ASSUME IInv, NEW x \in End, ReceiveFrame(x)
    PROVE  /\ \A e \in End : e # x => rx'[e] = rx[e]
           /\ rx'[x].peer_ack >= rx[x].peer_ack
           /\ \/ /\ ack(rx'[x]) = ack(rx[x])
                 /\ Last(rx'[x].ring) = Last(rx[x].ring)
              \/ /\ ack(rx'[x]) \in (ack(rx[x]) + 1)..Len(authored[Peer[x]])
                 /\ Last(rx'[x].ring).val = authored[Peer[x]][ack(rx'[x])]
  <1>1. PICK f \in net[x] : rx' = [rx EXCEPT ![x] = on_frame(Peer[x], @, f)]
    BY Zenon DEF ReceiveFrame
  <1>2. IInv'
    BY ReceiveInv
  <1>3. TypeOK /\ TypeOK' /\ ReceiverInv(x)' /\ authored' = authored
    BY <1>2 DEF IInv, ReceiveFrame
  <1>4. /\ ack(rx[x]) \in Nat /\ Last(rx[x].ring).seq \in Nat
        /\ f \in Frame /\ Len(authored[Peer[x]]) \in Nat
    BY Zenon, <1>3, EndTypes
  <1>5. /\ \A e \in End : e # x => rx'[e] = rx[e]
        /\ rx'[x].peer_ack >= rx[x].peer_ack
        /\ Stale(rx[x], f) => /\ rx'[x].ring = rx[x].ring
                              /\ rx'[x].applied_any = rx[x].applied_any
        /\ ~Stale(rx[x], f) => /\ rx'[x].applied_any
                               /\ Last(rx'[x].ring).seq = f.my_state
                               /\ Len(rx'[x].ring) \in 1..(STATE_RING + 1)
    BY Zenon, <1>1, OnFrame
  <1>6. CASE Stale(rx[x], f)
    BY Zenon, <1>5, <1>6 DEF ack
  <1>7. CASE ~Stale(rx[x], f)
    <2>1. ack(rx'[x]) = f.my_state /\ rx'[x].applied_any
      BY ZenonT(30), <1>5, <1>7 DEF ack
    <2>2. Len(rx'[x].ring) \in 1..Len(rx'[x].ring)
      <3>1. Len(rx'[x].ring) \in 1..(STATE_RING + 1)
        BY Zenon, <1>5, <1>7
      <3> QED BY <3>1, RingAssumption
    <2>3. /\ Last(rx'[x].ring).seq \in 1..Len(authored[Peer[x]])
          /\ Last(rx'[x].ring).val = authored[Peer[x]][Last(rx'[x].ring).seq]
      BY ZenonT(30), <1>3, <2>1, <2>2 DEF ReceiverInv, Last
    <2>4. f.my_state > ack(rx[x])
      <3>1. rx[x].applied_any => f.my_state > Last(rx[x].ring).seq
        BY ZenonT(30), <1>7, FrameAccepted
      <3>2. f.my_state >= 1
        BY SMTT(30), Z3T(30), <1>4, <1>5, <1>7, <2>3
      <3>3. f.my_state \in Nat
        BY <1>4 DEF Frame
      <3> QED BY SMTT(30), <1>4, <3>1, <3>2, <3>3 DEF ack
    <2>5. Last(rx'[x].ring).seq = f.my_state /\ f.my_state \in Nat
      BY ZenonT(30), <1>4, <1>5, <1>7 DEF Frame
    <2>6. Last(rx'[x].ring).val = authored[Peer[x]][ack(rx'[x])]
      BY Zenon, <2>1, <2>3, <2>5
    <2>7. f.my_state \in (ack(rx[x]) + 1)..Len(authored[Peer[x]])
      <3>1. f.my_state \in 1..Len(authored[Peer[x]])
        BY Zenon, <2>3, <2>5
      <3> QED BY SMTT(30), <1>4, <2>4, <3>1
    <2> QED BY Zenon, <1>5, <2>1, <2>6, <2>7
  <1> QED BY Zenon, <1>5, <1>6, <1>7

\* No step takes a shown state, an acknowledgement or a belief about one back.
THEOREM Forwards == Spec => NeverBackwards
  <1> DEFINE A(e) == /\ ack(rx[e])' >= ack(rx[e])
                     /\ rx[e].peer_ack' >= rx[e].peer_ack
                     /\ tx[e].peer_saw' >= tx[e].peer_saw
                     /\ (rx[e].applied_any /\ ack(rx[e])' = ack(rx[e]))
                           => Last(rx[e].ring)' = Last(rx[e].ring)
  <1>1. ASSUME IInv, Next, NEW e \in End
        PROVE  A(e)
    <2>1. /\ ack(rx[e]) \in Nat /\ rx[e].peer_ack \in Nat /\ tx[e].peer_saw \in Nat
          /\ tx \in [End -> Sender]
      BY Zenon, <1>1, EndTypes DEF IInv, TypeOK
    <2>2. ack(rx[e])' = ack(rx'[e]) /\ Last(rx[e].ring)' = Last(rx'[e].ring)
      BY DEF ack, Last
    <2>3. PICK x \in End : Update(x) \/ OfferFrame(x) \/ ReceiveFrame(x) \/ LoseFrame(x)
      BY <1>1 DEF Next
    <2>4. CASE Update(x)
      <3>1. rx' = rx
        BY <2>4 DEF Update
      <3>2. tx'[e].peer_saw = tx[e].peer_saw
        BY SMTT(30), Z3T(30), <2>1, <2>4 DEF Update, update, Sender
      <3> QED BY SMTT(30), <2>1, <2>2, <3>1, <3>2
    <2>5. CASE OfferFrame(x)
      <3>1. rx' = rx
        BY <2>5 DEF OfferFrame
      <3>2. tx'[e].peer_saw >= tx[e].peer_saw
        <4> DEFINE s == on_ack(tx[x], rx[x].peer_ack)
        <4>1. tx[x] \in Sender /\ tx[x].peer_saw \in Nat /\ rx[x].peer_ack \in Nat
          BY SMTT(30), <1>1, EndTypes DEF IInv
        <4>2. s \in Sender /\ s.peer_saw >= tx[x].peer_saw
          BY SMTT(30), Z3T(30), <4>1 DEF on_ack, Sender
        <4>3. tx' = [tx EXCEPT ![x] = s]
              \/ tx' = [tx EXCEPT ![x] = [s EXCEPT !.last_ack_sent = ack(rx[x])]]
          BY <2>5 DEF OfferFrame
        <4> HIDE DEF s
        <4>4. tx'[x].peer_saw = s.peer_saw /\ (e # x => tx'[e] = tx[e])
          BY <2>1, <4>2, <4>3 DEF Sender
        <4> QED BY SMTT(30), Z3T(30), <2>1, <4>2, <4>4
      <3> QED BY SMTT(30), <2>1, <2>2, <3>1, <3>2
    <2>6. CASE ReceiveFrame(x)
      <3>1. tx' = tx
        BY <2>6 DEF ReceiveFrame
      <3>2. /\ e # x => rx'[e] = rx[e]
            /\ rx'[x].peer_ack >= rx[x].peer_ack
            /\ \/ /\ ack(rx'[x]) = ack(rx[x])
                  /\ Last(rx'[x].ring) = Last(rx[x].ring)
               \/ ack(rx'[x]) \in (ack(rx[x]) + 1)..Len(authored[Peer[x]])
        BY SMTT(30), <1>1, <2>6, ReceiveMovesOn
      <3>3. Len(authored[Peer[x]]) \in Nat
        BY ZenonT(30), <1>1, EndAssumption, EndTypes DEF IInv
      <3> QED BY SMTT(30), Z3T(30), <2>1, <2>2, <3>1, <3>2, <3>3
    <2>7. CASE LoseFrame(x)
      BY SMTT(30), Z3T(30), <2>1, <2>2, <2>7 DEF LoseFrame
    <2> QED BY Zenon, <2>3, <2>4, <2>5, <2>6, <2>7
  <1>2. IInv /\ [Next]_vars => [\A e \in End : A(e)]_vars
    BY <1>1
  <1> QED BY <1>2, Invariance, PTL DEF Spec, NeverBackwards

\* The engine implements the abstract replica, as far as safety goes: every
\* step publishes a state, shows a newer published one, or cannot be seen.
THEOREM ImplementsReplicaSafely == Spec => Abstract!Spec
  <1> DEFINE seen == [e \in End |-> ack(rx[e])]
             shown == [e \in End |-> Last(rx[e].ring).val]
  <1>1. Init => Abstract!Init
    <2> SUFFICES ASSUME Init PROVE Abstract!Init
      OBVIOUS
    <2>1. \A e \in End : First[e] \in Content /\ Invented[e] \in Content
      BY CellAssumption DEF Content
    <2>2. authored \in [End -> {<<c>> : c \in Content}]
      BY ZenonT(30), <2>1 DEF Init
    <2>3. seen = [e \in End |-> 0]
      BY ZenonT(30) DEF Init, ack
    <2>4. \A e \in End : Last(rx[e].ring).val = Invented[e]
      BY Zenon DEF Init, Last
    <2>5. shown \in [End -> Content]
      BY ZenonT(30), <2>1, <2>4
    <2> QED BY <2>2, <2>3, <2>5 DEF Abstract!Init
  <1>2. IInv /\ [Next]_vars => [Abstract!Next]_(Abstract!vars)
    <2> SUFFICES ASSUME IInv, [Next]_vars
                 PROVE  \/ Abstract!Next
                        \/ authored' = authored /\ seen' = seen /\ shown' = shown
      BY ZenonT(30) DEF Abstract!vars
    <2>0. rx' = rx => seen' = seen /\ shown' = shown
      BY DEF ack, Last
    <2>1. CASE UNCHANGED vars
      BY <2>0, <2>1 DEF vars
    <2>2. ASSUME NEW x \in End, Update(x)
          PROVE  Abstract!Next
      <3>1. PICK val \in Content : authored' = [authored EXCEPT ![x] = Append(@, val)]
        BY Zenon, <2>2 DEF Update
      <3>2. rx' = rx
        BY <2>2 DEF Update
      <3>3. Abstract!Publish(x)
        BY Zenon, <2>0, <3>1, <3>2 DEF Abstract!Publish
      <3> QED BY <3>3 DEF Abstract!Next
    <2>3. ASSUME NEW x \in End, OfferFrame(x) \/ LoseFrame(x)
          PROVE  authored' = authored /\ seen' = seen /\ shown' = shown
      BY <2>0, <2>3 DEF OfferFrame, LoseFrame
    <2>4. ASSUME NEW x \in End, ReceiveFrame(x)
          PROVE  Abstract!Next \/ (authored' = authored /\ seen' = seen /\ shown' = shown)
      <3>1. authored' = authored
        BY <2>4 DEF ReceiveFrame
      <3>2. /\ \A e \in End : e # x => rx'[e] = rx[e]
            /\ \/ /\ ack(rx'[x]) = ack(rx[x])
                  /\ Last(rx'[x].ring) = Last(rx[x].ring)
               \/ /\ ack(rx'[x]) \in (ack(rx[x]) + 1)..Len(authored[Peer[x]])
                  /\ Last(rx'[x].ring).val = authored[Peer[x]][ack(rx'[x])]
        BY ZenonT(30), <2>4, ReceiveMovesOn
      <3>3. /\ seen' = [e \in End |-> ack(rx'[e])]
            /\ shown' = [e \in End |-> Last(rx'[e].ring).val]
        BY DEF ack, Last
      <3>4. CASE ack(rx'[x]) = ack(rx[x]) /\ Last(rx'[x].ring) = Last(rx[x].ring)
        <4>1. \A e \in End : ack(rx'[e]) = ack(rx[e]) /\ Last(rx'[e].ring).val = Last(rx[e].ring).val
          BY SMTT(30), Z3T(30), <3>2, <3>4
        <4> QED BY ZenonT(30), <3>1, <3>3, <4>1
      <3>5. CASE /\ ack(rx'[x]) \in (ack(rx[x]) + 1)..Len(authored[Peer[x]])
                 /\ Last(rx'[x].ring).val = authored[Peer[x]][ack(rx'[x])]
        <4> DEFINE n == ack(rx'[x])
        <4>1. seen' = [seen EXCEPT ![x] = n]
          BY Zenon, <3>2, <3>3
        <4>2. shown' = [shown EXCEPT ![x] = authored[Peer[x]][n]]
          BY Zenon, <3>2, <3>3, <3>5
        <4>3. n \in (seen[x] + 1)..Len(authored[Peer[x]])
          BY <3>5
        <4>4. Abstract!Observe(x)
          BY Zenon, <3>1, <4>1, <4>2, <4>3 DEF Abstract!Observe
        <4> QED BY <4>4 DEF Abstract!Next
      <3> QED BY ZenonT(30), <3>2, <3>4, <3>5
    <2> QED BY Zenon, <2>1, <2>2, <2>3, <2>4 DEF Next
  <1> QED BY <1>1, <1>2, Invariance, PTL DEF Spec, Abstract!Spec

=============================================================================
