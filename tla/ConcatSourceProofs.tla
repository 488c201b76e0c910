------------------------- MODULE ConcatSourceProofs -------------------------
(***************************************************************************)
(* Proofs about ConcatSource: its types, that the table of starts and the  *)
(* search through it send every offset to the part that holds it, that a   *)
(* read serves bytes of that part only, from the right place, and that it  *)
(* implements SeekableStream: however many parts there are and however     *)
(* long, the composite is the plain stream of their bytes one after the    *)
(* other.                                                                  *)
(***************************************************************************)
EXTENDS ConcatSource, WellFoundedInduction, TLAPS

LEMMA Numbers ==
    /\ MaxOff \in Nat
    /\ Offset \subseteq Nat /\ \A x \in Offset : x <= MaxOff
    /\ \A x \in Nat : x <= MaxOff => x \in Offset
    /\ UsizeSpan \in Nat \ {0}
BY MaxOffAssumption, PartAssumption DEF Offset

(* Resolving a seek yields an offset or None.                              *)
LEMMA ResolveType ==
    ASSUME NEW from \in SeekFrom, NEW cur \in Offset, NEW end \in Offset
    PROVE  Resolve(from, cur, end) \in Offset \union {None}
<1>1. CASE from.whence = "Start"
  BY <1>1 DEF Resolve, SeekFrom
<1>2. CASE from.whence = "Current"
  BY <1>2 DEF Resolve, add_signed
<1>3. CASE from.whence = "End"
  BY <1>3 DEF Resolve, add_signed
<1>4. QED
  BY <1>1, <1>2, <1>3 DEF SeekFrom

(* Moving a part's cursor or changing its length yields parts again.       *)
Placed(ps, i, n)  == [ps EXCEPT ![i].pos = n]
Resized(ps, i, n) == [ps EXCEPT ![i].end = n]

LEMMA SetPart ==
    ASSUME NEW ps \in Seq(Part), NEW i \in 1 .. Len(ps), NEW n \in Offset
    PROVE  /\ Placed(ps, i, n) \in Seq(Part)
           /\ Len(Placed(ps, i, n)) = Len(ps)
           /\ Placed(ps, i, n)[i].pos = n
           /\ Resized(ps, i, n) \in Seq(Part)
           /\ Len(Resized(ps, i, n)) = Len(ps)
           /\ \A k \in 1 .. Len(ps) : Resized(ps, i, n)[k].pos = ps[k].pos
<1> DEFINE moved == [ps[i] EXCEPT !.pos = n]
           cut   == [ps[i] EXCEPT !.end = n]
<1>1. ps[i] \in Part
  OBVIOUS
<1>2. moved \in Part /\ cut \in Part /\ moved.pos = n /\ cut.pos = ps[i].pos
  BY <1>1 DEF Part
<1>3. /\ Placed(ps, i, n) = [ps EXCEPT ![i] = moved]
      /\ Resized(ps, i, n) = [ps EXCEPT ![i] = cut]
  BY DEF Placed, Resized
<1> HIDE DEF moved, cut
<1>4. /\ [ps EXCEPT ![i] = moved] \in Seq(Part)
      /\ Len([ps EXCEPT ![i] = moved]) = Len(ps)
      /\ [ps EXCEPT ![i] = moved][i] = moved
  BY <1>2
<1>5. /\ [ps EXCEPT ![i] = cut] \in Seq(Part)
      /\ Len([ps EXCEPT ![i] = cut]) = Len(ps)
      /\ \A k \in 1 .. Len(ps) :
            [ps EXCEPT ![i] = cut][k] = IF k = i THEN cut ELSE ps[k]
  BY <1>2
<1>6. QED
  BY <1>2, <1>3, <1>4, <1>5

-----------------------------------------------------------------------------
(* The table once it is built.                                             *)

LEMMA BuiltFacts ==
    ASSUME IInv, Built
    PROVE  /\ Len(parts) \in Nat /\ Len(starts) = Len(parts) + 1
           /\ \A i \in 1 .. Len(parts) + 1 : starts[i] \in Offset
           /\ \A i \in 1 .. Len(parts) + 1 : starts[i] \in Nat
           /\ \A i, j \in 1 .. Len(parts) + 1 : i <= j => starts[i] <= starts[j]
           /\ total_len \in Offset /\ total_len = starts[Len(parts) + 1]
           /\ total_len \in Nat
<1>1. /\ parts \in Seq(Part) /\ starts \in Seq(Offset)
      /\ Len(starts) = Len(parts) + 1 /\ Sorted
  BY DEF IInv, TypeOK, Table
<1>2. Len(parts) \in Nat
  BY <1>1
<1>3. \A i \in 1 .. Len(parts) + 1 : starts[i] \in Offset
  BY <1>1, <1>2
<1>4. total_len = starts[Len(parts) + 1] /\ total_len \in Offset
  BY <1>1, <1>2, <1>3 DEF total_len
<1>5. \A x \in Offset : x \in Nat
  BY Numbers
<1>6. QED
  BY <1>1, <1>2, <1>3, <1>4, <1>5 DEF Sorted

(* At most one part holds an offset, so that the search has no choice.     *)
LEMMA HoldersUnique ==
    ASSUME IInv, Built, NEW p \in Nat,
           NEW i \in 1 .. Len(parts), NEW j \in 1 .. Len(parts),
           Holds(i, p), Holds(j, p)
    PROVE  i = j
<1>1. ASSUME NEW a \in 1 .. Len(parts), NEW b \in 1 .. Len(parts), a < b,
             Holds(a, p), Holds(b, p)
      PROVE  FALSE
  <2>1. starts[a + 1] <= starts[b] /\ starts[a + 1] \in Nat /\ starts[b] \in Nat
    BY <1>1, BuiltFacts
  <2>2. p < starts[a + 1] /\ starts[b] <= p
    BY <1>1 DEF Holds
  <2>3. QED
    BY <2>1, <2>2
<1>2. i \in Nat /\ j \in Nat
  BY BuiltFacts
<1>3. QED
  BY <1>1, <1>2

(* What the search returns.                                                *)
LEMMA SegmentFor ==
    ASSUME IInv, Built, NEW p \in Nat
    PROVE  /\ p >= total_len => segment_for(p) = None
           /\ p < total_len => /\ segment_for(p) \in 1 .. Len(parts)
                               /\ Holds(segment_for(p), p)
<1>1. CASE p >= total_len
  BY <1>1, BuiltFacts DEF segment_for
<1>2. CASE p < total_len
  <2>1. p \in 0 .. total_len - 1 /\ ~(p >= total_len)
    BY <1>2, BuiltFacts
  <2>2. PICK i \in 1 .. Len(parts) : Holds(i, p)
    BY <2>1 DEF IInv, Table
  <2> DEFINE holding == {k \in 1 .. Len(parts) : Holds(k, p)}
  <2>3. holding = {i}
    BY <2>2, HoldersUnique
  <2>4. segment_for(p) = CHOOSE k \in holding : \A j \in holding : k <= j
    BY <2>1, <2>3 DEF segment_for
  <2>5. i <= i
    BY <2>2, BuiltFacts
  <2>6. segment_for(p) = i
    BY <2>3, <2>4, <2>5
  <2>7. QED
    BY <1>2, <2>1, <2>2, <2>6
<1>3. QED
  BY <1>1, <1>2, BuiltFacts

LEMMA RightPartHolds == IInv => RightPart
<1> SUFFICES ASSUME IInv, Built, NEW p \in 0 .. total_len - 1
             PROVE  LET i == segment_for(p) IN
                    i # None /\ starts[i] <= p /\ p < starts[i + 1]
  BY DEF RightPart
<1>1. total_len \in Nat
  BY BuiltFacts
<1>2. p \in Nat /\ p < total_len
  BY <1>1
<1>3. segment_for(p) \in 1 .. Len(parts) /\ Holds(segment_for(p), p)
  BY <1>2, SegmentFor
<1>4. QED
  BY <1>3 DEF Holds, None

-----------------------------------------------------------------------------
LEMMA InitInv == Init => IInv
<1> SUFFICES ASSUME Init PROVE IInv
  OBVIOUS
<1>1. PICK n \in PartCounts :
         \E lens \in [1 .. n -> PartLens] :
            parts = [i \in 1 .. n |-> [end |-> lens[i], pos |-> 0]]
  BY DEF Init
<1>2. PICK lens \in [1 .. n -> PartLens] :
         parts = [i \in 1 .. n |-> [end |-> lens[i], pos |-> 0]]
  BY <1>1
<1>3. n \in Nat
  BY PartAssumption
<1>4. 0 \in Offset /\ PartLens \subseteq Offset
  BY Numbers, PartAssumption
<1>5. \A i \in 1 .. n : parts[i] \in Part
  BY <1>2, <1>4 DEF Part
<1>6. parts \in Seq(Part) /\ Len(parts) = n
  BY <1>2, <1>3, <1>5
<1>7. /\ starts = <<>> /\ Len(starts) = 0 /\ starts \in Seq(Offset)
      /\ pos = 0 /\ acc = 0 /\ pc = "measuring" /\ want = 0
  BY DEF Init
<1>8. TypeOK
  BY <1>3, <1>4, <1>6, <1>7 DEF TypeOK, PC
<1>9. Sorted /\ Covered
  BY <1>7 DEF Sorted, Covered
<1>10. Table
  BY <1>3, <1>6, <1>7, <1>9 DEF Table, Built
<1>11. QED
  BY <1>8, <1>10 DEF IInv

(* Entering one more part: the table grows by the total so far.            *)
LEMMA MeasureInv == IInv /\ MeasurePart => IInv'
<1> SUFFICES ASSUME IInv, MeasurePart PROVE IInv'
  OBVIOUS
<1> DEFINE m   == Len(starts)
           new == parts[m + 1].end
<1>1. /\ starts \in Seq(Offset) /\ m \in Nat /\ m + 1 \in 1 .. Len(parts)
      /\ parts \in Seq(Part) /\ Len(parts) \in Nat
      /\ acc \in Nat /\ acc \in Offset /\ new \in Offset /\ new \in Nat
      /\ acc + new \in Offset
  <2>1. /\ starts \in Seq(Offset) /\ parts \in Seq(Part) /\ acc \in Offset
        /\ m + 1 <= Len(parts) /\ ~(acc + new > MaxOff)
    BY DEF IInv, TypeOK, MeasurePart, next_part, Overflows
  <2>2. m \in Nat /\ Len(parts) \in Nat /\ m + 1 \in 1 .. Len(parts)
    BY <2>1
  <2>3. parts[m + 1] \in Part
    BY <2>1, <2>2
  <2>4. new \in Offset
    BY <2>3 DEF Part
  <2>5. acc \in Nat /\ new \in Nat
    BY <2>1, <2>4, Numbers
  <2>6. acc + new \in Nat /\ acc + new <= MaxOff
    BY <2>1, <2>5, Numbers
  <2>7. acc + new \in Offset
    BY <2>6, Numbers
  <2>8. QED
    BY <2>1, <2>2, <2>4, <2>5, <2>7
<1>2. /\ starts' = Append(starts, acc) /\ acc' = acc + new
      /\ parts' = [parts EXCEPT ![m + 1].pos = parts[m + 1].end]
      /\ pc = "measuring" /\ pc' = "measuring" /\ UNCHANGED <<pos, want>>
  BY DEF MeasurePart, next_part
<1>3. /\ starts' \in Seq(Offset) /\ Len(starts') = m + 1
      /\ \A i \in 1 .. m : starts'[i] = starts[i]
      /\ starts'[m + 1] = acc
  BY <1>1, <1>2
<1>4. parts' \in Seq(Part) /\ Len(parts') = Len(parts)
  <2>1. parts' = Placed(parts, m + 1, new)
    BY <1>2 DEF Placed
  <2> HIDE DEF m, new
  <2>2. QED
    BY <1>1, <2>1, SetPart
<1> HIDE DEF m, new
<1>5. TypeOK'
  BY <1>1, <1>2, <1>3, <1>4 DEF IInv, TypeOK
<1>6. \A i \in 1 .. m : starts[i] \in Nat /\ starts[i] <= acc
  <2>1. \A i \in 1 .. m : starts[i] \in Offset /\ starts[i] <= acc
    BY <1>1, <1>2 DEF IInv, Table, m
  <2>2. QED
    BY <2>1, Numbers
<1>7. Sorted'
  <2>1. \A i, j \in 1 .. m : i <= j => starts[i] <= starts[j]
    BY DEF IInv, Table, Sorted, m
  <2>2. ASSUME NEW i \in 1 .. m + 1, NEW j \in 1 .. m + 1, i <= j
        PROVE  starts'[i] <= starts'[j]
    <3>1. CASE j \in 1 .. m
      BY <1>1, <1>3, <2>1, <2>2, <3>1
    <3>2. CASE j = m + 1 /\ i \in 1 .. m
      BY <1>1, <1>3, <1>6, <3>2
    <3>3. CASE j = m + 1 /\ i = m + 1
      BY <1>1, <1>3, <3>3
    <3>4. QED
      BY <1>1, <2>2, <3>1, <3>2, <3>3
  <2>3. QED
    BY <1>3, <2>2 DEF Sorted
<1>8. \A i \in 1 .. m + 1 : starts'[i] <= acc'
  <2> SUFFICES ASSUME NEW i \in 1 .. m + 1 PROVE starts'[i] <= acc'
    OBVIOUS
  <2>1. CASE i = m + 1
    BY <1>1, <1>2, <1>3, <2>1
  <2>2. CASE i \in 1 .. m
    BY <1>1, <1>2, <1>3, <1>6, <2>2
  <2>3. QED
    BY <1>1, <2>1, <2>2
<1>9. Covered'
  <2> SUFFICES ASSUME NEW p \in 0 .. acc' - 1
               PROVE  \E i \in 1 .. m + 1 :
                         starts'[i] <= p /\ p < StartAfter(i)'
    BY <1>3 DEF Covered
  <2>1. CASE p < acc
    <3>1. PICK i \in 1 .. m : starts[i] <= p /\ p < StartAfter(i)
      BY <1>1, <1>2, <2>1 DEF IInv, Table, Covered, m
    <3>2. p < StartAfter(i)'
      BY <1>1, <1>3, <3>1 DEF StartAfter, m
    <3>3. QED
      BY <1>1, <1>3, <3>1, <3>2
  <2>2. CASE p >= acc
    <3>1. PICK k \in 1 .. m + 1 : k = m + 1
      BY <1>1
    <3>2. starts'[k] <= p
      BY <1>3, <2>2, <3>1
    <3>3. p < acc' /\ ~(k < Len(starts'))
      BY <1>1, <1>2, <1>3, <3>1
    <3>4. p < StartAfter(k)'
      BY <3>3 DEF StartAfter
    <3>5. QED
      BY <3>2, <3>4
  <2>3. p \in Nat
    BY <1>1, <1>2
  <2>4. QED
    BY <1>1, <2>1, <2>2, <2>3
<1>10. Table'
  BY <1>1, <1>2, <1>3, <1>4, <1>7, <1>8, <1>9 DEF Table, Built
<1>11. QED
  BY <1>5, <1>10 DEF IInv

(* The trailing total closes the table.                                    *)
LEMMA FinishInv == IInv /\ FinishTable => IInv'
<1> SUFFICES ASSUME IInv, FinishTable PROVE IInv'
  OBVIOUS
<1> DEFINE m == Len(parts)
<1>1. /\ starts \in Seq(Offset) /\ Len(starts) = m /\ m \in Nat
      /\ parts \in Seq(Part)
      /\ acc \in Nat /\ acc \in Offset /\ pc = "measuring"
  BY Numbers DEF IInv, TypeOK, Table, FinishTable, next_part
<1>2. /\ starts' = Append(starts, acc) /\ acc' = 0
      /\ pc' = "idle" /\ UNCHANGED <<pos, want>>
  BY DEF FinishTable
<1>3. /\ starts' \in Seq(Offset) /\ Len(starts') = m + 1
      /\ \A i \in 1 .. m : starts'[i] = starts[i]
      /\ starts'[m + 1] = acc
  BY <1>1, <1>2
<1>4. parts' \in Seq(Part) /\ Len(parts') = m
  <2>1. DOMAIN parts = 1 .. m
    BY <1>1
  <2>2. \A i \in 1 .. m : [parts[i] EXCEPT !.pos = 0] \in Part
    <3>1. 0 \in Offset
      BY Numbers
    <3>2. \A i \in 1 .. m : parts[i] \in Part
      BY <1>1
    <3>3. QED
      BY <3>1, <3>2 DEF Part
  <2>3. parts' = [i \in 1 .. m |-> IF i = 1 THEN [parts[i] EXCEPT !.pos = 0]
                                            ELSE parts[i]]
    BY <2>1 DEF FinishTable
  <2>4. \A i \in 1 .. m : parts'[i] \in Part
    BY <1>1, <2>2, <2>3
  <2>5. QED
    BY <1>1, <2>3, <2>4
<1>5. TypeOK'
  BY <1>2, <1>3, <1>4, Numbers DEF IInv, TypeOK, PC
<1>6. \A i \in 1 .. m : starts[i] \in Nat /\ starts[i] <= acc
  <2>1. \A i \in 1 .. m : starts[i] \in Offset /\ starts[i] <= acc
    BY <1>1 DEF IInv, Table
  <2>2. QED
    BY <2>1, Numbers
<1>7. Sorted'
  BY <1>1, <1>3, <1>6 DEF Sorted, IInv, Table
<1>8. total_len' = acc
  BY <1>3 DEF total_len
<1>9. \A p \in 0 .. acc - 1 : \E i \in 1 .. m : Holds(i, p)'
  <2> SUFFICES ASSUME NEW p \in 0 .. acc - 1
               PROVE  \E i \in 1 .. m : Holds(i, p)'
    OBVIOUS
  <2>1. PICK i \in 1 .. m : starts[i] <= p /\ p < StartAfter(i)
    BY <1>1 DEF IInv, Table, Covered
  <2>2. starts'[i + 1] = StartAfter(i)
    BY <1>1, <1>3, <2>1 DEF StartAfter
  <2>3. QED
    BY <1>3, <2>1, <2>2 DEF Holds
<1>10. Table'
  BY <1>2, <1>3, <1>4, <1>7, <1>8, <1>9 DEF Table, Built
<1>11. QED
  BY <1>5, <1>10 DEF IInv

LEMMA RefuseInv == IInv /\ Refuse => IInv'
BY Numbers DEF Refuse, IInv, TypeOK, Table, Built, Sorted, Covered, PC

-----------------------------------------------------------------------------
(* Steps that leave the table alone.                                       *)

LEMMA TableKept ==
    ASSUME IInv, Built, UNCHANGED <<starts, acc>>, Len(parts') = Len(parts),
           pc' \in {"idle", "called", "closed"}
    PROVE  Table'
BY DEF IInv, Table, Built, Sorted, Covered, StartAfter, total_len, Holds

(* The part in position is the one the search finds, and what it is asked  *)
(* for fits what is left of it.                                            *)
LEMMA ReadPartFacts ==
    ASSUME IInv, ReadPart
    PROVE  /\ idx \in 1 .. Len(parts)
           /\ \E n \in Nat \ {0} :
                /\ starts[idx] <= pos /\ pos + n <= starts[idx + 1]
                /\ parts[idx].pos + n \in Offset
                /\ pos' = pos + n /\ pos + n \in Offset
                /\ ret' = Outcome("bytes", PartBytes(idx, pos - starts[idx], n))
                /\ parts' = [parts EXCEPT ![idx].pos = parts[idx].pos + n]
<1>1. pos \in Nat /\ want \in Nat /\ pc = "reading" /\ Built
      /\ idx # None /\ parts[idx].pos = intra
  BY Numbers DEF IInv, TypeOK, Table, ReadPart, Built
<1>2. pos < total_len
  BY <1>1, SegmentFor, BuiltFacts, Numbers DEF idx
<1>3. idx \in 1 .. Len(parts) /\ Holds(idx, pos)
  BY <1>1, <1>2, SegmentFor DEF idx
<1> DEFINE i == idx
<1> HIDE DEF i
<1>4. /\ starts[i] \in Nat /\ starts[i + 1] \in Offset /\ starts[i + 1] \in Nat
      /\ starts[i] <= pos /\ pos < starts[i + 1]
  BY <1>1, <1>3, BuiltFacts, Numbers DEF Holds, i
<1>5. parts[i] \in Part /\ parts[i].pos = pos - starts[i]
      /\ parts[i].pos \in Nat /\ parts[i].end \in Nat /\ parts[i].end \in Offset
  <2>1. parts \in Seq(Part)
    BY DEF IInv, TypeOK
  <2>2. parts[i] \in Part
    BY <1>3, <2>1 DEF i
  <2>3. QED
    BY <1>1, <2>2, Numbers DEF Part, intra, i
<1>6. PICK n \in 1 .. Smaller(Asked, parts[i].end - parts[i].pos) :
          /\ Return(Outcome("bytes", PartBytes(i, parts[i].pos, n)))
          /\ pos' = pos + n
          /\ parts' = [parts EXCEPT ![i].pos = @ + n]
  BY DEF ReadPart, i
<1> DEFINE left == starts[i + 1] - pos
<1>7. left \in Nat /\ left % UsizeSpan \in Nat /\ left % UsizeSpan <= left
  <2>1. left \in Nat
    BY <1>1, <1>4
  <2>2. \A a \in Nat, b \in Nat \ {0} : a % b \in Nat /\ a % b <= a
    OBVIOUS
  <2>3. QED
    BY <2>1, <2>2, Numbers
<1>8. Asked \in Nat /\ Asked <= left
  BY <1>1, <1>7 DEF Asked, Smaller, remaining_in_seg, i
<1>9. n \in Nat \ {0} /\ n <= left /\ parts[i].pos + n <= parts[i].end
  <2> HIDE DEF left
  <2>1. \A a, b \in Int : \A k \in 1 .. Smaller(a, b) :
           k \in Nat \ {0} /\ k <= a /\ k <= b
    BY DEF Smaller
  <2>2. parts[i].end - parts[i].pos \in Int /\ left \in Int
    BY <1>5, <1>7
  <2>3. n \in Nat \ {0} /\ n <= Asked /\ n <= parts[i].end - parts[i].pos
    BY <1>6, <1>8, <2>1, <2>2
  <2>4. QED
    BY <1>5, <1>8, <2>2, <2>3
<1>10. pos + n <= starts[i + 1] /\ pos + n \in Offset
       /\ parts[i].pos + n \in Offset
  BY <1>1, <1>4, <1>5, <1>9, Numbers
<1>11. /\ starts[i] <= pos
       /\ ret' = Outcome("bytes", PartBytes(i, pos - starts[i], n))
       /\ parts' = [parts EXCEPT ![i].pos = parts[i].pos + n]
  BY <1>4, <1>5, <1>6 DEF Return
<1>12. i \in 1 .. Len(parts)
  BY <1>3 DEF i
<1>13. QED
  BY <1>6, <1>9, <1>10, <1>11, <1>12 DEF i

LEMMA ReadInv == IInv /\ Read => IInv'
<1> SUFFICES ASSUME IInv, Read PROVE IInv'
  OBVIOUS
<1>0. /\ parts \in Seq(Part) /\ starts \in Seq(Offset) /\ pos \in Offset
      /\ acc \in Offset /\ want \in Nat /\ pos \in Nat
      /\ Len(starts) <= Len(parts) + 1
  BY Numbers DEF IInv, TypeOK
<1>1. ASSUME NEW k \in ReadSizes, ReadCall(k)
      PROVE  IInv'
  <2>1. Table'
    BY <1>1, TableKept DEF ReadCall, Built
  <2>2. k \in Nat
    BY CallerAssumption, Numbers
  <2>3. QED
    BY <1>0, <1>1, <2>1, <2>2 DEF ReadCall, IInv, TypeOK, PC
<1>2. CASE ReadEmpty \/ ReadPastEnd \/ ReadNothing
  <2>1. Built /\ pc' = "idle" /\ want' = 0 /\ UNCHANGED <<parts, starts, pos, acc>>
    BY <1>2 DEF ReadEmpty, ReadPastEnd, ReadNothing, Return, Built
  <2>2. Table'
    BY <2>1, TableKept
  <2>3. QED
    BY <1>0, <2>1, <2>2 DEF IInv, TypeOK, PC
<1>3. CASE SeekPart
  <2>1. Built /\ pc' = "reading" /\ idx # None /\ UNCHANGED <<starts, pos, acc, want>>
        /\ parts' = [parts EXCEPT ![idx].pos = intra]
    BY <1>3 DEF SeekPart, Built
  <2>2. idx \in 1 .. Len(parts) /\ Holds(idx, pos)
    BY <1>0, <2>1, SegmentFor, BuiltFacts, Numbers DEF idx
  <2>3. intra \in Offset
    <3>1. starts[idx] \in Nat /\ starts[idx] <= pos
      BY <2>1, <2>2, BuiltFacts DEF Holds
    <3>2. intra \in Nat /\ intra <= pos
      BY <1>0, <3>1 DEF intra
    <3>3. QED
      BY <1>0, <3>2, Numbers
  <2>4. /\ parts' \in Seq(Part) /\ Len(parts') = Len(parts)
        /\ parts'[idx].pos = intra
    <3>1. parts' = Placed(parts, idx, intra)
      BY <2>1 DEF Placed
    <3>2. QED
      BY <1>0, <2>2, <2>3, <3>1, SetPart
  <2>5. idx' = idx /\ intra' = intra
    BY <2>1, <2>4 DEF idx, intra, segment_for, Holds, total_len
  <2>6. TypeOK'
    BY <1>0, <2>1, <2>4 DEF TypeOK, PC
  <2>7. parts'[idx'].pos = intra' /\ idx' # None
    BY <2>1, <2>4, <2>5
  <2>8. Sorted' /\ Len(starts') = Len(parts') + 1
        /\ \A p \in 0 .. total_len' - 1 :
              \E i \in 1 .. Len(parts') : Holds(i, p)'
    BY <2>1, <2>4 DEF IInv, Table, Built, Sorted, total_len, Holds
  <2>9. Table'
    BY <2>1, <2>7, <2>8 DEF Table
  <2>10. QED
    BY <2>6, <2>9 DEF IInv
<1>4. CASE ReadPart
  <2>1. idx \in 1 .. Len(parts)
    BY <1>4, ReadPartFacts
  <2>2. PICK n \in Nat \ {0} :
           /\ parts[idx].pos + n \in Offset
           /\ pos' \in Offset
           /\ parts' = [parts EXCEPT ![idx].pos = parts[idx].pos + n]
    BY <1>4, ReadPartFacts
  <2>3. parts' \in Seq(Part) /\ Len(parts') = Len(parts)
    <3> DEFINE q == parts[idx].pos + n
    <3>1. q \in Offset
      BY <2>2
    <3>2. parts' = Placed(parts, idx, q)
      BY <2>2 DEF Placed
    <3> HIDE DEF q
    <3>3. QED
      BY <1>0, <2>1, <3>1, <3>2, SetPart
  <2>4. Built /\ pc' = "idle" /\ want' = 0 /\ UNCHANGED <<starts, acc>>
    BY <1>4 DEF ReadPart, Return, Built
  <2>5. Table'
    BY <2>3, <2>4, TableKept
  <2>6. QED
    BY <1>0, <2>2, <2>3, <2>4, <2>5 DEF IInv, TypeOK, PC
<1>5. CASE ReadFails
  <2>1. Built /\ pc' = "idle" /\ want' = 0 /\ UNCHANGED <<starts, pos, acc>>
        /\ idx # None
    BY <1>5 DEF ReadFails, Return, Built, IInv, Table
  <2>2. idx \in 1 .. Len(parts)
    BY <1>0, <2>1, SegmentFor, BuiltFacts, Numbers DEF idx
  <2>3. PICK p \in StrayPositions \union {parts[idx].pos} :
           parts' = [parts EXCEPT ![idx].pos = p]
    BY <1>5 DEF ReadFails
  <2>4. p \in Offset
    <3>1. parts[idx] \in Part
      BY <1>0, <2>2
    <3>2. QED
      BY <2>3, <3>1, PartAssumption DEF Part
  <2>5. parts' \in Seq(Part) /\ Len(parts') = Len(parts)
    <3>1. parts' = Placed(parts, idx, p)
      BY <2>3 DEF Placed
    <3>2. QED
      BY <1>0, <2>2, <2>4, <3>1, SetPart
  <2>6. Table'
    BY <2>1, <2>5, TableKept
  <2>7. QED
    BY <1>0, <2>1, <2>5, <2>6 DEF IInv, TypeOK, PC
<1>6. QED
  BY <1>1, <1>2, <1>3, <1>4, <1>5 DEF Read

(* A resized part changes no entry of the table and no cursor.             *)
LEMMA ResizeInv == IInv /\ PartResized => IInv'
<1> SUFFICES ASSUME IInv, PartResized PROVE IInv'
  OBVIOUS
<1>1. /\ parts \in Seq(Part) /\ Built
      /\ UNCHANGED <<starts, pos, acc, pc, want>>
  BY DEF IInv, TypeOK, PartResized
<1>2. PICK i \in DOMAIN parts, n \in ResizedLens :
         parts' = [parts EXCEPT ![i].end = n]
  BY DEF PartResized
<1>3. n \in Offset /\ i \in 1 .. Len(parts)
  BY <1>1, <1>2, PartAssumption
<1>4. /\ parts' \in Seq(Part) /\ Len(parts') = Len(parts)
      /\ \A k \in 1 .. Len(parts) : parts'[k].pos = parts[k].pos
  <2>1. parts' = Resized(parts, i, n)
    BY <1>2 DEF Resized
  <2>2. QED
    BY <1>1, <1>3, <2>1, SetPart
<1>5. idx' = idx /\ intra' = intra
  BY <1>1, <1>4 DEF idx, intra, segment_for, Holds, total_len
<1>6. pc = "reading" => idx \in 1 .. Len(parts)
  BY <1>1, SegmentFor, BuiltFacts, Numbers DEF IInv, TypeOK, Table, idx
<1>7. pc' = "reading" => idx' # None /\ parts'[idx'].pos = intra'
  BY <1>1, <1>4, <1>5, <1>6 DEF IInv, Table
<1>8. Sorted' /\ Len(starts') = Len(parts') + 1
      /\ \A p \in 0 .. total_len' - 1 :
            \E k \in 1 .. Len(parts') : Holds(k, p)'
  BY <1>1, <1>4 DEF IInv, Table, Sorted, total_len, Holds
<1>9. Table'
  BY <1>1, <1>7, <1>8 DEF Table, Built
<1>10. QED
  BY <1>1, <1>4, <1>9 DEF IInv, TypeOK

LEMMA StepInv == IInv /\ [Next]_vars => IInv'
<1> SUFFICES ASSUME IInv, [Next]_vars PROVE IInv'
  OBVIOUS
<1>1. CASE New
  BY <1>1, MeasureInv, FinishInv, RefuseInv DEF New, TotalOverflows, NewFails
<1>2. CASE Read
  BY <1>2, ReadInv
<1>3. ASSUME NEW from \in SeekFroms, SeekRefused(from) \/ Seek(from)
      PROVE  IInv'
  <2>1. /\ Built /\ pc' = "idle" /\ want' = 0 /\ UNCHANGED <<parts, starts, acc>>
    BY <1>3 DEF SeekRefused, Seek, Return, Built
  <2>2. pos' \in Offset
    <3>1. SeekTo(from) \in Offset \union {None}
      BY <2>1, ResolveType, BuiltFacts, CallerAssumption
      DEF SeekTo, IInv, TypeOK
    <3>2. QED
      BY <1>3, <3>1 DEF SeekRefused, Seek, IInv, TypeOK
  <2>3. Table'
    BY <2>1, TableKept
  <2>4. QED
    BY <2>1, <2>2, <2>3 DEF IInv, TypeOK, PC
<1>4. CASE Close
  <2>1. Table'
    BY <1>4, TableKept DEF Close, Built
  <2>2. QED
    BY <1>4, <2>1 DEF Close, IInv, TypeOK, PC
<1>5. CASE PartResized
  BY <1>5, ResizeInv
<1>6. CASE Over \/ UNCHANGED vars
  BY <1>6 DEF Over, vars, IInv, TypeOK, Table, Built, Sorted, Covered,
     StartAfter, total_len, Holds, idx, intra, segment_for
<1>7. QED
  BY <1>1, <1>2, <1>3, <1>4, <1>5, <1>6 DEF Next

(* Types and table, for any number of parts of any length.                 *)
THEOREM Invariance == Spec => []IInv
BY InitInv, StepInv, PTL DEF Spec

(* No start, total or cursor leaves u64.                                   *)
THEOREM TypeCorrect == Spec => []TypeOK
<1>1. IInv => TypeOK
  BY DEF IInv
<1>2. QED
  BY <1>1, Invariance, PTL

(* Every offset of the stream is looked up in a part that holds it.        *)
THEOREM LookupFindsThePart == Spec => []RightPart
BY RightPartHolds, Invariance, PTL

(* A read serves its bytes from one part, in place, and never reads past   *)
(* that part's share of the stream, even when the part has grown.          *)
THEOREM ReadsStayInPlace == Spec => BytesInPlace
<1> DEFINE Served ==
      pc = "reading" /\ pc' = "idle" /\ ret'.kind = "bytes" =>
          \E i \in 1 .. Len(parts) :
             /\ starts[i] <= pos /\ pos < pos' /\ pos' <= starts[i + 1]
             /\ ret'.data = PartBytes(i, pos - starts[i], pos' - pos)
<1>1. IInv /\ [Next]_vars => [Served]_vars
  <2> SUFFICES ASSUME IInv, Next, pc = "reading", pc' = "idle",
                      ret'.kind = "bytes"
               PROVE  \E i \in 1 .. Len(parts) :
                /\ starts[i] <= pos /\ pos < pos' /\ pos' <= starts[i + 1]
                /\ ret'.data = PartBytes(i, pos - starts[i], pos' - pos)
    OBVIOUS
  <2>1. ReadPart \/ ReadNothing \/ ReadFails
    BY DEF Next, New, Read, MeasurePart, TotalOverflows, FinishTable, NewFails,
       Refuse, ReadCall, ReadEmpty, ReadPastEnd, SeekPart, SeekRefused, Seek,
       Close, PartResized, Over, vars
  <2>2. ReadPart
    BY <2>1, CallerAssumption DEF ReadNothing, ReadFails, Return, Outcome
  <2>3. idx \in 1 .. Len(parts)
    BY <2>2, ReadPartFacts
  <2>4. PICK n \in Nat \ {0} :
           /\ starts[idx] <= pos /\ pos + n <= starts[idx + 1]
           /\ pos' = pos + n
           /\ ret' = Outcome("bytes", PartBytes(idx, pos - starts[idx], n))
    BY <2>2, ReadPartFacts
  <2>5. pos \in Nat /\ pos' - pos = n /\ pos < pos'
    BY <2>4, Numbers DEF IInv, TypeOK
  <2>6. ret'.data = PartBytes(idx, pos - starts[idx], n)
    BY <2>4 DEF Outcome
  <2>7. QED
    BY <2>3, <2>4, <2>5, <2>6
<1>2. QED
  BY <1>1, Invariance, PTL DEF Spec, BytesInPlace

-----------------------------------------------------------------------------
(* The refinement of SeekableStream.                                       *)

-----------------------------------------------------------------------------
(* The sum of the lengths.                                                 *)

(* Induction, by the least counterexample: a set of naturals that is not   *)
(* empty has a least element.                                              *)
LEMMA LeastNat ==
    ASSUME NEW T, T \subseteq Nat, T # {}
    PROVE  \E n \in T : \A m \in T : n <= m
<1> DEFINE R == OpToRel(<, Nat)
<1>1. IsWellFoundedOn(R, Nat)
  BY NatLessThanWellFounded
<1>2. \A x, y \in Nat : x < y => <<x, y>> \in R
  BY DEF OpToRel
<1> HIDE DEF R
<1>3. PICK x \in T : \A y \in T : ~ (<<y, x>> \in R)
  BY <1>1, WFMin
<1>4. \A y \in T : ~(y < x)
  BY <1>2, <1>3
<1>5. QED
  BY <1>4

IsSum(f, e, n) ==
    f = [i \in 1 .. n + 1 |-> IF i = 1 THEN 0 ELSE f[i - 1] + e[i - 1]]

(* The recursion defines a function.                                       *)
LEMMA SumExists ==
    ASSUME NEW e, NEW n \in Nat
    PROVE  \E f : IsSum(f, e, n)
<1> DEFINE T == {m \in Nat : ~\E f : IsSum(f, e, m)}
<1> SUFFICES ASSUME T # {} PROVE FALSE
  OBVIOUS
<1>1. PICK m \in T : \A k \in T : m <= k
  BY LeastNat
<1>2. m # 0
  <2> DEFINE f == [i \in 1 .. 1 |-> 0]
  <2>1. IsSum(f, e, 0)
    BY DEF IsSum
  <2>2. QED
    BY <2>1, <1>1
<1>3. m - 1 \in Nat /\ m - 1 \notin T
  BY <1>1, <1>2
<1>4. PICK f : IsSum(f, e, m - 1)
  BY <1>3
<1> DEFINE g == [i \in 1 .. m + 1 |-> IF i <= m THEN f[i] ELSE f[m] + e[m]]
<1>5. ASSUME NEW i \in 1 .. m
      PROVE  g[i] = f[i] /\ f[i] = IF i = 1 THEN 0 ELSE f[i - 1] + e[i - 1]
  BY <1>1, <1>3, <1>4 DEF IsSum
<1>6. ASSUME NEW i \in 1 .. m + 1
      PROVE  g[i] = IF i = 1 THEN 0 ELSE g[i - 1] + e[i - 1]
  <2>1. CASE i \in 1 .. m
    <3>1. i = 1 \/ i - 1 \in 1 .. m
      BY <1>1, <2>1
    <3>2. QED
      BY <1>5, <2>1, <3>1
  <2>2. CASE i = m + 1
    <3>1. m \in 1 .. m /\ i - 1 = m /\ i # 1
      BY <1>1, <1>2, <2>2
    <3>2. g[i] = f[m] + e[m]
      BY <1>1, <2>2
    <3>3. QED
      BY <1>5, <3>1, <3>2
  <2>3. QED
    BY <1>1, <2>1, <2>2
<1>7. IsSum(g, e, m)
  <2>1. g = [i \in 1 .. m + 1 |-> g[i]]
    OBVIOUS
  <2> HIDE DEF g
  <2>2. QED
    BY <1>6, <2>1 DEF IsSum
<1>8. QED
  BY <1>1, <1>7

LEMMA SumFacts ==
    ASSUME NEW ps, Len(ps) \in Nat
    PROVE  /\ SumBefore(ps)[1] = 0
           /\ \A i \in 1 .. Len(ps) :
                 SumBefore(ps)[i + 1] = SumBefore(ps)[i] + ps[i].end
<1> DEFINE e == [i \in 1 .. Len(ps) |-> ps[i].end]
           n == Len(ps)
<1>1. PICK f : IsSum(f, e, n)
  BY SumExists
<1>2. \A g : IsSum(g, e, n) <=>
         g = [i \in 1 .. n + 1 |-> IF i = 1 THEN 0 ELSE g[i - 1] + ps[i - 1].end]
  <2> SUFFICES ASSUME NEW g
               PROVE  [i \in 1 .. n + 1 |-> IF i = 1 THEN 0 ELSE g[i - 1] + e[i - 1]]
                = [i \in 1 .. n + 1 |-> IF i = 1 THEN 0 ELSE g[i - 1] + ps[i - 1].end]
    BY DEF IsSum
  <2>1. ASSUME NEW i \in 1 .. n + 1, i # 1
        PROVE  e[i - 1] = ps[i - 1].end
    BY <2>1
  <2> HIDE DEF e
  <2>2. QED
    BY <2>1
<1>3. SumBefore(ps) = CHOOSE g :
         g = [i \in 1 .. n + 1 |-> IF i = 1 THEN 0 ELSE g[i - 1] + ps[i - 1].end]
  BY DEF SumBefore
<1>4. SumBefore(ps) = [i \in 1 .. n + 1 |->
         IF i = 1 THEN 0 ELSE SumBefore(ps)[i - 1] + ps[i - 1].end]
  BY <1>1, <1>2, <1>3
<1>5. QED
  BY <1>4

(* The sums depend on nothing but the lengths.                             *)
LEMMA SumKept ==
    ASSUME NEW ps, NEW qs, Len(ps) \in Nat, Len(qs) = Len(ps),
           \A i \in 1 .. Len(ps) : qs[i].end = ps[i].end
    PROVE  SumBefore(qs) = SumBefore(ps)
<1> DEFINE n    == Len(ps)
           F(g) == [i \in 1 .. n + 1 |->
                      IF i = 1 THEN 0 ELSE g[i - 1] + ps[i - 1].end]
           G(g) == [i \in 1 .. n + 1 |->
                      IF i = 1 THEN 0 ELSE g[i - 1] + qs[i - 1].end]
<1>1. \A g : F(g) = G(g)
  <2> SUFFICES ASSUME NEW g PROVE F(g) = G(g)
    OBVIOUS
  <2>1. \A i \in 1 .. n + 1 : i # 1 => qs[i - 1].end = ps[i - 1].end
    OBVIOUS
  <2>2. QED
    BY <2>1
<1>2. /\ SumBefore(ps) = CHOOSE g : g = F(g)
      /\ SumBefore(qs) = CHOOSE g : g = G(g)
  BY DEF SumBefore
<1> HIDE DEF F, G
<1>3. (CHOOSE g : g = F(g)) = (CHOOSE g : g = G(g))
  BY <1>1
<1>4. QED
  BY <1>2, <1>3

(* Moving the cursor of a part changes no length.                          *)
LEMMA PlacedEnds ==
    ASSUME NEW ps \in Seq(Part), NEW i, NEW n
    PROVE  /\ Len(Placed(ps, i, n)) = Len(ps) /\ Len(ps) \in Nat
           /\ \A k \in 1 .. Len(ps) : Placed(ps, i, n)[k].end = ps[k].end
<1> DEFINE moved == [ps[i] EXCEPT !.pos = n]
<1>1. Placed(ps, i, n) = [ps EXCEPT ![i] = moved]
  BY DEF Placed
<1>2. Len(ps) \in Nat /\ DOMAIN ps = 1 .. Len(ps)
  OBVIOUS
<1>3. \A k \in 1 .. Len(ps) : ps[k] \in Part
  OBVIOUS
<1>4. i \in 1 .. Len(ps) => moved.end = ps[i].end
  BY <1>3 DEF Part
<1> HIDE DEF moved
<1>5. \A k \in 1 .. Len(ps) :
         [ps EXCEPT ![i] = moved][k].end = ps[k].end
  BY <1>2, <1>4
<1>6. DOMAIN [ps EXCEPT ![i] = moved] = 1 .. Len(ps)
  BY <1>2
<1>7. Len([ps EXCEPT ![i] = moved]) = Len(ps)
  BY <1>2, <1>6
<1>8. QED
  BY <1>1, <1>2, <1>5, <1>7

-----------------------------------------------------------------------------
(* The invariant.                                                          *)

LEMMA RInvInit == Init => RInv
<1> SUFFICES ASSUME Init PROVE RInv
  OBVIOUS
<1>1. IInv
  BY InitInv
<1>2. /\ starts = <<>> /\ acc = 0 /\ pc = "measuring" /\ ret = NoOutcome
  BY DEF Init
<1>3. Len(parts) \in Nat
  BY <1>1 DEF IInv, TypeOK
<1>4. Sums
  BY <1>2, <1>3, SumFacts DEF Sums, next_part
<1>5. QED
  BY <1>1, <1>2, <1>4 DEF RInv, Calls, Built

(* The total counted while a part is measured is the sum of the lengths.   *)
LEMMA SumsMeasure == RInv /\ MeasurePart => Sums'
<1> SUFFICES ASSUME RInv, MeasurePart PROVE Sums'
  OBVIOUS
<1> DEFINE m == Len(starts)
<1>1. /\ parts \in Seq(Part) /\ starts \in Seq(Offset) /\ m \in Nat
      /\ Len(parts) \in Nat /\ m + 1 \in 1 .. Len(parts) /\ pc = "measuring"
  BY DEF RInv, IInv, TypeOK, MeasurePart, next_part
<1>2. /\ starts' = Append(starts, acc) /\ acc' = acc + parts[m + 1].end
      /\ parts' = Placed(parts, m + 1, parts[m + 1].end)
  BY DEF MeasurePart, next_part, Placed
<1>3. /\ Len(starts') = m + 1 /\ starts'[m + 1] = acc
      /\ \A i \in 1 .. m : starts'[i] = starts[i]
  BY <1>1, <1>2
<1>4. SumBefore(parts') = SumBefore(parts)
  BY <1>1, <1>2, PlacedEnds, SumKept
<1>5. /\ acc = SumBefore(parts)[m + 1]
      /\ \A i \in 1 .. m : starts[i] = SumBefore(parts)[i]
  BY <1>1 DEF RInv, Sums, next_part
<1>6. SumBefore(parts)[m + 2] = SumBefore(parts)[m + 1] + parts[m + 1].end
  BY <1>1, SumFacts
<1> HIDE DEF m
<1>7. acc' = SumBefore(parts')[m + 2]
  BY <1>2, <1>4, <1>5, <1>6
<1>8. \A i \in 1 .. m + 1 : starts'[i] = SumBefore(parts')[i]
  BY <1>1, <1>3, <1>4, <1>5
<1>9. QED
  BY <1>1, <1>3, <1>7, <1>8 DEF Sums, next_part

LEMMA RInvStep == RInv /\ [Next]_vars => RInv'
<1> SUFFICES ASSUME RInv, [Next]_vars PROVE RInv'
  OBVIOUS
<1>1. IInv'
  BY StepInv DEF RInv
<1>2. Sums'
  <2>1. CASE MeasurePart
    BY <2>1, SumsMeasure
  <2>2. CASE UNCHANGED vars
    BY <2>2 DEF RInv, Sums, vars, next_part
  <2>3. CASE Next /\ ~MeasurePart
    BY <2>3 DEF Next, New, Read, TotalOverflows, FinishTable, NewFails, Refuse,
       ReadCall, ReadEmpty, ReadPastEnd, SeekPart, ReadPart, ReadNothing,
       ReadFails, SeekRefused, Seek, Close, PartResized, Over, Return, Built,
       Sums, vars
  <2>4. QED
    BY <2>1, <2>2, <2>3
<1>3. Calls'
  <2>1. \A k \in ReadSizes : k > 0
    BY CallerAssumption, Numbers
  <2>2. CASE Next
    BY <2>1, <2>2 DEF RInv, Next, New, Read, MeasurePart, TotalOverflows,
       FinishTable, NewFails, Refuse, ReadCall, ReadEmpty, ReadPastEnd, SeekPart,
       ReadPart, ReadNothing, ReadFails, SeekRefused, Seek, Close, PartResized,
       Over, Return, Built, Calls, vars
  <2>3. QED
    BY <2>2 DEF RInv, Calls, Built, vars
<1>4. QED
  BY <1>1, <1>2, <1>3 DEF RInv

-----------------------------------------------------------------------------
(* What the stream sees.                                                   *)

LEMMA AbsoluteEmpty ==
    ASSUME NEW kind
    PROVE  Absolute(Outcome(kind, <<>>)) = Outcome(kind, <<>>)
<1>1. [k \in DOMAIN <<>> |-> starts[<<>>[k][1]] + <<>>[k][2]] = <<>>
  OBVIOUS
<1>2. QED
  BY <1>1 DEF Absolute, Outcome

LEMMA AbsoluteBytes ==
    ASSUME NEW i, starts[i] \in Nat, NEW off \in Nat, NEW n \in Nat
    PROVE  Absolute(Outcome("bytes", PartBytes(i, off, n)))
             = Outcome("bytes", Bytes(starts[i] + off, n))
<1> DEFINE bs == PartBytes(i, off, n)
<1>1. [k \in DOMAIN bs |-> starts[bs[k][1]] + bs[k][2]] = Bytes(starts[i] + off, n)
  BY DEF PartBytes, Bytes
<1>2. QED
  BY <1>1 DEF Absolute, Outcome

(* Completing a call without bytes.                                        *)
LEMMA ReturnsEmpty ==
    ASSUME NEW kind, Return(Outcome(kind, <<>>)), UNCHANGED starts
    PROVE  Absolute(ret)' = Outcome(kind, <<>>)
<1>1. Absolute(ret)' = Absolute(ret')
  BY DEF Absolute
<1>2. QED
  BY <1>1, AbsoluteEmpty DEF Return

(* While the table is built nothing has been answered yet.                 *)
LEMMA NothingAnswered ==
    ASSUME ret = NoOutcome, UNCHANGED ret
    PROVE  Absolute(ret) = NoOutcome /\ Absolute(ret)' = NoOutcome
<1>1. /\ [k \in DOMAIN <<>> |-> starts[<<>>[k][1]] + <<>>[k][2]] = <<>>
      /\ [k \in DOMAIN <<>> |-> starts'[<<>>[k][1]] + <<>>[k][2]] = <<>>
  OBVIOUS
<1>2. QED
  BY <1>1 DEF Absolute, NoOutcome, Outcome

(* Which bytes are lost depends on the table and the lengths only.         *)
LEMMA LostKept ==
    ASSUME UNCHANGED starts, Len(parts') = Len(parts), Len(parts) \in Nat,
           \A i \in 1 .. Len(parts) : parts'[i].end = parts[i].end
    PROVE  Lost' = Lost
BY DEF Lost, total_len

(* A lost offset is lost in the part that holds it.                        *)
LEMMA LostHere ==
    ASSUME IInv, Built, NEW p \in Nat, NEW i \in 1 .. Len(parts), Holds(i, p)
    PROVE  p \in Lost <=> p - starts[i] >= parts[i].end
<1>1. p \in 0 .. total_len - 1
  <2>1. /\ p < starts[i + 1] /\ starts[i + 1] <= starts[Len(parts) + 1]
        /\ starts[i + 1] \in Nat /\ total_len = starts[Len(parts) + 1]
        /\ total_len \in Nat
    BY BuiltFacts DEF Holds
  <2>2. QED
    BY <2>1
<1>2. \A j \in 1 .. Len(parts) :
         starts[j] <= p /\ p < starts[j + 1] => j = i
  BY HoldersUnique DEF Holds
<1>3. QED
  BY <1>1, <1>2 DEF Lost, Holds

-----------------------------------------------------------------------------
(* Every step of the composite is a step of the stream or leaves it alone. *)

LEMMA StreamInit == Init => Stream!Init
<1> SUFFICES ASSUME Init PROVE Stream!Init
  OBVIOUS
<1>1. pos = 0 /\ pc = "measuring" /\ ret = NoOutcome
  BY DEF Init
<1>2. Absolute(ret) = NoOutcome
  BY <1>1, AbsoluteEmpty DEF NoOutcome
<1>3. LengthToBe \in Offset /\ 0 \in Offset
  BY Numbers DEF LengthToBe
<1>4. QED
  BY <1>1, <1>2, <1>3
  DEF Built, Stream!Init, Stream!NoOutcome, NoOutcome, Stream!Outcome,
      Outcome, Stream!Offset, Offset

(* The length the table ends with is the one the stream has had from the   *)
(* start, and no byte is lost when construction ends.                      *)
LEMMA FinishLength ==
    ASSUME RInv, FinishTable
    PROVE  total_len' = LengthToBe /\ Lost' = {}
<1> DEFINE n == Len(parts)
<1>1. /\ parts \in Seq(Part) /\ starts \in Seq(Offset) /\ n \in Nat
      /\ Len(starts) = n /\ acc \in Offset /\ pc = "measuring"
  BY DEF RInv, IInv, TypeOK, Table, FinishTable, next_part
<1>2. /\ starts' = Append(starts, acc)
      /\ parts' = [i \in DOMAIN parts |->
                     IF i = 1 THEN [parts[i] EXCEPT !.pos = 0] ELSE parts[i]]
  BY DEF FinishTable
<1>3. /\ Len(starts') = n + 1 /\ starts'[n + 1] = acc
      /\ \A i \in 1 .. n : starts'[i] = starts[i]
  BY <1>1, <1>2
<1>4. \A i \in 1 .. n + 1 : starts'[i] = SumBefore(parts)[i]
  BY <1>1, <1>3 DEF RInv, Sums, next_part
<1>5. total_len' = LengthToBe
  BY <1>1, <1>3, <1>4 DEF total_len, LengthToBe
<1>6. Len(parts') = n /\ \A i \in 1 .. n : parts'[i].end = parts[i].end
  <2>1. DOMAIN parts = 1 .. n /\ \A i \in 1 .. n : parts[i] \in Part
    BY <1>1
  <2>2. \A i \in 1 .. n : [parts[i] EXCEPT !.pos = 0].end = parts[i].end
    BY <2>1 DEF Part
  <2>3. DOMAIN parts' = 1 .. n
    BY <1>2, <2>1
  <2>4. Len(parts') = n
    BY <1>1, <1>2, <2>1
  <2>5. QED
    BY <1>2, <2>1, <2>2, <2>4
<1>7. \A i \in 1 .. n : starts'[i + 1] = starts'[i] + parts'[i].end
  BY <1>1, <1>4, <1>6, SumFacts
<1>8. \A i \in 1 .. n : starts'[i] \in Nat /\ parts'[i].end \in Nat
  <2>1. \A i \in 1 .. n : starts[i] \in Offset /\ parts[i] \in Part
    BY <1>1
  <2>2. QED
    BY <1>3, <1>6, <2>1, Numbers DEF Part
<1>9. ASSUME NEW p \in Lost'
      PROVE  FALSE
  <2>1. PICK i \in 1 .. n : /\ p < starts'[i + 1]
                            /\ p - starts'[i] >= parts'[i].end
    BY <1>6 DEF Lost
  <2>2. p \in Int
    BY DEF Lost
  <2>3. QED
    BY <1>7, <1>8, <2>1, <2>2
<1>10. QED
  BY <1>5, <1>9

LEMMA NewRefines ==
    ASSUME RInv, New
    PROVE  UNCHANGED Stream!vars
<1>1. /\ ret = NoOutcome /\ UNCHANGED <<pos, ret>> /\ pc = "measuring"
      /\ pc' \in {"measuring", "refused", "idle"}
  BY DEF New, MeasurePart, TotalOverflows, FinishTable, NewFails, Refuse,
     RInv, Calls, Built
<1>2. Absolute(ret)' = Absolute(ret)
  BY <1>1, NothingAnswered
<1>3. (IF Built THEN total_len ELSE LengthToBe)' = LengthToBe
      /\ (IF Built THEN Lost ELSE {})' = {}
  <2>1. CASE FinishTable
    BY <2>1, FinishLength DEF FinishTable, Built
  <2>2. CASE MeasurePart
    <3>1. parts \in Seq(Part) /\ Len(parts) \in Nat
          /\ parts' = Placed(parts, next_part, parts[next_part].end)
      BY <2>2 DEF MeasurePart, Placed, RInv, IInv, TypeOK
    <3>2. SumBefore(parts') = SumBefore(parts) /\ Len(parts') = Len(parts)
      BY <3>1, PlacedEnds, SumKept
    <3>3. LengthToBe' = LengthToBe
      BY <3>2 DEF LengthToBe
    <3>4. QED
      BY <2>2, <3>3 DEF MeasurePart, Built
  <2>3. CASE TotalOverflows \/ NewFails
    BY <2>3 DEF TotalOverflows, NewFails, Refuse, Built, LengthToBe
  <2>4. QED
    BY <2>1, <2>2, <2>3 DEF New
<1>4. QED
  BY <1>1, <1>2, <1>3 DEF Stream!vars, Built

(* Once the table is built the stream is its total long.                   *)
LEMMA BuiltStream ==
    ASSUME Built, Built', UNCHANGED starts, Len(parts') = Len(parts),
           Len(parts) \in Nat,
           \A i \in 1 .. Len(parts) : parts'[i].end = parts[i].end
    PROVE  /\ UNCHANGED (IF Built THEN total_len ELSE LengthToBe)
           /\ UNCHANGED (IF Built THEN Lost ELSE {})
BY LostKept DEF total_len

(* Where the cursor is while a read is under way.                          *)
LEMMA ReadingFacts ==
    ASSUME IInv, pc = "called" \/ pc = "reading", idx # None
    PROVE  /\ idx \in 1 .. Len(parts) /\ Holds(idx, pos)
           /\ starts[idx] \in Nat /\ starts[idx + 1] \in Nat
           /\ starts[idx] <= pos /\ pos < starts[idx + 1]
           /\ starts[idx + 1] <= total_len /\ total_len \in Nat
           /\ pos \in Nat /\ want \in Nat /\ Len(parts) \in Nat
           /\ parts[idx] \in Part /\ parts[idx].end \in Nat
<1>1. Built /\ pos \in Nat /\ want \in Nat /\ parts \in Seq(Part)
  BY Numbers DEF Built, IInv, TypeOK
<1>2. idx \in 1 .. Len(parts) /\ Holds(idx, pos)
  BY <1>1, BuiltFacts, SegmentFor DEF idx
<1> DEFINE i == idx
<1> HIDE DEF i
<1>3. i \in 1 .. Len(parts) /\ Holds(i, pos)
  BY <1>2 DEF i
<1>4. /\ starts[i] \in Nat /\ starts[i + 1] \in Nat
      /\ starts[i + 1] <= total_len /\ total_len \in Nat /\ Len(parts) \in Nat
  BY <1>1, <1>3, BuiltFacts
<1>5. parts[i] \in Part
  BY <1>1, <1>3
<1>6. parts[i].end \in Nat
  BY <1>5, Numbers DEF Part
<1>7. QED
  BY <1>1, <1>3, <1>4, <1>5, <1>6 DEF Holds, i

(* A read that brings bytes delivers a non-empty piece of what is left.    *)
LEMMA ReadDelivers ==
    ASSUME RInv, ReadPart
    PROVE  Stream!Deliver
<1>1. /\ IInv /\ pc = "reading" /\ idx # None /\ parts[idx].pos = intra
      /\ Built /\ pc' = "idle" /\ want' = 0 /\ Built' /\ UNCHANGED starts
  BY DEF RInv, IInv, Table, ReadPart, Return, Built
<1> DEFINE i == idx
<1>2. /\ i \in 1 .. Len(parts) /\ Holds(i, pos)
      /\ starts[i] \in Nat /\ starts[i + 1] \in Nat
      /\ starts[i] <= pos /\ pos < starts[i + 1]
      /\ starts[i + 1] <= total_len /\ total_len \in Nat
      /\ pos \in Nat /\ want \in Nat /\ Len(parts) \in Nat
      /\ parts[i] \in Part /\ parts[i].end \in Nat
      /\ parts[i].pos = pos - starts[i]
  BY <1>1, ReadingFacts DEF intra
<1>3. PICK n \in 1 .. Smaller(Asked, parts[i].end - parts[i].pos) :
          /\ Return(Outcome("bytes", PartBytes(i, parts[i].pos, n)))
          /\ pos' = pos + n
          /\ parts' = [parts EXCEPT ![i].pos = @ + n]
  BY DEF ReadPart
<1>4. UNCHANGED (IF Built THEN total_len ELSE LengthToBe)
      /\ UNCHANGED (IF Built THEN Lost ELSE {})
  <2>1. parts \in Seq(Part) /\ parts' = Placed(parts, i, parts[i].pos + n)
    BY <1>3 DEF RInv, IInv, TypeOK, Placed
  <2>2. QED
    BY <1>1, <2>1, PlacedEnds, BuiltStream
<1> DEFINE left == starts[i + 1] - pos
<1>5. left \in Nat /\ left % UsizeSpan \in Nat /\ left % UsizeSpan <= left
  <2>1. left \in Nat
    BY <1>2
  <2>2. \A a \in Nat, b \in Nat \ {0} : a % b \in Nat /\ a % b <= a
    OBVIOUS
  <2>3. QED
    BY <2>1, <2>2, Numbers
<1>6. Asked \in Nat /\ Asked <= left /\ Asked <= want
  BY <1>2, <1>5 DEF Asked, Smaller, remaining_in_seg
<1> HIDE DEF i, left
<1>7. /\ n \in Nat /\ n > 0 /\ n <= left /\ n <= want
      /\ pos - starts[i] + n <= parts[i].end
  <2>1. \A a, b \in Int : \A k \in 1 .. Smaller(a, b) :
           k \in Nat /\ k > 0 /\ k <= a /\ k <= b
    BY DEF Smaller
  <2>2. parts[i].end - parts[i].pos \in Int /\ pos - starts[i] \in Nat
    BY <1>2
  <2>3. n <= Asked /\ n \in Nat /\ n > 0 /\ n <= parts[i].end - parts[i].pos
    BY <1>3, <1>6, <2>1, <2>2
  <2>4. n <= left /\ n <= want
    BY <1>2, <1>5, <1>6, <2>3
  <2>5. n <= parts[i].end - (pos - starts[i])
    BY <1>2, <2>3
  <2>6. QED
    BY <1>2, <2>2, <2>3, <2>4, <2>5
<1>8. pos + n <= starts[i + 1]
  BY <1>2, <1>7 DEF left
<1>9. Absolute(ret)' = Outcome("bytes", Bytes(pos, n))
  <2>1. Absolute(ret)' = Absolute(ret')
    BY <1>1 DEF Absolute
  <2>2. ret' = Outcome("bytes", PartBytes(i, pos - starts[i], n))
    BY <1>2, <1>3 DEF Return
  <2>3. pos - starts[i] \in Nat /\ starts[i] + (pos - starts[i]) = pos
    BY <1>2
  <2>4. QED
    BY <1>2, <1>7, <2>1, <2>2, <2>3, AbsoluteBytes
<1>10. pos .. pos + n - 1 \subseteq Offset \ Lost
  <2> SUFFICES ASSUME NEW q \in pos .. pos + n - 1
               PROVE  q \in Offset /\ q \notin Lost
    OBVIOUS
  <2>1. q \in Nat /\ Holds(i, q) /\ q - starts[i] < parts[i].end
    <3>1. q \in Nat /\ pos <= q /\ q < pos + n
      BY <1>2, <1>7
    <3>2. starts[i] <= q
      BY <1>2, <3>1
    <3>3. q < starts[i + 1]
      BY <1>2, <1>7, <1>8, <3>1
    <3>4. q - starts[i] < parts[i].end
      BY <1>2, <1>7, <3>1
    <3>5. QED
      BY <3>1, <3>2, <3>3, <3>4 DEF Holds
  <2>2. q \notin Lost
    BY <1>1, <1>2, <2>1, LostHere
  <2>3. q <= MaxOff
    <3>1. total_len <= MaxOff /\ q < starts[i + 1]
      BY <1>1, <2>1, BuiltFacts, Numbers DEF Holds
    <3>2. QED
      BY <1>2, <2>1, <3>1, Numbers
  <2>4. QED
    BY <2>1, <2>2, <2>3, Numbers
<1>11. n \in 1 .. Smaller(want, total_len - pos) /\ want > 0 /\ pos < total_len
  BY <1>2, <1>7, <1>8 DEF Smaller
<1>12. \E m \in 1 .. Smaller(want, total_len - pos) :
         /\ pos .. pos + m - 1 \subseteq Offset \ Lost
         /\ Absolute(ret)' = Outcome("bytes", Bytes(pos, m))
         /\ pos' = pos + m
  BY <1>3, <1>9, <1>10, <1>11
<1>13. QED
  BY <1>1, <1>4, <1>11, <1>12
  DEF Stream!Deliver, Stream!Outcome, Outcome, Stream!Smaller, Smaller,
      Stream!Bytes, Bytes, Stream!Offset, Offset

(* A read that brings nothing in the middle of the stream found the bytes  *)
(* of its part gone: where a usize is as wide as a u64 it has asked for at *)
(* least one.                                                              *)
LEMMA NothingIsLost ==
    ASSUME WideUsize, RInv, ReadNothing
    PROVE  pos \in Lost
<1>1. /\ IInv /\ pc = "reading" /\ idx # None /\ parts[idx].pos = intra
      /\ Built /\ want > 0
  BY DEF RInv, IInv, Table, ReadNothing, Built, Calls
<1> DEFINE left == starts[idx + 1] - pos
<1>2. left \in 1 .. UsizeSpan - 1 /\ UsizeSpan \in Nat \ {0}
  BY <1>1, ReadingFacts, BuiltFacts, Numbers DEF WideUsize
<1>3. \A a \in Nat, b \in Nat \ {0} : a < b => a % b = a
  OBVIOUS
<1> HIDE DEF left
<1>4. left % UsizeSpan = left
  BY <1>2, <1>3
<1>5. Asked > 0
  BY <1>1, <1>2, <1>4, ReadingFacts DEF Asked, Smaller, remaining_in_seg, left
<1>6. pos - starts[idx] >= parts[idx].end
  BY <1>1, <1>5, ReadingFacts DEF ReadNothing, intra
<1>7. QED
  BY <1>1, <1>6, ReadingFacts, LostHere

LEMMA ReadRefines ==
    ASSUME WideUsize, RInv, Read
    PROVE  Stream!Next \/ UNCHANGED Stream!vars
<1>0. /\ IInv /\ parts \in Seq(Part) /\ Len(parts) \in Nat
      /\ Built /\ Built' /\ UNCHANGED starts
      /\ pc \in {"called", "reading"} => want > 0
  BY DEF RInv, IInv, TypeOK, Calls, Read, ReadCall, ReadEmpty, ReadPastEnd,
     SeekPart, ReadPart, ReadNothing, ReadFails, Return, Built
<1>1. UNCHANGED (IF Built THEN total_len ELSE LengthToBe)
      /\ UNCHANGED (IF Built THEN Lost ELSE {})
  <2>1. CASE UNCHANGED parts
    BY <1>0, <2>1, BuiltStream
  <2>2. CASE \E i, n : parts' = Placed(parts, i, n)
    BY <1>0, <2>2, PlacedEnds, BuiltStream
  <2>3. UNCHANGED parts \/ \E i, n : parts' = Placed(parts, i, n)
    BY DEF Read, ReadCall, ReadEmpty, ReadPastEnd, SeekPart, ReadPart,
       ReadNothing, ReadFails, Placed
  <2>4. QED
    BY <2>1, <2>2, <2>3
<1>2. ASSUME NEW k \in ReadSizes, ReadCall(k)
      PROVE  Stream!Next
  <2>1. Absolute(ret)' = Absolute(ret)
    BY <1>2 DEF ReadCall, Absolute
  <2>2. Stream!BeginRead(k)
    BY <1>0, <1>1, <1>2, <2>1 DEF ReadCall, Stream!BeginRead
  <2>3. QED
    BY <2>2 DEF Stream!Next
<1>3. CASE ReadEmpty
  <2>1. Absolute(ret)' = Outcome("empty", <<>>)
    BY <1>0, <1>3, ReturnsEmpty DEF ReadEmpty
  <2>2. Stream!ReadEmpty
    BY <1>0, <1>1, <1>3, <2>1
    DEF ReadEmpty, Return, Stream!ReadEmpty, Stream!Outcome, Outcome
  <2>3. QED
    BY <2>2 DEF Stream!Next
<1>4. CASE ReadPastEnd
  <2>1. Absolute(ret)' = Outcome("eof", <<>>)
    BY <1>0, <1>4, ReturnsEmpty DEF ReadPastEnd
  <2>2. pos >= total_len
    <3>1. pos \in Nat /\ total_len \in Nat
      BY <1>0, BuiltFacts, Numbers DEF IInv, TypeOK
    <3>2. QED
      BY <1>0, <1>4, <3>1, SegmentFor DEF ReadPastEnd, None
  <2>3. Stream!AtEnd
    BY <1>0, <1>1, <1>4, <2>1, <2>2
    DEF ReadPastEnd, Return, Stream!AtEnd, Stream!Outcome, Outcome
  <2>4. QED
    BY <2>3 DEF Stream!Next
<1>5. CASE SeekPart
  <2>1. Absolute(ret)' = Absolute(ret)
    BY <1>5 DEF SeekPart, Absolute
  <2>2. QED
    BY <1>1, <1>5, <2>1 DEF SeekPart, Stream!vars
<1>6. CASE ReadPart
  BY <1>6, ReadDelivers DEF Stream!Next
<1>7. CASE ReadNothing
  <2>1. Absolute(ret)' = Outcome("eof", <<>>)
    BY <1>0, <1>7, ReturnsEmpty DEF ReadNothing
  <2>2. pos \in Lost
    BY <1>7, NothingIsLost
  <2>3. Stream!AtEnd
    BY <1>0, <1>1, <1>7, <2>1, <2>2
    DEF ReadNothing, Return, Stream!AtEnd, Stream!Outcome, Outcome
  <2>4. QED
    BY <2>3 DEF Stream!Next
<1>8. CASE ReadFails
  <2>1. PICK e \in IoErrors : Return(Outcome(e, <<>>))
    BY <1>8 DEF ReadFails
  <2>2. Absolute(ret)' = Outcome(e, <<>>)
    BY <1>0, <2>1, ReturnsEmpty
  <2>3. Stream!Fail
    BY <1>0, <1>1, <1>8, <2>1, <2>2
    DEF ReadFails, Return, Stream!Fail, Stream!Outcome, Outcome
  <2>4. QED
    BY <2>3 DEF Stream!Next
<1>9. QED
  BY <1>2, <1>3, <1>4, <1>5, <1>6, <1>7, <1>8 DEF Read

LEMMA StepRefines ==
    ASSUME WideUsize, RInv, [Next]_vars
    PROVE  [Stream!Next]_(Stream!vars)
<1>1. CASE New
  BY <1>1, NewRefines
<1>2. CASE Read
  BY <1>2, ReadRefines
<1>3. ASSUME NEW from \in SeekFroms, SeekRefused(from) \/ Seek(from)
      PROVE  Stream!Next
  <2>1. /\ pc = "idle" /\ pc' = "idle" /\ Built /\ Built'
        /\ UNCHANGED <<parts, starts>> /\ Len(parts) \in Nat
    BY <1>3 DEF SeekRefused, Seek, Return, Built, RInv, IInv, TypeOK
  <2>2. UNCHANGED (IF Built THEN total_len ELSE LengthToBe)
        /\ UNCHANGED (IF Built THEN Lost ELSE {})
    BY <2>1, BuiltStream
  <2>3. SeekTo(from) = Stream!Resolve(from, pos, total_len)
    BY DEF SeekTo, Resolve, Stream!Resolve, add_signed, Stream!add_signed,
       Offset, Stream!Offset, None, Stream!None
  <2>4. CASE SeekRefused(from)
    <3>1. Absolute(ret)' = Outcome("InvalidInput", <<>>)
      BY <2>1, <2>4, ReturnsEmpty DEF SeekRefused
    <3>2. QED
      BY <2>1, <2>2, <2>3, <2>4, <3>1
      DEF SeekRefused, Stream!Next, Stream!Seek, Stream!Outcome, Outcome,
          Stream!None, None
  <2>5. CASE Seek(from)
    <3>1. Absolute(ret)' = Outcome("seeked", <<>>)
      BY <2>1, <2>5, ReturnsEmpty DEF Seek
    <3>2. QED
      BY <2>1, <2>2, <2>3, <2>5, <3>1
      DEF Seek, Stream!Next, Stream!Seek, Stream!Outcome, Outcome,
          Stream!None, None
  <2>6. QED
    BY <1>3, <2>4, <2>5
<1>4. CASE Close
  <2>1. Absolute(ret)' = Absolute(ret)
    BY <1>4 DEF Close, Absolute
  <2>2. UNCHANGED (IF Built THEN total_len ELSE LengthToBe)
        /\ UNCHANGED (IF Built THEN Lost ELSE {})
    BY <1>4, BuiltStream DEF Close, Built, RInv, IInv, TypeOK
  <2>3. Stream!Close
    BY <1>4, <2>1, <2>2 DEF Close, Stream!Close
  <2>4. QED
    BY <2>3 DEF Stream!Next
<1>5. CASE PartResized
  <2>1. Absolute(ret)' = Absolute(ret)
    BY <1>5 DEF PartResized, Absolute
  <2>2. UNCHANGED (IF Built THEN total_len ELSE LengthToBe)
        /\ (IF Built THEN Lost ELSE {})' \subseteq 0 .. total_len - 1
    BY <1>5 DEF PartResized, Built, Lost, total_len
  <2>3. Stream!StoreChanges
    BY <1>5, <2>1, <2>2 DEF PartResized, Stream!StoreChanges, Built
  <2>4. QED
    BY <2>3 DEF Stream!Next
<1>6. CASE Over \/ UNCHANGED vars
  <2>1. UNCHANGED vars
    BY <1>6 DEF Over
  <2>2. QED
    BY <2>1 DEF vars, Stream!vars, Absolute, Lost, Built, LengthToBe, total_len
<1>7. QED
  BY <1>1, <1>2, <1>3, <1>4, <1>5, <1>6 DEF Next

-----------------------------------------------------------------------------
(* Theorems.                                                               *)

(* In every reachable state the starts are the sums of the lengths of the  *)
(* parts before, and a call in progress has read bytes it may return.      *)
THEOREM RInvariance == Spec => []RInv
BY RInvInit, RInvStep, PTL DEF Spec

(* The composite of any number of parts of any lengths is the plain stream *)
(* of their bytes one after the other, through every short read, failed    *)
(* call, stray cursor and resized file, wherever a usize holds what a u64  *)
(* holds.                                                                  *)
THEOREM Refinement ==
    ASSUME WideUsize
    PROVE  Spec => ImplementsStream
<1>1. RInv /\ [Next]_vars => [Stream!Next]_(Stream!vars)
  BY StepRefines
<1>2. QED
  BY <1>1, StreamInit, RInvariance, PTL DEF Spec, ImplementsStream, Stream!Spec
=============================================================================
