-------------------------- MODULE SubSourceProofs --------------------------
(***************************************************************************)
(* Proofs about SubSource: its inductive invariant, that a window is born  *)
(* whole, and that it implements the plain stream of SeekableStream on     *)
(* targets whose usize is as wide as a u64.                                *)
(***************************************************************************)
EXTENDS SubSource, TLAPS

(* The constants as facts about numbers.                                   *)
LEMMA Numbers ==
    /\ MaxOff \in Nat
    /\ Offset \subseteq Nat /\ \A x \in Offset : x <= MaxOff
    /\ \A x \in Nat : x <= MaxOff => x \in Offset
    /\ InnerLens \subseteq Offset
BY MaxOffAssumption, WindowAssumption DEF Offset

(* Resolving a seek yields an offset or None.                              *)
LEMMA ResolveType ==
    ASSUME NEW from \in SeekFrom, NEW cur \in Offset, NEW end \in Offset
    PROVE  Resolve(from, cur, end) \in Offset \union {None}
<1>1. CASE from.whence = "Start"
  BY <1>1 DEF Resolve, SeekFrom
<1>2. CASE from.whence = "Current"
  BY <1>2 DEF Resolve, add_signed
<1>3. CASE from.whence = "End"
  BY <1>3 DEF Resolve, add_signed
<1>4. QED
  BY <1>1, <1>2, <1>3 DEF SeekFrom

LEMMA InitInv == Init => IInv
BY MaxOffAssumption, WindowAssumption
DEF Init, IInv, TypeOK, Locals, ProbeRestores, PC, Offset, PastEnd, InnerOffset

(* Construction.                                                           *)
LEMMA NewInv == IInv /\ New => IInv'
<1> SUFFICES ASSUME IInv, New PROVE IInv'
  OBVIOUS
<1> USE DEF IInv, TypeOK, Locals, ProbeRestores, PC, inner, probe, PastEnd,
            InnerOffset
<1>1. CASE NewOverflows \/ WindowTooLong \/ NewFails
  BY <1>1, MaxOffAssumption DEF NewOverflows, WindowTooLong, NewFails, Refuse, Offset
<1>2. CASE SavePosition
  BY <1>2, Numbers DEF SavePosition, Overflows, window_end
<1>3. CASE MeasureInner
  BY <1>3, Numbers DEF MeasureInner, Moved
<1>4. CASE RestorePosition
  BY <1>4 DEF RestorePosition
<1>5. CASE SeekToBase
  BY <1>5, Numbers DEF SeekToBase
<1>6. QED
  BY <1>1, <1>2, <1>3, <1>4, <1>5 DEF New

(* The bytes an inner read brings fit the window and the offsets.          *)
LEMMA ReadInnerFacts ==
    ASSUME IInv, ReadInner
    PROVE  \E n \in 1 .. Asked :
              /\ n <= want /\ pos + n <= len
              /\ inner_pos = base + pos /\ inner_pos + n <= inner_end
              /\ pos' = pos + n /\ inner_pos' = inner_pos + n
              /\ ret' = Outcome("bytes", Bytes(inner_pos, n))
<1>1. /\ pos \in Nat /\ len \in Nat /\ base \in Nat /\ inner_pos \in Nat
      /\ inner_end \in Nat /\ want \in Nat /\ UsizeSpan \in Nat \ {0}
      /\ pos < len /\ inner_pos = base + pos
  BY Numbers, WindowAssumption DEF IInv, TypeOK, Locals, ReadInner
<1>2. PICK n \in 1 .. Smaller(Asked, inner_end - inner_pos) :
          /\ Return(Outcome("bytes", Bytes(inner_pos, n)))
          /\ pos' = pos + n
          /\ inner_pos' = inner_pos + n
  BY DEF ReadInner
<1> DEFINE left == len - pos
<1>3. left \in Nat /\ left % UsizeSpan \in Nat /\ left % UsizeSpan <= left
  <2>1. left \in Nat
    BY <1>1
  <2>2. \A a \in Nat, b \in Nat \ {0} : a % b \in Nat /\ a % b <= a
    OBVIOUS
  <2>3. QED
    BY <1>1, <2>1, <2>2
<1>4. Asked \in Nat /\ Asked <= want /\ Asked <= left
  BY <1>1, <1>3 DEF Asked, Smaller, remaining
<1>5. n \in 1 .. Asked /\ n <= want /\ n <= left /\ inner_pos + n <= inner_end
  BY <1>1, <1>2, <1>4 DEF Smaller
<1>6. pos + n <= len
  BY <1>1, <1>5
<1>7. QED
  BY <1>1, <1>2, <1>5, <1>6 DEF Return

LEMMA ReadInv == IInv /\ Read => IInv'
<1> SUFFICES ASSUME IInv, Read PROVE IInv'
  OBVIOUS
<1> USE DEF IInv, TypeOK, Locals, ProbeRestores, PC, inner, probe, PastEnd,
            InnerOffset
<1>1. ASSUME NEW k \in ReadSizes, ReadCall(k)
      PROVE  IInv'
  BY <1>1, Numbers, CallerAssumption, WindowAssumption DEF ReadCall
<1>2. CASE ReadEmpty \/ ReadPastEnd \/ ReadNothing
  BY <1>2 DEF ReadEmpty, ReadPastEnd, ReadNothing, Return
<1>3. CASE SeekInner
  BY <1>3, Numbers DEF SeekInner
<1>4. CASE ReadInner
  <2>1. pos' \in Offset /\ inner_pos' \in Offset
    BY <1>4, ReadInnerFacts, Numbers
  <2>2. QED
    BY <1>4, <2>1 DEF ReadInner, Return
<1>5. CASE ReadFails
  BY <1>5 DEF ReadFails, Return
<1>6. QED
  BY <1>1, <1>2, <1>3, <1>4, <1>5 DEF Read

LEMMA StepInv == IInv /\ [Next]_vars => IInv'
<1> SUFFICES ASSUME IInv, [Next]_vars PROVE IInv'
  OBVIOUS
<1>1. CASE New
  BY <1>1, NewInv
<1>2. CASE Read
  BY <1>2, ReadInv
<1>3. ASSUME NEW from \in SeekFroms, SeekRefused(from) \/ Seek(from)
      PROVE  IInv'
  <2>1. pos' \in Offset
    <3>1. SeekTo(from) \in Offset \union {None}
      BY ResolveType, CallerAssumption DEF SeekTo, IInv, TypeOK
    <3>2. QED
      BY <1>3, <3>1 DEF SeekRefused, Seek, IInv, TypeOK
  <2>2. QED
    BY <1>3, <2>1 DEF SeekRefused, Seek, Return, IInv, TypeOK, Locals,
       ProbeRestores, PC, inner, probe
<1>4. CASE Close \/ InnerResized \/ Over \/ UNCHANGED vars
  BY <1>4 DEF Close, InnerResized, Over, Built, vars, IInv, TypeOK, Locals,
     ProbeRestores, PC, inner, probe, PastEnd, InnerOffset
<1>5. QED
  BY <1>1, <1>2, <1>3, <1>4 DEF Next

(* Types, and what the locals of a call in progress say, always hold.      *)
THEOREM Invariance == Spec => []IInv
BY InitInv, StepInv, PTL DEF Spec

(* No offset the window computes, base + pos included, leaves u64.         *)
THEOREM TypeCorrect == Spec => []TypeOK
<1>1. IInv => TypeOK
  BY DEF IInv
<1>2. QED
  BY <1>1, Invariance, PTL

(* stream_len puts the cursor back.                                        *)
THEOREM ProbeIsHarmless == Spec => []ProbeRestores
<1>1. IInv => ProbeRestores
  BY DEF IInv
<1>2. QED
  BY <1>1, Invariance, PTL

(* A window that was made lies wholly within its inner source.             *)
THEOREM WindowsAreWhole == Spec => BornWhole
<1>1. IInv /\ [Next]_vars => [~Built /\ Built' => base' + len' <= inner_end']_vars
  <2> SUFFICES ASSUME IInv, Next, ~Built, Built'
               PROVE  base' + len' <= inner_end'
    OBVIOUS
  <2>1. SeekToBase
    BY DEF Next, New, Read, Built, NewOverflows, SavePosition, MeasureInner,
       RestorePosition, WindowTooLong, NewFails, Refuse, ReadCall, ReadEmpty,
       ReadPastEnd, SeekInner, ReadInner, ReadNothing, ReadFails, SeekRefused,
       Seek, Close, InnerResized, Over, vars
  <2>2. QED
    BY <2>1 DEF SeekToBase, Fits, window_end, IInv, Locals
<1>2. QED
  BY <1>1, Invariance, PTL DEF Spec, BornWhole

-----------------------------------------------------------------------------
(* Every step of the window is a step of the stream or leaves it alone.    *)

(* A call that brings no bytes tells the caller the same either way.       *)
LEMMA RelativeEmpty ==
    ASSUME NEW kind
    PROVE  Relative(Outcome(kind, <<>>)) = Outcome(kind, <<>>)
<1>1. [i \in DOMAIN <<>> |-> <<>>[i] - base] = <<>>
  OBVIOUS
<1>2. QED
  BY <1>1 DEF Relative, Outcome

LEMMA RelativeBytes ==
    ASSUME NEW n \in Nat, base \in Nat, pos \in Nat
    PROVE  Relative(Outcome("bytes", Bytes(base + pos, n)))
             = Outcome("bytes", Bytes(pos, n))
<1> DEFINE abs == Bytes(base + pos, n)
<1>1. [i \in DOMAIN abs |-> abs[i] - base] = Bytes(pos, n)
  BY DEF Bytes
<1>2. QED
  BY <1>1 DEF Relative, Outcome

(* Completing a call without bytes, as the stream sees it.                 *)
LEMMA ReturnsEmpty ==
    ASSUME NEW kind, Return(Outcome(kind, <<>>)), UNCHANGED base
    PROVE  Relative(ret)' = Outcome(kind, <<>>)
<1>1. Relative(ret)' = Relative(ret')
  BY DEF Relative
<1>2. QED
  BY <1>1, RelativeEmpty DEF Return

LEMMA StreamInit == Init => Stream!Init
<1> SUFFICES ASSUME Init PROVE Stream!Init
  OBVIOUS
<1>1. len \in Offset /\ pos = 0 /\ pc = "new" /\ ret = NoOutcome
  BY WindowAssumption DEF Init
<1>2. Relative(ret) = NoOutcome
  BY <1>1, RelativeEmpty DEF NoOutcome
<1>3. QED
  BY <1>1, <1>2, MaxOffAssumption
  DEF Built, Stream!Init, Stream!NoOutcome, NoOutcome, Stream!Outcome,
      Outcome, Stream!Offset, Offset

LEMMA NewRefines ==
    ASSUME IInv, New
    PROVE  UNCHANGED Stream!vars
<1>1. UNCHANGED <<base, len, pos, want, ret>>
  BY DEF New, NewOverflows, SavePosition, MeasureInner, RestorePosition,
     WindowTooLong, SeekToBase, NewFails, Refuse
<1>2. pc \notin {"idle", "called", "reading", "closed"}
      /\ pc' \notin {"called", "reading", "closed"}
  BY DEF New, NewOverflows, SavePosition, MeasureInner, RestorePosition,
     WindowTooLong, SeekToBase, NewFails, Refuse
<1>3. (IF Built THEN Lost ELSE {})' = {}
  <2>1. CASE SeekToBase
    <3>1. base + len <= inner_end'
      BY <2>1 DEF SeekToBase, Fits, window_end, IInv, Locals
    <3>2. Lost' = {}
      BY <1>1, <3>1, Numbers, <2>1 DEF Lost, IInv, TypeOK, SeekToBase
    <3>3. QED
      BY <3>2
  <2>2. CASE ~SeekToBase
    BY <2>2 DEF Built, New, NewOverflows, SavePosition, MeasureInner,
       RestorePosition, WindowTooLong, NewFails, Refuse
  <2>3. QED
    BY <2>1, <2>2
<1>4. Relative(ret)' = Relative(ret)
  BY <1>1 DEF Relative
<1>5. QED
  BY <1>1, <1>2, <1>3, <1>4 DEF Stream!vars, Built

(* A read that brings bytes delivers a non-empty piece of what is left.    *)
LEMMA ReadDelivers ==
    ASSUME IInv, ReadInner
    PROVE  Stream!Deliver
<1>1. PICK n \in 1 .. Asked :
          /\ n <= want /\ pos + n <= len
          /\ inner_pos = base + pos /\ inner_pos + n <= inner_end
          /\ pos' = pos + n /\ inner_pos' = inner_pos + n
          /\ ret' = Outcome("bytes", Bytes(inner_pos, n))
  BY ReadInnerFacts
<1>2. /\ pos \in Nat /\ len \in Nat /\ base \in Nat /\ want \in Nat
      /\ inner_end \in Nat /\ len <= MaxOff /\ n \in Nat /\ n > 0
  BY <1>1, Numbers DEF IInv, TypeOK
<1>3. /\ pc = "reading" /\ pc' = "idle" /\ want' = 0
      /\ UNCHANGED <<base, len, inner_end>>
  BY DEF ReadInner, Return
<1>4. Relative(ret)' = Outcome("bytes", Bytes(pos, n))
  <2>1. Relative(ret)' = Relative(ret')
    BY <1>3 DEF Relative
  <2>2. QED
    BY <1>1, <1>2, <2>1, RelativeBytes
<1>5. pos .. pos + n - 1 \subseteq Offset \ Lost
  BY <1>1, <1>2, Numbers DEF Lost
<1>6. n \in 1 .. Smaller(want, len - pos)
  BY <1>1, <1>2 DEF Smaller
<1>7. want > 0 /\ pos < len
  BY <1>1, <1>2
<1>8. UNCHANGED (IF Built THEN Lost ELSE {})
  BY <1>3 DEF Built, Lost
<1>9. \E m \in 1 .. Smaller(want, len - pos) :
         /\ pos .. pos + m - 1 \subseteq Offset \ Lost
         /\ Relative(ret)' = Outcome("bytes", Bytes(pos, m))
         /\ pos' = pos + m
  BY <1>1, <1>4, <1>5, <1>6
<1>10. QED
  BY <1>3, <1>7, <1>8, <1>9
  DEF Built, Stream!Deliver, Stream!Outcome, Outcome, Stream!Smaller, Smaller,
      Stream!Bytes, Bytes, Stream!Offset, Offset

LEMMA ReadRefines ==
    ASSUME WideUsize, IInv, Read
    PROVE  Stream!Next \/ UNCHANGED Stream!vars
<1>0. /\ want \in Nat /\ pos \in Nat /\ len \in Nat /\ base \in Nat
      /\ pc = "idle" => want = 0
      /\ pc \in {"called", "reading"} => want > 0
      /\ UNCHANGED <<base, len, inner_end>>
  BY Numbers DEF IInv, TypeOK, Locals, Read, ReadCall, ReadEmpty, ReadPastEnd,
     SeekInner, ReadInner, ReadNothing, ReadFails, inner, probe
<1>1. UNCHANGED (IF Built THEN Lost ELSE {})
  BY <1>0 DEF Lost, Built, Read, ReadCall, ReadEmpty, ReadPastEnd,
     SeekInner, ReadInner, ReadNothing, ReadFails, Return
<1>2. ASSUME NEW k \in ReadSizes, ReadCall(k)
      PROVE  Stream!Next
  <2>1. Relative(ret)' = Relative(ret)
    BY <1>0, <1>2 DEF ReadCall, Relative
  <2>2. Stream!BeginRead(k)
    BY <1>0, <1>1, <1>2, <2>1 DEF ReadCall, Stream!BeginRead
  <2>3. QED
    BY <2>2 DEF Stream!Next
<1>3. CASE ReadEmpty
  <2>1. Relative(ret)' = Outcome("empty", <<>>)
    BY <1>0, <1>3, ReturnsEmpty DEF ReadEmpty
  <2>2. Stream!ReadEmpty
    BY <1>0, <1>1, <1>3, <2>1
    DEF ReadEmpty, Return, Stream!ReadEmpty, Stream!Outcome, Outcome
  <2>3. QED
    BY <2>2 DEF Stream!Next
<1>4. CASE ReadPastEnd
  <2>1. Relative(ret)' = Outcome("eof", <<>>)
    BY <1>0, <1>4, ReturnsEmpty DEF ReadPastEnd
  <2>2. Stream!AtEnd
    BY <1>0, <1>1, <1>4, <2>1
    DEF ReadPastEnd, PastEnd, Return, Stream!AtEnd, Stream!Outcome, Outcome
  <2>3. QED
    BY <2>2 DEF Stream!Next
<1>5. CASE SeekInner
  <2>1. Relative(ret)' = Relative(ret)
    BY <1>5 DEF SeekInner, Relative
  <2>2. QED
    BY <1>1, <1>5, <2>1 DEF SeekInner, Stream!vars
<1>6. CASE ReadInner
  BY <1>6, ReadDelivers DEF Stream!Next
<1>7. CASE ReadNothing
  <2>1. Relative(ret)' = Outcome("eof", <<>>)
    BY <1>0, <1>7, ReturnsEmpty DEF ReadNothing
  <2>2. Asked > 0
    <3>1. len - pos \in 1 .. UsizeSpan - 1 /\ UsizeSpan \in Nat \ {0}
      BY <1>0, <1>7, Numbers, WindowAssumption
      DEF ReadNothing, IInv, TypeOK, Locals, WideUsize
    <3>2. \A a \in Nat, b \in Nat \ {0} : a < b => a % b = a
      OBVIOUS
    <3>3. remaining = len - pos
      BY <3>1, <3>2 DEF remaining
    <3>4. QED
      BY <1>0, <1>7, <3>1, <3>3 DEF ReadNothing, Asked, Smaller
  <2>3. pos \in Lost
    BY <1>0, <1>7, <2>2, Numbers DEF ReadNothing, Lost, IInv, TypeOK, Locals
  <2>4. Stream!AtEnd
    BY <1>0, <1>1, <1>7, <2>1, <2>3
    DEF ReadNothing, Return, Built, Stream!AtEnd, Stream!Outcome, Outcome
  <2>5. QED
    BY <2>4 DEF Stream!Next
<1>8. CASE ReadFails
  <2>1. PICK e \in IoErrors : Return(Outcome(e, <<>>))
    BY <1>8 DEF ReadFails
  <2>2. Relative(ret)' = Outcome(e, <<>>)
    BY <1>0, <2>1, ReturnsEmpty
  <2>3. Stream!Fail
    BY <1>0, <1>1, <1>8, <2>1, <2>2
    DEF ReadFails, Return, Stream!Fail, Stream!Outcome, Outcome
  <2>4. QED
    BY <2>3 DEF Stream!Next
<1>9. QED
  BY <1>2, <1>3, <1>4, <1>5, <1>6, <1>7, <1>8 DEF Read

LEMMA StepRefines ==
    ASSUME WideUsize, IInv, [Next]_vars
    PROVE  [Stream!Next]_(Stream!vars)
<1>1. CASE New
  BY <1>1, NewRefines
<1>2. CASE Read
  BY <1>2, ReadRefines
<1>3. ASSUME NEW from \in SeekFroms, SeekRefused(from) \/ Seek(from)
      PROVE  Stream!Next
  <2>1. /\ pc = "idle" /\ pc' = "idle" /\ want = 0 /\ want' = 0
        /\ UNCHANGED <<base, len, inner_end>>
    BY <1>3 DEF SeekRefused, Seek, Return, IInv, TypeOK, Locals, inner
  <2>2. UNCHANGED (IF Built THEN Lost ELSE {})
    BY <2>1 DEF Built, Lost
  <2>3. SeekTo(from) = Stream!Resolve(from, pos, len)
    BY DEF SeekTo, Resolve, Stream!Resolve, add_signed, Stream!add_signed,
       Offset, Stream!Offset, None, Stream!None
  <2>4. CASE SeekRefused(from)
    <3>1. Relative(ret)' = Outcome("InvalidInput", <<>>)
      BY <2>1, <2>4, ReturnsEmpty DEF SeekRefused
    <3>2. QED
      BY <2>1, <2>2, <2>3, <2>4, <3>1
      DEF SeekRefused, Stream!Next, Stream!Seek, Stream!Outcome, Outcome,
          Stream!None, None
  <2>5. CASE Seek(from)
    <3>1. Relative(ret)' = Outcome("seeked", <<>>)
      BY <2>1, <2>5, ReturnsEmpty DEF Seek
    <3>2. QED
      BY <2>1, <2>2, <2>3, <2>5, <3>1
      DEF Seek, Stream!Next, Stream!Seek, Stream!Outcome, Outcome,
          Stream!None, None
  <2>6. QED
    BY <1>3, <2>4, <2>5
<1>4. CASE Close
  <2>1. Relative(ret)' = Relative(ret)
    BY <1>4 DEF Close, Relative
  <2>2. UNCHANGED (IF Built THEN Lost ELSE {})
    BY <1>4 DEF Close, Built, Lost, inner
  <2>3. Stream!Close
    BY <1>4, <2>1, <2>2 DEF Close, Stream!Close
  <2>4. QED
    BY <2>3 DEF Stream!Next
<1>5. CASE InnerResized
  <2>1. Relative(ret)' = Relative(ret)
    BY <1>5 DEF InnerResized, Relative
  <2>2. (IF Built THEN Lost ELSE {})' \subseteq 0 .. len - 1
    BY <1>5 DEF InnerResized, Built, Lost
  <2>3. Stream!StoreChanges
    BY <1>5, <2>1, <2>2 DEF InnerResized, Stream!StoreChanges
  <2>4. QED
    BY <2>3 DEF Stream!Next
<1>6. CASE Over \/ UNCHANGED vars
  BY <1>6 DEF Over, vars, Stream!vars, Relative, Lost, Built
<1>7. QED
  BY <1>1, <1>2, <1>3, <1>4, <1>5, <1>6 DEF Next

(* A window is a plain seekable stream over its bytes of the inner source, *)
(* for every window, every length, every failed call and every change of   *)
(* the file, wherever a usize holds what a u64 holds.                      *)
THEOREM Refinement ==
    ASSUME WideUsize
    PROVE  Spec => ImplementsStream
<1>1. IInv /\ [Next]_vars => [Stream!Next]_(Stream!vars)
  BY StepRefines
<1>2. QED
  BY <1>1, StreamInit, Invariance, PTL DEF Spec, ImplementsStream, Stream!Spec
=============================================================================
