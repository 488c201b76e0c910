------------------------ MODULE BufferedSourceProofs ------------------------
(***************************************************************************)
(* Proofs about BufferedSource, for every value of its constants: the      *)
(* inductive invariant and what follows from it, and that it implements    *)
(* SeekableStream whenever the inner source keeps the length build probed. *)
(***************************************************************************)
EXTENDS BufferedSource, TLAPS

-----------------------------------------------------------------------------
(* The knobs.                                                              *)

(* sanitise_lookback: whatever the caller asks for becomes a fraction      *)
(* below 1 with a denominator that can be divided by.                      *)
LEMMA LookbackBelowOne ==
    ASSUME NEW num \in Nat, NEW den \in Nat
    PROVE  /\ sanitise_lookback(num, den)[1] \in Nat
           /\ sanitise_lookback(num, den)[2] \in Nat \ {0}
           /\ sanitise_lookback(num, den)[1] < sanitise_lookback(num, den)[2]
BY DEF sanitise_lookback

(* A proper fraction of a positive number, rounded down, is smaller.       *)
LEMMA FractionSmaller ==
    ASSUME NEW c \in Nat \ {0}, NEW n \in Nat, NEW d \in Nat \ {0}, n < d
    PROVE  (c * n) \div d \in Nat /\ (c * n) \div d < c
<1> DEFINE q == (c * n) \div d
<1>1. c * n \in Nat
  OBVIOUS
<1>2. q \in Nat /\ q * d <= c * n
  BY <1>1, SMT
<1>3. c * n < c * d
  BY SMT
<1>4. q >= c => q * d >= c * d
  BY <1>2, SMT
<1>5. c * d \in Nat /\ q * d \in Nat
  BY <1>2, SMT
<1>6. QED
  BY <1>1, <1>2, <1>3, <1>4, <1>5

(* The clamps of build: blocks and ring are never empty, and a full drain  *)
(* always frees at least one byte.                                         *)
LEMMA KnobFacts ==
    /\ block_size \in Nat \ {0}
    /\ capacity \in Nat \ {0}
    /\ rear \in Nat /\ rear < capacity
<1>1. block_size \in Nat \ {0}
  BY KnobAssumption DEF block_size, Larger
<1>2. capacity \in Nat \ {0}
  BY <1>1, KnobAssumption DEF capacity, Larger
<1>3. /\ lookback[1] \in Nat
      /\ lookback[2] \in Nat \ {0}
      /\ lookback[1] < lookback[2]
  BY LookbackBelowOne, KnobAssumption DEF lookback
<1>4. rear \in Nat /\ rear < capacity
  BY <1>2, <1>3, FractionSmaller DEF rear
<1>5. QED
  BY <1>1, <1>2, <1>4

-----------------------------------------------------------------------------
(* Runs of bytes.                                                          *)

LEMMA BytesType ==
    ASSUME NEW off \in Int, NEW n \in Nat
    PROVE  Bytes(off, n) \in Seq(Int) /\ Len(Bytes(off, n)) = n
BY DEF Bytes

LEMMA BytesInRange ==
    ASSUME NEW off \in Offset, NEW n \in Nat, off + n <= MaxOff
    PROVE  Bytes(off, n) \in Seq(Offset)
BY MaxOffAssumption DEF Bytes, Offset

(* Appending a run to the run that ends where it starts.                   *)
LEMMA BytesAppend ==
    ASSUME NEW off \in Int, NEW m \in Nat, NEW n \in Nat
    PROVE  Bytes(off, m) \o Bytes(off + m, n) = Bytes(off, m + n)
BY DEF Bytes

(* Cutting d bytes off the front of a run.                                 *)
LEMMA BytesDrop ==
    ASSUME NEW off \in Int, NEW m \in Nat, NEW d \in 0 .. m
    PROVE  /\ SubSeq(Bytes(off, m), d + 1, m) = Bytes(off + d, m - d)
BY DEF Bytes

-----------------------------------------------------------------------------
(* A seek resolves to an offset or to None.                                *)
LEMMA ResolveType ==
    ASSUME NEW from \in SeekFrom, NEW cur \in Offset, NEW end \in Offset
    PROVE  Resolve(from, cur, end) \in Offset \union {None}
BY MaxOffAssumption DEF Resolve, SeekFrom, add_signed, Offset, None

-----------------------------------------------------------------------------
(* The inductive invariant holds initially and is kept by every action.    *)

LEMMA InitInv == Init => IInv
<1> SUFFICES ASSUME Init PROVE IInv
  OBVIOUS
<1> USE SourceAssumption, MaxOffAssumption, KnobFacts
<1>1. Len(buf) = 0 /\ Bytes(ring_start, 0) = <<>> /\ buf = <<>>
  BY DEF Init, Bytes
<1>2. pos \in Offset
  BY DEF Init
<1>3. TypeOK
  <2>1. buf \in Seq(Offset) /\ ring_start \in Offset /\ inner_pos \in Offset
    BY <1>1, <1>2 DEF Init
  <2>2. /\ read_result = Outcome("none", <<>>)
        /\ read_result.kind = "none" /\ read_result.data = <<>>
    BY DEF Init, NoOutcome, Outcome
  <2>3. <<>> \in Seq(Offset)
    OBVIOUS
  <2>4. /\ eof \in BOOLEAN /\ worker_dead \in BOOLEAN /\ stop \in BOOLEAN
        /\ err = NoErr /\ want \in Nat
    BY DEF Init
  <2>5. /\ target_pos = None /\ target = None
        /\ wpc \in WorkerPC /\ rpc \in ReaderPC
        /\ to_read \in 0 .. capacity
    BY DEF Init, WorkerPC, ReaderPC
  <2>6. QED
    BY <1>2, <2>1, <2>2, <2>3, <2>4, <2>5 DEF TypeOK
<1>4. RingIsContiguous
  BY <1>1 DEF Init, RingIsContiguous
<1>5. /\ WorkerAligned /\ ReaderInWindow /\ NoMutualWait
      /\ WorkerWaitsOnlyWhenIdle /\ ErrorMeansDead /\ Locals
  BY <1>1, <1>2 DEF Init, WorkerAligned, ReaderInWindow, NoMutualWait,
     WorkerWaitsOnlyWhenIdle, ErrorMeansDead, Locals, RingEnd, Offset, None,
     NoErr
<1>6. QED
  BY <1>3, <1>4, <1>5 DEF IInv

(* Phase 2: whatever the inner source answers, the n bytes it hands over   *)
(* start where the ring ends and fit in the room phase 1 saw.              *)
LEMMA AnswerInv ==
    ASSUME IInv,
           NEW kind \in {"bytes", "eof", "Interrupted"} \union ErrKinds,
           NEW n \in 0 .. to_read,
           kind # "bytes" => n = 0,
           inner_pos + n <= MaxOff,
           InnerAnswers(Outcome(kind, Bytes(inner_pos, n)))
    PROVE  IInv'
<1> DEFINE data == Bytes(inner_pos, n)
<1> USE MaxOffAssumption, SourceAssumption, KnobFacts
<1>1. /\ n \in Nat /\ inner_pos \in Offset
      /\ to_read \in Nat
  BY DEF IInv, TypeOK
<1>2. Len(data) = n /\ data \in Seq(Offset)
  BY <1>1, BytesType, BytesInRange DEF Offset
<1>3. n = 0 => data = <<>>
  BY <1>2
<1>4. /\ read_result' = Outcome(kind, data)
      /\ read_result'.kind = kind /\ read_result'.data = data
  BY DEF InnerAnswers, Outcome
<1>5. inner_pos' = inner_pos + n
  BY <1>2 DEF InnerAnswers, Outcome
<1> HIDE DEF data
<1>6. TypeOK'
  BY <1>1, <1>2, <1>4, <1>5
  DEF IInv, TypeOK, InnerAnswers, ring, reader, WorkerPC, Offset
<1>7. WorkerAligned'
  <2> SUFFICES ASSUME target_pos' = None, ~stop' PROVE WorkerAligned'
    BY DEF WorkerAligned
  <2>1. target_pos = None /\ ~stop /\ wpc = "reading"
    BY DEF InnerAnswers, ring
  <2>2. inner_pos = RingEnd /\ to_read <= capacity - Len(buf)
    BY <2>1 DEF IInv, WorkerAligned, Locals
  <2>3. RingEnd' = RingEnd /\ ring_start' = ring_start /\ wpc' = "deposit"
    BY DEF InnerAnswers, ring, RingEnd
  <2>4. data = Bytes(RingEnd, Len(data))
    BY <1>2, <2>2 DEF data
  <2>5. ring_start \in Nat /\ Len(buf) \in Nat
    BY DEF IInv, TypeOK, Offset
  <2>6. RingEnd + Len(data) <= ring_start + capacity
    BY <1>1, <1>2, <2>2, <2>5 DEF RingEnd
  <2>7. QED
    BY <1>2, <1>4, <1>5, <2>2, <2>3, <2>4, <2>6 DEF WorkerAligned
<1>8. /\ RingIsContiguous' /\ ReaderInWindow' /\ NoMutualWait'
      /\ WorkerWaitsOnlyWhenIdle' /\ ErrorMeansDead'
  BY DEF IInv, RingIsContiguous, ReaderInWindow, NoMutualWait,
     WorkerWaitsOnlyWhenIdle, ErrorMeansDead, InnerAnswers, ring, reader,
     RingEnd, Full
<1>9. Locals'
  BY <1>3, <1>4 DEF IInv, Locals, InnerAnswers, ring, reader, RingEnd
<1>10. QED
  BY <1>6, <1>7, <1>8, <1>9 DEF IInv

(* A call that returns without touching the ring or the cursor.            *)
LEMMA ReturnInv ==
    ASSUME IInv, rpc \in {"idle", "reading", "expired"},
           NEW outcome, Return(outcome), UNCHANGED <<ring, worker, pos>>
    PROVE  IInv'
BY DEF IInv, TypeOK, RingIsContiguous, WorkerAligned, ReaderInWindow,
   NoMutualWait, WorkerWaitsOnlyWhenIdle, ErrorMeansDead, Locals, RingEnd,
   Full, ReaderPC, ring, worker, Return

LEMMA Phase2Inv == IInv /\ Phase2 => IInv'
<1> SUFFICES ASSUME IInv, Phase2 PROVE IInv'
  OBVIOUS
<1>1. to_read \in Nat /\ inner_pos \in Nat /\ inner_pos <= MaxOff
  BY MaxOffAssumption, KnobFacts DEF IInv, TypeOK, Offset
<1>2. Bytes(inner_pos, 0) = <<>>
  BY DEF Bytes
<1>3. ASSUME NEW end \in InnerEnds,
             NEW n \in 1 .. Smaller(to_read, end - inner_pos),
             InnerAnswers(Outcome("bytes", Bytes(inner_pos, n)))
      PROVE  IInv'
  <2>1. end \in Int /\ end <= MaxOff
    BY SourceAssumption, MaxOffAssumption DEF Offset
  <2>2. n \in 0 .. to_read /\ inner_pos + n <= MaxOff
    BY <1>1, <2>1, MaxOffAssumption DEF Smaller
  <2>3. QED
    BY <1>3, <2>2, AnswerInv
<1>4. ASSUME NEW kind \in {"eof", "Interrupted"} \union ErrKinds,
             InnerAnswers(Outcome(kind, <<>>))
      PROVE  IInv'
  <2>1. 0 \in 0 .. to_read /\ inner_pos + 0 <= MaxOff
    BY <1>1
  <2>2. QED
    BY <1>2, <1>4, <2>1, AnswerInv
<1>5. QED
  BY <1>3, <1>4 DEF Phase2, InnerReads, InnerFails, InnerInterrupted

(* Phase 3 with bytes the reader still wants: they extend the run the ring *)
(* holds, and there is room for them.                                      *)
LEMMA DepositBytesInv == IInv /\ DepositBytes => IInv'
<1> SUFFICES ASSUME IInv, DepositBytes PROVE IInv'
  OBVIOUS
<1> USE MaxOffAssumption, SourceAssumption, KnobFacts
<1> DEFINE data == read_result.data
<1>1. target_pos = None /\ ~stop /\ wpc = "deposit"
  BY DEF DepositBytes, Wanted
<1>2. /\ ring_start \in Nat /\ inner_pos \in Offset
      /\ buf \in Seq(Offset) /\ data \in Seq(Offset)
      /\ Len(buf) \in Nat /\ Len(data) \in Nat
  BY DEF IInv, TypeOK, Offset
<1>3. /\ data = Bytes(RingEnd, Len(data))
      /\ inner_pos = RingEnd + Len(data)
      /\ RingEnd + Len(data) <= ring_start + capacity
  BY <1>1 DEF IInv, WorkerAligned
<1>4. buf' = buf \o data /\ buf' \in Seq(Offset)
  BY <1>2 DEF DepositBytes
<1>5. Len(buf') = Len(buf) + Len(data)
  BY <1>2, <1>4
<1>6. ring_start' = ring_start /\ inner_pos' = inner_pos
  BY DEF DepositBytes, BackToPhase1
<1>7. /\ RingEnd = ring_start + Len(buf)
      /\ RingEnd' = ring_start' + Len(buf')
  BY DEF RingEnd
<1> HIDE DEF data
<1>8. RingEnd' = inner_pos /\ Len(buf') <= capacity
  BY <1>2, <1>3, <1>5, <1>6, <1>7
<1>9. TypeOK'
  <2>1. read_result' = Outcome("none", <<>>)
        /\ read_result'.kind = "none" /\ read_result'.data = <<>>
    BY DEF DepositBytes, BackToPhase1, NoOutcome, Outcome
  <2>2. <<>> \in Seq(Offset)
    OBVIOUS
  <2>3. QED
    BY <1>4, <2>1, <2>2 DEF IInv, TypeOK, DepositBytes, BackToPhase1,
       NotifyReader, WorkerPC, ReaderPC
<1>10. RingIsContiguous'
  <2>1. buf = Bytes(ring_start, Len(buf))
    BY DEF IInv, RingIsContiguous
  <2>2. /\ buf' = Bytes(ring_start, Len(buf)) \o Bytes(RingEnd, Len(data))
        /\ RingEnd = ring_start + Len(buf)
    BY <1>3, <1>4, <1>7, <2>1
  <2>3. ring_start \in Int /\ Len(buf) \in Nat /\ Len(data) \in Nat
    BY <1>2
  <2>4. Bytes(ring_start, Len(buf)) \o Bytes(ring_start + Len(buf), Len(data))
          = Bytes(ring_start, Len(buf) + Len(data))
    BY <2>3, BytesAppend, Zenon
  <2>5. QED
    BY <1>5, <1>6, <1>8, <2>2, <2>4, Zenon DEF RingIsContiguous
<1>11. WorkerAligned'
  BY <1>6, <1>8 DEF WorkerAligned, DepositBytes, BackToPhase1
<1>12. ReaderInWindow'
  <2>1. pos' = pos /\ target_pos' = None
    BY <1>1 DEF DepositBytes
  <2>2. ring_start <= pos /\ pos <= RingEnd
    BY DEF IInv, ReaderInWindow
  <2>3. pos \in Nat
    BY DEF IInv, TypeOK, Offset
  <2>4. QED
    BY <1>2, <1>5, <1>6, <1>7, <2>1, <2>2, <2>3 DEF ReaderInWindow
<1>13. NoMutualWait' /\ WorkerWaitsOnlyWhenIdle' /\ ErrorMeansDead'
  BY DEF IInv, NoMutualWait, WorkerWaitsOnlyWhenIdle, ErrorMeansDead,
     DepositBytes, BackToPhase1, NotifyReader, Wanted
<1>14. Locals'
  BY <1>2, <1>8 DEF IInv, Locals, DepositBytes, BackToPhase1, NotifyReader,
     Wanted, Offset
<1>15. QED
  BY <1>9, <1>10, <1>11, <1>12, <1>13, <1>14 DEF IInv

LEMMA FillFits ==
    ASSUME IInv
    PROVE  FillSize \in 0 .. capacity /\ FillSize <= capacity - Len(buf)
<1>1. Len(buf) \in Nat /\ Len(buf) <= capacity
  BY DEF IInv, TypeOK, RingIsContiguous
<1>2. QED
  BY <1>1, KnobFacts DEF FillSize, Smaller

(* The worker's steps.                                                     *)
LEMMA WorkerInv == IInv /\ WorkerStep => IInv'
<1> SUFFICES ASSUME IInv, WorkerStep PROVE IInv'
  OBVIOUS
<1>1. CASE Phase2
  BY <1>1, Phase2Inv
<1>2. CASE DepositBytes
  BY <1>2, DepositBytesInv
<1> USE MaxOffAssumption, SourceAssumption, KnobFacts
<1> USE DEF IInv, TypeOK, RingIsContiguous, WorkerAligned, ReaderInWindow,
        NoMutualWait, WorkerWaitsOnlyWhenIdle, ErrorMeansDead, Locals,
        RingEnd, Full, WorkerPC, ReaderPC, ring, worker, reader, Outcome,
        NoOutcome, None, Offset, NoErr
<1>3. CASE WorkerStop
  BY <1>3 DEF WorkerStop
<1>4. CASE TakeTarget
  BY <1>4 DEF TakeTarget, NotifyReader, PastEnd
<1>5. CASE SeekInner
  BY <1>5 DEF SeekInner
<1>6. CASE SeekInnerFails
  BY <1>6 DEF SeekInnerFails, Die, NotifyReader
<1>7. CASE Park
  BY <1>7 DEF Park, NothingAsked
<1>8. CASE BeginFill
  <2>1. /\ FillSize \in 0 .. capacity
        /\ FillSize <= capacity - Len(buf)
    BY FillFits
  <2>2. QED
    BY <1>8, <2>1 DEF BeginFill, NothingAsked
<1>9. CASE Discard
  BY <1>9 DEF Discard, BackToPhase1
<1>10. CASE DepositEof
  BY <1>10 DEF DepositEof, Wanted, BackToPhase1, NotifyReader
<1>11. CASE RetryInterrupted
  BY <1>11 DEF RetryInterrupted, Wanted, BackToPhase1
<1>12. CASE DepositError
  BY <1>12 DEF DepositError, Wanted, Die, NotifyReader
<1>13. CASE WorkerWakesSpuriously
  BY <1>13 DEF WorkerWakesSpuriously
<1>14. QED
  BY <1>1, <1>2, <1>3, <1>4, <1>5, <1>6, <1>7, <1>8, <1>9, <1>10,
     <1>11, <1>12, <1>13
     DEF WorkerStep, Phase1, Phase3

-----------------------------------------------------------------------------
(* The reader's steps.                                                     *)

(* Draining n bytes leaves a run that ends where it did, so the worker's   *)
(* block still fits behind it.                                             *)
LEMMA DrainInv ==
    ASSUME IInv, NEW n \in 0 .. Len(buf), Drain(n), NotifyWorker,
           UNCHANGED <<target_pos, stop, target, to_read, inner_pos,
                       read_result>>
    PROVE  /\ buf' \in Seq(Offset) /\ ring_start' \in Offset
           /\ Len(buf') = Len(buf) - n /\ RingEnd' = RingEnd
           /\ RingIsContiguous' /\ WorkerAligned'
           /\ WorkerWaitsOnlyWhenIdle' /\ wpc' \in WorkerPC
<1> USE MaxOffAssumption, KnobFacts
<1>1. /\ buf \in Seq(Offset) /\ ring_start \in Nat /\ Len(buf) \in Nat
      /\ n \in Nat /\ n <= Len(buf) /\ Len(buf) <= capacity
  BY DEF IInv, TypeOK, RingIsContiguous, Offset
<1>2. /\ RingEnd = ring_start + Len(buf) /\ RingEnd' = ring_start' + Len(buf')
      /\ RingEnd <= MaxOff
  BY DEF IInv, Locals, RingEnd
<1>3. buf' = SubSeq(buf, n + 1, Len(buf)) /\ ring_start' = ring_start + n
  BY DEF Drain
<1>4. buf' \in Seq(Offset) /\ Len(buf') = Len(buf) - n
  <2>1. \A i \in n + 1 .. Len(buf) : buf[i] \in Offset
    BY <1>1
  <2>2. SubSeq(buf, n + 1, Len(buf)) \in Seq(Offset)
    BY <1>1, <2>1
  <2>3. Len(SubSeq(buf, n + 1, Len(buf))) = Len(buf) - n
    BY <1>1
  <2>4. QED
    BY <1>3, <2>2, <2>3
<1>5. RingEnd' = RingEnd /\ ring_start' \in Offset
  <2>1. RingEnd' = (ring_start + n) + (Len(buf) - n)
    BY <1>2, <1>3, <1>4
  <2>2. RingEnd' = RingEnd
    BY <1>1, <1>2, <2>1
  <2>3. ring_start + n \in 0 .. MaxOff
    BY <1>1, <1>2
  <2>4. QED
    BY <1>3, <2>2, <2>3 DEF Offset
<1>6. RingIsContiguous'
  <2>1. buf = Bytes(ring_start, Len(buf))
    BY DEF IInv, RingIsContiguous
  <2>2. ring_start \in Int /\ Len(buf) \in Nat /\ n \in 0 .. Len(buf)
    BY <1>1
  <2>3. SubSeq(Bytes(ring_start, Len(buf)), n + 1, Len(buf))
          = Bytes(ring_start + n, Len(buf) - n)
    BY <2>2, BytesDrop, Zenon
  <2>4. buf' = Bytes(ring_start', Len(buf'))
    BY <1>3, <1>4, <2>1, <2>3, Zenon
  <2>5. Len(buf') <= capacity
    BY <1>1, <1>4
  <2>6. QED
    BY <2>4, <2>5 DEF RingIsContiguous
<1>7. WorkerAligned'
  <2> SUFFICES ASSUME target_pos = None, ~stop PROVE WorkerAligned'
    BY DEF WorkerAligned
  <2>1. wpc' \in {"phase1", "parked", "reading"} =>
            wpc \in {"phase1", "parked", "reading"}
    BY DEF NotifyWorker
  <2>2. wpc' = "seeking" => wpc = "seeking"
    BY DEF NotifyWorker
  <2>3. wpc' = "deposit" => wpc = "deposit"
    BY DEF NotifyWorker
  <2>4. /\ wpc \in {"phase1", "parked", "reading"} => inner_pos = RingEnd
        /\ wpc = "seeking" => target = RingEnd
    BY DEF IInv, WorkerAligned
  <2>5. wpc = "deposit" =>
            /\ read_result.data = Bytes(RingEnd, Len(read_result.data))
            /\ inner_pos = RingEnd + Len(read_result.data)
            /\ RingEnd + Len(read_result.data) <= ring_start + capacity
    BY DEF IInv, WorkerAligned
  <2>6. RingEnd + Len(read_result.data) <= ring_start + capacity =>
            RingEnd + Len(read_result.data) <= ring_start' + capacity
    <3> DEFINE l == Len(read_result.data)
    <3>1. l \in Nat
      BY DEF IInv, TypeOK
    <3> HIDE DEF l
    <3>2. RingEnd + l <= ring_start + capacity =>
              RingEnd + l <= ring_start' + capacity
      BY <3>1, <1>1, <1>2, <1>3
    <3>3. QED
      BY <3>2 DEF l
  <2>7. QED
    BY <1>5, <2>1, <2>2, <2>3, <2>4, <2>5, <2>6 DEF WorkerAligned
<1>8. WorkerWaitsOnlyWhenIdle' /\ wpc' \in WorkerPC
  BY DEF IInv, TypeOK, WorkerWaitsOnlyWhenIdle, NotifyWorker, WorkerPC
<1>9. QED
  BY <1>4, <1>5, <1>6, <1>7, <1>8

(* A hit moves the cursor within the run and never drains past it.         *)
LEMMA ReadHitInv == IInv /\ ReadHit => IInv'
<1> SUFFICES ASSUME IInv, ReadHit PROVE IInv'
  OBVIOUS
<1> USE MaxOffAssumption, KnobFacts
<1> DEFINE n      == Smaller(Len(buf) - rel, want)
           excess == Excess(rel + n)
<1>1. /\ pos \in Nat /\ ring_start \in Nat /\ Len(buf) \in Nat /\ want \in Nat
      /\ rel \in Nat /\ rel < Len(buf)
      /\ RingEnd = ring_start + Len(buf) /\ RingEnd <= MaxOff
      /\ rel = pos - ring_start
  BY DEF IInv, TypeOK, Offset, ReadHit, Hit, rel, RingEnd, Locals
<1>2. n \in Nat /\ rel + n <= Len(buf)
  BY <1>1 DEF Smaller
<1>3. rpc \in {"reading", "expired"} /\ rpc' = "idle" /\ want' = 0
  BY DEF ReadHit, AtLoopTop, Return
<1>4. pos' = pos + n
  BY DEF ReadHit
<1>5. UNCHANGED <<eof, err, worker_dead, target_pos, stop,
                  target, to_read, inner_pos, read_result>>
  BY DEF ReadHit
<1> HIDE DEF n
<1>6. pos' \in Offset /\ ring_start <= pos' /\ pos' <= RingEnd
  BY <1>1, <1>2, <1>4 DEF Offset
<1>7. target_pos = None
  <2>1. buf # <<>>
    BY <1>1
  <2>2. QED
    BY <2>1 DEF IInv, ReaderInWindow
<1>8. excess = rel + n - rear /\ excess \in Int
  BY <1>1, <1>2 DEF Excess
<1>9. CASE excess > 0
  <2>1. Drain(excess) /\ NotifyWorker
    BY <1>9 DEF ReadHit, n
  <2>2. excess \in 0 .. Len(buf) /\ ring_start + excess <= pos'
    BY <1>1, <1>2, <1>4, <1>8, <1>9
  <2> HIDE DEF excess
  <2>3. /\ buf' \in Seq(Offset) /\ ring_start' \in Offset
        /\ Len(buf') = Len(buf) - excess /\ RingEnd' = RingEnd
        /\ RingIsContiguous' /\ WorkerAligned'
        /\ WorkerWaitsOnlyWhenIdle' /\ wpc' \in WorkerPC
    BY <2>1, <2>2, <1>5, DrainInv
  <2>4. TypeOK'
    BY <1>3, <1>5, <1>6, <2>3 DEF IInv, TypeOK, ReaderPC
  <2>5. ReaderInWindow'
    <3>1. ring_start' = ring_start + excess
      BY <2>1 DEF Drain
    <3>2. QED
      BY <1>5, <1>6, <1>7, <2>2, <2>3, <3>1 DEF ReaderInWindow
  <2>6. NoMutualWait' /\ ErrorMeansDead'
    BY <1>3, <1>5, <2>1 DEF IInv, NoMutualWait, ErrorMeansDead, NotifyWorker
  <2>7. Locals'
    <3>1. to_read <= capacity - Len(buf) => to_read <= capacity - Len(buf')
      BY <1>1, <2>2, <2>3 DEF IInv, TypeOK
    <3>2. QED
      BY <1>3, <1>5, <2>1, <2>3, <3>1 DEF IInv, Locals, NotifyWorker
  <2>8. QED
    BY <2>3, <2>4, <2>5, <2>6, <2>7 DEF IInv
<1>10. CASE ~(excess > 0)
  <2>1. UNCHANGED <<buf, ring_start, wpc>>
    BY <1>10 DEF ReadHit, n
  <2>2. RingEnd' = RingEnd
    BY <2>1 DEF RingEnd
  <2>3. TypeOK'
    BY <1>3, <1>5, <1>6, <2>1 DEF IInv, TypeOK, ReaderPC
  <2>4. ReaderInWindow'
    BY <1>5, <1>6, <1>7, <2>1, <2>2 DEF ReaderInWindow
  <2>5. /\ RingIsContiguous' /\ WorkerAligned' /\ NoMutualWait'
        /\ WorkerWaitsOnlyWhenIdle' /\ ErrorMeansDead' /\ Locals'
    BY <1>3, <1>5, <2>1, <2>2
    DEF IInv, RingIsContiguous, WorkerAligned, NoMutualWait,
        WorkerWaitsOnlyWhenIdle, ErrorMeansDead, Locals, Full
  <2>6. QED
    BY <2>3, <2>4, <2>5 DEF IInv
<1>11. QED
  BY <1>9, <1>10

(* A miss stands at the ring's end.  Before the reader sleeps there is     *)
(* room in the ring and the worker is on its feet.                         *)
LEMMA ReadWaitInv == IInv /\ ReadWait => IInv'
<1> SUFFICES ASSUME IInv, ReadWait PROVE IInv'
  OBVIOUS
<1> USE MaxOffAssumption, KnobFacts
<1>1. /\ pos \in Nat /\ ring_start \in Nat /\ Len(buf) \in Nat
      /\ RingEnd = ring_start + Len(buf)
      /\ Len(buf) <= capacity
  BY DEF IInv, TypeOK, Offset, RingEnd, RingIsContiguous
<1>2. pos = RingEnd
  BY <1>1 DEF ReadWait, Miss, rel, IInv, ReaderInWindow
<1>3. /\ rpc = "reading" /\ rpc' = "asleep"
      /\ err = NoErr /\ ~eof /\ ~PastEnd(pos)
  BY DEF ReadWait, AtLoopTop
<1>4. UNCHANGED <<eof, err, worker_dead, target_pos, stop,
                  target, to_read, inner_pos, read_result, pos, want, ret>>
  BY DEF ReadWait
<1>5. wpc # "exited" /\ ~worker_dead
  BY <1>3 DEF IInv, ErrorMeansDead, Locals
<1>6. CASE Full
  <2> DEFINE d == Len(buf) - rear
  <2>1. Drain(d) /\ NotifyWorker
    BY <1>6 DEF ReadWait, MakeRoom
  <2>2. d \in 0 .. Len(buf) /\ 0 < d
    BY <1>1, <1>6 DEF Full
  <2>3. target_pos = None
    <3>1. buf # <<>>
      BY <1>1, <2>2
    <3>2. QED
      BY <3>1 DEF IInv, ReaderInWindow
  <2> HIDE DEF d
  <2>4. /\ buf' \in Seq(Offset) /\ ring_start' \in Offset
        /\ Len(buf') = Len(buf) - d /\ RingEnd' = RingEnd
        /\ RingIsContiguous' /\ WorkerAligned'
        /\ WorkerWaitsOnlyWhenIdle' /\ wpc' \in WorkerPC
    BY <2>1, <2>2, <1>4, DrainInv
  <2>5. TypeOK'
    BY <1>3, <1>4, <2>4 DEF IInv, TypeOK, ReaderPC
  <2>6. ReaderInWindow'
    <3>1. ring_start' = ring_start + d
      BY <2>1 DEF Drain
    <3>2. QED
      BY <1>1, <1>2, <1>4, <2>2, <2>3, <2>4, <3>1 DEF ReaderInWindow
  <2>7. NoMutualWait'
    <3>1. Len(buf') # capacity
      BY <1>1, <2>2, <2>4
    <3>2. wpc' \notin {"parked", "exited"}
      BY <1>5, <2>1 DEF NotifyWorker
    <3>3. QED
      BY <1>2, <1>3, <1>4, <1>5, <2>4, <3>1, <3>2
      DEF NoMutualWait, Full, PastEnd
  <2>8. ErrorMeansDead'
    BY <1>4, <1>5, <2>1 DEF IInv, ErrorMeansDead, NotifyWorker
  <2>9. Locals'
    <3>1. to_read <= capacity - Len(buf) => to_read <= capacity - Len(buf')
      BY <1>1, <2>2, <2>4 DEF IInv, TypeOK
    <3>2. QED
      BY <1>3, <1>4, <2>1, <2>4, <3>1 DEF IInv, Locals, NotifyWorker
  <2>10. QED
    BY <2>4, <2>5, <2>6, <2>7, <2>8, <2>9 DEF IInv
<1>7. CASE ~Full
  <2>1. UNCHANGED <<buf, ring_start, wpc>>
    BY <1>7 DEF ReadWait, MakeRoom
  <2>2. RingEnd' = RingEnd
    BY <2>1 DEF RingEnd
  <2>3. wpc # "parked"
    BY <1>3, <1>7 DEF IInv, WorkerWaitsOnlyWhenIdle
  <2>4. TypeOK'
    BY <1>3, <1>4, <2>1 DEF IInv, TypeOK, ReaderPC
  <2>5. NoMutualWait'
    BY <1>2, <1>3, <1>4, <1>5, <1>7, <2>1, <2>2, <2>3
    DEF NoMutualWait, Full, PastEnd
  <2>6. /\ RingIsContiguous' /\ WorkerAligned' /\ ReaderInWindow'
        /\ WorkerWaitsOnlyWhenIdle' /\ ErrorMeansDead' /\ Locals'
    BY <1>3, <1>4, <2>1, <2>2
    DEF IInv, RingIsContiguous, WorkerAligned, ReaderInWindow,
        WorkerWaitsOnlyWhenIdle, ErrorMeansDead, Locals, Full
  <2>7. QED
    BY <2>4, <2>5, <2>6 DEF IInv
<1>8. QED
  BY <1>6, <1>7

(* Seeks: inside the window only the cursor moves; a restart empties the   *)
(* ring at its target and leaves the worker to be told.                    *)
LEMMA SeekInv ==
    ASSUME IInv, NEW from \in SeekFroms,
           SeekRefused(from) \/ SeekInside(from) \/ SeekRestart(from)
    PROVE  IInv'
<1> USE MaxOffAssumption, SourceAssumption, EnvironmentAssumption, KnobFacts
<1>1. SeekTo(from) \in Offset \union {None}
  BY ResolveType DEF IInv, TypeOK, SeekTo
<1>2. CASE SeekRefused(from)
  BY <1>2, ReturnInv DEF SeekRefused
<1>3. CASE SeekInside(from)
  <2>1. pos' \in Offset /\ ring_start <= pos' /\ pos' <= RingEnd
    BY <1>1, <1>3 DEF SeekInside, InWindow
  <2>2. QED
    BY <1>3, <2>1
    DEF SeekInside, Return, IInv, TypeOK, RingIsContiguous, WorkerAligned,
        ReaderInWindow, NoMutualWait, WorkerWaitsOnlyWhenIdle,
        ErrorMeansDead, Locals, RingEnd, Full, ReaderPC, ring, worker
<1>4. CASE SeekRestart(from)
  <2> DEFINE new == SeekTo(from)
  <2>1. new \in Offset
    BY <1>1, <1>4 DEF SeekRestart
  <2> HIDE DEF new
  <2>2. /\ target_pos' = new /\ ring_start' = new /\ pos' = new
        /\ buf' = <<>> /\ eof' = PastEnd(new) /\ err' = ErrAfterSeek
        /\ NotifyWorker /\ rpc = "idle" /\ rpc' = "idle" /\ want' = 0
        /\ UNCHANGED <<worker_dead, stop, target, to_read, inner_pos,
                       read_result>>
    BY <1>4 DEF SeekRestart, RestartRing, Return, new
  <2>3. Len(buf') = 0 /\ RingEnd' = new /\ Bytes(new, 0) = <<>>
        /\ buf' \in Seq(Offset)
    BY <2>1, <2>2 DEF RingEnd, Bytes, Offset
  <2>4. TypeOK'
    BY <2>1, <2>2, <2>3
    DEF IInv, TypeOK, ErrAfterSeek, PastEnd, NotifyWorker, WorkerPC, ReaderPC
  <2>5. RingIsContiguous' /\ ReaderInWindow'
    BY <2>1, <2>2, <2>3 DEF RingIsContiguous, ReaderInWindow, Offset
  <2>6. target_pos' # None
    BY <2>1, <2>2 DEF Offset, None
  <2>7. /\ WorkerAligned' /\ NoMutualWait' /\ WorkerWaitsOnlyWhenIdle'
        /\ ErrorMeansDead'
    BY <2>2, <2>6
    DEF IInv, WorkerAligned, NoMutualWait, WorkerWaitsOnlyWhenIdle,
        ErrorMeansDead, ErrAfterSeek, NotifyWorker
  <2>8. Locals'
    BY <2>1, <2>2, <2>3, <2>6 DEF IInv, Locals, NotifyWorker, Offset
  <2>9. QED
    BY <2>4, <2>5, <2>7, <2>8 DEF IInv
<1>5. QED
  BY <1>2, <1>3, <1>4

LEMMA ReaderInv == IInv /\ ReaderStep => IInv'
<1> SUFFICES ASSUME IInv, ReaderStep PROVE IInv'
  OBVIOUS
<1>1. CASE ReadEmpty
  BY <1>1, ReturnInv DEF ReadEmpty
<1>2. CASE ReadHit
  BY <1>2, ReadHitInv
<1>3. CASE ReadError
  BY <1>3, ReturnInv DEF ReadError, AtLoopTop
<1>4. CASE ReadEof
  BY <1>4, ReturnInv DEF ReadEof, AtLoopTop
<1>5. CASE ReadWait
  BY <1>5, ReadWaitInv
<1>6. CASE ReadTimedOut
  BY <1>6, ReturnInv DEF ReadTimedOut
<1>7. ASSUME NEW from \in SeekFroms,
             SeekRefused(from) \/ SeekInside(from) \/ SeekRestart(from)
      PROVE  IInv'
  BY <1>7, SeekInv
<1> USE MaxOffAssumption, EnvironmentAssumption
<1> USE DEF IInv, TypeOK, RingIsContiguous, WorkerAligned, ReaderInWindow,
        NoMutualWait, WorkerWaitsOnlyWhenIdle, ErrorMeansDead, Locals,
        RingEnd, Full, WorkerPC, ReaderPC, ring, worker
<1>8. ASSUME NEW k \in ReadSizes, ReadCall(k)
      PROVE  IInv'
  BY <1>8 DEF ReadCall
<1>9. CASE WaitExpires
  BY <1>9 DEF WaitExpires
<1>10. CASE ReaderWakesSpuriously
  BY <1>10 DEF ReaderWakesSpuriously
<1>11. CASE DropStop
  BY <1>11 DEF DropStop
<1>12. CASE DropNotify
  BY <1>12 DEF DropNotify, NotifyWorker
<1>13. CASE DropJoin
  BY <1>13 DEF DropJoin
<1>14. QED
  BY <1>1, <1>2, <1>3, <1>4, <1>5, <1>6, <1>7, <1>8, <1>9, <1>10,
     <1>11, <1>12, <1>13
     DEF ReaderStep, ReaderCall, ReadStep, DropStep

LEMMA StepInv == IInv /\ [Next]_vars => IInv'
<1> SUFFICES ASSUME IInv, [Next]_vars PROVE IInv'
  OBVIOUS
<1>1. CASE UNCHANGED vars
  BY <1>1 DEF vars, IInv, TypeOK, RingIsContiguous, WorkerAligned,
     ReaderInWindow, NoMutualWait, WorkerWaitsOnlyWhenIdle, ErrorMeansDead,
     Locals, RingEnd, Full
<1>2. QED
  BY <1>1, WorkerInv, ReaderInv DEF Next, Dropped

THEOREM Invariance == Spec => []IInv
BY InitInv, StepInv, PTL DEF Spec

-----------------------------------------------------------------------------
(* What the invariant gives.                                               *)

(* The state keeps its types; offsets never leave u64.                     *)
THEOREM TypeCorrect == Spec => []TypeOK
BY Invariance, PTL DEF IInv

(* The ring is at every moment a contiguous run of the inner source no     *)
(* longer than capacity.                                                   *)
THEOREM RingHoldsTheSource == Spec => []RingIsContiguous
BY Invariance, PTL DEF IInv

(* The block the worker reads without the mutex continues the ring, or     *)
(* will be discarded, whatever the reader does meanwhile.                  *)
THEOREM NextBlockContinues == Spec => []WorkerAligned
BY Invariance, PTL DEF IInv

(* The reader's cursor is always in the window: read's "reader behind ring *)
(* start" error cannot happen.                                             *)
THEOREM CursorInWindow == Spec => []ReaderInWindow
BY Invariance, PTL DEF IInv

(* Reader and worker never sleep on each other, for any ring size, block   *)
(* size and lookback fraction the caller asks for.                         *)
THEOREM NeverBothWaiting == Spec => []NoMutualWait
BY Invariance, PTL DEF IInv

(* The worker sleeps only when there is nothing for it to do.              *)
THEOREM WorkerNeverIdlesOnWork == Spec => []WorkerWaitsOnlyWhenIdle
BY Invariance, PTL DEF IInv

(* An error is stored exactly when the worker has died of it, and its      *)
(* thread ends only so or because it was told to stop.                     *)
THEOREM ErrorsAreFatal == Spec => []ErrorMeansDead
BY Invariance, PTL DEF IInv

-----------------------------------------------------------------------------
(* What a step may never do.                                               *)

(* A stored error survives every step of either thread.                    *)
THEOREM ErrorsStick == Spec => StickyError
<1>1. IInv /\ [Next]_vars => [err # NoErr => err' = err]_vars
  <2> SUFFICES ASSUME IInv, Next, err # NoErr PROVE err' = err
    OBVIOUS
  <2>1. worker_dead /\ wpc = "exited"
    BY DEF IInv, ErrorMeansDead
  <2>2. ~WorkerStep
    BY <2>1
    DEF WorkerStep, Phase1, Phase2, Phase3, WorkerStop, TakeTarget, Park,
        BeginFill, NothingAsked, SeekInner, SeekInnerFails, InnerReads,
        InnerFails, InnerInterrupted, InnerAnswers, Discard, DepositBytes,
        DepositEof, RetryInterrupted, DepositError, Wanted,
        WorkerWakesSpuriously
  <2>3. CASE ReaderStep
    BY <2>1, <2>3
    DEF ReaderStep, ReaderCall, ReadStep, DropStep, ReadCall, ReadEmpty,
        ReadHit, ReadError, ReadEof, ReadWait, WaitExpires, ReadTimedOut,
        ReaderWakesSpuriously, SeekRefused, SeekInside, SeekRestart,
        ErrAfterSeek, DropStop, DropNotify, DropJoin, ring
  <2>4. CASE Dropped
    BY <2>4 DEF Dropped, vars
  <2>5. QED
    BY <2>2, <2>3, <2>4 DEF Next
<1>2. QED
  BY <1>1, Invariance, PTL DEF Spec, StickyError

(* A read from a dead worker's ring returns bytes or the stored error.     *)
THEOREM DeadWorkerIsReported == Spec => DeadReadsSayWhy
<1>1. IInv /\ [Next]_vars =>
        [worker_dead /\ ReadReturnsNow => ret'.kind \in {"bytes", err}]_vars
  <2> SUFFICES ASSUME IInv, Next, worker_dead, want # 0, want' = 0
               PROVE  ret'.kind \in {"bytes", err}
    BY DEF ReadReturnsNow
  <2>1. err # NoErr /\ wpc = "exited"
    BY DEF IInv, ErrorMeansDead
  <2>2. rpc \in {"reading", "asleep", "expired"}
    BY DEF IInv, Locals, TypeOK
  <2>3. ~WorkerStep /\ ~Dropped
    BY <2>1, <2>2
    DEF WorkerStep, Phase1, Phase2, Phase3, WorkerStop, TakeTarget, Park,
        BeginFill, NothingAsked, SeekInner, SeekInnerFails, InnerReads,
        InnerFails, InnerInterrupted, InnerAnswers, Discard, DepositBytes,
        DepositEof, RetryInterrupted, DepositError, Wanted,
        WorkerWakesSpuriously, Dropped
  <2>4. ReadHit \/ ReadError
    BY <2>1, <2>2, <2>3
    DEF Next, ReaderStep, ReaderCall, ReadStep, DropStep, ReadCall,
        ReadEmpty, ReadEof, ReadWait, WaitExpires, ReadTimedOut,
        ReaderWakesSpuriously, SeekRefused, SeekInside, SeekRestart,
        DropStop, DropNotify, DropJoin
  <2>5. CASE ReadHit
    <3>1. \E data : ret' = Outcome("bytes", data)
      BY <2>5 DEF ReadHit, Return
    <3>2. QED
      BY <3>1 DEF Outcome
  <2>6. CASE ReadError
    <3>1. ret' = Outcome(err, <<>>)
      BY <2>6 DEF ReadError, Return
    <3>2. QED
      BY <3>1 DEF Outcome
  <2>7. QED
    BY <2>4, <2>5, <2>6
<1>2. QED
  BY <1>1, Invariance, PTL DEF Spec, DeadReadsSayWhy

(* Draining keeps the lookback behind the cursor.                          *)
THEOREM LookbackSurvivesReads == Spec => LookbackKept
<1> USE KnobFacts
<1>1. IInv /\ [Next]_vars =>
        [ring_start' # ring_start /\ target_pos' = target_pos
            => pos' - ring_start' >= rear]_vars
  <2> SUFFICES ASSUME IInv, Next,
                      ring_start' # ring_start, target_pos' = target_pos
               PROVE  pos' - ring_start' >= rear
    OBVIOUS
  <2>1. /\ pos \in Nat /\ ring_start \in Nat /\ Len(buf) \in Nat
        /\ want \in Nat /\ RingEnd = ring_start + Len(buf)
        /\ ring_start <= pos /\ pos <= RingEnd
    BY MaxOffAssumption
    DEF IInv, TypeOK, Offset, RingEnd, ReaderInWindow
  <2>2. CASE ReadHit
    <3> DEFINE n      == Smaller(Len(buf) - rel, want)
               excess == Excess(rel + n)
    <3>1. n \in Int /\ rel \in Int /\ rel = pos - ring_start
      BY <2>1 DEF Smaller, rel
    <3>2. pos' = pos + n
      BY <2>2 DEF ReadHit
    <3>3. Drain(excess)
      BY <2>2 DEF ReadHit
    <3> HIDE DEF n
    <3>4. excess = rel + n - rear
      BY <3>1 DEF Excess
    <3> HIDE DEF excess
    <3>5. ring_start' = ring_start + excess
      BY <3>3 DEF Drain
    <3>6. QED
      BY <2>1, <3>1, <3>2, <3>4, <3>5
  <2>3. CASE ReadWait
    <3>1. pos = RingEnd /\ pos' = pos
      BY <2>1, <2>3 DEF ReadWait, Miss, rel
    <3>2. ring_start' = ring_start + (Len(buf) - rear)
      BY <2>3 DEF ReadWait, MakeRoom, Drain
    <3>3. QED
      BY <2>1, <3>1, <3>2
  <2>4. ASSUME NEW from \in SeekFroms, SeekRestart(from)
        PROVE  FALSE
    <3>1. target_pos = SeekTo(from) /\ target_pos # None
      BY <2>4 DEF SeekRestart
    <3>2. target_pos = ring_start
      BY <3>1 DEF IInv, ReaderInWindow
    <3>3. QED
      BY <2>1, <2>4, <3>1, <3>2 DEF SeekRestart, RestartRing
  <2>5. ~TakeTarget
    BY DEF TakeTarget
  <2>6. ~WorkerStep
    BY <2>5
    DEF WorkerStep, Phase1, Phase2, Phase3, WorkerStop, Park, BeginFill,
        SeekInner, SeekInnerFails, Die, InnerReads, InnerFails,
        InnerInterrupted, InnerAnswers, Discard, DepositBytes, DepositEof,
        RetryInterrupted, DepositError, WorkerWakesSpuriously, ring
  <2>7. QED
    BY <2>2, <2>3, <2>4, <2>6
    DEF Next, ReaderStep, ReaderCall, ReadStep, DropStep, ReadCall,
        ReadEmpty, ReadError, ReadEof, WaitExpires, ReadTimedOut,
        ReaderWakesSpuriously, SeekRefused, SeekInside, DropStop,
        DropNotify, DropJoin, Dropped, vars, ring
<1>2. QED
  BY <1>1, Invariance, PTL DEF Spec, LookbackKept

-----------------------------------------------------------------------------
(* The refinement of SeekableStream.                                       *)

(* A slice of a run is a run.                                              *)
LEMMA BytesSlice ==
    ASSUME NEW off \in Int, NEW m \in Nat, NEW r \in Nat, NEW n \in Nat,
           r + n <= m
    PROVE  SubSeq(Bytes(off, m), r + 1, r + n) = Bytes(off + r, n)
BY DEF Bytes

-----------------------------------------------------------------------------
LEMMA InitEnd == Init => EndIsTrue
<1> SUFFICES ASSUME Init PROVE EndIsTrue
  OBVIOUS
<1>1. pos \in Nat /\ TotalLen \in Nat
  BY SourceAssumption, MaxOffAssumption DEF Init, Offset
<1>2. RingEnd = pos /\ buf = <<>>
  BY <1>1 DEF Init, RingEnd
<1>3. eof => RingEnd >= TotalLen
  <2>1. eof => pos = TotalLen
    BY Zenon DEF Init
  <2>2. QED
    BY <1>1, <1>2, <2>1
<1>4. wpc # "deposit" /\ rpc = "idle"
  BY DEF Init
<1>5. QED
  BY <1>2, <1>3, <1>4 DEF EndIsTrue

LEMMA StepEnd ==
    ASSUME KeepsItsLength, IInv, EndIsTrue, [Next]_vars
    PROVE  EndIsTrue'
<1> USE SourceAssumption, MaxOffAssumption, KnobFacts
<1>0. /\ pos \in Nat /\ ring_start \in Nat /\ Len(buf) \in Nat
      /\ RingEnd = ring_start + Len(buf) /\ inner_pos \in Nat
      /\ buf \in Seq(Offset) /\ TotalLen \in Nat
  BY DEF IInv, TypeOK, Offset, RingEnd
<1>1. CASE WorkerStop \/ Park \/ BeginFill \/ SeekInner \/ Discard
             \/ RetryInterrupted \/ WorkerWakesSpuriously
  BY <1>1 DEF EndIsTrue, RingEnd, WorkerStop, Park, BeginFill, NothingAsked,
     SeekInner, Discard, RetryInterrupted, WorkerWakesSpuriously,
     BackToPhase1, ring, worker, reader
<1>2. CASE TakeTarget
  BY <1>2 DEF EndIsTrue, RingEnd, TakeTarget, NotifyReader, PastEnd, IInv,
     TypeOK, Offset, None
<1>3. CASE SeekInnerFails \/ DepositError
  BY <1>3 DEF EndIsTrue, RingEnd, SeekInnerFails, DepositError, Die,
     NotifyReader
<1>4. CASE Phase2
  <2>1. ASSUME NEW end \in InnerEnds,
               NEW n \in 1 .. Smaller(to_read, end - inner_pos),
               InnerAnswers(Outcome("bytes", Bytes(inner_pos, n)))
        PROVE  EndIsTrue'
    <3>1. end = TotalLen
      BY DEF KeepsItsLength
    <3>2. to_read \in Nat
      BY DEF IInv, TypeOK
    <3>3. n \in Nat /\ inner_pos + n <= TotalLen
      BY <1>0, <3>1, <3>2 DEF Smaller
    <3>4. Len(Bytes(inner_pos, n)) = n
      BY <1>0, <3>3, BytesType
    <3>5. read_result'.kind = "bytes" /\ inner_pos' = inner_pos + n
      BY <2>1, <3>4 DEF InnerAnswers, Outcome
    <3>6. QED
      BY <2>1, <3>3, <3>5 DEF EndIsTrue, InnerAnswers, ring, reader, RingEnd
  <2>2. ASSUME NEW end \in InnerEnds, inner_pos >= end,
               InnerAnswers(Outcome("eof", <<>>))
        PROVE  EndIsTrue'
    <3>1. inner_pos >= TotalLen
      BY <2>2 DEF KeepsItsLength
    <3>2. read_result'.kind = "eof" /\ inner_pos' = inner_pos
      BY <2>2, <1>0 DEF InnerAnswers, Outcome
    <3>3. QED
      BY <2>2, <3>1, <3>2 DEF EndIsTrue, InnerAnswers, ring, reader, RingEnd
  <2>3. ASSUME NEW kind \in {"Interrupted"} \union ErrKinds,
               InnerAnswers(Outcome(kind, <<>>))
        PROVE  EndIsTrue'
    <3>1. read_result'.kind \notin {"bytes", "eof"}
      BY <2>3 DEF InnerAnswers, Outcome
    <3>2. QED
      BY <2>3, <3>1 DEF EndIsTrue, InnerAnswers, ring, reader, RingEnd
  <2>4. QED
    BY <1>4, <2>1, <2>2, <2>3
    DEF Phase2, InnerReads, InnerFails, InnerInterrupted
<1>5. CASE DepositBytes
  <2>1. inner_pos <= TotalLen
    BY <1>5 DEF EndIsTrue, DepositBytes, Wanted
  <2>2. RingEnd' = inner_pos /\ ring_start' = ring_start
    <3> DEFINE l == Len(read_result.data)
    <3>1. RingEnd + l = inner_pos /\ read_result.data \in Seq(Offset)
      BY <1>5 DEF DepositBytes, Wanted, IInv, WorkerAligned, TypeOK
    <3>2. Len(buf') = Len(buf) + l /\ l \in Nat
      BY <1>0, <1>5, <3>1 DEF DepositBytes
    <3> HIDE DEF l
    <3>3. RingEnd' = ring_start + Len(buf') /\ ring_start' = ring_start
      BY <1>5 DEF DepositBytes, RingEnd
    <3>4. QED
      BY <1>0, <3>1, <3>2, <3>3
  <2>3. eof => RingEnd' >= TotalLen
    <3>1. RingEnd <= inner_pos
      <4> DEFINE l == Len(read_result.data)
      <4>1. RingEnd + l = inner_pos /\ l \in Nat
        BY <1>5 DEF DepositBytes, Wanted, IInv, WorkerAligned, TypeOK
      <4> HIDE DEF l
      <4>2. QED
        BY <1>0, <4>1
    <3>2. eof => RingEnd >= TotalLen
      BY DEF EndIsTrue
    <3>3. QED
      BY <1>0, <2>2, <3>1, <3>2
  <2>4. QED
    BY <1>5, <2>1, <2>2, <2>3
    DEF EndIsTrue, DepositBytes, BackToPhase1, NotifyReader
<1>6. CASE DepositEof
  <2>1. RingEnd = inner_pos /\ inner_pos >= TotalLen
    <3>1. read_result.data = <<>> /\ wpc = "deposit"
      BY <1>6 DEF DepositEof, Wanted, IInv, Locals
    <3>2. inner_pos = RingEnd + 0
      BY <1>6, <3>1 DEF DepositEof, Wanted, IInv, WorkerAligned
    <3>3. QED
      BY <1>0, <1>6, <3>1, <3>2 DEF DepositEof, EndIsTrue
  <2>2. QED
    BY <1>6, <2>1 DEF EndIsTrue, DepositEof, BackToPhase1, NotifyReader,
       RingEnd
<1>7. CASE ReadHit
  <2> DEFINE n      == Smaller(Len(buf) - rel, want)
             excess == Excess(rel + n)
  <2>1. /\ rel + n <= Len(buf) /\ rel + n \in Nat /\ excess <= rel + n
        /\ excess \in Int
    <3>1. /\ rel \in Nat /\ rel < Len(buf) /\ Len(buf) \in Nat
          /\ want \in Nat /\ rear \in Nat
      BY <1>0, <1>7, KnobFacts DEF ReadHit, Hit, rel, IInv, TypeOK
    <3>2. QED
      BY <3>1 DEF Smaller, Excess
  <2>2. UNCHANGED <<eof, read_result, inner_pos>> /\ rpc' = "idle"
    BY <1>7 DEF ReadHit, Return
  <2>3. wpc' = "deposit" => wpc = "deposit"
    BY <1>7 DEF ReadHit, NotifyWorker
  <2>4. CASE excess > 0
    <3>1. Drain(excess) /\ NotifyWorker
      BY <1>7, <2>4 DEF ReadHit
    <3> HIDE DEF excess
    <3>2. excess \in 0 .. Len(buf)
      BY <1>0, <2>1, <2>4
    <3>3. RingEnd' = RingEnd
      BY <1>7, <3>1, <3>2, DrainInv DEF ReadHit
    <3>4. buf # <<>>
      BY <1>0, <2>4, <3>2
    <3>5. QED
      BY <2>2, <2>3, <3>3, <3>4 DEF EndIsTrue
  <2>5. CASE ~(excess > 0)
    <3>1. UNCHANGED <<buf, ring_start, wpc>>
      BY <1>7, <2>5 DEF ReadHit
    <3>2. QED
      BY <2>2, <3>1 DEF EndIsTrue, RingEnd
  <2>6. QED
    BY <2>4, <2>5
<1>8. CASE ReadWait
  <2>1. UNCHANGED <<eof, read_result, inner_pos, pos>> /\ ~PastEnd(pos)
    BY <1>8 DEF ReadWait
  <2>2. wpc' = "deposit" => wpc = "deposit"
    BY <1>8 DEF ReadWait, MakeRoom, NotifyWorker
  <2>3. CASE Full
    <3> DEFINE d == Len(buf) - rear
    <3>1. Drain(d) /\ NotifyWorker
      BY <1>8, <2>3 DEF ReadWait, MakeRoom
    <3>2. d \in 0 .. Len(buf) /\ 0 < d
      BY <1>0, <2>3 DEF Full
    <3> HIDE DEF d
    <3>3. RingEnd' = RingEnd
      BY <1>8, <3>1, <3>2, DrainInv DEF ReadWait
    <3>4. buf # <<>>
      BY <1>0, <3>2
    <3>5. QED
      BY <2>1, <2>2, <3>3, <3>4 DEF EndIsTrue, PastEnd
  <2>4. CASE ~Full
    <3>1. UNCHANGED <<buf, ring_start, wpc>>
      BY <1>8, <2>4 DEF ReadWait, MakeRoom
    <3>2. QED
      BY <2>1, <3>1 DEF EndIsTrue, RingEnd, PastEnd
  <2>5. QED
    BY <2>3, <2>4
<1>9. ASSUME NEW from \in SeekFroms, SeekRestart(from)
      PROVE  EndIsTrue'
  <2>1. SeekTo(from) \in Nat
    <3>1. SeekTo(from) \in Offset \union {None}
      BY EnvironmentAssumption, ResolveType DEF IInv, TypeOK, SeekTo
    <3>2. QED
      BY <1>9, <3>1 DEF SeekRestart, Offset
  <2> DEFINE new == SeekTo(from)
  <2>2. /\ buf' = <<>> /\ ring_start' = new /\ eof' = PastEnd(new)
        /\ rpc' = "idle" /\ NotifyWorker /\ UNCHANGED <<read_result, inner_pos>>
    BY <1>9 DEF SeekRestart, RestartRing, Return
  <2> HIDE DEF new
  <2>3. RingEnd' = new
    BY <2>1, <2>2 DEF RingEnd, new
  <2>4. QED
    BY <2>2, <2>3 DEF EndIsTrue, PastEnd, NotifyWorker
<1>10. ASSUME NEW from \in SeekFroms, SeekRefused(from) \/ SeekInside(from)
       PROVE  EndIsTrue'
  BY <1>10 DEF SeekRefused, SeekInside, Return, EndIsTrue, RingEnd, ring, worker
<1>11. CASE ReadEmpty \/ ReadError \/ ReadEof \/ ReadTimedOut
  BY <1>11 DEF ReadEmpty, ReadError, ReadEof, ReadTimedOut, Return, EndIsTrue,
     RingEnd, ring, worker
<1>12. CASE \/ WaitExpires \/ ReaderWakesSpuriously \/ DropStop \/ DropNotify
            \/ DropJoin \/ \E k \in ReadSizes : ReadCall(k)
  BY <1>12 DEF WaitExpires, ReaderWakesSpuriously, DropStop, DropNotify,
     DropJoin, ReadCall, NotifyWorker, EndIsTrue, RingEnd, PastEnd, ring, worker
<1>13. CASE UNCHANGED vars
  BY <1>13 DEF vars, EndIsTrue, RingEnd, PastEnd
<1>14. QED
  BY <1>1, <1>2, <1>3, <1>4, <1>5, <1>6, <1>7, <1>8, <1>9, <1>10, <1>11,
     <1>12, <1>13
  DEF Next, WorkerStep, Phase1, Phase3, ReaderStep, ReaderCall, ReadStep,
      DropStep, Dropped

-----------------------------------------------------------------------------
(* Every step is a step of the stream or leaves the stream as it is.       *)

LEMMA StreamInit == Init => Stream!Init
BY SourceAssumption
DEF Init, NoOutcome, Outcome, Offset, Stream!Init, Stream!NoOutcome,
    Stream!Outcome, Stream!Offset

(* The pieces of the mapping that most steps leave alone.                  *)
LEMMA Stutters ==
    ASSUME UNCHANGED <<pos, want, stop, ret>>,
           rpc' = rpc \/ {rpc, rpc'} \subseteq {"reading", "asleep", "expired"}
                      \/ {rpc, rpc'} \subseteq {"dropping", "joining", "dropped"}
    PROVE  UNCHANGED Stream!vars
BY DEF Stream!vars

LEMMA WorkerStutters == WorkerStep => UNCHANGED Stream!vars
<1> SUFFICES ASSUME WorkerStep PROVE UNCHANGED Stream!vars
  OBVIOUS
<1>1. UNCHANGED <<pos, want, stop, ret>>
  BY DEF WorkerStep, Phase1, Phase2, Phase3, WorkerStop, TakeTarget, Park,
     BeginFill, SeekInner, SeekInnerFails, Die, InnerReads, InnerFails,
     InnerInterrupted, InnerAnswers, Discard, DepositBytes, DepositEof,
     RetryInterrupted, DepositError, WorkerWakesSpuriously, ring, reader
<1>2. rpc' = rpc \/ (rpc = "asleep" /\ rpc' = "reading")
  BY DEF WorkerStep, Phase1, Phase2, Phase3, WorkerStop, TakeTarget, Park,
     BeginFill, SeekInner, SeekInnerFails, Die, InnerReads, InnerFails,
     InnerInterrupted, InnerAnswers, Discard, DepositBytes, DepositEof,
     RetryInterrupted, DepositError, WorkerWakesSpuriously, reader,
     NotifyReader
<1>3. QED
  BY <1>1, <1>2, Stutters

(* A hit delivers a non-empty piece of what is left of the stream, byte    *)
(* for byte, and moves the cursor past it.                                 *)
LEMMA HitDelivers == IInv /\ EndIsTrue /\ ReadHit => Stream!Deliver
<1> SUFFICES ASSUME IInv, EndIsTrue, ReadHit PROVE Stream!Deliver
  OBVIOUS
<1> DEFINE n == Smaller(Len(buf) - rel, want)
<1>1. /\ pos \in Nat /\ ring_start \in Nat /\ Len(buf) \in Nat
      /\ want \in Nat /\ TotalLen \in Nat
      /\ rel = pos - ring_start /\ rel \in Nat /\ rel < Len(buf)
      /\ RingEnd = ring_start + Len(buf)
  BY MaxOffAssumption, SourceAssumption
  DEF IInv, TypeOK, Offset, ReadHit, Hit, rel, RingEnd
<1>2. rpc \in {"reading", "expired"} /\ want > 0 /\ rpc' = "idle" /\ stop' = stop
  BY DEF ReadHit, AtLoopTop, Return, IInv, Locals
<1>3. RingEnd <= TotalLen
  <2>1. buf # <<>>
    BY <1>1
  <2>2. QED
    BY <2>1 DEF EndIsTrue
<1>4. /\ n \in Nat /\ 0 < n /\ n <= want /\ rel + n <= Len(buf)
      /\ n <= TotalLen - pos /\ pos < TotalLen
  BY <1>1, <1>2, <1>3 DEF Smaller
<1>5. ret' = Outcome("bytes", SubSeq(buf, rel + 1, rel + n)) /\ pos' = pos + n
  BY DEF ReadHit, Return
<1> HIDE DEF n
<1>6. SubSeq(buf, rel + 1, rel + n) = Bytes(pos, n)
  <2>1. buf = Bytes(ring_start, Len(buf))
    BY DEF IInv, RingIsContiguous
  <2>2. ring_start \in Int /\ Len(buf) \in Nat /\ rel \in Nat /\ n \in Nat
        /\ rel + n <= Len(buf)
    BY <1>1, <1>4
  <2>3. SubSeq(Bytes(ring_start, Len(buf)), rel + 1, rel + n)
          = Bytes(ring_start + rel, n)
    BY <2>2, BytesSlice, Zenon
  <2>4. ring_start + rel = pos
    BY <1>1
  <2>5. QED
    BY <2>1, <2>3, <2>4, Zenon
<1>7. n \in 1 .. Smaller(want, TotalLen - pos)
  BY <1>1, <1>4 DEF Smaller
<1>8. ret' = Outcome("bytes", Bytes(pos, n))
  BY <1>5, <1>6
<1>9. pos .. pos + n - 1 \subseteq Offset \ {}
  BY <1>1, <1>4, MaxOffAssumption, SourceAssumption DEF Offset
<1>10. \E m \in 1 .. Smaller(want, TotalLen - pos) :
          /\ pos .. pos + m - 1 \subseteq Offset \ {}
          /\ ret' = Outcome("bytes", Bytes(pos, m))
          /\ pos' = pos + m
  BY <1>5, <1>7, <1>8, <1>9
<1>11. QED
  BY <1>2, <1>4, <1>10
  DEF Stream!Deliver, Stream!Outcome, Outcome, Stream!Smaller, Smaller,
      Stream!Bytes, Bytes, Stream!Offset, Offset

LEMMA StepRefines ==
    ASSUME IInv, EndIsTrue, [Next]_vars
    PROVE  [Stream!Next]_(Stream!vars)
<1>1. /\ pos \in Nat /\ want \in Nat /\ TotalLen \in Nat
      /\ stop <=> rpc \in {"dropping", "joining", "dropped"}
      /\ want > 0 <=> rpc \in {"reading", "asleep", "expired"}
      /\ stop \in BOOLEAN
  BY MaxOffAssumption, SourceAssumption DEF IInv, TypeOK, Locals, Offset
<1>2. CASE WorkerStep
  BY <1>2, WorkerStutters
<1>3. ASSUME NEW k \in ReadSizes, ReadCall(k)
      PROVE  Stream!Next
  <2>1. Stream!BeginRead(k)
    BY <1>1, <1>3 DEF ReadCall, ring, Stream!BeginRead
  <2>2. QED
    BY <2>1 DEF Stream!Next
<1>4. CASE ReadEmpty
  <2>1. Stream!ReadEmpty
    BY <1>1, <1>4
    DEF ReadEmpty, Return, ring, Outcome, Stream!ReadEmpty, Stream!Outcome
  <2>2. QED
    BY <2>1 DEF Stream!Next
<1>5. CASE ReadHit
  BY <1>5, HitDelivers DEF Stream!Next
<1>6. CASE ReadError
  <2>1. err \in ErrKinds \union SeekErrKinds
    BY <1>6 DEF ReadError, IInv, TypeOK
  <2>2. Stream!Fail
    BY <1>1, <1>6, <2>1 DEF ReadError, AtLoopTop, Return, ring, Outcome,
       Stream!Fail, Stream!Outcome
  <2>3. QED
    BY <2>2 DEF Stream!Next
<1>7. CASE ReadEof
  <2>1. pos >= TotalLen
    <3>1. pos = RingEnd
      BY <1>7 DEF ReadEof, Miss, rel, IInv, TypeOK, Offset, ReaderInWindow,
         RingEnd
    <3>2. QED
      BY <1>7, <3>1 DEF ReadEof, PastEnd, EndIsTrue
  <2>2. Stream!AtEnd
    BY <1>1, <1>7, <2>1 DEF ReadEof, AtLoopTop, Return, ring, Outcome,
       Stream!AtEnd, Stream!Outcome
  <2>3. QED
    BY <2>2 DEF Stream!Next
<1>8. CASE ReadTimedOut
  <2>1. pos < TotalLen
    BY <1>1, <1>8 DEF ReadTimedOut, EndIsTrue, PastEnd
  <2>2. Stream!Fail
    BY <1>1, <1>8, <2>1 DEF ReadTimedOut, Return, ring, Outcome,
       Stream!Fail, Stream!Outcome
  <2>3. QED
    BY <2>2 DEF Stream!Next
<1>9. CASE ReadWait
  BY <1>9, Stutters DEF ReadWait, AtLoopTop
<1>10. CASE WaitExpires \/ ReaderWakesSpuriously \/ DropNotify \/ DropJoin
  BY <1>10, Stutters
  DEF WaitExpires, ReaderWakesSpuriously, DropNotify, DropJoin, ring
<1>11. ASSUME NEW from \in SeekFroms,
              SeekRefused(from) \/ SeekInside(from) \/ SeekRestart(from)
       PROVE  Stream!Next
  <2>1. SeekTo(from) = Stream!Resolve(from, pos, TotalLen)
    BY DEF SeekTo, Resolve, Stream!Resolve, add_signed, Stream!add_signed,
       Offset, Stream!Offset, None, Stream!None
  <2>2. Stream!Seek(from)
    BY <1>1, <1>11, <2>1
    DEF SeekRefused, SeekInside, SeekRestart, Return, ring, Outcome,
        Stream!Seek, Stream!Outcome, Stream!None, None
  <2>3. QED
    BY <2>2 DEF Stream!Next
<1>12. CASE DropStop
  <2>1. Stream!Close
    BY <1>1, <1>12 DEF DropStop, Stream!Close
  <2>2. QED
    BY <2>1 DEF Stream!Next
<1>13. CASE Dropped \/ UNCHANGED vars
  BY <1>13 DEF Dropped, vars, Stream!vars
<1>14. QED
  BY <1>2, <1>3, <1>4, <1>5, <1>6, <1>7, <1>8, <1>9, <1>10, <1>11, <1>12,
     <1>13
  DEF Next, ReaderStep, ReaderCall, ReadStep, DropStep

(* The wrapper is a plain seekable stream over its inner source, whatever  *)
(* the ring, block and lookback sizes and however the two threads          *)
(* interleave, as long as the inner source keeps the length build probed.  *)
THEOREM Refinement ==
    ASSUME KeepsItsLength
    PROVE  Spec => ImplementsStream
<1>1. Init => EndIsTrue
  BY InitEnd
<1>2. IInv /\ EndIsTrue /\ [Next]_vars => EndIsTrue'
  BY StepEnd
<1>3. IInv /\ EndIsTrue /\ [Next]_vars => [Stream!Next]_(Stream!vars)
  BY StepRefines
<1>4. QED
  BY <1>1, <1>2, <1>3, StreamInit, Invariance, PTL
  DEF Spec, ImplementsStream, Stream!Spec
=============================================================================
