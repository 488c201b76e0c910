--------------------------- MODULE MemTableProofs ---------------------------
(***************************************************************************)
(* Proofs about MemTable: its types, and that no step of the table or of   *)
(* another reader is noticed by an open reader, however many names,        *)
(* buffers and readers there are.                                          *)
(***************************************************************************)
EXTENDS MemTable, TLAPS

-----------------------------------------------------------------------------
(* The invariant.                                                          *)

LEMMA Numbers ==
    /\ MaxOff \in Nat /\ Nowhere \notin Cells
    /\ \A b \in Buffers : b.len \in Offset
    /\ ReadSizes \subseteq Nat \ {0} /\ SeekFroms \subseteq SeekFrom
BY MaxOffAssumption, TableAssumption, CallerAssumption

LEMMA ResolveType ==
    ASSUME NEW from \in SeekFrom, NEW cur \in Offset, NEW end \in Offset
    PROVE  Resolve(from, cur, end) \in Offset \union {None}
BY MaxOffAssumption DEF SeekFrom, Resolve, add_signed, Offset, None

LEMMA OutcomeType ==
    /\ <<>> \in Seq(Byte)
    /\ \A kind \in Kinds, data \in Seq(Byte) :
          Outcome(kind, data) \in [kind : Kinds, data : Seq(Byte)]
    /\ NoOutcome \in [kind : Kinds, data : Seq(Byte)]
<1>1. <<>> \in Seq(Byte)
  OBVIOUS
<1>2. \A kind \in Kinds, data \in Seq(Byte) :
         Outcome(kind, data) \in [kind : Kinds, data : Seq(Byte)]
  BY DEF Outcome
<1>3. NoOutcome \in [kind : Kinds, data : Seq(Byte)]
  BY <1>1 DEF NoOutcome, Outcome, Kinds
<1>4. QED
  BY <1>1, <1>2, <1>3

LEMMA InitInv == Init => IInv
<1> SUFFICES ASSUME Init PROVE IInv
  OBVIOUS
<1>1. TypeOK
  BY Numbers, OutcomeType DEF Init, TypeOK, Offset
<1>2. QED
  BY <1>1 DEF Init, IInv, ClosedAreIdle

(* put, remove and clear leave the readers alone.                          *)
LEMMA TableInv == ASSUME IInv, TableStep PROVE IInv'
<1>1. UNCHANGED reader
  BY DEF TableStep, Put, Remove, Clear
<1>2. ASSUME NEW id \in Ids, Put(id)
      PROVE  TypeOK'
  <2>1. PICK c \in Free, b \in Buffers :
           /\ table' = [table EXCEPT ![id] = c]
           /\ content' = [content EXCEPT ![c] = b]
    BY <1>2 DEF Put, NewCells
  <2>2. c \in Cells
    BY DEF Free
  <2>3. QED
    BY <1>1, <2>1, <2>2 DEF IInv, TypeOK, reader
<1>3. ASSUME NEW id \in Ids, Remove(id)
      PROVE  TypeOK'
  BY <1>1, <1>3 DEF Remove, IInv, TypeOK, reader
<1>4. ASSUME Clear
      PROVE  TypeOK'
  BY <1>1, <1>4 DEF Clear, IInv, TypeOK, reader
<1>5. QED
  BY <1>1, <1>2, <1>3, <1>4 DEF TableStep, IInv, ClosedAreIdle, Open, reader

LEMMA OpenMemInv ==
    ASSUME IInv, NEW r \in Readers, NEW id \in Ids, OpenMem(r, id)
    PROVE  IInv'
<1>1. /\ table[id] \in Cells /\ buf' = [buf EXCEPT ![r] = table[id]]
      /\ UNCHANGED <<table, content, pos, want, ret>>
  BY DEF IInv, TypeOK, OpenMem
<1>2. TypeOK'
  BY <1>1 DEF IInv, TypeOK
<1>3. QED
  BY <1>1, <1>2, Numbers DEF IInv, TypeOK, ClosedAreIdle, Open

LEMMA CloseInv == ASSUME IInv, NEW r \in Readers, Close(r) PROVE IInv'
<1>1. /\ want[r] = 0 /\ buf' = [buf EXCEPT ![r] = Nowhere]
      /\ pos' = [pos EXCEPT ![r] = 0] /\ ret' = [ret EXCEPT ![r] = NoOutcome]
      /\ UNCHANGED <<table, content, want>>
  BY DEF Close, Idle
<1>2. TypeOK'
  BY <1>1, Numbers, OutcomeType DEF IInv, TypeOK, Offset
<1>3. ClosedAreIdle'
  BY <1>1 DEF IInv, TypeOK, ClosedAreIdle, Open
<1>4. QED
  BY <1>2, <1>3 DEF IInv

(* The bytes of a read are bytes of the buffer.                            *)
LEMMA BytesOfType ==
    ASSUME TypeOK, NEW c \in Cells, NEW off \in Offset, NEW n \in Nat
    PROVE  BytesOf(c, off, n) \in Seq(Byte)
<1>1. content[c] \in Buffers
  BY DEF TypeOK
<1>2. \A k \in 1 .. n : <<content[c].tag, off + k - 1>> \in Byte
  BY <1>1, Numbers DEF Byte, Offset
<1>3. BytesOf(c, off, n) \in [1 .. n -> Byte]
  BY <1>2 DEF BytesOf
<1>4. QED
  BY <1>3

(* A call on an open reader that leaves it open.                           *)
LEMMA CallInv ==
    ASSUME IInv, UNCHANGED <<table, content, buf>>,
           pos' \in [Readers -> Offset], want' \in [Readers -> Nat],
           ret' \in [Readers -> [kind : Kinds, data : Seq(Byte)]],
           \A r \in Readers : want'[r] > 0 => r \in Open
    PROVE  IInv'
BY DEF IInv, TypeOK, ClosedAreIdle, Open

(* What a reader in use has under it.                                      *)
LEMMA ReaderFacts ==
    ASSUME IInv, NEW r \in Readers, r \in Open \/ want[r] > 0
    PROVE  /\ r \in Open /\ buf[r] \in Cells
           /\ content[buf[r]] \in Buffers /\ len(r) \in Offset
           /\ pos[r] \in Offset /\ want[r] \in Nat
<1>1. r \in Open
  BY DEF IInv, ClosedAreIdle
<1>2. buf[r] \in Cells
  BY <1>1 DEF IInv, TypeOK, Open
<1>3. content[buf[r]] \in Buffers /\ pos[r] \in Offset /\ want[r] \in Nat
  BY <1>2 DEF IInv, TypeOK
<1>4. QED
  BY <1>1, <1>2, <1>3, Numbers DEF len

LEMMA ReadBytesFacts ==
    ASSUME IInv, NEW r \in Readers, want[r] > 0, pos[r] < len(r)
    PROVE  /\ Served(r) \in 1 .. want[r] /\ Served(r) <= len(r) - pos[r]
           /\ Served(r) \in Nat /\ pos[r] + Served(r) \in Offset
BY ReaderFacts, Numbers DEF Served, Smaller, Offset

LEMMA ReaderInv ==
    ASSUME IInv, NEW r \in Readers, ReaderStep(r)
    PROVE  IInv'
<1>1. /\ pos \in [Readers -> Offset] /\ want \in [Readers -> Nat]
      /\ ret \in [Readers -> [kind : Kinds, data : Seq(Byte)]]
      /\ \A s \in Readers : want[s] > 0 => s \in Open
  BY DEF IInv, TypeOK, ClosedAreIdle
<1>2. ASSUME NEW kind \in Kinds, NEW data \in Seq(Byte),
             Return(r, Outcome(kind, data)), UNCHANGED <<table, content, buf>>,
             pos' \in [Readers -> Offset]
      PROVE  IInv'
  <2>1. Outcome(kind, data) \in [kind : Kinds, data : Seq(Byte)]
    BY OutcomeType
  <2>2. ret' \in [Readers -> [kind : Kinds, data : Seq(Byte)]]
    BY <1>1, <1>2, <2>1 DEF Return
  <2>3. /\ want' \in [Readers -> Nat]
        /\ \A s \in Readers : want'[s] > 0 => s \in Open
    BY <1>1, <1>2 DEF Return
  <2>4. QED
    BY <1>2, <2>2, <2>3, CallInv
<1>3. ASSUME NEW id \in Ids, OpenMem(r, id)
      PROVE  IInv'
  BY <1>3, OpenMemInv
<1>4. ASSUME NEW id \in Ids, OpenFails(r, id)
      PROVE  IInv'
  <2>1. UNCHANGED <<table, content, buf, pos, want>>
    BY <1>4 DEF OpenFails
  <2>2. PICK kind \in Kinds : ret' = [ret EXCEPT ![r] = Outcome(kind, <<>>)]
    BY <1>4 DEF OpenFails, Kinds
  <2>3. Outcome(kind, <<>>) \in [kind : Kinds, data : Seq(Byte)]
    BY OutcomeType
  <2>4. ret' \in [Readers -> [kind : Kinds, data : Seq(Byte)]]
    BY <1>1, <2>2, <2>3
  <2>5. QED
    BY <1>1, <2>1, <2>4, CallInv
<1>5. ASSUME NEW k \in ReadSizes, ReadCall(r, k)
      PROVE  IInv'
  <2>1. /\ UNCHANGED <<table, content, buf, pos, ret>> /\ r \in Open
        /\ want' = [want EXCEPT ![r] = k] /\ k \in Nat
    BY <1>5, Numbers DEF ReadCall, Idle
  <2>2. QED
    BY <1>1, <2>1, CallInv
<1>6. CASE ReadEmpty(r)
  BY <1>1, <1>2, <1>6, OutcomeType DEF ReadEmpty, Kinds
<1>7. CASE ReadEnds(r)
  BY <1>1, <1>2, <1>7, OutcomeType DEF ReadEnds, Kinds
<1>8. CASE ReadBytes(r)
  <2>1. want[r] > 0 /\ pos[r] < len(r)
    BY <1>8 DEF ReadBytes
  <2>2. BytesOf(buf[r], pos[r], Served(r)) \in Seq(Byte)
    BY <2>1, ReaderFacts, ReadBytesFacts, BytesOfType DEF IInv
  <2>3. pos' \in [Readers -> Offset]
    BY <1>1, <1>8, <2>1, ReadBytesFacts DEF ReadBytes
  <2>4. QED
    BY <1>2, <1>8, <2>2, <2>3 DEF ReadBytes, Kinds
<1>9. ASSUME NEW from \in SeekFroms, SeekRefused(r, from)
      PROVE  IInv'
  BY <1>1, <1>2, <1>9, OutcomeType DEF SeekRefused, Kinds
<1>10. ASSUME NEW from \in SeekFroms, Seek(r, from)
       PROVE  IInv'
  <2>1. SeekTo(r, from) \in Offset
    <3>1. r \in Open /\ SeekTo(r, from) # None /\ from \in SeekFrom
      BY <1>10, Numbers DEF Seek, Idle
    <3>2. QED
      BY <3>1, ReaderFacts, ResolveType DEF SeekTo
  <2>2. pos' \in [Readers -> Offset]
    BY <1>1, <1>10, <2>1 DEF Seek
  <2>3. QED
    BY <1>2, <1>10, <2>2, OutcomeType DEF Seek, Kinds
<1>11. CASE Close(r)
  BY <1>11, CloseInv
<1>12. QED
  BY <1>3, <1>4, <1>5, <1>6, <1>7, <1>8, <1>9, <1>10, <1>11 DEF ReaderStep

LEMMA StepInv == IInv /\ [Next]_vars => IInv'
<1> SUFFICES ASSUME IInv, [Next]_vars PROVE IInv'
  OBVIOUS
<1>1. CASE TableStep
  BY <1>1, TableInv
<1>2. ASSUME NEW r \in Readers, ReaderStep(r)
      PROVE  IInv'
  BY <1>2, ReaderInv
<1>3. CASE UNCHANGED vars
  BY <1>3 DEF vars, IInv, TypeOK, ClosedAreIdle, Open
<1>4. QED
  BY <1>1, <1>2, <1>3 DEF Next

-----------------------------------------------------------------------------
(* What a reader notices.                                                  *)

(* A step that leaves a reader's own state and its buffer alone.           *)
LEMMA Unnoticed ==
    ASSUME NEW r \in Readers, buf'[r] = buf[r],
           content'[buf[r]] = content[buf[r]],
           pos'[r] = pos[r], want'[r] = want[r], ret'[r] = ret[r]
    PROVE  UNCHANGED Stream(r)!vars
<1>1. Seen(r, ret[r])' = Seen(r, ret[r])
  BY DEF Seen
<1>2. len(r)' = len(r)
  BY DEF len
<1>3. QED
  BY <1>1, <1>2 DEF Stream!vars

(* The table never writes to a buffer that a reader holds.                 *)
LEMMA TableUnnoticed ==
    ASSUME IInv, TableStep, NEW r \in Readers, r \in Open
    PROVE  UNCHANGED Stream(r)!vars
<1>1. UNCHANGED reader
  BY DEF TableStep, Put, Remove, Clear
<1>2. content'[buf[r]] = content[buf[r]]
  <2>1. ASSUME NEW id \in Ids, Put(id)
        PROVE  content'[buf[r]] = content[buf[r]]
    <3>1. PICK c \in Free, b \in Buffers : content' = [content EXCEPT ![c] = b]
      BY <2>1 DEF Put, NewCells
    <3>2. buf[r] # c
      BY DEF Free
    <3>3. QED
      BY <3>1, <3>2, ReaderFacts DEF IInv, TypeOK
  <2>2. CASE Clear \/ \E id \in Ids : Remove(id)
    BY <2>2 DEF Clear, Remove
  <2>3. QED
    BY <2>1, <2>2 DEF TableStep
<1>3. QED
  BY <1>1, <1>2, Unnoticed DEF reader

(* Nor does another reader.                                                *)
LEMMA OthersUnnoticed ==
    ASSUME IInv, NEW s \in Readers, ReaderStep(s), NEW r \in Readers, r # s
    PROVE  UNCHANGED Stream(r)!vars
<1>1. /\ content' = content /\ buf'[r] = buf[r] /\ pos'[r] = pos[r]
      /\ want'[r] = want[r] /\ ret'[r] = ret[r]
  BY DEF IInv, TypeOK, ReaderStep, OpenMem, OpenFails, ReadCall, ReadEmpty,
         ReadEnds, ReadBytes, SeekRefused, Seek, Close, Return
<1>2. QED
  BY <1>1, Unnoticed

-----------------------------------------------------------------------------
(* A reader's own steps are those of the stream.                           *)

LEMMA SeenEmpty ==
    ASSUME NEW r, NEW kind
    PROVE  Seen(r, Outcome(kind, <<>>)) = Outcome(kind, <<>>)
<1>1. [k \in DOMAIN <<>> |->
         IF <<>>[k][1] = content[buf[r]].tag THEN <<>>[k][2] ELSE None] = <<>>
  OBVIOUS
<1>2. QED
  BY <1>1 DEF Seen, Outcome

LEMMA SeenBytes ==
    ASSUME NEW r, NEW off \in Nat, NEW n \in Nat
    PROVE  Seen(r, Outcome("bytes", BytesOf(buf[r], off, n)))
             = Outcome("bytes", Bytes(off, n))
<1> DEFINE bs == BytesOf(buf[r], off, n)
<1>1. [k \in DOMAIN bs |->
         IF bs[k][1] = content[buf[r]].tag THEN bs[k][2] ELSE None]
        = Bytes(off, n)
  BY DEF BytesOf, Bytes
<1>2. QED
  BY <1>1 DEF Seen, Outcome

(* A call that ends without moving the table, as the stream sees it.       *)
LEMMA Returns ==
    ASSUME IInv, NEW r \in Readers, NEW o, Return(r, o), UNCHANGED <<content, buf>>
    PROVE  /\ want'[r] = 0 /\ Seen(r, ret[r])' = Seen(r, o)
           /\ len(r)' = len(r)
BY DEF IInv, TypeOK, Return, Seen, len

(* A read that brings bytes, as the stream sees it.                        *)
LEMMA ReadDelivers ==
    ASSUME IInv, NEW r \in Readers, ReadBytes(r)
    PROVE  Stream(r)!Deliver
<1> DEFINE n == Served(r)
<1>1. /\ want[r] > 0 /\ pos[r] < len(r)
      /\ Return(r, Outcome("bytes", BytesOf(buf[r], pos[r], n)))
      /\ pos' = [pos EXCEPT ![r] = @ + n] /\ UNCHANGED <<content, buf>>
  BY DEF ReadBytes
<1>2. /\ n \in 1 .. want[r] /\ n <= len(r) - pos[r] /\ n \in Nat
      /\ len(r) \in Offset /\ pos[r] \in Offset /\ want[r] \in Nat
  BY <1>1, ReadBytesFacts, ReaderFacts
<1> HIDE DEF n
<1>3. n \in 1 .. Stream(r)!Smaller(want[r], len(r) - pos[r])
  BY <1>2, Numbers DEF Stream!Smaller, Offset
<1>4. pos[r] .. pos[r] + n - 1 \subseteq Stream(r)!Offset
  BY <1>1, <1>2, Numbers DEF Stream!Offset, Offset
<1>5. Seen(r, ret[r])'
        = Stream(r)!Outcome("bytes", Stream(r)!Bytes(pos[r], n))
  <2>1. pos[r] \in Nat
    BY <1>2 DEF Offset
  <2>2. Seen(r, ret[r])' = Seen(r, Outcome("bytes", BytesOf(buf[r], pos[r], n)))
    BY <1>1, Returns
  <2>3. Seen(r, ret[r])' = Outcome("bytes", Bytes(pos[r], n))
    BY <1>2, <2>1, <2>2, SeenBytes
  <2>4. QED
    BY <2>3 DEF Outcome, Bytes, Stream!Outcome, Stream!Bytes
<1>6. pos'[r] = pos[r] + n
  BY <1>1 DEF IInv, TypeOK
<1>7. want'[r] = 0 /\ len(r)' = len(r)
  BY <1>1, Returns
<1>8. QED
  BY <1>1, <1>3, <1>4, <1>5, <1>6, <1>7 DEF Stream!Deliver

LEMMA ReaderStreams ==
    ASSUME IInv, NEW r \in Readers, ReaderStep(r), StaysOpen(r)
    PROVE  Stream(r)!Next \/ UNCHANGED Stream(r)!vars
<1>1. /\ r \in Open /\ buf'[r] # Nowhere /\ buf[r] \in Cells
      /\ len(r) \in Offset /\ pos[r] \in Offset /\ want[r] \in Nat
  BY ReaderFacts DEF StaysOpen, Open
<1>2. ASSUME NEW k \in ReadSizes, ReadCall(r, k)
      PROVE  Stream(r)!Next
  <2>1. /\ want[r] = 0 /\ want'[r] = k /\ UNCHANGED <<content, buf, pos, ret>>
    BY <1>2 DEF ReadCall, Idle, IInv, TypeOK
  <2>2. Stream(r)!BeginRead(k)
    BY <2>1 DEF Stream!BeginRead, Seen, len
  <2>3. QED
    BY <2>2 DEF Stream!Next
<1>3. ASSUME NEW kind, Return(r, Outcome(kind, <<>>)), UNCHANGED <<content, buf>>
      PROVE  /\ Seen(r, ret[r])' = Stream(r)!Outcome(kind, <<>>)
             /\ want'[r] = 0 /\ len(r)' = len(r)
  BY <1>3, Returns, SeenEmpty DEF Outcome, Stream!Outcome
<1>4. CASE ReadEmpty(r)
  <2>1. /\ want[r] = 0 /\ pos' = pos
        /\ Return(r, Outcome("empty", <<>>)) /\ UNCHANGED <<content, buf>>
    BY <1>4 DEF ReadEmpty, Idle
  <2>2. Stream(r)!ReadEmpty
    BY <1>3, <2>1 DEF Stream!ReadEmpty
  <2>3. QED
    BY <2>2 DEF Stream!Next
<1>5. CASE ReadEnds(r)
  <2>1. /\ want[r] > 0 /\ pos[r] >= len(r) /\ pos' = pos
        /\ Return(r, Outcome("eof", <<>>)) /\ UNCHANGED <<content, buf>>
    BY <1>5 DEF ReadEnds
  <2>2. Stream(r)!AtEnd
    BY <1>3, <2>1 DEF Stream!AtEnd
  <2>3. QED
    BY <2>2 DEF Stream!Next
<1>6. CASE ReadBytes(r)
  BY <1>6, ReadDelivers DEF Stream!Next
<1>7. ASSUME NEW from \in SeekFroms
      PROVE  Stream(r)!Resolve(from, pos[r], len(r)) = SeekTo(r, from)
             /\ Stream(r)!None = None
  BY DEF SeekTo, Resolve, add_signed, Offset, None, Stream!Resolve,
         Stream!add_signed, Stream!Offset, Stream!None
<1>8. ASSUME NEW from \in SeekFroms, SeekRefused(r, from)
      PROVE  Stream(r)!Next
  <2>1. /\ want[r] = 0 /\ SeekTo(r, from) = None /\ pos' = pos
        /\ Return(r, Outcome("InvalidInput", <<>>)) /\ UNCHANGED <<content, buf>>
    BY <1>8 DEF SeekRefused, Idle
  <2>2. Stream(r)!Seek(from)
    BY <1>3, <1>7, <2>1 DEF Stream!Seek
  <2>3. QED
    BY <2>2 DEF Stream!Next
<1>9. ASSUME NEW from \in SeekFroms, Seek(r, from)
      PROVE  Stream(r)!Next
  <2>1. /\ want[r] = 0 /\ SeekTo(r, from) # None
        /\ pos' = [pos EXCEPT ![r] = SeekTo(r, from)]
        /\ Return(r, Outcome("seeked", <<>>)) /\ UNCHANGED <<content, buf>>
    BY <1>9 DEF Seek, Idle
  <2>2. pos'[r] = SeekTo(r, from)
    BY <2>1 DEF IInv, TypeOK
  <2>3. Stream(r)!Seek(from)
    BY <1>3, <1>7, <2>1, <2>2 DEF Stream!Seek
  <2>4. QED
    BY <2>3 DEF Stream!Next
<1>10. ASSUME NEW id \in Ids, OpenMem(r, id) \/ OpenFails(r, id)
       PROVE  FALSE
  BY <1>1, <1>10 DEF OpenMem, OpenFails
<1>11. CASE Close(r)
  BY <1>1, <1>11 DEF Close, IInv, TypeOK
<1>12. QED
  BY <1>2, <1>4, <1>5, <1>6, <1>8, <1>9, <1>10, <1>11 DEF ReaderStep

-----------------------------------------------------------------------------
(* Theorems.                                                               *)

(* Types, and no read in progress where no reader is, in every reachable   *)
(* state.                                                                  *)
THEOREM Invariance == Spec => []IInv
BY InitInv, StepInv, PTL DEF Spec

(* Types: in particular no cursor leaves u64.                              *)
THEOREM TypeCorrect == Spec => []TypeOK
BY Invariance, PTL DEF IInv

(* A reader is the plain stream of the buffer it was opened on, as long as *)
(* it is open, whatever put, remove, clear and other readers do.           *)
THEOREM ReadersStayStreams == Spec => ReadersAreStreams
<1> DEFINE Streaming == \A r \in Readers :
             StaysOpen(r) => [Stream(r)!Next]_(Stream(r)!vars)
<1>1. ASSUME IInv, [Next]_vars
      PROVE  Streaming \/ UNCHANGED vars
  <2> SUFFICES ASSUME ~UNCHANGED vars, NEW r \in Readers, StaysOpen(r)
               PROVE  Stream(r)!Next \/ UNCHANGED Stream(r)!vars
    OBVIOUS
  <2>1. CASE TableStep
    BY <1>1, <2>1, TableUnnoticed DEF StaysOpen
  <2>2. ASSUME NEW s \in Readers, ReaderStep(s)
        PROVE  Stream(r)!Next \/ UNCHANGED Stream(r)!vars
    BY <1>1, <2>2, ReaderStreams, OthersUnnoticed
  <2>3. QED
    BY <1>1, <2>1, <2>2 DEF Next
<1>2. IInv /\ [Next]_vars => [Streaming]_vars
  BY <1>1
<1>3. QED
  BY <1>2, Invariance, PTL DEF Spec, ReadersAreStreams
=============================================================================
