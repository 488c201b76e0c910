---------------------------- MODULE ConcatSource ----------------------------
(***************************************************************************)
(* The concatenation of concat.rs: several seekable parts presented as one *)
(* stream.  Construction measures each part and builds the table of their  *)
(* starts; a read finds the part that holds the cursor, puts that part in  *)
(* position and reads from it; a seek moves the cursor only.               *)
(*                                                                         *)
(* A part is any seekable source: reads may be short, every call may fail  *)
(* and then leaves that part's cursor astray, and once the stream is     *)
(* made the file behind a part may be cut short or grow.                   *)
(*                                                                         *)
(* Each action is one call on a part with the code around it.  A byte is   *)
(* the part it comes from and its offset there.  An operator named         *)
(* Buggy... is the one that follows it with a plausible mistake, kept to   *)
(* check that the properties notice.                                       *)
(***************************************************************************)
EXTENDS Offsets

CONSTANTS
    PartCounts,      \* how many parts a caller may concatenate
    PartLens,        \* lengths a part may have when it is opened
    ResizedLens,     \* lengths it may be given later
    StrayPositions,  \* where a failed call may leave a part's cursor
    UsizeSpan,       \* number of values of a usize
    IoErrors,        \* error kinds of the calls on a part
    ReadSizes,       \* the non-zero buffer sizes a caller passes to read
    SeekFroms        \* the SeekFrom values a caller passes to seek

ASSUME PartAssumption ==
    /\ PartCounts \subseteq Nat
    /\ PartLens \subseteq Offset /\ ResizedLens \subseteq Offset
    /\ StrayPositions \subseteq Offset
    /\ UsizeSpan \in Nat \ {0}

ASSUME CallerAssumption ==
    /\ IoErrors \subseteq STRING \ {"none", "bytes", "eof", "empty", "seeked"}
    /\ ReadSizes \subseteq 1 .. UsizeSpan - 1
    /\ SeekFroms \subseteq SeekFrom

VARIABLES
    parts,           \* the open parts: the length each has now, its cursor
    starts,          \* where each part begins in the stream, then the total
    pos,             \* the stream's cursor
    acc,             \* local of new: total of the lengths measured so far
    pc,              \* where the call in progress is
    want,            \* length of the buffer of the read in progress, else 0
    ret              \* outcome of the last completed call

vars == <<parts, starts, pos, acc, pc, want, ret>>

(* new is measuring; a read is called, then reading once the part is in    *)
(* position.                                                               *)
PC == {"measuring", "refused", "idle", "called", "reading", "closed"}

Built == pc \in {"idle", "called", "reading", "closed"}

Part == [end : Offset, pos : Offset]

PartBytes(i, off, n) == [k \in 1 .. n |-> <<i, off + k - 1>>]

Init ==
    /\ \E n \in PartCounts :
          \E lens \in [1 .. n -> PartLens] :
             parts = [i \in 1 .. n |-> [end |-> lens[i], pos |-> 0]]
    /\ starts = <<>>
    /\ pos = 0
    /\ acc = 0
    /\ pc = "measuring"
    /\ want = 0
    /\ ret = NoOutcome

-----------------------------------------------------------------------------
(* ConcatSource::new.  A failure drops every part.                         *)

Refuse ==
    /\ pc' = "refused"
    /\ starts' = <<>> /\ acc' = 0
    /\ UNCHANGED <<parts, pos, want, ret>>

next_part == Len(starts) + 1

Buggy_Overflows == FALSE
Overflows       == acc + parts[next_part].end > MaxOff

MeasurePart ==
    /\ pc = "measuring" /\ next_part <= Len(parts)
    /\ ~Overflows
    /\ starts' = Append(starts, acc)
    /\ acc' = acc + parts[next_part].end
    /\ parts' = [parts EXCEPT ![next_part].pos = parts[next_part].end]
    /\ UNCHANGED <<pos, pc, want, ret>>

TotalOverflows ==
    /\ pc = "measuring" /\ next_part <= Len(parts)
    /\ Overflows
    /\ Refuse

(* The trailing total is pushed, and the first part, if any, rewound.      *)
FinishTable ==
    /\ pc = "measuring" /\ next_part > Len(parts)
    /\ starts' = Append(starts, acc)
    /\ parts' = [i \in DOMAIN parts |->
                    IF i = 1 THEN [parts[i] EXCEPT !.pos = 0] ELSE parts[i]]
    /\ acc' = 0
    /\ pc' = "idle"
    /\ UNCHANGED <<pos, want, ret>>

NewFails ==
    /\ pc = "measuring" /\ parts # <<>>
    /\ IoErrors # {}
    /\ Refuse

-----------------------------------------------------------------------------
(* Read and Seek.                                                          *)

total_len == starts[Len(starts)]

Buggy_Holds(i, p) == starts[i] <= p /\ p <= starts[i + 1]
Holds(i, p)       == starts[i] <= p /\ p < starts[i + 1]

(* The first part that holds offset p; None at or past the end.            *)
segment_for(p) ==
    LET holding == {i \in 1 .. Len(parts) : Holds(i, p)}
    IN  IF p >= total_len \/ holding = {} THEN None
        ELSE CHOOSE i \in holding : \A j \in holding : i <= j

Return(outcome) ==
    /\ ret' = outcome
    /\ pc' = "idle"
    /\ want' = 0

ReadCall(k) ==
    /\ pc = "idle"
    /\ pc' = "called"
    /\ want' = k
    /\ UNCHANGED <<parts, starts, pos, acc, ret>>

ReadEmpty ==
    /\ pc = "idle"
    /\ Return(Outcome("empty", <<>>))
    /\ UNCHANGED <<parts, starts, pos, acc>>

ReadPastEnd ==
    /\ pc = "called" /\ segment_for(pos) = None
    /\ Return(Outcome("eof", <<>>))
    /\ UNCHANGED <<parts, starts, pos, acc>>

idx   == segment_for(pos)
intra == pos - starts[idx]

Buggy_SeekPart ==
    /\ pc = "called" /\ idx # None
    /\ parts' = IF intra = 0 THEN parts ELSE [parts EXCEPT ![idx].pos = intra]
    /\ pc' = "reading"
    /\ UNCHANGED <<starts, pos, acc, want, ret>>

SeekPart ==
    /\ pc = "called" /\ idx # None
    /\ parts' = [parts EXCEPT ![idx].pos = intra]
    /\ pc' = "reading"
    /\ UNCHANGED <<starts, pos, acc, want, ret>>

(* (seg_end - pos) as usize keeps the low bits only.                       *)
remaining_in_seg == (starts[idx + 1] - pos) % UsizeSpan

Buggy_Asked == want
Asked       == Smaller(want, remaining_in_seg)

(* A read never crosses into the next part.                                *)
ReadPart ==
    /\ pc = "reading"
    /\ LET part == parts[idx] IN
       \E n \in 1 .. Smaller(Asked, part.end - part.pos) :
          /\ Return(Outcome("bytes", PartBytes(idx, part.pos, n)))
          /\ pos' = pos + n
          /\ parts' = [parts EXCEPT ![idx].pos = @ + n]
    /\ UNCHANGED <<starts, acc>>

(* Nothing asked for, or nothing there any more: part.read answers Ok(0),  *)
(* and so does the composite, in the middle of the stream.                 *)
ReadNothing ==
    /\ pc = "reading"
    /\ Asked = 0 \/ parts[idx].pos >= parts[idx].end
    /\ Return(Outcome("eof", <<>>))
    /\ UNCHANGED <<parts, starts, pos, acc>>

(* part.seek or part.read fails.                                           *)
ReadFails ==
    /\ (pc = "called" /\ idx # None) \/ pc = "reading"
    /\ \E e \in IoErrors : Return(Outcome(e, <<>>))
    /\ \E p \in StrayPositions \union {parts[idx].pos} :
          parts' = [parts EXCEPT ![idx].pos = p]
    /\ UNCHANGED <<starts, pos, acc>>

SeekTo(from) == Resolve(from, pos, total_len)

SeekRefused(from) ==
    /\ pc = "idle" /\ SeekTo(from) = None
    /\ Return(Outcome("InvalidInput", <<>>))
    /\ UNCHANGED <<parts, starts, pos, acc>>

Seek(from) ==
    /\ pc = "idle" /\ SeekTo(from) # None
    /\ pos' = SeekTo(from)
    /\ Return(Outcome("seeked", <<>>))
    /\ UNCHANGED <<parts, starts, acc>>

Close ==
    /\ pc = "idle"
    /\ pc' = "closed"
    /\ UNCHANGED <<parts, starts, pos, acc, want, ret>>

(* Another process changes the file behind a part.                         *)
PartResized ==
    /\ Built /\ pc # "closed"
    /\ \E i \in DOMAIN parts, n \in ResizedLens :
          parts' = [parts EXCEPT ![i].end = n]
    /\ UNCHANGED <<starts, pos, acc, pc, want, ret>>

Over == pc \in {"refused", "closed"} /\ UNCHANGED vars

-----------------------------------------------------------------------------
New  == MeasurePart \/ TotalOverflows \/ FinishTable \/ NewFails
Read == \/ \E k \in ReadSizes : ReadCall(k)
        \/ ReadEmpty \/ ReadPastEnd \/ SeekPart
        \/ ReadPart \/ ReadNothing \/ ReadFails
Next == \/ New \/ Read
        \/ \E from \in SeekFroms : SeekRefused(from) \/ Seek(from)
        \/ Close \/ PartResized \/ Over

Spec == Init /\ [][Next]_vars

-----------------------------------------------------------------------------
(* Properties.                                                             *)

(* Types; no start, total or cursor leaves the range of a u64.             *)
TypeOK ==
    /\ parts \in Seq(Part)
    /\ starts \in Seq(Offset) /\ Len(starts) <= Len(parts) + 1
    /\ pos \in Offset /\ acc \in Offset
    /\ pc \in PC
    /\ want \in Nat

(* The table and the search send every offset of the stream to a part with *)
(* at least one byte of it from there on: no offset falls between two      *)
(* parts, and an empty part, wherever it stands, is never read from.       *)
RightPart ==
    Built => \A p \in 0 .. total_len - 1 :
                LET i == segment_for(p) IN
                /\ i # None
                /\ starts[i] <= p /\ p < starts[i + 1]

(* What RightPart rests on.  The starts never decrease, and the parts      *)
(* entered so far cover the total counted so far without a gap; past new   *)
(* the table has one entry more than there are parts.  A read under way    *)
(* has its part in position.                                               *)
StartAfter(i) == IF i < Len(starts) THEN starts[i + 1] ELSE acc

Sorted == \A i, j \in 1 .. Len(starts) : i <= j => starts[i] <= starts[j]

Covered == \A p \in 0 .. acc - 1 :
              \E i \in 1 .. Len(starts) : starts[i] <= p /\ p < StartAfter(i)

Table ==
    /\ Sorted
    /\ pc = "measuring" =>
          /\ Len(starts) <= Len(parts)
          /\ \A i \in 1 .. Len(starts) : starts[i] <= acc
          /\ Covered
    /\ Built =>
          /\ Len(starts) = Len(parts) + 1
          /\ \A p \in 0 .. total_len - 1 :
                \E i \in 1 .. Len(parts) : Holds(i, p)
    /\ pc = "reading" => idx # None /\ parts[idx].pos = intra

(* The inductive invariant.                                                *)
IInv == TypeOK /\ Table

(* A read that brings bytes brings them from one part, from the cursor on, *)
(* in order, moves the cursor past them and not past the part's place in   *)
(* the stream, however much longer the part has become.                    *)
BytesInPlace ==
    [][pc = "reading" /\ pc' = "idle" /\ ret'.kind = "bytes" =>
          \E i \in 1 .. Len(parts) :
             /\ starts[i] <= pos /\ pos < pos' /\ pos' <= starts[i + 1]
             /\ ret'.data = PartBytes(i, pos - starts[i], pos' - pos)]_vars

(* Where each of the parts begins if the lengths are added up, and what    *)
(* the stream's length should be: of no interest once the sum overflows.   *)
SumBefore(ps) ==
    LET sum[i \in 1 .. Len(ps) + 1] ==
          IF i = 1 THEN 0 ELSE sum[i - 1] + ps[i - 1].end
    IN  sum

LengthToBe ==
    LET sum == SumBefore(parts)[Len(parts) + 1]
    IN  IF sum \in Offset THEN sum ELSE 0

(* Offsets whose byte the part that held it has lost.                      *)
Lost == {p \in 0 .. total_len - 1 :
            \E i \in 1 .. Len(parts) :
                /\ starts[i] <= p /\ p < starts[i + 1]
                /\ p - starts[i] >= parts[i].end}

(* An outcome with the bytes of the parts by their offsets in the stream.  *)
Absolute(outcome) ==
    [outcome EXCEPT !.data = [k \in DOMAIN @ |-> starts[@[k][1]] + @[k][2]]]

(* The composite implements the plain stream of SeekableStream over its    *)
(* parts one after the other: whatever the parts' own cursors, the short   *)
(* reads and the failed calls, every byte comes from the right place of    *)
(* the right part, in order, and a read ends early only where a part has   *)
(* lost bytes.                                                             *)
Stream == INSTANCE SeekableStream WITH
    end      <- IF Built THEN total_len ELSE LengthToBe,
    missing  <- IF Built THEN Lost ELSE {},
    pending  <- IF pc \in {"called", "reading"} THEN want ELSE 0,
    closed   <- pc = "closed",
    Failures <- IoErrors,
    ret      <- Absolute(ret)

ImplementsStream == Stream!Spec

(* What it rests on besides the table: the starts are the sums of the      *)
(* lengths so far, nothing has been answered before the table is built,    *)
(* and a read under way has been asked for something.                      *)
Sums ==
    pc = "measuring" =>
        /\ acc = SumBefore(parts)[next_part]
        /\ \A i \in 1 .. Len(starts) : starts[i] = SumBefore(parts)[i]

Calls ==
    /\ ~Built => ret = NoOutcome
    /\ pc \in {"called", "reading"} => want > 0

RInv == IInv /\ Sums /\ Calls

(* A usize that holds whatever a u64 holds.                                *)
WideUsize == UsizeSpan > MaxOff
=============================================================================
