------------------------------ MODULE SubSource ------------------------------
(***************************************************************************)
(* The window of sub.rs: [base, base + len) of an inner source presented   *)
(* as a stream of its own, and stream_len, the length probe its            *)
(* constructor runs.                                                       *)
(*                                                                         *)
(* The inner source is any seekable source: reads may be short, every call *)
(* may fail and then leaves its cursor anywhere, and once the window is    *)
(* made the file behind it may be cut short or grow.  (A change during     *)
(* construction is one before or after the length is measured, which is    *)
(* another initial length or a later change.)                              *)
(*                                                                         *)
(* Each action is one call on the inner source with the code around it.    *)
(* An operator named Buggy... is the one that follows it with a plausible  *)
(* mistake, kept to check that the properties notice.                      *)
(***************************************************************************)
EXTENDS Offsets

CONSTANTS
    Windows,         \* the <<base, len>> pairs a caller asks for
    InnerLens,       \* lengths the inner source may have
    StartPositions,  \* where it may stand when it is handed over
    UsizeSpan,       \* number of values of a usize
    IoErrors,        \* error kinds of the calls on the inner source
    ReadSizes,       \* the non-zero buffer sizes a caller passes to read
    SeekFroms        \* the SeekFrom values a caller passes to seek

ASSUME WindowAssumption ==
    /\ Windows \subseteq Offset \X Offset
    /\ InnerLens \subseteq Offset
    /\ StartPositions \subseteq Offset
    /\ UsizeSpan \in Nat \ {0}

ASSUME CallerAssumption ==
    /\ IoErrors \subseteq STRING \ {"none", "bytes", "eof", "empty", "seeked"}
    /\ ReadSizes \subseteq 1 .. UsizeSpan - 1
    /\ SeekFroms \subseteq SeekFrom

VARIABLES
    base, len, pos,  \* the fields of SubSource
    inner_end,       \* the inner source: its length now,
    inner_pos,       \* and its cursor
    saved,           \* locals of stream_len: the cursor to go back to,
    inner_len,       \* and the length it measured
    pc,              \* where the call in progress is
    want,            \* length of the buffer of the read in progress, else 0
    ret              \* outcome of the last completed call

inner == <<inner_end, inner_pos>>
probe == <<saved, inner_len>>
vars  == <<base, len, pos, inner_end, inner_pos, saved, inner_len,
           pc, want, ret>>

(* new and stream_len run through new, measuring, restoring and fitting;   *)
(* a read is called, then reading once the inner source is in position.    *)
PC == {"new", "measuring", "restoring", "fitting", "refused",
       "idle", "called", "reading", "closed"}

Built == pc \in {"idle", "called", "reading", "closed"}

Init ==
    /\ \E w \in Windows : base = w[1] /\ len = w[2]
    /\ pos = 0
    /\ inner_end \in InnerLens
    /\ inner_pos \in StartPositions
    /\ saved = 0 /\ inner_len = 0
    /\ pc = "new"
    /\ want = 0
    /\ ret = NoOutcome

-----------------------------------------------------------------------------
(* SubSource::new.  A failure anywhere drops the inner source.             *)

Buggy_window_end == (base + len) % (MaxOff + 1)
window_end       == base + len

Overflows == window_end > MaxOff

Refuse ==
    /\ pc' = "refused"
    /\ saved' = 0 /\ inner_len' = 0
    /\ UNCHANGED <<base, len, pos, inner, want, ret>>

NewOverflows ==
    /\ pc = "new" /\ Overflows
    /\ Refuse

SavePosition ==
    /\ pc = "new" /\ ~Overflows
    /\ saved' = inner_pos
    /\ pc' = "measuring"
    /\ UNCHANGED <<base, len, pos, inner, inner_len, want, ret>>

(* seek(End(0)); the seek back is skipped when nothing moved.              *)
Buggy_Moved == saved > 0 /\ saved # inner_end
Moved       == saved # inner_end

MeasureInner ==
    /\ pc = "measuring"
    /\ inner_len' = inner_end
    /\ inner_pos' = inner_end
    /\ pc' = IF Moved THEN "restoring" ELSE "fitting"
    /\ UNCHANGED <<base, len, pos, inner_end, saved, want, ret>>

RestorePosition ==
    /\ pc = "restoring"
    /\ inner_pos' = saved
    /\ pc' = "fitting"
    /\ UNCHANGED <<base, len, pos, inner_end, probe, want, ret>>

Buggy_Fits == base <= inner_len
Fits       == window_end <= inner_len

WindowTooLong ==
    /\ pc = "fitting" /\ ~Fits
    /\ Refuse

SeekToBase ==
    /\ pc = "fitting" /\ Fits
    /\ inner_pos' = base
    /\ saved' = 0 /\ inner_len' = 0
    /\ pc' = "idle"
    /\ UNCHANGED <<base, len, pos, inner_end, want, ret>>

NewFails ==
    /\ \/ pc = "new" /\ ~Overflows
       \/ pc \in {"measuring", "restoring"}
       \/ pc = "fitting" /\ Fits
    /\ IoErrors # {}
    /\ Refuse

-----------------------------------------------------------------------------
(* Read and Seek.                                                          *)

Return(outcome) ==
    /\ ret' = outcome
    /\ pc' = "idle"
    /\ want' = 0

ReadCall(k) ==
    /\ pc = "idle"
    /\ pc' = "called"
    /\ want' = k
    /\ UNCHANGED <<base, len, pos, inner, probe, ret>>

ReadEmpty ==
    /\ pc = "idle"
    /\ Return(Outcome("empty", <<>>))
    /\ UNCHANGED <<base, len, pos, inner, probe>>

PastEnd == pos >= len

ReadPastEnd ==
    /\ pc = "called" /\ PastEnd
    /\ Return(Outcome("eof", <<>>))
    /\ UNCHANGED <<base, len, pos, inner, probe>>

(* The inner source is put in position before each read, wherever an       *)
(* earlier call that failed may have left it.                              *)
Buggy_InnerOffset == IF pos = 0 THEN inner_pos ELSE base + pos
InnerOffset       == base + pos

SeekInner ==
    /\ pc = "called" /\ ~PastEnd
    /\ inner_pos' = InnerOffset
    /\ pc' = "reading"
    /\ UNCHANGED <<base, len, pos, inner_end, probe, want, ret>>

(* (len - pos) as usize keeps the low bits only.                           *)
remaining == (len - pos) % UsizeSpan

Asked == Smaller(want, remaining)

ReadInner ==
    /\ pc = "reading"
    /\ \E n \in 1 .. Smaller(Asked, inner_end - inner_pos) :
          /\ Return(Outcome("bytes", Bytes(inner_pos, n)))
          /\ pos' = pos + n
          /\ inner_pos' = inner_pos + n
    /\ UNCHANGED <<base, len, inner_end, probe>>

(* Nothing asked for, or nothing there: inner.read answers Ok(0).          *)
ReadNothing ==
    /\ pc = "reading"
    /\ Asked = 0 \/ inner_pos >= inner_end
    /\ Return(Outcome("eof", <<>>))
    /\ UNCHANGED <<base, len, pos, inner, probe>>

(* inner.seek or inner.read fails.                                         *)
ReadFails ==
    /\ (pc = "called" /\ ~PastEnd) \/ pc = "reading"
    /\ \E e \in IoErrors : Return(Outcome(e, <<>>))
    /\ inner_pos' \in Offset
    /\ UNCHANGED <<base, len, pos, inner_end, probe>>

SeekTo(from) == Resolve(from, pos, len)

SeekRefused(from) ==
    /\ pc = "idle" /\ SeekTo(from) = None
    /\ Return(Outcome("InvalidInput", <<>>))
    /\ UNCHANGED <<base, len, pos, inner, probe>>

(* Only the window's cursor moves; the inner seek is left to the next read.*)
Seek(from) ==
    /\ pc = "idle" /\ SeekTo(from) # None
    /\ pos' = SeekTo(from)
    /\ Return(Outcome("seeked", <<>>))
    /\ UNCHANGED <<base, len, inner, probe>>

(* The window is dropped, or taken apart by into_inner.                    *)
Close ==
    /\ pc = "idle"
    /\ pc' = "closed"
    /\ UNCHANGED <<base, len, pos, inner, probe, want, ret>>

(* Another process changes the file.                                       *)
InnerResized ==
    /\ Built /\ pc # "closed"
    /\ inner_end' \in InnerLens
    /\ UNCHANGED <<base, len, pos, inner_pos, probe, pc, want, ret>>

Over == pc \in {"refused", "closed"} /\ UNCHANGED vars

-----------------------------------------------------------------------------
New  == \/ NewOverflows \/ SavePosition \/ MeasureInner \/ RestorePosition
        \/ WindowTooLong \/ SeekToBase \/ NewFails
Read == \/ \E k \in ReadSizes : ReadCall(k)
        \/ ReadEmpty \/ ReadPastEnd \/ SeekInner
        \/ ReadInner \/ ReadNothing \/ ReadFails
Next == \/ New \/ Read
        \/ \E from \in SeekFroms : SeekRefused(from) \/ Seek(from)
        \/ Close \/ InnerResized \/ Over

Spec == Init /\ [][Next]_vars

-----------------------------------------------------------------------------
(* Properties.                                                             *)

(* Types; no offset, base + pos included, leaves the range of a u64.       *)
TypeOK ==
    /\ base \in Offset /\ len \in Offset /\ pos \in Offset
    /\ inner_end \in InnerLens /\ inner_pos \in Offset
    /\ saved \in Offset /\ inner_len \in Offset
    /\ pc \in PC
    /\ want \in Nat
    /\ pc = "called" /\ ~PastEnd => InnerOffset \in Offset

(* What the properties rest on: past the overflow check the window lies    *)
(* within the offsets; the length measured is current until the window is  *)
(* built; a read under way has its inner source in position.               *)
Locals ==
    /\ pc \notin {"new", "refused"} => base + len \in Offset
    /\ pc \in {"restoring", "fitting"} => inner_len = inner_end
    /\ want > 0 <=> pc \in {"called", "reading"}
    /\ pc = "reading" => inner_pos = base + pos /\ pos < len

(* stream_len leaves the cursor where it found it, though it skips the     *)
(* seek back in one case.                                                  *)
ProbeRestores == pc = "fitting" => inner_pos = saved

(* A window is made only if all of its bytes are there: none of those a    *)
(* reader of the fresh window can ask for is missing.                      *)
BornWhole == [][~Built /\ Built' => base' + len' <= inner_end']_vars

(* The inductive invariant.                                                *)
IInv == TypeOK /\ Locals /\ ProbeRestores

(* What the caller is told, in the window's own offsets; and the offsets   *)
(* whose bytes the inner source has lost.                                  *)
Relative(outcome) ==
    Outcome(outcome.kind,
            [i \in DOMAIN outcome.data |-> outcome.data[i] - base])

Lost == {p \in 0 .. len - 1 : base + p >= inner_end}

(* The window implements the plain stream of SeekableStream over its own   *)
(* bytes: it never serves a byte from outside [base, base + len), never    *)
(* one from the wrong place after a failed call, and ends early only where *)
(* the inner source has lost bytes.                                        *)
Stream == INSTANCE SeekableStream WITH
    end      <- len,
    missing  <- IF Built THEN Lost ELSE {},
    pending  <- IF pc \in {"called", "reading"} THEN want ELSE 0,
    closed   <- pc = "closed",
    Failures <- IoErrors,
    ret      <- Relative(ret)

ImplementsStream == Stream!Spec

(* What the refinement needs: a usize at least as wide as a u64.           *)
WideUsize == UsizeSpan > MaxOff

(* The module's documentation promises up to len - pos bytes and the end   *)
(* only then.  Where a usize is narrower than a u64 a window with a    *)
(* multiple of UsizeSpan bytes left answers Ok(0) in the middle.           *)
EofIsTrue ==
    [][ret'.kind = "eof" /\ want # 0 /\ want' = 0
          => PastEnd \/ base + pos >= inner_end]_vars
=============================================================================
