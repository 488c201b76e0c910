--------------------------- MODULE BufferedSource ---------------------------
(***************************************************************************)
(* The prefetching wrapper of buffered.rs: a worker thread that owns the   *)
(* inner source and fills a ring ahead of the cursor, and the reader that  *)
(* is served from the ring.  They share RingState under one mutex and wake *)
(* each other through two condition variables, not_full (the worker waits) *)
(* and not_empty (the reader waits, at most prefetch_timeout).             *)
(*                                                                         *)
(* Each action is one critical section of the mutex, or the call the       *)
(* worker makes on the inner source with the mutex released.  A thread     *)
(* that waits on a condition variable holds nothing; a notify moves it     *)
(* back to the point where it re-acquires the mutex.                       *)
(*                                                                         *)
(* An operator named Buggy... is no part of the model: it is the operator  *)
(* that follows it with a plausible mistake, kept to check that the        *)
(* properties notice.                                                      *)
(***************************************************************************)
EXTENDS Offsets

CONSTANTS
    MinBlock,        \* smallest worker block (4096 in build)
    ReqCapacity,     \* the four knobs as the caller sets them on the builder
    ReqBlock,
    ReqNum,
    ReqDen,
    TotalLen,        \* length of the inner source as probed by build
    StartPositions,  \* where the inner source may stand when it is wrapped
    InnerEnds,       \* where an inner read may find the end; {TotalLen} unless
                     \* the inner source grows or shrinks under the wrapper
    ErrKinds,        \* fatal error kinds of an inner read
    SeekErrKinds,    \* error kinds of an inner seek
    Interrupts,      \* may an inner read answer Interrupted?
    Timeouts,        \* may prefetch_timeout expire before the worker is done?
    SpuriousWakes,   \* may a condition variable wake without a notify?
    ReadSizes,       \* the non-zero buffer sizes a caller passes to read
    SeekFroms        \* the SeekFrom values a caller passes to seek

NoErr == "none"      \* err when it is None

ASSUME KnobAssumption ==
    /\ MinBlock \in Nat \ {0}
    /\ ReqCapacity \in Nat /\ ReqBlock \in Nat
    /\ ReqNum \in Nat /\ ReqDen \in Nat

ASSUME SourceAssumption ==
    /\ TotalLen \in Offset
    /\ StartPositions \subseteq Offset
    /\ InnerEnds \subseteq Offset
    /\ ErrKinds \subseteq STRING \ {NoErr, "bytes", "eof", "Interrupted"}
    /\ SeekErrKinds \subseteq STRING \ {NoErr}

ASSUME EnvironmentAssumption ==
    /\ {Interrupts, Timeouts, SpuriousWakes} \subseteq BOOLEAN
    /\ ReadSizes \subseteq Nat \ {0}
    /\ SeekFroms \subseteq SeekFrom

-----------------------------------------------------------------------------
(* The effective knobs, fixed by build.                                    *)

(* A fraction is brought below 1; a zero denominator means no lookback.    *)
Buggy_sanitise(num, den) == IF den = 0 THEN <<0, 1>> ELSE <<num, den>>
sanitise_lookback(num, den) ==
    IF den = 0        THEN <<0, 1>>
    ELSE IF num >= den THEN <<den - 1, den>>
    ELSE                    <<num, den>>

block_size == Larger(ReqBlock, MinBlock)
capacity   == Larger(ReqCapacity, 4 * block_size)
lookback   == sanitise_lookback(ReqNum, ReqDen)

(* Bytes kept behind the cursor for short backward seeks.                  *)
rear == (capacity * lookback[1]) \div lookback[2]

-----------------------------------------------------------------------------
VARIABLES
    \* RingState, under the mutex
    buf,          \* prefetched bytes, oldest first
    ring_start,   \* offset of buf[1] in the inner source
    eof,          \* the worker met the end at the ring's tail
    err,          \* sticky error kind, or NoErr
    worker_dead,  \* the worker exited after storing err
    target_pos,   \* a seek the worker has not acted on yet, or None
    stop,         \* the reader is gone
    \* the worker thread
    wpc,          \* where the worker is
    target,       \* the seek it is carrying out, or None
    to_read,      \* how much it asks of the inner source
    inner_pos,    \* the inner source's own cursor
    read_result,  \* what the inner source answered
    \* the reader thread
    pos,          \* the reader's cursor
    rpc,          \* where the reader is
    want,         \* length of the buffer of the read in progress, else 0
    ret           \* outcome of the last completed call

ring   == <<buf, ring_start, eof, err, worker_dead, target_pos, stop>>
worker == <<wpc, target, to_read, inner_pos, read_result>>
reader == <<pos, rpc, want, ret>>
vars   == <<buf, ring_start, eof, err, worker_dead, target_pos, stop,
            wpc, target, to_read, inner_pos, read_result,
            pos, rpc, want, ret>>

(* phase1 is the top of the worker's loop, parked its wait on not_full,    *)
(* deposit phase 3.  The reader is reading from the moment read is called  *)
(* or woken, asleep in wait_timeout, expired once that wait has timed out. *)
WorkerPC == {"phase1", "parked", "seeking", "reading", "deposit", "exited"}
ReaderPC == {"idle", "reading", "asleep", "expired",
             "dropping", "joining", "dropped"}

RingEnd  == ring_start + Len(buf)
Full     == Len(buf) = capacity

Buggy_PastEnd(p) == p > TotalLen
PastEnd(p)       == p >= TotalLen

Init ==
    /\ pos \in StartPositions
    /\ buf = <<>>
    /\ ring_start = pos
    /\ eof = (pos = TotalLen)
    /\ err = NoErr
    /\ worker_dead = FALSE
    /\ target_pos = None
    /\ stop = FALSE
    /\ wpc = "phase1"
    /\ target = None
    /\ to_read = 0
    /\ inner_pos = pos
    /\ read_result = NoOutcome
    /\ rpc = "idle"
    /\ want = 0
    /\ ret = NoOutcome

-----------------------------------------------------------------------------
(* Steps several actions share.                                            *)

NotifyReader == rpc' = IF rpc = "asleep" THEN "reading" ELSE rpc
Buggy_NotifyWorker == wpc' = wpc
NotifyWorker == wpc' = IF wpc = "parked" THEN "phase1" ELSE wpc

(* VecDeque::drain(..n) and the matching advance of ring_start.            *)
Drain(n) ==
    /\ buf' = SubSeq(buf, n + 1, Len(buf))
    /\ ring_start' = ring_start + n

(* The worker stores a fatal error and its thread ends.                    *)
Die(kind) ==
    /\ err' = kind
    /\ worker_dead' = TRUE
    /\ wpc' = "exited"
    /\ target' = None /\ to_read' = 0 /\ read_result' = NoOutcome
    /\ NotifyReader
    /\ UNCHANGED <<buf, ring_start, eof, target_pos, stop,
                   inner_pos, pos, want, ret>>

(* A call of the reader's completes.                                       *)
Return(outcome) ==
    /\ ret' = outcome
    /\ rpc' = "idle"
    /\ want' = 0

-----------------------------------------------------------------------------
(* The worker, phase 1: obey stop and seeks, wait while there is nothing   *)
(* to fetch, else choose how much to fetch.                                *)

WorkerStop ==
    /\ wpc = "phase1" /\ stop
    /\ wpc' = "exited"
    /\ UNCHANGED <<ring, target, to_read, inner_pos, read_result, reader>>

TakeTarget ==
    /\ wpc = "phase1" /\ ~stop /\ target_pos # None
    /\ target' = target_pos
    /\ target_pos' = None
    /\ buf' = <<>>
    /\ ring_start' = target_pos
    /\ eof' = PastEnd(target_pos)
    /\ err' = NoErr
    /\ wpc' = "seeking"
    /\ NotifyReader
    /\ UNCHANGED <<worker_dead, stop, to_read, inner_pos, read_result,
                   pos, want, ret>>

(* inner.seek runs unlocked.  Only the worker sees the inner cursor, so    *)
(* the call and the lock taken right after it are one step.                *)
SeekInner ==
    /\ wpc = "seeking"
    /\ inner_pos' = target
    /\ target' = None
    /\ wpc' = "phase1"
    /\ UNCHANGED <<ring, to_read, read_result, reader>>

SeekInnerFails ==
    /\ wpc = "seeking"
    /\ \E e \in SeekErrKinds : Die(e)

NothingAsked == wpc = "phase1" /\ ~stop /\ target_pos = None

Park ==
    /\ NothingAsked
    /\ eof \/ Full
    /\ wpc' = "parked"
    /\ UNCHANGED <<ring, target, to_read, inner_pos, read_result, reader>>

Buggy_FillSize == block_size
FillSize       == Smaller(capacity - Len(buf), block_size)

BeginFill ==
    /\ NothingAsked
    /\ ~eof /\ ~Full
    /\ to_read' = FillSize
    /\ wpc' = "reading"
    /\ UNCHANGED <<ring, target, inner_pos, read_result, reader>>

(* Phase 2: inner.read, unlocked.  A short read is always possible.        *)
InnerAnswers(outcome) ==
    /\ wpc = "reading"
    /\ read_result' = outcome
    /\ wpc' = "deposit"
    /\ to_read' = 0
    /\ inner_pos' = inner_pos + Len(outcome.data)
    /\ UNCHANGED <<ring, target, reader>>

InnerReads ==
    \E end \in InnerEnds :
        \/ \E n \in 1 .. Smaller(to_read, end - inner_pos) :
              InnerAnswers(Outcome("bytes", Bytes(inner_pos, n)))
        \/ inner_pos >= end /\ InnerAnswers(Outcome("eof", <<>>))

InnerFails       == \E e \in ErrKinds : InnerAnswers(Outcome(e, <<>>))
InnerInterrupted == Interrupts /\ InnerAnswers(Outcome("Interrupted", <<>>))

(* Phase 3: under the mutex again.  The reader may have sought or left     *)
(* while the inner source was read; what was read is then thrown away.     *)
BackToPhase1 ==
    /\ wpc' = "phase1"
    /\ read_result' = NoOutcome
    /\ UNCHANGED <<target, to_read, inner_pos>>

Discard ==
    /\ wpc = "deposit"
    /\ target_pos # None \/ stop
    /\ BackToPhase1
    /\ UNCHANGED <<ring, reader>>

Buggy_Wanted == wpc = "deposit" /\ ~stop
Wanted == wpc = "deposit" /\ target_pos = None /\ ~stop

DepositBytes ==
    /\ Wanted /\ read_result.kind = "bytes"
    /\ buf' = buf \o read_result.data
    /\ BackToPhase1
    /\ NotifyReader
    /\ UNCHANGED <<ring_start, eof, err, worker_dead, target_pos, stop,
                   pos, want, ret>>

Buggy_DepositEof ==
    /\ Wanted /\ read_result.kind = "eof"
    /\ BackToPhase1
    /\ UNCHANGED <<ring, reader>>

DepositEof ==
    /\ Wanted /\ read_result.kind = "eof"
    /\ eof' = TRUE
    /\ BackToPhase1
    /\ NotifyReader
    /\ UNCHANGED <<buf, ring_start, err, worker_dead, target_pos, stop,
                   pos, want, ret>>

RetryInterrupted ==
    /\ Wanted /\ read_result.kind = "Interrupted"
    /\ BackToPhase1
    /\ UNCHANGED <<ring, reader>>

Buggy_DepositError ==
    /\ Wanted /\ read_result.kind \in ErrKinds
    /\ err' = read_result.kind
    /\ BackToPhase1
    /\ NotifyReader
    /\ UNCHANGED <<buf, ring_start, eof, worker_dead, target_pos, stop,
                   pos, want, ret>>

DepositError ==
    /\ Wanted /\ read_result.kind \in ErrKinds
    /\ Die(read_result.kind)

WorkerWakesSpuriously ==
    /\ SpuriousWakes /\ wpc = "parked"
    /\ wpc' = "phase1"
    /\ UNCHANGED <<ring, target, to_read, inner_pos, read_result, reader>>

-----------------------------------------------------------------------------
(* The reader: read.                                                       *)

ReadCall(k) ==
    /\ rpc = "idle"
    /\ rpc' = "reading"
    /\ want' = k
    /\ UNCHANGED <<ring, worker, pos, ret>>

ReadEmpty ==
    /\ rpc = "idle"
    /\ Return(Outcome("empty", <<>>))
    /\ UNCHANGED <<ring, worker, pos>>

(* The top of read's loop: on the call, after a wake-up, and after a wait  *)
(* that expired to find an error or the end in the meantime.               *)
AtLoopTop == \/ rpc = "reading"
             \/ rpc = "expired" /\ (err # NoErr \/ eof)

(* The loop's first branch, "reader behind ring start", has no action: its *)
(* condition pos < ring_start is never met (ReaderInWindow).               *)
rel  == pos - ring_start
Hit  == 0 <= rel /\ rel < Len(buf)
Miss == rel >= Len(buf)

(* What a read that consumed the ring's first `consumed` bytes lets go of. *)
Buggy_Excess(consumed) == consumed - rear + 1
Excess(consumed)       == consumed - rear

(* Serve what the ring holds, then let go of what lies more than rear      *)
(* bytes behind the new cursor and tell the worker there is room.          *)
ReadHit ==
    /\ AtLoopTop /\ Hit
    /\ LET n      == Smaller(Len(buf) - rel, want)
           excess == Excess(rel + n)
       IN  /\ Return(Outcome("bytes", SubSeq(buf, rel + 1, rel + n)))
           /\ pos' = pos + n
           /\ IF excess > 0
                THEN Drain(excess) /\ NotifyWorker
                ELSE UNCHANGED <<buf, ring_start, wpc>>
    /\ UNCHANGED <<eof, err, worker_dead, target_pos, stop,
                   target, to_read, inner_pos, read_result>>

Buggy_ReadError ==
    /\ AtLoopTop /\ Miss /\ err # NoErr
    /\ Return(Outcome(err, <<>>))
    /\ err' = NoErr
    /\ UNCHANGED <<buf, ring_start, eof, worker_dead, target_pos, stop,
                   worker, pos>>

ReadError ==
    /\ AtLoopTop /\ Miss /\ err # NoErr
    /\ Return(Outcome(err, <<>>))
    /\ UNCHANGED <<ring, worker, pos>>

ReadEof ==
    /\ AtLoopTop /\ Miss /\ err = NoErr
    /\ eof \/ PastEnd(pos)
    /\ Return(Outcome("eof", <<>>))
    /\ UNCHANGED <<ring, worker, pos>>

(* Nothing to serve: a full ring behind the cursor is drained down to the  *)
(* lookback, then the reader waits; the mutex is held throughout.          *)
MakeRoom == IF Full THEN Drain(Len(buf) - rear) /\ NotifyWorker
                    ELSE UNCHANGED <<buf, ring_start, wpc>>

Buggy_ReadWait ==
    /\ AtLoopTop /\ Miss /\ err = NoErr
    /\ ~eof /\ ~PastEnd(pos)
    /\ rpc' = "asleep"
    /\ UNCHANGED <<ring, worker, pos, want, ret>>

ReadWait ==
    /\ AtLoopTop /\ Miss /\ err = NoErr
    /\ ~eof /\ ~PastEnd(pos)
    /\ MakeRoom
    /\ rpc' = "asleep"
    /\ UNCHANGED <<eof, err, worker_dead, target_pos, stop,
                   target, to_read, inner_pos, read_result, pos, want, ret>>

WaitExpires ==
    /\ Timeouts /\ rpc = "asleep"
    /\ rpc' = "expired"
    /\ UNCHANGED <<ring, worker, pos, want, ret>>

Buggy_ReadTimedOut ==
    /\ rpc = "expired" /\ err = NoErr /\ ~eof
    /\ rpc' = "reading"
    /\ UNCHANGED <<ring, worker, pos, want, ret>>

ReadTimedOut ==
    /\ rpc = "expired" /\ err = NoErr /\ ~eof
    /\ Return(Outcome("TimedOut", <<>>))
    /\ UNCHANGED <<ring, worker, pos>>

ReaderWakesSpuriously ==
    /\ SpuriousWakes /\ rpc = "asleep"
    /\ rpc' = "reading"
    /\ UNCHANGED <<ring, worker, pos, want, ret>>

-----------------------------------------------------------------------------
(* The reader: seek.                                                       *)

Buggy_SeekTo(from) ==
    from.off + CASE from.whence = "Start"   -> 0
                 [] from.whence = "Current" -> pos
                 [] from.whence = "End"     -> TotalLen
SeekTo(from) == Resolve(from, pos, TotalLen)
InWindow(p)  == ring_start <= p /\ p <= RingEnd

SeekRefused(from) ==
    /\ rpc = "idle" /\ SeekTo(from) = None
    /\ Return(Outcome("InvalidInput", <<>>))
    /\ UNCHANGED <<ring, worker, pos>>

SeekInside(from) ==
    /\ rpc = "idle" /\ SeekTo(from) # None
    /\ InWindow(SeekTo(from))
    /\ pos' = SeekTo(from)
    /\ Return(Outcome("seeked", <<>>))
    /\ UNCHANGED <<ring, worker>>

(* The ring is emptied here, under the mutex, and not left to the worker.  *)
Buggy_RestartRing(p) == UNCHANGED <<buf, ring_start, eof>>
RestartRing(p) == buf' = <<>> /\ ring_start' = p /\ eof' = PastEnd(p)

(* The error of a dead worker stays.                                       *)
Buggy_ErrAfterSeek == NoErr
ErrAfterSeek       == IF worker_dead THEN err ELSE NoErr

SeekRestart(from) ==
    /\ rpc = "idle" /\ SeekTo(from) # None
    /\ ~InWindow(SeekTo(from))
    /\ target_pos' = SeekTo(from)
    /\ RestartRing(SeekTo(from))
    /\ err' = ErrAfterSeek
    /\ pos' = SeekTo(from)
    /\ NotifyWorker
    /\ Return(Outcome("seeked", <<>>))
    /\ UNCHANGED <<worker_dead, stop, target, to_read, inner_pos, read_result>>

(* The reader: drop.  stop is set under the mutex, the notifies follow     *)
(* with the mutex released, then the worker is joined.                     *)
DropStop ==
    /\ rpc = "idle"
    /\ stop' = TRUE
    /\ rpc' = "dropping"
    /\ UNCHANGED <<buf, ring_start, eof, err, worker_dead, target_pos,
                   worker, pos, want, ret>>

Buggy_DropNotify ==
    /\ rpc = "dropping"
    /\ rpc' = "joining"
    /\ UNCHANGED <<ring, worker, pos, want, ret>>

DropNotify ==
    /\ rpc = "dropping"
    /\ NotifyWorker
    /\ rpc' = "joining"
    /\ UNCHANGED <<ring, target, to_read, inner_pos, read_result,
                   pos, want, ret>>

DropJoin ==
    /\ rpc = "joining" /\ wpc = "exited"
    /\ rpc' = "dropped"
    /\ UNCHANGED <<ring, worker, pos, want, ret>>

(* Nothing is left to do once the source is dropped: not a deadlock.       *)
Dropped == rpc = "dropped" /\ UNCHANGED vars

-----------------------------------------------------------------------------
Phase1     == WorkerStop \/ TakeTarget \/ Park \/ BeginFill
Phase2     == InnerReads \/ InnerFails \/ InnerInterrupted
Phase3     == \/ Discard \/ DepositBytes \/ DepositEof
              \/ RetryInterrupted \/ DepositError
WorkerStep == \/ Phase1 \/ SeekInner \/ SeekInnerFails \/ Phase2 \/ Phase3
              \/ WorkerWakesSpuriously

ReadStep   == ReadHit \/ ReadError \/ ReadEof \/ ReadWait \/ ReadTimedOut
DropStep   == DropNotify \/ DropJoin
ReaderCall == \/ \E k \in ReadSizes : ReadCall(k)
              \/ ReadEmpty
              \/ \E from \in SeekFroms :
                    SeekRefused(from) \/ SeekInside(from) \/ SeekRestart(from)
              \/ DropStop
ReaderStep == \/ ReaderCall \/ ReadStep \/ DropStep
              \/ WaitExpires \/ ReaderWakesSpuriously

Next == WorkerStep \/ ReaderStep \/ Dropped

Spec == Init /\ [][Next]_vars

(* Both threads keep being scheduled and inner calls return.  That an      *)
(* inner source answers Interrupted only finitely often before it answers  *)
(* otherwise is the std convention the worker's retry relies on.           *)
(* Nothing forces the caller to make another call or a timeout to expire.  *)
Fairness ==
    /\ WF_vars(Phase1) /\ WF_vars(SeekInner \/ SeekInnerFails)
    /\ WF_vars(Phase2) /\ WF_vars(Phase3)
    /\ SF_vars(InnerReads \/ InnerFails)
    /\ WF_vars(ReadStep) /\ WF_vars(DropStep)

FairSpec == Spec /\ Fairness

-----------------------------------------------------------------------------
(* Properties.                                                             *)

TypeOK ==
    /\ buf \in Seq(Offset) /\ ring_start \in Offset
    /\ eof \in BOOLEAN /\ worker_dead \in BOOLEAN /\ stop \in BOOLEAN
    /\ err \in {NoErr} \union ErrKinds \union SeekErrKinds
    /\ target_pos \in Offset \union {None} /\ target \in Offset \union {None}
    /\ wpc \in WorkerPC /\ rpc \in ReaderPC
    /\ to_read \in 0 .. capacity
    /\ inner_pos \in Offset /\ pos \in Offset
    /\ read_result.kind \in {"none", "bytes", "eof", "Interrupted"}
                              \union ErrKinds
    /\ read_result = Outcome(read_result.kind, read_result.data)
    /\ read_result.data \in Seq(Offset)
    /\ want \in Nat

(* The ring always holds the bytes found at [ring_start, RingEnd) of the   *)
(* inner source, and no more of them than capacity.  A block read before a *)
(* seek and deposited after it, or a drain that advances ring_start by     *)
(* another amount, would break it.                                         *)
RingIsContiguous == buf = Bytes(ring_start, Len(buf)) /\ Len(buf) <= capacity

(* Unless a seek or a stop is pending, what the worker will append next    *)
(* belongs at the ring's tail, wherever the worker is in its loop and      *)
(* whatever the reader drained meanwhile.                                  *)
WorkerAligned ==
    target_pos = None /\ ~stop =>
        /\ wpc \in {"phase1", "parked", "reading"} => inner_pos = RingEnd
        /\ wpc = "seeking" => target = RingEnd
        /\ wpc = "deposit" =>
              LET data == read_result.data IN
              /\ data = Bytes(RingEnd, Len(data))
              /\ inner_pos = RingEnd + Len(data)
              /\ RingEnd + Len(data) <= ring_start + capacity

(* The cursor never leaves the window the ring covers: read's "reader      *)
(* behind ring start" branch is dead code, and a restarting seek has       *)
(* emptied the ring at its own target before anyone can look.              *)
ReaderInWindow ==
    /\ ring_start <= pos /\ pos <= RingEnd
    /\ target_pos # None => target_pos = ring_start /\ buf = <<>>

(* The two threads never wait for each other: while the reader sleeps the  *)
(* worker is alive and awake, with room in the ring, and no verdict (an    *)
(* error, the end) is there that would let the read return.                *)
NoMutualWait ==
    rpc = "asleep" =>
        /\ wpc \notin {"parked", "exited"} /\ ~worker_dead
        /\ err = NoErr /\ ~eof /\ ~PastEnd(pos)
        /\ pos = RingEnd /\ ~Full

(* The worker sleeps only when it has nothing to do: no seek it was told   *)
(* of, no room to fill, and no stop it was not about to be woken for.      *)
WorkerWaitsOnlyWhenIdle ==
    wpc = "parked" => /\ target_pos = None
                      /\ eof \/ Full
                      /\ stop => rpc = "dropping"

(* An error is stored exactly when the worker died of it, and the worker's *)
(* thread is over only for that or because it was told to stop.            *)
ErrorMeansDead ==
    /\ (err # NoErr) <=> worker_dead
    /\ worker_dead => wpc = "exited"
    /\ wpc = "exited" => worker_dead \/ stop

(* What the invariants above rest on: where the reader is, against stop    *)
(* and the size it asked for; where the worker is, against its locals; and *)
(* the ring within the range of offsets.                                   *)
Locals ==
    /\ stop <=> rpc \in {"dropping", "joining", "dropped"}
    /\ want > 0 <=> rpc \in {"reading", "asleep", "expired"}
    /\ wpc = "seeking" => target # None
    /\ wpc = "reading" /\ target_pos = None /\ ~stop =>
          to_read <= capacity - Len(buf)
    /\ wpc = "deposit" /\ read_result.kind # "bytes" =>
          read_result.data = <<>>
    /\ RingEnd <= MaxOff

(* The inductive invariant.                                                *)
IInv ==
    /\ TypeOK
    /\ RingIsContiguous
    /\ WorkerAligned
    /\ ReaderInWindow
    /\ NoMutualWait
    /\ WorkerWaitsOnlyWhenIdle
    /\ ErrorMeansDead
    /\ Locals

(* No step, of either thread, clears or replaces a stored error: a seek or *)
(* the worker's own reset must not lose the reason the stream died of.     *)
StickyError == [][err # NoErr => err' = err]_vars

(* Once the worker is dead every read is answered from the ring or with    *)
(* the reason it died of: never with an end that was not reached, nor with *)
(* a TimedOut after waiting for bytes nobody will bring.                   *)
ReadReturnsNow == want # 0 /\ want' = 0

DeadReadsSayWhy ==
    [][worker_dead /\ ReadReturnsNow => ret'.kind \in {"bytes", err}]_vars

(* Only a restarting seek gives up the lookback: whenever the ring's start *)
(* moves otherwise, rear bytes behind the cursor are still held.           *)
LookbackKept ==
    [][ring_start' # ring_start /\ target_pos' = target_pos
          => pos' - ring_start' >= rear]_vars

(* Ring, worker and waits implement the plain stream of SeekableStream: a  *)
(* read in any of its waits is pending there, and every worker step is a   *)
(* stutter.                                                                *)
Stream == INSTANCE SeekableStream WITH
    end      <- TotalLen,
    missing  <- {},
    pending  <- IF rpc \in {"reading", "asleep", "expired"} THEN want ELSE 0,
    closed   <- stop,
    Failures <- ErrKinds \union SeekErrKinds

ImplementsStream == Stream!Spec

(* That refinement needs an inner source that keeps the length build saw,  *)
(* and rests on what the ring and the flags then say about the end.        *)
KeepsItsLength == InnerEnds \subseteq {TotalLen}

EndIsTrue ==
    /\ eof => RingEnd >= TotalLen
    /\ buf # <<>> => RingEnd <= TotalLen
    /\ wpc = "deposit" /\ read_result.kind = "bytes" => inner_pos <= TotalLen
    /\ wpc = "deposit" /\ read_result.kind = "eof" => inner_pos >= TotalLen
    /\ rpc \in {"asleep", "expired"} => ~PastEnd(pos)

(* The README says an Interrupted of the inner source is retried and not   *)
(* fatal.  inner.read's is; inner.seek's is stored and surfaced for good.  *)
InterruptedIsRetried == ret.kind # "Interrupted"

(* The README and read's own comment say a read at or past the probed      *)
(* length reports the end immediately.  Bytes prefetched beyond that       *)
(* length, from an inner source that grew, are served first.               *)
PastTheEndIsEof ==
    [][PastEnd(pos) /\ ReadReturnsNow => ret'.kind = "eof"]_vars

(* A read returns even when no timeout ever rescues it, as long as the     *)
(* inner source answers; this is the deadlock the fuzzer once found.       *)
ReadReturns == rpc \in {"reading", "asleep", "expired"} ~> rpc = "idle"

(* A read returns whatever the worker does, even if it hangs in the inner  *)
(* source or its thread is gone: the timer is enough, as the comment on    *)
(* the wait says (buffered.rs:488-489).  Only the reader's own steps and   *)
(* the expiry of its wait are assumed to come, and that the wait is not    *)
(* broken off for no reason for ever, as each time it starts anew (491).   *)
StuckWorkerVisible ==
    /\ WF_vars(ReadStep) /\ WF_vars(WaitExpires)
    /\ <>[][~ReaderWakesSpuriously]_vars
    => ReadReturns

(* Dropping the source ends: the worker is always woken and joined.        *)
DropCompletes == rpc = "dropping" ~> rpc = "dropped"

(* A restarting seek is acted on, whatever the worker was doing.           *)
SeekServed == target_pos # None ~> target_pos = None \/ worker_dead \/ stop

(* Once the cursor rests, the worker fills the ring or reaches the end and *)
(* then sleeps: it never spins, whatever calls the reader still makes.     *)
WorkerSettles ==
    <>[][FALSE]_pos => <>[](wpc \in {"parked", "exited"})
=============================================================================
