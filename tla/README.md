# A verification development of oxideav-source

TLA+ models of the byte sources of this crate, checked with TLC on small
instances and, where the text says so, proved with TLAPS for every value of the
constants. `PROJECT.json` lists the runs, the mutants that show each property
can fail, the source lines behind every definition, the hazards and the
theorems.

To check a run: `tlc -config <cfg> <MC module>`; to check the proofs:
`tlapm <module>.tla`.

## 1. Inventory

The crate opens a URI into a byte stream (`Read + Seek`). Drivers, one per
scheme, make streams; wrappers make a stream out of others; one wrapper runs a
thread.

| Component | State it keeps | Operations | Correct when |
|---|---|---|---|
| `BufferedSource` (buffered.rs) | under one mutex: ring `buf` from `ring_start`, `eof`, sticky `err`, `worker_dead`, `target_pos`, `stop`; outside it: the reader's `pos`, the worker's inner source and locals; condition variables `not_full`, `not_empty` | `build`, `read`, `seek`, `drop`; the worker's loop | the ring always holds the right bytes, no call hangs, errors stick and are reported, the whole is a plain stream |
| `BufferedSourceBuilder` (buffered.rs) | four knobs and a timeout | setters, clamps in `build` | the ring has room for four blocks and the lookback is less than the ring, whatever was asked for |
| `SubSource`, `stream_len` (sub.rs) | `base`, `len`, `pos`, the inner source | `new`, `read`, `seek`, `into_inner`; the probe | only the window's bytes, in place, whatever the inner cursor; the probe moves nothing |
| `ConcatSource` (concat.rs) | `parts`, `starts`, `pos` | `new`, `read`, `seek` | every offset comes from the part that holds it; no gap, no overlap |
| `ConcatUri`, concat driver (concat.rs) | none | `new`, parse, format, open each part in order | what is built is what is read back; a failed part fails the open; no concatenation inside another |
| `SliceUri`, slice driver (slice.rs) | none | `new`, parse, format, open the inner URI and window it | what is built is what is read back; canonical decimals only |
| mem table, `MemReader` (mem.rs) | process-wide map under a read-write lock; a reader's shared buffer and `pos` | `put`, `remove`, `clear`, `open_mem`; read, seek | a reader keeps the buffer it opened; opens see the last `put` |
| `DataUri`, data driver (data.rs) | none | `new`, parse, format, open; percent and base64 decoding | decode inverts encode; exactly the RFC's texts are accepted |
| URI grammar (uri.rs) | none | `split`, `scheme_is`, percent decoding | a scheme is never mistaken for a drive letter; decoding is total or an error |
| `FileScope` (scope.rs) | allow and deny roots, `permissive`; one process-wide slot | `allow_dir`, `deny_dir`, `resolve`, `open`, `register_into`, `open_file_scoped` | deny beats allow, also for directories created later; an open uses one scope throughout |
| file driver (file.rs) | none | `open_file` | a bare path is opened as it is, a `file:` path decoded |
| `open_bytes`, `with_defaults`, `register` (lib.rs) | none | dispatch by scheme | each scheme reaches its driver |
| `SourceRegistry`, `ReadSeek`, `BytesSource` | external crate oxideav-core | | |
| tests, fuzz targets, benches | | | claims and input shapes only |

How they interact: a `slice:` URI opens its inner URI through `open_bytes` and
wraps it in a `SubSource`; `concat:` opens every part and wraps them in a
`ConcatSource`; both may nest, and a `BufferedSource` may wrap any of them.
All calls are synchronous, except that a `BufferedSource` hands its inner
source to a worker thread and talks to it through shared state. Two
process-wide tables (mem, scope) are shared by all threads.

What is hard here:

* concurrency in `BufferedSource`: the worker reads outside the mutex while the
  reader seeks, drains, waits or drops (the test suite records one deadlock a
  fuzzer found);
* inner sources that answer short, fail, are interrupted, leave their cursor
  astray, or change length after it was measured once;
* offsets at both ends of `u64`, cursors past the end, `as usize` casts;
* process-wide tables used while another thread replaces their content.

`PROJECT.json` "hazards" lists each of these at its line, with the properties
that watch it or the reason none does yet.

## 2. Plan

Done:

1. `Offsets` and `SeekableStream`, the abstract promise of every source.
2. `BufferedSource`, its proofs and its refinement of `SeekableStream`.
3. `SubSource`, its proofs and its refinement.
4. `ConcatSource`, its proofs and its refinement.
5. `MemTable`, each of whose open readers implements `SeekableStream`, and its
   proofs.
6. `Scope`, against a file system that grows, and its proofs.
7. `UriGrammar`, all the grammars as operators over texts, and `OpenUri`, the
   dispatch with its five drivers over texts typed and composed.
8. `Builder`, the knobs in machine integers, and its proofs.
9. Proofs about 7: every formatter is inverted by its parser, constructors and
   parsers agree, the parsers accept their grammars and nothing else, and
   compositions open to their model.

Next, in order:

10. `BufferedSource` with a clock: each wake-up without progress restarts the
    full `prefetch_timeout`.
11. `SliceOfConcat`: the window over the concatenation, each replaced by the
    detailed module, which together implement one stream.

## 3. Modules

`Offsets` holds what all sources share: the range of a `u64` scaled down to
`0 .. MaxOff`, `add_signed` with both overflows, how a `SeekFrom` resolves, and
what a call returned.

`SeekableStream` is the abstract specification: a cursor over `[0, end)`; a read
begins, then delivers a non-empty prefix of what is left, reports the end, or
fails and moves nothing; seeks resolve or are refused. It is the contract the
shared suite tests/conformance.rs spells out. `end` is fixed when a stream is
made. `missing` are offsets whose bytes the store behind has lost since; only
there may a read end early.

A byte is represented by the offset it was stored at, so "the right byte" is
visible without any content. Everything else that is data (messages, error
texts) is dropped; an error is its kind.

### BufferedSource

| Model | Code |
|---|---|
| `buf` ... `stop` | `RingState`, 50-87 |
| `wpc`, `target`, `to_read`, `inner_pos`, `read_result` | `worker_loop`'s place and locals, 315-396 |
| `rpc`, `want`, `pos`, `ret` | the reader's place in `read`, its cursor, what its last call returned |
| `WorkerStop`, `TakeTarget`, `Park`, `BeginFill` | phase 1, under the mutex, 321-360 |
| `SeekInner`, `SeekInnerFails` | `inner.seek` and the re-acquired mutex, 336-344 |
| `InnerReads`, `InnerFails`, `InnerInterrupted` | phase 2, `inner.read` without the mutex, 362-363 |
| `Discard`, `DepositBytes`, `DepositEof`, `RetryInterrupted`, `DepositError` | phase 3, 365-393 |
| `ReadCall`, `ReadEmpty` | entering `read` |
| `ReadHit`, `ReadError`, `ReadEof`, `ReadWait`, `WaitExpires`, `ReadTimedOut` | one pass of `read`'s loop, 404-501 |
| `SeekRefused`, `SeekInside`, `SeekRestart` | `seek`, 505-548 |
| `DropStop`, `DropNotify`, `DropJoin` | `drop`, 562-573 |

An action is one critical section of the mutex or one call made without it. A
thread that waits on a condition variable is in a state of its own; a notify, a
timeout or a spurious wake-up moves it back to the point where it takes the
mutex again. Three simplifications, none of which hides a behaviour:

* `inner.seek` and the critical section after it are one action, as nobody else
  sees the worker's inner source;
* locals are reset when they are dead, so that states do not differ by them;
* the branch of `read` for a cursor behind `ring_start` is absent. `ReaderInWindow`
  says it cannot be reached, and is proved.

The builder's knobs are constants over the natural numbers and `build` is
`Init`; their width and the failing paths of `build` are in `Builder`.
Wall-clock time is not modelled: a wait may or may not expire, whenever the run
says timeouts happen.

### SubSource and ConcatSource

Both run over inner sources of which only this is assumed: a read at a place
inside the file returns one byte or more, or fails; outside it returns nothing;
any call may fail, and a failed one leaves the inner cursor anywhere
(`StrayPositions` for a part of a concatenation). Each action is one call on an
inner source with the code around it, so a failure can come between the seek
and the read of one `read`. `new` is modelled step by step, with `stream_len`
inlined in the case of the window. The files behind may be resized after
construction; a change during it amounts to another initial length or a later
change.

`(len - pos) as usize` is modelled as `% UsizeSpan`, `checked_add` as a
comparison with `MaxOff`.

### MemTable

| Model | Code |
|---|---|
| `table` | the map behind the lock, a name to its buffer |
| `content` | the buffers (`Arc<Vec<u8>>`) in their memory |
| `Put`, `Remove`, `Clear` | the three functions, each under the write lock throughout |
| `OpenMem`, `OpenFails` | `open_mem`: the name is checked, then looked up and shared under the read lock |
| `buf`, `pos`, `ReadEmpty` ... `Seek`, `Close` | `MemReader`'s state, its calls, and its drop |

A cell is `Free`, and used again at once if TLC likes, when neither the table
nor a reader refers to it. That is the promise of `Arc`, taken as given and not
checked. `Cells` bounds the buffers alive at one time. The answer of `remove` is
not kept.

### Scope

| Model | Code |
|---|---|
| `fs` | what `canonicalize` answers for each path |
| `draft`, `NewScope`, `AllowDir`, `DenyDir` | the builder calls, each with one `canonicalize` |
| `slot`, `Install` | the process-wide scope, and `register_into` |
| `TakeScope`, `NoneInstalled` | `open_file_scoped` cloning the slot under its lock |
| `Canonicalise`, `ResolveFails` | the request resolved, or refused before any policy is consulted |
| `Compare`, `Denied`, `NotDenied`, `Allowed`, `NotAllowed` | the deny roots, then the allow roots, one root at a time |
| `OpenFile` | `File::open` |

The comparison is a step per root because a root whose directory did not exist
when it was configured is canonicalised again at each comparison, and the file
system may change between two of them. `Place` is that rule. `scope.policy` (what
the caller asked for, by the names it used) and `begun` (the file system when the
call began) stand for no code; only properties read them. `is_allowed_path` and
a direct `FileScope::open` are the same steps on a scope that does not change.
`register_into` has the registry to itself while it fills the slot and names the
opener, so it is one action and the registry is no state. `open_file_scoped` is
public as well and may be called before any scope is installed.

A world only grows: directories, files and links appear and nothing is removed
or moved. Between the check and `File::open` a link may be exchanged in a real
file system; the code does not claim anything then and neither does the model.

### UriGrammar and OpenUri

`UriGrammar` holds the pure code of uri.rs, slice.rs, concat.rs and data.rs: for
each typed value its constructor, formatter and parser, the canonical `u64`,
the percent decoder and base64 in both directions. A text is a sequence of
bytes, as a `str` is; a call answers a record of "ok" and a value or of the
error's kind. Every byte the code treats in a way of its own is in the model: a
blank is any of the four base64 skips, and `IsUtf8` is the whole rule. A loop
over a text is a function defined by recursion, which TLC evaluates and the
prover can reason about. Bytes beyond ASCII need not form characters, so more
texts are covered than a `str` can hold.

| Model | Code |
|---|---|
| `split`, `scheme_is`, `has_file_scheme`, `percent_decode_bytes`, `percent_decode_path` | uri.rs, the functions of these names |
| `SliceUri_new`, `_format`, `parse_header`, `parse_slice_uri`, `parse_canonical_u64` | `SliceUri::new`, `format`, `parse` and what they call, slice.rs |
| `ConcatUri_new`, `_format`, `parse_concat_uri`, `Cut`, `Joined` | `ConcatUri::new`, `format`, `parse`; `split('|')` and `join("|")`, concat.rs |
| `DataUri_new`, `_format`, `parse_data_uri`, `Misread`, `Spelled` | `DataUri::new`, its guards, `format`, `parse`, data.rs |
| `encode_base64`, `decode_base64` (`WithoutBlanks`, then `decode_groups`) | `encode_base64_into`, `decode_base64`, a group of four at a time |

`OpenUri` adds the dispatch of `open_bytes` and the drivers, where `slice:` and
`concat:` come back to the dispatch. An opened stream is its bytes: how it is
read and sought is `SubSource`, `ConcatSource` and `MemTable`. `Files` and
`Buffers` stand for the file system and the mem table. `Window` is the check of
`SubSource::new`, `Gathered` the loop of `ConcatUri::open`, which stops at the
first segment that fails, and `Whole` the sum of the lengths in
`ConcatSource::new`. Its behaviours are those of the repository's fuzzers:
`Type` appends a piece to a hostile text (uri_parse, hostile_input),
`WrapInSlice` and `ConcatLeaf` compose a valid URI together with the bytes it
must open to (compose_open).

### Builder

| Model | Code |
|---|---|
| `knobs`, `Init` | `BufferedSourceBuilder` and its default, 138-157 |
| `SetCapacity`, `SetBlockSize`, `SetTimeout`, `SetLookback` | the setters, in any order, any number of times |
| `block_size`, `four_blocks`, `capacity`, `lookback` | the clamps, 204-207 |
| `Build`, `InnerFails`, `Panic` | `build`: done, one of its three calls on the inner source failed, overflow in a checked build or a ring no `VecDeque` can have |
| `rear` | what the built ring keeps behind its reader, 102-107 |

`Checked` says whether the arithmetic of the build panics on overflow (a debug
build) or wraps.

## 4. Runs

| Run | Question | Bounds |
|---|---|---|
| `buffered_safety` | all invariants, action properties, the refinement, and reads whose worker is stuck, every fault on | source of 10, ring of 8, blocks of 2, lookback clamped to 3/4, reads of 1 and 3, starts at 0, at the end, past it, seven seeks |
| `buffered_live` | liveness without help from timeouts or spurious wake-ups, over an inner source that is 4, 6 or 8 long, from read to read, after 6 was probed | ring of 5, lookback of 1, blocks of 1, reads of 1 and 3, seven seeks |
| `buffered_interrupted_seek` | finding 1 | source of 6, ring of 4, reads of 3, three seeks |
| `buffered_grown` | finding 2 | as `buffered_live`, grown to 8, no faults, no lookback |
| `sub_window` | window and probe, with failures and resizing | nine windows over files of 0 to 6, offsets to 7 |
| `sub_narrow` | finding 3 | a `usize` of 4 values, offsets to 7 |
| `concat_parts` | none to three parts, empty ones anywhere, overflow, failures, resizing | parts of 0 to 2, offsets to 5 |
| `mem_table` | a table changed under two open readers | two names, one of them refused by `open_mem`; two buffers of 2 and 1 bytes; three cells; cursors to 3 |
| `open_uri` | do parsers, formatters and constructors agree with each other and the grammar, and does a composition open to its model | six soups of four to six pieces each, three compositions around seven leaves of at most two bytes, numbers to 10 |
| `open_uri_bang` | finding 4 | as `open_uri` |
| `builder_wraps` | finding 5 | a `usize` of 64 values that wraps, blocks up to 20 |
| `scope_policy` | three policies installed over one another while files are opened and directories appear | `/srv`, `/srv/priv`, a link to `/srv`, in five states of existence; three requests |

Why these bounds are enough to be interesting: the ring is smaller than the
source, so it fills, drains, slides and restarts; it holds several blocks and a
lookback that is neither nothing nor all; a read may want more or less than a
block. Seeks reach both ends of the source and of the offset range, step inside
and outside the window, and fail both ways. `MaxOff` lies just past the longest
source, so cursors past the end exist and overflow happens. Windows fit, touch
the end, pass it, overflow, or are empty at either end. Three parts allow an
empty one before, between and after others, and two of them in a row. Three
cells let a reader outlive both the buffer it opened and the one that replaced
it; readers and cells are symmetric, which is sound as only safety is checked.
The policies name one directory twice, through a link and directly, deny below
an allowed directory, and deny a place that may not exist yet. Each soup is made
of the characters one grammar turns on, with a keyword or a run of base64 as one
piece, so that within six pieces numbers reach two digits and pass the largest
`u64` (10, which is also more than any composed stream is long), separators come
first, last and doubled, a `//` appears before and after the split, the total of
a concatenation overflows, an escape is cut short, and padding comes at each
place of two base64 groups. Three compositions nest a slice in a slice, in a
concatenation, and around one. Nothing else is bounded: there is no state
constraint and no limit on the number of calls.

Deadlock is checked in every run but `open_uri` and `open_uri_bang`, whose texts
stop growing at their bound; a dropped, closed, refused or built source stutters on purpose.

What the properties say:

* `RingIsContiguous`, `WorkerAligned`: the ring is `[ring_start, ring_start +
  len)` of the inner source, and what the worker brings next belongs at its
  tail, although the worker reads without the mutex.
* `ReaderInWindow`: the cursor is always covered by the ring.
* `NoMutualWait`, `WorkerWaitsOnlyWhenIdle`: the two threads never wait for each
  other, and the worker parks only on a full ring or at the end.
* `ErrorMeansDead`, `StickyError`, `DeadReadsSayWhy`: an error is stored exactly
  when the worker dies of it, is never cleared, and every later miss reports it.
* `LookbackKept`: what reads give up leaves the lookback behind the cursor.
* `ReadReturns`, `DropCompletes`, `SeekServed`, `WorkerSettles`: liveness, whether
  or not the inner source keeps the length it was probed with.
  `StuckWorkerVisible`: a read returns even if the worker never takes
  another step (an inner source that hangs, a worker that panicked outside the
  mutex), as long as the timer runs.
* `FormatInverts`: what was parsed is read back from its formatted text as the
  same value, and a canonical `slice:` or `concat:` text is reproduced.
* `ConstructorsAgree`: `DataUri::new` and `ConcatUri::new` accept exactly the parts
  that survive being formatted and parsed, among them empty lists, empty segments
  and segments with a `|`; `SliceUri::new` accepts only such parts, and all of them
  that have no `!`. `SliceGuardAgrees` claims the same equivalence of it as of the
  others, and is expected to fail.
* `ParsersFollowGrammar`: the parsers accept exactly the texts described without
  parsing: every way to write a slice, RFC 3986 escapes and the bytes they spell,
  RFC 4648 base64 bit by bit, segments without an empty one; and a path is decoded
  exactly if a scheme was taken off it. The grammars speak of places in the text
  (which ones start a unit, which are no blanks, which is the kth of them) and
  say nothing of how a parser gets there.
* `OpensAsModel`: a composed URI opens to the bytes of its model, and windows
  past its end, or that overflow, are refused.
* `ForwardWindow`: the ring of a built source is more than its lookback.
* `ProbeRestores`, `BornWhole`: `stream_len` leaves the cursor alone although it
  skips a seek; a window exists only if its bytes did.
* `RightPart`, `BytesInPlace`: the table and the search send each offset to the
  part that has it; a read stays in that part even when its file has grown.
* `ReadersAreStreams`: whatever is put, removed or cleared, an open reader is the
  plain stream of the buffer it opened: the refinement of `SeekableStream`, once
  for each reader, from its open to its close.
* `ApprovedIsPermitted`: what is about to be opened lies under an allowed
  directory, and not under a denied one that existed at the call, however and
  whenever the directories came to be.
* `RefusedIsForbidden`: nothing is refused that the policy allowed all along.
* `ImplementsStream`, for the three wrappers: the refinement of `SeekableStream`.

Each property of each passing run has a mutant in `PROJECT.json`: an operator
`Buggy_...` beside the one it replaces, which TLC shows to break the property.

### Fairness

`FairSpec` assumes weak fairness of each phase of the worker, of the reader's
loop and of the steps of `drop`: both threads are scheduled by the operating
system, mutexes are not held for ever, and a call on the inner source returns.
It assumes strong fairness of an inner read answering other than `Interrupted`:
the retry in line 381 relies on the same convention of std, and without it the
code loops for ever. Nothing makes the caller call, a timeout expire, or a
condition variable wake by itself.

`buffered_safety` runs under no fairness of its own: `StuckWorkerVisible` names
as its hypothesis a much weaker one than `FairSpec`'s, fairness of the reader's
own step and of the timer of `wait_timeout`, which is the standard library's
promise, and that spurious wake-ups come to an end, since each of them starts
the wait anew (buffered.rs:491).

### Findings

1. README.md:113 says that `Interrupted` from the inner source is retried;
   `inner.seek`'s (buffered.rs:336) is stored as fatal.
2. README.md:114 says reads at or past the probed length report the end
   immediately; if the inner source has grown and the ring holds bytes beyond
   that length they are served (buffered.rs:415 comes before 468).
3. sub.rs:17 says a read returns `Ok(0)` at the end of the window; where `usize`
   is narrower than `u64` it also does with a multiple of 2^32 bytes left
   (sub.rs:134; concat.rs:132 is the same).
4. README.md:160-162 says the constructors reject only what breaks the round trip,
   and slice.rs:103-108 and data.rs:72-74 that a `!` in the inner URI does;
   `SliceUri::new` (slice.rs:114) refuses it, but it would be read back where it
   was, as the parser cuts at the first `!` (line 198), which ends the length. A
   nested `slice:` is accepted by the parser and cannot be built.
5. buffered.rs:125 says the clamps of `build` let the worker make progress
   regardless of the values handed in; `4 * block_size` (line 205) wraps in a
   release build. With a block of a quarter of the address space (1 GiB on a
   32-bit target) and a small capacity the ring has no bytes: empty, it counts
   as full (line 481), nothing can be freed, and a read spins with the mutex
   held.

Met on the way, without a run: uri.rs:11-12 says a drive letter is one that no
`//` follows, but `split` does not look (`c://x` is a path).

## 5. Proofs

All proofs are for every value of the constants that satisfies the named
assumptions of the modules: any source length, ring, block, lookback fraction,
window, number and length of parts, set of seeks, read sizes, faults.

`BufferedSourceProofs`: the inductive invariant `IInv` is the type invariant,
the safety invariants above and `Locals`. None of them is inductive alone. That
a deposit belongs at the tail needs what the worker was asked for to fit the
room (`Locals`), which the reader only enlarges; that nobody waits on everybody
needs the window (`ReaderInWindow`), as the reader sleeps only at the ring's
end, and that a full drain frees room, which is `KnobFacts`: `rear < capacity`,
from the clamp of the fraction. `StickyError`, `DeadReadsSayWhy` and
`LookbackKept` are action properties proved from `IInv`.

Its second part is the refinement: `BufferedSource` implements `SeekableStream` provided
the inner source keeps the length `build` saw (`KeepsItsLength`), with one more
invariant, `EndIsTrue`: neither `eof` nor the ring says anything untrue about
that end. Finding 2 is why the assumption is needed.

`SubSourceProofs`: types (no offset sum overflows), `ProbeRestores`,
`BornWhole`, and the refinement, provided a `usize` is at least as wide as a
`u64` (`WideUsize`; finding 3 is why).

`ConcatSourceProofs`: types, `RightPart`, `BytesInPlace`. The invariant `Table`
says the starts are sorted and the parts entered so far cover the total counted
so far without a gap; that at most one part holds an offset follows from the
order, that one does from the cover.

Its second part is the refinement: `ConcatSource` implements `SeekableStream`
for any number of parts, provided `WideUsize` holds (line 132 has the cast of
finding 3). Its mapping needs the sum of any prefix of the lengths, a recursive
function; `SumExists` shows that the function is what its equation says, by the
least length for which it were not (`LeastNat`), and everything about it
(`SumFacts`) follows one part at a time. The invariant `RInv` adds to that of
`ConcatSourceProofs` that every start *is* the sum of the lengths before it
(`Sums`): being sorted and without gaps is enough to find the part of an offset,
but only the sums say which offset of the whole a byte of a part is. `Calls`
says that a call in progress wants something.

`BuilderProofs`: whenever arithmetic is checked, or no block of a quarter of
`usize` is asked for (`SmallBlocks`; finding 5 is why), every source `build`
returns satisfies `ForwardWindow` and has room for four blocks
(`RoomForFourBlocks`), for all knobs, widths and orders of the setters. The
invariant says in addition that the block on order does not wrap; the lemma
`SaturatedFraction` is that a proper fraction of a capacity, computed by a
saturating product, is less than it. It is the counterpart in
machine integers of `KnobFacts`, on which the proofs about `BufferedSource` rest.

`MemTableProofs`: types, and for any names, buffers, cells and readers
`ReadersAreStreams`, the refinement for each reader while it is open: a step of
the table or of another reader leaves its buffer, its cursor and its length
alone, since `put` makes a new buffer and changes none. `ClosedAreIdle`
is in the invariant because a call left over from a closed reader could go on to
read the buffer of the next.

`ScopeProofs`: for any growing file system, any policies and any order of
configuration, installation and opening, `ApprovedIsPermitted` and
`RefusedIsForbidden`. What a scope keeps are canonical paths or,
for a directory that does not exist yet, its name; the properties speak of what
was configured. `Stands` relates the two and survives growth: a directory that
has a place keeps it, and one that gets a place is canonicalised at the next
comparison. `Faithful` says the roots of a scope stand for its policy, no less and
no more, also when `allow_dir` adds nothing since the path is there already
(`SuperfluousStands`); `Pending` that a comparison half done still has before it
every root that could decide it; and `Grown(begun, fs)` carries the verdict from
one file system to the later one.

`UriGrammarProofs`: for every text, number and list of segments, and every value
of `MaxU64`,

* `SliceIsReadBack`, `SpelledIsDecoded`, `EncodedIsDecoded`: a slice that is
  formatted, bytes that are percent-encoded and bytes that are in base64 are read
  back as they were (the last two for all bytes of any length);
* `SliceRoundTrip`, `ConcatRoundTrip`, `DataRoundTrip`: whatever a parser accepts
  survives being formatted and parsed again, and a canonical `slice:` or `concat:`
  text comes back unchanged;
* `SliceConstructorAgrees`, `ConcatConstructorAgrees`, `DataConstructorAgrees`: a
  concatenation's or a `data:` URI's constructor refuses exactly what would be read
  back otherwise, a slice's all of that and every `!` (finding 4).

The functions are recursive, so each proof starts by showing that the function
solves its equation at all: `Recursion`, proved from a well-founded order, says
so of any equation that only looks at smaller arguments (`Descends`), once for
all of them. What a function computes follows by induction on a number or on a
sequence (`NumberInduction`, `SeqInduction`, `TextInduction`), stated over the *set*
of the arguments for which the claim holds, so that a lemma can be cited where a
theorem with an operator for a parameter could not. Around those the proofs are
about where a text is cut: the first separator of a text put together from
pieces, some of which have none (`FindBehind`), that a formatted
scheme is split off as it was (`SplitBehind`), that the decimal of a number has
neither a leading zero nor anything but digits, and the arithmetic of a group of
base64 in its three lengths.

`OpenUriProofs`: `open_bytes` looks at shorter texts only, so it is a function on
all texts (`OpenEquation`), and it answers each with bytes or an error of its
drivers (`TypeOK`). `FormatInverts` and `ConstructorsAgree` follow from
`UriGrammarProofs` for all soups and leaves. `OpensAsModel` is proved for every
depth of nesting from `IInv`: `Composed` says in addition that what is composed
is no authority and, unless it has a `|`, no concatenation, which is what makes
it a legal segment, and that its length is at most its share of
`(MaxSteps + 1) * MaxContent`, which is why no total overflows. `LeafAssumption`
asks of a leaf what compose_open.rs makes its leaves to be; TLC evaluates it on
the seven of `open_uri`.

Its second part is `GrammarFollowed`, that no more is accepted than the grammars
have and that what is accepted means what they say. The invariant behind it is
only that what is typed is a text: `SliceFollows`, `ConcatFollows`,
`PercentFollows`, `Base64Follows` and `DataFollows` hold of every text there is.

* The grammar takes a scheme off as a prefix, with or without `//`, in any case;
  the split looks for the first colon. They agree (`PlainFacts`) since a scheme's
  name has no colon. The one exception, a bare path, which the split calls
  `file`, is why `FileSchemes` is stated of the text that is left.
* A slice is read by enumerating the headers of all pairs of `u64` and asking
  which of them starts the text. That there is one reading at most, and the
  parser's, rests on `HeadersRead` and on the round trip of decimals.
* That bars are separated is a statement about neighbours, that no segment is
  empty one about the recursive `Cut`; `CutsFullAll` goes by induction over the
  length, one segment at a time.
* A payload's kth unit, or kth character that is no blank, is defined by counting
  places. A rising sequence of places onto a set counts the set and tells its
  kth member (`OntoCounts`); `Listed` says that a result lists what stands at such
  places, and grows in front (`GrowListed`, `ShiftListed`) as the decoders, which
  recurse on what is left, prepend.
* Base64 is a row of bits cut by six on the one side and by eight on the other:
  `RowOfBits` and `EightAre` show that the two ways to cut 24 bits agree with the
  code's `div` and `mod` by powers of 256 and 64 (`QuadBits`), `GroupSpans` that
  padding cuts the last bytes off, and `UngroupsAll` puts groups in a row.
  `WellPlaced` and `PlacedWell` carry this over blanks.

Assumptions of the proofs are the named ones of the modules, which say what the
constants are, and `KeepsItsLength`, `WideUsize` and `SmallBlocks`, each of which a
finding shows to be needed.

Only model-checked:

* Liveness: a proof needs ENABLED, which is beyond the prover. Every invariant
  and every action property of the passing runs, and every refinement without
  its fairness, is a theorem.

## 6. Not modelled

* Wall-clock deadlines: that each wake-up without progress restarts the timeout
  (buffered.rs:491) needs a clock (plan, 10).
* Poisoned mutexes: an inner source that claims to have read more than it was
  asked for makes the worker panic with the mutex held (buffered.rs:378), after
  which every call panics too. Models assume that a read answers at most what
  was asked.
* A file system in which directories are removed or links moved (scope.rs:266).
* `with_defaults`, `register` and the registry of oxideav-core: five insertions
  into an external table whose lookup is not in the repository.
* The tests, fuzz targets and benches, except as a source of claims and of the
  shape of inputs.
* `len`, `is_empty`, `base` and similar accessors, error texts, logging.
