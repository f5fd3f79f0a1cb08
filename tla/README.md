# http-serve in TLA+

TLA+ modules, TLC models and TLAPS proofs for the `http-serve` crate. Paths are
relative to the repository's checkout as `src/`, so the crate's own sources are
`src/src/*.rs`.

## The system

`http-serve` answers GET and HEAD requests in two ways. `serve` takes an
`Entity` (length, etag, date, byte ranges on demand) and decides about
conditional and range headers; `streaming_body` returns a `BodyWriter` that the
application fills while hyper sends. Both produce a `Body`, which hyper polls.

| Component | State | Operations | What is hard | What makes it correct |
|---|---|---|---|---|
| `chunker.rs` | `Arc<Mutex<Shared>>`: queue, its byte count, waker, end or error; the `Writer`'s buffer | `write`, `flush`, `abort`, drop; `poll_next`, `size_hint`, `is_end_stream` | two threads, wakeups after the lock is released, task migration, abort against queued data | bytes in order, a clean end means a complete body, no wakeup lost, hints exact |
| `body.rs` | `BodyStream`, `ExactLenStream.remaining` | `poll_frame`, `size_hint`, `is_end_stream` | entity streams that are short, long or fail | Content-Length bytes or an error |
| `serving.rs`, second half | est. length, part headers, `MultipartStream.state` and `remaining` | `serve_inner`, `prepare_multipart`, `MultipartStream::poll_next` | u64 overflow, state machine in one integer, polls after an error | lengths and framing agree with the bytes |
| `range.rs` | the ranges so far | `parse` | closed and half-open intervals, u64 boundaries, partly invalid headers | the ranges asked for, within the entity |
| `serving.rs`, first half, and `etag.rs` | none | `parse_modified_hdrs`, If-Range, `any_match`, `none_match` | combinations of five headers, changes within a second | no 304 for a stale copy, no mix of versions |
| `gzip.rs` | `Inner`: Raw, Gzipped, Dead | `write`, `flush`, `abort`, drop | destructor of the encoder on the error path | an aborted body stays aborted, a finished one has its trailer |
| `lib.rs` | builder options | `should_gzip`, `parse_qvalue`, `build` | header combinations | RFC 7231 preference |
| `file.rs`, `platform.rs` | open file, length, mtime | `get_range` as chunked reads | the file changes meanwhile, read errors | exactly the range or an error |
| `dir.rs` | directory handle | `get` | `.gz` lookup, path validation | stays inside the directory |

Interactions: the application's thread calls the `Writer`; hyper's task polls
the `Reader` through `Body`; they share the mutex and the waker. `serve` calls
`range::parse`, the etag functions and the `Entity`; `MultipartStream` opens one
`ExactLenStream` per part on the entity's streams.

## Modules

| Module | Models | Properties by |
|---|---|---|
| `ByteStream` | what a streaming body promises (abstract) | refinement from `Chunker` |
| `Chunker`, `ChunkerProofs` | `chunker.rs` and the task that polls it | TLC and TLAPS |
| `BodyWriter`, `BodyWriterProofs` | `gzip.rs` and `StreamingBodyBuilder` over `Chunker`; `GzEncoder` as it uses the writer | TLC and TLAPS |
| `ExactLenStream` | `ExactLenStream` of `body.rs`, used by `RangeBody` and `FileEntity` | the runs that use it |
| `RangeBody`, `RangeBodyProofs` | `serving.rs` from the resolved ranges on, `MultipartStream` | TLC and TLAPS |
| `Range`, `RangeProofs` | `range::parse` | TLC and TLAPS |
| `Serve`, `ServeProofs` | `parse_modified_hdrs`, If-Range, statuses, `etag.rs`, a caching client | TLC and TLAPS |
| `AcceptEncoding`, `AcceptEncodingProofs` | `should_gzip` and `parse_qvalue` of `lib.rs`, with a reference after RFC 7231 | `FsDir` and TLAPS |
| `FileEntity` | `file.rs` and the Unix side of `platform.rs`, over a file that changes | `FsDir` |
| `FsDir`, `MCFsDir`, `FsDirProofs` | `dir.rs`, as `examples/serve_dir.rs` uses it, over the two above | TLC and TLAPS |

### Chunker

A byte is its position in the body, so a `Vec<u8>` is an interval `[from, to)`
and order, loss and duplication are visible. Each critical section is one step;
`Waker::wake`, called after the lock is released, is a step of its own (`Wake`),
with the waker in `waking` in between. `Writer` methods take `&mut self`, so the
next call waits for the wake. `flush_helper` is split by its returns:
`FlushNothing`, `FlushShared`, `FlushBroken`; `poll_next` by its returns:
`PollChunk`, `PollPending`, `PollEnd`, `PollErr`. `Vec::reserve_exact` may
allocate more than asked, by up to `Slack`. The executor is external: a notified
task is run and polls, may be woken for other reasons, may be replaced by another
task (`Migrate`) and may drop the body (`DropReader`, no code runs).

`ByteStream` has five counters and flags. The mapping: `released` is what left
the buffer while `state` is `Ok`, and falls back to what was delivered on abort.

### BodyWriter

`BodyWriter` extends `Chunker` and conjoins the chunker's actions with its own
state: `build` may call `DropWriter` (for HEAD the writer goes out of scope),
`write` and `flush` of a raw body are `Write` and `Flush`, `abort` is `Abort`
followed by the drop of what was inside. The encoder is external and known by
what it does with the `Writer` it owns: it writes a header first, keeps
compressed bytes that the next call writes out (`Emit`), takes any part of a
slice (`Compress`), hands over everything on flush (`Sync`, `FlushEncoded`), and
its destructor finishes the stream, adds the footer and drops the errors. Each
of its writes is a step, so the consumer polls in the middle of a call or of a
destructor; `op` says how far the call has come, and the next one waits for it.

Setting `self.0 = Inner::Dead` drops the previous value, which for a gzipped body
runs that destructor: `DropInner` starts it and `Continue` runs it to its end.
`marks` records which position of the compressed body makes how much of the
application's data decodable; `Decodable` and `WholeStream` are read off it. In
practice the chunker's calls fail only after an abort, since nothing else leaves
the state `Ok` while the `Writer` is alive; `ErrorIsFinal` is about that path.

### RangeBody

Only lengths matter: a range is its size, a header its number of bytes. The two
loops that build a response and the loop in `MultipartStream::poll_next` run one
iteration per step. A step that takes more than `remaining` panics with overflow
checks (`DebugBuild`) and wraps without. The entity's stream is external and may
give any number of bytes, fail, end or be pending at any time; once it ended it
stays at its end. The consumer may poll after an error: hyper does not, and the
properties about that are the findings below.

### Range

A spec is what splitting and parsing leave of it: two numbers of u64 width, or
`Bad`. `Resolve` is the arithmetic of one iteration; `last + 1` panics in a
build with overflow checks (`checked`) and wraps otherwise. `Asked` is the
reference: the positions a spec selects by RFC 7233, as a set. `AskedInOrder`
says that there is a function `source` from the kept ranges to the specs, in the
header's order, by which each range is what its spec asks for. What `RangeBody`
takes for granted of its ranges in `Init`, and `ServeFile` of `FsDir` of the one
it reads, is what `parse` returns (`RangesSuitBodies` in `RangeProofs`).

### Serve

One request at a time, as `serve` reads its entity once. The client sends each
conditional header absent, `*`, unparseable, or with a validator from its cache;
the entity may be replaced at any time, with a later mtime that may lie ahead of
the clock. Times are half seconds, header dates whole seconds, so changes within
a second happen. Strong tags differ for every version, weak ones for every
meaning (two versions share one).

`if_range` is the match on If-Range, with the two things each branch decides: the
Range header that is left, and `include_entity_headers_on_range`. `Deliver` is
the match on what `range::parse` returns, with its own decision about the
headers: `true` for a whole body, also when many ranges fall back to one, the
branch's value for parts, of which an answer to HEAD has none. The client keeps
what it receives: a complete body, or a partial one it asked for without
If-Range, replaces its copy, validators and entity headers; a partial one with
If-Range continues the copy. `HeadersKept` says that it never ends up with a copy
without its headers, nor gets a part without them that its copy does not belong
to.

### AcceptEncoding

A header is the sequence of its parts, each a coding and the digits of its
weight. `should_gzip` is computed as the code does, with the last occurrence of a
coding and the fallback to `*`; `GzipPreferred` says it after RFC 7231 section
5.3.4, by the position that speaks for a coding. Only the first
`Accept-Encoding` line is read by the code, and `u16::from_str` also takes a
leading plus sign ("0.+5"), which `parse_qvalue` keeps.

### FileEntity and FsDir

Every system call is a step, and between two of them files are replaced,
removed or rewritten, which is one step each and gives the file a time of its
own: `mtime` then also names the content, and a chunk in `received` carries the
content it was read from. The directory has two names, `a` and `a.gz`, each a
file, a directory, something else or nothing, and an inode of its own, `Root`,
which `serve_dir` asks for as `.` when the URI is `/`. A path is its segments;
`validate_path` looks at them as the code does. A request runs through `Get`,
`OpenGz`, `StatGz` (a directory with the suffix is ignored), `Open`, `Stat`,
`Reply` (listing, redirect or entity, as `serve_dir` does; a listing may panic on
one of its unwraps, which is the answer `unwrap`), `ServeFile` (the whole
file or a range, as `serve` decides) and `Poll`. A poll reads at most
`ChunkSize` bytes at the position of the `unfold` stream, under an
`ExactLenStream`; a read may be short, and one of zero bytes is the error
`UnexpectedEof`. Failures of system calls and of the blocking pool are the
actions `BlockingFails` and `PollFails`.

`EtagVouches` depends on changes being atomic and each having an mtime of its
own; a rewrite within the granularity of the file system's clock that also keeps
length and inode is not seen by the code.

## Runs

| Run | Bounds | Shows |
|---|---|---|
| `Chunker` | chunks of 2 or 3 bytes, 4 bytes, writes of up to 3, 2 tasks; 54 352 states | a body of two chunks and a rest, with every order of write, flush, abort, drop, poll, wake and move |
| `BodyWriter` | chunks of 2 bytes, 10 bytes in all, header 1, footer 2, one byte of output at a time, 2 bytes from the application, 2 tasks; 190 376 states | raw, gzip and HEAD bodies, with flushes, aborts and drops before, between and after the writes, and polls inside each call |
| `RangeBody` | entity of 7 bytes, 3 ranges, headers of 1 or 2, u64 of 0..8; 333 823 states | estimates on both sides of the entity's length, sums beyond the integer, short, long and failing parts, empty ranges |
| `Range` | 3 specs, lengths and numbers 0..3; 563 792 states | all boundaries of first, last, len and the integer, dropped specs between kept ones |
| `Serve` | 3 versions, 2 seconds; 8 104 686 states | every combination of the conditional headers against an unchanged, changed or equivalent entity, copies continued and replaced by parts |
| `FsDir` | files of up to 3 bytes read by 2, 4 inodes, 2 changes, paths of up to 3 segments, headers of up to 3 parts with 4 weights; 756 354 states | both lookups with changes around each, reads that are short, fail or come after a truncation, headers that fall back, tie and do not parse |

The bounds are enough because the code treats all positions beyond the first
boundary alike: a third chunk or part adds no new relation between the queue,
the buffer and the consumer, and where there are theorems, which hold for every
value of the constants, they confirm it. In `BodyWriter` the output of the
compressor, the header and the footer each straddle a chunk at some point. In
`FsDir` two changes are enough for one on each side of a system call; the fourth
inode is for a file that is replaced while it is open, and one of the
four weights stands for each way a weight can compare: none, zero, the default of
`identity`, unparseable.

What each property says stands above its definition. Deadlock is not checked:
a body, a header or a bounded number of requests comes to an end.

Fairness, in four runs. `Chunker`: a method that took the waker goes on to call
it, a notified task is run and a running task polls; these are the executor's
and the thread scheduler's guarantees. Nothing is assumed of the producer: it
need not flush or drop. `RangeBody`: the response is built and polled, and an
entity's stream is not pending for ever and does not return empty chunks for
ever (the code has no timeout; a stream that does either does keep the body from
ending). That the entity's stream ends is not assumed. `BodyWriter`: as for the
chunker, and the response is built and a call that has begun goes on to its end;
the application itself need not call anything. `FsDir`: a system call returns, a
body is polled; neither a failure nor a change of the file is ever assumed to
happen, nor that they stop happening.

## Where comments and code disagree

Six runs end in a violation; each checks what a comment, an assertion or a test
says.

* `Chunker_UnflushedIgnoredOnDrop`: `chunker.rs:134` says unflushed data is
  ignored on drop; `Drop` queues it.
* `Chunker_DroppedReaderDiscovered`: `chunker.rs:277` and `gzip.rs:42` speak of
  discovering a dropped receiver; a dropped `Reader` changes nothing in `Shared`,
  writes go on succeeding and the queue grows.
* `RangeBody_ExactLenFused`: `body.rs:209` says "fuse"; a later poll asks the
  inner stream again and can return another error.
* `RangeBody_MultipartFused`: `serving.rs:410` says "Fuse"; after an error
  in a part, a later poll indexes beyond `part_headers` and panics.
* `Range_NoneWasSatisfiable`: a suffix of at least the entity's length is
  answered with 416 although it selects the whole entity.
* `FsDir_MtimeAfterEpoch`: `file.rs:183` expects a modification time after the
  epoch; a file may carry an earlier one, and a request for it panics.

Seen while modelling, without a line of the repository that says otherwise:
`bytes=-0` resolves to an empty range and a 206; a header with last position
2^64 - 1 panics or is called unsatisfiable; `If-Unmodified-Since` is evaluated
also when `If-Match` is present and matches, where RFC 7232 section 3.4 ignores
it; `Last-Modified` is sent without its fraction and compared with it, so a
client that echoes the date of an unchanged file with a fractional mtime gets
412, or a 200 instead of 304 (`RevalidationWorks` promises a 304 by date only for
whole seconds). A file that is compressed in place between the two lookups
(`.gz` created, plain one removed) is answered with 404. `serve_dir`'s redirect,
listing and 404 carry no `Vary`, although a client that accepts gzip may get the
`.gz` file for the same path. `serve_dir`'s listing unwraps on errors of the
directory's iterator and of `fstatat`, so an entry that goes away in between may
panic (its comments say "TODO: don't unwrap").

## Proofs

All theorems are for every value of the constants, from the named assumptions of
the modules: positive capacities and chunk sizes, natural bounds, an entity
length that fits a u64, weights that are sequences of digits (or of the one
symbol for anything else), paths of at least one segment, and three inodes, for
the two names and the directory itself. Each proof module has a lemma per action, a lemma for `[Next]_vars`,
and the theorems that follow from the inductive invariant by PTL. Every invariant
and every action property of the passing runs is stated by a theorem.

* `ChunkerProofs`. `IInv` adds to the properties that what was received, the
  queue and the buffer are contiguous (`QueueInv`), that the buffer is within its
  capacity (`BufferInv`) and how the three sides know of the end (`EndInv`).
  Without `QueueInv`, `DeliveredInOrder` is not inductive: nothing says what the
  next chunk of the queue is. `QueueInv` needs `Ordered`, since contiguity alone,
  being about neighbours, would need induction over the queue to bound a chunk by
  the last one. Action properties (`Fused`, `BrokenPipeIsFinal`,
  `EndStreamFinal`) and the refinement of `ByteStream` follow from `IInv` and its
  primed version, one case per action.
* `BodyWriterProofs`. `BIInv` is the chunker's `IInv` with what a call in progress
  implies (`CallInv`, `EncoderInv`), that an error is only ever reported for a
  body that is broken for good (`BrokenInv`), and where the mark of a flush or of
  a footer lies while it is being written out (`MarkInv`): end of the buffer plus
  what the encoder still holds, a sum that every write of the encoder keeps.
  Without it `CleanEndDecodes` and `FlushIsVisible` speak of marks that a step
  could leave behind. That no write of the encoder exceeds what the chunker's
  model takes (`2 * MaxOut <= MaxWrite`) is an assumption. `BodyUsesChunker`
  shows `BSpec => Spec`, so every theorem of `ChunkerProofs`, the refinement of
  `ByteStream` included, holds of the bodies that applications write.
* `RangeBodyProofs`. `IInv` relates `state`, `sent` and `remaining` of
  `MultipartStream` to `offsets`, the positions at which the parts begin:
  between parts `sent` is the offset of the part, within one `sent` plus what
  the part has left is the offset of the next. That gives
  `remaining >= n` at each subtraction. `Joined` says that an unsent part's
  header and size fill the gap to the next offset.
  `BodiesAdvance` is the safety part of `Terminates`: until a body ends or fails,
  each step takes it to a later phase, a later range, more bytes, a later state
  or into a part, all of them bounded, or is a poll for which the entity's stream
  has nothing. What is left to TLC is that those steps do happen.
* `RangeProofs`. `IInv` adds that no spec already passed was unparseable.
  `RangesAsAsked` needs no induction over the header: the witness `source` is
  extended by the present spec when a range is pushed and is otherwise kept.
  `RangesSuitBodies` composes: after any number of specs the ranges, as sizes,
  are an initial state of `RangeBody` (an instance of it within the module), so
  its theorems hold of what `parse` returns.
* `ServeProofs`. A response is about the state it was computed in, so `IInv` ties
  the four variables together: a copy in the cache has the validators of its
  version, its entity headers, and a date that is older than every later version's time (`CacheInv`,
  with `AtMostOne` copy); the request was made from the present cache
  (`RequestInv`); the response is `serve_inner` of the present entity and request
  (`ResponseInv`). Each property is then a lemma about one state. The dates are
  what `NotModifiedIsFresh` turns on: without `CacheInv` nothing says that a copy
  with an equal date is of an equal version when changes fall within a second.
  `HeadersStayWithCopy` goes through the branches of `if_range` and `Deliver`
  (`IfRangeDecides`, `DeliverExplains`): headers are only left out where a strong
  tag of the request matched, and that tag is of the copy the client has.
* `AcceptEncodingProofs`. `NegotiationByRfc`: the loop of `should_gzip`, with its
  last-wins assignments and fallbacks, decides as `GzipPreferred` does, for
  headers and weights of any length. That there is a last part with a coding,
  the only thing that calls for induction, comes from the library's fact that
  a set of naturals has a least element.
* `FsDirProofs`. `IInv` says that the names and the directory have inodes of their own (`DirInv`),
  what a phase implies of path, encoding and origin (`LookupInv`, `NodeInv`), that
  the `unfold` stream, the `ExactLenStream` and the chunks sent agree on a position
  (`BodyInv`), and that the open file's inode, while it has the mtime of the tag,
  has given no other content (`VouchInv`). The last is not inductive without times
  that never exceed the clock and without the open inode not being given away;
  both are part of it. `RequestsAdvance` is the safety part of `Terminates`: each
  step of the server comes nearer to the answer, sends bytes not sent before, or
  reports the end or an error, and no change to the directory undoes that.

The inductive invariants were first checked by TLC on the runs' bounds.

Only model-checked: liveness (`FlushedIsDelivered`, `EndIsObserved`,
`OutcomeIsReported`, `Terminates` of `RangeBody` and of `FsDir`), since fairness
and ENABLED are outside the prover. For the two `Terminates` the measure is
proved and TLC shows that a step is always possible; for the three others the
theorems say where the data and the end of a body are, and TLC that the wakeups
come.

## Not modelled

* Byte-level work: formatting and parsing of headers and dates, MIME types, the
  text of listings, gzip's compression itself.
* `FsDir::open` and the closing of the directory handle, which happen once and
  outside every request; symbolic links (the code follows them, so "inside the
  directory" is about the path); opening a named pipe, which blocks.
* The Windows side of `platform.rs`, which differs in the system calls it makes.
* `examples/serve_file.rs`, the benches and the fuzz targets: they call the
  library and have no state of their own. `examples/serve_dir.rs` is modelled as
  far as it decides what `FsDir` is asked and what is answered.

## Plan

1. Done: `Chunker` with `ByteStream`, `RangeBody`, `Range`, `Serve`; then
   `BodyWriter`, `AcceptEncoding`, `FileEntity`, `FsDir`; theorems for the
   chunker, `BodyWriter`, `RangeBody` and `Range`; then for `Serve`,
   `AcceptEncoding`, `FsDir`, and the composition of `Range` with `RangeBody`.
2. Open: measures like those of `RangeBody` and `FsDir` for the calls of
   `BodyWriter` (an encoder's call emits a bounded number of chunks), and the
   statement that `FileEntity` is one of the entity streams that `RangeBody`
   allows, which would carry `ContentLengthExact` over to files.
