------------------------------ MODULE Chunker ------------------------------
(***************************************************************************)
(* src/src/chunker.rs: the queue between the thread that produces a        *)
(* streaming body (Writer) and the task that sends it (Reader), shared     *)
(* through Arc<Mutex<Shared>>.                                             *)
(*                                                                         *)
(* Bytes are identified by their position in the body, so a Vec<u8> of     *)
(* consecutive bytes is the half-open interval [from, to).  One critical   *)
(* section of the mutex is one atomic step; what a method does to the      *)
(* Writer's own fields before it takes the lock belongs to the same step   *)
(* (nobody else sees those fields), and Waker::wake, which is called after *)
(* the lock is released, is a step of its own.                             *)
(*                                                                         *)
(* The task that owns the Reader is external (hyper on a tokio runtime):   *)
(* a task that has been notified is run once, running it polls the Reader  *)
(* once, a poll that returns Ready is followed by another, and a poll that *)
(* returns Pending parks the task until its waker is called.  The body may *)
(* be moved to another task, and a task may be notified for other reasons. *)
(***************************************************************************)
EXTENDS Integers, Sequences

CONSTANTS
  Cap,       \* Writer.cap, the chunk size given to with_chunk_size
  Slack,     \* how much more than asked Vec::reserve_exact may allocate
  MaxWrite,  \* bound: length of the slice passed to one write
  MaxBytes,  \* bound: bytes written to the body
  Tasks,     \* the tasks that may own the Reader
  NoTask     \* Option::<Waker>::None

ASSUME CapAssumption == Cap \in Nat \ {0}   \* assert!(cap > 0)
ASSUME SlackAssumption == Slack \in Nat
ASSUME BoundAssumption == MaxWrite \in Nat /\ MaxBytes \in Nat
ASSUME TaskAssumption == Tasks # {} /\ NoTask \notin Tasks

VARIABLES
  state,           \* Shared.state: "Ok", "Err" or "ReaderFused"
  ready,           \* SharedState::Ok.ready
  ready_bytes,     \* SharedState::Ok.ready_bytes
  writer_dropped,  \* SharedState::Ok.writer_dropped
  waker            \* Shared.waker

VARIABLES
  buf,             \* Writer.buf: the bytes [from, to) not yet flushed
  capacity,        \* Writer.buf.capacity()
  writer,          \* "alive" or "dropped"
  waking,          \* the waker taken under the lock and not yet called
  result           \* what the last write or flush returned

VARIABLES
  reader,          \* "alive" or "dropped"
  owner,           \* the task that owns the Reader
  polling,         \* the owner is running and about to poll
  notified,        \* the tasks the executor has to run
  seen,            \* what the last poll_next returned
  failed,          \* some poll_next returned an error
  received         \* the chunks poll_next returned

shared == <<state, ready, ready_bytes, writer_dropped, waker>>
wvars  == <<buf, capacity, writer, waking, result>>
rvars  == <<reader, owner, polling, notified, seen, failed, received>>
vars   == <<shared, wvars, rvars>>

Chunks == [from : Nat, to : Nat]
Size(c) == c.to - c.from

(* Writer.buf after extend_from_slice of the next n bytes of the body.     *)
Extend(b, n) == [b EXCEPT !.to = @ + n]

(* Mutant: the buffer is cloned into the queue instead of taken.           *)
EmptyAfterMutant(b) == b

(* Vec::new(), at the position where the next byte goes.                   *)
EmptyAfter(b) == [from |-> b.to, to |-> b.to]

Init ==
  /\ state = "Ok" /\ ready = <<>> /\ ready_bytes = 0
  /\ writer_dropped = FALSE /\ waker = NoTask
  /\ buf = [from |-> 0, to |-> 0] /\ capacity = 0
  /\ writer = "alive" /\ waking = NoTask /\ result = "Ok"
  /\ reader = "alive" /\ owner \in Tasks /\ polling = FALSE
  /\ notified = {owner} /\ seen = "nothing" /\ failed = FALSE
  /\ received = <<>>
-----------------------------------------------------------------------------
(***************************************************************************)
(* Writer                                                                  *)
(***************************************************************************)

(* Methods take &mut self: one call ends, its wake included, before the    *)
(* next one starts.                                                        *)
WriterReady == writer = "alive" /\ waking = NoTask

(* SharedState::Ok is left, and with it ready, ready_bytes, writer_dropped *)
LeaveOk(next) ==
  /\ state' = next
  /\ ready' = <<>>
  /\ ready_bytes' = 0
  /\ writer_dropped' = FALSE

(* Mutant: the waker is taken and dropped without being called.            *)
TakeWakerMutant ==
  /\ waking' = NoTask
  /\ waker' = NoTask

(* l.waker.take(), to be called once the lock is released.                 *)
TakeWaker ==
  /\ waking' = waker
  /\ waker' = NoTask

(* Mutant: the queue grows and ready_bytes does not.                       *)
EnqueueMutantUncounted(b) ==
  /\ buf' = EmptyAfter(b) /\ capacity' = 0
  /\ ready' = Append(ready, b)
  /\ UNCHANGED ready_bytes

(* Mutant: push_front.                                                     *)
EnqueueMutantFront(b) ==
  /\ buf' = EmptyAfter(b) /\ capacity' = 0
  /\ ready_bytes' = ready_bytes + Size(b)
  /\ ready' = <<b>> \o ready

(* mem::take(&mut self.buf) and ready.push_back of what was taken.         *)
Enqueue(b) ==
  /\ buf' = EmptyAfter(b) /\ capacity' = 0
  /\ ready_bytes' = ready_bytes + Size(b)
  /\ ready' = Append(ready, b)

(* Mutant: an empty buffer returns early when dropping too.                *)
FlushNothingMutant(b, c, dropping) ==
  /\ Size(b) = 0
  /\ buf' = b /\ capacity' = c
  /\ result' = "Ok"
  /\ UNCHANGED <<shared, waking>>

(* Writer::flush_helper for a buffer b of capacity c, by its returns.      *)
FlushNothing(b, c, dropping) ==
  /\ Size(b) = 0 /\ ~dropping
  /\ buf' = b /\ capacity' = c
  /\ result' = "Ok"
  /\ UNCHANGED <<shared, waking>>

(* Mutant: every flush marks the writer as dropped.                        *)
FlushSharedMutant(b, c, dropping) ==
  /\ Size(b) > 0 /\ state = "Ok"
  /\ Enqueue(b)
  /\ writer_dropped' = TRUE
  /\ TakeWaker
  /\ result' = "Ok"
  /\ UNCHANGED state

FlushShared(b, c, dropping) ==
  /\ Size(b) > 0 \/ dropping
  /\ state = "Ok"
  /\ \/ Size(b) > 0 /\ Enqueue(b)
     \/ /\ Size(b) = 0
        /\ buf' = b /\ capacity' = c
        /\ UNCHANGED <<ready, ready_bytes>>
  /\ writer_dropped' = dropping
  /\ TakeWaker
  /\ result' = "Ok"
  /\ UNCHANGED state

(* Mutant: BrokenPipe is reported while the reader is still served.        *)
FlushBrokenMutant(b, c, dropping) ==
  /\ Size(b) > 0
  /\ buf' = b /\ capacity' = c
  /\ result' = "BrokenPipe"
  /\ UNCHANGED <<shared, waking>>

FlushBroken(b, c, dropping) ==
  /\ Size(b) > 0 \/ dropping
  /\ state # "Ok"
  /\ buf' = b /\ capacity' = c
  /\ result' = IF Size(b) > 0 THEN "BrokenPipe" ELSE "Ok"
  /\ UNCHANGED <<shared, waking>>

flush_helper(b, c, dropping) ==
  \/ FlushNothing(b, c, dropping)
  \/ FlushShared(b, c, dropping)
  \/ FlushBroken(b, c, dropping)

(* <Writer as Write>::write of a slice of n bytes.                         *)
Write(n) ==
  /\ WriterReady
  /\ buf.to + n <= MaxBytes
  /\ \E c \in IF capacity = 0 THEN Cap .. Cap + Slack ELSE {capacity} :
       LET remaining == c - Size(buf)
           full      == remaining <= n
           bytes     == IF full THEN remaining ELSE n
       IN IF full
          THEN flush_helper(Extend(buf, bytes), c, FALSE)
          ELSE /\ buf' = Extend(buf, bytes) /\ capacity' = c
               /\ result' = "Ok"
               /\ UNCHANGED <<shared, waking>>
  /\ UNCHANGED <<writer, rvars>>

(* <Writer as Write>::flush                                                *)
Flush ==
  /\ WriterReady
  /\ flush_helper(buf, capacity, FALSE)
  /\ UNCHANGED <<writer, rvars>>

(* Writer::abort                                                           *)
Abort ==
  /\ WriterReady
  /\ \/ /\ state = "Ok"
        /\ LeaveOk("Err")
        /\ TakeWaker
     \/ /\ state # "Ok"
        /\ UNCHANGED <<shared, waking>>
  /\ UNCHANGED <<buf, capacity, writer, result, rvars>>

(* <Writer as Drop>::drop                                                  *)
DropWriter ==
  /\ WriterReady
  /\ flush_helper(buf, capacity, TRUE)
  /\ writer' = "dropped"
  /\ UNCHANGED rvars

(* w.wake() at the end of abort and of flush_helper.                       *)
Wake ==
  /\ waking # NoTask
  /\ notified' = notified \cup {waking}
  /\ waking' = NoTask
  /\ UNCHANGED <<shared, buf, capacity, writer, result,
                 reader, owner, polling, seen, failed, received>>
-----------------------------------------------------------------------------
(***************************************************************************)
(* Reader: <Reader as Stream>::poll_next, one action per return            *)
(***************************************************************************)

(* The poll returned Ready: the consumer asks for more.                    *)
PollAgain ==
  /\ polling' = FALSE
  /\ notified' = notified \cup {owner}

(* Poll::Ready(Some(Ok(chunk))); the last chunk of a dropped writer leaves *)
(* the state fused.                                                        *)
PollChunk ==
  /\ polling /\ state = "Ok" /\ ready # <<>>
  /\ received' = Append(received, Head(ready))
  /\ IF Tail(ready) # <<>> \/ ~writer_dropped
     THEN /\ ready' = Tail(ready)
          /\ ready_bytes' = ready_bytes - Size(Head(ready))
          /\ UNCHANGED <<state, writer_dropped>>
     ELSE LeaveOk("ReaderFused")
  /\ seen' = "chunk"
  /\ PollAgain
  /\ UNCHANGED <<waker, wvars, reader, owner, failed>>

(* Mutant: the state is left fused (CHANGELOG, 0.4.0-rc.2).                *)
PollPendingMutantFused ==
  /\ polling /\ state = "Ok" /\ ready = <<>> /\ ~writer_dropped
  /\ LeaveOk("ReaderFused")
  /\ waker' = owner
  /\ seen' = "pending"
  /\ polling' = FALSE
  /\ UNCHANGED <<wvars, reader, owner, notified, failed, received>>

(* Mutant: a waker that is already stored is kept.                         *)
PollPendingMutantStale ==
  /\ polling /\ state = "Ok" /\ ready = <<>> /\ ~writer_dropped
  /\ waker' = IF waker = NoTask THEN owner ELSE waker
  /\ seen' = "pending"
  /\ polling' = FALSE
  /\ UNCHANGED <<state, ready, ready_bytes, writer_dropped, wvars,
                 reader, owner, notified, failed, received>>

(* Poll::Pending: the stored waker is made to wake the polling task.       *)
PollPending ==
  /\ polling /\ state = "Ok" /\ ready = <<>> /\ ~writer_dropped
  /\ waker' = owner
  /\ seen' = "pending"
  /\ polling' = FALSE
  /\ UNCHANGED <<state, ready, ready_bytes, writer_dropped, wvars,
                 reader, owner, notified, failed, received>>

(* Poll::Ready(None)                                                       *)
PollEnd ==
  /\ polling
  /\ \/ /\ state = "Ok" /\ ready = <<>> /\ writer_dropped
        /\ LeaveOk("ReaderFused")
     \/ /\ state = "ReaderFused"
        /\ UNCHANGED <<state, ready, ready_bytes, writer_dropped>>
  /\ seen' = "end"
  /\ polling' = FALSE
  /\ UNCHANGED <<waker, wvars, reader, owner, notified, failed, received>>

(* Mutant: the error is cloned and stays in the shared state.              *)
PollErrMutant ==
  /\ polling /\ state = "Err"
  /\ seen' = "error" /\ failed' = TRUE
  /\ polling' = FALSE
  /\ UNCHANGED <<shared, wvars, reader, owner, notified, received>>

(* Poll::Ready(Some(Err(e)))                                               *)
PollErr ==
  /\ polling /\ state = "Err"
  /\ LeaveOk("ReaderFused")
  /\ seen' = "error" /\ failed' = TRUE
  /\ polling' = FALSE
  /\ UNCHANGED <<waker, wvars, reader, owner, notified, received>>

poll_next == PollChunk \/ PollPending \/ PollEnd \/ PollErr

(* Mutant: every state but Ok counts as the end.                           *)
is_end_streamMutant ==
  state = "Ok" => ready_bytes = 0 /\ writer_dropped

(* Reader::is_end_stream                                                   *)
is_end_stream ==
  CASE state = "Ok"          -> ready_bytes = 0 /\ writer_dropped
    [] state = "Err"         -> FALSE
    [] state = "ReaderFused" -> TRUE

(* Reader::size_hint: the lower bound, and whether it is exact.            *)
size_hint ==
  [lower |-> IF state = "Ok" THEN ready_bytes ELSE 0,
   exact |-> state = "Ok" /\ writer_dropped]
-----------------------------------------------------------------------------
(***************************************************************************)
(* The executor and the connection that owns the body (external)           *)
(***************************************************************************)
RunTask ==
  /\ reader = "alive" /\ ~polling /\ owner \in notified
  /\ notified' = notified \ {owner}
  /\ polling' = TRUE
  /\ UNCHANGED <<shared, wvars, reader, owner, seen, failed, received>>

(* The owner is run for another reason, such as socket readiness.          *)
SpuriousWake ==
  /\ reader = "alive" /\ owner \notin notified
  /\ notified' = notified \cup {owner}
  /\ UNCHANGED <<shared, wvars, reader, owner, polling, seen, failed, received>>

(* The body is moved to a task that has not polled it yet.                 *)
Migrate ==
  /\ reader = "alive" /\ ~polling
  /\ \E t \in Tasks \ {owner} :
       /\ owner' = t
       /\ notified' = notified \cup {t}
  /\ UNCHANGED <<shared, wvars, reader, polling, seen, failed, received>>

(* The connection is closed and hyper drops the body.  Reader has no Drop  *)
(* implementation: nothing but its reference to Shared goes away.          *)
DropReader ==
  /\ reader = "alive" /\ ~polling
  /\ reader' = "dropped"
  /\ UNCHANGED <<shared, wvars, owner, polling, notified, seen, failed, received>>

Producer == (\E n \in 0 .. MaxWrite : Write(n)) \/ Flush \/ Abort \/ DropWriter
Executor == RunTask \/ SpuriousWake \/ Migrate \/ DropReader

Next == Producer \/ Wake \/ poll_next \/ Executor

Spec == Init /\ [][Next]_vars

(* A method that took the waker calls it; a notified task is run and polls *)
(* the body it owns.  Nothing is assumed of the producer.                  *)
Fairness == WF_vars(Wake) /\ WF_vars(RunTask) /\ WF_vars(poll_next)

FairSpec == Spec /\ Fairness
-----------------------------------------------------------------------------
(***************************************************************************)
(* Properties                                                              *)
(***************************************************************************)

(* Every field of Shared, Writer and of the consumer has its type, and the *)
(* payload of SharedState::Ok is empty in the other two states.            *)
TypeOK ==
  /\ state \in {"Ok", "Err", "ReaderFused"}
  /\ ready \in Seq(Chunks) /\ ready_bytes \in Nat
  /\ writer_dropped \in BOOLEAN /\ waker \in Tasks \cup {NoTask}
  /\ buf \in Chunks /\ capacity \in Nat
  /\ writer \in {"alive", "dropped"} /\ waking \in Tasks \cup {NoTask}
  /\ result \in {"Ok", "BrokenPipe"}
  /\ reader \in {"alive", "dropped"} /\ owner \in Tasks
  /\ polling \in BOOLEAN /\ notified \in SUBSET Tasks
  /\ seen \in {"nothing", "pending", "chunk", "end", "error"}
  /\ failed \in BOOLEAN /\ received \in Seq(Chunks)
  /\ state # "Ok" => ready = <<>> /\ ready_bytes = 0 /\ ~writer_dropped

(* The chunks of s are not empty and cover [lo, hi) without gap, overlap   *)
(* or exchange.                                                            *)
Contiguous(s, lo, hi) ==
  /\ s = <<>> => lo = hi
  /\ s # <<>> => s[1].from = lo /\ s[Len(s)].to = hi
  /\ \A i \in 1 .. Len(s) : s[i].from < s[i].to
  /\ \A i \in 1 .. Len(s) - 1 : s[i].to = s[i + 1].from

(* How much of the body the consumer has.                                  *)
Position == IF received = <<>> THEN 0 ELSE received[Len(received)].to

(* The chunks poll_next returns are, in order and without loss or          *)
(* duplication, the bytes passed to write, whatever the interleaving of    *)
(* write, flush, abort and drop with the polls.                            *)
DeliveredInOrder == Contiguous(received, 0, Position) /\ Position <= buf.to

(* If the consumer is told that the body ended and never got an error, it  *)
(* has every byte that was written: a truncated body never looks complete. *)
CleanEndComplete ==
  seen = "end" /\ ~failed => writer = "dropped" /\ Position = buf.to

(* When size_hint is exact, which hyper turns into a Content-Length, it is *)
(* the number of bytes the consumer has not received yet.                  *)
HintExact == size_hint.exact => Position + size_hint.lower = buf.to

(* A task that parked on Poll::Pending has its waker stored while nothing  *)
(* is available, or is about to be woken: no flush, abort or drop between  *)
(* a poll and the parking of the task, and no move of the body to a task   *)
(* with another waker, leaves the consumer asleep beside data.             *)
NoLostWakeup ==
  (/\ reader = "alive" /\ ~polling
   /\ owner \notin notified
   /\ seen \notin {"end", "error"}) =>
    \/ waking = owner
    \/ state = "Ok" /\ ready = <<>> /\ ~writer_dropped /\ waker = owner

(* Once is_end_stream returns true, a consumer that stops polling misses   *)
(* nothing: no chunk and no error comes any more, and it stays true.       *)
EndStreamFinal ==
  [][is_end_stream => is_end_stream' /\ UNCHANGED <<received, failed>>]_vars

(* A poll after one that returned None or an error returns None: the       *)
(* stream is fused, whatever the writer does in between.                   *)
Fused ==
  [][(seen \in {"end", "error"}) /\ polling /\ ~polling' => seen' = "end"]_vars

(* When write or flush returned BrokenPipe, "the client certainly won't    *)
(* receive any additional bytes" (src/src/gzip.rs).                        *)
BrokenPipeIsFinal == [][result = "BrokenPipe" => received' = received]_vars

(* A byte that was flushed reaches a consumer that stays, unless the       *)
(* writer aborts the body.                                                 *)
FlushedIsDelivered ==
  \A k \in 1 .. MaxBytes :
    (state = "Ok" /\ buf.from >= k) ~> (Position >= k \/ state = "Err" \/ failed \/ reader = "dropped")

(* When the writer is gone the consumer learns how the body ended.         *)
EndIsObserved ==
  (writer = "dropped") ~> (seen = "end" \/ failed \/ reader = "dropped")

(* The chunker as the streaming body of ByteStream: what has left          *)
(* Writer.buf is released, until an abort empties the queue.               *)
Released == IF state = "Ok" THEN buf.from ELSE Position

ProducerSide ==
  CASE state = "Err" \/ failed -> "aborted"
    [] state # "Err" /\ ~failed /\ writer = "dropped" -> "finished"
    [] OTHER -> "open"

ConsumerSide ==
  CASE reader = "dropped" -> "gone"
    [] reader = "alive" /\ failed -> "error"
    [] reader = "alive" /\ ~failed /\ seen = "end" -> "end"
    [] OTHER -> "open"

Stream == INSTANCE ByteStream WITH
  written <- buf.to, released <- Released, delivered <- Position,
  producer <- ProducerSide, consumer <- ConsumerSide

(* Every step of the chunker is a step of the abstract body or a stutter.  *)
ImplementsByteStream == Stream!Spec

(***************************************************************************)
(* The inductive invariant behind the properties                           *)
(***************************************************************************)

(* An earlier chunk lies before a later one.                               *)
Ordered(s) == \A i, j \in 1 .. Len(s) : i < j => s[i].to <= s[j].from

(* The buffer has room, or is to be allocated by the next write.           *)
BufferInv ==
  /\ buf.from <= buf.to
  /\ capacity = 0 => buf.from = buf.to
  /\ capacity # 0 => Cap <= capacity /\ Size(buf) <= capacity

(* What the consumer has, the queue and the buffer join up, and            *)
(* ready_bytes is the length of the queue.                                 *)
QueueInv ==
  /\ Contiguous(received, 0, Position)
  /\ Position <= buf.from
  /\ state = "Ok" => /\ Contiguous(ready, Position, buf.from)
                     /\ Ordered(ready)
                     /\ ready_bytes = buf.from - Position

(* How the body ended, as Writer, Shared and consumer know it.             *)
EndInv ==
  /\ writer_dropped => writer = "dropped"
  /\ state = "Ok" /\ writer = "dropped" => writer_dropped /\ buf.from = buf.to
  /\ state = "ReaderFused" /\ ~failed => writer = "dropped" /\ Position = buf.to
  /\ failed => state = "ReaderFused" /\ seen \in {"error", "end"}
  /\ seen = "end" => state = "ReaderFused"
  /\ seen = "error" => failed
  /\ result = "BrokenPipe" => state # "Ok"
  /\ polling => reader = "alive"

(* The four parts together are preserved by every step.                    *)
IInv == TypeOK /\ BufferInv /\ QueueInv /\ EndInv /\ NoLostWakeup
-----------------------------------------------------------------------------
(***************************************************************************)
(* What comments of the code say and the code does not do                  *)
(***************************************************************************)

(* chunker.rs says of the Writer: "unflushed data is ignored on drop".     *)
UnflushedIgnoredOnDrop ==
  [][writer = "alive" /\ writer' = "dropped" => ready' = ready]_vars

(* gzip.rs speaks of "a previous call [that] discovered that the receiver  *)
(* has been dropped", and flush_helper's error is "receiver was dropped":  *)
(* a flush of data to a dropped reader fails.                              *)
DroppedReaderDiscovered ==
  [][reader = "dropped" /\ ready' # ready => result' = "BrokenPipe"]_vars
=============================================================================
