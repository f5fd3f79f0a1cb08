--------------------------- MODULE ChunkerProofs ---------------------------
(***************************************************************************)
(* Proofs about Chunker for every chunk size, every slack of the           *)
(* allocator, every bound on the body and every set of tasks.              *)
(***************************************************************************)
EXTENDS Chunker, TLAPS

-----------------------------------------------------------------------------
(* push_back of the next bytes of the body keeps a run of chunks without   *)
(* gap or overlap.                                                         *)
LEMMA AppendContiguous ==
  ASSUME NEW s \in Seq(Chunks), NEW lo \in Nat, NEW hi \in Nat,
         NEW c \in Chunks,
         Contiguous(s, lo, hi), c.from = hi, c.from < c.to
  PROVE  Contiguous(Append(s, c), lo, c.to)
<1> DEFINE t == Append(s, c)
<1>1. /\ t \in Seq(Chunks) /\ Len(t) = Len(s) + 1 /\ t # <<>>
      /\ t[Len(s) + 1] = c
      /\ \A i \in 1 .. Len(s) : t[i] = s[i]
  OBVIOUS
<1>2. t[1].from = lo
  <2>1. CASE s = <<>>
    BY <1>1, <2>1 DEF Contiguous
  <2>2. CASE s # <<>>
    BY <1>1, <2>2 DEF Contiguous
  <2> QED BY <2>1, <2>2
<1>3. \A i \in 1 .. Len(t) : t[i].from < t[i].to
  BY <1>1 DEF Contiguous
<1>4. ASSUME NEW i \in 1 .. Len(t) - 1 PROVE t[i].to = t[i + 1].from
  <2>1. CASE i < Len(s)
    BY <1>1, <2>1 DEF Contiguous
  <2>2. CASE i = Len(s)
    BY <1>1, <2>2 DEF Contiguous
  <2> QED BY <1>1, <2>1, <2>2
<1> HIDE DEF t
<1>5. Contiguous(t, lo, c.to)
  BY <1>1, <1>2, <1>3, <1>4 DEF Contiguous
<1> QED BY <1>5 DEF t

(* pop_front of a run of chunks leaves a run that starts where the popped  *)
(* chunk ended.                                                            *)
LEMMA TailContiguous ==
  ASSUME NEW s \in Seq(Chunks), NEW lo \in Nat, NEW hi \in Nat,
         s # <<>>, Contiguous(s, lo, hi)
  PROVE  /\ Contiguous(Tail(s), Head(s).to, hi)
         /\ Head(s).from = lo /\ Head(s).from < Head(s).to
<1> DEFINE t == Tail(s)
<1>1. /\ t \in Seq(Chunks) /\ Len(t) = Len(s) - 1 /\ Len(s) \in Nat \ {0}
      /\ Head(s) = s[1] /\ Head(s) \in Chunks
      /\ \A i \in 1 .. Len(t) : t[i] = s[i + 1]
  OBVIOUS
<1>2. Head(s).from = lo /\ Head(s).from < Head(s).to
  BY <1>1 DEF Contiguous
<1> HIDE DEF t
<1>3. ASSUME t = <<>> PROVE Head(s).to = hi
  <2>1. Len(t) = 0
    BY <1>3
  <2>2. Len(s) = 1
    BY <1>1, <2>1
  <2> QED BY <1>1, <2>2 DEF Contiguous
<1>4. ASSUME t # <<>> PROVE t[1].from = Head(s).to /\ t[Len(t)].to = hi
  BY <1>1, <1>4 DEF Contiguous
<1>5. \A i \in 1 .. Len(t) : t[i].from < t[i].to
  BY <1>1 DEF Contiguous
<1>6. \A i \in 1 .. Len(t) - 1 : t[i].to = t[i + 1].from
  BY <1>1 DEF Contiguous
<1>7. Contiguous(t, Head(s).to, hi)
  BY <1>3, <1>4, <1>5, <1>6 DEF Contiguous
<1> QED BY <1>2, <1>7 DEF t

(* The chunks of a run lie one after the other, also after a push_back.    *)
LEMMA AppendOrdered ==
  ASSUME NEW s \in Seq(Chunks), NEW lo \in Nat, NEW hi \in Nat,
         NEW c \in Chunks,
         Contiguous(s, lo, hi), Ordered(s), c.from = hi
  PROVE  Ordered(Append(s, c))
<1> DEFINE t == Append(s, c)
<1>1. /\ t \in Seq(Chunks) /\ Len(t) = Len(s) + 1
      /\ t[Len(s) + 1] = c
      /\ \A i \in 1 .. Len(s) : t[i] = s[i]
  OBVIOUS
<1>2. ASSUME NEW i \in 1 .. Len(s) PROVE s[i].to <= hi
  <2>1. s[Len(s)].from < s[Len(s)].to /\ s[Len(s)].to = hi
    BY DEF Contiguous
  <2>2. /\ s[i] \in Chunks /\ s[Len(s)] \in Chunks
        /\ i # Len(s) => i < Len(s)
    OBVIOUS
  <2>3. i # Len(s) => s[i].to <= s[Len(s)].from
    BY <2>2 DEF Ordered
  <2> QED BY <2>1, <2>2, <2>3 DEF Chunks
<1>3. ASSUME NEW i \in 1 .. Len(t), NEW j \in 1 .. Len(t), i < j
      PROVE  t[i].to <= t[j].from
  <2>1. i \in 1 .. Len(s)
    BY <1>1, <1>3
  <2>2. CASE j \in 1 .. Len(s)
    BY <1>1, <1>3, <2>1, <2>2 DEF Ordered
  <2>3. CASE j = Len(s) + 1
    BY <1>1, <1>2, <2>1, <2>3
  <2> QED BY <1>1, <2>2, <2>3
<1> HIDE DEF t
<1>4. Ordered(t)
  BY <1>3 DEF Ordered
<1> QED BY <1>4 DEF t

(* ... and after a pop_front, and the popped chunk lies inside the run.    *)
LEMMA TailOrdered ==
  ASSUME NEW s \in Seq(Chunks), NEW lo \in Nat, NEW hi \in Nat,
         s # <<>>, Contiguous(s, lo, hi), Ordered(s)
  PROVE  Ordered(Tail(s)) /\ Head(s).to <= hi
<1> DEFINE t == Tail(s)
<1>1. /\ t \in Seq(Chunks) /\ Len(t) = Len(s) - 1 /\ Len(s) \in Nat \ {0}
      /\ Head(s) = s[1]
      /\ \A i \in 1 .. Len(t) : t[i] = s[i + 1]
      /\ s[1] \in Chunks /\ s[Len(s)] \in Chunks
  OBVIOUS
<1>2. ASSUME NEW i \in 1 .. Len(t), NEW j \in 1 .. Len(t), i < j
      PROVE  t[i].to <= t[j].from
  BY <1>1, <1>2 DEF Ordered
<1>3. s[1].to <= hi
  <2>1. s[Len(s)].from < s[Len(s)].to /\ s[Len(s)].to = hi
    BY <1>1 DEF Contiguous
  <2>2. 1 # Len(s) => s[1].to <= s[Len(s)].from
    BY <1>1 DEF Ordered
  <2> QED BY <1>1, <2>1, <2>2 DEF Chunks
<1>4. Ordered(t)
  BY <1>2 DEF Ordered
<1> QED BY <1>1, <1>3, <1>4
-----------------------------------------------------------------------------
(***************************************************************************)
(* The inductive invariant                                                 *)
(***************************************************************************)

(* A new Writer and Reader satisfy the invariant.                          *)
LEMMA InitIInv == Init => IInv
<1> SUFFICES ASSUME Init PROVE IInv
  OBVIOUS
<1>1. TypeOK
  <2>1. <<>> \in Seq(Chunks) /\ [from |-> 0, to |-> 0] \in Chunks
    BY DEF Chunks
  <2> QED BY <2>1 DEF Init, TypeOK
<1>2. BufferInv
  BY DEF Init, BufferInv
<1>3. QueueInv
  BY DEF Init, QueueInv, Contiguous, Ordered, Position
<1>4. EndInv /\ NoLostWakeup
  BY DEF Init, EndInv, NoLostWakeup
<1> QED BY <1>1, <1>2, <1>3, <1>4 DEF IInv

(* The end of a sequence of chunks is a number of bytes.                   *)
LEMMA LastNat ==
  ASSUME NEW s \in Seq(Chunks)
  PROVE  (IF s = <<>> THEN 0 ELSE s[Len(s)].to) \in Nat
<1>1. CASE s # <<>>
  <2>1. s[Len(s)] \in Chunks
    BY <1>1
  <2> QED BY <1>1, <2>1 DEF Chunks
<1> QED BY <1>1

(* The consumer's position in the body is a number of bytes.               *)
LEMMA PositionNat ==
  ASSUME received \in Seq(Chunks)
  PROVE  Position \in Nat
BY LastNat DEF Position

(* A waker that is stored when the lock is taken is the one that is called *)
(* after it is released, so a parked owner is woken by whoever takes it.   *)
LEMMA TakenWakerWakes ==
  ASSUME TypeOK, NoLostWakeup, WriterReady, state = "Ok", TakeWaker,
         UNCHANGED rvars
  PROVE  NoLostWakeup'
<1>1. waking # owner
  BY TaskAssumption DEF TypeOK, WriterReady
<1> QED BY <1>1 DEF NoLostWakeup, TakeWaker, rvars

(* flush_helper, called by write, flush and drop with a buffer b that      *)
(* starts where Writer.buf does and fits its capacity c.                   *)
LEMMA FlushHelperIInv ==
  ASSUME IInv, WriterReady, NEW b \in Chunks, NEW c \in Nat,
         NEW dropping \in BOOLEAN,
         b.from = buf.from, buf.to <= b.to,
         c = 0 => b.from = b.to,
         c # 0 => Cap <= c /\ Size(b) <= c,
         flush_helper(b, c, dropping),
         writer' = IF dropping THEN "dropped" ELSE writer,
         UNCHANGED rvars
  PROVE  IInv'
<1>0. /\ b.from \in Nat /\ b.to \in Nat /\ buf.to \in Nat /\ b.from <= b.to
      /\ Size(b) \in Nat /\ Size(b) = b.to - b.from /\ Position \in Nat
  BY PositionNat DEF IInv, TypeOK, BufferInv, Chunks, Size
<1>w. writer = "alive" /\ waking = NoTask
  BY DEF WriterReady
<1>r. Position' = Position
  BY DEF Position, rvars
<1>1. CASE FlushNothing(b, c, dropping)
  <2> USE <1>1 DEF FlushNothing, shared, rvars
  <2>1. TypeOK'
    BY DEF IInv, TypeOK
  <2>2. BufferInv'
    BY <1>0 DEF BufferInv, Size
  <2>3. QueueInv'
    BY <1>r DEF IInv, QueueInv
  <2>4. EndInv'
    BY <1>0, <1>w, <1>r DEF IInv, EndInv
  <2>5. NoLostWakeup'
    BY DEF IInv, NoLostWakeup
  <2> QED BY <2>1, <2>2, <2>3, <2>4, <2>5 DEF IInv
<1>2. CASE FlushShared(b, c, dropping) /\ Size(b) > 0
  <2>0. /\ state = "Ok" /\ state' = "Ok"
        /\ buf' = [from |-> b.to, to |-> b.to] /\ capacity' = 0
        /\ ready_bytes' = ready_bytes + Size(b) /\ ready' = Append(ready, b)
        /\ writer_dropped' = dropping /\ TakeWaker /\ result' = "Ok"
    BY <1>0, <1>2 DEF FlushShared, Enqueue, EmptyAfter
  <2>1. Contiguous(ready', Position, b.to) /\ Ordered(ready')
    <3>1. /\ ready \in Seq(Chunks) /\ buf.from \in Nat
          /\ Contiguous(ready, Position, buf.from) /\ Ordered(ready)
      BY <1>0, <2>0 DEF IInv, TypeOK, QueueInv
    <3>2. b.from < b.to
      BY <1>0, <1>2
    <3> QED BY <1>0, <2>0, <3>1, <3>2, AppendContiguous, AppendOrdered
  <2>2. TypeOK'
    <3>1. ready' \in Seq(Chunks)
      BY <2>0 DEF IInv, TypeOK
    <3>2. buf' \in Chunks
      BY <1>0, <2>0 DEF Chunks
    <3>3. ready_bytes' \in Nat
      BY <1>0, <2>0 DEF IInv, TypeOK
    <3> QED BY <2>0, <3>1, <3>2, <3>3 DEF IInv, TypeOK, TakeWaker, rvars
  <2>3. BufferInv'
    BY <1>0, <2>0 DEF BufferInv
  <2>4. QueueInv'
    <3>1. Contiguous(received', 0, Position')
      BY <1>r DEF IInv, QueueInv, rvars
    <3>2. /\ Position <= buf.from /\ ready_bytes = buf.from - Position
      BY <2>0 DEF IInv, QueueInv
    <3>3. buf'.from = b.to
      BY <2>0
    <3>4. Contiguous(ready', Position', buf'.from) /\ Ordered(ready')
      BY <1>r, <2>1, <3>3
    <3>5. ready_bytes' = buf'.from - Position' /\ Position' <= buf'.from
      BY <1>0, <1>r, <2>0, <3>2, <3>3
    <3> QED BY <3>1, <3>4, <3>5 DEF QueueInv
  <2>5. EndInv'
    BY <1>r, <1>w, <2>0 DEF IInv, EndInv, rvars
  <2>6. NoLostWakeup'
    BY <2>0, TakenWakerWakes DEF IInv
  <2> QED BY <2>2, <2>3, <2>4, <2>5, <2>6 DEF IInv
<1>3. CASE FlushShared(b, c, dropping) /\ Size(b) = 0
  <2>0. /\ state = "Ok" /\ state' = "Ok" /\ dropping
        /\ buf' = b /\ capacity' = c /\ UNCHANGED <<ready, ready_bytes>>
        /\ writer_dropped' = dropping /\ TakeWaker /\ result' = "Ok"
    BY <1>3 DEF FlushShared
  <2>1. TypeOK'
    BY <2>0 DEF IInv, TypeOK, TakeWaker, rvars
  <2>2. BufferInv'
    BY <1>0, <2>0 DEF BufferInv, Size
  <2>3. QueueInv'
    BY <1>r, <2>0 DEF IInv, QueueInv, rvars
  <2>4. EndInv'
    BY <1>0, <1>3, <1>r, <1>w, <2>0 DEF IInv, EndInv, rvars
  <2>5. NoLostWakeup'
    BY <2>0, TakenWakerWakes DEF IInv
  <2> QED BY <2>1, <2>2, <2>3, <2>4, <2>5 DEF IInv
<1>4. CASE FlushBroken(b, c, dropping)
  <2> USE <1>4 DEF FlushBroken, shared, rvars
  <2>1. TypeOK'
    BY DEF IInv, TypeOK
  <2>2. BufferInv'
    BY <1>0 DEF BufferInv, Size
  <2>3. QueueInv'
    BY <1>r DEF IInv, QueueInv
  <2>4. EndInv'
    BY <1>r, <1>w DEF IInv, EndInv
  <2>5. NoLostWakeup'
    BY DEF IInv, NoLostWakeup
  <2> QED BY <2>1, <2>2, <2>3, <2>4, <2>5 DEF IInv
<1>5. Size(b) = 0 \/ Size(b) > 0
  BY <1>0
<1> QED BY <1>1, <1>2, <1>3, <1>4, <1>5 DEF flush_helper

(* write extends the buffer up to its capacity, allocated if need be, and  *)
(* flushes a full one.                                                     *)
LEMMA WriteBuffer ==
  ASSUME IInv, NEW n \in 0 .. MaxWrite, Write(n)
  PROVE  \E c \in Nat, b \in Chunks :
           /\ c # 0 /\ Cap <= c /\ Size(b) <= c
           /\ b.from = buf.from /\ buf.to <= b.to /\ b.to <= buf.to + n
           /\ \/ flush_helper(b, c, FALSE)
              \/ /\ buf' = b /\ capacity' = c /\ result' = "Ok"
                 /\ UNCHANGED <<shared, waking>>
<1> USE CapAssumption, SlackAssumption, BoundAssumption
<1>1. PICK c \in IF capacity = 0 THEN Cap .. Cap + Slack ELSE {capacity} :
        LET remaining == c - Size(buf)
            full      == remaining <= n
            bytes     == IF full THEN remaining ELSE n
        IN IF full
           THEN flush_helper(Extend(buf, bytes), c, FALSE)
           ELSE /\ buf' = Extend(buf, bytes) /\ capacity' = c
                /\ result' = "Ok"
                /\ UNCHANGED <<shared, waking>>
  BY DEF Write
<1> DEFINE remaining == c - Size(buf)
           bytes     == IF remaining <= n THEN remaining ELSE n
           b         == Extend(buf, bytes)
<1>2. /\ c \in Nat /\ c # 0 /\ Cap <= c /\ Size(buf) \in Nat
      /\ Size(buf) <= c /\ n \in Nat
  BY DEF IInv, TypeOK, BufferInv, Size, Chunks
<1>3. bytes \in Nat /\ bytes <= remaining /\ bytes <= n
  BY <1>2
<1>4. /\ b \in Chunks /\ b.from = buf.from /\ b.to = buf.to + bytes
      /\ buf.to <= b.to /\ b.to <= buf.to + n /\ Size(b) <= c
  <2>1. buf \in Chunks /\ b = [buf EXCEPT !.to = @ + bytes]
    BY DEF IInv, TypeOK, Extend
  <2> HIDE DEF b, bytes
  <2>2. b \in Chunks /\ b.from = buf.from /\ b.to = buf.to + bytes
    BY <1>3, <2>1 DEF Chunks
  <2> QED BY <1>2, <1>3, <2>1, <2>2 DEF Size, Chunks
<1>5. \/ flush_helper(b, c, FALSE)
      \/ /\ buf' = b /\ capacity' = c /\ result' = "Ok"
         /\ UNCHANGED <<shared, waking>>
  BY <1>1
<1> HIDE DEF b
<1> QED BY <1>2, <1>4, <1>5

(* A write keeps the invariant, whether or not it fills the buffer.        *)
LEMMA WriteIInv ==
  ASSUME IInv, NEW n \in 0 .. MaxWrite, Write(n)
  PROVE  IInv'
<1>1. PICK c \in Nat, b \in Chunks :
        /\ c # 0 /\ Cap <= c /\ Size(b) <= c
        /\ b.from = buf.from /\ buf.to <= b.to
        /\ \/ flush_helper(b, c, FALSE)
           \/ /\ buf' = b /\ capacity' = c /\ result' = "Ok"
              /\ UNCHANGED <<shared, waking>>
  BY WriteBuffer
<1>2. /\ WriterReady /\ writer' = writer /\ UNCHANGED rvars
  BY DEF Write
<1>3. CASE flush_helper(b, c, FALSE)
  BY <1>1, <1>2, <1>3, FlushHelperIInv
<1>4. CASE buf' = b /\ capacity' = c /\ result' = "Ok" /\ UNCHANGED <<shared, waking>>
  <2> USE <1>4 DEF shared, rvars
  <2>1. TypeOK'
    BY <1>2 DEF IInv, TypeOK
  <2>2. BufferInv'
    BY <1>1 DEF IInv, BufferInv, Size, TypeOK, Chunks
  <2>3. QueueInv'
    BY <1>1, <1>2 DEF IInv, QueueInv, Position
  <2>4. EndInv'
    BY <1>2 DEF IInv, EndInv, WriterReady
  <2>5. NoLostWakeup'
    BY <1>2 DEF IInv, NoLostWakeup
  <2> QED BY <2>1, <2>2, <2>3, <2>4, <2>5 DEF IInv
<1> QED BY <1>1, <1>3, <1>4

(* flush and drop hand Writer.buf itself to flush_helper.                  *)
LEMMA FlushDropIInv ==
  ASSUME IInv, Flush \/ DropWriter
  PROVE  IInv'
<1>1. /\ buf \in Chunks /\ capacity \in Nat /\ buf.to <= buf.to
      /\ capacity = 0 => buf.from = buf.to
      /\ capacity # 0 => Cap <= capacity /\ Size(buf) <= capacity
  BY DEF IInv, TypeOK, BufferInv, Chunks
<1>2. CASE Flush
  BY <1>1, <1>2, FlushHelperIInv DEF Flush
<1>3. CASE DropWriter
  BY <1>1, <1>3, FlushHelperIInv DEF DropWriter
<1> QED BY <1>2, <1>3

(* abort empties the queue and wakes the reader, or does nothing.          *)
LEMMA AbortIInv ==
  ASSUME IInv, Abort
  PROVE  IInv'
<1>0. /\ WriterReady /\ Position' = Position
      /\ UNCHANGED <<buf, capacity, writer, result, rvars>>
  BY DEF Abort, Position, rvars
<1>1. CASE state = "Ok"
  <2>1. LeaveOk("Err") /\ TakeWaker
    BY <1>1 DEF Abort
  <2>2. TypeOK'
    <3>1. <<>> \in Seq(Chunks)
      OBVIOUS
    <3> QED BY <1>0, <2>1, <3>1 DEF IInv, TypeOK, LeaveOk, TakeWaker, rvars
  <2>3. BufferInv' /\ QueueInv'
    BY <1>0, <2>1 DEF IInv, BufferInv, Size, QueueInv, LeaveOk, rvars
  <2>4. EndInv'
    BY <1>0, <1>1, <2>1 DEF IInv, EndInv, LeaveOk, rvars
  <2>5. NoLostWakeup'
    BY <1>0, <1>1, <2>1, TakenWakerWakes DEF IInv
  <2> QED BY <2>2, <2>3, <2>4, <2>5 DEF IInv
<1>2. CASE state # "Ok"
  <2>1. UNCHANGED <<shared, waking>>
    BY <1>2 DEF Abort
  <2>2. TypeOK' /\ BufferInv' /\ QueueInv'
    BY <1>0, <2>1 DEF IInv, TypeOK, BufferInv, Size, QueueInv, shared, rvars
  <2>3. EndInv' /\ NoLostWakeup'
    BY <1>0, <2>1 DEF IInv, EndInv, NoLostWakeup, shared, rvars
  <2> QED BY <2>2, <2>3 DEF IInv
<1> QED BY <1>1, <1>2

(* Calling the waker after the lock was released.                          *)
LEMMA WakeIInv ==
  ASSUME IInv, Wake
  PROVE  IInv'
<1> USE DEF Wake, shared
<1>1. TypeOK'
  BY DEF IInv, TypeOK
<1>2. BufferInv' /\ QueueInv' /\ EndInv'
  BY DEF IInv, BufferInv, Size, QueueInv, Position, EndInv
<1>3. NoLostWakeup'
  BY DEF IInv, NoLostWakeup
<1> QED BY <1>1, <1>2, <1>3 DEF IInv
(* Returning a chunk moves the first run of bytes of the queue to the      *)
(* consumer.                                                               *)
LEMMA PollChunkIInv ==
  ASSUME IInv, PollChunk
  PROVE  IInv'
<1> DEFINE c == Head(ready)
<1>0. /\ polling /\ state = "Ok" /\ ready # <<>> /\ seen' = "chunk"
      /\ polling' = FALSE /\ notified' = notified \cup {owner}
      /\ received' = Append(received, c)
      /\ UNCHANGED <<waker, wvars, reader, owner, failed>>
  BY DEF PollChunk, PollAgain
<1>1. /\ ready \in Seq(Chunks) /\ received \in Seq(Chunks)
      /\ Position \in Nat /\ buf \in Chunks /\ buf.from \in Nat
      /\ c \in Chunks /\ Tail(ready) \in Seq(Chunks)
  <2>1. ready \in Seq(Chunks) /\ received \in Seq(Chunks) /\ buf \in Chunks
    BY DEF IInv, TypeOK
  <2>2. c \in Chunks /\ Tail(ready) \in Seq(Chunks)
    BY <1>0, <2>1
  <2>3. buf.from \in Nat
    BY <2>1 DEF Chunks
  <2> QED BY <2>1, <2>2, <2>3, PositionNat
<1>2. /\ Contiguous(ready, Position, buf.from) /\ Ordered(ready)
      /\ Contiguous(received, 0, Position)
      /\ ready_bytes = buf.from - Position
  BY <1>0 DEF IInv, QueueInv
<1>3. /\ Contiguous(Tail(ready), c.to, buf.from) /\ Ordered(Tail(ready))
      /\ c.from = Position /\ c.from < c.to /\ c.to <= buf.from
  BY <1>0, <1>1, <1>2, TailContiguous, TailOrdered
<1> HIDE DEF c
<1>4. received' \in Seq(Chunks) /\ Position' = c.to
  <2>1. /\ received' \in Seq(Chunks) /\ received' # <<>>
        /\ received'[Len(received')] = c
    BY <1>0, <1>1
  <2> QED BY <2>1 DEF Position
<1>5. Contiguous(received', 0, Position')
  BY <1>0, <1>1, <1>2, <1>3, <1>4, AppendContiguous
<1>6. c.to \in Nat /\ Size(c) = c.to - c.from /\ Position' <= buf'.from
  <2>1. buf' = buf
    BY <1>0 DEF wvars
  <2> QED BY <1>1, <1>3, <1>4, <2>1 DEF Chunks, Size
<1>7. NoLostWakeup'
  BY <1>0 DEF NoLostWakeup
<1>8. BufferInv'
  BY <1>0 DEF IInv, BufferInv, Size, wvars
<1>9. CASE Tail(ready) # <<>> \/ ~writer_dropped
  <2>1. /\ ready' = Tail(ready) /\ ready_bytes' = ready_bytes - Size(c)
        /\ state' = "Ok" /\ UNCHANGED writer_dropped
    BY <1>0, <1>9 DEF PollChunk, c
  <2>2. ready_bytes' = buf.from - Position' /\ ready_bytes' \in Nat
    BY <1>1, <1>2, <1>3, <1>4, <1>6, <2>1
  <2>3. TypeOK'
    BY <1>0, <1>1, <1>4, <2>1, <2>2 DEF IInv, TypeOK, wvars
  <2>4. QueueInv'
    BY <1>0, <1>3, <1>4, <1>5, <1>6, <2>1, <2>2 DEF QueueInv, wvars
  <2>5. EndInv'
    BY <1>0, <2>1 DEF IInv, EndInv, wvars
  <2> QED BY <1>7, <1>8, <2>3, <2>4, <2>5 DEF IInv
<1>10. CASE ~(Tail(ready) # <<>> \/ ~writer_dropped)
  <2>1. LeaveOk("ReaderFused")
    BY <1>10 DEF PollChunk
  <2>2. <<>> \in Seq(Chunks)
    OBVIOUS
  <2>3. TypeOK'
    BY <1>0, <1>4, <2>1, <2>2 DEF IInv, TypeOK, wvars, LeaveOk
  <2>4. QueueInv'
    BY <1>5, <1>6, <2>1 DEF QueueInv, LeaveOk
  <2>5. Position' = buf'.to /\ writer' = "dropped"
    <3>1. c.to = buf.from
      BY <1>3, <1>10 DEF Contiguous
    <3>2. writer = "dropped" /\ buf.from = buf.to
      BY <1>0, <1>10 DEF IInv, EndInv
    <3> QED BY <1>0, <1>4, <3>1, <3>2 DEF wvars
  <2>6. EndInv'
    BY <1>0, <2>1, <2>5 DEF IInv, EndInv, wvars, LeaveOk
  <2> QED BY <1>7, <1>8, <2>3, <2>4, <2>6 DEF IInv
<1> QED BY <1>9, <1>10

(* Pending stores the waker of the task that polls.                        *)
LEMMA PollPendingIInv ==
  ASSUME IInv, PollPending
  PROVE  IInv'
<1> USE DEF PollPending, wvars
<1>1. TypeOK'
  BY DEF IInv, TypeOK
<1>2. BufferInv' /\ QueueInv'
  BY DEF IInv, BufferInv, Size, QueueInv, Position
<1>3. EndInv'
  BY DEF IInv, EndInv
<1>4. NoLostWakeup'
  BY DEF NoLostWakeup
<1> QED BY <1>1, <1>2, <1>3, <1>4 DEF IInv

(* None is returned after the last byte or after an error.                 *)
LEMMA PollEndIInv ==
  ASSUME IInv, PollEnd
  PROVE  IInv'
<1>0. /\ polling /\ seen' = "end" /\ polling' = FALSE /\ Position' = Position
      /\ UNCHANGED <<waker, wvars, reader, owner, notified, failed, received>>
  BY DEF PollEnd, Position
<1>1. NoLostWakeup' /\ BufferInv'
  BY <1>0 DEF IInv, NoLostWakeup, BufferInv, Size, wvars
<1>2. CASE state = "Ok"
  <2>1. ready = <<>> /\ writer_dropped /\ LeaveOk("ReaderFused")
    BY <1>2 DEF PollEnd
  <2>2. <<>> \in Seq(Chunks)
    OBVIOUS
  <2>3. TypeOK'
    BY <1>0, <2>1, <2>2 DEF IInv, TypeOK, wvars, LeaveOk
  <2>4. QueueInv'
    BY <1>0, <2>1 DEF IInv, QueueInv, LeaveOk, wvars
  <2>5. Position = buf.to /\ writer = "dropped"
    BY <1>2, <2>1 DEF IInv, QueueInv, EndInv, Contiguous
  <2>6. EndInv'
    BY <1>0, <1>2, <2>1, <2>5 DEF IInv, EndInv, LeaveOk, wvars
  <2> QED BY <1>1, <2>3, <2>4, <2>6 DEF IInv
<1>3. CASE state # "Ok"
  <2>1. state = "ReaderFused" /\ UNCHANGED <<state, ready, ready_bytes, writer_dropped>>
    BY <1>3 DEF PollEnd
  <2>2. TypeOK' /\ QueueInv'
    BY <1>0, <2>1 DEF IInv, TypeOK, QueueInv, wvars
  <2>3. EndInv'
    BY <1>0, <2>1 DEF IInv, EndInv, wvars
  <2> QED BY <1>1, <2>2, <2>3 DEF IInv
<1> QED BY <1>2, <1>3

(* The error is returned once and leaves the stream fused.                 *)
LEMMA PollErrIInv ==
  ASSUME IInv, PollErr
  PROVE  IInv'
<1> USE DEF PollErr, wvars, LeaveOk
<1>1. TypeOK'
  <2>1. <<>> \in Seq(Chunks)
    OBVIOUS
  <2> QED BY <2>1 DEF IInv, TypeOK
<1>2. BufferInv' /\ QueueInv'
  BY DEF IInv, BufferInv, Size, QueueInv, Position
<1>3. EndInv'
  BY DEF IInv, EndInv
<1>4. NoLostWakeup'
  BY DEF NoLostWakeup
<1> QED BY <1>1, <1>2, <1>3, <1>4 DEF IInv

(* Running, waking, moving and dropping the consumer touch no byte.        *)
LEMMA ExecutorIInv ==
  ASSUME IInv, Executor
  PROVE  IInv'
<1>0. /\ UNCHANGED <<shared, wvars, seen, failed, received>>
      /\ Position' = Position
  BY DEF Executor, RunTask, SpuriousWake, Migrate, DropReader, Position
<1>1. BufferInv' /\ QueueInv'
  BY <1>0 DEF IInv, BufferInv, Size, QueueInv, shared, wvars
<1>2. CASE RunTask
  <2> USE <1>2 DEF RunTask, shared, wvars
  <2>1. TypeOK'
    BY DEF IInv, TypeOK
  <2>2. EndInv' /\ NoLostWakeup'
    BY <1>0 DEF IInv, EndInv, NoLostWakeup
  <2> QED BY <1>1, <2>1, <2>2 DEF IInv
<1>3. CASE SpuriousWake
  <2> USE <1>3 DEF SpuriousWake, shared, wvars
  <2>1. TypeOK'
    BY DEF IInv, TypeOK
  <2>2. EndInv' /\ NoLostWakeup'
    BY <1>0 DEF IInv, EndInv, NoLostWakeup
  <2> QED BY <1>1, <2>1, <2>2 DEF IInv
<1>4. CASE Migrate
  <2> USE <1>4 DEF Migrate, shared, wvars
  <2>1. TypeOK'
    BY DEF IInv, TypeOK
  <2>2. EndInv' /\ NoLostWakeup'
    BY <1>0 DEF IInv, EndInv, NoLostWakeup
  <2> QED BY <1>1, <2>1, <2>2 DEF IInv
<1>5. CASE DropReader
  <2> USE <1>5 DEF DropReader, shared, wvars
  <2>1. TypeOK'
    BY DEF IInv, TypeOK
  <2>2. EndInv' /\ NoLostWakeup'
    BY <1>0 DEF IInv, EndInv, NoLostWakeup
  <2> QED BY <1>1, <2>1, <2>2 DEF IInv
<1> QED BY <1>2, <1>3, <1>4, <1>5 DEF Executor

(* Every step keeps the invariant.                                         *)
LEMMA NextIInv == IInv /\ [Next]_vars => IInv'
<1> SUFFICES ASSUME IInv, [Next]_vars PROVE IInv'
  OBVIOUS
<1>1. CASE UNCHANGED vars
  <2> USE <1>1 DEF vars, shared, wvars, rvars
  <2>1. TypeOK'
    BY DEF IInv, TypeOK
  <2>2. BufferInv' /\ QueueInv'
    BY DEF IInv, BufferInv, Size, QueueInv, Position
  <2>3. EndInv' /\ NoLostWakeup'
    BY DEF IInv, EndInv, NoLostWakeup, Position
  <2> QED BY <2>1, <2>2, <2>3 DEF IInv
<1>2. CASE Producer
  BY <1>2, WriteIInv, FlushDropIInv, AbortIInv DEF Producer
<1>3. CASE poll_next
  BY <1>3, PollChunkIInv, PollPendingIInv, PollEndIInv, PollErrIInv
  DEF poll_next
<1> QED BY <1>1, <1>2, <1>3, WakeIInv, ExecutorIInv DEF Next

(* The invariant holds in every reachable state.                           *)
THEOREM InductiveInvariant == Spec => []IInv
BY InitIInv, NextIInv, PTL DEF Spec
-----------------------------------------------------------------------------
(***************************************************************************)
(* What the invariant gives                                                *)
(***************************************************************************)

(* Every field keeps its type; ready_bytes, a usize that poll_next         *)
(* decrements by the length of a chunk, never underflows.                  *)
THEOREM TypeCorrect == Spec => []TypeOK
BY InductiveInvariant, PTL DEF IInv

(* poll_next returns exactly the bytes given to write, in order.           *)
THEOREM DeliveryInOrder == Spec => []DeliveredInOrder
<1>1. IInv => DeliveredInOrder
  <2> SUFFICES ASSUME IInv PROVE DeliveredInOrder
    OBVIOUS
  <2>1. Position \in Nat /\ buf.from \in Nat /\ buf.to \in Nat
    BY PositionNat DEF IInv, TypeOK, Chunks
  <2> QED BY <2>1 DEF IInv, QueueInv, BufferInv, DeliveredInOrder
<1> QED BY <1>1, InductiveInvariant, PTL

(* A body that poll_next reported as ended, and for which it reported no   *)
(* error, is complete.                                                     *)
THEOREM CleanEndIsComplete == Spec => []CleanEndComplete
<1>1. IInv => CleanEndComplete
  BY DEF IInv, EndInv, CleanEndComplete
<1> QED BY <1>1, InductiveInvariant, PTL

(* An exact size_hint is the number of bytes still to come.                *)
THEOREM SizeHintIsExact == Spec => []HintExact
<1>1. IInv => HintExact
  <2> SUFFICES ASSUME IInv, state = "Ok", writer_dropped
               PROVE  Position + ready_bytes = buf.to
    BY DEF HintExact, size_hint
  <2>1. Position \in Nat /\ buf.from \in Nat /\ buf.to \in Nat
    BY PositionNat DEF IInv, TypeOK, Chunks
  <2>2. ready_bytes = buf.from - Position /\ buf.from = buf.to
    BY DEF IInv, QueueInv, EndInv
  <2> QED BY <2>1, <2>2
<1> QED BY <1>1, InductiveInvariant, PTL

(* A consumer that sleeps has nothing to fetch or is about to be woken.    *)
THEOREM WakeupsAreNotLost == Spec => []NoLostWakeup
BY InductiveInvariant, PTL DEF IInv

(* A poll after the end or after an error returns None.                    *)
THEOREM StreamIsFused == Spec => Fused
<1>1. ASSUME IInv, [Next]_vars, seen \in {"end", "error"}, polling, ~polling'
      PROVE  seen' = "end"
  <2>1. state = "ReaderFused"
    BY <1>1 DEF IInv, EndInv
  <2>2. CASE poll_next
    BY <2>1, <2>2 DEF poll_next, PollChunk, PollPending, PollEnd, PollErr
  <2>3. CASE Producer \/ Wake \/ UNCHANGED vars
    BY <1>1, <2>3 DEF Producer, Write, Flush, Abort, DropWriter, Wake, rvars, vars
  <2>4. CASE Executor
    BY <1>1, <2>4 DEF Executor, RunTask, SpuriousWake, Migrate, DropReader
  <2> QED BY <1>1, <2>2, <2>3, <2>4 DEF Next
<1>2. IInv /\ [Next]_vars =>
        [(seen \in {"end", "error"}) /\ polling /\ ~polling' => seen' = "end"]_vars
  BY <1>1
<1> QED BY <1>2, InductiveInvariant, PTL DEF Spec, Fused

(* No byte reaches the consumer after a write or a flush returned          *)
(* BrokenPipe.                                                             *)
THEOREM NothingAfterBrokenPipe == Spec => BrokenPipeIsFinal
<1>1. ASSUME IInv, [Next]_vars, result = "BrokenPipe"
      PROVE  received' = received
  <2>1. state # "Ok"
    BY <1>1 DEF IInv, EndInv
  <2>2. CASE poll_next
    BY <2>1, <2>2 DEF poll_next, PollChunk, PollPending, PollEnd, PollErr
  <2>3. CASE Producer \/ Wake \/ UNCHANGED vars
    BY <1>1, <2>3 DEF Producer, Write, Flush, Abort, DropWriter, Wake, rvars, vars
  <2>4. CASE Executor
    BY <1>1, <2>4 DEF Executor, RunTask, SpuriousWake, Migrate, DropReader
  <2> QED BY <1>1, <2>2, <2>3, <2>4 DEF Next
<1>2. IInv /\ [Next]_vars =>
        [result = "BrokenPipe" => received' = received]_vars
  BY <1>1
<1> QED BY <1>2, InductiveInvariant, PTL DEF Spec, BrokenPipeIsFinal
(* When is_end_stream is true nothing more comes and it stays true.        *)
THEOREM EndStreamIsFinal == Spec => EndStreamFinal
<1> DEFINE Final == is_end_stream' /\ UNCHANGED <<received, failed>>
<1>1. ASSUME IInv, [Next]_vars, is_end_stream
      PROVE  Final
  <2>1. \/ state = "Ok" /\ ready_bytes = 0 /\ writer_dropped
        \/ state = "ReaderFused"
    BY <1>1 DEF is_end_stream, IInv, TypeOK
  <2>2. state = "Ok" => writer = "dropped" /\ ready = <<>>
    <3> SUFFICES ASSUME state = "Ok", ready # <<>> PROVE FALSE
      BY <1>1, <2>1 DEF IInv, EndInv
    <3>1. /\ ready \in Seq(Chunks) /\ Contiguous(ready, Position, buf.from)
          /\ Ordered(ready) /\ ready_bytes = buf.from - Position
          /\ received \in Seq(Chunks) /\ buf \in Chunks
      BY <1>1 DEF IInv, TypeOK, QueueInv
    <3>2. Position \in Nat /\ buf.from \in Nat
      BY <3>1, PositionNat DEF Chunks
    <3>3. /\ Head(ready) \in Chunks /\ Head(ready).from = Position
          /\ Head(ready).from < Head(ready).to /\ Head(ready).to <= buf.from
      BY <3>1, <3>2, TailContiguous, TailOrdered
    <3>4. Head(ready).to \in Nat
      BY <3>3 DEF Chunks
    <3> QED BY <2>1, <3>1, <3>2, <3>3, <3>4
  <2>3. CASE UNCHANGED shared /\ UNCHANGED <<received, failed>>
    BY <1>1, <2>3 DEF shared, is_end_stream
  <2>4. CASE Producer
    <3>1. state # "Ok"
      BY <2>2, <2>4 DEF Producer, Write, Flush, Abort, DropWriter, WriterReady
    <3>2. UNCHANGED shared
      BY <2>4, <3>1 DEF Producer, Write, Flush, Abort, DropWriter,
        flush_helper, FlushNothing, FlushShared, FlushBroken
    <3>3. UNCHANGED <<received, failed>>
      BY <2>4 DEF Producer, Write, Flush, Abort, DropWriter, rvars
    <3> QED BY <2>3, <3>2, <3>3
  <2>5. CASE poll_next
    BY <2>1, <2>2, <2>5 DEF poll_next, PollChunk, PollPending, PollEnd,
      PollErr, LeaveOk, is_end_stream
  <2>6. CASE Wake \/ Executor \/ UNCHANGED vars
    BY <2>3, <2>6 DEF Wake, Executor, RunTask, SpuriousWake, Migrate,
      DropReader, vars, rvars
  <2> QED BY <1>1, <2>4, <2>5, <2>6 DEF Next
<1>2. IInv /\ [Next]_vars => [is_end_stream => Final]_vars
  BY <1>1
<1> QED BY <1>2, InductiveInvariant, PTL DEF Spec, EndStreamFinal
-----------------------------------------------------------------------------
(***************************************************************************)
(* Refinement of ByteStream                                                *)
(***************************************************************************)

(* The producer's side of the mapping, in the states where it acts.        *)
LEMMA LiveWriterSide ==
  ASSUME IInv, writer = "alive"
  PROVE  /\ state = "Ok" => ProducerSide = "open" /\ ~failed
         /\ state # "Ok" => ProducerSide = "aborted" /\ (state = "Err" \/ failed)
BY DEF IInv, EndInv, TypeOK, ProducerSide

(* A call that does not touch the consumer and leaves its place alone.     *)
LEMMA SameConsumer ==
  ASSUME UNCHANGED rvars
  PROVE  Position' = Position /\ ConsumerSide' = ConsumerSide
BY DEF rvars, Position, ConsumerSide

(* flush_helper moves the buffer forward only.                             *)
LEMMA FlushHelperGrows ==
  ASSUME NEW b \in Chunks, NEW c \in Nat, NEW dropping \in BOOLEAN,
         buf \in Chunks, b.from = buf.from, buf.to <= b.to, b.from <= b.to,
         flush_helper(b, c, dropping)
  PROVE  buf.to <= buf'.to /\ buf.from <= buf'.from
<1>1. buf' = b \/ buf' = [from |-> b.to, to |-> b.to]
  BY DEF flush_helper, FlushNothing, FlushShared, FlushBroken, Enqueue,
    EmptyAfter
<1> QED BY <1>1 DEF Chunks

(* write and flush append to the body and release a prefix of it.          *)
LEMMA WriteFlushRefines ==
  ASSUME IInv, IInv', Flush \/ \E n \in 0 .. MaxWrite : Write(n)
  PROVE  [Stream!Next]_(Stream!vars)
<1>1. /\ writer = "alive" /\ writer' = "alive" /\ UNCHANGED rvars
  BY DEF Flush, Write, WriterReady
<1>2. Position' = Position /\ ConsumerSide' = ConsumerSide
  BY <1>1, SameConsumer
<1>3. /\ buf \in Chunks /\ capacity \in Nat
      /\ buf.from \in Nat /\ buf.to \in Nat /\ buf'.to \in Nat /\ buf'.from \in Nat
      /\ buf'.from <= buf'.to /\ buf.from <= buf.to
  BY DEF IInv, TypeOK, BufferInv, Chunks
<1>4. state' = state /\ failed' = failed
  BY <1>1 DEF Flush, Write, flush_helper, FlushNothing, FlushShared,
    FlushBroken, shared, rvars
<1>5. buf.to <= buf'.to /\ buf.from <= buf'.from
  <2>1. CASE Flush
    <3>1. flush_helper(buf, capacity, FALSE)
      BY <2>1 DEF Flush
    <3>2. buf.to <= buf.to
      BY <1>3
    <3> QED BY <1>3, <3>1, <3>2, FlushHelperGrows
  <2>2. ASSUME NEW n \in 0 .. MaxWrite, Write(n)
        PROVE  buf.to <= buf'.to /\ buf.from <= buf'.from
    <3>1. PICK c \in Nat, b \in Chunks :
            /\ b.from = buf.from /\ buf.to <= b.to
            /\ flush_helper(b, c, FALSE) \/ buf' = b
      BY <2>2, WriteBuffer
    <3>2. b.from <= b.to /\ buf.from <= b.from
      BY <1>3, <3>1 DEF Chunks
    <3>3. CASE flush_helper(b, c, FALSE)
      BY <1>3, <3>1, <3>2, <3>3, FlushHelperGrows
    <3>4. CASE buf' = b
      BY <3>1, <3>2, <3>4
    <3> QED BY <3>1, <3>3, <3>4
  <2> QED BY <2>1, <2>2
<1>6. CASE state = "Ok"
  <2>1. ProducerSide = "open" /\ ProducerSide' = ProducerSide
    BY <1>1, <1>4, <1>6, LiveWriterSide DEF ProducerSide
  <2>2. Released = buf.from /\ Released' = buf'.from
    BY <1>4, <1>6 DEF Released
  <2>3. Stream!Produce
    BY <1>2, <1>3, <1>5, <2>1, <2>2 DEF Stream!Produce
  <2> QED BY <2>3 DEF Stream!Next
<1>7. CASE state # "Ok"
  <2>1. ProducerSide = "aborted" /\ ProducerSide' = ProducerSide
    BY <1>1, <1>4, <1>7, LiveWriterSide DEF ProducerSide
  <2>2. Released' = Released
    BY <1>2, <1>4, <1>7 DEF Released
  <2>3. Stream!ProduceInVain
    BY <1>2, <1>3, <1>5, <2>1, <2>2 DEF Stream!ProduceInVain
  <2> QED BY <2>3 DEF Stream!Next
<1> QED BY <1>6, <1>7

(* drop finishes an open body and changes nothing of another.              *)
LEMMA DropWriterRefines ==
  ASSUME IInv, IInv', DropWriter
  PROVE  [Stream!Next]_(Stream!vars)
<1>1. /\ writer = "alive" /\ writer' = "dropped" /\ UNCHANGED rvars
      /\ flush_helper(buf, capacity, TRUE)
  BY DEF DropWriter, WriterReady
<1>2. /\ Position' = Position /\ ConsumerSide' = ConsumerSide
      /\ failed' = failed
  BY <1>1, SameConsumer DEF rvars
<1>3. state' = state /\ buf'.to = buf.to
  BY <1>1 DEF flush_helper, FlushNothing, FlushShared, FlushBroken, Enqueue,
    EmptyAfter, shared
<1>4. CASE state = "Ok"
  <2>1. ProducerSide = "open" /\ ProducerSide' = "finished"
    BY <1>1, <1>2, <1>3, <1>4, LiveWriterSide DEF ProducerSide
  <2>2. buf'.from = buf'.to
    BY <1>1, <1>3, <1>4 DEF IInv, EndInv
  <2>3. Released' = buf.to
    BY <1>3, <1>4, <2>2 DEF Released
  <2>4. Stream!Finish
    BY <1>2, <1>3, <2>1, <2>3 DEF Stream!Finish
  <2> QED BY <2>4 DEF Stream!Next
<1>5. CASE state # "Ok"
  <2>1. ProducerSide' = ProducerSide
    BY <1>1, <1>2, <1>3, <1>5, LiveWriterSide DEF ProducerSide
  <2>2. Released' = Released
    BY <1>2, <1>3, <1>5 DEF Released
  <2> QED BY <1>2, <1>3, <2>1, <2>2 DEF Stream!vars
<1> QED BY <1>4, <1>5

(* abort takes back what the consumer was not given.                       *)
LEMMA AbortRefines ==
  ASSUME IInv, Abort
  PROVE  [Stream!Next]_(Stream!vars)
<1>1. /\ writer = "alive" /\ UNCHANGED <<buf, writer, rvars>>
  BY DEF Abort, WriterReady
<1>2. /\ Position' = Position /\ ConsumerSide' = ConsumerSide
      /\ failed' = failed
  BY <1>1, SameConsumer DEF rvars
<1>3. CASE state = "Ok"
  <2>1. state' = "Err"
    BY <1>3 DEF Abort, LeaveOk
  <2>2. ProducerSide = "open" /\ ProducerSide' = "aborted"
    BY <1>1, <1>3, <2>1, LiveWriterSide DEF ProducerSide
  <2>3. Released' = Position
    BY <1>2, <2>1 DEF Released
  <2>4. Stream!Abort
    BY <1>1, <1>2, <2>2, <2>3 DEF Stream!Abort
  <2> QED BY <2>4 DEF Stream!Next
<1>4. CASE state # "Ok"
  <2>1. state' = state
    BY <1>4 DEF Abort, shared
  <2>2. ProducerSide' = ProducerSide /\ Released' = Released
    BY <1>1, <1>2, <2>1 DEF ProducerSide, Released
  <2> QED BY <1>1, <1>2, <2>2 DEF Stream!vars
<1> QED BY <1>3, <1>4

(* Every poll that returns is a delivery, an end, a failure or a stutter.  *)
LEMMA PollRefines ==
  ASSUME IInv, IInv', poll_next
  PROVE  [Stream!Next]_(Stream!vars)
<1>0. /\ reader = "alive" /\ reader' = "alive" /\ UNCHANGED <<buf, writer>>
      /\ Position \in Nat /\ Position' \in Nat
      /\ failed \in BOOLEAN /\ failed' \in BOOLEAN
  <2>1. reader = "alive" /\ UNCHANGED <<reader, buf, writer>>
    BY DEF poll_next, PollChunk, PollPending, PollEnd, PollErr, wvars, IInv, EndInv
  <2>2. received \in Seq(Chunks) /\ received' \in Seq(Chunks)
        /\ failed \in BOOLEAN /\ failed' \in BOOLEAN
    BY DEF IInv, TypeOK
  <2>3. Position' \in Nat
    BY <2>2, LastNat DEF Position
  <2> QED BY <2>1, <2>2, <2>3, PositionNat
<1>1. CASE PollChunk
  <2>1. /\ state = "Ok" /\ ready # <<>> /\ received' = Append(received, Head(ready))
        /\ seen' = "chunk" /\ failed' = failed
        /\ state' \in {"Ok", "ReaderFused"}
    BY <1>1 DEF PollChunk, LeaveOk
  <2>2. ~failed /\ seen # "end"
    BY <2>1 DEF IInv, EndInv
  <2>3. ConsumerSide = "open" /\ ConsumerSide' = "open"
    BY <1>0, <2>1, <2>2 DEF ConsumerSide
  <2>4. ProducerSide' = ProducerSide
    BY <1>0, <2>1 DEF ProducerSide
  <2>5. /\ Position' = Head(ready).to /\ Position < Position'
        /\ Position' <= buf.from
    <3>1. /\ ready \in Seq(Chunks) /\ Contiguous(ready, Position, buf.from)
          /\ Ordered(ready) /\ received \in Seq(Chunks) /\ buf \in Chunks
      BY <2>1 DEF IInv, TypeOK, QueueInv
    <3>2. buf.from \in Nat
      BY <3>1 DEF Chunks
    <3>3. /\ Head(ready) \in Chunks /\ Head(ready).from = Position
          /\ Head(ready).from < Head(ready).to /\ Head(ready).to <= buf.from
      BY <1>0, <2>1, <3>1, <3>2, TailContiguous, TailOrdered
    <3>4. received' # <<>> /\ received'[Len(received')] = Head(ready)
      BY <2>1, <3>1, <3>3
    <3> QED BY <3>3, <3>4 DEF Position
  <2>6. Released = buf.from /\ Released' = Released
    <3>1. state' = "ReaderFused" => Position' = buf.from
      <4>1. ASSUME state' = "ReaderFused" PROVE buf'.from <= Position'
        <5>1. writer' = "dropped" /\ Position' = buf'.to
          BY <2>1, <2>2, <4>1 DEF IInv, EndInv
        <5> QED BY <5>1 DEF IInv, BufferInv
      <4>2. buf.from \in Nat
        BY DEF IInv, TypeOK, Chunks
      <4> QED BY <1>0, <2>5, <4>1, <4>2
    <3> QED BY <1>0, <2>1, <3>1 DEF Released
  <2>7. Stream!Deliver
    BY <1>0, <2>3, <2>4, <2>5, <2>6 DEF Stream!Deliver
  <2> QED BY <2>7 DEF Stream!Next
<1>2. CASE PollPending
  <2>1. /\ state = "Ok" /\ UNCHANGED <<state, failed, received>>
        /\ seen' = "pending" /\ seen # "end"
    BY <1>2 DEF PollPending, IInv, EndInv
  <2>2. /\ Position' = Position /\ Released' = Released
        /\ ProducerSide' = ProducerSide /\ ConsumerSide' = ConsumerSide
    BY <1>0, <2>1 DEF Position, Released, ProducerSide, ConsumerSide
  <2> QED BY <1>0, <2>2 DEF Stream!vars
<1>3. CASE PollEnd
  <2>1. /\ state \in {"Ok", "ReaderFused"} /\ state' = "ReaderFused"
        /\ UNCHANGED <<failed, received>> /\ seen' = "end"
        /\ state = "Ok" => ready = <<>> /\ writer_dropped
    BY <1>3 DEF PollEnd, LeaveOk
  <2>2. Position' = Position
    BY <2>1 DEF Position
  <2>3. Released' = Released
    <3>1. state = "Ok" => Position = buf.from
      BY <2>1 DEF IInv, QueueInv, Contiguous
    <3> QED BY <2>1, <2>2, <3>1 DEF Released
  <2>4. ProducerSide' = ProducerSide
    BY <1>0, <2>1 DEF ProducerSide
  <2>5. CASE failed \/ seen = "end"
    <3>1. ConsumerSide' = ConsumerSide
      BY <1>0, <2>1, <2>5 DEF ConsumerSide
    <3> QED BY <1>0, <2>2, <2>3, <2>4, <3>1 DEF Stream!vars
  <2>6. CASE ~failed /\ seen # "end"
    <3>1. ConsumerSide = "open" /\ ConsumerSide' = "end"
      BY <1>0, <2>1, <2>6 DEF ConsumerSide
    <3>2. writer = "dropped" /\ Position = buf.to
      BY <1>0, <2>1, <2>2, <2>6 DEF IInv, EndInv
    <3>3. ProducerSide = "finished"
      BY <2>1, <2>6, <3>2 DEF ProducerSide
    <3>4. Stream!End
      BY <1>0, <2>2, <2>3, <2>4, <3>1, <3>2, <3>3 DEF Stream!End
    <3> QED BY <3>4 DEF Stream!Next
  <2> QED BY <2>5, <2>6
<1>4. CASE PollErr
  <2>1. /\ state = "Err" /\ state' = "ReaderFused" /\ failed' /\ ~failed
        /\ received' = received /\ seen # "end"
    BY <1>4 DEF PollErr, LeaveOk, IInv, EndInv
  <2>2. Position' = Position
    BY <2>1 DEF Position
  <2>3. /\ Released' = Released
        /\ ProducerSide = "aborted" /\ ProducerSide' = "aborted"
    BY <2>1, <2>2 DEF Released, ProducerSide
  <2>4. ConsumerSide = "open" /\ ConsumerSide' = "error"
    BY <1>0, <2>1 DEF ConsumerSide
  <2>5. Stream!Fail
    BY <1>0, <2>2, <2>3, <2>4 DEF Stream!Fail
  <2> QED BY <2>5 DEF Stream!Next
<1> QED BY <1>1, <1>2, <1>3, <1>4 DEF poll_next

(* Waking and running tasks is invisible; dropping the body is leaving.    *)
LEMMA ExecutorRefines ==
  ASSUME IInv, Wake \/ Executor
  PROVE  [Stream!Next]_(Stream!vars)
<1>1. UNCHANGED <<shared, buf, writer, seen, failed, received>>
  BY DEF Wake, Executor, RunTask, SpuriousWake, Migrate, DropReader, wvars
<1>2. /\ Position' = Position /\ Released' = Released
      /\ ProducerSide' = ProducerSide
  BY <1>1 DEF Position, Released, ProducerSide, shared
<1>3. CASE reader' = reader
  <2>1. ConsumerSide' = ConsumerSide
    BY <1>1, <1>3 DEF ConsumerSide
  <2> QED BY <1>1, <1>2, <2>1 DEF Stream!vars
<1>4. CASE reader' = "dropped"
  <2>1. ConsumerSide' = "gone"
    BY <1>4 DEF ConsumerSide
  <2>2. Stream!Leave
    BY <1>1, <1>2, <2>1 DEF Stream!Leave
  <2> QED BY <2>2 DEF Stream!Next
<1> QED BY <1>3, <1>4 DEF Wake, Executor, RunTask, SpuriousWake, Migrate, DropReader

(* The chunker, with any number of tasks and any chunk size, implements    *)
(* the streaming body: the consumer gets a prefix of what was written, an  *)
(* end only of a finished body and an error only of an aborted one.        *)
THEOREM ChunkerImplementsByteStream == Spec => ImplementsByteStream
<1>1. Init => Stream!Init
  BY DEF Init, Stream!Init, Position, Released, ProducerSide, ConsumerSide
<1>2. ASSUME IInv, IInv', [Next]_vars
      PROVE  [Stream!Next]_(Stream!vars)
  <2>1. CASE UNCHANGED vars
    <3>1. /\ buf' = buf /\ Position' = Position /\ Released' = Released
          /\ ProducerSide' = ProducerSide /\ ConsumerSide' = ConsumerSide
      BY <2>1 DEF vars, shared, wvars, rvars, Position, Released,
        ProducerSide, ConsumerSide
    <3> QED BY <3>1 DEF Stream!vars
  <2>2. CASE Next
    BY <1>2, <2>2, WriteFlushRefines, DropWriterRefines, AbortRefines,
      PollRefines, ExecutorRefines DEF Next, Producer
  <2> QED BY <1>2, <2>1, <2>2
<1> QED BY <1>1, <1>2, InductiveInvariant, PTL
        DEF Spec, ImplementsByteStream, Stream!Spec
=============================================================================
