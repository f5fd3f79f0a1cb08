-------------------------- MODULE BodyWriterProofs --------------------------
(***************************************************************************)
(* Proofs about BodyWriter for every size of the chunks, of the encoder's  *)
(* output and of the application's body.  BodyWriter uses the chunker as   *)
(* Chunker specifies it, so the theorems of ChunkerProofs hold of its      *)
(* bodies.                                                                 *)
(***************************************************************************)
EXTENDS BodyWriter, ChunkerProofs

-----------------------------------------------------------------------------
(***************************************************************************)
(* What a call of the chunker does to the state BodyWriter relies on       *)
(***************************************************************************)

(* While the Writer is there, the shared state is only left by an error.   *)
LEMMA AliveBroken ==
  ASSUME IInv, writer = "alive", state # "Ok"
  PROVE  Broken
BY DEF IInv, TypeOK, EndInv, Broken

(* flush_helper keeps the end of the buffer and empties it unless the body *)
(* is broken.                                                              *)
LEMMA FlushHelperEffect ==
  ASSUME IInv, NEW b \in Chunks, NEW c \in Nat, NEW dropping \in BOOLEAN,
         b.from = buf.from, b.from <= b.to, flush_helper(b, c, dropping)
  PROVE  /\ buf' \in Chunks /\ buf'.to = b.to /\ buf.from <= buf'.from
         /\ state' = state /\ result' \in {"Ok", "BrokenPipe"}
         /\ result' # "Ok" => state # "Ok"
         /\ state = "Ok" => buf'.from = b.to
<1>1. b.from \in Nat /\ b.to \in Nat /\ buf.from \in Nat
  BY DEF Chunks
<1>2. CASE FlushNothing(b, c, dropping)
  BY <1>1, <1>2 DEF FlushNothing, Size, shared
<1>3. CASE FlushShared(b, c, dropping)
  <2>1. CASE Size(b) > 0 /\ Enqueue(b)
    BY <1>1, <1>3, <2>1 DEF FlushShared, Enqueue, EmptyAfter, Chunks
  <2>2. CASE Size(b) = 0 /\ buf' = b
    BY <1>1, <1>3, <2>2 DEF FlushShared, Size
  <2> QED BY <1>3, <2>1, <2>2 DEF FlushShared
<1>4. CASE FlushBroken(b, c, dropping)
  BY <1>1, <1>4 DEF FlushBroken, shared
<1> QED BY <1>2, <1>3, <1>4 DEF flush_helper

(* write takes some of the slice, and fails only for a broken body.        *)
LEMMA WriteEffect ==
  ASSUME IInv, NEW n \in 0 .. MaxWrite, Write(n)
  PROVE  /\ buf'.to \in Nat /\ buf.to <= buf'.to /\ buf'.to <= buf.to + n
         /\ buf.from <= buf'.from /\ buf'.from \in Nat /\ state' = state
         /\ UNCHANGED <<writer, rvars>> /\ writer = "alive"
         /\ result' \in {"Ok", "BrokenPipe"} /\ (result' # "Ok" => Broken)
<1> USE BoundAssumption
<1>1. PICK c \in Nat, b \in Chunks :
        /\ c # 0 /\ Cap <= c /\ Size(b) <= c
        /\ b.from = buf.from /\ buf.to <= b.to /\ b.to <= buf.to + n
        /\ \/ flush_helper(b, c, FALSE)
           \/ /\ buf' = b /\ capacity' = c /\ result' = "Ok"
              /\ UNCHANGED <<shared, waking>>
  BY WriteBuffer
<1>2. /\ buf.from \in Nat /\ buf.to \in Nat /\ buf.from <= buf.to
      /\ b.from \in Nat /\ b.to \in Nat /\ n \in Nat
  BY DEF IInv, TypeOK, BufferInv, Chunks
<1>3. writer = "alive" /\ UNCHANGED <<writer, rvars>>
  BY DEF Write, WriterReady
<1>4. CASE flush_helper(b, c, FALSE)
  <2>1. b.from <= b.to
    BY <1>1, <1>2
  <2>2. /\ buf' \in Chunks /\ buf'.to = b.to /\ buf.from <= buf'.from
        /\ state' = state /\ result' \in {"Ok", "BrokenPipe"}
        /\ result' # "Ok" => state # "Ok"
    BY <1>1, <1>4, <2>1, FlushHelperEffect
  <2>3. result' # "Ok" => Broken
    BY <1>3, <2>2, AliveBroken
  <2>4. buf'.from \in Nat
    BY <2>2 DEF Chunks
  <2> QED BY <1>1, <1>2, <1>3, <2>2, <2>3, <2>4
<1>5. CASE /\ buf' = b /\ result' = "Ok" /\ UNCHANGED <<shared, waking>>
  BY <1>1, <1>2, <1>3, <1>5 DEF shared
<1> QED BY <1>1, <1>4, <1>5

(* flush empties the buffer of a body that is not broken.                  *)
LEMMA FlushEffect ==
  ASSUME IInv, Flush
  PROVE  /\ buf'.to = buf.to /\ buf.from <= buf'.from /\ buf'.from \in Nat /\ state' = state
         /\ UNCHANGED <<writer, rvars>> /\ writer = "alive"
         /\ result' \in {"Ok", "BrokenPipe"} /\ (result' # "Ok" => Broken)
         /\ state = "Ok" => buf'.from = buf.to
<1>1. buf \in Chunks /\ capacity \in Nat /\ buf.from <= buf.to
  BY DEF IInv, TypeOK, BufferInv
<1>2. /\ writer = "alive" /\ UNCHANGED <<writer, rvars>>
      /\ flush_helper(buf, capacity, FALSE)
  BY DEF Flush, WriterReady
<1>3. buf' \in Chunks => buf'.from \in Nat
  BY DEF Chunks
<1> QED BY <1>1, <1>2, <1>3, FlushHelperEffect, AliveBroken

(* So does the drop of the Writer.                                         *)
LEMMA DropEffect ==
  ASSUME IInv, DropWriter
  PROVE  /\ buf'.to = buf.to /\ buf.from <= buf'.from /\ buf'.from \in Nat /\ state' = state
         /\ UNCHANGED rvars /\ writer = "alive" /\ writer' = "dropped"
<1>1. buf \in Chunks /\ capacity \in Nat /\ buf.from <= buf.to
  BY DEF IInv, TypeOK, BufferInv
<1>2. /\ writer = "alive" /\ writer' = "dropped" /\ UNCHANGED rvars
      /\ flush_helper(buf, capacity, TRUE)
  BY DEF DropWriter, WriterReady
<1>3. buf' \in Chunks => buf'.from \in Nat
  BY DEF Chunks
<1> QED BY <1>1, <1>2, <1>3, FlushHelperEffect

(* abort breaks the body, or finds it broken.                              *)
LEMMA AbortEffect ==
  ASSUME IInv, Abort
  PROVE  /\ UNCHANGED <<buf, writer, rvars>> /\ writer = "alive" /\ Broken' /\ state' # "Ok"
<1>1. UNCHANGED <<buf, writer, rvars>> /\ writer = "alive"
  BY DEF Abort, WriterReady
<1>2. CASE state = "Ok"
  BY <1>1, <1>2 DEF Abort, LeaveOk, Broken
<1>3. CASE state # "Ok"
  <2>1. Broken /\ state' = state /\ failed' = failed
    BY <1>1, <1>3, AliveBroken DEF Abort, shared, rvars
  <2> QED BY <1>1, <1>3, <2>1 DEF Broken
<1> QED BY <1>2, <1>3

(* The consumer leaves the Writer alone, and a broken body broken.         *)
LEMMA ConsumerEffect ==
  ASSUME Wake \/ poll_next \/ Executor
  PROVE  /\ UNCHANGED <<buf, writer>> /\ (Broken => Broken')
         /\ state' = "Ok" => state = "Ok"
         /\ state # "Ok" => received' = received
<1>1. CASE Wake \/ Executor
  BY <1>1 DEF Wake, Executor, RunTask, SpuriousWake, Migrate, DropReader, wvars, shared, Broken
<1>2. CASE poll_next
  BY <1>2 DEF poll_next, PollChunk, PollPending, PollEnd, PollErr, LeaveOk, wvars, Broken
<1> QED BY <1>1, <1>2
-----------------------------------------------------------------------------
(***************************************************************************)
(* BodyWriter's steps are steps of the chunker                             *)
(***************************************************************************)

(* Everything the encoder holds fits in one write.                         *)
LEMMA UsesChunker == BIInv /\ [BNext]_allvars => [Next]_vars
<1> SUFFICES ASSUME BIInv, [BNext]_allvars PROVE [Next]_vars
  OBVIOUS
<1>1. CASE UNCHANGED allvars
  BY <1>1 DEF allvars
<1>2. CASE build
  BY <1>2 DEF build, Next, Producer
<1>3. CASE Application
  BY <1>3 DEF Application, CallDead, WriteRaw, WriteGzipped, FlushRaw, FlushGzipped,
    abort, DropBodyWriter, Next, Producer
<1>4. CASE Emit
  <2>1. enc.header \in 0 .. MaxWrite /\ enc.out \in 0 .. MaxWrite
    BY EncoderAssumption, BoundAssumption DEF BIInv, BTypeOK
  <2>2. Write(enc.header) \/ Write(enc.out)
    BY <1>4 DEF Emit, EncoderWrite
  <2> QED BY <2>1, <2>2 DEF Next, Producer
<1>5. CASE Compress \/ Sync \/ FlushEncoded \/ Finish \/ AddFooter \/ DropChunkerWriter
  BY <1>5 DEF Compress, Sync, FlushEncoded, Finish, AddFooter, DropChunkerWriter, Next, Producer
<1>6. CASE Consumer
  BY <1>6 DEF Consumer, Next
<1> QED BY <1>1, <1>2, <1>3, <1>4, <1>5, <1>6 DEF BNext, Continue
-----------------------------------------------------------------------------
(***************************************************************************)
(* BodyWriter's own part of the invariant, action by action                *)
(***************************************************************************)
OwnInv == BTypeOK /\ CallInv /\ EncoderInv /\ BrokenInv /\ MarkInv /\ FlushIsVisible

(* The response and the writer come into being.                            *)
LEMMA InitOwn == BInit => OwnInv
<1> SUFFICES ASSUME BInit PROVE OwnInv
  OBVIOUS
<1> USE EncoderAssumption, BoundAssumption DEF BInit, Init
<1>1. BTypeOK
  <2>1. builder \subseteq Builders /\ builder # {}
    OBVIOUS
  <2>2. enc \in [header : 0 .. Header, out : 0 .. MaxWrite, dirty : BOOLEAN]
    OBVIOUS
  <2>3. /\ encoding \in {"gzip", "none"} /\ answer \in {"Ok", "Err"} /\ aborted \in BOOLEAN
        /\ inner = "None" /\ op = "idle" /\ arg = 0 /\ accepted = 0 /\ flushed = 0
        /\ marks = {} /\ writer = "alive"
    OBVIOUS
  <2> QED BY ONLY <2>1, <2>2, <2>3, EncoderAssumption, BoundAssumption DEF BTypeOK
<1>2. CallInv /\ EncoderInv /\ BrokenInv /\ MarkInv /\ FlushIsVisible
  BY DEF CallInv, EncoderInv, BrokenInv, MarkInv, FlushIsVisible, Decodable
<1> QED BY <1>1, <1>2 DEF OwnInv

(* build, also when it drops the Writer.                                   *)
LEMMA BuildOwn ==
  ASSUME BIInv, build
  PROVE  OwnInv'
<1> USE EncoderAssumption, BoundAssumption
<1>1. /\ builder' = {} /\ UNCHANGED <<op, arg, answer, accepted, flushed, marks, aborted>>
      /\ encoding' \in {"gzip", "none"}
      /\ builder # {}
  BY DEF build
<1>2. inner = "None" /\ op = "idle" /\ answer = "Ok" /\ ~aborted /\ accepted = 0 /\ buf.to = 0
  BY <1>1 DEF BIInv, CallInv
<1>3. flushed = 0 /\ buf.from \in Nat
  BY <1>2 DEF BIInv, BTypeOK, IInv, TypeOK, Chunks
<1>4. CASE /\ inner' = IF encoding' = "gzip" THEN "Gzipped" ELSE "Raw"
           /\ \E gzip \in BOOLEAN : enc' = [header |-> IF gzip THEN Header ELSE 0, out |-> 0, dirty |-> gzip]
           /\ UNCHANGED vars
  <2>1. UNCHANGED <<buf, writer, state, failed>>
    BY <1>4 DEF vars, shared, wvars, rvars
  <2>2. BTypeOK'
    BY <1>1, <1>2, <1>4, <2>1 DEF BIInv, BTypeOK
  <2>3. CallInv' /\ EncoderInv' /\ BrokenInv' /\ MarkInv' /\ FlushIsVisible'
    BY <1>1, <1>2, <1>3, <1>4, <2>1 DEF CallInv, EncoderInv, BrokenInv, MarkInv, FlushIsVisible, Decodable
  <2> QED BY <2>2, <2>3 DEF OwnInv
<1>5. CASE DropWriter /\ UNCHANGED <<inner, enc>>
  <2>1. buf'.to = buf.to /\ writer' = "dropped" /\ UNCHANGED <<state, failed>>
    BY <1>5, DropEffect DEF BIInv, rvars
  <2>2. BTypeOK'
    BY <1>1, <1>2, <1>5, <2>1 DEF BIInv, BTypeOK
  <2>3. CallInv' /\ EncoderInv' /\ BrokenInv' /\ MarkInv' /\ FlushIsVisible'
    BY <1>1, <1>2, <1>3, <1>5, <2>1 DEF CallInv, EncoderInv, BrokenInv, MarkInv, FlushIsVisible, Decodable
  <2> QED BY <2>2, <2>3 DEF OwnInv
<1> QED BY <1>4, <1>5 DEF build, Builders

(* The calls that do not reach the chunker, and the destructor's start.    *)
LEMMA CallOwn ==
  ASSUME BIInv, CallDead \/ DropBodyWriter \/ FlushGzipped \/ \E n \in 0 .. MaxWrite : WriteGzipped(n)
  PROVE  OwnInv'
<1> USE EncoderAssumption, BoundAssumption
<1>1. /\ UNCHANGED <<buf, writer, state, failed>>
      /\ UNCHANGED <<builder, encoding, enc, accepted, flushed, marks, aborted>>
      /\ builder = {} /\ op = "idle"
  BY DEF CallDead, DropBodyWriter, FlushGzipped, WriteGzipped, Idle, vars, shared, wvars, rvars
<1>2. CASE CallDead
  <2>1. BTypeOK'
    BY <1>1, <1>2 DEF BIInv, BTypeOK, CallDead
  <2>2. CallInv' /\ EncoderInv' /\ BrokenInv' /\ FlushIsVisible'
    BY <1>1, <1>2 DEF BIInv, CallInv, EncoderInv, BrokenInv, FlushIsVisible, Decodable, Broken, CallDead
  <2>3. MarkInv'
    BY <1>1, <1>2 DEF BIInv, MarkInv, Marked, Broken, CallDead
  <2> QED BY <2>1, <2>2, <2>3 DEF OwnInv
<1>3. CASE DropBodyWriter
  <2>0. answer' = answer /\ arg' = arg /\ inner' = "Gone"
        /\ \/ inner = "Raw" /\ op' = "drop"
           \/ inner = "Gzipped" /\ op' = "finish"
           \/ inner = "Dead" /\ op' = "idle"
    BY <1>1, <1>3 DEF DropBodyWriter, DropInner
  <2>1. BTypeOK'
    BY <1>1, <2>0 DEF BIInv, BTypeOK
  <2>2. CallInv' /\ EncoderInv' /\ BrokenInv' /\ FlushIsVisible'
    BY <1>1, <2>0 DEF BIInv, CallInv, EncoderInv, BrokenInv, FlushIsVisible, Decodable, Broken
  <2>3. MarkInv'
    BY <1>1, <2>0 DEF BIInv, MarkInv, CallInv, BrokenInv, Marked, Broken
  <2> QED BY <2>1, <2>2, <2>3 DEF OwnInv
<1>4. CASE FlushGzipped \/ \E n \in 0 .. MaxWrite : WriteGzipped(n)
  <2>0. /\ UNCHANGED <<inner, answer>> /\ inner = "Gzipped" /\ arg' \in 0 .. MaxWrite
        /\ op' \in {"write", "flush"} /\ (op' = "write" => accepted + arg' <= MaxApp)
    BY <1>4 DEF FlushGzipped, WriteGzipped, BIInv, BTypeOK
  <2>1. BTypeOK'
    BY <1>1, <2>0 DEF BIInv, BTypeOK
  <2>2. CallInv' /\ EncoderInv' /\ BrokenInv' /\ FlushIsVisible'
    BY <1>1, <2>0 DEF BIInv, CallInv, EncoderInv, BrokenInv, FlushIsVisible, Decodable, Broken
  <2>3. MarkInv'
    BY <1>1, <2>0 DEF BIInv, MarkInv, Marked, Broken
  <2> QED BY <2>1, <2>2, <2>3 DEF OwnInv
<1> QED BY <1>2, <1>3, <1>4

(* abort, after which nothing is claimed but that the body is broken.      *)
LEMMA AbortOwn ==
  ASSUME BIInv, abort
  PROVE  OwnInv'
<1> USE EncoderAssumption, BoundAssumption
<1>1. /\ UNCHANGED <<builder, encoding, arg, answer, enc, accepted, flushed, marks>>
      /\ builder = {} /\ op = "idle"
  BY DEF abort, Idle
<1>2. CASE inner = "Dead" /\ UNCHANGED <<vars, inner, op, aborted>>
  <2>0. UNCHANGED <<buf, writer, state, failed, inner, op, aborted>>
    BY <1>2 DEF vars, shared, wvars, rvars
  <2>1. BTypeOK'
    BY <1>1, <2>0 DEF BIInv, BTypeOK
  <2>2. CallInv' /\ EncoderInv' /\ BrokenInv' /\ FlushIsVisible'
    BY <1>1, <2>0 DEF BIInv, CallInv, EncoderInv, BrokenInv, FlushIsVisible, Decodable, Broken
  <2>3. MarkInv'
    BY <1>1, <2>0 DEF BIInv, MarkInv, Marked, Broken
  <2> QED BY <2>1, <2>2, <2>3 DEF OwnInv
<1>3. CASE inner # "Dead"
  <2>0. /\ inner \in {"Raw", "Gzipped"} /\ Abort /\ aborted' = TRUE
        /\ inner' = "Dead" /\ op' = IF inner = "Raw" THEN "drop" ELSE "finish"
    BY <1>3 DEF abort, DropInner
  <2>1. UNCHANGED <<buf, writer>> /\ writer = "alive" /\ Broken' /\ state' # "Ok"
    BY <2>0, AbortEffect DEF BIInv
  <2>2. BTypeOK'
    BY <1>1, <2>0, <2>1 DEF BIInv, BTypeOK
  <2>3. CallInv' /\ EncoderInv' /\ BrokenInv' /\ FlushIsVisible' /\ MarkInv'
    BY <1>1, <2>0, <2>1 DEF BIInv, CallInv, EncoderInv, BrokenInv, FlushIsVisible, MarkInv
  <2> QED BY <2>2, <2>3 DEF OwnInv
<1> QED BY <1>2, <1>3 DEF abort

(* write and flush of an uncompressed body.                                *)
LEMMA RawOwn ==
  ASSUME BIInv, FlushRaw \/ \E n \in 0 .. MaxWrite : WriteRaw(n)
  PROVE  OwnInv'
<1> USE EncoderAssumption, BoundAssumption
<1>1. /\ UNCHANGED <<builder, encoding, arg, enc, marks, aborted>>
      /\ builder = {} /\ op = "idle" /\ inner = "Raw" /\ encoding = "none"
      /\ \/ result' = "Ok" /\ answer' = "Ok" /\ op' = "idle" /\ inner' = "Raw"
         \/ result' # "Ok" /\ answer' = "Err" /\ op' = "drop" /\ inner' = "Dead"
  BY DEF FlushRaw, WriteRaw, Idle, Return, DropInner, BIInv, CallInv
<1>2. /\ buf'.to \in Nat /\ buf.to \in Nat /\ buf.from \in Nat /\ buf'.from \in Nat
      /\ buf.from <= buf'.from /\ state' = state /\ failed' = failed
      /\ writer = "alive" /\ writer' = "alive"
      /\ result' # "Ok" => Broken
      /\ accepted' \in 0 .. MaxApp /\ flushed' \in 0 .. accepted'
      /\ result' = "Ok" => accepted' = accepted + buf'.to - buf.to
      /\ state = "Ok" => ~Broken /\ flushed' <= buf'.from
  <2>0. /\ buf.to \in Nat /\ buf.from \in Nat /\ accepted \in 0 .. MaxApp
        /\ flushed \in 0 .. accepted /\ (Broken \/ accepted = buf.to)
        /\ (state = "Ok" => flushed <= buf.from) /\ (state = "Ok" => ~Broken)
    BY <1>1 DEF BIInv, BTypeOK, IInv, TypeOK, Chunks, MarkInv, FlushIsVisible, Decodable,
      Broken, EndInv
  <2>1. CASE FlushRaw
    <3>1. /\ buf'.to = buf.to /\ buf.from <= buf'.from /\ buf'.from \in Nat /\ state' = state
          /\ writer' = writer /\ failed' = failed /\ writer = "alive"
          /\ (result' # "Ok" => Broken)
          /\ state = "Ok" => buf'.from = buf.to
      BY <2>1, FlushEffect DEF FlushRaw, BIInv, rvars
    <3> QED BY <2>0, <2>1, <3>1 DEF FlushRaw
  <2>2. CASE \E n \in 0 .. MaxWrite : WriteRaw(n)
    <3>0. PICK n \in 0 .. MaxWrite : WriteRaw(n)
      BY <2>2
    <3>1. /\ buf'.to \in Nat /\ buf.to <= buf'.to /\ buf'.to <= buf.to + n
          /\ buf.from <= buf'.from /\ buf'.from \in Nat /\ state' = state
          /\ writer' = writer /\ failed' = failed /\ writer = "alive"
          /\ (result' # "Ok" => Broken)
      BY <3>0, WriteEffect DEF WriteRaw, BIInv, rvars
    <3>2. /\ accepted' = IF result' = "Ok" THEN accepted + buf'.to - buf.to ELSE accepted
          /\ flushed' = flushed /\ accepted + n <= MaxApp
      BY <2>0, <3>0, <3>1 DEF WriteRaw, Taken
    <3> QED BY <2>0, <3>1, <3>2
  <2> QED BY <2>1, <2>2
<1>3. BTypeOK'
  BY <1>1, <1>2 DEF BIInv, BTypeOK
<1>4. CallInv' /\ EncoderInv' /\ BrokenInv'
  BY <1>1, <1>2 DEF BIInv, CallInv, EncoderInv, BrokenInv, Broken
<1>5. FlushIsVisible'
  BY <1>1, <1>2 DEF FlushIsVisible, Decodable
<1>6. MarkInv'
  <2>1. Broken' <=> Broken
    BY <1>2 DEF Broken
  <2>2. Broken \/ accepted' = buf'.to
    <3>1. Broken \/ (accepted = buf.to /\ result' = "Ok")
      BY <1>1, <1>2 DEF BIInv, MarkInv
    <3> QED BY <1>2, <3>1
  <2> QED BY <1>1, <2>1, <2>2 DEF MarkInv
<1> QED BY <1>3, <1>4, <1>5, <1>6 DEF OwnInv

(* What could be decoded still can.                                        *)
LEMMA StaysVisible ==
  ASSUME BIInv, flushed' = flushed, encoding' = encoding, marks \subseteq marks',
         state' = "Ok" => state = "Ok", buf'.from \in Nat, buf.from <= buf'.from
  PROVE  FlushIsVisible'
<1> SUFFICES ASSUME state' = "Ok" PROVE Decodable(buf.from, flushed)'
  BY DEF FlushIsVisible
<1>1. Decodable(buf.from, flushed) /\ buf.from \in Nat /\ flushed \in Nat
  BY BoundAssumption, EncoderAssumption DEF BIInv, FlushIsVisible, BTypeOK, IInv, TypeOK, Chunks
<1>2. \A m \in marks : m.at \in Nat
  BY DEF BIInv, BTypeOK
<1> QED BY <1>1, <1>2 DEF Decodable

(* The encoder's writes: together with what is left in the encoder the     *)
(* chunker has as many bytes as before.                                    *)
LEMMA EmitOwn ==
  ASSUME BIInv, Emit
  PROVE  OwnInv'
<1> USE EncoderAssumption, BoundAssumption
<1>1. /\ enc.header \in 0 .. Header /\ enc.out \in 0 .. MaxWrite /\ enc.dirty \in BOOLEAN
      /\ enc = [header |-> enc.header, out |-> enc.out, dirty |-> enc.dirty]
      /\ buf.to \in Nat /\ buf.from \in Nat
  BY DEF BIInv, BTypeOK, IInv, TypeOK, Chunks
<1>2. /\ UNCHANGED <<builder, encoding, arg, accepted, flushed, marks, aborted>>
      /\ encoding = "gzip" /\ builder = {}
      /\ op \in {"write", "flush", "flushing", "finish", "finishing", "footer"}
  BY DEF Emit, EncoderWrite, BIInv, CallInv
<1>3. /\ buf'.to \in Nat /\ buf'.from \in Nat /\ buf.from <= buf'.from
      /\ state' = state /\ failed' = failed /\ writer = "alive" /\ writer' = "alive"
      /\ result' # "Ok" => Broken
      /\ enc' \in [header : 0 .. Header, out : 0 .. MaxWrite, dirty : BOOLEAN]
      /\ enc'.header <= enc.header /\ enc'.out <= enc.out
      /\ buf'.to + enc'.header + enc'.out = buf.to + enc.header + enc.out
  <2>1. CASE EncoderWrite("header")
    <3>1. Write(enc.header) /\ enc' = [enc EXCEPT !.header = @ - (buf'.to - buf.to)]
      BY <2>1 DEF EncoderWrite, Taken
    <3>2. /\ buf'.to \in Nat /\ buf.to <= buf'.to /\ buf'.to <= buf.to + enc.header
          /\ buf.from <= buf'.from /\ buf'.from \in Nat /\ state' = state
          /\ writer' = writer /\ failed' = failed /\ writer = "alive"
          /\ (result' # "Ok" => Broken)
      BY <1>1, <3>1, WriteEffect DEF BIInv, rvars
    <3> QED BY <1>1, <3>1, <3>2
  <2>2. CASE EncoderWrite("out")
    <3>1. Write(enc.out) /\ enc' = [enc EXCEPT !.out = @ - (buf'.to - buf.to)]
      BY <2>2 DEF EncoderWrite, Taken
    <3>2. /\ buf'.to \in Nat /\ buf.to <= buf'.to /\ buf'.to <= buf.to + enc.out
          /\ buf.from <= buf'.from /\ buf'.from \in Nat /\ state' = state
          /\ writer' = writer /\ failed' = failed /\ writer = "alive"
          /\ (result' # "Ok" => Broken)
      BY <1>1, <3>1, WriteEffect DEF BIInv, rvars
    <3> QED BY <1>1, <3>1, <3>2
  <2> QED BY <2>1, <2>2 DEF Emit
<1>4. \/ UNCHANGED <<inner, op, answer>>
      \/ /\ op' = "drop" /\ UNCHANGED <<inner, answer>> /\ inner \in {"Dead", "Gone"} /\ Broken
      \/ /\ op' = "finish" /\ inner' = "Dead" /\ answer' = "Err" /\ Broken
  <2>1. \/ UNCHANGED <<inner, op, answer>>
        \/ /\ op' = "drop" /\ UNCHANGED <<inner, answer>> /\ op \in Destructor /\ result' # "Ok"
        \/ /\ op \notin Destructor /\ result' # "Ok"
           /\ op' = IF inner = "Raw" THEN "drop" ELSE "finish"
           /\ inner' = "Dead" /\ answer' = "Err"
    BY DEF Emit, EncoderWrite, Return, DropInner
  <2>2. (op \in Destructor => inner \in {"Dead", "Gone"}) /\ (op \notin Destructor => inner = "Gzipped")
    BY <1>2 DEF BIInv, CallInv, Destructor
  <2> QED BY <1>3, <2>1, <2>2
<1>5. BTypeOK'
  BY <1>2, <1>3, <1>4 DEF BIInv, BTypeOK
<1>6. CallInv'
  BY <1>2, <1>4 DEF BIInv, CallInv
<1>7. EncoderInv'
  BY <1>1, <1>2, <1>3, <1>4 DEF BIInv, EncoderInv
<1>8. BrokenInv' /\ FlushIsVisible'
  BY <1>2, <1>3, <1>4, StaysVisible DEF BIInv, BrokenInv, Broken
<1>9. MarkInv'
  <2>1. op' \in {"flushing", "footer"} => op' = op /\ buf'.to + enc'.out = buf.to + enc.out
    BY <1>1, <1>3, <1>4 DEF BIInv, EncoderInv
  <2>2. op' = "drop" => Broken'
    BY <1>2, <1>3, <1>4 DEF Broken
  <2>3. op' # "idle"
    BY <1>2, <1>4
  <2> QED BY <1>2, <2>1, <2>2, <2>3 DEF BIInv, MarkInv, Marked
<1> QED BY <1>5, <1>6, <1>7, <1>8, <1>9 DEF OwnInv

(* A new content of the encoder's buffer.                                  *)
LEMMA EncoderUpdate ==
  ASSUME NEW e \in [header : 0 .. Header, out : 0 .. MaxWrite, dirty : BOOLEAN],
         NEW k \in 0 .. MaxWrite, NEW d \in BOOLEAN
  PROVE  LET f == [e EXCEPT !.out = k, !.dirty = d]
         IN /\ f \in [header : 0 .. Header, out : 0 .. MaxWrite, dirty : BOOLEAN]
            /\ f.header = e.header /\ f.out = k
OBVIOUS

(* The compressor's own steps.                                             *)
LEMMA CompressorOwn ==
  ASSUME BIInv, Compress \/ Sync \/ Finish \/ AddFooter
  PROVE  OwnInv'
<1> USE EncoderAssumption, BoundAssumption
<1>1. /\ enc.header \in 0 .. Header /\ enc.out \in 0 .. MaxWrite /\ enc.dirty \in BOOLEAN
      /\ enc = [header |-> enc.header, out |-> enc.out, dirty |-> enc.dirty]
      /\ buf.to \in Nat /\ buf.from \in Nat /\ accepted \in 0 .. MaxApp /\ arg \in 0 .. MaxWrite
      /\ flushed \in 0 .. accepted
      /\ enc \in [header : 0 .. Header, out : 0 .. MaxWrite, dirty : BOOLEAN]
  BY DEF BIInv, BTypeOK, IInv, TypeOK, Chunks
<1>2. /\ UNCHANGED <<buf, writer, state, failed>>
      /\ UNCHANGED <<builder, encoding, inner, flushed, aborted>>
  BY DEF Compress, Sync, Finish, AddFooter, Return, vars, shared, wvars, rvars
<1>3. builder = {} /\ encoding = "gzip" /\ inner # "None"
  BY DEF BIInv, CallInv, Compress, Sync, Finish, AddFooter
<1>4. marks \subseteq marks'
  BY DEF Compress, Sync, Finish, AddFooter
<1>5. FlushIsVisible'
  BY <1>1, <1>2, <1>4, StaysVisible
<1>6. CASE Compress
  <2>0. PICK m \in IF arg = 0 THEN {0} ELSE 1 .. arg, k \in IF arg = 0 THEN {0} ELSE 0 .. MaxOut :
          /\ accepted' = accepted + m
          /\ enc' = [enc EXCEPT !.out = k, !.dirty = IF m > 0 THEN TRUE ELSE @]
    BY <1>6, Zenon DEF Compress
  <2>1. m \in 0 .. arg /\ k \in 0 .. MaxOut /\ k \in 0 .. MaxWrite
    BY <1>1
  <2>2. /\ enc' \in [header : 0 .. Header, out : 0 .. MaxWrite, dirty : BOOLEAN]
        /\ enc'.out <= MaxOut
    <3> DEFINE d == IF m > 0 THEN TRUE ELSE enc.dirty
    <3>1. d \in BOOLEAN
      BY <1>1
    <3>2. enc' = [enc EXCEPT !.out = k, !.dirty = d]
      BY <2>0, Zenon
    <3> HIDE DEF d
    <3>3. /\ [enc EXCEPT !.out = k, !.dirty = d] \in [header : 0 .. Header, out : 0 .. MaxWrite, dirty : BOOLEAN]
          /\ [enc EXCEPT !.out = k, !.dirty = d].out = k
      BY <1>1, <2>1, <3>1, EncoderUpdate, Zenon
    <3> QED BY <2>1, <3>2, <3>3
  <2>3. /\ op = "write" /\ op' = "idle" /\ answer' = "Ok" /\ arg' = 0 /\ marks' = marks
        /\ inner = "Gzipped" /\ accepted + arg <= MaxApp
    BY <1>6 DEF Compress, Return, BIInv, CallInv
  <2>4. BTypeOK'
    BY <1>1, <1>2, <2>0, <2>1, <2>2, <2>3 DEF BIInv, BTypeOK
  <2>5. CallInv' /\ EncoderInv' /\ BrokenInv' /\ MarkInv'
    BY <1>2, <1>3, <2>2, <2>3 DEF BIInv, CallInv, EncoderInv, BrokenInv, Broken, MarkInv
  <2> QED BY <1>5, <2>4, <2>5 DEF OwnInv
<1>7. CASE Sync
  <2>0. PICK k \in IF enc.dirty THEN 1 .. MaxOut ELSE {0} :
          enc' = [enc EXCEPT !.out = @ + k, !.dirty = FALSE]
    BY <1>7, Zenon DEF Sync
  <2>1. k \in 0 .. MaxOut
    BY <1>1
  <2>2. /\ op = "flush" /\ enc.header = 0 /\ op' = "flushing" /\ inner = "Gzipped"
        /\ marks' = marks \cup {Mark(FALSE)} /\ UNCHANGED <<arg, answer, accepted>>
        /\ enc.out <= MaxOut
    BY <1>7 DEF Sync, BIInv, CallInv, EncoderInv
  <2>3. /\ enc' \in [header : 0 .. Header, out : 0 .. MaxWrite, dirty : BOOLEAN]
        /\ enc'.header = 0 /\ enc'.out \in Nat
    <3>1. enc.out + k \in 0 .. MaxWrite
      BY <1>1, <2>1, <2>2
    <3>2. FALSE \in BOOLEAN
      OBVIOUS
    <3>3. /\ enc' \in [header : 0 .. Header, out : 0 .. MaxWrite, dirty : BOOLEAN]
          /\ enc'.header = enc.header /\ enc'.out = enc.out + k
      BY <1>1, <2>0, <3>1, <3>2, EncoderUpdate, Zenon
    <3> QED BY <2>2, <3>1, <3>3
  <2>4. /\ Mark(FALSE) \in [app : 0 .. MaxApp, at : Nat, last : BOOLEAN]
        /\ Mark(FALSE).app = accepted /\ Mark(FALSE).at = buf.to + enc'.out
    BY <1>1, <2>3 DEF Mark
  <2>5. BTypeOK'
    BY <1>1, <1>2, <2>2, <2>3, <2>4 DEF BIInv, BTypeOK
  <2>6. Marked(FALSE, buf.to + enc.out)'
    BY <1>2, <2>2, <2>4 DEF Marked
  <2>7. CallInv' /\ EncoderInv' /\ BrokenInv' /\ MarkInv'
    BY <1>2, <1>3, <2>2, <2>3, <2>6 DEF BIInv, CallInv, EncoderInv, BrokenInv, Broken, MarkInv
  <2> QED BY <1>5, <2>5, <2>7 DEF OwnInv
<1>8. CASE Finish
  <2>1. PICK k \in 1 .. MaxOut : enc' = [enc EXCEPT !.out = k, !.dirty = FALSE]
    BY <1>8 DEF Finish
  <2>2. /\ op = "finish" /\ enc.header = 0 /\ op' = "finishing" /\ inner \in {"Dead", "Gone"}
        /\ UNCHANGED <<arg, answer, accepted, marks>>
    BY <1>8 DEF Finish, Drained, BIInv, CallInv
  <2>3. /\ enc' \in [header : 0 .. Header, out : 0 .. MaxWrite, dirty : BOOLEAN]
        /\ enc'.header = 0
    <3>1. k \in 0 .. MaxWrite
      OBVIOUS
    <3> QED BY ONLY <1>1, <2>1, <2>2, <3>1, EncoderUpdate
  <2>4. BTypeOK'
    BY <1>1, <1>2, <2>2, <2>3 DEF BIInv, BTypeOK
  <2>5. CallInv' /\ EncoderInv' /\ BrokenInv' /\ MarkInv'
    BY <1>2, <1>3, <2>2, <2>3 DEF BIInv, CallInv, EncoderInv, BrokenInv, Broken, MarkInv
  <2> QED BY <1>5, <2>4, <2>5 DEF OwnInv
<1>9. CASE AddFooter
  <2>1. enc' = [enc EXCEPT !.out = Footer]
    BY <1>9 DEF AddFooter
  <2>2. /\ op = "finishing" /\ enc.header = 0 /\ op' = "footer" /\ inner \in {"Dead", "Gone"}
        /\ marks' = marks \cup {Mark(TRUE)} /\ UNCHANGED <<arg, answer, accepted>>
    BY <1>9 DEF AddFooter, Drained, BIInv, CallInv
  <2>3. /\ enc' \in [header : 0 .. Header, out : 0 .. MaxWrite, dirty : BOOLEAN]
        /\ enc'.header = 0 /\ enc'.out \in Nat
    BY <1>1, <2>1, <2>2
  <2>4. /\ Mark(TRUE) \in [app : 0 .. MaxApp, at : Nat, last : BOOLEAN]
        /\ Mark(TRUE).app = accepted /\ Mark(TRUE).at = buf.to + enc'.out /\ Mark(TRUE).last
    BY <1>1, <2>3 DEF Mark
  <2>5. BTypeOK'
    BY <1>1, <1>2, <2>2, <2>3, <2>4 DEF BIInv, BTypeOK
  <2>6. Marked(TRUE, buf.to + enc.out)'
    BY <1>2, <2>2, <2>4 DEF Marked
  <2>7. CallInv' /\ EncoderInv' /\ BrokenInv' /\ MarkInv'
    BY <1>2, <1>3, <2>2, <2>3, <2>6 DEF BIInv, CallInv, EncoderInv, BrokenInv, Broken, MarkInv
  <2> QED BY <1>5, <2>5, <2>7 DEF OwnInv
<1> QED BY <1>6, <1>7, <1>8, <1>9

(* The end of a flush: the mark of its sync is at the end of the buffer,   *)
(* which is empty if the body is not broken.                               *)
LEMMA FlushEncodedOwn ==
  ASSUME BIInv, FlushEncoded
  PROVE  OwnInv'
<1> USE EncoderAssumption, BoundAssumption
<1>1. /\ UNCHANGED <<builder, encoding, arg, enc, accepted, marks, aborted>>
      /\ op = "flushing" /\ inner = "Gzipped" /\ encoding = "gzip" /\ builder = {}
      /\ enc.header = 0 /\ enc.out = 0
      /\ flushed' = IF result' = "Ok" THEN accepted ELSE flushed
      /\ \/ result' = "Ok" /\ answer' = "Ok" /\ op' = "idle" /\ inner' = "Gzipped"
         \/ result' # "Ok" /\ answer' = "Err" /\ op' = "finish" /\ inner' = "Dead"
  BY DEF FlushEncoded, Drained, Return, DropInner, BIInv, CallInv
<1>2. /\ buf'.to = buf.to /\ buf.from <= buf'.from /\ buf'.from \in Nat /\ state' = state
      /\ writer' = writer /\ failed' = failed /\ writer = "alive"
      /\ (result' # "Ok" => Broken)
      /\ (state = "Ok" => buf'.from = buf.to)
  BY FlushEffect DEF FlushEncoded, BIInv, rvars
<1>3. /\ accepted \in 0 .. MaxApp /\ flushed \in 0 .. accepted /\ buf.to \in Nat
      /\ Marked(FALSE, buf.to)
  <2>1. /\ accepted \in 0 .. MaxApp /\ flushed \in 0 .. accepted /\ buf.to \in Nat
    BY DEF BIInv, BTypeOK, IInv, TypeOK, Chunks
  <2>2. Marked(FALSE, buf.to + enc.out)
    BY <1>1, Zenon DEF BIInv, MarkInv
  <2>3. buf.to + enc.out = buf.to
    BY <1>1, <2>1
  <2> QED BY <2>1, <2>2, <2>3 DEF Marked
<1>4. BTypeOK'
  BY <1>1, <1>2, <1>3 DEF BIInv, BTypeOK
<1>5. CallInv' /\ EncoderInv' /\ BrokenInv' /\ MarkInv'
  <2>1. EncoderInv'
    BY <1>1 DEF EncoderInv
  <2>2. CallInv' /\ BrokenInv'
    BY <1>1, <1>2 DEF BIInv, CallInv, BrokenInv, Broken
  <2>3. MarkInv'
    BY <1>1 DEF MarkInv
  <2> QED BY <2>1, <2>2, <2>3
<1>6. FlushIsVisible'
  <2>1. CASE result' = "Ok"
    <3> SUFFICES ASSUME state' = "Ok" PROVE Decodable(buf.from, flushed)'
      BY DEF FlushIsVisible
    <3>1. flushed' = accepted /\ buf'.from = buf.to
      BY <1>1, <1>2, <2>1
    <3> QED BY <1>1, <1>3, <3>1 DEF Decodable, Marked
  <2>2. CASE result' # "Ok"
    BY <1>1, <1>2, <2>2, StaysVisible
  <2> QED BY <2>1, <2>2
<1> QED BY <1>4, <1>5, <1>6 DEF OwnInv

(* The drop of the Writer: after the footer the stream is whole; before it *)
(* the body is broken.                                                     *)
LEMMA DropChunkerOwn ==
  ASSUME BIInv, DropChunkerWriter
  PROVE  OwnInv'
<1> USE EncoderAssumption, BoundAssumption
<1>1. /\ UNCHANGED <<builder, encoding, inner, arg, answer, enc, accepted, flushed, marks, aborted>>
      /\ op = "drop" \/ (op = "footer" /\ enc.out = 0)
      /\ inner \in {"Dead", "Gone"} /\ builder = {} /\ op' = "idle"
  BY DEF DropChunkerWriter, BIInv, CallInv
<1>2. /\ buf'.to = buf.to /\ buf.from <= buf'.from /\ buf'.from \in Nat /\ state' = state
      /\ failed' = failed /\ writer' = "dropped"
  BY DropEffect DEF DropChunkerWriter, BIInv, rvars
<1>3. buf.to \in Nat
  BY DEF BIInv, IInv, TypeOK, Chunks
<1>4. BTypeOK'
  BY <1>1, <1>2 DEF BIInv, BTypeOK
<1>5. CallInv' /\ EncoderInv' /\ BrokenInv' /\ FlushIsVisible'
  BY <1>1, <1>2, StaysVisible DEF BIInv, CallInv, EncoderInv, BrokenInv, Broken
<1>6. MarkInv'
  <2>1. Broken' <=> Broken
    BY <1>2 DEF Broken
  <2>2. inner = "Gone" /\ encoding = "gzip" => Broken \/ Marked(TRUE, buf.to)
    <3>1. CASE op = "drop"
      BY <3>1 DEF BIInv, MarkInv
    <3>2. CASE op = "footer" /\ enc.out = 0
      <4>1. Marked(TRUE, buf.to + enc.out)
        BY <3>2, Zenon DEF BIInv, MarkInv
      <4>2. buf.to + enc.out = buf.to
        BY <1>3, <3>2
      <4> QED BY <4>1, <4>2 DEF Marked
    <3> QED BY <1>1, <3>1, <3>2
  <2>3. Marked(TRUE, buf.to) => Marked(TRUE, buf.to)'
    BY <1>1, <1>2 DEF Marked
  <2>4. encoding = "none" => Broken \/ accepted = buf.to
    BY DEF BIInv, MarkInv
  <2> QED BY <1>1, <1>2, <2>1, <2>2, <2>3, <2>4 DEF MarkInv
<1> QED BY <1>4, <1>5, <1>6 DEF OwnInv

(* The consumer, and a step that changes nothing.                          *)
LEMMA ConsumerOwn ==
  ASSUME BIInv, Consumer \/ UNCHANGED allvars
  PROVE  OwnInv'
<1>1. /\ UNCHANGED <<builder, encoding, inner, op, arg, answer, enc, accepted, flushed, marks, aborted>>
      /\ UNCHANGED <<buf, writer>> /\ (Broken => Broken')
      /\ state' = "Ok" => state = "Ok"
  <2>1. CASE Consumer
    BY <2>1, ConsumerEffect DEF Consumer, bvars
  <2>2. CASE UNCHANGED allvars
    BY <2>2 DEF allvars, bvars, vars, shared, wvars, rvars, Broken
  <2> QED BY <2>1, <2>2
<1>2. BTypeOK'
  BY <1>1 DEF BIInv, BTypeOK
<1>3. CallInv' /\ EncoderInv' /\ BrokenInv'
  BY <1>1 DEF BIInv, CallInv, EncoderInv, BrokenInv
<1>4. FlushIsVisible'
  BY <1>1 DEF BIInv, FlushIsVisible, Decodable
<1>5. MarkInv'
  BY <1>1 DEF BIInv, MarkInv, Marked
<1> QED BY <1>2, <1>3, <1>4, <1>5 DEF OwnInv
-----------------------------------------------------------------------------
(***************************************************************************)
(* Theorems                                                                *)
(***************************************************************************)

(* Every step of the application, the encoder and the consumer keeps the   *)
(* invariant.                                                              *)
LEMMA NextBIInv == BIInv /\ [BNext]_allvars => BIInv'
<1> SUFFICES ASSUME BIInv, [BNext]_allvars PROVE BIInv'
  OBVIOUS
<1>1. IInv'
  BY UsesChunker, NextIInv DEF BIInv
<1>2. OwnInv'
  <2>1. CASE build
    BY <2>1, BuildOwn
  <2>2. CASE Application
    BY <2>2, CallOwn, RawOwn, AbortOwn DEF Application
  <2>3. CASE Continue
    BY <2>3, EmitOwn, CompressorOwn, FlushEncodedOwn, DropChunkerOwn DEF Continue
  <2>4. CASE Consumer \/ UNCHANGED allvars
    BY <2>4, ConsumerOwn
  <2> QED BY <2>1, <2>2, <2>3, <2>4 DEF BNext
<1> QED BY <1>1, <1>2 DEF BIInv, OwnInv

(* The invariant of a streaming body with its writer.                      *)
THEOREM BodyInvariant == BSpec => []BIInv
<1>1. BInit => BIInv
  BY InitOwn, InitIInv DEF BInit, BIInv, OwnInv
<1> QED BY <1>1, NextBIInv, PTL DEF BSpec

(* BodyWriter and the gzip encoder use the chunker as Chunker says it can  *)
(* be used: what is proved of Spec is true of every streaming body.        *)
THEOREM BodyUsesChunker == BSpec => Spec
<1>1. BInit => Init
  BY DEF BInit
<1> QED BY <1>1, UsesChunker, BodyInvariant, PTL DEF BSpec, Spec

(* The types of the builder, of BodyWriter and of the encoder; the Writer  *)
(* is alive exactly while something still owns it.                         *)
THEOREM BodyTypeCorrect == BSpec => []BTypeOK
BY BodyInvariant, PTL DEF BIInv

(* A body that ends without an error is what the application wrote, whole, *)
(* in the encoding the response names.                                     *)
THEOREM CleanEndIsDecodable == BSpec => []CleanEndDecodes
<1>1. BIInv => CleanEndDecodes
  <2> SUFFICES ASSUME BIInv, seen = "end", ~failed
               PROVE  ~aborted /\ WholeStream(Position, accepted)
    BY DEF CleanEndDecodes
  <2>1. writer = "dropped" /\ Position = buf.to /\ ~Broken
    BY DEF BIInv, IInv, EndInv, Broken
  <2>2. op = "idle" /\ inner \in {"Gone", "None"} /\ ~aborted
    BY <2>1 DEF BIInv, BTypeOK, BrokenInv
  <2>3. CASE inner = "None"
    BY <2>1, <2>2, <2>3 DEF BIInv, CallInv, WholeStream
  <2>4. CASE inner = "Gone"
    BY <2>1, <2>2, <2>4 DEF BIInv, BTypeOK, MarkInv, Marked, WholeStream
  <2> QED BY <2>2, <2>3, <2>4
<1> QED BY <1>1, BodyInvariant, PTL

(* What a successful flush covers is decodable from what has left the      *)
(* writer.                                                                 *)
THEOREM FlushedIsVisible == BSpec => []FlushIsVisible
BY BodyInvariant, PTL DEF BIInv

(* No byte reaches the client after write or flush returned an error.      *)
THEOREM NothingAfterError == BSpec => ErrorIsFinal
<1>1. ASSUME BIInv, [BNext]_allvars, answer = "Err"
      PROVE  received' = received
  <2>1. state # "Ok"
    BY <1>1 DEF BIInv, BrokenInv, Broken, IInv, EndInv
  <2>2. [Next]_vars
    BY <1>1, UsesChunker
  <2>3. CASE Producer
    BY <2>3 DEF Producer, Write, Flush, Abort, DropWriter, rvars
  <2>4. CASE Wake \/ poll_next \/ Executor
    BY <2>1, <2>4, ConsumerEffect
  <2>5. CASE UNCHANGED vars
    BY <2>5 DEF vars, rvars
  <2> QED BY <2>2, <2>3, <2>4, <2>5 DEF Next
<1>2. BIInv /\ [BNext]_allvars => [answer = "Err" => received' = received]_allvars
  BY <1>1
<1> QED BY <1>2, BodyInvariant, PTL DEF BSpec, ErrorIsFinal
=============================================================================
