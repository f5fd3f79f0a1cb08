----------------------------- MODULE BodyWriter -----------------------------
(***************************************************************************)
(* Streaming bodies as an application makes them: StreamingBodyBuilder     *)
(* (src/src/lib.rs) and BodyWriter (src/src/gzip.rs) over the chunker,     *)
(* whose actions this module conjoins with its own state.                  *)
(*                                                                         *)
(* flate2's GzEncoder is external and is modelled by what it does with the *)
(* chunker::Writer it owns: it writes a header first, keeps compressed     *)
(* bytes in a buffer that the next call writes out, hands over everything  *)
(* it was given when flushed, and on drop finishes the stream and adds the *)
(* footer.  Each of its writes to the chunker is a step, so the consumer   *)
(* runs in the middle of a call; a call ends before the next one starts.   *)
(*                                                                         *)
(* In a compressed body the chunker's positions count compressed bytes;    *)
(* marks says which of them make how much of the application's data        *)
(* decodable.                                                              *)
(***************************************************************************)
EXTENDS Chunker

CONSTANTS
  Header,    \* length of a gzip header
  Footer,    \* length of a gzip footer
  MaxOut,    \* bound: bytes the compressor produces at once
  MaxApp     \* bound: bytes the application writes

ASSUME EncoderAssumption ==
  /\ Header \in 1 .. MaxWrite /\ Footer \in 1 .. MaxWrite
  /\ MaxOut \in Nat \ {0} /\ 2 * MaxOut <= MaxWrite /\ MaxApp \in Nat

VARIABLES
  builder,   \* Option of the StreamingBodyBuilder, until it is built
  encoding,  \* the response's Content-Encoding: "gzip" or "none"
  inner,     \* BodyWriter.0; "None" without a BodyWriter, "Gone" after its drop
  op,        \* how far the call or the destructor in progress has come
  arg,       \* the length of the slice passed to write
  answer     \* what the last write or flush returned

VARIABLES
  enc,       \* GzEncoder: header and compressed bytes to write, unsynced input
  accepted,  \* bytes the application was told are written
  flushed,   \* how many of them were when flush last succeeded
  marks,     \* positions that make the application's bytes decodable
  aborted    \* abort was called on a live BodyWriter

bvars == <<builder, encoding, inner, op, arg, answer, enc, accepted, flushed, marks, aborted>>
allvars == <<vars, bvars>>

(* streaming_body: GET or HEAD, what should_gzip says, with_gzip_level.    *)
Builders == [should_gzip : BOOLEAN, gzip_level : {0, 6}, body_needed : BOOLEAN]

BInit ==
  /\ Init
  /\ \E b \in Builders : builder = {b}
  /\ encoding = "none" /\ inner = "None" /\ op = "idle" /\ arg = 0 /\ answer = "Ok"
  /\ enc = [header |-> 0, out |-> 0, dirty |-> FALSE]
  /\ accepted = 0 /\ flushed = 0 /\ marks = {} /\ aborted = FALSE

(* Mutant: for HEAD the writer is kept with the response.                  *)
buildMutant ==
  /\ \E b \in builder :
       LET gzip == b.should_gzip /\ b.gzip_level > 0
       IN /\ encoding' = IF gzip THEN "gzip" ELSE "none"
          /\ inner' = IF ~b.body_needed THEN inner ELSE IF gzip THEN "Gzipped" ELSE "Raw"
          /\ enc' = [header |-> IF gzip THEN Header ELSE 0, out |-> 0, dirty |-> gzip]
  /\ builder' = {}
  /\ UNCHANGED <<vars, op, arg, answer, accepted, flushed, marks, aborted>>

(* StreamingBodyBuilder::build; for HEAD the writer is dropped on return.  *)
build ==
  /\ \E b \in builder :
       LET gzip == b.should_gzip /\ b.gzip_level > 0
       IN /\ encoding' = IF gzip THEN "gzip" ELSE "none"
          /\ \/ /\ b.body_needed
                /\ inner' = IF gzip THEN "Gzipped" ELSE "Raw"
                /\ enc' = [header |-> IF gzip THEN Header ELSE 0, out |-> 0, dirty |-> gzip]
                /\ UNCHANGED vars
             \/ /\ ~b.body_needed
                /\ DropWriter
                /\ UNCHANGED <<inner, enc>>
  /\ builder' = {}
  /\ UNCHANGED <<op, arg, answer, accepted, flushed, marks, aborted>>
-----------------------------------------------------------------------------
(***************************************************************************)
(* BodyWriter's methods                                                    *)
(***************************************************************************)
Idle == builder = {} /\ op = "idle"

(* How many bytes the chunker takes in this step.                          *)
Taken == buf'.to - buf.to

(* Mutant: what was there is forgotten instead of dropped.                 *)
DropInnerMutant(next) ==
  /\ inner' = next
  /\ UNCHANGED op

(* self.0 = Inner::Dead drops what was there: the chunker's Writer, or the *)
(* encoder around it, whose destructor finishes the stream.                *)
DropInner(next) ==
  /\ inner' = next
  /\ op' = IF inner = "Raw" THEN "drop" ELSE "finish"

(* The end of write and of flush.                                          *)
Return(ok) ==
  IF ok THEN answer' = "Ok" /\ op' = "idle" /\ UNCHANGED inner
  ELSE answer' = "Err" /\ DropInner("Dead")

CallDead ==
  /\ Idle /\ inner = "Dead"
  /\ answer' = "Err"
  /\ UNCHANGED <<vars, builder, encoding, inner, op, arg, enc, accepted, flushed, marks, aborted>>

WriteRaw(n) ==
  /\ Idle /\ inner = "Raw" /\ accepted + n <= MaxApp
  /\ Write(n)
  /\ accepted' = IF result' = "Ok" THEN accepted + Taken ELSE accepted
  /\ Return(result' = "Ok")
  /\ UNCHANGED <<builder, encoding, arg, enc, flushed, marks, aborted>>

FlushRaw ==
  /\ Idle /\ inner = "Raw"
  /\ Flush
  /\ flushed' = IF result' = "Ok" THEN accepted ELSE flushed
  /\ Return(result' = "Ok")
  /\ UNCHANGED <<builder, encoding, arg, enc, accepted, marks, aborted>>

WriteGzipped(n) ==
  /\ Idle /\ inner = "Gzipped" /\ accepted + n <= MaxApp
  /\ op' = "write" /\ arg' = n
  /\ UNCHANGED <<vars, builder, encoding, inner, answer, enc, accepted, flushed, marks, aborted>>

(* Mutant: only the chunker below the encoder is flushed.                  *)
FlushGzippedMutant ==
  /\ Idle /\ inner = "Gzipped"
  /\ Flush
  /\ flushed' = IF result' = "Ok" THEN accepted ELSE flushed
  /\ Return(result' = "Ok")
  /\ UNCHANGED <<builder, encoding, arg, enc, accepted, marks, aborted>>

FlushGzipped ==
  /\ Idle /\ inner = "Gzipped"
  /\ op' = "flush"
  /\ UNCHANGED <<vars, builder, encoding, inner, arg, answer, enc, accepted, flushed, marks, aborted>>

(* Mutant: the encoder is dropped without aborting the chunker below it.   *)
abortMutant ==
  /\ Idle /\ inner \in {"Raw", "Gzipped", "Dead"}
  /\ \/ /\ inner = "Raw"
        /\ Abort /\ DropInner("Dead") /\ aborted' = TRUE
     \/ /\ inner = "Gzipped"
        /\ DropInner("Dead") /\ aborted' = TRUE /\ UNCHANGED vars
     \/ inner = "Dead" /\ UNCHANGED <<vars, inner, op, aborted>>
  /\ UNCHANGED <<builder, encoding, arg, answer, enc, accepted, flushed, marks>>

(* BodyWriter::abort                                                       *)
abort ==
  /\ Idle /\ inner \in {"Raw", "Gzipped", "Dead"}
  /\ \/ /\ inner # "Dead"
        /\ Abort /\ DropInner("Dead") /\ aborted' = TRUE
     \/ inner = "Dead" /\ UNCHANGED <<vars, inner, op, aborted>>
  /\ UNCHANGED <<builder, encoding, arg, answer, enc, accepted, flushed, marks>>

(* The application drops the BodyWriter.                                   *)
DropBodyWriter ==
  /\ Idle
  /\ \/ inner \in {"Raw", "Gzipped"} /\ DropInner("Gone")
     \/ inner = "Dead" /\ inner' = "Gone" /\ UNCHANGED op
  /\ UNCHANGED <<vars, builder, encoding, arg, answer, enc, accepted, flushed, marks, aborted>>

(* The chunker's Writer is dropped, by itself or with the encoder.         *)
DropChunkerWriter ==
  /\ op = "drop" \/ (op = "footer" /\ enc.out = 0)
  /\ DropWriter
  /\ op' = "idle"
  /\ UNCHANGED <<builder, encoding, inner, arg, answer, enc, accepted, flushed, marks, aborted>>
-----------------------------------------------------------------------------
(***************************************************************************)
(* GzEncoder (external): write, flush, and the destructor                  *)
(***************************************************************************)
Destructor == {"finish", "finishing", "footer"}

(* A write to the chunker, of the header or of compressed bytes.  One that *)
(* fails ends the call; in the destructor the error is dropped and so is   *)
(* the Writer.                                                             *)
EncoderWrite(field) ==
  /\ enc[field] > 0
  /\ Write(enc[field])
  /\ enc' = [enc EXCEPT ![field] = @ - Taken]
  /\ IF result' = "Ok" THEN UNCHANGED <<inner, op, answer>>
     ELSE IF op \in Destructor THEN op' = "drop" /\ UNCHANGED <<inner, answer>>
     ELSE Return(FALSE)
  /\ UNCHANGED <<builder, encoding, arg, accepted, flushed, marks, aborted>>

(* flush adds to the compressed bytes before it writes them out, write and *)
(* the destructor write them out first.                                    *)
Emit ==
  \/ op \in {"write", "flush", "finish"} /\ EncoderWrite("header")
  \/ op \in {"write", "flushing", "finish", "finishing", "footer"} /\ enc.header = 0
     /\ EncoderWrite("out")

Drained == enc.header = 0 /\ enc.out = 0

(* The compressor takes some of the slice and gives what it likes.         *)
Compress ==
  /\ op = "write" /\ Drained
  /\ \E m \in IF arg = 0 THEN {0} ELSE 1 .. arg, k \in IF arg = 0 THEN {0} ELSE 0 .. MaxOut :
       /\ accepted' = accepted + m
       /\ enc' = [enc EXCEPT !.out = k, !.dirty = IF m > 0 THEN TRUE ELSE @]
  /\ Return(TRUE) /\ arg' = 0
  /\ UNCHANGED <<vars, builder, encoding, flushed, marks, aborted>>

(* The position after everything the encoder holds.                        *)
Mark(last) == [app |-> accepted, at |-> buf.to + enc'.header + enc'.out, last |-> last]

(* The compressor is told to hand over what it has.                        *)
Sync ==
  /\ op = "flush" /\ enc.header = 0
  /\ \E k \in IF enc.dirty THEN 1 .. MaxOut ELSE {0} :
       enc' = [enc EXCEPT !.out = @ + k, !.dirty = FALSE]
  /\ marks' = marks \cup {Mark(FALSE)}
  /\ op' = "flushing"
  /\ UNCHANGED <<vars, builder, encoding, inner, arg, answer, accepted, flushed, aborted>>

(* Everything is written out, the chunker is flushed.                      *)
FlushEncoded ==
  /\ op = "flushing" /\ Drained
  /\ Flush
  /\ flushed' = IF result' = "Ok" THEN accepted ELSE flushed
  /\ Return(result' = "Ok")
  /\ UNCHANGED <<builder, encoding, arg, enc, accepted, marks, aborted>>

Finish ==
  /\ op = "finish" /\ Drained
  /\ \E k \in 1 .. MaxOut : enc' = [enc EXCEPT !.out = k, !.dirty = FALSE]
  /\ op' = "finishing"
  /\ UNCHANGED <<vars, builder, encoding, inner, arg, answer, accepted, flushed, marks, aborted>>

AddFooter ==
  /\ op = "finishing" /\ Drained
  /\ enc' = [enc EXCEPT !.out = Footer]
  /\ marks' = marks \cup {Mark(TRUE)}
  /\ op' = "footer"
  /\ UNCHANGED <<vars, builder, encoding, inner, arg, answer, accepted, flushed, aborted>>
-----------------------------------------------------------------------------
Application ==
  \/ CallDead \/ (\E n \in 0 .. MaxWrite : WriteRaw(n) \/ WriteGzipped(n))
  \/ FlushRaw \/ FlushGzipped \/ abort \/ DropBodyWriter

(* A call that has begun, or a destructor, runs to its end.                *)
Continue == Emit \/ Compress \/ Sync \/ FlushEncoded \/ Finish \/ AddFooter \/ DropChunkerWriter

(* The response, and with it the Reader, exists once it is built.          *)
Consumer == builder = {} /\ (Wake \/ poll_next \/ Executor) /\ UNCHANGED bvars

BNext == build \/ Application \/ Continue \/ Consumer

BSpec == BInit /\ [][BNext]_allvars

(* As for the chunker; and the thread that called BodyWriter goes on.      *)
BFairness ==
  /\ WF_allvars(build) /\ WF_allvars(Continue)
  /\ WF_allvars(Wake /\ UNCHANGED bvars) /\ WF_allvars(RunTask /\ UNCHANGED bvars)
  /\ WF_allvars(poll_next /\ UNCHANGED bvars)

BFairSpec == BSpec /\ BFairness
-----------------------------------------------------------------------------
(***************************************************************************)
(* Properties                                                              *)
(***************************************************************************)

(* The parts of builder, writer and encoder have their types, and there is *)
(* a chunker to write to exactly while something of BodyWriter is left.    *)
BTypeOK ==
  /\ builder \subseteq Builders /\ encoding \in {"gzip", "none"}
  /\ inner \in {"Raw", "Gzipped", "Dead", "Gone", "None"}
  /\ op \in {"idle", "write", "flush", "flushing", "finish", "finishing", "footer", "drop"}
  /\ arg \in 0 .. MaxWrite /\ answer \in {"Ok", "Err"}
  /\ enc \in [header : 0 .. Header, out : 0 .. MaxWrite, dirty : BOOLEAN]
  /\ accepted \in 0 .. MaxApp /\ flushed \in 0 .. accepted
  /\ marks \subseteq [app : 0 .. MaxApp, at : Nat, last : BOOLEAN]
  /\ aborted \in BOOLEAN
  /\ writer = "alive" <=> builder # {} \/ inner \in {"Raw", "Gzipped"} \/ op # "idle"

(* The first p bytes of the body, decoded as the response's header says,   *)
(* are the first n bytes of the application.                               *)
Decodable(p, n) ==
  \/ n = 0
  \/ encoding = "none" /\ p >= n
  \/ encoding = "gzip" /\ \E m \in marks : m.app >= n /\ m.at <= p

(* They are a whole stream of exactly n bytes.                             *)
WholeStream(p, n) ==
  IF encoding = "gzip" /\ inner # "None"
  THEN \E m \in marks : m.last /\ m.app = n /\ m.at = p
  ELSE p = n

(* A client that sees a clean end has every byte the application wrote, in *)
(* the encoding it was told, header and footer included; the destructor    *)
(* that runs after an abort or an error never makes a body look complete.  *)
CleanEndDecodes ==
  seen = "end" /\ ~failed => ~aborted /\ WholeStream(Position, accepted)

(* When flush has returned Ok, what was written before it is in the queue  *)
(* or delivered, and can be decoded without anything that comes later:     *)
(* nothing is left in the encoder, in its buffer or in the chunker's.      *)
FlushIsVisible == state = "Ok" => Decodable(buf.from, flushed)

(* gzip.rs: an error from write or flush "indicates that the client        *)
(* certainly won't receive any additional bytes".                          *)
ErrorIsFinal == [][answer = "Err" => received' = received]_allvars

(* When the application has dropped the writer, or got none for a HEAD, a  *)
(* client that stays sees the end; when it aborted, an error.              *)
OutcomeIsReported ==
  /\ (builder = {} /\ inner \in {"Gone", "None"} /\ ~aborted) ~> (seen = "end" \/ reader = "dropped")
  /\ aborted ~> (failed \/ reader = "dropped")
-----------------------------------------------------------------------------
(***************************************************************************)
(* The inductive invariant behind the properties                           *)
(***************************************************************************)
(* The consumer has the error, or will get it.                             *)
Broken == state = "Err" \/ failed

(* What a call in progress says about the writer; without a BodyWriter     *)
(* nothing was written.                                                    *)
CallInv ==
  /\ builder # {} => inner = "None"
  /\ inner = "None" => /\ op = "idle" /\ answer = "Ok" /\ ~aborted
                       /\ accepted = 0 /\ buf.to = 0
  /\ op \in {"write", "flush", "flushing"} => inner = "Gzipped"
  /\ op \in {"finish", "finishing", "footer", "drop"} => inner \in {"Dead", "Gone"}
  /\ op \in {"finish", "finishing", "footer"} => encoding = "gzip"
  /\ inner = "Raw" => encoding = "none"
  /\ inner = "Gzipped" => encoding = "gzip"
  /\ op = "write" => accepted + arg <= MaxApp

(* A flush finds at most what one call left in the encoder.                *)
EncoderInv ==
  /\ inner = "Gzipped" /\ op # "flushing" => enc.out <= MaxOut
  /\ op \in {"flushing", "finishing", "footer"} => enc.header = 0

(* An error is only ever reported for a body that is broken for good.      *)
BrokenInv == inner = "Dead" \/ aborted \/ answer = "Err" => Broken

(* The mark of the flush or of the footer that is being written out, and   *)
(* what is left of it at the end.                                          *)
Marked(last, p) == \E m \in marks : m.app = accepted /\ m.at = p /\ (last => m.last)

MarkInv ==
  /\ op = "flushing" => Marked(FALSE, buf.to + enc.out)
  /\ op = "footer" => Marked(TRUE, buf.to + enc.out)
  /\ inner = "Gone" /\ op = "idle" /\ encoding = "gzip" => Broken \/ Marked(TRUE, buf.to)
  /\ inner = "Gone" /\ op = "drop" /\ encoding = "gzip" => Broken
  /\ encoding = "none" => Broken \/ accepted = buf.to

BIInv == IInv /\ BTypeOK /\ CallInv /\ EncoderInv /\ BrokenInv /\ MarkInv /\ FlushIsVisible
=============================================================================
