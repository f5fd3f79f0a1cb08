----------------------------- MODULE RangeBody -----------------------------
(***************************************************************************)
(* From resolved byte ranges to the bytes of the response: the second half *)
(* of serve_inner and prepare_multipart (src/src/serving.rs), the body's   *)
(* ExactLenStream (src/src/body.rs) and the MultipartStream that chains    *)
(* one ExactLenStream per part.                                            *)
(*                                                                         *)
(* Only lengths matter here: a range is its size, a part header and the    *)
(* trailer are their numbers of bytes.  Loops of the code that build the   *)
(* response run one iteration per step, and so does MultipartStream's poll *)
(* loop; nobody else sees the state in between.                            *)
(*                                                                         *)
(* The entity is external: its stream answers a poll with any number of    *)
(* bytes, an error, its end or Pending, whether or not that keeps the      *)
(* promise of Entity::get_range, and stays at its end once there.          *)
(***************************************************************************)
EXTENDS Integers, Sequences, ExactLenStream

CONSTANTS
  MaxLen,         \* bound: length of the entity
  MaxParts,       \* bound: number of ranges in a request
  MaxHeader,      \* bound: length of a part's headers
  MaxChunk,       \* bound: bytes in one item of the entity's stream
  EstHeader,      \* the estimate of a part header's length, 80
  Trailer,        \* PART_TRAILER.len()
  TooLarge,       \* length of the text of a 413 response
  U64Max,         \* u64::MAX
  DebugBuild      \* overflow checks and debug assertions are compiled in

ASSUME BoundsAssumption ==
  MaxLen \in Nat /\ MaxParts \in Nat /\ MaxHeader \in Nat \ {0} /\ MaxChunk \in Nat
ASSUME LengthsAssumption ==
  /\ EstHeader \in Nat \ {0} /\ Trailer \in Nat \ {0} /\ TooLarge \in Nat \ {0}
  /\ U64Max \in Nat /\ MaxLen <= U64Max /\ TooLarge <= U64Max
ASSUME ModeAssumption == DebugBuild \in BOOLEAN

VARIABLES
  method,          \* "GET" or "HEAD"
  len,             \* ent.len()
  sizes            \* r.end - r.start of the ranges; <<>> is ResolvedRanges::None

VARIABLES
  phase,           \* "choose", "estimate", "prepare" or "body"
  part,            \* ranges that the current loop has done
  acc,             \* est_len or body_len, whichever the current loop adds up
  part_headers,    \* lengths of the part headers built and not yet sent
  offsets,         \* where each part, and after the last the trailer, begins
  content_length   \* the Content-Length of the response

VARIABLES
  body,            \* the BodyStream: "Once", "ExactLen" or "Multipart"
  once,            \* bytes that BodyStream::Once holds
  cur,             \* the ExactLenStream, Option of one for Multipart
  state,           \* MultipartStream.state
  remaining        \* MultipartStream.remaining

VARIABLES
  seen,            \* what the last poll_next returned
  sent,            \* bytes returned so far
  starts,          \* bytes returned before each part header
  failed,          \* some poll returned an error
  after            \* what polls returned after an error

request == <<method, len, sizes>>
plan    == <<phase, part, acc, part_headers, offsets, content_length>>
stream  == <<body, once, cur, state, remaining>>
client  == <<seen, sent, starts, failed, after>>
vars    == <<request, plan, stream, client>>

N == Len(sizes)
Init ==
  /\ method \in {"GET", "HEAD"} /\ len \in 0 .. MaxLen
  /\ \E n \in 0 .. MaxParts : sizes \in [1 .. n -> 0 .. len]
  /\ phase = "choose" /\ part = 0 /\ acc = 0 /\ part_headers = <<>>
  /\ offsets = <<0>> /\ content_length = 0
  /\ body = "Once" /\ once = 0 /\ cur = None /\ state = 0 /\ remaining = 0
  /\ seen = "nothing" /\ sent = 0 /\ starts = <<>> /\ failed = FALSE
  /\ after = {}
-----------------------------------------------------------------------------
(***************************************************************************)
(* serve_inner, from the resolved ranges on                                *)
(***************************************************************************)

(* Body::empty, or Body::from a text of n bytes.                           *)
Respond(n) == phase' = "body" /\ body' = "Once" /\ once' = n /\ UNCHANGED <<cur, state, remaining>>

(* One range of n bytes: Content-Length, and an ExactLenStream for a GET.  *)
ServeRange(n) ==
  /\ content_length' = n
  /\ \/ method = "HEAD" /\ Respond(0)
     \/ /\ method # "HEAD"
        /\ phase' = "body" /\ body' = "ExactLen" /\ cur' = ExactLen(n)
        /\ UNCHANGED <<once, state, remaining>>
  /\ UNCHANGED <<part, acc, part_headers, offsets>>

Choose ==
  /\ phase = "choose"
  /\ \/ N = 0 /\ ServeRange(len)
     \/ N = 1 /\ ServeRange(sizes[1])
     \/ N > 1 /\ phase' = "estimate"
        /\ UNCHANGED <<part, acc, part_headers, offsets, content_length, stream>>
  /\ UNCHANGED <<request, client>>

(* The try_fold over the ranges; an overflow gives None.                   *)
Estimate ==
  /\ phase = "estimate" /\ part < N
  /\ LET sum == acc + EstHeader + sizes[part + 1]
     IN \/ /\ sum <= U64Max
           /\ acc' = sum /\ part' = part + 1
           /\ UNCHANGED <<phase, part_headers, offsets, content_length, stream>>
        \/ sum > U64Max /\ ServeRange(len)
  /\ UNCHANGED <<request, client>>

(* Several ranges are only worth it if they come out shorter.              *)
Decide ==
  /\ phase = "estimate" /\ part = N
  /\ \/ /\ acc < len
        /\ phase' = "prepare" /\ part' = 0 /\ acc' = 0
        /\ UNCHANGED <<part_headers, offsets, content_length, stream>>
     \/ acc >= len /\ ServeRange(len)
  /\ UNCHANGED <<request, client>>

(* MultipartLenOverflowError: 413, whose length hyper takes from the body. *)
Overflow ==
  /\ content_length' = TooLarge
  /\ Respond(TooLarge)
  /\ UNCHANGED <<part, acc, part_headers, offsets>>

(* Mutant: plain additions instead of checked_add.                         *)
PreparePartMutant ==
  /\ phase = "prepare" /\ part < N
  /\ \E h \in 1 .. MaxHeader :
       LET sum == acc + h + sizes[part + 1]
       IN /\ acc' = sum /\ part' = part + 1
          /\ part_headers' = Append(part_headers, h)
          /\ offsets' = Append(offsets, sum)
          /\ UNCHANGED <<phase, content_length, stream>>
  /\ UNCHANGED <<request, client>>

(* One iteration of prepare_multipart's loop, with a part header of h      *)
(* bytes (its digits and the entity's headers decide how many).            *)
PreparePart ==
  /\ phase = "prepare" /\ part < N
  /\ \E h \in 1 .. MaxHeader :
       LET sum == acc + h + sizes[part + 1]
       IN \/ /\ sum <= U64Max
             /\ acc' = sum /\ part' = part + 1
             /\ part_headers' = Append(part_headers, h)
             /\ offsets' = Append(offsets, sum)
             /\ UNCHANGED <<phase, content_length, stream>>
          \/ sum > U64Max /\ Overflow
  /\ UNCHANGED <<request, client>>

(* Mutant: the trailer is left out of the length.                          *)
PrepareEndMutant ==
  /\ phase = "prepare" /\ part = N
  /\ content_length' = acc
  /\ \/ method = "HEAD" /\ Respond(0)
     \/ /\ method # "HEAD"
        /\ phase' = "body" /\ body' = "Multipart"
        /\ state' = 0 /\ cur' = None /\ remaining' = acc
        /\ UNCHANGED once
  /\ UNCHANGED <<part, acc, part_headers, offsets, request, client>>

(* The end of prepare_multipart and MultipartStream::new.                  *)
PrepareEnd ==
  /\ phase = "prepare" /\ part = N
  /\ \/ /\ acc + Trailer <= U64Max
        /\ content_length' = acc + Trailer
        /\ \/ method = "HEAD" /\ Respond(0)
           \/ /\ method # "HEAD"
              /\ phase' = "body" /\ body' = "Multipart"
              /\ state' = 0 /\ cur' = None /\ remaining' = acc + Trailer
              /\ UNCHANGED once
        /\ UNCHANGED <<part, acc, part_headers, offsets>>
     \/ acc + Trailer > U64Max /\ Overflow
  /\ UNCHANGED <<request, client>>
-----------------------------------------------------------------------------
(***************************************************************************)
(* The consumer and the entity's stream (external)                         *)
(***************************************************************************)

(* A consumer may poll after an error or the end, though hyper does not.   *)
MayPoll == phase = "body" /\ seen # "panic"

(* poll_next returns out, with n bytes if it is "data".                    *)
Return(out, n) ==
  /\ seen' = out /\ sent' = sent + n
  /\ failed' = (failed \/ out = "error")
  /\ after' = IF failed THEN after \cup {out} ELSE after

(* What the entity's stream may answer: n bytes, or another item.          *)
Items == [kind : {"data"}, n : 0 .. MaxChunk] \cup [kind : {"error", "none", "pending"}, n : {0}]
Offers(item) == item \in Items /\ (cur.ended => item.kind = "none")

(* Items a well behaved stream does not postpone for ever.                 *)
Productive(item) == item.kind \in {"error", "none"} \/ item.n > 0
-----------------------------------------------------------------------------
(***************************************************************************)
(* Body::poll_frame, by BodyStream                                         *)
(***************************************************************************)
PollOnce ==
  /\ MayPoll /\ body = "Once"
  /\ once' = 0
  /\ IF once > 0 THEN Return("data", once) ELSE Return("end", 0)
  /\ UNCHANGED <<request, plan, body, cur, state, remaining, starts>>

PollExactLen(item) ==
  /\ MayPoll /\ body = "ExactLen" /\ Offers(item)
  /\ LET r == exact_len_poll(cur, item)
     IN cur' = r.cur /\ Return(r.out, IF r.out = "data" THEN item.n ELSE 0)
  /\ UNCHANGED <<request, plan, body, once, state, remaining, starts>>

(* this.remaining -= n, then the n bytes are returned.                     *)
Take(n) ==
  \/ /\ n <= remaining \/ ~DebugBuild
     /\ remaining' = (remaining - n) % (U64Max + 1)
     /\ Return("data", n)
  \/ /\ n > remaining /\ DebugBuild
     /\ UNCHANGED remaining
     /\ Return("panic", 0)

(* The top of MultipartStream's loop: the current part is polled.          *)
PollPart(item) ==
  /\ MayPoll /\ body = "Multipart" /\ cur.some /\ Offers(item)
  /\ LET r == exact_len_poll(cur, item)
     IN \/ /\ r.out = "data"
           /\ cur' = r.cur /\ Take(item.n)
           /\ UNCHANGED state
        \/ /\ r.out = "error"
           /\ cur' = r.cur /\ remaining' = 0 /\ state' = 2 * N + 1
           /\ Return("error", 0)
        \/ /\ r.out = "end"
           /\ cur' = None /\ state' = state + 1
           /\ UNCHANGED <<remaining, seen, sent, failed, after>>
        \/ /\ r.out = "pending"
           /\ Return("pending", 0)
           /\ UNCHANGED <<cur, state, remaining>>
  /\ UNCHANGED <<request, plan, body, once, starts>>

(* The rest of the loop, when no part is open.                             *)
BetweenParts == MayPoll /\ body = "Multipart" /\ ~cur.some
Odd == state % 2 = 1
Index == state \div 2

(* Mutant: r.end is taken for the last byte of the range.                  *)
OpenPartMutant ==
  /\ BetweenParts /\ Index < N /\ Odd
  /\ cur' = ExactLen(sizes[Index + 1] + 1)
  /\ UNCHANGED <<request, plan, body, once, state, remaining, client>>

OpenPart ==
  /\ BetweenParts /\ Index < N /\ Odd
  /\ cur' = ExactLen(sizes[Index + 1])
  /\ UNCHANGED <<request, plan, body, once, state, remaining, client>>

(* Mutant: the header's bytes stay in remaining.                           *)
SendHeaderMutant ==
  /\ BetweenParts /\ Index < N /\ ~Odd
  /\ part_headers' = [part_headers EXCEPT ![Index + 1] = 0]
  /\ state' = state + 1
  /\ Return("data", part_headers[Index + 1])
  /\ starts' = Append(starts, sent)
  /\ UNCHANGED <<request, phase, part, acc, offsets, content_length, body, once, cur, remaining>>

SendHeader ==
  /\ BetweenParts /\ Index < N /\ ~Odd
  /\ part_headers' = [part_headers EXCEPT ![Index + 1] = 0]
  /\ state' = state + 1
  /\ Take(part_headers[Index + 1])
  /\ starts' = Append(starts, sent)
  /\ UNCHANGED <<request, phase, part, acc, offsets, content_length, body, once, cur>>

(* Mutant: the state is not advanced, the trailer is sent again.           *)
SendTrailerMutant ==
  /\ BetweenParts /\ Index = N /\ ~Odd
  /\ Take(Trailer)
  /\ UNCHANGED <<request, plan, body, once, cur, state, starts>>

SendTrailer ==
  /\ BetweenParts /\ Index = N /\ ~Odd
  /\ state' = state + 1
  /\ Take(Trailer)
  /\ UNCHANGED <<request, plan, body, once, cur, starts>>

SendEnd ==
  /\ BetweenParts /\ Index = N /\ Odd
  /\ IF DebugBuild /\ remaining # 0 THEN Return("panic", 0) ELSE Return("end", 0)
  /\ UNCHANGED <<request, plan, stream, starts>>

(* part_headers[i] or ranges[i] with i out of bounds.                      *)
IndexPanic ==
  /\ BetweenParts /\ Index > N
  /\ Return("panic", 0)
  /\ UNCHANGED <<request, plan, stream, starts>>

Build == Choose \/ Estimate \/ Decide \/ PreparePart \/ PrepareEnd
Loop == OpenPart \/ SendHeader \/ SendTrailer \/ SendEnd \/ IndexPanic
Poll(item) == PollExactLen(item) \/ PollPart(item)

Next == Build \/ PollOnce \/ (\E item \in Items : Poll(item)) \/ Loop

Spec == Init /\ [][Next]_vars

(* The response is built and polled, and the entity's stream is not        *)
(* pending and does not return empty chunks for ever.                      *)
Fairness ==
  /\ WF_vars(Build) /\ WF_vars(PollOnce \/ Loop)
  /\ WF_vars(\E item \in Items : Productive(item) /\ Poll(item))

FairSpec == Spec /\ Fairness
-----------------------------------------------------------------------------
(***************************************************************************)
(* Properties                                                              *)
(***************************************************************************)

(* Body::size_hint, which is exact; is_end_stream says that it is 0.       *)
size_hint ==
  CASE body = "Once" -> once
    [] body = "ExactLen" -> cur.remaining
    [] body = "Multipart" -> remaining

(* Every field has its type; lengths that the code keeps in a u64 fit one. *)
TypeOK ==
  /\ method \in {"GET", "HEAD"} /\ len \in 0 .. MaxLen /\ sizes \in Seq(0 .. len)
  /\ phase \in {"choose", "estimate", "prepare", "body"}
  /\ part \in 0 .. N /\ acc \in 0 .. U64Max
  /\ part_headers \in Seq(Nat) /\ offsets \in Seq(Nat)
  /\ content_length \in 0 .. U64Max
  /\ body \in {"Once", "ExactLen", "Multipart"} /\ once \in Nat
  /\ cur \in [some : BOOLEAN, remaining : 0 .. U64Max, ended : BOOLEAN]
  /\ state \in Nat /\ remaining \in 0 .. U64Max
  /\ seen \in {"nothing", "data", "pending", "end", "error", "panic"}
  /\ sent \in Nat /\ starts \in Seq(Nat) /\ failed \in BOOLEAN
  /\ after \subseteq {"data", "pending", "end", "error", "panic"}

(* A body that ends without an error has exactly the announced             *)
(* Content-Length, whatever the ranges, the part headers and the entity:   *)
(* a stream that is too short or too long is reported, never framed wrong. *)
ContentLengthExact ==
  seen = "end" /\ ~failed /\ method = "GET" => sent = content_length

(* Until an error, size_hint and what was sent add up to Content-Length,   *)
(* so a consumer that stops when is_end_stream is true has everything.     *)
HintAgrees ==
  phase = "body" /\ method = "GET" /\ ~failed => sent + size_hint = content_length

(* Each part header is sent after exactly the bytes that the headers and   *)
(* ranges before it have: no part runs into the next.                      *)
PartsFramed ==
  \A j \in 1 .. Len(starts) : j <= Len(offsets) /\ starts[j] = offsets[j]

(* No underflow of remaining, failed debug_assert or index out of bounds   *)
(* while the body is served.                                               *)
NoPanic == ~failed => seen # "panic"

(* A body that is polled ends or fails, even if the entity's stream never  *)
(* ends by itself.                                                         *)
Terminates == (method = "GET") ~> (seen = "end" \/ failed)

(***************************************************************************)
(* The inductive invariant behind the properties                           *)
(***************************************************************************)

(* Part j ends where the next begins; its header is still to be sent.      *)
Joined(j) == offsets[j + 1] = offsets[j] + part_headers[j] + sizes[j]

(* Offsets of the first n parts, none of them beyond the last.             *)
Offsets(n) ==
  /\ Len(part_headers) = n /\ Len(offsets) = n + 1 /\ offsets[1] = 0
  /\ \A j \in 1 .. n + 1 : offsets[j] <= offsets[n + 1]

(* While the response is built.                                            *)
PlanInv ==
  /\ phase \in {"choose", "estimate"} => part_headers = <<>> /\ offsets = <<0>>
  /\ phase = "choose" => part = 0 /\ acc = 0
  /\ phase = "prepare" =>
       /\ Offsets(part) /\ acc = offsets[part + 1]
       /\ \A j \in 1 .. part : Joined(j)
  /\ phase # "body" =>
       /\ seen = "nothing" /\ sent = 0 /\ starts = <<>> /\ ~failed
       /\ cur = None /\ state = 0

(* Where MultipartStream is, in terms of what it has sent.                 *)
MultipartInv ==
  /\ Offsets(N) /\ content_length = offsets[N + 1] + Trailer
  /\ sent + remaining = content_length
  /\ state <= 2 * N + 1
  /\ \A j \in 1 .. N : 2 * j > state + 1 => Joined(j)
  /\ ~cur.some /\ ~Odd => sent = offsets[Index + 1]
  /\ ~cur.some /\ Odd /\ Index < N => sent + sizes[Index + 1] = offsets[Index + 2]
  /\ cur.some => Odd /\ Index < N /\ sent + cur.remaining = offsets[Index + 2]
  /\ Odd /\ Index = N => sent = content_length
  /\ Len(starts) = IF Odd /\ Index < N THEN Index + 1 ELSE Index

(* While the body is polled.                                               *)
BodyInv ==
  phase = "body" =>
    /\ body = "Once" => (method = "GET" /\ ~failed => sent + once = content_length)
    /\ body = "ExactLen" =>
         cur.some /\ (~failed => sent + cur.remaining = content_length)
    /\ body = "Multipart" =>
         IF failed THEN state >= 2 * N + 1 ELSE MultipartInv
    /\ body # "Multipart" => starts = <<>>
    /\ seen = "end" /\ ~failed /\ method = "GET" => size_hint = 0

(* The parts together are preserved by every step.                         *)
IInv == TypeOK /\ PlanInv /\ BodyInv /\ PartsFramed /\ NoPanic
-----------------------------------------------------------------------------
(***************************************************************************)
(* What comments of the code say and the code does not do                  *)
(***************************************************************************)

(* body.rs zeroes ExactLenStream.remaining with the comment "fuse.", and   *)
(* its tests poll once more after an error: "assert!(...is_none()); //     *)
(* fused."                                                                 *)
ExactLenFused == body = "ExactLen" => after \subseteq {"end"}

(* serving.rs marks MultipartStream's answer to an error with "// Fuse.":  *)
(* a later poll of it is harmless.                                         *)
MultipartFused == body = "Multipart" => "panic" \notin after
=============================================================================
