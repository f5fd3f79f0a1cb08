-------------------------- MODULE RangeBodyProofs --------------------------
(***************************************************************************)
(* Proofs about RangeBody for every entity length, number and size of      *)
(* ranges, length of part headers and behaviour of the entity's stream,    *)
(* in a build with overflow checks and in one without.                     *)
(***************************************************************************)
EXTENDS RangeBody, SequenceTheorems, TLAPS

-----------------------------------------------------------------------------
(* What state >> 1 and state & 1 are, and how state += 1 changes them.     *)
LEMMA Halves ==
  ASSUME NEW s \in Nat
  PROVE  /\ s \div 2 \in Nat /\ s % 2 \in {0, 1}
         /\ s = 2 * (s \div 2) + (s % 2)
OBVIOUS

(* A sum below 2^64 is not changed by wrapping.                            *)
LEMMA NoWrap ==
  ASSUME NEW a \in 0 .. U64Max
  PROVE  a % (U64Max + 1) = a
BY LengthsAssumption

(* A wrapped difference is a u64.                                          *)
LEMMA WrapType ==
  ASSUME NEW a \in Int
  PROVE  a % (U64Max + 1) \in 0 .. U64Max
BY LengthsAssumption

(* Before the response is built nothing has been sent.                     *)
LEMMA InitIInv == Init => IInv
<1> SUFFICES ASSUME Init PROVE IInv
  OBVIOUS
<1> USE BoundsAssumption, LengthsAssumption, ModeAssumption
<1>1. sizes \in Seq(0 .. len) /\ N \in Nat
  <2>1. PICK n \in 0 .. MaxParts : sizes \in [1 .. n -> 0 .. len]
    BY DEF Init
  <2>2. n \in Nat
    OBVIOUS
  <2>3. [1 .. n -> 0 .. len] \subseteq Seq(0 .. len)
    BY <2>2, SeqDef, Zenon
  <2> QED BY <2>1, <2>3 DEF N
<1>2. <<>> \in Seq(Nat) /\ <<0>> \in Seq(Nat) /\ Len(<<>>) = 0
  OBVIOUS
<1>3. TypeOK
  <2>1. None \in [some : BOOLEAN, remaining : 0 .. U64Max, ended : BOOLEAN]
    BY DEF None
  <2>2. 0 \in 0 .. N /\ 0 \in 0 .. U64Max /\ 0 \in Nat
    BY <1>1
  <2> QED BY <1>1, <1>2, <2>1, <2>2 DEF Init, TypeOK
<1>4. PlanInv
  BY DEF Init, PlanInv
<1>5. BodyInv /\ PartsFramed /\ NoPanic
  BY <1>2 DEF Init, BodyInv, PartsFramed, NoPanic
<1> QED BY <1>3, <1>4, <1>5 DEF IInv
-----------------------------------------------------------------------------
(***************************************************************************)
(* Building the response                                                   *)
(***************************************************************************)

(* Numbers that the type invariant bounds.                                 *)
LEMMA Bounds ==
  ASSUME TypeOK
  PROVE  /\ N \in Nat /\ len \in Nat /\ len <= U64Max /\ U64Max \in Nat
         /\ \A j \in 1 .. N : sizes[j] \in 0 .. len
  BY BoundsAssumption, LengthsAssumption DEF TypeOK, N

(* A step of the building phase leaves the client alone.                   *)
LEMMA ClientUntouched ==
  ASSUME IInv, phase # "body", UNCHANGED client
  PROVE  /\ seen' = "nothing" /\ sent' = 0 /\ starts' = <<>> /\ ~failed'
         /\ PartsFramed' /\ NoPanic'
<1>1. seen' = "nothing" /\ sent' = 0 /\ starts' = <<>> /\ ~failed'
  BY DEF IInv, PlanInv, client
<1> QED BY <1>1 DEF PartsFramed, NoPanic

(* A body of a single range, or none for a HEAD request.                   *)
LEMMA ServeRangeIInv ==
  ASSUME IInv, phase # "body", NEW n \in 0 .. len,
         ServeRange(n), UNCHANGED <<request, client>>
  PROVE  IInv'
<1>1. n \in 0 .. U64Max /\ n \in Nat
  BY Bounds DEF IInv
<1>2. /\ seen' = "nothing" /\ sent' = 0 /\ starts' = <<>> /\ ~failed'
      /\ PartsFramed' /\ NoPanic'
  BY ClientUntouched
<1>3. /\ phase' = "body" /\ content_length' = n /\ method' = method
      /\ UNCHANGED <<part, acc, part_headers, offsets, state, remaining>>
      /\ \/ /\ method = "HEAD" /\ body' = "Once" /\ once' = 0 /\ cur' = cur
         \/ /\ body' = "ExactLen" /\ cur' = ExactLen(n) /\ once' = once
  BY DEF ServeRange, Respond, request
<1>4. TypeOK'
  <2>1. ExactLen(n) \in [some : BOOLEAN, remaining : 0 .. U64Max, ended : BOOLEAN]
    BY <1>1 DEF ExactLen
  <2>2. N' = N
    BY DEF N, request
  <2> QED BY <1>1, <1>3, <2>1, <2>2 DEF IInv, TypeOK, request, client
<1>5. PlanInv'
  BY <1>3 DEF PlanInv
<1>6. BodyInv'
  <2>1. CASE body' = "Once"
    BY <1>2, <1>3, <2>1 DEF BodyInv
  <2>2. CASE body' = "ExactLen"
    <3>1. cur'.some /\ cur'.remaining = n
      BY <1>3, <2>2 DEF ExactLen
    <3> QED BY <1>1, <1>2, <1>3, <2>2, <3>1 DEF BodyInv
  <2> QED BY <1>3, <2>1, <2>2
<1> QED BY <1>2, <1>4, <1>5, <1>6 DEF IInv

(* 413: the body is the text of the error.                                 *)
LEMMA OverflowIInv ==
  ASSUME IInv, phase # "body", Overflow, UNCHANGED <<request, client>>
  PROVE  IInv'
<1> USE LengthsAssumption
<1>2. /\ seen' = "nothing" /\ sent' = 0 /\ starts' = <<>> /\ ~failed'
      /\ PartsFramed' /\ NoPanic'
  BY ClientUntouched
<1>3. /\ phase' = "body" /\ content_length' = TooLarge /\ body' = "Once"
      /\ once' = TooLarge
      /\ UNCHANGED <<cur, part, acc, part_headers, offsets, state, remaining>>
  BY DEF Overflow, Respond
<1>4. TypeOK'
  <2>1. N' = N
    BY DEF N, request
  <2> QED BY <1>3, <2>1 DEF IInv, TypeOK, request, client
<1>5. PlanInv' /\ BodyInv'
  BY <1>2, <1>3 DEF PlanInv, BodyInv
<1> QED BY <1>2, <1>4, <1>5 DEF IInv

(* One range, none, or several to be weighed.                              *)
LEMMA ChooseIInv ==
  ASSUME IInv, Choose
  PROVE  IInv'
<1>1. phase = "choose" /\ UNCHANGED <<request, client>> /\ phase # "body"
  BY DEF Choose
<1>2. len \in 0 .. len /\ (N = 1 => sizes[1] \in 0 .. len)
  BY Bounds DEF IInv
<1>3. CASE ServeRange(len)
  BY <1>1, <1>2, <1>3, ServeRangeIInv
<1>4. CASE N = 1 /\ ServeRange(sizes[1])
  BY <1>1, <1>2, <1>4, ServeRangeIInv
<1>5. CASE /\ phase' = "estimate"
           /\ UNCHANGED <<part, acc, part_headers, offsets, content_length, stream>>
  <2>1. /\ seen' = "nothing" /\ sent' = 0 /\ starts' = <<>> /\ ~failed'
        /\ PartsFramed' /\ NoPanic'
    BY <1>1, ClientUntouched
  <2>2. N' = N
    BY <1>1 DEF N, request
  <2>3. TypeOK'
    BY <1>1, <1>5, <2>2 DEF IInv, TypeOK, request, client, stream
  <2>4. PlanInv' /\ BodyInv'
    BY <1>1, <1>5, <2>1 DEF IInv, PlanInv, BodyInv, stream
  <2> QED BY <2>1, <2>3, <2>4 DEF IInv
<1> QED BY <1>3, <1>4, <1>5 DEF Choose

(* The fold that estimates the length, and the decision it leads to.       *)
LEMMA EstimateIInv ==
  ASSUME IInv, Estimate \/ Decide
  PROVE  IInv'
<1>1. phase = "estimate" /\ UNCHANGED <<request, client>> /\ phase # "body"
  BY DEF Estimate, Decide
<1>2. len \in 0 .. len
  BY Bounds DEF IInv
<1>3. CASE ServeRange(len)
  BY <1>1, <1>2, <1>3, ServeRangeIInv
<1>4. /\ seen' = "nothing" /\ sent' = 0 /\ starts' = <<>> /\ ~failed'
      /\ PartsFramed' /\ NoPanic'
  BY <1>1, ClientUntouched
<1>5. N' = N /\ N \in Nat
  BY <1>1, Bounds DEF N, request, IInv
<1>6. CASE /\ Estimate /\ acc + EstHeader + sizes[part + 1] <= U64Max
           /\ acc' = acc + EstHeader + sizes[part + 1] /\ part' = part + 1
           /\ UNCHANGED <<phase, part_headers, offsets, content_length, stream>>
  <2>1. part + 1 \in 1 .. N
    BY <1>5, <1>6 DEF Estimate, IInv, TypeOK
  <2>2. acc' \in 0 .. U64Max
    <3>1. acc \in Nat /\ sizes[part + 1] \in Nat /\ EstHeader \in Nat /\ U64Max \in Nat
      BY <2>1, Bounds, LengthsAssumption DEF IInv, TypeOK
    <3> QED BY <1>6, <3>1
  <2>3. TypeOK'
    BY <1>1, <1>5, <1>6, <2>1, <2>2 DEF IInv, TypeOK, request, client, stream
  <2>4. PlanInv' /\ BodyInv'
    BY <1>1, <1>4, <1>6 DEF IInv, PlanInv, BodyInv, stream
  <2> QED BY <1>4, <2>3, <2>4 DEF IInv
<1>7. CASE /\ phase' = "prepare" /\ part' = 0 /\ acc' = 0
           /\ UNCHANGED <<part_headers, offsets, content_length, stream>>
  <2>1. TypeOK'
    BY <1>1, <1>5, <1>7, Bounds DEF IInv, TypeOK, request, client, stream
  <2>2. part_headers' = <<>> /\ offsets' = <<0>>
    BY <1>1, <1>7 DEF IInv, PlanInv
  <2>3. Offsets(part)' /\ acc' = offsets'[part' + 1]
    BY <1>7, <2>2 DEF Offsets
  <2>4. \A j \in 1 .. part' : Joined(j)'
    BY <1>7
  <2>5. PlanInv'
    BY <1>1, <1>4, <1>7, <2>3, <2>4 DEF IInv, PlanInv, stream
  <2>6. BodyInv'
    BY <1>7 DEF BodyInv
  <2> QED BY <1>4, <2>1, <2>5, <2>6 DEF IInv
<1> QED BY <1>3, <1>6, <1>7 DEF Estimate, Decide

(* The loop of prepare_multipart records where each part begins.           *)
LEMMA PreparePartIInv ==
  ASSUME IInv, PreparePart
  PROVE  IInv'
<1>1. phase = "prepare" /\ part < N /\ UNCHANGED <<request, client>> /\ phase # "body"
  BY DEF PreparePart
<1>2. CASE Overflow
  BY <1>1, <1>2, OverflowIInv
<1>3. ASSUME NEW h \in 1 .. MaxHeader,
             acc + h + sizes[part + 1] <= U64Max,
             acc' = acc + h + sizes[part + 1], part' = part + 1,
             part_headers' = Append(part_headers, h),
             offsets' = Append(offsets, acc + h + sizes[part + 1]),
             UNCHANGED <<phase, content_length, stream>>
      PROVE  IInv'
  <2>1. /\ seen' = "nothing" /\ sent' = 0 /\ starts' = <<>> /\ ~failed'
        /\ PartsFramed' /\ NoPanic'
    BY <1>1, ClientUntouched
  <2>2. N' = N /\ N \in Nat /\ part + 1 \in 1 .. N /\ h \in Nat /\ part \in Nat
    BY <1>1, Bounds, BoundsAssumption DEF N, request, IInv, TypeOK
  <2>3. /\ acc \in Nat /\ sizes[part + 1] \in Nat
        /\ acc' \in 0 .. U64Max /\ acc' \in Nat /\ acc <= acc'
    <3>1. acc \in Nat /\ sizes[part + 1] \in Nat /\ U64Max \in Nat
      BY <2>2, Bounds, LengthsAssumption DEF IInv, TypeOK
    <3> QED BY <1>3, <2>2, <3>1
  <2>4. /\ part_headers \in Seq(Nat) /\ offsets \in Seq(Nat)
        /\ Offsets(part) /\ acc = offsets[part + 1]
        /\ \A j \in 1 .. part : Joined(j)
    BY <1>1 DEF IInv, TypeOK, PlanInv
  <2>5. /\ part_headers' \in Seq(Nat) /\ Len(part_headers') = part + 1
        /\ part_headers'[part + 1] = h
        /\ \A j \in 1 .. part : part_headers'[j] = part_headers[j]
    BY <1>3, <2>2, <2>4 DEF Offsets
  <2>6. /\ offsets' \in Seq(Nat) /\ Len(offsets') = part + 2
        /\ offsets'[part + 2] = acc'
        /\ \A j \in 1 .. part + 1 : offsets'[j] = offsets[j]
    BY <1>3, <2>2, <2>3, <2>4 DEF Offsets
  <2>7. Offsets(part)'
    <3>1. offsets'[1] = 0 /\ Len(part_headers') = part' /\ Len(offsets') = part' + 1
      BY <1>3, <2>2, <2>4, <2>5, <2>6 DEF Offsets
    <3>2. ASSUME NEW j \in 1 .. part' + 1 PROVE offsets'[j] <= offsets'[part' + 1]
      <4>1. CASE j = part + 2
        BY <1>3, <2>2, <2>3, <2>6, <4>1
      <4>2. CASE j \in 1 .. part + 1
        <5>1. offsets[j] <= acc /\ offsets[j] \in Nat
          BY <2>2, <2>4, <4>2 DEF Offsets
        <5> QED BY <1>3, <2>2, <2>3, <2>6, <4>2, <5>1
      <4>3. j \in 1 .. part + 1 \/ j = part + 2
        BY <1>3, <2>2
      <4> QED BY <4>1, <4>2, <4>3
    <3> QED BY <3>1, <3>2 DEF Offsets
  <2>8. \A j \in 1 .. part' : Joined(j)'
    <3> SUFFICES ASSUME NEW j \in 1 .. part + 1
                 PROVE  offsets'[j + 1] = offsets'[j] + part_headers'[j] + sizes'[j]
      BY <1>3 DEF Joined
    <3>1. sizes' = sizes
      BY <1>1 DEF request
    <3>2. CASE j = part + 1
      BY <1>3, <2>2, <2>4, <2>5, <2>6, <3>1, <3>2
    <3>3. CASE j \in 1 .. part
      <4>1. offsets[j + 1] = offsets[j] + part_headers[j] + sizes[j]
        BY <2>4, <3>3 DEF Joined
      <4>2. j + 1 \in 1 .. part + 1 /\ j \in 1 .. part + 1
        BY <2>2, <3>3
      <4> QED BY <2>5, <2>6, <3>1, <3>3, <4>1, <4>2
    <3> QED BY <2>2, <3>2, <3>3
  <2>9. acc' = offsets'[part' + 1]
    BY <1>3, <2>2, <2>6
  <2>10. PlanInv'
    BY <1>1, <1>3, <2>1, <2>7, <2>8, <2>9 DEF IInv, PlanInv, stream
  <2>11. TypeOK'
    BY <1>1, <1>3, <2>2, <2>3, <2>5, <2>6 DEF IInv, TypeOK, request, client, stream
  <2>12. BodyInv'
    BY <1>1, <1>3 DEF BodyInv
  <2> QED BY <2>1, <2>10, <2>11, <2>12 DEF IInv
<1> QED BY <1>2, <1>3 DEF PreparePart

(* The finished multipart response: its length is that of its parts.       *)
LEMMA PrepareEndIInv ==
  ASSUME IInv, PrepareEnd
  PROVE  IInv'
<1>1. /\ phase = "prepare" /\ part = N /\ UNCHANGED <<request, client>>
      /\ phase # "body"
  BY DEF PrepareEnd
<1>2. CASE Overflow
  BY <1>1, <1>2, OverflowIInv
<1>3. CASE /\ acc + Trailer <= U64Max /\ content_length' = acc + Trailer
           /\ phase' = "body" /\ UNCHANGED <<part, acc, part_headers, offsets>>
           /\ \/ /\ method = "HEAD" /\ body' = "Once" /\ once' = 0
                 /\ UNCHANGED <<cur, state, remaining>>
              \/ /\ body' = "Multipart" /\ state' = 0 /\ cur' = None
                 /\ remaining' = acc + Trailer /\ UNCHANGED once
  <2>1. /\ seen' = "nothing" /\ sent' = 0 /\ starts' = <<>> /\ ~failed'
        /\ PartsFramed' /\ NoPanic'
    BY <1>1, ClientUntouched
  <2>2. /\ N' = N /\ N \in Nat /\ acc \in Nat /\ sizes' = sizes
        /\ acc + Trailer \in 0 .. U64Max /\ acc + Trailer \in Nat
        /\ method' = method
    BY <1>1, <1>3, Bounds, LengthsAssumption DEF N, request, IInv, TypeOK
  <2>3. None \in [some : BOOLEAN, remaining : 0 .. U64Max, ended : BOOLEAN]
    BY LengthsAssumption DEF None
  <2>4. TypeOK'
    BY <1>1, <1>3, <2>2, <2>3 DEF IInv, TypeOK, request, client
  <2>5. PlanInv'
    BY <1>3 DEF PlanInv
  <2>6. CASE body' = "Once"
    <3>1. BodyInv'
      BY <1>3, <2>1, <2>2, <2>6 DEF BodyInv
    <3> QED BY <2>1, <2>4, <2>5, <3>1 DEF IInv
  <2>7. CASE body' = "Multipart"
    <3>1. Offsets(N) /\ acc = offsets[N + 1] /\ \A j \in 1 .. N : Joined(j)
      BY <1>1 DEF IInv, PlanInv
    <3>2. Offsets(N)' /\ \A j \in 1 .. N : Joined(j)'
      BY <1>3, <2>2, <3>1 DEF Offsets, Joined
    <3>3. ~Odd' /\ Index' = 0 /\ cur' = None /\ ~cur'.some
      BY <1>3, <2>7 DEF Odd, Index, None
    <3>4. content_length' = offsets'[N' + 1] + Trailer
      BY <1>3, <2>2, <3>1
    <3>5. sent' + remaining' = content_length' /\ sent' = offsets'[Index' + 1]
      BY <1>3, <2>1, <2>2, <2>7, <3>1, <3>3 DEF Offsets
    <3>6. state' <= 2 * N' + 1 /\ Len(starts') = Index'
      BY <1>3, <2>1, <2>2, <2>7, <3>3
    <3>7. MultipartInv'
      BY <2>2, <3>2, <3>3, <3>4, <3>5, <3>6 DEF MultipartInv
    <3>8. BodyInv'
      BY <1>3, <2>1, <2>7, <3>7 DEF BodyInv
    <3> QED BY <2>1, <2>4, <2>5, <3>8 DEF IInv
  <2> QED BY <1>3, <2>6, <2>7
<1> QED BY <1>2, <1>3 DEF PrepareEnd, Respond
-----------------------------------------------------------------------------
(***************************************************************************)
(* Polling the body                                                        *)
(***************************************************************************)

(* What poll_next of an ExactLenStream returns: never more bytes than      *)
(* remain, and its end only when none remain.                              *)
LEMMA ExactLenPoll ==
  ASSUME NEW c \in [some : BOOLEAN, remaining : 0 .. U64Max, ended : BOOLEAN],
         NEW item \in Items, c.some
  PROVE  /\ exact_len_poll(c, item).cur \in
              [some : BOOLEAN, remaining : 0 .. U64Max, ended : BOOLEAN]
         /\ exact_len_poll(c, item).cur.some
         /\ exact_len_poll(c, item).out \in {"data", "error", "end", "pending"}
         /\ exact_len_poll(c, item).out = "data" =>
              /\ item.n <= c.remaining
              /\ exact_len_poll(c, item).cur.remaining = c.remaining - item.n
         /\ exact_len_poll(c, item).out = "end" =>
              c.remaining = 0 /\ exact_len_poll(c, item).cur.remaining = 0
         /\ exact_len_poll(c, item).out = "pending" =>
              exact_len_poll(c, item).cur = c
         /\ item.n \in Nat
<1> USE BoundsAssumption, LengthsAssumption
<1>1. /\ item.kind \in {"data", "error", "none", "pending"} /\ item.n \in Nat
      /\ c.remaining \in Nat /\ c.remaining <= U64Max
  BY DEF Items
<1> DEFINE C == [some : BOOLEAN, remaining : 0 .. U64Max, ended : BOOLEAN]
<1>2. CASE item.kind = "data" /\ item.n <= c.remaining
  <2>1. exact_len_poll(c, item) =
          [cur |-> [c EXCEPT !.remaining = @ - item.n], out |-> "data"]
    BY <1>1, <1>2 DEF exact_len_poll
  <2>2. c.remaining - item.n \in 0 .. U64Max
    BY <1>1, <1>2
  <2> QED BY <1>1, <1>2, <2>1, <2>2
<1>3. CASE item.kind = "data" /\ item.n > c.remaining
  <2>1. exact_len_poll(c, item) =
          [cur |-> [c EXCEPT !.remaining = 0], out |-> "error"]
    BY <1>1, <1>3 DEF exact_len_poll
  <2> QED BY <1>1, <2>1
<1>4. CASE item.kind = "none"
  <2>1. exact_len_poll(c, item) =
          [cur |-> [some |-> TRUE, remaining |-> 0, ended |-> TRUE],
           out |-> IF c.remaining # 0 THEN "error" ELSE "end"]
    BY <1>4 DEF exact_len_poll
  <2>2. /\ exact_len_poll(c, item).out = IF c.remaining # 0 THEN "error" ELSE "end"
        /\ exact_len_poll(c, item).cur = [some |-> TRUE, remaining |-> 0, ended |-> TRUE]
    BY <2>1
  <2>3. /\ exact_len_poll(c, item).cur \in C
        /\ exact_len_poll(c, item).cur.remaining = 0
        /\ exact_len_poll(c, item).cur.some
    BY <2>2
  <2>4. /\ exact_len_poll(c, item).out \in {"error", "end"}
        /\ exact_len_poll(c, item).out = "end" => c.remaining = 0
    BY <2>2
  <2> QED BY <1>1, <2>3, <2>4
<1>5. CASE item.kind \in {"error", "pending"}
  <2>1. exact_len_poll(c, item) = [cur |-> c, out |-> item.kind]
    BY <1>5 DEF exact_len_poll
  <2> QED BY <1>1, <1>5, <2>1
<1>6. item.n <= c.remaining \/ item.n > c.remaining
  BY <1>1
<1> QED BY <1>1, <1>2, <1>3, <1>4, <1>5, <1>6

(* What the client knows after a poll keeps its type.                      *)
LEMMA ReturnType ==
  ASSUME TypeOK, NEW n \in Nat,
         NEW out \in {"data", "pending", "end", "error", "panic"},
         Return(out, n)
  PROVE  /\ seen' \in {"nothing", "data", "pending", "end", "error", "panic"}
         /\ sent' \in Nat /\ failed' \in BOOLEAN
         /\ after' \subseteq {"data", "pending", "end", "error", "panic"}
         /\ out # "error" => failed' = failed
<1>1. seen' \in {"nothing", "data", "pending", "end", "error", "panic"}
  BY DEF Return
<1>2. sent' \in Nat
  BY DEF Return, TypeOK
<1>3. failed' \in BOOLEAN /\ (out # "error" => failed' = failed)
  BY DEF Return, TypeOK
<1>4. after' \subseteq {"data", "pending", "end", "error", "panic"}
  BY DEF Return, TypeOK
<1> QED BY <1>1, <1>2, <1>3, <1>4

(* Taking n of the remaining bytes: exact when there are as many.          *)
LEMMA TakeBytes ==
  ASSUME TypeOK, NEW n \in Nat, Take(n)
  PROVE  /\ remaining' \in 0 .. U64Max
         /\ seen' \in {"nothing", "data", "pending", "end", "error", "panic"}
         /\ sent' \in Nat /\ failed' = failed
         /\ after' \subseteq {"data", "pending", "end", "error", "panic"}
         /\ n <= remaining => /\ remaining' = remaining - n
                              /\ sent' = sent + n /\ seen' = "data"
<1>1. remaining \in 0 .. U64Max /\ U64Max \in Nat
  BY LengthsAssumption DEF TypeOK
<1>2. CASE /\ n <= remaining \/ ~DebugBuild
           /\ remaining' = (remaining - n) % (U64Max + 1)
           /\ Return("data", n)
  <2>1. remaining' \in 0 .. U64Max
    BY <1>1, <1>2, WrapType
  <2>2. n <= remaining => remaining' = remaining - n
    <3> SUFFICES ASSUME n <= remaining PROVE remaining' = remaining - n
      OBVIOUS
    <3>1. remaining - n \in 0 .. U64Max
      BY <1>1
    <3> QED BY <1>2, <3>1, NoWrap
  <2> QED BY <1>2, <2>1, <2>2, ReturnType DEF Return
<1>3. CASE n > remaining /\ UNCHANGED remaining /\ Return("panic", 0)
  <2>1. ~(n <= remaining) /\ remaining' \in 0 .. U64Max
    BY <1>1, <1>3
  <2> QED BY <1>3, <2>1, ReturnType
<1> QED BY <1>2, <1>3 DEF Take

(* Body::empty and the bodies of error responses.                          *)
LEMMA PollOnceIInv ==
  ASSUME IInv, PollOnce
  PROVE  IInv'
<1>1. /\ phase = "body" /\ body = "Once" /\ once' = 0
      /\ UNCHANGED <<request, plan, body, cur, state, remaining, starts>>
      /\ TypeOK /\ once \in Nat
  BY DEF PollOnce, MayPoll, IInv, TypeOK
<1>2. N' = N
  BY <1>1 DEF N, request
<1>3. \/ once > 0 /\ Return("data", once)
      \/ once = 0 /\ Return("end", 0)
  BY <1>1 DEF PollOnce
<1>4. /\ seen' \in {"nothing", "data", "pending", "end", "error", "panic"}
      /\ sent' \in Nat /\ failed' = failed /\ failed' \in BOOLEAN
      /\ after' \subseteq {"data", "pending", "end", "error", "panic"}
      /\ sent' = sent + once /\ seen' \in {"data", "end"}
  <2>1. CASE once > 0 /\ Return("data", once)
    BY <1>1, <2>1, ReturnType DEF Return
  <2>2. CASE once = 0 /\ Return("end", 0)
    <3>1. sent' = sent + once
      BY <2>2 DEF Return
    <3> QED BY <1>1, <2>2, <3>1, ReturnType DEF Return
  <2> QED BY <1>3, <2>1, <2>2
<1>5. TypeOK'
  BY <1>1, <1>2, <1>4 DEF IInv, TypeOK, request, plan
<1>6. PlanInv'
  BY <1>1 DEF PlanInv, plan
<1>7. BodyInv'
  <2>1. method = "GET" /\ ~failed => sent' + once' = content_length
    BY <1>1, <1>4 DEF IInv, BodyInv, TypeOK
  <2> QED BY <1>1, <1>4, <2>1 DEF IInv, BodyInv, size_hint, request, plan
<1>8. PartsFramed' /\ NoPanic'
  BY <1>1, <1>4 DEF IInv, PartsFramed, NoPanic, plan
<1> QED BY <1>5, <1>6, <1>7, <1>8 DEF IInv

(* A single range.                                                         *)
LEMMA PollExactLenIInv ==
  ASSUME IInv, NEW item \in Items, PollExactLen(item)
  PROVE  IInv'
<1> DEFINE r == exact_len_poll(cur, item)
           n == IF r.out = "data" THEN item.n ELSE 0
<1>1. /\ phase = "body" /\ body = "ExactLen" /\ TypeOK
      /\ cur' = r.cur /\ Return(r.out, n)
      /\ UNCHANGED <<request, plan, body, once, state, remaining, starts>>
  BY DEF PollExactLen, MayPoll, IInv
<1>2. /\ cur \in [some : BOOLEAN, remaining : 0 .. U64Max, ended : BOOLEAN]
      /\ cur.some /\ (~failed => sent + cur.remaining = content_length)
  BY <1>1 DEF IInv, TypeOK, BodyInv
<1>3. /\ r.cur \in [some : BOOLEAN, remaining : 0 .. U64Max, ended : BOOLEAN]
      /\ r.cur.some /\ r.out \in {"data", "error", "end", "pending"}
      /\ r.out = "data" =>
           item.n <= cur.remaining /\ r.cur.remaining = cur.remaining - item.n
      /\ r.out = "end" => cur.remaining = 0 /\ r.cur.remaining = 0
      /\ r.out = "pending" => r.cur = cur
      /\ item.n \in Nat
  BY <1>2, ExactLenPoll
<1> HIDE DEF r
<1>4. n \in Nat
  BY <1>3
<1>5. /\ seen' \in {"nothing", "data", "pending", "end", "error", "panic"}
      /\ sent' \in Nat /\ failed' \in BOOLEAN
      /\ after' \subseteq {"data", "pending", "end", "error", "panic"}
      /\ r.out # "error" => failed' = failed
  BY <1>1, <1>3, <1>4, ReturnType
<1>6. seen' = r.out /\ sent' = sent + n /\ (r.out = "error" => failed')
  BY <1>1 DEF Return
<1>7. TypeOK'
  <2>1. N' = N
    BY <1>1 DEF N, request
  <2> QED BY <1>1, <1>3, <1>5, <2>1 DEF IInv, TypeOK, request, plan
<1>8. PlanInv'
  BY <1>1 DEF PlanInv, plan
<1>9. ~failed' => sent' + cur'.remaining = content_length'
  <2> SUFFICES ASSUME ~failed' PROVE sent' + cur'.remaining = content_length
    BY <1>1 DEF plan
  <2>1. r.out # "error" /\ ~failed
    BY <1>5, <1>6
  <2>2. sent \in Nat /\ cur.remaining \in Nat /\ sent + cur.remaining = content_length
    BY <1>2, <2>1, LengthsAssumption DEF IInv, TypeOK
  <2>3. CASE r.out = "data"
    BY <1>1, <1>3, <1>6, <2>2, <2>3
  <2>4. CASE r.out \in {"end", "pending"}
    <3>1. n = 0 /\ cur'.remaining = cur.remaining
      BY <1>1, <1>3, <2>4
    <3> QED BY <1>6, <2>2, <3>1
  <2> QED BY <1>3, <2>1, <2>3, <2>4
<1>10. cur'.some /\ (seen' = "end" => cur'.remaining = 0)
  BY <1>1, <1>3, <1>6
<1>11. BodyInv'
  BY <1>1, <1>9, <1>10 DEF IInv, BodyInv, size_hint, plan
<1>12. PartsFramed' /\ NoPanic'
  BY <1>1, <1>3, <1>6 DEF IInv, PartsFramed, NoPanic, plan
<1> QED BY <1>7, <1>8, <1>11, <1>12 DEF IInv
-----------------------------------------------------------------------------
(***************************************************************************)
(* MultipartStream                                                         *)
(***************************************************************************)

(* The types of what the client knows of the body.                         *)
ClientType ==
  /\ seen \in {"nothing", "data", "pending", "end", "error", "panic"}
  /\ sent \in Nat /\ starts \in Seq(Nat) /\ failed \in BOOLEAN
  /\ after \subseteq {"data", "pending", "end", "error", "panic"}

(* The fields that no poll of a MultipartStream writes.                    *)
Kept == <<request, phase, part, acc, offsets, content_length, body, once>>

(* What remains to be shown of a step of MultipartStream's loop.           *)
LEMMA MultipartStep ==
  ASSUME IInv, phase = "body", body = "Multipart", UNCHANGED Kept,
         part_headers' \in Seq(Nat), state' \in Nat, remaining' \in 0 .. U64Max,
         cur' \in [some : BOOLEAN, remaining : 0 .. U64Max, ended : BOOLEAN],
         ClientType',
         failed' => state' >= 2 * N + 1,
         ~failed' => /\ MultipartInv' /\ seen' # "panic"
                     /\ seen' = "end" /\ method = "GET" => remaining' = 0,
         PartsFramed'
  PROVE  IInv'
<1>1. N' = N /\ phase' = "body" /\ body' = "Multipart"
  BY DEF N, Kept, request
<1>2. TypeOK'
  BY <1>1 DEF IInv, TypeOK, ClientType, Kept, request
<1>3. PlanInv'
  BY <1>1 DEF PlanInv
<1>4. BodyInv'
  BY <1>1 DEF BodyInv, size_hint, Kept, request
<1>5. NoPanic'
  BY DEF NoPanic
<1> QED BY <1>2, <1>3, <1>4, <1>5 DEF IInv

(* Where the stream is, and which parts are left.                          *)
LEMMA MultipartFacts ==
  ASSUME IInv, phase = "body", body = "Multipart"
  PROVE  /\ TypeOK /\ ClientType /\ PartsFramed
         /\ N \in Nat /\ state \in Nat /\ Index \in Nat
         /\ sent \in Nat /\ remaining \in Nat
         /\ cur.remaining \in Nat /\ cur.some \in BOOLEAN
         /\ Odd => state = 2 * Index + 1
         /\ ~Odd => state = 2 * Index
         /\ failed => state >= 2 * N + 1
         /\ ~failed => MultipartInv
         /\ ~failed /\ seen = "end" /\ method = "GET" => remaining = 0
<1>1. TypeOK /\ ClientType /\ N \in Nat /\ PartsFramed
  BY Bounds DEF IInv, TypeOK, ClientType
<1>2. state \in Nat /\ sent \in Nat /\ remaining \in Nat
      /\ cur.remaining \in Nat /\ cur.some \in BOOLEAN
  BY <1>1, LengthsAssumption DEF TypeOK
<1>3. Index \in Nat /\ (Odd => state = 2 * Index + 1) /\ (~Odd => state = 2 * Index)
  BY <1>2, Halves DEF Odd, Index
<1>4. /\ failed => state >= 2 * N + 1
      /\ ~failed => MultipartInv
      /\ ~failed /\ seen = "end" /\ method = "GET" => remaining = 0
  BY DEF IInv, BodyInv, size_hint
<1> QED BY <1>1, <1>2, <1>3, <1>4

(* Every part begins within the announced length, before the trailer.      *)
LEMMA OffsetsFit ==
  ASSUME TypeOK, MultipartInv, NEW j \in 1 .. N + 1
  PROVE  offsets[j] \in Nat /\ offsets[j] + Trailer <= content_length
<1>1. N \in Nat /\ Trailer \in Nat
  BY Bounds, LengthsAssumption
<1>2. /\ Len(offsets) = N + 1 /\ offsets[j] <= offsets[N + 1]
      /\ content_length = offsets[N + 1] + Trailer
  BY DEF MultipartInv, Offsets
<1>3. offsets[j] \in Nat /\ offsets[N + 1] \in Nat
  BY <1>1, <1>2 DEF TypeOK
<1> QED BY <1>1, <1>2, <1>3

(* state += 1 in terms of its halves.                                      *)
LEMMA Advance ==
  ASSUME state \in Nat, state' = state + 1
  PROVE  /\ Odd => ~Odd' /\ Index' = Index + 1
         /\ ~Odd => Odd' /\ Index' = Index
<1>1. /\ state % 2 = 1 => (state + 1) % 2 = 0 /\ (state + 1) \div 2 = state \div 2 + 1
      /\ state % 2 = 0 => (state + 1) % 2 = 1 /\ (state + 1) \div 2 = state \div 2
  OBVIOUS
<1>2. state % 2 \in {0, 1}
  BY Halves
<1> QED BY <1>1, <1>2 DEF Odd, Index

(* The stream of the next part is opened.                                  *)
LEMMA OpenPartIInv ==
  ASSUME IInv, OpenPart
  PROVE  IInv'
<1>1. /\ phase = "body" /\ body = "Multipart" /\ ~cur.some
      /\ Index < N /\ Odd /\ seen # "panic"
      /\ cur' = ExactLen(sizes[Index + 1])
      /\ UNCHANGED <<Kept, part_headers, state, remaining, client>>
  BY DEF OpenPart, BetweenParts, MayPoll, Kept, plan
<1>2. /\ TypeOK /\ ClientType /\ N \in Nat /\ state \in Nat /\ Index \in Nat
      /\ state = 2 * Index + 1 /\ PartsFramed
  BY <1>1, MultipartFacts
<1>3. ~failed /\ MultipartInv
      /\ (seen = "end" /\ method = "GET" => remaining = 0)
  <2>1. ~(state >= 2 * N + 1)
    BY <1>1, <1>2
  <2> QED BY <1>1, <2>1, MultipartFacts
<1>4. sizes[Index + 1] \in 0 .. U64Max
  BY <1>1, <1>2, Bounds
<1>5. /\ cur' \in [some : BOOLEAN, remaining : 0 .. U64Max, ended : BOOLEAN]
      /\ cur'.some /\ cur'.remaining = sizes[Index + 1]
  BY <1>1, <1>4 DEF ExactLen
<1>6. N' = N /\ Odd' /\ Index' = Index /\ Offsets(N)' /\ ClientType' /\ PartsFramed'
      /\ \A j \in 1 .. N : Joined(j)' = Joined(j)
  BY <1>1, <1>2, <1>3 DEF N, Odd, Index, Offsets, Joined, ClientType,
     PartsFramed, MultipartInv, Kept, request, client
<1>7. sent' + cur'.remaining = offsets'[Index' + 2]
  BY <1>1, <1>3, <1>5, <1>6 DEF MultipartInv, Kept, client
<1>8. MultipartInv'
  BY <1>1, <1>2, <1>3, <1>5, <1>6, <1>7 DEF MultipartInv, Kept, client
<1>9. /\ UNCHANGED Kept /\ part_headers' \in Seq(Nat) /\ state' \in Nat
      /\ remaining' \in 0 .. U64Max /\ ~failed' /\ seen' # "panic"
      /\ seen' = "end" /\ method = "GET" => remaining' = 0
  BY <1>1, <1>2, <1>3 DEF TypeOK, client
<1> QED BY <1>1, <1>5, <1>6, <1>8, <1>9, MultipartStep

(* A part header is sent where its part begins.                            *)
LEMMA SendHeaderIInv ==
  ASSUME IInv, SendHeader
  PROVE  IInv'
<1> DEFINE h == part_headers[Index + 1]
<1>1. /\ phase = "body" /\ body = "Multipart" /\ ~cur.some
      /\ Index < N /\ ~Odd
      /\ part_headers' = [part_headers EXCEPT ![Index + 1] = 0]
      /\ state' = state + 1 /\ Take(h) /\ starts' = Append(starts, sent)
      /\ UNCHANGED <<Kept, cur>>
  BY DEF SendHeader, BetweenParts, MayPoll, Kept
<1>2. /\ TypeOK /\ N \in Nat /\ state \in Nat /\ Index \in Nat
      /\ state = 2 * Index /\ sent \in Nat /\ remaining \in Nat
  BY <1>1, MultipartFacts
<1>3. ~failed /\ MultipartInv /\ PartsFramed
  <2>1. ~(state >= 2 * N + 1)
    BY <1>1, <1>2
  <2> QED BY <1>1, <2>1, MultipartFacts
<1>4. Index + 1 \in 1 .. N /\ Index + 1 \in 1 .. N + 1 /\ Index + 2 \in 1 .. N + 1
  BY <1>1, <1>2
<1>5. /\ Offsets(N) /\ Len(part_headers) = N /\ Len(offsets) = N + 1
      /\ sent = offsets[Index + 1] /\ sent + remaining = content_length
      /\ Len(starts) = Index
      /\ \A j \in 1 .. N : 2 * j > state + 1 => Joined(j)
  BY <1>1, <1>3 DEF MultipartInv, Offsets
<1>6. h \in Nat /\ sizes[Index + 1] \in Nat
  <2>1. part_headers \in Seq(Nat) /\ Index + 1 \in 1 .. Len(part_headers)
    BY <1>2, <1>4, <1>5 DEF TypeOK
  <2>2. sizes[Index + 1] \in 0 .. len /\ len \in Nat
    BY <1>2, <1>4, Bounds
  <2> QED BY <2>1, <2>2
<1>7. offsets[Index + 2] = sent + h + sizes[Index + 1]
  <2>1. 2 * (Index + 1) > state + 1
    BY <1>2
  <2>2. Joined(Index + 1) /\ Index + 1 + 1 = Index + 2
    BY <1>2, <1>4, <1>5, <2>1
  <2> QED BY <1>5, <2>2 DEF Joined
<1>8. h <= remaining
  <2>1. /\ offsets[Index + 2] \in Nat /\ content_length \in Nat /\ Trailer \in Nat
        /\ offsets[Index + 2] + Trailer <= content_length
    BY <1>2, <1>3, <1>4, OffsetsFit, LengthsAssumption DEF TypeOK
  <2>2. sent + remaining = content_length
    BY <1>5
  <2> HIDE DEF h
  <2> QED BY <1>2, <1>6, <1>7, <2>1, <2>2
<1>9. /\ remaining' = remaining - h /\ sent' = sent + h /\ seen' = "data"
      /\ remaining' \in 0 .. U64Max /\ sent' \in Nat /\ failed' = failed
      /\ after' \subseteq {"data", "pending", "end", "error", "panic"}
  BY <1>1, <1>2, <1>3, <1>6, <1>8, TakeBytes
<1>10. /\ starts' \in Seq(Nat) /\ Len(starts') = Index + 1
       /\ starts'[Index + 1] = sent
       /\ \A j \in 1 .. Index : starts'[j] = starts[j]
  <2>1. starts \in Seq(Nat) /\ sent \in Nat /\ Len(starts) = Index
        /\ starts' = Append(starts, sent)
    BY <1>1, <1>2, <1>5 DEF TypeOK
  <2> QED BY <2>1
<1>11. /\ part_headers' \in Seq(Nat) /\ Len(part_headers') = N
       /\ \A j \in 1 .. N : j # Index + 1 => part_headers'[j] = part_headers[j]
  BY <1>1, <1>2, <1>4, <1>5 DEF TypeOK
<1>12. PartsFramed'
  <2> SUFFICES ASSUME NEW j \in 1 .. Index + 1
               PROVE  j <= Len(offsets) /\ starts'[j] = offsets[j]
    BY <1>1, <1>10 DEF PartsFramed, Kept
  <2>1. j <= Len(offsets)
    BY <1>1, <1>2, <1>5
  <2>2. j \in 1 .. Index \/ j = Index + 1
    BY <1>2
  <2> QED BY <1>3, <1>5, <1>10, <2>1, <2>2 DEF PartsFramed
<1>13. Odd' /\ Index' = Index /\ N' = N
  BY <1>1, <1>2, Advance DEF N, Kept, request
<1>14. Offsets(N)'
  BY <1>1, <1>5, <1>11, <1>13 DEF Offsets, Kept
<1>15. \A j \in 1 .. N' : 2 * j > state' + 1 => Joined(j)'
  <2> SUFFICES ASSUME NEW j \in 1 .. N, 2 * j > state' + 1 PROVE Joined(j)'
    BY <1>13
  <2>1. 2 * j > state + 1 /\ j # Index + 1
    BY <1>1, <1>2
  <2>2. Joined(j) /\ part_headers'[j] = part_headers[j]
    BY <1>5, <1>11, <2>1
  <2> QED BY <1>1, <2>2 DEF Joined, Kept, request
<1>16. /\ sent' + remaining' = content_length'
       /\ sent' + sizes'[Index' + 1] = offsets'[Index' + 2]
  <2>1. content_length' = content_length /\ offsets' = offsets /\ sizes' = sizes
    BY <1>1 DEF Kept, request
  <2> HIDE DEF h
  <2> QED BY <1>2, <1>5, <1>6, <1>7, <1>9, <1>13, <2>1
<1>17. state' <= 2 * N' + 1 /\ ~cur'.some /\ Index' < N' /\ Index' # N'
  BY <1>1, <1>2, <1>13
<1>18. content_length' = offsets'[N' + 1] + Trailer
  BY <1>1, <1>3, <1>13 DEF MultipartInv, Kept
<1>19. Len(starts') = IF Odd' /\ Index' < N' THEN Index' + 1 ELSE Index'
  BY <1>10, <1>13, <1>17
<1>20. MultipartInv'
  BY <1>13, <1>14, <1>15, <1>16, <1>17, <1>18, <1>19 DEF MultipartInv
<1>21. state' \in Nat /\ ClientType'
       /\ cur' \in [some : BOOLEAN, remaining : 0 .. U64Max, ended : BOOLEAN]
  BY <1>1, <1>2, <1>9, <1>10 DEF TypeOK, ClientType
<1> QED BY <1>1, <1>3, <1>9, <1>11, <1>12, <1>20, <1>21, MultipartStep

(* The trailer is sent after the last part.                                *)
LEMMA SendTrailerIInv ==
  ASSUME IInv, SendTrailer
  PROVE  IInv'
<1>1. /\ phase = "body" /\ body = "Multipart" /\ ~cur.some
      /\ Index = N /\ ~Odd
      /\ state' = state + 1 /\ Take(Trailer)
      /\ UNCHANGED <<Kept, part_headers, cur, starts>>
  BY DEF SendTrailer, BetweenParts, MayPoll, Kept, plan
<1>2. /\ TypeOK /\ N \in Nat /\ state \in Nat /\ state = 2 * Index
      /\ sent \in Nat /\ remaining \in Nat /\ Trailer \in Nat
  BY <1>1, MultipartFacts, LengthsAssumption
<1>3. ~failed /\ MultipartInv /\ PartsFramed
  <2>1. ~(state >= 2 * N + 1)
    BY <1>1, <1>2
  <2> QED BY <1>1, <2>1, MultipartFacts
<1>4. /\ Offsets(N) /\ sent = offsets[N + 1] /\ sent + remaining = content_length
      /\ content_length = offsets[N + 1] + Trailer /\ Len(starts) = N
      /\ \A j \in 1 .. N : 2 * j > state + 1 => Joined(j)
  BY <1>1, <1>3 DEF MultipartInv
<1>5. Trailer <= remaining
  BY <1>2, <1>4
<1>6. /\ remaining' = remaining - Trailer /\ sent' = sent + Trailer /\ seen' = "data"
      /\ remaining' \in 0 .. U64Max /\ sent' \in Nat /\ failed' = failed
      /\ after' \subseteq {"data", "pending", "end", "error", "panic"}
  BY <1>1, <1>2, <1>3, <1>5, TakeBytes
<1>7. Odd' /\ Index' = N /\ N' = N
  BY <1>1, <1>2, Advance DEF N, Kept, request
<1>8. Offsets(N)' /\ PartsFramed'
  BY <1>1, <1>3, <1>4, <1>7 DEF Offsets, PartsFramed, Kept
<1>9. \A j \in 1 .. N : ~(2 * j > state' + 1)
  BY <1>1, <1>2
<1>10. sent' + remaining' = content_length' /\ sent' = content_length'
       /\ content_length' = offsets'[N' + 1] + Trailer
  <2>1. content_length' = content_length /\ offsets' = offsets
    BY <1>1 DEF Kept
  <2> QED BY <1>2, <1>4, <1>6, <1>7, <2>1
<1>11. state' <= 2 * N + 1 /\ ~cur'.some /\ ~(Index' < N')
  BY <1>1, <1>2, <1>7
<1>12. Len(starts') = IF Odd' /\ Index' < N' THEN Index' + 1 ELSE Index'
  BY <1>1, <1>4, <1>7, <1>11
<1>13. MultipartInv'
  BY <1>7, <1>8, <1>9, <1>10, <1>11, <1>12 DEF MultipartInv
<1>14. /\ state' \in Nat /\ ClientType' /\ part_headers' \in Seq(Nat)
       /\ cur' \in [some : BOOLEAN, remaining : 0 .. U64Max, ended : BOOLEAN]
  BY <1>1, <1>2, <1>6 DEF TypeOK, ClientType
<1> QED BY <1>1, <1>3, <1>6, <1>8, <1>13, <1>14, MultipartStep

(* A step that changes nothing but what the last poll returned.            *)
LEMMA ReturnOnly ==
  ASSUME IInv, phase = "body", body = "Multipart",
         NEW out \in {"end", "pending", "panic"}, Return(out, 0),
         out = "panic" => failed,
         out = "end" /\ ~failed => remaining = 0,
         UNCHANGED <<Kept, part_headers, cur, state, remaining, starts>>
  PROVE  IInv'
<1>1. /\ TypeOK /\ PartsFramed /\ sent \in Nat /\ N \in Nat
      /\ failed => state >= 2 * N + 1
      /\ ~failed => MultipartInv
  BY MultipartFacts
<1>2. /\ ClientType' /\ failed' = failed /\ seen' = out /\ sent' = sent
  <2>1. /\ seen' \in {"nothing", "data", "pending", "end", "error", "panic"}
        /\ sent' \in Nat /\ failed' \in BOOLEAN
        /\ after' \subseteq {"data", "pending", "end", "error", "panic"}
        /\ failed' = failed
    BY <1>1, ReturnType
  <2>2. seen' = out /\ sent' = sent
    BY <1>1 DEF Return
  <2>3. starts' \in Seq(Nat)
    BY <1>1 DEF TypeOK
  <2> QED BY <2>1, <2>2, <2>3 DEF ClientType
<1>3. N' = N /\ Odd' = Odd /\ Index' = Index /\ Offsets(N)' = Offsets(N)
      /\ \A j \in 1 .. N : Joined(j)' = Joined(j)
  BY DEF N, Odd, Index, Offsets, Joined, Kept, request
<1>4. ~failed => MultipartInv'
  BY <1>1, <1>2, <1>3 DEF MultipartInv, Kept, request
<1>5. PartsFramed'
  BY <1>1 DEF PartsFramed, Kept
<1>6. /\ part_headers' \in Seq(Nat) /\ state' \in Nat /\ remaining' \in 0 .. U64Max
      /\ cur' \in [some : BOOLEAN, remaining : 0 .. U64Max, ended : BOOLEAN]
  BY <1>1 DEF TypeOK
<1>7. ~failed' => /\ MultipartInv' /\ seen' # "panic"
                  /\ seen' = "end" /\ method = "GET" => remaining' = 0
  BY <1>2, <1>4
<1>8. failed' => state' >= 2 * N + 1
  BY <1>1, <1>2
<1> QED BY <1>2, <1>5, <1>6, <1>7, <1>8, MultipartStep

(* The end: all of the length was sent, so the debug_assert holds.         *)
LEMMA SendEndIInv ==
  ASSUME IInv, SendEnd
  PROVE  IInv'
<1>1. /\ phase = "body" /\ body = "Multipart" /\ Index = N /\ Odd
      /\ UNCHANGED <<Kept, part_headers, cur, state, remaining, starts>>
  BY DEF SendEnd, BetweenParts, MayPoll, Kept, plan, stream
<1>2. ~failed => remaining = 0
  <2> SUFFICES ASSUME ~failed PROVE remaining = 0
    OBVIOUS
  <2>1. sent + remaining = content_length /\ sent = content_length
    BY <1>1, MultipartFacts DEF MultipartInv
  <2>2. sent \in Nat /\ remaining \in Nat
    BY <1>1, MultipartFacts
  <2> QED BY <2>1, <2>2
<1>3. CASE DebugBuild /\ remaining # 0 /\ Return("panic", 0)
  BY <1>1, <1>2, <1>3, ReturnOnly
<1>4. CASE Return("end", 0)
  BY <1>1, <1>2, <1>4, ReturnOnly
<1> QED BY <1>3, <1>4 DEF SendEnd

(* The index is only out of bounds after an error.                         *)
LEMMA IndexPanicIInv ==
  ASSUME IInv, IndexPanic
  PROVE  IInv'
<1>1. /\ phase = "body" /\ body = "Multipart" /\ Index > N /\ Return("panic", 0)
      /\ UNCHANGED <<Kept, part_headers, cur, state, remaining, starts>>
  BY DEF IndexPanic, BetweenParts, MayPoll, Kept, plan, stream
<1>2. failed
  <2> SUFFICES ASSUME ~failed PROVE FALSE
    OBVIOUS
  <2>1. state <= 2 * N + 1
    BY <1>1, MultipartFacts DEF MultipartInv
  <2>2. /\ N \in Nat /\ Index \in Nat
        /\ state = 2 * Index + 1 \/ state = 2 * Index
    BY <1>1, MultipartFacts
  <2> QED BY <1>1, <2>1, <2>2
<1> QED BY <1>1, <1>2, ReturnOnly

(* The current part gives bytes that it had left.                          *)
LEMMA PartDataIInv ==
  ASSUME IInv, phase = "body", body = "Multipart", cur.some,
         NEW n \in Nat, n <= cur.remaining, Take(n),
         cur' \in [some : BOOLEAN, remaining : 0 .. U64Max, ended : BOOLEAN],
         cur'.some, cur'.remaining = cur.remaining - n,
         UNCHANGED <<Kept, part_headers, state, starts>>
  PROVE  IInv'
<1>1. /\ TypeOK /\ PartsFramed /\ N \in Nat /\ state \in Nat /\ Index \in Nat
      /\ sent \in Nat /\ remaining \in Nat /\ cur.remaining \in Nat
      /\ failed => state >= 2 * N + 1
      /\ ~failed => MultipartInv
  BY MultipartFacts
<1>2. /\ remaining' \in 0 .. U64Max /\ failed' = failed
      /\ n <= remaining => /\ remaining' = remaining - n
                           /\ sent' = sent + n /\ seen' = "data"
  BY <1>1, TakeBytes
<1>3. ClientType'
  <2>1. starts' \in Seq(Nat) /\ failed' \in BOOLEAN
    BY <1>1, <1>2 DEF TypeOK
  <2> QED BY <1>1, <2>1, TakeBytes DEF ClientType
<1>4. ~failed => MultipartInv' /\ seen' = "data"
  <2> SUFFICES ASSUME ~failed PROVE MultipartInv' /\ seen' = "data"
    OBVIOUS
  <2>1. /\ MultipartInv /\ Odd /\ Index < N
        /\ sent + cur.remaining = offsets[Index + 2]
        /\ sent + remaining = content_length
    BY <1>1 DEF MultipartInv
  <2>2. Index + 2 \in 1 .. N + 1
    BY <1>1, <2>1
  <2>3. /\ offsets[Index + 2] \in Nat /\ content_length \in Nat /\ Trailer \in Nat
        /\ offsets[Index + 2] + Trailer <= content_length
    BY <1>1, <2>1, <2>2, OffsetsFit, LengthsAssumption DEF TypeOK
  <2>4. n <= remaining
    BY <1>1, <2>1, <2>3
  <2>5. remaining' = remaining - n /\ sent' = sent + n /\ seen' = "data"
    BY <1>2, <2>4
  <2>6. N' = N /\ Odd' /\ Index' = Index /\ Index' # N' /\ Offsets(N)' = Offsets(N)
        /\ \A j \in 1 .. N : Joined(j)' = Joined(j)
    BY <1>1, <2>1 DEF N, Odd, Index, Offsets, Joined, Kept, request
  <2>7. sent' + remaining' = content_length' /\ sent' + cur'.remaining = offsets'[Index' + 2]
    <3>1. content_length' = content_length /\ offsets' = offsets
      BY DEF Kept
    <3> QED BY <1>1, <2>1, <2>3, <2>5, <2>6, <3>1
  <2> QED BY <2>1, <2>5, <2>6, <2>7 DEF MultipartInv, Kept, request
<1>5. PartsFramed'
  BY <1>1 DEF PartsFramed, Kept
<1>6. part_headers' \in Seq(Nat) /\ state' \in Nat
  BY <1>1 DEF TypeOK
<1>7. ~failed' => /\ MultipartInv' /\ seen' # "panic"
                  /\ seen' = "end" /\ method = "GET" => remaining' = 0
  BY <1>2, <1>4
<1>8. failed' => state' >= 2 * N + 1
  BY <1>1, <1>2
<1> QED BY <1>2, <1>3, <1>5, <1>6, <1>7, <1>8, MultipartStep

(* The current part has given all of its bytes, the next one's turn.       *)
LEMMA PartEndIInv ==
  ASSUME IInv, phase = "body", body = "Multipart", cur.some,
         ~failed => cur.remaining = 0,
         cur' = None, state' = state + 1,
         UNCHANGED <<Kept, part_headers, remaining, client>>
  PROVE  IInv'
<1>1. /\ TypeOK /\ ClientType /\ PartsFramed /\ N \in Nat /\ state \in Nat
      /\ Index \in Nat /\ sent \in Nat
      /\ failed => state >= 2 * N + 1
      /\ ~failed => MultipartInv
      /\ ~failed /\ seen = "end" /\ method = "GET" => remaining = 0
      /\ ~failed => seen # "panic"
  BY MultipartFacts DEF IInv, NoPanic
<1>2. /\ cur' \in [some : BOOLEAN, remaining : 0 .. U64Max, ended : BOOLEAN]
      /\ ~cur'.some
  BY LengthsAssumption DEF None
<1>3. ~failed => MultipartInv'
  <2> SUFFICES ASSUME ~failed PROVE MultipartInv'
    OBVIOUS
  <2>1. /\ MultipartInv /\ Odd /\ Index < N /\ sent + 0 = offsets[Index + 2]
        /\ Len(starts) = Index + 1
    BY <1>1 DEF MultipartInv
  <2>2. ~Odd' /\ Index' = Index + 1 /\ N' = N /\ Offsets(N)' = Offsets(N)
        /\ \A j \in 1 .. N : Joined(j)' = Joined(j)
    BY <1>1, <2>1, Advance DEF N, Offsets, Joined, Kept, request
  <2>3. sent' = offsets'[Index' + 1]
    <3>1. Index' + 1 = Index + 2 /\ sent + 0 = sent
      BY <1>1, <2>2
    <3> QED BY <2>1, <3>1 DEF Kept, client
  <2>4. state' <= 2 * N' + 1
    <3>1. state = 2 * Index + 1
      BY <2>1, MultipartFacts
    <3> QED BY <1>1, <2>1, <2>2, <3>1
  <2>5. \A j \in 1 .. N' : 2 * j > state' + 1 => Joined(j)'
    <3> SUFFICES ASSUME NEW j \in 1 .. N, 2 * j > state + 1 + 1 PROVE Joined(j)
      BY <2>2
    <3>1. 2 * j > state + 1
      BY <1>1
    <3> QED BY <2>1, <3>1 DEF MultipartInv
  <2>6. Len(starts') = Index'
    BY <2>1, <2>2 DEF client
  <2> QED BY <1>2, <2>1, <2>2, <2>3, <2>4, <2>5, <2>6 DEF MultipartInv, Kept, client
<1>4. /\ part_headers' \in Seq(Nat) /\ state' \in Nat /\ remaining' \in 0 .. U64Max
      /\ ClientType' /\ PartsFramed' /\ failed' = failed /\ seen' = seen
  BY <1>1 DEF TypeOK, ClientType, PartsFramed, Kept, client
<1>5. ~failed' => /\ MultipartInv' /\ seen' # "panic"
                  /\ seen' = "end" /\ method = "GET" => remaining' = 0
  BY <1>1, <1>3, <1>4
<1>6. failed' => state' >= 2 * N + 1
  BY <1>1, <1>4
<1> QED BY <1>2, <1>4, <1>5, <1>6, MultipartStep

(* The current part fails: the stream is put at its end.                   *)
LEMMA PartErrorIInv ==
  ASSUME IInv, phase = "body", body = "Multipart",
         cur' \in [some : BOOLEAN, remaining : 0 .. U64Max, ended : BOOLEAN],
         remaining' = 0, state' = 2 * N + 1, Return("error", 0),
         UNCHANGED <<Kept, part_headers, starts>>
  PROVE  IInv'
<1>1. TypeOK /\ PartsFramed /\ N \in Nat
  BY MultipartFacts
<1>2. ClientType' /\ failed'
  <2>1. starts' \in Seq(Nat)
    BY <1>1 DEF TypeOK
  <2>2. failed'
    BY DEF Return
  <2> QED BY <1>1, <2>1, <2>2, ReturnType DEF ClientType
<1>3. /\ part_headers' \in Seq(Nat) /\ state' \in Nat /\ remaining' \in 0 .. U64Max
      /\ PartsFramed' /\ state' >= 2 * N + 1
  BY <1>1, LengthsAssumption DEF TypeOK, PartsFramed, Kept
<1> QED BY <1>2, <1>3, MultipartStep

(* The four answers of the current part.                                   *)
LEMMA PollPartIInv ==
  ASSUME IInv, NEW item \in Items, PollPart(item)
  PROVE  IInv'
<1> DEFINE r == exact_len_poll(cur, item)
<1>1. /\ phase = "body" /\ body = "Multipart" /\ cur.some
      /\ UNCHANGED <<Kept, part_headers, starts>>
      /\ cur \in [some : BOOLEAN, remaining : 0 .. U64Max, ended : BOOLEAN]
  BY DEF PollPart, MayPoll, Kept, plan, IInv, TypeOK
<1>2. /\ r.cur \in [some : BOOLEAN, remaining : 0 .. U64Max, ended : BOOLEAN]
      /\ r.cur.some
      /\ r.out = "data" =>
           item.n <= cur.remaining /\ r.cur.remaining = cur.remaining - item.n
      /\ r.out = "end" => cur.remaining = 0
      /\ item.n \in Nat
  BY <1>1, ExactLenPoll
<1>3. \/ r.out = "data" /\ cur' = r.cur /\ Take(item.n) /\ UNCHANGED state
      \/ cur' = r.cur /\ remaining' = 0 /\ state' = 2 * N + 1 /\ Return("error", 0)
      \/ /\ r.out = "end" /\ cur' = None /\ state' = state + 1
         /\ UNCHANGED <<remaining, seen, sent, failed, after>>
      \/ Return("pending", 0) /\ UNCHANGED <<cur, state, remaining>>
  BY DEF PollPart
<1> HIDE DEF r
<1>4. CASE r.out = "data" /\ cur' = r.cur /\ Take(item.n) /\ UNCHANGED state
  BY <1>1, <1>2, <1>4, PartDataIInv
<1>5. CASE cur' = r.cur /\ remaining' = 0 /\ state' = 2 * N + 1 /\ Return("error", 0)
  BY <1>1, <1>2, <1>5, PartErrorIInv
<1>6. CASE /\ r.out = "end" /\ cur' = None /\ state' = state + 1
           /\ UNCHANGED <<remaining, seen, sent, failed, after>>
  <2>1. UNCHANGED client /\ cur.remaining = 0
    BY <1>1, <1>2, <1>6 DEF client
  <2> QED BY <1>1, <1>6, <2>1, PartEndIInv
<1>7. CASE Return("pending", 0) /\ UNCHANGED <<cur, state, remaining>>
  BY <1>1, <1>7, ReturnOnly
<1> QED BY <1>3, <1>4, <1>5, <1>6, <1>7
-----------------------------------------------------------------------------
(***************************************************************************)
(* The theorems                                                            *)
(***************************************************************************)

(* No step breaks the invariant.                                           *)
LEMMA NextIInv ==
  ASSUME IInv, [Next]_vars
  PROVE  IInv'
<1>1. CASE Build
  BY <1>1, ChooseIInv, EstimateIInv, PreparePartIInv, PrepareEndIInv DEF Build
<1>2. CASE PollOnce
  BY <1>2, PollOnceIInv
<1>3. CASE \E item \in Items : Poll(item)
  BY <1>3, PollExactLenIInv, PollPartIInv DEF Poll
<1>4. CASE Loop
  BY <1>4, OpenPartIInv, SendHeaderIInv, SendTrailerIInv, SendEndIInv,
     IndexPanicIInv DEF Loop
<1>5. CASE UNCHANGED vars
  <2>1. /\ UNCHANGED <<request, plan, stream, client>> /\ N' = N
        /\ UNCHANGED <<part_headers, offsets, sizes, state, sent, remaining, cur, starts>>
    BY <1>5 DEF vars, N, request, plan, stream, client
  <2>2. TypeOK' /\ PlanInv' /\ PartsFramed' /\ NoPanic'
    BY <2>1 DEF IInv, TypeOK, PlanInv, Offsets, Joined, PartsFramed, NoPanic,
       request, plan, stream, client
  <2>3. MultipartInv' = MultipartInv
    BY <2>1 DEF MultipartInv, Offsets, Joined, Odd, Index, plan
  <2>4. BodyInv'
    BY <2>1, <2>3 DEF IInv, BodyInv, size_hint, request, plan, stream, client
  <2> QED BY <2>2, <2>4 DEF IInv
<1> QED BY <1>1, <1>2, <1>3, <1>4, <1>5 DEF Next

(* The inductive invariant holds for every entity length, any number and   *)
(* sizes of ranges, any part headers and any behaviour of the entity's     *)
(* stream, in debug and in release builds.                                 *)
THEOREM RangeInvariant == Spec => []IInv
<1>1. Init => IInv
  BY InitIInv
<1>2. IInv /\ [Next]_vars => IInv'
  BY NextIInv
<1> QED BY <1>1, <1>2, PTL DEF Spec

(* The fields keep their types: the lengths that the code adds up with     *)
(* checked_add, and those it subtracts from, stay within a u64.            *)
THEOREM RangeTypeCorrect == Spec => []TypeOK
<1>1. IInv => TypeOK
  BY DEF IInv
<1> QED BY <1>1, RangeInvariant, PTL

(* A body that ends without an error has exactly Content-Length bytes.     *)
THEOREM BodyHasContentLength == Spec => []ContentLengthExact
<1>1. IInv => ContentLengthExact
  <2> SUFFICES ASSUME IInv, seen = "end", ~failed, method = "GET"
               PROVE  sent = content_length
    BY DEF ContentLengthExact
  <2>1. phase = "body" /\ size_hint = 0
    BY DEF IInv, PlanInv, BodyInv
  <2>2. sent + size_hint = content_length
    BY <2>1 DEF IInv, TypeOK, BodyInv, MultipartInv, size_hint
  <2>3. sent \in Nat
    BY DEF IInv, TypeOK
  <2> QED BY <2>1, <2>2, <2>3
<1> QED BY <1>1, RangeInvariant, PTL

(* What was sent and what size_hint promises add up to Content-Length.     *)
THEOREM SizeHintAgrees == Spec => []HintAgrees
<1>1. IInv => HintAgrees
  BY DEF IInv, TypeOK, BodyInv, MultipartInv, size_hint, HintAgrees
<1> QED BY <1>1, RangeInvariant, PTL

(* Every part header is sent where the lengths put it.                     *)
THEOREM PartsAreFramed == Spec => []PartsFramed
<1>1. IInv => PartsFramed
  BY DEF IInv
<1> QED BY <1>1, RangeInvariant, PTL

(* Serving a body does not panic before it reports an error.               *)
THEOREM ServingDoesNotPanic == Spec => []NoPanic
<1>1. IInv => NoPanic
  BY DEF IInv
<1> QED BY <1>1, RangeInvariant, PTL
-----------------------------------------------------------------------------
(***************************************************************************)
(* What keeps a body from going on for ever                                *)
(***************************************************************************)
Rank == [choose |-> 3, estimate |-> 2, prepare |-> 1, body |-> 0]

(* The step answers the consumer for good, comes nearer to a response,     *)
(* sends bytes, enters the next state of MultipartStream or opens a part.  *)
Advances ==
  \/ failed' \/ seen' = "end"
  \/ Rank[phase'] < Rank[phase]
  \/ phase' = phase /\ part' > part
  \/ phase' = phase /\ UNCHANGED part /\ sent' > sent /\ state' >= state
  \/ phase' = phase /\ UNCHANGED part /\ sent' >= sent /\ state' > state
  \/ UNCHANGED <<phase, part, sent, state>> /\ ~cur.some /\ cur'.some

(* The entity's stream is pending or gives an empty chunk: nothing is done *)
(* and nothing is undone.                                                  *)
Waits ==
  /\ \E item \in Items : ~Productive(item) /\ Poll(item)
  /\ UNCHANGED <<phase, part, sent, state, cur>>

(* None of them can go on for ever.                                        *)
Bounded ==
  /\ part <= N
  /\ phase = "body" /\ ~failed =>
       /\ method = "GET" => sent <= content_length
       /\ body = "Multipart" => state <= 2 * N + 1

(* Building the response never comes back to an earlier phase.             *)
LEMMA BuildAdvances ==
  ASSUME IInv, Build
  PROVE  Advances
<1>1. part \in Int
  <2>1. N \in Nat
    BY Bounds DEF IInv
  <2> QED BY <2>1 DEF IInv, TypeOK
<1>2. ASSUME phase # "body", phase' = "body" PROVE Rank[phase'] < Rank[phase]
  BY <1>2 DEF Rank, IInv, TypeOK
<1>3. CASE Choose
  <2>1. phase = "choose" /\ phase' \in {"estimate", "body"}
    BY <1>3 DEF Choose, ServeRange, Respond
  <2> QED BY <2>1 DEF Advances, Rank
<1>4. CASE Estimate
  <2>1. phase = "estimate" /\ (phase' = "body" \/ (phase' = phase /\ part' = part + 1))
    BY <1>4 DEF Estimate, ServeRange, Respond
  <2> QED BY <1>1, <1>2, <2>1 DEF Advances
<1>5. CASE Decide
  <2>1. phase = "estimate" /\ phase' \in {"prepare", "body"}
    BY <1>5 DEF Decide, ServeRange, Respond
  <2> QED BY <2>1 DEF Advances, Rank
<1>6. CASE PreparePart
  <2>1. phase = "prepare" /\ (phase' = "body" \/ (phase' = phase /\ part' = part + 1))
    BY <1>6 DEF PreparePart, Overflow, Respond
  <2> QED BY <1>1, <1>2, <2>1 DEF Advances
<1>7. CASE PrepareEnd
  <2>1. phase = "prepare" /\ phase' = "body"
    BY <1>7 DEF PrepareEnd, Overflow, Respond
  <2> QED BY <1>2, <2>1 DEF Advances
<1> QED BY <1>3, <1>4, <1>5, <1>6, <1>7 DEF Build

(* What Take returns is sent, unless it panics.                            *)
LEMMA TakeSends ==
  ASSUME sent \in Nat, NEW n \in Nat, Take(n), seen' # "panic"
  PROVE  sent' = sent + n
BY DEF Take, Return

(* A chunk of the stream is sent, ends the body or changes nothing.        *)
LEMMA PollsAdvance ==
  ASSUME IInv, IInv', ~failed, NEW item \in Items, Poll(item)
  PROVE  Advances \/ Waits
<1> DEFINE r == exact_len_poll(cur, item)
<1>1. /\ sent \in Nat /\ state \in Nat /\ item.n \in Nat
      /\ cur \in [some : BOOLEAN, remaining : 0 .. U64Max, ended : BOOLEAN]
      /\ item.kind \in {"data", "error", "none", "pending"} /\ (item.kind # "data" => item.n = 0)
  <2>1. /\ item.kind \in {"data", "error", "none", "pending"} /\ item.n \in Nat
        /\ item.kind # "data" => item.n = 0
    <3>1. CASE item \in [kind : {"data"}, n : 0 .. MaxChunk]
      BY <3>1, BoundsAssumption
    <3>2. CASE item \in [kind : {"error", "none", "pending"}, n : {0}]
      BY <3>2
    <3> QED BY <3>1, <3>2 DEF Items
  <2> QED BY <2>1 DEF IInv, TypeOK
<1>2. UNCHANGED <<phase, part>>
  BY DEF Poll, PollExactLen, PollPart, plan
<1>3. failed' \/ seen' # "panic"
  BY DEF IInv, NoPanic
<1>4. /\ item.kind = "pending" => r = [cur |-> cur, out |-> "pending"]
      /\ item.kind = "data" /\ item.n = 0 => r = [cur |-> cur, out |-> "data"]
      /\ item.kind = "data" => r.out \in {"data", "error"}
      /\ item.kind = "error" => r.out = "error"
      /\ item.kind = "none" => r.out \in {"error", "end"}
  <2>1. [cur EXCEPT !.remaining = @ - 0] = cur /\ 0 <= cur.remaining
    BY <1>1, LengthsAssumption
  <2> QED BY <1>1, <2>1, LengthsAssumption DEF exact_len_poll
<1> HIDE DEF r
<1>5. CASE PollExactLen(item)
  <2>1. /\ cur' = r.cur /\ Return(r.out, IF r.out = "data" THEN item.n ELSE 0)
        /\ UNCHANGED state
    BY <1>5 DEF PollExactLen, r
  <2>2. CASE r.out = "error" \/ r.out = "end"
    BY <2>1, <2>2 DEF Return, Advances
  <2>3. CASE item.kind = "data" /\ r.out = "data" /\ item.n > 0
    <3>1. sent' = sent + item.n
      BY <2>1, <2>3 DEF Return
    <3> QED BY <1>1, <1>2, <2>1, <2>3, <3>1 DEF Advances
  <2>4. CASE ~Productive(item)
    <3>1. r.cur = cur /\ sent' = sent
      BY <1>1, <1>4, <2>1, <2>4 DEF Productive, Return
    <3> QED BY <1>2, <2>1, <2>4, <3>1 DEF Waits
  <2> QED BY <1>1, <1>4, <2>2, <2>3, <2>4 DEF Productive
<1>6. CASE PollPart(item)
  <2>1. \/ r.out = "data" /\ cur' = r.cur /\ Take(item.n) /\ UNCHANGED state
        \/ r.out = "error" /\ Return("error", 0)
        \/ r.out = "end" /\ state' = state + 1 /\ UNCHANGED sent
        \/ r.out = "pending" /\ Return("pending", 0) /\ UNCHANGED <<cur, state>>
    BY <1>6 DEF PollPart, r
  <2>2. CASE r.out = "data" /\ cur' = r.cur /\ Take(item.n) /\ UNCHANGED state
    <3>0. item.kind = "data"
      BY <1>1, <1>4, <2>2
    <3>1. ~failed' => sent' = sent + item.n
      BY <1>1, <1>3, <2>2, TakeSends
    <3>2. CASE item.n > 0
      BY <1>1, <1>2, <2>2, <3>1, <3>2 DEF Advances
    <3>3. CASE item.n = 0
      <4>1. r.cur = cur /\ ~Productive(item)
        BY <1>4, <3>0, <3>3 DEF Productive
      <4> QED BY <1>1, <1>2, <2>2, <3>1, <3>3, <4>1 DEF Advances, Waits
    <3> QED BY <1>1, <3>2, <3>3
  <2>3. CASE r.out = "error" /\ Return("error", 0)
    BY <2>3 DEF Return, Advances
  <2>4. CASE r.out = "end" /\ state' = state + 1 /\ UNCHANGED sent
    BY <1>1, <1>2, <2>4 DEF Advances
  <2>5. CASE r.out = "pending" /\ Return("pending", 0) /\ UNCHANGED <<cur, state>>
    <3>1. ~Productive(item) /\ sent' = sent
      BY <1>1, <1>4, <2>5 DEF Productive, Return
    <3> QED BY <1>2, <2>5, <3>1 DEF Waits
  <2> QED BY <2>1, <2>2, <2>3, <2>4, <2>5
<1> QED BY <1>5, <1>6 DEF Poll

(* The loop between the parts goes on to the next state or ends.           *)
LEMMA LoopAdvances ==
  ASSUME IInv, IInv', ~failed, PollOnce \/ Loop
  PROVE  Advances
<1>1. sent \in Nat /\ state \in Nat /\ once \in Nat /\ part_headers \in Seq(Nat)
  BY DEF IInv, TypeOK
<1>2. UNCHANGED <<phase, part>>
  BY DEF PollOnce, Loop, OpenPart, SendHeader, SendTrailer, SendEnd, IndexPanic, plan
<1>3. failed' \/ seen' # "panic"
  BY DEF IInv, NoPanic
<1>4. CASE PollOnce
  <2>1. CASE once > 0
    <3>1. sent' = sent + once /\ UNCHANGED state
      BY <1>4, <2>1 DEF PollOnce, Return
    <3> QED BY <1>1, <1>2, <2>1, <3>1 DEF Advances
  <2>2. CASE ~(once > 0)
    BY <1>4, <2>2 DEF PollOnce, Return, Advances
  <2> QED BY <2>1, <2>2
<1>5. CASE OpenPart
  BY <1>2, <1>5 DEF OpenPart, BetweenParts, client, ExactLen, Advances
<1>6. ASSUME NEW n \in Nat, Take(n), state' = state + 1 PROVE Advances
  <2>1. failed' \/ sent' = sent + n
    BY <1>1, <1>3, <1>6, TakeSends
  <2> QED BY <1>1, <1>2, <1>6, <2>1 DEF Advances
<1>7. CASE SendHeader
  <2>1. part_headers[Index + 1] \in Nat
    <3>1. phase = "body" /\ body = "Multipart" /\ Index < N
      BY <1>7 DEF SendHeader, BetweenParts, MayPoll
    <3>2. N \in Nat /\ Index \in Nat /\ Len(part_headers) = N
      BY <3>1, MultipartFacts DEF IInv, BodyInv, MultipartInv, Offsets
    <3> QED BY <1>1, <3>1, <3>2
  <2> QED BY <1>6, <1>7, <2>1 DEF SendHeader
<1>8. CASE SendTrailer
  BY <1>6, <1>8, LengthsAssumption DEF SendTrailer
<1>9. CASE SendEnd
  BY <1>3, <1>9 DEF SendEnd, Return, Advances
<1>10. CASE IndexPanic
  BY <1>3, <1>10 DEF IndexPanic, Return, Advances
<1> QED BY <1>4, <1>5, <1>7, <1>8, <1>9, <1>10 DEF Loop

(* The safety part of Terminates, for any number of parts of any length:   *)
(* until a body has ended or failed, every step of serve_inner and of      *)
(* BodyStream brings it nearer to its end, by a measure that is bounded,   *)
(* except a poll for which the entity's stream has nothing.                *)
THEOREM BodiesAdvance == Spec => []Bounded /\ [][~failed => Advances \/ Waits]_vars
<1>1. IInv => Bounded
  <2> SUFFICES ASSUME IInv PROVE Bounded
    OBVIOUS
  <2>1. part <= N
    <3>1. N \in Nat
      BY Bounds DEF IInv
    <3> QED BY <3>1 DEF IInv, TypeOK
  <2>2. ASSUME phase = "body", ~failed, method = "GET" PROVE sent <= content_length
    <3>1. /\ sent \in Nat /\ content_length \in Nat /\ once \in Nat /\ remaining \in Nat
          /\ cur.remaining \in Nat /\ body \in {"Once", "ExactLen", "Multipart"}
      BY LengthsAssumption DEF IInv, TypeOK
    <3>2. /\ body = "Once" => sent + once = content_length
          /\ body = "ExactLen" => sent + cur.remaining = content_length
          /\ body = "Multipart" => sent + remaining = content_length
      BY <2>2 DEF IInv, BodyInv, MultipartInv
    <3> QED BY <3>1, <3>2
  <2>3. ASSUME phase = "body", ~failed, body = "Multipart" PROVE state <= 2 * N + 1
    BY <2>3 DEF IInv, BodyInv, MultipartInv
  <2> QED BY <2>1, <2>2, <2>3 DEF Bounded
<1>2. IInv /\ IInv' /\ [Next]_vars => [~failed => Advances \/ Waits]_vars
  BY BuildAdvances, PollsAdvance, LoopAdvances DEF Next
<1> QED BY <1>1, <1>2, RangeInvariant, PTL DEF Spec
=============================================================================
