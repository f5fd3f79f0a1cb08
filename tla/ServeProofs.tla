---------------------------- MODULE ServeProofs ----------------------------
(***************************************************************************)
(* Proofs about Serve for every number of versions and every span of time: *)
(* what the conditional headers promise to a client that took them from    *)
(* an earlier response, however the entity changed in between.             *)
(***************************************************************************)
EXTENDS Serve, TLAPS

-----------------------------------------------------------------------------
(***************************************************************************)
(* The answer                                                              *)
(***************************************************************************)

(* The results of the two halves of parse_modified_hdrs.                   *)
LEMMA Verdicts ==
  ASSUME NEW q
  PROVE  /\ precondition_failed(q) \in {"yes", "no", "error"}
         /\ not_modified(q) \in {"yes", "no", "error"}
<1>1. precondition_failed(q) \in {"yes", "no", "error"}
  BY DEF precondition_failed
<1>2. not_modified(q) \in {"yes", "no", "error"}
  BY DEF not_modified
<1> QED BY <1>1, <1>2

Dates == {HttpDate(IF m <= clock THEN m ELSE clock) : m \in LastModified}

(* The Range header counts: there is no If-Range, or it has the entity's   *)
(* tag, and a strong one.                                                  *)
Resumes(q) == \E c \in q.if_range : \E t \in c.tag, e \in Etag(version) : strong_eq(t, e)

(* What the status and the fields of a response say about the request and  *)
(* the entity.                                                             *)
Explains(p, q) ==
  /\ p.status \in Statuses
  /\ p.status = 412 => precondition_failed(q) = "yes"
  /\ p.status = 304 => precondition_failed(q) = "no" /\ not_modified(q) = "yes"
  /\ p.status \in {200, 206} => precondition_failed(q) = "no" /\ not_modified(q) = "no"
  /\ p.status = 206 => q.if_range = {} \/ Resumes(q)
  /\ p.status = 206 /\ q.method = "GET" /\ q.if_range = {} => p.headers = TRUE
  /\ p.status = 206 => p.headers \in BOOLEAN
  /\ p.status = 200 => p.headers = TRUE
  /\ p.status \notin {200, 206} => p.headers = FALSE
  /\ q.method \in {"GET", "HEAD"} /\ precondition_failed(q) = "no" /\ not_modified(q) = "yes"
       => p.status = 304
  /\ p.status \in {200, 206, 304, 412, 416} =>
       p.version = version /\ p.etag = Etag(version) /\ p.date = Dates
  /\ p.status \in {400, 405, 413} => p.version = -1 /\ p.etag = {} /\ p.date = {}

(* The outcome of the match on If-Range: a Range header is only left if    *)
(* there is no condition or it holds.                                      *)
IfRangeOutcome(q, r) ==
  /\ r.range \in RangeHeaders /\ r.headers \in BOOLEAN
  /\ r.range # "none" => q.if_range = {} \/ Resumes(q)
  /\ q.if_range = {} => r.headers = TRUE

LEMMA IfRangeDecides ==
  ASSUME NEW q, q.range \in RangeHeaders, q.if_range \in RangeConditions
  PROVE  IfRangeOutcome(q, if_range(q))
<1> DEFINE r == if_range(q)
<1> SUFFICES IfRangeOutcome(q, r)
  OBVIOUS
<1> HIDE DEF r
<1>1. CASE Resumes(q)
  <2>1. r = [range |-> q.range, headers |-> FALSE]
    <3>1. q.if_range # {}
      BY <1>1 DEF Resumes
    <3>2. PICK c \in q.if_range : \E t \in c.tag, e \in Etag(version) : strong_eq(t, e)
      BY <1>1 DEF Resumes
    <3>3. q.if_range = {c} /\ c.date = {} /\ \A t, u \in c.tag : t = u
      <4>1. \/ \E t \in Cached("etag") \cup {Other} : q.if_range = {[tag |-> {t}, date |-> {}]}
            \/ \E d \in Cached("date") : q.if_range = {[tag |-> {}, date |-> {d}]}
        BY <3>1 DEF RangeConditions
      <4>2. CASE \E t \in Cached("etag") \cup {Other} : q.if_range = {[tag |-> {t}, date |-> {}]}
        <5>1. PICK t : q.if_range = {[tag |-> {t}, date |-> {}]}
          BY <4>2
        <5>2. c = [tag |-> {t}, date |-> {}]
          BY <3>2, <5>1
        <5> QED BY <5>1, <5>2
      <4>3. CASE \E d \in Cached("date") : q.if_range = {[tag |-> {}, date |-> {d}]}
        <5>1. c.tag = {}
          BY <3>2, <4>3
        <5> QED BY <3>2, <5>1
      <4> QED BY <4>1, <4>2, <4>3
    <3>4. ~\E x \in q.if_range : \E s \in x.tag : ~\E e \in Etag(version) : strong_eq(s, e)
      BY <3>2, <3>3
    <3>5. ~\E x \in q.if_range : x.date # {}
      BY <3>3
    <3> QED BY <1>1, <3>1, <3>4, <3>5, Zenon DEF if_range, r, Resumes
  <2>2. r.range = q.range /\ r.headers = FALSE /\ q.if_range # {}
    BY <1>1, <2>1 DEF Resumes
  <2> QED BY <1>1, <2>2 DEF IfRangeOutcome
<1>2. CASE q.if_range = {}
  <2>1. r = [range |-> q.range, headers |-> TRUE]
    BY <1>2, Zenon DEF if_range, r
  <2>2. r.range = q.range /\ r.headers = TRUE
    BY <2>1
  <2> QED BY <1>2, <2>2 DEF IfRangeOutcome
<1>3. CASE ~Resumes(q) /\ q.if_range # {}
  <2>1. \/ \E c \in q.if_range : \E s \in c.tag : ~\E e \in Etag(version) : strong_eq(s, e)
        \/ \E c \in q.if_range : c.date # {}
    BY <1>3 DEF RangeConditions, Resumes
  <2>2. r = [range |-> "none", headers |-> TRUE]
    BY <1>3, <2>1, Zenon DEF if_range, r, Resumes
  <2>3. r.range = "none" /\ r.headers = TRUE
    BY <2>2
  <2> QED BY <1>3, <2>3 DEF IfRangeOutcome, RangeHeaders
<1> QED BY <1>1, <1>2, <1>3

(* The request is good and is answered with the entity.                    *)
LEMMA DeliverExplains ==
  ASSUME NEW q, NEW r, IfRangeOutcome(q, r),
         precondition_failed(q) = "no", not_modified(q) = "no"
  PROVE  Explains(Deliver(q.method, r), q)
<1> DEFINE p == Deliver(q.method, r)
<1> SUFFICES Explains(p, q)
  OBVIOUS
<1> HIDE DEF p
<1> USE DEF IfRangeOutcome
<1>1. CASE r.range = "unsatisfiable"
  <2>1. p = Response(416, FALSE)
    BY <1>1, Zenon DEF Deliver, p
  <2>2. p.status = 416 /\ p.headers = FALSE /\ p.version = version /\ p.etag = Etag(version) /\ p.date = Dates
    BY <2>1, Zenon DEF Response, Dates
  <2> QED BY <2>2 DEF Explains, Statuses
<1>2. CASE r.range = "too_large"
  <2>1. p = Bare(413)
    BY <1>2, Zenon DEF Deliver, p
  <2>2. p.status = 413 /\ p.headers = FALSE /\ p.version = -1 /\ p.etag = {} /\ p.date = {}
    BY <2>1, Zenon DEF Bare
  <2> QED BY <2>2 DEF Explains, Statuses
<1>3. CASE r.range \in {"single", "multipart"}
  <2> DEFINE h == IF r.range = "single" THEN r.headers ELSE r.headers /\ q.method # "HEAD"
  <2>1. p = Response(206, h)
    BY <1>3, Zenon DEF Deliver, p
  <2>2. h \in BOOLEAN /\ (q.method = "GET" /\ q.if_range = {} => h = TRUE)
    OBVIOUS
  <2> HIDE DEF h
  <2>3. p.status = 206 /\ p.version = version /\ p.etag = Etag(version) /\ p.date = Dates /\ p.headers = h
    BY <2>1, Zenon DEF Response, Dates
  <2>4. q.if_range = {} \/ Resumes(q)
    BY <1>3
  <2> QED BY <2>2, <2>3, <2>4 DEF Explains, Statuses
<1>4. CASE r.range \in {"none", "whole"}
  <2>1. p = Response(200, TRUE)
    BY <1>4, Zenon DEF Deliver, p
  <2>2. p.status = 200 /\ p.headers = TRUE /\ p.version = version /\ p.etag = Etag(version) /\ p.date = Dates
    BY <2>1, Zenon DEF Response, Dates
  <2> QED BY <2>2 DEF Explains, Statuses
<1> QED BY <1>1, <1>2, <1>3, <1>4 DEF RangeHeaders

(* Every response is explained by its request.                             *)
LEMMA ServeExplains ==
  ASSUME NEW q, q.range \in RangeHeaders, q.if_range \in RangeConditions
  PROVE  Explains(serve_inner(q), q)
<1> DEFINE p == serve_inner(q)
<1> SUFFICES Explains(p, q)
  OBVIOUS
<1> HIDE DEF p
<1>1. CASE q.method \notin {"GET", "HEAD"}
  <2>1. p = Bare(405)
    BY <1>1, Zenon DEF serve_inner, p
  <2>2. p.status = 405 /\ p.headers = FALSE /\ p.version = -1 /\ p.etag = {} /\ p.date = {}
    BY <2>1, Zenon DEF Bare
  <2> QED BY <1>1, <2>2 DEF Explains, Statuses
<1>2. CASE q.method \in {"GET", "HEAD"} /\ "error" \in {precondition_failed(q), not_modified(q)}
  <2>1. p = Bare(400)
    BY <1>2, Zenon DEF serve_inner, p
  <2>2. p.status = 400 /\ p.headers = FALSE /\ p.version = -1 /\ p.etag = {} /\ p.date = {}
    BY <2>1, Zenon DEF Bare
  <2> QED BY <1>2, <2>2 DEF Explains, Statuses
<1>3. CASE /\ q.method \in {"GET", "HEAD"}
           /\ precondition_failed(q) = "yes" /\ not_modified(q) # "error"
  <2>1. p = Response(412, FALSE)
    BY <1>3, Zenon DEF serve_inner, p
  <2>2. p.status = 412 /\ p.headers = FALSE /\ p.version = version /\ p.etag = Etag(version) /\ p.date = Dates
    BY <2>1, Zenon DEF Response, Dates
  <2> QED BY <1>3, <2>2 DEF Explains, Statuses
<1>4. CASE /\ q.method \in {"GET", "HEAD"}
           /\ precondition_failed(q) = "no" /\ not_modified(q) = "yes"
  <2>1. p = Response(304, FALSE)
    BY <1>4, Zenon DEF serve_inner, p
  <2>2. p.status = 304 /\ p.headers = FALSE /\ p.version = version /\ p.etag = Etag(version) /\ p.date = Dates
    BY <2>1, Zenon DEF Response, Dates
  <2> QED BY <1>4, <2>2 DEF Explains, Statuses
<1>5. CASE /\ q.method \in {"GET", "HEAD"}
           /\ precondition_failed(q) = "no" /\ not_modified(q) = "no"
  <2>1. p = Deliver(q.method, if_range(q))
    BY <1>5, Zenon DEF serve_inner, p
  <2>2. Explains(Deliver(q.method, if_range(q)), q)
    BY <1>5, IfRangeDecides, DeliverExplains
  <2> QED BY <2>1, <2>2, Zenon
<1> QED BY <1>1, <1>2, <1>3, <1>4, <1>5, Verdicts
-----------------------------------------------------------------------------
(***************************************************************************)
(* What the client's validators are worth                                  *)
(***************************************************************************)

(* A tag fits its type, and tells versions or their meanings apart.        *)
LEMMA TagFields ==
  ASSUME NEW v \in 0 .. MaxVersion
  PROVE  /\ Tag(v) \in Tags
         /\ kind # "weak" => Tag(v).op = v /\ ~Tag(v).weak
         /\ kind = "weak" => Tag(v).op = Meaning(v) /\ Tag(v).weak
<1> USE ServeAssumption
<1>1. CASE kind = "weak"
  <2>1. Tag(v) = [weak |-> TRUE, op |-> Meaning(v)]
    BY <1>1 DEF Tag
  <2>2. Meaning(v) \in 0 .. MaxVersion
    BY DEF Meaning
  <2> QED BY <1>1, <2>1, <2>2 DEF Tags
<1>2. CASE kind # "weak"
  <2>1. Tag(v) = [weak |-> FALSE, op |-> v]
    BY <1>2 DEF Tag
  <2> QED BY <1>2, <2>1 DEF Tags
<1> QED BY <1>1, <1>2

(* A tag the client has is that of the version it keeps.                   *)
LEMMA CachedTag ==
  ASSUME IInv, NEW t \in Cached("etag")
  PROVE  \E c \in cache : c.version \in 0 .. version /\ kind # "none" /\ t = Tag(c.version)
<1>1. PICK c \in cache : t \in c.etag
  BY DEF Cached
<1>2. c.version \in 0 .. version /\ c.etag = Etag(c.version)
  BY DEF IInv, CacheInv
<1> QED BY <1>1, <1>2 DEF Etag

(* A date the client has is from before every later version.               *)
LEMMA CachedDate ==
  ASSUME IInv, NEW d \in Cached("date"), mtime <= d
  PROVE  \E c \in cache : c.version = version
<1> USE ServeAssumption
<1>1. PICK c \in cache : d \in c.date
  BY DEF Cached
<1>2. /\ c.version \in 0 .. version /\ d \in 0 .. MaxTime
      /\ c.version < version => d < mtime
  BY <1>1 DEF IInv, CacheInv, TypeOK
<1>3. version \in Nat /\ mtime \in Nat /\ d \in Nat
  BY <1>2 DEF IInv, TypeOK
<1> QED BY <1>2, <1>3

(* The tags in a list are the client's, or nobody's.                       *)
LEMMA ListedTags ==
  ASSUME NEW h \in TagHeaders, h \notin {{}, {Star}}, NEW l \in h, NEW i \in Items(l)
  PROVE  i = Other \/ i \in Cached("etag")
<1>1. PICK j \in 1 .. Len(l) : i = l[j] /\ \A k \in 1 .. j : l[k] # Junk
  BY DEF Items
<1>2. \/ l = <<Other>> \/ l = <<Junk>>
      \/ \E t \in Cached("etag") : l = <<Other, t>> \/ l = <<t, Junk>>
  BY DEF TagHeaders
<1> QED BY <1>1, <1>2

(* A tag of the request that has the same opaque part as the entity's      *)
(* comes from a copy of the same version, or of the same meaning.          *)
LEMMA SameTag ==
  ASSUME IInv, NEW i, i = Other \/ i \in Cached("etag"),
         NEW e \in Etag(version), i.op = e.op
  PROVE  \E c \in cache :
           \/ c.version = version
           \/ kind = "weak" /\ Meaning(c.version) = Meaning(version) /\ i.weak
<1> USE ServeAssumption
<1>1. version \in 0 .. MaxVersion /\ e = Tag(version)
  BY DEF IInv, TypeOK, Etag
<1>2. e.op \in 0 .. MaxVersion /\ (kind # "weak" => e.op = version) /\ (kind = "weak" => e.op = Meaning(version))
  BY <1>1, TagFields DEF Tags
<1>3. i # Other
  BY <1>2 DEF Other
<1>4. PICK c \in cache : c.version \in 0 .. version /\ i = Tag(c.version)
  BY <1>3, CachedTag
<1>5. c.version \in 0 .. MaxVersion
  BY <1>1, <1>4
<1>6. /\ kind # "weak" => i.op = c.version
      /\ kind = "weak" => i.op = Meaning(c.version) /\ i.weak
  BY <1>4, <1>5, TagFields
<1> QED BY <1>2, <1>6

(* Strong comparison singles out the version.                              *)
LEMMA StrongTag ==
  ASSUME IInv, NEW i, i = Other \/ i \in Cached("etag"),
         NEW e \in Etag(version), strong_eq(i, e)
  PROVE  \E c \in cache : c.version = version
<1>1. i.op = e.op /\ ~i.weak
  BY DEF strong_eq
<1> QED BY <1>1, SameTag
-----------------------------------------------------------------------------
(***************************************************************************)
(* What the verdicts say about the client's copy                           *)
(***************************************************************************)

(* If-Match lets a request through only for the version it names.          *)
LEMMA MatchHolds ==
  ASSUME IInv, NEW q \in req, precondition_failed(q) = "no", q.if_match \notin {{}, {Star}}
  PROVE  \E c \in cache : c.version = version
<1>1. any_match(Etag(version), q.if_match) = "yes"
  BY DEF precondition_failed, any_match
<1>2. PICK l \in q.if_match, e \in Etag(version) : \E i \in Items(l) : strong_eq(i, e)
  BY <1>1 DEF any_match
<1>3. q.if_match \in TagHeaders
  BY DEF IInv, RequestInv
<1> QED BY <1>2, <1>3, ListedTags, StrongTag

(* If-Unmodified-Since does, too.                                          *)
LEMMA UnmodifiedHolds ==
  ASSUME IInv, NEW q \in req, precondition_failed(q) = "no", q.if_unmodified_since # {}, dated
  PROVE  \E c \in cache : c.version = version
<1>1. LastModified = {mtime} /\ LastModified # {}
  BY DEF LastModified
<1>2. q.if_unmodified_since # {NoDate} /\ ~\E d \in q.if_unmodified_since : mtime > d
  BY <1>1 DEF precondition_failed, any_match
<1>3. q.if_unmodified_since \in DateHeaders
  BY DEF IInv, RequestInv
<1>4. PICK d \in Cached("date") : q.if_unmodified_since = {d}
  BY <1>2, <1>3 DEF DateHeaders
<1>5. mtime \in Int /\ d \in Int
  BY <1>4 DEF IInv, TypeOK, Cached
<1> QED BY <1>2, <1>4, <1>5, CachedDate

(* A copy that is told to be unmodified is good.                           *)
LEMMA NotModifiedHolds ==
  ASSUME IInv, NEW q \in req, not_modified(q) = "yes", q.if_none_match # {Star}
  PROVE  \E c \in cache :
           \/ c.version = version
           \/ kind = "weak" /\ Meaning(c.version) = Meaning(version)
<1> DEFINE none == none_match(Etag(version), q.if_none_match)
<1>1. q.if_none_match \in TagHeaders /\ q.if_modified_since \in DateHeaders
  BY DEF IInv, RequestInv
<1>2. \/ none = {FALSE}
      \/ \E m \in LastModified, d \in q.if_modified_since : m <= d
  BY Zenon DEF not_modified
<1>3. CASE none = {FALSE}
  <2>1. PICK l \in q.if_none_match : \E i \in Items(l), e \in Etag(version) : weak_eq(i, e)
    BY <1>3 DEF none_match
  <2>2. q.if_none_match # {}
    BY <2>1
  <2>3. PICK i \in Items(l), e \in Etag(version) : i.op = e.op
    BY <2>1 DEF weak_eq
  <2>4. i = Other \/ i \in Cached("etag")
    BY <1>1, <2>2, ListedTags
  <2> QED BY <2>3, <2>4, SameTag
<1>4. CASE \E m \in LastModified, d \in q.if_modified_since : m <= d
  <2>1. PICK m \in LastModified, d \in q.if_modified_since : m <= d
    BY <1>4
  <2>2. m = mtime /\ mtime \in Nat
    BY ServeAssumption, <2>1 DEF LastModified, IInv, TypeOK
  <2>3. d \in Cached("date")
    BY <1>1, <2>1, <2>2 DEF DateHeaders, NoDate
  <2> QED BY <2>1, <2>2, <2>3, CachedDate
<1> QED BY <1>2, <1>3, <1>4

(* The dates that are sent are not after the clock or the entity's time.   *)
LEMMA DateBounds ==
  ASSUME TypeOK, NEW d \in Dates
  PROVE  d \in 0 .. MaxTime /\ d <= clock /\ d <= mtime /\ dated
<1> USE ServeAssumption
<1>1. /\ dated /\ d = HttpDate(IF mtime <= clock THEN mtime ELSE clock)
  BY DEF Dates, LastModified
<1> DEFINE t == IF mtime <= clock THEN mtime ELSE clock
<1>2. t \in 0 .. MaxTime /\ t <= clock /\ t <= mtime
  BY DEF TypeOK
<1> HIDE DEF t
<1>3. HttpDate(t) \in 0 .. t
  BY <1>2 DEF HttpDate
<1>4. clock \in Nat /\ mtime \in Nat
  BY DEF TypeOK
<1> QED BY <1>1, <1>2, <1>3, <1>4 DEF t

(* The response to a request has its type.                                 *)
LEMMA AnswerTyped ==
  ASSUME TypeOK, NEW q, NEW p, Explains(p, q)
  PROVE  /\ p.status \in Statuses
         /\ p.etag \subseteq (IF p.status \in {400, 405, 413} THEN {} ELSE Tags)
         /\ p.date \subseteq (IF p.status \in {400, 405, 413} THEN {} ELSE 0 .. MaxTime)
         /\ p.headers \in (IF p.status \in {200, 206} THEN BOOLEAN ELSE {FALSE})
<1>1. Etag(version) \subseteq Tags
  BY TagFields DEF Etag, TypeOK
<1>2. Dates \subseteq 0 .. MaxTime
  BY DateBounds
<1>3. p.headers \in (IF p.status \in {200, 206} THEN BOOLEAN ELSE {FALSE})
  BY DEF Explains
<1>4. /\ p.status \in Statuses
      /\ p.status \in {400, 405, 413} => p.etag = {} /\ p.date = {}
      /\ p.status \notin {400, 405, 413} => p.etag = Etag(version) /\ p.date = Dates
  BY DEF Explains, Statuses
<1>5. /\ p.etag \subseteq (IF p.status \in {400, 405, 413} THEN {} ELSE Tags)
      /\ p.date \subseteq (IF p.status \in {400, 405, 413} THEN {} ELSE 0 .. MaxTime)
  <2>1. CASE p.status \in {400, 405, 413}
    BY <1>4, <2>1
  <2>2. CASE p.status \notin {400, 405, 413}
    BY <1>1, <1>2, <1>4, <2>2
  <2> QED BY <2>1, <2>2, Zenon
<1> QED BY <1>3, <1>4, <1>5, Zenon
-----------------------------------------------------------------------------
(***************************************************************************)
(* The invariant                                                           *)
(***************************************************************************)

(* What a client may send depends on its copy only.                        *)
LEMMA SameHeaders ==
  ASSUME cache' = cache
  PROVE  TagHeaders' = TagHeaders /\ DateHeaders' = DateHeaders /\ RangeConditions' = RangeConditions
<1>1. Cached("etag")' = Cached("etag") /\ Cached("date")' = Cached("date")
  BY DEF Cached
<1> QED BY <1>1 DEF TagHeaders, DateHeaders, RangeConditions

(* An answer depends on the entity and the clock only.                     *)
LEMMA SameAnswer ==
  ASSUME UNCHANGED <<entity, clock>>, NEW q
  PROVE  serve_inner(q)' = serve_inner(q)
<1>1. UNCHANGED <<kind, dated, version, mtime, clock>>
  BY DEF entity
<1>2. Etag(version)' = Etag(version) /\ LastModified' = LastModified
  BY <1>1 DEF Etag, Tag, LastModified
<1>3. precondition_failed(q)' = precondition_failed(q)
  BY <1>2 DEF precondition_failed
<1>4. not_modified(q)' = not_modified(q)
  BY <1>2 DEF not_modified
<1>5. if_range(q)' = if_range(q)
  BY <1>2, Zenon DEF if_range
<1>6. ASSUME NEW s, NEW h
      PROVE  Response(s, h)' = Response(s, h)
  BY <1>1, <1>2, Zenon DEF Response
<1>7. ASSUME NEW m, NEW r PROVE Deliver(m, r)' = Deliver(m, r)
  <2>1. /\ Response(416, FALSE)' = Response(416, FALSE)
        /\ Response(206, r.headers)' = Response(206, r.headers)
        /\ Response(206, r.headers /\ m # "HEAD")' = Response(206, r.headers /\ m # "HEAD")
        /\ Response(200, TRUE)' = Response(200, TRUE)
    BY <1>6, Zenon
  <2> QED BY <2>1, Zenon DEF Deliver
<1>8. Response(412, FALSE)' = Response(412, FALSE) /\ Response(304, FALSE)' = Response(304, FALSE)
  BY <1>6, Zenon
<1>9. Deliver(q.method, if_range(q))' = Deliver(q.method, if_range(q))
  <2>1. Deliver(q.method, if_range(q)') = Deliver(q.method, if_range(q))
    BY <1>5, Zenon
  <2> QED BY <1>5, <1>7, Zenon
<1> QED BY <1>3, <1>4, <1>8, <1>9, Zenon DEF serve_inner

(* The client starts with nothing.                                         *)
LEMMA InitIInv == Init => IInv
BY ServeAssumption DEF Init, IInv, TypeOK, AtMostOne, CacheInv, RequestInv, ResponseInv

(* The client makes a request from its copy.                               *)
LEMMA RequestIInv ==
  ASSUME IInv, Request
  PROVE  IInv'
<1>1. req = {} /\ resp = {} /\ resp' = {} /\ cache' = cache
  BY DEF Request, IInv, ResponseInv
<1>2. UNCHANGED <<kind, dated, version, mtime, clock>>
  BY DEF Request, entity
<1>3. AtMostOne(req)' /\ req' # {}
  BY DEF Request, AtMostOne
<1>4. RequestInv'
  BY <1>1, SameHeaders DEF Request, RequestInv
<1>5. TypeOK' /\ AtMostOne(cache)' /\ AtMostOne(resp)'
  BY <1>1, <1>2 DEF IInv, TypeOK, AtMostOne
<1>6. CacheInv'
  BY <1>1, <1>2 DEF IInv, CacheInv, Etag, Tag
<1>7. ResponseInv'
  BY <1>1 DEF ResponseInv
<1> QED BY <1>3, <1>4, <1>5, <1>6, <1>7 DEF IInv

(* The request is answered.                                                *)
LEMMA ServeIInv ==
  ASSUME IInv, Serve
  PROVE  IInv'
<1>1. UNCHANGED <<kind, dated, version, mtime, clock, cache, req>> /\ UNCHANGED <<entity, clock>>
  BY DEF Serve, entity
<1>2. PICK q \in req : resp' = {serve_inner(q)}
  BY DEF Serve
<1>3. \A x \in req : x = q
  BY DEF IInv, AtMostOne
<1>4. ResponseInv'
  <2>1. serve_inner(q)' = serve_inner(q)
    BY <1>1, SameAnswer
  <2> QED BY <1>1, <1>2, <1>3, <2>1, Zenon DEF ResponseInv
<1>5. TypeOK'
  <2>1. q.range \in RangeHeaders /\ q.if_range \in RangeConditions
    BY DEF IInv, RequestInv
  <2>2. Explains(serve_inner(q), q)
    BY <2>1, ServeExplains
  <2>3. \A p \in resp' :
          /\ p.status \in Statuses
          /\ p.etag \subseteq (IF p.status \in {400, 405, 413} THEN {} ELSE Tags)
          /\ p.date \subseteq (IF p.status \in {400, 405, 413} THEN {} ELSE 0 .. MaxTime)
          /\ p.headers \in (IF p.status \in {200, 206} THEN BOOLEAN ELSE {FALSE})
    BY <1>2, <2>2, AnswerTyped DEF IInv
  <2> QED BY <1>1, <2>3 DEF IInv, TypeOK
<1>6. AtMostOne(resp)'
  BY <1>2 DEF AtMostOne
<1>7. AtMostOne(cache)' /\ AtMostOne(req)'
  BY <1>1 DEF IInv, AtMostOne
<1>8. CacheInv'
  BY <1>1 DEF IInv, CacheInv, Etag, Tag
<1>9. RequestInv'
  BY <1>1, SameHeaders DEF IInv, RequestInv
<1> QED BY <1>4, <1>5, <1>6, <1>7, <1>8, <1>9 DEF IInv

(* The client keeps a body with its validators and entity headers, or      *)
(* continues the copy that it has.                                         *)
LEMMA ReceiveIInv ==
  ASSUME IInv, Receive
  PROVE  IInv'
<1> USE ServeAssumption
<1>1. req' = {} /\ resp' = {} /\ UNCHANGED <<kind, dated, version, mtime, clock>>
  BY DEF Receive, entity
<1>2. CASE cache' = cache
  <2>1. TypeOK' /\ AtMostOne(cache)'
    BY <1>1, <1>2 DEF IInv, TypeOK, AtMostOne
  <2>2. CacheInv'
    BY <1>1, <1>2 DEF IInv, CacheInv, Etag, Tag
  <2> QED BY <1>1, <2>1, <2>2 DEF IInv, AtMostOne, RequestInv, ResponseInv
<1>3. CASE cache' # cache
  <2>1. PICK p \in resp, q \in req : q.method = "GET" /\ Kept(q, p)
    BY <1>3 DEF Receive
  <2>2. cache' = {[version |-> x.version, etag |-> x.etag, date |-> x.date,
                 headers |-> x.headers] : x \in resp}
    BY <1>3 DEF Receive
  <2>3. \A x \in resp : x = p
    BY DEF IInv, AtMostOne
  <2>4. Explains(p, q)
    <3>1. p = serve_inner(q) /\ q.range \in RangeHeaders /\ q.if_range \in RangeConditions
      BY DEF IInv, ResponseInv, RequestInv
    <3> QED BY <3>1, ServeExplains
  <2>5. p.version = version /\ p.etag = Etag(version) /\ p.date = Dates /\ p.headers = TRUE
    BY <2>1, <2>4 DEF Explains, Kept
  <2>6. \A c \in cache' : c = [version |-> version, etag |-> Etag(version), date |-> Dates, headers |-> TRUE]
    BY <2>2, <2>3, <2>5
  <2>7. version \in 0 .. MaxVersion /\ version \in 0 .. version /\ ~(version < version)
    BY DEF IInv, TypeOK
  <2>8. Etag(version) \subseteq Tags
    BY <2>7, TagFields DEF Etag
  <2>9. \A d \in Dates : d \in 0 .. MaxTime /\ d <= mtime /\ dated
    BY DateBounds DEF IInv
  <2>10. AtMostOne(cache)'
    BY <2>6 DEF AtMostOne
  <2>11. TypeOK'
    BY <1>1, <2>6, <2>7, <2>8, <2>9 DEF IInv, TypeOK
  <2>12. CacheInv'
    <3> SUFFICES ASSUME NEW c \in cache'
                 PROVE  /\ c.version \in 0 .. version' /\ c.etag = Etag(c.version)' /\ c.headers = TRUE
                        /\ \A d \in c.date : dated' /\ d <= mtime' /\ (c.version < version' => d < mtime')
      BY DEF CacheInv
    <3>1. c.version = version /\ c.etag = Etag(version) /\ c.date = Dates /\ c.headers = TRUE
      BY <2>6
    <3>2. Etag(c.version)' = Etag(version)
      BY <1>1, <3>1 DEF Etag, Tag
    <3> QED BY <1>1, <2>7, <2>9, <3>1, <3>2
  <2> QED BY <1>1, <2>10, <2>11, <2>12 DEF IInv, AtMostOne, RequestInv, ResponseInv
<1> QED BY <1>2, <1>3

(* The entity changes, with a later time, or time passes.                  *)
LEMMA ModifyIInv ==
  ASSUME IInv, Modify \/ Tick
  PROVE  IInv'
<1> USE ServeAssumption
<1>1. resp = {} /\ UNCHANGED <<kind, dated, cache, req, resp>>
  BY DEF Modify, Tick, entity
<1>2. /\ version \in 0 .. MaxVersion /\ mtime \in 0 .. MaxTime /\ clock \in 0 .. MaxTime
  BY DEF IInv, TypeOK
<1>3. /\ version' \in 0 .. MaxVersion /\ mtime' \in 0 .. MaxTime /\ clock' \in 0 .. MaxTime
      /\ version <= version' /\ mtime <= mtime'
      /\ version' # version /\ dated => mtime < mtime'
  BY <1>2 DEF Modify, Tick, entity
<1>4. TypeOK'
  BY <1>1, <1>3 DEF IInv, TypeOK
<1>5. CacheInv'
  <2> SUFFICES ASSUME NEW c \in cache
               PROVE  /\ c.version \in 0 .. version' /\ c.etag = Etag(c.version)' /\ c.headers = TRUE
                      /\ \A d \in c.date : dated /\ d <= mtime' /\ (c.version < version' => d < mtime')
    BY <1>1 DEF CacheInv
  <2>1. /\ c.version \in 0 .. version /\ c.etag = Etag(c.version)
        /\ \A d \in c.date : dated /\ d <= mtime /\ (c.version < version => d < mtime)
        /\ c.date \subseteq 0 .. MaxTime /\ c.headers = TRUE
    BY DEF IInv, CacheInv, TypeOK
  <2>2. Etag(c.version)' = Etag(c.version)
    BY <1>1 DEF Etag, Tag
  <2>3. c.version \in 0 .. version'
    BY <1>2, <1>3, <2>1
  <2>4. ASSUME NEW d \in c.date
        PROVE  dated /\ d <= mtime' /\ (c.version < version' => d < mtime')
    <3>1. d \in Nat /\ d <= mtime /\ (c.version < version => d < mtime) /\ dated
      BY <2>1
    <3> QED BY <1>2, <1>3, <2>1, <3>1
  <2> QED BY <2>1, <2>2, <2>3, <2>4
<1>6. RequestInv'
  BY <1>1, SameHeaders DEF IInv, RequestInv
<1>7. ResponseInv'
  BY <1>1 DEF ResponseInv
<1>8. AtMostOne(cache)' /\ AtMostOne(req)' /\ AtMostOne(resp)'
  BY <1>1 DEF IInv, AtMostOne
<1> QED BY <1>4, <1>5, <1>6, <1>7, <1>8 DEF IInv

(* Nothing happens.                                                        *)
LEMMA StutterIInv ==
  ASSUME IInv, UNCHANGED vars
  PROVE  IInv'
<1>1. UNCHANGED <<kind, dated, version, mtime, clock, cache, req, resp>> /\ UNCHANGED <<entity, clock>>
  BY DEF vars, entity
<1>2. TypeOK' /\ AtMostOne(cache)' /\ AtMostOne(req)' /\ AtMostOne(resp)'
  BY <1>1 DEF IInv, TypeOK, AtMostOne
<1>3. CacheInv'
  BY <1>1 DEF IInv, CacheInv, Etag, Tag
<1>4. RequestInv'
  BY <1>1, SameHeaders DEF IInv, RequestInv
<1>5. ResponseInv'
  <2>1. \A q \in req : serve_inner(q)' = serve_inner(q)
    BY <1>1, SameAnswer, Zenon
  <2> QED BY <1>1, <2>1, Zenon DEF IInv, ResponseInv
<1> QED BY <1>2, <1>3, <1>4, <1>5 DEF IInv

(* Every step keeps the invariant.                                         *)
LEMMA NextIInv == IInv /\ [Next]_vars => IInv'
BY RequestIInv, ServeIInv, ReceiveIInv, ModifyIInv, StutterIInv DEF Next

(* The inductive invariant of client, server and entity.                   *)
THEOREM ServeInvariant == Spec => []IInv
BY InitIInv, NextIInv, PTL DEF Spec
-----------------------------------------------------------------------------
(***************************************************************************)
(* What the invariant gives                                                *)
(***************************************************************************)

(* Every part keeps its type, and an answer that is not about the entity   *)
(* has none of its validators.                                             *)
THEOREM ServeTypeCorrect == Spec => []TypeOK
BY ServeInvariant, PTL DEF IInv

(* The facts every property starts from.                                   *)
LEMMA Answered ==
  ASSUME IInv, NEW q \in req, NEW p \in resp
  PROVE  Explains(p, q)
<1>1. p = serve_inner(q) /\ q.range \in RangeHeaders /\ q.if_range \in RangeConditions
  BY DEF IInv, ResponseInv, RequestInv
<1> QED BY <1>1, ServeExplains

(* A client that is told 304 has a good copy, by tag or by date.           *)
THEOREM NotModifiedIsTrue == Spec => []NotModifiedIsFresh
<1>1. IInv => NotModifiedIsFresh
  <2> SUFFICES ASSUME IInv, NEW q \in req, NEW p \in resp, p.status = 304, q.if_none_match # {Star}
               PROVE  \/ Holds(p)
                      \/ kind = "weak" /\ \E c \in cache : Meaning(c.version) = Meaning(p.version)
    BY DEF NotModifiedIsFresh
  <2>1. not_modified(q) = "yes" /\ p.version = version
    <3>1. Explains(p, q)
      BY Answered
    <3> QED BY <3>1 DEF Explains
  <2> QED BY <2>1, NotModifiedHolds DEF Holds
<1> QED BY <1>1, ServeInvariant, PTL

(* An If-Range that holds names the version the client has.                *)
LEMMA ResumesHolds ==
  ASSUME IInv, NEW q \in req, Resumes(q)
  PROVE  \E c \in cache : c.version = version
<1>1. PICK c \in q.if_range : \E t \in c.tag, e \in Etag(version) : strong_eq(t, e)
  BY DEF Resumes
<1>2. q.if_range \in RangeConditions
  BY DEF IInv, RequestInv
<1>3. \A t \in c.tag : t = Other \/ t \in Cached("etag")
  BY <1>1, <1>2 DEF RangeConditions
<1> QED BY <1>1, <1>3, StrongTag

(* A partial body in answer to If-Range is of the version the client has.  *)
THEOREM ResumeIsOfOneVersion == Spec => []ResumeIsSafe
<1>1. IInv => ResumeIsSafe
  <2> SUFFICES ASSUME IInv, NEW q \in req, NEW p \in resp, p.status = 206, q.if_range # {}
               PROVE  Holds(p)
    BY DEF ResumeIsSafe
  <2>1. Resumes(q) /\ p.version = version
    <3>1. Explains(p, q)
      BY Answered
    <3> QED BY <3>1 DEF Explains
  <2> QED BY <2>1, ResumesHolds DEF Holds
<1> QED BY <1>1, ServeInvariant, PTL

(* If-Match and If-Unmodified-Since keep a request for another version     *)
(* from being answered with the entity.                                    *)
THEOREM PreconditionsHold == Spec => []PreconditionsGuard
<1>1. IInv => PreconditionsGuard
  <2> SUFFICES ASSUME IInv, NEW q \in req, NEW p \in resp, p.status \in {200, 206}
               PROVE  /\ q.if_match \notin {{}, {Star}} => Holds(p)
                      /\ q.if_unmodified_since # {} /\ dated => Holds(p)
    BY DEF PreconditionsGuard
  <2>1. precondition_failed(q) = "no" /\ p.version = version
    <3>1. Explains(p, q)
      BY Answered
    <3> QED BY <3>1 DEF Explains
  <2> QED BY <2>1, MatchHolds, UnmodifiedHolds DEF Holds
<1> QED BY <1>1, ServeInvariant, PTL

(* A client that keeps the version of a response has the entity's own tag  *)
(* and is answered about the entity.                                       *)
LEMMA HeldIsCurrent ==
  ASSUME IInv, NEW q \in req, NEW p \in resp, Holds(p)
  PROVE  p.version = version /\ \A t \in Cached("etag") : t \in Etag(version)
<1>1. PICK c \in cache : c.version = p.version
  BY DEF Holds
<1>2. c.version # -1 /\ \A x \in cache : x = c
  BY <1>1 DEF IInv, CacheInv, AtMostOne
<1>3. p.version = version
  <2>1. Explains(p, q)
    BY Answered
  <2> QED BY <1>1, <1>2, <2>1 DEF Explains, Statuses
<1>4. c.etag = Etag(version)
  BY <1>1, <1>3 DEF IInv, CacheInv
<1> QED BY <1>2, <1>3, <1>4 DEF Cached

(* Without If-Match, a date that is the entity's own does not fail.        *)
LEMMA OwnDatePasses ==
  ASSUME IInv, NEW q \in req, q.if_match = {},
         q.if_unmodified_since = {} \/ q.if_unmodified_since = LastModified
  PROVE  precondition_failed(q) = "no"
<1>1. any_match(Etag(version), q.if_match) = "yes"
  BY DEF any_match
<1>2. mtime \in Nat
  BY ServeAssumption DEF IInv, TypeOK
<1>3. LastModified = {} \/ LastModified = {mtime}
  BY DEF LastModified
<1>4. q.if_unmodified_since # {NoDate}
  BY <1>2, <1>3 DEF NoDate
<1>5. ~\E m \in LastModified, d \in q.if_unmodified_since : m > d
  BY <1>2, <1>3
<1> QED BY <1>1, <1>4, <1>5 DEF precondition_failed

(* A list with the entity's tag, parsed to its end, says not modified.     *)
LEMMA OwnTagMatches ==
  ASSUME IInv, NEW q \in req, NEW l \in q.if_none_match, ~Corrupt(l),
         NEW t \in Items(l), t \in Etag(version)
  PROVE  not_modified(q) = "yes"
<1>1. q.if_none_match \in TagHeaders
  BY DEF IInv, RequestInv
<1>2. q.if_none_match = {l}
  BY <1>1 DEF TagHeaders
<1>3. \E i \in Items(l), e \in Etag(version) : weak_eq(i, e)
  BY DEF weak_eq
<1>4. none_match(Etag(version), q.if_none_match) = {FALSE}
  <2>1. CASE q.if_none_match = {Star}
    BY <2>1, Zenon DEF none_match
  <2>2. CASE q.if_none_match # {Star}
    <3>1. none_match(Etag(version), q.if_none_match)
            = {~\E i \in Items(x), e \in Etag(version) : weak_eq(i, e) :
                 x \in {x \in q.if_none_match : Etag(version) # {} => ~Corrupt(x)}}
      BY <2>2, <1>2, Zenon DEF none_match
    <3>2. {x \in q.if_none_match : Etag(version) # {} => ~Corrupt(x)} = {l}
      BY <1>2
    <3> QED BY <1>3, <3>1, <3>2, Zenon
  <2> QED BY <2>1, <2>2
<1> QED BY <1>4, Zenon DEF not_modified

(* A client with the current version is told so, by tag and by exact date. *)
THEOREM RevalidationSucceeds == Spec => []RevalidationWorks
<1>1. IInv => RevalidationWorks
  <2> SUFFICES ASSUME IInv, NEW q \in req, NEW p \in resp,
                      q.method # "POST", Holds(p), q.if_match = {}
               PROVE  /\ /\ q.if_unmodified_since = {}
                         /\ \E l \in q.if_none_match : ~Corrupt(l) /\ Items(l) \cap Cached("etag") # {}
                         => p.status = 304
                      /\ /\ q.if_unmodified_since = {} /\ q.if_none_match = {}
                         /\ q.if_modified_since = LastModified /\ LastModified # {}
                         => p.status = 304
                      /\ q.if_unmodified_since = LastModified => p.status # 412
    BY DEF RevalidationWorks
  <2>1. q.method \in {"GET", "HEAD"}
    BY DEF IInv, RequestInv
  <2>2. /\ p.status = 412 => precondition_failed(q) = "yes"
        /\ precondition_failed(q) = "no" /\ not_modified(q) = "yes" => p.status = 304
    <3>1. Explains(p, q)
      BY Answered
    <3> QED BY <2>1, <3>1 DEF Explains
  <2>3. ASSUME q.if_unmodified_since = {}, NEW l \in q.if_none_match, ~Corrupt(l),
               Items(l) \cap Cached("etag") # {}
        PROVE  p.status = 304
    <3>1. PICK t \in Items(l) : t \in Cached("etag")
      BY <2>3
    <3>2. t \in Etag(version)
      BY <3>1, HeldIsCurrent
    <3>3. not_modified(q) = "yes"
      BY <2>3, <3>1, <3>2, OwnTagMatches
    <3>4. precondition_failed(q) = "no"
      BY <2>3, OwnDatePasses
    <3> QED BY <2>2, <3>3, <3>4
  <2>4. ASSUME q.if_unmodified_since = {}, q.if_none_match = {},
               q.if_modified_since = LastModified, LastModified # {}
        PROVE  p.status = 304
    <3>1. LastModified = {mtime} /\ mtime \in Nat
      BY <2>4, ServeAssumption DEF LastModified, IInv, TypeOK
    <3>2. none_match(Etag(version), q.if_none_match) = {}
      BY <2>4, Zenon DEF none_match
    <3>3. q.if_modified_since # {NoDate} /\ \E m \in LastModified, d \in q.if_modified_since : m <= d
      BY <2>4, <3>1 DEF NoDate
    <3>4. not_modified(q) = "yes"
      <4>1. {} # {TRUE} /\ {} # {FALSE}
        OBVIOUS
      <4> QED BY <2>4, <3>2, <3>3, <4>1, Zenon DEF not_modified
    <3>5. precondition_failed(q) = "no"
      BY <2>4, OwnDatePasses
    <3> QED BY <2>2, <3>4, <3>5
  <2>5. q.if_unmodified_since = LastModified => p.status # 412
    BY <2>2, OwnDatePasses
  <2> QED BY <2>3, <2>4, <2>5, Zenon
<1> QED BY <1>1, ServeInvariant, PTL

(* A client has the entity headers of its copy, and a part without them is *)
(* only sent to one that keeps the version the part is of.                 *)
THEOREM HeadersStayWithCopy == Spec => []HeadersKept
<1>1. IInv => HeadersKept
  <2>1. ASSUME IInv, NEW c \in cache
        PROVE  c.headers
    BY <2>1 DEF IInv, CacheInv
  <2>2. ASSUME IInv, NEW q \in req, NEW p \in resp,
               q.method = "GET", p.status \in {200, 206}, ~p.headers
        PROVE  p.status = 206 /\ \E c \in cache : c.version = p.version /\ c.headers
    <3>1. p.status = 206 /\ Resumes(q) /\ p.version = version
      <4>1. Explains(p, q)
        BY <2>2, Answered
      <4> QED BY <2>2, <4>1 DEF Explains
    <3>2. PICK c \in cache : c.version = version
      BY <2>2, <3>1, ResumesHolds
    <3> QED BY <2>1, <2>2, <3>1, <3>2
  <2> QED BY <2>1, <2>2 DEF HeadersKept
<1> QED BY <1>1, ServeInvariant, PTL
=============================================================================
