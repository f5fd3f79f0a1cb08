------------------------------- MODULE Serve -------------------------------
(***************************************************************************)
(* Conditional and range requests: serve and serve_inner up to the         *)
(* resolved ranges, parse_modified_hdrs (src/src/serving.rs) and the       *)
(* comparisons of entity tags (src/src/etag.rs), used by a client that     *)
(* keeps the validators of an earlier response while the entity changes.   *)
(*                                                                         *)
(* An Option is a set of at most one value.  Times are in half seconds,    *)
(* dates in headers in whole ones.  What range::parse and the length of    *)
(* a multipart body make of a Range header is the request's range, see     *)
(* Range and RangeBody.                                                    *)
(***************************************************************************)
EXTENDS Integers, Sequences

CONSTANTS
  MaxVersion,     \* bound: how often the entity changes
  MaxTime         \* bound: half seconds that pass

ASSUME ServeAssumption == MaxVersion \in Nat /\ MaxTime \in Nat

VARIABLES
  kind,           \* the entity's tags: "none", "weak" or "strong"
  dated,          \* the entity has a last_modified
  version,        \* which bytes the entity has
  mtime,          \* when it got them
  clock,          \* SystemTime::now()
  cache,          \* Option of the copy that the client keeps
  req,            \* Option of the request being served
  resp            \* Option of the response to it

entity == <<kind, dated, version, mtime>>
vars == <<entity, clock, cache, req, resp>>

(* Versions that a weak tag does not tell apart.                           *)
Meaning(v) == (v + 1) \div 2

(* ent.etag() and ent.last_modified(): a strong tag changes with every     *)
(* version, a weak one with the meaning, and the time grows (external).    *)
Tag(v) == [weak |-> kind = "weak", op |-> IF kind = "weak" THEN Meaning(v) ELSE v]
Etag(v) == IF kind = "none" THEN {} ELSE {Tag(v)}
LastModified == IF dated THEN {mtime} ELSE {}

(* fmt_http_date drops the fraction of the second.                         *)
HttpDate(t) == (t \div 2) * 2
-----------------------------------------------------------------------------
(***************************************************************************)
(* Requests (the client is external)                                       *)
(***************************************************************************)
Other == [weak |-> FALSE, op |-> MaxVersion + 1]   \* a tag of no version
Junk == [weak |-> FALSE, op |-> -1]                \* an element that is no tag
Star == <<[weak |-> FALSE, op |-> -2]>>            \* the header "*"
NoDate == -1                                       \* not a date

Cached(field) == UNION {c[field] : c \in cache}

(* If-Match, If-None-Match: absent, "*", or a list of tags and junk.       *)
TagHeaders ==
  {{}, {Star}, {<<Other>>}, {<<Junk>>}}
    \cup UNION {{{<<Other, t>>}, {<<t, Junk>>}} : t \in Cached("etag")}

(* If-Unmodified-Since, If-Modified-Since: absent, unparseable or a date.  *)
DateHeaders == {{}, {NoDate}} \cup {{d} : d \in Cached("date")}

(* If-Range: absent, a tag or a date.                                      *)
RangeConditions ==
  {{}} \cup {{[tag |-> {t}, date |-> {}]} : t \in Cached("etag") \cup {Other}}
       \cup {{[tag |-> {}, date |-> {d}]} : d \in Cached("date")}

RangeHeaders == {"none", "unsatisfiable", "single", "multipart", "whole", "too_large"}

Request ==
  /\ req = {}
  /\ \E m \in {"GET", "HEAD", "POST"}, im \in TagHeaders, inm \in TagHeaders, ius \in DateHeaders, ims \in DateHeaders,
        ir \in RangeConditions, r \in RangeHeaders :
       req' = {[method |-> m, if_match |-> im, if_none_match |-> inm,
                if_unmodified_since |-> ius, if_modified_since |-> ims,
                if_range |-> ir, range |-> r]}
  /\ UNCHANGED <<entity, clock, cache, resp>>
-----------------------------------------------------------------------------
(***************************************************************************)
(* etag.rs                                                                 *)
(***************************************************************************)
(* Mutant: strong comparison.                                              *)
weak_eqMutant(a, b) == a = b /\ ~a.weak

weak_eq(a, b) == a.op = b.op

(* Mutant: weak comparison.                                                *)
strong_eqMutant(a, b) == a.op = b.op

strong_eq(a, b) == a = b /\ ~a.weak

(* List: the tags before the first element that is none, and whether there *)
(* is such an element.                                                     *)
Items(l) == {l[i] : i \in {j \in 1 .. Len(l) : \A k \in 1 .. j : l[k] # Junk}}
Corrupt(l) == \E i \in 1 .. Len(l) : l[i] = Junk

(* None is {}: the header is absent or ignored.                            *)
none_match(etag, header) ==
  CASE header = {} -> {}
    [] header = {Star} -> {FALSE}
    [] OTHER -> {~\E i \in Items(l), e \in etag : weak_eq(i, e) :
                   l \in {l \in header : etag # {} => ~Corrupt(l)}}

(* Mutant: a list that is not parsed to its end is taken as it is.         *)
any_matchMutant(etag, header) ==
  IF \/ header \in {{}, {Star}}
     \/ \E l \in header, e \in etag : Corrupt(l) \/ \E i \in Items(l) : strong_eq(i, e)
  THEN "yes" ELSE "no"

any_match(etag, header) ==
  CASE header \in {{}, {Star}} -> "yes"
    [] header \notin {{}, {Star}} /\ etag # {} /\ \E l \in header : Corrupt(l) -> "error"
    [] OTHER -> IF \E l \in header, e \in etag : \E i \in Items(l) : strong_eq(i, e)
                THEN "yes" ELSE "no"
-----------------------------------------------------------------------------
(***************************************************************************)
(* serving.rs                                                              *)
(***************************************************************************)
(* parse_modified_hdrs, its two results and its errors.                    *)
precondition_failed(q) ==
  LET match == any_match(Etag(version), q.if_match)
      since == IF LastModified = {} THEN {} ELSE q.if_unmodified_since
  IN CASE match = "error" -> "error"
       [] match = "no" -> "yes"
       [] match = "yes" /\ since = {NoDate} -> "error"
       [] OTHER -> IF \E m \in LastModified, d \in since : m > d THEN "yes" ELSE "no"

(* Mutant: both dates are compared in whole seconds.                       *)
not_modifiedMutant(q) ==
  LET none == none_match(Etag(version), q.if_none_match)
      since == IF LastModified = {} THEN {} ELSE q.if_modified_since
  IN CASE none = {TRUE} -> "no"
       [] none = {FALSE} -> "yes"
       [] none = {} /\ since = {NoDate} -> "error"
       [] OTHER -> IF \E m \in LastModified, d \in since : HttpDate(m) <= d THEN "yes" ELSE "no"

not_modified(q) ==
  LET none == none_match(Etag(version), q.if_none_match)
      since == IF LastModified = {} THEN {} ELSE q.if_modified_since
  IN CASE none = {TRUE} -> "no"
       [] none = {FALSE} -> "yes"
       [] none = {} /\ since = {NoDate} -> "error"
       [] OTHER -> IF \E m \in LastModified, d \in since : m <= d THEN "yes" ELSE "no"

(* The match on If-Range: the Range header that is left of the request's,  *)
(* and include_entity_headers_on_range.                                    *)
if_range(q) ==
  CASE \E c \in q.if_range : \E s \in c.tag, e \in Etag(version) : strong_eq(s, e) ->
         [range |-> q.range, headers |-> FALSE]
    [] \E c \in q.if_range : \E s \in c.tag : ~\E e \in Etag(version) : strong_eq(s, e) ->
         [range |-> "none", headers |-> TRUE]
    [] \E c \in q.if_range : c.date # {} -> [range |-> "none", headers |-> TRUE]
    [] q.if_range = {} -> [range |-> q.range, headers |-> TRUE]

(* A response that is not about the entity.                                *)
Bare(status) == [status |-> status, headers |-> FALSE, version |-> -1, etag |-> {}, date |-> {}]

(* One with the entity's validators, and entity headers in it or its parts *)
Response(status, headers) ==
  [status |-> status, headers |-> headers, version |-> version, etag |-> Etag(version),
   date |-> {HttpDate(IF m <= clock THEN m ELSE clock) : m \in LastModified}]

(* Mutant: 413 is built on the response that was begun for the entity.     *)
DeliverMutantBegun(method, r) ==
  CASE r.range = "none" -> Response(200, TRUE)
    [] r.range = "single" -> Response(206, r.headers)
    [] r.range = "multipart" -> Response(206, r.headers /\ method # "HEAD")
    [] r.range = "too_large" -> Response(413, FALSE)
    [] r.range = "whole" -> Response(200, TRUE)
    [] r.range = "unsatisfiable" -> Response(416, FALSE)

(* Mutant: the fallback leaves the headers as If-Range had them.           *)
DeliverMutantFallback(method, r) ==
  CASE r.range = "none" -> Response(200, TRUE)
    [] r.range = "single" -> Response(206, r.headers)
    [] r.range = "multipart" -> Response(206, r.headers /\ method # "HEAD")
    [] r.range = "too_large" -> Bare(413)
    [] r.range = "whole" -> Response(200, r.headers)
    [] r.range = "unsatisfiable" -> Response(416, FALSE)

(* The request is good and is to be answered with the entity: the match on *)
(* range::parse.  In a multipart response the headers are in the parts,    *)
(* which an answer to HEAD does not have.                                  *)
Deliver(method, r) ==
  CASE r.range = "none" -> Response(200, TRUE)
    [] r.range = "single" -> Response(206, r.headers)
    [] r.range = "multipart" -> Response(206, r.headers /\ method # "HEAD")
    [] r.range = "too_large" -> Bare(413)
    [] r.range = "whole" -> Response(200, TRUE)
    [] r.range = "unsatisfiable" -> Response(416, FALSE)

serve_inner(q) ==
  LET failed == precondition_failed(q)
      unmodified == not_modified(q)
  IN CASE q.method \notin {"GET", "HEAD"} -> Bare(405)
       [] q.method \in {"GET", "HEAD"} /\ "error" \in {failed, unmodified} -> Bare(400)
       [] OTHER -> CASE failed = "yes" -> Response(412, FALSE)
                     [] failed = "no" /\ unmodified = "yes" -> Response(304, FALSE)
                     [] OTHER -> Deliver(q.method, if_range(q))

Serve ==
  /\ resp = {} /\ \E q \in req : resp' = {serve_inner(q)}
  /\ UNCHANGED <<entity, clock, cache, req>>
-----------------------------------------------------------------------------
(***************************************************************************)
(* The client, the entity and time (external)                              *)
(***************************************************************************)
Init ==
  /\ kind \in {"none", "weak", "strong"} /\ dated \in BOOLEAN
  /\ version = 0 /\ mtime = 0 /\ clock = 0
  /\ cache = {} /\ req = {} /\ resp = {}

(* What the client has now: a complete body replaces its copy, and so does *)
(* a partial one that it did not ask for with If-Range; one that it did    *)
(* continues the copy, whose validators and entity headers stay.           *)
Kept(q, p) == p.status = 200 \/ (p.status = 206 /\ q.if_range = {})

Receive ==
  /\ resp # {}
  /\ cache' = IF \E p \in resp, q \in req : q.method = "GET" /\ Kept(q, p)
              THEN {[version |-> p.version, etag |-> p.etag, date |-> p.date, headers |-> p.headers] : p \in resp}
              ELSE cache
  /\ req' = {} /\ resp' = {}
  /\ UNCHANGED <<entity, clock>>

(* A new version, with a later time that may be ahead of the clock.  Once  *)
(* the response is made it does not matter to it.                          *)
Modify ==
  /\ resp = {} /\ version < MaxVersion /\ version' = version + 1
  /\ mtime' \in IF dated THEN mtime + 1 .. MaxTime ELSE {mtime}
  /\ UNCHANGED <<kind, dated, clock, cache, req, resp>>

Tick ==
  /\ resp = {} /\ clock < MaxTime /\ clock' = clock + 1
  /\ UNCHANGED <<entity, cache, req, resp>>

Next == Request \/ Serve \/ Receive \/ Modify \/ Tick

Spec == Init /\ [][Next]_vars
-----------------------------------------------------------------------------
(***************************************************************************)
(* Properties                                                              *)
(***************************************************************************)
Statuses == {200, 206, 304, 400, 405, 412, 413, 416}
Tags == [weak : BOOLEAN, op : 0 .. MaxVersion]

(* Every part has its type: an answer that is not about the entity has     *)
(* none of its validators, and one that sends nothing of it none of its    *)
(* headers.                                                                *)
TypeOK ==
  /\ kind \in {"none", "weak", "strong"} /\ dated \in BOOLEAN
  /\ version \in 0 .. MaxVersion /\ mtime \in 0 .. MaxTime /\ clock \in 0 .. MaxTime
  /\ \A c \in cache : c.version \in 0 .. MaxVersion /\ c.etag \subseteq Tags /\ c.date \subseteq 0 .. MaxTime
  /\ \A p \in resp :
       /\ p.status \in Statuses
       /\ p.etag \subseteq (IF p.status \in {400, 405, 413} THEN {} ELSE Tags)
       /\ p.date \subseteq (IF p.status \in {400, 405, 413} THEN {} ELSE 0 .. MaxTime)
       /\ p.headers \in (IF p.status \in {200, 206} THEN BOOLEAN ELSE {FALSE})

(* The client keeps the version that the response is about.                *)
Holds(p) == \E c \in cache : c.version = p.version

(* 304 is only sent to a client whose copy is still good, by tag or by     *)
(* date, even if the entity changed within the second of its date: unless  *)
(* it asked with "*".                                                      *)
NotModifiedIsFresh ==
  \A q \in req, p \in resp :
    p.status = 304 /\ q.if_none_match # {Star} =>
      \/ Holds(p)
      \/ kind = "weak" /\ \E c \in cache : Meaning(c.version) = Meaning(p.version)

(* A client that asks for the rest of a body with If-Range never gets it   *)
(* from another version than the one it has the beginning of.              *)
ResumeIsSafe ==
  \A q \in req, p \in resp : p.status = 206 /\ q.if_range # {} => Holds(p)

(* With If-Match or If-Unmodified-Since taken from a response, the entity  *)
(* is only sent if it is still that version: a header that cannot be       *)
(* parsed, or no tag to compare with, never lets the request through.      *)
PreconditionsGuard ==
  \A q \in req, p \in resp :
    /\ p.status \in {200, 206} /\ q.if_match \notin {{}, {Star}} => Holds(p)
    /\ p.status \in {200, 206} /\ q.if_unmodified_since # {} /\ dated => Holds(p)

(* A client with the current version and its tag, weak or strong, is told  *)
(* so instead of getting the body again; so is one that echoes the date it *)
(* was sent, and its If-Unmodified-Since holds, as long as that date is    *)
(* the exact time: Last-Modified is sent without the fraction of the       *)
(* second but compared with it, and sent clamped to the present.           *)
RevalidationWorks ==
  \A q \in req, p \in resp : q.method # "POST" /\ Holds(p) /\ q.if_match = {} =>
    /\ /\ q.if_unmodified_since = {}
       /\ \E l \in q.if_none_match : ~Corrupt(l) /\ Items(l) \cap Cached("etag") # {}
       => p.status = 304
    /\ /\ q.if_unmodified_since = {} /\ q.if_none_match = {}
       /\ q.if_modified_since = LastModified /\ LastModified # {}
       => p.status = 304
    /\ q.if_unmodified_since = LastModified => p.status # 412

(* The client always has the entity headers that belong to its copy, be it *)
(* from a body, from a part or continued part by part, whichever of        *)
(* If-Range, the tags and the length of the parts decided what it was      *)
(* sent; they are left out of a part only if the copy has them and is of   *)
(* the version that the part is of.                                        *)
HeadersKept ==
  /\ \A c \in cache : c.headers
  /\ \A q \in req, p \in resp :
       q.method = "GET" /\ p.status \in {200, 206} /\ ~p.headers =>
         p.status = 206 /\ \E c \in cache : c.version = p.version /\ c.headers
-----------------------------------------------------------------------------
(***************************************************************************)
(* The inductive invariant behind the properties                           *)
(***************************************************************************)
AtMostOne(option) == \A x, y \in option : x = y

(* The copy the client keeps has the validators of its version and entity  *)
(* headers, and its date is older than any later version.                  *)
CacheInv ==
  \A c \in cache :
    /\ c.version \in 0 .. version /\ c.etag = Etag(c.version) /\ c.headers = TRUE
    /\ \A d \in c.date : dated /\ d <= mtime /\ (c.version < version => d < mtime)

(* The client's validators are still those it made its request with.       *)
RequestInv ==
  \A q \in req :
    /\ q.method \in {"GET", "HEAD", "POST"} /\ q.range \in RangeHeaders
    /\ q.if_match \in TagHeaders /\ q.if_none_match \in TagHeaders
    /\ q.if_unmodified_since \in DateHeaders /\ q.if_modified_since \in DateHeaders
    /\ q.if_range \in RangeConditions

(* A response is what the entity's present state makes of the request.     *)
ResponseInv ==
  /\ resp # {} => req # {}
  /\ \A q \in req, p \in resp : p = serve_inner(q)

IInv ==
  /\ TypeOK /\ AtMostOne(cache) /\ AtMostOne(req) /\ AtMostOne(resp)
  /\ CacheInv /\ RequestInv /\ ResponseInv
=============================================================================
