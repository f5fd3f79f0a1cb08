------------------------------- MODULE Range -------------------------------
(***************************************************************************)
(* range::parse (src/src/range.rs): the Range header resolved against the  *)
(* length of the entity, one byte-range-spec per step.                     *)
(*                                                                         *)
(* A spec is what splitting and parsing it leaves: numbers that fit a u64, *)
(* or "bad" for text without a hyphen or with a number that is none or     *)
(* does not fit.                                                           *)
(***************************************************************************)
EXTENDS Integers, Sequences

CONSTANTS
  MaxLen,         \* bound: length of the entity
  MaxSpecs,       \* bound: specs in a header
  U64Max          \* u64::MAX

ASSUME RangeAssumption ==
  /\ MaxLen \in Nat /\ MaxSpecs \in Nat \ {0} /\ U64Max \in Nat \ {0}
  /\ MaxLen <= U64Max

VARIABLES
  checked,        \* overflow checks are compiled in
  len,            \* length of the entity
  bytes,          \* the header is there, is ASCII and begins with "bytes="
  specs,          \* its comma separated parts, at least one
  done,           \* how many of them the loop is through with
  ranges,         \* the half-open ranges pushed so far
  result          \* "parsing", then the ResolvedRanges or "panic"

vars == <<checked, len, bytes, specs, done, ranges, result>>

U64 == 0 .. U64Max
Bad == [kind |-> "bad", first |-> 0, last |-> 0]
Specs ==
  {Bad} \cup [kind : {"suffix"}, first : {0}, last : U64]   \* -last
        \cup [kind : {"from"}, first : U64, last : {0}]     \* first-
        \cup [kind : {"span"}, first : U64, last : U64]     \* first-last

Init ==
  /\ checked \in BOOLEAN /\ len \in 0 .. MaxLen
  /\ \/ bytes = TRUE /\ \E n \in 1 .. MaxSpecs : specs \in [1 .. n -> Specs]
     \/ bytes = FALSE /\ specs = <<Bad>>
  /\ done = 0 /\ ranges = <<>> /\ result = "parsing"

(* The ranges to push for a spec, with the end that it resolved to.        *)
Push(first, end) ==
  IF first >= end THEN <<>> ELSE <<[start |-> first, end |-> end]>>
Lesser(a, b) == IF a <= b THEN a ELSE b

(* Mutant: a suffix longer than the entity is not skipped.                 *)
ResolveMutantSuffix(s) ==
  CASE s.kind = "suffix" -> <<[start |-> len - s.last, end |-> len]>>
    [] s.kind = "from" -> Push(s.first, len)
    [] s.kind = "span" -> Push(s.first, Lesser((s.last + 1) % (U64Max + 1), len))

(* Mutant: the end is not clipped to the entity.                           *)
ResolveMutantUnclipped(s) ==
  CASE s.kind = "suffix" ->
         IF s.last >= len THEN <<>> ELSE <<[start |-> len - s.last, end |-> len]>>
    [] s.kind = "from" -> Push(s.first, len)
    [] s.kind = "span" -> Push(s.first, (s.last + 1) % (U64Max + 1))

(* Mutant: the closed interval of HTTP is taken for a half-open one.       *)
ResolveMutantClosed(s) ==
  CASE s.kind = "suffix" ->
         IF s.last >= len THEN <<>> ELSE <<[start |-> len - s.last, end |-> len]>>
    [] s.kind = "from" -> Push(s.first, len)
    [] s.kind = "span" -> Push(s.first, Lesser(s.last, len))

Resolve(s) ==
  CASE s.kind = "suffix" ->
         IF s.last >= len THEN <<>> ELSE <<[start |-> len - s.last, end |-> len]>>
    [] s.kind = "from" -> Push(s.first, len)
    [] s.kind = "span" -> Push(s.first, Lesser((s.last + 1) % (U64Max + 1), len))

(* No header, one that is not ASCII or one in another unit: ignored.       *)
Ignore ==
  /\ result = "parsing" /\ ~bytes
  /\ result' = "None"
  /\ UNCHANGED <<checked, len, bytes, specs, done, ranges>>

(* The loop is not through, and at this spec.                              *)
InLoop == result = "parsing" /\ bytes /\ done < Len(specs)
Current == specs[done + 1]

(* Mutant: an unparseable spec is skipped.                                 *)
UnparseableMutant ==
  /\ InLoop /\ Current = Bad
  /\ done' = done + 1
  /\ UNCHANGED <<checked, len, bytes, specs, ranges, result>>

(* One unparseable spec and the whole header is ignored.                   *)
Unparseable ==
  /\ InLoop /\ Current = Bad
  /\ result' = "None"
  /\ UNCHANGED <<checked, len, bytes, specs, done, ranges>>

(* last + 1 overflows.                                                     *)
Overflows(s) == s.kind = "span" /\ s.last = U64Max
Overflow ==
  /\ InLoop /\ Overflows(Current) /\ checked
  /\ result' = "panic"
  /\ UNCHANGED <<checked, len, bytes, specs, done, ranges>>

(* The spec is resolved, and pushed or skipped.                            *)
ParseSpec ==
  /\ InLoop /\ Current # Bad /\ ~(Overflows(Current) /\ checked)
  /\ ranges' = ranges \o Resolve(Current)
  /\ done' = done + 1
  /\ UNCHANGED <<checked, len, bytes, specs, result>>

Finish ==
  /\ result = "parsing" /\ bytes /\ done = Len(specs)
  /\ result' = IF ranges # <<>> THEN "Satisfiable" ELSE "NotSatisfiable"
  /\ UNCHANGED <<checked, len, bytes, specs, done, ranges>>

Next == Ignore \/ Unparseable \/ Overflow \/ ParseSpec \/ Finish

Spec == Init /\ [][Next]_vars
-----------------------------------------------------------------------------
(***************************************************************************)
(* Reference: the bytes that a spec asks for, RFC 7233 section 2.1         *)
(***************************************************************************)
Asked(s) ==
  CASE s.kind = "bad" -> {}
    [] s.kind = "suffix" -> {p \in 0 .. len - 1 : p >= len - s.last}
    [] s.kind = "from" -> {p \in 0 .. len - 1 : p >= s.first}
    [] s.kind = "span" -> {p \in 0 .. len - 1 : s.first <= p /\ p <= s.last}

BytesOf(r) == {p \in 0 .. len - 1 : r.start <= p /\ p < r.end}

(* Where the code departs from it: a suffix as long as the entity or       *)
(* longer is skipped, and last + 1 wraps.                                  *)
Departs(s) == (s.kind = "suffix" /\ s.last >= len) \/ Overflows(s)

(* Every field has its type; positions fit a u64.                          *)
TypeOK ==
  /\ checked \in BOOLEAN /\ len \in 0 .. MaxLen
  /\ bytes \in BOOLEAN /\ specs \in Seq(Specs)
  /\ done \in 0 .. Len(specs) /\ ranges \in Seq([start : U64, end : U64])
  /\ result \in {"parsing", "None", "Satisfiable", "NotSatisfiable", "panic"}

(* Every resolved range lies within the entity, as Entity::get_range, the  *)
(* subtractions end - start and end - 1 of serving.rs and the lengths of   *)
(* the response need.                                                      *)
InBounds ==
  \A k \in 1 .. Len(ranges) :
    ranges[k].start <= ranges[k].end /\ 0 < ranges[k].end /\ ranges[k].end <= len

(* Range k comes from spec source[k], and no spec is left out.             *)
Matches(source) ==
  /\ \A k, l \in DOMAIN source : k < l => source[k] < source[l]
  /\ \A k \in DOMAIN source :
       ~Departs(specs[source[k]]) /\ BytesOf(ranges[k]) = Asked(specs[source[k]])
  /\ \A j \in 1 .. done :
       Asked(specs[j]) # {} /\ ~Departs(specs[j]) => \E k \in DOMAIN source : source[k] = j

(* The ranges are, in the order of the header, exactly what the specs      *)
(* ask for, whatever other specs stand between them: none is lost, added,  *)
(* reordered or shifted by a byte (departures aside).                      *)
AskedInOrder == \E source \in [1 .. Len(ranges) -> 1 .. done] : Matches(source)

(* A header is honoured as a whole or not at all: no verdict on the ranges *)
(* while one of the specs is unparseable.                                  *)
AllOrNothing ==
  result \in {"Satisfiable", "NotSatisfiable"} =>
    /\ bytes /\ \A j \in 1 .. Len(specs) : specs[j] # Bad
    /\ (result = "Satisfiable") = (ranges # <<>>)

(* The inductive strengthening of AllOrNothing and InBounds.               *)
IInv ==
  /\ TypeOK /\ InBounds /\ AllOrNothing
  /\ \A j \in 1 .. done : specs[j] # Bad
-----------------------------------------------------------------------------
(* The comment on ResolvedRanges::NotSatisfiable: "A `Range:` header was   *)
(* supplied, but none of the ranges were possible to satisfy with the      *)
(* given entity length."                                                   *)
NoneWasSatisfiable ==
  result = "NotSatisfiable" => \A j \in 1 .. Len(specs) : Asked(specs[j]) = {}
=============================================================================
