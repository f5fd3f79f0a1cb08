--------------------------- MODULE AcceptEncoding ---------------------------
(***************************************************************************)
(* should_gzip and parse_qvalue of src/src/lib.rs.                         *)
(*                                                                         *)
(* An Accept-Encoding header is an Option of the parts between its commas. *)
(* A part has a coding and a weight: <<>> without one, else the digits of  *)
(* its qvalue, the first of them before the point.                         *)
(***************************************************************************)
EXTENDS Integers, Sequences

CONSTANTS
  Weights,        \* the weights a client writes
  MaxSpecs        \* bound: parts in a header

Codings == {"gzip", "identity", "*", "br"}
Plus == 10        \* not a digit, but u16::from_str lets a number begin with it
Junk == 11        \* neither

ASSUME EncodingAssumption == Weights \subseteq Seq(0 .. Junk) /\ MaxSpecs \in Nat

Parts == [coding : Codings, weight : Weights]

(* headers.get is None, or a value; one that is not ASCII is as good as    *)
(* absent.                                                                 *)
Headers == {{}} \cup UNION {{{h} : h \in [1 .. n -> Parts]} : n \in 1 .. MaxSpecs}

Digit(s, i) == IF i <= Len(s) /\ s[i] # Plus THEN s[i] ELSE 0
IsFraction(s) ==
  \A i \in 2 .. Len(s) : s[i] \in 0 .. 9 \/ (s[i] = Plus /\ i = 2 /\ Len(s) > 2)

(* Thousandths, or None for what is not a qvalue.                          *)
parse_qvalue(s) ==
  CASE Len(s) <= 4 /\ s[1] = 1 /\ (\A i \in 2 .. Len(s) : s[i] = 0) -> {1000}
    [] Len(s) <= 4 /\ s[1] = 0 /\ IsFraction(s) ->
         {100 * Digit(s, 2) + 10 * Digit(s, 3) + Digit(s, 4)}
    [] OTHER -> {}

Quality(part) == IF part.weight = <<>> THEN {1000} ELSE parse_qvalue(part.weight)

(* What the loop leaves in gzip_q, identity_q or star_q: the last one.     *)
LastQuality(h, coding) ==
  UNION {Quality(h[i]) : i \in {j \in 1 .. Len(h) : h[j].coding = coding
                                  /\ \A k \in j + 1 .. Len(h) : h[k].coding # coding}}

Or(a, b) == IF a # {} THEN a ELSE b
UnwrapOr(a, default) == CHOOSE q \in Or(a, {default}) : TRUE

(* Mutant: the weights are not compared.                                   *)
should_gzipMutant(header) ==
  \E h \in header :
    /\ \A i \in 1 .. Len(h) : Quality(h[i]) # {}
    /\ UnwrapOr(Or(LastQuality(h, "gzip"), LastQuality(h, "*")), 0) > 0

should_gzip(header) ==
  \E h \in header :
    /\ \A i \in 1 .. Len(h) : Quality(h[i]) # {}
    /\ LET star_q == LastQuality(h, "*")
           gzip_q == UnwrapOr(Or(LastQuality(h, "gzip"), star_q), 0)
           identity_q == UnwrapOr(Or(LastQuality(h, "identity"), star_q), 1)
       IN gzip_q > 0 /\ gzip_q >= identity_q
-----------------------------------------------------------------------------
(***************************************************************************)
(* RFC 7231 section 5.3.4, which should_gzip's comment refers to           *)
(***************************************************************************)
(* The position that speaks for a coding: the last that names it, or, if   *)
(* none does, the last asterisk.                                           *)
SpeaksFor(h, coding, i) ==
  \/ h[i].coding = coding /\ \A k \in i + 1 .. Len(h) : h[k].coding # coding
  \/ /\ h[i].coding = "*" /\ \A k \in i + 1 .. Len(h) : h[k].coding # "*"
     /\ \A k \in 1 .. Len(h) : h[k].coding # coding

(* A client gets gzip if it says so with a weight that is not zero, and    *)
(* does not prefer identity, which it accepts as the last resort without   *)
(* saying so.                                                              *)
GzipPreferred(header) ==
  \E h \in header : \E i \in 1 .. Len(h) :
    /\ \A k \in 1 .. Len(h) : Quality(h[k]) # {}
    /\ SpeaksFor(h, "gzip", i)
    /\ \E q \in Quality(h[i]) :
         /\ q # 0
         /\ \A k \in 1 .. Len(h) : SpeaksFor(h, "identity", k) => \A p \in Quality(h[k]) : p <= q
=============================================================================
