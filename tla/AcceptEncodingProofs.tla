------------------------ MODULE AcceptEncodingProofs ------------------------
(***************************************************************************)
(* should_gzip against RFC 7231 section 5.3.4, for headers of any length   *)
(* and any weights.                                                        *)
(***************************************************************************)
EXTENDS AcceptEncoding, FiniteSetTheorems, TLAPS

(* Any part that splitting a header can leave.                             *)
AnyPart == [coding : Codings, weight : Seq(0 .. Junk)]

(* Indices that are not empty have a last one: the least distance to the   *)
(* end, by well-foundedness.                                               *)
LEMMA LastIndex ==
  ASSUME NEW n \in Nat, NEW J, J \subseteq 1 .. n, J # {}
  PROVE  \E j \in J : \A k \in J : k <= j
<1> DEFINE T == {n - j : j \in J}
           R == OpToRel(<, Nat)
<1>1. IsWellFoundedOn(R, Nat)
  BY NatLessThanWellFounded
<1>2. T \subseteq Nat /\ T # {}
  <2>1. ASSUME NEW j \in J PROVE n - j \in Nat
    OBVIOUS
  <2> HIDE DEF R
  <2> QED BY <2>1
<1>3. \A x, y \in Nat : y < x => <<y, x>> \in R
  BY DEF OpToRel
<1> HIDE DEF R, T
<1>4. PICK x \in T : \A y \in T : ~(<<y, x>> \in R)
  BY <1>1, <1>2, WFMin
<1>5. PICK j \in J : x = n - j
  BY <1>4 DEF T
<1>6. ASSUME NEW k \in J PROVE k <= j
  <2>1. n - k \in T /\ n - k \in Nat
    BY DEF T
  <2>2. ~(n - k < x)
    BY <1>2, <1>3, <1>4, <2>1
  <2> QED BY <1>5, <2>2
<1> QED BY <1>6

(* A quality is a number of thousandths, or none.                          *)
LEMMA QualityFits ==
  ASSUME NEW part \in AnyPart
  PROVE  Quality(part) = {} \/ \E q \in Nat : Quality(part) = {q}
<1> DEFINE s == part.weight
<1>1. s \in Seq(0 .. Junk)
  BY DEF AnyPart
<1>2. CASE s = <<>>
  <2>1. Quality(part) = {1000}
    BY <1>2, Zenon DEF Quality
  <2> QED BY <2>1
<1>3. CASE s # <<>> /\ Len(s) <= 4 /\ s[1] = 1 /\ \A i \in 2 .. Len(s) : s[i] = 0
  <2>1. Quality(part) = {1000}
    <3>1. s[1] # 0
      BY <1>3
    <3> QED BY <1>3, <3>1, Zenon DEF Quality, parse_qvalue
  <2> QED BY <2>1
<1>4. CASE s # <<>> /\ Len(s) <= 4 /\ s[1] = 0 /\ IsFraction(s)
  <2> DEFINE q == 100 * Digit(s, 2) + 10 * Digit(s, 3) + Digit(s, 4)
  <2>1. Quality(part) = {q}
    BY <1>4 DEF Quality, parse_qvalue
  <2>2. ASSUME NEW i \in 2 .. 4 PROVE Digit(s, i) \in Nat
    <3> HIDE DEF s
    <3>1. Len(s) \in Nat
      BY <1>1
    <3>2. i <= Len(s) => i \in 2 .. Len(s)
      BY <3>1
    <3>3. CASE i <= Len(s) /\ s[i] # Plus
      <4>1. s[i] \in 0 .. 9
        BY <1>4, <3>2, <3>3 DEF IsFraction
      <4> QED BY <3>3, <4>1 DEF Digit
    <3>4. CASE ~(i <= Len(s) /\ s[i] # Plus)
      BY <3>4 DEF Digit
    <3> QED BY <3>3, <3>4
  <2>3. Digit(s, 2) \in Nat /\ Digit(s, 3) \in Nat /\ Digit(s, 4) \in Nat
    BY <2>2
  <2>4. q \in Nat
    BY <2>3
  <2> QED BY <2>1, <2>4
<1>5. CASE /\ s # <<>>
           /\ ~(Len(s) <= 4 /\ s[1] = 1 /\ \A i \in 2 .. Len(s) : s[i] = 0)
           /\ ~(Len(s) <= 4 /\ s[1] = 0 /\ IsFraction(s))
  BY <1>5, Zenon DEF Quality, parse_qvalue
<1> QED BY <1>2, <1>3, <1>4, <1>5

(* What the loop leaves is the quality of the last part with the coding.   *)
LEMMA LastIsQuality ==
  ASSUME NEW h \in Seq(AnyPart), NEW coding
  PROVE  \/ /\ \A i \in 1 .. Len(h) : h[i].coding # coding
            /\ LastQuality(h, coding) = {}
         \/ \E i \in 1 .. Len(h) :
              /\ h[i].coding = coding /\ \A k \in i + 1 .. Len(h) : h[k].coding # coding
              /\ LastQuality(h, coding) = Quality(h[i])
<1>0. Len(h) \in Nat
  OBVIOUS
<1> DEFINE J == {j \in 1 .. Len(h) : h[j].coding = coding}
           L == {j \in 1 .. Len(h) : h[j].coding = coding /\ \A k \in j + 1 .. Len(h) : h[k].coding # coding}
<1>1. LastQuality(h, coding) = UNION {Quality(h[i]) : i \in L}
  BY DEF LastQuality
<1>2. CASE J = {}
  <2>1. L = {}
    BY <1>2
  <2>2. LastQuality(h, coding) = {}
    BY <1>1, <2>1, Zenon
  <2> QED BY <1>2, <2>2
<1>3. CASE J # {}
  <2>1. PICK i \in J : \A k \in J : k <= i
    <3> HIDE DEF L
    <3>1. J \subseteq 1 .. Len(h)
      OBVIOUS
    <3> HIDE DEF J
    <3> QED BY <1>0, <1>3, <3>1, LastIndex
  <2>2. i \in 1 .. Len(h) /\ h[i].coding = coding
    OBVIOUS
  <2>3. ASSUME NEW k \in i + 1 .. Len(h) PROVE h[k].coding # coding
    <3>1. k \in 1 .. Len(h) /\ ~(k <= i)
      BY <1>0, <2>2
    <3> QED BY <2>1, <3>1
  <2>4. L = {i}
    <3>1. i \in L
      BY <2>2, <2>3
    <3>2. ASSUME NEW j \in L PROVE j = i
      <4>1. j \in J
        OBVIOUS
      <4>2. j <= i /\ ~(i \in j + 1 .. Len(h))
        BY <2>1, <2>2, <4>1
      <4> QED BY <1>0, <2>2, <4>1, <4>2
    <3> HIDE DEF L
    <3> QED BY <3>1, <3>2
  <2> HIDE DEF L
  <2>5. LastQuality(h, coding) = Quality(h[i])
    BY <1>1, <2>4, Zenon
  <2> QED BY <2>2, <2>3, <2>5
<1> QED BY <1>2, <1>3

(* The part that speaks for a coding gives it its quality.                 *)
LEMMA SpeakerQuality ==
  ASSUME NEW h \in Seq(AnyPart), NEW coding, coding # "*",
         \A i \in 1 .. Len(h) : Quality(h[i]) # {}
  PROVE  LET quality == Or(LastQuality(h, coding), LastQuality(h, "*"))
         IN \/ /\ \A i \in 1 .. Len(h) : ~SpeaksFor(h, coding, i)
               /\ quality = {}
            \/ \E i \in 1 .. Len(h) :
                 /\ \A k \in 1 .. Len(h) : SpeaksFor(h, coding, k) <=> k = i
                 /\ quality = Quality(h[i])
<1> DEFINE quality == Or(LastQuality(h, coding), LastQuality(h, "*"))
<1>0. Len(h) \in Nat
  OBVIOUS
<1>u. ASSUME NEW c, NEW i \in 1 .. Len(h), NEW k \in 1 .. Len(h),
             h[i].coding = c, \A j \in i + 1 .. Len(h) : h[j].coding # c,
             h[k].coding = c, \A j \in k + 1 .. Len(h) : h[j].coding # c
      PROVE  k = i
  <2>1. ~(k \in i + 1 .. Len(h)) /\ ~(i \in k + 1 .. Len(h))
    BY <1>u
  <2> QED BY <1>0, <2>1
<1>1. CASE \E i \in 1 .. Len(h) :
             /\ h[i].coding = coding /\ \A k \in i + 1 .. Len(h) : h[k].coding # coding
             /\ LastQuality(h, coding) = Quality(h[i])
  <2>1. PICK i \in 1 .. Len(h) :
             /\ h[i].coding = coding /\ \A k \in i + 1 .. Len(h) : h[k].coding # coding
             /\ LastQuality(h, coding) = Quality(h[i])
    BY <1>1
  <2>2. quality = Quality(h[i])
    BY <2>1 DEF Or
  <2>3. ASSUME NEW k \in 1 .. Len(h) PROVE SpeaksFor(h, coding, k) <=> k = i
    BY <1>u, <2>1 DEF SpeaksFor
  <2> QED BY <2>2, <2>3
<1>2. CASE /\ \A i \in 1 .. Len(h) : h[i].coding # coding
           /\ LastQuality(h, coding) = {}
  <2>1. quality = LastQuality(h, "*")
    BY <1>2 DEF Or
  <2>2. CASE /\ \A i \in 1 .. Len(h) : h[i].coding # "*"
             /\ LastQuality(h, "*") = {}
    BY <1>2, <2>1, <2>2 DEF SpeaksFor
  <2>3. CASE \E i \in 1 .. Len(h) :
             /\ h[i].coding = "*" /\ \A k \in i + 1 .. Len(h) : h[k].coding # "*"
             /\ LastQuality(h, "*") = Quality(h[i])
    <3>1. PICK i \in 1 .. Len(h) :
             /\ h[i].coding = "*" /\ \A k \in i + 1 .. Len(h) : h[k].coding # "*"
             /\ LastQuality(h, "*") = Quality(h[i])
      BY <2>3
    <3>2. ASSUME NEW k \in 1 .. Len(h) PROVE SpeaksFor(h, coding, k) <=> k = i
      BY <1>2, <1>u, <3>1 DEF SpeaksFor
    <3> QED BY <2>1, <3>1, <3>2
  <2> QED BY <2>2, <2>3, LastIsQuality
<1> QED BY <1>1, <1>2, LastIsQuality

(* Option::unwrap_or.                                                      *)
LEMMA Unwrapped ==
  ASSUME NEW d
  PROVE  UnwrapOr({}, d) = d /\ \A q : UnwrapOr({q}, d) = q
BY DEF UnwrapOr, Or

(* One header value.                                                       *)
LEMMA PreferredByOne ==
  ASSUME NEW h \in Seq(AnyPart)
  PROVE  should_gzip({h}) <=> GzipPreferred({h})
<1> DEFINE g == Or(LastQuality(h, "gzip"), LastQuality(h, "*"))
           d == Or(LastQuality(h, "identity"), LastQuality(h, "*"))
           Asked(q) == \A k \in 1 .. Len(h) : SpeaksFor(h, "identity", k) => \A p \in Quality(h[k]) : p <= q
<1>1. CASE ~\A i \in 1 .. Len(h) : Quality(h[i]) # {}
  BY <1>1 DEF should_gzip, GzipPreferred
<1>2. CASE \A i \in 1 .. Len(h) : Quality(h[i]) # {}
  <2>1. \A i \in 1 .. Len(h) : \E q \in Nat : Quality(h[i]) = {q}
    <3>1. \A i \in 1 .. Len(h) : h[i] \in AnyPart
      OBVIOUS
    <3> QED BY <1>2, <3>1, QualityFits
  <2>2. should_gzip({h}) <=> UnwrapOr(g, 0) > 0 /\ UnwrapOr(g, 0) >= UnwrapOr(d, 1)
    BY <1>2, Zenon DEF should_gzip
  <2>3. GzipPreferred({h}) <=>
          \E i \in 1 .. Len(h) : SpeaksFor(h, "gzip", i) /\ \E q \in Quality(h[i]) : q # 0 /\ Asked(q)
    BY <1>2, Zenon DEF GzipPreferred
  <2>4. \/ (\A i \in 1 .. Len(h) : ~SpeaksFor(h, "gzip", i)) /\ g = {}
        \/ \E i \in 1 .. Len(h) :
             (\A k \in 1 .. Len(h) : SpeaksFor(h, "gzip", k) <=> k = i) /\ g = Quality(h[i])
    BY <1>2, SpeakerQuality
  <2>5. \/ (\A i \in 1 .. Len(h) : ~SpeaksFor(h, "identity", i)) /\ d = {}
        \/ \E i \in 1 .. Len(h) :
             (\A k \in 1 .. Len(h) : SpeaksFor(h, "identity", k) <=> k = i) /\ d = Quality(h[i])
    BY <1>2, SpeakerQuality
  <2> HIDE DEF g, d
  <2>6. ASSUME NEW q \in Nat, q # 0 PROVE Asked(q) <=> q >= UnwrapOr(d, 1)
    <3>1. CASE (\A i \in 1 .. Len(h) : ~SpeaksFor(h, "identity", i)) /\ d = {}
      <4>1. UnwrapOr(d, 1) = 1 /\ q >= 1
        BY <2>6, <3>1, Unwrapped
      <4> QED BY <3>1, <4>1
    <3>2. ASSUME NEW i \in 1 .. Len(h),
                 \A k \in 1 .. Len(h) : SpeaksFor(h, "identity", k) <=> k = i, d = Quality(h[i])
          PROVE  Asked(q) <=> q >= UnwrapOr(d, 1)
      <4>1. PICK p \in Nat : Quality(h[i]) = {p}
        BY <2>1
      <4>2. UnwrapOr(d, 1) = p
        BY <3>2, <4>1, Unwrapped
      <4>3. Asked(q) <=> p <= q
        BY <3>2, <4>1
      <4> QED BY <4>2, <4>3
    <3> QED BY <2>5, <3>1, <3>2
  <2> HIDE DEF Asked
  <2>7. CASE (\A i \in 1 .. Len(h) : ~SpeaksFor(h, "gzip", i)) /\ g = {}
    <3>1. UnwrapOr(g, 0) = 0
      BY <2>7, Unwrapped
    <3> QED BY <2>2, <2>3, <2>7, <3>1
  <2>8. ASSUME NEW i \in 1 .. Len(h),
               \A k \in 1 .. Len(h) : SpeaksFor(h, "gzip", k) <=> k = i, g = Quality(h[i])
        PROVE  should_gzip({h}) <=> GzipPreferred({h})
    <3>1. PICK q \in Nat : Quality(h[i]) = {q}
      BY <2>1
    <3>2. UnwrapOr(g, 0) = q
      BY <2>8, <3>1, Unwrapped
    <3>3. should_gzip({h}) <=> q # 0 /\ q >= UnwrapOr(d, 1)
      BY <2>2, <3>2
    <3>4. GzipPreferred({h}) <=> q # 0 /\ Asked(q)
      BY <2>3, <2>8, <3>1
    <3> QED BY <2>6, <3>3, <3>4
  <2> QED BY <2>4, <2>7, <2>8
<1> QED BY <1>1, <1>2

(* The crate's negotiation is that of the RFC, whatever the header.        *)
THEOREM NegotiationByRfc ==
  ASSUME NEW header, header = {} \/ \E h \in Seq(AnyPart) : header = {h}
  PROVE  should_gzip(header) <=> GzipPreferred(header)
<1>1. CASE header = {}
  BY <1>1 DEF should_gzip, GzipPreferred
<1>2. CASE \E h \in Seq(AnyPart) : header = {h}
  BY <1>2, PreferredByOne, Zenon
<1> QED BY <1>1, <1>2
=============================================================================
