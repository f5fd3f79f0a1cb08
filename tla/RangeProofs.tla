---------------------------- MODULE RangeProofs ----------------------------
(***************************************************************************)
(* Proofs about Range for every entity length, every header and every      *)
(* width of the integers, with and without overflow checks.                *)
(***************************************************************************)
EXTENDS Range, SequenceTheorems, TLAPS

(* What a spec resolves to: at most one range, within the entity.          *)
LEMMA ResolveFits ==
  ASSUME TypeOK, NEW s \in Specs \ {Bad}
  PROVE  /\ Resolve(s) \in Seq([start : U64, end : U64])
         /\ \A k \in 1 .. Len(Resolve(s)) :
              /\ Resolve(s)[k].start <= Resolve(s)[k].end
              /\ 0 < Resolve(s)[k].end
              /\ Resolve(s)[k].end <= len
<1> USE RangeAssumption
<1>1. len \in U64 /\ len \in Nat /\ U64 \subseteq Nat
  BY DEF TypeOK, U64
<1>2. /\ s.kind \in {"suffix", "from", "span"} /\ s.first \in U64 /\ s.last \in U64
  <2>1. 0 \in U64
    BY DEF U64
  <2>2. /\ s.kind \in {"bad", "suffix", "from", "span"}
        /\ s.kind = "bad" => s = Bad
        /\ s.first \in U64 /\ s.last \in U64
    BY <2>1 DEF Specs, Bad
  <2> QED BY <2>2
<1>3. ASSUME NEW a \in U64, NEW b \in U64, a <= b, 0 < b, b <= len
      PROVE  LET t == <<[start |-> a, end |-> b]>>
             IN /\ t \in Seq([start : U64, end : U64])
                /\ \A k \in 1 .. Len(t) : t[k].start <= t[k].end /\ 0 < t[k].end /\ t[k].end <= len
  BY <1>3
<1>4. ASSUME NEW e \in U64, e <= len
      PROVE  /\ Push(s.first, e) \in Seq([start : U64, end : U64])
             /\ \A k \in 1 .. Len(Push(s.first, e)) :
                  /\ Push(s.first, e)[k].start <= Push(s.first, e)[k].end
                  /\ 0 < Push(s.first, e)[k].end
                  /\ Push(s.first, e)[k].end <= len
  <2>1. CASE s.first >= e
    BY <2>1 DEF Push
  <2>2. CASE ~(s.first >= e)
    <3>1. Push(s.first, e) = <<[start |-> s.first, end |-> e]>>
      BY <2>2 DEF Push
    <3>2. s.first \in Nat /\ e \in Nat
      BY <1>1, <1>2, <1>4
    <3>3. s.first <= e /\ 0 < e
      BY <2>2, <3>2
    <3> QED BY <1>2, <1>3, <1>4, <3>1, <3>3
  <2> QED BY <2>1, <2>2
<1>5. CASE s.kind = "suffix"
  <2>1. CASE s.last >= len
    BY <1>5, <2>1 DEF Resolve
  <2>2. CASE ~(s.last >= len)
    <3>1. len - s.last \in U64 /\ len - s.last <= len /\ 0 < len
      BY <1>1, <1>2, <2>2 DEF U64
    <3>2. Resolve(s) = <<[start |-> len - s.last, end |-> len]>>
      BY <1>5, <2>2 DEF Resolve
    <3> QED BY <1>1, <1>3, <3>1, <3>2
  <2> QED BY <2>1, <2>2
<1>6. CASE s.kind = "from"
  <2>1. Resolve(s) = Push(s.first, len) /\ len <= len
    BY <1>1, <1>6 DEF Resolve
  <2> QED BY <1>1, <1>4, <2>1
<1>7. CASE s.kind = "span"
  <2> DEFINE e == (s.last + 1) % (U64Max + 1)
  <2>1. e \in U64
    BY <1>1, <1>2 DEF U64
  <2>2. Lesser(e, len) \in U64 /\ Lesser(e, len) <= len
    <3> HIDE DEF e
    <3> QED BY <1>1, <2>1 DEF Lesser
  <2>3. Resolve(s) = Push(s.first, Lesser(e, len))
    BY <1>7 DEF Resolve
  <2> HIDE DEF e
  <2> QED BY <1>4, <2>2, <2>3
<1> QED BY <1>2, <1>5, <1>6, <1>7

(* No step breaks the invariant.                                           *)
LEMMA InitRange == Init => IInv
<1> SUFFICES ASSUME Init PROVE IInv
  OBVIOUS
<1> USE RangeAssumption
<1>1. specs \in Seq(Specs)
  <2>1. CASE \E n \in 1 .. MaxSpecs : specs \in [1 .. n -> Specs]
    <3>1. PICK n \in 1 .. MaxSpecs : specs \in [1 .. n -> Specs]
      BY <2>1
    <3>2. n \in Nat
      OBVIOUS
    <3>3. [1 .. n -> Specs] \subseteq Seq(Specs)
      BY <3>2, SeqDef, Zenon
    <3> QED BY <3>1, <3>3
  <2>2. CASE specs = <<Bad>>
    <3>1. Bad \in Specs
      BY DEF Specs
    <3> QED BY <2>2, <3>1
  <2> QED BY <2>1, <2>2 DEF Init
<1>2. TypeOK
  <2>1. Len(specs) \in Nat
    BY <1>1
  <2>2. <<>> \in Seq([start : U64, end : U64]) /\ 0 \in 0 .. Len(specs)
    BY <2>1
  <2>3. checked \in BOOLEAN /\ bytes \in BOOLEAN
    BY DEF Init
  <2> QED BY <1>1, <2>2, <2>3 DEF Init, TypeOK
<1> QED BY <1>2 DEF Init, IInv, InBounds, AllOrNothing

LEMMA NextRange ==
  ASSUME IInv, [Next]_vars
  PROVE  IInv'
<1>0. TypeOK /\ InBounds /\ AllOrNothing /\ Len(specs) \in Nat
  BY DEF IInv, TypeOK
<1>1. CASE Ignore \/ Unparseable \/ Overflow
  BY <1>1 DEF IInv, TypeOK, InBounds, AllOrNothing, Ignore, Unparseable, Overflow
<1>2. CASE Finish
  <2>1. \A j \in 1 .. Len(specs) : specs[j] # Bad
    BY <1>2 DEF Finish, IInv
  <2> QED BY <1>2, <2>1 DEF IInv, TypeOK, InBounds, AllOrNothing, Finish
<1>3. CASE ParseSpec
  <2> DEFINE t == Resolve(Current)
  <2>1. /\ InLoop /\ Current # Bad /\ ranges' = ranges \o t /\ done' = done + 1
        /\ UNCHANGED <<checked, len, bytes, specs, result>>
    BY <1>3 DEF ParseSpec
  <2>2. done \in Nat /\ done + 1 \in 1 .. Len(specs) /\ result = "parsing"
    BY <1>0, <2>1 DEF TypeOK, InLoop
  <2>3. Current \in Specs \ {Bad}
    BY <1>0, <2>1, <2>2 DEF TypeOK, Current
  <2>4. /\ t \in Seq([start : U64, end : U64])
        /\ \A k \in 1 .. Len(t) : t[k].start <= t[k].end /\ 0 < t[k].end /\ t[k].end <= len
    BY <1>0, <2>3, ResolveFits
  <2> HIDE DEF t
  <2>5. ranges' \in Seq([start : U64, end : U64])
    BY <1>0, <2>1, <2>4 DEF TypeOK
  <2>6. InBounds'
    <3> SUFFICES ASSUME NEW k \in 1 .. Len(ranges')
                 PROVE  ranges'[k].start <= ranges'[k].end /\ 0 < ranges'[k].end /\ ranges'[k].end <= len
      BY <2>1 DEF InBounds
    <3>1. \/ k \in 1 .. Len(ranges) /\ ranges'[k] = ranges[k]
          \/ k - Len(ranges) \in 1 .. Len(t) /\ ranges'[k] = t[k - Len(ranges)]
      <4>1. ranges \in Seq([start : U64, end : U64])
        BY <1>0 DEF TypeOK
      <4> QED BY <2>1, <2>4, <4>1
    <3> QED BY <1>0, <2>4, <3>1 DEF InBounds
  <2>7. TypeOK' /\ AllOrNothing'
    BY <1>0, <2>1, <2>2, <2>5 DEF TypeOK, AllOrNothing
  <2>8. \A j \in 1 .. done' : specs'[j] # Bad
    <3> SUFFICES ASSUME NEW j \in 1 .. done + 1 PROVE specs[j] # Bad
      BY <2>1
    <3>1. j \in 1 .. done \/ j = done + 1
      BY <2>2
    <3> QED BY <2>1, <3>1 DEF IInv, Current
  <2> QED BY <2>6, <2>7, <2>8 DEF IInv
<1>4. CASE UNCHANGED vars
  BY <1>4 DEF IInv, TypeOK, InBounds, AllOrNothing, vars
<1> QED BY <1>1, <1>2, <1>3, <1>4 DEF Next

(* The invariant holds of every header.                                    *)
THEOREM ParseInvariant == Spec => []IInv
<1>1. IInv /\ [Next]_vars => IInv'
  BY NextRange
<1> QED BY <1>1, InitRange, PTL DEF Spec

(* Positions stay within a u64: len - last does not underflow.             *)
THEOREM ParseTypeCorrect == Spec => []TypeOK
<1>1. IInv => TypeOK
  BY DEF IInv
<1> QED BY <1>1, ParseInvariant, PTL

(* Every resolved range lies within the entity.                            *)
THEOREM ResolvedInBounds == Spec => []InBounds
<1>1. IInv => InBounds
  BY DEF IInv
<1> QED BY <1>1, ParseInvariant, PTL

(* A header with an unparseable spec is never honoured in part.            *)
THEOREM HeaderAllOrNothing == Spec => []AllOrNothing
<1>1. IInv => AllOrNothing
  BY DEF IInv
<1> QED BY <1>1, ParseInvariant, PTL
-----------------------------------------------------------------------------
(***************************************************************************)
(* The ranges against the bytes that RFC 7233 says the specs ask for       *)
(***************************************************************************)

(* A range that is pushed for [first, end) has the bytes between them, and *)
(* nothing is pushed only if there are none.                               *)
LEMMA PushAsked ==
  ASSUME TypeOK, NEW first \in U64, NEW end \in U64, end <= len
  PROVE  \/ /\ Push(first, end) = <<>>
            /\ {p \in 0 .. len - 1 : first <= p /\ p < end} = {}
         \/ \E r \in [start : U64, end : U64] :
              /\ Push(first, end) = <<r>>
              /\ BytesOf(r) = {p \in 0 .. len - 1 : first <= p /\ p < end}
<1> USE RangeAssumption
<1>1. first \in Nat /\ end \in Nat /\ len \in Nat
  BY DEF TypeOK, U64
<1>2. CASE first >= end
  BY <1>1, <1>2 DEF Push
<1>3. CASE ~(first >= end)
  <2>1. Push(first, end) = <<[start |-> first, end |-> end]>>
    BY <1>3 DEF Push
  <2>2. BytesOf([start |-> first, end |-> end]) = {p \in 0 .. len - 1 : first <= p /\ p < end}
    BY DEF BytesOf
  <2>3. [start |-> first, end |-> end] \in [start : U64, end : U64]
    OBVIOUS
  <2> QED BY <2>1, <2>2, <2>3
<1> QED BY <1>2, <1>3

(* What a spec resolves to, against what it asks for.                      *)
LEMMA ResolveAsked ==
  ASSUME TypeOK, NEW s \in Specs \ {Bad}
  PROVE  \/ Resolve(s) = <<>> /\ (Asked(s) = {} \/ Departs(s))
         \/ \E r \in [start : U64, end : U64] :
              Resolve(s) = <<r>> /\ BytesOf(r) = Asked(s) /\ ~Departs(s)
<1> USE RangeAssumption
<1>1. len \in U64 /\ len \in Nat /\ U64 \subseteq Nat /\ U64Max \in Nat /\ 0 \in U64
  BY DEF TypeOK, U64
<1>2. /\ s.kind \in {"suffix", "from", "span"} /\ s.first \in U64 /\ s.last \in U64
  <2>1. /\ s.kind \in {"bad", "suffix", "from", "span"}
        /\ s.kind = "bad" => s = Bad
        /\ s.first \in U64 /\ s.last \in U64
    BY <1>1 DEF Specs, Bad
  <2> QED BY <2>1
<1>3. s.first \in Nat /\ s.last \in 0 .. U64Max
  BY <1>1, <1>2 DEF U64
<1>4. CASE s.kind = "suffix"
  <2>1. CASE s.last >= len
    BY <1>4, <2>1 DEF Resolve, Departs
  <2>2. CASE ~(s.last >= len)
    <3> DEFINE r == [start |-> len - s.last, end |-> len]
    <3>1. Resolve(s) = <<r>>
      BY <1>4, <2>2 DEF Resolve
    <3>2. r \in [start : U64, end : U64]
      BY <1>1, <1>3, <2>2 DEF U64
    <3>3. BytesOf(r) = Asked(s)
      <4>1. BytesOf(r) = {p \in 0 .. len - 1 : len - s.last <= p /\ p < len}
        BY DEF BytesOf
      <4>2. Asked(s) = {p \in 0 .. len - 1 : p >= len - s.last}
        BY <1>4 DEF Asked
      <4> QED BY <1>1, <1>3, <4>1, <4>2
    <3>4. ~Departs(s)
      BY <1>4, <2>2 DEF Departs, Overflows
    <3> QED BY <3>1, <3>2, <3>3, <3>4
  <2> QED BY <2>1, <2>2
<1>5. CASE s.kind = "from"
  <2>1. Resolve(s) = Push(s.first, len) /\ len <= len
    BY <1>1, <1>5 DEF Resolve
  <2>2. Asked(s) = {p \in 0 .. len - 1 : p >= s.first}
    BY <1>5 DEF Asked
  <2>3. Asked(s) = {p \in 0 .. len - 1 : s.first <= p /\ p < len}
    BY <1>1, <1>3, <2>2
  <2>4. ~Departs(s)
    BY <1>5 DEF Departs, Overflows
  <2>5. \/ /\ Push(s.first, len) = <<>>
           /\ {p \in 0 .. len - 1 : s.first <= p /\ p < len} = {}
        \/ \E r \in [start : U64, end : U64] :
             /\ Push(s.first, len) = <<r>>
             /\ BytesOf(r) = {p \in 0 .. len - 1 : s.first <= p /\ p < len}
    BY <1>1, <1>2, <2>1, PushAsked
  <2> QED BY <2>1, <2>3, <2>4, <2>5, Zenon
<1>6. CASE s.kind = "span" /\ s.last = U64Max
  <2>1. (s.last + 1) % (U64Max + 1) = 0
    BY <1>1, <1>6
  <2>2. Lesser(0, len) = 0
    BY <1>1 DEF Lesser
  <2>3. Resolve(s) = Push(s.first, 0)
    BY <1>6, <2>1, <2>2 DEF Resolve
  <2>4. Resolve(s) = <<>>
    BY <1>3, <2>3 DEF Push
  <2> QED BY <1>6, <2>4 DEF Departs, Overflows
<1>7. CASE s.kind = "span" /\ s.last # U64Max
  <2>1. (s.last + 1) % (U64Max + 1) = s.last + 1
    BY <1>1, <1>3, <1>7
  <2> DEFINE e == Lesser(s.last + 1, len)
  <2>2. Resolve(s) = Push(s.first, e)
    BY <1>7, <2>1 DEF Resolve
  <2>3. e \in U64 /\ e <= len
    BY <1>1, <1>3, <1>7 DEF Lesser, U64
  <2>4. Asked(s) = {p \in 0 .. len - 1 : s.first <= p /\ p <= s.last}
    BY <1>7 DEF Asked
  <2>5. ASSUME NEW p \in 0 .. len - 1 PROVE p <= s.last <=> p < e
    BY <1>1, <1>3 DEF Lesser
  <2> HIDE DEF e
  <2>6. Asked(s) = {p \in 0 .. len - 1 : s.first <= p /\ p < e}
    BY <2>4, <2>5
  <2>7. ~Departs(s)
    BY <1>7 DEF Departs, Overflows
  <2> QED BY <1>2, <2>2, <2>3, <2>6, <2>7, PushAsked
<1> QED BY <1>2, <1>4, <1>5, <1>6, <1>7

(* A spec that is resolved to nothing, or to one more range.               *)
LEMMA ParseAsked ==
  ASSUME IInv, AskedInOrder, ParseSpec
  PROVE  AskedInOrder'
<1>1. /\ InLoop /\ Current # Bad /\ ranges' = ranges \o Resolve(Current) /\ done' = done + 1
      /\ len' = len /\ specs' = specs
  BY DEF ParseSpec
<1>2. /\ TypeOK /\ done \in Nat /\ done + 1 \in 1 .. Len(specs)
      /\ ranges \in Seq([start : U64, end : U64]) /\ Len(ranges) \in Nat
  BY <1>1 DEF IInv, TypeOK, InLoop
<1>3. Current \in Specs \ {Bad} /\ Current = specs[done + 1]
  BY <1>1, <1>2 DEF TypeOK, Current
<1>4. PICK f \in [1 .. Len(ranges) -> 1 .. done] : Matches(f)
  BY DEF AskedInOrder
<1>5. \A x : Asked(x)' = Asked(x) /\ Departs(x)' = Departs(x) /\ BytesOf(x)' = BytesOf(x)
  BY <1>1 DEF Asked, Departs, BytesOf, Overflows
<1>6. CASE Resolve(Current) = <<>> /\ (Asked(Current) = {} \/ Departs(Current))
  <2>1. ranges' = ranges
    BY <1>1, <1>2, <1>6
  <2>2. f \in [1 .. Len(ranges') -> 1 .. done']
    BY <1>1, <1>2, <1>4, <2>1
  <2>3. ASSUME NEW j \in 1 .. done + 1, Asked(specs[j]) # {}, ~Departs(specs[j])
        PROVE  \E k \in DOMAIN f : f[k] = j
    <3>1. j \in 1 .. done
      BY <1>2, <1>3, <1>6, <2>3
    <3> QED BY <1>4, <2>3, <3>1 DEF Matches
  <2>4. Matches(f)'
    BY <1>1, <1>4, <1>5, <2>1, <2>3 DEF Matches
  <2> QED BY <2>2, <2>4 DEF AskedInOrder
<1>7. ASSUME NEW r \in [start : U64, end : U64], Resolve(Current) = <<r>>,
             BytesOf(r) = Asked(Current), ~Departs(Current)
      PROVE  AskedInOrder'
  <2>n. PICK n \in Nat : n = Len(ranges)
    BY <1>2
  <2>g. PICK g : g = [k \in 1 .. n + 1 |-> IF k = n + 1 THEN done + 1 ELSE f[k]]
    OBVIOUS
  <2>1. /\ Len(ranges') = n + 1 /\ ranges'[n + 1] = r
        /\ \A k \in 1 .. n : ranges'[k] = ranges[k]
    BY <1>1, <1>2, <1>7, <2>n
  <2>2. /\ \A k \in 1 .. n : g[k] = f[k] /\ f[k] \in 1 .. done
        /\ g[n + 1] = done + 1 /\ DOMAIN g = 1 .. n + 1 /\ DOMAIN f = 1 .. n
        /\ 1 .. n + 1 = (1 .. n) \cup {n + 1}
    <3>1. 1 .. n + 1 = (1 .. n) \cup {n + 1} /\ n + 1 \in 1 .. n + 1
      OBVIOUS
    <3>2. DOMAIN g = 1 .. n + 1 /\ g[n + 1] = done + 1
      BY <2>g, <3>1
    <3>3. DOMAIN f = 1 .. n /\ \A k \in 1 .. n : f[k] \in 1 .. done
      BY <1>4, <2>n
    <3>4. ASSUME NEW k \in 1 .. n PROVE g[k] = f[k]
      <4>1. k \in 1 .. n + 1 /\ k # n + 1
        OBVIOUS
      <4> QED BY <2>g, <4>1
    <3> QED BY <3>1, <3>2, <3>3, <3>4
  <2>3. g \in [1 .. Len(ranges') -> 1 .. done']
    BY <1>1, <1>2, <1>4, <2>1, <2>n, <2>g
  <2>4. ASSUME NEW k \in 1 .. n + 1, NEW l \in 1 .. n + 1, k < l PROVE g[k] < g[l]
    <3>1. CASE l = n + 1
      <4>1. k \in 1 .. n
        BY <2>4, <3>1
      <4>2. g[k] \in 1 .. done
        BY <2>2, <4>1
      <4> QED BY <1>2, <2>2, <3>1, <4>2
    <3>2. CASE l # n + 1
      <4>1. k \in 1 .. n /\ l \in 1 .. n
        BY <2>4, <3>2
      <4> QED BY <1>4, <2>2, <2>4, <4>1 DEF Matches
    <3> QED BY <3>1, <3>2
  <2>5. ASSUME NEW k \in 1 .. n + 1
        PROVE  ~Departs(specs[g[k]]) /\ BytesOf(ranges'[k]) = Asked(specs[g[k]])
    <3>1. CASE k = n + 1
      BY <1>3, <1>7, <2>1, <2>2, <3>1
    <3>2. CASE k \in 1 .. n
      BY <1>4, <2>1, <2>2, <3>2 DEF Matches
    <3> QED BY <2>2, <3>1, <3>2
  <2>6. ASSUME NEW j \in 1 .. done + 1, Asked(specs[j]) # {}, ~Departs(specs[j])
        PROVE  \E k \in 1 .. n + 1 : g[k] = j
    <3>1. CASE j = done + 1
      BY <2>2, <3>1
    <3>2. CASE j # done + 1
      <4>1. j \in 1 .. done
        BY <1>2, <3>2
      <4>2. PICK k \in 1 .. n : f[k] = j
        BY <1>4, <2>2, <2>6, <4>1 DEF Matches
      <4> QED BY <2>2, <4>2
    <3> QED BY <3>1, <3>2
  <2>7. Matches(g)'
    <3>1. \A k \in 1 .. n + 1 :
            ~Departs(specs[g[k]])' /\ BytesOf(ranges[k])' = Asked(specs[g[k]])'
      BY <1>1, <1>5, <2>5
    <3>2. \A j \in 1 .. done' : Asked(specs[j])' # {} /\ ~Departs(specs[j])'
            => \E k \in 1 .. n + 1 : g[k] = j
      BY <1>1, <1>5, <2>6
    <3> QED BY <1>1, <2>2, <2>4, <3>1, <3>2 DEF Matches
  <2> QED BY <2>3, <2>7 DEF AskedInOrder
<1> QED BY <1>2, <1>3, <1>6, <1>7, ResolveAsked

(* The resolved ranges are what the header asks for, in its order, for     *)
(* every header and every entity.                                          *)
THEOREM RangesAsAsked == Spec => []AskedInOrder
<1>1. Init => AskedInOrder
  <2> SUFFICES ASSUME Init PROVE AskedInOrder
    OBVIOUS
  <2>1. ranges = <<>> /\ done = 0
    BY DEF Init
  <2>2. <<>> \in [1 .. Len(ranges) -> 1 .. done] /\ DOMAIN <<>> = {}
    BY <2>1
  <2>3. Matches(<<>>)
    BY <2>1, <2>2 DEF Matches
  <2> QED BY <2>2, <2>3 DEF AskedInOrder
<1>2. IInv /\ AskedInOrder /\ [Next]_vars => AskedInOrder'
  <2> SUFFICES ASSUME IInv, AskedInOrder, [Next]_vars PROVE AskedInOrder'
    OBVIOUS
  <2>1. CASE ParseSpec
    BY <2>1, ParseAsked
  <2>2. CASE UNCHANGED <<len, specs, done, ranges>>
    <3>1. \A x : Asked(x)' = Asked(x) /\ Departs(x)' = Departs(x) /\ BytesOf(x)' = BytesOf(x)
      BY <2>2 DEF Asked, Departs, BytesOf, Overflows
    <3>2. PICK f \in [1 .. Len(ranges) -> 1 .. done] : Matches(f)
      BY DEF AskedInOrder
    <3>3. Matches(f)'
      BY <2>2, <3>1, <3>2 DEF Matches
    <3> QED BY <2>2, <3>2, <3>3 DEF AskedInOrder
  <2> QED BY <2>1, <2>2 DEF Next, Ignore, Unparseable, Overflow, Finish, vars
<1> QED BY <1>1, <1>2, ParseInvariant, PTL DEF Spec
-----------------------------------------------------------------------------
(***************************************************************************)
(* What comes after parsing: the ranges suit RangeBody and FsDir           *)
(***************************************************************************)

(* The response that RangeBody starts to build from the ranges, to either  *)
(* method, in either build and for whatever headers the parts will have.   *)
Sizes == [k \in 1 .. Len(ranges) |-> ranges[k].end - ranges[k].start]
Response(method, DebugBuild, MaxHeader, MaxChunk, EstHeader, Trailer, TooLarge) ==
  INSTANCE RangeBody WITH
  sizes <- Sizes, MaxParts <- MaxSpecs,
  phase <- "choose", part <- 0, acc <- 0, part_headers <- <<>>, offsets <- <<0>>,
  content_length <- 0, body <- "Once", once <- 0,
  cur <- [some |-> FALSE, remaining |-> 0, ended |-> FALSE], state <- 0, remaining <- 0,
  seen <- "nothing", sent <- 0, starts <- <<>>, failed <- FALSE, after <- {}

(* The ranges are an initial state of RangeBody.                           *)
Suitable ==
  \A m \in {"GET", "HEAD"}, debug \in BOOLEAN, h, c, e, t, l \in Nat : Response(m, debug, h, c, e, t, l)!Init

(* A range that FsDir's ServeFile passes to get_range: empty only at the   *)
(* end of the entity.                                                      *)
Servable(r) ==
  /\ r.start \in 0 .. len /\ r.end \in 0 .. len
  /\ r.start < r.end \/ (r.start = r.end /\ r.end = len)

(* No more ranges than specs, each of them servable.                       *)
ServableInv ==
  /\ Len(specs) <= MaxSpecs /\ Len(ranges) <= done
  /\ \A k \in 1 .. Len(ranges) : Servable(ranges[k])

(* A spec is resolved to nothing or to one servable range.                 *)
LEMMA ResolveServable ==
  ASSUME TypeOK, NEW s \in Specs \ {Bad}
  PROVE  Resolve(s) = <<>> \/ \E r \in [start : U64, end : U64] : Resolve(s) = <<r>> /\ Servable(r)
<1> USE RangeAssumption
<1>1. len \in Nat /\ U64 \subseteq Nat
  BY DEF TypeOK, U64
<1>2. CASE Resolve(s) = <<>>
  BY <1>2
<1>3. CASE Resolve(s) # <<>>
  <2>1. PICK r \in [start : U64, end : U64] : Resolve(s) = <<r>>
    BY <1>3, ResolveAsked
  <2>2. 1 \in 1 .. Len(Resolve(s)) /\ Resolve(s)[1] = r
    BY <2>1
  <2>3. r.start \in Nat /\ r.end \in Nat /\ r.start <= r.end /\ r.end <= len
    BY <1>1, <2>2, ResolveFits
  <2>4. r.start < r.end \/ r.end = len
    <3>1. s.kind \in {"suffix", "from", "span"}
      BY DEF Specs, Bad
    <3>2. CASE s.kind = "suffix"
      <4>1. Resolve(s) = <<[start |-> len - s.last, end |-> len]>>
        BY <1>3, <3>2 DEF Resolve
      <4>2. r.end = len
        BY <2>1, <4>1
      <4> QED BY <4>2
    <3>3. ASSUME NEW first, NEW end, Resolve(s) = Push(first, end) PROVE r.start < r.end
      <4>1. ~(first >= end) /\ r = [start |-> first, end |-> end]
        BY <1>3, <2>1, <3>3 DEF Push
      <4>2. r.start = first /\ r.end = end
        BY <4>1
      <4> QED BY <2>3, <4>1, <4>2
    <3>4. CASE s.kind \in {"from", "span"}
      BY <3>3, <3>4 DEF Resolve
    <3> QED BY <3>1, <3>2, <3>4
  <2>5. Servable(r)
    BY <1>1, <2>3, <2>4 DEF Servable
  <2> QED BY <2>1, <2>5
<1> QED BY <1>2, <1>3

(* The ranges suit, at every step.                                         *)
LEMMA ServableSteps ==
  ASSUME IInv, ServableInv, [Next]_vars
  PROVE  ServableInv'
<1>0. TypeOK /\ Len(specs) \in Nat
  BY DEF IInv, TypeOK
<1>1. CASE ParseSpec
  <2>1. /\ InLoop /\ Current # Bad /\ ranges' = ranges \o Resolve(Current) /\ done' = done + 1
        /\ len' = len /\ specs' = specs
    BY <1>1 DEF ParseSpec
  <2>2. /\ done \in Nat /\ done + 1 \in 1 .. Len(specs)
        /\ ranges \in Seq([start : U64, end : U64]) /\ Len(ranges) \in Nat
    BY <1>0, <2>1 DEF TypeOK, InLoop
  <2>3. Current \in Specs \ {Bad}
    BY <1>0, <2>1, <2>2 DEF TypeOK, Current
  <2>4. \A r : Servable(r)' = Servable(r)
    BY <2>1 DEF Servable
  <2>5. CASE Resolve(Current) = <<>>
    <3>1. ranges' = ranges
      BY <2>1, <2>2, <2>5
    <3> QED BY <2>1, <2>2, <2>4, <3>1 DEF ServableInv
  <2>6. ASSUME NEW r \in [start : U64, end : U64], Resolve(Current) = <<r>>, Servable(r)
        PROVE  ServableInv'
    <3>1. /\ Len(ranges') = Len(ranges) + 1 /\ ranges'[Len(ranges) + 1] = r
          /\ \A k \in 1 .. Len(ranges) : ranges'[k] = ranges[k]
      BY <2>1, <2>2, <2>6
    <3>2. ASSUME NEW k \in 1 .. Len(ranges') PROVE Servable(ranges'[k])
      <4>1. k \in 1 .. Len(ranges) \/ k = Len(ranges) + 1
        BY <2>2, <3>1
      <4> QED BY <2>6, <3>1, <4>1 DEF ServableInv
    <3>3. Len(ranges') <= done'
      BY <2>1, <2>2, <3>1 DEF ServableInv
    <3> QED BY <2>1, <2>4, <3>2, <3>3 DEF ServableInv
  <2> QED BY <1>0, <2>3, <2>5, <2>6, ResolveServable
<1>2. CASE UNCHANGED <<len, specs, done, ranges>>
  <2>1. \A r : Servable(r)' = Servable(r)
    BY <1>2 DEF Servable
  <2> QED BY <1>2, <2>1 DEF ServableInv
<1> QED BY <1>1, <1>2 DEF Next, Ignore, Unparseable, Overflow, Finish, vars

(* Whatever the header, the ranges it is resolved to are an initial state  *)
(* of RangeBody, and each of them is one that FsDir serves.                *)
THEOREM RangesSuitBodies ==
  Spec => [](Suitable /\ \A k \in 1 .. Len(ranges) : Servable(ranges[k]))
<1> USE RangeAssumption
<1>1. Init => ServableInv
  <2> SUFFICES ASSUME Init PROVE ServableInv
    OBVIOUS
  <2>1. ranges = <<>> /\ done = 0
    BY DEF Init
  <2>2. Len(specs) <= MaxSpecs
    <3>1. CASE \E n \in 1 .. MaxSpecs : specs \in [1 .. n -> Specs]
      <4>1. PICK n \in 1 .. MaxSpecs : specs \in [1 .. n -> Specs]
        BY <3>1
      <4>2. n \in Nat /\ n <= MaxSpecs /\ Len(specs) = n
        BY <4>1
      <4> QED BY <4>2
    <3>2. CASE specs = <<Bad>>
      BY <3>2
    <3> QED BY <3>1, <3>2 DEF Init
  <2> QED BY <2>1, <2>2 DEF ServableInv
<1>2. IInv /\ ServableInv /\ [Next]_vars => ServableInv'
  BY ServableSteps
<1>3. IInv /\ ServableInv => Suitable
  <2> SUFFICES ASSUME IInv, ServableInv, NEW m \in {"GET", "HEAD"}, NEW debug \in BOOLEAN,
                      NEW h \in Nat, NEW c \in Nat, NEW e \in Nat, NEW t \in Nat, NEW l \in Nat
               PROVE  Response(m, debug, h, c, e, t, l)!Init
    BY DEF Suitable
  <2>1. /\ len \in 0 .. MaxLen /\ len \in Nat /\ done \in 0 .. Len(specs) /\ Len(specs) \in Nat
        /\ ranges \in Seq([start : U64, end : U64]) /\ Len(ranges) \in Nat
    BY DEF IInv, TypeOK
  <2>2. Len(ranges) \in 0 .. MaxSpecs
    BY <2>1 DEF ServableInv
  <2>3. ASSUME NEW k \in 1 .. Len(ranges) PROVE ranges[k].end - ranges[k].start \in 0 .. len
    BY <2>1 DEF ServableInv, Servable
  <2>4. Sizes \in [1 .. Len(ranges) -> 0 .. len]
    BY <2>3 DEF Sizes
  <2> QED BY <2>1, <2>2, <2>4 DEF Response!Init, Response!None
<1>4. ServableInv => \A k \in 1 .. Len(ranges) : Servable(ranges[k])
  BY DEF ServableInv
<1> QED BY <1>1, <1>2, <1>3, <1>4, ParseInvariant, PTL DEF Spec
=============================================================================
