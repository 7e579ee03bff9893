---------------------------- MODULE Wire_proofs ----------------------------
(***************************************************************************)
(* From values to bytes and back, for every size of the numbers, of the    *)
(* buffer and of the name lists and for all values a message may carry.    *)
(*                                                                         *)
(* First Wire: server and client settle on the same algorithms; what was   *)
(* written and arrived as it was is read as it was written; what is        *)
(* accepted, whatever happened to it on the way, is the encoding of what   *)
(* was read.  The codecs are loops over digits and fields, so the lemmas   *)
(* on numbers, on sequences of fields and on their bytes are inductions    *)
(* over the position (RoundByRound), with the way through a message (Path) *)
(* and where its fields end (Layout) as sequences the invariant speaks of. *)
(*                                                                         *)
(* Then PacketStream: the reader of packets never loses its place in the   *)
(* stream, for all block and packet lengths and any number of packets.     *)
(***************************************************************************)
EXTENDS Wire, PacketStream, TLAPS, FiniteSetTheorems, WellFoundedInduction

\* What holds at first and is kept by every round holds after the last one.
LEMMA RoundByRound ==
    ASSUME NEW n \in Nat, NEW T, 0 \in T, \A i \in 1..n : i - 1 \in T => i \in T
    PROVE  \A i \in 0..n : i \in T
<1> DEFINE B == {i \in Nat : i \in 0..n /\ i \notin T}
<1>1. SUFFICES ASSUME B # {} PROVE FALSE
    BY DEF B
<1>2. B \subseteq Nat
    BY DEF B
<1> HIDE DEF B
<1>3. PICK i \in B : \A m \in B : ~(<<m, i>> \in OpToRel(<, Nat))
    BY <1>1, <1>2, NatLessThanWellFounded, WFMin
<1>4. i \in Nat /\ i \in 0..n /\ i \notin T
    BY <1>3 DEF B
<1>5. i \in 1..n /\ i - 1 \in Nat /\ i - 1 \in 0..n /\ i - 1 < i
    BY <1>4
<1>6. <<i - 1, i>> \in OpToRel(<, Nat)
    BY <1>4, <1>5 DEF OpToRel
<1>7. i - 1 \notin B
    BY <1>3, <1>6
<1>8. i - 1 \in T
    BY <1>5, <1>7 DEF B
<1> QED BY <1>4, <1>5, <1>8

-----------------------------------------------------------------------------
(* The choice of an algorithm.                                             *)

\* A set of numbers that is not empty has a smallest one.
LEMMA Smallest ==
    ASSUME NEW S, S \subseteq Nat, S # {}
    PROVE  \E i \in S : \A j \in S : i <= j
<1>1. PICK i \in S : \A m \in S : ~(<<m, i>> \in OpToRel(<, Nat))
    BY NatLessThanWellFounded, WFMin
<1>2. ASSUME NEW j \in S PROVE i <= j
    <2>1. i \in Nat /\ j \in Nat
        OBVIOUS
    <2>2. ~(j < i)
        BY <1>1, <2>1 DEF OpToRel
    <2> QED BY <2>1, <2>2
<1> QED BY <1>2

\* The names of a list are numbered.
LEMMA NamesNumbered == ASSUME NEW s PROVE DOMAIN ListNames(s) \subseteq Nat
<1>1. ASSUME NEW x PROVE 1..x \subseteq Nat
    OBVIOUS
<1> QED BY <1>1 DEF ListNames

\* The first name of a that b has as well is one of them.
LEMMA FirstIs ==
    ASSUME NEW a, NEW b, DOMAIN a \subseteq Nat,
           NEW x \in DOMAIN a, a[x] \in Range(b)
    PROVE  \E i \in DOMAIN a : /\ First(a, b) = a[i] /\ a[i] \in Range(b)
                               /\ \A j \in DOMAIN a : a[j] \in Range(b) => i <= j
<1> DEFINE hits == {i \in DOMAIN a : a[i] \in Range(b)}
           m == CHOOSE i \in hits : \A j \in hits : i <= j
<1>1. hits # {} /\ hits \subseteq Nat
    OBVIOUS
<1>2. \E i \in hits : \A j \in hits : i <= j
    <2> HIDE DEF hits
    <2> QED BY <1>1, Smallest
<1>3. m \in hits /\ \A j \in hits : m <= j
    <2> HIDE DEF hits
    <2> QED BY <1>2
<1>4. First(a, b) = a[m]
    BY <1>1 DEF First
<1> HIDE DEF m
<1> QED BY <1>3, <1>4

\* With lists that order their common names alike it does not matter whose
\* list goes first.
LEMMA FirstCommon ==
    ASSUME NEW a, NEW b, DOMAIN a \subseteq Nat, DOMAIN b \subseteq Nat, SameOrder(a, b)
    PROVE  First(b, a) = First(a, b)
<1>1. CASE \A i \in DOMAIN a : a[i] \notin Range(b)
    <2>1. \A i \in DOMAIN b : b[i] \notin Range(a)
        BY <1>1 DEF Range
    <2> QED BY <1>1, <2>1 DEF First
<1>2. CASE \E i \in DOMAIN a : a[i] \in Range(b)
    <2>1. PICK x \in DOMAIN a, y \in DOMAIN b : a[x] = b[y]
        BY <1>2 DEF Range
    <2>2. a[x] \in Range(b) /\ b[y] \in Range(a)
        BY <2>1 DEF Range
    <2>3. PICK i \in DOMAIN a : /\ First(a, b) = a[i] /\ a[i] \in Range(b)
                                /\ \A j \in DOMAIN a : a[j] \in Range(b) => i <= j
        BY <2>2, FirstIs
    <2>4. PICK k \in DOMAIN b : /\ First(b, a) = b[k] /\ b[k] \in Range(a)
                                /\ \A l \in DOMAIN b : b[l] \in Range(a) => k <= l
        BY <2>2, FirstIs
    <2>5. PICK j \in DOMAIN a : a[j] = b[k]
        BY <2>4 DEF Range
    <2>6. PICK l \in DOMAIN b : a[i] = b[l]
        BY <2>3 DEF Range
    <2>7. i <= j /\ k <= l
        BY <2>3, <2>4, <2>5, <2>6 DEF Range
    <2>8. i \in Nat /\ j \in Nat /\ k \in Nat /\ l \in Nat
        OBVIOUS
    <2>9. ~(i < j)
        <3> SUFFICES ASSUME i < j PROVE FALSE
            OBVIOUS
        <3>1. l < k
            BY <2>5, <2>6 DEF SameOrder
        <3> QED BY <2>7, <2>8, <3>1
    <2>10. i = j
        BY <2>7, <2>8, <2>9
    <2> QED BY <2>3, <2>4, <2>5, <2>10
<1> QED BY <1>1, <1>2

\* What was chosen was chosen, at the end, from what was read.
ChoiceInv ==
    \/ chosen = << >>
    \/ /\ mode = "done"
       /\ chosen = [i \in 1..NameLists |-> FirstMatch(Lists(got)[i], ServerLists[i])]
       /\ \A i \in 1..NameLists : ~Fails(i, Lists(got)[i])

\* Server and client settle on the same algorithms, for every offer of the
\* client: select_first_match goes by the server's list, a client by its own,
\* and that makes no difference unless the lists contradict each other; an
\* exchange that goes on has settled everything but the languages.
THEOREM SameChoiceSafe == WireSpec => []SameChoice
<1>1. WireInit => ChoiceInv
    BY DEF WireInit, ChoiceInv
<1>2. ChoiceInv /\ [WireNext]_wireVars => ChoiceInv'
    <2> SUFFICES ASSUME ChoiceInv, [WireNext]_wireVars PROVE ChoiceInv'
        OBVIOUS
    <2>1. CASE Put \/ Finish \/ Transmit \/ Get \/ EndMessage
        <3>1. mode # "done" /\ chosen' = chosen
            BY <2>1 DEF Put, Finish, Transmit, Get, EndMessage
        <3> QED BY <3>1 DEF ChoiceInv
    <2>2. CASE Negotiate
        <3>1. mode' = "done" /\ got' = got /\ chosen = << >>
            BY <2>2 DEF Negotiate
        <3>2. \/ chosen' = chosen
              \/ /\ chosen' = [i \in 1..NameLists |-> FirstMatch(Lists(got)[i], ServerLists[i])]
                 /\ \A i \in 1..NameLists : ~Fails(i, Lists(got)[i])
            BY <2>2 DEF Negotiate
        <3>3. Lists(got)' = Lists(got)
            BY <3>1
        <3>4. \A i : Fails(i, Lists(got)[i])' = Fails(i, Lists(got)[i])
            BY <3>1 DEF Fails
        <3> QED BY <3>1, <3>2, <3>3, <3>4 DEF ChoiceInv
    <2>3. CASE UNCHANGED wireVars
        BY <2>3 DEF ChoiceInv, wireVars
    <2> QED BY <2>1, <2>2, <2>3 DEF WireNext
<1>3. ChoiceInv => SameChoice
    <2> SUFFICES ASSUME ChoiceInv, NEW i \in DOMAIN chosen
                 PROVE  /\ SameOrder(ListNames(Lists(got)[i]), ListNames(ServerLists[i]))
                            => chosen[i] = First(ListNames(Lists(got)[i]), ListNames(ServerLists[i]))
                        /\ i \notin Languages => chosen[i] # << >>
        BY DEF SameChoice
    <2>1. chosen[i] = FirstMatch(Lists(got)[i], ServerLists[i]) /\ ~Fails(i, Lists(got)[i])
        <3>1. DOMAIN << >> = {}
            OBVIOUS
        <3>2. i \in 1..NameLists
            BY <3>1 DEF ChoiceInv
        <3> QED BY <3>1, <3>2 DEF ChoiceInv
    <2>2. i \notin Languages => chosen[i] # << >>
        BY <2>1 DEF Fails
    <2> QED BY <2>1, <2>2, NamesNumbered, FirstCommon DEF FirstMatch
<1> QED BY <1>1, <1>2, <1>3, PTL DEF WireSpec

-----------------------------------------------------------------------------
(* Numbers.                                                                *)

LEMMA ShiftedSteps ==
    ASSUME NEW m, NEW width \in Nat
    PROVE  /\ DOMAIN Shifted(m, width) = 0..width
           /\ Shifted(m, width)[0] = m
           /\ \A k \in 1..width :
                 Shifted(m, width)[k] = Shifted(m, width)[k - 1] \div Base
<1> DEFINE n == width
           Step(a, i) == a \div Base
           To(k, g) == [i \in 0..k |-> IF i = 0 THEN m ELSE Step(g[i - 1], i)]
           T == {k \in 0..n : \E g : g = To(k, g)}
<1>0. n \in Nat
    OBVIOUS
<1> HIDE DEF n
<1>1. 0 \in T
    <2> DEFINE g == [i \in 0..0 |-> m]
    <2>1. g = To(0, g)
        OBVIOUS
    <2> HIDE DEF g
    <2>2. \E h : h = To(0, h)
        BY <2>1
    <2>3. 0 \in 0..n
        BY <1>0
    <2> HIDE DEF To
    <2> QED BY <2>2, <2>3
<1>2. ASSUME NEW k \in 1..n, k - 1 \in T PROVE k \in T
    <2>1. PICK g : g = To(k - 1, g)
        BY <1>2
    <2> DEFINE h == [i \in 0..k |-> IF i = k THEN Step(g[k - 1], k) ELSE g[i]]
    <2>0. k \in Nat /\ k # 0 /\ k \in 0..n
        BY <1>0
    <2> HIDE DEF Step
    <2>2. ASSUME NEW i \in 0..k PROVE h[i] = IF i = 0 THEN m ELSE Step(h[i - 1], i)
        <3>1. CASE i = k
            <4>1. k - 1 \in 0..k /\ k - 1 # k
                BY <2>0
            <4>2. h[k - 1] = g[k - 1]
                BY <4>1
            <4> QED BY <2>0, <3>1, <4>2
        <3>2. CASE i # k
            <4>1. i \in 0..(k - 1)
                BY <2>0, <3>2
            <4>2. g[i] = IF i = 0 THEN m ELSE Step(g[i - 1], i)
                BY <2>1, <4>1
            <4>3. i # 0 => i - 1 \in 0..k /\ i - 1 # k
                BY <2>0, <4>1
            <4> QED BY <3>2, <4>2, <4>3
        <3> QED BY <3>1, <3>2
    <2>3. h = [i \in 0..k |-> h[i]]
        OBVIOUS
    <2> HIDE DEF h
    <2>4. h = To(k, h)
        BY <2>2, <2>3
    <2> QED BY <2>0, <2>4 DEF Step
<1>3. \E g : g = To(n, g)
    <2>1. n \in T
        <3> HIDE DEF T
        <3>1. \A i \in 0..n : i \in T
            BY <1>0, <1>1, <1>2, RoundByRound
        <3> QED BY <1>0, <3>1
    <2> QED BY <2>1
<1>4. Shifted(m, width) = CHOOSE g : g = To(n, g)
    BY DEF Shifted, n
<1> DEFINE g == Shifted(m, width)
<1>5. g = To(n, g)
    <2> HIDE DEF To
    <2> QED BY <1>3, <1>4
<1> HIDE DEF g, Step
<1>6. g[0] = m /\ DOMAIN g = 0..n
    BY <1>0, <1>5
<1>7. \A i \in 1..n : g[i] = Step(g[i - 1], i)
    BY <1>0, <1>5
<1> QED BY <1>6, <1>7 DEF g, Step, n

LEMMA NumberSteps ==
    ASSUME NEW s, Len(s) \in Nat
    PROVE  /\ DOMAIN NumberAfter(s) = 0..Len(s)
           /\ NumberAfter(s)[0] = 0
           /\ \A i \in 1..Len(s) :
                 NumberAfter(s)[i] = NumberAfter(s)[i - 1] * Base + s[i]
<1> DEFINE n == Len(s)
           Step(a, i) == a * Base + s[i]
           To(k, g) == [i \in 0..k |-> IF i = 0 THEN 0 ELSE Step(g[i - 1], i)]
           T == {k \in 0..n : \E g : g = To(k, g)}
<1>0. n \in Nat
    OBVIOUS
<1> HIDE DEF n
<1>1. 0 \in T
    <2> DEFINE g == [i \in 0..0 |-> 0]
    <2>1. g = To(0, g)
        OBVIOUS
    <2> HIDE DEF g
    <2>2. \E h : h = To(0, h)
        BY <2>1
    <2>3. 0 \in 0..n
        BY <1>0
    <2> HIDE DEF To
    <2> QED BY <2>2, <2>3
<1>2. ASSUME NEW k \in 1..n, k - 1 \in T PROVE k \in T
    <2>1. PICK g : g = To(k - 1, g)
        BY <1>2
    <2> DEFINE h == [i \in 0..k |-> IF i = k THEN Step(g[k - 1], k) ELSE g[i]]
    <2>0. k \in Nat /\ k # 0 /\ k \in 0..n
        BY <1>0
    <2> HIDE DEF Step
    <2>2. ASSUME NEW i \in 0..k PROVE h[i] = IF i = 0 THEN 0 ELSE Step(h[i - 1], i)
        <3>1. CASE i = k
            <4>1. k - 1 \in 0..k /\ k - 1 # k
                BY <2>0
            <4>2. h[k - 1] = g[k - 1]
                BY <4>1
            <4> QED BY <2>0, <3>1, <4>2
        <3>2. CASE i # k
            <4>1. i \in 0..(k - 1)
                BY <2>0, <3>2
            <4>2. g[i] = IF i = 0 THEN 0 ELSE Step(g[i - 1], i)
                BY <2>1, <4>1
            <4>3. i # 0 => i - 1 \in 0..k /\ i - 1 # k
                BY <2>0, <4>1
            <4> QED BY <3>2, <4>2, <4>3
        <3> QED BY <3>1, <3>2
    <2>3. h = [i \in 0..k |-> h[i]]
        OBVIOUS
    <2> HIDE DEF h
    <2>4. h = To(k, h)
        BY <2>2, <2>3
    <2> QED BY <2>0, <2>4 DEF Step
<1>3. \E g : g = To(n, g)
    <2>1. n \in T
        <3> HIDE DEF T
        <3>1. \A i \in 0..n : i \in T
            BY <1>0, <1>1, <1>2, RoundByRound
        <3> QED BY <1>0, <3>1
    <2> QED BY <2>1
<1>4. NumberAfter(s) = CHOOSE g : g = To(n, g)
    BY DEF NumberAfter, n
<1> DEFINE g == NumberAfter(s)
<1>5. g = To(n, g)
    <2> HIDE DEF To
    <2> QED BY <1>3, <1>4
<1> HIDE DEF g, Step
<1>6. g[0] = 0 /\ DOMAIN g = 0..n
    BY <1>0, <1>5
<1>7. \A i \in 1..n : g[i] = Step(g[i - 1], i)
    BY <1>0, <1>5
<1> QED BY <1>6, <1>7 DEF g, Step, n

\* The length of a field.
Size(f) == Len(Encoded(f[1], f[2]))

LEMMA EndsSteps ==
    ASSUME NEW fields, Len(fields) \in Nat
    PROVE  /\ DOMAIN Ends(fields) = 0..Len(fields)
           /\ Ends(fields)[0] = 0
           /\ \A i \in 1..Len(fields) :
                 Ends(fields)[i] = Ends(fields)[i - 1] + Size(fields[i])
<1> DEFINE n == Len(fields)
           Step(a, i) == a + Size(fields[i])
           To(k, g) == [i \in 0..k |-> IF i = 0 THEN 0 ELSE Step(g[i - 1], i)]
           T == {k \in 0..n : \E g : g = To(k, g)}
<1>0. n \in Nat
    OBVIOUS
<1> HIDE DEF n
<1>1. 0 \in T
    <2> DEFINE g == [i \in 0..0 |-> 0]
    <2>1. g = To(0, g)
        OBVIOUS
    <2> HIDE DEF g
    <2>2. \E h : h = To(0, h)
        BY <2>1
    <2>3. 0 \in 0..n
        BY <1>0
    <2> HIDE DEF To
    <2> QED BY <2>2, <2>3
<1>2. ASSUME NEW k \in 1..n, k - 1 \in T PROVE k \in T
    <2>1. PICK g : g = To(k - 1, g)
        BY <1>2
    <2> DEFINE h == [i \in 0..k |-> IF i = k THEN Step(g[k - 1], k) ELSE g[i]]
    <2>0. k \in Nat /\ k # 0 /\ k \in 0..n
        BY <1>0
    <2> HIDE DEF Step
    <2>2. ASSUME NEW i \in 0..k PROVE h[i] = IF i = 0 THEN 0 ELSE Step(h[i - 1], i)
        <3>1. CASE i = k
            <4>1. k - 1 \in 0..k /\ k - 1 # k
                BY <2>0
            <4>2. h[k - 1] = g[k - 1]
                BY <4>1
            <4> QED BY <2>0, <3>1, <4>2
        <3>2. CASE i # k
            <4>1. i \in 0..(k - 1)
                BY <2>0, <3>2
            <4>2. g[i] = IF i = 0 THEN 0 ELSE Step(g[i - 1], i)
                BY <2>1, <4>1
            <4>3. i # 0 => i - 1 \in 0..k /\ i - 1 # k
                BY <2>0, <4>1
            <4> QED BY <3>2, <4>2, <4>3
        <3> QED BY <3>1, <3>2
    <2>3. h = [i \in 0..k |-> h[i]]
        OBVIOUS
    <2> HIDE DEF h
    <2>4. h = To(k, h)
        BY <2>2, <2>3
    <2> QED BY <2>0, <2>4 DEF Step
<1>3. \E g : g = To(n, g)
    <2>1. n \in T
        <3> HIDE DEF T
        <3>1. \A i \in 0..n : i \in T
            BY <1>0, <1>1, <1>2, RoundByRound
        <3> QED BY <1>0, <3>1
    <2> QED BY <2>1
<1>4. Ends(fields) = CHOOSE g : g = To(n, g)
    BY DEF Ends, Size, n
<1> DEFINE g == Ends(fields)
<1>5. g = To(n, g)
    <2> HIDE DEF To
    <2> QED BY <1>3, <1>4
<1> HIDE DEF g, Step
<1>6. g[0] = 0 /\ DOMAIN g = 0..n
    BY <1>0, <1>5
<1>7. \A i \in 1..n : g[i] = Step(g[i - 1], i)
    BY <1>0, <1>5
<1> QED BY <1>6, <1>7 DEF g, Step, n

LEMMA DivMod ==
    ASSUME NEW n \in Nat, NEW B \in Nat, B > 0
    PROVE  \E q \in Nat, r \in 0..(B - 1) :
               n \div B = q /\ n % B = r /\ n = q * B + r
<1>1. n \div B \in Int
    OBVIOUS
<1>2. n % B \in 0..(B - 1)
    OBVIOUS
<1>3. n % B = n - B * (n \div B)
    BY Z3
<1>4. n \div B >= 0
    OBVIOUS
<1>5. PICK q \in Nat : q = n \div B
    BY <1>1, <1>4
<1>6. PICK r \in 0..(B - 1) : r = n % B
    BY <1>2
<1>7. r = n - B * q
    BY <1>3, <1>5, <1>6
<1>8. n = q * B + r
    BY <1>7
<1> QED BY <1>5, <1>6, <1>8

LEMMA DivIs ==
    ASSUME NEW q \in Nat, NEW B \in Nat, B > 0, NEW r \in 0..(B - 1)
    PROVE  (q * B + r) \div B = q /\ (q * B + r) % B = r
OBVIOUS

LEMMA DivGrows ==
    ASSUME NEW m \in Nat, NEW n \in Nat, m <= n, NEW B \in Nat, B > 0
    PROVE  m \div B <= n \div B
OBVIOUS

LEMMA BaseNat == Base \in Nat /\ Base > 7 /\ Word \in Nat /\ Word > 0
BY SizesAssumption

LEMMA ShiftedNat ==
    ASSUME NEW n \in Nat, NEW width \in Nat, NEW k \in 0..width
    PROVE  Shifted(n, width)[k] \in Nat
<1> DEFINE T == {i \in 0..width : Shifted(n, width)[i] \in Nat}
<1>1. 0 \in T
    BY ShiftedSteps
<1>2. ASSUME NEW i \in 1..width, i - 1 \in T PROVE i \in T
    <2>1. PICK a \in Nat : a = Shifted(n, width)[i - 1]
        BY <1>2
    <2>2. Shifted(n, width)[i] = a \div Base
        BY <2>1, ShiftedSteps
    <2>3. a \div Base \in Nat
        BY BaseNat, DivMod
    <2> QED BY <2>2, <2>3
<1> HIDE DEF T
<1>3. k \in T
    BY <1>1, <1>2, RoundByRound
<1> QED BY <1>3 DEF T

LEMMA DigitsAre ==
    ASSUME NEW n \in Nat, NEW width \in Nat
    PROVE  /\ Digits(n, width) \in Seq(Byte) /\ Len(Digits(n, width)) = width
           /\ \A i \in 1..width : Digits(n, width)[i] = Shifted(n, width)[width - i] % Base
<1>1. ASSUME NEW i \in 1..width PROVE Shifted(n, width)[width - i] % Base \in Byte
    <2>0. width - i \in 0..width
        OBVIOUS
    <2>1. PICK a \in Nat : a = Shifted(n, width)[width - i]
        BY <2>0, ShiftedNat
    <2>2. a % Base \in 0..(Base - 1)
        BY BaseNat, DivMod
    <2> QED BY <2>1, <2>2 DEF Byte
<1>2. Digits(n, width) \in [1..width -> Byte]
    BY <1>1 DEF Digits
<1> QED BY <1>2 DEF Digits

LEMMA NumberNat ==
    ASSUME NEW s \in Seq(Byte), NEW k \in 0..Len(s)
    PROVE  NumberAfter(s)[k] \in Nat
<1> DEFINE T == {i \in 0..Len(s) : NumberAfter(s)[i] \in Nat}
<1>0. Len(s) \in Nat
    OBVIOUS
<1>1. 0 \in T
    BY <1>0, NumberSteps
<1>2. ASSUME NEW i \in 1..Len(s), i - 1 \in T PROVE i \in T
    <2>1. PICK a \in Nat : a = NumberAfter(s)[i - 1]
        BY <1>2
    <2>2. NumberAfter(s)[i] = a * Base + s[i]
        BY <1>0, <2>1, NumberSteps
    <2>3. s[i] \in Nat
        BY BaseNat DEF Byte
    <2>4. a * Base \in Nat
        BY BaseNat
    <2>5. a * Base + s[i] \in Nat
        BY <2>3, <2>4
    <2> QED BY <2>2, <2>5
<1> HIDE DEF T
<1>3. k \in T
    BY <1>0, <1>1, <1>2, RoundByRound
<1> QED BY <1>3 DEF T

\* What is written with enough digits is read as it was.
LEMMA NumberOfDigits ==
    ASSUME NEW n, NEW width \in Nat, Fits(n, width)
    PROVE  Number(Digits(n, width)) = n
<1> DEFINE s == Digits(n, width)
           q == Shifted(n, width)
           T == {i \in 0..width : NumberAfter(s)[i] = q[width - i]}
<1>0. n \in Nat /\ q[width] = 0
    BY DEF Fits
<1>1. s \in Seq(Byte) /\ Len(s) = width /\ \A i \in 1..width : s[i] = q[width - i] % Base
    BY <1>0, DigitsAre
<1> HIDE DEF s
<1>2. 0 \in T
    BY <1>0, <1>1, NumberSteps
<1>3. ASSUME NEW i \in 1..width, i - 1 \in T PROVE i \in T
    <2>1. width - i \in 0..width /\ width - (i - 1) = (width - i) + 1 /\ (width - i) + 1 \in 1..width
          /\ ((width - i) + 1) - 1 = width - i
        OBVIOUS
    <2>2. PICK a \in Nat : a = q[width - i]
        BY <1>0, <2>1, ShiftedNat
    <2>3. q[(width - i) + 1] = a \div Base
        BY <2>1, <2>2, ShiftedSteps
    <2>4. PICK b \in Nat, r \in 0..(Base - 1) : a \div Base = b /\ a % Base = r /\ a = b * Base + r
        BY BaseNat, DivMod
    <2>5. NumberAfter(s)[i - 1] = b
        BY <1>3, <2>1, <2>3, <2>4
    <2>6. s[i] = r
        BY <1>1, <2>2, <2>4
    <2>7. NumberAfter(s)[i] = b * Base + r
        BY <1>1, <2>5, <2>6, NumberSteps
    <2>8. NumberAfter(s)[i] = q[width - i]
        BY <2>2, <2>4, <2>7
    <2>9. i \in 0..width
        OBVIOUS
    <2> HIDE DEF q
    <2> QED BY <2>8, <2>9
<1> HIDE DEF T
<1>4. width \in T
    BY <1>2, <1>3, RoundByRound
<1>5. NumberAfter(s)[width] = q[width - width] /\ width - width = 0
    BY <1>4 DEF T
<1>6. q[0] = n
    BY ShiftedSteps
<1> QED BY <1>1, <1>5, <1>6 DEF Number, s

\* Digits that were read are written as they were.
LEMMA DigitsOfNumber ==
    ASSUME NEW s \in Seq(Byte)
    PROVE  Digits(Number(s), Len(s)) = s
<1> DEFINE w == Len(s)
           n == Number(s)
           q == Shifted(n, w)
           T == {i \in 0..w : q[i] = NumberAfter(s)[w - i]}
<1>0. w \in Nat /\ n \in Nat /\ n = NumberAfter(s)[w]
    BY NumberNat DEF Number
<1> HIDE DEF n
<1>1. 0 \in T
    BY <1>0, ShiftedSteps
<1>2. ASSUME NEW i \in 1..w
      PROVE  \E a \in Nat, r \in 0..(Base - 1) :
                 /\ a = NumberAfter(s)[w - i] /\ r = s[(w - i) + 1]
                 /\ NumberAfter(s)[w - (i - 1)] = a * Base + r
                 /\ NumberAfter(s)[w - (i - 1)] \div Base = a
                 /\ NumberAfter(s)[w - (i - 1)] % Base = r
    <2>1. /\ w - i \in 0..w /\ w - (i - 1) = (w - i) + 1 /\ (w - i) + 1 \in 1..w
          /\ ((w - i) + 1) - 1 = w - i
        BY <1>0
    <2>2. PICK a \in Nat : a = NumberAfter(s)[w - i]
        BY <2>1, NumberNat
    <2>30. s[(w - i) + 1] \in Byte
        BY <2>1
    <2>3. PICK r \in 0..(Base - 1) : r = s[(w - i) + 1]
        BY <2>30 DEF Byte
    <2>4. NumberAfter(s)[(w - i) + 1] = a * Base + r
        BY <1>0, <2>1, <2>2, <2>3, NumberSteps
    <2>5. (a * Base + r) \div Base = a /\ (a * Base + r) % Base = r
        BY BaseNat, DivIs
    <2> QED BY <2>1, <2>2, <2>3, <2>4, <2>5
<1>3. ASSUME NEW i \in 1..w, i - 1 \in T PROVE i \in T
    <2>1. q[i] = q[i - 1] \div Base
        BY <1>0, ShiftedSteps
    <2>2. q[i - 1] = NumberAfter(s)[w - (i - 1)]
        BY <1>3
    <2>3. NumberAfter(s)[w - (i - 1)] \div Base = NumberAfter(s)[w - i]
        BY <1>2
    <2>4. i \in 0..w
        BY <1>0
    <2> HIDE DEF q
    <2> QED BY <2>1, <2>2, <2>3, <2>4
<1>4. \A i \in 0..w : q[i] = NumberAfter(s)[w - i]
    <2> HIDE DEF T
    <2>1. \A i \in 0..w : i \in T
        BY <1>0, <1>1, <1>3, RoundByRound
    <2> QED BY <2>1 DEF T
<1>5. ASSUME NEW i \in 1..w PROVE Digits(n, w)[i] = s[i]
    <2>1. w - i \in 0..w /\ w - (w - i) = i /\ (w - i) + 1 \in 1..w
          /\ w - (((w - i) + 1) - 1) = i /\ (w - ((w - i) + 1)) + 1 = i
        BY <1>0
    <2>2. q[w - i] = NumberAfter(s)[i]
        BY <1>4, <2>1
    <2>3. NumberAfter(s)[i] % Base = s[i]
        BY <1>2, <2>1
    <2> HIDE DEF q
    <2> QED BY <1>0, <2>2, <2>3, DigitsAre DEF q
<1>6. Digits(n, w) \in Seq(Byte) /\ Len(Digits(n, w)) = w
    BY <1>0, DigitsAre
<1> HIDE DEF w
<1>7. Digits(n, w) = s
    BY <1>5, <1>6 DEF w
<1> QED BY <1>7 DEF n, w

\* What is smaller fits as well.
LEMMA FitsLess ==
    ASSUME NEW n, NEW width \in Nat, Fits(n, width), NEW m \in Nat, m <= n
    PROVE  Fits(m, width)
<1> DEFINE T == {i \in 0..width : Shifted(m, width)[i] <= Shifted(n, width)[i]}
<1>0. n \in Nat
    BY DEF Fits
<1>1. 0 \in T
    BY ShiftedSteps
<1>2. ASSUME NEW i \in 1..width, i - 1 \in T PROVE i \in T
    <2>1. PICK a \in Nat, b \in Nat : a = Shifted(m, width)[i - 1] /\ b = Shifted(n, width)[i - 1]
        BY <1>0, ShiftedNat
    <2>2. a \div Base <= b \div Base
        BY <1>2, <2>1, BaseNat, DivGrows
    <2>3. Shifted(m, width)[i] = a \div Base /\ Shifted(n, width)[i] = b \div Base
        BY <2>1, ShiftedSteps
    <2> QED BY <2>2, <2>3
<1> HIDE DEF T
<1>3. width \in T
    BY <1>1, <1>2, RoundByRound
<1>4. Shifted(m, width)[width] <= 0
    BY <1>3 DEF T, Fits
<1>5. Shifted(m, width)[width] \in Nat
    BY ShiftedNat
<1> QED BY <1>4, <1>5 DEF Fits

-----------------------------------------------------------------------------
(* The fields still to come.                                               *)

Kinds == {"id", "chan", "bool", "wish", "signed", "u32", "pos", "zero", "attrs",
          "putattrs", "count", "frame", "u64", "mpint", "fixed", "cookie", "rest",
          "rest4", "str", "name", "blob", "list", "reqtype", "method", "service",
          "refused"}

\* What takes all that is left comes last; the request type comes before
\* want_reply, and what the server does not support right after it; a frame
\* starts with its length; the integers are those of signatures.
Shaped(f, t) ==
    /\ t \in Seq(Kinds)
    /\ \A i \in 1..Len(t) :
        /\ t[i] \in {"rest", "rest4"} => i = Len(t)
        /\ t[i] = "frame" => i = 1
        /\ t[i] = "reqtype" =>
              f = "channel_message" /\ i = Len(t) - 1 /\ t[Len(t)] = "wish"
        /\ t[i] = "signed" => \A j \in 1..Len(t) : t[j] \in {"signed", "name"}
        /\ t[i] = "refused" => /\ f = "channel_message" /\ i = Len(t)
                               /\ Len(t) = 1 \/ (Len(t) = 2 /\ t[1] = "wish")
        /\ t[i] \in {"mpint", "fixed"} => f \in {"hostkey_signature", "user_signature"}
        /\ t[i] = "chan" => f = "channel_message" /\ Len(t) = 1

NoFrame(t) == \A i \in 1..Len(t) : t[i] # "frame"

\* The kinds that may stand anywhere.
Simple == {"id", "bool", "wish", "u32", "pos", "zero", "attrs", "putattrs", "count",
           "u64", "cookie", "str", "name", "blob", "list", "method", "service"}

\* Simple fields, and possibly all the rest.
Tame(t) ==
    /\ t \in Seq(Kinds)
    /\ \A i \in 1..Len(t) : t[i] \in Simple \/ (t[i] \in {"rest", "rest4"} /\ i = Len(t))

LEMMA TameShaped ==
    ASSUME NEW f, NEW t, Tame(t)
    PROVE  Shaped(f, t) /\ NoFrame(t)
<1> SUFFICES ASSUME NEW i \in 1..Len(t)
    PROVE  /\ t[i] \in {"rest", "rest4"} => i = Len(t)
           /\ t[i] \notin {"frame", "reqtype", "signed", "refused", "chan", "mpint", "fixed"}
    BY DEF Shaped, NoFrame, Tame
<1>1. CASE t[i] \in Simple
    BY <1>1 DEF Simple
<1>2. CASE t[i] \in {"rest", "rest4"} /\ i = Len(t)
    BY <1>2
<1> QED BY <1>1, <1>2 DEF Tame

LEMMA SimpleTame ==
    ASSUME NEW t \in Seq(Simple)
    PROVE  Tame(t)
<1>1. Simple \subseteq Kinds
    BY DEF Simple, Kinds
<1>2. t \in Seq(Kinds)
    BY <1>1
<1>3. \A i \in 1..Len(t) : t[i] \in Simple
    OBVIOUS
<1> QED BY <1>2, <1>3 DEF Tame

LEMMA RestTame ==
    ASSUME NEW t \in Seq(Simple), NEW k \in {"rest", "rest4"}
    PROVE  Tame(Append(t, k))
<1> DEFINE u == Append(t, k)
<1>1. /\ \A i \in 1..Len(t) : u[i] \in Simple
      /\ Len(u) = Len(t) + 1 /\ u[Len(t) + 1] = k /\ Len(t) \in Nat
    OBVIOUS
<1>2. k \in Kinds /\ t \in Seq(Kinds)
    BY SimpleTame DEF Tame, Kinds
<1>3. u \in Seq(Kinds)
    BY <1>2
<1> HIDE DEF u
<1>4. \A i \in 1..Len(u) : u[i] \in Simple \/ (u[i] = k /\ i = Len(u))
    BY <1>1
<1>5. Tame(u)
    BY <1>3, <1>4 DEF Tame
<1> QED BY <1>5 DEF u

\* The length in front of a frame.
LEMMA FrameShaped ==
    ASSUME NEW f, NEW t, Tame(t)
    PROVE  Shaped(f, <<"frame">> \o t)
<1> DEFINE u == <<"frame">> \o t
<1>1. t \in Seq(Kinds) /\ Len(t) \in Nat
    BY DEF Tame
<1>2. u \in Seq(Kinds)
    <2>1. <<"frame">> \in Seq(Kinds)
        BY DEF Kinds
    <2> QED BY <1>1, <2>1
<1>3. /\ Len(u) = Len(t) + 1 /\ u[1] = "frame"
      /\ \A i \in 2..Len(u) : i - 1 \in 1..Len(t) /\ u[i] = t[i - 1]
    BY <1>1
<1> HIDE DEF u
<1>4. ASSUME NEW i \in 1..Len(u)
      PROVE  /\ u[i] \in {"rest", "rest4"} => i = Len(u)
             /\ u[i] = "frame" => i = 1
             /\ u[i] \notin {"reqtype", "signed", "refused", "chan", "mpint", "fixed"}
    <2>1. CASE i = 1
        BY <1>3, <2>1
    <2>2. CASE i # 1
        <3>1. i - 1 \in 1..Len(t) /\ u[i] = t[i - 1] /\ i \in Int
            BY <1>1, <1>3, <2>2
        <3>2. CASE t[i - 1] \in Simple
            BY <3>1, <3>2 DEF Simple
        <3>3. CASE t[i - 1] \in {"rest", "rest4"} /\ i - 1 = Len(t)
            BY <1>1, <1>3, <3>1, <3>3
        <3> QED BY <3>1, <3>2, <3>3 DEF Tame
    <2> QED BY <2>1, <2>2
<1>5. Shaped(f, u)
    BY <1>2, <1>4 DEF Shaped
<1> QED BY <1>5 DEF u

LEMMA KexInitSimple == KexInit \in Seq(Simple)
<1> DEFINE a == <<"id", "cookie">>
           l == [i \in 1..NameLists |-> "list"]
           z == <<"bool", "zero">>
<1>0. NameLists \in Nat
    BY SizesAssumption
<1>1. a \in Seq(Simple) /\ z \in Seq(Simple)
    BY DEF Simple
<1>2. l \in Seq(Simple)
    <2>1. l \in [1..NameLists -> Simple]
        BY DEF Simple
    <2> QED BY <1>0, <2>1
<1>3. KexInit = (a \o l) \o z
    BY DEF KexInit
<1> HIDE DEF a, l, z
<1> QED BY <1>1, <1>2, <1>3

\* The table of messages.
LEMMA SshShaped ==
    ASSUME NEW f \in DOMAIN Ssh
    PROVE  Shaped(f, Ssh[f]) /\ NoFrame(Ssh[f])
<1>1. CASE f \in {"channel_message", "hostkey_signature", "user_signature", "global_request"}
    <2>1. CASE f = "channel_message"
        <3>1. Ssh[f] = <<"chan">>
            BY <2>1 DEF Ssh, ChannelMessage
        <3> QED BY <2>1, <3>1 DEF Shaped, NoFrame, Kinds
    <2>2. CASE f = "hostkey_signature"
        <3>1. Ssh[f] = <<"mpint", "mpint">>
            BY <2>2 DEF Ssh, HostkeySignature
        <3> QED BY <2>2, <3>1 DEF Shaped, NoFrame, Kinds
    <2>3. CASE f = "user_signature"
        <3>1. Ssh[f] = <<"fixed", "fixed">>
            BY <2>3 DEF Ssh, UserSignature
        <3> QED BY <2>3, <3>1 DEF Shaped, NoFrame, Kinds
    <2>4. CASE f = "global_request"
        <3>1. Ssh[f] = Append(<<"id", "str", "bool">>, "rest")
            BY <2>4 DEF Ssh, GlobalRequest
        <3>2. <<"id", "str", "bool">> \in Seq(Simple)
            BY DEF Simple
        <3> QED BY <3>1, <3>2, RestTame, TameShaped
    <2> QED BY <1>1, <2>1, <2>2, <2>3, <2>4
<1>2. CASE f \notin {"channel_message", "hostkey_signature", "user_signature", "global_request"}
    <2>1. Ssh[f] \in {KexInit, KexEcdhInit, KexEcdhReply, NewKeys, ServiceRequest,
              ServiceAccept, UserauthRequest, UserauthFailure, UserauthPkOk, UserauthSuccess,
              ChannelOpen, RequestFailure, OpenConfirmation, OpenFailure, ExitStatus,
              ChannelSuccess, ChannelFailure}
        BY <1>2 DEF Ssh
    <2>2. /\ KexEcdhInit \in Seq(Simple) /\ KexEcdhReply \in Seq(Simple)
          /\ NewKeys \in Seq(Simple) /\ ServiceRequest \in Seq(Simple)
          /\ ServiceAccept \in Seq(Simple) /\ UserauthRequest \in Seq(Simple)
        BY DEF Simple, KexEcdhInit, KexEcdhReply, NewKeys, ServiceRequest, ServiceAccept,
               UserauthRequest
    <2>3. /\ UserauthFailure \in Seq(Simple) /\ UserauthPkOk \in Seq(Simple)
          /\ UserauthSuccess \in Seq(Simple) /\ ChannelOpen \in Seq(Simple)
          /\ RequestFailure \in Seq(Simple) /\ OpenConfirmation \in Seq(Simple)
        BY DEF Simple, UserauthFailure, UserauthPkOk, UserauthSuccess, ChannelOpen,
               RequestFailure, OpenConfirmation
    <2>4. /\ OpenFailure \in Seq(Simple) /\ ExitStatus \in Seq(Simple)
          /\ ChannelSuccess \in Seq(Simple) /\ ChannelFailure \in Seq(Simple)
        BY DEF Simple, OpenFailure, ExitStatus, ChannelSuccess, ChannelFailure
    <2>5. Ssh[f] \in Seq(Simple)
        BY <2>1, <2>2, <2>3, <2>4, KexInitSimple
    <2> QED BY <2>5, SimpleTame, TameShaped
<1> QED BY <1>1, <1>2

LEMMA SftpTame ==
    ASSUME NEW f \in DOMAIN Sftp
    PROVE  Tame(Sftp[f]) /\ Len(Sftp[f]) > 0 /\ Sftp[f][1] = "id"
<1>1. CASE f \in {"init", "open", "mkdir", "extended"}
    <2>1. CASE f = "init"
        <3>1. Sftp[f] = Append(<<"id", "u32">>, "rest")
            BY <2>1 DEF Sftp, SftpInit
        <3>2. <<"id", "u32">> \in Seq(Simple)
            BY DEF Simple
        <3>3. Len(Sftp[f]) > 0 /\ Sftp[f][1] = "id"
            BY <3>1
        <3>4. "rest" \in {"rest", "rest4"} /\ "rest4" \in {"rest", "rest4"}
            OBVIOUS
        <3> HIDE DEF Sftp
        <3> QED BY <3>1, <3>2, <3>3, <3>4, RestTame
    <2>2. CASE f = "open"
        <3>1. Sftp[f] = Append(<<"id", "u32", "str", "u32">>, "rest4")
            BY <2>2 DEF Sftp, SftpOpen
        <3>2. <<"id", "u32", "str", "u32">> \in Seq(Simple)
            BY DEF Simple
        <3>3. Len(Sftp[f]) > 0 /\ Sftp[f][1] = "id"
            BY <3>1
        <3>4. "rest" \in {"rest", "rest4"} /\ "rest4" \in {"rest", "rest4"}
            OBVIOUS
        <3> HIDE DEF Sftp
        <3> QED BY <3>1, <3>2, <3>3, <3>4, RestTame
    <2>3. CASE f = "mkdir"
        <3>1. Sftp[f] = Append(<<"id", "u32", "str">>, "rest4")
            BY <2>3 DEF Sftp, SftpMkdir
        <3>2. <<"id", "u32", "str">> \in Seq(Simple)
            BY DEF Simple
        <3>3. Len(Sftp[f]) > 0 /\ Sftp[f][1] = "id"
            BY <3>1
        <3>4. "rest" \in {"rest", "rest4"} /\ "rest4" \in {"rest", "rest4"}
            OBVIOUS
        <3> HIDE DEF Sftp
        <3> QED BY <3>1, <3>2, <3>3, <3>4, RestTame
    <2>4. CASE f = "extended"
        <3>1. Sftp[f] = Append(<<"id", "u32", "str">>, "rest")
            BY <2>4 DEF Sftp, SftpExtended
        <3>2. <<"id", "u32", "str">> \in Seq(Simple)
            BY DEF Simple
        <3>3. Len(Sftp[f]) > 0 /\ Sftp[f][1] = "id"
            BY <3>1
        <3>4. "rest" \in {"rest", "rest4"} /\ "rest4" \in {"rest", "rest4"}
            OBVIOUS
        <3> HIDE DEF Sftp
        <3> QED BY <3>1, <3>2, <3>3, <3>4, RestTame
    <2> QED BY <1>1, <2>1, <2>2, <2>3, <2>4
<1>2. CASE f \notin {"init", "open", "mkdir", "extended"}
    <2>1. Sftp[f] \in {SftpPath, SftpClose, SftpFstat, SftpReaddir, SftpRead, SftpWrite,
              SftpRename, SftpSetstat, SftpFsetstat, SftpVersion, SftpStatus, SftpHandle,
              SftpData, SftpAttrs, SftpName}
        BY <1>2 DEF Sftp
    <2> DEFINE Ok(t) == t \in Seq(Simple) /\ Len(t) > 0 /\ t[1] = "id"
    <2>2. Ok(SftpPath) /\ Ok(SftpClose) /\ Ok(SftpFstat) /\ Ok(SftpReaddir) /\ Ok(SftpRead)
        BY DEF Simple, SftpPath, SftpClose, SftpFstat, SftpReaddir, SftpRead
    <2>3. Ok(SftpWrite) /\ Ok(SftpRename) /\ Ok(SftpSetstat) /\ Ok(SftpFsetstat)
        BY DEF Simple, SftpWrite, SftpRename, SftpSetstat, SftpFsetstat
    <2>4. Ok(SftpVersion) /\ Ok(SftpStatus) /\ Ok(SftpHandle) /\ Ok(SftpData)
        BY DEF Simple, SftpVersion, SftpStatus, SftpHandle, SftpData
    <2>5. Ok(SftpAttrs) /\ Ok(SftpName)
        BY DEF Simple, SftpAttrs, SftpName
    <2>6. Ok(Sftp[f])
        BY <2>1, <2>2, <2>3, <2>4, <2>5
    <2> QED BY <2>6, SimpleTame
<1> QED BY <1>1, <1>2

LEMMA FormatsShaped ==
    ASSUME NEW f \in DOMAIN Formats
    PROVE  /\ Shaped(f, Formats[f]) /\ NoFrame(Formats[f])
           /\ Shaped(f, Begin(f))
           /\ Framed(f) => Len(Formats[f]) > 0 /\ Formats[f][1] = "id"
<1>1. CASE Framed(f)
    <2>1. Formats[f] = Sftp[f] /\ f \in DOMAIN Sftp
        BY <1>1 DEF Formats, Framed
    <2> QED BY <1>1, <2>1, SftpTame, TameShaped, FrameShaped DEF Begin
<1>2. CASE ~Framed(f)
    <2>1. Formats[f] = Ssh[f] /\ f \in DOMAIN Ssh
        BY <1>2 DEF Formats, Framed
    <2> QED BY <1>2, <2>1, SshShaped DEF Begin
<1> QED BY <1>1, <1>2

\* The fields after the first.
LEMMA TailShaped ==
    ASSUME NEW f, NEW t, Shaped(f, t), t # << >>
    PROVE  /\ Shaped(f, Tail(t)) /\ NoFrame(Tail(t)) /\ Head(t) = t[1] /\ Head(t) \in Kinds
           /\ Len(t) \in Nat /\ Len(t) > 0 /\ Len(Tail(t)) = Len(t) - 1
           /\ \A i \in 1..(Len(t) - 1) : Tail(t)[i] = t[i + 1]
<1> DEFINE u == Tail(t)
<1>1. t \in Seq(Kinds)
    BY DEF Shaped
<1>2. /\ Len(t) \in Nat /\ Len(t) > 0 /\ u \in Seq(Kinds) /\ Len(u) = Len(t) - 1
      /\ Head(t) = t[1] /\ Head(t) \in Kinds
    BY <1>1
<1>3. \A i \in 1..Len(u) : u[i] = t[i + 1] /\ i + 1 \in 1..Len(t)
    BY <1>1, <1>2
<1> HIDE DEF u
<1>4. ASSUME NEW i \in 1..Len(u)
      PROVE  /\ u[i] \in {"rest", "rest4"} => i = Len(u)
             /\ u[i] # "frame"
             /\ u[i] = "reqtype" =>
                   f = "channel_message" /\ i = Len(u) - 1 /\ u[Len(u)] = "wish"
             /\ u[i] = "signed" => \A j \in 1..Len(u) : u[j] \in {"signed", "name"}
             /\ u[i] = "refused" => f = "channel_message" /\ i = Len(u) /\ Len(u) = 1
             /\ u[i] \in {"mpint", "fixed"} => f \in {"hostkey_signature", "user_signature"}
             /\ u[i] # "chan"
    <2> DEFINE j == i + 1
    <2>1. j \in 1..Len(t) /\ u[i] = t[j] /\ i \in Int /\ j = i + 1 /\ Len(u) \in Int
        BY <1>2, <1>3
    <2> HIDE DEF j
    <2>2. /\ t[j] \in {"rest", "rest4"} => j = Len(t)
          /\ t[j] = "frame" => j = 1
          /\ t[j] = "reqtype" =>
                f = "channel_message" /\ j = Len(t) - 1 /\ t[Len(t)] = "wish"
          /\ t[j] = "signed" => \A k \in 1..Len(t) : t[k] \in {"signed", "name"}
          /\ t[j] = "refused" => f = "channel_message" /\ j = Len(t) /\ Len(t) \in {1, 2}
          /\ t[j] \in {"mpint", "fixed"} => f \in {"hostkey_signature", "user_signature"}
          /\ t[j] = "chan" => Len(t) = 1
        BY <2>1 DEF Shaped
    <2>3. u[i] = "reqtype" => u[Len(u)] = "wish"
        <3> SUFFICES ASSUME u[i] = "reqtype" PROVE u[Len(u)] = "wish"
            OBVIOUS
        <3>1. t[Len(t)] = "wish" /\ j = Len(t) - 1
            BY <2>1, <2>2
        <3>2. Len(u) \in 1..Len(u) /\ Len(u) + 1 = Len(t)
            BY <1>2, <2>1, <3>1
        <3> QED BY <1>3, <3>1, <3>2
    <2>4. u[i] = "signed" => \A k \in 1..Len(u) : u[k] \in {"signed", "name"}
        BY <1>3, <2>1, <2>2
    <2> QED BY <1>2, <2>1, <2>2, <2>3, <2>4
<1>5. Shaped(f, u) /\ NoFrame(u)
    BY <1>2, <1>4 DEF Shaped, NoFrame
<1> QED BY <1>2, <1>3, <1>5 DEF u

\* Simple fields in front of what may follow them.
LEMMA SimpleFirst ==
    ASSUME NEW f, NEW s \in Seq(Simple), NEW t, Shaped(f, t), NoFrame(t),
           \A i \in 1..Len(t) : t[i] \notin {"signed", "refused", "chan"}
    PROVE  Shaped(f, s \o t) /\ NoFrame(s \o t)
<1> DEFINE u == s \o t
<1>1. t \in Seq(Kinds) /\ s \in Seq(Kinds) /\ Len(s) \in Nat /\ Len(t) \in Nat
    BY SimpleTame DEF Shaped, Tame
<1>2. u \in Seq(Kinds) /\ Len(u) = Len(s) + Len(t)
    BY <1>1
<1>3. ASSUME NEW i \in 1..Len(u)
      PROVE  \/ i \in 1..Len(s) /\ u[i] \in Simple
             \/ i - Len(s) \in 1..Len(t) /\ u[i] = t[i - Len(s)]
    BY <1>1, <1>2
<1>4. Len(t) > 0 => u[Len(u)] = t[Len(t)]
    BY <1>1, <1>2
<1> HIDE DEF u
<1>5. ASSUME NEW i \in 1..Len(u)
      PROVE  /\ u[i] \in {"rest", "rest4"} => i = Len(u)
             /\ u[i] \notin {"frame", "signed", "refused", "chan"}
             /\ u[i] = "reqtype" =>
                   f = "channel_message" /\ i = Len(u) - 1 /\ u[Len(u)] = "wish"
             /\ u[i] \in {"mpint", "fixed"} => f \in {"hostkey_signature", "user_signature"}
    <2>1. CASE u[i] \in Simple
        BY <2>1 DEF Simple
    <2>2. CASE i - Len(s) \in 1..Len(t) /\ u[i] = t[i - Len(s)]
        <3> DEFINE j == i - Len(s)
        <3>1. j \in 1..Len(t) /\ u[i] = t[j] /\ i = j + Len(s) /\ Len(t) > 0
            BY <1>1, <1>2, <2>2
        <3> HIDE DEF j
        <3>2. /\ t[j] \in {"rest", "rest4"} => j = Len(t)
              /\ t[j] \notin {"frame", "signed", "refused", "chan"}
              /\ t[j] = "reqtype" =>
                    f = "channel_message" /\ j = Len(t) - 1 /\ t[Len(t)] = "wish"
              /\ t[j] \in {"mpint", "fixed"} => f \in {"hostkey_signature", "user_signature"}
            BY <3>1 DEF Shaped, NoFrame
        <3>3. j \in Int /\ Len(s) \in Int /\ Len(t) \in Int
            BY <1>1, <3>1
        <3>4. (j = Len(t) => i = Len(u)) /\ (j = Len(t) - 1 => i = Len(u) - 1)
            BY <1>2, <3>1, <3>3
        <3>5. u[Len(u)] = t[Len(t)]
            BY <1>4, <3>1
        <3> QED BY <3>1, <3>2, <3>4, <3>5
    <2> QED BY <1>3, <2>1, <2>2
<1>6. Shaped(f, u) /\ NoFrame(u)
    BY <1>2, <1>5 DEF Shaped, NoFrame
<1> QED BY <1>6 DEF u

LEMMA AttrFieldsSimple ==
    ASSUME NEW v
    PROVE  AttrFields(v) \in Seq(Simple) /\ PutAttrFields(v) \in Seq(Simple)
<1> DEFINE a == IF Bit(v, SIZE) THEN <<"u64">> ELSE << >>
           b == IF Bit(v, UIDGID) THEN <<"u32", "u32">> ELSE << >>
           c == IF Bit(v, PERMISSIONS) THEN <<"u32">> ELSE << >>
           d == IF Bit(v, ACMODTIME) THEN <<"u32", "u32">> ELSE << >>
           e == IF Bit(v, EXTENDED) THEN <<"count">> ELSE << >>
<1>1. /\ << >> \in Seq(Simple) /\ <<"u64">> \in Seq(Simple) /\ <<"u32">> \in Seq(Simple)
      /\ <<"u32", "u32">> \in Seq(Simple) /\ <<"count">> \in Seq(Simple)
    BY DEF Simple
<1>2. /\ a \in Seq(Simple) /\ b \in Seq(Simple) /\ c \in Seq(Simple)
      /\ d \in Seq(Simple) /\ e \in Seq(Simple)
    BY <1>1
<1>3. AttrFields(v) = (((a \o b) \o c) \o d) \o e /\ PutAttrFields(v) = ((a \o b) \o c) \o d
    BY DEF AttrFields, PutAttrFields
<1> HIDE DEF a, b, c, d, e
<1> QED BY <1>2, <1>3

LEMMA RequestSimple ==
    ASSUME NEW v, RequestFields(v) # <<"refused">>
    PROVE  RequestFields(v) \in Seq(Simple)
<1>1. RequestFields(v) \in
        {<<"str">>, <<"str", "u32", "u32", "u32", "u32", "str">>, << >>,
         <<"str", "str">>, <<"u32", "u32", "u32", "u32">>}
    BY DEF RequestFields
<1>2. /\ <<"str">> \in Seq(Simple) /\ <<"str", "u32", "u32", "u32", "u32", "str">> \in Seq(Simple)
      /\ << >> \in Seq(Simple) /\ <<"str", "str">> \in Seq(Simple)
      /\ <<"u32", "u32", "u32", "u32">> \in Seq(Simple)
    BY DEF Simple
<1> HIDE DEF Simple
<1> QED BY <1>1, <1>2

\* What the first field says of the others.
LEMMA HeadShaped ==
    ASSUME NEW f, NEW t, Shaped(f, t), t # << >>
    PROVE  /\ t[1] \in {"rest", "rest4"} => Len(t) = 1
           /\ t[1] = "reqtype" => f = "channel_message" /\ Len(t) = 2 /\ t[2] = "wish"
           /\ t[1] = "signed" => \A j \in 1..Len(t) : t[j] \in {"signed", "name"}
           /\ t[1] = "refused" => f = "channel_message" /\ Len(t) = 1
           /\ t[1] \in {"mpint", "fixed"} => f \in {"hostkey_signature", "user_signature"}
           /\ t[1] = "chan" => f = "channel_message" /\ Len(t) = 1
<1>1. Len(t) \in Nat /\ 1 \in 1..Len(t)
    BY TailShaped
<1>2. /\ t[1] \in {"rest", "rest4"} => 1 = Len(t)
      /\ t[1] = "reqtype" =>
            f = "channel_message" /\ 1 = Len(t) - 1 /\ t[Len(t)] = "wish"
      /\ t[1] = "signed" => \A j \in 1..Len(t) : t[j] \in {"signed", "name"}
      /\ t[1] = "refused" => f = "channel_message" /\ 1 = Len(t)
      /\ t[1] \in {"mpint", "fixed"} => f \in {"hostkey_signature", "user_signature"}
      /\ t[1] = "chan" => f = "channel_message" /\ Len(t) = 1
    BY <1>1 DEF Shaped
<1>3. 1 = Len(t) - 1 => Len(t) = 2
    BY <1>1
<1> QED BY <1>2, <1>3

\* What follows a field that was written or read.
LEMMA FollowShaped ==
    ASSUME NEW f, NEW t, Shaped(f, t), t # << >>, NEW v, Head(t) = "count" => v \in Nat
    PROVE  /\ Shaped(f, Follow(Head(t), v, Tail(t)))
           /\ NoFrame(Follow(Head(t), v, Tail(t)))
<1> DEFINE k == Head(t)
           r == Tail(t)
           u == Follow(k, v, r)
<1>0. /\ Shaped(f, r) /\ NoFrame(r) /\ k = t[1] /\ Len(t) \in Nat /\ Len(t) > 0
      /\ Len(r) = Len(t) - 1 /\ \A i \in 1..(Len(t) - 1) : r[i] = t[i + 1]
    BY TailShaped
<1> HIDE DEF k, r
<1>1. CASE k = "chan"
    <2>0. t[1] = "chan"
        BY <1>0, <1>1
    <2>1. Len(t) = 1 /\ f = "channel_message"
        BY <2>0, HeadShaped
    <2>2. r = << >>
        BY <1>0, <2>1 DEF Shaped
    <2>3. u = ChannelFields(v) \o r
        BY <1>1 DEF Follow
    <2>4. u \in {WindowAdjust, ChannelData, ChannelRequest, ChannelEnd}
        BY <2>2, <2>3 DEF ChannelFields, WindowAdjust, ChannelData, ChannelRequest, ChannelEnd
    <2>5. /\ WindowAdjust \in Seq(Simple) /\ ChannelData \in Seq(Simple)
          /\ ChannelEnd \in Seq(Simple)
        BY DEF WindowAdjust, ChannelData, ChannelEnd, Simple
    <2>6. Shaped(f, ChannelRequest) /\ NoFrame(ChannelRequest)
        BY <2>1 DEF ChannelRequest, Shaped, NoFrame, Kinds
    <2> HIDE DEF u
    <2>7. Shaped(f, u) /\ NoFrame(u)
        BY <2>4, <2>5, <2>6, SimpleTame, TameShaped
    <2> QED BY <2>7 DEF u, k, r
<1>2. CASE k = "reqtype"
    <2>1. Len(t) = 2 /\ f = "channel_message" /\ t[2] = "wish"
        BY <1>0, <1>2, HeadShaped
    <2>2. r = <<"wish">>
        BY <1>0, <2>1 DEF Shaped
    <2>3. u = r \o RequestFields(v)
        BY <1>2 DEF Follow
    <2>4. CASE RequestFields(v) = <<"refused">>
        <3>1. u = <<"wish", "refused">>
            BY <2>2, <2>3, <2>4
        <3> HIDE DEF u
        <3>2. Shaped(f, u) /\ NoFrame(u)
            BY <2>1, <3>1 DEF Shaped, NoFrame, Kinds
        <3> QED BY <3>2 DEF u, k, r
    <2>5. CASE RequestFields(v) # <<"refused">>
        <3>1. RequestFields(v) \in Seq(Simple)
            BY <2>5, RequestSimple
        <3>2. r \in Seq(Simple)
            BY <2>2 DEF Simple
        <3>3. u \in Seq(Simple)
            BY <2>3, <3>1, <3>2
        <3> HIDE DEF u
        <3>4. Shaped(f, u) /\ NoFrame(u)
            BY <3>3, SimpleTame, TameShaped
        <3> QED BY <3>4 DEF u, k, r
    <2> QED BY <2>4, <2>5
<1>3. CASE k = "method"
    <2>1. u = MethodFields(v)
        BY <1>3 DEF Follow
    <2>2. u \in {<< >>, <<"bool", "str">>, <<"signed", "name", "name">>, <<"rest">>}
        BY <2>1 DEF MethodFields
    <2> HIDE DEF u
    <2>3. Shaped(f, u) /\ NoFrame(u)
        <3>1. CASE u \in {<< >>, <<"bool", "str">>}
            <4>1. << >> \in Seq(Simple) /\ <<"bool", "str">> \in Seq(Simple)
                BY DEF Simple
            <4> QED BY <3>1, <4>1, SimpleTame, TameShaped
        <3>2. CASE u = <<"signed", "name", "name">>
            BY <3>2 DEF Shaped, NoFrame, Kinds
        <3>3. CASE u = <<"rest">>
            BY <3>3 DEF Shaped, NoFrame, Kinds
        <3> QED BY <2>2, <3>1, <3>2, <3>3
    <2> QED BY <2>3 DEF u, k, r
<1>4. CASE k = "signed"
    <2>1. \A i \in 1..Len(t) : t[i] \in {"signed", "name"}
        BY <1>0, <1>4, HeadShaped
    <2> DEFINE S == {"signed", "name"}
               w == IF v = 1 THEN <<"name">> ELSE << >>
    <2>2. r \in Seq(S)
        <3>1. \A i \in 1..Len(r) : r[i] \in S
            BY <1>0, <2>1
        <3>2. r \in Seq(Kinds)
            BY <1>0 DEF Shaped
        <3> QED BY <3>1, <3>2
    <2>3. u = r \o w /\ w \in Seq(S)
        <3>1. u = r \o w
            BY <1>4 DEF Follow
        <3>2. <<"name">> \in Seq(S) /\ << >> \in Seq(S)
            OBVIOUS
        <3> QED BY <3>1, <3>2
    <2>4. u \in Seq(S) /\ S \subseteq Kinds
        <3> HIDE DEF u, w
        <3>1. u \in Seq(S)
            BY <2>2, <2>3
        <3> QED BY <3>1 DEF Kinds
    <2> HIDE DEF u
    <2>5. \A i \in 1..Len(u) : u[i] \in {"signed", "name"}
        BY <2>4
    <2>6. u \in Seq(Kinds)
        BY <2>4
    <2>7. Shaped(f, u) /\ NoFrame(u)
        BY <2>5, <2>6 DEF Shaped, NoFrame
    <2> QED BY <2>7 DEF u, k, r
<1>5. CASE k \in {"attrs", "putattrs", "count"}
    <2>1. \A i \in 1..Len(r) : r[i] \notin {"signed", "refused", "chan"}
        <3> SUFFICES ASSUME NEW i \in 1..Len(r) PROVE t[i + 1] \notin {"signed", "refused", "chan"}
            BY <1>0
        <3>1. i + 1 \in 1..Len(t) /\ 1 \in 1..Len(t) /\ Len(t) # 1 /\ t[1] \notin {"signed", "name", "wish"}
            BY <1>0, <1>5
        <3> QED BY <3>1 DEF Shaped
    <2>2. PICK s \in Seq(Simple) : u = s \o r
        <3>1. CASE k = "attrs"
            BY <3>1, AttrFieldsSimple DEF Follow
        <3>2. CASE k = "putattrs"
            BY <3>2, AttrFieldsSimple DEF Follow
        <3>3. CASE k = "count"
            <4> DEFINE s == [i \in 1..(2 * v) |-> "str"]
            <4>1. v \in Nat
                BY <3>3 DEF k
            <4>2. s \in [1..(2 * v) -> Simple] /\ 2 * v \in Nat
                BY <4>1 DEF Simple
            <4>3. s \in Seq(Simple)
                BY <4>2
            <4>4. u = s \o r
                BY <3>3 DEF Follow
            <4> QED BY <4>3, <4>4
        <3> QED BY <1>5, <3>1, <3>2, <3>3
    <2> HIDE DEF u
    <2>3. Shaped(f, u) /\ NoFrame(u)
        BY <1>0, <2>1, <2>2, SimpleFirst
    <2> QED BY <2>3 DEF u, k, r
<1>6. CASE k \notin {"chan", "reqtype", "method", "signed", "attrs", "putattrs", "count"}
    <2>1. u = r
        BY <1>6 DEF Follow
    <2> QED BY <1>0, <2>1 DEF u, k, r
<1> QED BY <1>1, <1>2, <1>3, <1>4, <1>5, <1>6

-----------------------------------------------------------------------------
(* Reading a field: what is accepted is the encoding of what was read.     *)

LEMMA Slice ==
    ASSUME NEW B, NEW s \in Seq(B), NEW p \in Nat, NEW n \in Nat, p + n <= Len(s)
    PROVE  /\ SubSeq(s, p + 1, p + n) \in Seq(B) /\ Len(SubSeq(s, p + 1, p + n)) = n
           /\ \A i \in 1..n : SubSeq(s, p + 1, p + n)[i] = s[p + i]
           /\ SubSeq(s, p + 1, p + n) = [i \in 1..n |-> s[p + i]]
<1> DEFINE t == SubSeq(s, p + 1, p + n)
           u == [i \in 1..n |-> s[p + i]]
<1>1. Len(s) \in Nat /\ \A i \in 1..n : p + i \in 1..Len(s) /\ s[p + i] \in B
    OBVIOUS
<1>2. t = [i \in 1..((p + n) - (p + 1) + 1) |-> s[i + (p + 1) - 1]]
    BY DEF SubSeq
<1>3. (p + n) - (p + 1) + 1 = n /\ \A i \in 1..n : i + (p + 1) - 1 = p + i
    OBVIOUS
<1>4. t = u
    BY <1>2, <1>3
<1>5. u \in [1..n -> B]
    BY <1>1
<1> QED BY <1>4, <1>5

LEMMA SliceOne ==
    ASSUME NEW B, NEW s \in Seq(B), NEW p \in Nat, p + 1 <= Len(s)
    PROVE  SubSeq(s, p + 1, p + 1) = <<s[p + 1]>>
<1>1. SubSeq(s, p + 1, p + 1) = [i \in 1..1 |-> s[p + i]]
    BY Slice
<1>2. [i \in 1..1 |-> s[p + i]] = <<s[p + 1]>>
    OBVIOUS
<1> QED BY <1>1, <1>2

LEMMA Joined ==
    ASSUME NEW B, NEW a \in Seq(B), NEW b \in Seq(B)
    PROVE  /\ a \o b \in Seq(B) /\ Len(a \o b) = Len(a) + Len(b)
           /\ Len(a) \in Nat /\ Len(b) \in Nat
           /\ \A i \in 1..Len(a) : (a \o b)[i] = a[i]
           /\ \A i \in 1..Len(b) : (a \o b)[Len(a) + i] = b[i]
OBVIOUS

LEMMA JoinedRight ==
    ASSUME NEW B, NEW a \in Seq(B), NEW b \in Seq(B), NEW i \in 1..Len(b)
    PROVE  (a \o b)[Len(a) + i] = b[i]
OBVIOUS

LEMMA SameSeq ==
    ASSUME NEW B, NEW a \in Seq(B), NEW b \in Seq(B), Len(a) = Len(b),
           \A i \in 1..Len(a) : a[i] = b[i]
    PROVE  a = b
OBVIOUS

\* Two slices, one after the other.
LEMMA SliceSplit ==
    ASSUME NEW B, NEW s \in Seq(B), NEW p \in Nat, NEW m \in Nat, NEW n \in Nat,
           p + (m + n) <= Len(s)
    PROVE  SubSeq(s, p + 1, p + (m + n)) =
               SubSeq(s, p + 1, p + m) \o SubSeq(s, (p + m) + 1, (p + m) + n)
<1> DEFINE a == SubSeq(s, p + 1, p + m)
           b == SubSeq(s, (p + m) + 1, (p + m) + n)
           c == SubSeq(s, p + 1, p + (m + n))
           d == a \o b
<1>0. /\ Len(s) \in Nat /\ p + m \in Nat /\ m + n \in Nat /\ p + m <= Len(s)
      /\ (p + m) + n <= Len(s)
    OBVIOUS
<1>1. a \in Seq(B) /\ Len(a) = m /\ \A i \in 1..m : a[i] = s[p + i]
    BY <1>0, Slice
<1>2. b \in Seq(B) /\ Len(b) = n /\ \A i \in 1..n : b[i] = s[(p + m) + i]
    BY <1>0, Slice
<1>3. c \in Seq(B) /\ Len(c) = m + n /\ \A i \in 1..(m + n) : c[i] = s[p + i]
    BY <1>0, Slice
<1> HIDE DEF a, b, c
<1>4. /\ d \in Seq(B) /\ Len(d) = m + n
      /\ \A i \in 1..m : d[i] = a[i]
      /\ \A i \in 1..n : d[m + i] = b[i]
    <2>1. a \in Seq(B) /\ b \in Seq(B) /\ Len(a) = m /\ Len(b) = n
        BY <1>1, <1>2
    <2>2. Len(a) + Len(b) = m + n
        BY <2>1
    <2>3. /\ d \in Seq(B) /\ Len(d) = Len(a) + Len(b)
          /\ \A i \in 1..Len(a) : d[i] = a[i]
          /\ \A i \in 1..Len(b) : d[Len(a) + i] = b[i]
        <3>1. d \in Seq(B) /\ Len(d) = Len(a) + Len(b)
            BY <2>1
        <3>2. \A i \in 1..Len(a) : d[i] = a[i]
            BY <2>1, Joined, Zenon
        <3>3. ASSUME NEW i \in 1..Len(b) PROVE d[Len(a) + i] = b[i]
            <4>1. Len(a) \in Nat /\ Len(b) \in Nat /\ Len(a) + i \in 1..(Len(a) + Len(b))
                BY <2>1
            <4>2. /\ (a \o b)[Len(a) + i] = b[(Len(a) + i) - Len(a)]
                  /\ (Len(a) + i) - Len(a) = i
                BY <2>1, <4>1, Z3
            <4> QED BY <4>2
        <3> QED BY <3>1, <3>2, <3>3
    <2> QED BY <2>1, <2>2, <2>3
<1> HIDE DEF d
<1>5. ASSUME NEW i \in 1..(m + n) PROVE c[i] = d[i]
    <2>1. CASE i <= m
        <3>1. i \in 1..m
            BY <2>1
        <3> QED BY <1>1, <1>3, <1>4, <3>1
    <2>2. CASE i > m
        <3> DEFINE j == i - m
        <3>1. j \in 1..n /\ m + j = i /\ (p + m) + j = p + i
            BY <2>2
        <3> HIDE DEF j
        <3>2. d[i] = b[j] /\ b[j] = s[p + i]
            BY <1>2, <1>4, <3>1
        <3> QED BY <1>3, <3>2
    <2> QED BY <2>1, <2>2
<1>6. c = d
    BY <1>3, <1>4, <1>5, SameSeq
<1> QED BY <1>6 DEF a, b, c, d

\* The classes of kinds, and what is done with each.
Single == {"id", "chan", "bool", "wish", "signed"}
Number32 == {"u32", "pos", "zero", "attrs", "putattrs", "count", "frame"}
Whole == {"cookie", "rest", "rest4"}
Named == {"str", "name", "blob", "list", "reqtype", "method", "service"}

LEMMA KindsAre ==
    Kinds = Single \cup Number32 \cup {"u64"} \cup Whole \cup Named
              \cup {"mpint", "fixed", "refused"}
BY DEF Kinds, Single, Number32, Whole, Named

LEMMA OfSingle ==
    ASSUME NEW k \in Single, NEW v, NEW n
    PROVE  /\ Encoded(k, v) = <<v>>
           /\ Span(k) = IF 1 <= Left THEN 1 ELSE -1
           /\ Value(k, n) = IF k \in Flags THEN (IF buf[place + 1] # 0 THEN 1 ELSE 0)
                            ELSE buf[place + 1]
           /\ k \in Flags => Accepts(k, v, n) = IsFlag(buf[place + 1])
           /\ k = "chan" => Accepts(k, v, n) = (v \in 1..5)
           /\ k = "id" => Accepts(k, v, n) = (v = 1)
<1> USE DEF Single, Flags, Words, Raw
<1>1. Encoded(k, v) = <<v>>
    BY DEF Encoded
<1>2. Span(k) = IF 1 <= Left THEN 1 ELSE -1
    BY DEF Span
<1>3. Value(k, n) = IF k \in Flags THEN (IF buf[place + 1] # 0 THEN 1 ELSE 0)
                    ELSE buf[place + 1]
    BY DEF Value
<1>4. k \in Flags => Accepts(k, v, n) = IsFlag(buf[place + 1])
    BY DEF Accepts
<1>5. /\ k = "chan" => Accepts(k, v, n) = (v \in 1..5)
      /\ k = "id" => Accepts(k, v, n) = (v = 1)
    BY DEF Accepts
<1> QED BY <1>1, <1>2, <1>3, <1>4, <1>5

LEMMA OfNumber ==
    ASSUME NEW k \in Number32, NEW v, NEW n
    PROVE  /\ Encoded(k, v) = Digits(v, Word)
           /\ Span(k) = IF Word <= Left THEN Word ELSE -1
           /\ Value(k, n) = Number(Bytes(place, n))
<1> USE DEF Number32, Flags, Words, Raw
<1>1. Encoded(k, v) = Digits(v, Word)
    BY DEF Encoded
<1>2. Span(k) = IF Word <= Left THEN Word ELSE -1
    BY DEF Span
<1>3. Value(k, n) = Number(Bytes(place, n))
    BY DEF Value
<1> QED BY <1>1, <1>2, <1>3

LEMMA OfNumber64 ==
    ASSUME NEW v, NEW n
    PROVE  /\ Encoded("u64", v) = Digits(v, 2 * Word)
           /\ Span("u64") = IF 2 * Word <= Left THEN 2 * Word ELSE -1
           /\ Value("u64", n) = Number(Bytes(place, n))
           /\ Accepts("u64", v, n)
<1> USE DEF Flags, Words, Raw
<1>1. Encoded("u64", v) = Digits(v, 2 * Word)
    BY DEF Encoded
<1>2. Span("u64") = IF 2 * Word <= Left THEN 2 * Word ELSE -1
    BY DEF Span
<1>3. Value("u64", n) = Number(Bytes(place, n))
    BY DEF Value
<1>4. Accepts("u64", v, n)
    BY DEF Accepts
<1> QED BY <1>1, <1>2, <1>3, <1>4

LEMMA OfWhole ==
    ASSUME NEW k \in Whole, NEW v, NEW n
    PROVE  /\ Encoded(k, v) = v
           /\ k = "cookie" => Span(k) = IF 1 <= Left THEN 1 ELSE -1
           /\ k # "cookie" => Span(k) = IF Left <= Left THEN Left ELSE -1
           /\ Value(k, n) = Bytes(place, n)
           /\ k # "rest4" => Accepts(k, v, n)
           /\ k = "rest4" => Accepts(k, v, n) = (n >= Word)
<1> USE DEF Whole, Flags, Words, Raw
<1>1. Encoded(k, v) = v
    BY DEF Encoded
<1>2. /\ k = "cookie" => Span(k) = IF 1 <= Left THEN 1 ELSE -1
      /\ k # "cookie" => Span(k) = IF Left <= Left THEN Left ELSE -1
    <2>1. CASE k = "cookie"
        BY <2>1 DEF Span
    <2>2. CASE k \in {"rest", "rest4"}
        BY <2>2 DEF Span
    <2> QED BY <2>1, <2>2
<1>3. Value(k, n) = Bytes(place, n)
    BY DEF Value
<1>4. /\ k # "rest4" => Accepts(k, v, n)
      /\ k = "rest4" => Accepts(k, v, n) = (n >= Word)
    BY DEF Accepts
<1> QED BY <1>1, <1>2, <1>3, <1>4

LEMMA OfNamed ==
    ASSUME NEW k \in Named, NEW v, NEW n
    PROVE  /\ Encoded(k, v) = Prefixed(v)
           /\ Left < Word => Span(k) = IF Left + 1 <= Left THEN Left + 1 ELSE -1
           /\ ~(Left < Word) =>
                Span(k) = IF Word + Number(Bytes(place, Word)) <= Left
                          THEN Word + Number(Bytes(place, Word)) ELSE -1
           /\ Value(k, n) = Bytes(place + Word, n - Word)
<1> USE DEF Named, Flags, Words, Raw
<1>1. Encoded(k, v) = Prefixed(v)
    BY DEF Encoded
<1>2. /\ Left < Word => Span(k) = IF Left + 1 <= Left THEN Left + 1 ELSE -1
      /\ ~(Left < Word) =>
            Span(k) = IF Word + Number(Bytes(place, Word)) <= Left
                      THEN Word + Number(Bytes(place, Word)) ELSE -1
    BY DEF Span
<1>3. Value(k, n) = Bytes(place + Word, n - Word)
    BY DEF Value
<1> QED BY <1>1, <1>2, <1>3

\* A field that is accepted and is not the integer of a signature.
LEMMA ReadAgain ==
    ASSUME buf \in Seq(Byte), place \in Nat, place <= Len(buf),
           NEW k \in Kinds, k \notin {"mpint", "fixed", "refused"},
           NEW n, n = Span(k), n >= 0, NEW v, v = Value(k, n), Accepts(k, v, n)
    PROVE  /\ n \in Nat /\ place + n <= Len(buf)
           /\ Encoded(k, v) = SubSeq(buf, place + 1, place + n)
           /\ k = "count" => v \in Nat
<1>0. Len(buf) \in Nat /\ Left \in Nat /\ Left = Len(buf) - place /\ Word \in Nat /\ Word > 0
    BY BaseNat DEF Left
<1>1. CASE k \in Single
    <2>1. n = 1 /\ 1 <= Left
        BY <1>0, <1>1, OfSingle
    <2>2. SubSeq(buf, place + 1, place + 1) = <<buf[place + 1]>>
        <3>1. place + 1 \in Nat /\ place + 1 <= Len(buf)
            BY <1>0, <2>1
        <3> QED BY <3>1, SliceOne
    <2>3. v = buf[place + 1]
        <3>1. CASE k \notin Flags
            BY <1>1, <3>1, OfSingle
        <3>2. CASE k \in Flags
            <4>1. v = IF buf[place + 1] # 0 THEN 1 ELSE 0
                BY <1>1, <3>2, OfSingle
            <4>2. buf[place + 1] \in {0, 1}
                BY <1>1, <3>2, OfSingle DEF IsFlag
            <4> QED BY <4>1, <4>2
        <3> QED BY <3>1, <3>2
    <2>4. k # "count"
        BY <1>1 DEF Single
    <2>5. Encoded(k, v) = <<v>>
        BY <1>1, OfSingle
    <2> QED BY <1>0, <2>1, <2>2, <2>3, <2>4, <2>5
<1>2. CASE k \in Number32
    <2>1. n = Word /\ Word <= Left
        BY <1>0, <1>2, OfNumber
    <2> DEFINE s == SubSeq(buf, place + 1, place + Word)
    <2>2. s \in Seq(Byte) /\ Len(s) = Word
        BY <1>0, <2>1, Slice
    <2>3. v = Number(s)
        BY <1>2, <2>1, OfNumber DEF Bytes
    <2>4. Encoded(k, v) = Digits(v, Word)
        BY <1>2, OfNumber
    <2> HIDE DEF s
    <2>5. Encoded(k, v) = s
        BY <2>2, <2>3, <2>4, DigitsOfNumber
    <2>6. v \in Nat
        BY <1>0, <2>2, <2>3, NumberNat DEF Number
    <2> QED BY <1>0, <2>1, <2>5, <2>6 DEF s
<1>3. CASE k = "u64"
    <2>1. n = 2 * Word /\ 2 * Word <= Left /\ 2 * Word \in Nat
        BY <1>0, <1>3, OfNumber64
    <2> DEFINE s == SubSeq(buf, place + 1, place + 2 * Word)
    <2>2. s \in Seq(Byte) /\ Len(s) = 2 * Word
        BY <1>0, <2>1, Slice
    <2>3. v = Number(s)
        BY <1>3, <2>1, OfNumber64 DEF Bytes
    <2>4. Encoded(k, v) = Digits(v, 2 * Word)
        BY <1>3, OfNumber64
    <2> HIDE DEF s
    <2>5. Encoded(k, v) = s
        BY <2>2, <2>3, <2>4, DigitsOfNumber
    <2> QED BY <1>0, <1>3, <2>1, <2>5 DEF s
<1>4. CASE k \in Whole
    <2>1. n \in Nat /\ n <= Left
        BY <1>0, <1>4, OfWhole
    <2>2. v = SubSeq(buf, place + 1, place + n)
        BY <1>4, OfWhole DEF Bytes
    <2>3. Encoded(k, v) = v /\ k # "count"
        BY <1>4, OfWhole DEF Whole
    <2> QED BY <1>0, <2>1, <2>2, <2>3
<1>5. CASE k \in Named
    <2> DEFINE l == SubSeq(buf, place + 1, place + Word)
               m == Number(l)
    <2>1. Word <= Left /\ n = Word + m /\ n <= Left
        <3>1. CASE Left < Word
            BY <1>0, <1>5, <3>1, OfNamed
        <3>2. CASE ~(Left < Word)
            <4>1. n = IF Word + m <= Left THEN Word + m ELSE -1
                BY <1>5, <3>2, OfNamed DEF Bytes
            <4>2. Word <= Left
                BY <1>0, <3>2
            <4> HIDE DEF m
            <4> QED BY <4>1, <4>2
        <3> QED BY <3>1, <3>2
    <2>2. l \in Seq(Byte) /\ Len(l) = Word
        BY <1>0, <2>1, Slice
    <2> HIDE DEF l
    <2>3. m \in Nat /\ Digits(m, Word) = l
        <3>1. m \in Nat
            BY <1>0, <2>2, NumberNat DEF Number
        <3> QED BY <3>1, <2>2, DigitsOfNumber
    <2> HIDE DEF m
    <2>5. v = SubSeq(buf, (place + Word) + 1, (place + Word) + m)
        <3>1. n - Word = m
            BY <1>0, <2>1, <2>3
        <3> QED BY <1>5, <3>1, OfNamed DEF Bytes
    <2>6. place + Word \in Nat /\ (place + Word) + m <= Len(buf)
        BY <1>0, <2>1, <2>3
    <2>7. Len(v) = m
        BY <2>3, <2>5, <2>6, Slice
    <2>8. Encoded(k, v) = l \o v
        BY <1>5, <2>3, <2>7, OfNamed DEF Prefixed
    <2>9. SubSeq(buf, place + 1, place + (Word + m)) = l \o v
        <3>1. place + (Word + m) <= Len(buf)
            BY <1>0, <2>3, <2>6
        <3> QED BY <1>0, <2>3, <2>5, <3>1, SliceSplit DEF l
    <2>10. k # "count"
        BY <1>5 DEF Named
    <2>11. n \in Nat /\ place + n <= Len(buf)
        BY <1>0, <2>1, <2>3
    <2> QED BY <2>1, <2>8, <2>9, <2>10, <2>11
<1> QED BY <1>1, <1>2, <1>3, <1>4, <1>5, KindsAre

-----------------------------------------------------------------------------
(* The integers of a signature.                                            *)

LEMMA StrippedZero ==
    ASSUME NEW s \in Seq(Byte), \A i \in 1..Len(s) : s[i] = 0
    PROVE  Stripped(s) = << >>
BY DEF Stripped

LEMMA StrippedTo ==
    ASSUME NEW s \in Seq(Byte), NEW p \in 0..(Len(s) - 1), s[p + 1] # 0,
           \A i \in 1..p : s[i] = 0
    PROVE  Stripped(s) = SubSeq(s, p + 1, p + (Len(s) - p))
<1> DEFINE nonzero == {i \in DOMAIN s : s[i] # 0}
           first == CHOOSE i \in nonzero : \A j \in nonzero : i <= j
<1>1. Len(s) \in Nat /\ p \in Nat /\ DOMAIN s = 1..Len(s) /\ p + 1 \in 1..Len(s)
    OBVIOUS
<1>2. p + 1 \in nonzero
    BY <1>1
<1>3. ASSUME NEW j \in nonzero PROVE j \in Nat /\ p + 1 <= j
    <2>1. j \in 1..Len(s) /\ s[j] # 0
        BY <1>1
    <2>2. j \notin 1..p
        BY <2>1
    <2> QED BY <1>1, <2>1, <2>2
<1>4. \E i \in nonzero : \A j \in nonzero : i <= j
    BY <1>2, <1>3
<1>5. first \in nonzero /\ \A j \in nonzero : first <= j
    BY <1>4
<1>6. first = p + 1
    <2> HIDE DEF first, nonzero
    <2>1. first <= p + 1 /\ p + 1 <= first /\ first \in Nat
        BY <1>2, <1>3, <1>5
    <2> QED BY <1>1, <2>1
<1>7. Stripped(s) = SubSeq(s, first, Len(s))
    BY <1>2 DEF Stripped
<1>8. Len(s) = p + (Len(s) - p)
    BY <1>1
<1> QED BY <1>6, <1>7, <1>8

LEMMA Zeros ==
    ASSUME NEW s \in Seq(Byte), ~(\A i \in 1..Len(s) : s[i] = 0)
    PROVE  \E p \in 0..(Len(s) - 1) : s[p + 1] # 0 /\ \A i \in 1..p : s[i] = 0
<1> DEFINE S == {i \in 1..Len(s) : s[i] # 0}
<1>1. S \subseteq Nat /\ S # {} /\ Len(s) \in Nat
    OBVIOUS
<1>2. PICK f \in S : \A j \in S : f <= j
    <2> HIDE DEF S
    <2> QED BY <1>1, Smallest
<1>3. f \in 1..Len(s) /\ s[f] # 0
    OBVIOUS
<1>4. f - 1 \in 0..(Len(s) - 1) /\ (f - 1) + 1 = f
    BY <1>1, <1>3
<1>5. ASSUME NEW i \in 1..(f - 1) PROVE s[i] = 0
    <2>1. i \in 1..Len(s) /\ ~(f <= i)
        BY <1>1, <1>3
    <2>2. i \notin S
        <3> HIDE DEF S
        <3> QED BY <1>2, <2>1
    <2> QED BY <2>1, <2>2
<1> QED BY <1>3, <1>4, <1>5

\* The bytes of an mpint, without their length.
Magnitude(s) ==
    LET t == Stripped(s)
    IN  IF t # << >> /\ t[1] >= Base \div 2 THEN <<0>> \o t ELSE t

\* What is written for an integer is read as that integer.
LEMMA MpintBack ==
    ASSUME NEW s \in [1..FixedLen -> Byte]
    PROVE  /\ Magnitude(s) \in Seq(Byte) /\ Len(Magnitude(s)) <= FixedLen + 1
           /\ Mpint(s) = Prefixed(Magnitude(s))
           /\ ~Negative(Magnitude(s))
           /\ Len(Stripped(Magnitude(s))) <= FixedLen
           /\ Fixed(Magnitude(s)) = s
<1> DEFINE t == Stripped(s)
           c == Magnitude(s)
           H == Base \div 2
<1>0. /\ FixedLen \in Nat /\ s \in Seq(Byte) /\ Len(s) = FixedLen
      /\ Base \in Nat /\ Base > 7 /\ H \in Nat /\ H > 0
    BY SizesAssumption
<1>1. /\ t \in Seq(Byte) /\ Len(t) <= FixedLen
      /\ t # << >> => t[1] # 0
      /\ \A i \in 1..(FixedLen - Len(t)) : s[i] = 0
      /\ \A i \in 1..Len(t) : s[(FixedLen - Len(t)) + i] = t[i]
    <2>1. CASE \A i \in 1..Len(s) : s[i] = 0
        <3>1. t = << >>
            BY <1>0, <2>1, StrippedZero
        <3>2. Len(t) = 0 /\ FixedLen - Len(t) = FixedLen
            BY <1>0, <3>1
        <3>3. t \in Seq(Byte)
            BY <3>1
        <3> HIDE DEF t
        <3> QED BY <1>0, <2>1, <3>1, <3>2, <3>3
    <2>2. CASE ~(\A i \in 1..Len(s) : s[i] = 0)
        <3>1. PICK p \in 0..(Len(s) - 1) : s[p + 1] # 0 /\ \A i \in 1..p : s[i] = 0
            BY <1>0, <2>2, Zeros
        <3>2. p \in Nat /\ Len(s) - p \in Nat /\ p + (Len(s) - p) <= Len(s) /\ Len(s) - p > 0
            BY <1>0
        <3>3. t = SubSeq(s, p + 1, p + (Len(s) - p))
            BY <1>0, <3>1, StrippedTo
        <3>4. /\ t \in Seq(Byte) /\ Len(t) = Len(s) - p
              /\ \A i \in 1..(Len(s) - p) : t[i] = s[p + i]
            BY <1>0, <3>2, <3>3, Slice
        <3> HIDE DEF t
        <3>5. FixedLen - Len(t) = p /\ Len(t) <= FixedLen
            BY <1>0, <3>2, <3>4
        <3>6. t[1] = s[p + 1]
            BY <3>2, <3>4
        <3> QED BY <3>1, <3>4, <3>5, <3>6
    <2> QED BY <2>1, <2>2
<1>2. c = IF t # << >> /\ t[1] >= H THEN <<0>> \o t ELSE t
    BY DEF Magnitude
<1>3. Mpint(s) = Prefixed(c)
    BY DEF Mpint, Magnitude
<1> HIDE DEF c, t
<1>4. c \in Seq(Byte) /\ Len(c) <= FixedLen + 1 /\ ~Negative(c) /\ Stripped(c) = t
    <2>1. CASE t # << >> /\ t[1] >= H
        <3>1. c = <<0>> \o t
            BY <1>2, <2>1
        <3>2. <<0>> \in Seq(Byte)
            BY <1>0 DEF Byte
        <3>3. Len(t) \in Nat /\ Len(t) > 0
            BY <1>1, <2>1
        <3>4. /\ c \in Seq(Byte) /\ Len(c) = Len(t) + 1 /\ c[1] = 0
              /\ \A i \in 1..Len(t) : c[1 + i] = t[i]
            BY <1>1, <3>1, <3>2
        <3>5. ~Negative(c)
            <4> HIDE DEF H
            <4>1. c[1] >= H => FALSE
                BY <1>0, <3>4
            <4> QED BY <4>1 DEF Negative, H
        <3>6. Stripped(c) = SubSeq(c, 1 + 1, 1 + (Len(c) - 1))
            <4>1. 1 \in 0..(Len(c) - 1) /\ c[1 + 1] # 0
                BY <1>1, <2>1, <3>3, <3>4
            <4>2. \A i \in 1..1 : c[i] = 0
                BY <3>4
            <4> QED BY <3>4, <4>1, <4>2, StrippedTo
        <3>7. /\ SubSeq(c, 1 + 1, 1 + Len(t)) \in Seq(Byte)
              /\ Len(SubSeq(c, 1 + 1, 1 + Len(t))) = Len(t)
              /\ \A i \in 1..Len(t) : SubSeq(c, 1 + 1, 1 + Len(t))[i] = c[1 + i]
            BY <3>3, <3>4, Slice
        <3>8. SubSeq(c, 1 + 1, 1 + Len(t)) = t
            BY <1>1, <3>3, <3>4, <3>7, SameSeq
        <3>9. Len(c) - 1 = Len(t)
            BY <3>3, <3>4
        <3> QED BY <1>0, <1>1, <3>3, <3>4, <3>5, <3>6, <3>8, <3>9
    <2>2. CASE ~(t # << >> /\ t[1] >= H)
        <3>1. c = t
            BY <1>2, <2>2
        <3>2. ~Negative(c)
            BY <2>2, <3>1 DEF Negative
        <3>3. Stripped(c) = t
            <4>1. CASE t = << >>
                <5>1. Len(t) = 0
                    BY <4>1
                <5>2. \A i \in 1..Len(t) : t[i] = 0
                    BY <5>1
                <5> QED BY <1>1, <3>1, <4>1, <5>2, StrippedZero
            <4>2. CASE t # << >>
                <5>1. Len(t) \in Nat /\ Len(t) > 0
                    BY <1>1, <4>2
                <5>2. 0 \in 0..(Len(t) - 1) /\ t[0 + 1] # 0 /\ \A i \in 1..0 : t[i] = 0
                    BY <1>1, <4>2, <5>1
                <5>3. Stripped(t) = SubSeq(t, 0 + 1, 0 + (Len(t) - 0))
                    BY <1>1, <5>2, StrippedTo
                <5>4. SubSeq(t, 1, Len(t)) = t
                    BY <1>1
                <5> QED BY <3>1, <5>1, <5>3, <5>4
            <4> QED BY <4>1, <4>2
        <3> QED BY <1>0, <1>1, <3>1, <3>2, <3>3
    <2> QED BY <2>1, <2>2
<1>5. Fixed(c) = s
    <2> DEFINE d == FixedLen - Len(t)
               w == [i \in 1..FixedLen |-> IF i <= d THEN 0 ELSE t[i - d]]
    <2>1. Fixed(c) = w
        <3>1. ~(Len(t) > FixedLen)
            BY <1>0, <1>1
        <3> QED BY <1>4, <3>1 DEF Fixed
    <2>2. d \in Nat /\ Len(t) \in Nat /\ d + Len(t) = FixedLen
        BY <1>0, <1>1
    <2>3. /\ \A i \in 1..d : s[i] = 0
          /\ \A i \in 1..Len(t) : s[d + i] = t[i]
        BY <1>1
    <2> HIDE DEF d
    <2>4. ASSUME NEW i \in 1..FixedLen PROVE s[i] = IF i <= d THEN 0 ELSE t[i - d]
        <3>1. CASE i <= d
            <4>1. i \in 1..d
                BY <2>2, <3>1
            <4> QED BY <2>3, <3>1, <4>1
        <3>2. CASE ~(i <= d)
            <4> DEFINE j == i - d
            <4>1. j \in 1..Len(t) /\ d + j = i
                BY <1>0, <2>2, <3>2
            <4> HIDE DEF j
            <4>2. s[d + j] = t[j]
                BY <2>3, <4>1
            <4> QED BY <3>2, <4>1, <4>2 DEF j
        <3> QED BY <3>1, <3>2
    <2>5. s = w
        BY <2>4
    <2> QED BY <2>1, <2>5
<1> QED BY <1>1, <1>3, <1>4, <1>5 DEF c, t

-----------------------------------------------------------------------------
(* Writing a field, and reading what was written.                          *)

\* The values a field can carry.
Fitting(k, v) ==
    /\ k \in Single => v \in Byte
    /\ k \in Flags => v \in {0, 1}
    /\ k = "id" => v = 1
    /\ k = "chan" => v \in 1..5
    /\ k \in Number32 => Fits(v, Word)
    /\ k = "pos" => v # 0
    /\ k = "zero" => v = 0
    /\ k \in {"attrs", "putattrs"} =>
          v <= SUPPORTED + EXTENDED \/ (k = "attrs" /\ v = UNSUPPORTED)
    /\ k = "u64" => Fits(v, 2 * Word)
    /\ k \in Whole => v \in Seq(Byte)
    /\ k = "cookie" => Len(v) = 1
    /\ k = "rest4" => Len(v) = Word
    /\ k \in Named => v \in Seq(Byte) /\ Fits(Len(v), Word)
    /\ k = "name" => v # << >>
    /\ k = "blob" => Len(v) \in 1..MaxBlob
    /\ k = "service" => v = CONNECTION
    /\ k = "list" => ValidList(v)
    /\ k = "reqtype" /\ RequestFields(v) = <<"refused">> => v = UNKNOWN
    /\ k \in {"mpint", "fixed"} => v \in [1..FixedLen -> Byte]

LEMMA SmallFits ==
    ASSUME NEW n \in Nat
    PROVE  /\ n <= 32 => Fits(n, Word)
           /\ n <= 2 => Fits(n, Word)
<1>1. Fits(32, Word) /\ Word \in Nat
    BY SizesAssumption DEF UNSUPPORTED
<1>2. n <= 32 => Fits(n, Word)
    BY <1>1, FitsLess
<1> QED BY <1>2

\* A name of two bytes.
LEMMA CodeFits ==
    ASSUME NEW a \in 0..7, NEW b \in 0..7
    PROVE  <<a, b>> \in Seq(Byte) /\ Fits(Len(<<a, b>>), Word)
<1>1. a \in Byte /\ b \in Byte
    BY BaseNat DEF Byte
<1>2. Len(<<a, b>>) = 2
    OBVIOUS
<1> QED BY <1>1, <1>2, SmallFits

LEMMA SamplesSingle ==
    ASSUME NEW k \in Single, NEW v \in Samples(k)
    PROVE  Fitting(k, v)
<1>1. /\ v \in Byte
      /\ k \in Flags => v \in {0, 1}
      /\ k = "id" => v = 1
      /\ k = "chan" => v \in 1..5
    <2>1. CASE k \in Flags
        <3>1. Samples(k) = {0, 1}
            BY <2>1 DEF Samples, Flags
        <3> QED BY <2>1, <3>1, BaseNat DEF Flags, Byte
    <2>2. CASE k = "id"
        <3>1. Samples(k) = {1}
            BY <2>2 DEF Samples, Flags
        <3> QED BY <2>2, <3>1, BaseNat DEF Flags, Byte
    <2>3. CASE k = "chan"
        <3>1. Samples(k) = 1..5
            BY <2>3 DEF Samples, Flags
        <3> QED BY <2>3, <3>1, BaseNat DEF Flags, Byte
    <2> QED BY <2>1, <2>2, <2>3 DEF Single, Flags
<1> QED BY <1>1 DEF Fitting, Single, Number32, Whole, Named

LEMMA SamplesNumber ==
    ASSUME NEW k \in Number32, k # "frame", NEW v \in Samples(k)
    PROVE  Fitting(k, v)
<1>1. /\ Fits(v, Word)
      /\ k = "pos" => v # 0
      /\ k = "zero" => v = 0
      /\ k \in {"attrs", "putattrs"} =>
            v <= SUPPORTED + EXTENDED \/ (k = "attrs" /\ v = UNSUPPORTED)
    <2> USE DEF Samples, Flags
    <2>1. CASE k = "u32"
        <3>1. Samples(k) = Uint32s
            BY <2>1
        <3> QED BY <2>1, <3>1, ValuesAssumption
    <2>2. CASE k = "pos"
        <3>1. Samples(k) = {1}
            BY <2>2
        <3> QED BY <2>2, <3>1, SmallFits
    <2>3. CASE k = "zero"
        <3>1. Samples(k) = {0}
            BY <2>3
        <3> QED BY <2>3, <3>1, SmallFits
    <2>4. CASE k = "count"
        <3>1. Samples(k) = {0, 1}
            BY <2>4
        <3> QED BY <2>4, <3>1, SmallFits
    <2>5. CASE k = "attrs"
        <3>1. Samples(k) = {0, 5, 15, 17, 32}
            BY <2>5 DEF SIZE, PERMISSIONS, SUPPORTED, UIDGID, ACMODTIME, EXTENDED, UNSUPPORTED
        <3>2. v \in Nat /\ v <= 32 /\ (v <= 31 \/ v = 32)
            BY <3>1
        <3> HIDE DEF Samples
        <3>3. Fits(v, Word)
            BY <3>2, SmallFits
        <3> QED BY <2>5, <3>2, <3>3 DEF SIZE, PERMISSIONS, SUPPORTED, UIDGID, ACMODTIME,
                EXTENDED, UNSUPPORTED
    <2>6. CASE k = "putattrs"
        <3>1. Samples(k) = {0, 1, 15}
            BY <2>6 DEF SIZE, PERMISSIONS, SUPPORTED, UIDGID, ACMODTIME
        <3>2. v \in Nat /\ v <= 31
            BY <3>1
        <3> HIDE DEF Samples
        <3>3. Fits(v, Word)
            BY <3>2, SmallFits
        <3> QED BY <2>6, <3>2, <3>3 DEF SIZE, PERMISSIONS, SUPPORTED, UIDGID, ACMODTIME, EXTENDED
    <2> HIDE DEF Samples
    <2> QED BY <2>1, <2>2, <2>3, <2>4, <2>5, <2>6 DEF Number32
<1> QED BY <1>1 DEF Fitting, Single, Number32, Whole, Named, Flags

LEMMA SamplesWhole ==
    ASSUME NEW k \in Whole, NEW v \in Samples(k)
    PROVE  Fitting(k, v)
<1>1. /\ v \in Seq(Byte)
      /\ k = "cookie" => Len(v) = 1
      /\ k = "rest4" => Len(v) = Word
    <2>1. CASE k = "cookie"
        <3>1. Samples(k) = {<<5>>}
            BY <2>1 DEF Samples, Flags
        <3>2. <<5>> \in Seq(Byte) /\ Len(<<5>>) = 1
            BY BaseNat DEF Byte
        <3> QED BY <2>1, <3>1, <3>2
    <2>2. CASE k = "rest"
        <3>1. Samples(k) = Texts
            BY <2>2 DEF Samples, Flags
        <3> QED BY <2>2, <3>1, ValuesAssumption
    <2>3. CASE k = "rest4"
        <3>1. Samples(k) = {Digits(0, Word)}
            BY <2>3 DEF Samples, Flags
        <3> QED BY <2>3, <3>1, DigitsAre, BaseNat
    <2> QED BY <2>1, <2>2, <2>3 DEF Whole
<1> QED BY <1>1 DEF Fitting, Single, Number32, Whole, Named, Flags

LEMMA SamplesNamed ==
    ASSUME NEW k \in Named, NEW v \in Samples(k)
    PROVE  Fitting(k, v)
<1>1. /\ v \in Seq(Byte) /\ Fits(Len(v), Word)
      /\ k = "name" => v # << >>
      /\ k = "blob" => Len(v) \in 1..MaxBlob
      /\ k = "service" => v = CONNECTION
      /\ k = "list" => ValidList(v)
      /\ k = "reqtype" /\ RequestFields(v) = <<"refused">> => v = UNKNOWN
    <2>0. UNKNOWN \in Seq(Byte) /\ Fits(Len(UNKNOWN), Word)
        <3>1. <<5>> \in Seq(Byte) /\ Len(<<5>>) = 1
            BY BaseNat DEF Byte
        <3> QED BY <3>1, SmallFits DEF UNKNOWN
    <2>1. CASE k = "str"
        <3>1. Samples(k) = Texts
            BY <2>1 DEF Samples, Flags
        <3> QED BY <2>1, <3>1, ValuesAssumption
    <2>2. CASE k = "name"
        <3>1. Samples(k) = Texts \ {<< >>}
            BY <2>2 DEF Samples, Flags
        <3> QED BY <2>2, <3>1, ValuesAssumption
    <2>3. CASE k = "blob"
        <3>1. Samples(k) = {s \in Texts : Len(s) \in 1..MaxBlob}
            BY <2>3 DEF Samples, Flags
        <3> QED BY <2>3, <3>1, ValuesAssumption
    <2>4. CASE k = "list"
        <3>1. Samples(k) = Offers
            BY <2>4 DEF Samples, Flags
        <3> QED BY <2>4, <3>1, ValuesAssumption
    <2>5. CASE k = "reqtype"
        <3>1. Samples(k) = {SUBSYSTEM, PTY_REQ, SHELL, EXEC, ENV, WINDOW_CHANGE, SIGNAL, UNKNOWN}
            BY <2>5 DEF Samples, Flags
        <3>2. \A s \in Samples(k) \ {UNKNOWN} : \E b \in 0..7 : s = <<7, b>>
            BY <3>1 DEF SUBSYSTEM, PTY_REQ, SHELL, EXEC, ENV, WINDOW_CHANGE, SIGNAL
        <3>3. \A b \in 0..7 : <<7, b>> \in Seq(Byte) /\ Fits(Len(<<7, b>>), Word)
            BY CodeFits
        <3>4. \A s \in Samples(k) \ {UNKNOWN} : RequestFields(s) # <<"refused">>
            <4> SUFFICES ASSUME NEW s \in {SUBSYSTEM, PTY_REQ, SHELL, EXEC, ENV,
                                           WINDOW_CHANGE, SIGNAL}
                PROVE  RequestFields(s) # <<"refused">>
                BY <3>1
            <4>1. \A a, b \in 0..6 : <<7, a>> = <<7, b>> => a = b
                OBVIOUS
            <4>2. /\ SUBSYSTEM # PTY_REQ /\ SUBSYSTEM # SHELL /\ SUBSYSTEM # EXEC
                  /\ SUBSYSTEM # ENV /\ SUBSYSTEM # WINDOW_CHANGE /\ SUBSYSTEM # SIGNAL
                  /\ PTY_REQ # SHELL /\ PTY_REQ # EXEC /\ PTY_REQ # ENV
                  /\ PTY_REQ # WINDOW_CHANGE /\ PTY_REQ # SIGNAL
                BY <4>1 DEF SUBSYSTEM, PTY_REQ, SHELL, EXEC, ENV, WINDOW_CHANGE, SIGNAL
            <4>3. /\ SHELL # EXEC /\ SHELL # ENV /\ SHELL # WINDOW_CHANGE /\ SHELL # SIGNAL
                  /\ EXEC # ENV /\ EXEC # WINDOW_CHANGE /\ EXEC # SIGNAL
                  /\ ENV # WINDOW_CHANGE /\ ENV # SIGNAL /\ WINDOW_CHANGE # SIGNAL
                BY <4>1 DEF SHELL, EXEC, ENV, WINDOW_CHANGE, SIGNAL
            <4>4. RequestFields(s) \in
                    {<<"str">>, <<"str", "u32", "u32", "u32", "u32", "str">>, << >>,
                     <<"str", "str">>, <<"u32", "u32", "u32", "u32">>}
                BY <4>2, <4>3 DEF RequestFields
            <4> QED BY <4>4
        <3>5. v \in Seq(Byte) /\ Fits(Len(v), Word)
            BY <2>0, <3>2, <3>3
        <3>6. RequestFields(v) = <<"refused">> => v = UNKNOWN
            BY <3>4
        <3> QED BY <2>5, <3>5, <3>6
    <2>6. CASE k = "method"
        <3>1. Samples(k) = {NONE, PASSWORD, PUBLICKEY, UNKNOWN}
            BY <2>6 DEF Samples, Flags
        <3>2. \A s \in Samples(k) \ {UNKNOWN} : \E b \in 0..7 : s = <<6, b>>
            BY <3>1 DEF NONE, PASSWORD, PUBLICKEY
        <3>3. \A b \in 0..7 : <<6, b>> \in Seq(Byte) /\ Fits(Len(<<6, b>>), Word)
            BY CodeFits
        <3> QED BY <2>0, <2>6, <3>2, <3>3
    <2>7. CASE k = "service"
        <3>1. Samples(k) = {CONNECTION}
            BY <2>7 DEF Samples, Flags
        <3>2. <<6, 0>> \in Seq(Byte) /\ Fits(Len(<<6, 0>>), Word)
            BY CodeFits
        <3> QED BY <2>7, <3>1, <3>2 DEF CONNECTION
    <2> QED BY <2>1, <2>2, <2>3, <2>4, <2>5, <2>6, <2>7 DEF Named
<1> QED BY <1>1 DEF Fitting, Single, Number32, Whole, Named, Flags

LEMMA SamplesFit ==
    ASSUME NEW k \in Kinds, k \notin {"refused", "frame"}, NEW v \in Samples(k)
    PROVE  Fitting(k, v)
<1>1. CASE k \in {"mpint", "fixed"}
    <2>1. Samples(k) = [1..FixedLen -> {0, 1, Base - 1}]
        BY <1>1 DEF Samples, Flags
    <2>2. {0, 1, Base - 1} \subseteq Byte
        BY BaseNat DEF Byte
    <2>3. v \in [1..FixedLen -> Byte]
        BY <2>1, <2>2
    <2> QED BY <1>1, <2>3 DEF Fitting, Single, Number32, Whole, Named, Flags
<1>2. CASE k = "u64"
    <2>1. Samples(k) = Uint64s
        BY <1>2 DEF Samples, Flags
    <2>2. Fits(v, 2 * Word)
        BY <2>1, ValuesAssumption
    <2> QED BY <1>2, <2>2 DEF Fitting, Single, Number32, Whole, Named, Flags
<1> QED BY <1>1, <1>2, KindsAre, SamplesSingle, SamplesNumber, SamplesWhole, SamplesNamed

LEMMA OfInteger ==
    ASSUME NEW k \in {"mpint", "fixed"}, NEW v, NEW n
    PROVE  /\ Encoded(k, v) = Mpint(v)
           /\ Left < Word => Span(k) = IF Left + 1 <= Left THEN Left + 1 ELSE -1
           /\ ~(Left < Word) =>
                Span(k) = IF Word + Number(Bytes(place, Word)) <= Left
                          THEN Word + Number(Bytes(place, Word)) ELSE -1
           /\ ~Negative(Bytes(place + Word, n - Word)) =>
                Value(k, n) = Fixed(Bytes(place + Word, n - Word))
           /\ Len(Stripped(Bytes(place + Word, n - Word))) <= FixedLen => Accepts(k, v, n)
<1> USE DEF Flags, Words, Raw
<1>1. Encoded(k, v) = Mpint(v)
    BY DEF Encoded
<1>2. /\ Left < Word => Span(k) = IF Left + 1 <= Left THEN Left + 1 ELSE -1
      /\ ~(Left < Word) =>
            Span(k) = IF Word + Number(Bytes(place, Word)) <= Left
                      THEN Word + Number(Bytes(place, Word)) ELSE -1
    BY DEF Span
<1>3. ~Negative(Bytes(place + Word, n - Word)) =>
          Value(k, n) = Fixed(Bytes(place + Word, n - Word))
    <2>1. CASE k = "mpint"
        BY <2>1 DEF Value
    <2>2. CASE k = "fixed"
        BY <2>2 DEF Value
    <2> QED BY <2>1, <2>2
<1>4. Len(Stripped(Bytes(place + Word, n - Word))) <= FixedLen => Accepts(k, v, n)
    BY DEF Accepts
<1> QED BY <1>1, <1>2, <1>3, <1>4

\* The checks on numbers and strings.
LEMMA NumberAccepted ==
    ASSUME NEW k \in Number32, NEW v, NEW n
    PROVE  Accepts(k, v, n) <=>
             /\ k = "pos" => v # 0
             /\ k = "zero" => v = 0
             /\ k = "frame" => v # 0 /\ v = Left - Word
             /\ k \in {"attrs", "putattrs"} => v <= SUPPORTED + EXTENDED
<1>1. CASE k \in {"pos", "zero"}
    BY <1>1 DEF Accepts, Number32, Flags
<1>2. CASE k = "frame"
    BY <1>2 DEF Accepts, Number32, Flags
<1>3. CASE k \in {"attrs", "putattrs"}
    <2>1. CASE k = "attrs"
        BY <2>1 DEF Accepts, Flags
    <2>2. CASE k = "putattrs"
        BY <2>2 DEF Accepts, Flags
    <2> QED BY <1>3, <2>1, <2>2
<1>4. CASE k \in {"u32", "count"}
    BY <1>4 DEF Accepts, Number32, Flags
<1> QED BY <1>1, <1>2, <1>3, <1>4 DEF Number32

LEMMA NamedAccepted ==
    ASSUME NEW k \in Named, NEW v, NEW n
    PROVE  Accepts(k, v, n) <=>
             /\ k = "name" => v # << >>
             /\ k = "blob" => Len(v) \in 1..MaxBlob
             /\ k = "service" => v = CONNECTION
             /\ k = "list" => ValidList(v)
<1>1. CASE k \in {"name", "blob"}
    <2>1. CASE k = "name"
        BY <2>1 DEF Accepts, Flags
    <2>2. CASE k = "blob"
        BY <2>2 DEF Accepts, Flags
    <2> QED BY <1>1, <2>1, <2>2
<1>2. CASE k \in {"service", "list"}
    <2>1. CASE k = "service"
        BY <2>1 DEF Accepts, Flags
    <2>2. CASE k = "list"
        BY <2>2 DEF Accepts, Flags
    <2> QED BY <1>2, <2>1, <2>2
<1>3. CASE k \in {"str", "reqtype", "method"}
    BY <1>3 DEF Accepts, Named, Flags
<1> QED BY <1>1, <1>2, <1>3 DEF Named

\* The length in front of a string, and the string.
LEMMA PrefixedIs ==
    ASSUME NEW c \in Seq(Byte), Fits(Len(c), Word)
    PROVE  /\ Prefixed(c) \in Seq(Byte) /\ Len(Prefixed(c)) = Word + Len(c)
           /\ Len(c) \in Nat
           /\ \A i \in 1..Word : Prefixed(c)[i] = Digits(Len(c), Word)[i]
           /\ \A i \in 1..Len(c) : Prefixed(c)[Word + i] = c[i]
<1> DEFINE d == Digits(Len(c), Word)
<1>1. Len(c) \in Nat /\ Word \in Nat
    BY BaseNat
<1>2. d \in Seq(Byte) /\ Len(d) = Word
    BY <1>1, DigitsAre
<1> HIDE DEF d
<1>3. /\ d \o c \in Seq(Byte) /\ Len(d \o c) = Len(d) + Len(c)
      /\ \A i \in 1..Len(d) : (d \o c)[i] = d[i]
      /\ \A i \in 1..Len(c) : (d \o c)[Len(d) + i] = c[i]
    <2>1. d \in Seq(Byte) /\ c \in Seq(Byte)
        BY <1>2
    <2>2. d \o c \in Seq(Byte) /\ Len(d \o c) = Len(d) + Len(c)
        BY <2>1
    <2>3. \A i \in 1..Len(d) : (d \o c)[i] = d[i]
        BY <2>1, Joined, Zenon
    <2>4. \A i \in 1..Len(c) : (d \o c)[Len(d) + i] = c[i]
        BY <2>1, JoinedRight
    <2> QED BY <2>2, <2>3, <2>4
<1> QED BY <1>1, <1>2, <1>3 DEF d, Prefixed

\* A string that was written is found where it was written.
LEMMA PrefixedBack ==
    ASSUME buf \in Seq(Byte), place \in Nat, NEW c \in Seq(Byte), Fits(Len(c), Word),
           NEW n, n = Len(Prefixed(c)), place + n <= Len(buf),
           SubSeq(buf, place + 1, place + n) = Prefixed(c)
    PROVE  /\ n \in Nat /\ n = Word + Len(c) /\ n <= Left /\ Word <= Left
           /\ Number(Bytes(place, Word)) = Len(c)
           /\ Bytes(place + Word, n - Word) = c
<1>1. Word \in Nat /\ Len(c) \in Nat /\ Len(buf) \in Nat /\ n = Word + Len(c)
    BY BaseNat, PrefixedIs
<1>2. n \in Nat /\ n <= Left /\ Word <= Left /\ place + Word <= Len(buf)
    BY <1>1 DEF Left
<1> DEFINE a == SubSeq(buf, place + 1, place + Word)
           b == SubSeq(buf, (place + Word) + 1, (place + Word) + Len(c))
           d == Digits(Len(c), Word)
<1>3. \A i \in 1..n : buf[place + i] = Prefixed(c)[i]
    <2>1. \A i \in 1..n : SubSeq(buf, place + 1, place + n)[i] = buf[place + i]
        BY <1>2, Slice
    <2> QED BY <2>1
<1>4. /\ a \in Seq(Byte) /\ Len(a) = Word /\ \A i \in 1..Word : a[i] = buf[place + i]
    BY <1>1, <1>2, Slice
<1>5. d \in Seq(Byte) /\ Len(d) = Word
    BY <1>1, DigitsAre
<1>6. a = d
    <2>1. ASSUME NEW i \in 1..Word PROVE a[i] = d[i]
        <3>1. i \in 1..n
            BY <1>1
        <3>2. Prefixed(c)[i] = d[i]
            BY PrefixedIs
        <3> HIDE DEF a, d
        <3> QED BY <1>3, <1>4, <3>1, <3>2
    <2> HIDE DEF a, d
    <2> QED BY <1>4, <1>5, <2>1, SameSeq
<1>7. /\ b \in Seq(Byte) /\ Len(b) = Len(c)
      /\ \A i \in 1..Len(c) : b[i] = buf[(place + Word) + i]
    <2>1. place + Word \in Nat /\ (place + Word) + Len(c) <= Len(buf)
        BY <1>1
    <2> QED BY <1>1, <2>1, Slice
<1>8. b = c
    <2> HIDE DEF b
    <2>1. ASSUME NEW i \in 1..Len(c) PROVE b[i] = c[i]
        <3>1. Word + i \in 1..n /\ place + (Word + i) = (place + Word) + i
            BY <1>1
        <3>2. Prefixed(c)[Word + i] = c[i]
            BY PrefixedIs
        <3>3. buf[place + (Word + i)] = Prefixed(c)[Word + i]
            BY <1>3, <3>1
        <3>4. b[i] = buf[(place + Word) + i]
            BY <1>7
        <3> QED BY <3>1, <3>2, <3>3, <3>4
    <2> QED BY <1>7, <2>1, SameSeq
<1>9. Number(d) = Len(c)
    BY <1>1, NumberOfDigits
<1>10. n - Word = Len(c)
    BY <1>1
<1> QED BY <1>1, <1>2, <1>6, <1>8, <1>9, <1>10 DEF Bytes

LEMMA IntegerFits ==
    ASSUME NEW s \in [1..FixedLen -> Byte]
    PROVE  Fits(Len(Magnitude(s)), Word)
<1> DEFINE n == Len(Magnitude(s))
<1>1. Magnitude(s) \in Seq(Byte) /\ n <= FixedLen + 1
    BY MpintBack
<1>2. n \in Nat
    BY <1>1
<1> HIDE DEF n
<1>3. Fits(FixedLen + 1, Word) /\ Word \in Nat
    BY SizesAssumption
<1>4. Fits(n, Word)
    BY <1>1, <1>2, <1>3, FitsLess
<1> QED BY <1>4 DEF n

\* What is written is a sequence of bytes.
LEMMA EncodedBytes ==
    ASSUME NEW k \in Kinds, k # "refused", NEW v, Fitting(k, v)
    PROVE  /\ Encoded(k, v) \in Seq(Byte) /\ Len(Encoded(k, v)) \in Nat
           /\ k \in Number32 => Len(Encoded(k, v)) = Word
           /\ k = "count" => v \in Nat
           /\ k = "id" => Len(Encoded(k, v)) = 1
<1>1. CASE k \in Single
    <2>1. Encoded(k, v) = <<v>> /\ v \in Byte
        BY <1>1, OfSingle DEF Fitting
    <2>2. <<v>> \in Seq(Byte) /\ Len(<<v>>) = 1
        BY <2>1
    <2>3. k \notin Number32 /\ k # "count"
        BY <1>1 DEF Single, Number32
    <2> QED BY <2>1, <2>2, <2>3
<1>2. CASE k \in Number32
    <2>1. Encoded(k, v) = Digits(v, Word) /\ Fits(v, Word)
        BY <1>2, OfNumber DEF Fitting
    <2>2. v \in Nat
        BY <2>1 DEF Fits
    <2>3. Digits(v, Word) \in Seq(Byte) /\ Len(Digits(v, Word)) = Word
        BY <2>2, DigitsAre, BaseNat
    <2>4. k # "id"
        BY <1>2 DEF Number32
    <2> QED BY <2>1, <2>2, <2>3, <2>4, BaseNat
<1>3. CASE k = "u64"
    <2>1. Encoded(k, v) = Digits(v, 2 * Word) /\ Fits(v, 2 * Word)
        BY <1>3, OfNumber64 DEF Fitting
    <2>2. v \in Nat /\ 2 * Word \in Nat
        BY <2>1, BaseNat DEF Fits
    <2>3. Digits(v, 2 * Word) \in Seq(Byte) /\ Len(Digits(v, 2 * Word)) = 2 * Word
        BY <2>2, DigitsAre
    <2> QED BY <1>3, <2>1, <2>2, <2>3 DEF Number32
<1>4. CASE k \in Whole
    <2>1. Encoded(k, v) = v /\ v \in Seq(Byte)
        BY <1>4, OfWhole DEF Fitting
    <2> QED BY <1>4, <2>1 DEF Number32, Whole
<1>5. CASE k \in Named
    <2>1. Encoded(k, v) = Prefixed(v) /\ v \in Seq(Byte) /\ Fits(Len(v), Word)
        BY <1>5, OfNamed DEF Fitting
    <2>2. Prefixed(v) \in Seq(Byte)
        BY <2>1, PrefixedIs
    <2> QED BY <1>5, <2>1, <2>2 DEF Number32, Named
<1>6. CASE k \in {"mpint", "fixed"}
    <2>1. Encoded(k, v) = Mpint(v) /\ v \in [1..FixedLen -> Byte]
        BY <1>6, OfInteger DEF Fitting
    <2>2. Mpint(v) \in Seq(Byte)
        BY <2>1, MpintBack, IntegerFits, PrefixedIs
    <2> QED BY <1>6, <2>1, <2>2 DEF Number32
<1> QED BY <1>1, <1>2, <1>3, <1>4, <1>5, <1>6, KindsAre

\* A field that was written, at the place where it was written.
LEMMA ReadBack ==
    ASSUME buf \in Seq(Byte), place \in Nat, NEW k \in Kinds, k # "refused",
           NEW v, Fitting(k, v),
           NEW n, n = Len(Encoded(k, v)), place + n <= Len(buf),
           SubSeq(buf, place + 1, place + n) = Encoded(k, v),
           k \in {"rest", "rest4"} => place + n = Len(buf),
           k = "frame" => v # 0 /\ v = Left - Word
    PROVE  /\ n \in Nat /\ Span(k) = n /\ Value(k, n) = v
           /\ Accepts(k, v, n) \/ (k = "attrs" /\ v = UNSUPPORTED)
<1>0. /\ Len(buf) \in Nat /\ n \in Nat /\ Left \in Int /\ n <= Left /\ Left = Len(buf) - place
      /\ Word \in Nat /\ Word > 0
    BY EncodedBytes, BaseNat DEF Left
<1>1. CASE k \in Single
    <2>1. Encoded(k, v) = <<v>> /\ n = 1
        <3>1. Encoded(k, v) = <<v>>
            BY <1>1, OfSingle
        <3>2. Len(<<v>>) = 1
            OBVIOUS
        <3> QED BY <3>1, <3>2
    <2>2. place + 1 <= Len(buf)
        BY <2>1
    <2>3. SubSeq(buf, place + 1, place + 1) = <<buf[place + 1]>>
        BY <2>2, SliceOne
    <2>4. buf[place + 1] = v
        BY <2>1, <2>3
    <2>5. Span(k) = 1
        BY <1>0, <1>1, <2>1, OfSingle
    <2>6. CASE k \in Flags
        <3>1. v \in {0, 1}
            BY <2>6 DEF Fitting
        <3>2. Value(k, n) = IF buf[place + 1] # 0 THEN 1 ELSE 0
            BY <1>1, <2>6, OfSingle
        <3>3. Accepts(k, v, n)
            BY <1>1, <2>4, <2>6, <3>1, OfSingle DEF IsFlag
        <3> QED BY <1>0, <2>1, <2>4, <2>5, <3>1, <3>2, <3>3
    <2>7. CASE k \notin Flags
        <3>1. Value(k, n) = v
            BY <1>1, <2>4, <2>7, OfSingle
        <3>2. CASE k = "id"
            BY <1>0, <1>1, <2>1, <2>5, <3>1, <3>2, OfSingle DEF Fitting
        <3>3. CASE k = "chan"
            BY <1>0, <1>1, <2>1, <2>5, <3>1, <3>3, OfSingle DEF Fitting
        <3> QED BY <1>1, <2>7, <3>2, <3>3 DEF Single, Flags
    <2> QED BY <2>6, <2>7
<1>2. CASE k \in Number32
    <2>1. Encoded(k, v) = Digits(v, Word) /\ n = Word /\ Fits(v, Word)
        BY <1>2, OfNumber, EncodedBytes DEF Fitting
    <2>2. Span(k) = n
        BY <1>0, <1>2, <2>1, OfNumber
    <2>3. Value(k, n) = Number(Digits(v, Word))
        BY <1>2, <2>1, OfNumber DEF Bytes
    <2>4. Number(Digits(v, Word)) = v
        BY <1>0, <2>1, NumberOfDigits
    <2>5. Accepts(k, v, n) \/ (k = "attrs" /\ v = UNSUPPORTED)
        BY <1>2, NumberAccepted DEF Fitting
    <2> QED BY <1>0, <2>2, <2>3, <2>4, <2>5
<1>3. CASE k = "u64"
    <2>0. 2 * Word \in Nat
        BY <1>0
    <2>1. Encoded(k, v) = Digits(v, 2 * Word) /\ Fits(v, 2 * Word)
        BY <1>3, OfNumber64 DEF Fitting
    <2>2. n = 2 * Word
        BY <2>0, <2>1, DigitsAre DEF Fits
    <2>3. Span(k) = n
        BY <1>0, <1>3, <2>2, OfNumber64
    <2>4. Value(k, n) = Number(Digits(v, 2 * Word))
        BY <1>3, <2>1, OfNumber64 DEF Bytes
    <2>5. Number(Digits(v, 2 * Word)) = v
        BY <2>0, <2>1, NumberOfDigits
    <2>6. Accepts(k, v, n)
        BY <1>3, OfNumber64
    <2> QED BY <1>0, <2>3, <2>4, <2>5, <2>6
<1>4. CASE k \in Whole
    <2>1. Encoded(k, v) = v /\ n = Len(v)
        BY <1>4, OfWhole
    <2>2. Value(k, n) = v
        BY <1>4, <2>1, OfWhole DEF Bytes
    <2>3. Span(k) = n
        <3>1. CASE k = "cookie"
            <4>1. n = 1
                BY <2>1, <3>1 DEF Fitting
            <4> QED BY <1>0, <1>4, <3>1, <4>1, OfWhole
        <3>2. CASE k # "cookie"
            <4>1. n = Left
                BY <1>0, <1>4, <3>2 DEF Whole
            <4> QED BY <1>0, <1>4, <3>2, <4>1, OfWhole
        <3> QED BY <3>1, <3>2
    <2>4. Accepts(k, v, n)
        <3>1. CASE k = "rest4"
            <4>1. n = Word
                BY <2>1, <3>1 DEF Fitting
            <4>2. Accepts(k, v, n) <=> n >= Word
                BY <1>4, <3>1, OfWhole
            <4> QED BY <1>0, <4>1, <4>2
        <3>2. CASE k # "rest4"
            BY <1>4, <3>2, OfWhole
        <3> QED BY <3>1, <3>2
    <2> QED BY <1>0, <2>2, <2>3, <2>4
<1>5. CASE k \in Named
    <2>1. Encoded(k, v) = Prefixed(v) /\ v \in Seq(Byte) /\ Fits(Len(v), Word)
        BY <1>5, OfNamed DEF Fitting
    <2>2. /\ n = Word + Len(v) /\ Word <= Left
          /\ Number(Bytes(place, Word)) = Len(v)
          /\ Bytes(place + Word, n - Word) = v
        BY <2>1, PrefixedBack
    <2>3. Span(k) = n
        <3>1. ~(Left < Word)
            BY <1>0, <2>2
        <3> QED BY <1>0, <1>5, <2>2, <3>1, OfNamed
    <2>4. Value(k, n) = v
        BY <1>5, <2>2, OfNamed
    <2>5. Accepts(k, v, n)
        BY <1>5, NamedAccepted DEF Fitting
    <2> QED BY <1>0, <2>3, <2>4, <2>5
<1>6. CASE k \in {"mpint", "fixed"}
    <2> DEFINE c == Magnitude(v)
    <2>1. Encoded(k, v) = Mpint(v) /\ v \in [1..FixedLen -> Byte]
        BY <1>6, OfInteger DEF Fitting
    <2>2. /\ c \in Seq(Byte) /\ Fits(Len(c), Word) /\ Mpint(v) = Prefixed(c)
          /\ ~Negative(c) /\ Len(Stripped(c)) <= FixedLen /\ Fixed(c) = v
        BY <2>1, MpintBack, IntegerFits
    <2> HIDE DEF c
    <2>3. /\ n = Word + Len(c) /\ Word <= Left
          /\ Number(Bytes(place, Word)) = Len(c)
          /\ Bytes(place + Word, n - Word) = c
        BY <2>1, <2>2, PrefixedBack
    <2>4. Span(k) = n
        <3>1. ~(Left < Word)
            BY <1>0, <2>3
        <3> QED BY <1>0, <1>6, <2>3, <3>1, OfInteger
    <2>5. Value(k, n) = v
        BY <1>6, <2>2, <2>3, OfInteger
    <2>6. Accepts(k, v, n)
        BY <1>6, <2>2, <2>3, OfInteger
    <2> QED BY <1>0, <2>4, <2>5, <2>6
<1> QED BY <1>1, <1>2, <1>3, <1>4, <1>5, <1>6, KindsAre

-----------------------------------------------------------------------------
(* From field to field.                                                    *)

\* A field of kind k is still to come.
Ahead(t, k) == \E m \in 1..Len(t) : t[m] = k

LEMMA NotAhead ==
    ASSUME NEW S, NEW t \in Seq(S), NEW k, k \notin S
    PROVE  ~Ahead(t, k)
<1>1. \A m \in 1..Len(t) : t[m] \in S
    OBVIOUS
<1> QED BY <1>1 DEF Ahead

LEMMA AheadTail ==
    ASSUME NEW f, NEW t, Shaped(f, t), t # << >>, NEW k, Ahead(Tail(t), k)
    PROVE  Ahead(t, k)
<1>1. PICK m \in 1..Len(Tail(t)) : Tail(t)[m] = k
    BY DEF Ahead
<1>2. Len(t) \in Nat /\ Len(Tail(t)) = Len(t) - 1 /\ \A i \in 1..(Len(t) - 1) : Tail(t)[i] = t[i + 1]
    BY TailShaped
<1>3. m \in 1..(Len(t) - 1)
    BY <1>2
<1>4. m + 1 \in 1..Len(t)
    BY <1>2, <1>3
<1>5. t[m + 1] = k
    BY <1>1, <1>2, <1>3
<1> QED BY <1>4, <1>5 DEF Ahead

LEMMA AheadAfter ==
    ASSUME NEW s \in Seq(Simple), NEW r \in Seq(Kinds), NEW k, k \notin Simple, Ahead(s \o r, k)
    PROVE  Ahead(r, k)
<1> DEFINE u == s \o r
<1>1. s \in Seq(Kinds)
    BY SimpleTame DEF Tame
<1>2. u \in Seq(Kinds) /\ Len(u) = Len(s) + Len(r) /\ Len(s) \in Nat /\ Len(r) \in Nat
    BY <1>1
<1>3. PICK m \in 1..Len(u) : u[m] = k
    BY DEF Ahead
<1>4. CASE m <= Len(s)
    <2>1. m \in 1..Len(s) /\ u[m] = s[m]
        BY <1>1, <1>2, <1>4
    <2>2. s[m] \in Simple
        BY <2>1
    <2> QED BY <1>3, <2>1, <2>2
<1>5. CASE m > Len(s)
    <2>1. m - Len(s) \in 1..Len(r) /\ u[m] = r[m - Len(s)]
        BY <1>1, <1>2, <1>5
    <2> QED BY <1>3, <2>1 DEF Ahead
<1> QED BY <1>2, <1>4, <1>5

\* What is not supported stands right after want_reply.
LEMMA RefusedAhead ==
    ASSUME NEW f, NEW t, Shaped(f, t), t # << >>, Ahead(t, "refused"), Head(t) # "refused"
    PROVE  Head(t) = "wish" /\ Tail(t) = <<"refused">>
<1>0. /\ t \in Seq(Kinds) /\ Len(t) \in Nat /\ Len(t) > 0 /\ Head(t) = t[1]
      /\ Len(Tail(t)) = Len(t) - 1 /\ \A i \in 1..(Len(t) - 1) : Tail(t)[i] = t[i + 1]
      /\ Tail(t) \in Seq(Kinds)
    BY TailShaped DEF Shaped
<1>1. PICK m \in 1..Len(t) : t[m] = "refused"
    BY DEF Ahead
<1>2. m = Len(t) /\ (Len(t) = 1 \/ (Len(t) = 2 /\ t[1] = "wish"))
    BY <1>1 DEF Shaped
<1>3. Len(t) # 1
    BY <1>0, <1>1, <1>2
<1>4. Len(t) = 2 /\ t[1] = "wish" /\ t[2] = "refused"
    BY <1>1, <1>2, <1>3
<1>5. Len(Tail(t)) = 1 /\ Tail(t)[1] = t[2]
    <2>1. 1 \in 1..(Len(t) - 1) /\ 1 + 1 = 2 /\ Len(t) - 1 = 1
        BY <1>4
    <2> QED BY <1>0, <2>1
<1>6. Tail(t) = <<"refused">>
    <2> DEFINE w == Tail(t)
    <2>1. w \in Seq(Kinds) /\ Len(w) = 1 /\ w[1] = "refused"
        BY <1>0, <1>4, <1>5
    <2> HIDE DEF w
    <2>2. w = <<"refused">>
        BY <2>1
    <2> QED BY <2>2 DEF w
<1> QED BY <1>0, <1>4, <1>6

\* Where the fields that matter for a refusal come from.
LEMMA FollowAhead ==
    ASSUME NEW f, NEW t, Shaped(f, t), t # << >>, Head(t) # "refused",
           NEW v, Head(t) = "count" => v \in Nat,
           NEW u, u = Follow(Head(t), v, Tail(t))
    PROVE  /\ Ahead(u, "chan") => Ahead(Tail(t), "chan")
           /\ Ahead(u, "reqtype") => Ahead(Tail(t), "reqtype") \/ Head(t) = "chan"
           /\ Ahead(u, "refused") =>
                 \/ Ahead(Tail(t), "refused") /\ u = Tail(t)
                 \/ Head(t) = "reqtype" /\ RequestFields(v) = <<"refused">> /\ u[1] = "wish"
<1> DEFINE k == Head(t)
           r == Tail(t)
<1>0. /\ Shaped(f, r) /\ k = t[1] /\ k \in Kinds /\ Len(t) \in Nat /\ Len(t) > 0 /\ r \in Seq(Kinds)
      /\ Len(r) = Len(t) - 1 /\ \A i \in 1..(Len(t) - 1) : r[i] = t[i + 1]
    BY TailShaped DEF Shaped
<1> HIDE DEF k, r
<1>1. CASE k = "chan"
    <2>0. t[1] = "chan"
        BY <1>0, <1>1
    <2>1. Len(t) = 1
        BY <2>0, HeadShaped
    <2>2. r = << >>
        BY <1>0, <2>1
    <2>3. u = ChannelFields(v) \o r
        BY <1>1 DEF Follow, k, r
    <2>4. u \in {WindowAdjust, ChannelData, ChannelRequest, ChannelEnd}
        BY <2>2, <2>3 DEF ChannelFields, WindowAdjust, ChannelData, ChannelRequest, ChannelEnd
    <2> DEFINE S == {"u32", "pos", "str", "reqtype", "wish"}
    <2>5. /\ WindowAdjust \in Seq(S) /\ ChannelData \in Seq(S)
          /\ ChannelRequest \in Seq(S) /\ ChannelEnd \in Seq(S)
        BY DEF WindowAdjust, ChannelData, ChannelRequest, ChannelEnd
    <2>6. u \in Seq(S)
        BY <2>4, <2>5
    <2>7. "chan" \notin S /\ "refused" \notin S
        OBVIOUS
    <2> HIDE DEF S
    <2>8. ~Ahead(u, "chan") /\ ~Ahead(u, "refused")
        BY <2>6, <2>7, NotAhead
    <2> QED BY <1>1, <2>8 DEF k
<1>2. CASE k = "reqtype"
    <2>0. t[1] = "reqtype"
        BY <1>0, <1>2
    <2>1. Len(t) = 2 /\ t[2] = "wish"
        BY <2>0, HeadShaped
    <2>2. r = <<"wish">>
        BY <1>0, <2>1
    <2>3. u = r \o RequestFields(v)
        BY <1>2 DEF Follow, k, r
    <2>4. CASE RequestFields(v) = <<"refused">>
        <3>1. u = <<"wish", "refused">>
            BY <2>2, <2>3, <2>4
        <3> DEFINE S == {"wish", "refused"}
        <3>2. u \in Seq(S) /\ u[1] = "wish"
            <4>1. <<"wish", "refused">> \in Seq(S) /\ <<"wish", "refused">>[1] = "wish"
                OBVIOUS
            <4> QED BY <3>1, <4>1
        <3>3. ~Ahead(u, "chan") /\ ~Ahead(u, "reqtype")
            <4>1. "chan" \notin S /\ "reqtype" \notin S
                OBVIOUS
            <4> HIDE DEF S
            <4> QED BY <3>2, <4>1, NotAhead
        <3> QED BY <1>2, <2>4, <3>2, <3>3 DEF k
    <2>5. CASE RequestFields(v) # <<"refused">>
        <3>1. RequestFields(v) \in Seq(Simple)
            BY <2>5, RequestSimple
        <3>2. r \in Seq(Simple)
            BY <2>2 DEF Simple
        <3>3. u \in Seq(Simple)
            <4>1. r \o RequestFields(v) \in Seq(Simple)
                BY <3>1, <3>2, Joined
            <4> QED BY <2>3, <4>1
        <3>4. "chan" \notin Simple /\ "reqtype" \notin Simple /\ "refused" \notin Simple
            BY DEF Simple
        <3> QED BY <3>3, <3>4, NotAhead
    <2> QED BY <2>4, <2>5
<1>3. CASE k = "method"
    <2>1. u = MethodFields(v)
        BY <1>3 DEF Follow, k, r
    <2>2. u \in {<< >>, <<"bool", "str">>, <<"signed", "name", "name">>, <<"rest">>}
        BY <2>1 DEF MethodFields
    <2> DEFINE S == {"bool", "str", "signed", "name", "rest"}
    <2>3. /\ << >> \in Seq(S) /\ <<"bool", "str">> \in Seq(S)
          /\ <<"signed", "name", "name">> \in Seq(S) /\ <<"rest">> \in Seq(S)
        OBVIOUS
    <2>4. u \in Seq(S)
        BY <2>2, <2>3
    <2>5. "chan" \notin S /\ "reqtype" \notin S /\ "refused" \notin S
        OBVIOUS
    <2> HIDE DEF S
    <2> QED BY <2>4, <2>5, NotAhead
<1>4. CASE k = "signed"
    <2>0. t[1] = "signed"
        BY <1>0, <1>4
    <2>1. \A i \in 1..Len(t) : t[i] \in {"signed", "name"}
        BY <2>0, HeadShaped
    <2> DEFINE S == {"signed", "name"}
               w == IF v = 1 THEN <<"name">> ELSE << >>
    <2>2. r \in Seq(S)
        <3>1. \A i \in 1..Len(r) : r[i] \in S
            BY <1>0, <2>1
        <3> QED BY <1>0, <3>1
    <2>3. u = r \o w
        BY <1>4 DEF Follow, k, r
    <2>4. w \in Seq(S)
        <3>1. <<"name">> \in Seq(S) /\ << >> \in Seq(S)
            OBVIOUS
        <3> QED BY <3>1
    <2> HIDE DEF w
    <2>5. u \in Seq(S)
        <3> HIDE DEF S
        <3>1. r \o w \in Seq(S)
            BY <2>2, <2>4, Joined
        <3> QED BY <2>3, <3>1
    <2>6. "chan" \notin S /\ "reqtype" \notin S /\ "refused" \notin S
        OBVIOUS
    <2> HIDE DEF S
    <2> QED BY <2>5, <2>6, NotAhead
<1>5. CASE k \in {"attrs", "putattrs", "count"}
    <2>1. PICK s \in Seq(Simple) : u = s \o r
        <3>1. CASE k = "attrs"
            BY <3>1, AttrFieldsSimple DEF Follow, k, r
        <3>2. CASE k = "putattrs"
            BY <3>2, AttrFieldsSimple DEF Follow, k, r
        <3>3. CASE k = "count"
            <4> DEFINE s == [i \in 1..(2 * v) |-> "str"]
            <4>1. v \in Nat
                BY <3>3 DEF k
            <4>2. s \in [1..(2 * v) -> Simple] /\ 2 * v \in Nat
                BY <4>1 DEF Simple
            <4>3. s \in Seq(Simple)
                BY <4>2
            <4>4. u = s \o r
                BY <3>3 DEF Follow, k, r
            <4> QED BY <4>3, <4>4
        <3> QED BY <1>5, <3>1, <3>2, <3>3
    <2>2. "chan" \notin Simple /\ "reqtype" \notin Simple /\ "refused" \notin Simple
        BY DEF Simple
    <2>3. /\ Ahead(u, "chan") => Ahead(r, "chan")
          /\ Ahead(u, "reqtype") => Ahead(r, "reqtype")
          /\ Ahead(u, "refused") => Ahead(r, "refused")
        BY <1>0, <2>1, <2>2, AheadAfter
    <2>4. ~Ahead(r, "refused")
        <3> SUFFICES ASSUME Ahead(r, "refused") PROVE FALSE
            OBVIOUS
        <3>1. Ahead(t, "refused")
            BY AheadTail DEF r
        <3>2. k = "wish"
            BY <3>1, RefusedAhead DEF k
        <3> QED BY <1>5, <3>2
    <2> QED BY <2>3, <2>4 DEF r
<1>6. CASE k \notin {"chan", "reqtype", "method", "signed", "attrs", "putattrs", "count"}
    <2>1. u = r
        BY <1>6 DEF Follow, k, r
    <2> QED BY <2>1 DEF k, r
<1> QED BY <1>1, <1>2, <1>3, <1>4, <1>5, <1>6

-----------------------------------------------------------------------------
(* The way through a message: t[i] is what is to come after i fields, e[i] *)
(* where the i-th field ends.                                              *)

IsSeq(s) == \E S : s \in Seq(S)

\* A request is refused for its type alone, and only after want_reply.
Orderly(t, fields, i) ==
    /\ Ahead(t[i], "chan") \/ Ahead(t[i], "reqtype") =>
          \A j \in 1..i : fields[j][1] # "reqtype"
    /\ Ahead(t[i], "refused") =>
          /\ \E j \in 1..i : fields[j] = <<"reqtype", UNKNOWN>>
          /\ \A j \in 1..i : fields[j][1] = "reqtype" => fields[j][2] = UNKNOWN
          /\ t[i][1] = "wish" \/ \E j \in 1..i : fields[j][1] = "wish"

Taken(t, fields, i) ==
    /\ t[i - 1] # << >> /\ Head(t[i - 1]) # "refused"
    /\ fields[i] = <<Head(t[i - 1]), fields[i][2]>>
    /\ Fitting(fields[i][1], fields[i][2])
    /\ t[i] = Follow(fields[i][1], fields[i][2], Tail(t[i - 1]))

Path(f, t, fields) ==
    /\ t[0] = Begin(f)
    /\ \A i \in 0..Len(fields) : Shaped(f, t[i]) /\ Orderly(t, fields, i)
    /\ \A i \in 1..Len(fields) : Taken(t, fields, i)

Layout(e, fields, bytes) ==
    /\ e[0] = 0
    /\ \A i \in 0..Len(fields) : e[i] \in Nat /\ e[i] <= Len(bytes)
    /\ \A i \in 1..Len(fields) :
        /\ e[i] = e[i - 1] + Size(fields[i]) /\ e[1] <= e[i]
        /\ SubSeq(bytes, e[i - 1] + 1, e[i]) = Encoded(fields[i][1], fields[i][2])

Along(f, fields, rest) == \E t : Path(f, t, fields) /\ t[Len(fields)] = rest
Laid(fields, bytes, p) == \E e : Layout(e, fields, bytes) /\ e[Len(fields)] = p

\* One more field; a field that stands at a place.
Added(more, fields, k, v) == more = Append(fields, <<k, v>>)
Stands(bytes, p, k, v) ==
    LET n == Len(Encoded(k, v))
    IN  n \in Nat /\ p + n <= Len(bytes) /\ SubSeq(bytes, p + 1, p + n) = Encoded(k, v)

LEMMA Appended ==
    ASSUME NEW s, IsSeq(s), NEW x, NEW a, a = Append(s, x)
    PROVE  /\ IsSeq(a) /\ Len(a) = Len(s) + 1 /\ Len(s) \in Nat
           /\ \A i \in 1..Len(s) : a[i] = s[i]
           /\ a[Len(s) + 1] = x
<1>1. PICK S : s \in Seq(S)
    BY DEF IsSeq
<1> DEFINE R == S \cup {x}
<1>2. s \in Seq(R) /\ x \in R
    BY <1>1
<1>3. /\ Append(s, x) \in Seq(R) /\ Len(Append(s, x)) = Len(s) + 1 /\ Len(s) \in Nat
      /\ \A i \in 1..Len(s) : Append(s, x)[i] = s[i]
      /\ Append(s, x)[Len(s) + 1] = x
    <2> HIDE DEF R
    <2> QED BY <1>2
<1> QED BY <1>3 DEF IsSeq

\* One more field was written or read.
LEMMA PathLonger ==
    ASSUME NEW f, NEW fields, IsSeq(fields), NEW r, Along(f, fields, r), r # << >>,
           NEW k, k = Head(r), k # "refused",
           NEW v, Fitting(k, v), NEW more, Added(more, fields, k, v)
    PROVE  Along(f, more, Follow(k, v, Tail(r)))
<1>t. PICK t : Path(f, t, fields) /\ t[Len(fields)] = r
    BY DEF Along
<1> DEFINE n == Len(fields)
           x == <<k, v>>
           last == Follow(k, v, Tail(r))
           u == [i \in 0..(n + 1) |-> IF i = n + 1 THEN last ELSE t[i]]
<1>0. /\ n \in Nat /\ Len(more) = n + 1 /\ \A i \in 1..n : more[i] = fields[i]
      /\ more[n + 1] = x
    BY Appended DEF Added
<1>1. Shaped(f, r) /\ k \in Kinds
    <2>1. n \in 0..n
        BY <1>0
    <2>2. Shaped(f, r)
        BY <1>t, <2>1 DEF Path
    <2> QED BY <2>2, TailShaped
<1>2. k = "count" => v \in Nat
    BY <1>1, EncodedBytes
<1>3. Shaped(f, last)
    BY <1>1, <1>2, FollowShaped
<1>4. /\ \A i \in 0..n : u[i] = t[i]
      /\ u[n + 1] = last
    BY <1>0
<1>x. x[1] = k /\ x[2] = v
    OBVIOUS
<1> HIDE DEF u, last, x, n
<1>5. ASSUME NEW i \in 0..(n + 1) PROVE Shaped(f, u[i])
    <2>1. CASE i = n + 1
        BY <1>3, <1>4, <2>1
    <2>2. CASE i # n + 1
        <3>1. i \in 0..n
            BY <1>0, <2>2
        <3> QED BY <1>t, <1>4, <3>1 DEF Path, n
    <2> QED BY <2>1, <2>2
<1>6. ASSUME NEW i \in 1..(n + 1) PROVE Taken(u, more, i)
    <2>1. CASE i = n + 1
        <3>1. i - 1 = n /\ n \in 0..n
            BY <1>0, <2>1
        <3>2. u[i - 1] = r
            BY <1>t, <1>4, <3>1 DEF n
        <3>3. more[i] = x /\ u[i] = last
            BY <1>0, <1>4, <2>1
        <3> QED BY <1>x, <3>2, <3>3 DEF Taken, x, last
    <2>2. CASE i # n + 1
        <3>1. i \in 1..n /\ i - 1 \in 0..n /\ i \in 0..n
            BY <1>0, <2>2
        <3>2. Taken(t, fields, i)
            BY <1>t, <3>1 DEF Path, n
        <3>3. u[i] = t[i] /\ u[i - 1] = t[i - 1] /\ more[i] = fields[i]
            BY <1>0, <1>4, <3>1
        <3> QED BY <3>2, <3>3 DEF Taken
    <2> QED BY <2>1, <2>2
<1>7. ASSUME NEW i \in 0..(n + 1) PROVE Orderly(u, more, i)
    <2>1. CASE i # n + 1
        <3>1. i \in 0..n /\ \A j \in 1..i : j \in 1..n
            BY <1>0, <2>1
        <3>2. Orderly(t, fields, i)
            BY <1>t, <3>1 DEF Path, n
        <3>3. u[i] = t[i] /\ \A j \in 1..i : more[j] = fields[j]
            BY <1>0, <1>4, <3>1
        <3> QED BY <3>2, <3>3 DEF Orderly
    <2>2. CASE i = n + 1
        <3>0. u[i] = last /\ r # << >> /\ Shaped(f, r) /\ k = Head(r)
            BY <1>1, <1>4, <2>2
        <3>1. Orderly(t, fields, n) /\ t[n] = r
            <4>1. n \in 0..n
                BY <1>0
            <4> QED BY <1>t, <4>1 DEF Path, n
        <3>2. \A j \in 1..i : j = n + 1 \/ j \in 1..n
            BY <1>0, <2>2
        <3>3. n + 1 \in 1..i /\ \A j \in 1..n : j \in 1..i
            BY <1>0, <2>2
        <3>a. Ahead(r, k)
            <4>1. k = r[1] /\ 1 \in 1..Len(r)
                BY <3>0, TailShaped
            <4> QED BY <4>1 DEF Ahead
        <3>4. /\ Ahead(last, "chan") => Ahead(Tail(r), "chan")
              /\ Ahead(last, "reqtype") => Ahead(Tail(r), "reqtype") \/ k = "chan"
              /\ Ahead(last, "refused") =>
                    \/ Ahead(Tail(r), "refused") /\ last = Tail(r)
                    \/ k = "reqtype" /\ RequestFields(v) = <<"refused">> /\ last[1] = "wish"
            BY <1>1, <1>2, FollowAhead DEF last
        <3>5. ASSUME Ahead(last, "chan") \/ Ahead(last, "reqtype")
              PROVE  \A j \in 1..i : more[j][1] # "reqtype"
            <4>1. Ahead(r, "chan") \/ Ahead(r, "reqtype")
                BY <3>0, <3>4, <3>5, <3>a, AheadTail
            <4>2. \A j \in 1..n : fields[j][1] # "reqtype"
                BY <3>1, <4>1 DEF Orderly
            <4>3. k # "reqtype"
                <5> SUFFICES ASSUME k = "reqtype" PROVE FALSE
                    OBVIOUS
                <5>1. r[1] = "reqtype"
                    BY <3>0, TailShaped
                <5>2. Len(r) = 2 /\ r[2] = "wish"
                    BY <3>0, <5>1, HeadShaped
                <5>3. Ahead(Tail(r), "chan") \/ Ahead(Tail(r), "reqtype")
                    BY <3>4, <3>5
                <5>4. PICK m \in 1..Len(Tail(r)) : Tail(r)[m] \in {"chan", "reqtype"}
                    BY <5>3 DEF Ahead
                <5>5. Len(Tail(r)) = Len(r) - 1 /\ \A j \in 1..(Len(r) - 1) : Tail(r)[j] = r[j + 1]
                    BY <3>0, TailShaped
                <5>6. Len(r) - 1 = 1 /\ 1 \in 1..1 /\ 1 + 1 = 2
                    BY <5>2
                <5>7. Tail(r)[1] = r[2] /\ Len(Tail(r)) = 1
                    BY <5>5, <5>6
                <5>8. m \in 1..1
                    BY <5>7
                <5>9. m = 1
                    BY <5>8
                <5> QED BY <5>2, <5>4, <5>7, <5>9
            <4> QED BY <1>0, <1>x, <3>2, <4>2, <4>3
        <3>6. ASSUME Ahead(last, "refused")
              PROVE  /\ \E j \in 1..i : more[j] = <<"reqtype", UNKNOWN>>
                     /\ \A j \in 1..i : more[j][1] = "reqtype" => more[j][2] = UNKNOWN
                     /\ last[1] = "wish" \/ \E j \in 1..i : more[j][1] = "wish"
            <4>1. CASE Ahead(Tail(r), "refused") /\ last = Tail(r)
                <5>1. Ahead(r, "refused")
                    BY <3>0, <4>1, AheadTail
                <5>2. k = "wish"
                    BY <3>0, <5>1, RefusedAhead
                <5>3. /\ \E j \in 1..n : fields[j] = <<"reqtype", UNKNOWN>>
                      /\ \A j \in 1..n : fields[j][1] = "reqtype" => fields[j][2] = UNKNOWN
                    BY <3>1, <5>1 DEF Orderly
                <5>4. \E j \in 1..i : more[j] = <<"reqtype", UNKNOWN>>
                    BY <1>0, <3>3, <5>3
                <5>5. \A j \in 1..i : more[j][1] = "reqtype" => more[j][2] = UNKNOWN
                    BY <1>0, <1>x, <3>2, <5>2, <5>3
                <5>6. \E j \in 1..i : more[j][1] = "wish"
                    BY <1>0, <1>x, <3>3, <5>2
                <5> QED BY <5>4, <5>5, <5>6
            <4>2. CASE k = "reqtype" /\ RequestFields(v) = <<"refused">> /\ last[1] = "wish"
                <5>1. v = UNKNOWN
                    BY <4>2 DEF Fitting
                <5>2. Ahead(r, "reqtype")
                    BY <3>a, <4>2
                <5>3. \A j \in 1..n : fields[j][1] # "reqtype"
                    BY <3>1, <5>2 DEF Orderly
                <5>4. x = <<"reqtype", UNKNOWN>>
                    BY <4>2, <5>1 DEF x
                <5>5. \E j \in 1..i : more[j] = <<"reqtype", UNKNOWN>>
                    BY <1>0, <3>3, <5>4
                <5>6. \A j \in 1..i : more[j][1] = "reqtype" => more[j][2] = UNKNOWN
                    BY <1>0, <1>x, <3>2, <5>1, <5>3
                <5> QED BY <4>2, <5>5, <5>6
            <4> QED BY <3>4, <3>6, <4>1, <4>2
        <3> QED BY <3>0, <3>5, <3>6 DEF Orderly
    <2> QED BY <2>1, <2>2
<1>8. u[0] = Begin(f)
    BY <1>0, <1>4, <1>t DEF Path
<1>9. Path(f, u, more)
    BY <1>0, <1>5, <1>6, <1>7, <1>8 DEF Path
<1> QED BY <1>0, <1>4, <1>9 DEF last, Along

LEMMA NatSum == ASSUME NEW a \in Nat, NEW b \in Nat PROVE a + b \in Nat
OBVIOUS

LEMMA SamePart ==
    ASSUME NEW a \in Seq(Byte), NEW b \in Seq(Byte), NEW p \in Nat, NEW q \in Nat,
           q <= Len(a), q <= Len(b), \A i \in 1..q : i > p => a[i] = b[i]
    PROVE  SubSeq(a, p + 1, q) = SubSeq(b, p + 1, q)
<1> DEFINE c == [i \in 1..(q - (p + 1) + 1) |-> a[i + (p + 1) - 1]]
           d == [i \in 1..(q - (p + 1) + 1) |-> b[i + (p + 1) - 1]]
<1>1. SubSeq(a, p + 1, q) = c /\ SubSeq(b, p + 1, q) = d
    BY DEF SubSeq
<1>2. ASSUME NEW i \in 1..(q - (p + 1) + 1) PROVE a[i + (p + 1) - 1] = b[i + (p + 1) - 1]
    <2>1. i + (p + 1) - 1 \in 1..q /\ i + (p + 1) - 1 > p
        OBVIOUS
    <2> QED BY <2>1
<1>3. c = d
    BY <1>2
<1> QED BY <1>1, <1>3

\* More bytes behind the fields change nothing.
LEMMA LayoutBehind ==
    ASSUME NEW fields, IsSeq(fields), NEW bytes \in Seq(Byte), NEW more \in Seq(Byte),
           NEW p, Laid(fields, bytes, p)
    PROVE  Laid(fields, bytes \o more, p)
<1>e. PICK e : Layout(e, fields, bytes) /\ e[Len(fields)] = p
    BY DEF Laid
<1>n. Len(fields) \in Nat
    BY DEF IsSeq
<1> DEFINE all == bytes \o more
<1>1. /\ all \in Seq(Byte) /\ Len(all) = Len(bytes) + Len(more)
      /\ Len(bytes) \in Nat /\ Len(more) \in Nat
      /\ \A i \in 1..Len(bytes) : all[i] = bytes[i]
    BY Joined
<1> HIDE DEF all
<1>2. ASSUME NEW i \in 0..Len(fields) PROVE e[i] \in Nat /\ e[i] <= Len(all)
    <2>1. e[i] \in Nat /\ e[i] <= Len(bytes)
        BY <1>e DEF Layout
    <2> QED BY <1>1, <2>1
<1>3. ASSUME NEW i \in 1..Len(fields)
      PROVE  SubSeq(all, e[i - 1] + 1, e[i]) = SubSeq(bytes, e[i - 1] + 1, e[i])
    <2>1. i - 1 \in 0..Len(fields) /\ i \in 0..Len(fields)
        BY <1>n
    <2>2. e[i - 1] \in Nat /\ e[i] \in Nat /\ e[i] <= Len(bytes)
        BY <1>e, <2>1 DEF Layout
    <2> DEFINE a == e[i - 1]
               q == e[i]
    <2>3. a \in Nat /\ q \in Nat /\ q <= Len(bytes) /\ q <= Len(all)
        BY <1>1, <2>2
    <2> HIDE DEF a, q
    <2>4. \A j \in 1..q : j > a => all[j] = bytes[j]
        BY <1>1, <2>3
    <2>5. SubSeq(all, a + 1, q) = SubSeq(bytes, a + 1, q)
        BY <1>1, <2>3, <2>4, SamePart
    <2> QED BY <2>5 DEF a, q
<1>4. Layout(e, fields, all)
    BY <1>e, <1>2, <1>3 DEF Layout
<1> QED BY <1>e, <1>4 DEF all, Laid

\* One more field, and its bytes.
LEMMA LayoutLonger ==
    ASSUME NEW fields, IsSeq(fields), NEW bytes \in Seq(Byte), NEW p, Laid(fields, bytes, p),
           NEW k, NEW v, Stands(bytes, p, k, v), NEW more, Added(more, fields, k, v)
    PROVE  Laid(more, bytes, p + Len(Encoded(k, v)))
<1>e. PICK e : Layout(e, fields, bytes) /\ e[Len(fields)] = p
    BY DEF Laid
<1> DEFINE m == Len(fields)
           n == Len(Encoded(k, v))
           x == <<k, v>>
           g == [i \in 0..(m + 1) |-> IF i = m + 1 THEN p + n ELSE e[i]]
<1>0. /\ m \in Nat /\ Len(more) = m + 1 /\ \A i \in 1..m : more[i] = fields[i]
      /\ more[m + 1] = x
    BY Appended DEF Added
<1>x. x[1] = k /\ x[2] = v /\ Size(x) = n
    BY DEF Size
<1>n. n \in Nat /\ p + n <= Len(bytes) /\ SubSeq(bytes, p + 1, p + n) = Encoded(k, v)
    BY DEF Stands
<1>1. /\ \A i \in 0..m : g[i] = e[i]
      /\ g[m + 1] = p + n
    BY <1>0
<1>2. p \in Nat
    <2>1. m \in 0..m
        BY <1>0
    <2> QED BY <1>e, <2>1 DEF Layout
<1> HIDE DEF g, x, m, n
<1>3. ASSUME NEW i \in 0..(m + 1) PROVE g[i] \in Nat /\ g[i] <= Len(bytes)
    <2>1. CASE i = m + 1
        <3>1. p + n \in Nat
            BY <1>2, <1>n, NatSum
        <3> QED BY <1>1, <1>n, <2>1, <3>1
    <2>2. CASE i # m + 1
        <3>1. i \in 0..m
            BY <1>0, <2>2
        <3> QED BY <1>e, <1>1, <3>1 DEF Layout, m
    <2> QED BY <2>1, <2>2
<1>4. ASSUME NEW i \in 1..(m + 1)
      PROVE  /\ g[i] = g[i - 1] + Size(more[i]) /\ g[1] <= g[i]
             /\ SubSeq(bytes, g[i - 1] + 1, g[i]) = Encoded(more[i][1], more[i][2])
    <2>1. CASE i = m + 1
        <3>1. i - 1 = m /\ m \in 0..m
            BY <1>0, <2>1
        <3>2. g[i - 1] = p /\ g[i] = p + n /\ more[i] = x
            BY <1>e, <1>0, <1>1, <2>1, <3>1 DEF m
        <3>3. g[1] <= g[i]
            <4>1. CASE m = 0
                <5>1. i = 1
                    BY <2>1, <4>1
                <5> QED BY <1>2, <1>n, <3>2, <5>1
            <4>2. CASE m # 0
                <5>1. 1 \in 1..m /\ m \in 1..m /\ 1 \in 0..m
                    BY <1>0, <4>2
                <5>2. e[1] <= e[m] /\ e[1] \in Nat /\ g[1] = e[1] /\ e[m] = p
                    BY <1>e, <1>1, <5>1 DEF Layout, m
                <5> QED BY <1>2, <1>n, <3>2, <5>2
            <4> QED BY <4>1, <4>2
        <3> QED BY <1>n, <1>x, <3>2, <3>3
    <2>2. CASE i # m + 1
        <3>1. i \in 1..m /\ i - 1 \in 0..m /\ i \in 0..m /\ 1 \in 0..m
            BY <1>0, <2>2
        <3>2. g[i] = e[i] /\ g[i - 1] = e[i - 1] /\ g[1] = e[1] /\ more[i] = fields[i]
            BY <1>0, <1>1, <3>1
        <3>3. /\ e[i] = e[i - 1] + Size(fields[i]) /\ e[1] <= e[i]
              /\ SubSeq(bytes, e[i - 1] + 1, e[i]) = Encoded(fields[i][1], fields[i][2])
            BY <1>e, <3>1 DEF Layout, m
        <3> QED BY <3>2, <3>3
    <2> QED BY <2>1, <2>2
<1>5. g[0] = 0
    BY <1>e, <1>0, <1>1 DEF Layout
<1>6. Layout(g, more, bytes)
    BY <1>0, <1>3, <1>4, <1>5 DEF Layout
<1> QED BY <1>0, <1>1, <1>6 DEF n, Laid

\* Fields laid out over all the bytes spell them.
LEMMA LayoutSpells ==
    ASSUME NEW fields, IsSeq(fields), NEW bytes, Laid(fields, bytes, Len(bytes))
    PROVE  Spells(bytes, fields)
<1>e. PICK e : Layout(e, fields, bytes) /\ e[Len(fields)] = Len(bytes)
    BY DEF Laid
<1> DEFINE n == Len(fields)
           g == Ends(fields)
           T == {i \in 0..n : g[i] = e[i]}
<1>0. n \in Nat
    BY DEF IsSeq
<1>1. /\ g[0] = 0
      /\ \A i \in 1..n : g[i] = g[i - 1] + Size(fields[i])
    BY <1>0, EndsSteps
<1>2. 0 \in T
    BY <1>e, <1>0, <1>1 DEF Layout
<1>3. ASSUME NEW i \in 1..n, i - 1 \in T PROVE i \in T
    <2>1. g[i - 1] = e[i - 1] /\ i \in 0..n
        BY <1>0, <1>3
    <2>2. e[i] = e[i - 1] + Size(fields[i])
        BY <1>e DEF Layout
    <2> QED BY <1>1, <2>1, <2>2
<1> HIDE DEF T
<1>4. \A i \in 0..n : i \in T
    BY <1>0, <1>2, <1>3, RoundByRound
<1>5. \A i \in 0..n : g[i] = e[i]
    BY <1>4 DEF T
<1>6. ASSUME NEW i \in 1..n
      PROVE  SubSeq(bytes, g[i - 1] + 1, g[i]) = Encoded(fields[i][1], fields[i][2])
    <2>1. i - 1 \in 0..n /\ i \in 0..n
        BY <1>0
    <2> QED BY <1>e, <1>5, <2>1 DEF Layout
<1>7. g[n] = Len(bytes)
    BY <1>e, <1>0, <1>5
<1> HIDE DEF g, n
<1> QED BY <1>6, <1>7 DEF Spells, g, n

\* No message starts with a refusal.
LEMMA NothingRefused ==
    ASSUME NEW f \in DOMAIN Formats
    PROVE  ~Ahead(Begin(f), "refused") /\ ~Ahead(Formats[f], "refused")
<1>1. ASSUME NEW t, Tame(t) PROVE ~Ahead(t, "refused") /\ t \in Seq(Kinds \ {"refused"})
    <2>1. \A i \in 1..Len(t) : t[i] # "refused" /\ t[i] \in Kinds
        <3> SUFFICES ASSUME NEW i \in 1..Len(t) PROVE t[i] # "refused" /\ t[i] \in Kinds
            OBVIOUS
        <3>1. t[i] \in Simple \/ t[i] \in {"rest", "rest4"}
            BY <1>1 DEF Tame
        <3> QED BY <3>1 DEF Simple, Kinds
    <2>2. t \in Seq(Kinds)
        BY <1>1 DEF Tame
    <2>3. t \in Seq(Kinds \ {"refused"})
        BY <2>1, <2>2
    <2> QED BY <2>1, <2>3 DEF Ahead
<1>2. CASE Framed(f)
    <2>1. Formats[f] = Sftp[f] /\ f \in DOMAIN Sftp
        BY <1>2 DEF Formats, Framed
    <2>2. Tame(Formats[f])
        BY <2>1, SftpTame
    <2> DEFINE S == Kinds \ {"refused"}
    <2>3. Formats[f] \in Seq(S)
        BY <1>1, <2>2
    <2>4. <<"frame">> \in Seq(S) /\ "refused" \notin S
        BY DEF Kinds
    <2> HIDE DEF S
    <2>5. <<"frame">> \o Formats[f] \in Seq(S)
        BY <2>3, <2>4, Joined
    <2> QED BY <1>2, <2>3, <2>4, <2>5, NotAhead DEF Begin
<1>3. CASE ~Framed(f)
    <2>1. Formats[f] = Ssh[f] /\ f \in DOMAIN Ssh
        BY <1>3 DEF Formats, Framed
    <2>2. Begin(f) = Formats[f]
        BY <1>3 DEF Begin
    <2>3. Shaped(f, Ssh[f])
        BY <2>1, SshShaped
    <2> SUFFICES ASSUME Ahead(Ssh[f], "refused") PROVE FALSE
        BY <2>1, <2>2
    <2>4. PICK m \in 1..Len(Ssh[f]) : Ssh[f][m] = "refused"
        BY DEF Ahead
    <2>5. f = "channel_message"
        BY <2>3, <2>4 DEF Shaped
    <2>6. Ssh[f] = <<"chan">>
        BY <2>5 DEF Ssh, ChannelMessage
    <2>7. <<"chan">> \in Seq({"chan"}) /\ "refused" \notin {"chan"}
        OBVIOUS
    <2> QED BY <2>6, <2>7, NotAhead
<1> QED BY <1>2, <1>3

LEMMA EmptyIsSeq == IsSeq(<< >>) /\ Len(<< >>) = 0
<1>1. << >> \in Seq(Nat) /\ Len(<< >>) = 0
    OBVIOUS
<1> QED BY <1>1 DEF IsSeq

\* Before the first field.
LEMMA PathStarts ==
    ASSUME NEW f \in DOMAIN Formats
    PROVE  Along(f, << >>, Begin(f))
<1> DEFINE t == [i \in 0..0 |-> Begin(f)]
<1>1. t[0] = Begin(f)
    OBVIOUS
<1>2. Shaped(f, t[0]) /\ ~Ahead(t[0], "refused")
    BY <1>1, FormatsShaped, NothingRefused
<1> HIDE DEF t
<1>3. Orderly(t, << >>, 0)
    BY <1>2 DEF Orderly
<1>4. 0..0 = {0} /\ 1..0 = {}
    OBVIOUS
<1>5. Path(f, t, << >>)
    BY <1>1, <1>2, <1>3, <1>4, EmptyIsSeq DEF Path
<1> QED BY <1>1, <1>5, EmptyIsSeq DEF Along

LEMMA LayoutStarts ==
    ASSUME NEW bytes \in Seq(Byte)
    PROVE  Laid(<< >>, bytes, 0)
<1> DEFINE e == [i \in 0..0 |-> 0]
<1>1. e[0] = 0 /\ Len(bytes) \in Nat
    OBVIOUS
<1> HIDE DEF e
<1>2. 0..0 = {0} /\ 1..0 = {}
    OBVIOUS
<1>3. Layout(e, << >>, bytes)
    BY <1>1, <1>2, EmptyIsSeq DEF Layout
<1> QED BY <1>1, <1>3, EmptyIsSeq DEF Laid

\* A frame's length is the first field, and only there.
LEMMA FrameFirst ==
    ASSUME NEW f \in DOMAIN Formats, NEW t, NEW fields, Len(fields) \in Nat, Path(f, t, fields),
           NEW i \in 1..Len(fields), fields[i][1] = "frame"
    PROVE  i = 1 /\ Framed(f)
<1> DEFINE r == t[i - 1]
<1>0. i - 1 \in 0..Len(fields) /\ i \in 0..Len(fields)
    OBVIOUS
<1>1. Taken(t, fields, i) /\ Shaped(f, r)
    BY <1>0 DEF Path
<1>2. r # << >> /\ fields[i] = <<Head(r), fields[i][2]>>
    BY <1>1 DEF Taken
<1>3. Head(r) = "frame"
    BY <1>2
<1>4. r[1] = "frame" /\ 1 \in 1..Len(r)
    BY <1>1, <1>2, <1>3, TailShaped
<1>5. ~NoFrame(r)
    BY <1>4 DEF NoFrame
<1>6. i = 1
    <2> SUFFICES ASSUME i # 1 PROVE FALSE
        OBVIOUS
    <2> DEFINE j == i - 1
               q == t[j - 1]
    <2>1. j \in 1..Len(fields) /\ j - 1 \in 0..Len(fields)
        OBVIOUS
    <2> HIDE DEF j
    <2>2. Taken(t, fields, j) /\ Shaped(f, q)
        BY <2>1 DEF Path
    <2>3. /\ q # << >> /\ Head(q) # "refused" /\ fields[j] = <<Head(q), fields[j][2]>>
          /\ Fitting(fields[j][1], fields[j][2])
          /\ t[j] = Follow(fields[j][1], fields[j][2], Tail(q))
        BY <2>2 DEF Taken
    <2>4. fields[j][1] = Head(q) /\ Head(q) \in Kinds
        <3>1. fields[j][1] = <<Head(q), fields[j][2]>>[1]
            BY <2>3
        <3>2. Head(q) \in Kinds
            BY <2>2, <2>3, TailShaped
        <3> QED BY <3>1, <3>2
    <2>5. Head(q) = "count" => fields[j][2] \in Nat
        BY <2>3, <2>4, EncodedBytes
    <2> HIDE DEF q
    <2>6. NoFrame(Follow(Head(q), fields[j][2], Tail(q)))
        BY <2>2, <2>3, <2>5, FollowShaped
    <2>7. NoFrame(t[j])
        BY <2>3, <2>4, <2>6
    <2> QED BY <1>5, <2>7 DEF j
<1>7. Framed(f)
    <2>1. r = Begin(f)
        BY <1>6 DEF Path
    <2> QED BY <1>5, <2>1, FormatsShaped DEF Begin
<1> QED BY <1>6, <1>7

-----------------------------------------------------------------------------
(* The inductive invariant of writing and reading.                         *)

\* While a message is written, buf holds the fields of sent.
Writing ==
    /\ buf \in Seq(Byte) /\ Len(buf) <= Capacity /\ IsSeq(sent) /\ intact = TRUE
    /\ NoFrame(todo)
    /\ Along(format, sent, todo) /\ Laid(sent, buf, Len(buf))
    /\ Framed(format) => Len(sent) > 0 /\ sent[1] = <<"frame", 0>>

\* A message that was written, and the length of its frame.
Complete ==
    /\ buf \in Seq(Byte) /\ IsSeq(sent)
    /\ Along(format, sent, << >>) \/ Along(format, sent, <<"refused">>)
    /\ Laid(sent, buf, Len(buf))
    /\ \A i \in 1..Len(sent) :
          sent[i][1] = "frame" => i = 1 /\ sent[i][2] # 0 /\ sent[i][2] = Len(buf) - Word

\* While a message is read, got spells what was read of buf.
Decoding ==
    /\ buf \in Seq(Byte) /\ IsSeq(got) /\ place \in Nat /\ place <= Len(buf)
    /\ Shaped(format, todo)
    /\ format \notin {"hostkey_signature", "user_signature"} =>
          Laid(got, buf, place)

\* While a message is read that arrived as it was, got is where sent was.
Following ==
    /\ Len(got) <= Len(sent) /\ \A i \in 1..Len(got) : got[i] = sent[i]
    /\ \E t : /\ Path(format, t, sent) /\ t[Len(sent)] \in {<< >>, <<"refused">>}
              /\ todo = t[Len(got)]
    /\ \E e : /\ Layout(e, sent, buf) /\ e[Len(sent)] = Len(buf)
              /\ place = e[Len(got)]

WireInv ==
    /\ format \in DOMAIN Formats
    /\ mode \in {"write", "written", "full", "read", "done"}
    /\ mode = "write" => Writing
    /\ mode = "written" => Complete /\ intact = TRUE
    /\ mode \in {"write", "written", "full"} => got = << >>
    /\ mode \in {"read", "done"} /\ format \in ServerOnly => intact
    /\ mode = "read" => Decoding
    /\ mode = "read" /\ intact => Complete /\ Following
    /\ Understood
    /\ Canonical

LEMMA StartKeeps == WireInit => WireInv
<1> SUFFICES ASSUME WireInit PROVE WireInv
    OBVIOUS
<1>1. /\ format \in DOMAIN Formats /\ mode = "write" /\ todo = Formats[format]
      /\ buf = (IF Framed(format) THEN Digits(0, Word) ELSE << >>)
      /\ sent = Reserved(format) /\ intact = TRUE /\ got = << >>
    BY DEF WireInit
<1>2. Fits(0, Word) /\ Word \in Nat /\ Capacity \in Nat /\ Capacity >= Word
    BY SmallFits, SizesAssumption
<1>3. Digits(0, Word) \in Seq(Byte) /\ Len(Digits(0, Word)) = Word
    BY <1>2, DigitsAre
<1>4. << >> \in Seq(Byte) /\ Len(<< >>) = 0
    OBVIOUS
<1>5. buf \in Seq(Byte) /\ Len(buf) <= Capacity
    BY <1>1, <1>2, <1>3, <1>4
<1>6. NoFrame(todo)
    BY <1>1, FormatsShaped
<1>7. Along(format, << >>, Begin(format))
    BY <1>1, PathStarts
<1>8. Laid(<< >>, buf, 0)
    BY <1>5, LayoutStarts
<1>9. CASE ~Framed(format)
    <2>1. sent = << >> /\ buf = << >> /\ todo = Begin(format)
        BY <1>1, <1>9 DEF Reserved, Begin
    <2>2. IsSeq(sent)
        BY <2>1, EmptyIsSeq
    <2>3. Writing
        BY <1>1, <1>4, <1>5, <1>6, <1>7, <1>8, <1>9, <2>1, <2>2 DEF Writing
    <2> QED BY <1>1, <2>3 DEF WireInv, Understood, Canonical
<1>10. CASE Framed(format)
    <2> DEFINE none == << >>
               r == Begin(format)
               x == <<"frame", 0>>
               one == Append(none, x)
    <2>0. r = <<"frame">> \o Formats[format] /\ Formats[format] \in Seq(Kinds)
        BY <1>1, <1>10, FormatsShaped DEF Begin, Shaped
    <2>1. r # << >> /\ Head(r) = "frame" /\ Tail(r) = Formats[format]
        BY <2>0
    <2>2. sent = one
        <3>1. Reserved(format) = <<x>>
            BY <1>10 DEF Reserved
        <3>2. <<x>> = one
            OBVIOUS
        <3> QED BY <1>1, <3>1, <3>2
    <2>3. Fitting("frame", 0)
        BY <1>2 DEF Fitting, Single, Flags, Number32, Whole, Named
    <2>n. IsSeq(none) /\ Len(none) = 0 /\ Along(format, none, r) /\ Laid(none, buf, 0)
        BY <1>4, <1>7, <1>8, EmptyIsSeq
    <2>b. one = Append(none, x) /\ Added(one, none, "frame", 0)
        BY DEF Added
    <2> HIDE DEF r, none, one, x
    <2>a. Len(one) = 1 /\ one[1] = x /\ IsSeq(one)
        <3>1. Len(one) = Len(none) + 1 /\ one[Len(none) + 1] = x /\ IsSeq(one)
            <4>1. IsSeq(none)
                BY <2>n
            <4>2. IsSeq(one)
                BY <4>1, <2>b, Appended
            <4>3. Len(one) = Len(none) + 1
                BY <4>1, <2>b, Appended
            <4>4. one[Len(none) + 1] = x
                BY <4>1, <2>b, Appended
            <4> QED BY <4>2, <4>3, <4>4
        <3> QED BY <2>n, <3>1
    <2>4. Along(format, one, Follow("frame", 0, Tail(r)))
        <3>1. "frame" = Head(r) /\ "frame" # "refused" /\ r # << >>
            BY <2>1
        <3> QED BY <2>b, <2>n, <2>3, <3>1, PathLonger
    <2>5. Follow("frame", 0, Tail(r)) = Formats[format]
        BY <2>1 DEF Follow
    <2>7. buf = Digits(0, Word) /\ Len(buf) = Word
        BY <1>1, <1>3, <1>10
    <2>8. Encoded("frame", 0) = Digits(0, Word)
        BY OfNumber DEF Number32
    <2>9. Laid(one, buf, 0 + Len(Encoded("frame", 0)))
        <3>1. Word = Len(Encoded("frame", 0)) /\ 0 + Word <= Len(buf)
            BY <1>2, <2>7, <2>8
        <3>2. SubSeq(buf, 0 + 1, 0 + Word) = buf
            BY <1>2, <1>5, <2>7
        <3>3. Stands(buf, 0, "frame", 0)
            BY <1>2, <2>7, <2>8, <3>1, <3>2 DEF Stands
        <3> QED BY <1>5, <2>b, <2>n, <3>3, LayoutLonger
    <2>10. 0 + Len(Encoded("frame", 0)) = Len(buf)
        BY <1>2, <2>7, <2>8
    <2>11. Laid(one, buf, Len(buf)) /\ Along(format, one, todo)
        BY <1>1, <2>4, <2>5, <2>9, <2>10
    <2>12. Writing
        BY <1>1, <1>5, <1>6, <1>10, <2>2, <2>a, <2>11 DEF Writing, x
    <2> QED BY <1>1, <2>12 DEF WireInv, Understood, Canonical
<1> QED BY <1>9, <1>10

LEMMA AlongShaped ==
    ASSUME NEW f, NEW fields, IsSeq(fields), NEW r, Along(f, fields, r)
    PROVE  Shaped(f, r)
<1>1. PICK t : Path(f, t, fields) /\ t[Len(fields)] = r
    BY DEF Along
<1>2. Len(fields) \in 0..Len(fields)
    BY DEF IsSeq
<1> QED BY <1>1, <1>2 DEF Path

\* The bytes of a field behind those that were there.
LEMMA StandsBehind ==
    ASSUME NEW s \in Seq(Byte), NEW k, NEW v, Encoded(k, v) \in Seq(Byte),
           NEW all, all = s \o Encoded(k, v)
    PROVE  /\ Stands(all, Len(s), k, v) /\ all \in Seq(Byte)
           /\ Len(all) = Len(s) + Len(Encoded(k, v))
<1> DEFINE c == Encoded(k, v)
           n == Len(c)
           m == Len(s)
<1>1. /\ all \in Seq(Byte) /\ Len(all) = m + n /\ m \in Nat /\ n \in Nat
    BY Joined
<1>2. \A i \in 1..n : all[m + i] = c[i]
    BY JoinedRight
<1>3. /\ SubSeq(all, m + 1, m + n) \in Seq(Byte) /\ Len(SubSeq(all, m + 1, m + n)) = n
      /\ \A i \in 1..n : SubSeq(all, m + 1, m + n)[i] = all[m + i]
    <2> HIDE DEF m, n, c
    <2>1. m + n <= Len(all)
        BY <1>1
    <2> QED BY <1>1, <2>1, Slice
<1>4. c \in Seq(Byte) /\ n = Len(c)
    OBVIOUS
<1>5. SubSeq(all, m + 1, m + n) = c
    <2> DEFINE d == SubSeq(all, m + 1, m + n)
    <2>1. d \in Seq(Byte) /\ Len(d) = Len(c) /\ \A i \in 1..Len(d) : d[i] = c[i]
        BY <1>2, <1>3
    <2> HIDE DEF d, c, m, n
    <2>2. d = c
        BY <1>4, <2>1, SameSeq
    <2> QED BY <2>2 DEF d
<1> HIDE DEF c, m, n
<1>6. m + n <= Len(all)
    BY <1>1
<1> QED BY <1>1, <1>5, <1>6 DEF Stands, c, m, n

LEMMA PutKeeps ==
    ASSUME WireInv, Put
    PROVE  WireInv'
<1>0. /\ mode = "write" /\ todo # << >> /\ Head(todo) # "refused" /\ format' = format
      /\ intact' = intact /\ got' = got
    BY DEF Put
<1>1. /\ format \in DOMAIN Formats /\ got = << >>
      /\ buf \in Seq(Byte) /\ Len(buf) <= Capacity /\ IsSeq(sent) /\ intact = TRUE
      /\ NoFrame(todo) /\ Along(format, sent, todo) /\ Laid(sent, buf, Len(buf))
      /\ Framed(format) => Len(sent) > 0 /\ sent[1] = <<"frame", 0>>
    BY <1>0 DEF WireInv, Writing
<1> DEFINE k == Head(todo)
<1>2. PICK v \in Samples(k) :
        IF Room(Encoded(k, v))
        THEN /\ buf' = buf \o Encoded(k, v)
             /\ sent' = Append(sent, <<k, v>>)
             /\ todo' = Follow(k, v, Tail(todo))
             /\ UNCHANGED mode
        ELSE mode' = "full"
    BY DEF Put
<1>3. CASE ~Room(Encoded(k, v))
    <2>1. mode' = "full"
        BY <1>2, <1>3
    <2> QED BY <1>0, <1>1, <2>1 DEF WireInv, Understood, Canonical
<1>4. CASE Room(Encoded(k, v))
    <2> DEFINE c == Encoded(k, v)
    <2>0. /\ buf' = buf \o c /\ sent' = Append(sent, <<k, v>>)
          /\ todo' = Follow(k, v, Tail(todo)) /\ mode' = mode
          /\ Len(buf) + Len(c) <= Capacity
        BY <1>2, <1>4 DEF Room
    <2>1. Shaped(format, todo)
        BY <1>1, AlongShaped
    <2>2. k \in Kinds /\ k # "refused" /\ k # "frame"
        <3>1. k = todo[1] /\ 1 \in 1..Len(todo) /\ k \in Kinds
            BY <1>0, <2>1, TailShaped
        <3> QED BY <1>0, <1>1, <3>1 DEF NoFrame
    <2>3. Fitting(k, v)
        BY <2>2, SamplesFit
    <2>4. c \in Seq(Byte) /\ (k = "count" => v \in Nat)
        BY <2>2, <2>3, EncodedBytes
    <2>5. NoFrame(todo')
        BY <1>0, <2>0, <2>1, <2>4, FollowShaped
    <2>6. Added(sent', sent, k, v)
        BY <2>0 DEF Added
    <2> HIDE DEF k
    <2>7. Along(format, sent', todo')
        <3>1. k = Head(todo)
            BY DEF k
        <3>2. Along(format, sent', Follow(k, v, Tail(todo)))
            BY <1>0, <1>1, <2>2, <2>3, <2>6, <3>1, PathLonger
        <3> QED BY <2>0, <3>2
    <2>8. /\ Stands(buf', Len(buf), k, v) /\ buf' \in Seq(Byte)
          /\ Len(buf') = Len(buf) + Len(c)
        <3>1. buf \in Seq(Byte) /\ Encoded(k, v) \in Seq(Byte) /\ buf' = buf \o Encoded(k, v)
            BY <1>1, <2>0, <2>4
        <3>2. Stands(buf', Len(buf), k, v)
            BY <3>1, StandsBehind
        <3> QED BY <3>1, <3>2, StandsBehind
    <2>9. Laid(sent, buf', Len(buf))
        BY <1>1, <2>0, <2>4, LayoutBehind
    <2>10. Laid(sent', buf', Len(buf'))
        <3>1. Laid(sent', buf', Len(buf) + Len(Encoded(k, v)))
            BY <1>1, <2>6, <2>8, <2>9, LayoutLonger
        <3> QED BY <2>8, <3>1
    <2>11. /\ IsSeq(sent') /\ Len(sent') = Len(sent) + 1 /\ Len(sent) \in Nat
           /\ \A i \in 1..Len(sent) : sent'[i] = sent[i]
        <3> DEFINE x == <<k, v>>
        <3>1. sent' = Append(sent, x)
            BY <2>0
        <3>2. IsSeq(sent)
            BY <1>1
        <3> HIDE DEF x
        <3>3. IsSeq(sent')
            BY <3>1, <3>2, Appended
        <3>4. Len(sent') = Len(sent) + 1 /\ Len(sent) \in Nat
            BY <3>1, <3>2, Appended
        <3>5. \A i \in 1..Len(sent) : sent'[i] = sent[i]
            BY <3>1, <3>2, Appended
        <3> QED BY <3>3, <3>4, <3>5
    <2>12. Framed(format) => Len(sent') > 0 /\ sent'[1] = <<"frame", 0>>
        <3> SUFFICES ASSUME Framed(format) PROVE Len(sent') > 0 /\ sent'[1] = <<"frame", 0>>
            OBVIOUS
        <3>1. 1 \in 1..Len(sent)
            BY <1>1, <2>11
        <3> QED BY <1>1, <2>11, <3>1
    <2>13. Len(buf') <= Capacity
        BY <2>0, <2>8
    <2>14. Writing'
        BY <1>0, <1>1, <2>5, <2>7, <2>8, <2>10, <2>11, <2>12, <2>13 DEF Writing
    <2> QED BY <1>0, <1>1, <2>0, <2>14 DEF WireInv, Understood, Canonical
<1> QED BY <1>3, <1>4

\* Another length in the frame is the same way through the message.
LEMMA PathFramed ==
    ASSUME NEW f \in DOMAIN Formats, Framed(f), NEW fields, IsSeq(fields), Len(fields) > 0,
           fields[1] = <<"frame", 0>>, NEW r, Along(f, fields, r),
           NEW n, Fits(n, Word), NEW g, IsSeq(g), Len(g) = Len(fields), g[1] = <<"frame", n>>,
           \A i \in 2..Len(fields) : g[i] = fields[i]
    PROVE  Along(f, g, r)
<1>1. PICK t : Path(f, t, fields) /\ t[Len(fields)] = r
    BY DEF Along
<1>2. Len(fields) \in Nat /\ 1 \in 1..Len(fields)
    BY DEF IsSeq
<1>3. \A j \in 1..Len(fields) : j = 1 \/ j \in 2..Len(fields)
    BY <1>2
<1>a. /\ fields[1][1] = "frame" /\ g[1][1] = "frame" /\ fields[1][2] = 0 /\ g[1][2] = n
      /\ fields[1] # <<"reqtype", UNKNOWN>>
    OBVIOUS
<1>4. \A j \in 1..Len(fields) : g[j][1] = fields[j][1]
    BY <1>3, <1>a
<1>5. ASSUME NEW i \in 1..Len(fields) PROVE Taken(t, g, i)
    <2>1. Taken(t, fields, i)
        BY <1>1 DEF Path
    <2>2. CASE i # 1
        <3>1. g[i] = fields[i]
            BY <1>3, <2>2
        <3> QED BY <2>1, <3>1 DEF Taken
    <2>3. CASE i = 1
        <3> DEFINE q == t[1 - 1]
        <3>1. /\ q # << >> /\ Head(q) # "refused" /\ fields[1] = <<Head(q), fields[1][2]>>
              /\ t[1] = Follow(fields[1][1], fields[1][2], Tail(q))
            BY <2>1, <2>3 DEF Taken
        <3>2. Head(q) = "frame"
            BY <1>a, <3>1
        <3>3. Follow("frame", 0, Tail(q)) = Tail(q) /\ Follow("frame", n, Tail(q)) = Tail(q)
            BY DEF Follow
        <3>4. Fitting("frame", n)
            BY DEF Fitting, Single, Flags, Number32, Whole, Named
        <3>5. g[1] = <<Head(q), g[1][2]>>
            BY <1>a, <3>2
        <3>6. t[1] = Follow(g[1][1], g[1][2], Tail(q))
            BY <1>a, <3>1, <3>3
        <3> QED BY <1>a, <2>3, <3>1, <3>4, <3>5, <3>6 DEF Taken
    <2> QED BY <2>2, <2>3
<1>6. ASSUME NEW i \in 0..Len(fields) PROVE Shaped(f, t[i]) /\ Orderly(t, g, i)
    <2>1. Shaped(f, t[i]) /\ Orderly(t, fields, i)
        BY <1>1 DEF Path
    <2>2. \A j \in 1..i : j \in 1..Len(fields)
        BY <1>2
    <2>3. ASSUME NEW j \in 1..i
          PROVE  /\ g[j][1] = fields[j][1]
                 /\ fields[j][1] = "reqtype" => g[j] = fields[j]
                 /\ fields[j] = <<"reqtype", UNKNOWN>> => g[j] = <<"reqtype", UNKNOWN>>
        BY <1>3, <1>4, <1>a, <2>2
    <2> QED BY <2>1, <2>3 DEF Orderly
<1>7. Path(f, t, g)
    BY <1>1, <1>5, <1>6 DEF Path
<1> QED BY <1>1, <1>7 DEF Along

\* There is more in a frame than its length.
LEMMA FrameLonger ==
    ASSUME NEW f \in DOMAIN Formats, Framed(f), NEW fields, IsSeq(fields), Len(fields) > 0,
           fields[1] = <<"frame", 0>>, NEW r \in {<< >>, <<"refused">>}, Along(f, fields, r),
           NEW bytes \in Seq(Byte), Laid(fields, bytes, Len(bytes))
    PROVE  Len(bytes) > Word
<1>1. PICK t : Path(f, t, fields) /\ t[Len(fields)] = r
    BY DEF Along
<1>2. PICK e : Layout(e, fields, bytes) /\ e[Len(fields)] = Len(bytes)
    BY DEF Laid
<1>3. Len(fields) \in Nat /\ 1 \in 1..Len(fields) /\ 1 - 1 = 0 /\ 2 - 1 = 1
    BY DEF IsSeq
<1>4. t[1] = Formats[f]
    <2>1. t[0] = <<"frame">> \o Formats[f]
        BY <1>1 DEF Path, Begin
    <2>2. Formats[f] \in Seq(Kinds)
        BY FormatsShaped DEF Shaped
    <2>3. Tail(t[0]) = Formats[f]
        BY <2>1, <2>2
    <2>4. Taken(t, fields, 1)
        BY <1>1, <1>3 DEF Path
    <2>5. t[1] = Follow("frame", 0, Tail(t[0]))
        BY <1>3, <2>4 DEF Taken
    <2>6. Follow("frame", 0, Tail(t[0])) = Tail(t[0])
        BY DEF Follow
    <2> QED BY <2>3, <2>5, <2>6
<1>5. Formats[f] \notin {<< >>, <<"refused">>} /\ Formats[f][1] = "id"
    <2>1. Len(Formats[f]) > 0 /\ Formats[f][1] = "id"
        BY FormatsShaped
    <2>2. Len(<< >>) = 0 /\ <<"refused">>[1] = "refused"
        OBVIOUS
    <2> QED BY <2>1, <2>2
<1>6. Len(fields) # 1
    BY <1>1, <1>4, <1>5
<1>7. 2 \in 1..Len(fields) /\ 2 \in 0..Len(fields)
    <2> DEFINE m == Len(fields)
    <2>1. m \in Nat /\ m > 0 /\ m # 1
        BY <1>3, <1>6
    <2> HIDE DEF m
    <2>2. 2 \in 1..m /\ 2 \in 0..m
        BY <2>1
    <2> QED BY <2>2 DEF m
<1>8. Taken(t, fields, 2)
    BY <1>1, <1>7 DEF Path
<1>9. Head(t[1]) = "id"
    <2>1. Formats[f] \in Seq(Kinds)
        BY FormatsShaped DEF Shaped
    <2> QED BY <1>4, <1>5, <2>1
<1>10. fields[2][1] = "id" /\ Fitting("id", fields[2][2])
    <2>1. fields[2] = <<"id", fields[2][2]>> /\ Fitting(fields[2][1], fields[2][2])
        BY <1>3, <1>8, <1>9 DEF Taken
    <2> QED BY <2>1
<1>11. Size(fields[2]) = 1
    <2>1. "id" \in Kinds
        BY DEF Kinds
    <2> QED BY <1>10, <2>1, EncodedBytes DEF Size
<1>12. Size(fields[1]) = Word
    <2>1. "frame" \in Number32 /\ "frame" \in Kinds
        BY DEF Number32, Kinds
    <2>2. Encoded("frame", 0) = Digits(0, Word)
        BY <2>1, OfNumber
    <2>3. fields[1][1] = "frame" /\ fields[1][2] = 0
        OBVIOUS
    <2> QED BY <2>2, <2>3, DigitsAre, BaseNat DEF Size
<1>13. e[0] = 0 /\ e[1] = e[0] + Size(fields[1]) /\ e[2] = e[1] + Size(fields[2]) /\ e[2] <= Len(bytes)
    BY <1>2, <1>3, <1>7 DEF Layout
<1>14. Len(bytes) \in Nat /\ Word \in Nat
    BY BaseNat
<1> QED BY <1>11, <1>12, <1>13, <1>14

\* The length is written over what was kept free for it.
LEMMA LayoutFramed ==
    ASSUME NEW fields, IsSeq(fields), Len(fields) > 0, fields[1] = <<"frame", 0>>,
           NEW bytes \in Seq(Byte), Laid(fields, bytes, Len(bytes)),
           NEW n, Fits(n, Word), NEW g, IsSeq(g), Len(g) = Len(fields), g[1] = <<"frame", n>>,
           \A i \in 2..Len(fields) : g[i] = fields[i],
           NEW b \in Seq(Byte), Len(b) = Len(bytes), Len(bytes) >= Word,
           SubSeq(b, 1, Word) = Digits(n, Word),
           \A i \in 1..Len(b) : i > Word => b[i] = bytes[i]
    PROVE  Laid(g, b, Len(b))
<1>1. PICK e : Layout(e, fields, bytes) /\ e[Len(fields)] = Len(bytes)
    BY DEF Laid
<1>2. Len(fields) \in Nat /\ 1 \in 1..Len(fields) /\ 1 - 1 = 0 /\ Word \in Nat /\ Len(b) \in Nat
    BY BaseNat DEF IsSeq
<1>3. \A j \in 1..Len(fields) : j = 1 \/ j \in 2..Len(fields)
    BY <1>2
<1>4. /\ Encoded("frame", n) = Digits(n, Word) /\ Encoded("frame", 0) = Digits(0, Word)
      /\ Len(Digits(n, Word)) = Word /\ Len(Digits(0, Word)) = Word
    <2>1. "frame" \in Number32 /\ n \in Nat
        BY DEF Number32, Fits
    <2>2. Encoded("frame", n) = Digits(n, Word) /\ Encoded("frame", 0) = Digits(0, Word)
        BY <2>1, OfNumber
    <2> QED BY <1>2, <2>1, <2>2, DigitsAre
<1>5. /\ fields[1][1] = "frame" /\ fields[1][2] = 0 /\ g[1][1] = "frame" /\ g[1][2] = n
    OBVIOUS
<1>6. Size(fields[1]) = Word /\ Size(g[1]) = Word
    BY <1>4, <1>5 DEF Size
<1>7. e[0] = 0 /\ e[1] = Word
    <2>1. e[0] = 0 /\ e[1] = e[0] + Size(fields[1])
        BY <1>1, <1>2 DEF Layout
    <2> QED BY <1>2, <1>6, <2>1
<1>8. ASSUME NEW i \in 1..Len(fields)
      PROVE  /\ e[i] = e[i - 1] + Size(g[i]) /\ e[1] <= e[i]
             /\ SubSeq(b, e[i - 1] + 1, e[i]) = Encoded(g[i][1], g[i][2])
    <2>1. /\ e[i] = e[i - 1] + Size(fields[i]) /\ e[1] <= e[i]
          /\ SubSeq(bytes, e[i - 1] + 1, e[i]) = Encoded(fields[i][1], fields[i][2])
        BY <1>1 DEF Layout
    <2>2. CASE i = 1
        <3>1. e[i - 1] + 1 = 1 /\ e[i] = Word
            BY <1>2, <1>7, <2>2
        <3>2. SubSeq(b, e[i - 1] + 1, e[i]) = Encoded(g[i][1], g[i][2])
            BY <1>4, <1>5, <2>2, <3>1
        <3>3. Size(g[i]) = Size(fields[i])
            BY <1>6, <2>2
        <3> QED BY <2>1, <3>2, <3>3
    <2>3. CASE i # 1
        <3>1. g[i] = fields[i]
            BY <1>3, <2>3
        <3> DEFINE p == e[i - 1]
                   q == e[i]
        <3>2. i - 1 \in 1..Len(fields) /\ i - 1 \in 0..Len(fields) /\ i \in 0..Len(fields)
            BY <1>2, <2>3
        <3>3. p \in Nat /\ q \in Nat /\ q <= Len(bytes) /\ Word <= p
            BY <1>1, <1>7, <3>2 DEF Layout
        <3> HIDE DEF p, q
        <3>4. \A j \in 1..q : j > p => b[j] = bytes[j]
            <4> SUFFICES ASSUME NEW j \in 1..q, j > p PROVE b[j] = bytes[j]
                OBVIOUS
            <4>1. Len(b) \in Nat /\ q <= Len(b) /\ Word \in Nat
                BY <3>3, BaseNat
            <4>2. j \in 1..Len(b) /\ j > Word
                BY <3>3, <4>1
            <4> QED BY <4>2
        <3>5. SubSeq(b, p + 1, q) = SubSeq(bytes, p + 1, q)
            BY <3>3, <3>4, SamePart
        <3> QED BY <2>1, <3>1, <3>5 DEF p, q
    <2> QED BY <2>2, <2>3
<1>9. \A i \in 0..Len(fields) : e[i] \in Nat /\ e[i] <= Len(b)
    BY <1>1 DEF Layout
<1>10. Layout(e, g, b)
    BY <1>7, <1>8, <1>9 DEF Layout
<1> QED BY <1>1, <1>10 DEF Laid

LEMMA FinishKeeps ==
    ASSUME WireInv, Finish
    PROVE  WireInv'
<1>0. /\ mode = "write" /\ todo \in {<< >>, <<"refused">>} /\ mode' = "written"
      /\ format' = format /\ intact' = intact /\ got' = got
    BY DEF Finish
<1>1. /\ format \in DOMAIN Formats /\ got = << >>
      /\ buf \in Seq(Byte) /\ Len(buf) <= Capacity /\ IsSeq(sent) /\ intact = TRUE
      /\ Along(format, sent, todo) /\ Laid(sent, buf, Len(buf))
      /\ Framed(format) => Len(sent) > 0 /\ sent[1] = <<"frame", 0>>
    BY <1>0 DEF WireInv, Writing
<1>2. Len(sent) \in Nat /\ Len(buf) \in Nat
    BY <1>1 DEF IsSeq
<1>3. PICK t : Path(format, t, sent) /\ t[Len(sent)] = todo
    BY <1>1 DEF Along
<1>4. CASE ~Framed(format)
    <2>1. buf' = buf /\ sent' = sent
        BY <1>4 DEF Finish
    <2>2. ASSUME NEW i \in 1..Len(sent) PROVE sent[i][1] # "frame"
        BY <1>1, <1>2, <1>3, <1>4, FrameFirst
    <2>3. Along(format, sent, << >>) \/ Along(format, sent, <<"refused">>)
        BY <1>0, <1>1
    <2>4. Complete'
        BY <1>0, <1>1, <2>1, <2>2, <2>3 DEF Complete
    <2> QED BY <1>0, <1>1, <2>4 DEF WireInv, Understood, Canonical
<1>5. CASE Framed(format)
    <2> DEFINE size == Len(buf) - Word
               g == [sent EXCEPT ![1] = <<"frame", size>>]
               d == Digits(size, Word)
               b == d \o SubSeq(buf, Word + 1, Len(buf))
    <2>1. buf' = b /\ sent' = g
        BY <1>5 DEF Finish
    <2>2. Len(buf) > Word
        BY <1>0, <1>1, <1>5, FrameLonger
    <2>3. size \in Nat /\ size # 0 /\ Fits(size, Word) /\ Word \in Nat
        <3>1. Word \in Nat /\ Capacity \in Nat /\ Fits(Capacity, Word)
            BY SizesAssumption
        <3>2. size \in Nat /\ size # 0 /\ size <= Capacity
            BY <1>1, <1>2, <2>2, <3>1
        <3> HIDE DEF size
        <3> QED BY <3>1, <3>2, FitsLess
    <2>4. /\ IsSeq(g) /\ Len(g) = Len(sent) /\ g[1] = <<"frame", size>>
          /\ \A i \in 2..Len(sent) : g[i] = sent[i]
        <3> DEFINE x == <<"frame", size>>
        <3>1. PICK S : sent \in Seq(S)
            BY <1>1 DEF IsSeq
        <3> DEFINE R == S \cup {x}
        <3>2. sent \in Seq(R) /\ x \in R /\ Len(sent) > 0
            BY <1>1, <1>5, <3>1
        <3> HIDE DEF x, R
        <3>3. [sent EXCEPT ![1] = x] \in Seq(R)
            BY <3>2
        <3>4. Len([sent EXCEPT ![1] = x]) = Len(sent)
            BY <3>2
        <3>5. [sent EXCEPT ![1] = x][1] = x
            BY <1>2, <3>2
        <3>6. \A i \in 2..Len(sent) : [sent EXCEPT ![1] = x][i] = sent[i]
            BY <1>2, <3>2
        <3> QED BY <3>3, <3>4, <3>5, <3>6 DEF IsSeq, x
    <2>5. /\ b \in Seq(Byte) /\ Len(b) = Len(buf)
          /\ SubSeq(b, 1, Word) = d
          /\ \A i \in 1..Len(b) : i > Word => b[i] = buf[i]
        <3> DEFINE s == SubSeq(buf, Word + 1, Len(buf))
        <3>1. d \in Seq(Byte) /\ Len(d) = Word
            BY <2>3, DigitsAre
        <3>2. /\ s \in Seq(Byte) /\ Len(s) = size
              /\ \A i \in 1..size : s[i] = buf[Word + i]
            <4>1. Word + size = Len(buf) /\ Word + size <= Len(buf)
                BY <1>2, <2>3
            <4> HIDE DEF size
            <4>2. /\ SubSeq(buf, Word + 1, Word + size) \in Seq(Byte)
                  /\ Len(SubSeq(buf, Word + 1, Word + size)) = size
                  /\ \A i \in 1..size : SubSeq(buf, Word + 1, Word + size)[i] = buf[Word + i]
                BY <1>1, <2>3, <4>1, Slice
            <4> QED BY <4>1, <4>2
        <3>3. Word + size = Len(buf)
            BY <1>2, <2>3
        <3> HIDE DEF s, d, size
        <3>4. b \in Seq(Byte) /\ Len(b) = Word + size
            BY <3>1, <3>2 DEF s
        <3>5. \A i \in 1..Word : b[i] = d[i]
            <4>1. \A i \in 1..Len(d) : (d \o s)[i] = d[i]
                BY <3>1, <3>2, Joined, Zenon
            <4> QED BY <3>1, <4>1 DEF s
        <3>6. \A i \in 1..size : b[Word + i] = s[i]
            <4>1. \A i \in 1..Len(s) : (d \o s)[Len(d) + i] = s[i]
                BY <3>1, <3>2, JoinedRight
            <4> QED BY <3>1, <3>2, <4>1 DEF s
        <3> HIDE DEF b
        <3>7. ASSUME NEW i \in 1..Len(b), i > Word PROVE b[i] = buf[i]
            <4> DEFINE j == i - Word
            <4>1. j \in 1..size /\ Word + j = i
                BY <2>3, <3>4, <3>7
            <4> HIDE DEF j
            <4> QED BY <3>2, <3>6, <4>1
        <3>8. SubSeq(b, 1, Word) = d
            <4>1. /\ SubSeq(b, 0 + 1, 0 + Word) \in Seq(Byte) /\ Len(SubSeq(b, 0 + 1, 0 + Word)) = Word
                  /\ \A i \in 1..Word : SubSeq(b, 0 + 1, 0 + Word)[i] = b[0 + i]
                <5>1. 0 + Word <= Len(b)
                    BY <2>3, <3>4
                <5> QED BY <2>3, <3>4, <5>1, Slice
            <4> DEFINE w == SubSeq(b, 1, Word)
            <4>2. w \in Seq(Byte) /\ Len(w) = Word /\ \A i \in 1..Word : w[i] = b[i]
                BY <2>3, <4>1
            <4> HIDE DEF w
            <4>3. w = d
                BY <3>1, <3>5, <4>2, SameSeq
            <4> QED BY <4>3 DEF w
        <3> QED BY <3>3, <3>4, <3>7, <3>8
    <2>s. size = Len(buf) - Word
        OBVIOUS
    <2> HIDE DEF size, g, d, b
    <2>6. Along(format, g, todo)
        <3>1. Len(sent) > 0 /\ sent[1] = <<"frame", 0>>
            BY <1>1, <1>5
        <3> QED BY <1>1, <1>5, <2>3, <2>4, <3>1, PathFramed
    <2>7. Laid(g, b, Len(b))
        <3>1. Len(sent) > 0 /\ sent[1] = <<"frame", 0>> /\ Len(buf) >= Word
            BY <1>1, <1>2, <1>5, <2>2, <2>3
        <3> QED BY <1>1, <2>3, <2>4, <2>5, <3>1, LayoutFramed DEF d
    <2>8. ASSUME NEW i \in 1..Len(g), g[i][1] = "frame"
          PROVE  i = 1 /\ g[i][2] # 0 /\ g[i][2] = Len(b) - Word
        <3>1. i = 1
            <4> SUFFICES ASSUME i # 1 PROVE FALSE
                OBVIOUS
            <4>1. i \in 2..Len(sent) /\ i \in 1..Len(sent)
                BY <1>2, <2>4
            <4>2. sent[i][1] = "frame"
                BY <2>4, <2>8, <4>1
            <4> QED BY <1>1, <1>2, <1>3, <4>1, <4>2, FrameFirst
        <3>2. g[1][2] = size
            BY <2>4
        <3> QED BY <2>3, <2>5, <2>s, <3>1, <3>2
    <2>9. Along(format, g, << >>) \/ Along(format, g, <<"refused">>)
        BY <1>0, <2>6
    <2>10. Complete'
        BY <1>0, <2>1, <2>4, <2>5, <2>7, <2>8, <2>9 DEF Complete
    <2> QED BY <1>0, <1>1, <2>10 DEF WireInv, Understood, Canonical
<1> QED BY <1>4, <1>5

LEMMA DamagedBytes ==
    ASSUME NEW s \in Seq(Byte), NEW b \in {s} \cup Damaged(s)
    PROVE  b \in Seq(Byte)
<1>0. Len(s) \in Nat /\ FaultBytes \subseteq Byte
    BY ValuesAssumption
<1>1. CASE b = s
    BY <1>1
<1>2. CASE b \in {SubSeq(s, 1, n) : n \in 0..(Len(s) - 1)}
    <2>1. PICK n \in 0..(Len(s) - 1) : b = SubSeq(s, 1, n)
        BY <1>2
    <2>2. 0 + n <= Len(s) /\ n \in Nat /\ 0 + n = n
        BY <1>0
    <2>3. SubSeq(s, 0 + 1, 0 + n) \in Seq(Byte)
        BY <2>2, Slice
    <2> QED BY <2>1, <2>2, <2>3
<1>3. CASE b \in {Append(s, x) : x \in FaultBytes}
    BY <1>0, <1>3
<1>4. CASE b \in {[s EXCEPT ![i] = x] : i \in DOMAIN s, x \in FaultBytes}
    <2>1. PICK i \in DOMAIN s, x \in FaultBytes : b = [s EXCEPT ![i] = x]
        BY <1>4
    <2> QED BY <1>0, <2>1
<1> QED BY <1>1, <1>2, <1>3, <1>4 DEF Damaged

LEMMA TransmitKeeps ==
    ASSUME WireInv, Transmit
    PROVE  WireInv'
<1>0. /\ mode = "written" /\ mode' = "read" /\ place' = 0 /\ todo' = Begin(format)
      /\ format' = format /\ sent' = sent /\ got' = got
    BY DEF Transmit
<1>1. /\ format \in DOMAIN Formats /\ got = << >> /\ Complete /\ intact = TRUE
    BY <1>0 DEF WireInv
<1>2. PICK bytes \in {buf} \cup (IF format \in ServerOnly THEN {} ELSE Damaged(buf)) :
          buf' = bytes /\ intact' = (bytes = buf)
    BY DEF Transmit
<1>3. buf \in Seq(Byte) /\ IsSeq(sent) /\ Laid(sent, buf, Len(buf))
    BY <1>1 DEF Complete
<1>4. buf' \in Seq(Byte)
    BY <1>2, <1>3, DamagedBytes
<1>5. format \in ServerOnly => intact'
    BY <1>2
<1>6. intact' => buf' = buf
    BY <1>2
<1>7. Decoding'
    <2>1. IsSeq(got') /\ got' = << >>
        BY <1>0, <1>1, EmptyIsSeq
    <2>2. Shaped(format, Begin(format))
        BY <1>1, FormatsShaped
    <2>3. Laid(<< >>, buf', 0)
        BY <1>4, LayoutStarts
    <2>4. Len(buf') \in Nat
        BY <1>4
    <2> QED BY <1>0, <1>4, <2>1, <2>2, <2>3, <2>4 DEF Decoding
<1>8. ASSUME intact' PROVE Complete' /\ Following'
    <2>1. buf' = buf
        BY <1>6, <1>8
    <2>2. Complete'
        BY <1>0, <1>1, <2>1 DEF Complete
    <2>3. Len(got') = 0 /\ Len(sent) \in Nat
        BY <1>0, <1>1, <1>3, EmptyIsSeq DEF IsSeq
    <2>4. PICK t : Path(format, t, sent) /\ t[Len(sent)] \in {<< >>, <<"refused">>}
        BY <1>1 DEF Complete, Along
    <2>5. PICK e : Layout(e, sent, buf) /\ e[Len(sent)] = Len(buf)
        BY <1>3 DEF Laid
    <2>6. t[0] = Begin(format) /\ e[0] = 0
        BY <2>4, <2>5 DEF Path, Layout
    <2>7. Following'
        BY <1>0, <2>1, <2>3, <2>4, <2>5, <2>6 DEF Following
    <2> QED BY <2>2, <2>7
<1> QED BY <1>0, <1>1, <1>5, <1>7, <1>8 DEF WireInv, Understood, Canonical

\* A message that arrived as it was written: the next field is the next that
\* was written, and is read as it was written.
LEMMA NextField ==
    ASSUME Complete, Decoding, todo # << >>, Head(todo) # "refused",
           Len(got) <= Len(sent),
           NEW t, Path(format, t, sent), t[Len(sent)] \in {<< >>, <<"refused">>},
           todo = t[Len(got)],
           NEW e, Layout(e, sent, buf), e[Len(sent)] = Len(buf), place = e[Len(got)],
           NEW i, i = Len(got) + 1, NEW k, k = Head(todo), NEW v, v = sent[i][2]
    PROVE  /\ i \in 1..Len(sent) /\ sent[i] = <<k, v>> /\ k \in Kinds /\ Fitting(k, v)
           /\ t[i] = Follow(k, v, Tail(todo)) /\ e[i] = place + Span(k)
           /\ Span(k) \in Nat /\ Value(k, Span(k)) = v
           /\ Accepts(k, v, Span(k)) \/ (k = "attrs" /\ v = UNSUPPORTED)
<1>1. /\ buf \in Seq(Byte) /\ Len(buf) \in Nat /\ place \in Nat /\ place <= Len(buf)
      /\ Len(got) \in Nat /\ Len(sent) \in Nat /\ Shaped(format, todo)
    BY DEF Complete, Decoding, IsSeq
<1>2. Len(got) # Len(sent)
    <2> SUFFICES ASSUME Len(got) = Len(sent) PROVE FALSE
        OBVIOUS
    <2>1. todo = <<"refused">>
        OBVIOUS
    <2>2. Head(<<"refused">>) = "refused"
        OBVIOUS
    <2> QED BY <2>1, <2>2
<1>3. i \in 1..Len(sent) /\ i - 1 = Len(got) /\ i \in 0..Len(sent)
    BY <1>1, <1>2
<1>4. Taken(t, sent, i)
    BY <1>3 DEF Path
<1>5. /\ sent[i] = <<k, v>> /\ Fitting(sent[i][1], sent[i][2])
      /\ t[i] = Follow(sent[i][1], sent[i][2], Tail(todo))
    BY <1>3, <1>4 DEF Taken
<1>6. sent[i][1] = k
    BY <1>5
<1>7. Fitting(k, v) /\ t[i] = Follow(k, v, Tail(todo))
    BY <1>5, <1>6
<1>8. /\ k = todo[1] /\ k \in Kinds /\ k # "refused" /\ Len(todo) \in Nat
      /\ Len(Tail(todo)) = Len(todo) - 1 /\ Tail(todo) \in Seq(Kinds)
    BY <1>1, TailShaped DEF Shaped
<1> DEFINE n == Len(Encoded(k, v))
<1>9. /\ e[i] = e[i - 1] + Size(sent[i]) /\ e[i] \in Nat /\ e[i] <= Len(buf)
      /\ SubSeq(buf, e[i - 1] + 1, e[i]) = Encoded(sent[i][1], sent[i][2])
    BY <1>3 DEF Layout
<1>10. e[i] = place + n
    BY <1>3, <1>6, <1>9 DEF Size
<1>11. SubSeq(buf, place + 1, place + n) = Encoded(k, v) /\ place + n <= Len(buf)
    BY <1>3, <1>6, <1>9, <1>10
<1>12. ASSUME k \in {"rest", "rest4"} PROVE place + n = Len(buf)
    <2>1. Len(todo) = 1
        BY <1>1, <1>8, <1>12, HeadShaped
    <2>2. Tail(todo) = << >>
        <3> DEFINE r == Tail(todo)
        <3>1. r \in Seq(Kinds) /\ Len(r) = 0
            BY <1>8, <2>1
        <3> HIDE DEF r
        <3>2. r = << >>
            BY <3>1
        <3> QED BY <3>2 DEF r
    <2>3. Follow(k, v, << >>) = << >>
        BY <1>12 DEF Follow
    <2>4. t[i] = << >>
        BY <1>7, <2>2, <2>3
    <2>5. i = Len(sent)
        <3> SUFFICES ASSUME i # Len(sent) PROVE FALSE
            OBVIOUS
        <3>1. i + 1 \in 1..Len(sent) /\ (i + 1) - 1 = i
            BY <1>1, <1>3
        <3>2. Taken(t, sent, i + 1)
            BY <3>1 DEF Path
        <3>3. t[(i + 1) - 1] # << >>
            BY <3>2 DEF Taken
        <3> QED BY <2>4, <3>1, <3>3
    <2> QED BY <1>10, <2>5
<1>13. ASSUME k = "frame" PROVE v # 0 /\ v = Left - Word
    <2>1. i = 1 /\ sent[i][2] # 0 /\ sent[i][2] = Len(buf) - Word
        BY <1>3, <1>6, <1>13 DEF Complete
    <2>2. place = 0
        BY <1>3, <2>1 DEF Layout
    <2>3. Left = Len(buf)
        BY <1>1, <2>2 DEF Left
    <2> QED BY <2>1, <2>3
<1>14. /\ n \in Nat /\ Span(k) = n /\ Value(k, n) = v
       /\ Accepts(k, v, n) \/ (k = "attrs" /\ v = UNSUPPORTED)
    <2>1. \/ k \notin {"rest", "rest4"}
          \/ place + n = Len(buf)
        BY <1>12
    <2>2. k = "frame" => v # 0 /\ v = Left - Word
        BY <1>13
    <2> HIDE DEF n
    <2>3. n = Len(Encoded(k, v))
        BY DEF n
    <2> QED BY <1>1, <1>7, <1>8, <1>11, <2>1, <2>2, <2>3, ReadBack
<1> HIDE DEF n
<1> QED BY <1>3, <1>5, <1>7, <1>8, <1>10, <1>14

\* The integer of a signature is not read past the end.
LEMMA SpanInteger ==
    ASSUME buf \in Seq(Byte), place \in Nat, place <= Len(buf), NEW k \in {"mpint", "fixed"},
           Span(k) >= 0
    PROVE  Span(k) \in Nat /\ place + Span(k) <= Len(buf)
<1>0. Len(buf) \in Nat /\ Left \in Nat /\ Left = Len(buf) - place /\ Word \in Nat /\ Word > 0
    BY BaseNat DEF Left
<1>1. CASE Left < Word
    <2>1. Span(k) = IF Left + 1 <= Left THEN Left + 1 ELSE -1
        BY <1>1, OfInteger
    <2>2. Span(k) = -1
        BY <1>0, <2>1
    <2> QED BY <2>2
<1>2. CASE ~(Left < Word)
    <2> DEFINE m == Number(Bytes(place, Word))
    <2>1. Span(k) = IF Word + m <= Left THEN Word + m ELSE -1
        BY <1>2, OfInteger
    <2>2. place + Word <= Len(buf)
        BY <1>0, <1>2
    <2>3. Bytes(place, Word) \in Seq(Byte)
        BY <1>0, <2>2, Slice DEF Bytes
    <2>4. m \in Nat
        <3> DEFINE s == Bytes(place, Word)
        <3>1. s \in Seq(Byte) /\ Len(s) \in 0..Len(s)
            BY <2>3
        <3> HIDE DEF s
        <3>2. NumberAfter(s)[Len(s)] \in Nat
            BY <3>1, NumberNat
        <3> QED BY <3>2 DEF Number, s
    <2> HIDE DEF m
    <2>5. Word + m <= Left
        BY <1>0, <2>1
    <2> QED BY <1>0, <2>1, <2>4, <2>5
<1> QED BY <1>1, <1>2

\* What a field leaves behind when it is accepted.
LEMMA FieldRead ==
    ASSUME Decoding, todo # << >>, NEW k, k = Head(todo), k # "refused",
           NEW n, n = Span(k), n >= 0, NEW v, v = Value(k, n), Accepts(k, v, n),
           format \in DOMAIN Formats
    PROVE  /\ n \in Nat /\ place + n <= Len(buf) /\ Shaped(format, Follow(k, v, Tail(todo)))
           /\ format \notin {"hostkey_signature", "user_signature"} =>
                 Stands(buf, place, k, v) /\ n = Len(Encoded(k, v))
<1>1. /\ buf \in Seq(Byte) /\ Len(buf) \in Nat /\ place \in Nat /\ place <= Len(buf)
      /\ Shaped(format, todo)
    BY DEF Decoding
<1>2. k = todo[1] /\ k \in Kinds
    BY <1>1, TailShaped
<1>3. CASE k \in {"mpint", "fixed"}
    <2>1. format \in {"hostkey_signature", "user_signature"}
        BY <1>1, <1>2, <1>3, HeadShaped
    <2>2. n \in Nat /\ place + n <= Len(buf)
        BY <1>1, <1>3, SpanInteger
    <2>3. Head(todo) # "count"
        BY <1>3
    <2>4. Shaped(format, Follow(Head(todo), v, Tail(todo)))
        BY <1>1, <2>3, FollowShaped
    <2> QED BY <2>1, <2>2, <2>4
<1>4. CASE k \notin {"mpint", "fixed"}
    <2>0. k \notin {"mpint", "fixed", "refused"}
        BY <1>4
    <2>1. /\ n \in Nat /\ place + n <= Len(buf)
          /\ Encoded(k, v) = SubSeq(buf, place + 1, place + n)
          /\ k = "count" => v \in Nat
        BY <1>1, <1>2, <2>0, ReadAgain
    <2>2. Shaped(format, Follow(Head(todo), v, Tail(todo)))
        BY <1>1, <2>1, FollowShaped
    <2>3. Len(Encoded(k, v)) = n
        BY <1>1, <2>1, Slice
    <2>4. Stands(buf, place, k, v)
        BY <2>1, <2>3 DEF Stands
    <2> QED BY <2>1, <2>2, <2>3, <2>4
<1> QED BY <1>3, <1>4

\* The message is read on.
LEMMA AcceptKeeps ==
    ASSUME WireInv, mode = "read", todo # << >>, NEW k, k = Head(todo), k # "refused",
           NEW n, n = Span(k), n >= 0, NEW v, v = Value(k, n), Accepts(k, v, n),
           place' = place + n, got' = Append(got, <<k, v>>),
           todo' = Follow(k, v, Tail(todo)), mode' = mode,
           format' = format, buf' = buf, sent' = sent, intact' = intact
    PROVE  WireInv'
<1>1. /\ format \in DOMAIN Formats /\ Decoding /\ (intact => Complete /\ Following)
      /\ format \in ServerOnly => intact
    BY DEF WireInv
<1>2. /\ buf \in Seq(Byte) /\ Len(buf) \in Nat /\ place \in Nat /\ place <= Len(buf)
      /\ IsSeq(got) /\ Len(got) \in Nat /\ Shaped(format, todo)
      /\ format \notin {"hostkey_signature", "user_signature"} => Laid(got, buf, place)
    BY <1>1 DEF Decoding, IsSeq
<1>3. n \in Nat /\ place + n <= Len(buf)
    BY <1>1, FieldRead
<1>4. Shaped(format, todo')
    <2>1. Shaped(format, Follow(k, v, Tail(todo)))
        BY <1>1, FieldRead
    <2> QED BY <2>1
<1> DEFINE x == <<k, v>>
<1>5. IsSeq(got') /\ Len(got') = Len(got) + 1 /\ got'[Len(got) + 1] = x
      /\ \A i \in 1..Len(got) : got'[i] = got[i]
    <2>1. got' = Append(got, x)
        OBVIOUS
    <2> HIDE DEF x
    <2>2. IsSeq(got') /\ Len(got') = Len(got) + 1
        BY <1>2, <2>1, Appended
    <2>3. got'[Len(got) + 1] = x
        BY <1>2, <2>1, Appended
    <2>4. \A i \in 1..Len(got) : got'[i] = got[i]
        BY <1>2, <2>1, Appended
    <2> QED BY <2>2, <2>3, <2>4
<1>6. ASSUME format \notin {"hostkey_signature", "user_signature"}
      PROVE  Laid(got', buf, place + n)
    <2>1. Stands(buf, place, k, v) /\ n = Len(Encoded(k, v))
        BY <1>1, <1>6, FieldRead
    <2>2. Added(got', got, k, v)
        BY DEF Added
    <2>3. Laid(got, buf, place)
        BY <1>2, <1>6
    <2>4. Laid(got', buf, place + Len(Encoded(k, v)))
        BY <1>2, <2>1, <2>2, <2>3, LayoutLonger
    <2> QED BY <2>1, <2>4
<1>7. Decoding'
    BY <1>2, <1>3, <1>4, <1>5, <1>6 DEF Decoding
<1>8. ASSUME intact PROVE Complete' /\ Following'
    <2>0. Complete /\ Following
        BY <1>1, <1>8
    <2>1. Complete'
        BY <2>0 DEF Complete
    <2>2. Len(got) <= Len(sent) /\ \A i \in 1..Len(got) : got[i] = sent[i]
        BY <2>0 DEF Following
    <2>3. PICK t : /\ Path(format, t, sent) /\ t[Len(sent)] \in {<< >>, <<"refused">>}
                   /\ todo = t[Len(got)]
        BY <2>0 DEF Following
    <2>4. PICK e : /\ Layout(e, sent, buf) /\ e[Len(sent)] = Len(buf)
                   /\ place = e[Len(got)]
        BY <2>0 DEF Following
    <2> DEFINE i == Len(got) + 1
               w == sent[i][2]
    <2>5. /\ i \in 1..Len(sent) /\ sent[i] = <<k, w>>
          /\ t[i] = Follow(k, w, Tail(todo)) /\ e[i] = place + n
          /\ Value(k, n) = w
        <3> HIDE DEF i, w
        <3>1. i = Len(got) + 1 /\ w = sent[i][2]
            BY DEF i, w
        <3>2. i \in 1..Len(sent) /\ sent[i] = <<k, w>>
            BY <1>1, <2>0, <2>2, <2>3, <2>4, <3>1, NextField
        <3>3. t[i] = Follow(k, w, Tail(todo)) /\ e[i] = place + Span(k)
            BY <1>1, <2>0, <2>2, <2>3, <2>4, <3>1, NextField
        <3>4. Value(k, Span(k)) = w
            BY <1>1, <2>0, <2>2, <2>3, <2>4, <3>1, NextField
        <3> QED BY <3>2, <3>3, <3>4
    <2>6. w = v
        BY <2>5
    <2>7. todo' = t[Len(got')] /\ place' = e[Len(got')] /\ Len(got') <= Len(sent)
        BY <1>5, <2>5, <2>6
    <2>8. ASSUME NEW j \in 1..Len(got') PROVE got'[j] = sent[j]
        <3>1. CASE j = Len(got) + 1
            BY <1>5, <2>5, <2>6, <3>1
        <3>2. CASE j # Len(got) + 1
            <4>1. j \in 1..Len(got)
                BY <1>2, <1>5, <3>2
            <4> QED BY <1>5, <2>2, <4>1
        <3> QED BY <3>1, <3>2
    <2>9. Following'
        <3> HIDE DEF i, w, x
        <3> QED BY <2>3, <2>4, <2>7, <2>8 DEF Following
    <2> QED BY <2>1, <2>9
<1> QED BY <1>1, <1>7, <1>8 DEF WireInv, Understood, Canonical

LEMMA Fielded == ASSUME NEW s, IsSeq(s) PROVE Len(s) \in Nat /\ DOMAIN s = 1..Len(s)
<1>1. PICK S : s \in Seq(S)
    BY DEF IsSeq
<1> QED BY <1>1

\* The message is refused at a field.
LEMMA RefuseKeeps ==
    ASSUME WireInv, mode = "read", todo # << >>, NEW k, k = Head(todo),
           NEW n, n = Span(k), NEW v, v = Value(k, n),
           ~(k # "refused" /\ n >= 0 /\ Accepts(k, v, n)),
           mode' = "done", verdict' = IF n < 0 /\ ~Lenient THEN "bad" ELSE Refusal(k),
           got' = got, format' = format, buf' = buf, sent' = sent, intact' = intact
    PROVE  WireInv'
<1>1. /\ format \in DOMAIN Formats /\ Decoding /\ (intact => Complete /\ Following)
      /\ format \in ServerOnly => intact
    BY DEF WireInv
<1>2. verdict' \in {"bad", "unsupported"}
    BY DEF Refusal
<1>3. Canonical'
    BY <1>2 DEF Canonical
<1>4. ASSUME intact
      PROVE  /\ verdict' = "unsupported"
             /\ \E i \in DOMAIN sent :
                   sent[i] \in {<<"reqtype", UNKNOWN>>, <<"attrs", UNSUPPORTED>>}
    <2>0. Complete /\ Following
        BY <1>1, <1>4
    <2>1. /\ Len(got) <= Len(sent) /\ \A i \in 1..Len(got) : got[i] = sent[i]
          /\ Len(got) \in Nat /\ DOMAIN got = 1..Len(got)
          /\ Len(sent) \in Nat /\ DOMAIN sent = 1..Len(sent)
        <3>1. IsSeq(got) /\ IsSeq(sent)
            BY <1>1, <2>0 DEF Decoding, Complete
        <3> QED BY <2>0, <3>1, Fielded DEF Following
    <2>2. PICK t : /\ Path(format, t, sent) /\ t[Len(sent)] \in {<< >>, <<"refused">>}
                   /\ todo = t[Len(got)]
        BY <2>0 DEF Following
    <2>3. PICK e : /\ Layout(e, sent, buf) /\ e[Len(sent)] = Len(buf)
                   /\ place = e[Len(got)]
        BY <2>0 DEF Following
    <2>4. CASE k = "refused"
        <3>1. Shaped(format, todo)
            BY <1>1 DEF Decoding
        <3>2. todo[1] = "refused" /\ 1 \in 1..Len(todo)
            BY <2>4, <3>1, TailShaped
        <3>3. Ahead(todo, "refused") /\ format = "channel_message"
            BY <3>1, <3>2, HeadShaped DEF Ahead
        <3>4. Len(got) \in 0..Len(sent)
            BY <2>1
        <3>5. Orderly(t, sent, Len(got))
            BY <2>2, <3>4 DEF Path
        <3>6. /\ \E j \in 1..Len(got) : sent[j] = <<"reqtype", UNKNOWN>>
              /\ \A j \in 1..Len(got) : sent[j][1] = "reqtype" => sent[j][2] = UNKNOWN
              /\ \E j \in 1..Len(got) : sent[j][1] = "wish"
            BY <2>2, <3>2, <3>3, <3>5 DEF Orderly
        <3>7. UNKNOWN # SUBSYSTEM
            <4>1. Len(<<5>>) = 1 /\ Len(<<7, 0>>) = 2
                OBVIOUS
            <4> QED BY <4>1 DEF UNKNOWN, SUBSYSTEM
        <3>8. /\ \E i \in DOMAIN got : got[i][1] = "wish"
              /\ \A i \in DOMAIN got : got[i][1] = "reqtype" => got[i][2] # SUBSYSTEM
            BY <2>1, <3>6, <3>7
        <3>9. Lenient
            BY <3>3, <3>8 DEF Lenient
        <3>10. verdict' = "unsupported"
            BY <3>9 DEF Refusal
        <3>11. PICK j \in 1..Len(got) : sent[j] = <<"reqtype", UNKNOWN>>
            BY <3>6
        <3>12. j \in DOMAIN sent
            BY <2>1
        <3> QED BY <3>10, <3>11, <3>12
    <2>5. CASE k # "refused"
        <3> DEFINE i == Len(got) + 1
                   w == sent[i][2]
        <3> HIDE DEF i, w
        <3>1. i = Len(got) + 1 /\ w = sent[i][2]
            BY DEF i, w
        <3>2. i \in 1..Len(sent) /\ sent[i] = <<k, w>>
            BY <1>1, <2>0, <2>1, <2>2, <2>3, <2>5, <3>1, NextField
        <3>3. n \in Nat /\ Value(k, n) = w
            BY <1>1, <2>0, <2>1, <2>2, <2>3, <2>5, <3>1, NextField
        <3>4. Accepts(k, w, n) \/ (k = "attrs" /\ w = UNSUPPORTED)
            BY <1>1, <2>0, <2>1, <2>2, <2>3, <2>5, <3>1, NextField
        <3>5. n >= 0 /\ ~(n < 0) /\ w = v
            BY <3>3
        <3>6. k = "attrs" /\ w = UNSUPPORTED
            BY <2>5, <3>4, <3>5
        <3>7. verdict' = "unsupported"
            BY <3>5, <3>6 DEF Refusal
        <3>8. i \in DOMAIN sent /\ sent[i] = <<"attrs", UNSUPPORTED>>
            BY <2>1, <3>2, <3>6
        <3> QED BY <3>7, <3>8
    <2> QED BY <2>4, <2>5
<1>5. Understood'
    BY <1>4 DEF Understood
<1> QED BY <1>1, <1>3, <1>5 DEF WireInv

LEMMA GetKeeps ==
    ASSUME WireInv, Get
    PROVE  WireInv'
<1> DEFINE k == Head(todo)
           n == Span(k)
           v == Value(k, n)
<1>1. /\ mode = "read" /\ todo # << >>
      /\ IF k # "refused" /\ n >= 0 /\ (n >= 0 => Accepts(k, v, n))
         THEN /\ place' = place + n
              /\ got' = Append(got, <<k, v>>)
              /\ todo' = Follow(k, v, Tail(todo))
              /\ UNCHANGED <<mode, verdict>>
         ELSE /\ mode' = "done"
              /\ verdict' = IF n < 0 /\ ~Lenient THEN "bad" ELSE Refusal(k)
              /\ UNCHANGED <<place, got, todo>>
      /\ UNCHANGED <<format, buf, sent, intact, chosen>>
    BY DEF Get
<1>2. k = Head(todo) /\ n = Span(k) /\ v = Value(k, n)
    OBVIOUS
<1> HIDE DEF k, n, v
<1>3. CASE k # "refused" /\ n >= 0 /\ Accepts(k, v, n)
    <2>1. /\ place' = place + n /\ got' = Append(got, <<k, v>>)
          /\ todo' = Follow(k, v, Tail(todo)) /\ mode' = mode
          /\ format' = format /\ buf' = buf /\ sent' = sent /\ intact' = intact
        BY <1>1, <1>3
    <2> QED BY <1>1, <1>2, <1>3, <2>1, AcceptKeeps
<1>4. CASE ~(k # "refused" /\ n >= 0 /\ Accepts(k, v, n))
    <2>1. /\ mode' = "done" /\ got' = got
          /\ verdict' = IF n < 0 /\ ~Lenient THEN "bad" ELSE Refusal(k)
          /\ format' = format /\ buf' = buf /\ sent' = sent /\ intact' = intact
        BY <1>1, <1>4
    <2> QED BY <1>1, <1>2, <1>4, <2>1, RefuseKeeps
<1> QED BY <1>3, <1>4

\* A message that arrived as it was and has no field left was read as it was.
LEMMA AllRead ==
    ASSUME Decoding, Complete, Following, todo = << >>
    PROVE  got = sent /\ place = Len(buf)
<1>1. /\ Len(got) <= Len(sent) /\ \A i \in 1..Len(got) : got[i] = sent[i]
      /\ IsSeq(got) /\ IsSeq(sent)
    BY DEF Decoding, Complete, Following
<1>2. Len(got) \in Nat /\ Len(sent) \in Nat
    BY <1>1, Fielded
<1>3. PICK t : Path(format, t, sent) /\ todo = t[Len(got)]
    BY DEF Following
<1>4. PICK e : e[Len(sent)] = Len(buf) /\ place = e[Len(got)]
    BY DEF Following
<1>5. Len(got) = Len(sent)
    <2> SUFFICES ASSUME Len(got) # Len(sent) PROVE FALSE
        OBVIOUS
    <2> DEFINE i == Len(got) + 1
    <2>1. i \in 1..Len(sent) /\ i - 1 = Len(got)
        BY <1>1, <1>2
    <2> HIDE DEF i
    <2>2. Taken(t, sent, i)
        BY <1>3, <2>1 DEF Path
    <2>3. t[i - 1] # << >>
        BY <2>2 DEF Taken
    <2> QED BY <1>3, <2>1, <2>3
<1>6. got = sent
    <2>1. PICK S : got \in Seq(S)
        BY <1>1 DEF IsSeq
    <2>2. PICK R : sent \in Seq(R)
        BY <1>1 DEF IsSeq
    <2> DEFINE B == S \cup R
    <2>3. got \in Seq(B) /\ sent \in Seq(B)
        BY <2>1, <2>2
    <2> HIDE DEF B
    <2> QED BY <1>1, <1>5, <2>3, SameSeq
<1> QED BY <1>4, <1>5, <1>6

LEMMA EndKeeps ==
    ASSUME WireInv, EndMessage
    PROVE  WireInv'
<1>0. /\ mode = "read" /\ todo = << >> /\ mode' = "done" /\ format' = format
      /\ buf' = buf /\ sent' = sent /\ intact' = intact /\ got' = got
      /\ verdict' = IF AtEnd THEN "ok" ELSE IF Lenient THEN "unsupported" ELSE "bad"
    BY DEF EndMessage
<1>1. /\ format \in DOMAIN Formats /\ Decoding /\ (intact => Complete /\ Following)
      /\ format \in ServerOnly => intact
    BY <1>0 DEF WireInv
<1>2. /\ buf \in Seq(Byte) /\ Len(buf) \in Nat /\ place \in Nat /\ IsSeq(got)
      /\ format \notin {"hostkey_signature", "user_signature"} => Laid(got, buf, place)
    BY <1>1 DEF Decoding
<1>3. ASSUME intact PROVE got = sent /\ place = Len(buf) /\ Laid(sent, buf, Len(buf))
    <2>1. Complete /\ Following
        BY <1>1, <1>3
    <2>2. got = sent /\ place = Len(buf)
        BY <1>0, <1>1, <2>1, AllRead
    <2> QED BY <2>1, <2>2 DEF Complete
<1>4. Understood'
    <2> SUFFICES ASSUME intact PROVE verdict' = "ok" /\ got = sent
        BY <1>0 DEF Understood
    <2>1. AtEnd
        BY <1>2, <1>3 DEF AtEnd, Left
    <2> QED BY <1>0, <1>3, <2>1
<1>5. Canonical'
    <2> SUFFICES ASSUME verdict' = "ok", format # "user_signature" PROVE Spells(buf, got)
        BY <1>0 DEF Canonical
    <2>1. AtEnd
        BY <1>0
    <2>2. place = Len(buf)
        BY <1>2, <2>1 DEF AtEnd, Left
    <2>3. Laid(got, buf, Len(buf))
        <3>1. CASE format = "hostkey_signature"
            <4>1. intact
                BY <1>1, <3>1 DEF ServerOnly
            <4> QED BY <1>3, <4>1
        <3>2. CASE format # "hostkey_signature"
            BY <1>2, <2>2, <3>2
        <3> QED BY <3>1, <3>2
    <2> QED BY <1>2, <2>3, LayoutSpells
<1> QED BY <1>0, <1>1, <1>4, <1>5 DEF WireInv

LEMMA NegotiateKeeps ==
    ASSUME WireInv, Negotiate
    PROVE  WireInv'
<1>1. /\ mode = "done" /\ verdict = "ok" /\ format = "kexinit" /\ mode' = mode
      /\ format' = format /\ buf' = buf /\ sent' = sent /\ intact' = intact /\ got' = got
      /\ verdict' \in {verdict, "unsupported"}
    BY DEF Negotiate
<1>2. Understood'
    BY <1>1 DEF WireInv, Understood
<1>3. Canonical'
    BY <1>1 DEF WireInv, Canonical
<1> QED BY <1>1, <1>2, <1>3 DEF WireInv

LEMMA StutterKeeps ==
    ASSUME WireInv, UNCHANGED wireVars
    PROVE  WireInv'
<1>1. /\ format' = format /\ mode' = mode /\ todo' = todo /\ buf' = buf /\ sent' = sent
      /\ intact' = intact /\ place' = place /\ got' = got /\ verdict' = verdict
    BY DEF wireVars
<1>2. (Writing <=> Writing') /\ (Complete <=> Complete')
    BY <1>1 DEF Writing, Complete
<1>3. (Decoding <=> Decoding') /\ (Following <=> Following')
    BY <1>1 DEF Decoding, Following
<1>4. Understood' /\ Canonical'
    BY <1>1 DEF WireInv, Understood, Canonical
<1> QED BY <1>1, <1>2, <1>3, <1>4 DEF WireInv

LEMMA WireInvariant == WireSpec => []WireInv
<1>1. WireInit => WireInv
    BY StartKeeps
<1>2. WireInv /\ [WireNext]_wireVars => WireInv'
    <2> SUFFICES ASSUME WireInv, [WireNext]_wireVars PROVE WireInv'
        OBVIOUS
    <2>1. CASE Put
        BY <2>1, PutKeeps
    <2>2. CASE Finish
        BY <2>2, FinishKeeps
    <2>3. CASE Transmit
        BY <2>3, TransmitKeeps
    <2>4. CASE Get
        BY <2>4, GetKeeps
    <2>5. CASE EndMessage
        BY <2>5, EndKeeps
    <2>6. CASE Negotiate
        BY <2>6, NegotiateKeeps
    <2>7. CASE UNCHANGED wireVars
        BY <2>7, StutterKeeps
    <2> QED BY <2>1, <2>2, <2>3, <2>4, <2>5, <2>6, <2>7 DEF WireNext
<1> QED BY <1>1, <1>2, PTL DEF WireSpec

\* What one side wrote and the other received unchanged is understood as it
\* was meant, for every message, every value and every size of the numbers:
\* the decoders of ssh_kex.c, ssh_userauth.c, ssh_connection.c and sftp.c
\* read back what the writers of ssh_buffer.c wrote, field by field.
THEOREM UnderstoodSafe == WireSpec => []Understood
<1>1. WireInv => Understood
    BY DEF WireInv
<1> QED BY <1>1, WireInvariant, PTL

\* A message that is accepted, damaged on its way or not, is the encoding of
\* the values that were read from it and nothing else: no decoder leaves a
\* byte out of account.
THEOREM CanonicalSafe == WireSpec => []Canonical
<1>1. WireInv => Canonical
    BY DEF WireInv
<1> QED BY <1>1, WireInvariant, PTL

-----------------------------------------------------------------------------
(* The packets on the stream.                                              *)

\* The packets on the wire have the lengths packets have.
PacketsWellFormed == \A i \in DOMAIN ends : ends[i] - StartOf(i) \in PacketLens

\* The read the server is in asks for what is missing of its part of the packet.
AsksForThePart ==
    /\ phase = "length" => want = Block
    /\ (phase = "rest" /\ ~split) =>
          /\ sequence + 1 \in DOMAIN ends
          /\ want = ends[sequence + 1] - StartOf(sequence + 1) - Block

\* The inductive invariant: InFrame alone does not know how far the second read goes.
IInv == TypeOK /\ PacketsWellFormed /\ AsksForThePart /\ InFrame /\ NoFalseAlarm

\* What TypeOK says of the numbers, in the form the solver takes it.
LEMMA Numbers ==
    ASSUME TypeOK
    PROVE  /\ Block \in Nat /\ Block > 0 /\ Len(ends) \in Nat
           /\ want \in Nat /\ done \in Nat /\ done < want
           /\ sequence \in Nat /\ sequence <= Len(ends)
           /\ pos \in Nat /\ arrived \in Nat /\ Written \in Nat
           /\ pos <= arrived /\ arrived <= Written
  <1>1. ends \in Seq(Nat) /\ Len(ends) \in Nat
    BY DEF TypeOK
  <1>2. Written \in Nat
    BY <1>1 DEF Written
  <1> QED BY <1>1, <1>2, ConstantsAssumption DEF TypeOK

\* Where packets start and end are numbers.
LEMMA Starts_Nat ==
    ASSUME TypeOK, NEW i \in 1..(Len(ends) + 1)
    PROVE  /\ StartOf(i) \in Nat
           /\ i \in DOMAIN ends => ends[i] \in Nat
           /\ StartOf(Len(ends) + 1) = Written
  <1>1. ends \in Seq(Nat) /\ Len(ends) \in Nat /\ DOMAIN ends = 1..Len(ends)
    BY DEF TypeOK
  <1>2. ends = <<>> <=> Len(ends) = 0
    BY <1>1
  <1> QED BY <1>1, <1>2 DEF StartOf, Written

\* A packet is longer than its first block.
LEMMA PacketLength ==
    ASSUME TypeOK, PacketsWellFormed, NEW i \in DOMAIN ends
    PROVE  ends[i] - StartOf(i) \in Nat /\ ends[i] - StartOf(i) > Block
  BY ConstantsAssumption DEF PacketsWellFormed

LEMMA InitIInv == Init => IInv
  <1> SUFFICES ASSUME Init PROVE IInv
    OBVIOUS
  <1>1. ends = <<>> /\ Len(ends) = 0 /\ DOMAIN ends = {} /\ ends \in Seq(Nat)
    BY DEF Init
  <1>2. Written = 0
    BY <1>1 DEF Written
  <1>3. TypeOK
    <2>1. closed \in BOOLEAN /\ split \in BOOLEAN
      BY DEF Init
    <2>2. /\ want \in Nat \ {0} /\ done \in 0..(want - 1) /\ sequence \in 0..Len(ends)
          /\ pos \in 0..arrived /\ arrived \in 0..Written
      BY <1>1, <1>2, ConstantsAssumption DEF Init
    <2> QED BY <1>1, <2>1, <2>2 DEF Init, TypeOK
  <1> QED BY <1>1, <1>3 DEF Init, IInv, PacketsWellFormed, AsksForThePart, InFrame,
                           NoFalseAlarm, StartOf

\* Steps of the server leave what the client wrote alone.
LEMMA SameStream ==
    ASSUME UNCHANGED ends
    PROVE  /\ Written' = Written
           /\ \A i : StartOf(i)' = StartOf(i)
           /\ PacketsWellFormed => PacketsWellFormed'
  BY DEF Written, StartOf, PacketsWellFormed

\* A step that ends the session has nothing more to keep but the reason.
LEMMA ReadEndsKeeps ==
    ASSUME IInv, TypeOK', UNCHANGED ends, phase' = "ended",
           status' \in {"MALFORMED", "SECURITY"} => split'
    PROVE  IInv'
  <1>1. PacketsWellFormed'
    BY SameStream DEF IInv
  <1> QED BY <1>1 DEF IInv, AsksForThePart, InFrame, NoFalseAlarm

\* The place of the packet being read, while no timeout has split one.
LEMMA Place ==
    ASSUME IInv, phase # "ended"
    PROVE  /\ sequence + 1 \in 1..(Len(ends) + 1)
           /\ StartOf(sequence + 1) \in Nat
           /\ sequence = Len(ends) => StartOf(sequence + 1) = Written
           /\ (phase = "length" /\ ~split) => pos - done = StartOf(sequence + 1)
           /\ (phase = "rest" /\ ~split) => pos - done = StartOf(sequence + 1) + Block
  <1>1. sequence + 1 \in 1..(Len(ends) + 1)
    BY Numbers DEF IInv
  <1>2. /\ StartOf(sequence + 1) \in Nat
        /\ sequence = Len(ends) => StartOf(sequence + 1) = Written
    BY <1>1, Starts_Nat DEF IInv
  <1> QED BY <1>1, <1>2, Numbers DEF IInv, InFrame

LEMMA ReadPartKeeps == ASSUME IInv, ReadPart PROVE IInv'
  <1> USE DEF IInv
  <1>1. PICK n \in 1..(want - done - 1) :
           pos + n <= arrived /\ done' = done + n /\ pos' = pos + n
    BY DEF ReadPart
  <1>2. UNCHANGED <<stage, phase, status, want, sequence, ends, arrived, closed, split>>
    BY DEF ReadPart
  <1>3. n \in Nat /\ done + n < want /\ done + n \in Nat /\ pos + n \in Nat
    BY Numbers, <1>1
  <1>4. TypeOK'
    BY <1>1, <1>2, <1>3, Numbers, SameStream DEF TypeOK
  <1>5. InFrame'
    <2> SUFFICES ASSUME phase' # "ended", ~split'
                 PROVE  pos' = StartOf(sequence + 1)' + done'
                               + (IF phase' = "rest" THEN Block ELSE 0)
      BY DEF InFrame
    <2>1. phase # "ended" /\ ~split /\ phase' = phase
      BY <1>2
    <2>2. pos = StartOf(sequence + 1) + done + (IF phase = "rest" THEN Block ELSE 0)
      BY <2>1 DEF InFrame
    <2>3. StartOf(sequence + 1)' = StartOf(sequence + 1)
      BY <1>2 DEF StartOf
    <2>4. StartOf(sequence + 1) \in Nat
      BY <2>1, Place
    <2>5. PICK s \in Nat : s = StartOf(sequence + 1) /\ s = StartOf(sequence + 1)'
      BY <2>3, <2>4
    <2>6. PICK b \in Nat : /\ b = IF phase = "rest" THEN Block ELSE 0
                           /\ b = IF phase' = "rest" THEN Block ELSE 0
      BY <2>1, Numbers
    <2>7. pos = s + done + b
      BY <2>2, <2>5, <2>6
    <2>8. pos + n = s + (done + n) + b
      <3>1. pos \in Nat /\ done \in Nat /\ n \in Nat
        BY <1>3, Numbers
      <3> QED BY <2>7, <3>1
    <2> QED BY <1>1, <2>5, <2>6, <2>8
  <1>6. PacketsWellFormed' /\ AsksForThePart' /\ NoFalseAlarm'
    <2>1. PacketsWellFormed'
      BY <1>2, SameStream
    <2>2. AsksForThePart'
      BY <1>2 DEF AsksForThePart, StartOf
    <2>3. NoFalseAlarm'
      BY <1>2 DEF NoFalseAlarm
    <2> QED BY <2>1, <2>2, <2>3
  <1> QED BY <1>4, <1>5, <1>6



\* The first read is complete.
LEMMA ReadLengthKeeps == ASSUME IInv, ReadLength PROVE IInv'
  <1> USE DEF IInv
  <1>1. /\ phase = "length" /\ want = Block /\ pos' = pos + (want - done)
        /\ pos + (want - done) <= arrived
        /\ UNCHANGED <<stage, sequence, ends, arrived, closed, split>>
    BY DEF ReadLength, AsksForThePart
  <1>2. /\ pos' \in Nat /\ pos' <= arrived /\ pos' - Block = pos - done
        /\ pos' = (pos - done) + Block
    BY <1>1, Numbers
  <1>3. StartOf(sequence + 1) \in Nat /\ StartOf(sequence + 1)' = StartOf(sequence + 1)
    BY <1>1, Place DEF StartOf
  <1>4. PacketsWellFormed' /\ Written' = Written
    BY <1>1, SameStream
  <1>5. ASSUME NEW n \in Nat \ {0}, Starts("rest", n)
        PROVE  TypeOK'
    BY <1>1, <1>2, <1>4, <1>5, Numbers DEF TypeOK, Starts
  <1>6. CASE Genuine(pos' - Block)
    <2>1. /\ sequence + 1 \in DOMAIN ends /\ StartOf(sequence + 1) = pos' - Block
          /\ Starts("rest", RestLen(ends[sequence + 1] - StartOf(sequence + 1)))
      BY <1>6 DEF ReadLength, Genuine
    <2> DEFINE n == ends[sequence + 1] - StartOf(sequence + 1) - Block
    <2>2. n \in Nat \ {0}
      BY <2>1, PacketLength, ConstantsAssumption
    <2>3. Starts("rest", n)
      BY <2>1 DEF RestLen
    <2> HIDE DEF n
    <2>4. TypeOK'
      BY <1>5, <2>2, <2>3
    <2>5. phase' = "rest" /\ want' = n /\ done' = 0 /\ status' = status
      BY <2>3 DEF Starts
    <2>6. AsksForThePart'
      BY <1>1, <1>3, <2>1, <2>5 DEF AsksForThePart, n
    <2>7. InFrame'
      BY <1>1, <1>2, <1>3, <2>1, <2>5, Numbers DEF InFrame
    <2>8. NoFalseAlarm'
      BY <1>1, <2>5 DEF NoFalseAlarm
    <2> QED BY <1>4, <2>4, <2>6, <2>7, <2>8
  <1>7. CASE ~Genuine(pos' - Block)
    <2>1. split /\ split'
      <3> SUFFICES ASSUME ~split PROVE FALSE
        BY <1>1
      <3>1. pos - done = StartOf(sequence + 1)
        BY <1>1, Place
      <3>2. sequence + 1 \notin DOMAIN ends
        BY <1>2, <1>7, <3>1 DEF Genuine
      <3>3. DOMAIN ends = 1..Len(ends)
        BY DEF TypeOK
      <3>4. sequence = Len(ends)
        BY <3>2, <3>3, Numbers
      <3>5. pos - done = Written
        BY <1>1, <3>1, <3>4, Place
      <3> QED BY <1>2, <3>5, Numbers
    <2>2. CASE End("MALFORMED") /\ UNCHANGED <<want, done>>
      <3>1. TypeOK'
        BY <1>1, <1>2, <1>4, <2>2, Numbers DEF TypeOK, End
      <3> QED BY <1>1, <2>1, <2>2, <3>1, ReadEndsKeeps DEF End
    <2>3. ASSUME NEW l \in PacketLens, Starts("rest", RestLen(l)) PROVE IInv'
      <3>1. RestLen(l) \in Nat \ {0}
        BY ConstantsAssumption DEF RestLen
      <3>2. TypeOK'
        BY <1>5, <2>3, <3>1
      <3>3. phase' = "rest" /\ status' = status
        BY <2>3 DEF Starts
      <3> QED BY <1>4, <2>1, <3>2, <3>3 DEF AsksForThePart, InFrame, NoFalseAlarm
    <2> QED BY <1>7, <2>2, <2>3 DEF ReadLength
  <1> QED BY <1>6, <1>7

\* The second read is complete.
LEMMA ReadRestKeeps == ASSUME IInv, ReadRest PROVE IInv'
  <1> USE DEF IInv
  <1>1. /\ phase = "rest" /\ pos' = pos + (want - done)
        /\ pos + (want - done) <= arrived
        /\ UNCHANGED <<stage, ends, arrived, closed, split>>
    BY DEF ReadRest
  <1>2. /\ pos' \in Nat /\ pos' <= arrived
        /\ pos' - want - Block = (pos - done) - Block /\ pos' = (pos - done) + want
    BY <1>1, Numbers
  <1>3. PacketsWellFormed' /\ Written' = Written
    BY <1>1, SameStream
  <1>4. DOMAIN ends = 1..Len(ends)
    BY DEF TypeOK
  <1> DEFINE G == Genuine(pos' - want - Block) /\ ends[sequence + 1] = pos'
  <1>5. CASE G
    <2>1. /\ sequence + 1 \in DOMAIN ends /\ ends[sequence + 1] = pos'
          /\ Starts("length", Block) /\ sequence' = sequence + 1
      BY <1>5 DEF ReadRest, Genuine
    <2>2. /\ phase' = "length" /\ want' = Block /\ done' = 0 /\ status' = status
      BY <2>1 DEF Starts
    <2>3. sequence + 1 \in 0..Len(ends)
      BY <1>4, <2>1, Numbers
    <2>4. TypeOK'
      BY <1>1, <1>2, <1>3, <2>1, <2>2, <2>3, Numbers DEF TypeOK
    <2>5. StartOf(sequence + 1)' = pos'
      <3>1. (sequence + 1)' # 1 /\ (sequence + 1)' - 1 = sequence + 1
        BY <2>1, Numbers
      <3> QED BY <1>1, <2>1, <3>1 DEF StartOf
    <2>6. InFrame'
      BY <1>2, <2>2, <2>5 DEF InFrame
    <2>7. AsksForThePart' /\ NoFalseAlarm'
      BY <1>1, <2>2 DEF AsksForThePart, NoFalseAlarm
    <2> QED BY <1>3, <2>4, <2>6, <2>7
  <1>6. CASE ~G
    <2>1. End("SECURITY") /\ UNCHANGED <<want, done, sequence>>
      BY <1>6 DEF ReadRest
    <2>2. split /\ split'
      <3> SUFFICES ASSUME ~split PROVE FALSE
        BY <1>1
      <3>1. /\ sequence + 1 \in DOMAIN ends
            /\ want = ends[sequence + 1] - StartOf(sequence + 1) - Block
        BY <1>1 DEF AsksForThePart
      <3>2. pos - done = StartOf(sequence + 1) + Block /\ StartOf(sequence + 1) \in Nat
        BY <1>1, Place
      <3>3. ends[sequence + 1] \in Nat
        BY <3>1, <1>4, Starts_Nat, Numbers
      <3>4. PICK s \in Nat, e \in Nat : s = StartOf(sequence + 1) /\ e = ends[sequence + 1]
        BY <3>2, <3>3
      <3>5. pos' - want - Block = s
        BY <1>2, <3>2, <3>4, Numbers
      <3>6. pos' = e
        BY <1>2, <3>1, <3>2, <3>4, Numbers
      <3> QED BY <1>6, <3>1, <3>4, <3>5, <3>6 DEF Genuine
    <2>3. TypeOK'
      BY <1>1, <1>2, <1>3, <2>1, Numbers DEF TypeOK, End
    <2> QED BY <1>1, <2>1, <2>2, <2>3, ReadEndsKeeps DEF End
  <1> QED BY <1>5, <1>6


\* A timeout moves the server only if it has read nothing of its part.
LEMMA ReadTimeoutKeeps == ASSUME IInv, ReadTimeout PROVE IInv'
  <1> USE DEF IInv
  <1>1. /\ phase # "ended" /\ split' = (split \/ (phase = "rest" /\ done = 0))
        /\ UNCHANGED <<stage, pos, sequence, ends, arrived, closed>>
    BY DEF ReadTimeout
  <1>2. PacketsWellFormed' /\ Written' = Written
    BY <1>1, SameStream
  <1>3. split' \in BOOLEAN
    BY <1>1 DEF TypeOK
  <1>4. ASSUME NEW s \in {"CLOSED", "NOT_FOUND"}, End(s), UNCHANGED <<want, done>>
        PROVE  IInv'
    <2>1. TypeOK'
      BY <1>1, <1>2, <1>3, <1>4, Numbers DEF TypeOK, End
    <2> QED BY <1>1, <1>4, <2>1, ReadEndsKeeps DEF End
  <1>5. ASSUME done # 0, UNCHANGED <<phase, status, want, done>>
        PROVE  IInv'
    <2>1. split' = split
      BY <1>1, <1>5 DEF TypeOK
    <2>2. TypeOK'
      BY <1>1, <1>2, <1>5, <2>1, Numbers DEF TypeOK
    <2>3. AsksForThePart' /\ NoFalseAlarm'
      BY <1>1, <1>5, <2>1 DEF AsksForThePart, NoFalseAlarm, StartOf
    <2>4. InFrame'
      BY <1>1, <1>5, <2>1 DEF InFrame, StartOf
    <2> QED BY <1>2, <2>2, <2>3, <2>4
  <1>6. ASSUME done = 0, Starts("length", Block)
        PROVE  IInv'
    <2>1. phase' = "length" /\ want' = Block /\ done' = 0 /\ status' = status
      BY <1>6 DEF Starts
    <2>2. TypeOK'
      BY <1>1, <1>2, <1>3, <2>1, Numbers, ConstantsAssumption DEF TypeOK
    <2>3. AsksForThePart'
      BY <2>1 DEF AsksForThePart
    <2>4. NoFalseAlarm'
      BY <1>1, <2>1 DEF NoFalseAlarm
    <2>5. InFrame'
      <3> SUFFICES ASSUME ~split' PROVE pos' = StartOf(sequence + 1)' + 0 + 0
        BY <2>1 DEF InFrame
      <3>1. ~split /\ phase = "length"
        BY <1>1, <1>6 DEF TypeOK
      <3>2. pos - 0 = StartOf(sequence + 1) /\ StartOf(sequence + 1) \in Nat
        BY <1>6, <3>1, Place
      <3>3. pos = StartOf(sequence + 1)
        BY <3>2, Numbers
      <3>4. StartOf(sequence + 1)' = StartOf(sequence + 1) /\ pos' = pos
        BY <1>1 DEF StartOf
      <3>5. PICK s \in Nat : s = StartOf(sequence + 1)
        BY <3>2
      <3> QED BY <3>3, <3>4, <3>5
    <2> QED BY <1>2, <2>2, <2>3, <2>4, <2>5
  <1> QED BY <1>4, <1>5, <1>6 DEF ReadTimeout, TimeoutReturns

LEMMA ReadEndKeeps == ASSUME IInv, ReadClosed \/ ReadError PROVE IInv'
  <1>1. /\ phase' = "ended" /\ status' \in {"CLOSED", "PLATFORM"}
        /\ UNCHANGED <<stage, want, done, pos, sequence, ends, arrived, closed, split>>
    BY DEF ReadClosed, ReadError, End
  <1>2. TypeOK'
    BY <1>1, SameStream, Numbers DEF IInv, TypeOK
  <1> QED BY <1>1, <1>2, ReadEndsKeeps

\* A packet more on the wire moves no other.
LEMMA ClientWriteKeeps == ASSUME IInv, ClientWrite PROVE IInv'
  <1> USE DEF IInv
  <1>1. PICK l \in PacketLens : ends' = Append(ends, Written + l)
    BY DEF ClientWrite
  <1>2. UNCHANGED <<stage, phase, status, want, done, pos, sequence, arrived, closed, split>>
    BY DEF ClientWrite
  <1>3. l \in Nat /\ l > Block
    BY ConstantsAssumption
  <1>4. ends \in Seq(Nat) /\ DOMAIN ends = 1..Len(ends)
    BY DEF TypeOK
  <1>5. Written + l \in Nat /\ Written + l >= Written
    BY <1>3, Numbers
  <1>6. /\ ends' \in Seq(Nat) /\ Len(ends') = Len(ends) + 1
        /\ DOMAIN ends' = 1..(Len(ends) + 1)
        /\ \A i \in 1..Len(ends) : ends'[i] = ends[i]
        /\ ends'[Len(ends) + 1] = Written + l
    BY <1>1, <1>4, <1>5
  <1>7. Written' = Written + l
    BY <1>6, Numbers DEF Written
  <1>8. TypeOK'
    <2>1. sequence' \in 0..Len(ends') /\ arrived' \in 0..Written' /\ pos' \in 0..arrived'
      BY <1>2, <1>3, <1>6, <1>7, Numbers
    <2> QED BY <1>2, <1>6, <2>1 DEF TypeOK
  <1>9. \A i \in 1..(Len(ends) + 1) : StartOf(i)' = StartOf(i)
    <2> SUFFICES ASSUME NEW i \in 1..(Len(ends) + 1) PROVE StartOf(i)' = StartOf(i)
      OBVIOUS
    <2>1. CASE i = 1
      BY <2>1 DEF StartOf
    <2>2. CASE i # 1
      <3>1. i - 1 \in 1..Len(ends)
        BY <2>2, Numbers
      <3>2. ends'[i - 1] = ends[i - 1]
        BY <1>6, <3>1
      <3> QED BY <2>2, <3>2 DEF StartOf
    <2> QED BY <2>1, <2>2
  <1>10. PacketsWellFormed'
    <2> SUFFICES ASSUME NEW i \in 1..(Len(ends) + 1)
                 PROVE  ends'[i] - StartOf(i)' \in PacketLens
      BY <1>6 DEF PacketsWellFormed
    <2>1. CASE i \in 1..Len(ends)
      BY <1>4, <1>6, <1>9, <2>1 DEF PacketsWellFormed
    <2>2. CASE i = Len(ends) + 1
      <3>1. StartOf(i)' = Written
        BY <1>9, <2>2, Starts_Nat
      <3>2. (Written + l) - Written = l
        BY <1>3, Numbers
      <3> QED BY <1>6, <2>2, <3>1, <3>2
    <2> QED BY <2>1, <2>2, Numbers
  <1>11. sequence + 1 \in 1..(Len(ends) + 1) /\ StartOf(sequence + 1)' = StartOf(sequence + 1)
    BY <1>2, <1>9, Numbers
  <1>12. InFrame' /\ NoFalseAlarm'
    BY <1>2, <1>11 DEF InFrame, NoFalseAlarm
  <1>13. AsksForThePart'
    BY <1>2, <1>4, <1>6, <1>11 DEF AsksForThePart
  <1> QED BY <1>8, <1>10, <1>12, <1>13

\* The network delivers, the client closes, or nothing happens: the server's side of
\* the invariant is untouched.
LEMMA OthersKeep ==
    ASSUME IInv, Deliver \/ ClientClose \/ UNCHANGED vars PROVE IInv'
  <1> USE DEF IInv
  <1>1. UNCHANGED <<stage, phase, status, want, done, pos, sequence, ends, split>>
    BY DEF Deliver, ClientClose, vars
  <1>2. PacketsWellFormed' /\ Written' = Written
    BY <1>1, SameStream
  <1>3. arrived' \in arrived..Written /\ closed' \in BOOLEAN
    <2>1. CASE Deliver
      BY <2>1, Numbers DEF Deliver, TypeOK
    <2>2. CASE ClientClose \/ UNCHANGED vars
      <3>1. arrived' = arrived /\ closed' \in BOOLEAN
        BY <2>2 DEF ClientClose, vars, TypeOK
      <3> QED BY <3>1, Numbers
    <2> QED BY <2>1, <2>2
  <1>4. TypeOK'
    BY <1>1, <1>2, <1>3, Numbers DEF TypeOK
  <1>5. AsksForThePart' /\ InFrame' /\ NoFalseAlarm'
    BY <1>1 DEF AsksForThePart, InFrame, NoFalseAlarm, StartOf
  <1> QED BY <1>2, <1>4, <1>5

\* Every step of the reader, the network and the client keeps the inductive invariant.
THEOREM Invariance == Spec => []IInv
  <1>1. IInv /\ [Next]_vars => IInv'
    <2> SUFFICES ASSUME IInv, [Next]_vars PROVE IInv'
      OBVIOUS
    <2>1. CASE Read
      BY <2>1, ReadPartKeeps, ReadLengthKeeps, ReadRestKeeps, ReadEndKeeps DEF Read
    <2>2. CASE ReadTimeout
      BY <2>2, ReadTimeoutKeeps
    <2>3. CASE ReadError
      BY <2>3, ReadEndKeeps
    <2>4. CASE ClientWrite
      BY <2>4, ClientWriteKeeps
    <2>5. CASE Deliver \/ ClientClose \/ Finished \/ UNCHANGED vars
      BY <2>5, OthersKeep DEF Finished
    <2> QED BY <2>1, <2>2, <2>3, <2>4, <2>5 DEF Next
  <1> QED BY <1>1, InitIInv, PTL DEF Spec

\* Short reads and timeouts lose no byte and count none twice: whatever the lengths,
\* the server reads the packet after those it decoded, at the place it thinks it is,
\* unless a timeout came right between the two reads of a packet (net_read_exact).
THEOREM FrameSafe == Spec => []InFrame
  <1>1. IInv => InFrame
    BY DEF IInv
  <1> QED BY <1>1, Invariance, PTL

\* A client whose packets were not split by a timeout between the two reads is never
\* cut off for a bad length or a failed check.
THEOREM FalseAlarmSafe == Spec => []NoFalseAlarm
  <1>1. IInv => NoFalseAlarm
    BY DEF IInv
  <1> QED BY <1>1, Invariance, PTL
=============================================================================
