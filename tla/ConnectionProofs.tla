-------------------------- MODULE ConnectionProofs ---------------------------
(***************************************************************************)
(* What one connection goes through.  Frame, for every base, width of the  *)
(* prefix, set of bodies and pair of limits: bodies arrive whole and in    *)
(* order.  Runner, for every set of drives and every limit: the budget is  *)
(* never exceeded and the report of its exhaustion is exact.               *)
(***************************************************************************)
EXTENDS Frame, Runner, SequenceTheorems, WellFoundedInduction, TLAPS

------------------------------------------------------------------------------
(* Induction, in the form the provers can instantiate: over sets of numbers. *)

\* A non-empty set of numbers has a least one.
LEMMA LeastNumber ==
    ASSUME NEW T, T \subseteq Nat, T # {}
    PROVE  \E n \in T : \A m \in T : n <= m
  <1>1. PICK n \in T : \A m \in T : ~ (<<m, n>> \in OpToRel(<, Nat))
    BY WFMin, NatLessThanWellFounded
  <1>2. \A x, y \in Nat : x < y => <<x, y>> \in OpToRel(<, Nat)
    BY DEF OpToRel
  <1>3. ASSUME NEW m \in T, ~(n <= m) PROVE FALSE
    <2>1. m \in Nat /\ n \in Nat
      OBVIOUS
    <2>2. m < n
      BY <1>3, <2>1
    <2> QED
      BY <2>1, <2>2, <1>1, <1>2
  <1> QED
    BY <1>3

\* What holds of the first number and of the next of any number, up to a last one.
LEMMA UpTo ==
    ASSUME NEW last \in Nat, NEW S, 0 \in S,
           \A n \in 0..(last - 1) : n \in S => n + 1 \in S
    PROVE  0..last \subseteq S
  <1> SUFFICES ASSUME (0..last) \ S # {} PROVE FALSE
    OBVIOUS
  <1>1. (0..last) \ S \subseteq Nat
    OBVIOUS
  <1>2. PICK n \in (0..last) \ S : \A m \in (0..last) \ S : n <= m
    BY <1>1, LeastNumber
  <1>3. n \in Nat /\ n # 0 /\ n <= last /\ n - 1 \in 0..(last - 1) /\ n - 1 \in 0..last /\ ~(n <= n - 1)
        /\ (n - 1) + 1 = n
    BY <1>2
  <1>4. n - 1 \in S
    BY <1>2, <1>3
  <1>5. n \in S
    BY <1>3, <1>4
  <1> QED
    BY <1>2, <1>5

\* A function given by its first value and each next one.
Iterates(f, last, S, z, next) ==
    f \in [0..last -> S] /\ f[0] = z /\ \A i \in 1..last : f[i] = next[i][f[i - 1]]

\* There is one.
LEMMA IterationExists ==
    ASSUME NEW last \in Nat, NEW S, NEW z \in S, NEW next \in [1..last -> [S -> S]]
    PROVE  \E f : Iterates(f, last, S, z, next)
  <1> DEFINE Good == {n \in 0..last : \E f : Iterates(f, n, S, z, next)}
  <1>1. 0 \in Good
    <2> DEFINE f == [i \in 0..0 |-> z]
    <2>1. Iterates(f, 0, S, z, next) /\ 0 \in 0..last
      BY DEF Iterates
    <2> HIDE DEF f
    <2> QED
      BY <2>1
  <1>2. ASSUME NEW n \in 0..(last - 1), n \in Good PROVE n + 1 \in Good
    <2>1. PICK f : Iterates(f, n, S, z, next)
      BY <1>2
    <2> DEFINE g == [i \in 0..(n + 1) |-> IF i = n + 1 THEN next[n + 1][f[n]] ELSE f[i]]
    <2>2. n \in Nat /\ n + 1 \in 1..last /\ n \in 0..n
      OBVIOUS
    <2>3. next[n + 1] \in [S -> S] /\ f[n] \in S
      BY <2>1, <2>2 DEF Iterates
    <2>4. next[n + 1][f[n]] \in S
      BY <2>3
    <2>5. g \in [0..(n + 1) -> S]
      BY <2>1, <2>2, <2>4 DEF Iterates
    <2>6. Iterates(g, n + 1, S, z, next)
      <3>1. g[0] = z
        BY <2>1, <2>2 DEF Iterates
      <3>2. ASSUME NEW i \in 1..(n + 1) PROVE g[i] = next[i][g[i - 1]]
        <4>1. i - 1 \in 0..n /\ i - 1 # n + 1 /\ g[i - 1] = f[i - 1]
          BY <2>2
        <4>2. CASE i = n + 1
          BY <2>2, <4>1, <4>2
        <4>3. CASE i # n + 1
          BY <2>1, <2>2, <4>1, <4>3 DEF Iterates
        <4> QED
          BY <4>2, <4>3
      <3> QED
        BY <2>5, <3>1, <3>2 DEF Iterates
    <2> HIDE DEF g
    <2> QED
      BY <2>2, <2>6
  <1>3. last \in Good
    <2> HIDE DEF Good
    <2>1. 0..last \subseteq Good
      BY <1>1, <1>2, UpTo
    <2> QED
      BY <2>1
  <1> QED
    BY <1>3

------------------------------------------------------------------------------
(* The length prefix. *)

\* The weights of the digits are the powers of Base (u32::to_be_bytes).
LEMMA Weights ==
    /\ Weight \in [0..PrefixDigits -> Nat \ {0}]
    /\ Weight[0] = 1
    /\ \A k \in 1..PrefixDigits : Weight[k] = Base * Weight[k - 1]
  <1> DEFINE Powers(f) == f = [k \in 0..PrefixDigits |-> IF k = 0 THEN 1 ELSE Base * f[k - 1]]
             times == [k \in 1..PrefixDigits |-> [w \in Nat \ {0} |-> Base * w]]
             Positive == Nat \ {0}
  <1>1. \A w \in Nat \ {0} : Base * w \in Nat \ {0}
    BY FrameAssumption
  <1>2. times \in [1..PrefixDigits -> [Nat \ {0} -> Nat \ {0}]]
    BY <1>1
  <1>3. PrefixDigits \in Nat /\ 1 \in Nat \ {0}
    BY FrameAssumption
  <1>4. PICK f \in [0..PrefixDigits -> Nat \ {0}] :
               f[0] = 1 /\ \A k \in 1..PrefixDigits : f[k] = times[k][f[k - 1]]
    <2>1. times \in [1..PrefixDigits -> [Positive -> Positive]] /\ 1 \in Positive
      BY <1>2, <1>3
    <2> HIDE DEF times, Positive
    <2>2. \E f : Iterates(f, PrefixDigits, Positive, 1, times)
      BY <1>3, <2>1, IterationExists
    <2> QED
      BY <2>2 DEF Positive, Iterates
  <1>5. \A k \in 1..PrefixDigits : f[k] = Base * f[k - 1]
    <2> SUFFICES ASSUME NEW k \in 1..PrefixDigits PROVE f[k] = Base * f[k - 1]
      OBVIOUS
    <2>1. k - 1 \in 0..PrefixDigits
      BY <1>3
    <2>2. f[k - 1] \in Nat \ {0}
      BY <2>1
    <2> QED
      BY <1>4, <2>2
  <1>6. Powers(f)
    <2>1. ASSUME NEW k \in 0..PrefixDigits
          PROVE  f[k] = IF k = 0 THEN 1 ELSE Base * f[k - 1]
      <3>1. CASE k = 0
        BY <1>4, <3>1
      <3>2. CASE k # 0
        <4>1. k \in 1..PrefixDigits
          BY <1>3, <3>2
        <4> QED
          BY <1>5, <3>2, <4>1
      <3> QED
        BY <3>1, <3>2
    <2> QED
      BY <2>1
  <1>7. Weight = CHOOSE g : Powers(g)
    BY DEF Weight
  <1>8. Powers(Weight)
    <2> HIDE DEF Powers
    <2> QED
      BY <1>6, <1>7
  <1>9. Weight[0] = 1 /\ \A k \in 1..PrefixDigits : Weight[k] = Base * Weight[k - 1]
    <2>1. 0 \in 0..PrefixDigits /\ 1..PrefixDigits \subseteq 0..PrefixDigits
      BY <1>3
    <2>2. Weight[0] = 1
      BY <1>8, <2>1
    <2>3. ASSUME NEW k \in 1..PrefixDigits PROVE Weight[k] = Base * Weight[k - 1]
      <3>1. k \in 0..PrefixDigits /\ k # 0
        BY <1>3
      <3> QED
        BY <1>8, <3>1
    <2> QED
      BY <2>2, <2>3
  <1>10. 0..PrefixDigits \subseteq {k \in 0..PrefixDigits : Weight[k] \in Nat \ {0}}
    <2>1. ASSUME NEW k \in 0..(PrefixDigits - 1), Weight[k] \in Nat \ {0}
          PROVE  k + 1 \in 0..PrefixDigits /\ Weight[k + 1] \in Nat \ {0}
      <3>1. k + 1 \in 1..PrefixDigits /\ (k + 1) - 1 = k
        BY <1>3
      <3>2. Weight[k + 1] = Base * Weight[k]
        BY <1>9, <3>1
      <3> QED
        BY <1>1, <2>1, <3>1, <3>2
    <2>2. 0 \in {k \in 0..PrefixDigits : Weight[k] \in Nat \ {0}}
      BY <1>3, <1>9
    <2> DEFINE Reached == {k \in 0..PrefixDigits : Weight[k] \in Nat \ {0}}
    <2>3. \A k \in 0..(PrefixDigits - 1) : k \in Reached => k + 1 \in Reached
      BY <2>1
    <2>4. 0 \in Reached
      BY <2>2
    <2> HIDE DEF Reached
    <2>5. 0..PrefixDigits \subseteq Reached
      BY <1>3, <2>3, <2>4, UpTo
    <2> QED
      BY <2>5 DEF Reached
  <1> QED
    BY <1>8, <1>9, <1>10

\* Two divisions are one.
LEMMA DivDiv ==
    ASSUME NEW a \in Nat, NEW b \in Nat \ {0}, NEW c \in Nat \ {0}
    PROVE  a \div (c * b) = (a \div b) \div c
  BY SMTT(60)

\* A prefix is PrefixDigits bytes.
LEMMA DigitsType ==
    ASSUME NEW n \in Nat
    PROVE  /\ Digits(n) \in Seq(Byte)
           /\ Len(Digits(n)) = PrefixDigits
           /\ \A i \in 1..PrefixDigits : Digits(n)[i] = (n \div Weight[PrefixDigits - i]) % Base
  <1>1. PrefixDigits \in Nat /\ Base \in Nat \ {0}
    BY FrameAssumption
  <1>2. ASSUME NEW i \in 1..PrefixDigits
        PROVE  (n \div Weight[PrefixDigits - i]) % Base \in Byte
    <2>1. PrefixDigits - i \in 0..PrefixDigits
      BY <1>1
    <2>2. Weight[PrefixDigits - i] \in Nat \ {0}
      BY <2>1, Weights
    <2>3. n \div Weight[PrefixDigits - i] \in Nat
      BY <2>2
    <2> QED
      BY <1>1, <2>3 DEF Byte
  <1>3. Digits(n) \in [1..PrefixDigits -> Byte]
    BY <1>2 DEF Digits
  <1> QED
    BY <1>1, <1>3 DEF Digits

\* The value of any prefix is computed digit by digit (u32::from_be_bytes).
LEMMA ValueIs ==
    ASSUME NEW digits \in Seq(Byte), Len(digits) = PrefixDigits
    PROVE  \E f \in [0..PrefixDigits -> Nat] :
              /\ f[0] = 0
              /\ \A i \in 1..PrefixDigits : f[i] = f[i - 1] * Base + digits[i]
              /\ Value(digits) = f[PrefixDigits]
  <1> DEFINE Sums(f) == f = [i \in 0..PrefixDigits |-> IF i = 0 THEN 0 ELSE f[i - 1] * Base + digits[i]]
             add == [i \in 1..PrefixDigits |-> [v \in Nat |-> v * Base + digits[i]]]
             Sum == Nat
  <1>1. PrefixDigits \in Nat /\ Base \in Nat \ {0} /\ 0 \in Nat
    BY FrameAssumption
  <1>2. ASSUME NEW i \in 1..PrefixDigits, NEW v \in Nat PROVE v * Base + digits[i] \in Nat
    <2>1. digits[i] \in Nat
      BY <1>1, ElementOfSeq DEF Byte
    <2> QED
      BY <1>1, <2>1
  <1>3. add \in [1..PrefixDigits -> [Nat -> Nat]]
    BY <1>2
  <1>4. PICK f \in [0..PrefixDigits -> Nat] :
               f[0] = 0 /\ \A i \in 1..PrefixDigits : f[i] = add[i][f[i - 1]]
    <2>1. add \in [1..PrefixDigits -> [Sum -> Sum]] /\ 0 \in Sum
      BY <1>1, <1>3
    <2> HIDE DEF add, Sum
    <2>2. \E f : Iterates(f, PrefixDigits, Sum, 0, add)
      BY <1>1, <2>1, IterationExists
    <2> QED
      BY <2>2 DEF Sum, Iterates
  <1>5. ASSUME NEW i \in 1..PrefixDigits PROVE f[i] = f[i - 1] * Base + digits[i]
    <2>1. i - 1 \in 0..PrefixDigits
      BY <1>1
    <2>2. f[i - 1] \in Nat
      BY <2>1
    <2> QED
      BY <1>4, <2>2
  <1>6. Sums(f)
    <2>1. ASSUME NEW i \in 0..PrefixDigits
          PROVE  f[i] = IF i = 0 THEN 0 ELSE f[i - 1] * Base + digits[i]
      <3>1. CASE i = 0
        BY <1>4, <3>1
      <3>2. CASE i # 0
        <4>1. i \in 1..PrefixDigits
          BY <1>1, <3>2
        <4> QED
          BY <1>5, <3>2, <4>1
      <3> QED
        BY <3>1, <3>2
    <2> QED
      BY <2>1
  <1> DEFINE chosen == CHOOSE g : Sums(g)
  <1>7. Value(digits) = chosen[PrefixDigits]
    BY DEF Value
  <1>8. Sums(chosen)
    <2> HIDE DEF Sums
    <2> QED
      BY <1>6
  <1> HIDE DEF chosen
  <1>9. chosen[0] = 0 /\ \A i \in 1..PrefixDigits : chosen[i] = chosen[i - 1] * Base + digits[i]
    <2>1. 0 \in 0..PrefixDigits /\ 1..PrefixDigits \subseteq 0..PrefixDigits
      BY <1>1
    <2>2. chosen[0] = 0
      BY <1>8, <2>1
    <2>3. ASSUME NEW i \in 1..PrefixDigits PROVE chosen[i] = chosen[i - 1] * Base + digits[i]
      BY <1>8, <2>1
    <2> QED
      BY <2>2, <2>3
  <1>10. \A i \in 0..PrefixDigits : chosen[i] = f[i]
    <2> DEFINE Same == {i \in 0..PrefixDigits : chosen[i] = f[i]}
    <2>1. 0 \in Same
      <3>1. chosen[0] = f[0]
        BY <1>4, <1>9
      <3>2. 0 \in 0..PrefixDigits
        BY <1>1
      <3> QED
        BY <3>1, <3>2
    <2>2. ASSUME NEW i \in 0..(PrefixDigits - 1), i \in Same PROVE i + 1 \in Same
      <3>1. i + 1 \in 1..PrefixDigits /\ (i + 1) - 1 = i
        BY <1>1
      <3>2. f[i + 1] = f[i] * Base + digits[i + 1]
        BY <1>5, <3>1
      <3>3. chosen[i + 1] = chosen[i] * Base + digits[i + 1]
        BY <1>9, <3>1
      <3> QED
        BY <2>2, <3>1, <3>2, <3>3
    <2> HIDE DEF Same
    <2>3. 0..PrefixDigits \subseteq Same
      BY <1>1, <2>1, <2>2, UpTo
    <2> QED
      BY <2>3 DEF Same
  <1>11. Value(digits) = f[PrefixDigits]
    BY <1>1, <1>7, <1>10
  <1> QED
    BY <1>4, <1>5, <1>11

\* A length that fits its prefix comes out of it again (to_be_bytes, from_be_bytes).
LEMMA ValueOfDigits ==
    ASSUME NEW n \in Nat, n < Weight[PrefixDigits]
    PROVE  Value(Digits(n)) = n
  <1>1. PrefixDigits \in Nat /\ Base \in Nat \ {0}
    BY FrameAssumption
  <1>2. PICK f \in [0..PrefixDigits -> Nat] :
               /\ f[0] = 0
               /\ \A i \in 1..PrefixDigits : f[i] = f[i - 1] * Base + Digits(n)[i]
               /\ Value(Digits(n)) = f[PrefixDigits]
    BY DigitsType, ValueIs
  <1> DEFINE Right == {i \in 0..PrefixDigits : f[i] = n \div Weight[PrefixDigits - i]}
  <1>3. 0 \in Right
    <2>1. Weight[PrefixDigits] \in Nat \ {0}
      BY <1>1, Weights
    <2>2. n \div Weight[PrefixDigits] = 0
      BY <2>1
    <2> QED
      BY <1>1, <1>2, <2>2
  <1>4. ASSUME NEW i \in 0..(PrefixDigits - 1), i \in Right PROVE i + 1 \in Right
    <2> DEFINE w == Weight[PrefixDigits - (i + 1)]
               q == n \div w
    <2>1. /\ i + 1 \in 1..PrefixDigits /\ (i + 1) - 1 = i
          /\ PrefixDigits - i \in 1..PrefixDigits /\ (PrefixDigits - i) - 1 = PrefixDigits - (i + 1)
          /\ PrefixDigits - (i + 1) \in 0..PrefixDigits
      BY <1>1
    <2>2. w \in Nat \ {0} /\ Weight[PrefixDigits - i] = Base * w
      BY <2>1, Weights
    <2>3. q \in Nat
      BY <2>2
    <2>4. f[i + 1] = f[i] * Base + (q % Base)
      BY <1>2, <2>1, DigitsType
    <2>5. f[i] = n \div (Base * w)
      BY <1>4, <2>2
    <2> HIDE DEF w
    <2>6. n \div (Base * w) = q \div Base
      BY <1>1, <2>2, DivDiv
    <2> HIDE DEF q
    <2>7. (q \div Base) * Base + (q % Base) = q
      BY <1>1, <2>3
    <2>8. f[i + 1] = q
      BY <2>4, <2>5, <2>6, <2>7
    <2> QED
      BY <2>1, <2>8 DEF q, w
  <1>5. PrefixDigits \in Right
    <2> HIDE DEF Right
    <2>1. 0..PrefixDigits \subseteq Right
      BY <1>1, <1>3, <1>4, UpTo
    <2> QED
      BY <1>1, <2>1
  <1>6. f[PrefixDigits] = n \div 1
    BY <1>1, <1>5, Weights
  <1> QED
    BY <1>2, <1>6

------------------------------------------------------------------------------
(* What is in the stream. *)

\* How bytes are grouped does not matter.
LEMMA Regroup ==
    ASSUME NEW a \in Seq(Byte), NEW b \in Seq(Byte), NEW c \in Seq(Byte)
    PROVE  (a \o b) \o c = a \o (b \o c)
  BY ConcatAssociative

\* Equal sequences split in the same place have equal parts.
LEMMA SplitEqual ==
    ASSUME NEW S, NEW a \in Seq(S), NEW b \in Seq(S), NEW c \in Seq(S), NEW d \in Seq(S),
           Len(a) = Len(b), a \o c = b \o d
    PROVE  a = b /\ c = d
  <1>1. Len(a) \in Nat /\ Len(c) \in Nat /\ Len(d) \in Nat
    BY LenProperties
  <1>2. ASSUME NEW i \in 1..Len(a) PROVE a[i] = b[i]
    <2>1. (a \o c)[i] = a[i]
      BY <1>1, ConcatProperties
    <2>2. (b \o d)[i] = b[i]
      BY <1>1, ConcatProperties
    <2> QED
      BY <2>1, <2>2
  <1>3. a = b
    BY <1>2, SeqEqual
  <1> QED
    BY <1>3, ConcatSimplifications

\* A frame begins with its prefix, so it is not empty.
LEMMA FrameType ==
    ASSUME NEW body \in Seq(Byte)
    PROVE  /\ FrameOf(body) \in Seq(Byte) /\ FrameOf(body) # <<>>
           /\ Digits(Len(body)) \in Seq(Byte) /\ Len(Digits(Len(body))) = PrefixDigits
           /\ FrameOf(body) = Digits(Len(body)) \o body
  <1>1. Len(body) \in Nat
    BY LenProperties
  <1>2. Digits(Len(body)) \in Seq(Byte) /\ Len(Digits(Len(body))) = PrefixDigits
    BY <1>1, DigitsType
  <1>3. FrameOf(body) \in Seq(Byte) /\ Len(FrameOf(body)) = PrefixDigits + Len(body)
    BY <1>2, ConcatProperties DEF FrameOf
  <1>4. FrameOf(body) # <<>>
    BY <1>1, <1>3, EmptySeq, FrameAssumption
  <1> QED
    BY <1>2, <1>3, <1>4 DEF FrameOf

\* rest[i] is what comes after the frame of bodies[i], from the frame after
\* number m up to number whole.
Follows(rest, bodies, m, whole) ==
    /\ rest \in [Nat -> Seq(Byte)]
    /\ \A i \in (m + 1)..whole : rest[i - 1] = FrameOf(bodies[i]) \o rest[i]

\* partial is what there is of the frame after number whole, and more its other
\* bytes: they are still to be written, or never will be.
EndsWith(bodies, whole, partial, unwritten, stopped) ==
    \/ whole = Len(bodies) /\ partial = <<>> /\ unwritten = <<>>
    \/ /\ whole = Len(bodies) - 1
       /\ \E more \in Seq(Byte) :
             /\ more # <<>> /\ FrameOf(bodies[Len(bodies)]) = partial \o more
             /\ unwritten = more \/ (unwritten = <<>> /\ stopped)

\* The bytes carry whole frames from the one after number m on, and what there is
\* of the last.
CarriesUpTo(whole, rest, bytes, bodies, m, unwritten, stopped) ==
    /\ m <= whole /\ whole <= Len(bodies)
    /\ Follows(rest, bodies, m, whole) /\ rest[m] = bytes
    /\ EndsWith(bodies, whole, rest[whole], unwritten, stopped)

Carries(bytes, bodies, m, unwritten, stopped) ==
    \E whole \in Nat : \E rest : CarriesUpTo(whole, rest, bytes, bodies, m, unwritten, stopped)

\* Bodies that were framed: each fits its prefix.
Framed(bodies) ==
    /\ bodies \in Seq(Seq(Byte))
    /\ \A i \in 1..Len(bodies) : Len(bodies[i]) < Weight[PrefixDigits]

\* Writing the next byte (write_all).
LEMMA CarriesByte ==
    ASSUME NEW bodies, Framed(bodies), NEW m \in Nat, NEW unwritten, NEW stopped, NEW bytes,
           Carries(bytes, bodies, m, unwritten, stopped), unwritten # <<>>
    PROVE  Carries(Append(bytes, Head(unwritten)), bodies, m, Tail(unwritten), stopped)
  <1>0. PICK whole \in Nat : \E rest : CarriesUpTo(whole, rest, bytes, bodies, m, unwritten, stopped)
    BY DEF Carries
  <1>1. PICK rest :
           /\ m <= whole /\ whole <= Len(bodies)
           /\ Follows(rest, bodies, m, whole) /\ rest[m] = bytes
           /\ EndsWith(bodies, whole, rest[whole], unwritten, stopped)
    BY <1>0 DEF CarriesUpTo
  <1>2. Len(bodies) \in Nat /\ rest \in [Nat -> Seq(Byte)]
    BY <1>1, LenProperties DEF Framed, Follows
  <1>3. /\ unwritten \in Seq(Byte) /\ whole = Len(bodies) - 1
        /\ FrameOf(bodies[Len(bodies)]) = rest[whole] \o unwritten
    BY <1>1 DEF EndsWith
  <1> DEFINE byte == Head(unwritten)
             left == Tail(unwritten)
             after == [i \in Nat |-> IF i <= whole THEN rest[i] \o <<byte>> ELSE <<>>]
  <1>4. byte \in Byte /\ left \in Seq(Byte) /\ <<byte>> \in Seq(Byte)
    <2>1. byte \in Byte /\ left \in Seq(Byte)
      BY <1>3, HeadTailProperties
    <2> QED
      BY <2>1
  <1>5. unwritten = <<byte>> \o left
    BY <1>3, HeadTailProperties, <1>4
  <1>6. ASSUME NEW i \in Nat PROVE rest[i] \o <<byte>> \in Seq(Byte)
    BY <1>2, <1>4, ConcatProperties
  <1>7. after \in [Nat -> Seq(Byte)]
    <2>1. <<>> \in Seq(Byte)
      BY EmptySeq
    <2> QED
      BY <1>6, <2>1
  <1>8. after[m] = Append(bytes, byte)
    BY <1>1, <1>2, <1>4, AppendIsConcat
  <1>9. ASSUME NEW i \in (m + 1)..whole PROVE after[i - 1] = FrameOf(bodies[i]) \o after[i]
    <2>1. i \in Nat /\ i - 1 \in Nat /\ i <= whole /\ i - 1 <= whole /\ i \in 1..Len(bodies)
      BY <1>1, <1>2
    <2>2. rest[i - 1] = FrameOf(bodies[i]) \o rest[i]
      BY <1>1 DEF Follows
    <2>3. FrameOf(bodies[i]) \in Seq(Byte)
      BY <2>1, FrameType, ElementOfSeq DEF Framed
    <2>4. rest[i] \in Seq(Byte)
      BY <1>2, <2>1
    <2>5. (FrameOf(bodies[i]) \o rest[i]) \o <<byte>> = FrameOf(bodies[i]) \o (rest[i] \o <<byte>>)
      <3> DEFINE single == <<byte>>
                 frame == FrameOf(bodies[i])
      <3>1. single \in Seq(Byte) /\ frame \in Seq(Byte)
        BY <1>4, <2>3
      <3> HIDE DEF single, frame
      <3>2. (frame \o rest[i]) \o single = frame \o (rest[i] \o single)
        BY <2>4, <3>1, Regroup
      <3> QED
        BY <3>2 DEF single, frame
    <2> QED
      BY <2>1, <2>2, <2>5
  <1>10. FrameOf(bodies[Len(bodies)]) = after[whole] \o left
    <2>1. rest[whole] \in Seq(Byte) /\ after[whole] = rest[whole] \o <<byte>>
      <3>1. rest[whole] \in Seq(Byte)
        BY <1>2
      <3>2. whole <= whole
        OBVIOUS
      <3> HIDE DEF byte
      <3> QED
        BY <3>1, <3>2
    <2>2. rest[whole] \o (<<byte>> \o left) = (rest[whole] \o <<byte>>) \o left
      BY <1>4, <2>1, Regroup
    <2> QED
      BY <1>3, <1>5, <2>1, <2>2
  <1>11. CASE left = <<>>
    <2>1. after[whole + 1] = <<>> /\ whole + 1 = Len(bodies) /\ whole + 1 \in Nat /\ (whole + 1) - 1 = whole
      BY <1>2, <1>3
    <2>2. after[whole] = FrameOf(bodies[whole + 1]) \o after[whole + 1]
      <3>1. after[whole] \in Seq(Byte)
        BY <1>7
      <3>2. after[whole] \o <<>> = after[whole]
        BY <3>1, ConcatEmptySeq
      <3>3. FrameOf(bodies[whole + 1]) = after[whole]
        BY <1>10, <1>11, <2>1, <3>2
      <3> QED
        BY <2>1, <3>2, <3>3
    <2>3. Follows(after, bodies, m, whole + 1)
      <3>1. ASSUME NEW i \in (m + 1)..(whole + 1) PROVE after[i - 1] = FrameOf(bodies[i]) \o after[i]
        <4>1. CASE i = whole + 1
          BY <2>1, <2>2, <4>1
        <4>2. CASE i # whole + 1
          <5>1. i \in (m + 1)..whole
            BY <4>2
          <5> QED
            BY <1>9, <5>1
        <4> QED
          BY <4>1, <4>2
      <3> QED
        BY <1>7, <3>1 DEF Follows
    <2>4. EndsWith(bodies, whole + 1, after[whole + 1], left, stopped)
      BY <1>11, <2>1 DEF EndsWith
    <2>5. m <= whole + 1 /\ whole + 1 <= Len(bodies)
      BY <1>1, <2>1
    <2> HIDE DEF after, byte, left
    <2> QED
      BY <1>8, <2>1, <2>3, <2>4, <2>5 DEF Carries, CarriesUpTo, byte, left
  <1>12. CASE left # <<>>
    <2>1. Follows(after, bodies, m, whole)
      BY <1>7, <1>9 DEF Follows
    <2>2. EndsWith(bodies, whole, after[whole], left, stopped)
      <3> HIDE DEF after, left
      <3> QED
        BY <1>3, <1>4, <1>10, <1>12 DEF EndsWith
    <2> HIDE DEF after, byte, left
    <2> QED
      BY <1>1, <1>8, <2>1, <2>2 DEF Carries, CarriesUpTo, byte, left
  <1> QED
    BY <1>11, <1>12

\* Handing a whole frame to write_all.
LEMMA CarriesFrame ==
    ASSUME NEW bodies, Framed(bodies), NEW m \in Nat, NEW stopped, NEW bytes, NEW body \in Seq(Byte),
           Carries(bytes, bodies, m, <<>>, FALSE)
    PROVE  Carries(bytes, Append(bodies, body), m, FrameOf(body), stopped)
  <1>0. PICK whole \in Nat : \E rest : CarriesUpTo(whole, rest, bytes, bodies, m, <<>>, FALSE)
    BY DEF Carries
  <1>1. PICK rest :
           /\ m <= whole /\ whole <= Len(bodies)
           /\ Follows(rest, bodies, m, whole) /\ rest[m] = bytes
           /\ EndsWith(bodies, whole, rest[whole], <<>>, FALSE)
    BY <1>0 DEF CarriesUpTo
  <1> DEFINE longer == Append(bodies, body)
  <1>2. whole = Len(bodies) /\ rest[whole] = <<>>
    BY <1>1 DEF EndsWith
  <1>3. /\ Len(longer) = Len(bodies) + 1 /\ longer[Len(longer)] = body
        /\ \A i \in 1..Len(bodies) : longer[i] = bodies[i]
    BY AppendProperties DEF Framed
  <1>4. Len(bodies) \in Nat
    BY LenProperties DEF Framed
  <1>5. Follows(rest, longer, m, whole)
    <2>1. ASSUME NEW i \in (m + 1)..whole PROVE rest[i - 1] = FrameOf(longer[i]) \o rest[i]
      <3>1. longer[i] = bodies[i]
        BY <1>2, <1>3
      <3>2. rest[i - 1] = FrameOf(bodies[i]) \o rest[i]
        BY <1>1 DEF Follows
      <3> QED
        BY <3>1, <3>2
    <2> HIDE DEF longer
    <2> QED
      BY <1>1, <2>1 DEF Follows
  <1>6. FrameOf(longer[Len(longer)]) = <<>> \o FrameOf(body)
    BY <1>3, FrameType, ConcatEmptySeq
  <1>7. EndsWith(longer, whole, rest[whole], FrameOf(body), stopped)
    <2> HIDE DEF longer
    <2> QED
      BY <1>2, <1>3, <1>4, <1>6, FrameType DEF EndsWith
  <1>8. whole <= Len(longer)
    BY <1>2, <1>3, <1>4
  <1> HIDE DEF longer
  <1>9. Carries(bytes, longer, m, FrameOf(body), stopped)
    BY <1>1, <1>5, <1>7, <1>8 DEF Carries, CarriesUpTo
  <1> QED
    BY <1>9 DEF longer

\* Giving up a frame of which nothing is written.
LEMMA CarriesDrop ==
    ASSUME NEW bodies, Framed(bodies), NEW m \in Nat, NEW stopped, NEW bytes, NEW unwritten,
           Carries(bytes, bodies, m, unwritten, stopped),
           unwritten # <<>>, unwritten = FrameOf(bodies[Len(bodies)])
    PROVE  /\ Len(bodies) >= 1
           /\ Carries(bytes, SubSeq(bodies, 1, Len(bodies) - 1), m, <<>>, stopped)
  <1>0. PICK whole \in Nat : \E rest : CarriesUpTo(whole, rest, bytes, bodies, m, unwritten, stopped)
    BY DEF Carries
  <1>1. PICK rest :
           /\ m <= whole /\ whole <= Len(bodies)
           /\ Follows(rest, bodies, m, whole) /\ rest[m] = bytes
           /\ EndsWith(bodies, whole, rest[whole], unwritten, stopped)
    BY <1>0 DEF CarriesUpTo
  <1> DEFINE fewer == SubSeq(bodies, 1, Len(bodies) - 1)
  <1>2. /\ unwritten \in Seq(Byte) /\ whole = Len(bodies) - 1
        /\ unwritten = rest[whole] \o unwritten
    BY <1>1 DEF EndsWith
  <1>3. Len(bodies) \in Nat /\ Len(bodies) >= 1
    BY <1>2, LenProperties DEF Framed
  <1>4. rest[whole] = <<>>
    <2>1. rest[whole] \in Seq(Byte)
      BY <1>1 DEF Follows
    <2> QED
      BY <1>2, <2>1, ConcatSimplifications
  <1>5. Len(fewer) = whole /\ \A i \in 1..whole : fewer[i] = bodies[i]
    <2>1. \A i \in 1..(Len(bodies) - 1) : bodies[i] \in Seq(Byte)
      BY <1>3, ElementOfSeq DEF Framed
    <2>2. Len(fewer) = whole
      BY <1>2, <1>3, <2>1, SubSeqProperties
    <2>3. ASSUME NEW i \in 1..whole PROVE fewer[i] = bodies[i]
      <3>1. fewer[i] = bodies[1 + i - 1]
        BY <1>2, <1>3, <2>1, SubSeqProperties
      <3>2. 1 + i - 1 = i
        OBVIOUS
      <3> HIDE DEF fewer
      <3> QED
        BY <3>1, <3>2
    <2> QED
      BY <2>2, <2>3
  <1>6. Follows(rest, fewer, m, whole)
    <2>1. ASSUME NEW i \in (m + 1)..whole PROVE rest[i - 1] = FrameOf(fewer[i]) \o rest[i]
      <3>1. fewer[i] = bodies[i]
        BY <1>5
      <3>2. rest[i - 1] = FrameOf(bodies[i]) \o rest[i]
        BY <1>1 DEF Follows
      <3> QED
        BY <3>1, <3>2
    <2> HIDE DEF fewer
    <2> QED
      BY <1>1, <2>1 DEF Follows
  <1> HIDE DEF fewer
  <1>7. EndsWith(fewer, whole, rest[whole], <<>>, stopped)
    BY <1>4, <1>5 DEF EndsWith
  <1>8. Carries(bytes, fewer, m, <<>>, stopped)
    BY <1>1, <1>5, <1>6, <1>7 DEF Carries, CarriesUpTo
  <1> QED
    BY <1>3, <1>8 DEF fewer

\* Giving up what is left of a frame, or ending the stream.
LEMMA CarriesStop ==
    ASSUME NEW bodies, NEW m \in Nat, NEW stopped, NEW bytes, NEW unwritten,
           Carries(bytes, bodies, m, unwritten, stopped)
    PROVE  Carries(bytes, bodies, m, <<>>, TRUE)
  <1>0. PICK whole \in Nat : \E rest : CarriesUpTo(whole, rest, bytes, bodies, m, unwritten, stopped)
    BY DEF Carries
  <1>1. PICK rest :
           /\ m <= whole /\ whole <= Len(bodies)
           /\ Follows(rest, bodies, m, whole) /\ rest[m] = bytes
           /\ EndsWith(bodies, whole, rest[whole], unwritten, stopped)
    BY <1>0 DEF CarriesUpTo
  <1>2. EndsWith(bodies, whole, rest[whole], <<>>, TRUE)
    BY <1>1 DEF EndsWith
  <1> QED
    BY <1>1, <1>2 DEF Carries, CarriesUpTo

\* A prefix that is complete is the prefix of the next frame (read_body).
LEMMA CarriesPrefix ==
    ASSUME NEW bodies, Framed(bodies), NEW m \in Nat, NEW unwritten, NEW stopped,
           NEW prefix \in Seq(Byte), NEW bytes \in Seq(Byte), Len(prefix) = PrefixDigits,
           Carries(prefix \o bytes, bodies, m, unwritten, stopped)
    PROVE  m + 1 \in 1..Len(bodies) /\ prefix = Digits(Len(bodies[m + 1]))
  <1>0. PICK whole \in Nat :
               \E rest : CarriesUpTo(whole, rest, prefix \o bytes, bodies, m, unwritten, stopped)
    BY DEF Carries
  <1>1. PICK rest :
           /\ m <= whole /\ whole <= Len(bodies)
           /\ Follows(rest, bodies, m, whole) /\ rest[m] = prefix \o bytes
           /\ EndsWith(bodies, whole, rest[whole], unwritten, stopped)
    BY <1>0 DEF CarriesUpTo
  <1>2. Len(bodies) \in Nat /\ rest \in [Nat -> Seq(Byte)]
    BY <1>1, LenProperties DEF Framed, Follows
  <1>3. \E tail, more \in Seq(Byte) :
           /\ m + 1 \in 1..Len(bodies)
           /\ FrameOf(bodies[m + 1]) \o tail = prefix \o more
    <2>1. CASE m < whole
      <3>1. m + 1 \in 1..Len(bodies) /\ m + 1 \in (m + 1)..whole /\ (m + 1) - 1 = m /\ m + 1 \in Nat
        BY <1>1, <1>2, <2>1
      <3>2. rest[m] = FrameOf(bodies[m + 1]) \o rest[m + 1]
        BY <1>1, <3>1 DEF Follows
      <3>3. rest[m + 1] \in Seq(Byte)
        BY <1>2, <3>1
      <3> QED
        BY <1>1, <3>1, <3>2, <3>3
    <2>2. CASE ~(m < whole)
      <3>1. m = whole
        BY <1>1, <2>2
      <3>2. rest[whole] # <<>>
        <4>1. Len(prefix \o bytes) = PrefixDigits + Len(bytes) /\ Len(bytes) \in Nat
          BY ConcatProperties, LenProperties
        <4>2. Len(prefix \o bytes) # 0
          BY <4>1, FrameAssumption
        <4> QED
          BY <1>1, <3>1, <4>2, EmptySeq
      <3>3. PICK more \in Seq(Byte) :
               whole = Len(bodies) - 1 /\ FrameOf(bodies[Len(bodies)]) = rest[whole] \o more
        BY <1>1, <3>2 DEF EndsWith
      <3>4. m + 1 = Len(bodies) /\ m + 1 \in 1..Len(bodies)
        BY <1>2, <3>1, <3>3
      <3>5. FrameOf(bodies[m + 1]) = prefix \o (bytes \o more) /\ bytes \o more \in Seq(Byte)
        <4>1. (prefix \o bytes) \o more = prefix \o (bytes \o more) /\ bytes \o more \in Seq(Byte)
          BY Regroup, ConcatProperties
        <4> QED
          BY <1>1, <3>1, <3>3, <3>4, <4>1
      <3>6. FrameOf(bodies[m + 1]) \o <<>> = FrameOf(bodies[m + 1])
        BY <3>4, FrameType, ElementOfSeq, ConcatEmptySeq DEF Framed
      <3>7. <<>> \in Seq(Byte)
        BY EmptySeq
      <3> QED
        BY <3>4, <3>5, <3>6, <3>7
    <2> QED
      BY <2>1, <2>2
  <1>4. PICK tail, more \in Seq(Byte) :
           m + 1 \in 1..Len(bodies) /\ FrameOf(bodies[m + 1]) \o tail = prefix \o more
    BY <1>3
  <1> DEFINE body == bodies[m + 1]
             digits == Digits(Len(body))
  <1>5. body \in Seq(Byte)
    BY <1>4, ElementOfSeq DEF Framed
  <1> HIDE DEF body
  <1>6. digits \in Seq(Byte) /\ Len(digits) = PrefixDigits /\ FrameOf(body) = digits \o body
    BY <1>5, FrameType
  <1> HIDE DEF digits
  <1>7. digits \o (body \o tail) = prefix \o more /\ body \o tail \in Seq(Byte)
    <2>1. FrameOf(body) \o tail = prefix \o more
      BY <1>4 DEF body
    <2>2. (digits \o body) \o tail = digits \o (body \o tail) /\ body \o tail \in Seq(Byte)
      BY <1>5, <1>6, Regroup, ConcatProperties
    <2> QED
      BY <1>6, <2>1, <2>2
  <1>8. digits = prefix
    BY <1>4, <1>6, <1>7, SplitEqual
  <1> QED
    BY <1>4, <1>8 DEF digits, body

\* As many bytes as the prefix says are the body of the next frame (read_body).
LEMMA CarriesBody ==
    ASSUME NEW bodies, Framed(bodies), NEW m \in Nat, NEW unwritten, NEW stopped,
           NEW body \in Seq(Byte), NEW bytes \in Seq(Byte), Len(body) < Weight[PrefixDigits],
           Carries(Digits(Len(body)) \o (body \o bytes), bodies, m, unwritten, stopped)
    PROVE  /\ m + 1 \in 1..Len(bodies) /\ body = bodies[m + 1]
           /\ Carries(bytes, bodies, m + 1, unwritten, stopped)
  <1> DEFINE prefix == Digits(Len(body))
             next == bodies[m + 1]
  <1>0. PICK whole \in Nat :
               \E rest : CarriesUpTo(whole, rest, prefix \o (body \o bytes), bodies, m, unwritten, stopped)
    BY DEF Carries
  <1>1. prefix \in Seq(Byte) /\ Len(prefix) = PrefixDigits
    BY FrameType
  <1>2. body \o bytes \in Seq(Byte) /\ Len(body \o bytes) = Len(body) + Len(bytes)
    BY ConcatProperties
  <1>3. Len(body) \in Nat /\ Len(bytes) \in Nat
    BY LenProperties
  <1>4. m + 1 \in 1..Len(bodies) /\ prefix = Digits(Len(next))
    <2> HIDE DEF prefix
    <2> QED
      BY <1>1, <1>2, CarriesPrefix DEF prefix
  <1>5. next \in Seq(Byte) /\ Len(next) \in Nat /\ Len(next) < Weight[PrefixDigits]
    BY <1>4, ElementOfSeq, LenProperties DEF Framed
  <1>6. Len(next) = Len(body)
    <2>1. Value(prefix) = Len(body)
      BY <1>3, ValueOfDigits
    <2>2. Value(Digits(Len(next))) = Len(next)
      BY <1>5, ValueOfDigits
    <2> QED
      BY <1>4, <2>1, <2>2
  <1>7. FrameOf(next) = prefix \o next
    BY <1>4, <1>5, FrameType
  <1>8. PICK rest :
           /\ m <= whole /\ whole <= Len(bodies)
           /\ Follows(rest, bodies, m, whole) /\ rest[m] = prefix \o (body \o bytes)
           /\ EndsWith(bodies, whole, rest[whole], unwritten, stopped)
    BY <1>0 DEF CarriesUpTo
  <1>9. Len(bodies) \in Nat /\ rest \in [Nat -> Seq(Byte)]
    BY <1>8, LenProperties DEF Framed, Follows
  <1> HIDE DEF prefix, next
  <1>10. m < whole
    <2> SUFFICES ASSUME m = whole PROVE FALSE
      BY <1>8
    <2>1. Len(rest[m]) = PrefixDigits + Len(body \o bytes)
      BY <1>1, <1>2, <1>8, ConcatProperties
    <2>2. rest[m] # <<>>
      BY <1>2, <1>3, <2>1, EmptySeq, FrameAssumption
    <2>3. PICK more \in Seq(Byte) :
             /\ more # <<>> /\ whole = Len(bodies) - 1
             /\ FrameOf(bodies[Len(bodies)]) = rest[whole] \o more
      BY <1>8, <2>2 DEF EndsWith
    <2>4. next = bodies[Len(bodies)]
      BY <1>9, <2>3 DEF next
    <2>5. prefix \o next = (prefix \o (body \o bytes)) \o more
      BY <1>7, <1>8, <2>3, <2>4
    <2>6. prefix \o next = prefix \o ((body \o bytes) \o more)
      BY <1>1, <1>2, <2>5, Regroup
    <2>7. (body \o bytes) \o more \in Seq(Byte)
          /\ Len((body \o bytes) \o more) = Len(body \o bytes) + Len(more)
      BY <1>2, ConcatProperties
    <2>8. next = (body \o bytes) \o more
      BY <1>1, <1>5, <2>6, <2>7, SplitEqual
    <2>9. Len(more) \in Nat \ {0}
      BY <2>3, EmptySeq
    <2> QED
      BY <1>2, <1>3, <1>6, <2>7, <2>8, <2>9
  <1> DEFINE tail == rest[m + 1]
  <1>11. m + 1 \in (m + 1)..whole /\ (m + 1) - 1 = m /\ m + 1 \in Nat /\ tail \in Seq(Byte)
    BY <1>8, <1>9, <1>10
  <1> HIDE DEF tail
  <1>12. rest[m] = FrameOf(next) \o tail
    BY <1>8, <1>11 DEF Follows, next, tail
  <1>13. prefix \o (next \o tail) = prefix \o (body \o bytes)
    <2>1. (prefix \o next) \o tail = prefix \o (next \o tail)
      BY <1>1, <1>5, <1>11, Regroup
    <2> QED
      BY <1>7, <1>8, <1>12, <2>1
  <1>14. next \o tail = body \o bytes
    <2> DEFINE expected == next \o tail
               found == body \o bytes
    <2>1. expected \in Seq(Byte) /\ found \in Seq(Byte) /\ prefix \o expected = prefix \o found
      BY <1>2, <1>5, <1>11, <1>13, ConcatProperties
    <2> HIDE DEF expected, found
    <2>2. expected = found
      BY <1>1, <2>1, SplitEqual
    <2> QED
      BY <2>2 DEF expected, found
  <1>15. next = body /\ tail = bytes
    BY <1>5, <1>6, <1>11, <1>14, SplitEqual
  <1>16. Follows(rest, bodies, m + 1, whole)
    <2>1. ASSUME NEW i \in ((m + 1) + 1)..whole PROVE i \in (m + 1)..whole
      OBVIOUS
    <2> QED
      BY <1>8, <2>1 DEF Follows
  <1>17. m + 1 <= whole
    BY <1>8, <1>10
  <1>18. Carries(bytes, bodies, m + 1, unwritten, stopped)
    BY <1>8, <1>15, <1>16, <1>17 DEF Carries, CarriesUpTo, tail
  <1> QED
    BY <1>4, <1>15, <1>18 DEF next

------------------------------------------------------------------------------
(* The invariant. *)

\* What is written and not yet delivered: a body whose prefix was read still
\* counts with that prefix.
Pending == (IF reader = "body" THEN Digits(length) ELSE <<>>) \o (got \o stream)

\* Only a read that is under way holds bytes, and only a closed stream ends.
ReaderInv == (reader \in {"idle", "ended"} => got = <<>>) /\ (reader = "ended" => ~open)

\* A closed stream has nothing to write.  What was sent fits its prefix.
WriterInv == (~open => out = <<>>) /\ Framed(sent)

\* Until something disturbs it the stream holds the frames that follow the ones
\* that were received.
ChannelInv ==
    disturbed = "no" /\ reader # "ended" =>
        /\ Carries(Pending, sent, Len(received), out, cut \/ ~open)
        /\ reader = "body" => length < Weight[PrefixDigits]

FrameInv == FrameTypeOK /\ ReaderInv /\ WriterInv /\ ChannelInv /\ BodiesInOrder

\* It holds at the start: no frame is sent, and there is no byte.
LEMMA FrameInvInit == FrameInit => FrameInv
  <1> SUFFICES ASSUME FrameInit PROVE FrameInv
    OBVIOUS
  <1> USE DEF FrameInit
  <1>1. \A S : <<>> \in Seq(S) /\ Len(<<>>) = 0
    BY EmptySeq
  <1>2. FrameTypeOK
    <2>1. <<>> \in Seq(Byte) /\ <<>> \in Seq(Bodies) /\ <<>> \in Seq(Seq(Byte))
      BY <1>1
    <2>2. out \in Seq(Byte) /\ stream \in Seq(Byte) /\ got \in Seq(Byte)
      BY <2>1
    <2>3. sent \in Seq(Bodies) /\ received \in Seq(Seq(Byte))
      BY <2>1
    <2>4. Len(stream) <= Capacity /\ offered \in 0..FrameMax
      BY <1>1, FrameAssumption
    <2>5. length \in Nat /\ reader \in {"idle", "prefix", "body", "ended"}
          /\ disturbed \in {"no", "refused", "dropped"} /\ limit \in [writer : Limits, reader : Limits]
      OBVIOUS
    <2>6. open \in BOOLEAN /\ cut \in BOOLEAN
      BY Zenon
    <2> QED
      BY <2>2, <2>3, <2>4, <2>5, <2>6 DEF FrameTypeOK
  <1>3. ReaderInv
    BY DEF ReaderInv
  <1>4. WriterInv
    <2>1. sent \in Seq(Seq(Byte)) /\ Len(sent) = 0
      BY <1>1
    <2>2. Framed(sent)
      BY <2>1 DEF Framed
    <2>3. ~open => out = <<>>
      OBVIOUS
    <2> QED
      BY <2>2, <2>3 DEF WriterInv
  <1>5. ChannelInv
    <2>1. <<>> \in Seq(Byte)
      BY <1>1
    <2>2. Pending = <<>> /\ Len(received) = 0 /\ Len(sent) = 0
      <3>1. <<>> \o <<>> = <<>>
        BY <2>1, ConcatEmptySeq
      <3>2. Pending = <<>> \o (<<>> \o <<>>)
        BY DEF Pending
      <3> QED
        BY <1>1, <3>1, <3>2
    <2> DEFINE rest == [i \in Nat |-> <<>>]
    <2>3. rest \in [Nat -> Seq(Byte)] /\ rest[0] = <<>>
      BY <2>1
    <2> HIDE DEF rest
    <2>4. Follows(rest, sent, 0, 0)
      BY <2>3 DEF Follows
    <2>5. EndsWith(sent, 0, rest[0], out, cut \/ ~open)
      BY <2>2, <2>3 DEF EndsWith
    <2>6. Carries(Pending, sent, Len(received), out, cut \/ ~open)
      BY <2>2, <2>3, <2>4, <2>5 DEF Carries, CarriesUpTo
    <2> QED
      BY <2>6 DEF ChannelInv
  <1>6. BodiesInOrder
    BY <1>1 DEF BodiesInOrder
  <1> QED
    BY <1>2, <1>3, <1>4, <1>5, <1>6 DEF FrameInv

\* A step keeps the types.
LEMMA FrameTypeKept == FrameTypeOK /\ FrameNext => FrameTypeOK'
  <1> SUFFICES ASSUME FrameTypeOK, FrameNext PROVE FrameTypeOK'
    OBVIOUS
  <1> USE DEF FrameTypeOK, Disturb, writerVars, readerVars
  <1>1. ASSUME NEW body \in Bodies, WriteBody(body) PROVE FrameTypeOK'
    <2> USE <1>1 DEF WriteBody
    <2>1. body \in Seq(Byte)
      BY FrameAssumption
    <2>2. out' \in Seq(Byte) /\ sent' \in Seq(Bodies)
      <3>1. FrameOf(body) \in Seq(Byte)
        BY <2>1, FrameType
      <3>2. Append(sent, body) \in Seq(Bodies)
        BY AppendProperties
      <3> QED
        BY <3>1, <3>2
    <2>3. offered' \in 0..FrameMax
      BY FrameAssumption
    <2>4. disturbed' \in {"no", "refused", "dropped"}
      OBVIOUS
    <2> QED
      BY <2>2, <2>3, <2>4
  <1>2. CASE WriteByte
    <2> USE <1>2 DEF WriteByte
    <2>1. Head(out) \in Byte /\ Tail(out) \in Seq(Byte)
      BY HeadTailProperties
    <2>2. Append(stream, Head(out)) \in Seq(Byte) /\ Len(Append(stream, Head(out))) = Len(stream) + 1
      BY <2>1, AppendProperties
    <2>3. Len(stream') <= Capacity
      BY <2>2, LenProperties, FrameAssumption
    <2> QED
      BY <2>1, <2>2, <2>3
  <1>3. CASE DropWrite
    <2> USE <1>3 DEF DropWrite
    <2>1. SubSeq(sent, 1, Len(sent) - 1) \in Seq(Bodies)
      <3>1. Len(sent) \in Nat
        BY LenProperties
      <3>2. \A i \in 1..(Len(sent) - 1) : sent[i] \in Bodies
        BY <3>1, ElementOfSeq
      <3> QED
        BY <3>1, <3>2, SubSeqProperties
    <2>2. sent' \in Seq(Bodies)
      BY <2>1
    <2>3. out' \in Seq(Byte) /\ cut' \in BOOLEAN
      BY EmptySeq
    <2> QED
      BY <2>2, <2>3
  <1>4. CASE CloseWriter
    <2>1. out' \in Seq(Byte) /\ open' \in BOOLEAN
      BY <1>4, EmptySeq, Zenon DEF CloseWriter
    <2> QED
      BY <1>4, <2>1 DEF CloseWriter
  <1>5. CASE ReadBody
    <2>1. got' \in Seq(Byte)
      BY <1>5, EmptySeq DEF ReadBody
    <2> QED
      BY <1>5, <2>1 DEF ReadBody
  <1>6. CASE ReadByte
    <2> USE <1>6 DEF ReadByte
    <2>1. Head(stream) \in Byte /\ Tail(stream) \in Seq(Byte) /\ Len(Tail(stream)) = Len(stream) - 1
      BY HeadTailProperties
    <2>2. Append(got, Head(stream)) \in Seq(Byte)
      BY <2>1, AppendProperties
    <2>3. Len(stream') <= Capacity
      BY <2>1, LenProperties, FrameAssumption
    <2> QED
      BY <2>1, <2>2, <2>3
  <1>7. CASE PrefixRead
    <2> USE <1>7 DEF PrefixRead
    <2>1. Value(got) \in Nat
      <3>1. PICK f \in [0..PrefixDigits -> Nat] : Value(got) = f[PrefixDigits]
        BY ValueIs
      <3> QED
        BY <3>1, FrameAssumption
    <2>2. got' \in Seq(Byte)
      BY EmptySeq
    <2>3. length' \in Nat /\ reader' \in {"idle", "prefix", "body", "ended"}
          /\ disturbed' \in {"no", "refused", "dropped"}
      BY <2>1
    <2> QED
      BY <2>2, <2>3
  <1>8. CASE BodyRead
    <2> USE <1>8 DEF BodyRead
    <2>1. received' \in Seq(Seq(Byte))
      BY AppendProperties
    <2>2. got' \in Seq(Byte)
      BY EmptySeq
    <2> QED
      BY <2>1, <2>2
  <1>9. CASE EndOfStream
    <2>1. got' \in Seq(Byte)
      BY <1>9, EmptySeq DEF EndOfStream
    <2> QED
      BY <1>9, <2>1 DEF EndOfStream
  <1>10. CASE DropRead
    <2>1. got' \in Seq(Byte)
      BY <1>10, EmptySeq DEF DropRead
    <2> QED
      BY <1>10, <2>1 DEF DropRead
  <1> QED
    BY <1>1, <1>2, <1>3, <1>4, <1>5, <1>6, <1>7, <1>8, <1>9, <1>10 DEF FrameNext

\* The writer's steps keep the invariant.
LEMMA WriterKeeps ==
    ASSUME FrameInv, (\E body \in Bodies : WriteBody(body)) \/ WriteByte \/ DropWrite \/ CloseWriter
    PROVE  ReaderInv' /\ WriterInv' /\ ChannelInv' /\ BodiesInOrder'
  <1>1. /\ out \in Seq(Byte) /\ stream \in Seq(Byte) /\ got \in Seq(Byte)
        /\ sent \in Seq(Bodies) /\ received \in Seq(Seq(Byte)) /\ length \in Nat
        /\ open \in BOOLEAN /\ cut \in BOOLEAN
    BY DEF FrameInv, FrameTypeOK
  <1>2. Len(sent) \in Nat /\ Len(received) \in Nat
    BY <1>1, LenProperties
  <1>3. Framed(sent) /\ sent \in Seq(Seq(Byte))
    BY DEF FrameInv, WriterInv, Framed
  <1>4. UNCHANGED <<reader, length, got, received>>
    BY DEF WriteBody, WriteByte, DropWrite, CloseWriter, readerVars
  <1>5. ReaderInv'
    BY <1>4 DEF FrameInv, ReaderInv, WriteBody, WriteByte, DropWrite, CloseWriter
  <1>6. reader # "ended" /\ disturbed = "no" =>
          /\ Carries(Pending, sent, Len(received), out, cut \/ ~open)
          /\ reader = "body" => length < Weight[PrefixDigits]
    BY DEF FrameInv, ChannelInv
  <1>7. ASSUME NEW body \in Bodies, WriteBody(body) PROVE WriterInv' /\ ChannelInv' /\ BodiesInOrder'
    <2>1. body \in Seq(Byte) /\ open /\ open' /\ out = <<>> /\ stream' = stream /\ cut' = cut
          /\ reader # "ended"
      BY <1>7, FrameAssumption DEF WriteBody, FrameInv, ReaderInv
    <2>2. Pending' = Pending
      BY <1>4, <2>1 DEF Pending
    <2>3. CASE ~Encodes(body)
      <3>1. UNCHANGED <<out, sent, disturbed>>
        BY <1>7, <2>3 DEF WriteBody
      <3>2. WriterInv'
        BY <1>3, <2>1, <3>1 DEF WriterInv
      <3>3. ChannelInv'
        BY <1>4, <1>6, <2>1, <2>2, <3>1 DEF ChannelInv
      <3>4. BodiesInOrder'
        BY <1>4, <3>1 DEF FrameInv, BodiesInOrder
      <3> QED
        BY <3>2, <3>3, <3>4
    <2>4. CASE Encodes(body)
      <3>1. /\ out' = FrameOf(body) /\ sent' = Append(sent, body) /\ Len(body) < Weight[PrefixDigits]
            /\ IF cut THEN Disturb("dropped") ELSE UNCHANGED disturbed
        BY <1>7, <2>4 DEF WriteBody, Encodes
      <3>2. /\ Append(sent, body) \in Seq(Seq(Byte)) /\ Len(Append(sent, body)) = Len(sent) + 1
            /\ \A i \in 1..Len(sent) : Append(sent, body)[i] = sent[i]
            /\ Append(sent, body)[Len(sent) + 1] = body
        BY <1>3, <2>1, AppendProperties
      <3>3. Framed(sent')
        <4>1. ASSUME NEW i \in 1..(Len(sent) + 1) PROVE Len(Append(sent, body)[i]) < Weight[PrefixDigits]
          <5>1. CASE i = Len(sent) + 1
            BY <3>1, <3>2, <5>1
          <5>2. CASE i # Len(sent) + 1
            <6>1. i \in 1..Len(sent)
              BY <1>2, <5>2
            <6> QED
              BY <1>3, <3>2, <6>1 DEF Framed
          <5> QED
            BY <5>1, <5>2
        <4> QED
          BY <3>1, <3>2, <4>1 DEF Framed
      <3>4. WriterInv'
        BY <2>1, <3>3 DEF WriterInv
      <3>5. disturbed' = "no" => disturbed = "no" /\ ~cut
        BY <3>1 DEF Disturb
      <3>6. ChannelInv'
        <4> SUFFICES ASSUME disturbed' = "no"
                     PROVE  /\ Carries(Pending, Append(sent, body), Len(received), FrameOf(body), FALSE)
                            /\ reader = "body" => length < Weight[PrefixDigits]
          <5>1. ASSUME disturbed' = "no" PROVE (cut' \/ ~open') = FALSE
            BY <1>1, <2>1, <3>5, <5>1
          <5> QED
            BY <1>4, <2>2, <3>1, <5>1 DEF ChannelInv
        <4>1. (cut \/ ~open) = FALSE
          BY <2>1, <3>5
        <4>2. Carries(Pending, sent, Len(received), <<>>, FALSE)
          BY <1>6, <2>1, <3>5, <4>1
        <4>3. Carries(Pending, Append(sent, body), Len(received), FrameOf(body), FALSE)
          BY <1>2, <1>3, <2>1, <4>2, CarriesFrame
        <4> QED
          BY <1>6, <2>1, <3>5, <4>3
      <3>7. BodiesInOrder'
        <4> SUFFICES ASSUME disturbed' = "no"
                     PROVE  /\ Len(received) <= Len(Append(sent, body))
                            /\ \A i \in 1..Len(received) : received[i] = Append(sent, body)[i]
          BY <1>4, <3>1 DEF BodiesInOrder
        <4>1. Len(received) <= Len(sent) /\ \A i \in 1..Len(received) : received[i] = sent[i]
          BY <3>5 DEF FrameInv, BodiesInOrder
        <4>2. \A i \in 1..Len(received) : i \in 1..Len(sent)
          BY <1>2, <4>1
        <4> QED
          BY <1>2, <3>2, <4>1, <4>2
      <3> QED
        BY <3>4, <3>6, <3>7
    <2> QED
      BY <2>3, <2>4
  <1>8. CASE WriteByte
    <2>1. out # <<>> /\ stream' = Append(stream, Head(out)) /\ out' = Tail(out)
          /\ UNCHANGED <<disturbed, open, sent, cut>>
      BY <1>8 DEF WriteByte
    <2>2. WriterInv'
      BY <2>1 DEF FrameInv, WriterInv
    <2>3. BodiesInOrder'
      BY <1>4, <2>1 DEF FrameInv, BodiesInOrder
    <2>4. ASSUME reader = "body" => length < Weight[PrefixDigits] PROVE Pending' = Append(Pending, Head(out))
      <3> DEFINE prefix == IF reader = "body" THEN Digits(length) ELSE <<>>
                 byte == Head(out)
      <3>1. prefix \in Seq(Byte)
        BY <1>1, DigitsType, EmptySeq
      <3>2. byte \in Byte
        BY <1>1, <2>1, HeadTailProperties
      <3>3. Pending = prefix \o (got \o stream) /\ Pending' = prefix \o (got \o Append(stream, byte))
        BY <1>4, <2>1 DEF Pending
      <3> HIDE DEF prefix, byte
      <3>4. got \o stream \in Seq(Byte) /\ prefix \o (got \o stream) \in Seq(Byte)
        BY <1>1, <3>1, ConcatProperties
      <3> DEFINE single == <<byte>>
      <3>5. single \in Seq(Byte)
        BY <3>2
      <3>6. Append(stream, byte) = stream \o single
            /\ Append(prefix \o (got \o stream), byte) = (prefix \o (got \o stream)) \o single
        BY <1>1, <3>2, <3>4, AppendIsConcat
      <3> HIDE DEF single
      <3>7. (got \o stream) \o single = got \o (stream \o single)
        BY <1>1, <3>5, Regroup
      <3>8. (prefix \o (got \o stream)) \o single = prefix \o ((got \o stream) \o single)
        <4> DEFINE middle == got \o stream
        <4>1. middle \in Seq(Byte)
          BY <3>4
        <4> HIDE DEF middle
        <4>2. (prefix \o middle) \o single = prefix \o (middle \o single)
          BY <3>1, <3>5, <4>1, Regroup
        <4> QED
          BY <4>2 DEF middle
      <3> QED
        BY <3>3, <3>6, <3>7, <3>8 DEF byte
    <2>5. ChannelInv'
      <3> SUFFICES ASSUME disturbed = "no", reader # "ended"
                   PROVE  /\ Carries(Pending', sent, Len(received), Tail(out), cut \/ ~open)
                          /\ reader = "body" => length < Weight[PrefixDigits]
        BY <1>4, <2>1 DEF ChannelInv
      <3>1. Carries(Append(Pending, Head(out)), sent, Len(received), Tail(out), cut \/ ~open)
        BY <1>2, <1>3, <1>6, <2>1, CarriesByte
      <3> QED
        BY <1>6, <2>4, <3>1
    <2> QED
      BY <1>5, <2>2, <2>3, <2>5
  <1>9. CASE DropWrite
    <2>1. out # <<>> /\ out' = <<>> /\ UNCHANGED <<stream, disturbed, open>> /\ open
      BY <1>9 DEF DropWrite, FrameInv, WriterInv
    <2>2. Pending' = Pending
      BY <1>4, <2>1 DEF Pending
    <2>3. CASE out # FrameOf(sent[Len(sent)])
      <3>1. cut' = TRUE /\ sent' = sent
        BY <1>9, <2>3 DEF DropWrite
      <3>2. WriterInv'
        BY <1>3, <2>1, <3>1 DEF WriterInv
      <3>3. ChannelInv'
        <4> SUFFICES ASSUME disturbed = "no", reader # "ended"
                     PROVE  /\ Carries(Pending, sent, Len(received), <<>>, TRUE)
                            /\ reader = "body" => length < Weight[PrefixDigits]
          <5>1. (cut' \/ ~open') = TRUE
            BY <3>1
          <5> QED
            BY <1>4, <2>1, <2>2, <3>1, <5>1 DEF ChannelInv
        <4> QED
          BY <1>2, <1>6, CarriesStop
      <3>4. BodiesInOrder'
        BY <1>4, <2>1, <3>1 DEF FrameInv, BodiesInOrder
      <3> QED
        BY <1>5, <3>2, <3>3, <3>4
    <2>4. CASE out = FrameOf(sent[Len(sent)])
      <3> DEFINE fewer == SubSeq(sent, 1, Len(sent) - 1)
      <3>1. sent' = fewer /\ cut' = cut
        BY <1>9, <2>4 DEF DropWrite
      <3>2. \A i \in 1..(Len(sent) - 1) : sent[i] \in Seq(Byte)
        BY <1>2, <1>3, ElementOfSeq
      <3>3. fewer \in Seq(Seq(Byte)) /\ Len(fewer) = IF 1 <= Len(sent) - 1 THEN Len(sent) - 1 ELSE 0
        BY <1>2, <3>2, SubSeqProperties
      <3>4. ASSUME NEW i \in 1..(Len(sent) - 1) PROVE fewer[i] = sent[i]
        <4>1. fewer[i] = sent[1 + i - 1] /\ 1 + i - 1 = i
          BY <1>2, <3>2, SubSeqProperties
        <4> HIDE DEF fewer
        <4> QED
          BY <4>1
      <3> HIDE DEF fewer
      <3>5. \A i \in 1..Len(fewer) : i \in 1..(Len(sent) - 1) /\ i \in 1..Len(sent)
        BY <1>2, <3>3
      <3>6. WriterInv'
        <4>1. Framed(fewer)
          BY <1>3, <3>3, <3>4, <3>5 DEF Framed
        <4> QED
          BY <2>1, <3>1, <4>1 DEF WriterInv
      <3>7. ASSUME disturbed = "no", reader # "ended"
            PROVE  Carries(Pending, fewer, Len(received), <<>>, cut \/ ~open)
        BY <1>2, <1>3, <1>6, <2>1, <2>4, <3>7, CarriesDrop DEF fewer
      <3>8. ChannelInv'
        BY <1>4, <1>6, <2>1, <2>2, <3>1, <3>7 DEF ChannelInv
      <3>9. BodiesInOrder'
        <4> SUFFICES ASSUME disturbed = "no"
                     PROVE  /\ Len(received) <= Len(fewer)
                            /\ \A i \in 1..Len(received) : received[i] = fewer[i]
          BY <1>4, <2>1, <3>1 DEF BodiesInOrder
        <4>1. \A i \in 1..Len(received) : received[i] = sent[i]
          BY DEF FrameInv, BodiesInOrder
        <4>2. reader # "ended"
          BY <2>1 DEF FrameInv, ReaderInv
        <4>3. Len(received) <= Len(fewer)
          <5>1. PICK whole \in Nat : Len(received) <= whole /\ whole <= Len(fewer)
            BY <3>7, <4>2 DEF Carries, CarriesUpTo
          <5> QED
            BY <1>2, <3>3, <5>1
        <4>4. \A i \in 1..Len(received) : i \in 1..Len(fewer)
          BY <1>2, <3>3, <4>3
        <4> QED
          BY <3>4, <3>5, <4>1, <4>3, <4>4
      <3> QED
        BY <1>5, <3>6, <3>8, <3>9
    <2> QED
      BY <2>3, <2>4
  <1>10. CASE CloseWriter
    <2>1. open' = FALSE /\ out' = <<>> /\ UNCHANGED <<stream, disturbed, sent, cut>>
      BY <1>10 DEF CloseWriter
    <2>2. Pending' = Pending
      BY <1>4, <2>1 DEF Pending
    <2>3. WriterInv'
      BY <1>3, <2>1 DEF WriterInv
    <2>4. BodiesInOrder'
      BY <1>4, <2>1 DEF FrameInv, BodiesInOrder
    <2>5. ChannelInv'
      <3> SUFFICES ASSUME disturbed = "no", reader # "ended"
                   PROVE  /\ Carries(Pending, sent, Len(received), <<>>, TRUE)
                          /\ reader = "body" => length < Weight[PrefixDigits]
        <4>1. (cut' \/ ~open') = TRUE
          BY <2>1
        <4> QED
          BY <1>4, <2>1, <2>2, <4>1 DEF ChannelInv
      <3> QED
        BY <1>2, <1>6, CarriesStop
    <2> QED
      BY <1>5, <2>3, <2>4, <2>5
  <1> QED
    BY <1>5, <1>7, <1>8, <1>9, <1>10

\* A prefix that is read is that of the body after the received ones, and its value
\* the length of that body (read_body).
LEMMA PrefixOfNext ==
    ASSUME FrameInv, disturbed = "no", reader = "prefix", Len(got) = PrefixDigits
    PROVE  /\ Len(received) + 1 \in 1..Len(sent)
           /\ got = Digits(Len(sent[Len(received) + 1]))
           /\ Value(got) = Len(sent[Len(received) + 1])
           /\ Carries(got \o stream, sent, Len(received), out, cut \/ ~open)
  <1>1. stream \in Seq(Byte) /\ got \in Seq(Byte) /\ received \in Seq(Seq(Byte))
    BY DEF FrameInv, FrameTypeOK
  <1>2. Len(received) \in Nat /\ Framed(sent)
    BY <1>1, LenProperties DEF FrameInv, WriterInv
  <1>3. got \o stream \in Seq(Byte) /\ <<>> \o (got \o stream) = got \o stream
    <2>1. got \o stream \in Seq(Byte)
      BY <1>1, ConcatProperties
    <2> QED
      BY <2>1, ConcatEmptySeq
  <1>4. Carries(got \o stream, sent, Len(received), out, cut \/ ~open)
    <2>1. Pending = got \o stream
      BY <1>3 DEF Pending
    <2> QED
      BY <2>1 DEF FrameInv, ChannelInv
  <1> DEFINE size == Len(sent[Len(received) + 1])
  <1>5. Len(received) + 1 \in 1..Len(sent) /\ got = Digits(size)
    BY <1>1, <1>2, <1>4, CarriesPrefix
  <1>6. size \in Nat /\ size < Weight[PrefixDigits]
    BY <1>2, <1>5, ElementOfSeq, LenProperties DEF Framed
  <1>7. Value(got) = size
    BY <1>5, <1>6, ValueOfDigits
  <1> QED
    BY <1>4, <1>5, <1>7

\* The reader's steps keep it too.
LEMMA ReaderKeeps ==
    ASSUME FrameInv, ReadBody \/ ReadByte \/ PrefixRead \/ BodyRead \/ EndOfStream \/ DropRead
    PROVE  ReaderInv' /\ WriterInv' /\ ChannelInv' /\ BodiesInOrder'
  <1>1. /\ stream \in Seq(Byte) /\ got \in Seq(Byte) /\ received \in Seq(Seq(Byte))
        /\ length \in Nat /\ <<>> \in Seq(Byte)
    BY EmptySeq DEF FrameInv, FrameTypeOK
  <1>2. Len(received) \in Nat /\ Framed(sent) /\ Len(sent) \in Nat
    BY <1>1, LenProperties DEF FrameInv, WriterInv, Framed
  <1>3. UNCHANGED <<offered, out, open, sent, cut>>
    BY DEF ReadBody, ReadByte, PrefixRead, BodyRead, EndOfStream, DropRead, writerVars
  <1>4. WriterInv'
    BY <1>3 DEF FrameInv, WriterInv, Framed
  <1>5. reader # "ended" /\ disturbed = "no" =>
          /\ Carries(Pending, sent, Len(received), out, cut \/ ~open)
          /\ reader = "body" => length < Weight[PrefixDigits]
    BY DEF FrameInv, ChannelInv
  <1>6. ASSUME UNCHANGED received, disturbed' = "no" => disturbed = "no" PROVE BodiesInOrder'
    BY <1>3, <1>6 DEF FrameInv, BodiesInOrder
  <1>7. got \o stream \in Seq(Byte) /\ <<>> \o (got \o stream) = got \o stream
        /\ <<>> \o stream = stream /\ <<>> \o <<>> = <<>>
    <2>1. got \o stream \in Seq(Byte)
      BY <1>1, ConcatProperties
    <2> QED
      BY <1>1, <2>1, ConcatEmptySeq
  <1>8. CASE ReadBody
    <2>1. reader = "idle" /\ reader' = "prefix" /\ got' = <<>> /\ UNCHANGED <<stream, disturbed, length, received>>
      BY <1>8 DEF ReadBody
    <2>2. got = <<>>
      BY <2>1 DEF FrameInv, ReaderInv
    <2>3. Pending' = Pending
      BY <2>1, <2>2 DEF Pending
    <2>4. ReaderInv'
      BY <2>1 DEF ReaderInv
    <2>5. ChannelInv'
      BY <1>3, <1>5, <2>1, <2>3 DEF ChannelInv
    <2> QED
      BY <1>4, <1>6, <2>1, <2>4, <2>5
  <1>9. CASE ReadByte
    <2>1. /\ reader \in {"prefix", "body"} /\ stream # <<>>
          /\ got' = Append(got, Head(stream)) /\ stream' = Tail(stream)
          /\ UNCHANGED <<disturbed, reader, length, received>>
      BY <1>9 DEF ReadByte
    <2>2. Append(got, Head(stream)) \o Tail(stream) = got \o stream
      <3> DEFINE byte == Head(stream)
                 left == Tail(stream)
                 single == <<byte>>
      <3>1. byte \in Byte /\ left \in Seq(Byte)
        BY <1>1, <2>1, HeadTailProperties
      <3>2. stream = single \o left
        BY <1>1, <2>1, <3>1, HeadTailProperties
      <3>3. single \in Seq(Byte) /\ Append(got, byte) = got \o single
        <4> HIDE DEF byte
        <4> QED
          BY <1>1, <3>1, AppendIsConcat
      <3> HIDE DEF byte, left, single
      <3>4. (got \o single) \o left = got \o (single \o left)
        BY <1>1, <3>1, <3>3, Regroup
      <3> QED
        BY <3>2, <3>3, <3>4 DEF byte, left
    <2>3. Pending' = Pending
      BY <2>1, <2>2 DEF Pending
    <2>4. ReaderInv'
      BY <2>1 DEF ReaderInv
    <2>5. ChannelInv'
      BY <1>3, <1>5, <2>1, <2>3 DEF ChannelInv
    <2> QED
      BY <1>4, <1>6, <2>1, <2>4, <2>5
  <1>10. CASE PrefixRead
    <2>1. /\ reader = "prefix" /\ Len(got) = PrefixDigits /\ got' = <<>>
          /\ UNCHANGED <<stream, received>>
      BY <1>10 DEF PrefixRead
    <2>2. ReaderInv'
      BY <1>3, <1>10, <2>1 DEF ReaderInv, PrefixRead
    <2>3. CASE MayRead(Value(got))
      <3>1. reader' = "body" /\ length' = Value(got) /\ disturbed' = disturbed
        BY <1>10, <2>3 DEF PrefixRead
      <3>2. ChannelInv'
        <4> SUFFICES ASSUME disturbed = "no"
                     PROVE  /\ Carries(Pending', sent, Len(received), out, cut \/ ~open)
                            /\ length' < Weight[PrefixDigits]
          BY <1>3, <2>1, <3>1 DEF ChannelInv
        <4> DEFINE size == Len(sent[Len(received) + 1])
        <4>1. /\ Len(received) + 1 \in 1..Len(sent) /\ got = Digits(size) /\ Value(got) = size
              /\ Carries(got \o stream, sent, Len(received), out, cut \/ ~open)
          BY <2>1, PrefixOfNext
        <4>2. size < Weight[PrefixDigits]
          BY <1>2, <4>1 DEF Framed
        <4>3. length' = size
          BY <3>1, <4>1
        <4>4. Pending' = got \o stream
          <5>1. Pending' = Digits(length') \o (<<>> \o stream)
            BY <2>1, <3>1 DEF Pending
          <5> QED
            BY <1>7, <4>1, <4>3, <5>1
        <4> QED
          BY <4>1, <4>2, <4>3, <4>4
      <3> QED
        BY <1>4, <1>6, <2>1, <2>2, <3>1, <3>2
    <2>4. CASE ~MayRead(Value(got))
      <3>1. disturbed' # "no" /\ (disturbed' = "no" => disturbed = "no")
        BY <1>10, <2>4 DEF PrefixRead, Disturb
      <3> QED
        BY <1>4, <1>6, <2>1, <2>2, <3>1 DEF ChannelInv
    <2> QED
      BY <2>3, <2>4
  <1>11. CASE BodyRead
    <2>1. /\ reader = "body" /\ Len(got) = length /\ received' = Append(received, got)
          /\ reader' = "idle" /\ got' = <<>> /\ UNCHANGED <<stream, disturbed>>
      BY <1>11 DEF BodyRead
    <2>2. ReaderInv'
      BY <2>1 DEF ReaderInv
    <2>3. Len(Append(received, got)) = Len(received) + 1
          /\ Append(received, got)[Len(received) + 1] = got
          /\ \A i \in 1..Len(received) : Append(received, got)[i] = received[i]
      BY <1>1, AppendProperties
    <2>4. CASE disturbed = "no"
      <3>1. Carries(Digits(Len(got)) \o (got \o stream), sent, Len(received), out, cut \/ ~open)
            /\ Len(got) < Weight[PrefixDigits]
        BY <1>5, <2>1, <2>4 DEF Pending
      <3>2. /\ Len(received) + 1 \in 1..Len(sent) /\ got = sent[Len(received) + 1]
            /\ Carries(stream, sent, Len(received) + 1, out, cut \/ ~open)
        BY <1>1, <1>2, <3>1, CarriesBody
      <3>3. Pending' = stream
        <4>1. Pending' = <<>> \o (<<>> \o stream)
          BY <2>1 DEF Pending
        <4> QED
          BY <1>7, <4>1
      <3>4. ChannelInv'
        BY <1>3, <2>1, <2>3, <3>2, <3>3 DEF ChannelInv
      <3>5. BodiesInOrder'
        <4>1. \A i \in 1..Len(received) : received[i] = sent[i]
          BY <2>4 DEF FrameInv, BodiesInOrder
        <4>2. ASSUME NEW i \in 1..(Len(received) + 1) PROVE Append(received, got)[i] = sent[i]
          <5>1. CASE i = Len(received) + 1
            BY <2>3, <3>2, <5>1
          <5>2. CASE i # Len(received) + 1
            <6>1. i \in 1..Len(received)
              BY <1>2, <5>2
            <6> QED
              BY <2>3, <4>1, <6>1
          <5> QED
            BY <5>1, <5>2
        <4>3. Len(received') = Len(received) + 1 /\ Len(received) + 1 <= Len(sent)
          BY <2>1, <2>3, <3>2
        <4> QED
          BY <1>3, <2>1, <4>2, <4>3 DEF BodiesInOrder
      <3> QED
        BY <1>4, <2>2, <3>4, <3>5
    <2>5. CASE disturbed # "no"
      BY <1>4, <2>1, <2>2, <2>5 DEF ChannelInv, BodiesInOrder
    <2> QED
      BY <2>4, <2>5
  <1>12. CASE EndOfStream
    <2>1. reader' = "ended" /\ got' = <<>> /\ ~open /\ UNCHANGED <<disturbed, received>>
      BY <1>12 DEF EndOfStream
    <2>2. ReaderInv' /\ ChannelInv'
      BY <1>3, <2>1 DEF ReaderInv, ChannelInv
    <2> QED
      BY <1>4, <1>6, <2>1, <2>2
  <1>13. CASE DropRead
    <2>1. reader' = "idle" /\ got' = <<>> /\ disturbed' # "no" /\ UNCHANGED received
      BY <1>13 DEF DropRead, Disturb
    <2>2. ReaderInv' /\ ChannelInv'
      BY <2>1 DEF ReaderInv, ChannelInv
    <2> QED
      BY <1>4, <1>6, <2>1, <2>2
  <1> QED
    BY <1>8, <1>9, <1>10, <1>11, <1>12, <1>13

THEOREM FrameInvHolds == FrameSpec => []FrameInv
  <1>1. FrameInit => FrameInv
    BY FrameInvInit
  <1>2. FrameInv /\ [FrameNext]_frameVars => FrameInv'
    <2> SUFFICES ASSUME FrameInv, [FrameNext]_frameVars PROVE FrameInv'
      OBVIOUS
    <2>1. CASE FrameNext
      <3>1. FrameTypeOK'
        BY <2>1, FrameTypeKept DEF FrameInv
      <3>2. ReaderInv' /\ WriterInv' /\ ChannelInv' /\ BodiesInOrder'
        BY <2>1, WriterKeeps, ReaderKeeps DEF FrameNext
      <3> QED
        BY <3>1, <3>2 DEF FrameInv
    <2>2. CASE UNCHANGED frameVars
      BY <2>2 DEF FrameInv, FrameTypeOK, ReaderInv, WriterInv, Framed, ChannelInv, BodiesInOrder,
                  Pending, frameVars, writerVars, readerVars
    <2> QED
      BY <2>1, <2>2
  <1> QED
    BY <1>1, <1>2, PTL DEF FrameSpec

THEOREM FrameTypeCorrect == FrameSpec => []FrameTypeOK
  <1>1. FrameInv => FrameTypeOK
    BY DEF FrameInv
  <1> QED
    BY <1>1, FrameInvHolds, PTL

\* As long as no length was refused, no read was dropped with bytes consumed and
\* nothing was written after a cut frame, the reader gets the bodies that were
\* sent, whole and in order (encode_body, read_body).
THEOREM FramesArriveInOrder == FrameSpec => []BodiesInOrder
  <1>1. FrameInv => BodiesInOrder
    BY DEF FrameInv
  <1> QED
    BY <1>1, FrameInvHolds, PTL

\* Every body that was sent passed the writer's limit.
SentWithinLimit == \A i \in 1..Len(sent) : Len(sent[i]) <= limit.writer

\* A reader whose limit is no lower than the writer's refuses no length, as long as
\* the stream is in step (validate_length at both ends).
NeverRefuses == limit.writer <= limit.reader => disturbed # "refused"

LimitInv == FrameInv /\ SentWithinLimit /\ NeverRefuses

LEMMA LimitInvStep == LimitInv /\ FrameInv' /\ [FrameNext]_frameVars => LimitInv'
  <1> SUFFICES ASSUME LimitInv, FrameInv', [FrameNext]_frameVars PROVE SentWithinLimit' /\ NeverRefuses'
    BY DEF LimitInv
  <1>1. /\ limit \in [writer : Limits, reader : Limits] /\ sent \in Seq(Bodies)
        /\ Len(sent) \in Nat /\ limit.writer \in Nat /\ limit.reader \in Nat
    BY LenProperties, FrameAssumption DEF LimitInv, FrameInv, FrameTypeOK
  <1>2. limit' = limit
    BY DEF FrameNext, WriteBody, WriteByte, DropWrite, CloseWriter, ReadBody, ReadByte, PrefixRead,
           BodyRead, EndOfStream, DropRead, frameVars
  <1>3. SentWithinLimit'
    <2>1. ASSUME NEW body \in Bodies, WriteBody(body), Encodes(body) PROVE SentWithinLimit'
      <3>1. sent' = Append(sent, body) /\ Len(body) <= limit.writer
        BY <2>1 DEF WriteBody, Encodes, Accepts
      <3>2. Len(Append(sent, body)) = Len(sent) + 1 /\ Append(sent, body)[Len(sent) + 1] = body
            /\ \A i \in 1..Len(sent) : Append(sent, body)[i] = sent[i]
        BY <1>1, AppendProperties
      <3>3. ASSUME NEW i \in 1..(Len(sent) + 1) PROVE Len(Append(sent, body)[i]) <= limit.writer
        <4>1. CASE i = Len(sent) + 1
          BY <3>1, <3>2, <4>1
        <4>2. CASE i # Len(sent) + 1
          <5>1. i \in 1..Len(sent)
            BY <1>1, <4>2
          <5> QED
            BY <3>2, <5>1 DEF LimitInv, SentWithinLimit
        <4> QED
          BY <4>1, <4>2
      <3> QED
        BY <1>2, <3>1, <3>2, <3>3 DEF SentWithinLimit
    <2>2. ASSUME sent' = SubSeq(sent, 1, Len(sent) - 1) PROVE SentWithinLimit'
      <3> DEFINE fewer == SubSeq(sent, 1, Len(sent) - 1)
      <3>1. \A i \in 1..(Len(sent) - 1) : sent[i] \in Bodies
        BY <1>1, ElementOfSeq
      <3>2. Len(fewer) = IF 1 <= Len(sent) - 1 THEN Len(sent) - 1 ELSE 0
        BY <1>1, <3>1, SubSeqProperties
      <3>3. ASSUME NEW i \in 1..(Len(sent) - 1) PROVE fewer[i] = sent[i]
        <4>1. fewer[i] = sent[1 + i - 1] /\ 1 + i - 1 = i
          BY <1>1, <3>1, SubSeqProperties
        <4> HIDE DEF fewer
        <4> QED
          BY <4>1
      <3> HIDE DEF fewer
      <3>4. \A i \in 1..Len(fewer) : i \in 1..(Len(sent) - 1) /\ i \in 1..Len(sent)
        BY <1>1, <3>2
      <3>5. \A i \in 1..Len(fewer) : Len(fewer[i]) <= limit.writer
        BY <3>3, <3>4 DEF LimitInv, SentWithinLimit
      <3> QED
        BY <1>2, <2>2, <3>5 DEF SentWithinLimit, fewer
    <2>3. ASSUME sent' = sent PROVE SentWithinLimit'
      BY <1>2, <2>3 DEF LimitInv, SentWithinLimit
    <2>4. \/ \E body \in Bodies : WriteBody(body) /\ Encodes(body)
          \/ sent' = SubSeq(sent, 1, Len(sent) - 1) \/ sent' = sent
      BY DEF FrameNext, WriteBody, WriteByte, DropWrite, CloseWriter, ReadBody, ReadByte, PrefixRead,
             BodyRead, EndOfStream, DropRead, frameVars, writerVars
    <2> QED
      BY <2>1, <2>2, <2>3, <2>4
  <1>4. NeverRefuses'
    <2> SUFFICES ASSUME limit.writer <= limit.reader, disturbed' = "refused" PROVE FALSE
      BY <1>2 DEF NeverRefuses
    <2>1. disturbed # "refused"
      BY DEF LimitInv, NeverRefuses
    <2>2. PrefixRead /\ ~MayRead(Value(got)) /\ disturbed = "no"
      BY <2>1 DEF FrameNext, WriteBody, WriteByte, DropWrite, CloseWriter, ReadBody, ReadByte, PrefixRead,
                  BodyRead, EndOfStream, DropRead, frameVars, Disturb
    <2>3. Len(received) + 1 \in 1..Len(sent) /\ Value(got) = Len(sent[Len(received) + 1])
      BY <2>2, PrefixOfNext DEF LimitInv, PrefixRead
    <2>4. Value(got) <= limit.writer
      BY <2>3 DEF LimitInv, SentWithinLimit
    <2>5. Value(got) \in Nat
      <3>1. sent[Len(received) + 1] \in Seq(Byte)
        BY <1>1, <2>3, ElementOfSeq, FrameAssumption
      <3> QED
        BY <2>3, <3>1, LenProperties
    <2> QED
      BY <1>1, <2>2, <2>4, <2>5 DEF MayRead, Accepts
  <1> QED
    BY <1>3, <1>4

\* So nothing is refused between two codecs of which the reader's accepts as much.
THEOREM NothingIsRefused == FrameSpec => []NeverRefuses
  <1>1. FrameInit /\ FrameInv => LimitInv
    <2>1. FrameInit => Len(sent) = 0
      BY EmptySeq DEF FrameInit
    <2> QED
      BY <2>1 DEF FrameInit, LimitInv, SentWithinLimit, NeverRefuses
  <1>2. LimitInv /\ FrameInv' /\ [FrameNext]_frameVars => LimitInv'
    BY LimitInvStep
  <1>3. LimitInv => NeverRefuses
    BY DEF LimitInv
  <1> QED
    BY <1>1, <1>2, <1>3, FrameInvHolds, PTL DEF FrameSpec

------------------------------------------------------------------------------
(* Runner.                                                                 *)

\* What the two safety properties rest on: the budget counts each performed step,
\* never passes the limit, and an exhausted drive has used all of it.
Inv ==
    /\ TypeOK
    /\ BudgetRespected
    /\ \A d \in Drives : at[d] = "exhausted" =>
          /\ ~HasBudget(d)
          /\ exhausted[d] = [completed |-> completed[d], attempted |-> Attempted(d)]

\* The attempted count stays in the range of u32 (ContinuationBudget, saturating_add).
LEMMA AttemptedBounded ==
    ASSUME TypeOK, NEW d \in Drives
    PROVE  /\ Attempted(d) \in 0..U32Max
           /\ HasBudget(d) => Attempted(d) = completed[d] + 1
  BY RunnerAssumption DEF TypeOK, Attempted, HasBudget

\* Spending a step keeps the counts together (ContinuationBudget::spend_next_step).
LEMMA SpendKeepsBudget ==
    ASSUME Inv, NEW d \in Drives, Spend(d),
           performed' = [performed EXCEPT ![d] = @ + 1]
    PROVE  /\ completed' \in [Drives -> 0..U32Max]
           /\ performed' \in [Drives -> Nat]
           /\ BudgetRespected'
  <1>1. completed' = [completed EXCEPT ![d] = completed[d] + 1]
    BY AttemptedBounded DEF Inv, Spend
  <1>2. completed[d] < LimitOf[d]
    BY DEF Spend, HasBudget
  <1>3. /\ completed \in [Drives -> 0..U32Max] /\ performed \in [Drives -> Nat]
        /\ LimitOf[d] \in 0..U32Max
        /\ performed[d] = completed[d]
    BY RunnerAssumption DEF Inv, TypeOK, BudgetRespected
  <1>4. completed' \in [Drives -> 0..U32Max]
    <2>1. completed[d] + 1 \in 0..U32Max
      BY <1>2, <1>3, RunnerAssumption
    <2> QED
      BY <1>1, <1>3, <2>1
  <1>5. performed' \in [Drives -> Nat]
    BY <1>3
  <1>6. BudgetRespected'
    <2> SUFFICES ASSUME NEW e \in Drives
                 PROVE  performed'[e] = completed'[e] /\ performed'[e] <= LimitOf[e]
      BY DEF BudgetRespected
    <2>1. CASE e = d
      BY <1>1, <1>2, <1>3, <2>1
    <2>2. CASE e # d
      BY <1>1, <1>3, <2>2 DEF Inv, BudgetRespected
    <2> QED
      BY <2>1, <2>2
  <1> QED
    BY <1>4, <1>5, <1>6

\* The strengthened invariant holds of every run of Runner::drive.
THEOREM InvHolds == Spec => []Inv
  <1>1. Init => Inv
    BY RunnerAssumption DEF Init, Inv, TypeOK, BudgetRespected, Report, Planes, Ends
  <1>2. Inv /\ [Next]_vars => Inv'
    <2> SUFFICES ASSUME Inv, [Next]_vars PROVE Inv'
      OBVIOUS
    <2>1. ASSUME NEW d \in Drives, Continue(d) PROVE Inv'
      <3>1. BudgetRespected' /\ TypeOK'
        BY <2>1, SpendKeepsBudget DEF Continue, Inv, TypeOK
      <3>2. completed' = [completed EXCEPT ![d] = Attempted(d)] /\ at[d] = "deciding"
        BY <2>1 DEF Continue, Spend
      <3> QED
        BY <2>1, <3>1, <3>2 DEF Continue, Inv, TypeOK, HasBudget, Attempted
    <2>2. ASSUME NEW d \in Drives, NEW p \in Planes, Dispatch(d, p) PROVE Inv'
      <3>1. BudgetRespected' /\ TypeOK'
        BY <2>2, SpendKeepsBudget DEF Dispatch, Inv, TypeOK
      <3>2. completed' = [completed EXCEPT ![d] = Attempted(d)]
        BY <2>2 DEF Dispatch, Spend
      <3>3. p # "exhausted"
        BY DEF Planes
      <3> QED
        BY <2>2, <3>1, <3>2, <3>3 DEF Dispatch, Inv, TypeOK, HasBudget, Attempted
    <2>3. ASSUME NEW d \in Drives, PlaneAnswers(d) PROVE Inv'
      BY <2>3 DEF PlaneAnswers, Inv, TypeOK, BudgetRespected, HasBudget, Attempted
    <2>4. ASSUME NEW d \in Drives, Reply(d) PROVE Inv'
      BY <2>4 DEF Reply, Inv, TypeOK, BudgetRespected, HasBudget, Attempted, Ends
    <2>5. ASSUME NEW d \in Drives, Exhaust(d) PROVE Inv'
      <3>1. [completed |-> completed[d], attempted |-> Attempted(d)] \in Report
        BY AttemptedBounded DEF Inv, TypeOK, Report
      <3>2. TypeOK' /\ BudgetRespected'
        BY <2>5, <3>1 DEF Exhaust, Inv, TypeOK, BudgetRespected, Ends
      <3> QED
        BY <2>5, <3>2 DEF Exhaust, Inv, TypeOK, HasBudget, Attempted
    <2>6. ASSUME NEW d \in Drives, DropDrive(d) PROVE Inv'
      BY <2>6 DEF DropDrive, Inv, TypeOK, BudgetRespected, HasBudget, Attempted, Ends
    <2>7. ASSUME UNCHANGED vars PROVE Inv'
      BY <2>7 DEF vars, Inv, TypeOK, BudgetRespected, HasBudget, Attempted
    <2> QED
      BY <2>1, <2>2, <2>3, <2>4, <2>5, <2>6, <2>7 DEF Next, Decide
  <1> QED
    BY <1>1, <1>2, PTL DEF Spec

\* Every state of the drives is well typed, the counts within u32.
THEOREM TypeCorrect == Spec => []TypeOK
  BY InvHolds, PTL DEF Inv

\* No drive ever performs more storage, effect and continuation steps than its
\* limit, for every limit and every number of drives (Runner::drive).
THEOREM BudgetIsRespected == Spec => []BudgetRespected
  BY InvHolds, PTL DEF Inv

\* An exhausted drive has used its limit exactly and reports the step after it,
\* saturated at u32::MAX (ContinuationBudget::spend_next_step).
THEOREM ReportIsExact == Spec => []ReportExact
  <1>1. Inv => ReportExact
    <2> SUFFICES ASSUME Inv, NEW d \in Drives, at[d] = "exhausted"
                 PROVE  /\ exhausted[d].completed = LimitOf[d] /\ performed[d] = LimitOf[d]
                        /\ exhausted[d].attempted = IF LimitOf[d] < U32Max THEN LimitOf[d] + 1
                                                                           ELSE LimitOf[d]
      BY DEF ReportExact
    <2>1. completed[d] = LimitOf[d] /\ performed[d] = LimitOf[d]
      BY RunnerAssumption DEF Inv, TypeOK, BudgetRespected, HasBudget
    <2>2. exhausted[d] = [completed |-> completed[d], attempted |-> Attempted(d)]
      BY DEF Inv
    <2>3. exhausted[d].completed = completed[d] /\ exhausted[d].attempted = Attempted(d)
      BY <2>2
    <2>4. LimitOf[d] \in 0..U32Max /\ U32Max \in Nat
      BY RunnerAssumption
    <2>5. Attempted(d) = IF LimitOf[d] < U32Max THEN LimitOf[d] + 1 ELSE LimitOf[d]
      BY <2>1, <2>4 DEF Attempted
    <2> QED
      BY <2>1, <2>3, <2>5
  <1> QED
    BY <1>1, InvHolds, PTL
==============================================================================
