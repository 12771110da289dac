-------------------------- MODULE TransportProofs --------------------------
(***************************************************************************)
(* What carries a session, proved for any number of its users.             *)
(*                                                                         *)
(* Wire: for any writers, packets and sizes, and all three streams, that   *)
(* the connection carries every byte once and in order, and so implements  *)
(* a queue of packets.                                                     *)
(*                                                                         *)
(* Gomote: for any number of commands, instances and failures, which       *)
(* instances commands and mote close touch, and what a command leaves      *)
(* behind.                                                                 *)
(***************************************************************************)
EXTENDS Gomote, Wire, SequenceTheorems, WellFoundedInduction, TLAPS

-----------------------------------------------------------------------------
(* FlattenSeq.  What it returns is proved by the least length at which a   *)
(* fact about it could fail.                                               *)

\* A set of numbers that is not empty has a least one.
LEMMA LeastElement ==
    ASSUME NEW T, T \subseteq Nat, T # {}
    PROVE  \E n \in T : \A m \in T : n <= m
<1>1. PICK n \in T : \A m \in T : ~(<<m, n>> \in OpToRel(<, Nat))
  BY NatLessThanWellFounded, WFMin
<1>2. \A m \in T : ~(m < n)
  BY <1>1 DEF OpToRel
<1> QED
  BY <1>2

\* f has what the first sequences of s make, one after the other.  It is the
\* function that FlattenSeq is defined by.
Join(s, t) == s \o t
Joins(s, n, f) == f = [i \in 1..n |-> IF i = 1 THEN s[i] ELSE Join(f[i - 1], s[i])]

\* One step of a concatenation from left to right.
LEMMA JoinsAt ==
    ASSUME NEW s, NEW n \in Nat, NEW f, Joins(s, n, f), NEW i \in 1..n
    PROVE  f[i] = IF i = 1 THEN s[i] ELSE Join(f[i - 1], s[i])
BY DEF Joins

\* Its last step.
LEMMA JoinsNext ==
    ASSUME NEW s, NEW n \in Nat, n # 0, NEW f, Joins(s, n + 1, f)
    PROVE  f[n + 1] = Join(f[n], s[n + 1])
<1>1. n + 1 \in 1..n + 1 /\ n + 1 # 1 /\ n + 1 - 1 = n
  OBVIOUS
<1> QED
  BY <1>1, JoinsAt

\* There is one for every length: the least length without one would have one.
LEMMA JoinsExists ==
    ASSUME NEW s, NEW n \in Nat
    PROVE  \E f : Joins(s, n, f)
<1> DEFINE T == {k \in Nat : ~ \E f : Joins(s, k, f)}
<1>1. SUFFICES ASSUME T # {} PROVE FALSE
  OBVIOUS
<1>2. PICK k \in T : \A m \in T : k <= m
  BY <1>1, LeastElement
<1>3. CASE k = 0
  <2>1. Joins(s, 0, [i \in 1..0 |-> s[i]])
    BY DEF Joins
  <2> QED
    BY <2>1, <1>3
<1>4. CASE k # 0
  <2>1. k - 1 \in Nat /\ k - 1 \notin T
    BY <1>2, <1>4
  <2>2. PICK f : Joins(s, k - 1, f)
    BY <2>1
  <2> DEFINE g == [i \in 1..k |-> IF i = 1 THEN s[i] ELSE Join(f[i - 1], s[i])]
  <2>3. \A i \in 1..k - 1 : g[i] = f[i]
    <3> TAKE i \in 1..k - 1
    <3>1. g[i] = IF i = 1 THEN s[i] ELSE Join(f[i - 1], s[i])
      OBVIOUS
    <3> QED
      BY <2>1, <2>2, <3>1, JoinsAt
  <2>4. \A i \in 1..k : g[i] = IF i = 1 THEN s[i] ELSE Join(g[i - 1], s[i])
    <3> TAKE i \in 1..k
    <3>1. CASE i = 1
      BY <3>1
    <3>2. CASE i # 1
      <4>1. i - 1 \in 1..k - 1
        BY <3>2
      <4>2. g[i - 1] = f[i - 1]
        BY <2>3, <4>1
      <4>3. g[i] = Join(f[i - 1], s[i])
        BY <3>2
      <4> HIDE DEF g
      <4> QED
        BY <3>2, <4>2, <4>3
    <3> QED
      BY <3>1, <3>2
  <2>5. g = [i \in 1..k |-> IF i = 1 THEN s[i] ELSE Join(g[i - 1], s[i])]
    <3>1. DOMAIN g = 1..k /\ g = [i \in 1..k |-> g[i]]
      OBVIOUS
    <3> HIDE DEF g
    <3> QED
      BY <2>4, <3>1
  <2> HIDE DEF g
  <2>6. Joins(s, k, g)
    BY <2>5 DEF Joins
  <2> QED
    BY <2>6
<1> QED
  BY <1>3, <1>4

\* For one of them, whichever it is.
LEMMA FlattenJoins ==
    ASSUME NEW s, Len(s) \in Nat, Len(s) # 0
    PROVE  \E f : Joins(s, Len(s), f) /\ FlattenSeq(s) = f[Len(s)]
<1> DEFINE F == CHOOSE f : Joins(s, Len(s), f)
<1>1. Joins(s, Len(s), F)
  BY JoinsExists
<1>2. F = CHOOSE f : f = [i \in 1..Len(s) |-> IF i = 1 THEN s[i] ELSE f[i-1] \o s[i]]
  BY Zenon DEF Joins, Join
<1>3. FlattenSeq(s) = F[Len(s)]
  BY <1>2 DEF FlattenSeq
<1> QED
  BY <1>1, <1>3

\* Two of them agree as far as their sequences do.
LEMMA JoinsAgree ==
    ASSUME NEW s, NEW t, NEW n \in Nat, NEW f, NEW g,
           Joins(s, n, f), Joins(t, n + 1, g), \A i \in 1..n : s[i] = t[i]
    PROVE  \A i \in 1..n : f[i] = g[i]
<1> DEFINE T == {i \in 1..n : f[i] # g[i]}
<1>1. SUFFICES ASSUME T # {} PROVE FALSE
  OBVIOUS
<1>2. PICK i \in T : \A j \in T : i <= j
  <2>1. T \subseteq Nat
    OBVIOUS
  <2> HIDE DEF T
  <2> QED
    BY <1>1, <2>1, LeastElement
<1>3. /\ f[i] = IF i = 1 THEN s[i] ELSE Join(f[i - 1], s[i])
      /\ g[i] = IF i = 1 THEN t[i] ELSE Join(g[i - 1], t[i])
  BY JoinsAt
<1>4. CASE i = 1
  BY <1>3, <1>4
<1>5. CASE i # 1
  <2>1. i - 1 \in 1..n /\ i - 1 \notin T
    BY <1>2, <1>5
  <2> QED
    BY <1>3, <1>5, <2>1
<1> QED
  BY <1>4, <1>5

\* Sequences of elements of S make a sequence of elements of S.
LEMMA JoinsType ==
    ASSUME NEW S, NEW s \in Seq(Seq(S)), NEW f, Joins(s, Len(s), f)
    PROVE  \A i \in 1..Len(s) : f[i] \in Seq(S)
<1> DEFINE T == {i \in 1..Len(s) : f[i] \notin Seq(S)}
<1>1. SUFFICES ASSUME T # {} PROVE FALSE
  OBVIOUS
<1>2. PICK i \in T : \A j \in T : i <= j
  <2>1. T \subseteq Nat
    OBVIOUS
  <2> HIDE DEF T
  <2> QED
    BY <1>1, <2>1, LeastElement
<1>3. f[i] = IF i = 1 THEN s[i] ELSE Join(f[i - 1], s[i])
  BY JoinsAt
<1>4. s[i] \in Seq(S)
  BY ElementOfSeq
<1>5. CASE i = 1
  BY <1>3, <1>4, <1>5
<1>6. CASE i # 1
  <2>1. i - 1 \in 1..Len(s) /\ i - 1 \notin T
    BY <1>2, <1>6
  <2> QED
    BY <1>3, <1>4, <1>6, <2>1, ConcatProperties DEF Join
<1> QED
  BY <1>5, <1>6

\* FlattenSeq makes of sequences of elements of S one of them.
LEMMA FlattenType ==
    ASSUME NEW S, NEW s \in Seq(Seq(S))
    PROVE  FlattenSeq(s) \in Seq(S)
<1>1. CASE s = <<>>
  BY <1>1, EmptySeq DEF FlattenSeq
<1>2. CASE s # <<>>
  <2>1. Len(s) \in Nat /\ Len(s) # 0
    BY <1>2, EmptySeq
  <2>2. PICK f : Joins(s, Len(s), f) /\ FlattenSeq(s) = f[Len(s)]
    BY <2>1, FlattenJoins
  <2> QED
    BY <2>1, <2>2, JoinsType
<1> QED
  BY <1>1, <1>2

\* Nothing makes nothing.
LEMMA FlattenEmpty == FlattenSeq(<<>>) = <<>>
BY DEF FlattenSeq

\* One more sequence at the end, of whatever they consist.
LEMMA FlattenLonger ==
    ASSUME NEW s, NEW t, NEW n \in Nat, n # 0, Len(s) = n, Len(t) = n + 1, \A i \in 1..n : s[i] = t[i]
    PROVE  FlattenSeq(t) = FlattenSeq(s) \o t[n + 1]
<1>1. PICK f : Joins(s, n, f) /\ FlattenSeq(s) = f[n]
  BY FlattenJoins
<1>2. PICK g : Joins(t, n + 1, g) /\ FlattenSeq(t) = g[n + 1]
  BY FlattenJoins
<1>3. f[n] = g[n]
  BY <1>1, <1>2, JoinsAgree
<1>4. g[n + 1] = Join(g[n], t[n + 1])
  BY <1>2, JoinsNext
<1> QED
  BY <1>1, <1>2, <1>3, <1>4 DEF Join

\* One sequence is itself.
LEMMA FlattenOne ==
    ASSUME NEW x
    PROVE  FlattenSeq(<<x>>) = x
<1> DEFINE s == <<x>>
<1>1. Len(s) = 1 /\ s[1] = x
  OBVIOUS
<1> HIDE DEF s
<1>2. PICK f : Joins(s, Len(s), f) /\ FlattenSeq(s) = f[Len(s)]
  BY <1>1, FlattenJoins
<1>3. f[1] = s[1]
  BY <1>1, <1>2, JoinsAt
<1> QED
  BY <1>1, <1>2, <1>3 DEF s

\* One more sequence at the end comes at the end.
LEMMA FlattenAppend ==
    ASSUME NEW S, NEW s \in Seq(Seq(S)), NEW x \in Seq(S)
    PROVE  FlattenSeq(Append(s, x)) = FlattenSeq(s) \o x
<1>1. CASE s = <<>>
  <2>1. Append(s, x) = <<x>> /\ <<>> \o x = x
    BY <1>1, ConcatEmptySeq
  <2> QED
    BY <1>1, <2>1, FlattenEmpty, FlattenOne
<1>2. CASE s # <<>>
  <2> DEFINE t == Append(s, x)
  <2>1. /\ Len(s) \in Nat \ {0} /\ Len(t) = Len(s) + 1 /\ t[Len(t)] = x
        /\ \A i \in 1..Len(s) : s[i] = t[i]
    BY <1>2, AppendProperties, LenProperties, EmptySeq
  <2> HIDE DEF t
  <2>2. FlattenSeq(t) = FlattenSeq(s) \o t[Len(s) + 1]
    BY <2>1, FlattenLonger
  <2> QED
    BY <2>1, <2>2 DEF t
<1> QED
  BY <1>1, <1>2

\* Of three sequences it does not matter which two are joined first.
LEMMA AnyAssociative ==
    ASSUME NEW S
    PROVE  \A a, b, c \in Seq(S) : a \o (b \o c) = (a \o b) \o c
BY ConcatAssociative

\* FlattenSeq of two lists after one another is that of the one, then of the other.
LEMMA FlattenConcat ==
    ASSUME NEW S
    PROVE  \A s, t \in Seq(Seq(S)) : FlattenSeq(s \o t) = FlattenSeq(s) \o FlattenSeq(t)
<1>0. /\ \A a, b, c \in Seq(S) : a \o (b \o c) = (a \o b) \o c
      /\ \A a, b, c \in Seq(Seq(S)) : a \o (b \o c) = (a \o b) \o c
  <2> DEFINE R == Seq(S)
  <2>1. \A a, b, c \in Seq(S) : a \o (b \o c) = (a \o b) \o c
    BY AnyAssociative
  <2> HIDE DEF R
  <2>2. \A a, b, c \in Seq(R) : a \o (b \o c) = (a \o b) \o c
    BY AnyAssociative
  <2> QED
    BY <2>1, <2>2 DEF R
<1> TAKE s, t \in Seq(Seq(S))
<1> DEFINE Bad(u) == FlattenSeq(s \o u) # FlattenSeq(s) \o FlattenSeq(u)
           T == {n \in Nat : \E u \in Seq(Seq(S)) : Len(u) = n /\ Bad(u)}
<1>1. SUFFICES ASSUME T # {} PROVE FALSE
  BY LenProperties
<1>2. PICK n \in T : \A m \in T : n <= m
  <2> HIDE DEF T
  <2>1. T \subseteq Nat
    BY DEF T
  <2> QED
    BY <1>1, <2>1, LeastElement
<1>3. PICK u \in Seq(Seq(S)) : Len(u) = n /\ Bad(u)
  BY <1>2
<1>4. CASE u = <<>>
  <2>1. s \o u = s /\ FlattenSeq(u) = <<>>
    BY <1>4, ConcatEmptySeq, FlattenEmpty
  <2> QED
    BY <1>3, <2>1, FlattenType, ConcatEmptySeq
<1>5. CASE u # <<>>
  <2>1. PICK v \in Seq(Seq(S)), x \in Seq(S) : u = Append(v, x)
    BY <1>5, SequenceEmptyOrAppend
  <2>2. Len(v) \in Nat /\ Len(v) < n
    BY <1>3, <2>1, AppendProperties, LenProperties
  <2>3. ~Bad(v)
    BY <1>2, <2>2
  <2>4. FlattenSeq(u) = FlattenSeq(v) \o x
    BY <2>1, FlattenAppend
  <2>5. s \o u = Append(s \o v, x) /\ s \o v \in Seq(Seq(S))
    <3>1. u = v \o <<x>> /\ <<x>> \in Seq(Seq(S))
      BY <2>1, AppendIsConcat
    <3>2. s \o v \in Seq(Seq(S))
      BY ConcatProperties
    <3>3. s \o u = (s \o v) \o <<x>>
      BY <1>0, <3>1
    <3> QED
      BY <3>2, <3>3, AppendIsConcat
  <2>6. FlattenSeq(s \o u) = (FlattenSeq(s) \o FlattenSeq(v)) \o x
    BY <2>3, <2>5, FlattenAppend
  <2>7. FlattenSeq(s) \in Seq(S) /\ FlattenSeq(v) \in Seq(S)
    BY FlattenType
  <2>8. FlattenSeq(s \o u) = FlattenSeq(s) \o FlattenSeq(u)
    <3> HIDE DEF T, Bad
    <3>1. (FlattenSeq(s) \o FlattenSeq(v)) \o x = FlattenSeq(s) \o (FlattenSeq(v) \o x)
      BY <1>0, <2>7
    <3> QED
      BY <2>4, <2>6, <3>1
  <2> QED
    BY <1>3, <2>8
<1> QED
  BY <1>4, <1>5

-----------------------------------------------------------------------------
(* Bytes, and the hex digits that hexConn makes of them.                   *)

\* The bytes of packets, their digits, and what hexConn has on the network.
Octet  == Packet \X Nat
Digit  == Packet \X Nat \X {"hi", "lo"}
Symbol == Digit \cup {Newline}

\* A sequence whose elements are those of a and then those of b.
LEMMA ConcatIs ==
    ASSUME NEW S, NEW a \in Seq(S), NEW b \in Seq(S), NEW c \in Seq(S), Len(c) = Len(a) + Len(b),
           \A i \in 1..Len(a) : c[i] = a[i], \A i \in 1..Len(b) : c[Len(a) + i] = b[i]
    PROVE  c = a \o b
<1>1. /\ a \o b \in Seq(S) /\ Len(a \o b) = Len(a) + Len(b)
      /\ \A i \in 1..Len(a) + Len(b) : (a \o b)[i] = IF i <= Len(a) THEN a[i] ELSE b[i - Len(a)]
      /\ Len(a) \in Nat /\ Len(b) \in Nat
  BY ConcatProperties, LenProperties
<1>2. \A i \in 1..Len(c) : c[i] = (a \o b)[i]
  <2> TAKE i \in 1..Len(c)
  <2>1. CASE i <= Len(a)
    BY <1>1, <2>1
  <2>2. CASE ~(i <= Len(a))
    <3>1. i - Len(a) \in 1..Len(b) /\ Len(a) + (i - Len(a)) = i
      BY <1>1, <2>2
    <3>2. c[Len(a) + (i - Len(a))] = b[i - Len(a)]
      BY <3>1
    <3> QED
      BY <1>1, <2>2, <3>1, <3>2
  <2> QED
    BY <2>1, <2>2
<1> QED
  BY <1>1, <1>2, SeqEqual

\* What DigitsIn joins.
Marked(s) == [i \in 1..Len(s) |-> IF s[i] = Newline THEN <<>> ELSE <<s[i]>>]

\* A newline is not a digit.
LEMMA DigitNotNewline == Newline \notin Digit
<1>1. Newline[3] = "nl"
  BY DEF Newline
<1>2. \A d \in Digit : d[3] \in {"hi", "lo"}
  BY DEF Digit
<1> QED
  BY <1>1, <1>2

\* Every symbol becomes at most one digit.
LEMMA MarkedType ==
    ASSUME NEW s \in Seq(Symbol)
    PROVE  Marked(s) \in Seq(Seq(Digit)) /\ Len(Marked(s)) = Len(s)
<1>1. Len(s) \in Nat
  BY LenProperties
<1>2. \A i \in 1..Len(s) : Marked(s)[i] \in Seq(Digit)
  <2> TAKE i \in 1..Len(s)
  <2>1. s[i] \in Symbol
    BY ElementOfSeq
  <2>2. CASE s[i] = Newline
    BY <2>2 DEF Marked
  <2>3. CASE s[i] # Newline
    <3>1. s[i] \in Digit
      BY <2>1, <2>3 DEF Symbol
    <3>2. Marked(s)[i] = <<s[i]>>
      BY <2>3 DEF Marked
    <3> QED
      BY <3>1, <3>2
  <2> QED
    BY <2>2, <2>3
<1>3. Marked(s) \in [1..Len(s) -> Seq(Digit)]
  <2>1. Marked(s) = [i \in 1..Len(s) |-> Marked(s)[i]]
    BY DEF Marked
  <2> QED
    BY <1>2, <2>1
<1> QED
  BY <1>1, <1>3

\* What is left without the newlines are digits.
LEMMA DigitsInType ==
    ASSUME NEW s \in Seq(Symbol)
    PROVE  DigitsIn(s) \in Seq(Digit)
BY MarkedType, FlattenType DEF DigitsIn, Marked

\* Newlines are dropped from each part of a stream by itself.
LEMMA DigitsInConcat ==
    ASSUME NEW s \in Seq(Symbol), NEW t \in Seq(Symbol)
    PROVE  DigitsIn(s \o t) = DigitsIn(s) \o DigitsIn(t)
<1>1. /\ s \o t \in Seq(Symbol) /\ Len(s \o t) = Len(s) + Len(t)
      /\ \A i \in 1..Len(s) + Len(t) : (s \o t)[i] = IF i <= Len(s) THEN s[i] ELSE t[i - Len(s)]
      /\ Len(s) \in Nat /\ Len(t) \in Nat
  BY ConcatProperties, LenProperties
<1>2. /\ Marked(s) \in Seq(Seq(Digit)) /\ Len(Marked(s)) = Len(s)
      /\ Marked(t) \in Seq(Seq(Digit)) /\ Len(Marked(t)) = Len(t)
      /\ Marked(s \o t) \in Seq(Seq(Digit)) /\ Len(Marked(s \o t)) = Len(s) + Len(t)
  BY <1>1, MarkedType
<1>3. \A i \in 1..Len(s) : Marked(s \o t)[i] = Marked(s)[i]
  <2> TAKE i \in 1..Len(s)
  <2>1. i \in 1..Len(s) + Len(t) /\ (s \o t)[i] = s[i]
    BY <1>1
  <2> QED
    BY <1>1, <2>1 DEF Marked
<1>4. \A i \in 1..Len(t) : Marked(s \o t)[Len(s) + i] = Marked(t)[i]
  <2> TAKE i \in 1..Len(t)
  <2>1. Len(s) + i \in 1..Len(s) + Len(t) /\ (s \o t)[Len(s) + i] = t[i]
    BY <1>1
  <2> QED
    BY <1>1, <2>1 DEF Marked
<1>5. Marked(s \o t) = Marked(s) \o Marked(t)
  <2> DEFINE a == Marked(s)
             b == Marked(t)
             c == Marked(s \o t)
  <2>1. a \in Seq(Seq(Digit)) /\ b \in Seq(Seq(Digit)) /\ c \in Seq(Seq(Digit))
    BY <1>2
  <2>2. Len(c) = Len(a) + Len(b)
    BY <1>2
  <2>3. (\A i \in 1..Len(a) : c[i] = a[i]) /\ \A i \in 1..Len(b) : c[Len(a) + i] = b[i]
    BY <1>2, <1>3, <1>4
  <2> HIDE DEF a, b, c
  <2>4. c = a \o b
    BY <2>1, <2>2, <2>3, ConcatIs
  <2> QED
    BY <2>4 DEF a, b, c
<1> QED
  BY <1>2, <1>5, FlattenConcat DEF DigitsIn, Marked

\* A newline is dropped and a digit is not.
LEMMA DigitsInOne ==
    /\ DigitsIn(<<Newline>>) = <<>> /\ DigitsIn(<<>>) = <<>>
    /\ \A d \in Digit : DigitsIn(<<d>>) = <<d>>
<1>1. \A d : Marked(<<d>>) = <<IF d = Newline THEN <<>> ELSE <<d>> >>
  BY DEF Marked
<1>2. \A d : DigitsIn(<<d>>) = IF d = Newline THEN <<>> ELSE <<d>>
  BY <1>1, FlattenOne DEF DigitsIn, Marked
<1>3. DigitsIn(<<>>) = <<>>
  <2>1. [i \in 1..Len(<<>>) |-> IF <<>>[i] = Newline THEN <<>> ELSE << <<>>[i] >>] = <<>>
    OBVIOUS
  <2> QED
    BY <2>1, FlattenEmpty DEF DigitsIn
<1> QED
  BY <1>2, <1>3, DigitNotNewline

\* There are no more digits than symbols.
LEMMA DigitsInFewer ==
    ASSUME NEW s \in Seq(Symbol)
    PROVE  Len(DigitsIn(s)) <= Len(s)
<1> DEFINE T == {n \in Nat : \E t \in Seq(Symbol) : Len(t) = n /\ ~(Len(DigitsIn(t)) <= Len(t))}
<1>1. SUFFICES ASSUME T # {} PROVE FALSE
  BY LenProperties
<1>2. PICK n \in T : \A m \in T : n <= m
  <2>1. T \subseteq Nat
    OBVIOUS
  <2> HIDE DEF T
  <2> QED
    BY <1>1, <2>1, LeastElement
<1>3. PICK t \in Seq(Symbol) : Len(t) = n /\ ~(Len(DigitsIn(t)) <= Len(t))
  OBVIOUS
<1>4. CASE t = <<>>
  BY <1>3, <1>4, DigitsInOne
<1>5. CASE t # <<>>
  <2>1. PICK u \in Seq(Symbol), d \in Symbol : t = Append(u, d)
    BY <1>5, SequenceEmptyOrAppend
  <2>2. Len(u) \in Nat /\ n = Len(u) + 1
    BY <1>3, <2>1, AppendProperties, LenProperties
  <2>3. Len(DigitsIn(u)) <= Len(u)
    BY <1>2, <2>2
  <2>4. t = u \o <<d>> /\ <<d>> \in Seq(Symbol)
    BY <2>1, AppendIsConcat
  <2>5. DigitsIn(t) = DigitsIn(u) \o DigitsIn(<<d>>)
    BY <2>4, DigitsInConcat
  <2>6. DigitsIn(u) \in Seq(Digit) /\ DigitsIn(<<d>>) \in Seq(Digit)
    BY <2>4, DigitsInType
  <2>7. Len(DigitsIn(<<d>>)) <= 1
    <3>1. d = Newline \/ d \in Digit
      BY DEF Symbol
    <3>2. DigitsIn(<<d>>) = <<>> \/ DigitsIn(<<d>>) = <<d>>
      BY <3>1, DigitsInOne
    <3>3. Len(<<>>) <= 1 /\ Len(<<d>>) <= 1
      OBVIOUS
    <3> QED
      BY <3>2, <3>3
  <2>8. /\ Len(DigitsIn(t)) = Len(DigitsIn(u)) + Len(DigitsIn(<<d>>))
        /\ Len(DigitsIn(u)) \in Nat /\ Len(DigitsIn(<<d>>)) \in Nat
    BY <2>5, <2>6, ConcatProperties, LenProperties
  <2> QED
    BY <1>3, <2>2, <2>3, <2>7, <2>8
<1> QED
  BY <1>4, <1>5

\* The digits of the bytes s.
DigitOf(b, i) == <<b[1], b[2], IF i % 2 = 1 THEN "hi" ELSE "lo">>
DigitsOf(s) == [i \in 1..2 * Len(s) |-> DigitOf(s[(i + 1) \div 2], i)]

\* Each half of a byte has a digit.
LEMMA DigitOfType ==
    ASSUME NEW b \in Octet, NEW i \in Nat
    PROVE  DigitOf(b, i) \in Digit
BY DEF DigitOf, Digit, Octet

\* Two digits for every byte.
LEMMA DigitsOfType ==
    ASSUME NEW s \in Seq(Octet)
    PROVE  /\ DigitsOf(s) \in Seq(Digit) /\ Len(DigitsOf(s)) = 2 * Len(s)
           /\ \A i \in 1..2 * Len(s) :
                (i + 1) \div 2 \in 1..Len(s) /\ DigitsOf(s)[i] = DigitOf(s[(i + 1) \div 2], i)
<1>1. Len(s) \in Nat
  BY LenProperties
<1>2. \A i \in 1..2 * Len(s) : (i + 1) \div 2 \in 1..Len(s)
  BY <1>1
<1>3. \A i \in 1..2 * Len(s) : DigitOf(s[(i + 1) \div 2], i) \in Digit
  <2> TAKE i \in 1..2 * Len(s)
  <2>1. s[(i + 1) \div 2] \in Octet
    BY <1>2, ElementOfSeq
  <2> QED
    BY <1>1, <2>1, DigitOfType
<1>4. DigitsOf(s) \in [1..2 * Len(s) -> Digit]
  BY <1>3 DEF DigitsOf
<1> QED
  BY <1>1, <1>2, <1>4 DEF DigitsOf

\* An even number of digits before does not change which half a digit is.
LEMMA Halves ==
    ASSUME NEW m \in Nat, NEW i \in Nat
    PROVE  (2 * m + i + 1) \div 2 = m + ((i + 1) \div 2) /\ (2 * m + i) % 2 = i % 2
OBVIOUS

\* The elements of s \o t, from the left and after s.
LEMMA ConcatRight ==
    ASSUME NEW S, NEW s \in Seq(S), NEW t \in Seq(S)
    PROVE  /\ \A i \in 1..Len(s) : (s \o t)[i] = s[i]
           /\ \A i \in 1..Len(t) : (s \o t)[Len(s) + i] = t[i]
<1>1. /\ \A i \in 1..Len(s) + Len(t) : (s \o t)[i] = IF i <= Len(s) THEN s[i] ELSE t[i - Len(s)]
      /\ Len(s) \in Nat /\ Len(t) \in Nat
  BY ConcatProperties, LenProperties
<1>2. \A i \in 1..Len(s) : (s \o t)[i] = s[i]
  BY <1>1
<1>3. \A i \in 1..Len(t) : (s \o t)[Len(s) + i] = t[i]
  <2> TAKE i \in 1..Len(t)
  <2>1. Len(s) + i \in 1..Len(s) + Len(t) /\ ~(Len(s) + i <= Len(s)) /\ Len(s) + i - Len(s) = i
    BY <1>1
  <2> QED
    BY <1>1, <2>1
<1> QED
  BY <1>2, <1>3

\* The digits of two strings of bytes are those of the one, then of the other.
LEMMA DigitsOfConcat ==
    ASSUME NEW s \in Seq(Octet), NEW t \in Seq(Octet)
    PROVE  DigitsOf(s \o t) = DigitsOf(s) \o DigitsOf(t)
<1> DEFINE u == s \o t
           a == DigitsOf(s)
           b == DigitsOf(t)
           c == DigitsOf(u)
<1>1. /\ u \in Seq(Octet) /\ Len(u) = Len(s) + Len(t)
      /\ \A i \in 1..Len(s) : u[i] = s[i]
      /\ \A i \in 1..Len(t) : u[Len(s) + i] = t[i]
      /\ Len(s) \in Nat /\ Len(t) \in Nat
  BY ConcatProperties, ConcatRight, LenProperties
<1> HIDE DEF u
<1>2. /\ a \in Seq(Digit) /\ Len(a) = 2 * Len(s)
      /\ \A i \in 1..2 * Len(s) : (i + 1) \div 2 \in 1..Len(s) /\ a[i] = DigitOf(s[(i + 1) \div 2], i)
  BY DigitsOfType
<1>3. /\ b \in Seq(Digit) /\ Len(b) = 2 * Len(t)
      /\ \A i \in 1..2 * Len(t) : (i + 1) \div 2 \in 1..Len(t) /\ b[i] = DigitOf(t[(i + 1) \div 2], i)
  BY DigitsOfType
<1>4. /\ c \in Seq(Digit) /\ Len(c) = 2 * Len(u)
      /\ \A i \in 1..2 * Len(u) : (i + 1) \div 2 \in 1..Len(u) /\ c[i] = DigitOf(u[(i + 1) \div 2], i)
  BY <1>1, DigitsOfType
<1> HIDE DEF a, b, c
<1>5. \A i \in 1..Len(a) : c[i] = a[i]
  <2> TAKE i \in 1..Len(a)
  <2>1. i \in 1..2 * Len(s) /\ i \in 1..2 * Len(u)
    BY <1>1, <1>2
  <2>2. (i + 1) \div 2 \in 1..Len(s)
    BY <1>2, <2>1
  <2>3. u[(i + 1) \div 2] = s[(i + 1) \div 2]
    BY <1>1, <2>2
  <2> QED
    BY <1>2, <1>4, <2>1, <2>3
<1>6. \A i \in 1..Len(b) : c[Len(a) + i] = b[i]
  <2> TAKE i \in 1..Len(b)
  <2> DEFINE j == (i + 1) \div 2
  <2>1. i \in 1..2 * Len(t) /\ Len(a) + i \in 1..2 * Len(u)
    BY <1>1, <1>2, <1>3
  <2>2. j \in 1..Len(t)
    BY <1>3, <2>1
  <2>3. (Len(a) + i + 1) \div 2 = Len(s) + j
    <3>1. i \in Nat /\ Len(a) = 2 * Len(s) /\ Len(s) \in Nat
      BY <1>1, <1>2, <2>1
    <3>2. (2 * Len(s) + i + 1) \div 2 = Len(s) + ((i + 1) \div 2)
      BY <3>1, Halves
    <3> QED
      BY <3>1, <3>2
  <2>4. c[Len(a) + i] = DigitOf(u[Len(s) + j], Len(a) + i)
    BY <1>4, <2>1, <2>3
  <2>5. b[i] = DigitOf(t[j], i)
    BY <1>3, <2>1
  <2> HIDE DEF j
  <2>6. u[Len(s) + j] = t[j]
    BY <1>1, <2>2
  <2>7. (Len(a) + i) % 2 = i % 2
    BY <1>1, <1>2, <2>1, Halves
  <2> QED
    BY <2>4, <2>5, <2>6, <2>7 DEF DigitOf
<1>7. Len(c) = Len(a) + Len(b)
  BY <1>1, <1>2, <1>3, <1>4
<1>8. c = a \o b
  BY <1>2, <1>3, <1>4, <1>5, <1>6, <1>7, ConcatIs
<1> QED
  BY <1>8 DEF a, b, c, u

\* The digits of a byte are those that HexEncode writes.
LEMMA DigitsOfOne ==
    ASSUME NEW b \in Octet
    PROVE  DigitsOf(<<b>>) = Digits(b) /\ Digits(b) \in Seq(Digit)
<1>1. <<b>> \in Seq(Octet) /\ Len(<<b>>) = 1 /\ <<b>>[1] = b
  OBVIOUS
<1> DEFINE c == DigitsOf(<<b>>)
<1>2. c \in Seq(Digit) /\ Len(c) = 2 /\ c[1] = DigitOf(b, 1) /\ c[2] = DigitOf(b, 2)
  <2> DEFINE s == <<b>>
  <2>1. s \in Seq(Octet) /\ Len(s) = 1 /\ s[1] = b
    BY <1>1
  <2> HIDE DEF s
  <2>2. /\ DigitsOf(s) \in Seq(Digit) /\ Len(DigitsOf(s)) = 2 * Len(s)
        /\ \A i \in 1..2 * Len(s) : DigitsOf(s)[i] = DigitOf(s[(i + 1) \div 2], i)
    BY <2>1, DigitsOfType
  <2>3. 1 \in 1..2 * Len(s) /\ 2 \in 1..2 * Len(s) /\ (1 + 1) \div 2 = 1 /\ (2 + 1) \div 2 = 1
    BY <2>1
  <2> QED
    BY <2>1, <2>2, <2>3 DEF s
<1> HIDE DEF c
<1>3. c = <<DigitOf(b, 1), DigitOf(b, 2)>>
  BY <1>2
<1>4. c = Digits(b)
  BY <1>3 DEF Digits, DigitOf
<1> QED
  BY <1>2, <1>4 DEF c

\* No bytes, no digits.
LEMMA DigitsOfEmpty == DigitsOf(<<>>) = <<>>
BY DEF DigitsOf

\* Two elements, one after the other.
LEMMA PairIsConcat ==
    ASSUME NEW S, NEW d \in S, NEW e \in S
    PROVE  <<d>> \o <<e>> = <<d, e>>
<1> DEFINE a == <<d>>
           b == <<e>>
           c == <<d, e>>
<1>1. a \in Seq(S) /\ b \in Seq(S) /\ c \in Seq(S)
  OBVIOUS
<1>2. Len(a) = 1 /\ Len(b) = 1 /\ Len(c) = 2 /\ a[1] = d /\ b[1] = e /\ c[1] = d /\ c[2] = e
  OBVIOUS
<1> HIDE DEF a, b, c
<1>3. c = a \o b
  <2>1. Len(c) = Len(a) + Len(b)
    BY <1>2
  <2>2. \A i \in 1..Len(a) : c[i] = a[i]
    BY <1>2
  <2>3. \A i \in 1..Len(b) : c[Len(a) + i] = b[i]
    BY <1>2
  <2> QED
    BY <1>1, <2>1, <2>2, <2>3, ConcatIs
<1> QED
  BY <1>3 DEF a, b, c

\* A byte's digits, with or without a newline.
Line(b) == {Digits(b), Digits(b) \o <<Newline>>}

\* A byte in hex has its two digits, whether or not a line ends there.
LEMMA DigitsInLine ==
    ASSUME NEW b \in Octet, NEW g \in Line(b)
    PROVE  g \in Seq(Symbol) /\ DigitsIn(g) = Digits(b)
<1> DEFINE d == DigitOf(b, 1)
           e == DigitOf(b, 2)
<1>1. d \in Digit /\ e \in Digit
  BY DigitOfType
<1>2. Digits(b) = <<d, e>>
  BY DEF Digits, DigitOf
<1> HIDE DEF d, e
<1>3. /\ <<d>> \in Seq(Symbol) /\ <<e>> \in Seq(Symbol) /\ <<Newline>> \in Seq(Symbol)
      /\ <<d>> \o <<e>> = <<d, e>>
  <2>1. d \in Symbol /\ e \in Symbol /\ Newline \in Symbol
    BY <1>1 DEF Symbol
  <2>2. <<d>> \o <<e>> = <<d, e>>
    BY <2>1, PairIsConcat
  <2> QED
    BY <2>1, <2>2
<1>4. DigitsIn(<<d, e>>) = <<d, e>>
  BY <1>1, <1>3, DigitsInConcat, DigitsInOne
<1>5. <<d, e>> \in Seq(Symbol) /\ <<d, e>> \in Seq(Digit)
  BY <1>1 DEF Symbol
<1>6. DigitsIn(<<d, e>> \o <<Newline>>) = <<d, e>> \o <<>>
  BY <1>3, <1>4, <1>5, DigitsInConcat, DigitsInOne
<1>7. <<d, e>> \o <<>> = <<d, e>> /\ <<d, e>> \o <<Newline>> \in Seq(Symbol)
  BY <1>3, <1>5, ConcatEmptySeq, ConcatProperties
<1> QED
  BY <1>2, <1>4, <1>5, <1>6, <1>7 DEF Line

\* The digits in the lines that hexWriter makes of s are those of s, however
\* it breaks the lines.
LEMMA LinesCarry ==
    ASSUME NEW s \in Seq(Octet), NEW g \in Seq(Seq(Symbol)), Len(g) = Len(s),
           \A i \in 1..Len(s) : g[i] \in Line(s[i])
    PROVE  DigitsIn(FlattenSeq(g)) = DigitsOf(s)
<1> DEFINE Lines(u, h) == \A i \in 1..Len(u) : h[i] \in Line(u[i])
           Bad(u, h) == Len(h) = Len(u) /\ Lines(u, h) /\ DigitsIn(FlattenSeq(h)) # DigitsOf(u)
           T == {n \in Nat : \E u \in Seq(Octet), h \in Seq(Seq(Symbol)) : Len(u) = n /\ Bad(u, h)}
<1>1. SUFFICES ASSUME T # {} PROVE FALSE
  BY LenProperties
<1>2. PICK n \in T : \A m \in T : n <= m
  <2>1. T \subseteq Nat
    OBVIOUS
  <2> HIDE DEF T
  <2> QED
    BY <1>1, <2>1, LeastElement
<1>3. PICK u \in Seq(Octet), h \in Seq(Seq(Symbol)) : Len(u) = n /\ Bad(u, h)
  BY <1>2
<1>4. CASE u = <<>>
  <2>1. h = <<>>
    BY <1>3, <1>4, EmptySeq
  <2> QED
    BY <1>3, <1>4, <2>1, FlattenEmpty, DigitsInOne, DigitsOfEmpty
<1>5. CASE u # <<>>
  <2>1. PICK v \in Seq(Octet), b \in Octet : u = Append(v, b)
    BY <1>5, SequenceEmptyOrAppend
  <2>2. h # <<>>
    BY <1>3, <1>5, EmptySeq
  <2>3. PICK k \in Seq(Seq(Symbol)), l \in Seq(Symbol) : h = Append(k, l)
    BY <2>2, SequenceEmptyOrAppend
  <2>4. /\ Len(v) \in Nat /\ n = Len(v) + 1 /\ Len(k) = Len(v)
        /\ u[Len(v) + 1] = b /\ h[Len(v) + 1] = l
        /\ \A i \in 1..Len(v) : u[i] = v[i] /\ h[i] = k[i]
    <3>1. Len(u) = Len(v) + 1 /\ Len(v) \in Nat /\ u[Len(v) + 1] = b /\ \A i \in 1..Len(v) : u[i] = v[i]
      BY <2>1, AppendProperties, LenProperties
    <3>2. Len(h) = Len(k) + 1 /\ Len(k) \in Nat /\ h[Len(k) + 1] = l /\ \A i \in 1..Len(k) : h[i] = k[i]
      BY <2>3, AppendProperties, LenProperties
    <3> QED
      BY <1>3, <3>1, <3>2
  <2>5. l \in Line(b) /\ Lines(v, k)
    <3>1. \A i \in 1..Len(v) + 1 : h[i] \in Line(u[i])
      BY <1>3, <2>4
    <3>2. h[Len(v) + 1] \in Line(u[Len(v) + 1])
      <4>1. Len(v) + 1 \in 1..Len(v) + 1
        BY <2>4
      <4> HIDE DEF T, Bad, Lines
      <4> QED
        BY <3>1, <4>1
    <3>3. \A i \in 1..Len(v) : h[i] \in Line(u[i])
      BY <2>4, <3>1
    <3> QED
      BY <2>4, <3>2, <3>3
  <2>6. DigitsIn(FlattenSeq(k)) = DigitsOf(v)
    <3>1. Len(v) \in Nat /\ Len(v) \notin T
      <4> HIDE DEF T
      <4> QED
        BY <1>2, <2>4
    <3> QED
      BY <2>4, <2>5, <3>1
  <2>7. FlattenSeq(h) = FlattenSeq(k) \o l /\ FlattenSeq(k) \in Seq(Symbol)
    BY <2>3, FlattenAppend, FlattenType
  <2>8. DigitsIn(FlattenSeq(h)) = DigitsOf(v) \o Digits(b)
    BY <2>5, <2>6, <2>7, DigitsInConcat, DigitsInLine
  <2>9. DigitsOf(u) = DigitsOf(v) \o Digits(b)
    <3>1. u = v \o <<b>> /\ <<b>> \in Seq(Octet)
      BY <2>1, AppendIsConcat
    <3> QED
      BY <3>1, DigitsOfConcat, DigitsOfOne
  <2> QED
    BY <1>3, <2>8, <2>9
<1> QED
  BY <1>4, <1>5

\* hexWriter writes every digit of every byte once, in order.
LEMMA HexEncodeCarries ==
    ASSUME NEW s \in Seq(Octet)
    PROVE  HexEncode(s) \in Seq(Symbol) /\ DigitsIn(HexEncode(s)) = DigitsOf(s)
<1> DEFINE g == [i \in 1..Len(s) |->
                   Digits(s[i]) \o (IF i % HexLine = 0 \/ i = Len(s) THEN <<Newline>> ELSE <<>>)]
<1>1. \A i \in 1..Len(s) : g[i] \in Line(s[i]) /\ g[i] \in Seq(Symbol)
  <2> TAKE i \in 1..Len(s)
  <2>1. s[i] \in Octet
    BY ElementOfSeq
  <2>2. Digits(s[i]) \o <<>> = Digits(s[i])
    BY <2>1, DigitsOfOne, ConcatEmptySeq
  <2>3. g[i] \in Line(s[i])
    BY <2>2 DEF Line
  <2> QED
    BY <2>1, <2>3, DigitsInLine
<1>2. g \in Seq(Seq(Symbol)) /\ Len(g) = Len(s)
  <2>1. Len(s) \in Nat
    BY LenProperties
  <2>2. g \in [1..Len(s) -> Seq(Symbol)]
    BY <1>1
  <2> QED
    BY <2>1, <2>2
<1>3. HexEncode(s) = FlattenSeq(g)
  BY DEF HexEncode
<1> HIDE DEF g
<1> QED
  BY <1>1, <1>2, <1>3, LinesCarry, FlattenType

\* The two digits of a byte make that byte.
LEMMA ByteOfDigits ==
    ASSUME NEW b \in Octet, NEW i, NEW j, i % 2 = 1, j % 2 # 1
    PROVE  Byte(DigitOf(b, i), DigitOf(b, j)) = b
<1>1. b = <<b[1], b[2]>>
  BY DEF Octet
<1>2. DigitOf(b, i) = <<b[1], b[2], "hi">> /\ DigitOf(b, j) = <<b[1], b[2], "lo">>
  BY DEF DigitOf
<1>3. Byte(<<b[1], b[2], "hi">>, <<b[1], b[2], "lo">>) = <<b[1], b[2]>>
  BY DEF Byte
<1> QED
  BY <1>1, <1>2, <1>3

\* A function on 1..n is a sequence of length n.
LEMMA FunctionIsSeq ==
    ASSUME NEW S, NEW n \in Nat, NEW f \in [1..n -> S]
    PROVE  f \in Seq(S) /\ Len(f) = n
OBVIOUS

\* hexReader makes of any number of digits of x half as many bytes of x.
LEMMA HexDecodePrefix ==
    ASSUME NEW x \in Seq(Octet), NEW d \in Seq(Digit), Len(d) <= 2 * Len(x),
           \A i \in 1..Len(d) : d[i] = DigitsOf(x)[i]
    PROVE  HexDecode(d) = SubSeq(x, 1, Len(d) \div 2)
<1> DEFINE n == Len(d) \div 2
<1>1. n \in Nat /\ n <= Len(x) /\ 2 * n <= Len(d) /\ Len(d) \in Nat /\ Len(x) \in Nat
  BY LenProperties
<1>2. \A i \in 1..n : HexDecode(d)[i] = x[i]
  <2> TAKE i \in 1..n
  <2>1. HexDecode(d)[i] = Byte(d[2 * i - 1], d[2 * i])
    BY DEF HexDecode
  <2>2. 2 * i - 1 \in 1..Len(d) /\ 2 * i \in 1..Len(d)
    BY <1>1
  <2>3. (2 * i - 1 + 1) \div 2 = i /\ (2 * i + 1) \div 2 = i /\ (2 * i - 1) % 2 = 1 /\ (2 * i) % 2 # 1
    BY <1>1
  <2>4. d[2 * i - 1] = DigitOf(x[i], 2 * i - 1) /\ d[2 * i] = DigitOf(x[i], 2 * i)
    <3>1. 2 * i - 1 \in 1..2 * Len(x) /\ 2 * i \in 1..2 * Len(x)
      BY <1>1, <2>2
    <3>2. \A j \in 1..2 * Len(x) : DigitsOf(x)[j] = DigitOf(x[(j + 1) \div 2], j)
      BY DigitsOfType
    <3> QED
      BY <2>2, <2>3, <3>1, <3>2
  <2>5. x[i] \in Octet
    BY <1>1, ElementOfSeq
  <2>6. Byte(DigitOf(x[i], 2 * i - 1), DigitOf(x[i], 2 * i)) = x[i]
    BY <2>3, <2>5, ByteOfDigits
  <2> QED
    BY <2>1, <2>4, <2>6
<1>3. \A i \in 1..n : x[i] \in Octet
  BY <1>1, ElementOfSeq
<1>4. /\ SubSeq(x, 1, n) \in Seq(Octet) /\ Len(SubSeq(x, 1, n)) = n
      /\ \A i \in 1..n : SubSeq(x, 1, n)[i] = x[i]
  BY <1>1, <1>3, SubSeqProperties
<1>5. HexDecode(d) \in Seq(Octet) /\ Len(HexDecode(d)) = n
  <2>1. HexDecode(d) \in [1..n -> Octet]
    BY <1>2, <1>3 DEF HexDecode
  <2> QED
    BY <1>1, <2>1, FunctionIsSeq
<1> HIDE DEF n
<1>6. HexDecode(d) = SubSeq(x, 1, n)
  BY <1>2, <1>4, <1>5, SeqEqual
<1> QED
  BY <1>6 DEF n

\* What is written comes out again, however long it is.
THEOREM HexRoundTrip ==
    ASSUME NEW s \in Seq(Octet)
    PROVE  HexDecode(DigitsIn(HexEncode(s))) = s
<1> DEFINE d == DigitsOf(s)
<1>1. DigitsIn(HexEncode(s)) = d /\ d \in Seq(Digit) /\ Len(d) = 2 * Len(s) /\ Len(s) \in Nat
  BY HexEncodeCarries, DigitsOfType, LenProperties
<1>2. HexDecode(d) = SubSeq(s, 1, Len(d) \div 2)
  BY <1>1, HexDecodePrefix
<1> HIDE DEF d
<1>3. Len(d) \div 2 = Len(s)
  BY <1>1
<1> QED
  BY <1>1, <1>2, <1>3, SubSeqFull

-----------------------------------------------------------------------------
(* The packets.                                                            *)

\* All the bytes of packet p.
Size(p) == HeaderSize + JSize[p] + DSize[p]

\* The bytes of a packet are as many as its header says.
LEMMA BytesType ==
    ASSUME NEW p \in Packet
    PROVE  /\ Bytes(p) \in Seq(Octet) /\ Len(Bytes(p)) = Size(p) /\ Size(p) \in Nat /\ Size(p) >= HeaderSize
           /\ \A i \in 1..Size(p) : Bytes(p)[i] = <<p, i>>
<1>1. Size(p) \in Nat /\ Size(p) >= HeaderSize
  BY Assumptions DEF Size, HeaderSize
<1>2. Bytes(p) = [i \in 1..Size(p) |-> <<p, i>>]
  BY DEF Bytes, Size
<1>3. Bytes(p) \in [1..Size(p) -> Octet]
  BY <1>1, <1>2 DEF Octet
<1> QED
  BY <1>1, <1>2, <1>3, FunctionIsSeq

\* A slice that is worth a Write.
Slice == Seq(Octet) \ {<<>>}

\* The slices that writePacket writes are the packet, none of them empty.
LEMMA SlicesJoin ==
    ASSUME NEW p \in Packet
    PROVE  Slices(p) \in Seq(Slice) /\ Slices(p) # <<>> /\ FlattenSeq(Slices(p)) = Bytes(p)
<1> DEFINE b == Bytes(p)
           j == HeaderSize + JSize[p]
           If(s) == IF s = <<>> THEN <<>> ELSE <<s>>
           h == SubSeq(b, 1, HeaderSize)
           k == SubSeq(b, HeaderSize + 1, j)
           l == SubSeq(b, j + 1, j + DSize[p])
<1>1. /\ b \in Seq(Octet) /\ Len(b) = j + DSize[p] /\ j \in Nat /\ DSize[p] \in Nat /\ HeaderSize <= j
      /\ HeaderSize \in Nat /\ HeaderSize > 0
  BY BytesType, Assumptions DEF Size, HeaderSize
<1>2. Slices(p) = (<<h>> \o If(k)) \o If(l)
  BY DEF Slices
<1> HIDE DEF b, j
<1>3. \A i \in 1..Len(b) : b[i] \in Octet
  BY <1>1, ElementOfSeq
<1>4. /\ h \in Seq(Octet) /\ k \in Seq(Octet) /\ l \in Seq(Octet) /\ Len(h) = HeaderSize
  BY <1>1, <1>3, SubSeqProperties
<1>5. (h \o k) \o l = b
  <2>1. h \o k = SubSeq(b, 1, j)
    BY <1>1, ConcatAdjacentSubSeq
  <2>2. SubSeq(b, 1, j) \o l = SubSeq(b, 1, j + DSize[p])
    <3>1. 1 \in 1..Len(b) + 1 /\ j \in 1 - 1..Len(b) /\ j + DSize[p] \in j..Len(b)
      BY <1>1
    <3> QED
      BY <1>1, <3>1, ConcatAdjacentSubSeq
  <2> QED
    BY <1>1, <2>1, <2>2, SubSeqFull
<1>6. h # <<>>
  BY <1>1, <1>4, EmptySeq
<1> HIDE DEF h, k, l
<1>7. /\ <<h>> \in Seq(Slice) /\ If(k) \in Seq(Slice) /\ If(l) \in Seq(Slice)
      /\ <<h>> \in Seq(Seq(Octet)) /\ If(k) \in Seq(Seq(Octet)) /\ If(l) \in Seq(Seq(Octet))
  <2>1. \A s \in Seq(Octet) : If(s) \in Seq(Slice) /\ If(s) \in Seq(Seq(Octet))
    <3> TAKE s \in Seq(Octet)
    <3>1. CASE s = <<>>
      BY <3>1, EmptySeq
    <3>2. CASE s # <<>>
      <4>1. s \in Slice
        BY <3>2 DEF Slice
      <4> QED
        BY <3>2, <4>1
    <3> QED
      BY <3>1, <3>2
  <2>2. h \in Slice
    BY <1>4, <1>6 DEF Slice
  <2> HIDE DEF If
  <2> QED
    BY <1>4, <2>1, <2>2
<1>8. FlattenSeq(<<h>>) = h /\ FlattenSeq(If(k)) = k /\ FlattenSeq(If(l)) = l
  BY FlattenOne, FlattenEmpty
<1> HIDE DEF If
<1>9. <<h>> \o If(k) \in Seq(Seq(Octet)) /\ <<h>> \o If(k) \in Seq(Slice)
  BY <1>7, ConcatProperties
<1>10. FlattenSeq(<<h>> \o If(k)) = h \o k
  BY <1>7, <1>8, FlattenConcat
<1>11. FlattenSeq(Slices(p)) = (h \o k) \o l
  <2>1. FlattenSeq((<<h>> \o If(k)) \o If(l)) = FlattenSeq(<<h>> \o If(k)) \o FlattenSeq(If(l))
    BY <1>7, <1>9, FlattenConcat
  <2> QED
    BY <1>2, <1>8, <1>10, <2>1
<1>12. Slices(p) \in Seq(Slice)
  BY <1>2, <1>7, <1>9, ConcatProperties
<1>13. Slices(p) # <<>>
  <2>1. <<h>> # <<>>
    OBVIOUS
  <2> QED
    BY <1>2, <1>7, <1>9, <2>1, ConcatEqualIffEmpty
<1> QED
  BY <1>5, <1>11, <1>12, <1>13 DEF b

\* A sequence cut in two after n elements.
LEMMA SplitSeq ==
    ASSUME NEW S, NEW s \in Seq(S), NEW n \in 0..Len(s)
    PROVE  /\ SubSeq(s, 1, n) \in Seq(S) /\ Len(SubSeq(s, 1, n)) = n
           /\ SubSeq(s, n + 1, Len(s)) \in Seq(S) /\ Len(SubSeq(s, n + 1, Len(s))) = Len(s) - n
           /\ SubSeq(s, 1, n) \o SubSeq(s, n + 1, Len(s)) = s
           /\ \A i \in 1..n : SubSeq(s, 1, n)[i] = s[i]
           /\ \A i \in 1..Len(s) - n : SubSeq(s, n + 1, Len(s))[i] = s[n + i]
<1>1. Len(s) \in Nat /\ n \in Nat /\ n <= Len(s)
  BY LenProperties
<1>2. \A i \in 1..Len(s) : s[i] \in S
  BY ElementOfSeq
<1>3. /\ SubSeq(s, 1, n) \in Seq(S) /\ Len(SubSeq(s, 1, n)) = n
      /\ \A i \in 1..n : SubSeq(s, 1, n)[i] = s[i]
  BY <1>1, <1>2, SubSeqProperties
<1>4. /\ SubSeq(s, n + 1, Len(s)) \in Seq(S) /\ Len(SubSeq(s, n + 1, Len(s))) = Len(s) - n
      /\ \A i \in 1..Len(s) - n : SubSeq(s, n + 1, Len(s))[i] = s[n + i]
  <2> DEFINE m == n + 1
             l == Len(s)
  <2>1. m \in Int /\ l \in Int /\ \A i \in m..l : s[i] \in S
    BY <1>1, <1>2
  <2> HIDE DEF m, l
  <2>2. /\ SubSeq(s, m, l) \in Seq(S) /\ Len(SubSeq(s, m, l)) = IF m <= l THEN l - m + 1 ELSE 0
        /\ \A i \in 1..l - m + 1 : SubSeq(s, m, l)[i] = s[m + i - 1]
    BY <2>1, SubSeqProperties
  <2>3. \A i \in 1..Len(s) - n : n + 1 + i - 1 = n + i
    BY <1>1
  <2> QED
    BY <1>1, <2>2, <2>3 DEF m, l
<1>5. SubSeq(s, 1, n) \o SubSeq(s, n + 1, Len(s)) = SubSeq(s, 1, Len(s))
  <2>1. 1 \in 1..Len(s) + 1 /\ n \in 1 - 1..Len(s) /\ Len(s) \in n..Len(s)
    BY <1>1
  <2> QED
    BY <2>1, ConcatAdjacentSubSeq
<1>6. SubSeq(s, 1, Len(s)) = s
  BY SubSeqFull
<1> QED
  BY <1>3, <1>4, <1>5, <1>6

\* The first of a list of sequences comes first.
LEMMA FlattenHead ==
    ASSUME NEW S, NEW s \in Seq(Seq(S)), s # <<>>
    PROVE  Head(s) \in Seq(S) /\ Tail(s) \in Seq(Seq(S)) /\ FlattenSeq(s) = Head(s) \o FlattenSeq(Tail(s))
<1>1. Head(s) \in Seq(S) /\ Tail(s) \in Seq(Seq(S))
  BY HeadTailProperties
<1>2. <<Head(s)>> \in Seq(Seq(S)) /\ s = <<Head(s)>> \o Tail(s)
  BY <1>1
<1>3. FlattenSeq(<<Head(s)>> \o Tail(s)) = FlattenSeq(<<Head(s)>>) \o FlattenSeq(Tail(s))
  BY <1>1, <1>2, FlattenConcat
<1> QED
  BY <1>1, <1>2, <1>3, FlattenOne

\* The packets of s that are not in g yet.
Waiting(s, g) == [i \in 1..Len(s) - Len(g) |-> Bytes(s[Len(g) + i])]

\* The packets that are waiting are as many as the sent ones that are not in g.
LEMMA WaitingType ==
    ASSUME NEW s \in Seq(Packet), NEW g \in Seq(Packet), Len(g) <= Len(s)
    PROVE  /\ Waiting(s, g) \in Seq(Seq(Octet)) /\ Len(Waiting(s, g)) = Len(s) - Len(g)
           /\ FlattenSeq(Waiting(s, g)) \in Seq(Octet)
           /\ Len(s) \in Nat /\ Len(g) \in Nat
<1>1. Len(s) \in Nat /\ Len(g) \in Nat /\ Len(s) - Len(g) \in Nat
  BY LenProperties
<1>2. \A i \in 1..Len(s) - Len(g) : Bytes(s[Len(g) + i]) \in Seq(Octet)
  <2> TAKE i \in 1..Len(s) - Len(g)
  <2>1. Len(g) + i \in 1..Len(s)
    BY <1>1
  <2>2. s[Len(g) + i] \in Packet
    BY <2>1, ElementOfSeq
  <2> QED
    BY <2>2, BytesType
<1>3. Waiting(s, g) \in [1..Len(s) - Len(g) -> Seq(Octet)]
  BY <1>2 DEF Waiting
<1>4. Waiting(s, g) \in Seq(Seq(Octet)) /\ Len(Waiting(s, g)) = Len(s) - Len(g)
  BY <1>1, <1>3, FunctionIsSeq
<1> QED
  BY <1>1, <1>4, FlattenType

\* One more packet is sent.
LEMMA WaitingSend ==
    ASSUME NEW s \in Seq(Packet), NEW g \in Seq(Packet), Len(g) <= Len(s), NEW p \in Packet
    PROVE  FlattenSeq(Waiting(Append(s, p), g)) = FlattenSeq(Waiting(s, g)) \o Bytes(p)
<1> DEFINE t == Append(s, p)
           b == Bytes(p)
<1>1. /\ t \in Seq(Packet) /\ Len(t) = Len(s) + 1 /\ \A i \in 1..Len(s) : t[i] = s[i]
      /\ t[Len(s) + 1] = p /\ Len(s) \in Nat /\ Len(g) \in Nat
  BY AppendProperties, LenProperties
<1> HIDE DEF t
<1> DEFINE v == Waiting(s, g)
           w == Waiting(t, g)
<1>2. /\ v \in Seq(Seq(Octet)) /\ Len(v) = Len(s) - Len(g)
      /\ w \in Seq(Seq(Octet)) /\ Len(w) = Len(t) - Len(g)
  <2>1. Len(g) <= Len(t)
    BY <1>1
  <2>2. v \in Seq(Seq(Octet)) /\ Len(v) = Len(s) - Len(g)
    BY WaitingType
  <2>3. w \in Seq(Seq(Octet)) /\ Len(w) = Len(t) - Len(g)
    BY <1>1, <2>1, WaitingType
  <2> QED
    BY <2>2, <2>3
<1>3. b \in Seq(Octet)
  BY BytesType
<1>4. \A i \in 1..Len(s) - Len(g) : w[i] = v[i]
  <2> TAKE i \in 1..Len(s) - Len(g)
  <2>1. Len(g) + i \in 1..Len(s) /\ i \in 1..Len(t) - Len(g)
    BY <1>1
  <2>2. t[Len(g) + i] = s[Len(g) + i]
    BY <1>1, <2>1
  <2> QED
    BY <2>1, <2>2 DEF Waiting
<1>5. w[Len(t) - Len(g)] = b
  <2>1. Len(t) - Len(g) \in 1..Len(t) - Len(g) /\ Len(g) + (Len(t) - Len(g)) = Len(s) + 1
    BY <1>1
  <2>2. w[Len(t) - Len(g)] = Bytes(t[Len(g) + (Len(t) - Len(g))])
    BY <2>1 DEF Waiting
  <2> QED
    BY <1>1, <2>1, <2>2
<1>6. \A i \in 1..Len(s) - Len(g) + 1 : w[i] = IF i <= Len(s) - Len(g) THEN v[i] ELSE b
  <2> TAKE i \in 1..Len(s) - Len(g) + 1
  <2>1. Len(t) - Len(g) = Len(s) - Len(g) + 1
    BY <1>1
  <2>2. i \in 1..Len(s) - Len(g) \/ (i = Len(t) - Len(g) /\ ~(i <= Len(s) - Len(g)))
    BY <1>1, <2>1
  <2> HIDE DEF v, w, b
  <2> QED
    BY <1>4, <1>5, <2>2
<1> HIDE DEF v, w, b
<1>7. w = Append(v, b)
  <2> DEFINE c == Append(v, b)
  <2>1. /\ c \in Seq(Seq(Octet)) /\ Len(c) = Len(v) + 1 /\ \A i \in 1..Len(v) : c[i] = v[i]
        /\ c[Len(v) + 1] = b /\ Len(v) \in Nat
    BY <1>2, <1>3, AppendProperties, LenProperties
  <2> HIDE DEF c
  <2>2. Len(w) = Len(c)
    BY <1>1, <1>2, <2>1
  <2>3. \A i \in 1..Len(w) : w[i] = c[i]
    <3> TAKE i \in 1..Len(w)
    <3>1. i \in 1..Len(v) + 1 /\ (i \in 1..Len(v) \/ i = Len(v) + 1)
      BY <1>1, <1>2, <2>1
    <3>2. w[i] = IF i <= Len(v) THEN v[i] ELSE b
      BY <1>2, <1>6, <3>1
    <3> QED
      BY <2>1, <3>1, <3>2
  <2>4. w = c
    BY <1>2, <2>1, <2>2, <2>3, SeqEqual
  <2> QED
    BY <2>4 DEF c
<1>8. FlattenSeq(w) = FlattenSeq(v) \o b
  BY <1>2, <1>3, <1>7, FlattenAppend
<1> QED
  BY <1>8 DEF v, w, b, t

\* The first of them, and what is waiting when it was received.
LEMMA WaitingReceive ==
    ASSUME NEW s \in Seq(Packet), NEW g \in Seq(Packet), Len(g) < Len(s), NEW q \in Packet
    PROVE  /\ s[Len(g) + 1] \in Packet
           /\ FlattenSeq(Waiting(s, g)) = Bytes(s[Len(g) + 1]) \o FlattenSeq(Waiting(s, Append(g, q)))
<1> DEFINE h == Append(g, q)
           v == Waiting(s, g)
           w == Waiting(s, h)
<1>1. h \in Seq(Packet) /\ Len(h) = Len(g) + 1 /\ Len(s) \in Nat /\ Len(g) \in Nat
  BY AppendProperties, LenProperties
<1> HIDE DEF h
<1>2. /\ v \in Seq(Seq(Octet)) /\ Len(v) = Len(s) - Len(g)
      /\ w \in Seq(Seq(Octet)) /\ Len(w) = Len(s) - Len(h)
  BY <1>1, WaitingType
<1>3. v # <<>> /\ v[1] = Bytes(s[Len(g) + 1])
  <2>1. 1 \in 1..Len(s) - Len(g)
    BY <1>1
  <2>2. v[1] = Bytes(s[Len(g) + 1])
    BY <2>1 DEF Waiting
  <2> HIDE DEF v
  <2>3. v # <<>>
    BY <1>1, <1>2, <2>1, EmptySeq
  <2> QED
    BY <2>2, <2>3
<1>4. \A i \in 1..Len(w) : w[i] = v[i + 1]
  <2> TAKE i \in 1..Len(w)
  <2>1. i \in 1..Len(s) - Len(h) /\ i + 1 \in 1..Len(s) - Len(g) /\ Len(h) + i = Len(g) + (i + 1)
    BY <1>1, <1>2
  <2> QED
    BY <2>1 DEF Waiting
<1> HIDE DEF v, w
<1>5. Tail(v) = w /\ Head(v) = v[1]
  <2>1. /\ Tail(v) \in Seq(Seq(Octet)) /\ Len(Tail(v)) = Len(v) - 1
        /\ \A i \in 1..Len(Tail(v)) : Tail(v)[i] = v[i + 1]
    BY <1>2, <1>3, HeadTailProperties
  <2>2. Len(Tail(v)) = Len(w)
    BY <1>1, <1>2, <2>1
  <2> DEFINE u == Tail(v)
  <2>4. u \in Seq(Seq(Octet)) /\ Len(u) = Len(w) /\ \A i \in 1..Len(u) : u[i] = w[i]
    BY <1>4, <2>1, <2>2
  <2> HIDE DEF u
  <2>5. u = w
    BY <1>2, <2>4, SeqEqual
  <2>3. Tail(v) = w
    BY <2>5 DEF u
  <2> QED
    BY <1>2, <2>3
<1>6. FlattenSeq(v) = Head(v) \o FlattenSeq(Tail(v))
  BY <1>2, <1>3, FlattenHead
<1>7. s[Len(g) + 1] \in Packet
  BY <1>1, ElementOfSeq
<1> QED
  BY <1>3, <1>5, <1>6, <1>7 DEF v, w, h

\* Sequences that make up the same one agree as far as both go.
LEMMA CommonPrefix ==
    ASSUME NEW S, NEW a \in Seq(S), NEW b \in Seq(S), NEW y \in Seq(S), NEW z \in Seq(S),
           a \o y = b \o z, Len(a) <= Len(b)
    PROVE  /\ \A i \in 1..Len(a) : a[i] = b[i]
           /\ Len(a) = Len(b) => a = b /\ y = z
<1>1. Len(a) \in Nat /\ Len(b) \in Nat
  BY LenProperties
<1>2. (\A i \in 1..Len(a) : (a \o y)[i] = a[i]) /\ (\A i \in 1..Len(b) : (b \o z)[i] = b[i])
  BY ConcatRight
<1>3. \A i \in 1..Len(a) : a[i] = b[i]
  BY <1>1, <1>2
<1>4. ASSUME Len(a) = Len(b) PROVE a = b /\ y = z
  <2>1. a = b
    BY <1>3, <1>4, SeqEqual
  <2> QED
    BY <2>1, ConcatSimplifications
<1> QED
  BY <1>3, <1>4

-----------------------------------------------------------------------------
(* The invariant.                                                          *)

\* What kind each variable is of.
Kinds ==
    /\ layer \in Layer /\ wmu \in Writer \cup {NoWriter}
    /\ unsent \in [Writer -> Seq(Packet)] /\ out \in [Writer -> Seq(Slice)]
    /\ enonce \in Nat /\ dnonce \in Nat /\ dnonce <= enonce
    /\ cut \in BOOLEAN /\ failed \in BOOLEAN
    /\ acc \in Seq(Octet) /\ rbuf \in Seq(Octet) /\ hi \in Seq(Digit)
    /\ sent \in Seq(Packet) /\ got \in Seq(Packet)

\* Who has slices to write holds the lock.
Turns ==
    \A w \in Writer :
        /\ Len(unsent[w]) <= Len(ToSend[w])
        /\ out[w] # <<>> => wmu = w /\ Len(unsent[w]) < Len(ToSend[w])

\* The records on their way have the nonces that the reader expects.
Record == {r \in Nat \X Slice : Len(r[2]) <= MaxPlaintext}
Records ==
    /\ net \in Seq(Record) /\ Len(rbuf) <= MaxPlaintext
    /\ dnonce + Len(net) <= enonce /\ (~cut => dnonce + Len(net) = enonce)
    /\ \A i \in 1..Len(net) : net[i][1] = dnonce + (i - 1)

\* What each stream has on its way, and the buffers of the others empty.
Layers ==
    /\ layer = "plain" => net \in Seq(Octet)
    /\ layer = "hex" => net \in Seq(Symbol) /\ Len(hi) <= 1
    /\ layer = "secure" => Records
    /\ layer # "hex" => hi = <<>>
    /\ layer # "secure" => rbuf = <<>>

\* The reader never goes beyond the packet it is in.
Within ==
    /\ Len(got) <= Len(sent)
    /\ acc # <<>> => Len(got) < Len(sent) /\ Len(acc) <= Size(sent[Len(got) + 1])

\* The bytes y begin with d, which are on their way as they are or as hex
\* digits; the rest is u unless the connection is broken.
Raw(d, u, broken, y) == \E c \in Seq(Octet) : y = d \o c /\ (~broken => c = u)
Hex(d, u, broken, y) == \E c \in Seq(Digit) : DigitsOf(y) = d \o c /\ (~broken => c = DigitsOf(u))

\* The bytes y are those that the reader has still to get.
Holds(y) ==
    IF layer = "hex" THEN Hex(hi \o DigitsIn(net), Unwritten, cut, y)
    ELSE Raw(Decoded, Unwritten, cut, y)

\* What the reader has of its packet and the bytes y are all that is pending.
MakeUp(a, y, p) == a \o y = p
Exact == \E y \in Seq(Octet) : MakeUp(acc, y, Pending) /\ Holds(y)

WireInv == Kinds /\ Turns /\ Layers /\ Within /\ Exact

\* The streams are these three.
LEMMA Layered == Layer \subseteq {"plain", "secure", "hex"}
BY Assumptions

\* Seq of a subset.
LEMMA SeqSubset ==
    ASSUME NEW S, NEW T, S \subseteq T
    PROVE  Seq(S) \subseteq Seq(T)
OBVIOUS

\* Slices are strings of bytes.
LEMMA SlicesAreSeqs == Seq(Slice) \subseteq Seq(Seq(Octet))
BY SeqSubset DEF Slice

\* What is pending is what waits, before a step and after it.
LEMMA PendingIs ==
    /\ Pending = FlattenSeq(Waiting(sent, got))
    /\ Pending' = FlattenSeq(Waiting(sent', got'))
BY DEF Pending, Waiting

\* The slices in hand are bytes.
LEMMA UnwrittenType ==
    ASSUME Kinds
    PROVE  Unwritten \in Seq(Octet)
<1>1. CASE wmu = NoWriter
  BY <1>1, EmptySeq DEF Unwritten
<1>2. CASE wmu # NoWriter
  <2>1. out[wmu] \in Seq(Seq(Octet))
    BY <1>2, SlicesAreSeqs DEF Kinds
  <2> QED
    BY <1>2, <2>1, FlattenType DEF Unwritten
<1> QED
  BY <1>1, <1>2

\* What the records s carry.
Plaintexts(s) == [i \in 1..Len(s) |-> s[i][2]]

\* Every record has its plaintext.
LEMMA PlaintextsType ==
    ASSUME NEW s \in Seq(Record)
    PROVE  Plaintexts(s) \in Seq(Seq(Octet)) /\ Len(Plaintexts(s)) = Len(s)
<1>1. \A i \in 1..Len(s) : s[i][2] \in Seq(Octet)
  <2> TAKE i \in 1..Len(s)
  <2>1. s[i] \in Record
    BY ElementOfSeq
  <2> QED
    BY <2>1 DEF Record, Slice
<1>2. Len(s) \in Nat
  BY LenProperties
<1>3. Plaintexts(s) \in [1..Len(s) -> Seq(Octet)]
  BY <1>1 DEF Plaintexts
<1> QED
  BY <1>2, <1>3, FunctionIsSeq

\* The plaintexts of two lists of records, one after the other.
LEMMA PlaintextsConcat ==
    ASSUME NEW s \in Seq(Record), NEW t \in Seq(Record)
    PROVE  FlattenSeq(Plaintexts(s \o t)) = FlattenSeq(Plaintexts(s)) \o FlattenSeq(Plaintexts(t))
<1> DEFINE u == s \o t
           a == Plaintexts(s)
           b == Plaintexts(t)
           c == Plaintexts(u)
<1>1. /\ u \in Seq(Record) /\ Len(u) = Len(s) + Len(t)
      /\ \A i \in 1..Len(s) : u[i] = s[i]
      /\ \A i \in 1..Len(t) : u[Len(s) + i] = t[i]
      /\ Len(s) \in Nat /\ Len(t) \in Nat
  BY ConcatProperties, ConcatRight, LenProperties
<1> HIDE DEF u
<1>2. /\ a \in Seq(Seq(Octet)) /\ Len(a) = Len(s)
      /\ b \in Seq(Seq(Octet)) /\ Len(b) = Len(t)
      /\ c \in Seq(Seq(Octet)) /\ Len(c) = Len(u)
  BY <1>1, PlaintextsType
<1>3. \A i \in 1..Len(s) : c[i] = a[i]
  BY <1>1 DEF Plaintexts
<1>4. \A i \in 1..Len(t) : c[Len(s) + i] = b[i]
  <2> TAKE i \in 1..Len(t)
  <2>1. Len(s) + i \in 1..Len(u)
    BY <1>1
  <2> QED
    BY <1>1, <2>1 DEF Plaintexts
<1> HIDE DEF a, b, c
<1>5. c = a \o b
  <2>1. Len(c) = Len(a) + Len(b)
    BY <1>1, <1>2
  <2>2. (\A i \in 1..Len(a) : c[i] = a[i]) /\ \A i \in 1..Len(b) : c[Len(a) + i] = b[i]
    BY <1>2, <1>3, <1>4
  <2> QED
    BY <1>2, <2>1, <2>2, ConcatIs
<1>6. FlattenSeq(a \o b) = FlattenSeq(a) \o FlattenSeq(b)
  BY <1>2, FlattenConcat
<1> QED
  BY <1>5, <1>6 DEF a, b, c, u

\* The plaintext of one record.
LEMMA PlaintextsOne ==
    ASSUME NEW r
    PROVE  FlattenSeq(Plaintexts(<<r>>)) = r[2]
<1>1. Plaintexts(<<r>>) = <<r[2]>>
  BY DEF Plaintexts
<1> QED
  BY <1>1, FlattenOne

\* What is on its way, on the connection itself and in records.
LEMMA DecodedIs ==
    /\ layer = "plain" => Decoded = net
    /\ layer' = "plain" => Decoded' = net'
    /\ layer = "secure" => Decoded = rbuf \o FlattenSeq(Plaintexts(net))
    /\ layer' = "secure" => Decoded' = rbuf' \o FlattenSeq(Plaintexts(net'))
BY DEF Decoded, Plaintexts

\* What is on its way is bytes.
LEMMA DecodedType ==
    ASSUME Kinds, Layers, layer # "hex"
    PROVE  Decoded \in Seq(Octet)
<1>1. CASE layer = "plain"
  BY <1>1, DecodedIs DEF Layers
<1>2. CASE layer = "secure"
  <2>1. net \in Seq(Record)
    BY <1>2 DEF Layers, Records
  <2>2. FlattenSeq(Plaintexts(net)) \in Seq(Octet)
    BY <2>1, PlaintextsType, FlattenType
  <2> QED
    BY <1>2, <2>2, DecodedIs, ConcatProperties DEF Kinds
<1> QED
  BY <1>1, <1>2, Layered DEF Kinds

-----------------------------------------------------------------------------
(* What the steps do to the bytes on their way.                            *)

\* Bytes and digits are joined in any order.
LEMMA Associative ==
    /\ \A a, b, c \in Seq(Octet) : a \o (b \o c) = (a \o b) \o c
    /\ \A a, b, c \in Seq(Digit) : a \o (b \o c) = (a \o b) \o c
BY AnyAssociative

\* A writer that takes the lock adds its packet, e, at the end.
LEMMA RawMore ==
    ASSUME NEW d \in Seq(Octet), NEW u, NEW broken, NEW y \in Seq(Octet), Raw(d, u, broken, y),
           ~broken => u = <<>>, NEW e \in Seq(Octet)
    PROVE  Raw(d, e, broken, y \o e)
<1>1. PICK c \in Seq(Octet) : y = d \o c /\ (~broken => c = u)
  BY DEF Raw
<1>2. y \o e = d \o (c \o e) /\ c \o e \in Seq(Octet)
  BY <1>1, ConcatAssociative, ConcatProperties
<1>3. ~broken => c \o e = e
  BY <1>1, ConcatEmptySeq
<1> QED
  BY <1>2, <1>3 DEF Raw

\* The same in hex.
LEMMA HexMore ==
    ASSUME NEW d \in Seq(Digit), NEW u, NEW broken, NEW y \in Seq(Octet), Hex(d, u, broken, y),
           ~broken => u = <<>>, NEW e \in Seq(Octet)
    PROVE  Hex(d, e, broken, y \o e)
<1>1. PICK c \in Seq(Digit) : DigitsOf(y) = d \o c /\ (~broken => c = DigitsOf(u))
  BY DEF Hex
<1>2. DigitsOf(e) \in Seq(Digit) /\ DigitsOf(y \o e) = (d \o c) \o DigitsOf(e)
  BY <1>1, DigitsOfType, DigitsOfConcat
<1>3. (d \o c) \o DigitsOf(e) = d \o (c \o DigitsOf(e)) /\ c \o DigitsOf(e) \in Seq(Digit)
  BY <1>2, ConcatAssociative, ConcatProperties
<1>4. ~broken => c \o DigitsOf(e) = DigitsOf(e)
  BY <1>1, <1>2, DigitsOfEmpty, ConcatEmptySeq
<1> QED
  BY <1>2, <1>3, <1>4 DEF Hex

\* What is written, a, goes from the writer to the network.
LEMMA RawMove ==
    ASSUME NEW d \in Seq(Octet), NEW a \in Seq(Octet), NEW u \in Seq(Octet), NEW y, Raw(d, a \o u, FALSE, y)
    PROVE  Raw(d \o a, u, FALSE, y)
<1>1. y = d \o (a \o u)
  BY DEF Raw
<1>2. y = (d \o a) \o u
  BY <1>1, ConcatAssociative
<1> QED
  BY <1>2 DEF Raw

\* The same in hex: its digits go there.
LEMMA HexMove ==
    ASSUME NEW d \in Seq(Digit), NEW a \in Seq(Octet), NEW u \in Seq(Octet), NEW y, Hex(d, a \o u, FALSE, y)
    PROVE  Hex(d \o DigitsOf(a), u, FALSE, y)
<1>1. DigitsOf(y) = d \o DigitsOf(a \o u)
  BY DEF Hex
<1>2. /\ DigitsOf(a \o u) = DigitsOf(a) \o DigitsOf(u)
      /\ DigitsOf(a) \in Seq(Digit) /\ DigitsOf(u) \in Seq(Digit)
  BY DigitsOfConcat, DigitsOfType
<1>3. d \o (DigitsOf(a) \o DigitsOf(u)) = (d \o DigitsOf(a)) \o DigitsOf(u)
  <2> DEFINE p == DigitsOf(a)
             q == DigitsOf(u)
  <2>1. p \in Seq(Digit) /\ q \in Seq(Digit)
    BY <1>2
  <2> HIDE DEF p, q
  <2>2. d \o (p \o q) = (d \o p) \o q
    BY <2>1, Associative
  <2> QED
    BY <2>2 DEF p, q
<1>4. DigitsOf(y) = (d \o DigitsOf(a)) \o DigitsOf(u)
  BY <1>1, <1>2, <1>3
<1> QED
  BY <1>2, <1>4 DEF Hex

\* What is lost when the connection breaks, b, is lost at the end.
LEMMA RawBreak ==
    ASSUME NEW a \in Seq(Octet), NEW b \in Seq(Octet), NEW u, NEW v, NEW broken, NEW y,
           Raw(a \o b, u, broken, y)
    PROVE  Raw(a, v, TRUE, y)
<1>1. PICK c \in Seq(Octet) : y = (a \o b) \o c
  BY DEF Raw
<1>2. y = a \o (b \o c) /\ b \o c \in Seq(Octet)
  BY <1>1, ConcatAssociative, ConcatProperties
<1> QED
  BY <1>2 DEF Raw

\* The same in hex.
LEMMA HexBreak ==
    ASSUME NEW a \in Seq(Digit), NEW b \in Seq(Digit), NEW u, NEW v, NEW broken, NEW y,
           Hex(a \o b, u, broken, y)
    PROVE  Hex(a, v, TRUE, y)
<1>1. PICK c \in Seq(Digit) : DigitsOf(y) = (a \o b) \o c
  BY DEF Hex
<1>2. DigitsOf(y) = a \o (b \o c) /\ b \o c \in Seq(Digit)
  BY <1>1, ConcatAssociative, ConcatProperties
<1> QED
  BY <1>2 DEF Hex

\* The reader takes the first bytes, a, and the others stay.
LEMMA RawTake ==
    ASSUME NEW a \in Seq(Octet), NEW b \in Seq(Octet), NEW u, NEW broken, NEW y, Raw(a \o b, u, broken, y)
    PROVE  \E z \in Seq(Octet) : y = a \o z /\ Raw(b, u, broken, z)
<1>1. PICK c \in Seq(Octet) : y = (a \o b) \o c /\ (~broken => c = u)
  BY DEF Raw
<1>2. y = a \o (b \o c) /\ b \o c \in Seq(Octet)
  BY <1>1, ConcatAssociative, ConcatProperties
<1>3. Raw(b, u, broken, b \o c)
  BY <1>1 DEF Raw
<1> QED
  BY <1>2, <1>3

\* The digits a make bytes, and half a byte is left of an odd number.
Half(a) == IF Len(a) % 2 = 1 THEN <<Last(a)>> ELSE <<>>

\* Half of a byte is what is left after the whole ones.
LEMMA HalfIs ==
    ASSUME NEW a \in Seq(Digit)
    PROVE  /\ Half(a) = SubSeq(a, 2 * (Len(a) \div 2) + 1, Len(a))
           /\ Half(a) \in Seq(Digit) /\ Len(Half(a)) <= 1
<1> DEFINE n == 2 * (Len(a) \div 2)
<1>1. /\ Len(a) \in Nat /\ n \in 0..Len(a)
      /\ (Len(a) % 2 = 1 => n + 1 = Len(a)) /\ (Len(a) % 2 # 1 => n = Len(a))
  BY LenProperties
<1> DEFINE r == SubSeq(a, n + 1, Len(a))
<1>2. r \in Seq(Digit) /\ Len(r) = Len(a) - n /\ \A i \in 1..Len(a) - n : r[i] = a[n + i]
  BY <1>1, SplitSeq
<1> HIDE DEF n, r
<1>3. CASE Len(a) % 2 = 1
  <2> DEFINE h == <<Last(a)>>
  <2>1. a[Len(a)] \in Digit
    BY <1>1, <1>3, ElementOfSeq
  <2>2. h \in Seq(Digit) /\ Len(h) = 1 /\ h[1] = a[Len(a)]
    BY <2>1 DEF Last
  <2>3. Len(r) = 1 /\ r[1] = a[Len(a)]
    BY <1>1, <1>2, <1>3
  <2> HIDE DEF h
  <2>4. h = r
    BY <1>2, <2>2, <2>3, SeqEqual
  <2> QED
    BY <1>3, <2>2, <2>4 DEF Half, n, r, h
<1>4. CASE Len(a) % 2 # 1
  <2>1. r = <<>>
    BY <1>1, <1>2, <1>4, EmptySeq
  <2> QED
    BY <1>4, <2>1, EmptySeq DEF Half, n, r
<1> QED
  BY <1>3, <1>4

\* hexReader makes bytes of the digits a, and keeps half of a byte for the next time.
LEMMA HexTake ==
    ASSUME NEW a \in Seq(Digit), NEW b \in Seq(Digit), NEW u, NEW broken, NEW y \in Seq(Octet),
           Hex(a \o b, u, broken, y)
    PROVE  \E z \in Seq(Octet) :
              y = HexDecode(a) \o z /\ HexDecode(a) \in Seq(Octet)
              /\ Len(HexDecode(a)) = Len(a) \div 2 /\ Hex(Half(a) \o b, u, broken, z)
<1>1. PICK c \in Seq(Digit) : DigitsOf(y) = (a \o b) \o c /\ (~broken => c = DigitsOf(u))
  BY DEF Hex
<1> DEFINE t == b \o c
           g == DigitsOf(y)
<1>2. g = a \o t /\ t \in Seq(Digit) /\ a \o b \in Seq(Digit)
  BY <1>1, ConcatAssociative, ConcatProperties
<1>3. /\ Len(a) \in Nat /\ Len(y) \in Nat /\ g \in Seq(Digit) /\ Len(g) = 2 * Len(y)
      /\ Len(a) <= 2 * Len(y)
  <2>1. g \in Seq(Digit) /\ Len(g) = 2 * Len(y)
    BY DigitsOfType
  <2> HIDE DEF g, t
  <2>2. Len(g) = Len(a) + Len(t) /\ Len(t) \in Nat /\ Len(a) \in Nat /\ Len(y) \in Nat
    BY <1>2, ConcatProperties, LenProperties
  <2> QED
    BY <2>1, <2>2
<1>4. \A i \in 1..Len(a) : a[i] = DigitsOf(y)[i]
  <2> HIDE DEF t
  <2> QED
    BY <1>2, ConcatRight
<1> DEFINE m == Len(a) \div 2
           s == SubSeq(y, 1, m)
           z == SubSeq(y, m + 1, Len(y))
<1>5. m \in 0..Len(y) /\ 2 * m \in 0..Len(a)
  BY <1>3
<1>6. HexDecode(a) = s
  BY <1>3, <1>4, HexDecodePrefix
<1>7. s \in Seq(Octet) /\ Len(s) = m /\ z \in Seq(Octet) /\ s \o z = y
  BY <1>5, SplitSeq
<1> DEFINE e == SubSeq(a, 1, 2 * m)
           h == SubSeq(a, 2 * m + 1, Len(a))
<1>8. e \in Seq(Digit) /\ Len(e) = 2 * m /\ h \in Seq(Digit) /\ e \o h = a
  BY <1>5, SplitSeq
<1>9. h = Half(a)
  BY HalfIs
<1> DEFINE p == DigitsOf(s)
           q == DigitsOf(z)
<1> HIDE DEF s, z, e, h, m
<1>10. p \in Seq(Digit) /\ Len(p) = 2 * m /\ q \in Seq(Digit) /\ g = p \o q
  BY <1>7, DigitsOfType, DigitsOfConcat
<1> HIDE DEF g, t, p, q
<1>11. g = e \o (h \o t) /\ h \o t \in Seq(Digit)
  <2>1. (e \o h) \o t = e \o (h \o t)
    <3>1. e \in Seq(Digit) /\ h \in Seq(Digit) /\ t \in Seq(Digit)
      BY <1>2, <1>8
    <3> QED
      BY <3>1, Associative
  <2>2. g = e \o (h \o t)
    BY <1>2, <1>8, <2>1
  <2> QED
    BY <1>2, <1>8, <2>2, ConcatProperties
<1>12. q = h \o t
  <2> DEFINE v == h \o t
  <2>1. v \in Seq(Digit) /\ p \o q = e \o v /\ Len(p) = Len(e) /\ Len(p) <= Len(e)
    BY <1>5, <1>8, <1>10, <1>11
  <2> HIDE DEF v
  <2>2. q = v
    BY <1>8, <1>10, <2>1, CommonPrefix
  <2> QED
    BY <2>2 DEF v
<1>13. h \o t = (h \o b) \o c
  <2>1. h \o (b \o c) = (h \o b) \o c
    <3> HIDE DEF t
    <3>1. h \in Seq(Digit)
      BY <1>8
    <3> QED
      BY <3>1, Associative
  <2> QED
    BY <2>1 DEF t
<1>14. Hex(Half(a) \o b, u, broken, z)
  BY <1>1, <1>9, <1>12, <1>13 DEF Hex, q
<1> QED
  BY <1>6, <1>7, <1>14 DEF m

\* What is to be shown of a step: the bytes z are those still to come.
LEMMA ExactNext ==
    ASSUME NEW z \in Seq(Octet), MakeUp(acc', z, Pending'),
           layer' = "hex" => Hex(hi' \o DigitsIn(net'), Unwritten', cut', z),
           layer' # "hex" => Raw(Decoded', Unwritten', cut', z)
    PROVE  Exact'
BY DEF Exact, Holds

-----------------------------------------------------------------------------
(* The invariant holds at first.                                           *)

\* At first nothing is sent and nothing on its way.
LEMMA InitHolds == WireInit => WireInv
<1> SUFFICES ASSUME WireInit PROVE WireInv
  OBVIOUS
<1>0. \A S : <<>> \in Seq(S)
  OBVIOUS
<1>1. Kinds
  <2>1. out \in [Writer -> Seq(Slice)]
    <3>1. <<>> \in Seq(Slice)
      BY <1>0
    <3> QED
      BY <3>1 DEF WireInit
  <2>2. /\ acc \in Seq(Octet) /\ rbuf \in Seq(Octet) /\ hi \in Seq(Digit)
        /\ sent \in Seq(Packet) /\ got \in Seq(Packet)
    BY <1>0 DEF WireInit
  <2>3. layer \in Layer /\ wmu = NoWriter /\ unsent \in [Writer -> Seq(Packet)]
    BY Assumptions DEF WireInit
  <2>4. enonce \in Nat /\ dnonce \in Nat /\ dnonce <= enonce
    BY DEF WireInit
  <2>5. cut \in BOOLEAN /\ failed \in BOOLEAN
    BY DEF WireInit
  <2> QED
    BY <2>1, <2>2, <2>3, <2>4, <2>5 DEF Kinds
<1>2. Turns
  <2> SUFFICES ASSUME NEW w \in Writer
               PROVE  /\ Len(unsent[w]) <= Len(ToSend[w])
                      /\ out[w] # <<>> => wmu = w /\ Len(unsent[w]) < Len(ToSend[w])
    BY DEF Turns
  <2>1. unsent[w] = ToSend[w] /\ out[w] = <<>> /\ Len(ToSend[w]) \in Nat
    BY Assumptions DEF WireInit
  <2> QED
    BY <2>1
<1>3. Layers
  <2>1. Len(<<>>) = 0 /\ 0 <= MaxPlaintext
    BY Assumptions
  <2> QED
    BY <2>1, EmptySeq DEF WireInit, Layers, Records
<1>4. Within
  BY DEF WireInit, Within
<1>5. Exact
  <2>1. Pending = <<>>
    <3>1. Waiting(<<>>, <<>>) = <<>>
      BY DEF Waiting
    <3> QED
      BY <3>1, PendingIs, FlattenEmpty DEF WireInit
  <2>2. Unwritten = <<>>
    BY DEF WireInit, Unwritten
  <2>3. <<>> \o <<>> = <<>>
    OBVIOUS
  <2>4. ASSUME layer = "hex" PROVE Holds(<<>>)
    <3>1. DigitsOf(<<>>) = <<>> /\ hi \o DigitsIn(net) = <<>>
      BY <2>3, DigitsOfEmpty, DigitsInOne DEF WireInit
    <3>2. Hex(<<>>, <<>>, cut, <<>>)
      BY <1>0, <2>3, <3>1 DEF Hex
    <3> QED
      BY <2>2, <2>4, <3>1, <3>2 DEF Holds
  <2>5. ASSUME layer # "hex" PROVE Holds(<<>>)
    <3>1. Decoded = <<>>
      <4>1. Plaintexts(<<>>) = <<>>
        BY DEF Plaintexts
      <4>2. net = <<>> /\ rbuf = <<>> /\ (layer = "plain" \/ layer = "secure")
        BY <2>5, Layered DEF WireInit
      <4>3. CASE layer = "plain"
        BY <4>2, <4>3, DecodedIs
      <4>4. CASE layer = "secure"
        <5>1. Decoded = <<>> \o FlattenSeq(Plaintexts(<<>>))
          BY <4>2, <4>4, DecodedIs
        <5> QED
          BY <2>3, <4>1, <5>1, FlattenEmpty
      <4> QED
        BY <4>2, <4>3, <4>4
    <3>2. Raw(<<>>, <<>>, cut, <<>>)
      BY <1>0, <2>3 DEF Raw
    <3> QED
      BY <2>2, <2>5, <3>1, <3>2 DEF Holds
  <2>6. Holds(<<>>)
    BY <2>4, <2>5
  <2>7. acc = <<>> /\ <<>> \in Seq(Octet)
    BY <1>0 DEF WireInit
  <2>8. MakeUp(acc, <<>>, Pending)
    BY <2>1, <2>3, <2>7 DEF MakeUp
  <2> QED
    BY <2>6, <2>7, <2>8 DEF Exact
<1> QED
  BY <1>1, <1>2, <1>3, <1>4, <1>5 DEF WireInv

-----------------------------------------------------------------------------
(* Every step of a writer keeps it.                                        *)

\* A writer takes the lock with a whole packet, at the end of all that is sent.
LEMMA LockKeeps ==
    ASSUME WireInv, NEW w \in Writer, Lock(w)
    PROVE  WireInv'
<1> DEFINE p == Head(unsent[w])
<1>1. /\ p \in Packet /\ Tail(unsent[w]) \in Seq(Packet)
      /\ Len(unsent[w]) \in Nat /\ Len(Tail(unsent[w])) = Len(unsent[w]) - 1
  <2>1. unsent[w] \in Seq(Packet) /\ unsent[w] # <<>>
    BY DEF WireInv, Kinds, Lock
  <2> QED
    BY <2>1, HeadTailProperties, LenProperties
<1>2. Slices(p) \in Seq(Slice) /\ FlattenSeq(Slices(p)) = Bytes(p) /\ Bytes(p) \in Seq(Octet)
  BY <1>1, SlicesJoin, BytesType
<1>3. /\ wmu = NoWriter /\ wmu' = w /\ w # NoWriter
      /\ out' = [out EXCEPT ![w] = Slices(p)]
      /\ unsent' = [unsent EXCEPT ![w] = Tail(unsent[w])]
      /\ sent' = Append(sent, p)
      /\ UNCHANGED <<layer, enonce, net, cut, dnonce, rbuf, hi, acc, failed, got>>
  BY Assumptions DEF Lock, readVars
<1>4. sent' \in Seq(Packet) /\ Len(sent') = Len(sent) + 1 /\ \A i \in 1..Len(sent) : sent'[i] = sent[i]
  BY <1>1, <1>3, AppendProperties DEF WireInv, Kinds
<1> HIDE DEF p
<1>5. Kinds'
  BY <1>1, <1>2, <1>3, <1>4 DEF WireInv, Kinds
<1>6. Turns'
  <2> SUFFICES ASSUME NEW v \in Writer
               PROVE  /\ Len(unsent'[v]) <= Len(ToSend[v])
                      /\ out'[v] # <<>> => wmu' = v /\ Len(unsent'[v]) < Len(ToSend[v])
    BY DEF Turns
  <2>1. Len(unsent[v]) <= Len(ToSend[v]) /\ (out[v] # <<>> => wmu = v) /\ Len(ToSend[v]) \in Nat
    BY Assumptions DEF WireInv, Turns
  <2>2. CASE v = w
    <3>1. Len(unsent'[v]) = Len(unsent[w]) - 1
      BY <1>1, <1>3, <2>2 DEF WireInv, Kinds
    <3> QED
      BY <1>1, <1>3, <2>1, <2>2, <3>1
  <2>3. CASE v # w
    <3>1. unsent'[v] = unsent[v] /\ out'[v] = out[v] /\ v # NoWriter
      BY <1>3, <2>3, Assumptions DEF WireInv, Kinds
    <3> QED
      BY <1>3, <2>1, <3>1
  <2> QED
    BY <2>2, <2>3
<1>7. Layers'
  BY <1>3 DEF WireInv, Layers, Records
<1>8. Within'
  <2>1. Len(sent) \in Nat /\ Len(got) \in Nat
    BY DEF WireInv, Kinds
  <2>2. acc # <<>> => sent'[Len(got) + 1] = sent[Len(got) + 1]
    BY <1>4, <2>1 DEF WireInv, Within
  <2> QED
    BY <1>3, <1>4, <2>1, <2>2 DEF WireInv, Within
<1>9. Exact'
  <2> DEFINE e == Bytes(p)
  <2>1. Unwritten = <<>> /\ Unwritten' = e
    BY <1>2, <1>3 DEF Unwritten, WireInv, Kinds
  <2>2. Pending' = Pending \o e
    <3>1. FlattenSeq(Waiting(Append(sent, p), got)) = FlattenSeq(Waiting(sent, got)) \o e
      BY <1>1, WaitingSend DEF WireInv, Kinds, Within
    <3> QED
      BY <1>3, <3>1, PendingIs
  <2>3. PICK y \in Seq(Octet) : MakeUp(acc, y, Pending) /\ Holds(y)
    BY DEF WireInv, Exact
  <2>4. e \in Seq(Octet)
    BY <1>2
  <2> HIDE DEF e
  <2> DEFINE z == y \o e
  <2>5. MakeUp(acc', z, Pending') /\ z \in Seq(Octet)
    <3>1. acc \in Seq(Octet)
      BY DEF WireInv, Kinds
    <3>2. acc \o (y \o e) = (acc \o y) \o e
      BY <2>4, <3>1, Associative
    <3> QED
      BY <1>3, <2>2, <2>3, <2>4, <3>2, ConcatProperties DEF MakeUp
  <2>6. ASSUME layer = "hex" PROVE Hex(hi' \o DigitsIn(net'), Unwritten', cut', z)
    <3> DEFINE d == hi \o DigitsIn(net)
    <3>1. d \in Seq(Digit)
      BY <2>6, DigitsInType, ConcatProperties DEF WireInv, Kinds, Layers
    <3>2. Hex(d, Unwritten, cut, y)
      BY <2>3, <2>6 DEF Holds
    <3>3. d' = d /\ cut' = cut /\ layer' = "hex"
      BY <1>3, <2>6
    <3> HIDE DEF d
    <3>4. Hex(d, e, cut, z)
      BY <2>1, <2>4, <3>1, <3>2, HexMore
    <3> HIDE DEF z
    <3>5. Hex(d', Unwritten', cut', z)
      BY <2>1, <3>3, <3>4
    <3> QED
      BY <3>5 DEF d
  <2>7. ASSUME layer # "hex" PROVE Raw(Decoded', Unwritten', cut', z)
    <3>1. Decoded \in Seq(Octet) /\ Raw(Decoded, Unwritten, cut, y)
      BY <2>3, <2>7, DecodedType DEF Holds, WireInv
    <3>2. Decoded' = Decoded /\ cut' = cut
      BY <1>3 DEF Decoded
    <3>3. Raw(Decoded, e, cut, z)
      BY <2>1, <2>4, <3>1, RawMore
    <3> HIDE DEF z
    <3> QED
      BY <2>1, <3>2, <3>3
  <2> HIDE DEF z
  <2>8. layer' = layer
    BY <1>3
  <2> QED
    BY <2>5, <2>6, <2>7, <2>8, ExactNext
<1> QED
  BY <1>5, <1>6, <1>7, <1>8, <1>9 DEF WireInv

\* Who writes holds the lock, and its first slice is the next to go.
LEMMA Writing ==
    ASSUME WireInv, NEW w \in Writer, out[w] # <<>>
    PROVE  /\ wmu = w /\ w # NoWriter
           /\ Head(out[w]) \in Slice /\ Head(out[w]) \in Seq(Octet) /\ Tail(out[w]) \in Seq(Slice)
           /\ FlattenSeq(Tail(out[w])) \in Seq(Octet)
           /\ Unwritten = Head(out[w]) \o FlattenSeq(Tail(out[w]))
<1>1. wmu = w /\ w # NoWriter
  BY Assumptions DEF WireInv, Turns
<1> DEFINE o == out[w]
<1>2. o \in Seq(Slice) /\ o \in Seq(Seq(Octet)) /\ o # <<>>
  BY SlicesAreSeqs DEF WireInv, Kinds
<1>3. Unwritten = FlattenSeq(o)
  BY <1>1 DEF Unwritten
<1> HIDE DEF o
<1>4. Head(o) \in Slice /\ Tail(o) \in Seq(Slice)
  BY <1>2, HeadTailProperties
<1>5. /\ Head(o) \in Seq(Octet) /\ Tail(o) \in Seq(Seq(Octet))
      /\ FlattenSeq(o) = Head(o) \o FlattenSeq(Tail(o))
  BY <1>2, FlattenHead
<1>6. FlattenSeq(Tail(o)) \in Seq(Octet)
  BY <1>5, FlattenType
<1> QED
  BY <1>1, <1>3, <1>4, <1>5, <1>6 DEF o

\* What the invariant says of the slices, after some are written.
LEMMA Written ==
    ASSUME WireInv, NEW w \in Writer, out[w] # <<>>, NEW o \in Seq(Slice),
           out' = [out EXCEPT ![w] = o], WriteOnly
    PROVE  /\ Unwritten' = FlattenSeq(o) /\ out' \in [Writer -> Seq(Slice)]
           /\ Turns' /\ Within' /\ Pending' = Pending
<1>1. wmu = w /\ wmu' = w /\ w # NoWriter /\ unsent' = unsent
  BY Writing DEF WriteOnly
<1>2. out' \in [Writer -> Seq(Slice)] /\ out'[w] = o /\ \A v \in Writer : v # w => out'[v] = out[v]
  BY DEF WireInv, Kinds
<1>3. Unwritten' = FlattenSeq(o)
  BY <1>1, <1>2 DEF Unwritten
<1>4. Turns'
  <2> SUFFICES ASSUME NEW v \in Writer
               PROVE  /\ Len(unsent'[v]) <= Len(ToSend[v])
                      /\ out'[v] # <<>> => wmu' = v /\ Len(unsent'[v]) < Len(ToSend[v])
    BY DEF Turns
  <2>1. /\ Len(unsent[v]) <= Len(ToSend[v])
        /\ out[v] # <<>> => wmu = v /\ Len(unsent[v]) < Len(ToSend[v])
    BY DEF WireInv, Turns
  <2> QED
    BY <1>1, <1>2, <2>1
<1>5. Within'
  BY DEF WireInv, Within, WriteOnly, readVars
<1>6. Pending' = Pending
  BY PendingIs DEF WriteOnly, readVars
<1> QED
  BY <1>2, <1>3, <1>4, <1>5, <1>6

\* A slice goes to the network, whole or as hex.
LEMMA WriteSliceKeeps ==
    ASSUME WireInv, NEW w \in Writer, WriteSlice(w)
    PROVE  WireInv'
<1> DEFINE s == Head(out[w])
           t == Tail(out[w])
<1>0. /\ out[w] # <<>> /\ out' = [out EXCEPT ![w] = t] /\ WriteOnly
      /\ cut = FALSE /\ layer # "secure" /\ enonce' = enonce
      /\ UNCHANGED <<layer, unsent, wmu, sent, cut, dnonce, rbuf, hi, acc, failed, got>>
  BY DEF WriteSlice, WriteOnly, readVars, WireInv, Kinds
<1>1. /\ wmu = w /\ s \in Seq(Octet) /\ t \in Seq(Slice) /\ FlattenSeq(t) \in Seq(Octet)
      /\ Unwritten = s \o FlattenSeq(t)
  BY <1>0, Writing
<1>2. net' = net \o (IF layer = "hex" THEN HexEncode(s) ELSE s)
  BY DEF WriteSlice
<1> HIDE DEF s, t
<1>3. /\ Unwritten' = FlattenSeq(t) /\ out' \in [Writer -> Seq(Slice)]
      /\ Turns' /\ Within' /\ Pending' = Pending
  BY <1>0, <1>1, Written
<1>4. Kinds'
  BY <1>0, <1>3 DEF WireInv, Kinds
<1>5. PICK y \in Seq(Octet) : MakeUp(acc, y, Pending) /\ Holds(y)
  BY DEF WireInv, Exact
<1>6. MakeUp(acc', y, Pending')
  BY <1>0, <1>3, <1>5
<1>7. CASE layer = "hex"
  <2> DEFINE d == hi \o DigitsIn(net)
             u == FlattenSeq(t)
             h == HexEncode(s)
  <2>1. net \in Seq(Symbol) /\ DigitsIn(net) \in Seq(Digit) /\ hi \in Seq(Digit) /\ d \in Seq(Digit)
    BY <1>7, DigitsInType, ConcatProperties DEF WireInv, Kinds, Layers
  <2>2. h \in Seq(Symbol) /\ DigitsIn(h) = DigitsOf(s) /\ DigitsOf(s) \in Seq(Digit)
    BY <1>1, HexEncodeCarries, DigitsOfType
  <2>3. Hex(d, Unwritten, cut, y)
    BY <1>5, <1>7 DEF Holds
  <2>4. net' = net \o h
    BY <1>2, <1>7
  <2> HIDE DEF h
  <2>5. DigitsIn(net') = DigitsIn(net) \o DigitsOf(s) /\ net' \in Seq(Symbol)
    BY <2>1, <2>2, <2>4, DigitsInConcat, ConcatProperties
  <2>6. hi' \o DigitsIn(net') = d \o DigitsOf(s)
    <3> DEFINE p == DigitsIn(net)
               q == DigitsOf(s)
    <3>1. p \in Seq(Digit) /\ q \in Seq(Digit)
      BY <2>1, <2>2
    <3> HIDE DEF p, q
    <3>2. hi \o (p \o q) = (hi \o p) \o q
      BY <2>1, <3>1, Associative
    <3> QED
      BY <1>0, <2>5, <3>2 DEF p, q
  <2> HIDE DEF d, u
  <2>7. Hex(d, s \o u, FALSE, y) /\ u \in Seq(Octet)
    BY <1>0, <1>1, <2>3 DEF u
  <2>8. Hex(d \o DigitsOf(s), u, FALSE, y)
    BY <1>1, <2>1, <2>7, HexMove
  <2>9. Hex(hi' \o DigitsIn(net'), Unwritten', cut', y)
    BY <1>0, <1>3, <2>6, <2>8 DEF u
  <2>10. Exact'
    BY <1>0, <1>6, <1>7, <2>9, ExactNext
  <2>11. Layers'
    BY <1>0, <1>7, <2>5 DEF WireInv, Layers
  <2> QED
    BY <1>3, <1>4, <2>10, <2>11 DEF WireInv
<1>8. CASE layer = "plain"
  <2> DEFINE u == FlattenSeq(t)
  <2>1. net \in Seq(Octet) /\ Decoded = net /\ Raw(net, Unwritten, cut, y)
    BY <1>5, <1>8, DecodedIs DEF WireInv, Layers, Holds
  <2>2. net' = net \o s /\ net' \in Seq(Octet)
    BY <1>1, <1>2, <1>8, <2>1, ConcatProperties
  <2>3. Decoded' = net \o s
    BY <1>0, <1>8, <2>2, DecodedIs
  <2> HIDE DEF u
  <2>4. Raw(net, s \o u, FALSE, y) /\ u \in Seq(Octet)
    BY <1>0, <1>1, <2>1 DEF u
  <2>5. Raw(net \o s, u, FALSE, y)
    BY <1>1, <2>1, <2>4, RawMove
  <2>6. Raw(Decoded', Unwritten', cut', y)
    BY <1>0, <1>3, <2>3, <2>5 DEF u
  <2>7. Exact'
    BY <1>0, <1>6, <1>8, <2>6, ExactNext
  <2>8. Layers'
    BY <1>0, <1>8, <2>2 DEF WireInv, Layers
  <2> QED
    BY <1>3, <1>4, <2>7, <2>8 DEF WireInv
<1> QED
  BY <1>0, <1>7, <1>8, Layered DEF WireInv, Kinds

\* As much of a slice as fits goes out in a record with the next nonce.
LEMMA WriteRecordKeeps ==
    ASSUME WireInv, NEW w \in Writer, WriteRecord(w)
    PROVE  WireInv'
<1> DEFINE s == Head(out[w])
           t == Tail(out[w])
           n == IF Len(s) > MaxPlaintext THEN MaxPlaintext ELSE Len(s)
           a == SubSeq(s, 1, n)
           b == SubSeq(s, n + 1, Len(s))
           o == IF b = <<>> THEN t ELSE <<b>> \o t
           r == <<enonce, a>>
<1>0. /\ out[w] # <<>> /\ out' = [out EXCEPT ![w] = o] /\ WriteOnly
      /\ cut = FALSE /\ layer = "secure" /\ enonce' = enonce + 1 /\ net' = Append(net, r)
      /\ UNCHANGED <<layer, unsent, wmu, sent, cut, dnonce, rbuf, hi, acc, failed, got>>
  BY DEF WriteRecord, WriteOnly, readVars, WireInv, Kinds
<1>1. /\ wmu = w /\ s \in Slice /\ s \in Seq(Octet) /\ t \in Seq(Slice) /\ FlattenSeq(t) \in Seq(Octet)
      /\ Unwritten = s \o FlattenSeq(t)
  BY <1>0, Writing
<1> HIDE DEF s, t
<1>2. Len(s) \in Nat /\ Len(s) # 0 /\ n \in 0..Len(s) /\ n <= MaxPlaintext /\ n # 0 /\ n \in Nat
  BY <1>1, LenProperties, EmptySeq, Assumptions DEF Slice
<1> HIDE DEF n
<1>3. a \in Seq(Octet) /\ Len(a) = n /\ b \in Seq(Octet) /\ a \o b = s
  BY <1>1, <1>2, SplitSeq
<1> HIDE DEF a, b
<1>4. a # <<>> /\ r \in Record
  <2>1. a # <<>>
    BY <1>2, <1>3, EmptySeq
  <2> QED
    BY <1>2, <1>3, <2>1 DEF Record, Slice, WireInv, Kinds
<1>5. o \in Seq(Slice) /\ FlattenSeq(o) = b \o FlattenSeq(t) /\ FlattenSeq(o) \in Seq(Octet)
  <2>1. CASE b = <<>>
    BY <1>1, <2>1, ConcatEmptySeq
  <2>2. CASE b # <<>>
    <3>1. b \in Slice
      BY <1>3, <2>2 DEF Slice
    <3>2. <<b>> \in Seq(Slice) /\ <<b>> \in Seq(Seq(Octet)) /\ t \in Seq(Seq(Octet))
      BY <1>1, <1>3, <3>1, SlicesAreSeqs
    <3>3. <<b>> \o t \in Seq(Slice)
      BY <1>1, <3>2, ConcatProperties
    <3>4. FlattenSeq(<<b>> \o t) = FlattenSeq(<<b>>) \o FlattenSeq(t)
      BY <3>2, FlattenConcat
    <3>5. FlattenSeq(<<b>> \o t) = b \o FlattenSeq(t)
      BY <3>4, FlattenOne
    <3> QED
      BY <1>1, <1>3, <2>2, <3>3, <3>5, ConcatProperties
  <2> QED
    BY <2>1, <2>2
<1> HIDE DEF o, r
<1>6. /\ Unwritten' = FlattenSeq(o) /\ out' \in [Writer -> Seq(Slice)]
      /\ Turns' /\ Within' /\ Pending' = Pending
  BY <1>0, <1>5, Written
<1>7. Kinds'
  BY <1>0, <1>6 DEF WireInv, Kinds
<1>8. Records /\ net \in Seq(Record) /\ Len(net) \in Nat /\ enonce \in Nat /\ dnonce \in Nat
  BY <1>0, LenProperties DEF WireInv, Layers, Records, Kinds
<1>9. /\ net' \in Seq(Record) /\ Len(net') = Len(net) + 1
      /\ \A i \in 1..Len(net) : net'[i] = net[i]
      /\ net'[Len(net) + 1] = r
  BY <1>0, <1>4, <1>8, AppendProperties
<1>10. Records'
  <2>1. \A i \in 1..Len(net') : net'[i][1] = dnonce + (i - 1)
    <3> TAKE i \in 1..Len(net')
    <3>1. CASE i \in 1..Len(net)
      BY <1>8, <1>9, <3>1 DEF Records
    <3>2. CASE i = Len(net) + 1
      <4>1. net'[i][1] = enonce
        BY <1>9, <3>2 DEF r
      <4>2. dnonce + Len(net) = enonce
        BY <1>0, <1>8 DEF Records
      <4> QED
        BY <1>8, <3>2, <4>1, <4>2
    <3> QED
      BY <1>8, <1>9, <3>1, <3>2
  <2>2. dnonce + Len(net') = enonce + 1
    BY <1>0, <1>8, <1>9 DEF Records
  <2>3. Len(rbuf) <= MaxPlaintext
    BY <1>8 DEF Records
  <2> QED
    BY <1>0, <1>8, <1>9, <2>1, <2>2, <2>3 DEF Records
<1>11. Layers'
  BY <1>0, <1>10 DEF WireInv, Layers
<1>12. PICK y \in Seq(Octet) : MakeUp(acc, y, Pending) /\ Holds(y)
  BY DEF WireInv, Exact
<1>13. MakeUp(acc', y, Pending')
  BY <1>0, <1>6, <1>12
<1> DEFINE p == FlattenSeq(Plaintexts(net))
           d == Decoded
           u == FlattenSeq(t)
           v == FlattenSeq(o)
<1>14. p \in Seq(Octet) /\ d = rbuf \o p /\ rbuf \in Seq(Octet) /\ d \in Seq(Octet)
  <2>1. p \in Seq(Octet)
    BY <1>8, PlaintextsType, FlattenType
  <2> QED
    BY <1>0, <2>1, DecodedIs, DecodedType DEF WireInv, Kinds
<1>15. FlattenSeq(Plaintexts(net')) = p \o a
  <2>1. net' = net \o <<r>> /\ <<r>> \in Seq(Record)
    BY <1>0, <1>4, <1>8, AppendIsConcat
  <2>2. FlattenSeq(Plaintexts(<<r>>)) = a
    BY PlaintextsOne DEF r
  <2> QED
    BY <1>8, <2>1, <2>2, PlaintextsConcat
<1>16. Decoded' = rbuf \o (p \o a)
  BY <1>0, <1>15, DecodedIs
<1>17. Raw(d, Unwritten, FALSE, y)
  BY <1>0, <1>12 DEF Holds
<1>18. u \in Seq(Octet) /\ Unwritten = s \o u /\ v = b \o u /\ v \in Seq(Octet)
  BY <1>1, <1>5
<1> HIDE DEF p, d, u, v
<1>19. Unwritten = a \o v
  <2>1. a \o (b \o u) = (a \o b) \o u
    <3>1. a \in Seq(Octet) /\ b \in Seq(Octet) /\ u \in Seq(Octet)
      BY <1>3, <1>18
    <3> QED
      BY <3>1, Associative
  <2> QED
    BY <1>3, <1>18, <2>1
<1>20. Decoded' = d \o a
  <2>1. rbuf \o (p \o a) = (rbuf \o p) \o a
    <3>1. a \in Seq(Octet) /\ p \in Seq(Octet) /\ rbuf \in Seq(Octet)
      BY <1>3, <1>14
    <3> QED
      BY <3>1, Associative
  <2> QED
    BY <1>14, <1>16, <2>1
<1>21. Raw(d, a \o v, FALSE, y)
  BY <1>17, <1>19
<1>22. Raw(d \o a, v, FALSE, y)
  BY <1>3, <1>14, <1>18, <1>21, RawMove
<1>23. Raw(Decoded', Unwritten', cut', y)
  BY <1>0, <1>6, <1>20, <1>22 DEF v
<1>24. Exact'
  BY <1>0, <1>13, <1>23, ExactNext
<1> QED
  BY <1>6, <1>7, <1>11, <1>24 DEF WireInv

\* Who lets go of the lock has nothing left to write.
LEMMA UnlockKeeps ==
    ASSUME WireInv, NEW w \in Writer, Unlock(w)
    PROVE  WireInv'
<1>0. /\ wmu = w /\ wmu' = NoWriter /\ out[w] = <<>> /\ w # NoWriter
      /\ UNCHANGED <<layer, unsent, out, enonce, sent, net, cut, dnonce, rbuf, hi, acc, failed, got>>
  BY Assumptions DEF Unlock, readVars
<1>1. Kinds'
  BY <1>0 DEF WireInv, Kinds
<1>2. Turns'
  BY <1>0 DEF WireInv, Turns
<1>3. Layers' /\ Within'
  BY <1>0 DEF WireInv, Layers, Records, Within
<1>4. Exact'
  <2>1. Unwritten = <<>> /\ Unwritten' = <<>>
    BY <1>0, FlattenEmpty DEF Unwritten
  <2>2. Pending' = Pending /\ Decoded' = Decoded
    BY <1>0, PendingIs DEF Decoded
  <2>3. PICK y \in Seq(Octet) : MakeUp(acc, y, Pending) /\ Holds(y)
    BY DEF WireInv, Exact
  <2>4. MakeUp(acc', y, Pending')
    BY <1>0, <2>2, <2>3
  <2>5. ASSUME layer = "hex" PROVE Hex(hi' \o DigitsIn(net'), Unwritten', cut', y)
    BY <1>0, <2>1, <2>3, <2>5 DEF Holds
  <2>6. ASSUME layer # "hex" PROVE Raw(Decoded', Unwritten', cut', y)
    BY <1>0, <2>1, <2>2, <2>3, <2>6 DEF Holds
  <2>7. layer' = layer
    BY <1>0
  <2> QED
    BY <2>4, <2>5, <2>6, <2>7, ExactNext
<1> QED
  BY <1>1, <1>2, <1>3, <1>4 DEF WireInv

\* Once the connection is broken, what the writers have says nothing.
LEMMA Broken ==
    ASSUME NEW d, NEW u, NEW v, NEW broken, NEW y
    PROVE  /\ Raw(d, u, broken, y) => Raw(d, v, TRUE, y)
           /\ Hex(d, u, broken, y) => Hex(d, v, TRUE, y)
BY DEF Raw, Hex

\* A writer gives up, which only happens when the connection is broken.
LEMMA WriteFailsKeeps ==
    ASSUME WireInv, NEW w \in Writer, WriteFails(w)
    PROVE  WireInv'
<1>0. /\ out[w] # <<>> /\ cut = TRUE /\ cut' = TRUE
      /\ out' = [out EXCEPT ![w] = <<>>] /\ unsent' = [unsent EXCEPT ![w] = <<>>]
      /\ UNCHANGED <<layer, wmu, enonce, sent, net, dnonce, rbuf, hi, acc, failed, got>>
  BY DEF WriteFails, readVars, WireInv, Kinds
<1>1. <<>> \in Seq(Slice) /\ <<>> \in Seq(Packet) /\ Len(<<>>) = 0
  OBVIOUS
<1>2. /\ out' \in [Writer -> Seq(Slice)] /\ unsent' \in [Writer -> Seq(Packet)]
      /\ out'[w] = <<>> /\ unsent'[w] = <<>>
      /\ \A v \in Writer : v # w => out'[v] = out[v] /\ unsent'[v] = unsent[v]
  BY <1>0, <1>1 DEF WireInv, Kinds
<1>3. Kinds'
  BY <1>0, <1>2 DEF WireInv, Kinds
<1>4. Turns'
  <2> SUFFICES ASSUME NEW v \in Writer
               PROVE  /\ Len(unsent'[v]) <= Len(ToSend[v])
                      /\ out'[v] # <<>> => wmu' = v /\ Len(unsent'[v]) < Len(ToSend[v])
    BY DEF Turns
  <2>1. /\ Len(unsent[v]) <= Len(ToSend[v])
        /\ out[v] # <<>> => wmu = v /\ Len(unsent[v]) < Len(ToSend[v])
    BY DEF WireInv, Turns
  <2>2. Len(ToSend[v]) \in Nat
    BY Assumptions
  <2> QED
    BY <1>0, <1>1, <1>2, <2>1, <2>2
<1>5. Layers' /\ Within'
  BY <1>0 DEF WireInv, Layers, Records, Within
<1>6. Exact'
  <2>1. Pending' = Pending /\ Decoded' = Decoded
    BY <1>0, PendingIs DEF Decoded
  <2>2. PICK y \in Seq(Octet) : MakeUp(acc, y, Pending) /\ Holds(y)
    BY DEF WireInv, Exact
  <2>3. MakeUp(acc', y, Pending')
    BY <1>0, <2>1, <2>2
  <2>4. ASSUME layer = "hex" PROVE Hex(hi' \o DigitsIn(net'), Unwritten', TRUE, y)
    BY <1>0, <2>2, <2>4, Broken DEF Holds
  <2>5. ASSUME layer # "hex" PROVE Raw(Decoded', Unwritten', TRUE, y)
    BY <2>1, <2>2, <2>5, Broken DEF Holds
  <2>6. layer' = layer
    BY <1>0
  <2> QED
    BY <1>0, <2>3, <2>4, <2>5, <2>6, ExactNext
<1> QED
  BY <1>3, <1>4, <1>5, <1>6 DEF WireInv

-----------------------------------------------------------------------------
(* So does the connection when it breaks.                                  *)

\* The connection breaks and loses the end of what is on its way.
LEMMA BreakKeeps ==
    ASSUME WireInv, Break
    PROVE  WireInv'
<1>0. /\ cut' = TRUE
      /\ UNCHANGED <<layer, unsent, out, wmu, enonce, sent, dnonce, rbuf, hi, acc, failed, got>>
  BY DEF Break, readVars, writeVars
<1>1. PICK n \in 0..Len(net) : net' = SubSeq(net, 1, n)
  BY DEF Break
<1>2. ASSUME NEW S, net \in Seq(S)
      PROVE  /\ net' \in Seq(S) /\ Len(net') = n /\ \A i \in 1..n : net'[i] = net[i]
             /\ \E b \in Seq(S) : net = net' \o b
  <2> DEFINE b == SubSeq(net, n + 1, Len(net))
  <2>1. /\ net' \in Seq(S) /\ Len(net') = n /\ \A i \in 1..n : net'[i] = net[i]
        /\ b \in Seq(S) /\ net = net' \o b
    BY <1>1, <1>2, SplitSeq
  <2> QED
    BY <2>1
<1>3. Kinds' /\ Turns' /\ Within'
  BY <1>0 DEF WireInv, Kinds, Turns, Within
<1>4. Pending' = Pending /\ Unwritten' = Unwritten
  BY <1>0, PendingIs DEF Unwritten
<1>5. PICK y \in Seq(Octet) : MakeUp(acc, y, Pending) /\ Holds(y)
  BY DEF WireInv, Exact
<1>6. MakeUp(acc', y, Pending')
  BY <1>0, <1>4, <1>5
<1>7. CASE layer = "hex"
  <2>1. net \in Seq(Symbol) /\ hi \in Seq(Digit)
    BY <1>7 DEF WireInv, Kinds, Layers
  <2>2. PICK b \in Seq(Symbol) : net = net' \o b
    BY <1>2, <2>1
  <2>3. net' \in Seq(Symbol)
    BY <1>2, <2>1
  <2> DEFINE p == DigitsIn(net')
             q == DigitsIn(b)
             d == hi \o DigitsIn(net)
  <2>4. p \in Seq(Digit) /\ q \in Seq(Digit) /\ DigitsIn(net) = p \o q
    BY <2>2, <2>3, DigitsInType, DigitsInConcat
  <2>5. Hex(d, Unwritten, cut, y)
    BY <1>5, <1>7 DEF Holds
  <2> HIDE DEF p, q
  <2>6. d = (hi \o p) \o q /\ hi \o p \in Seq(Digit)
    <3>1. hi \o (p \o q) = (hi \o p) \o q
      BY <2>1, <2>4, Associative
    <3> QED
      BY <2>1, <2>4, <3>1, ConcatProperties
  <2> HIDE DEF d
  <2> DEFINE e == hi \o p
  <2>7. Hex(e \o q, Unwritten, cut, y) /\ e \in Seq(Digit)
    BY <2>5, <2>6
  <2> HIDE DEF e
  <2>8. Hex(e, Unwritten', TRUE, y)
    BY <2>4, <2>7, HexBreak
  <2>9. Exact'
    BY <1>0, <1>6, <1>7, <2>8, ExactNext DEF e, p
  <2>10. Layers'
    BY <1>0, <1>7, <2>3 DEF WireInv, Layers
  <2> QED
    BY <1>3, <2>9, <2>10 DEF WireInv
<1>8. CASE layer = "plain"
  <2>1. net \in Seq(Octet) /\ Decoded = net /\ Raw(net, Unwritten, cut, y)
    BY <1>5, <1>8, DecodedIs DEF WireInv, Layers, Holds
  <2>2. PICK b \in Seq(Octet) : net = net' \o b
    BY <1>2, <2>1
  <2>3. net' \in Seq(Octet) /\ Decoded' = net'
    BY <1>0, <1>2, <1>8, <2>1, DecodedIs
  <2>4. Raw(net' \o b, Unwritten, cut, y)
    BY <2>1, <2>2
  <2>5. Raw(net', Unwritten', TRUE, y)
    BY <2>3, <2>4, RawBreak
  <2>6. Exact'
    BY <1>0, <1>6, <1>8, <2>3, <2>5, ExactNext
  <2>7. Layers'
    BY <1>0, <1>8, <2>3 DEF WireInv, Layers
  <2> QED
    BY <1>3, <2>6, <2>7 DEF WireInv
<1>9. CASE layer = "secure"
  <2>1. Records /\ net \in Seq(Record) /\ rbuf \in Seq(Octet)
    BY <1>9 DEF WireInv, Layers, Records, Kinds
  <2>2. PICK b \in Seq(Record) : net = net' \o b
    BY <1>2, <2>1
  <2>3. net' \in Seq(Record) /\ Len(net') = n /\ \A i \in 1..n : net'[i] = net[i]
    BY <1>2, <2>1
  <2> DEFINE p == FlattenSeq(Plaintexts(net'))
             q == FlattenSeq(Plaintexts(b))
  <2>4. p \in Seq(Octet) /\ q \in Seq(Octet)
    BY <2>2, <2>3, PlaintextsType, FlattenType
  <2>5. FlattenSeq(Plaintexts(net)) = p \o q
    BY <2>2, <2>3, PlaintextsConcat
  <2>6. Decoded = rbuf \o (p \o q) /\ Decoded' = rbuf \o p
    BY <1>0, <1>9, <2>5, DecodedIs
  <2>7. Raw(Decoded, Unwritten, cut, y)
    BY <1>5, <1>9 DEF Holds
  <2> HIDE DEF p, q
  <2>8. rbuf \o (p \o q) = (rbuf \o p) \o q
    BY <2>1, <2>4, Associative
  <2> DEFINE e == rbuf \o p
  <2>9. e \in Seq(Octet) /\ Raw(e \o q, Unwritten, cut, y)
    BY <2>1, <2>4, <2>6, <2>7, <2>8, ConcatProperties
  <2>10. Decoded' = e
    BY <2>6
  <2> HIDE DEF e
  <2>11. Raw(e, Unwritten', TRUE, y)
    BY <2>4, <2>9, RawBreak
  <2>12. Exact'
    BY <1>0, <1>6, <1>9, <2>10, <2>11, ExactNext
  <2>13. Records'
    <3>1. Len(net) \in Nat /\ n \in Nat /\ n <= Len(net) /\ dnonce \in Nat /\ enonce \in Nat
      BY <2>1, LenProperties DEF WireInv, Kinds
    <3>2. \A i \in 1..Len(net') : net'[i][1] = dnonce + (i - 1)
      <4> TAKE i \in 1..Len(net')
      <4>1. i \in 1..Len(net) /\ net'[i] = net[i]
        BY <2>3, <3>1
      <4>2. net[i][1] = dnonce + (i - 1)
        BY <2>1, <4>1 DEF Records
      <4> QED
        BY <4>1, <4>2
    <3>3. dnonce + Len(net') <= enonce /\ Len(rbuf) <= MaxPlaintext
      BY <2>1, <2>3, <3>1 DEF Records
    <3> QED
      BY <1>0, <2>3, <3>2, <3>3 DEF Records
  <2>14. Layers'
    BY <1>0, <1>9, <2>13 DEF WireInv, Layers
  <2> QED
    BY <1>3, <2>12, <2>14 DEF WireInv
<1> QED
  BY <1>7, <1>8, <1>9, Layered DEF WireInv, Kinds

-----------------------------------------------------------------------------
(* And so does every step of the reader.                                   *)

\* What the reader has of a packet is the beginning of the one it is in.
LEMMA PacketIs ==
    ASSUME WireInv, acc # <<>>, NEW p, p = sent[Len(got) + 1]
    PROVE  /\ p \in Packet /\ Len(got) < Len(sent) /\ Len(acc) <= Size(p)
           /\ \A i \in 1..Len(acc) : acc[i] = <<p, i>>
           /\ Pending = Bytes(p) \o FlattenSeq(Waiting(sent, Append(got, p)))
           /\ FlattenSeq(Waiting(sent, Append(got, p))) \in Seq(Octet)
<1>1. Len(got) < Len(sent) /\ Len(acc) <= Size(p)
  BY DEF WireInv, Within
<1>2. /\ sent \in Seq(Packet) /\ got \in Seq(Packet) /\ acc \in Seq(Octet)
      /\ Len(got) \in Nat /\ Len(sent) \in Nat
  BY LenProperties DEF WireInv, Kinds
<1>3. p \in Packet
  <2>1. Len(got) + 1 \in 1..Len(sent)
    BY <1>1, <1>2
  <2> QED
    BY <1>2, <2>1, ElementOfSeq
<1> DEFINE z == FlattenSeq(Waiting(sent, Append(got, p)))
           b == Bytes(p)
<1>4. Pending = b \o z
  BY <1>1, <1>2, <1>3, PendingIs, WaitingReceive
<1>5. z \in Seq(Octet)
  <2>1. Append(got, p) \in Seq(Packet) /\ Len(Append(got, p)) <= Len(sent)
    BY <1>1, <1>2, <1>3, AppendProperties
  <2> QED
    BY <1>2, <2>1, WaitingType
<1>6. b \in Seq(Octet) /\ Len(b) = Size(p) /\ Size(p) \in Nat /\ \A i \in 1..Size(p) : b[i] = <<p, i>>
  BY <1>3, BytesType
<1> HIDE DEF z, b
<1>7. PICK y \in Seq(Octet) : acc \o y = Pending
  BY DEF WireInv, Exact, MakeUp
<1>8. acc \o y = b \o z /\ Len(acc) <= Len(b)
  BY <1>1, <1>4, <1>6, <1>7
<1>9. \A i \in 1..Len(acc) : acc[i] = b[i]
  BY <1>2, <1>5, <1>6, <1>8, CommonPrefix
<1>10. \A i \in 1..Len(acc) : acc[i] = <<p, i>>
  <2> TAKE i \in 1..Len(acc)
  <2>1. i \in 1..Size(p)
    BY <1>1, <1>2, <1>6, LenProperties
  <2> QED
    BY <1>6, <1>9, <2>1
<1> QED
  BY <1>1, <1>3, <1>4, <1>5, <1>10 DEF z, b

\* The reader asks for no more than the packet has.
LEMMA WantFits ==
    ASSUME NEW p \in Packet, Len(acc) \in Nat, Len(acc) <= Size(p), \A i \in 1..Len(acc) : acc[i] = <<p, i>>
    PROVE  /\ Want \in Nat /\ Len(acc) + Want <= Size(p)
           /\ Complete => Len(acc) = Size(p) /\ acc[1][1] = p /\ acc # <<>>
<1>1. JSize[p] \in Nat /\ DSize[p] \in Nat
  BY Assumptions
<1>2. Size(p) = HeaderSize + JSize[p] + DSize[p] /\ HeaderSize = 2
  BY DEF Size, HeaderSize
<1>3. CASE Len(acc) < HeaderSize
  BY <1>1, <1>2, <1>3 DEF Want, Complete
<1>4. CASE Len(acc) >= HeaderSize
  <2>1. acc[1] = <<p, 1>> /\ acc[2] = <<p, 2>>
    BY <1>2, <1>4
  <2>2. Header(1, JSize) = JSize[p] /\ Header(2, DSize) = DSize[p]
    BY <2>1 DEF Header
  <2>3. acc # <<>> /\ acc[1][1] = p
    BY <1>2, <1>4, <2>1
  <2> DEFINE l == Len(acc)
             j == JSize[p]
             d == DSize[p]
  <2>4. JEnd = HeaderSize + j /\ DEnd = Size(p) /\ Size(p) = HeaderSize + j + d
    BY <1>2, <2>2 DEF JEnd, DEnd
  <2>5. Want = IF l < JEnd THEN JEnd - l ELSE DEnd - l
    <3>1. ~(Len(acc) < HeaderSize)
      BY <1>2, <1>4
    <3> QED
      BY <3>1 DEF Want
  <2>6. l \in Nat /\ l <= Size(p) /\ j \in Nat /\ d \in Nat
    BY <1>1
  <2> HIDE DEF l, j, d
  <2>7. Want \in Nat /\ l + Want <= Size(p) /\ (Want = 0 => l = Size(p))
    <3>1. JEnd \in Nat /\ DEnd \in Nat /\ JEnd <= DEnd
      BY <1>2, <2>4, <2>6
    <3> QED
      BY <2>4, <2>5, <2>6, <3>1
  <2> QED
    BY <2>3, <2>7 DEF Complete, l
<1> QED
  BY <1>2, <1>3, <1>4

\* So it is in every state that the invariant allows.
LEMMA WantIs ==
    ASSUME WireInv
    PROVE  /\ Want \in Nat
           /\ acc # <<>> => Len(acc) + Want <= Size(sent[Len(got) + 1])
           /\ acc = <<>> => Want = HeaderSize
<1>1. Len(acc) \in Nat
  BY LenProperties DEF WireInv, Kinds
<1>2. CASE acc = <<>>
  BY <1>2 DEF Want, HeaderSize
<1>3. CASE acc # <<>>
  <2> DEFINE p == sent[Len(got) + 1]
  <2>1. p \in Packet /\ Len(acc) <= Size(p) /\ \A i \in 1..Len(acc) : acc[i] = <<p, i>>
    BY <1>3, PacketIs
  <2> HIDE DEF p
  <2>2. Want \in Nat /\ Len(acc) + Want <= Size(p)
    BY <1>1, <2>1, WantFits
  <2> QED
    BY <1>3, <2>2 DEF p
<1> QED
  BY <1>2, <1>3

\* The reader gets the bytes a, of all those still to come.
LEMMA Reads ==
    ASSUME WireInv, NEW a \in Seq(Octet), NEW z \in Seq(Octet),
           MakeUp(acc, a \o z, Pending), Len(a) <= Want, acc' = acc \o a, got' = got, sent' = sent
    PROVE  acc' \in Seq(Octet) /\ Within' /\ MakeUp(acc', z, Pending')
<1>1. acc \in Seq(Octet) /\ Len(acc) \in Nat /\ Len(a) \in Nat /\ Len(got) \in Nat /\ Len(sent) \in Nat
  BY LenProperties DEF WireInv, Kinds
<1>2. acc' \in Seq(Octet) /\ Len(acc') = Len(acc) + Len(a)
  BY <1>1, ConcatProperties
<1>3. MakeUp(acc', z, Pending')
  <2>1. acc \o (a \o z) = (acc \o a) \o z
    BY <1>1, Associative
  <2>2. Pending' = Pending
    BY PendingIs
  <2> QED
    BY <2>1, <2>2 DEF MakeUp
<1>4. Len(got) <= Len(sent)
  BY DEF WireInv, Within
<1>5. CASE a = <<>>
  <2>1. acc' = acc
    BY <1>1, <1>5, ConcatEmptySeq
  <2> QED
    BY <1>2, <1>3, <2>1 DEF WireInv, Within
<1>6. CASE a # <<>> /\ acc = <<>>
  <2>1. Len(got) # Len(sent)
    <3>1. SUFFICES ASSUME Len(got) = Len(sent) PROVE FALSE
      OBVIOUS
    <3>2. Waiting(sent, got) = <<>>
      BY <1>1, <3>1 DEF Waiting
    <3>3. Pending = <<>>
      BY <3>2, PendingIs, FlattenEmpty
    <3>4. a \o z \in Seq(Octet) /\ <<>> \o (a \o z) = a \o z
      BY ConcatProperties, ConcatEmptySeq
    <3>5. a \o z = <<>>
      BY <1>6, <3>3, <3>4 DEF MakeUp
    <3> QED
      BY <1>6, <3>5, ConcatEqualIffEmpty
  <2>2. sent[Len(got) + 1] \in Packet
    <3>1. Len(got) + 1 \in 1..Len(sent)
      BY <1>1, <1>4, <2>1
    <3> QED
      BY <3>1, ElementOfSeq DEF WireInv, Kinds
  <2>3. Len(acc') <= HeaderSize
    BY <1>2, <1>6, WantIs
  <2>4. HeaderSize <= Size(sent[Len(got) + 1]) /\ Size(sent[Len(got) + 1]) \in Nat
    BY <2>2, BytesType
  <2>5. Within'
    BY <1>1, <1>2, <1>4, <2>1, <2>3, <2>4 DEF Within, HeaderSize
  <2> QED
    BY <1>2, <1>3, <2>5
<1>7. CASE a # <<>> /\ acc # <<>>
  <2>1. Len(got) < Len(sent) /\ sent[Len(got) + 1] \in Packet
    BY <1>7, PacketIs
  <2>2. Size(sent[Len(got) + 1]) \in Nat
    BY <2>1, BytesType
  <2>3. Want \in Nat /\ Len(acc) + Want <= Size(sent[Len(got) + 1])
    BY <1>7, WantIs
  <2>4. Len(acc') <= Size(sent[Len(got) + 1])
    BY <1>1, <1>2, <2>2, <2>3
  <2>5. Within'
    BY <1>4, <2>1, <2>4 DEF Within
  <2> QED
    BY <1>2, <1>3, <2>5
<1> QED
  BY <1>5, <1>6, <1>7

\* A portion of what is on the network.
LEMMA Portion ==
    ASSUME NEW S, net \in Seq(S), NEW m \in Nat, NEW n \in Portions(m)
    PROVE  /\ n \in 0..Len(net) /\ n <= m
           /\ SubSeq(net, 1, n) \in Seq(S) /\ Len(SubSeq(net, 1, n)) = n
           /\ SubSeq(net, n + 1, Len(net)) \in Seq(S)
           /\ SubSeq(net, 1, n) \o SubSeq(net, n + 1, Len(net)) = net
<1>1. n \in 0..Len(net) /\ n <= m
  BY LenProperties DEF Portions
<1> QED
  BY <1>1, SplitSeq

\* A portion comes from the network as it is.
LEMMA ReadPlainKeeps ==
    ASSUME WireInv, ReadPlain
    PROVE  WireInv'
<1>0. /\ layer = "plain"
      /\ UNCHANGED <<layer, unsent, out, wmu, enonce, sent, cut, dnonce, rbuf, hi, failed, got>>
  BY DEF ReadPlain, Reading, ReadOnly, writeVars
<1>1. PICK n \in Portions(Want) : acc' = acc \o SubSeq(net, 1, n) /\ net' = SubSeq(net, n + 1, Len(net))
  BY DEF ReadPlain, Take
<1> DEFINE a == SubSeq(net, 1, n)
           b == SubSeq(net, n + 1, Len(net))
<1>2. net \in Seq(Octet) /\ Decoded = net
  BY <1>0, DecodedIs DEF WireInv, Layers
<1>3. a \in Seq(Octet) /\ Len(a) <= Want /\ b \in Seq(Octet) /\ a \o b = net
  BY <1>2, WantIs, Portion
<1>4. acc' = acc \o a /\ net' = b
  BY <1>1
<1> HIDE DEF a, b
<1>5. PICK y \in Seq(Octet) : MakeUp(acc, y, Pending) /\ Raw(a \o b, Unwritten, cut, y)
  BY <1>0, <1>2, <1>3 DEF WireInv, Exact, Holds
<1>6. PICK z \in Seq(Octet) : y = a \o z /\ Raw(b, Unwritten, cut, z)
  BY <1>3, <1>5, RawTake
<1>7. MakeUp(acc, a \o z, Pending)
  BY <1>5, <1>6
<1>8. acc' \in Seq(Octet) /\ Within' /\ MakeUp(acc', z, Pending')
  BY <1>0, <1>3, <1>4, <1>7, Reads
<1>9. Decoded' = b /\ Unwritten' = Unwritten
  BY <1>0, <1>4, DecodedIs DEF Unwritten
<1>10. Exact'
  BY <1>0, <1>6, <1>8, <1>9, ExactNext
<1>11. Kinds' /\ Turns'
  BY <1>0, <1>8 DEF WireInv, Kinds, Turns
<1>12. Layers'
  BY <1>0, <1>3, <1>4 DEF WireInv, Layers
<1> QED
  BY <1>8, <1>10, <1>11, <1>12 DEF WireInv

\* A portion comes from the network in hex, and may end in the middle of a byte.
LEMMA ReadHexKeeps ==
    ASSUME WireInv, ReadHex
    PROVE  WireInv'
<1>0. /\ layer = "hex"
      /\ UNCHANGED <<layer, unsent, out, wmu, enonce, sent, cut, dnonce, rbuf, failed, got>>
  BY DEF ReadHex, Reading, ReadOnly, writeVars
<1>1. PICK n \in Portions(2 * Want) :
         /\ acc' = acc \o HexDecode(hi \o DigitsIn(SubSeq(net, 1, n)))
         /\ hi' = Half(hi \o DigitsIn(SubSeq(net, 1, n)))
         /\ net' = SubSeq(net, n + 1, Len(net))
  BY DEF ReadHex, Take, Half
<1> DEFINE s == SubSeq(net, 1, n)
           r == SubSeq(net, n + 1, Len(net))
<1>2. net \in Seq(Symbol) /\ hi \in Seq(Digit) /\ Len(hi) <= 1 /\ Want \in Nat
  BY <1>0, WantIs DEF WireInv, Layers, Kinds
<1>3. s \in Seq(Symbol) /\ Len(s) <= 2 * Want /\ r \in Seq(Symbol) /\ s \o r = net
  <2>1. 2 * Want \in Nat
    BY <1>2
  <2> QED
    BY <1>2, <2>1, Portion
<1> HIDE DEF s, r
<1> DEFINE p == DigitsIn(s)
           q == DigitsIn(r)
           a == hi \o p
<1>4. p \in Seq(Digit) /\ q \in Seq(Digit) /\ DigitsIn(net) = p \o q /\ Len(p) <= Len(s)
  BY <1>3, DigitsInType, DigitsInConcat, DigitsInFewer
<1>5. acc' = acc \o HexDecode(a) /\ hi' = Half(a) /\ net' = r
  BY <1>1 DEF s, r
<1> HIDE DEF p, q
<1>6. a \in Seq(Digit) /\ Len(a) = Len(hi) + Len(p) /\ Len(p) \in Nat /\ Len(hi) \in Nat /\ Len(s) \in Nat
  BY <1>2, <1>3, <1>4, ConcatProperties, LenProperties
<1>7. hi \o (p \o q) = a \o q
  BY <1>2, <1>4, Associative
<1> HIDE DEF a
<1>8. Len(a) \div 2 <= Want
  BY <1>2, <1>3, <1>4, <1>6
<1>9. PICK y \in Seq(Octet) : MakeUp(acc, y, Pending) /\ Holds(y)
  BY DEF WireInv, Exact
<1>10. Hex(a \o q, Unwritten, cut, y)
  BY <1>0, <1>4, <1>7, <1>9 DEF Holds
<1>11. PICK z \in Seq(Octet) :
          y = HexDecode(a) \o z /\ HexDecode(a) \in Seq(Octet)
          /\ Len(HexDecode(a)) = Len(a) \div 2 /\ Hex(Half(a) \o q, Unwritten, cut, z)
  BY <1>4, <1>6, <1>10, HexTake
<1> DEFINE c == HexDecode(a)
<1>12. c \in Seq(Octet) /\ Len(c) <= Want /\ MakeUp(acc, c \o z, Pending) /\ acc' = acc \o c
  BY <1>5, <1>8, <1>9, <1>11
<1> HIDE DEF c
<1>13. acc' \in Seq(Octet) /\ Within' /\ MakeUp(acc', z, Pending')
  BY <1>0, <1>12, Reads
<1>14. hi' \o DigitsIn(net') = Half(a) \o q /\ Unwritten' = Unwritten
  BY <1>0, <1>5 DEF Unwritten, q
<1>15. Exact'
  BY <1>0, <1>11, <1>13, <1>14, ExactNext
<1>16. hi' \in Seq(Digit) /\ Len(hi') <= 1
  BY <1>5, <1>6, HalfIs
<1>17. Kinds' /\ Turns'
  BY <1>0, <1>13, <1>16 DEF WireInv, Kinds, Turns
<1>18. Layers'
  BY <1>0, <1>3, <1>5, <1>16 DEF WireInv, Layers
<1> QED
  BY <1>13, <1>15, <1>17, <1>18 DEF WireInv

\* The next record has the nonce that is expected, and decrypts.
LEMMA ReadRecordKeeps ==
    ASSUME WireInv, ReadRecord
    PROVE  WireInv'
<1>0. /\ layer = "secure" /\ rbuf = <<>> /\ net # <<>> /\ net' = SubSeq(net, 1 + 1, Len(net))
      /\ UNCHANGED <<layer, unsent, out, wmu, enonce, sent, cut, hi, acc, got>>
  BY DEF ReadRecord, Reading, Take, writeVars
<1>1. Records /\ net \in Seq(Record) /\ Len(net) \in Nat /\ Len(net) # 0 /\ dnonce \in Nat /\ enonce \in Nat
  BY <1>0, LenProperties, EmptySeq DEF WireInv, Layers, Records, Kinds
<1> DEFINE a == SubSeq(net, 1, 1)
           b == SubSeq(net, 1 + 1, Len(net))
           h == Head(net)
<1>2. /\ a \in Seq(Record) /\ Len(a) = 1 /\ a[1] = net[1] /\ b \in Seq(Record) /\ Len(b) = Len(net) - 1
      /\ a \o b = net /\ \A i \in 1..Len(net) - 1 : b[i] = net[1 + i]
  <2> DEFINE m == 1
  <2>1. m \in 0..Len(net)
    BY <1>1
  <2> HIDE DEF m
  <2>2. /\ SubSeq(net, 1, m) \in Seq(Record) /\ Len(SubSeq(net, 1, m)) = m
        /\ SubSeq(net, m + 1, Len(net)) \in Seq(Record)
        /\ Len(SubSeq(net, m + 1, Len(net))) = Len(net) - m
        /\ SubSeq(net, 1, m) \o SubSeq(net, m + 1, Len(net)) = net
        /\ \A i \in 1..m : SubSeq(net, 1, m)[i] = net[i]
        /\ \A i \in 1..Len(net) - m : SubSeq(net, m + 1, Len(net))[i] = net[m + i]
    BY <1>1, <2>1, SplitSeq
  <2>3. a = SubSeq(net, 1, m) /\ b = SubSeq(net, m + 1, Len(net)) /\ m = 1
    BY DEF m
  <2> HIDE DEF a, b
  <2> QED
    BY <2>2, <2>3
<1>3. h = net[1] /\ h \in Record /\ h[1] = dnonce
  <2>1. 1 \in 1..Len(net)
    BY <1>1
  <2>2. h = net[1] /\ net[1] \in Record
    BY <1>1, <2>1, ElementOfSeq
  <2>3. net[1][1] = dnonce + (1 - 1)
    BY <1>1, <2>1 DEF Records
  <2> QED
    BY <1>1, <2>2, <2>3
<1>4. rbuf' = h[2] /\ dnonce' = dnonce + 1 /\ failed' = failed
  BY <1>3 DEF ReadRecord
<1> HIDE DEF h
<1>5. a = <<h>>
  <2> DEFINE c == <<h>>
  <2>1. c \in Seq(Record) /\ Len(c) = 1 /\ c[1] = h
    BY <1>3
  <2> HIDE DEF a, c
  <2>2. a = c
    BY <1>2, <1>3, <2>1, SeqEqual
  <2> QED
    BY <2>2 DEF c
<1>6. net' = b
  BY <1>0
<1> HIDE DEF a, b
<1>7. h[2] \in Seq(Octet) /\ Len(h[2]) <= MaxPlaintext
  BY <1>3 DEF Record, Slice
<1>8. Decoded' = Decoded
  <2> DEFINE p == FlattenSeq(Plaintexts(net))
             q == FlattenSeq(Plaintexts(b))
  <2>1. p = h[2] \o q
    <3>1. FlattenSeq(Plaintexts(a)) = h[2]
      BY <1>5, PlaintextsOne
    <3> QED
      BY <1>2, <3>1, PlaintextsConcat
  <2>2. Decoded = rbuf \o p /\ Decoded' = rbuf' \o q
    BY <1>0, <1>6, DecodedIs
  <2>3. p \in Seq(Octet)
    BY <1>1, PlaintextsType, FlattenType
  <2> HIDE DEF p, q
  <2>4. <<>> \o p = p
    BY <2>3, ConcatEmptySeq
  <2> QED
    BY <1>0, <1>4, <2>1, <2>2, <2>4
<1>9. PICK y \in Seq(Octet) : MakeUp(acc, y, Pending) /\ Raw(Decoded, Unwritten, cut, y)
  BY <1>0 DEF WireInv, Exact, Holds
<1>10. Pending' = Pending /\ Unwritten' = Unwritten
  BY <1>0, PendingIs DEF Unwritten
<1>11. MakeUp(acc', y, Pending') /\ Raw(Decoded', Unwritten', cut', y)
  BY <1>0, <1>8, <1>9, <1>10
<1>12. Exact'
  BY <1>0, <1>11, ExactNext
<1>13. dnonce < enonce
  BY <1>1 DEF Records
<1>14. Kinds' /\ Turns' /\ Within'
  BY <1>0, <1>1, <1>4, <1>7, <1>13 DEF WireInv, Kinds, Turns, Within
<1>15. Records'
  <2>1. \A i \in 1..Len(net') : net'[i][1] = dnonce' + (i - 1)
    <3> TAKE i \in 1..Len(net')
    <3>1. i \in 1..Len(net) - 1 /\ 1 + i \in 1..Len(net) /\ i \in Nat
      BY <1>1, <1>2, <1>6
    <3>2. net'[i] = net[1 + i]
      BY <1>2, <1>6, <3>1
    <3>3. net[1 + i][1] = dnonce + (1 + i - 1)
      BY <1>1, <3>1 DEF Records
    <3> QED
      BY <1>1, <1>4, <3>1, <3>2, <3>3
  <2>2. dnonce' + Len(net') = dnonce + Len(net)
    <3>1. Len(net') = Len(net) - 1
      BY <1>2, <1>6
    <3> QED
      BY <1>1, <1>4, <3>1
  <2>3. net' \in Seq(Record) /\ Len(rbuf') <= MaxPlaintext
    BY <1>2, <1>4, <1>6, <1>7
  <2>4. dnonce + Len(net) <= enonce /\ (~cut => dnonce + Len(net) = enonce)
    BY <1>1 DEF Records
  <2> QED
    BY <1>0, <2>1, <2>2, <2>3, <2>4 DEF Records
<1>16. Layers'
  BY <1>0, <1>15 DEF WireInv, Layers
<1> QED
  BY <1>12, <1>14, <1>16 DEF WireInv

\* What fits of a record is copied, and the rest kept.
LEMMA CopyRecordKeeps ==
    ASSUME WireInv, CopyRecord
    PROVE  WireInv'
<1>0. /\ layer = "secure" /\ ~Complete
      /\ UNCHANGED <<layer, unsent, out, wmu, enonce, sent, net, cut, dnonce, hi, failed, got>>
  BY DEF CopyRecord, Reading, ReadOnly, writeVars
<1>1. PICK ask \in Asks :
         LET n == IF Len(rbuf) < ask THEN Len(rbuf) ELSE ask
         IN  acc' = acc \o SubSeq(rbuf, 1, n) /\ rbuf' = SubSeq(rbuf, n + 1, Len(rbuf))
  BY DEF CopyRecord
<1> DEFINE n == IF Len(rbuf) < ask THEN Len(rbuf) ELSE ask
           a == SubSeq(rbuf, 1, n)
           b == SubSeq(rbuf, n + 1, Len(rbuf))
           p == FlattenSeq(Plaintexts(net))
<1>2. /\ rbuf \in Seq(Octet) /\ Len(rbuf) \in Nat /\ Want \in Nat /\ Records /\ net \in Seq(Record)
      /\ Len(rbuf) <= MaxPlaintext
  BY <1>0, WantIs, LenProperties DEF WireInv, Kinds, Layers, Records
<1>3. n \in 0..Len(rbuf) /\ n <= Want
  <2>1. ask \in Nat /\ ask <= Want
    BY <1>2 DEF Asks
  <2> QED
    BY <1>2, <2>1
<1>4. acc' = acc \o a /\ rbuf' = b
  BY <1>1
<1> HIDE DEF n
<1>5. a \in Seq(Octet) /\ Len(a) <= Want /\ b \in Seq(Octet) /\ a \o b = rbuf /\ Len(b) = Len(rbuf) - n
  BY <1>2, <1>3, SplitSeq
<1>6. p \in Seq(Octet)
  BY <1>2, PlaintextsType, FlattenType
<1>7. Decoded = rbuf \o p /\ Decoded' = rbuf' \o p
  BY <1>0, DecodedIs
<1> HIDE DEF a, b, p
<1>8. Decoded = a \o (b \o p)
  <2>1. a \o (b \o p) = (a \o b) \o p
    <3>1. a \in Seq(Octet) /\ b \in Seq(Octet) /\ p \in Seq(Octet)
      BY <1>5, <1>6
    <3> QED
      BY <3>1, Associative
  <2> QED
    BY <1>5, <1>7, <2>1
<1> DEFINE d == b \o p
<1>9. d \in Seq(Octet) /\ Decoded' = d /\ Decoded = a \o d
  BY <1>4, <1>5, <1>6, <1>7, <1>8, ConcatProperties
<1> HIDE DEF d
<1>10. PICK y \in Seq(Octet) : MakeUp(acc, y, Pending) /\ Raw(a \o d, Unwritten, cut, y)
  BY <1>0, <1>9 DEF WireInv, Exact, Holds
<1>11. PICK z \in Seq(Octet) : y = a \o z /\ Raw(d, Unwritten, cut, z)
  BY <1>5, <1>9, <1>10, RawTake
<1>12. MakeUp(acc, a \o z, Pending)
  BY <1>10, <1>11
<1>13. acc' \in Seq(Octet) /\ Within' /\ MakeUp(acc', z, Pending')
  BY <1>0, <1>4, <1>5, <1>12, Reads
<1>14. Unwritten' = Unwritten
  BY <1>0 DEF Unwritten
<1>15. Exact'
  BY <1>0, <1>9, <1>11, <1>13, <1>14, ExactNext
<1>16. Kinds' /\ Turns'
  BY <1>0, <1>4, <1>5, <1>13 DEF WireInv, Kinds, Turns
<1>17. Len(rbuf') <= MaxPlaintext
  BY <1>2, <1>3, <1>4, <1>5, Assumptions
<1>18. Layers'
  BY <1>0, <1>2, <1>17 DEF WireInv, Layers, Records
<1> QED
  BY <1>13, <1>15, <1>16, <1>18 DEF WireInv

\* What the reader has read is the next packet.
LEMMA DeliverIs ==
    ASSUME WireInv, Deliver, NEW p, p = sent[Len(got) + 1]
    PROVE  /\ p \in Packet /\ Len(got) < Len(sent) /\ got' = Append(got, p)
           /\ \A y \in Seq(Octet) : MakeUp(acc, y, Pending) => y = FlattenSeq(Waiting(sent, Append(got, p)))
<1>0. Complete /\ got' = Append(got, IF acc = Bytes(acc[1][1]) THEN acc[1][1] ELSE NoPacket)
  BY DEF Deliver
<1>1. acc \in Seq(Octet) /\ Len(acc) \in Nat
  BY LenProperties DEF WireInv, Kinds
<1>2. acc # <<>>
  <2>1. Len(acc) >= 2
    BY <1>0 DEF Complete, HeaderSize
  <2> QED
    BY <1>1, <2>1
<1> DEFINE b == Bytes(p)
           z == FlattenSeq(Waiting(sent, Append(got, p)))
<1>3. /\ p \in Packet /\ Len(got) < Len(sent) /\ Len(acc) <= Size(p)
      /\ \A i \in 1..Len(acc) : acc[i] = <<p, i>>
      /\ Pending = b \o z /\ z \in Seq(Octet)
  BY <1>2, PacketIs
<1>4. Len(acc) = Size(p) /\ acc[1][1] = p
  BY <1>0, <1>1, <1>3, WantFits
<1>5. b \in Seq(Octet) /\ Len(b) = Size(p)
  BY <1>3, BytesType
<1> HIDE DEF z
<1>6. \A y \in Seq(Octet) : MakeUp(acc, y, Pending) => acc = b /\ y = z
  <2> HIDE DEF b
  <2> SUFFICES ASSUME NEW y \in Seq(Octet), MakeUp(acc, y, Pending) PROVE acc = b /\ y = z
    OBVIOUS
  <2>1. acc \o y = b \o z /\ Len(acc) = Len(b) /\ Len(acc) <= Len(b)
    BY <1>1, <1>3, <1>4, <1>5 DEF MakeUp
  <2> QED
    BY <1>1, <1>3, <1>5, <2>1, CommonPrefix
<1>7. acc = b
  BY <1>6 DEF WireInv, Exact
<1> QED
  BY <1>0, <1>3, <1>4, <1>6, <1>7 DEF z

\* The packet is delivered, and the next begins where it ended.
LEMMA DeliverKeeps ==
    ASSUME WireInv, Deliver
    PROVE  WireInv'
<1>0. /\ acc' = <<>>
      /\ UNCHANGED <<layer, unsent, out, wmu, enonce, sent, net, cut, dnonce, rbuf, hi, failed>>
  BY DEF Deliver, writeVars
<1> DEFINE p == sent[Len(got) + 1]
           z == FlattenSeq(Waiting(sent, Append(got, p)))
<1>1. /\ p \in Packet /\ Len(got) < Len(sent) /\ got' = Append(got, p)
      /\ \A y \in Seq(Octet) : MakeUp(acc, y, Pending) => y = z
  BY DeliverIs
<1>2. got' \in Seq(Packet) /\ Len(got') = Len(got) + 1 /\ Len(got) \in Nat /\ Len(sent) \in Nat
  BY <1>1, AppendProperties, LenProperties DEF WireInv, Kinds
<1>3. Pending' = z
  BY <1>0, <1>1, PendingIs
<1> HIDE DEF p, z
<1>4. PICK y \in Seq(Octet) : MakeUp(acc, y, Pending) /\ Holds(y)
  BY DEF WireInv, Exact
<1>5. y = z
  BY <1>1, <1>4
<1>6. MakeUp(acc', y, Pending')
  BY <1>0, <1>3, <1>5, ConcatEmptySeq DEF MakeUp
<1>7. Unwritten' = Unwritten /\ Decoded' = Decoded
  BY <1>0 DEF Unwritten, Decoded
<1>8. Exact'
  <2>1. ASSUME layer = "hex" PROVE Hex(hi' \o DigitsIn(net'), Unwritten', cut', y)
    BY <1>0, <1>4, <1>7, <2>1 DEF Holds
  <2>2. ASSUME layer # "hex" PROVE Raw(Decoded', Unwritten', cut', y)
    BY <1>0, <1>4, <1>7, <2>2 DEF Holds
  <2>3. layer' = layer
    BY <1>0
  <2> QED
    BY <1>6, <2>1, <2>2, <2>3, ExactNext
<1>9. <<>> \in Seq(Octet)
  OBVIOUS
<1>10. Kinds' /\ Turns' /\ Layers'
  BY <1>0, <1>2, <1>9 DEF WireInv, Kinds, Turns, Layers, Records
<1>11. Within'
  BY <1>0, <1>1, <1>2 DEF Within
<1> QED
  BY <1>8, <1>10, <1>11 DEF WireInv

\* The reader fails at the end of a broken connection.
LEMMA ReadFailsKeeps ==
    ASSUME WireInv, ReadFails
    PROVE  WireInv'
<1>0. /\ failed' = TRUE
      /\ UNCHANGED <<layer, unsent, out, wmu, enonce, sent, net, cut, dnonce, rbuf, hi, acc, got>>
  BY DEF ReadFails, writeVars
<1>1. Kinds' /\ Turns' /\ Layers' /\ Within'
  BY <1>0 DEF WireInv, Kinds, Turns, Layers, Records, Within
<1>2. Unwritten' = Unwritten /\ Decoded' = Decoded /\ Pending' = Pending
  BY <1>0, PendingIs DEF Unwritten, Decoded
<1>3. Exact'
  BY <1>0, <1>2 DEF WireInv, Exact, Holds
<1> QED
  BY <1>1, <1>3 DEF WireInv

\* Nothing happens.
LEMMA StutterKeeps ==
    ASSUME WireInv, UNCHANGED wireVars
    PROVE  WireInv'
<1>0. UNCHANGED <<layer, unsent, out, wmu, enonce, sent, net, cut, dnonce, rbuf, hi, acc, failed, got>>
  BY DEF wireVars, writeVars, readVars
<1>1. Kinds' /\ Turns' /\ Layers' /\ Within'
  BY <1>0 DEF WireInv, Kinds, Turns, Layers, Records, Within
<1>2. Unwritten' = Unwritten /\ Decoded' = Decoded /\ Pending' = Pending
  BY <1>0, PendingIs DEF Unwritten, Decoded
<1>3. Exact'
  BY <1>0, <1>2 DEF WireInv, Exact, Holds
<1> QED
  BY <1>1, <1>3 DEF WireInv

-----------------------------------------------------------------------------
(* The theorems.                                                           *)

\* Every step keeps the invariant.
THEOREM WireInductive == WireSpec => []WireInv
<1>1. ASSUME WireInv, [WireNext]_wireVars PROVE WireInv'
  <2>1. CASE UNCHANGED wireVars
    BY <1>1, <2>1, StutterKeeps
  <2>2. CASE Break
    BY <1>1, <2>2, BreakKeeps
  <2>3. CASE Read
    BY <1>1, <2>3, ReadPlainKeeps, ReadHexKeeps, ReadRecordKeeps, CopyRecordKeeps, DeliverKeeps,
       ReadFailsKeeps DEF Read
  <2>4. ASSUME NEW w \in Writer, Write(w) PROVE WireInv'
    BY <1>1, <2>4, LockKeeps, WriteSliceKeeps, WriteRecordKeeps, UnlockKeeps, WriteFailsKeeps DEF Write
  <2> QED
    BY <1>1, <2>1, <2>2, <2>3, <2>4 DEF WireNext
<1> QED
  BY <1>1, InitHolds, PTL DEF WireSpec

\* A sequence is a prefix of any that continues it.
LEMMA PrefixIs ==
    ASSUME NEW S, NEW a \in Seq(S), NEW b \in Seq(S)
    PROVE  IsPrefix(a, a \o b)
<1> DEFINE c == a \o b
<1>1. c \in Seq(S) /\ Len(c) = Len(a) + Len(b) /\ Len(a) \in Nat /\ Len(b) \in Nat
  BY ConcatProperties, LenProperties
<1>2. \A i \in 1..Len(a) : c[i] = a[i]
  BY ConcatRight
<1> HIDE DEF c
<1>3. SubSeq(c, 1, Len(a)) = a
  <2> DEFINE n == Len(a)
             d == SubSeq(c, 1, n)
  <2>1. n \in 0..Len(c)
    BY <1>1
  <2> HIDE DEF n
  <2>2. d \in Seq(S) /\ Len(d) = n /\ \A i \in 1..n : d[i] = c[i]
    BY <1>1, <2>1, SplitSeq
  <2> HIDE DEF d
  <2>3. Len(d) = Len(a) /\ \A i \in 1..Len(d) : d[i] = a[i]
    BY <1>2, <2>2 DEF n
  <2>4. d = a
    BY <2>2, <2>3, SeqEqual
  <2> QED
    BY <2>4 DEF d, n
<1>4. SubSeq(a, 1, Len(a)) = a
  BY SubSeqFull
<1>5. IsPrefix(a, c)
  BY <1>1, <1>3, <1>4 DEF IsPrefix
<1> QED
  BY <1>5 DEF c

\* All digits on their way at once.
LEMMA HexTakeAll ==
    ASSUME NEW a \in Seq(Digit), NEW u, NEW broken, NEW y \in Seq(Octet), Hex(a, u, broken, y)
    PROVE  \E z \in Seq(Octet) :
              y = HexDecode(a) \o z /\ HexDecode(a) \in Seq(Octet) /\ Hex(Half(a), u, broken, z)
<1> DEFINE e == <<>>
<1>1. e \in Seq(Digit) /\ a \o e = a /\ Half(a) \o e = Half(a)
  BY HalfIs, ConcatEmptySeq
<1> HIDE DEF e
<1>2. Hex(a \o e, u, broken, y)
  BY <1>1
<1>3. PICK z \in Seq(Octet) :
         y = HexDecode(a) \o z /\ HexDecode(a) \in Seq(Octet) /\ Hex(Half(a) \o e, u, broken, z)
  BY <1>1, <1>2, HexTake
<1> QED
  BY <1>1, <1>3

\* What the digits say, and the writer has, is all there is.
LEMMA HexAll ==
    ASSUME NEW d \in Seq(Digit), NEW u \in Seq(Octet), NEW y \in Seq(Octet), Hex(d, u, FALSE, y)
    PROVE  y = HexDecode(d) \o u
<1>2. PICK z \in Seq(Octet) :
         y = HexDecode(d) \o z /\ HexDecode(d) \in Seq(Octet) /\ Hex(Half(d), u, FALSE, z)
  BY HexTakeAll
<1>3. Half(d) \in Seq(Digit) /\ Len(Half(d)) <= 1
  BY HalfIs
<1> DEFINE h == Half(d)
           e == DigitsOf(u)
           f == DigitsOf(z)
<1>4. f = h \o e
  BY <1>2, <1>3 DEF Hex
<1>5. /\ e \in Seq(Digit) /\ Len(e) = 2 * Len(u) /\ f \in Seq(Digit) /\ Len(f) = 2 * Len(z)
      /\ Len(u) \in Nat /\ Len(z) \in Nat
  BY DigitsOfType, LenProperties
<1>6. h \in Seq(Digit) /\ Len(h) <= 1 /\ Len(h) \in Nat
  BY <1>3, LenProperties
<1> HIDE DEF h, e, f
<1>7. Len(f) = Len(h) + Len(e)
  BY <1>4, <1>5, <1>6, ConcatProperties
<1>8. Len(h) = 0
  BY <1>5, <1>6, <1>7
<1>9. f = e
  <2>1. h = <<>>
    BY <1>6, <1>8, EmptySeq
  <2> QED
    BY <1>4, <1>5, <2>1, ConcatEmptySeq
<1>10. HexDecode(f) = z
  <2>1. HexDecode(f) = SubSeq(z, 1, Len(f) \div 2)
    BY <1>5, HexDecodePrefix DEF f
  <2>2. Len(f) \div 2 = Len(z)
    BY <1>5
  <2> QED
    BY <2>1, <2>2, SubSeqFull
<1>11. HexDecode(e) = u
  <2>1. HexDecode(e) = SubSeq(u, 1, Len(e) \div 2)
    BY <1>5, HexDecodePrefix DEF e
  <2>2. Len(e) \div 2 = Len(u)
    BY <1>5
  <2> QED
    BY <2>1, <2>2, SubSeqFull
<1> QED
  BY <1>2, <1>9, <1>10, <1>11

\* Every byte written is in one place, once and in order.
LEMMA AllOnce == WireInv => EveryByteOnce
<1> SUFFICES ASSUME WireInv PROVE EveryByteOnce
  OBVIOUS
<1>1. PICK y \in Seq(Octet) : MakeUp(acc, y, Pending) /\ Holds(y)
  BY DEF WireInv, Exact
<1>2. acc \in Seq(Octet) /\ Unwritten \in Seq(Octet)
  BY UnwrittenType DEF WireInv, Kinds
<1>3. ASSUME NEW d \in Seq(Octet), NEW z \in Seq(Octet), y = d \o z
      PROVE  IsPrefix(acc \o d, Pending) /\ Pending = (acc \o d) \o z
  <2>1. acc \o (d \o z) = (acc \o d) \o z
    BY <1>2, Associative
  <2>2. acc \o d \in Seq(Octet)
    BY <1>2, ConcatProperties
  <2> DEFINE e == acc \o d
  <2>3. Pending = e \o z /\ e \in Seq(Octet)
    BY <1>1, <1>3, <2>1, <2>2 DEF MakeUp
  <2> HIDE DEF e
  <2>4. IsPrefix(e, Pending)
    BY <2>3, PrefixIs
  <2> QED
    BY <2>3, <2>4 DEF e
<1>4. CASE layer = "hex"
  <2> DEFINE a == hi \o DigitsIn(net)
  <2>1. a \in Seq(Digit)
    BY <1>4, DigitsInType, ConcatProperties DEF WireInv, Kinds, Layers
  <2>2. Hex(a, Unwritten, cut, y) /\ Decoded = HexDecode(a)
    BY <1>1, <1>4 DEF Holds, Decoded
  <2> HIDE DEF a
  <2>4. PICK z \in Seq(Octet) : y = HexDecode(a) \o z /\ HexDecode(a) \in Seq(Octet)
    BY <2>1, <2>2, HexTakeAll
  <2>5. IsPrefix(acc \o Decoded, Pending)
    BY <1>3, <2>2, <2>4
  <2>6. ASSUME ~cut PROVE Pending = (acc \o Decoded) \o Unwritten
    <3>1. Hex(a, Unwritten, FALSE, y)
      BY <2>2, <2>6 DEF WireInv, Kinds
    <3>2. y = HexDecode(a) \o Unwritten
      BY <1>2, <2>1, <3>1, HexAll
    <3> QED
      BY <1>2, <1>3, <2>2, <2>4, <3>2
  <2> QED
    BY <2>5, <2>6 DEF EveryByteOnce
<1>5. CASE layer # "hex"
  <2>1. Decoded \in Seq(Octet) /\ Raw(Decoded, Unwritten, cut, y)
    BY <1>1, <1>5, DecodedType DEF WireInv, Holds
  <2>2. PICK z \in Seq(Octet) : y = Decoded \o z /\ (~cut => z = Unwritten)
    BY <2>1 DEF Raw
  <2>3. IsPrefix(acc \o Decoded, Pending) /\ Pending = (acc \o Decoded) \o z
    BY <1>3, <2>1, <2>2
  <2> QED
    BY <2>2, <2>3 DEF EveryByteOnce
<1> QED
  BY <1>4, <1>5

\* The buffers keep their bounds.
LEMMA InvTypes == WireInv => WireTypeOK
<1> SUFFICES ASSUME WireInv PROVE WireTypeOK
  OBVIOUS
<1>1. \A w \in Writer : out[w] # <<>> => unsent[w] # ToSend[w]
  <2> TAKE w \in Writer
  <2>1. Len(ToSend[w]) \in Nat
    BY Assumptions
  <2> QED
    BY <2>1 DEF WireInv, Turns
<1>2. layer = "secure" => \A i \in 1..Len(net) : Len(net[i][2]) \in 1..MaxPlaintext
  <2> SUFFICES ASSUME layer = "secure", NEW i \in 1..Len(net) PROVE Len(net[i][2]) \in 1..MaxPlaintext
    OBVIOUS
  <2>1. net \in Seq(Record)
    BY DEF WireInv, Layers, Records
  <2>2. net[i] \in Record
    BY <2>1, ElementOfSeq
  <2> DEFINE s == net[i][2]
  <2>3. s \in Seq(Octet) /\ s # <<>> /\ Len(s) <= MaxPlaintext
    BY <2>2 DEF Record, Slice
  <2> HIDE DEF s
  <2>4. Len(s) \in Nat /\ Len(s) # 0
    BY <2>3, LenProperties, EmptySeq
  <2>5. Len(s) \in 1..MaxPlaintext
    BY <2>3, <2>4, Assumptions
  <2> QED
    BY <2>5 DEF s
<1>3. Len(hi) <= 1
  <2>1. CASE layer = "hex"
    BY <2>1 DEF WireInv, Layers
  <2>2. CASE layer # "hex"
    BY <2>2 DEF WireInv, Layers
  <2> QED
    BY <2>1, <2>2
<1>4. Len(rbuf) <= MaxPlaintext
  <2>1. CASE layer = "secure"
    BY <2>1 DEF WireInv, Layers, Records
  <2>2. CASE layer # "secure"
    BY <2>2, Assumptions DEF WireInv, Layers
  <2> QED
    BY <2>1, <2>2
<1> QED
  BY <1>1, <1>2, <1>3, <1>4 DEF WireInv, Kinds, WireTypeOK

\* The stream is exact.
THEOREM StreamStaysExact == WireSpec => []StreamIsExact
<1>1. WireInv => StreamIsExact
  BY AllOnce, InvTypes DEF StreamIsExact
<1> QED
  BY <1>1, WireInductive, PTL

\* And so a connection implements a queue of packets.
THEOREM WireIsQueue == WireSpec => ImplementsPacketQueue
<1>1. WireInit => Queue!Init
  BY DEF WireInit, Queue!Init
<1>2. ASSUME WireInv, [WireNext]_wireVars PROVE [Queue!Next]_<<unsent, sent, got>>
  <2> USE DEF writeVars, readVars
  <2>1. CASE UNCHANGED wireVars
    BY <2>1 DEF wireVars
  <2>2. CASE Break
    BY <2>2 DEF Break
  <2>3. CASE Read
    <3>1. CASE Deliver
      <4> DEFINE p == sent[Len(got) + 1]
      <4>1. Len(got) < Len(sent) /\ got' = Append(got, p)
        BY <1>2, <3>1, DeliverIs
      <4>2. UNCHANGED <<unsent, sent>>
        BY <3>1 DEF Deliver
      <4> QED
        BY <4>1, <4>2 DEF Queue!Next, Queue!Receive
    <3>2. CASE ~Deliver
      BY <2>3, <3>2 DEF Read, ReadPlain, ReadHex, ReadRecord, CopyRecord, ReadFails, ReadOnly
    <3> QED
      BY <3>1, <3>2
  <2>4. ASSUME NEW w \in Writer, Write(w) PROVE [Queue!Next]_<<unsent, sent, got>>
    <3>1. CASE Lock(w)
      BY <3>1 DEF Lock, Queue!Next, Queue!Send
    <3>2. CASE WriteFails(w)
      BY <3>2 DEF WriteFails, Queue!Next, Queue!GiveUp
    <3>3. CASE WriteSlice(w) \/ WriteRecord(w) \/ Unlock(w)
      BY <3>3 DEF WriteSlice, WriteRecord, Unlock, WriteOnly
    <3> QED
      BY <2>4, <3>1, <3>2, <3>3 DEF Write
  <2> QED
    BY <1>2, <2>1, <2>2, <2>3, <2>4 DEF WireNext
<1>3. WireSpec => Queue!Spec
  BY <1>1, <1>2, WireInductive, PTL DEF WireSpec, Queue!Spec
<1> QED
  BY <1>3 DEF ImplementsPacketQueue

-----------------------------------------------------------------------------
(* The instances and processes of gomotes.                                 *)

Connecting == {"shake", "info", "abort", "up", "close", "fatal", "quit"}

Types ==
  /\ TypeOK /\ faults \in Nat
  /\ tmp \in [Clients -> BOOLEAN] /\ helper \in [Clients -> BOOLEAN]
  /\ seen \in [Clients -> BOOLEAN] /\ wedged \in [Clients -> SUBSET Wedges]
  /\ mute \in [Clients -> BOOLEAN]

\* A subprocess belongs to a connection, and a binary to a dial that has built it and
\* has not returned.
Belongings ==
  \A c \in Clients :
    /\ pc[c] \notin Connecting => proc[c] = "none" /\ ~helper[c]
    /\ tmp[c] => pc[c] \in {"put", "start", "shake", "info", "abort"}

\* mote close: the connections first, then the instances it listed, ours only.
Closing ==
  /\ closer = "each" => tried \subseteq Background /\ Background = todo \cup tried
  /\ closer # "each" => Background \subseteq tried
  /\ closer = "gomote" => \A i \in todo : i \in Insts /\ inst[i] \in {"ours", "gone"}
  /\ errs = {} => \A i \in tried \cap Insts : inst[i] = "gone"
  /\ found \subseteq Insts
  /\ closer = "gomote" => found \subseteq todo \cup tried
  /\ closer = "end" => errs # {} \/ found \subseteq tried

Inv == Types /\ InstancesAreOurs /\ OthersUntouched /\ Belongings /\ Closing

USE GomoteAssumption
USE DEF Inv, Types, TypeOK, Ways, InstancesAreOurs, OthersUntouched, Belongings, Connecting, Closing,
  svcVars, procVars, closeVars, cliVars

\* No command has begun, and the groups are as the service has them.
LEMMA InitInv == Init => Inv
BY DEF Init

\* Where a dial can be.
Place == {"list", "groups", "create", "build", "put", "start", "shake", "info", "abort", "up",
          "close", "fatal", "quit", "done", "failed"}

\* dialGomote returns, or goes on to the other way in.
LEMMA ReturnTypes ==
  ASSUME Inv, NEW c \in Clients, NEW to \in Place, Return(c, to)
  PROVE  pc' \in [Clients -> Place] /\ tmp' \in [Clients -> BOOLEAN]
BY DEF Return, Place

LEMMA NextWayTypes ==
  ASSUME Inv, NEW c \in Clients, NextWay(c)
  PROVE  pc' \in [Clients -> Place] /\ tmp' \in [Clients -> BOOLEAN] /\ way' \in [Clients -> Ways]
<1>1. CASE way[c] = "command"
  BY <1>1 DEF NextWay, Place
<1>2. CASE way[c] # "command"
  <2>1. Return(c, "failed") /\ UNCHANGED way
    BY <1>2 DEF NextWay
  <2> QED
    BY <2>1, ReturnTypes DEF Place
<1> QED
  BY <1>1, <1>2

\* A command dials, holds its session and closes it.
LEMMA ClientInv == ASSUME NEW c \in Clients, Inv, Dial(c) \/ InfoFails(c) \/ Ends(c) \/ Leave(c) PROVE Inv'
<1>1. CASE List(c)
  <2>1. Types'
    BY <1>1 DEF List, Step, Fault, Listed
  <2>2. (InstancesAreOurs /\ OthersUntouched)'
    BY <1>1 DEF List, Step, Fault, Listed
  <2>3. Belongings'
    BY <1>1 DEF List, Step, Fault, Listed
  <2>4. Closing'
    BY <1>1 DEF List, Step, Fault, Listed
  <2> QED
    BY <2>1, <2>2, <2>3, <2>4
<1>2. CASE GroupExists(c)
  <2>1. Types'
    BY <1>2 DEF GroupExists, Step, Fault
  <2>2. (InstancesAreOurs /\ OthersUntouched)'
    BY <1>2 DEF GroupExists, Step, Fault
  <2>3. Belongings'
    BY <1>2 DEF GroupExists, Step, Fault
  <2>4. Closing'
    BY <1>2 DEF GroupExists, Step, Fault
  <2> QED
    BY <2>1, <2>2, <2>3, <2>4
<1>3. CASE Create(c)
  <2>1. Types'
    BY <1>3 DEF Create, Step, Fault, Membership
  <2>2. (InstancesAreOurs /\ OthersUntouched)'
    BY <1>3 DEF Create, Step, Fault, Membership
  <2>3. Belongings'
    BY <1>3 DEF Create, Step, Fault, Membership
  <2>4. Closing'
    BY <1>3 DEF Create, Step, Fault, Membership
  <2> QED
    BY <2>1, <2>2, <2>3, <2>4
<1>4. CASE Build(c)
  <2>1. Types'
    BY <1>4 DEF Build, Step, Fault
  <2>2. (InstancesAreOurs /\ OthersUntouched)'
    BY <1>4 DEF Build, Step, Fault
  <2>3. Belongings'
    BY <1>4 DEF Build, Step, Fault
  <2>4. Closing'
    BY <1>4 DEF Build, Step, Fault
  <2> QED
    BY <2>1, <2>2, <2>3, <2>4
<1>5. CASE Put(c)
  <2>1. Types'
    <3>1. CASE Return(c, "failed")
      BY <1>5, <3>1, ReturnTypes DEF Put, Fault, Place
    <3>2. CASE pc' = [pc EXCEPT ![c] = "start"] /\ UNCHANGED <<tmp, faults>>
      BY <1>5, <3>2 DEF Put
    <3> QED
      BY <1>5, <3>1, <3>2 DEF Put
  <2>2. (InstancesAreOurs /\ OthersUntouched)'
    BY <1>5 DEF Put, Return, Fault
  <2>3. Belongings'
    BY <1>5 DEF Put, Return, Fault
  <2>4. Closing'
    BY <1>5 DEF Put, Return, Fault
  <2> QED
    BY <2>1, <2>2, <2>3, <2>4
<1>6. CASE StartProc(c)
  <2>1. Types'
    <3>1. CASE NextWay(c) /\ Fault /\ UNCHANGED procVars
      BY <1>6, <3>1, NextWayTypes DEF StartProc, Fault, Place
    <3>2. CASE /\ pc' = [pc EXCEPT ![c] = "shake"] /\ UNCHANGED <<wedged, way, tmp, faults>>
               /\ proc' = [proc EXCEPT ![c] = "running"] /\ helper' = [helper EXCEPT ![c] = TRUE]
      BY <1>6, <3>2 DEF StartProc
    <3> QED
      BY <1>6, <3>1, <3>2 DEF StartProc
  <2>2. (InstancesAreOurs /\ OthersUntouched)'
    BY <1>6 DEF StartProc, NextWay, Return, Fault
  <2>3. Belongings'
    BY <1>6 DEF StartProc, NextWay, Return, Fault
  <2>4. Closing'
    BY <1>6 DEF StartProc, NextWay, Return, Fault
  <2> QED
    BY <2>1, <2>2, <2>3, <2>4
<1>7. CASE Hello(c)
  <2>1. Types'
    <3>1. pc' \in [Clients -> Place] /\ faults' \in Nat
      BY <1>7 DEF Hello, Fault, Place
    <3>2. wedged' = wedged \/ CloseInput(c)
      BY <1>7 DEF Hello
    <3>3. wedged' \in [Clients -> SUBSET Wedges]
      <4>1. CASE wedged' = wedged
        BY <4>1
      <4>2. CASE CloseInput(c)
        <5>1. PICK w \in SUBSET Wedges : wedged' = [wedged EXCEPT ![c] = w]
          BY <4>2 DEF CloseInput
        <5>2. wedged \in [Clients -> SUBSET Wedges]
          OBVIOUS
        <5> HIDE DEF Inv
        <5> QED
          BY <5>1, <5>2
      <4> QED
        BY <3>2, <4>1, <4>2
    <3>4. mute' = mute \/ mute' = [mute EXCEPT ![c] = TRUE]
      BY <1>7 DEF Hello
    <3>5. mute' \in [Clients -> BOOLEAN]
      BY <3>4
    <3> QED
      BY <1>7, <3>1, <3>3, <3>5 DEF Hello, Place
  <2>2. (InstancesAreOurs /\ OthersUntouched)'
    BY <1>7 DEF Hello, CloseInput, Fault
  <2>3. Belongings'
    BY <1>7 DEF Hello, CloseInput, Fault
  <2>4. Closing'
    BY <1>7 DEF Hello, CloseInput, Fault
  <2> QED
    BY <2>1, <2>2, <2>3, <2>4
<1>13. CASE Info(c)
  <2>1. Types'
    BY <1>13, ReturnTypes DEF Info, Place
  <2>2. (InstancesAreOurs /\ OthersUntouched)'
    BY <1>13 DEF Info, Return
  <2>3. Belongings'
    BY <1>13 DEF Info, Return
  <2>4. Closing'
    BY <1>13 DEF Info, Return
  <2> QED
    BY <2>1, <2>2, <2>3, <2>4
<1>14. CASE InfoFails(c)
  <2>1. Types'
    BY <1>14 DEF InfoFails, CloseInput, Fault
  <2>2. (InstancesAreOurs /\ OthersUntouched)'
    BY <1>14 DEF InfoFails, CloseInput, Fault
  <2>3. Belongings'
    BY <1>14 DEF InfoFails, CloseInput, Fault
  <2>4. Closing'
    BY <1>14 DEF InfoFails, CloseInput, Fault
  <2> QED
    BY <2>1, <2>2, <2>3, <2>4
<1>8. CASE Ends(c)
  <2>1. Types'
    BY <1>8 DEF Ends
  <2>2. (InstancesAreOurs /\ OthersUntouched)'
    BY <1>8 DEF Ends
  <2>3. Belongings'
    BY <1>8 DEF Ends
  <2>4. Closing'
    BY <1>8 DEF Ends
  <2> QED
    BY <2>1, <2>2, <2>3, <2>4
<1>9. CASE Kill(c)
  <2>1. Types'
    BY <1>9 DEF Kill
  <2>2. (InstancesAreOurs /\ OthersUntouched)'
    BY <1>9 DEF Kill
  <2>3. Belongings'
    BY <1>9 DEF Kill
  <2>4. Closing'
    BY <1>9 DEF Kill
  <2> QED
    BY <2>1, <2>2, <2>3, <2>4
<1>10. CASE AbortDone(c)
  <2>1. Types'
    BY <1>10, NextWayTypes DEF AbortDone, Place
  <2>2. (InstancesAreOurs /\ OthersUntouched)'
    BY <1>10 DEF AbortDone, Waited, NextWay, Return
  <2>3. Belongings'
    BY <1>10 DEF AbortDone, Waited, NextWay, Return
  <2>4. Closing'
    BY <1>10 DEF AbortDone, Waited, NextWay, Return
  <2> QED
    BY <2>1, <2>2, <2>3, <2>4
<1>11. CASE SessionEnds(c)
  <2>1. Types'
    BY <1>11 DEF SessionEnds, CloseInput
  <2>2. (InstancesAreOurs /\ OthersUntouched)'
    BY <1>11 DEF SessionEnds, CloseInput
  <2>3. Belongings'
    BY <1>11 DEF SessionEnds, CloseInput
  <2>4. Closing'
    BY <1>11 DEF SessionEnds, CloseInput
  <2> QED
    BY <2>1, <2>2, <2>3, <2>4
<1>12. CASE CloseDone(c)
  <2>1. Types'
    BY <1>12 DEF CloseDone, Waited
  <2>2. (InstancesAreOurs /\ OthersUntouched)'
    BY <1>12 DEF CloseDone, Waited
  <2>3. Belongings'
    BY <1>12 DEF CloseDone, Waited
  <2>4. Closing'
    BY <1>12 DEF CloseDone, Waited
  <2> QED
    BY <2>1, <2>2, <2>3, <2>4
<1>15. CASE SessionFails(c)
  <2>1. Types'
    BY <1>15 DEF SessionFails, CloseInput
  <2>2. (InstancesAreOurs /\ OthersUntouched)'
    BY <1>15 DEF SessionFails, CloseInput
  <2>3. Belongings'
    BY <1>15 DEF SessionFails, CloseInput
  <2>4. Closing'
    BY <1>15 DEF SessionFails, CloseInput
  <2> QED
    BY <2>1, <2>2, <2>3, <2>4
<1>16. CASE FatalDone(c)
  <2>1. Types'
    BY <1>16 DEF FatalDone, Waited
  <2>2. (InstancesAreOurs /\ OthersUntouched)'
    BY <1>16 DEF FatalDone, Waited
  <2>3. Belongings'
    BY <1>16 DEF FatalDone, Waited
  <2>4. Closing'
    BY <1>16 DEF FatalDone, Waited
  <2> QED
    BY <2>1, <2>2, <2>3, <2>4
<1>17. CASE Quits(c)
  <2>1. Types'
    BY <1>17 DEF Quits, CloseInput
  <2>2. (InstancesAreOurs /\ OthersUntouched)'
    BY <1>17 DEF Quits, CloseInput
  <2>3. Belongings'
    BY <1>17 DEF Quits, CloseInput
  <2>4. Closing'
    BY <1>17 DEF Quits, CloseInput
  <2> QED
    BY <2>1, <2>2, <2>3, <2>4
<1> QED
  BY <1>1, <1>2, <1>3, <1>4, <1>5, <1>6, <1>7, <1>8, <1>9, <1>10, <1>11, <1>12,
     <1>13, <1>14, <1>15, <1>16, <1>17 DEF Dial, Leave

\* mote close goes on.
LEMMA CloseInv == ASSUME Inv, Close PROVE Inv'
<1>1. CASE CloseEach
  <2>1. Types'
    BY <1>1 DEF CloseEach, Fault
  <2>2. (InstancesAreOurs /\ OthersUntouched)'
    BY <1>1 DEF CloseEach, Fault
  <2>3. Belongings'
    BY <1>1 DEF CloseEach, Fault
  <2>4. Closing'
    BY <1>1 DEF CloseEach, Fault
  <2> QED
    BY <2>1, <2>2, <2>3, <2>4
<1>2. CASE ToGomotes
  <2>1. Types'
    BY <1>2 DEF ToGomotes, OurInsts, Fault
  <2>2. (InstancesAreOurs /\ OthersUntouched)'
    BY <1>2 DEF ToGomotes, OurInsts, Fault
  <2>3. Belongings'
    BY <1>2 DEF ToGomotes, OurInsts, Fault
  <2>4. Closing'
    BY <1>2 DEF ToGomotes, OurInsts, Fault
  <2> QED
    BY <2>1, <2>2, <2>3, <2>4
<1>3. CASE Destroy
  <2>1. Types'
    BY <1>3 DEF Destroy, AfterFailure, Fault
  <2>2. (InstancesAreOurs /\ OthersUntouched)'
    BY <1>3 DEF Destroy, AfterFailure, Fault
  <2>3. Belongings'
    BY <1>3 DEF Destroy, AfterFailure, Fault
  <2>4. Closing'
    BY <1>3 DEF Destroy, AfterFailure, Fault
  <2> QED
    BY <2>1, <2>2, <2>3, <2>4
<1>4. CASE CloseEnds
  <2>1. Types'
    BY <1>4 DEF CloseEnds
  <2>2. (InstancesAreOurs /\ OthersUntouched)'
    BY <1>4 DEF CloseEnds
  <2>3. Belongings'
    BY <1>4 DEF CloseEnds
  <2>4. Closing'
    BY <1>4 DEF CloseEnds
  <2> QED
    BY <2>1, <2>2, <2>3, <2>4
<1> QED
  BY <1>1, <1>2, <1>3, <1>4 DEF Close

HIDE DEF Inv

\* The inductive invariant holds in every behaviour.
THEOREM Inductive == Spec => []Inv
<1>1. Inv /\ [Next]_vars => Inv'
  <2>1. Inv /\ UNCHANGED vars => Inv'
    BY DEF Inv, vars
  <2> QED
    BY <2>1, ClientInv, CloseInv DEF Next, Done
<1> QED
  BY InitInv, <1>1, PTL DEF Spec

\* However many commands dial while mote close runs: they use, and it destroys,
\* instances of mote's group only; it tries every ssh connection and daemon, and
\* reports success only when every instance that it has listed is destroyed.
THEOREM OursOnly == Spec => []GomotesAreOurs
<1>1. Inv => GomotesAreOurs
  <2>1. Inv /\ closer = "end" /\ errs = {} => \A i \in found : inst[i] = "gone"
    BY DEF Inv
  <2> QED
    BY <2>1 DEF Inv, GomotesAreOurs, CloseGoesOn
<1> QED
  BY Inductive, <1>1, PTL

\* However a dial fails, no subprocess and no binary stay, and the second way in
\* is not tried before the first one's processes are gone.
THEOREM Tidy == Spec => []DialIsTidy
<1>1. Inv => DialIsTidy
  BY DEF Inv, DialIsTidy, NothingLeftBehind, OneWayAtATime
<1> QED
  BY Inductive, <1>1, PTL
=============================================================================
