--------------------------- MODULE SequenceLemmas ---------------------------
(***************************************************************************)
(* Facts about sequences that the proofs of several components use: what   *)
(* push_back and pop_front do to the elements of a queue and to their      *)
(* order, what one more pair does to a record of pairs, and where the      *)
(* lines of a byte stream (Framing) begin and end.                         *)
(***************************************************************************)
EXTENDS Framing, WellFoundedInduction, SequenceTheorems, TLAPS

-----------------------------------------------------------------------------
(* Queues *)

Elements(s) == {s[i] : i \in DOMAIN s}
Injective(s) == \A i, j \in DOMAIN s : s[i] = s[j] => i = j

\* push_back adds one element and keeps the others.
LEMMA AppendElements ==
    ASSUME NEW S, NEW s \in Seq(S), NEW x \in S
    PROVE  /\ Append(s, x) \in Seq(S)
           /\ Elements(Append(s, x)) = Elements(s) \cup {x}
           /\ (Injective(s) /\ x \notin Elements(s)) => Injective(Append(s, x))
  <1>1. /\ Append(s, x) \in Seq(S)
        /\ DOMAIN s = 1..Len(s) /\ Len(s) \in Nat
        /\ DOMAIN Append(s, x) = 1..(Len(s) + 1)
        /\ \A i \in 1..Len(s) : Append(s, x)[i] = s[i]
        /\ Append(s, x)[Len(s) + 1] = x
    OBVIOUS
  <1>2. Elements(Append(s, x)) = Elements(s) \cup {x}
    <2>1. ASSUME NEW e PROVE e \in Elements(Append(s, x)) <=> e \in Elements(s) \cup {x}
      BY <1>1, SMT DEF Elements
    <2> QED BY <2>1
  <1>3. ASSUME Injective(s), x \notin Elements(s) PROVE Injective(Append(s, x))
    <2>1. ASSUME NEW i \in 1..(Len(s) + 1), NEW j \in 1..(Len(s) + 1),
                 Append(s, x)[i] = Append(s, x)[j]
          PROVE i = j
      BY <1>1, <1>3, <2>1, SMT DEF Elements, Injective
    <2> QED BY <1>1, <2>1 DEF Injective
  <1> QED BY <1>1, <1>2, <1>3

\* pop_front takes away the first element and keeps the others.
LEMMA TailElements ==
    ASSUME NEW S, NEW s \in Seq(S), s # <<>>
    PROVE  /\ Head(s) \in S /\ Tail(s) \in Seq(S)
           /\ Elements(s) = Elements(Tail(s)) \cup {Head(s)}
           /\ Injective(s) => Injective(Tail(s)) /\ Head(s) \notin Elements(Tail(s))
  <1>1. /\ Len(s) \in Nat \ {0} /\ DOMAIN s = 1..Len(s)
        /\ Head(s) = s[1] /\ Head(s) \in S
        /\ Tail(s) \in Seq(S)
        /\ DOMAIN Tail(s) = 1..(Len(s) - 1)
        /\ \A i \in 1..(Len(s) - 1) : Tail(s)[i] = s[i + 1]
    OBVIOUS
  <1>2. Elements(s) = Elements(Tail(s)) \cup {Head(s)}
    <2>1. ASSUME NEW e \in Elements(s) PROVE e \in Elements(Tail(s)) \cup {Head(s)}
      <3>1. PICK i \in 1..Len(s) : e = s[i]
        BY <1>1 DEF Elements
      <3>2. CASE i = 1
        BY <1>1, <3>1, <3>2
      <3>3. CASE i # 1
        <4>1. i - 1 \in 1..(Len(s) - 1) /\ Tail(s)[i - 1] = e
          BY <1>1, <3>1, <3>3
        <4> QED BY <1>1, <4>1 DEF Elements
      <3> QED BY <3>2, <3>3
    <2>2. ASSUME NEW e \in Elements(Tail(s)) PROVE e \in Elements(s)
      <3>1. PICK i \in 1..(Len(s) - 1) : e = Tail(s)[i]
        BY <1>1 DEF Elements
      <3>2. i + 1 \in 1..Len(s) /\ s[i + 1] = e
        BY <1>1, <3>1
      <3> QED BY <1>1, <3>2 DEF Elements
    <2>3. Head(s) \in Elements(s)
      <3>1. 1 \in 1..Len(s)
        BY <1>1
      <3> QED BY <1>1, <3>1 DEF Elements
    <2> QED BY <2>1, <2>2, <2>3
  <1>3. ASSUME Injective(s)
        PROVE  Injective(Tail(s)) /\ Head(s) \notin Elements(Tail(s))
    <2>1. ASSUME NEW i \in 1..(Len(s) - 1), NEW j \in 1..(Len(s) - 1), Tail(s)[i] = Tail(s)[j]
          PROVE  i = j
      <3>1. s[i + 1] = s[j + 1] /\ i + 1 \in DOMAIN s /\ j + 1 \in DOMAIN s
        BY <1>1, <2>1
      <3>2. i + 1 = j + 1
        BY <1>3, <3>1 DEF Injective
      <3> QED BY <3>2
    <2>2. ASSUME NEW i \in 1..(Len(s) - 1) PROVE Tail(s)[i] # s[1]
      <3>1. i + 1 \in DOMAIN s /\ 1 \in DOMAIN s /\ Tail(s)[i] = s[i + 1] /\ i + 1 # 1
        BY <1>1
      <3> QED BY <1>3, <3>1 DEF Injective
    <2> QED BY <1>1, <2>1, <2>2 DEF Injective, Elements
  <1> QED BY <1>1, <1>2, <1>3

\* One more pair at the end of a record of pairs adds its first part.
Firsts(s) == {s[i][1] : i \in DOMAIN s}
DistinctFirsts(s) == \A i, j \in DOMAIN s : s[i][1] = s[j][1] => i = j

LEMMA AppendFirsts ==
    ASSUME NEW M, NEW C, NEW s \in Seq(M \X C), NEW m \in M, NEW c \in C
    PROVE  /\ Append(s, <<m, c>>) \in Seq(M \X C)
           /\ Firsts(Append(s, <<m, c>>)) = Firsts(s) \cup {m}
           /\ DistinctFirsts(s) /\ m \notin Firsts(s) => DistinctFirsts(Append(s, <<m, c>>))
  <1> DEFINE t == Append(s, <<m, c>>)
  <1>1. /\ t \in Seq(M \X C)
        /\ DOMAIN s = 1..Len(s) /\ Len(s) \in Nat
        /\ DOMAIN t = 1..(Len(s) + 1)
        /\ \A i \in 1..Len(s) : t[i] = s[i]
        /\ t[Len(s) + 1] = <<m, c>>
    OBVIOUS
  <1> HIDE DEF t
  <1>2. Firsts(t) = Firsts(s) \cup {m}
    <2>1. ASSUME NEW e PROVE e \in Firsts(t) <=> e \in Firsts(s) \cup {m}
      BY <1>1, SMTT(30) DEF Firsts
    <2> QED BY <2>1
  <1>3. ASSUME DistinctFirsts(s), m \notin Firsts(s) PROVE DistinctFirsts(t)
    <2>1. ASSUME NEW i \in 1..Len(s) PROVE t[i][1] \in Firsts(s)
      BY <1>1 DEF Firsts
    <2>2. t[Len(s) + 1][1] = m
      BY <1>1
    <2>3. ASSUME NEW i \in 1..Len(s), NEW j \in 1..Len(s), t[i][1] = t[j][1] PROVE i = j
      BY <1>1, <1>3, <2>3 DEF DistinctFirsts
    <2>4. ASSUME NEW i \in DOMAIN t, NEW j \in DOMAIN t, t[i][1] = t[j][1] PROVE i = j
      BY <1>1, <1>3, <2>1, <2>2, <2>3, <2>4
    <2> QED BY <2>4 DEF DistinctFirsts
  <1> QED BY <1>1, <1>2, <1>3 DEF t

\* Where the elements of a queue are after a push_back and after a pop_front
LEMMA Pushed ==
    ASSUME NEW S, NEW s \in Seq(S), NEW x \in S
    PROVE  /\ Len(s) \in Nat /\ Len(Append(s, x)) = Len(s) + 1
           /\ \A i \in 1..Len(s) : Append(s, x)[i] = s[i]
           /\ Append(s, x)[Len(s) + 1] = x
  OBVIOUS

LEMMA Popped ==
    ASSUME NEW S, NEW s \in Seq(S), s # <<>>
    PROVE  /\ Len(s) \in Nat \ {0} /\ Len(Tail(s)) = Len(s) - 1
           /\ Head(s) = s[1] /\ Head(s) \in S
           /\ \A i \in 1..(Len(s) - 1) : Tail(s)[i] = s[i + 1]
  OBVIOUS

\* Parts of a sequence
LEMMA PartOfSequence ==
    ASSUME NEW S, NEW s \in Seq(S), NEW a \in Nat \ {0}, NEW b \in 0..Len(s)
    PROVE  SubSeq(s, a, b) \in Seq(S)
  <1>1. \A i \in a..b : s[i] \in S
    BY ElementOfSeq
  <1> QED BY <1>1, SubSeqProperties

LEMMA RestOfSequence ==
    ASSUME NEW S, NEW s \in Seq(S), NEW n \in 0..Len(s)
    PROVE  SubSeq(s, n + 1, Len(s)) \in Seq(S) /\ SubSeq(s, 1, n) \in Seq(S)
  <1>1. n + 1 \in Nat \ {0} /\ Len(s) \in 0..Len(s) /\ 1 \in Nat \ {0}
    OBVIOUS
  <1> QED BY <1>1, PartOfSequence

\* A function on 1..m is a sequence of m elements.
LEMMA MadeSeq ==
    ASSUME NEW S, NEW m \in Nat, NEW f \in [1..m -> S]
    PROVE  f \in Seq(S) /\ Len(f) = m
  BY SeqDef

\* Two more elements behind a sequence
LEMMA TwoMore ==
    ASSUME NEW S, NEW a \in Seq(S), NEW b \in Seq(S), Len(b) = 2
    PROVE  /\ Len(a) \in Nat /\ DOMAIN a = 1..Len(a)
           /\ DOMAIN (a \o b) = 1..(Len(a) + 2) /\ Len(a \o b) = Len(a) + 2
           /\ \A i \in 1..Len(a) : (a \o b)[i] = a[i]
           /\ (a \o b)[Len(a) + 1] = b[1] /\ (a \o b)[Len(a) + 2] = b[2]
  <1>1. Len(a) \in Nat /\ DOMAIN a = 1..Len(a)
    OBVIOUS
  <1>2. a \o b \in Seq(S) /\ Len(a \o b) = Len(a) + Len(b)
    BY ConcatProperties
  <1>3. \A i \in 1..Len(a) + Len(b) : (a \o b)[i] = IF i <= Len(a) THEN a[i] ELSE b[i - Len(a)]
    BY ConcatProperties
  <1>4. DOMAIN (a \o b) = 1..Len(a \o b)
    BY <1>2
  <1>5. /\ \A i \in 1..Len(a) : i \in 1..Len(a) + Len(b) /\ i <= Len(a)
        /\ Len(a) + 1 \in 1..Len(a) + Len(b) /\ ~(Len(a) + 1 <= Len(a)) /\ (Len(a) + 1) - Len(a) = 1
        /\ Len(a) + 2 \in 1..Len(a) + Len(b) /\ ~(Len(a) + 2 <= Len(a)) /\ (Len(a) + 2) - Len(a) = 2
    BY <1>1
  <1> QED BY <1>1, <1>2, <1>3, <1>4, <1>5

-----------------------------------------------------------------------------
(* Order *)

Precedes(s, a, b) == \E i, j \in DOMAIN s : i < j /\ s[i] = a /\ s[j] = b
FirstsPrecede(s, a, b) == \E i, j \in DOMAIN s : i < j /\ s[i][1] = a /\ s[j][1] = b

\* What is appended comes after all there is, and changes no order.
LEMMA AppendPrecedes ==
    ASSUME NEW S, NEW s \in Seq(S), NEW x \in S
    PROVE  \A a, b : Precedes(Append(s, x), a, b)
                       <=> Precedes(s, a, b) \/ (b = x /\ a \in Elements(s))
  <1> DEFINE t == Append(s, x)
  <1>1. /\ DOMAIN s = 1..Len(s) /\ Len(s) \in Nat
        /\ DOMAIN t = 1..(Len(s) + 1)
        /\ \A i \in 1..Len(s) : t[i] = s[i]
        /\ t[Len(s) + 1] = x
    OBVIOUS
  <1> HIDE DEF t
  <1> SUFFICES ASSUME NEW a, NEW b
               PROVE  Precedes(t, a, b) <=> Precedes(s, a, b) \/ (b = x /\ a \in Elements(s))
    BY Zenon DEF t
  <1>2. ASSUME Precedes(t, a, b) PROVE Precedes(s, a, b) \/ (b = x /\ a \in Elements(s))
    <2>1. PICK i, j \in 1..(Len(s) + 1) : i < j /\ t[i] = a /\ t[j] = b
      BY <1>1, <1>2 DEF Precedes
    <2>2. i \in 1..Len(s) /\ (j \in 1..Len(s) \/ j = Len(s) + 1)
      BY <1>1, <2>1
    <2> QED BY <1>1, <2>1, <2>2 DEF Precedes, Elements
  <1>3. ASSUME Precedes(s, a, b) PROVE Precedes(t, a, b)
    <2>1. PICK i, j \in 1..Len(s) : i < j /\ s[i] = a /\ s[j] = b
      BY <1>1, <1>3 DEF Precedes
    <2>2. i \in 1..(Len(s) + 1) /\ j \in 1..(Len(s) + 1) /\ t[i] = a /\ t[j] = b
      BY <1>1, <2>1
    <2> QED BY <1>1, <2>1, <2>2 DEF Precedes
  <1>4. ASSUME b = x, a \in Elements(s) PROVE Precedes(t, a, b)
    <2>1. PICK i \in 1..Len(s) : s[i] = a
      BY <1>1, <1>4 DEF Elements
    <2>2. /\ i \in 1..(Len(s) + 1) /\ Len(s) + 1 \in 1..(Len(s) + 1) /\ i < Len(s) + 1
          /\ t[i] = a /\ t[Len(s) + 1] = b
      BY <1>1, <1>4, <2>1
    <2> QED BY <1>1, <2>2 DEF Precedes
  <1> QED BY <1>2, <1>3, <1>4

\* The first element comes before all the others, whose order it does not touch.
LEMMA TailPrecedes ==
    ASSUME NEW S, NEW s \in Seq(S), s # <<>>
    PROVE  \A a, b : Precedes(s, a, b)
                       <=> Precedes(Tail(s), a, b) \/ (a = Head(s) /\ b \in Elements(Tail(s)))
  <1> DEFINE t == Tail(s)
  <1>1. /\ DOMAIN s = 1..Len(s) /\ Len(s) \in Nat \ {0} /\ Head(s) = s[1]
        /\ DOMAIN t = 1..(Len(s) - 1)
        /\ \A i \in 1..(Len(s) - 1) : t[i] = s[i + 1]
    OBVIOUS
  <1> HIDE DEF t
  <1> SUFFICES ASSUME NEW a, NEW b
               PROVE  Precedes(s, a, b)
                        <=> Precedes(t, a, b) \/ (a = Head(s) /\ b \in Elements(t))
    BY Zenon DEF t
  <1>2. ASSUME Precedes(s, a, b) PROVE Precedes(t, a, b) \/ (a = Head(s) /\ b \in Elements(t))
    <2>1. PICK i, j \in 1..Len(s) : i < j /\ s[i] = a /\ s[j] = b
      BY <1>1, <1>2 DEF Precedes
    <2>2. j - 1 \in 1..(Len(s) - 1) /\ t[j - 1] = b
      BY <1>1, <2>1
    <2>3. CASE i = 1
      BY <1>1, <2>1, <2>2, <2>3 DEF Elements
    <2>4. CASE i # 1
      <3>1. i - 1 \in 1..(Len(s) - 1) /\ t[i - 1] = a /\ i - 1 < j - 1
        BY <1>1, <2>1, <2>4
      <3> QED BY <1>1, <2>2, <3>1 DEF Precedes
    <2> QED BY <2>3, <2>4
  <1>3. ASSUME Precedes(t, a, b) PROVE Precedes(s, a, b)
    <2>1. PICK i, j \in 1..(Len(s) - 1) : i < j /\ t[i] = a /\ t[j] = b
      BY <1>1, <1>3 DEF Precedes
    <2>2. /\ i + 1 \in 1..Len(s) /\ j + 1 \in 1..Len(s) /\ i + 1 < j + 1
          /\ s[i + 1] = a /\ s[j + 1] = b
      BY <1>1, <2>1
    <2> QED BY <1>1, <2>2 DEF Precedes
  <1>4. ASSUME a = Head(s), b \in Elements(t) PROVE Precedes(s, a, b)
    <2>1. PICK j \in 1..(Len(s) - 1) : t[j] = b
      BY <1>1, <1>4 DEF Elements
    <2>2. /\ 1 \in 1..Len(s) /\ j + 1 \in 1..Len(s) /\ 1 < j + 1
          /\ s[1] = a /\ s[j + 1] = b
      BY <1>1, <1>4, <2>1
    <2> QED BY <1>1, <2>2 DEF Precedes
  <1> QED BY <1>2, <1>3, <1>4

\* The same for the first parts of a record of pairs
LEMMA AppendFirstsPrecede ==
    ASSUME NEW M, NEW C, NEW s \in Seq(M \X C), NEW m \in M, NEW c \in C
    PROVE  \A a, b : FirstsPrecede(Append(s, <<m, c>>), a, b)
                       => FirstsPrecede(s, a, b) \/ (b = m /\ a \in Firsts(s))
  <1> DEFINE t == Append(s, <<m, c>>)
  <1>1. /\ DOMAIN s = 1..Len(s) /\ Len(s) \in Nat
        /\ DOMAIN t = 1..(Len(s) + 1)
        /\ \A i \in 1..Len(s) : t[i] = s[i]
        /\ t[Len(s) + 1] = <<m, c>>
    OBVIOUS
  <1> HIDE DEF t
  <1> SUFFICES ASSUME NEW a, NEW b, FirstsPrecede(t, a, b)
               PROVE  FirstsPrecede(s, a, b) \/ (b = m /\ a \in Firsts(s))
    BY Zenon DEF t
  <1>2. PICK i, j \in 1..(Len(s) + 1) : i < j /\ t[i][1] = a /\ t[j][1] = b
    BY <1>1 DEF FirstsPrecede
  <1>3. i \in 1..Len(s) /\ s[i][1] = a /\ a \in Firsts(s)
    BY <1>1, <1>2 DEF Firsts
  <1>4. CASE j \in 1..Len(s)
    <2>1. s[j][1] = b
      BY <1>1, <1>2, <1>4
    <2> QED BY <1>1, <1>2, <1>3, <1>4, <2>1 DEF FirstsPrecede
  <1>5. CASE j = Len(s) + 1
    BY <1>1, <1>2, <1>3, <1>5
  <1> QED BY <1>1, <1>2, <1>4, <1>5

-----------------------------------------------------------------------------
(* Induction, as the provers can use it: on a set, not on a predicate *)

Below == {p \in Nat \X Nat : p[1] < p[2]}

LEMMA Smallest ==
    ASSUME NEW T \in SUBSET Nat, T # {}
    PROVE  \E m \in T : \A k \in T : m <= k
  <1>1. IsWellFoundedOn(Below, Nat)
    BY NatLessThanWellFounded DEF OpToRel, Below
  <1>2. \E m \in T : \A k \in T : <<k, m>> \notin Below
    BY <1>1, WFMin
  <1>3. \A x, y \in Nat : <<x, y>> \in Below <=> x < y
    BY DEF Below
  <1>4. PICK m \in T : \A k \in T : ~(k < m)
    BY <1>2, <1>3
  <1> QED BY <1>4

LEMMA SetInduction ==
    ASSUME NEW n \in Nat, NEW T, 0 \in T,
           \A i \in 1..n : i - 1 \in T => i \in T
    PROVE  0..n \subseteq T
  <1> SUFFICES ASSUME (0..n) \ T # {} PROVE FALSE
    OBVIOUS
  <1>1. PICK m \in (0..n) \ T : \A k \in (0..n) \ T : m <= k
    <2>1. (0..n) \ T \in SUBSET Nat
      OBVIOUS
    <2> QED BY <2>1, Smallest
  <1>2. m \in 1..n /\ m - 1 \in 0..n
    BY <1>1
  <1>3. m - 1 \notin T
    BY <1>1, <1>2
  <1> QED BY <1>1, <1>2, <1>3

-----------------------------------------------------------------------------
(* Lines *)

\* The first line of a buffer that has one ends at its first newline.
LEMMA LineEndFacts ==
    ASSUME NEW S, NEW s \in Seq(S), HasLine(s)
    PROVE  /\ LineEnd(s) \in 1..Len(s)
           /\ LineEnd(s) \in Newlines(s)
           /\ \A i \in 1..(LineEnd(s) - 1) : i \notin Newlines(s)
  <1>1. Newlines(s) \subseteq 1..Len(s) /\ Newlines(s) # {} /\ Len(s) \in Nat
    BY DEF HasLine, Newlines
  <1>2. \E i \in Newlines(s) : \A j \in Newlines(s) : i <= j
    <2>1. Newlines(s) \in SUBSET Nat
      BY <1>1
    <2> QED BY <1>1, <2>1, Smallest
  <1>3. LineEnd(s) \in Newlines(s) /\ \A j \in Newlines(s) : LineEnd(s) <= j
    BY <1>2 DEF LineEnd
  <1> QED BY <1>1, <1>3

\* Taking the line leaves what is behind that newline.
LEMMA AfterLineFacts ==
    ASSUME NEW S, NEW s \in Seq(S), HasLine(s)
    PROVE  /\ AfterLine(s) \in Seq(S)
           /\ Len(AfterLine(s)) = Len(s) - LineEnd(s)
           /\ \A i \in 1..(Len(s) - LineEnd(s)) : AfterLine(s)[i] = s[LineEnd(s) + i]
  <1>1. LineEnd(s) \in 1..Len(s) /\ Len(s) \in Nat
    BY LineEndFacts
  <1> DEFINE m == LineEnd(s) + 1
             n == Len(s)
  <1>2. m \in Int /\ n \in Int /\ \A i \in m..n : s[i] \in S
    BY <1>1
  <1> HIDE DEF m, n
  <1>3. /\ SubSeq(s, m, n) \in Seq(S)
        /\ Len(SubSeq(s, m, n)) = IF m <= n THEN n - m + 1 ELSE 0
        /\ \A i \in 1..(n - m + 1) : SubSeq(s, m, n)[i] = s[m + i - 1]
    BY <1>2, SubSeqProperties
  <1>4. /\ Len(SubSeq(s, m, n)) = Len(s) - LineEnd(s)
        /\ \A i \in 1..(Len(s) - LineEnd(s)) : SubSeq(s, m, n)[i] = s[LineEnd(s) + i]
    BY <1>1, <1>3 DEF m, n
  <1> QED BY <1>3, <1>4 DEF AfterLine, m, n

\* recv moves the first n of the pieces i that have come in to the end of the
\* buffer b: the stream they make up together stays the same.
RecvKeepsStream(S) ==
    \A b, i \in Seq(S) : \A n \in 1..Len(i) :
       /\ SubSeq(i, n + 1, Len(i)) \in Seq(S)
       /\ b \o SubSeq(i, 1, n) \in Seq(S)
       /\ (b \o SubSeq(i, 1, n)) \o SubSeq(i, n + 1, Len(i)) = b \o i

LEMMA RecvStream ==
    ASSUME NEW S PROVE RecvKeepsStream(S)
  <1> SUFFICES ASSUME NEW b, NEW i, NEW n
               PROVE  b \in Seq(S) /\ i \in Seq(S) /\ n \in 1..Len(i) =>
                        /\ SubSeq(i, n + 1, Len(i)) \in Seq(S)
                        /\ b \o SubSeq(i, 1, n) \in Seq(S)
                        /\ (b \o SubSeq(i, 1, n)) \o SubSeq(i, n + 1, Len(i)) = b \o i
    BY Zenon DEF RecvKeepsStream
  <1> DEFINE p == SubSeq(i, 1, n)
             q == SubSeq(i, n + 1, Len(i))
  <1>0. SUFFICES ASSUME b \in Seq(S), i \in Seq(S), n \in 1..Len(i)
                 PROVE  /\ q \in Seq(S)
                        /\ b \o p \in Seq(S)
                        /\ (b \o p) \o q = b \o i
    OBVIOUS
  <1>1. Len(i) \in Nat /\ \A k \in 1..Len(i) : i[k] \in S
    BY <1>0
  <1>2. p \in Seq(S)
    <2>1. n \in Int /\ 1 \in Int /\ \A k \in 1..n : i[k] \in S
      BY <1>0, <1>1
    <2> QED BY <2>1, SubSeqProperties
  <1>3. q \in Seq(S)
    <2>1. n + 1 \in Int /\ Len(i) \in Int /\ \A k \in (n + 1)..Len(i) : i[k] \in S
      BY <1>0, <1>1
    <2> QED BY <2>1, SubSeqProperties
  <1>4. p \o q = i
    <2>1. p \o q = SubSeq(i, 1, Len(i))
      <3>1. 1 \in 1..(Len(i) + 1) /\ n \in (1 - 1)..Len(i) /\ Len(i) \in n..Len(i)
        BY <1>0, <1>1
      <3> QED BY <1>0, <3>1, ConcatAdjacentSubSeq
    <2> QED BY <1>0, <2>1, SubSeqFull
  <1> HIDE DEF p, q
  <1>5. b \in Seq(S) /\ p \in Seq(S) /\ q \in Seq(S)
    BY <1>0, <1>2, <1>3
  <1>6. (b \o p) \o q = b \o (p \o q)
    BY <1>5, ConcatAssociative
  <1>7. b \o p \in Seq(S)
    BY <1>5
  <1> QED BY <1>3, <1>4, <1>6, <1>7 DEF p, q

\* What comes in behind a buffer that has a line changes neither the line nor
\* where it ends.
Behind(u, v) == /\ Len(v) = Len(u) - LineEnd(u)
                /\ \A j \in 1..Len(v) : v[j] = u[LineEnd(u) + j]

BufferHasTheLine(S) ==
    \A b, i \in Seq(S) : HasLine(b) =>
       /\ b \o i \in Seq(S) /\ AfterLine(b) \o i \in Seq(S) /\ HasLine(b \o i)
       /\ FirstLine(b \o i) = FirstLine(b)
       /\ Behind(b \o i, AfterLine(b) \o i)

LEMMA LineOfStream ==
    ASSUME NEW S PROVE BufferHasTheLine(S)
  <1> SUFFICES ASSUME NEW b \in Seq(S), NEW i \in Seq(S), HasLine(b)
               PROVE  /\ b \o i \in Seq(S) /\ AfterLine(b) \o i \in Seq(S) /\ HasLine(b \o i)
                      /\ FirstLine(b \o i) = FirstLine(b)
                      /\ Behind(b \o i, AfterLine(b) \o i)
    BY Zenon DEF BufferHasTheLine
  <1> DEFINE u == b \o i
             a == AfterLine(b)
             v == a \o i
  <1>1. /\ Len(b) \in Nat /\ Len(i) \in Nat
        /\ u \in Seq(S) /\ Len(u) = Len(b) + Len(i)
        /\ \A j \in 1..Len(b) : u[j] = b[j]
        /\ \A j \in 1..Len(i) : u[Len(b) + j] = i[j]
    OBVIOUS
  <1>2. /\ LineEnd(b) \in 1..Len(b) /\ LineEnd(b) \in Newlines(b)
        /\ \A j \in 1..(LineEnd(b) - 1) : j \notin Newlines(b)
    BY LineEndFacts
  <1>3. /\ a \in Seq(S) /\ Len(a) = Len(b) - LineEnd(b)
        /\ \A j \in 1..(Len(b) - LineEnd(b)) : a[j] = b[LineEnd(b) + j]
    BY AfterLineFacts
  <1> HIDE DEF a
  <1>4. /\ v \in Seq(S) /\ Len(v) = Len(a) + Len(i)
        /\ \A j \in 1..Len(a) : v[j] = a[j]
        /\ \A j \in 1..Len(i) : v[Len(a) + j] = i[j]
    <2>1. ASSUME NEW x \in Seq(S)
          PROVE  /\ x \o i \in Seq(S) /\ Len(x \o i) = Len(x) + Len(i)
                 /\ \A j \in 1..Len(x) : (x \o i)[j] = x[j]
                 /\ \A j \in 1..Len(i) : (x \o i)[Len(x) + j] = i[j]
      OBVIOUS
    <2> QED BY <1>3, <2>1, Zenon
  <1>5. SubSeq(u, 1, LineEnd(b)) = SubSeq(b, 1, LineEnd(b))
    <2>1. 1 \in 1..Len(b)
      BY <1>1, <1>2
    <2> QED BY <1>2, <2>1, SubSeqOfConcat1
  <1> HIDE DEF u, v
  <1>6. \A j \in 1..Len(b) : j \in Newlines(u) <=> j \in Newlines(b)
    BY <1>1 DEF Newlines
  <1>7. HasLine(u)
    BY <1>2, <1>6 DEF HasLine
  <1>8. LineEnd(u) = LineEnd(b)
    <2>1. /\ LineEnd(u) \in 1..Len(u) /\ LineEnd(u) \in Newlines(u)
          /\ \A j \in 1..(LineEnd(u) - 1) : j \notin Newlines(u)
      BY <1>1, <1>7, LineEndFacts
    <2>2. ~(LineEnd(b) < LineEnd(u))
      BY <1>1, <1>2, <1>6, <2>1
    <2>3. ~(LineEnd(u) < LineEnd(b))
      BY <1>1, <1>2, <1>6, <2>1
    <2> QED BY <1>1, <1>2, <2>1, <2>2, <2>3
  <1>9. ASSUME NEW j \in 1..Len(v) PROVE v[j] = u[LineEnd(u) + j]
    <2>1. CASE j <= Len(a)
      <3>1. j \in 1..Len(a) /\ LineEnd(b) + j \in 1..Len(b)
        BY <1>1, <1>2, <1>3, <1>9, <2>1
      <3> QED BY <1>1, <1>3, <1>4, <1>8, <3>1
    <2>2. CASE j > Len(a)
      <3>1. /\ j - Len(a) \in 1..Len(i) /\ Len(a) + (j - Len(a)) = j
            /\ Len(b) + (j - Len(a)) = LineEnd(b) + j
        <4>1. Len(v) = Len(a) + Len(i) /\ j \in 1..Len(v) /\ Len(a) \in Nat
          BY <1>1, <1>2, <1>3, <1>4, <1>9
        <4>2. /\ j - Len(a) \in 1..Len(i) /\ Len(a) + (j - Len(a)) = j
          BY <1>1, <4>1, <2>2
        <4>3. Len(b) + (j - Len(a)) = LineEnd(b) + j
          BY <1>1, <1>2, <1>3, <4>1
        <4> QED BY <4>2, <4>3
      <3> QED BY <1>1, <1>4, <1>8, <3>1, ZenonT(40)
    <2> QED BY <1>1, <1>3, <1>4, <2>1, <2>2
  <1>10. Len(v) = Len(u) - LineEnd(u)
    BY <1>1, <1>2, <1>3, <1>4, <1>8
  <1>11. Behind(u, v)
    BY <1>9, <1>10 DEF Behind
  <1>12. FirstLine(u) = FirstLine(b)
    BY <1>5, <1>8 DEF FirstLine
  <1> QED BY <1>1, <1>4, <1>7, <1>11, <1>12, Zenon DEF u, v, a

\* What is sent joins the end of the stream: pieces p come behind the buffer b
\* and what is already under way, i.
JoinedBy(u, v, p) == /\ Len(v) = Len(u) + Len(p)
                     /\ \A j \in 1..Len(u) : v[j] = u[j]
                     /\ \A j \in 1..Len(p) : v[Len(u) + j] = p[j]

SendJoins(S) ==
    \A b, i, p \in Seq(S) : /\ b \o i \in Seq(S) /\ b \o (i \o p) \in Seq(S)
                            /\ JoinedBy(b \o i, b \o (i \o p), p)

LEMMA SendStream ==
    ASSUME NEW S PROVE SendJoins(S)
  <1> SUFFICES ASSUME NEW b, NEW i, NEW p
               PROVE  b \in Seq(S) /\ i \in Seq(S) /\ p \in Seq(S) =>
                        /\ b \o i \in Seq(S) /\ b \o (i \o p) \in Seq(S)
                        /\ JoinedBy(b \o i, b \o (i \o p), p)
    BY Zenon DEF SendJoins
  <1>1. SUFFICES ASSUME b \in Seq(S), i \in Seq(S), p \in Seq(S)
                 PROVE  /\ b \o i \in Seq(S) /\ b \o (i \o p) \in Seq(S)
                        /\ JoinedBy(b \o i, b \o (i \o p), p)
    OBVIOUS
  <1>2. b \o (i \o p) = (b \o i) \o p
    BY <1>1
  <1>3. ASSUME NEW u \in Seq(S), NEW q \in Seq(S)
        PROVE  u \o q \in Seq(S) /\ JoinedBy(u, u \o q, q)
    BY DEF JoinedBy
  <1>4. b \o i \in Seq(S) /\ (b \o i) \o p \in Seq(S) /\ JoinedBy(b \o i, (b \o i) \o p, p)
    BY <1>1, <1>3, Zenon
  <1> QED BY <1>2, <1>4, Zenon
=============================================================================
