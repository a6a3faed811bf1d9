---------------------------- MODULE ReceiverProofs ----------------------------
(***************************************************************************)
(* What the receiver keeps for any number of producers and lines, however  *)
(* the streams are split: select is given open clients only, and what a    *)
(* producer has said is queued line by line, in order, without the lines   *)
(* json::parse rejects.                                                    *)
(***************************************************************************)
EXTENDS Receiver, SequenceLemmas

-----------------------------------------------------------------------------
(* The invariant *)

\* A visited client and those still to be visited have a record; records and
\* open handles are the same clients, and select is given no other.
ClientsOK == /\ open = DOMAIN clients
             /\ masterSet \subseteq open \cup {Listen}
             /\ pending \subseteq open
             /\ pc = "lines" => cur \in open

\* Queueing the piece p on top of q
Then(q, p) == IF p.part = "head" \/ p.text \in Garbage THEN q ELSE Append(q, p.text)

\* Reading the pieces u leads from the queue q to the queue r: w[i] is what has
\* been queued after the first i of them.
Leads(q, u, r) == \E w \in [0..Len(u) -> Seq(Message)] :
                     /\ w[0] = q /\ w[Len(u)] = r
                     /\ \A i \in 1..Len(u) : w[i] = Then(w[i - 1], u[i])

\* Each tail follows the head it was cut from, and each head has its tail.
WellSplit(u) ==
    \A i \in 1..Len(u) :
       /\ u[i].part = "tail" =>
             i > 1 /\ u[i - 1].part = "head" /\ u[i - 1].text = u[i].text
       /\ u[i].part = "head" => i < Len(u) /\ u[i + 1].part = "tail"

\* Reading the rest of its stream leads from what has been queued of a
\* producer's lines to all the good ones among those it has said.
Reads(s) == /\ WellSplit(Ahead(s))
            /\ Leads(queued[s], Ahead(s), Good(Lines(said[s])))

StreamsOK == \A s \in DOMAIN clients : Reads(s)

IInv == TypeOK /\ ClientsOK /\ StreamsOK

-----------------------------------------------------------------------------
(* What is queued of a stream *)

LEMMA ThenType ==
    ASSUME NEW q \in Seq(Message), NEW p \in Piece
    PROVE  Then(q, p) \in Seq(Message)
  BY DEF Then, Piece

\* The recursive function Reading exists and is what its definition says.
LEMMA ReadingFacts ==
    ASSUME NEW u \in Seq(Piece)
    PROVE  /\ Reading(u) \in [0..Len(u) -> Seq(Message)]
           /\ Reading(u)[0] = <<>>
           /\ \A i \in 1..Len(u) : Reading(u)[i] = Then(Reading(u)[i - 1], u[i])
  <1> DEFINE n == Len(u)
             Approx(g, k) == /\ g \in [0..k -> Seq(Message)]
                             /\ g[0] = <<>>
                             /\ \A i \in 1..k : g[i] = Then(g[i - 1], u[i])
             T == {k \in 0..n : \E g : Approx(g, k)}
             F(g) == [i \in 0..n |-> IF i = 0 THEN <<>> ELSE Then(g[i - 1], u[i])]
  <1>1. n \in Nat /\ \A i \in 1..n : u[i] \in Piece
    OBVIOUS
  <1>2. 0 \in T
    <2> DEFINE e == [i \in 0..0 |-> <<>>]
    <2>1. Approx(e, 0)
      OBVIOUS
    <2> HIDE DEF Approx, e
    <2>2. \E g : Approx(g, 0)
      BY <2>1
    <2> QED BY <1>1, <2>2
  <1>3. ASSUME NEW k \in 1..n, k - 1 \in T PROVE k \in T
    <2>1. PICK g : Approx(g, k - 1)
      BY <1>3
    <2> DEFINE h == [i \in 0..k |-> IF i = k THEN Then(g[k - 1], u[k]) ELSE g[i]]
    <2>2. Then(g[k - 1], u[k]) \in Seq(Message)
      <3>1. g[k - 1] \in Seq(Message)
        BY <1>1, <2>1
      <3> QED BY <1>1, <3>1, ThenType
    <2>3. h \in [0..k -> Seq(Message)] /\ h[0] = <<>>
      BY <1>1, <2>1, <2>2
    <2>4. ASSUME NEW i \in 1..k PROVE h[i] = Then(h[i - 1], u[i])
      <3>1. i - 1 \in 0..k /\ i - 1 # k /\ i \in 0..k
        BY <1>1
      <3>2. h[i - 1] = g[i - 1]
        BY <3>1
      <3>3. CASE i = k
        BY <3>1, <3>2, <3>3
      <3>4. CASE i # k
        <4>1. i \in 1..(k - 1) /\ h[i] = g[i]
          BY <1>1, <3>1, <3>4
        <4> HIDE DEF h
        <4> QED BY <2>1, <3>2, <4>1
      <3> QED BY <3>3, <3>4
    <2> HIDE DEF h
    <2>5. Approx(h, k)
      BY <2>3, <2>4
    <2> HIDE DEF Approx
    <2>6. \E f : Approx(f, k)
      BY <2>5
    <2> QED BY <1>1, <2>6
  <1> HIDE DEF T
  <1>4. n \in T
    <2>1. 0..n \subseteq T
      BY <1>1, <1>2, <1>3, SetInduction
    <2> QED BY <1>1, <2>1
  <1>5. PICK g : Approx(g, n)
    BY <1>4 DEF T
  <1>6. g = F(g)
    BY <1>1, <1>5
  <1>7. Reading(u) = CHOOSE q : q = F(q)
    BY DEF Reading, Then
  <1> HIDE DEF F
  <1>8. Reading(u) = F(Reading(u))
    BY <1>6, <1>7
  <1>9. /\ Reading(u)[0] = <<>>
        /\ \A i \in 1..n : Reading(u)[i] = Then(Reading(u)[i - 1], u[i])
    BY <1>1, <1>8 DEF F
  <1>10. Reading(u) \in [0..n -> Seq(Message)]
    <2> DEFINE E == {k \in Nat : Reading(u)[k] \in Seq(Message)}
    <2>1. 0 \in E
      <3>1. <<>> \in Seq(Message)
        OBVIOUS
      <3> QED BY <1>9, <3>1
    <2>2. ASSUME NEW k \in 1..n, k - 1 \in E PROVE k \in E
      <3>1. Then(Reading(u)[k - 1], u[k]) \in Seq(Message)
        BY <1>1, <2>2, ThenType
      <3> QED BY <1>1, <1>9, <3>1
    <2> HIDE DEF E
    <2>3. 0..n \subseteq E
      BY <1>1, <2>1, <2>2, SetInduction
    <2>4. \A k \in 0..n : Reading(u)[k] \in Seq(Message)
      BY <2>3 DEF E
    <2>5. Reading(u) = [k \in 0..n |-> Reading(u)[k]]
      BY <1>8 DEF F
    <2> QED BY <2>4, <2>5
  <1> QED BY <1>9, <1>10

LEMMA GoodLeads ==
    ASSUME NEW u \in Seq(Piece)
    PROVE  Leads(<<>>, u, Good(u)) /\ Good(u) \in Seq(Message)
  <1>1. Len(u) \in 0..Len(u)
    OBVIOUS
  <1> QED BY <1>1, ReadingFacts DEF Leads, Good

\* Whatever reading u leads to from q is q and the good lines of u behind it.
LEMMA LeadsToGood ==
    ASSUME NEW q \in Seq(Message), NEW u \in Seq(Piece), NEW r, Leads(q, u, r)
    PROVE  r = q \o Good(u)
  <1>1. PICK w \in [0..Len(u) -> Seq(Message)] :
          /\ w[0] = q /\ w[Len(u)] = r
          /\ \A i \in 1..Len(u) : w[i] = Then(w[i - 1], u[i])
    BY DEF Leads
  <1> DEFINE n == Len(u)
             g == Reading(u)
             T == {i \in Nat : w[i] = q \o g[i]}
  <1>2. n \in Nat /\ n \in 0..n /\ \A i \in 1..n : u[i] \in Piece
    OBVIOUS
  <1>3. /\ g \in [0..n -> Seq(Message)] /\ g[0] = <<>>
        /\ \A i \in 1..n : g[i] = Then(g[i - 1], u[i])
    BY ReadingFacts
  <1> HIDE DEF g, n
  <1>4. ASSUME NEW x \in Seq(Message), NEW p \in Piece
        PROVE  Then(q \o x, p) = q \o Then(x, p)
    <2>1. ASSUME NEW e \in Message PROVE Append(q \o x, e) = q \o Append(x, e)
      <3>1. <<e>> \in Seq(Message) /\ q \o x \in Seq(Message)
        OBVIOUS
      <3>2. Append(q \o x, e) = (q \o x) \o <<e>> /\ Append(x, e) = x \o <<e>>
        BY <3>1, AppendIsConcat
      <3>3. (q \o x) \o <<e>> = q \o (x \o <<e>>)
        BY <3>1, ConcatAssociative
      <3> QED BY <3>2, <3>3, Zenon
    <2> QED BY <2>1 DEF Then, Piece
  <1>5. 0 \in T
    <2>1. q \o <<>> = q
      OBVIOUS
    <2> QED BY <1>1, <1>3, <2>1
  <1>6. ASSUME NEW i \in 1..n, i - 1 \in T PROVE i \in T
    <2>1. w[i - 1] = q \o g[i - 1] /\ g[i - 1] \in Seq(Message) /\ i \in Nat /\ u[i] \in Piece
      <3>1. w[i - 1] = q \o g[i - 1]
        BY <1>6, Zenon
      <3>2. i - 1 \in 0..n /\ i \in Nat
        BY <1>2
      <3> QED BY <1>2, <1>3, <3>1, <3>2
    <2>2. Then(q \o g[i - 1], u[i]) = q \o Then(g[i - 1], u[i])
      BY <1>4, <2>1
    <2>3. w[i] = Then(w[i - 1], u[i]) /\ g[i] = Then(g[i - 1], u[i])
      BY <1>1, <1>3 DEF n
    <2>4. w[i] = q \o g[i]
      BY <2>1, <2>2, <2>3, Zenon
    <2> QED BY <2>1, <2>4
  <1> HIDE DEF T
  <1>7. n \in T
    <2>1. 0..n \subseteq T
      BY <1>2, <1>5, <1>6, SetInduction
    <2> QED BY <1>2, <2>1
  <1> QED BY <1>1, <1>7 DEF T, Good, g, n

\* One more piece at the end of the stream leads on by that piece.
LEMMA LeadsOn ==
    ASSUME NEW q, NEW r, NEW u \in Seq(Piece), NEW v \in Seq(Piece), Leads(q, u, r),
           Len(v) = Len(u) + 1, \A i \in 1..Len(u) : v[i] = u[i]
    PROVE  Leads(q, v, Then(r, v[Len(u) + 1]))
  <1> DEFINE n == Len(u)
             m == Len(v)
             e == Then(r, v[n + 1])
  <1>1. PICK w \in [0..n -> Seq(Message)] :
          /\ w[0] = q /\ w[n] = r
          /\ \A i \in 1..n : w[i] = Then(w[i - 1], u[i])
    BY DEF Leads
  <1>2. n \in Nat /\ m = n + 1 /\ v[n + 1] \in Piece
    OBVIOUS
  <1>3. e \in Seq(Message)
    BY <1>1, <1>2, ThenType
  <1> DEFINE x == [i \in 0..m |-> IF i <= n THEN w[i] ELSE e]
  <1>4. \A i \in 1..n : v[i] = u[i]
    OBVIOUS
  <1> HIDE DEF n, m
  <1>5. x[m] = e /\ x[0] = q /\ \A i \in 0..n : x[i] = w[i]
    BY <1>1, <1>2
  <1>6. x \in [0..m -> Seq(Message)]
    BY <1>1, <1>2, <1>3
  <1> HIDE DEF x
  <1>7. ASSUME NEW i \in 1..m PROVE x[i] = Then(x[i - 1], v[i])
    <2>1. CASE i = m
      BY <1>1, <1>2, <1>5, <2>1
    <2>2. CASE i # m
      <3>1. i \in 1..n /\ i \in 0..n /\ i - 1 \in 0..n
        BY <1>2, <2>2
      <3> QED BY <1>1, <1>4, <1>5, <3>1
    <2> QED BY <2>1, <2>2
  <1> HIDE DEF e
  <1>8. Leads(q, v, e)
    BY <1>5, <1>6, <1>7 DEF Leads, m
  <1> QED BY <1>8 DEF e, n

\* In a well split stream, the first line is one whole line or a head and its
\* tail, so that it spells what its last piece says.
LEMMA FirstLineSays ==
    ASSUME NEW u \in Seq(Piece), WellSplit(u), HasLine(u)
    PROVE  /\ LineEnd(u) \in 1..Len(u) /\ u[LineEnd(u)].part # "head"
           /\ \/ LineEnd(u) = 1
              \/ LineEnd(u) = 2 /\ u[1].part = "head"
           /\ Parsed(FirstLine(u)) = {u[LineEnd(u)].text} \ Garbage
  <1> DEFINE k == LineEnd(u)
             line == FirstLine(u)
  <1>1. /\ k \in 1..Len(u) /\ Len(u) \in Nat
        /\ u[k].part \in {"whole", "tail"}
        /\ \A i \in 1..(k - 1) : u[i].part \notin {"whole", "tail"}
    BY LineEndFacts DEF Newlines
  <1>2. Len(line) = k /\ \A i \in 1..k : line[i] = u[i]
    <2>1. 1 \in Int /\ k \in Int /\ \A i \in 1..k : u[i] \in Piece
      BY <1>1
    <2> HIDE DEF k
    <2>2. /\ Len(SubSeq(u, 1, k)) = IF 1 <= k THEN k - 1 + 1 ELSE 0
          /\ \A i \in 1..(k - 1 + 1) : SubSeq(u, 1, k)[i] = u[1 + i - 1]
      BY <2>1, SubSeqProperties
    <2> QED BY <1>1, <2>2 DEF FirstLine, k
  <1>3. \A i \in 1..Len(u) : u[i].part \in {"whole", "head", "tail"} /\ u[i].text \in Message
    <2>1. \A i \in 1..Len(u) : u[i] \in Piece
      OBVIOUS
    <2> QED BY <2>1 DEF Piece, Part
  <1> HIDE DEF k, line
  <1>4. CASE u[k].part = "whole"
    <2>1. k = 1
      <3>1. k > 1 => k - 1 \in 1..Len(u) /\ k - 1 \in 1..(k - 1) /\ (k - 1) + 1 = k
        BY <1>1
      <3>2. k > 1 => u[k - 1].part = "head"
        BY <1>1, <1>3, <3>1
      <3> QED BY <1>1, <1>4, <3>1, <3>2 DEF WellSplit
    <2> QED BY <1>1, <1>2, <1>3, <1>4, <2>1 DEF Parsed, Spells, k, line
  <1>5. CASE u[k].part = "tail"
    <2>1. k > 1 /\ u[k - 1].part = "head" /\ u[k - 1].text = u[k].text
      BY <1>1, <1>5 DEF WellSplit
    <2>2. k = 2
      <3>1. k > 2 => k - 2 \in 1..Len(u) /\ k - 2 \in 1..(k - 1) /\ (k - 2) + 1 = k - 1
        BY <1>1
      <3>2. k > 2 => u[k - 2].part = "head"
        BY <1>1, <1>3, <3>1
      <3>3. k > 2 => u[k - 1].part = "tail"
        BY <3>1, <3>2 DEF WellSplit
      <3> QED BY <1>1, <2>1, <3>3
    <2> QED BY <1>1, <1>2, <1>3, <1>5, <2>1, <2>2 DEF Parsed, Spells, k, line
  <1> QED BY <1>1, <1>4, <1>5

\* Taking the first line of a well split stream leaves the rest to be read.
LEMMA LeadsBehindLine ==
    ASSUME NEW q, NEW r, NEW u \in Seq(Piece), NEW v \in Seq(Piece), WellSplit(u), HasLine(u),
           Leads(q, u, r), Behind(u, v)
    PROVE  WellSplit(v) /\ Leads(Then(q, u[LineEnd(u)]), v, r)
  <1> DEFINE k == LineEnd(u)
  <1>1. PICK w \in [0..Len(u) -> Seq(Message)] :
          /\ w[0] = q /\ w[Len(u)] = r
          /\ \A i \in 1..Len(u) : w[i] = Then(w[i - 1], u[i])
    BY DEF Leads
  <1>2. /\ k \in 1..Len(u) /\ Len(u) \in Nat /\ Len(v) \in Nat
        /\ u[k].part # "head"
        /\ k = 1 \/ (k = 2 /\ u[1].part = "head")
    BY FirstLineSays
  <1>3. Len(v) = Len(u) - k /\ \A i \in 1..Len(v) : v[i] = u[k + i]
    BY DEF Behind
  <1>4. w[k] = Then(q, u[k])
    <2>1. w[k - 1] = q
      <3>1. CASE k = 1
        BY <1>1, <3>1
      <3>2. CASE k = 2 /\ u[1].part = "head"
        <4>1. w[1] = Then(q, u[1])
          BY <1>1, <1>2
        <4> QED BY <3>2, <4>1 DEF Then
      <3> QED BY <1>2, <3>1, <3>2
    <2> QED BY <1>1, <1>2, <2>1
  <1> HIDE DEF k
  <1>5. WellSplit(v)
    <2> SUFFICES ASSUME NEW i \in 1..Len(v)
                 PROVE  /\ v[i].part = "tail" =>
                             i > 1 /\ v[i - 1].part = "head" /\ v[i - 1].text = v[i].text
                        /\ v[i].part = "head" => i < Len(v) /\ v[i + 1].part = "tail"
      BY DEF WellSplit
    <2>1. v[i] = u[k + i] /\ k + i \in 1..Len(u) /\ k + i - 1 = k + (i - 1)
      BY <1>2, <1>3
    <2>2. i > 1 => v[i - 1] = u[k + i - 1]
      <3>1. i > 1 => i - 1 \in 1..Len(v)
        BY <1>2
      <3> QED BY <1>3, <2>1, <3>1
    <2>3. i = 1 => u[k + i - 1].part # "head"
      BY <1>2
    <2>4. i < Len(v) => v[i + 1] = u[k + i + 1]
      <3>1. i < Len(v) => i + 1 \in 1..Len(v) /\ k + (i + 1) = k + i + 1
        BY <1>2
      <3> QED BY <1>3, <3>1
    <2>5. k + i < Len(u) => i < Len(v)
      BY <1>2, <1>3
    <2>6. i > 1 \/ i = 1
      OBVIOUS
    <2>7. /\ u[k + i].part = "tail" =>
                u[k + i - 1].part = "head" /\ u[k + i - 1].text = u[k + i].text
          /\ u[k + i].part = "head" => k + i < Len(u) /\ u[k + i + 1].part = "tail"
      <3>1. PICK j \in 1..Len(u) : j = k + i
        BY <2>1
      <3>2. /\ u[j].part = "tail" => u[j - 1].part = "head" /\ u[j - 1].text = u[j].text
            /\ u[j].part = "head" => j < Len(u) /\ u[j + 1].part = "tail"
        BY DEF WellSplit
      <3>3. j - 1 = k + i - 1 /\ j + 1 = k + i + 1
        BY <1>2, <3>1
      <3> QED BY <3>1, <3>2, <3>3
    <2> QED BY <2>1, <2>2, <2>3, <2>4, <2>5, <2>6, <2>7
  <1> DEFINE x == [i \in 0..Len(v) |-> w[k + i]]
  <1>6. x \in [0..Len(v) -> Seq(Message)] /\ x[0] = w[k] /\ x[Len(v)] = r
    <2>1. k + Len(v) = Len(u)
      BY <1>2, <1>3
    <2>2. \A i \in 0..Len(v) : k + i \in 0..Len(u) /\ w[k + i] \in Seq(Message)
      BY <1>1, <1>2, <2>1
    <2>3. x[0] = w[k + 0] /\ x[Len(v)] = w[k + Len(v)]
      BY <1>2
    <2> QED BY <1>1, <1>2, <2>1, <2>2, <2>3
  <1>7. ASSUME NEW i \in 1..Len(v) PROVE x[i] = Then(x[i - 1], v[i])
    <2>1. k + i \in 1..Len(u) /\ i \in 0..Len(v) /\ i - 1 \in 0..Len(v)
      BY <1>2, <1>3
    <2>2. x[i] = w[k + i] /\ x[i - 1] = w[(k + i) - 1]
      BY <1>2, <2>1
    <2> HIDE DEF x
    <2> QED BY <1>1, <1>3, <2>1, <2>2
  <1> HIDE DEF x
  <1> QED BY <1>4, <1>5, <1>6, <1>7 DEF Leads, k

-----------------------------------------------------------------------------
(* The steps, and the types *)

LEMMA Steps ==
    ASSUME Next
    PROVE  \/ Bind \/ ListenOn \/ SelectError \/ SelectReady \/ SelectTimeout \/ AcceptFails
           \/ PassDone \/ LinesDone \/ TakeLine \/ StopFlag \/ StopServer \/ Connect
           \/ \E s \in Socket : \/ Sweep(s) \/ Accept(s) \/ RecvData(s) \/ RecvEnd(s)
                                \/ Age(s) \/ Silence(s)
                                \/ \E m \in Message : SendLine(s, m)
                                \/ \E how \in {"fin", "reset"} : EndConnection(s, how)
  <1>1. ASSUME NEW s \in Socket, NEW how \in Ending[s] \ {"idle"} PROVE how \in {"fin", "reset"}
    BY SocketAssumption
  <1> QED BY <1>1 DEF Next, ReceiverStep, Stop, World

ClientInfo == [buffer : Seq(Piece), stale : BOOLEAN]

LEMMA AheadType ==
    ASSUME TypeOK, NEW s \in DOMAIN clients
    PROVE  /\ s \in Socket /\ Ahead(s) \in Seq(Piece) /\ clients[s] \in ClientInfo
           /\ clients[s].buffer \in Seq(Piece) /\ inbox[s] \in Seq(Piece)
  <1>1. /\ clients[s].buffer \in Seq(Piece) /\ inbox[s] \in Seq(Piece) /\ s \in Socket
        /\ clients[s] \in ClientInfo
    BY DEF TypeOK, ClientInfo
  <1>2. ASSUME NEW x \in Seq(Piece), NEW y \in Seq(Piece) PROVE x \o y \in Seq(Piece)
    OBVIOUS
  <1> QED BY <1>1, <1>2, Zenon DEF Ahead

\* recv moves the front of what the system holds to the end of the buffer.
LEMMA RecvDataFacts ==
    ASSUME TypeOK, ClientsOK, NEW s \in Socket, RecvData(s)
    PROVE  /\ s \in DOMAIN clients
           /\ DOMAIN clients' = DOMAIN clients
           /\ inbox' \in [Socket -> Seq(Piece)]
           /\ clients'[s] \in ClientInfo
           /\ \A c \in Socket \ {s} : inbox'[c] = inbox[c]
           /\ \A c \in DOMAIN clients \ {s} : clients'[c] = clients[c]
           /\ Ahead(s)' = Ahead(s)
  <1>1. /\ s \in DOMAIN clients /\ clients[s] \in ClientInfo
        /\ clients[s].buffer \in Seq(Piece) /\ inbox[s] \in Seq(Piece)
    BY AheadType DEF RecvData, Visit, ClientsOK
  <1> DEFINE b == clients[s].buffer
             i == inbox[s]
  <1>2. PICK n \in 1..Len(i) :
          /\ clients' = [clients EXCEPT ![s].buffer = @ \o SubSeq(i, 1, n)]
          /\ inbox' = [inbox EXCEPT ![s] = SubSeq(@, n + 1, Len(@))]
    BY DEF RecvData
  <1> DEFINE p == b \o SubSeq(i, 1, n)
             q == SubSeq(i, n + 1, Len(i))
  <1>3. p \in Seq(Piece) /\ q \in Seq(Piece) /\ p \o q = b \o i
    <2>1. RecvKeepsStream(Piece)
      BY RecvStream
    <2> QED BY <1>1, <2>1, Zenon DEF RecvKeepsStream
  <1>4. clients'[s] = [clients[s] EXCEPT !.buffer = p] /\ inbox'[s] = q
    BY <1>1, <1>2 DEF TypeOK
  <1>5. inbox' \in [Socket -> Seq(Piece)]
    BY <1>2, <1>3 DEF TypeOK
  <1> HIDE DEF p, q
  <1>6. clients'[s] \in ClientInfo /\ clients'[s].buffer = p
    BY <1>1, <1>3, <1>4 DEF ClientInfo
  <1>7. Ahead(s)' = Ahead(s)
    BY <1>3, <1>4, <1>6 DEF Ahead
  <1> QED BY <1>1, <1>2, <1>5, <1>6, <1>7 DEF TypeOK

LEMMA TakeLineFacts ==
    ASSUME TypeOK, ClientsOK, TakeLine
    PROVE  /\ cur \in DOMAIN clients /\ cur \in Socket
           /\ DOMAIN clients' = DOMAIN clients
           /\ clients'[cur] \in ClientInfo
           /\ clients'[cur].buffer = AfterLine(clients[cur].buffer)
           /\ \A c \in DOMAIN clients \ {cur} : clients'[c] = clients[c]
           /\ queued' \in [Socket -> Seq(Message \ Garbage)]
           /\ \A c \in Socket \ {cur} : queued'[c] = queued[c]
  <1>1. cur \in DOMAIN clients /\ cur \in Socket /\ clients[cur] \in ClientInfo
    BY AheadType DEF TakeLine, ClientsOK
  <1>2. AfterLine(clients[cur].buffer) \in Seq(Piece)
    <2>1. clients[cur].buffer \in Seq(Piece) /\ HasLine(clients[cur].buffer)
      BY <1>1 DEF ClientInfo, TakeLine
    <2> QED BY <2>1, AfterLineFacts
  <1>3. /\ queued' \in [Socket -> Seq(Message \ Garbage)]
        /\ \A c \in Socket \ {cur} : queued'[c] = queued[c]
    <2>1. CASE UNCHANGED queued
      BY <2>1 DEF TypeOK
    <2>2. ASSUME NEW m \in Message \ Garbage, queued' = [queued EXCEPT ![cur] = Append(@, m)]
          PROVE  /\ queued' \in [Socket -> Seq(Message \ Garbage)]
                 /\ \A c \in Socket \ {cur} : queued'[c] = queued[c]
      <3>1. Append(queued[cur], m) \in Seq(Message \ Garbage)
        BY <1>1 DEF TypeOK
      <3> QED BY <1>1, <2>2, <3>1 DEF TypeOK
    <2> QED BY <2>1, <2>2 DEF TakeLine, Parsed
  <1> QED BY <1>1, <1>2, <1>3 DEF TakeLine, ClientInfo, TypeOK

\* What a producer sends joins the end of its stream, in one piece or in two.
Sent(u, v, m) ==
    \/ JoinedBy(u, v, Whole(m))
    \/ JoinedBy(u, v, Split(m))

LEMMA SendLineFacts ==
    ASSUME TypeOK, NEW s \in Socket, NEW m \in Message, SendLine(s, m)
    PROVE  /\ s \in DOMAIN clients /\ UNCHANGED clients
           /\ inbox' \in [Socket -> Seq(Piece)]
           /\ said' \in [Socket -> Seq(Message)]
           /\ \A c \in Socket \ {s} : inbox'[c] = inbox[c] /\ said'[c] = said[c]
           /\ said'[s] = Append(said[s], m)
           /\ Ahead(s) \in Seq(Piece) /\ Ahead(s)' \in Seq(Piece)
           /\ Sent(Ahead(s), Ahead(s)', m)
  <1>1. s \in DOMAIN clients /\ UNCHANGED clients
    BY DEF SendLine, Live, sockets
  <1>2. Whole(m) \in Seq(Piece) /\ Split(m) \in Seq(Piece)
    <2>1. \A p \in Part : [text |-> m, part |-> p] \in Piece
      BY DEF Piece
    <2> HIDE DEF Piece
    <2> QED BY <2>1 DEF Whole, Split, Part
  <1>3. clients[s].buffer \in Seq(Piece) /\ inbox[s] \in Seq(Piece)
    BY <1>1, AheadType
  <1>4. said' \in [Socket -> Seq(Message)] /\ said'[s] = Append(said[s], m)
        /\ \A c \in Socket \ {s} : said'[c] = said[c]
    <2>1. Append(said[s], m) \in Seq(Message)
      BY DEF TypeOK
    <2> QED BY <2>1 DEF SendLine, TypeOK
  <1>5. ASSUME NEW pieces \in Seq(Piece), inbox' = [inbox EXCEPT ![s] = @ \o pieces]
        PROVE  /\ inbox' \in [Socket -> Seq(Piece)]
               /\ \A c \in Socket \ {s} : inbox'[c] = inbox[c]
               /\ Ahead(s) \in Seq(Piece) /\ Ahead(s)' \in Seq(Piece)
               /\ JoinedBy(Ahead(s), Ahead(s)', pieces)
    <2>1. inbox[s] \o pieces \in Seq(Piece)
      BY <1>3, <1>5
    <2>2. inbox'[s] = inbox[s] \o pieces
      BY <1>5 DEF TypeOK
    <2>3. SendJoins(Piece)
      BY SendStream
    <2>4. Ahead(s)' = clients[s].buffer \o (inbox[s] \o pieces)
      BY <1>1, <2>2, Zenon DEF Ahead
    <2>5. /\ Ahead(s) \in Seq(Piece) /\ Ahead(s)' \in Seq(Piece)
          /\ JoinedBy(Ahead(s), Ahead(s)', pieces)
      BY <1>3, <1>5, <2>3, <2>4, Zenon DEF SendJoins, Ahead
    <2> QED BY <1>5, <2>1, <2>5 DEF TypeOK
  <1>6. \/ inbox' = [inbox EXCEPT ![s] = @ \o Whole(m)]
        \/ inbox' = [inbox EXCEPT ![s] = @ \o Split(m)]
    BY DEF SendLine
  <1> QED BY <1>1, <1>2, <1>4, <1>5, <1>6, Zenon DEF Sent

LEMMA TypeStep == TypeOK /\ ClientsOK /\ Next => TypeOK'
  <1> SUFFICES ASSUME TypeOK, ClientsOK, Next PROVE TypeOK'
    OBVIOUS
  <1> USE DEF TypeOK, thread, network, history, life, sockets
  <1>1. CASE Bind \/ ListenOn
    BY <1>1 DEF Bind, ListenOn, Turn, bind, listen, refused, ServerState
  <1>2. CASE SelectError \/ SelectReady \/ SelectTimeout \/ AcceptFails \/ PassDone \/ LinesDone
    BY <1>2 DEF SelectError, SelectReady, SelectTimeout, AcceptFails, PassDone, LinesDone, Turn,
       Readable
  <1>3. CASE TakeLine
    BY <1>3, TakeLineFacts DEF TakeLine, ClientInfo
  <1>4. CASE StopFlag \/ StopServer \/ Connect
    BY <1>4 DEF StopFlag, StopServer, Connect, close, ServerState
  <1>5. ASSUME NEW s \in Socket, Sweep(s) PROVE TypeOK'
    BY <1>5 DEF Sweep, FD_CLR
  <1>6. ASSUME NEW s \in Socket, Accept(s) PROVE TypeOK'
    <2>1. <<>> \in Seq(Piece) /\ <<>> \in Seq(Message) /\ <<>> \in Seq(Message \ Garbage)
      OBVIOUS
    <2>2. /\ inbox' \in [Socket -> Seq(Piece)]
          /\ said' \in [Socket -> Seq(Message)]
          /\ queued' \in [Socket -> Seq(Message \ Garbage)]
      BY <1>6, <2>1 DEF Accept
    <2>3. \A c \in DOMAIN clients' : clients'[c] \in [buffer : Seq(Piece), stale : BOOLEAN]
      BY <1>6, <2>1 DEF Accept
    <2> QED BY <1>6, <2>2, <2>3 DEF Accept, FD_SET
  <1>7. ASSUME NEW s \in Socket, RecvData(s) PROVE TypeOK'
    BY <1>7, RecvDataFacts DEF RecvData, Visit, ClientInfo
  <1>8. ASSUME NEW s \in Socket, RecvEnd(s) PROVE TypeOK'
    BY <1>8 DEF RecvEnd, Visit
  <1>9. ASSUME NEW s \in Socket, Age(s) \/ Silence(s) PROVE TypeOK'
    <2>1. CASE Age(s)
      BY <2>1 DEF Age
    <2>2. CASE Silence(s)
      BY <2>2 DEF Silence
    <2> QED BY <1>9, <2>1, <2>2
  <1>10. ASSUME NEW s \in Socket, NEW m \in Message, SendLine(s, m) PROVE TypeOK'
    <2>1. /\ inbox' \in [Socket -> Seq(Piece)] /\ said' \in [Socket -> Seq(Message)]
      BY <1>10, SendLineFacts
    <2> QED BY <1>10, <2>1 DEF SendLine
  <1>11. ASSUME NEW s \in Socket, NEW how \in {"fin", "reset"}, EndConnection(s, how) PROVE TypeOK'
    BY <1>11 DEF EndConnection
  <1> QED BY <1>1, <1>2, <1>3, <1>4, <1>5, <1>6, <1>7, <1>8, <1>9, <1>10, <1>11, Steps

-----------------------------------------------------------------------------
(* Records, handles and what select is given *)

LEMMA ClientsStep == TypeOK /\ ClientsOK /\ Next => ClientsOK'
  <1> SUFFICES ASSUME TypeOK, ClientsOK, Next PROVE ClientsOK'
    OBVIOUS
  <1> USE DEF ClientsOK, thread, network, history, life, sockets
  <1>1. CASE Bind \/ ListenOn
    BY <1>1 DEF Bind, ListenOn, Turn
  <1>2. CASE SelectError \/ SelectReady \/ SelectTimeout \/ AcceptFails \/ PassDone \/ LinesDone
    BY <1>2 DEF SelectError, SelectReady, SelectTimeout, AcceptFails, PassDone, LinesDone, Turn,
       Readable
  <1>3. CASE TakeLine
    BY <1>3, TakeLineFacts DEF TakeLine
  <1>4. CASE StopFlag \/ StopServer \/ Connect
    BY <1>4 DEF StopFlag, StopServer, Connect
  <1>5. ASSUME NEW s \in Socket, Sweep(s) PROVE ClientsOK'
    BY <1>5 DEF Sweep, FD_CLR
  <1>6. ASSUME NEW s \in Socket, Accept(s) PROVE ClientsOK'
    BY <1>6 DEF Accept, FD_SET
  <1>7. ASSUME NEW s \in Socket, RecvData(s) PROVE ClientsOK'
    BY <1>7, RecvDataFacts DEF RecvData, Visit
  <1>8. ASSUME NEW s \in Socket, RecvEnd(s) PROVE ClientsOK'
    BY <1>8 DEF RecvEnd, Visit
  <1>9. ASSUME NEW s \in Socket, Age(s) \/ Silence(s) PROVE ClientsOK'
    BY <1>9 DEF Age, Silence
  <1>10. ASSUME NEW s \in Socket, NEW m \in Message, SendLine(s, m) PROVE ClientsOK'
    BY <1>10 DEF SendLine
  <1>11. ASSUME NEW s \in Socket, NEW how, EndConnection(s, how) PROVE ClientsOK'
    BY <1>11 DEF EndConnection
  <1> QED BY <1>1, <1>2, <1>3, <1>4, <1>5, <1>6, <1>7, <1>8, <1>9, <1>10, <1>11, Steps

-----------------------------------------------------------------------------
(* The streams *)

\* One more line said is one more to be queued, unless it is rejected.
LEMMA OneMoreSaid ==
    ASSUME NEW l \in Seq(Message), NEW m \in Message
    PROVE  /\ Lines(l) \in Seq(Piece)
           /\ Good(Lines(Append(l, m))) = Then(Good(Lines(l)), [text |-> m, part |-> "whole"])
  <1> DEFINE u == Lines(l)
             v == Lines(Append(l, m))
             p == [text |-> m, part |-> "whole"]
  <1>1. ASSUME NEW x \in Seq(Message)
        PROVE  /\ Lines(x) \in Seq(Piece) /\ Len(Lines(x)) = Len(x)
               /\ \A i \in 1..Len(x) : Lines(x)[i] = [text |-> x[i], part |-> "whole"]
    <2>1. \A i \in 1..Len(x) : [text |-> x[i], part |-> "whole"] \in Piece
      BY DEF Piece, Part
    <2> HIDE DEF Piece
    <2> QED BY <2>1 DEF Lines
  <1>2. Append(l, m) \in Seq(Message) /\ Len(Append(l, m)) = Len(l) + 1 /\ Len(l) \in Nat
        /\ Append(l, m)[Len(l) + 1] = m
        /\ \A i \in 1..Len(l) : Append(l, m)[i] = l[i]
    OBVIOUS
  <1>3. /\ u \in Seq(Piece) /\ v \in Seq(Piece) /\ Len(v) = Len(u) + 1
        /\ \A i \in 1..Len(u) : v[i] = u[i]
        /\ v[Len(u) + 1] = p
    <2> DEFINE k == Append(l, m)
    <2>1. /\ k \in Seq(Message) /\ Len(k) = Len(l) + 1 /\ Len(l) \in Nat /\ k[Len(l) + 1] = m
          /\ \A i \in 1..Len(l) : k[i] = l[i]
      BY <1>2
    <2> HIDE DEF k
    <2>2. /\ Lines(l) \in Seq(Piece) /\ Len(Lines(l)) = Len(l)
          /\ \A i \in 1..Len(l) : Lines(l)[i] = [text |-> l[i], part |-> "whole"]
      BY <1>1
    <2>3. /\ Lines(k) \in Seq(Piece) /\ Len(Lines(k)) = Len(k)
          /\ \A i \in 1..Len(k) : Lines(k)[i] = [text |-> k[i], part |-> "whole"]
      BY <1>1, <2>1
    <2>4. Len(l) + 1 \in 1..Len(k) /\ 1..Len(l) \subseteq 1..Len(k)
      BY <2>1
    <2>5. \A i \in 1..Len(l) : Lines(k)[i] = Lines(l)[i]
      BY <2>1, <2>2, <2>3, <2>4
    <2> QED BY <2>1, <2>2, <2>3, <2>4, <2>5 DEF k
  <1> HIDE DEF u, v, p
  <1>4. Leads(<<>>, u, Good(u))
    BY <1>3, GoodLeads
  <1>5. Leads(<<>>, v, Then(Good(u), p))
    BY <1>3, <1>4, LeadsOn
  <1>6. Then(Good(u), p) = <<>> \o Good(v)
    <2>1. <<>> \in Seq(Message)
      OBVIOUS
    <2> QED BY <1>3, <1>5, <2>1, LeadsToGood
  <1>7. <<>> \o Good(v) = Good(v)
    <2>1. Good(v) \in Seq(Message)
      BY <1>3, GoodLeads
    <2> QED BY <2>1
  <1> QED BY <1>3, <1>6, <1>7 DEF u, v, p

LEMMA ReadsSent ==
    ASSUME NEW q, NEW u \in Seq(Piece), NEW v \in Seq(Piece), NEW r, NEW m \in Message,
           WellSplit(u), Leads(q, u, r), Sent(u, v, m)
    PROVE  WellSplit(v) /\ Leads(q, v, Then(r, [text |-> m, part |-> "whole"]))
  <1>1. Len(u) \in Nat
    OBVIOUS
  <1>2. CASE JoinedBy(u, v, Whole(m))
    <2>1. /\ Len(v) = Len(u) + 1 /\ \A i \in 1..Len(u) : v[i] = u[i]
          /\ v[Len(u) + 1] = [text |-> m, part |-> "whole"]
      BY <1>2 DEF JoinedBy, Whole
    <2>2. WellSplit(v)
      <3> SUFFICES ASSUME NEW i \in 1..Len(v)
                   PROVE  /\ v[i].part = "tail" =>
                               i > 1 /\ v[i - 1].part = "head" /\ v[i - 1].text = v[i].text
                          /\ v[i].part = "head" => i < Len(v) /\ v[i + 1].part = "tail"
        BY DEF WellSplit
      <3>1. CASE i \in 1..Len(u)
        <4>1. /\ u[i].part = "tail" => i > 1 /\ u[i - 1].part = "head" /\ u[i - 1].text = u[i].text
              /\ u[i].part = "head" => i < Len(u) /\ u[i + 1].part = "tail"
          BY <3>1 DEF WellSplit
        <4>2. /\ v[i] = u[i] /\ i < Len(v)
              /\ i > 1 => v[i - 1] = u[i - 1]
              /\ i < Len(u) => v[i + 1] = u[i + 1]
          BY <1>1, <2>1, <3>1
        <4> QED BY <4>1, <4>2
      <3>2. CASE i = Len(u) + 1
        BY <2>1, <3>2
      <3> QED BY <1>1, <2>1, <3>1, <3>2
    <2> QED BY <2>1, <2>2, LeadsOn
  <1>3. CASE JoinedBy(u, v, Split(m))
    <2> DEFINE n == Len(u)
               x == Append(u, v[n + 1])
    <2>1. /\ Len(v) = n + 2 /\ \A i \in 1..n : v[i] = u[i]
          /\ v[n + 1] = [text |-> m, part |-> "head"]
          /\ v[n + 2] = [text |-> m, part |-> "tail"]
      BY <1>3 DEF JoinedBy, Split
    <2>2. v[n + 1] \in Piece
      BY <1>1, <2>1
    <2>3. /\ x \in Seq(Piece) /\ Len(x) = n + 1 /\ x[n + 1] = v[n + 1]
          /\ \A i \in 1..n : x[i] = u[i]
      BY <2>2, AppendProperties
    <2> HIDE DEF x
    <2>4. Leads(q, x, Then(r, x[n + 1]))
      BY <2>3, LeadsOn
    <2>5. Leads(q, x, r)
      BY <2>1, <2>3, <2>4 DEF Then
    <2>6. Leads(q, v, Then(r, v[Len(x) + 1]))
      <3>1. Len(v) = Len(x) + 1 /\ \A i \in 1..Len(x) : v[i] = x[i]
        BY <1>1, <2>1, <2>3
      <3> QED BY <2>3, <2>5, <3>1, LeadsOn
    <2>7. Len(x) + 1 = n + 2
      BY <1>1, <2>3
    <2>8. WellSplit(v)
      <3> HIDE DEF n
      <3> SUFFICES ASSUME NEW i \in 1..Len(v)
                   PROVE  /\ v[i].part = "tail" =>
                               i > 1 /\ v[i - 1].part = "head" /\ v[i - 1].text = v[i].text
                          /\ v[i].part = "head" => i < Len(v) /\ v[i + 1].part = "tail"
        BY DEF WellSplit
      <3>1. n \in Nat
        BY <1>1 DEF n
      <3>2. CASE i \in 1..n
        <4>1. /\ u[i].part = "tail" => i > 1 /\ u[i - 1].part = "head" /\ u[i - 1].text = u[i].text
              /\ u[i].part = "head" => i < n /\ u[i + 1].part = "tail"
          BY <3>2 DEF WellSplit, n
        <4>2. /\ v[i] = u[i] /\ i < Len(v)
              /\ i > 1 => v[i - 1] = u[i - 1]
              /\ i < n => v[i + 1] = u[i + 1]
          BY <2>1, <3>1, <3>2
        <4> QED BY <4>1, <4>2
      <3>3. CASE i = n + 1
        BY <2>1, <3>1, <3>3
      <3>4. CASE i = n + 2
        <4>1. i - 1 = n + 1 /\ i > 1
          BY <3>1, <3>4
        <4> QED BY <2>1, <3>4, <4>1
      <3> QED BY <2>1, <3>1, <3>2, <3>3, <3>4
    <2> QED BY <2>1, <2>6, <2>7, <2>8 DEF Then
  <1> QED BY <1>2, <1>3 DEF Sent

LEMMA ReadsFrame ==
    ASSUME NEW s, Reads(s), Ahead(s)' = Ahead(s), queued'[s] = queued[s], said'[s] = said[s]
    PROVE  Reads(s)'
  BY DEF Reads

\* A line taken from the buffer of cur and queued, unless json::parse rejects it
LEMMA ReadsLine ==
    ASSUME TypeOK, ClientsOK, TakeLine, Reads(cur)
    PROVE  Reads(cur)'
  <1> DEFINE b == clients[cur].buffer
             u == Ahead(cur)
             v == AfterLine(b) \o inbox[cur]
             r == Good(Lines(said[cur]))
             t == u[LineEnd(u)].text
  <1>1. cur \in DOMAIN clients /\ b \in Seq(Piece) /\ inbox[cur] \in Seq(Piece) /\ HasLine(b)
    BY TakeLineFacts, AheadType DEF TakeLine
  <1>2. /\ u \in Seq(Piece) /\ v \in Seq(Piece) /\ HasLine(u)
        /\ FirstLine(u) = FirstLine(b) /\ Behind(u, v)
    <2>1. BufferHasTheLine(Piece)
      BY LineOfStream
    <2> QED BY <1>1, <2>1, Zenon DEF BufferHasTheLine, Ahead
  <1>3. Ahead(cur)' = v /\ said' = said /\ cur' = cur
    <2>1. /\ cur' = cur /\ clients'[cur].buffer = AfterLine(b) /\ inbox'[cur] = inbox[cur]
          /\ said' = said
      BY TakeLineFacts DEF TakeLine, thread, network
    <2> QED BY <2>1, Zenon DEF Ahead
  <1> HIDE DEF v, u
  <1>4. WellSplit(u) /\ Leads(queued[cur], u, r)
    BY DEF Reads, u
  <1>5. /\ u[LineEnd(u)].part # "head"
        /\ Parsed(FirstLine(b)) = {t} \ Garbage
    BY <1>2, <1>4, FirstLineSays
  <1>6. WellSplit(v) /\ Leads(Then(queued[cur], u[LineEnd(u)]), v, r)
    BY <1>2, <1>4, LeadsBehindLine
  <1>7. queued'[cur] = Then(queued[cur], u[LineEnd(u)])
    <2> HIDE DEF t
    <2>1. CASE t \in Garbage
      <3>1. queued' = queued
        BY <1>5, <2>1 DEF TakeLine
      <3> QED BY <2>1, <3>1 DEF Then, t
    <2>2. CASE t \notin Garbage
      <3>1. queued' = [queued EXCEPT ![cur] = Append(@, t)]
        BY <1>5, <2>2 DEF TakeLine
      <3>2. queued'[cur] = Append(queued[cur], t)
        BY <3>1, TakeLineFacts DEF TypeOK
      <3> QED BY <1>5, <2>2, <3>2 DEF Then, t
    <2> QED BY <2>1, <2>2
  <1> QED BY <1>3, <1>6, <1>7 DEF Reads

LEMMA StreamsStep == TypeOK /\ ClientsOK /\ StreamsOK /\ Next => StreamsOK'
  <1> SUFFICES ASSUME TypeOK, ClientsOK, StreamsOK, Next, NEW s \in DOMAIN clients'
               PROVE  Reads(s)'
    BY DEF StreamsOK
  <1> USE DEF thread, network, history, life, sockets
  <1>1. ASSUME s \in DOMAIN clients, inbox'[s] = inbox[s], said'[s] = said[s],
               queued'[s] = queued[s], clients'[s].buffer = clients[s].buffer
        PROVE  Reads(s)'
    <2>1. Reads(s)
      BY <1>1 DEF StreamsOK
    <2>2. Ahead(s)' = Ahead(s)
      BY <1>1 DEF Ahead
    <2> QED BY <1>1, <2>1, <2>2, ReadsFrame
  <1>2. ASSUME UNCHANGED <<clients, inbox, said, queued>> PROVE Reads(s)'
    BY <1>1, <1>2
  <1>3. CASE Bind \/ ListenOn
    BY <1>2, <1>3 DEF Bind, ListenOn
  <1>4. CASE SelectError \/ SelectReady \/ SelectTimeout \/ AcceptFails \/ PassDone \/ LinesDone
    BY <1>2, <1>4 DEF SelectError, SelectReady, SelectTimeout, AcceptFails, PassDone, LinesDone
  <1>5. CASE TakeLine
    <2>1. UNCHANGED <<cur, inbox, said>>
      BY <1>5 DEF TakeLine
    <2>2. CASE s = cur
      <3>1. Reads(cur)
        BY <1>5, TakeLineFacts DEF StreamsOK
      <3>2. Reads(cur)'
        BY <1>5, <3>1, ReadsLine
      <3> QED BY <2>1, <2>2, <3>2 DEF Reads, Ahead
    <2>3. CASE s # cur
      <3>1. s \in DOMAIN clients /\ s \in Socket
        BY <1>5, TakeLineFacts DEF TypeOK
      <3> QED BY <1>1, <1>5, <2>1, <2>3, <3>1, TakeLineFacts
    <2> QED BY <2>2, <2>3
  <1>6. CASE StopFlag \/ StopServer \/ Connect
    BY <1>2, <1>6 DEF StopFlag, StopServer, Connect
  <1>7. ASSUME NEW c \in Socket, Sweep(c) PROVE Reads(s)'
    BY <1>1, <1>7 DEF Sweep
  <1>8. ASSUME NEW c \in Socket, Accept(c) PROVE Reads(s)'
    <2>1. CASE s # c
      <3>1. s \in DOMAIN clients /\ s \in Socket
        BY <1>8, <2>1 DEF Accept, TypeOK
      <3>2. /\ inbox'[s] = inbox[s] /\ said'[s] = said[s] /\ queued'[s] = queued[s]
            /\ clients'[s] = clients[s]
        BY <1>8, <2>1, <3>1 DEF Accept, TypeOK
      <3> QED BY <1>1, <3>1, <3>2
    <2>2. CASE s = c
      <3>1. /\ inbox'[s] = <<>> /\ said'[s] = <<>> /\ queued'[s] = <<>>
            /\ clients'[s].buffer = <<>>
        BY <1>8, <2>2 DEF Accept, TypeOK
      <3>2. Ahead(s)' = <<>>
        BY <3>1 DEF Ahead
      <3>3. Lines(<<>>) = <<>>
        BY DEF Lines
      <3>4. WellSplit(<<>>)
        BY DEF WellSplit
      <3>5. Leads(<<>>, <<>>, Good(<<>>))
        <4>1. <<>> \in Seq(Piece)
          OBVIOUS
        <4> QED BY <4>1, GoodLeads
      <3> QED BY <3>1, <3>2, <3>3, <3>4, <3>5, Zenon DEF Reads
    <2> QED BY <2>1, <2>2
  <1>9. ASSUME NEW c \in Socket, RecvData(c) PROVE Reads(s)'
    <2>1. s \in DOMAIN clients /\ s \in Socket /\ UNCHANGED <<said, queued>>
      BY <1>9, RecvDataFacts DEF RecvData, TypeOK
    <2>2. CASE s = c
      <3>1. Reads(s)
        BY <2>1 DEF StreamsOK
      <3> QED BY <1>9, <2>1, <2>2, <3>1, RecvDataFacts, ReadsFrame
    <2>3. CASE s # c
      BY <1>1, <1>9, <2>1, <2>3, RecvDataFacts
    <2> QED BY <2>2, <2>3
  <1>10. ASSUME NEW c \in Socket, RecvEnd(c) PROVE Reads(s)'
    BY <1>2, <1>10 DEF RecvEnd
  <1>11. ASSUME NEW c \in Socket, Age(c) \/ Silence(c) PROVE Reads(s)'
    <2>1. s \in DOMAIN clients /\ UNCHANGED <<inbox, said, queued>>
      BY <1>11 DEF Age, Silence
    <2>2. clients'[s].buffer = clients[s].buffer
      <3>1. clients[s] \in ClientInfo
        BY <2>1, AheadType
      <3> QED BY <1>11, <2>1, <3>1 DEF Age, Silence, ClientInfo
    <2> QED BY <1>1, <2>1, <2>2
  <1>12. ASSUME NEW c \in Socket, NEW m \in Message, SendLine(c, m) PROVE Reads(s)'
    <2>1. s \in DOMAIN clients /\ s \in Socket /\ UNCHANGED <<queued, clients>>
      BY <1>12 DEF SendLine, TypeOK
    <2>2. CASE s = c
      <3>1. Reads(s) /\ said[s] \in Seq(Message)
        BY <2>1 DEF StreamsOK, TypeOK
      <3>2. /\ said'[s] = Append(said[s], m)
            /\ Ahead(s) \in Seq(Piece) /\ Ahead(s)' \in Seq(Piece)
            /\ Sent(Ahead(s), Ahead(s)', m)
        BY <1>12, <2>2, SendLineFacts
      <3>3. /\ WellSplit(Ahead(s)')
            /\ Leads(queued[s], Ahead(s)',
                     Then(Good(Lines(said[s])), [text |-> m, part |-> "whole"]))
        BY <3>1, <3>2, ReadsSent DEF Reads
      <3>4. Good(Lines(said'[s])) = Then(Good(Lines(said[s])), [text |-> m, part |-> "whole"])
        BY <3>1, <3>2, OneMoreSaid
      <3> QED BY <2>1, <3>3, <3>4 DEF Reads
    <2>3. CASE s # c
      BY <1>1, <1>12, <2>1, <2>3, SendLineFacts
    <2> QED BY <2>2, <2>3
  <1>13. ASSUME NEW c \in Socket, NEW how, EndConnection(c, how) PROVE Reads(s)'
    BY <1>2, <1>13 DEF EndConnection
  <1> QED BY <1>3, <1>4, <1>5, <1>6, <1>7, <1>8, <1>9, <1>10, <1>11, <1>12, <1>13, Steps

-----------------------------------------------------------------------------
(* The theorems *)

LEMMA InvInit == Init => IInv
  <1> SUFFICES ASSUME Init PROVE IInv
    OBVIOUS
  <1>1. TypeOK
    <2>1. /\ inbox \in [Socket -> Seq(Piece)] /\ said \in [Socket -> Seq(Message)]
          /\ queued \in [Socket -> Seq(Message \ Garbage)]
      BY DEF Init
    <2> QED BY <2>1 DEF Init, TypeOK, Created, ServerState
  <1>2. ClientsOK
    BY DEF Init, ClientsOK
  <1>3. StreamsOK
    BY DEF Init, StreamsOK
  <1> QED BY <1>1, <1>2, <1>3 DEF IInv

LEMMA InvStep == IInv /\ [Next]_vars => IInv'
  <1> SUFFICES ASSUME IInv, [Next]_vars PROVE IInv'
    OBVIOUS
  <1>1. CASE Next
    BY <1>1, TypeStep, ClientsStep, StreamsStep DEF IInv
  <1>2. CASE UNCHANGED vars
    <2> USE <1>2 DEF IInv, vars, thread, network, history, life, sockets
    <2>1. TypeOK'
      BY DEF TypeOK
    <2>2. ClientsOK'
      BY DEF ClientsOK
    <2>3. StreamsOK'
      BY DEF StreamsOK, Reads, Ahead
    <2> QED BY <2>1, <2>2, <2>3
  <1> QED BY <1>1, <1>2

LEMMA Inductive == SafetySpec => []IInv
  BY InvInit, InvStep, PTL DEF SafetySpec

\* Every variable of the receiver keeps its type; what is queued was parsed.
THEOREM TypeCorrect == SafetySpec => []TypeOK
  <1>1. IInv => TypeOK
    BY DEF IInv
  <1> QED BY <1>1, Inductive, PTL

\* Every socket handleSelect gives to select is an open client on record, or
\* the listening socket: accept, the idle sweep and stop() keep them in step.
THEOREM SelectedOpen == SafetySpec => []WatchedAreOpen
  <1>1. IInv => WatchedAreOpen
    BY DEF IInv, ClientsOK, WatchedAreOpen
  <1> QED BY <1>1, Inductive, PTL

\* For any number of producers, lines and splittings of the stream by recv,
\* handleClient queues exactly the good lines each producer has said, in order;
\* the rest of them is still in the buffer or on its way.
THEOREM QueuedAsSaid == SafetySpec => []StreamKept
  <1>1. ASSUME IInv PROVE StreamKept
    <2> SUFFICES ASSUME NEW s \in DOMAIN clients
                 PROVE  Good(Lines(said[s])) = queued[s] \o Good(Ahead(s))
      BY DEF StreamKept
    <2>1. TypeOK /\ s \in Socket
      BY <1>1 DEF IInv, TypeOK
    <2>2. queued[s] \in Seq(Message)
      <3>1. queued[s] \in Seq(Message \ Garbage)
        BY <2>1 DEF TypeOK
      <3>2. Seq(Message \ Garbage) \subseteq Seq(Message)
        OBVIOUS
      <3> QED BY <3>1, <3>2
    <2>3. Leads(queued[s], Ahead(s), Good(Lines(said[s])))
      BY <1>1 DEF IInv, StreamsOK, Reads
    <2> QED BY <2>1, <2>2, <2>3, AheadType, LeadsToGood
  <1> QED BY <1>1, Inductive, PTL
=============================================================================
