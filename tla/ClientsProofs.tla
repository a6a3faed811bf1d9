----------------------------- MODULE ClientsProofs -----------------------------
(***************************************************************************)
(* What the two client programs keep for any numbers, any N and however    *)
(* recv cuts the stream: the producer's sender sends what was made, in     *)
(* order, and N lines of it, and the consumer's file says of each line     *)
(* whether its number is prime.                                            *)
(***************************************************************************)
EXTENDS Clients, SequenceLemmas, TLAPS

-----------------------------------------------------------------------------
(* The invariant *)

Datum == Number \cup Memory

\* The producing thread makes N numbers, and counts each after it has pushed it.
MakerOK == /\ made \in Seq(Number) /\ cnt \in 0..N
           /\ \/ ppc = "push" /\ cnt > 0 /\ Len(made) = N - cnt
              \/ ppc = "count" /\ cnt > 0 /\ Len(made) = N - cnt + 1
              \/ ppc = "done" /\ cnt = 0 /\ Len(made) = N

\* The sender sends whatever it takes; once it has found cnt at 0, nothing more
\* is made.
SenderOK == /\ sent \in Seq(Datum) /\ taken \in Nat /\ surplus \in BOOLEAN
            /\ spc \in {"connect", "cnt", "empty", "take", "done"} => taken = Len(sent)
            /\ spc = "send" => taken = Len(sent) + 1 /\ value \in Datum
            /\ spc \in {"empty", "done"} => cnt = 0
            /\ spc = "done" => Len(sent) = N

\* Unless it took too many, what it took is the first of what was made.
InStep == surplus \/ /\ Len(sent) <= Len(made)
                     /\ \A i \in 1..Len(sent) : sent[i] = made[i]
                     /\ spc = "send" => taken <= Len(made) /\ value = made[taken]

\* The stream that the consumer has yet to read holds the numbers that follow
\* those it has n jobs for, each in two pieces.
Halves(u, q, n) == \A i \in 1..Len(u) :
                      /\ i % 2 = 1 => u[i] = [text |-> q[n + (i + 1) \div 2], part |-> "head"]
                      /\ i % 2 = 0 => u[i] = [text |-> q[n + i \div 2], part |-> "tail"]

Piece == [text : Datum \cup {Error}, part : Part]
Stream == recvs \o inbox

Job == [num : Datum, next : 1..4, beside : SUBSET Nat]

StreamOK == /\ relayed \in 0..Len(sent)
            /\ recvs \in Seq(Piece) /\ inbox \in Seq(Piece)
            /\ jobs \in Seq(Job)
            /\ \A n \in 1..Len(jobs) : jobs[n].num = sent[n]
            /\ \/ Stream = Refusal /\ jobs = <<>> /\ relayed = 0
               \/ /\ Len(jobs) <= relayed /\ Len(Stream) = 2 * (relayed - Len(jobs))
                  /\ Halves(Stream, sent, Len(jobs))

Pieces == [by : Nat, part : 1..3, text : Datum \cup {0, 1, NewLine}]

\* A thread that was not at work when a later one began is done.
BesideOK == \A n, m \in 1..Len(jobs) : m < n /\ m \notin jobs[n].beside => jobs[m].next = Done

\* What has been written is of a job, before the part that is its next; it is
\* right, in order, and all there.
WrittenBy(i) == result[i].by \in 1..Len(jobs) /\ result[i].part < jobs[result[i].by].next
ResultOK == clashed \/ /\ \A i \in 1..Len(result) : WrittenBy(i) /\ Right(result[i])
                       /\ \A i, k \in 1..Len(result) : i < k => InOrder(result[i], result[k])
                       /\ \A n \in 1..Len(jobs) : \A p \in 1..jobs[n].next - 1 : Written(n, p)

FileOK == result \in Seq(Pieces) /\ clashed \in BOOLEAN /\ BesideOK

IInv == MakerOK /\ SenderOK /\ InStep /\ StreamOK /\ FileOK /\ ResultOK

-----------------------------------------------------------------------------
(* Prime numbers *)

LEMMA Division ==
    ASSUME NEW x \in Nat, NEW d \in Nat \ {0}
    PROVE  x \div d \in Nat /\ x % d \in 0..(d - 1) /\ x = (d * (x \div d)) + (x % d)
  OBVIOUS

LEMMA Multiple ==
    ASSUME NEW q \in Nat \ {0}, NEW d \in Nat
    PROVE  (q * d) % q = 0
  <1> DEFINE x == q * d
             k == x \div q
             r == x % q
  <1>1. x \in Nat
    OBVIOUS
  <1>2. k \in Nat /\ r \in 0..(q - 1) /\ x = (q * k) + r
    BY <1>1, Division
  <1>3. x = q * d
    OBVIOUS
  <1> HIDE DEF x, k, r
  <1>4. q * (d - k) = r
    BY <1>1, <1>2, <1>3
  <1>5. PICK e \in Int : e = d - k
    BY <1>2
  <1>6. ASSUME e >= 1 PROVE FALSE
    <2>1. q * e >= q
      BY <1>6
    <2> QED BY <1>2, <1>4, <1>5, <2>1
  <1>7. ASSUME e <= -1 PROVE FALSE
    <2>1. q * e <= -q
      BY <1>7
    <2> QED BY <1>2, <1>4, <1>5, <2>1
  <1>8. e = 0
    BY <1>6, <1>7
  <1>9. r = 0
    BY <1>4, <1>5, <1>8
  <1> QED BY <1>9 DEF r, x

\* A product is odd only if both factors are.
LEMMA OddFactors ==
    ASSUME NEW d \in Nat, NEW q \in Nat, (d * q) % 2 = 1
    PROVE  d % 2 = 1 /\ q % 2 = 1
  <1>1. ASSUME NEW a \in Nat, NEW b \in Nat, a % 2 = 0 PROVE (a * b) % 2 = 0
    <2>1. a = 2 * (a \div 2) /\ a \div 2 \in Nat
      BY <1>1
    <2>2. PICK c \in Nat : a = 2 * c
      BY <2>1
    <2>3. PICK e \in Nat : a * b = 2 * e
      <3>1. a * b = 2 * (c * b) /\ c * b \in Nat
        BY <2>2
      <3> QED BY <3>1
    <2> QED BY <2>3
  <1>2. d * q = q * d
    OBVIOUS
  <1>3. d % 2 \in {0, 1} /\ q % 2 \in {0, 1}
    OBVIOUS
  <1> QED BY <1>1, <1>2, <1>3

\* An odd number that is not prime has a divisor among those the loop tries.
LEMMA TrialDivision ==
    ASSUME NEW x \in Nat, x <= IntMax, x % 2 = 1, x > 1,
           \A i \in Odd : i * i <= x => x % i # 0
    PROVE  Prime(x)
  <1> SUFFICES ASSUME NEW d \in 2..x - 1, x % d = 0 PROVE FALSE
    BY DEF Prime
  <1> DEFINE q == x \div d
  <1>1. q \in Nat /\ x = d * q
    <2>1. d \in Nat \ {0}
      OBVIOUS
    <2>2. q \in Nat /\ x = (d * q) + (x % d)
      BY <2>1, Division
    <2> QED BY <2>1, <2>2
  <1> HIDE DEF q
  <1>2. q >= 2
    BY <1>1
  <1>3. d % 2 = 1 /\ q % 2 = 1
    BY <1>1, OddFactors
  <1>4. d >= 3 /\ q >= 3
    <2>1. ASSUME NEW a \in Nat, a >= 2, a % 2 = 1 PROVE a >= 3
      BY <2>1
    <2>2. d \in Nat /\ d >= 2
      OBVIOUS
    <2> QED BY <1>1, <1>2, <1>3, <2>1, <2>2
  <1>5. x = q * d /\ x % q = 0
    <2>1. q * d = d * q
      BY <1>1
    <2>2. (q * d) % q = 0
      <3>1. q \in Nat \ {0} /\ d \in Nat
        BY <1>1, <1>4
      <3> QED BY <3>1, Multiple
    <2> QED BY <1>1, <2>1, <2>2
  <1>6. ASSUME NEW a \in Nat, a >= 3, a % 2 = 1, a * a <= x, x % a = 0 PROVE FALSE
    <2>1. a <= a * a
      BY <1>6
    <2>2. IntMax \in Nat
      BY ClientsAssumption
    <2>3. a \in Odd
      BY <1>6, <2>1, <2>2 DEF Odd
    <2> QED BY <1>6, <2>3
  <1>7. CASE d <= q
    <2>1. d * d <= d * q
      BY <1>1, <1>7
    <2>2. d \in Nat /\ d * d <= x
      BY <1>1, <2>1
    <2> QED BY <1>3, <1>4, <1>6, <2>2
  <1>8. CASE q <= d
    <2>1. q * q <= q * d
      BY <1>1, <1>8
    <2>2. q * q <= x
      BY <1>5, <2>1
    <2> QED BY <1>1, <1>3, <1>4, <1>5, <1>6, <2>2
  <1> QED BY <1>1, <1>7, <1>8

\* What IsPrime may answer of an int is the truth, or no above Edge.
LEMMA IsPrimeAnswers ==
    ASSUME NEW x \in Datum, NEW prime \in IsPrime(x)
    PROVE  /\ prime \in BOOLEAN
           /\ prime => Prime(x)
           /\ ~prime => ~Prime(x) \/ x >= Edge
  <1>1. x \in Int /\ x <= IntMax /\ IntMax \in Nat
    BY ClientsAssumption DEF Datum
  <1> DEFINE tried == \E i \in Odd : i * i <= x /\ x % i = 0
             no == x < 2 \/ (x # 2 /\ x % 2 = 0) \/ tried
  <1>2. IsPrime(x) = IF no THEN {FALSE} ELSE IF x >= Edge THEN BOOLEAN ELSE {TRUE}
    BY DEF IsPrime
  <1>3. ASSUME no PROVE ~Prime(x)
    <2>1. CASE x < 2 \/ (x # 2 /\ x % 2 = 0)
      BY <1>1, <2>1 DEF Prime
    <2>2. CASE x >= 2 /\ tried
      <3>1. PICK i \in Odd : i * i <= x /\ x % i = 0
        BY <2>2
      <3>2. i \in Nat /\ i >= 3
        BY <1>1 DEF Odd
      <3>3. i < i * i
        BY <3>2
      <3>4. i \in 2..x - 1
        BY <1>1, <3>1, <3>2, <3>3
      <3> QED BY <3>1, <3>4 DEF Prime
    <2> QED BY <1>1, <1>3, <2>1, <2>2
  <1>4. ASSUME ~no PROVE Prime(x)
    <2>1. CASE x = 2
      BY <2>1 DEF Prime
    <2>2. CASE x # 2
      <3>1. x \in Nat /\ x > 1 /\ x % 2 = 1
        BY <1>1, <1>4, <2>2
      <3>2. \A i \in Odd : i * i <= x => x % i # 0
        BY <1>4
      <3> QED BY <1>1, <3>1, <3>2, TrialDivision
    <2> QED BY <2>1, <2>2
  <1> HIDE DEF no
  <1>5. CASE no
    <2>1. prime = FALSE
      BY <1>2, <1>5
    <2> QED BY <1>3, <1>5, <2>1, Zenon
  <1>6. CASE ~no
    <2>1. prime = TRUE \/ x >= Edge
      BY <1>2, <1>6
    <2>2. prime \in BOOLEAN
      BY <1>2, <1>6
    <2> QED BY <1>4, <1>6, <2>1, <2>2, Zenon
  <1> QED BY <1>5, <1>6

-----------------------------------------------------------------------------
(* What a step leaves as it is *)

LEMMA InvInit == Init => IInv
  <1> SUFFICES ASSUME Init PROVE IInv
    OBVIOUS
  <1> USE DEF Init
  <1>1. MakerOK
    BY ClientsAssumption DEF MakerOK
  <1>2. SenderOK /\ InStep /\ FileOK
    <2>1. /\ sent = <<>> /\ sent \in Seq(Datum) /\ Len(sent) = 0 /\ made = <<>> /\ Len(made) = 0
          /\ result \in Seq(Pieces)
      OBVIOUS
    <2>2. SenderOK
      BY <2>1, Zenon DEF SenderOK
    <2>3. InStep
      BY <2>1 DEF InStep
    <2>4. FileOK
      <3>1. jobs = <<>> /\ Len(<<>>) = 0
        OBVIOUS
      <3>2. BesideOK
        BY <3>1 DEF BesideOK
      <3> QED BY <2>1, <3>2 DEF FileOK
    <2> QED BY <2>2, <2>3, <2>4
  <1>3. ResultOK
    BY DEF ResultOK
  <1>4. recvs \in Seq(Piece) /\ inbox \in Seq(Piece)
    <2>1. [text |-> Error, part |-> "head"] \in Piece
      BY DEF Piece, Part
    <2>2. ASSUME NEW p \in Piece PROVE <<p>> \in Seq(Piece)
      OBVIOUS
    <2>3. Refusal \in Seq(Piece)
      BY <2>1, <2>2 DEF Refusal
    <2>4. <<>> \in Seq(Piece)
      OBVIOUS
    <2>5. recvs = <<>> /\ (inbox = <<>> \/ inbox = Refusal)
      OBVIOUS
    <2> QED BY <2>3, <2>4, <2>5
  <1>5. Stream = Refusal \/ Stream = <<>>
    BY DEF Stream, Refusal
  <1>6. StreamOK
    BY <1>4, <1>5 DEF StreamOK, Halves
  <1> QED BY <1>1, <1>2, <1>3, <1>6 DEF IInv

\* A step of the producer's process adds at most to what is sent.
LEMMA ConsumerFrame ==
    ASSUME IInv, UNCHANGED <<relayed, consumer>>, sent' \in Seq(Datum),
           Len(sent) <= Len(sent'), \A i \in 1..Len(sent) : sent'[i] = sent[i]
    PROVE  StreamOK' /\ FileOK' /\ ResultOK'
  <1> USE DEF consumer
  <1>1. FileOK'
    BY DEF IInv, FileOK, BesideOK
  <1>2. /\ relayed \in 0..Len(sent) /\ Len(sent) \in Nat /\ Len(sent') \in Nat
        /\ recvs \in Seq(Piece) /\ inbox \in Seq(Piece)
        /\ jobs \in Seq(Job)
        /\ Len(jobs) \in Nat /\ Len(jobs) <= relayed
        /\ \A n \in 1..Len(jobs) : jobs[n].num = sent[n]
        /\ result \in Seq(Pieces) /\ Len(result) \in Nat
    BY DEF IInv, StreamOK, SenderOK, FileOK
  <1>3. \A n \in 1..Len(jobs) : jobs[n].num = sent'[n]
    BY <1>2
  <1>4. Stream' = Stream
    BY DEF Stream
  <1>5. StreamOK'
    <2>1. CASE Stream = Refusal /\ jobs = <<>> /\ relayed = 0
      BY <1>2, <1>3, <1>4, <2>1 DEF StreamOK
    <2>2. CASE Len(Stream) = 2 * (relayed - Len(jobs)) /\ Halves(Stream, sent, Len(jobs))
      <3> DEFINE u == Stream
                 n == Len(jobs)
      <3> HIDE DEF u
      <3>1. ASSUME NEW i \in 1..Len(u)
            PROVE  /\ i % 2 = 1 => sent'[n + (i + 1) \div 2] = sent[n + (i + 1) \div 2]
                   /\ i % 2 = 0 => sent'[n + i \div 2] = sent[n + i \div 2]
        <4>1. relayed \in Nat /\ relayed <= Len(sent) /\ n \in Nat /\ Len(u) = 2 * (relayed - n)
          BY <1>2, <2>2 DEF u
        <4>2. i % 2 = 1 => n + (i + 1) \div 2 \in 1..relayed
          BY <4>1
        <4>3. i % 2 = 0 => n + i \div 2 \in 1..relayed
          BY <4>1
        <4>4. \A k \in 1..relayed : sent'[k] = sent[k]
          BY <1>2
        <4> QED BY <4>2, <4>3, <4>4
      <3>2. Halves(u, sent', n)
        BY <2>2, <3>1 DEF Halves, u
      <3> QED BY <1>2, <1>3, <1>4, <2>2, <3>2 DEF StreamOK, u
    <2> QED BY <2>1, <2>2 DEF IInv, StreamOK
  <1>6. ResultOK'
    <2>1. CASE clashed
      BY <2>1 DEF ResultOK
    <2>2. CASE ~clashed
      <3>1. /\ \A i \in 1..Len(result) : WrittenBy(i) /\ Right(result[i])
            /\ \A i, k \in 1..Len(result) : i < k => InOrder(result[i], result[k])
            /\ \A n \in 1..Len(jobs) : \A p \in 1..jobs[n].next - 1 : Written(n, p)
        BY <2>2 DEF IInv, ResultOK
      <3>2. ASSUME NEW i \in 1..Len(result) PROVE sent'[result[i].by] = sent[result[i].by]
        <4>1. result[i].by \in 1..Len(jobs)
          BY <3>1 DEF WrittenBy
        <4> QED BY <1>2, <4>1
      <3>3. \A i \in 1..Len(result) : Right(result[i])'
        BY <3>1, <3>2 DEF Right
      <3> QED BY <3>1, <3>3 DEF ResultOK, WrittenBy, InOrder, Written
    <2> QED BY <2>1, <2>2
  <1> QED BY <1>1, <1>5, <1>6

\* result.txt is judged by what was sent and by what the threads have done.
LEMMA FileFrame ==
    ASSUME IInv, UNCHANGED <<sent, jobs, result, clashed>>
    PROVE  FileOK' /\ ResultOK'
  <1>1. BesideOK' /\ FileOK'
    BY DEF IInv, FileOK, BesideOK
  <1>2. \A i \in 1..Len(result) : /\ WrittenBy(i)' <=> WrittenBy(i)
                                  /\ Right(result[i])' <=> Right(result[i])
    BY DEF WrittenBy, Right
  <1>3. \A i, k \in 1..Len(result) : InOrder(result[i], result[k])' <=> InOrder(result[i], result[k])
    BY DEF InOrder
  <1>4. \A n, p : Written(n, p)' <=> Written(n, p)
    BY DEF Written
  <1> QED BY <1>1, <1>2, <1>3, <1>4 DEF IInv, ResultOK

LEMMA ProducerFrame ==
    ASSUME IInv, UNCHANGED <<producer, sender>>
    PROVE  MakerOK' /\ SenderOK' /\ InStep'
  BY DEF IInv, MakerOK, SenderOK, InStep, producer, sender

-----------------------------------------------------------------------------
(* The producer's process *)

LEMMA MakerStep == IInv /\ (Push \/ CountDown) => IInv'
  <1> SUFFICES ASSUME IInv, Push \/ CountDown PROVE IInv'
    OBVIOUS
  <1> USE DEF sender
  <1>1. UNCHANGED <<sent, relayed, consumer>> /\ sent \in Seq(Datum)
    BY DEF Push, CountDown, IInv, SenderOK
  <1>2. StreamOK' /\ FileOK' /\ ResultOK'
    BY <1>1, ConsumerFrame
  <1>3. CASE Push
    <2>1. PICK x \in Number : made' = Append(made, x)
      BY <1>3 DEF Push
    <2>2. /\ made \in Seq(Number) /\ made' \in Seq(Number) /\ Len(made') = Len(made) + 1
          /\ Len(made) \in Nat /\ \A i \in 1..Len(made) : made'[i] = made[i]
      BY <2>1 DEF IInv, MakerOK
    <2>3. MakerOK' /\ SenderOK'
      BY <1>3, <2>2 DEF Push, IInv, MakerOK, SenderOK
    <2>4. InStep'
      <3>1. CASE surplus
        BY <1>3, <3>1 DEF Push, InStep
      <3>2. CASE ~surplus
        <4>1. /\ Len(sent) <= Len(made) /\ \A i \in 1..Len(sent) : sent[i] = made[i]
              /\ spc = "send" => taken <= Len(made) /\ value = made[taken] /\ taken \in 1..Len(made)
          BY <3>2 DEF IInv, InStep, SenderOK
        <4>2. Len(sent) \in Nat
          BY <1>1
        <4> QED BY <1>3, <2>2, <4>1, <4>2 DEF Push, InStep
      <3> QED BY <3>1, <3>2
    <2> QED BY <1>2, <2>3, <2>4 DEF IInv
  <1>4. CASE CountDown
    <2>1. MakerOK'
      BY <1>4, ClientsAssumption DEF CountDown, IInv, MakerOK
    <2>2. SenderOK' /\ InStep'
      BY <1>4 DEF CountDown, IInv, MakerOK, SenderOK, InStep
    <2> QED BY <1>2, <2>1, <2>2 DEF IInv
  <1> QED BY <1>3, <1>4

LEMMA SenderStep == IInv /\ Sender => IInv'
  <1> SUFFICES ASSUME IInv, Sender PROVE IInv'
    OBVIOUS
  <1>1. UNCHANGED <<ppc, cnt, made, relayed, consumer>>
    BY DEF Sender, producer
  <1>2. MakerOK'
    BY <1>1 DEF IInv, MakerOK
  <1>3. /\ sent \in Seq(Datum) /\ Len(sent) \in Nat /\ taken \in Nat /\ surplus \in BOOLEAN
        /\ spc \in {"connect", "cnt", "empty", "take", "done"} => taken = Len(sent)
        /\ spc = "send" => taken = Len(sent) + 1 /\ value \in Datum
        /\ spc \in {"empty", "done"} => cnt = 0
        /\ spc = "done" => Len(sent) = N
        /\ made \in Seq(Number) /\ Len(made) \in Nat /\ cnt \in Nat
        /\ cnt = 0 => Len(made) = N
    BY DEF IInv, SenderOK, MakerOK
  <1>4. surplus \/ /\ Len(sent) <= Len(made)
                   /\ \A i \in 1..Len(sent) : sent[i] = made[i]
                   /\ spc = "send" => taken <= Len(made) /\ value = made[taken]
    BY DEF IInv, InStep
  <1>5. CASE Send
    <2>1. CASE sent' = Append(sent, value)
      <3>1. /\ sent' \in Seq(Datum) /\ Len(sent') = Len(sent) + 1
            /\ sent'[Len(sent) + 1] = value
            /\ \A i \in 1..Len(sent) : sent'[i] = sent[i]
        BY <1>3, <1>5, <2>1 DEF Send
      <3>2. StreamOK' /\ FileOK' /\ ResultOK'
        BY <1>1, <1>3, <3>1, ConsumerFrame
      <3>3. spc = "send" /\ spc' \in {"cnt", "failed"} /\ UNCHANGED <<taken, surplus>>
        BY <1>5 DEF Send
      <3>4. SenderOK'
        BY <1>3, <3>1, <3>3 DEF SenderOK
      <3>5. InStep'
        <4>1. CASE surplus
          BY <3>3, <4>1 DEF InStep
        <4>2. CASE ~surplus
          <5>1. /\ Len(sent') <= Len(made) /\ made[Len(sent) + 1] = value
                /\ \A i \in 1..Len(sent) : sent[i] = made[i]
            BY <1>3, <1>4, <3>1, <3>3, <4>2
          <5>2. \A i \in 1..Len(sent') : i \in 1..Len(sent) \/ i = Len(sent) + 1
            BY <1>3, <3>1
          <5>3. \A i \in 1..Len(sent') : sent'[i] = made[i]
            BY <3>1, <5>1, <5>2
          <5> QED BY <1>1, <3>3, <5>1, <5>3 DEF InStep
        <4> QED BY <4>1, <4>2
      <3> QED BY <1>2, <3>2, <3>4, <3>5 DEF IInv
    <2>2. CASE sent' = sent /\ spc' = "failed"
      <3>1. StreamOK' /\ FileOK' /\ ResultOK'
        BY <1>1, <1>3, <2>2, ConsumerFrame
      <3>2. SenderOK' /\ InStep'
        BY <1>1, <1>3, <1>4, <1>5, <2>2 DEF Send, SenderOK, InStep
      <3> QED BY <1>2, <3>1, <3>2 DEF IInv
    <2> QED BY <1>5, <2>1, <2>2 DEF Send
  <1>6. CASE Connect \/ TestCnt \/ TestEmpty \/ deQueue \/ deQueueNothing
    <2>1. sent' = sent
      BY <1>6 DEF Connect, TestCnt, TestEmpty, deQueue, deQueueNothing
    <2>2. StreamOK' /\ FileOK' /\ ResultOK'
      BY <1>1, <1>3, <2>1, ConsumerFrame
    <2>3. CASE Connect \/ TestCnt \/ TestEmpty
      <3>1. SenderOK' /\ InStep'
        BY <1>1, <1>3, <1>4, <2>1, <2>3 DEF Connect, TestCnt, TestEmpty, SenderOK, InStep
      <3> QED BY <1>2, <2>2, <3>1 DEF IInv
    <2>4. CASE deQueue
      <3>1. made[taken + 1] \in Datum
        BY <1>3, <2>4 DEF deQueue, Datum
      <3>2. SenderOK' /\ InStep'
        BY <1>1, <1>3, <1>4, <2>1, <2>4, <3>1 DEF deQueue, SenderOK, InStep
      <3> QED BY <1>2, <2>2, <3>2 DEF IInv
    <2>5. CASE deQueueNothing
      <3>1. SenderOK' /\ InStep'
        BY <1>1, <1>3, <1>4, <2>1, <2>5 DEF deQueueNothing, SenderOK, InStep, Datum
      <3> QED BY <1>2, <2>2, <3>1 DEF IInv
    <2> QED BY <1>6, <2>3, <2>4, <2>5
  <1> QED BY <1>5, <1>6 DEF Sender

-----------------------------------------------------------------------------
(* The stream between the broker and the consumer *)

\* The broker hands on the next line: two pieces more at the end.
LEMMA OneMoreLine ==
    ASSUME NEW u \in Seq(Piece), NEW v \in Seq(Piece), NEW q, NEW n \in Nat, NEW r \in Nat,
           Len(u) = 2 * (r - n), Halves(u, q, n), JoinedBy(u, v, Split(q[r + 1]))
    PROVE  Len(v) = 2 * (r + 1 - n) /\ Halves(v, q, n)
  <1> DEFINE p == Split(q[r + 1])
  <1>1. /\ Len(p) = 2
        /\ p[1] = [text |-> q[r + 1], part |-> "head"]
        /\ p[2] = [text |-> q[r + 1], part |-> "tail"]
    BY DEF Split
  <1> HIDE DEF p
  <1>2. /\ Len(v) = Len(u) + 2
        /\ \A i \in 1..Len(u) : v[i] = u[i]
        /\ v[Len(u) + 1] = p[1] /\ v[Len(u) + 2] = p[2]
    <2>1. 1 \in 1..2 /\ 2 \in 1..2
      OBVIOUS
    <2> QED BY <1>1, <2>1 DEF JoinedBy, p
  <1>3. ASSUME NEW i \in 1..Len(v)
        PROVE  /\ i % 2 = 1 => v[i] = [text |-> q[n + (i + 1) \div 2], part |-> "head"]
               /\ i % 2 = 0 => v[i] = [text |-> q[n + i \div 2], part |-> "tail"]
    <2>0. Len(u) \in Nat
      OBVIOUS
    <2>1. CASE i \in 1..Len(u)
      BY <1>2, <2>1 DEF Halves
    <2>2. CASE i = Len(u) + 1
      <3>1. i % 2 = 1 /\ n + (i + 1) \div 2 = r + 1
        BY <2>0, <2>2
      <3> QED BY <1>1, <1>2, <2>2, <3>1
    <2>3. CASE i = Len(u) + 2
      <3>1. i % 2 = 0 /\ n + i \div 2 = r + 1
        BY <2>0, <2>3
      <3> QED BY <1>1, <1>2, <2>3, <3>1
    <2> QED BY <1>2, <2>0, <2>1, <2>2, <2>3
  <1>4. Halves(v, q, n)
    BY <1>3 DEF Halves
  <1>5. Len(v) = 2 * (r + 1 - n)
    <2>1. Len(u) \in Nat
      OBVIOUS
    <2> QED BY <1>2, <2>1
  <1> QED BY <1>4, <1>5

\* The first line of the stream is the number that follows those n, in its two
\* pieces; what is behind it goes on with the next.
LEMMA OneLineLess ==
    ASSUME NEW u \in Seq(Piece), NEW v \in Seq(Piece), NEW q, NEW n \in Nat, NEW r \in Nat,
           Len(u) = 2 * (r - n), Halves(u, q, n), HasLine(u), Behind(u, v)
    PROVE  /\ FirstLine(u)[1].text = q[n + 1] /\ n < r
           /\ Len(v) = 2 * (r - (n + 1)) /\ Halves(v, q, n + 1)
  <1>1. /\ LineEnd(u) \in 1..Len(u) /\ LineEnd(u) \in Newlines(u)
        /\ \A i \in 1..(LineEnd(u) - 1) : i \notin Newlines(u)
    BY LineEndFacts
  <1>2. Len(u) \in Nat /\ DOMAIN u = 1..Len(u)
    OBVIOUS
  <1>3. n < r /\ Len(u) >= 2
    BY <1>1, <1>2
  <1>4. /\ u[1] = [text |-> q[n + 1], part |-> "head"]
        /\ u[2] = [text |-> q[n + 1], part |-> "tail"]
    <2>1. 1 \in 1..Len(u) /\ 2 \in 1..Len(u)
      BY <1>2, <1>3
    <2>2. 1 % 2 = 1 /\ 2 % 2 = 0 /\ (1 + 1) \div 2 = 1 /\ 2 \div 2 = 1
      OBVIOUS
    <2> QED BY <2>1, <2>2 DEF Halves
  <1>5. 1 \notin Newlines(u) /\ 2 \in Newlines(u)
    BY <1>2, <1>3, <1>4 DEF Newlines
  <1>6. LineEnd(u) = 2
    BY <1>1, <1>2, <1>5
  <1>7. FirstLine(u)[1] = u[1]
    <2>1. \A j \in 1..2 : u[j] \in Piece
      BY <1>2, <1>3
    <2>2. \A i \in 1..(2 - 1 + 1) : SubSeq(u, 1, 2)[i] = u[1 + i - 1]
      BY <2>1, SubSeqProperties
    <2>3. SubSeq(u, 1, 2)[1] = u[1]
      BY <2>2
    <2> QED BY <1>6, <2>3 DEF FirstLine
  <1>8. Len(v) = Len(u) - 2 /\ \A j \in 1..Len(v) : v[j] = u[2 + j]
    BY <1>6 DEF Behind
  <1>9. ASSUME NEW i \in 1..Len(v)
        PROVE  /\ i % 2 = 1 => v[i] = [text |-> q[n + 1 + (i + 1) \div 2], part |-> "head"]
               /\ i % 2 = 0 => v[i] = [text |-> q[n + 1 + i \div 2], part |-> "tail"]
    <2>1. 2 + i \in 1..Len(u) /\ v[i] = u[2 + i]
      BY <1>2, <1>8
    <2>2. /\ i % 2 = 1 => (2 + i) % 2 = 1 /\ n + ((2 + i) + 1) \div 2 = n + 1 + (i + 1) \div 2
          /\ i % 2 = 0 => (2 + i) % 2 = 0 /\ n + (2 + i) \div 2 = n + 1 + i \div 2
      OBVIOUS
    <2>3. /\ (2 + i) % 2 = 1 => u[2 + i] = [text |-> q[n + ((2 + i) + 1) \div 2], part |-> "head"]
          /\ (2 + i) % 2 = 0 => u[2 + i] = [text |-> q[n + (2 + i) \div 2], part |-> "tail"]
      BY <2>1 DEF Halves
    <2> QED BY <2>1, <2>2, <2>3
  <1>10. Halves(v, q, n + 1)
    BY <1>9 DEF Halves
  <1>11. Len(v) = 2 * (r - (n + 1))
    BY <1>2, <1>8
  <1> QED BY <1>3, <1>4, <1>7, <1>10, <1>11

\* A stream of which nothing can be said but that it was refused has no line.
LEMMA RefusalFacts ==
    ASSUME Stream = Refusal
    PROVE  Refused /\ ~HasLine(Stream)
  <1>1. /\ DOMAIN Refusal = 1..1
        /\ Refusal[1] = [text |-> Error, part |-> "head"]
    BY DEF Refusal
  <1>2. 1 \in DOMAIN Refusal
    BY <1>1
  <1>3. Refused
    BY <1>1, <1>2 DEF Refused, Stream
  <1>4. Newlines(Refusal) = {}
    BY <1>1 DEF Newlines
  <1> QED BY <1>3, <1>4 DEF HasLine

LEMMA RelayStep == IInv /\ Relay => IInv'
  <1> SUFFICES ASSUME IInv, Relay PROVE IInv'
    OBVIOUS
  <1>1. /\ UNCHANGED producer /\ UNCHANGED sender
        /\ recvs' = recvs /\ jobs' = jobs /\ result' = result /\ clashed' = clashed
        /\ relayed < Len(sent) /\ relayed' = relayed + 1
        /\ inbox' = inbox \o Split(sent[relayed + 1])
        /\ ~Refused
    BY DEF Relay
  <1>2. sent' = sent
    BY <1>1 DEF sender
  <1>3. MakerOK' /\ SenderOK' /\ InStep'
    BY <1>1, ProducerFrame
  <1>4. FileOK' /\ ResultOK'
    BY <1>1, <1>2, FileFrame
  <1>6. /\ recvs \in Seq(Piece) /\ inbox \in Seq(Piece)
        /\ relayed \in Nat /\ Len(sent) \in Nat /\ sent \in Seq(Datum)
        /\ jobs \in Seq(Job)
        /\ Len(jobs) \in Nat
        /\ \A n \in 1..Len(jobs) : jobs[n].num = sent[n]
    BY DEF IInv, StreamOK, SenderOK
  <1>7. Stream # Refusal
    BY <1>1, RefusalFacts
  <1>8. /\ Len(jobs) <= relayed /\ Len(Stream) = 2 * (relayed - Len(jobs))
        /\ Halves(Stream, sent, Len(jobs))
    BY <1>7 DEF IInv, StreamOK
  <1> DEFINE p == Split(sent[relayed + 1])
  <1>9. p \in Seq(Piece)
    <2>1. sent[relayed + 1] \in Datum
      BY <1>1, <1>6
    <2>2. /\ [text |-> sent[relayed + 1], part |-> "head"] \in Piece
          /\ [text |-> sent[relayed + 1], part |-> "tail"] \in Piece
      BY <2>1 DEF Piece, Part
    <2>3. ASSUME NEW a \in Piece, NEW b \in Piece PROVE <<a, b>> \in Seq(Piece)
      OBVIOUS
    <2> QED BY <2>2, <2>3 DEF Split
  <1>10. /\ Stream \in Seq(Piece) /\ Stream' \in Seq(Piece)
         /\ JoinedBy(Stream, Stream', p)
    <2>1. SendJoins(Piece)
      BY SendStream
    <2>2. /\ recvs \o inbox \in Seq(Piece) /\ recvs \o (inbox \o p) \in Seq(Piece)
          /\ JoinedBy(recvs \o inbox, recvs \o (inbox \o p), p)
      <3> HIDE DEF p
      <3> QED BY <1>6, <1>9, <2>1, Zenon DEF SendJoins
    <2>3. Stream' = recvs \o (inbox \o p)
      BY <1>1, Zenon DEF Stream
    <2> QED BY <2>2, <2>3, Zenon DEF Stream
  <1>11. inbox' \in Seq(Piece)
    <2> HIDE DEF p
    <2>1. ASSUME NEW a \in Seq(Piece), NEW b \in Seq(Piece) PROVE a \o b \in Seq(Piece)
      OBVIOUS
    <2>2. inbox' = inbox \o p
      BY <1>1 DEF p
    <2> QED BY <1>6, <1>9, <2>1, <2>2, Zenon
  <1>12. /\ Len(Stream') = 2 * (relayed + 1 - Len(jobs))
         /\ Halves(Stream', sent, Len(jobs))
    BY <1>6, <1>8, <1>10, OneMoreLine, Zenon
  <1>13. StreamOK'
    <2>1. relayed' \in 0..Len(sent') /\ Len(jobs) <= relayed'
      BY <1>1, <1>2, <1>6, <1>8
    <2>2. Halves(Stream', sent', Len(jobs'))
      BY <1>1, <1>2, <1>12 DEF Halves
    <2>3. Len(Stream') = 2 * (relayed' - Len(jobs'))
      <3>1. relayed' = relayed + 1 /\ jobs' = jobs
        BY <1>1
      <3>2. Len(Stream') = 2 * (relayed + 1 - Len(jobs))
        BY <1>12
      <3> QED BY <1>6, <3>1, <3>2
    <2> QED BY <1>1, <1>2, <1>6, <1>11, <2>1, <2>2, <2>3 DEF StreamOK
  <1> QED BY <1>3, <1>4, <1>13 DEF IInv

-----------------------------------------------------------------------------
(* The consumer's main thread *)

LEMMA ReceiveStep == IInv /\ Receive /\ UNCHANGED <<producer, sender, relayed>> => IInv'
  <1> SUFFICES ASSUME IInv, Receive, UNCHANGED <<producer, sender, relayed>> PROVE IInv'
    OBVIOUS
  <1>1. PICK n \in 1..Len(inbox) : /\ recvs' = recvs \o SubSeq(inbox, 1, n)
                                   /\ inbox' = SubSeq(inbox, n + 1, Len(inbox))
    <2>1. PICK n \in 1..BufferSize : /\ n <= Len(inbox)
                                     /\ recvs' = recvs \o SubSeq(inbox, 1, n)
                                     /\ inbox' = SubSeq(inbox, n + 1, Len(inbox))
      BY DEF Receive
    <2>2. n \in 1..Len(inbox)
      BY <2>1, ClientsAssumption DEF IInv, StreamOK
    <2> QED BY <2>1, <2>2
  <1>2. UNCHANGED <<jobs, result, clashed, sent, relayed>>
    BY DEF Receive, sender
  <1>3. MakerOK' /\ SenderOK' /\ InStep'
    BY ProducerFrame
  <1>4. FileOK' /\ ResultOK'
    BY <1>2, FileFrame
  <1>5. recvs \in Seq(Piece) /\ inbox \in Seq(Piece)
    BY DEF IInv, StreamOK
  <1>6. recvs' \in Seq(Piece) /\ inbox' \in Seq(Piece) /\ recvs' \o inbox' = recvs \o inbox
    <2>1. RecvKeepsStream(Piece)
      BY RecvStream
    <2> QED BY <1>1, <1>5, <2>1, Zenon DEF RecvKeepsStream
  <1>7. Stream' = Stream
    BY <1>6, Zenon DEF Stream
  <1>8. StreamOK'
    BY <1>2, <1>6, <1>7 DEF IInv, StreamOK
  <1> QED BY <1>3, <1>4, <1>8 DEF IInv

LEMMA TakeLineStep == IInv /\ TakeLine /\ UNCHANGED <<producer, sender, relayed>> => IInv'
  <1> SUFFICES ASSUME IInv, TakeLine, UNCHANGED <<producer, sender, relayed>> PROVE IInv'
    OBVIOUS
  <1> DEFINE x == FirstLine(recvs)[1].text
             n == Len(jobs)
  <1>1. /\ HasLine(recvs) /\ recvs' = AfterLine(recvs)
        /\ jobs' = IF x = Error THEN jobs ELSE Append(jobs, [num |-> x, next |-> Value, beside |-> AtWork])
        /\ UNCHANGED <<inbox, result, clashed, sent, relayed>>
    BY DEF TakeLine, sender
  <1>2. MakerOK' /\ SenderOK' /\ InStep'
    BY ProducerFrame
  <1>4. /\ recvs \in Seq(Piece) /\ inbox \in Seq(Piece)
        /\ relayed \in Nat /\ relayed <= Len(sent) /\ Len(sent) \in Nat /\ sent \in Seq(Datum)
        /\ jobs \in Seq(Job) /\ n \in Nat
        /\ \A k \in 1..n : jobs[k].num = sent[k]
        /\ result \in Seq(Pieces) /\ Len(result) \in Nat
    BY DEF IInv, StreamOK, SenderOK, FileOK
  <1>5. /\ Stream \in Seq(Piece) /\ Stream' \in Seq(Piece) /\ HasLine(Stream)
        /\ FirstLine(Stream) = FirstLine(recvs) /\ Behind(Stream, Stream')
    <2>1. BufferHasTheLine(Piece)
      BY LineOfStream
    <2>2. Stream' = AfterLine(recvs) \o inbox
      BY <1>1, Zenon DEF Stream
    <2> QED BY <1>1, <1>4, <2>1, <2>2, Zenon DEF BufferHasTheLine, Stream
  <1>6. AfterLine(recvs) \in Seq(Piece)
    BY <1>1, <1>4, AfterLineFacts
  <1>7. Len(Stream) = 2 * (relayed - n) /\ Halves(Stream, sent, n)
    BY <1>5, RefusalFacts DEF IInv, StreamOK
  <1>8. /\ x = sent[n + 1] /\ n < relayed
        /\ Len(Stream') = 2 * (relayed - (n + 1)) /\ Halves(Stream', sent, n + 1)
    <2>1. relayed \in Nat /\ n \in Nat
      BY <1>4
    <2> HIDE DEF n
    <2>2. /\ FirstLine(Stream)[1].text = sent[n + 1] /\ n < relayed
          /\ Len(Stream') = 2 * (relayed - (n + 1)) /\ Halves(Stream', sent, n + 1)
      BY <1>5, <1>7, <2>1, OneLineLess
    <2> QED BY <1>5, <2>2
  <1> HIDE DEF x
  <1>9. x \in Datum /\ x # Error
    BY <1>4, <1>8, ClientsAssumption DEF Datum
  <1> DEFINE job == [num |-> x, next |-> Value, beside |-> AtWork]
  <1>10. jobs' = Append(jobs, job) /\ job \in Job
    <2>1. AtWork \in SUBSET Nat
      BY <1>4 DEF AtWork
    <2> QED BY <1>1, <1>9, <2>1 DEF Job, Value
  <1>11. job.num = x /\ job.next = Value /\ job.beside = AtWork
    OBVIOUS
  <1> HIDE DEF job
  <1>12. /\ jobs' \in Seq(Job) /\ Len(jobs') = n + 1
         /\ \A k \in 1..n : jobs'[k] = jobs[k]
         /\ jobs'[n + 1] = job
    BY <1>4, <1>10
  <1>17. DOMAIN jobs = 1..n
    BY <1>4
  <1> HIDE DEF n
  <1>18. ASSUME NEW k \in 1..(n + 1) PROVE k \in 1..n \/ k = n + 1
    BY <1>4
  <1>13. \A k \in 1..Len(jobs') : jobs'[k].num = sent[k]
    BY <1>4, <1>8, <1>11, <1>12, <1>18
  <1>14. StreamOK'
    <2>1. Len(jobs') = n + 1 /\ relayed' = relayed /\ sent' = sent
      BY <1>1, <1>12
    <2>2. Len(jobs') <= relayed' /\ relayed' \in 0..Len(sent')
      BY <1>4, <1>8, <2>1
    <2>3. Len(Stream') = 2 * (relayed' - Len(jobs')) /\ Halves(Stream', sent', Len(jobs'))
      BY <1>8, <2>1, Zenon
    <2> QED BY <1>1, <1>4, <1>6, <1>12, <1>13, <2>2, <2>3 DEF StreamOK
  <1>15. ResultOK'
    <2>1. CASE clashed
      BY <1>1, <2>1 DEF ResultOK
    <2>2. CASE ~clashed
      <3>1. /\ \A i \in 1..Len(result) : /\ result[i].by \in 1..n /\ Right(result[i])
                                           /\ result[i].part < jobs[result[i].by].next
            /\ \A i, k \in 1..Len(result) : i < k => InOrder(result[i], result[k])
            /\ \A k \in 1..n : \A p \in 1..jobs[k].next - 1 : Written(k, p)
        BY <2>2 DEF IInv, ResultOK, WrittenBy, n
      <3>2. ASSUME NEW i \in 1..Len(result) PROVE WrittenBy(i)' /\ Right(result[i])'
        <4>1. result[i].by \in 1..n /\ jobs'[result[i].by] = jobs[result[i].by]
          BY <1>12, <3>1
        <4>2. result[i].by \in 1..Len(jobs')
          BY <1>4, <1>12, <4>1
        <4> QED BY <1>1, <3>1, <4>1, <4>2 DEF WrittenBy, Right
      <3>3. ASSUME NEW i \in 1..Len(result), NEW k \in 1..Len(result), i < k
            PROVE  InOrder(result[i], result[k])'
        <4>1. jobs'[result[i].by] = jobs[result[i].by]
          BY <1>12, <3>1
        <4> QED BY <1>1, <3>1, <3>3, <4>1 DEF InOrder
      <3>4. ASSUME NEW k \in 1..(n + 1), NEW p \in 1..jobs'[k].next - 1 PROVE Written(k, p)'
        <4>1. k \in 1..n
          BY <1>11, <1>12, <1>18 DEF Value
        <4>2. Written(k, p)
          BY <1>12, <3>1, <4>1
        <4> QED BY <1>1, <4>2 DEF Written
      <3> QED BY <1>1, <1>12, <3>2, <3>3, <3>4 DEF ResultOK
    <2> QED BY <2>1, <2>2
  <1>16. FileOK'
    <2>1. ASSUME NEW k \in 1..(n + 1), NEW m \in 1..(n + 1), m < k, m \notin jobs'[k].beside
          PROVE  jobs'[m].next = Done
      <3>1. m \in 1..n
        BY <1>4, <2>1
      <3>2. CASE k \in 1..n
        BY <1>12, <2>1, <3>1, <3>2 DEF IInv, FileOK, BesideOK, n
      <3>3. CASE k = n + 1
        BY <1>11, <1>12, <1>17, <2>1, <3>1, <3>3 DEF AtWork
      <3> QED BY <1>18, <3>2, <3>3
    <2>2. BesideOK'
      BY <1>12, <2>1 DEF BesideOK
    <2> QED BY <1>1, <2>2 DEF IInv, FileOK
  <1> QED BY <1>2, <1>14, <1>15, <1>16 DEF IInv

LEMMA IdleStep == IInv /\ (LinesDone \/ RecvEnd) /\ UNCHANGED <<producer, sender, relayed>> => IInv'
  <1> SUFFICES ASSUME IInv, LinesDone \/ RecvEnd, UNCHANGED <<producer, sender, relayed>> PROVE IInv'
    OBVIOUS
  <1>1. UNCHANGED <<inbox, recvs, jobs, result, clashed, sent, relayed>>
    BY DEF LinesDone, RecvEnd, sender
  <1>2. MakerOK' /\ SenderOK' /\ InStep'
    BY ProducerFrame
  <1>3. Stream' = Stream
    BY <1>1 DEF Stream
  <1>4. StreamOK' /\ FileOK' /\ ResultOK'
    BY <1>1, <1>3, FileFrame DEF IInv, StreamOK
  <1> QED BY <1>2, <1>4 DEF IInv

-----------------------------------------------------------------------------
(* The consumer's detached threads *)

\* What handleReceive writes in each of its three steps
Said(n, x) == \/ jobs[n].next = Value /\ x = jobs[n].num
              \/ jobs[n].next = Flag /\ \E prime \in IsPrime(jobs[n].num) : x = IF prime THEN 1 ELSE 0
              \/ jobs[n].next = Endl /\ x = NewLine

LEMMA ThreadStep ==
    ASSUME IInv, NEW n \in DOMAIN jobs, handleReceive(n), UNCHANGED <<producer, sender, relayed>>
    PROVE  IInv'
  <1> DEFINE m == Len(jobs)
             l == Len(result)
             here == jobs[n].next
  <1>1. PICK x : Write(n, x) /\ Said(n, x)
    BY Zenon DEF handleReceive, Said
  <1>2. UNCHANGED <<sent, relayed, inbox, recvs>>
    BY <1>1 DEF Write, sender
  <1>3. MakerOK' /\ SenderOK' /\ InStep'
    BY ProducerFrame
  <1>4. /\ jobs \in Seq(Job) /\ m \in Nat /\ n \in 1..m
        /\ \A k \in 1..m : jobs[k].num = sent[k]
        /\ result \in Seq(Pieces) /\ l \in Nat /\ clashed \in BOOLEAN
    BY DEF IInv, StreamOK, FileOK
  <1>5. jobs[n] \in Job /\ jobs[n].num \in Datum
    <2>1. jobs[n] \in Job
      BY <1>4
    <2> QED BY <2>1 DEF Job
  <1>6. here \in 1..3 /\ x \in Datum \cup {0, 1, NewLine}
    BY <1>1, <1>5 DEF Said, Value, Flag, Endl
  <1>7. jobs' = [jobs EXCEPT ![n].next = here + 1]
    BY <1>1 DEF Write
  <1>8. /\ jobs' \in Seq(Job) /\ Len(jobs') = m
        /\ \A k \in 1..m : /\ jobs'[k].num = jobs[k].num /\ jobs'[k].beside = jobs[k].beside
                            /\ jobs'[k].next = IF k = n THEN here + 1 ELSE jobs[k].next
    <2> DEFINE with(w) == [w EXCEPT !.next = here + 1]
    <2>1. ASSUME NEW w \in Job
          PROVE  /\ with(w) \in Job /\ with(w).num = w.num /\ with(w).beside = w.beside
                 /\ with(w).next = here + 1
      BY <1>6 DEF Job
    <2>2. jobs' = [jobs EXCEPT ![n] = with(jobs[n])]
      BY <1>7
    <2> HIDE DEF with
    <2>3. /\ jobs' \in Seq(Job) /\ Len(jobs') = m
          /\ \A k \in 1..m : jobs'[k] = IF k = n THEN with(jobs[n]) ELSE jobs[k]
      <3>1. with(jobs[n]) \in Job
        BY <1>5, <2>1
      <3> QED BY <1>4, <2>2, <3>1
    <2> QED BY <1>5, <2>1, <2>3
  <1> HIDE DEF here
  <1>9. StreamOK'
    <2>1. Stream' = Stream
      BY <1>2 DEF Stream
    <2>2. \A k \in 1..m : jobs'[k].num = sent'[k]
      BY <1>2, <1>4, <1>8
    <2>3. Stream = Refusal /\ jobs = <<>> => m = 0
      BY <1>4
    <2> QED BY <1>2, <1>4, <1>8, <2>1, <2>2, <2>3 DEF IInv, StreamOK
  <1> DEFINE w == [by |-> n, part |-> here, text |-> x]
  <1>10. \/ result' = Append(result, w) /\ clashed' = clashed
         \/ result' = result /\ clashed' = TRUE
    BY <1>1 DEF Write, Clash, here
  <1>11. w \in Pieces /\ w.by = n /\ w.part = here /\ w.text = x
    BY <1>4, <1>6 DEF Pieces
  <1> HIDE DEF w
  <1>12. FileOK'
    <2>1. ASSUME NEW S, NEW q \in Seq(S), NEW e \in S PROVE Append(q, e) \in Seq(S)
      OBVIOUS
    <2>2. result' \in Seq(Pieces) /\ clashed' \in BOOLEAN
      BY <1>4, <1>10, <1>11, <2>1, Zenon
    <2>3. BesideOK'
      <3>1. ASSUME NEW k \in 1..m, NEW i \in 1..m, i < k, i \notin jobs'[k].beside
            PROVE  jobs'[i].next = Done
        <4>1. jobs[i].next = Done
          BY <1>8, <3>1 DEF IInv, FileOK, BesideOK
        <4>2. i # n
          BY <1>6, <4>1 DEF Done, here
        <4> QED BY <1>8, <4>1, <4>2
      <3> QED BY <1>8, <3>1 DEF BesideOK
    <2> QED BY <2>2, <2>3 DEF FileOK
  <1>13. Right(w)
    <2>1. jobs[n].num = sent[n]
      BY <1>4
    <2>2. CASE jobs[n].next = Value
      BY <1>1, <1>11, <2>1, <2>2 DEF Said, Right, here, Value, Flag, Endl
    <2>3. CASE jobs[n].next = Flag
      <3>1. PICK prime \in IsPrime(jobs[n].num) : x = IF prime THEN 1 ELSE 0
        BY <1>1, <2>3 DEF Said, Value, Flag, Endl
      <3>2. /\ prime \in BOOLEAN
            /\ prime => Prime(jobs[n].num)
            /\ ~prime => ~Prime(jobs[n].num) \/ jobs[n].num >= Edge
        BY <1>5, IsPrimeAnswers
      <3>3. x = (IF Prime(sent[n]) THEN 1 ELSE 0) \/ (x = 0 /\ sent[n] >= Edge)
        BY <2>1, <3>1, <3>2
      <3>4. w.part = Flag /\ Flag # Value /\ Flag # Endl /\ w.by = n /\ w.text = x
        BY <1>11, <2>3 DEF here, Flag, Value, Endl
      <3> QED BY <3>3, <3>4 DEF Right
    <2>4. CASE jobs[n].next = Endl
      BY <1>1, <1>11, <2>4 DEF Said, Right, here, Value, Flag, Endl
    <2> QED BY <1>1, <2>2, <2>3, <2>4 DEF Said
  <1>14. ResultOK'
    <2>1. CASE clashed'
      BY <2>1 DEF ResultOK
    <2>2. CASE ~clashed'
      <3>1. ~clashed /\ result' = Append(result, w)
        BY <1>10, <2>2
      <3>2. /\ Len(result') = l + 1 /\ result'[l + 1] = w
            /\ \A i \in 1..l : result'[i] = result[i]
        BY <1>4, <1>11, <3>1
      <3>3. /\ \A i \in 1..l : /\ result[i].by \in 1..m /\ Right(result[i])
                                /\ result[i].part < jobs[result[i].by].next
            /\ \A i, k \in 1..l : i < k => InOrder(result[i], result[k])
            /\ \A k \in 1..m : \A p \in 1..jobs[k].next - 1 : Written(k, p)
        BY <3>1 DEF IInv, ResultOK, WrittenBy
      <3>4. \A i \in 1..l : result[i] \in Pieces
        BY <1>4
      <3>5. \A k \in 1..m : jobs[k].next \in 1..4
        <4>1. \A k \in 1..m : jobs[k] \in Job
          BY <1>4
        <4> QED BY <4>1 DEF Job
      <3> HIDE DEF m, l
      <3>6. ASSUME NEW i \in 1..(l + 1) PROVE i \in 1..l \/ i = l + 1
        BY <1>4
      <3>7. ASSUME NEW i \in 1..(l + 1) PROVE WrittenBy(i)' /\ Right(result[i])'
        <4>1. CASE i \in 1..l
          <5>1. result'[i] = result[i] /\ result[i].part \in Nat
            BY <3>2, <3>4, <4>1 DEF Pieces
          <5>2. result[i].by \in 1..m /\ result[i].part < jobs[result[i].by].next
            BY <3>3, <4>1
          <5>3. result[i].part < jobs'[result[i].by].next
            BY <1>8, <3>5, <5>1, <5>2 DEF here
          <5> QED BY <1>2, <1>8, <3>3, <4>1, <5>1, <5>2, <5>3 DEF WrittenBy, Right, m
        <4>2. CASE i = l + 1
          <5>1. result'[i] = w /\ w.by = n /\ n \in 1..m /\ Len(jobs') = m
            BY <1>4, <1>8, <1>11, <3>2, <4>2
          <5>2. w.part < jobs'[n].next
            BY <1>4, <1>6, <1>8, <1>11
          <5>3. WrittenBy(i)'
            BY <5>1, <5>2 DEF WrittenBy
          <5> QED BY <1>2, <1>13, <5>1, <5>3 DEF Right
        <4> QED BY <3>6, <4>1, <4>2
      <3>8. ASSUME NEW i \in 1..(l + 1), NEW k \in 1..(l + 1), i < k
            PROVE  InOrder(result[i], result[k])'
        <4>1. i \in 1..l /\ result'[i] = result[i]
          BY <1>4, <3>2, <3>8
        <4>2. result[i].by \in 1..m /\ jobs'[result[i].by].beside = jobs[result[i].by].beside
          BY <1>8, <3>3, <4>1
        <4>3. CASE k \in 1..l
          BY <3>2, <3>3, <3>8, <4>1, <4>2, <4>3 DEF InOrder
        <4>4. CASE k = l + 1
          <5>1. result'[k] = w
            BY <3>2, <4>4
          <5>2. result[i].by \in Nat /\ n \in Nat
            BY <1>4, <4>2
          <5>3. CASE result[i].by < n
            BY <1>11, <4>1, <5>1, <5>3 DEF InOrder
          <5>4. CASE result[i].by = n
            BY <1>11, <3>3, <4>1, <5>1, <5>4 DEF InOrder, here
          <5>5. CASE n < result[i].by
            <6>1. n \in jobs[result[i].by].beside \/ jobs[n].next = Done
              BY <1>4, <4>2, <5>5 DEF IInv, FileOK, BesideOK, m
            <6>2. jobs[n].next # Done
              BY <1>6 DEF here, Done
            <6> QED BY <1>11, <4>1, <4>2, <5>1, <6>1, <6>2 DEF InOrder
          <5> QED BY <5>2, <5>3, <5>4, <5>5
        <4> QED BY <3>6, <4>3, <4>4
      <3>9. ASSUME NEW k \in 1..m, NEW p \in 1..jobs'[k].next - 1 PROVE Written(k, p)'
        <4>1. DOMAIN result = 1..l /\ DOMAIN result' = 1..(l + 1) /\ l \in Nat
          BY <1>4, <1>12, <3>2 DEF FileOK, l
        <4>2. CASE Written(k, p)
          <5>1. PICK i \in 1..l : result[i].by = k /\ result[i].part = p
            BY <4>1, <4>2 DEF Written
          <5>2. i \in DOMAIN result' /\ result'[i] = result[i]
            BY <3>2, <4>1, <5>1
          <5> QED BY <5>1, <5>2 DEF Written
        <4>3. CASE ~Written(k, p)
          <5>1. k = n /\ p = here
            BY <1>6, <1>8, <3>3, <3>5, <4>3 DEF here
          <5>2. l + 1 \in DOMAIN result'
            BY <4>1
          <5> QED BY <1>11, <3>2, <5>1, <5>2 DEF Written
        <4> QED BY <4>2, <4>3
      <3> QED BY <1>8, <3>2, <3>7, <3>8, <3>9 DEF ResultOK, m
    <2> QED BY <2>1, <2>2
  <1> QED BY <1>3, <1>9, <1>12, <1>14 DEF IInv

-----------------------------------------------------------------------------
(* Every step *)

LEMMA InvStep == IInv /\ [Next]_vars => IInv'
  <1> SUFFICES ASSUME IInv, [Next]_vars PROVE IInv'
    OBVIOUS
  <1>1. CASE Push \/ CountDown
    BY <1>1, MakerStep
  <1>2. CASE Sender
    BY <1>2, SenderStep
  <1>3. CASE Relay
    BY <1>3, RelayStep
  <1>4. CASE Main
    BY <1>4, ReceiveStep, TakeLineStep, IdleStep DEF Main
  <1>5. CASE End
    BY <1>5, IdleStep DEF End
  <1>6. CASE \E n \in 1..N + MaxSurplus : Thread(n)
    BY <1>6, ThreadStep DEF Thread
  <1>7. CASE UNCHANGED vars
    <2>1. UNCHANGED <<relayed, inbox, recvs, jobs, result, clashed>> /\ UNCHANGED <<producer, sender>>
      BY <1>7 DEF vars, consumer
    <2>2. sent' = sent
      BY <2>1 DEF sender
    <2>3. Stream' = Stream
      BY <2>1 DEF Stream
    <2>4. StreamOK' /\ FileOK' /\ ResultOK'
      BY <2>1, <2>2, <2>3, FileFrame DEF IInv, StreamOK
    <2> QED BY <2>1, <2>4, ProducerFrame DEF IInv
  <1> QED BY <1>1, <1>2, <1>3, <1>4, <1>5, <1>6, <1>7 DEF Next

LEMMA Inductive == Spec => []IInv
  BY InvInit, InvStep, PTL DEF Spec

-----------------------------------------------------------------------------
(* The theorems *)

LEMMA MadeFirst == IInv => SentAsMade
  <1> SUFFICES ASSUME IInv PROVE SentAsMade
    OBVIOUS
  <1>1. spc = "done" => Len(sent) = N
    BY DEF IInv, SenderOK
  <1>2. ASSUME ~surplus PROVE IsPrefix(sent, made)
    <2>1. /\ Len(sent) <= Len(made) /\ \A i \in 1..Len(sent) : sent[i] = made[i]
          /\ sent \in Seq(Datum) /\ made \in Seq(Datum)
      <3>1. made \in Seq(Number) /\ sent \in Seq(Datum)
        BY DEF IInv, MakerOK, SenderOK
      <3>2. made \in Seq(Datum)
        BY <3>1 DEF Datum
      <3> QED BY <1>2, <3>1, <3>2 DEF IInv, InStep
    <2> QED BY <2>1 DEF IsPrefix
  <1> QED BY <1>1, <1>2 DEF SentAsMade

LEMMA RightlySent == IInv => ResultAsSent
  <1> SUFFICES ASSUME IInv, ~clashed PROVE ResultAsSent
    BY DEF ResultAsSent
  <1>1. DOMAIN result = 1..Len(result) /\ DOMAIN jobs = 1..Len(jobs)
    BY DEF IInv, FileOK, StreamOK
  <1>2. /\ \A i \in DOMAIN result : Right(result[i])
        /\ \A i, k \in DOMAIN result : i < k => InOrder(result[i], result[k])
        /\ \A n \in DOMAIN jobs : \A p \in 1..jobs[n].next - 1 : Written(n, p)
    BY <1>1 DEF IInv, ResultOK
  <1>3. ASSUME NEW n \in DOMAIN jobs \ AtWork, NEW p \in Value..Endl PROVE Written(n, p)
    <2>1. p \in 1..jobs[n].next - 1
      BY <1>3 DEF AtWork, Done, Value, Endl
    <2> QED BY <1>2, <2>1
  <1> QED BY <1>2, <1>3 DEF ResultAsSent

\* The sender sends what was made, in order, unless it took from the empty
\* queue, and N lines when it ends (Producer.cpp).
THEOREM FirstMadeFirstSent == Spec => []SentAsMade
  BY Inductive, MadeFirst, PTL

\* Whatever threads overlap, what result.txt holds is right, in order but for the
\* threads that were at work together, and all there of a thread that is done -
\* unless two wrote at the same moment (Consumer.cpp:171-177).
THEOREM RightlyJudged == Spec => []ResultAsSent
  BY Inductive, RightlySent, PTL
=============================================================================
