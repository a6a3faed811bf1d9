------------------------------ MODULE ListProofs ------------------------------
(***************************************************************************)
(* What the older broker keeps for any number of producers, consumers,     *)
(* messages, overlapping receive tasks and starts of the program: the ids  *)
(* it gives out, the order in which it sends, and the messages that gb.txt *)
(* holds when it has ended in order.                                       *)
(***************************************************************************)
EXTENDS List, SequenceLemmas, TLAPS

-----------------------------------------------------------------------------
(* What is read from a file *)

Pair == Message \X Nat
Entry == Pair \cup {NewLine}

\* The texts of the lines that can be parsed
Texts(f) == {f[i] : i \in Intact(f)}

\* The first k steps of the loop over getline
Reads(f, g, k) == /\ g[0] = <<>>
                  /\ \A n \in 1..k : g[n] = IF n \in Intact(f) THEN Append(g[n - 1], f[n])
                                            ELSE g[n - 1]

LEMMA ParsedReads ==
    ASSUME NEW f, Len(f) \in Nat
    PROVE  Reads(f, ParsedTo(f), Len(f))
  <1> DEFINE Step(g, n) == IF n = 0 THEN <<>>
                           ELSE IF n \in Intact(f) THEN Append(g[n - 1], f[n]) ELSE g[n - 1]
             Read(k) == \E g : g = [n \in 0..k |-> Step(g, n)]
             T == {k \in Nat : Read(k)}
  <1>1. 0 \in T
    <2> DEFINE g == [n \in 0..0 |-> <<>>]
    <2>1. g = [n \in 0..0 |-> Step(g, n)]
      OBVIOUS
    <2> QED BY <2>1
  <1>2. ASSUME NEW i \in 1..Len(f), i - 1 \in T PROVE i \in T
    <2>1. PICK g : g = [n \in 0..(i - 1) |-> Step(g, n)]
      BY <1>2
    <2> DEFINE h == [n \in 0..i |-> IF n = i THEN Step(g, i) ELSE g[n]]
    <2>2. ASSUME NEW n \in 0..i PROVE h[n] = Step(h, n)
      <3>1. CASE n = i
        <4>1. h[n] = Step(g, i) /\ h[i - 1] = g[i - 1]
          BY <3>1
        <4> QED BY <3>1, <4>1
      <3>2. CASE n # i
        <4>1. n \in 0..(i - 1) /\ h[n] = g[n] /\ g[n] = Step(g, n)
          <5>1. n \in 0..(i - 1)
            BY <3>2
          <5>2. h[n] = g[n]
            BY <3>2
          <5> HIDE DEF h
          <5>3. g[n] = Step(g, n)
            BY <2>1, <5>1, Zenon
          <5> QED BY <5>1, <5>2, <5>3
        <4>2. n # 0 => n - 1 \in 0..i /\ n - 1 # i /\ h[n - 1] = g[n - 1]
          BY <3>2
        <4> QED BY <4>1, <4>2
      <3> QED BY <3>1, <3>2
    <2>3. h = [n \in 0..i |-> Step(h, n)]
      BY <2>2
    <2>4. Read(i)
      BY <2>3
    <2> HIDE DEF Read
    <2> QED BY <2>4
  <1>3. Len(f) \in T
    <2>1. 0..Len(f) \subseteq T
      <3> HIDE DEF T
      <3> QED BY <1>1, <1>2, SetInduction
    <2> QED BY <2>1
  <1>4. ParsedTo(f) = [n \in 0..Len(f) |-> Step(ParsedTo(f), n)]
    BY <1>3 DEF ParsedTo
  <1>5. \A n \in 0..Len(f) : ParsedTo(f)[n] = Step(ParsedTo(f), n)
    BY <1>4
  <1> QED BY <1>5 DEF Reads

\* What is read are the texts of the lines that can be parsed; the last of them
\* is that of the last line.
LEMMA ParsedTexts ==
    ASSUME NEW f \in Seq(Entry)
    PROVE  /\ Parsed(f) \in Seq(Pair)
           /\ Elements(Parsed(f)) = Texts(f)
           /\ Parsed(f) # <<>> => \E k \in Intact(f) : /\ \A i \in Intact(f) : i <= k
                                                       /\ Parsed(f)[Len(Parsed(f))] = f[k]
  <1> DEFINE p == ParsedTo(f)
             n == Len(f)
             I == Intact(f)
             Good(k) == /\ p[k] \in Seq(Pair)
                        /\ \A x : x \in Elements(p[k]) <=> \E i \in I : i <= k /\ x = f[i]
                        /\ p[k] # <<>> => \E m \in I : /\ m <= k /\ \A i \in I : i <= k => i <= m
                                                       /\ p[k][Len(p[k])] = f[m]
             T == {k \in Nat : Good(k)}
  <1>1. n \in Nat /\ DOMAIN f = 1..n /\ I \subseteq 1..n
    BY DEF Intact
  <1>2. p[0] = <<>> /\ \A k \in 1..n : p[k] = IF k \in I THEN Append(p[k - 1], f[k]) ELSE p[k - 1]
    BY <1>1, ParsedReads DEF Reads
  <1>3. \A i \in I : f[i] \in Pair
    BY DEF Intact, Entry
  <1> HIDE DEF p, n, I
  <1>4. 0 \in T
    <2>1. p[0] \in Seq(Pair)
      BY <1>2
    <2>2. ASSUME NEW x PROVE x \in Elements(p[0]) <=> \E i \in I : i <= 0 /\ x = f[i]
      <3>1. \A i \in I : ~(i <= 0)
        BY <1>1
      <3>2. Elements(p[0]) = {}
        BY <1>2 DEF Elements
      <3> QED BY <3>1, <3>2
    <2> QED BY <1>2, <2>1, <2>2
  <1>5. ASSUME NEW k \in 1..n, k - 1 \in T PROVE k \in T
    <2>1. Good(k - 1)
      BY <1>5
    <2>2. k \in Nat /\ k - 1 \in Nat
      BY <1>1
    <2>3. CASE k \notin I
      <3>1. p[k] = p[k - 1]
        BY <1>2, <2>3
      <3>2. \A i \in I : i <= k <=> i <= k - 1
        BY <1>1, <2>3
      <3>3. Good(k)
        BY <2>1, <3>1, <3>2
      <3> QED BY <2>2, <3>3
    <2>4. CASE k \in I
      <3>1. p[k] = Append(p[k - 1], f[k]) /\ p[k - 1] \in Seq(Pair) /\ f[k] \in Pair
        BY <1>2, <1>3, <2>1, <2>4
      <3>2. p[k] \in Seq(Pair) /\ Elements(p[k]) = Elements(p[k - 1]) \cup {f[k]}
        BY <3>1, AppendElements
      <3>3. \A i \in I : i <= k <=> i <= k - 1 \/ i = k
        BY <1>1
      <3>4. ASSUME NEW x PROVE x \in Elements(p[k]) <=> \E i \in I : i <= k /\ x = f[i]
        <4>1. x \in Elements(p[k - 1]) <=> \E i \in I : i <= k - 1 /\ x = f[i]
          BY <2>1
        <4> QED BY <2>4, <3>2, <3>3, <4>1
      <3>5. p[k][Len(p[k])] = f[k]
        BY <3>1
      <3>6. \A i \in I : i <= k => i <= k
        OBVIOUS
      <3>7. k <= k
        BY <2>2
      <3>8. Good(k)
        BY <2>4, <3>2, <3>4, <3>5, <3>6, <3>7
      <3> QED BY <2>2, <3>8
    <2> QED BY <2>3, <2>4
  <1>6. n \in T
    <2> HIDE DEF T
    <2>1. 0..n \subseteq T
      BY <1>1, <1>4, <1>5, SetInduction
    <2> QED BY <1>1, <2>1
  <1>7. Good(n) /\ Parsed(f) = p[n]
    BY <1>6 DEF Parsed, p, n
  <1>8. \A i \in I : i <= n
    BY <1>1
  <1>9. Elements(p[n]) = Texts(f)
    <2>1. ASSUME NEW x PROVE x \in Elements(p[n]) <=> x \in Texts(f)
      BY <1>7, <1>8 DEF Texts, I
    <2> QED BY <2>1
  <1> QED BY <1>7, <1>8, <1>9 DEF I

-----------------------------------------------------------------------------
(* The invariant *)

Text == Message \cup {Broken}
Place == {"none", "line", "lock", "lock2", "write", "newline", "done", "produce", "consume",
          "clients", "clientsWait", "clientsAsleep", "woken", "begin", "buffer", "relock",
          "predicate", "asleep", "deQueue", "resend", "blocked"}

TypeOK == /\ mode \in {"jq", "gb"} /\ mainPc \in {"load", "open", "accept", "save", "end"}
          /\ mode = "jq" => mainPc \in {"accept", "end"}
          /\ pc \in [Task -> Place] /\ j \in [Task -> Pair \cup {Nothing}]
          /\ stream \in [Producer -> Seq(Text)] /\ lines \in [Chunk -> Seq(Text)]
          /\ messageCount \in Int /\ messageCount >= -1
          /\ buffer \in Seq(Pair) /\ sent \in Seq(Pair)
          /\ theClients \in Seq(Consumer) /\ it \in Consumer \cup {Nowhere, End}
          /\ file \in Seq(Entry) /\ flushed \in Nat
          /\ hand \in Pair \cup {Nothing} /\ (hand # Nothing => mainPc = "save")
          /\ kept \subseteq Pair /\ crossed \subseteq Pair
          /\ clashed \in BOOLEAN /\ clean \in BOOLEAN /\ outdated \in BOOLEAN

\* Who is between the counter and the push to buffer is alone, and has the
\* latest id; a task that writes to gb.txt has its message still.
Numbering(c) == pc[c] \in {"lock", "lock2"}
TasksOK == /\ \A c, d \in Chunk : Numbering(c) /\ Numbering(d) => c = d
           /\ \A c \in Chunk : Numbering(c) => j[c] \in Pair /\ j[c][2] = messageCount
           /\ \A c \in Chunk : pc[c] = "write" => mode = "gb" /\ j[c] \in Pair
           /\ mainPc \in {"load", "open"} => \A c \in Chunk : pc[c] = "none"
           /\ mainPc = "load" => buffer = <<>>
           /\ mode = "gb" => pc[Sender] = "none"

\* mySend takes from buffer only what is there: once its iterator is set it
\* comes to deQueue only past a test of buffer, and nobody else takes.
SenderOK == mode = "jq" =>
              /\ pc[Sender] \in {"resend", "blocked"} <=> j[Sender] # Nothing
              /\ it = Nowhere => pc[Sender] \in {"clients", "clientsWait", "clientsAsleep", "woken", "begin"}
              /\ it # Nowhere /\ pc[Sender] \in {"clients", "clientsWait", "clientsAsleep", "woken", "deQueue"}
                   => buffer # <<>>

\* Mode "jq": what is sent, what mySend has in its hand and what is in buffer
\* have consecutive ids, up to the counter or the number before it.
Held == IF j[Sender] = Nothing THEN 0 ELSE 1
IdsOK == mode = "jq" =>
           /\ \A i \in 1..Len(sent) : sent[i][2] = i - 1
           /\ j[Sender] # Nothing => j[Sender][2] = Len(sent)
           /\ \A i \in 1..Len(buffer) : buffer[i][2] = Len(sent) + Held + i - 1
           /\ (\A c \in Chunk : ~Numbering(c)) => messageCount = Len(sent) + Held + Len(buffer) - 1
           /\ (\E c \in Chunk : Numbering(c)) => messageCount = Len(sent) + Held + Len(buffer)

\* The last line of f that can be parsed has the highest id.
Topmost(f) == \A k \in Intact(f) :
                 (\A i \in Intact(f) : i <= k) => \A i \in Intact(f) : f[i][2] <= f[k][2]

\* No message in f has an id above n.
UpTo(f, n) == \A i \in 1..Len(f) : f[i] # NewLine => f[i][2] <= n
Under(f, n) == \A i \in 1..Len(f) : f[i] # NewLine => f[i][2] < n

\* No message has an id above the counter, nor above that of the last; nor has any
\* in the file, of which the last line has the highest when main has stored all.
Fresh == clean /\ ~outdated
BufferFresh == /\ \A i \in 1..Len(buffer) : /\ buffer[i][2] <= messageCount
                                              /\ buffer[i][2] <= buffer[Len(buffer)][2]
               /\ \A c \in Chunk : Numbering(c) => \A i \in 1..Len(buffer) : buffer[i][2] < messageCount
FileFresh == mode = "gb" =>
               /\ mainPc \in {"load", "end"} => Topmost(file)
               /\ mainPc = "save" => /\ UpTo(file, messageCount)
                                     /\ \A c \in Chunk : Numbering(c) => Under(file, messageCount)
                                     /\ buffer # <<>> => UpTo(file, buffer[Len(buffer)][2])
                                     /\ buffer = <<>> => Topmost(file)
FreshOK == Fresh => BufferFresh /\ FileFresh

\* While tasks write, what is in the file is in buffer.
Holds(f, S) == \A i \in 1..Len(f) : f[i] = NewLine \/ f[i] \in S
WrittenOK == mode = "gb" /\ mainPc = "accept" =>
               /\ Holds(file, Elements(buffer))
               /\ \A c \in Chunk : pc[c] = "write" => j[c] \in Elements(buffer)

\* The file ends in a newline, or somebody has begun a line; what is flushed ends
\* in one.
Ended(f) == f = <<>> \/ f[Len(f)] = NewLine
Undisturbed == mode = "gb" /\ mainPc \in {"accept", "save"} /\ ~clashed
LinesOK == /\ Undisturbed => /\ Ended(file) \/ LineBegun \/ hand # Nothing
                             /\ flushed <= Len(file)
                             /\ flushed = 0 \/ file[flushed] = NewLine
           /\ mode = "gb" /\ mainPc = "end" => flushed <= Len(file)

\* While main stores buffer back, what was in it is there still, in its hand, on
\* the disk, too old or crossed; what is in its hand is a line of the file.
InMain == IF mainPc = "end" THEN {} ELSE Elements(buffer) \cup {hand}
Flushed == Texts(SubSeq(file, 1, flushed))
SavedOK == mode = "gb" /\ mainPc \in {"save", "end"} /\ ~clashed =>
             /\ kept \subseteq Aged \cup crossed \cup InMain \cup Flushed
             /\ hand # Nothing /\ hand \notin crossed => hand \in Texts(file)

IInv == TypeOK /\ TasksOK /\ SenderOK /\ IdsOK /\ FreshOK /\ WrittenOK /\ LinesOK /\ SavedOK

-----------------------------------------------------------------------------
(* What an insertion does to a file *)

LEMMA Appended ==
    ASSUME NEW f \in Seq(Entry), NEW x \in Entry, NEW g, g = Append(f, x)
    PROVE  /\ g \in Seq(Entry) /\ Len(f) \in Nat /\ Len(g) = Len(f) + 1
           /\ DOMAIN f = 1..Len(f) /\ DOMAIN g = 1..(Len(f) + 1)
           /\ \A i \in 1..Len(f) : g[i] = f[i]
           /\ g[Len(f) + 1] = x
  OBVIOUS

\* What holds of all messages in a file still does if it holds of the new one.
LEMMA AppendedAll ==
    ASSUME NEW f \in Seq(Entry), NEW x \in Entry, NEW g, g = Append(f, x)
    PROVE  /\ \A n : UpTo(f, n) /\ (x # NewLine => x[2] <= n) => UpTo(g, n)
           /\ \A n : Under(f, n) /\ (x # NewLine => x[2] < n) => Under(g, n)
           /\ \A S : Holds(f, S) /\ x \in S \cup {NewLine} => Holds(g, S)
  <1>1. /\ Len(f) \in Nat /\ Len(g) = Len(f) + 1
        /\ \A i \in 1..Len(f) : g[i] = f[i]
        /\ g[Len(f) + 1] = x
    BY Appended
  <1>2. \A i \in 1..Len(g) : i \in 1..Len(f) \/ i = Len(f) + 1
    BY <1>1
  <1>3. ASSUME NEW n, UpTo(f, n), x # NewLine => x[2] <= n PROVE UpTo(g, n)
    BY <1>1, <1>2, <1>3 DEF UpTo
  <1>4. ASSUME NEW n, Under(f, n), x # NewLine => x[2] < n PROVE Under(g, n)
    BY <1>1, <1>2, <1>4 DEF Under
  <1>5. ASSUME NEW S, Holds(f, S), x \in S \cup {NewLine} PROVE Holds(g, S)
    BY <1>1, <1>2, <1>5 DEF Holds
  <1> QED BY <1>3, <1>4, <1>5

\* A newline changes no line.
LEMMA NewLineAppended ==
    ASSUME NEW f \in Seq(Entry), NEW g, g = Append(f, NewLine)
    PROVE  /\ Ended(g) /\ g[Len(g)] = NewLine
           /\ Texts(g) = Texts(f)
           /\ Topmost(f) => Topmost(g)
  <1> DEFINE n == Len(f)
  <1>1. /\ n \in Nat /\ Len(g) = n + 1 /\ DOMAIN f = 1..n /\ DOMAIN g = 1..(n + 1)
        /\ \A i \in 1..n : g[i] = f[i]
        /\ g[n + 1] = NewLine
    <2>1. NewLine \in Entry
      BY DEF Entry
    <2> QED BY <2>1, Appended
  <1> HIDE DEF n
  <1>2. ASSUME NEW i PROVE i \in Intact(g) <=> i \in Intact(f)
    <2>1. CASE i \in 1..n
      <3>1. i \in DOMAIN f /\ i \in DOMAIN g /\ g[i] = f[i] /\ i # n + 1
        BY <1>1, <2>1
      <3>2. i = 1 \/ (i - 1 \in 1..n /\ g[i - 1] = f[i - 1])
        BY <1>1, <2>1
      <3>3. (i = n /\ g[i + 1] = NewLine) \/ (i # n /\ g[i + 1] = f[i + 1])
        <4>1. CASE i = n
          BY <1>1, <4>1
        <4>2. CASE i # n
          <5>1. i + 1 \in 1..n
            BY <1>1, <2>1, <4>2
          <5> QED BY <1>1, <4>2, <5>1
        <4> QED BY <4>1, <4>2
      <3>4. i \in Intact(g) <=> f[i] # NewLine /\ (i = 1 \/ g[i - 1] = NewLine) /\ g[i + 1] = NewLine
        BY <1>1, <3>1 DEF Intact
      <3>5. i \in Intact(f) <=> f[i] # NewLine /\ (i = 1 \/ f[i - 1] = NewLine) /\ (i = n \/ f[i + 1] = NewLine)
        BY <1>1, <3>1 DEF Intact, n
      <3> QED BY <3>2, <3>3, <3>4, <3>5
    <2>2. CASE i = n + 1
      <3>1. i \notin DOMAIN f /\ g[i] = NewLine
        BY <1>1, <2>2
      <3> QED BY <3>1 DEF Intact
    <2>3. CASE i \notin 1..(n + 1)
      <3>1. i \notin DOMAIN f /\ i \notin DOMAIN g
        BY <1>1, <2>3
      <3> QED BY <3>1 DEF Intact
    <2>4. i \in 1..(n + 1) => i \in 1..n \/ i = n + 1
      BY <1>1
    <2> QED BY <2>1, <2>2, <2>3, <2>4
  <1>3. \A i \in Intact(f) : g[i] = f[i]
    BY <1>1 DEF Intact
  <1>4. Texts(g) = Texts(f)
    BY <1>2, <1>3 DEF Texts
  <1>5. Topmost(f) => Topmost(g)
    BY <1>2, <1>3 DEF Topmost
  <1>6. Ended(g) /\ g[Len(g)] = NewLine
    BY <1>1 DEF Ended
  <1> QED BY <1>4, <1>5, <1>6

\* A message behind a newline is the last line.
LEMMA TextAppended ==
    ASSUME NEW f \in Seq(Entry), Ended(f), NEW x \in Pair, NEW g, g = Append(f, x)
    PROVE  /\ x \in Texts(g)
           /\ UpTo(g, x[2]) => Topmost(g)
  <1> DEFINE n == Len(f)
  <1>1. /\ n \in Nat /\ Len(g) = n + 1 /\ DOMAIN f = 1..n /\ DOMAIN g = 1..(n + 1)
        /\ \A i \in 1..n : g[i] = f[i]
        /\ g[n + 1] = x /\ x # NewLine
    <2>1. x \in Entry /\ x # NewLine
      BY ListAssumption DEF Entry, Pair
    <2> QED BY <2>1, Appended
  <1>2. n = 0 \/ (n \in 1..n /\ f[n] = NewLine)
    BY <1>1 DEF Ended
  <1> HIDE DEF n
  <1>3. n + 1 \in Intact(g)
    <2>1. n + 1 = 1 \/ g[(n + 1) - 1] = NewLine
      <3>1. (n + 1) - 1 = n
        BY <1>1
      <3>2. CASE n = 0
        BY <3>2
      <3>3. CASE n \in 1..n /\ f[n] = NewLine
        BY <1>1, <3>1, <3>3
      <3> QED BY <1>2, <3>2, <3>3
    <2>2. n + 1 \in DOMAIN g /\ n + 1 = Len(g)
      BY <1>1
    <2> QED BY <1>1, <2>1, <2>2 DEF Intact
  <1>4. x \in Texts(g)
    BY <1>1, <1>3 DEF Texts
  <1>5. ASSUME UpTo(g, x[2]) PROVE Topmost(g)
    <2> SUFFICES ASSUME NEW k \in Intact(g), \A i \in Intact(g) : i <= k, NEW i \in Intact(g)
                 PROVE  g[i][2] <= g[k][2]
      BY DEF Topmost
    <2>1. k \in 1..(n + 1) /\ n + 1 <= k
      BY <1>1, <1>3 DEF Intact
    <2>2. k = n + 1
      BY <1>1, <2>1
    <2>3. i \in 1..Len(g) /\ g[i] # NewLine
      BY <1>1 DEF Intact
    <2> QED BY <1>1, <1>5, <2>2, <2>3 DEF UpTo
  <1> QED BY <1>4, <1>5

\* What is read from a file that has been cut behind a newline is in the file; the
\* part before an insertion stays what it is.
LEMMA CutTexts ==
    ASSUME NEW f \in Seq(Entry), NEW n \in 0..Len(f), n = 0 \/ f[n] = NewLine
    PROVE  Texts(SubSeq(f, 1, n)) \subseteq Texts(f)
  <1> DEFINE g == SubSeq(f, 1, n)
  <1>1. /\ Len(f) \in Nat /\ DOMAIN f = 1..Len(f) /\ Len(g) = n /\ DOMAIN g = 1..n
        /\ \A i \in 1..n : g[i] = f[i]
    BY SubSeqProperties
  <1> HIDE DEF g
  <1>2. ASSUME NEW i \in Intact(g) PROVE i \in Intact(f) /\ g[i] = f[i]
    <2>1. i \in 1..n /\ g[i] = f[i] /\ g[i] # NewLine
      BY <1>1 DEF Intact
    <2>2. i # n
      <3>1. n # 0 => g[n] = NewLine
        BY <1>1
      <3> QED BY <2>1, <3>1
    <2>3. i \in DOMAIN f /\ i + 1 \in 1..n
      BY <1>1, <2>1, <2>2
    <2>4. g[i + 1] = NewLine /\ f[i + 1] = NewLine
      BY <1>1, <2>2, <2>3 DEF Intact
    <2>5. i = 1 \/ f[i - 1] = NewLine
      <3>1. i # 1 => i - 1 \in 1..n
        BY <1>1, <2>1
      <3> QED BY <1>1, <3>1 DEF Intact
    <2> QED BY <2>1, <2>3, <2>4, <2>5 DEF Intact
  <1> QED BY <1>2 DEF Texts, g

LEMMA CutAppended ==
    ASSUME NEW f \in Seq(Entry), NEW x \in Entry, NEW g, g = Append(f, x)
    PROVE  /\ \A n \in 0..Len(f) : SubSeq(g, 1, n) = SubSeq(f, 1, n)
           /\ SubSeq(f, 1, Len(f)) = f
  OBVIOUS

\* Above an id there is the next.
LEMMA Higher ==
    ASSUME NEW f \in Seq(Entry), NEW n \in Int, UpTo(f, n)
    PROVE  UpTo(f, n + 1) /\ Under(f, n + 1)
  <1>1. ASSUME NEW i \in 1..Len(f), f[i] # NewLine
        PROVE  f[i][2] <= n + 1 /\ f[i][2] < n + 1
    <2>1. f[i] \in Pair
      <3>1. f[i] \in Entry
        OBVIOUS
      <3> QED BY <1>1, <3>1 DEF Entry
    <2>2. f[i][2] \in Nat /\ f[i][2] <= n
      BY <1>1, <2>1 DEF Pair, UpTo
    <2> QED BY <2>2
  <1> QED BY <1>1 DEF UpTo, Under

-----------------------------------------------------------------------------
(* The start *)

\* gb.txt at the first start: a line for each message, the highest id last
LEMMA FirstFile ==
    ASSUME NEW s \in Seq(Pair), \A i \in 1..Len(s) : s[i][2] <= s[Len(s)][2],
           NEW f, f = [i \in 1..2 * Len(s) |-> IF i % 2 = 1 THEN s[(i + 1) \div 2] ELSE NewLine]
    PROVE  f \in Seq(Entry) /\ Topmost(f)
  <1> DEFINE n == Len(s)
  <1>1. n \in Nat /\ \A i \in 1..n : s[i] \in Pair /\ s[i][2] <= s[n][2]
    OBVIOUS
  <1>2. /\ DOMAIN f = 1..2 * n
        /\ \A i \in 1..2 * n : f[i] = IF i % 2 = 1 THEN s[(i + 1) \div 2] ELSE NewLine
    OBVIOUS
  <1>3. f = [i \in 1..2 * n |-> f[i]]
    BY <1>2
  <1> HIDE DEF n
  <1>4. \A i \in 1..2 * n : i % 2 = 1 => (i + 1) \div 2 \in 1..n
    BY <1>1
  <1>5. f \in Seq(Entry) /\ Len(f) = 2 * n
    <2>1. \A i \in 1..2 * n : f[i] \in Entry
      BY <1>1, <1>2, <1>4 DEF Entry
    <2>2. 2 * n \in Nat
      BY <1>1
    <2>3. f \in [1..2 * n -> Entry]
      BY <1>3, <2>1
    <2> QED BY <2>2, <2>3, MadeSeq
  <1>6. Topmost(f)
    <2> SUFFICES ASSUME NEW k \in Intact(f), \A i \in Intact(f) : i <= k, NEW i \in Intact(f)
                 PROVE  f[i][2] <= f[k][2]
      BY DEF Topmost
    <2>1. \A m \in Intact(f) : m \in 1..2 * n /\ m % 2 = 1
      BY <1>2 DEF Intact
    <2>2. n >= 1
      BY <1>1, <2>1
    <2>3. PICK e \in Nat : n = e + 1
      <3>1. n - 1 \in Nat /\ n = (n - 1) + 1
        BY <1>1, <2>2
      <3> QED BY <3>1
    <2>4. \A m \in Nat : (2 * m) % 2 = 0 /\ (2 * m + 1) % 2 = 1
      OBVIOUS
    <2>5. 2 * e + 1 \in Intact(f)
      <3>1. /\ 2 * e + 1 \in 1..2 * n /\ (2 * e + 1) % 2 = 1
            /\ ((2 * e + 1) + 1) \div 2 = n
        BY <2>3, <2>4
      <3>2. f[2 * e + 1] = s[n] /\ s[n] # NewLine
        <4>1. f[2 * e + 1] = s[n]
          BY <1>2, <3>1
        <4>2. s[n] \in Pair
          BY <1>1, <2>2
        <4> QED BY <4>1, <4>2, ListAssumption DEF Pair
      <3>3. 2 * e + 1 = 1 \/ f[(2 * e + 1) - 1] = NewLine
        <4>1. CASE e = 0
          BY <4>1
        <4>2. CASE e # 0
          <5>1. (2 * e + 1) - 1 = 2 * e /\ 2 * e \in 1..2 * n /\ (2 * e) % 2 = 0
            BY <2>3, <2>4, <4>2
          <5> QED BY <1>2, <5>1
        <4> QED BY <4>1, <4>2
      <3>4. f[(2 * e + 1) + 1] = NewLine
        <4>1. (2 * e + 1) + 1 = 2 * n /\ 2 * n \in 1..2 * n /\ (2 * n) % 2 = 0
          BY <1>1, <2>2, <2>3, <2>4
        <4> QED BY <1>2, <4>1
      <3> QED BY <1>2, <3>1, <3>2, <3>3, <3>4 DEF Intact
    <2>6. k = 2 * e + 1
      <3>1. k \in 1..2 * n /\ k % 2 = 1 /\ 2 * e + 1 <= k
        BY <2>1, <2>5
      <3>2. k = 2 * n \/ k = 2 * e + 1
        BY <1>1, <2>3, <3>1
      <3> QED BY <1>1, <2>4, <3>1, <3>2
    <2>7. f[k] = s[n]
      <3>1. (k + 1) \div 2 = n /\ k \in 1..2 * n /\ k % 2 = 1
        BY <1>1, <2>1, <2>3, <2>6
      <3> QED BY <1>2, <3>1
    <2>8. f[i] = s[(i + 1) \div 2] /\ (i + 1) \div 2 \in 1..n
      BY <1>2, <1>4, <2>1
    <2> QED BY <1>1, <2>7, <2>8
  <1> QED BY <1>5, <1>6

LEMMA InvInit == Init => IInv
  <1> SUFFICES ASSUME Init PROVE IInv
    OBVIOUS
  <1>1. file \in Seq(Entry) /\ Topmost(file)
    <2>1. Loaded \in Seq(Pair) /\ \A i \in 1..Len(Loaded) : Loaded[i][2] <= Loaded[Len(Loaded)][2]
      BY ListAssumption DEF Pair
    <2>2. file = [i \in 1..2 * Len(Loaded) |-> IF i % 2 = 1 THEN Loaded[(i + 1) \div 2] ELSE NewLine]
      BY DEF Init
    <2> QED BY <2>1, <2>2, FirstFile, Zenon
  <1>2. pc \in [Task -> Place] /\ \A c \in Chunk : pc[c] = "none"
    BY ListAssumption DEF Init, Unstarted, Task, Place
  <1>3. /\ mode \in {"jq", "gb"} /\ mainPc \in {"accept", "load"}
        /\ mainPc = IF mode = "jq" THEN "accept" ELSE "load"
        /\ messageCount = -1 /\ flushed = 0 /\ it = Nowhere
        /\ buffer = <<>> /\ sent = <<>> /\ theClients = <<>>
        /\ hand = Nothing /\ kept = {} /\ crossed = {}
        /\ clashed = FALSE /\ clean = TRUE /\ outdated = FALSE
    BY DEF Init
  <1>4. TypeOK
    <2>1. stream \in [Producer -> Seq(Text)]
      <3>1. \A s \in Seq(Message) : s \in Seq(Text)
        BY DEF Text
      <3> QED BY <3>1, ListAssumption DEF Init
    <2>2. lines \in [Chunk -> Seq(Text)] /\ j \in [Task -> Pair \cup {Nothing}]
      BY DEF Init
    <2>3. buffer \in Seq(Pair) /\ sent \in Seq(Pair) /\ theClients \in Seq(Consumer)
      BY <1>3
    <2>4. messageCount \in Int /\ messageCount >= -1 /\ flushed \in Nat
      BY <1>3
    <2> QED BY <1>1, <1>2, <1>3, <2>1, <2>2, <2>3, <2>4 DEF TypeOK
  <1>5. TasksOK
    <2>1. mode = "gb" => pc[Sender] = "none"
      BY DEF Init, Unstarted, Task
    <2> QED BY <1>2, <1>3, <2>1 DEF TasksOK, Numbering
  <1>6. j[Sender] = Nothing
    BY DEF Init, Task
  <1>7. SenderOK
    <2>1. mode = "jq" => pc[Sender] = "clients"
      BY DEF Init, Unstarted, Task
    <2> QED BY <1>3, <1>6, <2>1 DEF SenderOK
  <1>8. Len(sent) = 0 /\ Len(buffer) = 0
    BY <1>3
  <1>9. IdsOK
    BY <1>2, <1>3, <1>6, <1>8 DEF IdsOK, Held, Numbering
  <1>10. FreshOK
    <2>1. BufferFresh
      BY <1>8 DEF BufferFresh
    <2>2. FileFresh
      BY <1>1, <1>3 DEF FileFresh
    <2> QED BY <2>1, <2>2 DEF FreshOK
  <1>11. WrittenOK /\ LinesOK /\ SavedOK
    BY <1>3 DEF WrittenOK, LinesOK, Undisturbed, SavedOK
  <1> QED BY <1>4, <1>5, <1>7, <1>9, <1>10, <1>11 DEF IInv
-----------------------------------------------------------------------------
(* Types *)

LEMMA RemovedAt ==
    ASSUME NEW S, NEW s \in Seq(S), NEW i \in DOMAIN s
    PROVE  RemoveAt(s, i) \in Seq(S)
  <1>1. i - 1 \in 0..Len(s) /\ i \in 0..Len(s)
    OBVIOUS
  <1>2. SubSeq(s, 1, i - 1) \in Seq(S) /\ SubSeq(s, i + 1, Len(s)) \in Seq(S)
    BY <1>1, RestOfSequence
  <1>3. ASSUME NEW a \in Seq(S), NEW b \in Seq(S) PROVE a \o b \in Seq(S)
    OBVIOUS
  <1> QED BY <1>2, <1>3 DEF RemoveAt

\* Nodes of the list
LEMMA Nodes ==
    ASSUME theClients \in Seq(Consumer)
    PROVE  /\ Begins \in Consumer \cup {End}
           /\ Valid => Following \in Consumer \cup {End}
  <1>1. Begins \in Consumer \cup {End}
    BY DEF Begins
  <1>2. ASSUME Valid PROVE Following \in Consumer \cup {End}
    <2> DEFINE i == CHOOSE i \in DOMAIN theClients : theClients[i] = it
    <2>1. i \in DOMAIN theClients
      <3>1. \E k \in DOMAIN theClients : theClients[k] = it
        BY <1>2 DEF Valid, Range
      <3> QED BY <3>1
    <2> HIDE DEF i
    <2>2. i # Len(theClients) => theClients[i + 1] \in Consumer
      BY <2>1
    <2> QED BY <2>2 DEF Following, i
  <1> QED BY <1>1, <1>2

\* The tasks are distinct, whatever they do.
LEMMA Tasks ==
    /\ Sender \in Task /\ Sender \notin Chunk /\ Sender \notin Producer /\ Sender \notin Consumer
    /\ \A c \in Chunk : c \in Task /\ c \notin Producer /\ c \notin Consumer
    /\ \A p \in Producer : p \in Task
    /\ \A k \in Consumer : k \in Task
  BY ListAssumption DEF Task

\* What recv does to the producer's stream and to the lines of a new task
LEMMA RecvTypes ==
    ASSUME TypeOK, NEW p \in Producer, Recv(p)
    PROVE  stream' \in [Producer -> Seq(Text)] /\ lines' \in [Chunk -> Seq(Text)]
  <1>1. \A a, b \in Seq(Text) : a \o b \in Seq(Text)
    OBVIOUS
  <1>2. <<Broken>> \in Seq(Text) /\ <<>> \in Seq(Text)
    BY DEF Text
  <1>3. PICK n \in 0..Len(stream[p]), cut \in {"between", "inside", "before newline"} :
          LET rest == SubSeq(stream[p], n + 1, Len(stream[p]))
              half == IF cut = "inside" THEN <<Broken>> ELSE <<>>
              text == SubSeq(stream[p], 1, n) \o half
              c == CHOOSE c \in Chunk : pc[c] = "none"
          IN  /\ cut = "inside" => rest # <<>>
              /\ stream' = [stream EXCEPT ![p] = CASE cut = "between" -> rest
                                                   [] cut = "inside" -> <<Broken>> \o Tail(rest)
                                                   [] cut = "before newline" -> <<Broken>> \o rest]
              /\ lines' = lines \/ lines' = [lines EXCEPT ![c] = text]
    BY DEF Recv
  <1> DEFINE rest == SubSeq(stream[p], n + 1, Len(stream[p]))
             first == SubSeq(stream[p], 1, n)
             half == IF cut = "inside" THEN <<Broken>> ELSE <<>>
             left == CASE cut = "between" -> rest
                       [] cut = "inside" -> <<Broken>> \o Tail(rest)
                       [] cut = "before newline" -> <<Broken>> \o rest
  <1>4. rest \in Seq(Text) /\ first \in Seq(Text)
    BY RestOfSequence DEF TypeOK
  <1>5. half \in Seq(Text)
    BY <1>2, Zenon
  <1>6. stream' = [stream EXCEPT ![p] = left] /\ (cut = "inside" => rest # <<>>)
    BY <1>3
  <1>7. lines' = lines \/ \E c : lines' = [lines EXCEPT ![c] = first \o half]
    BY <1>3
  <1>8. left \in Seq(Text)
    <2>1. cut = "inside" => Tail(rest) \in Seq(Text)
      <3> HIDE DEF rest
      <3> QED BY <1>4, <1>6
    <2> HIDE DEF rest
    <2>2. <<Broken>> \o rest \in Seq(Text) /\ (cut = "inside" => <<Broken>> \o Tail(rest) \in Seq(Text))
      BY <1>4, <1>1, <1>2, <2>1, Zenon
    <2> QED BY <1>4, <2>2
  <1> HIDE DEF half, rest, first, left
  <1>9. first \o half \in Seq(Text)
    BY <1>4, <1>5, <1>1, Zenon
  <1>10. stream' \in [Producer -> Seq(Text)]
    BY <1>6, <1>8 DEF TypeOK
  <1>11. lines' \in [Chunk -> Seq(Text)]
    BY <1>7, <1>9 DEF TypeOK
  <1> QED BY <1>10, <1>11

\* What the steps of mySend do to pc
LEMMA SenderTypes ==
    ASSUME TypeOK, MySend \/ SendUnblocks \/ WakeClients \/ WakeUp
    PROVE  pc' \in [Task -> Place] /\ \A c \in Chunk : pc'[c] = pc[c]
  <1>1. AfterClients \in Place
    BY DEF AfterClients, Place
  <1>2. pc' = pc \/ \E x \in Place : pc' = [pc EXCEPT ![Sender] = x]
    BY <1>1 DEF MySend, WakeClients, WakeUp, TestClients, WaitClients, Woken, SetIterator, TestBuffer,
                Relock, Predicate, Take, SendIt, SendBlocks, SendUnblocks, SendFrom, Skip, Stray, Only,
                SenderGoes, Goto, Place
  <1>3. pc \in [Task -> Place]
    BY DEF TypeOK
  <1>4. ASSUME NEW x \in Place
        PROVE  /\ [pc EXCEPT ![Sender] = x] \in [Task -> Place]
               /\ \A c \in Chunk : [pc EXCEPT ![Sender] = x][c] = pc[c]
    BY <1>3, Tasks
  <1> QED BY <1>2, <1>3, <1>4

LEMMA TypeStep == ASSUME IInv, [Next]_vars PROVE TypeOK'
  <1> USE DEF main, reception, sending, disk
  <1>1. TypeOK /\ TasksOK /\ SenderOK
    BY DEF IInv
  <1> DEFINE Pcs == pc' \in [Task -> Place]
  <1>2. ASSUME UNCHANGED vars PROVE TypeOK'
    BY <1>1, <1>2 DEF TypeOK, vars
  <1>3. ASSUME NEW p \in Producer, Recv(p) PROVE TypeOK'
    <2>1. Pcs
      <3>1. \A c, x, y : x \in Place /\ y \in Place => [pc EXCEPT ![p] = x, ![c] = y] \in [Task -> Place]
        BY <1>1 DEF TypeOK
      <3>2. \A x : x \in Place => [pc EXCEPT ![p] = x] \in [Task -> Place]
        BY <1>1 DEF TypeOK
      <3>3. {"done", "produce", "line"} \subseteq Place
        BY DEF Place
      <3> QED BY <1>3, <3>1, <3>2, <3>3, ZenonT(40) DEF Recv
    <2>2. stream' \in [Producer -> Seq(Text)] /\ lines' \in [Chunk -> Seq(Text)]
      BY <1>1, <1>3, RecvTypes
    <2>3. UNCHANGED <<mode, mainPc, messageCount, j, buffer, sending, disk>>
      BY <1>3 DEF Recv
    <2> QED BY <1>1, <2>1, <2>2, <2>3 DEF TypeOK
  <1>4. ASSUME NEW k \in Consumer, Register(k) PROVE TypeOK'
    <2>1. Pcs
      BY <1>1, <1>4 DEF Register, NotifyRegistered, TypeOK, Place
    <2>2. theClients' \in Seq(Consumer)
      BY <1>1, <1>4, AppendProperties DEF Register, TypeOK
    <2> QED BY <1>1, <1>4, <2>1, <2>2 DEF Register, TypeOK
  <1>5. ASSUME NEW k \in Consumer, RegisterUnmatched(k) PROVE TypeOK'
    BY <1>1, <1>5 DEF RegisterUnmatched, Goto, TypeOK, Place
  <1>6. ASSUME NEW k \in Consumer, Leave(k) PROVE TypeOK'
    <2>1. Pcs
      BY <1>1, <1>6 DEF Leave, Goto, TypeOK, Place
    <2>2. theClients' \in Seq(Consumer)
      BY <1>1, <1>6, RemovedAt DEF Leave, TypeOK
    <2> QED BY <1>1, <1>6, <2>1, <2>2 DEF Leave, TypeOK
  <1>7. ASSUME NEW c \in Chunk, TakeId(c) PROVE TypeOK'
    <2>1. Pcs
      BY <1>1, <1>7 DEF TakeId, Goto, TypeOK, Place
    <2>2. Head(lines[c]) \in Message /\ Tail(lines[c]) \in Seq(Text)
      BY <1>1, <1>7 DEF TakeId, TypeOK, Text
    <2>3. messageCount + 1 \in Nat
      BY <1>1 DEF TypeOK
    <2>4. j' \in [Task -> Pair \cup {Nothing}]
      BY <1>1, <1>7, <2>2, <2>3 DEF TakeId, TypeOK, Pair
    <2>5. lines' \in [Chunk -> Seq(Text)]
      BY <1>1, <1>7, <2>2 DEF TakeId, TypeOK
    <2> QED BY <1>1, <1>7, <2>1, <2>3, <2>4, <2>5 DEF TakeId, TypeOK
  <1>8. ASSUME NEW c \in Chunk, LockMtx(c) \/ Done(c) PROVE TypeOK'
    <2>1. Pcs
      BY <1>1, <1>8 DEF LockMtx, Done, Goto, TypeOK, Place
    <2> QED BY <1>1, <1>8, <2>1 DEF LockMtx, Done, TypeOK
  <1>9. ASSUME NEW c \in Chunk, Push(c) PROVE TypeOK'
    <2>1. Pcs
      BY <1>1, <1>9 DEF Push, NotifyPushed, TypeOK, Place, Task
    <2>2. j[c] \in Pair
      BY <1>1, <1>9 DEF Push, TasksOK, Numbering
    <2>3. buffer' \in Seq(Pair)
      BY <1>1, <1>9, <2>2, AppendProperties DEF Push, TypeOK
    <2> QED BY <1>1, <1>9, <2>1, <2>3 DEF Push, TypeOK
  <1>10. ASSUME NEW c \in Chunk, Write(c) \/ WriteNewLine(c) PROVE TypeOK'
    <2>1. Pcs
      BY <1>1, <1>10 DEF Write, WriteNewLine, Goto, TypeOK, Place
    <2>2. PICK x \in Entry : Writes(c, x)
      BY <1>1, <1>10 DEF Write, WriteNewLine, Goto, TasksOK, Entry
    <2>3. file' \in Seq(Entry) /\ clashed' \in BOOLEAN
      <3>1. file' = file \/ file' = Append(file, x)
        BY <2>2 DEF Writes, Insert
      <3>2. file' \in Seq(Entry)
        BY <1>1, <3>1, Appended DEF TypeOK
      <3> QED BY <1>1, <2>2, <3>2 DEF Writes, Insert, TypeOK
    <2>4. crossed' \subseteq Pair
      BY <1>1, <1>10 DEF Write, WriteNewLine, TypeOK
    <2> QED BY <1>1, <2>1, <2>2, <2>3, <2>4 DEF Writes, TypeOK
  <1>11. ASSUME MySend \/ SendUnblocks \/ WakeClients \/ WakeUp PROVE TypeOK'
    <2>1. Pcs
      BY <1>1, <1>11, SenderTypes
    <2>2. CASE Take
      <3>1. buffer # <<>>
        BY <1>1, <2>2 DEF SenderOK, TasksOK, TypeOK, Take, Goto
      <3>2. Head(buffer) \in Pair /\ Tail(buffer) \in Seq(Pair)
        BY <1>1, <3>1 DEF TypeOK
      <3> QED BY <1>1, <2>1, <2>2, <3>2 DEF Take, TypeOK
    <2>3. ASSUME NEW here \in {"resend", "blocked"}, SendFrom(here) PROVE TypeOK'
      <3>1. j[Sender] \in Pair
        <4>1. j[Sender] # Nothing /\ j[Sender] \in Pair \cup {Nothing}
          BY <1>1, <2>3, Tasks DEF SenderOK, TasksOK, TypeOK, SendFrom, SenderGoes, Goto
        <4> QED BY <4>1
      <3>2. sent' \in Seq(Pair)
        BY <1>1, <2>3, <3>1, AppendProperties DEF SendFrom, TypeOK
      <3>3. it' \in Consumer \cup {Nowhere, End}
        BY <1>1, <2>3, Nodes DEF SendFrom, TypeOK
      <3> QED BY <1>1, <2>1, <2>3, <3>2, <3>3 DEF SendFrom, SenderGoes, TypeOK
    <2>4. CASE SetIterator \/ Skip
      <3>1. it' \in Consumer \cup {Nowhere, End}
        BY <1>1, <2>4, Nodes DEF SetIterator, Skip, TypeOK
      <3> QED BY <1>1, <2>1, <2>4, <3>1 DEF SetIterator, Skip, SenderGoes, TypeOK
    <2>5. CASE Stray
      BY <1>1, <2>5 DEF Stray, TypeOK
    <2>6. CASE \/ TestClients \/ WaitClients \/ Woken \/ TestBuffer \/ Relock \/ Predicate
               \/ SendBlocks \/ WakeClients \/ WakeUp
      <3>1. UNCHANGED <<main, reception, j, buffer, sending, disk>>
        BY <2>6 DEF TestClients, WaitClients, Woken, TestBuffer, Relock, Predicate, SendBlocks,
                    WakeClients, WakeUp, Only, SenderGoes
      <3> QED BY <1>1, <2>1, <3>1 DEF TypeOK
    <2> QED BY <1>11, <2>2, <2>3, <2>4, <2>5, <2>6 DEF MySend, SendIt, SendUnblocks
  <1>12. ASSUME Load PROVE TypeOK'
    <2>1. Parsed(file) \in Seq(Pair)
      BY <1>1, ParsedTexts DEF TypeOK
    <2>2. messageCount' \in Nat
      <3>1. buffer' # <<>> => LastId(buffer') \in Nat
        BY <1>12, <2>1 DEF Load, LastId, Pair
      <3> QED BY <1>12, <3>1 DEF Load
    <2>3. mode = "gb"
      BY <1>1, <1>12 DEF Load, TypeOK
    <2> QED BY <1>1, <1>12, <2>1, <2>2, <2>3 DEF Load, TypeOK
  <1>13. ASSUME Open PROVE TypeOK'
    BY <1>1, <1>13 DEF Open, TypeOK
  <1>14. ASSUME AcceptFails PROVE TypeOK'
    <2>1. Range(buffer) \subseteq Pair
      BY <1>1 DEF Range, TypeOK
    <2> QED BY <1>1, <1>14, <2>1 DEF AcceptFails, TypeOK
  <1>15. ASSUME SaveText \/ SkipOld PROVE TypeOK'
    <2>1. Taking
      BY <1>15 DEF SaveText, SkipOld
    <2>2. Head(buffer) \in Pair /\ buffer' \in Seq(Pair)
      BY <1>1, <2>1 DEF Taking, TypeOK
    <2>3. /\ file' \in Seq(Entry) /\ hand' \in Pair \cup {Nothing} /\ crossed' \subseteq Pair
          /\ clashed' \in BOOLEAN /\ clean' \in BOOLEAN /\ outdated' \in BOOLEAN
      <3>1. CASE SkipOld
        BY <1>1, <2>2, <3>1 DEF SkipOld, TypeOK
      <3>2. CASE SaveText
        <4>1. file' = file \/ file' = Append(file, Head(buffer))
          BY <3>2 DEF SaveText, Insert
        <4>2. file' \in Seq(Entry)
          <5>1. Head(buffer) \in Entry /\ file \in Seq(Entry)
            BY <1>1, <2>2 DEF TypeOK, Entry
          <5> QED BY <4>1, <5>1, Appended
        <4> QED BY <1>1, <2>2, <3>2, <4>2 DEF SaveText, Insert, TypeOK
      <3> QED BY <1>15, <3>1, <3>2
    <2>4. /\ UNCHANGED <<mode, mainPc, crashed, lives, pc, reception, j, sending, flushed, kept>>
          /\ mainPc = "save"
      BY <2>1 DEF Taking
    <2> QED BY <1>1, <2>2, <2>3, <2>4 DEF TypeOK
  <1>17. ASSUME SaveNewLine PROVE TypeOK'
    <2>1. file' = file \/ file' = Append(file, NewLine)
      BY <1>17 DEF SaveNewLine, EndsLine, Insert
    <2>2. file' \in Seq(Entry)
      <3>1. NewLine \in Entry /\ file \in Seq(Entry)
        BY <1>1 DEF TypeOK, Entry
      <3> QED BY <2>1, <3>1, Appended
    <2>3. flushed' \in Nat
      BY <1>17, <2>2 DEF SaveNewLine
    <2> QED BY <1>1, <1>17, <2>2, <2>3 DEF SaveNewLine, EndsLine, Insert, TypeOK
  <1>18. ASSUME Close PROVE TypeOK'
    <2>1. mode = "gb" /\ Len(file) \in Nat
      BY <1>1, <1>18 DEF Close, TypeOK
    <2> QED BY <1>1, <1>18, <2>1 DEF Close, TypeOK
  <1>16. ASSUME Restart PROVE TypeOK'
    <2>1. Pcs
      BY <1>16 DEF Restart, Unstarted, Place
    <2>2. j' \in [Task -> Pair \cup {Nothing}] /\ lines' \in [Chunk -> Seq(Text)] /\ buffer' \in Seq(Pair)
      BY <1>16 DEF Restart
    <2>3. file' \in Seq(Entry)
      <3>1. PICK n \in flushed..Len(file) : file' = SubSeq(file, 1, n)
        BY <1>16 DEF Restart
      <3>2. n \in 0..Len(file) /\ file \in Seq(Entry)
        BY <1>1 DEF TypeOK
      <3> QED BY <3>1, <3>2, RestOfSequence
    <2>4. stream' \in [Producer -> Seq(Text)]
      <3>1. ASSUME NEW p \in Producer PROVE stream[p] # <<>> => Tail(stream[p]) \in Seq(Text)
        BY <1>1 DEF TypeOK
      <3> QED BY <1>1, <1>16, <3>1 DEF Restart, TypeOK
    <2>5. /\ UNCHANGED <<mode, sent, theClients, it, flushed, outdated>> /\ mode = "gb"
          /\ mainPc' = "load" /\ messageCount' = -1
          /\ hand' = Nothing /\ kept' = {} /\ crossed' = {} /\ clashed' = FALSE
          /\ clean' \in BOOLEAN
      BY <1>16 DEF Restart
    <2>6. /\ sent' \in Seq(Pair) /\ theClients' \in Seq(Consumer) /\ it' \in Consumer \cup {Nowhere, End}
          /\ flushed' \in Nat /\ outdated' \in BOOLEAN /\ mode' = "gb"
      BY <1>1, <2>5 DEF TypeOK
    <2>7. messageCount' \in Int /\ messageCount' >= -1
      BY <2>5
    <2>8. kept' \subseteq Pair /\ crossed' \subseteq Pair /\ clashed' \in BOOLEAN
      BY <2>5
    <2> QED BY <2>1, <2>2, <2>3, <2>4, <2>5, <2>6, <2>7, <2>8, Zenon DEF TypeOK
  <1> QED BY <1>2, <1>3, <1>4, <1>5, <1>6, <1>7, <1>8, <1>9, <1>10, <1>11, <1>12, <1>13, <1>14,
             <1>15, <1>16, <1>17, <1>18 DEF Next, ReceiveTask, MySend, Main

-----------------------------------------------------------------------------
(* Steps that touch neither a message nor the file *)

\* What a step changes of the tasks' places does not matter to the invariant.
Alike == \A c \in Chunk : /\ Numbering(c)' <=> Numbering(c)
                          /\ pc'[c] = "write" <=> pc[c] = "write"
                          /\ pc'[c] = "newline" <=> pc[c] = "newline"
                          /\ mainPc \in {"load", "open"} => pc'[c] = pc[c]

\* A step that leaves the file and main alone, takes nothing from buffer and ends no
\* task's line
LEMMA DiskSame ==
    ASSUME LinesOK, SavedOK, UNCHANGED <<mode, mainPc, disk>>,
           \A c \in Chunk : pc[c] = "newline" => pc'[c] = "newline",
           mode = "gb" => Elements(buffer) \subseteq Elements(buffer')
    PROVE  LinesOK' /\ SavedOK'
  <1>1. UNCHANGED <<file, flushed, hand, kept, crossed, clashed>>
    BY DEF disk
  <1>2. LinesOK'
    <2>1. (Undisturbed' <=> Undisturbed) /\ (Ended(file)' <=> Ended(file)) /\ (LineBegun => LineBegun')
      BY <1>1 DEF Undisturbed, Ended, LineBegun
    <2> QED BY <1>1, <2>1 DEF LinesOK
  <1>3. SavedOK'
    <2>1. Flushed' = Flushed /\ Texts(file)' = Texts(file)
      BY <1>1 DEF Flushed, Texts, Intact
    <2>2. mode = "gb" => InMain \subseteq InMain'
      <3>1. Elements(buffer)' = Elements(buffer')
        BY DEF Elements
      <3> QED BY <1>1, <3>1 DEF InMain
    <2> QED BY <1>1, <2>1, <2>2 DEF SavedOK
  <1> QED BY <1>2, <1>3

\* What FreshOK says of a file that stays
LEMMA FileSame ==
    ASSUME file' = file
    PROVE  /\ Topmost(file)' <=> Topmost(file)
           /\ \A n : UpTo(file', n) <=> UpTo(file, n)
           /\ messageCount' = messageCount =>
                 /\ UpTo(file, messageCount)' <=> UpTo(file, messageCount)
                 /\ Under(file, messageCount)' <=> Under(file, messageCount)
           /\ buffer' = buffer =>
                 UpTo(file, buffer[Len(buffer)][2])' <=> UpTo(file, buffer[Len(buffer)][2])
  BY DEF Topmost, Intact, UpTo, Under

LEMMA Quiet ==
    ASSUME IInv, TypeOK', SenderOK', Alike, mode = "gb" => pc'[Sender] = pc[Sender],
           UNCHANGED <<mode, mainPc, messageCount, j, buffer, sent, disk>>
    PROVE  IInv'
  <1>1. TasksOK'
    BY Zenon DEF IInv, TasksOK, Alike, Numbering
  <1>2. IdsOK'
    <2>1. Held' = Held
      BY DEF Held
    <2> QED BY <2>1 DEF IInv, IdsOK, Alike
  <1>3. UNCHANGED <<file, clean, outdated>>
    BY DEF disk
  <1>4. FreshOK'
    <2>1. Fresh' <=> Fresh
      BY <1>3 DEF Fresh
    <2>2. BufferFresh => BufferFresh'
      BY DEF BufferFresh, Alike
    <2>3. FileFresh => FileFresh'
      BY <1>3, FileSame DEF FileFresh, Alike
    <2> QED BY <2>1, <2>2, <2>3 DEF IInv, FreshOK
  <1>5. WrittenOK'
    <2>1. Elements(buffer)' = Elements(buffer)
      BY DEF Elements
    <2> QED BY <1>3, <2>1 DEF IInv, WrittenOK, Alike, Holds
  <1>6. LinesOK' /\ SavedOK'
    <2>1. Elements(buffer') = Elements(buffer)
      BY DEF Elements
    <2> QED BY <2>1, DiskSame DEF IInv, Alike
  <1> QED BY <1>1, <1>2, <1>4, <1>5, <1>6 DEF IInv

LEMMA RecvInv == ASSUME IInv, NEW p \in Producer, Recv(p), TypeOK' PROVE IInv'
  <1>1. UNCHANGED <<mode, mainPc, messageCount, j, buffer, sent, it, disk>>
    BY DEF Recv, sending
  <1>2. pc \in [Task -> Place]
    BY DEF IInv, TypeOK
  <1>3. Alike /\ pc'[Sender] = pc[Sender]
    <2>1. mainPc \notin {"load", "open"}
      BY DEF Recv
    <2>2. \/ pc' = [pc EXCEPT ![p] = "done"]
          \/ \E c \in Chunk : pc[c] = "none" /\ pc' = [pc EXCEPT ![p] = "produce", ![c] = "line"]
      BY DEF Recv
    <2>3. CASE pc' = [pc EXCEPT ![p] = "done"]
      BY <1>2, <2>1, <2>3, Tasks DEF Alike, Numbering
    <2>4. ASSUME NEW c \in Chunk, pc[c] = "none", pc' = [pc EXCEPT ![p] = "produce", ![c] = "line"]
          PROVE  Alike /\ pc'[Sender] = pc[Sender]
      <3>1. pc'[c] = "line" /\ pc'[Sender] = pc[Sender]
        BY <1>2, <2>4, Tasks
      <3>2. \A d \in Chunk : d # c => pc'[d] = pc[d]
        BY <1>2, <2>4, Tasks
      <3> QED BY <2>1, <2>4, <3>1, <3>2 DEF Alike, Numbering
    <2> QED BY <2>2, <2>3, <2>4
  <1>4. SenderOK'
    BY <1>1, <1>3 DEF IInv, SenderOK
  <1> QED BY <1>1, <1>3, <1>4, Quiet

LEMMA ConsumerInv ==
    ASSUME IInv, NEW k \in Consumer, Register(k) \/ RegisterUnmatched(k) \/ Leave(k), TypeOK'
    PROVE  IInv'
  <1>1. UNCHANGED <<mode, mainPc, messageCount, j, buffer, sent, it, disk>>
    BY DEF Register, RegisterUnmatched, Leave, main, reception, sending
  <1>2. pc \in [Task -> Place]
    BY DEF IInv, TypeOK
  <1>3. Alike
    <2>1. \A c \in Chunk : pc'[c] = pc[c]
      BY <1>2, Tasks DEF Register, RegisterUnmatched, Leave, Goto
    <2> QED BY <2>1 DEF Alike, Numbering
  <1>4. /\ pc'[Sender] = pc[Sender] \/ (pc[Sender] = "clientsAsleep" /\ pc'[Sender] = "woken")
        /\ mode = "gb" => pc'[Sender] = pc[Sender]
    BY <1>2, Tasks DEF Register, NotifyRegistered, RegisterUnmatched, Leave, Goto
  <1>5. SenderOK'
    BY <1>1, <1>4 DEF IInv, SenderOK
  <1> QED BY <1>1, <1>3, <1>4, <1>5, Quiet

LEMMA TaskQuiet == ASSUME IInv, NEW c \in Chunk, LockMtx(c) \/ Done(c), TypeOK' PROVE IInv'
  <1>1. UNCHANGED <<mode, mainPc, messageCount, j, buffer, sent, it, disk>>
    BY DEF LockMtx, Done, main, reception, sending
  <1>2. pc \in [Task -> Place] /\ (mainPc \in {"load", "open"} => pc[c] = "none")
    BY DEF IInv, TypeOK, TasksOK
  <1>3. \/ pc[c] = "lock" /\ pc' = [pc EXCEPT ![c] = "lock2"]
        \/ pc[c] = "line" /\ pc' = [pc EXCEPT ![c] = "done"]
    BY DEF LockMtx, Done, Goto
  <1>4. Alike /\ pc'[Sender] = pc[Sender]
    <2>1. /\ \/ pc[c] = "lock" /\ pc'[c] = "lock2"
             \/ pc[c] = "line" /\ pc'[c] = "done"
          /\ pc'[Sender] = pc[Sender]
      <3>1. c \in Task /\ Sender \in Task /\ c # Sender
        BY Tasks
      <3>2. CASE pc[c] = "lock" /\ pc' = [pc EXCEPT ![c] = "lock2"]
        BY <1>2, <3>1, <3>2
      <3>3. CASE pc[c] = "line" /\ pc' = [pc EXCEPT ![c] = "done"]
        BY <1>2, <3>1, <3>3
      <3> QED BY <1>3, <3>2, <3>3
    <2>2. \A d \in Chunk : d # c => pc'[d] = pc[d]
      BY <1>2, <1>3, Tasks
    <2> QED BY <1>2, <2>1, <2>2 DEF Alike, Numbering
  <1>5. SenderOK'
    BY <1>1, <1>4 DEF IInv, SenderOK
  <1> QED BY <1>1, <1>4, <1>5, Quiet

\* mySend but for Take and the end of a send
LEMMA SenderQuiet ==
    ASSUME IInv, MySend \/ WakeClients \/ WakeUp, ~Take, ~SendIt, TypeOK'
    PROVE  IInv'
  <1>1. /\ UNCHANGED <<mode, mainPc, messageCount, j, buffer, sent, disk>>
        /\ pc[Sender] # "none"
    BY DEF MySend, WakeClients, WakeUp, TestClients, WaitClients, Woken, SetIterator, TestBuffer,
           Relock, Predicate, SendBlocks, Skip, Stray, Only, SenderGoes, Goto, main, reception, sending
  <1>2. pc \in [Task -> Place] /\ theClients \in Seq(Consumer) /\ mode = "jq"
    BY <1>1 DEF IInv, TypeOK, TasksOK
  <1>3. Alike
    <2>1. \A c \in Chunk : pc'[c] = pc[c]
      BY SenderTypes DEF IInv
    <2> QED BY <2>1 DEF Alike, Numbering
  <1>4. SenderOK'
    <2> DEFINE Went(here, there) == pc[Sender] = here /\ pc'[Sender] = there
    <2>1. ASSUME NEW here, NEW there, Goto(Sender, here, there) PROVE Went(here, there)
      BY <1>2, <2>1, Tasks DEF Goto
    <2>2. SenderOK /\ mode = "jq"
      BY <1>2 DEF IInv
    <2>3. CASE TestClients \/ WaitClients \/ Woken \/ WakeClients
      <3>1. it' = it
        BY <2>3 DEF TestClients, WaitClients, Woken, WakeClients, Only, sending
      <3>2. \/ Went("clients", "clientsWait") \/ Went("clients", AfterClients)
            \/ Went("clientsWait", "clientsAsleep") \/ Went("clientsAsleep", AfterClients)
            \/ Went("woken", AfterClients)
        BY <2>1, <2>3 DEF TestClients, WaitClients, Woken, WakeClients, Only, SenderGoes
      <3> QED BY <1>1, <2>2, <3>1, <3>2 DEF SenderOK, AfterClients
    <2>4. CASE TestBuffer \/ Predicate \/ Relock \/ WakeUp
      <3>1. it' = it
        BY <2>4 DEF TestBuffer, Predicate, Relock, WakeUp, Only, sending
      <3>2. \/ Went("buffer", "relock")
            \/ buffer # <<>> /\ Went("buffer", "clients")
            \/ Went("predicate", "asleep")
            \/ buffer # <<>> /\ Went("predicate", "clients")
            \/ Went("relock", "predicate") \/ Went("asleep", "relock")
        <4>1. CASE Relock \/ WakeUp
          BY <2>1, <4>1 DEF Relock, WakeUp, Only, SenderGoes
        <4>2. CASE TestBuffer
          BY <2>1, <4>2 DEF TestBuffer, Only, SenderGoes
        <4>3. CASE Predicate
          BY <2>1, <4>3 DEF Predicate, Only, SenderGoes
        <4> QED BY <2>4, <4>1, <4>2, <4>3
      <3> QED BY <1>1, <2>2, <3>1, <3>2 DEF SenderOK
    <2>5. CASE SetIterator
      <3>1. it' # Nowhere
        BY <1>2, <2>5, Nodes, ListAssumption DEF SetIterator
      <3>2. Went("begin", "buffer")
        BY <2>1, <2>5 DEF SetIterator, SenderGoes
      <3> QED BY <1>1, <2>2, <3>1, <3>2 DEF SenderOK
    <2>6. CASE Skip
      <3>1. it' # Nowhere
        BY <1>2, <2>6, Nodes, ListAssumption DEF Skip
      <3>2. Went("resend", "resend")
        BY <2>6 DEF Skip
      <3> QED BY <1>1, <2>2, <3>1, <3>2 DEF SenderOK
    <2>7. CASE Stray
      <3>1. pc'[Sender] = pc[Sender] /\ it' = it
        BY <2>7 DEF Stray, sending
      <3> QED BY <1>1, <2>2, <3>1 DEF SenderOK
    <2>8. CASE SendBlocks
      <3>1. Went("resend", "blocked") /\ it' = it
        BY <2>1, <2>8 DEF SendBlocks, Only, SenderGoes, sending
      <3> QED BY <1>1, <2>2, <3>1 DEF SenderOK
    <2> QED BY <2>3, <2>4, <2>5, <2>6, <2>7, <2>8 DEF MySend
  <1> QED BY <1>1, <1>2, <1>3, <1>4, Quiet

-----------------------------------------------------------------------------
(* Receive tasks *)

\* An id is taken when nobody else is between the counter and the push.
LEMMA TakeIdInv == ASSUME IInv, NEW c \in Chunk, TakeId(c), TypeOK' PROVE IInv'
  <1>1. /\ UNCHANGED <<mode, mainPc, buffer, sent, it, disk>>
        /\ messageCount' = messageCount + 1 /\ IdMtxFree
        /\ pc[c] = "line" /\ pc' = [pc EXCEPT ![c] = "lock"]
        /\ j' = [j EXCEPT ![c] = <<Head(lines[c]), messageCount + 1>>]
    BY DEF TakeId, Goto, main, sending
  <1>2. /\ pc \in [Task -> Place] /\ j \in [Task -> Pair \cup {Nothing}]
        /\ messageCount \in Int /\ buffer \in Seq(Pair) /\ sent \in Seq(Pair)
        /\ TasksOK /\ mainPc \notin {"load", "open"} /\ file \in Seq(Entry)
    BY <1>1 DEF IInv, TypeOK, TasksOK
  <1>3. /\ pc'[c] = "lock" /\ \A t \in Task : t # c => pc'[t] = pc[t]
        /\ j'[c] = <<Head(lines[c]), messageCount + 1>> /\ \A t \in Task : t # c => j'[t] = j[t]
    BY <1>1, <1>2, Tasks
  <1>4. j'[c] \in Pair
    <2>1. j'[c] \in Pair \cup {Nothing}
      BY Tasks DEF TypeOK
    <2>2. j'[c] # Nothing
      BY <1>3 DEF Nothing
    <2> QED BY <2>1, <2>2
  <1>5. /\ \A d \in Chunk : ~Numbering(d)
        /\ \A d \in Chunk : Numbering(d)' <=> d = c
    BY <1>1, <1>3, Tasks DEF IdMtxFree, Numbering
  <1>6. pc'[Sender] = pc[Sender] /\ j'[Sender] = j[Sender]
    BY <1>3, Tasks
  <1>7. \A d \in Chunk : /\ pc'[d] = "write" => pc[d] = "write" /\ j'[d] = j[d]
                         /\ pc[d] = "newline" => pc'[d] = "newline"
    BY <1>1, <1>3, Tasks
  <1>8. TasksOK'
    <2>1. j'[c][2] = messageCount'
      BY <1>1, <1>3
    <2> QED BY <1>1, <1>2, <1>4, <1>5, <1>6, <1>7, <2>1 DEF TasksOK
  <1>9. SenderOK'
    BY <1>1, <1>6 DEF IInv, SenderOK
  <1>10. IdsOK'
    <2>1. Held' = Held /\ Held \in Nat
      BY <1>6 DEF Held
    <2>2. Len(sent) \in Nat /\ Len(buffer) \in Nat
      BY <1>2
    <2>3. (messageCount = Len(sent) + Held + Len(buffer) - 1)
             => messageCount + 1 = Len(sent) + Held + Len(buffer)
      BY <1>2, <2>1, <2>2
    <2> QED BY <1>1, <1>5, <1>6, <2>1, <2>3 DEF IInv, IdsOK
  <1>11. UNCHANGED <<file, clean, outdated>>
    BY <1>1 DEF disk
  <1>12. FreshOK'
    <2>1. \A i \in 1..Len(buffer) : buffer[i][2] \in Nat
      BY <1>2 DEF Pair
    <2>2. \A n \in Nat : n <= messageCount => n < messageCount + 1 /\ n <= messageCount + 1
      BY <1>2
    <2>3. Fresh' <=> Fresh
      BY <1>11 DEF Fresh
    <2>4. BufferFresh => BufferFresh'
      BY <1>1, <1>2, <1>5, <2>1, <2>2 DEF BufferFresh
    <2>5. FileFresh => FileFresh'
      <3>1. ASSUME UpTo(file, messageCount)
            PROVE  UpTo(file, messageCount)' /\ Under(file, messageCount)'
        <4>1. UpTo(file, messageCount + 1) /\ Under(file, messageCount + 1)
          BY <1>2, <3>1, Higher
        <4> QED BY <1>1, <1>11, <4>1 DEF UpTo, Under
      <3> QED BY <1>1, <1>2, <1>11, <3>1, FileSame DEF FileFresh
    <2> QED BY <2>3, <2>4, <2>5 DEF IInv, FreshOK
  <1>13. WrittenOK'
    <2>1. Elements(buffer)' = Elements(buffer)
      BY <1>1 DEF Elements
    <2> QED BY <1>1, <1>7, <1>11, <2>1 DEF IInv, WrittenOK, Holds
  <1>14. LinesOK' /\ SavedOK'
    BY <1>1, <1>7, DiskSame DEF IInv
  <1> QED BY <1>8, <1>9, <1>10, <1>12, <1>13, <1>14 DEF IInv

\* The message with the latest id comes last.
LEMMA PushInv == ASSUME IInv, NEW c \in Chunk, Push(c), TypeOK' PROVE IInv'
  <1>1. /\ UNCHANGED <<mode, mainPc, messageCount, j, sent, it, disk>>
        /\ buffer' = Append(buffer, j[c]) /\ pc[c] = "lock2"
        /\ pc' = [pc EXCEPT ![c] = IF mode = "gb" THEN "write" ELSE "line", ![Sender] = NotifyPushed]
    BY DEF Push, main, sending, reception
  <1>2. /\ pc \in [Task -> Place] /\ messageCount \in Int /\ messageCount >= -1
        /\ buffer \in Seq(Pair) /\ sent \in Seq(Pair)
        /\ TasksOK /\ mainPc \in {"accept", "save", "end"} /\ mode \in {"jq", "gb"}
    BY <1>1 DEF IInv, TypeOK, TasksOK
  <1>3. /\ pc'[c] = IF mode = "gb" THEN "write" ELSE "line"
        /\ pc'[Sender] = NotifyPushed
        /\ \A d \in Chunk : d # c => pc'[d] = pc[d]
    BY <1>1, <1>2, Tasks
  <1>4. j[c] \in Pair /\ j[c][2] = messageCount
    BY <1>1, <1>2 DEF TasksOK, Numbering
  <1>5. /\ Len(buffer) \in Nat /\ Len(buffer') = Len(buffer) + 1
        /\ \A i \in 1..Len(buffer) : buffer'[i] = buffer[i]
        /\ buffer'[Len(buffer) + 1] = j[c]
        /\ Elements(buffer') = Elements(buffer) \cup {j[c]}
    BY <1>1, <1>2, <1>4, Pushed, AppendElements
  <1>6. /\ Numbering(c) /\ \A d \in Chunk : Numbering(d) => d = c
        /\ \A d \in Chunk : ~Numbering(d)'
    <2>1. Numbering(c)
      BY <1>1 DEF Numbering
    <2>2. \A d \in Chunk : Numbering(d) => d = c
      BY <1>2, <2>1 DEF TasksOK
    <2>3. ~Numbering(c)' /\ \A d \in Chunk : d # c => (Numbering(d)' <=> Numbering(d))
      BY <1>3 DEF Numbering
    <2> QED BY <2>1, <2>2, <2>3
  <1>7. /\ \A d \in Chunk : pc'[d] = "write" => d = c \/ pc[d] = "write"
        /\ \A d \in Chunk : pc[d] = "newline" => pc'[d] = "newline"
    BY <1>1, <1>3
  <1>8. TasksOK'
    <2>1. mode = "gb" => pc'[Sender] = "none"
      BY <1>2, <1>3 DEF NotifyPushed, TasksOK
    <2>2. \A d \in Chunk : pc'[d] = "write" => mode = "gb" /\ j[d] \in Pair
      BY <1>2, <1>3, <1>4, <1>7 DEF TasksOK
    <2> QED BY <1>1, <1>2, <1>6, <2>1, <2>2 DEF TasksOK
  <1>9. SenderOK'
    <2>1. pc'[Sender] = pc[Sender] \/ (pc[Sender] = "asleep" /\ pc'[Sender] = "relock")
      BY <1>3 DEF NotifyPushed
    <2>2. buffer' # <<>>
      BY <1>5
    <2> QED BY <1>1, <2>1, <2>2 DEF IInv, SenderOK
  <1>10. IdsOK'
    <2>1. Held' = Held /\ Held \in Nat
      BY <1>1 DEF Held
    <2> DEFINE n == Len(sent) + Held
    <2>2. n \in Nat
      BY <1>2, <2>1
    <2>3. ASSUME mode = "jq"
          PROVE  /\ \A i \in 1..Len(buffer) : buffer[i][2] = n + i - 1
                 /\ messageCount = n + Len(buffer)
      BY <1>6, <2>3 DEF IInv, IdsOK
    <2> HIDE DEF n
    <2>4. ASSUME mode = "jq"
          PROVE  /\ \A i \in 1..Len(buffer') : buffer'[i][2] = n + i - 1
                 /\ messageCount' = n + Len(buffer') - 1
      <3>1. \A i \in 1..Len(buffer') : i \in 1..Len(buffer) \/ i = Len(buffer) + 1
        BY <1>5
      <3>2. n + Len(buffer) = n + (Len(buffer) + 1) - 1
        BY <1>5, <2>2
      <3> QED BY <1>1, <1>4, <1>5, <2>3, <2>4, <3>1, <3>2
    <2> QED BY <1>1, <1>6, <2>1, <2>4 DEF IInv, IdsOK, n
  <1>11. UNCHANGED <<file, clean, outdated>>
    BY <1>1 DEF disk
  <1>12. FreshOK => BufferFresh' \/ ~Fresh
    <2> SUFFICES ASSUME Fresh, BufferFresh PROVE BufferFresh'
      BY DEF FreshOK
    <2>1. \A i \in 1..Len(buffer) : buffer[i][2] < messageCount
      BY <1>6 DEF BufferFresh
    <2>2. \A i \in 1..Len(buffer) : buffer[i][2] \in Nat /\ buffer[i][2] <= messageCount
      <3>1. \A i \in 1..Len(buffer) : buffer[i][2] \in Nat
        BY <1>2 DEF Pair
      <3> QED BY <1>2, <2>1, <3>1
    <2>3. buffer'[Len(buffer')][2] = messageCount
      BY <1>4, <1>5
    <2>4. messageCount <= messageCount
      BY <1>2
    <2>5. \A i \in 1..Len(buffer') : i \in 1..Len(buffer) \/ i = Len(buffer) + 1
      BY <1>5
    <2>6. \A i \in 1..Len(buffer') : /\ buffer'[i][2] <= messageCount
                                      /\ buffer'[i][2] <= buffer'[Len(buffer')][2]
      BY <1>4, <1>5, <2>2, <2>3, <2>4, <2>5
    <2> QED BY <1>1, <1>6, <2>6 DEF BufferFresh
  <1>13. FreshOK'
    <2>1. Fresh' <=> Fresh
      BY <1>11 DEF Fresh
    <2>2. buffer'[Len(buffer')][2] = messageCount /\ buffer' # <<>>
      BY <1>4, <1>5
    <2>3. UpTo(file, messageCount) => UpTo(file, buffer[Len(buffer)][2])'
      BY <1>11, <2>2 DEF UpTo
    <2>4. FileFresh => FileFresh'
      BY <1>1, <1>2, <1>6, <1>11, <2>2, <2>3, FileSame DEF FileFresh
    <2> QED BY <1>12, <2>1, <2>4 DEF IInv, FreshOK
  <1>14. WrittenOK'
    BY <1>1, <1>5, <1>7, <1>11 DEF IInv, WrittenOK, Holds
  <1>15. LinesOK' /\ SavedOK'
    BY <1>1, <1>5, <1>7, DiskSame DEF IInv
  <1> QED BY <1>8, <1>9, <1>10, <1>13, <1>14, <1>15 DEF IInv

\* What a task writes is in buffer, and it ends what it has begun.
LEMMA WriteInv == ASSUME IInv, NEW c \in Chunk, Write(c) \/ WriteNewLine(c), TypeOK' PROVE IInv'
  <1> DEFINE x == IF pc[c] = "write" THEN j[c] ELSE NewLine
  <1>1. /\ UNCHANGED <<mode, mainPc, messageCount, j, buffer, sent, it, flushed, hand, kept, outdated>>
        /\ clean' = (clean /\ mainPc # "save" /\ ~clashed')
        /\ pc[c] \in {"write", "newline"}
        /\ pc' = [pc EXCEPT ![c] = IF pc[c] = "write" THEN "newline" ELSE "line"]
    BY DEF Write, WriteNewLine, Writes, Goto, main, sending, reception
  <1>2. /\ mainPc = "end" => UNCHANGED <<file, clashed>>
        /\ mainPc # "end" => Insert(x, mainPc = "save" \/ \E d \in Chunk \ {c} : Writing(d))
    BY DEF Write, WriteNewLine, Writes, Goto
  <1>3. crossed' = IF pc[c] = "write" THEN crossed \cup ({hand} \ {Nothing}) ELSE crossed
    BY DEF Write, WriteNewLine, Goto
  <1>4. /\ pc \in [Task -> Place] /\ file \in Seq(Entry) /\ clean \in BOOLEAN /\ clashed \in BOOLEAN
        /\ TasksOK /\ mainPc \in {"accept", "save", "end"} /\ kept \subseteq Pair
    BY <1>1 DEF IInv, TypeOK, TasksOK
  <1>5. /\ pc'[c] = IF pc[c] = "write" THEN "newline" ELSE "line"
        /\ pc'[Sender] = pc[Sender] /\ \A d \in Chunk : d # c => pc'[d] = pc[d]
    <2>1. c \in Task /\ Sender \in Task /\ c # Sender
      BY Tasks
    <2>2. \A d \in Chunk : d \in Task
      BY Tasks
    <2> QED BY <1>1, <1>4, <2>1, <2>2
  <1>6. \A d \in Chunk : /\ Numbering(d)' <=> Numbering(d)
                         /\ pc'[d] = "write" => pc[d] = "write"
    BY <1>1, <1>5 DEF Numbering
  <1>7. x \in Entry /\ (x # NewLine => x = j[c] /\ pc[c] = "write")
    BY <1>4 DEF TasksOK, Entry
  <1> HIDE DEF x
  <1>8. TasksOK'
    BY <1>1, <1>4, <1>5, <1>6 DEF TasksOK
  <1>9. SenderOK'
    BY <1>1, <1>5 DEF IInv, SenderOK
  <1>10. IdsOK'
    <2>1. Held' = Held
      BY <1>1 DEF Held
    <2> QED BY <1>1, <1>6, <2>1 DEF IInv, IdsOK
  <1>11. FreshOK'
    <2>1. Fresh' => Fresh /\ mainPc # "save"
      BY <1>1 DEF Fresh
    <2>2. BufferFresh => BufferFresh'
      BY <1>1, <1>6 DEF BufferFresh
    <2>3. FileFresh /\ mainPc # "save" => FileFresh'
      BY <1>1, <1>2, <1>4, FileSame DEF FileFresh
    <2> QED BY <2>1, <2>2, <2>3 DEF IInv, FreshOK
  <1>12. WrittenOK'
    <2> SUFFICES ASSUME mode = "gb", mainPc = "accept"
                 PROVE  /\ Holds(file', Elements(buffer))
                        /\ \A d \in Chunk : pc'[d] = "write" => j[d] \in Elements(buffer)
      <3>1. Elements(buffer)' = Elements(buffer)
        BY <1>1 DEF Elements
      <3> QED BY <1>1, <3>1 DEF WrittenOK, Holds
    <2>1. WrittenOK
      BY DEF IInv
    <2>2. x \in Elements(buffer) \cup {NewLine}
      BY <1>7, <2>1 DEF WrittenOK
    <2>3. Holds(file, Elements(buffer))
      BY <2>1 DEF WrittenOK
    <2>4. file' = file => Holds(file', Elements(buffer))
      BY <2>3
    <2>5. ASSUME file' = Append(file, x) PROVE Holds(file', Elements(buffer))
      BY <1>4, <1>7, <2>2, <2>3, <2>5, AppendedAll
    <2>6. Holds(file', Elements(buffer))
      BY <1>2, <2>4, <2>5 DEF Insert
    <2> QED BY <1>6, <2>1, <2>6 DEF WrittenOK
  <1>13. ASSUME ~clashed', mainPc # "end"
         PROVE  ~clashed /\ file' = Append(file, x)
    BY <1>2, <1>13 DEF Insert
  <1>14. LinesOK'
    <2> SUFFICES ASSUME mode = "gb", mainPc \in {"accept", "save"}, ~clashed'
                 PROVE  /\ Ended(file') \/ (\E d \in Chunk : pc'[d] = "newline")
                        /\ flushed <= Len(file')
                        /\ flushed = 0 \/ file'[flushed] = NewLine
      <3>1. mode = "gb" /\ mainPc = "end" => flushed <= Len(file')
        BY <1>2 DEF IInv, LinesOK
      <3> QED BY <1>1, <3>1 DEF LinesOK, Undisturbed, Ended, LineBegun
    <2>1. ~clashed /\ file' = Append(file, x)
      BY <1>13
    <2>2. flushed <= Len(file) /\ (flushed = 0 \/ file[flushed] = NewLine) /\ flushed \in Nat
      BY <2>1 DEF IInv, LinesOK, Undisturbed, TypeOK
    <2>3. /\ Len(file) \in Nat /\ Len(file') = Len(file) + 1
          /\ \A i \in 1..Len(file) : file'[i] = file[i]
      BY <1>4, <1>7, <2>1, Appended
    <2>4. flushed <= Len(file') /\ (flushed = 0 \/ file'[flushed] = NewLine)
      BY <2>2, <2>3
    <2>5. pc[c] = "newline" => Ended(file')
      BY <1>4, <2>1, NewLineAppended DEF x
    <2> QED BY <1>1, <1>5, <2>4, <2>5
  <1>15. SavedOK'
    <2> SUFFICES ASSUME mode = "gb", mainPc \in {"save", "end"}, ~clashed' PROVE SavedOK'
      BY <1>1 DEF SavedOK
    <2>1. InMain' = InMain
      BY <1>1 DEF InMain, Elements
    <2>2. CASE mainPc = "end"
      <3>1. hand = Nothing
        BY <2>2 DEF IInv, TypeOK
      <3>2. UNCHANGED <<file, clashed, crossed>>
        BY <1>2, <1>3, <2>2, <3>1
      <3>3. Flushed' = Flushed
        BY <1>1, <3>2 DEF Flushed, Texts, Intact
      <3> QED BY <1>1, <2>1, <3>1, <3>2, <3>3 DEF IInv, SavedOK
    <2>3. CASE mainPc = "save"
      <3>1. ~clashed /\ file' = Append(file, x)
        BY <1>13, <2>3
      <3>2. flushed \in 0..Len(file)
        BY <2>3, <3>1 DEF IInv, LinesOK, Undisturbed, TypeOK
      <3>3. Flushed' = Flushed
        <4>1. SubSeq(file', 1, flushed) = SubSeq(file, 1, flushed)
          BY <1>4, <1>7, <3>1, <3>2, CutAppended
        <4> QED BY <1>1, <4>1 DEF Flushed, Texts, Intact
      <3>4. hand # Nothing /\ hand \notin crossed' => hand \in Texts(file')
        <4>1. SavedOK
          BY DEF IInv
        <4>2. pc[c] = "write" /\ hand # Nothing => hand \in crossed'
          BY <1>3
        <4>3. pc[c] = "newline" => Texts(file') = Texts(file)
          BY <1>4, <3>1, NewLineAppended DEF x
        <4> QED BY <1>1, <1>3, <2>3, <3>1, <4>1, <4>2, <4>3 DEF SavedOK
      <3>5. kept \subseteq Aged \cup crossed' \cup InMain \cup Flushed
        BY <1>3, <2>3, <3>1 DEF IInv, SavedOK
      <3>6. (hand \in Texts(file))' <=> hand \in Texts(file')
        BY <1>1 DEF Texts, Intact
      <3> QED BY <1>1, <2>1, <3>3, <3>4, <3>5, <3>6 DEF SavedOK
    <2> QED BY <2>2, <2>3
  <1> QED BY <1>8, <1>9, <1>10, <1>11, <1>12, <1>14, <1>15 DEF IInv

-----------------------------------------------------------------------------
(* mySend *)

\* The message it takes has the id that follows that of the last sent.
LEMMA TakeInv == ASSUME IInv, Take, TypeOK' PROVE IInv'
  <1>1. /\ UNCHANGED <<mode, mainPc, messageCount, sent, it, disk>>
        /\ pc[Sender] = "deQueue" /\ pc' = [pc EXCEPT ![Sender] = "resend"]
        /\ j' = [j EXCEPT ![Sender] = Head(buffer)] /\ buffer' = Tail(buffer)
    BY DEF Take, Goto, main, sending, reception
  <1>2. /\ pc \in [Task -> Place] /\ j \in [Task -> Pair \cup {Nothing}]
        /\ messageCount \in Int /\ buffer \in Seq(Pair) /\ sent \in Seq(Pair)
        /\ mode = "jq" /\ mainPc \notin {"load", "open"}
    BY <1>1 DEF IInv, TypeOK, TasksOK
  <1>3. /\ buffer # <<>> /\ j[Sender] = Nothing /\ it # Nowhere
    BY <1>1, <1>2 DEF IInv, SenderOK
  <1>4. /\ Len(buffer) \in Nat \ {0} /\ Len(buffer') = Len(buffer) - 1
        /\ Head(buffer) = buffer[1] /\ Head(buffer) \in Pair
        /\ \A i \in 1..(Len(buffer) - 1) : buffer'[i] = buffer[i + 1]
    BY <1>1, <1>2, <1>3, Popped
  <1>5. /\ pc'[Sender] = "resend" /\ j'[Sender] = Head(buffer) /\ j'[Sender] # Nothing
        /\ \A c \in Chunk : pc'[c] = pc[c] /\ j'[c] = j[c]
    <2>1. j'[Sender] = Head(buffer) /\ pc'[Sender] = "resend"
      BY <1>1, <1>2, Tasks
    <2>2. Nothing \notin Pair
      BY DEF Nothing, Pair
    <2>3. \A c \in Chunk : pc'[c] = pc[c] /\ j'[c] = j[c]
      BY <1>1, <1>2, Tasks
    <2> QED BY <1>4, <2>1, <2>2, <2>3
  <1>6. \A c \in Chunk : Numbering(c)' <=> Numbering(c)
    BY <1>5 DEF Numbering
  <1>7. TasksOK'
    BY <1>1, <1>2, <1>5, <1>6 DEF IInv, TasksOK
  <1>8. SenderOK'
    BY <1>1, <1>3, <1>5 DEF IInv, SenderOK
  <1>9. IdsOK'
    <2>1. Held = 0 /\ Held' = 1 /\ Len(sent) \in Nat
      BY <1>2, <1>3, <1>5 DEF Held
    <2>2. IdsOK
      BY DEF IInv
    <2>3. j'[Sender][2] = Len(sent)
      <3>1. 1 \in 1..Len(buffer) /\ Len(sent) + 0 + 1 - 1 = Len(sent)
        BY <1>4, <2>1
      <3> QED BY <1>2, <1>4, <1>5, <2>1, <2>2, <3>1 DEF IdsOK
    <2>4. \A i \in 1..Len(buffer') : buffer'[i][2] = Len(sent) + 1 + i - 1
      <3> SUFFICES ASSUME NEW i \in 1..Len(buffer') PROVE buffer'[i][2] = Len(sent) + 1 + i - 1
        OBVIOUS
      <3>1. i + 1 \in 1..Len(buffer) /\ i \in 1..(Len(buffer) - 1)
        BY <1>4
      <3>2. Len(sent) + 0 + (i + 1) - 1 = Len(sent) + 1 + i - 1
        BY <2>1
      <3>3. buffer[i + 1][2] = Len(sent) + 0 + (i + 1) - 1
        BY <1>2, <2>1, <2>2, <3>1 DEF IdsOK
      <3> QED BY <1>4, <3>1, <3>2, <3>3
    <2>5. /\ Len(sent) + 1 + Len(buffer') = Len(sent) + 0 + Len(buffer)
          /\ Len(sent) + 1 + Len(buffer') - 1 = Len(sent) + 0 + Len(buffer) - 1
      BY <1>4, <2>1
    <2> QED BY <1>1, <1>2, <1>6, <2>1, <2>2, <2>3, <2>4, <2>5 DEF IdsOK
  <1>10. FreshOK'
    <2>1. (Fresh' <=> Fresh) /\ FileFresh'
      BY <1>1, <1>2 DEF disk, Fresh, FileFresh
    <2>2. \A i \in 1..Len(buffer') : i + 1 \in 1..Len(buffer) /\ buffer'[i] = buffer[i + 1]
      BY <1>4
    <2>3. buffer' = <<>> \/ buffer'[Len(buffer')] = buffer[Len(buffer)]
      <3>1. CASE Len(buffer) = 1
        BY <1>1, <1>2, <1>3, <3>1
      <3>2. CASE Len(buffer) # 1
        BY <1>4, <3>2
      <3> QED BY <3>1, <3>2
    <2>4. buffer' = <<>> => Len(buffer') = 0
      OBVIOUS
    <2>5. BufferFresh => BufferFresh'
      BY <1>1, <1>6, <2>2, <2>3, <2>4 DEF BufferFresh
    <2> QED BY <2>1, <2>5 DEF IInv, FreshOK
  <1>11. WrittenOK' /\ LinesOK' /\ SavedOK'
    BY <1>1, <1>2 DEF WrittenOK, LinesOK, Undisturbed, SavedOK
  <1> QED BY <1>7, <1>8, <1>9, <1>10, <1>11 DEF IInv

LEMMA SendInv == ASSUME IInv, NEW here \in {"resend", "blocked"}, SendFrom(here), TypeOK' PROVE IInv'
  <1>1. /\ UNCHANGED <<mode, mainPc, messageCount, buffer, disk>>
        /\ pc[Sender] = here /\ pc' = [pc EXCEPT ![Sender] = "buffer"]
        /\ j' = [j EXCEPT ![Sender] = Nothing] /\ sent' = Append(sent, j[Sender])
        /\ Valid /\ it' = IF Following = End THEN Begins ELSE Following
    BY DEF SendFrom, SenderGoes, Goto, main, reception
  <1>2. /\ pc \in [Task -> Place] /\ j \in [Task -> Pair \cup {Nothing}]
        /\ messageCount \in Int /\ buffer \in Seq(Pair) /\ sent \in Seq(Pair)
        /\ mode = "jq" /\ mainPc \notin {"load", "open"} /\ theClients \in Seq(Consumer)
    BY <1>1 DEF IInv, TypeOK, TasksOK
  <1>3. j[Sender] # Nothing /\ j[Sender] \in Pair
    <2>1. j[Sender] # Nothing
      BY <1>1, <1>2 DEF IInv, SenderOK
    <2> QED BY <1>2, <2>1, Tasks
  <1>4. /\ Len(sent) \in Nat /\ Len(sent') = Len(sent) + 1
        /\ \A i \in 1..Len(sent) : sent'[i] = sent[i]
        /\ sent'[Len(sent) + 1] = j[Sender]
    BY <1>1, <1>2, <1>3, Pushed
  <1>5. /\ pc'[Sender] = "buffer" /\ j'[Sender] = Nothing
        /\ \A c \in Chunk : pc'[c] = pc[c] /\ j'[c] = j[c]
    BY <1>1, <1>2, Tasks
  <1>6. \A c \in Chunk : Numbering(c)' <=> Numbering(c)
    BY <1>5 DEF Numbering
  <1>7. TasksOK'
    BY <1>1, <1>2, <1>5, <1>6 DEF IInv, TasksOK
  <1>8. SenderOK'
    <2>1. it' # Nowhere
      BY <1>1, <1>2, Nodes, ListAssumption
    <2> QED BY <1>5, <2>1 DEF SenderOK
  <1>9. IdsOK'
    <2>1. Held = 1 /\ Held' = 0 /\ Len(buffer) \in Nat
      BY <1>2, <1>3, <1>5 DEF Held
    <2>2. IdsOK
      BY DEF IInv
    <2>3. \A i \in 1..Len(sent') : sent'[i][2] = i - 1
      <3>1. j[Sender][2] = (Len(sent) + 1) - 1
        BY <1>2, <1>3, <1>4, <2>2 DEF IdsOK
      <3>2. \A i \in 1..Len(sent') : i \in 1..Len(sent) \/ i = Len(sent) + 1
        BY <1>4
      <3>3. \A i \in 1..Len(sent) : sent[i][2] = i - 1
        BY <1>2, <2>2 DEF IdsOK
      <3> QED BY <1>4, <3>1, <3>2, <3>3
    <2>4. Len(sent') + 0 = Len(sent) + 1
      BY <1>4
    <2> QED BY <1>1, <1>2, <1>5, <1>6, <2>1, <2>2, <2>3, <2>4 DEF IdsOK
  <1>10. FreshOK'
    <2>1. (Fresh' <=> Fresh) /\ FileFresh'
      BY <1>1, <1>2 DEF disk, Fresh, FileFresh
    <2>2. BufferFresh => BufferFresh'
      BY <1>1, <1>6 DEF BufferFresh
    <2> QED BY <2>1, <2>2 DEF IInv, FreshOK
  <1>11. WrittenOK' /\ LinesOK' /\ SavedOK'
    BY <1>1, <1>2 DEF WrittenOK, LinesOK, Undisturbed, SavedOK
  <1> QED BY <1>7, <1>8, <1>9, <1>10, <1>11 DEF IInv

-----------------------------------------------------------------------------
(* main *)

\* What main keeps while it starts, in mode "gb": no task is there.
LEMMA LoadInv == ASSUME IInv, Load, TypeOK' PROVE IInv'
  <1>1. /\ UNCHANGED <<mode, pc, j, sent, it, file, hand, kept, clean, outdated>>
        /\ mainPc = "load" /\ mainPc' = "open" /\ buffer' = Parsed(file)
        /\ messageCount' = IF buffer' = <<>> THEN 0 ELSE LastId(buffer') + 1
    BY DEF Load, sending, disk
  <1>2. /\ mode = "gb" /\ file \in Seq(Entry)
        /\ \A c \in Chunk : pc[c] = "none"
    BY <1>1 DEF IInv, TypeOK, TasksOK
  <1>3. TasksOK'
    BY <1>1, <1>2 DEF IInv, TasksOK, Numbering
  <1>4. SenderOK' /\ IdsOK' /\ WrittenOK' /\ LinesOK' /\ SavedOK'
    BY <1>1, <1>2 DEF SenderOK, IdsOK, WrittenOK, LinesOK, Undisturbed, SavedOK
  <1>5. FreshOK'
    <2> SUFFICES ASSUME Fresh, buffer' # <<>>, NEW i \in 1..Len(buffer')
                 PROVE  /\ buffer'[i][2] <= messageCount'
                        /\ buffer'[i][2] <= buffer'[Len(buffer')][2]
      <3>1. buffer' = <<>> => 1..Len(buffer') = {}
        OBVIOUS
      <3>2. (Fresh' <=> Fresh) /\ \A c \in Chunk : ~Numbering(c)'
        BY <1>1, <1>2 DEF Fresh, Numbering
      <3>3. BufferFresh' <=> \A n \in 1..Len(buffer') : /\ buffer'[n][2] <= messageCount'
                                                         /\ buffer'[n][2] <= buffer'[Len(buffer')][2]
        BY <3>2 DEF BufferFresh
      <3>4. FileFresh'
        BY <1>1 DEF FileFresh
      <3> QED BY <3>1, <3>2, <3>3, <3>4 DEF FreshOK
    <2>1. /\ buffer' \in Seq(Pair) /\ Elements(buffer') = Texts(file)
          /\ \E k \in Intact(file) : /\ \A m \in Intact(file) : m <= k
                                     /\ buffer'[Len(buffer')] = file[k]
      BY <1>1, <1>2, ParsedTexts
    <2>2. Topmost(file)
      BY <1>1, <1>2 DEF IInv, FreshOK, FileFresh
    <2>3. buffer'[i] \in Texts(file)
      BY <2>1 DEF Elements
    <2>4. buffer'[i][2] <= buffer'[Len(buffer')][2]
      BY <2>1, <2>2, <2>3 DEF Texts, Topmost
    <2>5. buffer'[i] \in Pair /\ buffer'[Len(buffer')] \in Pair
      BY <2>1
    <2>6. messageCount' = buffer'[Len(buffer')][2] + 1
      BY <1>1 DEF LastId
    <2> QED BY <2>4, <2>5, <2>6 DEF Pair
  <1> QED BY <1>3, <1>4, <1>5 DEF IInv

LEMMA OpenInv == ASSUME IInv, Open, TypeOK' PROVE IInv'
  <1>1. /\ UNCHANGED <<mode, pc, j, buffer, messageCount, sent, it, hand, kept, clean, outdated>>
        /\ mainPc = "open" /\ mainPc' = "accept" /\ file' = <<>> /\ flushed' = 0
    BY DEF Open, sending, reception
  <1>2. mode = "gb" /\ \A c \in Chunk : pc[c] = "none"
    BY <1>1 DEF IInv, TypeOK, TasksOK
  <1>3. TasksOK'
    BY <1>1, <1>2 DEF IInv, TasksOK, Numbering
  <1>4. SenderOK' /\ IdsOK' /\ SavedOK'
    BY <1>1, <1>2 DEF SenderOK, IdsOK, SavedOK
  <1>5. FreshOK'
    <2>1. (Fresh' <=> Fresh) /\ (BufferFresh => BufferFresh') /\ FileFresh'
      BY <1>1, <1>2 DEF Fresh, BufferFresh, FileFresh, Numbering
    <2> QED BY <2>1 DEF IInv, FreshOK
  <1>6. WrittenOK' /\ LinesOK'
    <2>1. 1..Len(file') = {}
      BY <1>1
    <2>2. WrittenOK'
      BY <1>1, <1>2, <2>1 DEF WrittenOK, Holds
    <2>3. Len(file') = 0 /\ Ended(file)'
      BY <1>1 DEF Ended
    <2> QED BY <1>1, <2>2, <2>3 DEF LinesOK
  <1> QED BY <1>3, <1>4, <1>5, <1>6 DEF IInv

\* A file that holds nothing but newlines has no line with a message.
LEMMA NothingHeld ==
    ASSUME NEW f \in Seq(Entry), Holds(f, {})
    PROVE  Topmost(f)
  <1>1. Intact(f) = {}
    BY DEF Intact, Holds
  <1> QED BY <1>1 DEF Topmost

\* When accept fails, the file holds nothing that is not in buffer.
LEMMA AcceptFailsInv == ASSUME IInv, AcceptFails, TypeOK' PROVE IInv'
  <1>1. /\ UNCHANGED <<mode, pc, j, buffer, messageCount, sent, it, file, flushed, hand, crossed, clashed,
                       clean, outdated>>
        /\ mainPc = "accept" /\ mainPc' = IF mode = "gb" THEN "save" ELSE "end"
        /\ kept' = Elements(buffer)
    BY DEF AcceptFails, sending, reception, Range, Elements
  <1>2. /\ file \in Seq(Entry) /\ buffer \in Seq(Pair) /\ mode \in {"gb", "jq"} /\ hand = Nothing
    BY <1>1 DEF IInv, TypeOK
  <1>3. TasksOK'
    BY <1>1, <1>2 DEF IInv, TasksOK, Numbering
  <1>4. SenderOK'
    BY <1>1 DEF IInv, SenderOK
  <1>5. \A c \in Chunk : Numbering(c)' <=> Numbering(c)
    BY <1>1 DEF Numbering
  <1>6. IdsOK'
    <2>1. Held' = Held
      BY <1>1 DEF Held
    <2> QED BY <1>1, <1>5, <2>1 DEF IInv, IdsOK
  <1>7. FreshOK'
    <2> SUFFICES ASSUME Fresh, BufferFresh PROVE BufferFresh' /\ FileFresh'
      <3>1. Fresh' <=> Fresh
        BY <1>1 DEF Fresh
      <3> QED BY <3>1 DEF IInv, FreshOK
    <2>1. BufferFresh'
      BY <1>1, <1>5 DEF BufferFresh
    <2>2. ASSUME mode = "gb"
          PROVE  /\ UpTo(file, messageCount) /\ UpTo(file, buffer[Len(buffer)][2])
                 /\ \A c \in Chunk : Numbering(c) => Under(file, messageCount)
                 /\ buffer = <<>> => Topmost(file)
      <3>1. Holds(file, Elements(buffer))
        BY <1>1, <2>2 DEF IInv, WrittenOK
      <3>2. \A i \in 1..Len(file) : file[i] # NewLine => \E k \in 1..Len(buffer) : file[i] = buffer[k]
        BY <3>1 DEF Holds, Elements
      <3>3. UpTo(file, messageCount) /\ UpTo(file, buffer[Len(buffer)][2])
        BY <3>2 DEF UpTo, BufferFresh
      <3>4. ASSUME NEW c \in Chunk, Numbering(c) PROVE Under(file, messageCount)
        BY <3>2, <3>4 DEF Under, BufferFresh
      <3>5. buffer = <<>> => Topmost(file)
        <4>1. buffer = <<>> => Elements(buffer) = {}
          BY DEF Elements
        <4> QED BY <1>2, <3>1, <4>1, NothingHeld
      <3> QED BY <3>3, <3>4, <3>5
    <2>3. FileFresh'
      BY <1>1, <1>2, <1>5, <2>2, FileSame DEF FileFresh
    <2> QED BY <2>1, <2>3
  <1>8. WrittenOK'
    BY <1>1 DEF WrittenOK
  <1>9. LinesOK'
    <2>1. (Undisturbed' => Undisturbed) /\ (Ended(file)' <=> Ended(file)) /\ (LineBegun' <=> LineBegun)
      BY <1>1 DEF Undisturbed, Ended, LineBegun
    <2> QED BY <1>1, <2>1 DEF IInv, LinesOK
  <1>10. SavedOK'
    <2>1. mode = "gb" => kept' \subseteq InMain'
      BY <1>1 DEF InMain, Elements
    <2> QED BY <1>1, <1>2, <2>1 DEF SavedOK
  <1> QED BY <1>3, <1>4, <1>6, <1>7, <1>8, <1>9, <1>10 DEF IInv

\* What main takes from buffer is its first message; the last stays the last.
LEMMA TakingFacts ==
    ASSUME IInv, Taking
    PROVE  /\ mode = "gb" /\ mainPc = "save" /\ hand = Nothing /\ buffer # <<>>
           /\ UNCHANGED <<mode, mainPc, pc, messageCount, j, sent, it, kept, flushed>>
           /\ Head(buffer) \in Pair /\ Elements(buffer) = Elements(buffer') \cup {Head(buffer)}
           /\ IF buffer' = <<>> THEN Head(buffer) = buffer[Len(buffer)]
              ELSE buffer'[Len(buffer')] = buffer[Len(buffer)]
           /\ Head(buffer)[2] = buffer[1][2] /\ 1 \in 1..Len(buffer)
           /\ TasksOK' /\ SenderOK' /\ IdsOK' /\ WrittenOK' /\ (BufferFresh => BufferFresh')
  <1>1. /\ UNCHANGED <<mode, mainPc, pc, messageCount, j, sent, it, kept, flushed>>
        /\ mainPc = "save" /\ hand = Nothing /\ buffer # <<>> /\ buffer' = Tail(buffer)
    BY DEF Taking, reception, sending
  <1>2. mode = "gb" /\ buffer \in Seq(Pair)
    BY <1>1 DEF IInv, TypeOK
  <1>3. TasksOK'
    BY <1>1, <1>2 DEF IInv, TasksOK, Numbering
  <1>4. SenderOK' /\ IdsOK' /\ WrittenOK'
    BY <1>1, <1>2 DEF SenderOK, IdsOK, WrittenOK
  <1>5. /\ Len(buffer) \in Nat \ {0} /\ Len(buffer') = Len(buffer) - 1
        /\ Head(buffer) = buffer[1] /\ Head(buffer) \in Pair
        /\ \A n \in 1..(Len(buffer) - 1) : buffer'[n] = buffer[n + 1]
    BY <1>1, <1>2, Popped
  <1>6. Elements(buffer) = Elements(buffer') \cup {Head(buffer)}
    BY <1>1, <1>2, TailElements
  <1>7. buffer' = <<>> <=> Len(buffer) = 1
    <2>1. buffer' \in Seq(Pair)
      BY <1>1, <1>2
    <2>2. ASSUME NEW q \in Seq(Pair) PROVE q = <<>> <=> Len(q) = 0
      OBVIOUS
    <2>3. buffer' = <<>> <=> Len(buffer') = 0
      BY <2>1, <2>2, Zenon
    <2>4. \A n \in Nat \ {0} : n - 1 = 0 <=> n = 1
      OBVIOUS
    <2> QED BY <1>5, <2>3, <2>4
  <1>8. IF buffer' = <<>> THEN Head(buffer) = buffer[Len(buffer)]
        ELSE buffer'[Len(buffer')] = buffer[Len(buffer)]
    BY <1>5, <1>7
  <1>9. BufferFresh => BufferFresh'
    <2>1. \A c \in Chunk : Numbering(c)' <=> Numbering(c)
      BY <1>1 DEF Numbering
    <2>2. \A n \in 1..Len(buffer') : /\ n + 1 \in 1..Len(buffer) /\ buffer'[n] = buffer[n + 1]
                                      /\ Len(buffer) # 1
      BY <1>5, SMTT(30)
    <2>3. \A n \in 1..Len(buffer') : buffer'[Len(buffer')] = buffer[Len(buffer)]
      BY <1>7, <1>8, <2>2
    <2> QED BY <1>1, <2>1, <2>2, <2>3 DEF BufferFresh
  <1> QED BY <1>1, <1>2, <1>3, <1>4, <1>5, <1>6, <1>8, <1>9

\* Behind a newline the text is a line that can be read, and the last one; behind a
\* task's line that is begun, it counts as crossed.
LEMMA SaveTextInv == ASSUME IInv, SaveText, TypeOK' PROVE IInv'
  <1> DEFINE x == Head(buffer)
  <1>1. /\ Taking /\ hand' = x /\ outdated' = outdated
        /\ Insert(x, \E c \in Chunk : Writing(c))
        /\ crossed' = IF LineBegun THEN crossed \cup {x} ELSE crossed
        /\ clean' = (clean /\ ~LineBegun /\ ~clashed')
    BY DEF SaveText
  <1>2. /\ mode = "gb" /\ mainPc = "save" /\ hand = Nothing /\ buffer # <<>>
        /\ UNCHANGED <<mode, mainPc, pc, messageCount, j, sent, it, kept, flushed>>
        /\ x \in Pair /\ Elements(buffer) = Elements(buffer') \cup {x}
        /\ IF buffer' = <<>> THEN x = buffer[Len(buffer)]
           ELSE buffer'[Len(buffer')] = buffer[Len(buffer)]
        /\ x[2] = buffer[1][2] /\ 1 \in 1..Len(buffer)
        /\ TasksOK' /\ SenderOK' /\ IdsOK' /\ WrittenOK' /\ (BufferFresh => BufferFresh')
    BY <1>1, TakingFacts
  <1> HIDE DEF x
  <1>3. file \in Seq(Entry) /\ x \in Entry /\ x # Nothing /\ clean \in BOOLEAN
    BY <1>2 DEF IInv, TypeOK, Entry, Pair, Nothing
  <1>4. ASSUME ~clashed'
        PROVE  /\ ~clashed /\ file' = Append(file, x)
               /\ Ended(file) \/ LineBegun
               /\ flushed \in 0..Len(file) /\ (flushed = 0 \/ file[flushed] = NewLine)
    <2>1. ~clashed /\ file' = Append(file, x)
      BY <1>1, <1>4 DEF Insert
    <2> QED BY <1>2, <2>1 DEF IInv, LinesOK, Undisturbed, TypeOK
  <1>5. FreshOK'
    <2> SUFFICES ASSUME Fresh, BufferFresh, FileFresh, ~clashed', ~LineBegun
                 PROVE  FileFresh'
      BY <1>1, <1>2, <1>3 DEF IInv, FreshOK, Fresh
    <2>1. file' = Append(file, x) /\ Ended(file)
      BY <1>4
    <2>2. \A c \in Chunk : Numbering(c)' <=> Numbering(c)
      BY <1>2 DEF Numbering
    <2>3. UpTo(file', messageCount)
      <3>1. UpTo(file, messageCount) /\ x[2] <= messageCount
        BY <1>2 DEF FileFresh, BufferFresh
      <3> QED BY <1>3, <2>1, <3>1, AppendedAll
    <2>4. ASSUME NEW c \in Chunk, Numbering(c) PROVE Under(file', messageCount)
      <3>1. Under(file, messageCount) /\ x[2] < messageCount
        BY <1>2, <2>4 DEF FileFresh, BufferFresh
      <3> QED BY <1>3, <2>1, <3>1, AppendedAll
    <2>5. UpTo(file', buffer[Len(buffer)][2])
      <3>1. UpTo(file, buffer[Len(buffer)][2]) /\ x[2] <= buffer[Len(buffer)][2]
        BY <1>2 DEF FileFresh, BufferFresh
      <3>2. \A n : UpTo(file, n) /\ x[2] <= n => UpTo(file', n)
        BY <1>3, <2>1, AppendedAll
      <3> QED BY <3>1, <3>2, Zenon
    <2>6. buffer' # <<>> => UpTo(file', buffer'[Len(buffer')][2])
      BY <1>2, <2>5
    <2>7. buffer' = <<>> => Topmost(file')
      BY <1>2, <1>3, <2>1, <2>5, TextAppended
    <2>8. /\ UpTo(file, messageCount)' <=> UpTo(file', messageCount)
          /\ Under(file, messageCount)' <=> Under(file', messageCount)
          /\ UpTo(file, buffer[Len(buffer)][2])' <=> UpTo(file', buffer'[Len(buffer')][2])
          /\ Topmost(file)' <=> Topmost(file')
      BY <1>2 DEF UpTo, Under, Topmost, Intact
    <2> QED BY <1>2, <2>2, <2>3, <2>4, <2>6, <2>7, <2>8 DEF FileFresh
  <1>6. LinesOK'
    <2> SUFFICES ASSUME ~clashed'
                 PROVE  flushed <= Len(file') /\ (flushed = 0 \/ file'[flushed] = NewLine)
      BY <1>1, <1>2, <1>3 DEF LinesOK, Undisturbed
    <2>1. /\ Len(file) \in Nat /\ Len(file') = Len(file) + 1
          /\ \A n \in 1..Len(file) : file'[n] = file[n]
      BY <1>3, <1>4, Appended
    <2> QED BY <1>4, <2>1
  <1>7. SavedOK'
    <2> SUFFICES ASSUME ~clashed'
                 PROVE  /\ kept \subseteq Aged \cup crossed' \cup Elements(buffer') \cup {x} \cup Flushed'
                        /\ x \in crossed' \/ x \in Texts(file')
      <3>1. InMain' = Elements(buffer') \cup {x} /\ (Texts(file)' = Texts(file'))
        BY <1>1, <1>2 DEF InMain, Elements, Texts, Intact
      <3> QED BY <1>1, <1>2, <3>1 DEF SavedOK
    <2>1. Flushed' = Flushed
      <3>1. SubSeq(file', 1, flushed) = SubSeq(file, 1, flushed)
        <4>1. file' = Append(file, x) /\ flushed \in 0..Len(file)
          BY <1>4
        <4> QED BY <1>3, <4>1, CutAppended
      <3> QED BY <1>2, <3>1 DEF Flushed, Texts, Intact
    <2>2. kept \subseteq Aged \cup crossed \cup (Elements(buffer) \cup {Nothing}) \cup Flushed
      BY <1>2, <1>4 DEF IInv, SavedOK, InMain
    <2>3. kept \subseteq Pair /\ Nothing \notin Pair
      BY DEF IInv, TypeOK, Nothing, Pair
    <2>4. x \in crossed' \/ x \in Texts(file')
      <3>1. Ended(file) => x \in Texts(file')
        BY <1>2, <1>3, <1>4, TextAppended
      <3> QED BY <1>1, <1>4, <3>1
    <2> QED BY <1>1, <1>2, <2>1, <2>2, <2>3, <2>4
  <1> QED BY <1>2, <1>5, <1>6, <1>7 DEF IInv

\* The newline and the flush: what main has in its hand is on the disk.
LEMMA SaveNewLineInv == ASSUME IInv, SaveNewLine, TypeOK' PROVE IInv'
  <1>1. /\ UNCHANGED <<mode, mainPc, pc, messageCount, j, buffer, sent, it, kept, crossed, outdated>>
        /\ mainPc = "save" /\ hand # Nothing /\ hand' = Nothing
        /\ Insert(NewLine, \E c \in Chunk : Writing(c))
        /\ clean' = (clean /\ ~clashed') /\ flushed' = Len(file')
    BY DEF SaveNewLine, EndsLine, main, reception, sending
  <1>2. /\ mode = "gb" /\ file \in Seq(Entry) /\ clean \in BOOLEAN /\ NewLine \in Entry
        /\ kept \subseteq Pair /\ Nothing \notin Pair
    BY <1>1 DEF IInv, TypeOK, Entry, Nothing, Pair
  <1>3. TasksOK' /\ SenderOK' /\ IdsOK' /\ WrittenOK'
    BY <1>1, <1>2 DEF IInv, TasksOK, Numbering, SenderOK, IdsOK, WrittenOK
  <1>4. ASSUME ~clashed'
        PROVE  /\ ~clashed /\ file' = Append(file, NewLine)
               /\ Ended(file') /\ file'[Len(file')] = NewLine
               /\ Texts(file') = Texts(file) /\ (Topmost(file) => Topmost(file'))
    <2>1. ~clashed /\ file' = Append(file, NewLine)
      BY <1>1, <1>4 DEF Insert
    <2> QED BY <1>2, <2>1, NewLineAppended
  <1>5. FreshOK'
    <2> SUFFICES ASSUME Fresh, BufferFresh, FileFresh, ~clashed' PROVE BufferFresh' /\ FileFresh'
      BY <1>1, <1>2 DEF IInv, FreshOK, Fresh
    <2>1. \A c \in Chunk : Numbering(c)' <=> Numbering(c)
      BY <1>1 DEF Numbering
    <2>2. BufferFresh'
      BY <1>1, <2>1 DEF BufferFresh
    <2>3. \A n : (UpTo(file, n) => UpTo(file', n)) /\ (Under(file, n) => Under(file', n))
      BY <1>2, <1>4, AppendedAll
    <2>4. /\ UpTo(file, messageCount)' <=> UpTo(file', messageCount)
          /\ Under(file, messageCount)' <=> Under(file', messageCount)
          /\ UpTo(file, buffer[Len(buffer)][2])' <=> UpTo(file', buffer[Len(buffer)][2])
          /\ Topmost(file)' <=> Topmost(file')
      BY <1>1 DEF UpTo, Under, Topmost, Intact
    <2>5. FileFresh'
      BY <1>1, <1>2, <1>4, <2>1, <2>3, <2>4 DEF FileFresh
    <2> QED BY <2>2, <2>5
  <1>6. LinesOK'
    <2>1. Ended(file)' <=> Ended(file')
      BY DEF Ended
    <2>2. Len(file') <= Len(file')
      BY DEF TypeOK
    <2> QED BY <1>1, <1>4, <2>1, <2>2 DEF LinesOK, Undisturbed
  <1>7. SavedOK'
    <2> SUFFICES ASSUME ~clashed'
                 PROVE  kept \subseteq Aged \cup crossed \cup Elements(buffer) \cup Texts(file)
      <3>1. InMain' = Elements(buffer) \cup {Nothing}
        BY <1>1 DEF InMain, Elements
      <3>2. SubSeq(file', 1, Len(file')) = file'
        <4>1. file' \in Seq(Entry)
          BY DEF TypeOK
        <4> QED BY <1>2, <4>1, CutAppended
      <3>3. Flushed' = Texts(file')
        BY <1>1, <3>2 DEF Flushed, Texts, Intact
      <3> QED BY <1>1, <1>4, <3>1, <3>3 DEF SavedOK
    <2>1. flushed \in 0..Len(file) /\ (flushed = 0 \/ file[flushed] = NewLine)
      BY <1>1, <1>2, <1>4 DEF IInv, LinesOK, Undisturbed, TypeOK
    <2>2. Flushed \subseteq Texts(file)
      BY <1>2, <2>1, CutTexts DEF Flushed
    <2>3. kept \subseteq Aged \cup crossed \cup (Elements(buffer) \cup {hand}) \cup Flushed
      BY <1>1, <1>2, <1>4 DEF IInv, SavedOK, InMain
    <2>4. hand \in crossed \/ hand \in Texts(file)
      BY <1>1, <1>2, <1>4 DEF IInv, SavedOK
    <2> QED BY <2>2, <2>3, <2>4
  <1> QED BY <1>3, <1>5, <1>6, <1>7 DEF IInv

\* Too old: if it is not the last, the highest id is still to come.
LEMMA SkipOldInv == ASSUME IInv, SkipOld, TypeOK' PROVE IInv'
  <1>1. /\ Taking /\ Head(buffer) \in Aged /\ buffer' = Tail(buffer)
        /\ outdated' = (outdated \/ Tail(buffer) = <<>>)
        /\ UNCHANGED <<file, hand, crossed, clashed, clean>>
    BY DEF SkipOld, Taking
  <1>2. /\ mode = "gb" /\ mainPc = "save" /\ hand = Nothing /\ buffer # <<>>
        /\ UNCHANGED <<mode, mainPc, pc, messageCount, j, sent, it, kept, flushed>>
        /\ Elements(buffer) = Elements(buffer') \cup {Head(buffer)}
        /\ IF buffer' = <<>> THEN Head(buffer) = buffer[Len(buffer)]
           ELSE buffer'[Len(buffer')] = buffer[Len(buffer)]
        /\ TasksOK' /\ SenderOK' /\ IdsOK' /\ WrittenOK' /\ (BufferFresh => BufferFresh')
    BY <1>1, TakingFacts
  <1>3. FreshOK'
    <2> SUFFICES ASSUME Fresh, FileFresh, buffer' # <<>> PROVE FileFresh'
      <3>1. Fresh' => Fresh /\ buffer' # <<>>
        BY <1>1 DEF Fresh, IInv, TypeOK
      <3> QED BY <1>2, <3>1 DEF IInv, FreshOK
    <2>1. \A c \in Chunk : Numbering(c)' <=> Numbering(c)
      BY <1>2 DEF Numbering
    <2>2. UpTo(file, buffer[Len(buffer)][2])' <=> UpTo(file, buffer[Len(buffer)][2])
      BY <1>1, <1>2 DEF UpTo
    <2> QED BY <1>1, <1>2, <2>1, <2>2, FileSame DEF FileFresh
  <1>4. LinesOK'
    <2>1. (Undisturbed' <=> Undisturbed) /\ (Ended(file)' <=> Ended(file)) /\ (LineBegun' <=> LineBegun)
      BY <1>1, <1>2 DEF Undisturbed, Ended, LineBegun
    <2> QED BY <1>1, <1>2, <2>1 DEF IInv, LinesOK
  <1>5. SavedOK'
    <2>1. Flushed' = Flushed
      BY <1>1, <1>2 DEF Flushed, Texts, Intact
    <2>2. InMain \subseteq InMain' \cup Aged
      <3>1. InMain = Elements(buffer) \cup {hand} /\ InMain' = Elements(buffer') \cup {hand}
        BY <1>1, <1>2 DEF InMain, Elements
      <3> QED BY <1>1, <1>2, <3>1
    <2> QED BY <1>1, <1>2, <2>1, <2>2 DEF IInv, SavedOK
  <1> QED BY <1>2, <1>3, <1>4, <1>5 DEF IInv

\* main ends: ofs is flushed and closed.
LEMMA CloseInv == ASSUME IInv, Close, TypeOK' PROVE IInv'
  <1>1. /\ UNCHANGED <<mode, pc, messageCount, j, buffer, sent, it, file, hand, kept, crossed, clashed,
                       clean, outdated>>
        /\ mainPc = "save" /\ hand = Nothing /\ buffer = <<>>
        /\ mainPc' = "end" /\ flushed' = Len(file)
    BY DEF Close, reception, sending
  <1>2. /\ mode = "gb" /\ file \in Seq(Entry) /\ kept \subseteq Pair /\ Nothing \notin Pair
    BY <1>1 DEF IInv, TypeOK, Nothing, Pair
  <1>3. TasksOK' /\ SenderOK' /\ IdsOK' /\ WrittenOK'
    BY <1>1, <1>2 DEF IInv, TasksOK, Numbering, SenderOK, IdsOK, WrittenOK
  <1>4. FreshOK'
    <2>1. Fresh' <=> Fresh
      BY <1>1 DEF Fresh
    <2>2. BufferFresh => BufferFresh'
      BY <1>1 DEF BufferFresh, Numbering
    <2>3. FileFresh => FileFresh'
      BY <1>1, <1>2, FileSame DEF FileFresh
    <2> QED BY <2>1, <2>2, <2>3 DEF IInv, FreshOK
  <1>5. LinesOK'
    <2>1. Len(file) <= Len(file)
      BY <1>2
    <2> QED BY <1>1, <2>1 DEF LinesOK, Undisturbed
  <1>6. SavedOK'
    <2> SUFFICES ASSUME ~clashed PROVE kept \subseteq Aged \cup crossed \cup Texts(file)
      <3>1. SubSeq(file, 1, Len(file)) = file
        BY <1>2
      <3>2. Flushed' = Texts(file)
        BY <1>1, <3>1 DEF Flushed, Texts, Intact
      <3> QED BY <1>1, <3>2 DEF SavedOK
    <2>1. flushed \in 0..Len(file) /\ (flushed = 0 \/ file[flushed] = NewLine)
      BY <1>1, <1>2 DEF IInv, LinesOK, Undisturbed, TypeOK
    <2>2. Flushed \subseteq Texts(file)
      BY <1>2, <2>1, CutTexts DEF Flushed
    <2>3. Elements(buffer) = {}
      BY <1>1 DEF Elements
    <2>4. kept \subseteq Aged \cup crossed \cup {Nothing} \cup Flushed
      BY <1>1, <1>2, <2>3 DEF IInv, SavedOK, InMain
    <2> QED BY <1>2, <2>2, <2>4
  <1> QED BY <1>3, <1>4, <1>5, <1>6 DEF IInv

\* After an orderly end nothing of the file is lost.
LEMMA RestartInv == ASSUME IInv, Restart, TypeOK' PROVE IInv'
  <1>1. /\ UNCHANGED <<mode, sent, it, outdated>> /\ mode = "gb"
        /\ mainPc' = "load" /\ pc' = Unstarted(mode) /\ buffer' = <<>>
        /\ clean' = (clean /\ mainPc = "end")
        /\ \E n \in flushed..Len(file) : /\ mainPc = "end" => n = Len(file)
                                         /\ file' = SubSeq(file, 1, n)
    BY DEF Restart, sending
  <1>2. \A c \in Chunk : pc'[c] = "none"
    BY <1>1, Tasks DEF Unstarted
  <1>3. TasksOK'
    <2>1. pc'[Sender] = "none"
      BY <1>1, Tasks DEF Unstarted
    <2> QED BY <1>1, <1>2, <2>1 DEF TasksOK, Numbering
  <1>4. SenderOK' /\ IdsOK' /\ WrittenOK' /\ LinesOK' /\ SavedOK'
    BY <1>1 DEF SenderOK, IdsOK, WrittenOK, LinesOK, Undisturbed, SavedOK
  <1>5. FreshOK'
    <2>1. 1..Len(buffer') = {} /\ \A c \in Chunk : ~Numbering(c)'
      BY <1>1, <1>2 DEF Numbering
    <2>2. ASSUME Fresh' PROVE Topmost(file')
      <3>1. clean /\ ~outdated /\ mainPc = "end" /\ clean \in BOOLEAN
        BY <1>1, <2>2 DEF Fresh, IInv, TypeOK
      <3>2. file \in Seq(Entry) /\ file' = SubSeq(file, 1, Len(file))
        BY <1>1, <3>1 DEF IInv, TypeOK
      <3>3. ASSUME NEW S, NEW s \in Seq(S) PROVE SubSeq(s, 1, Len(s)) = s
        OBVIOUS
      <3>4. file' = file
        BY <3>2, <3>3
      <3>5. Topmost(file)
        BY <1>1, <3>1 DEF IInv, FreshOK, Fresh, FileFresh
      <3> QED BY <3>4, <3>5
    <2>3. BufferFresh'
      BY <2>1 DEF BufferFresh
    <2>4. Topmost(file)' <=> Topmost(file')
      BY DEF Topmost, Intact
    <2> QED BY <1>1, <2>2, <2>3, <2>4 DEF FreshOK, FileFresh
  <1> QED BY <1>3, <1>4, <1>5 DEF IInv

-----------------------------------------------------------------------------
(* The theorems *)

LEMMA InvNext == IInv /\ [Next]_vars => IInv'
  <1> SUFFICES ASSUME IInv, [Next]_vars PROVE IInv'
    OBVIOUS
  <1>1. TypeOK'
    BY TypeStep
  <1>2. CASE UNCHANGED vars
    <2>1. UNCHANGED <<mode, mainPc, pc, messageCount, j, buffer, sent, it, disk>>
      BY <1>2 DEF vars, main, reception, sending
    <2>2. Alike /\ SenderOK'
      BY <2>1 DEF Alike, Numbering, IInv, SenderOK
    <2> QED BY <1>1, <2>1, <2>2, Quiet
  <1>3. ASSUME NEW p \in Producer, Recv(p) PROVE IInv'
    BY <1>1, <1>3, RecvInv
  <1>4. ASSUME NEW k \in Consumer, Register(k) \/ RegisterUnmatched(k) \/ Leave(k) PROVE IInv'
    BY <1>1, <1>4, ConsumerInv
  <1>5. ASSUME NEW c \in Chunk, ReceiveTask(c) PROVE IInv'
    BY <1>1, <1>5, TakeIdInv, TaskQuiet, PushInv, WriteInv DEF ReceiveTask
  <1>6. CASE MySend \/ SendUnblocks \/ WakeClients \/ WakeUp
    <2>1. CASE Take
      BY <1>1, <2>1, TakeInv
    <2>2. CASE SendIt \/ SendUnblocks
      BY <1>1, <2>2, SendInv DEF SendIt, SendUnblocks
    <2> QED BY <1>1, <1>6, <2>1, <2>2, SenderQuiet
  <1>7. CASE Main
    BY <1>1, <1>7, LoadInv, OpenInv, AcceptFailsInv, SaveTextInv, SaveNewLineInv, SkipOldInv, CloseInv,
       RestartInv DEF Main
  <1> QED BY <1>2, <1>3, <1>4, <1>5, <1>6, <1>7 DEF Next

LEMMA Invariant == Spec => []IInv
  BY InvInit, InvNext, PTL DEF Spec

\* ConsecutiveIds: messageIdmtx, held until the push to buffer is done
\* (handleReceiveInt), and the one task that takes from buffer (mySend) number
\* and send the messages without a gap, however many receive tasks there are.
THEOREM NumberedWithoutGap == Spec => []ConsecutiveIds
  <1>1. IInv => ConsecutiveIds
    <2> SUFFICES ASSUME IInv, mode = "jq",
                        NEW i \in DOMAIN (sent \o InHand \o buffer)
                 PROVE  (sent \o InHand \o buffer)[i][2] = i - 1
      BY DEF ConsecutiveIds
    <2> DEFINE first == sent \o InHand
    <2>1. /\ sent \in Seq(Pair) /\ buffer \in Seq(Pair) /\ j[Sender] \in Pair \cup {Nothing}
      BY Tasks DEF IInv, TypeOK
    <2>2. /\ InHand \in Seq(Pair) /\ Len(InHand) = Held
          /\ \A k \in 1..Held : InHand[k] = j[Sender] /\ k = 1 /\ j[Sender] # Nothing
      <3>1. CASE j[Sender] = Nothing
        BY <3>1 DEF InHand, Held
      <3>2. CASE j[Sender] # Nothing
        BY <2>1, <3>2 DEF InHand, Held
      <3> QED BY <3>1, <3>2
    <2>3. /\ first \in Seq(Pair) /\ Len(first) = Len(sent) + Held
          /\ \A k \in 1..Len(sent) + Held : first[k] = IF k <= Len(sent) THEN sent[k] ELSE InHand[k - Len(sent)]
      BY <2>1, <2>2, ConcatProperties
    <2>4. Len(sent) \in Nat /\ Len(buffer) \in Nat /\ Held \in Nat
      BY <2>1 DEF Held
    <2>5. /\ \A k \in 1..Len(sent) : sent[k][2] = k - 1
          /\ j[Sender] # Nothing => j[Sender][2] = Len(sent)
          /\ \A k \in 1..Len(buffer) : buffer[k][2] = Len(sent) + Held + k - 1
      BY DEF IInv, IdsOK
    <2>6. \A k \in 1..Len(first) : first[k][2] = k - 1
      <3> SUFFICES ASSUME NEW k \in 1..Len(first) PROVE first[k][2] = k - 1
        OBVIOUS
      <3> HIDE DEF first
      <3>1. k \in 1..Len(sent) + Held /\ k \in Nat
        BY <2>3, <2>4
      <3>2. CASE k <= Len(sent)
        <4>1. k \in 1..Len(sent)
          BY <2>4, <3>1, <3>2
        <4> QED BY <2>3, <2>5, <3>1, <3>2, <4>1
      <3>3. CASE ~(k <= Len(sent))
        <4>1. k - Len(sent) \in 1..Held
          BY <2>4, <3>1, <3>3
        <4>2. first[k] = j[Sender] /\ k - Len(sent) = 1 /\ j[Sender] # Nothing
          BY <2>2, <2>3, <3>1, <3>3, <4>1
        <4>3. k - 1 = Len(sent)
          BY <2>4, <3>1, <4>2, SMTT(30)
        <4> QED BY <2>5, <4>2, <4>3
      <3> QED BY <3>2, <3>3
    <2> HIDE DEF first
    <2>7. /\ first \o buffer \in Seq(Pair) /\ Len(first \o buffer) = Len(first) + Len(buffer)
          /\ \A k \in 1..Len(first) + Len(buffer) :
                (first \o buffer)[k] = IF k <= Len(first) THEN first[k] ELSE buffer[k - Len(first)]
      BY <2>1, <2>3, ConcatProperties
    <2>8. i \in 1..Len(first) + Len(buffer) /\ i \in Nat
      BY <2>7 DEF first
    <2>9. (first \o buffer)[i][2] = i - 1
      <3>1. CASE i <= Len(first)
        <4>1. i \in 1..Len(first)
          BY <2>3, <2>4, <2>8, <3>1
        <4> QED BY <2>6, <2>7, <2>8, <3>1, <4>1
      <3>2. CASE ~(i <= Len(first))
        <4>1. /\ i - Len(first) \in 1..Len(buffer)
              /\ Len(sent) + Held + (i - Len(first)) - 1 = i - 1
          BY <2>3, <2>4, <2>8, <3>2
        <4> QED BY <2>5, <2>7, <2>8, <3>2, <4>1
      <3> QED BY <3>1, <3>2
    <2> QED BY <2>9 DEF first
  <1> QED BY <1>1, Invariant, PTL

\* SavedAtEnd: from the moment accept has failed, whatever the receive tasks still
\* push and write, a message that buffer held then is in buffer or in main's hand, or
\* in a line of gb.txt that is flushed and can be parsed - so that a crash loses
\* none of it -, and at the end all are in such lines (main's last loop, without a
\* lock on ofs).  Excused are those too old, those whose line crossed that of a
\* receive task, and the rest of a life in which two threads inserted at once.
THEOREM StoredBack == Spec => []SavedAtEnd
  <1>1. IInv => SavedAtEnd
    <2> SUFFICES ASSUME IInv, mode = "gb", mainPc \in {"save", "end"}, ~clashed
                 PROVE  kept \ (Aged \cup crossed) \subseteq ToStore \cup OnDisk
      BY DEF SavedAtEnd
    <2>1. kept \subseteq Aged \cup crossed \cup InMain \cup Flushed
      BY DEF IInv, SavedOK
    <2>2. InMain = ToStore
      BY DEF InMain, ToStore, Range, Elements, IInv, TypeOK
    <2>3. OnDisk = Flushed
      <3>1. flushed \in 0..Len(file) /\ file \in Seq(Entry)
        BY DEF IInv, TypeOK, LinesOK, Undisturbed
      <3>2. SubSeq(file, 1, flushed) \in Seq(Entry)
        BY <3>1, RestOfSequence
      <3>3. /\ Parsed(SubSeq(file, 1, flushed)) \in Seq(Pair)
            /\ Elements(Parsed(SubSeq(file, 1, flushed))) = Flushed
        BY <3>2, ParsedTexts DEF Flushed
      <3> QED BY <3>3 DEF OnDisk, Range, Elements
    <2> QED BY <2>1, <2>2, <2>3
  <1> QED BY <1>1, Invariant, PTL

\* IdsFresh: the counter that main sets from the last line of gb.txt and
\* handleReceiveInt counts on is above every id there is.
THEOREM GivenOnce == Spec => IdsFresh
  <1>1. IInv /\ [Next]_vars =>
          [clean /\ ~outdated /\ mainPc # "load" /\ Len(buffer') > Len(buffer) =>
             \A i \in DOMAIN buffer : buffer[i][2] < Last(buffer')[2]]_vars
    <2> SUFFICES ASSUME IInv, [Next]_vars, clean, ~outdated, mainPc # "load",
                        Len(buffer') > Len(buffer), NEW i \in DOMAIN buffer
                 PROVE  buffer[i][2] < Last(buffer')[2]
      OBVIOUS
    <2>1. buffer \in Seq(Pair) /\ Len(buffer) \in Nat /\ i \in 1..Len(buffer)
      BY DEF IInv, TypeOK
    <2>2. ~(Len(buffer) > Len(buffer)) /\ ~(0 > Len(buffer))
      BY <2>1
    <2>3. \E c \in Chunk : Push(c)
      <3>1. buffer' # buffer
        BY <2>2
      <3>2. buffer # <<>> => ~(Len(Tail(buffer)) > Len(buffer))
        BY <2>1
      <3>3. buffer' # Tail(buffer)
        BY <2>1, <3>2
      <3>4. buffer' # <<>>
        <4>1. Len(<<>>) = 0
          OBVIOUS
        <4> QED BY <2>2, <4>1
      <3>5. ASSUME NEW p \in Producer, Recv(p) PROVE FALSE
        <4>1. UNCHANGED buffer
          BY <3>5, Zenon DEF Recv
        <4> QED BY <3>1, <4>1
      <3>6. ~(\E k \in Consumer : Register(k) \/ RegisterUnmatched(k) \/ Leave(k))
        BY <3>1 DEF Register, RegisterUnmatched, Leave
      <3>7. ASSUME NEW c \in Chunk, ReceiveTask(c) PROVE Push(c)
        BY <3>1, <3>7 DEF ReceiveTask, TakeId, LockMtx, Write, WriteNewLine, Writes, Done, reception
      <3>8. ~(MySend \/ SendUnblocks \/ WakeClients \/ WakeUp)
        BY <3>1, <3>3 DEF MySend, TestClients, WaitClients, WakeClients, Woken, SetIterator, TestBuffer,
                          Relock, Predicate, WakeUp, Only, SenderGoes, Take, SendIt, SendFrom,
                          SendBlocks, SendUnblocks, Skip, Stray
      <3>9. ~Main
        BY <3>1, <3>3, <3>4 DEF Main, Load, Open, AcceptFails, Taking, SaveText, EndsLine, SaveNewLine,
                                SkipOld, Close, Restart
      <3>10. Next
        BY <3>1 DEF vars
      <3> QED BY <3>5, <3>6, <3>7, <3>8, <3>9, <3>10 DEF Next
    <2>4. PICK c \in Chunk : Push(c)
      BY <2>3
    <2>5. Numbering(c) /\ buffer' = Append(buffer, j[c])
      BY <2>4 DEF Push, Numbering
    <2>6. j[c] \in Pair /\ j[c][2] = messageCount /\ buffer[i][2] < messageCount
      BY <2>1, <2>5 DEF IInv, TasksOK, FreshOK, BufferFresh, Fresh
    <2>7. Last(buffer') = j[c]
      BY <2>1, <2>5, <2>6, Pushed DEF Last
    <2> QED BY <2>6, <2>7
  <1> QED BY <1>1, Invariant, PTL DEF Spec, IdsFresh

=============================================================================
