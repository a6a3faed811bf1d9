------------------------------- MODULE MCList -------------------------------
(* A small instance of List for TLC: a producer of two messages with one   *)
(* tag, a consumer of that tag and one of another, a file with one message.  *)
EXTENDS List

CONSTANTS p, k1, k2, c1, c2, m1, m2, m0, t1, t2

OneProducer == {p}
TwoConsumers == {k1, k2}
TwoChunks == {c1, c2}
Messages == {m0, m1, m2}
Tags == [x \in Messages \cup TwoConsumers |-> IF x = k2 THEN t2 ELSE t1]
Lines == [x \in OneProducer |-> <<m1, m2>>]
InTheFile == <<<<m0, 1>>>>
OldOnes == {<<m0, 1>>}

\* What the properties can still depend on: nothing after a fault, nor on what a
\* task has written or will pass over.  In mode "gb", not on the consumers either;
\* on ids only while IdsFresh speaks of what follows (each message has one id); of
\* the histories, on the messages that must be stored; in the last life on no more
\* of the file than will be read (what is flushed ends with a newline), and on
\* nothing once no property can come to fail.
Fresh == clean /\ ~outdated
Seen(x) == IF Fresh \/ x \in {Nothing, NewLine} THEN x ELSE x[1]
SeenAll(s) == [i \in DOMAIN s |-> Seen(s[i])]
Passed(c) == pc[c] = "line" /\ (lines[c] = <<>> \/ Head(lines[c]) = Broken)
TaskView(c) == IF Passed(c) THEN <<"done">>
               ELSE <<pc[c], lines[c],
                      IF pc[c] \in {"lock", "lock2", "write"} THEN Seen(j[c]) ELSE Nothing>>

Due == {Seen(x) : x \in kept \ (Aged \cup crossed)}
Stored(n) == {Seen(x) : x \in Range(Parsed(SubSeq(file, 1, n)))}
LastLine == CHOOSE n \in 0..Len(file) : /\ n = 0 \/ file[n] = NewLine
                                        /\ \A i \in n + 1..Len(file) : file[i] # NewLine
LastFile == CASE mainPc = "load" -> SeenAll(Parsed(file))
              [] mainPc = "open" -> <<>>
              [] mainPc = "end" -> <<SavedAtEnd>>
              [] OTHER -> <<Due, Stored(flushed), Stored(LastLine),
                            SeenAll(SubSeq(file, LastLine + 1, Len(file)))>>

LastLife == lives = MaxLives
Over == \/ crashed
        \/ mode = "gb" /\ LastLife /\ (clashed \/ (mainPc = "end" /\ ~Fresh))
ListView ==
    CASE Over -> <<"over", mode, crashed, SavedAtEnd>>
      [] ~Over /\ mode = "jq" ->
           <<mainPc, pc, stream, [c \in Chunk |-> TaskView(c)], messageCount, j[Sender], buffer, sending, file>>
      [] OTHER ->
           <<mainPc, lives, stream, [t \in Producer |-> pc[t]], [c \in Chunk |-> TaskView(c)],
             IF Fresh THEN messageCount ELSE -1, SeenAll(buffer),
             IF LastLife THEN LastFile
             ELSE <<Due, SeenAll(file), IF mainPc \in {"load", "open"} THEN 0 ELSE flushed>>,
             Seen(hand), clashed, Fresh>>
=============================================================================
