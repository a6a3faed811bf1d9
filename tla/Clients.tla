------------------------------ MODULE Clients ------------------------------
(***************************************************************************)
(* The programs at the two ends: Producer.cpp, whose thread makes random   *)
(* numbers and whose sender takes them from a queue between them, and      *)
(* Consumer.cpp, which starts a detached thread for every line it receives *)
(* and collects in result.txt which numbers are prime.  Of the broker      *)
(* between them only this is kept: it hands on what was sent, each line    *)
(* once, in order, and the older one may refuse the consumer.              *)
(*                                                                         *)
(* The sender takes whenever cnt > 0, even from an empty queue.  That is   *)
(* undefined; in libstdc++ the front of the deque passes its end (surplus),*)
(* the value is whatever is in memory, and the next push only catches up.  *)
(* The threads of the consumer share outfile without a lock: their writes  *)
(* mix in any order, and of two at the same moment one may be lost.        *)
(***************************************************************************)
EXTENDS Integers, SequencesExt, Framing

CONSTANTS Number,      \* what the random generator may return
          Memory,      \* what an int that was never written may hold
          Error,       \* a line that begins with "error"
          NewLine,
          N,           \* cnt at the start
          IntMax,      \* the largest int
          BufferSize,  \* the most that one recv returns, which fills recvbuffer
          MaxSurplus   \* bound of the model: how far the front may pass the end

ASSUME ClientsAssumption == /\ N \in Nat \ {0} /\ IntMax \in Nat /\ IntMax >= 9
                            /\ BufferSize \in Nat \ {0}
                            /\ Number \cup Memory \subseteq -(IntMax + 1)..IntMax
                            /\ Error \notin Number \cup Memory

VARIABLES ppc, cnt, made,              \* the thread that produces; everything it pushed
          spc, taken, value, surplus,  \* the sender; how many it took; did it take too many
          sent, relayed,               \* the lines sent, and how many the broker has handed on
          cpc, inbox, recvs,           \* the consumer's main thread and its socket
          jobs, result,                \* its handleReceive threads; result.txt
          clashed                      \* have two of them written at the same moment

producer == <<ppc, cnt, made>>
sender == <<spc, taken, value, surplus, sent>>
consumer == <<cpc, inbox, recvs, jobs, result, clashed>>
vars == <<producer, sender, relayed, consumer>>

\* What the older broker says, without a newline, to a consumer of another mode
\* before it closes the connection (List.cpp:180)
Refusal == <<[text |-> Error, part |-> "head"]>>
Refused == \E i \in DOMAIN (recvs \o inbox) : (recvs \o inbox)[i].text = Error

Init == /\ ppc = "push" /\ cnt = N /\ made = <<>>
        /\ spc = "connect" /\ taken = 0 /\ value = 0 /\ surplus = FALSE
        /\ sent = <<>> /\ relayed = 0
        /\ cpc = "select" /\ inbox \in {<<>>, Refusal} /\ recvs = <<>>
        /\ jobs = <<>> /\ result = <<>> /\ clashed = FALSE
-----------------------------------------------------------------------------
(* Producer.cpp; its process ends with the sender, whatever the other does *)

Running == spc \notin {"done", "failed"}

Push == /\ Running /\ ppc = "push"
        /\ \E x \in Number : made' = Append(made, x)
        /\ ppc' = "count"
        /\ UNCHANGED <<cnt, sender, relayed, consumer>>

CountDown == /\ Running /\ ppc = "count"
             /\ cnt' = cnt - 1
             /\ ppc' = IF cnt' > 0 THEN "push" ELSE "done"
             /\ UNCHANGED <<made, sender, relayed, consumer>>

\* A refused connection, an error of send, and a fault end the process.
Connect == spc = "connect" /\ spc' \in {"cnt", "failed"} /\ UNCHANGED <<taken, value, surplus, sent>>

\* Mutant: the last number is given up while it is on its way
TestCnt_Last == /\ spc = "cnt"
                /\ spc' = IF cnt > 1 THEN "take" ELSE "empty"
                /\ UNCHANGED <<taken, value, surplus, sent>>

TestCnt == /\ spc = "cnt"
           /\ spc' = IF cnt > 0 THEN "take" ELSE "empty"
           /\ UNCHANGED <<taken, value, surplus, sent>>

TestEmpty == /\ spc = "empty"
             /\ spc' = IF taken = Len(made) THEN "done" ELSE "take"
             /\ UNCHANGED <<taken, value, surplus, sent>>

deQueue == /\ spc = "take" /\ taken < Len(made)
           /\ value' = made[taken + 1] /\ taken' = taken + 1
           /\ spc' = "send"
           /\ UNCHANGED <<surplus, sent>>

deQueueNothing == /\ spc = "take" /\ taken >= Len(made)
                  /\ surplus' = TRUE
                  /\ \/ /\ taken < Len(made) + MaxSurplus
                        /\ value' \in Memory /\ taken' = taken + 1 /\ spc' = "send"
                     \/ spc' = "failed" /\ UNCHANGED <<value, taken>>
                  /\ UNCHANGED sent

Send == /\ spc = "send"
        /\ \/ sent' = Append(sent, value) /\ spc' = "cnt"
           \/ sent' = sent /\ spc' = "failed"
        /\ value' = 0      \* out of scope
        /\ UNCHANGED <<taken, surplus>>

Sender == /\ Connect \/ TestCnt \/ TestEmpty \/ deQueue \/ deQueueNothing \/ Send
          /\ UNCHANGED <<producer, relayed, consumer>>
-----------------------------------------------------------------------------
(* The broker *)

Gone == cpc \in {"ended", "faulted"}     \* the consumer's process

Relay == /\ relayed < Len(sent) /\ ~Gone /\ ~Refused
         /\ relayed' = relayed + 1
         /\ inbox' = inbox \o Split(sent[relayed'])
         /\ UNCHANGED <<producer, sender, cpc, recvs, jobs, result, clashed>>
-----------------------------------------------------------------------------
(* Consumer.cpp *)

Odd == {i \in 3..IntMax : i % 2 = 1 /\ i * i <= IntMax}     \* whose square is an int
Edge == CHOOSE q \in {i * i : i \in Odd} : \A i \in Odd : i * i <= q

\* The answers of IsPrime: from Edge on the loop that finds no divisor goes on
\* to an i whose square overflows.
IsPrime(x) == IF x < 2 \/ (x # 2 /\ x % 2 = 0) \/ \E i \in Odd : i * i <= x /\ x % i = 0
                THEN {FALSE}
                ELSE IF x >= Edge THEN BOOLEAN ELSE {TRUE}

\* The '\0' behind what was received is written past the end of a full recvbuffer.
Receive == /\ cpc = "select"
           /\ \E n \in 1..BufferSize : /\ n <= Len(inbox)
                                       /\ recvs' = recvs \o SubSeq(inbox, 1, n)
                                       /\ inbox' = SubSeq(inbox, n + 1, Len(inbox))
                                       /\ cpc' = "lines" \/ (n = BufferSize /\ cpc' = "faulted")
           /\ UNCHANGED <<jobs, result, clashed>>

\* The three writes of a handleReceive thread: the number, the flag and endl
Value == 1
Flag == 2
Endl == 3
Done == 4

AtWork == {n \in DOMAIN jobs : jobs[n].next # Done}

\* An error line would cost a second and nothing else; no broker ends one.
\* (beside is a history: the threads that were at work when this one began.)
TakeLine == /\ cpc = "lines" /\ HasLine(recvs)
            /\ LET line == FirstLine(recvs)
               IN jobs' = IF line[1].text = Error THEN jobs
                          ELSE Append(jobs, [num |-> line[1].text, next |-> Value, beside |-> AtWork])
            /\ recvs' = AfterLine(recvs)
            /\ UNCHANGED <<cpc, inbox, result, clashed>>

LinesDone == /\ cpc = "lines" /\ ~HasLine(recvs)
             /\ cpc' = "select"
             /\ UNCHANGED <<inbox, recvs, jobs, result, clashed>>

\* recv returns 0 or an error, or select fails; main closes the file, and the
\* process ends with whatever threads it has.
RecvEnd == /\ cpc = "select"
           /\ cpc' = "ended"
           /\ UNCHANGED <<inbox, recvs, jobs, result, clashed>>

\* Another thread has a write to make, too, and makes it at the same moment: this
\* one's is lost.
Clash(n) == /\ AtWork \ {n} # {}
            /\ clashed' = TRUE
            /\ UNCHANGED result

Write(n, x) == /\ ~Gone
               /\ jobs' = [jobs EXCEPT ![n].next = @ + 1]
               /\ \/ /\ result' = Append(result, [by |-> n, part |-> jobs[n].next, text |-> x])
                     /\ UNCHANGED clashed
                  \/ Clash(n)
               /\ UNCHANGED <<cpc, inbox, recvs>>

\* Mutant: the line is passed by reference, and the main thread goes on to the next.
handleReceive_ByReference(n) ==
  LET line == jobs[Len(jobs)].num
  IN  \/ jobs[n].next = Value /\ Write(n, line)
      \/ jobs[n].next = Flag /\ \E prime \in IsPrime(line) : Write(n, IF prime THEN 1 ELSE 0)
      \/ jobs[n].next = Endl /\ Write(n, NewLine)

handleReceive(n) ==
  \/ jobs[n].next = Value /\ Write(n, jobs[n].num)
  \/ jobs[n].next = Flag /\ \E prime \in IsPrime(jobs[n].num) : Write(n, IF prime THEN 1 ELSE 0)
  \/ jobs[n].next = Endl /\ Write(n, NewLine)

Main == (Receive \/ TakeLine \/ LinesDone) /\ UNCHANGED <<producer, sender, relayed>>
Thread(n) == n \in DOMAIN jobs /\ handleReceive(n) /\ UNCHANGED <<producer, sender, relayed>>
End == RecvEnd /\ UNCHANGED <<producer, sender, relayed>>

Next == Push \/ CountDown \/ Sender \/ Relay \/ Main \/ End \/ \E n \in 1..N + MaxSurplus : Thread(n)

Spec == /\ Init /\ [][Next]_vars
        /\ WF_vars(Relay) /\ WF_vars(Main) /\ \A n \in 1..N + MaxSurplus : WF_vars(Thread(n))
-----------------------------------------------------------------------------
(* Properties *)

\* What the sender sends is what was produced, in order, unless it took from
\* the empty queue; and when it ends normally it has sent N lines even then,
\* because every value from nowhere made it skip a real one (Producer.cpp:102).
SentAsMade == /\ surplus \/ IsPrefix(sent, made)
              /\ spc = "done" => Len(sent) = N

Prime(x) == x > 1 /\ \A d \in 2..x - 1 : x % d # 0

\* What a thread has written is its line's number, whether that is prime - but for
\* the primes from the largest odd square on, of which it may say no
\* (Consumer.cpp:146) - and the end of the line.
Right(w) == CASE w.part = Value -> w.text = sent[w.by]
              [] w.part = Flag -> \/ w.text = IF Prime(sent[w.by]) THEN 1 ELSE 0
                                  \/ w.text = 0 /\ sent[w.by] >= Edge
              [] w.part = Endl -> w.text = NewLine

\* A thread writes in order, and what belongs to a later line comes first only if
\* the earlier line's thread was still at work when the later one's began.
InOrder(w, v) == \/ w.by < v.by \/ v.by \in jobs[w.by].beside
                 \/ w.by = v.by /\ w.part < v.part

Written(n, p) == \E i \in DOMAIN result : result[i].by = n /\ result[i].part = p

\* However the threads overlap, result.txt holds all that a finished thread had to
\* say, once, and it is right, in that order - unless two wrote at the same moment.
ResultAsSent == clashed \/ /\ \A i \in DOMAIN result : Right(result[i])
                           /\ \A i, k \in DOMAIN result : i < k => InOrder(result[i], result[k])
                           /\ \A n \in DOMAIN jobs \ AtWork : \A p \in Value..Endl : Written(n, p)

\* However recv cuts the stream, every line sent is judged in the end and
\* written, unless the consumer is refused, its connection ends, the byte past
\* recvbuffer brings it down, or two threads wrote at the same moment.
EachJudged == \A n \in 1..N + MaxSurplus :
                (Len(sent) >= n) ~> (Written(n, Endl) \/ Gone \/ Refused \/ clashed)
=============================================================================
