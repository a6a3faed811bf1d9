-------------------------------- MODULE List --------------------------------
(***************************************************************************)
(* List.cpp, the older broker: one program with two modes.  A pool of      *)
(* 50 threads runs a task for every connection (handle) and one for every  *)
(* buffer that a producer's connection returns (handleReceiveInt); no      *)
(* instance has more, so that a task begins when it is enqueued.           *)
(*                                                                         *)
(* In mode "jq" one more task, mySend, takes the messages from buffer and  *)
(* sends each to the next consumer of its tag.  It is modelled at the      *)
(* granularity of the locks, as enQueue_back is: mySend calls Empty()      *)
(* (mtx) while it holds mtx2, enQueue_back takes mtx and then mtx2.  Two   *)
(* of its waits have no predicate.                                         *)
(*                                                                         *)
(* In mode "gb" the messages stay in buffer; they are read from gb.txt at  *)
(* the start, the file is emptied, receive tasks append to it as messages  *)
(* come, and main appends the whole buffer when accept has failed.  All    *)
(* share ofs without a lock: insertions mix in any order, and of two at    *)
(* the same moment one may be lost.  The loop that serves a "gb" consumer  *)
(* is left out: it runs past the end of theList at the first message that  *)
(* is not there yet, which is undefined.                                   *)
(***************************************************************************)
EXTENDS Integers, FiniteSets, SequencesExt

CONSTANTS Producer, Consumer, Message, Chunk,
          Sender,       \* the task mySend
          TagOf,        \* a message's tag, and the tag a consumer requires
          Stream,       \* what each producer sends, a line per message
          Broken,       \* a line that is not JSON: half of one that recv has cut
          Nowhere, End, \* the iterator before it is set, and theList.end()
          Loaded,       \* the messages in gb.txt at the first start
          Aged,         \* those that may be twelve hours old when the server ends
          NewLine,
          BufferSize,   \* the lines that one recv returns at most, which fill recvbuffer
          MaxLives      \* bound of the model: starts of the program

\* gb.txt at the first start is as an orderly end leaves it: no id in it is above
\* that of its last line.
ASSUME ListAssumption == /\ Sender \notin Producer \cup Consumer \cup Chunk
                         /\ Producer \cap Consumer = {} /\ Producer \cap Chunk = {}
                         /\ Consumer \cap Chunk = {}
                         /\ Nowhere \notin Consumer \cup {End}
                         /\ Broken \notin Message /\ NewLine \notin Message \X Nat
                         /\ Stream \in [Producer -> Seq(Message)] /\ BufferSize \in Nat
                         /\ Loaded \in Seq(Message \X Nat)
                         /\ \A i \in DOMAIN Loaded : Loaded[i][2] <= Loaded[Len(Loaded)][2]

VARIABLES mode, mainPc, crashed, lives,
          pc,           \* the tasks of the pool
          stream,       \* what each connected producer has yet to be read from
          lines,        \* the lines each receive task has yet to handle
          j,            \* the message each task has in its hand, with its id
          messageCount, buffer,
          theClients,   \* clientAndTopic.theList: who registered
          it,           \* mySend's iterator: a node of theClients, End, or a node erased since
          sent,         \* what send has been given
          file, flushed,  \* gb.txt as written, and how much of it is on the disk for certain
          hand,           \* the message of which main has written the text and not the newline
          \* Histories: what buffer held when accept failed, and those of it whose storing
          \* crossed that of a receive task's line; were two insertions made at once
          kept, crossed, clashed,
          clean,          \* no crash, and no line of main's and a receive task's mixed
          outdated        \* even the newest message was too old to be stored back

main == <<mode, mainPc, crashed, lives>>
reception == <<stream, lines, messageCount>>
sending == <<theClients, it, sent>>
disk == <<file, flushed, hand, kept, crossed, clashed, clean, outdated>>
vars == <<main, pc, reception, j, buffer, sending, disk>>

Task == Producer \cup Consumer \cup Chunk \cup {Sender}
Nothing == <<>>

Unstarted(how) == [t \in Task |-> IF t = Sender /\ how = "jq" THEN "clients" ELSE "none"]

Init == /\ mode \in {"jq", "gb"}
        /\ mainPc = IF mode = "jq" THEN "accept" ELSE "load"
        /\ crashed = FALSE /\ lives = 1
        /\ pc = Unstarted(mode)
        /\ stream = Stream /\ lines = [c \in Chunk |-> <<>>] /\ j = [t \in Task |-> Nothing]
        /\ messageCount = -1 /\ buffer = <<>>
        /\ theClients = <<>> /\ it = Nowhere /\ sent = <<>>
        /\ file = [i \in 1..2 * Len(Loaded) |-> IF i % 2 = 1 THEN Loaded[(i + 1) \div 2] ELSE NewLine]
        /\ flushed = 0 /\ hand = Nothing /\ kept = {} /\ crossed = {}
        /\ clashed = FALSE /\ clean = TRUE /\ outdated = FALSE

Goto(t, here, there) == pc[t] = here /\ pc' = [pc EXCEPT ![t] = there]

\* What the tasks hold, by where they are
MtxFree == \A c \in Chunk : pc[c] # "lock2"          \* buffer.mtx
Mtx2Free == pc[Sender] # "predicate"                 \* buffer.mtx2

\* Mutant: the id is taken without messageIdmtx.
IdMtxFree_Always == TRUE

IdMtxFree == \A c \in Chunk : pc[c] \notin {"lock", "lock2"}   \* messageIdmtx

-----------------------------------------------------------------------------
(* handle(clientSocket, buffer): a connection *)

\* recv returns n lines of what p has sent, and perhaps half of the next one, or
\* all of the last one but its newline: of both the rest is a line that does not
\* parse.  (A line is cut once at most.)  The '\0' behind what was received is
\* written past the end of a full recvbuffer.  Every buffer that recv returns is a
\* task of its own.  (A producer's connection that ends, or is closed after ten
\* silent seconds, is one that is read no more.)
Recv(p) == \E n \in 0..Len(stream[p]), cut \in {"between", "inside", "before newline"} :
    LET rest == SubSeq(stream[p], n + 1, Len(stream[p]))
        half == IF cut = "inside" THEN <<Broken>> ELSE <<>>
        text == SubSeq(stream[p], 1, n) \o half
        c == CHOOSE c \in Chunk : pc[c] = "none"
    IN  /\ mainPc \notin {"load", "open"} /\ pc[p] \in {"none", "produce"}
        /\ text # <<>> /\ Len(text) <= BufferSize
        /\ cut = "inside" => rest # <<>> /\ Head(rest) # Broken
        /\ cut = "before newline" => n > 0 /\ stream[p][n] # Broken
        /\ stream' = [stream EXCEPT ![p] = CASE cut = "between" -> rest
                                             [] cut = "inside" -> <<Broken>> \o Tail(rest)
                                             [] cut = "before newline" -> <<Broken>> \o rest]
        /\ \/ /\ pc[p] = "none" /\ Head(text) = Broken    \* parse throws: the task is over
              /\ pc' = [pc EXCEPT ![p] = "done"] /\ UNCHANGED lines
           \/ /\ pc[p] = "none" => Head(text) # Broken
              /\ \E d \in Chunk : pc[d] = "none"
              /\ pc' = [pc EXCEPT ![p] = "produce", ![c] = "line"]
              /\ lines' = [lines EXCEPT ![c] = text]
        /\ crashed' \in {FALSE, Len(text) = BufferSize}
        /\ UNCHANGED <<mode, mainPc, lives, messageCount, j, buffer, sending, disk>>

\* Where a push to clientAndTopic takes mySend
NotifyRegistered == IF pc[Sender] = "clientsAsleep" THEN "woken" ELSE pc[Sender]

\* clientAndTopic.enQueue_back, which nobody can hold up, and its notify_all
Register(k) == /\ mode = "jq" /\ pc[k] = "none"
               /\ theClients' = Append(theClients, k)
               /\ pc' = [pc EXCEPT ![k] = "consume", ![Sender] = NotifyRegistered]
               /\ UNCHANGED <<main, reception, j, buffer, it, sent, disk>>

\* The consumer asks for the other mode: an error, and the connection is closed.
RegisterUnmatched(k) == /\ Goto(k, "none", "done")
                        /\ UNCHANGED <<main, reception, j, buffer, sending, disk>>

\* recv says that the consumer has left.  The loop increments the iterator it
\* has just erased, and mySend's may stand on the node.
Leave(k) == /\ Goto(k, "consume", "done")
            /\ \E i \in DOMAIN theClients : /\ theClients[i] = k
                                            /\ theClients' = RemoveAt(theClients, i)
            /\ crashed' \in BOOLEAN
            /\ UNCHANGED <<mode, mainPc, lives, reception, j, buffer, it, sent, disk>>

-----------------------------------------------------------------------------
(* handleReceiveInt(buffer, s): one buffer of a producer *)

\* messageIdmtx is taken: the id
TakeId(c) == /\ lines[c] # <<>> /\ Head(lines[c]) # Broken
             /\ IdMtxFree
             /\ Goto(c, "line", "lock")
             /\ messageCount' = messageCount + 1
             /\ j' = [j EXCEPT ![c] = <<Head(lines[c]), messageCount + 1>>]
             /\ lines' = [lines EXCEPT ![c] = Tail(@)]
             /\ UNCHANGED <<main, stream, buffer, sending, disk>>

\* enQueue_back: mtx, then mtx2
LockMtx(c) == /\ MtxFree /\ Goto(c, "lock", "lock2")
              /\ UNCHANGED <<main, reception, j, buffer, sending, disk>>


\* Where the notify_all of a push to buffer takes mySend
NotifyPushed == IF pc[Sender] = "asleep" THEN "relock" ELSE pc[Sender]

\* mtx2 is taken: push_back, notify_all, and all three mutexes are released.
Push(c) == /\ Mtx2Free /\ pc[c] = "lock2"
           /\ buffer' = Append(buffer, j[c])
           /\ pc' = [pc EXCEPT ![c] = IF mode = "gb" THEN "write" ELSE "line",
                                ![Sender] = NotifyPushed]
           /\ UNCHANGED <<main, reception, j, sending, disk>>

\* ofs << x, with no lock: it may be lost if another thread inserts at the same
\* moment (bound of the model: one is lost in a life, for no property says anything
\* of what follows in it).
Insert(x, another) == \/ file' = Append(file, x) /\ UNCHANGED clashed
                      \/ another /\ ~clashed /\ clashed' = TRUE /\ UNCHANGED file

\* ofs << j.dump() and << "\n".  (In mode "jq" they go to jq.txt, which nothing
\* reads.)  A file that main has closed takes nothing.
Writing(c) == pc[c] \in {"write", "newline"}
Writes(c, x) == /\ IF mainPc = "end" THEN UNCHANGED <<file, clashed>>
                   ELSE Insert(x, mainPc = "save" \/ \E d \in Chunk \ {c} : Writing(d))
                /\ clean' = (clean /\ mainPc # "save" /\ ~clashed')
                /\ UNCHANGED <<main, reception, j, buffer, sending, flushed, hand, kept, outdated>>
Write(c) == /\ Goto(c, "write", "newline") /\ Writes(c, j[c])
            /\ crossed' = crossed \cup ({hand} \ {Nothing})
WriteNewLine(c) == Goto(c, "newline", "line") /\ Writes(c, NewLine) /\ UNCHANGED crossed

\* The lines are handled, or one that is not JSON throws (or says "end"): the
\* rest is lost.
Done(c) == /\ lines[c] # <<>> => Head(lines[c]) = Broken
           /\ Goto(c, "line", "done")
           /\ UNCHANGED <<main, reception, j, buffer, sending, disk>>

-----------------------------------------------------------------------------
(* mySend(buffer), mode "jq" *)

SenderGoes(here, there) == /\ Goto(Sender, here, there)
                           /\ UNCHANGED <<main, reception, buffer, disk>>
Only(here, there) == SenderGoes(here, there) /\ UNCHANGED <<j, sending>>

AfterClients == IF it = Nowhere THEN "begin" ELSE "deQueue"

\* Lines 52 and 62: with no consumer there it waits, without a predicate, and
\* what is pushed between the test and the wait goes unnoticed.
TestClients == Only("clients", IF theClients = <<>> THEN "clientsWait" ELSE AfterClients)
WaitClients == Only("clientsWait", "clientsAsleep")
WakeClients == Only("clientsAsleep", AfterClients)
Woken == Only("woken", AfterClients)

Begins == IF theClients = <<>> THEN End ELSE Head(theClients)

SetIterator == /\ SenderGoes("begin", "buffer")
               /\ it' = Begins /\ UNCHANGED <<j, theClients, sent>>

\* Lines 58-61: Empty(), then cv.wait with a predicate that calls Empty() while
\* it holds mtx2.
TestBuffer == MtxFree /\ Only("buffer", IF buffer = <<>> THEN "relock" ELSE "clients")
Relock == Only("relock", "predicate")
Predicate == MtxFree /\ Only("predicate", IF buffer = <<>> THEN "asleep" ELSE "clients")
WakeUp == Only("asleep", "relock")

Take == /\ MtxFree /\ Goto(Sender, "deQueue", "resend")
        /\ j' = [j EXCEPT ![Sender] = Head(buffer)]
        /\ buffer' = Tail(buffer)
        /\ UNCHANGED <<main, reception, sending, disk>>

\* The node that follows it, or End
Following == LET i == CHOOSE i \in DOMAIN theClients : theClients[i] = it
             IN  IF i = Len(theClients) THEN End ELSE theClients[i + 1]

Valid == it \in Range(theClients)
Matches == TagOf[it] = TagOf[j[Sender][1]]

\* send returns at once, or when the consumer has read what fills its window.
SendFrom(here) == /\ SenderGoes(here, "buffer")
                  /\ Valid /\ Matches
                  /\ sent' = Append(sent, j[Sender])
                  /\ j' = [j EXCEPT ![Sender] = Nothing]
                  /\ it' = IF Following = End THEN Begins ELSE Following
                  /\ UNCHANGED theClients
SendIt == SendFrom("resend")
SendBlocks == Only("resend", "blocked") /\ Valid /\ Matches
SendUnblocks == SendFrom("blocked")

\* goto resend, which never wraps
Skip == /\ pc[Sender] = "resend"
        /\ Valid /\ ~Matches
        /\ it' = Following
        /\ UNCHANGED <<main, pc, reception, j, buffer, theClients, sent, disk>>

\* *it at end(), or of a node that has been erased, perhaps while send blocked:
\* undefined
Stray == /\ pc[Sender] \in {"resend", "blocked"} /\ ~Valid
         /\ crashed' = TRUE
         /\ UNCHANGED <<mode, mainPc, lives, pc, reception, j, buffer, sending, disk>>

-----------------------------------------------------------------------------
(* main, mode "gb" *)

\* The lines of f that hold one message; getline and parse pass over the others.
Intact(f) == {i \in DOMAIN f : /\ f[i] # NewLine
                               /\ i = 1 \/ f[i - 1] = NewLine
                               /\ i = Len(f) \/ f[i + 1] = NewLine}

\* The messages of the first n of them, as getline comes by
ParsedTo(f) == LET parsed[n \in 0..Len(f)] ==
                     IF n = 0 THEN <<>>
                     ELSE IF n \in Intact(f) THEN Append(parsed[n - 1], f[n]) ELSE parsed[n - 1]
               IN  parsed
Parsed(f) == ParsedTo(f)[Len(f)]

\* Mutant: theList.front() for theList.back().
LastId_First(s) == Head(s)[2]

LastId(s) == s[Len(s)][2]

Load == /\ mainPc = "load" /\ mainPc' = "open"
        /\ buffer' = Parsed(file)
        /\ messageCount' = IF buffer' = <<>> THEN 0 ELSE LastId(buffer') + 1
        /\ UNCHANGED <<mode, crashed, lives, pc, stream, lines, j, sending, disk>>

\* ios::out empties the file.
Open == /\ mainPc = "open" /\ mainPc' = "accept"
        /\ file' = <<>> /\ flushed' = 0
        /\ UNCHANGED <<mode, crashed, lives, pc, reception, j, buffer, sending, hand, kept, crossed, clashed,
                       clean, outdated>>

\* The only way out of mythread.
AcceptFails == /\ mainPc = "accept"
               /\ mainPc' = IF mode = "gb" THEN "save" ELSE "end"
               /\ kept' = Range(buffer)
               /\ UNCHANGED <<mode, crashed, lives, pc, reception, j, buffer, sending, file, flushed, hand,
                              crossed, clashed, clean, outdated>>

\* main takes the next message, if there is one.
Taking == /\ mainPc = "save" /\ hand = Nothing /\ MtxFree /\ buffer # <<>>
          /\ buffer' = Tail(buffer)
          /\ UNCHANGED <<mode, mainPc, crashed, lives, pc, reception, j, sending, flushed, kept>>

\* ofs << j.dump() << endl: two insertions; the second flushes the file.
LineBegun == \E c \in Chunk : pc[c] = "newline"
SaveText == /\ Taking
            /\ hand' = Head(buffer)
            /\ Insert(Head(buffer), \E c \in Chunk : Writing(c))
            /\ crossed' = IF LineBegun THEN crossed \cup {Head(buffer)} ELSE crossed
            /\ clean' = (clean /\ ~LineBegun /\ ~clashed')
            /\ UNCHANGED outdated

EndsLine == /\ mainPc = "save" /\ hand # Nothing /\ hand' = Nothing
            /\ Insert(NewLine, \E c \in Chunk : Writing(c))
            /\ clean' = (clean /\ ~clashed')
            /\ UNCHANGED <<main, pc, reception, j, buffer, sending, kept, crossed, outdated>>

\* Mutant: '\n' for endl
SaveNewLine_Unflushed == EndsLine /\ UNCHANGED flushed

SaveNewLine == EndsLine /\ flushed' = Len(file')

SkipOld == /\ Taking
           /\ Head(buffer) \in Aged
           /\ outdated' = (outdated \/ Tail(buffer) = <<>>)
           /\ UNCHANGED <<file, hand, crossed, clashed, clean>>

Close == /\ mainPc = "save" /\ hand = Nothing /\ MtxFree /\ buffer = <<>>
         /\ mainPc' = "end" /\ flushed' = Len(file)
         /\ UNCHANGED <<mode, crashed, lives, pc, reception, j, buffer, sending, file, hand, kept, crossed,
                        clashed, clean, outdated>>

\* The program is started again, after its end or after a crash, which may have
\* lost whatever of the file was not yet flushed.
Restart == /\ mode = "gb" /\ lives < MaxLives /\ lives' = lives + 1
           /\ mainPc' = "load"
           /\ pc' = Unstarted(mode) /\ j' = [t \in Task |-> Nothing]
           /\ lines' = [c \in Chunk |-> <<>>] /\ buffer' = <<>> /\ messageCount' = -1
           /\ clean' = (clean /\ mainPc = "end")
           /\ \E n \in flushed..Len(file) :
                 /\ mainPc \in {"load", "open", "end"} => n = Len(file)
                 /\ file' = SubSeq(file, 1, n)
           /\ stream' = [p \in Producer |-> IF stream[p] # <<>> /\ Head(stream[p]) = Broken
                                             THEN Tail(stream[p]) ELSE stream[p]]
           /\ hand' = Nothing /\ kept' = {} /\ crossed' = {} /\ clashed' = FALSE
           /\ UNCHANGED <<mode, crashed, sending, flushed, outdated>>

-----------------------------------------------------------------------------
ReceiveTask(c) == TakeId(c) \/ LockMtx(c) \/ Push(c) \/ Write(c) \/ WriteNewLine(c) \/ Done(c)
MySend == \/ TestClients \/ WaitClients \/ Woken \/ SetIterator
          \/ TestBuffer \/ Relock \/ Predicate \/ Take \/ SendIt \/ SendBlocks \/ Skip \/ Stray
Main == Load \/ Open \/ AcceptFails \/ SaveText \/ SaveNewLine \/ SkipOld \/ Close \/ Restart

Next == ~crashed /\ \/ \E p \in Producer : Recv(p)
                    \/ \E k \in Consumer : Register(k) \/ RegisterUnmatched(k) \/ Leave(k)
                    \/ \E c \in Chunk : ReceiveTask(c)
                    \/ MySend \/ SendUnblocks \/ WakeClients \/ WakeUp
                    \/ Main

\* The pool's threads run; connections, main and causeless wake-ups need not, nor
\* need a consumer read, so that a send that blocks may never return.
Spec == /\ Init /\ [][Next]_vars
        /\ WF_vars(~crashed /\ MySend)
        /\ \A c \in Chunk : WF_vars(~crashed /\ ReceiveTask(c))
-----------------------------------------------------------------------------
(* Properties *)

InHand == IF j[Sender] = Nothing THEN <<>> ELSE <<j[Sender]>>

\* However many receive tasks run at once, mode "jq" numbers the messages
\* without a gap and sends each once, in the order of their ids.
ConsecutiveIds ==
    mode = "jq" => LET all == sent \o InHand \o buffer
                   IN  \A i \in DOMAIN all : all[i][2] = i - 1

\* A message gets an id above those of all messages there are, unless the file's
\* last line may have another id than the highest: after a crash, after a shutdown
\* in which a receive task wrote to the file while main stored the messages back, or
\* stood in the middle of its line then, after two insertions at once, and after a
\* shutdown that found even the newest message too old.
IdsFresh == [][clean /\ ~outdated /\ mainPc # "load" /\ Len(buffer') > Len(buffer) =>
                  \A i \in DOMAIN buffer : buffer[i][2] < Last(buffer')[2]]_vars

\* Whatever receive tasks push and write while main stores back what buffer held
\* when accept failed, each message is still to be stored or can be read back, also
\* after a crash at this point, and at the end all of them can - but for those that
\* may be too old, and those whose line crossed a receive task's: main wrote its
\* text when the task's line was begun, or the task wrote before main's newline.
\* (Two insertions at the same moment may lose either.)
OnDisk == Range(Parsed(SubSeq(file, 1, flushed)))
ToStore == IF mainPc = "end" THEN {} ELSE Range(buffer) \cup {hand}
SavedAtEnd == mode = "gb" /\ mainPc \in {"save", "end"} /\ ~clashed =>
                 kept \ (Aged \cup crossed) \subseteq ToStore \cup OnDisk

\* The reasons for which mySend may stand still for good: the program has
\* faulted; mySend holds mtx2 and wants mtx while a receive task holds mtx and
\* wants mtx2; it sleeps, for there is no consumer or it missed the one that has
\* registered; or the consumer it sends to reads no more.
Faulted == <>[]crashed
Deadlocked == <>[](~Mtx2Free /\ ~MtxFree)
MissedConsumer == <>[](pc[Sender] = "clientsAsleep")
Stalled == <>[](pc[Sender] = "blocked")


=============================================================================
