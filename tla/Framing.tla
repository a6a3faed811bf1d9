------------------------------ MODULE Framing ------------------------------
(***************************************************************************)
(* The loop that ConsumerManager::processClientData and                    *)
(* Receiver::handleClient share word for word: what is before the first    *)
(* newline of a client's buffer is a line, the rest stays.                 *)
(*                                                                         *)
(* A byte stream is a sequence of pieces, as recv can split it: text whose *)
(* part is "whole" or "tail" ends in a newline, a "head" does not.         *)
(***************************************************************************)
EXTENDS Naturals, Sequences

Part == {"whole", "head", "tail"}
Newlines(s) == {i \in DOMAIN s : s[i].part \in {"whole", "tail"}}
HasLine(s) == Newlines(s) # {}

\* Mutant: rfind instead of find
LineEnd_Last(s) == CHOOSE i \in Newlines(s) : \A j \in Newlines(s) : i >= j

LineEnd(s) == CHOOSE i \in Newlines(s) : \A j \in Newlines(s) : i <= j
FirstLine(s) == SubSeq(s, 1, LineEnd(s))

AfterLine(s) == SubSeq(s, LineEnd(s) + 1, Len(s))

\* A line spells the text x if it is exactly that text, in one piece or two.
Spells(line, x) == \/ Len(line) = 1 /\ line[1].part = "whole" /\ line[1].text = x
                   \/ /\ Len(line) = 2 /\ line[1].part = "head" /\ line[2].part = "tail"
                      /\ line[1].text = x /\ line[2].text = x

Whole(x) == <<[text |-> x, part |-> "whole"]>>
Split(x) == <<[text |-> x, part |-> "head"], [text |-> x, part |-> "tail"]>>
=============================================================================
