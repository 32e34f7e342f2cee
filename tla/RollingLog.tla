----------------------------- MODULE RollingLog -----------------------------
(***************************************************************************)
(* What a message store promises to those who show its messages: a         *)
(* sequence of the latest texts, oldest first, each cut to the length that *)
(* was set, from which every call reads and removes what its position      *)
(* says.                                                                   *)
(***************************************************************************)
EXTENDS Integers, Sequences, SequencesExt

CONSTANTS Texts, Limit, Length, Dots

VARIABLES log, answer

Shown(t) == IF Len(t) <= Length THEN t
            ELSE SubSeq(t, 1, Length - Len(Dots)) \o Dots

(* An answer: the texts read, or a position, 0 when there is none.         *)
Nothing == [texts |-> <<>>, at |-> 0]

Latest(s) == IF Len(s) <= Limit THEN s
             ELSE SubSeq(s, Len(s) - Limit + 1, Len(s))

Init == log = <<>> /\ answer = Nothing

Add == \E t \in Texts : /\ log' = Latest(Append(log, Shown(t)))
                        /\ answer' = Nothing

RemoveOne == \E i \in 1..Len(log) : /\ log' = RemoveAt(log, i)
                                    /\ answer' = Nothing

Miss == log' = log /\ answer' = Nothing

Get == \E i \in 1..Len(log) :
         log' = log /\ answer' = [Nothing EXCEPT !.texts = <<log[i]>>]

Status == log' = log /\ answer' = [Nothing EXCEPT !.texts = log]

Find == \E t \in Texts :
          /\ log' = log
          /\ answer' = [Nothing EXCEPT
                          !.at = SelectInSeq(log, LAMBDA s : s = t)]

Clear == log' = <<>> /\ answer' = Nothing

Next == Add \/ RemoveOne \/ Miss \/ Get \/ Status \/ Find \/ Clear

Spec == Init /\ [][Next]_<<log, answer>>
=============================================================================
