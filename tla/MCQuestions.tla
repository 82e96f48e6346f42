---------------------------- MODULE MCQuestions -----------------------------
(* A question that is contained in another one, and a file that answers    *)
(* the one once and the other in two ways.                                 *)
EXTENDS Questions

MCContained == {<<"q1", "q1">>, <<"q2", "q2">>, <<"q1", "q2">>}
MCSourceFaq == {[id |-> 1, question |-> "q1", text |-> "a"], [id |-> 2, question |-> "q2", text |-> "a"],
                [id |-> 3, question |-> "q2", text |-> "b"]}
=============================================================================
