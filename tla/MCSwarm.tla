--------------------------------- MODULE MCSwarm ---------------------------------
(***************************************************************************)
(* All answers of two tasks over two ids, with dependencies on itself, on  *)
(* the other, on both and twice on the same; of three tasks, a fan-in and  *)
(* one id three times.                                                     *)
(***************************************************************************)
EXTENDS Swarm

Default ==
  [provider |-> "gemini", free |-> FALSE, input |-> NoPrice, output |-> NoPrice,
   enabled |-> TRUE, hard |-> TRUE, max |-> 0]

Priced == [Default EXCEPT !.provider = "other", !.input = 1, !.output = 1]

(* A paid model with and without a budget, a free one, an unknown one with a     *)
(* budget and hard and soft without, one without a guard, and a wrong price.     *)
MCDeployments ==
  {[Priced EXCEPT !.max = 3], Priced, [Priced EXCEPT !.output = -1, !.max = 3],
   [Default EXCEPT !.free = TRUE],
   [Default EXCEPT !.provider = "mock"], [Default EXCEPT !.max = 1], Default, [Default EXCEPT !.hard = FALSE],
   [Default EXCEPT !.enabled = FALSE]}

MCUsages == {<<1, 0>>, <<1, 1>>}

Raw == [id : {"t1", "t2"}, known : {TRUE},
        deps : {<<>>, <<"t1">>, <<"t2">>, <<"t1", "t1">>, <<"t1", "t2">>}]

Task(i, ds) == [id |-> i, known |-> TRUE, deps |-> ds]

MCAnswers ==
  {<<a, b>> : a \in Raw, b \in Raw}
  \cup {<<Task("t1", <<>>), Task("t2", <<>>), Task("t3", <<"t1", "t2">>)>>,
        <<Task("t2", <<>>), Task("t2", <<"t2">>), Task("t2", <<"t2">>)>>,
        <<[Task("t1", <<>>) EXCEPT !.known = FALSE]>>}

=================================================================================
