---------------------------- MODULE MCAnchorWorkers ----------------------------
(* Two companies, three events; batches of one, two and three leaves.       *)
EXTENDS AnchorWorkers

CONSTANTS e1, e2, e3, c1, c2

MCCompanyOf == [e \in Event |-> IF e = e3 THEN c2 ELSE c1]

MCLeaves == {<<e1>>, <<e1, e3>>, <<e1, e2, e3>>}

\* The tree and its paths for up to nine leaves: complete levels and odd ones.
ASSUME \A n \in 1 .. 9 : TreeCorrect(n)

ASSUME TreesVerify
===============================================================================
