--------------------------- MODULE MCMapReduceData ---------------------------
(***************************************************************************)
(* MapReduceData for TLC: two words, in lines of none, one or both.        *)
(***************************************************************************)
EXTENDS MapReduceData

CONSTANTS a, b

Words == {a, b}
Lines == {<<>>, <<a>>, <<b>>, <<b, a>>}
Hash  == [key \in Words |-> IF key = a THEN 0 ELSE nReduce - 1]
=============================================================================
