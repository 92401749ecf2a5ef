------------------------- MODULE MCMapReduceWorker -------------------------
(***************************************************************************)
(* The worker for TLC.  A worker that is not to fail has nRPC = -1         *)
(* (mapreduce/test_test.go, main/wc.go).                                   *)
(***************************************************************************)
EXTENDS MapReduceWorker

NoLimit == -1
=============================================================================
