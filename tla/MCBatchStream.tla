--------------------------- MODULE MCBatchStream ---------------------------
(***************************************************************************)
(* Every plan of up to three requests over the five things an execution    *)
(* can do, and plans of four requests that succeed or fail, so that the    *)
(* window slides over more than one position.                              *)
(***************************************************************************)
EXTENDS BatchStream

Request(outcome, size) == [outcome |-> outcome, size |-> size]

Ordinary == {Request("success", 1), Request("failure", 1)}

AnyRequest ==
  Ordinary \cup {Request("success", 2), Request("success", 4),
                 Request("escape", 0)}

MCPlans ==
  UNION {[1..n -> AnyRequest] : n \in 0..3} \cup [1..4 -> Ordinary]
=============================================================================
