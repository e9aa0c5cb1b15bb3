---------------------------- MODULE NumberLedger ----------------------------
(***************************************************************************)
(* What job numbering promises, with no rows, locks or transactions.       *)
(*                                                                         *)
(* Every (tenant, year) has a count of the jobs filed under it, and filing *)
(* a job is one indivisible step that hands out the next number.  So two   *)
(* jobs never share a number, the numbers of a year start at 1, and a job  *)
(* becomes visible only after every job with a smaller number.             *)
(***************************************************************************)
EXTENDS Naturals

CONSTANTS
  Requests,    \* the POST /jobs requests that will ever be made
  Counters,    \* the (tenant, year) pairs
  None         \* "this request has filed no job"

VARIABLES
  issued,      \* issued[k]: how many numbers of counter k have been used
  number       \* number[r]: the <<counter, sequence>> request r's job carries

vars == <<issued, number>>

Init ==
  /\ issued = [k \in Counters |-> 0]
  /\ number = [r \in Requests |-> None]

(* One request files its job under counter k. *)
File(r, k) ==
  /\ number[r] = None
  /\ issued' = [issued EXCEPT ![k] = @ + 1]
  /\ number' = [number EXCEPT ![r] = <<k, issued[k] + 1>>]

Next == \E r \in Requests, k \in Counters : File(r, k)

Spec == Init /\ [][Next]_vars
=============================================================================
