------------------------------- MODULE Build -------------------------------
(***************************************************************************)
(* What one run of the compiler promises whoever called it (a Makefile, a  *)
(* script): the exit status tells whether the requested output was         *)
(* delivered, whole; a refused source never leaves something that looks    *)
(* like a product of it.                                                   *)
(***************************************************************************)
VARIABLES
    wanted,  \* an output file was requested
    product, \* the output file: "before", "truncated" or "delivered"
    verdict  \* "pending", "success", "failure"

vars == << wanted, product, verdict >>

Init ==
    /\ wanted \in BOOLEAN
    /\ product = "before"
    /\ verdict = "pending"

\* The output file is written once, with every program in it or in vain.
Deliver ==
    /\ verdict = "pending" /\ wanted /\ product = "before"
    /\ product' \in {"truncated", "delivered"}
    /\ UNCHANGED << wanted, verdict >>

Accept ==
    /\ verdict = "pending"
    /\ product = IF wanted THEN "delivered" ELSE "before"
    /\ verdict' = "success"
    /\ UNCHANGED << wanted, product >>

Reject ==
    /\ verdict = "pending" /\ product # "delivered"
    /\ verdict' = "failure"
    /\ UNCHANGED << wanted, product >>

Next == Deliver \/ Accept \/ Reject

Spec == Init /\ [][Next]_vars
=============================================================================
