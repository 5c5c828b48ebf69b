------------------------------- MODULE MCCalls -------------------------------
(* A small instance of Calls for TLC: one call of every kind, with and        *)
(* without a context that may end, or a store that is tried again.            *)
EXTENDS Calls

No == [kind |-> "none", ctx |-> "none"]
Once  == {<<[kind |-> q, ctx |-> c], No>> : q \in Kinds, c \in {"none", "live"}}
Again == {<<[kind |-> "store", ctx |-> c], [kind |-> "store", ctx |-> "none"]>>
             : c \in {"none", "live"}}
MCPlans == Once \cup Again
=============================================================================
