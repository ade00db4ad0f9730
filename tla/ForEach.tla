------------------------------- MODULE ForEach -------------------------------
(***************************************************************************)
(* What ParallelFor promises its callers: the function is applied to every *)
(* input exactly once, in any order; the call returns when all have been   *)
(* visited, or throws the error of one input that raised, after which      *)
(* nothing is visited any more.                                            *)
(***************************************************************************)
EXTENDS Naturals

CONSTANTS Batches, Indices, None

VARIABLES
    status,   \* "idle", "running", "returned" or "threw"
    inputs,   \* the inputs of each call
    visits,   \* how often each was visited
    raised,   \* the inputs whose visit raised
    error     \* the error thrown, named by its input

feVars == <<status, inputs, visits, raised, error>>

Init ==
    /\ status = [s \in Batches |-> "idle"]
    /\ inputs = [s \in Batches |-> {}]
    /\ visits = [s \in Batches |-> [i \in Indices |-> 0]]
    /\ raised = [s \in Batches |-> {}]
    /\ error = [s \in Batches |-> None]

Start(s) ==
    /\ status[s] = "idle"
    /\ status' = [status EXCEPT ![s] = "running"]
    /\ \E S \in SUBSET Indices : inputs' = [inputs EXCEPT ![s] = S]
    /\ UNCHANGED <<visits, raised, error>>

Visit(s, i) ==
    /\ status[s] = "running"
    /\ i \in inputs[s] /\ visits[s][i] = 0
    /\ visits' = [visits EXCEPT ![s][i] = 1]
    /\ raised' = raised \/ raised' = [raised EXCEPT ![s] = @ \cup {i}]
    /\ UNCHANGED <<status, inputs, error>>

Return(s) ==
    /\ status[s] = "running"
    /\ raised[s] = {} /\ \A i \in inputs[s] : visits[s][i] = 1
    /\ status' = [status EXCEPT ![s] = "returned"]
    /\ UNCHANGED <<inputs, visits, raised, error>>

Throw(s) ==
    /\ status[s] = "running"
    /\ \E i \in raised[s] : error' = [error EXCEPT ![s] = i]
    /\ status' = [status EXCEPT ![s] = "threw"]
    /\ UNCHANGED <<inputs, visits, raised>>

Next == \E s \in Batches :
    Start(s) \/ (\E i \in Indices : Visit(s, i)) \/ Return(s) \/ Throw(s)

Spec == Init /\ [][Next]_feVars
=============================================================================
