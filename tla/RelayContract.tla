--------------------------- MODULE RelayContract ---------------------------
(***************************************************************************)
(* What RelayX as a whole promises the application behind the local proxy,  *)
(* without packets, clocks, caches or tasks: one life of the server carries *)
(* a request out at most once, a response is only given for a request that  *)
(* was carried out, and each connection is given one outcome.  A connection *)
(* that gets an error learns nothing: its request may still be carried out, *)
(* and a request sent before the server was started again may be repeated.  *)
(***************************************************************************)
EXTENDS Naturals

CONSTANTS Conns     \* connections of the application, one request each

VARIABLES
    asked,      \* connections whose request was accepted
    executions, \* how often the upstream carried out each request
    current,    \* the requests carried out in the server's present life
    outcome     \* what each connection was given

vars == <<asked, executions, current, outcome>>

Init ==
    /\ asked = {}
    /\ executions = [k \in Conns |-> 0]
    /\ current = {}
    /\ outcome = [k \in Conns |-> "none"]

Ask(k) ==
    /\ k \notin asked
    /\ outcome[k] = "none"
    /\ asked' = asked \cup {k}
    /\ UNCHANGED <<executions, current, outcome>>

Execute(k) ==
    /\ k \in asked
    /\ k \notin current
    /\ executions' = [executions EXCEPT ![k] = @ + 1]
    /\ current' = current \cup {k}
    /\ UNCHANGED <<asked, outcome>>

Answer(k) ==
    /\ outcome[k] = "none"
    /\ executions[k] > 0
    /\ outcome' = [outcome EXCEPT ![k] = "response"]
    /\ UNCHANGED <<asked, executions, current>>

GiveUp(k) ==
    /\ outcome[k] = "none"
    /\ outcome' = [outcome EXCEPT ![k] = "error"]
    /\ UNCHANGED <<asked, executions, current>>

Restart ==
    /\ current' = {}
    /\ UNCHANGED <<asked, executions, outcome>>

Next ==
    \/ \E k \in Conns : Ask(k) \/ Execute(k) \/ Answer(k) \/ GiveUp(k)
    \/ Restart

Spec == Init /\ [][Next]_vars
=============================================================================
