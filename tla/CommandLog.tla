----------------------------- MODULE CommandLog -----------------------------
(***************************************************************************)
(* What the datapath client promises the controller: exchanges, numbered   *)
(* in the order they are issued, are executed in that order and at most    *)
(* once.  One that failed may have been executed or may still be; one that *)
(* was answered is the latest that was.  IpcChannel.tla implements this    *)
(* over sockets, timeouts and restarts of the daemon.                      *)
(***************************************************************************)
EXTENDS Naturals

CONSTANT MaxExchanges  \* exchanges of one behaviour

VARIABLES
    paused,    \* state of the datapath
    last,      \* the exchange executed last, and what it gave
    executed,  \* executions so far
    told       \* what the controller was told of each exchange

vars == <<paused, last, executed, told>>

Init ==
    /\ paused = FALSE
    /\ last = [ok |-> FALSE, paused |-> FALSE, id |-> 0]
    /\ executed = 0
    /\ told = [i \in 1..MaxExchanges |-> "none"]

\* All exchanges before i are over.
Issued(i) == \A j \in 1..(i - 1) : told[j] # "none"

\* A command that is refused leaves the datapath as it is.
Execute(i) ==
    /\ i > last.id /\ Issued(i)
    /\ \E ok \in BOOLEAN :
          /\ paused' \in IF ok THEN BOOLEAN ELSE {paused}
          /\ last' = [ok |-> ok, paused |-> paused', id |-> i]
    /\ executed' = executed + 1
    /\ UNCHANGED told

Tell(i) ==
    /\ told[i] = "none" /\ Issued(i)
    /\ \E result \in {"failed", IF last.ok THEN "ok" ELSE "error"} :
          /\ result # "failed" => last.id = i
          /\ told' = [told EXCEPT ![i] = result]
    /\ UNCHANGED <<paused, last, executed>>

\* A daemon that starts is not paused.
Restart == paused' = FALSE /\ UNCHANGED <<last, executed, told>>

Next == (\E i \in 1..MaxExchanges : Execute(i) \/ Tell(i)) \/ Restart

Spec == Init /\ [][Next]_vars
=============================================================================
