---------------------------- MODULE Publication ----------------------------
(***************************************************************************)
(* What kingdom-proxy promises the clients of the front door: nginx routes *)
(* by a state the routes table really had, whole, and never goes back to   *)
(* an older one, whatever fails in between.                                *)
(***************************************************************************)
EXTENDS Naturals, Sequences

VARIABLES log,        \* the enabled routes, one entry per commit
          published,  \* how much of the log nginx has caught up with
          served      \* the routes nginx uses

vars == <<log, published, served>>

Init == /\ Len(log) = 1 /\ DOMAIN log[1] = {}
        /\ published = 1
        /\ served = log[1]

\* An admin request changes the table.
Commit == /\ Len(log') = Len(log) + 1
          /\ \A n \in 1..Len(log) : log'[n] = log[n]
          /\ UNCHANGED <<published, served>>

\* nginx adopts the table as of some commit it has not gone past.
Adopt == \E n \in published..Len(log) :
            /\ published' = n
            /\ served' = log[n]
            /\ UNCHANGED log

Next == Commit \/ Adopt

Spec == Init /\ [][Next]_vars
=============================================================================
