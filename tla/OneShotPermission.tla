-------------------------- MODULE OneShotPermission --------------------------
(***************************************************************************)
(* What the action-approval inbox promises, with no database, no locks and *)
(* no handlers: each ticket is a permission that is asked for, may be      *)
(* granted once, may be used once while it is granted, and is then closed  *)
(* for good.  Nothing is used that was not granted.                        *)
(***************************************************************************)
CONSTANT Tickets

VARIABLE ticket

States == {"free", "asked", "granted", "used", "closed"}

TypeOK == ticket \in [Tickets -> States]

Init == ticket = [t \in Tickets |-> "free"]

Becomes(t, from, to) ==
  /\ ticket[t] \in from
  /\ ticket' = [ticket EXCEPT ![t] = to]

Ask(t)   == Becomes(t, {"free"}, "asked")
Grant(t) == Becomes(t, {"asked"}, "granted")
Use(t)   == Becomes(t, {"granted"}, "used")
Close(t) == Becomes(t, {"granted", "used"}, "closed")

\* Tickets are withdrawn together when the add-on they need goes away.
Withdraw(S) ==
  /\ \A t \in S : ticket[t] = "asked"
  /\ ticket' = [t \in Tickets |-> IF t \in S THEN "closed" ELSE ticket[t]]

Next ==
  \/ \E t \in Tickets : Ask(t) \/ Grant(t) \/ Use(t) \/ Close(t)
  \/ \E S \in SUBSET Tickets : Withdraw(S)

Spec == Init /\ [][Next]_ticket
=============================================================================
