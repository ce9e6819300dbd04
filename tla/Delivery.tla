------------------------------ MODULE Delivery ------------------------------
(***************************************************************************)
(* What the transactional outbox promises to the rest of the system: only  *)
(* messages that a committed transaction saved reach the broker, a message *)
(* is never taken back, and each one is delivered at least once or openly  *)
(* given up.  Nothing is promised about order or about copies.             *)
(***************************************************************************)
CONSTANT Messages

VARIABLES saved,      \* messages of committed transactions
          delivered,  \* messages the broker got at least once
          givenUp     \* messages nobody will try again

vars == <<saved, delivered, givenUp>>

Init == saved = {} /\ delivered = {} /\ givenUp = {}

Save(m) ==
  /\ m \notin saved
  /\ saved' = saved \cup {m}
  /\ UNCHANGED <<delivered, givenUp>>

\* Also a message given up may still arrive: somebody was sending it then.
Deliver(m) ==
  /\ m \in saved \ delivered
  /\ delivered' = delivered \cup {m}
  /\ UNCHANGED <<saved, givenUp>>

GiveUp(m) ==
  /\ m \in saved \ givenUp
  /\ givenUp' = givenUp \cup {m}
  /\ UNCHANGED <<saved, delivered>>

Next == \E m \in Messages : Save(m) \/ Deliver(m) \/ GiveUp(m)

Spec == Init /\ [][Next]_vars

\* A saved message eventually has one of the two outcomes.
SavedIsSettled == \A m \in Messages : m \in saved ~> m \in delivered \cup givenUp
=============================================================================
