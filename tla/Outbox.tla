------------------------------- MODULE Outbox -------------------------------
(***************************************************************************)
(* The outbox and its publisher.  A cron starts a run of publishPending    *)
(* every second whether or not the last one has ended, so several runs may *)
(* work on the same rows.  A run reads its batch once; for each row it     *)
(* publishes, then marks the row, and in its catch counts an attempt.  The *)
(* broker, the database and the process may fail at any of these points.   *)
(***************************************************************************)
EXTENDS Naturals, FiniteSets

CONSTANTS NumMessages,  \* rows of event_outbox, numbered by created_at
          Runs,         \* cron runs that can be under way at once
          BatchSize, MaxAttempts,
          MaxFaults     \* bound: statements the database fails, and restarts

ASSUME SizesAssumption == BatchSize \in Nat \ {0} /\ MaxAttempts \in Nat \ {0}
ASSUME RunsAssumption == IsFiniteSet(Runs) /\ Runs # {}
ASSUME BoundsAssumption == NumMessages \in Nat /\ MaxFaults \in Nat

Messages == 1..NumMessages

\* todo: the rows of the batch still ahead, the current one included.
Run == [pc : {"idle", "next", "publish", "mark", "count"}, todo : SUBSET Messages,
        cur : 0..NumMessages]

Idle == [pc |-> "idle", todo |-> {}, cur |-> 0]

VARIABLES saved,     \* rows of event_outbox
          published, \* the rows with published_at
          attempts,  \* the column of each row
          copies,    \* how often the broker took each message
          run,       \* the cron runs
          faults

vars == <<saved, published, attempts, copies, run, faults>>

TypeOK ==
  /\ saved \subseteq Messages
  /\ published \subseteq Messages
  /\ attempts \in [Messages -> Nat]
  /\ copies \in [Messages -> Nat]
  /\ run \in [Runs -> Run]
  /\ faults \in 0..MaxFaults

Init ==
  /\ saved = {} /\ published = {}
  /\ attempts = [m \in Messages |-> 0]
  /\ copies = [m \in Messages |-> 0]
  /\ run = [r \in Runs |-> Idle]
  /\ faults = 0

\* OutboxService.save; transactions may commit in another order than the one
\* in which they stamped created_at.
Save(m) ==
  /\ m \notin saved
  /\ saved' = saved \cup {m}
  /\ UNCHANGED <<published, attempts, copies, run, faults>>

\* Mutants of Pending: rows of open transactions, published rows, or rows
\* whose attempts are used up are read too.
PendingUncommitted == {m \in Messages \ published : attempts[m] < MaxAttempts}
PendingPublished   == {m \in saved : attempts[m] < MaxAttempts}
PendingForEver     == saved \ published

Pending == {m \in saved \ published : attempts[m] < MaxAttempts}

\* orderBy created_at, take batchSize.
IsBatch(B) ==
  /\ B \subseteq Pending
  /\ \A b \in B : \A m \in Pending \ B : b < m
  /\ Cardinality(B) <= BatchSize
  /\ Cardinality(B) < BatchSize => B = Pending

Begin(r) ==
  /\ run[r].pc = "idle"
  /\ \E B \in SUBSET Messages \ {{}} :
       /\ IsBatch(B)
       /\ run' = [run EXCEPT ![r] = [pc |-> "next", todo |-> B, cur |-> 0]]
  /\ UNCHANGED <<saved, published, attempts, copies, faults>>

\* Mutant: the loop variable is not set.
NextRowUnset(r) ==
  /\ run[r].pc = "next"
  /\ \/ /\ run[r].todo = {}
        /\ run' = [run EXCEPT ![r] = Idle]
     \/ \E m \in run[r].todo :
          run' = [run EXCEPT ![r].pc = "publish", ![r].todo = @ \ {m}]
  /\ UNCHANGED <<saved, published, attempts, copies, faults>>

\* The loop takes the next row, or the run ends.
NextRow(r) ==
  /\ run[r].pc = "next"
  /\ \/ /\ run[r].todo = {}
        /\ run' = [run EXCEPT ![r] = Idle]
     \/ \E m \in run[r].todo :
          /\ \A n \in run[r].todo : m <= n
          /\ run' = [run EXCEPT ![r].pc = "publish", ![r].cur = m,
                                ![r].todo = @ \ {m}]
  /\ UNCHANGED <<saved, published, attempts, copies, faults>>

\* Mutant: the promise of amqp.publish is not awaited.
PublishUnawaited(r) ==
  /\ run[r].pc = "publish"
  /\ run' = [run EXCEPT ![r].pc = "mark"]
  /\ copies' \in {copies, [copies EXCEPT ![run[r].cur] = @ + 1]}
  /\ UNCHANGED <<saved, published, attempts, faults>>

\* amqp.publish resolves, or rejects before or after the broker took it.
Publish(r) ==
  /\ run[r].pc = "publish"
  /\ LET taken == copies' = [copies EXCEPT ![run[r].cur] = @ + 1]
     IN  \/ taken /\ run' = [run EXCEPT ![r].pc = "mark"]
         \/ taken /\ run' = [run EXCEPT ![r].pc = "count"]
         \/ UNCHANGED copies /\ run' = [run EXCEPT ![r].pc = "count"]
  /\ UNCHANGED <<saved, published, attempts, faults>>

\* The update that sets published_at.
Mark(r) ==
  /\ run[r].pc = "mark"
  /\ published' = published \cup {run[r].cur}
  /\ run' = [run EXCEPT ![r].pc = "next"]
  /\ UNCHANGED <<saved, attempts, copies, faults>>

\* That update fails, inside the try: the attempt counts although it worked.
MarkFails(r) ==
  /\ run[r].pc = "mark"
  /\ faults < MaxFaults
  /\ faults' = faults + 1
  /\ run' = [run EXCEPT ![r].pc = "count"]
  /\ UNCHANGED <<saved, published, attempts, copies>>

\* Mutant: the catch block only stores last_error.
CountNothing(r) ==
  /\ run[r].pc = "count"
  /\ run' = [run EXCEPT ![r].pc = "next"]
  /\ UNCHANGED <<saved, published, attempts, copies, faults>>

\* The catch block; it does not look at the row again.
Count(r) ==
  /\ run[r].pc = "count"
  /\ attempts' = [attempts EXCEPT ![run[r].cur] = @ + 1]
  /\ run' = [run EXCEPT ![r].pc = "next"]
  /\ UNCHANGED <<saved, published, copies, faults>>

\* An update that fails in the catch block ends the run.
CountFails(r) ==
  /\ run[r].pc = "count"
  /\ faults < MaxFaults
  /\ faults' = faults + 1
  /\ run' = [run EXCEPT ![r] = Idle]
  /\ UNCHANGED <<saved, published, attempts, copies>>

Crash ==
  /\ faults < MaxFaults
  /\ faults' = faults + 1
  /\ run' = [r \in Runs |-> Idle]
  /\ UNCHANGED <<saved, published, attempts, copies>>

RunStep(r) == \/ Begin(r) \/ NextRow(r) \/ Publish(r) \/ Mark(r)
              \/ MarkFails(r) \/ Count(r) \/ CountFails(r)

Next == (\E m \in Messages : Save(m)) \/ (\E r \in Runs : RunStep(r)) \/ Crash

Spec == Init /\ [][Next]_vars

\* The cron goes on firing, and no call of a run hangs for ever.
FairSpec == Spec /\ \A r \in Runs : WF_vars(RunStep(r))

-----------------------------------------------------------------------------
(* Safety. *)

Delivered == {m \in Messages : copies[m] > 0}
GivenUp   == {m \in Messages : attempts[m] >= MaxAttempts}

\* published_at is only set on a row whose message the broker has, whichever
\* run set it and whatever failed in between.
MarkedWasSent == published \subseteq Delivered

\* Overlapping runs overshoot the limit of attempts by less than one each.
AttemptsBounded ==
  \A m \in Messages : attempts[m] <= MaxAttempts + Cardinality(Runs) - 1

\* Every copy beyond the first has its cause: a counted attempt, another run
\* on the same row, a fault or a restart.  With one run at a time and nothing
\* failing the broker gets each message once.
CopiesHaveCauses ==
  \A m \in Messages :
    copies[m] <= attempts[m] + faults * Cardinality(Runs) + Cardinality(Runs)

\* The outbox implements the delivery the sagas rely on.
Promise == INSTANCE Delivery WITH saved <- saved, delivered <- Delivered,
                                  givenUp <- GivenUp
ImplementsDelivery == Promise!Spec

-----------------------------------------------------------------------------
(* Liveness, under FairSpec. *)

\* No message is starved by the ones before it in its batch, nor by a batch
\* full of messages that always fail.
SavedIsSettled == Promise!SavedIsSettled
=============================================================================
