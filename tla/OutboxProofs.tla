---------------------------- MODULE OutboxProofs ----------------------------
(***************************************************************************)
(* For any number of messages and overlapping runs, any batch size, limit  *)
(* of attempts and number of faults: the outbox marks only what the broker *)
(* has, and implements the delivery promised by module Delivery.           *)
(***************************************************************************)
EXTENDS Outbox, FiniteSetTheorems, TLAPS

\* A run works on committed rows only, and is about to mark only what it sent.
RunsAreSound ==
  \A r \in Runs :
    /\ run[r].todo \subseteq saved
    /\ run[r].pc \in {"publish", "mark", "count"} => run[r].cur \in saved
    /\ run[r].pc = "mark" => copies[run[r].cur] > 0

IInv == TypeOK /\ RunsAreSound /\ MarkedWasSent

-----------------------------------------------------------------------------

\* The invariant holds in the empty outbox.
LEMMA InitIInv == Init => IInv
<1> SUFFICES ASSUME Init PROVE IInv
  OBVIOUS
<1>1. Idle \in Run
  BY BoundsAssumption DEF Idle, Run
<1>2. TypeOK
  BY <1>1, BoundsAssumption DEF Init, TypeOK
<1>3. RunsAreSound
  BY DEF Init, RunsAreSound, Idle
<1>4. MarkedWasSent
  BY DEF Init, MarkedWasSent
<1> QED
  BY <1>2, <1>3, <1>4 DEF IInv

\* Every step keeps it: copies are never taken back, rows never removed.
LEMMA NextIInv == IInv /\ [Next]_vars => IInv'
<1> SUFFICES ASSUME IInv, [Next]_vars PROVE IInv'
  OBVIOUS
<1> USE DEF IInv, TypeOK
<1>0. Messages \subseteq Nat
  BY BoundsAssumption DEF Messages
<1>1. ASSUME NEW m \in Messages, Save(m) PROVE IInv'
  BY <1>1 DEF Save, RunsAreSound, MarkedWasSent, Delivered
<1>2. ASSUME NEW r \in Runs, Begin(r) PROVE IInv'
  <2>1. PICK B \in SUBSET Messages \ {{}} :
          /\ IsBatch(B)
          /\ run' = [run EXCEPT ![r] = [pc |-> "next", todo |-> B, cur |-> 0]]
    BY <1>2 DEF Begin
  <2>2. B \subseteq saved
    BY <2>1 DEF IsBatch, Pending
  <2>3. run' \in [Runs -> Run]
    BY <2>1, BoundsAssumption DEF Run
  <2>4. RunsAreSound'
    BY <2>1, <2>2, <1>2 DEF RunsAreSound, Begin
  <2> QED
    BY <2>3, <2>4, <1>2 DEF Begin, MarkedWasSent, Delivered
<1>3. ASSUME NEW r \in Runs, NextRow(r) PROVE IInv'
  <2>1. CASE run[r].todo = {} /\ run' = [run EXCEPT ![r] = Idle]
    <3>1. run' \in [Runs -> Run]
      BY <2>1, BoundsAssumption DEF Run, Idle
    <3>2. RunsAreSound'
      BY <2>1, <1>3 DEF RunsAreSound, NextRow, Idle
    <3> QED
      BY <3>1, <3>2, <1>3 DEF NextRow, MarkedWasSent, Delivered
  <2>2. ASSUME NEW m \in run[r].todo,
               run' = [run EXCEPT ![r].pc = "publish", ![r].cur = m,
                                  ![r].todo = @ \ {m}]
        PROVE  IInv'
    <3>0. m \in saved /\ m \in 0..NumMessages
      BY <2>2, BoundsAssumption DEF RunsAreSound, Run, Messages
    <3>1. run' \in [Runs -> Run]
      BY <2>2, <3>0 DEF Run
    <3>2. RunsAreSound'
      BY <2>2, <3>0, <1>3 DEF RunsAreSound, NextRow, Run
    <3> QED
      BY <3>1, <3>2, <1>3 DEF NextRow, MarkedWasSent, Delivered
  <2> QED
    BY <2>1, <2>2, <1>3 DEF NextRow
<1>4. ASSUME NEW r \in Runs, Publish(r) PROVE IInv'
  <2> DEFINE c == run[r].cur
  <2>1. c \in Messages
    BY <1>4 DEF Publish, RunsAreSound
  <2>2. copies' \in [Messages -> Nat] /\ \A m \in Messages : copies'[m] >= copies[m]
    BY <1>4, <2>1 DEF Publish
  <2>3. run' \in [Runs -> Run]
    BY <1>4 DEF Publish, Run
  <2>4. run'[r].pc = "mark" => copies'[c] > 0
    BY <1>4, <2>1 DEF Publish, Run
  <2>5. /\ \A q \in Runs : run'[q].todo = run[q].todo /\ run'[q].cur = run[q].cur
        /\ \A q \in Runs \ {r} : run'[q].pc = run[q].pc
        /\ run'[r].pc \in {"mark", "count"}
        /\ UNCHANGED <<saved, published, attempts, faults>>
    BY <1>4 DEF Publish, Run
  <2>6. RunsAreSound'
    <3> SUFFICES ASSUME NEW q \in Runs
                 PROVE  /\ run'[q].todo \subseteq saved
                        /\ run'[q].pc \in {"publish", "mark", "count"}
                             => run'[q].cur \in saved
                        /\ run'[q].pc = "mark" => copies'[run'[q].cur] > 0
      BY <2>5 DEF RunsAreSound
    <3>1. CASE q = r
      BY <3>1, <2>4, <2>5, <1>4 DEF RunsAreSound, Publish
    <3>2. CASE q # r
      <4>1. run'[q].cur = run[q].cur /\ run'[q].pc = run[q].pc /\ run'[q].todo = run[q].todo
        BY <3>2, <2>5
      <4>2. ASSUME run[q].pc = "mark" PROVE copies'[run[q].cur] > 0
        <5>1. run[q].cur \in Messages /\ copies[run[q].cur] > 0
          BY <4>2 DEF RunsAreSound
        <5> QED
          BY <5>1, <2>2
      <4> QED
        BY <4>1, <4>2 DEF RunsAreSound
    <3> QED
      BY <3>1, <3>2
  <2>7. MarkedWasSent'
    BY <2>2, <2>5 DEF MarkedWasSent, Delivered
  <2> QED
    BY <2>2, <2>3, <2>5, <2>6, <2>7
<1>5. ASSUME NEW r \in Runs, Mark(r) PROVE IInv'
  <2>1. run[r].cur \in Messages /\ copies[run[r].cur] > 0
    BY <1>5 DEF Mark, RunsAreSound
  <2>2. run' \in [Runs -> Run]
    BY <1>5 DEF Mark, Run
  <2>3. RunsAreSound'
    BY <1>5 DEF Mark, RunsAreSound, Run
  <2>4. MarkedWasSent'
    BY <1>5, <2>1 DEF Mark, MarkedWasSent, Delivered
  <2> QED
    BY <1>5, <2>1, <2>2, <2>3, <2>4 DEF Mark
<1>6. ASSUME NEW r \in Runs, MarkFails(r) PROVE IInv'
  <2>1. run' \in [Runs -> Run]
    BY <1>6 DEF MarkFails, Run
  <2>2. RunsAreSound'
    BY <1>6 DEF MarkFails, RunsAreSound, Run
  <2> QED
    BY <1>6, <2>1, <2>2, BoundsAssumption DEF MarkFails, MarkedWasSent, Delivered
<1>7. ASSUME NEW r \in Runs, Count(r) PROVE IInv'
  <2>1. run[r].cur \in Messages
    BY <1>7 DEF Count, RunsAreSound
  <2>2. run' \in [Runs -> Run] /\ attempts' \in [Messages -> Nat]
    BY <1>7, <2>1 DEF Count, Run
  <2>3. RunsAreSound'
    BY <1>7 DEF Count, RunsAreSound, Run
  <2> QED
    BY <1>7, <2>2, <2>3 DEF Count, MarkedWasSent, Delivered
<1>8. ASSUME NEW r \in Runs, CountFails(r) PROVE IInv'
  <2>1. run' \in [Runs -> Run]
    BY <1>8, BoundsAssumption DEF CountFails, Run, Idle
  <2>2. RunsAreSound'
    BY <1>8 DEF CountFails, RunsAreSound, Idle
  <2> QED
    BY <1>8, <2>1, <2>2, BoundsAssumption DEF CountFails, MarkedWasSent, Delivered
<1>9. CASE Crash
  <2>1. run' \in [Runs -> Run]
    BY <1>9, BoundsAssumption DEF Crash, Run, Idle
  <2>2. RunsAreSound'
    BY <1>9 DEF Crash, RunsAreSound, Idle
  <2> QED
    BY <1>9, <2>1, <2>2, BoundsAssumption DEF Crash, MarkedWasSent, Delivered
<1>10. CASE UNCHANGED vars
  BY <1>10 DEF vars, RunsAreSound, MarkedWasSent, Delivered
<1> QED
  BY <1>1, <1>2, <1>3, <1>4, <1>5, <1>6, <1>7, <1>8, <1>9, <1>10 DEF Next, RunStep

\* The invariant holds in every reachable state.
THEOREM Invariant == Spec => []IInv
<1> QED
  BY InitIInv, NextIInv, PTL DEF Spec

\* The variables of the outbox keep their types, for any constants.
THEOREM TypeCorrect == Spec => []TypeOK
<1>1. IInv => TypeOK
  BY DEF IInv
<1> QED
  BY <1>1, Invariant, PTL

\* published_at is never set on a row whose message the broker did not take.
THEOREM MarkedWasSentAlways == Spec => []MarkedWasSent
<1>1. IInv => MarkedWasSent
  BY DEF IInv
<1> QED
  BY <1>1, Invariant, PTL

-----------------------------------------------------------------------------
(* The bounds on attempts and copies. *)

\* The runs that may still send a message, and those that may still count or
\* mark it.
YetToSend(m) == {r \in Runs : m \in run[r].todo \/ (run[r].pc = "publish" /\ run[r].cur = m)}
Owing(m)     == {r \in Runs : run[r].pc \in {"mark", "count"} /\ run[r].cur = m}

\* A run has no row that it is not at, and takes each row once.
RowsAreTaken ==
  \A r \in Runs :
    /\ run[r].pc = "idle" => run[r].todo = {}
    /\ run[r].pc \in {"publish", "mark", "count"} => run[r].cur \notin run[r].todo

\* What the runs at a row may still add is provided for: a row enters a batch
\* with an attempt left and not published, and leaves it once for each run.
BoundsAhead ==
  \A m \in Messages :
    /\ attempts[m] + Cardinality(YetToSend(m) \cup Owing(m))
         <= MaxAttempts + Cardinality(Runs) - 1
    /\ m \notin published =>
         copies[m] <= attempts[m] + faults * Cardinality(Runs) + Cardinality(Owing(m))
    /\ m \in published =>
         copies[m] + Cardinality(YetToSend(m))
           <= attempts[m] + faults * Cardinality(Runs) + Cardinality(Runs)

\* Runs are finitely many, and there is one.
LEMMA SomeRuns ==
  ASSUME NEW S \in SUBSET Runs
  PROVE  /\ IsFiniteSet(S) /\ Cardinality(S) \in Nat
         /\ Cardinality(S) <= Cardinality(Runs)
         /\ Cardinality(Runs) \in Nat \ {0}
<1>1. IsFiniteSet(S) /\ Cardinality(S) <= Cardinality(Runs)
  BY RunsAssumption, FS_Subset
<1>2. Cardinality(S) \in Nat /\ Cardinality(Runs) \in Nat
  BY <1>1, RunsAssumption, FS_CardinalityType
<1>3. Cardinality(Runs) # 0
  BY RunsAssumption, FS_EmptySet
<1> QED
  BY <1>1, <1>2, <1>3

\* Fewer runs are not more.
LEMMA FewerRuns ==
  ASSUME NEW S \in SUBSET Runs, NEW T \in SUBSET S
  PROVE  Cardinality(T) <= Cardinality(S)
BY SomeRuns, FS_Subset

\* One run more, and one less.
LEMMA OneRun ==
  ASSUME NEW S \in SUBSET Runs, NEW r \in Runs
  PROVE  /\ r \notin S => Cardinality(S \cup {r}) = Cardinality(S) + 1
         /\ r \in S => Cardinality(S \ {r}) = Cardinality(S) - 1
<1>1. IsFiniteSet(S)
  BY SomeRuns
<1> QED
  BY <1>1, FS_AddElement, FS_RemoveElement

\* A run is not both.
LEMMA NotBoth ==
  ASSUME RowsAreTaken, NEW m
  PROVE  /\ YetToSend(m) \cap Owing(m) = {}
         /\ Cardinality(YetToSend(m)) + Cardinality(Owing(m)) <= Cardinality(Runs)
<1>1. YetToSend(m) \cap Owing(m) = {}
  BY DEF RowsAreTaken, YetToSend, Owing
<1>2. YetToSend(m) \in SUBSET Runs /\ Owing(m) \in SUBSET Runs
      /\ YetToSend(m) \cup Owing(m) \in SUBSET Runs
  BY DEF YetToSend, Owing
<1>3. Cardinality(YetToSend(m) \cup Owing(m)) =
        Cardinality(YetToSend(m)) + Cardinality(Owing(m)) - Cardinality(YetToSend(m) \cap Owing(m))
  BY <1>2, SomeRuns, FS_Union
<1>4. Cardinality(YetToSend(m) \cap Owing(m)) = 0
  BY <1>1, FS_EmptySet
<1>5. /\ Cardinality(YetToSend(m)) \in Nat /\ Cardinality(Owing(m)) \in Nat
      /\ Cardinality(YetToSend(m) \cup Owing(m)) <= Cardinality(Runs)
      /\ Cardinality(YetToSend(m) \cup Owing(m)) \in Nat
      /\ Cardinality(Runs) \in Nat
  BY <1>2, SomeRuns
<1> QED
  BY <1>1, <1>3, <1>4, <1>5

\* Every step keeps that a run takes each row once.
LEMMA NextRowsAreTaken == IInv /\ RowsAreTaken /\ [Next]_vars => RowsAreTaken'
<1> SUFFICES ASSUME IInv, RowsAreTaken, [Next]_vars PROVE RowsAreTaken'
  OBVIOUS
<1> USE DEF RowsAreTaken
<1>0. run \in [Runs -> Run]
  BY DEF IInv, TypeOK
<1>1. ASSUME NEW m \in Messages, Save(m) PROVE RowsAreTaken'
  BY <1>1 DEF Save
<1>2. ASSUME NEW r \in Runs, Begin(r) PROVE RowsAreTaken'
  BY <1>0, <1>2 DEF Begin
<1>3. ASSUME NEW r \in Runs, NextRow(r) PROVE RowsAreTaken'
  <2>1. CASE run' = [run EXCEPT ![r] = Idle]
    BY <1>0, <2>1 DEF Idle
  <2>2. ASSUME NEW n \in run[r].todo,
               run' = [run EXCEPT ![r].pc = "publish", ![r].cur = n, ![r].todo = @ \ {n}]
        PROVE  RowsAreTaken'
    BY <1>0, <2>2 DEF Run
  <2> QED
    BY <1>3, <2>1, <2>2 DEF NextRow
<1>4. ASSUME NEW r \in Runs, Publish(r) PROVE RowsAreTaken'
  BY <1>0, <1>4 DEF Publish, Run
<1>5. ASSUME NEW r \in Runs, Mark(r) \/ MarkFails(r) \/ Count(r) PROVE RowsAreTaken'
  BY <1>0, <1>5 DEF Mark, MarkFails, Count, Run
<1>6. ASSUME NEW r \in Runs, CountFails(r) PROVE RowsAreTaken'
  BY <1>0, <1>6 DEF CountFails, Idle
<1>7. CASE Crash
  BY <1>7 DEF Crash, Idle
<1>8. CASE UNCHANGED vars
  BY <1>8 DEF vars
<1> QED
  BY <1>1, <1>2, <1>3, <1>4, <1>5, <1>6, <1>7, <1>8 DEF Next, RunStep

\* The numbers of one message, before and after a step.
Provided(m) ==
  /\ attempts[m] + Cardinality(YetToSend(m) \cup Owing(m))
       <= MaxAttempts + Cardinality(Runs) - 1
  /\ m \notin published =>
       copies[m] <= attempts[m] + faults * Cardinality(Runs) + Cardinality(Owing(m))
  /\ m \in published =>
       copies[m] + Cardinality(YetToSend(m))
         <= attempts[m] + faults * Cardinality(Runs) + Cardinality(Runs)

\* Every step keeps the bounds ahead of each message.
LEMMA NextBoundsAhead ==
  IInv /\ RowsAreTaken /\ BoundsAhead /\ [Next]_vars => BoundsAhead'
<1> SUFFICES ASSUME IInv, RowsAreTaken, BoundsAhead, [Next]_vars, NEW m \in Messages
             PROVE  Provided(m)'
  BY DEF BoundsAhead, Provided
<1> DEFINE R == Cardinality(Runs)
           Y == YetToSend(m)
           O == Owing(m)
<1>0. /\ run \in [Runs -> Run] /\ attempts[m] \in Nat /\ copies[m] \in Nat
      /\ faults \in Nat /\ MaxAttempts \in Nat \ {0}
  BY BoundsAssumption, SizesAssumption DEF IInv, TypeOK
<1>1. /\ Y \in SUBSET Runs /\ O \in SUBSET Runs /\ Y \cup O \in SUBSET Runs
      /\ Y' \in SUBSET Runs /\ O' \in SUBSET Runs /\ (Y \cup O)' \in SUBSET Runs
  BY DEF YetToSend, Owing
<1>2. /\ R \in Nat \ {0} /\ faults * R \in Nat
      /\ Cardinality(Y) \in Nat /\ Cardinality(O) \in Nat /\ Cardinality(Y \cup O) \in Nat
      /\ Cardinality(Y)' \in Nat /\ Cardinality(O)' \in Nat /\ Cardinality(Y \cup O)' \in Nat
      /\ Cardinality(Y)' <= R /\ Cardinality(O)' <= R /\ Cardinality(Y \cup O)' <= R
  BY <1>0, <1>1, SomeRuns
<1>3. Y \cap O = {} /\ Cardinality(Y) + Cardinality(O) <= R
  BY NotBoth
<1>4. Provided(m)
  BY DEF BoundsAhead, Provided
\* A step that leaves the numbers alone and gives the message to no run.
<1>5. ASSUME Y' = Y, O' = O, UNCHANGED <<published, attempts, copies, faults>>
      PROVE  Provided(m)'
  BY <1>4, <1>5 DEF Provided
\* A step that fails: some runs let go of their rows.
<1>6. ASSUME Y' \subseteq Y, O' \subseteq O, faults' = faults + 1,
             UNCHANGED <<published, attempts, copies>>
      PROVE  Provided(m)'
  <2>1. /\ Cardinality(Y)' <= Cardinality(Y)
        /\ Cardinality(Y \cup O)' <= Cardinality(Y \cup O)
    BY <1>1, <1>6, FewerRuns
  <2>2. faults' * R = faults * R + R
    BY <1>0, <1>2, <1>6
  <2>3. Cardinality(O) <= R
    BY <1>1, SomeRuns
  <2> QED
    BY <1>0, <1>2, <1>4, <1>6, <2>1, <2>2, <2>3 DEF Provided
<1>7. ASSUME NEW n \in Messages, Save(n) PROVE Provided(m)'
  BY <1>5, <1>7 DEF Save, YetToSend, Owing
<1>8. ASSUME NEW r \in Runs, Begin(r) PROVE Provided(m)'
  <2>1. PICK B \in SUBSET Messages \ {{}} :
          /\ IsBatch(B)
          /\ run' = [run EXCEPT ![r] = [pc |-> "next", todo |-> B, cur |-> 0]]
    BY <1>8 DEF Begin
  <2>2. /\ UNCHANGED <<published, attempts, copies, faults>>
        /\ run[r].pc = "idle" /\ run[r].todo = {}
    BY <1>8 DEF Begin, RowsAreTaken
  <2>3. O' = O
    BY <1>0, <2>1, <2>2 DEF Owing
  <2>4. CASE m \notin B
    <3>1. Y' = Y
      BY <1>0, <2>1, <2>2, <2>4 DEF YetToSend
    <3> QED
      BY <1>5, <2>2, <2>3, <3>1
  <2>5. CASE m \in B
    <3>1. attempts[m] < MaxAttempts /\ m \notin published
      BY <2>1, <2>5 DEF IsBatch, Pending
    <3> QED
      BY <1>0, <1>2, <1>4, <2>2, <2>3, <3>1 DEF Provided
  <2> QED
    BY <2>4, <2>5
<1>9. ASSUME NEW r \in Runs, NextRow(r) PROVE Provided(m)'
  <2>1. UNCHANGED <<published, attempts, copies, faults>> /\ run[r].pc = "next"
    BY <1>9 DEF NextRow
  <2>2. CASE run[r].todo = {} /\ run' = [run EXCEPT ![r] = Idle]
    <3>1. Y' = Y /\ O' = O
      BY <1>0, <2>1, <2>2 DEF YetToSend, Owing, Idle
    <3> QED
      BY <1>5, <2>1, <3>1
  <2>3. ASSUME NEW n \in run[r].todo,
               run' = [run EXCEPT ![r].pc = "publish", ![r].cur = n, ![r].todo = @ \ {n}]
        PROVE  Provided(m)'
    <3>1. /\ run'[r].pc = "publish" /\ run'[r].cur = n /\ run'[r].todo = run[r].todo \ {n}
          /\ \A q \in Runs \ {r} : run'[q] = run[q]
      BY <1>0, <2>3 DEF Run
    <3>2. Y' = Y /\ O' = O
      BY <2>1, <2>3, <3>1 DEF YetToSend, Owing
    <3> QED
      BY <1>5, <2>1, <3>2
  <2> QED
    BY <2>2, <2>3, <1>9 DEF NextRow
<1>10. ASSUME NEW r \in Runs, Publish(r) PROVE Provided(m)'
  <2>1. /\ run[r].pc = "publish" /\ UNCHANGED <<published, attempts, faults>>
        /\ run'[r].pc \in {"mark", "count"}
        /\ run'[r].cur = run[r].cur /\ run'[r].todo = run[r].todo
        /\ \A q \in Runs \ {r} : run'[q] = run[q]
    BY <1>0, <1>10 DEF Publish, Run
  <2>2. run[r].cur \notin run[r].todo
    BY <2>1 DEF RowsAreTaken
  <2>3. CASE run[r].cur # m
    <3>1. Y' = Y /\ O' = O
      BY <2>1, <2>3 DEF YetToSend, Owing
    <3>2. copies'[m] = copies[m]
      BY <1>10, <2>3 DEF Publish, IInv, TypeOK
    <3> QED
      BY <1>4, <2>1, <3>1, <3>2 DEF Provided
  <2>4. CASE run[r].cur = m
    <3>1. /\ Y' = Y \ {r} /\ O' = O \cup {r} /\ r \in Y /\ r \notin O
          /\ (Y \cup O)' = Y \cup O
      BY <2>1, <2>2, <2>4 DEF YetToSend, Owing
    <3>2. /\ Cardinality(Y)' = Cardinality(Y) - 1
          /\ Cardinality(O)' = Cardinality(O) + 1
          /\ Cardinality(Y \cup O)' = Cardinality(Y \cup O)
      BY <1>1, <3>1, OneRun
    <3>3. copies'[m] \in {copies[m], copies[m] + 1}
      BY <1>10, <2>4 DEF Publish, IInv, TypeOK
    <3> QED
      BY <1>0, <1>2, <1>4, <2>1, <3>2, <3>3 DEF Provided
  <2> QED
    BY <2>3, <2>4
<1>11. ASSUME NEW r \in Runs, Mark(r) PROVE Provided(m)'
  <2>1. /\ run[r].pc = "mark" /\ UNCHANGED <<attempts, copies, faults>>
        /\ published' = published \cup {run[r].cur}
        /\ run'[r].pc = "next" /\ run'[r].todo = run[r].todo
        /\ \A q \in Runs \ {r} : run'[q] = run[q]
    BY <1>0, <1>11 DEF Mark, Run
  <2>2. Y' = Y
    BY <2>1 DEF YetToSend
  <2>3. CASE run[r].cur # m
    <3>1. O' = O
      BY <2>1, <2>3 DEF Owing
    <3> QED
      BY <1>4, <2>1, <2>2, <2>3, <3>1 DEF Provided
  <2>4. CASE run[r].cur = m
    <3>1. O' \subseteq O
      BY <2>1 DEF Owing
    <3>2. Cardinality(Y \cup O)' <= Cardinality(Y \cup O)
      BY <1>1, <2>2, <3>1, FewerRuns
    <3>3. m \in published'
      BY <2>1, <2>4
    <3> QED
      BY <1>0, <1>2, <1>3, <1>4, <2>1, <2>2, <3>2, <3>3 DEF Provided
  <2> QED
    BY <2>3, <2>4
<1>12. ASSUME NEW r \in Runs, MarkFails(r) PROVE Provided(m)'
  <2>1. /\ run[r].pc = "mark" /\ UNCHANGED <<published, attempts, copies>>
        /\ faults' = faults + 1
        /\ run'[r].pc = "count" /\ run'[r].cur = run[r].cur /\ run'[r].todo = run[r].todo
        /\ \A q \in Runs \ {r} : run'[q] = run[q]
    BY <1>0, <1>12 DEF MarkFails, Run
  <2>2. Y' = Y /\ O' = O
    BY <2>1 DEF YetToSend, Owing
  <2> QED
    BY <1>6, <2>1, <2>2
<1>13. ASSUME NEW r \in Runs, Count(r) PROVE Provided(m)'
  <2>1. /\ run[r].pc = "count" /\ UNCHANGED <<published, copies, faults>>
        /\ attempts' = [attempts EXCEPT ![run[r].cur] = @ + 1]
        /\ run'[r].pc = "next" /\ run'[r].todo = run[r].todo
        /\ \A q \in Runs \ {r} : run'[q] = run[q]
    BY <1>0, <1>13 DEF Count, Run
  <2>2. Y' = Y
    BY <2>1 DEF YetToSend
  <2>3. CASE run[r].cur # m
    <3>1. O' = O /\ attempts'[m] = attempts[m]
      BY <2>1, <2>3 DEF Owing, IInv, TypeOK
    <3> QED
      BY <1>4, <2>1, <2>2, <3>1 DEF Provided
  <2>4. CASE run[r].cur = m
    <3>1. run[r].cur \notin run[r].todo
      BY <2>1 DEF RowsAreTaken
    <3>2. O' = O \ {r} /\ r \in O /\ r \notin Y /\ (Y \cup O)' = (Y \cup O) \ {r}
      BY <2>1, <2>4, <3>1 DEF Owing, YetToSend
    <3>3. /\ Cardinality(O)' = Cardinality(O) - 1
          /\ Cardinality(Y \cup O)' = Cardinality(Y \cup O) - 1
      BY <1>1, <3>2, OneRun
    <3>4. attempts'[m] = attempts[m] + 1
      BY <2>1, <2>4 DEF IInv, TypeOK
    <3> QED
      BY <1>0, <1>2, <1>4, <2>1, <2>2, <3>3, <3>4 DEF Provided
  <2> QED
    BY <2>3, <2>4
<1>14. ASSUME NEW r \in Runs, CountFails(r) PROVE Provided(m)'
  <2>1. /\ UNCHANGED <<published, attempts, copies>> /\ faults' = faults + 1
        /\ run' = [run EXCEPT ![r] = Idle]
    BY <1>14 DEF CountFails
  <2>2. Y' \subseteq Y /\ O' \subseteq O
    BY <1>0, <2>1 DEF YetToSend, Owing, Idle
  <2> QED
    BY <1>6, <2>1, <2>2
<1>15. ASSUME Crash PROVE Provided(m)'
  <2>1. /\ UNCHANGED <<published, attempts, copies>> /\ faults' = faults + 1
        /\ Y' \subseteq Y /\ O' \subseteq O
    BY <1>15 DEF Crash, YetToSend, Owing, Idle
  <2> QED
    BY <1>6, <2>1
<1>16. ASSUME UNCHANGED vars PROVE Provided(m)'
  BY <1>5, <1>16 DEF vars, YetToSend, Owing
<1> QED
  BY <1>7, <1>8, <1>9, <1>10, <1>11, <1>12, <1>13, <1>14, <1>15, <1>16 DEF Next, RunStep

\* An outbox without rows or runs provides for everything.
LEMMA InitBounds == Init => RowsAreTaken /\ BoundsAhead
<1> SUFFICES ASSUME Init PROVE RowsAreTaken /\ BoundsAhead
  OBVIOUS
<1>1. RowsAreTaken
  BY DEF Init, RowsAreTaken, Idle
<1>2. \A m \in Messages : YetToSend(m) = {} /\ Owing(m) = {} /\ YetToSend(m) \cup Owing(m) = {}
  BY DEF Init, YetToSend, Owing, Idle
<1>3. /\ Cardinality(Runs) \in Nat \ {0} /\ Cardinality({}) = 0
      /\ 0 * Cardinality(Runs) = 0
  BY SomeRuns, FS_EmptySet
<1>4. ASSUME NEW m \in Messages
      PROVE  /\ attempts[m] = 0 /\ copies[m] = 0 /\ m \notin published /\ faults = 0
             /\ Cardinality(YetToSend(m) \cup Owing(m)) = 0 /\ Cardinality(Owing(m)) = 0
  BY <1>2, <1>3 DEF Init
<1>5. BoundsAhead
  BY <1>3, <1>4, SizesAssumption DEF BoundsAhead
<1> QED
  BY <1>1, <1>5

\* The bounds ahead hold in every reachable state.
THEOREM BoundsInvariant == Spec => [](IInv /\ RowsAreTaken /\ BoundsAhead)
<1> QED
  BY InitIInv, NextIInv, InitBounds, NextRowsAreTaken, NextBoundsAhead, PTL DEF Spec

\* However many runs overlap on a row, its attempts pass the limit by fewer than
\* there are runs.
THEOREM AttemptsBoundedAlways == Spec => []AttemptsBounded
<1>1. IInv /\ RowsAreTaken /\ BoundsAhead => AttemptsBounded
  <2> SUFFICES ASSUME IInv, BoundsAhead, NEW m \in Messages
               PROVE  attempts[m] <= MaxAttempts + Cardinality(Runs) - 1
    BY DEF AttemptsBounded
  <2>1. YetToSend(m) \cup Owing(m) \in SUBSET Runs
    BY DEF YetToSend, Owing
  <2>2. Cardinality(YetToSend(m) \cup Owing(m)) \in Nat /\ Cardinality(Runs) \in Nat
    BY <2>1, SomeRuns
  <2> QED
    BY <2>2, SizesAssumption DEF BoundsAhead, IInv, TypeOK
<1> QED
  BY <1>1, BoundsInvariant, PTL

\* The broker gets no copy of a message without a cause on record.
THEOREM CopiesHaveCausesAlways == Spec => []CopiesHaveCauses
<1>1. IInv /\ RowsAreTaken /\ BoundsAhead => CopiesHaveCauses
  <2> SUFFICES ASSUME IInv, RowsAreTaken, BoundsAhead, NEW m \in Messages
               PROVE  copies[m] <= attempts[m] + faults * Cardinality(Runs) + Cardinality(Runs)
    BY DEF CopiesHaveCauses
  <2>1. YetToSend(m) \in SUBSET Runs /\ Owing(m) \in SUBSET Runs
    BY DEF YetToSend, Owing
  <2>2. /\ Cardinality(YetToSend(m)) \in Nat /\ Cardinality(Owing(m)) \in Nat
        /\ Cardinality(Owing(m)) <= Cardinality(Runs) /\ Cardinality(Runs) \in Nat
    BY <2>1, SomeRuns
  <2>3. faults \in Nat /\ faults * Cardinality(Runs) \in Nat
    BY <2>2, BoundsAssumption DEF IInv, TypeOK
  <2>4. copies[m] \in Nat /\ attempts[m] \in Nat
    BY DEF IInv, TypeOK
  <2>5. \/ copies[m] <= attempts[m] + faults * Cardinality(Runs) + Cardinality(Owing(m))
        \/ copies[m] + Cardinality(YetToSend(m))
             <= attempts[m] + faults * Cardinality(Runs) + Cardinality(Runs)
    BY DEF BoundsAhead
  <2> DEFINE ofFaults == faults * Cardinality(Runs)
  <2> HIDE DEF ofFaults
  <2>6. ofFaults \in Nat
    BY <2>3 DEF ofFaults
  <2>7. copies[m] <= attempts[m] + ofFaults + Cardinality(Runs)
    BY <2>2, <2>4, <2>5, <2>6 DEF ofFaults
  <2> QED
    BY <2>7 DEF ofFaults
<1> QED
  BY <1>1, BoundsInvariant, PTL

-----------------------------------------------------------------------------
(* Refinement. *)

\* The empty outbox is the initial state of the promised delivery.
LEMMA InitRefines == Init => Promise!Init
<1> SUFFICES ASSUME Init PROVE Promise!Init
  OBVIOUS
<1>1. Delivered = {}
  BY DEF Init, Delivered
<1>2. GivenUp = {}
  BY SizesAssumption DEF Init, GivenUp
<1> QED
  BY <1>1, <1>2 DEF Init, Promise!Init

\* Save, Publish and Count are Save, Deliver and GiveUp, unless the message
\* was delivered or given up before; the other steps are invisible.
LEMMA StepRefines == IInv /\ [Next]_vars => [Promise!Next]_(Promise!vars)
<1> SUFFICES ASSUME IInv, [Next]_vars PROVE [Promise!Next]_(Promise!vars)
  OBVIOUS
<1> USE DEF IInv, TypeOK
<1>1. ASSUME NEW m \in Messages, Save(m) PROVE Promise!Save(m)
  BY <1>1 DEF Save, Promise!Save, Delivered, GivenUp
<1>2. ASSUME NEW r \in Runs, Publish(r)
      PROVE  Promise!Deliver(run[r].cur) \/ UNCHANGED Promise!vars
  <2> DEFINE c == run[r].cur
  <2>1. c \in Messages /\ c \in saved
    BY <1>2 DEF Publish, RunsAreSound
  <2>2. UNCHANGED <<saved, attempts>>
    BY <1>2 DEF Publish
  <2>3. GivenUp' = GivenUp
    BY <2>2 DEF GivenUp
  <2>4. CASE copies' = copies
    BY <2>2, <2>3, <2>4 DEF Delivered, Promise!vars
  <2>5. CASE copies' = [copies EXCEPT ![c] = @ + 1]
    <3>1. Delivered' = Delivered \cup {c}
      BY <2>1, <2>5 DEF Delivered
    <3>2. CASE c \in Delivered
      BY <3>1, <3>2, <2>2, <2>3 DEF Promise!vars
    <3>3. CASE c \notin Delivered
      BY <3>1, <3>3, <2>1, <2>2, <2>3 DEF Promise!Deliver
    <3> QED
      BY <3>2, <3>3
  <2> QED
    BY <2>4, <2>5, <1>2 DEF Publish
<1>3. ASSUME NEW r \in Runs, Count(r)
      PROVE  Promise!GiveUp(run[r].cur) \/ UNCHANGED Promise!vars
  <2> DEFINE c == run[r].cur
  <2>1. c \in Messages /\ c \in saved
    BY <1>3 DEF Count, RunsAreSound
  <2>2. UNCHANGED <<saved, copies>> /\ attempts' = [attempts EXCEPT ![c] = @ + 1]
    BY <1>3 DEF Count
  <2>3. Delivered' = Delivered
    BY <2>2 DEF Delivered
  <2>4. CASE c \notin GivenUp /\ attempts'[c] >= MaxAttempts
    <3>1. GivenUp' = GivenUp \cup {c}
      BY <2>1, <2>2, <2>4, SizesAssumption DEF GivenUp
    <3> QED
      BY <3>1, <2>1, <2>2, <2>3, <2>4 DEF Promise!GiveUp
  <2>5. CASE c \in GivenUp \/ ~(attempts'[c] >= MaxAttempts)
    <3>1. GivenUp' = GivenUp
      BY <2>1, <2>2, <2>5, SizesAssumption DEF GivenUp
    <3> QED
      BY <3>1, <2>2, <2>3 DEF Promise!vars
  <2> QED
    BY <2>4, <2>5
<1>4. ASSUME UNCHANGED <<saved, copies, attempts>> PROVE UNCHANGED Promise!vars
  BY <1>4 DEF Promise!vars, Delivered, GivenUp
<1>5. ASSUME NEW r \in Runs,
             Begin(r) \/ NextRow(r) \/ Mark(r) \/ MarkFails(r) \/ CountFails(r)
      PROVE  UNCHANGED <<saved, copies, attempts>>
  BY <1>5 DEF Begin, NextRow, Mark, MarkFails, CountFails
<1>6. ASSUME Crash \/ UNCHANGED vars PROVE UNCHANGED <<saved, copies, attempts>>
  BY <1>6 DEF Crash, vars
<1>7. \A r \in Runs : Publish(r) \/ Count(r) => run[r].cur \in Messages
  BY DEF Publish, Count, RunsAreSound
<1> QED
  BY <1>1, <1>2, <1>3, <1>4, <1>5, <1>6, <1>7 DEF Next, RunStep, Promise!Next

\* The outbox with its overlapping runs, faults and restarts implements the
\* delivery promised to the sagas.
THEOREM Implementation == Spec => ImplementsDelivery
<1> QED
  BY Invariant, InitRefines, StepRefines, PTL DEF Spec, ImplementsDelivery, Promise!Spec
=============================================================================
