-------------------------- MODULE EventQueueProofs --------------------------
(***************************************************************************)
(* Theorems about EventQueue, for any number of events and workers, any    *)
(* timing constants and any bound on faults and requeues; the last one is  *)
(* that it implements EventPort.                                           *)
(***************************************************************************)
EXTENDS EventQueue, FiniteSetTheorems, TLAPS

-----------------------------------------------------------------------------
(* What the helpers of EventQueue return *)

\* The id publish gives a row is a natural number: ids are counted over the
\* finite set of keys.
LEMMA NewIdNat ==
  1 + Cardinality({j \in Keys : Published(j)}) \in Nat
<1> DEFINE S == {j \in Keys : Published(j)}
<1>1. IsFiniteSet(S)
  BY FS_Subset, ConstantsOK DEF ConstantsOK
<1>2. Cardinality(S) \in Nat
  BY <1>1, FS_CardinalityType
<1> QED BY <1>2

\* However the clocks differ, a time in the future is a natural number of
\* ticks away.
LEMMA WaitsNat == \A d \in Nat : Waits(d) \subseteq Nat
  BY ConstantsOK DEF ConstantsOK, Waits

LEMMA DelaysNat == \A err, n : Delays(err, n) \subseteq Nat
  BY ConstantsOK DEF ConstantsOK, Delays

\* Every change the queue makes to a row gives a row.
LEMMA RowChanges ==
  ASSUME NEW row \in Row
  PROVE  /\ Locked(row) \in Row
         /\ \A s \in Terminal : Closed(row, s) \in Row
         /\ \A n \in Nat : Delayed(row, n) \in Row
<1>1. LeaseTicks \in 0..LeaseTicks /\ 0 \in 0..LeaseTicks
  BY ConstantsOK DEF ConstantsOK
<1>2. Locked(row) \in Row
  <2>1. row.attempts + 1 \in Nat
    BY DEF Row
  <2> QED BY <1>1, <2>1 DEF Row, Locked, Statuses
<1>3. ASSUME NEW s \in Terminal PROVE Closed(row, s) \in Row
  BY <1>1 DEF Row, Closed, Statuses, Terminal
<1>4. ASSUME NEW n \in Nat PROVE Delayed(row, n) \in Row
  BY <1>1 DEF Row, Delayed, Statuses
<1> QED BY <1>2, <1>3, <1>4

LEMMA NoRowType ==
  /\ NoRow \in Row
  /\ \A n \in Nat : [NoRow EXCEPT !.id = n, !.status = "pending"] \in Row
<1>1. 0 \in 0..LeaseTicks
  BY ConstantsOK DEF ConstantsOK
<1>2. NoRow \in Row
  BY <1>1 DEF NoRow, Row, Statuses
<1>3. ASSUME NEW n \in Nat
      PROVE  [NoRow EXCEPT !.id = n, !.status = "pending"] \in Row
  BY <1>1 DEF NoRow, Row, Statuses
<1> QED BY <1>2, <1>3

\* A worker without an event is a worker.
LEMMA FreeWorkers ==
  ASSUME NEW p \in Process
  PROVE  /\ Fresh \in Process /\ Fresh.key = NoKey /\ Fresh.pc = "idle"
         /\ Freed(p) \in Process /\ Freed(p).key = NoKey /\ Freed(p).pc = "idle"
  BY ConstantsOK DEF ConstantsOK, Process, Fresh, Freed, Stages

\* Changing one row, or one worker, keeps the two tables of the right type.
LEMMA OneRow ==
  ASSUME TypeOK, NEW k \in Keys, NEW row \in Row
  PROVE  [inbox EXCEPT ![k] = row] \in [Keys -> Row]
  BY DEF TypeOK

LEMMA OneWorker ==
  ASSUME TypeOK, NEW w \in Workers, NEW p \in Process,
         p.key \in Keys <=> p.pc \in {"processing", "failing", "recording"},
         wk' = [wk EXCEPT ![w] = p]
  PROVE  /\ wk' \in [Workers -> Process]
         /\ \A v \in Workers : wk'[v].key \in Keys <=> Busy(v)'
  BY DEF TypeOK, Busy

-----------------------------------------------------------------------------
(* Type correctness *)

\* The rows and the workers keep their types, and a worker has an event in
\* hand exactly while it works on one.
LEMMA TypeStep == TypeOK /\ [Next]_vars => TypeOK'
<1> SUFFICES ASSUME TypeOK, [Next]_vars PROVE TypeOK'
  OBVIOUS
<1>a. /\ LeaseTicks \in Nat /\ 0 \in 0..LeaseTicks /\ LeaseTicks \in 0..LeaseTicks
      /\ NoKey \notin Keys /\ MaxFaults \in Nat /\ MaxRequeues \in Nat
  BY ConstantsOK DEF ConstantsOK
<1>0. /\ \A k \in Keys : inbox[k] \in Row
      /\ \A w \in Workers : wk[w] \in Process
      /\ \A w \in Workers : Busy(w) => wk[w].key \in Keys
  BY DEF TypeOK
<1>1. ASSUME NEW k \in Keys, Publish(k) PROVE TypeOK'
  <2>1. inbox' \in [Keys -> Row]
    <3>1. CASE Published(k)
      BY <1>1, <3>1 DEF Publish, TypeOK
    <3>2. CASE ~Published(k)
      BY <1>1, <3>2, NewIdNat, NoRowType, OneRow DEF Publish
    <3> QED BY <3>1, <3>2
  <2> QED BY <1>1, <2>1 DEF Publish, TypeOK, Busy
<1>2. ASSUME NEW k \in Keys, Requeue(k) PROVE TypeOK'
  <2>1. PICK d \in Waits(0) :
          inbox' = [inbox EXCEPT ![k] = [@ EXCEPT !.status = "pending", !.attempts = 0,
                                                  !.wait = d, !.lease = 0]]
    BY <1>2 DEF Requeue
  <2>2. [inbox[k] EXCEPT !.status = "pending", !.attempts = 0, !.wait = d, !.lease = 0] \in Row
    BY <1>0, <1>a, WaitsNat DEF Row, Statuses
  <2>3. inbox' \in [Keys -> Row]
    BY <2>1, <2>2, OneRow
  <2> QED BY <1>a, <1>2, <2>3 DEF Requeue, TypeOK, Busy
<1>3. ASSUME NEW w \in Workers, BeginTick(w) PROVE TypeOK'
  <2>1. [wk[w] EXCEPT !.pc = "claiming"] \in Process
    BY <1>0 DEF Process, Stages
  <2> QED BY <1>0, <1>3, <2>1 DEF BeginTick, TypeOK, Busy, Process
<1>4. ASSUME NEW w \in Workers, NEW k \in Keys, Claim(w, k) PROVE TypeOK'
  <2> DEFINE p == [wk[w] EXCEPT !.pc = "processing", !.key = k,
                                !.attempts = inbox[k].attempts + 1, !.lease = LeaseTicks]
  <2>1. inbox' \in [Keys -> Row]
    BY <1>0, <1>4, RowChanges, OneRow DEF Claim
  <2>2. p \in Process /\ p.key = k /\ p.pc = "processing"
    <3>1. inbox[k].attempts + 1 \in Nat
      BY <1>0 DEF Row
    <3> QED BY <1>0, <1>a, <3>1 DEF Process, Stages
  <2>3. wk' = [wk EXCEPT ![w] = p]
    BY <1>4 DEF Claim
  <2> HIDE DEF p
  <2>4. /\ wk' \in [Workers -> Process]
        /\ \A v \in Workers : wk'[v].key \in Keys <=> Busy(v)'
    BY <2>2, <2>3, OneWorker
  <2> QED BY <1>4, <2>1, <2>4 DEF Claim, TypeOK
<1>5. ASSUME NEW w \in Workers, ClaimNothing(w) PROVE TypeOK'
  <2>1. [wk[w] EXCEPT !.pc = "idle"] \in Process
    BY <1>0 DEF Process, Stages
  <2> QED BY <1>0, <1>5, <2>1 DEF ClaimNothing, TypeOK, Busy, Process
<1>6. ASSUME NEW w \in Workers, wk' = [wk EXCEPT ![w] = Freed(@)]
      PROVE  /\ wk' \in [Workers -> Process]
             /\ \A v \in Workers : wk'[v].key \in Keys <=> Busy(v)'
  <2>1. Freed(wk[w]).key \notin Keys
    BY <1>0, <1>a, FreeWorkers
  <2> QED BY <1>0, <1>6, <2>1, FreeWorkers, OneWorker
<1>7. ASSUME NEW w \in Workers, NEW s \in {"processed", "skipped"}, Ack(w, s)
      PROVE  TypeOK'
  <2>1. wk[w].key \in Keys
    BY <1>0, <1>7 DEF Ack, Busy
  <2>2. inbox' \in [Keys -> Row]
    BY <1>0, <1>7, <2>1, RowChanges, OneRow DEF Ack, Terminal
  <2> QED BY <1>6, <1>7, <2>2 DEF Ack, TypeOK
<1>8. ASSUME NEW w \in Workers, NEW err \in Errors, wk[w].pc = "processing",
             wk' = [wk EXCEPT ![w].pc = "failing", ![w].err = err]
      PROVE  /\ wk' \in [Workers -> Process]
             /\ \A v \in Workers : wk'[v].key \in Keys <=> Busy(v)'
  <2> DEFINE p == [wk[w] EXCEPT !.pc = "failing", !.err = err]
  <2>1. p \in Process /\ p.key = wk[w].key /\ p.pc = "failing"
    BY <1>0 DEF Process, Stages
  <2>2. wk' = [wk EXCEPT ![w] = p]
    BY <1>8
  <2>3. wk[w].key \in Keys
    BY <1>0, <1>8 DEF Busy
  <2> HIDE DEF p
  <2> QED BY <2>1, <2>2, <2>3, OneWorker
<1>9. ASSUME NEW w \in Workers, NEW err \in Errors, ProcessThrows(w, err)
      PROVE  TypeOK'
  BY <1>8, <1>9 DEF ProcessThrows, TypeOK
<1>10. ASSUME NEW w \in Workers, NEW s \in {"processed", "skipped"}, AckThrows(w, s)
       PROVE  TypeOK'
  <2>1. wk[w].key \in Keys
    BY <1>0, <1>10 DEF AckThrows, Busy
  <2>2. inbox' \in [Keys -> Row]
    <3>1. CASE inbox' = [inbox EXCEPT ![wk[w].key] = Closed(@, s)]
      BY <1>0, <2>1, <3>1, RowChanges, OneRow DEF Terminal
    <3>2. CASE UNCHANGED inbox
      BY <3>2 DEF TypeOK
    <3> QED BY <1>10, <3>1, <3>2 DEF AckThrows
  <2>3. /\ wk' \in [Workers -> Process]
        /\ \A v \in Workers : wk'[v].key \in Keys <=> Busy(v)'
    BY <1>8, <1>10 DEF AckThrows, Errors
  <2> QED BY <1>a, <1>10, <2>2, <2>3 DEF AckThrows, Fault, TypeOK
<1>11. ASSUME NEW w \in Workers, DeadLetter(w) PROVE TypeOK'
  <2>1. wk[w].key \in Keys
    BY <1>0, <1>11 DEF DeadLetter, Busy
  <2>2. inbox' \in [Keys -> Row]
    BY <1>0, <1>11, <2>1, RowChanges, OneRow DEF DeadLetter, Terminal
  <2>3. [wk[w] EXCEPT !.pc = "recording"] \in Process
    BY <1>0 DEF Process, Stages
  <2> QED BY <1>0, <1>11, <2>1, <2>2, <2>3 DEF DeadLetter, TypeOK, Busy, Process
<1>12. ASSUME NEW w \in Workers, RecordFailure(w) PROVE TypeOK'
  <2>1. wk[w].key \in Keys
    BY <1>0, <1>12 DEF RecordFailure, Busy
  <2> QED BY <1>6, <1>12, <2>1 DEF RecordFailure, TypeOK
<1>13. ASSUME NEW w \in Workers, RetryLater(w) PROVE TypeOK'
  <2>1. wk[w].key \in Keys
    BY <1>0, <1>13 DEF RetryLater, Busy
  <2>2. PICK d \in Delays(wk[w].err, wk[w].attempts) : \E wait \in Waits(d) :
          inbox' = [inbox EXCEPT ![wk[w].key] = Delayed(@, wait)]
    BY <1>13 DEF RetryLater
  <2>3. PICK n \in Waits(d) : inbox' = [inbox EXCEPT ![wk[w].key] = Delayed(@, n)]
    BY <2>2
  <2>4. n \in Nat
    BY DelaysNat, WaitsNat
  <2>5. inbox' \in [Keys -> Row]
    BY <1>0, <2>1, <2>3, <2>4, RowChanges, OneRow
  <2> QED BY <1>6, <1>13, <2>5 DEF RetryLater, TypeOK
<1>14. ASSUME NEW w \in Workers, HandlerThrows(w) PROVE TypeOK'
  <2>1. /\ wk' \in [Workers -> Process]
        /\ \A v \in Workers : wk'[v].key \in Keys <=> Busy(v)'
    BY <1>6, <1>14 DEF HandlerThrows
  <2>2. faults' \in 0..MaxFaults
    BY <1>a, <1>14 DEF HandlerThrows, Fault, TypeOK
  <2> QED BY <1>14, <2>1, <2>2 DEF HandlerThrows, TypeOK
<1>15. ASSUME NEW w \in Workers, wk' = [wk EXCEPT ![w] = Fresh]
       PROVE  /\ wk' \in [Workers -> Process]
              /\ \A v \in Workers : wk'[v].key \in Keys <=> Busy(v)'
  <2>1. Fresh.key \notin Keys
    BY <1>0, <1>a, FreeWorkers
  <2> QED BY <1>0, <1>15, <2>1, FreeWorkers, OneWorker
<1>16. ASSUME NEW w \in Workers, Crash(w) PROVE TypeOK'
  <2>1. /\ wk' \in [Workers -> Process]
        /\ \A v \in Workers : wk'[v].key \in Keys <=> Busy(v)'
    BY <1>15, <1>16 DEF Crash
  <2>2. faults' \in 0..MaxFaults
    BY <1>a, <1>16 DEF Crash, Fault, TypeOK
  <2> QED BY <1>16, <2>1, <2>2 DEF Crash, TypeOK
<1>17. ASSUME NEW w \in Workers, Stop(w) PROVE TypeOK'
  <2>1. \A s \in {"waiting", "returned", "early"} : [wk[w] EXCEPT !.stop = s] \in Process
    BY <1>0 DEF Process
  <2> QED BY <1>0, <1>a, <1>17, <2>1 DEF Stop, Fault, TypeOK, Busy, Process
<1>18. ASSUME NEW w \in Workers, Exit(w) PROVE TypeOK'
  BY <1>15, <1>18 DEF Exit, TypeOK
<1>19. ASSUME Tick PROVE TypeOK'
  <2>1. \A k \in Keys : [inbox[k] EXCEPT !.wait = Less1(@), !.lease = Less1(@)] \in Row
    <3> SUFFICES ASSUME NEW k \in Keys
                 PROVE  [inbox[k] EXCEPT !.wait = Less1(@), !.lease = Less1(@)] \in Row
      OBVIOUS
    <3>1. Less1(inbox[k].wait) \in Nat /\ Less1(inbox[k].lease) \in 0..LeaseTicks
      BY <1>0, <1>a DEF Row, Less1
    <3> QED BY <1>0, <3>1 DEF Row
  <2>2. \A w \in Workers : [wk[w] EXCEPT !.lease = Less1(@)] \in Process
    <3> SUFFICES ASSUME NEW w \in Workers
                 PROVE  [wk[w] EXCEPT !.lease = Less1(@)] \in Process
      OBVIOUS
    <3>1. Less1(wk[w].lease) \in 0..LeaseTicks
      BY <1>0, <1>a DEF Process, Less1
    <3> QED BY <1>0, <3>1 DEF Process
  <2> QED BY <1>0, <1>19, <2>1, <2>2 DEF Tick, TypeOK, Busy, Process
<1>20. CASE UNCHANGED vars
  BY <1>20 DEF vars, TypeOK, Busy
<1> QED
  BY <1>1, <1>2, <1>3, <1>4, <1>5, <1>7, <1>9, <1>10, <1>11, <1>12, <1>13,
     <1>14, <1>16, <1>17, <1>18, <1>19, <1>20 DEF Next, Step, Mishap

\* Every reachable state is well typed.
THEOREM TypeCorrect == Spec => []TypeOK
<1>1. ASSUME Init PROVE TypeOK
  <2>1. Fresh \in Process /\ Fresh.pc = "idle" /\ Fresh.key \notin Keys
    BY ConstantsOK DEF ConstantsOK, Fresh, Process, Stages
  <2>2. /\ inbox \in [Keys -> Row]
        /\ wk \in [Workers -> Process]
        /\ \A w \in Workers : wk[w].key \in Keys <=> Busy(w)
    BY <1>1, <2>1, NoRowType DEF Init, Busy
  <2>3. audited \subseteq Keys /\ faults \in 0..MaxFaults /\ requeues \in 0..MaxRequeues
    BY <1>1, ConstantsOK DEF ConstantsOK, Init
  <2> QED BY <2>2, <2>3 DEF TypeOK
<1> QED BY <1>1, TypeStep, PTL DEF Spec

-----------------------------------------------------------------------------
(* Exclusive claims *)

\* Workers finish within their leases, and operators requeue only what was
\* dead-lettered: the two things claim, ack and requeue do not check.
Punctual == "overrun" \notin Faults /\ RequeueFrom \subseteq {"dead"}

\* A step of worker w that gives its event up, or works on it no more, leaves
\* the other workers' claims alone.
LEMMA OthersKeep ==
  ASSUME TypeOK, HolderOwnsRow, NEW w \in Workers, NEW p,
         wk' = [wk EXCEPT ![w] = p], p.key \notin Keys \/ p.pc = "recording",
         \A k \in Keys : k # wk[w].key => inbox'[k] = inbox[k],
         \A k \in Keys : \/ inbox'[k].id = inbox[k].id /\ inbox'[k].status # "absent"
                         \/ inbox'[k] = inbox[k],
         Holds(w, wk[w].key) \/ inbox' = inbox
  PROVE  HolderOwnsRow'
<1>1. ASSUME NEW v \in Workers, NEW k \in Keys, Holds(v, k)'
      PROVE  v # w /\ Holds(v, k) /\ wk'[v] = wk[v]
  BY <1>1 DEF Holds, TypeOK
<1>2. \A k \in Keys : (Published(k) <=> inbox[k].status # "absent")'
  <2> TAKE k \in Keys
  <2>1. CASE inbox'[k] = inbox[k]
    BY <2>1 DEF HolderOwnsRow, Published
  <2>2. CASE inbox'[k].id = inbox[k].id /\ inbox'[k].status # "absent" /\ inbox'[k] # inbox[k]
    <3>1. k = wk[w].key /\ Holds(w, k)
      BY <2>2
    <3>2. inbox[k].status # "absent"
      BY <3>1 DEF HolderOwnsRow
    <3> QED BY <2>2, <3>2 DEF HolderOwnsRow, Published
  <2> QED BY <2>1, <2>2
<1>3. ASSUME NEW v \in Workers, NEW k \in Keys, Holds(v, k)'
      PROVE  inbox'[k] = inbox[k]
  <2>1. Holds(v, k) /\ v # w
    BY <1>1, <1>3
  <2>2. inbox' = inbox \/ k # wk[w].key
    BY <2>1 DEF HolderOwnsRow
  <2> QED BY <2>2
<1>4. ASSUME NEW v \in Workers, NEW u \in Workers, NEW k \in Keys, Holds(v, k)', Holds(u, k)'
      PROVE  v = u
  BY <1>1, <1>4 DEF HolderOwnsRow
<1>5. ASSUME NEW v \in Workers, NEW k \in Keys, Holds(v, k)'
      PROVE  /\ wk'[v].lease > 0
             /\ \/ inbox'[k].status = "in_flight" /\ inbox'[k].lease = wk'[v].lease
                \/ wk'[v].pc = "failing" /\ inbox'[k].status \in {"processed", "skipped"}
  BY <1>1, <1>3, <1>5 DEF HolderOwnsRow
<1> QED BY <1>2, <1>4, <1>5 DEF HolderOwnsRow

\* While workers are punctual, whoever holds an event owns its row.
LEMMA HolderStep ==
  ASSUME Punctual
  PROVE  TypeOK /\ HolderOwnsRow /\ [Next]_vars => HolderOwnsRow'
<1> SUFFICES ASSUME TypeOK, HolderOwnsRow, [Next]_vars PROVE HolderOwnsRow'
  OBVIOUS
<1>a. LeaseTicks > 0 /\ NoKey \notin Keys /\ RequeueFrom \subseteq {"dead"}
  BY ConstantsOK DEF ConstantsOK, Punctual
<1>0. /\ \A k \in Keys : inbox[k] \in Row
      /\ \A w \in Workers : wk[w] \in Process
      /\ \A w \in Workers : wk[w].key \in Keys <=> Busy(w)
      /\ \A k \in Keys : Published(k) <=> inbox[k].status # "absent"
  BY DEF TypeOK, HolderOwnsRow
<1>b. \A w \in Workers : wk[w].pc \in {"processing", "failing"} =>
                           wk[w].key \in Keys /\ Holds(w, wk[w].key)
  BY <1>0 DEF Busy, Holds
<1>c. \A w, v \in Workers : \A k \in Keys : Holds(w, k) /\ Holds(v, k) => w = v
  BY DEF HolderOwnsRow
<1>d. \A w \in Workers : \A k \in Keys : Holds(w, k) =>
        /\ wk[w].lease > 0
        /\ \/ inbox[k].status = "in_flight" /\ inbox[k].lease = wk[w].lease
           \/ wk[w].pc = "failing" /\ inbox[k].status \in {"processed", "skipped"}
  BY DEF HolderOwnsRow
<1>1. ASSUME NEW k \in Keys, Publish(k) PROVE HolderOwnsRow'
  <2>1. CASE Published(k)
    BY <1>1, <2>1 DEF Publish, HolderOwnsRow, Published, Holds
  <2>2. CASE ~Published(k)
    <3>1. \A w \in Workers : ~Holds(w, k)
      BY <1>0, <2>2 DEF HolderOwnsRow
    <3>2. \A j \in Keys : j # k => inbox'[j] = inbox[j]
      BY <1>1, <2>2 DEF Publish, TypeOK
    <3>3. inbox'[k].status = "pending" /\ inbox'[k].id # 0
      <4> DEFINE n == Cardinality({j \in Keys : Published(j)})
      <4>1. n \in Nat
        BY FS_Subset, FS_CardinalityType, ConstantsOK DEF ConstantsOK
      <4>2. inbox'[k] = [NoRow EXCEPT !.id = 1 + n, !.status = "pending"]
        BY <1>1, <2>2 DEF Publish, TypeOK
      <4> HIDE DEF n
      <4> QED BY <4>1, <4>2 DEF NoRow
    <3>4. \A w \in Workers : \A j \in Keys :
            Holds(w, j)' => Holds(w, j) /\ j # k /\ wk'[w] = wk[w]
      BY <1>1, <3>1 DEF Publish, Holds
    <3>5. \A j \in Keys : (Published(j) <=> inbox[j].status # "absent")'
      BY <1>0, <3>2, <3>3 DEF Published
    <3>6. \A w, v \in Workers : \A j \in Keys : (Holds(w, j) /\ Holds(v, j) => w = v)'
      BY <1>c, <3>4
    <3>7. \A w \in Workers : \A j \in Keys : (Holds(w, j) =>
            /\ wk[w].lease > 0
            /\ \/ inbox[j].status = "in_flight" /\ inbox[j].lease = wk[w].lease
               \/ wk[w].pc = "failing" /\ inbox[j].status \in {"processed", "skipped"})'
      BY <1>d, <3>2, <3>4
    <3> QED BY <3>5, <3>6, <3>7 DEF HolderOwnsRow
  <2> QED BY <2>1, <2>2
<1>2. ASSUME NEW k \in Keys, Requeue(k) PROVE HolderOwnsRow'
  <2>1. inbox[k].status = "dead"
    BY <1>a, <1>2 DEF Requeue
  <2>2. \A w \in Workers : ~Holds(w, k)
    BY <2>1 DEF HolderOwnsRow
  <2>3. /\ \A j \in Keys : j # k => inbox'[j] = inbox[j]
        /\ inbox'[k].id = inbox[k].id /\ inbox'[k].status = "pending"
    BY <1>0, <1>2 DEF Requeue, TypeOK, Row
  <2> QED BY <1>2, <2>1, <2>2, <2>3 DEF Requeue, HolderOwnsRow, Published, Holds
<1>3. ASSUME NEW w \in Workers, BeginTick(w) PROVE HolderOwnsRow'
  <2>1. \A v \in Workers : \A k \in Keys : Holds(v, k)' => Holds(v, k) /\ wk'[v] = wk[v]
    BY <1>3 DEF BeginTick, TypeOK, Holds
  <2> QED BY <1>3, <2>1 DEF BeginTick, HolderOwnsRow, Published
<1>4. ASSUME NEW w \in Workers, NEW k \in Keys, Claim(w, k) PROVE HolderOwnsRow'
  <2>1. Claimable(k) /\ wk[w].pc = "claiming"
    BY <1>4 DEF Claim, IsNext
  <2>2. \A v \in Workers : ~Holds(v, k)
    BY <2>1 DEF HolderOwnsRow, Claimable
  <2>3. \A v \in Workers : v # w => wk'[v] = wk[v]
    BY <1>4 DEF Claim, TypeOK
  <2>4. /\ wk'[w].key = k /\ wk'[w].lease = LeaseTicks
        /\ inbox'[k].status = "in_flight" /\ inbox'[k].lease = LeaseTicks
        /\ inbox'[k].id = inbox[k].id
    BY <1>0, <1>4 DEF Claim, TypeOK, Locked, Row, Process
  <2>5. \A j \in Keys : j # k => inbox'[j] = inbox[j]
    BY <1>4 DEF Claim, TypeOK
  <2>6. inbox[k].status # "absent"
    BY <2>1 DEF Claimable
  <2>7. \A v \in Workers : \A j \in Keys :
          Holds(v, j)' => (v = w /\ j = k) \/ (j # k /\ v # w /\ Holds(v, j) /\ wk'[v] = wk[v])
    BY <2>2, <2>3, <2>4 DEF Holds
  <2>8. \A j \in Keys : (Published(j) <=> inbox[j].status # "absent")'
    BY <1>0, <2>4, <2>5, <2>6 DEF Published
  <2>9. ASSUME NEW v \in Workers, NEW j \in Keys, Holds(v, j)'
        PROVE  /\ wk'[v].lease > 0
               /\ \/ inbox'[j].status = "in_flight" /\ inbox'[j].lease = wk'[v].lease
                  \/ wk'[v].pc = "failing" /\ inbox'[j].status \in {"processed", "skipped"}
    BY <1>a, <2>4, <2>5, <2>7, <2>9 DEF HolderOwnsRow
  <2>10. ASSUME NEW v \in Workers, NEW u \in Workers, NEW j \in Keys, Holds(v, j)', Holds(u, j)'
         PROVE  v = u
    BY <2>7, <2>10 DEF HolderOwnsRow
  <2> QED BY <2>8, <2>9, <2>10 DEF HolderOwnsRow
<1>5. ASSUME NEW w \in Workers, ClaimNothing(w) PROVE HolderOwnsRow'
  <2>1. \A v \in Workers : \A k \in Keys : Holds(v, k)' => Holds(v, k) /\ wk'[v] = wk[v]
    BY <1>5 DEF ClaimNothing, TypeOK, Holds
  <2> QED BY <1>5, <2>1 DEF ClaimNothing, HolderOwnsRow, Published
<1>6. \A w \in Workers : Fresh.key \notin Keys /\ Freed(wk[w]).key \notin Keys
  BY <1>0, <1>a, FreeWorkers
<1>7. ASSUME NEW w \in Workers, NEW s \in Statuses \ {"absent"}, wk[w].key \in Keys,
             inbox' = [inbox EXCEPT ![wk[w].key] = Closed(@, s)]
      PROVE  /\ \A k \in Keys : k # wk[w].key => inbox'[k] = inbox[k]
             /\ \A k \in Keys : \/ inbox'[k].id = inbox[k].id /\ inbox'[k].status # "absent"
                                \/ inbox'[k] = inbox[k]
             /\ inbox'[wk[w].key].status = s
  BY <1>0, <1>7 DEF TypeOK, Closed, Row
<1>8. ASSUME NEW w \in Workers, NEW s \in {"processed", "skipped"}, Ack(w, s)
      PROVE  HolderOwnsRow'
  <2>1. wk[w].key \in Keys /\ Holds(w, wk[w].key)
    BY <1>b, <1>8 DEF Ack
  <2> QED BY <1>6, <1>7, <1>8, <2>1, OthersKeep DEF Ack, Statuses
<1>e. ASSUME NEW w \in Workers, UNCHANGED inbox,
             \A v \in Workers : v # w => wk'[v] = wk[v],
             wk'[w].key = wk[w].key, wk'[w].lease = wk[w].lease,
             wk'[w].pc = "failing", wk[w].pc = "processing"
      PROVE  HolderOwnsRow'
  <2>1. \A v \in Workers : \A k \in Keys : Holds(v, k)' => Holds(v, k)
    BY <1>e DEF Holds
  <2>2. \A v, u \in Workers : \A k \in Keys : (Holds(v, k) /\ Holds(u, k) => v = u)'
    BY <1>c, <2>1
  <2>3. ASSUME NEW v \in Workers, NEW k \in Keys, Holds(v, k)'
        PROVE  /\ wk'[v].lease > 0
               /\ \/ inbox'[k].status = "in_flight" /\ inbox'[k].lease = wk'[v].lease
                  \/ wk'[v].pc = "failing" /\ inbox'[k].status \in {"processed", "skipped"}
    <3>1. Holds(v, k) /\ inbox' = inbox
      BY <1>e, <2>1, <2>3
    <3>2. CASE v = w
      BY <1>d, <1>e, <3>1, <3>2
    <3>3. CASE v # w
      BY <1>d, <1>e, <3>1, <3>3
    <3> QED BY <3>2, <3>3
  <2>4. \A k \in Keys : (Published(k) <=> inbox[k].status # "absent")'
    BY <1>0, <1>e DEF Published
  <2> QED BY <2>2, <2>3, <2>4 DEF HolderOwnsRow
<1>9. ASSUME NEW w \in Workers, NEW err \in Errors, ProcessThrows(w, err)
      PROVE  HolderOwnsRow'
  <2>1. /\ \A v \in Workers : v # w => wk'[v] = wk[v]
        /\ wk'[w].key = wk[w].key /\ wk'[w].lease = wk[w].lease /\ wk'[w].pc = "failing"
        /\ wk[w].pc = "processing"
    BY <1>0, <1>9 DEF ProcessThrows, TypeOK, Process
  <2> QED BY <1>e, <1>9, <2>1 DEF ProcessThrows
<1>10. ASSUME NEW w \in Workers, NEW s \in {"processed", "skipped"}, AckThrows(w, s)
       PROVE  HolderOwnsRow'
  <2>1. /\ \A v \in Workers : v # w => wk'[v] = wk[v]
        /\ wk'[w].key = wk[w].key /\ wk'[w].lease = wk[w].lease /\ wk'[w].pc = "failing"
        /\ wk[w].pc = "processing"
    BY <1>0, <1>10 DEF AckThrows, TypeOK, Process
  <2>2. \A v \in Workers : \A k \in Keys : Holds(v, k)' => Holds(v, k)
    BY <2>1 DEF Holds
  <2>3. CASE UNCHANGED inbox
    BY <1>e, <2>1, <2>3
  <2>4. CASE inbox' = [inbox EXCEPT ![wk[w].key] = Closed(@, s)]
    <3>1. PICK j \in Keys : j = wk[w].key /\ Holds(w, j)
      BY <1>b, <2>1
    <3>2. /\ \A k \in Keys : k # j => inbox'[k] = inbox[k]
          /\ inbox'[j].id = inbox[j].id /\ inbox'[j].status = s
      BY <1>0, <2>4, <3>1 DEF TypeOK, Closed, Row
    <3>3. \A v \in Workers : Holds(v, j)' => v = w
      BY <1>c, <2>2, <3>1
    <3>4. inbox[j].status # "absent"
      BY <3>1 DEF HolderOwnsRow
    <3>5. \A k \in Keys : (Published(k) <=> inbox[k].status # "absent")'
      BY <1>0, <3>1, <3>2, <3>4 DEF Published
    <3>6. ASSUME NEW v \in Workers, NEW k \in Keys, Holds(v, k)'
          PROVE  /\ wk'[v].lease > 0
                 /\ \/ inbox'[k].status = "in_flight" /\ inbox'[k].lease = wk'[v].lease
                    \/ wk'[v].pc = "failing" /\ inbox'[k].status \in {"processed", "skipped"}
      <4>1. CASE k = j
        BY <2>1, <3>1, <3>2, <3>3, <3>6, <4>1 DEF HolderOwnsRow
      <4>2. CASE k # j
        <5>1. v # w /\ Holds(v, k) /\ wk'[v] = wk[v] /\ inbox'[k] = inbox[k]
          BY <2>1, <2>2, <3>1, <3>2, <3>6, <4>2 DEF Holds
        <5> QED BY <1>d, <5>1
      <4> QED BY <4>1, <4>2
    <3>7. \A v, u \in Workers : \A k \in Keys : (Holds(v, k) /\ Holds(u, k) => v = u)'
      BY <1>c, <2>2
    <3> QED BY <3>5, <3>6, <3>7 DEF HolderOwnsRow
  <2> QED BY <1>10, <2>3, <2>4 DEF AckThrows
<1>11. ASSUME NEW w \in Workers, DeadLetter(w) PROVE HolderOwnsRow'
  <2>1. wk[w].key \in Keys /\ Holds(w, wk[w].key)
    BY <1>b, <1>11 DEF DeadLetter
  <2>2. wk' = [wk EXCEPT ![w] = [wk[w] EXCEPT !.pc = "recording"]]
    BY <1>11 DEF DeadLetter
  <2>3. [wk[w] EXCEPT !.pc = "recording"].pc = "recording"
    BY <1>0 DEF Process
  <2>4. /\ \A k \in Keys : k # wk[w].key => inbox'[k] = inbox[k]
        /\ \A k \in Keys : \/ inbox'[k].id = inbox[k].id /\ inbox'[k].status # "absent"
                           \/ inbox'[k] = inbox[k]
    BY <1>7, <1>11, <2>1 DEF DeadLetter, Statuses
  <2> QED BY <2>1, <2>2, <2>3, <2>4, OthersKeep
<1>12. ASSUME NEW w \in Workers, RecordFailure(w) PROVE HolderOwnsRow'
  BY <1>6, <1>12, OthersKeep DEF RecordFailure
<1>13. ASSUME NEW w \in Workers, RetryLater(w) PROVE HolderOwnsRow'
  <2>1. wk[w].key \in Keys /\ Holds(w, wk[w].key)
    BY <1>b, <1>13 DEF RetryLater
  <2>2. PICK n : inbox' = [inbox EXCEPT ![wk[w].key] = Delayed(@, n)]
    BY <1>13 DEF RetryLater
  <2>3. /\ \A k \in Keys : k # wk[w].key => inbox'[k] = inbox[k]
        /\ \A k \in Keys : \/ inbox'[k].id = inbox[k].id /\ inbox'[k].status # "absent"
                           \/ inbox'[k] = inbox[k]
    BY <1>0, <2>1, <2>2 DEF TypeOK, Delayed, Row
  <2> QED BY <1>6, <1>13, <2>1, <2>3, OthersKeep DEF RetryLater
<1>14. ASSUME NEW w \in Workers, HandlerThrows(w) PROVE HolderOwnsRow'
  BY <1>6, <1>14, OthersKeep DEF HandlerThrows
<1>15. ASSUME NEW w \in Workers, Crash(w) \/ Exit(w) PROVE HolderOwnsRow'
  BY <1>6, <1>15, OthersKeep DEF Crash, Exit
<1>16. ASSUME NEW w \in Workers, Stop(w) PROVE HolderOwnsRow'
  <2>1. \A v \in Workers : /\ wk'[v].key = wk[v].key /\ wk'[v].pc = wk[v].pc
                           /\ wk'[v].lease = wk[v].lease
    BY <1>0, <1>16 DEF Stop, TypeOK, Process
  <2> QED BY <1>16, <2>1 DEF Stop, HolderOwnsRow, Published, Holds
<1>17. ASSUME Tick PROVE HolderOwnsRow'
  <2>1. \A v \in Workers : /\ wk'[v].key = wk[v].key /\ wk'[v].pc = wk[v].pc
                           /\ wk'[v].lease = Less1(wk[v].lease)
                           /\ wk[v].lease # 1
    BY <1>0, <1>17 DEF Tick, TypeOK, Process, Punctual
  <2>2. \A k \in Keys : /\ inbox'[k].status = inbox[k].status /\ inbox'[k].id = inbox[k].id
                        /\ inbox'[k].lease = Less1(inbox[k].lease)
    BY <1>0, <1>17 DEF Tick, TypeOK, Row
  <2>3. \A v \in Workers : \A k \in Keys : Holds(v, k)' <=> Holds(v, k)
    BY <2>1 DEF Holds
  <2>4. \A v \in Workers : wk[v].lease > 0 => wk'[v].lease > 0
    BY <1>0, <2>1 DEF Less1, Process
  <2> QED BY <2>1, <2>2, <2>3, <2>4 DEF HolderOwnsRow, Published
<1>18. CASE UNCHANGED vars
  BY <1>18 DEF vars, HolderOwnsRow, Published, Holds
<1> QED
  BY <1>1, <1>2, <1>3, <1>4, <1>5, <1>8, <1>9, <1>10, <1>11, <1>12, <1>13,
     <1>14, <1>15, <1>16, <1>17, <1>18 DEF Next, Step, Mishap

LEMMA HolderInit == Init => HolderOwnsRow
  BY DEF Init, HolderOwnsRow, Holds, Published, NoRow, Fresh

\* While workers are punctual, the row of an event belongs to its holder.
THEOREM HoldersOwnTheirRows ==
  ASSUME Punctual PROVE Spec => []HolderOwnsRow
<1>1. TypeOK /\ HolderOwnsRow /\ [Next]_vars => HolderOwnsRow'
  BY HolderStep
<1> QED BY <1>1, HolderInit, TypeCorrect, PTL DEF Spec

\* While workers are punctual, no two work on the same event.
THEOREM ClaimsAreExclusive ==
  ASSUME Punctual PROVE Spec => []ExclusiveClaim
<1>1. HolderOwnsRow => ExclusiveClaim
  BY DEF HolderOwnsRow, ExclusiveClaim
<1> QED BY <1>1, HoldersOwnTheirRows, PTL

\* While workers are punctual, an acknowledged event is reopened only by a
\* requeue or by the worker whose own ack threw.
THEOREM AcknowledgedIsFinal ==
  ASSUME Punctual PROVE Spec => DoneIsFinal
<1> DEFINE Done(k) == inbox[k].status \in {"processed", "skipped"}
           Final(k) == /\ Done(k)
                       /\ inbox'[k].status # inbox[k].status
                       => \/ requeues' # requeues
                          \/ \E w \in Workers : wk[w].pc = "failing" /\ wk[w].key = k
<1>1. ASSUME TypeOK, HolderOwnsRow, [Next]_vars, NEW k \in Keys,
             Done(k), inbox'[k].status # inbox[k].status
      PROVE  \/ requeues' # requeues
             \/ \E w \in Workers : wk[w].pc = "failing" /\ wk[w].key = k
  <2>0. /\ \A j \in Keys : inbox[j] \in Row
        /\ \A w \in Workers : wk[w].key \in Keys <=> Busy(w)
        /\ requeues \in Nat
    BY <1>1 DEF TypeOK
  <2>1. Published(k) /\ ~Claimable(k)
    BY <1>1 DEF HolderOwnsRow, Claimable
  <2>2. ASSUME NEW w \in Workers, wk[w].pc = "processing" PROVE wk[w].key # k
    BY <1>1, <2>0, <2>2 DEF HolderOwnsRow, Holds, Busy
  <2>3. ASSUME NEW j \in Keys, Publish(j) PROVE FALSE
    BY <1>1, <2>1, <2>3 DEF Publish, TypeOK
  <2>4. ASSUME NEW j \in Keys, Requeue(j) PROVE requeues' # requeues
    BY <2>0, <2>4 DEF Requeue
  <2>5. ASSUME NEW w \in Workers, NEW j \in Keys, Claim(w, j) PROVE FALSE
    BY <1>1, <2>1, <2>5 DEF Claim, IsNext, TypeOK
  <2>6. ASSUME NEW w \in Workers, NEW s \in {"processed", "skipped"},
               Ack(w, s) \/ AckThrows(w, s)
        PROVE  FALSE
    BY <1>1, <2>2, <2>6 DEF Ack, AckThrows, TypeOK
  <2>7. ASSUME NEW w \in Workers, DeadLetter(w) \/ RetryLater(w)
        PROVE  wk[w].pc = "failing" /\ wk[w].key = k
    BY <1>1, <2>7 DEF DeadLetter, RetryLater, TypeOK
  <2>8. ASSUME Tick PROVE FALSE
    BY <1>1, <2>0, <2>8 DEF Tick, TypeOK, Row
  <2>9. ASSUME UNCHANGED inbox PROVE FALSE
    BY <1>1, <2>9
  <2>10. CASE UNCHANGED vars
    BY <2>9, <2>10 DEF vars
  <2> QED
    BY <1>1, <2>3, <2>4, <2>5, <2>6, <2>7, <2>8, <2>9, <2>10
    DEF Next, Step, Mishap, BeginTick, ClaimNothing, ProcessThrows, RecordFailure,
        HandlerThrows, Crash, Stop, Exit
<1>2. TypeOK /\ HolderOwnsRow /\ [Next]_vars => [\A k \in Keys : Final(k)]_vars
  BY <1>1
<1> QED BY <1>2, TypeCorrect, HoldersOwnTheirRows, PTL DEF Spec, DoneIsFinal

-----------------------------------------------------------------------------
(* What the mapping sees of a step *)

\* The step leaves event k where it is in the port.
Stays(k) == HoldersOf(k)' = HoldersOf(k) /\ PhaseOf(k)' = PhaseOf(k)

\* A step that moves no event, and no operator asks for, is a stutter of the
\* port.
LEMMA PortStutters ==
  ASSUME \A k \in Keys : Stays(k), requeues' = requeues
  PROVE  UNCHANGED Port!portVars
  BY DEF Stays, Port!portVars

\* A step that moves one event only is a step of the port when that event
\* takes one of the port's ways.
LEMMA PortMoves ==
  ASSUME NEW k \in Keys, \A j \in Keys : j # k => Stays(j),
         \/ /\ PhaseOf(k) = "absent" /\ PhaseOf(k)' = "open"
            /\ HoldersOf(k)' = HoldersOf(k) /\ requeues' = requeues
         \/ /\ PhaseOf(k) = "parked" /\ PhaseOf(k)' = "open"
            /\ HoldersOf(k)' = HoldersOf(k) /\ requeues' = requeues + 1
         \/ \E w \in Workers :
              \/ /\ PhaseOf(k) = "open" /\ HoldersOf(k) = {}
                 /\ PhaseOf(k)' = "held" /\ HoldersOf(k)' = {w}
                 /\ requeues' = requeues
              \/ /\ PhaseOf(k) = "held" /\ HoldersOf(k) = {w}
                 /\ PhaseOf(k)' \in {"open", "done", "parked"} /\ HoldersOf(k)' = {}
                 /\ requeues' = requeues
  PROVE  Port!Next
<1> DEFINE ph == [j \in Keys |-> PhaseOf(j)]
           ho == [j \in Keys |-> HoldersOf(j)]
<1>1. /\ ph' = [ph EXCEPT ![k] = PhaseOf(k)']
      /\ ho' = [ho EXCEPT ![k] = HoldersOf(k)']
      /\ ph[k] = PhaseOf(k) /\ ho[k] = HoldersOf(k)
  BY DEF Stays
<1>2. HoldersOf(k)' = HoldersOf(k) => ho' = ho
  BY <1>1
<1> HIDE DEF ph, ho
<1>3. CASE /\ PhaseOf(k) = "absent" /\ PhaseOf(k)' = "open"
           /\ HoldersOf(k)' = HoldersOf(k) /\ requeues' = requeues
  BY <1>1, <1>2, <1>3 DEF Port!Next, Port!Publish, ph, ho
<1>4. CASE /\ PhaseOf(k) = "parked" /\ PhaseOf(k)' = "open"
           /\ HoldersOf(k)' = HoldersOf(k) /\ requeues' = requeues + 1
  BY <1>1, <1>2, <1>4 DEF Port!Next, Port!Requeue, ph, ho
<1>5. ASSUME NEW w \in Workers,
             PhaseOf(k) = "open", HoldersOf(k) = {},
             PhaseOf(k)' = "held", HoldersOf(k)' = {w}, requeues' = requeues
      PROVE  Port!Next
  <2>1. /\ ph[k] = "open" /\ ho[k] = {}
        /\ ph' = [ph EXCEPT ![k] = "held"]
        /\ ho' = [ho EXCEPT ![k] = {w}]
    BY <1>1, <1>5
  <2>2. Port!Claim(w, k)
    BY <1>5, <2>1 DEF Port!Claim, ph, ho
  <2> QED BY <2>2 DEF Port!Next
<1>6. ASSUME NEW w \in Workers,
             PhaseOf(k) = "held", HoldersOf(k) = {w},
             PhaseOf(k)' \in {"open", "done", "parked"}, HoldersOf(k)' = {},
             requeues' = requeues
      PROVE  Port!Next
  <2>1. /\ ph[k] = "held" /\ ho[k] = {w}
        /\ ph' = [ph EXCEPT ![k] = PhaseOf(k)']
        /\ ho' = [ho EXCEPT ![k] = {}]
    BY <1>1, <1>6
  <2>2. Port!Release(w, k, PhaseOf(k)')
    BY <1>6, <2>1 DEF Port!Release, ph, ho
  <2> QED BY <1>6, <2>2 DEF Port!Next
<1> QED BY <1>3, <1>4, <1>5, <1>6

\* An event stays where it is when its workers do, and its status is the same
\* or is hidden by a holder.
LEMMA StaysIf ==
  ASSUME NEW k \in Keys, \A w \in Workers : Holds(w, k)' <=> Holds(w, k),
         inbox'[k].status = inbox[k].status \/ \E w \in Workers : Holds(w, k)
  PROVE  Stays(k)
<1>1. HoldersOf(k)' = HoldersOf(k)
  BY DEF HoldersOf
<1>2. CASE inbox'[k].status = inbox[k].status
  BY <1>1, <1>2 DEF Stays, PhaseOf
<1>3. CASE \E w \in Workers : Holds(w, k)
  <2>1. HoldersOf(k) # {}
    BY <1>3 DEF HoldersOf
  <2> QED BY <1>1, <2>1 DEF Stays, PhaseOf
<1> QED BY <1>2, <1>3

\* A worker that gives its event up, and no other, moves that event only: it
\* is open, done or parked then.
LEMMA GivesUpHold ==
  ASSUME TypeOK, HolderOwnsRow, NEW w \in Workers, NEW p,
         wk' = [wk EXCEPT ![w] = p], p.key \notin Keys \/ p.pc = "recording",
         \A k \in Keys : k # wk[w].key => inbox'[k] = inbox[k],
         \A k \in Keys : Holds(w, k) => inbox'[k].status # "absent",
         Holds(w, wk[w].key) \/ inbox' = inbox,
         requeues' = requeues
  PROVE  Port!Next \/ UNCHANGED Port!portVars
<1>1. \A k \in Keys : \A v \in Workers : Holds(v, k)' <=> v # w /\ Holds(v, k)
  BY DEF Holds, TypeOK
<1>2. CASE \E k \in Keys : Holds(w, k)
  <2>1. PICK k \in Keys : Holds(w, k)
    BY <1>2
  <2>2. wk[w].key = k
    BY <2>1 DEF Holds
  <2>3. \A v \in Workers : Holds(v, k) <=> v = w
    BY <2>1 DEF HolderOwnsRow
  <2>4. HoldersOf(k) = {w} /\ HoldersOf(k)' = {}
    BY <1>1, <2>3 DEF HoldersOf
  <2>5. PhaseOf(k) = "held" /\ PhaseOf(k)' \in {"open", "done", "parked"}
    BY <2>1, <2>4 DEF PhaseOf
  <2>6. \A j \in Keys : j # k => Stays(j)
    <3> SUFFICES ASSUME NEW j \in Keys, j # k PROVE Stays(j)
      OBVIOUS
    <3>1. ~Holds(w, j)
      BY <2>2 DEF Holds
    <3> QED BY <1>1, <2>2, <3>1, StaysIf
  <2> QED BY <2>4, <2>5, <2>6, PortMoves
<1>3. CASE ~\E k \in Keys : Holds(w, k)
  <2>1. \A k \in Keys : inbox'[k] = inbox[k]
    BY <1>3 DEF Holds
  <2> QED BY <1>1, <1>3, <2>1, StaysIf, PortStutters
<1> QED BY <1>2, <1>3

-----------------------------------------------------------------------------
(* EventQueue implements EventPort *)

\* Nothing is published at first.
LEMMA PortInit == Init => Port!Init
  BY DEF Init, Port!Init, PhaseOf, HoldersOf, Holds, NoRow, Fresh

\* Every step of a punctual queue is a step of the port, or moves no event.
LEMMA PortStep ==
  ASSUME Punctual
  PROVE  TypeOK /\ HolderOwnsRow /\ [Next]_vars => [Port!Next]_(Port!portVars)
<1> SUFFICES ASSUME TypeOK, HolderOwnsRow, [Next]_vars
             PROVE  Port!Next \/ UNCHANGED Port!portVars
  OBVIOUS
<1>0. /\ \A k \in Keys : inbox[k] \in Row
      /\ \A w \in Workers : wk[w] \in Process
      /\ \A w \in Workers : wk[w].key \in Keys <=> Busy(w)
      /\ \A k \in Keys : Published(k) <=> inbox[k].status # "absent"
  BY DEF TypeOK, HolderOwnsRow
<1>a. \A w \in Workers : wk[w].pc \in {"processing", "failing"} =>
                           wk[w].key \in Keys /\ Holds(w, wk[w].key)
  BY <1>0 DEF Busy, Holds
<1>b. \A w \in Workers : Fresh.key \notin Keys /\ Freed(wk[w]).key \notin Keys
  BY <1>0, FreeWorkers, ConstantsOK DEF ConstantsOK
<1>c. \A w \in Workers : \A k \in Keys : Holds(w, k) =>
        inbox[k].status \in {"in_flight", "processed", "skipped"}
  BY DEF HolderOwnsRow
<1>1. ASSUME NEW k \in Keys, Publish(k) PROVE Port!Next \/ UNCHANGED Port!portVars
  <2>1. \A j \in Keys : \A w \in Workers : Holds(w, j)' <=> Holds(w, j)
    BY <1>1 DEF Publish, Holds
  <2>2. CASE Published(k)
    BY <1>1, <2>1, <2>2, StaysIf, PortStutters DEF Publish
  <2>3. CASE ~Published(k)
    <3>1. inbox[k].status = "absent" /\ \A w \in Workers : ~Holds(w, k)
      BY <1>0, <1>c, <2>3
    <3>2. \A j \in Keys : j # k => inbox'[j] = inbox[j]
      BY <1>1, <2>3 DEF Publish, TypeOK
    <3>3. inbox'[k].status = "pending"
      BY <1>1, <2>3 DEF Publish, TypeOK, NoRow
    <3>4. /\ PhaseOf(k) = "absent" /\ PhaseOf(k)' = "open" /\ HoldersOf(k)' = HoldersOf(k)
          /\ requeues' = requeues
      BY <1>1, <2>1, <3>1, <3>3 DEF PhaseOf, HoldersOf, Publish
    <3>5. \A j \in Keys : j # k => Stays(j)
      BY <2>1, <3>2, StaysIf
    <3> QED BY <3>4, <3>5, PortMoves
  <2> QED BY <2>2, <2>3
<1>2. ASSUME NEW k \in Keys, Requeue(k) PROVE Port!Next \/ UNCHANGED Port!portVars
  <2>1. inbox[k].status = "dead"
    BY <1>2 DEF Requeue, Punctual
  <2>2. \A j \in Keys : \A w \in Workers : Holds(w, j)' <=> Holds(w, j)
    BY <1>2 DEF Requeue, Holds
  <2>3. \A w \in Workers : ~Holds(w, k)
    BY <1>c, <2>1
  <2>4. /\ \A j \in Keys : j # k => inbox'[j] = inbox[j]
        /\ inbox'[k].status = "pending"
    BY <1>0, <1>2 DEF Requeue, TypeOK, Row
  <2>5. /\ PhaseOf(k) = "parked" /\ PhaseOf(k)' = "open" /\ HoldersOf(k)' = HoldersOf(k)
        /\ requeues' = requeues + 1
    BY <1>2, <2>1, <2>2, <2>3, <2>4 DEF PhaseOf, HoldersOf, Requeue
  <2>6. \A j \in Keys : j # k => Stays(j)
    BY <2>2, <2>4, StaysIf
  <2> QED BY <2>5, <2>6, PortMoves
<1>3. ASSUME \A j \in Keys : \A w \in Workers : Holds(w, j)' <=> Holds(w, j),
             \A j \in Keys : inbox'[j].status = inbox[j].status,
             requeues' = requeues
      PROVE  Port!Next \/ UNCHANGED Port!portVars
  BY <1>3, StaysIf, PortStutters
<1>4. ASSUME NEW w \in Workers, NEW k \in Keys, Claim(w, k)
      PROVE  Port!Next \/ UNCHANGED Port!portVars
  <2>1. Claimable(k) /\ wk[w].pc = "claiming"
    BY <1>4 DEF Claim, IsNext
  <2>2. /\ \A v \in Workers : ~Holds(v, k)
        /\ inbox[k].status \in {"pending", "failed", "in_flight"}
    BY <2>1 DEF HolderOwnsRow, Claimable
  <2>3. /\ \A v \in Workers : v # w => wk'[v] = wk[v]
        /\ wk'[w].key = k /\ wk'[w].pc = "processing"
        /\ \A j \in Keys : j # k => inbox'[j] = inbox[j]
    BY <1>0, <1>4 DEF Claim, TypeOK, Process
  <2>4. \A v \in Workers : \A j \in Keys :
          Holds(v, j)' <=> (v = w /\ j = k) \/ (j # k /\ Holds(v, j))
    BY <2>1, <2>2, <2>3 DEF Holds
  <2>5. HoldersOf(k) = {} /\ HoldersOf(k)' = {w}
    BY <2>2, <2>4 DEF HoldersOf
  <2>6. PhaseOf(k) = "open" /\ PhaseOf(k)' = "held" /\ requeues' = requeues
    BY <1>4, <2>2, <2>5 DEF PhaseOf, Claim
  <2>7. \A j \in Keys : j # k => Stays(j)
    BY <2>3, <2>4, StaysIf
  <2> QED BY <2>5, <2>6, <2>7, PortMoves
<1>5. ASSUME NEW w \in Workers, BeginTick(w) \/ ClaimNothing(w)
      PROVE  Port!Next \/ UNCHANGED Port!portVars
  <2>1. /\ \A v \in Workers : wk'[v].key = wk[v].key
        /\ \A v \in Workers : v # w => wk'[v].pc = wk[v].pc
        /\ wk[w].pc \in {"idle", "claiming"} /\ wk'[w].pc \in {"idle", "claiming"}
    BY <1>0, <1>5 DEF BeginTick, ClaimNothing, TypeOK, Process
  <2>2. \A j \in Keys : \A v \in Workers : Holds(v, j)' <=> Holds(v, j)
    BY <2>1 DEF Holds
  <2> QED BY <1>3, <1>5, <2>2 DEF BeginTick, ClaimNothing
<1>6. ASSUME NEW w \in Workers, NEW s \in Statuses \ {"absent"}, wk[w].key \in Keys,
             inbox' = [inbox EXCEPT ![wk[w].key] = Closed(@, s)]
      PROVE  /\ \A k \in Keys : k # wk[w].key => inbox'[k] = inbox[k]
             /\ inbox'[wk[w].key].status # "absent"
  BY <1>0, <1>6 DEF TypeOK, Closed, Row
<1>7. ASSUME NEW w \in Workers, NEW s \in {"processed", "skipped"}, Ack(w, s)
      PROVE  Port!Next \/ UNCHANGED Port!portVars
  <2>1. wk[w].key \in Keys /\ Holds(w, wk[w].key)
    BY <1>a, <1>7 DEF Ack
  <2>2. /\ \A k \in Keys : k # wk[w].key => inbox'[k] = inbox[k]
        /\ \A k \in Keys : Holds(w, k) => inbox'[k].status # "absent"
    BY <1>6, <1>7, <2>1 DEF Ack, Statuses, Holds
  <2> QED BY <1>b, <1>7, <2>1, <2>2, GivesUpHold DEF Ack
<1>8. ASSUME NEW w \in Workers, wk[w].pc = "processing",
             NEW err, wk' = [wk EXCEPT ![w].pc = "failing", ![w].err = err],
             \A k \in Keys : k # wk[w].key => inbox'[k] = inbox[k],
             requeues' = requeues
      PROVE  Port!Next \/ UNCHANGED Port!portVars
  <2>1. Holds(w, wk[w].key)
    BY <1>a, <1>8
  <2>2. \A v \in Workers : \A j \in Keys : Holds(v, j)' <=> Holds(v, j)
    BY <1>0, <1>8 DEF Holds, TypeOK, Process
  <2>3. \A j \in Keys : Stays(j)
    BY <1>8, <2>1, <2>2, StaysIf
  <2> QED BY <1>8, <2>3, PortStutters
<1>9. ASSUME NEW w \in Workers, NEW err \in Errors, ProcessThrows(w, err)
      PROVE  Port!Next \/ UNCHANGED Port!portVars
  BY <1>8, <1>9 DEF ProcessThrows
<1>10. ASSUME NEW w \in Workers, NEW s \in {"processed", "skipped"}, AckThrows(w, s)
       PROVE  Port!Next \/ UNCHANGED Port!portVars
  <2>1. \A k \in Keys : k # wk[w].key => inbox'[k] = inbox[k]
    BY <1>10 DEF AckThrows, TypeOK
  <2> QED BY <1>8, <1>10, <2>1 DEF AckThrows
<1>11. ASSUME NEW w \in Workers, DeadLetter(w)
       PROVE  Port!Next \/ UNCHANGED Port!portVars
  <2>1. wk[w].key \in Keys /\ Holds(w, wk[w].key)
    BY <1>a, <1>11 DEF DeadLetter
  <2>2. wk' = [wk EXCEPT ![w] = [wk[w] EXCEPT !.pc = "recording"]]
    BY <1>11 DEF DeadLetter
  <2>3. [wk[w] EXCEPT !.pc = "recording"].pc = "recording"
    BY <1>0 DEF Process
  <2>4. /\ \A k \in Keys : k # wk[w].key => inbox'[k] = inbox[k]
        /\ \A k \in Keys : Holds(w, k) => inbox'[k].status # "absent"
    BY <1>6, <1>11, <2>1 DEF DeadLetter, Statuses, Holds
  <2> QED BY <1>11, <2>1, <2>2, <2>3, <2>4, GivesUpHold DEF DeadLetter
<1>12. ASSUME NEW w \in Workers, RetryLater(w)
       PROVE  Port!Next \/ UNCHANGED Port!portVars
  <2>1. wk[w].key \in Keys /\ Holds(w, wk[w].key)
    BY <1>a, <1>12 DEF RetryLater
  <2>2. PICK n : inbox' = [inbox EXCEPT ![wk[w].key] = Delayed(@, n)]
    BY <1>12 DEF RetryLater
  <2>3. /\ \A k \in Keys : k # wk[w].key => inbox'[k] = inbox[k]
        /\ inbox'[wk[w].key].status # "absent"
    BY <1>0, <2>1, <2>2 DEF TypeOK, Delayed, Row
  <2>4. \A k \in Keys : Holds(w, k) => inbox'[k].status # "absent"
    BY <2>3 DEF Holds
  <2> QED BY <1>b, <1>12, <2>1, <2>3, <2>4, GivesUpHold DEF RetryLater
<1>13. ASSUME NEW w \in Workers,
              RecordFailure(w) \/ HandlerThrows(w) \/ Crash(w) \/ Exit(w)
       PROVE  Port!Next \/ UNCHANGED Port!portVars
  <2>1. /\ inbox' = inbox /\ requeues' = requeues
        /\ \E p : wk' = [wk EXCEPT ![w] = p] /\ p.key \notin Keys
    BY <1>b, <1>13 DEF RecordFailure, HandlerThrows, Crash, Exit
  <2>2. \A k \in Keys : Holds(w, k) => inbox'[k].status # "absent"
    BY <1>c, <2>1
  <2> QED BY <2>1, <2>2, GivesUpHold
<1>14. ASSUME NEW w \in Workers, Stop(w)
       PROVE  Port!Next \/ UNCHANGED Port!portVars
  <2>1. \A v \in Workers : wk'[v].key = wk[v].key /\ wk'[v].pc = wk[v].pc
    BY <1>0, <1>14 DEF Stop, TypeOK, Process
  <2> QED BY <1>3, <1>14, <2>1 DEF Stop, Holds
<1>15. ASSUME Tick PROVE Port!Next \/ UNCHANGED Port!portVars
  <2>1. \A v \in Workers : wk'[v].key = wk[v].key /\ wk'[v].pc = wk[v].pc
    BY <1>0, <1>15 DEF Tick, TypeOK, Process
  <2>2. \A k \in Keys : inbox'[k].status = inbox[k].status
    BY <1>0, <1>15 DEF Tick, TypeOK, Row
  <2> QED BY <1>3, <1>15, <2>1, <2>2 DEF Holds, Tick
<1>16. CASE UNCHANGED vars
  BY <1>3, <1>16 DEF vars, Holds
<1> QED
  BY <1>1, <1>2, <1>4, <1>5, <1>7, <1>9, <1>10, <1>11, <1>12, <1>13, <1>14,
     <1>15, <1>16 DEF Next, Step, Mishap

\* The queue keeps the promise of its port: whatever is redelivered, reclaimed,
\* retried or lost, only the one holder of an event ends its hold, what is done
\* stays done, and a dead letter comes back by an operator's requeue alone.
THEOREM QueueImplementsPort ==
  ASSUME Punctual PROVE Spec => ImplementsPort
<1>1. TypeOK /\ HolderOwnsRow /\ [Next]_vars => [Port!Next]_(Port!portVars)
  BY PortStep
<1> QED BY <1>1, PortInit, TypeCorrect, HoldersOwnTheirRows, PTL
        DEF Spec, ImplementsPort, Port!Spec
=============================================================================
