------------------------ MODULE EventQueueLimitProofs ------------------------
(***************************************************************************)
(* Theorems about EventQueue's limits: what stop() leaves behind, and how  *)
(* often an event is attempted.                                            *)
(***************************************************************************)
EXTENDS EventQueueProofs

-----------------------------------------------------------------------------
(* Stops *)

\* A stop() that has returned has left no event in hand.
Rested == \A w \in Workers : wk[w].stop = "returned" => wk[w].pc = "idle"

LEMMA RestedStep == TypeOK /\ Rested /\ [Next]_vars => Rested'
<1> SUFFICES ASSUME TypeOK, Rested, [Next]_vars PROVE Rested'
  OBVIOUS
<1>1. ASSUME NEW w \in Workers, NEW p, wk' = [wk EXCEPT ![w] = p],
             p.stop = "returned" => p.pc = "idle"
      PROVE  Rested'
  BY <1>1 DEF TypeOK, Rested
<1>2. Fresh.stop = "no" /\ \A q \in Process : Freed(q).pc = "idle"
  BY DEF Fresh, Freed
<1>3. \A w \in Workers : wk[w] \in Process
  BY DEF TypeOK
<1>4. ASSUME NEW w \in Workers, NEW pc \in Stages, wk[w].stop # "returned",
             \/ wk' = [wk EXCEPT ![w].pc = pc]
             \/ \E err : wk' = [wk EXCEPT ![w].pc = pc, ![w].err = err]
             \/ \E k, n : wk' = [wk EXCEPT ![w] = [@ EXCEPT !.pc = pc, !.key = k,
                                                            !.attempts = n, !.lease = LeaseTicks]]
      PROVE  Rested'
  <2>1. wk'[w].stop = wk[w].stop
    <3>1. CASE wk' = [wk EXCEPT ![w].pc = pc]
      BY <1>3, <3>1 DEF TypeOK, Process
    <3>2. ASSUME NEW err, wk' = [wk EXCEPT ![w].pc = pc, ![w].err = err]
          PROVE  wk'[w].stop = wk[w].stop
      BY <1>3, <3>2 DEF TypeOK, Process
    <3>3. ASSUME NEW k, NEW n,
                 wk' = [wk EXCEPT ![w] = [@ EXCEPT !.pc = pc, !.key = k,
                                                   !.attempts = n, !.lease = LeaseTicks]]
          PROVE  wk'[w].stop = wk[w].stop
      BY <1>3, <3>3 DEF TypeOK, Process
    <3> QED BY <1>4, <3>1, <3>2, <3>3
  <2>2. \A v \in Workers : v # w => wk'[v] = wk[v]
    BY <1>4 DEF TypeOK
  <2> QED BY <1>4, <2>1, <2>2 DEF Rested
<1>5. ASSUME NEW w \in Workers, wk' = [wk EXCEPT ![w] = Freed(@)] \/ wk' = [wk EXCEPT ![w] = Fresh]
      PROVE  Rested'
  <2>1. \E p : wk' = [wk EXCEPT ![w] = p] /\ (p.stop = "returned" => p.pc = "idle")
    BY <1>2, <1>3, <1>5
  <2> QED BY <1>1, <2>1
<1>6. ASSUME NEW w \in Workers, wk[w].pc # "idle" PROVE wk[w].stop # "returned"
  BY <1>6 DEF Rested
<1>7. ASSUME NEW w \in Workers, BeginTick(w) PROVE Rested'
  BY <1>4, <1>7 DEF BeginTick, Stages
<1>8. ASSUME NEW w \in Workers, NEW k \in Keys, Claim(w, k) PROVE Rested'
  BY <1>4, <1>6, <1>8 DEF Claim, Stages
<1>9. ASSUME NEW w \in Workers, ClaimNothing(w) PROVE Rested'
  BY <1>4, <1>6, <1>9 DEF ClaimNothing, Stages
<1>10. ASSUME NEW w \in Workers, NEW err \in Errors, ProcessThrows(w, err) PROVE Rested'
  BY <1>4, <1>6, <1>10 DEF ProcessThrows, Stages
<1>11. ASSUME NEW w \in Workers, NEW s, AckThrows(w, s) PROVE Rested'
  BY <1>4, <1>6, <1>11 DEF AckThrows, Stages
<1>12. ASSUME NEW w \in Workers, DeadLetter(w) PROVE Rested'
  BY <1>4, <1>6, <1>12 DEF DeadLetter, Stages
<1>13. ASSUME NEW w \in Workers,
              \/ \E s : Ack(w, s)
              \/ RecordFailure(w) \/ RetryLater(w) \/ HandlerThrows(w) \/ Crash(w) \/ Exit(w)
       PROVE  Rested'
  BY <1>5, <1>13 DEF Ack, RecordFailure, RetryLater, HandlerThrows, Crash, Exit
<1>14. ASSUME NEW w \in Workers, Stop(w) PROVE Rested'
  BY <1>3, <1>14 DEF Stop, Busy, Rested, TypeOK, Process, Stages
<1>15. CASE Tick
  BY <1>3, <1>15 DEF Tick, Rested, Process
<1>16. CASE (\E k \in Keys : Publish(k) \/ Requeue(k)) \/ UNCHANGED vars
  BY <1>16 DEF Publish, Requeue, vars, Rested
<1> QED
  BY <1>7, <1>8, <1>9, <1>10, <1>11, <1>12, <1>13, <1>14, <1>15, <1>16
  DEF Next, Step, Mishap

\* A process that exits leaves a claimed event behind only when it was stopped
\* while it awaited that claim; stop() waits for every other event.
THEOREM StopsWait == Spec => StopWaits
<1> DEFINE Waits_ == \A w \in Workers : Exit(w) /\ wk[w].key # NoKey => wk[w].stop = "early"
<1>1. Init => Rested
  BY DEF Init, Rested, Fresh
<1>2. TypeOK /\ Rested => Waits_
  <2> SUFFICES ASSUME TypeOK, Rested, NEW w \in Workers, Exit(w), wk[w].stop = "returned"
               PROVE  wk[w].key = NoKey
    BY DEF Exit
  <2> QED BY DEF Rested, TypeOK, Busy, Process
<1>3. TypeOK /\ Rested /\ [Next]_vars => [Waits_]_vars
  BY <1>2
<1> QED BY <1>1, <1>3, RestedStep, TypeCorrect, PTL DEF Spec, StopWaits

-----------------------------------------------------------------------------
(* Attempts *)

Early == {w \in Workers : wk[w].stop = "early"}

Spent == Cardinality(Early)

\* The event is to be claimed again.
Due(k) ==
  /\ inbox[k].status \in {"pending", "failed", "in_flight"}
  /\ \A w \in Workers : ~Holds(w, k)

\* Every claim past MaxAttempts is paid for by a fault; a stop() that misses a
\* claim has yet to lose it.
Budget ==
  /\ IsFiniteSet(Early) /\ Spent <= faults
  /\ \A k \in Keys :
       /\ inbox[k].attempts + Spent <= MaxAttempts + faults
       /\ Due(k) => inbox[k].attempts + Spent < MaxAttempts + faults
       /\ \A w \in Workers : Holds(w, k) => wk[w].attempts = inbox[k].attempts

\* How the early stops change with one worker.
LEMMA EarlyOnes ==
  ASSUME IsFiniteSet(Early), wk \in [Workers -> Process], NEW w \in Workers, NEW p,
         wk' = [wk EXCEPT ![w] = p]
  PROVE  /\ IsFiniteSet(Early') /\ Spent \in Nat /\ Spent' \in Nat
         /\ p.stop = wk[w].stop => Spent' = Spent
         /\ Spent' <= Spent + 1
         /\ p.stop # "early" => Spent' <= Spent
         /\ p.stop # "early" /\ wk[w].stop = "early" => Spent' = Spent - 1
<1>0. Cardinality(Early) \in Nat
  BY FS_CardinalityType
<1>1. CASE p.stop = "early"
  <2>1. Early' = Early \cup {w}
    BY <1>1 DEF Early
  <2>2. wk[w].stop = "early" <=> w \in Early
    BY DEF Early
  <2>3. /\ IsFiniteSet(Early')
        /\ Cardinality(Early') = IF w \in Early THEN Cardinality(Early) ELSE Cardinality(Early) + 1
    BY <2>1, FS_AddElement
  <2> QED BY <1>0, <1>1, <2>2, <2>3 DEF Spent
<1>2. CASE p.stop # "early"
  <2>1. Early' = Early \ {w}
    BY <1>2 DEF Early
  <2>2. wk[w].stop = "early" <=> w \in Early
    BY DEF Early
  <2>3. /\ IsFiniteSet(Early')
        /\ Cardinality(Early') = IF w \in Early THEN Cardinality(Early) - 1 ELSE Cardinality(Early)
    BY <2>1, FS_RemoveElement
  <2>4. Cardinality(Early') \in Nat
    BY <2>3, FS_CardinalityType
  <2> QED BY <1>0, <1>2, <2>2, <2>3, <2>4 DEF Spent
<1> QED BY <1>1, <1>2

\* A fault pays for an attempt, or for a stop that came too early.
LEMMA Pays ==
  ASSUME Spent \in Nat, Spent' \in Nat, faults \in Nat, faults' \in Nat, MaxAttempts \in Nat,
         Spent <= faults, Spent' - Spent <= faults' - faults
  PROVE  /\ Spent' <= faults'
         /\ \A n \in Nat :
              /\ n + Spent <= MaxAttempts + faults => n + Spent' <= MaxAttempts + faults'
              /\ n + Spent < MaxAttempts + faults => n + Spent' < MaxAttempts + faults'
<1>1. PICK f \in Nat : f = faults
  OBVIOUS
<1>2. PICK g \in Nat : g = faults'
  OBVIOUS
<1>3. PICK c \in Nat : c = Spent
  OBVIOUS
<1>4. PICK d \in Nat : d = Spent'
  OBVIOUS
<1>5. PICK max \in Nat : max = MaxAttempts
  OBVIOUS
<1>6. c <= f /\ d - c <= g - f
  BY <1>1, <1>2, <1>3, <1>4
<1>7. d <= g
  BY <1>6
<1>8. Spent' <= faults'
  BY <1>2, <1>4, <1>7
<1>9. ASSUME NEW n \in Nat
      PROVE  /\ n + Spent <= MaxAttempts + faults => n + Spent' <= MaxAttempts + faults'
             /\ n + Spent < MaxAttempts + faults => n + Spent' < MaxAttempts + faults'
  <2>1. /\ n + c <= max + f => n + d <= max + g
        /\ n + c < max + f => n + d < max + g
    BY <1>6
  <2> QED BY <1>1, <1>2, <1>3, <1>4, <1>5, <2>1
<1> QED BY <1>8, <1>9

\* A step of worker w that changes no row and nobody's hold on one.
LEMMA HoldsStay ==
  ASSUME TypeOK, Budget, NEW w \in Workers, NEW p, wk' = [wk EXCEPT ![w] = p],
         inbox' = inbox, faults' \in Nat, faults <= faults',
         Spent' - Spent <= faults' - faults,
         \A k \in Keys : Holds(w, k)' <=> Holds(w, k),
         \A k \in Keys : Holds(w, k) => p.attempts = wk[w].attempts
  PROVE  Budget'
<1>1. IsFiniteSet(Early') /\ Spent \in Nat /\ Spent' \in Nat
  BY EarlyOnes DEF Budget, TypeOK
<1>2. faults \in Nat /\ MaxAttempts \in Nat /\ \A k \in Keys : inbox[k].attempts \in Nat
  BY ConstantsOK DEF ConstantsOK, TypeOK, Row
<1>3. \A v \in Workers : \A k \in Keys : (Holds(v, k)' <=> Holds(v, k))
  BY DEF Holds, TypeOK
<1>4. \A k \in Keys : Due(k)' <=> Due(k)
  BY <1>3 DEF Due
<1>5. \A v \in Workers : \A k \in Keys : Holds(v, k)' => wk'[v].attempts = inbox'[k].attempts
  BY <1>3 DEF Budget, TypeOK
<1>6. /\ Spent' <= faults'
      /\ \A n \in Nat :
           /\ n + Spent <= MaxAttempts + faults => n + Spent' <= MaxAttempts + faults'
           /\ n + Spent < MaxAttempts + faults => n + Spent' < MaxAttempts + faults'
  BY <1>1, <1>2, Pays DEF Budget
<1>7. ASSUME NEW k \in Keys
      PROVE  /\ inbox'[k].attempts + Spent' <= MaxAttempts + faults'
             /\ Due(k)' => inbox'[k].attempts + Spent' < MaxAttempts + faults'
  <2>1. /\ inbox[k].attempts + Spent <= MaxAttempts + faults
        /\ Due(k) => inbox[k].attempts + Spent < MaxAttempts + faults
    BY DEF Budget
  <2>2. inbox[k].attempts \in Nat /\ inbox'[k].attempts = inbox[k].attempts
    BY <1>2
  <2> QED BY <1>4, <1>6, <2>1, <2>2
<1> QED BY <1>1, <1>5, <1>6, <1>7 DEF Budget

\* A step of worker w that concerns the event k.
LEMMA HoldChanges ==
  ASSUME TypeOK, Budget, NEW w \in Workers, NEW p, wk' = [wk EXCEPT ![w] = p],
         NEW k \in Keys, \A j \in Keys : j # k => inbox'[j] = inbox[j],
         \A j \in Keys : Holds(w, j) \/ Holds(w, j)' => j = k,
         faults' \in Nat, faults <= faults', Spent' - Spent <= faults' - faults,
         inbox'[k].attempts + Spent' <= MaxAttempts + faults',
         Due(k)' => inbox'[k].attempts + Spent' < MaxAttempts + faults',
         \A v \in Workers : Holds(v, k)' => wk'[v].attempts = inbox'[k].attempts
  PROVE  Budget'
<1>1. IsFiniteSet(Early') /\ Spent \in Nat /\ Spent' \in Nat
  BY EarlyOnes DEF Budget, TypeOK
<1>2. faults \in Nat /\ MaxAttempts \in Nat /\ \A j \in Keys : inbox[j].attempts \in Nat
  BY ConstantsOK DEF ConstantsOK, TypeOK, Row
<1>3. \A v \in Workers : \A j \in Keys : j # k => (Holds(v, j)' <=> Holds(v, j))
  BY DEF Holds, TypeOK
<1>4. \A j \in Keys : j # k => (Due(j)' <=> Due(j))
  BY <1>3 DEF Due
<1>5. \A v \in Workers : \A j \in Keys : j # k /\ Holds(v, j)' => wk'[v].attempts = inbox'[j].attempts
  <2> TAKE v \in Workers
  <2> TAKE j \in Keys
  <2> HAVE j # k /\ Holds(v, j)'
  <2>1. v # w /\ Holds(v, j)
    BY <1>3
  <2> QED BY <2>1 DEF Budget, TypeOK
<1>6. /\ Spent' <= faults'
      /\ \A n \in Nat :
           /\ n + Spent <= MaxAttempts + faults => n + Spent' <= MaxAttempts + faults'
           /\ n + Spent < MaxAttempts + faults => n + Spent' < MaxAttempts + faults'
  BY <1>1, <1>2, Pays DEF Budget
<1>7. ASSUME NEW j \in Keys, j # k
      PROVE  /\ inbox'[j].attempts + Spent' <= MaxAttempts + faults'
             /\ Due(j)' => inbox'[j].attempts + Spent' < MaxAttempts + faults'
  <2>1. /\ inbox[j].attempts + Spent <= MaxAttempts + faults
        /\ Due(j) => inbox[j].attempts + Spent < MaxAttempts + faults
    BY DEF Budget
  <2>2. inbox'[j] = inbox[j] /\ inbox[j].attempts \in Nat /\ (Due(j)' <=> Due(j))
    BY <1>2, <1>4, <1>7
  <2> QED BY <1>6, <2>1, <2>2
<1> QED BY <1>1, <1>5, <1>6, <1>7 DEF Budget

LEMMA BudgetStep ==
  ASSUME Punctual, TypeOK, HolderOwnsRow, Rested, Budget, [Next]_vars PROVE Budget'
<1>0. /\ \A k \in Keys : inbox[k] \in Row
      /\ \A w \in Workers : wk[w] \in Process
      /\ \A w \in Workers : Busy(w) => wk[w].key \in Keys
      /\ IsFiniteSet(Early) /\ Spent \in Nat /\ faults \in Nat /\ Spent <= faults
      /\ MaxAttempts \in Nat /\ MaxAttempts > 0
      /\ RequeueFrom \subseteq {"dead"} /\ NoKey \notin Keys
  BY ConstantsOK, FS_CardinalityType DEF ConstantsOK, Punctual, TypeOK, Budget, Spent
<1>a. \A w \in Workers : wk[w].pc \in {"processing", "failing"} =>
        /\ wk[w].key \in Keys /\ Holds(w, wk[w].key)
        /\ inbox[wk[w].key].status # "absent"
        /\ wk[w].attempts = inbox[wk[w].key].attempts
        /\ inbox[wk[w].key].attempts \in Nat
        /\ inbox[wk[w].key].attempts + Spent <= MaxAttempts + faults
  BY <1>0 DEF Busy, Holds, HolderOwnsRow, Budget, Row
<1>b. \A w \in Workers : \A k \in Keys : Holds(w, k) => k = wk[w].key
  BY DEF Holds
<1>c. \A w \in Workers : \A k \in Keys : ~Holds(w, k) \/ \A v \in Workers : Holds(v, k) => v = w
  BY DEF HolderOwnsRow
<1>d. ASSUME NEW f, Fault(f) PROVE faults' = faults + 1
  BY <1>d DEF Fault
<1>e. \A w \in Workers : /\ Freed(wk[w]).pc = "idle" /\ Fresh.pc = "idle"
                         /\ Freed(wk[w]).stop = "early" => wk[w].stop = "early"
                         /\ Fresh.stop # "early"
  BY <1>0 DEF Freed, Fresh, Process
\* A worker gives its event up.
<1>f. ASSUME NEW w \in Workers, wk[w].pc \in {"processing", "failing"},
             NEW p, p.pc \notin {"processing", "failing"}, wk' = [wk EXCEPT ![w] = p],
             p.stop = "early" => wk[w].stop = "early",
             faults' \in {faults, faults + 1},
             \A k \in Keys : k # wk[w].key => inbox'[k] = inbox[k],
             inbox'[wk[w].key].attempts = inbox[wk[w].key].attempts,
             \/ inbox'[wk[w].key].status \notin {"pending", "failed", "in_flight"}
             \/ inbox[wk[w].key].attempts < MaxAttempts
             \/ faults' = faults + 1
             \/ p.stop # "early" /\ wk[w].stop = "early"
      PROVE  Budget'
  <2>0. p.stop = wk[w].stop \/ p.stop # "early"
    BY <1>f
  <2>1. /\ Spent' \in Nat /\ Spent' <= Spent
        /\ p.stop # "early" /\ wk[w].stop = "early" => Spent' = Spent - 1
    <3>1. /\ Spent' \in Nat
          /\ p.stop = wk[w].stop => Spent' = Spent
          /\ p.stop # "early" => Spent' <= Spent
          /\ p.stop # "early" /\ wk[w].stop = "early" => Spent' = Spent - 1
      BY <1>0, <1>f, EarlyOnes DEF TypeOK
    <3> QED BY <1>0, <2>0, <3>1
  <2>2. PICK k \in Keys : k = wk[w].key /\ Holds(w, k)
    BY <1>a, <1>f
  <2>a. wk'[w] = p /\ \A v \in Workers : v # w => wk'[v] = wk[v]
    BY <1>f DEF TypeOK
  <2>3. \A v \in Workers : ~Holds(v, k)'
    <3>1. ~Holds(w, k)'
      BY <1>f, <2>a DEF Holds
    <3>2. ASSUME NEW v \in Workers, v # w PROVE ~Holds(v, k)'
      BY <1>c, <2>2, <2>a, <3>2 DEF Holds
    <3> QED BY <3>1, <3>2
  <2>4. \A j \in Keys : Holds(w, j) \/ Holds(w, j)' => j = k
    BY <1>b, <1>f, <2>2, <2>a DEF Holds
  <2>5. /\ inbox[k].attempts \in Nat
        /\ inbox[k].attempts + Spent <= MaxAttempts + faults
    BY <1>a, <1>f, <2>2
  <2>6. /\ faults' \in Nat /\ faults <= faults' /\ Spent' - Spent <= faults' - faults
        /\ inbox[k].attempts + Spent' <= MaxAttempts + faults'
        /\ inbox[k].attempts < MaxAttempts \/ faults' = faults + 1 \/ Spent' = Spent - 1 =>
             inbox[k].attempts + Spent' < MaxAttempts + faults'
    <3>1. PICK f \in Nat : f = faults
      BY <1>0
    <3>2. PICK g \in Nat : g = faults' /\ (g = f \/ g = f + 1)
      BY <1>f, <3>1
    <3>3. PICK c \in Nat : c = Spent /\ c <= f
      BY <1>0, <3>1
    <3>4. PICK d \in Nat : d = Spent' /\ d <= c
      BY <2>1, <3>3
    <3>5. PICK max \in Nat : max = MaxAttempts
      BY <1>0
    <3>6. PICK n \in Nat : n = inbox[k].attempts /\ n + c <= max + f
      BY <2>5, <3>1, <3>3, <3>5
    <3>7. /\ f <= g /\ d - c <= g - f /\ n + d <= max + g
          /\ n < max \/ g = f + 1 \/ d = c - 1 => n + d < max + g
      <4>1. /\ g = f \/ g = f + 1
            /\ d <= c /\ c <= f /\ n + c <= max + f
        BY <3>2, <3>3, <3>4, <3>6
      <4>2. f <= g /\ d - c <= g - f /\ n + d <= max + g
        BY <4>1
      <4>3. g = f + 1 \/ d = c - 1 => n + d < max + g
        BY <4>1
      <4>4. n < max => n + d < max + g
        BY <4>1
      <4> QED BY <4>2, <4>3, <4>4
    <3> QED BY <3>1, <3>2, <3>3, <3>4, <3>5, <3>6, <3>7
  <2>7. inbox'[k].attempts = inbox[k].attempts
    BY <1>f, <2>2
  <2>8. \/ inbox'[k].status \notin {"pending", "failed", "in_flight"}
        \/ inbox[k].attempts < MaxAttempts \/ faults' = faults + 1 \/ Spent' = Spent - 1
    BY <1>f, <2>1, <2>2
  <2>9. Due(k)' => inbox'[k].attempts + Spent' < MaxAttempts + faults'
    BY <2>6, <2>7, <2>8 DEF Due
  <2>10. inbox'[k].attempts + Spent' <= MaxAttempts + faults'
    BY <2>6, <2>7
  <2>11. \A j \in Keys : j # k => inbox'[j] = inbox[j]
    BY <1>f, <2>2
  <2> QED BY <1>f, <2>2, <2>3, <2>4, <2>6, <2>11, <2>9, <2>10, HoldChanges
<1>1. ASSUME NEW k \in Keys, Publish(k) PROVE Budget'
  <2>1. Early' = Early /\ Spent' = Spent /\ faults' = faults
    BY <1>1 DEF Publish, Early, Spent
  <2>2. \A w \in Workers : \A j \in Keys : Holds(w, j)' <=> Holds(w, j)
    BY <1>1 DEF Publish, Holds
  <2>3. \A j \in Keys : inbox'[j] = inbox[j] \/ (inbox'[j].attempts = 0 /\ \A w \in Workers : ~Holds(w, j))
    <3>1. CASE Published(k)
      <4>1. inbox' = inbox
        BY <1>1, <3>1 DEF Publish
      <4> QED BY <4>1
    <3>2. CASE ~Published(k)
      <4>1. \A w \in Workers : ~Holds(w, k)
        BY <3>2 DEF HolderOwnsRow
      <4>2. \A j \in Keys : j # k => inbox'[j] = inbox[j]
        BY <1>1, <3>2 DEF Publish, TypeOK
      <4>3. inbox'[k].attempts = 0
        <5> DEFINE n == 1 + Cardinality({j \in Keys : Published(j)})
        <5>1. inbox'[k] = [NoRow EXCEPT !.id = n, !.status = "pending"]
          BY <1>1, <3>2 DEF Publish, TypeOK
        <5> HIDE DEF n
        <5> QED BY <5>1 DEF NoRow
      <4> QED BY <4>1, <4>2, <4>3
    <3> QED BY <3>1, <3>2
  <2>4. ASSUME NEW j \in Keys
        PROVE  /\ inbox'[j].attempts + Spent' <= MaxAttempts + faults'
               /\ Due(j)' => inbox'[j].attempts + Spent' < MaxAttempts + faults'
               /\ \A w \in Workers : Holds(w, j)' => wk'[w].attempts = inbox'[j].attempts
    <3>1. CASE inbox'[j] = inbox[j]
      BY <1>1, <2>1, <2>2, <3>1 DEF Budget, Due, Publish
    <3>2. CASE inbox'[j].attempts = 0 /\ \A w \in Workers : ~Holds(w, j)
      BY <1>0, <2>1, <2>2, <3>2
    <3> QED BY <2>3, <3>1, <3>2
  <2> QED BY <1>0, <2>1, <2>4 DEF Budget
<1>2. ASSUME NEW k \in Keys, Requeue(k) PROVE Budget'
  <2>1. Early' = Early /\ Spent' = Spent /\ faults' = faults
    BY <1>2 DEF Requeue, Early, Spent
  <2>2. \A w \in Workers : \A j \in Keys : Holds(w, j)' <=> Holds(w, j)
    BY <1>2 DEF Requeue, Holds
  <2>3. \A w \in Workers : ~Holds(w, k)
    BY <1>0, <1>2 DEF Requeue, HolderOwnsRow
  <2>4. inbox'[k].attempts = 0 /\ \A j \in Keys : j # k => inbox'[j] = inbox[j]
    BY <1>0, <1>2 DEF Requeue, TypeOK, Row
  <2>5. ASSUME NEW j \in Keys
        PROVE  /\ inbox'[j].attempts + Spent' <= MaxAttempts + faults'
               /\ Due(j)' => inbox'[j].attempts + Spent' < MaxAttempts + faults'
               /\ \A w \in Workers : Holds(w, j)' => wk'[w].attempts = inbox'[j].attempts
    <3>1. CASE j # k
      BY <1>2, <2>1, <2>2, <2>4, <3>1 DEF Budget, Due, Requeue
    <3>2. CASE j = k
      BY <1>0, <2>1, <2>2, <2>3, <2>4, <3>2
    <3> QED BY <3>1, <3>2
  <2> QED BY <1>0, <2>1, <2>5 DEF Budget
<1>3. ASSUME NEW w \in Workers, NEW p, wk' = [wk EXCEPT ![w] = p], inbox' = inbox,
             p.stop = "early" => wk[w].stop = "early" \/ faults' = faults + 1,
             faults' \in {faults, faults + 1},
             \/ wk[w].pc \notin {"processing", "failing"} /\ p.pc \notin {"processing", "failing"}
             \/ /\ wk[w].pc \in {"processing", "failing"} /\ p.pc \in {"processing", "failing"}
                /\ p.key = wk[w].key /\ p.attempts = wk[w].attempts
      PROVE  Budget'
  <2>1. faults' \in Nat /\ faults <= faults' /\ Spent' - Spent <= faults' - faults
    <3>1. /\ Spent' \in Nat /\ Spent' <= Spent + 1
          /\ p.stop # "early" => Spent' <= Spent
          /\ p.stop = wk[w].stop => Spent' = Spent
      BY <1>0, <1>3, EarlyOnes DEF TypeOK
    <3> QED BY <1>0, <1>3, <3>1
  <2>2. wk'[w] = p
    BY <1>3 DEF TypeOK
  <2>3. \A k \in Keys : Holds(w, k)' <=> Holds(w, k)
    BY <1>3, <2>2 DEF Holds
  <2>4. \A k \in Keys : Holds(w, k) => p.attempts = wk[w].attempts
    BY <1>3 DEF Holds
  <2> QED BY <1>3, <2>1, <2>3, <2>4, HoldsStay
<1>4. \A w \in Workers : \A pc : /\ [wk[w] EXCEPT !.pc = pc].pc = pc
                                 /\ [wk[w] EXCEPT !.pc = pc].stop = wk[w].stop
                                 /\ [wk[w] EXCEPT !.pc = pc].key = wk[w].key
                                 /\ [wk[w] EXCEPT !.pc = pc].attempts = wk[w].attempts
  BY <1>0 DEF Process
<1>5. ASSUME NEW w \in Workers, BeginTick(w) \/ ClaimNothing(w) PROVE Budget'
  <2>1. PICK pc \in {"idle", "claiming"} :
          wk' = [wk EXCEPT ![w] = [wk[w] EXCEPT !.pc = pc]]
    BY <1>5 DEF BeginTick, ClaimNothing, TypeOK
  <2>2. inbox' = inbox /\ faults' = faults /\ wk[w].pc \in {"idle", "claiming"}
    BY <1>5 DEF BeginTick, ClaimNothing
  <2> QED BY <1>3, <1>4, <2>1, <2>2
<1>6. ASSUME NEW w \in Workers, NEW err \in Errors, ProcessThrows(w, err) PROVE Budget'
  <2> DEFINE p == [wk[w] EXCEPT !.pc = "failing", !.err = err]
  <2>1. wk' = [wk EXCEPT ![w] = p]
    BY <1>6 DEF ProcessThrows, TypeOK
  <2>2. p.pc = "failing" /\ p.stop = wk[w].stop /\ p.key = wk[w].key /\ p.attempts = wk[w].attempts
    BY <1>0 DEF Process
  <2> HIDE DEF p
  <2> QED BY <1>3, <1>6, <2>1, <2>2 DEF ProcessThrows
<1>7. ASSUME NEW w \in Workers, RecordFailure(w) PROVE Budget'
  <2>1. /\ wk' = [wk EXCEPT ![w] = Freed(wk[w])] /\ wk[w].pc = "recording"
        /\ UNCHANGED <<inbox, faults>>
    BY <1>7 DEF RecordFailure
  <2> QED BY <1>3, <1>e, <2>1
<1>8. ASSUME NEW w \in Workers, Stop(w) PROVE Budget'
  <2>1. \E p : /\ wk' = [wk EXCEPT ![w] = p]
               /\ p.pc = wk[w].pc /\ p.key = wk[w].key /\ p.attempts = wk[w].attempts
    <3> DEFINE p == [wk[w] EXCEPT !.stop = IF Busy(w) THEN "waiting"
                       ELSE IF wk[w].pc = "claiming" THEN "early" ELSE "returned"]
    <3>1. wk' = [wk EXCEPT ![w] = p]
      BY <1>8 DEF Stop, TypeOK
    <3>2. p.pc = wk[w].pc /\ p.key = wk[w].key /\ p.attempts = wk[w].attempts
      BY <1>0 DEF Process
    <3> QED BY <3>1, <3>2
  <2>2. inbox' = inbox /\ faults' = faults + 1
    BY <1>8, <1>d DEF Stop
  <2> QED BY <1>3, <2>1, <2>2
<1>9. ASSUME NEW w \in Workers, HandlerThrows(w) PROVE Budget'
  <2>1. /\ wk' = [wk EXCEPT ![w] = Freed(wk[w])] /\ wk[w].pc \in {"failing", "recording"}
        /\ inbox' = inbox /\ faults' = faults + 1
    BY <1>9, <1>d DEF HandlerThrows
  <2>2. CASE wk[w].pc = "failing"
    BY <1>e, <1>f, <2>1, <2>2
  <2>3. CASE wk[w].pc = "recording"
    BY <1>3, <1>e, <2>1, <2>3
  <2> QED BY <2>1, <2>2, <2>3
<1>10. ASSUME NEW w \in Workers, Crash(w) PROVE Budget'
  <2>1. wk' = [wk EXCEPT ![w] = Fresh] /\ inbox' = inbox /\ faults' = faults + 1
    BY <1>10, <1>d DEF Crash
  <2>2. CASE wk[w].pc \in {"processing", "failing"}
    BY <1>e, <1>f, <2>1, <2>2
  <2>3. CASE wk[w].pc \notin {"processing", "failing"}
    BY <1>3, <1>e, <2>1, <2>3
  <2> QED BY <2>2, <2>3
<1>11. ASSUME NEW w \in Workers, Exit(w) PROVE Budget'
  <2>1. wk' = [wk EXCEPT ![w] = Fresh] /\ inbox' = inbox /\ faults' = faults
    BY <1>11 DEF Exit
  <2>2. CASE wk[w].pc \in {"processing", "failing"}
    <3>1. wk[w].stop = "early"
      BY <1>11, <2>2 DEF Exit, Rested
    <3> QED BY <1>e, <1>f, <2>1, <2>2, <3>1
  <2>3. CASE wk[w].pc \notin {"processing", "failing"}
    BY <1>3, <1>e, <2>1, <2>3
  <2> QED BY <2>2, <2>3
<1>12. \A row \in Row : \A st, n : /\ Closed(row, st).attempts = row.attempts
                                   /\ Closed(row, st).status = st
                                   /\ Delayed(row, n).attempts = row.attempts
  BY DEF Row, Closed, Delayed
<1>13. ASSUME NEW w \in Workers, NEW st \in {"processed", "skipped"}, Ack(w, st) PROVE Budget'
  <2>1. /\ wk[w].pc = "processing" /\ wk' = [wk EXCEPT ![w] = Freed(wk[w])] /\ faults' = faults
        /\ \A k \in Keys : k # wk[w].key => inbox'[k] = inbox[k]
        /\ inbox'[wk[w].key] = Closed(inbox[wk[w].key], st)
    BY <1>13, <1>a DEF Ack, TypeOK
  <2>2. inbox'[wk[w].key].attempts = inbox[wk[w].key].attempts /\ inbox'[wk[w].key].status = st
    BY <1>0, <1>a, <1>12, <2>1
  <2> QED BY <1>e, <1>f, <2>1, <2>2
<1>14. ASSUME NEW w \in Workers, DeadLetter(w) PROVE Budget'
  <2>1. /\ wk[w].pc = "failing" /\ faults' = faults
        /\ wk' = [wk EXCEPT ![w] = [wk[w] EXCEPT !.pc = "recording"]]
        /\ \A k \in Keys : k # wk[w].key => inbox'[k] = inbox[k]
        /\ inbox'[wk[w].key] = Closed(inbox[wk[w].key], "dead")
    BY <1>14, <1>a DEF DeadLetter, TypeOK
  <2>2. inbox'[wk[w].key].attempts = inbox[wk[w].key].attempts /\ inbox'[wk[w].key].status = "dead"
    BY <1>0, <1>a, <1>12, <2>1
  <2> DEFINE p == [wk[w] EXCEPT !.pc = "recording"]
  <2>3. p.pc \notin {"processing", "failing"} /\ p.stop = wk[w].stop
    BY <1>4
  <2>4. wk' = [wk EXCEPT ![w] = p]
    BY <2>1
  <2> HIDE DEF p
  <2> QED BY <1>f, <2>1, <2>2, <2>3, <2>4
<1>15. ASSUME NEW w \in Workers, RetryLater(w) PROVE Budget'
  <2>1. PICK n : inbox' = [inbox EXCEPT ![wk[w].key] = Delayed(@, n)]
    BY <1>15 DEF RetryLater
  <2>2. /\ wk[w].pc = "failing" /\ faults' = faults
        /\ wk' = [wk EXCEPT ![w] = Freed(wk[w])]
        /\ \A k \in Keys : k # wk[w].key => inbox'[k] = inbox[k]
        /\ inbox'[wk[w].key] = Delayed(inbox[wk[w].key], n)
    BY <1>15, <1>a, <2>1 DEF RetryLater, TypeOK
  <2>3. inbox[wk[w].key].attempts < MaxAttempts
    BY <1>0, <1>15, <1>a DEF RetryLater, GivesUp
  <2>4. inbox'[wk[w].key].attempts = inbox[wk[w].key].attempts
    BY <1>0, <1>a, <1>12, <2>2
  <2> QED BY <1>e, <1>f, <2>2, <2>3, <2>4
<1>16. ASSUME NEW w \in Workers, NEW st \in {"processed", "skipped"}, AckThrows(w, st) PROVE Budget'
  <2>0. PICK k \in Keys : k = wk[w].key
    BY <1>16, <1>a DEF AckThrows
  <2> DEFINE p == [wk[w] EXCEPT !.pc = "failing", !.err = "other"]
  <2>1. /\ wk[w].pc = "processing" /\ wk' = [wk EXCEPT ![w] = p] /\ faults' = faults + 1
        /\ \A j \in Keys : j # k => inbox'[j] = inbox[j]
        /\ inbox'[k] = Closed(inbox[k], st) \/ inbox'[k] = inbox[k]
    BY <1>16, <1>d, <2>0 DEF AckThrows, TypeOK
  <2>2. p.pc = "failing" /\ p.stop = wk[w].stop /\ p.key = k /\ p.attempts = wk[w].attempts
    BY <1>0, <2>0 DEF Process
  <2>3. /\ inbox'[k].attempts = inbox[k].attempts /\ inbox[k].attempts \in Nat
        /\ inbox[k].attempts + Spent <= MaxAttempts + faults
        /\ p.attempts = inbox[k].attempts
    <3>1. inbox[k] \in Row
      BY <1>0
    <3>2. \A s : Closed(inbox[k], s).attempts = inbox[k].attempts
      BY <1>12, <3>1
    <3>3. inbox'[k].attempts = inbox[k].attempts
      BY <2>1, <3>2
    <3>4. /\ wk[w].attempts = inbox[k].attempts /\ inbox[k].attempts \in Nat
          /\ inbox[k].attempts + Spent <= MaxAttempts + faults
      BY <1>a, <2>0, <2>1
    <3> QED BY <2>2, <3>3, <3>4
  <2> HIDE DEF p
  <2>4. Spent' = Spent
    BY <1>0, <2>1, <2>2, EarlyOnes DEF TypeOK
  <2>5. Holds(w, k)' /\ \A v \in Workers : Holds(v, k)' => v = w
    BY <1>a, <1>c, <2>0, <2>1, <2>2 DEF TypeOK, Holds
  <2>6. \A j \in Keys : Holds(w, j) \/ Holds(w, j)' => j = k
    BY <2>0, <2>1, <2>2 DEF TypeOK, Holds
  <2>7. ~Due(k)'
    BY <2>5 DEF Due
  <2>8. \A v \in Workers : Holds(v, k)' => wk'[v].attempts = inbox'[k].attempts
    BY <2>1, <2>3, <2>5 DEF TypeOK
  <2>9. /\ faults' \in Nat /\ faults <= faults' /\ Spent' - Spent <= faults' - faults
        /\ inbox'[k].attempts + Spent' <= MaxAttempts + faults'
    BY <1>0, <2>1, <2>3, <2>4
  <2> QED BY <2>1, <2>6, <2>7, <2>8, <2>9, HoldChanges
<1>17. ASSUME NEW w \in Workers, NEW k \in Keys, Claim(w, k) PROVE Budget'
  <2> DEFINE p == [wk[w] EXCEPT !.pc = "processing", !.key = k, !.attempts = inbox[k].attempts + 1,
                                !.lease = LeaseTicks]
  <2>1. /\ wk[w].pc = "claiming" /\ wk' = [wk EXCEPT ![w] = p] /\ faults' = faults
        /\ \A j \in Keys : j # k => inbox'[j] = inbox[j]
        /\ inbox'[k] = Locked(inbox[k]) /\ Claimable(k)
    BY <1>17 DEF Claim, IsNext, TypeOK
  <2>2. p.pc = "processing" /\ p.stop = wk[w].stop /\ p.key = k /\ p.attempts = inbox[k].attempts + 1
    BY <1>0 DEF Process
  <2>3. inbox'[k].attempts = inbox[k].attempts + 1 /\ inbox[k].attempts \in Nat
    BY <1>0, <2>1 DEF Locked, Row
  <2> HIDE DEF p
  <2>4. \A v \in Workers : ~Holds(v, k)
    BY <2>1 DEF HolderOwnsRow, Claimable
  <2>5. inbox[k].attempts + Spent < MaxAttempts + faults
    BY <2>1, <2>4 DEF Budget, Due, Claimable
  <2>6. Spent' = Spent
    BY <1>0, <2>1, <2>2, EarlyOnes DEF TypeOK
  <2>7. Holds(w, k)' /\ \A v \in Workers : Holds(v, k)' => v = w
    BY <2>1, <2>2, <2>4 DEF TypeOK, Holds
  <2>8. \A j \in Keys : Holds(w, j) \/ Holds(w, j)' => j = k
    BY <2>1, <2>2 DEF TypeOK, Holds
  <2>9. ~Due(k)'
    BY <2>7 DEF Due
  <2>10. \A v \in Workers : Holds(v, k)' => wk'[v].attempts = inbox'[k].attempts
    BY <2>1, <2>2, <2>3, <2>7 DEF TypeOK
  <2>11. /\ faults' \in Nat /\ faults <= faults' /\ Spent' - Spent <= faults' - faults
         /\ inbox'[k].attempts + Spent' <= MaxAttempts + faults'
    BY <1>0, <2>1, <2>3, <2>5, <2>6
  <2> QED BY <2>1, <2>8, <2>9, <2>10, <2>11, HoldChanges
<1>18. CASE Tick
  <2>1. /\ \A k \in Keys : /\ inbox'[k].attempts = inbox[k].attempts
                           /\ inbox'[k].status = inbox[k].status
        /\ \A w \in Workers : /\ wk'[w].pc = wk[w].pc /\ wk'[w].key = wk[w].key
                              /\ wk'[w].attempts = wk[w].attempts /\ wk'[w].stop = wk[w].stop
        /\ faults' = faults
    BY <1>0, <1>18 DEF Tick, Row, Process
  <2>2. Early' = Early /\ Spent' = Spent
    BY <2>1 DEF Early, Spent
  <2>3. \A w \in Workers : \A k \in Keys : Holds(w, k)' <=> Holds(w, k)
    BY <2>1 DEF Holds
  <2>4. \A k \in Keys : Due(k)' <=> Due(k)
    BY <2>1, <2>3 DEF Due
  <2> QED BY <2>1, <2>2, <2>3, <2>4 DEF Budget
<1>19. CASE UNCHANGED vars
  BY <1>19 DEF vars, Budget, Early, Spent, Due, Holds
<1> QED
  BY <1>1, <1>2, <1>5, <1>6, <1>7, <1>8, <1>9, <1>10, <1>11, <1>13, <1>14, <1>15, <1>16, <1>17,
     <1>18, <1>19 DEF Next, Step, Mishap

\* However often its processing fails, a worker dies or an ack is lost, an
\* event is claimed at most once more than maxAttempts for each such fault.
THEOREM AttemptsAreBounded ==
  ASSUME Punctual PROVE Spec => []AttemptsBounded
<1>1. Init => Budget
  <2> SUFFICES ASSUME Init PROVE Budget
    OBVIOUS
  <2>1. Early = {}
    BY DEF Init, Early, Fresh
  <2>2. IsFiniteSet(Early) /\ Spent = 0
    BY <2>1, FS_EmptySet DEF Spent
  <2>3. \A w \in Workers : \A k \in Keys : ~Holds(w, k)
    BY DEF Init, Holds, Fresh
  <2> QED BY <2>2, <2>3, ConstantsOK DEF ConstantsOK, Init, NoRow, Budget
<1>2. Init => Rested
  BY DEF Init, Rested, Fresh
<1>3. TypeOK /\ HolderOwnsRow /\ Rested /\ Budget /\ [Next]_vars => Budget'
  BY BudgetStep
<1>4. TypeOK /\ Budget => AttemptsBounded
  <2> SUFFICES ASSUME TypeOK, Budget, NEW k \in Keys
               PROVE  inbox[k].attempts <= MaxAttempts + faults
    BY DEF AttemptsBounded
  <2>1. Spent \in Nat /\ inbox[k].attempts \in Nat /\ faults \in Nat /\ MaxAttempts \in Nat
    BY FS_CardinalityType, ConstantsOK DEF ConstantsOK, Budget, Spent, TypeOK, Row
  <2>2. inbox[k].attempts + Spent <= MaxAttempts + faults
    BY DEF Budget
  <2> QED BY <2>1, <2>2
<1> QED BY <1>1, <1>2, <1>3, <1>4, RestedStep, TypeCorrect, HoldersOwnTheirRows, PTL DEF Spec
=============================================================================
