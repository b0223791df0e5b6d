----------------------------- MODULE EventQueue -----------------------------
(***************************************************************************)
(* The durable inbox (src/src/queue/pgEventQueue.ts) and the workers that  *)
(* drain it (src/src/workers/syncWorker.ts).                               *)
(*                                                                         *)
(* A row of inbound_events is one record of `inbox`; a SyncWorker process  *)
(* is one record of `wk`: the tick it is in and the event it holds in its  *)
(* local variable.  Every statement the worker awaits is one action.       *)
(*                                                                         *)
(* Time is kept as countdowns: `wait` is what is left until                *)
(* next_attempt_at, `lease` what is left until locked_until (0 stands for  *)
(* an instant in the past and for null).  A worker's own `lease` is what   *)
(* is left of the leaseMs it claimed for; nothing in the code reads it.    *)
(***************************************************************************)
EXTENDS Integers, FiniteSets

CONSTANTS
  Keys,          \* dedupe keys of the notifications that may arrive
  Workers,       \* SyncWorker processes on the same database
  MaxAttempts,   \* options.maxAttempts
  LeaseTicks,    \* leaseMs, in ticks
  BackoffBase,   \* backoffBaseMs, in ticks
  BackoffMax,    \* backoffMaxMs, in ticks
  StaleDelay,    \* the 100 ms of a StaleVersionError, in ticks
  Skews,         \* application clock minus database clock, in ticks
  RequeueFrom,   \* the statuses of the rows an operator requeues
  MaxRequeues,   \* bound: requeues in a behaviour
  Faults,        \* the faults of AllFaults that may happen
  MaxFaults,     \* bound: faults other than overruns in a behaviour
  NoKey          \* a worker that holds no event

AllFaults == {"crash", "db_error", "deploy", "overrun"}
Statuses  == {"absent", "pending", "in_flight", "processed", "skipped", "failed", "dead"}
Terminal  == {"processed", "skipped", "dead"}
Errors    == {"permanent", "stale", "other"}

ASSUME ConstantsOK ==
  /\ IsFiniteSet(Keys) /\ NoKey \notin Keys
  /\ MaxAttempts \in Nat \ {0} /\ LeaseTicks \in Nat \ {0}
  /\ BackoffBase \in Nat /\ BackoffMax \in Nat /\ StaleDelay \in Nat
  /\ Skews \subseteq Int
  /\ RequeueFrom \subseteq Statuses \ {"absent"}
  /\ MaxRequeues \in Nat /\ MaxFaults \in Nat
  /\ Faults \subseteq AllFaults

VARIABLES
  inbox,     \* the inbound_events row of each key
  wk,        \* the worker processes
  audited,   \* keys with a "failed" row in the audit log
  faults,    \* faults so far
  requeues   \* requeues so far

vars == <<inbox, wk, audited, faults, requeues>>

-----------------------------------------------------------------------------
(* Rows *)

NoRow == [id |-> 0, status |-> "absent", attempts |-> 0, wait |-> 0, lease |-> 0]

Published(k) == inbox[k].id # 0

\* Mutants of Claimable: an unexpired lease is no protection; an expired one
\* is never reclaimed; a dead letter is claimed like a failure.
ClaimableLeased(k) ==
  \/ inbox[k].status \in {"pending", "failed"} /\ inbox[k].wait = 0
  \/ inbox[k].status = "in_flight"
ClaimableNoReclaim(k) ==
  inbox[k].status \in {"pending", "failed"} /\ inbox[k].wait = 0

ClaimableDead(k) ==
  \/ inbox[k].status \in {"pending", "failed", "dead"} /\ inbox[k].wait = 0
  \/ inbox[k].status = "in_flight" /\ inbox[k].lease = 0

\* The where clause of claim: due, or reclaimable because its lease is over.
Claimable(k) ==
  \/ inbox[k].status \in {"pending", "failed"} /\ inbox[k].wait = 0
  \/ inbox[k].status = "in_flight" /\ inbox[k].lease = 0

\* orderBy id asc, limit 1.
IsNext(k) ==
  /\ Claimable(k)
  /\ \A j \in Keys : Claimable(j) => inbox[k].id <= inbox[j].id

\* Mutant of Locked: locked_until is not set.
LockedNoLease(row) == [row EXCEPT !.status = "in_flight", !.attempts = @ + 1]

Locked(row) ==
  [row EXCEPT !.status = "in_flight", !.attempts = @ + 1, !.lease = LeaseTicks]

\* markTerminal: by id alone, whoever calls it.
Closed(row, status) == [row EXCEPT !.status = status, !.lease = 0]

\* retryLater: by id alone, whoever calls it.
Delayed(row, wait) ==
  [row EXCEPT !.status = "failed", !.wait = wait, !.lease = 0]

\* A time computed on the application clock, d ticks from now, as the
\* database clock sees it.
Waits(d) == {IF d + s > 0 THEN d + s ELSE 0 : s \in Skews}

Capped(n) == IF n < BackoffMax THEN n ELSE BackoffMax

\* min(base * 2^(attempts-1), max), of which between half and all is waited.
WithinBackoff(attempts, d) ==
  LET exp == Capped(BackoffBase * 2 ^ (attempts - 1))
  IN  d <= exp /\ 2 * d >= exp

Delays(err, attempts) ==
  IF err = "stale" THEN {StaleDelay}
  ELSE {d \in 0..BackoffMax : WithinBackoff(attempts, d)}

-----------------------------------------------------------------------------
(* Workers *)

Stages == {"idle", "claiming", "processing", "failing", "recording"}

Fresh == [pc |-> "idle", stop |-> "no", key |-> NoKey, attempts |-> 0,
          lease |-> 0, err |-> "none"]

\* processClaimed is running: stop() would wait for it.
Busy(w) == wk[w].pc \in {"processing", "failing", "recording"}

\* The worker may still write to the inbox on behalf of its claim.
Holds(w, k) == wk[w].key = k /\ wk[w].pc \in {"processing", "failing"}

\* Mutant of Freed: the event stays in hand.
FreedKeepsKey(worker) ==
  [worker EXCEPT !.pc = "idle", !.stop = IF worker.stop = "waiting" THEN "returned" ELSE worker.stop]

\* processClaimed has ended: a stop() that was waiting for it returns.
Freed(worker) ==
  [Fresh EXCEPT !.stop = IF worker.stop = "waiting" THEN "returned" ELSE worker.stop]

Row == [id : Nat, status : Statuses, attempts : Nat, wait : Nat,
        lease : 0..LeaseTicks]

Process == [pc : Stages, stop : {"no", "waiting", "returned", "early"},
            key : Keys \cup {NoKey}, attempts : Nat, lease : 0..LeaseTicks,
            err : Errors \cup {"none"}]

\* A worker has an event in hand exactly while processClaimed runs.
TypeOK ==
  /\ inbox \in [Keys -> Row]
  /\ wk \in [Workers -> Process]
  /\ \A w \in Workers : wk[w].key \in Keys <=> Busy(w)
  /\ audited \subseteq Keys
  /\ faults \in 0..MaxFaults
  /\ requeues \in 0..MaxRequeues

Init ==
  /\ inbox = [k \in Keys |-> NoRow]
  /\ wk = [w \in Workers |-> Fresh]
  /\ audited = {}
  /\ faults = 0
  /\ requeues = 0

\* A fault of kind f happens in this step.
Fault(f) == f \in Faults /\ faults < MaxFaults /\ faults' = faults + 1

-----------------------------------------------------------------------------
(* The queue's callers *)

\* Mutant of Publish: on conflict the row is reset.
PublishUpsert(k) ==
  /\ inbox' = [inbox EXCEPT ![k] = [NoRow EXCEPT !.id = 1 + Cardinality({j \in Keys : Published(j)}),
                                                !.status = "pending"]]
  /\ UNCHANGED <<wk, audited, faults, requeues>>

\* publish: an insert that does nothing when the dedupe key is known.
Publish(k) ==
  /\ inbox' = IF Published(k) THEN inbox
              ELSE [inbox EXCEPT ![k] =
                      [NoRow EXCEPT !.id = 1 + Cardinality({j \in Keys : Published(j)}),
                                    !.status = "pending"]]
  /\ UNCHANGED <<wk, audited, faults, requeues>>

\* requeue, from the admin endpoint: next_attempt_at is the application's now.
Requeue(k) ==
  /\ inbox[k].status \in RequeueFrom
  /\ requeues < MaxRequeues
  /\ \E d \in Waits(0) :
       inbox' = [inbox EXCEPT ![k] = [@ EXCEPT !.status = "pending", !.attempts = 0,
                                               !.wait = d, !.lease = 0]]
  /\ requeues' = requeues + 1
  /\ UNCHANGED <<wk, audited, faults>>

-----------------------------------------------------------------------------
(* The worker's loop *)

BeginTick(w) ==
  /\ wk[w].pc = "idle" /\ wk[w].stop = "no"
  /\ wk' = [wk EXCEPT ![w].pc = "claiming"]
  /\ UNCHANGED <<inbox, audited, faults, requeues>>

Claim(w, k) ==
  /\ wk[w].pc = "claiming"
  /\ IsNext(k)
  /\ inbox' = [inbox EXCEPT ![k] = Locked(@)]
  /\ wk' = [wk EXCEPT ![w] = [@ EXCEPT !.pc = "processing", !.key = k,
                                       !.attempts = inbox[k].attempts + 1,
                                       !.lease = LeaseTicks]]
  /\ UNCHANGED <<audited, faults, requeues>>

ClaimNothing(w) ==
  /\ wk[w].pc = "claiming"
  /\ \A k \in Keys : ~Claimable(k)
  /\ wk' = [wk EXCEPT ![w].pc = "idle"]
  /\ UNCHANGED <<inbox, audited, faults, requeues>>

\* processEvent returned and its result is acknowledged.
Ack(w, status) ==
  /\ wk[w].pc = "processing"
  /\ inbox' = [inbox EXCEPT ![wk[w].key] = Closed(@, status)]
  /\ wk' = [wk EXCEPT ![w] = Freed(@)]
  /\ UNCHANGED <<audited, faults, requeues>>

\* processEvent threw.
ProcessThrows(w, err) ==
  /\ wk[w].pc = "processing"
  /\ wk' = [wk EXCEPT ![w].pc = "failing", ![w].err = err]
  /\ UNCHANGED <<inbox, audited, faults, requeues>>

\* ack threw, before or after the database took it: the catch block of
\* processClaimed treats it as a failure of the event.
AckThrows(w, status) ==
  /\ wk[w].pc = "processing"
  /\ Fault("db_error")
  /\ \/ inbox' = [inbox EXCEPT ![wk[w].key] = Closed(@, status)]
     \/ UNCHANGED inbox
  /\ wk' = [wk EXCEPT ![w].pc = "failing", ![w].err = "other"]
  /\ UNCHANGED <<audited, requeues>>

\* Mutant of GivesUp: one attempt too many.
GivesUpLate(w) == wk[w].err = "permanent" \/ wk[w].attempts > MaxAttempts

GivesUp(w) == wk[w].err = "permanent" \/ wk[w].attempts >= MaxAttempts

\* Mutant of DeadLetter: returns without the audit record.
DeadLetterOnly(w) ==
  /\ wk[w].pc = "failing"
  /\ GivesUp(w)
  /\ inbox' = [inbox EXCEPT ![wk[w].key] = Closed(@, "dead")]
  /\ wk' = [wk EXCEPT ![w] = Freed(@)]
  /\ UNCHANGED <<audited, faults, requeues>>

DeadLetter(w) ==
  /\ wk[w].pc = "failing"
  /\ GivesUp(w)
  /\ inbox' = [inbox EXCEPT ![wk[w].key] = Closed(@, "dead")]
  /\ wk' = [wk EXCEPT ![w].pc = "recording"]
  /\ UNCHANGED <<audited, faults, requeues>>

\* The audit row that goes with a dead letter.
RecordFailure(w) ==
  /\ wk[w].pc = "recording"
  /\ audited' = audited \cup {wk[w].key}
  /\ wk' = [wk EXCEPT ![w] = Freed(@)]
  /\ UNCHANGED <<inbox, faults, requeues>>

RetryLater(w) ==
  /\ wk[w].pc = "failing"
  /\ ~GivesUp(w)
  /\ \E d \in Delays(wk[w].err, wk[w].attempts) : \E wait \in Waits(d) :
       inbox' = [inbox EXCEPT ![wk[w].key] = Delayed(@, wait)]
  /\ wk' = [wk EXCEPT ![w] = Freed(@)]
  /\ UNCHANGED <<audited, faults, requeues>>

\* A database error in handleError reaches the loop, which logs it and ticks
\* again: the row stays as it is until its lease is over.
HandlerThrows(w) ==
  /\ wk[w].pc \in {"failing", "recording"}
  /\ Fault("db_error")
  /\ wk' = [wk EXCEPT ![w] = Freed(@)]
  /\ UNCHANGED <<inbox, audited, requeues>>

-----------------------------------------------------------------------------
(* Processes and time *)

\* The process dies and another one starts in its place.
Crash(w) ==
  /\ Fault("crash")
  /\ wk' = [wk EXCEPT ![w] = Fresh]
  /\ UNCHANGED <<inbox, audited, requeues>>

\* Mutant of Stop: it waits for nothing.
StopAtOnce(w) ==
  /\ wk[w].stop = "no"
  /\ Fault("deploy")
  /\ wk' = [wk EXCEPT ![w].stop = IF wk[w].pc = "claiming" THEN "early" ELSE "returned"]
  /\ UNCHANGED <<inbox, audited, requeues>>

\* stop(): returns at once ("early" when a claim is awaited, else "returned")
\* unless processClaimed is running.
Stop(w) ==
  /\ wk[w].stop = "no"
  /\ Fault("deploy")
  /\ wk' = [wk EXCEPT ![w].stop = IF Busy(w) THEN "waiting"
                                  ELSE IF wk[w].pc = "claiming" THEN "early" ELSE "returned"]
  /\ UNCHANGED <<inbox, audited, requeues>>

\* Once stop() has returned the process exits; its successor starts.
Exit(w) ==
  /\ wk[w].stop \in {"returned", "early"}
  /\ wk' = [wk EXCEPT ![w] = Fresh]
  /\ UNCHANGED <<inbox, audited, faults, requeues>>

Less1(n) == IF n > 0 THEN n - 1 ELSE 0

\* A tick of the clock.  Unless overruns are among the faults, an event is
\* finished before its lease is.
Tick ==
  /\ \/ \E k \in Keys : inbox[k].wait > 0 \/ inbox[k].lease > 0
     \/ \E w \in Workers : wk[w].lease > 0
  /\ "overrun" \in Faults \/ \A w \in Workers : wk[w].lease # 1
  /\ inbox' = [k \in Keys |-> [inbox[k] EXCEPT !.wait = Less1(@), !.lease = Less1(@)]]
  /\ wk' = [w \in Workers |-> [wk[w] EXCEPT !.lease = Less1(@)]]
  /\ UNCHANGED <<audited, faults, requeues>>

-----------------------------------------------------------------------------
Step(w) ==
  \/ BeginTick(w)
  \/ \E k \in Keys : Claim(w, k)
  \/ ClaimNothing(w)
  \/ \E status \in {"processed", "skipped"} : Ack(w, status)
  \/ \E err \in Errors : ProcessThrows(w, err)
  \/ DeadLetter(w)
  \/ RecordFailure(w)
  \/ RetryLater(w)
  \/ Exit(w)

Mishap(w) ==
  \/ \E status \in {"processed", "skipped"} : AckThrows(w, status)
  \/ HandlerThrows(w)
  \/ Crash(w)
  \/ Stop(w)

Next ==
  \/ \E k \in Keys : Publish(k) \/ Requeue(k)
  \/ \E w \in Workers : Step(w) \/ Mishap(w)
  \/ Tick

Spec == Init /\ [][Next]_vars

\* The loop keeps ticking and every await ends; the clock advances.
Fairness == (\A w \in Workers : WF_vars(Step(w))) /\ WF_vars(Tick)

FairSpec == Spec /\ Fairness
-----------------------------------------------------------------------------
(* Properties *)

\* claim's contract (eventQueue.ts: "exclusively claim the next due event for
\* leaseMs"): while the leases of two workers both run, they do not work on
\* the same event.
ExclusiveClaim ==
  \A w, v \in Workers : \A k \in Keys :
    /\ Holds(w, k) /\ wk[w].lease > 0
    /\ Holds(v, k) /\ wk[v].lease > 0
    => w = v

\* Why the contract holds while no worker outlives its lease: the worker that
\* holds an event is the only one, its lease runs, and the row carries that
\* very lease (unless the worker's own ack has been taken and has thrown).
HolderOwnsRow ==
  /\ \A k \in Keys : Published(k) <=> inbox[k].status # "absent"
  /\ \A w, v \in Workers : \A k \in Keys : Holds(w, k) /\ Holds(v, k) => w = v
  /\ \A w \in Workers : \A k \in Keys : Holds(w, k) =>
       /\ wk[w].lease > 0
       /\ \/ inbox[k].status = "in_flight" /\ inbox[k].lease = wk[w].lease
          \/ wk[w].pc = "failing" /\ inbox[k].status \in {"processed", "skipped"}

\* An acknowledged event leaves its status by a requeue, or by the worker
\* whose own ack threw after the database had taken it; neither a
\* redelivered webhook nor another worker's attempt reopens it.
DoneIsFinal ==
  [][\A k \in Keys :
       /\ inbox[k].status \in {"processed", "skipped"}
       /\ inbox'[k].status # inbox[k].status
       => \/ requeues' # requeues
          \/ \E w \in Workers : wk[w].pc = "failing" /\ wk[w].key = k]_vars

\* maxAttempts bounds the claims of an event; only a claim that never reached
\* handleError (a fault each) goes past it, as nothing bounds reclaiming.
AttemptsBounded == \A k \in Keys : inbox[k].attempts <= MaxAttempts + faults

\* An event whose processing keeps failing, whose worker dies or whose lease
\* runs out is in the end processed, skipped or dead, and stays so.
EventuallySettled ==
  \A k \in Keys : Published(k) ~> [](inbox[k].status \in Terminal)

\* Every dead letter gets its "failed" audit row, unless it is reopened first
\* or a fault may have come between the two writes.
DeadIsAudited ==
  \A k \in Keys :
    inbox[k].status = "dead" ~> (k \in audited \/ inbox[k].status # "dead" \/ faults > 0)

\* stop (syncWorker.ts: "stop claiming, let the in-flight event finish"): a
\* process that exits after stop() leaves a claimed event behind only when
\* stop() was called while the claim was awaited, which it does not see.
StopWaits ==
  [][\A w \in Workers : Exit(w) /\ wk[w].key # NoKey => wk[w].stop = "early"]_vars

-----------------------------------------------------------------------------
(* The promise of the queue *)

HoldersOf(k) == {w \in Workers : Holds(w, k)}

\* A row that its dead worker has left in flight is open: claim takes it once
\* its lease is over.
PhaseOf(k) ==
  CASE HoldersOf(k) # {} -> "held"
    [] HoldersOf(k) = {} /\ inbox[k].status = "absent" -> "absent"
    [] HoldersOf(k) = {} /\ inbox[k].status \in {"processed", "skipped"} -> "done"
    [] HoldersOf(k) = {} /\ inbox[k].status = "dead" -> "parked"
    [] OTHER -> "open"

Port == INSTANCE EventPort
          WITH phase <- [k \in Keys |-> PhaseOf(k)],
               holder <- [k \in Keys |-> HoldersOf(k)],
               interventions <- requeues

\* The rows with their leases, attempts and clocks keep the promise of
\* eventQueue.ts: redelivery, reclaiming, retries and lost answers never bring
\* back what is done, never bring back a dead letter but by a requeue that an
\* operator asked for, and nobody but its holder moves an event that is held.
ImplementsPort == Port!Spec
=============================================================================
