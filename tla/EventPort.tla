------------------------------ MODULE EventPort ------------------------------
(***************************************************************************)
(* What the queue promises to whoever publishes and to the workers (the    *)
(* EventQueue interface of src/src/queue/eventQueue.ts), without rows,     *)
(* leases, attempts or clocks: an event is absent until it is published,   *)
(* open until a worker takes it, held by that worker alone, and then open  *)
(* again, done or parked.  What is done stays done; what is parked waits   *)
(* for an operator, whose requeues are counted: nobody else opens it.      *)
(* EventQueue implements this module.                                      *)
(***************************************************************************)
EXTENDS Naturals

CONSTANTS Keys, Workers

VARIABLES
  phase,          \* of each event: absent, open, held, done or parked
  holder,         \* of each event: the workers that work on it
  interventions   \* requeues of operators so far

portVars == <<phase, holder, interventions>>

Init ==
  /\ phase = [k \in Keys |-> "absent"]
  /\ holder = [k \in Keys |-> {}]
  /\ interventions = 0

\* publish: the first delivery of a notification; any other is a no-op.
Publish(k) ==
  /\ phase[k] = "absent"
  /\ phase' = [phase EXCEPT ![k] = "open"]
  /\ UNCHANGED <<holder, interventions>>

\* claim: exclusive.
Claim(w, k) ==
  /\ phase[k] = "open" /\ holder[k] = {}
  /\ phase' = [phase EXCEPT ![k] = "held"]
  /\ holder' = [holder EXCEPT ![k] = {w}]
  /\ UNCHANGED interventions

\* Only the holder ends its hold: by retryLater or when it is lost (open), by
\* ack (done), by deadLetter (parked).
Release(w, k, p) ==
  /\ phase[k] = "held" /\ holder[k] = {w}
  /\ phase' = [phase EXCEPT ![k] = p]
  /\ holder' = [holder EXCEPT ![k] = {}]
  /\ UNCHANGED interventions

\* requeue: "after human intervention".
Requeue(k) ==
  /\ phase[k] = "parked"
  /\ phase' = [phase EXCEPT ![k] = "open"]
  /\ interventions' = interventions + 1
  /\ UNCHANGED holder

Next ==
  \E k \in Keys :
    \/ Publish(k) \/ Requeue(k)
    \/ \E w \in Workers :
         Claim(w, k) \/ \E p \in {"open", "done", "parked"} : Release(w, k, p)

Spec == Init /\ [][Next]_portVars
=============================================================================
