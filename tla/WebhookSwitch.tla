---------------------------- MODULE WebhookSwitch ----------------------------
(***************************************************************************)
(* The way of a QuickBooks notification to the inbox: the webhook switch   *)
(* of src/deploy/webhook-switch/server.mjs, which forwards what Intuit     *)
(* delivers to the app, to a tunnel or to both, and the handler there that *)
(* stores its events (handleProvider of webhookController.ts).  Intuit     *)
(* delivers again what was answered with an error, or not at all.          *)
(*                                                                         *)
(* One delivery carries several events.  The event loop of the switch runs *)
(* one handler at a time; a step is what runs between two awaits.          *)
(***************************************************************************)
EXTENDS Naturals, Sequences, SequencesExt

CONSTANTS
  Deliveries,  \* what Intuit has to deliver
  Batch,       \* of each, its events: the entities parseWebhook keeps
  App,         \* PRIMARY_URL
  Targets,     \* urls an operator may set
  None,        \* no url, no file, no answer yet
  Env,         \* SWITCH_MODE and SWITCH_TARGET_URL
  Faults,      \* the faults of AllFaults that may happen
  MaxFaults,   \* bound: faults in a behaviour
  MaxChanges   \* bound: changes an operator makes

Modes     == {"local", "forward", "both"}
Sites     == {App} \cup Targets
Events(d) == Range(Batch[d])
Setting   == [mode : Modes, target : Targets \cup {None}]
AllFaults == {"crash", "stop", "site_crash", "unreachable", "severed", "db_error", "disk"}

ASSUME ConstantsOK ==
  /\ \A d \in Deliveries : Batch[d] \in Seq(Events(d))
  /\ App \notin Targets /\ None \notin Sites \cup Setting
  /\ Env \in Setting /\ Faults \subseteq AllFaults
  /\ MaxFaults \in Nat /\ MaxChanges \in Nat

VARIABLES
  switch,    \* the process: up, closing (server.close was called) or down
  state,     \* its mode and target
  file,      \* STATE_FILE, None when there is none or it cannot be parsed
  control,   \* the POST in progress: idle, saving, or saved and not answered
  pending,   \* deliveries the switch has not answered
  flights,   \* requests to the sites
  inbox,     \* the events each site has stored
  answer,    \* what Intuit was last told of each delivery
  route,     \* the site that each delivery was last sent to for an answer
  oversized, \* the deliveries with a body of more than MAX_BODY_BYTES
  changes, faults,
  \* History, read by properties only:
  told,      \* the last change that was answered
  asked,     \* the changes that were taken since
  unsaved,   \* the last change could not be written
  lost       \* deliveries a fault kept from a site, and that were answered 202

world == <<pending, flights, inbox, answer, route, lost>>
admin == <<state, file, control, changes, asked, told, unsaved>>
vars  == <<switch, world, admin, oversized, faults>>

-----------------------------------------------------------------------------
(* Types *)

\* A request to a site: on its way, stored in part (so many of its events), or
\* cut off in the middle of the answer.  handleWebhook awaits the primary one
\* until the ack deadline.
Flight == [d : Deliveries, site : Sites, pc : {"going", "storing", "cut"},
           stored : Nat, awaited : BOOLEAN]

\* none yet; 200 of the site, or an error, of the site or the switch; 202 before
\* the site has answered, after it failed to, or without a site; the connection
\* was lost.
Answers == {"none", "stored", "failed", "early", "broken", "untargeted", "lost"}

\* A delivery waits for exactly one request, to the site of its route.
TypeOK ==
  /\ switch \in {"up", "closing", "down"}
  /\ state \in Setting /\ file \in Setting \cup {None}
  /\ control \in {"idle", "saving", "saved"}
  /\ pending \subseteq Deliveries /\ flights \subseteq Flight
  /\ switch = "down" => pending = {} /\ control = "idle"
  /\ \A f \in flights :
       /\ f.stored <= Len(Batch[f.d])
       /\ f.awaited => f.d \in pending /\ f.site = route[f.d]
  /\ \A d \in pending : \E f \in flights : f.d = d /\ f.awaited
  /\ \A f, g \in flights : f.awaited /\ g.awaited /\ f.d = g.d => f = g
  /\ inbox \in [Sites -> SUBSET UNION {Events(d) : d \in Deliveries}]
  /\ answer \in [Deliveries -> Answers]
  /\ route \in [Deliveries -> Sites \cup {None}]
  /\ changes \in 0..MaxChanges /\ faults \in 0..MaxFaults /\ oversized \subseteq Deliveries
  /\ told \in Setting \cup {None} /\ asked \subseteq Setting
  /\ unsaved \in BOOLEAN /\ lost \subseteq Deliveries

Init ==
  /\ switch = "up" /\ state = Env /\ file = None /\ control = "idle"
  /\ pending = {} /\ flights = {}
  /\ inbox = [s \in Sites |-> {}]
  /\ answer = [d \in Deliveries |-> "none"]
  /\ route = [d \in Deliveries |-> None]
  /\ oversized \in SUBSET Deliveries
  /\ changes = 0 /\ faults = 0
  /\ told = None /\ asked = {} /\ unsaved = FALSE /\ lost = {}

Fault(f) == f \in Faults /\ faults < MaxFaults /\ faults' = faults + 1

\* No handler runs while another does: a change is saved synchronously.
Runs == switch # "down" /\ control # "saving"

-----------------------------------------------------------------------------
(* A delivery: handleWebhook *)

\* Intuit delivers what it has not been told is accepted.
Due(d) == d \notin pending /\ answer[d] \in {"none", "failed", "lost"}

Primary   == IF state.mode = "forward" THEN state.target ELSE App
Secondary == IF state.mode = "both" THEN state.target ELSE None

Sent(d, site, awaited) ==
  [d |-> d, site |-> site, pc |-> "going", stored |-> 0, awaited |-> awaited]

Arrives(d) == switch = "up" /\ Runs /\ Due(d)

\* readBody rejects, and has destroyed the request: 413 or a broken connection,
\* whatever the mode.
Refuse(d) ==
  /\ Arrives(d) /\ d \in oversized
  /\ answer' = [answer EXCEPT ![d] = "failed"]
  /\ UNCHANGED <<switch, pending, flights, inbox, route, lost, admin, oversized, faults>>

Receives(d) == Arrives(d) /\ d \notin oversized

AckUntargeted(d) ==
  /\ Receives(d) /\ Primary = None
  /\ answer' = [answer EXCEPT ![d] = "untargeted"]
  /\ UNCHANGED <<switch, pending, flights, inbox, route, lost, admin, oversized, faults>>

Route(d) ==
  /\ Receives(d) /\ Primary # None
  /\ flights' = flights \cup {Sent(d, Primary, TRUE)}
                        \cup {Sent(d, s, FALSE) : s \in {Secondary} \ {None}}
  /\ pending' = pending \cup {d}
  /\ route' = [route EXCEPT ![d] = Primary]
  /\ UNCHANGED <<switch, inbox, answer, lost, admin, oversized, faults>>

\* The requests of gone end; of those that were awaited, Intuit is told how.
End(gone, how) ==
  /\ flights' = flights \ gone
  /\ pending' = pending \ {f.d : f \in {g \in gone : g.awaited}}
  /\ answer' = [d \in Deliveries |-> IF \E f \in gone : f.awaited /\ f.d = d
                                     THEN how ELSE answer[d]]

\* Mutant of AckDeadline: it is a timeout of the request that the site has
\* begun to answer, and a site that does not finish is waited for.
AckDeadlineOfRequest(d) ==
  /\ Runs /\ d \in pending
  /\ \E f \in flights :
       /\ f.awaited /\ f.d = d /\ f.pc # "cut"
       /\ flights' = (flights \ {f}) \cup {[f EXCEPT !.awaited = FALSE]}
  /\ pending' = pending \ {d}
  /\ answer' = [answer EXCEPT ![d] = "early"]
  /\ UNCHANGED <<switch, inbox, route, lost, admin, oversized, faults>>

\* Mutant of AckDeadline: the request that lost the race still answers.
AckDeadlineTwice(d) ==
  /\ Runs /\ d \in pending
  /\ pending' = pending \ {d}
  /\ answer' = [answer EXCEPT ![d] = "early"]
  /\ UNCHANGED <<switch, flights, inbox, route, lost, admin, oversized, faults>>

\* Intuit has its answer, and what the site still does is for nobody.
LetGo(f, how) ==
  /\ f.awaited
  /\ flights' = (flights \ {f}) \cup {[f EXCEPT !.awaited = FALSE]}
  /\ pending' = pending \ {f.d}
  /\ answer' = [answer EXCEPT ![f.d] = how]
  /\ UNCHANGED <<switch, inbox, route, lost, admin, oversized, faults>>

\* The deadline wins the race: the request goes on and nobody looks at it.
AckDeadline(d) == Runs /\ \E f \in flights : f.d = d /\ LetGo(f, "early")

\* request.setTimeout, which the environment may set below the deadline: the
\* request is destroyed while the site's handler is at work.
ForwardTimeout(f) == Runs /\ f.pc = "storing" /\ LetGo(f, "broken")

-----------------------------------------------------------------------------
(* A site: handleProvider *)

Heard(f) == f.awaited => Runs

Reach(f) ==
  /\ f.pc = "going" /\ switch # "down"
  /\ flights' = (flights \ {f}) \cup {[f EXCEPT !.pc = "storing"]}
  /\ UNCHANGED <<switch, pending, inbox, answer, route, lost, admin, oversized, faults>>

\* Mutant of Complete: the first event is enough.
CompleteAtFirst(f) == f.stored >= 1

Complete(f) == f.stored = Len(Batch[f.d])

\* Mutant of Store: an event the inbox has ends the loop with an error.
StoreOrFail(f) ==
  /\ f.pc = "storing" /\ ~Complete(f) /\ Heard(f)
  /\ IF Batch[f.d][f.stored + 1] \in inbox[f.site]
     THEN End({f}, "failed") /\ UNCHANGED inbox
     ELSE /\ inbox' = [inbox EXCEPT ![f.site] = @ \cup {Batch[f.d][f.stored + 1]}]
          /\ flights' = (flights \ {f}) \cup {[f EXCEPT !.stored = @ + 1]}
          /\ UNCHANGED <<pending, answer>>
  /\ UNCHANGED <<switch, route, lost, admin, oversized, faults>>

\* publish: an event the inbox has is a duplicate, and the loop goes on.
Store(f) ==
  /\ f.pc = "storing" /\ ~Complete(f)
  /\ inbox' = [inbox EXCEPT ![f.site] = @ \cup {Batch[f.d][f.stored + 1]}]
  /\ flights' = (flights \ {f}) \cup {[f EXCEPT !.stored = @ + 1]}
  /\ UNCHANGED <<switch, pending, answer, route, lost, admin, oversized, faults>>

\* The answer is relayed if it is still awaited.
Respond(f) ==
  /\ f.pc = "storing" /\ Complete(f) /\ Heard(f)
  /\ End({f}, "stored")
  /\ UNCHANGED <<switch, inbox, route, lost, admin, oversized, faults>>

\* publish throws: an error is relayed as it is, and what was stored stays.
StoreFails(f) ==
  /\ f.pc = "storing" /\ ~Complete(f) /\ Heard(f)
  /\ Fault("db_error")
  /\ End({f}, "failed")
  /\ lost' = IF f.awaited THEN lost ELSE lost \cup {f.d}
  /\ UNCHANGED <<switch, inbox, route, admin, oversized>>

\* The request fails, refused or timed out, before the site has it.
Unreachable(f) ==
  /\ f.pc = "going" /\ Heard(f)
  /\ Fault("unreachable")
  /\ End({f}, "broken")
  /\ lost' = lost \cup {f.d}
  /\ UNCHANGED <<switch, inbox, route, admin, oversized>>

\* The site breaks off in the middle of its answer: neither end nor error is
\* heard, and forward never resolves.
Severed(f) ==
  /\ f.pc = "storing" /\ Complete(f)
  /\ Fault("severed")
  /\ flights' = (flights \ {f}) \cup {[f EXCEPT !.pc = "cut"]}
  /\ UNCHANGED <<switch, pending, inbox, answer, route, lost, admin, oversized>>

\* The process at the site stops, with the handlers it runs.
SiteCrash(s) ==
  LET gone == {f \in flights : f.site = s /\ f.pc = "storing"}
  IN  /\ gone # {} /\ \A f \in gone : Heard(f)
      /\ Fault("site_crash")
      /\ End(gone, "broken")
      /\ lost' = lost \cup {f.d : f \in gone}
      /\ UNCHANGED <<switch, inbox, route, admin, oversized>>

-----------------------------------------------------------------------------
(* The operator: the POST of handleControl *)

Unchanged == "unchanged"   \* the field is absent from the body

Posts == [mode : Modes \cup {Unchanged}, target : Targets \cup {None, Unchanged}]

Changed(p) ==
  [mode   |-> IF p.mode = Unchanged THEN state.mode ELSE p.mode,
   target |-> IF p.target = Unchanged THEN state.target ELSE p.target]

Valid(next) == next.mode # "local" => next.target # None

Begins(p) ==
  /\ switch = "up" /\ control = "idle" /\ changes < MaxChanges
  /\ Valid(Changed(p))
  /\ changes' = changes + 1
  /\ state' = Changed(p) /\ asked' = asked \cup {Changed(p)}
  /\ control' = "saving"

\* Mutant of Change: the file is written in place.
ChangeInPlace(p) ==
  /\ Begins(p) /\ file' = None
  /\ UNCHANGED <<switch, told, unsaved, world, oversized, faults>>

\* saveState writes a temporary file first.
Change(p) ==
  /\ Begins(p)
  /\ UNCHANGED <<switch, file, told, unsaved, world, oversized, faults>>

\* renameSync
Saved ==
  /\ control = "saving"
  /\ file' = state /\ control' = "saved" /\ unsaved' = FALSE
  /\ UNCHANGED <<switch, state, changes, asked, told, world, oversized, faults>>

\* The error is logged and swallowed.
NotSaved ==
  /\ control = "saving"
  /\ Fault("disk")
  /\ control' = "saved" /\ unsaved' = TRUE
  /\ UNCHANGED <<switch, state, file, changes, asked, told, world, oversized>>

Answer ==
  /\ control = "saved"
  /\ control' = "idle" /\ told' = state /\ asked' = {}
  /\ UNCHANGED <<switch, state, file, changes, unsaved, world, oversized, faults>>

-----------------------------------------------------------------------------
(* The process *)

\* SIGTERM: server.close stops listening.
Terminate ==
  /\ switch = "up" /\ Runs
  /\ Fault("stop")
  /\ switch' = "closing"
  /\ UNCHANGED <<world, admin, oversized>>

\* The sockets of the process are gone.  A request that is on its way does not
\* arrive; a handler that a site has begun finishes, for nobody.
Ends ==
  /\ switch' = "down"
  /\ flights' = {[f EXCEPT !.awaited = FALSE] : f \in {g \in flights : g.pc = "storing"}}
  /\ lost' = lost \cup {f.d : f \in {g \in flights : g.pc = "going" /\ ~g.awaited}}

\* server.close calls back when every connection is answered; the requests
\* that were acked early are not connections.
Exit ==
  /\ switch = "closing" /\ pending = {} /\ control = "idle"
  /\ Ends
  /\ UNCHANGED <<pending, inbox, answer, route, admin, oversized, faults>>

Crash ==
  /\ switch # "down"
  /\ Fault("crash")
  /\ Ends
  /\ pending' = {} /\ control' = "idle"
  /\ answer' = [d \in Deliveries |-> IF d \in pending THEN "lost" ELSE answer[d]]
  /\ UNCHANGED <<inbox, route, state, file, changes, asked, told, unsaved, oversized>>

\* loadState
Restart ==
  /\ switch = "down"
  /\ switch' = "up"
  /\ state' = IF file = None THEN Env ELSE file
  /\ UNCHANGED <<world, file, control, changes, asked, told, unsaved, oversized, faults>>

-----------------------------------------------------------------------------
Next ==
  \/ \E d \in Deliveries : Refuse(d) \/ AckUntargeted(d) \/ Route(d) \/ AckDeadline(d)
  \/ \E f \in flights :
       \/ Reach(f) \/ Store(f) \/ Respond(f) \/ ForwardTimeout(f)
       \/ StoreFails(f) \/ Unreachable(f) \/ Severed(f)
  \/ \E s \in Sites : SiteCrash(s)
  \/ \E p \in Posts : Change(p)
  \/ Saved \/ NotSaved \/ Answer
  \/ Terminate \/ Exit \/ Crash \/ Restart

Spec == Init /\ [][Next]_vars

\* What has begun goes on: timers fire, sites answer, Intuit delivers again
\* and the container is restarted.
Fairness ==
  /\ WF_vars(Saved) /\ WF_vars(Answer) /\ WF_vars(Exit) /\ WF_vars(Restart)
  /\ \A d \in Deliveries :
       /\ WF_vars(AckDeadline(d))
       /\ WF_vars(AckUntargeted(d) \/ Route(d))
       /\ \A s \in Sites :
            WF_vars(\E f \in flights : f.d = d /\ f.site = s /\ (Reach(f) \/ Store(f) \/ Respond(f)))

FairSpec == Spec /\ Fairness

-----------------------------------------------------------------------------
(* Properties *)

\* What Intuit is told is stored is stored, all of it, where the delivery was
\* sent for its answer, whatever else it was sent to, and it stays so: the ack
\* "on the primary's result" (server.mjs:285) of a handler that stores first.
StoredIsStored ==
  \A d \in Deliveries : answer[d] = "stored" => Events(d) \subseteq inbox[route[d]]

\* The switch is where the operator was last told it is, or where it was asked
\* to go since without an answer, over any crash in between: "a torn state file read at boot
\* would silently reset the mode" (server.mjs:80).  A change that could not be
\* written is excused.
ChangeSurvives ==
  switch # "down" /\ told # None /\ ~unsaved => state \in {told} \cup asked

\* "Never later than the deadline" (server.mjs:285): no delivery waits for a
\* site that does not answer, and none for the secondary one.
EventuallyAnswered ==
  \A d \in Deliveries : d \in pending ~> d \notin pending

\* Every delivery is stored whole in the end, by its first delivery or a later
\* one, unless it is too large, there was nowhere to send it or it was answered
\* 202 and a fault then kept it from its site.
EventuallyStored ==
  \A d \in Deliveries :
    <>(\/ d \in oversized
       \/ \E s \in Sites : Events(d) \subseteq inbox[s]
       \/ answer[d] = "untargeted" \/ d \in lost)
=============================================================================
