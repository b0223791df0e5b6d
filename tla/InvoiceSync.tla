---------------------------- MODULE InvoiceSync ----------------------------
(***************************************************************************)
(* The invoice pipeline of src/src/services/syncService.ts: one invoice    *)
(* number, the record each system keeps of it, the link between the two,   *)
(* and the workers that process the notifications of its changes, one      *)
(* awaited call per action.                                                *)
(*                                                                         *)
(* A record of either system is its comparable content `c` and the instant *)
(* `at` of its last write, which stands for updated_at and `version` on    *)
(* the internal side and for LastUpdatedTime and SyncToken on the external *)
(* side: each of these is new after every write and after no other step.   *)
(* The two clocks are one.                                                 *)
(*                                                                         *)
(* A notification is pending from the write it tells of; workers take any  *)
(* pending one, as delivery and backoff reorder them (EventQueue).         *)
(***************************************************************************)
EXTENDS ConflictResolver, FiniteSets

CONSTANTS
  Workers,      \* the SyncWorker processes
  UserOps,      \* the operations of AllUserOps that users perform
  Faults,       \* the faults of AllFaults that may happen
  MaxEdits,     \* bound: user operations in a behaviour
  MaxFaults,    \* bound: faults in a behaviour
  MaxExternal,  \* bound: invoices ever made in the accounting system
  MaxAttempts   \* options.maxAttempts of the workers

AllUserOps == {"int_create", "int_edit", "int_void", "int_delete", "int_pay",
               "ext_create", "ext_edit", "ext_void", "ext_delete", "ext_pay"}
AllFaults  == {"crash", "timeout", "transient"}

ASSUME ConstantsOK ==
  /\ UserOps \subseteq AllUserOps /\ Faults \subseteq AllFaults
  /\ MaxEdits \in Nat /\ MaxFaults \in Nat
  /\ MaxExternal \in Nat /\ MaxAttempts \in Nat \ {0}

ExternalIds == 1..MaxExternal

VARIABLES
  clock,      \* the instant of the last write, or of the last torn read
  internal,   \* the invoices row, or None
  external,   \* the invoice with each external id, or None: never made or hard-deleted
  made,       \* how many external ids have been given out
  link,       \* the entity_links row, or None
  inbox,      \* the notifications that are not settled
  dead,       \* the notifications that were dead-lettered
  wk,         \* what each worker is doing
  audit,      \* the states preserved as `overwritten` in the audit log
  edits, faults,
  \* History, read by properties only:
  latest,     \* the state the last user operation left its side in
  blurred,    \* a user acted while an event was being processed, or a payment
              \* made an old state look new
  displaced   \* what the sync overwrote that was not the last synced snapshot

sides == <<internal, external, made, clock>>
vars  == <<clock, internal, external, made, link, inbox, dead, wk, audit,
           edits, faults, latest, blurred, displaced>>

-----------------------------------------------------------------------------
(* Types *)

Record == [c : Comparable, at : Nat]

\* tries: the attempts of the inbox row, counted up to MaxAttempts.
Event == [src : {"internal", "external"}, id : 0..MaxExternal, at : Nat, tries : 0..MaxAttempts]

Link == [ext : ExternalIds, base : Comparable \cup {None}, synced : Nat]

ASSUME NoneOK == None \notin Record \cup Link \cup Comparable

Stages == {"idle", "lookup", "readInt", "lines", "readExt", "find", "create", "insert",
           "newLink", "recreate", "repoint", "writeExt", "writeInt", "mark", "finish"}

\* A worker's local variables: the event, the internal and external states it
\* has read, the external id it acts on, the link it found, its decision.
Worker == [pc : Stages, ev : Event \cup {None}, i : Record \cup {None},
           x : Record \cup {None}, xid : 0..MaxExternal, l : Link \cup {None},
           d : Decisions \cup {None}]

Idle == [pc |-> "idle", ev |-> None, i |-> None, x |-> None, xid |-> 0,
         l |-> None, d |-> None]

TypeOK ==
  /\ clock \in Nat /\ made \in 0..MaxExternal
  /\ internal \in Record \cup {None}
  /\ external \in [ExternalIds -> Record \cup {None}]
  /\ link \in Link \cup {None}
  /\ inbox \subseteq Event /\ dead \subseteq Event
  /\ wk \in [Workers -> Worker]
  /\ audit \subseteq Comparable
  /\ displaced \subseteq {"internal", "external"} \X Comparable
  /\ latest \in Comparable \cup {None} /\ blurred \in BOOLEAN
  /\ edits \in 0..MaxEdits /\ faults \in 0..MaxFaults

Init ==
  /\ clock = 0 /\ made = 0 /\ edits = 0 /\ faults = 0
  /\ internal = None /\ link = None /\ latest = None /\ blurred = FALSE
  /\ external = [id \in ExternalIds |-> None]
  /\ inbox = {} /\ dead = {} /\ audit = {} /\ displaced = {}
  /\ wk = [w \in Workers |-> Idle]

-----------------------------------------------------------------------------
(* Writes *)

now == clock + 1

\* dedupe_key: entity and version internally, entity and lastUpdated externally.
FromInternal(at)     == [src |-> "internal", id |-> 0, at |-> at, tries |-> 0]
FromExternal(id, at) == [src |-> "external", id |-> id, at |-> at, tries |-> 0]

Active(body) == [life |-> "active", body |-> body, zero |-> FALSE]

PutInternal(c) ==
  /\ internal' = [c |-> c, at |-> now]
  /\ clock' = now
  /\ UNCHANGED <<external, made>>

\* The accounting system tells of every change, its own users' or ours.
PutExternal(id, c) ==
  /\ external' = [external EXCEPT ![id] = [c |-> c, at |-> now]]
  /\ clock' = now
  /\ UNCHANGED internal

MakeExternal(c) ==
  /\ made < MaxExternal
  /\ made' = made + 1
  /\ PutExternal(made + 1, c)

-----------------------------------------------------------------------------
(* The users of the two systems *)

UserStep(op) == /\ op \in UserOps /\ edits < MaxEdits /\ edits' = edits + 1
                /\ blurred' = (blurred \/ op \in {"int_pay", "ext_pay"} \/ \E w \in Workers : wk[w].pc # "idle")
                /\ UNCHANGED <<link, dead, wk, audit, faults, displaced>>

\* InvoiceController.create, update, void and delete: the repository call and
\* the webhook.  Sync's own writes send none.
InternalUser(op, c) ==
  /\ UserStep(op)
  /\ PutInternal(c)
  /\ inbox' = inbox \cup {FromInternal(now)}
  /\ latest' = c

IntCreate == internal = None /\ InternalUser("int_create", Active(now))
IntEdit   == /\ internal # None /\ ~Dead(internal.c)
             /\ InternalUser("int_edit", Active(now))
IntVoid   == /\ internal # None
             /\ InternalUser("int_void", [internal.c EXCEPT !.life = "voided"])
IntDelete == /\ internal # None
             /\ InternalUser("int_delete", [internal.c EXCEPT !.life = "deleted"])

\* addPayment (and applyExternalPayment, on a worker that processes a payment):
\* bumpVersion makes the row newer with the content it had.
IntPay ==
  /\ UserStep("int_pay")
  /\ internal # None
  /\ PutInternal(internal.c)
  /\ UNCHANGED <<inbox, latest>>

\* A user of the accounting system enters the invoice there, with new content
\* or with the content it has internally.
ExtCreate ==
  /\ UserStep("ext_create") /\ made = 0
  /\ \E b \in {now} \cup (IF internal = None THEN {} ELSE {internal.c.body}) :
       MakeExternal(Active(b)) /\ latest' = Active(b)
  /\ inbox' = inbox \cup {FromExternal(1, now)}

ExternalUser(op, id, c) ==
  /\ UserStep(op)
  /\ external[id] # None
  /\ PutExternal(id, c) /\ UNCHANGED made
  /\ inbox' = inbox \cup {FromExternal(id, now)}
  /\ latest' = c

ExtEdit(id) == /\ external[id] # None /\ ~Dead(external[id].c)
               /\ ExternalUser("ext_edit", id, Active(now))
ExtVoid(id) == /\ external[id] # None /\ ~Dead(external[id].c)
               /\ ExternalUser("ext_void", id, Voided(external[id].c))

\* A payment on the invoice in the accounting system (createPayment of a worker
\* that processes one, too) makes it newer with the content it had, and may be
\* told as a change of the invoice.
ExtPay(id) ==
  /\ UserStep("ext_pay")
  /\ external[id] # None /\ ~Dead(external[id].c)
  /\ PutExternal(id, external[id].c)
  /\ inbox' \in {inbox, inbox \cup {FromExternal(id, now)}}
  /\ UNCHANGED <<made, latest>>

ExtDelete(id) ==
  /\ UserStep("ext_delete")
  /\ external[id] # None
  /\ external' = [external EXCEPT ![id] = None]
  /\ clock' = now
  /\ inbox' = inbox \cup {FromExternal(id, now)}
  /\ latest' = [external[id].c EXCEPT !.life = "deleted"]
  /\ UNCHANGED <<internal, made>>

-----------------------------------------------------------------------------
(* How a worker goes on, and how it ends *)

Goes(w, pc) == wk' = [wk EXCEPT ![w].pc = pc]
Users == <<edits, latest, blurred>>

\* ack: processed or skipped.
Done(w) ==
  /\ inbox' = inbox \ {wk[w].ev}
  /\ wk' = [wk EXCEPT ![w] = Idle]

\* Mutant of Fails: the call is repeated with what was read before.
FailsInPlace(w, permanent) == UNCHANGED <<wk, dead, inbox>>

\* handleError after maxAttempts or a permanent error, and before.
Fails(w, permanent) ==
  /\ wk' = [wk EXCEPT ![w] = Idle]
  /\ IF permanent \/ wk[w].ev.tries >= MaxAttempts
     THEN dead' = dead \cup {wk[w].ev} /\ inbox' = inbox \ {wk[w].ev}
     ELSE UNCHANGED <<dead, inbox>>

Fault(f) == f \in Faults /\ faults < MaxFaults /\ faults' = faults + 1

Claim(w, e) ==
  /\ wk[w].pc = "idle"
  /\ e \in inbox /\ \A v \in Workers : wk[v].ev # e
  /\ LET claimed == [e EXCEPT !.tries = IF @ < MaxAttempts THEN @ + 1 ELSE @] IN
     /\ inbox' = (inbox \ {e}) \cup {claimed}
     /\ wk' = [wk EXCEPT ![w] = [Idle EXCEPT !.pc = "lookup", !.ev = claimed]]
  /\ UNCHANGED <<sides, link, dead, audit, faults, displaced, Users>>

\* findByInternalId, findByExternalId.
FoundLink(ev) ==
  IF link # None /\ (ev.src = "internal" \/ link.ext = ev.id) THEN link ELSE None

Lookup(w) ==
  /\ wk[w].pc = "lookup"
  /\ LET l == FoundLink(wk[w].ev) IN
     wk' = [wk EXCEPT ![w] = [@ EXCEPT
              !.l = l,
              !.pc = IF l = None /\ wk[w].ev.src = "external" THEN "readExt" ELSE "readInt",
              !.xid = IF l = None THEN wk[w].ev.id ELSE l.ext]]
  /\ UNCHANGED <<sides, link, inbox, dead, audit, faults, displaced, Users>>

\* get, in the unlinked external handler getByDocNumber: the row.
ReadInternal(w) ==
  /\ wk[w].pc = "readInt"
  /\ wk' = [wk EXCEPT ![w] = [@ EXCEPT !.pc = IF internal = None THEN "insert" ELSE "lines",
                                       !.i = internal]]
  /\ UNCHANGED <<sides, link, inbox, dead, audit, faults, displaced, Users>>

\* The contents that fetchFull may make of the row it has read and the lines
\* there are now: if a write came between them, of both or of a mixture that no
\* record has had.
Read(row) ==
  {row.c.body} \cup (IF internal.c.body = row.c.body THEN {} ELSE {internal.c.body, now})

\* The lines, by a SELECT of their own, and on to the linked, the unlinked
\* external or the unlinked internal handler.
ReadLines(w) ==
  /\ wk[w].pc = "lines"
  /\ \E body \in Read(wk[w].i) :
       LET goes(pc) == /\ wk' = [wk EXCEPT ![w] = [@ EXCEPT !.pc = pc, !.i.c.body = body]]
                       /\ UNCHANGED inbox IN
       /\ IF wk[w].l # None THEN goes("readExt")
          ELSE IF wk[w].ev.src = "external" THEN goes("newLink")
          ELSE IF Dead(wk[w].i.c) THEN Done(w)
          ELSE goes("find")
       /\ clock' = IF body = now THEN now ELSE clock
  /\ UNCHANGED <<internal, external, made, link, dead, audit, faults, displaced, Users>>

\* An external invoice that is gone reads as deleted since the last sync.
Seen(x, l, i) ==
  IF x # None THEN x.c
  ELSE [(IF l.base # None THEN l.base ELSE i.c) EXCEPT !.life = "deleted"]

\* Its modification time, when it is gone: that of the external event, or of
\* the last sync when an internal event finds out.
ExternalAt(x, ev, l) ==
  IF x # None THEN x.at ELSE IF ev.src = "external" THEN ev.at ELSE l.synced

\* Mutant of IsEcho: what happened before the last sync is an echo.
IsEchoByTime(ev, i, seen, l) == l.base # None /\ ev.at <= l.synced

IsEcho(ev, i, seen, l) ==
  l.base # None /\ l.base = IF ev.src = "internal" THEN i.c ELSE seen

AfterDecision(d, x) ==
  IF d = "noop" THEN "mark"
  ELSE IF ~InternalWins(d) THEN "writeInt"
  ELSE IF x = None THEN "recreate" ELSE "writeExt"

\* getInvoice: towards the unlinked external handler, or, when linked, to the
\* echo test and the resolution.
ReadExternal(w) ==
  /\ wk[w].pc = "readExt"
  /\ LET r == wk[w]  x == external[r.xid]  IN
     IF r.l = None
     THEN IF x = None THEN Done(w)
          ELSE /\ wk' = [wk EXCEPT ![w] = [@ EXCEPT !.pc = "readInt", !.x = x]]
               /\ UNCHANGED inbox
     ELSE LET seen == Seen(x, r.l, r.i)
              d == Decision(r.l.base, r.i.c, seen, r.i.at, ExternalAt(x, r.ev, r.l)) IN
          IF IsEcho(r.ev, r.i, seen, r.l) THEN Done(w)
          ELSE /\ wk' = [wk EXCEPT ![w] = [@ EXCEPT !.pc = AfterDecision(d, x), !.x = x, !.d = d]]
               /\ UNCHANGED inbox
  /\ UNCHANGED <<sides, link, dead, audit, faults, displaced, Users>>

-----------------------------------------------------------------------------
(* Without a link *)

\* Mutant of Find: no lookup before the create.
FindNothing(w) ==
  /\ wk[w].pc = "find"
  /\ Goes(w, "create")
  /\ UNCHANGED <<sides, link, inbox, dead, audit, faults, displaced, Users>>

\* findInvoiceByDocNumber: any of the records with this number.
Find(w) ==
  /\ wk[w].pc = "find"
  /\ \/ \E id \in ExternalIds :
          /\ external[id] # None
          /\ wk' = [wk EXCEPT ![w] = [@ EXCEPT !.pc = "newLink", !.xid = id, !.x = external[id]]]
     \/ /\ \A id \in ExternalIds : external[id] = None
        /\ Goes(w, "create")
  /\ UNCHANGED <<sides, link, inbox, dead, audit, faults, displaced, Users>>

\* createInvoice sends no status: what it makes is active.
Created(c) == [c EXCEPT !.life = "active"]

MakeFrom(w) ==
  /\ MakeExternal(Created(wk[w].i.c))
  /\ inbox' = inbox \cup {FromExternal(made + 1, now)}
  /\ UNCHANGED <<link, dead, audit, faults, displaced, Users>>

Create(w) ==
  /\ wk[w].pc = "create"
  /\ MakeFrom(w)
  /\ wk' = [wk EXCEPT ![w] = [@ EXCEPT !.pc = "newLink", !.xid = made + 1, !.x = external'[made + 1]]]

\* applyCanonical without an id; doc_number is unique.
Insert(w) ==
  /\ wk[w].pc = "insert"
  /\ IF internal = None
     THEN /\ PutInternal(wk[w].x.c)
          /\ wk' = [wk EXCEPT ![w] = [@ EXCEPT !.pc = "newLink", !.i = internal']]
          /\ UNCHANGED <<inbox, dead>>
     ELSE Fails(w, FALSE) /\ UNCHANGED sides
  /\ UNCHANGED <<link, audit, faults, displaced, Users>>

\* links.create, which the unique constraints make throw when there is a link,
\* and the resolution of linkExisting when the two sides differ.
NewLink(w) ==
  /\ wk[w].pc = "newLink"
  /\ LET r == wk[w]
         d == Decision(None, r.i.c, r.x.c, r.i.at, r.x.at)
         l == [ext |-> r.xid, base |-> IF d = "noop" THEN r.i.c ELSE None, synced |-> 0] IN
     IF link = None
     THEN /\ link' = l
          /\ wk' = [wk EXCEPT ![w] = [@ EXCEPT !.pc = AfterDecision(d, r.x), !.l = l, !.d = d]]
          /\ UNCHANGED <<inbox, dead>>
     ELSE Fails(w, FALSE) /\ UNCHANGED link
  /\ UNCHANGED <<sides, audit, faults, displaced, Users>>

-----------------------------------------------------------------------------
(* applyResolution *)

MergedOf(w) ==
  LET r == wk[w] IN Merged(r.d, r.i.c, Seen(r.x, r.l, r.i))

Displaces(w, side, c) ==
  displaced' = displaced \cup ({side} \X ({c} \ {wk[w].l.base, MergedOf(w)}))

\* The external invoice was hard-deleted and the internal state wins.
Recreate(w) ==
  /\ wk[w].pc = "recreate"
  /\ MakeFrom(w)
  /\ wk' = [wk EXCEPT ![w] = [@ EXCEPT !.pc = "repoint", !.xid = made + 1]]

Repoint(w) ==
  /\ wk[w].pc = "repoint"
  /\ link' = [link EXCEPT !.ext = wk[w].xid]
  /\ Goes(w, "mark")
  /\ UNCHANGED <<sides, inbox, dead, audit, faults, displaced, Users>>

\* Mutant of CanWrite: no SyncToken is sent.
CanWriteBlind(w) == external[wk[w].xid] # None

\* voidInvoice or updateInvoice: a record that is gone is a permanent error,
\* one that was written since it was read is a StaleVersionError.
CanWrite(w) == external[wk[w].xid] # None /\ external[wk[w].xid].at = wk[w].x.at

PutMerged(w) ==
  LET c == external[wk[w].xid].c  m == MergedOf(w) IN
  /\ PutExternal(wk[w].xid, IF Dead(m) THEN Voided(c) ELSE m)
  /\ UNCHANGED made
  /\ Displaces(w, "external", c)

WriteExternal(w) ==
  /\ wk[w].pc = "writeExt"
  /\ IF CanWrite(w)
     THEN /\ PutMerged(w)
          /\ inbox' = inbox \cup {FromExternal(wk[w].xid, now)}
          /\ Goes(w, "mark")
          /\ UNCHANGED dead
     ELSE /\ Fails(w, external[wk[w].xid] = None)
          /\ UNCHANGED <<sides, displaced>>
  /\ UNCHANGED <<link, audit, faults, Users>>

\* setLifecycle or applyCanonical on the row as it now is: neither looks at
\* the version that was read.
WriteInternal(w) ==
  /\ wk[w].pc = "writeInt"
  /\ LET m == MergedOf(w) IN
     PutInternal(IF Dead(m) THEN [internal.c EXCEPT !.life = m.life] ELSE m)
  /\ Displaces(w, "internal", internal.c)
  /\ Goes(w, "mark")
  /\ UNCHANGED <<link, inbox, dead, audit, faults, Users>>

Mark(w) ==
  /\ wk[w].pc = "mark"
  /\ link' = [link EXCEPT !.base = MergedOf(w), !.synced = clock]
  /\ Goes(w, "finish")
  /\ UNCHANGED <<sides, inbox, dead, audit, faults, displaced, Users>>

\* The audit row, and the ack.
Finish(w) ==
  /\ wk[w].pc = "finish"
  /\ audit' = audit \cup Overwritten(wk[w].d, wk[w].i.c, Seen(wk[w].x, wk[w].l, wk[w].i))
  /\ Done(w)
  /\ UNCHANGED <<sides, link, dead, faults, displaced, Users>>

-----------------------------------------------------------------------------
(* Faults *)

\* The worker dies; the event is claimed again when its lease is over.
Crash(w) ==
  /\ wk[w].pc # "idle"
  /\ Fault("crash")
  /\ wk' = [wk EXCEPT ![w] = Idle]
  /\ UNCHANGED <<sides, link, inbox, dead, audit, displaced, Users>>

\* A call to the provider throws without having had an effect.
ProviderFails(w) ==
  /\ wk[w].pc \in {"readExt", "find", "create", "recreate", "writeExt"}
  /\ Fault("transient")
  /\ Fails(w, FALSE)
  /\ UNCHANGED <<sides, link, audit, displaced, Users>>

\* AmbiguousWriteError: the write is applied and its answer is lost.
TimesOut(w) ==
  /\ Fault("timeout")
  /\ \/ /\ wk[w].pc \in {"create", "recreate"}
        /\ MakeExternal(Created(wk[w].i.c))
        /\ UNCHANGED displaced
     \/ /\ wk[w].pc = "writeExt" /\ CanWrite(w)
        /\ PutMerged(w)
  /\ wk' = [wk EXCEPT ![w] = Idle]
  /\ LET id == IF wk[w].pc = "writeExt" THEN wk[w].xid ELSE made + 1
         last == wk[w].ev.tries >= MaxAttempts IN
     /\ inbox' = (inbox \ (IF last THEN {wk[w].ev} ELSE {})) \cup {FromExternal(id, now)}
     /\ dead' = IF last THEN dead \cup {wk[w].ev} ELSE dead
  /\ UNCHANGED <<link, audit, Users>>

-----------------------------------------------------------------------------
User ==
  \/ IntCreate \/ IntEdit \/ IntVoid \/ IntDelete \/ IntPay \/ ExtCreate
  \/ \E id \in ExternalIds : ExtEdit(id) \/ ExtVoid(id) \/ ExtPay(id) \/ ExtDelete(id)

Step(w) ==
  \/ \E e \in inbox : Claim(w, e)
  \/ Lookup(w) \/ ReadInternal(w) \/ ReadLines(w) \/ ReadExternal(w)
  \/ Find(w) \/ Create(w) \/ Insert(w) \/ NewLink(w)
  \/ Recreate(w) \/ Repoint(w) \/ WriteExternal(w) \/ WriteInternal(w)
  \/ Mark(w) \/ Finish(w)

Mishap(w) == Crash(w) \/ ProviderFails(w) \/ TimesOut(w)

Next == User \/ \E w \in Workers : Step(w) \/ Mishap(w)

Spec == Init /\ [][Next]_vars

\* A worker that has something to do does it.
FairSpec == Spec /\ \A w \in Workers : WF_vars(Step(w))

-----------------------------------------------------------------------------
(* Properties *)

Live(id) == external[id] # None
Quiet == inbox = {} /\ \A w \in Workers : wk[w].pc = "idle"

\* README "the system is always convergent": once every notification has been
\* handled, the invoice is dead on both sides, or active with one content.
Agree ==
  /\ link # None
  /\ LET x == external[link.ext] IN
     IF Dead(internal.c) THEN x = None \/ Dead(x.c) ELSE x # None /\ x.c = internal.c
Convergent == Quiet /\ dead = {} /\ link # None => Agree

\* Crashes, timeouts and retries never leave two invoices with one number in
\* the accounting system, as long as nobody hard-deletes one there.
OneExternalInvoice == Cardinality({id \in ExternalIds : Live(id)}) <= 1

\* README "the overwritten state is preserved in the audit log, so nothing is
\* lost silently": what the sync overwrote on either side, other than the
\* snapshot both had, is in the audit log once the work is done.
NothingLostSilently ==
  Quiet => \A o \in displaced : o[2] \in audit

\* The same of the accounting system, whose SyncToken stops a write that was
\* decided on another state than the one it overwrites.
ExternalLossAudited ==
  Quiet => \A o \in displaced : o[1] = "external" => o[2] \in audit

\* The internal side has no such stop, so there it takes an undisturbed worker:
\* no user acts while an event is processed, and no payment moves the time of an
\* invoice.
LossAuditedUndisturbed == ~blurred => NothingLostSilently

\* Last write wins: in the end both sides show what the last user did, if no
\* user acted during the processing of an event, no payment has made an old
\* state look new and no invoice was hard-deleted, whose time is not known.
LastEditWins ==
  /\ Quiet /\ dead = {} /\ link # None
  /\ ~blurred /\ \A id \in 1..made : Live(id)
  => IF Dead(latest) THEN Dead(internal.c) ELSE internal.c = latest

\* Every notification is settled and the sync comes to rest.
ComesToRest == <>[]Quiet
=============================================================================
