-------------------------- MODULE InvoiceSyncProofs --------------------------
(***************************************************************************)
(* Theorems about InvoiceSync, for any number of workers, user operations  *)
(* and external invoices.                                                  *)
(***************************************************************************)
EXTENDS InvoiceSync, FiniteSetTheorems, TLAPS

-----------------------------------------------------------------------------
(* The inductive invariant *)

\* What a notification e tells of is there: a row, when the internal system
\* has int, or an external id.
Origin(e, int) == IF e.src = "internal" THEN int # None ELSE e.id \in ExternalIds

Resolving == {"recreate", "repoint", "writeExt", "writeInt", "mark", "finish"}

\* What the locals of a worker t are good for at each call it makes, when the
\* internal system has int and the link row is lk.
Placed(t, int, lk) ==
  /\ t.pc # "idle" => t.ev \in Event /\ Origin(t.ev, int)
  /\ t.pc \in {"idle", "lookup"} => t.x = None
  /\ t.l # None \/ t.i # None => int # None
  /\ t.l # None => lk \in Link
  /\ t.pc \in {"readInt", "lines"} => IF t.l # None THEN t.xid \in ExternalIds
                                     ELSE t.ev.src = "external" => t.x # None
  /\ t.pc = "readExt" => t.xid \in ExternalIds /\ (t.l # None => t.i # None)
  /\ t.pc \in {"lines", "find", "create", "newLink"} \cup Resolving => t.i # None
  /\ t.pc \in {"insert", "newLink", "writeExt"} => t.x # None
  /\ t.pc = "recreate" => t.x = None
  /\ t.pc = "repoint" => t.xid \in ExternalIds
  /\ t.pc \in Resolving => t.l \in Link /\ t.d \in Decisions /\ lk \in Link
  /\ t.pc = "writeExt" =>
       InternalWins(t.d) /\ (t.d = "one_sided_internal" => t.x.c = t.l.base)

\* The SyncToken tells the state: a record that carries the time of the one t
\* has read is that one, when the accounting system has ext.
Fresh(t, ext, time) ==
  t.x # None =>
    /\ t.xid \in ExternalIds /\ t.x.at <= time
    /\ ext[t.xid] # None /\ ext[t.xid].at = t.x.at => ext[t.xid] = t.x

IInv ==
  /\ \A e \in inbox : Origin(e, internal)
  /\ link # None => internal # None
  /\ \A id \in ExternalIds : external[id] # None => external[id].at <= clock
  /\ \A w \in Workers : Placed(wk[w], internal, link) /\ Fresh(wk[w], external, clock)

-----------------------------------------------------------------------------
(* The data *)

LEMMA Constants ==
  /\ MaxEdits \in Nat /\ MaxFaults \in Nat
  /\ MaxExternal \in Nat /\ MaxAttempts \in Nat \ {0}
  BY ConstantsOK DEF ConstantsOK

LEMMA IdleWorker ==
  /\ Idle \in Worker /\ Idle.pc = "idle"
  /\ \A int, lk : Placed(Idle, int, lk)
  /\ \A ext, time : Fresh(Idle, ext, time)
<1>1. /\ Idle.pc = "idle" /\ Idle.ev = None /\ Idle.i = None /\ Idle.x = None
      /\ Idle.l = None /\ Idle.d = None /\ Idle.xid = 0
  BY DEF Idle
<1>2. Idle \in Worker
  BY Constants DEF Idle, Worker, Stages
<1> QED BY <1>1, <1>2 DEF Placed, Fresh, Resolving

\* A record has contents, and contents may change their lifecycle.
LEMMA Contents ==
  /\ \A r \in Record : r # None /\ r.c \in Comparable /\ r.at \in Nat
  /\ \A c \in Comparable, at \in Nat : [c |-> c, at |-> at] \in Record
  /\ \A c \in Comparable, life \in Lifecycles : [c EXCEPT !.life = life] \in Comparable
  /\ \A c \in Comparable : Voided(c) \in Comparable /\ Created(c) \in Comparable
  /\ \A at \in Nat : Active(at) \in Comparable
<1>1. \A r \in Record : r # None /\ r.c \in Comparable /\ r.at \in Nat
  BY NoneOK DEF Record, NoneOK
<1>2. \A c \in Comparable, at \in Nat : [c |-> c, at |-> at] \in Record
  BY DEF Record
<1>3. \A c \in Comparable, life \in Lifecycles : [c EXCEPT !.life = life] \in Comparable
  BY DEF Comparable
<1>4. \A c \in Comparable : Voided(c) \in Comparable /\ Created(c) \in Comparable
  BY DEF Comparable, Voided, Created, Lifecycles
<1>5. \A at \in Nat : Active(at) \in Comparable
  BY DEF Comparable, Active, Lifecycles
<1> QED BY <1>1, <1>2, <1>3, <1>4, <1>5

LEMMA Events ==
  /\ \A at \in Nat : FromInternal(at) \in Event /\ FromInternal(at).src = "internal"
  /\ \A id \in ExternalIds, at \in Nat :
       FromExternal(id, at) \in Event /\ FromExternal(id, at).id = id
       /\ FromExternal(id, at).src = "external"
  BY Constants DEF FromInternal, FromExternal, Event, ExternalIds

\* A one-sided decision was made on an external side that is the snapshot.
LEMMA Decided ==
  \A base, int, ext, intAt, extAt :
    /\ Decision(base, int, ext, intAt, extAt) \in Decisions
    /\ Decision(base, int, ext, intAt, extAt) = "one_sided_internal" => ext = base
  BY DEF Decision, Decisions

\* What a worker sees of the other side and what it makes of both.
LEMMA Resolved ==
  ASSUME NEW t \in Worker, t.i # None, t.l \in Link \/ t.l = None
  PROVE  /\ t.i \in Record /\ t.i.c \in Comparable
         /\ t.x # None \/ t.l \in Link =>
              /\ Seen(t.x, t.l, t.i) \in Comparable
              /\ Merged(t.d, t.i.c, Seen(t.x, t.l, t.i)) \in Comparable
              /\ Overwritten(t.d, t.i.c, Seen(t.x, t.l, t.i)) \subseteq Comparable
<1>1. t.i \in Record /\ t.i.c \in Comparable /\ t.x \in Record \cup {None}
  BY Contents DEF Worker
<1>2. ASSUME t.x # None \/ t.l \in Link PROVE Seen(t.x, t.l, t.i) \in Comparable
  <2>1. CASE t.x # None
    BY <1>1, <2>1, Contents DEF Seen
  <2>2. CASE t.x = None
    <3>1. t.l.base \in Comparable \cup {None}
      BY <1>2, <2>2 DEF Link
    <3>2. (IF t.l.base # None THEN t.l.base ELSE t.i.c) \in Comparable
      BY <1>1, <3>1
    <3>3. "deleted" \in Lifecycles
      BY DEF Lifecycles
    <3> QED BY <2>2, <3>2, <3>3, Contents DEF Seen
  <2> QED BY <2>1, <2>2
<1> QED BY <1>1, <1>2 DEF Merged, Overwritten

-----------------------------------------------------------------------------
(* Steps, by what they do to what is shared *)

\* The two systems only get newer.
Newer ==
  /\ internal' \in Record \cup {None} /\ (internal # None => internal' # None)
  /\ external' \in [ExternalIds -> Record \cup {None}] /\ made' \in 0..MaxExternal
  /\ clock' \in Nat /\ clock <= clock'
  /\ \A id \in ExternalIds : external'[id] # None =>
       external'[id].at <= clock' /\ (external'[id] = external[id] \/ external'[id].at > clock)

LEMMA Kept ==
  ASSUME TypeOK, IInv, UNCHANGED sides PROVE Newer
  BY DEF TypeOK, IInv, sides, Newer

LEMMA PutsInternal ==
  ASSUME TypeOK, IInv, NEW c \in Comparable, PutInternal(c)
  PROVE  Newer /\ internal' \in Record /\ internal' # None
<1>1. [c |-> c, at |-> now] \in Record /\ now \in Nat /\ clock <= now
  BY Contents DEF TypeOK, now
<1> QED BY <1>1, Contents DEF TypeOK, IInv, PutInternal, Newer

LEMMA PutsExternal ==
  ASSUME TypeOK, IInv, NEW id \in ExternalIds, NEW c \in Comparable, PutExternal(id, c),
         made' \in 0..MaxExternal
  PROVE  /\ Newer /\ now \in Nat /\ clock' = now
         /\ external'[id] = [c |-> c, at |-> now] /\ external'[id] \in Record
<1>1. [c |-> c, at |-> now] \in Record /\ now \in Nat /\ clock < now
  BY Contents DEF TypeOK, now
<1>2. /\ external' = [external EXCEPT ![id] = [c |-> c, at |-> now]]
      /\ external' \in [ExternalIds -> Record \cup {None}]
      /\ external'[id] = [c |-> c, at |-> now] /\ clock' = now /\ internal' = internal
  BY <1>1 DEF TypeOK, PutExternal
<1>3. ASSUME NEW other \in ExternalIds, external'[other] # None
      PROVE  external'[other].at <= clock'
             /\ (external'[other] = external[other] \/ external'[other].at > clock)
  <2>1. CASE other = id
    BY <1>1, <1>2, <2>1
  <2>2. CASE other # id
    <3>1. external'[other] = external[other] /\ external[other].at <= clock
      BY <1>2, <1>3, <2>2 DEF TypeOK, IInv
    <3>2. external[other].at \in Nat /\ clock \in Nat
      BY <1>3, <3>1, Contents DEF TypeOK
    <3> QED BY <1>1, <1>2, <3>1, <3>2
  <2> QED BY <2>1, <2>2
<1> QED BY <1>1, <1>2, <1>3 DEF TypeOK, Newer

LEMMA MakesExternal ==
  ASSUME TypeOK, IInv, NEW c \in Comparable, MakeExternal(c)
  PROVE  /\ Newer /\ now \in Nat /\ clock' = now /\ made' = made + 1
         /\ made + 1 \in ExternalIds /\ made + 1 \in 0..MaxExternal
         /\ external'[made + 1] = [c |-> c, at |-> now] /\ external'[made + 1] \in Record
<1>1. /\ made + 1 \in ExternalIds /\ made' = made + 1 /\ made + 1 \in 0..MaxExternal
      /\ PutExternal(made + 1, c)
  BY Constants DEF TypeOK, MakeExternal, ExternalIds
<1> QED BY <1>1, PutsExternal

\* What holds of the rest.
Others ==
  /\ link' \in Link \cup {None} /\ (link \in Link => link' \in Link)
  /\ link' # None => internal' # None
  /\ dead' \subseteq Event /\ audit' \subseteq Comparable
  /\ displaced' \subseteq {"internal", "external"} \X Comparable
  /\ latest' \in Comparable \cup {None} /\ blurred' \in BOOLEAN
  /\ edits' \in 0..MaxEdits /\ faults' \in 0..MaxFaults
  /\ \A e \in inbox' : e \in Event /\ Origin(e, internal')

\* What a worker knows stays so while others act.
LEMMA StillPlaced ==
  ASSUME TypeOK, Newer, Others, NEW t \in Worker,
         Placed(t, internal, link), Fresh(t, external, clock)
  PROVE  Placed(t, internal', link') /\ Fresh(t, external', clock')
<1>1. t.pc # "idle" => Origin(t.ev, internal')
  BY DEF Placed, Newer, Origin
<1>2. Placed(t, internal', link')
  BY <1>1 DEF Placed, Newer, Others
<1>3. ASSUME t.x # None
      PROVE  /\ t.xid \in ExternalIds /\ t.x.at <= clock'
             /\ external'[t.xid] # None /\ external'[t.xid].at = t.x.at => external'[t.xid] = t.x
  <2>1. t.xid \in ExternalIds /\ t.x.at <= clock /\ t.x.at \in Nat
    BY <1>3, Contents DEF Fresh, Worker
  <2>2. t.x.at <= clock'
    BY <2>1 DEF Newer, TypeOK
  <2>3. ASSUME external'[t.xid] # None, external'[t.xid].at = t.x.at
        PROVE  external'[t.xid] = t.x
    <3>1. external'[t.xid] = external[t.xid]
      BY <2>1, <2>3 DEF Newer, TypeOK
    <3> QED BY <1>3, <2>3, <3>1 DEF Fresh
  <2> QED BY <2>1, <2>2, <2>3
<1> QED BY <1>2, <1>3 DEF Fresh

LEMMA UsersAct ==
  ASSUME TypeOK, IInv, Newer, Others, wk' = wk
  PROVE  TypeOK' /\ IInv'
<1>1. \A w \in Workers : Placed(wk'[w], internal', link') /\ Fresh(wk'[w], external', clock')
  BY StillPlaced DEF TypeOK, IInv
<1>2. TypeOK'
  BY DEF TypeOK, Newer, Others
<1> QED BY <1>1, <1>2 DEF IInv, Newer, Others

LEMMA WorkerActs ==
  ASSUME TypeOK, IInv, Newer, Others, NEW w \in Workers, NEW t \in Worker,
         wk' = [wk EXCEPT ![w] = t],
         Placed(t, internal', link'), Fresh(t, external', clock')
  PROVE  TypeOK' /\ IInv'
<1>1. wk' \in [Workers -> Worker]
  BY DEF TypeOK
<1>2. ASSUME NEW v \in Workers
      PROVE  Placed(wk'[v], internal', link') /\ Fresh(wk'[v], external', clock')
  <2>1. CASE v = w
    BY <2>1 DEF TypeOK
  <2>2. CASE v # w
    <3>1. wk'[v] = wk[v] /\ wk[v] \in Worker
      BY <2>2 DEF TypeOK
    <3> QED BY <3>1, StillPlaced DEF IInv
  <2> QED BY <2>1, <2>2
<1>3. TypeOK'
  BY <1>1 DEF TypeOK, Newer, Others
<1> QED BY <1>2, <1>3 DEF IInv, Newer, Others

\* A worker that lays its event down, whatever else it did.
LEMMA Leaves ==
  ASSUME TypeOK, IInv, Newer, Others, NEW w \in Workers, wk' = [wk EXCEPT ![w] = Idle]
  PROVE  TypeOK' /\ IInv'
  BY IdleWorker, WorkerActs

-----------------------------------------------------------------------------
(* The users *)

LEMMA UserSteps ==
  ASSUME TypeOK, IInv, User PROVE TypeOK' /\ IInv'
<1>n. now \in Nat /\ now = clock + 1
  BY DEF TypeOK, now
<1>u. ASSUME NEW op, UserStep(op), UNCHANGED faults
      PROVE  /\ wk' = wk /\ edits' \in 0..MaxEdits /\ blurred' \in BOOLEAN
             /\ UNCHANGED <<link, dead, audit, displaced, faults>>
  BY <1>u, Constants DEF UserStep, TypeOK
<1>1. ASSUME NEW op, NEW c \in Comparable, InternalUser(op, c) PROVE TypeOK' /\ IInv'
  <2>1. Newer /\ internal' # None
    BY <1>1, PutsInternal DEF InternalUser
  <2>2. /\ wk' = wk /\ edits' \in 0..MaxEdits /\ blurred' \in BOOLEAN
        /\ UNCHANGED <<link, dead, audit, displaced, faults>>
    BY <1>1, <1>u DEF InternalUser, UserStep
  <2>3. inbox' = inbox \cup {FromInternal(now)} /\ latest' = c
    BY <1>1 DEF InternalUser
  <2>4. \A e \in inbox' : e \in Event /\ Origin(e, internal')
    BY <1>n, <2>1, <2>3, Events DEF TypeOK, IInv, Origin
  <2>5. Others
    BY <2>1, <2>2, <2>3, <2>4 DEF TypeOK, Others
  <2> QED BY <2>1, <2>2, <2>5, UsersAct
<1>2. ASSUME NEW id \in ExternalIds, Newer,
             \/ UserStep("ext_create") \/ UserStep("ext_edit")
             \/ UserStep("ext_void") \/ UserStep("ext_delete"),
             inbox' = inbox \cup {FromExternal(id, now)}, latest' \in Comparable,
             internal' = internal
      PROVE  TypeOK' /\ IInv'
  <2>1. /\ wk' = wk /\ edits' \in 0..MaxEdits /\ blurred' \in BOOLEAN
        /\ UNCHANGED <<link, dead, audit, displaced, faults>>
    BY <1>2, <1>u DEF UserStep
  <2>2. \A e \in inbox' : e \in Event /\ Origin(e, internal')
    BY <1>n, <1>2, Events DEF TypeOK, IInv, Origin
  <2>3. Others
    BY <1>2, <2>1, <2>2 DEF TypeOK, IInv, Others
  <2> QED BY <1>2, <2>1, <2>3, UsersAct
<1>3. CASE IntCreate
  BY <1>1, <1>3, <1>n, Contents DEF IntCreate
<1>4. CASE IntEdit
  BY <1>1, <1>4, <1>n, Contents DEF IntEdit
<1>5. CASE IntVoid
  <2>1. [internal.c EXCEPT !.life = "voided"] \in Comparable
    BY <1>5, Contents DEF IntVoid, TypeOK, Lifecycles
  <2> QED BY <1>1, <1>5, <2>1 DEF IntVoid
<1>6. CASE IntDelete
  <2>1. [internal.c EXCEPT !.life = "deleted"] \in Comparable
    BY <1>6, Contents DEF IntDelete, TypeOK, Lifecycles
  <2> QED BY <1>1, <1>6, <2>1 DEF IntDelete
<1>7. CASE IntPay
  <2>1. Newer /\ internal' # None
    BY <1>7, Contents, PutsInternal DEF IntPay, TypeOK
  <2>2. /\ wk' = wk /\ edits' \in 0..MaxEdits /\ blurred' \in BOOLEAN
        /\ UNCHANGED <<link, dead, audit, displaced, faults, inbox, latest>>
    BY <1>7, <1>u DEF IntPay, UserStep
  <2>3. Others
    BY <2>1, <2>2 DEF TypeOK, IInv, Others, Origin
  <2> QED BY <2>1, <2>2, <2>3, UsersAct
<1>8. CASE ExtCreate
  <2>1. PICK b \in {now} \cup (IF internal = None THEN {} ELSE {internal.c.body}) :
          MakeExternal(Active(b)) /\ latest' = Active(b)
    BY <1>8 DEF ExtCreate
  <2>2. b \in Nat
    BY <1>n, <2>1, Contents DEF TypeOK, Comparable
  <2>3. Newer /\ made = 0 /\ made + 1 \in ExternalIds /\ internal' = internal
    BY <1>8, <2>1, <2>2, Contents, MakesExternal DEF MakeExternal, PutExternal, ExtCreate
  <2>4. latest' \in Comparable
    BY <2>1, <2>2, Contents
  <2>5. UserStep("ext_create") /\ inbox' = inbox \cup {FromExternal(1, now)} /\ 1 \in ExternalIds
    BY <1>8, <2>3 DEF ExtCreate, TypeOK
  <2> QED BY <1>2, <2>3, <2>4, <2>5
<1>9. ASSUME NEW id \in ExternalIds, NEW op \in {"ext_edit", "ext_void"},
             NEW c \in Comparable, ExternalUser(op, id, c)
      PROVE  TypeOK' /\ IInv'
  <2>1. Newer
    BY <1>9, PutsExternal DEF ExternalUser, TypeOK
  <2>2. /\ UserStep("ext_edit") \/ UserStep("ext_void")
        /\ inbox' = inbox \cup {FromExternal(id, now)} /\ latest' = c /\ internal' = internal
    BY <1>9 DEF ExternalUser, PutExternal
  <2> QED BY <1>2, <2>1, <2>2
<1>10. ASSUME NEW id \in ExternalIds, ExtEdit(id) PROVE TypeOK' /\ IInv'
  BY <1>9, <1>10, <1>n, Contents DEF ExtEdit
<1>11. ASSUME NEW id \in ExternalIds, ExtVoid(id) PROVE TypeOK' /\ IInv'
  <2>1. Voided(external[id].c) \in Comparable
    BY <1>11, Contents DEF ExtVoid, TypeOK
  <2> QED BY <1>9, <1>11, <2>1 DEF ExtVoid
<1>12. ASSUME NEW id \in ExternalIds, ExtDelete(id) PROVE TypeOK' /\ IInv'
  <2>1. external' = [external EXCEPT ![id] = None] /\ clock' = now
        /\ UNCHANGED <<internal, made>>
    BY <1>12 DEF ExtDelete
  <2>2. \A other \in ExternalIds :
          external'[other] # None => /\ external'[other] = external[other]
                                     /\ external[other].at \in Nat /\ external[other].at <= clock
    BY <2>1, Contents DEF TypeOK, IInv
  <2>3. Newer
    BY <1>n, <2>1, <2>2 DEF TypeOK, Newer
  <2>4. latest' \in Comparable
    BY <1>12, Contents DEF ExtDelete, TypeOK, Lifecycles
  <2>5. UserStep("ext_delete") /\ inbox' = inbox \cup {FromExternal(id, now)}
    BY <1>12 DEF ExtDelete
  <2> QED BY <1>2, <2>1, <2>3, <2>4, <2>5
<1>13. ASSUME NEW id \in ExternalIds, ExtPay(id) PROVE TypeOK' /\ IInv'
  <2>1. external[id].c \in Comparable /\ PutExternal(id, external[id].c)
        /\ UNCHANGED <<made, latest>>
    BY <1>13, Contents DEF ExtPay, TypeOK
  <2>2. Newer /\ internal' = internal
    BY <2>1, PutsExternal DEF PutExternal, TypeOK
  <2>3. /\ wk' = wk /\ edits' \in 0..MaxEdits /\ blurred' \in BOOLEAN
        /\ UNCHANGED <<link, dead, audit, displaced, faults>>
    BY <1>13, <1>u DEF ExtPay, UserStep
  <2>4. inbox' \subseteq inbox \cup {FromExternal(id, now)}
    BY <1>13 DEF ExtPay
  <2>5. \A e \in inbox' : e \in Event /\ Origin(e, internal')
    BY <1>n, <2>2, <2>4, Events DEF TypeOK, IInv, Origin
  <2>6. Others
    BY <2>1, <2>2, <2>3, <2>5 DEF TypeOK, IInv, Others
  <2> QED BY <2>2, <2>3, <2>6, UsersAct
<1> QED
  BY <1>3, <1>4, <1>5, <1>6, <1>7, <1>8, <1>10, <1>11, <1>12, <1>13 DEF User

-----------------------------------------------------------------------------
(* The workers *)

\* A call that only reads.
LEMMA Reads ==
  ASSUME TypeOK, IInv, inbox' \subseteq inbox, dead' \subseteq Event,
         UNCHANGED <<sides, link, audit, displaced, Users>>, faults' \in 0..MaxFaults
  PROVE  Newer /\ Others
<1>1. Newer
  BY Kept DEF sides
<1> QED BY <1>1 DEF sides, Users, TypeOK, IInv, Others

LEMMA OwnEvent ==
  ASSUME TypeOK, IInv, NEW w \in Workers
  PROVE  /\ wk[w] \in Worker /\ Placed(wk[w], internal, link) /\ Fresh(wk[w], external, clock)
         /\ wk[w].pc # "idle" => wk[w].ev \in Event
  BY DEF TypeOK, IInv, Placed

LEMMA GivesUp ==
  ASSUME TypeOK, IInv, NEW w \in Workers, NEW permanent, Fails(w, permanent),
         wk[w].pc # "idle"
  PROVE  dead' \subseteq Event /\ inbox' \subseteq inbox /\ wk' = [wk EXCEPT ![w] = Idle]
  BY OwnEvent DEF Fails, TypeOK

LEMMA ClaimStep ==
  ASSUME TypeOK, IInv, NEW w \in Workers, NEW e \in inbox, Claim(w, e)
  PROVE  TypeOK' /\ IInv'
<1> DEFINE claimed == [e EXCEPT !.tries = IF @ < MaxAttempts THEN @ + 1 ELSE @]
           t == [Idle EXCEPT !.pc = "lookup", !.ev = claimed]
<1>1. /\ e \in Event /\ claimed \in Event /\ claimed.src = e.src /\ claimed.id = e.id
  BY Constants DEF TypeOK, Event
<1>2. Origin(claimed, internal) /\ Origin(e, internal)
  BY <1>1 DEF IInv, Origin
<1>3. /\ inbox' = (inbox \ {e}) \cup {claimed} /\ wk' = [wk EXCEPT ![w] = t]
      /\ UNCHANGED <<sides, link, dead, audit, faults, displaced, Users>>
  BY DEF Claim
<1> HIDE DEF claimed
<1>4. Newer
  BY <1>3, Kept
<1>5. internal' = internal /\ link' = link
  BY <1>3 DEF sides
<1>6. Others
  BY <1>1, <1>2, <1>3, <1>5 DEF Users, TypeOK, IInv, Others
<1>7. /\ t \in Worker /\ t.pc = "lookup" /\ t.ev = claimed
      /\ t.i = None /\ t.x = None /\ t.l = None
  <2>1. Idle \in Worker /\ Idle.i = None /\ Idle.x = None /\ Idle.l = None
    BY IdleWorker DEF Idle
  <2>2. "lookup" \in Stages
    BY DEF Stages
  <2> QED BY <1>1, <2>1, <2>2 DEF Worker
<1>8. Placed(t, internal', link') /\ Fresh(t, external', clock')
  BY <1>1, <1>2, <1>5, <1>7 DEF Placed, Fresh, Resolving
<1> QED BY <1>3, <1>4, <1>6, <1>7, <1>8, WorkerActs

LEMMA LookupStep ==
  ASSUME TypeOK, IInv, NEW w \in Workers, Lookup(w)
  PROVE  TypeOK' /\ IInv'
<1> DEFINE l == FoundLink(wk[w].ev)
           t == [wk[w] EXCEPT
                   !.l = l,
                   !.pc = IF l = None /\ wk[w].ev.src = "external" THEN "readExt" ELSE "readInt",
                   !.xid = IF l = None THEN wk[w].ev.id ELSE l.ext]
<1>0. /\ wk[w].pc = "lookup" /\ wk[w] \in Worker /\ wk[w].ev \in Event
      /\ Placed(wk[w], internal, link) /\ wk' = [wk EXCEPT ![w] = t]
      /\ UNCHANGED <<sides, link, inbox, dead, audit, faults, displaced, Users>>
  BY OwnEvent DEF Lookup
<1>1. l = None \/ (l = link /\ l \in Link /\ l # None)
  BY DEF FoundLink, TypeOK
<1>2. Newer /\ Others /\ internal' = internal /\ link' = link
  BY <1>0, Reads DEF TypeOK, sides
<1>a. /\ wk[w].ev.src = "external" => wk[w].ev.id \in ExternalIds
      /\ wk[w].ev.id \in 0..MaxExternal
      /\ l # None => l.ext \in ExternalIds /\ l.ext \in 0..MaxExternal
  BY <1>0, <1>1, Constants DEF Placed, Origin, Event, Link, ExternalIds
<1>b. wk[w].x = None /\ (l # None => internal # None /\ link \in Link) /\ (wk[w].i # None => internal # None)
  BY <1>0, <1>1 DEF Placed, IInv
<1> HIDE DEF l
<1>3. /\ t.l = l /\ t.ev = wk[w].ev /\ t.x = wk[w].x /\ t.i = wk[w].i
      /\ t.pc = IF l = None /\ wk[w].ev.src = "external" THEN "readExt" ELSE "readInt"
      /\ t.xid = IF l = None THEN wk[w].ev.id ELSE l.ext
  BY <1>0 DEF Worker
<1>4. t \in Worker
  BY <1>0, <1>1, <1>a DEF Worker, Stages
<1> HIDE DEF t
<1>5. t.pc = "readExt" => l = None /\ t.xid \in ExternalIds
  BY <1>3, <1>a
<1>6. t.pc = "readInt" => IF t.l # None THEN t.xid \in ExternalIds
                          ELSE t.ev.src = "external" => t.x # None
  BY <1>3, <1>a
<1>7. t.pc \in {"readInt", "readExt"} /\ Origin(t.ev, internal)
  BY <1>0, <1>3 DEF Placed
<1>8. Placed(t, internal', link')
  BY <1>0, <1>2, <1>3, <1>5, <1>6, <1>7, <1>b DEF Placed, Resolving
<1>9. Fresh(t, external', clock')
  BY <1>3, <1>b DEF Fresh
<1> QED BY <1>0, <1>2, <1>4, <1>8, <1>9, WorkerActs

\* A worker that has read x and goes on with it knows the state behind its
\* SyncToken.
LEMMA ReadsFresh ==
  ASSUME TypeOK, IInv, NEW t, NEW id \in ExternalIds, t.xid = id, t.x = external[id],
         UNCHANGED sides
  PROVE  Fresh(t, external', clock')
  BY DEF IInv, Fresh, sides

LEMMA ReadInternalStep ==
  ASSUME TypeOK, IInv, NEW w \in Workers, ReadInternal(w)
  PROVE  TypeOK' /\ IInv'
<1> DEFINE pc == IF internal = None THEN "insert" ELSE "lines"
           t == [wk[w] EXCEPT !.pc = pc, !.i = internal]
<1>0. /\ wk[w].pc = "readInt" /\ wk[w] \in Worker /\ wk[w].ev \in Event
      /\ Placed(wk[w], internal, link) /\ Fresh(wk[w], external, clock)
      /\ UNCHANGED <<sides, link, inbox, dead, audit, faults, displaced, Users>>
      /\ wk' = [wk EXCEPT ![w] = t]
  BY OwnEvent DEF ReadInternal
<1>1. Newer /\ Others /\ UNCHANGED <<internal, link, external, clock>>
  BY <1>0, Reads DEF TypeOK, sides
<1>2. /\ t \in Worker /\ t.pc = pc /\ t.i = internal /\ t.ev = wk[w].ev
      /\ t.x = wk[w].x /\ t.l = wk[w].l /\ t.xid = wk[w].xid
  BY <1>0 DEF Worker, Stages, TypeOK
<1> HIDE DEF t
<1>3. Placed(t, internal', link')
  <2>1. CASE internal = None
    <3>1. t.pc = "insert" /\ wk[w].l = None
      BY <1>0, <1>2, <2>1 DEF Placed
    <3>2. wk[w].ev.src = "external"
      BY <1>0, <2>1 DEF Placed, Origin, Event
    <3> QED BY <1>0, <1>1, <1>2, <3>1, <3>2 DEF Placed, Resolving
  <2>2. CASE internal # None
    BY <1>0, <1>1, <1>2, <2>2 DEF Placed, Resolving
  <2> QED BY <2>1, <2>2
<1>4. Fresh(t, external', clock')
  BY <1>0, <1>1, <1>2 DEF Fresh
<1> QED BY <1>0, <1>1, <1>2, <1>3, <1>4, WorkerActs

\* What the lines make of the row that was read.
Lined(r, pc, body) == [r EXCEPT !.pc = pc, !.i.c.body = body]

\* The lines are read, and the worker goes on or is done.
LEMMA ReadsLines ==
  ASSUME TypeOK, IInv, NEW w \in Workers, ReadLines(w)
  PROVE  /\ wk[w].pc = "lines" /\ wk[w] \in Worker /\ wk[w].ev \in Event
         /\ wk[w].i \in Record /\ wk[w].i # None /\ internal # None
         /\ Placed(wk[w], internal, link) /\ Fresh(wk[w], external, clock)
         /\ clock' \in {clock, now} /\ inbox' \subseteq inbox
         /\ UNCHANGED <<internal, external, made, link, dead, audit, faults, displaced, Users>>
         /\ \E body \in Read(wk[w].i) :
              /\ body \in Nat /\ clock' = IF body = now THEN now ELSE clock
              /\ \/ wk' = [wk EXCEPT ![w] = Idle] /\ inbox' = inbox \ {wk[w].ev}
                    /\ wk[w].l = None /\ wk[w].ev.src = "internal" /\ Dead(wk[w].i.c)
                 \/ \E pc \in {"readExt", "newLink", "find"} :
                      /\ wk' = [wk EXCEPT ![w] = Lined(wk[w], pc, body)] /\ inbox' = inbox
                      /\ pc = "readExt" <=> wk[w].l # None
                      /\ pc = "newLink" <=> wk[w].l = None /\ wk[w].ev.src = "external"
                      /\ pc = "find" => ~Dead(wk[w].i.c)
<1>1. /\ wk[w].pc = "lines" /\ wk[w] \in Worker /\ wk[w].ev \in Event
      /\ Placed(wk[w], internal, link) /\ Fresh(wk[w], external, clock)
      /\ UNCHANGED <<internal, external, made, link, dead, audit, faults, displaced, Users>>
  BY OwnEvent DEF ReadLines
<1>2. wk[w].i \in Record /\ wk[w].i # None /\ internal # None /\ internal \in Record
  BY <1>1 DEF Placed, Worker, TypeOK
<1>3. \A body \in Read(wk[w].i) : body \in Nat
  <2>1. wk[w].i.c \in Comparable /\ internal.c \in Comparable /\ now \in Nat
    BY <1>2, Contents DEF TypeOK, now
  <2>2. wk[w].i.c.body \in Nat /\ internal.c.body \in Nat
    BY <2>1 DEF Comparable
  <2> QED BY <2>1, <2>2 DEF Read
<1>4. wk[w].ev.src = "external" \/ wk[w].ev.src = "internal"
  BY <1>1 DEF Event
<1>5. PICK body \in Read(wk[w].i) :
        /\ \/ wk[w].l # None /\ wk' = [wk EXCEPT ![w] = Lined(wk[w], "readExt", body)] /\ inbox' = inbox
           \/ /\ wk[w].l = None /\ wk[w].ev.src = "external"
              /\ wk' = [wk EXCEPT ![w] = Lined(wk[w], "newLink", body)] /\ inbox' = inbox
           \/ /\ wk[w].l = None /\ wk[w].ev.src # "external" /\ Dead(wk[w].i.c) /\ Done(w)
           \/ /\ wk[w].l = None /\ wk[w].ev.src # "external" /\ ~Dead(wk[w].i.c)
              /\ wk' = [wk EXCEPT ![w] = Lined(wk[w], "find", body)] /\ inbox' = inbox
        /\ clock' = IF body = now THEN now ELSE clock
  BY DEF ReadLines, Lined
<1>6. clock' \in {clock, now} /\ inbox' \subseteq inbox
  BY <1>5 DEF Done
<1> QED BY <1>1, <1>2, <1>3, <1>4, <1>5, <1>6 DEF Done

\* The row keeps its life and its time, and gets a body.
LEMMA LinedIs ==
  ASSUME NEW r \in Worker, r.i \in Record, r.i # None, NEW pc \in Stages,
         NEW body \in Nat
  PROVE  /\ Lined(r, pc, body) \in Worker /\ Lined(r, pc, body).pc = pc
         /\ Lined(r, pc, body).ev = r.ev /\ Lined(r, pc, body).x = r.x
         /\ Lined(r, pc, body).xid = r.xid /\ Lined(r, pc, body).l = r.l
         /\ Lined(r, pc, body).d = r.d
         /\ Lined(r, pc, body).i \in Record /\ Lined(r, pc, body).i # None
         /\ Lined(r, pc, body).i.at = r.i.at
         /\ Lined(r, pc, body).i.c.body = body
         /\ Lined(r, pc, body).i.c.life = r.i.c.life
         /\ body = r.i.c.body => Lined(r, pc, body).i = r.i
<1> DEFINE row == r.i
           c == [row.c EXCEPT !.body = body]
           i == [row EXCEPT !.c = c]
           t == Lined(r, pc, body)
<1>1. row \in Record /\ row.c \in Comparable
  BY Contents
<1>2. c \in Comparable /\ c.body = body /\ c.life = row.c.life
      /\ (body = row.c.body => c = row.c)
  BY <1>1 DEF Comparable
<1>3. t = [r EXCEPT !.pc = pc, !.i = i]
  BY <1>1 DEF Lined, Worker, Record
<1> HIDE DEF c
<1>4. i \in Record /\ i.c = c /\ i.at = row.at /\ (c = row.c => i = row)
  BY <1>1, <1>2 DEF Record
<1>5. i # None
  BY <1>4, Contents
<1> HIDE DEF i
<1>6. /\ t \in Worker /\ t.pc = pc /\ t.ev = r.ev /\ t.x = r.x /\ t.xid = r.xid
      /\ t.l = r.l /\ t.d = r.d /\ t.i = i
  BY <1>1, <1>3, <1>4 DEF Worker
<1> HIDE DEF t
<1>7. t.i = i /\ i.c.body = body /\ i.c.life = row.c.life
      /\ (body = row.c.body => i = row)
  BY <1>2, <1>4, <1>6
<1>8. t = Lined(r, pc, body)
  BY DEF t
<1> QED BY <1>4, <1>5, <1>6, <1>7, <1>8

LEMMA ReadLinesStep ==
  ASSUME TypeOK, IInv, NEW w \in Workers, ReadLines(w)
  PROVE  TypeOK' /\ IInv'
<1>0. /\ wk[w].pc = "lines" /\ wk[w] \in Worker /\ wk[w].ev \in Event
      /\ wk[w].i \in Record /\ wk[w].i # None /\ internal # None
      /\ Placed(wk[w], internal, link) /\ Fresh(wk[w], external, clock)
      /\ clock' \in {clock, now} /\ inbox' \subseteq inbox
      /\ UNCHANGED <<internal, external, made, link, dead, audit, faults, displaced, Users>>
  BY ReadsLines
<1>1. clock' \in Nat /\ clock <= clock'
  BY <1>0 DEF TypeOK, now
<1>2. Newer
  <2>1. \A id \in ExternalIds : external[id] # None => external[id].at <= clock'
    BY <1>0, <1>1, Contents DEF TypeOK, IInv
  <2> QED BY <1>0, <1>1, <2>1 DEF TypeOK, Newer
<1>3. Others
  BY <1>0 DEF TypeOK, IInv, Others, Users
<1>4. CASE wk' = [wk EXCEPT ![w] = Idle]
  BY <1>2, <1>3, <1>4, Leaves
<1>5. ASSUME NEW pc \in {"readExt", "newLink", "find"}, NEW body \in Nat,
             wk' = [wk EXCEPT ![w] = Lined(wk[w], pc, body)],
             pc = "readExt" <=> wk[w].l # None,
             pc = "newLink" => wk[w].ev.src = "external"
      PROVE  TypeOK' /\ IInv'
  <2> DEFINE t == Lined(wk[w], pc, body)
  <2>1. /\ t \in Worker /\ t.pc = pc /\ t.ev = wk[w].ev /\ t.x = wk[w].x /\ t.xid = wk[w].xid
        /\ t.l = wk[w].l /\ t.i # None
    <3>1. pc \in Stages
      BY DEF Stages
    <3> QED BY <1>0, <3>1, LinedIs
  <2>2. wk' = [wk EXCEPT ![w] = t]
    BY <1>5
  <2> HIDE DEF t
  <2>3. Placed(t, internal', link')
    BY <1>0, <1>5, <2>1 DEF Placed, Resolving
  <2>4. Fresh(wk[w], external', clock')
    BY <1>0, <1>2, <1>3, StillPlaced
  <2>5. Fresh(t, external', clock')
    BY <2>1, <2>4 DEF Fresh
  <2> QED BY <1>2, <1>3, <2>1, <2>2, <2>3, <2>5, WorkerActs
<1> QED BY <1>4, <1>5, ReadsLines

\* What the decision makes of a worker that has read both sides.
LEMMA Decides ==
  ASSUME NEW s \in Worker, NEW int, NEW lk, int # None, lk \in Link, s.i # None, s.l \in Link,
         s.ev \in Event, Origin(s.ev, int),
         NEW base, NEW intAt, NEW extAt, NEW d,
         d = Decision(base, s.i.c, Seen(s.x, s.l, s.i), intAt, extAt),
         d = "one_sided_internal" => base = s.l.base,
         s.d = d, s.pc = AfterDecision(d, s.x)
  PROVE  Placed(s, int, lk)
<1>1. s.pc \in {"mark", "writeInt", "recreate", "writeExt"}
  BY DEF AfterDecision
<1>2. d \in Decisions
  BY Decided
<1>3. s.pc = "writeExt" => InternalWins(d) /\ s.x # None
  BY DEF AfterDecision
<1>4. s.pc = "writeExt" /\ d = "one_sided_internal" => s.x.c = s.l.base
  BY <1>3, Decided DEF Seen
<1>5. s.pc = "recreate" => s.x = None
  BY DEF AfterDecision
<1> QED BY <1>1, <1>2, <1>3, <1>4, <1>5 DEF Placed, Resolving

LEMMA ReadExternalStep ==
  ASSUME TypeOK, IInv, NEW w \in Workers, ReadExternal(w)
  PROVE  TypeOK' /\ IInv'
<1> DEFINE r == wk[w]
           x == external[r.xid]
<1>0. /\ r.pc = "readExt" /\ r \in Worker /\ r.ev \in Event /\ r.xid \in ExternalIds
      /\ Placed(r, internal, link)
      /\ UNCHANGED <<sides, link, dead, audit, faults, displaced, Users>>
  BY OwnEvent DEF ReadExternal, Placed
<1>1. inbox' \subseteq inbox
  BY DEF ReadExternal, Done
<1>2. Newer /\ Others /\ UNCHANGED <<internal, link, external, clock>>
  BY <1>0, <1>1, Reads DEF TypeOK, sides
<1>3. x \in Record \cup {None}
  BY <1>0 DEF TypeOK
<1>4. CASE wk' = [wk EXCEPT ![w] = Idle]
  BY <1>2, <1>4, Leaves
<1>5. CASE r.l = None /\ ~(wk' = [wk EXCEPT ![w] = Idle])
  <2> DEFINE t == [r EXCEPT !.pc = "readInt", !.x = x]
  <2>1. x # None /\ wk' = [wk EXCEPT ![w] = t]
    BY <1>5 DEF ReadExternal, Done
  <2>2. /\ t \in Worker /\ t.pc = "readInt" /\ t.x = x /\ t.ev = r.ev
        /\ t.i = r.i /\ t.l = None /\ t.xid = r.xid
    BY <1>0, <1>3, <1>5 DEF Worker, Stages
  <2> HIDE DEF t
  <2>3. Placed(t, internal', link')
    BY <1>0, <1>2, <2>1, <2>2 DEF Placed, Resolving
  <2>4. Fresh(t, external', clock')
    BY <1>0, <2>2, ReadsFresh
  <2> QED BY <1>2, <2>1, <2>2, <2>3, <2>4, WorkerActs
<1>6. CASE r.l # None /\ ~(wk' = [wk EXCEPT ![w] = Idle])
  <2> DEFINE seen == Seen(x, r.l, r.i)
             d == Decision(r.l.base, r.i.c, seen, r.i.at, ExternalAt(x, r.ev, r.l))
             t == [r EXCEPT !.pc = AfterDecision(d, x), !.x = x, !.d = d]
  <2>1. wk' = [wk EXCEPT ![w] = t]
    BY <1>6 DEF ReadExternal, Done
  <2>2. d \in Decisions
    BY Decided
  <2>3. r.l \in Link /\ link \in Link /\ r.i # None /\ internal # None
    BY <1>0, <1>6 DEF Worker, Placed
  <2>4. /\ t.x = x /\ t.ev = r.ev /\ t.i = r.i /\ t.l = r.l /\ t.xid = r.xid
        /\ t.d = d /\ t.pc = AfterDecision(d, x)
    BY <1>0 DEF Worker
  <2>5. AfterDecision(d, x) \in Stages
    BY DEF AfterDecision, Stages
  <2>6. t \in Worker
    BY <1>0, <1>3, <2>2, <2>5 DEF Worker
  <2>7. d = Decision(t.l.base, t.i.c, Seen(t.x, t.l, t.i), t.i.at, ExternalAt(t.x, t.ev, t.l))
    BY <2>4
  <2> HIDE DEF d, t
  <2>o. Origin(r.ev, internal)
    BY <1>0 DEF Placed
  <2>8. Placed(t, internal, link)
    <3>1. /\ t \in Worker /\ internal # None /\ link \in Link /\ t.i # None
          /\ t.l \in Link /\ t.ev \in Event /\ Origin(t.ev, internal)
      BY <1>0, <2>3, <2>4, <2>6, <2>o
    <3>2. /\ t.d = Decision(t.l.base, t.i.c, Seen(t.x, t.l, t.i), t.i.at,
                           ExternalAt(t.x, t.ev, t.l))
          /\ t.pc = AfterDecision(t.d, t.x)
      BY <2>4, <2>7
    <3> HIDE DEF r, x, seen
    <3> QED BY <3>1, <3>2, Decides
  <2>9. Fresh(t, external', clock')
    BY <1>0, <2>4, ReadsFresh
  <2> QED BY <1>2, <2>1, <2>6, <2>8, <2>9, WorkerActs
<1> QED BY <1>4, <1>5, <1>6

LEMMA FindStep ==
  ASSUME TypeOK, IInv, NEW w \in Workers, Find(w)
  PROVE  TypeOK' /\ IInv'
<1>0. /\ wk[w].pc = "find" /\ wk[w] \in Worker /\ wk[w].ev \in Event
      /\ Placed(wk[w], internal, link) /\ Fresh(wk[w], external, clock)
      /\ UNCHANGED <<sides, link, inbox, dead, audit, faults, displaced, Users>>
  BY OwnEvent DEF Find
<1>1. Newer /\ Others /\ UNCHANGED <<internal, link, external, clock>>
  BY <1>0, Reads DEF TypeOK, sides
<1>2. ASSUME NEW id \in ExternalIds, external[id] # None,
             wk' = [wk EXCEPT ![w] = [@ EXCEPT !.pc = "newLink", !.xid = id, !.x = external[id]]]
      PROVE  TypeOK' /\ IInv'
  <2> DEFINE t == [wk[w] EXCEPT !.pc = "newLink", !.xid = id, !.x = external[id]]
  <2>1. external[id] \in Record \cup {None} /\ id \in 0..MaxExternal
    BY <1>2, Constants DEF TypeOK, ExternalIds
  <2>2. /\ t \in Worker /\ t.pc = "newLink" /\ t.xid = id /\ t.x = external[id]
        /\ t.ev = wk[w].ev /\ t.i = wk[w].i /\ t.l = wk[w].l
    BY <1>0, <2>1 DEF Worker, Stages
  <2>3. wk' = [wk EXCEPT ![w] = t]
    BY <1>2
  <2> HIDE DEF t
  <2>4. Placed(t, internal', link')
    BY <1>0, <1>1, <1>2, <2>2 DEF Placed, Resolving
  <2>5. Fresh(t, external', clock')
    BY <1>0, <2>2, ReadsFresh
  <2> QED BY <1>1, <2>2, <2>3, <2>4, <2>5, WorkerActs
<1>3. CASE Goes(w, "create")
  <2> DEFINE t == [wk[w] EXCEPT !.pc = "create"]
  <2>1. /\ t \in Worker /\ t.pc = "create" /\ t.x = wk[w].x /\ t.xid = wk[w].xid
        /\ t.ev = wk[w].ev /\ t.i = wk[w].i /\ t.l = wk[w].l
    BY <1>0 DEF Worker, Stages
  <2>2. wk' = [wk EXCEPT ![w] = t]
    BY <1>0, <1>3 DEF Goes, TypeOK
  <2> HIDE DEF t
  <2>3. Placed(t, internal', link')
    BY <1>0, <1>1, <2>1 DEF Placed, Resolving
  <2>4. Fresh(t, external', clock')
    BY <1>0, <1>1, <2>1 DEF Fresh
  <2> QED BY <1>1, <2>1, <2>2, <2>3, <2>4, WorkerActs
<1> QED BY <1>2, <1>3 DEF Find

\* The rest, when a worker makes an invoice or writes one.
LEMMA Notifies ==
  ASSUME TypeOK, IInv, Newer, NEW id \in ExternalIds, UNCHANGED <<internal, link, audit, Users>>,
         inbox' \subseteq inbox \cup {FromExternal(id, now)}, dead' \subseteq Event,
         displaced' \subseteq {"internal", "external"} \X Comparable, faults' \in 0..MaxFaults
  PROVE  Others
<1>1. now \in Nat
  BY DEF TypeOK, now
<1>2. \A e \in inbox' : e \in Event /\ Origin(e, internal')
  BY <1>1, Events DEF TypeOK, IInv, Origin
<1> QED BY <1>2 DEF Users, TypeOK, IInv, Others

LEMMA MakeFromStep ==
  ASSUME TypeOK, IInv, NEW w \in Workers, Create(w) \/ Recreate(w)
  PROVE  TypeOK' /\ IInv'
<1> DEFINE t == IF wk[w].pc = "create"
                THEN [wk[w] EXCEPT !.pc = "newLink", !.xid = made + 1, !.x = external'[made + 1]]
                ELSE [wk[w] EXCEPT !.pc = "repoint", !.xid = made + 1]
<1>0. /\ wk[w] \in Worker /\ wk[w].ev \in Event /\ Placed(wk[w], internal, link)
      /\ wk[w].i \in Record /\ wk[w].i.c \in Comparable
      /\ wk[w].pc \in {"create", "recreate"} /\ wk' = [wk EXCEPT ![w] = t]
      /\ inbox' = inbox \cup {FromExternal(made + 1, now)}
      /\ MakeExternal(Created(wk[w].i.c)) /\ UNCHANGED internal
      /\ UNCHANGED <<link, dead, audit, faults, displaced, Users>>
  <2>1. wk[w] \in Worker /\ wk[w].i # None
    BY OwnEvent DEF Create, Recreate, Placed, Resolving
  <2> QED
    BY <2>1, OwnEvent, Contents DEF Create, Recreate, MakeFrom, MakeExternal, PutExternal, Worker
<1>1. /\ Newer /\ clock' = now /\ made + 1 \in ExternalIds /\ made + 1 \in 0..MaxExternal
      /\ external'[made + 1].at = now
      /\ external'[made + 1] \in Record /\ external'[made + 1] # None /\ now \in Nat
  <2> DEFINE c == Created(wk[w].i.c)
  <2>1. c \in Comparable /\ MakeExternal(c)
    BY <1>0, Contents
  <2> HIDE DEF c, t
  <2>2. /\ Newer /\ clock' = now /\ made + 1 \in ExternalIds /\ made + 1 \in 0..MaxExternal
        /\ external'[made + 1] = [c |-> c, at |-> now] /\ external'[made + 1] \in Record
        /\ now \in Nat
    BY <2>1, MakesExternal
  <2> QED BY <2>2, Contents
<1>2. Others
  BY <1>0, <1>1, Notifies DEF TypeOK
<1>3. /\ t \in Worker /\ t.xid = made + 1
      /\ t.ev = wk[w].ev /\ t.i = wk[w].i /\ t.l = wk[w].l /\ t.d = wk[w].d
      /\ IF wk[w].pc = "create" THEN t.pc = "newLink" /\ t.x = external'[made + 1]
         ELSE t.pc = "repoint" /\ t.x = wk[w].x
  BY <1>0, <1>1 DEF Worker, Stages
<1> HIDE DEF t
<1>4. Placed(t, internal', link')
  BY <1>0, <1>1, <1>3, Contents DEF Placed, Resolving
<1>5. Fresh(t, external', clock')
  BY <1>0, <1>1, <1>3 DEF Fresh, Placed
<1> QED BY <1>0, <1>1, <1>2, <1>3, <1>4, <1>5, WorkerActs

LEMMA InsertStep ==
  ASSUME TypeOK, IInv, NEW w \in Workers, Insert(w)
  PROVE  TypeOK' /\ IInv'
<1>0. /\ wk[w].pc = "insert" /\ wk[w] \in Worker /\ wk[w].ev \in Event
      /\ Placed(wk[w], internal, link) /\ Fresh(wk[w], external, clock)
      /\ wk[w].x \in Record /\ wk[w].x.c \in Comparable
      /\ UNCHANGED <<link, audit, faults, displaced, Users>>
  <2>1. wk[w] \in Worker /\ wk[w].x # None
    BY OwnEvent DEF Insert, Placed
  <2> QED BY <2>1, OwnEvent, Contents DEF Insert, Worker
<1>1. CASE internal = None
  <2> DEFINE t == [wk[w] EXCEPT !.pc = "newLink", !.i = internal']
  <2>1. /\ PutInternal(wk[w].x.c) /\ wk' = [wk EXCEPT ![w] = t]
        /\ UNCHANGED <<inbox, dead, external>>
    BY <1>1 DEF Insert, PutInternal
  <2>2. Newer /\ internal' \in Record /\ internal' # None
    BY <1>0, <2>1, PutsInternal
  <2>3. Others
    BY <1>0, <2>1, <2>2 DEF Users, TypeOK, IInv, Others, Origin
  <2>4. /\ t \in Worker /\ t.pc = "newLink" /\ t.i = internal' /\ t.x = wk[w].x
        /\ t.ev = wk[w].ev /\ t.l = wk[w].l /\ t.xid = wk[w].xid
    BY <1>0, <2>2 DEF Worker, Stages
  <2> HIDE DEF t
  <2>5. Placed(t, internal', link')
    BY <1>0, <2>2, <2>4 DEF Placed, Resolving, Origin
  <2>6. Fresh(t, external', clock')
    <3>1. Fresh(wk[w], external', clock')
      BY <1>0, <2>2, <2>3, StillPlaced
    <3> QED BY <2>4, <3>1 DEF Fresh
  <2> QED BY <2>1, <2>2, <2>3, <2>4, <2>5, <2>6, WorkerActs
<1>2. CASE internal # None
  <2>1. Fails(w, FALSE) /\ UNCHANGED sides
    BY <1>2 DEF Insert
  <2>2. dead' \subseteq Event /\ inbox' \subseteq inbox /\ wk' = [wk EXCEPT ![w] = Idle]
    BY <1>0, <2>1, GivesUp
  <2>3. Newer /\ Others
    BY <1>0, <2>1, <2>2, Reads DEF TypeOK
  <2> QED BY <2>2, <2>3, Leaves
<1> QED BY <1>1, <1>2

LEMMA NewLinkStep ==
  ASSUME TypeOK, IInv, NEW w \in Workers, NewLink(w)
  PROVE  TypeOK' /\ IInv'
<1> DEFINE r == wk[w]
           d == Decision(None, r.i.c, r.x.c, r.i.at, r.x.at)
           l == [ext |-> r.xid, base |-> IF d = "noop" THEN r.i.c ELSE None, synced |-> 0]
           t == [r EXCEPT !.pc = AfterDecision(d, r.x), !.l = l, !.d = d]
<1>0. /\ r.pc = "newLink" /\ r \in Worker /\ r.ev \in Event
      /\ Placed(r, internal, link) /\ Fresh(r, external, clock)
      /\ r.i # None /\ r.x # None /\ internal # None /\ r.xid \in ExternalIds
      /\ Origin(r.ev, internal)
      /\ UNCHANGED <<sides, audit, faults, displaced, Users>>
  <2>1. r.pc = "newLink" /\ r \in Worker /\ Placed(r, internal, link)
    BY OwnEvent DEF NewLink
  <2>2. r.i # None /\ r.x # None /\ internal # None /\ Origin(r.ev, internal)
    BY <2>1 DEF Placed
  <2> QED BY <2>1, <2>2, OwnEvent DEF NewLink, Fresh
<1>1. CASE link # None
  <2>1. Fails(w, FALSE) /\ link' = link
    BY <1>1 DEF NewLink
  <2>2. dead' \subseteq Event /\ inbox' \subseteq inbox /\ wk' = [wk EXCEPT ![w] = Idle]
    BY <1>0, <2>1, GivesUp
  <2>3. Newer /\ Others
    BY <1>0, <2>1, <2>2, Reads DEF TypeOK
  <2> QED BY <2>2, <2>3, Leaves
<1>2. CASE link = None
  <2>1. link' = l /\ wk' = [wk EXCEPT ![w] = t] /\ UNCHANGED <<inbox, dead>>
    BY <1>2 DEF NewLink
  <2>2. d \in Decisions
    BY Decided
  <2>3. r.i.c \in Comparable
    BY <1>0, Contents DEF Worker
  <2>4. l \in Link /\ l.base = IF d = "noop" THEN r.i.c ELSE None
    BY <1>0, <2>3 DEF Link
  <2>5. AfterDecision(d, r.x) \in Stages
    BY DEF AfterDecision, Stages
  <2>6. d = Decision(None, r.i.c, Seen(r.x, l, r.i), r.i.at, r.x.at)
    BY <1>0 DEF Seen
  <2>7. d # "one_sided_internal"
    BY DEF Decision
  <2> HIDE DEF d, l
  <2>8. /\ t.x = r.x /\ t.ev = r.ev /\ t.i = r.i /\ t.l = l /\ t.xid = r.xid
        /\ t.d = d /\ t.pc = AfterDecision(d, r.x)
    BY <1>0 DEF Worker
  <2>9. t \in Worker
    BY <1>0, <2>2, <2>4, <2>5 DEF Worker
  <2> HIDE DEF t, r
  <2>10. Newer /\ Others
    <3>1. Newer
      BY <1>0, Kept
    <3> QED BY <1>0, <2>1, <2>4, <3>1 DEF Users, sides, TypeOK, IInv, Others
  <2>11. Placed(t, internal', link')
    <3>1. internal' = internal /\ link' \in Link
      BY <1>0, <2>1, <2>4 DEF sides
    <3>2. /\ t.i # None /\ t.l \in Link /\ t.ev \in Event /\ Origin(t.ev, internal')
          /\ t.d = Decision(None, t.i.c, Seen(t.x, t.l, t.i), t.i.at, t.x.at)
          /\ t.d # "one_sided_internal" /\ t.pc = AfterDecision(t.d, t.x)
      BY <1>0, <2>4, <2>6, <2>7, <2>8, <3>1
    <3> QED BY <1>0, <2>9, <3>1, <3>2, Decides
  <2>12. Fresh(t, external', clock')
    BY <1>0, <2>8 DEF Fresh, sides
  <2> QED BY <2>1, <2>9, <2>10, <2>11, <2>12, WorkerActs
<1> QED BY <1>1, <1>2

\* A worker that is past its decision goes on to pc.
LEMMA GoesOn ==
  ASSUME TypeOK, IInv, NEW w \in Workers, NEW pc \in {"mark", "finish"}, Goes(w, pc),
         Newer, Others, wk[w].pc \in {"repoint", "writeExt", "writeInt", "mark"}
  PROVE  TypeOK' /\ IInv'
<1> DEFINE t == [wk[w] EXCEPT !.pc = pc]
<1>0. /\ wk[w] \in Worker /\ Placed(wk[w], internal', link') /\ Fresh(wk[w], external', clock')
      /\ pc \in {"mark", "finish"}
      /\ wk[w].pc \in {"repoint", "writeExt", "writeInt", "mark"}
  BY OwnEvent, StillPlaced
<1>1. /\ t \in Worker /\ t.pc = pc /\ t.x = wk[w].x /\ t.xid = wk[w].xid
      /\ t.ev = wk[w].ev /\ t.i = wk[w].i /\ t.l = wk[w].l /\ t.d = wk[w].d
  BY <1>0 DEF Worker, Stages
<1>2. wk' = [wk EXCEPT ![w] = t]
  BY DEF Goes, TypeOK
<1> HIDE DEF t
<1>3. Placed(t, internal', link')
  BY <1>0, <1>1 DEF Placed, Resolving
<1>4. Fresh(t, external', clock')
  BY <1>0, <1>1 DEF Fresh
<1> QED BY <1>1, <1>2, <1>3, <1>4, WorkerActs

\* The locals of a worker past its decision.
LEMMA Past ==
  ASSUME TypeOK, IInv, NEW w \in Workers, wk[w].pc \in Resolving
  PROVE  /\ wk[w] \in Worker /\ wk[w].ev \in Event /\ link \in Link
         /\ internal # None /\ internal \in Record /\ internal.c \in Comparable
         /\ MergedOf(w) \in Comparable
         /\ Overwritten(wk[w].d, wk[w].i.c, Seen(wk[w].x, wk[w].l, wk[w].i)) \subseteq Comparable
         /\ wk[w].pc \in {"repoint", "writeExt"} => wk[w].xid \in ExternalIds
<1>1. /\ wk[w] \in Worker /\ Placed(wk[w], internal, link) /\ Fresh(wk[w], external, clock)
      /\ wk[w].pc # "idle"
  BY OwnEvent DEF Resolving
<1>2. /\ wk[w].ev \in Event /\ link \in Link /\ wk[w].i # None /\ wk[w].l \in Link
      /\ internal # None
      /\ wk[w].pc = "writeExt" => wk[w].x # None
      /\ wk[w].pc = "repoint" => wk[w].xid \in ExternalIds
  BY <1>1 DEF Placed
<1>3. /\ Merged(wk[w].d, wk[w].i.c, Seen(wk[w].x, wk[w].l, wk[w].i)) \in Comparable
      /\ Overwritten(wk[w].d, wk[w].i.c, Seen(wk[w].x, wk[w].l, wk[w].i)) \subseteq Comparable
  BY <1>1, <1>2, Resolved
<1>4. internal \in Record /\ internal.c \in Comparable
  BY <1>2, Contents DEF TypeOK
<1> QED BY <1>1, <1>2, <1>3, <1>4 DEF MergedOf, Fresh

LEMMA RepointStep ==
  ASSUME TypeOK, IInv, NEW w \in Workers, Repoint(w)
  PROVE  TypeOK' /\ IInv'
<1>0. /\ wk[w].pc = "repoint" /\ link' = [link EXCEPT !.ext = wk[w].xid] /\ Goes(w, "mark")
      /\ UNCHANGED <<sides, inbox, dead, audit, faults, displaced, Users>>
  BY DEF Repoint
<1>1. link' \in Link /\ internal # None
  BY <1>0, Past DEF Link, Resolving
<1>2. Newer
  BY <1>0, Kept
<1>3. Others
  BY <1>0, <1>1, <1>2 DEF Users, sides, TypeOK, IInv, Others
<1> QED BY <1>0, <1>2, <1>3, GoesOn

LEMMA MarkStep ==
  ASSUME TypeOK, IInv, NEW w \in Workers, Mark(w)
  PROVE  TypeOK' /\ IInv'
<1>0. /\ wk[w].pc = "mark" /\ Goes(w, "finish")
      /\ link' = [link EXCEPT !.base = MergedOf(w), !.synced = clock]
      /\ UNCHANGED <<sides, inbox, dead, audit, faults, displaced, Users>>
  BY DEF Mark
<1>1. link \in Link /\ MergedOf(w) \in Comparable /\ internal # None
  BY <1>0, Past DEF Resolving
<1>2. link' \in Link
  BY <1>0, <1>1 DEF Link, TypeOK
<1>3. Newer
  BY <1>0, Kept
<1>4. Others
  BY <1>0, <1>1, <1>2, <1>3 DEF Users, sides, TypeOK, IInv, Others
<1> QED BY <1>0, <1>3, <1>4, GoesOn

LEMMA FinishStep ==
  ASSUME TypeOK, IInv, NEW w \in Workers, Finish(w)
  PROVE  TypeOK' /\ IInv'
<1>0. /\ wk[w].pc = "finish" /\ wk' = [wk EXCEPT ![w] = Idle]
      /\ audit' = audit \cup Overwritten(wk[w].d, wk[w].i.c, Seen(wk[w].x, wk[w].l, wk[w].i))
      /\ inbox' \subseteq inbox
      /\ UNCHANGED <<sides, link, dead, faults, displaced, Users>>
  BY DEF Finish, Done
<1>1. audit' \subseteq Comparable
  BY <1>0, Past DEF Resolving, TypeOK
<1>2. Newer
  BY <1>0, Kept
<1>3. Others
  BY <1>0, <1>1, <1>2 DEF Users, sides, TypeOK, IInv, Others
<1> QED BY <1>0, <1>2, <1>3, Leaves

LEMMA WriteInternalStep ==
  ASSUME TypeOK, IInv, NEW w \in Workers, WriteInternal(w)
  PROVE  TypeOK' /\ IInv'
<1> DEFINE m == MergedOf(w)
           c == IF Dead(m) THEN [internal.c EXCEPT !.life = m.life] ELSE m
<1>0. /\ wk[w].pc = "writeInt" /\ Goes(w, "mark") /\ PutInternal(c)
      /\ Displaces(w, "internal", internal.c)
      /\ UNCHANGED <<link, inbox, dead, audit, faults, Users>>
  BY DEF WriteInternal
<1>1. m \in Comparable /\ internal.c \in Comparable /\ internal # None
  BY <1>0, Past DEF Resolving
<1> HIDE DEF m
<1>2. c \in Comparable
  BY <1>1, Contents DEF Comparable
<1>3. Newer /\ internal' # None
  BY <1>0, <1>2, PutsInternal
<1>4. displaced' \subseteq {"internal", "external"} \X Comparable
  BY <1>0, <1>1 DEF Displaces, TypeOK
<1>5. Others
  BY <1>0, <1>1, <1>3, <1>4 DEF Users, TypeOK, IInv, Others, Origin
<1> QED BY <1>0, <1>3, <1>5, GoesOn

\* What a write to the accounting system does to both records.
LEMMA PutsMerged ==
  ASSUME TypeOK, IInv, NEW w \in Workers, wk[w].pc = "writeExt", CanWrite(w), PutMerged(w)
  PROVE  /\ Newer /\ wk[w].xid \in ExternalIds /\ UNCHANGED internal
         /\ displaced' \subseteq {"internal", "external"} \X Comparable
<1> DEFINE c == external[wk[w].xid].c
           m == MergedOf(w)
           put == IF Dead(m) THEN Voided(c) ELSE m
<1>1. wk[w].xid \in ExternalIds /\ m \in Comparable
  BY Past DEF Resolving
<1>2. c \in Comparable
  BY <1>1, Contents DEF CanWrite, TypeOK
<1>3. PutExternal(wk[w].xid, put) /\ made' = made /\ Displaces(w, "external", c)
  BY DEF PutMerged
<1> HIDE DEF m, c
<1>4. put \in Comparable
  BY <1>1, <1>2, Contents
<1> HIDE DEF put
<1>5. Newer
  BY <1>1, <1>3, <1>4, PutsExternal DEF TypeOK
<1> QED BY <1>1, <1>2, <1>3, <1>5 DEF Displaces, PutExternal, TypeOK

LEMMA WriteExternalStep ==
  ASSUME TypeOK, IInv, NEW w \in Workers, WriteExternal(w)
  PROVE  TypeOK' /\ IInv'
<1>0. wk[w].pc = "writeExt" /\ UNCHANGED <<link, audit, faults, Users>>
  BY DEF WriteExternal
<1>1. CASE CanWrite(w)
  <2>1. /\ PutMerged(w) /\ inbox' = inbox \cup {FromExternal(wk[w].xid, now)}
        /\ Goes(w, "mark") /\ UNCHANGED dead
    BY <1>1 DEF WriteExternal
  <2>2. /\ Newer /\ wk[w].xid \in ExternalIds /\ UNCHANGED internal
        /\ displaced' \subseteq {"internal", "external"} \X Comparable
    BY <1>0, <1>1, <2>1, PutsMerged
  <2>3. Others
    BY <1>0, <2>1, <2>2, Notifies DEF TypeOK
  <2> QED BY <1>0, <2>1, <2>2, <2>3, GoesOn
<1>2. CASE ~CanWrite(w)
  <2>1. Fails(w, external[wk[w].xid] = None) /\ UNCHANGED <<sides, displaced>>
    BY <1>2 DEF WriteExternal
  <2>2. dead' \subseteq Event /\ inbox' \subseteq inbox /\ wk' = [wk EXCEPT ![w] = Idle]
    BY <1>0, <2>1, GivesUp
  <2>3. Newer /\ Others
    BY <1>0, <2>1, <2>2, Reads DEF TypeOK
  <2> QED BY <2>2, <2>3, Leaves
<1> QED BY <1>1, <1>2

-----------------------------------------------------------------------------
(* The faults *)

LEMMA Faulty ==
  ASSUME TypeOK, NEW f, Fault(f) PROVE faults' \in 0..MaxFaults
  BY Constants DEF TypeOK, Fault

LEMMA Mishaps ==
  ASSUME TypeOK, IInv, NEW w \in Workers, Mishap(w)
  PROVE  TypeOK' /\ IInv'
<1>1. CASE Crash(w)
  <2>1. /\ wk' = [wk EXCEPT ![w] = Idle] /\ faults' \in 0..MaxFaults
        /\ UNCHANGED <<sides, link, inbox, dead, audit, displaced, Users>>
    BY <1>1, Faulty DEF Crash
  <2>2. Newer /\ Others
    BY <2>1, Reads DEF TypeOK
  <2> QED BY <2>1, <2>2, Leaves
<1>2. CASE ProviderFails(w)
  <2>1. /\ faults' \in 0..MaxFaults /\ wk[w].pc # "idle" /\ Fails(w, FALSE)
        /\ UNCHANGED <<sides, link, audit, displaced, Users>>
    BY <1>2, Faulty DEF ProviderFails
  <2>2. dead' \subseteq Event /\ inbox' \subseteq inbox /\ wk' = [wk EXCEPT ![w] = Idle]
    BY <2>1, GivesUp
  <2>3. Newer /\ Others
    BY <2>1, <2>2, Reads
  <2> QED BY <2>2, <2>3, Leaves
<1>3. CASE TimesOut(w)
  <2> DEFINE id == IF wk[w].pc = "writeExt" THEN wk[w].xid ELSE made + 1
  <2>1. /\ faults' \in 0..MaxFaults /\ wk' = [wk EXCEPT ![w] = Idle]
        /\ inbox' \subseteq inbox \cup {FromExternal(id, now)}
        /\ dead' \subseteq dead \cup {wk[w].ev}
        /\ UNCHANGED <<link, audit, Users>>
        /\ wk[w].pc \in {"create", "recreate", "writeExt"}
    BY <1>3, Faulty DEF TimesOut
  <2>2. /\ Newer /\ id \in ExternalIds /\ UNCHANGED internal
        /\ displaced' \subseteq {"internal", "external"} \X Comparable
    <3>1. CASE wk[w].pc = "writeExt"
      BY <1>3, <3>1, PutsMerged DEF TimesOut
    <3>2. CASE wk[w].pc \in {"create", "recreate"}
      <4>1. MakeExternal(Created(wk[w].i.c)) /\ UNCHANGED <<displaced, internal>>
        BY <1>3, <3>2 DEF TimesOut, MakeExternal, PutExternal
      <4>2. wk[w] \in Worker /\ wk[w].i # None
        BY <3>2, OwnEvent DEF Placed, Resolving
      <4>3. Created(wk[w].i.c) \in Comparable
        BY <4>2, Contents DEF Worker
      <4>4. Newer /\ made + 1 \in ExternalIds
        BY <4>1, <4>3, MakesExternal
      <4> QED BY <3>2, <4>1, <4>4 DEF TypeOK
    <3> QED BY <2>1, <3>1, <3>2
  <2>3. dead' \subseteq Event
    BY <2>1, OwnEvent DEF TypeOK
  <2> HIDE DEF id
  <2>4. Others
    BY <2>1, <2>2, <2>3, Notifies
  <2> QED BY <2>1, <2>2, <2>4, Leaves
<1> QED BY <1>1, <1>2, <1>3 DEF Mishap

-----------------------------------------------------------------------------
(* The invariant *)

LEMMA InitOK == Init => TypeOK /\ IInv
<1> SUFFICES ASSUME Init PROVE TypeOK /\ IInv
  OBVIOUS
<1>1. TypeOK
  <2>1. wk \in [Workers -> Worker] /\ external \in [ExternalIds -> Record \cup {None}]
    BY IdleWorker DEF Init
  <2>2. edits \in 0..MaxEdits /\ faults \in 0..MaxFaults /\ made \in 0..MaxExternal
    BY Constants DEF Init
  <2> QED BY <2>1, <2>2 DEF Init, TypeOK
<1>2. IInv
  BY IdleWorker DEF Init, IInv
<1> QED BY <1>1, <1>2

LEMMA InductiveStep ==
  TypeOK /\ IInv /\ [Next]_vars => TypeOK' /\ IInv'
<1> SUFFICES ASSUME TypeOK, IInv, [Next]_vars PROVE TypeOK' /\ IInv'
  OBVIOUS
<1>1. CASE User
  BY <1>1, UserSteps
<1>2. ASSUME NEW w \in Workers, Step(w) PROVE TypeOK' /\ IInv'
  <2>1. CASE \E e \in inbox : Claim(w, e)
    BY <2>1, ClaimStep
  <2>2. CASE Lookup(w)
    BY <2>2, LookupStep
  <2>3. CASE ReadInternal(w)
    BY <2>3, ReadInternalStep
  <2>4. CASE ReadLines(w) \/ ReadExternal(w)
    BY <2>4, ReadLinesStep, ReadExternalStep
  <2>5. CASE Find(w)
    BY <2>5, FindStep
  <2>6. CASE Create(w)
    BY <2>6, MakeFromStep
  <2>7. CASE Insert(w)
    BY <2>7, InsertStep
  <2>8. CASE NewLink(w)
    BY <2>8, NewLinkStep
  <2>9. CASE Recreate(w)
    BY <2>9, MakeFromStep
  <2>10. CASE Repoint(w)
    BY <2>10, RepointStep
  <2>11. CASE WriteExternal(w)
    BY <2>11, WriteExternalStep
  <2>12. CASE WriteInternal(w)
    BY <2>12, WriteInternalStep
  <2>13. CASE Mark(w)
    BY <2>13, MarkStep
  <2>14. CASE Finish(w)
    BY <2>14, FinishStep
  <2> QED
    BY <1>2, <2>1, <2>2, <2>3, <2>4, <2>5, <2>6, <2>7, <2>8, <2>9, <2>10, <2>11, <2>12,
       <2>13, <2>14 DEF Step
<1>3. ASSUME NEW w \in Workers, Mishap(w) PROVE TypeOK' /\ IInv'
  BY <1>3, Mishaps
<1>4. CASE UNCHANGED vars
  BY <1>4 DEF vars, TypeOK, IInv, Placed, Fresh, Origin
<1> QED BY <1>1, <1>2, <1>3, <1>4 DEF Next

LEMMA Inductive == Spec => [](TypeOK /\ IInv)
  BY InitOK, InductiveStep, PTL DEF Spec

\* Every record, notification, link and local variable is of its type: no
\* handler reads a field of a record that is not there.
THEOREM InvoiceTypes == Spec => []TypeOK
<1>1. TypeOK /\ IInv => TypeOK
  OBVIOUS
<1> QED BY <1>1, Inductive, PTL

-----------------------------------------------------------------------------
(* What is overwritten externally is audited *)

\* What worker w is to write to the audit log yet.
Owed(w) ==
  IF wk[w].pc \in {"mark", "finish"}
  THEN Overwritten(wk[w].d, wk[w].i.c, Seen(wk[w].x, wk[w].l, wk[w].i)) ELSE {}

\* What was overwritten on this side is audited, or a worker is to do it.
Accounted(side) ==
  \A o \in displaced :
    o[1] = side => o[2] \in audit \/ \E w \in Workers : o[2] \in Owed(w)

\* The processes stay up and every write is answered.
Answered == Faults \cap {"crash", "timeout"} = {}

\* A step of worker w that is not the end of its job.
LEMMA StillOwed ==
  ASSUME NEW side, TypeOK, Accounted(side), NEW w \in Workers, NEW t, wk' = [wk EXCEPT ![w] = t],
         wk[w].pc \notin {"mark", "finish"}, audit' = audit,
         \A o \in displaced' : o[1] = side => o \in displaced \/ o[2] \in Owed(w)'
  PROVE  Accounted(side)'
<1>1. Owed(w) = {}
  BY DEF Owed
<1>2. ASSUME NEW v \in Workers, v # w PROVE Owed(v)' = Owed(v)
  BY <1>2 DEF Owed, TypeOK
<1>3. ASSUME NEW o \in displaced', o[1] = side
      PROVE  o[2] \in audit' \/ \E v \in Workers : o[2] \in Owed(v)'
  <2>1. CASE o[2] \in Owed(w)'
    BY <2>1
  <2>2. CASE o \in displaced
    <3>1. o[2] \in audit \/ \E v \in Workers : o[2] \in Owed(v)
      BY <1>3, <2>2 DEF Accounted
    <3>2. CASE o[2] \in audit
      BY <3>2
    <3>3. ASSUME NEW v \in Workers, o[2] \in Owed(v)
          PROVE  \E u \in Workers : o[2] \in Owed(u)'
      <4>1. v # w
        BY <1>1, <3>3
      <4>2. o[2] \in Owed(v)'
        BY <1>2, <3>3, <4>1
      <4> QED BY <4>2
    <3> QED BY <3>1, <3>2, <3>3
  <2> QED BY <1>3, <2>1, <2>2
<1> QED BY <1>3 DEF Accounted

\* A write to the accounting system overwrites what its worker has read.
LEMMA OverwritesWhatWasRead ==
  ASSUME TypeOK, IInv, NEW w \in Workers, wk[w].pc = "writeExt", CanWrite(w),
         PutMerged(w), Goes(w, "mark")
  PROVE  \A o \in displaced' : o[1] = "external" => o \in displaced \/ o[2] \in Owed(w)'
<1> DEFINE r == wk[w]
           c == external[r.xid].c
<1>1. /\ r \in Worker /\ Placed(r, internal, link) /\ Fresh(r, external, clock)
      /\ r.x # None
  BY OwnEvent DEF Placed
<1>2. external[r.xid] = r.x
  BY <1>1 DEF Fresh, CanWrite
<1>3. InternalWins(r.d) /\ (r.d = "one_sided_internal" => c = r.l.base)
  BY <1>1, <1>2 DEF Placed
<1>4. displaced' = displaced \cup ({"external"} \X ({c} \ {r.l.base, MergedOf(w)}))
  BY DEF PutMerged, Displaces
<1>5. /\ wk'[w].pc = "mark" /\ wk'[w].d = r.d /\ wk'[w].i = r.i /\ wk'[w].x = r.x
      /\ wk'[w].l = r.l
  BY <1>1 DEF Goes, TypeOK, Worker
<1>6. Seen(r.x, r.l, r.i) = c
  BY <1>1, <1>2 DEF Seen
<1>7. r.d = "lww_internal" => Owed(w)' = {c}
  BY <1>5, <1>6 DEF Owed, Overwritten, IsLww, InternalWins
<1>8. ASSUME NEW o \in displaced', o \notin displaced
      PROVE  o[2] \in Owed(w)'
  <2>1. o[2] = c /\ c # r.l.base
    BY <1>4, <1>8
  <2>2. r.d = "lww_internal"
    BY <1>3, <2>1 DEF InternalWins
  <2> QED BY <1>7, <2>1, <2>2
<1> QED BY <1>8

\* Every overwriting is of what its worker is to audit.
LEMMA AuditStep ==
  ASSUME NEW side, Answered, TypeOK, IInv, Accounted(side), [Next]_vars,
         \A w \in Workers : (WriteExternal(w) /\ CanWrite(w)) \/ WriteInternal(w) =>
           \A o \in displaced' : o[1] = side => o \in displaced \/ o[2] \in Owed(w)'
  PROVE  Accounted(side)'
<1>1. ASSUME UNCHANGED <<wk, audit, displaced>> PROVE Accounted(side)'
  BY <1>1 DEF Accounted, Owed
<1>2. CASE User \/ UNCHANGED vars
  BY <1>1, <1>2 DEF User, vars, IntCreate, IntEdit, IntVoid, IntDelete, IntPay, InternalUser,
     ExtCreate, ExtEdit, ExtVoid, ExtPay, ExtDelete, ExternalUser, UserStep
<1>3. ASSUME NEW w \in Workers, NEW t, wk' = [wk EXCEPT ![w] = t],
             UNCHANGED <<audit, displaced>>, wk[w].pc \notin {"mark", "finish"}
      PROVE  Accounted(side)'
  BY <1>3, StillOwed
<1>4. ASSUME NEW w \in Workers, \E e \in inbox : Claim(w, e) PROVE Accounted(side)'
  BY <1>3, <1>4 DEF Claim
<1>5. ASSUME NEW w \in Workers, Lookup(w) PROVE Accounted(side)'
  BY <1>3, <1>5 DEF Lookup
<1>6. ASSUME NEW w \in Workers, ReadInternal(w) PROVE Accounted(side)'
  <2>1. \E t : wk' = [wk EXCEPT ![w] = t]
    BY <1>6 DEF ReadInternal
  <2> QED BY <1>3, <1>6, <2>1 DEF ReadInternal
<1>l. ASSUME NEW w \in Workers, ReadLines(w) PROVE Accounted(side)'
  <2>1. \E t : wk' = [wk EXCEPT ![w] = t]
    BY <1>l, ReadsLines
  <2> QED BY <1>3, <1>l, <2>1 DEF ReadLines
<1>7. ASSUME NEW w \in Workers, ReadExternal(w) PROVE Accounted(side)'
  <2>1. \E t : wk' = [wk EXCEPT ![w] = t]
    BY <1>7 DEF ReadExternal, Done
  <2> QED BY <1>3, <1>7, <2>1 DEF ReadExternal
<1>8. ASSUME NEW w \in Workers, Find(w) PROVE Accounted(side)'
  <2>1. \E t : wk' = [wk EXCEPT ![w] = t]
    BY <1>8 DEF Find, Goes, TypeOK
  <2> QED BY <1>3, <1>8, <2>1 DEF Find
<1>9. ASSUME NEW w \in Workers, Create(w) \/ Recreate(w) PROVE Accounted(side)'
  BY <1>3, <1>9 DEF Create, Recreate, MakeFrom
<1>10. ASSUME NEW w \in Workers, Insert(w) \/ NewLink(w) PROVE Accounted(side)'
  <2>1. \E t : wk' = [wk EXCEPT ![w] = t]
    BY <1>10 DEF Insert, NewLink, Fails
  <2> QED BY <1>3, <1>10, <2>1 DEF Insert, NewLink
<1>11. ASSUME NEW w \in Workers, Repoint(w) PROVE Accounted(side)'
  <2>1. wk' = [wk EXCEPT ![w] = [wk[w] EXCEPT !.pc = "mark"]]
    BY <1>11 DEF Repoint, Goes, TypeOK
  <2> QED BY <1>3, <1>11, <2>1 DEF Repoint
<1>12. ASSUME NEW w \in Workers, WriteExternal(w) PROVE Accounted(side)'
  <2>0. wk[w].pc = "writeExt" /\ audit' = audit
    BY <1>12 DEF WriteExternal
  <2>1. CASE CanWrite(w)
    <3>1. PutMerged(w) /\ Goes(w, "mark")
      BY <1>12, <2>1 DEF WriteExternal
    <3>2. wk' = [wk EXCEPT ![w] = [wk[w] EXCEPT !.pc = "mark"]]
      BY <3>1 DEF Goes, TypeOK
    <3>3. \A o \in displaced' : o[1] = side => o \in displaced \/ o[2] \in Owed(w)'
      BY <1>12, <2>1
    <3> QED BY <2>0, <2>1, <3>1, <3>2, <3>3, StillOwed
  <2>2. CASE ~CanWrite(w)
    BY <1>3, <1>12, <2>2 DEF WriteExternal, Fails
  <2> QED BY <2>1, <2>2
<1>13. ASSUME NEW w \in Workers, WriteInternal(w) PROVE Accounted(side)'
  <2>1. wk' = [wk EXCEPT ![w] = [wk[w] EXCEPT !.pc = "mark"]]
    BY <1>13 DEF WriteInternal, Goes, TypeOK
  <2>2. \A o \in displaced' : o[1] = side => o \in displaced \/ o[2] \in Owed(w)'
    BY <1>13
  <2>3. wk[w].pc = "writeInt" /\ audit' = audit
    BY <1>13 DEF WriteInternal
  <2> QED BY <2>1, <2>2, <2>3, StillOwed
<1>14. ASSUME NEW w \in Workers, Mark(w) PROVE Accounted(side)'
  <2>1. \A v \in Workers : Owed(v)' = Owed(v)
    BY <1>14 DEF Mark, Goes, TypeOK, Worker, Owed
  <2>2. UNCHANGED <<audit, displaced>>
    BY <1>14 DEF Mark
  <2> QED BY <2>1, <2>2 DEF Accounted
<1>15. ASSUME NEW w \in Workers, Finish(w) PROVE Accounted(side)'
  <2>1. /\ audit' = audit \cup Owed(w) /\ displaced' = displaced
        /\ wk' = [wk EXCEPT ![w] = Idle]
    BY <1>15 DEF Finish, Done, Owed
  <2>2. \A v \in Workers : v # w => Owed(v)' = Owed(v)
    BY <2>1 DEF TypeOK, Owed
  <2> QED BY <2>1, <2>2 DEF Accounted
<1>16. ASSUME NEW w \in Workers, Mishap(w) PROVE Accounted(side)'
  <2>1. ProviderFails(w)
    BY <1>16 DEF Mishap, Crash, TimesOut, Fault, Answered
  <2> QED BY <1>3, <2>1 DEF ProviderFails, Fails
<1>17. ASSUME NEW w \in Workers, Step(w) PROVE Accounted(side)'
  BY <1>4, <1>5, <1>6, <1>l, <1>7, <1>8, <1>9, <1>10, <1>11, <1>12, <1>13, <1>14, <1>15, <1>17
     DEF Step
<1> QED BY <1>2, <1>16, <1>17 DEF Next

\* Any number of workers, as long as no process dies between a write and its
\* audit row and no write goes unanswered: when the work is done, a state of the
\* accounting system that the sync overwrote is in the audit log, unless it was
\* the last synced one.
THEOREM ExternalLossIsAudited ==
  ASSUME Answered PROVE Spec => []ExternalLossAudited
<1>1. Init => Accounted("external")
  BY DEF Init, Accounted
<1>2. TypeOK /\ IInv /\ Accounted("external") /\ [Next]_vars => Accounted("external")'
  <2> SUFFICES ASSUME TypeOK, IInv, Accounted("external"), [Next]_vars
               PROVE  Accounted("external")'
    OBVIOUS
  <2>1. ASSUME NEW w \in Workers, WriteExternal(w), CanWrite(w)
        PROVE  \A o \in displaced' : o[1] = "external" => o \in displaced \/ o[2] \in Owed(w)'
    <3>1. wk[w].pc = "writeExt" /\ PutMerged(w) /\ Goes(w, "mark")
      BY <2>1 DEF WriteExternal
    <3> QED BY <2>1, <3>1, OverwritesWhatWasRead
  <2>2. ASSUME NEW w \in Workers, WriteInternal(w)
        PROVE  \A o \in displaced' : o[1] = "external" => o \in displaced
    BY <2>2 DEF WriteInternal, Displaces
  <2> QED BY <2>1, <2>2, AuditStep
<1>3. Accounted("external") => ExternalLossAudited
  BY DEF Accounted, ExternalLossAudited, Quiet, Owed
<1> QED BY <1>1, <1>2, <1>3, Inductive, PTL DEF Spec

-----------------------------------------------------------------------------
(* What is overwritten internally is audited, if nobody interferes *)

\* A worker t whose internal state is still there, up to its own write of it.
Undisturbed(t, int) ==
  /\ t.pc = "lookup" => t.i = None
  /\ t.i # None /\ t.pc \in {"lines", "readExt", "find", "create", "newLink", "writeInt"} => int = t.i
  /\ t.pc = "writeInt" =>
       t.d = "lww_external" \/ (t.d = "one_sided_external" /\ t.i.c = t.l.base)

Whole ==
  ~blurred => Accounted("internal") /\ \A w \in Workers : Undisturbed(wk[w], internal)

\* The decision to write internally is for a one-sided change or by time.
LEMMA WritesIn ==
  ASSUME NEW base, NEW int, NEW ext, NEW intAt, NEW extAt, NEW x, NEW d,
         d = Decision(base, int, ext, intAt, extAt), AfterDecision(d, x) = "writeInt"
  PROVE  d = "lww_external" \/ (d = "one_sided_external" /\ int = base)
<1>1. d # "noop" /\ ~InternalWins(d)
  BY DEF AfterDecision
<1>2. d \in Decisions /\ (d = "one_sided_external" => int = base)
  BY DEF Decision, Decisions
<1> QED BY <1>1, <1>2 DEF Decisions, InternalWins

\* A step that is not a user's: the order stays as clear as it was.
LEMMA BlurredStays ==
  ASSUME NEW w \in Workers, Step(w) \/ Mishap(w) PROVE blurred' = blurred
<1>1. CASE Step(w)
  <2>1. UNCHANGED Users
    BY <1>1 DEF Step, Claim, Lookup, ReadInternal, ReadLines, ReadExternal, Find, Create, Recreate, MakeFrom,
           Insert, NewLink, Repoint, WriteExternal, WriteInternal, Mark, Finish
  <2> QED BY <2>1 DEF Users
<1>2. CASE Mishap(w)
  <2>1. UNCHANGED Users
    BY <1>2 DEF Mishap, Crash, ProviderFails, TimesOut
  <2> QED BY <2>1 DEF Users
<1> QED BY <1>1, <1>2

\* A write to the internal side overwrites what its worker has read.
LEMMA OverwritesInternal ==
  ASSUME TypeOK, IInv, NEW w \in Workers, Undisturbed(wk[w], internal), WriteInternal(w)
  PROVE  \A o \in displaced' : o[1] = "internal" => o \in displaced \/ o[2] \in Owed(w)'
<1> DEFINE r == wk[w]
           c == internal.c
<1>1. r \in Worker /\ r.pc = "writeInt" /\ r.i # None
  BY OwnEvent DEF WriteInternal, Placed, Resolving
<1>2. c = r.i.c /\ (r.d = "lww_external" \/ (r.d = "one_sided_external" /\ c = r.l.base))
  BY <1>1 DEF Undisturbed
<1>3. displaced' = displaced \cup ({"internal"} \X ({c} \ {r.l.base, MergedOf(w)}))
  BY DEF WriteInternal, Displaces
<1>4. /\ wk'[w].pc = "mark" /\ wk'[w].d = r.d /\ wk'[w].i = r.i
  BY <1>1 DEF WriteInternal, Goes, TypeOK, Worker
<1>5. r.d = "lww_external" => Owed(w)' = {c}
  BY <1>2, <1>4 DEF Owed, Overwritten, IsLww, InternalWins
<1>6. ASSUME NEW o \in displaced', o \notin displaced
      PROVE  o[2] \in Owed(w)'
  <2>1. o[2] = c /\ c # r.l.base
    BY <1>3, <1>6
  <2> QED BY <1>2, <1>5, <2>1
<1> QED BY <1>6

\* The one worker stays undisturbed by its own step.
LEMMA UndisturbedStep ==
  ASSUME NEW w \in Workers, TypeOK, IInv, Undisturbed(wk[w], internal),
         Step(w) \/ Mishap(w)
  PROVE  Undisturbed(wk'[w], internal')
<1> DEFINE r == wk[w]
<1>0. r \in Worker /\ Placed(r, internal, link)
  BY OwnEvent
<1>1. ASSUME NEW t, wk' = [wk EXCEPT ![w] = t]
      PROVE  wk'[w] = t
  BY <1>1 DEF TypeOK
<1>2. Undisturbed(Idle, internal')
  BY DEF Undisturbed, Idle
<1>3. CASE wk' = [wk EXCEPT ![w] = Idle]
  BY <1>1, <1>2, <1>3
<1>4. ASSUME NEW t, wk' = [wk EXCEPT ![w] = t],
             t.pc \in {"readInt", "insert", "recreate", "repoint", "writeExt", "mark", "finish"}
      PROVE  Undisturbed(wk'[w], internal')
  BY <1>1, <1>4 DEF Undisturbed
<1>5. CASE \E e \in inbox : Claim(w, e)
  <2> PICK e \in inbox : Claim(w, e)
    BY <1>5
  <2> DEFINE claimed == [e EXCEPT !.tries = IF @ < MaxAttempts THEN @ + 1 ELSE @]
             t == [Idle EXCEPT !.pc = "lookup", !.ev = claimed]
  <2>1. wk' = [wk EXCEPT ![w] = t] /\ t.pc = "lookup" /\ t.i = None
    BY DEF Claim, Idle
  <2> HIDE DEF t
  <2> QED BY <1>1, <2>1 DEF Undisturbed
<1>6. CASE Lookup(w)
  <2> DEFINE l == FoundLink(r.ev)
             pc == IF l = None /\ r.ev.src = "external" THEN "readExt" ELSE "readInt"
             t == [r EXCEPT !.l = l, !.pc = pc, !.xid = IF l = None THEN r.ev.id ELSE l.ext]
  <2>1. wk' = [wk EXCEPT ![w] = t] /\ r.pc = "lookup"
    BY <1>6 DEF Lookup
  <2>2. t.pc = pc /\ t.i = None /\ pc \in {"readExt", "readInt"}
    BY <1>0, <2>1 DEF Undisturbed, Worker
  <2> HIDE DEF t, pc
  <2> QED BY <1>1, <2>1, <2>2 DEF Undisturbed
<1>7. CASE ReadInternal(w)
  <2> DEFINE pc == IF internal = None THEN "insert" ELSE "lines"
             t == [r EXCEPT !.pc = pc, !.i = internal]
  <2>1. internal' = internal /\ wk' = [wk EXCEPT ![w] = t]
    BY <1>7 DEF ReadInternal, sides
  <2>2. t.pc = pc /\ t.i = internal
    BY <1>0 DEF Worker
  <2> HIDE DEF t
  <2> QED BY <1>1, <2>1, <2>2 DEF Undisturbed
<1>l. CASE ReadLines(w)
  <2>1. /\ internal' = internal /\ r.i \in Record /\ r.i # None /\ r.pc = "lines"
        /\ \E body \in Read(r.i) :
             /\ body \in Nat
             /\ \/ wk' = [wk EXCEPT ![w] = Idle]
                \/ \E pc \in {"readExt", "newLink", "find"} :
                     wk' = [wk EXCEPT ![w] = Lined(wk[w], pc, body)]
    BY <1>l, ReadsLines
  <2>2. internal = r.i /\ \A body \in Read(r.i) : body = r.i.c.body
    BY <2>1 DEF Undisturbed, Read
  <2>3. ASSUME NEW pc \in {"readExt", "newLink", "find"}, NEW body \in Nat, body = r.i.c.body,
               wk' = [wk EXCEPT ![w] = Lined(wk[w], pc, body)]
        PROVE  Undisturbed(wk'[w], internal')
    <3> DEFINE t == Lined(wk[w], pc, body)
    <3>0. pc \in Stages
      BY DEF Stages
    <3>1. t.pc = pc /\ t.i = r.i
      BY <1>0, <2>1, <2>3, <3>0, LinedIs
    <3>2. wk' = [wk EXCEPT ![w] = t]
      BY <2>3
    <3> HIDE DEF t
    <3> QED BY <1>1, <2>1, <2>2, <3>1, <3>2 DEF Undisturbed
  <2>4. CASE wk' = [wk EXCEPT ![w] = Idle]
    BY <1>3, <2>4
  <2>5. CASE wk' # [wk EXCEPT ![w] = Idle]
    <3>1. PICK body \in Read(r.i) :
            /\ body \in Nat
            /\ \E pc \in {"readExt", "newLink", "find"} : wk' = [wk EXCEPT ![w] = Lined(wk[w], pc, body)]
      BY <2>1, <2>5
    <3>2. body = r.i.c.body
      BY <2>2
    <3>3. PICK pc \in {"readExt", "newLink", "find"} : wk' = [wk EXCEPT ![w] = Lined(wk[w], pc, body)]
      BY <3>1
    <3> QED BY <2>3, <3>1, <3>2, <3>3
  <2> QED BY <2>4, <2>5
<1>8. CASE ReadExternal(w)
  <2> DEFINE x == external[r.xid]
             seen == Seen(x, r.l, r.i)
             d == Decision(r.l.base, r.i.c, seen, r.i.at, ExternalAt(x, r.ev, r.l))
             reads == [r EXCEPT !.pc = "readInt", !.x = x]
             t == [r EXCEPT !.pc = AfterDecision(d, x), !.x = x, !.d = d]
  <2>1. /\ internal' = internal /\ r.pc = "readExt"
        /\ \/ wk' = [wk EXCEPT ![w] = Idle]
           \/ wk' = [wk EXCEPT ![w] = reads]
           \/ r.l # None /\ wk' = [wk EXCEPT ![w] = t]
    BY <1>8 DEF ReadExternal, Done, sides
  <2>2. reads.pc = "readInt"
    BY <1>0 DEF Worker
  <2>3. t.pc = AfterDecision(d, x) /\ t.i = r.i /\ t.d = d /\ t.l = r.l
    BY <1>0 DEF Worker
  <2>4. t.pc \in {"mark", "writeInt", "recreate", "writeExt"}
    BY <2>3 DEF AfterDecision
  <2>5. t.pc = "writeInt" => d = "lww_external" \/ (d = "one_sided_external" /\ r.i.c = r.l.base)
    BY <2>3, WritesIn
  <2>6. r.i # None => internal = r.i
    BY <2>1 DEF Undisturbed
  <2> HIDE DEF t, d, reads
  <2>7. Undisturbed(t, internal)
    BY <2>3, <2>4, <2>5, <2>6 DEF Undisturbed
  <2> QED BY <1>1, <1>3, <1>4, <2>1, <2>2, <2>7
<1>9. CASE Find(w)
  <2> DEFINE t(id) == [r EXCEPT !.pc = "newLink", !.xid = id, !.x = external[id]]
             creates == [r EXCEPT !.pc = "create"]
  <2>1. /\ internal' = internal /\ r.pc = "find"
        /\ \/ \E id \in ExternalIds : wk' = [wk EXCEPT ![w] = t(id)]
           \/ wk' = [wk EXCEPT ![w] = creates]
    BY <1>9 DEF Find, Goes, sides
  <2>2. /\ creates.pc = "create" /\ creates.i = r.i
        /\ \A id \in ExternalIds : t(id).pc = "newLink" /\ t(id).i = r.i
    BY <1>0 DEF Worker
  <2> HIDE DEF t, creates
  <2> QED BY <1>1, <2>1, <2>2 DEF Undisturbed
<1>10. CASE Create(w)
  <2> DEFINE t == [r EXCEPT !.pc = "newLink", !.xid = made + 1, !.x = external'[made + 1]]
  <2>1. wk' = [wk EXCEPT ![w] = t] /\ internal' = internal /\ r.pc = "create"
    BY <1>10 DEF Create, MakeFrom, MakeExternal, PutExternal
  <2>2. t.pc = "newLink" /\ t.i = r.i
    BY <1>0 DEF Worker
  <2> HIDE DEF t
  <2> QED BY <1>1, <2>1, <2>2 DEF Undisturbed
<1>11. CASE Recreate(w)
  <2> DEFINE t == [r EXCEPT !.pc = "repoint", !.xid = made + 1]
  <2>1. wk' = [wk EXCEPT ![w] = t]
    BY <1>11 DEF Recreate, MakeFrom
  <2>2. t.pc = "repoint"
    BY <1>0 DEF Worker
  <2> HIDE DEF t
  <2> QED BY <1>4, <2>1, <2>2
<1>12. CASE Insert(w)
  <2> DEFINE t == [r EXCEPT !.pc = "newLink", !.i = internal']
  <2>1. wk' = [wk EXCEPT ![w] = t] \/ wk' = [wk EXCEPT ![w] = Idle]
    BY <1>12 DEF Insert, Fails
  <2>2. t.pc = "newLink" /\ t.i = internal'
    BY <1>0 DEF Worker
  <2> HIDE DEF t
  <2> QED BY <1>1, <1>3, <2>1, <2>2 DEF Undisturbed
<1>13. CASE NewLink(w)
  <2> DEFINE d == Decision(None, r.i.c, r.x.c, r.i.at, r.x.at)
             l == [ext |-> r.xid, base |-> IF d = "noop" THEN r.i.c ELSE None, synced |-> 0]
             t == [r EXCEPT !.pc = AfterDecision(d, r.x), !.l = l, !.d = d]
  <2>1. /\ internal' = internal /\ r.pc = "newLink"
        /\ wk' = [wk EXCEPT ![w] = t] \/ wk' = [wk EXCEPT ![w] = Idle]
    BY <1>13 DEF NewLink, Fails, sides
  <2>2. t.pc = AfterDecision(d, r.x) /\ t.i = r.i /\ t.d = d
    BY <1>0 DEF Worker
  <2>3. t.pc \in {"mark", "writeInt", "recreate", "writeExt"}
    BY <2>2 DEF AfterDecision
  <2>4. t.pc = "writeInt" => d = "lww_external"
    <3>1. d # "one_sided_external"
      BY DEF Decision
    <3> QED BY <2>2, <3>1, WritesIn
  <2>5. r.i # None => internal = r.i
    BY <2>1 DEF Undisturbed
  <2> HIDE DEF t, d
  <2>6. Undisturbed(t, internal)
    BY <2>2, <2>3, <2>4, <2>5 DEF Undisturbed
  <2> QED BY <1>1, <1>3, <2>1, <2>6
<1>14. CASE Repoint(w) \/ WriteExternal(w) \/ WriteInternal(w) \/ Mark(w)
  <2> DEFINE t(pc) == [r EXCEPT !.pc = pc]
  <2>1. \/ wk' = [wk EXCEPT ![w] = Idle]
        \/ wk' = [wk EXCEPT ![w] = t("mark")] \/ wk' = [wk EXCEPT ![w] = t("finish")]
    BY <1>14 DEF Repoint, WriteExternal, WriteInternal, Mark, Goes, Fails
  <2>2. t("mark").pc = "mark" /\ t("finish").pc = "finish"
    BY <1>0 DEF Worker
  <2> HIDE DEF t
  <2> QED BY <1>3, <1>4, <2>1, <2>2
<1>15. CASE Finish(w) \/ Mishap(w)
  BY <1>3, <1>15 DEF Finish, Done, Mishap, Crash, ProviderFails, TimesOut, Fails
<1> QED
  BY <1>5, <1>6, <1>7, <1>l, <1>8, <1>9, <1>10, <1>11, <1>12, <1>13, <1>14, <1>15 DEF Step

LEMMA WholeStep ==
  ASSUME Answered, \E w : Workers = {w}, TypeOK, IInv, Whole, [Next]_vars PROVE Whole'
<1> SUFFICES ASSUME ~blurred' PROVE /\ Accounted("internal")'
                                    /\ \A w \in Workers : Undisturbed(wk'[w], internal')
  BY DEF Whole
<1>1. CASE User
  <2>1. /\ ~blurred /\ \A w \in Workers : wk[w].pc = "idle"
        /\ UNCHANGED <<wk, displaced, audit>>
    BY <1>1 DEF User, IntCreate, IntEdit, IntVoid, IntDelete, IntPay, InternalUser, ExtCreate,
                ExtEdit, ExtVoid, ExtPay, ExtDelete, ExternalUser, UserStep
  <2> QED BY <2>1 DEF Whole, Accounted, Owed, Undisturbed
<1>2. CASE UNCHANGED vars
  BY <1>2 DEF vars, Whole, Accounted, Owed
<1>3. ASSUME NEW w \in Workers, Step(w) \/ Mishap(w)
      PROVE  /\ Accounted("internal")'
             /\ \A v \in Workers : Undisturbed(wk'[v], internal')
  <2>1. /\ Accounted("internal") /\ Undisturbed(wk[w], internal)
        /\ \A v \in Workers : v = w
    BY <1>3, BlurredStays DEF Whole
  <2>2. \A v \in Workers : Undisturbed(wk'[v], internal')
    BY <1>3, <2>1, UndisturbedStep
  <2>3. ASSUME NEW v \in Workers, WriteExternal(v), CanWrite(v)
        PROVE  \A o \in displaced' : o[1] = "internal" => o \in displaced
    BY <2>3 DEF WriteExternal, PutMerged, Displaces
  <2>4. ASSUME NEW v \in Workers, WriteInternal(v)
        PROVE  \A o \in displaced' : o[1] = "internal" => o \in displaced \/ o[2] \in Owed(v)'
    BY <2>1, <2>4, OverwritesInternal
  <2>5. Accounted("internal")'
    BY <2>1, <2>3, <2>4, AuditStep
  <2> QED BY <2>2, <2>5
<1> QED BY <1>1, <1>2, <1>3 DEF Next

\* README "the overwritten state is preserved in the audit log, so nothing is
\* lost silently": true of both sides with one worker whose writes are all
\* answered and whom no user interrupts.
THEOREM LossIsAuditedUndisturbed ==
  ASSUME Answered, \E w : Workers = {w} PROVE Spec => []LossAuditedUndisturbed
<1>1. Init => Whole
  BY DEF Init, Whole, Accounted, Undisturbed, Idle
<1>2. TypeOK /\ IInv /\ Whole /\ [Next]_vars => Whole'
  BY WholeStep
<1>3. TypeOK /\ Whole /\ ExternalLossAudited => LossAuditedUndisturbed
  <2> SUFFICES ASSUME TypeOK, Whole, ExternalLossAudited, ~blurred, Quiet,
                      NEW o \in displaced
               PROVE  o[2] \in audit
    BY DEF LossAuditedUndisturbed, NothingLostSilently
  <2>1. CASE o[1] = "external"
    BY <2>1 DEF ExternalLossAudited
  <2>2. CASE o[1] = "internal"
    BY <2>2 DEF Whole, Accounted, Quiet, Owed
  <2> QED BY <2>1, <2>2 DEF TypeOK
<1> QED BY <1>1, <1>2, <1>3, ExternalLossIsAudited, Inductive, PTL DEF Spec

-----------------------------------------------------------------------------
(* One external invoice *)

\* One worker, and users of the accounting system who neither enter the
\* invoice there nor hard-delete it.
Sole ==
  /\ \A v, w \in Workers : v = w
  /\ UserOps \cap {"ext_create", "ext_delete"} = {}

\* A worker t that knows an external invoice knows one of the first n.
Behind(t, n) ==
  /\ t.pc = "create" => n = 0
  /\ t.pc \notin {"recreate", "repoint"}
  /\ t.x # None => t.xid <= n
  /\ t.pc \in {"readInt", "lines", "readExt"} /\ t.l # None => t.xid <= n

Single ==
  /\ made <= 1
  /\ \A id \in ExternalIds : external[id] # None <=> id <= made
  /\ link \in Link => link.ext <= made
  /\ \A w \in Workers : Behind(wk[w], made)

LEMMA SameInvoice ==
  ASSUME TypeOK, Single, NEW w \in Workers, NEW t, wk' = [wk EXCEPT ![w] = t],
         Behind(t, made), made' = made, link' \in Link => link'.ext <= made,
         \A id \in ExternalIds : external'[id] # None <=> external[id] # None
  PROVE  Single'
<1>1. ASSUME NEW v \in Workers PROVE Behind(wk'[v], made')
  <2>1. CASE v = w
    BY <2>1 DEF TypeOK
  <2>2. CASE v # w
    BY <2>2 DEF TypeOK, Single
  <2> QED BY <2>1, <2>2
<1> QED BY <1>1 DEF Single

LEMMA IdleBehind == \A n : Behind(Idle, n)
  BY DEF Behind, Idle

LEMMA FirstInvoice ==
  ASSUME Sole, TypeOK, IInv, Single, NEW w \in Workers, NEW t, wk' = [wk EXCEPT ![w] = t],
         Behind(t, 1), NEW c \in Comparable, MakeExternal(c), made = 0, link' = link
  PROVE  Single'
<1>1. /\ made' = 1 /\ 1 \in ExternalIds /\ external'[1] # None
      /\ external' = [external EXCEPT ![1] = [c |-> c, at |-> now]]
  <2>1. made' = made + 1 /\ made + 1 \in ExternalIds /\ external'[made + 1] \in Record
    BY MakesExternal
  <2>2. made + 1 = 1
    OBVIOUS
  <2> QED BY <2>1, <2>2, Contents DEF MakeExternal, PutExternal
<1>2. \A id \in ExternalIds : external'[id] # None <=> id <= 1
  <2> TAKE id \in ExternalIds
  <2>1. CASE id = 1
    BY <1>1, <2>1
  <2>2. CASE id # 1
    <3>1. external'[id] = external[id] /\ ~(id <= 0) /\ ~(id <= 1)
      BY <1>1, <2>2, Constants DEF TypeOK, ExternalIds
    <3> QED BY <3>1 DEF Single
  <2> QED BY <2>1, <2>2
<1>3. link \in Link => link.ext <= 1
  BY Constants DEF Single, TypeOK, Link, ExternalIds
<1>4. \A v \in Workers : Behind(wk'[v], 1)
  BY DEF Sole, TypeOK
<1> QED BY <1>1, <1>2, <1>3, <1>4 DEF Single

LEMMA OneStep ==
  ASSUME Sole, TypeOK, IInv, Single, [Next]_vars PROVE Single'
<1>0. made \in Nat /\ made <= 1
  BY Constants DEF TypeOK, Single
<1>1. ASSUME UNCHANGED <<wk, made, link>>,
             \A id \in ExternalIds : external'[id] # None <=> external[id] # None
      PROVE  Single'
  BY <1>1 DEF Single
<1>2. ASSUME NEW id \in ExternalIds, NEW c \in Comparable, external[id] # None,
             PutExternal(id, c)
      PROVE  \A other \in ExternalIds : external'[other] # None <=> external[other] # None
  <2>1. external' = [external EXCEPT ![id] = [c |-> c, at |-> now]]
        /\ [c |-> c, at |-> now] \in Record
    BY <1>2, Contents DEF PutExternal, TypeOK, now
  <2> QED BY <1>2, <2>1, Contents DEF TypeOK
<1>3. CASE User
  <2>1. ASSUME NEW op, NEW c, InternalUser(op, c) PROVE Single'
    BY <1>1, <2>1 DEF InternalUser, UserStep, PutInternal
  <2>2. ASSUME NEW op, NEW id \in ExternalIds, NEW c \in Comparable, ExternalUser(op, id, c)
        PROVE Single'
    BY <1>1, <1>2, <2>2 DEF ExternalUser, UserStep
  <2>3. ~ExtCreate /\ \A id \in ExternalIds : ~ExtDelete(id)
    BY DEF ExtCreate, ExtDelete, UserStep, Sole
  <2>4. CASE IntCreate \/ IntEdit \/ IntVoid \/ IntDelete
    BY <2>1, <2>4 DEF IntCreate, IntEdit, IntVoid, IntDelete
  <2>5. CASE IntPay
    BY <1>1, <2>5 DEF IntPay, UserStep, PutInternal
  <2>6. ASSUME NEW id \in ExternalIds, ExtEdit(id) PROVE Single'
    <3>1. Active(now) \in Comparable
      BY Contents DEF TypeOK, now
    <3> QED BY <2>2, <2>6, <3>1 DEF ExtEdit
  <2>7. ASSUME NEW id \in ExternalIds, ExtVoid(id) PROVE Single'
    <3>1. Voided(external[id].c) \in Comparable
      BY <2>7, Contents DEF ExtVoid, TypeOK
    <3> QED BY <2>2, <2>7, <3>1 DEF ExtVoid
  <2>8. ASSUME NEW id \in ExternalIds, ExtPay(id) PROVE Single'
    <3>1. external[id].c \in Comparable
      BY <2>8, Contents DEF ExtPay, TypeOK
    <3> QED BY <1>1, <1>2, <2>8, <3>1 DEF ExtPay, UserStep
  <2> QED BY <1>3, <2>3, <2>4, <2>5, <2>6, <2>7, <2>8 DEF User
\* A step of worker w that leaves the accounting system alone.
<1>4. ASSUME NEW w \in Workers, NEW t, wk' = [wk EXCEPT ![w] = t], Behind(t, made),
             UNCHANGED sides, link' \in Link => link'.ext <= made
      PROVE  Single'
  BY <1>4, SameInvoice DEF sides
<1>b. ASSUME NEW w \in Workers
      PROVE  /\ wk[w] \in Worker /\ Placed(wk[w], internal, link)
             /\ Behind(wk[w], made) /\ wk[w].pc \notin {"recreate", "repoint"}
             /\ link \in Link => link.ext <= made
  BY <1>b, OwnEvent DEF Single, Behind
<1>5. ASSUME NEW w \in Workers, wk' = [wk EXCEPT ![w] = Idle], UNCHANGED <<sides, link>>
      PROVE  Single'
  BY <1>4, <1>5, <1>b, IdleBehind
<1>6. ASSUME NEW w \in Workers, \E e \in inbox : Claim(w, e) PROVE Single'
  <2>1. PICK ev : wk' = [wk EXCEPT ![w] = [Idle EXCEPT !.pc = "lookup", !.ev = ev]]
    BY <1>6 DEF Claim
  <2>2. Behind([Idle EXCEPT !.pc = "lookup", !.ev = ev], made)
    BY DEF Behind, Idle
  <2>3. UNCHANGED <<sides, link>>
    BY <1>6 DEF Claim
  <2> QED BY <1>4, <1>b, <2>1, <2>2, <2>3
<1>7. ASSUME NEW w \in Workers, Lookup(w) PROVE Single'
  <2> DEFINE l == FoundLink(wk[w].ev)
             t == [wk[w] EXCEPT
                     !.l = l,
                     !.pc = IF l = None /\ wk[w].ev.src = "external" THEN "readExt" ELSE "readInt",
                     !.xid = IF l = None THEN wk[w].ev.id ELSE l.ext]
  <2>1. wk' = [wk EXCEPT ![w] = t] /\ UNCHANGED <<sides, link>> /\ wk[w].x = None
    BY <1>7, <1>b DEF Lookup, Placed
  <2>2. l # None => l.ext <= made
    BY <1>b DEF FoundLink, TypeOK
  <2> HIDE DEF l
  <2>3. Behind(t, made)
    BY <1>b, <2>1, <2>2 DEF Behind, Worker
  <2> QED BY <1>4, <1>b, <2>1, <2>3
<1>8. ASSUME NEW w \in Workers, ReadInternal(w) PROVE Single'
  <2> DEFINE pc == IF internal = None THEN "insert" ELSE "lines"
             t == [wk[w] EXCEPT !.pc = pc, !.i = internal]
  <2>1. UNCHANGED <<sides, link>> /\ wk[w].pc = "readInt" /\ wk' = [wk EXCEPT ![w] = t]
    BY <1>8 DEF ReadInternal
  <2>2. Behind(t, made)
    BY <1>b, <2>1 DEF Behind, Worker
  <2> HIDE DEF t
  <2> QED BY <1>4, <1>b, <2>1, <2>2
<1>l. ASSUME NEW w \in Workers, ReadLines(w) PROVE Single'
  <2>0. UNCHANGED <<external, made, link>> /\ wk[w].pc = "lines"
        /\ wk[w] \in Worker /\ wk[w].i \in Record /\ wk[w].i # None
    BY <1>l, ReadsLines
  <2>1. CASE wk' = [wk EXCEPT ![w] = Idle]
    BY <1>b, <2>0, <2>1, IdleBehind, SameInvoice
  <2>2. ASSUME NEW pc \in {"readExt", "newLink", "find"}, NEW body \in Nat,
               wk' = [wk EXCEPT ![w] = Lined(wk[w], pc, body)]
        PROVE  Single'
    <3> DEFINE t == Lined(wk[w], pc, body)
    <3>0. pc \in Stages
      BY DEF Stages
    <3>1. t.pc = pc /\ t.x = wk[w].x /\ t.xid = wk[w].xid /\ t.l = wk[w].l
      BY <2>0, <3>0, LinedIs
    <3>3. wk' = [wk EXCEPT ![w] = t]
      BY <2>2
    <3> HIDE DEF t
    <3>2. Behind(t, made)
      BY <1>b, <2>0, <3>1 DEF Behind
    <3> QED BY <1>b, <2>0, <3>2, <3>3, SameInvoice
  <2>3. CASE wk' # [wk EXCEPT ![w] = Idle]
    <3>1. \E body \in Read(wk[w].i) :
            /\ body \in Nat
            /\ \/ wk' = [wk EXCEPT ![w] = Idle]
               \/ \E pc \in {"readExt", "newLink", "find"} : wk' = [wk EXCEPT ![w] = Lined(wk[w], pc, body)]
      BY <1>l, ReadsLines
    <3>2. PICK body \in Nat, pc \in {"readExt", "newLink", "find"} :
            wk' = [wk EXCEPT ![w] = Lined(wk[w], pc, body)]
      BY <2>3, <3>1
    <3> QED BY <2>2, <3>2
  <2> QED BY <2>1, <2>3
<1>9. ASSUME NEW w \in Workers, ReadExternal(w) PROVE Single'
  <2> DEFINE r == wk[w]
             x == external[r.xid]
  <2>0. /\ UNCHANGED <<sides, link>> /\ r.pc = "readExt" /\ r \in Worker
        /\ r.xid \in ExternalIds /\ (x # None <=> r.xid <= made)
        /\ r.l # None => r.xid <= made
    BY <1>9, <1>b DEF ReadExternal, Placed, Single, Behind
  <2>1. CASE wk' = [wk EXCEPT ![w] = Idle]
    BY <1>5, <2>0, <2>1
  <2>2. CASE r.l = None /\ ~(wk' = [wk EXCEPT ![w] = Idle])
    <3>1. wk' = [wk EXCEPT ![w] = [r EXCEPT !.pc = "readInt", !.x = x]]
      BY <1>9, <2>2 DEF ReadExternal, Done
    <3>2. Behind([r EXCEPT !.pc = "readInt", !.x = x], made)
      BY <2>0, <2>2 DEF Behind, Worker
    <3> QED BY <1>4, <1>b, <2>0, <3>1, <3>2
  <2>3. CASE r.l # None /\ ~(wk' = [wk EXCEPT ![w] = Idle])
    <3>1. PICK d : wk' = [wk EXCEPT ![w] = [r EXCEPT !.pc = AfterDecision(d, x), !.x = x, !.d = d]]
      BY <1>9, <2>3 DEF ReadExternal, Done
    <3>2. AfterDecision(d, x) \in {"mark", "writeInt", "writeExt"}
      BY <2>0, <2>3 DEF AfterDecision
    <3>3. Behind([r EXCEPT !.pc = AfterDecision(d, x), !.x = x, !.d = d], made)
      BY <2>0, <3>2 DEF Behind, Worker
    <3> QED BY <1>4, <1>b, <2>0, <3>1, <3>3
  <2> QED BY <2>1, <2>2, <2>3
<1>10. ASSUME NEW w \in Workers, Find(w) PROVE Single'
  <2>0. UNCHANGED <<sides, link>> /\ wk[w].pc = "find"
    BY <1>10 DEF Find
  <2>1. ASSUME NEW id \in ExternalIds, external[id] # None,
               wk' = [wk EXCEPT ![w] = [@ EXCEPT !.pc = "newLink", !.xid = id, !.x = external[id]]]
        PROVE  Single'
    <3>1. id <= made
      BY <2>1 DEF Single
    <3>2. Behind([wk[w] EXCEPT !.pc = "newLink", !.xid = id, !.x = external[id]], made)
      BY <1>b, <3>1 DEF Behind, Worker
    <3>3. wk' = [wk EXCEPT ![w] = [wk[w] EXCEPT !.pc = "newLink", !.xid = id, !.x = external[id]]]
      BY <2>1
    <3> QED BY <1>4, <1>b, <2>0, <3>2, <3>3
  <2>2. ASSUME \A id \in ExternalIds : external[id] = None, Goes(w, "create")
        PROVE  Single'
    <3>1. made = 0
      BY <1>0, <2>2, Constants DEF Single, ExternalIds, TypeOK
    <3>2. wk' = [wk EXCEPT ![w] = [wk[w] EXCEPT !.pc = "create"]]
      BY <2>2 DEF Goes, TypeOK
    <3>3. Behind([wk[w] EXCEPT !.pc = "create"], made)
      BY <1>b, <3>1 DEF Behind, Worker
    <3> QED BY <1>4, <1>b, <2>0, <3>2, <3>3
  <2> QED BY <1>10, <2>1, <2>2 DEF Find
<1>i. ASSUME NEW w \in Workers, wk[w].pc = "create"
      PROVE  Created(wk[w].i.c) \in Comparable /\ made = 0
  <2>1. wk[w].i \in Record
    BY <1>i, <1>b DEF Placed, Worker
  <2> QED BY <1>i, <1>b, <2>1, Contents DEF Behind
<1>11. ASSUME NEW w \in Workers, Create(w) \/ Recreate(w) PROVE Single'
  <2>1. wk[w].pc = "create" /\ Create(w)
    BY <1>11, <1>b DEF Create, Recreate
  <2> DEFINE t == [wk[w] EXCEPT !.pc = "newLink", !.xid = made + 1, !.x = external'[made + 1]]
  <2>2. /\ wk' = [wk EXCEPT ![w] = t] /\ link' = link
        /\ MakeExternal(Created(wk[w].i.c))
    BY <2>1 DEF Create, MakeFrom
  <2>3. Created(wk[w].i.c) \in Comparable /\ made = 0
    BY <2>1, <1>i
  <2>4. t.pc = "newLink" /\ t.xid = made + 1
    BY <1>b DEF Worker
  <2> HIDE DEF t
  <2>5. Behind(t, 1)
    BY <2>3, <2>4 DEF Behind
  <2> QED BY <2>2, <2>3, <2>5, FirstInvoice
<1>12. ASSUME NEW w \in Workers, Insert(w) PROVE Single'
  <2>0. wk[w].pc = "insert" /\ UNCHANGED <<link, made, external>>
    BY <1>12 DEF Insert, PutInternal, sides
  <2>1. CASE internal = None
    <3>1. wk' = [wk EXCEPT ![w] = [wk[w] EXCEPT !.pc = "newLink", !.i = internal']]
      BY <1>12, <2>1 DEF Insert
    <3>2. Behind([wk[w] EXCEPT !.pc = "newLink", !.i = internal'], made)
      BY <1>b DEF Behind, Worker
    <3> QED BY <1>b, <2>0, <3>1, <3>2, SameInvoice
  <2>2. CASE internal # None
    BY <1>5, <1>12, <2>2 DEF Insert, Fails
  <2> QED BY <2>1, <2>2
<1>13. ASSUME NEW w \in Workers, NewLink(w) PROVE Single'
  <2> DEFINE r == wk[w]
  <2>0. /\ UNCHANGED sides /\ r.pc = "newLink" /\ r \in Worker /\ r.x # None
        /\ r.xid <= made
    BY <1>13, <1>b DEF NewLink, Placed, Behind
  <2>1. CASE link # None
    BY <1>5, <1>13, <2>1 DEF NewLink, Fails
  <2>2. CASE link = None
    <3>1. PICK d, l : /\ link' = l /\ l.ext = r.xid
                      /\ wk' = [wk EXCEPT ![w] = [r EXCEPT !.pc = AfterDecision(d, r.x), !.l = l, !.d = d]]
      BY <1>13, <2>2 DEF NewLink
    <3>2. AfterDecision(d, r.x) \in {"mark", "writeInt", "writeExt"}
      BY <2>0 DEF AfterDecision
    <3>3. Behind([r EXCEPT !.pc = AfterDecision(d, r.x), !.l = l, !.d = d], made)
      BY <2>0, <3>2 DEF Behind, Worker
    <3> QED BY <1>4, <2>0, <3>1, <3>3
  <2> QED BY <2>1, <2>2
\* A worker past its decision goes on to pc.
<1>14. ASSUME NEW w \in Workers, NEW pc \in {"mark", "finish"}, Goes(w, pc), made' = made,
              link' \in Link => link'.ext <= made,
              \A id \in ExternalIds : external'[id] # None <=> external[id] # None
       PROVE  Single'
  <2>1. wk' = [wk EXCEPT ![w] = [wk[w] EXCEPT !.pc = pc]]
    BY <1>14 DEF Goes, TypeOK
  <2>2. Behind([wk[w] EXCEPT !.pc = pc], made)
    BY <1>b DEF Behind, Worker
  <2> QED BY <1>14, <2>1, <2>2, SameInvoice
<1>15. ASSUME NEW w \in Workers, Repoint(w) PROVE Single'
  BY <1>15, <1>b DEF Repoint
<1>16. ASSUME NEW w \in Workers, Mark(w) PROVE Single'
  <2>1. /\ link' = [link EXCEPT !.base = MergedOf(w), !.synced = clock]
        /\ UNCHANGED sides /\ Goes(w, "finish")
    BY <1>16 DEF Mark
  <2>2. link \in Link
    BY <1>16, Past DEF Mark, Resolving
  <2>3. link'.ext <= made
    BY <1>b, <2>1, <2>2 DEF Link
  <2> QED BY <1>14, <2>1, <2>3 DEF sides
<1>17. ASSUME NEW w \in Workers, wk[w].pc = "writeExt", CanWrite(w), PutMerged(w)
       PROVE  /\ made' = made
              /\ \A id \in ExternalIds : external'[id] # None <=> external[id] # None
  <2> DEFINE c == external[wk[w].xid].c
             m == MergedOf(w)
             put == IF Dead(m) THEN Voided(c) ELSE m
  <2>1. wk[w].xid \in ExternalIds /\ m \in Comparable /\ external[wk[w].xid] # None
    BY <1>17, Past DEF Resolving, CanWrite
  <2>2. c \in Comparable
    BY <2>1, Contents DEF TypeOK
  <2>3. PutExternal(wk[w].xid, put) /\ made' = made
    BY <1>17 DEF PutMerged
  <2> HIDE DEF m, c
  <2>4. put \in Comparable
    BY <2>1, <2>2, Contents
  <2> HIDE DEF put
  <2> QED BY <1>2, <2>1, <2>3, <2>4
<1>18. ASSUME NEW w \in Workers, WriteExternal(w) PROVE Single'
  <2>0. wk[w].pc = "writeExt" /\ link' = link
    BY <1>18 DEF WriteExternal
  <2>1. CASE CanWrite(w)
    BY <1>14, <1>17, <1>18, <1>b, <2>0, <2>1 DEF WriteExternal
  <2>2. CASE ~CanWrite(w)
    BY <1>5, <1>18, <2>2 DEF WriteExternal, Fails
  <2> QED BY <2>1, <2>2
<1>19. ASSUME NEW w \in Workers, WriteInternal(w) PROVE Single'
  BY <1>14, <1>19, <1>b DEF WriteInternal, PutInternal
<1>20. ASSUME NEW w \in Workers, Finish(w) PROVE Single'
  BY <1>5, <1>20 DEF Finish, Done
<1>21. ASSUME NEW w \in Workers, Mishap(w) PROVE Single'
  <2>1. CASE Crash(w) \/ ProviderFails(w)
    BY <1>5, <2>1 DEF Crash, ProviderFails, Fails
  <2>2. CASE TimesOut(w)
    <3>0. wk' = [wk EXCEPT ![w] = Idle] /\ link' = link
      BY <2>2 DEF TimesOut
    <3>1. CASE wk[w].pc = "writeExt"
      <4>1. CanWrite(w) /\ PutMerged(w)
        BY <2>2, <3>1 DEF TimesOut
      <4> QED BY <1>17, <1>b, <3>0, <3>1, <4>1, IdleBehind, SameInvoice
    <3>2. CASE wk[w].pc # "writeExt"
      <4>1. wk[w].pc = "create" /\ MakeExternal(Created(wk[w].i.c))
        BY <1>b, <2>2, <3>2 DEF TimesOut
      <4>2. Created(wk[w].i.c) \in Comparable /\ made = 0
        BY <1>i, <4>1
      <4> QED BY <3>0, <4>1, <4>2, IdleBehind, FirstInvoice
    <3> QED BY <3>1, <3>2
  <2> QED BY <1>21, <2>1, <2>2 DEF Mishap
<1>22. ASSUME NEW w \in Workers, Step(w) PROVE Single'
  BY <1>6, <1>7, <1>8, <1>l, <1>9, <1>10, <1>11, <1>12, <1>13, <1>15, <1>16, <1>18, <1>19, <1>20,
     <1>22 DEF Step
<1>23. CASE UNCHANGED vars
  BY <1>1, <1>23 DEF vars
<1> QED BY <1>3, <1>21, <1>22, <1>23 DEF Next

\* Whatever crashes, answers that are lost and retries there are, one worker
\* makes one invoice of a number in the accounting system, if nobody makes or
\* hard-deletes one there.
THEOREM NeverTwoInvoices ==
  ASSUME Sole PROVE Spec => []OneExternalInvoice
<1>1. Init => Single
  BY IdleBehind, Constants, NoneOK DEF Init, Single, ExternalIds
<1>2. TypeOK /\ IInv /\ Single /\ [Next]_vars => Single'
  BY OneStep
<1>3. TypeOK /\ Single => OneExternalInvoice
  <2> SUFFICES ASSUME TypeOK, Single PROVE OneExternalInvoice
    OBVIOUS
  <2> DEFINE live == {id \in ExternalIds : Live(id)}
  <2>1. live \subseteq {1}
    BY Constants DEF TypeOK, Single, Live, ExternalIds
  <2>2. IsFiniteSet({1}) /\ Cardinality({1}) = 1
    BY FS_Singleton
  <2>3. Cardinality(live) <= 1
    <3> HIDE DEF live
    <3> QED BY <2>1, <2>2, FS_Subset
  <2> QED BY <2>3 DEF OneExternalInvoice
<1> QED BY <1>1, <1>2, <1>3, Inductive, PTL DEF Spec
=============================================================================
