-------------------------- MODULE PaymentSyncProofs --------------------------
(***************************************************************************)
(* Theorems about PaymentSync, for any number of workers, invoices and     *)
(* payments, and any of the faults.                                        *)
(***************************************************************************)
EXTENDS PaymentSync, FiniteSetTheorems, TLAPS

-----------------------------------------------------------------------------
(* The inductive invariant *)

UserRows == {r \in rows : r.num > 0}

\* The payments entered internally are numbered in their order.
Numbered ==
  /\ IsFiniteSet(UserRows)
  /\ \A r \in UserRows : r.num <= Cardinality(UserRows)

\* The accounting system's ids are given out in order, and a payment that has
\* a reference code has that of an internal row.
Recorded ==
  \A id \in ExternalIds :
    /\ qbo[id] # None <=> id <= made
    /\ qbo[id] # None => qbo[id].row \in rows \cup {None}

\* Every notification is about a payment that is there, and no two of them
\* are about the same one.
Notified ==
  /\ \A e \in inbox : IF e.row = None THEN e.id \in 1..made
                                      ELSE e.id = 0 /\ e.row \in rows
  /\ \A e, f \in inbox : e.row = f.row /\ e.id = f.id => e = f

\* What a worker t knows at each call it makes, when the accounting system has
\* the payments q and the internal one the rows rs, with the notifications box.
Given(id, p, q) == id \in ExternalIds /\ q[id] # None /\ p = q[id]

AppliedUpTo(n, id, allocs, rs) == \A m \in 1..n : AppliedRow(id, allocs[m]) \in rs

Placed(t, q, rs, box) ==
  /\ t.pc = "idle" => t.ev = None
  /\ t.pc # "idle" => t.ev \in box
  /\ t.pc \in {"invoice", "find", "create"} => t.ev.row # None
  /\ t.pc \in {"read", "resolve", "apply"} => t.ev.row = None
  /\ t.pc # "idle" /\ t.ev.row = None => t.id = t.ev.id
  /\ t.pc \in {"resolve", "apply", "link", "finish"} => Given(t.id, t.p, q)
  /\ t.pc = "create" => \A id \in ExternalIds : ~(q[id] # None /\ q[id].row = t.ev.row)
  /\ t.pc \in {"link", "finish"} /\ t.ev.row # None => t.p.row = t.ev.row
  /\ t.pc \in {"lookup", "read", "resolve"} => t.applied = 0
  /\ t.pc = "resolve" => Len(t.p.allocs) > 0
  /\ t.pc = "apply" => /\ t.applied < Len(t.p.allocs)
                       /\ AppliedUpTo(t.applied, t.id, t.p.allocs, rs)
  /\ t.pc \in {"link", "finish"} /\ t.ev.row = None =>
       Len(t.p.allocs) > 0 /\ AppliedUpTo(Len(t.p.allocs), t.id, t.p.allocs, rs)

Exclusive ==
  \A v, w \in Workers : v # w /\ wk[v].pc # "idle" => wk[v].ev # wk[w].ev

LinksKnown == \A l \in links : l.id <= made

IInv ==
  /\ Numbered /\ Recorded /\ Notified /\ Exclusive /\ LinksKnown
  /\ \A w \in Workers : Placed(wk[w], qbo, rows, inbox)
  /\ ReplicatedOnce /\ LinkedIsWhole

-----------------------------------------------------------------------------
(* The data *)

LEMMA AllocationsAreShort ==
  \A s \in Allocations :
    /\ s \in Seq(Invoices) /\ Len(s) \in 0..2
    /\ \A n \in 1..Len(s) : s[n] \in Invoices
<1> SUFFICES ASSUME NEW s \in Allocations
             PROVE  /\ s \in Seq(Invoices) /\ Len(s) \in 0..2
                    /\ \A n \in 1..Len(s) : s[n] \in Invoices
  OBVIOUS
<1>1. CASE s = <<>>
  BY <1>1
<1>2. ASSUME NEW i \in Invoices, s = <<i>>
      PROVE  s \in Seq(Invoices) /\ Len(s) = 1 /\ s[1] \in Invoices
  BY <1>2
<1>3. ASSUME NEW i \in Invoices, NEW j \in Invoices, s = <<i, j>>
      PROVE  s \in Seq(Invoices) /\ Len(s) = 2 /\ s[1] \in Invoices /\ s[2] \in Invoices
  BY <1>3
<1> QED BY <1>1, <1>2, <1>3 DEF Allocations

LEMMA ToSetOf ==
  \A s \in Allocations : ToSet(s) = {s[n] : n \in 1..Len(s)}
<1> TAKE s \in Allocations
<1>1. s \in Seq(Invoices)
  BY AllocationsAreShort
<1>2. DOMAIN s = 1..Len(s)
  BY <1>1
<1> QED BY <1>2 DEF ToSet

LEMMA Constants ==
  /\ MaxInternal \in Nat /\ MaxEntered \in Nat /\ MaxExternal \in Nat
  /\ MaxFaults \in Nat /\ MaxAttempts \in Nat \ {0}
  BY ConstantsOK DEF ConstantsOK

\* The fields of what is stored and sent.
LEMMA Fields ==
  /\ \A r \in RowsOf : r # None /\ r.num \in Nat /\ r.inv \in Invoices
  /\ \A p \in Payment : p # None /\ p.row \in RowsOf \cup {None} /\ p.allocs \in Allocations
  /\ \A e \in Event : /\ e # None /\ e.row \in RowsOf \cup {None} /\ e.id \in 0..MaxExternal
                      /\ e.tries \in 0..MaxAttempts
<1>1. \A r \in RowsOf : r # None /\ r.num \in Nat /\ r.inv \in Invoices
  BY NoneOK, Constants DEF RowsOf
<1>2. \A p \in Payment : p # None /\ p.row \in RowsOf \cup {None} /\ p.allocs \in Allocations
  BY NoneOK DEF Payment
<1>3. \A e \in Event : /\ e # None /\ e.row \in RowsOf \cup {None} /\ e.id \in 0..MaxExternal
                       /\ e.tries \in 0..MaxAttempts
  BY NoneOK DEF Event
<1> QED BY <1>1, <1>2, <1>3

LEMMA NewRows ==
  /\ \A n \in 1..MaxInternal : \A i \in Invoices :
       UserRow(n, i) \in RowsOf /\ FromInternal(UserRow(n, i)) \in Event
  /\ \A id \in ExternalIds : \A i \in Invoices :
       AppliedRow(id, i) \in RowsOf /\ AppliedRow(id, i).num = 0
  /\ \A id \in ExternalIds : FromExternal(id) \in Event
<1>1. \A n \in 1..MaxInternal : \A i \in Invoices : UserRow(n, i) \in RowsOf
  BY Constants DEF UserRow, RowsOf
<1>2. \A r \in RowsOf : FromInternal(r) \in Event
  BY Constants DEF FromInternal, Event
<1>3. \A id \in ExternalIds : \A i \in Invoices :
        AppliedRow(id, i) \in RowsOf /\ AppliedRow(id, i).num = 0
  BY Constants DEF AppliedRow, RowsOf, ExternalIds
<1>4. \A id \in ExternalIds : FromExternal(id) \in Event
  BY Constants DEF FromExternal, Event, ExternalIds
<1> QED BY <1>1, <1>2, <1>3, <1>4

-----------------------------------------------------------------------------
(* Steps *)

\* A worker stays where it is while others record payments and apply them.
LEMMA StillPlaced ==
  ASSUME NEW t, Placed(t, qbo, rows, inbox), rows \subseteq rows',
         t.pc # "idle" => t.ev \in inbox',
         \A id \in ExternalIds : qbo[id] # None => qbo'[id] = qbo[id],
         t.pc = "create" =>
           \A id \in ExternalIds : qbo'[id] = qbo[id] \/ qbo'[id].row # t.ev.row
  PROVE  Placed(t, qbo', rows', inbox')
  BY DEF Placed, Given, AppliedUpTo

\* The next call of worker w, which leaves the notifications and the
\* accounting system alone and may add the row of an allocation.
LEMMA Moves ==
  ASSUME TypeOK, IInv, NEW w \in Workers, NEW t \in Worker,
         wk[w].pc # "idle", t.ev = wk[w].ev, wk' = [wk EXCEPT ![w] = t],
         Placed(t, qbo, rows', inbox),
         rows \subseteq rows', rows' \subseteq RowsOf, \A r \in rows' \ rows : r.num = 0,
         UNCHANGED <<stage, qbo, made, links, inbox, dead, divergent, entered, faults>>
  PROVE  TypeOK' /\ IInv'
<1>1. TypeOK'
  BY DEF TypeOK
<1>2. \A v \in Workers : Placed(wk'[v], qbo', rows', inbox')
  <2> TAKE v \in Workers
  <2>1. CASE v = w
    BY <2>1 DEF TypeOK
  <2>2. CASE v # w
    <3>1. wk'[v] = wk[v] /\ Placed(wk[v], qbo, rows, inbox)
      BY <2>2 DEF TypeOK, IInv
    <3>2. wk[v].pc # "idle" => wk[v].ev \in inbox'
      BY <3>1 DEF Placed
    <3> QED BY <3>1, <3>2, StillPlaced
  <2> QED BY <2>1, <2>2
<1>3. Exclusive'
  BY DEF Exclusive, IInv, TypeOK, Placed
<1>4. UserRows' = UserRows
  <2>1. \A r \in rows' : r.num > 0 => r \in rows
    <3> TAKE r \in rows'
    <3>1. CASE r \in rows' \ rows
      BY <3>1
    <3> QED BY <3>1
  <2> QED BY <2>1 DEF UserRows
<1>5. Numbered'
  BY <1>4 DEF Numbered, IInv
<1>6. Recorded' /\ Notified' /\ LinksKnown' /\ ReplicatedOnce' /\ LinkedIsWhole'
  BY DEF IInv, Recorded, Notified, LinksKnown, ReplicatedOnce, LinkedIsWhole
<1> QED BY <1>1, <1>2, <1>3, <1>5, <1>6 DEF IInv

\* Worker w leaves its notification, for good or for another attempt.
LEMMA Leaves ==
  ASSUME TypeOK, IInv, NEW w \in Workers, wk[w].pc # "idle",
         wk' = [wk EXCEPT ![w] = Idle],
         inbox' = inbox \/ inbox' = inbox \ {wk[w].ev},
         dead' \subseteq dead \cup {wk[w].ev}, divergent' \subseteq RowsOf,
         faults' \in 0..MaxFaults,
         UNCHANGED <<stage, rows, qbo, made, links, entered>>
  PROVE  TypeOK' /\ IInv'
<1>0. Idle \in Worker /\ Idle.pc = "idle" /\ Idle.ev = None
  BY Constants DEF Idle, Worker, Stages
<1>a. wk[w].ev \in Event
  BY DEF TypeOK, IInv, Placed
<1>1. TypeOK'
  BY <1>0, <1>a DEF TypeOK
<1>2. \A v \in Workers : Placed(wk'[v], qbo', rows', inbox')
  <2> TAKE v \in Workers
  <2>1. CASE v = w
    BY <1>0, <2>1 DEF TypeOK, Placed, Idle
  <2>2. CASE v # w
    <3>1. wk'[v] = wk[v] /\ Placed(wk[v], qbo, rows, inbox)
      BY <2>2 DEF TypeOK, IInv
    <3>2. wk[v].pc # "idle" => wk[v].ev \in inbox'
      BY <2>2, <3>1 DEF Placed, IInv, Exclusive
    <3> QED BY <3>1, <3>2, StillPlaced
  <2> QED BY <2>1, <2>2
<1>3. Exclusive'
  <2> SUFFICES ASSUME NEW v \in Workers, NEW u \in Workers, v # u, wk'[v].pc # "idle"
               PROVE  wk'[v].ev # wk'[u].ev
    BY DEF Exclusive
  <2>1. v # w /\ wk'[v] = wk[v] /\ wk[v].ev \in Event
    BY <1>0 DEF TypeOK, IInv, Placed
  <2>2. CASE u = w
    BY <1>0, <2>1, <2>2, Fields DEF TypeOK
  <2>3. CASE u # w
    BY <2>1, <2>3 DEF TypeOK, IInv, Exclusive
  <2> QED BY <2>2, <2>3
<1>4. Numbered'
  BY DEF IInv, Numbered, UserRows
<1>5. Recorded' /\ Notified' /\ LinksKnown' /\ ReplicatedOnce' /\ LinkedIsWhole'
  BY DEF IInv, Recorded, Notified, LinksKnown, ReplicatedOnce, LinkedIsWhole
<1> QED BY <1>1, <1>2, <1>3, <1>4, <1>5 DEF IInv

\* A new payment in the accounting system, of an internal row that has none.
LEMMA Records ==
  ASSUME TypeOK, IInv, NEW p \in Payment, Record(p), p.row \in rows \cup {None},
         p.row # None => \A id \in ExternalIds : ~(qbo[id] # None /\ qbo[id].row = p.row),
         NEW box, box \subseteq inbox, inbox' = box \cup {FromExternal(made + 1)},
         UNCHANGED <<rows, links>>
  PROVE  /\ made' \in 0..MaxExternal /\ qbo' \in [ExternalIds -> Payment \cup {None}]
         /\ inbox' \subseteq Event
         /\ Numbered' /\ Recorded' /\ Notified' /\ LinksKnown'
         /\ ReplicatedOnce' /\ LinkedIsWhole'
         /\ Given(made + 1, p, qbo')
         /\ \A id \in ExternalIds : qbo[id] # None => qbo'[id] = qbo[id]
         /\ \A id \in ExternalIds : qbo'[id] = qbo[id] \/ qbo'[id] = p
<1> DEFINE new == made + 1
<1>0. made \in 0..MaxExternal /\ qbo \in [ExternalIds -> Payment \cup {None}]
  BY DEF TypeOK
<1>1. /\ new \in ExternalIds /\ made' = new /\ new \in 1..MaxExternal
      /\ qbo' = [qbo EXCEPT ![new] = p] /\ p # None
  BY <1>0, Constants, Fields DEF Record, ExternalIds
<1>2. qbo[new] = None
  BY <1>0, <1>1 DEF IInv, Recorded
<1>3. /\ made' \in 0..MaxExternal /\ qbo' \in [ExternalIds -> Payment \cup {None}]
      /\ Given(new, p, qbo')
      /\ \A id \in ExternalIds : id # new => qbo'[id] = qbo[id]
      /\ qbo'[new] = p
  BY <1>0, <1>1 DEF Given
<1>4. inbox' \subseteq Event
  BY <1>1, NewRows DEF TypeOK
<1>5. Numbered'
  BY DEF IInv, Numbered, UserRows
<1>6. Recorded'
  <2> SUFFICES ASSUME NEW id \in ExternalIds
               PROVE  /\ qbo'[id] # None <=> id <= made'
                      /\ qbo'[id] # None => qbo'[id].row \in rows' \cup {None}
    BY DEF Recorded
  <2>1. CASE id = new
    BY <1>1, <1>3, <2>1
  <2>2. CASE id # new
    BY <1>0, <1>1, <1>3, <2>2 DEF IInv, Recorded, ExternalIds
  <2> QED BY <2>1, <2>2
<1>7. Notified'
  <2>0. FromExternal(new).row = None /\ FromExternal(new).id = new
    BY DEF FromExternal
  <2>1. \A e \in inbox : e.row = None => e.id \in 1..made /\ e.id # new
    BY <1>0 DEF IInv, Notified
  <2>2. \A e \in inbox' : IF e.row = None THEN e.id \in 1..made'
                                          ELSE e.id = 0 /\ e.row \in rows'
    <3> TAKE e \in inbox'
    <3>1. CASE e \in inbox
      BY <1>0, <1>1, <3>1 DEF IInv, Notified
    <3>2. CASE e = FromExternal(new)
      BY <1>0, <1>1, <2>0, <3>2
    <3> QED BY <3>1, <3>2
  <2>3. \A e, f \in inbox' : e.row = f.row /\ e.id = f.id => e = f
    BY <2>0, <2>1 DEF IInv, Notified
  <2> QED BY <2>2, <2>3 DEF Notified
<1>8. LinksKnown'
  BY <1>0, <1>1 DEF IInv, LinksKnown, TypeOK, Link, ExternalIds
<1>9. ReplicatedOnce'
  <2> SUFFICES ASSUME NEW id \in ExternalIds, NEW other \in ExternalIds,
                      qbo'[id] # None, qbo'[other] # None, qbo'[id].row # None,
                      qbo'[id].row = qbo'[other].row
               PROVE  id = other
    BY DEF ReplicatedOnce
  <2>1. CASE id # new /\ other # new
    BY <1>3, <2>1 DEF IInv, ReplicatedOnce
  <2>2. CASE id = new \/ other = new
    BY <1>3, <2>2
  <2> QED BY <2>1, <2>2
<1>10. LinkedIsWhole'
  <2> SUFFICES ASSUME NEW l \in links, qbo'[l.id].row = None
               PROVE  \A i \in ToSet(qbo'[l.id].allocs) : AppliedRow(l.id, i) \in rows
    BY DEF LinkedIsWhole
  <2>1. l.id # new /\ l.id \in ExternalIds
    BY <1>0 DEF IInv, LinksKnown, TypeOK, Link
  <2>2. qbo'[l.id] = qbo[l.id]
    BY <1>3, <2>1
  <2> QED BY <2>2 DEF IInv, LinkedIsWhole
<1> QED BY <1>2, <1>3, <1>4, <1>5, <1>6, <1>7, <1>8, <1>9, <1>10

\* Worker w has a payment recorded for its row, and knows it or never will.
LEMMA Writes ==
  ASSUME TypeOK, IInv, NEW w \in Workers, NEW t, NEW p \in Payment,
         wk[w].pc = "create", p.row = wk[w].ev.row, Record(p),
         wk' = [wk EXCEPT ![w] = t],
         NEW box, inbox' = box \cup {FromExternal(made + 1)},
         \/ /\ t = [wk[w] EXCEPT !.pc = "link", !.id = made + 1, !.p = p]
            /\ box = inbox
         \/ t = Idle /\ (box = inbox \/ box = inbox \ {wk[w].ev}),
         dead' \subseteq dead \cup {wk[w].ev}, faults' \in 0..MaxFaults,
         UNCHANGED <<stage, rows, links, divergent, entered>>
  PROVE  TypeOK' /\ IInv'
<1>0. /\ wk[w] \in Worker /\ Placed(wk[w], qbo, rows, inbox)
      /\ wk[w].ev \in Event /\ wk[w].ev \in inbox /\ wk[w].ev.row # None
      /\ wk[w].ev.row \in rows
      /\ \A id \in ExternalIds : ~(qbo[id] # None /\ qbo[id].row = wk[w].ev.row)
      /\ box \subseteq inbox
  <2>1. wk[w] \in Worker /\ Placed(wk[w], qbo, rows, inbox)
    BY DEF TypeOK, IInv
  <2>2. wk[w].ev \in inbox /\ wk[w].ev.row # None
    BY <2>1 DEF Placed
  <2> QED BY <2>1, <2>2 DEF TypeOK, Placed, IInv, Notified
<1>1. /\ made' \in 0..MaxExternal /\ qbo' \in [ExternalIds -> Payment \cup {None}]
      /\ inbox' \subseteq Event
      /\ Numbered' /\ Recorded' /\ Notified' /\ LinksKnown'
      /\ ReplicatedOnce' /\ LinkedIsWhole'
      /\ Given(made + 1, p, qbo')
      /\ \A id \in ExternalIds : qbo[id] # None => qbo'[id] = qbo[id]
      /\ \A id \in ExternalIds : qbo'[id] = qbo[id] \/ qbo'[id] = p
  BY <1>0, Records
<1>2. /\ t \in Worker /\ (t.pc # "idle" => t.ev = wk[w].ev)
      /\ (t.pc = "idle" => t.ev = None)
  <2>1. made + 1 \in 0..MaxExternal
    BY <1>1, Constants DEF Given, ExternalIds, TypeOK
  <2>2. Idle \in Worker /\ Idle.pc = "idle" /\ Idle.ev = None
    BY Constants DEF Idle, Worker, Stages
  <2>3. CASE t = [wk[w] EXCEPT !.pc = "link", !.id = made + 1, !.p = p]
    BY <1>0, <2>1, <2>3 DEF Worker, Stages
  <2> QED BY <2>2, <2>3
<1>3. TypeOK'
  BY <1>0, <1>1, <1>2 DEF TypeOK
<1>4. \A v \in Workers : Placed(wk'[v], qbo', rows', inbox')
  <2> TAKE v \in Workers
  <2>1. CASE v = w /\ t = Idle
    BY <2>1 DEF TypeOK, Placed, Idle
  <2>2. CASE v = w /\ t # Idle
    <3>1. /\ wk'[v].pc = "link" /\ wk'[v].id = made + 1 /\ wk'[v].p = p
          /\ wk'[v].ev = wk[w].ev
      BY <1>0, <2>2 DEF TypeOK, Worker
    <3>2. wk'[v].ev \in inbox'
      BY <1>0, <2>2, <3>1
    <3> QED BY <1>0, <1>1, <3>1, <3>2 DEF Placed
  <2>3. CASE v # w
    <3>1. wk'[v] = wk[v] /\ Placed(wk[v], qbo, rows, inbox)
      BY <2>3 DEF TypeOK, IInv
    <3>2. wk[v].pc # "idle" => wk[v].ev \in inbox'
      BY <2>3, <3>1 DEF Placed, IInv, Exclusive
    <3>3. ASSUME wk[v].pc = "create" PROVE wk[v].ev.row # p.row
      <4>1. wk[v].ev \in inbox /\ wk[v].ev # wk[w].ev /\ wk[v].ev.row # None
        BY <2>3, <3>1, <3>3 DEF Placed, IInv, Exclusive
      <4>2. wk[v].ev.id = wk[w].ev.id
        BY <1>0, <4>1 DEF IInv, Notified
      <4> QED BY <1>0, <4>1, <4>2 DEF IInv, Notified
    <3>4. wk[v].pc = "create" =>
            \A id \in ExternalIds : qbo'[id] = qbo[id] \/ qbo'[id].row # wk[v].ev.row
      BY <1>1, <3>3
    <3> QED BY <1>1, <3>1, <3>2, <3>4, StillPlaced
  <2> QED BY <2>1, <2>2, <2>3
<1>5. Exclusive'
  <2> SUFFICES ASSUME NEW v \in Workers, NEW u \in Workers, v # u, wk'[v].pc # "idle"
               PROVE  wk'[v].ev # wk'[u].ev
    BY DEF Exclusive
  <2>1. wk[v].pc # "idle" /\ wk'[v].ev = wk[v].ev /\ wk[v].ev \in Event
    BY <1>0, <1>2 DEF TypeOK, IInv, Placed
  <2>2. wk'[u].ev = wk[u].ev \/ wk'[u].ev = None
    BY <1>2 DEF TypeOK
  <2>3. wk[v].ev # None
    BY <2>1, Fields
  <2> QED BY <2>1, <2>2, <2>3 DEF IInv, Exclusive
<1> QED BY <1>1, <1>3, <1>4, <1>5 DEF IInv

\* The users and the invoice pipeline, who do not touch the workers.
LEMMA Unattended ==
  ASSUME TypeOK, IInv, UNCHANGED <<wk, dead, divergent, faults>>,
         stage' \in [Invoices -> {"absent", "known", "linked"}],
         entered' \in 0..MaxEntered, made' \in 0..MaxExternal,
         qbo' \in [ExternalIds -> Payment \cup {None}],
         rows' \subseteq RowsOf, inbox' \subseteq Event, links' = links,
         rows \subseteq rows', inbox \subseteq inbox',
         Numbered', Recorded', Notified', LinksKnown', ReplicatedOnce', LinkedIsWhole',
         \A id \in ExternalIds : qbo[id] # None => qbo'[id] = qbo[id],
         \A id \in ExternalIds : qbo'[id] = qbo[id] \/ qbo'[id].row = None
  PROVE  TypeOK' /\ IInv'
<1>1. TypeOK'
  BY DEF TypeOK
<1>2. \A v \in Workers : Placed(wk'[v], qbo', rows', inbox')
  <2> TAKE v \in Workers
  <2>1. Placed(wk[v], qbo, rows, inbox)
    BY DEF IInv
  <2>2. wk[v].pc # "idle" => wk[v].ev \in inbox'
    BY <2>1 DEF Placed
  <2>3. wk[v].pc = "create" => wk[v].ev.row # None
    BY <2>1 DEF Placed
  <2> QED BY <2>1, <2>2, <2>3, StillPlaced
<1>3. Exclusive'
  BY DEF Exclusive, IInv
<1> QED BY <1>1, <1>2, <1>3 DEF IInv

LEMMA EnterStep ==
  ASSUME TypeOK, IInv, NEW i \in Invoices, Enter(i) PROVE TypeOK' /\ IInv'
<1> DEFINE n == 1 + Cardinality(UserRows)
           r == UserRow(n, i)
<1>0. IsFiniteSet(UserRows) /\ Cardinality(UserRows) \in Nat
  BY FS_CardinalityType DEF IInv, Numbered
<1>1. /\ n \in 1..MaxInternal
      /\ rows' = rows \cup {r} /\ inbox' = inbox \cup {FromInternal(r)}
      /\ UNCHANGED <<stage, qbo, made, links, dead, wk, divergent, entered, faults>>
  BY <1>0, Constants DEF Enter, UserRows
<1>2. r \in RowsOf /\ FromInternal(r) \in Event /\ r.num = n /\ r # None
  BY <1>1, NewRows, Fields DEF UserRow
<1>3. r \notin rows
  BY <1>0, <1>1, <1>2 DEF IInv, Numbered, UserRows
<1> HIDE DEF n, r
<1>4. Numbered'
  <2>1. UserRows' = UserRows \cup {r}
    BY <1>1, <1>2 DEF UserRows
  <2>2. r \notin UserRows
    BY <1>3 DEF UserRows
  <2>3. IsFiniteSet(UserRows') /\ Cardinality(UserRows') = n
    BY <1>0, <2>1, <2>2, FS_AddElement DEF n
  <2>4. \A x \in UserRows : x.num <= n
    BY <1>0 DEF IInv, Numbered, n, UserRows, TypeOK, RowsOf
  <2>5. \A x \in UserRows' : x.num <= n
    BY <1>1, <1>2, <2>1, <2>4
  <2> QED BY <2>3, <2>5 DEF Numbered
<1>5. Recorded'
  BY <1>1 DEF IInv, Recorded
<1>6. Notified'
  <2>1. FromInternal(r).row = r /\ FromInternal(r).id = 0
    BY DEF FromInternal
  <2>2. \A e \in inbox : e.row # r
    BY <1>2, <1>3 DEF IInv, Notified
  <2> QED BY <1>1, <1>2, <2>1, <2>2 DEF IInv, Notified
<1>7. LinksKnown' /\ ReplicatedOnce' /\ LinkedIsWhole'
  BY <1>1 DEF IInv, LinksKnown, ReplicatedOnce, LinkedIsWhole
<1>8. rows' \subseteq RowsOf /\ inbox' \subseteq Event
  BY <1>1, <1>2 DEF TypeOK
<1>9. /\ stage' \in [Invoices -> {"absent", "known", "linked"}]
      /\ entered' \in 0..MaxEntered /\ made' \in 0..MaxExternal
      /\ qbo' \in [ExternalIds -> Payment \cup {None}]
  BY <1>1 DEF TypeOK
<1> QED BY <1>1, <1>4, <1>5, <1>6, <1>7, <1>8, <1>9, Unattended

LEMMA EnterExternalStep ==
  ASSUME TypeOK, IInv, NEW s \in Splits, EnterExternal(s) PROVE TypeOK' /\ IInv'
<1> DEFINE p == [row |-> None, allocs |-> s]
<1>1. p \in Payment /\ p.row = None
  BY ConstantsOK DEF ConstantsOK, Payment
<1>2. /\ Record(p) /\ inbox' = inbox \cup {FromExternal(made + 1)}
      /\ UNCHANGED <<stage, rows, links, dead, wk, divergent, faults>>
      /\ entered < MaxEntered /\ entered' = entered + 1
  BY DEF EnterExternal
<1> HIDE DEF p
<1>3. /\ made' \in 0..MaxExternal /\ qbo' \in [ExternalIds -> Payment \cup {None}]
      /\ inbox' \subseteq Event
      /\ Numbered' /\ Recorded' /\ Notified' /\ LinksKnown'
      /\ ReplicatedOnce' /\ LinkedIsWhole'
      /\ \A id \in ExternalIds : qbo[id] # None => qbo'[id] = qbo[id]
      /\ \A id \in ExternalIds : qbo'[id] = qbo[id] \/ qbo'[id] = p
  BY <1>1, <1>2, Records
<1>4. entered' \in 0..MaxEntered /\ rows' \subseteq RowsOf
      /\ stage' \in [Invoices -> {"absent", "known", "linked"}]
  BY <1>2, Constants DEF TypeOK
<1> QED BY <1>1, <1>2, <1>3, <1>4, Unattended

LEMMA InvoiceSyncedStep ==
  ASSUME TypeOK, IInv, NEW i \in Invoices, InvoiceSynced(i) PROVE TypeOK' /\ IInv'
<1>1. stage' \in [Invoices -> {"absent", "known", "linked"}]
  BY DEF InvoiceSynced, TypeOK
<1>2. UNCHANGED <<rows, qbo, made, links, inbox, dead, wk, divergent, entered, faults>>
  BY DEF InvoiceSynced
<1>3. /\ Numbered' /\ Recorded' /\ Notified' /\ LinksKnown' /\ ReplicatedOnce'
      /\ LinkedIsWhole'
  BY <1>2 DEF IInv, Numbered, UserRows, Recorded, Notified, LinksKnown, ReplicatedOnce,
              LinkedIsWhole
<1>4. /\ entered' \in 0..MaxEntered /\ made' \in 0..MaxExternal
      /\ qbo' \in [ExternalIds -> Payment \cup {None}]
      /\ rows' \subseteq RowsOf /\ inbox' \subseteq Event
  BY <1>2 DEF TypeOK
<1> QED BY <1>1, <1>2, <1>3, <1>4, Unattended

LEMMA ClaimStep ==
  ASSUME TypeOK, IInv, NEW w \in Workers, NEW e \in inbox, Claim(w, e) PROVE TypeOK' /\ IInv'
<1> DEFINE claimed == [e EXCEPT !.tries = IF @ < MaxAttempts THEN @ + 1 ELSE @]
           t == [Idle EXCEPT !.pc = "lookup", !.ev = claimed, !.id = e.id]
<1>1. /\ wk[w].pc = "idle" /\ \A v \in Workers : wk[v].ev # e
      /\ inbox' = (inbox \ {e}) \cup {claimed} /\ wk' = [wk EXCEPT ![w] = t]
      /\ UNCHANGED <<stage, rows, qbo, made, links, dead, divergent, entered, faults>>
  BY DEF Claim, Others
<1>2. /\ e \in Event /\ claimed \in Event /\ claimed.row = e.row /\ claimed.id = e.id
  BY Constants DEF TypeOK, Event
<1>a. e.id \in 0..MaxExternal
  BY <1>2, Fields
<1> HIDE DEF claimed
<1>3. t \in Worker /\ t.pc = "lookup" /\ t.ev = claimed /\ t.id = e.id /\ t.applied = 0
  <2>1. Idle \in Worker /\ Idle.applied = 0
    BY Constants DEF Idle, Worker, Stages
  <2> QED BY <1>2, <1>a, <2>1 DEF Worker, Stages
<1> HIDE DEF t
<1>4. TypeOK'
  BY <1>1, <1>2, <1>3 DEF TypeOK
<1>5. \A v \in Workers : Placed(wk'[v], qbo', rows', inbox')
  <2> TAKE v \in Workers
  <2>1. CASE v = w
    BY <1>1, <1>2, <1>3, <2>1 DEF TypeOK, Placed
  <2>2. CASE v # w
    <3>1. wk'[v] = wk[v] /\ Placed(wk[v], qbo, rows, inbox)
      BY <1>1, <2>2 DEF TypeOK, IInv
    <3>2. wk[v].pc # "idle" => wk[v].ev \in inbox'
      BY <1>1, <3>1 DEF Placed
    <3> QED BY <1>1, <3>1, <3>2, StillPlaced
  <2> QED BY <2>1, <2>2
<1>6. Exclusive'
  <2>1. \A v \in Workers : v # w => wk'[v] = wk[v] /\ wk[v].ev # claimed
    <3> TAKE v \in Workers
    <3> HAVE v # w
    <3>1. wk'[v] = wk[v]
      BY <1>1 DEF TypeOK
    <3>2. CASE wk[v].pc = "idle"
      BY <1>2, <3>1, <3>2, Fields DEF IInv, Placed
    <3>3. CASE wk[v].pc # "idle"
      <4>1. wk[v].ev \in inbox /\ wk[v].ev # e
        BY <1>1, <3>3 DEF IInv, Placed
      <4> QED BY <1>2, <3>1, <4>1 DEF IInv, Notified
    <3> QED BY <3>1, <3>2, <3>3
  <2>2. wk'[w].ev = claimed
    BY <1>1, <1>3 DEF TypeOK
  <2> QED BY <2>1, <2>2 DEF Exclusive, IInv
<1>7. Notified'
  BY <1>1, <1>2 DEF IInv, Notified
<1>8. Numbered' /\ Recorded' /\ LinksKnown' /\ ReplicatedOnce' /\ LinkedIsWhole'
  BY <1>1 DEF IInv, Numbered, UserRows, Recorded, LinksKnown, ReplicatedOnce, LinkedIsWhole
<1> QED BY <1>4, <1>5, <1>6, <1>7, <1>8 DEF IInv

LEMMA MakeLinkStep ==
  ASSUME TypeOK, IInv, NEW w \in Workers, MakeLink(w) PROVE TypeOK' /\ IInv'
<1> DEFINE l == [row |-> IF Internal(w) THEN wk[w].ev.row
                         ELSE AppliedRow(wk[w].id, wk[w].p.allocs[1]),
                 id  |-> wk[w].id]
           t == [wk[w] EXCEPT !.pc = "finish"]
<1>0. /\ wk[w] \in Worker /\ Placed(wk[w], qbo, rows, inbox) /\ wk[w].pc = "link"
      /\ wk[w].ev \in Event /\ wk[w].ev \in inbox
      /\ wk[w].id \in ExternalIds /\ qbo[wk[w].id] # None /\ wk[w].p = qbo[wk[w].id]
  BY DEF MakeLink, TypeOK, IInv, Placed, Given
<1>1. CASE \E o \in links : o.row = l.row \/ o.id = l.id
  <2>1. Fails(w) /\ UNCHANGED <<stage, rows, qbo, made, links, divergent, faults, entered>>
    BY <1>1 DEF MakeLink, Others
  <2>2. /\ wk' = [wk EXCEPT ![w] = Idle] /\ dead' \subseteq dead \cup {wk[w].ev}
        /\ inbox' = inbox \/ inbox' = inbox \ {wk[w].ev}
    BY <2>1 DEF Fails, DeadLetters
  <2>3. divergent' \subseteq RowsOf /\ faults' \in 0..MaxFaults
    BY <2>1 DEF TypeOK
  <2> QED BY <1>0, <2>1, <2>2, <2>3, Leaves
<1>2. CASE ~\E o \in links : o.row = l.row \/ o.id = l.id
  <2>1. /\ links' = links \cup {l} /\ wk' = [wk EXCEPT ![w] = t]
        /\ UNCHANGED <<stage, rows, qbo, made, inbox, dead, divergent, faults, entered>>
    BY <1>0, <1>2 DEF MakeLink, Others, Goes, TypeOK
  <2>2. /\ t \in Worker /\ t.pc = "finish" /\ t.ev = wk[w].ev
        /\ Placed(t, qbo, rows, inbox)
    BY <1>0 DEF Worker, Stages, Placed
  <2>3. l \in Link /\ l.id = wk[w].id
    <3>1. l.row \in RowsOf
      <4>1. CASE Internal(w)
        BY <1>0, <4>1, Fields DEF Internal
      <4>2. CASE ~Internal(w)
        <5>1. wk[w].p.allocs \in Allocations /\ Len(wk[w].p.allocs) > 0
          BY <1>0, <4>2, Fields DEF Internal, Placed, TypeOK
        <5>2. wk[w].p.allocs[1] \in Invoices
          BY <5>1, AllocationsAreShort
        <5> QED BY <1>0, <4>2, <5>2, NewRows
      <4> QED BY <4>1, <4>2
    <3> QED BY <1>0, <3>1 DEF Link
  <2>4. qbo[l.id].row = None => \A i \in ToSet(qbo[l.id].allocs) : AppliedRow(l.id, i) \in rows
    <3> HAVE qbo[l.id].row = None
    <3>1. wk[w].ev.row = None
      BY <1>0, <2>3 DEF Placed
    <3>2. AppliedUpTo(Len(wk[w].p.allocs), wk[w].id, wk[w].p.allocs, rows)
      BY <1>0, <3>1 DEF Placed
    <3>3. wk[w].p.allocs \in Allocations
      BY <1>0, Fields DEF TypeOK
    <3>4. ToSet(wk[w].p.allocs) = {wk[w].p.allocs[n] : n \in 1..Len(wk[w].p.allocs)}
      BY <3>3, ToSetOf
    <3> QED BY <1>0, <2>3, <3>2, <3>4 DEF AppliedUpTo
  <2>5. l.id <= made
    BY <1>0, <2>3 DEF IInv, Recorded
  <2> HIDE DEF l, t
  <2>6. TypeOK'
    BY <2>1, <2>2, <2>3 DEF TypeOK
  <2>7. \A v \in Workers : Placed(wk'[v], qbo', rows', inbox')
    BY <2>1, <2>2 DEF TypeOK, IInv
  <2>8. Exclusive'
    BY <1>0, <2>1, <2>2 DEF TypeOK, IInv, Exclusive
  <2>9. LinksKnown' /\ LinkedIsWhole'
    BY <2>1, <2>4, <2>5 DEF IInv, LinksKnown, LinkedIsWhole
  <2>10. Numbered' /\ Recorded' /\ Notified' /\ ReplicatedOnce'
    BY <2>1 DEF IInv, Numbered, UserRows, Recorded, Notified, ReplicatedOnce
  <2> QED BY <2>6, <2>7, <2>8, <2>9, <2>10 DEF IInv
<1> QED BY <1>1, <1>2

\* Every step keeps the types and the invariant.
LEMMA InductiveStep ==
  ASSUME TypeOK, IInv, [Next]_vars PROVE TypeOK' /\ IInv'
<1>0. \A w \in Workers :
        /\ wk[w] \in Worker /\ Placed(wk[w], qbo, rows, inbox)
        /\ wk[w].pc # "idle" => wk[w].ev \in Event /\ wk[w].ev \in inbox
  BY DEF TypeOK, IInv, Placed
<1>a. \A w \in Workers : Done(w) \/ Fails(w) \/ DeadLetters(w) =>
        /\ wk' = [wk EXCEPT ![w] = Idle] /\ dead' \subseteq dead \cup {wk[w].ev}
        /\ inbox' = inbox \/ inbox' = inbox \ {wk[w].ev}
  BY DEF Done, Fails, DeadLetters
<1>b. divergent \subseteq RowsOf /\ faults \in 0..MaxFaults /\ rows \subseteq RowsOf
  BY DEF TypeOK
<1>c. \A f : Fault(f) => faults' \in 0..MaxFaults
  BY <1>b, Constants DEF Fault
<1>d. ASSUME NEW w \in Workers, wk[w].pc # "idle", Done(w) \/ Fails(w) \/ DeadLetters(w),
             divergent' \subseteq RowsOf, faults' \in 0..MaxFaults,
             UNCHANGED <<stage, rows, qbo, made, links, entered>>
      PROVE  TypeOK' /\ IInv'
  BY <1>a, <1>d, Leaves
<1>e. ASSUME NEW w \in Workers, wk[w].pc # "idle", NEW t \in Worker, t.ev = wk[w].ev,
             wk' = [wk EXCEPT ![w] = t], Placed(t, qbo, rows, inbox),
             UNCHANGED <<stage, rows, qbo, made, links, inbox, dead, divergent, entered, faults>>
      PROVE  TypeOK' /\ IInv'
  <2>1. rows' \subseteq RowsOf /\ rows \subseteq rows' /\ rows' \ rows = {}
    BY <1>b, <1>e
  <2> QED BY <1>e, <2>1, Moves
<1>f. ASSUME NEW w \in Workers, NEW pc \in Stages \ {"idle"}, wk[w].pc # "idle", Goes(w, pc),
             Placed([wk[w] EXCEPT !.pc = pc], qbo, rows, inbox),
             UNCHANGED <<stage, rows, qbo, made, links, inbox, dead, divergent, entered, faults>>
      PROVE  TypeOK' /\ IInv'
  <2> DEFINE t == [wk[w] EXCEPT !.pc = pc]
  <2>1. t \in Worker /\ t.ev = wk[w].ev
    BY <1>0 DEF Worker
  <2>2. wk' = [wk EXCEPT ![w] = t]
    BY <1>f DEF Goes, TypeOK
  <2> HIDE DEF t
  <2>3. Placed(t, qbo, rows, inbox)
    BY <1>f DEF t
  <2> QED BY <1>e, <1>f, <2>1, <2>2, <2>3
<1>1. ASSUME NEW w \in Workers, Lookup(w) PROVE TypeOK' /\ IInv'
  <2>1. CASE Done(w)
    BY <1>1, <1>b, <1>d, <2>1 DEF Lookup, Others
  <2>2. CASE Internal(w) /\ Goes(w, "invoice") /\ UNCHANGED <<inbox, dead>>
    <3>1. Placed([wk[w] EXCEPT !.pc = "invoice"], qbo, rows, inbox)
      BY <1>0, <1>1, <2>2 DEF Lookup, Placed, Internal, Worker
    <3> QED BY <1>1, <1>f, <2>2, <3>1 DEF Lookup, Others, Stages
  <2>3. CASE ~Internal(w) /\ Goes(w, "read") /\ UNCHANGED <<inbox, dead>>
    <3>1. Placed([wk[w] EXCEPT !.pc = "read"], qbo, rows, inbox)
      BY <1>0, <1>1, <2>3 DEF Lookup, Placed, Internal, Worker
    <3> QED BY <1>1, <1>f, <2>3, <3>1 DEF Lookup, Others, Stages
  <2> QED BY <1>1, <2>1, <2>2, <2>3 DEF Lookup
<1>2. ASSUME NEW w \in Workers, InvoiceLink(w) PROVE TypeOK' /\ IInv'
  <2>1. CASE Fails(w)
    BY <1>2, <1>b, <1>d, <2>1 DEF InvoiceLink, Others
  <2>2. CASE Goes(w, "find") /\ UNCHANGED <<inbox, dead>>
    <3>1. Placed([wk[w] EXCEPT !.pc = "find"], qbo, rows, inbox)
      BY <1>0, <1>2 DEF InvoiceLink, Placed, Worker
    <3> QED BY <1>2, <1>f, <2>2, <3>1 DEF InvoiceLink, Others, Stages
  <2> QED BY <1>2, <2>1, <2>2 DEF InvoiceLink
<1>3. ASSUME NEW w \in Workers, Find(w) PROVE TypeOK' /\ IInv'
  <2>1. ASSUME NEW id \in ExternalIds, Found(w, id),
               wk' = [wk EXCEPT ![w] = [@ EXCEPT !.pc = "link", !.id = id, !.p = qbo[id]]]
        PROVE  TypeOK' /\ IInv'
    <3> DEFINE t == [wk[w] EXCEPT !.pc = "link", !.id = id, !.p = qbo[id]]
    <3>1. t \in Worker /\ t.ev = wk[w].ev /\ Placed(t, qbo, rows, inbox)
      <4>1. id \in 0..MaxExternal /\ qbo[id] \in Payment
        BY <2>1, Constants DEF ExternalIds, TypeOK, Found
      <4> QED BY <1>0, <1>3, <2>1, <4>1 DEF Find, Found, Placed, Given, Worker, Stages
    <3>2. wk' = [wk EXCEPT ![w] = t]
      BY <2>1 DEF TypeOK
    <3> HIDE DEF t
    <3> QED BY <1>3, <1>e, <3>1, <3>2 DEF Find, Others
  <2>2. CASE (\A id \in ExternalIds : ~Found(w, id)) /\ Goes(w, "create")
    <3>1. Placed([wk[w] EXCEPT !.pc = "create"], qbo, rows, inbox)
      BY <1>0, <1>3, <2>2 DEF Find, Found, Placed, Worker
    <3> QED BY <1>3, <1>f, <2>2, <3>1 DEF Find, Others, Stages
  <2> QED BY <1>3, <2>1, <2>2 DEF Find
<1>4. ASSUME NEW w \in Workers, wk[w].pc = "create" PROVE \A s \in Stored :
        /\ [row |-> wk[w].ev.row, allocs |-> s] \in Payment
        /\ [row |-> wk[w].ev.row, allocs |-> s].row = wk[w].ev.row
  BY <1>0, <1>4, ConstantsOK, Fields DEF ConstantsOK, Payment
<1>5. ASSUME NEW w \in Workers, Create(w) PROVE TypeOK' /\ IInv'
  <2>1. PICK s \in Stored :
          /\ Record([row |-> wk[w].ev.row, allocs |-> s])
          /\ wk' = [wk EXCEPT ![w] = [@ EXCEPT !.pc = "link", !.id = made + 1,
                                      !.p = [row |-> wk[w].ev.row, allocs |-> s]]]
    BY <1>5 DEF Create
  <2> DEFINE p == [row |-> wk[w].ev.row, allocs |-> s]
             t == [wk[w] EXCEPT !.pc = "link", !.id = made + 1, !.p = p]
  <2>2. p \in Payment /\ p.row = wk[w].ev.row
    BY <1>4, <1>5 DEF Create
  <2>3. wk' = [wk EXCEPT ![w] = t] /\ Record(p)
    BY <2>1 DEF TypeOK
  <2> HIDE DEF p
  <2>4. t = [wk[w] EXCEPT !.pc = "link", !.id = made + 1, !.p = p]
    OBVIOUS
  <2> HIDE DEF t
  <2> QED BY <1>5, <1>b, <2>2, <2>3, <2>4, Writes DEF Create, Others
<1>6. ASSUME NEW w \in Workers, TimesOut(w) PROVE TypeOK' /\ IInv'
  <2>1. PICK s \in Stored : Record([row |-> wk[w].ev.row, allocs |-> s])
    BY <1>6 DEF TimesOut
  <2> DEFINE p == [row |-> wk[w].ev.row, allocs |-> s]
  <2>2. p \in Payment /\ p.row = wk[w].ev.row /\ Record(p)
    BY <1>4, <1>6, <2>1 DEF TimesOut
  <2> HIDE DEF p
  <2>3. /\ \E box : /\ box \in {inbox, inbox \ {wk[w].ev}}
                     /\ inbox' = box \cup {FromExternal(made + 1)}
        /\ dead' \subseteq dead \cup {wk[w].ev}
        /\ wk' = [wk EXCEPT ![w] = Idle] /\ wk[w].pc = "create"
        /\ UNCHANGED <<stage, rows, links, divergent, entered>>
    BY <1>6 DEF TimesOut, Others
  <2>5. faults' \in 0..MaxFaults
    BY <1>6, <1>c DEF TimesOut
  <2> QED BY <2>2, <2>3, <2>5, Writes
<1>7. ASSUME NEW w \in Workers, Read(w) PROVE TypeOK' /\ IInv'
  <2>0. /\ wk[w].pc = "read" /\ wk[w].ev.row = None /\ wk[w].id = wk[w].ev.id
        /\ wk[w].id \in ExternalIds /\ qbo[wk[w].id] # None /\ qbo[wk[w].id] \in Payment
    <3>1. wk[w].pc = "read" /\ wk[w].ev.row = None /\ wk[w].id = wk[w].ev.id
      BY <1>0, <1>7 DEF Read, Placed
    <3>2. wk[w].id \in 1..made /\ made \in 0..MaxExternal
      BY <1>0, <3>1 DEF IInv, Notified, TypeOK
    <3>3. wk[w].id \in ExternalIds /\ wk[w].id <= made
      BY <3>2, Constants DEF ExternalIds
    <3> QED BY <3>1, <3>3 DEF IInv, Recorded, TypeOK
  <2>1. CASE Done(w)
    BY <1>7, <1>b, <1>d, <2>0, <2>1 DEF Read, Others
  <2>2. CASE /\ qbo[wk[w].id].allocs # <<>>
             /\ wk' = [wk EXCEPT ![w] = [@ EXCEPT !.pc = "resolve", !.p = qbo[wk[w].id]]]
             /\ UNCHANGED <<inbox, dead>>
    <3> DEFINE t == [wk[w] EXCEPT !.pc = "resolve", !.p = qbo[wk[w].id]]
    <3>1. Len(qbo[wk[w].id].allocs) > 0
      <4>1. qbo[wk[w].id].allocs \in Seq(Invoices)
        BY <2>0, Fields, AllocationsAreShort
      <4> QED BY <2>2, <4>1
    <3>2. t \in Worker /\ t.ev = wk[w].ev /\ Placed(t, qbo, rows, inbox)
      BY <1>0, <2>0, <3>1 DEF Placed, Given, Worker, Stages
    <3>3. wk' = [wk EXCEPT ![w] = t]
      BY <2>2 DEF TypeOK
    <3> HIDE DEF t
    <3> QED BY <1>7, <1>e, <2>0, <2>2, <3>2, <3>3 DEF Read, Others
  <2> QED BY <1>7, <2>1, <2>2 DEF Read
<1>8. ASSUME NEW w \in Workers, Resolve(w) PROVE TypeOK' /\ IInv'
  <2>1. CASE Fails(w)
    BY <1>8, <1>b, <1>d, <2>1 DEF Resolve, Others
  <2>2. CASE Goes(w, "apply") /\ UNCHANGED <<inbox, dead>>
    <3>1. Placed([wk[w] EXCEPT !.pc = "apply"], qbo, rows, inbox)
      <4>1. AppliedUpTo(0, wk[w].id, wk[w].p.allocs, rows)
        BY DEF AppliedUpTo
      <4> QED BY <1>0, <1>8, <4>1 DEF Resolve, Placed, Worker
    <3> QED BY <1>8, <1>f, <2>2, <3>1 DEF Resolve, Others, Stages
  <2> QED BY <1>8, <2>1, <2>2 DEF Resolve
<1>9. ASSUME NEW w \in Workers, Apply(w) PROVE TypeOK' /\ IInv'
  <2> DEFINE n == wk[w].applied + 1
             r == AppliedRow(wk[w].id, wk[w].p.allocs[n])
             t == [wk[w] EXCEPT !.applied = n,
                     !.pc = IF n = Len(wk[w].p.allocs) THEN "link" ELSE "apply"]
  <2>0. /\ wk[w].pc = "apply" /\ wk[w].ev.row = None
        /\ Given(wk[w].id, wk[w].p, qbo) /\ wk[w].p \in Payment
        /\ wk[w].applied \in Nat /\ wk[w].applied < Len(wk[w].p.allocs)
        /\ AppliedUpTo(wk[w].applied, wk[w].id, wk[w].p.allocs, rows)
    BY <1>0, <1>9 DEF Apply, Placed, Given, TypeOK, Worker
  <2>1. /\ Len(wk[w].p.allocs) \in 0..2 /\ n \in 1..Len(wk[w].p.allocs)
        /\ wk[w].p.allocs[n] \in Invoices
    BY <2>0, Fields, AllocationsAreShort
  <2>2. r \in RowsOf /\ r.num = 0
    BY <2>0, <2>1, NewRows DEF Given
  <2>3. rows' = rows \cup {r}
    BY <1>9 DEF Apply
  <2>4. AppliedUpTo(n, wk[w].id, wk[w].p.allocs, rows')
    BY <2>0, <2>1, <2>3 DEF AppliedUpTo
  <2>5. wk' = [wk EXCEPT ![w] = t]
    BY <1>9 DEF Apply, TypeOK
  <2>a. n \in 0..2
    BY <2>0, <2>1
  <2> DEFINE pc == IF n = Len(wk[w].p.allocs) THEN "link" ELSE "apply"
  <2>b. pc \in Stages
    BY DEF Stages
  <2> HIDE DEF r, n
  <2>6. /\ t \in Worker /\ t.ev = wk[w].ev /\ t.pc = pc
        /\ t.applied = n /\ t.id = wk[w].id /\ t.p = wk[w].p
    BY <1>0, <2>a, <2>b DEF Worker
  <2> HIDE DEF t
  <2>7. Placed(t, qbo, rows', inbox)
    BY <1>0, <2>0, <2>1, <2>4, <2>6 DEF Placed
  <2>8. rows \subseteq rows' /\ rows' \subseteq RowsOf /\ \A x \in rows' \ rows : x.num = 0
    BY <1>b, <2>2, <2>3
  <2> QED BY <1>9, <2>0, <2>5, <2>6, <2>7, <2>8, Moves DEF Apply, Others
<1>10. ASSUME NEW w \in Workers, Finish(w) PROVE TypeOK' /\ IInv'
  <2>1. divergent' \subseteq RowsOf
    BY <1>0, <1>10, <1>b, Fields DEF Finish, IsDivergent, Internal
  <2> QED BY <1>10, <1>b, <1>d, <2>1 DEF Finish, Others
<1>11. ASSUME NEW w \in Workers, Crash(w) PROVE TypeOK' /\ IInv'
  BY <1>11, <1>b, <1>c, Leaves DEF Crash, Others
<1>12. ASSUME NEW w \in Workers, ProviderFails(w) PROVE TypeOK' /\ IInv'
  BY <1>12, <1>b, <1>c, <1>d DEF ProviderFails, Others
<1>13. CASE UNCHANGED vars
  BY <1>13 DEF vars, TypeOK, IInv, Numbered, UserRows, Recorded, Notified, Exclusive,
               LinksKnown, ReplicatedOnce, LinkedIsWhole
<1> QED
  BY <1>1, <1>2, <1>3, <1>5, <1>6, <1>7, <1>8, <1>9, <1>10, <1>11, <1>12, <1>13,
     EnterStep, EnterExternalStep, InvoiceSyncedStep, ClaimStep, MakeLinkStep
  DEF Next, Step

LEMMA InitOK == Init => TypeOK /\ IInv
<1> SUFFICES ASSUME Init PROVE TypeOK /\ IInv
  OBVIOUS
<1>1. Idle \in Worker /\ Idle.pc = "idle" /\ Idle.ev = None
  BY Constants DEF Idle, Worker, Stages
<1>2. TypeOK
  BY <1>1, Constants DEF Init, TypeOK
<1>3. Numbered
  <2>1. UserRows = {}
    BY DEF Init, UserRows
  <2> QED BY <2>1, FS_EmptySet DEF Numbered
<1>4. Recorded
  BY DEF Init, Recorded, ExternalIds
<1>5. \A w \in Workers : wk[w] = Idle
  BY DEF Init
<1>6. \A w \in Workers : Placed(wk[w], qbo, rows, inbox)
  BY <1>1, <1>5 DEF Placed
<1>7. Exclusive
  BY <1>1, <1>5 DEF Exclusive
<1>8. Notified /\ LinksKnown /\ ReplicatedOnce /\ LinkedIsWhole
  BY DEF Init, Notified, LinksKnown, ReplicatedOnce, LinkedIsWhole
<1> QED BY <1>2, <1>3, <1>4, <1>6, <1>7, <1>8 DEF IInv

LEMMA Inductive == Spec => [](TypeOK /\ IInv)
<1>1. TypeOK /\ IInv /\ [Next]_vars => (TypeOK /\ IInv)'
  BY InductiveStep
<1> QED BY <1>1, InitOK, PTL DEF Spec

\* Every reachable state is well typed.
THEOREM PaymentTypes == Spec => []TypeOK
  BY Inductive, PTL

\* A payment entered internally has one counterpart in the accounting system at
\* most, however many workers process it, and whatever fails or is not answered.
THEOREM NeverTwice == Spec => []ReplicatedOnce
<1>1. IInv => ReplicatedOnce
  BY DEF IInv
<1> QED BY <1>1, Inductive, PTL

\* The link of a payment of the accounting system is made last: all its
\* allocations have been applied.
THEOREM LinkedLast == Spec => []LinkedIsWhole
<1>1. IInv => LinkedIsWhole
  BY DEF IInv
<1> QED BY <1>1, Inductive, PTL

-----------------------------------------------------------------------------
(* Divergent payments *)

\* The worker that has made the link of a divergent payment has yet to audit it.
AuditedOrDue ==
  \A l \in links :
    l.row.num > 0 /\ ~Whole(qbo[l.id].allocs, l.row.inv) =>
      \/ l.row \in divergent
      \/ \E w \in Workers : wk[w].pc = "finish" /\ wk[w].ev.row = l.row /\ wk[w].id = l.id

\* Without crashes a worker leaves "finish" by auditing the payment.
LEMMA AuditStep ==
  ASSUME "crash" \notin Faults, TypeOK, IInv, AuditedOrDue, [Next]_vars
  PROVE  AuditedOrDue'
<1>0. /\ \A w \in Workers : wk[w] \in Worker /\ Placed(wk[w], qbo, rows, inbox)
      /\ made \in Nat
      /\ \A l \in links : l.id \in ExternalIds /\ l.id <= made /\ l.row \in RowsOf
  BY DEF TypeOK, IInv, LinksKnown, Link
<1>1. \A l \in links : qbo'[l.id] = qbo[l.id]
  <2>1. ASSUME NEW p, Record(p) PROVE \A l \in links : qbo'[l.id] = qbo[l.id]
    BY <1>0, <2>1 DEF Record, TypeOK
  <2>2. CASE qbo' = qbo
    BY <2>2
  <2> QED
    BY <2>1, <2>2 DEF Next, Step, vars, Enter, EnterExternal, InvoiceSynced, Claim, Lookup,
       InvoiceLink, Find, Create, Read, Resolve, Apply, MakeLink, Finish, Crash,
       ProviderFails, TimesOut
<1>2. ASSUME links' = links, divergent \subseteq divergent',
             \A w \in Workers : wk[w].pc = "finish" => wk'[w] = wk[w]
      PROVE  AuditedOrDue'
  BY <1>1, <1>2 DEF AuditedOrDue
<1>3. ASSUME NEW w \in Workers, wk[w].pc # "finish", links' = links, divergent' = divergent,
             \E t : wk' = [wk EXCEPT ![w] = t]
      PROVE  AuditedOrDue'
  <2>1. \A v \in Workers : wk[v].pc = "finish" => wk'[v] = wk[v]
    BY <1>3 DEF TypeOK
  <2> QED BY <1>2, <1>3, <2>1
<1>4. ASSUME NEW w \in Workers, Done(w) \/ Fails(w) \/ DeadLetters(w)
      PROVE  \E t : wk' = [wk EXCEPT ![w] = t]
  BY <1>4 DEF Done, Fails, DeadLetters
<1>5. ASSUME NEW w \in Workers, NEW pc, Goes(w, pc) PROVE \E t : wk' = [wk EXCEPT ![w] = t]
  BY <1>5 DEF Goes
<1>6. ASSUME NEW w \in Workers, NEW e \in inbox, Claim(w, e) PROVE AuditedOrDue'
  BY <1>3, <1>6 DEF Claim
<1>7. ASSUME NEW w \in Workers, Lookup(w) PROVE AuditedOrDue'
  BY <1>3, <1>4, <1>5, <1>7 DEF Lookup
<1>8. ASSUME NEW w \in Workers, InvoiceLink(w) PROVE AuditedOrDue'
  BY <1>3, <1>4, <1>5, <1>8 DEF InvoiceLink
<1>9. ASSUME NEW w \in Workers, Find(w) PROVE AuditedOrDue'
  BY <1>3, <1>5, <1>9 DEF Find
<1>10. ASSUME NEW w \in Workers, Create(w) PROVE AuditedOrDue'
  BY <1>3, <1>10 DEF Create
<1>11. ASSUME NEW w \in Workers, Read(w) PROVE AuditedOrDue'
  BY <1>3, <1>4, <1>11 DEF Read
<1>12. ASSUME NEW w \in Workers, Resolve(w) PROVE AuditedOrDue'
  BY <1>3, <1>4, <1>5, <1>12 DEF Resolve
<1>13. ASSUME NEW w \in Workers, Apply(w) PROVE AuditedOrDue'
  BY <1>3, <1>13 DEF Apply
<1>14. ASSUME NEW w \in Workers, MakeLink(w) PROVE AuditedOrDue'
  <2>1. CASE Fails(w) /\ UNCHANGED links
    BY <1>3, <1>4, <1>14, <2>1 DEF MakeLink
  <2>2. ASSUME NEW l, l = [row |-> IF Internal(w) THEN wk[w].ev.row
                                   ELSE AppliedRow(wk[w].id, wk[w].p.allocs[1]),
                           id  |-> wk[w].id],
               links' = links \cup {l}, Goes(w, "finish")
        PROVE  AuditedOrDue'
    <3>0. \A v \in Workers : wk[v].pc = "finish" => wk'[v] = wk[v]
      BY <1>14, <2>2 DEF MakeLink, Goes, TypeOK
    <3>1. \A k \in links : k.row.num > 0 /\ ~Whole(qbo'[k.id].allocs, k.row.inv) =>
            \/ k.row \in divergent'
            \/ \E v \in Workers : wk'[v].pc = "finish" /\ wk'[v].ev.row = k.row /\ wk'[v].id = k.id
      BY <1>1, <1>14, <3>0 DEF AuditedOrDue, MakeLink
    <3>2. /\ wk'[w].pc = "finish" /\ wk'[w].ev.row = wk[w].ev.row /\ wk'[w].id = l.id
      BY <1>0, <2>2 DEF Goes, TypeOK, Worker
    <3>3. l.row.num > 0 => l.row = wk[w].ev.row
      BY <2>2 DEF AppliedRow
    <3> QED BY <2>2, <3>1, <3>2, <3>3 DEF AuditedOrDue
  <2> QED BY <1>14, <2>1, <2>2 DEF MakeLink
<1>15. ASSUME NEW w \in Workers, Finish(w) PROVE AuditedOrDue'
  <2> SUFFICES ASSUME NEW l \in links, l.row.num > 0,
                      ~Whole(qbo[l.id].allocs, l.row.inv), l.row \notin divergent,
                      NEW v \in Workers,
                      wk[v].pc = "finish", wk[v].ev.row = l.row, wk[v].id = l.id
               PROVE  \/ l.row \in divergent'
                      \/ \E u \in Workers : /\ wk'[u].pc = "finish" /\ wk'[u].ev.row = l.row
                                            /\ wk'[u].id = l.id
    BY <1>1, <1>15 DEF AuditedOrDue, Finish
  <2>1. CASE v # w
    BY <1>15, <2>1 DEF Finish, Done, TypeOK
  <2>2. CASE v = w
    <3>1. wk[w].p = qbo[l.id] /\ l.row # None
      BY <1>0, <2>2, Fields DEF Placed, Given
    <3>2. IsDivergent(w)
      BY <2>2, <3>1 DEF IsDivergent, Internal
    <3> QED BY <1>15, <2>2, <3>2 DEF Finish
  <2> QED BY <2>1, <2>2
<1>16. ASSUME NEW w \in Workers, Crash(w) PROVE FALSE
  BY <1>16 DEF Crash, Fault
<1>17. ASSUME NEW w \in Workers, ProviderFails(w) PROVE AuditedOrDue'
  BY <1>3, <1>4, <1>17 DEF ProviderFails
<1>18. ASSUME NEW w \in Workers, TimesOut(w) PROVE AuditedOrDue'
  BY <1>3, <1>18 DEF TimesOut, Others
<1>19. CASE \/ \E i \in Invoices : Enter(i) \/ InvoiceSynced(i)
            \/ \E s \in Splits : EnterExternal(s)
            \/ UNCHANGED vars
  BY <1>2, <1>19 DEF Enter, InvoiceSynced, EnterExternal, vars
<1> QED
  BY <1>6, <1>7, <1>8, <1>9, <1>10, <1>11, <1>12, <1>13, <1>14, <1>15, <1>16, <1>17, <1>18,
     <1>19 DEF Next, Step

\* While no worker dies between the link and the audit row, the audit log has
\* every payment whose money was put elsewhere.
THEOREM DivergenceIsAudited ==
  ASSUME "crash" \notin Faults PROVE Spec => []DivergenceAudited
<1>1. Init => AuditedOrDue
  BY DEF Init, AuditedOrDue
<1>2. TypeOK /\ IInv /\ AuditedOrDue /\ [Next]_vars => AuditedOrDue'
  BY AuditStep
<1>3. TypeOK /\ IInv /\ AuditedOrDue => DivergenceAudited
  <2> SUFFICES ASSUME TypeOK, IInv, AuditedOrDue, NEW l \in links,
                      l.row.num > 0, ~Whole(qbo[l.id].allocs, l.row.inv),
                      \A w \in Workers : wk[w].ev = None \/ wk[w].ev.row # l.row
               PROVE  l.row \in divergent
    BY DEF DivergenceAudited
  <2>1. ASSUME NEW w \in Workers, wk[w].pc = "finish" PROVE wk[w].ev # None
    <3>1. wk[w].ev \in inbox
      BY <2>1 DEF IInv, Placed
    <3> QED BY <3>1, Fields DEF TypeOK
  <2> QED BY <2>1 DEF AuditedOrDue
<1> QED BY <1>1, <1>2, <1>3, Inductive, PTL DEF Spec

-----------------------------------------------------------------------------
(* Copies that come back *)

\* One worker, and every write it makes is answered: what the loop guard, the
\* link of the copy, takes for granted.
Orderly ==
  /\ Faults \cap {"crash", "timeout"} = {}
  /\ \A v, w \in Workers : v = w

\* The payment with this id is the copy of an internal one.
Copy(id) == qbo[id] # None /\ qbo[id].row # None

\* A copy is linked, or its worker is about to link it and nothing will stop
\* it; whoever takes up an external payment found it to be no copy.
Mirrored ==
  /\ \A id \in ExternalIds : Copy(id) =>
       \/ \E l \in links : l.id = id
       \/ \E w \in Workers : wk[w].pc = "link" /\ wk[w].id = id
  /\ \A l \in links : Copy(l.id) => l.row = qbo[l.id].row
  /\ \A w \in Workers : wk[w].pc \in {"invoice", "find", "create"} =>
       \A l \in links : l.row # wk[w].ev.row
  /\ \A w \in Workers : wk[w].pc = "link" /\ wk[w].ev.row # None =>
       \A l \in links : l.row # wk[w].ev.row /\ l.id # wk[w].id
  /\ \A w \in Workers : wk[w].pc \in {"read", "resolve", "apply", "link"} /\ wk[w].ev.row = None =>
       ~Copy(wk[w].id)
  /\ \A r \in rows : r.ref <= made
  /\ NoDoubleCount

\* The same for the only worker t, in terms of what a step changes.
LEMMA OneMirrors ==
  ASSUME TypeOK, IInv, Mirrored, NEW w \in Workers, \A v \in Workers : v = w, NEW t,
         wk' = [wk EXCEPT ![w] = t], UNCHANGED <<qbo, made, links>>,
         rows \subseteq rows', \A r \in rows' \ rows : r.ref <= made /\ ~Copy(r.ref),
         wk[w].pc # "link",
         t.pc \in {"invoice", "find", "create"} => \A l \in links : l.row # t.ev.row,
         t.pc = "link" /\ t.ev.row # None =>
           \A l \in links : l.row # t.ev.row /\ l.id # t.id,
         t.pc \in {"read", "resolve", "apply", "link"} /\ t.ev.row = None => ~Copy(t.id)
  PROVE  Mirrored'
<1>1. wk'[w] = t
  BY DEF TypeOK
<1>2. \A id : Copy(id)' <=> Copy(id)
  BY DEF Copy
<1>3. (\A id \in ExternalIds : Copy(id) =>
         \/ \E l \in links : l.id = id
         \/ \E v \in Workers : wk[v].pc = "link" /\ wk[v].id = id)'
  BY <1>2 DEF Mirrored
<1>4. (\A l \in links : Copy(l.id) => l.row = qbo[l.id].row)'
  BY <1>2 DEF Mirrored
<1>5. (\A v \in Workers :
         /\ wk[v].pc \in {"invoice", "find", "create"} => \A l \in links : l.row # wk[v].ev.row
         /\ wk[v].pc = "link" /\ wk[v].ev.row # None =>
              \A l \in links : l.row # wk[v].ev.row /\ l.id # wk[v].id
         /\ wk[v].pc \in {"read", "resolve", "apply", "link"} /\ wk[v].ev.row = None =>
              ~Copy(wk[v].id))'
  BY <1>1, <1>2
<1>6. (\A r \in rows : r.ref <= made)'
  <2> SUFFICES ASSUME NEW r \in rows' PROVE r.ref <= made
    OBVIOUS
  <2>1. CASE r \in rows
    BY <2>1 DEF Mirrored
  <2>2. CASE r \in rows' \ rows
    BY <2>2
  <2> QED BY <2>1, <2>2
<1>7. NoDoubleCount'
  <2> SUFFICES ASSUME NEW id \in ExternalIds, Copy(id), NEW r \in rows', r.ref = id
               PROVE  FALSE
    BY <1>2 DEF NoDoubleCount, Copy
  <2>1. CASE r \in rows
    BY <2>1 DEF Mirrored, NoDoubleCount, Copy
  <2>2. CASE r \in rows' \ rows
    BY <2>2
  <2> QED BY <2>1, <2>2
<1> QED BY <1>3, <1>4, <1>5, <1>6, <1>7 DEF Mirrored

LEMMA MirrorStep ==
  ASSUME Orderly, TypeOK, IInv, Mirrored, [Next]_vars PROVE Mirrored'
<1>0. /\ \A w \in Workers : wk[w] \in Worker /\ Placed(wk[w], qbo, rows, inbox)
      /\ \A w \in Workers : wk[w].pc # "idle" => wk[w].ev \in Event /\ wk[w].ev \in inbox
      /\ made \in Nat
      /\ \A id \in ExternalIds : id \in Nat /\ (qbo[id] # None <=> id <= made)
      /\ \A l \in links : l.id \in ExternalIds /\ l.id <= made /\ l.row \in RowsOf
      /\ \A w, v \in Workers : v = w
  BY DEF TypeOK, IInv, LinksKnown, Link, Placed, Recorded, ExternalIds, Orderly
<1>e. \A w \in Workers : wk[w].pc # "idle" /\ wk[w].ev.row = None => wk[w].id \in ExternalIds
  <2> SUFFICES ASSUME NEW w \in Workers, wk[w].pc # "idle", wk[w].ev.row = None
               PROVE  wk[w].id \in ExternalIds
    OBVIOUS
  <2>1. wk[w].id = wk[w].ev.id /\ wk[w].ev \in inbox
    BY <1>0 DEF Placed
  <2>2. wk[w].id \in 1..made /\ made \in 0..MaxExternal
    BY <2>1 DEF IInv, Notified, TypeOK
  <2> QED BY <2>2, Constants DEF ExternalIds
<1>a. \A w \in Workers : Done(w) \/ Fails(w) \/ DeadLetters(w) => wk' = [wk EXCEPT ![w] = Idle]
  BY DEF Done, Fails, DeadLetters
<1>b. Idle.pc = "idle"
  BY DEF Idle
<1>c. ASSUME NEW w \in Workers, Done(w) \/ Fails(w) \/ DeadLetters(w), wk[w].pc # "link",
             UNCHANGED <<rows, qbo, made, links>>
      PROVE  Mirrored'
  <2>1. wk' = [wk EXCEPT ![w] = Idle]
    BY <1>a, <1>c
  <2> QED BY <1>0, <1>b, <1>c, <2>1, OneMirrors
<1>d. ASSUME NEW w \in Workers, NEW pc, Goes(w, pc), wk[w].pc # "link",
             UNCHANGED <<rows, qbo, made, links>>,
             pc \in {"invoice", "find", "create"} => \A l \in links : l.row # wk[w].ev.row,
             pc \in {"read", "resolve", "apply"} => ~Copy(wk[w].id),
             pc # "link"
      PROVE  Mirrored'
  <2> DEFINE t == [wk[w] EXCEPT !.pc = pc]
  <2>1. wk' = [wk EXCEPT ![w] = t]
    BY <1>d DEF Goes, TypeOK
  <2>2. t.pc = pc /\ t.ev = wk[w].ev /\ t.id = wk[w].id
    BY <1>0 DEF Worker
  <2> HIDE DEF t
  <2> QED BY <1>0, <1>d, <2>1, <2>2, OneMirrors
<1>1. ASSUME NEW w \in Workers, NEW e \in inbox, Claim(w, e) PROVE Mirrored'
  <2>1. \E t : wk' = [wk EXCEPT ![w] = t] /\ t.pc = "lookup"
    <3> DEFINE claimed == [e EXCEPT !.tries = IF @ < MaxAttempts THEN @ + 1 ELSE @]
               t == [Idle EXCEPT !.pc = "lookup", !.ev = claimed, !.id = e.id]
    <3>1. wk' = [wk EXCEPT ![w] = t]
      BY <1>1 DEF Claim
    <3>2. t.pc = "lookup"
      BY DEF Idle
    <3> QED BY <3>1, <3>2
  <2> QED BY <1>0, <1>1, <2>1, OneMirrors DEF Claim
<1>2. ASSUME NEW w \in Workers, Lookup(w) PROVE Mirrored'
  <2>1. CASE Done(w)
    BY <1>2, <1>c, <2>1 DEF Lookup
  <2>2. CASE /\ ~\E l \in links : IF Internal(w) THEN l.row = wk[w].ev.row ELSE l.id = wk[w].id
             /\ Goes(w, IF Internal(w) THEN "invoice" ELSE "read")
    <3>1. CASE Internal(w)
      BY <1>2, <1>d, <2>2, <3>1 DEF Lookup
    <3>2. CASE ~Internal(w)
      <4>1. wk[w].id \in ExternalIds
        BY <1>e, <1>2, <3>2 DEF Lookup, Internal
      <4>2. ~Copy(wk[w].id)
        BY <1>0, <1>2, <2>2, <3>2, <4>1 DEF Lookup, Mirrored
      <4> QED BY <1>2, <1>d, <2>2, <3>2, <4>2 DEF Lookup
    <3> QED BY <3>1, <3>2
  <2> QED BY <1>2, <2>1, <2>2 DEF Lookup
<1>3. ASSUME NEW w \in Workers, InvoiceLink(w) PROVE Mirrored'
  <2>1. CASE Fails(w)
    BY <1>3, <1>c, <2>1 DEF InvoiceLink
  <2>2. CASE Goes(w, "find")
    BY <1>3, <1>d, <2>2 DEF InvoiceLink, Mirrored
  <2> QED BY <1>3, <2>1, <2>2 DEF InvoiceLink
<1>4. ASSUME NEW w \in Workers, Find(w) PROVE Mirrored'
  <2>1. ASSUME NEW id \in ExternalIds, Found(w, id) PROVE FALSE
    <3>0. wk[w].pc = "find"
      BY <1>4 DEF Find
    <3>a. wk[w].ev.row # None
      BY <1>0, <3>0 DEF Placed
    <3>1. Copy(id) /\ qbo[id].row = wk[w].ev.row
      BY <2>1, <3>a DEF Found, Copy
    <3>b. \A v \in Workers : wk[v].pc # "link"
      BY <1>0, <3>0
    <3>2. PICK l \in links : l.id = id
      BY <3>1, <3>b DEF Mirrored
    <3>3. l.row = qbo[id].row
      BY <3>1, <3>2 DEF Mirrored
    <3> QED BY <3>0, <3>1, <3>3 DEF Mirrored
  <2>2. Goes(w, "create")
    BY <1>4, <2>1 DEF Find
  <2> QED BY <1>4, <1>d, <2>2 DEF Find, Mirrored
<1>5. ASSUME NEW w \in Workers, Create(w) PROVE Mirrored'
  <2>1. PICK s \in Stored :
          /\ Record([row |-> wk[w].ev.row, allocs |-> s])
          /\ wk' = [wk EXCEPT ![w] = [@ EXCEPT !.pc = "link", !.id = made + 1,
                                      !.p = [row |-> wk[w].ev.row, allocs |-> s]]]
    BY <1>5 DEF Create
  <2> DEFINE p == [row |-> wk[w].ev.row, allocs |-> s]
  <2>2. made' = made + 1 /\ made + 1 \in ExternalIds /\ qbo' = [qbo EXCEPT ![made + 1] = p]
    BY <1>0, <2>1, Constants DEF Record, ExternalIds
  <2>3. wk'[w].pc = "link" /\ wk'[w].id = made + 1 /\ wk'[w].ev = wk[w].ev
    BY <1>0, <2>1 DEF TypeOK, Worker
  <2>4. wk[w].pc = "create" /\ wk[w].ev.row # None
        /\ UNCHANGED <<rows, links>>
    BY <1>0, <1>5 DEF Create, Placed
  <2> HIDE DEF p
  <2>5. \A id \in ExternalIds : id # made + 1 => qbo'[id] = qbo[id] /\ (Copy(id)' <=> Copy(id))
    BY <2>2 DEF TypeOK, Copy
  <2>6. \A l \in links : l.id # made + 1 /\ l.row # wk[w].ev.row
    BY <1>0, <2>4 DEF Mirrored
  <2>7. (\A id \in ExternalIds : Copy(id) =>
           \/ \E l \in links : l.id = id
           \/ \E v \in Workers : wk[v].pc = "link" /\ wk[v].id = id)'
    <3> SUFFICES ASSUME NEW id \in ExternalIds, Copy(id)', id # made + 1
                 PROVE  \E l \in links' : l.id = id
      BY <2>3
    <3> QED BY <1>0, <2>4, <2>5 DEF Mirrored
  <2>8. (\A l \in links : Copy(l.id) => l.row = qbo[l.id].row)'
    BY <1>0, <2>4, <2>5, <2>6 DEF Mirrored
  <2>9. (\A v \in Workers :
           /\ wk[v].pc \in {"invoice", "find", "create"} => \A l \in links : l.row # wk[v].ev.row
           /\ wk[v].pc = "link" /\ wk[v].ev.row # None =>
                \A l \in links : l.row # wk[v].ev.row /\ l.id # wk[v].id
           /\ wk[v].pc \in {"read", "resolve", "apply", "link"} /\ wk[v].ev.row = None =>
                ~Copy(wk[v].id))'
    BY <1>0, <2>3, <2>4, <2>6
  <2>a. \A r \in rows : r.ref \in Nat /\ r.ref <= made
    BY Constants DEF TypeOK, RowsOf, Mirrored
  <2>10. (\A r \in rows : r.ref <= made)'
    BY <1>0, <2>2, <2>4, <2>a
  <2>11. NoDoubleCount'
    <3> SUFFICES ASSUME NEW id \in ExternalIds, Copy(id)', NEW r \in rows', r.ref = id
                 PROVE  FALSE
      BY DEF NoDoubleCount, Copy
    <3>1. CASE id = made + 1
      BY <1>0, <2>4, <2>a, <3>1
    <3>2. CASE id # made + 1
      BY <2>4, <2>5, <3>2 DEF Mirrored, NoDoubleCount, Copy
    <3> QED BY <3>1, <3>2
  <2> QED BY <2>7, <2>8, <2>9, <2>10, <2>11 DEF Mirrored
<1>6. ASSUME NEW w \in Workers, Read(w) PROVE Mirrored'
  <2>1. CASE Done(w)
    BY <1>6, <1>c, <2>1 DEF Read
  <2>2. CASE wk' = [wk EXCEPT ![w] = [@ EXCEPT !.pc = "resolve", !.p = qbo[wk[w].id]]]
    <3> DEFINE t == [wk[w] EXCEPT !.pc = "resolve", !.p = qbo[wk[w].id]]
    <3>1. wk' = [wk EXCEPT ![w] = t]
      BY <2>2 DEF TypeOK
    <3>2. t.pc = "resolve" /\ t.ev = wk[w].ev /\ t.id = wk[w].id
      BY <1>0 DEF Worker
    <3> HIDE DEF t
    <3>3. wk[w].ev.row = None /\ ~Copy(wk[w].id) /\ wk[w].pc # "link"
      BY <1>0, <1>6 DEF Read, Placed, Mirrored
    <3>4. UNCHANGED <<rows, qbo, made, links>>
      BY <1>6 DEF Read
    <3> QED BY <1>0, <3>1, <3>2, <3>3, <3>4, OneMirrors
  <2> QED BY <1>6, <2>1, <2>2 DEF Read
<1>7. ASSUME NEW w \in Workers, Resolve(w) PROVE Mirrored'
  <2>1. CASE Fails(w)
    BY <1>7, <1>c, <2>1 DEF Resolve
  <2>2. CASE Goes(w, "apply")
    <3>1. ~Copy(wk[w].id)
      BY <1>0, <1>7 DEF Resolve, Placed, Mirrored
    <3> QED BY <1>7, <1>d, <2>2, <3>1 DEF Resolve
  <2> QED BY <1>7, <2>1, <2>2 DEF Resolve
<1>8. ASSUME NEW w \in Workers, Apply(w) PROVE Mirrored'
  <2> DEFINE n == wk[w].applied + 1
             r == AppliedRow(wk[w].id, wk[w].p.allocs[n])
             t == [wk[w] EXCEPT !.applied = n,
                     !.pc = IF n = Len(wk[w].p.allocs) THEN "link" ELSE "apply"]
  <2>1. wk' = [wk EXCEPT ![w] = t] /\ rows' = rows \cup {r}
        /\ UNCHANGED <<qbo, made, links>>
    BY <1>8 DEF Apply, TypeOK
  <2>2. r.ref = wk[w].id
    BY DEF AppliedRow
  <2>3. t.pc \in {"link", "apply"} /\ t.ev = wk[w].ev /\ t.id = wk[w].id
    BY <1>0 DEF Worker
  <2> HIDE DEF r, t, n
  <2>4. /\ wk[w].pc = "apply" /\ wk[w].ev.row = None /\ ~Copy(wk[w].id)
        /\ wk[w].id <= made
    BY <1>0, <1>8 DEF Apply, Placed, Given, Mirrored
  <2>5. \A x \in rows' \ rows : x.ref <= made /\ ~Copy(x.ref)
    BY <2>1, <2>2, <2>4
  <2> QED BY <1>0, <2>1, <2>3, <2>4, <2>5, OneMirrors
<1>9. ASSUME NEW w \in Workers, MakeLink(w) PROVE Mirrored'
  <2> DEFINE l == [row |-> IF Internal(w) THEN wk[w].ev.row
                           ELSE AppliedRow(wk[w].id, wk[w].p.allocs[1]),
                   id  |-> wk[w].id]
  <2>0. /\ wk[w].pc = "link" /\ Given(wk[w].id, wk[w].p, qbo)
        /\ UNCHANGED <<rows, qbo, made>>
    BY <1>0, <1>9 DEF MakeLink, Placed
  <2>1. Copy(l.id) => Internal(w) /\ l.row = qbo[l.id].row
    BY <1>0, <2>0 DEF Placed, Given, Copy, Mirrored, Internal
  <2>2. Copy(l.id) => links' = links \cup {l}
    BY <1>9, <2>0, <2>1 DEF MakeLink, Mirrored, Internal
  <2>3. links' = links \/ links' = links \cup {l}
    BY <1>9 DEF MakeLink
  <2>4. l.id = wk[w].id
    OBVIOUS
  <2> HIDE DEF l
  <2>5. wk'[w].pc \in {"idle", "finish"}
    BY <1>0, <1>9, <1>b DEF MakeLink, Done, Fails, DeadLetters, Goes, TypeOK, Worker
  <2>6. (\A id \in ExternalIds : Copy(id) =>
           \/ \E k \in links : k.id = id
           \/ \E v \in Workers : wk[v].pc = "link" /\ wk[v].id = id)'
    <3> SUFFICES ASSUME NEW id \in ExternalIds, Copy(id) PROVE \E k \in links' : k.id = id
      BY <2>0 DEF Copy
    <3>1. CASE id = wk[w].id
      BY <2>2, <2>4, <3>1
    <3>2. CASE id # wk[w].id
      <4>1. \E k \in links : k.id = id
        BY <1>0, <3>2 DEF Mirrored
      <4> QED BY <2>3, <4>1
    <3> QED BY <3>1, <3>2
  <2>7. (\A k \in links : Copy(k.id) => k.row = qbo[k.id].row)'
    BY <2>0, <2>1, <2>3 DEF Copy, Mirrored
  <2>8. (\A v \in Workers :
           /\ wk[v].pc \in {"invoice", "find", "create"} => \A k \in links : k.row # wk[v].ev.row
           /\ wk[v].pc = "link" /\ wk[v].ev.row # None =>
                \A k \in links : k.row # wk[v].ev.row /\ k.id # wk[v].id
           /\ wk[v].pc \in {"read", "resolve", "apply", "link"} /\ wk[v].ev.row = None =>
                ~Copy(wk[v].id))'
    BY <1>0, <2>5
  <2>9. (\A r \in rows : r.ref <= made)' /\ NoDoubleCount'
    BY <2>0 DEF Mirrored, NoDoubleCount
  <2> QED BY <2>6, <2>7, <2>8, <2>9 DEF Mirrored
<1>10. ASSUME NEW w \in Workers, Finish(w) PROVE Mirrored'
  BY <1>10, <1>c DEF Finish
<1>11. ASSUME NEW w \in Workers, ProviderFails(w) PROVE Mirrored'
  BY <1>11, <1>c DEF ProviderFails
<1>12. ASSUME NEW w \in Workers, Crash(w) \/ TimesOut(w) PROVE FALSE
  BY <1>12 DEF Crash, TimesOut, Fault, Orderly
<1>13. ASSUME NEW i \in Invoices, Enter(i) PROVE Mirrored'
  <2>1. PICK r : r.ref = 0 /\ rows' = rows \cup {r}
    <3>1. \A n : UserRow(n, i).ref = 0
      BY DEF UserRow
    <3> QED BY <1>13, <3>1 DEF Enter
  <2>2. UNCHANGED <<qbo, made, links, wk>>
    BY <1>13 DEF Enter
  <2>3. (\A x \in rows : x.ref <= made)'
    BY <1>0, <2>1, <2>2 DEF Mirrored
  <2>4. NoDoubleCount'
    BY <2>1, <2>2 DEF Mirrored, NoDoubleCount, ExternalIds
  <2> QED BY <2>2, <2>3, <2>4 DEF Mirrored, Copy
<1>14. ASSUME NEW s \in Splits, EnterExternal(s) PROVE Mirrored'
  <2> DEFINE p == [row |-> None, allocs |-> s]
  <2>1. /\ made' = made + 1 /\ made + 1 \in ExternalIds /\ qbo' = [qbo EXCEPT ![made + 1] = p]
        /\ UNCHANGED <<rows, links, wk>>
    BY <1>0, <1>14, Constants DEF EnterExternal, Record, ExternalIds
  <2>2. p.row = None
    OBVIOUS
  <2> HIDE DEF p
  <2>3. \A id \in ExternalIds : id # made + 1 => qbo'[id] = qbo[id] /\ (Copy(id)' <=> Copy(id))
    BY <2>1 DEF TypeOK, Copy
  <2>4. \A id \in ExternalIds : id = made + 1 => ~Copy(id)' /\ ~Copy(id)
    BY <1>0, <2>1, <2>2 DEF TypeOK, Copy
  <2>5. \A id \in ExternalIds : Copy(id)' <=> Copy(id)
    BY <2>3, <2>4
  <2>6. (\A r \in rows : r.ref <= made)'
    <3>1. \A r \in rows : r.ref \in Nat /\ r.ref <= made
      BY Constants DEF TypeOK, RowsOf, Mirrored
    <3> QED BY <1>0, <2>1, <3>1
  <2>7. (\A w \in Workers :
           wk[w].pc \in {"read", "resolve", "apply", "link"} /\ wk[w].ev.row = None =>
             ~Copy(wk[w].id))'
    <3> SUFFICES ASSUME NEW w \in Workers, wk[w].ev.row = None,
                        wk[w].pc \in {"read", "resolve", "apply", "link"}
                 PROVE  ~Copy(wk[w].id)'
      BY <2>1
    <3>1. wk[w].id \in ExternalIds
      BY <1>e
    <3>2. ~Copy(wk[w].id)
      BY DEF Mirrored
    <3>3. wk[w].id = made + 1 \/ qbo'[wk[w].id] = qbo[wk[w].id]
      BY <2>3, <3>1
    <3> QED BY <2>1, <2>2, <3>1, <3>2, <3>3 DEF TypeOK, Copy
  <2>8. NoDoubleCount'
    BY <2>1, <2>5 DEF Mirrored, NoDoubleCount, Copy
  <2>9. (\A l \in links : Copy(l.id) => l.row = qbo[l.id].row)'
    BY <1>0, <2>1, <2>3, <2>5 DEF Mirrored
  <2>10. (\A id \in ExternalIds : Copy(id) =>
           \/ \E l \in links : l.id = id
           \/ \E w \in Workers : wk[w].pc = "link" /\ wk[w].id = id)'
    BY <2>1, <2>5 DEF Mirrored
  <2> QED BY <2>1, <2>6, <2>7, <2>8, <2>9, <2>10 DEF Mirrored
<1>15. CASE \/ \E i \in Invoices : InvoiceSynced(i)
            \/ UNCHANGED vars
  BY <1>15 DEF InvoiceSynced, vars, Mirrored, Copy, NoDoubleCount
<1> QED
  BY <1>1, <1>2, <1>3, <1>4, <1>5, <1>6, <1>7, <1>8, <1>9, <1>10, <1>11, <1>12, <1>13, <1>14,
     <1>15 DEF Next, Step

\* With one worker, whose writes are all answered, the copy of an internal
\* payment never comes back as another internal payment.
THEOREM CopiesStayAway ==
  ASSUME Orderly PROVE Spec => []NoDoubleCount
<1>1. Init => Mirrored
  BY Constants DEF Init, Mirrored, NoDoubleCount, Copy, Idle
<1>2. TypeOK /\ IInv /\ Mirrored /\ [Next]_vars => Mirrored'
  BY MirrorStep
<1>3. Mirrored => NoDoubleCount
  BY DEF Mirrored
<1> QED BY <1>1, <1>2, <1>3, Inductive, PTL DEF Spec
=============================================================================
