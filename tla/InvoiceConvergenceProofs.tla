---------------------- MODULE InvoiceConvergenceProofs ----------------------
(***************************************************************************)
(* The two systems converge: with one worker, whatever its users do and    *)
(* its provider loses, an invoice whose notifications have all been        *)
(* handled is the same on both sides.  The worker may crash between its    *)
(* write and the snapshot, as long as nobody hard-deletes an external      *)
(* invoice.  And what both sides come to show is the last edit.            *)
(***************************************************************************)
EXTENDS InvoiceSyncProofs

Crashes == "crash" \in Faults

\* One worker; and if it may crash, no invoice is hard-deleted.
Steady == /\ \E w : Workers = {w}
          /\ Crashes => "ext_delete" \notin UserOps

-----------------------------------------------------------------------------
(* What has yet to be reconciled is announced *)

\* A notification among evs tells of the internal record, of the external one
\* with this id.
TellsInternal(evs) == \E e \in evs : e.src = "internal"
TellsExternal(evs, id) == \E e \in evs : e.src = "external" /\ e.id = id

\* An external record that is gone or voided; an invoice that is dead on both
\* sides.
Ended(x) == x = None \/ Dead(x.c)
BothDead(int, x) == Dead(int.c) /\ Ended(x)

\* Two external states with one content: a payment makes the later of the former.
Alike(x, y) == x = y \/ (x # None /\ y # None /\ x.c = y.c)

\* What IsEcho compares with the snapshot base, when there is one.
SeenAs(x, base) == IF x # None THEN x.c ELSE [base EXCEPT !.life = "deleted"]

\* The link lk has no snapshot yet, or a side differs from it: a notification
\* among evs will bring a worker to it.  A crash between a write to the
\* internal side and the snapshot leaves that side ahead, which the external
\* notification is still there for.
Announced(evs, int, x, lk) ==
  /\ lk.base = None => TellsInternal(evs) \/ TellsExternal(evs, lk.ext)
  /\ lk.base # None /\ int.c # lk.base =>
       \/ TellsInternal(evs) \/ BothDead(int, x)
       \/ Crashes /\ SeenAs(x, lk.base) # lk.base
  /\ lk.base # None /\ SeenAs(x, lk.base) # lk.base => TellsExternal(evs, lk.ext)
  /\ Crashes /\ lk.base # None /\ Dead(lk.base) => BothDead(int, x)

-----------------------------------------------------------------------------
(* What the worker knows of it, in the middle of an event *)

\* The content that the resolution of t gives both sides.
MergedBy(t) == Merged(t.d, t.i.c, Seen(t.x, t.l, t.i))

\* Its event is pending, and it acts on an external invoice that was made.
Told(t, evs, n) ==
  /\ t.pc # "idle" => t.ev \in evs
  /\ t.pc = "lookup" => t.i = None
  /\ t.x # None \/ (t.l # None /\ t.pc \in {"readInt", "lines", "readExt"})
     \/ t.pc \in {"writeInt", "repoint"} => t.xid <= n

\* A worker that found no link: the event is not about the one there is.
Unlinked(t, lk) ==
  t.pc \notin {"idle", "lookup"} /\ t.l = None =>
    /\ lk # None => t.ev.src = "external" /\ t.ev.id # lk.ext
    /\ t.pc \in {"find", "create"} => t.ev.src = "internal"
    /\ t.ev.src = "external" => t.xid = t.ev.id

\* A worker that found one: it is as it was read.
Linked(t, lk) ==
  /\ t.l # None /\ t.pc \in {"readInt", "lines", "readExt", "recreate", "writeExt", "writeInt"} =>
       lk # None /\ t.xid = lk.ext /\ t.l.base = lk.base
  /\ t.pc = "mark" => t.xid = lk.ext
  /\ t.pc \in {"find", "create", "insert", "newLink"} => t.l = None

\* The internal state that t has read is still there, or one of the other
\* notifications evs tells that it is not; a dead invoice stays dead.
ReadIn(t, int, evs) ==
  t.i # None /\ t.pc \in {"lines", "readExt", "find", "create", "newLink", "recreate", "writeExt"} =>
    /\ int.c = t.i.c \/ TellsInternal(evs)
    /\ Dead(t.i.c) => Dead(int.c)

\* The same of the external state.
ReadOut(t, ext, evs) ==
  (t.x # None /\ t.pc \in {"readInt", "lines", "insert", "newLink"}) \/ t.pc = "writeInt" =>
    /\ Alike(ext[t.xid], t.x) \/ TellsExternal(evs, t.xid)
    /\ Ended(t.x) => Ended(ext[t.xid])

\* A worker with a resolution to apply.
Resolves(t, ext, lk) ==
  /\ t.pc = "writeInt" => ~InternalWins(t.d)
  /\ t.pc \in {"recreate", "writeExt"} => InternalWins(t.d)
  /\ Crashes =>
       /\ t.pc \notin {"recreate", "repoint"}
       /\ t.pc \in {"lines", "readExt"} /\ t.l # None /\ lk.base # None /\ Dead(lk.base) => Dead(t.i.c)
       /\ t.pc \in {"writeExt", "writeInt"} /\ lk.base # None /\ Dead(lk.base) => Dead(MergedBy(t))
       /\ t.pc = "writeInt" /\ lk.base # None =>
            SeenAs(ext[t.xid], lk.base) # lk.base \/ Dead(lk.base)

\* A worker that has applied it: what is to be the snapshot is what the sides
\* are, or one of the other notifications tells of the difference.
Applied(t, int, ext, evs) ==
  /\ t.pc \in {"repoint", "mark"} =>
       /\ \/ int.c = MergedBy(t) \/ TellsInternal(evs)
          \/ t.pc = "mark" /\ BothDead(int, ext[t.xid])
       /\ SeenAs(ext[t.xid], MergedBy(t)) = MergedBy(t) \/ TellsExternal(evs, t.xid)
  /\ Crashes /\ t.pc = "mark" /\ Dead(MergedBy(t)) => BothDead(int, ext[t.xid])

\* While a resolution is applied its own event stands for it; once the snapshot
\* is taken, the others are enough.
Covered(t, int, ext, lk, evs) ==
  lk # None /\ (t.pc \in {"repoint", "mark"} => Crashes) =>
    Announced(IF t.pc = "finish" THEN evs \ {t.ev} ELSE evs, int, ext[lk.ext], lk)

\* Contents are entered, and notifications sent, before they are read.
Earlier(t, time) ==
  /\ t.pc # "idle" => t.ev.at <= time
  /\ t.i # None => t.i.c.body <= time
  /\ t.x # None => t.x.c.body <= time
  /\ t.l # None /\ t.l.base # None => t.l.base.body <= time

Knows(t, int, ext, lk, evs, n, time) ==
  /\ Told(t, evs, n) /\ Unlinked(t, lk) /\ Linked(t, lk) /\ Earlier(t, time)
  /\ ReadIn(t, int, evs \ {t.ev}) /\ ReadOut(t, ext, evs \ {t.ev})
  /\ Resolves(t, ext, lk) /\ Applied(t, int, ext, evs \ {t.ev})
  /\ Covered(t, int, ext, lk, evs)

\* External invoices are made in order and, unless they are hard-deleted, stay.
Made(ext, n, lk) ==
  /\ \A id \in ExternalIds : ext[id] # None => id <= n
  /\ Crashes => \A id \in ExternalIds : id <= n => ext[id] # None
  /\ lk # None => lk.ext <= n

Dated(int, ext, lk, evs, time) ==
  /\ int # None => int.c.body <= time
  /\ \A id \in ExternalIds : ext[id] # None => ext[id].c.body <= time
  /\ lk # None /\ lk.base # None => lk.base.body <= time
  /\ \A e \in evs : e.at <= time

\* As long as no notification was dead-lettered.
Converging ==
  dead = {} =>
    /\ Made(external, made, link) /\ Dated(internal, external, link, inbox, clock)
    /\ \A w \in Workers : Knows(wk[w], internal, external, link, inbox, made, clock)

-----------------------------------------------------------------------------
(* Lemmas about contents and notifications *)

LEMMA MoreTold ==
  ASSUME NEW evs, NEW more, evs \subseteq more
  PROVE  /\ TellsInternal(evs) => TellsInternal(more)
         /\ \A id : TellsExternal(evs, id) => TellsExternal(more, id)
  BY DEF TellsInternal, TellsExternal

LEMMA SeenAlike ==
  ASSUME NEW x, NEW y, Alike(x, y)
  PROVE  /\ \A base : SeenAs(x, base) = SeenAs(y, base)
         /\ Ended(x) <=> Ended(y)
         /\ Alike(y, x) /\ \A z : Alike(y, z) => Alike(x, z)
  BY DEF Alike, SeenAs, Ended

LEMMA MoreAnnounced ==
  ASSUME NEW evs, NEW more, NEW int, NEW x, NEW lk, Announced(evs, int, x, lk),
         TellsInternal(evs) => TellsInternal(more),
         TellsExternal(evs, lk.ext) => TellsExternal(more, lk.ext)
  PROVE  Announced(more, int, x, lk)
  BY DEF Announced

\* What a worker sees is what its echo test compares, once there is a snapshot.
LEMMA SeenIs ==
  /\ \A x, l, i : l.base # None => Seen(x, l, i) = SeenAs(x, l.base)
  /\ \A x, l, i, b : x # None => Seen(x, l, i) = SeenAs(x, b)
  BY DEF Seen, SeenAs

\* Contents are none, and what is gone is deleted.
LEMMA Bodies ==
  /\ \A c \in Comparable : c # None /\ c.body \in Nat /\ c.life \in Lifecycles
  /\ \A c \in Comparable, life \in Lifecycles :
       LET e == [c EXCEPT !.life = life] IN
       /\ e \in Comparable /\ e.body = c.body /\ e.life = life
       /\ c.life = life => e = c
  /\ \A c \in Comparable : Voided(c).body = c.body /\ Dead(Voided(c)) /\ Voided(c) \in Comparable
  /\ \A c \in Comparable : Created(c).body = c.body /\ Created(c) \in Comparable
  /\ \A n \in Nat : Active(n).body = n /\ ~Dead(Active(n)) /\ Active(n) \in Comparable
  /\ "voided" \in Lifecycles /\ "deleted" \in Lifecycles
<1>1. \A c \in Comparable : c # None /\ c.body \in Nat /\ c.life \in Lifecycles
  BY NoneOK DEF NoneOK, Comparable
<1>2. ASSUME NEW c \in Comparable, NEW life \in Lifecycles
      PROVE  LET e == [c EXCEPT !.life = life] IN
             /\ e \in Comparable /\ e.body = c.body /\ e.life = life
             /\ c.life = life => e = c
  BY DEF Comparable
<1>3. ASSUME NEW c \in Comparable
      PROVE  Voided(c).body = c.body /\ Dead(Voided(c)) /\ Created(c).body = c.body
  BY DEF Comparable, Voided, Created, Dead
<1>4. \A n \in Nat : Active(n).body = n /\ ~Dead(Active(n)) /\ Active(n) \in Comparable
  BY Contents DEF Active, Dead
<1>5. "voided" \in Lifecycles /\ "deleted" \in Lifecycles
  BY DEF Lifecycles
<1> QED BY <1>1, <1>2, <1>3, <1>4, <1>5, Contents

\* The content of a resolution is one that was there before.
LEMMA MergedPast ==
  ASSUME NEW t \in Worker, NEW time \in Nat, t.i # None, t.l \in Link, Earlier(t, time)
  PROVE  MergedBy(t) \in Comparable /\ MergedBy(t).body <= time
<1>1. t.i.c \in Comparable /\ MergedBy(t) \in Comparable /\ t.l # None
  BY Resolved, NoneOK DEF NoneOK, MergedBy
<1>2. t.i.c.body <= time
  BY DEF Earlier
<1>3. Seen(t.x, t.l, t.i).body <= time
  <2>1. CASE t.x # None
    BY <2>1 DEF Earlier, Seen
  <2>2. CASE t.x = None
    <3> DEFINE b == IF t.l.base # None THEN t.l.base ELSE t.i.c
    <3>1. b \in Comparable /\ b.body <= time
      BY <1>1, <1>2 DEF Earlier, Link
    <3>2. Seen(t.x, t.l, t.i) = [b EXCEPT !.life = "deleted"]
      BY <2>2 DEF Seen
    <3> HIDE DEF b
    <3> QED BY <3>1, <3>2, Bodies
  <2> QED BY <2>1, <2>2
<1> QED BY <1>1, <1>2, <1>3 DEF MergedBy, Merged

-----------------------------------------------------------------------------
(* The users *)

\* What the worker can tell of a step of the users: every change of contents
\* is announced, a dead invoice is not revived, and what an external invoice
\* becomes is new or dead.
UsersMove ==
  /\ UNCHANGED <<wk, link, dead>>
  /\ clock <= clock' /\ made <= made'
  /\ inbox \subseteq inbox'
  /\ internal # None =>
       /\ internal'.c = internal.c \/ TellsInternal(inbox' \ inbox)
       /\ Dead(internal.c) => Dead(internal'.c)
  /\ \A id \in ExternalIds :
       /\ Alike(external'[id], external[id]) \/ TellsExternal(inbox' \ inbox, id)
       /\ id <= made =>
            /\ Ended(external[id]) => Ended(external'[id])
            /\ Crashes /\ ~Alike(external'[id], external[id]) =>
                 /\ external'[id] # None
                 /\ Dead(external'[id].c) \/ external'[id].c.body > clock
  /\ Made(external', made', link) /\ Dated(internal', external', link, inbox', clock')

\* An external invoice with the snapshot's content is the one that was there,
\* or dead.
LEMMA NewOrDead ==
  ASSUME NEW x, NEW y, NEW base \in Comparable, NEW time \in Nat, base.body <= time,
         ~Alike(y, x) => y # None /\ (Dead(y.c) \/ y.c.body > time),
         SeenAs(x, base) # base
  PROVE  SeenAs(y, base) # base \/ Dead(base)
<1>1. CASE Alike(y, x)
  BY <1>1, SeenAlike
<1>2. CASE ~Alike(y, x)
  <2>1. SeenAs(y, base) = y.c
    BY <1>2 DEF SeenAs
  <2>2. y.c.body > time => y.c # base
    BY Bodies
  <2> QED BY <1>2, <2>1, <2>2
<1> QED BY <1>1, <1>2

\* What is announced stays so while users act.
LEMMA UsersAnnounce ==
  ASSUME TypeOK, UsersMove, Made(external, made, link), Dated(internal, external, link, inbox, clock),
         NEW evs, NEW more, evs \subseteq inbox, evs \subseteq more, inbox' \ inbox \subseteq more,
         link # None, internal # None,
         Announced(evs, internal, external[link.ext], link)
  PROVE  Announced(more, internal', external'[link.ext], link)
<1> DEFINE x == external[link.ext]
           y == external'[link.ext]
           b == link.base
<1>1. link \in Link /\ link.ext \in ExternalIds /\ link.ext <= made /\ b \in Comparable \cup {None}
  BY DEF TypeOK, Link, Made
<1>2. /\ x \in Record \cup {None} /\ clock \in Nat
  BY <1>1 DEF TypeOK
<1>3. /\ TellsInternal(evs) => TellsInternal(more)
      /\ TellsExternal(evs, link.ext) => TellsExternal(more, link.ext)
  BY MoreTold
<1>4. /\ internal'.c = internal.c \/ TellsInternal(more)
      /\ Alike(y, x) \/ TellsExternal(more, link.ext)
      /\ Dead(internal.c) => Dead(internal'.c)
      /\ Ended(x) => Ended(y)
      /\ Crashes /\ ~Alike(y, x) => y # None /\ (Dead(y.c) \/ y.c.body > clock)
  BY <1>1, MoreTold DEF UsersMove
<1>5. BothDead(internal, x) => BothDead(internal', y)
  BY <1>4 DEF BothDead
<1>6. ASSUME b # None, Crashes, SeenAs(x, b) # b
      PROVE  SeenAs(y, b) # b \/ Dead(b)
  <2>1. b \in Comparable /\ b.body <= clock
    BY <1>1, <1>6 DEF Dated
  <2> HIDE DEF x, y, b
  <2> QED BY <1>2, <1>4, <1>6, <2>1, NewOrDead
<1> HIDE DEF x, y, b
<1>7. ASSUME b # None, internal'.c # b
      PROVE  TellsInternal(more) \/ BothDead(internal', y) \/ (Crashes /\ SeenAs(y, b) # b)
  <2>1. CASE internal.c # b
    BY <1>3, <1>5, <1>6, <1>7, <2>1 DEF Announced, x, y, b
  <2>2. CASE internal.c = b
    BY <1>4, <1>7, <2>2
  <2> QED BY <2>1, <2>2
<1>8. /\ b = None => TellsInternal(more) \/ TellsExternal(more, link.ext)
      /\ b # None /\ SeenAs(y, b) # b => TellsExternal(more, link.ext)
      /\ Crashes /\ b # None /\ Dead(b) => BothDead(internal', y)
  BY <1>3, <1>4, <1>5, SeenAlike DEF Announced, x, y, b
<1> QED BY <1>7, <1>8 DEF Announced, x, y, b

\* The invoice and the link that a worker acts on.
LEMMA ActsOn ==
  ASSUME TypeOK, NEW t \in Worker, Placed(t, internal, link), Fresh(t, external, clock),
         Made(external, made, link),
         Knows(t, internal, external, link, inbox, made, clock)
  PROVE  /\ t.x # None => t.xid \in ExternalIds /\ t.xid <= made
         /\ t.pc \in {"recreate", "writeExt", "writeInt", "mark"} =>
              /\ t.l \in Link /\ t.l # None /\ link \in Link /\ link # None
              /\ t.xid = link.ext /\ t.xid \in ExternalIds /\ t.xid <= made
         /\ t.pc \in {"recreate", "writeExt", "writeInt"} => t.l.base = link.base
         /\ t.pc \in Resolving => t.i # None /\ t.i.c \in Comparable /\ MergedBy(t) \in Comparable
<1>1. t.x # None => t.xid \in ExternalIds /\ t.xid <= made
  BY DEF Fresh, Knows, Told
<1>2. t.pc \in Resolving => t.l \in Link /\ t.l # None /\ link \in Link /\ link # None /\ t.i # None
  BY NoneOK DEF NoneOK, Placed
<1>3. t.pc \in {"recreate", "writeExt", "writeInt", "mark"} => t.xid = link.ext
  BY <1>2 DEF Resolving, Knows, Linked
<1>4. t.pc \in {"recreate", "writeExt", "writeInt"} => t.l.base = link.base
  BY <1>2 DEF Resolving, Knows, Linked
<1>5. link # None => link.ext \in ExternalIds /\ link.ext <= made
  BY DEF TypeOK, Link, Made
<1>6. t.pc \in Resolving => t.i.c \in Comparable /\ MergedBy(t) \in Comparable
  BY <1>2, Resolved DEF MergedBy
<1> QED BY <1>1, <1>2, <1>3, <1>4, <1>5, <1>6 DEF Resolving

\* What a worker knows stays true while users act.
LEMMA UsersKnow ==
  ASSUME TypeOK, TypeOK', IInv, UsersMove, Made(external, made, link),
         Dated(internal, external, link, inbox, clock),
         NEW t \in Worker, Placed(t, internal, link), Fresh(t, external, clock),
         Knows(t, internal, external, link, inbox, made, clock)
  PROVE  Knows(t, internal', external', link', inbox', made', clock')
<1> DEFINE rest == inbox \ {t.ev}
           more == inbox' \ {t.ev}
<1>1. /\ link' = link /\ link \in Link \cup {None}
      /\ clock \in Nat /\ clock' \in Nat /\ clock <= clock'
      /\ made \in Nat /\ made' \in Nat /\ made <= made'
      /\ inbox \subseteq inbox'
  BY DEF UsersMove, TypeOK
<1>2. t.pc # "idle" => t.ev \in inbox
  BY DEF Knows, Told
<1>3. Told(t, inbox', made')
  <2>1. t.xid \in Nat
    BY DEF Worker
  <2> QED BY <1>1, <2>1 DEF Knows, Told
<1>4. Unlinked(t, link') /\ Linked(t, link')
  BY <1>1 DEF Knows
<1>5. Earlier(t, clock')
  <2>1. t.pc # "idle" => t.ev.at \in Nat
    BY <1>2 DEF TypeOK, Event
  <2>2. t.i # None => t.i.c.body \in Nat
    BY Contents, Bodies DEF Worker
  <2>3. t.x # None => t.x.c.body \in Nat
    BY Contents, Bodies DEF Worker
  <2>4. t.l # None /\ t.l.base # None => t.l.base.body \in Nat
    BY Bodies DEF Worker, Link
  <2> QED BY <1>1, <2>1, <2>2, <2>3, <2>4 DEF Knows, Earlier
<1>6. t.pc # "idle" => rest \subseteq more /\ inbox' \ inbox \subseteq more
  BY <1>1, <1>2
<1>7. t.pc # "idle" =>
        /\ TellsInternal(rest) \/ TellsInternal(inbox' \ inbox) => TellsInternal(more)
        /\ \A id : TellsExternal(rest, id) \/ TellsExternal(inbox' \ inbox, id) => TellsExternal(more, id)
  BY <1>6, MoreTold
<1> HIDE DEF rest, more
<1>8. ReadIn(t, internal', more)
  <2>1. t.i # None => internal # None
    BY DEF Placed
  <2> QED BY <1>7, <2>1 DEF Knows, ReadIn, UsersMove, rest
<1>9. ReadOut(t, external', more)
  <2>1. t.x # None \/ t.pc = "writeInt" => t.xid \in ExternalIds /\ t.xid <= made
    BY ActsOn
  <2>2. ASSUME t.x # None \/ t.pc = "writeInt"
        PROVE  /\ Alike(external'[t.xid], external[t.xid]) \/ TellsExternal(inbox' \ inbox, t.xid)
               /\ Ended(external[t.xid]) => Ended(external'[t.xid])
    BY <2>1, <2>2 DEF UsersMove
  <2>3. t.pc \in {"readInt", "lines", "insert", "newLink", "writeInt"} => t.pc # "idle"
    OBVIOUS
  <2>4. Alike(external'[t.xid], external[t.xid]) /\ Alike(external[t.xid], t.x)
        => Alike(external'[t.xid], t.x)
    BY SeenAlike
  <2> QED BY <1>7, <2>2, <2>3, <2>4 DEF Knows, ReadOut, rest
<1>10. Resolves(t, external', link')
  <2>1. ASSUME Crashes, t.pc = "writeInt", link.base # None
        PROVE  SeenAs(external'[t.xid], link.base) # link.base \/ Dead(link.base)
    <3>1. t.xid \in ExternalIds /\ t.xid <= made /\ link \in Link /\ link # None
      BY <2>1, ActsOn
    <3>2. /\ ~Alike(external'[t.xid], external[t.xid]) =>
               external'[t.xid] # None
               /\ (Dead(external'[t.xid].c) \/ external'[t.xid].c.body > clock)
      BY <2>1, <3>1 DEF UsersMove
    <3>3. link.base \in Comparable /\ link.base.body <= clock
      BY <2>1, <3>1 DEF Dated, Link
    <3>4. SeenAs(external[t.xid], link.base) # link.base \/ Dead(link.base)
      BY <2>1 DEF Knows, Resolves
    <3> QED BY <1>1, <3>2, <3>3, <3>4, NewOrDead
  <2> QED BY <1>1, <2>1 DEF Knows, Resolves
<1>11. Applied(t, internal', external', more)
  <2>1. t.pc \in {"repoint", "mark"} => /\ t.xid \in ExternalIds /\ t.xid <= made /\ internal # None
    <3>1. t.pc = "repoint" => t.xid \in ExternalIds /\ t.xid <= made
      BY DEF Placed, Knows, Told
    <3>2. t.pc \in {"repoint", "mark"} => internal # None
      BY DEF Placed, Resolving
    <3> QED BY <3>1, <3>2, ActsOn
  <2>2. ASSUME t.pc \in {"repoint", "mark"}
        PROVE  /\ internal'.c = internal.c \/ TellsInternal(more)
               /\ Alike(external'[t.xid], external[t.xid]) \/ TellsExternal(more, t.xid)
               /\ BothDead(internal, external[t.xid]) => BothDead(internal', external'[t.xid])
               /\ TellsInternal(rest) => TellsInternal(more)
               /\ TellsExternal(rest, t.xid) => TellsExternal(more, t.xid)
    BY <1>7, <2>1, <2>2 DEF UsersMove, BothDead
  <2> QED BY <2>2, SeenAlike DEF Knows, Applied, rest
<1>12. Covered(t, internal', external', link', inbox')
  <2> SUFFICES ASSUME link # None, t.pc \in {"repoint", "mark"} => Crashes
               PROVE  Announced(IF t.pc = "finish" THEN more ELSE inbox', internal', external'[link.ext], link)
    BY <1>1 DEF Covered, more
  <2>1. internal # None
    BY DEF IInv
  <2>2. CASE t.pc = "finish"
    <3>1. Announced(rest, internal, external[link.ext], link) /\ rest \subseteq inbox
      BY <2>2 DEF Knows, Covered, rest
    <3> QED BY <1>6, <2>1, <2>2, <3>1, UsersAnnounce
  <2>3. CASE t.pc # "finish"
    <3>1. Announced(inbox, internal, external[link.ext], link)
      BY <2>3 DEF Knows, Covered
    <3> QED BY <1>1, <2>1, <2>3, <3>1, UsersAnnounce
  <2> QED BY <2>2, <2>3
<1> QED BY <1>3, <1>4, <1>5, <1>8, <1>9, <1>10, <1>11, <1>12 DEF Knows, more

\* A notification of this instant is none of those that were pending.
LEMMA Sent ==
  ASSUME TypeOK, Dated(internal, external, link, inbox, clock)
  PROVE  /\ now \in Nat /\ now = clock + 1
         /\ FromInternal(now) \notin inbox /\ FromInternal(now).at = now
         /\ FromInternal(now).src = "internal"
         /\ \A id : /\ FromExternal(id, now) \notin inbox /\ FromExternal(id, now).at = now
                    /\ FromExternal(id, now).src = "external" /\ FromExternal(id, now).id = id
<1>1. clock \in Nat /\ now = clock + 1
  BY DEF TypeOK, now
<1>2. FromInternal(now).at = now /\ FromInternal(now).src = "internal"
  BY DEF FromInternal
<1>3. \A id : /\ FromExternal(id, now).at = now /\ FromExternal(id, now).src = "external"
              /\ FromExternal(id, now).id = id
  BY DEF FromExternal
<1>4. \A e \in inbox : e.at # now
  <2>1. \A e \in inbox : e.at <= clock /\ e.at \in Nat
    BY DEF Dated, TypeOK, Event
  <2> QED BY <1>1, <2>1
<1> QED BY <1>1, <1>2, <1>3, <1>4

\* Time goes on: what was past is.
LEMMA StillDated ==
  ASSUME TypeOK, Dated(internal, external, link, inbox, clock)
  PROVE  /\ internal # None => internal.c.body <= now /\ internal.c.body \in Nat
         /\ \A id \in ExternalIds : external[id] # None =>
              external[id].c.body <= now /\ external[id].c.body \in Nat
         /\ link # None /\ link.base # None => link.base.body <= now
         /\ \A e \in inbox : e.at <= now
<1>1. clock \in Nat /\ now = clock + 1
  BY DEF TypeOK, now
<1>2. internal # None => internal.c.body \in Nat /\ internal.c.body <= clock
  BY Contents, Bodies DEF TypeOK, Dated
<1>3. \A id \in ExternalIds : external[id] # None =>
        external[id].c.body \in Nat /\ external[id].c.body <= clock
  BY Contents, Bodies DEF TypeOK, Dated
<1>4. link # None /\ link.base # None => link.base.body \in Nat /\ link.base.body <= clock
  BY Bodies DEF TypeOK, Link, Dated
<1>5. \A e \in inbox : e.at \in Nat /\ e.at <= clock
  BY DEF TypeOK, Event, Dated
<1> QED BY <1>1, <1>2, <1>3, <1>4, <1>5

LEMMA MovesInternal ==
  ASSUME TypeOK, Made(external, made, link), Dated(internal, external, link, inbox, clock),
         NEW c \in Comparable, PutInternal(c), c.body <= now,
         UNCHANGED <<wk, link, dead>>,
         internal # None /\ Dead(internal.c) => Dead(c),
         \/ internal # None /\ c = internal.c /\ inbox' = inbox
         \/ inbox' = inbox \cup {FromInternal(now)}
  PROVE  UsersMove
<1>1. /\ internal'.c = c /\ internal' # None /\ clock' = now /\ external' = external /\ made' = made
      /\ clock <= now /\ made <= made
  <2>1. [c |-> c, at |-> now].c = c /\ [c |-> c, at |-> now] \in Record
    BY Contents, Sent
  <2> QED BY <2>1, Contents, Sent DEF PutInternal, TypeOK
<1>2. inbox \subseteq inbox' /\ (internal # None /\ internal'.c # internal.c => TellsInternal(inbox' \ inbox))
  BY <1>1, Sent DEF TellsInternal
<1>3. Made(external', made', link)
  BY <1>1
<1>4. Dated(internal', external', link, inbox', clock')
  BY <1>1, StillDated, Sent DEF Dated
<1>5. \A id \in ExternalIds : Alike(external'[id], external[id]) /\ external'[id] = external[id]
  BY <1>1 DEF Alike
<1> QED BY <1>1, <1>2, <1>3, <1>4, <1>5 DEF UsersMove

LEMMA MovesExternal ==
  ASSUME TypeOK, Made(external, made, link), Dated(internal, external, link, inbox, clock),
         NEW id \in ExternalIds, NEW y \in Record \cup {None},
         external' = [external EXCEPT ![id] = y], clock' = now, internal' = internal,
         UNCHANGED <<wk, link, dead>>,
         \/ inbox' = inbox \cup {FromExternal(id, now)}
         \/ inbox' = inbox /\ Alike(y, external[id]),
         y # None => y.c.body <= now,
         \/ /\ made' = made /\ id <= made
            /\ Ended(external[id]) => Ended(y)
            /\ Crashes /\ ~Alike(y, external[id]) => y # None /\ (Dead(y.c) \/ y.c.body > clock)
         \/ made' = made + 1 /\ id = made + 1 /\ y # None
  PROVE  UsersMove
<1>1. /\ \A other \in ExternalIds : external'[other] = IF other = id THEN y ELSE external[other]
      /\ clock <= now /\ made \in Nat /\ made <= made' /\ id \in Nat
      /\ \A other \in ExternalIds : other \in Nat
  BY Sent DEF TypeOK, ExternalIds
<1>2. inbox \subseteq inbox' /\ (TellsExternal(inbox' \ inbox, id) \/ Alike(y, external[id]))
  BY Sent DEF TellsExternal
<1>3. Made(external', made', link)
  <2>1. link # None => link.ext \in Nat /\ link.ext <= made
    BY <1>1 DEF Made, TypeOK, Link
  <2>2. link # None => link.ext <= made'
    BY <1>1, <2>1
  <2>3. \A other \in ExternalIds : external'[other] # None => other <= made'
    <3>1. id <= made'
      BY <1>1
    <3>2. \A other \in ExternalIds : external[other] # None => other <= made'
      BY <1>1 DEF Made
    <3> QED BY <1>1, <3>1, <3>2
  <2>4. ASSUME Crashes, NEW other \in ExternalIds, other <= made'
        PROVE  external'[other] # None
    <3>1. CASE made' = made + 1 /\ id = made + 1 /\ y # None
      <4> DEFINE n == made
      <4>1. n \in Nat /\ other \in Nat /\ other <= n + 1 /\ id = n + 1
        BY <1>1, <2>4, <3>1
      <4> HIDE DEF n
      <4>2. other # id => other <= n
        BY <4>1
      <4>3. other # id => other <= made
        BY <4>2 DEF n
      <4> QED BY <1>1, <2>4, <3>1, <4>3 DEF Made
    <3>2. CASE /\ made' = made /\ id <= made
               /\ Crashes /\ ~Alike(y, external[id]) => y # None
      <4>1. external[other] # None /\ external[id] # None
        BY <2>4, <3>2 DEF Made
      <4>2. y # None
        BY <2>4, <3>2, <4>1 DEF Alike
      <4> QED BY <1>1, <4>1, <4>2
    <3> QED BY <3>1, <3>2
  <2> QED BY <2>2, <2>3, <2>4 DEF Made
<1>4. Dated(internal', external', link, inbox', clock')
  BY <1>1, StillDated, Sent DEF Dated
<1>5. ASSUME NEW other \in ExternalIds
      PROVE  /\ Alike(external'[other], external[other]) \/ TellsExternal(inbox' \ inbox, other)
             /\ other <= made =>
                  /\ Ended(external[other]) => Ended(external'[other])
                  /\ Crashes /\ ~Alike(external'[other], external[other]) =>
                       /\ external'[other] # None
                       /\ Dead(external'[other].c) \/ external'[other].c.body > clock
  <2>1. CASE other = id
    BY <1>1, <1>2, <2>1
  <2>2. CASE other # id
    BY <1>1, <2>2 DEF Alike
  <2> QED BY <2>1, <2>2
<1> QED BY <1>1, <1>2, <1>3, <1>4, <1>5 DEF UsersMove

LEMMA UsersDoMove ==
  ASSUME Steady, TypeOK, IInv, Made(external, made, link),
         Dated(internal, external, link, inbox, clock), User
  PROVE  UsersMove
<1>n. now \in Nat /\ now = clock + 1 /\ clock \in Nat /\ now <= now /\ now > clock
  BY Sent DEF TypeOK
<1>u. \A op : UserStep(op) => UNCHANGED <<wk, link, dead>> /\ op \in UserOps
  BY DEF UserStep
<1>1. ASSUME NEW op, NEW c \in Comparable, InternalUser(op, c), c.body <= now,
             internal # None /\ Dead(internal.c) => Dead(c)
      PROVE  UsersMove
  BY <1>1, <1>u, MovesInternal DEF InternalUser
<1>2. CASE IntCreate
  BY <1>1, <1>2, <1>n, Bodies DEF IntCreate
<1>3. CASE IntEdit
  BY <1>1, <1>3, <1>n, Bodies DEF IntEdit
<1>4. ASSUME internal # None, NEW op, NEW life \in {"voided", "deleted"},
             InternalUser(op, [internal.c EXCEPT !.life = life])
      PROVE  UsersMove
  <2>1. internal.c \in Comparable /\ internal.c.body <= now /\ life \in Lifecycles
    BY <1>4, Contents, StillDated, Bodies DEF TypeOK
  <2>2. /\ [internal.c EXCEPT !.life = life] \in Comparable
        /\ [internal.c EXCEPT !.life = life].body <= now
        /\ [internal.c EXCEPT !.life = life].life = life
    BY <2>1, Bodies
  <2>3. Dead([internal.c EXCEPT !.life = life])
    BY <2>2 DEF Dead
  <2> QED BY <1>1, <1>4, <2>2, <2>3
<1>5. CASE IntVoid
  BY <1>4, <1>5 DEF IntVoid
<1>6. CASE IntDelete
  BY <1>4, <1>6 DEF IntDelete
<1>7. CASE IntPay
  <2>1. internal.c \in Comparable /\ internal.c.body <= now /\ internal # None
    BY <1>7, Contents, StillDated DEF TypeOK, IntPay
  <2>2. UNCHANGED <<wk, link, dead>> /\ inbox' = inbox /\ PutInternal(internal.c)
    BY <1>7, <1>u DEF IntPay
  <2> QED BY <2>1, <2>2, MovesInternal
<1>8. CASE ExtCreate
  <2>1. PICK b \in {now} \cup (IF internal = None THEN {} ELSE {internal.c.body}) :
          MakeExternal(Active(b))
    BY <1>8 DEF ExtCreate
  <2>2. b \in Nat /\ b <= now
    BY <1>n, <2>1, StillDated
  <2> DEFINE y == [c |-> Active(b), at |-> now]
  <2>3. y \in Record /\ y # None /\ y.c = Active(b) /\ y.c.body <= now
    BY <1>n, <2>2, Bodies, Contents
  <2>4. /\ made = 0 /\ made < MaxExternal /\ made' = made + 1 /\ PutExternal(made + 1, Active(b))
        /\ inbox' = inbox \cup {FromExternal(1, now)}
    BY <1>8, <2>1 DEF ExtCreate, MakeExternal
  <2>6. made + 1 = 1 /\ made + 1 \in ExternalIds
    BY <2>4, Constants DEF ExternalIds
  <2>7. /\ external' = [external EXCEPT ![made + 1] = y] /\ clock' = now /\ internal' = internal
    BY <2>4 DEF PutExternal
  <2>5. UNCHANGED <<wk, link, dead>>
    BY <1>8, <1>u DEF ExtCreate
  <2> HIDE DEF y
  <2> QED BY <2>3, <2>4, <2>5, <2>6, <2>7, MovesExternal
<1>9. ASSUME NEW id \in ExternalIds, NEW op, NEW c \in Comparable, external[id] # None,
             ExternalUser(op, id, c), c.body <= now,
             Dead(external[id].c) => Dead(c), Dead(c) \/ c.body > clock
      PROVE  UsersMove
  <2> DEFINE y == [c |-> c, at |-> now]
  <2>1. y \in Record /\ y # None /\ y.c = c
    BY <1>n, Contents
  <2>2. id <= made /\ (Ended(external[id]) => Dead(c))
    BY <1>9 DEF Made, Ended
  <2>3. /\ external' = [external EXCEPT ![id] = y] /\ clock' = now /\ internal' = internal
        /\ made' = made /\ inbox' = inbox \cup {FromExternal(id, now)}
        /\ UNCHANGED <<wk, link, dead>>
    BY <1>9, <1>u DEF ExternalUser, PutExternal
  <2>4. Ended(external[id]) => Ended(y)
    BY <2>1, <2>2 DEF Ended
  <2> HIDE DEF y
  <2> QED BY <1>9, <2>1, <2>2, <2>3, <2>4, MovesExternal
<1>10. ASSUME NEW id \in ExternalIds, ExtEdit(id) PROVE UsersMove
  BY <1>9, <1>10, <1>n, Bodies DEF ExtEdit
<1>11. ASSUME NEW id \in ExternalIds, ExtVoid(id) PROVE UsersMove
  <2>1. external[id] # None /\ external[id].c \in Comparable /\ external[id].c.body <= now
    BY <1>11, StillDated, Contents DEF ExtVoid, TypeOK
  <2> QED BY <1>9, <1>11, <2>1, Bodies DEF ExtVoid
<1>p. ASSUME NEW id \in ExternalIds, ExtPay(id) PROVE UsersMove
  <2> DEFINE c == external[id].c
             y == [c |-> c, at |-> now]
  <2>1. external[id] # None /\ c \in Comparable /\ c.body <= now /\ id <= made
    BY <1>p, StillDated, Contents DEF ExtPay, TypeOK, Made
  <2>2. y \in Record /\ y # None /\ y.c = c
    BY <1>n, <2>1, Contents
  <2>3. /\ external' = [external EXCEPT ![id] = y] /\ clock' = now /\ internal' = internal
        /\ made' = made /\ inbox' \in {inbox, inbox \cup {FromExternal(id, now)}}
        /\ UNCHANGED <<wk, link, dead>>
    BY <1>p, <1>u DEF ExtPay, PutExternal
  <2> HIDE DEF y
  <2>4. Alike(y, external[id]) /\ (Ended(external[id]) => Ended(y))
    BY <2>1, <2>2 DEF Alike, Ended
  <2> QED BY <2>1, <2>2, <2>3, <2>4, MovesExternal
<1>12. ASSUME NEW id \in ExternalIds, ExtDelete(id) PROVE UsersMove
  <2>1. ~Crashes /\ id <= made
    BY <1>12, <1>u DEF Steady, ExtDelete, Made
  <2>2. /\ external' = [external EXCEPT ![id] = None] /\ clock' = now /\ internal' = internal
        /\ made' = made /\ inbox' = inbox \cup {FromExternal(id, now)}
        /\ UNCHANGED <<wk, link, dead>>
    BY <1>12, <1>u DEF ExtDelete
  <2>3. Ended(None)
    BY DEF Ended
  <2> QED BY <2>1, <2>2, <2>3, MovesExternal
<1> QED
  BY <1>2, <1>3, <1>5, <1>6, <1>7, <1>8, <1>10, <1>11, <1>12, <1>p DEF User

-----------------------------------------------------------------------------
(* The worker *)

\* The invariant, at a worker w that acts.
Going(w) ==
  /\ Steady /\ TypeOK /\ IInv
  /\ Made(external, made, link) /\ Dated(internal, external, link, inbox, clock)
  /\ Knows(wk[w], internal, external, link, inbox, made, clock)

\* Its next locals are t, and it is the only one.
LEMMA WorkerGoes ==
  ASSUME NEW w \in Workers, Going(w), NEW t \in Worker, wk' = [wk EXCEPT ![w] = t],
         Made(external', made', link'), Dated(internal', external', link', inbox', clock'),
         Knows(t, internal', external', link', inbox', made', clock')
  PROVE  Converging'
<1>1. \A v \in Workers : wk'[v] = t
  BY DEF Going, Steady, TypeOK
<1> QED BY <1>1 DEF Converging

\* It lays its event down.
LEMMA WorkerRests ==
  ASSUME NEW w \in Workers, Going(w), wk' = [wk EXCEPT ![w] = Idle],
         Made(external', made', link'), Dated(internal', external', link', inbox', clock'),
         link' # None => Announced(inbox', internal', external'[link'.ext], link')
  PROVE  Converging'
<1>1. /\ Idle \in Worker /\ Idle.pc = "idle" /\ Idle.x = None /\ Idle.l = None /\ Idle.i = None
  BY IdleWorker DEF Idle
<1>2. Told(Idle, inbox', made') /\ Unlinked(Idle, link') /\ Linked(Idle, link') /\ Earlier(Idle, clock')
  BY <1>1 DEF Told, Unlinked, Linked, Earlier
<1>3. \A evs : ReadIn(Idle, internal', evs) /\ ReadOut(Idle, external', evs) /\ Applied(Idle, internal', external', evs)
  BY <1>1 DEF ReadIn, ReadOut, Applied
<1>4. Resolves(Idle, external', link') /\ Covered(Idle, internal', external', link', inbox')
  BY <1>1 DEF Resolves, Covered
<1>5. Knows(Idle, internal', external', link', inbox', made', clock')
  BY <1>2, <1>3, <1>4 DEF Knows
<1> QED BY <1>1, <1>5, WorkerGoes

\* It only looks.
LEMMA WorkerLooks ==
  ASSUME NEW w \in Workers, Going(w), UNCHANGED <<sides, link>>,
         \A e \in inbox' : e.at <= clock
  PROVE  /\ UNCHANGED <<internal, external, made, clock, link>>
         /\ Made(external', made', link')
         /\ Dated(internal', external', link', inbox', clock')
<1>1. UNCHANGED <<internal, external, made, clock, link>>
  BY DEF sides
<1> QED BY <1>1 DEF Going, Made, Dated

\* What is known of a worker that acts.
LEMMA OwnKnowledge ==
  ASSUME NEW w \in Workers, Going(w)
  PROVE  /\ wk[w] \in Worker /\ Placed(wk[w], internal, link) /\ Fresh(wk[w], external, clock)
         /\ wk[w].pc # "idle" => wk[w].ev \in Event /\ wk[w].ev \in inbox
         /\ wk[w].pc \notin {"repoint", "mark", "finish"} /\ link # None =>
              Announced(inbox, internal, external[link.ext], link)
         /\ \A e \in inbox : e.at <= clock
<1>1. /\ wk[w] \in Worker /\ Placed(wk[w], internal, link) /\ Fresh(wk[w], external, clock)
      /\ wk[w].pc # "idle" => wk[w].ev \in Event
  BY OwnEvent DEF Going
<1>2. wk[w].pc # "idle" => wk[w].ev \in inbox
  BY DEF Going, Knows, Told
<1>3. wk[w].pc \notin {"repoint", "mark", "finish"} /\ link # None =>
        Announced(inbox, internal, external[link.ext], link)
  BY DEF Going, Knows, Covered
<1> QED BY <1>1, <1>2, <1>3 DEF Going, Dated

LEMMA ClaimGoes ==
  ASSUME NEW w \in Workers, Going(w), NEW e \in inbox, Claim(w, e) PROVE Converging'
<1> DEFINE claimed == [e EXCEPT !.tries = IF @ < MaxAttempts THEN @ + 1 ELSE @]
           t == [Idle EXCEPT !.pc = "lookup", !.ev = claimed]
<1>1. /\ e \in Event /\ claimed \in Event /\ claimed.src = e.src /\ claimed.id = e.id
      /\ claimed.at = e.at
  BY Constants DEF Going, TypeOK, Event
<1>2. /\ inbox' = (inbox \ {e}) \cup {claimed} /\ wk' = [wk EXCEPT ![w] = t]
      /\ UNCHANGED <<sides, link>> /\ wk[w].pc = "idle"
  BY DEF Claim
<1> HIDE DEF claimed
<1>3. /\ t \in Worker /\ t.pc = "lookup" /\ t.ev = claimed
      /\ t.i = None /\ t.x = None /\ t.l = None
  <2>1. Idle \in Worker /\ Idle.i = None /\ Idle.x = None /\ Idle.l = None
    BY IdleWorker DEF Idle
  <2>2. "lookup" \in Stages
    BY DEF Stages
  <2> QED BY <1>1, <2>1, <2>2 DEF Worker
<1> HIDE DEF t
<1>4. \A o \in inbox' : o.at <= clock
  BY <1>1, <1>2, OwnKnowledge
<1>5. /\ UNCHANGED <<internal, external, made, clock, link>>
      /\ Made(external', made', link')
      /\ Dated(internal', external', link', inbox', clock')
  BY <1>2, <1>4, WorkerLooks
<1>6. /\ TellsInternal(inbox) => TellsInternal(inbox')
      /\ \A id : TellsExternal(inbox, id) => TellsExternal(inbox', id)
  BY <1>1, <1>2 DEF TellsInternal, TellsExternal
<1>7. Covered(t, internal', external', link', inbox')
  BY <1>2, <1>3, <1>5, <1>6, OwnKnowledge, MoreAnnounced DEF Covered
<1>8. Told(t, inbox', made') /\ Unlinked(t, link') /\ Linked(t, link') /\ Earlier(t, clock')
  BY <1>1, <1>2, <1>3, <1>4, <1>5 DEF Told, Unlinked, Linked, Earlier
<1>9. /\ \A evs : ReadIn(t, internal', evs) /\ ReadOut(t, external', evs)
                  /\ Applied(t, internal', external', evs)
      /\ Resolves(t, external', link')
  BY <1>3 DEF ReadIn, ReadOut, Applied, Resolves
<1>10. Knows(t, internal', external', link', inbox', made', clock')
  BY <1>7, <1>8, <1>9 DEF Knows
<1> QED BY <1>2, <1>3, <1>5, <1>10, WorkerGoes

LEMMA LookupGoes ==
  ASSUME NEW w \in Workers, Going(w), Lookup(w) PROVE Converging'
<1> DEFINE r == wk[w]
           l == FoundLink(r.ev)
           t == [r EXCEPT
                   !.l = l,
                   !.pc = IF l = None /\ r.ev.src = "external" THEN "readExt" ELSE "readInt",
                   !.xid = IF l = None THEN r.ev.id ELSE l.ext]
<1>0. /\ r.pc = "lookup" /\ r \in Worker /\ r.ev \in Event /\ r.ev \in inbox
      /\ Placed(r, internal, link) /\ wk' = [wk EXCEPT ![w] = t]
      /\ UNCHANGED <<sides, link, inbox>>
      /\ \A e \in inbox : e.at <= clock
  BY OwnKnowledge DEF Lookup
<1>1. /\ l = None \/ (l = link /\ l \in Link /\ l # None)
      /\ l = None /\ link # None => r.ev.src # "internal" /\ link.ext # r.ev.id
  BY DEF FoundLink, Going, TypeOK
<1>2. /\ UNCHANGED <<internal, external, made, clock, link, inbox>>
      /\ Made(external', made', link')
      /\ Dated(internal', external', link', inbox', clock')
  BY <1>0, WorkerLooks
<1>3. r.x = None /\ r.i = None
  BY <1>0 DEF Placed, Going, Knows, Told
<1>a. wk[w] = r /\ r.ev.src \in {"internal", "external"}
      /\ r.ev.id \in 0..MaxExternal /\ (l # None => l.ext \in 0..MaxExternal)
  BY <1>0, <1>1, Constants DEF Event, Link, ExternalIds
<1> HIDE DEF l, r
<1>4. /\ t.l = l /\ t.ev = r.ev /\ t.x = r.x /\ t.i = r.i
      /\ t.pc = IF l = None /\ r.ev.src = "external" THEN "readExt" ELSE "readInt"
      /\ t.xid = IF l = None THEN r.ev.id ELSE l.ext
  BY <1>0 DEF Worker
<1>b. t \in Worker
  <2>1. \A pc \in Stages, k \in Link \cup {None}, n \in 0..MaxExternal :
          [r EXCEPT !.l = k, !.pc = pc, !.xid = n] \in Worker
    BY <1>0 DEF Worker
  <2>2. /\ (IF l = None /\ r.ev.src = "external" THEN "readExt" ELSE "readInt") \in Stages
        /\ l \in Link \cup {None}
        /\ (IF l = None THEN r.ev.id ELSE l.ext) \in 0..MaxExternal
    BY <1>1, <1>a DEF Stages
  <2> QED BY <2>1, <2>2
<1> HIDE DEF t
<1>5. t.pc \in {"readExt", "readInt"} /\ (t.pc = "readExt" => t.l = None)
  BY <1>4
<1>6. l # None => l.ext <= made /\ (l.base # None => l.base.body <= clock)
  BY <1>1 DEF Going, Made, Dated
<1>7. Told(t, inbox', made') /\ Linked(t, link') /\ Earlier(t, clock')
  BY <1>0, <1>1, <1>2, <1>3, <1>4, <1>5, <1>6 DEF Told, Linked, Earlier
<1>8. Unlinked(t, link')
  BY <1>1, <1>2, <1>4, <1>5, <1>a DEF Unlinked
<1>9. Covered(t, internal', external', link', inbox')
  BY <1>0, <1>2, <1>5, <1>a, OwnKnowledge DEF Covered
<1>10. /\ \A evs : ReadIn(t, internal', evs) /\ ReadOut(t, external', evs)
                  /\ Applied(t, internal', external', evs)
       /\ Resolves(t, external', link')
  BY <1>3, <1>4, <1>5 DEF ReadIn, ReadOut, Applied, Resolves
<1>11. Knows(t, internal', external', link', inbox', made', clock')
  BY <1>7, <1>8, <1>9, <1>10 DEF Knows
<1> QED BY <1>0, <1>2, <1>11, <1>a, <1>b, WorkerGoes

\* An event is settled that the others do not need.
LEMMA Drops ==
  ASSUME NEW evs, NEW e
  PROVE  /\ e.src # "internal" /\ TellsInternal(evs) => TellsInternal(evs \ {e})
         /\ \A id : /\ e.src # "external" \/ e.id # id
                    /\ TellsExternal(evs, id)
                    => TellsExternal(evs \ {e}, id)
  BY DEF TellsInternal, TellsExternal

LEMMA WorkerDone ==
  ASSUME NEW w \in Workers, Going(w), Done(w), UNCHANGED <<sides, link>>,
         link # None => Announced(inbox \ {wk[w].ev}, internal, external[link.ext], link)
  PROVE  Converging'
<1>1. inbox' = inbox \ {wk[w].ev} /\ wk' = [wk EXCEPT ![w] = Idle]
  BY DEF Done
<1>2. \A e \in inbox' : e.at <= clock
  BY <1>1, OwnKnowledge
<1> QED BY <1>1, <1>2, WorkerLooks, WorkerRests

\* It fails, and the event stays.
LEMMA WorkerFails ==
  ASSUME NEW w \in Workers, Going(w), NEW permanent, Fails(w, permanent), dead' = {},
         UNCHANGED <<sides, link>>, wk[w].pc \notin {"repoint", "mark", "finish"}
  PROVE  Converging'
<1>1. inbox' = inbox /\ wk' = [wk EXCEPT ![w] = Idle]
  BY DEF Fails
<1>2. \A e \in inbox' : e.at <= clock
  BY <1>1, OwnKnowledge
<1>3. /\ UNCHANGED <<internal, external, made, clock, link>>
      /\ Made(external', made', link') /\ Dated(internal', external', link', inbox', clock')
  BY <1>2, WorkerLooks
<1> QED BY <1>1, <1>3, OwnKnowledge, WorkerRests

\* What the worker has read is past.
LEMMA StillEarlier ==
  ASSUME NEW r \in Worker, NEW time \in Nat, NEW later \in Nat, time <= later, Earlier(r, time),
         r.pc # "idle", r.ev \in Event,
         NEW t, t.pc # "idle", t.ev = r.ev, t.i = r.i \/ (t.i # None => t.i.c.body <= later),
         t.x = r.x \/ (t.x # None => t.x.c.body <= later), t.l = r.l
  PROVE  Earlier(t, later)
<1>1. /\ r.ev.at \in Nat
      /\ r.i # None => r.i.c.body \in Nat
      /\ r.x # None => r.x.c.body \in Nat
      /\ r.l # None /\ r.l.base # None => r.l.base.body \in Nat
  BY Contents, Bodies DEF Worker, Event, Link
<1> QED BY <1>1 DEF Earlier

LEMMA ReadInternalGoes ==
  ASSUME NEW w \in Workers, Going(w), ReadInternal(w) PROVE Converging'
<1> DEFINE r == wk[w]
<1>0. /\ r.pc = "readInt" /\ r \in Worker /\ r.ev \in Event /\ r.ev \in inbox
      /\ Placed(r, internal, link) /\ UNCHANGED <<sides, link>>
      /\ \A e \in inbox : e.at <= clock
  BY OwnKnowledge DEF ReadInternal
<1>1. /\ UNCHANGED <<internal, external, made, clock, link>>
      /\ inbox' = inbox =>
           Made(external', made', link') /\ Dated(internal', external', link', inbox', clock')
  BY <1>0, WorkerLooks DEF sides
<1>k. Knows(r, internal, external, link, inbox, made, clock)
  BY DEF Going
<1> DEFINE pc == IF internal = None THEN "insert" ELSE "lines"
           t == [r EXCEPT !.pc = pc, !.i = internal]
<1>2. /\ t \in Worker /\ t.pc = pc /\ t.i = internal /\ t.ev = r.ev
      /\ t.x = r.x /\ t.l = r.l /\ t.xid = r.xid /\ wk' = [wk EXCEPT ![w] = t] /\ inbox' = inbox
  BY <1>0 DEF ReadInternal, Going, TypeOK, Worker, Stages
<1>3. pc \in {"insert", "lines"} /\ (pc = "insert" => r.l = None)
  BY <1>0 DEF Placed
<1> HIDE DEF pc, t
<1>4. Told(t, inbox', made') /\ Unlinked(t, link') /\ Linked(t, link')
  <2>1. Told(t, inbox', made')
    BY <1>0, <1>1, <1>2, <1>3, <1>k DEF Knows, Told
  <2>2. Unlinked(t, link')
    BY <1>0, <1>1, <1>2, <1>3, <1>k DEF Knows, Unlinked
  <2>3. Linked(t, link')
    BY <1>0, <1>1, <1>2, <1>3, <1>k DEF Knows, Linked
  <2> QED BY <2>1, <2>2, <2>3
<1>5. Earlier(t, clock')
  BY <1>0, <1>1, <1>2, <1>3, <1>k DEF Going, Dated, Knows, Earlier
<1>6. ReadIn(t, internal', inbox' \ {t.ev})
  BY <1>1, <1>2 DEF ReadIn
<1>7. ReadOut(t, external', inbox' \ {t.ev})
  BY <1>0, <1>1, <1>2, <1>3, <1>k DEF ReadOut, Knows
<1>8. Resolves(t, external', link')
  <2>1. Crashes /\ link # None /\ link.base # None /\ Dead(link.base) => Dead(internal.c)
    BY <1>0, OwnKnowledge DEF Announced, BothDead
  <2>2. r.l # None => link # None
    BY <1>0, <1>k DEF Knows, Linked
  <2> QED BY <1>1, <1>2, <1>3, <2>1, <2>2 DEF Resolves
<1>9. Applied(t, internal', external', inbox' \ {t.ev})
  BY <1>2, <1>3 DEF Applied
<1>10. Covered(t, internal', external', link', inbox')
  BY <1>0, <1>1, <1>2, <1>3, OwnKnowledge DEF Covered
<1>11. Knows(t, internal', external', link', inbox', made', clock')
  BY <1>4, <1>5, <1>6, <1>7, <1>8, <1>9, <1>10 DEF Knows
<1> QED BY <1>1, <1>2, <1>11, WorkerGoes

\* The lines are what the row said, or the other notifications tell that the
\* invoice has changed.
LEMMA ReadLinesGoes ==
  ASSUME NEW w \in Workers, Going(w), ReadLines(w) PROVE Converging'
<1> DEFINE r == wk[w]
<1>0. /\ r.pc = "lines" /\ r \in Worker /\ r.ev \in Event /\ r.ev \in inbox
      /\ Placed(r, internal, link)
      /\ Knows(r, internal, external, link, inbox, made, clock)
      /\ link # None => Announced(inbox, internal, external[link.ext], link)
      /\ TypeOK /\ IInv /\ Made(external, made, link) /\ Dated(internal, external, link, inbox, clock)
  BY OwnKnowledge DEF ReadLines, Going
<1>1. /\ r.i \in Record /\ r.i # None /\ internal # None /\ internal \in Record
      /\ clock' \in {clock, now} /\ inbox' \subseteq inbox
      /\ UNCHANGED <<internal, external, made, link>>
  BY <1>0, ReadsLines DEF TypeOK
<1>2. clock \in Nat /\ now \in Nat /\ clock <= now /\ clock' \in Nat /\ clock <= clock'
  BY <1>0, <1>1, Sent DEF TypeOK
<1>3. Made(external', made', link') /\ Dated(internal', external', link', inbox', clock')
  BY <1>0, <1>1, StillDated DEF Made, Dated
<1>4. CASE wk' = [wk EXCEPT ![w] = Idle] /\ r.l = None /\ r.ev.src = "internal"
  <2>1. link = None
    BY <1>0, <1>4 DEF Knows, Unlinked
  <2> QED BY <1>1, <1>3, <1>4, <2>1, WorkerRests
<1>5. ASSUME NEW body \in Read(r.i), body \in Nat, clock' = IF body = now THEN now ELSE clock,
             NEW pc \in {"readExt", "newLink", "find"},
             wk' = [wk EXCEPT ![w] = Lined(r, pc, body)], inbox' = inbox,
             pc = "readExt" <=> r.l # None,
             pc = "newLink" <=> r.l = None /\ r.ev.src = "external"
      PROVE  Converging'
  <2> DEFINE t == Lined(r, pc, body)
  <2>0. pc \in Stages
    BY DEF Stages
  <2>1. /\ t \in Worker /\ t.pc = pc /\ t.ev = r.ev /\ t.x = r.x /\ t.xid = r.xid
        /\ t.l = r.l /\ t.i # None /\ t.i.c.body = body /\ t.i.c.life = r.i.c.life
        /\ body = r.i.c.body => t.i = r.i
    BY <1>0, <1>1, <1>5, <2>0, LinedIs
  <2>2. wk' = [wk EXCEPT ![w] = t]
    BY <1>5
  <2> HIDE DEF t
  <2>3. Told(t, inbox', made')
    BY <1>0, <1>1, <1>5, <2>1 DEF Knows, Told
  <2>4. Unlinked(t, link')
    BY <1>0, <1>1, <1>5, <2>1 DEF Knows, Unlinked, Event
  <2>5. Linked(t, link')
    BY <1>0, <1>1, <1>5, <2>1 DEF Knows, Linked
  <2>6. body <= clock'
    <3>1. r.i.c.body <= clock /\ r.i.c.body \in Nat /\ internal.c.body <= clock /\ internal.c.body \in Nat
      BY <1>0, <1>1, Contents, Bodies DEF Knows, Earlier, Dated
    <3>2. body \in {r.i.c.body, internal.c.body, now}
      BY DEF Read
    <3> QED BY <1>2, <1>5, <3>1, <3>2
  <2>7. Earlier(t, clock')
    BY <1>0, <1>2, <2>1, <2>6, StillEarlier DEF Knows
  <2>8. ReadIn(t, internal', inbox' \ {t.ev})
    <3>1. /\ internal.c = r.i.c \/ TellsInternal(inbox \ {r.ev})
          /\ Dead(r.i.c) => Dead(internal.c)
      BY <1>0, <1>1 DEF Knows, ReadIn
    <3>2. internal.c = r.i.c => t.i = r.i
      BY <2>1 DEF Read
    <3>3. Dead(t.i.c) <=> Dead(r.i.c)
      BY <2>1 DEF Dead
    <3> QED BY <1>1, <1>5, <2>1, <3>1, <3>2, <3>3 DEF ReadIn
  <2>9. ReadOut(t, external', inbox' \ {t.ev})
    BY <1>0, <1>1, <1>5, <2>1 DEF Knows, ReadOut
  <2>10. Resolves(t, external', link')
    <3>1. Dead(t.i.c) <=> Dead(r.i.c)
      BY <2>1 DEF Dead
    <3> QED BY <1>0, <1>1, <2>1, <3>1 DEF Knows, Resolves
  <2>11. Applied(t, internal', external', inbox' \ {t.ev}) /\ Covered(t, internal', external', link', inbox')
    BY <1>0, <1>1, <1>5, <2>1 DEF Applied, Covered
  <2>12. Knows(t, internal', external', link', inbox', made', clock')
    BY <2>3, <2>4, <2>5, <2>7, <2>8, <2>9, <2>10, <2>11 DEF Knows
  <2> QED BY <1>3, <2>1, <2>2, <2>12, WorkerGoes
<1>6. \E body \in Read(r.i) :
        /\ body \in Nat /\ clock' = IF body = now THEN now ELSE clock
        /\ \/ wk' = [wk EXCEPT ![w] = Idle] /\ r.l = None /\ r.ev.src = "internal"
           \/ \E pc \in {"readExt", "newLink", "find"} :
                /\ wk' = [wk EXCEPT ![w] = Lined(r, pc, body)] /\ inbox' = inbox
                /\ pc = "readExt" <=> r.l # None
                /\ pc = "newLink" <=> r.l = None /\ r.ev.src = "external"
  BY <1>0, ReadsLines
<1>7. CASE ~(wk' = [wk EXCEPT ![w] = Idle] /\ r.l = None /\ r.ev.src = "internal")
  <2>1. PICK body \in Read(r.i) :
          /\ body \in Nat /\ clock' = IF body = now THEN now ELSE clock
          /\ \E pc \in {"readExt", "newLink", "find"} :
               /\ wk' = [wk EXCEPT ![w] = Lined(r, pc, body)] /\ inbox' = inbox
               /\ pc = "readExt" <=> r.l # None
               /\ pc = "newLink" <=> r.l = None /\ r.ev.src = "external"
    BY <1>6, <1>7
  <2>2. PICK pc \in {"readExt", "newLink", "find"} :
          /\ wk' = [wk EXCEPT ![w] = Lined(r, pc, body)] /\ inbox' = inbox
          /\ pc = "readExt" <=> r.l # None
          /\ pc = "newLink" <=> r.l = None /\ r.ev.src = "external"
    BY <2>1
  <2> QED BY <1>5, <2>1, <2>2
<1> QED BY <1>4, <1>7

\* A worker that has read both sides and resolved them: its snapshot base is
\* the link's, and what it has read is there or announced by the others.
LEMMA DecisionKnown ==
  ASSUME NEW t \in Worker, NEW int, NEW ext, NEW lk \in Link, NEW evs, NEW n, NEW time,
         NEW intAt, NEW extAt,
         t.ev \in evs, t.i \in Record, t.l \in Link, t.l # None, t.x \in Record \cup {None},
         t.xid = lk.ext, t.l.base = lk.base, t.xid <= n, Earlier(t, time),
         t.d = Decision(lk.base, t.i.c, Seen(t.x, t.l, t.i), intAt, extAt),
         t.pc = AfterDecision(t.d, t.x),
         int.c = t.i.c \/ TellsInternal(evs \ {t.ev}),
         Dead(t.i.c) => Dead(int.c),
         Alike(ext[t.xid], t.x) \/ TellsExternal(evs \ {t.ev}, t.xid),
         Ended(t.x) => Ended(ext[t.xid]),
         Crashes => t.x # None,
         t.d # "noop" /\ lk.base # None => ext[t.xid] = t.x,
         Crashes /\ t.d # "noop" /\ lk.base # None /\ Dead(lk.base) => Dead(t.i.c),
         Announced(evs, int, ext[lk.ext], lk)
  PROVE  Knows(t, int, ext, lk, evs, n, time)
<1> DEFINE seen == Seen(t.x, t.l, t.i)
           m == MergedBy(t)
<1>1. /\ t.pc \in {"mark", "writeInt", "recreate", "writeExt"}
      /\ t.pc = "mark" <=> t.d = "noop"
      /\ t.pc = "writeInt" => ~InternalWins(t.d)
      /\ t.pc \in {"recreate", "writeExt"} => InternalWins(t.d)
      /\ t.pc = "recreate" => t.x = None
  BY DEF AfterDecision, InternalWins
<1>2. t.i.c \in Comparable /\ seen \in Comparable /\ m \in Comparable /\ t.i # None
  BY Resolved, Contents, NoneOK DEF NoneOK, MergedBy
<1>3. t.d = "noop" => m = seen /\ m = t.i.c
  BY DEF Decision, InternalWins, MergedBy, Merged
<1>4. (InternalWins(t.d) => m = t.i.c) /\ (~InternalWins(t.d) => m = seen)
  BY DEF MergedBy, Merged
<1>5. (t.x # None => seen = t.x.c) /\ (t.x = None => seen.life = "deleted")
  <2>1. CASE t.x # None
    BY <2>1 DEF Seen
  <2>2. CASE t.x = None
    <3> DEFINE b == IF t.l.base # None THEN t.l.base ELSE t.i.c
    <3>1. b \in Comparable /\ seen = [b EXCEPT !.life = "deleted"]
      BY <1>2, <2>2 DEF Seen, Link
    <3> HIDE DEF b, seen
    <3> QED BY <2>2, <3>1, Bodies
  <2> QED BY <2>1, <2>2
<1> HIDE DEF seen, m
<1>6. SeenAs(t.x, seen) = seen
  BY <1>2, <1>5, Bodies DEF SeenAs
<1>7. Dead(seen) <=> Ended(t.x)
  BY <1>5 DEF Dead, Ended
<1>8. Told(t, evs, n) /\ Unlinked(t, lk) /\ Linked(t, lk)
  BY <1>1, NoneOK DEF NoneOK, Told, Unlinked, Linked
<1>9. ReadIn(t, int, evs \ {t.ev}) /\ ReadOut(t, ext, evs \ {t.ev})
  BY DEF ReadIn, ReadOut
<1>10. Resolves(t, ext, lk)
  <2>1. ASSUME Crashes, t.d # "noop", lk.base # None, Dead(lk.base)
        PROVE  Dead(m)
    <3>1. BothDead(int, ext[lk.ext])
      BY <2>1 DEF Announced
    <3>2. Ended(t.x)
      BY <2>1, <3>1 DEF BothDead
    <3> QED BY <1>4, <1>7, <2>1, <3>2
  <2>2. ASSUME Crashes, t.pc = "writeInt", lk.base # None
        PROVE  SeenAs(ext[t.xid], lk.base) # lk.base
    <3>1. ext[t.xid] = t.x /\ SeenAs(t.x, lk.base) = seen
      BY <1>1, <2>2, SeenIs DEF seen
    <3>2. t.d # "noop" /\ ~InternalWins(t.d)
      BY <1>1, <2>2
    <3>3. seen # lk.base
      BY <2>2, <3>2 DEF Decision, InternalWins, seen
    <3> QED BY <3>1, <3>3
  <2> QED BY <1>1, <2>1, <2>2 DEF Resolves, m
<1>11. Applied(t, int, ext, evs \ {t.ev})
  <2> SUFFICES ASSUME t.pc = "mark" PROVE Applied(t, int, ext, evs \ {t.ev})
    BY <1>1 DEF Applied
  <2>1. m = seen /\ m = t.i.c
    BY <1>1, <1>3
  <2>2. SeenAs(ext[t.xid], m) = m \/ TellsExternal(evs \ {t.ev}, t.xid)
    BY <1>6, <2>1, SeenAlike
  <2>3. Dead(m) => BothDead(int, ext[t.xid])
    BY <1>7, <2>1 DEF BothDead
  <2> QED BY <2>1, <2>2, <2>3 DEF Applied, m
<1>12. Covered(t, int, ext, lk, evs)
  BY <1>1 DEF Covered
<1> QED BY <1>8, <1>9, <1>10, <1>11, <1>12 DEF Knows

LEMMA ReadExternalGoes ==
  ASSUME NEW w \in Workers, Going(w), ReadExternal(w) PROVE Converging'
<1> DEFINE r == wk[w]
           x == external[r.xid]
<1>0. /\ r.pc = "readExt" /\ r \in Worker /\ r.ev \in Event /\ r.ev \in inbox /\ r.xid \in ExternalIds
      /\ Placed(r, internal, link) /\ UNCHANGED <<sides, link>>
      /\ \A e \in inbox : e.at <= clock
  BY OwnKnowledge DEF ReadExternal, Placed
<1>1. /\ UNCHANGED <<internal, external, made, clock, link>>
      /\ inbox' = inbox =>
           Made(external', made', link') /\ Dated(internal', external', link', inbox', clock')
  BY <1>0, WorkerLooks DEF sides
<1>2. x \in Record \cup {None}
  BY <1>0 DEF Going, TypeOK
<1>3. /\ Knows(r, internal, external, link, inbox, made, clock)
      /\ link # None => Announced(inbox, internal, external[link.ext], link)
  BY <1>0, OwnKnowledge DEF Going
<1>4. x # None => r.xid <= made /\ x.c.body <= clock
  BY <1>0 DEF Going, Made, Dated
<1>5. CASE r.l = None /\ x = None
  <2>1. Done(w)
    BY <1>5 DEF ReadExternal
  <2>2. link # None => r.ev.src = "external" /\ r.ev.id # link.ext
    BY <1>0, <1>3, <1>5 DEF Knows, Unlinked
  <2>3. link # None => Announced(inbox \ {r.ev}, internal, external[link.ext], link)
    BY <1>3, <2>2, Drops, MoreAnnounced
  <2> QED BY <1>0, <2>1, <2>3, WorkerDone
<1>6. CASE r.l = None /\ x # None
  <2> DEFINE t == [r EXCEPT !.pc = "readInt", !.x = x]
  <2>1. inbox' = inbox /\ wk' = [wk EXCEPT ![w] = t]
    BY <1>6 DEF ReadExternal
  <2>2. /\ t \in Worker /\ t.pc = "readInt" /\ t.x = x /\ t.ev = r.ev
        /\ t.i = r.i /\ t.l = None /\ t.xid = r.xid
    BY <1>0, <1>2, <1>6 DEF Worker, Stages
  <2> HIDE DEF t
  <2>3. Told(t, inbox', made') /\ Earlier(t, clock')
    BY <1>0, <1>1, <1>3, <1>4, <1>6, <2>1, <2>2 DEF Knows, Told, Earlier
  <2>4. Unlinked(t, link') /\ Linked(t, link')
    BY <1>0, <1>1, <1>3, <1>6, <2>1, <2>2 DEF Knows, Unlinked, Linked
  <2>5. ReadIn(t, internal', inbox' \ {t.ev}) /\ ReadOut(t, external', inbox' \ {t.ev})
    BY <1>1, <2>2 DEF ReadIn, ReadOut, Alike
  <2>6. Resolves(t, external', link') /\ Applied(t, internal', external', inbox' \ {t.ev})
    BY <2>2 DEF Resolves, Applied
  <2>7. Covered(t, internal', external', link', inbox')
    BY <1>1, <1>3, <2>1, <2>2 DEF Covered
  <2>8. Knows(t, internal', external', link', inbox', made', clock')
    BY <2>3, <2>4, <2>5, <2>6, <2>7 DEF Knows
  <2> QED BY <1>1, <2>1, <2>2, <2>8, WorkerGoes
<1>7. CASE r.l # None
  <2> DEFINE seen == Seen(x, r.l, r.i)
             d == Decision(r.l.base, r.i.c, seen, r.i.at, ExternalAt(x, r.ev, r.l))
             t == [r EXCEPT !.pc = AfterDecision(d, x), !.x = x, !.d = d]
  <2>1. /\ r.l \in Link /\ link \in Link /\ link # None /\ r.i # None /\ r.i \in Record /\ internal # None
        /\ r.xid = link.ext /\ r.l.base = link.base /\ r.xid <= made
    BY <1>0, <1>3, <1>7, NoneOK DEF NoneOK, Placed, Worker, Knows, Linked, Told
  <2>2. /\ internal.c = r.i.c \/ TellsInternal(inbox \ {r.ev})
        /\ Dead(r.i.c) => Dead(internal.c)
    BY <1>0, <1>3, <2>1 DEF Knows, ReadIn
  <2>3. CASE IsEcho(r.ev, r.i, seen, r.l)
    <3>1. Done(w) /\ link.base # None
      BY <1>7, <2>1, <2>3 DEF ReadExternal, IsEcho
    <3>2. link.base = IF r.ev.src = "internal" THEN r.i.c ELSE SeenAs(x, link.base)
      BY <2>1, <2>3, <3>1, SeenIs DEF IsEcho
    <3>3. Announced(inbox \ {r.ev}, internal, external[link.ext], link)
      <4>1. CASE r.ev.src = "internal"
        <5>1. TellsExternal(inbox, link.ext) => TellsExternal(inbox \ {r.ev}, link.ext)
          BY <4>1, Drops
        <5>2. internal.c # link.base => TellsInternal(inbox \ {r.ev})
          BY <2>2, <3>2, <4>1
        <5> QED BY <1>3, <2>1, <3>1, <5>1, <5>2 DEF Announced
      <4>2. CASE r.ev.src # "internal"
        <5>1. TellsInternal(inbox) => TellsInternal(inbox \ {r.ev})
          BY <4>2, Drops
        <5>2. SeenAs(external[link.ext], link.base) = link.base
          BY <2>1, <3>2, <4>2
        <5> QED BY <1>3, <2>1, <3>1, <5>1, <5>2 DEF Announced
      <4> QED BY <4>1, <4>2
    <3> QED BY <1>0, <3>1, <3>3, WorkerDone
  <2>4. CASE ~IsEcho(r.ev, r.i, seen, r.l)
    <3>1. inbox' = inbox /\ wk' = [wk EXCEPT ![w] = t]
      BY <1>7, <2>4 DEF ReadExternal
    <3>2. d \in Decisions /\ AfterDecision(d, x) \in Stages
      BY Decided DEF AfterDecision, Stages
    <3>3. /\ t.x = x /\ t.ev = r.ev /\ t.i = r.i /\ t.l = r.l /\ t.xid = r.xid
          /\ t.d = d /\ t.pc = AfterDecision(d, x)
      BY <1>0 DEF Worker
    <3>4. t \in Worker
      BY <1>0, <1>2, <3>2 DEF Worker
    <3>5. t.d = Decision(link.base, t.i.c, Seen(t.x, t.l, t.i), t.i.at, ExternalAt(t.x, t.ev, t.l))
      BY <2>1, <3>3
    <3> HIDE DEF d, t
    <3>6. Earlier(t, clock)
      BY <1>0, <1>3, <1>4, <2>1, <3>3 DEF Knows, Earlier, AfterDecision
    <3>7. Crashes => t.x # None
      BY <1>0, <2>1, <3>3 DEF Going, Made
    <3>8. Crashes /\ link.base # None /\ Dead(link.base) => Dead(t.i.c)
      BY <1>0, <1>3, <1>7, <3>3 DEF Knows, Resolves
    <3>9. Announced(inbox, internal, external[link.ext], link)
      BY <1>3, <2>1
    <3>10. external[t.xid] = t.x /\ Alike(external[t.xid], t.x) /\ t.xid = link.ext /\ t.xid <= made /\ t.l.base = link.base
      BY <2>1, <3>3 DEF Alike
    <3>11. /\ internal.c = t.i.c \/ TellsInternal(inbox \ {t.ev})
           /\ Dead(t.i.c) => Dead(internal.c)
           /\ t.ev \in inbox /\ t.i \in Record /\ t.l \in Link /\ t.l # None /\ t.x \in Record \cup {None}
           /\ t.pc = AfterDecision(t.d, t.x)
      BY <1>0, <1>2, <1>7, <2>1, <2>2, <3>3
    <3> HIDE DEF r, x, seen
    <3>12. Knows(t, internal, external, link, inbox, made, clock)
      BY <2>1, <3>4, <3>5, <3>6, <3>7, <3>8, <3>9, <3>10, <3>11, DecisionKnown
    <3>13. Knows(t, internal', external', link', inbox', made', clock')
      BY <1>1, <3>1, <3>12
    <3> QED BY <1>1, <3>1, <3>4, <3>13, WorkerGoes
  <2> QED BY <2>3, <2>4
<1> QED BY <1>5, <1>6, <1>7

LEMMA FindGoes ==
  ASSUME NEW w \in Workers, Going(w), Find(w) PROVE Converging'
<1> DEFINE r == wk[w]
<1>0. /\ r.pc = "find" /\ r \in Worker /\ r.ev \in Event /\ r.ev \in inbox
      /\ Placed(r, internal, link) /\ UNCHANGED <<sides, link, inbox>>
      /\ \A e \in inbox : e.at <= clock
  BY OwnKnowledge DEF Find
<1>1. /\ UNCHANGED <<internal, external, made, clock, link, inbox>>
      /\ Made(external', made', link') /\ Dated(internal', external', link', inbox', clock')
  BY <1>0, WorkerLooks DEF sides
<1>2. /\ Knows(r, internal, external, link, inbox, made, clock)
      /\ link # None => Announced(inbox, internal, external[link.ext], link)
      /\ r.l = None /\ r.ev.src = "internal"
  BY <1>0, OwnKnowledge DEF Going, Knows, Linked, Unlinked
<1>3. ASSUME NEW t \in Worker, wk' = [wk EXCEPT ![w] = t], t.pc \in {"create", "newLink"},
             t.ev = r.ev, t.i = r.i, t.l = r.l,
             \/ t.pc = "create" /\ t.x = r.x /\ t.xid = r.xid
             \/ t.xid \in ExternalIds /\ t.x = external[t.xid]
      PROVE  Converging'
  <2>1. t.x # None => t.xid <= made /\ t.x.c.body <= clock
    BY <1>0, <1>2, <1>3 DEF Going, Made, Dated, Knows, Told, Earlier
  <2>2. Told(t, inbox', made') /\ Earlier(t, clock')
    BY <1>0, <1>1, <1>2, <1>3, <2>1 DEF Knows, Told, Earlier
  <2>3. Unlinked(t, link') /\ Linked(t, link')
    BY <1>0, <1>1, <1>2, <1>3 DEF Knows, Unlinked, Linked
  <2>4. ReadIn(t, internal', inbox' \ {t.ev}) /\ ReadOut(t, external', inbox' \ {t.ev})
    BY <1>0, <1>1, <1>2, <1>3 DEF Knows, ReadIn, ReadOut, Alike
  <2>5. Resolves(t, external', link') /\ Applied(t, internal', external', inbox' \ {t.ev})
    BY <1>3 DEF Resolves, Applied
  <2>6. Covered(t, internal', external', link', inbox')
    BY <1>1, <1>2, <1>3 DEF Covered
  <2>7. Knows(t, internal', external', link', inbox', made', clock')
    BY <2>2, <2>3, <2>4, <2>5, <2>6 DEF Knows
  <2> QED BY <1>1, <1>3, <2>7, WorkerGoes
<1>4. ASSUME NEW id \in ExternalIds, external[id] # None,
             wk' = [wk EXCEPT ![w] = [r EXCEPT !.pc = "newLink", !.xid = id, !.x = external[id]]]
      PROVE  Converging'
  <2> DEFINE t == [r EXCEPT !.pc = "newLink", !.xid = id, !.x = external[id]]
  <2>1. /\ t.pc = "newLink" /\ t.ev = r.ev /\ t.i = r.i /\ t.l = r.l /\ t.xid = id
        /\ t.x = external[id]
    BY <1>0 DEF Worker
  <2>2. id \in 0..MaxExternal /\ external[id] \in Record \cup {None}
    BY Constants DEF ExternalIds, Going, TypeOK
  <2>3. t \in Worker /\ wk' = [wk EXCEPT ![w] = t]
    BY <1>0, <1>4, <2>2 DEF Worker, Stages
  <2> HIDE DEF t
  <2> QED BY <1>3, <2>1, <2>3
<1>5. ASSUME wk' = [wk EXCEPT ![w].pc = "create"] PROVE Converging'
  <2> DEFINE t == [r EXCEPT !.pc = "create"]
  <2>1. t \in Worker /\ t.pc = "create" /\ t.ev = r.ev /\ t.i = r.i /\ t.l = r.l /\ t.x = r.x /\ t.xid = r.xid
    BY <1>0 DEF Worker, Stages
  <2>2. wk' = [wk EXCEPT ![w] = t]
    BY <1>5
  <2> HIDE DEF t
  <2> QED BY <1>3, <2>1, <2>2
<1> QED BY <1>4, <1>5 DEF Find, Goes

\* A write to the accounting system, or a new record there.
LEMMA WritesOut ==
  ASSUME NEW w \in Workers, Going(w), NEW id \in ExternalIds, NEW y \in Record,
         external' = [external EXCEPT ![id] = y], clock' = now, UNCHANGED <<internal, link>>,
         y.c.body <= now,
         (made' = made /\ id <= made) \/ (made' = made + 1 /\ id = made + 1),
         \A e \in inbox' : e \in inbox \/ e = FromExternal(id, now)
  PROVE  /\ Made(external', made', link')
         /\ Dated(internal', external', link', inbox', clock')
         /\ \A other \in ExternalIds : external'[other] = IF other = id THEN y ELSE external[other]
         /\ clock \in Nat /\ clock' \in Nat /\ clock <= clock' /\ made \in Nat /\ made' \in Nat /\ made <= made'
<1>1. /\ \A other \in ExternalIds : external'[other] = IF other = id THEN y ELSE external[other]
      /\ \A other \in ExternalIds : other \in Nat
      /\ made \in Nat /\ made' \in Nat /\ made <= made' /\ id <= made' /\ y # None
      /\ clock \in Nat /\ now \in Nat /\ clock <= now
      /\ Made(external, made, link)
  BY Sent, Contents DEF Going, TypeOK, ExternalIds
<1>2. Made(external', made', link')
  <2>1. link # None => link.ext \in Nat /\ link.ext <= made
    BY <1>1 DEF Made, Going, TypeOK, Link
  <2>2. link # None => link.ext <= made'
    BY <1>1, <2>1
  <2> QED BY <1>1, <2>2 DEF Made
<1>3. /\ internal # None => internal.c.body <= now
      /\ \A other \in ExternalIds : external[other] # None => external[other].c.body <= now
      /\ link # None /\ link.base # None => link.base.body <= now
      /\ \A e \in inbox : e.at <= now
  BY StillDated DEF Going
<1>4. FromExternal(id, now).at <= now
  BY <1>1, Sent DEF Going
<1>5. Dated(internal', external', link', inbox', clock')
  BY <1>1, <1>3, <1>4 DEF Dated
<1> QED BY <1>1, <1>2, <1>5

LEMMA RepointGoes ==
  ASSUME NEW w \in Workers, Going(w), Repoint(w) PROVE Converging'
<1> DEFINE r == wk[w]
           t == [r EXCEPT !.pc = "mark"]
<1>0. /\ r.pc = "repoint" /\ r \in Worker /\ r.ev \in Event /\ r.ev \in inbox
      /\ Placed(r, internal, link) /\ Fresh(r, external, clock) /\ UNCHANGED <<sides, inbox>>
      /\ Knows(r, internal, external, link, inbox, made, clock)
      /\ link' = [link EXCEPT !.ext = r.xid] /\ clock \in Nat
  BY OwnKnowledge DEF Repoint, Going, TypeOK
<1>1. UNCHANGED <<internal, external, made, clock, inbox>>
  BY <1>0 DEF sides
<1>2. ~Crashes /\ r.pc = "repoint" /\ link \in Link /\ r.l # None
  BY <1>0, NoneOK DEF NoneOK, Knows, Resolves, Placed, Resolving
<1>3. r.xid \in ExternalIds /\ r.xid <= made
  BY <1>0 DEF Placed, Knows, Told
<1>4. link' \in Link /\ link'.ext = r.xid /\ link'.base = link.base
  BY <1>0, <1>2, <1>3 DEF Link
<1>5. Made(external', made', link') /\ Dated(internal', external', link', inbox', clock')
  BY <1>1, <1>2, <1>3, <1>4, NoneOK DEF NoneOK, Going, Made, Dated
<1>6. /\ t \in Worker /\ t.pc = "mark" /\ t.ev = r.ev /\ t.i = r.i /\ t.l = r.l
      /\ t.x = r.x /\ t.xid = r.xid /\ t.d = r.d
      /\ wk' = [wk EXCEPT ![w] = t]
  BY <1>0 DEF Worker, Stages, Repoint, Goes
<1> HIDE DEF t
<1>7. MergedBy(t) = MergedBy(r)
  BY <1>6 DEF MergedBy
<1> HIDE DEF r
<1>8. Told(t, inbox', made') /\ Unlinked(t, link') /\ Linked(t, link')
  BY <1>0, <1>1, <1>2, <1>3, <1>4, <1>6 DEF Knows, Told, Unlinked, Linked
<1>9. Earlier(t, clock')
  BY <1>0, <1>1, <1>6, StillEarlier DEF Knows
<1>10. ReadIn(t, internal', inbox' \ {t.ev}) /\ ReadOut(t, external', inbox' \ {t.ev})
  BY <1>6 DEF ReadIn, ReadOut
<1>11. Resolves(t, external', link') /\ Covered(t, internal', external', link', inbox')
  BY <1>2, <1>6 DEF Resolves, Covered
<1>12. Applied(t, internal', external', inbox' \ {t.ev})
  BY <1>0, <1>1, <1>2, <1>6, <1>7 DEF Knows, Applied
<1>13. Knows(t, internal', external', link', inbox', made', clock')
  BY <1>8, <1>9, <1>10, <1>11, <1>12 DEF Knows
<1> QED BY <1>5, <1>6, <1>13, WorkerGoes

LEMMA MarkGoes ==
  ASSUME NEW w \in Workers, Going(w), Mark(w) PROVE Converging'
<1> DEFINE r == wk[w]
           m == MergedBy(r)
           t == [r EXCEPT !.pc = "finish"]
<1>0. /\ r.pc = "mark" /\ r \in Worker /\ r.ev \in Event /\ r.ev \in inbox
      /\ Placed(r, internal, link) /\ Fresh(r, external, clock) /\ UNCHANGED <<sides, inbox>>
      /\ Knows(r, internal, external, link, inbox, made, clock)
      /\ link' = [link EXCEPT !.base = m, !.synced = clock] /\ clock \in Nat
  BY OwnKnowledge DEF Mark, Going, TypeOK, MergedOf, MergedBy
<1>1. UNCHANGED <<internal, external, made, clock, inbox>>
  BY <1>0 DEF sides
<1>2. /\ r.l \in Link /\ r.l # None /\ link \in Link /\ link # None /\ r.xid = link.ext
      /\ r.i # None /\ m \in Comparable
  BY <1>0, ActsOn DEF Going, Resolving
<1>3. m.body <= clock /\ m # None
  BY <1>0, <1>2, MergedPast, Bodies DEF Knows
<1> HIDE DEF m
<1>4. link' \in Link /\ link' # None /\ link'.ext = link.ext /\ link'.base = m
  BY <1>0, <1>2, NoneOK DEF NoneOK, Link
<1>5. Made(external', made', link') /\ Dated(internal', external', link', inbox', clock')
  BY <1>1, <1>2, <1>3, <1>4 DEF Going, Made, Dated
<1>6. /\ t \in Worker /\ t.pc = "finish" /\ t.ev = r.ev /\ t.i = r.i /\ t.l = r.l
      /\ t.x = r.x /\ t.xid = r.xid
      /\ wk' = [wk EXCEPT ![w] = t]
  BY <1>0 DEF Worker, Stages, Mark, Goes
<1> HIDE DEF t, r
<1>7. Told(t, inbox', made') /\ Unlinked(t, link') /\ Linked(t, link')
  BY <1>0, <1>1, <1>2, <1>6 DEF Knows, Told, Unlinked, Linked
<1>8. Earlier(t, clock')
  BY <1>0, <1>1, <1>6, StillEarlier DEF Knows
<1>9. /\ ReadIn(t, internal', inbox' \ {t.ev}) /\ ReadOut(t, external', inbox' \ {t.ev})
      /\ Applied(t, internal', external', inbox' \ {t.ev}) /\ Resolves(t, external', link')
  BY <1>6 DEF ReadIn, ReadOut, Applied, Resolves
<1>10. Announced(inbox \ {r.ev}, internal, external[link.ext], link')
  BY <1>0, <1>2, <1>3, <1>4 DEF Knows, Applied, Announced, m
<1>11. Covered(t, internal', external', link', inbox')
  BY <1>1, <1>4, <1>6, <1>10 DEF Covered
<1>12. Knows(t, internal', external', link', inbox', made', clock')
  BY <1>7, <1>8, <1>9, <1>11 DEF Knows
<1> QED BY <1>5, <1>6, <1>12, WorkerGoes

LEMMA FinishGoes ==
  ASSUME NEW w \in Workers, Going(w), Finish(w) PROVE Converging'
<1>1. link # None => Announced(inbox \ {wk[w].ev}, internal, external[link.ext], link)
  BY DEF Finish, Going, Knows, Covered
<1> QED BY <1>1, WorkerDone DEF Finish

LEMMA CrashGoes ==
  ASSUME NEW w \in Workers, Going(w), Crash(w) PROVE Converging'
<1>1. Crashes
  BY DEF Crash, Fault, Crashes
<1>2. wk[w].pc # "repoint"
  BY <1>1 DEF Going, Knows, Resolves
<1>3. ASSUME link # None PROVE Announced(inbox, internal, external[link.ext], link)
  <2>1. CASE wk[w].pc = "finish"
    <3>1. Announced(inbox \ {wk[w].ev}, internal, external[link.ext], link)
      BY <1>3, <2>1 DEF Going, Knows, Covered
    <3>2. inbox \ {wk[w].ev} \subseteq inbox
      OBVIOUS
    <3> QED BY <3>1, <3>2, MoreTold, MoreAnnounced
  <2>2. CASE wk[w].pc # "finish"
    BY <1>1, <1>3, <2>2 DEF Going, Knows, Covered
  <2> QED BY <2>1, <2>2
<1>4. inbox' = inbox /\ wk' = [wk EXCEPT ![w] = Idle] /\ UNCHANGED <<sides, link>>
  BY DEF Crash
<1>5. \A e \in inbox' : e.at <= clock
  BY <1>4, OwnKnowledge
<1>6. /\ UNCHANGED <<internal, external, made, clock, link>>
      /\ Made(external', made', link') /\ Dated(internal', external', link', inbox', clock')
  BY <1>4, <1>5, WorkerLooks
<1> QED BY <1>3, <1>4, <1>6, WorkerRests

LEMMA ProviderFailsGoes ==
  ASSUME NEW w \in Workers, Going(w), ProviderFails(w), dead' = {} PROVE Converging'
  BY WorkerFails DEF ProviderFails

\* It makes an invoice in the accounting system.
LEMMA MakesOut ==
  ASSUME NEW w \in Workers, Going(w), wk[w].pc \in {"create", "recreate"},
         MakeExternal(Created(wk[w].i.c)), link' = link,
         inbox' = inbox \cup {FromExternal(made + 1, now)}
  PROVE  /\ Made(external', made', link') /\ Dated(internal', external', link', inbox', clock')
         /\ internal' = internal /\ made' = made + 1 /\ clock' = now
         /\ clock \in Nat /\ now \in Nat /\ clock <= now
         /\ made + 1 \in ExternalIds /\ made + 1 \in 0..MaxExternal
         /\ external'[made + 1] \in Record /\ external'[made + 1] # None
         /\ external'[made + 1].c.body <= now
         /\ link # None => external'[link.ext] = external[link.ext]
         /\ TellsExternal(inbox' \ {wk[w].ev}, made + 1)
<1> DEFINE r == wk[w]
           c == Created(r.i.c)
           y == [c |-> c, at |-> now]
<1>1. /\ r \in Worker /\ r.i # None /\ r.ev \in inbox /\ made \in Nat
      /\ TypeOK /\ IInv /\ Made(external, made, link) /\ Dated(internal, external, link, inbox, clock)
      /\ Earlier(r, clock)
  BY OwnKnowledge DEF Placed, Resolving, Going, TypeOK, Knows
<1>2. r.i.c \in Comparable /\ r.i.c.body \in Nat /\ r.i.c.body <= clock
  BY <1>1, Contents, Bodies DEF Worker, Earlier
<1>3. clock \in Nat /\ now \in Nat /\ clock <= now /\ FromExternal(made + 1, now) \notin inbox
  BY <1>1, Sent DEF TypeOK
<1>4. c \in Comparable /\ c.body <= now
  BY <1>2, <1>3, Bodies
<1>5. MakeExternal(c)
  OBVIOUS
<1> HIDE DEF c
<1>6. /\ made' = made + 1 /\ made + 1 \in ExternalIds /\ made + 1 \in 0..MaxExternal /\ clock' = now
      /\ external' = [external EXCEPT ![made + 1] = y] /\ internal' = internal
  BY <1>1, <1>4, <1>5, MakesExternal DEF MakeExternal, PutExternal
<1>7. y \in Record /\ y.c = c /\ y # None
  BY <1>3, <1>4, Contents
<1> HIDE DEF y
<1>8. \A e \in inbox' : e \in inbox \/ e = FromExternal(made + 1, now)
  OBVIOUS
<1>9. /\ Made(external', made', link') /\ Dated(internal', external', link', inbox', clock')
      /\ \A other \in ExternalIds : external'[other] = IF other = made + 1 THEN y ELSE external[other]
  BY <1>4, <1>6, <1>7, <1>8, WritesOut
<1>10. ASSUME link # None PROVE external'[link.ext] = external[link.ext]
  <2>1. link.ext \in ExternalIds /\ link.ext \in Nat /\ link.ext <= made
    BY <1>1, <1>10 DEF Made, TypeOK, Link, ExternalIds
  <2>2. link.ext # made + 1
    BY <1>1, <2>1
  <2> QED BY <1>9, <2>1, <2>2
<1>11. TellsExternal(inbox' \ {r.ev}, made + 1)
  BY <1>1, <1>3, Sent DEF TellsExternal
<1> QED BY <1>3, <1>4, <1>6, <1>7, <1>9, <1>10, <1>11

\* The locals t after MakeFrom.
LEMMA MadeFrom ==
  ASSUME NEW w \in Workers, Going(w), MakeFrom(w), wk[w].pc \in {"create", "recreate"},
         NEW t \in Worker, wk' = [wk EXCEPT ![w] = t],
         t.ev = wk[w].ev, t.i = wk[w].i, t.l = wk[w].l, t.d = wk[w].d, t.xid = made + 1,
         \/ wk[w].pc = "create" /\ t.pc = "newLink" /\ t.x = external'[made + 1]
         \/ wk[w].pc = "recreate" /\ t.pc = "repoint" /\ t.x = wk[w].x
  PROVE  Converging'
<1> DEFINE r == wk[w]
<1>0. /\ r \in Worker /\ r.ev \in Event /\ r.ev \in inbox /\ r.i # None
      /\ Placed(r, internal, link)
      /\ Knows(r, internal, external, link, inbox, made, clock)
  BY OwnKnowledge DEF Going, Placed, Resolving
<1>1. /\ inbox' = inbox \cup {FromExternal(made + 1, now)} /\ link' = link
      /\ MakeExternal(Created(r.i.c))
  BY DEF MakeFrom
<1>2. /\ Made(external', made', link') /\ Dated(internal', external', link', inbox', clock')
      /\ internal' = internal /\ made' = made + 1 /\ clock' = now
      /\ clock \in Nat /\ now \in Nat /\ clock <= now
      /\ made + 1 \in ExternalIds /\ made + 1 \in 0..MaxExternal
      /\ external'[made + 1] \in Record /\ external'[made + 1] # None
      /\ external'[made + 1].c.body <= now
      /\ TellsExternal(inbox' \ {r.ev}, made + 1)
  BY <1>1, MakesOut
<1>3. t.pc \in {"newLink", "repoint"} /\ made + 1 <= made'
  BY <1>2 DEF ExternalIds
<1>5. Told(t, inbox', made')
  BY <1>0, <1>1, <1>2, <1>3 DEF Told
<1>6. Earlier(t, clock')
  BY <1>0, <1>2, <1>3, StillEarlier DEF Knows
<1>7. inbox \ {r.ev} \subseteq inbox' \ {t.ev}
  BY <1>1
<1>8. ReadIn(t, internal', inbox' \ {t.ev})
  BY <1>0, <1>2, <1>3, <1>7, MoreTold DEF Knows, ReadIn
<1>9. ReadOut(t, external', inbox' \ {t.ev})
  BY <1>3 DEF ReadOut, Alike
<1>10. CASE t.pc = "newLink"
  <2>1. r.pc = "create" /\ r.l = None /\ link = None /\ r.ev.src = "internal"
    BY <1>0, <1>10 DEF Knows, Linked, Unlinked
  <2>2. Unlinked(t, link') /\ Linked(t, link') /\ Covered(t, internal', external', link', inbox')
    BY <1>1, <1>10, <2>1 DEF Unlinked, Linked, Covered
  <2>3. Resolves(t, external', link') /\ Applied(t, internal', external', inbox' \ {t.ev})
    BY <1>10 DEF Resolves, Applied
  <2>4. Knows(t, internal', external', link', inbox', made', clock')
    BY <1>5, <1>6, <1>8, <1>9, <2>2, <2>3 DEF Knows
  <2> QED BY <1>2, <2>4, WorkerGoes
<1>11. CASE t.pc = "repoint"
  <2>1. r.pc = "recreate" /\ ~Crashes /\ InternalWins(r.d) /\ r.l # None
    BY <1>0, <1>11, NoneOK DEF NoneOK, Knows, Resolves, Placed, Resolving
  <2>2. Unlinked(t, link') /\ Linked(t, link') /\ Covered(t, internal', external', link', inbox')
    BY <1>11, <2>1 DEF Unlinked, Linked, Covered
  <2>3. Resolves(t, external', link')
    BY <1>11, <2>1 DEF Resolves
  <2>4. MergedBy(t) = r.i.c
    BY <2>1 DEF MergedBy, Merged
  <2>5. internal'.c = r.i.c \/ TellsInternal(inbox' \ {t.ev})
    BY <1>0, <1>2, <1>7, <2>1, MoreTold DEF Knows, ReadIn
  <2>6. Applied(t, internal', external', inbox' \ {t.ev})
    BY <1>2, <1>11, <2>1, <2>4, <2>5 DEF Applied
  <2>7. Knows(t, internal', external', link', inbox', made', clock')
    BY <1>5, <1>6, <1>8, <1>9, <2>2, <2>3, <2>6 DEF Knows
  <2> QED BY <1>2, <2>7, WorkerGoes
<1> QED BY <1>3, <1>10, <1>11

LEMMA CreateGoes ==
  ASSUME NEW w \in Workers, Going(w), Create(w) PROVE Converging'
<1> DEFINE r == wk[w]
           y == external'[made + 1]
           t == [r EXCEPT !.pc = "newLink", !.xid = made + 1, !.x = y]
<1>1. /\ r.pc = "create" /\ r \in Worker /\ MakeFrom(w) /\ wk' = [wk EXCEPT ![w] = t]
      /\ MakeExternal(Created(r.i.c)) /\ link' = link
      /\ inbox' = inbox \cup {FromExternal(made + 1, now)}
  BY OwnKnowledge DEF Create, MakeFrom
<1>2. made + 1 \in 0..MaxExternal /\ y \in Record
  BY <1>1, MakesOut
<1> HIDE DEF y
<1>3. /\ t \in Worker /\ t.pc = "newLink" /\ t.ev = r.ev /\ t.i = r.i /\ t.l = r.l /\ t.d = r.d
      /\ t.xid = made + 1 /\ t.x = y
  BY <1>1, <1>2 DEF Worker, Stages
<1> HIDE DEF t
<1> QED BY <1>1, <1>3, MadeFrom DEF y

LEMMA RecreateGoes ==
  ASSUME NEW w \in Workers, Going(w), Recreate(w) PROVE Converging'
<1> DEFINE r == wk[w]
           t == [r EXCEPT !.pc = "repoint", !.xid = made + 1]
<1>1. /\ r.pc = "recreate" /\ r \in Worker /\ MakeFrom(w) /\ wk' = [wk EXCEPT ![w] = t]
      /\ MakeExternal(Created(r.i.c)) /\ link' = link
      /\ inbox' = inbox \cup {FromExternal(made + 1, now)}
  BY OwnKnowledge DEF Recreate, MakeFrom
<1>2. made + 1 \in 0..MaxExternal
  BY <1>1, MakesOut
<1>3. /\ t \in Worker /\ t.pc = "repoint" /\ t.ev = r.ev /\ t.i = r.i /\ t.l = r.l /\ t.d = r.d
      /\ t.xid = made + 1 /\ t.x = r.x
  BY <1>1, <1>2 DEF Worker, Stages
<1> HIDE DEF t
<1> QED BY <1>1, <1>3, MadeFrom

LEMMA InsertGoes ==
  ASSUME NEW w \in Workers, Going(w), Insert(w), dead' = {} PROVE Converging'
<1> DEFINE r == wk[w]
           t == [r EXCEPT !.pc = "newLink", !.i = internal']
<1>0. /\ r.pc = "insert" /\ r \in Worker /\ r.ev \in Event /\ r.ev \in inbox /\ r.x # None
      /\ link' = link
      /\ Knows(r, internal, external, link, inbox, made, clock)
      /\ TypeOK /\ IInv /\ Dated(internal, external, link, inbox, clock)
  BY OwnKnowledge DEF Insert, Going, Placed
<1>1. CASE internal # None
  BY <1>0, <1>1, WorkerFails DEF Insert
<1>2. CASE internal = None
  <2>1. /\ PutInternal(r.x.c) /\ inbox' = inbox /\ wk' = [wk EXCEPT ![w] = t]
    BY <1>2 DEF Insert
  <2>2. r.x \in Record /\ r.x.c \in Comparable /\ r.x.c.body \in Nat /\ r.x.c.body <= clock
    BY <1>0, Contents, Bodies DEF Worker, Knows, Earlier
  <2>3. internal' \in Record
    BY <1>0, <2>1, <2>2, PutsInternal
  <2>4. /\ internal'.c = r.x.c /\ clock' = now /\ external' = external /\ made' = made
    BY <2>1 DEF PutInternal
  <2>5. clock \in Nat /\ now \in Nat /\ clock <= now /\ link = None
    BY <1>0, <1>2, Sent DEF TypeOK, IInv
  <2>6. Made(external', made', link') /\ Dated(internal', external', link', inbox', clock')
    BY <1>0, <2>1, <2>2, <2>4, <2>5, StillDated DEF Going, Made, Dated
  <2>7. /\ t.pc = "newLink" /\ t.ev = r.ev /\ t.i = internal' /\ t.l = r.l /\ t.xid = r.xid /\ t.x = r.x
        /\ t \in Worker
    BY <1>0, <2>3 DEF Worker, Stages
  <2> HIDE DEF t
  <2>8. Told(t, inbox', made') /\ Unlinked(t, link') /\ Linked(t, link')
    BY <1>0, <2>1, <2>4, <2>5, <2>7 DEF Knows, Told, Unlinked, Linked
  <2>9. Earlier(t, clock')
    BY <1>0, <2>2, <2>4, <2>5, <2>7, StillEarlier DEF Knows
  <2>10. ReadIn(t, internal', inbox' \ {t.ev}) /\ ReadOut(t, external', inbox' \ {t.ev})
    BY <1>0, <2>1, <2>4, <2>7 DEF Knows, ReadIn, ReadOut
  <2>11. /\ Resolves(t, external', link') /\ Applied(t, internal', external', inbox' \ {t.ev})
         /\ Covered(t, internal', external', link', inbox')
    BY <1>0, <2>5, <2>7 DEF Resolves, Applied, Covered
  <2>12. Knows(t, internal', external', link', inbox', made', clock')
    BY <2>8, <2>9, <2>10, <2>11 DEF Knows
  <2> QED BY <2>1, <2>6, <2>7, <2>12, WorkerGoes
<1> QED BY <1>1, <1>2

LEMMA NewLinkGoes ==
  ASSUME NEW w \in Workers, Going(w), NewLink(w), dead' = {} PROVE Converging'
<1> DEFINE r == wk[w]
           d == Decision(None, r.i.c, r.x.c, r.i.at, r.x.at)
           l == [ext |-> r.xid, base |-> IF d = "noop" THEN r.i.c ELSE None, synced |-> 0]
           t == [r EXCEPT !.pc = AfterDecision(d, r.x), !.l = l, !.d = d]
<1>0. /\ r.pc = "newLink" /\ r \in Worker /\ r.ev \in Event /\ r.ev \in inbox
      /\ r.x # None /\ r.i # None /\ Fresh(r, external, clock)
      /\ UNCHANGED sides
      /\ Knows(r, internal, external, link, inbox, made, clock)
      /\ \A e \in inbox : e.at <= clock
  BY OwnKnowledge DEF NewLink, Going, Placed
<1>1. CASE link # None
  BY <1>0, <1>1, WorkerFails DEF NewLink
<1>2. CASE link = None
  <2>1. link' = l /\ inbox' = inbox /\ wk' = [wk EXCEPT ![w] = t]
    BY <1>2 DEF NewLink
  <2>2. UNCHANGED <<internal, external, made, clock>>
    BY <1>0 DEF sides
  <2>3. /\ r.i \in Record /\ r.x \in Record /\ r.i.c \in Comparable /\ r.i.c # None
        /\ r.xid \in ExternalIds /\ r.xid <= made /\ r.l = None /\ r.i.c.body <= clock
    BY <1>0, Contents, Bodies DEF Worker, Knows, Told, Fresh, Linked, Earlier
  <2>4. d \in Decisions /\ (d = "noop" <=> r.i.c = r.x.c)
    <3>1. d \in Decisions
      BY Decided
    <3>2. d = "noop" <=> r.i.c = r.x.c
      BY DEF Decision
    <3> QED BY <3>1, <3>2
  <2>5. l \in Link /\ l # None /\ l.ext = r.xid /\ l.base = IF d = "noop" THEN r.i.c ELSE None
    BY <2>3, NoneOK DEF NoneOK, Link
  <2>6. /\ internal.c = r.i.c \/ TellsInternal(inbox \ {r.ev})
        /\ Dead(r.i.c) => Dead(internal.c)
        /\ Alike(external[r.xid], r.x) \/ TellsExternal(inbox \ {r.ev}, r.xid)
        /\ Ended(r.x) => Ended(external[r.xid])
    BY <1>0 DEF Knows, ReadIn, ReadOut
  <2>7. TellsInternal(inbox) \/ TellsExternal(inbox, r.xid)
    BY <1>0, <2>3 DEF Knows, Unlinked, TellsInternal, TellsExternal, Event
  <2>8. inbox \ {r.ev} \subseteq inbox
    OBVIOUS
  <2>9. d = Decision(l.base, r.i.c, Seen(r.x, l, r.i), r.i.at, r.x.at)
    BY <1>0, <2>4, <2>5 DEF Decision, Seen
  <2>10. /\ t.ev = r.ev /\ t.i = r.i /\ t.x = r.x /\ t.xid = r.xid
         /\ t.l = l /\ t.d = d /\ t.pc = AfterDecision(d, r.x)
    BY <1>0 DEF Worker
  <2>11. t \in Worker
    <3>1. AfterDecision(d, r.x) \in Stages
      BY DEF AfterDecision, Stages
    <3>2. \A pc \in Stages, k \in Link, e \in Decisions : [r EXCEPT !.pc = pc, !.l = k, !.d = e] \in Worker
      BY <1>0 DEF Worker
    <3> QED BY <2>4, <2>5, <3>1, <3>2
  <2>12. Announced(inbox, internal, external[l.ext], l)
    <3>1. CASE d # "noop"
      BY <2>5, <2>7, <3>1 DEF Announced
    <3>2. CASE d = "noop"
      <4>1. l.base = r.i.c /\ l.base = r.x.c /\ l.base # None
        BY <2>3, <2>4, <2>5, <3>2
      <4>2. internal.c # l.base => TellsInternal(inbox)
        BY <2>6, <2>8, <4>1, MoreTold
      <4>3. SeenAs(external[l.ext], l.base) # l.base => TellsExternal(inbox, l.ext)
        <5>1. SeenAs(r.x, l.base) = l.base
          BY <1>0, <4>1 DEF SeenAs
        <5> QED BY <2>5, <2>6, <2>8, <5>1, MoreTold, SeenAlike
      <4>4. Dead(l.base) => BothDead(internal, external[l.ext])
        BY <2>5, <2>6, <4>1 DEF BothDead, Ended
      <4> QED BY <4>1, <4>2, <4>3, <4>4 DEF Announced
    <3> QED BY <3>1, <3>2
  <2> HIDE DEF d, l, t
  <2>13. Made(external', made', link') /\ Dated(internal', external', link', inbox', clock')
    BY <2>1, <2>2, <2>3, <2>5 DEF Going, Made, Dated
  <2>14. Earlier(t, clock)
    BY <1>0, <2>3, <2>5, <2>10 DEF Knows, Earlier, AfterDecision
  <2>15. Knows(t, internal, external, l, inbox, made, clock)
    <3>1. /\ t.d = Decision(l.base, t.i.c, Seen(t.x, t.l, t.i), t.i.at, t.x.at)
          /\ t.pc = AfterDecision(t.d, t.x)
      BY <2>9, <2>10
    <3>2. /\ t.ev \in inbox /\ t.i \in Record /\ t.l \in Link /\ t.l # None /\ t.x \in Record \cup {None}
          /\ t.xid = l.ext /\ t.l.base = l.base /\ t.xid <= made /\ t.x # None
      BY <1>0, <2>3, <2>5, <2>10
    <3>3. t.d # "noop" => l.base = None
      BY <2>5, <2>10
    <3>4. /\ internal.c = t.i.c \/ TellsInternal(inbox \ {t.ev})
          /\ Dead(t.i.c) => Dead(internal.c)
          /\ Alike(external[t.xid], t.x) \/ TellsExternal(inbox \ {t.ev}, t.xid)
          /\ Ended(t.x) => Ended(external[t.xid])
      BY <2>6, <2>10
    <3> HIDE DEF r
    <3> QED BY <2>5, <2>11, <2>12, <2>14, <3>1, <3>2, <3>3, <3>4, DecisionKnown
  <2>16. Knows(t, internal', external', link', inbox', made', clock')
    BY <2>1, <2>2, <2>15
  <2> QED BY <2>1, <2>11, <2>13, <2>16, WorkerGoes
<1> QED BY <1>1, <1>2

\* It writes to the accounting system.
LEMMA PutsOut ==
  ASSUME NEW w \in Workers, Going(w), wk[w].pc = "writeExt", CanWrite(w), PutMerged(w),
         link' = link, inbox' = inbox \cup {FromExternal(wk[w].xid, now)}
  PROVE  /\ Made(external', made', link') /\ Dated(internal', external', link', inbox', clock')
         /\ internal' = internal /\ made' = made /\ clock' = now
         /\ clock \in Nat /\ now \in Nat /\ clock <= now
         /\ wk[w].xid = link.ext /\ wk[w].l # None /\ link # None /\ wk[w].i # None
         /\ internal'.c = MergedBy(wk[w]) \/ TellsInternal(inbox' \ {wk[w].ev})
         /\ TellsExternal(inbox' \ {wk[w].ev}, wk[w].xid)
         /\ Dead(MergedBy(wk[w])) => BothDead(internal', external'[wk[w].xid])
         /\ Announced(inbox', internal', external'[link'.ext], link')
<1> DEFINE r == wk[w]
           m == MergedBy(r)
           x == external[r.xid]
           c == IF Dead(m) THEN Voided(x.c) ELSE m
           y == [c |-> c, at |-> now]
           b == link.base
<1>1. /\ r \in Worker /\ r.ev \in inbox /\ Placed(r, internal, link) /\ Fresh(r, external, clock)
      /\ Knows(r, internal, external, link, inbox, made, clock)
      /\ TypeOK /\ IInv /\ Made(external, made, link) /\ Dated(internal, external, link, inbox, clock)
      /\ link # None => Announced(inbox, internal, external[link.ext], link)
  BY OwnKnowledge DEF Going
<1>2. /\ r.l \in Link /\ r.l # None /\ link \in Link /\ link # None
      /\ r.xid = link.ext /\ r.xid \in ExternalIds /\ r.xid <= made
      /\ r.i # None /\ r.i.c \in Comparable /\ m \in Comparable
  BY <1>1, ActsOn DEF Resolving
<1>3. InternalWins(r.d) /\ m = r.i.c
  BY <1>1 DEF Placed, MergedBy, Merged
<1>4. /\ x \in Record /\ x.c \in Comparable /\ x.c.body <= clock /\ x.c.body \in Nat
  <2>1. x # None /\ x \in Record \cup {None}
    BY <1>1, <1>2 DEF CanWrite, TypeOK
  <2> QED BY <1>1, <1>2, <2>1, Contents, Bodies DEF Dated
<1>5. clock \in Nat /\ now \in Nat /\ clock <= now /\ FromExternal(r.xid, now) \notin inbox
  BY <1>1, Sent DEF TypeOK
<1>6. m.body <= clock /\ m.body \in Nat
  BY <1>1, <1>2, <1>5, MergedPast, Bodies DEF Knows
<1>7. c \in Comparable /\ c.body <= now /\ (Dead(m) => Dead(c)) /\ (~Dead(m) => c = m)
  BY <1>2, <1>4, <1>5, <1>6, Bodies
<1>8. /\ external' = [external EXCEPT ![r.xid] = y] /\ clock' = now /\ internal' = internal /\ made' = made
  BY DEF PutMerged, PutExternal, MergedOf, MergedBy
<1> HIDE DEF c
<1>9. y \in Record /\ y # None /\ y.c = c
  BY <1>5, <1>7, Contents
<1> HIDE DEF y
<1>10. \A e \in inbox' : e \in inbox \/ e = FromExternal(r.xid, now)
  OBVIOUS
<1>11. /\ Made(external', made', link') /\ Dated(internal', external', link', inbox', clock')
       /\ \A other \in ExternalIds : external'[other] = IF other = r.xid THEN y ELSE external[other]
  BY <1>2, <1>7, <1>8, <1>9, <1>10, WritesOut
<1>12. external'[r.xid] = y
  BY <1>2, <1>11
<1>13. /\ inbox \subseteq inbox' /\ inbox \ {r.ev} \subseteq inbox'
       /\ inbox \ {r.ev} \subseteq inbox' \ {r.ev} /\ inbox' \ {r.ev} \subseteq inbox'
  OBVIOUS
<1> HIDE DEF x, m, b
<1>14. /\ internal.c = m \/ TellsInternal(inbox' \ {r.ev})
       /\ internal.c = m \/ TellsInternal(inbox')
       /\ Dead(m) => Dead(internal.c)
  BY <1>1, <1>2, <1>3, <1>13, MoreTold DEF Knows, ReadIn
<1>15. TellsExternal(inbox' \ {r.ev}, r.xid) /\ TellsExternal(inbox', r.xid)
  BY <1>1, <1>5, Sent DEF TellsExternal
<1>16. Dead(m) => BothDead(internal, y)
  BY <1>7, <1>9, <1>14 DEF BothDead, Ended
<1>17. Announced(inbox', internal, y, link)
  <2>1. ASSUME b # None, internal.c # b, ~TellsInternal(inbox')
        PROVE  BothDead(internal, y) \/ (Crashes /\ SeenAs(y, b) # b)
    <3>1. internal.c = m
      BY <1>14, <2>1
    <3>2. CASE Crashes
      <4>1. ~Dead(m) => SeenAs(y, b) = m
        BY <1>7, <1>9 DEF SeenAs
      <4> QED BY <1>16, <2>1, <3>1, <3>2, <4>1
    <3>3. CASE ~Crashes
      <4>1. ~TellsInternal(inbox)
        BY <1>13, <2>1, MoreTold
      <4>2. Dead(internal.c)
        BY <1>1, <1>2, <2>1, <3>3, <4>1 DEF Announced, BothDead, b
      <4> QED BY <1>16, <3>1, <4>2
    <3> QED BY <3>2, <3>3
  <2>2. ASSUME Crashes, b # None, Dead(b) PROVE BothDead(internal, y)
    <3>1. Dead(m)
      BY <1>1, <2>2 DEF Knows, Resolves, m, b
    <3> QED BY <1>16, <3>1
  <2> QED BY <1>2, <1>15, <2>1, <2>2 DEF Announced, b
<1> QED
  BY <1>2, <1>5, <1>8, <1>11, <1>12, <1>14, <1>15, <1>16, <1>17 DEF m

LEMMA WriteExternalGoes ==
  ASSUME NEW w \in Workers, Going(w), WriteExternal(w), dead' = {} PROVE Converging'
<1> DEFINE r == wk[w]
           t == [r EXCEPT !.pc = "mark"]
<1>0. /\ r.pc = "writeExt" /\ r \in Worker /\ r.ev \in Event /\ r.ev \in inbox /\ link' = link
      /\ Knows(r, internal, external, link, inbox, made, clock)
  BY OwnKnowledge DEF WriteExternal, Going
<1>1. CASE ~CanWrite(w)
  BY <1>0, <1>1, WorkerFails DEF WriteExternal
<1>2. CASE CanWrite(w)
  <2>1. /\ PutMerged(w) /\ inbox' = inbox \cup {FromExternal(r.xid, now)}
        /\ wk' = [wk EXCEPT ![w] = t]
    BY <1>2 DEF WriteExternal, Goes
  <2>2. /\ Made(external', made', link') /\ Dated(internal', external', link', inbox', clock')
        /\ internal' = internal /\ made' = made /\ clock' = now
        /\ clock \in Nat /\ now \in Nat /\ clock <= now
        /\ r.xid = link.ext /\ r.l # None /\ link # None /\ r.i # None
        /\ internal'.c = MergedBy(r) \/ TellsInternal(inbox' \ {r.ev})
        /\ TellsExternal(inbox' \ {r.ev}, r.xid)
        /\ Dead(MergedBy(r)) => BothDead(internal', external'[r.xid])
        /\ Announced(inbox', internal', external'[link'.ext], link')
    BY <1>0, <1>2, <2>1, PutsOut
  <2>3. /\ t \in Worker /\ t.pc = "mark" /\ t.ev = r.ev /\ t.i = r.i /\ t.l = r.l
        /\ t.x = r.x /\ t.xid = r.xid /\ t.d = r.d
    BY <1>0 DEF Worker, Stages
  <2> HIDE DEF t
  <2>4. MergedBy(t) = MergedBy(r)
    BY <2>3 DEF MergedBy
  <2> HIDE DEF r
  <2>5. Told(t, inbox', made') /\ Unlinked(t, link') /\ Linked(t, link')
    BY <1>0, <2>1, <2>2, <2>3 DEF Knows, Told, Unlinked, Linked
  <2>6. Earlier(t, clock')
    BY <1>0, <2>2, <2>3, StillEarlier DEF Knows
  <2>7. /\ ReadIn(t, internal', inbox' \ {t.ev}) /\ ReadOut(t, external', inbox' \ {t.ev})
        /\ Resolves(t, external', link') /\ Covered(t, internal', external', link', inbox')
    BY <2>2, <2>3 DEF ReadIn, ReadOut, Resolves, Covered
  <2>8. Applied(t, internal', external', inbox' \ {t.ev})
    BY <2>2, <2>3, <2>4 DEF Applied
  <2>9. Knows(t, internal', external', link', inbox', made', clock')
    BY <2>5, <2>6, <2>7, <2>8 DEF Knows
  <2> QED BY <2>1, <2>2, <2>3, <2>9, WorkerGoes DEF r
<1> QED BY <1>1, <1>2

LEMMA TimesOutGoes ==
  ASSUME NEW w \in Workers, Going(w), TimesOut(w), dead' = {} PROVE Converging'
<1> DEFINE r == wk[w]
<1>1. /\ wk' = [wk EXCEPT ![w] = Idle] /\ link' = link
      /\ inbox' = inbox \cup {FromExternal(IF r.pc = "writeExt" THEN r.xid ELSE made + 1, now)}
  BY DEF TimesOut
<1>2. CASE r.pc = "writeExt"
  <2>1. CanWrite(w) /\ PutMerged(w) /\ inbox' = inbox \cup {FromExternal(r.xid, now)}
    BY <1>1, <1>2 DEF TimesOut
  <2>2. /\ Made(external', made', link') /\ Dated(internal', external', link', inbox', clock')
        /\ Announced(inbox', internal', external'[link'.ext], link')
    BY <1>1, <1>2, <2>1, PutsOut
  <2> QED BY <1>1, <2>2, WorkerRests
<1>3. CASE r.pc # "writeExt"
  <2>1. /\ r.pc \in {"create", "recreate"} /\ MakeExternal(Created(r.i.c))
        /\ inbox' = inbox \cup {FromExternal(made + 1, now)}
    BY <1>1, <1>3 DEF TimesOut
  <2>2. /\ Made(external', made', link') /\ Dated(internal', external', link', inbox', clock')
        /\ internal' = internal /\ (link # None => external'[link.ext] = external[link.ext])
    BY <1>1, <2>1, MakesOut
  <2>3. ASSUME link # None PROVE Announced(inbox', internal, external[link.ext], link)
    <3>1. Announced(inbox, internal, external[link.ext], link)
      BY <2>1, <2>3, OwnKnowledge
    <3> QED BY <2>1, <3>1, MoreTold, MoreAnnounced
  <2> QED BY <1>1, <2>2, <2>3, WorkerRests
<1> QED BY <1>2, <1>3

LEMMA WriteInternalGoes ==
  ASSUME NEW w \in Workers, Going(w), WriteInternal(w) PROVE Converging'
<1> DEFINE r == wk[w]
           m == MergedBy(r)
           x == external[r.xid]
           c == IF Dead(m) THEN [internal.c EXCEPT !.life = m.life] ELSE m
           t == [r EXCEPT !.pc = "mark"]
<1>0. /\ r.pc = "writeInt" /\ r \in Worker /\ r.ev \in Event /\ r.ev \in inbox
      /\ Placed(r, internal, link) /\ Fresh(r, external, clock) /\ UNCHANGED <<link, inbox>>
      /\ Knows(r, internal, external, link, inbox, made, clock)
      /\ TypeOK /\ IInv /\ Made(external, made, link) /\ Dated(internal, external, link, inbox, clock)
      /\ link # None => Announced(inbox, internal, external[link.ext], link)
  BY OwnKnowledge DEF WriteInternal, Going
<1>1. /\ r.l \in Link /\ r.l # None /\ link \in Link /\ link # None /\ r.i # None
      /\ r.xid = link.ext /\ r.xid \in ExternalIds /\ r.xid <= made
      /\ m \in Comparable
  BY <1>0, ActsOn DEF Resolving
<1>2. /\ internal # None /\ internal \in Record /\ internal.c \in Comparable
      /\ internal.c.body \in Nat /\ internal.c.body <= clock
  BY <1>0, <1>1, Contents, Bodies DEF TypeOK, IInv, Dated
<1>3. clock \in Nat /\ now \in Nat /\ clock <= now
  BY <1>0, Sent DEF TypeOK
<1>4. m.body <= clock /\ m.body \in Nat /\ m.life \in Lifecycles
  BY <1>0, <1>1, <1>3, MergedPast, Bodies DEF Knows
<1>5. PutInternal(c) /\ wk' = [wk EXCEPT ![w] = t]
  BY DEF WriteInternal, Goes, MergedOf, MergedBy
<1>6. m = Seen(r.x, r.l, r.i)
  BY <1>0 DEF Knows, Resolves, MergedBy, Merged
<1>7. (r.x # None => m = r.x.c) /\ (r.x = None => m.life = "deleted")
  <2>1. CASE r.x # None
    BY <1>6, <2>1 DEF Seen
  <2>2. CASE r.x = None
    <3> DEFINE b == IF r.l.base # None THEN r.l.base ELSE r.i.c
    <3>1. b \in Comparable
      BY <1>0, <1>1, Contents DEF Worker, Link
    <3>2. m = [b EXCEPT !.life = "deleted"]
      BY <1>6, <2>2 DEF Seen
    <3> HIDE DEF b, m
    <3> QED BY <2>2, <3>1, <3>2, Bodies
  <2> QED BY <2>1, <2>2
<1>8. Dead(m) => Ended(r.x)
  BY <1>7 DEF Ended
<1> HIDE DEF m
<1>9. SeenAs(r.x, m) = m
  BY <1>1, <1>7, Bodies DEF SeenAs
<1>10. /\ c \in Comparable /\ c.body <= now
       /\ (Dead(m) => Dead(c)) /\ (~Dead(m) => c = m)
  <2>1. CASE Dead(m)
    <3>1. /\ [internal.c EXCEPT !.life = m.life] \in Comparable
          /\ [internal.c EXCEPT !.life = m.life].body = internal.c.body
          /\ [internal.c EXCEPT !.life = m.life].life = m.life
      BY <1>2, <1>4, Bodies
    <3> QED BY <1>2, <1>3, <2>1, <3>1 DEF Dead
  <2>2. CASE ~Dead(m)
    BY <1>1, <1>3, <1>4, <2>2
  <2> QED BY <2>1, <2>2
<1> HIDE DEF c
<1>11. internal' = [c |-> c, at |-> now] /\ clock' = now /\ external' = external /\ made' = made
  BY <1>5 DEF PutInternal
<1>12. internal'.c = c /\ internal' # None
  BY <1>0, <1>5, <1>10, <1>11, PutsInternal
<1>13. Made(external', made', link') /\ Dated(internal', external', link', inbox', clock')
  BY <1>0, <1>10, <1>11, <1>12, StillDated DEF Made, Dated
<1>14. /\ t \in Worker /\ t.pc = "mark" /\ t.ev = r.ev /\ t.i = r.i /\ t.l = r.l
       /\ t.x = r.x /\ t.xid = r.xid /\ t.d = r.d
  BY <1>0 DEF Worker, Stages
<1> HIDE DEF t, x
<1>15. MergedBy(t) = m
  BY <1>14 DEF MergedBy, m
<1>16. /\ Alike(x, r.x) \/ TellsExternal(inbox \ {r.ev}, r.xid)
       /\ Ended(r.x) => Ended(x)
  BY <1>0 DEF Knows, ReadOut, x
<1>17. Dead(m) => BothDead(internal', x)
  BY <1>8, <1>10, <1>12, <1>16 DEF BothDead
<1>18. Told(t, inbox', made') /\ Unlinked(t, link') /\ Linked(t, link')
  BY <1>0, <1>1, <1>11, <1>14 DEF Knows, Told, Unlinked, Linked
<1>19. Earlier(t, clock')
  BY <1>0, <1>3, <1>11, <1>14, StillEarlier DEF Knows
<1>20. /\ ReadIn(t, internal', inbox' \ {t.ev}) /\ ReadOut(t, external', inbox' \ {t.ev})
       /\ Resolves(t, external', link')
  BY <1>14 DEF ReadIn, ReadOut, Resolves
<1>21. Applied(t, internal', external', inbox' \ {t.ev})
  <2>1. internal'.c = m \/ BothDead(internal', x)
    BY <1>10, <1>12, <1>17
  <2>2. SeenAs(x, m) = m \/ TellsExternal(inbox \ {r.ev}, r.xid)
    BY <1>9, <1>16, SeenAlike
  <2> QED BY <1>0, <1>11, <1>14, <1>15, <1>17, <2>1, <2>2 DEF Applied, x
<1>22. Covered(t, internal', external', link', inbox')
  <2> DEFINE b == link.base
  <2> SUFFICES ASSUME Crashes PROVE Announced(inbox, internal', x, link)
    BY <1>0, <1>1, <1>11, <1>14 DEF Covered, x
  <2>1. Announced(inbox, internal, x, link)
    BY <1>0, <1>1 DEF x
  <2>2. b # None => /\ SeenAs(x, b) # b \/ Dead(b)
                    /\ Dead(b) => Dead(m)
    BY <1>0 DEF Knows, Resolves, x, m
  <2> QED BY <1>17, <2>1, <2>2 DEF Announced
<1>23. Knows(t, internal', external', link', inbox', made', clock')
  BY <1>18, <1>19, <1>20, <1>21, <1>22 DEF Knows
<1> QED BY <1>5, <1>13, <1>14, <1>23, WorkerGoes

-----------------------------------------------------------------------------
(* The theorem *)

\* A notification that was dead-lettered stays so.
LEMMA DeadStay ==
  ASSUME [Next]_vars PROVE dead \subseteq dead'
<1>1. CASE User
  BY <1>1 DEF User, IntCreate, IntEdit, IntVoid, IntDelete, IntPay, ExtCreate, ExtEdit, ExtVoid,
              ExtPay, ExtDelete, InternalUser, ExternalUser, UserStep
<1>2. ASSUME NEW w, NEW permanent, Fails(w, permanent) PROVE dead \subseteq dead'
  BY <1>2 DEF Fails
<1>3. ASSUME NEW w, Step(w) PROVE dead \subseteq dead'
  BY <1>2, <1>3 DEF Step, Claim, Lookup, ReadInternal, ReadLines, ReadExternal, Find, Create, Insert, NewLink,
       Done, Recreate, MakeFrom, Repoint, WriteExternal, WriteInternal, Mark, Finish
<1>4. ASSUME NEW w, Mishap(w) PROVE dead \subseteq dead'
  BY <1>2, <1>4 DEF Mishap, Crash, ProviderFails, TimesOut
<1>5. CASE UNCHANGED vars
  BY <1>5 DEF vars
<1> QED BY <1>1, <1>3, <1>4, <1>5 DEF Next

LEMMA ConvergingInit == Steady /\ Init => Converging
<1> SUFFICES ASSUME Init PROVE Converging
  OBVIOUS
<1>1. /\ internal = None /\ link = None /\ made = 0 /\ clock = 0 /\ inbox = {}
      /\ \A id \in ExternalIds : external[id] = None /\ ~(id <= 0)
  BY DEF Init, ExternalIds
<1>2. Made(external, made, link) /\ Dated(internal, external, link, inbox, clock)
  BY <1>1 DEF Made, Dated
<1>3. ASSUME NEW w \in Workers PROVE Knows(wk[w], internal, external, link, inbox, made, clock)
  <2>1. wk[w] = Idle /\ Idle.pc = "idle" /\ Idle.i = None /\ Idle.x = None /\ Idle.l = None
    BY DEF Init, Idle
  <2>2. Told(Idle, inbox, made) /\ Unlinked(Idle, link) /\ Linked(Idle, link) /\ Earlier(Idle, clock)
    BY <2>1 DEF Told, Unlinked, Linked, Earlier
  <2>3. \A evs : ReadIn(Idle, internal, evs) /\ ReadOut(Idle, external, evs)
                 /\ Applied(Idle, internal, external, evs)
    BY <2>1 DEF ReadIn, ReadOut, Applied
  <2>4. Resolves(Idle, external, link) /\ Covered(Idle, internal, external, link, inbox)
    BY <1>1, <2>1 DEF Resolves, Covered
  <2> QED BY <2>1, <2>2, <2>3, <2>4 DEF Knows
<1> QED BY <1>2, <1>3 DEF Converging

LEMMA ConvergingStep ==
  Steady /\ TypeOK /\ IInv /\ Converging /\ [Next]_vars => Converging'
<1> SUFFICES ASSUME Steady, TypeOK, IInv, Converging, [Next]_vars, dead' = {} PROVE Converging'
  BY DEF Converging
<1>1. dead = {} /\ TypeOK'
  BY DeadStay, InductiveStep
<1>2. /\ Made(external, made, link) /\ Dated(internal, external, link, inbox, clock)
      /\ \A w \in Workers : Going(w)
  BY <1>1 DEF Converging, Going
<1>3. CASE User
  <2>1. UsersMove
    BY <1>2, <1>3, UsersDoMove
  <2>2. ASSUME NEW w \in Workers
        PROVE  Knows(wk'[w], internal', external', link', inbox', made', clock')
    <3>1. /\ wk'[w] = wk[w] /\ wk[w] \in Worker
          /\ Placed(wk[w], internal, link) /\ Fresh(wk[w], external, clock)
          /\ Knows(wk[w], internal, external, link, inbox, made, clock)
      BY <1>2, <2>1, OwnKnowledge DEF UsersMove, Going
    <3> QED BY <1>1, <1>2, <2>1, <3>1, UsersKnow
  <2> QED BY <2>1, <2>2 DEF UsersMove, Converging
<1>4. ASSUME NEW w \in Workers, Step(w) PROVE Converging'
  <2> Going(w)
    BY <1>2
  <2>1. CASE \E e \in inbox : Claim(w, e)
    BY <2>1, ClaimGoes
  <2>2. CASE Lookup(w) \/ ReadInternal(w) \/ ReadLines(w) \/ ReadExternal(w)
    BY <2>2, LookupGoes, ReadInternalGoes, ReadLinesGoes, ReadExternalGoes
  <2>3. CASE Find(w) \/ Create(w) \/ Insert(w) \/ NewLink(w)
    BY <2>3, FindGoes, CreateGoes, InsertGoes, NewLinkGoes
  <2>4. CASE Recreate(w) \/ Repoint(w) \/ WriteExternal(w) \/ WriteInternal(w)
    BY <2>4, RecreateGoes, RepointGoes, WriteExternalGoes, WriteInternalGoes
  <2>5. CASE Mark(w) \/ Finish(w)
    BY <2>5, MarkGoes, FinishGoes
  <2> QED BY <1>4, <2>1, <2>2, <2>3, <2>4, <2>5 DEF Step
<1>5. ASSUME NEW w \in Workers, Mishap(w) PROVE Converging'
  BY <1>2, <1>5, CrashGoes, ProviderFailsGoes, TimesOutGoes DEF Mishap
<1>6. CASE UNCHANGED vars
  BY <1>6 DEF vars, Converging
<1> QED BY <1>3, <1>4, <1>5, <1>6 DEF Next

\* Nothing is announced any more: the sides are what the snapshot says.
LEMMA AtRest ==
  ASSUME Steady, TypeOK, IInv, Converging PROVE Convergent
<1> SUFFICES ASSUME Quiet, dead = {}, link # None PROVE Agree
  BY DEF Convergent
<1> DEFINE x == external[link.ext]
           b == link.base
<1>1. PICK w \in Workers : wk[w].pc = "idle" /\ Knows(wk[w], internal, external, link, inbox, made, clock)
  BY DEF Steady, Quiet, Converging
<1>2. Announced({}, internal, x, link)
  BY <1>1 DEF Quiet, Knows, Covered
<1>3. ~TellsInternal({}) /\ ~TellsExternal({}, link.ext)
  BY DEF TellsInternal, TellsExternal
<1>4. /\ b # None /\ SeenAs(x, b) = b
      /\ internal.c = b \/ BothDead(internal, x)
  BY <1>2, <1>3 DEF Announced
<1>5. b \in Comparable
  BY <1>4 DEF TypeOK, Link
<1> HIDE DEF b
<1>6. CASE x # None
  BY <1>4, <1>6 DEF SeenAs, BothDead, Ended, Agree
<1>7. CASE x = None
  <2>1. b = [b EXCEPT !.life = "deleted"]
    BY <1>4, <1>7 DEF SeenAs
  <2>2. [b EXCEPT !.life = "deleted"].life = "deleted"
    BY <1>5, Bodies
  <2>3. Dead(b)
    BY <2>1, <2>2 DEF Dead
  <2> QED BY <1>4, <1>7, <2>3 DEF BothDead, Agree
<1> QED BY <1>6, <1>7

\* README "the system is always convergent": whatever users do on both sides
\* while notifications are processed, in whatever order those are claimed,
\* however often a call of the provider fails or its answer is lost, once every
\* notification has been handled and none was given up, the invoice is dead on
\* both sides or active with one content.  One worker does the work.  It may
\* crash at any call, if nobody hard-deletes an external invoice.
THEOREM Converges == ASSUME Steady PROVE Spec => []Convergent
<1>1. Steady
  OBVIOUS
<1>2. Init => Converging
  BY <1>1, ConvergingInit
<1>3. TypeOK /\ IInv /\ Converging /\ [Next]_vars => Converging'
  BY <1>1, ConvergingStep
<1>4. TypeOK /\ IInv /\ Converging => Convergent
  BY <1>1, AtRest
<1> QED BY <1>2, <1>3, <1>4, Inductive, PTL DEF Spec

-----------------------------------------------------------------------------
(* The last edit: definitions *)

\* The content c is what the last user operation, asked, left its side with.
AsAsked(c, asked) == IF Dead(asked) THEN Dead(c) ELSE c = asked

\* LastEditWins speaks of behaviours like this one.
Watched == dead = {} /\ ~blurred /\ \A id \in 1..made : Live(id)

\* There is one external invoice at most, and the newer of the two records is
\* what was asked for.
Newest(int, ext, n, time, asked) ==
  /\ n <= 1
  /\ int # None => int.at <= time
  /\ int # None /\ n = 0 => AsAsked(int.c, asked)
  /\ int = None /\ n = 1 => AsAsked(ext[1].c, asked)
  /\ int # None /\ n = 1 => AsAsked(IF int.at > ext[1].at THEN int.c ELSE ext[1].c, asked)

\* A snapshot of what was asked for was taken when both sides had it: to
\* differ from such a snapshot is to be older.  Both sides stay dead.
Snapshot(int, ext, lk, asked) ==
  lk # None /\ lk.base # None =>
    /\ AsAsked(lk.base, asked) => AsAsked(int.c, asked) /\ AsAsked(ext[lk.ext].c, asked)
    /\ Dead(lk.base) => Dead(int.c) /\ Dead(ext[lk.ext].c)

\* What the worker has read is there, and what it resolved is what was asked for.
Attends(t, int, ext, n, asked) ==
  /\ t.pc \notin {"recreate", "repoint"}
  /\ t.pc = "create" => n = 0
  /\ t.i # None /\ t.pc \in {"lines", "readExt", "find", "create", "newLink", "writeExt"} => int = t.i
  /\ t.pc \in {"find", "create"} => ~Dead(t.i.c)
  /\ (t.x # None /\ t.pc \in {"readInt", "lines", "insert", "newLink"}) \/ t.pc = "writeInt" =>
       ext[t.xid] = t.x
  /\ t.pc \in {"writeExt", "writeInt", "mark"} => AsAsked(MergedBy(t), asked)
  /\ t.pc = "mark" => AsAsked(int.c, asked) /\ AsAsked(ext[t.xid].c, asked)

Lasting ==
  Watched =>
    /\ Newest(internal, external, made, clock, latest)
    /\ Snapshot(internal, external, link, latest)
    /\ \A w \in Workers : Attends(wk[w], internal, external, made, latest)

\* The invariant, at a worker w that acts.
Keeping(w) ==
  /\ Going(w) /\ Watched
  /\ Newest(internal, external, made, clock, latest)
  /\ Snapshot(internal, external, link, latest)
  /\ Attends(wk[w], internal, external, made, latest)

-----------------------------------------------------------------------------
(* The last edit: lemmas *)

LEMMA Asked ==
  /\ \A c : AsAsked(c, c)
  /\ \A c, d, asked : AsAsked(c, asked) /\ Dead(c) /\ Dead(d) => AsAsked(d, asked)
  /\ \A c, asked : AsAsked(c, asked) /\ Dead(c) => Dead(asked)
  /\ \A c, asked : AsAsked(c, asked) /\ Dead(asked) => Dead(c)
  BY DEF AsAsked

\* The decision is for what was asked for, if the newer side has it.
LEMMA DecidesAsAsked ==
  ASSUME NEW base, NEW int, NEW x, NEW asked,
         AsAsked(IF int.at > x.at THEN int.c ELSE x.c, asked),
         base # None /\ AsAsked(base, asked) => AsAsked(int.c, asked) /\ AsAsked(x.c, asked),
         NEW d, d = Decision(base, int.c, x.c, int.at, x.at)
  PROVE  /\ AsAsked(Merged(d, int.c, x.c), asked)
         /\ d = "noop" => AsAsked(int.c, asked) /\ AsAsked(x.c, asked)
<1>1. CASE int.c = x.c
  BY <1>1 DEF Merged
<1>2. CASE int.c # x.c /\ base # None /\ int.c # base /\ x.c = base
  BY <1>2 DEF Decision, Merged, InternalWins
<1>3. CASE int.c # x.c /\ base # None /\ int.c = base /\ x.c # base
  BY <1>3 DEF Decision, Merged, InternalWins
<1>4. CASE /\ int.c # x.c
           /\ ~(base # None /\ int.c # base /\ x.c = base)
           /\ ~(base # None /\ int.c = base /\ x.c # base)
  BY <1>4 DEF Decision, Merged, InternalWins
<1> QED BY <1>1, <1>2, <1>3, <1>4

\* The one external invoice.
LEMMA OneInvoice ==
  ASSUME TypeOK, Watched, made <= 1, Made(external, made, link)
  PROVE  /\ made = 0 \/ made = 1
         /\ made = 1 => 1 \in ExternalIds /\ external[1] # None /\ external[1] \in Record
         /\ \A id \in ExternalIds : id <= made => id = 1 /\ made = 1
         /\ \A id \in ExternalIds : external[id] # None => id = 1 /\ made = 1
         /\ link # None => link.ext = 1 /\ made = 1 /\ link \in Link
         /\ made = 0 => \A id \in ExternalIds : external[id] = None
         /\ (\A id \in ExternalIds : external[id] = None) => made = 0
<1>1. made \in 0..MaxExternal /\ MaxExternal \in Nat
  BY Constants DEF TypeOK
<1>2. made = 0 \/ made = 1
  BY <1>1
<1>3. ASSUME made = 1 PROVE 1 \in ExternalIds /\ external[1] # None /\ external[1] \in Record
  <2>1. 1 \in ExternalIds /\ 1 \in 1..made
    BY <1>1, <1>3 DEF ExternalIds
  <2> QED BY <2>1 DEF Watched, Live, TypeOK
<1>4. \A id \in ExternalIds : id <= made => id = 1 /\ made = 1
  BY <1>2 DEF ExternalIds
<1>5. \A id \in ExternalIds : external[id] # None => id = 1 /\ made = 1
  BY <1>4 DEF Made
<1>6. link # None => link.ext = 1 /\ made = 1 /\ link \in Link
  BY <1>4 DEF Made, TypeOK, Link
<1>7. made = 0 => \A id \in ExternalIds : external[id] = None
  BY <1>5
<1> QED BY <1>2, <1>3, <1>4, <1>5, <1>6, <1>7

\* What is known of a worker that acts.
LEMMA WhatIsKept ==
  ASSUME NEW w \in Workers, Keeping(w)
  PROVE  /\ made = 0 \/ made = 1
         /\ made = 1 => 1 \in ExternalIds /\ external[1] # None /\ external[1] \in Record
         /\ link # None => /\ link.ext = 1 /\ made = 1 /\ link \in Link
                           /\ internal # None /\ internal \in Record
         /\ (\A id \in ExternalIds : external[id] = None) => made = 0
         /\ wk[w].x # None => wk[w].xid = 1 /\ made = 1
         /\ wk[w] \in Worker /\ Placed(wk[w], internal, link) /\ Fresh(wk[w], external, clock)
         /\ wk[w].pc \in {"writeExt", "writeInt", "mark"} =>
              link # None /\ wk[w].xid = 1 /\ MergedBy(wk[w]) \in Comparable
         /\ wk[w].pc \in {"readInt", "lines", "readExt"} /\ wk[w].l # None =>
              link # None /\ wk[w].xid = 1 /\ wk[w].l.base = link.base
         /\ clock \in Nat /\ now \in Nat /\ clock < now
<1>1. /\ TypeOK /\ IInv /\ Watched /\ Made(external, made, link) /\ made <= 1
      /\ Knows(wk[w], internal, external, link, inbox, made, clock)
      /\ Dated(internal, external, link, inbox, clock)
  BY DEF Keeping, Going, Newest
<1>2. /\ wk[w] \in Worker /\ Placed(wk[w], internal, link) /\ Fresh(wk[w], external, clock)
  BY <1>1, OwnEvent
<1>3. /\ made = 0 \/ made = 1
      /\ made = 1 => 1 \in ExternalIds /\ external[1] # None /\ external[1] \in Record
      /\ \A id \in ExternalIds : id <= made => id = 1 /\ made = 1
      /\ link # None => link.ext = 1 /\ made = 1 /\ link \in Link
      /\ (\A id \in ExternalIds : external[id] = None) => made = 0
  BY <1>1, OneInvoice
<1>4. link # None => internal # None /\ internal \in Record
  BY <1>1 DEF IInv, TypeOK
<1>5. wk[w].x # None => wk[w].xid = 1 /\ made = 1
  BY <1>1, <1>2, <1>3, ActsOn
<1>6. wk[w].pc \in {"writeExt", "writeInt", "mark"} =>
        link # None /\ wk[w].xid = 1 /\ MergedBy(wk[w]) \in Comparable
  BY <1>1, <1>2, <1>3, ActsOn DEF Resolving
<1>7. wk[w].pc \in {"readInt", "lines", "readExt"} /\ wk[w].l # None =>
        link # None /\ wk[w].xid = 1 /\ wk[w].l.base = link.base
  BY <1>1, <1>3 DEF Knows, Linked
<1>8. clock \in Nat /\ now \in Nat /\ clock < now
  BY <1>1, Sent DEF TypeOK
<1> QED BY <1>2, <1>3, <1>4, <1>5, <1>6, <1>7, <1>8

LEMMA KeepsGoing ==
  ASSUME NEW w \in Workers, Keeping(w), NEW t \in Worker, wk' = [wk EXCEPT ![w] = t],
         Newest(internal', external', made', clock', latest'),
         Snapshot(internal', external', link', latest'),
         Attends(t, internal', external', made', latest')
  PROVE  Lasting'
<1>1. \A v \in Workers : wk'[v] = t
  BY DEF Keeping, Going, Steady, TypeOK
<1> QED BY <1>1 DEF Lasting

LEMMA KeepsLooking ==
  ASSUME NEW w \in Workers, Keeping(w), NEW t \in Worker, wk' = [wk EXCEPT ![w] = t],
         UNCHANGED <<sides, link, latest>>,
         Attends(t, internal, external, made, latest)
  PROVE  Lasting'
<1>1. UNCHANGED <<internal, external, made, clock, link, latest>>
  BY DEF sides
<1> QED BY <1>1, KeepsGoing DEF Keeping

LEMMA KeepsResting ==
  ASSUME NEW w \in Workers, Keeping(w), wk' = [wk EXCEPT ![w] = Idle],
         Newest(internal', external', made', clock', latest'),
         Snapshot(internal', external', link', latest')
  PROVE  Lasting'
<1>1. Idle \in Worker /\ Idle.pc = "idle"
  BY IdleWorker
<1>2. Attends(Idle, internal', external', made', latest')
  BY <1>1 DEF Attends
<1> QED BY <1>1, <1>2, KeepsGoing

\* It ends, with nothing done.
LEMMA KeepsStill ==
  ASSUME NEW w \in Workers, Keeping(w), wk' = [wk EXCEPT ![w] = Idle],
         UNCHANGED <<sides, link, latest>>
  PROVE  Lasting'
<1>1. UNCHANGED <<internal, external, made, clock, link, latest>>
  BY DEF sides
<1> QED BY <1>1, KeepsResting DEF Keeping

-----------------------------------------------------------------------------
(* The last edit: the worker *)

LEMMA ClaimKeeps ==
  ASSUME NEW w \in Workers, Keeping(w), NEW e \in inbox, Claim(w, e) PROVE Lasting'
<1> DEFINE claimed == [e EXCEPT !.tries = IF @ < MaxAttempts THEN @ + 1 ELSE @]
           t == [Idle EXCEPT !.pc = "lookup", !.ev = claimed]
<1>1. e \in Event /\ claimed \in Event
  BY Constants DEF Keeping, Going, TypeOK, Event
<1>2. /\ wk' = [wk EXCEPT ![w] = t] /\ UNCHANGED <<sides, link, latest>>
  BY DEF Claim, Users
<1> HIDE DEF claimed
<1>3. t \in Worker /\ t.pc = "lookup"
  <2>1. Idle \in Worker /\ "lookup" \in Stages
    BY IdleWorker DEF Stages
  <2> QED BY <1>1, <2>1 DEF Worker
<1> HIDE DEF t
<1>4. Attends(t, internal, external, made, latest)
  BY <1>3 DEF Attends
<1> QED BY <1>2, <1>3, <1>4, KeepsLooking

LEMMA LookupKeeps ==
  ASSUME NEW w \in Workers, Keeping(w), Lookup(w) PROVE Lasting'
<1> DEFINE r == wk[w]
           l == FoundLink(r.ev)
           pc == IF l = None /\ r.ev.src = "external" THEN "readExt" ELSE "readInt"
           xid == IF l = None THEN r.ev.id ELSE l.ext
           t == [r EXCEPT !.l = l, !.pc = pc, !.xid = xid]
<1>0. /\ r.pc = "lookup" /\ r \in Worker /\ wk' = [wk EXCEPT ![w] = t]
      /\ UNCHANGED <<sides, link, latest>> /\ r.ev \in Event /\ r.i = None /\ r.x = None
  BY WhatIsKept DEF Lookup, Placed, Users, Keeping, Going, Knows, Told
<1>1. l \in Link \cup {None} /\ pc \in {"readExt", "readInt"} /\ pc \in Stages
  BY DEF FoundLink, Keeping, Going, TypeOK, Stages
<1>2. xid \in 0..MaxExternal
  BY <1>0, <1>1, Constants DEF Event, Link, ExternalIds
<1> HIDE DEF l, pc, xid
<1>3. t \in Worker /\ t.pc = pc /\ t.i = None /\ t.x = None
  BY <1>0, <1>1, <1>2 DEF Worker
<1> HIDE DEF t
<1>4. Attends(t, internal, external, made, latest)
  BY <1>1, <1>3 DEF Attends
<1> QED BY <1>0, <1>3, <1>4, KeepsLooking

LEMMA ReadInternalKeeps ==
  ASSUME NEW w \in Workers, Keeping(w), ReadInternal(w) PROVE Lasting'
<1> DEFINE r == wk[w]
<1>0. /\ r.pc = "readInt" /\ r \in Worker /\ Placed(r, internal, link)
      /\ UNCHANGED <<sides, link, latest>> /\ r.ev \in Event
      /\ Attends(r, internal, external, made, latest)
  BY WhatIsKept DEF ReadInternal, Placed, Users, Keeping
<1> DEFINE pc == IF internal = None THEN "insert" ELSE "lines"
           t == [r EXCEPT !.pc = pc, !.i = internal]
<1>1. /\ t \in Worker /\ t.pc = pc /\ t.i = internal
      /\ t.x = r.x /\ t.xid = r.xid /\ wk' = [wk EXCEPT ![w] = t]
  BY <1>0 DEF ReadInternal, Keeping, Going, TypeOK, Worker, Stages
<1>2. pc \in {"insert", "lines"}
  OBVIOUS
<1> HIDE DEF pc, t
<1>3. Attends(t, internal, external, made, latest)
  BY <1>0, <1>1, <1>2 DEF Attends
<1> QED BY <1>0, <1>1, <1>3, KeepsLooking

\* Nobody has written the invoice since the row was read.
LEMMA ReadLinesKeeps ==
  ASSUME NEW w \in Workers, Keeping(w), ReadLines(w) PROVE Lasting'
<1> DEFINE r == wk[w]
<1>0. /\ r.pc = "lines" /\ r \in Worker /\ TypeOK /\ IInv
      /\ Attends(r, internal, external, made, latest)
      /\ clock \in Nat /\ now \in Nat /\ clock < now
      /\ Dated(internal, external, link, inbox, clock)
  BY WhatIsKept DEF ReadLines, Keeping, Going
<1>1. /\ r.i \in Record /\ r.i # None /\ internal # None
      /\ UNCHANGED <<internal, external, made, link, latest>>
      /\ \E body \in Read(r.i) :
           /\ body \in Nat /\ clock' = IF body = now THEN now ELSE clock
           /\ \/ wk' = [wk EXCEPT ![w] = Idle]
              \/ \E pc \in {"readExt", "newLink", "find"} :
                   /\ wk' = [wk EXCEPT ![w] = Lined(r, pc, body)]
                   /\ pc = "find" => ~Dead(r.i.c)
  BY <1>0, ReadsLines DEF Users
<1>2. internal = r.i /\ internal.c.body <= clock /\ internal.c.body \in Nat
  BY <1>0, <1>1, Contents, Bodies DEF Attends, Dated
<1>3. \A body \in Read(r.i) : body = r.i.c.body /\ body # now
  BY <1>0, <1>2 DEF Read
<1>4. UNCHANGED <<sides, link, latest>>
  BY <1>1, <1>3 DEF sides
<1>5. CASE wk' = [wk EXCEPT ![w] = Idle]
  BY <1>4, <1>5, KeepsStill
<1>6. ASSUME NEW body \in Nat, body = r.i.c.body, NEW pc \in {"readExt", "newLink", "find"},
             wk' = [wk EXCEPT ![w] = Lined(r, pc, body)], pc = "find" => ~Dead(r.i.c)
      PROVE  Lasting'
  <2> DEFINE t == Lined(r, pc, body)
  <2>0. pc \in Stages
    BY DEF Stages
  <2>1. t \in Worker /\ t.pc = pc /\ t.x = r.x /\ t.xid = r.xid /\ t.i = r.i
    BY <1>0, <1>1, <1>6, <2>0, LinedIs
  <2>2. wk' = [wk EXCEPT ![w] = t]
    BY <1>6
  <2> HIDE DEF t
  <2>3. Attends(t, internal, external, made, latest)
    BY <1>0, <1>2, <1>6, <2>1 DEF Attends
  <2> QED BY <1>4, <2>1, <2>2, <2>3, KeepsLooking
<1>7. CASE wk' # [wk EXCEPT ![w] = Idle]
  <2>1. PICK body \in Read(r.i) :
          /\ body \in Nat
          /\ \E pc \in {"readExt", "newLink", "find"} :
               /\ wk' = [wk EXCEPT ![w] = Lined(r, pc, body)]
               /\ pc = "find" => ~Dead(r.i.c)
    BY <1>1, <1>7
  <2>2. PICK pc \in {"readExt", "newLink", "find"} :
          wk' = [wk EXCEPT ![w] = Lined(r, pc, body)] /\ (pc = "find" => ~Dead(r.i.c))
    BY <2>1
  <2> QED BY <1>3, <1>6, <2>1, <2>2
<1> QED BY <1>5, <1>7

\* A resolution of what is there.
LEMMA ResolvesAsAsked ==
  ASSUME TypeOK, NEW t \in Worker, NEW int \in Record, NEW ext, NEW n, NEW base, NEW asked,
         NEW time, int.at <= time, t.i = int, t.x = ext[1], t.x # None, t.x \in Record, t.xid = 1,
         n = 1, Newest(int, ext, n, time, asked),
         base # None /\ AsAsked(base, asked) => AsAsked(int.c, asked) /\ AsAsked(ext[1].c, asked),
         t.d = Decision(base, int.c, ext[1].c, int.at, ext[1].at),
         t.pc = AfterDecision(t.d, t.x)
  PROVE  Attends(t, int, ext, n, asked) /\ (t.d = "noop" => AsAsked(int.c, asked) /\ AsAsked(ext[1].c, asked))
<1>1. AsAsked(IF int.at > ext[1].at THEN int.c ELSE ext[1].c, asked)
  BY NoneOK DEF NoneOK, Newest
<1> DEFINE d == t.d
<1>2. /\ AsAsked(Merged(d, int.c, ext[1].c), asked)
      /\ d = "noop" => AsAsked(int.c, asked) /\ AsAsked(ext[1].c, asked)
  <2>1. d = Decision(base, int.c, ext[1].c, int.at, ext[1].at)
    OBVIOUS
  <2> HIDE DEF d
  <2> QED BY <1>1, <2>1, DecidesAsAsked
<1>3. MergedBy(t) = Merged(d, int.c, ext[1].c)
  BY DEF MergedBy, Seen
<1>4. t.pc \in {"mark", "writeInt", "writeExt"} /\ (t.pc = "mark" <=> d = "noop")
  BY DEF AfterDecision, InternalWins
<1> HIDE DEF d
<1>5. Attends(t, int, ext, n, asked)
  BY <1>2, <1>3, <1>4 DEF Attends
<1> QED BY <1>2, <1>5 DEF d

LEMMA ReadExternalKeeps ==
  ASSUME NEW w \in Workers, Keeping(w), ReadExternal(w) PROVE Lasting'
<1> DEFINE r == wk[w]
           x == external[r.xid]
<1>0. /\ r.pc = "readExt" /\ r \in Worker /\ Placed(r, internal, link)
      /\ UNCHANGED <<sides, link, latest>> /\ r.xid \in ExternalIds
      /\ Attends(r, internal, external, made, latest) /\ TypeOK
  BY WhatIsKept DEF ReadExternal, Placed, Users, Keeping, Going
<1>1. x \in Record \cup {None}
  BY <1>0 DEF TypeOK
<1>2. CASE r.l = None /\ x = None
  BY <1>0, <1>2, KeepsStill DEF ReadExternal, Done
<1>3. CASE r.l = None /\ x # None
  <2> DEFINE t == [r EXCEPT !.pc = "readInt", !.x = x]
  <2>1. wk' = [wk EXCEPT ![w] = t]
    BY <1>3 DEF ReadExternal
  <2>2. t \in Worker /\ t.pc = "readInt" /\ t.x = x /\ t.xid = r.xid
    BY <1>0, <1>1 DEF Worker, Stages
  <2> HIDE DEF t
  <2>3. Attends(t, internal, external, made, latest)
    BY <2>2 DEF Attends
  <2> QED BY <1>0, <2>1, <2>2, <2>3, KeepsLooking
<1>4. CASE r.l # None
  <2> DEFINE seen == Seen(x, r.l, r.i)
             d == Decision(r.l.base, r.i.c, seen, r.i.at, ExternalAt(x, r.ev, r.l))
             t == [r EXCEPT !.pc = AfterDecision(d, x), !.x = x, !.d = d]
  <2>1. /\ link # None /\ link.ext = 1 /\ r.xid = 1 /\ made = 1 /\ external[1] # None
        /\ external[1] \in Record /\ r.l.base = link.base /\ internal \in Record /\ 1 \in ExternalIds
    BY <1>0, <1>4, WhatIsKept
  <2>2. r.i = internal /\ x = external[1] /\ x # None
    BY <1>0, <1>4, <2>1 DEF Placed, Attends
  <2>3. CASE IsEcho(r.ev, r.i, seen, r.l)
    BY <1>0, <1>4, <2>3, KeepsStill DEF ReadExternal, Done
  <2>4. CASE ~IsEcho(r.ev, r.i, seen, r.l)
    <3>1. wk' = [wk EXCEPT ![w] = t]
      BY <1>4, <2>4 DEF ReadExternal
    <3>2. d \in Decisions /\ AfterDecision(d, x) \in Stages
      BY Decided DEF AfterDecision, Stages
    <3>3. seen = x.c /\ ExternalAt(x, r.ev, r.l) = x.at
      BY <2>2 DEF Seen, ExternalAt
    <3>4. /\ t.x = x /\ t.i = r.i /\ t.xid = r.xid
          /\ t.d = d /\ t.pc = AfterDecision(d, x)
      BY <1>0 DEF Worker
    <3>5. t \in Worker
      BY <1>0, <1>1, <3>2 DEF Worker
    <3>6. d = Decision(link.base, internal.c, external[1].c, internal.at, external[1].at)
      BY <2>1, <2>2, <3>3
    <3> HIDE DEF d, t, x
    <3>7. /\ t.i = internal /\ t.x = external[1] /\ t.x # None /\ t.x \in Record /\ t.xid = 1
          /\ t.pc = AfterDecision(t.d, t.x)
          /\ t.d = Decision(link.base, internal.c, external[1].c, internal.at, external[1].at)
      BY <2>1, <2>2, <3>4, <3>6
    <3>8. /\ internal.at <= clock /\ Newest(internal, external, made, clock, latest)
          /\ link.base # None /\ AsAsked(link.base, latest) =>
               AsAsked(internal.c, latest) /\ AsAsked(external[1].c, latest)
      BY <2>1, NoneOK DEF NoneOK, Keeping, Newest, Snapshot
    <3>9. Attends(t, internal, external, made, latest)
      BY <1>0, <2>1, <3>5, <3>7, <3>8, ResolvesAsAsked
    <3> QED BY <1>0, <3>1, <3>5, <3>9, KeepsLooking
  <2> QED BY <2>3, <2>4
<1> QED BY <1>2, <1>3, <1>4

LEMMA FindKeeps ==
  ASSUME NEW w \in Workers, Keeping(w), Find(w) PROVE Lasting'
<1> DEFINE r == wk[w]
<1>0. /\ r.pc = "find" /\ r \in Worker /\ Placed(r, internal, link)
      /\ UNCHANGED <<sides, link, latest>> /\ TypeOK
      /\ Attends(r, internal, external, made, latest)
  BY WhatIsKept DEF Find, Users, Keeping, Going
<1>1. ASSUME NEW id \in ExternalIds, external[id] # None,
             wk' = [wk EXCEPT ![w] = [@ EXCEPT !.pc = "newLink", !.xid = id, !.x = external[id]]]
      PROVE  Lasting'
  <2> DEFINE t == [r EXCEPT !.pc = "newLink", !.xid = id, !.x = external[id]]
  <2>1. id \in 0..MaxExternal /\ external[id] \in Record
    BY <1>0, <1>1, Constants DEF ExternalIds, TypeOK
  <2>2. t \in Worker /\ t.pc = "newLink" /\ t.i = r.i /\ t.xid = id /\ t.x = external[id]
    BY <1>0, <2>1 DEF Worker, Stages
  <2>3. wk' = [wk EXCEPT ![w] = t]
    BY <1>1
  <2> HIDE DEF t
  <2>4. Attends(t, internal, external, made, latest)
    BY <1>0, <2>2 DEF Attends
  <2> QED BY <1>0, <2>2, <2>3, <2>4, KeepsLooking
<1>2. ASSUME \A id \in ExternalIds : external[id] = None, Goes(w, "create")
      PROVE  Lasting'
  <2> DEFINE t == [r EXCEPT !.pc = "create"]
  <2>1. t \in Worker /\ t.pc = "create" /\ t.i = r.i /\ wk' = [wk EXCEPT ![w] = t]
    BY <1>0, <1>2 DEF Worker, Stages, Goes
  <2>2. made = 0
    BY <1>2, WhatIsKept
  <2> HIDE DEF t
  <2>3. Attends(t, internal, external, made, latest)
    BY <1>0, <2>1, <2>2 DEF Attends
  <2> QED BY <1>0, <2>1, <2>3, KeepsLooking
<1> QED BY <1>1, <1>2 DEF Find

\* It makes the one external invoice, of an invoice that is not dead.
LEMMA MakesAsAsked ==
  ASSUME NEW w \in Workers, Keeping(w), wk[w].pc = "create", link' = link, latest' = latest,
         MakeExternal(Created(wk[w].i.c))
  PROVE  /\ internal' = internal /\ made' = 1 /\ made + 1 = 1 /\ clock' = now
         /\ external'[1] \in Record /\ external'[1] # None
         /\ Newest(internal', external', made', clock', latest')
         /\ Snapshot(internal', external', link', latest')
<1> DEFINE r == wk[w]
           c == Created(r.i.c)
<1>1. /\ made = 0 /\ r.i = internal /\ internal \in Record /\ internal # None /\ ~Dead(internal.c)
      /\ TypeOK /\ IInv /\ clock \in Nat /\ now \in Nat /\ clock < now /\ link = None
      /\ Newest(internal, external, made, clock, latest)
  BY WhatIsKept DEF Keeping, Going, Attends, Placed, TypeOK, Resolving
<1>2. internal.c \in Comparable /\ internal.at \in Nat
  BY <1>1, Contents
<1>3. c = internal.c
  <2>1. internal.c.life = "active"
    BY <1>1, <1>2, Bodies DEF Lifecycles, Dead
  <2>2. \A e \in Comparable : e.life = "active" => [e EXCEPT !.life = "active"] = e
    BY Bodies DEF Lifecycles
  <2>3. [internal.c EXCEPT !.life = "active"] = internal.c
    BY <1>2, <2>1, <2>2
  <2> QED BY <1>1, <2>3 DEF Created
<1>4. MakeExternal(c) /\ c \in Comparable
  BY <1>2, <1>3
<1> HIDE DEF c
<1>5. /\ made' = 1 /\ made + 1 = 1 /\ clock' = now /\ internal' = internal
      /\ external'[1] = [c |-> c, at |-> now] /\ external'[1] \in Record
  <2>1. clock' = now /\ internal' = internal
    BY <1>4 DEF MakeExternal, PutExternal
  <2>2. /\ made' = made + 1
        /\ external'[made + 1] = [c |-> c, at |-> now] /\ external'[made + 1] \in Record
    BY <1>1, <1>4, MakesExternal
  <2>3. made + 1 = 1
    BY <1>1
  <2> QED BY <2>1, <2>2, <2>3
<1>6. external'[1] # None /\ external'[1].c = internal.c
  BY <1>1, <1>3, <1>4, <1>5, Contents
<1>7. AsAsked(internal.c, latest)
  BY <1>1 DEF Newest
<1>8. Newest(internal', external', made', clock', latest')
  BY <1>1, <1>2, <1>5, <1>6, <1>7 DEF Newest
<1>9. Snapshot(internal', external', link', latest')
  BY <1>1 DEF Snapshot
<1> QED BY <1>5, <1>6, <1>8, <1>9

LEMMA CreateKeeps ==
  ASSUME NEW w \in Workers, Keeping(w), Create(w) PROVE Lasting'
<1> DEFINE r == wk[w]
           t == [r EXCEPT !.pc = "newLink", !.xid = made + 1, !.x = external'[made + 1]]
<1>1. /\ r.pc = "create" /\ r \in Worker /\ link' = link /\ latest' = latest
      /\ MakeExternal(Created(r.i.c)) /\ wk' = [wk EXCEPT ![w] = t]
      /\ Attends(r, internal, external, made, latest) /\ TypeOK
  BY WhatIsKept DEF Create, MakeFrom, Users, Keeping, Going
<1>2. /\ internal' = internal /\ made' = 1 /\ made + 1 = 1
      /\ external'[1] \in Record /\ external'[1] # None
      /\ Newest(internal', external', made', clock', latest')
      /\ Snapshot(internal', external', link', latest')
  BY <1>1, MakesAsAsked
<1>3. made + 1 \in 0..MaxExternal
  BY <1>1, <1>2, Constants DEF MakeExternal, TypeOK
<1>4. /\ t \in Worker /\ t.pc = "newLink" /\ t.i = r.i /\ t.xid = 1 /\ t.x = external'[1]
  BY <1>1, <1>2, <1>3 DEF Worker, Stages
<1> HIDE DEF t
<1>5. Attends(t, internal', external', made', latest')
  BY <1>1, <1>2, <1>4 DEF Attends
<1> QED BY <1>1, <1>2, <1>4, <1>5, KeepsGoing

LEMMA InsertKeeps ==
  ASSUME NEW w \in Workers, Keeping(w), Insert(w) PROVE Lasting'
<1> DEFINE r == wk[w]
           t == [r EXCEPT !.pc = "newLink", !.i = internal']
<1>0. /\ r.pc = "insert" /\ r \in Worker /\ Placed(r, internal, link) /\ r.x # None
      /\ link' = link /\ latest' = latest /\ TypeOK /\ IInv
      /\ Attends(r, internal, external, made, latest)
      /\ r.xid = 1 /\ made = 1 /\ 1 \in ExternalIds /\ external[1] \in Record /\ external[1] # None
      /\ Newest(internal, external, made, clock, latest)
      /\ clock \in Nat /\ now \in Nat /\ clock < now
  BY WhatIsKept DEF Insert, Users, Keeping, Going, Placed
<1>1. CASE internal # None
  BY <1>0, <1>1, KeepsStill DEF Insert, Fails
<1>2. CASE internal = None
  <2>1. PutInternal(r.x.c) /\ wk' = [wk EXCEPT ![w] = t]
    BY <1>2 DEF Insert
  <2>2. r.x = external[1] /\ r.x.c \in Comparable
    BY <1>0, Contents DEF Attends
  <2>3. internal' \in Record /\ internal' # None
    BY <1>0, <2>1, <2>2, PutsInternal
  <2>4. /\ internal'.c = external[1].c /\ internal'.at = now /\ clock' = now
        /\ external' = external /\ made' = made
    BY <2>1, <2>2 DEF PutInternal
  <2>5. AsAsked(external[1].c, latest)
    BY <1>0, <1>2 DEF Newest
  <2>6. Newest(internal', external', made', clock', latest')
    BY <1>0, <2>4, <2>5 DEF Newest
  <2>7. Snapshot(internal', external', link', latest')
    BY <1>0, <1>2 DEF Snapshot, IInv
  <2>8. t \in Worker /\ t.pc = "newLink" /\ t.i = internal' /\ t.xid = r.xid /\ t.x = r.x
    BY <1>0, <2>3 DEF Worker, Stages
  <2> HIDE DEF t
  <2>9. Attends(t, internal', external', made', latest')
    BY <1>0, <2>2, <2>4, <2>8 DEF Attends
  <2> QED BY <2>1, <2>6, <2>7, <2>8, <2>9, KeepsGoing
<1> QED BY <1>1, <1>2

LEMMA NewLinkKeeps ==
  ASSUME NEW w \in Workers, Keeping(w), NewLink(w) PROVE Lasting'
<1> DEFINE r == wk[w]
           d == Decision(None, r.i.c, r.x.c, r.i.at, r.x.at)
           l == [ext |-> r.xid, base |-> IF d = "noop" THEN r.i.c ELSE None, synced |-> 0]
           t == [r EXCEPT !.pc = AfterDecision(d, r.x), !.l = l, !.d = d]
<1>0. /\ r.pc = "newLink" /\ r \in Worker /\ Placed(r, internal, link)
      /\ r.x # None /\ r.i # None /\ TypeOK
      /\ UNCHANGED <<sides, latest>>
      /\ Attends(r, internal, external, made, latest)
      /\ r.xid = 1 /\ made = 1 /\ 1 \in ExternalIds /\ external[1] \in Record /\ external[1] # None
      /\ Newest(internal, external, made, clock, latest)
  BY WhatIsKept DEF NewLink, Users, Keeping, Going, Placed
<1>1. UNCHANGED <<internal, external, made, clock, latest>>
  BY <1>0 DEF sides
<1>2. CASE link # None
  BY <1>0, <1>2, KeepsStill DEF NewLink, Fails
<1>3. CASE link = None
  <2>1. link' = l /\ wk' = [wk EXCEPT ![w] = t]
    BY <1>3 DEF NewLink
  <2>2. /\ r.i = internal /\ r.x = external[1] /\ internal \in Record /\ internal # None
        /\ internal.c \in Comparable /\ internal.at <= clock
    BY <1>0, Contents DEF Attends, Newest, Worker
  <2>3. d = Decision(None, internal.c, external[1].c, internal.at, external[1].at)
    BY <2>2
  <2>4. d \in Decisions /\ AfterDecision(d, r.x) \in Stages
    BY Decided DEF AfterDecision, Stages
  <2>5. d = "noop" => internal.c = external[1].c
    BY <2>3 DEF Decision
  <2>6. l \in Link /\ l.ext = 1 /\ l.base = IF d = "noop" THEN internal.c ELSE None
    BY <1>0, <2>2 DEF Link
  <2> HIDE DEF d, l
  <2>7. /\ t.pc = AfterDecision(d, r.x) /\ t.i = r.i /\ t.x = r.x /\ t.xid = r.xid /\ t.d = d
        /\ t \in Worker
    <3>1. \A pc \in Stages, k \in Link, e \in Decisions : [r EXCEPT !.pc = pc, !.l = k, !.d = e] \in Worker
      BY <1>0 DEF Worker
    <3> QED BY <1>0, <2>4, <2>6, <3>1 DEF Worker
  <2> HIDE DEF t
  <2>8. /\ Attends(t, internal, external, made, latest)
        /\ d = "noop" => AsAsked(internal.c, latest) /\ AsAsked(external[1].c, latest)
    <3>1. /\ t.i = internal /\ t.x = external[1] /\ t.x # None /\ t.x \in Record /\ t.xid = 1
          /\ t.pc = AfterDecision(t.d, t.x)
          /\ t.d = Decision(None, internal.c, external[1].c, internal.at, external[1].at)
      BY <1>0, <2>2, <2>3, <2>7
    <3> QED BY <1>0, <2>2, <2>7, <3>1, ResolvesAsAsked
  <2>9. Snapshot(internal', external', link', latest')
    BY <1>1, <2>1, <2>5, <2>6, <2>8 DEF Snapshot
  <2> QED BY <1>0, <1>1, <2>1, <2>7, <2>8, <2>9, KeepsGoing
<1> QED BY <1>2, <1>3

\* It updates the external invoice: from an internal state that is what was
\* asked for.
LEMMA PutsAsAsked ==
  ASSUME NEW w \in Workers, Keeping(w), wk[w].pc = "writeExt", link' = link, latest' = latest,
         PutMerged(w)
  PROVE  /\ internal' = internal /\ made' = made /\ wk[w].xid = 1
         /\ MergedBy(wk[w]) = internal.c
         /\ AsAsked(internal.c, latest) /\ AsAsked(external'[1].c, latest)
         /\ Newest(internal', external', made', clock', latest')
         /\ Snapshot(internal', external', link', latest')
<1> DEFINE r == wk[w]
           m == MergedBy(r)
           old == external[1].c
           c == IF Dead(m) THEN Voided(old) ELSE m
<1>1. /\ made = 1 /\ 1 \in ExternalIds /\ external[1] \in Record /\ r.xid = 1
      /\ link # None /\ link.ext = 1 /\ internal # None /\ internal \in Record
      /\ m \in Comparable /\ clock \in Nat /\ now \in Nat /\ clock < now
      /\ Placed(r, internal, link)
  BY WhatIsKept
<1>2. /\ TypeOK /\ IInv /\ Resolves(r, external, link)
      /\ Newest(internal, external, made, clock, latest)
      /\ Snapshot(internal, external, link, latest)
      /\ Attends(r, internal, external, made, latest)
  BY DEF Keeping, Going, Knows
<1>3. old \in Comparable /\ c \in Comparable /\ internal.at \in Nat
  BY <1>1, Contents
<1>4. m = internal.c
  <2>1. r.i = internal /\ InternalWins(r.d)
    BY <1>1, <1>2 DEF Attends, Resolves, Placed, Resolving
  <2> QED BY <2>1 DEF MergedBy, Merged
<1>5. AsAsked(m, latest)
  BY <1>2 DEF Attends
<1>6. (Dead(m) => Dead(c)) /\ AsAsked(c, latest)
  BY <1>3, <1>5, Bodies, Asked
<1>7. PutExternal(1, c) /\ made' = made
  BY <1>1 DEF PutMerged, MergedOf, MergedBy
<1> HIDE DEF c, m, old
<1>8. /\ internal' = internal /\ clock' = now
      /\ external'[1] = [c |-> c, at |-> now]
  <2>1. internal' = internal /\ clock' = now
    BY <1>7 DEF PutExternal
  <2>2. made' \in 0..MaxExternal
    BY <1>2, <1>7 DEF TypeOK
  <2>3. external'[1] = [c |-> c, at |-> now]
    BY <1>1, <1>2, <1>3, <1>7, <2>2, PutsExternal
  <2> QED BY <2>1, <2>3
<1>9. external'[1].c = c /\ external'[1].at = now
  BY <1>8
<1>10. Newest(internal', external', made', clock', latest')
  <2>1. internal.at <= clock
    BY <1>1, <1>2 DEF Newest
  <2> QED BY <1>1, <1>3, <1>6, <1>7, <1>8, <1>9, <2>1 DEF Newest
<1>11. Snapshot(internal', external', link', latest')
  BY <1>1, <1>2, <1>4, <1>6, <1>8, <1>9 DEF Snapshot
<1> QED BY <1>1, <1>4, <1>5, <1>6, <1>7, <1>8, <1>9, <1>10, <1>11 DEF m

LEMMA WriteExternalKeeps ==
  ASSUME NEW w \in Workers, Keeping(w), WriteExternal(w) PROVE Lasting'
<1>0. wk[w].pc = "writeExt" /\ link' = link /\ latest' = latest /\ TypeOK
  BY DEF WriteExternal, Users, Keeping, Going
<1>1. CASE ~CanWrite(w)
  BY <1>0, <1>1, KeepsStill DEF WriteExternal, Fails
<1>2. CASE CanWrite(w)
  <2>1. PutMerged(w) /\ Goes(w, "mark")
    BY <1>2 DEF WriteExternal
  <2>2. /\ internal' = internal /\ made' = made /\ wk[w].xid = 1
        /\ MergedBy(wk[w]) = internal.c
        /\ AsAsked(internal.c, latest) /\ AsAsked(external'[1].c, latest)
        /\ Newest(internal', external', made', clock', latest')
        /\ Snapshot(internal', external', link', latest')
    BY <1>0, <2>1, PutsAsAsked
  <2> DEFINE t == [wk[w] EXCEPT !.pc = "mark"]
  <2>3. /\ t \in Worker /\ t.pc = "mark" /\ t.xid = wk[w].xid
        /\ MergedBy(t) = MergedBy(wk[w])
        /\ wk' = [wk EXCEPT ![w] = t]
    <3>1. wk[w] \in Worker
      BY <1>0 DEF TypeOK
    <3>2. /\ t \in Worker /\ t.pc = "mark" /\ t.i = wk[w].i /\ t.x = wk[w].x /\ t.xid = wk[w].xid
          /\ t.d = wk[w].d /\ t.l = wk[w].l /\ wk' = [wk EXCEPT ![w] = t]
      BY <2>1, <3>1 DEF Worker, Stages, Goes
    <3> HIDE DEF t
    <3> QED BY <3>2 DEF MergedBy
  <2> HIDE DEF t
  <2>4. Attends(t, internal', external', made', latest')
    BY <1>0, <2>2, <2>3 DEF Attends
  <2> QED BY <2>2, <2>3, <2>4, KeepsGoing
<1> QED BY <1>1, <1>2

LEMMA TimesOutKeeps ==
  ASSUME NEW w \in Workers, Keeping(w), TimesOut(w) PROVE Lasting'
<1>0. link' = link /\ latest' = latest /\ wk' = [wk EXCEPT ![w] = Idle]
  BY DEF TimesOut, Users
<1>1. CASE wk[w].pc \in {"create", "recreate"} /\ MakeExternal(Created(wk[w].i.c))
  <2>1. wk[w].pc = "create"
    BY <1>1 DEF Keeping, Attends
  <2> QED BY <1>0, <1>1, <2>1, MakesAsAsked, KeepsResting
<1>2. CASE wk[w].pc = "writeExt" /\ PutMerged(w)
  BY <1>0, <1>2, PutsAsAsked, KeepsResting
<1> QED BY <1>1, <1>2 DEF TimesOut

\* It updates the internal invoice: from the external state, which is what was
\* asked for.
LEMMA WriteInternalKeeps ==
  ASSUME NEW w \in Workers, Keeping(w), WriteInternal(w) PROVE Lasting'
<1> DEFINE r == wk[w]
           m == MergedBy(r)
           old == internal.c
           c == IF Dead(m) THEN [old EXCEPT !.life = m.life] ELSE m
<1>0. /\ r.pc = "writeInt" /\ link' = link /\ latest' = latest
      /\ PutInternal(c) /\ Goes(w, "mark")
  BY DEF WriteInternal, Users, MergedOf, MergedBy
<1>1. /\ made = 1 /\ 1 \in ExternalIds /\ external[1] \in Record /\ external[1] # None
      /\ r.xid = 1 /\ link # None /\ link.ext = 1 /\ internal # None /\ internal \in Record
      /\ m \in Comparable /\ clock \in Nat /\ now \in Nat /\ clock < now
  BY <1>0, WhatIsKept
<1>2. /\ TypeOK /\ IInv /\ Resolves(r, external, link)
      /\ Newest(internal, external, made, clock, latest)
      /\ Snapshot(internal, external, link, latest)
      /\ Attends(r, internal, external, made, latest)
  BY DEF Keeping, Going, Knows
<1>3. old \in Comparable /\ external[1].at \in Nat /\ external[1].at <= clock
  BY <1>1, <1>2, Contents DEF IInv
<1>4. m = external[1].c
  <2>1. r.x = external[1] /\ ~InternalWins(r.d)
    BY <1>0, <1>1, <1>2 DEF Attends, Resolves
  <2> QED BY <1>1, <2>1 DEF MergedBy, Merged, Seen
<1>5. AsAsked(m, latest)
  BY <1>0, <1>2 DEF Attends
<1>6. (Dead(m) => Dead(c)) /\ AsAsked(c, latest)
  <2>1. CASE Dead(m)
    <3>1. m.life \in Lifecycles /\ m.life \in {"voided", "deleted"}
      BY <1>1, <2>1, Bodies DEF Dead
    <3>2. c = [old EXCEPT !.life = m.life]
      BY <2>1
    <3>3. c.life = m.life
      BY <1>3, <3>1, <3>2, Bodies
    <3>4. Dead(c)
      BY <3>1, <3>3 DEF Dead
    <3> QED BY <1>5, <2>1, <3>4, Asked
  <2>2. CASE ~Dead(m)
    BY <1>5, <2>2
  <2> QED BY <2>1, <2>2
<1> HIDE DEF c, m, old
<1>7. /\ internal' # None /\ internal'.c = c /\ internal'.at = now
      /\ external' = external /\ made' = made /\ clock' = now
  <2>1. internal' = [c |-> c, at |-> now] /\ external' = external /\ made' = made /\ clock' = now
    BY <1>0 DEF PutInternal
  <2>2. c \in Comparable
    BY <1>1, <1>3, Bodies DEF c
  <2> QED BY <1>1, <2>1, <2>2, Contents
<1>8. Newest(internal', external', made', clock', latest')
  BY <1>0, <1>1, <1>3, <1>6, <1>7 DEF Newest
<1>9. Snapshot(internal', external', link', latest')
  BY <1>0, <1>1, <1>2, <1>4, <1>6, <1>7 DEF Snapshot
<1> DEFINE t == [r EXCEPT !.pc = "mark"]
<1>10. /\ t \in Worker /\ t.pc = "mark" /\ t.xid = r.xid
       /\ MergedBy(t) = MergedBy(r)
       /\ wk' = [wk EXCEPT ![w] = t]
  <2>1. r \in Worker
    BY <1>2 DEF TypeOK
  <2>2. /\ t \in Worker /\ t.pc = "mark" /\ t.i = r.i /\ t.x = r.x /\ t.xid = r.xid
        /\ t.d = r.d /\ t.l = r.l /\ wk' = [wk EXCEPT ![w] = t]
    BY <1>0, <2>1 DEF Worker, Stages, Goes
  <2> HIDE DEF t
  <2> QED BY <2>2 DEF MergedBy
<1> HIDE DEF t
<1>11. Attends(t, internal', external', made', latest')
  BY <1>0, <1>1, <1>4, <1>5, <1>6, <1>7, <1>10 DEF Attends, m
<1> QED BY <1>8, <1>9, <1>10, <1>11, KeepsGoing

\* The snapshot that it takes is what was asked for, and what both sides have.
LEMMA MarkKeeps ==
  ASSUME NEW w \in Workers, Keeping(w), Mark(w) PROVE Lasting'
<1> DEFINE r == wk[w]
           m == MergedBy(r)
<1>0. /\ r.pc = "mark" /\ latest' = latest /\ UNCHANGED <<internal, external, made, clock>>
      /\ link' = [link EXCEPT !.base = m, !.synced = clock] /\ Goes(w, "finish")
  BY DEF Mark, Users, MergedOf, MergedBy, sides
<1>1. r.xid = 1 /\ link # None /\ link \in Link /\ link.ext = 1
  BY <1>0, WhatIsKept
<1>2. /\ TypeOK /\ Newest(internal, external, made, clock, latest)
      /\ Attends(r, internal, external, made, latest)
  BY DEF Keeping, Going
<1>3. AsAsked(m, latest) /\ AsAsked(internal.c, latest) /\ AsAsked(external[1].c, latest)
  BY <1>0, <1>1, <1>2 DEF Attends
<1>4. Dead(m) => Dead(internal.c) /\ Dead(external[1].c)
  BY <1>3, Asked
<1> HIDE DEF m
<1>5. link'.base = m /\ link'.ext = 1
  BY <1>0, <1>1 DEF Link
<1>6. Newest(internal', external', made', clock', latest')
  BY <1>0, <1>2
<1>7. Snapshot(internal', external', link', latest')
  BY <1>0, <1>3, <1>4, <1>5 DEF Snapshot
<1> DEFINE t == [r EXCEPT !.pc = "finish"]
<1>8. t \in Worker /\ t.pc = "finish" /\ wk' = [wk EXCEPT ![w] = t]
  <2>1. r \in Worker
    BY <1>2 DEF TypeOK
  <2> QED BY <1>0, <2>1 DEF Worker, Stages, Goes
<1> HIDE DEF t
<1>9. Attends(t, internal', external', made', latest')
  BY <1>8 DEF Attends
<1> QED BY <1>6, <1>7, <1>8, <1>9, KeepsGoing

LEMMA EndsKeeping ==
  ASSUME NEW w \in Workers, Keeping(w), Finish(w) \/ Crash(w) \/ ProviderFails(w) PROVE Lasting'
<1>1. wk' = [wk EXCEPT ![w] = Idle] /\ UNCHANGED <<sides, link, latest>>
  BY DEF Finish, Done, Crash, ProviderFails, Fails, Users
<1> QED BY <1>1, KeepsStill

\* Nobody hard-deleted the external invoice: it was there to be read.
LEMMA NeverRecreates ==
  ASSUME NEW w \in Workers, Keeping(w) PROVE ~Recreate(w) /\ ~Repoint(w)
  BY DEF Keeping, Attends, Recreate, Repoint

\* A hard-deleted invoice does not come back under its id, and what blurs the
\* order of the users' operations is not taken back.
Held == /\ made <= made'
        /\ \A id \in 1..made : external[id] = None => external'[id] = None

LEMMA HoldsPut ==
  ASSUME TypeOK, NEW id, NEW c, PutExternal(id, c),
         \/ made' = made /\ external[id] # None
         \/ made' = made + 1 /\ id = made + 1
  PROVE  Held
<1>1. made \in Nat /\ 1..made \subseteq ExternalIds
  BY Constants DEF TypeOK, ExternalIds
<1>2. \A other \in ExternalIds : other # id => external'[other] = external[other]
  BY DEF TypeOK, PutExternal
<1>3. ASSUME NEW other \in 1..made, external[other] = None PROVE other # id
  BY <1>1, <1>3
<1> QED BY <1>1, <1>2, <1>3 DEF Held

LEMMA Holds ==
  ASSUME TypeOK, [Next]_vars PROVE Held /\ (blurred => blurred')
<1>1. made \in Nat /\ 1..made \subseteq ExternalIds
  BY Constants DEF TypeOK, ExternalIds
<1>2. ASSUME UNCHANGED <<external, made>> PROVE Held
  BY <1>1, <1>2 DEF Held
<1>3. ASSUME NEW c, MakeExternal(c) PROVE Held
  BY <1>3, HoldsPut DEF MakeExternal
<1>4. ASSUME NEW c, PutInternal(c) PROVE Held
  BY <1>2, <1>4 DEF PutInternal
<1>5. ASSUME NEW w \in Workers, PutMerged(w), CanWrite(w) PROVE Held
  BY <1>5, HoldsPut DEF PutMerged, CanWrite
<1>6. CASE IntCreate \/ IntEdit \/ IntVoid \/ IntDelete \/ IntPay
  BY <1>4, <1>6 DEF IntCreate, IntEdit, IntVoid, IntDelete, IntPay, InternalUser, UserStep
<1>7. CASE ExtCreate
  BY <1>3, <1>7 DEF ExtCreate, UserStep
<1>8. ASSUME NEW id \in ExternalIds, ExtEdit(id) \/ ExtVoid(id) \/ ExtPay(id)
      PROVE  Held /\ (blurred => blurred')
  BY <1>8, HoldsPut DEF ExtEdit, ExtVoid, ExtPay, ExternalUser, UserStep
<1>9. ASSUME NEW id \in ExternalIds, ExtDelete(id) PROVE Held /\ (blurred => blurred')
  <2>1. external' = [external EXCEPT ![id] = None] /\ made' = made /\ (blurred => blurred')
    BY <1>9 DEF ExtDelete, UserStep
  <2>2. \A other \in ExternalIds : external[other] = None => external'[other] = None
    BY <2>1 DEF TypeOK
  <2> QED BY <1>1, <2>1, <2>2 DEF Held
<1>10. ASSUME NEW w \in Workers, Step(w) PROVE Held /\ (blurred => blurred')
  <2>1. CASE \E e \in inbox : Claim(w, e)
    BY <1>2, <2>1 DEF Claim, sides, Users
  <2>2. CASE Lookup(w) \/ ReadInternal(w) \/ ReadExternal(w) \/ Find(w) \/ NewLink(w)
    <3>1. UNCHANGED <<sides, Users>>
      BY <2>2 DEF Lookup, ReadInternal, ReadExternal, Find, NewLink
    <3> QED BY <1>2, <3>1 DEF sides, Users
  <2>l. CASE ReadLines(w)
    BY <1>2, <2>l DEF ReadLines, Users
  <2>3. CASE Create(w) \/ Recreate(w)
    BY <1>3, <2>3 DEF Create, Recreate, MakeFrom, Users
  <2>4. CASE Insert(w) \/ WriteInternal(w)
    <3>1. UNCHANGED Users /\ (UNCHANGED sides \/ \E c : PutInternal(c))
      BY <2>4 DEF Insert, WriteInternal
    <3> QED BY <1>2, <1>4, <3>1 DEF sides, Users
  <2>5. CASE WriteExternal(w)
    <3>1. UNCHANGED Users /\ (UNCHANGED sides \/ (PutMerged(w) /\ CanWrite(w)))
      BY <2>5 DEF WriteExternal
    <3> QED BY <1>2, <1>5, <3>1 DEF sides, Users
  <2>6. CASE Repoint(w) \/ Mark(w) \/ Finish(w)
    BY <1>2, <2>6 DEF Repoint, Mark, Finish, sides, Users
  <2> QED BY <1>10, <2>1, <2>2, <2>3, <2>4, <2>5, <2>6, <2>l DEF Step
<1>11. ASSUME NEW w \in Workers, Mishap(w) PROVE Held /\ (blurred => blurred')
  <2>1. CASE Crash(w) \/ ProviderFails(w)
    <3>1. UNCHANGED <<sides, Users>>
      BY <2>1 DEF Crash, ProviderFails
    <3> QED BY <1>2, <3>1 DEF sides, Users
  <2>2. CASE TimesOut(w)
    <3>1. UNCHANGED Users
          /\ ((\E c : MakeExternal(c)) \/ (PutMerged(w) /\ CanWrite(w)))
      BY <2>2 DEF TimesOut
    <3> QED BY <1>3, <1>5, <3>1 DEF Users
  <2> QED BY <1>11, <2>1, <2>2 DEF Mishap
<1>12. CASE UNCHANGED vars
  BY <1>2, <1>12 DEF vars
<1>13. CASE User
  <2>1. CASE IntCreate \/ IntEdit \/ IntVoid \/ IntDelete \/ IntPay \/ ExtCreate
    BY <1>6, <1>7, <2>1 DEF IntCreate, IntEdit, IntVoid, IntDelete, IntPay, ExtCreate,
                            InternalUser, UserStep
  <2> QED BY <1>8, <1>9, <1>13, <2>1 DEF User
<1> QED BY <1>10, <1>11, <1>12, <1>13 DEF Next

LEMMA WatchedBefore ==
  ASSUME TypeOK, TypeOK', [Next]_vars, Watched' PROVE Watched
<1>1. Held /\ (blurred => blurred') /\ dead \subseteq dead' /\ blurred \in BOOLEAN
  BY Holds, DeadStay DEF TypeOK
<1>2. dead' = {} /\ ~blurred' /\ \A id \in 1..made' : external'[id] # None
  BY DEF Watched, Live
<1>3. made \in Nat /\ made' \in Nat
  BY Constants DEF TypeOK
<1>4. 1..made \subseteq 1..made'
  BY <1>1, <1>3 DEF Held
<1> QED BY <1>1, <1>2, <1>4 DEF Watched, Live, Held

\* A user enters c on one side while no worker acts: it is dead, or newer than
\* any snapshot, of an invoice that was not dead when a snapshot was taken.
Enters(c) ==
  ~Dead(c) /\ link # None /\ link.base # None => ~Dead(link.base) /\ link.base # c

LEMMA EntersInternal ==
  ASSUME TypeOK, IInv, Watched, Made(external, made, link),
         Newest(internal, external, made, clock, latest),
         Snapshot(internal, external, link, latest),
         NEW c \in Comparable, PutInternal(c), latest' = c, link' = link, Enters(c)
  PROVE  /\ Newest(internal', external', made', clock', latest')
         /\ Snapshot(internal', external', link', latest')
<1>1. /\ made = 0 \/ made = 1
      /\ made = 1 => external[1] # None /\ external[1] \in Record /\ external[1].at <= clock
      /\ link # None => link.ext = 1 /\ made = 1
  BY OneInvoice DEF Newest, IInv
<1>2. /\ internal' # None /\ internal'.c = c /\ internal'.at = now
      /\ external' = external /\ made' = made /\ clock' = now
  <2>1. /\ internal' = [c |-> c, at |-> now] /\ external' = external /\ made' = made /\ clock' = now
    BY DEF PutInternal
  <2>2. now \in Nat
    BY DEF TypeOK, now
  <2> QED BY <2>1, <2>2, Contents
<1>3. /\ clock \in Nat /\ now \in Nat /\ clock < now
      /\ made = 1 => external[1].at \in Nat /\ now > external[1].at
  BY <1>1, Contents DEF TypeOK, now
<1>4. Newest(internal', external', made', clock', latest')
  BY <1>1, <1>2, <1>3, Asked DEF Newest
<1>5. Snapshot(internal', external', link', latest')
  BY <1>2, Asked DEF Snapshot, Enters, AsAsked
<1> QED BY <1>4, <1>5

LEMMA EntersExternal ==
  ASSUME TypeOK, IInv, Watched, Made(external, made, link),
         Newest(internal, external, made, clock, latest),
         Snapshot(internal, external, link, latest),
         NEW c \in Comparable, PutExternal(1, c), latest' = c, link' = link, Enters(c),
         made' = 1, made' \in 0..MaxExternal
  PROVE  /\ Newest(internal', external', made', clock', latest')
         /\ Snapshot(internal', external', link', latest')
<1>1. 1 \in ExternalIds /\ (link # None => link.ext = 1)
  <2>1. link # None => link.ext = 1
    BY OneInvoice DEF Newest
  <2> QED BY <2>1, Constants DEF ExternalIds
<1>2. /\ external'[1].c = c /\ external'[1].at = now /\ clock' = now /\ internal' = internal
      /\ now \in Nat
  <2>1. clock' = now /\ internal' = internal
    BY DEF PutExternal
  <2>2. external'[1] = [c |-> c, at |-> now] /\ now \in Nat
    BY <1>1, PutsExternal
  <2> QED BY <2>1, <2>2
<1>3. /\ clock \in Nat /\ clock < now
      /\ internal # None => internal.at \in Nat /\ internal.at <= clock
  BY Contents DEF TypeOK, now, Newest
<1>4. Newest(internal', external', made', clock', latest')
  BY <1>2, <1>3, Asked DEF Newest
<1>5. Snapshot(internal', external', link', latest')
  BY <1>1, <1>2, Asked DEF Snapshot, Enters, AsAsked
<1> QED BY <1>4, <1>5

LEMMA UsersKeep ==
  ASSUME TypeOK, TypeOK', IInv, Made(external, made, link),
         Dated(internal, external, link, inbox, clock), Lasting, Watched, Watched', User
  PROVE  Lasting'
<1>1. /\ Newest(internal, external, made, clock, latest)
      /\ Snapshot(internal, external, link, latest)
      /\ link # None => internal # None /\ link.ext = 1 /\ made = 1
      /\ \A id \in ExternalIds : external[id] # None => id = 1 /\ made = 1
  BY OneInvoice DEF Lasting, IInv, Newest
<1>2. \A w \in Workers : wk'[w] = wk[w] /\ (wk[w].pc = "idle" \/ blurred')
  BY DEF User, IntCreate, IntEdit, IntVoid, IntDelete, IntPay, ExtCreate, ExtEdit, ExtVoid,
         ExtPay, ExtDelete, InternalUser, ExternalUser, UserStep
<1>3. \A w \in Workers : Attends(wk'[w], internal', external', made', latest')
  BY <1>2 DEF Attends, Watched
<1>4. link' = link
  BY DEF User, IntCreate, IntEdit, IntVoid, IntDelete, IntPay, ExtCreate, ExtEdit, ExtVoid,
         ExtPay, ExtDelete, InternalUser, ExternalUser, UserStep
<1>5. SUFFICES /\ Newest(internal', external', made', clock', latest')
               /\ Snapshot(internal', external', link', latest')
  BY <1>3 DEF Lasting
\* What is entered now is newer than any snapshot.
<1>6. ASSUME NEW b \in Nat, b = now \/ link = None,
             link # None /\ link.base # None => ~Dead(link.base)
      PROVE  Active(b) \in Comparable /\ Enters(Active(b))
  <2>1. Active(b) \in Comparable /\ ~Dead(Active(b)) /\ Active(b).body = b
    BY <1>6, Bodies
  <2>2. ASSUME link # None, link.base # None PROVE link.base # Active(b)
    <3>1. link.base \in Comparable /\ link.base.body <= clock
      BY <2>2 DEF Dated, TypeOK, Link
    <3>2. clock \in Nat /\ b = now /\ ~(now <= clock)
      BY <1>6, <2>2 DEF TypeOK, now
    <3> QED BY <2>1, <3>1, <3>2
  <2> QED BY <1>6, <2>1, <2>2 DEF Enters, AsAsked
<1>7. now \in Nat /\ made' \in 0..MaxExternal
  BY DEF TypeOK, now
<1>8. CASE IntCreate
  <2>1. PutInternal(Active(now)) /\ latest' = Active(now) /\ link = None
    BY <1>1, <1>8 DEF IntCreate, InternalUser
  <2> QED BY <1>1, <1>4, <1>6, <1>7, <2>1, EntersInternal
<1>9. CASE IntEdit
  <2>1. PutInternal(Active(now)) /\ latest' = Active(now) /\ ~Dead(internal.c)
    BY <1>9 DEF IntEdit, InternalUser
  <2>2. link # None /\ link.base # None => ~Dead(link.base)
    BY <1>1, <2>1 DEF Snapshot
  <2> QED BY <1>1, <1>4, <1>6, <1>7, <2>1, <2>2, EntersInternal
<1>10. CASE IntVoid \/ IntDelete
  <2>1. PICK life \in {"voided", "deleted"} :
          /\ PutInternal([internal.c EXCEPT !.life = life])
          /\ latest' = [internal.c EXCEPT !.life = life]
    BY <1>10 DEF IntVoid, IntDelete, InternalUser
  <2> DEFINE c == [internal.c EXCEPT !.life = life]
  <2>2. internal \in Record /\ internal.c \in Comparable
    BY <1>10, Contents DEF IntVoid, IntDelete, TypeOK
  <2>3. c \in Comparable /\ Dead(c)
    <3>1. c \in Comparable /\ c.life = life
      BY <2>2, Bodies
    <3> QED BY <3>1 DEF Dead
  <2>4. PutInternal(c) /\ latest' = c
    BY <2>1
  <2> HIDE DEF c
  <2> QED BY <1>1, <1>4, <2>3, <2>4, EntersInternal DEF Enters
<1>11. CASE IntPay
  BY <1>11 DEF IntPay, UserStep, Watched
<1>12. CASE ExtCreate
  <2>1. made = 0 /\ link = None
    BY <1>1, <1>12 DEF ExtCreate
  <2>2. PICK b \in {now} \cup (IF internal = None THEN {} ELSE {internal.c.body}) :
          MakeExternal(Active(b)) /\ latest' = Active(b)
    BY <1>12 DEF ExtCreate
  <2>3. b \in Nat
    BY <1>7, <2>2, Contents, Bodies DEF TypeOK
  <2>4. PutExternal(1, Active(b)) /\ made' = 1
    BY <2>1, <2>2 DEF MakeExternal
  <2>5. Active(b) \in Comparable /\ Enters(Active(b))
    BY <1>6, <2>1, <2>3
  <2> QED BY <1>1, <1>4, <1>7, <2>2, <2>4, <2>5, EntersExternal
<1>13. ASSUME NEW id \in ExternalIds, ExtEdit(id)
      PROVE  /\ Newest(internal', external', made', clock', latest')
             /\ Snapshot(internal', external', link', latest')
  <2>1. /\ external[id] # None /\ ~Dead(external[id].c) /\ id = 1 /\ made' = 1
        /\ PutExternal(id, Active(now)) /\ latest' = Active(now)
    BY <1>1, <1>13 DEF ExtEdit, ExternalUser
  <2>2. link # None /\ link.base # None => ~Dead(link.base)
    BY <1>1, <2>1 DEF Snapshot
  <2> QED BY <1>1, <1>4, <1>6, <1>7, <2>1, <2>2, EntersExternal
<1>14. ASSUME NEW id \in ExternalIds, ExtVoid(id)
      PROVE  /\ Newest(internal', external', made', clock', latest')
             /\ Snapshot(internal', external', link', latest')
  <2> DEFINE c == Voided(external[id].c)
  <2>1. /\ external[id] # None /\ id = 1 /\ made' = 1
        /\ PutExternal(id, c) /\ latest' = c
    BY <1>1, <1>14 DEF ExtVoid, ExternalUser
  <2>2. external[id] \in Record
    BY <2>1 DEF TypeOK
  <2>3. c \in Comparable /\ Dead(c)
    BY <2>2, Contents, Bodies
  <2> HIDE DEF c
  <2> QED BY <1>1, <1>4, <1>7, <2>1, <2>3, EntersExternal DEF Enters
<1>p. ASSUME NEW id \in ExternalIds, ExtPay(id) PROVE FALSE
  BY <1>p DEF ExtPay, UserStep, Watched
\* After a hard delete the behaviour is not one of those.
<1>15. ASSUME NEW id \in ExternalIds, ExtDelete(id) PROVE FALSE
  <2>1. external' = [external EXCEPT ![id] = None] /\ made' = made /\ external[id] # None
    BY <1>15 DEF ExtDelete
  <2>2. external'[id] = None /\ id = 1 /\ made' = 1
    BY <1>1, <2>1 DEF TypeOK
  <2> QED BY <2>2 DEF Watched, Live
<1> QED BY <1>8, <1>9, <1>10, <1>11, <1>12, <1>13, <1>14, <1>15, <1>p DEF User

-----------------------------------------------------------------------------
(* The last edit: the theorem *)

LEMMA LastingInit == Init => Lasting
<1> SUFFICES ASSUME Init PROVE Lasting
  OBVIOUS
<1>1. internal = None /\ made = 0 /\ link = None
  BY DEF Init
<1>2. \A w \in Workers : wk[w] = Idle /\ Idle.pc = "idle"
  BY DEF Init, Idle
<1>3. \A w \in Workers : Attends(wk[w], internal, external, made, latest)
  BY <1>2 DEF Attends
<1> QED BY <1>1, <1>3 DEF Lasting, Newest, Snapshot

LEMMA LastingStep ==
  Steady /\ TypeOK /\ IInv /\ Converging /\ Lasting /\ [Next]_vars => Lasting'
<1> SUFFICES ASSUME Steady, TypeOK, IInv, Converging, Lasting, [Next]_vars, Watched'
             PROVE  Lasting'
  BY DEF Lasting
<1>1. Watched /\ TypeOK' /\ dead = {}
  BY InductiveStep, WatchedBefore DEF Watched
<1>2. /\ Made(external, made, link) /\ Dated(internal, external, link, inbox, clock)
      /\ \A w \in Workers : Keeping(w)
  BY <1>1 DEF Converging, Lasting, Going, Keeping
<1>3. CASE User
  BY <1>1, <1>2, <1>3, UsersKeep
<1>4. ASSUME NEW w \in Workers, Step(w) PROVE Lasting'
  <2> Keeping(w)
    BY <1>2
  <2>1. CASE \E e \in inbox : Claim(w, e)
    BY <2>1, ClaimKeeps
  <2>2. CASE Lookup(w) \/ ReadInternal(w) \/ ReadLines(w) \/ ReadExternal(w)
    BY <2>2, LookupKeeps, ReadInternalKeeps, ReadLinesKeeps, ReadExternalKeeps
  <2>3. CASE Find(w) \/ Create(w) \/ Insert(w) \/ NewLink(w)
    BY <2>3, FindKeeps, CreateKeeps, InsertKeeps, NewLinkKeeps
  <2>4. CASE Recreate(w) \/ Repoint(w) \/ WriteExternal(w) \/ WriteInternal(w)
    BY <2>4, NeverRecreates, WriteExternalKeeps, WriteInternalKeeps
  <2>5. CASE Mark(w) \/ Finish(w)
    BY <2>5, MarkKeeps, EndsKeeping
  <2> QED BY <1>4, <2>1, <2>2, <2>3, <2>4, <2>5 DEF Step
<1>5. ASSUME NEW w \in Workers, Mishap(w) PROVE Lasting'
  BY <1>2, <1>5, EndsKeeping, TimesOutKeeps DEF Mishap
<1>6. CASE UNCHANGED vars
  BY <1>6 DEF vars, Lasting, Watched, Live
<1> QED BY <1>3, <1>4, <1>5, <1>6 DEF Next

\* The sides agree, and the newer one is what was asked for.
LEMMA LastAtRest ==
  ASSUME Steady, TypeOK, IInv, Converging, Lasting PROVE LastEditWins
<1> SUFFICES ASSUME Quiet, dead = {}, link # None, ~blurred, \A id \in 1..made : Live(id)
             PROVE  IF Dead(latest) THEN Dead(internal.c) ELSE internal.c = latest
  BY DEF LastEditWins
<1>1. Watched /\ Made(external, made, link)
  BY DEF Watched, Converging
<1>2. Newest(internal, external, made, clock, latest)
  BY <1>1 DEF Lasting
<1>3. made = 1 /\ link.ext = 1 /\ external[1] # None /\ internal # None
  BY <1>1, <1>2, OneInvoice DEF Newest, IInv
<1>4. IF Dead(internal.c) THEN Dead(external[1].c) ELSE external[1].c = internal.c
  BY <1>3, AtRest DEF Convergent, Agree
<1>5. AsAsked(internal.c, latest) \/ AsAsked(external[1].c, latest)
  BY <1>2, <1>3 DEF Newest
<1> QED BY <1>4, <1>5 DEF AsAsked

\* README "last write wins": what a user did last, on either side, is what
\* both show in the end, if no user acted while an event was processed, no
\* payment made an old state look new and no external invoice was hard-deleted;
\* the worker may fail, time out and crash in between.
THEOREM LastEditLasts == ASSUME Steady PROVE Spec => []LastEditWins
<1>1. Steady
  OBVIOUS
<1>2. Init => Converging /\ Lasting
  BY <1>1, ConvergingInit, LastingInit
<1>3. TypeOK /\ IInv /\ Converging /\ [Next]_vars => Converging'
  BY <1>1, ConvergingStep
<1>4. TypeOK /\ IInv /\ Converging /\ Lasting /\ [Next]_vars => Lasting'
  BY <1>1, LastingStep
<1>5. TypeOK /\ IInv /\ Converging /\ Lasting => LastEditWins
  BY <1>1, LastAtRest
<1> QED BY <1>2, <1>3, <1>4, <1>5, Inductive, PTL DEF Spec
=============================================================================
