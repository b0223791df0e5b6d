------------------------- MODULE WebhookSwitchProofs -------------------------
(***************************************************************************)
(* Theorems about WebhookSwitch, for any deliveries, targets and faults.   *)
(***************************************************************************)
EXTENDS WebhookSwitch, SequenceTheorems, TLAPS

-----------------------------------------------------------------------------
(* The operator's setting: the invariant *)

AdminTypeOK ==
  /\ switch \in {"up", "closing", "down"}
  /\ state \in Setting /\ file \in Setting \cup {None}
  /\ control \in {"idle", "saving", "saved"}
  /\ told \in Setting \cup {None} /\ asked \subseteq Setting
  /\ unsaved \in BOOLEAN
  /\ switch = "down" => control = "idle"

\* The file has what the operator was told or has asked for since, and so has
\* the state of a process that runs; what is being answered was asked for and,
\* when it could be written, is in the file.
InForce ==
  /\ told # None /\ ~unsaved => /\ file \in {told} \cup asked
                                /\ switch # "down" => state \in {told} \cup asked
  /\ control # "idle" => state \in asked
  /\ control = "saved" /\ ~unsaved => file = state

AdminInv == AdminTypeOK /\ InForce

LEMMA AdminInit == Init => AdminInv
  BY ConstantsOK DEF Init, AdminInv, AdminTypeOK, InForce

LEMMA ChangedIsSetting ==
  ASSUME state \in Setting, NEW p \in Posts
  PROVE  Changed(p) \in Setting
  BY DEF Setting, Posts, Changed, Modes, Unchanged

LEMMA AdminStep == AdminInv /\ [Next]_vars => AdminInv'
<1> SUFFICES ASSUME AdminInv, [Next]_vars PROVE AdminInv'
  OBVIOUS
<1> USE DEF AdminInv, AdminTypeOK, InForce
<1>1. CASE UNCHANGED <<switch, admin>>
  BY <1>1 DEF admin
<1>2. CASE \E p \in Posts : Change(p)
  <2>1. PICK p \in Posts : Change(p)
    BY <1>2
  <2>2. Changed(p) \in Setting
    BY ChangedIsSetting
  <2> QED
    BY <2>1, <2>2 DEF Change, Begins
<1>3. CASE Saved
  BY <1>3 DEF Saved
<1>4. CASE NotSaved
  BY <1>4 DEF NotSaved
<1>5. CASE Answer
  BY <1>5 DEF Answer
<1>6. CASE Terminate
  BY <1>6 DEF Terminate, Runs, admin
<1>7. CASE Exit
  BY <1>7 DEF Exit, Ends, admin
<1>8. CASE Crash
  BY <1>8 DEF Crash, Ends
<1>9. CASE Restart
  <2>1. /\ switch = "down" /\ switch' = "up" /\ state' = IF file = None THEN Env ELSE file
        /\ UNCHANGED <<file, control, asked, told, unsaved>>
    BY <1>9 DEF Restart
  <2>2. told # None /\ ~unsaved => file # None
    BY ConstantsOK
  <2>3. state' \in Setting
    BY <2>1, ConstantsOK
  <2> QED
    BY <2>1, <2>2, <2>3
<1>10. ASSUME NEW d \in Deliveries, Refuse(d) \/ AckUntargeted(d) \/ Route(d) \/ AckDeadline(d)
       PROVE  UNCHANGED <<switch, admin>>
  BY <1>10 DEF Refuse, AckUntargeted, Route, AckDeadline, LetGo
<1>11. ASSUME NEW f \in flights,
              \/ Reach(f) \/ Store(f) \/ Respond(f) \/ ForwardTimeout(f)
              \/ StoreFails(f) \/ Unreachable(f) \/ Severed(f)
       PROVE  UNCHANGED <<switch, admin>>
  BY <1>11 DEF Reach, Store, Respond, ForwardTimeout, LetGo, StoreFails, Unreachable, Severed
<1>12. ASSUME NEW s \in Sites, SiteCrash(s)
       PROVE  UNCHANGED <<switch, admin>>
  BY <1>12 DEF SiteCrash
<1>13. CASE UNCHANGED vars
  BY <1>13, <1>1 DEF vars
<1> QED
  BY <1>1, <1>2, <1>3, <1>4, <1>5, <1>6, <1>7, <1>8, <1>9, <1>10, <1>11, <1>12, <1>13 DEF Next

\* A change the operator was told of survives every crash and restart of the
\* switch, unless it could not be written.
THEOREM ChangesSurvive == Spec => []ChangeSurvives
<1>1. AdminInv => ChangeSurvives
  BY DEF AdminInv, InForce, ChangeSurvives
<1> QED
  BY AdminInit, AdminStep, <1>1, PTL DEF Spec

-----------------------------------------------------------------------------
(* Deliveries: the invariant *)

AllEvents == UNION {Events(d) : d \in Deliveries}

WorldTypeOK ==
  /\ pending \subseteq Deliveries /\ flights \subseteq Flight
  /\ inbox \in [Sites -> SUBSET AllEvents]
  /\ answer \in [Deliveries -> Answers]
  /\ route \in [Deliveries -> Sites \cup {None}]
  /\ lost \subseteq Deliveries
  /\ switch = "down" => pending = {}

\* A site has stored what its handler has counted.
Kept(f) == /\ f.stored <= Len(Batch[f.d])
           /\ \A n \in 1..Len(Batch[f.d]) : n <= f.stored => Batch[f.d][n] \in inbox[f.site]

\* What is awaited belongs to a delivery with no answer yet, at its route.
Waits(f) == f.awaited => /\ f.d \in pending /\ f.site = route[f.d]

Answered(d) == answer[d] = "stored" =>
                 /\ d \notin pending /\ route[d] \in Sites
                 /\ Events(d) \subseteq inbox[route[d]]

WorldInv ==
  /\ WorldTypeOK
  /\ \A f \in flights : Kept(f) /\ Waits(f)
  /\ \A f, g \in flights : f.awaited /\ g.awaited /\ f.d = g.d => f = g
  /\ \A d \in pending : \E f \in flights : f.d = d /\ f.awaited
  /\ \A d \in Deliveries : Answered(d)

LEMMA BatchType ==
  ASSUME NEW d \in Deliveries
  PROVE  /\ Len(Batch[d]) \in Nat
         /\ \A n \in 1..Len(Batch[d]) : Batch[d][n] \in Events(d)
         /\ \A e \in Events(d) : \E n \in 1..Len(Batch[d]) : e = Batch[d][n]
<1>1. Batch[d] \in Seq(Events(d))
  BY ConstantsOK
<1>2. DOMAIN Batch[d] = 1..Len(Batch[d]) /\ Len(Batch[d]) \in Nat
  BY <1>1
<1> QED
  BY <1>1, <1>2 DEF Events, Range

\* A handler that has counted every event has stored every one.
LEMMA CompleteIsStored ==
  ASSUME NEW f \in Flight, Kept(f), Complete(f)
  PROVE  Events(f.d) \subseteq inbox[f.site]
<1>1. f.d \in Deliveries
  BY DEF Flight
<1>2. \A n \in 1..Len(Batch[f.d]) : n <= f.stored
  BY <1>1, BatchType DEF Complete
<1> QED
  BY <1>1, <1>2, BatchType DEF Kept

LEMMA WorldInit == Init => WorldInv
  BY ConstantsOK DEF Init, WorldInv, WorldTypeOK, Kept, Waits, Answered, Answers

\* Steps that only end requests, with an answer that is not "stored" or for
\* requests that are complete, keep the invariant.
LEMMA EndKeeps ==
  ASSUME WorldInv, NEW gone \in SUBSET flights, NEW how \in Answers, End(gone, how),
         UNCHANGED <<inbox, route, switch>>,
         lost' \subseteq Deliveries,
         how = "stored" => \A f \in gone : Complete(f)
  PROVE  WorldInv'
<1> USE DEF WorldInv
<1>1. /\ flights' = flights \ gone
      /\ pending' = pending \ {f.d : f \in {g \in gone : g.awaited}}
      /\ answer' = [d \in Deliveries |-> IF \E f \in gone : f.awaited /\ f.d = d
                                         THEN how ELSE answer[d]]
      /\ inbox' = inbox /\ route' = route /\ switch' = switch
  BY DEF End
<1>2. WorldTypeOK'
  BY <1>1 DEF WorldTypeOK
<1>3. ASSUME NEW f \in flights' PROVE Kept(f)' /\ Waits(f)'
  <2>1. f \in flights /\ f \notin gone /\ Kept(f) /\ Waits(f)
    BY <1>1
  <2>2. Kept(f)'
    BY <2>1, <1>1 DEF Kept
  <2>3. ASSUME f.awaited PROVE f.d \in pending'
    <3>1. \A g \in gone : g.awaited => g.d # f.d
      BY <2>1, <2>3
    <3> QED
      BY <3>1, <2>1, <2>3, <1>1 DEF Waits
  <2> QED
    BY <2>1, <2>2, <2>3, <1>1 DEF Waits
<1>4. ASSUME NEW d \in Deliveries PROVE Answered(d)'
  <2>1. CASE \E f \in gone : f.awaited /\ f.d = d
    <3>1. PICK f \in gone : f.awaited /\ f.d = d
      BY <2>1
    <3>2. answer'[d] = how
      BY <1>1, <2>1
    <3>3. f \in Flight /\ Kept(f) /\ Waits(f)
      BY DEF WorldTypeOK
    <3>4. d \notin pending'
      BY <1>1, <3>1
    <3>5. route[d] = f.site /\ f.site \in Sites
      BY <3>1, <3>3 DEF Waits, Flight
    <3>6. how = "stored" => Events(d) \subseteq inbox[f.site]
      BY <3>1, <3>3, CompleteIsStored
    <3> QED
      BY <1>1, <3>2, <3>4, <3>5, <3>6 DEF Answered
  <2>2. CASE ~\E f \in gone : f.awaited /\ f.d = d
    <3>1. answer'[d] = answer[d]
      BY <1>1, <2>2
    <3>2. d \in pending' => d \in pending
      BY <1>1
    <3> QED
      BY <1>1, <3>1, <3>2 DEF Answered
  <2> QED
    BY <2>1, <2>2
<1>5. ASSUME NEW d \in pending'
      PROVE  \E f \in flights' : f.d = d /\ f.awaited
  <2>1. PICK f \in flights : f.d = d /\ f.awaited
    BY <1>1
  <2>2. f \notin gone
    BY <2>1, <1>1
  <2> QED
    BY <2>1, <2>2, <1>1
<1> QED
  BY <1>1, <1>2, <1>3, <1>4, <1>5

\* A request that is replaced by one of the same delivery at the same site.
LEMMA ReplaceKeeps ==
  ASSUME WorldInv, NEW f \in flights, NEW h \in Flight,
         flights' = (flights \ {f}) \cup {h},
         h.d = f.d, h.site = f.site, h.awaited = f.awaited, Kept(h)',
         inbox' \in [Sites -> SUBSET AllEvents],
         \A s \in Sites : inbox[s] \subseteq inbox'[s],
         UNCHANGED <<pending, answer, route, lost, switch>>
  PROVE  WorldInv'
<1> USE DEF WorldInv
<1>1. WorldTypeOK'
  BY DEF WorldTypeOK
<1>2. ASSUME NEW g \in flights' PROVE Kept(g)' /\ Waits(g)'
  <2>1. CASE g = h
    BY <2>1 DEF Waits
  <2>2. CASE g # h
    <3>1. g \in flights /\ Kept(g) /\ Waits(g) /\ g.site \in Sites
      BY <2>2 DEF WorldTypeOK, Flight
    <3> QED
      BY <3>1 DEF Kept, Waits
  <2> QED
    BY <2>1, <2>2
<1>3. ASSUME NEW d \in Deliveries PROVE Answered(d)'
  BY DEF Answered
<1>4. ASSUME NEW g1 \in flights', NEW g2 \in flights', g1.awaited, g2.awaited, g1.d = g2.d
      PROVE  g1 = g2
  BY <1>4
<1>5. ASSUME NEW d \in pending'
      PROVE  \E g \in flights' : g.d = d /\ g.awaited
  <2>1. PICK g \in flights : g.d = d /\ g.awaited
    OBVIOUS
  <2> QED
    BY <2>1
<1> QED
  BY <1>1, <1>2, <1>3, <1>4, <1>5

\* An answer before the site's: its request is not awaited any more.
LEMMA LetGoKeeps ==
  ASSUME WorldInv, NEW f \in flights, NEW how \in Answers \ {"stored"}, LetGo(f, how)
  PROVE  WorldInv'
<1> USE DEF WorldInv
<1> DEFINE h == [f EXCEPT !.awaited = FALSE]
           d == f.d
<1>1. /\ f.awaited /\ f \in Flight /\ Kept(f) /\ d \in Deliveries
      /\ flights' = (flights \ {f}) \cup {h}
      /\ pending' = pending \ {d} /\ answer' = [answer EXCEPT ![d] = how]
      /\ UNCHANGED <<switch, inbox, route, lost>>
  BY DEF LetGo, WorldTypeOK, Flight
<1>2. h \in Flight /\ h.d = d /\ h.site = f.site /\ h.stored = f.stored /\ ~h.awaited
  BY <1>1 DEF Flight
<1> HIDE DEF h
<1>3. WorldTypeOK'
  BY <1>1, <1>2 DEF WorldTypeOK
<1>4. ASSUME NEW g \in flights' PROVE Kept(g)' /\ Waits(g)'
  <2>1. CASE g = h
    BY <2>1, <1>1, <1>2 DEF Kept, Waits
  <2>2. CASE g # h
    <3>1. g \in flights /\ g # f /\ Kept(g) /\ Waits(g) /\ (g.awaited => g.d # d)
      BY <2>2, <1>1
    <3> QED
      BY <3>1, <1>1 DEF Kept, Waits
  <2> QED
    BY <2>1, <2>2
<1>5. ASSUME NEW c \in Deliveries PROVE Answered(c)'
  BY <1>1 DEF Answered, WorldTypeOK
<1>6. ASSUME NEW k \in flights', NEW g \in flights', k.awaited, g.awaited, k.d = g.d
      PROVE  k = g
  BY <1>1, <1>2, <1>6
<1>7. ASSUME NEW c \in pending'
      PROVE  \E g \in flights' : g.d = c /\ g.awaited
  <2>1. PICK g \in flights : g.d = c /\ g.awaited
    BY <1>1
  <2>2. g # f
    BY <2>1, <1>1
  <2> QED
    BY <2>1, <2>2, <1>1
<1> QED
  BY <1>3, <1>4, <1>5, <1>6, <1>7

\* The steps of a site and of its request.
LEMMA FlightStep ==
  ASSUME WorldInv, NEW f \in flights,
         \/ Reach(f) \/ Store(f) \/ Respond(f) \/ ForwardTimeout(f)
         \/ StoreFails(f) \/ Unreachable(f) \/ Severed(f)
  PROVE  WorldInv'
<1>1. f \in Flight /\ Kept(f) /\ lost \subseteq Deliveries /\ f.d \in Deliveries /\ f.site \in Sites
  BY DEF WorldInv, WorldTypeOK, Flight
<1>2. CASE Reach(f)
  <2> DEFINE h == [f EXCEPT !.pc = "storing"]
  <2>1. h \in Flight /\ h.d = f.d /\ h.site = f.site /\ h.awaited = f.awaited /\ h.stored = f.stored
    BY <1>1 DEF Flight
  <2>2. flights' = (flights \ {f}) \cup {h} /\ UNCHANGED <<inbox, pending, answer, route, lost, switch>>
    BY <1>2 DEF Reach
  <2>3. Kept(h)'
    BY <1>1, <2>1, <2>2 DEF Kept
  <2>4. inbox' \in [Sites -> SUBSET AllEvents]
    BY <2>2 DEF WorldInv, WorldTypeOK
  <2> HIDE DEF h
  <2> QED
    BY <2>1, <2>2, <2>3, <2>4, ReplaceKeeps
<1>3. CASE Severed(f)
  <2> DEFINE h == [f EXCEPT !.pc = "cut"]
  <2>1. h \in Flight /\ h.d = f.d /\ h.site = f.site /\ h.awaited = f.awaited /\ h.stored = f.stored
    BY <1>1 DEF Flight
  <2>2. flights' = (flights \ {f}) \cup {h} /\ UNCHANGED <<inbox, pending, answer, route, lost, switch>>
    BY <1>3 DEF Severed
  <2>3. Kept(h)'
    BY <1>1, <2>1, <2>2 DEF Kept
  <2>4. inbox' \in [Sites -> SUBSET AllEvents]
    BY <2>2 DEF WorldInv, WorldTypeOK
  <2> HIDE DEF h
  <2> QED
    BY <2>1, <2>2, <2>3, <2>4, ReplaceKeeps
<1>4. CASE Store(f)
  <2> DEFINE h == [f EXCEPT !.stored = @ + 1]
             e == Batch[f.d][f.stored + 1]
  <2>1. h \in Flight /\ h.d = f.d /\ h.site = f.site /\ h.awaited = f.awaited /\ h.stored = f.stored + 1
    BY <1>1 DEF Flight
  <2>2. flights' = (flights \ {f}) \cup {h} /\ UNCHANGED <<pending, answer, route, lost, switch>>
    BY <1>4 DEF Store
  <2>3. inbox' = [inbox EXCEPT ![f.site] = @ \cup {e}] /\ f.stored # Len(Batch[f.d])
    BY <1>4 DEF Store, Complete
  <2>4. f.stored \in Nat /\ Len(Batch[f.d]) \in Nat /\ f.stored <= Len(Batch[f.d])
    BY <1>1, BatchType DEF Flight, Kept
  <2>5. f.stored + 1 \in 1..Len(Batch[f.d])
    BY <2>3, <2>4
  <2>6. e \in AllEvents
    BY <1>1, <2>5, BatchType DEF AllEvents
  <2>7. inbox \in [Sites -> SUBSET AllEvents]
    BY DEF WorldInv, WorldTypeOK
  <2>8. inbox' \in [Sites -> SUBSET AllEvents] /\ \A s \in Sites : inbox[s] \subseteq inbox'[s]
    BY <1>1, <2>3, <2>6, <2>7
  <2>9. inbox'[f.site] = inbox[f.site] \cup {e}
    BY <1>1, <2>3, <2>7
  <2>10. ASSUME NEW n \in 1..Len(Batch[f.d]), n <= f.stored + 1
         PROVE  Batch[f.d][n] \in inbox'[f.site]
    <3>1. n <= f.stored \/ n = f.stored + 1
      BY <2>4, <2>10
    <3> QED
      BY <3>1, <1>1, <2>9 DEF Kept
  <2>11. Kept(h)'
    BY <2>1, <2>4, <2>5, <2>10 DEF Kept
  <2> HIDE DEF h
  <2> QED
    BY <2>1, <2>2, <2>8, <2>11, ReplaceKeeps
<1>5. CASE Respond(f)
  BY <1>5, EndKeeps DEF Respond, Answers, WorldInv, WorldTypeOK
<1>6. CASE StoreFails(f)
  BY <1>1, <1>6, EndKeeps DEF StoreFails, Answers
<1>7. CASE Unreachable(f)
  BY <1>1, <1>7, EndKeeps DEF Unreachable, Answers
<1>8. CASE ForwardTimeout(f)
  BY <1>8, LetGoKeeps DEF ForwardTimeout, Answers
<1> QED
  BY <1>2, <1>3, <1>4, <1>5, <1>6, <1>7, <1>8

LEMMA RouteStep ==
  ASSUME WorldInv, AdminInv, NEW d \in Deliveries, Route(d)
  PROVE  WorldInv'
<1> DEFINE h == Sent(d, Primary, TRUE)
           others == {Sent(d, s, FALSE) : s \in {Secondary} \ {None}}
<1>1. /\ switch = "up" /\ d \notin pending /\ answer[d] # "stored" /\ Primary # None
      /\ flights' = flights \cup {h} \cup others
      /\ pending' = pending \cup {d} /\ route' = [route EXCEPT ![d] = Primary]
      /\ UNCHANGED <<switch, inbox, answer, lost>>
  BY DEF Route, Receives, Arrives, Due
<1>2. Primary \in Sites /\ {Secondary} \ {None} \subseteq Sites
  BY <1>1 DEF AdminInv, AdminTypeOK, Setting, Primary, Secondary, Sites
<1>3. h \in Flight /\ h.d = d /\ h.site = Primary /\ h.awaited /\ h.stored = 0
  BY <1>2 DEF Sent, Flight
<1>4. ASSUME NEW g \in others
      PROVE  g \in Flight /\ g.d = d /\ ~g.awaited /\ g.stored = 0
  <2>1. PICK s \in {Secondary} \ {None} : g = Sent(d, s, FALSE)
    OBVIOUS
  <2>2. s \in Sites
    BY <1>2, <2>1
  <2>3. g = [d |-> d, site |-> s, pc |-> "going", stored |-> 0, awaited |-> FALSE]
    BY <2>1 DEF Sent
  <2> QED
    BY <2>2, <2>3 DEF Flight
<1> HIDE DEF h, others
<1> USE DEF WorldInv
<1>5. route \in [Deliveries -> Sites \cup {None}]
  BY DEF WorldTypeOK
<1>6. WorldTypeOK'
  BY <1>1, <1>2, <1>3, <1>4, <1>5 DEF WorldTypeOK
<1>7. Len(Batch[d]) \in Nat
  BY BatchType
<1>8. ASSUME NEW g \in flights' PROVE Kept(g)' /\ Waits(g)'
  <2>1. CASE g = h \/ g \in others
    <3>1. Kept(g)'
      BY <2>1, <1>3, <1>4, <1>7 DEF Kept
    <3>2. Waits(g)'
      BY <2>1, <1>1, <1>3, <1>4, <1>5 DEF Waits
    <3> QED
      BY <3>1, <3>2
  <2>2. CASE g \in flights
    <3>1. Kept(g) /\ Waits(g) /\ (g.awaited => g.d # d)
      BY <1>1, <2>2 DEF Waits
    <3> QED
      BY <1>1, <1>5, <3>1 DEF Kept, Waits, WorldTypeOK
  <2> QED
    BY <1>1, <2>1, <2>2
<1>9. ASSUME NEW c \in Deliveries PROVE Answered(c)'
  BY <1>1, <1>5 DEF Answered
<1>10. ASSUME NEW f \in flights', NEW g \in flights', f.awaited, g.awaited, f.d = g.d
       PROVE  f = g
  <2>1. \A k \in flights : k.awaited => k.d # d
    BY <1>1 DEF Waits
  <2> QED
    BY <1>1, <1>3, <1>4, <1>10, <2>1
<1>11. ASSUME NEW c \in pending'
       PROVE  \E g \in flights' : g.d = c /\ g.awaited
  BY <1>1, <1>3
<1> QED
  BY <1>6, <1>8, <1>9, <1>10, <1>11

LEMMA AckStep ==
  ASSUME WorldInv, NEW d \in Deliveries, AckDeadline(d) \/ AckUntargeted(d) \/ Refuse(d)
  PROVE  WorldInv'
<1> USE DEF WorldInv
<1>1. CASE AckUntargeted(d) \/ Refuse(d)
  <2>1. /\ answer' = [answer EXCEPT ![d] = "untargeted"] \/ answer' = [answer EXCEPT ![d] = "failed"]
        /\ UNCHANGED <<switch, pending, flights, inbox, route, lost>>
    BY <1>1 DEF AckUntargeted, Refuse
  <2>2. WorldTypeOK'
    BY <2>1 DEF WorldTypeOK, Answers
  <2>3. \A c \in Deliveries : Answered(c)'
    BY <2>1 DEF Answered, WorldTypeOK
  <2> QED
    BY <2>1, <2>2, <2>3 DEF Kept, Waits
<1>2. CASE AckDeadline(d)
  BY <1>2, LetGoKeeps DEF AckDeadline, Answers
<1> QED
  BY <1>1, <1>2

\* The end of the process: what was awaited is not any more.
LEMMA EndsKeeps ==
  ASSUME WorldInv, Ends, pending' = {}, UNCHANGED <<inbox, route>>,
         answer' \in [Deliveries -> Answers],
         \A d \in Deliveries : answer'[d] = "stored" => answer[d] = "stored"
  PROVE  WorldInv'
<1> USE DEF WorldInv
<1>1. ASSUME NEW g \in flights'
      PROVE  g \in Flight /\ ~g.awaited /\ Kept(g)'
  <2>1. PICK f \in flights : g = [f EXCEPT !.awaited = FALSE]
    BY DEF Ends
  <2>2. f \in Flight /\ Kept(f)
    BY DEF WorldTypeOK
  <2>3. g \in Flight /\ ~g.awaited /\ g.d = f.d /\ g.site = f.site /\ g.stored = f.stored
    BY <2>1, <2>2 DEF Flight
  <2> QED
    BY <2>2, <2>3 DEF Kept
<1>2. lost' \subseteq Deliveries
  BY DEF Ends, WorldTypeOK, Flight
<1>3. WorldTypeOK'
  BY <1>1, <1>2 DEF WorldTypeOK
<1>4. \A d \in Deliveries : Answered(d)'
  BY DEF Answered
<1> QED
  BY <1>1, <1>3, <1>4 DEF Waits

LEMMA WorldStep == AdminInv /\ WorldInv /\ [Next]_vars => WorldInv'
<1> SUFFICES ASSUME AdminInv, WorldInv, [Next]_vars PROVE WorldInv'
  OBVIOUS
<1>1. ASSUME UNCHANGED world, pending = {} \/ switch' # "down" PROVE WorldInv'
  BY <1>1 DEF world, WorldInv, WorldTypeOK, Kept, Waits, Answered
<1>2. CASE \E d \in Deliveries : Refuse(d) \/ AckUntargeted(d) \/ Route(d) \/ AckDeadline(d)
  BY <1>2, RouteStep, AckStep
<1>3. CASE \E f \in flights : \/ Reach(f) \/ Store(f) \/ Respond(f) \/ ForwardTimeout(f)
                              \/ StoreFails(f) \/ Unreachable(f) \/ Severed(f)
  BY <1>3, FlightStep
<1>4. ASSUME NEW s \in Sites, SiteCrash(s) PROVE WorldInv'
  <2> DEFINE gone == {f \in flights : f.site = s /\ f.pc = "storing"}
  <2>1. gone \in SUBSET flights /\ End(gone, "broken") /\ UNCHANGED <<inbox, route, switch>>
    BY <1>4 DEF SiteCrash
  <2>2. lost' = lost \cup {f.d : f \in gone}
    BY <1>4 DEF SiteCrash
  <2>3. lost' \subseteq Deliveries
    BY <2>1, <2>2 DEF WorldInv, WorldTypeOK, Flight
  <2> HIDE DEF gone
  <2> QED
    BY <2>1, <2>3, EndKeeps DEF Answers
<1>5. CASE \E p \in Posts : Change(p)
  BY <1>5, <1>1 DEF Change, Begins
<1>6. CASE Saved \/ NotSaved \/ Answer \/ Terminate
  BY <1>6, <1>1 DEF Saved, NotSaved, Answer, Terminate, AdminInv, AdminTypeOK
<1>7. CASE Exit
  BY <1>7, EndsKeeps DEF Exit, WorldInv, WorldTypeOK
<1>8. CASE Crash
  <2>1. /\ Ends /\ pending' = {} /\ UNCHANGED <<inbox, route>>
        /\ answer' = [d \in Deliveries |-> IF d \in pending THEN "lost" ELSE answer[d]]
    BY <1>8 DEF Crash
  <2>2. answer' \in [Deliveries -> Answers]
    BY <2>1 DEF WorldInv, WorldTypeOK, Answers
  <2>3. \A d \in Deliveries : answer'[d] = "stored" => answer[d] = "stored"
    BY <2>1
  <2> QED
    BY <2>1, <2>2, <2>3, EndsKeeps
<1>9. CASE Restart
  BY <1>9, <1>1 DEF Restart
<1>10. CASE UNCHANGED vars
  BY <1>10 DEF vars, world, WorldInv, WorldTypeOK, Kept, Waits, Answered
<1> QED
  BY <1>2, <1>3, <1>4, <1>5, <1>6, <1>7, <1>8, <1>9, <1>10 DEF Next

\* What Intuit is told is stored is stored whole, where it was sent.
THEOREM StoredSafely == Spec => []StoredIsStored
<1>1. WorldInv => StoredIsStored
  BY DEF WorldInv, Answered, StoredIsStored
<1> QED
  BY AdminInit, AdminStep, WorldInit, WorldStep, <1>1, PTL DEF Spec

-----------------------------------------------------------------------------
(* The counters, and the type invariant as a whole *)

Counted ==
  changes \in 0..MaxChanges /\ faults \in 0..MaxFaults /\ oversized \subseteq Deliveries

LEMMA FaultCounts == ASSUME Counted, NEW f, Fault(f) PROVE faults' \in 0..MaxFaults
  BY ConstantsOK DEF Counted, Fault

LEMMA CountedStep == Counted /\ [Next]_vars => Counted'
<1> SUFFICES ASSUME Counted, [Next]_vars PROVE Counted'
  OBVIOUS
<1>1. CASE UNCHANGED <<changes, faults, oversized>>
  BY <1>1 DEF Counted
<1>2. ASSUME NEW f, Fault(f), UNCHANGED <<changes, oversized>> PROVE Counted'
  BY <1>2, FaultCounts DEF Counted
<1>3. CASE \E p \in Posts : Change(p)
  BY <1>3, ConstantsOK DEF Change, Begins, Counted
<1>4. ASSUME NEW d \in Deliveries, Refuse(d) \/ AckUntargeted(d) \/ Route(d) \/ AckDeadline(d)
      PROVE  UNCHANGED <<changes, faults, oversized>>
  BY <1>4 DEF Refuse, AckUntargeted, Route, AckDeadline, LetGo, admin
<1>5. ASSUME NEW f \in flights, Reach(f) \/ Store(f) \/ Respond(f) \/ ForwardTimeout(f)
      PROVE  UNCHANGED <<changes, faults, oversized>>
  BY <1>5 DEF Reach, Store, Respond, ForwardTimeout, LetGo, admin
<1>6. ASSUME NEW f \in flights, StoreFails(f) \/ Unreachable(f) \/ Severed(f)
      PROVE  Counted'
  BY <1>6, <1>2 DEF StoreFails, Unreachable, Severed, admin
<1>7. ASSUME NEW s \in Sites, SiteCrash(s) PROVE Counted'
  BY <1>7, <1>2 DEF SiteCrash, admin
<1>8. CASE NotSaved \/ Terminate \/ Crash
  BY <1>8, <1>2 DEF NotSaved, Terminate, Crash, admin
<1>9. CASE Saved \/ Answer \/ Exit \/ Restart
  BY <1>9, <1>1 DEF Saved, Answer, Exit, Restart, admin
<1>10. CASE UNCHANGED vars
  BY <1>10, <1>1 DEF vars, admin
<1> QED
  BY <1>1, <1>3, <1>4, <1>5, <1>6, <1>7, <1>8, <1>9, <1>10 DEF Next

\* The type invariant: a delivery that waits waits for exactly one request,
\* to the site of its route, and nothing waits for a process that is down.
THEOREM SwitchTypes == Spec => []TypeOK
<1>1. Init => Counted
  BY ConstantsOK DEF Init, Counted
<1>2. AdminInv /\ WorldInv /\ Counted => TypeOK
  BY DEF AdminInv, AdminTypeOK, WorldInv, WorldTypeOK, Counted, Kept, Waits, TypeOK, AllEvents
<1> QED
  BY AdminInit, AdminStep, WorldInit, WorldStep, CountedStep, <1>1, <1>2, PTL DEF Spec
=============================================================================
