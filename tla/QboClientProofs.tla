-------------------------- MODULE QboClientProofs --------------------------
(***************************************************************************)
(* Theorems about QboClient: the connection is not lost, refreshes are     *)
(* serialized, no token is sent that has run out, and the rate limit is    *)
(* kept.                                                                   *)
(***************************************************************************)
EXTENDS QboClient, SequenceTheorems, TLAPS

-----------------------------------------------------------------------------
(* Types *)

\* The callers change and what they share is well typed.
SharedTyped ==
  /\ store \in Ids /\ issued \in Ids /\ grants \in [1..issued -> Grant]
  /\ store <= issued /\ current \in [Realms -> 0..issued]
  /\ stamps \in Seq(0..(Window - 1))
  /\ states \in 0..MaxConnects
  /\ callback \in [pc : {"idle", "save"}, id : Ids]
  /\ made \in 0..MaxCalls /\ connects \in 0..MaxConnects /\ faults \in 0..MaxFaults
  /\ connected \in Realms \cup {None} /\ astray \in BOOLEAN
  /\ forgotten \in Seq(0..(Window - 1)) /\ allowed \in Nat

CallsTyped ==
  /\ calls \in [Callers -> Call]
  /\ refreshing \in Callers \cup {None}
  /\ \A c \in Callers :
       /\ refreshing = c => calls[c].pc \in {"posting", "saving"}
       /\ calls[c].pc = "joined" => refreshing # None

LEMMA TypesSplit == TypeOK <=> SharedTyped /\ CallsTyped
  BY DEF TypeOK, SharedTyped, CallsTyped

\* A call that has found the process connected, and one that has read a grant.
Connected == {"tokens", "use", "joined", "posting", "saving", "send"}
Granted   == {"use", "joined", "posting", "saving", "send"}

\* What the process has read and keeps are grants that were given out.
Known ==
  /\ callback.pc = "idle" => callback = NoCallback
  /\ callback.pc = "save" => callback.id \in 1..issued
  /\ \A c \in Callers :
       /\ calls[c].pc \in Connected => store # 0 /\ calls[c].realm \in 1..issued
       /\ calls[c].pc \in Granted => calls[c].tok \in 1..issued
       /\ calls[c].tok <= issued

\* The oldest request of a full window.
LEMMA Oldest ==
  ASSUME stamps \in Seq(0..(Window - 1)), Full
  PROVE  stamps # <<>> /\ stamps[1] \in 0..(Window - 1) /\ 1 \in 1..Len(stamps)
<1>1. Len(stamps) \in Nat /\ Len(stamps) # 0
  BY ConstantsOK DEF ConstantsOK, Full, Recent
<1>2. 1 \in 1..Len(stamps) /\ stamps # <<>>
  BY <1>1
<1> QED BY <1>2, ElementOfSeq

LEMMA IdleTyped == Idle \in Call
  BY ConstantsOK DEF ConstantsOK, Idle, Call, Stages, Ids

\* What a call goes on with when the refresh it waits for has settled.
LEMMA Resumes ==
  ASSUME NEW t \in Call, NEW n \in Ids
  PROVE  /\ Resumed(t, n) \in Call
         /\ Resumed(t, n).pc \in {"idle", "limit", "send"}
         /\ Resumed(t, n).pc = "send" => n # 0 /\ Resumed(t, n).tok = n /\ Resumed(t, n).realm = t.realm
                                        /\ Resumed(t, n).late = 0
         /\ Resumed(t, n).tok \in {0, n}
<1>0. "idle" \in Stages /\ "limit" \in Stages /\ "send" \in Stages /\ 0 \in 0..1
  BY DEF Stages
<1>1. CASE n = 0
  BY <1>1, IdleTyped DEF Resumed, Idle
<1>2. CASE n # 0 /\ t.forced
  <2> DEFINE p == [Idle EXCEPT !.pc = "limit", !.again = TRUE]
  <2>1. Resumed(t, n) = p
    BY <1>2 DEF Resumed
  <2>2. p.pc = "limit" /\ p.tok = 0
    BY DEF Idle
  <2>3. p \in Call
    BY <1>0, IdleTyped DEF Call
  <2> HIDE DEF p
  <2> QED BY <2>1, <2>2, <2>3
<1>3. CASE n # 0 /\ ~t.forced
  <2> DEFINE p == [t EXCEPT !.pc = "send", !.tok = n, !.late = 0, !.outdated = FALSE]
  <2>1. Resumed(t, n) = p
    BY <1>3 DEF Resumed
  <2>2. p.pc = "send" /\ p.tok = n /\ p.realm = t.realm /\ p.late = 0
    BY DEF Call
  <2>3. \A l \in 0..1, b \in BOOLEAN : [t EXCEPT !.pc = "send", !.tok = n, !.late = l, !.outdated = b] \in Call
    BY <1>0 DEF Call
  <2>4. p \in Call
    BY <1>0, <2>3
  <2> HIDE DEF p
  <2> QED BY <1>3, <2>1, <2>2, <2>4
<1> QED BY <1>1, <1>2, <1>3

\* One call changes, and who refreshes does not.
LEMMA OneCall ==
  ASSUME CallsTyped, NEW c \in Callers, NEW p \in Call, calls' = [calls EXCEPT ![c] = p],
         refreshing' = refreshing,
         refreshing = c => p.pc \in {"posting", "saving"},
         p.pc = "joined" => refreshing # None
  PROVE  CallsTyped'
  BY DEF CallsTyped

\* The refresh settles.
LEMMA Settled ==
  ASSUME CallsTyped, NEW c \in Callers, NEW n \in Ids, Settle(c, n), calls[c].pc # "joined"
  PROVE  CallsTyped'
<1>1. \A d \in Callers : Resumed(calls[d], n) \in Call /\ Resumed(calls[d], n).pc # "joined"
  BY Resumes DEF CallsTyped
<1>2. calls' \in [Callers -> Call]
  BY <1>1 DEF Settle, CallsTyped
<1>3. \A d \in Callers : calls'[d].pc # "joined"
  BY <1>1 DEF Settle, CallsTyped
<1> QED BY <1>2, <1>3, ConstantsOK DEF ConstantsOK, Settle, CallsTyped

\* Intuit gives out a grant.
LEMMA Given ==
  ASSUME SharedTyped, NEW r \in Realms, Give(r)
  PROVE  /\ issued \in Nat /\ issued' = issued + 1 /\ issued' \in Ids
         /\ grants' \in [1..issued' -> Grant]
         /\ current' \in [Realms -> 0..issued']
         /\ store <= issued' /\ issued' # 0
<1>1. issued \in Nat /\ issued < MaxGrants /\ issued' = issued + 1
  BY ConstantsOK DEF ConstantsOK, SharedTyped, Give, Ids
<1>2. [realm |-> r, left |-> Life, until |-> 0] \in Grant
  BY ConstantsOK DEF ConstantsOK, Grant
<1>3. grants' \in [1..issued' -> Grant]
  <2>1. ASSUME NEW n \in 1..(issued + 1)
        PROVE  (IF n <= issued THEN grants[n] ELSE [realm |-> r, left |-> Life, until |-> 0]) \in Grant
    BY <1>1, <1>2, <2>1 DEF SharedTyped
  <2> QED BY <1>1, <2>1 DEF Give
<1>4. current' \in [Realms -> 0..issued']
  <2>1. current' = [current EXCEPT ![r] = issued + 1] /\ 0..issued \subseteq 0..(issued + 1)
    BY <1>1 DEF Give
  <2> QED BY <1>1, <2>1 DEF SharedTyped
<1> QED BY <1>1, <1>3, <1>4, ConstantsOK DEF ConstantsOK, SharedTyped, Ids

\* The flag.
LEMMA FlagStep == TypeOK /\ [Next]_vars => astray' \in BOOLEAN
<1> SUFFICES ASSUME astray \in BOOLEAN, [Next]_vars
             PROVE  astray' \in BOOLEAN
  BY DEF TypeOK
<1>1. CASE Connect \/ CallbackFails \/ CallbackNotSaved \/ Crash \/ Tick
  BY <1>1 DEF Connect, CallbackFails, CallbackNotSaved, Crash, Tick
<1>2. CASE CallbackSaved
  BY <1>2 DEF CallbackSaved
<1>3. ASSUME NEW r \in Realms, Callback(r) \/ Revoke(r) PROVE astray' \in BOOLEAN
  BY <1>3 DEF Callback, Revoke
<1>4. ASSUME NEW c \in Callers,
             \/ Begin(c) \/ RateLimit(c) \/ RateWait(c) \/ Waited(c)
             \/ ReadRealm(c) \/ ReadTokens(c) \/ TokenFresh(c)
      PROVE  astray' \in BOOLEAN
  BY <1>4 DEF Begin, RateLimit, RateWait, Waited, ReadRealm, ReadTokens, TokenFresh, auth
<1>5. ASSUME NEW c \in Callers,
             \/ BeginRefresh(c) \/ JoinRefresh(c) \/ RefreshGranted(c) \/ RefreshRefused(c)
             \/ RefreshFails(c) \/ RefreshAnswerLost(c) \/ RefreshSaved(c) \/ RefreshNotSaved(c)
             \/ Answered(c) \/ Unauthorized(c)
      PROVE  astray' \in BOOLEAN
  BY <1>5 DEF BeginRefresh, JoinRefresh, RefreshGranted, RefreshRefused, RefreshFails,
     RefreshAnswerLost, RefreshSaved, RefreshNotSaved, Answered, Unauthorized, auth
<1>6. CASE UNCHANGED vars
  BY <1>6 DEF vars
<1> QED BY <1>1, <1>2, <1>3, <1>4, <1>5, <1>6 DEF Next

\* The counters.
CountersTyped ==
  /\ states \in 0..MaxConnects /\ states <= connects
  /\ made \in 0..MaxCalls /\ connects \in 0..MaxConnects /\ faults \in 0..MaxFaults

LEMMA CountersStep == CountersTyped /\ [Next]_vars => CountersTyped'
<1> SUFFICES ASSUME CountersTyped, [Next]_vars PROVE CountersTyped'
  OBVIOUS
<1>0. MaxConnects \in Nat /\ MaxCalls \in Nat /\ MaxFaults \in Nat
  BY ConstantsOK DEF ConstantsOK
<1>1. CASE Connect
  BY <1>0, <1>1 DEF Connect, CountersTyped
<1>2. CASE CallbackFails \/ CallbackSaved \/ CallbackNotSaved
  BY <1>0, <1>2 DEF CallbackFails, CallbackSaved, CallbackNotSaved, Fault, Quiet, CountersTyped
<1>3. ASSUME NEW r \in Realms, Callback(r) \/ Revoke(r) PROVE CountersTyped'
  BY <1>0, <1>3 DEF Callback, Revoke, Fault, Quiet, CountersTyped
<1>4. ASSUME UNCHANGED <<states, made, connects>>, faults' = faults \/ \E f : Fault(f)
      PROVE  CountersTyped'
  BY <1>0, <1>4 DEF CountersTyped, Fault
<1>5. ASSUME NEW c \in Callers, Begin(c) PROVE CountersTyped'
  BY <1>0, <1>5 DEF Begin, auth, CountersTyped
<1>6. ASSUME NEW c \in Callers,
             \/ RateLimit(c) \/ RateWait(c) \/ Waited(c)
             \/ ReadRealm(c) \/ ReadTokens(c) \/ TokenFresh(c) \/ JoinRefresh(c)
             \/ Answered(c) \/ Unauthorized(c)
      PROVE  CountersTyped'
  BY <1>4, <1>6 DEF RateLimit, RateWait, Waited, ReadRealm, ReadTokens, TokenFresh, JoinRefresh,
     Answered, Unauthorized, auth
<1>7. ASSUME NEW c \in Callers,
             \/ BeginRefresh(c) \/ RefreshGranted(c) \/ RefreshRefused(c) \/ RefreshSaved(c)
      PROVE  CountersTyped'
  BY <1>4, <1>7 DEF BeginRefresh, RefreshGranted, RefreshRefused, RefreshSaved, Quiet
<1>8. ASSUME NEW c \in Callers, RefreshFails(c) \/ RefreshAnswerLost(c) \/ RefreshNotSaved(c)
      PROVE  CountersTyped'
  <2>1. UNCHANGED <<states, made, connects>> /\ \E f : Fault(f)
    BY <1>8 DEF RefreshFails, RefreshAnswerLost, RefreshNotSaved
  <2> QED BY <1>4, <2>1
<1>9. CASE Crash
  BY <1>0, <1>9 DEF Crash, Fault, CountersTyped
<1>10. CASE Tick \/ UNCHANGED vars
  BY <1>4, <1>10 DEF Tick, Quiet, vars
<1> QED BY <1>1, <1>2, <1>3, <1>5, <1>6, <1>7, <1>8, <1>9, <1>10 DEF Next

\* The tokens.
GrantsTyped ==
  /\ store \in Ids /\ issued \in Ids /\ grants \in [1..issued -> Grant]
  /\ store <= issued /\ current \in [Realms -> 0..issued]
  /\ callback \in [pc : {"idle", "save"}, id : Ids]
  /\ connected \in Realms \cup {None}

LEMMA GrantsStep == TypeOK /\ Known /\ [Next]_vars => GrantsTyped'
<1> SUFFICES ASSUME TypeOK, Known, [Next]_vars PROVE GrantsTyped'
  OBVIOUS
<1>0. GrantsTyped /\ SharedTyped /\ NoCallback \in [pc : {"idle", "save"}, id : Ids]
  BY ConstantsOK DEF ConstantsOK, TypeOK, GrantsTyped, SharedTyped, NoCallback, Ids
<1>a. \A n \in 1..issued : n \in Ids /\ n <= issued
  BY <1>0, ConstantsOK DEF ConstantsOK, GrantsTyped, Ids
<1>1. ASSUME UNCHANGED <<store, issued, grants, current, connected>>,
             callback' = callback \/ callback' = NoCallback
      PROVE  GrantsTyped'
  BY <1>0, <1>1 DEF GrantsTyped
<1>2. ASSUME NEW n \in 1..issued, Stored(n), issued' = issued
      PROVE  grants' \in [1..issued' -> Grant] /\ grants[n].realm \in Realms
  <2>1. Life \in 0..Life /\ grants[n] \in Grant
    BY <1>0, ConstantsOK DEF ConstantsOK, GrantsTyped
  <2>2. [grants[n] EXCEPT !.until = Life] \in Grant /\ grants[n].realm \in Realms
    BY <2>1 DEF Grant
  <2> QED BY <1>0, <1>2, <2>2 DEF GrantsTyped, Stored
<1>3. CASE Connect \/ CallbackFails \/ CallbackNotSaved \/ Crash
  BY <1>1, <1>3 DEF Connect, CallbackFails, CallbackNotSaved, Crash
<1>4. CASE CallbackSaved
  <2>1. callback.id \in 1..issued
    BY <1>4 DEF CallbackSaved, Known
  <2>2. grants' \in [1..issued' -> Grant] /\ grants[callback.id].realm \in Realms
    BY <1>2, <1>4, <2>1 DEF CallbackSaved
  <2>3. callback.id \in Ids /\ callback.id <= issued
    BY <1>a, <2>1
  <2> QED BY <1>0, <1>4, <2>2, <2>3 DEF CallbackSaved, GrantsTyped
<1>5. ASSUME NEW r \in Realms, Callback(r) PROVE GrantsTyped'
  BY <1>0, <1>5, Given DEF Callback, GrantsTyped
<1>6. ASSUME NEW r \in Realms, Revoke(r) PROVE GrantsTyped'
  <2>1. ASSUME NEW n \in 1..issued
        PROVE  (IF grants[n].realm = r THEN [grants[n] EXCEPT !.left = 0] ELSE grants[n]) \in Grant
    BY <1>0, ConstantsOK DEF ConstantsOK, GrantsTyped, Grant
  <2>2. grants' \in [1..issued -> Grant]
    BY <1>6, <2>1 DEF Revoke
  <2>3. 0 \in 0..issued
    BY <1>0 DEF GrantsTyped, Ids
  <2> QED BY <1>0, <1>6, <2>2, <2>3 DEF Revoke, GrantsTyped
<1>7. ASSUME NEW c \in Callers,
             \/ Begin(c) \/ RateLimit(c) \/ RateWait(c) \/ Waited(c)
             \/ ReadRealm(c) \/ ReadTokens(c) \/ TokenFresh(c)
             \/ BeginRefresh(c) \/ JoinRefresh(c) \/ RefreshRefused(c)
             \/ RefreshFails(c) \/ RefreshAnswerLost(c) \/ RefreshNotSaved(c)
             \/ Answered(c) \/ Unauthorized(c)
      PROVE  GrantsTyped'
  BY <1>1, <1>7 DEF Begin, RateLimit, RateWait, Waited, ReadRealm, ReadTokens, TokenFresh, auth,
     BeginRefresh, JoinRefresh, RefreshRefused, RefreshFails, RefreshAnswerLost, RefreshNotSaved,
     Answered, Unauthorized
<1>8. ASSUME NEW c \in Callers, RefreshGranted(c) PROVE GrantsTyped'
  <2>1. calls[c].tok \in 1..issued
    BY <1>8 DEF RefreshGranted, Known, Granted
  <2>2. grants[calls[c].tok].realm \in Realms
    BY <1>0, <2>1 DEF GrantsTyped, Grant
  <2> QED BY <1>0, <1>8, <2>2, Given DEF RefreshGranted, GrantsTyped
<1>9. ASSUME NEW c \in Callers, RefreshSaved(c) PROVE GrantsTyped'
  <2>1. calls[c].tok \in 1..issued
    BY <1>9 DEF RefreshSaved, Known, Granted
  <2>2. grants' \in [1..issued' -> Grant]
    BY <1>2, <1>9, <2>1 DEF RefreshSaved
  <2>3. calls[c].tok \in Ids /\ calls[c].tok <= issued
    BY <1>a, <2>1
  <2>4. store' = calls[c].tok /\ UNCHANGED <<issued, current, callback, connected>>
    BY <1>9 DEF RefreshSaved
  <2> QED BY <1>0, <2>2, <2>3, <2>4 DEF GrantsTyped
<1>10. CASE Tick
  <2>1. \A n \in 0..Life : Less1(n) \in 0..Life
    BY ConstantsOK DEF ConstantsOK, Less1
  <2>2. ASSUME NEW n \in 1..issued
        PROVE  [grants[n] EXCEPT !.left = Less1(@), !.until = Less1(@)] \in Grant
    BY <1>0, <2>1 DEF GrantsTyped, Grant
  <2>3. grants' \in [1..issued -> Grant]
    BY <1>10, <2>2 DEF Tick
  <2> QED BY <1>0, <1>10, <2>3 DEF Tick, GrantsTyped
<1>11. CASE UNCHANGED vars
  BY <1>1, <1>11 DEF vars
<1> QED
  BY <1>3, <1>4, <1>5, <1>6, <1>7, <1>8, <1>9, <1>10, <1>11 DEF Next

\* Only the caller that refreshes presents a refresh token or has an answer.
Owned == \A c \in Callers : calls[c].pc \in {"posting", "saving"} => refreshing = c

LEMMA CallsStep == TypeOK /\ Known /\ Owned /\ [Next]_vars => CallsTyped'
<1> SUFFICES ASSUME TypeOK, Known, Owned, [Next]_vars PROVE CallsTyped'
  OBVIOUS
<1>0. /\ CallsTyped /\ Idle \in Call /\ issued \in Nat /\ store \in Ids
      /\ \A c \in Callers : calls[c] \in Call
      /\ Life \in Nat /\ Window \in Nat \ {0} /\ MaxGrants \in Nat
  BY IdleTyped, ConstantsOK DEF ConstantsOK, TypeOK, CallsTyped, Ids
<1>1. ASSUME UNCHANGED <<calls, refreshing>> PROVE CallsTyped'
  BY <1>0, <1>1 DEF CallsTyped
<1>2. ASSUME NEW c \in Callers, NEW p \in Call, calls' = [calls EXCEPT ![c] = p],
             refreshing' = refreshing, calls[c].pc \notin {"posting", "saving"},
             p.pc = "joined" => refreshing # None
      PROVE  CallsTyped'
  BY <1>0, <1>2, OneCall DEF CallsTyped
<1>3. ASSUME NEW c \in Callers, NEW p \in Call, Stamp(c, p), refreshing' = refreshing,
             calls[c].pc \notin {"posting", "saving"}, p.pc = "realm"
      PROVE  CallsTyped'
  <2>1. \A d \in Callers : LET q == [calls[d] EXCEPT !.passed = @ \/ calls[d].pc = "waiting"]
                           IN  q \in Call /\ q.pc = calls[d].pc
    BY <1>0 DEF Call
  <2>2. calls' \in [Callers -> Call]
    BY <1>3, <2>1 DEF Stamp
  <2>3. \A d \in Callers : calls'[d].pc = calls[d].pc \/ (d = c /\ calls'[d].pc = "realm")
    BY <1>3, <2>1 DEF Stamp
  <2> QED BY <1>0, <1>3, <2>2, <2>3 DEF CallsTyped
<1>4. CASE Connect \/ CallbackFails \/ CallbackSaved \/ CallbackNotSaved \/ UNCHANGED vars
  BY <1>1, <1>4 DEF Connect, CallbackFails, CallbackSaved, CallbackNotSaved, vars
<1>5. ASSUME NEW r \in Realms, Callback(r) \/ Revoke(r) PROVE CallsTyped'
  BY <1>1, <1>5 DEF Callback, Revoke
<1>6. ASSUME NEW c \in Callers, Begin(c) PROVE CallsTyped'
  <2> DEFINE p == [Idle EXCEPT !.pc = "limit"]
  <2>1. p \in Call /\ p.pc = "limit"
    BY <1>0 DEF Call, Stages
  <2>2. calls' = [calls EXCEPT ![c] = p] /\ refreshing' = refreshing /\ calls[c].pc = "idle"
    BY <1>6 DEF Begin, auth
  <2> HIDE DEF p
  <2> QED BY <1>2, <2>1, <2>2
<1>7. ASSUME NEW c \in Callers, RateLimit(c) PROVE CallsTyped'
  <2> DEFINE p == [calls[c] EXCEPT !.pc = "realm"]
  <2>1. p \in Call /\ p.pc = "realm"
    BY <1>0 DEF Call, Stages
  <2>2. Stamp(c, p) /\ refreshing' = refreshing /\ calls[c].pc = "limit"
    BY <1>7 DEF RateLimit, auth
  <2> HIDE DEF p
  <2> QED BY <1>3, <2>1, <2>2
<1>8. ASSUME NEW c \in Callers, Waited(c) PROVE CallsTyped'
  <2> DEFINE p == [calls[c] EXCEPT !.pc = "realm", !.passed = FALSE]
  <2>1. p \in Call /\ p.pc = "realm"
    BY <1>0 DEF Call, Stages
  <2>2. Stamp(c, p) /\ refreshing' = refreshing /\ calls[c].pc = "waiting"
    BY <1>8 DEF Waited, auth
  <2> HIDE DEF p
  <2> QED BY <1>3, <2>1, <2>2
<1>9. ASSUME NEW c \in Callers, RateWait(c) PROVE CallsTyped'
  <2>1. PICK age \in 0..(Window - 1) :
          calls' = [calls EXCEPT ![c] = [calls[c] EXCEPT !.pc = "waiting", !.wait = Window - age]]
    BY <1>9, Oldest DEF RateWait, TypeOK
  <2>2. PICK n \in 0..Window : n = Window - age
    BY <1>0
  <2> DEFINE p == [calls[c] EXCEPT !.pc = "waiting", !.wait = n]
  <2>3. p \in Call /\ p.pc = "waiting"
    BY <1>0 DEF Call, Stages
  <2>4. calls' = [calls EXCEPT ![c] = p]
    BY <2>1, <2>2
  <2>5. refreshing' = refreshing /\ calls[c].pc = "limit"
    BY <1>9 DEF RateWait, auth
  <2> HIDE DEF p
  <2> QED BY <1>2, <2>3, <2>4, <2>5
<1>10. ASSUME NEW c \in Callers, ReadRealm(c) PROVE CallsTyped'
  <2> DEFINE p == IF store = 0 THEN Idle ELSE [calls[c] EXCEPT !.pc = "tokens", !.realm = store]
  <2>1. Idle.pc = "idle"
    BY DEF Idle
  <2>2. LET q == [calls[c] EXCEPT !.pc = "tokens", !.realm = store] IN q \in Call /\ q.pc = "tokens"
    BY <1>0 DEF Call, Stages
  <2>3. p \in Call /\ p.pc # "joined"
    BY <1>0, <2>1, <2>2
  <2>4. /\ calls' = [calls EXCEPT ![c] = p]
        /\ refreshing' = refreshing /\ calls[c].pc = "realm"
    BY <1>0, <1>10 DEF ReadRealm, auth, CallsTyped
  <2> HIDE DEF p
  <2> QED BY <1>2, <2>3, <2>4
<1>11. ASSUME NEW c \in Callers, ReadTokens(c) PROVE CallsTyped'
  <2> DEFINE p == [calls[c] EXCEPT !.pc = "use", !.tok = store]
  <2>1. p \in Call /\ p.pc = "use"
    BY <1>0 DEF Call, Stages
  <2>2. /\ calls' = [calls EXCEPT ![c] = p]
        /\ refreshing' = refreshing /\ calls[c].pc = "tokens"
    BY <1>0, <1>11 DEF ReadTokens, auth, CallsTyped
  <2> HIDE DEF p
  <2> QED BY <1>2, <2>1, <2>2
<1>12. ASSUME NEW c \in Callers, TokenFresh(c) PROVE CallsTyped'
  <2>0. PICK l \in 0..1 : l = 0
    OBVIOUS
  <2> DEFINE p == [calls[c] EXCEPT !.pc = "send", !.late = l]
  <2>1. p \in Call /\ p.pc = "send"
    BY <1>0 DEF Call, Stages
  <2>2. /\ calls' = [calls EXCEPT ![c] = p]
        /\ refreshing' = refreshing /\ calls[c].pc = "use"
    BY <1>0, <1>12, <2>0 DEF TokenFresh, auth, CallsTyped
  <2> HIDE DEF p
  <2> QED BY <1>2, <2>1, <2>2
<1>13. ASSUME NEW c \in Callers, JoinRefresh(c) PROVE CallsTyped'
  <2> DEFINE p == [calls[c] EXCEPT !.pc = "joined"]
  <2>1. p \in Call /\ p.pc = "joined"
    BY <1>0 DEF Call, Stages
  <2>2. /\ calls' = [calls EXCEPT ![c] = p] /\ refreshing # None
        /\ refreshing' = refreshing /\ calls[c].pc = "use"
    BY <1>0, <1>13 DEF JoinRefresh, NeedsRefresh, Joins, auth, CallsTyped
  <2> HIDE DEF p
  <2> QED BY <1>2, <2>1, <2>2
<1>14. ASSUME NEW c \in Callers, Answered(c) PROVE CallsTyped'
  BY <1>0, <1>2, <1>14 DEF Answered, auth, Idle
<1>15. ASSUME NEW c \in Callers, Unauthorized(c) PROVE CallsTyped'
  <2> DEFINE q == [calls[c] EXCEPT !.pc = "tokens", !.forced = TRUE]
  <2>1. q \in Call /\ q.pc = "tokens" /\ Idle.pc = "idle"
    BY <1>0 DEF Call, Stages, Idle
  <2>2. /\ \E p \in {Idle, q} : calls' = [calls EXCEPT ![c] = p]
        /\ refreshing' = refreshing /\ calls[c].pc = "send"
    BY <1>0, <1>15 DEF Unauthorized, auth, CallsTyped
  <2> HIDE DEF q
  <2> QED BY <1>0, <1>2, <2>1, <2>2
<1>16. ASSUME NEW c \in Callers, BeginRefresh(c) PROVE CallsTyped'
  <2>0. PICK b \in BOOLEAN : b = (calls[c].tok # store)
    OBVIOUS
  <2> DEFINE p == [calls[c] EXCEPT !.pc = "posting", !.outdated = b]
  <2>1. p \in Call /\ p.pc = "posting"
    BY <1>0 DEF Call, Stages
  <2>2. /\ calls' = [calls EXCEPT ![c] = p]
        /\ refreshing' = c /\ refreshing = None
    BY <1>0, <1>16, <2>0 DEF BeginRefresh, Joins, CallsTyped
  <2> HIDE DEF p
  <2> QED BY <1>0, <2>1, <2>2, ConstantsOK DEF ConstantsOK, CallsTyped
<1>17. ASSUME NEW c \in Callers, RefreshGranted(c) PROVE CallsTyped'
  <2>0. PICK l \in 0..1, n \in Ids : l = 0 /\ n = issued + 1
    BY <1>0, <1>17 DEF RefreshGranted, Give, Ids
  <2> DEFINE p == [calls[c] EXCEPT !.pc = "saving", !.tok = n, !.late = l]
  <2>1. p \in Call /\ p.pc = "saving"
    BY <1>0 DEF Call, Stages
  <2>2. calls' = [calls EXCEPT ![c] = p] /\ refreshing' = refreshing
    BY <1>0, <1>17, <2>0 DEF RefreshGranted, CallsTyped
  <2> HIDE DEF p
  <2> QED BY <1>0, <2>1, <2>2, OneCall
<1>18. ASSUME NEW c \in Callers,
              \/ RefreshRefused(c) \/ RefreshFails(c) \/ RefreshAnswerLost(c)
              \/ RefreshSaved(c) \/ RefreshNotSaved(c)
       PROVE  CallsTyped'
  <2>1. calls[c].pc \in {"posting", "saving"} /\ \E n \in {0, calls[c].tok} : Settle(c, n)
    BY <1>18 DEF RefreshRefused, RefreshFails, RefreshAnswerLost, RefreshSaved, RefreshNotSaved
  <2>2. 0 \in Ids /\ calls[c].tok \in Ids
    BY <1>0 DEF Ids, Call
  <2> QED BY <1>0, <2>1, <2>2, Settled
<1>19. CASE Crash
  BY <1>0, <1>19, ConstantsOK DEF ConstantsOK, Crash, CallsTyped, Idle
<1>20. CASE Tick
  <2>2. ASSUME NEW c \in Callers
        PROVE  LET p == [calls[c] EXCEPT !.wait = Less1(@), !.late = IF Hurry(c) THEN 1 ELSE @]
               IN  p \in Call /\ p.pc = calls[c].pc
    <3>1. PICK n \in 0..Window : n = Less1(calls[c].wait)
      BY <1>0 DEF Call, Less1
    <3>2. PICK l \in 0..1 : l = IF Hurry(c) THEN 1 ELSE calls[c].late
      BY <1>0 DEF Call
    <3>3. LET p == [calls[c] EXCEPT !.wait = n, !.late = l] IN p \in Call /\ p.pc = calls[c].pc
      BY <1>0 DEF Call
    <3> QED BY <3>1, <3>2, <3>3
  <2>3. calls' \in [Callers -> Call] /\ \A c \in Callers : calls'[c].pc = calls[c].pc
    BY <1>20, <2>2 DEF Tick
  <2> QED BY <1>0, <1>20, <2>3 DEF Tick, CallsTyped
<1> QED
  BY <1>4, <1>5, <1>6, <1>7, <1>8, <1>9, <1>10, <1>11, <1>12, <1>13, <1>14, <1>15, <1>16, <1>17,
     <1>18, <1>19, <1>20 DEF Next

-----------------------------------------------------------------------------
(* The connection *)

\* A grant that is on its way to the row is nobody's token yet.
Unsaved ==
  /\ callback.pc = "save" => store # callback.id /\ \A c \in Callers : calls[c].tok # callback.id
  /\ \A c \in Callers : calls[c].pc = "saving" =>
       store # calls[c].tok /\ \A d \in Callers : d # c => calls[d].tok # calls[c].tok

Right(n) == current[grants[n].realm] = n /\ connected = grants[n].realm

\* As long as nothing has come between Intuit and the row, the refresh in
\* flight is one of the row's tokens, and alone in giving new ones.
Straight ==
  ~astray =>
    /\ refreshing # None => callback = NoCallback
    /\ \A c \in Callers :
         /\ calls[c].pc \in {"posting", "saving"} => grants[calls[c].tok].realm = grants[store].realm
         /\ calls[c].pc = "posting" /\ ~calls[c].outdated =>
              current[grants[calls[c].tok].realm] = calls[c].tok
         /\ calls[c].pc = "saving" => Right(calls[c].tok)
    /\ store # 0 /\ callback = NoCallback /\ (\A c \in Callers : calls[c].pc # "saving") =>
         Right(store)

IInv == Known /\ Owned /\ Unsaved /\ Straight

Same(c) ==
  /\ calls'[c].pc = calls[c].pc /\ calls'[c].realm = calls[c].realm /\ calls'[c].tok = calls[c].tok
  /\ calls'[c].late = calls[c].late /\ calls'[c].outdated = calls[c].outdated

\* A step of the call c that touches nothing but its own record and the window.
Local(c) ==
  /\ UNCHANGED auth
  /\ \A d \in Callers : d # c => Same(d)
  /\ calls[c].pc \notin {"posting", "saving"}
  /\ \/ calls'[c].pc \in {"idle", "limit", "waiting", "realm"} /\ calls'[c].tok \in {0, calls[c].tok}
     \/ /\ calls'[c].pc = "tokens" /\ calls'[c].tok = calls[c].tok /\ store # 0
        /\ calls'[c].realm = store \/ (calls[c].pc = "send" /\ calls'[c].realm = calls[c].realm)
     \/ /\ calls[c].pc = "tokens" /\ calls'[c].pc = "use"
        /\ calls'[c].realm = calls[c].realm /\ calls'[c].tok = store
     \/ /\ calls[c].pc = "use" /\ calls'[c].pc = "joined"
        /\ calls'[c].realm = calls[c].realm /\ calls'[c].tok = calls[c].tok
     \/ /\ calls[c].pc = "use" /\ calls'[c].pc = "send" /\ FreshEnough(calls[c].tok)
        /\ calls'[c].realm = calls[c].realm /\ calls'[c].tok = calls[c].tok /\ calls'[c].late = 0

LEMMA Locally ==
  ASSUME TypeOK, Known, NEW c \in Callers,
         \/ Begin(c) \/ RateLimit(c) \/ RateWait(c) \/ Waited(c)
         \/ ReadRealm(c) \/ ReadTokens(c) \/ TokenFresh(c) \/ JoinRefresh(c)
         \/ Answered(c) \/ Unauthorized(c)
  PROVE  Local(c)
<1>0. /\ calls \in [Callers -> Call] /\ \A d \in Callers : calls[d] \in Call
      /\ Idle.pc = "idle" /\ Idle.tok = 0
  BY DEF TypeOK, Idle
<1>1. ASSUME NEW p, calls' = [calls EXCEPT ![c] = p]
      PROVE  calls'[c] = p /\ \A d \in Callers : d # c => Same(d)
  BY <1>0, <1>1 DEF Same
<1>2. ASSUME NEW p, Stamp(c, p)
      PROVE  calls'[c] = p /\ \A d \in Callers : d # c => Same(d)
  BY <1>0, <1>2 DEF Same, Stamp, Call
<1>3. CASE Begin(c)
  <2> DEFINE p == [Idle EXCEPT !.pc = "limit"]
  <2>1. calls' = [calls EXCEPT ![c] = p] /\ UNCHANGED auth /\ calls[c].pc = "idle"
    BY <1>3 DEF Begin
  <2>2. p.pc = "limit" /\ p.tok = 0
    BY DEF Idle
  <2> HIDE DEF p
  <2> QED BY <1>1, <2>1, <2>2 DEF Local
<1>4. CASE RateLimit(c)
  <2> DEFINE p == [calls[c] EXCEPT !.pc = "realm"]
  <2>1. Stamp(c, p) /\ UNCHANGED auth /\ calls[c].pc = "limit"
    BY <1>4 DEF RateLimit
  <2>2. p.pc = "realm" /\ p.tok = calls[c].tok
    BY <1>0 DEF Call
  <2> HIDE DEF p
  <2> QED BY <1>2, <2>1, <2>2 DEF Local
<1>5. CASE Waited(c)
  <2> DEFINE p == [calls[c] EXCEPT !.pc = "realm", !.passed = FALSE]
  <2>1. Stamp(c, p) /\ UNCHANGED auth /\ calls[c].pc = "waiting"
    BY <1>5 DEF Waited
  <2>2. p.pc = "realm" /\ p.tok = calls[c].tok
    BY <1>0 DEF Call
  <2> HIDE DEF p
  <2> QED BY <1>2, <2>1, <2>2 DEF Local
<1>6. CASE RateWait(c)
  <2>1. PICK n : calls' = [calls EXCEPT ![c] = [calls[c] EXCEPT !.pc = "waiting", !.wait = n]]
    BY <1>0, <1>6 DEF RateWait
  <2> DEFINE p == [calls[c] EXCEPT !.pc = "waiting", !.wait = n]
  <2>2. calls' = [calls EXCEPT ![c] = p] /\ UNCHANGED auth /\ calls[c].pc = "limit"
    BY <1>6, <2>1 DEF RateWait
  <2>3. p.pc = "waiting" /\ p.tok = calls[c].tok
    BY <1>0 DEF Call
  <2> HIDE DEF p
  <2> QED BY <1>1, <2>2, <2>3 DEF Local
<1>7. CASE ReadRealm(c)
  <2> DEFINE q == [calls[c] EXCEPT !.pc = "tokens", !.realm = store]
  <2>1. calls' = [calls EXCEPT ![c] = IF store = 0 THEN Idle ELSE q]
    BY <1>0, <1>7 DEF ReadRealm
  <2>2. UNCHANGED auth /\ calls[c].pc = "realm"
    BY <1>7 DEF ReadRealm
  <2>3. q.pc = "tokens" /\ q.tok = calls[c].tok /\ q.realm = store
    BY <1>0 DEF Call
  <2> HIDE DEF q
  <2>4. CASE store = 0
    BY <1>0, <1>1, <2>1, <2>2, <2>4 DEF Local
  <2>5. CASE store # 0
    BY <1>1, <2>1, <2>2, <2>3, <2>5 DEF Local
  <2> QED BY <2>4, <2>5
<1>8. CASE ReadTokens(c)
  <2> DEFINE p == [calls[c] EXCEPT !.pc = "use", !.tok = store]
  <2>1. calls' = [calls EXCEPT ![c] = p] /\ UNCHANGED auth /\ calls[c].pc = "tokens"
    BY <1>0, <1>8 DEF ReadTokens
  <2>2. p.pc = "use" /\ p.tok = store /\ p.realm = calls[c].realm
    BY <1>0 DEF Call
  <2> HIDE DEF p
  <2> QED BY <1>1, <2>1, <2>2 DEF Local
<1>9. CASE TokenFresh(c)
  <2> DEFINE p == [calls[c] EXCEPT !.pc = "send", !.late = 0]
  <2>1. /\ calls' = [calls EXCEPT ![c] = p] /\ UNCHANGED auth
        /\ calls[c].pc = "use" /\ FreshEnough(calls[c].tok)
    BY <1>0, <1>9 DEF TokenFresh
  <2>2. p.pc = "send" /\ p.tok = calls[c].tok /\ p.realm = calls[c].realm /\ p.late = 0
    BY <1>0 DEF Call
  <2> HIDE DEF p
  <2> QED BY <1>1, <2>1, <2>2 DEF Local
<1>10. CASE JoinRefresh(c)
  <2> DEFINE p == [calls[c] EXCEPT !.pc = "joined"]
  <2>1. calls' = [calls EXCEPT ![c] = p] /\ UNCHANGED auth /\ calls[c].pc = "use"
    BY <1>10 DEF JoinRefresh, NeedsRefresh
  <2>2. p.pc = "joined" /\ p.tok = calls[c].tok /\ p.realm = calls[c].realm
    BY <1>0 DEF Call
  <2> HIDE DEF p
  <2> QED BY <1>1, <2>1, <2>2 DEF Local
<1>11. CASE Answered(c)
  <2>1. calls' = [calls EXCEPT ![c] = Idle] /\ UNCHANGED auth /\ calls[c].pc = "send"
    BY <1>11 DEF Answered
  <2> QED BY <1>0, <1>1, <2>1 DEF Local
<1>12. CASE Unauthorized(c)
  <2> DEFINE q == [calls[c] EXCEPT !.pc = "tokens", !.forced = TRUE]
  <2>1. calls' = [calls EXCEPT ![c] = IF calls[c].again THEN Idle ELSE q]
    BY <1>0, <1>12 DEF Unauthorized
  <2>2. UNCHANGED auth /\ calls[c].pc = "send"
    BY <1>12 DEF Unauthorized
  <2>3. q.pc = "tokens" /\ q.tok = calls[c].tok /\ q.realm = calls[c].realm
    BY <1>0 DEF Call
  <2>4. store # 0
    BY <2>2 DEF Known, Connected
  <2> HIDE DEF q
  <2>5. calls'[c] \in {Idle, q} /\ \A d \in Callers : d # c => Same(d)
    BY <1>1, <2>1
  <2> QED BY <1>0, <2>2, <2>3, <2>4, <2>5 DEF Local
<1> QED BY <1>3, <1>4, <1>5, <1>6, <1>7, <1>8, <1>9, <1>10, <1>11, <1>12

LEMMA Numbers ==
  ASSUME TypeOK
  PROVE  /\ issued \in Nat /\ store \in Nat /\ store <= issued
         /\ callback.pc \in {"idle", "save"} /\ callback.id \in Nat
         /\ calls \in [Callers -> Call]
         /\ \A c \in Callers : calls[c] \in Call /\ calls[c].tok \in Nat /\ calls[c].realm \in Nat
         /\ \A n \in 1..issued : grants[n] \in Grant /\ grants[n].realm \in Realms
<1>1. issued \in Nat /\ store \in Nat /\ store <= issued /\ \A n \in Ids : n \in Nat
  BY ConstantsOK DEF ConstantsOK, TypeOK, Ids
<1>2. callback.pc \in {"idle", "save"} /\ callback.id \in Nat
  BY <1>1 DEF TypeOK
<1>3. \A c \in Callers : calls[c] \in Call /\ calls[c].tok \in Nat /\ calls[c].realm \in Nat
  BY <1>1 DEF TypeOK, Call
<1>4. \A n \in 1..issued : grants[n] \in Grant /\ grants[n].realm \in Realms
  BY DEF TypeOK, Grant
<1> QED BY <1>1, <1>2, <1>3, <1>4 DEF TypeOK

LEMMA LocalStep ==
  ASSUME TypeOK, IInv, NEW c \in Callers, Local(c) PROVE IInv'
<1>0. /\ UNCHANGED <<store, grants, issued, current, refreshing, callback, connected, astray>>
      /\ \A d \in Callers : d # c => Same(d)
      /\ calls[c].pc \notin {"posting", "saving"} /\ calls'[c].pc \notin {"posting", "saving"}
      /\ calls'[c].tok \in {0, store, calls[c].tok}
  BY DEF Local, auth
<1>1. Known'
  <2>1. /\ calls'[c].pc \in Connected => store # 0 /\ calls'[c].realm \in 1..issued
        /\ calls'[c].pc \in Granted => calls'[c].tok \in 1..issued
        /\ calls'[c].tok <= issued
    BY <1>0, Numbers DEF IInv, Known, Local, Connected, Granted
  <2>2. ASSUME NEW d \in Callers, d # c
        PROVE  /\ calls'[d].pc \in Connected => store # 0 /\ calls'[d].realm \in 1..issued
               /\ calls'[d].pc \in Granted => calls'[d].tok \in 1..issued
               /\ calls'[d].tok <= issued
    BY <1>0, <2>2 DEF IInv, Known, Same
  <2> QED BY <1>0, <2>1, <2>2 DEF IInv, Known
<1>2. Owned'
  BY <1>0 DEF IInv, Owned, Same
<1>3. Unsaved'
  <2>1. callback.pc = "save" => callback.id # 0
    BY DEF IInv, Known
  <2>2. \A d \in Callers : calls[d].pc = "saving" => calls[d].tok # 0
    BY DEF IInv, Known, Granted
  <2> QED BY <1>0, <2>1, <2>2 DEF IInv, Unsaved, Same
<1>4. Straight'
  BY <1>0 DEF IInv, Straight, Same, Right
<1> QED BY <1>1, <1>2, <1>3, <1>4 DEF IInv

\* The refresh of c settles with the grant n, which is in the row, or none.
Settles(c, n) ==
  /\ UNCHANGED <<issued, current, callback, connected>>
  /\ \A m \in 1..issued : grants'[m].realm = grants[m].realm
  /\ calls[c].pc \in {"posting", "saving"}
  /\ refreshing' = None
  /\ \A d \in Callers : calls'[d] = IF d = c \/ calls[d].pc = "joined" THEN Resumed(calls[d], n)
                                    ELSE calls[d]

LEMMA SettlesStep ==
  ASSUME TypeOK, IInv, NEW c \in Callers, NEW n \in Ids, Settles(c, n), astray' \in BOOLEAN,
         \/ n = 0 /\ store' = store /\ (astray' \/ (astray' = astray /\ calls[c].pc = "posting"))
         \/ n = calls[c].tok /\ store' = n /\ astray' = astray /\ calls[c].pc = "saving"
  PROVE  IInv'
<1>0. \A d \in Callers : calls[d].pc \in {"posting", "saving"} => d = c
  BY ConstantsOK DEF ConstantsOK, IInv, Owned, Settles
<1>1. ASSUME NEW d \in Callers
      PROVE  /\ calls'[d].pc \notin {"posting", "saving"}
             /\ \/ calls'[d].pc \notin Connected /\ calls'[d].tok \in {0, n}
                \/ /\ n # 0 /\ calls'[d].pc = "send" /\ calls'[d].tok = n
                   /\ calls'[d].realm = calls[d].realm /\ calls[d].pc \in Granted
                \/ calls'[d] = calls[d] /\ d # c
  <2>1. CASE d = c \/ calls[d].pc = "joined"
    <3>1. calls'[d] = Resumed(calls[d], n) /\ calls[d] \in Call
      BY <2>1, Numbers DEF Settles
    <3>2. calls[d].pc \in Granted
      BY <2>1 DEF Settles, Granted
    <3>3. /\ Resumed(calls[d], n).pc \in {"idle", "limit", "send"}
          /\ Resumed(calls[d], n).pc = "send" => /\ n # 0 /\ Resumed(calls[d], n).tok = n
                                                 /\ Resumed(calls[d], n).realm = calls[d].realm
          /\ Resumed(calls[d], n).tok \in {0, n}
      BY <3>1, Resumes
    <3> QED BY <3>1, <3>2, <3>3 DEF Connected
  <2>2. CASE d # c /\ calls[d].pc # "joined"
    BY <1>0, <2>2 DEF Settles
  <2> QED BY <2>1, <2>2
<1>2. store \in 1..issued /\ calls[c].tok \in 1..issued /\ store' \in 1..issued
  BY Numbers DEF IInv, Known, Settles, Connected, Granted
<1>3. UNCHANGED <<issued, current, callback, connected>> /\ n \in {0, store'}
  BY DEF Settles
<1>4. Known'
  <2>1. ASSUME NEW d \in Callers
        PROVE  /\ calls'[d].pc \in Connected => calls'[d].realm \in 1..issued
               /\ calls'[d].pc \in Granted => calls'[d].tok \in 1..issued
               /\ calls'[d].tok <= issued
    <3>1. calls[d].pc \in Granted => calls[d].realm \in 1..issued /\ calls[d].tok \in 1..issued
      BY DEF IInv, Known, Connected, Granted
    <3>2. calls[d].pc \in Connected => calls[d].realm \in 1..issued
      BY DEF IInv, Known
    <3>3. (n # 0 => n \in 1..issued) /\ n <= issued
      BY <1>2, <1>3, Numbers
    <3>4. calls[d].tok <= issued /\ 0 <= issued
      BY Numbers DEF IInv, Known
    <3> QED BY <1>1, <3>1, <3>2, <3>3, <3>4 DEF Connected, Granted
  <2>2. store' # 0
    BY <1>2
  <2> QED BY <1>3, <2>1, <2>2 DEF IInv, Known
<1>5. Owned'
  BY <1>1 DEF Owned
<1>6. Unsaved'
  <2>1. callback.pc = "save" => /\ callback.id # 0 /\ store # callback.id
                                /\ \A d \in Callers : calls[d].tok # callback.id
    BY DEF IInv, Known, Unsaved
  <2>2. callback.pc = "save" => /\ store' # callback.id
                                /\ \A d \in Callers : calls'[d].tok # callback.id
    BY <1>1, <2>1
  <2> QED BY <1>1, <1>3, <2>2 DEF Unsaved
<1>7. Straight'
  <2>1. SUFFICES ASSUME ~astray', callback = NoCallback
                 PROVE  Right(store)'
    <3>1. refreshing' = None
      BY DEF Settles
    <3> QED BY <1>1, <1>3, <3>1 DEF Straight
  <2>2. ~astray
    BY <2>1
  <2>3. Right(store')
    <3>1. CASE calls[c].pc = "saving"
      BY <2>1, <2>2, <3>1 DEF IInv, Straight
    <3>2. CASE calls[c].pc = "posting"
      <4>1. \A d \in Callers : calls[d].pc # "saving"
        BY <1>0, <3>2
      <4> QED BY <1>2, <2>1, <2>2, <3>2, <4>1 DEF IInv, Straight
    <3> QED BY <3>1, <3>2 DEF Settles
  <2>4. grants'[store'].realm = grants[store'].realm
    BY <1>2 DEF Settles
  <2> QED BY <1>3, <2>3, <2>4 DEF Right
<1> QED BY <1>4, <1>5, <1>6, <1>7 DEF IInv

\* Every step leaves the grants that were given out to their companies.
LEMMA Tokens ==
  ASSUME TypeOK, NEW r \in Realms, Give(r)
  PROVE  /\ issued' = issued + 1
         /\ \A n \in 1..issued : n \in 1..issued' /\ n # issued' /\ grants'[n] = grants[n]
         /\ issued' \in 1..issued' /\ grants'[issued'].realm = r /\ grants'[issued'].left = Life
         /\ current'[r] = issued' /\ \A q \in Realms : q # r => current'[q] = current[q]
<1>1. issued \in Nat /\ issued' = issued + 1
  BY Numbers DEF Give
<1>2. \A n \in 1..(issued + 1) : grants'[n] = IF n <= issued THEN grants[n]
                                             ELSE [realm |-> r, left |-> Life, until |-> 0]
  BY DEF Give
<1>3. \A n \in 1..issued : n \in 1..(issued + 1) /\ n <= issued /\ n # issued + 1
  BY <1>1
<1>4. issued + 1 \in 1..(issued + 1) /\ ~(issued + 1 <= issued)
  BY <1>1
<1>5. current'[r] = issued + 1 /\ \A q \in Realms : q # r => current'[q] = current[q]
  BY DEF Give, TypeOK
<1>6. grants'[issued + 1] = [realm |-> r, left |-> Life, until |-> 0]
  BY <1>2, <1>4
<1> QED BY <1>1, <1>2, <1>3, <1>4, <1>5, <1>6

LEMMA CallbackStep ==
  ASSUME TypeOK, IInv, NEW r \in Realms, Callback(r) PROVE IInv'
<1>0. /\ UNCHANGED <<store, calls, refreshing, connected>>
      /\ callback = NoCallback /\ callback'.pc = "save" /\ callback'.id = issued'
      /\ Give(r) /\ astray' = (astray \/ refreshing # None)
  BY DEF Callback, Give
<1>1. Known'
  <2>1. \A c \in Callers : calls[c].tok <= issued'
    BY <1>0, Tokens, Numbers DEF IInv, Known
  <2> QED BY <1>0, <2>1, Tokens DEF IInv, Known
<1>2. Owned'
  BY <1>0 DEF IInv, Owned
<1>3. Unsaved'
  <2>1. store # issued'
    BY <1>0, Tokens, Numbers
  <2>2. \A c \in Callers : calls[c].tok # issued'
    BY <1>0, Tokens, Numbers DEF IInv, Known
  <2> QED BY <1>0, <2>1, <2>2 DEF IInv, Unsaved
<1>4. Straight'
  <2>1. SUFFICES ASSUME ~astray' PROVE Straight'
    BY DEF Straight
  <2>2. ~astray /\ refreshing = None
    BY <1>0, <2>1
  <2>3. \A c \in Callers : calls[c].pc \notin {"posting", "saving"}
    BY <2>2, ConstantsOK DEF ConstantsOK, IInv, Owned
  <2>4. callback' # NoCallback
    BY <1>0 DEF NoCallback
  <2> QED BY <1>0, <2>2, <2>3, <2>4 DEF Straight
<1> QED BY <1>1, <1>2, <1>3, <1>4 DEF IInv

LEMMA CallbackSavedStep ==
  ASSUME TypeOK, IInv, CallbackSaved PROVE IInv'
<1>0. /\ UNCHANGED <<issued, current, calls, refreshing>>
      /\ callback.pc = "save" /\ callback.id \in 1..issued /\ store' = callback.id
      /\ callback' = NoCallback /\ connected' = grants[callback.id].realm
      /\ astray' = (refreshing # None \/ current[grants[callback.id].realm] # callback.id)
  BY DEF CallbackSaved, IInv, Known
<1>1. \A n \in 1..issued : grants'[n].realm = grants[n].realm
  <2>1. grants' = [grants EXCEPT ![callback.id] = [grants[callback.id] EXCEPT !.until = Life]]
    BY DEF CallbackSaved, Stored, TypeOK
  <2> QED BY <1>0, <2>1, Numbers DEF TypeOK, Grant
<1>2. Known'
  BY <1>0, Numbers DEF IInv, Known, NoCallback
<1>3. Owned'
  BY <1>0 DEF IInv, Owned
<1>4. Unsaved'
  BY <1>0 DEF IInv, Unsaved, NoCallback
<1>5. Straight'
  <2>1. SUFFICES ASSUME ~astray' PROVE Straight'
    BY DEF Straight
  <2>2. refreshing = None /\ current[grants[callback.id].realm] = callback.id
    BY <1>0, <2>1
  <2>3. \A c \in Callers : calls[c].pc \notin {"posting", "saving"}
    BY <2>2, ConstantsOK DEF ConstantsOK, IInv, Owned
  <2>4. Right(store)'
    BY <1>0, <1>1, <2>2 DEF Right
  <2> QED BY <1>0, <2>2, <2>3, <2>4 DEF Straight
<1> QED BY <1>2, <1>3, <1>4, <1>5 DEF IInv

\* A step that leaves the calls alone and is, or was, a fault.
LEMMA StrayStep ==
  ASSUME TypeOK, IInv, UNCHANGED <<store, issued, calls, refreshing>>,
         callback' \in {callback, NoCallback},
         \/ astray'
         \/ UNCHANGED <<grants, current, callback, connected, astray>>
  PROVE  IInv'
<1>1. Known'
  BY DEF IInv, Known, NoCallback
<1>2. Owned'
  BY DEF IInv, Owned
<1>3. Unsaved'
  BY DEF IInv, Unsaved, NoCallback
<1>4. Straight'
  BY DEF IInv, Straight, Right
<1> QED BY <1>1, <1>2, <1>3, <1>4 DEF IInv

LEMMA BeginRefreshStep ==
  ASSUME TypeOK, IInv, NEW c \in Callers, BeginRefresh(c) PROVE IInv'
<1>0. /\ UNCHANGED <<store, grants, issued, current, callback, connected>>
      /\ calls[c].pc = "use" /\ refreshing = None /\ refreshing' = c
      /\ astray' = \/ astray \/ callback # NoCallback
                   \/ grants[calls[c].tok].realm # grants[store].realm
  BY DEF BeginRefresh, NeedsRefresh, Joins
<1>1. /\ calls'[c].pc = "posting" /\ calls'[c].tok = calls[c].tok /\ calls'[c].realm = calls[c].realm
      /\ calls'[c].outdated = (calls[c].tok # store)
      /\ \A d \in Callers : d # c => calls'[d] = calls[d]
  <2> DEFINE p == [calls[c] EXCEPT !.pc = "posting", !.outdated = calls[c].tok # store]
  <2>1. calls' = [calls EXCEPT ![c] = p]
    BY DEF BeginRefresh
  <2>2. /\ p.pc = "posting" /\ p.tok = calls[c].tok /\ p.realm = calls[c].realm
        /\ p.outdated = (calls[c].tok # store)
    BY Numbers DEF Call
  <2> HIDE DEF p
  <2> QED BY <2>1, <2>2, Numbers
<1>2. \A d \in Callers : calls[d].pc \notin {"posting", "saving"}
  BY <1>0, ConstantsOK DEF ConstantsOK, IInv, Owned
<1>3. Known'
  BY <1>0, <1>1 DEF IInv, Known, Connected, Granted
<1>4. Owned'
  BY <1>0, <1>1, <1>2 DEF Owned
<1>5. Unsaved'
  BY <1>0, <1>1, <1>2 DEF IInv, Unsaved
<1>6. Straight'
  <2>1. SUFFICES ASSUME ~astray' PROVE Straight'
    BY DEF Straight
  <2>2. ~astray /\ callback = NoCallback /\ grants[calls[c].tok].realm = grants[store].realm
    BY <1>0, <2>1
  <2>3. store # 0
    BY <1>0 DEF IInv, Known, Connected
  <2>4. Right(store)
    BY <1>2, <2>2, <2>3 DEF IInv, Straight
  <2>5. Right(store)'
    BY <1>0, <2>4 DEF Right
  <2>6. ~calls'[c].outdated => current[grants[calls[c].tok].realm] = calls[c].tok
    BY <1>1, <2>2, <2>4 DEF Right
  <2> QED BY <1>0, <1>1, <1>2, <2>2, <2>5, <2>6 DEF Straight
<1> QED BY <1>3, <1>4, <1>5, <1>6 DEF IInv

LEMMA RefreshGrantedStep ==
  ASSUME TypeOK, IInv, NEW c \in Callers, RefreshGranted(c) PROVE IInv'
<1>0. /\ UNCHANGED <<store, refreshing, callback, connected, astray>>
      /\ calls[c].pc = "posting" /\ calls[c].tok \in 1..issued /\ store \in 1..issued
      /\ calls[c].realm \in 1..issued
  BY Numbers DEF RefreshGranted, IInv, Known, Connected, Granted
<1>1. Give(grants[calls[c].tok].realm) /\ grants[calls[c].tok].realm \in Realms
  BY <1>0, Numbers DEF RefreshGranted
<1>2. /\ calls'[c].pc = "saving" /\ calls'[c].tok = issued' /\ calls'[c].realm = calls[c].realm
      /\ \A d \in Callers : d # c => calls'[d] = calls[d]
  <2> DEFINE p == [calls[c] EXCEPT !.pc = "saving", !.tok = issued + 1, !.late = 0]
  <2>1. calls' = [calls EXCEPT ![c] = p] /\ issued' = issued + 1
    BY DEF RefreshGranted, Give
  <2>2. p.pc = "saving" /\ p.tok = issued + 1 /\ p.realm = calls[c].realm
    BY Numbers DEF Call
  <2> HIDE DEF p
  <2> QED BY <2>1, <2>2, Numbers
<1>3. \A d \in Callers : d # c => calls[d].pc \notin {"posting", "saving"}
  BY <1>0, ConstantsOK DEF ConstantsOK, IInv, Owned
<1>4. /\ \A n \in 1..issued : n \in 1..issued' /\ n # issued' /\ grants'[n] = grants[n]
      /\ issued' \in 1..issued' /\ grants'[issued'].realm = grants[calls[c].tok].realm
      /\ current'[grants[calls[c].tok].realm] = issued'
  BY <1>1, Tokens
<1>5. \A d \in Callers : calls[d].tok # issued'
  BY <1>1, Tokens, Numbers DEF IInv, Known
<1>6. Known'
  <2>1. issued' = issued + 1 /\ \A d \in Callers : calls[d].tok <= issued'
    BY <1>1, Tokens, Numbers DEF IInv, Known
  <2>2. issued' <= issued'
    BY <2>1, Numbers
  <2> QED BY <1>0, <1>2, <1>4, <2>1, <2>2 DEF IInv, Known
<1>7. Owned'
  BY <1>0, <1>2 DEF IInv, Owned
<1>8. Unsaved'
  <2>1. callback.pc = "save" => callback.id # issued'
    BY <1>4 DEF IInv, Known
  <2>2. store # issued'
    BY <1>0, <1>4
  <2> QED BY <1>0, <1>2, <1>3, <1>5, <2>1, <2>2 DEF IInv, Unsaved
<1>9. Straight'
  <2>1. SUFFICES ASSUME ~astray PROVE Straight'
    BY <1>0 DEF Straight
  <2>2. callback = NoCallback /\ grants[calls[c].tok].realm = grants[store].realm
    BY <1>0, <2>1, ConstantsOK DEF ConstantsOK, IInv, Straight, Owned
  <2>3. Right(store)
    BY <1>0, <1>3, <2>1, <2>2 DEF IInv, Straight
  <2>4. grants'[store].realm = grants[store].realm
    BY <1>0, <1>4
  <2>5. Right(calls[c].tok)' 
    BY <1>0, <1>2, <1>4, <2>2, <2>3 DEF Right
  <2> QED BY <1>0, <1>2, <1>3, <1>4, <2>2, <2>4, <2>5 DEF Straight
<1> QED BY <1>6, <1>7, <1>8, <1>9 DEF IInv

LEMMA CrashStep == ASSUME TypeOK, IInv, Crash PROVE IInv'
<1>0. /\ UNCHANGED <<store, grants, issued, current, connected>>
      /\ refreshing' = None /\ callback' = NoCallback
      /\ \A c \in Callers : calls'[c].pc = "idle" /\ calls'[c].tok = 0
      /\ astray' = (astray \/ callback.pc = "save" \/ \E c \in Callers : calls[c].pc = "saving")
  BY DEF Crash, Idle
<1>1. Known'
  BY <1>0, Numbers DEF Known, NoCallback, Connected, Granted
<1>2. Owned' /\ Unsaved'
  BY <1>0 DEF Owned, Unsaved, NoCallback
<1>3. Straight'
  <2>1. SUFFICES ASSUME ~astray' PROVE Straight'
    BY DEF Straight
  <2>2. ~astray /\ callback = NoCallback /\ \A c \in Callers : calls[c].pc # "saving"
    BY <1>0, <2>1, Numbers DEF IInv, Known
  <2> QED BY <1>0, <2>2 DEF IInv, Straight, Right
<1> QED BY <1>1, <1>2, <1>3 DEF IInv

LEMMA Ticked ==
  ASSUME TypeOK, Tick
  PROVE  /\ UNCHANGED <<store, issued, current, refreshing, callback, connected, astray>>
         /\ callback = NoCallback
         /\ \A n \in 1..issued : /\ grants'[n].realm = grants[n].realm
                                 /\ grants'[n].left = Less1(grants[n].left)
                                 /\ grants'[n].until = Less1(grants[n].until)
         /\ \A c \in Callers :
              /\ calls'[c].pc = calls[c].pc /\ calls'[c].realm = calls[c].realm
              /\ calls'[c].tok = calls[c].tok /\ calls'[c].outdated = calls[c].outdated
              /\ Hurry(c) => calls[c].late = 0 /\ calls'[c].late = 1
<1>1. UNCHANGED <<store, issued, current, refreshing, callback, connected, astray>> /\ callback = NoCallback
  BY DEF Tick
<1>2. ASSUME NEW n \in 1..issued
      PROVE  /\ grants'[n].realm = grants[n].realm
             /\ grants'[n].left = Less1(grants[n].left)
             /\ grants'[n].until = Less1(grants[n].until)
  <2>1. grants'[n] = [grants[n] EXCEPT !.left = Less1(@), !.until = Less1(@)]
    BY DEF Tick
  <2> QED BY <2>1, Numbers DEF Grant
<1>3. ASSUME NEW c \in Callers
      PROVE  /\ calls'[c].pc = calls[c].pc /\ calls'[c].realm = calls[c].realm
             /\ calls'[c].tok = calls[c].tok /\ calls'[c].outdated = calls[c].outdated
             /\ Hurry(c) => calls[c].late = 0 /\ calls'[c].late = 1
  <2>1. calls'[c] = [calls[c] EXCEPT !.wait = Less1(@), !.late = IF Hurry(c) THEN 1 ELSE @]
    BY DEF Tick
  <2>2. Hurry(c) => calls[c].late # 1
    BY DEF Tick
  <2>3. calls[c].late = 0 \/ calls[c].late = 1
    BY Numbers DEF Call
  <2> QED BY <2>1, <2>2, <2>3, Numbers DEF Call
<1> QED BY <1>1, <1>2, <1>3

LEMMA TickStep == ASSUME TypeOK, IInv, Tick PROVE IInv'
<1>0. store # 0 => store \in 1..issued
  BY Numbers
<1>1. Known'
  BY Ticked DEF IInv, Known
<1>2. Owned'
  BY Ticked DEF IInv, Owned
<1>3. Unsaved'
  BY Ticked DEF IInv, Unsaved
<1>4. Straight'
  <2>1. SUFFICES ASSUME ~astray PROVE Straight'
    BY Ticked DEF Straight
  <2>2. ASSUME NEW c \in Callers
        PROVE  /\ calls[c].pc \in {"posting", "saving"} => grants'[calls[c].tok].realm = grants'[store].realm
               /\ calls[c].pc = "posting" /\ ~calls[c].outdated =>
                    current[grants'[calls[c].tok].realm] = calls[c].tok
               /\ calls[c].pc = "saving" => /\ current[grants'[calls[c].tok].realm] = calls[c].tok
                                            /\ connected = grants'[calls[c].tok].realm
    <3>1. calls[c].pc \in {"posting", "saving"} => calls[c].tok \in 1..issued /\ store \in 1..issued
      BY <1>0 DEF IInv, Known, Connected, Granted
    <3>2. /\ calls[c].pc \in {"posting", "saving"} => grants[calls[c].tok].realm = grants[store].realm
          /\ calls[c].pc = "posting" /\ ~calls[c].outdated =>
               current[grants[calls[c].tok].realm] = calls[c].tok
          /\ calls[c].pc = "saving" => Right(calls[c].tok)
      BY <2>1 DEF IInv, Straight
    <3> QED BY <3>1, <3>2, Ticked DEF Right
  <2>3. store # 0 /\ (\A c \in Callers : calls[c].pc # "saving") => Right(store)'
    <3>1. store # 0 /\ (\A c \in Callers : calls[c].pc # "saving") => Right(store)
      BY <2>1, Ticked DEF IInv, Straight
    <3> QED BY <1>0, <3>1, Ticked DEF Right
  <2> QED BY <2>2, <2>3, Ticked DEF Straight, Right
<1> QED BY <1>1, <1>2, <1>3, <1>4 DEF IInv

\* Every step keeps the types and the invariant.
LEMMA IInvStep == TypeOK /\ IInv /\ [Next]_vars => IInv'
<1> SUFFICES ASSUME TypeOK, IInv, [Next]_vars PROVE IInv'
  OBVIOUS
<1>0. Known /\ astray' \in BOOLEAN /\ 0 \in Ids
  BY FlagStep, ConstantsOK DEF ConstantsOK, IInv, Ids
<1>1. ASSUME NEW c \in Callers,
             \/ Begin(c) \/ RateLimit(c) \/ RateWait(c) \/ Waited(c)
             \/ ReadRealm(c) \/ ReadTokens(c) \/ TokenFresh(c) \/ JoinRefresh(c)
             \/ Answered(c) \/ Unauthorized(c)
      PROVE  IInv'
  BY <1>0, <1>1, Locally, LocalStep
<1>2. CASE Connect \/ CallbackFails \/ CallbackNotSaved \/ UNCHANGED vars
  BY <1>2, StrayStep DEF Connect, CallbackFails, CallbackNotSaved, vars
<1>3. CASE CallbackSaved
  BY <1>3, CallbackSavedStep
<1>4. ASSUME NEW r \in Realms, Callback(r) PROVE IInv'
  BY <1>4, CallbackStep
<1>5. ASSUME NEW r \in Realms, Revoke(r) PROVE IInv'
  BY <1>5, StrayStep DEF Revoke
<1>6. ASSUME NEW c \in Callers, BeginRefresh(c) PROVE IInv'
  BY <1>6, BeginRefreshStep
<1>7. ASSUME NEW c \in Callers, RefreshGranted(c) PROVE IInv'
  BY <1>7, RefreshGrantedStep
<1>8. ASSUME NEW c \in Callers,
             RefreshRefused(c) \/ RefreshFails(c) \/ RefreshAnswerLost(c) \/ RefreshNotSaved(c)
      PROVE  IInv'
  <2>1. /\ Settle(c, 0) /\ UNCHANGED <<store, grants, issued, current, callback, connected>>
        /\ calls[c].pc \in {"posting", "saving"}
        /\ astray' \/ (astray' = astray /\ calls[c].pc = "posting")
    BY <1>8 DEF RefreshRefused, RefreshFails, RefreshAnswerLost, RefreshNotSaved
  <2>2. Settles(c, 0)
    BY <2>1, Numbers DEF Settle, Settles
  <2> QED BY <1>0, <2>1, <2>2, SettlesStep
<1>9. ASSUME NEW c \in Callers, RefreshSaved(c) PROVE IInv'
  <2>1. /\ Settle(c, calls[c].tok) /\ Stored(calls[c].tok)
        /\ UNCHANGED <<issued, current, callback, connected, astray>>
        /\ calls[c].pc = "saving" /\ store' = calls[c].tok
    BY <1>9 DEF RefreshSaved
  <2>2. \A n \in 1..issued : grants'[n].realm = grants[n].realm
    BY <2>1, Numbers DEF Stored, Grant, TypeOK
  <2>3. Settles(c, calls[c].tok) /\ calls[c].tok \in Ids
    BY <2>1, <2>2, Numbers DEF Settle, Settles, Call
  <2> QED BY <1>0, <2>1, <2>3, SettlesStep
<1>10. CASE Crash
  BY <1>10, CrashStep
<1>11. CASE Tick
  BY <1>11, TickStep
<1> QED
  BY <1>1, <1>2, <1>3, <1>4, <1>5, <1>6, <1>7, <1>8, <1>9, <1>10, <1>11 DEF Next

\* A tick on the window: its requests are one tick older, and the oldest have
\* left it if they were about to.
LEMMA Ages ==
  ASSUME NEW s \in Seq(0..(Window - 1)), NEW aged, Aged(s, aged)
  PROVE  /\ aged \in Seq(0..(Window - 1))
         /\ Len(aged) <= Len(s)
         /\ s # <<>> => \/ Len(aged) < Len(s)
                        \/ /\ s[1] < Window - 1 /\ aged # <<>>
                           /\ aged[1] = s[1] + 1
<1>1. PICK old \in 0..Len(s) :
        /\ \A i \in 1..Len(s) : i <= old <=> s[i] = Window - 1
        /\ aged = [i \in 1..(Len(s) - old) |-> s[i + old] + 1]
  BY DEF Aged
<1>2. PICK n \in Nat : n = Len(s)
  OBVIOUS
<1>3. \A i \in 1..n : s[i] \in 0..(Window - 1)
  BY <1>2, ElementOfSeq
<1>4. PICK w \in Nat \ {0} : w = Window
  BY ConstantsOK DEF ConstantsOK
<1>5. ASSUME NEW i \in 1..(n - old) PROVE s[i + old] + 1 \in 0..(Window - 1)
  <2>1. i + old \in 1..n /\ ~(i + old <= old)
    BY <1>1, <1>2, <1>5
  <2>2. s[i + old] \in 0..(w - 1) /\ s[i + old] # w - 1
    BY <1>1, <1>2, <1>3, <1>4, <2>1
  <2> QED BY <1>4, <2>2
<1>6. n - old \in Nat /\ n - old <= n
  BY <1>1, <1>2
<1>7. aged \in Seq(0..(Window - 1)) /\ Len(aged) = n - old
  BY <1>1, <1>2, <1>5, <1>6
<1>8. ASSUME s # <<>>, ~(Len(aged) < Len(s))
      PROVE  s[1] < Window - 1 /\ aged # <<>> /\ aged[1] = s[1] + 1
  <2>1. old = 0 /\ n # 0
    BY <1>1, <1>2, <1>7, <1>8
  <2>2. 1 \in 1..n /\ s[1] # w - 1 /\ s[1] \in 0..(w - 1)
    BY <1>1, <1>2, <1>3, <1>4, <2>1
  <2> QED BY <1>1, <1>2, <1>4, <1>7, <2>1, <2>2
<1> QED BY <1>2, <1>6, <1>7, <1>8

\* The requests of the last minute.
LEMMA LimitsStep ==
  ASSUME TypeOK, [Next]_vars
  PROVE  /\ stamps' \in Seq(0..(Window - 1)) /\ forgotten' \in Seq(0..(Window - 1))
         /\ allowed' \in Nat
<1>0. /\ stamps \in Seq(0..(Window - 1)) /\ forgotten \in Seq(0..(Window - 1))
      /\ allowed \in Nat /\ Limit \in Nat /\ 0 \in 0..(Window - 1)
  BY ConstantsOK DEF ConstantsOK, TypeOK
<1>1. ASSUME UNCHANGED <<stamps, limits>>
      PROVE  /\ stamps' \in Seq(0..(Window - 1)) /\ forgotten' \in Seq(0..(Window - 1))
             /\ allowed' \in Nat
  BY <1>0, <1>1 DEF limits
<1>2. ASSUME NEW c \in Callers, RateLimit(c) \/ Waited(c)
      PROVE  /\ stamps' \in Seq(0..(Window - 1)) /\ forgotten' \in Seq(0..(Window - 1))
             /\ allowed' \in Nat
  <2>1. stamps' = Append(stamps, 0) /\ forgotten' = forgotten /\ allowed' \in {allowed, allowed + 1}
    BY <1>2 DEF RateLimit, Waited, Stamp, limits
  <2> QED BY <1>0, <2>1
<1>3. ASSUME NEW c \in Callers,
             \/ Begin(c) \/ RateWait(c) \/ ReadRealm(c) \/ ReadTokens(c) \/ TokenFresh(c)
             \/ JoinRefresh(c) \/ Answered(c) \/ Unauthorized(c) \/ BeginRefresh(c)
             \/ RefreshGranted(c) \/ RefreshRefused(c) \/ RefreshFails(c)
             \/ RefreshAnswerLost(c) \/ RefreshSaved(c) \/ RefreshNotSaved(c)
      PROVE  UNCHANGED <<stamps, limits>>
  BY <1>3 DEF Begin, RateWait, ReadRealm, ReadTokens, TokenFresh, JoinRefresh, Answered,
     Unauthorized, BeginRefresh, RefreshGranted, RefreshRefused, RefreshFails, RefreshAnswerLost,
     RefreshSaved, RefreshNotSaved
<1>4. ASSUME NEW r \in Realms, Callback(r) \/ Revoke(r) PROVE UNCHANGED <<stamps, limits>>
  BY <1>4 DEF Callback, Revoke
<1>5. CASE Connect \/ CallbackFails \/ CallbackSaved \/ CallbackNotSaved \/ UNCHANGED vars
  BY <1>1, <1>5 DEF Connect, CallbackFails, CallbackSaved, CallbackNotSaved, vars, limits
<1>6. CASE Crash
  <2>1. /\ stamps' = <<>> /\ forgotten' = forgotten \o stamps
        /\ allowed' \in {allowed, allowed + Limit}
    BY <1>6 DEF Crash
  <2> QED BY <1>0, <2>1
<1>7. CASE Tick
  <2>1. /\ Aged(stamps, stamps') /\ Aged(forgotten, forgotten')
        /\ allowed' \in {allowed, Limit}
    BY <1>7 DEF Tick
  <2> QED BY <1>0, <2>1, Ages
<1> QED BY <1>1, <1>2, <1>3, <1>4, <1>5, <1>6, <1>7 DEF Next

LEMMA InitOK == Init => TypeOK /\ states <= connects /\ IInv
<1> SUFFICES ASSUME Init PROVE TypeOK /\ states <= connects /\ IInv
  OBVIOUS
<1>1. CountersTyped /\ astray = FALSE
  BY ConstantsOK DEF ConstantsOK, Init, CountersTyped
<1>2. GrantsTyped
  BY ConstantsOK DEF ConstantsOK, Init, GrantsTyped, NoCallback, Ids
<1>3. CallsTyped
  BY IdleTyped, ConstantsOK DEF ConstantsOK, Init, CallsTyped, Idle
<1>4. stamps \in Seq(0..(Window - 1)) /\ forgotten \in Seq(0..(Window - 1)) /\ allowed \in Nat
  BY ConstantsOK DEF ConstantsOK, Init
<1>5. \A c \in Callers : calls[c].pc = "idle" /\ calls[c].tok = 0
  BY DEF Init, Idle
<1>6. IInv
  BY <1>5 DEF Init, IInv, Known, Owned, Unsaved, Straight, NoCallback, Connected, Granted
<1>7. TypeOK /\ states <= connects
  BY <1>1, <1>2, <1>3, <1>4 DEF TypeOK, CountersTyped, GrantsTyped, CallsTyped
<1> QED BY <1>6, <1>7

LEMMA TypeStep == TypeOK /\ states <= connects /\ IInv /\ [Next]_vars => TypeOK' /\ (states <= connects)'
<1> SUFFICES ASSUME TypeOK, states <= connects, IInv, [Next]_vars PROVE TypeOK' /\ (states <= connects)'
  OBVIOUS
<1>1. CountersTyped'
  BY CountersStep DEF TypeOK, CountersTyped
<1>2. GrantsTyped' /\ CallsTyped'
  BY GrantsStep, CallsStep DEF IInv
<1>3. astray' \in BOOLEAN
  BY FlagStep
<1>4. /\ stamps' \in Seq(0..(Window - 1)) /\ forgotten' \in Seq(0..(Window - 1))
      /\ allowed' \in Nat
  BY LimitsStep
<1> QED BY <1>1, <1>2, <1>3, <1>4 DEF TypeOK, CountersTyped, GrantsTyped, CallsTyped

LEMMA Inductive == Spec => [](TypeOK /\ states <= connects /\ IInv)
<1>1. /\ TypeOK /\ states <= connects /\ IInv /\ [Next]_vars
      => TypeOK' /\ (states <= connects)' /\ IInv'
  BY TypeStep, IInvStep
<1> QED BY <1>1, InitOK, PTL DEF Spec

\* Every reachable state is well typed.
THEOREM ClientTypes == Spec => []TypeOK
<1> QED BY Inductive, PTL

\* Whatever the calls, refreshes and connections that run at once, the row has
\* the tokens that Intuit accepts next, unless a fault or a connection that
\* raced a refresh has parted them.
THEOREM ConnectionKept == Spec => []StoreIsCurrent
<1>1. IInv => StoreIsCurrent
  BY DEF IInv, Straight, StoreIsCurrent, Right
<1> QED BY <1>1, Inductive, PTL

\* A refresh is refused only to a call that read the row before another saved.
THEOREM RefreshesTakeTurns == Spec => RefreshesSerialized
<1> DEFINE Turns == \A c \in Callers : RefreshRefused(c) => astray \/ calls[c].outdated
<1>1. TypeOK /\ IInv => Turns
  <2> SUFFICES ASSUME TypeOK, IInv, NEW c \in Callers, RefreshRefused(c), ~astray
               PROVE  calls[c].outdated
    OBVIOUS
  <2> QED BY DEF IInv, Straight, RefreshRefused
<1>2. TypeOK /\ IInv /\ [Next]_vars => [Turns]_vars
  BY <1>1
<1> QED BY <1>2, Inductive, PTL DEF Spec, RefreshesSerialized

-----------------------------------------------------------------------------
(* Tokens that have not run out *)

\* A token is not used in the last two ticks that the process gives it.
Ample == Margin >= 2 /\ Life >= 3

\* The row's token lives about as long as the process believes, and that of a
\* request that is under way long enough.
InTime ==
  /\ callback.pc = "save" /\ current[grants[callback.id].realm] = callback.id =>
       grants[callback.id].left = Life
  /\ ~astray =>
       /\ store # 0 => grants[store].left + 1 >= grants[store].until
       /\ \A c \in Callers :
            /\ calls[c].pc = "saving" => grants[calls[c].tok].left + calls[c].late >= Life
            /\ calls[c].pc = "send" /\ calls[c].tok = store => grants[store].left + calls[c].late >= 2

LEMMA InTimeStep == ASSUME Ample, TypeOK, IInv, InTime, [Next]_vars PROVE InTime'
<1>0. /\ Life \in Nat /\ Margin \in Nat /\ Life >= 3 /\ Margin >= 2
      /\ \A n \in 1..issued : grants[n].left \in Nat /\ grants[n].until \in Nat
      /\ \A c \in Callers : calls[c].late \in {0, 1}
  BY Numbers, ConstantsOK DEF ConstantsOK, Ample, Grant, Call
<1>1. /\ store # 0 => store \in 1..issued
      /\ callback.pc = "save" => callback.id \in 1..issued
      /\ \A c \in Callers : calls[c].pc \in {"posting", "saving", "send"} =>
           calls[c].tok \in 1..issued /\ store \in 1..issued
  BY Numbers DEF IInv, Known, Connected, Granted
<1>2. CASE UNCHANGED <<store, grants, current, calls, callback>> /\ (astray' = astray \/ astray')
  BY <1>2 DEF InTime
<1>3. CASE Connect \/ CallbackFails \/ UNCHANGED vars
  BY <1>2, <1>3 DEF Connect, CallbackFails, vars
<1>4. CASE CallbackNotSaved
  BY <1>4 DEF CallbackNotSaved, InTime, NoCallback
<1>5. CASE CallbackSaved
  <2>0. /\ callback.pc = "save" /\ store' = callback.id /\ callback' = NoCallback
        /\ UNCHANGED <<calls, refreshing>> /\ callback.id \in 1..issued
        /\ astray' = (refreshing # None \/ current[grants[callback.id].realm] # callback.id)
    BY <1>1, <1>5 DEF CallbackSaved
  <2>1. SUFFICES ASSUME ~astray' PROVE InTime'
    BY <2>0 DEF InTime, NoCallback
  <2>2. /\ refreshing = None /\ grants[callback.id].left = Life
        /\ \A c \in Callers : calls[c].pc # "saving" /\ calls[c].tok # callback.id
    BY <2>0, <2>1, ConstantsOK DEF ConstantsOK, InTime, IInv, Owned, Unsaved
  <2>3. grants'[store'].left = Life /\ grants'[store'].until = Life
    <3>1. grants' = [grants EXCEPT ![callback.id] = [grants[callback.id] EXCEPT !.until = Life]]
      BY <1>5 DEF CallbackSaved, Stored
    <3> QED BY <2>0, <2>2, <3>1, Numbers DEF Grant, TypeOK
  <2> QED BY <1>0, <2>0, <2>2, <2>3 DEF InTime, NoCallback
<1>6. ASSUME NEW r \in Realms, Callback(r) PROVE InTime'
  <2>0. /\ UNCHANGED <<store, calls>> /\ callback'.id = issued' /\ Give(r)
        /\ astray' = (astray \/ refreshing # None)
    BY <1>6 DEF Callback, Give
  <2>1. \A n \in 1..issued : grants'[n] = grants[n]
    BY <2>0, Tokens
  <2>2. grants'[callback'.id].left = Life
    BY <2>0, Tokens
  <2> QED BY <1>1, <2>0, <2>1, <2>2 DEF InTime
<1>7. ASSUME NEW r \in Realms, Revoke(r) PROVE InTime'
  <2>0. astray' /\ callback' = callback
    BY <1>7 DEF Revoke
  <2>1. SUFFICES ASSUME callback.pc = "save", current'[grants'[callback.id].realm] = callback.id
                 PROVE  grants'[callback.id].left = Life
    BY <2>0 DEF InTime
  <2>2. callback.id \in 1..issued /\ callback.id # 0 /\ grants[callback.id].realm \in Realms
    BY <1>1, <2>1, Numbers
  <2>3. grants'[callback.id] = IF grants[callback.id].realm = r
                               THEN [grants[callback.id] EXCEPT !.left = 0] ELSE grants[callback.id]
    BY <1>7, <2>2 DEF Revoke
  <2>4. current' = [current EXCEPT ![r] = 0]
    BY <1>7 DEF Revoke
  <2>5. CASE grants[callback.id].realm = r
    BY <2>1, <2>2, <2>3, <2>4, <2>5, Numbers DEF Grant, TypeOK
  <2>6. CASE grants[callback.id].realm # r
    BY <2>1, <2>2, <2>3, <2>4, <2>6 DEF InTime, TypeOK
  <2> QED BY <2>5, <2>6
<1>8. ASSUME NEW c \in Callers,
             \/ Begin(c) \/ RateLimit(c) \/ RateWait(c) \/ Waited(c)
             \/ ReadRealm(c) \/ ReadTokens(c) \/ TokenFresh(c) \/ JoinRefresh(c)
             \/ Answered(c) \/ Unauthorized(c)
      PROVE  InTime'
  <2>0. Local(c)
    BY <1>8, Locally DEF IInv
  <2>1. UNCHANGED <<store, grants, current, callback, astray>> /\ calls'[c].pc # "saving"
    BY <2>0 DEF Local, auth
  <2>2. \A d \in Callers : d # c => Same(d)
    BY <2>0 DEF Local
  <2>3. ASSUME ~astray, calls'[c].pc = "send", calls'[c].tok = store
        PROVE  grants[store].left + calls'[c].late >= 2
    <3>1. FreshEnough(store) /\ calls'[c].late = 0 /\ store \in 1..issued
      BY <2>0, <2>3, Numbers DEF Local, IInv, Known, Granted, Connected
    <3>2. grants[store].until > Margin /\ grants[store].left + 1 >= grants[store].until
      BY <2>3, <3>1 DEF FreshEnough, InTime
    <3>3. PICK left \in Nat : left = grants[store].left
      BY <1>0, <3>1
    <3>4. PICK until \in Nat : until = grants[store].until
      BY <1>0, <3>1
    <3>5. left + 1 >= until /\ until > Margin
      BY <3>2, <3>3, <3>4
    <3>6. left + 0 >= 2
      BY <1>0, <3>5
    <3> QED BY <3>1, <3>3, <3>6
  <2> QED BY <2>1, <2>2, <2>3 DEF InTime, Same
<1>9. ASSUME NEW c \in Callers, BeginRefresh(c) PROVE InTime'
  <2>0. UNCHANGED <<store, grants, current, callback>> /\ (astray => astray') /\ astray' \in BOOLEAN
    BY <1>9, FlagStep DEF BeginRefresh
  <2>1. calls'[c].pc = "posting" /\ \A d \in Callers : d # c => calls'[d] = calls[d]
    <3>1. calls' = [calls EXCEPT ![c] = [calls[c] EXCEPT !.pc = "posting", !.outdated = calls[c].tok # store]]
      BY <1>9 DEF BeginRefresh
    <3> QED BY <3>1, Numbers DEF Call
  <2> QED BY <2>0, <2>1 DEF InTime
<1>10. ASSUME NEW c \in Callers, RefreshGranted(c) PROVE InTime'
  <2>0. /\ UNCHANGED <<store, callback, astray>> /\ calls[c].tok \in 1..issued
        /\ Give(grants[calls[c].tok].realm) /\ grants[calls[c].tok].realm \in Realms
    BY <1>1, <1>10, Numbers DEF RefreshGranted
  <2>1. /\ \A n \in 1..issued : n # issued' /\ grants'[n] = grants[n]
        /\ grants'[issued'].left = Life
        /\ \A r \in Realms : current'[r] \in {issued', current[r]}
    BY <2>0, Tokens
  <2>2. /\ calls'[c].pc = "saving" /\ calls'[c].tok = issued' /\ calls'[c].late = 0
        /\ \A d \in Callers : d # c => calls'[d] = calls[d]
    <3>1. /\ calls' = [calls EXCEPT ![c] = [calls[c] EXCEPT !.pc = "saving", !.tok = issued + 1, !.late = 0]]
          /\ issued' = issued + 1
      BY <1>10 DEF RefreshGranted, Give
    <3> QED BY <3>1, Numbers DEF Call
  <2>3. callback.pc = "save" => current'[grants'[callback.id].realm] \in {issued', current[grants[callback.id].realm]}
    BY <1>1, <2>1, Numbers
  <2>4. grants'[issued'].left + 0 >= Life
    BY <1>0, <2>1
  <2>5. callback.pc = "save" /\ current'[grants'[callback.id].realm] = callback.id =>
          grants'[callback.id].left = Life
    BY <1>1, <2>1, <2>3 DEF InTime
  <2> QED BY <1>1, <2>0, <2>1, <2>2, <2>4, <2>5 DEF InTime
<1>11. ASSUME NEW c \in Callers,
              RefreshRefused(c) \/ RefreshFails(c) \/ RefreshAnswerLost(c) \/ RefreshNotSaved(c)
       PROVE  InTime'
  <2>1. /\ Settle(c, 0) /\ UNCHANGED <<store, grants, current, callback>>
        /\ astray' \/ astray' = astray
    BY <1>11 DEF RefreshRefused, RefreshFails, RefreshAnswerLost, RefreshNotSaved
  <2>2. \A d \in Callers : calls'[d].pc = "idle" \/ calls'[d] = calls[d]
    BY <2>1, Numbers DEF Settle, Resumed, Idle
  <2> QED BY <2>1, <2>2 DEF InTime
<1>12. ASSUME NEW c \in Callers, RefreshSaved(c) PROVE InTime'
  <2> DEFINE n == calls[c].tok
  <2>0. /\ Settle(c, n) /\ UNCHANGED <<current, callback, astray>> /\ store' = n
        /\ calls[c].pc = "saving" /\ n \in 1..issued /\ n \in Ids
    BY <1>1, <1>12, Numbers DEF RefreshSaved, TypeOK, Call
  <2>1. /\ grants'[n].left = grants[n].left /\ grants'[n].until = Life
        /\ \A m \in 1..issued : grants'[m].left = grants[m].left /\ grants'[m].realm = grants[m].realm
    <3>1. grants' = [grants EXCEPT ![n] = [grants[n] EXCEPT !.until = Life]]
      BY <1>12 DEF RefreshSaved, Stored
    <3> QED BY <2>0, <3>1, Numbers DEF Grant, TypeOK
  <2>2. ASSUME ~astray PROVE grants[n].left + 1 >= Life /\ grants[n].left >= 2
    <3>1. PICK left \in Nat : left = grants[n].left
      BY <1>0, <2>0
    <3>2. PICK late \in {0, 1} : late = calls[c].late
      BY <1>0
    <3>3. left + late >= Life
      BY <2>0, <2>2, <3>1, <3>2 DEF InTime
    <3>4. left + 1 >= Life /\ left >= 2
      BY <1>0, <3>3
    <3> QED BY <3>1, <3>4
  <2>3. ASSUME NEW d \in Callers
        PROVE  calls'[d].pc # "saving" /\ (calls'[d].pc = "send" => calls'[d].tok # n \/ calls'[d].late = 0)
    <3>1. CASE d = c \/ calls[d].pc = "joined"
      BY <2>0, <3>1, Resumes, Numbers DEF Settle
    <3>2. CASE d # c /\ calls[d].pc # "joined"
      BY <2>0, <3>2, Numbers, ConstantsOK DEF ConstantsOK, Settle, IInv, Owned, Unsaved
    <3> QED BY <3>1, <3>2
  <2>4. callback.pc = "save" /\ current[grants'[callback.id].realm] = callback.id =>
          grants'[callback.id].left = Life
    BY <1>1, <2>1 DEF InTime
  <2>5. ASSUME ~astray, NEW d \in Callers, calls'[d].pc = "send", calls'[d].tok = n
        PROVE  grants'[n].left + calls'[d].late >= 2
    BY <1>0, <2>0, <2>1, <2>2, <2>3, <2>5
  <2> HIDE DEF n
  <2> QED BY <2>0, <2>1, <2>2, <2>3, <2>4, <2>5 DEF InTime
<1>13. CASE Crash
  <2>1. callback' = NoCallback /\ (\A c \in Callers : calls'[c].pc = "idle") /\ (astray => astray')
    BY <1>13 DEF Crash, Idle
  <2>2. UNCHANGED <<store, grants>>
    BY <1>13 DEF Crash
  <2> QED BY <2>1, <2>2 DEF InTime, NoCallback
<1>14. CASE Tick
  <2>1. UNCHANGED <<store, callback, astray>> /\ callback = NoCallback
    BY <1>14, Ticked
  <2>2. SUFFICES ASSUME ~astray PROVE InTime'
    BY <2>1 DEF InTime, NoCallback
  <2>3. ASSUME store # 0 PROVE grants'[store].left + 1 >= grants'[store].until
    <3>1. PICK left \in Nat, until \in Nat : left = grants[store].left /\ until = grants[store].until
      BY <1>0, <1>1, <2>3
    <3>2. left + 1 >= until
      BY <2>2, <2>3, <3>1 DEF InTime
    <3>3. Less1(left) + 1 >= Less1(until)
      BY <3>2 DEF Less1
    <3> QED BY <1>1, <1>14, <2>3, <3>1, <3>3, Ticked
  <2>4. ASSUME NEW c \in Callers, calls[c].pc = "saving"
        PROVE  grants'[calls[c].tok].left + calls'[c].late >= Life
    <3>1. PICK left \in Nat : left = grants[calls[c].tok].left
      BY <1>0, <1>1, <2>4
    <3>2. calls[c].late = 0 /\ calls'[c].late = 1 /\ grants'[calls[c].tok].left = Less1(left)
      BY <1>1, <1>14, <2>4, <3>1, Ticked DEF Hurry
    <3>3. left + 0 >= Life
      BY <2>2, <2>4, <3>1, <3>2 DEF InTime
    <3>4. Less1(left) + 1 >= Life
      BY <1>0, <3>3 DEF Less1
    <3> QED BY <3>2, <3>4
  <2>5. ASSUME NEW c \in Callers, calls[c].pc = "send", calls[c].tok = store
        PROVE  grants'[store].left + calls'[c].late >= 2
    <3>1. PICK left \in Nat : left = grants[store].left
      BY <1>0, <1>1, <2>5
    <3>2. calls[c].late = 0 /\ calls'[c].late = 1 /\ grants'[store].left = Less1(left)
      BY <1>1, <1>14, <2>5, <3>1, Ticked DEF Hurry
    <3>3. left + 0 >= 2
      BY <2>2, <2>5, <3>1, <3>2 DEF InTime
    <3>4. Less1(left) + 1 >= 2
      BY <3>3 DEF Less1
    <3> QED BY <3>2, <3>4
  <2> QED BY <1>14, <2>1, <2>3, <2>4, <2>5, Ticked DEF InTime, NoCallback
<1> QED
  BY <1>3, <1>4, <1>5, <1>6, <1>7, <1>8, <1>9, <1>10, <1>11, <1>12, <1>13, <1>14 DEF Next

\* getAccessToken leaves a token time enough to get to the API: none is refused
\* that the row has, for its own company.
THEOREM TokensArriveInTime ==
  ASSUME Ample PROVE Spec => NoExpiredToken
<1> DEFINE Arrives == \A c \in Callers : Unauthorized(c) =>
             astray \/ calls[c].tok # store \/ grants[calls[c].realm].realm # grants[store].realm
<1>1. Init => InTime
  BY DEF Init, InTime, NoCallback, Idle
<1>2. TypeOK /\ IInv /\ InTime /\ [Next]_vars => InTime'
  BY InTimeStep
<1>3. TypeOK /\ IInv /\ InTime => Arrives
  <2> SUFFICES ASSUME TypeOK, IInv, InTime, NEW c \in Callers, Unauthorized(c), ~astray,
                      calls[c].tok = store, grants[calls[c].realm].realm = grants[store].realm
               PROVE  FALSE
    OBVIOUS
  <2>1. calls[c].pc = "send" /\ ~Accepted(store, calls[c].realm) /\ store \in 1..issued
    BY Numbers DEF Unauthorized, IInv, Known, Granted
  <2>2. grants[store].left \in Nat /\ calls[c].late \in {0, 1}
    BY <2>1, Numbers DEF Grant, Call
  <2>3. grants[store].left + calls[c].late >= 2
    BY <2>1 DEF InTime
  <2>4. grants[store].left > 0
    BY <2>2, <2>3
  <2> QED BY <2>1, <2>4 DEF Accepted
<1>4. TypeOK /\ IInv /\ InTime /\ [Next]_vars => [Arrives]_vars
  BY <1>3
<1> QED BY <1>1, <1>2, <1>4, Inductive, PTL DEF Spec, NoExpiredToken

-----------------------------------------------------------------------------
(* The rate limit *)

\* The requests of the last minute.
Total == Len(forgotten) + Recent

\* The process may always fill its window.
Room == Len(forgotten) + Limit <= allowed

\* A call that waits for its turn and has not been passed wakes when there is
\* room: by then the request it waits for, the oldest, is a minute old.
InTurn ==
  \A c \in Callers : calls[c].pc = "waiting" /\ ~calls[c].passed =>
    \/ Total < allowed
    \/ /\ stamps # <<>> /\ calls[c].wait > 0
       /\ stamps[1] + calls[c].wait >= Window

Within == InTurn /\ Room /\ WithinLimit

\* No call begins to wait, and the window and its clocks are as they were.
Patient ==
  /\ UNCHANGED <<stamps, limits>>
  /\ \A c \in Callers : calls'[c].pc = "waiting" => calls'[c] = calls[c]

LEMMA PatientStep ==
  ASSUME Within, Patient
  PROVE  Within'
  BY DEF Within, InTurn, Room, WithinLimit, Recent, Total, Patient, limits

LEMMA Lengths ==
  ASSUME TypeOK
  PROVE  /\ Recent \in Nat /\ Len(forgotten) \in Nat /\ allowed \in Nat
         /\ Limit \in Nat \ {0} /\ Window \in Nat \ {0} /\ Total \in Nat
  BY ConstantsOK DEF ConstantsOK, TypeOK, Recent, Total

\* A request takes its place: those that wait have been passed.
LEMMA StampStep ==
  ASSUME TypeOK, Room, WithinLimit, NEW c \in Callers, NEW t \in Call, Stamp(c, t),
         t.pc = "realm", forgotten' = forgotten,
         \/ allowed' = allowed /\ (Recent < Limit \/ Total < allowed)
         \/ allowed' = allowed + 1
  PROVE  Within'
<1>1. \A d \in Callers : calls'[d].pc = "waiting" => calls'[d].passed
  BY DEF Stamp, TypeOK, Call
<1>2. Recent' = Recent + 1
  BY DEF Stamp, TypeOK, Recent
<1>3. Room' /\ WithinLimit'
  BY <1>2, Lengths DEF Room, WithinLimit, Total
<1> QED BY <1>1, <1>3 DEF Within, InTurn

LEMMA InTurnStep ==
  ASSUME TypeOK, Within, [Next]_vars
  PROVE  Within'
<1>1. CASE Connect \/ CallbackFails \/ CallbackSaved \/ CallbackNotSaved \/ UNCHANGED vars
  <2>1. Patient
    BY <1>1 DEF Patient, limits, Connect, CallbackFails, CallbackSaved, CallbackNotSaved, vars
  <2> QED BY <2>1, PatientStep
<1>2. ASSUME NEW r \in Realms, Callback(r) \/ Revoke(r) PROVE Within'
  <2>1. Patient
    BY <1>2 DEF Patient, Callback, Revoke
  <2> QED BY <2>1, PatientStep
<1>3. ASSUME NEW c \in Callers,
             \/ Begin(c) \/ ReadRealm(c) \/ ReadTokens(c) \/ TokenFresh(c) \/ BeginRefresh(c)
             \/ JoinRefresh(c) \/ RefreshGranted(c) \/ Answered(c) \/ Unauthorized(c)
      PROVE  Within'
  <2>1. UNCHANGED <<stamps, limits>>
    BY <1>3 DEF Begin, ReadRealm, ReadTokens, TokenFresh, BeginRefresh, JoinRefresh,
       RefreshGranted, Answered, Unauthorized
  <2>2. \A d \in Callers : d # c => calls'[d] = calls[d]
    BY <1>3 DEF Begin, ReadRealm, ReadTokens, TokenFresh, BeginRefresh, JoinRefresh,
       RefreshGranted, Answered, Unauthorized, TypeOK
  <2>3. calls'[c].pc # "waiting"
    <3>1. CASE Begin(c)
      BY <3>1 DEF Begin, Idle, TypeOK
    <3>2. CASE ReadRealm(c) \/ Answered(c) \/ Unauthorized(c)
      <4>1. Idle.pc = "idle"
        BY DEF Idle
      <4>2. calls \in [Callers -> Call] /\ calls[c] \in Call
        BY DEF TypeOK
      <4>3. \A n : [calls[c] EXCEPT !.pc = "tokens", !.realm = n].pc = "tokens"
        BY <4>2 DEF Call
      <4>4. \A b : [calls[c] EXCEPT !.pc = "tokens", !.forced = b].pc = "tokens"
        BY <4>2 DEF Call
      <4>5. calls'[c] \in {Idle, [calls[c] EXCEPT !.pc = "tokens", !.realm = store],
                           [calls[c] EXCEPT !.pc = "tokens", !.forced = TRUE]}
        BY <3>2, <4>2 DEF ReadRealm, Answered, Unauthorized
      <4> QED BY <4>1, <4>3, <4>4, <4>5
    <3>3. CASE ReadTokens(c) \/ TokenFresh(c)
      BY <3>3 DEF ReadTokens, TokenFresh, TypeOK, Call
    <3>4. CASE BeginRefresh(c)
      BY <3>4 DEF BeginRefresh, TypeOK, Call
    <3>5. CASE JoinRefresh(c)
      BY <3>5 DEF JoinRefresh, TypeOK, Call
    <3>6. CASE RefreshGranted(c)
      BY <3>6 DEF RefreshGranted, TypeOK, Call
    <3> QED BY <1>3, <3>1, <3>2, <3>3, <3>4, <3>5, <3>6
  <2>4. Patient
    BY <2>1, <2>2, <2>3 DEF Patient
  <2> QED BY <2>4, PatientStep
<1>4. ASSUME NEW c \in Callers,
             \/ RefreshRefused(c) \/ RefreshFails(c) \/ RefreshAnswerLost(c)
             \/ RefreshSaved(c) \/ RefreshNotSaved(c)
      PROVE  Within'
  <2>1. UNCHANGED <<stamps, limits>>
    BY <1>4 DEF RefreshRefused, RefreshFails, RefreshAnswerLost, RefreshSaved, RefreshNotSaved
  <2>2. PICK n \in Ids : Settle(c, n) /\ calls[c].pc \in {"posting", "saving"}
    BY <1>4, ConstantsOK DEF ConstantsOK, TypeOK, Call, Ids, RefreshRefused, RefreshFails,
       RefreshAnswerLost, RefreshSaved, RefreshNotSaved
  <2>3. ASSUME NEW d \in Callers PROVE calls'[d].pc = "waiting" => calls'[d] = calls[d]
    <3>1. Resumed(calls[d], n).pc # "waiting"
      BY Resumes DEF TypeOK
    <3> QED BY <2>2, <3>1 DEF Settle
  <2>4. Patient
    BY <2>1, <2>3 DEF Patient
  <2> QED BY <2>4, PatientStep
<1>5. ASSUME NEW c \in Callers, RateLimit(c) PROVE Within'
  <2> DEFINE t == [calls[c] EXCEPT !.pc = "realm"]
  <2>1. t \in Call /\ t.pc = "realm" /\ Stamp(c, t)
    BY <1>5 DEF RateLimit, TypeOK, Call, Stages
  <2>2. Recent < Limit
    BY <1>5, Lengths DEF RateLimit, Full
  <2>3. forgotten' = forgotten /\ allowed' = allowed
    BY <1>5 DEF RateLimit, limits
  <2> HIDE DEF t
  <2> QED BY <2>1, <2>2, <2>3, StampStep DEF Within
<1>6. ASSUME NEW c \in Callers, Waited(c) PROVE Within'
  <2> DEFINE t == [calls[c] EXCEPT !.pc = "realm", !.passed = FALSE]
  <2>0. calls[c] \in Call
    BY DEF TypeOK
  <2>1. t \in Call /\ t.pc = "realm"
    BY <2>0 DEF Call, Stages
  <2>2. /\ calls[c].pc = "waiting" /\ calls[c].wait = 0 /\ forgotten' = forgotten
        /\ Stamp(c, t)
    BY <1>6 DEF Waited
  <2>3. CASE calls[c].passed
    <3>1. allowed' = allowed + 1
      BY <1>6, <2>3 DEF Waited
    <3> HIDE DEF t
    <3> QED BY <2>1, <2>2, <3>1, StampStep DEF Within
  <2>4. CASE ~calls[c].passed
    <3>1. allowed' = allowed
      BY <1>6, <2>4 DEF Waited
    <3>2. ~(calls[c].wait > 0)
      BY <2>2
    <3>3. Total < allowed
      BY <2>2, <2>4, <3>2 DEF Within, InTurn
    <3> HIDE DEF t
    <3> QED BY <2>1, <2>2, <3>1, <3>3, StampStep DEF Within
  <2> QED BY <2>3, <2>4
<1>7. ASSUME NEW c \in Callers, RateWait(c) PROVE Within'
  <2>1. /\ UNCHANGED <<stamps, forgotten, allowed>> /\ Recent >= Limit
        /\ calls' = [calls EXCEPT ![c] = [calls[c] EXCEPT !.pc = "waiting", !.wait = Window - stamps[1]]]
    BY <1>7 DEF RateWait, Full, limits
  <2>2. stamps # <<>> /\ stamps[1] \in 0..(Window - 1)
    BY <2>1, Oldest DEF Full, TypeOK
  <2>3. calls'[c].wait = Window - stamps[1] /\ \A d \in Callers : d # c => calls'[d] = calls[d]
    BY <2>1 DEF TypeOK, Call
  <2>4. calls'[c].wait > 0 /\ stamps[1] + calls'[c].wait >= Window
    BY <2>2, <2>3, ConstantsOK DEF ConstantsOK
  <2> QED BY <2>1, <2>2, <2>3, <2>4 DEF Within, InTurn, Room, WithinLimit, Recent, Total
<1>8. CASE Crash
  <2>1. /\ stamps' = <<>> /\ forgotten' = forgotten \o stamps
        /\ allowed' = IF stamps = <<>> THEN allowed ELSE allowed + Limit
        /\ \A c \in Callers : calls'[c].pc = "idle"
    BY <1>8 DEF Crash, Idle
  <2>2. Recent' = 0 /\ Len(forgotten') = Total
    BY <2>1 DEF TypeOK, Recent, Total
  <2>3. CASE stamps = <<>>
    <3>1. Recent = 0 /\ allowed' = allowed
      BY <2>1, <2>3 DEF Recent
    <3> QED BY <2>1, <2>2, <3>1, Lengths DEF Within, InTurn, Room, WithinLimit, Total
  <2>4. CASE stamps # <<>>
    <3>1. allowed' = allowed + Limit
      BY <2>1, <2>4
    <3> QED BY <2>1, <2>2, <3>1, Lengths DEF Within, InTurn, Room, WithinLimit, Total
  <2> QED BY <2>3, <2>4
<1>9. CASE Tick
  <2>1. /\ Aged(stamps, stamps') /\ stamps \in Seq(0..(Window - 1))
        /\ Aged(forgotten, forgotten') /\ forgotten \in Seq(0..(Window - 1))
        /\ allowed' = IF forgotten' = <<>> /\ Recent' < Limit THEN Limit ELSE allowed
    BY <1>9 DEF Tick, TypeOK
  <2>2. \A c \in Callers : /\ calls'[c].pc = calls[c].pc /\ calls'[c].passed = calls[c].passed
                           /\ calls'[c].wait = Less1(calls[c].wait)
    BY <1>9 DEF Tick, TypeOK, Call
  <2>3. /\ Recent' <= Recent /\ Recent' \in Nat
        /\ Len(forgotten') <= Len(forgotten) /\ Len(forgotten') \in Nat
    BY <2>1, Ages DEF Recent
  <2>4. CASE forgotten' = <<>> /\ Recent' < Limit
    <3>1. allowed' = Limit /\ Len(forgotten') = 0
      BY <2>1, <2>4
    <3>2. Total' < allowed'
      BY <2>3, <2>4, <3>1, Lengths DEF Total
    <3>3. Room' /\ WithinLimit'
      BY <2>3, <2>4, <3>1, Lengths DEF Room, WithinLimit
    <3> QED BY <3>2, <3>3 DEF Within, InTurn
  <2>5. CASE ~(forgotten' = <<>> /\ Recent' < Limit)
    <3>0. allowed' = allowed
      BY <2>1, <2>5
    <3>1. Room' /\ WithinLimit'
      BY <2>3, <3>0, Lengths DEF Within, Room, WithinLimit
    <3>2. ASSUME NEW c \in Callers, calls[c].pc = "waiting", ~calls[c].passed
          PROVE  \/ Total' < allowed
                 \/ /\ stamps' # <<>> /\ calls'[c].wait > 0
                    /\ stamps'[1] + calls'[c].wait >= Window
      <4>1. CASE Total < allowed \/ Recent' < Recent
        BY <2>3, <4>1, Lengths DEF Within, WithinLimit, Total
      <4>2. CASE ~(Total < allowed) /\ ~(Recent' < Recent)
        <5>1. stamps # <<>> /\ calls[c].wait > 0 /\ stamps[1] + calls[c].wait >= Window
          BY <3>2, <4>2 DEF Within, InTurn
        <5>2. stamps[1] < Window - 1 /\ stamps' # <<>> /\ stamps'[1] = stamps[1] + 1
          BY <2>1, <4>2, <5>1, Ages DEF Recent
        <5>3. stamps[1] \in Nat /\ calls[c].wait \in Nat
          <6>1. 1 \in 1..Len(stamps)
            BY <2>1, <5>1
          <6>2. stamps[1] \in 0..(Window - 1)
            BY <2>1, <6>1, ElementOfSeq
          <6>3. calls[c] \in Call
            BY DEF TypeOK
          <6> QED BY <6>2, <6>3, Lengths DEF Call
        <5>4. PICK wait \in Nat, first \in Nat : wait = calls[c].wait /\ first = stamps[1]
          BY <5>3
        <5>5. PICK window \in Nat : window = Window
          BY Lengths
        <5>6. wait > 0 /\ first + wait >= window /\ first < window - 1
          BY <5>1, <5>2, <5>4, <5>5
        <5>7. Less1(wait) > 0 /\ (first + 1) + Less1(wait) >= window
          BY <5>6 DEF Less1
        <5> QED BY <2>2, <5>2, <5>4, <5>5, <5>7
      <4> QED BY <4>1, <4>2
    <3> QED BY <2>2, <3>0, <3>1, <3>2 DEF Within, InTurn
  <2> QED BY <2>4, <2>5
<1> QED
  BY <1>1, <1>2, <1>3, <1>4, <1>5, <1>6, <1>7, <1>8, <1>9 DEF Next

\* Of all requests let through in the last minute there are no more than Limit,
\* and what restarts and calls that were passed as they waited add: the request
\* that a call waited for is out of the window when it wakes unless it was
\* passed, and a restart forgets no more than were allowed before it.
THEOREM LimitKept == Spec => []WithinLimit
<1>1. Init => Within
  BY ConstantsOK DEF ConstantsOK, Init, Within, InTurn, Room, WithinLimit, Recent, Idle
<1>2. TypeOK /\ Within /\ [Next]_vars => Within'
  BY InTurnStep
<1>3. Within => WithinLimit
  BY DEF Within
<1> QED BY <1>1, <1>2, <1>3, Inductive, PTL DEF Spec
=============================================================================
