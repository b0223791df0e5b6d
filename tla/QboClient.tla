------------------------------ MODULE QboClient ------------------------------
(***************************************************************************)
(* Calls to the QuickBooks API and the OAuth tokens they carry:            *)
(* src/src/providers/quickbooks/qboClient.ts (request, rateLimit),         *)
(* qboAuth.ts (authorize, callback, refresh) and the one row of            *)
(* providerTokenRepository.ts.  One process; every await is a step.        *)
(*                                                                         *)
(* Intuit gives out grants, numbered as they are given: grant n is an      *)
(* access token, good while `left` of it is, and a refresh token, good     *)
(* while it is the `current` one of its company.  The process keeps grants *)
(* by their number; `until` is what is left until the instant it has       *)
(* stored as accessTokenExpiresAt.                                         *)
(***************************************************************************)
EXTENDS Integers, FiniteSets, Sequences

CONSTANTS
  Callers,       \* provider calls that may run at once
  Realms,        \* companies an operator may connect
  Life,          \* expires_in of an access token, in ticks
  Margin,        \* the 3 minutes of getAccessToken, in ticks
  Window,        \* the minute of rateLimit, in ticks
  Limit,         \* RATE_LIMIT_PER_MINUTE
  Faults,        \* the faults of AllFaults that may happen
  MaxFaults,     \* bound: faults in a behaviour
  MaxCalls,      \* bound: calls in a behaviour
  MaxGrants,     \* bound: grants given out
  MaxConnects,   \* bound: authorizations begun
  None           \* nobody

AllFaults == {"crash", "unreachable", "lost_answer", "db_error", "revoked"}

ASSUME ConstantsOK ==
  /\ Life \in Nat \ {0} /\ Margin \in Nat
  /\ Window \in Nat \ {0} /\ Limit \in Nat \ {0}
  /\ Faults \subseteq AllFaults /\ None \notin Callers
  /\ MaxFaults \in Nat /\ MaxCalls \in Nat /\ MaxGrants \in Nat /\ MaxConnects \in Nat

VARIABLES
  store,       \* the provider_tokens row: the grant it holds, 0 when there is none
  grants,      \* what has been given out
  issued,      \* how many grants that is
  current,     \* Intuit: the grant whose refresh token each company accepts
  calls,       \* the call of each caller
  refreshing,  \* refreshInFlight: the caller that began it, or None
  stamps,      \* requestTimestamps by age, the oldest first
  states,      \* pendingStates: how many
  callback,    \* the OAuth callback in progress
  made, connects, faults,
  \* History, read by properties only:
  connected,   \* the company that was connected last
  astray,      \* a fault or a race has come between Intuit and the row
  forgotten,   \* by age, the requests of the last minute that were let through
               \* before a restart: requestTimestamps has lost them
  allowed      \* how many requests may have been let through in the last minute

auth == <<store, grants, issued, current, refreshing, states, callback, connects,
          connected, astray>>
limits == <<forgotten, allowed>>
vars == <<store, grants, issued, current, calls, refreshing, stamps, states, callback,
          made, connects, faults, connected, astray, forgotten, allowed>>

-----------------------------------------------------------------------------
(* Types *)

Grant == [realm : Realms, left : 0..Life, until : 0..Life]
Ids   == 0..MaxGrants

Stages == {"idle", "limit", "waiting", "realm", "tokens", "use", "posting", "saving",
           "joined", "send"}

\* A call: the grants it read for its company and for its tokens, whether it
\* is in the refresh and the retry that follow a 401, its clocks (ticks to wait
\* for the rate limit, ticks since it took its token or was answered) and what
\* happened meanwhile: another call passed it as it waited, other tokens were
\* saved after it read those it refreshes.
Call == [pc : Stages, realm : Ids, tok : Ids, forced : BOOLEAN, again : BOOLEAN,
         wait : 0..Window, late : 0..1, passed : BOOLEAN, outdated : BOOLEAN]

Idle == [pc |-> "idle", realm |-> 0, tok |-> 0, forced |-> FALSE, again |-> FALSE,
         wait |-> 0, late |-> 0, passed |-> FALSE, outdated |-> FALSE]

NoCallback == [pc |-> "idle", id |-> 0]

\* A refresh in flight has an owner at work on it, and nobody waits for none.
TypeOK ==
  /\ store \in Ids /\ issued \in Ids /\ grants \in [1..issued -> Grant]
  /\ store <= issued /\ current \in [Realms -> 0..issued]
  /\ calls \in [Callers -> Call]
  /\ refreshing \in Callers \cup {None}
  /\ \A c \in Callers :
       /\ refreshing = c => calls[c].pc \in {"posting", "saving"}
       /\ calls[c].pc = "joined" => refreshing # None
  /\ stamps \in Seq(0..(Window - 1))
  /\ states \in 0..MaxConnects
  /\ callback \in [pc : {"idle", "save"}, id : Ids]
  /\ made \in 0..MaxCalls /\ connects \in 0..MaxConnects /\ faults \in 0..MaxFaults
  /\ connected \in Realms \cup {None} /\ astray \in BOOLEAN
  /\ forgotten \in Seq(0..(Window - 1)) /\ allowed \in Nat

Init ==
  /\ store = 0 /\ grants = <<>> /\ issued = 0
  /\ current = [r \in Realms |-> 0]
  /\ calls = [c \in Callers |-> Idle] /\ refreshing = None
  /\ stamps = <<>>
  /\ states = 0 /\ callback = NoCallback
  /\ made = 0 /\ connects = 0 /\ faults = 0
  /\ connected = None /\ astray = FALSE
  /\ forgotten = <<>> /\ allowed = Limit

Fault(f) == f \in Faults /\ faults < MaxFaults /\ faults' = faults + 1

Quiet == UNCHANGED <<made, connects, faults>>

-----------------------------------------------------------------------------
(* Intuit *)

\* The token endpoint gives out a grant for company r: its refresh token
\* replaces the one before.
Give(r) ==
  /\ issued < MaxGrants
  /\ issued' = issued + 1
  /\ grants' = [n \in 1..(issued + 1) |->
                  IF n <= issued THEN grants[n] ELSE [realm |-> r, left |-> Life, until |-> 0]]
  /\ current' = [current EXCEPT ![r] = issued + 1]

\* The API accepts the token n for the company of grant m.
Accepted(n, m) == grants[n].left > 0 /\ grants[n].realm = grants[m].realm

\* The user disconnects the app: every token of the company is void.
Revoke(r) ==
  /\ current[r] # 0
  /\ Fault("revoked")
  /\ current' = [current EXCEPT ![r] = 0]
  /\ grants' = [n \in 1..issued |-> IF grants[n].realm = r THEN [grants[n] EXCEPT !.left = 0]
                                    ELSE grants[n]]
  /\ astray' = TRUE
  /\ UNCHANGED <<store, issued, calls, refreshing, stamps, states, callback, made, connects,
                 connected, limits>>

-----------------------------------------------------------------------------
(* Connecting: qboAuthController, buildAuthorizeUrl and handleCallback *)

Connect ==
  /\ connects < MaxConnects
  /\ connects' = connects + 1 /\ states' = states + 1
  /\ UNCHANGED <<store, grants, issued, current, calls, refreshing, stamps, callback, made,
                 faults, connected, astray, limits>>

\* The state is taken out of pendingStates; a callback with an unknown one is
\* refused and changes nothing.  Intuit exchanges the code.
Callback(r) ==
  /\ states > 0 /\ callback = NoCallback
  /\ states' = states - 1
  /\ Give(r)
  /\ callback' = [pc |-> "save", id |-> issued + 1]
  /\ astray' = (astray \/ refreshing # None)
  /\ UNCHANGED <<store, calls, refreshing, stamps, connected, limits>> /\ Quiet

\* The code is not exchanged.
CallbackFails ==
  /\ states > 0 /\ callback = NoCallback
  /\ Fault("unreachable")
  /\ states' = states - 1
  /\ UNCHANGED <<store, grants, issued, current, calls, refreshing, stamps, callback, made,
                 connects, connected, astray, limits>>

\* saveTokens: the expiry is counted from the answer's arrival.
Stored(n) == grants' = [grants EXCEPT ![n].until = Life]

\* A connection that no refresh runs beside is a new start.
CallbackSaved ==
  /\ callback.pc = "save"
  /\ store' = callback.id /\ Stored(callback.id)
  /\ callback' = NoCallback
  /\ connected' = grants[callback.id].realm
  /\ astray' = (refreshing # None \/ current[grants[callback.id].realm] # callback.id)
  /\ UNCHANGED <<issued, current, calls, refreshing, stamps, states, limits>> /\ Quiet

CallbackNotSaved ==
  /\ callback.pc = "save"
  /\ Fault("db_error")
  /\ callback' = NoCallback /\ astray' = TRUE
  /\ UNCHANGED <<store, grants, issued, current, calls, refreshing, stamps, states, made,
                 connects, connected, limits>>

-----------------------------------------------------------------------------
(* The rate limit *)

Recent == Len(stamps)

\* A tick later, without those that are a minute old: rateLimit filters when it
\* looks, and they count no more from this tick on.
Aged(s, aged) ==
  \E old \in 0..Len(s) :
    /\ \A i \in 1..Len(s) : i <= old <=> s[i] = Window - 1
    /\ aged = [i \in 1..(Len(s) - old) |-> s[i + old] + 1]

\* The call takes its place in the window; those that wait have been passed.
Stamp(c, call) ==
  /\ stamps' = Append(stamps, 0)
  /\ calls' = [d \in Callers |-> IF d = c THEN call
                                 ELSE [calls[d] EXCEPT !.passed = @ \/ calls[d].pc = "waiting"]]

Begin(c) ==
  /\ calls[c].pc = "idle" /\ made < MaxCalls
  /\ calls' = [calls EXCEPT ![c] = [Idle EXCEPT !.pc = "limit"]]
  /\ made' = made + 1
  /\ UNCHANGED <<auth, stamps, faults, limits>>

\* Mutant of Full: one request too many.
FullLate == Recent > Limit

Full == Recent >= Limit

RateLimit(c) ==
  /\ calls[c].pc = "limit" /\ ~Full
  /\ Stamp(c, [calls[c] EXCEPT !.pc = "realm"])
  /\ UNCHANGED <<auth, made, faults, limits>>

\* setTimeout, until the oldest request has left the window.
RateWait(c) ==
  /\ calls[c].pc = "limit" /\ Full
  /\ calls' = [calls EXCEPT ![c] = [@ EXCEPT !.pc = "waiting", !.wait = Window - stamps[1]]]
  /\ UNCHANGED <<auth, stamps, made, faults, limits>>

\* The window is not looked at again.
Waited(c) ==
  /\ calls[c].pc = "waiting" /\ calls[c].wait = 0
  /\ Stamp(c, [calls[c] EXCEPT !.pc = "realm", !.passed = FALSE])
  /\ allowed' = IF calls[c].passed THEN allowed + 1 ELSE allowed
  /\ UNCHANGED <<auth, made, faults, forgotten>>

-----------------------------------------------------------------------------
(* Tokens *)

\* getRealmId; a process that is not connected throws.
ReadRealm(c) ==
  /\ calls[c].pc = "realm"
  /\ calls' = [calls EXCEPT ![c] = IF store = 0 THEN Idle
                                   ELSE [@ EXCEPT !.pc = "tokens", !.realm = store]]
  /\ UNCHANGED <<auth, stamps, made, faults, limits>>

\* requireTokens of getAccessToken and of forceRefresh: the row is read here
\* and used when the call runs again.
ReadTokens(c) ==
  /\ calls[c].pc = "tokens"
  /\ calls' = [calls EXCEPT ![c] = [@ EXCEPT !.pc = "use", !.tok = store]]
  /\ UNCHANGED <<auth, stamps, made, faults, limits>>

\* Mutant of FreshEnough: no margin.
FreshToTheLast(n) == grants[n].until > 0

FreshEnough(n) == grants[n].until > Margin

TokenFresh(c) ==
  /\ calls[c].pc = "use" /\ ~calls[c].forced /\ FreshEnough(calls[c].tok)
  /\ calls' = [calls EXCEPT ![c] = [@ EXCEPT !.pc = "send", !.late = 0]]
  /\ UNCHANGED <<auth, stamps, made, faults, limits>>

NeedsRefresh(c) ==
  calls[c].pc = "use" /\ (calls[c].forced \/ ~FreshEnough(calls[c].tok))

\* Mutant of Joins: every call refreshes for itself.
JoinsNever == FALSE

\* A call that finds a refresh in flight waits for it.
Joins == refreshing # None

\* refresh: the caller that finds none in flight begins it, with the tokens it
\* has read.
BeginRefresh(c) ==
  /\ NeedsRefresh(c) /\ ~Joins
  /\ calls' = [calls EXCEPT ![c] = [@ EXCEPT !.pc = "posting", !.outdated = calls[c].tok # store]]
  /\ refreshing' = c
  /\ astray' = \/ astray \/ callback # NoCallback
               \/ grants[calls[c].tok].realm # grants[store].realm
  /\ UNCHANGED <<store, grants, issued, current, stamps, states, callback, connected,
                 limits>> /\ Quiet

JoinRefresh(c) ==
  /\ NeedsRefresh(c) /\ Joins
  /\ calls' = [calls EXCEPT ![c].pc = "joined"]
  /\ UNCHANGED <<auth, stamps, made, faults, limits>>

\* refreshInFlight settles: its owner and the callers that joined go on with
\* the grant n, or throw (n = 0).  After a forced one the call is made again.
Resumed(call, n) ==
  IF n = 0 THEN Idle
  ELSE IF call.forced THEN [Idle EXCEPT !.pc = "limit", !.again = TRUE]
  ELSE [call EXCEPT !.pc = "send", !.tok = n, !.late = 0, !.outdated = FALSE]

\* Mutant of Settle: the promise is kept when the request is refused.
SettleKeeps(c, n) ==
  /\ calls' = [d \in Callers |-> IF d = c \/ calls[d].pc = "joined" THEN Resumed(calls[d], n)
                                 ELSE calls[d]]
  /\ refreshing' = IF n = 0 THEN refreshing ELSE None

Settle(c, n) ==
  /\ calls' = [d \in Callers |-> IF d = c \/ calls[d].pc = "joined" THEN Resumed(calls[d], n)
                                 ELSE calls[d]]
  /\ refreshing' = None

\* The token endpoint knows the refresh token, and gives the next one.
RefreshGranted(c) ==
  /\ calls[c].pc = "posting"
  /\ current[grants[calls[c].tok].realm] = calls[c].tok
  /\ Give(grants[calls[c].tok].realm)
  /\ calls' = [calls EXCEPT ![c] = [@ EXCEPT !.pc = "saving", !.tok = issued + 1, !.late = 0]]
  /\ UNCHANGED <<store, refreshing, stamps, states, callback, connected, astray,
                 limits>> /\ Quiet

\* It is no longer the current one.
RefreshRefused(c) ==
  /\ calls[c].pc = "posting"
  /\ current[grants[calls[c].tok].realm] # calls[c].tok
  /\ Settle(c, 0)
  /\ UNCHANGED <<store, grants, issued, current, stamps, states, callback, connected, astray,
                 limits>> /\ Quiet

\* The request does not arrive, or its answer is an error of the endpoint.
RefreshFails(c) ==
  /\ calls[c].pc = "posting"
  /\ Fault("unreachable")
  /\ Settle(c, 0)
  /\ UNCHANGED <<store, grants, issued, current, stamps, states, callback, made, connects,
                 connected, astray, limits>>

\* The token was rotated, and the answer is lost or times out.
RefreshAnswerLost(c) ==
  /\ calls[c].pc = "saving"
  /\ Fault("lost_answer")
  /\ Settle(c, 0)
  /\ astray' = TRUE
  /\ UNCHANGED <<store, grants, issued, current, stamps, states, callback, made, connects,
                 connected, limits>>

\* Mutant of RefreshSaved: the callers get the tokens, the row does not.
RefreshUnsaved(c) ==
  /\ calls[c].pc = "saving"
  /\ Stored(calls[c].tok) /\ Settle(c, calls[c].tok)
  /\ UNCHANGED <<store, issued, current, stamps, states, callback, connected, astray,
                 limits>> /\ Quiet

RefreshSaved(c) ==
  /\ calls[c].pc = "saving"
  /\ store' = calls[c].tok /\ Stored(calls[c].tok)
  /\ Settle(c, calls[c].tok)
  /\ UNCHANGED <<issued, current, stamps, states, callback, connected, astray,
                 limits>> /\ Quiet

RefreshNotSaved(c) ==
  /\ calls[c].pc = "saving"
  /\ Fault("db_error")
  /\ Settle(c, 0)
  /\ astray' = TRUE
  /\ UNCHANGED <<store, grants, issued, current, stamps, states, callback, made, connects,
                 connected, limits>>

-----------------------------------------------------------------------------
(* The request *)

\* Any answer but a 401, or none: request returns or throws.
Answered(c) ==
  /\ calls[c].pc = "send"
  /\ calls' = [calls EXCEPT ![c] = Idle]
  /\ UNCHANGED <<auth, stamps, made, faults, limits>>

\* A 401: the first one is followed by a forced refresh, the second thrown.
Unauthorized(c) ==
  /\ calls[c].pc = "send" /\ ~Accepted(calls[c].tok, calls[c].realm)
  /\ calls' = [calls EXCEPT ![c] = IF calls[c].again THEN Idle
                                   ELSE [@ EXCEPT !.pc = "tokens", !.forced = TRUE]]
  /\ UNCHANGED <<auth, stamps, made, faults, limits>>

-----------------------------------------------------------------------------
(* The process and time *)

\* What is in memory is gone, a grant on its way to the row and the requests of
\* the last minute included: the next process counts from none.
Crash ==
  /\ Fault("crash")
  /\ calls' = [c \in Callers |-> Idle] /\ refreshing' = None
  /\ stamps' = <<>> /\ forgotten' = forgotten \o stamps
  /\ allowed' = IF stamps = <<>> THEN allowed ELSE allowed + Limit
  /\ states' = 0 /\ callback' = NoCallback
  /\ astray' = (astray \/ callback.pc = "save" \/ \E c \in Callers : calls[c].pc = "saving")
  /\ UNCHANGED <<store, grants, issued, current, made, connects, connected>>

Less1(n) == IF n > 0 THEN n - 1 ELSE 0

\* An answer reaches the row, and a token the API, within a tick (an answer to
\* the callback within the same one): the timeouts of fetch are together
\* shorter than the margin.
Hurry(c) == calls[c].pc \in {"saving", "send"}

Tick ==
  /\ \/ \E n \in 1..issued : grants[n].left > 0 \/ grants[n].until > 0
     \/ Recent > 0 \/ forgotten # <<>>
  /\ \A c \in Callers : ~(Hurry(c) /\ calls[c].late = 1)
  /\ callback = NoCallback
  /\ grants' = [n \in 1..issued |-> [grants[n] EXCEPT !.left = Less1(@), !.until = Less1(@)]]
  /\ Aged(stamps, stamps') /\ Aged(forgotten, forgotten')
  /\ allowed' = IF forgotten' = <<>> /\ Recent' < Limit THEN Limit ELSE allowed
  /\ calls' = [c \in Callers |-> [calls[c] EXCEPT !.wait = Less1(@),
                                                 !.late = IF Hurry(c) THEN 1 ELSE @]]
  /\ UNCHANGED <<store, issued, current, refreshing, states, callback, connected, astray>> /\ Quiet

-----------------------------------------------------------------------------
Next ==
  \/ Connect \/ CallbackFails \/ CallbackSaved \/ CallbackNotSaved
  \/ \E r \in Realms : Callback(r) \/ Revoke(r)
  \/ \E c \in Callers :
       \/ Begin(c) \/ RateLimit(c) \/ RateWait(c) \/ Waited(c)
       \/ ReadRealm(c) \/ ReadTokens(c) \/ TokenFresh(c)
       \/ BeginRefresh(c) \/ JoinRefresh(c)
       \/ RefreshGranted(c) \/ RefreshRefused(c) \/ RefreshFails(c)
       \/ RefreshAnswerLost(c) \/ RefreshSaved(c) \/ RefreshNotSaved(c)
       \/ Answered(c) \/ Unauthorized(c)
  \/ Crash \/ Tick

Spec == Init /\ [][Next]_vars

-----------------------------------------------------------------------------
(* Properties *)

\* The connection is not lost: the row has the refresh token that Intuit will
\* accept next, of the company connected last, whenever no new one is on its
\* way to the row; a fault, or a connection made while a refresh of the one
\* before was in flight or about to begin, may part them.
StoreIsCurrent ==
  /\ ~astray /\ store # 0 /\ callback = NoCallback
  /\ \A c \in Callers : calls[c].pc # "saving"
  => /\ current[grants[store].realm] = store
     /\ connected = grants[store].realm

\* qboAuth.ts:70 ("Serialize concurrent refreshes"): of calls that need new
\* tokens at once none presents a refresh token that another has used up,
\* unless it read the row before the other saved, and goes on only after.
RefreshesSerialized ==
  [][\A c \in Callers : RefreshRefused(c) => astray \/ calls[c].outdated]_vars

\* A request is not refused for the token the row has: getAccessToken has left
\* it time enough to get there.
NoExpiredToken ==
  [][\A c \in Callers : Unauthorized(c) =>
       astray \/ calls[c].tok # store \/ grants[calls[c].realm].realm # grants[store].realm]_vars

\* "Stay under it" (qboClient.ts:16), of all requests that rateLimit let
\* through in the last minute, those of the processes before a restart
\* included.  They are no more than Limit; but a restart forgets those before
\* it, and lets Limit more through, and a call that waited does not look again
\* when it wakes, so each one that was passed meanwhile is one more.  The
\* excess is gone when the process again knows all requests of the last minute
\* and has room for one.
WithinLimit == Len(forgotten) + Recent <= allowed
=============================================================================
