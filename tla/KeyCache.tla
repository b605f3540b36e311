------------------------------ MODULE KeyCache ------------------------------
(***************************************************************************)
(* The signing-key cache of TokenValidator (src/src/oidc.rs): tokens name  *)
(* the key that signed them, keys are fetched from the provider, absent    *)
(* key ids are remembered for a while, and one request at a time refreshes *)
(* the cache while the others wait for it.                                 *)
(*                                                                         *)
(* A step is one critical section of the cache's mutex, a move of the      *)
(* refresh mutex (fair, as tokio's is) or a move of the provider.  An      *)
(* Instant is modelled by the time elapsed since, counted up to the value  *)
(* from which on it makes no difference.                                   *)
(***************************************************************************)
EXTENDS Integers, FiniteSets, SequencesExt

CONSTANTS
  Requests,         \* tasks inside TokenValidator::key
  Free,             \* the refresh mutex is with nobody
  Kids,             \* key ids named by tokens
  ProviderKids,     \* those among them the provider may publish
  Ttl,              \* JWKS_TTL
  RefreshInterval,  \* JWKS_REFRESH_INTERVAL
  FailureBackoff,   \* FETCH_FAILURE_BACKOFF
  UnknownTtl,       \* UNKNOWN_KID_TTL
  UnknownCap,       \* UNKNOWN_KID_CAP
  FetchTimeout,     \* FETCH_TIMEOUT
  ProviderMayFail,  \* whether fetches may fail
  MaxRotations      \* bound on the changes of the published set

ASSUME RequestsAssumption == Free \notin Requests
ASSUME KidsAssumption == IsFiniteSet(Kids) /\ ProviderKids \subseteq Kids
ASSUME TimesAssumption ==
  /\ {Ttl, RefreshInterval, FailureBackoff, UnknownTtl, UnknownCap, FetchTimeout,
      MaxRotations} \subseteq Nat
  /\ 0 < RefreshInterval /\ RefreshInterval <= Ttl
  /\ FailureBackoff <= RefreshInterval
  /\ ProviderMayFail \in BOOLEAN

VARIABLES
  published, changed, rotations,  \* the provider's keys; since when each is in or out
  cache,            \* KeyState.cache: the keys and the time since fetched_at
  unknown,          \* KeyState.unknown_kids: time since each absent id was seen
  failure,          \* time since KeyState.last_failure, FailureBackoff if none
  owner, waiting,   \* the refresh mutex and its queue
  pc, kid, answer,  \* each request: where it is, its key id, what it returned
  arriving,         \* the key set on its way from the provider, and for how long
  ended, sinceStart \* history: the last refresh to end, the last one to start

providerVars == <<published, changed, rotations>>
stateVars == <<cache, unknown, failure>>
mutexVars == <<owner, waiting>>
historyVars == <<ended, sinceStart>>
vars == <<providerVars, stateVars, mutexVars, pc, kid, answer, arriving, historyVars>>

Larger(a, b) == IF a >= b THEN a ELSE b
RevokedBound == Ttl + FetchTimeout
NoticedBound == FetchTimeout + RefreshInterval + UnknownTtl
MaxChanged == Larger(RevokedBound, NoticedBound)
NoCache == [keys |-> {}, age |-> Ttl]
Nothing == [keys |-> {}, age |-> 0]

-----------------------------------------------------------------------------
(* inspect_key_state and remember_unknown.                                 *)

Retained == [k \in {j \in DOMAIN unknown : unknown[j] < UnknownTtl} |-> unknown[k]]

(* remember_unknown.  The variant has no cap.                              *)
RememberUncapped(u, k) == [j \in DOMAIN u \cup {k} |-> IF j = k THEN 0 ELSE u[j]]
Remember(u, k) ==
  IF k \in DOMAIN u \/ Cardinality(DOMAIN u) < UnknownCap
  THEN [j \in DOMAIN u \cup {k} |-> IF j = k THEN 0 ELSE u[j]]
  ELSE u

Fresh == cache.age < Ttl
Cached(k) == Fresh /\ k \in cache.keys
JustFetched(k) == Fresh /\ k \notin cache.keys /\ cache.age < RefreshInterval
BackingOff == failure < FailureBackoff

(* A variant that looks at the last failure before it looks in the cache.  *)
VerdictFailureFirst(k) ==
  IF k \in DOMAIN Retained THEN "unknown"
  ELSE IF BackingOff THEN "unavailable"
  ELSE IF Cached(k) THEN "key"
  ELSE IF JustFetched(k) THEN "unknown" ELSE "refresh"
Verdict(k) ==
  IF k \in DOMAIN Retained THEN "unknown"
  ELSE IF Cached(k) THEN "key"
  ELSE IF JustFetched(k) THEN "unknown"
  ELSE IF BackingOff THEN "unavailable" ELSE "refresh"

(* What an inspection leaves in unknown_kids.  The variant renews the      *)
(* memory of an absent key each time somebody asks for it.                 *)
InspectedRenewing(k) == IF Verdict(k) = "unknown" THEN Remember(Retained, k) ELSE Retained
Inspected(k) ==
  IF Verdict(k) = "unknown" /\ k \notin DOMAIN Retained
  THEN Remember(Retained, k) ELSE Retained

-----------------------------------------------------------------------------
Init ==
  /\ published \in SUBSET ProviderKids /\ rotations = 0
  /\ changed = [k \in ProviderKids |-> MaxChanged]
  /\ cache = NoCache /\ unknown = [k \in {} |-> 0] /\ failure = FailureBackoff
  /\ owner = Free /\ waiting = <<>>
  /\ pc = [p \in Requests |-> "idle"] /\ answer = [p \in Requests |-> "none"]
  /\ kid \in [Requests -> Kids]
  /\ arriving = Nothing
  /\ ended = [outcome |-> "never", age |-> RefreshInterval] /\ sinceStart = RefreshInterval

(* A request that ends drops the guard of the refresh mutex, which goes to *)
(* the next in line.                                                       *)
Release(p) ==
  IF waiting = <<>>
  THEN owner' = Free /\ pc' = [pc EXCEPT ![p] = "idle"] /\ UNCHANGED waiting
  ELSE /\ owner' = Head(waiting) /\ waiting' = Tail(waiting)
       /\ pc' = [pc EXCEPT ![p] = "idle", ![Head(waiting)] = "recheck"]

Return(p, r) == answer' = [answer EXCEPT ![p] = r]

(* A token arrives; validate calls key with the id in its header.          *)
Ask(p) ==
  \E k \in Kids :
    /\ pc[p] = "idle" /\ pc' = [pc EXCEPT ![p] = "inspect"]
    /\ kid' = [kid EXCEPT ![p] = k] /\ Return(p, "none")
    /\ UNCHANGED <<providerVars, stateVars, mutexVars, arriving, historyVars>>

(* The first look at the cache, without the refresh mutex.                 *)
Inspect(p) ==
  /\ pc[p] = "inspect"
  /\ unknown' = Inspected(kid[p])
  /\ IF Verdict(kid[p]) = "refresh"
     THEN pc' = [pc EXCEPT ![p] = "lock"] /\ UNCHANGED answer
     ELSE pc' = [pc EXCEPT ![p] = "idle"] /\ Return(p, Verdict(kid[p]))
  /\ UNCHANGED <<providerVars, cache, failure, mutexVars, kid, arriving, historyVars>>

(* refresh.lock().                                                         *)
LockRefresh(p) ==
  /\ pc[p] = "lock"
  /\ IF owner = Free
     THEN owner' = p /\ pc' = [pc EXCEPT ![p] = "recheck"] /\ UNCHANGED waiting
     ELSE /\ waiting' = Append(waiting, p) /\ pc' = [pc EXCEPT ![p] = "wait"]
          /\ UNCHANGED owner
  /\ UNCHANGED <<providerVars, stateVars, kid, answer, arriving, historyVars>>

StartFetch(p) ==
  /\ pc' = [pc EXCEPT ![p] = "fetch"] /\ sinceStart' = 0
  /\ UNCHANGED <<answer, mutexVars, ended>>

(* A variant without the second look.                                      *)
RecheckSkipped(p) ==
  /\ pc[p] = "recheck" /\ StartFetch(p)
  /\ UNCHANGED <<providerVars, stateVars, kid, arriving>>

(* The second look, as the owner of the refresh: the request may have      *)
(* waited for a refresh that brought its answer.                           *)
Recheck(p) ==
  /\ pc[p] = "recheck"
  /\ unknown' = Inspected(kid[p])
  /\ IF Verdict(kid[p]) = "refresh"
     THEN StartFetch(p)
     ELSE Release(p) /\ Return(p, Verdict(kid[p])) /\ UNCHANGED historyVars
  /\ UNCHANGED <<providerVars, cache, failure, kid, arriving>>

(* The provider answers the request for its JWKS with its keys of now; the *)
(* answer takes up to FetchTimeout to arrive.                              *)
Serve(p) ==
  /\ pc[p] = "fetch" /\ pc' = [pc EXCEPT ![p] = "arriving"]
  /\ arriving' = [keys |-> published, age |-> 0]
  /\ UNCHANGED <<providerVars, stateVars, mutexVars, kid, answer, historyVars>>

(* The keys the cache gets; the variant keeps the old ones too.            *)
OldAndNewKeys == cache.keys \cup arriving.keys
NewKeys == arriving.keys

(* fetch_keys has succeeded.                                               *)
StoreKeys(p) ==
  LET found == kid[p] \in arriving.keys IN
  /\ pc[p] = "arriving"
  /\ cache' = [keys |-> NewKeys, age |-> 0]
  /\ failure' = FailureBackoff
  /\ unknown' = IF found THEN unknown ELSE Remember(unknown, kid[p])
  /\ Return(p, IF found THEN "key" ELSE "unknown")
  /\ Release(p)
  /\ arriving' = Nothing /\ ended' = [outcome |-> "ok", age |-> 0]
  /\ UNCHANGED <<providerVars, kid, sinceStart>>

(* fetch_keys has failed: discovery or JWKS request, its timeout, a body   *)
(* that does not parse, or an issuer that is not the configured one.       *)
FetchFails(p) ==
  /\ ProviderMayFail /\ pc[p] \in {"fetch", "arriving"}
  /\ failure' = 0 /\ Return(p, "unavailable") /\ Release(p)
  /\ arriving' = Nothing /\ ended' = [outcome |-> "failed", age |-> 0]
  /\ UNCHANGED <<providerVars, cache, unknown, kid, sinceStart>>

(* A request that waits in line is dropped.                                *)
LeaveLine(p) ==
  /\ pc' = [pc EXCEPT ![p] = "idle"]
  /\ \E i \in DOMAIN waiting : waiting[i] = p /\ waiting' = RemoveAt(waiting, i)
  /\ UNCHANGED owner

(* A variant in which ownership of the refresh is not given up on drop.    *)
CancelKeepingMutex(p) ==
  /\ pc[p] \in {"wait", "recheck", "fetch", "arriving"}
  /\ IF pc[p] = "wait" THEN LeaveLine(p)
     ELSE pc' = [pc EXCEPT ![p] = "idle"] /\ UNCHANGED mutexVars
  /\ arriving' = IF owner = p THEN Nothing ELSE arriving
  /\ UNCHANGED <<providerVars, stateVars, kid, answer, historyVars>>

(* The client hangs up and the future of its request is dropped where it   *)
(* awaits: its place in line, or the fetch and the mutex, go with it.      *)
Cancel(p) ==
  /\ \/ pc[p] = "inspect" /\ pc' = [pc EXCEPT ![p] = "idle"] /\ UNCHANGED mutexVars
     \/ pc[p] = "wait" /\ LeaveLine(p)
     \/ owner = p /\ Release(p)
  /\ arriving' = IF owner = p THEN Nothing ELSE arriving
  /\ UNCHANGED <<providerVars, stateVars, kid, answer, historyVars>>

(* The provider publishes a key or withdraws one.                          *)
Rotate(k) ==
  /\ rotations < MaxRotations /\ rotations' = rotations + 1
  /\ published' = IF k \in published THEN published \ {k} ELSE published \cup {k}
  /\ changed' = [changed EXCEPT ![k] = 0]
  /\ UNCHANGED <<stateVars, mutexVars, pc, kid, answer, arriving, historyVars>>

Older(age, limit) == IF age < limit THEN age + 1 ELSE limit

Tick ==
  /\ \A p \in Requests : pc[p] = "arriving" => arriving.age < FetchTimeout
  /\ changed' = [k \in ProviderKids |-> Older(changed[k], MaxChanged)]
  /\ cache' = [cache EXCEPT !.age = Older(@, Ttl)]
  /\ unknown' = [k \in DOMAIN unknown |-> Older(unknown[k], UnknownTtl)]
  /\ failure' = Older(failure, FailureBackoff)
  /\ arriving' = [arriving EXCEPT !.age =
                    IF \E p \in Requests : pc[p] = "arriving" THEN @ + 1 ELSE 0]
  /\ ended' = [ended EXCEPT !.age = Older(@, RefreshInterval)]
  /\ sinceStart' = Older(sinceStart, RefreshInterval)
  /\ UNCHANGED <<published, rotations, mutexVars, pc, kid, answer>>

FetchStep(p) == Serve(p) \/ StoreKeys(p) \/ FetchFails(p)
RequestStep(p) == Inspect(p) \/ LockRefresh(p) \/ Recheck(p) \/ FetchStep(p)

Next ==
  \/ \E p \in Requests : Ask(p) \/ RequestStep(p) \/ Cancel(p)
  \/ \E k \in ProviderKids : Rotate(k)
  \/ Tick

(* A request that can run is run, and a fetch ends because it has a        *)
(* timeout.  Nothing obliges a client to ask, or the provider to rotate.   *)
Fairness == \A p \in Requests : WF_vars(RequestStep(p))

Spec == Init /\ [][Next]_vars /\ Fairness

-----------------------------------------------------------------------------
(* Every variable has its type; the memory of absent ids is bounded; the   *)
(* refresh mutex belongs to the request that refreshes.                    *)
TypeOK ==
  /\ published \subseteq ProviderKids /\ changed \in [ProviderKids -> 0..MaxChanged]
  /\ rotations \in 0..MaxRotations
  /\ cache \in [keys : SUBSET ProviderKids, age : 0..Ttl]
  /\ DOMAIN unknown \subseteq Kids /\ Cardinality(DOMAIN unknown) <= UnknownCap
  /\ \A k \in DOMAIN unknown : unknown[k] \in 0..UnknownTtl
  /\ failure \in 0..FailureBackoff
  /\ pc \in [Requests -> {"idle", "inspect", "lock", "wait", "recheck", "fetch", "arriving"}]
  /\ kid \in [Requests -> Kids]
  /\ answer \in [Requests -> {"none", "key", "unknown", "unavailable"}]
  /\ arriving \in [keys : SUBSET ProviderKids, age : 0..FetchTimeout]
  /\ \A p \in Requests : pc[p] \in {"recheck", "fetch", "arriving"} <=> owner = p
  /\ \A p \in Requests : pc[p] = "wait" <=> \E i \in DOMAIN waiting : waiting[i] = p
  /\ ended \in [outcome : {"never", "ok", "failed"}, age : 0..RefreshInterval]
  /\ sinceStart \in 0..RefreshInterval

Answers(p, r) == pc[p] # "idle" /\ pc'[p] = "idle" /\ answer'[p] = r
Refreshes(p) == pc[p] # "fetch" /\ pc'[p] = "fetch"

(* Requests that pile up behind a refresh share its outcome: a refresh     *)
(* starts only RefreshInterval after one that succeeded, or FailureBackoff *)
(* after one that failed.                                                  *)
RefreshShared ==
  [][\A p \in Requests : Refreshes(p) =>
       /\ ended.outcome = "ok" => ended.age >= RefreshInterval
       /\ ended.outcome = "failed" => ended.age >= FailureBackoff]_vars

(* A new key is noticed: no key is called unknown once the provider has    *)
(* published it for as long as a fetch, the refresh interval and the       *)
(* memory of absent ids last together.                                     *)
NewKeyNoticed ==
  [][\A p \in Requests : Answers(p, "unknown") =>
       kid[p] \notin published \/ changed[kid[p]] < NoticedBound]_vars

(* A withdrawn key stops working: no key is used once the provider has     *)
(* withdrawn it for as long as the cache and a fetch last together.        *)
WithdrawnKeyExpires ==
  [][\A p \in Requests : Answers(p, "key") =>
       kid[p] \in published \/ changed[kid[p]] < RevokedBound]_vars

(* "known keys continue authenticating during a slow or unavailable        *)
(* provider": nobody is told the provider is unavailable for a key that is *)
(* in the cache and still trusted.                                         *)
OutageSparesKnownKeys ==
  [][\A p \in Requests : Answers(p, "unavailable") => ~Cached(kid[p])]_vars

(* Every request is answered, whoever hangs up while it waits in line.     *)
EveryRequestAnswered == \A p \in Requests : (pc[p] # "idle") ~> (pc[p] = "idle")

-----------------------------------------------------------------------------
(* "No attacker-controlled key id may force more than one refresh in this  *)
(* window": refreshes start at least RefreshInterval apart.                *)
OneRefreshPerWindow ==
  [][\A p \in Requests : Refreshes(p) => sinceStart >= RefreshInterval]_vars
=============================================================================
