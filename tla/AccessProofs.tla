---------------------------- MODULE AccessProofs ----------------------------
(* Theorems about Access, for every environment, clock, credential and     *)
(* document: sessions stay within their cap, logins end where they began,  *)
(* callers are served as themselves, downloads have a reason.              *)
EXTENDS Access, FiniteSetTheorems, TLAPS

-----------------------------------------------------------------------------
(* The inductive invariant.                                                *)

(* What the server runs with is what a good environment says.              *)
ConfigRead == \E e \in Environments : ConfigFault(e) = "ok" /\ config = ConfigOf(e)

(* A creation has counted only if it may create, and nobody else has.      *)
CapHeld ==
  /\ DOMAIN line = Openers /\ IsFiniteSet(DOMAIN sessions) /\ DOMAIN sessions \subseteq SessionIds
  /\ ~up => DOMAIN sessions = {} /\ \A p \in Openers : line[p] = Idle
  /\ \A p, q \in Holders : p = q
  /\ Holders # {} => HasCapacity
  /\ SessionsWithinCap

(* Sealed messages say what the server knew when it sealed them.           *)
StatesSealed ==
  \A s \in states : s.domain = "oauth-state" /\ s.body.issued \in Int /\ WasAllowed(s)
CodesSealed ==
  \A c \in codes :
    /\ c.domain = "oauth-code" /\ c.body.issued \in Int
    /\ \E s \in states : /\ s.key = c.key /\ s.body.redirect = c.body.redirect
                         /\ s.body.challenge = c.body.challenge
                         /\ Within(s.body.issued, c.body.issued)
LinksSigned ==
  \A l \in links :
    /\ l.job \in DOMAIN Docs /\ l.tenant = Docs[l.job].tenant /\ l.exp \in Int
    /\ \E k \in {e.signing.name : e \in Environments} : l.sig = Sign(k, l.tenant, l.job, l.exp)

IInv == ConfigRead /\ TypeOK /\ CapHeld /\ StatesSealed /\ CodesSealed /\ LinksSigned

-----------------------------------------------------------------------------
(* What a configuration read from a good environment is like.              *)

(* Of two entries of a good key list, the later has a secret of its own.   *)
LEMMA KeysApart ==
  ASSUME NEW entries, entries \in Seq(Members(entries)), KeysOk(entries),
         NEW i \in DOMAIN entries, NEW j \in DOMAIN entries, i < j
  PROVE  entries[i].secret # entries[j].secret
<1>1. i \in 1..(j - 1) OBVIOUS
<1>2. KeyFault(entries, j) = "ok" BY DEF KeysOk
<1>3. ~\E k \in 1..(j - 1) : entries[k].secret = entries[j].secret BY <1>2 DEF KeyFault
<1> QED BY <1>1, <1>3

(* What Config::from_source guarantees of what it returns.                 *)
GoodConfig(c) ==
  /\ c.maxSessions \in Nat /\ c.linkTtl \in Nat /\ c.public # "elsewhere"
  /\ c.keys # {} \/ c.oidc.on
  /\ c.dcr # Blank => c.redirects # {}
  /\ \A k \in c.keys : k = [label |-> k.label, secret |-> k.secret]
  /\ \A k \in c.keys : k.secret \notin DOMAIN TokenOf
  /\ \A k, l \in c.keys : k.secret = l.secret => k = l

(* What from_source lets through is a configuration the others may rely on.*)
LEMMA ConfigsGood ==
  ASSUME NEW e \in Environments, ConfigFault(e) = "ok"
  PROVE  /\ GoodConfig(ConfigOf(e))
         /\ ConfigOf(e).signing = e.signing.name /\ ConfigOf(e).redirects = Members(e.redirects)
<1> DEFINE c == ConfigOf(e)
<1>1. /\ KeysOk(e.keys) /\ ~(e.dcr # Blank /\ e.redirects = <<>>)
      /\ ~(e.keys = <<>> /\ ~HasOidc(e)) /\ DurationOk(e.linkTtl) /\ NumberOk(e.sessions)
  BY DEF ConfigFault
<1>2. /\ e.keys \in Seq(Members(e.keys)) /\ e.redirects \in Seq(Members(e.redirects))
      /\ e.public # "elsewhere" /\ e.linkTtl.amount \in Nat /\ e.sessions.amount \in Nat
      /\ DefaultLinkTtl \in Nat /\ DefaultSessions \in Nat
  BY EnvironmentsAssumption DEF IsList
<1>3. c.maxSessions \in Nat BY <1>2 DEF ConfigOf, Number
<1>4. c.linkTtl \in Nat
  <2>1. Duration(e.linkTtl, DefaultLinkTtl) \in Nat
    <3>1. CASE e.linkTtl = Unset BY <1>2, <3>1 DEF Duration
    <3>2. CASE e.linkTtl # Unset
      <4>1. e.linkTtl.unit \in {Blank, "s", "m", "h", "d"}
        BY <1>1, <3>2 DEF DurationOk, SecondsIn
      <4>2. \A unit \in {Blank, "s", "m", "h", "d"} : SecondsIn[unit] \in {1, 60, 3600, 86400}
        BY DEF SecondsIn
      <4>3. SecondsIn[e.linkTtl.unit] \in Nat BY <4>1, <4>2
      <4> QED BY <1>2, <3>2, <4>3 DEF Duration
    <3> QED BY <3>1, <3>2
  <2> QED BY <2>1 DEF ConfigOf
<1>5. c.keys = {[label |-> k.label, secret |-> k.secret.name] : k \in Members(e.keys)}
      /\ c.redirects = Members(e.redirects) /\ c.dcr = e.dcr /\ c.oidc.on = HasOidc(e)
      /\ c.public = e.public /\ c.signing = e.signing.name
  BY DEF ConfigOf, OidcOf
<1>6. c.keys # {} \/ c.oidc.on
  <2>1. e.keys # <<>> => Members(e.keys) # {}
    <3>1. e.keys # <<>> => 1 \in DOMAIN e.keys BY <1>2
    <3> QED BY <3>1 DEF Members
  <2> QED BY <1>1, <1>5, <2>1
<1>7. c.dcr # Blank => c.redirects # {}
  <2>1. e.redirects # <<>> => Members(e.redirects) # {}
    <3>1. e.redirects # <<>> => 1 \in DOMAIN e.redirects BY <1>2
    <3> QED BY <3>1 DEF Members
  <2> QED BY <1>1, <1>5, <2>1
<1>8. ASSUME NEW k \in c.keys
      PROVE  k = [label |-> k.label, secret |-> k.secret] /\ k.secret \notin DOMAIN TokenOf
  <2>1. PICK m \in Members(e.keys) : k = [label |-> m.label, secret |-> m.secret.name] BY <1>5
  <2>2. m.secret.name \notin DOMAIN TokenOf BY EnvironmentsAssumption
  <2> HIDE DEF c
  <2> QED BY <2>1, <2>2
<1>9. ASSUME NEW k \in c.keys, NEW l \in c.keys, k.secret = l.secret
      PROVE  k = l
  <2>1. PICK i \in DOMAIN e.keys :
          k = [label |-> e.keys[i].label, secret |-> e.keys[i].secret.name]
    BY <1>5 DEF Members
  <2>2. PICK j \in DOMAIN e.keys :
          l = [label |-> e.keys[j].label, secret |-> e.keys[j].secret.name]
    BY <1>5 DEF Members
  <2>3. e.keys[i].secret.name = e.keys[j].secret.name BY <1>9, <2>1, <2>2
  <2>4. e.keys[i] \in Members(e.keys) /\ e.keys[j] \in Members(e.keys) BY DEF Members
  <2>5. e.keys[i].secret = e.keys[j].secret BY <2>3, <2>4, EnvironmentsAssumption
  <2>6. i = j
    <3>1. i \in Int /\ j \in Int BY <1>2
    <3>2. ~(i < j) BY <1>1, <1>2, <2>5, KeysApart
    <3>3. ~(j < i) BY <1>1, <1>2, <2>5, KeysApart
    <3> QED BY <3>1, <3>2, <3>3
  <2> QED BY <2>1, <2>2, <2>6
<1> HIDE DEF c
<1> QED BY <1>2, <1>3, <1>4, <1>5, <1>6, <1>7, <1>8, <1>9 DEF GoodConfig, c

(* The configuration in use.                                               *)
LEMMA RunsOnGoodConfig == ConfigRead => GoodConfig(config)
BY ConfigsGood DEF ConfigRead

-----------------------------------------------------------------------------
(* Sessions.                                                               *)

(* Steps that have nothing to do with sessions.                            *)
LEMMA OtherStepsKeepCap ==
  ASSUME CapHeld, UNCHANGED <<serverVars, sessionVars>>
  PROVE  CapHeld'
BY DEF CapHeld, serverVars, sessionVars, Holders, HasCapacity, SessionsWithinCap

(* Starting finds no session, stopping leaves none.                        *)
LEMMA RestartsKeepCap ==
  ASSUME CapHeld, ConfigRead', Start \/ Stop
  PROVE  CapHeld'
<1>1. CASE Start
  <2>1. sessions' = sessions /\ line' = line /\ ~up BY <1>1 DEF Start, sessionVars
  <2>2. DOMAIN sessions = {} /\ Holders = {}
    BY <2>1 DEF CapHeld, Holders, Idle
  <2>3. Cardinality(DOMAIN sessions) = 0 BY <2>2, FS_EmptySet
  <2>4. config'.maxSessions \in Nat
    <3>1. PICK e \in Environments : ConfigFault(e) = "ok" /\ config' = ConfigOf(e)
      BY DEF ConfigRead
    <3> QED BY <3>1, ConfigsGood DEF GoodConfig
  <2>5. Holders' = {} BY <2>1, <2>2 DEF Holders
  <2>6. SessionsWithinCap' BY <2>1, <2>3, <2>4 DEF SessionsWithinCap
  <2> QED BY <2>1, <2>2, <2>5, <2>6 DEF CapHeld
<1>2. CASE Stop
  <2>1. /\ sessions' = [i \in {} |-> Nobody] /\ line' = [p \in Openers |-> Idle]
        /\ up' = FALSE /\ config' = config
    BY <1>2 DEF Stop
  <2>2. DOMAIN sessions' = {} /\ DOMAIN line' = Openers /\ Holders' = {}
    BY <2>1 DEF Holders, Idle
  <2>3. Cardinality(DOMAIN sessions') = 0 /\ IsFiniteSet(DOMAIN sessions') BY <2>2, FS_EmptySet
  <2>4. config'.maxSessions \in Nat
    <3>1. PICK e \in Environments : ConfigFault(e) = "ok" /\ config' = ConfigOf(e)
      BY DEF ConfigRead
    <3> QED BY <3>1, ConfigsGood DEF GoodConfig
  <2>5. SessionsWithinCap' BY <2>3, <2>4 DEF SessionsWithinCap
  <2> QED BY <2>1, <2>2, <2>3, <2>5 DEF CapHeld
<1> QED BY <1>1, <1>2

(* A request for a session counts under the mutex and creates under it.    *)
LEMMA OpenersKeepCap ==
  ASSUME CapHeld, ConfigRead, up, NEW p \in Openers,
         Ask(p) \/ Count(p) \/ Create(p) \/ HangUp(p)
  PROVE  CapHeld'
<1>1. /\ DOMAIN line = Openers /\ IsFiniteSet(DOMAIN sessions)
      /\ DOMAIN sessions \subseteq SessionIds
      /\ \A q, r \in Holders : q = r
      /\ Holders # {} => HasCapacity
      /\ Cardinality(DOMAIN sessions) <= config.maxSessions
  BY DEF CapHeld, SessionsWithinCap
<1>2. config' = config /\ up' = up
  BY DEF Ask, Count, Create, HangUp, Same, serverVars
<1>3. ASSUME sessions' = sessions, DOMAIN line' = Openers, Holders' \subseteq Holders
      PROVE  CapHeld'
  BY <1>1, <1>2, <1>3 DEF CapHeld, HasCapacity, SessionsWithinCap
<1>4. ASSUME NEW at, Step(p, at)
      PROVE  /\ DOMAIN line' = Openers
             /\ line'[p] = at /\ \A q \in Openers \ {p} : line'[q] = line[q]
  BY <1>1, <1>4 DEF Step
<1>5. ASSUME NEW at, Step(p, at), at.stage # "counted"
      PROVE  DOMAIN line' = Openers /\ Holders' \subseteq Holders
  BY <1>4, <1>5 DEF Holders
<1>6. CASE Ask(p)
  <2>1. PICK key \in KeysFor(p), want \in SessionIds \cup {NoId} :
          Step(p, [stage |-> "waiting",
                   who |-> Door("mcp", [form |-> "bearer", cred |-> p], key).who,
                   want |-> want])
    BY <1>6 DEF Ask
  <2>2. sessions' = sessions BY <1>6 DEF Ask
  <2> QED BY <1>3, <1>5, <2>1, <2>2
<1>7. CASE HangUp(p)
  <2>1. Step(p, Idle) /\ sessions' = sessions BY <1>7 DEF HangUp
  <2> QED BY <1>3, <1>5, <2>1 DEF Idle
<1>8. CASE Count(p) /\ Step(p, Idle)
  <2>1. sessions' = sessions BY <1>8 DEF Count
  <2> QED BY <1>3, <1>5, <1>8, <2>1 DEF Idle
<1>9. CASE Count(p) /\ ~Step(p, Idle)
  <2>1. /\ Holders = {} /\ sessions' = sessions /\ HasCapacity
        /\ Step(p, [line[p] EXCEPT !.stage = "counted"])
    BY <1>9 DEF Count, CreationFree
  <2>2. DOMAIN line' = Openers /\ Holders' \subseteq {p} BY <1>4, <2>1 DEF Holders
  <2> QED BY <1>1, <1>2, <2>1, <2>2 DEF CapHeld, HasCapacity, SessionsWithinCap
<1>10. CASE Create(p)
  <2>1. PICK i \in SessionIds :
          sessions' = [j \in DOMAIN sessions \cup {i} |->
                         IF j = i THEN line[p].who ELSE sessions[j]]
    BY <1>10 DEF Create
  <2>2. p \in Holders /\ Step(p, Idle) BY <1>10 DEF Create, Holders
  <2>3. DOMAIN sessions' = DOMAIN sessions \cup {i} BY <2>1
  <2>4. DOMAIN line' = Openers /\ Holders' = {}
    BY <1>1, <1>4, <2>2 DEF Holders, Idle
  <2>5. /\ IsFiniteSet(DOMAIN sessions') /\ Cardinality(DOMAIN sessions') \in Nat
        /\ Cardinality(DOMAIN sessions') <= Cardinality(DOMAIN sessions) + 1
    <3> DEFINE D == DOMAIN sessions
    <3>1. IsFiniteSet(D) BY <1>1
    <3> HIDE DEF D
    <3>2. /\ IsFiniteSet(D \cup {i}) /\ Cardinality(D) \in Nat
          /\ Cardinality(D \cup {i}) \in {Cardinality(D), Cardinality(D) + 1}
      BY <3>1, FS_AddElement, FS_CardinalityType
    <3> QED BY <2>3, <3>2 DEF D
  <2>6. Cardinality(DOMAIN sessions) < config.maxSessions BY <1>1, <2>2 DEF HasCapacity
  <2>7. config.maxSessions \in Nat /\ Cardinality(DOMAIN sessions) \in Nat
    BY <1>1, RunsOnGoodConfig, FS_CardinalityType DEF GoodConfig
  <2>8. SessionsWithinCap' BY <1>2, <2>5, <2>6, <2>7 DEF SessionsWithinCap
  <2> QED BY <1>1, <1>2, <2>3, <2>4, <2>5, <2>8 DEF CapHeld
<1> QED BY <1>6, <1>7, <1>8, <1>9, <1>10

(* Closing asks for no mutex, and only makes room.                         *)
LEMMA ClosingKeepsCap ==
  ASSUME CapHeld, ConfigRead, NEW i \in SessionIds, Close(i)
  PROVE  CapHeld'
<1>1. /\ DOMAIN sessions' = DOMAIN sessions \ {i} /\ line' = line
      /\ config' = config /\ up' = up /\ i \in DOMAIN sessions
  BY DEF Close, Same, serverVars
<1>2. IsFiniteSet(DOMAIN sessions) BY DEF CapHeld
<1>3. /\ IsFiniteSet(DOMAIN sessions') /\ Cardinality(DOMAIN sessions') \in Nat
      /\ Cardinality(DOMAIN sessions') = Cardinality(DOMAIN sessions) - 1
      /\ Cardinality(DOMAIN sessions) \in Nat
  BY <1>1, <1>2, FS_RemoveElement, FS_CardinalityType
<1>4. config.maxSessions \in Nat BY RunsOnGoodConfig DEF GoodConfig
<1>5. Holders' = Holders BY <1>1 DEF Holders
<1>6. HasCapacity => HasCapacity' BY <1>1, <1>3, <1>4 DEF HasCapacity
<1>7. SessionsWithinCap' BY <1>1, <1>3, <1>4 DEF CapHeld, SessionsWithinCap
<1> QED BY <1>1, <1>3, <1>5, <1>6, <1>7 DEF CapHeld

-----------------------------------------------------------------------------
(* Logins and links.                                                       *)

(* authorize seals what it checked.                                        *)
LEMMA AuthorizeSeals ==
  ASSUME ConfigRead, TypeOK, StatesSealed, CodesSealed, Authorize
  PROVE  StatesSealed' /\ CodesSealed'
<1>1. PICK q \in ClientRequests :
        states' = IF AuthorizeFault(config, q) = "ok"
                  THEN states \cup {Forwarded(config, q, now).state} ELSE states
  BY DEF Authorize
<1>2. codes' = codes /\ now \in Int BY EnvironmentsAssumption DEF Authorize, TypeOK
<1>3. CASE AuthorizeFault(config, q) # "ok"
  <2>1. states' = states BY <1>1, <1>3
  <2> QED BY <1>2, <2>1 DEF StatesSealed, CodesSealed
<1>4. CASE AuthorizeFault(config, q) = "ok"
  <2> DEFINE new == Forwarded(config, q, now).state
  <2>1. states' = states \cup {new} BY <1>1, <1>4
  <2>2. /\ new.domain = "oauth-state" /\ new.key = config.signing /\ new.body.issued = now
        /\ new.body.redirect = q.redirect_uri[1]
    BY DEF Forwarded, Seal, Pending
  <2>3. IsAllowedRedirect(config.redirects, q.redirect_uri[1]) BY <1>4 DEF AuthorizeFault
  <2> HIDE DEF new
  <2>4. WasAllowed(new)
    <3>1. PICK e \in Environments : ConfigFault(e) = "ok" /\ config = ConfigOf(e) BY DEF ConfigRead
    <3>2. config.signing = e.signing.name /\ config.redirects = Members(e.redirects)
      BY <3>1, ConfigsGood
    <3> QED BY <2>2, <2>3, <3>1, <3>2 DEF WasAllowed
  <2>5. StatesSealed' BY <1>2, <2>1, <2>2, <2>4 DEF StatesSealed
  <2>6. CodesSealed' BY <1>2, <2>1 DEF CodesSealed
  <2> QED BY <2>5, <2>6
<1> QED BY <1>3, <1>4

(* Only a state opens as one, and then it is one that was handed out.      *)
LEMMA OnlyStatesOpen ==
  ASSUME StatesSealed, CodesSealed, NEW s \in states \cup codes, OpensState(s, config.signing, now)
  PROVE  s \in states /\ s.key = config.signing /\ Timely(s.body.issued, now)
BY DEF StatesSealed, CodesSealed, OpensState

(* Timely in the code's words is Within in the property's.                 *)
LEMMA TimelyIsWithin ==
  ASSUME NEW issued \in Int, NEW at \in Int
  PROVE  Timely(issued, at) <=> Within(issued, at)
<1>1. Skew \in Nat /\ PendingTtl \in Nat BY EnvironmentsAssumption
<1> QED BY <1>1 DEF Timely, Within

(* callback seals into a code what the state it opened says.               *)
LEMMA CallbackSeals ==
  ASSUME TypeOK, StatesSealed, CodesSealed, CallbackArrives
  PROVE  StatesSealed' /\ CodesSealed'
<1>1. PICK s \in states \cup codes :
        \E challenges \in {<<>>} \cup {<<l.body.challenge>> : l \in states} :
          LET q == CallbackRequest(s, challenges) IN
          codes' = IF CallbackFault(config, q, now) = "ok"
                   THEN codes \cup Returned(config, q, now).codes ELSE codes
  BY DEF CallbackArrives
<1>2. PICK challenges \in {<<>>} \cup {<<l.body.challenge>> : l \in states} :
        LET q == CallbackRequest(s, challenges) IN
        codes' = IF CallbackFault(config, q, now) = "ok"
                 THEN codes \cup Returned(config, q, now).codes ELSE codes
  BY <1>1
<1> DEFINE q == CallbackRequest(s, challenges)
<1>3. states' = states /\ now \in Int
  BY EnvironmentsAssumption DEF CallbackArrives, TypeOK
<1>4. StatesSealed' BY <1>3 DEF StatesSealed
<1>5. CASE CallbackFault(config, q, now) # "ok"
  <2>1. codes' = codes BY <1>2, <1>5
  <2> QED BY <1>3, <1>4, <2>1 DEF CodesSealed
<1>6. CASE CallbackFault(config, q, now) = "ok"
  <2>1. q.state[1] = s BY DEF CallbackRequest
  <2>2. OpensState(s, config.signing, now) BY <1>6, <2>1 DEF CallbackFault
  <2>3. s \in states /\ s.key = config.signing /\ Timely(s.body.issued, now)
    BY <2>2, OnlyStatesOpen
  <2>4. Within(s.body.issued, now) BY <1>3, <2>3, TimelyIsWithin DEF StatesSealed
  <2>5. codes' = codes \cup Returned(config, q, now).codes BY <1>2, <1>6
  <2> HIDE DEF q
  <2>6. ASSUME NEW c \in Returned(config, q, now).codes
        PROVE  /\ c.domain = "oauth-code" /\ c.key = config.signing /\ c.body.issued = now
               /\ c.body.redirect = s.body.redirect /\ c.body.challenge = s.body.challenge
    BY <2>1, <2>6 DEF Returned, Seal, PendingCode
  <2>7. CodesSealed'
    <3> SUFFICES ASSUME NEW c \in codes'
                 PROVE  /\ c.domain = "oauth-code" /\ c.body.issued \in Int
                        /\ \E t \in states : /\ t.key = c.key
                                             /\ t.body.redirect = c.body.redirect
                                             /\ t.body.challenge = c.body.challenge
                                             /\ Within(t.body.issued, c.body.issued)
      BY <1>3 DEF CodesSealed
    <3>1. CASE c \in codes BY <3>1 DEF CodesSealed
    <3>2. CASE c \in Returned(config, q, now).codes
      BY <1>3, <2>3, <2>4, <2>6, <3>2
    <3> QED BY <2>5, <3>1, <3>2
  <2> QED BY <1>4, <2>7
<1> QED BY <1>5, <1>6

(* link signs what it hands out.                                           *)
LEMMA LinkSigns ==
  ASSUME ConfigRead, TypeOK, LinksSigned, Link
  PROVE  LinksSigned'
<1>1. PICK job \in DOMAIN Docs, wish \in Wishes :
        links' = links \cup
          {[job |-> job, tenant |-> Docs[job].tenant, exp |-> now + Ttl(wish),
            sig |-> Sign(config.signing, Docs[job].tenant, job, now + Ttl(wish))]}
  BY DEF Link
<1>2. now + Ttl(wish) \in Int
  <2>1. now \in Int BY EnvironmentsAssumption DEF TypeOK
  <2>2. wish \in Nat BY EnvironmentsAssumption
  <2>3. config.linkTtl \in Nat BY RunsOnGoodConfig DEF GoodConfig
  <2> QED BY <2>1, <2>2, <2>3 DEF Ttl
<1>3. config.signing \in {e.signing.name : e \in Environments}
  BY ConfigsGood DEF ConfigRead
<1> QED BY <1>1, <1>2, <1>3 DEF LinksSigned

-----------------------------------------------------------------------------
(* The invariant is one.                                                   *)


LEMMA InitialStates == Init => IInv
<1> SUFFICES ASSUME Init PROVE IInv OBVIOUS
<1>1. ConfigRead
  <2> DEFINE e == CHOOSE e \in Environments : ConfigFault(e) = "ok"
  <2>1. e \in Environments /\ ConfigFault(e) = "ok" BY EnvironmentsAssumption
  <2>2. config = ConfigOf(e) BY DEF Init
  <2> QED BY <2>1, <2>2 DEF ConfigRead
<1>2. TypeOK BY EnvironmentsAssumption DEF Init, TypeOK, NoVisit
<1>3. CapHeld
  <2>1. DOMAIN sessions = {} /\ DOMAIN line = Openers /\ Holders = {}
    BY DEF Init, Holders, Idle
  <2>2. Cardinality(DOMAIN sessions) = 0 /\ IsFiniteSet(DOMAIN sessions) BY <2>1, FS_EmptySet
  <2>3. config.maxSessions \in Nat BY <1>1, RunsOnGoodConfig DEF GoodConfig
  <2>4. SessionsWithinCap BY <2>2, <2>3 DEF SessionsWithinCap
  <2> QED BY <2>1, <2>2, <2>4 DEF Init, CapHeld
<1>4. StatesSealed /\ CodesSealed /\ LinksSigned
  BY DEF Init, StatesSealed, CodesSealed, LinksSigned
<1> QED BY <1>1, <1>2, <1>3, <1>4 DEF IInv

(* A request is for a session on a server that runs.                       *)
LEMMA OpenersNeedServer ==
  ASSUME CapHeld, NEW p \in Openers, Ask(p) \/ Count(p) \/ Create(p) \/ HangUp(p)
  PROVE  up
BY DEF CapHeld, Ask, Count, Create, HangUp, Relay, Idle

(* Which action changes what.                                              *)
LEMMA WhoChangesWhat ==
  ASSUME [Next]_vars
  PROVE  /\ Start \/ config' = config
         /\ Authorize \/ states' = states
         /\ CallbackArrives \/ codes' = codes
         /\ Link \/ links' = links
         /\ Clock \/ now' = now
         /\ Visit \/ visit' = visit \/ visit' = NoVisit
<1> USE DEF Same, serverVars, relayVars, sessionVars
<1>1. CASE Start BY <1>1 DEF Start
<1>2. CASE Stop BY <1>2 DEF Stop
<1>3. CASE Clock BY <1>3 DEF Clock
<1>4. CASE Authorize BY <1>4 DEF Authorize
<1>5. CASE CallbackArrives BY <1>5 DEF CallbackArrives
<1>6. CASE Token BY <1>6 DEF Token
<1>7. CASE Register BY <1>7 DEF Register
<1>8. CASE Api BY <1>8 DEF Api, Entered, Reply
<1>9. CASE Mcp BY <1>9 DEF Mcp, Entered, Reply
<1>10. CASE Link BY <1>10 DEF Link
<1>11. CASE Visit BY <1>11 DEF Visit
<1>12. CASE VisitNobody BY <1>12 DEF VisitNobody
<1>13. CASE Fetch BY <1>13 DEF Fetch
<1>14. CASE \E p \in Openers : Ask(p) \/ Count(p) \/ Create(p) \/ HangUp(p)
  BY <1>14 DEF Ask, Count, Create, HangUp
<1>15. CASE \E i \in SessionIds : Close(i) BY <1>15 DEF Close
<1>16. CASE UNCHANGED vars BY <1>16 DEF vars
<1> QED BY <1>1, <1>2, <1>3, <1>4, <1>5, <1>6, <1>7, <1>8, <1>9, <1>10, <1>11, <1>12, <1>13, <1>14, <1>15, <1>16 DEF Next

(* Every step keeps it.                                                   *)
LEMMA InductiveStep == IInv /\ [Next]_vars => IInv'
<1> SUFFICES ASSUME IInv, [Next]_vars PROVE IInv' OBVIOUS
<1> DEFINE Opening == \E p \in Openers : Ask(p) \/ Count(p) \/ Create(p) \/ HangUp(p)
           Closing == \E i \in SessionIds : Close(i)
           Restarting == Start \/ Stop
           Aside == \/ Clock \/ Authorize \/ CallbackArrives \/ Token \/ Register \/ Api \/ Mcp
                    \/ Link \/ Visit \/ VisitNobody \/ Fetch \/ UNCHANGED vars
<1>1. ConfigRead /\ TypeOK /\ CapHeld /\ StatesSealed /\ CodesSealed /\ LinksSigned BY DEF IInv
<1>2. Opening \/ Closing \/ Restarting \/ Aside BY DEF Next
<1>3. ConfigRead'
  <2>1. CASE Start BY <1>1, <2>1 DEF Start, ConfigRead, serverVars
  <2>2. CASE ~Start
    <3>1. config' = config BY <2>2, WhoChangesWhat
    <3> QED BY <1>1, <3>1 DEF ConfigRead
  <2> QED BY <2>1, <2>2
<1>4. CapHeld'
  <2>1. CASE Opening BY <1>1, <2>1, OpenersNeedServer, OpenersKeepCap
  <2>2. CASE Closing BY <1>1, <2>2, ClosingKeepsCap
  <2>3. CASE Restarting BY <1>1, <1>3, <2>3, RestartsKeepCap
  <2>4. CASE Aside
    <3>1. UNCHANGED <<serverVars, sessionVars>>
      BY <2>4
      DEF Clock, Authorize, CallbackArrives, Token, Register, Api, Mcp, Link, Visit, VisitNobody,
          Fetch, Same, vars
    <3> QED BY <1>1, <3>1, OtherStepsKeepCap
  <2> QED BY <1>2, <2>1, <2>2, <2>3, <2>4
<1>5. StatesSealed' /\ CodesSealed'
  <2>1. CASE Authorize BY <1>1, <2>1, AuthorizeSeals
  <2>2. CASE CallbackArrives BY <1>1, <2>2, CallbackSeals
  <2>3. CASE ~Authorize /\ ~CallbackArrives
    <3>1. states' = states /\ codes' = codes BY <2>3, WhoChangesWhat
    <3> QED BY <1>1, <3>1 DEF StatesSealed, CodesSealed
  <2> QED BY <2>1, <2>2, <2>3
<1>6. LinksSigned'
  <2>1. CASE Link BY <1>1, <2>1, LinkSigns
  <2>2. CASE ~Link
    <3>1. links' = links BY <2>2, WhoChangesWhat
    <3> QED BY <1>1, <3>1 DEF LinksSigned
  <2> QED BY <2>1, <2>2
<1>7. TypeOK'
  <2>1. now' \in 0..MaxTime
    <3>1. CASE Clock
      <4>1. now \in Int /\ MaxTime \in Nat BY <1>1, EnvironmentsAssumption DEF TypeOK
      <4> QED BY <1>1, <3>1, <4>1 DEF Clock, TypeOK
    <3>2. CASE ~Clock
      <4>1. now' = now BY <3>2, WhoChangesWhat
      <4> QED BY <1>1, <4>1 DEF TypeOK
    <3> QED BY <3>1, <3>2
  <2>2. DOMAIN sessions' \subseteq SessionIds BY <1>4 DEF CapHeld
  <2>3. visit'.stage = "admitted" => visit'.job \in DOMAIN Docs
    <3>1. CASE Visit BY <3>1 DEF Visit, NoVisit
    <3>2. CASE ~Visit
      <4>1. visit' = visit \/ visit' = NoVisit BY <3>2, WhoChangesWhat
      <4> QED BY <1>1, <4>1 DEF TypeOK, NoVisit
    <3> QED BY <3>1, <3>2
  <2>4. /\ config'.keys # {} \/ config'.oidc.on
        /\ config'.dcr # Blank => config'.redirects # {}
    <3>1. PICK e \in Environments : ConfigFault(e) = "ok" /\ config' = ConfigOf(e)
      BY <1>3 DEF ConfigRead
    <3> QED BY <3>1, ConfigsGood DEF GoodConfig
  <2>5. /\ \A s \in states' : s.domain = "oauth-state"
        /\ \A c \in codes' : c.domain = "oauth-code"
    BY <1>5 DEF StatesSealed, CodesSealed
  <2> QED BY <2>1, <2>2, <2>3, <2>4, <2>5 DEF TypeOK
<1> QED BY <1>3, <1>4, <1>5, <1>6, <1>7 DEF IInv

(* IInv in every state.                                                    *)
LEMMA Invariance == Spec => []IInv
BY InitialStates, InductiveStep, PTL DEF Spec

(* Access's TypeOK: what a server that runs was configured with lets       *)
(* somebody in, and registers no clients without redirects.                *)
THEOREM TypeCorrect == Spec => []TypeOK
<1>1. IInv => TypeOK BY DEF IInv
<1> QED BY <1>1, Invariance, PTL

(* Access's SessionsWithinCap: however creations, restorations, closings   *)
(* and hang-ups interleave, and across restarts with other caps, there are *)
(* never more sessions than max_mcp_sessions (session.rs).                 *)
THEOREM CapNeverExceeded == Spec => []SessionsWithinCap
<1>1. IInv => SessionsWithinCap BY DEF IInv, CapHeld
<1> QED BY <1>1, Invariance, PTL

-----------------------------------------------------------------------------
(* The doors.                                                              *)

(* No two callers share a tenant.                                          *)
LEMMA TenantsApart ==
  ASSUME NEW v \in Everyone, NEW w \in Everyone, NEW salt, Tenant(salt, v) = Tenant(salt, w)
  PROVE  v = w
<1>1. Identity(v) = Identity(w) BY DEF Tenant
<1>2. ASSUME NEW x \in Everyone
      PROVE  \/ x = [door |-> "oidc", issuer |-> x.issuer, name |-> x.name]
             \/ x = [door |-> "key", issuer |-> Blank, name |-> x.name]
  BY <1>2 DEF Everyone, User, Service
<1>3. ASSUME NEW x \in Everyone
      PROVE  \/ x.door = "oidc" /\ Identity(x) = <<"oidc", x.issuer, x.name>>
             \/ x.door = "key" /\ Identity(x) = <<"key", x.name>>
  BY <1>2 DEF Identity
<1>4. v.door = w.door /\ v.name = w.name /\ (v.door = "oidc" => v.issuer = w.issuer)
  <2>1. CASE v.door = "oidc" /\ w.door = "oidc" BY <1>1, <1>3, <2>1
  <2>2. CASE v.door = "key" /\ w.door = "key" BY <1>1, <1>3, <2>2
  <2>3. CASE v.door # w.door
    <3>1. ASSUME NEW a, NEW b, NEW c PROVE <<"oidc", a, b>> # <<"key", c>> OBVIOUS
    <3> QED BY <1>1, <1>3, <2>3, <3>1
  <2> QED BY <1>3, <2>1, <2>2, <2>3
<1> QED BY <1>2, <1>4

(* A key opens its door for the one it belongs to, and for no one else.    *)
LEMMA KeyDoorFinds ==
  ASSUME GoodConfig(config), NEW header
  PROVE  LET found == KeyDoor(config, header) IN
         /\ found.error = "none" =>
              /\ found.who \in Everyone
              /\ \A w : SpeaksFor(header, w, "api") <=> w = found.who
         /\ found.error # "none" => \A w : ~SpeaksFor(header, w, "api")
         /\ found.error # "provider_unavailable"
<1> DEFINE found == KeyDoor(config, header)
           matching == {k \in config.keys : k.secret = header.cred}
<1> SUFFICES
      /\ found.error = "none" =>
           /\ found.who \in Everyone
           /\ \A w : SpeaksFor(header, w, "api") <=> w = found.who
      /\ found.error # "none" => \A w : ~SpeaksFor(header, w, "api")
      /\ found.error # "provider_unavailable"
  OBVIOUS
<1>1. CASE config.keys = {}
  BY <1>1 DEF KeyDoor, Refused, SpeaksFor
<1>2. CASE config.keys # {} /\ Bearer(header) # "ok"
  <2>1. found = Refused(Bearer(header)) BY <1>2 DEF KeyDoor
  <2>2. Bearer(header) \in {"missing", "malformed"} /\ header.form # "bearer" BY <1>2 DEF Bearer
  <2>3. found.error = Bearer(header) BY <2>1 DEF Refused
  <2>4. \A w : ~SpeaksFor(header, w, "api") BY <2>2 DEF SpeaksFor, HoldsKey
  <2> HIDE DEF found
  <2> QED BY <2>2, <2>3, <2>4
<1>3. CASE config.keys # {} /\ Bearer(header) = "ok" /\ matching = {}
  <2>1. found = Refused("rejected") BY <1>3 DEF KeyDoor
  <2>2. \A k : [label |-> k, secret |-> header.cred] \notin config.keys BY <1>3
  <2>3. found.error = "rejected" BY <2>1 DEF Refused
  <2>4. \A w : ~SpeaksFor(header, w, "api") BY <2>2 DEF SpeaksFor, HoldsKey
  <2> HIDE DEF found
  <2> QED BY <2>3, <2>4
<1>4. CASE config.keys # {} /\ Bearer(header) = "ok" /\ matching # {}
  <2> DEFINE k == CHOOSE k \in matching : TRUE
  <2>1. found = Accepted(Service(k.label)) BY <1>4 DEF KeyDoor
  <2>2. k \in config.keys /\ k.secret = header.cred BY <1>4
  <2>3. k = [label |-> k.label, secret |-> header.cred] BY <2>2 DEF GoodConfig
  <2>4. header.form = "bearer" BY <1>4 DEF Bearer
  <2> HIDE DEF k, found
  <2>5. found.error = "none" /\ found.who = Service(k.label) BY <2>1 DEF Accepted
  <2>6. found.who \in Everyone BY <2>2, <2>5 DEF Everyone
  <2>7. SpeaksFor(header, found.who, "api")
    BY <2>2, <2>3, <2>4, <2>5 DEF SpeaksFor, HoldsKey
  <2>8. ASSUME NEW w, SpeaksFor(header, w, "api") PROVE w = found.who
    <3>1. PICK l \in config.keys : w = Service(l.label)
                                   /\ [label |-> l.label, secret |-> header.cred] \in config.keys
      BY <2>8 DEF SpeaksFor, HoldsKey
    <3>2. [label |-> l.label, secret |-> header.cred] = k BY <2>2, <3>1 DEF GoodConfig
    <3>3. l.label = k.label BY <3>2
    <3> QED BY <2>5, <3>1, <3>3
  <2> QED BY <2>5, <2>6, <2>7, <2>8
<1> QED BY <1>1, <1>2, <1>3, <1>4

(* A token opens its door for its subject, and for no one else; it is not  *)
(* turned away for good because the provider cannot be asked.              *)
LEMMA OidcDoorFinds ==
  ASSUME config.oidc.on, now \in Int, NEW header, NEW key \in KeysFor(header.cred)
  PROVE  LET found == OidcDoor(config, header, key, now) IN
         /\ found.error = "none" =>
              /\ found.who \in Everyone
              /\ \A w : SpeaksFor(header, w, "mcp") <=> w = found.who
         /\ found.error \notin {"none", "provider_unavailable"} =>
              \A w : ~SpeaksFor(header, w, "mcp")
         /\ found.error = "provider_unavailable" => key = "unavailable"
<1> DEFINE found == OidcDoor(config, header, key, now)
           t == TokenOf[header.cred]
           fault == TokenFault(config.oidc, header.cred, key, now)
<1> SUFFICES
      /\ found.error = "none" =>
           /\ found.who \in Everyone
           /\ \A w : SpeaksFor(header, w, "mcp") <=> w = found.who
      /\ found.error \notin {"none", "provider_unavailable"} =>
           \A w : ~SpeaksFor(header, w, "mcp")
      /\ found.error = "provider_unavailable" => key = "unavailable"
  OBVIOUS
<1>1. \A w : SpeaksFor(header, w, "mcp") <=> HoldsToken(header, w) BY DEF SpeaksFor
<1>2. CASE Bearer(header) # "ok"
  <2>1. found = Refused(Bearer(header)) BY <1>2 DEF OidcDoor
  <2>2. Bearer(header) \in {"missing", "malformed"} /\ header.form # "bearer" BY <1>2 DEF Bearer
  <2> QED BY <1>1, <2>1, <2>2 DEF Refused, HoldsToken
<1>3. CASE Bearer(header) = "ok" /\ header.cred \notin DOMAIN TokenOf
  <2>1. fault = "malformed" BY <1>3 DEF TokenFault
  <2>2. found = Refused(fault) BY <1>3, <2>1 DEF OidcDoor
  <2> QED BY <1>1, <1>3, <2>1, <2>2 DEF Refused, HoldsToken
<1>4. CASE Bearer(header) = "ok" /\ header.cred \in DOMAIN TokenOf
  <2>1. header.form = "bearer" BY <1>4 DEF Bearer
  <2>2. key \in {"found", "unknown", "unavailable"}
        /\ (key = "found" => t.kid \in Published) /\ (key = "unknown" => t.kid \notin Published)
    BY <1>4 DEF KeysFor
  <2>3. Decodes(config.oidc, t, now) <=>
          /\ t.signedBy = t.kid /\ now \in (t.nbf - Skew)..(t.exp + Skew)
          /\ t.iss = config.oidc.issuer /\ t.aud \cap config.oidc.accepted # {}
    <3>1. t.nbf \in Int /\ t.exp \in Int /\ Skew \in Int
      BY <1>4, EnvironmentsAssumption, MessagesAssumption
    <3> HIDE DEF t
    <3> QED BY <3>1 DEF Decodes
  <2>4. \A w : HoldsToken(header, w) <=>
          /\ w = User(t.iss, t.sub) /\ t.iss = config.oidc.issuer
          /\ t.alg \in {"RS256", "RS384", "RS512"} /\ t.signedBy = t.kid
          /\ t.kid \in Published \ (LongKids \cup {Blank})
          /\ t.aud \cap config.oidc.accepted # {} /\ HasScope(config.oidc, t)
          /\ config.oidc.directory \in {Blank, t.tid}
          /\ now \in (t.nbf - Skew)..(t.exp + Skew)
    BY <1>4, <2>1 DEF HoldsToken
  <2>5. fault = IF t.alg \notin {"RS256", "RS384", "RS512"} THEN "rejected"
                ELSE IF t.kid \in {Blank} \cup LongKids THEN "malformed"
                ELSE IF key = "unavailable" THEN "provider_unavailable"
                ELSE IF key = "unknown" \/ ~Decodes(config.oidc, t, now) THEN "rejected"
                ELSE IF config.oidc.directory # Blank /\ t.tid # config.oidc.directory
                     THEN "rejected"
                ELSE IF ~HasScope(config.oidc, t) THEN "rejected"
                ELSE "none"
    BY <1>4 DEF TokenFault
  <2>6. CASE fault = "none"
    <3>1. found = Accepted(User(t.iss, t.sub)) BY <1>4, <2>6 DEF OidcDoor
    <3>2. found.error = "none" /\ found.who = User(t.iss, t.sub) BY <3>1 DEF Accepted
    <3>3. found.who \in Everyone BY <1>4, <3>2 DEF Everyone
    <3> HIDE DEF found, t, fault
    <3>4. /\ t.alg \in {"RS256", "RS384", "RS512"} /\ t.kid \notin {Blank} \cup LongKids
          /\ key # "unavailable" /\ key # "unknown" /\ Decodes(config.oidc, t, now)
          /\ ~(config.oidc.directory # Blank /\ t.tid # config.oidc.directory)
          /\ HasScope(config.oidc, t)
      BY <2>5, <2>6
    <3>5. \A w : HoldsToken(header, w) <=> w = User(t.iss, t.sub)
      BY <2>2, <2>3, <2>4, <3>4
    <3> QED BY <1>1, <3>2, <3>3, <3>5
  <2>7. CASE fault # "none"
    <3>1. found = Refused(fault) BY <1>4, <2>7 DEF OidcDoor
    <3>2. found.error = fault BY <3>1 DEF Refused
    <3> HIDE DEF found, t, fault
    <3>3. fault = "provider_unavailable" => key = "unavailable" BY <2>5
    <3>4. fault # "provider_unavailable" => \A w : ~HoldsToken(header, w)
      BY <2>2, <2>3, <2>4, <2>5, <2>7
    <3> QED BY <1>1, <2>7, <3>2, <3>3, <3>4
  <2> QED BY <2>6, <2>7
<1> QED BY <1>2, <1>3, <1>4

-----------------------------------------------------------------------------
(* Answers.                                                                *)

(* Which action gives which answer.                                        *)
LEMMA WhoAnswers ==
  ASSUME Next
  PROVE  /\ answer'.op = "api" => Api
         /\ answer'.op = "mcp" => Mcp
         /\ answer'.op = "token" => Token
         /\ answer'.op = "callback" => CallbackArrives
         /\ answer'.op = "download" => Visit
         /\ answer'.op = "fetch" => Fetch
<1> USE DEF Reply, Nothing
<1>1. CASE Start BY <1>1 DEF Start
<1>2. CASE Stop BY <1>2 DEF Stop
<1>3. CASE Clock BY <1>3 DEF Clock
<1>4. CASE Authorize BY <1>4 DEF Authorize
<1>5. CASE CallbackArrives
  <2>1. \E f, q, sent : answer' = [op |-> "callback", fault |-> f, request |-> q, sent |-> sent]
    BY <1>5, Zenon DEF CallbackArrives
  <2> QED BY <1>5, <2>1
<1>6. CASE Token
  <2>1. \E q \in TokenRequests : \E f, sent :
          answer' = [op |-> "token", fault |-> f, request |-> q, sent |-> sent]
    BY <1>6, Zenon DEF Token
  <2> QED BY <1>6, <2>1
<1>7. CASE Register BY <1>7 DEF Register
<1>8. CASE Api BY <1>8 DEF Api, Entered
<1>9. CASE Mcp BY <1>9 DEF Mcp, Entered
<1>10. CASE Link BY <1>10 DEF Link
<1>11. CASE Visit BY <1>11 DEF Visit
<1>12. CASE VisitNobody BY <1>12 DEF VisitNobody
<1>13. CASE Fetch BY <1>13 DEF Fetch
<1>14. CASE \E p \in Openers : Ask(p) \/ Count(p) \/ Create(p) \/ HangUp(p)
  BY <1>14 DEF Ask, Count, Create, HangUp
<1>15. CASE \E i \in SessionIds : Close(i) BY <1>15 DEF Close
<1> QED BY <1>1, <1>2, <1>3, <1>4, <1>5, <1>6, <1>7, <1>8, <1>9, <1>10, <1>11, <1>12, <1>13, <1>14, <1>15 DEF Next

(* A request is served as the one its credential speaks for.               *)
LEMMA EnteredServed ==
  ASSUME GoodConfig(config), now \in Int, NEW header, NEW key, NEW opener, NEW route,
         Entered(route, header, key, opener),
         route = "api" \/ (route = "mcp" /\ config.oidc.on /\ key \in KeysFor(header.cred))
  PROVE  Served(answer')
<1> DEFINE found == Door(route, header, key)
           r == answer'
<1>1. /\ found.error = "none" =>
           /\ found.who \in Everyone
           /\ \A w : SpeaksFor(header, w, route) <=> w = found.who
      /\ found.error \notin {"none", "provider_unavailable"} =>
           \A w : ~SpeaksFor(header, w, route)
      /\ found.error = "provider_unavailable" => route = "mcp" /\ key = "unavailable"
  <2>1. CASE route = "api" BY <2>1, KeyDoorFinds DEF Door
  <2>2. CASE route = "mcp" BY <2>2, OidcDoorFinds DEF Door
  <2> QED BY <2>1, <2>2
<1>2. /\ r.op = route /\ r.header = header /\ r.key = key
      /\ r.status = IF found.error = "none" THEN "200" ELSE StatusOfRefusal(found.error)
      /\ found.error = "none" => r.tenant = Tenant(config.salt, found.who)
  BY DEF Entered, Reply, TenantServed
<1> HIDE DEF found
<1> SUFFICES
      LET callers == {w \in Everyone : SpeaksFor(r.header, w, r.op)}
          tenants == {w \in Everyone : Tenant(config.salt, w) = r.tenant}
      IN /\ r.status = "200" => callers # {} /\ tenants = callers
         /\ r.status = "401" => callers = {}
         /\ r.status = "503" => r.op = "mcp" /\ r.key = "unavailable"
  BY DEF Served
<1> HIDE DEF r
<1>3. CASE found.error = "none"
  <2>1. {w \in Everyone : SpeaksFor(r.header, w, r.op)} = {found.who} BY <1>1, <1>2, <1>3
  <2>2. {w \in Everyone : Tenant(config.salt, w) = r.tenant} = {found.who}
    BY <1>1, <1>2, <1>3, TenantsApart
  <2> QED BY <1>2, <1>3, <2>1, <2>2
<1>4. CASE found.error = "provider_unavailable"
  BY <1>1, <1>2, <1>4 DEF StatusOfRefusal
<1>5. CASE found.error \notin {"none", "provider_unavailable"}
  BY <1>1, <1>2, <1>5 DEF StatusOfRefusal
<1> QED BY <1>3, <1>4, <1>5

(* Every step that answers a caller does.                                  *)
LEMMA ServedStep ==
  ASSUME IInv, Next, answer'.op \in {"api", "mcp"}
  PROVE  Served(answer')
<1>1. GoodConfig(config) /\ now \in Int
  BY RunsOnGoodConfig, EnvironmentsAssumption DEF IInv, TypeOK
<1>2. CASE Api
  <2>1. PICK h \in Visitors : Entered("api", h, "found", Nobody) BY <1>2 DEF Api
  <2> QED BY <1>1, <2>1, EnteredServed
<1>3. CASE Mcp
  <2>1. PICK i \in DOMAIN sessions, h \in Headers : \E key \in KeysFor(h.cred) :
          Entered("mcp", h, key, sessions[i])
    BY <1>3 DEF Mcp
  <2>2. config.oidc.on BY <1>3 DEF Mcp, Relay
  <2> QED BY <1>1, <2>1, <2>2, EnteredServed
<1> QED BY <1>2, <1>3, WhoAnswers

(* Access's ServedAsThemselves: for any keys and tokens, a request that is *)
(* let in gets the tenant of the one its credential speaks for and of      *)
(* nobody else, whoever opened the session; one that is refused speaks for *)
(* nobody, unless the provider could not be asked (auth.rs, principal.rs,  *)
(* oidc.rs).                                                               *)
THEOREM CallersServedAsThemselves == Spec => ServedAsThemselves
<1>1. IInv /\ [Next]_vars =>
        (answer'.op \in {"api", "mcp"} => Served(answer')) \/ UNCHANGED vars
  BY ServedStep
<1> QED BY <1>1, Invariance, PTL DEF Spec, ServedAsThemselves

-----------------------------------------------------------------------------
(* Downloads.                                                              *)

(* Whoever a header speaks for, at either door, is who comes in; who does  *)
(* not come in is nobody, or could not be asked about.                     *)
LEMMA ShownFinds ==
  ASSUME GoodConfig(config), now \in Int, NEW header, NEW key \in KeysFor(header.cred)
  PROVE  LET found == Shown(header, key) IN
         /\ found.error = "none" =>
              /\ found.who \in Everyone
              /\ \A w : SpeaksFor(header, w, "api") \/ SpeaksFor(header, w, "mcp") <=> w = found.who
         /\ found.error # "none" =>
              \/ key = "unavailable"
              \/ \A w : ~SpeaksFor(header, w, "api") /\ ~SpeaksFor(header, w, "mcp")
         /\ found.error = "provider_unavailable" => key = "unavailable"
<1> DEFINE byKey == KeyDoor(config, header)
           byToken == OidcDoor(config, header, key, now)
           found == Shown(header, key)
<1> SUFFICES
      /\ found.error = "none" =>
           /\ found.who \in Everyone
           /\ \A w : SpeaksFor(header, w, "api") \/ SpeaksFor(header, w, "mcp") <=> w = found.who
      /\ found.error # "none" =>
           \/ key = "unavailable"
           \/ \A w : ~SpeaksFor(header, w, "api") /\ ~SpeaksFor(header, w, "mcp")
      /\ found.error = "provider_unavailable" => key = "unavailable"
  OBVIOUS
<1>1. /\ byKey.error = "none" => /\ byKey.who \in Everyone
                                 /\ \A w : SpeaksFor(header, w, "api") <=> w = byKey.who
      /\ byKey.error # "none" => \A w : ~SpeaksFor(header, w, "api")
      /\ byKey.error # "provider_unavailable"
  BY KeyDoorFinds
<1>2. config.oidc.on =>
        /\ byToken.error = "none" => /\ byToken.who \in Everyone
                                     /\ \A w : SpeaksFor(header, w, "mcp") <=> w = byToken.who
        /\ byToken.error \notin {"none", "provider_unavailable"} =>
             \A w : ~SpeaksFor(header, w, "mcp")
        /\ byToken.error = "provider_unavailable" => key = "unavailable"
  BY OidcDoorFinds
<1>3. ~config.oidc.on => \A w : ~SpeaksFor(header, w, "mcp") BY DEF SpeaksFor, HoldsToken
<1>4. byKey.error = "none" => \A w : ~SpeaksFor(header, w, "mcp")
  <2> SUFFICES ASSUME byKey.error = "none" PROVE \A w : ~SpeaksFor(header, w, "mcp")
    OBVIOUS
  <2>1. SpeaksFor(header, byKey.who, "api") BY <1>1
  <2>2. PICK k \in config.keys : [label |-> k.label, secret |-> header.cred] \in config.keys
    BY <2>1 DEF SpeaksFor, HoldsKey
  <2>3. header.cred \notin DOMAIN TokenOf BY <2>2 DEF GoodConfig
  <2> QED BY <2>3 DEF SpeaksFor, HoldsToken
<1>5. found = IF byKey.error = "none" \/ ~config.oidc.on THEN byKey ELSE byToken BY DEF Shown
<1> HIDE DEF byKey, byToken, found
<1>6. CASE byKey.error = "none" BY <1>1, <1>4, <1>5, <1>6
<1>7. CASE byKey.error # "none" /\ ~config.oidc.on BY <1>1, <1>3, <1>5, <1>7
<1>8. CASE byKey.error # "none" /\ config.oidc.on BY <1>1, <1>2, <1>5, <1>8
<1> QED BY <1>6, <1>7, <1>8

(* A query that carries a signature was made from a link: with its expiry  *)
(* or with another, which the signature does not cover.                    *)
LEMMA QueriesFromLinks ==
  ASSUME NEW q \in Queries
  PROVE  /\ q.form \in {"none", "garbled", "signed"}
         /\ q.form = "signed" => \E l \in links : q.sig = l.sig /\ q.exp \in {l.exp, l.exp + 1}
<1>1. CASE q = NoQuery BY <1>1 DEF NoQuery
<1>2. CASE q = [NoQuery EXCEPT !.form = "garbled"] BY <1>2 DEF NoQuery
<1>3. CASE \E l \in links : q = QueryOf(l) BY <1>3 DEF QueryOf
<1>4. CASE \E l \in links : q = [QueryOf(l) EXCEPT !.form = "none"] BY <1>4 DEF QueryOf
<1>5. CASE \E l \in links : q = [QueryOf(l) EXCEPT !.exp = @ + 1] BY <1>5 DEF QueryOf
<1> QED BY <1>1, <1>2, <1>3, <1>4, <1>5 DEF Queries

(* A signature is good exactly for the links this server's secret signed.  *)
LEMMA LinksOpen ==
  ASSUME LinksSigned, now \in Int, NEW job \in DOMAIN Docs, NEW q \in Queries,
         NEW r, r.job = job, r.query = q
  PROVE  LET link == Verify(config.signing, Docs[job].tenant, job, q, now) IN
         /\ link = "ok" <=> Linked(r)
         /\ link = "expired" => q.form = "signed" /\ q.exp <= now
<1> DEFINE link == Verify(config.signing, Docs[job].tenant, job, q, now)
<1>1. q.form \in {"none", "garbled", "signed"} BY QueriesFromLinks
<1>2. q.form = "signed" => q.exp \in Int BY QueriesFromLinks DEF LinksSigned
<1>3. ASSUME NEW l \in links
      PROVE  /\ l.sig.job = l.job /\ l.sig.tenant = Docs[l.job].tenant /\ l.sig.exp = l.exp
             /\ l.sig = Sign(l.sig.key, l.sig.tenant, l.sig.job, l.sig.exp) /\ l.exp \in Int
  <2>1. PICK k : l.sig = [key |-> k, tenant |-> l.tenant, job |-> l.job, exp |-> l.exp]
    BY <1>3 DEF LinksSigned, Sign
  <2>2. l.sig.key = k /\ l.sig.tenant = l.tenant /\ l.sig.job = l.job /\ l.sig.exp = l.exp
    BY <2>1
  <2> QED BY <1>3, <2>1, <2>2 DEF LinksSigned, Sign
<1>4. link = IF q.form = "none" THEN "missing"
             ELSE IF q.form = "garbled" THEN "invalid"
             ELSE IF q.exp <= now THEN "expired"
             ELSE IF q.sig # Sign(config.signing, Docs[job].tenant, job, q.exp) THEN "invalid"
             ELSE "ok"
  BY DEF Verify
<1> HIDE DEF link
<1>5. link = "ok" => Linked(r)
  <2> SUFFICES ASSUME link = "ok" PROVE Linked(r) OBVIOUS
  <2>1. q.form = "signed" /\ ~(q.exp <= now)
        /\ q.sig = Sign(config.signing, Docs[job].tenant, job, q.exp)
    BY <1>1, <1>4
  <2>2. PICK l \in links : q.sig = l.sig BY <2>1, QueriesFromLinks
  <2>3. l.sig.key = config.signing /\ l.sig.job = job /\ l.sig.exp = q.exp
    BY <2>1, <2>2 DEF Sign
  <2>4. l.job = job /\ l.exp = q.exp BY <1>3, <2>3
  <2> QED BY <1>2, <2>1, <2>2, <2>3, <2>4 DEF Linked
<1>6. Linked(r) => link = "ok"
  <2> SUFFICES ASSUME Linked(r) PROVE link = "ok" OBVIOUS
  <2>1. PICK l \in links : /\ l.job = job /\ l.exp = q.exp /\ l.sig = q.sig
                           /\ l.sig.key = config.signing /\ now < l.exp
    BY DEF Linked
  <2>2. q.form = "signed" BY DEF Linked
  <2>3. q.sig = Sign(config.signing, Docs[job].tenant, job, q.exp) BY <1>3, <2>1
  <2> QED BY <1>2, <1>4, <2>1, <2>2, <2>3
<1>7. link = "expired" => q.form = "signed" /\ q.exp <= now BY <1>1, <1>4
<1> QED BY <1>5, <1>6, <1>7 DEF link

(* download answers as it should, whatever it was asked with.              *)
LEMMA VisitJustified ==
  ASSUME IInv, Visit
  PROVE  Justified(answer')
<1>1. GoodConfig(config) /\ now \in Int /\ LinksSigned
  BY RunsOnGoodConfig, EnvironmentsAssumption DEF IInv, TypeOK
<1>2. PICK job \in DOMAIN Docs, h \in Visitors : \E key \in KeysFor(h.cred) : \E q \in Queries :
        answer' = [op |-> "download", job |-> job, header |-> h, query |-> q, key |-> key,
                   status |-> Admission(job, h, key, q)]
  BY Zenon DEF Visit, Reply
<1>3. PICK key \in KeysFor(h.cred), q \in Queries :
        answer' = [op |-> "download", job |-> job, header |-> h, query |-> q, key |-> key,
                   status |-> Admission(job, h, key, q)]
  BY <1>2
<1> DEFINE r == answer'
           found == Shown(h, key)
           link == Verify(config.signing, Docs[job].tenant, job, q, now)
<1>4. /\ r.job = job /\ r.header = h /\ r.query = q /\ r.key = key
      /\ r.status = Admission(job, h, key, q)
  BY <1>3
<1>5. r.status = IF IsOwner(found, Docs[job].tenant) \/ link = "ok" THEN "go"
                 ELSE IF link = "expired" THEN "410"
                 ELSE IF found.error = "provider_unavailable" THEN "503"
                 ELSE IF link = "missing" /\ h.form = "none" THEN "401"
                 ELSE "404"
  BY <1>4 DEF Admission
<1>6. /\ link = "ok" <=> Linked(r)
      /\ link = "expired" => q.form = "signed" /\ q.exp <= now
  <2> HIDE DEF r
  <2> QED BY <1>1, <1>4, LinksOpen
<1>7. /\ found.error = "none" =>
           /\ found.who \in Everyone
           /\ \A w : SpeaksFor(h, w, "api") \/ SpeaksFor(h, w, "mcp") <=> w = found.who
      /\ found.error # "none" =>
           key = "unavailable" \/ \A w : ~SpeaksFor(h, w, "api") /\ ~SpeaksFor(h, w, "mcp")
      /\ found.error = "provider_unavailable" => key = "unavailable"
  BY <1>1, ShownFinds
<1> HIDE DEF r, found, link
<1>8. Owned(r) <=>
        \E w \in Everyone :
          /\ Docs[job].tenant.of = Identity(w) /\ Docs[job].tenant.salt = config.salt
          /\ SpeaksFor(h, w, "api") \/ SpeaksFor(h, w, "mcp")
  BY <1>4 DEF Owned
<1>9. Docs[job].tenant = [salt |-> Docs[job].tenant.salt, of |-> Docs[job].tenant.of]
  BY MessagesAssumption
<1>10. IsOwner(found, Docs[job].tenant) => Owned(r)
  BY <1>7, <1>8 DEF IsOwner, Tenant
<1>11. Owned(r) => IsOwner(found, Docs[job].tenant) \/ key = "unavailable"
  BY <1>7, <1>8, <1>9 DEF IsOwner, Tenant
<1>12. /\ r.status = "go" <=> IsOwner(found, Docs[job].tenant) \/ link = "ok"
       /\ r.status = "410" => link = "expired"
       /\ r.status = "503" => found.error = "provider_unavailable"
  BY <1>5
<1>13. Justified(r) BY <1>4, <1>6, <1>7, <1>10, <1>11, <1>12 DEF Justified
<1> QED BY <1>13 DEF r

(* Access's DownloadsJustified: for any documents, links and callers, a    *)
(* download goes to the owner or to a live link that this server signed    *)
(* for that document, and is refused to neither (signing.rs, api.rs        *)
(* download).                                                              *)
THEOREM DownloadsHaveReason == Spec => DownloadsJustified
<1> DEFINE Right ==
      /\ answer'.op = "fetch" => (answer'.status = "200") = Live(visit.job)
      /\ answer'.op = "download" => Justified(answer')
<1>1. ASSUME IInv, [Next]_vars PROVE Right \/ UNCHANGED vars
  <2>1. Fetch => (answer'.status = "200") = Live(visit.job) BY DEF Fetch, Reply, Live
  <2> QED BY <1>1, <2>1, WhoAnswers, VisitJustified
<1> QED BY <1>1, Invariance, PTL DEF Spec, DownloadsJustified

-----------------------------------------------------------------------------
(* Logins end where they began.                                            *)

(* What a code that was exchanged, or was not, says for itself.            *)
LEMMA CodeJudged ==
  ASSUME GoodConfig(config), now \in Int, StatesSealed, CodesSealed,
         NEW redirect, NEW c \in states \cup codes, NEW v, NEW q,
         q = TokenRequest("authorization_code", <<redirect>>, <<c>>, <<v>>)
  PROVE  LET fault == TokenRequestFault(config, q, now) IN
         /\ fault = "ok" => c \in codes /\ Began(q, c)
         /\ fault # "ok" =>
              \/ c \notin codes \/ c.key # config.signing \/ ~Within(c.body.issued, now)
              \/ c.body.redirect # redirect \/ <<v, c.body.challenge>> \notin Answering
              \/ ~IsAllowedRedirect(config.redirects, redirect)
<1> DEFINE fault == TokenRequestFault(config, q, now)
<1>1. /\ q.client_id = <<config.dcr>> /\ q.grant_type = <<"authorization_code">>
      /\ q.redirect_uri = <<redirect>> /\ q.code = <<c>> /\ q.verifier = <<v>>
  BY DEF TokenRequest
<1>2. \A x : Once(<<x>>) /\ Is(<<x>>, x) /\ <<x>>[1] = x BY DEF Once, Is
<1>3. fault = CodeFault(config, q, now)
  BY <1>1, <1>2 DEF TokenRequestFault, ClientFault
<1>4. fault = IF ~IsAllowedRedirect(config.redirects, redirect) THEN "unregistered"
              ELSE IF v \notin DOMAIN ChallengeOf THEN "code_verifier"
              ELSE IF ~OpensCode(c, config.signing, now) THEN "expired"
              ELSE IF ~Bound(c.body, q) THEN "mismatch"
              ELSE "ok"
  <2> HIDE DEF fault
  <2> QED BY <1>1, <1>2, <1>3 DEF CodeFault
<1>5. Bound(c.body, q) <=> c.body.redirect = redirect /\ ChallengeOf[v] = c.body.challenge
  BY <1>1, <1>2 DEF Bound
<1>6. OpensCode(c, config.signing, now) <=>
        c.domain = "oauth-code" /\ c.key = config.signing /\ Timely(c.body.issued, now)
  BY DEF OpensCode
<1>7. c \in codes <=> c.domain = "oauth-code" BY DEF StatesSealed, CodesSealed
<1>8. c \in codes => (Timely(c.body.issued, now) <=> Within(c.body.issued, now))
  BY TimelyIsWithin DEF CodesSealed
<1>9. v \in DOMAIN ChallengeOf /\ ChallengeOf[v] = c.body.challenge <=>
        <<v, c.body.challenge>> \in Answering
  BY DEF Answering
<1> HIDE DEF fault
<1>10. fault = "ok" => c \in codes /\ Began(q, c)
  <2> SUFFICES ASSUME fault = "ok" PROVE c \in codes /\ Began(q, c) OBVIOUS
  <2>1. /\ OpensCode(c, config.signing, now)
        /\ c.body.redirect = redirect /\ ChallengeOf[v] = c.body.challenge
    BY <1>4, <1>5
  <2>2. c \in codes /\ c.key = config.signing /\ Within(c.body.issued, now)
    BY <1>6, <1>7, <1>8, <2>1
  <2>3. PICK s \in states : /\ s.key = c.key /\ s.body.redirect = c.body.redirect
                            /\ s.body.challenge = c.body.challenge
                            /\ Within(s.body.issued, c.body.issued)
    BY <2>2 DEF CodesSealed
  <2> QED BY <1>1, <1>2, <2>1, <2>2, <2>3 DEF Began
<1>11. ASSUME fault # "ok"
       PROVE  \/ c \notin codes \/ c.key # config.signing \/ ~Within(c.body.issued, now)
              \/ c.body.redirect # redirect \/ <<v, c.body.challenge>> \notin Answering
              \/ ~IsAllowedRedirect(config.redirects, redirect)
  BY <1>4, <1>5, <1>6, <1>7, <1>8, <1>9, <1>11
<1> QED BY <1>10, <1>11 DEF fault

(* token answers an exchange as it should, whatever it was sent.           *)
LEMMA TokenExchanges ==
  ASSUME IInv, Token, answer'.request.grant_type[1] = "authorization_code"
  PROVE  Exchanged(answer'.request, answer')
<1>1. GoodConfig(config) /\ now \in Int /\ StatesSealed /\ CodesSealed
  BY RunsOnGoodConfig, EnvironmentsAssumption DEF IInv, TypeOK
<1>2. PICK q \in TokenRequests :
        answer' = [op |-> "token", fault |-> TokenRequestFault(config, q, now), request |-> q,
                   sent |-> IF TokenRequestFault(config, q, now) = "ok"
                            THEN {Posted(config, q)} ELSE {}]
  BY Zenon DEF Token, Reply
<1> DEFINE r == answer'
           fault == TokenRequestFault(config, q, now)
<1>3. r.request = q /\ r.fault = fault /\ r.sent \subseteq {Posted(config, q)}
  BY <1>2
<1>4. PICK redirect \in Redirects, c \in states \cup codes, v \in Verifiers :
        q = TokenRequest("authorization_code", <<redirect>>, <<c>>, <<v>>)
  <2>1. ASSUME NEW grant \in {"refresh_token", "password"}
        PROVE  q # TokenRequest(grant, <<>>, <<>>, <<>>)
    BY <1>3, <2>1 DEF TokenRequest
  <2> QED BY <2>1 DEF TokenRequests
<1>5. /\ q.grant_type = <<"authorization_code">>
      /\ q.redirect_uri = <<redirect>> /\ q.code = <<c>> /\ q.verifier = <<v>>
      /\ q.resource = <<McpResource(config.public), <<"elsewhere">>>>
  BY <1>4 DEF TokenRequest
<1>6. /\ fault = "ok" => c \in codes /\ Began(q, c)
      /\ fault # "ok" =>
           \/ c \notin codes \/ c.key # config.signing \/ ~Within(c.body.issued, now)
           \/ c.body.redirect # redirect \/ <<v, c.body.challenge>> \notin Answering
           \/ ~IsAllowedRedirect(config.redirects, redirect)
  BY <1>1, <1>4, CodeJudged
<1>7. Resources(config, q.resource) = {}
  <2>1. 2 \in DOMAIN q.resource /\ q.resource[2] = <<"elsewhere">> BY <1>5
  <2>2. ~IsOurs(config, <<"elsewhere">>) BY <1>1 DEF IsOurs, McpResource, GoodConfig
  <2> QED BY <2>1, <2>2 DEF Resources
<1>8. Posted(config, q).upstream = {c.body.upstream} /\ Posted(config, q).resource = {}
  BY <1>5, <1>7 DEF Posted
<1> HIDE DEF r, fault
<1>9. Exchanged(q, r) BY <1>3, <1>5, <1>6, <1>8 DEF Exchanged
<1> QED BY <1>3, <1>9 DEF r

(* callback sends whoever comes from the provider to where they began.     *)
LEMMA CallbackSendsBack ==
  ASSUME IInv, CallbackArrives, NEW back \in answer'.sent
  PROVE  SentBack(back)
<1>1. StatesSealed /\ CodesSealed BY DEF IInv
<1>2. PICK s \in states \cup codes :
        \E challenges \in {<<>>} \cup {<<l.body.challenge>> : l \in states} :
          LET q == CallbackRequest(s, challenges)
              fault == CallbackFault(config, q, now)
          IN answer' = [op |-> "callback", fault |-> fault, request |-> q,
                        sent |-> IF fault = "ok" THEN {Returned(config, q, now)} ELSE {}]
  BY DEF CallbackArrives, Reply
<1>3. PICK challenges \in {<<>>} \cup {<<l.body.challenge>> : l \in states} :
        LET q == CallbackRequest(s, challenges)
            fault == CallbackFault(config, q, now)
        IN answer' = [op |-> "callback", fault |-> fault, request |-> q,
                      sent |-> IF fault = "ok" THEN {Returned(config, q, now)} ELSE {}]
  BY <1>2
<1> DEFINE q == CallbackRequest(s, challenges)
<1>4. back = Returned(config, q, now) /\ CallbackFault(config, q, now) = "ok" BY <1>3
<1>5. q.state[1] = s BY DEF CallbackRequest
<1> HIDE DEF q
<1>6. OpensState(s, config.signing, now) BY <1>4, <1>5 DEF CallbackFault
<1>7. s \in states /\ s.key = config.signing BY <1>1, <1>6, OnlyStatesOpen
<1>8. back.redirect = s.body.redirect /\ back.state = s.body.state BY <1>4, <1>5 DEF Returned
<1> QED BY <1>1, <1>7, <1>8 DEF SentBack, StatesSealed

(* Access's RelaysExactly: for any configurations, clients and messages    *)
(* replayed, mixed up or kept over a restart, a code is exchanged by the   *)
(* client whose flow it ends and by nobody else, and a login goes back to  *)
(* a redirect that was allowed when it began (oauth_proxy.rs token,        *)
(* callback).                                                              *)
THEOREM LoginsRelayed == Spec => RelaysExactly
<1> DEFINE Right ==
      /\ answer'.op = "token" /\ answer'.request.grant_type[1] = "authorization_code" =>
           Exchanged(answer'.request, answer')
      /\ answer'.op = "callback" => \A back \in answer'.sent : SentBack(back)
<1>1. ASSUME IInv, [Next]_vars PROVE Right \/ UNCHANGED vars
  BY <1>1, WhoAnswers, TokenExchanges, CallbackSendsBack
<1> QED BY <1>1, Invariance, PTL DEF Spec, RelaysExactly
=============================================================================
