------------------------------- MODULE Access -------------------------------
(***************************************************************************)
(* Who may do what, and with what they are answered: the router and the    *)
(* download handler of src/src/api.rs over the checks of Credentials, the  *)
(* relay of OAuthRelay, and the capped sessions of src/src/session.rs, on  *)
(* a server that is started and restarted as src/src/server.rs does.       *)
(*                                                                         *)
(* Messages are never lost track of: a state, a code or a link that was    *)
(* handed out may come back at any time, any number of times, also after   *)
(* a restart, in the hands of either client.  The wall clock may be set    *)
(* back.                                                                   *)
(***************************************************************************)
EXTENDS OAuthRelay

CONSTANTS
  Environments,     \* what the operator may start the server with
  ClientRequests,   \* what clients send to /authorize
  Redirects, Verifiers, \* what they may say at /token
  Headers,          \* Authorization headers sent to /mcp
  Visitors,         \* those sent to /api/v1 and with a download
  Registrations,    \* redirects asked for at /register
  Docs,             \* of each stored document, its tenant and when it expires
  Wishes,           \* ttl_seconds asked for a link
  SessionIds, Openers, \* sessions, and tokens whose holders ask for one
  NoId,
  MaxTime, MaxOutstanding \* bounds

(* What is read is what these say it is: lists, amounts, secrets that are  *)
(* the same when their names are.  No API key is a token, and this server  *)
(* is not the other one clients may name.  One environment is in order.    *)
IsList(s) == s \in Seq(Members(s))
ASSUME EnvironmentsAssumption ==
  /\ \E e \in Environments : ConfigFault(e) = "ok"
  /\ \A e \in Environments :
       /\ IsList(e.keys) /\ IsList(e.redirects) /\ e.public # "elsewhere"
       /\ {e.linkTtl.amount, e.sessions.amount} \subseteq Nat
       /\ \A k \in Members(e.keys) :
            /\ k.secret.name \notin DOMAIN TokenOf
            /\ \A l \in Members(e.keys) : k.secret.name = l.secret.name => k.secret = l.secret
  /\ {DefaultLinkTtl, DefaultSessions, Skew, PendingTtl, MaxTime} \cup Wishes \subseteq Nat
ASSUME MessagesAssumption ==
  /\ \A c \in DOMAIN TokenOf : {TokenOf[c].nbf, TokenOf[c].exp} \subseteq Int
  /\ \A d \in DOMAIN Docs :
       Docs[d].tenant = [salt |-> Docs[d].tenant.salt, of |-> Docs[d].tenant.of]

VARIABLES
  up, config,       \* whether the server runs, and what it read
  now,              \* wall clock
  states, codes, links, \* sealed states, sealed codes and links handed out
  visit,            \* the download under way
  sessions,         \* of each MCP session, who opened it (that much is history)
  line,             \* of each opener, how far it is
  answer            \* the request answered last, and the answer

relayVars == <<states, codes>>
sessionVars == <<sessions, line>>
serverVars == <<up, config>>
vars == <<serverVars, now, relayVars, links, visit, sessionVars, answer>>

NoVisit == [stage |-> "none"]
Idle == [stage |-> "idle"]
Nothing == [op |-> "none"]
Outstanding ==
  Cardinality(states) + Cardinality(codes) + Cardinality(links)
    + Cardinality(DOMAIN sessions) + Cardinality({p \in Openers : line[p] # Idle})
    + Cardinality({visit} \ {NoVisit})
Room == Outstanding < MaxOutstanding

Init ==
  /\ up = FALSE /\ config = ConfigOf(CHOOSE e \in Environments : ConfigFault(e) = "ok")
  /\ now = 0 /\ states = {} /\ codes = {} /\ links = {}
  /\ visit = NoVisit /\ sessions = [i \in {} |-> Nobody] /\ line = [p \in Openers |-> Idle]
  /\ answer = Nothing

-----------------------------------------------------------------------------
(* Starting, stopping, time.                                               *)

(* Anything wrong with its environment, and the server does not start.     *)
Start ==
  /\ ~up /\ \E e \in Environments :
       IF ConfigFault(e) = "ok" THEN config' = ConfigOf(e) /\ up' = TRUE
       ELSE UNCHANGED serverVars
  /\ answer' = Nothing /\ UNCHANGED <<now, relayVars, links, visit, sessionVars>>
(* Stopped or crashed: sessions and requests under way are gone.           *)
Stop ==
  /\ up /\ up' = FALSE /\ visit' = NoVisit
  /\ sessions' = [i \in {} |-> Nobody] /\ line' = [p \in Openers |-> Idle]
  /\ answer' = Nothing /\ UNCHANGED <<config, now, relayVars, links>>
Clock ==
  /\ \/ now < MaxTime /\ now' = now + 1
     \/ now > 0 /\ now' = now - 1
  /\ answer' = Nothing /\ UNCHANGED <<serverVars, relayVars, links, visit, sessionVars>>

Reply(a) == answer' = a
Same == UNCHANGED <<serverVars, now>>

-----------------------------------------------------------------------------
(* The relay; its routes exist when OIDC is configured.                    *)

Relay == up /\ config.oidc.on

Authorize ==
  /\ Relay /\ Room /\ \E q \in ClientRequests :
       LET fault == AuthorizeFault(config, q) IN
       /\ states' = IF fault = "ok" THEN states \cup {Forwarded(config, q, now).state} ELSE states
       /\ Reply([op |-> "authorize", fault |-> fault, request |-> q,
                 sent |-> IF fault = "ok" THEN {Forwarded(config, q, now)} ELSE {}])
  /\ Same /\ UNCHANGED <<codes, links, visit, sessionVars>>

(* The provider's redirect: with a code, named by the challenge it was     *)
(* given for, with an error, or the code that was another login's.         *)
CallbackRequest(sealed, challenges) ==
  [state |-> <<sealed>>, code |-> challenges, error |-> IF challenges = <<>> THEN <<"denied">> ELSE <<>>]
CallbackArrives ==
  /\ Relay /\ Room /\ \E s \in states \cup codes :
       \E challenges \in {<<>>} \cup {<<l.body.challenge>> : l \in states} :
         LET q == CallbackRequest(s, challenges)
             fault == CallbackFault(config, q, now)
         IN /\ codes' = IF fault = "ok" THEN codes \cup Returned(config, q, now).codes ELSE codes
            /\ Reply([op |-> "callback", fault |-> fault, request |-> q,
                      sent |-> IF fault = "ok" THEN {Returned(config, q, now)} ELSE {}])
  /\ Same /\ UNCHANGED <<states, links, visit, sessionVars>>

TokenRequest(grant, redirect, code, verifier) ==
  [client_id |-> <<config.dcr>>, grant_type |-> <<grant>>, redirect_uri |-> redirect,
   code |-> code, verifier |-> verifier, scope |-> <<>>,
   resource |-> <<McpResource(config.public), <<"elsewhere">>>>]
TokenRequests ==
  {TokenRequest("authorization_code", <<r>>, <<c>>, <<v>>) :
     r \in Redirects, c \in states \cup codes, v \in Verifiers}
  \cup {TokenRequest(grant, <<>>, <<>>, <<>>) : grant \in {"refresh_token", "password"}}
(* The exchange at /token, or a refresh, which is passed on as it is; the  *)
(* provider may be out of reach, which costs the caller a retry.           *)
Token ==
  /\ Relay
  /\ \E q \in TokenRequests :
       LET fault == TokenRequestFault(config, q, now) IN
       Reply([op |-> "token", fault |-> fault, request |-> q,
              sent |-> IF fault = "ok" THEN {Posted(config, q)} ELSE {}])
  /\ Same /\ UNCHANGED <<relayVars, links, visit, sessionVars>>

Register ==
  /\ up /\ \E uris \in Registrations :
       Reply([op |-> "register", fault |-> RegisterFault(config, uris), request |-> uris,
              sent |-> {}])
  /\ Same /\ UNCHANGED <<relayVars, links, visit, sessionVars>>

-----------------------------------------------------------------------------
(* The doors: /api/v1 asks for a key, /mcp for a token.                    *)

Door(route, header, key) ==
  IF route = "api" THEN KeyDoor(config, header) ELSE OidcDoor(config, header, key, now)
(* A request that comes in is for the tenant of who sends it; the variant  *)
(* takes the session's opener instead.                                     *)
TenantOfSession(caller, opener) ==
  Tenant(config.salt, IF opener = Nobody THEN caller ELSE opener)
TenantServed(caller, opener) == Tenant(config.salt, caller)
Entered(route, header, key, opener) ==
  LET found == Door(route, header, key) IN
  Reply([op |-> route, header |-> header, key |-> key,
         status |-> IF found.error = "none" THEN "200" ELSE StatusOfRefusal(found.error),
         tenant |-> IF found.error = "none" THEN TenantServed(found.who, opener)
                    ELSE Tenant(Blank, Nobody)])

Api ==
  /\ up /\ \E h \in Visitors : Entered("api", h, "found", Nobody)
  /\ Same /\ UNCHANGED <<relayVars, links, visit, sessionVars>>
(* A tool call in a session, which need not be one's own.                  *)
Mcp ==
  /\ Relay /\ \E i \in DOMAIN sessions : \E h \in Headers : \E key \in KeysFor(h.cred) :
       Entered("mcp", h, key, sessions[i])
  /\ Same /\ UNCHANGED <<relayVars, links, visit, sessionVars>>

-----------------------------------------------------------------------------
(* CappedSessionManager.  The creation mutex is held from the count to the *)
(* end of the creation; closing asks for no mutex.                         *)

Holders == {p \in Openers : line[p].stage = "counted"}
(* A variant of the lock that is let go of too early.                      *)
CreationUnguarded == TRUE
CreationFree == Holders = {}
HasCapacity == Cardinality(DOMAIN sessions) < config.maxSessions
Step(p, at) == line' = [line EXCEPT ![p] = at]

Ask(p) ==
  /\ Relay /\ Room /\ line[p] = Idle
  /\ \E key \in KeysFor(p) : \E want \in SessionIds \cup {NoId} :
       LET found == Door("mcp", [form |-> "bearer", cred |-> p], key) IN
       /\ found.error = "none"
       /\ Step(p, [stage |-> "waiting", who |-> found.who, want |-> want])
  /\ answer' = Nothing /\ Same /\ UNCHANGED <<relayVars, links, visit, sessions>>
(* create_session, or restore_session of an id, which may be there.        *)
Count(p) ==
  /\ line[p].stage = "waiting" /\ CreationFree
  /\ CASE line[p].want \in DOMAIN sessions ->
            Step(p, Idle) /\ Reply([op |-> "session", outcome |-> "already_present"])
       [] line[p].want \notin DOMAIN sessions /\ ~HasCapacity ->
            Step(p, Idle) /\ Reply([op |-> "session", outcome |-> "capacity"])
       [] OTHER -> Step(p, [line[p] EXCEPT !.stage = "counted"]) /\ answer' = Nothing
  /\ Same /\ UNCHANGED <<relayVars, links, visit, sessions>>
Create(p) ==
  /\ line[p].stage = "counted"
  /\ \E i \in SessionIds :
       /\ IF line[p].want = NoId THEN i \notin DOMAIN sessions ELSE i = line[p].want
       /\ sessions' = [j \in DOMAIN sessions \cup {i} |-> IF j = i THEN line[p].who ELSE sessions[j]]
  /\ Step(p, Idle) /\ Reply([op |-> "session", outcome |-> "created"])
  /\ Same /\ UNCHANGED <<relayVars, links, visit>>
(* The client hangs up, and the guard goes with the future.                *)
HangUp(p) ==
  /\ line[p] # Idle /\ Step(p, Idle) /\ answer' = Nothing
  /\ Same /\ UNCHANGED <<relayVars, links, visit, sessions>>
Close(i) ==
  /\ i \in DOMAIN sessions /\ sessions' = [j \in DOMAIN sessions \ {i} |-> sessions[j]]
  /\ answer' = Nothing /\ Same /\ UNCHANGED <<relayVars, links, visit, line>>

-----------------------------------------------------------------------------
(* Links and downloads.                                                    *)

(* link: for a document that is there, no longer than the server's ttl.    *)
Ttl(wish) == IF wish < config.linkTtl THEN wish ELSE config.linkTtl
Live(job) == now < Docs[job].expires
Link ==
  /\ up /\ Room /\ \E job \in DOMAIN Docs : \E wish \in Wishes :
       /\ Live(job) /\ Docs[job].tenant.salt = config.salt
       /\ links' = links \cup
            {[job |-> job, tenant |-> Docs[job].tenant, exp |-> now + Ttl(wish),
              sig |-> Sign(config.signing, Docs[job].tenant, job, now + Ttl(wish))]}
  /\ answer' = Nothing /\ Same /\ UNCHANGED <<relayVars, visit, sessionVars>>

NoQuery == [form |-> "none", exp |-> 0, sig |-> NoSignature]
QueryOf(l) == [form |-> "signed", exp |-> l.exp, sig |-> l.sig]
(* What a link became on its way: whole, its signature cut off, its expiry *)
(* mistyped.                                                               *)
Queries ==
  {NoQuery, [NoQuery EXCEPT !.form = "garbled"]} \cup {QueryOf(l) : l \in links}
    \cup {[QueryOf(l) EXCEPT !.form = "none"] : l \in links}
    \cup {[QueryOf(l) EXCEPT !.exp = @ + 1] : l \in links}

(* The key door first, then, if it is shut for any reason, the other.      *)
Shown(header, key) ==
  LET byKey == KeyDoor(config, header) IN
  IF byKey.error = "none" \/ ~config.oidc.on THEN byKey
  ELSE OidcDoor(config, header, key, now)
IsOwner(found, tenant) == found.error = "none" /\ Tenant(config.salt, found.who) = tenant
(* download up to the store: the owner needs no link, and who has none is  *)
(* told why, but never whether the document is there.  What comes before   *)
(* the provider's answer reads nothing that changes, so this is one step.  *)
Admission(job, header, key, query) ==
  LET found == Shown(header, key)
      link == Verify(config.signing, Docs[job].tenant, job, query, now)
  IN IF IsOwner(found, Docs[job].tenant) \/ link = "ok" THEN "go"
     ELSE IF link = "expired" THEN "410"
     ELSE IF found.error = "provider_unavailable" THEN "503"
     ELSE IF link = "missing" /\ header.form = "none" THEN "401"
     ELSE "404"
Visit ==
  /\ up /\ visit = NoVisit /\ Room
  /\ \E job \in DOMAIN Docs : \E h \in Visitors : \E key \in KeysFor(h.cred) : \E q \in Queries :
       LET status == Admission(job, h, key, q) IN
       /\ visit' = IF status = "go" THEN [stage |-> "admitted", job |-> job] ELSE NoVisit
       /\ Reply([op |-> "download", job |-> job, header |-> h, query |-> q, key |-> key,
                 status |-> status])
  /\ Same /\ UNCHANGED <<relayVars, links, sessionVars>>
(* A tenant that has not the form of one is not looked for.                *)
VisitNobody ==
  /\ up /\ Reply([op |-> "nobody", status |-> "404"])
  /\ Same /\ UNCHANGED <<relayVars, links, visit, sessionVars>>
(* Store::get, by its own clock reading.                                   *)
Fetch ==
  /\ visit.stage = "admitted" /\ visit' = NoVisit
  /\ Reply([op |-> "fetch", status |-> IF Live(visit.job) THEN "200" ELSE "410"])
  /\ Same /\ UNCHANGED <<relayVars, links, sessionVars>>

-----------------------------------------------------------------------------
Next ==
  \/ Start \/ Stop \/ Clock
  \/ Authorize \/ CallbackArrives \/ Token \/ Register
  \/ Api \/ Mcp
  \/ \E p \in Openers : Ask(p) \/ Count(p) \/ Create(p) \/ HangUp(p)
  \/ \E i \in SessionIds : Close(i)
  \/ Link \/ Visit \/ VisitNobody \/ Fetch

Spec == Init /\ [][Next]_vars

(* What the state is but for answer, which no action reads and no          *)
(* invariant mentions, and for what a server that is down last ran with.   *)
AllButAnswer ==
  <<up, IF up THEN {config} ELSE {}, now, relayVars, links, visit, sessionVars>>

-----------------------------------------------------------------------------
(* Properties.                                                             *)

(* Types; and a server that runs has a door, and redirects for the clients *)
(* it registers.                                                           *)
TypeOK ==
  /\ now \in 0..MaxTime /\ DOMAIN sessions \subseteq SessionIds
  /\ \A s \in states : s.domain = "oauth-state"
  /\ \A c \in codes : c.domain = "oauth-code"
  /\ visit.stage = "admitted" => visit.job \in DOMAIN Docs
  /\ up => /\ config.keys # {} \/ config.oidc.on
           /\ config.dcr # Blank => config.redirects # {}

(* However creations, restorations and closings interleave, there are      *)
(* never more sessions than max_mcp_sessions (session.rs:55).              *)
SessionsWithinCap == Cardinality(DOMAIN sessions) <= config.maxSessions

Answering == {<<v, ChallengeOf[v]>> : v \in DOMAIN ChallengeOf}
Within(issued, at) == at - issued \in (-Skew)..(PendingTtl - 1)
Began(q, c) ==
  \E s \in states :
    /\ s.key = config.signing /\ s.body.redirect = q.redirect_uri[1]
    /\ s.body.challenge = ChallengeOf[q.verifier[1]]
    /\ Within(s.body.issued, c.body.issued) /\ Within(c.body.issued, now)
(* The redirect of a flow was allowed when it began; the operator may have *)
(* taken it off the list since.                                            *)
WasAllowed(s) ==
  \E e \in Environments :
    /\ ConfigFault(e) = "ok" /\ e.signing.name = s.key
    /\ IsAllowedRedirect(Members(e.redirects), s.body.redirect)
(* A code is exchanged by the client whose flow it ends, in time, at the   *)
(* redirect it began with, for this server and no other; and whoever does  *)
(* so is not turned away, whatever else was replayed, mixed up or restarted*)
(* in between.  A callback goes back to where its flow began, with the     *)
(* client's own state (oauth_proxy.rs:344, token).                         *)
Exchanged(q, r) ==
  LET c == q.code[1] IN
  /\ r.fault = "ok" =>
       /\ c \in codes /\ Began(q, c)
       /\ \A p \in r.sent : p.upstream = {c.body.upstream} /\ p.resource = {}
  /\ r.fault # "ok" =>
       \/ c \notin codes \/ c.key # config.signing \/ ~Within(c.body.issued, now)
       \/ c.body.redirect # q.redirect_uri[1]
       \/ <<q.verifier[1], c.body.challenge>> \notin Answering
       \/ ~IsAllowedRedirect(config.redirects, q.redirect_uri[1])
SentBack(back) ==
  \E s \in states : /\ s.body.redirect = back.redirect /\ s.body.state = back.state
                    /\ s.key = config.signing /\ WasAllowed(s)
RelaysExactly ==
  [][/\ answer'.op = "token" /\ answer'.request.grant_type[1] = "authorization_code" =>
          Exchanged(answer'.request, answer')
     /\ answer'.op = "callback" => \A back \in answer'.sent : SentBack(back)]_vars

(* Who a header speaks for, said without the code's order of checks.       *)
HoldsKey(header, label) ==
  header.form = "bearer" /\ [label |-> label, secret |-> header.cred] \in config.keys
HoldsToken(header, who) ==
  /\ config.oidc.on /\ header.form = "bearer" /\ header.cred \in DOMAIN TokenOf
  /\ LET t == TokenOf[header.cred] IN
     /\ who = User(t.iss, t.sub) /\ t.iss = config.oidc.issuer
     /\ t.alg \in {"RS256", "RS384", "RS512"} /\ t.signedBy = t.kid
     /\ t.kid \in Published \ (LongKids \cup {Blank})
     /\ t.aud \cap config.oidc.accepted # {} /\ HasScope(config.oidc, t)
     /\ config.oidc.directory \in {Blank, t.tid}
     /\ now \in (t.nbf - Skew)..(t.exp + Skew)
SpeaksFor(header, who, route) ==
  IF route = "api" THEN \E k \in config.keys : who = Service(k.label) /\ HoldsKey(header, k.label)
  ELSE HoldsToken(header, who)
Everyone ==
  {Service(k.label) : k \in config.keys}
    \cup {User(TokenOf[c].iss, TokenOf[c].sub) : c \in DOMAIN TokenOf}
(* A request is served in the name of the one its credential speaks for,   *)
(* whoever opened the session, and in no other's: no two callers share a   *)
(* tenant.  Who can show a good credential is let in unless the provider   *)
(* is out of reach, and only then is told to come back later.              *)
Served(r) ==
  LET callers == {w \in Everyone : SpeaksFor(r.header, w, r.op)}
      tenants == {w \in Everyone : Tenant(config.salt, w) = r.tenant}
  IN /\ r.status = "200" => callers # {} /\ tenants = callers
     /\ r.status = "401" => callers = {}
     /\ r.status = "503" => r.op = "mcp" /\ r.key = "unavailable"
ServedAsThemselves == [][answer'.op \in {"api", "mcp"} => Served(answer')]_vars

Owned(v) ==
  \E w \in Everyone : /\ Docs[v.job].tenant.of = Identity(w) /\ Docs[v.job].tenant.salt = config.salt
                      /\ SpeaksFor(v.header, w, "api") \/ SpeaksFor(v.header, w, "mcp")
Linked(v) ==
  /\ v.query.form = "signed"
  /\ \E l \in links : /\ l.job = v.job /\ l.exp = v.query.exp /\ l.sig = v.query.sig
                      /\ l.sig.key = config.signing /\ now < l.exp
(* A document goes to its owner and to who has a live link to it, at once  *)
(* or, if it expires in between, not at all; the owner is turned away only *)
(* when the provider cannot be asked, and a link only when it has expired  *)
(* (signing.rs:100, api.rs download).                                      *)
Justified(r) ==
  /\ r.status = "go" => Owned(r) \/ Linked(r)
  /\ Linked(r) => r.status = "go"
  /\ Owned(r) /\ r.status # "go" => r.key = "unavailable"
  /\ r.status = "410" => r.query.form = "signed" /\ r.query.exp <= now
  /\ r.status = "503" => r.key = "unavailable"
DownloadsJustified ==
  [][/\ answer'.op = "fetch" => (answer'.status = "200") = Live(visit.job)
     /\ answer'.op = "download" => Justified(answer')]_vars
=============================================================================
