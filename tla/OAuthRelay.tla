----------------------------- MODULE OAuthRelay -----------------------------
(***************************************************************************)
(* The OAuth relay in front of the identity provider:                      *)
(* src/src/oauth_proxy.rs, with registration of src/src/oauth_metadata.rs. *)
(* It keeps nothing: what it must remember travels through the client and  *)
(* the provider as sealed messages.                                        *)
(*                                                                         *)
(* A request maps each parameter to the list of its values; one that is    *)
(* there once is usable.  A seal is the domain and the secret it was made  *)
(* under.                                                                  *)
(***************************************************************************)
EXTENDS Credentials

CONSTANTS
  PendingTtl,       \* PENDING_TTL
  ChallengeOf,      \* of each verifier that is well formed, its S256 challenge
  LongValues        \* values longer than their limit

Once(values) == Len(values) = 1
Is(values, v) == Once(values) /\ values[1] = v
ApiScope(oidc) ==
  IF oidc.scope.base # <<>> THEN oidc.scope
  ELSE [base |-> oidc.audience, name |-> oidc.scope.name]
Plain(name) == [base |-> <<>>, name |-> name]

-----------------------------------------------------------------------------
(* Seals.                                                                  *)

Seal(domain, key, body) == [domain |-> domain, key |-> key, body |-> body]
(* Issued neither too long ago nor, clocks being what they are, too far    *)
(* ahead.                                                                  *)
Timely(issued, now) == issued <= now + Skew /\ now - issued < PendingTtl
(* decode_state and decode_code.                                           *)
OpensState(sealed, key, now) ==
  sealed.domain = "oauth-state" /\ sealed.key = key /\ Timely(sealed.body.issued, now)
OpensCode(sealed, key, now) ==
  sealed.domain = "oauth-code" /\ sealed.key = key /\ Timely(sealed.body.issued, now)

-----------------------------------------------------------------------------
(* What is passed on.                                                      *)

(* rewrite_scope: the scope of the API qualified, and always asked for.    *)
Rewritten(scopes, api) ==
  {IF s \in {Plain("render"), Plain(api.name)} THEN api ELSE s : s \in scopes}
    \cup {api, Plain("openid"), Plain("offline_access")}
(* rewrite_resource: ours in either form, or none.                         *)
IsOurs(config, resource) == resource \in {McpResource(config.public), <<config.public>>}
(* One that is not ours takes the others with it.                          *)
Resources(config, values) ==
  IF \A i \in DOMAIN values : IsOurs(config, values[i])
  THEN {McpResource(config.public) : i \in DOMAIN values} ELSE {}

-----------------------------------------------------------------------------
(* authorize.                                                              *)

ClientFault(config, q) ==
  IF Is(q.client_id, config.dcr) THEN "ok" ELSE "client_id"
AuthorizeFault(config, q) ==
  IF ClientFault(config, q) # "ok" THEN ClientFault(config, q)
  ELSE IF ~Is(q.response_type, "code") THEN "response_type"
  ELSE IF ~Once(q.redirect_uri) THEN "redirect_uri"
  ELSE IF ~IsAllowedRedirect(config.redirects, q.redirect_uri[1]) THEN "unregistered"
  ELSE IF Len(q.state) > 1 \/ Members(q.state) \cap LongValues # {} THEN "state"
  ELSE IF ~Once(q.code_challenge) THEN "code_challenge"
  ELSE IF q.code_challenge[1] \notin {ChallengeOf[v] : v \in DOMAIN ChallengeOf}
       \/ ~Is(q.method, "S256") THEN "challenge_method"
  ELSE "ok"

Pending(q, now) ==
  [redirect |-> q.redirect_uri[1], state |-> q.state, challenge |-> q.code_challenge[1],
   issued |-> now]
(* The redirect to the provider.  A resource of ours that another took     *)
(* with it is not asked for again.                                         *)
ForwardedResources(config, values) ==
  IF \E i \in DOMAIN values : IsOurs(config, values[i]) THEN Resources(config, values)
  ELSE {McpResource(config.public)}
Forwarded(config, q, now) ==
  [redirect |-> Callback(config.public),
   state |-> Seal("oauth-state", config.signing, Pending(q, now)),
   challenge |-> q.code_challenge[1],
   scope |-> Rewritten(Members(q.scope), ApiScope(config.oidc)),
   resource |-> ForwardedResources(config, q.resource)]

-----------------------------------------------------------------------------
(* callback.                                                               *)

CallbackFault(config, q, now) ==
  IF ~Once(q.state) THEN "state"
  ELSE IF ~OpensState(q.state[1], config.signing, now) THEN "expired"
  ELSE IF Once(q.code) /\ q.code[1] \in LongValues THEN "code"
  ELSE "ok"
PendingCode(pending, upstream, now) ==
  [upstream |-> upstream, redirect |-> pending.redirect, challenge |-> pending.challenge,
   issued |-> now]
(* Back to the client, with a code, an error or neither.                   *)
Returned(config, q, now) ==
  LET pending == q.state[1].body IN
  [redirect |-> pending.redirect, state |-> pending.state, error |-> Once(q.error),
   codes |-> {Seal("oauth-code", config.signing, PendingCode(pending, c, now)) :
                c \in IF Once(q.code) THEN Members(q.code) ELSE {}}]

-----------------------------------------------------------------------------
(* token.                                                                  *)

(* What binds a code: where it went and who asked for it.  The variant     *)
(* looks at the verifier alone.                                            *)
BoundByVerifier(body, q) == ChallengeOf[q.verifier[1]] = body.challenge
Bound(body, q) ==
  body.redirect = q.redirect_uri[1] /\ ChallengeOf[q.verifier[1]] = body.challenge
CodeFault(config, q, now) ==
  IF ~Once(q.redirect_uri) THEN "redirect_uri"
  ELSE IF ~IsAllowedRedirect(config.redirects, q.redirect_uri[1]) THEN "unregistered"
  ELSE IF ~Once(q.code) THEN "code"
  ELSE IF ~Once(q.verifier) THEN "code_verifier"
  ELSE IF q.verifier[1] \notin DOMAIN ChallengeOf THEN "code_verifier"
  ELSE IF ~OpensCode(q.code[1], config.signing, now) THEN "expired"
  ELSE IF ~Bound(q.code[1].body, q) THEN "mismatch"
  ELSE "ok"
TokenRequestFault(config, q, now) ==
  IF ClientFault(config, q) # "ok" THEN ClientFault(config, q)
  ELSE IF ~Once(q.grant_type) THEN "grant_type"
  ELSE IF q.grant_type[1] \notin {"authorization_code", "refresh_token"} THEN "grant_type"
  ELSE IF q.grant_type[1] = "authorization_code" THEN CodeFault(config, q, now)
  ELSE "ok"

(* What is posted to the provider: its own code, and the callback it knows.*)
Posted(config, q) ==
  LET byCode == q.grant_type[1] = "authorization_code" IN
  [redirect |-> {Callback(config.public) : i \in DOMAIN q.redirect_uri},
   upstream |-> IF byCode THEN {q.code[1].body.upstream} ELSE {},
   scope |-> IF q.scope = <<>> /\ byCode THEN {}
             ELSE Rewritten(Members(q.scope), ApiScope(config.oidc)),
   resource |-> Resources(config, q.resource)]

-----------------------------------------------------------------------------
(* register: every client is the one client, with redirects it may have.   *)
RegisterFault(config, uris) ==
  IF config.dcr = Blank THEN "not_configured"
  ELSE IF \E u \in uris : ~IsAllowedRedirect(config.redirects, u) THEN "unregistered"
  ELSE "ok"
=============================================================================
