----------------------------- MODULE Credentials -----------------------------
(***************************************************************************)
(* Who is asking: src/src/auth.rs and src/src/principal.rs, the claim      *)
(* checks of src/src/oidc.rs and the links of src/src/signing.rs.          *)
(*                                                                         *)
(* Digests and signatures are what they were computed from: equal if and   *)
(* only if made of the same parts under the same secret.                   *)
(***************************************************************************)
EXTENDS Config

CONSTANTS
  TokenOf,          \* what each credential that is a JWT says
  Published,        \* key ids the provider publishes
  LongKids,         \* key ids longer than MAX_KID_BYTES
  Skew              \* CLOCK_SKEW_SECONDS, and the 60 seconds of oauth_proxy.rs

-----------------------------------------------------------------------------
(* Principals and tenants.                                                 *)

User(issuer, subject) == [door |-> "oidc", issuer |-> issuer, name |-> subject]
Service(label) == [door |-> "key", issuer |-> Blank, name |-> label]
Identity(who) ==
  IF who.door = "oidc" THEN <<"oidc", who.issuer, who.name>> ELSE <<"key", who.name>>
Tenant(salt, who) == [salt |-> salt, of |-> Identity(who)]

Nobody == [door |-> "none", issuer |-> Blank, name |-> Blank]
Accepted(who) == [error |-> "none", who |-> who]
Refused(error) == [error |-> error, who |-> Nobody]

-----------------------------------------------------------------------------
(* The bearer header: absent, not as it should be, or with a credential.   *)
Bearer(header) ==
  IF header.form = "none" THEN "missing" ELSE IF header.form # "bearer" THEN "malformed"
  ELSE "ok"

(* ApiKeyAuth::authenticate.                                               *)
KeyDoor(config, header) ==
  LET matching == {k \in config.keys : k.secret = header.cred} IN
  IF config.keys = {} THEN Refused("unavailable")
  ELSE IF Bearer(header) # "ok" THEN Refused(Bearer(header))
  ELSE IF matching = {} THEN Refused("rejected")
  ELSE Accepted(Service((CHOOSE k \in matching : TRUE).label))

(* has_scope: scp or roles, as it stands or behind a resource.             *)
Grants(scope, wanted) ==
  scope = wanted \/ (wanted.base = <<>> /\ scope.name = wanted.name)
HasScope(oidc, t) == \E s \in t.scp \cup t.roles : Grants(s, oidc.scope)

(* What TokenValidator::key may say of a key id, as KeyCache models it.    *)
KeysFor(cred) ==
  CASE cred \notin DOMAIN TokenOf -> {"unasked"}
    [] cred \in DOMAIN TokenOf /\ TokenOf[cred].kid \in Published -> {"found", "unavailable"}
    [] OTHER -> {"unknown", "unavailable"}

(* The library's part: signature, times and the two names.                 *)
Decodes(oidc, t, now) ==
  /\ t.signedBy = t.kid /\ now <= t.exp + Skew /\ t.nbf <= now + Skew
  /\ t.iss = oidc.issuer /\ t.aud \cap oidc.accepted # {}

(* validate, its checks in its order.                                      *)
TokenFault(oidc, cred, key, now) ==
  LET t == TokenOf[cred] IN
  IF cred \notin DOMAIN TokenOf THEN "malformed"
  ELSE IF t.alg \notin {"RS256", "RS384", "RS512"} THEN "rejected"
  ELSE IF t.kid \in {Blank} \cup LongKids THEN "malformed"
  ELSE IF key = "unavailable" THEN "provider_unavailable"
  ELSE IF key = "unknown" \/ ~Decodes(oidc, t, now) THEN "rejected"
  ELSE IF oidc.directory # Blank /\ t.tid # oidc.directory THEN "rejected"
  ELSE IF ~HasScope(oidc, t) THEN "rejected"
  ELSE "none"

(* OidcAuth::authenticate.                                                 *)
OidcDoor(config, header, key, now) ==
  IF ~config.oidc.on THEN Refused("unavailable")
  ELSE IF Bearer(header) # "ok" THEN Refused(Bearer(header))
  ELSE IF TokenFault(config.oidc, header.cred, key, now) # "none" THEN
         Refused(TokenFault(config.oidc, header.cred, key, now))
  ELSE Accepted(User(TokenOf[header.cred].iss, TokenOf[header.cred].sub))

(* A provider out of reach is no fault of the caller.                      *)
StatusOfRefusal(error) == IF error = "provider_unavailable" THEN "503" ELSE "401"

-----------------------------------------------------------------------------
(* Links.                                                                  *)

NoSignature == [key |-> Blank, tenant |-> Tenant(Blank, Nobody), job |-> Blank, exp |-> 0]
Sign(key, tenant, job, exp) == [key |-> key, tenant |-> tenant, job |-> job, exp |-> exp]

(* verify_params and verify: what is missing, what is expired, and only    *)
(* then whether it is signed.  The variant honours the last moment twice.  *)
VerifyLate(key, tenant, job, q, now) ==
  IF q.form = "none" THEN "missing"
  ELSE IF q.form = "garbled" THEN "invalid"
  ELSE IF q.exp < now THEN "expired"
  ELSE IF q.sig # Sign(key, tenant, job, q.exp) THEN "invalid"
  ELSE "ok"
Verify(key, tenant, job, q, now) ==
  IF q.form = "none" THEN "missing"
  ELSE IF q.form = "garbled" THEN "invalid"
  ELSE IF q.exp <= now THEN "expired"
  ELSE IF q.sig # Sign(key, tenant, job, q.exp) THEN "invalid"
  ELSE "ok"
=============================================================================
