------------------------------- MODULE Config -------------------------------
(***************************************************************************)
(* Starting up: src/src/config.rs, with the redirect allowlist of          *)
(* src/src/oauth_redirect.rs and the key list of src/src/principal.rs.     *)
(*                                                                         *)
(* An environment is the record of the variables read; blank counts as     *)
(* unset.  Strings are compared, never taken apart: a secret is its name   *)
(* and its length, a URI the record of what Url::parse makes of it, a      *)
(* scope what stands before its last slash and what follows.  As in        *)
(* Bundle, a check returns the reason it refuses for, or "ok".             *)
(***************************************************************************)
EXTENDS Integers, Sequences, FiniteSets

CONSTANTS
  MinSecretBytes,   \* MIN_SECRET_BYTES and MIN_API_KEY_BYTES, 32 both
  LoopbackHosts,    \* what is_loopback_host accepts
  MaxSeconds,       \* the largest u64
  DefaultLinkTtl, DefaultSessions

Blank == ""
Members(s) == {s[i] : i \in DOMAIN s}

-----------------------------------------------------------------------------
(* Redirect URIs.  Two are the same string if and only if their     *)
(* records are equal.                                                      *)

(* validate_redirect_uri.                                                  *)
RedirectFault(uri) ==
  IF uri.padded \/ uri.scheme = Blank THEN "no_url"
  ELSE IF uri.scheme = "https" /\ uri.host = Blank THEN "no_host"
  ELSE IF uri.scheme = "http" /\ uri.host \notin LoopbackHosts THEN "cleartext"
  ELSE IF uri.fragment THEN "fragment"
  ELSE IF uri.userinfo THEN "user_info"
  ELSE "ok"

IsLoopback(uri) == uri.scheme = "http" /\ uri.host \in LoopbackHosts
MatchesButForPort(entry, uri) ==
  entry.host = uri.host /\ entry.path = uri.path /\ entry.query = uri.query
(* is_allowed_redirect_uri: an entry as it stands, or on the same loopback *)
(* host and path with another port.                                        *)
IsAllowedRedirect(allowed, uri) ==
  /\ RedirectFault(uri) = "ok"
  /\ \/ uri \in allowed
     \/ IsLoopback(uri) /\ \E entry \in allowed : IsLoopback(entry) /\ MatchesButForPort(entry, uri)

-----------------------------------------------------------------------------
(* API keys: a list of entries label:secret.                               *)

EntryFault(e) ==
  IF e.form # "label:secret" THEN e.form
  ELSE IF e.secret.bytes < MinSecretBytes THEN "short"
  ELSE "ok"
(* ApiKeys::parse: the first entry that is bad, or repeats a label or a    *)
(* secret before it.                                                       *)
KeyFault(entries, i) ==
  IF EntryFault(entries[i]) # "ok" THEN EntryFault(entries[i])
  ELSE IF \E j \in 1..(i - 1) : entries[j].label = entries[i].label THEN "duplicate_label"
  ELSE IF \E j \in 1..(i - 1) : entries[j].secret = entries[i].secret THEN "duplicate_secret"
  ELSE "ok"
KeysOk(entries) == \A i \in DOMAIN entries : KeyFault(entries, i) = "ok"

-----------------------------------------------------------------------------
(* Numbers: the digits, whether they are any, and what follows them.       *)

Unset == [digits |-> FALSE, amount |-> 0, unit |-> "unset"]
NumberOk(raw) == raw = Unset \/ (raw.digits /\ raw.unit = Blank)
Number(raw, default) == IF raw = Unset THEN default ELSE raw.amount

SecondsIn == [unit \in {Blank, "s", "m", "h", "d"} |->
  CASE unit = "m" -> 60 [] unit = "h" -> 3600 [] unit = "d" -> 86400 [] OTHER -> 1]
(* duration: the product must fit 64 bits.                                 *)
DurationOk(raw) ==
  \/ raw = Unset
  \/ /\ raw.digits /\ raw.unit \in DOMAIN SecondsIn
     /\ raw.amount <= MaxSeconds \div SecondsIn[raw.unit]
Duration(raw, default) == IF raw = Unset THEN default ELSE raw.amount * SecondsIn[raw.unit]

SecretFault(s) ==
  IF s.name = Blank THEN "missing" ELSE IF s.bytes < MinSecretBytes THEN "short" ELSE "ok"

-----------------------------------------------------------------------------
(* Config::from_source.                                                    *)

HasOidc(env) == env.issuer # Blank
(* What stops the start, in the order it is looked at.  The variant        *)
(* believes that registered clients can do without redirect URIs.          *)
ConfigFaultClientsUnbound(env) ==
  IF env.public = Blank THEN "missing"
  ELSE IF SecretFault(env.salt) # "ok" THEN SecretFault(env.salt)
  ELSE IF SecretFault(env.signing) # "ok" THEN SecretFault(env.signing)
  ELSE IF ~KeysOk(env.keys) THEN "api_keys"
  ELSE IF \E i \in DOMAIN env.redirects : RedirectFault(env.redirects[i]) # "ok" THEN "redirect"
  ELSE IF HasOidc(env) /\ env.audiences = <<>> THEN "no_audience"
  ELSE IF env.keys = <<>> /\ ~HasOidc(env) THEN "no_credentials"
  ELSE IF ~DurationOk(env.linkTtl) \/ ~NumberOk(env.sessions) THEN "invalid"
  ELSE "ok"
ConfigFault(env) ==
  IF env.public = Blank THEN "missing"
  ELSE IF SecretFault(env.salt) # "ok" THEN SecretFault(env.salt)
  ELSE IF SecretFault(env.signing) # "ok" THEN SecretFault(env.signing)
  ELSE IF ~KeysOk(env.keys) THEN "api_keys"
  ELSE IF \E i \in DOMAIN env.redirects : RedirectFault(env.redirects[i]) # "ok" THEN "redirect"
  ELSE IF env.dcr # Blank /\ env.redirects = <<>> THEN "redirect"
  ELSE IF HasOidc(env) /\ env.audiences = <<>> THEN "no_audience"
  ELSE IF env.keys = <<>> /\ ~HasOidc(env) THEN "no_credentials"
  ELSE IF ~DurationOk(env.linkTtl) \/ ~NumberOk(env.sessions) THEN "invalid"
  ELSE "ok"

(* The canonical MCP resource, and the callback at the provider.           *)
McpResource(public) == <<public, "mcp">>
Callback(public) == <<public, "oauth", "callback">>

(* The first audience also qualifies scopes; the others, and the resource  *)
(* itself, are accepted besides.                                           *)
OidcOf(env) ==
  [on |-> HasOidc(env), issuer |-> env.issuer, directory |-> env.directory, scope |-> env.scope,
   audience |-> IF HasOidc(env) THEN Head(env.audiences) ELSE <<>>,
   accepted |-> IF HasOidc(env) THEN Members(env.audiences) \cup {McpResource(env.public)} ELSE {}]

ConfigOf(env) ==
  [public |-> env.public, salt |-> env.salt.name, signing |-> env.signing.name,
   keys |-> {[label |-> e.label, secret |-> e.secret.name] : e \in Members(env.keys)},
   dcr |-> env.dcr, redirects |-> Members(env.redirects), oidc |-> OidcOf(env),
   linkTtl |-> Duration(env.linkTtl, DefaultLinkTtl),
   maxSessions |-> Number(env.sessions, DefaultSessions)]
=============================================================================
