------------------------------ MODULE MCAccess ------------------------------
(* Two clients, two users and a service, four environments that start and *)
(* some that must not, for Access.                                         *)
EXTENDS Access, TLC

Uri(scheme, host, port, path) ==
  [scheme |-> scheme, host |-> host, port |-> port, path |-> path, query |-> Blank,
   padded |-> FALSE, fragment |-> FALSE, userinfo |-> FALSE]
Web == Uri("https", "claude.ai", 443, "/api/mcp/auth_callback")
Native == Uri("http", "localhost", 3118, "/callback")
NativeElsewhere == [Native EXCEPT !.port = 5000]
Cleartext == Uri("http", "claude.ai", 80, "/callback")

Secret(name, bytes) == [name |-> name, bytes |-> bytes]
Entry(label, secret) == [form |-> "label:secret", label |-> label, secret |-> Secret(secret, 32)]
AppUri == <<"api">>
Guid == <<"guid">>
NumberOf(n, unit) == [digits |-> TRUE, amount |-> n, unit |-> unit]

Full ==
  [public |-> "us", salt |-> Secret("salt", 32), signing |-> Secret("sA", 32),
   keys |-> <<Entry("alex", "k1")>>, dcr |-> "client", redirects |-> <<Web, Native>>,
   issuer |-> "entra", directory |-> "ours", audiences |-> <<AppUri, Guid>>,
   scope |-> Plain("render"), linkTtl |-> NumberOf(1, "s"), sessions |-> NumberOf(1, Blank)]
Rotated ==
  [Full EXCEPT !.signing = Secret("sB", 32), !.keys = <<Entry("alex", "k2"), Entry("svc", "k1")>>,
               !.directory = Blank, !.linkTtl = Unset]
Narrowed == [Full EXCEPT !.redirects = <<Native>>]
KeysOnly == [Full EXCEPT !.issuer = Blank, !.dcr = Blank, !.redirects = <<>>]
MCEnvironments ==
  {Full, Rotated, Narrowed, KeysOnly,
   [Full EXCEPT !.public = Blank], [Full EXCEPT !.signing = Secret("sA", 31)],
   [Full EXCEPT !.salt = Secret(Blank, 0)], [Full EXCEPT !.keys = @ \o @],
   [Full EXCEPT !.keys[1].form = "malformed"], [Full EXCEPT !.redirects = <<Cleartext>>],
   [Full EXCEPT !.redirects = <<>>], [Full EXCEPT !.audiences = <<>>],
   [KeysOnly EXCEPT !.keys = <<>>], [Full EXCEPT !.sessions = NumberOf(20, "s")],
   [Full EXCEPT !.linkTtl = NumberOf(9, "d")]}

Claims(subject, exp) ==
  [alg |-> "RS256", kid |-> "kid", signedBy |-> "kid", iss |-> "entra", aud |-> {Guid},
   exp |-> exp, nbf |-> 0, tid |-> "ours", scp |-> {[base |-> AppUri, name |-> "render"]},
   roles |-> {}, sub |-> subject]
MCTokenOf ==
  "alex" :> Claims("alex", 9) @@ "blake" :> [Claims("blake", 0) EXCEPT !.scp = {}, !.roles = {Plain("render")}]
  @@ "away" :> [Claims("alex", 9) EXCEPT !.tid = "theirs"]
  @@ "openid" :> [Claims("alex", 9) EXCEPT !.scp = {Plain("openid")}]
  @@ "hs" :> [Claims("alex", 9) EXCEPT !.alg = "HS256"]
  @@ "old" :> [Claims("alex", 9) EXCEPT !.kid = "gone"]
  @@ "wide" :> [Claims("alex", 9) EXCEPT !.kid = "long"]
  @@ "graph" :> [Claims("alex", 9) EXCEPT !.aud = {<<"graph">>}]
Bear(cred) == [form |-> "bearer", cred |-> cred]
MCHeaders ==
  {[form |-> "none", cred |-> Blank], [form |-> "basic", cred |-> "k1"]}
    \cup {Bear(c) : c \in DOMAIN MCTokenOf \cup {"k1", "k2"}}
MCVisitors ==
  {[form |-> "none", cred |-> Blank], Bear("k1"), Bear("alex"), Bear("blake")}

(* Sessions differ by nothing but their ids.                               *)
SessionSymmetry == Permutations(SessionIds)

Request(uri, challenge, state) ==
  [client_id |-> <<"client">>, response_type |-> <<"code">>, redirect_uri |-> <<uri>>,
   state |-> state, code_challenge |-> <<challenge>>, method |-> <<"S256">>,
   scope |-> <<Plain("render")>>, resource |-> <<>>]
WebRequest == Request(Web, "ch1", <<"st1">>)
MCClientRequests ==
  {WebRequest, Request(NativeElsewhere, "ch2", <<>>),
   Request(Cleartext, "ch2", <<>>), Request(Web, "ch1", <<"long">>),
   [WebRequest EXCEPT !.client_id = @ \o @], [WebRequest EXCEPT !.method = <<"plain">>],
   [WebRequest EXCEPT !.code_challenge = <<>>], [WebRequest EXCEPT !.response_type = <<"token">>],
   [WebRequest EXCEPT !.redirect_uri = <<>>]}
MCRedirects == {Web, NativeElsewhere, Cleartext}
MCRegistrations == {{Web, NativeElsewhere}, {Web, Cleartext}}
MCChallengeOf == "v1" :> "ch1" @@ "v2" :> "ch2"

MCDocs ==
  "d1" :> [tenant |-> Tenant("salt", Service("alex")), expires |-> 2]
  @@ "d2" :> [tenant |-> Tenant("salt", User("entra", "alex")), expires |-> 9]
=============================================================================
