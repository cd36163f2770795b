---------------------------- MODULE OAuthCodes ----------------------------
(***************************************************************************)
(* The OAuth authorization server of the coding tools                      *)
(* (coding_tools_mcp/oauth.py and the /oauth handlers of server.py):       *)
(* clients register, a user who knows the password turns an authorization  *)
(* request into a code, and a client turns a code into an access token.    *)
(*                                                                         *)
(* HTTP requests run on threads: the registry and the pending codes are    *)
(* each read or changed under their own lock, which is one action.  A      *)
(* token request takes its code in one action and judges it in another.    *)
(* Clients and codes live in memory; tokens are signed and survive a       *)
(* restart when the signing secret is configured.                          *)
(***************************************************************************)
EXTENDS Naturals, Sequences, FiniteSets

CONSTANTS Clients,        \* client ids
          Preregistered,  \* those the configuration names, with every redirect
          Redirects,      \* redirect URIs
          Bases,          \* base URLs the server is reached by: its resources
          Verifiers,      \* PKCE verifiers, each naming its challenge
          Terms,          \* what a token request presents: <<redirect, base, verifier>>
          Approvals,      \* ... and what users are asked to approve
          Requests,       \* threads answering token requests
          MaxClients,     \* MAX_REGISTERED_CLIENTS
          MaxCodes,       \* MAX_PENDING_CODES
          CodeTTL,        \* OAUTH_CODE_TTL_SECONDS
          TokenTTL,       \* token_ttl
          MaxIssued,      \* bound: codes ever issued
          MaxTime         \* bound: clock

Methods == {"none", "client_secret_post", "client_secret_basic"}

VARIABLES
    clients,   \* OAuthClientRegistry._clients: method and redirects per client
    pending,   \* OAuthConfig.pending_codes; an older code has a smaller id
    asked,     \* per token request: what it presents and the code it took
    now,       \* the clock
    approved,  \* every code a user approved, in order of issue (for properties)
    tokens     \* every access token given out

vars == <<clients, pending, asked, now, approved, tokens>>

Unknown == [method |-> "unknown", redirects |-> {}]
Gone == [method |-> "gone", redirects |-> {}]
Known(c) == clients[c].method \in Methods
Idle == [step |-> "idle"]

Init ==
    /\ clients \in [Clients -> {Unknown} \cup
                      [method : {"none", "client_secret_post"}, redirects : {Redirects}]]
    /\ \A c \in Clients : Known(c) <=> c \in Preregistered
    /\ pending = {}
    /\ asked = [q \in Requests |-> Idle]
    /\ now = 0
    /\ approved = <<>>
    /\ tokens = {}

-----------------------------------------------------------------------------
(* Clients                                                                 *)

\* validate_redirect_uris: at least one, and each of them one of the absolute
\* https or loopback URIs that Redirects stands for.
ValidRedirects(uris) == uris # {} /\ uris \subseteq Redirects

\* register: a new client id, while there is room.
Register(c, method, uris) ==
    /\ clients[c] = Unknown
    /\ ValidRedirects(uris)
    /\ Cardinality({d \in Clients : Known(d)}) < MaxClients
    /\ clients' = [clients EXCEPT ![c] = [method |-> method, redirects |-> uris]]
    /\ UNCHANGED <<pending, asked, now, approved, tokens>>

\* authenticates: the method the client registered with, and its own secret
\* (none for a public client).
Authenticates(c, method, secret) ==
    /\ Known(c)
    /\ clients[c].method = method
    /\ secret = IF method = "none" THEN "none" ELSE c

-----------------------------------------------------------------------------
(* Codes                                                                   *)

Unexpired(code) == now <= code.expires

\* What is left when the codes past their time are deleted.
Timely == {code \in pending : Unexpired(code)}

\* The codes that leave room for one more: all, or all but the oldest, since
\* there are never more than MaxCodes.
Roomed(codes) ==
    IF Cardinality(codes) < MaxCodes THEN codes
    ELSE {code \in codes : \E other \in codes : other.id < code.id}

\* handle_oauth_authorize_get: what must hold before the password is asked for
\* (and again when it is given), the challenge and the resource being right.
Presentable(c, uri) == Known(c) /\ uri \in clients[c].redirects

\* handle_oauth_authorize_post with the right password.
Authorize(c, uri, base, verifier) ==
    /\ Len(approved) < MaxIssued
    /\ Presentable(c, uri)
    /\ LET code == [id |-> Len(approved) + 1, client |-> c, redirect |-> uri,
                    resource |-> base, challenge |-> verifier,
                    expires |-> now + CodeTTL]
       IN /\ pending' = Roomed(Timely) \cup {code}
          /\ approved' = Append(approved, code)
    /\ UNCHANGED <<clients, asked, now, tokens>>

\* Mutant: a code is only looked up.
LeftReading(id) == pending

\* pending_codes.pop(code, None)
Left(id) == {code \in pending : code.id # id}

\* handle_oauth_token up to the lookup: an authenticated client presents a
\* code and takes whatever is pending under it, even what is not its own.
TokenTake(q, c, method, secret, id, uri, base, verifier) ==
    /\ asked[q] = Idle
    /\ Authenticates(c, method, secret)
    /\ id \in 1 .. Len(approved)
    /\ LET found == {code \in pending : code.id = id}
       IN asked' = [asked EXCEPT ![q] =
              IF found = {} THEN Idle
              ELSE [step |-> "taken", client |-> c, redirect |-> uri,
                    resource |-> base, verifier |-> verifier,
                    code |-> CHOOSE code \in found : TRUE]]
    /\ pending' = Left(id)
    /\ UNCHANGED <<clients, now, approved, tokens>>

\* Mutant: nobody compares the verifier with the challenge.
HonouredUnproved(request) ==
    /\ Unexpired(request.code)
    /\ request.code.client = request.client
    /\ request.code.redirect = request.redirect
    /\ request.code.resource = request.resource

\* The checks of the code taken.
Honoured(request) ==
    /\ Unexpired(request.code)
    /\ request.code.client = request.client
    /\ request.code.redirect = request.redirect
    /\ request.code.resource = request.resource
    /\ request.code.challenge = request.verifier

\* The rest of handle_oauth_token: a token, or an error and nothing.
TokenAnswer(q) ==
    /\ asked[q] # Idle
    /\ asked' = [asked EXCEPT ![q] = Idle]
    /\ tokens' = tokens \cup
          (IF Honoured(asked[q])
           THEN {[code |-> asked[q].code.id, by |-> q, at |-> now,
                  client |-> asked[q].client, resource |-> asked[q].resource,
                  redirect |-> asked[q].redirect, verifier |-> asked[q].verifier,
                  expires |-> now + TokenTTL]}
           ELSE {})
    /\ UNCHANGED <<clients, pending, now, approved>>

-----------------------------------------------------------------------------
(* Time and restarts                                                       *)

Tick ==
    /\ now < MaxTime
    /\ now' = now + 1
    /\ UNCHANGED <<clients, pending, asked, approved, tokens>>

\* Registered clients and codes are lost, tokens signed with a configured
\* secret stay valid.  A lost client id is never given out again.
Restart ==
    /\ clients' = [c \in Clients |->
          IF c \in Preregistered THEN clients[c] ELSE IF Known(c) THEN Gone ELSE clients[c]]
    /\ pending' = {}
    /\ asked' = [q \in Requests |-> Idle]
    /\ UNCHANGED <<now, approved, tokens>>

Next ==
    \/ \E c \in Clients, m \in Methods, uris \in SUBSET Redirects : Register(c, m, uris)
    \/ \E c \in Clients, terms \in Approvals : Authorize(c, terms[1], terms[2], terms[3])
    \/ \E q \in Requests, c \in Clients, m \in Methods, s \in Clients \cup {"none"},
          id \in 1 .. MaxIssued, terms \in Terms :
          TokenTake(q, c, m, s, id, terms[1], terms[2], terms[3])
    \/ \E q \in Requests : TokenAnswer(q)
    \/ Tick
    \/ Restart

Spec == Init /\ [][Next]_vars

-----------------------------------------------------------------------------
(* Properties                                                              *)

\* is_authorized with a token, for a request that reached the server at base:
\* the token is for this base, unexpired, and its client is still registered.
Admitted(t, base) == t.resource = base /\ now < t.expires /\ Known(t.client)

TypeOK ==
    /\ \A c \in Clients : clients[c] \in {Unknown, Gone} \/
          (clients[c].method \in Methods /\ clients[c].redirects \subseteq Redirects)
    /\ \A code \in pending : \E i \in 1 .. Len(approved) : approved[i] = code
    /\ Cardinality(pending) <= MaxCodes
    /\ now \in 0 .. MaxTime

\* However token requests overlap, expire or meet a restart: a code yields at
\* most one token, only to a request of the client, with the redirect, resource
\* and verifier that its user approved, and only in its time; and a token admits
\* only to that resource, before it expires, a client that is still registered
\* (handle_oauth_token, validate_access_token).
TokensAreApproved ==
    /\ \A t, u \in tokens : t.code = u.code => t = u
    /\ \A t \in tokens :
          LET code == approved[t.code]
          IN /\ t.client = code.client /\ t.redirect = code.redirect
             /\ t.resource = code.resource /\ t.verifier = code.challenge
             /\ t.at <= code.expires /\ t.expires = t.at + TokenTTL
             /\ \A b \in Bases : Admitted(t, b) =>
                   b = code.resource /\ now < t.at + TokenTTL /\ Known(code.client)

\* A pending code is lost only to a request that presented it, to time, to
\* MaxCodes newer codes or to a restart, so an approved login that is completed
\* at once is not undone by other logins (handle_oauth_authorize_post).
LeavesForCause ==
    \A code \in pending \ pending' :
        \/ ~Unexpired(code)
        \/ Cardinality(pending') = MaxCodes /\ \A other \in pending' : other.id > code.id
        \/ \E q \in Requests : asked'[q] # Idle /\ asked'[q].code = code
        \/ pending' = {} /\ \A c \in Clients : Known(c)' => c \in Preregistered
CodesLeaveForCause == [][LeavesForCause]_vars
=============================================================================
