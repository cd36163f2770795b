----------------------------- MODULE RpcFront -----------------------------
(***************************************************************************)
(* How one JSON-RPC message is answered by the two transports of the       *)
(* coding tools: the dispatcher they share (coding_tools_mcp/protocol.py), *)
(* the HTTP handler around it (do_POST in server.py) and the stdio loop    *)
(* (transport_stdio.py).  Neither keeps state between messages, so a       *)
(* behaviour takes any message and headers and answers them on both        *)
(* transports.                                                             *)
(*                                                                         *)
(* A message of the modern era states its protocol version in _meta and,   *)
(* over HTTP, repeats its version, method and subject in headers.          *)
(***************************************************************************)
EXTENDS Naturals

\* What can be wrong before there is a JSON-RPC message, in the order do_POST
\* looks, with the HTTP status of the refusal.
Refusals ==
    [path |-> 404, origin |-> 403, unauthorized |-> 401, type |-> 415,
     nolength |-> 411, badlength |-> 400, toolong |-> 413,
     unparsable |-> 400, batch |-> 400, scalar |-> 400]

Subjects == {"resources/read", "tools/call", "prompts/get"}
Served == {"ping", "resources/list", "resources/read", "tools/list", "tools/call"}
LegacyMethods == Served \cup {"initialize", "notifications/initialized", "notifications/cancelled"}
ModernMethods == Served \cup {"server/discover", "notifications/cancelled"}
Methods == LegacyMethods \cup ModernMethods \cup {"prompts/get", "none"}

\* The version a _meta names (an "unknown" version is of neither era), and
\* what else is wrong with a _meta that names one.  An object may name what the
\* method is about, a tool or a resource, or not.
MetaVersions == {"modern", "legacy", "unknown", "mistyped"}
Params ==
    [kind : {"missing", "bad"}] \cup [kind : {"plain"}, subject : BOOLEAN] \cup
    [kind : {"meta"}, subject : BOOLEAN, version : MetaVersions, faulty : BOOLEAN]

\* How what the method asks for ends: the runtime may serve no resources, refuse
\* the arguments, or fail with an exception that is no JsonRpcError.
Endings == {"result", "unserved", "refused", "raised"}

Messages == [id : {"absent", "null", "given", "mistyped"}, jsonrpc : BOOLEAN,
             method : Methods, params : Params, ending : Endings]

\* A header that should repeat the body does, or is absent or another.
Headers == [version : {"absent", "modern", "legacy", "unknown"},
            method : {"same", "other"}, name : {"same", "other"}, twice : BOOLEAN]

VARIABLES
    message,   \* the message
    headers,   \* the HTTP headers it travels with
    trouble,   \* what is wrong before there is a message, or "nothing"
    http,      \* the answer over HTTP
    stdio      \* the answer over stdio

vars == <<message, headers, trouble, http, stdio>>

\* Answers: nothing, an error code, or a result shaped for an era; the id is
\* the message's or null.  HTTP adds a status.
Silence == [kind |-> "silence"]
Fault(code, id) == [kind |-> "error", code |-> code, id |-> id]
Answer(era, id) == [kind |-> "result", era |-> era, id |-> id]
Reply(status, body) == [status |-> status, body |-> body]
NoReply == Reply(0, Silence)

-----------------------------------------------------------------------------
(* protocol.py                                                             *)

\* response_id
ResponseId(m) == IF m.id = "given" THEN "given" ELSE "null"

\* validate_rpc_envelope
EnvelopeOk(m) == m.jsonrpc /\ m.method # "none" /\ m.id # "mistyped"

\* request_era: what _meta says, except for a handshake.
Era(m) ==
    IF m.method # "initialize" /\ m.params.kind = "meta" THEN "modern" ELSE "legacy"

\* validate_modern_meta: the error code, or 0.
MetaFault(p) ==
    CASE p.version = "mistyped" -> 32602
      [] p.version \in {"legacy", "unknown"} -> 32022
      [] p.version = "modern" /\ p.faulty -> 32602
      [] OTHER -> 0

\* The subject is the tool's name or the resource's uri.
Named(m) == m.params.kind \in {"plain", "meta"} /\ m.params.subject

\* _call_tool and _resource_call look at the subject before they ask the
\* runtime: only then can a handler refuse or fail.  A list has no subject, and
\* a cursor to refuse.
Asked(m) ==
    CASE m.method \in {"resources/list", "resources/read"} /\ m.ending = "unserved" -> 32601
      [] m.method \in {"tools/call", "resources/read"} /\ ~Named(m) -> 32602
      [] m.method \in {"tools/call", "resources/read"} /\ m.ending = "raised" -> 2
      [] m.method \in {"tools/call", "resources/read"} /\ m.ending = "refused" -> 32602
      [] m.method = "resources/list" /\ m.ending = "refused" /\ m.params.kind # "missing" -> 32602
      [] OTHER -> 0

\* _dispatch_modern, _dispatch_legacy: the error code, 0 for a result, 1 for
\* nothing to say, 2 for an exception that is no JsonRpcError.
Handled(m) ==
    LET known == IF Era(m) = "modern" THEN ModernMethods ELSE LegacyMethods
    IN CASE m.method \notin known -> 32601
         [] m.method \in {"notifications/initialized", "notifications/cancelled"} -> 1
         [] m.method = "initialize" /\ m.id \in {"absent", "null"} -> 32600
         [] OTHER -> Asked(m)

\* dispatch_rpc between its envelope check and its answer.
Outcome(m) ==
    CASE m.params.kind = "bad" -> 32602
      [] Era(m) = "modern" /\ MetaFault(m.params) # 0 -> MetaFault(m.params)
      [] OTHER -> Handled(m)

\* dispatch_rpc: an exception that is no JsonRpcError is left to the transport.
Raises(m) == EnvelopeOk(m) /\ Outcome(m) = 2

\* Mutant: a notification's error is answered like any other.
SilencedResultsOnly(m) == m.id = "absent" /\ Outcome(m) <= 2

\* A message without an id is never answered.
Silenced(m) == m.id = "absent"

Dispatched(m) ==
    IF ~EnvelopeOk(m) THEN Fault(32600, ResponseId(m))
    ELSE IF Silenced(m) \/ Outcome(m) = 1 THEN Silence
    ELSE IF Outcome(m) = 0
         THEN IF m.id = "null" THEN Silence ELSE Answer(Era(m), "given")
    ELSE Fault(Outcome(m), ResponseId(m))

-----------------------------------------------------------------------------
(* transport_stdio.py                                                      *)

Stdio(m) ==
    IF Raises(m)
    THEN IF m.id = "absent" THEN Silence ELSE Fault(32603, ResponseId(m))
    ELSE Dispatched(m)

-----------------------------------------------------------------------------
(* The HTTP handler                                                        *)

\* handle_rpc
Handle(m) == IF Raises(m) THEN Fault(32603, ResponseId(m)) ELSE Dispatched(m)

\* MODERN_ERROR_STATUSES, rpc_response_status
ErrorStatus(code) ==
    CASE code = 32601 -> 404
      [] code \in {32602, 32020, 32022} -> 400
      [] OTHER -> 200
Status(m, body) ==
    IF Era(m) = "modern" /\ body.kind = "error" THEN ErrorStatus(body.code) ELSE 200

\* validate_mirror_headers: a subject the body lacks is repeated by no header.
Mirrored(m, h) ==
    IF Era(m) = "legacy" THEN h.version # "modern"
    ELSE /\ h.version = m.params.version
         /\ h.method = "same"
         /\ m.method \in Subjects => h.name = "same" /\ Named(m)

\* Mutant: the mirror is checked before the body's own contract.
BodyRefusedLate(m, h) == m.id # "absent" /\ Mirrored(m, h) /\ MetaFault(m.params) # 0

\* The body's own contract comes before the mirror's, for what may be answered.
BodyRefused(m, h) == m.id # "absent" /\ MetaFault(m.params) # 0

\* do_POST, from the envelope on.
Post(m, h) ==
    IF ~EnvelopeOk(m) THEN Reply(200, Fault(32600, ResponseId(m)))
    ELSE IF Era(m) = "modern" /\ h.twice THEN Reply(400, Fault(32020, ResponseId(m)))
    ELSE IF Era(m) = "modern" /\ BodyRefused(m, h)
         THEN Reply(ErrorStatus(MetaFault(m.params)), Fault(MetaFault(m.params), ResponseId(m)))
    ELSE IF Era(m) = "legacy" /\ h.version = "unknown" THEN Reply(400, Fault(32600, "null"))
    ELSE IF ~Mirrored(m, h) THEN Reply(400, Fault(32020, ResponseId(m)))
    ELSE IF Handle(m) = Silence THEN Reply(202, Silence)
    ELSE Reply(Status(m, Handle(m)), Handle(m))

\* do_DELETE, do_OPTIONS, handle_metadata_request: what other verbs get, by the
\* path, a foreign origin and the authorization of the request.  None of them
\* is ever dispatched.
Verbs == {"GET", "HEAD", "DELETE", "OPTIONS"}
Paths == {"mcp", "card", "oauth metadata", "authorize", "token", "other"}
OtherStatus(verb, path, foreign, authorized) ==
    CASE path = "other" -> 404
      [] verb = "OPTIONS" -> IF foreign THEN 403 ELSE 204
      [] path = "mcp" -> IF verb # "DELETE" /\ foreign THEN 403
                         ELSE IF ~authorized THEN 401 ELSE 405
      [] verb = "DELETE" \/ path = "token" -> 404
      [] verb = "HEAD" /\ path = "authorize" -> 404
      [] OTHER -> 200

\* The code of a refusal that comes before there is a message.
RefusalCode(t) ==
    CASE t = "path" -> 32601
      [] t = "unauthorized" -> 32000
      [] t = "unparsable" -> 32700
      [] OTHER -> 32600

-----------------------------------------------------------------------------

\* Any message, or a request that never becomes one.
Init ==
    /\ \/ trouble = "nothing" /\ message \in Messages /\ headers \in Headers
       \/ /\ trouble \in DOMAIN Refusals \cup Verbs
          /\ message = [id |-> "absent", jsonrpc |-> FALSE, method |-> "none",
                        params |-> [kind |-> "missing"], ending |-> "result"]
          /\ headers = [version |-> "absent", method |-> "other",
                        name |-> "other", twice |-> FALSE]
    /\ http = NoReply
    /\ stdio = Silence

\* The same message over both transports; over stdio there are no headers.
Exchange ==
    /\ trouble = "nothing" /\ http = NoReply
    /\ http' = Post(message, headers)
    /\ stdio' = Stdio(message)
    /\ UNCHANGED <<message, headers, trouble>>

\* No message to speak of.  Only what both transports meet has a stdio answer.
Refuse ==
    /\ trouble \in DOMAIN Refusals /\ http = NoReply
    /\ http' = Reply(Refusals[trouble], Fault(RefusalCode(trouble), "null"))
    /\ stdio' = CASE trouble = "unparsable" -> Fault(32700, "null")
                  [] trouble \in {"batch", "scalar"} -> Fault(32600, "null")
                  [] OTHER -> Silence
    /\ UNCHANGED <<message, headers, trouble>>

\* Another verb: no answer of it is a JSON-RPC result.
Other(path, foreign, authorized) ==
    /\ trouble \in Verbs /\ http = NoReply
    /\ http' = Reply(OtherStatus(trouble, path, foreign, authorized), Silence)
    /\ UNCHANGED <<message, headers, trouble, stdio>>

Next ==
    \/ Exchange
    \/ Refuse
    \/ \E path \in Paths, f, a \in BOOLEAN : Other(path, f, a)

Spec == Init /\ [][Next]_vars

-----------------------------------------------------------------------------
(* Properties                                                              *)

Exchanged == http # NoReply /\ trouble = "nothing"

\* The headers say of a message what a well-behaved client says.
Faithful(m, h) ==
    IF Era(m) = "modern" THEN ~h.twice /\ Mirrored(m, h) ELSE h.version \in {"absent", "legacy"}

\* A message has one verdict, whatever carries it (dispatch_rpc, do_POST,
\* serve_stdio): with headers that mirror it, HTTP answers what stdio answers,
\* exceptions apart; a wrong body is answered with the protocol's verdict
\* whatever single headers surround it; and nothing is answered to a
\* notification inside the protocol.
OneVerdict ==
    Exchanged =>
        /\ Faithful(message, headers) /\ ~Raises(message) => http.body = stdio
        /\ (/\ EnvelopeOk(message) /\ message.id # "absent"
            /\ Era(message) = "modern" /\ ~headers.twice
            /\ MetaFault(message.params) # 0) => http.body = stdio
        /\ EnvelopeOk(message) /\ message.id = "absent" => stdio = Silence
        /\ message.id = "given" => stdio.kind = "silence" \/ stdio.id = "given"

\* What docs/runtime-contract-v0.3.md says of notifications over HTTP: nothing
\* but the mirror headers can get one an answer.
NotificationsUnanswered ==
    Exchanged /\ EnvelopeOk(message) /\ message.id = "absent" /\ Faithful(message, headers)
        => http.body = Silence

=============================================================================
