------------------------------- MODULE SniProxy -------------------------------
(***************************************************************************)
(* The egress proxy, sandbox/sni_proxy.py: connections of sandboxed scripts *)
(* are handled by coroutines of one event loop, each from await to await.   *)
(*                                                                          *)
(* What a client asks for is a record: the method of its first line, the    *)
(* host and port it names, and a second name, which is the server name of   *)
(* the TLS hello that follows a CONNECT, or the Host header of a plain      *)
(* request.  The DNS window is the number of recorded look-ups that are not *)
(* older than the window; a record may leave it at any time.  Drained       *)
(* writes are part of the step that makes them.                             *)
(***************************************************************************)
EXTENDS AllowList

CONSTANTS Conns,     \* connections
          Requests   \* what clients ask for

Request ==
  [method : {"connect", "http", "unknown"}, host : Hosts, port : Ports, absolute : BOOLEAN,
   second : Hosts \cup {"absent"}, whole : BOOLEAN]

ASSUME SniProxyAssumption == Requests \subseteq Request /\ IsFiniteSet(Conns)

VARIABLES
  limit,     \* dns_rate_limit of the process (0: none)
  stage,     \* where the coroutine of each connection is
  req,       \* what its client asked for
  open,      \* the directions of its tunnel that still run
  window,    \* the look-ups of each host that count against the limit
  crowded    \* history: the hosts two coroutines resolved at a time

connVars == <<stage, req, open, window, crowded>>
proxyVars == <<limit, connVars>>

NoRequest == [method |-> "none"]

Stages == {"idle", "first line", "headers", "resolving", "connecting", "hello",
           "tunnel", "closed"}

ProxyInit ==
  /\ stage = [c \in Conns |-> "idle"]
  /\ req = [c \in Conns |-> NoRequest]
  /\ open = [c \in Conns |-> {}]
  /\ window = [h \in Hosts |-> 0]
  /\ crowded = {}

Go(c, s) == stage' = [stage EXCEPT ![c] = s]

\* A refusal (403, 502), a timeout, an end of file or an error of the connection
\* ends the handler, whose finally block closes the writer.
Close(c) == Go(c, "closed") /\ req' = [req EXCEPT ![c] = NoRequest]

\* start_server accepts.
Accept(c) ==
  /\ stage[c] = "idle"
  /\ Go(c, "first line")
  /\ UNCHANGED <<limit, req, open, window, crowded>>

\* The first line decides which handler runs; it has five seconds to come.
\* A CONNECT names its target in that line, so host and port are checked
\* before the headers are read.
FirstLine(c, L) ==
  /\ stage[c] = "first line"
  /\ \E r \in Requests :
       IF \/ r.method = "unknown"
          \/ r.method = "connect" /\ ~ProxyAllows(L, r.host, r.port)
       THEN Close(c)
       ELSE Go(c, "headers") /\ req' = [req EXCEPT ![c] = r]
  /\ UNCHANGED <<limit, open, window, crowded>>

Resolving(h) == {c \in Conns : stage[c] = "resolving" /\ req[c].host = h}

\* Mutant: one look-up more than the limit.
Slip_OneMore(h) == limit = 0 \/ window[h] <= limit

\* DnsAuditor.allow_query(): looks at the window and records nothing.
AllowQuery(h) == limit = 0 \/ window[h] < limit

\* _resolve_host() up to the await of getaddrinfo.
Resolve(c) ==
  LET h == req[c].host IN
  IF AllowQuery(h)
  THEN /\ Go(c, "resolving")
       /\ crowded' = crowded \cup (IF Resolving(h) # {} THEN {h} ELSE {})
       /\ UNCHANGED req
  ELSE Close(c) /\ UNCHANGED crowded

\* A plain request names its host in an absolute URL or in the Host header
\* (which then is the host of r).  If it has both, they must agree.
HttpRefused(r, L) ==
  \/ ~r.absolute /\ r.second = "absent"
  \/ r.absolute /\ r.second \notin {"absent", r.host}
  \/ ~ProxyAllows(L, r.host, r.port)

Headers(c, L) ==
  /\ stage[c] = "headers"
  /\ IF req[c].method = "http" /\ HttpRefused(req[c], L)
     THEN Close(c) /\ UNCHANGED crowded
     ELSE Resolve(c)
  /\ UNCHANGED <<limit, open, window>>

\* getaddrinfo answers: DnsAuditor.record() counts the look-up only now.
Resolved(c) ==
  /\ stage[c] = "resolving"
  /\ Go(c, "connecting")
  /\ window' = [window EXCEPT ![req[c].host] = @ + (IF limit = 0 THEN 0 ELSE 1)]
  /\ UNCHANGED <<limit, req, open, crowded>>

ResolveFails(c) ==
  /\ stage[c] = "resolving"
  /\ Close(c)
  /\ UNCHANGED <<limit, open, window, crowded>>

\* allow_query() drops the records that are older than the window.
WindowMoves(h) ==
  /\ window[h] > 0
  /\ window' = [window EXCEPT ![h] = @ - 1]
  /\ UNCHANGED <<limit, stage, req, open, crowded>>

BothWays == {"up", "down"}

\* open_connection() to the resolved address.  A CONNECT is answered with
\* 200; the hello that follows is looked at unless the target is an address.
\* A plain request is sent on, and tunnelled at once.
Connected(c) ==
  /\ stage[c] = "connecting"
  /\ IF req[c].method = "connect"
     THEN Go(c, IF req[c].host \in Addresses THEN "tunnel" ELSE "hello")
     ELSE Go(c, "tunnel")
  /\ open' = [open EXCEPT ![c] = IF stage'[c] = "tunnel" THEN BothWays ELSE {}]
  /\ UNCHANGED <<limit, req, window, crowded>>

ConnectFails(c) ==
  /\ stage[c] = "connecting"
  /\ Close(c)
  /\ UNCHANGED <<limit, open, window, crowded>>

\* extract_sni(): a name only if the first read holds the whole record.
ExtractSni(r) == IF r.whole THEN r.second ELSE "absent"

\* Mutant: any server name will do.
Slip_AnyName(r) == TRUE

\* sni and sni != host closes both sides; no name lets the tunnel go on.
SniAgrees(r) == ExtractSni(r) \in {"absent", r.host}

Hello(c) ==
  /\ stage[c] = "hello"
  /\ IF SniAgrees(req[c])
     THEN Go(c, "tunnel") /\ open' = [open EXCEPT ![c] = BothWays] /\ UNCHANGED req
     ELSE Close(c) /\ UNCHANGED open
  /\ UNCHANGED <<limit, window, crowded>>

\* Every read has a timeout: five seconds for the first line, each header and
\* the hello, thirty in the tunnel.
Silence(c) ==
  /\ stage[c] \in {"first line", "headers", "hello"}
  /\ Close(c)
  /\ UNCHANGED <<limit, open, window, crowded>>

\* forward() ends at the end of its input, an error or thirty silent seconds,
\* and closes the writer of the other side, which is that side's connection:
\* the other direction then ends as well, data or not.
ForwardEnds(c, d) ==
  /\ d \in open[c]
  /\ open' = [open EXCEPT ![c] = @ \ {d}]
  /\ IF open'[c] = {} THEN Close(c) ELSE UNCHANGED <<stage, req>>
  /\ UNCHANGED <<limit, window, crowded>>

\* The process is gone: all its connections with it, and what it counted.
ProxyDies ==
  /\ stage' = [c \in Conns |-> IF stage[c] = "idle" THEN "idle" ELSE "closed"]
  /\ req' = [c \in Conns |-> NoRequest]
  /\ open' = [c \in Conns |-> {}]
  /\ window' = [h \in Hosts |-> 0]
  /\ UNCHANGED <<limit, crowded>>

\* One step of a coroutine; L is the list the process was started with.
ConnStep(c, L) ==
  \/ FirstLine(c, L) \/ Headers(c, L)
  \/ Resolved(c) \/ ResolveFails(c)
  \/ Connected(c) \/ ConnectFails(c)
  \/ Hello(c) \/ Silence(c)
  \/ \E d \in BothWays : ForwardEnds(c, d)

-------------------------------------------------------------------------------
Upstream == {c \in Conns : stage[c] \in {"resolving", "connecting", "hello", "tunnel"}}

\* The proxy got to see a second name.
SecondNameRead(r) ==
  /\ r.second # "absent"
  /\ IF r.method = "http" THEN r.absolute ELSE r.whole /\ r.host \in Names

\* The proxy turns to the outside (it resolves, connects, forwards) only for
\* a host and port that an entry of its list permits, and it forwards only
\* under the name that was checked: a Host header or a complete server name
\* that says otherwise ends the connection first.
OnlyPermittedUpstream(L) ==
  \A c \in Upstream :
    /\ Permitted(L, req[c].host, req[c].port)
    /\ stage[c] = "tunnel" /\ SecondNameRead(req[c]) => req[c].second = req[c].host

\* DNS queries stay within the limit of the window.  The check and the record
\* are an await apart, so that every look-up under way may come on top; while
\* no two look-ups of a host overlap the limit is exact.
RateLimitKept ==
  limit > 0 =>
    \A h \in Hosts :
      /\ window[h] + Cardinality(Resolving(h)) <= limit + Cardinality(Conns) - 1
      /\ h \notin crowded => window[h] <= limit
===============================================================================
