-------------------------------- MODULE Egress --------------------------------
(***************************************************************************)
(* Scripts in the Docker sandbox and the proxy their traffic goes through.  *)
(* Under ENFORCED_GATEWAY the proxy runs in the gateway container, which is *)
(* given the executor's allow-list and no limit of DNS queries; under       *)
(* BEST_EFFORT_PROXY it is a process of the installation with the same list *)
(* and a limit of its own.  When the gateway's container stops, the         *)
(* connections end.                                                         *)
(***************************************************************************)
EXTENDS Gateway, SniProxy

CONSTANTS SidecarLimit,  \* dns_rate_limit of a proxy that is not the gateway
          Lists          \* the allow-lists ListsEnforced speaks about

ASSUME EgressAssumption == Lists \subseteq Seq(Entry) /\ SidecarLimit \in Nat

VARIABLE client  \* history: the call whose script opened each connection that is open

vars == <<gatewayVars, proxyVars, client>>

Enforced == EffectiveMode = "enforced"

Init ==
  /\ GatewayInit
  /\ ProxyInit
  /\ limit = IF Enforced THEN 0 ELSE SidecarLimit
  /\ client = [c \in Conns |-> "none"]

ProxyListens == Enforced => gateway.state = "running" /\ gateway.listening

\* What ends a connection forgets who opened it.
ClientsLeft ==
  client' = [c \in Conns |-> IF stage'[c] = "closed" THEN "none" ELSE client[c]]

\* A script that was told of the proxy connects to it.
Opens(e, c) ==
  /\ e \in Running
  /\ conf[e].proxy
  /\ ProxyListens
  /\ Accept(c)
  /\ client' = [client EXCEPT ![c] = e]
  /\ UNCHANGED gatewayVars

Stops ==
  /\ StopStep
  /\ IF Enforced /\ gateway.state = "running" /\ gateway'.state # "running"
     THEN ProxyDies ELSE UNCHANGED connVars
  /\ ClientsLeft
  /\ UNCHANGED limit

Executes == OtherStep /\ UNCHANGED <<proxyVars, client>>

Proxies ==
  /\ \/ \E c \in Conns : ConnStep(c, setting.list)
     \/ \E h \in Hosts : WindowMoves(h)
  /\ ClientsLeft
  /\ UNCHANGED gatewayVars

Next ==
  \/ Executes
  \/ Stops
  \/ \E e \in Execs, c \in Conns : Opens(e, c)
  \/ Proxies

Spec == Init /\ [][Next]_vars

-------------------------------------------------------------------------------
\* Every list (of up to three lines) is enforced as it reads.  That does not
\* depend on what happens, so it is looked at before anything does.
ListsEnforced ==
  (\A c \in Callers : at[c] = "idle") =>
    \A L \in Lists \cup {setting.list} : EnforcedOnly(L) /\ NothingElseDenied(L)

\* End to end: no script gets a network that leads past the proxy; whatever
\* leaves the proxy was asked for by a script that had been given the proxy, and
\* goes to a host and port some entry of the allow-list permits; every name put
\* into the script's /etc/hosts is one that proxy lets through.
EgressPermitted ==
  /\ NoOpenNetwork
  /\ OnlyPermittedUpstream(setting.list)
  /\ \A c \in Upstream : conf[client[c]].proxy
  /\ \A e \in Running : \A h \in conf[e].hosts : IsDomainAllowed(setting.list, h)

\* The allow-list holds on every path: the list is enforced as it reads, and
\* nothing leaves or is let out but through the proxy that enforces it.
EgressFiltered == EgressPermitted /\ ListsEnforced

\* The gateway is kept while it is needed and no longer: scripts are pointed at
\* one that answers, none survives cleanup(), and a script runs without the
\* network it asked for only after Docker has failed or two calls met (_start_egress_gateway,
\* _ensure_gateway_container, cleanup).
GatewayKept == GatewayAnswers /\ NoGatewayLeftBehind /\ DegradedForAReason
===============================================================================
