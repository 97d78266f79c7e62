----------------------------- MODULE EgressProofs ------------------------------
(***************************************************************************)
(* Theorems about the allow-list and what enforces it, about the gateway and *)
(* about the limit of DNS queries, for every list of any length, any number  *)
(* of scripts and connections.                                               *)
(***************************************************************************)
EXTENDS Egress, TLAPS, WellFoundedInduction, FiniteSetTheorems

(***************************************************************************)
(* The two-level look-up.                                                   *)
(***************************************************************************)

\* The scan for the first block with ports finds one.
LEMMA FirstBlock ==
  ASSUME NEW S \in SUBSET Nat, S # {}
  PROVE  (CHOOSE i \in S : \A k \in S : i <= k) \in S
<1> DEFINE Less == OpToRel(<, Nat)
<1>1. IsWellFoundedOn(Less, Nat)
  BY NatLessThanWellFounded
<1>2. \A k, m \in Nat : <<k, m>> \in Less <=> k < m
  BY DEF OpToRel
<1> HIDE DEF Less
<1>3. PICK m \in S : \A k \in S : ~ (<<k, m>> \in Less)
  BY <1>1, WFMin
<1>4. ASSUME NEW k \in S PROVE m <= k
  <2>1. k \in Nat /\ m \in Nat
    OBVIOUS
  <2>2. ~ (k < m)
    BY <2>1, <1>2, <1>3, Zenon
  <2> QED BY <2>1, <2>2
<1> QED BY <1>4

\* The entries of a list, by kind.
LEMMA EntryFacts ==
  ASSUME NEW L \in Seq(Entry), NEW e \in Entries(L)
  PROVE  /\ e \in Entry
         /\ e.wildcard \in BOOLEAN
         /\ e.kind = "domain" => e.host \in Names
         /\ e.kind = "ip" => e.host \in Addresses
         /\ e.kind = "cidr" => e.host \in DOMAIN Members
         /\ e.kind \in {"domain", "ip", "cidr"}
         /\ e.wildcard => e.kind = "domain"
         /\ e.port \in Ports \cup {AnyPort}
<1>1. e \in Entry
  BY DEF Entries
<1>2. CASE e \in [kind : {"domain"}, host : Names, port : Ports \cup {AnyPort},
                  wildcard : BOOLEAN]
  BY <1>1, <1>2
<1>3. CASE e \in [kind : {"ip"}, host : Addresses, port : Ports \cup {AnyPort},
                  wildcard : {FALSE}]
  BY <1>1, <1>3
<1>4. CASE e \in [kind : {"cidr"}, host : DOMAIN Members, port : Ports \cup {AnyPort},
                  wildcard : {FALSE}]
  BY <1>1, <1>4
<1> QED BY <1>1, <1>2, <1>3, <1>4 DEF Entry

\* An entry filed under a host covers this host, one filed under a pattern
\* every name that matches it, and a block all its addresses.
LEMMA FiledCovers ==
  ASSUME NEW L \in Seq(Entry), NEW e \in Entries(L), NEW h \in Hosts
  PROVE  /\ ~e.wildcard /\ e.host = h => Covers(e, h)
         /\ e.wildcard /\ DomainMatches(h, e.host) => Covers(e, h)
         /\ e.host \in DOMAIN Members /\ h \in Members[e.host] => Covers(e, h)
BY AllowListAssumption, EntryFacts DEF Covers, DomainMatches, Hosts

\* The proxy lets nothing through that no single entry permits.
LEMMA ProxyPermits ==
  ASSUME NEW L \in Seq(Entry), NEW h \in Hosts, NEW p \in Ports, ProxyAllows(L, h, p)
  PROVE  Permitted(L, h, p)
<1> DEFINE exact == AllowedPorts(L, h, FALSE)
           wild  == {w \in AllowedWildcards(L) :
                       DomainMatches(h, w) /\ AllowedPorts(L, w, TRUE) # {}}
           block == PortedBlocks(L, h)
           first == CHOOSE i \in block : \A k \in block : i <= k
<1>1. CASE exact # {}
  <2>1. p \in exact
    BY <1>1 DEF ProxyAllows, IsPortAllowed
  <2>2. PICK e \in Entries(L) : e.host = h /\ ~e.wildcard /\ e.port = p
    BY <2>1 DEF AllowedPorts
  <2> QED BY <2>2, FiledCovers DEF Permitted
<1>2. CASE exact = {} /\ wild # {}
  <2>1. PICK w \in wild : p \in AllowedPorts(L, w, TRUE)
    BY <1>2 DEF ProxyAllows, IsPortAllowed
  <2>2. PICK e \in Entries(L) : e.host = w /\ e.wildcard /\ e.port = p
    BY <2>1 DEF AllowedPorts
  <2> QED BY <2>1, <2>2, FiledCovers DEF Permitted
<1>3. CASE exact = {} /\ wild = {} /\ block # {}
  <2>1. p \in AllowedPorts(L, L[first].host, FALSE)
    BY <1>3 DEF ProxyAllows, IsPortAllowed
  <2>2. first \in block
    <3>1. block \in SUBSET Nat
      BY DEF PortedBlocks
    <3> QED BY <1>3, <3>1, FirstBlock
  <2> HIDE DEF first
  <2>3. L[first] \in Entries(L) /\ L[first].kind = "cidr" /\ h \in Members[L[first].host]
    BY <2>2 DEF PortedBlocks, Entries
  <2>4. L[first].host \in DOMAIN Members
    BY <2>3, EntryFacts
  <2>5. PICK e \in Entries(L) : e.host = L[first].host /\ e.port = p
    BY <2>1 DEF AllowedPorts
  <2> QED BY <2>3, <2>4, <2>5, FiledCovers DEF Permitted
<1>4. CASE exact = {} /\ wild = {} /\ block = {}
  <2>1. CASE h \in AllowedDomains(L)
    <3>1. PICK e \in Entries(L) : e.kind = "domain" /\ ~e.wildcard /\ e.host = h
      BY <2>1 DEF AllowedDomains
    <3>2. e.port = AnyPort /\ Covers(e, h)
      BY <1>4, <3>1, EntryFacts, FiledCovers DEF AllowedPorts
    <3> QED BY <3>2 DEF Permitted
  <2>2. ASSUME NEW w \in AllowedWildcards(L), DomainMatches(h, w)
        PROVE  Permitted(L, h, p)
    <3>1. PICK e \in Entries(L) : e.wildcard /\ e.host = w
      BY DEF AllowedWildcards
    <3>2. AllowedPorts(L, w, TRUE) = {}
      BY <1>4, <2>2
    <3>3. e.port = AnyPort /\ Covers(e, h)
      BY <2>2, <3>1, <3>2, EntryFacts, FiledCovers DEF AllowedPorts
    <3> QED BY <3>3 DEF Permitted
  <2>3. CASE IsIpAllowed(L, h)
    <3>1. PICK e \in Entries(L) :
            /\ e.kind # "domain"
            /\ IF e.host \in DOMAIN Members THEN h \in Members[e.host] ELSE h = e.host
      BY <2>3 DEF IsIpAllowed, AllowedIps
    <3>2. ~e.wildcard /\ e.kind \in {"ip", "cidr"}
      BY <3>1, EntryFacts
    <3>3. CASE e.kind = "cidr"
      <4>1. e.host \in DOMAIN Members /\ h \in Members[e.host]
        BY <3>1, <3>3, EntryFacts
      <4>2. PICK i \in DOMAIN L : L[i] = e
        BY DEF Entries
      <4>3. e.port = AnyPort
        BY <1>4, <3>3, <4>1, <4>2 DEF PortedBlocks
      <4> QED BY <4>1, <4>3, FiledCovers DEF Permitted
    <3>4. CASE e.kind = "ip"
      <4>1. e.host \in Addresses /\ e.host \notin DOMAIN Members
        BY <3>4, EntryFacts, AllowListAssumption
      <4>2. h = e.host
        BY <3>1, <4>1
      <4>3. e.port = AnyPort /\ Covers(e, h)
        BY <1>4, <3>2, <4>2, FiledCovers DEF AllowedPorts
      <4> QED BY <4>3 DEF Permitted
    <3> QED BY <3>2, <3>3, <3>4
  <2> QED BY <2>1, <2>2, <2>3 DEF ProxyAllows, IsDomainAllowed
<1> QED BY <1>1, <1>2, <1>3, <1>4

LEMMA ListEnforced ==
  ASSUME NEW L \in Seq(Entry)
  PROVE  EnforcedOnly(L)
BY ProxyPermits DEF EnforcedOnly, EnvoyForwards, IsDomainAllowed

\* An entry that is alone for its host keeps its ports.
LEMMA NothingDenied ==
  ASSUME NEW L \in Seq(Entry)
  PROVE  NothingElseDenied(L)
<1> SUFFICES ASSUME NEW i \in DOMAIN L, NEW h \in Hosts, NEW p \in Ports,
                    Covers(L[i], h),
                    \A k \in DOMAIN L : Covers(L[k], h) => k = i
             PROVE  ProxyAllows(L, h, p) <=> L[i].port \in {AnyPort, p}
  BY DEF NothingElseDenied
<1>1. L[i] \in Entries(L) /\ \A e \in Entries(L) : Covers(e, h) => e = L[i]
  BY DEF Entries
<1>2. ProxyAllows(L, h, p) => L[i].port \in {AnyPort, p}
  BY <1>1, ProxyPermits DEF Permitted
<1>3. IsDomainAllowed(L, h)
  <2>1. CASE L[i].wildcard
    <3>1. DomainMatches(h, L[i].host)
      <4>1. L[i].kind = "domain"
        BY <1>1, <2>1, EntryFacts
      <4> QED BY <2>1, <4>1 DEF Covers, DomainMatches
    <3>2. L[i].host \in AllowedWildcards(L)
      BY <1>1, <2>1 DEF AllowedWildcards
    <3> QED BY <3>1, <3>2 DEF IsDomainAllowed
  <2>2. CASE ~L[i].wildcard /\ L[i].kind = "cidr"
    <3>1. h \in Members[L[i].host] /\ L[i].host \in AllowedIps(L)
      BY <1>1, <2>2 DEF Covers, AllowedIps
    <3>2. L[i].host \in DOMAIN Members
      BY <1>1, <2>2, EntryFacts
    <3> QED BY <3>1, <3>2 DEF IsDomainAllowed, IsIpAllowed
  <2>3. CASE ~L[i].wildcard /\ L[i].kind = "ip"
    <3>1. h = L[i].host /\ L[i].host \in AllowedIps(L)
      BY <1>1, <2>3 DEF Covers, AllowedIps
    <3>2. h \notin DOMAIN Members
      BY AllowListAssumption DEF Hosts
    <3> QED BY <3>1, <3>2 DEF IsDomainAllowed, IsIpAllowed
  <2>4. CASE ~L[i].wildcard /\ L[i].kind = "domain"
    BY <1>1, <2>4 DEF Covers, AllowedDomains, IsDomainAllowed
  <2> QED BY <1>1, <2>1, <2>2, <2>3, <2>4, EntryFacts
<1>4. ASSUME L[i].port \in {AnyPort, p} PROVE IsPortAllowed(L, h, p)
  <2> DEFINE exact == AllowedPorts(L, h, FALSE)
             wild  == {w \in AllowedWildcards(L) :
                         DomainMatches(h, w) /\ AllowedPorts(L, w, TRUE) # {}}
             block == PortedBlocks(L, h)
             first == CHOOSE k \in block : \A n \in block : k <= n
  <2>1. ASSUME NEW q \in exact PROVE q = p
    <3>1. PICK e \in Entries(L) : e.host = h /\ ~e.wildcard /\ e.port = q /\ q # AnyPort
      BY DEF AllowedPorts
    <3> QED BY <1>1, <1>4, <3>1, FiledCovers
  <2>2. ASSUME NEW w \in wild PROVE p \in AllowedPorts(L, w, TRUE)
    <3>1. PICK q : q \in AllowedPorts(L, w, TRUE)
      OBVIOUS
    <3>2. PICK e \in Entries(L) : e.host = w /\ e.wildcard /\ e.port = q /\ q # AnyPort
      BY <3>1 DEF AllowedPorts
    <3>3. q = p
      BY <1>1, <1>4, <3>2, FiledCovers
    <3> QED BY <3>1, <3>3
  <2>3. CASE block # {}
    <3>1. first \in block
      <4>1. block \in SUBSET Nat
        BY DEF PortedBlocks
      <4> QED BY <2>3, <4>1, FirstBlock
    <3> HIDE DEF first
    <3>2. /\ L[first] \in Entries(L) /\ L[first].kind = "cidr" /\ L[first].port # AnyPort
          /\ h \in Members[L[first].host]
      BY <3>1 DEF PortedBlocks, Entries
    <3>3. L[first].host \in DOMAIN Members /\ ~L[first].wildcard
      BY <3>2, EntryFacts
    <3>4. L[first] = L[i] /\ L[first].port = p
      BY <1>1, <1>4, <3>2, <3>3, FiledCovers
    <3>5. p \in AllowedPorts(L, L[first].host, FALSE)
      BY <3>2, <3>3, <3>4 DEF AllowedPorts
    <3> QED BY <2>1, <2>2, <2>3, <3>5 DEF IsPortAllowed, first
  <2>4. CASE block = {}
    BY <2>1, <2>2, <2>4 DEF IsPortAllowed
  <2> QED BY <2>3, <2>4
<1> QED BY <1>2, <1>3, <1>4 DEF ProxyAllows

(***************************************************************************)
(* The networks scripts get.                                                *)
(***************************************************************************)

Places == SettingUp \cup {"idle", "launch", "running", "returned"}

\* What execute() may give a script, by the mode that is in effect.
Given(n) ==
  \/ n = NoNetwork
  \/ EffectiveMode = "enforced" /\ n = (IF UseAllowlist THEN Proxied(Internal) ELSE Internal)
  \/ EffectiveMode = "best effort" /\ n \in {Bridge, Proxied(Bridge)}

\* Only the enforcing mode sets anything up, and a gateway only for a list.
GatewayInv ==
  /\ setting \in Settings
  /\ at \in [Callers -> Places]
  /\ DOMAIN conf = Execs /\ conf = [e \in Execs |-> conf[e]]
  /\ \A e \in Execs : Given(conf[e])
  /\ stray \subseteq {e \in Execs : at[e] = "returned"}
  /\ \A e \in Execs :
       /\ at[e] \in SettingUp => EffectiveMode = "enforced"
       /\ at[e] \in SettingUp \ {"inspect net", "create net"} => UseAllowlist

\* A script that has started keeps the network it was given.
Settled ==
  \A e \in Execs :
    at[e] \in {"running", "returned"} =>
      conf'[e] = conf[e] /\ at'[e] \in {"running", "returned"}

LEMMA Modes ==
  ASSUME setting \in Settings
  PROVE  EffectiveMode \in {"disabled", "best effort", "enforced"}
BY GatewayAssumption DEF EffectiveMode

\* A caller goes to another place.
LEMMA GoesTo ==
  ASSUME GatewayInv, NEW c \in Callers, NEW where \in Places, Goto(c, where)
  PROVE  /\ at' \in [Callers -> Places]
         /\ at'[c] = where
         /\ \A d \in Callers : d # c => at'[d] = at[d]
BY DEF GatewayInv, Goto

LEMMA ExecCallers == \A e \in Execs : e \in Callers /\ e # "cleanup"
BY GatewayAssumption DEF Callers

\* A call goes on with setting up, or gets its network.
SetsUp(e, where) ==
  /\ Goto(e, where)
  /\ where \in SettingUp
  /\ EffectiveMode = "enforced"
  /\ where \in SettingUp \ {"inspect net", "create net"} => UseAllowlist
  /\ UNCHANGED conf

IsGiven(e, n) == Launch(e, n) /\ Given(n)

Moves(e) == (\E where : SetsUp(e, where)) \/ (\E n : IsGiven(e, n))

LEMMA CallMoves ==
  ASSUME GatewayInv, NEW e \in Execs, setting' = setting, stray' = stray,
         at[e] \notin {"running", "returned"},
         Moves(e)
  PROVE  GatewayInv' /\ Settled
<1> USE ExecCallers
<1>1. EffectiveMode' = EffectiveMode /\ UseAllowlist' = UseAllowlist
      /\ \A n : Given(n)' <=> Given(n)
  BY DEF EffectiveMode, UseAllowlist, Given, Proxied, AddHosts
<1>2. PICK where \in Places :
        /\ Goto(e, where)
        /\ where \in SettingUp => EffectiveMode = "enforced"
        /\ where \in SettingUp \ {"inspect net", "create net"} => UseAllowlist
  <2>1. ASSUME NEW n, Launch(e, n) PROVE Goto(e, "launch")
    BY <2>1 DEF Launch
  <2>2. "launch" \in Places /\ "launch" \notin SettingUp /\ SettingUp \subseteq Places
    BY DEF Places, SettingUp
  <2> QED BY <2>1, <2>2 DEF Moves, SetsUp, IsGiven
<1>3. /\ at' \in [Callers -> Places]
      /\ at'[e] = where
      /\ \A d \in Callers : d # e => at'[d] = at[d]
  BY <1>2, GoesTo
<1>4. /\ DOMAIN conf' = Execs /\ conf' = [d \in Execs |-> conf'[d]]
      /\ \A d \in Execs : d # e => conf'[d] = conf[d]
      /\ Given(conf'[e])
  BY DEF GatewayInv, Launch, Moves, SetsUp, IsGiven
<1>5. \A d \in Execs : Given(conf'[d])
  BY <1>4 DEF GatewayInv
<1>6. e \notin stray
  BY DEF GatewayInv
<1>7. stray' \subseteq {d \in Execs : at'[d] = "returned"}
  BY <1>3, <1>6 DEF GatewayInv
<1>8. Settled
  BY <1>3, <1>4 DEF Settled
<1>9. \A d \in Execs :
        /\ at'[d] \in SettingUp => EffectiveMode = "enforced"
        /\ at'[d] \in SettingUp \ {"inspect net", "create net"} => UseAllowlist
  BY <1>2, <1>3 DEF GatewayInv
<1> QED BY <1>1, <1>3, <1>4, <1>5, <1>7, <1>8, <1>9 DEF GatewayInv

LEMMA NoNetworkMoves ==
  ASSUME NEW e \in Execs, FailClosed(e)
  PROVE  Moves(e)
<1>1. IsGiven(e, NoNetwork)
  BY DEF FailClosed, IsGiven, Given
<1> QED BY <1>1 DEF Moves

LEMMA OnInternalMoves ==
  ASSUME NEW e \in Execs, EffectiveMode = "enforced", OnInternal(e)
  PROVE  Moves(e)
<1>1. CASE ~UseAllowlist
  <2>1. IsGiven(e, Internal)
    BY <1>1 DEF OnInternal, IsGiven, Given
  <2> QED BY <2>1 DEF Moves
<1>2. CASE UseAllowlist /\ started
  <2>1. IsGiven(e, Proxied(Internal))
    BY <1>2 DEF OnInternal, IsGiven, Given
  <2> QED BY <2>1 DEF Moves
<1>3. CASE UseAllowlist /\ ~started
  <2>1. SetsUp(e, "run gateway")
    BY <1>3 DEF OnInternal, SetsUp, SettingUp
  <2> QED BY <2>1 DEF Moves
<1> QED BY <1>1, <1>2, <1>3

LEMMA SettingUpStep ==
  ASSUME GatewayInv, NEW e \in Execs,
         \/ Execute(e) \/ InspectNet(e) \/ CreateNet(e) \/ RunGateway(e)
         \/ SpawnRaises(e) \/ ConnectGateway(e) \/ InspectGateway(e)
         \/ GatewayReady(e) \/ GatewayNotReady(e)
         \/ StopGateway(e) \/ RemoveGateway(e)
  PROVE  GatewayInv' /\ Settled
<1>1. /\ setting' = setting /\ stray' = stray
      /\ at[e] \notin {"running", "returned"}
  BY DEF Execute, InspectNet, CreateNet, RunGateway, SpawnRaises, ConnectGateway,
         InspectGateway, GatewayReady, GatewayNotReady, StopGateway, RemoveGateway, callVars
<1>2. /\ at[e] \in SettingUp => EffectiveMode = "enforced"
      /\ at[e] \in SettingUp \ {"inspect net", "create net"} => UseAllowlist
  BY DEF GatewayInv
<1>3. CASE Execute(e)
  <2>1. Moves(e)
    <3>1. CASE EffectiveMode = "disabled"
      <4>1. FailClosed(e)
        BY <1>3, <3>1 DEF Execute, FailClosed
      <4> QED BY <4>1, NoNetworkMoves
    <3>2. CASE EffectiveMode = "enforced" /\ netCreated
      <4>1. OnInternal(e)
        BY <1>3, <3>2 DEF Execute
      <4> QED BY <3>2, <4>1, OnInternalMoves
    <3>3. CASE EffectiveMode = "enforced" /\ ~netCreated
      <4>1. SetsUp(e, "inspect net")
        BY <1>3, <3>3 DEF Execute, SetsUp, SettingUp
      <4> QED BY <4>1 DEF Moves
    <3>4. CASE EffectiveMode = "best effort"
      <4>1. PICK n \in {NoNetwork, Bridge, Proxied(Bridge)} : Launch(e, n)
        BY <1>3, <3>4 DEF Execute
      <4>2. IsGiven(e, n)
        BY <3>4, <4>1 DEF IsGiven, Given
      <4> QED BY <4>2 DEF Moves
    <3> QED BY <3>1, <3>2, <3>3, <3>4, Modes DEF GatewayInv
  <2> QED BY <1>1, <2>1, CallMoves
<1>4. CASE InspectNet(e) \/ CreateNet(e)
  <2>1. /\ EffectiveMode = "enforced"
        /\ \/ OnInternal(e) \/ FailClosed(e)
           \/ Goto(e, "create net") /\ UNCHANGED conf
    BY <1>2, <1>4 DEF InspectNet, CreateNet, SettingUp
  <2>2. ASSUME Goto(e, "create net"), UNCHANGED conf PROVE SetsUp(e, "create net")
    BY <2>1, <2>2 DEF SetsUp, SettingUp
  <2>3. Moves(e)
    BY <2>1, <2>2, OnInternalMoves, NoNetworkMoves DEF Moves
  <2> QED BY <1>1, <2>3, CallMoves
<1>5. CASE \/ RunGateway(e) \/ SpawnRaises(e) \/ ConnectGateway(e) \/ InspectGateway(e)
           \/ GatewayNotReady(e) \/ StopGateway(e) \/ RemoveGateway(e)
  <2> DEFINE next == {"connect gateway", "inspect gateway", "await gateway",
                      "stop gateway", "remove gateway"}
  <2>1. /\ at[e] \in SettingUp \ {"inspect net", "create net"}
        /\ \/ FailClosed(e)
           \/ UNCHANGED conf /\ \E where \in next : Goto(e, where)
    BY <1>5 DEF RunGateway, SpawnRaises, ConnectGateway, InspectGateway, GatewayNotReady,
                StopGateway, RemoveGateway, SettingUp, callVars
  <2>2. ASSUME NEW where \in next, UNCHANGED conf, Goto(e, where) PROVE SetsUp(e, where)
    BY <1>2, <2>1, <2>2 DEF SetsUp, SettingUp
  <2>3. Moves(e)
    BY <2>1, <2>2, NoNetworkMoves DEF Moves
  <2> QED BY <1>1, <2>3, CallMoves
<1>6. CASE GatewayReady(e)
  <2>1. at[e] \in SettingUp \ {"inspect net", "create net"} /\ Launch(e, Proxied(Internal))
    BY <1>6 DEF GatewayReady, SettingUp
  <2>2. IsGiven(e, Proxied(Internal))
    BY <1>2, <2>1 DEF IsGiven, Given
  <2>3. Moves(e)
    BY <2>2 DEF Moves
  <2> QED BY <1>1, <2>3, CallMoves
<1> QED BY <1>3, <1>4, <1>5, <1>6

\* Scripts start and end, cleanup() does its part, Docker does its own.
LEMMA OtherGatewayStep ==
  ASSUME GatewayInv,
         \/ \E e \in Execs : RunScript(e) \/ ScriptEnds(e) \/ StrayEnds(e) \/ Cancelled(e)
         \/ StopGateway("cleanup") \/ RemoveGateway("cleanup") \/ CleanupCalled
         \/ GatewayListens \/ GatewayDies
  PROVE  GatewayInv' /\ Settled
<1> USE ExecCallers
<1>1. setting' = setting /\ conf' = conf
  BY GatewayAssumption DEF RunScript, ScriptEnds, StrayEnds, Cancelled, StopGateway,
     RemoveGateway, CleanupCalled, GatewayListens, GatewayDies, callVars
<1>2. EffectiveMode' = EffectiveMode /\ UseAllowlist' = UseAllowlist
      /\ \A n : Given(n)' <=> Given(n)
  BY <1>1 DEF EffectiveMode, UseAllowlist, Given, Proxied, AddHosts
<1>3. "cleanup" \in Callers /\ {"launch", "running", "returned", "idle", "stop gateway", "remove gateway"} \subseteq Places
  BY DEF Callers, Places, SettingUp
<1>4. /\ at' \in [Callers -> Places]
      /\ stray' \subseteq {e \in Execs : at'[e] = "returned"}
      /\ \A e \in Execs : at'[e] = at[e] \/ at'[e] \in {"running", "returned"}
      /\ \A e \in Execs : at[e] \in {"running", "returned"} => at'[e] \in {"running", "returned"}
  <2>1. ASSUME NEW e \in Execs, RunScript(e) PROVE <1>4
    <3>1. at[e] = "launch" /\ stray' = stray
          /\ \E where \in {"running", "returned"} : Goto(e, where)
      BY <2>1 DEF RunScript, Return
    <3> QED BY <3>1, <1>3, GoesTo, ZenonT(60) DEF GatewayInv
  <2>2. ASSUME NEW e \in Execs, ScriptEnds(e) PROVE <1>4
    <3>1. at[e] = "running" /\ stray' \subseteq stray \cup {e} /\ Goto(e, "returned")
      BY <2>2 DEF ScriptEnds, Return
    <3> QED BY <3>1, <1>3, GoesTo, ZenonT(60) DEF GatewayInv
  <2>3. ASSUME NEW e \in Execs, StrayEnds(e) PROVE <1>4
    BY <2>3 DEF StrayEnds, GatewayInv
  <2>4. ASSUME NEW e \in Execs, Cancelled(e) PROVE <1>4
    <3>1. stray' \subseteq stray \cup {e} /\ Goto(e, "returned")
      BY <2>4 DEF Cancelled, Return
    <3> QED BY <3>1, <1>3, GoesTo, ZenonT(60) DEF GatewayInv
  <2>5. ASSUME StopGateway("cleanup") \/ RemoveGateway("cleanup") \/ CleanupCalled
        PROVE  <1>4
    <3>1. stray' = stray /\ \E where \in Places : Goto("cleanup", where)
      BY <1>3, <2>5, GatewayAssumption DEF StopGateway, RemoveGateway, CleanupCalled, callVars
    <3> QED BY <3>1, <1>3, GoesTo, ZenonT(60) DEF GatewayInv
  <2>6. ASSUME GatewayListens \/ GatewayDies PROVE <1>4
    BY <2>6 DEF GatewayListens, GatewayDies, GatewayInv, callVars
  <2> QED BY <2>1, <2>2, <2>3, <2>4, <2>5, <2>6
<1>5. \A e \in Execs : at'[e] \in SettingUp => at[e] = at'[e]
  BY <1>4 DEF SettingUp
<1> QED BY <1>1, <1>2, <1>4, <1>5, ZenonT(60) DEF GatewayInv, Settled

LEMMA GatewayStep ==
  ASSUME GatewayInv, StopStep \/ OtherStep
  PROVE  GatewayInv' /\ Settled /\ setting' = setting
<1>1. GatewayInv' /\ Settled
  <2>1. ASSUME NEW c \in Callers, StopGateway(c) \/ RemoveGateway(c) PROVE <1>1
    BY <2>1, SettingUpStep, OtherGatewayStep DEF Callers
  <2>2. ASSUME NEW e \in Execs, ExecStep(e) PROVE <1>1
    BY <2>2, SettingUpStep, OtherGatewayStep DEF ExecStep
  <2> QED BY <2>1, <2>2, OtherGatewayStep DEF StopStep, OtherStep
<1>2. setting' = setting
  BY DEF StopStep, OtherStep, ExecStep, Execute, InspectNet, CreateNet, RunGateway,
         SpawnRaises, ConnectGateway, InspectGateway, GatewayReady, GatewayNotReady,
         RunScript, ScriptEnds, StrayEnds, Cancelled, StopGateway, RemoveGateway,
         CleanupCalled, GatewayListens, GatewayDies
<1> QED BY <1>1, <1>2

(***************************************************************************)
(* The gateway is kept while it is needed and no longer.                    *)
(***************************************************************************)

\* A call at one of these places answers for the container it has created.
Owning == {"connect gateway", "inspect gateway", "await gateway", "stop gateway",
           "remove gateway"}

Containers ==
  [state : {"absent", "running", "stopped"}, attached : BOOLEAN, listening : BOOLEAN]

KeptTypeOK ==
  /\ gateway \in Containers
  /\ gateway = Absent <=> gateway.state = "absent"
  /\ netCreated \in BOOLEAN /\ netExists \in BOOLEAN /\ started \in BOOLEAN
  /\ netCreated => netExists
  /\ faults \in Nat /\ cancels \in Nat /\ cleanups \in Nat

\* The container counts as started, or somebody still answers for it.
Answered ==
  hurt \cap {"cancelled", "stuck"} = {} /\ gateway.state # "absent" =>
    started \/ \E c \in Callers : at[c] \in Owning

\* One call at most answers for the container, and what that call has found out
\* about it is still so.
OwnedByOne ==
  /\ at["cleanup"] = "idle"
  /\ \A c, d \in Callers : at[c] \in Owning /\ at[d] \in Owning => c = d
  /\ \A c \in Callers : at[c] \in Owning => ~started /\ gateway.state # "absent"
  /\ \A c \in Callers :
       at[c] \in {"connect gateway", "inspect gateway", "await gateway"} =>
         gateway.state = "running"
  /\ \A c \in Callers : at[c] \in {"inspect gateway", "await gateway"} => gateway.attached

\* A gateway that counts as started answers, and who relies on one relies on that.
Served ==
  /\ started => gateway.state = "running" /\ gateway.attached /\ gateway.listening
  /\ \A e \in Execs :
       at[e] \in {"launch", "running"} /\ conf[e].network = "internal" /\ conf[e].proxy
         => started

\* So it is until something happens to the gateway.
OneOwner == Spared => OwnedByOne /\ Served

\* Who is not among shared sets up alone.
SharedKnown ==
  \A c, d \in Callers :
    c # d /\ at[c] \in SettingUp /\ at[d] \in SettingUp => c \in shared

\* A call that is alone finds what it left, and has lost its network to Docker.
Excused(e) == faults > 0 \/ cancels > 0 \/ e \in shared

FindsItsOwn(e) ==
  /\ at[e] = "create net" => ~netExists
  /\ at[e] = "run gateway" => gateway.state = "absent"
  /\ at[e] \in {"connect gateway", "inspect gateway", "await gateway"} =>
       gateway.state = "running"
  /\ at[e] \in {"inspect gateway", "await gateway"} => gateway.attached
  /\ at[e] \notin {"stop gateway", "remove gateway"}
  /\ at[e] \in {"launch", "running"} \/ e \in stray => conf[e].network # "none"

Reason(e) == EffectiveMode = "enforced" /\ ~Excused(e) => FindsItsOwn(e)

Reasons ==
  /\ cancels = 0 => "cancelled" \notin hurt
  /\ faults = 0 => "stuck" \notin hurt
  /\ \A e \in Execs : Reason(e)

KeptInv == KeptTypeOK /\ Answered /\ OneOwner /\ SharedKnown /\ Reasons


\* What the container may become.
LEMMA Forms ==
  ASSUME KeptTypeOK
  PROVE  /\ Absent \in Containers /\ Absent.state = "absent"
         /\ Fresh \in Containers /\ Fresh.state = "running" /\ Fresh # Absent
         /\ [gateway EXCEPT !.attached = TRUE] \in Containers
         /\ [gateway EXCEPT !.attached = TRUE].state = gateway.state
         /\ [gateway EXCEPT !.attached = TRUE].attached
         /\ [gateway EXCEPT !.listening = TRUE] \in Containers
         /\ [gateway EXCEPT !.listening = TRUE].state = gateway.state
         /\ [gateway EXCEPT !.listening = TRUE].attached = gateway.attached
         /\ [gateway EXCEPT !.listening = TRUE].listening
         /\ [gateway EXCEPT !.state = "stopped"] \in Containers
         /\ [gateway EXCEPT !.state = "stopped"].state = "stopped"
<1>1. Absent \in Containers /\ Absent.state = "absent"
  BY DEF Absent, Containers
<1>2. Fresh \in Containers /\ Fresh.state = "running"
  BY DEF Fresh, Containers
<1>3. gateway \in Containers
  BY DEF KeptTypeOK
<1>4. \A g \in Containers :
        /\ [g EXCEPT !.attached = TRUE] \in Containers
        /\ [g EXCEPT !.listening = TRUE] \in Containers
        /\ [g EXCEPT !.state = "stopped"] \in Containers
  BY DEF Containers
<1>5. \A g \in Containers :
        /\ [g EXCEPT !.attached = TRUE].state = g.state
        /\ [g EXCEPT !.attached = TRUE].attached
        /\ [g EXCEPT !.listening = TRUE].state = g.state
        /\ [g EXCEPT !.listening = TRUE].attached = g.attached
        /\ [g EXCEPT !.listening = TRUE].listening
        /\ [g EXCEPT !.state = "stopped"].state = "stopped"
  BY DEF Containers
<1> QED BY <1>1, <1>2, <1>3, <1>4, <1>5

\* The container after a step, and the flags.
LEMMA KeptTypeStep ==
  ASSUME GatewayInv, KeptTypeOK, StopStep \/ OtherStep
  PROVE  KeptTypeOK'
<1> DEFINE Become == {gateway, Absent, Fresh, [gateway EXCEPT !.attached = TRUE],
                      [gateway EXCEPT !.listening = TRUE], [gateway EXCEPT !.state = "stopped"]}
<1>1. /\ gateway' \in {gateway, Absent, Fresh} \/ gateway.state # "absent"
      /\ gateway' \in Become
  <2>1. gateway = Absent <=> gateway.state = "absent"
    BY DEF KeptTypeOK
  <2>2. ASSUME NEW e \in Execs, ExecStep(e) PROVE <1>1
    BY <2>1, <2>2 DEF ExecStep, Execute, InspectNet, CreateNet, RunGateway,
       SpawnRaises, ConnectGateway, InspectGateway, GatewayReady, GatewayNotReady,
       RunScript, ScriptEnds, StrayEnds, Cancelled
  <2>3. ASSUME NEW c \in Callers, StopGateway(c) \/ RemoveGateway(c) PROVE <1>1
    BY <2>1, <2>3 DEF StopGateway, RemoveGateway
  <2>4. CASE CleanupCalled \/ GatewayListens \/ GatewayDies
    BY <2>1, <2>4 DEF CleanupCalled, GatewayListens, GatewayDies
  <2> QED BY <2>2, <2>3, <2>4 DEF StopStep, OtherStep
<1>2. gateway' \in Containers /\ (gateway' = Absent <=> gateway'.state = "absent")
  <2>1. /\ gateway \in Containers /\ (gateway = Absent <=> gateway.state = "absent")
    BY DEF KeptTypeOK
  <2>2. CASE gateway' \in {gateway, Absent, Fresh}
    BY <2>1, <2>2, Forms
  <2>3. CASE /\ gateway.state # "absent"
             /\ gateway' \in {[gateway EXCEPT !.attached = TRUE],
                      [gateway EXCEPT !.listening = TRUE], [gateway EXCEPT !.state = "stopped"]}
    <3>1. gateway' \in Containers /\ gateway'.state # "absent"
      BY <2>1, <2>3, Forms
    <3> QED BY <3>1, Forms
  <2> QED BY <1>1, <2>2, <2>3
<1>3. /\ faults' \in Nat /\ cancels' \in Nat /\ cleanups' \in Nat
      /\ faults <= faults' /\ cancels <= cancels'
  <2>1. faults \in Nat /\ cancels \in Nat /\ cleanups \in Nat
    BY DEF KeptTypeOK
  <2>2. ASSUME NEW e \in Execs, ExecStep(e)
        PROVE  faults' \in {faults, faults + 1} /\ cancels' \in {cancels, cancels + 1}
               /\ cleanups' = cleanups
    BY <2>2 DEF ExecStep, Execute, InspectNet, CreateNet, RunGateway,
       SpawnRaises, ConnectGateway, InspectGateway, GatewayReady, GatewayNotReady,
       RunScript, ScriptEnds, StrayEnds, Cancelled, boundVars, Fault
  <2>3. ASSUME NEW c \in Callers, StopGateway(c) \/ RemoveGateway(c)
        PROVE  faults' \in {faults, faults + 1} /\ cancels' = cancels /\ cleanups' = cleanups
    BY <2>3 DEF StopGateway, RemoveGateway, boundVars, Fault
  <2>4. ASSUME CleanupCalled \/ GatewayListens \/ GatewayDies
        PROVE  /\ faults' \in {faults, faults + 1} /\ cancels' = cancels
               /\ cleanups' \in {cleanups, cleanups + 1}
    BY <2>4 DEF CleanupCalled, GatewayListens, GatewayDies, boundVars, Fault
  <2> QED BY <2>1, <2>2, <2>3, <2>4 DEF StopStep, OtherStep, boundVars
<1>4. /\ netCreated' \in BOOLEAN /\ netExists' \in BOOLEAN /\ started' \in BOOLEAN
      /\ netCreated' => netExists'
  <2>1. /\ netCreated \in BOOLEAN /\ netExists \in BOOLEAN /\ started \in BOOLEAN
        /\ netCreated => netExists
    BY DEF KeptTypeOK
  <2>2. ASSUME NEW e \in Execs, InspectNet(e) \/ CreateNet(e) PROVE <1>4
    <3>1. /\ started' = started
          /\ \/ UNCHANGED netVars
             \/ netCreated' = TRUE /\ netExists' = netExists /\ netExists
             \/ netCreated' = TRUE /\ netExists' = TRUE
      BY <2>2 DEF InspectNet, CreateNet, netVars
    <3>2. CASE UNCHANGED netVars
      BY <2>1, <3>1, <3>2 DEF netVars
    <3>3. CASE netCreated' = TRUE /\ netExists' = netExists /\ netExists
      <4>1. netExists'
        BY <3>3
      <4>2. netExists' \in BOOLEAN /\ started' \in BOOLEAN /\ netCreated' \in BOOLEAN
        BY <2>1, <3>1, <3>3
      <4> QED BY <4>1, <4>2
    <3>4. CASE netCreated' = TRUE /\ netExists' = TRUE
      BY <2>1, <3>1, <3>4
    <3> QED BY <3>1, <3>2, <3>3, <3>4
  <2>3. ASSUME NEW e \in Execs, ~InspectNet(e), ~CreateNet(e), ExecStep(e)
        PROVE  UNCHANGED netVars /\ started' \in {started, TRUE}
    BY <2>3 DEF ExecStep, Execute, RunGateway,
       SpawnRaises, ConnectGateway, InspectGateway, GatewayReady, GatewayNotReady,
       RunScript, ScriptEnds, StrayEnds, Cancelled
  <2>4. ASSUME NEW c \in Callers, StopGateway(c) \/ RemoveGateway(c)
        PROVE  UNCHANGED netVars /\ started' \in {started, FALSE}
    BY <2>4 DEF StopGateway, RemoveGateway
  <2>5. ASSUME CleanupCalled \/ GatewayListens \/ GatewayDies
        PROVE  UNCHANGED <<netVars, started>>
    BY <2>5 DEF CleanupCalled, GatewayListens, GatewayDies
  <2>6. ASSUME UNCHANGED netVars, started' \in {started, TRUE, FALSE} PROVE <1>4
    BY <2>1, <2>6 DEF netVars
  <2> QED BY <2>2, <2>3, <2>4, <2>5, <2>6 DEF StopStep, OtherStep
<1> QED BY <1>2, <1>3, <1>4 DEF KeptTypeOK

LEMMA AnsweredStep ==
  ASSUME GatewayInv, KeptTypeOK, Answered, StopStep \/ OtherStep
  PROVE  Answered'
<1> USE ExecCallers
<1>P. SettingUp \cup {"launch", "running", "returned"} \subseteq Places
  BY DEF Places
<1> SUFFICES ASSUME hurt' \cap {"cancelled", "stuck"} = {}, gateway'.state # "absent"
             PROVE  started' \/ \E c \in Callers : at'[c] \in Owning
  BY DEF Answered
<1>1. ASSUME NEW c \in Callers, NEW where \in Places, Goto(c, where),
             UNCHANGED <<gateway, started>>, hurt \subseteq hurt',
             where \in Owning \/ at[c] \notin Owning
      PROVE  started' \/ \E d \in Callers : at'[d] \in Owning
  <2>1. at'[c] = where /\ \A d \in Callers : d # c => at'[d] = at[d]
    BY <1>1, GoesTo
  <2>2. started \/ \E d \in Callers : at[d] \in Owning
    BY <1>1 DEF Answered
  <2> QED BY <1>1, <2>1, <2>2
<1>2. ASSUME NEW c \in Callers, NEW where \in Owning, Goto(c, where)
      PROVE  \E d \in Callers : at'[d] \in Owning
  <2>1. at'[c] = where
    BY <1>2, <1>P, GoesTo DEF Owning, SettingUp
  <2> QED BY <2>1
<1>3. ASSUME NEW e \in Execs, Execute(e) \/ InspectNet(e) \/ CreateNet(e) \/ RunScript(e) \/ ScriptEnds(e)
      PROVE  started' \/ \E d \in Callers : at'[d] \in Owning
  <2>1. /\ at[e] \notin Owning /\ UNCHANGED <<gateway, started, hurt>>
        /\ \E where \in {"inspect net", "create net", "run gateway", "launch", "running", "returned"} :
             Goto(e, where)
    BY <1>3, Modes DEF Execute, InspectNet, CreateNet, RunScript, ScriptEnds, Return, Launch,
                FailClosed, OnInternal, Owning, GatewayInv
  <2> QED BY <2>1, <1>1, <1>P DEF SettingUp
<1>4. ASSUME NEW e \in Execs, RunGateway(e) PROVE started' \/ \E d \in Callers : at'[d] \in Owning
  <2>1. CASE Goto(e, "connect gateway")
    BY <2>1, <1>2 DEF Owning
  <2>2. CASE FailClosed(e) /\ UNCHANGED gateway
    <3>1. at[e] \notin Owning /\ Goto(e, "launch") /\ UNCHANGED <<gateway, started, hurt>>
      BY <1>4, <2>2 DEF RunGateway, FailClosed, Launch, Owning
    <3> QED BY <3>1, <1>1, <1>P
  <2> QED BY <1>4, <2>1, <2>2 DEF RunGateway
<1>5. ASSUME NEW e \in Execs, \/ SpawnRaises(e) \/ ConnectGateway(e) \/ InspectGateway(e) \/ GatewayNotReady(e)
      PROVE  started' \/ \E d \in Callers : at'[d] \in Owning
  <2>1. \E where \in Owning : Goto(e, where)
    BY <1>5 DEF SpawnRaises, ConnectGateway, InspectGateway, GatewayNotReady, Owning
  <2> QED BY <2>1, <1>2
<1>6. ASSUME NEW e \in Execs, GatewayReady(e) PROVE started'
  BY <1>6 DEF GatewayReady
<1>7. ASSUME NEW e \in Execs, StrayEnds(e) PROVE started' \/ \E d \in Callers : at'[d] \in Owning
  BY <1>7 DEF StrayEnds, Answered
<1>8. \A e \in Execs : ~Cancelled(e)
  BY DEF Cancelled
<1>9. ASSUME NEW c \in Callers, StopGateway(c) \/ CleanupCalled
      PROVE  started' \/ \E d \in Callers : at'[d] \in Owning
  <2>1. \E d \in Callers : \E where \in Owning : Goto(d, where)
    BY <1>9 DEF StopGateway, CleanupCalled, Owning, Callers
  <2> QED BY <2>1, <1>2
<1>10. \A c \in Callers : ~RemoveGateway(c)
  BY Forms DEF RemoveGateway
<1>11. ASSUME GatewayListens \/ GatewayDies
       PROVE  started' \/ \E d \in Callers : at'[d] \in Owning
  BY <1>11 DEF GatewayListens, GatewayDies, Answered
<1> QED BY <1>3, <1>4, <1>5, <1>6, <1>7, <1>8, <1>9, <1>10, <1>11, ExecCallers
        DEF StopStep, OtherStep, ExecStep, Callers

\* A script with these settings does not rely on the gateway.
Rests(n) == n.network = "internal" /\ n.proxy => started

\* A call goes on and leaves the container to whom it belongs.
Onward(c, where) ==
  /\ Goto(c, where)
  /\ UNCHANGED <<gateway, started, hurt>>
  /\ where \in Owning <=> at[c] \in Owning
  /\ where \in {"inspect gateway", "await gateway"} =>
       at[c] \in {"inspect gateway", "await gateway"}
  /\ where # "connect gateway"
  /\ c = "cleanup" => at[c] # "idle"
  /\ \A e \in Execs \ {c} : conf'[e] = conf[e]
  /\ where \in {"launch", "running"} =>
       \/ Rests(conf'[c])
       \/ conf'[c] = conf[c] /\ at[c] \in {"launch", "running"}

LEMMA OnwardKept ==
  ASSUME GatewayInv, OneOwner, NEW c \in Callers, NEW where \in Places, Onward(c, where)
  PROVE  OneOwner'
<1>1. at'[c] = where /\ \A d \in Callers : d # c => at'[d] = at[d]
  BY GoesTo DEF Onward
<1>2. /\ gateway' = gateway /\ started' = started /\ hurt' = hurt
      /\ \A d \in Callers : at'[d] \in Owning <=> at[d] \in Owning
      /\ \A d \in Callers : at'[d] \in {"inspect gateway", "await gateway"} =>
           at[d] \in {"inspect gateway", "await gateway"}
      /\ \A d \in Callers : at'[d] = "connect gateway" => at[d] = "connect gateway"
  BY <1>1 DEF Onward
<1>3. at["cleanup"] = "idle" => at'["cleanup"] = "idle"
  BY <1>1 DEF Onward, Callers
<1>4. ASSUME Spared, NEW e \in Execs, at'[e] \in {"launch", "running"},
             conf'[e].network = "internal" /\ conf'[e].proxy
      PROVE  started
  <2>1. CASE conf'[e] = conf[e] /\ at[e] \in {"launch", "running"}
    BY <1>4, <2>1 DEF OneOwner, OwnedByOne, Served
  <2>2. CASE Rests(conf'[e])
    BY <1>4, <2>2 DEF Rests
  <2> QED BY <1>1, <1>4, <2>1, <2>2, ExecCallers DEF Onward
<1> QED BY <1>2, <1>3, <1>4 DEF OneOwner, OwnedByOne, Served, Spared

\* A script that does not start now relied on the gateway before.
LEMMA ServedStays ==
  ASSUME OneOwner, Spared, NEW c \in Callers, started' = started \/ started' = TRUE,
         \A d \in Callers : d # c => at'[d] = at[d],
         at'[c] \notin {"launch", "running"} \/ started' = TRUE,
         conf' = conf \/ started' = TRUE
  PROVE  \A e \in Execs : at'[e] \in {"launch", "running"}
                          /\ conf'[e].network = "internal" /\ conf'[e].proxy => started'
<1> SUFFICES ASSUME NEW e \in Execs, at'[e] \in {"launch", "running"},
                    conf'[e].network = "internal", conf'[e].proxy
             PROVE  started'
  OBVIOUS
<1>1. CASE started' = TRUE
  BY <1>1
<1>2. CASE started' # TRUE
  <2>1. at'[e] = at[e] /\ conf'[e] = conf[e] /\ started' = started
    BY <1>2, ExecCallers
  <2>2. started
    BY <2>1 DEF OneOwner, OwnedByOne, Served
  <2> QED BY <2>1, <2>2
<1> QED BY <1>1, <1>2

\* One call takes the container over, or keeps it.
LEMMA OwnsNow ==
  ASSUME NEW e \in Callers, e # "cleanup", at["cleanup"] = "idle",
         \A d \in Callers : d # e => at'[d] = at[d] /\ at[d] \notin Owning,
         at'[e] \in Owning => ~started' /\ gateway'.state # "absent",
         at'[e] \in {"connect gateway", "inspect gateway", "await gateway"} =>
           gateway'.state = "running",
         at'[e] \in {"inspect gateway", "await gateway"} => gateway'.attached
  PROVE  OwnedByOne'
<1>1. \A d \in Callers : at'[d] \in Owning => d = e
  OBVIOUS
<1>2. \A d \in Callers :
        /\ at'[d] \in {"connect gateway", "inspect gateway", "await gateway"} => at'[d] \in Owning
        /\ at'[d] \in {"inspect gateway", "await gateway"} => at'[d] \in Owning
  BY DEF Owning
<1>3. at'["cleanup"] = "idle"
  BY DEF Callers
<1> QED BY <1>1, <1>2, <1>3 DEF OwnedByOne

LEMMA OneOwnerStep ==
  ASSUME GatewayInv, KeptTypeOK, OneOwner, StopStep \/ OtherStep
  PROVE  OneOwner'
<1> USE ExecCallers
<1> USE DEF Spared
<1> SUFFICES ASSUME Spared' PROVE OneOwner'
  BY DEF OneOwner, OwnedByOne, Served
<1>P. SettingUp \cup {"launch", "running", "returned"} \subseteq Places
  BY DEF Places
<1>N. Rests(NoNetwork) /\ Rests(Internal) /\ Rests(Bridge) /\ Rests(Proxied(Bridge))
      /\ (started => Rests(Proxied(Internal)))
  BY DEF Rests, NoNetwork, Internal, Bridge, Proxied
<1>C. ASSUME NEW e \in Execs, NEW n, Launch(e, n)
      PROVE  Goto(e, "launch") /\ conf'[e] = n /\ \A d \in Execs \ {e} : conf'[d] = conf[d]
  BY <1>C DEF Launch, GatewayInv
<1>O. ASSUME NEW e \in Execs, NEW n, Launch(e, n), Rests(n), at[e] \notin Owning,
             UNCHANGED <<gateway, started, hurt>>
      PROVE  OneOwner'
  <2>1. /\ Goto(e, "launch") /\ "launch" \in Places
        /\ \A d \in Execs \ {e} : conf'[d] = conf[d]
        /\ conf'[e] = n
    BY <1>C, <1>O, <1>P
  <2>2. Rests(conf'[e])
    BY <1>O, <2>1
  <2>3. Onward(e, "launch")
    BY <1>O, <2>1, <2>2 DEF Onward, Owning
  <2> QED BY <2>1, <2>3, OnwardKept
<1>F. ASSUME NEW e \in Execs, FailClosed(e), at[e] \notin Owning,
             UNCHANGED <<gateway, started, hurt>>
      PROVE  OneOwner'
  BY <1>F, <1>N, <1>O DEF FailClosed
<1>I. ASSUME NEW e \in Execs, OnInternal(e), at[e] \notin Owning,
             UNCHANGED <<gateway, started, hurt>>
      PROVE  OneOwner'
  <2>1. CASE Goto(e, "run gateway") /\ UNCHANGED conf
    BY <1>I, <2>1, <1>P, OnwardKept DEF Onward, Owning, SettingUp
  <2> QED BY <1>I, <1>N, <1>O, <2>1 DEF OnInternal
<1>K. /\ "cleanup" \in Callers
      /\ Spared => at["cleanup"] = "idle"
      /\ \A e \in Execs : e # "cleanup"
  BY DEF Callers, OneOwner, OwnedByOne
<1>1. ASSUME NEW e \in Execs, Execute(e) PROVE OneOwner'
  <2>1. at[e] = "idle" /\ UNCHANGED <<gateway, started, hurt>>
    BY <1>1 DEF Execute
  <2>2. at[e] \notin Owning
    BY <2>1 DEF Owning
  <2>3. CASE Goto(e, "inspect net") /\ UNCHANGED conf
    BY <2>1, <2>2, <2>3, <1>P, OnwardKept DEF Onward, Owning, SettingUp
  <2>4. \/ Goto(e, "inspect net") /\ UNCHANGED conf
        \/ OnInternal(e)
        \/ \E n \in {NoNetwork, Bridge, Proxied(Bridge)} : Launch(e, n)
    BY <1>1, Modes DEF Execute, GatewayInv
  <2> QED BY <1>I, <1>N, <1>O, <2>1, <2>2, <2>3, <2>4
<1>2. ASSUME NEW e \in Execs, InspectNet(e) \/ CreateNet(e) PROVE OneOwner'
  <2>1. /\ at[e] \in {"inspect net", "create net"} /\ UNCHANGED <<gateway, started, hurt>>
        /\ OnInternal(e) \/ FailClosed(e) \/ (Goto(e, "create net") /\ UNCHANGED conf)
    BY <1>2 DEF InspectNet, CreateNet
  <2>2. CASE Goto(e, "create net") /\ UNCHANGED conf
    BY <2>1, <2>2, <1>P, OnwardKept DEF Onward, Owning, SettingUp
  <2> QED BY <1>I, <1>F, <2>1, <2>2 DEF Owning
<1>3. ASSUME NEW e \in Execs, RunGateway(e) PROVE OneOwner'
  <2>1. CASE FailClosed(e) /\ UNCHANGED gateway
    BY <1>3, <1>F, <2>1 DEF RunGateway, Owning
  <2>2. CASE gateway = Absent /\ gateway' = Fresh /\ Goto(e, "connect gateway") /\ UNCHANGED conf
    <3>1. /\ Spared /\ started' = started /\ at[e] = "run gateway"
          /\ at'[e] = "connect gateway" /\ \A d \in Callers : d # e => at'[d] = at[d]
      BY <1>3, <2>2, <1>P, GoesTo DEF RunGateway, SettingUp
    <3>2. gateway.state = "absent" /\ gateway'.state = "running"
      BY <2>2, Forms
    <3>3. ~started /\ \A d \in Callers : at[d] \notin Owning
      BY <3>1, <3>2 DEF OneOwner, OwnedByOne, Served
    <3>9. \A d \in Execs : at'[d] \in {"launch", "running"}
                          /\ conf'[d].network = "internal" /\ conf'[d].proxy => started'
      BY <2>2, <3>1, ServedStays
    <3>10. OwnedByOne'
      <4>1. ~started'
        BY <3>1, <3>3
      <4>2. /\ e # "cleanup" /\ at["cleanup"] = "idle" /\ at'[e] = "connect gateway"
            /\ \A d \in Callers : d # e => at'[d] = at[d] /\ at[d] \notin Owning
        BY <3>1, <3>3, <1>K
      <4> QED BY <3>2, <4>1, <4>2, OwnsNow
    <3>11. Served'
      BY <2>2, <3>1, <3>2, <3>3, <3>9, <1>K DEF OneOwner, Served, OwnedByOne, Owning
    <3> QED BY <3>10, <3>11 DEF OneOwner
  <2> QED BY <1>3, <2>1, <2>2 DEF RunGateway
<1>4. ASSUME NEW e \in Execs, SpawnRaises(e) PROVE OneOwner'
  <2>1. /\ at[e] \in {"connect gateway", "inspect gateway"} /\ Goto(e, "stop gateway")
        /\ UNCHANGED <<gateway, started, hurt, conf>>
    BY <1>4 DEF SpawnRaises, callVars
  <2> QED BY <2>1, <1>P, OnwardKept DEF Onward, Owning, SettingUp
<1>5. ASSUME NEW e \in Execs, ConnectGateway(e) PROVE OneOwner'
  <2>1. at[e] = "connect gateway" /\ UNCHANGED <<started, hurt, conf>>
    BY <1>5 DEF ConnectGateway, callVars
  <2>2. CASE Goto(e, "stop gateway") /\ UNCHANGED gateway
    BY <2>1, <2>2, <1>P, OnwardKept DEF Onward, Owning, SettingUp
  <2>3. CASE gateway' = [gateway EXCEPT !.attached = TRUE] /\ Goto(e, "inspect gateway")
    <3>1. at'[e] = "inspect gateway" /\ \A d \in Callers : d # e => at'[d] = at[d]
      BY <2>3, <1>P, GoesTo DEF SettingUp
    <3>2. gateway'.state = gateway.state /\ gateway'.attached
      BY <2>3, Forms
    <3>3. /\ ~started /\ gateway.state = "running"
          /\ \A d \in Callers : at[d] \in Owning => d = e
      BY <2>1 DEF OneOwner, OwnedByOne, Served, Owning
    <3>9. \A d \in Execs : at'[d] \in {"launch", "running"}
                          /\ conf'[d].network = "internal" /\ conf'[d].proxy => started'
      BY <2>1, <3>1, ServedStays
    <3>10. OwnedByOne'
      <4>1. ~started' /\ gateway'.state = "running"
        BY <2>1, <3>2, <3>3
      <4>2. /\ e # "cleanup" /\ at["cleanup"] = "idle" /\ at'[e] = "inspect gateway"
            /\ \A d \in Callers : d # e => at'[d] = at[d] /\ at[d] \notin Owning
        BY <2>1, <3>1, <3>3, <1>K
      <4> QED BY <3>2, <4>1, <4>2, OwnsNow
    <3>11. Served'
      BY <2>1, <3>1, <3>2, <3>3, <3>9, <1>K DEF OneOwner, Served, OwnedByOne, Owning
    <3> QED BY <3>10, <3>11 DEF OneOwner
  <2> QED BY <1>5, <2>2, <2>3 DEF ConnectGateway
<1>6. ASSUME NEW e \in Execs, InspectGateway(e) \/ GatewayNotReady(e) PROVE OneOwner'
  <2>1. PICK where \in {"await gateway", "stop gateway"} :
          /\ Goto(e, where) /\ UNCHANGED <<gateway, started, hurt, conf>>
          /\ at[e] \in {"inspect gateway", "await gateway"}
    BY <1>6 DEF InspectGateway, GatewayNotReady, callVars
  <2> QED BY <2>1, <1>P, OnwardKept DEF Onward, Owning, SettingUp
<1>7. ASSUME NEW e \in Execs, GatewayReady(e) PROVE OneOwner'
  <2>1. /\ at[e] = "await gateway" /\ UNCHANGED <<gateway, hurt>> /\ gateway.listening
        /\ started' = TRUE
        /\ at'[e] = "launch" /\ \A d \in Callers : d # e => at'[d] = at[d]
    BY <1>7, <1>C, <1>P, GoesTo DEF GatewayReady
  <2>2. /\ gateway.state = "running" /\ gateway.attached
        /\ \A d \in Callers : at[d] \in Owning => d = e
    BY <2>1 DEF OneOwner, OwnedByOne, Served, Owning
  <2>3. \A d \in Callers : at'[d] \notin Owning
    BY <2>1, <2>2 DEF Owning
  <2>9. \A d \in Execs : at'[d] \in {"launch", "running"}
                        /\ conf'[d].network = "internal" /\ conf'[d].proxy => started'
    BY <2>1, ServedStays
  <2>10. OwnedByOne'
    <3>1. at["cleanup"] = "idle" /\ at'[e] = "launch" /\ e # "cleanup"
      BY <2>1, <1>K
    <3> QED BY <2>1, <2>2, <2>3, <3>1, OwnsNow
  <2>11. Served'
    BY <2>1, <2>2, <2>3, <2>9, <1>K DEF OneOwner, Served, OwnedByOne, Owning
  <2> QED BY <2>10, <2>11 DEF OneOwner
<1>8. ASSUME NEW e \in Execs, RunScript(e) PROVE OneOwner'
  <2>1. PICK where \in {"running", "returned"} :
          at[e] = "launch" /\ Goto(e, where) /\ UNCHANGED <<gateway, started, hurt, conf>>
    BY <1>8 DEF RunScript, Return
  <2> QED BY <2>1, <1>P, OnwardKept DEF Onward, Owning
<1>9. ASSUME NEW e \in Execs, ScriptEnds(e) PROVE OneOwner'
  <2>1. at[e] = "running" /\ Goto(e, "returned") /\ UNCHANGED <<gateway, started, hurt, conf>>
    BY <1>9 DEF ScriptEnds, Return
  <2> QED BY <2>1, <1>P, OnwardKept DEF Onward, Owning
<1>10. ASSUME NEW e \in Execs, StrayEnds(e) PROVE OneOwner'
  <2>1. UNCHANGED <<at, gateway, started, hurt, conf>>
    BY <1>10 DEF StrayEnds
  <2> QED BY <2>1 DEF OneOwner, OwnedByOne, Served
<1>11. ASSUME NEW c \in Callers, StopGateway(c) PROVE OneOwner'
  <2>1. /\ at[c] = "stop gateway" /\ UNCHANGED <<started, hurt, conf>>
        /\ at'[c] = "remove gateway" /\ \A d \in Callers : d # c => at'[d] = at[d]
    BY <1>11, <1>P, GoesTo DEF StopGateway, SettingUp, callVars
  <2>2. /\ ~started /\ gateway.state # "absent"
        /\ \A d \in Callers : at[d] \in Owning => d = c
    BY <2>1 DEF OneOwner, OwnedByOne, Served, Owning
  <2>3. gateway' = gateway \/ gateway' = [gateway EXCEPT !.state = "stopped"]
    BY <1>11, <2>2, Forms DEF StopGateway
  <2>4. gateway'.state # "absent"
    BY <2>2, <2>3, Forms
  <2>5. at["cleanup"] = "idle" /\ c # "cleanup"
    BY <2>1 DEF OneOwner, OwnedByOne, Served
  <2>9. \A d \in Execs : at'[d] \in {"launch", "running"}
                        /\ conf'[d].network = "internal" /\ conf'[d].proxy => started'
    BY <2>1, ServedStays
  <2>10. OwnedByOne'
    BY <2>1, <2>2, <2>4, <2>5, <1>K, OwnsNow DEF Owning
  <2>11. Served'
    BY <2>1, <2>2, <2>4, <2>5, <2>9, <1>K DEF OneOwner, Served, OwnedByOne, Owning
  <2> QED BY <2>10, <2>11 DEF OneOwner
<1>12. ASSUME NEW c \in Callers, RemoveGateway(c) PROVE OneOwner'
  <2>1. at[c] = "remove gateway" /\ Spared /\ started' = FALSE
    BY <1>12 DEF RemoveGateway
  <2>2. /\ ~started /\ c \in Execs /\ at["cleanup"] = "idle"
        /\ \A d \in Callers : at[d] \in Owning => d = c
    BY <2>1 DEF OneOwner, OwnedByOne, Served, Owning, Callers
  <2>3. Launch(c, NoNetwork)
    BY <1>12, <2>2 DEF RemoveGateway, FailClosed
  <2>4. /\ conf'[c] = NoNetwork /\ \A d \in Execs \ {c} : conf'[d] = conf[d]
        /\ at'[c] = "launch" /\ \A d \in Callers : d # c => at'[d] = at[d]
    BY <2>2, <2>3, <1>C, <1>P, GoesTo
  <2>5. \A d \in Callers : at'[d] \notin Owning
    BY <2>2, <2>4 DEF Owning
  <2>6. ASSUME NEW e \in Execs, at'[e] \in {"launch", "running"},
               conf'[e].network = "internal", conf'[e].proxy
        PROVE  FALSE
    <3>1. CASE e = c
      BY <2>4, <2>6, <3>1 DEF NoNetwork
    <3>2. CASE e # c
      <4>1. at'[e] = at[e] /\ conf'[e] = conf[e]
        BY <2>4, <3>2
      <4>2. started
        BY <2>1, <2>6, <4>1 DEF OneOwner, Served
      <4> QED BY <2>2, <4>2
    <3> QED BY <3>1, <3>2
  <2>7. at'["cleanup"] = "idle"
    BY <2>2, <2>4 DEF Callers
  <2>8. OwnedByOne'
    BY <2>5, <2>7 DEF OwnedByOne, Owning
  <2>9. Served'
    BY <2>1, <2>6 DEF Served
  <2> QED BY <2>8, <2>9 DEF OneOwner
<1>13. CASE GatewayListens
  <2>1. /\ UNCHANGED <<at, started, hurt, conf>>
        /\ gateway' = [gateway EXCEPT !.listening = TRUE]
    BY <1>13 DEF GatewayListens, callVars
  <2>2. /\ gateway'.state = gateway.state /\ gateway'.attached = gateway.attached
        /\ gateway'.listening
    BY <2>1, Forms
  <2> QED BY <2>1, <2>2 DEF OneOwner, OwnedByOne, Served
<1>14. ~CleanupCalled /\ ~GatewayDies /\ \A e \in Execs : ~Cancelled(e)
  BY DEF CleanupCalled, GatewayDies, Cancelled
<1> QED BY <1>1, <1>2, <1>3, <1>4, <1>5, <1>6, <1>7, <1>8, <1>9, <1>10, <1>11, <1>12, <1>13,
           <1>14 DEF StopStep, OtherStep, ExecStep

\* Whoever begins to set up is told of the others, and they of him.
LEMMA MeetingsKnown ==
  ASSUME GatewayInv, SharedKnown, NEW c \in Callers, NEW where \in Places, Goto(c, where),
         \/ shared \subseteq shared' /\ (where \in SettingUp => at[c] \in SettingUp)
         \/ shared' = shared \cup Met(c)
  PROVE  SharedKnown'
<1>1. at'[c] = where /\ \A d \in Callers : d # c => at'[d] = at[d]
  BY GoesTo
<1>2. CASE shared \subseteq shared' /\ (where \in SettingUp => at[c] \in SettingUp)
  BY <1>1, <1>2 DEF SharedKnown
<1>3. CASE shared' = shared \cup Met(c)
  <2>1. ASSUME NEW d \in Callers \ {c}, at[d] \in SettingUp
        PROVE  c \in Met(c) /\ d \in Met(c)
    BY <2>1 DEF Met
  <2> QED BY <1>1, <1>3, <2>1 DEF SharedKnown
<1> QED BY <1>2, <1>3

\* What one call does gives no other call a reason, unless the two have met.
LEMMA ReasonsKept ==
  ASSUME GatewayInv, KeptInv, NEW c \in Callers, NEW where \in Places, Goto(c, where),
         setting' = setting, faults' \in Nat, faults <= faults', cancels' \in Nat, cancels <= cancels',
         cancels' = 0 => ("cancelled" \in hurt' => "cancelled" \in hurt),
         faults' = 0 => ("stuck" \in hurt' => "stuck" \in hurt),
         shared \subseteq shared', stray' \ {c} \subseteq stray,
         \A d \in Execs \ {c} : conf'[d] = conf[d],
         at[c] \in SettingUp \/ UNCHANGED <<gateway, netExists>>,
         c \in Execs => Reason(c)'
  PROVE  Reasons'
<1>1. at'[c] = where /\ \A d \in Callers : d # c => at'[d] = at[d]
  BY GoesTo
<1>2. EffectiveMode' = EffectiveMode
  BY DEF EffectiveMode, UseAllowlist
<1>3. ASSUME NEW e \in Execs, e # c PROVE Reason(e)'
  <2>1. Reason(e) /\ at'[e] = at[e]
    BY <1>1, <1>3, ExecCallers DEF KeptInv, Reasons
  <2>2. Excused(e) => Excused(e)'
    BY DEF Excused, KeptInv, KeptTypeOK
  <2>3. CASE UNCHANGED <<gateway, netExists>>
    BY <1>2, <1>3, <2>1, <2>2, <2>3 DEF Reason, FindsItsOwn
  <2>4. CASE at[c] \in SettingUp
    <3>1. at[e] \in SettingUp => e \in shared'
      BY <1>3, <2>4, ExecCallers DEF KeptInv, SharedKnown
    <3>2. at[e] \notin SettingUp => Reason(e)'
      BY <1>2, <1>3, <2>1, <2>2 DEF Reason, FindsItsOwn, SettingUp
    <3> QED BY <3>1, <3>2 DEF Reason, Excused
  <2> QED BY <2>3, <2>4
<1>4. cancels' = 0 => "cancelled" \notin hurt'
  BY DEF KeptInv, Reasons, KeptTypeOK
<1>5. faults' = 0 => "stuck" \notin hurt'
  BY DEF KeptInv, Reasons, KeptTypeOK
<1> QED BY <1>3, <1>4, <1>5 DEF Reasons

\* What every step of a call of execute() leaves to the others.
LEMMA OwnStepsOnly ==
  ASSUME GatewayInv, KeptTypeOK, NEW e \in Execs, ExecStep(e)
  PROVE  /\ setting' = setting
         /\ faults' \in {faults, faults + 1} /\ cancels' \in {cancels, cancels + 1}
         /\ cancels' = cancels => ("cancelled" \in hurt' => "cancelled" \in hurt)
         /\ "stuck" \in hurt' => "stuck" \in hurt
         /\ shared \subseteq shared' /\ stray' \ {e} \subseteq stray
         /\ \A d \in Execs \ {e} : conf'[d] = conf[d]
         /\ at[e] \in SettingUp \/ UNCHANGED <<gateway, netExists>>
         /\ StrayEnds(e) \/ \E where \in Places : Goto(e, where)
<1>1. faults + 1 # faults /\ cancels + 1 # cancels
  BY DEF KeptTypeOK
<1>2. ASSUME NEW n, Launch(e, n) PROVE \A d \in Execs \ {e} : conf'[d] = conf[d]
  BY <1>2 DEF Launch, GatewayInv
<1>3. SettingUp \cup {"launch", "running", "returned"} \subseteq Places
  BY DEF Places
<1>4. /\ setting' = setting
      /\ faults' \in {faults, faults + 1} /\ cancels' \in {cancels, cancels + 1}
  BY DEF ExecStep, Execute, InspectNet, CreateNet, RunGateway,
       SpawnRaises, ConnectGateway, InspectGateway, GatewayReady, GatewayNotReady,
       RunScript, ScriptEnds, StrayEnds, Cancelled, boundVars, Fault
<1>5. /\ cancels' = cancels => ("cancelled" \in hurt' => "cancelled" \in hurt)
      /\ "stuck" \in hurt' => "stuck" \in hurt
  <2>1. CASE Cancelled(e)
    BY <1>1, <2>1 DEF Cancelled
  <2>2. CASE SpawnRaises(e)
    BY <2>2 DEF SpawnRaises
  <2>3. CASE ~Cancelled(e) /\ ~SpawnRaises(e)
    <3>1. hurt' = hurt
      BY <2>3 DEF ExecStep, Execute, InspectNet, CreateNet, RunGateway,
         ConnectGateway, InspectGateway, GatewayReady, GatewayNotReady,
         RunScript, ScriptEnds, StrayEnds
    <3> QED BY <3>1
  <2> QED BY <2>1, <2>2, <2>3
<1>6. shared \subseteq shared' /\ stray' \ {e} \subseteq stray
  BY DEF ExecStep, Execute, InspectNet, CreateNet, RunGateway,
       SpawnRaises, ConnectGateway, InspectGateway, GatewayReady, GatewayNotReady,
       RunScript, ScriptEnds, StrayEnds, Cancelled, callVars
<1>7. at[e] \in SettingUp \/ UNCHANGED <<gateway, netExists>>
  BY DEF ExecStep, Execute, InspectNet, CreateNet, RunGateway,
       SpawnRaises, ConnectGateway, InspectGateway, GatewayReady, GatewayNotReady,
       RunScript, ScriptEnds, StrayEnds, Cancelled, netVars, SettingUp
<1>8. UNCHANGED conf \/ \E n : Launch(e, n)
  BY Modes DEF ExecStep, Execute, InspectNet, CreateNet, RunGateway, FailClosed, OnInternal,
       SpawnRaises, ConnectGateway, InspectGateway, GatewayReady, GatewayNotReady,
       RunScript, ScriptEnds, StrayEnds, Cancelled, callVars, GatewayInv
<1>9. \/ StrayEnds(e)
      \/ \E where \in SettingUp \cup {"launch", "running", "returned"} : Goto(e, where)
  BY Modes DEF ExecStep, Execute, InspectNet, CreateNet, RunGateway, FailClosed, OnInternal,
       SpawnRaises, ConnectGateway, InspectGateway, GatewayReady, GatewayNotReady,
       RunScript, ScriptEnds, Cancelled, Launch, Return, GatewayInv, SettingUp
<1> QED BY <1>2, <1>3, <1>4, <1>5, <1>6, <1>7, <1>8, <1>9

LEMMA SharedStep ==
  ASSUME GatewayInv, KeptTypeOK, SharedKnown, StopStep \/ OtherStep
  PROVE  SharedKnown'
<1> USE ExecCallers
<1>P. SettingUp \cup {"idle", "launch", "running", "returned"} \subseteq Places
  BY DEF Places
<1>1. ASSUME NEW e \in Execs, Execute(e) PROVE SharedKnown'
  <2>1. shared' = shared \cup Met(e)
    BY <1>1 DEF Execute
  <2>2. \E where \in {"inspect net", "run gateway", "launch"} : Goto(e, where)
    BY <1>1, Modes DEF Execute, Launch, FailClosed, OnInternal, GatewayInv
  <2> QED BY <2>1, <2>2, <1>P, MeetingsKnown DEF SettingUp
<1>2. ASSUME NEW e \in Execs, ExecStep(e), ~Execute(e), ~StrayEnds(e) PROVE SharedKnown'
  <2>1. PICK where \in Places : Goto(e, where) /\ (where \in SettingUp => at[e] \in SettingUp)
    <3>1. PICK where \in Places : Goto(e, where)
      BY <1>2, OwnStepsOnly
    <3>2. at'[e] = where
      BY <3>1, GoesTo
    <3>3. at[e] \notin SettingUp => RunScript(e) \/ ScriptEnds(e) \/ Cancelled(e)
      BY <1>2 DEF ExecStep, InspectNet, CreateNet, RunGateway, SpawnRaises, ConnectGateway,
                  InspectGateway, GatewayReady, GatewayNotReady, SettingUp
    <3>4. RunScript(e) \/ ScriptEnds(e) \/ Cancelled(e) =>
            Goto(e, "running") \/ Goto(e, "returned")
      BY DEF RunScript, ScriptEnds, Cancelled, Return
    <3>5. RunScript(e) \/ ScriptEnds(e) \/ Cancelled(e) => at'[e] \notin SettingUp
      BY <3>4, <1>P, GoesTo DEF SettingUp
    <3> QED BY <3>1, <3>2, <3>3, <3>5
  <2>2. shared \subseteq shared'
    BY <1>2, OwnStepsOnly
  <2> QED BY <2>1, <2>2, MeetingsKnown
<1>3. ASSUME NEW e \in Execs, StrayEnds(e) PROVE SharedKnown'
  BY <1>3 DEF StrayEnds, SharedKnown
<1>4. ASSUME NEW c \in Callers, StopGateway(c) \/ RemoveGateway(c) PROVE SharedKnown'
  <2>1. /\ shared' = shared /\ at[c] \in SettingUp
        /\ \E where \in {"remove gateway", "launch", "idle"} : Goto(c, where)
    BY <1>4 DEF StopGateway, RemoveGateway, FailClosed, Launch, SettingUp
  <2> QED BY <2>1, <1>P, MeetingsKnown DEF SettingUp
<1>5. CASE CleanupCalled
  <2>1. shared' = shared \cup Met("cleanup") /\ Goto("cleanup", "stop gateway")
        /\ "cleanup" \in Callers
    BY <1>5 DEF CleanupCalled, Callers
  <2> QED BY <2>1, <1>P, MeetingsKnown DEF SettingUp
<1>6. CASE GatewayListens \/ GatewayDies
  BY <1>6 DEF GatewayListens, GatewayDies, SharedKnown
<1> QED BY <1>1, <1>2, <1>3, <1>4, <1>5, <1>6 DEF StopStep, OtherStep, ExecStep

\* A call that is alone, and whose commands succeed, finds what it left.
LEMMA OwnFindings ==
  ASSUME GatewayInv, KeptInv, NEW e \in Execs, ExecStep(e), FindsItsOwn(e),
         EffectiveMode = "enforced", e \notin shared', faults = 0, cancels = 0, cancels' = 0,
         ~Fault
  PROVE  FindsItsOwn(e)'
<1> USE ExecCallers
<1>P. SettingUp \cup {"idle", "launch", "running", "returned"} \subseteq Places
  BY DEF Places
<1>N. /\ NoNetwork.network = "none" /\ Internal.network = "internal"
      /\ Proxied(Internal).network = "internal"
  BY DEF NoNetwork, Internal, Proxied
<1>T. KeptTypeOK /\ (gateway = Absent <=> gateway.state = "absent")
  BY DEF KeptInv, KeptTypeOK
<1>S. at[e] \notin {"running", "returned"} => e \notin stray
  BY DEF GatewayInv
<1>H. hurt \cap {"cancelled", "stuck"} = {}
  BY DEF KeptInv, Reasons
<1>L. ASSUME NEW n, Launch(e, n), n.network = "internal", stray' = stray
      PROVE  FindsItsOwn(e)'
  <2>1. at'[e] = "launch" /\ conf'[e] = n
    BY <1>L, <1>P, GoesTo DEF Launch, GatewayInv
  <2> QED BY <1>L, <2>1 DEF FindsItsOwn
<1>G. ASSUME NEW where \in SettingUp, Goto(e, where), stray' = stray, e \notin stray,
             where = "create net" => ~netExists',
             where = "run gateway" => gateway'.state = "absent",
             where \in {"connect gateway", "inspect gateway", "await gateway"} =>
               gateway'.state = "running",
             where \in {"inspect gateway", "await gateway"} => gateway'.attached,
             where \notin {"stop gateway", "remove gateway"}
      PROVE  FindsItsOwn(e)'
  <2>1. at'[e] = where
    BY <1>G, <1>P, GoesTo
  <2> QED BY <1>G, <2>1 DEF FindsItsOwn, SettingUp
<1>I. ASSUME OnInternal(e), stray' = stray, e \notin stray, gateway' = gateway,
             \A d \in Callers : d # e /\ at[d] \in SettingUp => e \in shared',
             at[e] \notin Owning
      PROVE  FindsItsOwn(e)'
  <2>1. CASE ~UseAllowlist
    BY <1>I, <1>L, <1>N, <2>1 DEF OnInternal
  <2>2. CASE UseAllowlist /\ started
    BY <1>I, <1>L, <1>N, <2>2 DEF OnInternal
  <2>3. CASE UseAllowlist /\ ~started
    <3>1. \A d \in Callers : at[d] \notin Owning
      BY <1>I DEF Owning, SettingUp
    <3>2. gateway.state = "absent"
      BY <1>H, <2>3, <3>1 DEF KeptInv, Answered
    <3> QED BY <1>I, <1>G, <2>3, <3>2 DEF OnInternal, SettingUp
  <2> QED BY <2>1, <2>2, <2>3
<1>1. CASE Execute(e)
  <2>1. at[e] = "idle" /\ shared' = shared \cup Met(e) /\ stray' = stray /\ gateway' = gateway
    BY <1>1 DEF Execute, callVars
  <2>2. \A d \in Callers : d # e /\ at[d] \in SettingUp => e \in shared'
    BY <2>1 DEF Met
  <2>3. CASE OnInternal(e)
    BY <1>I, <1>S, <2>1, <2>2, <2>3 DEF Owning
  <2>4. CASE Goto(e, "inspect net")
    BY <1>G, <1>S, <2>1, <2>4 DEF SettingUp
  <2> QED BY <1>1, <2>3, <2>4 DEF Execute
<1>2. CASE InspectNet(e) \/ CreateNet(e)
  <2>1. at[e] \in {"inspect net", "create net"} /\ UNCHANGED <<shared, stray, gateway>>
    BY <1>2 DEF InspectNet, CreateNet
  <2>2. \A d \in Callers : d # e /\ at[d] \in SettingUp => e \in shared'
    BY <2>1 DEF KeptInv, SharedKnown, SettingUp
  <2>3. CASE OnInternal(e)
    BY <1>I, <1>S, <2>1, <2>2, <2>3 DEF Owning
  <2>4. CASE InspectNet(e) /\ ~OnInternal(e)
    <3>1. ~netExists /\ Goto(e, "create net") /\ netExists' = netExists
      BY <2>4 DEF InspectNet
    <3>2. ~netExists'
      BY <3>1
    <3> QED BY <1>G, <1>S, <2>1, <3>1, <3>2 DEF SettingUp
  <2>5. CreateNet(e) => OnInternal(e)
    BY DEF CreateNet, FindsItsOwn
  <2> QED BY <1>2, <2>3, <2>4, <2>5
<1>3. CASE RunGateway(e)
  <2>1. at[e] = "run gateway" /\ stray' = stray /\ gateway' = Fresh /\ Goto(e, "connect gateway")
    BY <1>3, <1>T DEF RunGateway, FindsItsOwn
  <2>2. gateway'.state = "running"
    BY <1>T, <2>1, Forms
  <2> QED BY <1>G, <1>S, <2>1, <2>2 DEF SettingUp
<1>4. CASE ConnectGateway(e)
  <2>1. /\ at[e] = "connect gateway" /\ stray' = stray /\ Goto(e, "inspect gateway")
        /\ gateway' = [gateway EXCEPT !.attached = TRUE]
    BY <1>4, <1>T DEF ConnectGateway, FindsItsOwn, callVars
  <2>2. gateway'.state = "running" /\ gateway'.attached
    BY <1>T, <2>1, Forms DEF FindsItsOwn
  <2> QED BY <1>G, <1>S, <2>1, <2>2 DEF SettingUp
<1>5. CASE InspectGateway(e)
  <2>1. at[e] = "inspect gateway" /\ stray' = stray /\ gateway' = gateway
    BY <1>5 DEF InspectGateway, callVars
  <2>2. gateway.state = "running" /\ gateway.attached
    BY <2>1 DEF FindsItsOwn
  <2>3. gateway'.state = "running" /\ gateway'.attached /\ Goto(e, "await gateway")
    BY <1>5, <2>1, <2>2 DEF InspectGateway
  <2> QED BY <1>G, <1>S, <2>1, <2>3 DEF SettingUp
<1>6. CASE GatewayReady(e)
  BY <1>6, <1>L, <1>N DEF GatewayReady
<1>7. CASE RunScript(e)
  <2>1. /\ at[e] = "launch" /\ Goto(e, "running") /\ UNCHANGED <<conf, stray>>
    BY <1>7 DEF RunScript
  <2>2. at'[e] = "running"
    BY <2>1, <1>P, GoesTo
  <2> QED BY <2>1, <2>2 DEF FindsItsOwn
<1>8. CASE ScriptEnds(e)
  <2>1. /\ at[e] = "running" /\ Goto(e, "returned") /\ conf' = conf /\ stray' \subseteq stray \cup {e}
    BY <1>8 DEF ScriptEnds, Return
  <2>2. at'[e] = "returned"
    BY <2>1, <1>P, GoesTo
  <2> QED BY <2>1, <2>2 DEF FindsItsOwn
<1>9. CASE StrayEnds(e)
  <2>1. UNCHANGED <<at, conf, gateway, netExists>> /\ stray' \subseteq stray
    BY <1>9 DEF StrayEnds, netVars
  <2> QED BY <2>1 DEF FindsItsOwn
<1>10. ~SpawnRaises(e) /\ ~GatewayNotReady(e) /\ ~Cancelled(e)
  <2>1. ~SpawnRaises(e)
    BY DEF SpawnRaises
  <2>2. ~GatewayNotReady(e)
    BY DEF GatewayNotReady, FindsItsOwn
  <2>3. ~Cancelled(e)
    BY DEF Cancelled
  <2> QED BY <2>1, <2>2, <2>3
<1> QED BY <1>1, <1>2, <1>3, <1>4, <1>5, <1>6, <1>7, <1>8, <1>9, <1>10 DEF ExecStep

\* A script gets no network only for a reason.
LEMMA ReasonsStep ==
  ASSUME GatewayInv, KeptInv, StopStep \/ OtherStep
  PROVE  Reasons'
<1> USE ExecCallers
<1>P. SettingUp \cup {"idle", "launch", "running", "returned"} \subseteq Places
  BY DEF Places
<1>T. KeptTypeOK /\ faults \in Nat /\ cancels \in Nat
  BY DEF KeptInv, KeptTypeOK
<1>1. ASSUME NEW e \in Execs, ExecStep(e), ~StrayEnds(e) PROVE Reasons'
  <2>1. /\ setting' = setting /\ faults' \in Nat /\ faults <= faults'
        /\ cancels' \in Nat /\ cancels <= cancels'
        /\ cancels' = 0 => cancels' = cancels
        /\ shared \subseteq shared'
    BY <1>1, <1>T, OwnStepsOnly
  <2>2. Reason(e)'
    <3> SUFFICES ASSUME EffectiveMode = "enforced", faults' = 0, cancels' = 0, e \notin shared'
                 PROVE  FindsItsOwn(e)'
      BY <2>1 DEF Reason, Excused, EffectiveMode, UseAllowlist
    <3>1. /\ faults = 0 /\ cancels = 0 /\ e \notin shared
      BY <1>T, <2>1
    <3>2. FindsItsOwn(e)
      BY <3>1 DEF KeptInv, Reasons, Reason, Excused
    <3>3. ~Fault
      BY <3>1 DEF Fault
    <3> QED BY <1>1, <3>1, <3>2, <3>3, OwnFindings
  <2>3. /\ cancels' = 0 => ("cancelled" \in hurt' => "cancelled" \in hurt)
        /\ "stuck" \in hurt' => "stuck" \in hurt
    BY <1>1, <1>T, <2>1, OwnStepsOnly
  <2> QED BY <1>1, <1>T, <2>1, <2>2, <2>3, OwnStepsOnly, ReasonsKept
<1>2. ASSUME NEW c \in Callers, NEW where \in Places, c \notin Execs, Goto(c, where),
             UNCHANGED <<setting, faults, cancels, stray, conf>>, shared \subseteq shared',
             "cancelled" \in hurt' => "cancelled" \in hurt,
             "stuck" \in hurt' => "stuck" \in hurt,
             at[c] \in SettingUp \/ UNCHANGED <<gateway, netExists>>
      PROVE  Reasons'
  BY <1>2, <1>T, ReasonsKept
<1>3. ASSUME NEW c \in Callers, StopGateway(c) \/ RemoveGateway(c), UNCHANGED <<faults, hurt>>
      PROVE  Reasons'
  <2>1. /\ at[c] \in {"stop gateway", "remove gateway"}
        /\ UNCHANGED <<setting, faults, cancels, stray, shared, hurt>>
        /\ \E where \in {"remove gateway", "launch", "idle"} : Goto(c, where)
    BY <1>3 DEF StopGateway, RemoveGateway, FailClosed, Launch, callVars, boundVars
  <2>2. CASE c \notin Execs
    <3>1. conf' = conf
      BY <1>3, <2>2 DEF StopGateway, RemoveGateway, callVars
    <3> QED BY <1>2, <1>P, <2>1, <2>2, <3>1 DEF SettingUp
  <2>3. CASE c \in Execs
    <3>1. Reason(c)'
      <4>1. Reason(c) /\ ~FindsItsOwn(c)
        BY <2>1, <2>3 DEF KeptInv, Reasons, FindsItsOwn
      <4> QED BY <2>1, <4>1 DEF Reason, Excused, EffectiveMode, UseAllowlist
    <3>2. \A d \in Execs \ {c} : conf'[d] = conf[d]
      BY <1>3, <2>3 DEF StopGateway, RemoveGateway, FailClosed, Launch, callVars, GatewayInv
    <3>3. PICK where \in Places : Goto(c, where)
      BY <1>P, <2>1 DEF SettingUp
    <3>4. at[c] \in SettingUp /\ stray' \ {c} \subseteq stray
      BY <2>1 DEF SettingUp
    <3>5. /\ setting' = setting /\ shared \subseteq shared'
          /\ faults' \in Nat /\ faults <= faults' /\ cancels' \in Nat /\ cancels <= cancels'
          /\ cancels' = 0 => ("cancelled" \in hurt' => "cancelled" \in hurt)
          /\ faults' = 0 => ("stuck" \in hurt' => "stuck" \in hurt)
      <4>1. /\ setting' = setting /\ shared' = shared /\ faults' = faults
            /\ cancels' = cancels /\ hurt' = hurt
        BY <2>1
      <4> QED BY <1>T, <4>1
    <3>6. c \in Execs => Reason(c)'
      BY <3>1
    <3> QED BY <3>2, <3>3, <3>4, <3>5, <3>6, ReasonsKept
  <2> QED BY <2>2, <2>3
<1>4. CASE CleanupCalled
  <2>1. /\ "cleanup" \in Callers /\ "cleanup" \notin Execs /\ Goto("cleanup", "stop gateway")
        /\ UNCHANGED <<setting, faults, cancels, stray, conf, gateway, netExists>>
        /\ shared \subseteq shared'
        /\ hurt' = hurt \cup {"cleanup"}
    BY <1>4, GatewayAssumption DEF CleanupCalled, Callers, callVars, netVars
  <2> QED BY <1>2, <1>P, <2>1 DEF SettingUp
<1>5. CASE GatewayDies \/ \E c \in Callers : /\ StopGateway(c) \/ RemoveGateway(c)
                                            /\ ~UNCHANGED <<faults, hurt>>
  <2>1. faults' > 0 /\ cancels' = cancels /\ ("cancelled" \in hurt' => "cancelled" \in hurt)
    <3>1. /\ faults' = faults + 1 /\ cancels' = cancels
          /\ hurt' \in {hurt, hurt \cup {"died"}, hurt \cup {"stuck"}}
      BY <1>5 DEF GatewayDies, StopGateway, RemoveGateway, Fault
    <3> QED BY <1>T, <3>1
  <2> QED BY <2>1 DEF KeptInv, Reasons, Reason, Excused
<1>6. ASSUME GatewayListens \/ \E e \in Execs : StrayEnds(e) PROVE Reasons'
  <2>1. /\ UNCHANGED <<setting, at, conf, netExists, faults, cancels, shared, hurt>>
        /\ stray' \subseteq stray
        /\ gateway' = gateway \/ gateway' = [gateway EXCEPT !.listening = TRUE]
    BY <1>6 DEF GatewayListens, StrayEnds, callVars, netVars, boundVars
  <2>2. gateway'.state = gateway.state /\ gateway'.attached = gateway.attached
    BY <1>T, <2>1, Forms
  <2>3. ASSUME NEW e \in Execs, FindsItsOwn(e) PROVE FindsItsOwn(e)'
    BY <2>1, <2>2, <2>3 DEF FindsItsOwn
  <2>4. EffectiveMode' = EffectiveMode /\ \A e \in Execs : Excused(e)' <=> Excused(e)
    BY <2>1 DEF EffectiveMode, UseAllowlist, Excused
  <2> QED BY <2>1, <2>3, <2>4 DEF KeptInv, Reasons, Reason
<1> QED BY <1>1, <1>3, <1>4, <1>5, <1>6 DEF StopStep, OtherStep

LEMMA KeptStep ==
  ASSUME GatewayInv, KeptInv, StopStep \/ OtherStep
  PROVE  KeptInv'
BY KeptTypeStep, AnsweredStep, OneOwnerStep, SharedStep, ReasonsStep DEF KeptInv

\* What the other processes do leaves the sandbox's bookkeeping alone.
LEMMA KeptStays ==
  ASSUME KeptInv, UNCHANGED gatewayVars
  PROVE  KeptInv'
<1>1. UNCHANGED <<setting, netExists, netCreated, started, gateway, at, conf, stray, shared,
                  hurt, faults, cancels, cleanups>>
  BY DEF gatewayVars, netVars, callVars, boundVars
<1>2. KeptTypeOK' /\ Answered' /\ SharedKnown'
  BY <1>1 DEF KeptInv, KeptTypeOK, Answered, SharedKnown
<1>3. OneOwner'
  BY <1>1 DEF KeptInv, OneOwner, OwnedByOne, Served, Spared
<1>4. Reasons'
  <2>1. \A e \in Execs : Reason(e)' <=> Reason(e)
    BY <1>1 DEF Reason, Excused, FindsItsOwn, EffectiveMode, UseAllowlist
  <2> QED BY <1>1, <2>1 DEF KeptInv, Reasons
<1> QED BY <1>2, <1>3, <1>4 DEF KeptInv

(***************************************************************************)
(* The connections of the proxy.                                            *)
(***************************************************************************)

\* What has been checked of a request before its connection got this far.
Checked(s, r) ==
  /\ s \in Stages
  /\ s \in {"headers", "resolving", "connecting", "hello", "tunnel"} =>
       r \in Request /\ r.method \in {"connect", "http"}
  /\ \/ s \in {"resolving", "connecting", "hello", "tunnel"}
     \/ s = "headers" /\ r.method = "connect"
     => ProxyAllows(setting.list, r.host, r.port)
  /\ s \in {"resolving", "connecting", "tunnel"} /\ r.method = "http"
       => ~HttpRefused(r, setting.list)
  /\ s = "hello" => r.method = "connect"
  /\ s = "tunnel" /\ r.method = "connect" /\ r.host \in Names => SniAgrees(r)

ProxyInv ==
  /\ DOMAIN stage = Conns /\ stage = [c \in Conns |-> stage[c]]
  /\ DOMAIN req = Conns /\ req = [c \in Conns |-> req[c]]
  /\ \A c \in Conns : Checked(stage[c], req[c])

\* Who opened a connection that is open was given the proxy.
ClientInv ==
  /\ DOMAIN client = Conns /\ client = [c \in Conns |-> client[c]]
  /\ \A c \in Conns : stage[c] \notin {"idle", "closed"} =>
       /\ client[c] \in Execs
       /\ at[client[c]] \in {"running", "returned"}
       /\ conf[client[c]].proxy

\* A coroutine moves its own connection only, and only one that is open.
OwnStep(c) ==
  /\ DOMAIN stage' = Conns /\ stage' = [d \in Conns |-> stage'[d]]
  /\ DOMAIN req' = Conns /\ req' = [d \in Conns |-> req'[d]]
  /\ \A d \in Conns : d # c => stage'[d] = stage[d] /\ req'[d] = req[d]
  /\ stage[c] \in {"idle", "closed"} => stage'[c] \in {stage[c], "closed"}
  /\ Checked(stage'[c], req'[c])

LEMMA CloseStep ==
  ASSUME ProxyInv, NEW c \in Conns, Close(c)
  PROVE  OwnStep(c) /\ stage'[c] = "closed"
BY DEF ProxyInv, Close, Go, OwnStep, Checked, Stages

\* A connection goes on with the request it has.
LEMMA GoStep ==
  ASSUME ProxyInv, NEW c \in Conns, NEW s, Go(c, s), UNCHANGED req,
         stage[c] \notin {"idle", "closed"}, Checked(s, req[c])
  PROVE  OwnStep(c)
BY DEF ProxyInv, Go, OwnStep

LEMMA ConnMoves ==
  ASSUME ProxyInv, NEW c \in Conns, ConnStep(c, setting.list)
  PROVE  OwnStep(c)
<1>1. Checked(stage[c], req[c])
  BY DEF ProxyInv
<1>2. CASE FirstLine(c, setting.list)
  <2>1. PICK r \in Requests :
          \/ Close(c)
          \/ /\ r.method # "unknown"
             /\ r.method = "connect" => ProxyAllows(setting.list, r.host, r.port)
             /\ Go(c, "headers") /\ req' = [req EXCEPT ![c] = r]
    BY <1>2 DEF FirstLine
  <2>2. CASE /\ r.method # "unknown"
             /\ r.method = "connect" => ProxyAllows(setting.list, r.host, r.port)
             /\ Go(c, "headers") /\ req' = [req EXCEPT ![c] = r]
    <3>1. r \in Request /\ r.method \in {"connect", "http"}
      BY <2>2, SniProxyAssumption DEF Request
    <3>2. Checked("headers", r)
      BY <2>2, <3>1 DEF Checked, Stages
    <3>3. stage'[c] = "headers" /\ req'[c] = r /\ stage[c] = "first line"
      BY <1>2, <2>2 DEF ProxyInv, Go, FirstLine
    <3> QED BY <2>2, <3>2, <3>3 DEF ProxyInv, Go, OwnStep
  <2> QED BY <2>1, <2>2, CloseStep
<1>3. CASE Headers(c, setting.list)
  <2>1. CASE Close(c)
    BY <2>1, CloseStep
  <2>2. CASE /\ Go(c, "resolving") /\ UNCHANGED req
             /\ ~(req[c].method = "http" /\ HttpRefused(req[c], setting.list))
    <3>1. stage[c] = "headers"
      BY <1>3 DEF Headers
    <3>2. req[c] \in Request /\ req[c].method \in {"connect", "http"}
      BY <1>1, <3>1 DEF Checked
    <3>3. ProxyAllows(setting.list, req[c].host, req[c].port)
      BY <1>1, <2>2, <3>1, <3>2 DEF Checked, HttpRefused
    <3>4. Checked("resolving", req[c])
      BY <2>2, <3>2, <3>3 DEF Checked, Stages
    <3> QED BY <2>2, <3>1, <3>4, GoStep
  <2> QED BY <1>3, <2>1, <2>2 DEF Headers, Resolve
<1>4. CASE Resolved(c)
  <2>1. stage[c] = "resolving" /\ Go(c, "connecting") /\ UNCHANGED req
    BY <1>4 DEF Resolved
  <2>2. Checked("connecting", req[c])
    BY <1>1, <2>1 DEF Checked, Stages
  <2> QED BY <2>1, <2>2, GoStep
<1>5. CASE Connected(c)
  <2>1. stage[c] = "connecting" /\ UNCHANGED req
    BY <1>5 DEF Connected
  <2>2. CASE Go(c, "hello") /\ req[c].method = "connect"
    <3>1. Checked("hello", req[c])
      BY <1>1, <2>1, <2>2 DEF Checked, Stages
    <3> QED BY <2>1, <2>2, <3>1, GoStep
  <2>3. CASE Go(c, "tunnel") /\ (req[c].method # "connect" \/ req[c].host \in Addresses)
    <3>1. Checked("tunnel", req[c])
      BY <1>1, <2>1, <2>3, AllowListAssumption DEF Checked, Stages
    <3> QED BY <2>1, <2>3, <3>1, GoStep
  <2> QED BY <1>5, <2>2, <2>3 DEF Connected
<1>6. CASE Hello(c)
  <2>1. CASE Close(c)
    BY <2>1, CloseStep
  <2>2. CASE SniAgrees(req[c]) /\ Go(c, "tunnel") /\ UNCHANGED req
    <3>1. stage[c] = "hello"
      BY <1>6 DEF Hello
    <3>2. Checked("tunnel", req[c])
      BY <1>1, <2>2, <3>1 DEF Checked, Stages
    <3> QED BY <2>2, <3>1, <3>2, GoStep
  <2> QED BY <1>6, <2>1, <2>2 DEF Hello
<1>7. CASE ResolveFails(c) \/ ConnectFails(c) \/ Silence(c)
  BY <1>7, CloseStep DEF ResolveFails, ConnectFails, Silence
<1>8. CASE \E d \in BothWays : ForwardEnds(c, d)
  <2>1. CASE UNCHANGED <<stage, req>>
    BY <1>1, <2>1 DEF ProxyInv, OwnStep
  <2> QED BY <1>8, <2>1, CloseStep DEF ForwardEnds
<1> QED BY <1>2, <1>3, <1>4, <1>5, <1>6, <1>7, <1>8 DEF ConnStep

\* Any step of the proxy keeps what was checked.
LEMMA ProxyStep ==
  ASSUME ProxyInv, setting' = setting,
         \/ UNCHANGED connVars
         \/ ProxyDies
         \/ \E h \in Hosts : WindowMoves(h)
         \/ \E c \in Conns : Accept(c) \/ ConnStep(c, setting.list)
  PROVE  ProxyInv'
<1>1. \A s, r : Checked(s, r)' <=> Checked(s, r)
  BY DEF Checked
<1>2. CASE UNCHANGED connVars \/ \E h \in Hosts : WindowMoves(h)
  <2>1. stage' = stage /\ req' = req
    BY <1>2 DEF connVars, WindowMoves
  <2> QED BY <1>1, <2>1 DEF ProxyInv
<1>3. CASE ProxyDies
  <2>1. \A c \in Conns : Checked(stage'[c], req'[c])
    BY <1>3 DEF ProxyDies, Checked, Stages
  <2> QED BY <1>1, <1>3, <2>1 DEF ProxyInv, ProxyDies
<1>4. ASSUME NEW c \in Conns, Accept(c) PROVE ProxyInv'
  <2>1. /\ stage' = [stage EXCEPT ![c] = "first line"] /\ req' = req
    BY <1>4 DEF Accept, Go
  <2>2. Checked("first line", req[c])
    BY DEF Checked, Stages
  <2> QED BY <1>1, <2>1, <2>2 DEF ProxyInv
<1>5. ASSUME NEW c \in Conns, ConnStep(c, setting.list) PROVE ProxyInv'
  <2>1. OwnStep(c)
    BY <1>5, ConnMoves
  <2> QED BY <1>1, <2>1 DEF ProxyInv, OwnStep
<1> QED BY <1>2, <1>3, <1>4, <1>5

(***************************************************************************)
(* The limit of DNS queries.                                                *)
(***************************************************************************)

\* Look-ups that are under way count against the limit of their host, unless
\* two of them met.
RateInv ==
  /\ limit \in Nat
  /\ window \in [Hosts -> Nat]
  /\ limit > 0 =>
       \A h \in Hosts : h \notin crowded => window[h] + Cardinality(Resolving(h)) <= limit
  /\ RateLimitKept

LEMMA ResolvingFinite ==
  ASSUME NEW h
  PROVE  /\ IsFiniteSet(Resolving(h)) /\ Cardinality(Resolving(h)) \in Nat
         /\ Cardinality(Resolving(h)) <= Cardinality(Conns) /\ Cardinality(Conns) \in Nat
BY SniProxyAssumption, FS_Subset, FS_CardinalityType DEF Resolving

\* The look-ups of a host after a step of one connection.
LEMMA ResolvingChanges ==
  ASSUME NEW c \in Conns, NEW h,
         \A d \in Conns : d # c => stage'[d] = stage[d] /\ req'[d] = req[d]
  PROVE  /\ c \notin Resolving(h)' => Cardinality(Resolving(h))' <= Cardinality(Resolving(h))
         /\ c \in Resolving(h) /\ c \notin Resolving(h)' =>
              Cardinality(Resolving(h))' = Cardinality(Resolving(h)) - 1
         /\ c \notin Resolving(h) /\ c \in Resolving(h)' =>
              Cardinality(Resolving(h))' = Cardinality(Resolving(h)) + 1
         /\ Cardinality(Resolving(h))' \in Nat
         /\ Cardinality(Resolving(h))' <= Cardinality(Conns)
<1>1. /\ c \notin Resolving(h)' => Resolving(h)' = Resolving(h) \ {c}
      /\ c \in Resolving(h)' => Resolving(h)' = Resolving(h) \cup {c}
  BY DEF Resolving
<1>2. /\ Cardinality(Resolving(h))' \in Nat
      /\ Cardinality(Resolving(h))' <= Cardinality(Conns)
  <2>1. Resolving(h)' \subseteq Conns
    BY DEF Resolving
  <2> QED BY <2>1, SniProxyAssumption, FS_Subset, FS_CardinalityType
<1> QED BY <1>1, <1>2, ResolvingFinite, FS_AddElement, FS_RemoveElement

\* A query is under way from its check to its answer.
Queries(c) ==
  /\ stage[c] = "headers" /\ Go(c, "resolving") /\ AllowQuery(req[c].host)
  /\ crowded' = crowded \cup (IF Resolving(req[c].host) # {} THEN {req[c].host} ELSE {})
  /\ UNCHANGED <<limit, req, window>>

LEMMA RateMoves ==
  ASSUME ProxyInv, NEW c \in Conns, ConnStep(c, setting.list)
  PROVE  \/ Queries(c)
         \/ Resolved(c)
         \/ /\ UNCHANGED <<limit, window, crowded>>
            /\ stage'[c] # "resolving" \/ UNCHANGED <<stage, req>>
<1>1. ASSUME Close(c) PROVE stage'[c] # "resolving"
  BY <1>1 DEF Close, Go, ProxyInv
<1>2. ASSUME NEW s, Go(c, s), s # "resolving" PROVE stage'[c] # "resolving"
  BY <1>2 DEF Go, ProxyInv
<1>3. CASE FirstLine(c, setting.list)
  BY <1>1, <1>2, <1>3 DEF FirstLine
<1>4. CASE Headers(c, setting.list)
  BY <1>1, <1>4 DEF Headers, Resolve, Queries
<1>5. CASE ResolveFails(c) \/ ConnectFails(c) \/ Silence(c)
  BY <1>1, <1>5 DEF ResolveFails, ConnectFails, Silence
<1>6. CASE Connected(c) \/ Hello(c)
  BY <1>1, <1>2, <1>6 DEF Connected, Hello
<1>7. ASSUME NEW d \in BothWays, ForwardEnds(c, d)
      PROVE  /\ UNCHANGED <<limit, window, crowded>>
             /\ stage'[c] # "resolving" \/ UNCHANGED <<stage, req>>
  BY <1>1, <1>7 DEF ForwardEnds
<1> QED BY <1>3, <1>4, <1>5, <1>6, <1>7 DEF ConnStep

LEMMA RateConnStep ==
  ASSUME ProxyInv, RateInv, NEW c \in Conns, ConnStep(c, setting.list)
  PROVE  RateInv'
<1>1. OwnStep(c)
  BY ConnMoves
<1>2. \A d \in Conns : d # c => stage'[d] = stage[d] /\ req'[d] = req[d]
  BY <1>1 DEF OwnStep
<1>3. limit \in Nat /\ window \in [Hosts -> Nat]
  BY DEF RateInv
<1>4. ASSUME limit > 0, NEW h \in Hosts
      PROVE  /\ window[h] + Cardinality(Resolving(h)) <= limit + Cardinality(Conns) - 1
             /\ h \notin crowded => window[h] + Cardinality(Resolving(h)) <= limit
             /\ window[h] \in Nat
  BY <1>3, <1>4 DEF RateInv, RateLimitKept
<1>5. ASSUME limit' = limit, window' \in [Hosts -> Nat],
             \A h \in Hosts : limit > 0 =>
               /\ window'[h] + Cardinality(Resolving(h))' <= limit + Cardinality(Conns) - 1
               /\ h \notin crowded' => window'[h] + Cardinality(Resolving(h))' <= limit
      PROVE  RateInv'
  <2>1. \A h \in Hosts : Cardinality(Resolving(h))' \in Nat
    BY <1>2, ResolvingChanges
  <2>2. \A h \in Hosts : limit > 0 /\ h \notin crowded' => window'[h] <= limit
    BY <1>3, <1>5, <2>1
  <2> QED BY <1>3, <1>5, <2>2 DEF RateInv, RateLimitKept
<1>6. CASE UNCHANGED <<limit, window, crowded>> /\ (stage'[c] # "resolving" \/ UNCHANGED <<stage, req>>)
  <2>1. ASSUME NEW h \in Hosts
        PROVE  Cardinality(Resolving(h))' <= Cardinality(Resolving(h))
    <3>1. CASE stage'[c] # "resolving"
      <4>1. c \notin Resolving(h)'
        BY <3>1 DEF Resolving
      <4> QED BY <1>2, <4>1, ResolvingChanges
    <3>2. CASE UNCHANGED <<stage, req>>
      <4>1. Resolving(h)' = Resolving(h)
        BY <3>2 DEF Resolving
      <4> QED BY <4>1, ResolvingFinite
    <3> QED BY <1>6, <3>1, <3>2
  <2>2. ASSUME NEW h \in Hosts, limit > 0
        PROVE  /\ window'[h] + Cardinality(Resolving(h))' <= limit + Cardinality(Conns) - 1
               /\ h \notin crowded' => window'[h] + Cardinality(Resolving(h))' <= limit
    BY <1>2, <1>3, <1>4, <1>6, <2>1, <2>2, ResolvingFinite, ResolvingChanges
  <2> QED BY <1>3, <1>5, <1>6, <2>2
<1>7. CASE Resolved(c)
  <2>1. /\ stage[c] = "resolving" /\ stage'[c] = "connecting" /\ req' = req
        /\ UNCHANGED <<limit, crowded>>
        /\ window' = [window EXCEPT ![req[c].host] = @ + (IF limit = 0 THEN 0 ELSE 1)]
    BY <1>7 DEF Resolved, Go, ProxyInv
  <2>2. ASSUME NEW h \in Hosts, limit > 0
        PROVE  window'[h] + Cardinality(Resolving(h))' <= window[h] + Cardinality(Resolving(h))
    <3>1. c \notin Resolving(h)'
      BY <2>1 DEF Resolving
    <3>2. CASE h = req[c].host
      <4>1. c \in Resolving(h) /\ window'[h] = window[h] + 1
        BY <1>3, <2>1, <2>2, <3>2 DEF Resolving
      <4> QED BY <1>2, <1>3, <3>1, <4>1, ResolvingFinite, ResolvingChanges
    <3>3. CASE h # req[c].host
      <4>1. window'[h] = window[h]
        BY <1>3, <2>1, <3>3
      <4> QED BY <1>2, <1>3, <3>1, <4>1, ResolvingFinite, ResolvingChanges
    <3> QED BY <3>2, <3>3
  <2>3. window' \in [Hosts -> Nat]
    <3>1. \A n \in Nat : n + (IF limit = 0 THEN 0 ELSE 1) \in Nat
      OBVIOUS
    <3> QED BY <1>3, <2>1, <3>1
  <2>4. ASSUME NEW h \in Hosts, limit > 0
        PROVE  /\ window'[h] + Cardinality(Resolving(h))' <= limit + Cardinality(Conns) - 1
               /\ h \notin crowded' => window'[h] + Cardinality(Resolving(h))' <= limit
    <3>1. window'[h] \in Nat /\ crowded' = crowded
      BY <2>1, <2>3
    <3> QED BY <1>2, <1>3, <1>4, <2>2, <2>4, <3>1, ResolvingFinite, ResolvingChanges
  <2> QED BY <1>5, <2>1, <2>3, <2>4
<1>8. CASE Queries(c)
  <2>1. /\ stage'[c] = "resolving" /\ stage[c] = "headers" /\ req' = req
        /\ UNCHANGED <<limit, window>>
        /\ limit = 0 \/ window[req[c].host] < limit
        /\ crowded' = crowded \cup (IF Resolving(req[c].host) # {} THEN {req[c].host} ELSE {})
    BY <1>8 DEF Queries, Go, ProxyInv, AllowQuery
  <2>2. ASSUME NEW h \in Hosts, limit > 0
        PROVE  /\ window[h] + Cardinality(Resolving(h))' <= limit + Cardinality(Conns) - 1
               /\ h \notin crowded' => window[h] + Cardinality(Resolving(h))' <= limit
    <3>1. CASE h # req[c].host
      <4>1. c \notin Resolving(h)'
        BY <2>1, <3>1 DEF Resolving
      <4>2. Cardinality(Resolving(h))' <= Cardinality(Resolving(h)) /\ Cardinality(Resolving(h))' \in Nat
        BY <1>2, <4>1, ResolvingChanges
      <4>3. h \notin crowded' => h \notin crowded
        BY <2>1
      <4> QED BY <1>3, <1>4, <2>2, <4>2, <4>3, ResolvingFinite
    <3>2. CASE h = req[c].host
      <4>1. window[h] < limit
        BY <2>1, <2>2, <3>2
      <4>2. c \notin Resolving(h) /\ c \in Resolving(h)'
        BY <2>1, <3>2 DEF Resolving
      <4>3. /\ Cardinality(Resolving(h))' = Cardinality(Resolving(h)) + 1
            /\ Cardinality(Resolving(h))' <= Cardinality(Conns)
            /\ Cardinality(Resolving(h))' \in Nat
        BY <1>2, <4>2, ResolvingChanges
      <4>4. ASSUME h \notin crowded' PROVE Cardinality(Resolving(h)) = 0
        <5>1. Resolving(h) = {}
          BY <2>1, <3>2, <4>4
        <5> QED BY <5>1, FS_EmptySet
      <4> QED BY <1>3, <4>1, <4>3, <4>4, ResolvingFinite
    <3> QED BY <3>1, <3>2
  <2> QED BY <1>3, <1>5, <2>1, <2>2
<1> QED BY <1>6, <1>7, <1>8, RateMoves

\* Any other step of the proxy.
LEMMA RateStep ==
  ASSUME ProxyInv, RateInv, limit' = limit,
         \/ UNCHANGED connVars
         \/ ProxyDies
         \/ \E h \in Hosts : WindowMoves(h)
         \/ \E c \in Conns : Accept(c)
  PROVE  RateInv'
<1>1. limit \in Nat /\ window \in [Hosts -> Nat]
  BY DEF RateInv
<1>2. ASSUME NEW h \in Hosts, limit > 0
      PROVE  /\ window[h] + Cardinality(Resolving(h)) <= limit + Cardinality(Conns) - 1
             /\ h \notin crowded => window[h] + Cardinality(Resolving(h)) <= limit
             /\ window[h] \in Nat
  BY <1>1, <1>2 DEF RateInv, RateLimitKept
<1>3. /\ window' \in [Hosts -> Nat]
      /\ crowded' = crowded
      /\ \A h \in Hosts : window'[h] <= window[h] /\ Resolving(h)' \subseteq Resolving(h)
  <2>1. CASE UNCHANGED connVars
    BY <1>1, <2>1 DEF connVars, Resolving
  <2>2. CASE ProxyDies
    <3>1. window' = [h \in Hosts |-> 0] /\ crowded' = crowded
      BY <2>2 DEF ProxyDies
    <3>2. \A h \in Hosts : Resolving(h)' = {}
      BY <2>2 DEF ProxyDies, Resolving
    <3> QED BY <1>1, <3>1, <3>2
  <2>3. ASSUME NEW g \in Hosts, WindowMoves(g) PROVE <1>3
    <3>1. /\ window[g] > 0 /\ window' = [window EXCEPT ![g] = @ - 1]
          /\ UNCHANGED <<stage, req, crowded>>
      BY <2>3 DEF WindowMoves
    <3>2. \A h \in Hosts : Resolving(h)' = Resolving(h)
      BY <3>1 DEF Resolving
    <3>3. window[g] \in Nat
      BY <1>1
    <3> QED BY <1>1, <3>1, <3>2, <3>3
  <2>4. ASSUME NEW c \in Conns, Accept(c) PROVE <1>3
    <3>1. /\ stage' = [stage EXCEPT ![c] = "first line"] /\ UNCHANGED <<req, window, crowded>>
      BY <2>4 DEF Accept, Go
    <3>2. \A h \in Hosts : Resolving(h)' \subseteq Resolving(h)
      BY <3>1 DEF Resolving, ProxyInv
    <3>3. window' = window /\ crowded' = crowded
      BY <3>1
    <3>4. \A h \in Hosts : window[h] <= window[h]
      BY <1>1
    <3> QED BY <1>1, <3>2, <3>3, <3>4
  <2> QED BY <2>1, <2>2, <2>3, <2>4
<1>4. ASSUME NEW h \in Hosts
      PROVE  /\ Cardinality(Resolving(h))' <= Cardinality(Resolving(h))
             /\ Cardinality(Resolving(h))' \in Nat
  BY <1>3, ResolvingFinite, FS_Subset, FS_CardinalityType
<1>5. ASSUME NEW h \in Hosts, limit > 0
      PROVE  /\ window'[h] + Cardinality(Resolving(h))' <= limit + Cardinality(Conns) - 1
             /\ h \notin crowded' => /\ window'[h] + Cardinality(Resolving(h))' <= limit
                                     /\ window'[h] <= limit
  <2>1. window'[h] \in Nat /\ window'[h] <= window[h] /\ crowded' = crowded
    BY <1>3
  <2> QED BY <1>1, <1>2, <1>4, <1>5, <2>1, ResolvingFinite
<1> QED BY <1>1, <1>3, <1>5 DEF RateInv, RateLimitKept

(***************************************************************************)
(* The whole.                                                               *)
(***************************************************************************)

IInv == GatewayInv /\ ProxyInv /\ ClientInv

\* Between two steps a connection stays with the script that opened it.
LEMMA ClientsStay ==
  ASSUME ClientInv, ClientsLeft, Settled,
         \A c \in Conns : stage'[c] \notin {"idle", "closed"} => stage[c] \notin {"idle", "closed"}
  PROVE  ClientInv'
BY DEF ClientInv, ClientsLeft, Settled

LEMMA Initially == Init => IInv
<1> SUFFICES ASSUME Init PROVE IInv
  OBVIOUS
<1>1. GatewayInv
  BY DEF Init, GatewayInit, GatewayInv, Places, Given, SettingUp, Callers
<1>2. ProxyInv
  BY DEF Init, ProxyInit, ProxyInv, Checked, Stages
<1>3. ClientInv
  BY DEF Init, ProxyInit, ClientInv
<1> QED BY <1>1, <1>2, <1>3 DEF IInv

LEMMA Inductive == IInv /\ [Next]_vars => IInv'
<1> SUFFICES ASSUME IInv, [Next]_vars PROVE IInv'
  OBVIOUS
<1> USE DEF IInv
<1>1. CASE Executes
  <2>1. GatewayInv' /\ Settled /\ setting' = setting
    BY <1>1, GatewayStep DEF Executes
  <2>2. ProxyInv'
    BY <1>1, <2>1, ProxyStep DEF Executes, proxyVars
  <2>3. ClientInv'
    BY <1>1, <2>1 DEF Executes, proxyVars, connVars, ClientInv, Settled
  <2> QED BY <2>1, <2>2, <2>3
<1>2. CASE Stops
  <2>1. GatewayInv' /\ Settled /\ setting' = setting
    BY <1>2, GatewayStep DEF Stops
  <2>2. ProxyDies \/ UNCHANGED connVars
    BY <1>2 DEF Stops
  <2>3. ProxyInv'
    BY <2>1, <2>2, ProxyStep
  <2>4. \A c \in Conns : stage'[c] \notin {"idle", "closed"} => stage[c] \notin {"idle", "closed"}
    BY <2>2 DEF ProxyDies, connVars
  <2>5. ClientInv'
    BY <1>2, <2>1, <2>4, ClientsStay DEF Stops
  <2> QED BY <2>1, <2>3, <2>5
<1>3. ASSUME NEW e \in Execs, NEW c \in Conns, Opens(e, c) PROVE IInv'
  <2>1. UNCHANGED <<setting, at, conf, stray>>
    BY <1>3 DEF Opens, gatewayVars, callVars
  <2>2. GatewayInv'
    BY <2>1, ZenonT(60) DEF GatewayInv, Given, EffectiveMode, UseAllowlist, Proxied, AddHosts
  <2>3. ProxyInv'
    BY <1>3, <2>1, ProxyStep DEF Opens
  <2>4. at[e] \in {"running", "returned"} /\ conf[e].proxy
    BY <1>3 DEF Opens, Running, GatewayInv
  <2>5. ClientInv'
    <3>1. client' = [client EXCEPT ![c] = e] /\ \A d \in Conns : d # c => stage'[d] = stage[d]
      BY <1>3 DEF Opens, Accept, Go, ProxyInv
    <3> QED BY <2>1, <2>4, <3>1 DEF ClientInv
  <2> QED BY <2>2, <2>3, <2>5
<1>4. CASE Proxies
  <2>1. UNCHANGED <<setting, at, conf, stray>>
    BY <1>4 DEF Proxies, gatewayVars, callVars
  <2>2. GatewayInv' /\ Settled
    BY <2>1, ZenonT(60) DEF GatewayInv, Given, EffectiveMode, UseAllowlist, Proxied, AddHosts, Settled
  <2>3. ProxyInv'
    BY <1>4, <2>1, ProxyStep DEF Proxies
  <2>4. \A c \in Conns : stage'[c] \notin {"idle", "closed"} => stage[c] \notin {"idle", "closed"}
    <3>1. ASSUME NEW c \in Conns, ConnStep(c, setting.list) PROVE <2>4
      BY <3>1, ConnMoves DEF OwnStep
    <3>2. CASE \E h \in Hosts : WindowMoves(h)
      BY <3>2 DEF WindowMoves
    <3> QED BY <1>4, <3>1, <3>2 DEF Proxies
  <2>5. ClientInv'
    BY <1>4, <2>2, <2>4, ClientsStay DEF Proxies
  <2> QED BY <2>2, <2>3, <2>5
<1>5. CASE UNCHANGED vars
  BY <1>5, ZenonT(60) DEF vars, gatewayVars, proxyVars, callVars, connVars, GatewayInv, Given, EffectiveMode,
     UseAllowlist, Proxied, AddHosts, ProxyInv, Checked, ClientInv
<1> QED BY <1>1, <1>2, <1>3, <1>4, <1>5 DEF Next

\* A network with a way out counts as nothing else.
LEMMA BridgeFields ==
  ASSUME NEW n, n \in {Bridge, Proxied(Bridge)}
  PROVE  n.network = "bridge" /\ n.enforced = FALSE
BY DEF Bridge, Proxied

LEMMA NetworksClosed == IInv => NoOpenNetwork
<1> SUFFICES ASSUME IInv, NEW e \in Running
             PROVE  /\ EffectiveMode = "enforced" => conf[e].network \in {"none", "internal"}
                    /\ EffectiveMode = "disabled" => conf[e].network = "none"
                    /\ conf[e].enforced <=> conf[e].network = "internal"
                    /\ conf[e].network = "internal" /\ UseAllowlist => conf[e].proxy
  BY DEF NoOpenNetwork
<1>1. Given(conf[e])
  BY DEF IInv, GatewayInv, Running
<1>2. CASE conf[e] = NoNetwork
  BY <1>2 DEF NoNetwork
<1>3. CASE EffectiveMode = "enforced" /\ ~UseAllowlist /\ conf[e] = Internal
  BY <1>3 DEF Internal
<1>4. CASE EffectiveMode = "enforced" /\ conf[e] = Proxied(Internal)
  BY <1>4 DEF Internal, Proxied
<1>5. CASE EffectiveMode = "best effort" /\ conf[e] \in {Bridge, Proxied(Bridge)}
  <2>1. conf[e].network = "bridge" /\ conf[e].enforced = FALSE
    BY <1>5, BridgeFields
  <2> QED BY <1>5, <2>1
<1> QED BY <1>1, <1>2, <1>3, <1>4, <1>5 DEF Given

\* The names put into /etc/hosts are names the proxy lets through.
LEMMA HostsAllowed ==
  ASSUME IInv, NEW e \in Running, NEW h \in conf[e].hosts
  PROVE  IsDomainAllowed(setting.list, h)
<1>1. Given(conf[e])
  BY DEF IInv, GatewayInv, Running
<1>2. h \in AddHosts(setting.list, Resolvable)
  <2>1. CASE conf[e] \in {NoNetwork, Bridge, Internal}
    BY <2>1 DEF NoNetwork, Bridge, Internal
  <2>2. ASSUME NEW n, conf[e] = Proxied(n) PROVE <1>2
    BY <2>2 DEF Proxied
  <2> QED BY <1>1, <2>1, <2>2 DEF Given
<1> QED BY <1>2 DEF AddHosts, IsDomainAllowed

LEMMA UpstreamPermitted == IInv => OnlyPermittedUpstream(setting.list)
<1> SUFFICES ASSUME IInv, NEW c \in Upstream
             PROVE  /\ Permitted(setting.list, req[c].host, req[c].port)
                    /\ stage[c] = "tunnel" /\ SecondNameRead(req[c]) =>
                         req[c].second = req[c].host
  BY DEF OnlyPermittedUpstream
<1>1. Checked(stage[c], req[c])
  BY DEF IInv, ProxyInv, Upstream
<1>2. /\ req[c] \in Request /\ req[c].method \in {"connect", "http"}
      /\ ProxyAllows(setting.list, req[c].host, req[c].port)
  <2>1. stage[c] \in {"resolving", "connecting", "hello", "tunnel"}
    BY DEF Upstream
  <2>2. req[c] \in Request /\ req[c].method \in {"connect", "http"}
    BY <1>1, <2>1 DEF Checked
  <2>3. ProxyAllows(setting.list, req[c].host, req[c].port)
    BY <1>1, <2>1 DEF Checked
  <2> QED BY <2>2, <2>3
<1>3. Permitted(setting.list, req[c].host, req[c].port)
  <2>1. req[c].host \in Hosts /\ req[c].port \in Ports
    BY <1>2 DEF Request
  <2>2. setting.list \in Seq(Entry)
    BY GatewayAssumption DEF IInv, GatewayInv
  <2> QED BY <1>2, <2>1, <2>2, ProxyPermits
<1>4. ASSUME stage[c] = "tunnel", SecondNameRead(req[c])
      PROVE  req[c].second = req[c].host
  <2>1. CASE req[c].method = "http"
    BY <1>1, <1>4, <2>1 DEF Checked, SecondNameRead, HttpRefused
  <2>2. CASE req[c].method = "connect"
    BY <1>1, <1>4, <2>2 DEF Checked, SecondNameRead, SniAgrees, ExtractSni
  <2> QED BY <1>2, <2>1, <2>2
<1> QED BY <1>3, <1>4

\* The allow-list holds on every path out of the sandbox: no script gets a
\* network that leads past the proxy, the proxy connects only where an entry of
\* the list permits, and the look-up does what the list says, whatever the list
\* (DockerExecutor.execute(), sni_proxy.py).
THEOREM Filtered == Spec => []EgressFiltered
<1>1. IInv => EgressFiltered
  <2> SUFFICES ASSUME IInv PROVE EgressFiltered
    OBVIOUS
  <2>1. ASSUME NEW c \in Upstream PROVE conf[client[c]].proxy
    BY DEF IInv, ClientInv, Upstream
  <2>2. EgressPermitted
    BY <2>1, NetworksClosed, HostsAllowed, UpstreamPermitted DEF EgressPermitted
  <2>3. Lists \cup {setting.list} \subseteq Seq(Entry)
    BY EgressAssumption, GatewayAssumption DEF IInv, GatewayInv
  <2>4. ListsEnforced
    BY <2>3, ListEnforced, NothingDenied DEF ListsEnforced
  <2> QED BY <2>2, <2>4 DEF EgressFiltered
<1> QED BY <1>1, Initially, Inductive, PTL DEF Spec

(***************************************************************************)
(* The gateway and the limit, on top of the invariant of the sandbox.       *)
(***************************************************************************)

ServedInv == IInv /\ KeptInv /\ RateInv

LEMMA ServedInitially == Init => ServedInv
<1> SUFFICES ASSUME Init PROVE ServedInv
  OBVIOUS
<1>1. KeptInv
  <2>1. gateway = Absent /\ Absent \in Containers /\ Absent.state = "absent"
    BY DEF Init, GatewayInit, Absent, Containers
  <2>2. KeptTypeOK
    BY <2>1 DEF Init, GatewayInit, KeptTypeOK
  <2>3. Answered /\ SharedKnown
    BY <2>1 DEF Init, GatewayInit, Answered, SharedKnown, SettingUp
  <2>4. \A c \in Callers : at[c] = "idle"
    BY DEF Init, GatewayInit
  <2>5. OwnedByOne /\ Served
    BY <2>4, ExecCallers DEF Init, GatewayInit, OwnedByOne, Served, Owning, Callers
  <2>6. Reasons
    BY <2>4, ExecCallers DEF Init, GatewayInit, Reasons, Reason, FindsItsOwn
  <2> QED BY <2>2, <2>3, <2>5, <2>6 DEF KeptInv, OneOwner
<1>2. RateInv
  <2>1. limit \in Nat
    BY EgressAssumption DEF Init
  <2>2. window = [h \in Hosts |-> 0] /\ \A h : Resolving(h) = {}
    BY DEF Init, ProxyInit, Resolving
  <2>3. Cardinality({}) = 0 /\ Cardinality(Conns) \in Nat
    BY SniProxyAssumption, FS_EmptySet, FS_CardinalityType
  <2> QED BY <2>1, <2>2, <2>3 DEF RateInv, RateLimitKept
<1> QED BY <1>1, <1>2, Initially DEF ServedInv

LEMMA ServedInductive == ServedInv /\ [Next]_vars => ServedInv'
<1> SUFFICES ASSUME ServedInv, [Next]_vars PROVE ServedInv'
  OBVIOUS
<1> USE DEF ServedInv
<1>1. IInv'
  BY Inductive
<1>2. GatewayInv /\ ProxyInv
  BY DEF IInv
<1>3. KeptInv'
  <2>1. ASSUME StopStep \/ OtherStep PROVE KeptInv'
    BY <1>2, <2>1, KeptStep
  <2>2. ASSUME UNCHANGED gatewayVars PROVE KeptInv'
    BY <2>2, KeptStays
  <2>3. (StopStep \/ OtherStep) \/ UNCHANGED gatewayVars
    BY DEF Next, Executes, Stops, Opens, Proxies, vars
  <2> QED BY <2>1, <2>2, <2>3
<1>4. RateInv'
  <2>1. \/ \E c \in Conns : ConnStep(c, setting.list)
        \/ limit' = limit /\ UNCHANGED connVars
        \/ limit' = limit /\ ProxyDies
        \/ \E h \in Hosts : limit' = limit /\ WindowMoves(h)
        \/ \E c \in Conns : limit' = limit /\ Accept(c)
    BY DEF Next, Executes, Stops, Opens, Proxies, vars, proxyVars, ProxyDies, WindowMoves, Accept
  <2> QED BY <1>2, <2>1, RateConnStep, RateStep
<1> QED BY <1>1, <1>3, <1>4

\* The gateway is kept while it is needed and no longer: until something happens
\* to it, a started gateway answers and scripts are sent to no other; a failed
\* start leaves no container, unless a call was cancelled or docker rm failed; and a script loses its
\* network only after Docker failed or two calls met (_start_gateway(),
\* _stop_gateway(), execute(), cleanup()).
THEOREM GatewayServes == Spec => []GatewayKept
<1>1. ServedInv => GatewayKept
  <2> SUFFICES ASSUME ServedInv PROVE GatewayKept
    OBVIOUS
  <2> USE DEF ServedInv, KeptInv
  <2>1. GatewayTypeOK
    <3>1. netCreated => netExists
      BY DEF KeptTypeOK
    <3>2. gateway.state \in {"absent", "running", "stopped"}
      BY DEF KeptTypeOK, Containers
    <3>3. /\ at \in [Callers -> SettingUp \cup {"idle", "launch", "running", "returned"}]
          /\ stray \subseteq {e \in Execs : at[e] = "returned"}
      BY DEF IInv, GatewayInv, Places
    <3>4. ASSUME NEW e \in Execs PROVE conf[e].network \in {"none", "internal", "bridge"}
      <4>1. Given(conf[e])
        BY DEF IInv, GatewayInv
      <4>2. /\ NoNetwork.network = "none" /\ Internal.network = "internal"
            /\ Bridge.network = "bridge" /\ Proxied(Internal).network = "internal"
            /\ Proxied(Bridge).network = "bridge"
        BY DEF NoNetwork, Internal, Bridge, Proxied
      <4>3. conf[e] \in {NoNetwork, Internal, Bridge, Proxied(Internal), Proxied(Bridge)}
        BY <4>1 DEF Given
      <4> QED BY <4>2, <4>3
    <3> QED BY <3>1, <3>2, <3>3, <3>4 DEF GatewayTypeOK
  <2>2. GatewayAnswers
    <3>1. ASSUME gateway.state = "running", gateway.attached, gateway.listening
          PROVE  gateway = [state |-> "running", attached |-> TRUE, listening |-> TRUE]
      <4>1. \A g \in Containers : g.state = "running" /\ g.attached /\ g.listening =>
              g = [state |-> "running", attached |-> TRUE, listening |-> TRUE]
        BY DEF Containers
      <4> QED BY <3>1, <4>1 DEF KeptTypeOK
    <3> QED BY <2>1, <3>1 DEF GatewayAnswers, OneOwner, Served
  <2>3. NoGatewayLeftBehind
    <3> SUFFICES ASSUME hurt \cap {"cancelled", "stuck"} = {}, ~started,
                        \A c \in Callers : at[c] \notin SettingUp
                 PROVE  gateway = Absent
      BY DEF NoGatewayLeftBehind
    <3>1. gateway.state = "absent"
      BY DEF Answered, Owning, SettingUp
    <3> QED BY <3>1 DEF KeptTypeOK
  <2>4. DegradedForAReason
    <3> SUFFICES ASSUME EffectiveMode = "enforced", cancels = 0, NEW e \in Running,
                        conf[e].network = "none"
                 PROVE  faults > 0 \/ e \in shared
      BY DEF DegradedForAReason
    <3>1. e \in Execs /\ ~FindsItsOwn(e)
      BY DEF Running, FindsItsOwn, IInv, GatewayInv
    <3> QED BY <3>1 DEF Reasons, Reason, Excused
  <2> QED BY <2>2, <2>3, <2>4 DEF GatewayKept
<1> QED BY <1>1, ServedInitially, ServedInductive, PTL DEF Spec

\* DNS queries stay within the limit of the window but for the look-ups under
\* way, and exactly within it for a host whose look-ups never overlap, although
\* check and record are an await apart (DnsAuditor).
THEOREM LimitHolds == Spec => []RateLimitKept
<1>1. ServedInv => RateLimitKept
  BY DEF ServedInv, RateInv
<1> QED BY <1>1, ServedInitially, ServedInductive, PTL DEF Spec
===============================================================================
