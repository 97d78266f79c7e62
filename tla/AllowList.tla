------------------------------ MODULE AllowList -------------------------------
(***************************************************************************)
(* The network allow-list, sandbox/network_allowlist.py, and the two things *)
(* that enforce it: the SNI proxy (extract_allowlist_sets(),                *)
(* is_domain_allowed() and _is_port_allowed() of sandbox/sni_proxy.py) and  *)
(* the configuration that sandbox/envoy_sidecar.py generates for Envoy.     *)
(*                                                                          *)
(* A list is the sequence of the entries that could be parsed.  Names and   *)
(* addresses are values; Parent gives what is left of a name without its    *)
(* first label, Members the addresses of a block, so that case and dotted   *)
(* notation are left out (names are in lower case).                         *)
(***************************************************************************)
EXTENDS Naturals, Sequences, FiniteSets

CONSTANTS Names,      \* host names
          Parent,     \* the name without its first label, or ""
          Addresses,  \* IP addresses
          Members,    \* the addresses of each CIDR block
          Ports       \* port numbers

AnyPort == 0

Entry ==
  [kind : {"domain"}, host : Names, port : Ports \cup {AnyPort}, wildcard : BOOLEAN]
    \cup [kind : {"ip"}, host : Addresses, port : Ports \cup {AnyPort}, wildcard : {FALSE}]
    \cup [kind : {"cidr"}, host : DOMAIN Members, port : Ports \cup {AnyPort},
          wildcard : {FALSE}]

ASSUME AllowListAssumption ==
  /\ DOMAIN Parent = Names
  /\ \A b \in DOMAIN Members : Members[b] \subseteq Addresses
  /\ Ports \subseteq Nat \ {AnyPort}
  /\ Names \cap Addresses = {}
  /\ (Names \cup Addresses) \cap DOMAIN Members = {}

Hosts == Names \cup Addresses
Entries(L) == {L[i] : i \in DOMAIN L}

\* What a line of the list means, on its own: the reference for the checks below.
Covers(e, h) ==
  CASE e.wildcard -> h \in Names /\ Parent[h] = e.host
    [] e.kind = "cidr" -> h \in Members[e.host]
    [] OTHER -> h = e.host

Permitted(L, h, p) ==
  \E e \in Entries(L) : Covers(e, h) /\ e.port \in {AnyPort, p}

-------------------------------------------------------------------------------
\* extract_allowlist_sets(): three sets to match a host with, and the ports
\* filed under the text of the entry, "*." included.
AllowedDomains(L) == {e.host : e \in {x \in Entries(L) : x.kind = "domain" /\ ~x.wildcard}}
AllowedWildcards(L) == {e.host : e \in {x \in Entries(L) : x.wildcard}}
AllowedIps(L) == {e.host : e \in {x \in Entries(L) : x.kind # "domain"}}

AllowedPorts(L, host, wildcard) ==
  {e.port : e \in {x \in Entries(L) : x.host = host /\ x.wildcard = wildcard}} \ {AnyPort}

DomainMatches(h, pattern) == h \in Names /\ Parent[h] = pattern

IsIpAllowed(L, h) ==
  \E spec \in AllowedIps(L) :
    IF spec \in DOMAIN Members THEN h \in Members[spec] ELSE h = spec

IsDomainAllowed(L, h) ==
  \/ h \in AllowedDomains(L)
  \/ \E w \in AllowedWildcards(L) : DomainMatches(h, w)
  \/ IsIpAllowed(L, h)

\* The blocks with ports that hold the address, in the order they were listed.
PortedBlocks(L, h) ==
  {i \in DOMAIN L : L[i].kind = "cidr" /\ L[i].port # AnyPort /\ h \in Members[L[i].host]}

\* Mutant: only entries for the host itself restrict its ports.
Slip_ExactPorts(L, h, p) ==
  AllowedPorts(L, h, FALSE) # {} => p \in AllowedPorts(L, h, FALSE)

\* Ports under the host itself, else under a pattern that matches it, else
\* under the first block that holds it, else every port.
IsPortAllowed(L, h, p) ==
  LET exact == AllowedPorts(L, h, FALSE)
      wild  == {w \in AllowedWildcards(L) :
                  DomainMatches(h, w) /\ AllowedPorts(L, w, TRUE) # {}}
      block == PortedBlocks(L, h)
  IN IF exact # {} THEN p \in exact
     ELSE IF wild # {} THEN \E w \in wild : p \in AllowedPorts(L, w, TRUE)
     ELSE IF block # {}
     THEN LET first == CHOOSE i \in block : \A k \in block : i <= k
          IN p \in AllowedPorts(L, L[first].host, FALSE)
     ELSE TRUE

ProxyAllows(L, h, p) == IsDomainAllowed(L, h) /\ IsPortAllowed(L, h, p)

\* The matcher that generate_envoy_config() writes: host names compared as a
\* whole.  The ports are stripped, suffixes (wildcards) and addresses do not
\* reach the map, everything else goes to the sinkhole.
EnvoyForwards(L, h) == h \in AllowedDomains(L)

\* generate_add_host_args(): the names put into /etc/hosts of a script, if
\* the host resolves them.
AddHosts(L, resolved) == AllowedDomains(L) \cap resolved

-------------------------------------------------------------------------------
(***************************************************************************)
(* Properties, of every list of entries.                                    *)
(***************************************************************************)

\* The two-level look-up of the proxy (is_domain_allowed(), then
\* _is_port_allowed() with its precedence) lets nothing through that no
\* single entry permits; what Envoy forwards is a host the proxy knows.
EnforcedOnly(L) ==
  /\ \A h \in Hosts, p \in Ports : ProxyAllows(L, h, p) => Permitted(L, h, p)
  /\ \A h \in Hosts : EnvoyForwards(L, h) => IsDomainAllowed(L, h)

\* An entry that is alone for its host keeps what it permits: no restriction
\* meant for another host reaches it.
NothingElseDenied(L) ==
  \A i \in DOMAIN L, h \in Hosts, p \in Ports :
    /\ Covers(L[i], h)
    /\ \A k \in DOMAIN L : Covers(L[k], h) => k = i
    => (ProxyAllows(L, h, p) <=> L[i].port \in {AnyPort, p})
===============================================================================
