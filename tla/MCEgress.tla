------------------------------- MODULE MCEgress -------------------------------
(***************************************************************************)
(* A small installation: three names, two addresses and a block.            *)
(***************************************************************************)
EXTENDS Egress, TLC

CONSTANTS e1, e2, c1, c2

TheNames == {"org", "pypi.org", "files.pypi.org"}
TheParents == [n \in TheNames |-> CASE n = "org" -> "" [] n = "pypi.org" -> "org"
                                    [] OTHER -> "pypi.org"]
TheAddresses == {"10.0.0.5", "10.0.9.9"}
TheMembers == [b \in {"10.0.0.0/24", "10.0.0.0/16"} |->
                 IF b = "10.0.0.0/24" THEN {"10.0.0.5"} ELSE TheAddresses]

Line(kind, host, port, wildcard) ==
  [kind |-> kind, host |-> host, port |-> port, wildcard |-> wildcard]

TheList ==
  <<Line("domain", "pypi.org", 443, FALSE), Line("domain", "pypi.org", 0, TRUE)>>

TheSettings ==
  {[mode |-> "enforced", list |-> TheList], [mode |-> "enforced", list |-> <<>>],
   [mode |-> "auto", list |-> TheList], [mode |-> "auto", list |-> <<>>],
   [mode |-> "best effort", list |-> <<>>], [mode |-> "disabled", list |-> TheList]}

\* Every list of up to three lines.
AllLines ==
  [kind : {"domain"}, host : {"pypi.org", "org"}, port : {0, 443}, wildcard : BOOLEAN]
    \cup [kind : {"ip"}, host : {"10.0.0.5"}, port : {0, 80}, wildcard : {FALSE}]
    \cup [kind : {"cidr"}, host : DOMAIN TheMembers, port : {0, 80, 443}, wildcard : {FALSE}]
SmallLists == UNION {[1..n -> AllLines] : n \in 0..3}

Ask(method, host, port, absolute, second, whole) ==
  [method |-> method, host |-> host, port |-> port, absolute |-> absolute,
   second |-> second, whole |-> whole]

TheRequests ==
  {Ask("connect", "pypi.org", 443, FALSE, "pypi.org", TRUE),
   Ask("connect", "pypi.org", 443, FALSE, "org", TRUE),
   Ask("connect", "pypi.org", 80, FALSE, "pypi.org", TRUE),
   Ask("http", "files.pypi.org", 80, TRUE, "absent", TRUE),
   Ask("http", "files.pypi.org", 80, TRUE, "org", TRUE),
   Ask("http", "pypi.org", 443, FALSE, "absent", TRUE),
   Ask("unknown", "org", 80, FALSE, "absent", TRUE)}

AnyConn == Permutations(Conns) \cup Permutations(Execs)
===============================================================================
