-------------------------------- MODULE Gateway --------------------------------
(***************************************************************************)
(* The Docker sandbox, sandbox/docker_executor.py: calls of execute() by    *)
(* coroutines of one event loop over one executor, which share its gateway  *)
(* container.  Every Docker command is awaited and is a step of its own.    *)
(*                                                                          *)
(* Modes and allow-list are set when the orchestrator is built.  Of the     *)
(* gateway container only what Docker commands see is kept: does it run, is *)
(* it attached to the internal network, do its logs say that the proxy      *)
(* listens.  Its hardening flags, like those of the script's container, are *)
(* constants of the command line and left out.                              *)
(***************************************************************************)
EXTENDS AllowList

CONSTANTS Execs,       \* calls of execute()
          Settings,    \* how installations are set up: [mode, list] (<<>>: no list)
          Resolvable,  \* the names the host can resolve
          MaxFaults,   \* bound: failing Docker commands, deaths of the gateway
          MaxCancels,  \* bound: cancelled calls
          MaxCleanups  \* bound: calls of cleanup()

ASSUME GatewayAssumption ==
  /\ {MaxFaults, MaxCancels, MaxCleanups} \subseteq Nat
  /\ \A s \in Settings :
       /\ s.mode \in {"auto", "disabled", "best effort", "enforced"}
       /\ s.list \in Seq(Entry)
  /\ "cleanup" \notin Execs

Callers == Execs \cup {"cleanup"}

VARIABLES
  setting,    \* _network_mode ("auto": None) and _allowlist
  netExists,  \* does Docker have the internal network?
  netCreated, \* _gateway_network_created
  started,    \* _gateway_started, set and reset together with _gateway_ip
  gateway,    \* the container of that name: [state, attached, listening]
  at,         \* where each call is
  conf,       \* the network its script gets: [network, proxy, enforced, hosts]
  stray,      \* scripts that still run although their call has ended
  shared,     \* history: the calls that met another one setting up
  hurt,       \* history: what happened to the gateway behind its starter's back
  faults, cancels, cleanups

netVars == <<netExists, netCreated>>
callVars == <<conf, stray>>
boundVars == <<faults, cancels, cleanups>>
gatewayVars == <<setting, netVars, started, gateway, at, callVars, shared, hurt, boundVars>>

Absent == [state |-> "absent", attached |-> FALSE, listening |-> FALSE]
Fresh  == [state |-> "running", attached |-> FALSE, listening |-> FALSE]

NoNetwork == [network |-> "none", proxy |-> FALSE, enforced |-> FALSE, hosts |-> {}]
Bridge    == [network |-> "bridge", proxy |-> FALSE, enforced |-> FALSE, hosts |-> {}]
Internal  == [network |-> "internal", proxy |-> FALSE, enforced |-> TRUE, hosts |-> {}]
Proxied(conf_) ==
  [network |-> conf_.network, proxy |-> TRUE, enforced |-> conf_.enforced,
   hosts |-> AddHosts(setting.list, Resolvable)]

UseAllowlist == setting.list # <<>>

\* _effective_network_mode(): an allow-list alone turns the proxy on.
EffectiveMode ==
  IF setting.mode # "auto" THEN setting.mode
  ELSE IF UseAllowlist THEN "best effort" ELSE "disabled"

SettingUp == {"inspect net", "create net", "run gateway", "connect gateway",
              "inspect gateway", "await gateway", "stop gateway", "remove gateway"}

GatewayInit ==
  /\ setting \in Settings
  /\ netExists \in BOOLEAN
  /\ netCreated = FALSE
  /\ started = FALSE
  /\ gateway = Absent
  /\ at = [c \in Callers |-> "idle"]
  /\ conf = [e \in Execs |-> NoNetwork]
  /\ stray = {}
  /\ shared = {}
  /\ hurt = {}
  /\ faults = 0 /\ cancels = 0 /\ cleanups = 0

Goto(c, where) == at' = [at EXCEPT ![c] = where]
Fault == faults < MaxFaults /\ faults' = faults + 1

\* The network is settled: the script is started next.
Launch(e, network) == Goto(e, "launch") /\ conf' = [conf EXCEPT ![e] = network]

\* execute() after the internal network is there: without an allow-list no
\* proxy is needed, a gateway that counts as started is used as it is.
OnInternal(e) ==
  IF ~UseAllowlist THEN Launch(e, Internal)
  ELSE IF started THEN Launch(e, Proxied(Internal))
  ELSE Goto(e, "run gateway") /\ UNCHANGED conf

\* Mutant: without the gateway the script gets the default network.
Slip_Bridge(e) == Launch(e, Bridge)

\* Fail-closed: whatever cannot be set up, the script runs without a network.
FailClosed(e) == Launch(e, NoNetwork)

\* Who is no longer alone at setting up when c begins.
Met(c) ==
  LET others == {d \in Callers \ {c} : at[d] \in SettingUp}
  IN IF others = {} THEN {} ELSE others \cup {c}

\* execute() up to its first await.  The flag network of the call counts only
\* where nothing else is set.
Execute(e) ==
  /\ at[e] = "idle"
  /\ shared' = shared \cup Met(e)
  /\ CASE EffectiveMode = "disabled" -> Launch(e, NoNetwork)
       [] EffectiveMode = "enforced" ->
            IF netCreated THEN OnInternal(e)
            ELSE Goto(e, "inspect net") /\ UNCHANGED conf
       [] EffectiveMode = "best effort" ->
            IF UseAllowlist THEN Launch(e, Proxied(Bridge))
            ELSE \E flag \in {Bridge, NoNetwork} : Launch(e, flag)
  /\ UNCHANGED <<setting, netVars, started, gateway, stray, hurt, boundVars>>

\* Mutant: the answer of docker network inspect is not looked at.
Slip_AlwaysCreate(e) ==
  /\ at[e] = "inspect net"
  /\ Goto(e, "create net")
  /\ UNCHANGED <<setting, netVars, started, gateway, callVars, shared, hurt, boundVars>>

\* _ensure_gateway_network(): inspect, and create if there is none.  Of two
\* calls that found none the second is refused, for the name is taken.
InspectNet(e) ==
  /\ at[e] = "inspect net"
  /\ \/ /\ IF netExists THEN netCreated' = TRUE /\ OnInternal(e)
           ELSE Goto(e, "create net") /\ UNCHANGED <<netCreated, conf>>
        /\ UNCHANGED faults
     \/ Fault /\ FailClosed(e) /\ UNCHANGED netCreated
  /\ UNCHANGED <<setting, netExists, started, gateway, stray, shared, hurt, cancels, cleanups>>

CreateNet(e) ==
  /\ at[e] = "create net"
  /\ \/ /\ ~netExists
        /\ netExists' = TRUE /\ netCreated' = TRUE
        /\ OnInternal(e)
        /\ UNCHANGED faults
     \/ /\ \/ netExists /\ UNCHANGED faults
           \/ ~netExists /\ Fault
        /\ FailClosed(e)
        /\ UNCHANGED <<netExists, netCreated>>
  /\ UNCHANGED <<setting, started, gateway, stray, shared, hurt, cancels, cleanups>>

-------------------------------------------------------------------------------
\* _start_gateway(), command by command.  docker run is refused while the
\* name is taken, and then nothing is stopped: the container is not ours.
RunGateway(e) ==
  /\ at[e] = "run gateway"
  /\ \/ /\ gateway = Absent
        /\ gateway' = Fresh
        /\ Goto(e, "connect gateway")
        /\ UNCHANGED <<conf, faults>>
     \/ /\ \/ gateway # Absent /\ UNCHANGED faults
           \/ gateway = Absent /\ Fault
        /\ FailClosed(e)
        /\ UNCHANGED gateway
  /\ UNCHANGED <<setting, netVars, started, stray, shared, hurt, cancels, cleanups>>

\* A command that cannot even be spawned raises, also the first one; the
\* handler then stops the container of that name, whoever started it.
SpawnRaises(e) ==
  /\ at[e] \in {"run gateway", "connect gateway", "inspect gateway"}
  /\ Fault
  /\ hurt' = hurt \cup (IF at[e] = "run gateway" THEN {"stopped by another"} ELSE {})
  /\ Goto(e, "stop gateway")
  /\ UNCHANGED <<setting, netVars, started, gateway, callVars, shared, cancels, cleanups>>

ConnectGateway(e) ==
  /\ at[e] = "connect gateway"
  /\ \/ /\ gateway # Absent
        /\ gateway' = [gateway EXCEPT !.attached = TRUE]
        /\ Goto(e, "inspect gateway")
        /\ UNCHANGED faults
     \/ /\ \/ gateway = Absent /\ UNCHANGED faults
           \/ gateway # Absent /\ Fault
        /\ Goto(e, "stop gateway")
        /\ UNCHANGED gateway
  /\ UNCHANGED <<setting, netVars, started, callVars, shared, hurt, cancels, cleanups>>

\* A container that does not run has no address.  (A command that fails does
\* what SpawnRaises does.)
InspectGateway(e) ==
  /\ at[e] = "inspect gateway"
  /\ Goto(e, IF gateway.state = "running" /\ gateway.attached
             THEN "await gateway" ELSE "stop gateway")
  /\ UNCHANGED <<setting, netVars, started, gateway, callVars, shared, hurt, boundVars>>

\* Mutant: the gateway counts as started without waiting for its proxy.
Slip_NoWait(e) ==
  /\ at[e] = "await gateway"
  /\ started' = TRUE
  /\ Launch(e, Proxied(Internal))
  /\ UNCHANGED <<setting, netVars, gateway, stray, shared, hurt, boundVars>>

\* _wait_gateway_ready() sees the line in the logs, which a stopped container
\* still has.
GatewayReady(e) ==
  /\ at[e] = "await gateway"
  /\ gateway.listening
  /\ started' = TRUE
  /\ Launch(e, Proxied(Internal))
  /\ UNCHANGED <<setting, netVars, gateway, stray, shared, hurt, boundVars>>

\* Ten seconds without that line.
GatewayNotReady(e) ==
  /\ at[e] = "await gateway"
  /\ ~gateway.listening
  /\ \/ gateway.state # "running" /\ UNCHANGED faults
     \/ gateway.state = "running" /\ Fault
  /\ Goto(e, "stop gateway")
  /\ UNCHANGED <<setting, netVars, started, gateway, callVars, shared, hurt, cancels, cleanups>>

\* _stop_gateway(): docker stop ...  That it fails, or cannot be spawned, is
\* not looked at, and the container runs on.
StopGateway(c) ==
  /\ at[c] = "stop gateway"
  /\ \/ /\ gateway' = IF gateway = Absent THEN Absent ELSE [gateway EXCEPT !.state = "stopped"]
        /\ UNCHANGED faults
     \/ Fault /\ UNCHANGED gateway
  /\ Goto(c, "remove gateway")
  /\ UNCHANGED <<setting, netVars, started, callVars, shared, hurt, cancels, cleanups>>

\* Mutant: a failed start leaves its container behind.
Slip_NoRemove(c) ==
  /\ at[c] = "remove gateway"
  /\ started' = FALSE
  /\ IF c \in Execs THEN FailClosed(c) ELSE Goto(c, "idle") /\ UNCHANGED conf
  /\ UNCHANGED <<setting, netVars, gateway, stray, shared, hurt, boundVars>>

\* ... then docker rm -f, and the executor forgets the gateway, also when the
\* command failed and the container is still there.
RemoveGateway(c) ==
  /\ at[c] = "remove gateway"
  /\ \/ gateway' = Absent /\ UNCHANGED <<hurt, faults>>
     \/ /\ gateway # Absent /\ Fault
        /\ hurt' = hurt \cup {"stuck"}
        /\ UNCHANGED gateway
  /\ started' = FALSE
  /\ IF c \in Execs THEN FailClosed(c) ELSE Goto(c, "idle") /\ UNCHANGED conf
  /\ UNCHANGED <<setting, netVars, stray, shared, cancels, cleanups>>

\* cleanup() of the executor.
CleanupCalled ==
  /\ at["cleanup"] = "idle"
  /\ cleanups < MaxCleanups
  /\ cleanups' = cleanups + 1
  /\ hurt' = hurt \cup {"cleanup"}
  /\ shared' = shared \cup Met("cleanup")
  /\ Goto("cleanup", "stop gateway")
  /\ UNCHANGED <<setting, netVars, started, gateway, callVars, faults, cancels>>

-------------------------------------------------------------------------------
\* What happens in Docker: the proxy in the gateway begins to listen; the
\* gateway may die, and is not restarted.
GatewayListens ==
  /\ gateway.state = "running" /\ ~gateway.listening
  /\ gateway' = [gateway EXCEPT !.listening = TRUE]
  /\ UNCHANGED <<setting, netVars, started, at, callVars, shared, hurt, boundVars>>

GatewayDies ==
  /\ gateway.state = "running"
  /\ Fault
  /\ gateway' = [gateway EXCEPT !.state = "stopped"]
  /\ hurt' = hurt \cup {"died"}
  /\ UNCHANGED <<setting, netVars, started, at, callVars, shared, cancels, cleanups>>

Return(e) == Goto(e, "returned")

\* docker run of the script; a command that cannot be spawned is reported.
RunScript(e) ==
  /\ at[e] = "launch"
  /\ \/ Goto(e, "running") /\ UNCHANGED faults
     \/ Fault /\ Return(e)
  /\ UNCHANGED <<setting, netVars, started, gateway, conf, stray, shared, hurt, cancels, cleanups>>

\* The script ends, or the time given to it does: then the client command is
\* killed, and the container runs on.
ScriptEnds(e) ==
  /\ at[e] = "running"
  /\ \/ Return(e) /\ UNCHANGED stray
     \/ Return(e) /\ stray' = stray \cup {e}
  /\ UNCHANGED <<setting, netVars, started, gateway, conf, shared, hurt, boundVars>>

StrayEnds(e) ==
  /\ e \in stray
  /\ stray' = stray \ {e}
  /\ UNCHANGED <<setting, netVars, started, gateway, at, conf, shared, hurt, boundVars>>

\* The coroutine is cancelled at an await (a job's time is up).  Nothing is
\* undone; a Docker command on its way may still take effect.
Cancelled(e) ==
  /\ at[e] \in SettingUp \cup {"running"}
  /\ cancels < MaxCancels
  /\ cancels' = cancels + 1
  /\ hurt' = hurt \cup {"cancelled"}
  /\ Return(e)
  /\ stray' = stray \cup (IF at[e] = "running" THEN {e} ELSE {})
  /\ \/ UNCHANGED gateway
     \/ at[e] = "run gateway" /\ gateway = Absent /\ gateway' = Fresh
  /\ UNCHANGED <<setting, netVars, started, conf, shared, faults, cleanups>>

ExecStep(e) ==
  \/ Execute(e) \/ InspectNet(e) \/ CreateNet(e)
  \/ RunGateway(e) \/ SpawnRaises(e) \/ ConnectGateway(e) \/ InspectGateway(e)
  \/ GatewayReady(e) \/ GatewayNotReady(e)
  \/ RunScript(e) \/ ScriptEnds(e) \/ StrayEnds(e) \/ Cancelled(e)

\* Steps after which the gateway's proxy is gone, and steps that leave it.
StopStep == GatewayDies \/ \E c \in Callers : StopGateway(c) \/ RemoveGateway(c)
OtherStep == CleanupCalled \/ GatewayListens \/ \E e \in Execs : ExecStep(e)

-------------------------------------------------------------------------------
Running == {e \in Execs : at[e] = "running"} \cup stray

GatewayTypeOK ==
  /\ netCreated => netExists
  /\ gateway.state \in {"absent", "running", "stopped"}
  /\ at \in [Callers -> SettingUp \cup {"idle", "launch", "running", "returned"}]
  /\ \A e \in Execs : conf[e].network \in {"none", "internal", "bridge"}
  /\ stray \subseteq {e \in Execs : at[e] = "returned"}

\* Under ENFORCED_GATEWAY a script never sees a network with a way out, and
\* the evidence "enforced" is given for the internal network only.  Without
\* an allow-list no mode but best effort with the network flag gives one.
NoOpenNetwork ==
  \A e \in Running :
    /\ EffectiveMode = "enforced" => conf[e].network \in {"none", "internal"}
    /\ EffectiveMode = "disabled" => conf[e].network = "none"
    /\ conf[e].enforced <=> conf[e].network = "internal"
    /\ conf[e].network = "internal" /\ UseAllowlist => conf[e].proxy

\* Nothing has happened to the gateway, but that it could not be removed.
Spared == hurt \subseteq {"stuck"}

\* execute() sends scripts to the gateway's address only while it answers:
\* between the check of _gateway_started and the script no await lets another
\* call's failure take it away.  That ends when the gateway dies, is cleaned
\* up, or is stopped by a call that could not spawn its docker run: nothing
\* looks at the remembered address again.
GatewayAnswers ==
  GatewayTypeOK /\ (Spared =>
    /\ started => gateway = [state |-> "running", attached |-> TRUE, listening |-> TRUE]
    /\ \A e \in Execs : at[e] \in {"launch", "running"} /\ conf[e].network = "internal"
                        /\ conf[e].proxy => started)

\* A start that fails at any command leaves no container whose name would make
\* every later start fail: _stop_gateway() is on all paths but cancellation.
\* That is as much as the code does: when docker rm itself fails the exception
\* or exit code is swallowed (434-437), and the container stays.
NoGatewayLeftBehind ==
  /\ hurt \cap {"cancelled", "stuck"} = {}
  /\ ~started
  /\ \A c \in Callers : at[c] \notin SettingUp
  => gateway = Absent

\* A script under ENFORCED_GATEWAY loses its network only to a failing Docker
\* command, or because it met another call (or cleanup) at setting up.
DegradedForAReason ==
  EffectiveMode = "enforced" /\ cancels = 0 =>
    \A e \in Running : conf[e].network = "none" => faults > 0 \/ e \in shared
===============================================================================
