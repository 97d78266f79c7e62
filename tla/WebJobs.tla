-------------------------------- MODULE WebJobs --------------------------------
(***************************************************************************)
(* The web application (web/app.py): the jobs of AppState, the background   *)
(* task of a query (_run_job), the endpoints for remote workers             *)
(* (/api/jobs/claim and /complete) and the fan-out of job updates to the    *)
(* WebSocket clients, directly or through a Redis channel.                  *)
(*                                                                          *)
(* One event loop: a step is the code between two awaits.  A FAN is one     *)
(* broadcast on its way: its text is fixed when it starts, then it awaits   *)
(* either the Redis publish or one client after the other, walking the      *)
(* list self.ws_clients by position while other code removes from it.       *)
(* Sends to one client are first in, first out.                             *)
(*                                                                          *)
(* The definitions named Slip_... are plausible slips in the definition     *)
(* that follows them; with each of them one of the properties must fail.    *)
(***************************************************************************)
EXTENDS Naturals, Sequences, FiniteSets, SequencesExt

CONSTANTS Jobs,        \* job ids
          Clients,     \* WebSocket connections, each opened at most once
          Workers,     \* remote workers
          Nobody,      \* claimed_by is absent
          Transports,  \* the broadcasters explored: "local", "redis"
          Scope,       \* bound: the jobs submitted, the connections opened and
                       \* the number of them that end, with each broadcaster
          MaxOutages,  \* bound: failed publishes and lost subscriptions
          MaxFans      \* bound: updates on their way at once

ASSUME WebAssumption ==
  /\ Nobody \notin Workers
  /\ Transports \subseteq {"local", "redis"}
  /\ Scope \in [Transports -> [jobs : SUBSET Jobs, pages : SUBSET Clients, hangups : Nat]]
  /\ MaxOutages \in Nat
  /\ MaxFans \in Nat \ {0}

VARIABLES
  transport,   \* the broadcaster make_broadcaster chose
  status,      \* jobs[j]["status"] ("absent": no such job)
  created,     \* the jobs in the order of created_at
  claimedBy,   \* jobs[j]["claimed_by"]
  task,        \* where _run_job of the job stands
  knows,       \* the jobs a worker has been given and has not reported
  wsClients,   \* ws_clients
  socket,      \* state of each connection
  seen,        \* the status of each job a client was last shown
  fans,        \* the broadcasts on their way, oldest first
  subscribed,  \* the subscriber is connected to the channel
  channel,     \* messages published and not yet forwarded
  outages,     \* outages so far
  raced,       \* history: jobs begun here although a worker had claimed them
  stumbled,    \* history: jobs one of whose broadcasts raised
  missed       \* history: pairs of a client and a job whose update it missed

jobVars == <<status, created, claimedBy, task, knows>>
wireVars == <<wsClients, socket, seen, subscribed, channel>>
history == <<raced, stumbled, missed>>
vars == <<transport, jobVars, wireVars, fans, outages, history>>

Finished == {"done", "error"}
Known(j) == status[j] # "absent"

\* A broadcast of job j's current status for owner ("open", "close", "fail":
\* the task; "claim", "complete": a worker's request; "relay": the subscriber).
Fan(owner, j, shown, via) ==
  [owner |-> owner, job |-> j, shown |-> shown, via |-> via, at |-> 1, dead |-> <<>>]

Broadcast(owner, j, shown) ==
  /\ Len(fans) + Len(channel) < MaxFans
  /\ fans' = Append(fans, Fan(owner, j, shown, IF transport = "redis" THEN "redis" ELSE "wire"))

NothingSeen == [j \in Jobs |-> "absent"]
Pages == {c \in Clients : socket[c] = "open"}

-------------------------------------------------------------------------------
Init ==
  /\ transport \in Transports
  /\ status = [j \in Jobs |-> "absent"]
  /\ created = <<>>
  /\ claimedBy = [j \in Jobs |-> Nobody]
  /\ task = [j \in Jobs |-> "none"]
  /\ knows = {}
  /\ wsClients = <<>>
  /\ socket = [c \in Clients |-> "new"]
  /\ seen = [c \in Clients |-> NothingSeen]
  /\ fans = <<>>
  /\ subscribed = FALSE
  /\ channel = <<>>
  /\ outages = 0
  /\ raced = {}
  /\ stumbled = {}
  /\ missed = {}

\* api_query: ensure_started (which starts the subscriber), add_job, and,
\* unless the submission is federated, a task for _run_job.
Query(j, federated) ==
  /\ ~Known(j) /\ j \in Scope[transport].jobs
  /\ status' = [status EXCEPT ![j] = "pending"]
  /\ created' = Append(created, j)
  /\ task' = [task EXCEPT ![j] = IF federated THEN "none" ELSE "ready"]
  /\ subscribed' = (subscribed \/ (transport = "redis" /\ created = <<>>))
  /\ UNCHANGED <<transport, claimedBy, knows, wsClients, socket, seen,
                 channel, fans, outages, history>>

\* _run_job, up to the first await: the status is set whatever it was.
TaskBegins(j) ==
  /\ task[j] = "ready"
  /\ status' = [status EXCEPT ![j] = "running"]
  /\ task' = [task EXCEPT ![j] = "opening"]
  /\ Broadcast("open", j, "running")
  /\ raced' = IF claimedBy[j] = Nobody THEN raced ELSE raced \cup {j}
  /\ UNCHANGED <<transport, created, claimedBy, knows, wireVars, outages,
                 stumbled, missed>>

\* Mutant: the except branch reports the failure but does not record it.
Slip_FailureUnrecorded(j, outcome) ==
  /\ task[j] = "running"
  /\ status' = IF outcome = "done" THEN [status EXCEPT ![j] = outcome] ELSE status
  /\ task' = [task EXCEPT ![j] = IF outcome = "done" THEN "closing" ELSE "failing"]
  /\ Broadcast(IF outcome = "done" THEN "close" ELSE "fail", j, outcome)
  /\ UNCHANGED <<transport, created, claimedBy, knows, wireVars, outages, history>>

\* orch.run returns or raises; the result is stored and broadcast.
RunEnds(j, outcome) ==
  /\ task[j] = "running"
  /\ status' = [status EXCEPT ![j] = outcome]
  /\ task' = [task EXCEPT ![j] = IF outcome = "done" THEN "closing" ELSE "failing"]
  /\ Broadcast(IF outcome = "done" THEN "close" ELSE "fail", j, outcome)
  /\ UNCHANGED <<transport, created, claimedBy, knows, wireVars, outages,
                 history>>

\* Mutant: the status is not looked at.
Slip_AnyJob(j) == \A m, n \in DOMAIN created :
                    m < n /\ created[n] = j => claimedBy[created[m]] # Nobody

\* pending.sort(key = created_at); the first one.
OldestPending(j) ==
  /\ status[j] = "pending"
  /\ \A m, n \in DOMAIN created :
       m < n /\ created[n] = j => status[created[m]] # "pending"

\* /api/jobs/claim; the answer is sent when the broadcast is over.
Claim(w, j) ==
  /\ Known(j) /\ claimedBy[j] = Nobody
  /\ OldestPending(j)
  /\ status' = [status EXCEPT ![j] = "running"]
  /\ claimedBy' = [claimedBy EXCEPT ![j] = w]
  /\ Broadcast("claim", j, "running")
  /\ UNCHANGED <<transport, created, task, knows, wireVars, outages,
                 history>>

\* Mutant: only a result finishes the job, a reported error does not.
Slip_ErrorIgnored(j, outcome) ==
  /\ j \in knows
  /\ task[j] # "ready"
  /\ knows' = knows \ {j}
  /\ status' = IF outcome = "done" THEN [status EXCEPT ![j] = outcome] ELSE status
  /\ Broadcast("complete", j, outcome)
  /\ UNCHANGED <<transport, created, claimedBy, task, wireVars, outages, history>>

\* /api/jobs/complete: accepted for every job that exists, whatever its
\* status.  A task that is ready takes its first step before an answer has
\* reached a worker and come back.
Complete(j, outcome) ==
  /\ j \in knows
  /\ task[j] # "ready"
  /\ knows' = knows \ {j}
  /\ status' = [status EXCEPT ![j] = outcome]
  /\ Broadcast("complete", j, outcome)
  /\ UNCHANGED <<transport, created, claimedBy, task, wireVars, outages,
                 history>>

-------------------------------------------------------------------------------
\* ws_endpoint: the client joins the list and is sent every job as it stands.
Connect(c) ==
  /\ socket[c] = "new" /\ c \in Scope[transport].pages
  /\ socket' = [socket EXCEPT ![c] = "open"]
  /\ wsClients' = Append(wsClients, c)
  /\ seen' = [seen EXCEPT ![c] = status]
  /\ UNCHANGED <<transport, jobVars, fans, subscribed, channel, outages, history>>

\* The peer goes away; from now on sending to it raises.
Hangup(c) ==
  /\ socket[c] = "open"
  /\ Cardinality({d \in Clients : socket[d] \in {"closed", "gone"}}) < Scope[transport].hangups
  /\ socket' = [socket EXCEPT ![c] = "closed"]
  /\ seen' = [seen EXCEPT ![c] = NothingSeen]
  /\ missed' = {p \in missed : p[1] # c}
  /\ UNCHANGED <<transport, jobVars, wsClients, fans, subscribed, channel, outages,
                 raced, stumbled>>

\* The list without the clients in gone, the others in their order.
Kept(list, gone) ==
  LET places == {i \in DOMAIN list : list[i] \notin gone}
      Place(n) == CHOOSE i \in places : Cardinality({k \in places : k <= i}) = n
  IN  [n \in 1..Cardinality(places) |-> list[Place(n)]]

Passed(list, fan) == {list[i] : i \in {k \in DOMAIN list : k < fan.at}}

\* The list shrinks under the feet of the fans that walk it: a client that
\* moves to a position a fan has passed is skipped by it.
SkippedBy(list) ==
  UNION {{<<c, fans[f].job>> : c \in Pages \cap (Passed(list, fans[f]) \ Passed(wsClients, fans[f]))} :
           f \in {g \in DOMAIN fans : fans[g].via = "wire"}}

\* ws_endpoint notices: finally, removed if still in the list.
EndpointEnds(c) ==
  /\ socket[c] = "closed"
  /\ socket' = [socket EXCEPT ![c] = "gone"]
  /\ wsClients' = Kept(wsClients, {c})
  /\ missed' = missed \cup SkippedBy(wsClients')
  /\ UNCHANGED <<transport, jobVars, seen, fans, subscribed, channel, outages,
                 raced, stumbled>>

-------------------------------------------------------------------------------
\* Sends to a client are served in the order of the fans: a fan cannot pass
\* an older one.
InTurn(f) == \A g \in 1..(f - 1) : fans[g].via = "wire" => fans[g].at > fans[f].at

\* Mutant: the first client that is gone ends the loop.
Slip_StopsAtDead(f) ==
  LET fan == fans[f]
      c   == wsClients[fan.at]
  IN  /\ fan.via = "wire"
      /\ fan.at <= Len(wsClients)
      /\ InTurn(f)
      /\ IF socket[c] = "open"
         THEN /\ seen' = [seen EXCEPT ![c][fan.job] = fan.shown]
              /\ missed' = missed \ {<<c, fan.job>>}
              /\ fans' = [fans EXCEPT ![f].at = @ + 1]
         ELSE /\ fans' = [fans EXCEPT ![f].at = Len(wsClients) + 1, ![f].dead = Append(@, c)]
              /\ UNCHANGED <<seen, missed>>
      /\ UNCHANGED <<transport, jobVars, wsClients, socket, subscribed, channel,
                     outages, raced, stumbled>>

\* _send_to_local_clients, one client.
Deliver(f) ==
  LET fan == fans[f]
      c   == wsClients[fan.at]
  IN  /\ fan.via = "wire"
      /\ fan.at <= Len(wsClients)
      /\ InTurn(f)
      /\ IF socket[c] = "open"
         THEN /\ seen' = [seen EXCEPT ![c][fan.job] = fan.shown]
              /\ missed' = missed \ {<<c, fan.job>>}
              /\ fans' = [fans EXCEPT ![f].at = @ + 1]
         ELSE /\ fans' = [fans EXCEPT ![f].at = @ + 1, ![f].dead = Append(@, c)]
              /\ UNCHANGED <<seen, missed>>
      /\ UNCHANGED <<transport, jobVars, wsClients, socket, subscribed, channel,
                     outages, raced, stumbled>>

\* ws_clients.remove for each dead client raises at the first one that
\* somebody else has removed already.
Removable(fan) ==
  LET lost == {i \in DOMAIN fan.dead : fan.dead[i] \notin ToSet(wsClients)}
  IN  {fan.dead[i] : i \in {k \in DOMAIN fan.dead : \A m \in lost : k < m}}
Raises(fan) == \E i \in DOMAIN fan.dead : fan.dead[i] \notin ToSet(wsClients)

\* What the owner of a broadcast does when it is over, normally or not; only
\* the direct broadcaster lets the exception through.
Resume(f, raised) ==
  LET fan == fans[f]
      j   == fan.job
      rest == RemoveAt(fans, f)
      bad == raised /\ transport = "local"
  IN  /\ stumbled' = IF bad THEN stumbled \cup {j} ELSE stumbled
      /\ knows' = IF fan.owner = "claim" /\ ~bad THEN knows \cup {j} ELSE knows
      /\ IF bad /\ fan.owner = "close"      \* the except branch of _run_job
         THEN /\ status' = [status EXCEPT ![j] = "error"]
              /\ task' = [task EXCEPT ![j] = "failing"]
              /\ fans' = Append(rest, Fan("fail", j, "error", "wire"))
         ELSE /\ task' = [task EXCEPT ![j] =
                   CASE fan.owner = "open" /\ ~bad   -> "running"
                     [] fan.owner = "open" /\ bad    -> "over"
                     [] fan.owner \in {"close", "fail"} -> "over"
                     [] OTHER -> @]
              /\ fans' = rest
              /\ UNCHANGED status

\* The end of _send_to_local_clients: the dead are removed.
SendEnds(f) ==
  LET fan  == fans[f]
      gone == Removable(fan)
  IN  /\ fan.via = "wire"
      /\ fan.at > Len(wsClients)
      /\ InTurn(f)
      /\ wsClients' = Kept(wsClients, gone)
      /\ missed' = missed \cup SkippedBy(wsClients')
      /\ Resume(f, Raises(fan))
      /\ UNCHANGED <<transport, created, claimedBy, socket, seen,
                     subscribed, channel, outages, raced>>

\* RedisBroadcaster.publish: every server that is subscribed gets the message.
Publish(f) ==
  /\ fans[f].via = "redis"
  /\ channel' = IF subscribed
                THEN Append(channel, [job |-> fans[f].job, shown |-> fans[f].shown])
                ELSE channel
  /\ Resume(f, FALSE)
  /\ UNCHANGED <<transport, created, claimedBy, wsClients, socket, seen,
                 subscribed, outages, raced, missed>>

\* The publish fails: the message goes to this server's own clients.
PublishFails(f) ==
  /\ fans[f].via = "redis"
  /\ outages < MaxOutages
  /\ outages' = outages + 1
  /\ fans' = [fans EXCEPT ![f].via = "wire"]
  /\ UNCHANGED <<transport, jobVars, wireVars, history>>

\* _subscriber_loop: one message at a time is forwarded.
Relay ==
  /\ channel # <<>>
  /\ \A f \in DOMAIN fans : fans[f].owner # "relay"
  /\ channel' = Tail(channel)
  /\ fans' = Append(fans, Fan("relay", Head(channel).job, Head(channel).shown, "wire"))
  /\ UNCHANGED <<transport, jobVars, wsClients, socket, seen, subscribed, outages,
                 history>>

\* The subscriber's connection breaks and what it had not read is lost; it
\* reconnects with a back-off.
SubscriptionLost ==
  /\ subscribed
  /\ outages < MaxOutages
  /\ \A f \in DOMAIN fans : fans[f].owner # "relay"
  /\ outages' = outages + 1
  /\ subscribed' = FALSE
  /\ channel' = <<>>
  /\ UNCHANGED <<transport, jobVars, wsClients, socket, seen, fans, history>>

Resubscribe ==
  /\ transport = "redis" /\ ~subscribed /\ created # <<>>
  /\ subscribed' = TRUE
  /\ UNCHANGED <<transport, jobVars, wsClients, socket, seen, channel, fans,
                 outages, history>>

-------------------------------------------------------------------------------
FanStep == \E f \in DOMAIN fans :
             Deliver(f) \/ SendEnds(f) \/ Publish(f) \/ PublishFails(f)
TaskStep(j) == TaskBegins(j) \/ \E o \in Finished : RunEnds(j, o)

Next ==
  \/ \E j \in Jobs : \/ \E federated \in BOOLEAN : Query(j, federated)
                     \/ TaskStep(j)
                     \/ \E w \in Workers : Claim(w, j)
                     \/ \E o \in Finished : Complete(j, o)
  \/ \E c \in Clients : Connect(c) \/ Hangup(c) \/ EndpointEnds(c)
  \/ FanStep \/ Relay \/ SubscriptionLost \/ Resubscribe

\* The event loop runs every task that is ready, and orch.run ends.
Fairness == /\ WF_vars(FanStep) /\ WF_vars(Relay)
            /\ \A j \in Jobs : WF_vars(TaskStep(j))

Spec == Init /\ [][Next]_vars /\ Fairness

-------------------------------------------------------------------------------
TypeOK ==
  /\ transport \in Transports
  /\ status \in [Jobs -> {"absent", "pending", "running"} \cup Finished]
  /\ claimedBy \in [Jobs -> Workers \cup {Nobody}]
  /\ task \in [Jobs -> {"none", "ready", "opening", "running", "closing", "failing", "over"}]
  /\ knows \subseteq Jobs
  /\ socket \in [Clients -> {"new", "open", "closed", "gone"}]
  /\ ToSet(wsClients) \subseteq Clients

Quiet == fans = <<>> /\ channel = <<>>

\* No page has gone away.
PagesIntact == \A c \in Clients : socket[c] \in {"new", "open"}

\* When no update is on its way, every connected page shows every job as it
\* is (_send_to_local_clients, ws_endpoint), unless the page was skipped
\* because another client was removed while an update was being sent, or Redis
\* was out of reach, or the job was run twice and its updates could overtake
\* one another: on their way through Redis, or because the list has shrunk
\* under an update that waits for a client further down.
ClientsUpToDate ==
  /\ TypeOK
  /\ Quiet => \A c \in Clients, j \in Jobs :
       socket[c] = "open" =>
         \/ seen[c][j] = status[j]
         \/ status[j] = "pending"
         \/ <<c, j>> \in missed
         \/ transport = "redis" /\ outages > 0
         \/ j \in raced /\ (transport = "redis" \/ ~PagesIntact)

\* A job shown as running is being run: here, by the worker that claimed it,
\* or its claim is being answered (_run_job, api_jobs_claim), unless a
\* broadcast of it raised.
RunningIsOwned ==
  \A j \in Jobs : status[j] = "running" =>
    \/ task[j] \in {"opening", "running"}
    \/ j \in knows
    \/ \E f \in DOMAIN fans : fans[f].owner = "claim" /\ fans[f].job = j
    \/ j \in stumbled

\* Pages show what is, and what is said to be running is being run.
ShownIsSo == ClientsUpToDate /\ RunningIsOwned

\* A finished job keeps its outcome (api_jobs_complete and _run_job overwrite
\* it without looking), unless it was run both here and by a worker, or its
\* last broadcast raised.
OutcomeStands ==
  [][\A j \in Jobs : status[j] \in Finished /\ status'[j] # status[j] =>
                       j \in raced' \/ j \in stumbled']_vars

\* A query submitted here is answered (_run_job), unless the broadcast of its
\* start raised: then the task is gone and the job stays "running".
QueriesFinish ==
  \A j \in Jobs : task[j] = "ready" ~> (status[j] \in Finished \/ j \in stumbled)
===============================================================================
