---------------------------- MODULE FederatedQueue ----------------------------
(***************************************************************************)
(* The queue a node of the federation submits to (federated_queue:          *)
(* FederatedJobQueue and the LocalJobQueue it wraps).  Every job goes to    *)
(* the local queue AND, when URL and certificates are there, to the first   *)
(* coordinator that accepts it: a task of its own posts it to the URLs, the *)
(* sticky one first, each post limited to 5 seconds.                        *)
(*                                                                          *)
(* A coordinator here is one URL with its own records.  Claiming from the   *)
(* coordinators is module Federation; in the code as it stands start()      *)
(* raises before it creates the claim loop, which is action Start.          *)
(***************************************************************************)
EXTENDS Wire, Sequences, FiniteSets, SequencesExt

CONSTANTS Coordinators,   \* the sequence of URLs in federation_url
          Readable,       \* the coordinators that can decrypt this node's payloads
          Refused,        \* the jobs /submit answers with 400 (query too long, ...)
          MaxOutages      \* bound: coordinator outages

Urls == {Coordinators[m] : m \in DOMAIN Coordinators}

ASSUME FederatedQueueAssumption ==
  /\ Coordinators \in Seq(Urls)
  /\ \A m, n \in DOMAIN Coordinators :
       Coordinators[m] = Coordinators[n] => m = n
  /\ Readable \subseteq Urls
  /\ Refused \subseteq Jobs
  /\ MaxLost \in Nat
  /\ MaxOutages \in Nat

VARIABLES
  service,    \* the queue object: "new", "started" or "stopped"
  failed,     \* start() has raised
  certs,      \* the certificate files exist
  local,      \* the jobs of the local queue ("none": not submitted)
  posting,    \* the publication of each job: phase and the URLs left to try
  sticky,     \* _federation_url (no matter which, when there is none)
  reachable,  \* _federation_available is True
  up,         \* the coordinators that run
  copies,     \* history: how many coordinators have accepted the job
  unheard,    \* history: the acceptances whose answer never came back
  outages     \* outages so far

wireVars == <<posting, sticky, reachable, copies, unheard, lost>>

Idle == [phase |-> "none", todo |-> <<>>]

-------------------------------------------------------------------------------
\* __init__: the first URL is sticky; nothing runs.  The certificates may be
\* missing, then the queue is local only.
QueueInit ==
  /\ service = "new"
  /\ failed = FALSE
  /\ certs \in BOOLEAN
  /\ local = [j \in Jobs |-> "none"]
  /\ posting = [j \in Jobs |-> Idle]
  /\ sticky = Head(Coordinators)
  /\ reachable = FALSE
  /\ up = Urls
  /\ copies = [j \in Jobs |-> 0]
  /\ unheard = [j \in Jobs |-> 0]
  /\ lost = 0
  /\ outages = 0

\* make_job_queue(): a queue with URLs is federated, one without is the local
\* queue alone, whose methods are the local parts of the actions below.
Federated == Coordinators # <<>>

\* _federation_configured(): there is a URL, and the files exist now.
Configured == Federated /\ certs

\* _federation_url_order(): the sticky URL, then the others as listed.
UrlOrder ==
  LET place == CHOOSE m \in DOMAIN Coordinators : Coordinators[m] = sticky
  IN  <<sticky>> \o RemoveAt(Coordinators, place)

Slip_SessionFirst ==
  /\ service = "new"
  /\ service' = IF Configured THEN "new" ELSE "started"
  /\ failed' = Configured
  /\ UNCHANGED <<certs, local, up, outages, wireVars>>

\* start(): the local queue is started; then, when the federation is
\* configured, the shared session is created from a name the module does not
\* import: NameError, no session and no claim loop.
Start ==
  /\ service = "new"
  /\ service' = "started"
  /\ failed' = Configured
  /\ UNCHANGED <<certs, local, up, outages, wireVars>>

\* stop(): neither session nor claim task exists, the local queue is stopped
\* and drained.  Publications under way are not waited for.
Stop ==
  /\ service = "started"
  /\ service' = "stopped"
  /\ UNCHANGED <<failed, certs, local, up, outages, wireVars>>

\* submit(): first to the local queue; then a publication task is created
\* (or, outside an event loop, a thread), or the fallback warning printed.
NodeSubmit(j) ==
  /\ service # "stopped"
  /\ local[j] = "none"
  /\ local' = [local EXCEPT ![j] = "queued"]
  /\ posting' = [posting EXCEPT ![j].phase =
                   IF Configured THEN "task" ELSE "refused"]
  /\ UNCHANGED <<service, failed, certs, sticky, reachable, up, copies, unheard,
                 lost, outages>>

\* The task begins: the certificates are loaded (a missing file raises and the
\* publication has failed), the order of the URLs is fixed.
TaskStarts(j) ==
  /\ posting[j].phase = "task"
  /\ posting' = [posting EXCEPT
       ![j] = IF certs THEN [phase |-> "posting", todo |-> UrlOrder]
              ELSE [phase |-> "refused", todo |-> <<>>]]
  /\ UNCHANGED <<service, failed, certs, local, sticky, reachable, up, copies,
                 unheard, lost, outages>>

\* _decrypt(): without the node's secret the coordinator raises, HTTP 500.
Decrypts(c) == c \in Readable

\* What /submit answers with less than 400.
Accepts(c, j) == c \in up /\ Decrypts(c) /\ j \notin Refused

NextUrl(j) == posting' = [posting EXCEPT ![j].todo = Tail(@)]

Slip_KeepsPosting(j) ==
  LET c == Head(posting[j].todo) IN
    /\ Accepts(c, j)
    /\ copies' = [copies EXCEPT ![j] = @ + 1]
    /\ NextUrl(j)
    /\ sticky' = c
    /\ reachable' = TRUE
    /\ UNCHANGED <<unheard, lost>>

\* The post is answered: this URL becomes sticky and the task returns.
Posted(j) ==
  LET c == Head(posting[j].todo) IN
    /\ Accepts(c, j)
    /\ copies' = [copies EXCEPT ![j] = @ + 1]
    /\ posting' = [posting EXCEPT ![j] = [phase |-> "accepted", todo |-> <<>>]]
    /\ sticky' = c
    /\ reachable' = TRUE
    /\ UNCHANGED <<unheard, lost>>

\* The post is refused (HTTP 400 or 500, or nobody there), or it is lost or
\* times out, before the coordinator has accepted it or after: the next URL.
NotPosted(j) ==
  LET c == Head(posting[j].todo) IN
    /\ NextUrl(j)
    /\ \/ ~ Accepts(c, j) /\ UNCHANGED <<copies, unheard, lost>>
       \/ /\ Accepts(c, j)
          /\ Loss
          /\ \/ UNCHANGED <<copies, unheard>>
             \/ /\ copies' = [copies EXCEPT ![j] = @ + 1]
                /\ unheard' = [unheard EXCEPT ![j] = @ + 1]
    /\ UNCHANGED <<sticky, reachable>>

\* One turn of the loop over the URLs.
Post(j) ==
  /\ posting[j].phase = "posting"
  /\ posting[j].todo # <<>>
  /\ Posted(j) \/ NotPosted(j)
  /\ UNCHANGED <<service, failed, certs, local, up, outages>>

\* No URL is left: the warning is printed (once per process), nothing else.
GiveUp(j) ==
  /\ posting[j].phase = "posting"
  /\ posting[j].todo = <<>>
  /\ posting' = [posting EXCEPT ![j].phase = "refused"]
  /\ UNCHANGED <<service, failed, certs, local, sticky, reachable, up, copies,
                 unheard, lost, outages>>

\* The local queue's dispatcher (module JobQueue).
LocalRuns(j) ==
  /\ service = "started"
  /\ local[j] = "queued"
  /\ local' = [local EXCEPT ![j] = "running"]
  /\ UNCHANGED <<service, failed, certs, up, outages, wireVars>>

LocalEnds(j) ==
  /\ local[j] = "running"
  /\ local' = [local EXCEPT ![j] = "done"]
  /\ UNCHANGED <<service, failed, certs, up, outages, wireVars>>

\* The environment: certificates are rotated, coordinators fall and return.
Certificates ==
  /\ outages < MaxOutages
  /\ outages' = outages + 1
  /\ certs' = ~ certs
  /\ UNCHANGED <<service, failed, local, up, wireVars>>

Outage(c) ==
  /\ outages < MaxOutages
  /\ outages' = outages + 1
  /\ up' = up \ {c}
  /\ c \in up
  /\ UNCHANGED <<service, failed, certs, local, wireVars>>

Recovery(c) ==
  /\ c \in Urls \ up
  /\ up' = up \cup {c}
  /\ UNCHANGED <<service, failed, certs, local, outages, wireVars>>

QueueNext ==
  \/ Start
  \/ Stop
  \/ \E j \in Jobs :
       NodeSubmit(j) \/ TaskStarts(j) \/ Post(j) \/ GiveUp(j) \/ LocalRuns(j) \/ LocalEnds(j)
  \/ Certificates
  \/ \E c \in Urls : Outage(c) \/ Recovery(c)

-------------------------------------------------------------------------------
(***************************************************************************)
(* Properties.                                                              *)
(***************************************************************************)

QueueTypeOK ==
  /\ service \in {"new", "started", "stopped"}
  /\ failed \in BOOLEAN
  /\ certs \in BOOLEAN
  /\ local \in [Jobs -> {"none", "queued", "running", "done"}]
  /\ posting \in [Jobs -> [phase : {"none", "task", "posting", "accepted", "refused"},
                           todo : Seq(Urls)]]
  /\ Federated => sticky \in Urls
  /\ reachable \in BOOLEAN
  /\ up \subseteq Urls
  /\ copies \in [Jobs -> 0..Len(Coordinators)]
  /\ unheard \in [Jobs -> 0..MaxLost]
  /\ lost \in 0..MaxLost
  /\ outages \in 0..MaxOutages

\* The failover never spreads a job over the coordinators by itself: a second
\* coordinator holds a copy only where the acceptance of the first went
\* unheard, and a publication reported as failed leaves no other copies.  The
\* sticky URL is always one that is listed, whatever tasks have moved it.
OneCopyPerPublication ==
  /\ QueueTypeOK
  /\ \A j \in Jobs :
       copies[j] = unheard[j] + (IF posting[j].phase = "accepted" THEN 1 ELSE 0)

\* "Jobs will still run on this node": whatever becomes of start() after the
\* local queue, of the publications and of the coordinators, a job submitted
\* to a queue whose start() has been called is executed here, unless the
\* queue is stopped first.
LocalFallback ==
  \A j \in Jobs :
    local[j] = "queued" /\ (service = "started" \/ failed)
      ~> local[j] = "done" \/ service = "stopped"

===============================================================================
