------------------------------ MODULE Specialist ------------------------------
(***************************************************************************)
(* The specialist model behind claim-level reasoning (vibe_clr_async:        *)
(* _init_local_backend, _call_model and the back ends it dispatches to,      *)
(* hardware_guardrail).  Instances loaded into this process are called from  *)
(* the event loop's thread pool: an instance is not thread-safe, so a thread *)
(* checks one out of a queue.Queue (or takes the lock of the only one) and   *)
(* puts it back.  Without instances the model is a server, called over HTTP  *)
(* in one of three request formats under a semaphore.                        *)
(*                                                                           *)
(* A caller may be cancelled (JobQueue.cancel cancels the task of the        *)
(* request): a future that has not started is dropped, a running thread is   *)
(* not interrupted.                                                          *)
(***************************************************************************)
EXTENDS Naturals, Sequences, FiniteSets

CONSTANTS Callers,        \* the calls of _call_model under way
          PoolSize,       \* local_pool_size
          Threads,        \* threads of the default executor
          MaxConcurrent,  \* max_concurrent: permits of the semaphore
          Transports      \* specialist_transport

VARIABLES
  transport,  \* the request format of the server
  loaded,     \* number of instances in this process (0: HTTP)
  free,       \* the instances that are not checked out, oldest first
  at,         \* where each call is
  held,       \* the instance a call's thread has checked out (0: none)
  told        \* what each call's awaiter has been told

llmVars == <<transport, loaded, free, at, held, told>>

\* run_in_executor() threads that are busy, a cancelled caller's included.
Busy == {c \in Callers : at[c] \in {"thread", "model"}}

Posting == {c \in Callers : at[c] = "posting"}

\* What _init_local_backend can leave behind of `size` requested instances: none
\* when the guardrail refuses, a binding is missing, every load fails or the
\* grammar does not compile; else those that loaded.
LoadedInstances(size) == 0..size

Init ==
  /\ transport \in Transports
  /\ \E size \in 0..PoolSize : loaded \in LoadedInstances(size)
  /\ free = [i \in 1..loaded |-> i]
  /\ at = [c \in Callers |-> "idle"]
  /\ held = [c \in Callers |-> 0]
  /\ told = [c \in Callers |-> "nothing"]

\* What the awaiter hears; one that was cancelled hears nothing more.
Tell(c, what) ==
  told' = IF told[c] = "cancelled" THEN told ELSE [told EXCEPT ![c] = what]

\* _call_model(): in-process when there are instances, else over HTTP.
CallModel(c) ==
  /\ at[c] = "idle"
  /\ at' = [at EXCEPT ![c] = IF loaded > 0 THEN "submitted" ELSE "waiting"]
  /\ UNCHANGED <<transport, loaded, free, held, told>>

-------------------------------------------------------------------------------
\* _call_model_inprocess().

ThreadStarts(c) ==
  /\ at[c] = "submitted"
  /\ Cardinality(Busy) < Threads
  /\ at' = [at EXCEPT ![c] = "thread"]
  /\ UNCHANGED <<transport, loaded, free, held, told>>

\* The thread gets an instance: _local_llm_pool.get(block=True), or _local_lock.
CheckOut(c) ==
  /\ at[c] = "thread"
  /\ free # <<>>
  /\ held' = [held EXCEPT ![c] = Head(free)]
  /\ free' = Tail(free)
  /\ at' = [at EXCEPT ![c] = "model"]
  /\ UNCHANGED <<transport, loaded, told>>

Slip_BackOnSuccess(c, reply) == IF reply = "text" THEN Append(free, held[c]) ELSE free

\* The finally block puts the instance back whatever the model did.
PutBack(c, reply) == Append(free, held[c])

\* _parse_inprocess_response(): everything but text becomes a RuntimeError.
ModelReturns(c) ==
  /\ at[c] = "model"
  /\ \E reply \in {"text", "nothing", "failure"} :
       /\ free' = PutBack(c, reply)
       /\ Tell(c, IF reply = "text" THEN "text" ELSE "raised")
  /\ held' = [held EXCEPT ![c] = 0]
  /\ at' = [at EXCEPT ![c] = "over"]
  /\ UNCHANGED <<transport, loaded>>

-------------------------------------------------------------------------------
\* _call_model_http(), _call_model_chat().

Permit(c) ==
  /\ at[c] = "waiting"
  /\ Cardinality(Posting) < MaxConcurrent
  /\ at' = [at EXCEPT ![c] = "posting"]
  /\ UNCHANGED <<transport, loaded, free, held, told>>

\* What is read out of a reply.  A forced tool call counts as text even when its
\* input is empty; text in spite of it is accepted.
ReadPost(reply, structured) ==
  IF reply = "text" \/ (reply = "tool call" /\ transport = "anthropic" /\ structured)
  THEN "text" ELSE "raised"

PostEnds(c) ==
  /\ at[c] = "posting"
  /\ \E reply \in {"text", "tool call", "nothing", "failure"}, structured \in BOOLEAN :
       Tell(c, ReadPost(reply, structured))
  /\ at' = [at EXCEPT ![c] = "over"]
  /\ UNCHANGED <<transport, loaded, free, held>>

-------------------------------------------------------------------------------
\* The awaiting task is cancelled.
Cancel(c) ==
  /\ at[c] # "idle" /\ told[c] = "nothing"
  /\ told' = [told EXCEPT ![c] = "cancelled"]
  /\ at' = [at EXCEPT ![c] = IF c \in Busy THEN at[c] ELSE "over"]
  /\ UNCHANGED <<transport, loaded, free, held>>

CallStep(c) ==
  ThreadStarts(c) \/ CheckOut(c) \/ ModelReturns(c) \/ Permit(c) \/ PostEnds(c)

Next == \E c \in Callers : CallModel(c) \/ CallStep(c) \/ Cancel(c)

Spec == Init /\ [][Next]_llmVars

-------------------------------------------------------------------------------
TypeOK ==
  /\ transport \in Transports
  /\ loaded \in 0..PoolSize
  /\ free \in Seq(1..loaded)
  /\ at \in [Callers -> {"idle", "submitted", "thread", "model", "waiting", "posting", "over"}]
  /\ held \in [Callers -> 0..loaded]
  /\ told \in [Callers -> {"nothing", "text", "raised", "cancelled"}]

\* No two threads run the same instance, and none is lost: every instance that
\* was loaded is in the queue or with the one thread that has it, whatever the
\* model replies and whoever is cancelled ("a single Llama is not thread-safe",
\* _call_model_inprocess).
InstancesKept ==
  /\ TypeOK
  /\ \A i \in 1..loaded : \/ \E n \in DOMAIN free : free[n] = i
                          \/ \E c \in Callers : held[c] = i
  /\ \A m, n \in DOMAIN free : free[m] = free[n] => m = n
  /\ \A c, d \in Callers : held[c] = held[d] /\ held[c] # 0 => c = d
  /\ \A n \in DOMAIN free, c \in Callers : free[n] # held[c]

\* Again and again every call that was made is over: it is answered, raises or
\* is cancelled (_call_model "Raises RuntimeError on any failure"), and no
\* thread waits for an instance that does not come back.
CallsEnd == []<>(\A c \in Callers : at[c] \in {"idle", "over"})
===============================================================================
