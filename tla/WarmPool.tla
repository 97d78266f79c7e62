------------------------------- MODULE WarmPool -------------------------------
(***************************************************************************)
(* The pool of warm Docker containers, sandbox/warm_pool_executor.py:       *)
(* start(), execute(), _recycle_container() and cleanup(), called by        *)
(* coroutines of one event loop.  What lies between two awaits is a step.   *)
(*                                                                          *)
(* _containers is a list of dictionaries {name, uses}.  A call of execute() *)
(* keeps the DICTIONARY it picked and the INDEX of its semaphore, both      *)
(* chosen before it waits; recycling replaces the dictionary, and removes   *)
(* the entry when Docker fails twice.  list.index() compares dictionaries   *)
(* by value.                                                                *)
(*                                                                          *)
(* A call may be cancelled at any await (JobQueue.cancel() cancels the job  *)
(* that gathers the candidates).  No handler of execute() catches that, and *)
(* finally releases the semaphore.                                          *)
(* What docker exec has started goes on in the container, and a command on  *)
(* its way to Docker may be carried out later.                              *)
(*                                                                          *)
(* The definitions named Slip_... are plausible slips in the definition     *)
(* that follows them; with each of them one of the properties must fail.    *)
(***************************************************************************)
EXTENDS Naturals, Sequences, FiniteSets

CONSTANTS Execs,       \* the calls of execute(), numbered in the order they are made
          Warmups,     \* the calls of start() by the orchestrator
          MaxUses,     \* max_uses_per_container
          Setups       \* pools and their use: see Setup

\* poolSize is pool_size; startFirst: callers wait for the orchestrator's start();
\* the others are bounds: calls of execute(), failing docker run commands,
\* executions that time out, calls of cleanup(), calls that are cancelled.
Setup == [poolSize : Nat \ {0}, startFirst : BOOLEAN, calls : Nat, faults : Nat,
          timeouts : Nat, cleanups : Nat, cancels : Nat]

ASSUME WarmPoolAssumption ==
  /\ MaxUses \in Nat \ {0}
  /\ Setups \subseteq Setup
  /\ Execs \subseteq Nat /\ Execs \cap Warmups = {}

Callers == Execs \cup Warmups

VARIABLES
  setup,     \* one of the setups
  pool,      \* _containers: a list of references into dicts
  dicts,     \* the dictionaries made so far
  nextIdx,   \* _next_idx
  started,   \* _started
  locked,    \* _locks_initialized
  line,      \* _container_locks: holder first, then the waiters in order
  alive,     \* the containers Docker runs
  suspect,   \* history: containers in which an execution timed out
  pc,        \* where each call is
  startAt,   \* the container a call of start() is at
  at,        \* the dictionary a call of execute() picked (0: none)
  lock,      \* the semaphore it picked (0: none)
  slot,      \* the index it is recycling
  outcome,   \* how its script ended
  result,    \* what it returned
  hit,       \* history: the calls whose candidate was killed, or its container
             \* gone, by someone else's doing
  stray,     \* the cancelled calls whose candidate still runs
  late,      \* the Docker commands of cancelled calls that may still be carried out
  overlapped, \* history: have two calls been in flight at a time?
  cleaning,  \* position of cleanup()'s loop (0: not running)
  faults, timeouts, cleanups, cancels

listVars == <<pool, dicts, nextIdx, started, locked, line>>
dockerVars == <<alive, suspect, hit, stray>>
callVars == <<startAt, at, lock, slot, outcome, result>>
boundVars == <<faults, timeouts, cleanups>>
cancelVars == <<late, cancels>>
vars == <<setup, listVars, dockerVars, overlapped, pc, callVars, cleaning, boundVars,
          cancelVars>>

Names == 1..setup.poolSize
Dict == [name : Names, uses : Nat]

\* A Docker command on its way, and the container it names.
Command == [cmd : {"kill", "rm", "run"}, name : Names]

\* How a call ends: it returns, is withdrawn from its waiting line, or is
\* cancelled at work.
Ended == {"returned", "withdrawn", "cancelled"}

InFlight == {e \in Execs : pc[e] # "idle" /\ pc[e] \notin Ended}
NameOf(e) == dicts[at[e]].name
Inside(n) == {e \in Execs : pc[e] = "running" /\ NameOf(e) = n}

Slip_TwoPermits(e) ==
  lock[e] # 0 => \E k \in 1..2 : k \in DOMAIN line[lock[e]] /\ line[lock[e]][k] = e

\* sem.acquire() has returned: the first in line holds the semaphore.
Granted(e) == lock[e] # 0 => Head(line[lock[e]]) = e

\* sem.release() in the finally block.
Released(e) == IF lock[e] = 0 THEN line ELSE [line EXCEPT ![lock[e]] = Tail(@)]

DropAt(s, k) == SubSeq(s, 1, k - 1) \o SubSeq(s, k + 1, Len(s))

\* Every process in the container is killed, whoever started it.
Emptied(n) ==
  /\ hit' = hit \cup Inside(n)
  /\ stray' = {e \in stray : NameOf(e) # n}

\* The kill loop of _kill_process_group().
Killed(n) == Emptied(n) /\ UNCHANGED <<alive, suspect>>

\* docker rm -f.
Removed(n) == Emptied(n) /\ alive' = alive \ {n} /\ UNCHANGED suspect

\* docker run gives an empty container of that name.
Created(n) ==
  /\ alive' = alive \cup {n}
  /\ suspect' = suspect \ {n}
  /\ UNCHANGED <<hit, stray>>

Fault == faults < setup.faults /\ faults' = faults + 1

\* docker run fails when the name is taken, and for reasons of its own.
RunRefused(n) == \/ n \in alive /\ UNCHANGED faults
                 \/ n \notin alive /\ Fault

-------------------------------------------------------------------------------
Init ==
  /\ setup \in Setups
  /\ pool = <<>> /\ dicts = <<>> /\ nextIdx = 0
  /\ started = FALSE /\ locked = FALSE /\ line = <<>>
  /\ alive = {}
  /\ suspect = {} /\ hit = {} /\ overlapped = FALSE
  /\ stray = {} /\ late = {}
  /\ pc = [c \in Callers |-> "idle"]
  /\ startAt = [c \in Callers |-> 1]
  /\ at = [e \in Execs |-> 0]
  /\ lock = [e \in Execs |-> 0]
  /\ slot = [e \in Execs |-> 0]
  /\ outcome = [e \in Execs |-> "none"]
  /\ result = [e \in Execs |-> "none"]
  /\ cleaning = 0
  /\ faults = 0 /\ timeouts = 0 /\ cleanups = 0 /\ cancels = 0

\* _get_container() and the choice of the semaphore, in one step with what
\* precedes them.
Pick(e) ==
  LET i == 1 + (nextIdx % Len(pool)) IN
  /\ nextIdx' = nextIdx + 1
  /\ at' = [at EXCEPT ![e] = pool[i]]
  /\ IF locked' /\ i <= Len(line)
     THEN /\ lock' = [lock EXCEPT ![e] = i]
          /\ line' = [line EXCEPT ![i] = Append(@, e)]
     ELSE UNCHANGED <<lock, line>>
  /\ pc' = [pc EXCEPT ![e] = "queued"]

Enter(e) ==
  /\ pc[e] = "idle"
  /\ \A d \in Execs : d < e => pc[d] # "idle"
  /\ e <= setup.calls
  /\ setup.startFirst => started
  /\ overlapped' = (overlapped \/ InFlight # {})
  /\ UNCHANGED setup

\* execute() on a pool that has containers.
ExecuteWarm(e) ==
  /\ Enter(e)
  /\ pool # <<>>
  /\ UNCHANGED <<pool, dicts, started, locked, dockerVars, startAt, slot,
                 outcome, result, cleaning, boundVars, cancelVars>>
  /\ Pick(e)

NoContainer(e) ==
  /\ pc' = [pc EXCEPT ![e] = "returned"]
  /\ result' = [result EXCEPT ![e] = "none available"]

\* execute() on an empty pool calls start(), which returns at once when the
\* pool counts as started.
ExecuteCold(e) ==
  /\ Enter(e)
  /\ pool = <<>>
  /\ IF started THEN NoContainer(e)
     ELSE pc' = [pc EXCEPT ![e] = "removing old"] /\ UNCHANGED result
  /\ UNCHANGED <<listVars, dockerVars, startAt, at, lock, slot, outcome,
                 cleaning, boundVars, cancelVars>>

\* The orchestrator starts the pool when it finds it not started.
Warmup(c) ==
  /\ pc[c] = "idle"
  /\ ~started
  /\ pc' = [pc EXCEPT ![c] = "removing old"]
  /\ UNCHANGED <<listVars, dockerVars, callVars, cleaning, overlapped, setup, boundVars, cancelVars>>

\* start(), for each name: docker rm -f ...
StartRemoves(c) ==
  /\ pc[c] = "removing old"
  /\ Removed(startAt[c])
  /\ pc' = [pc EXCEPT ![c] = "starting"]
  /\ UNCHANGED <<listVars, callVars, cleaning, overlapped, setup, boundVars, cancelVars>>

Advance(c) ==
  /\ startAt' = [startAt EXCEPT ![c] = @ + 1]
  /\ pc' = [pc EXCEPT ![c] = IF startAt[c] < setup.poolSize THEN "removing old" ELSE "started"]

\* ... then docker run, a new entry and a new semaphore.
StartRuns(c) ==
  /\ pc[c] = "starting"
  /\ LET n == startAt[c] IN
     \/ /\ n \notin alive
        /\ Created(n)
        /\ dicts' = Append(dicts, [name |-> n, uses |-> 0])
        /\ pool' = Append(pool, Len(dicts) + 1)
        /\ line' = Append(line, <<>>)
        /\ UNCHANGED faults
     \/ RunRefused(n) /\ UNCHANGED <<dockerVars, dicts, pool, line>>
  /\ Advance(c)
  /\ UNCHANGED <<nextIdx, started, locked, at, lock, slot, outcome, result,
                 cleaning, overlapped, setup, timeouts, cleanups, cancelVars>>

\* The end of start() ...
StartReturns(c) ==
  /\ pc[c] = "started"
  /\ started' = (started \/ pool # <<>>)
  /\ locked' = (locked \/ pool # <<>>)
  /\ UNCHANGED <<pool, dicts, dockerVars, startAt, slot, outcome, cleaning, overlapped, setup,
                 boundVars, cancelVars>>

WarmupReturns(c) ==
  /\ StartReturns(c)
  /\ pc' = [pc EXCEPT ![c] = "returned"]
  /\ UNCHANGED <<nextIdx, line, at, lock, result>>

\* ... after which execute() picks from the pool as it is now.
PickAfterStart(e) ==
  /\ StartReturns(e)
  /\ \/ pool # <<>> /\ Pick(e) /\ UNCHANGED result
     \/ pool = <<>> /\ NoContainer(e) /\ UNCHANGED <<nextIdx, at, lock, line>>

\* The semaphore is held: clean /tmp and run the candidate with docker exec.
Begin(e) ==
  /\ pc[e] = "queued"
  /\ Granted(e)
  /\ pc' = [pc EXCEPT ![e] = "running"]
  /\ hit' = IF NameOf(e) \in alive THEN hit ELSE hit \cup {e}
  /\ UNCHANGED <<listVars, alive, suspect, stray, callVars, cleaning, overlapped, setup, boundVars, cancelVars>>

\* The candidate exits, or is killed at its timeout.
End(e) ==
  /\ pc[e] = "running"
  /\ \/ /\ outcome' = [outcome EXCEPT ![e] = "exit"]
        /\ UNCHANGED <<timeouts, suspect>>
     \/ /\ timeouts < setup.timeouts
        /\ timeouts' = timeouts + 1
        /\ outcome' = [outcome EXCEPT ![e] = "timeout"]
        /\ suspect' = suspect \cup {NameOf(e)}
  /\ pc' = [pc EXCEPT ![e] = "killing"]
  /\ UNCHANGED <<listVars, alive, hit, stray, startAt, at, lock, slot, result,
                 cleaning, overlapped, setup, faults, cleanups, cancelVars>>

Slip_ReleasedOnSuccess(e, r) ==
  /\ result' = [result EXCEPT ![e] = r]
  /\ line' = IF r = "failed" THEN line ELSE Released(e)
  /\ pc' = [pc EXCEPT ![e] = "returned"]

Return(e, r) ==
  /\ result' = [result EXCEPT ![e] = r]
  /\ line' = Released(e)
  /\ pc' = [pc EXCEPT ![e] = "returned"]

Normal(e) == IF outcome[e] = "timeout" THEN "timeout" ELSE "exit"

Used(e) == IF outcome[e] = "exit"
           THEN [dicts EXCEPT ![at[e]].uses = @ + 1] ELSE dicts

Slip_UsesOnly(e) == outcome[e] = "exit" /\ dicts[at[e]].uses + 1 >= MaxUses

MustRecycle(e) == outcome[e] = "timeout" \/ dicts[at[e]].uses + 1 >= MaxUses

\* list.index(container): the entries with the same name and uses.
Slip_FoundByOldCount(e) == {k \in DOMAIN pool : dicts[pool[k]] = Used(e)[at[e]]}
Found(e) == {k \in DOMAIN pool : Used(e)[pool[k]] = Used(e)[at[e]]}

Slip_ReleasedBeforeRecycling(e) ==
  /\ pc[e] = "killing"
  /\ Killed(NameOf(e))
  /\ dicts' = Used(e)
  /\ line' = Released(e)
  /\ lock' = [lock EXCEPT ![e] = 0]
  /\ \/ /\ ~MustRecycle(e)
        /\ result' = [result EXCEPT ![e] = Normal(e)]
        /\ pc' = [pc EXCEPT ![e] = "returned"]
        /\ UNCHANGED slot
     \/ /\ MustRecycle(e) /\ Found(e) # {}
        /\ slot' = [slot EXCEPT ![e] = CHOOSE k \in Found(e) : \A m \in Found(e) : k <= m]
        /\ pc' = [pc EXCEPT ![e] = "removing"]
        /\ UNCHANGED result
  /\ UNCHANGED <<pool, nextIdx, started, locked, startAt, at,
                 outcome, cleaning, overlapped, setup, boundVars, cancelVars>>

\* What is left of the candidate has been killed.  When the container is due,
\* it is looked up by value; a stale dictionary is not found, and the
\* ValueError is reported as a failure of the execution.
AfterKill(e) ==
  /\ pc[e] = "killing"
  /\ Killed(NameOf(e))
  /\ dicts' = Used(e)
  /\ \/ /\ ~MustRecycle(e)
        /\ Return(e, Normal(e))
        /\ UNCHANGED slot
     \/ /\ MustRecycle(e) /\ Found(e) = {}
        /\ Return(e, "failed")
        /\ UNCHANGED slot
     \/ /\ MustRecycle(e) /\ Found(e) # {}
        /\ slot' = [slot EXCEPT ![e] = CHOOSE k \in Found(e) : \A m \in Found(e) : k <= m]
        /\ pc' = [pc EXCEPT ![e] = "removing"]
        /\ UNCHANGED <<line, result>>
  /\ UNCHANGED <<pool, nextIdx, started, locked, startAt, at, lock,
                 outcome, cleaning, overlapped, setup, boundVars, cancelVars>>

\* _recycle_container(): docker rm -f ...
RecycleRemoves(e) ==
  /\ pc[e] = "removing"
  /\ Removed(NameOf(e))
  /\ pc' = [pc EXCEPT ![e] = "rerun"]
  /\ UNCHANGED <<listVars, callVars, cleaning, overlapped, setup, boundVars, cancelVars>>

\* ... docker run; the new dictionary goes where the old one was found, which
\* is an IndexError when the list has become shorter.
RecycleRuns(e) ==
  /\ pc[e] \in {"rerun", "rerun again"}
  /\ NameOf(e) \notin alive
  /\ Created(NameOf(e))
  /\ dicts' = Append(dicts, [name |-> NameOf(e), uses |-> 0])
  /\ IF slot[e] \in DOMAIN pool
     THEN pool' = [pool EXCEPT ![slot[e]] = Len(dicts) + 1] /\ Return(e, Normal(e))
     ELSE UNCHANGED pool /\ Return(e, "failed")
  /\ UNCHANGED <<nextIdx, started, locked, startAt, at, lock, slot, outcome,
                 cleaning, overlapped, setup, boundVars, cancelVars>>

RecycleRetries(e) ==
  /\ pc[e] = "rerun"
  /\ RunRefused(NameOf(e))
  /\ pc' = [pc EXCEPT ![e] = "rerun again"]
  /\ UNCHANGED <<listVars, dockerVars, callVars, cleaning, overlapped, setup, timeouts, cleanups, cancelVars>>

\* ... and when that fails twice, the entry leaves the list (its semaphore
\* stays).
RecycleGivesUp(e) ==
  /\ pc[e] = "rerun again"
  /\ RunRefused(NameOf(e))
  /\ IF slot[e] \in DOMAIN pool
     THEN pool' = DropAt(pool, slot[e]) /\ Return(e, Normal(e))
     ELSE UNCHANGED pool /\ Return(e, "failed")
  /\ UNCHANGED <<dicts, nextIdx, started, locked, dockerVars, startAt, at, lock,
                 slot, outcome, cleaning, overlapped, setup, timeouts, cleanups, cancelVars>>

\* cleanup(): remove one container after the other, then forget them; the
\* semaphores, and the calls in flight, stay.
CleanupBegins ==
  /\ cleaning = 0
  /\ cleanups < setup.cleanups
  /\ cleanups' = cleanups + 1
  /\ cleaning' = 1
  /\ UNCHANGED <<listVars, dockerVars, pc, callVars, overlapped, setup, faults, timeouts, cancelVars>>

CleanupRemoves ==
  /\ cleaning \in DOMAIN pool
  /\ Removed(dicts[pool[cleaning]].name)
  /\ cleaning' = cleaning + 1
  /\ UNCHANGED <<listVars, pc, callVars, overlapped, setup, boundVars, cancelVars>>

CleanupEnds ==
  /\ cleaning > Len(pool)
  /\ cleaning' = 0
  /\ pool' = <<>>
  /\ started' = FALSE
  /\ UNCHANGED <<dicts, nextIdx, locked, line, dockerVars, pc, callVars,
                 overlapped, setup, boundVars, cancelVars>>

\* A waiter is cancelled: it leaves the line, wherever it stands.
Leaves(e) ==
  \E m \in DOMAIN line[lock[e]] :
    /\ line[lock[e]][m] = e
    /\ line' = [line EXCEPT ![lock[e]] = DropAt(@, m)]

Cancellation == cancels < setup.cancels /\ cancels' = cancels + 1

CancelQueued(e) ==
  /\ pc[e] = "queued"
  /\ lock[e] # 0
  /\ Cancellation
  /\ Leaves(e)
  /\ pc' = [pc EXCEPT ![e] = "withdrawn"]
  /\ UNCHANGED <<pool, dicts, nextIdx, started, locked, dockerVars, callVars, cleaning,
                 overlapped, setup, boundVars, late>>

\* The command a call waits for: it may have been sent or not.
Sent(c, n) ==
  late' = late \cup
    {[cmd |-> IF pc[c] = "killing" THEN "kill"
              ELSE IF pc[c] \in {"removing old", "removing"} THEN "rm" ELSE "run",
      name |-> n]}

\* A call that has its container is cancelled: the semaphore is released, and
\* that is all.  Its candidate goes on, unless it has not begun (/tmp is being
\* cleaned) or is over (a timeout ends only the client of docker exec); what was
\* left to do, to count the use and to replace the container, is not done.
CancelHolding(e) ==
  /\ pc[e] \in {"running", "killing", "removing", "rerun", "rerun again"}
  /\ Cancellation
  /\ line' = Released(e)
  /\ \/ UNCHANGED stray
     \/ /\ pc[e] = "running" \/ (pc[e] = "killing" /\ outcome[e] = "timeout")
        /\ stray' = stray \cup {e}
  /\ IF pc[e] = "running" THEN UNCHANGED late ELSE Sent(e, NameOf(e))
  /\ pc' = [pc EXCEPT ![e] = "cancelled"]
  /\ UNCHANGED <<pool, dicts, nextIdx, started, locked, alive, suspect, hit, callVars,
                 cleaning, overlapped, setup, boundVars>>

\* start() is cancelled between two containers: those it has started stay
\* listed, and the pool does not count as started.
CancelStart(c) ==
  /\ pc[c] \in {"removing old", "starting"}
  /\ Cancellation
  /\ Sent(c, startAt[c])
  /\ pc' = [pc EXCEPT ![c] = "cancelled"]
  /\ UNCHANGED <<listVars, dockerVars, callVars, cleaning, overlapped, setup, boundVars>>

\* The candidate of a cancelled call ends by itself; nothing times it out.
StrayEnds(e) ==
  /\ e \in stray
  /\ stray' = stray \ {e}
  /\ UNCHANGED <<listVars, alive, suspect, hit, pc, callVars, cleaning, overlapped, setup,
                 boundVars, cancelVars>>

\* Docker carries out the command of a cancelled call after all, or never does.
LateCommand(k) ==
  /\ late' = late \ {k}
  /\ \/ UNCHANGED dockerVars
     \/ k.cmd = "kill" /\ Killed(k.name)
     \/ k.cmd = "rm" /\ Removed(k.name)
     \/ k.cmd = "run" /\ k.name \notin alive /\ Created(k.name)
  /\ UNCHANGED <<listVars, pc, callVars, cleaning, overlapped, setup, boundVars, cancels>>

StartStep(c) == \/ StartRemoves(c) \/ StartRuns(c)
                \/ c \in Warmups /\ WarmupReturns(c)

ExecStep(e) ==
  \/ PickAfterStart(e) \/ Begin(e) \/ End(e) \/ AfterKill(e)
  \/ RecycleRemoves(e) \/ RecycleRuns(e) \/ RecycleRetries(e) \/ RecycleGivesUp(e)

Next ==
  \/ \E e \in Execs : ExecuteWarm(e) \/ ExecuteCold(e) \/ ExecStep(e)
  \/ \E c \in Warmups : Warmup(c)
  \/ \E c \in Callers : StartStep(c) \/ CancelStart(c)
  \/ \E e \in Execs : CancelQueued(e) \/ CancelHolding(e) \/ StrayEnds(e)
  \/ \E k \in late : LateCommand(k)
  \/ CleanupBegins \/ CleanupRemoves \/ CleanupEnds

Spec == Init /\ [][Next]_vars

\* Docker commands end (each has a timeout) and the event loop goes on.
Fairness ==
  /\ \A e \in Execs : WF_vars(ExecStep(e))
  /\ \A c \in Callers : WF_vars(StartStep(c))

FairSpec == Spec /\ Fairness

-------------------------------------------------------------------------------
(***************************************************************************)
(* Properties.                                                              *)
(***************************************************************************)

\* Type invariant.
TypeOK ==
  /\ dicts \in Seq(Dict)
  /\ pool \in Seq(DOMAIN dicts)
  /\ nextIdx \in Nat
  /\ started \in BOOLEAN /\ locked \in BOOLEAN
  /\ line \in Seq(Seq(Execs))
  /\ alive \subseteq Names /\ suspect \subseteq Names
  /\ hit \subseteq Execs /\ stray \subseteq Execs
  /\ late \subseteq Command /\ cancels \in Nat
  /\ overlapped \in BOOLEAN
  /\ startAt \in [Callers -> 1..(setup.poolSize + 1)]
  /\ at \in [Execs -> 0..Len(dicts)]
  /\ lock \in [Execs -> 0..Len(line)]
  /\ outcome \in [Execs -> {"none", "exit", "timeout"}]
  /\ result \in [Execs -> {"none", "exit", "timeout", "failed", "none available"}]

\* A call was cancelled while it had this container: its candidate may still
\* be in there, and a command of its own may still kill, remove or start it.
Abandoned(n) == \E e \in Execs : pc[e] = "cancelled" /\ at[e] # 0 /\ NameOf(e) = n

\* Docker has started every container it was asked for, and no entry has left
\* the list (_recycle_container() drops one it cannot restart, but leaves its
\* semaphore, so that the entries after it move to others' semaphores); the pool
\* was started once, before its first use, and start() was not cancelled (a
\* second start() removes the containers of the first, which candidates may be
\* in, and lists them again); it is not being cleaned up (cleanup() removes the
\* containers, whoever is in them).
Calm ==
  /\ faults = 0 /\ cleanups = 0
  /\ Len(pool) = Len(line)
  /\ setup.startFirst /\ \A c \in Warmups : pc[c] # "cancelled"

Occupants(n) == Inside(n) \cup {e \in stray : NameOf(e) = n}

\* "Each container gets at most 1 concurrent execution", while all is calm: of
\* the calls at work no two are in one container, and a candidate has company
\* only in a container that a cancelled call had (where the code does not keep
\* its promise: the semaphore is released, the candidate is not killed).
OneExecPerContainer ==
  Calm => \A n \in Names : /\ Cardinality(Inside(n)) <= 1
                           /\ Cardinality(Occupants(n)) <= 1 \/ Abandoned(n)

\* A candidate is not killed, nor its container removed or replaced, by another
\* call while it runs in it, while all is calm, unless by what a cancelled call
\* has left in its own container.
NotRemovedUnderfoot == Calm => \A e \in hit : Abandoned(NameOf(e))

\* A candidate that ran to its end in its container is not reported as a
\* failure of the sandbox ("docker exec failed"), as long as calls do not
\* overlap (a call that waits keeps a dictionary that may be replaced) and
\* cleanup() does not empty the list behind it.
CompletedIsReported ==
  ~overlapped /\ cleanups = 0 =>
    \A e \in Execs : result[e] = "failed" => outcome[e] # "exit" \/ e \in hit

\* A call was cancelled between its timeout and the replacement of this entry.
CutShort(x) ==
  \E e \in Execs : pc[e] = "cancelled" /\ outcome[e] = "timeout" /\ at[e] = x

\* After a timeout the container is replaced before the next candidate runs
\* in it ("A fresh container is safer than reusing one in an unknown state"),
\* as long as calls do not overlap and the pool was started once (two starts
\* list a container twice, and only one entry is replaced); but the call that
\* timed out must not be cancelled before it has done so, after which its entry
\* is used as it is until another timeout, or its number of uses, replaces it.
FreshAfterTimeout ==
  [][~overlapped' /\ setup.startFirst =>
     \A e \in Execs : pc[e] = "queued" /\ pc'[e] = "running" =>
       NameOf(e) \notin suspect \/ CutShort(at[e])]_vars

\* A semaphore is held only by a call that is still going to release it, so
\* the callers queued behind it get their turn, whoever of them is cancelled.
HeldByRunningCall ==
  \A k \in DOMAIN line : line[k] # <<>> => pc[Head(line[k])] \notin Ended

\* Candidates do not disturb each other: one at a time in a container, which
\* stays as long as it runs; its end is reported; the next one gets its turn.
ExecutionsUndisturbed ==
  /\ TypeOK
  /\ OneExecPerContainer
  /\ NotRemovedUnderfoot
  /\ CompletedIsReported
  /\ HeldByRunningCall

\* Every call of execute() returns, unless it is cancelled.
ExecutesReturn == \A e \in Execs : pc[e] # "idle" ~> pc[e] \in Ended
===============================================================================
