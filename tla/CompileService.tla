--------------------------- MODULE CompileService ---------------------------
(***************************************************************************)
(* Compiling in worker processes: CompileService::compile and acquire      *)
(* (src/src/spawn.rs), called by RenderService::compile (src/src/render.rs)*)
(* inside a CompileObservation (src/src/metrics.rs) and with the job's     *)
(* files in a temporary directory.                                         *)
(*                                                                         *)
(* A step is what a request does between two awaits, or a move of a worker *)
(* process.  A request may be dropped wherever it awaits; its worker then  *)
(* gets a SIGKILL that nobody waits for.  The semaphore is tokio's: fair,  *)
(* a released permit goes to the first in line, and a waiter dropped after *)
(* it was given a permit puts it back.                                     *)
(***************************************************************************)
EXTENDS Integers, FiniteSets, SequencesExt

CONSTANTS
  Requests,
  MaxConcurrent,    \* SpawnConfig.max_concurrent
  MaxOrphans        \* bound on killed workers nobody waits for

ASSUME LimitsAssumption ==
  IsFiniteSet(Requests) /\ MaxConcurrent \in Nat /\ MaxOrphans \in Nat

VARIABLES
  permits, queue,   \* the semaphore: free permits and who waits for one
  pc, outcome,      \* each request: where it is and what it ended with
  child,            \* the worker of each request
  orphans,          \* killed workers whose request is gone, still running
  workspaces,       \* requests whose temporary directory exists
  inFlight          \* the gauge compiles_in_flight

semVars == <<permits, queue>>
vars == <<semVars, pc, outcome, child, orphans, workspaces, inFlight>>

Running == {p \in Requests : child[p] \in {"running", "killed"}}
Holding == {"granted", "spawn", "run", "kill"}
Awaiting == {"queued", "granted", "run", "kill"}

Init ==
  /\ permits = MaxConcurrent /\ queue = <<>>
  /\ pc = [p \in Requests |-> "idle"] /\ outcome = [p \in Requests |-> "none"]
  /\ child = [p \in Requests |-> "none"] /\ orphans = 0
  /\ workspaces = {} /\ inFlight = 0

-----------------------------------------------------------------------------
(* A request that holds a permit ends: the next in line gets it.  The      *)
(* variant returns the permit to the pool as well.                         *)
ReleaseTwice(p) ==
  /\ permits' = permits + 1
  /\ IF queue = <<>>
     THEN pc' = [pc EXCEPT ![p] = "idle"] /\ UNCHANGED queue
     ELSE /\ pc' = [pc EXCEPT ![p] = "idle", ![Head(queue)] = "granted"]
          /\ queue' = Tail(queue)
Release(p) ==
  IF queue = <<>>
  THEN pc' = [pc EXCEPT ![p] = "idle"] /\ permits' = permits + 1 /\ UNCHANGED queue
  ELSE /\ pc' = [pc EXCEPT ![p] = "idle", ![Head(queue)] = "granted"]
       /\ queue' = Tail(queue) /\ UNCHANGED permits

(* A request that waits in line ends.                                      *)
Leave(p) ==
  /\ pc' = [pc EXCEPT ![p] = "idle"]
  /\ \E i \in DOMAIN queue : queue[i] = p /\ queue' = RemoveAt(queue, i)
  /\ UNCHANGED permits

(* What every end of RenderService::compile does: CompileObservation       *)
(* counts it down, in finish or in drop, and the temporary directory goes. *)
End(p, r) ==
  /\ outcome' = [outcome EXCEPT ![p] = r]
  /\ inFlight' = inFlight - 1
  /\ workspaces' = workspaces \ {p}

(* Dropping a Child that was not waited for (kill_on_drop).                *)
DropChild(p) ==
  /\ child' = [child EXCEPT ![p] = "none"]
  /\ IF p \in Running
     THEN orphans < MaxOrphans /\ orphans' = orphans + 1 ELSE UNCHANGED orphans

-----------------------------------------------------------------------------
(* RenderService::compile: the observation starts before the document is   *)
(* assembled and the job is staged, long before a permit is asked for.     *)
Start(p) ==
  /\ pc[p] = "idle" /\ pc' = [pc EXCEPT ![p] = "assemble"]
  /\ inFlight' = inFlight + 1 /\ outcome' = [outcome EXCEPT ![p] = "none"]
  /\ UNCHANGED <<semVars, child, orphans, workspaces>>

AssembleFails(p) ==
  /\ pc[p] = "assemble" /\ pc' = [pc EXCEPT ![p] = "idle"] /\ End(p, "invalid")
  /\ UNCHANGED <<semVars, child, orphans>>

Stage(p) ==
  /\ pc[p] = "assemble" /\ pc' = [pc EXCEPT ![p] = "acquire"]
  /\ workspaces' = workspaces \cup {p}
  /\ UNCHANGED <<semVars, outcome, child, orphans, inFlight>>

(* acquire: a permit at once, or a place in line.                          *)
Acquire(p) ==
  /\ pc[p] = "acquire"
  /\ IF permits > 0
     THEN /\ permits' = permits - 1 /\ pc' = [pc EXCEPT ![p] = "spawn"]
          /\ UNCHANGED queue
     ELSE /\ queue' = Append(queue, p) /\ pc' = [pc EXCEPT ![p] = "queued"]
          /\ UNCHANGED permits
  /\ UNCHANGED <<outcome, child, orphans, workspaces, inFlight>>

(* queue_timeout: timeout polls the acquisition before its own timer, so   *)
(* a request that has been given its permit no longer times out.           *)
QueueTimeout(p) ==
  /\ pc[p] = "queued" /\ Leave(p) /\ End(p, "overloaded")
  /\ UNCHANGED <<child, orphans>>

Granted(p) ==
  /\ pc[p] = "granted" /\ pc' = [pc EXCEPT ![p] = "spawn"]
  /\ UNCHANGED <<semVars, outcome, child, orphans, workspaces, inFlight>>

Spawn(p) ==
  /\ pc[p] = "spawn" /\ pc' = [pc EXCEPT ![p] = "run"]
  /\ child' = [child EXCEPT ![p] = "running"]
  /\ UNCHANGED <<semVars, outcome, orphans, workspaces, inFlight>>

SpawnFails(p) ==
  /\ pc[p] = "spawn" /\ Release(p) /\ End(p, "io")
  /\ UNCHANGED <<child, orphans>>

(* The worker ends by itself: with a result frame or without one.          *)
WorkerEnds(p) ==
  /\ child[p] = "running"
  /\ \E end \in {"answered", "died"} : child' = [child EXCEPT ![p] = end]
  /\ UNCHANGED <<semVars, pc, outcome, orphans, workspaces, inFlight>>

(* The pipes are at their end and the worker has been waited for.  A frame *)
(* holds a result, a failed document included; its absence is Died.        *)
Collect(p) ==
  /\ pc[p] = "run" /\ child[p] \in {"answered", "died"}
  /\ Release(p)
  /\ End(p, IF child[p] = "answered" THEN "result" ELSE "died")
  /\ child' = [child EXCEPT ![p] = "none"]
  /\ UNCHANGED orphans

(* The frame cannot be written, a pipe or the wait fails: the error        *)
(* returns without waiting for the worker.                                 *)
IoFails(p) ==
  /\ pc[p] = "run" /\ Release(p) /\ End(p, "io") /\ DropChild(p)

(* A variant that returns as soon as the signal has been sent.             *)
DeadlineUnreaped(p) ==
  /\ pc[p] = "run" /\ Release(p) /\ End(p, "timeout")
  /\ child' = [child EXCEPT ![p] = IF @ = "running" THEN "killed" ELSE @]
  /\ UNCHANGED orphans

(* A variant that waits for the worker without having killed it.           *)
DeadlineUnkilled(p) ==
  /\ pc[p] = "run" /\ pc' = [pc EXCEPT ![p] = "kill"]
  /\ UNCHANGED <<semVars, outcome, child, orphans, workspaces, inFlight>>

(* The deadline passes: start_kill, then wait with the permit still held.  *)
Deadline(p) ==
  /\ pc[p] = "run" /\ pc' = [pc EXCEPT ![p] = "kill"]
  /\ child' = [child EXCEPT ![p] = IF @ = "running" THEN "killed" ELSE @]
  /\ UNCHANGED <<semVars, outcome, orphans, workspaces, inFlight>>

Reap(p) ==
  /\ pc[p] = "kill" /\ p \notin Running
  /\ Release(p) /\ End(p, "timeout")
  /\ child' = [child EXCEPT ![p] = "none"]
  /\ UNCHANGED orphans

(* A variant that takes the permit of a waiter dropped after it was given  *)
(* one for lost.                                                           *)
CancelLosingGrant(p) ==
  /\ pc[p] \in Awaiting /\ End(p, "cancelled") /\ DropChild(p)
  /\ \/ pc[p] \in Holding \ {"granted"} /\ Release(p)
     \/ pc[p] = "queued" /\ Leave(p)
     \/ pc[p] = "granted" /\ pc' = [pc EXCEPT ![p] = "idle"] /\ UNCHANGED semVars

(* A variant whose observation does not count down when it is dropped.     *)
CancelKeepingGauge(p) ==
  /\ pc[p] \in Awaiting /\ DropChild(p)
  /\ IF pc[p] = "queued" THEN Leave(p) ELSE Release(p)
  /\ outcome' = [outcome EXCEPT ![p] = "cancelled"]
  /\ workspaces' = workspaces \ {p} /\ UNCHANGED inFlight

(* The client hangs up, and the future is dropped where it awaits: in line *)
(* for a permit, on the pipes, or for a killed worker.                     *)
Cancel(p) ==
  /\ pc[p] \in Awaiting /\ End(p, "cancelled") /\ DropChild(p)
  /\ IF pc[p] = "queued" THEN Leave(p) ELSE Release(p)

(* SIGKILL takes effect.                                                   *)
KilledDies(p) ==
  /\ child[p] = "killed" /\ child' = [child EXCEPT ![p] = "died"]
  /\ UNCHANGED <<semVars, pc, outcome, orphans, workspaces, inFlight>>
OrphanDies ==
  /\ orphans > 0 /\ orphans' = orphans - 1
  /\ UNCHANGED <<semVars, pc, outcome, child, workspaces, inFlight>>

RequestStep(p) ==
  \/ AssembleFails(p) \/ Stage(p) \/ Acquire(p) \/ QueueTimeout(p) \/ Granted(p)
  \/ Spawn(p) \/ SpawnFails(p) \/ Collect(p) \/ IoFails(p) \/ Deadline(p) \/ Reap(p)

Next ==
  \/ \E p \in Requests :
       Start(p) \/ RequestStep(p) \/ Cancel(p) \/ WorkerEnds(p) \/ KilledDies(p)
  \/ OrphanDies

(* A request that can go on does, its timers fire, and a killed process    *)
(* dies.  A worker owes nothing: a document may keep it busy for ever.     *)
Fairness ==
  /\ \A p \in Requests : WF_vars(RequestStep(p)) /\ WF_vars(KilledDies(p))
  /\ WF_vars(OrphanDies)

Spec == Init /\ [][Next]_vars /\ Fairness

-----------------------------------------------------------------------------
(* Every variable has its type, and every directory its request.           *)
TypeOK ==
  /\ permits \in 0..MaxConcurrent /\ queue \in Seq(Requests)
  /\ pc \in [Requests -> {"idle", "assemble", "acquire", "queued"} \cup Holding]
  /\ outcome \in [Requests -> {"none", "invalid", "overloaded", "io", "result", "died",
                               "timeout", "cancelled"}]
  /\ child \in [Requests -> {"none", "running", "killed", "answered", "died"}]
  /\ orphans \in 0..MaxOrphans /\ inFlight \in Int
  /\ workspaces = {p \in Requests : pc[p] \notin {"idle", "assemble"}}

(* No permit is ever lost or minted, whatever way each request ends: the   *)
(* service never loses capacity.                                           *)
PermitsConserved ==
  permits + Cardinality({p \in Requests : pc[p] \in Holding}) = MaxConcurrent

(* "How many compiles may run at once": workers with a request, those it   *)
(* is killing at their deadline included, never exceed max_concurrent.     *)
WorkersBounded == Cardinality(Running) <= MaxConcurrent

(* The gauge is the number of compiles under way: each is counted down     *)
(* once, by finish or by drop.                                             *)
GaugeExact == inFlight = Cardinality({p \in Requests : pc[p] # "idle"})

(* No request hangs, not even behind workers that never end.               *)
EveryRequestAnswered == \A p \in Requests : (pc[p] # "idle") ~> (pc[p] = "idle")

=============================================================================
