------------------------------- MODULE Worker -------------------------------
(***************************************************************************)
(* One compile between two processes: PreparedJob (src/src/job_io.rs), the *)
(* pump and classification of CompileService::compile (src/src/spawn.rs),  *)
(* the worker (src/src/worker.rs), the frames between them                 *)
(* (src/src/protocol.rs), and what compile_bundle (src/src/render.rs)      *)
(* makes of the result.  CompileService models how many of these run.      *)
(*                                                                         *)
(* A frame is counted in units; a pipe holds PipeUnits of them, and one    *)
(* end of it sees that the other is gone.  Disks fail and workers die when *)
(* they like.  Files and documents are those of Compile.                   *)
(***************************************************************************)
EXTENDS Compile

CONSTANTS
  Jobs,             \* what may be asked for
  Reports,          \* the errors and warnings Typst may raise
  PipeUnits,        \* what a pipe holds
  MaxFrame          \* MAX_FRAME_BYTES, in units

ASSUME PipeAssumption == PipeUnits \in Nat \ {0} /\ MaxFrame \in Nat \ {0}
(* Frames begin with their length; the bundle of a job is a Bundle, checked *)
(* when it was built; what Typst reports are lists.                        *)
Edge == Nat \cup {Endless}
ASSUME JobsAssumption ==
  \A j \in Jobs :
    /\ j.units \in Nat \ {0} /\ j.replyUnits \in Nat \ {0} /\ j.chatter \in Nat
    /\ j.opts \in [maxPages : Nat, pages : Seq(Nat), millis : Nat, maxPx : Nat]
    /\ j.doc.pages \in Seq([w : Edge, h : Edge])
    /\ {j.doc.errors, j.doc.warnings, j.doc.export} \subseteq Seq(Reports)
    /\ BundleFault(j.main, j.files, j.maxBytes) = "ok"

VARIABLES
  job,
  parent,           \* "staging", "pumping" or "done"
  toSend, sent,     \* units of the job not written; stdin: open, closed or epipe
  stdin, stdout, stderr, \* units in each pipe
  out, err,         \* units the parent has read
  worker,           \* "none", "reading", "executing", "writing" or "gone"
  got, toSay, toReply, \* units read of the job, and still to write
  said,             \* units written to stderr so far (history)
  result, exit,     \* the worker's result and exit code
  disk,             \* previews in the output directory
  answer,
  faults            \* what went wrong by itself (history)

parentVars == <<parent, toSend, sent, out, err, answer>>
workerVars == <<worker, got, toSay, toReply, said, result, exit, disk>>
pipeVars == <<stdin, stdout, stderr>>
vars == <<job, parentVars, workerVars, pipeVars, faults>>

NoResult == [status |-> "none"]
Internal == [status |-> "internal"]
NoAnswer == [kind |-> "none"]

Init ==
  /\ job \in Jobs
  /\ parent = "staging" /\ toSend = job.units /\ sent = "open"
  /\ stdin = 0 /\ stdout = 0 /\ stderr = 0 /\ out = 0 /\ err = 0
  /\ worker = "none" /\ got = 0 /\ toSay = 0 /\ toReply = 0 /\ said = 0
  /\ result = NoResult /\ exit = "none" /\ disk = {}
  /\ answer = NoAnswer /\ faults = {}

-----------------------------------------------------------------------------
(* The parent.                                                             *)

Finish(a) == answer' = a /\ parent' = "done"

(* Staging writes every file under a number of its own; then the worker is *)
(* spawned, and the frame built, which write_frame refuses if too large:   *)
(* the worker just spawned is killed when the child is dropped.            *)
Stage ==
  /\ parent = "staging" /\ job.units <= MaxFrame
  /\ parent' = "pumping" /\ worker' = "reading"
  /\ UNCHANGED <<job, toSend, sent, out, err, answer, got, toSay, toReply, said, result, exit,
                 disk, pipeVars, faults>>
StageFails ==
  /\ parent = "staging"
  /\ \/ Finish([kind |-> "workspace"]) /\ faults' = faults \cup {"staging"} /\ UNCHANGED worker
     \/ /\ job.units > MaxFrame /\ Finish([kind |-> "io"]) /\ worker' = "gone" /\ UNCHANGED faults
  /\ UNCHANGED <<job, toSend, sent, out, err, got, toSay, toReply, said, result, exit, disk,
                 pipeVars>>

Gone == worker = "gone"
SendUnit ==
  /\ parent = "pumping" /\ sent = "open"
  /\ \/ /\ toSend > 0 /\ ~Gone /\ stdin < PipeUnits
        /\ stdin' = stdin + 1 /\ toSend' = toSend - 1 /\ UNCHANGED sent
     \/ toSend > 0 /\ Gone /\ sent' = "epipe" /\ UNCHANGED <<toSend, stdin>>
     \/ toSend = 0 /\ sent' = "closed" /\ UNCHANGED <<toSend, stdin>>
  /\ UNCHANGED <<job, parent, out, err, answer, workerVars, stdout, stderr, faults>>

ReadOut ==
  /\ parent = "pumping" /\ stdout > 0 /\ stdout' = stdout - 1 /\ out' = out + 1
  /\ UNCHANGED <<job, parent, toSend, sent, err, answer, workerVars, stdin, stderr, faults>>

(* The three pipes are serviced together.  In the variant stderr is read   *)
(* when stdout has ended.                                                  *)
StderrServedLast == Gone /\ stdout = 0
StderrServed == TRUE
(* All of stderr is kept; the variant keeps what a small buffer holds.      *)
KeptInBuffer(n) == IF n < PipeUnits THEN n + 1 ELSE n
Kept(n) == n + 1
ReadErr ==
  /\ parent = "pumping" /\ StderrServed
  /\ stderr > 0 /\ stderr' = stderr - 1 /\ err' = Kept(err)
  /\ UNCHANGED <<job, parent, toSend, sent, out, answer, workerVars, stdin, stdout, faults>>

(* read_outputs: a page that comes twice is not believed.                  *)
ReadOutputs(r) ==
  LET numbers == [i \in DOMAIN r.previews |-> r.previews[i].page] IN
  IF Cardinality(Elements(numbers)) # Len(numbers) \/ ~(Elements(numbers) \subseteq disk)
  THEN [kind |-> "workspace"]
  ELSE [kind |-> "ok", pages |-> r.pages, previews |-> r.previews,
        diagnostics |-> r.diagnostics]
FromResult(r) ==
  CASE r.status = "ok" -> ReadOutputs(r)
    [] r.status = "failed" -> [kind |-> "failed", of |-> r.kind, diagnostics |-> r.diagnostics]
    [] OTHER -> [kind |-> "internal"]

(* What the exit status, the output and the write error come to; the       *)
(* variant propagates the write error at once.                             *)
ClassifyEpipeFirst ==
  IF sent = "epipe" THEN [kind |-> "io"]
  ELSE IF exit # "0" \/ out = 0 THEN [kind |-> "died", stderr |-> err]
  ELSE FromResult(result)
Classify ==
  IF exit # "0" \/ out = 0 THEN [kind |-> "died", stderr |-> err]
  ELSE IF sent = "epipe" THEN [kind |-> "io"]
  ELSE FromResult(result)

(* All three pipes have ended and the child is reaped.                     *)
Join ==
  /\ parent = "pumping" /\ sent # "open" /\ Gone /\ stdout = 0 /\ stderr = 0
  /\ Finish(Classify)
  /\ UNCHANGED <<job, toSend, sent, out, err, workerVars, pipeVars, faults>>

Deadline ==
  /\ parent = "pumping" /\ Finish([kind |-> "timeout"])
  /\ worker' = "gone" /\ exit' = IF Gone THEN exit ELSE "killed"
  /\ faults' = faults \cup {"deadline"}
  /\ UNCHANGED <<job, toSend, sent, out, err, got, toSay, toReply, said, result, disk, pipeVars>>

-----------------------------------------------------------------------------
(* The worker.                                                             *)

ReadJob ==
  /\ worker = "reading" /\ stdin > 0 /\ stdin' = stdin - 1 /\ got' = got + 1
  /\ worker' = IF got + 1 = job.units THEN "executing" ELSE "reading"
  /\ UNCHANGED <<job, parentVars, toSay, toReply, said, result, exit, disk, stdout, stderr,
                 faults>>

(* A result frame over the limit is refused by write_frame: exit code 3.   *)
Replying(r, units, complaint) ==
  /\ result' = r /\ toSay' = job.chatter + complaint
  /\ toReply' = IF units > MaxFrame THEN 0 ELSE units
  /\ exit' = IF units > MaxFrame THEN "3" ELSE exit
  /\ worker' = "writing"

(* A variant in which a failed document fails the worker.                  *)
ExitCodeByResult(r) == IF r.status = "failed" THEN "1" ELSE "0"
ExitCode(r) == "0"

(* The bundle is checked again, then compiled.                             *)
ResultOf ==
  [j \in Jobs |->
     IF BundleFault(j.main, j.files, j.maxBytes) # "ok" THEN Internal
     ELSE Outcome(j.doc, j.main, j.files, j.opts)]
Compiled == ResultOf[job]
Complaints == IF Compiled = Internal \/ job.replyUnits > MaxFrame THEN 1 ELSE 0
Execute ==
  /\ worker = "executing" /\ ~job.runaway
  /\ Replying(Compiled, job.replyUnits, Complaints)
  /\ disk' = IF Compiled.status = "ok"
             THEN {Compiled.previews[i].page : i \in DOMAIN Compiled.previews} ELSE {}
  /\ UNCHANGED <<job, parentVars, got, said, pipeVars, faults>>
(* A staged file that cannot be read, an output that cannot be written.    *)
ExecuteFails ==
  /\ worker = "executing" /\ ~job.runaway
  /\ \E left \in SUBSET Elements(job.opts.pages) : disk' = left
  /\ Replying(Internal, 1, 1) /\ faults' = faults \cup {"disk"}
  /\ UNCHANGED <<job, parentVars, got, said, pipeVars>>

SayUnit ==
  /\ worker = "writing" /\ toSay > 0 /\ stderr < PipeUnits
  /\ stderr' = stderr + 1 /\ toSay' = toSay - 1 /\ said' = said + 1
  /\ UNCHANGED <<job, parentVars, worker, got, toReply, result, exit, disk, stdin, stdout, faults>>
ReplyUnit ==
  /\ worker = "writing" /\ toSay = 0 /\ toReply > 0 /\ stdout < PipeUnits
  /\ stdout' = stdout + 1 /\ toReply' = toReply - 1
  /\ UNCHANGED <<job, parentVars, worker, got, toSay, said, result, exit, disk, stdin, stderr,
                 faults>>
Exit ==
  /\ worker = "writing" /\ toSay = 0 /\ toReply = 0 /\ worker' = "gone"
  /\ exit' = IF exit = "none" THEN ExitCode(result) ELSE exit
  /\ UNCHANGED <<job, parentVars, got, toSay, toReply, said, result, disk, pipeVars, faults>>

(* Killed for memory, or panicking, which aborts.                          *)
Die ==
  /\ worker \in {"reading", "executing", "writing"} /\ worker' = "gone" /\ exit' = "signal"
  /\ faults' = faults \cup {"death"}
  /\ UNCHANGED <<job, parentVars, got, toSay, toReply, said, result, disk, pipeVars>>

Done == parent = "done" /\ UNCHANGED vars

Next ==
  \/ Stage \/ StageFails \/ SendUnit \/ ReadOut \/ ReadErr \/ Join \/ Deadline
  \/ ReadJob \/ Execute \/ ExecuteFails \/ SayUnit \/ ReplyUnit \/ Exit \/ Die
  \/ Done

(* Parent tasks and worker run on; disks need not fail, workers not die.   *)
(* The timer fires in the end, but only a document that never finishes is  *)
(* given the benefit of it.                                                *)
Fairness ==
  /\ WF_vars(Stage \/ StageFails)
  /\ WF_vars(SendUnit) /\ WF_vars(ReadOut) /\ WF_vars(ReadErr)
  /\ WF_vars(Join) /\ WF_vars(Deadline /\ job.runaway)
  /\ WF_vars(ReadJob) /\ WF_vars(Execute) /\ WF_vars(SayUnit \/ ReplyUnit \/ Exit)

Spec == Init /\ [][Next]_vars /\ Fairness

-----------------------------------------------------------------------------
(* Properties.                                                             *)

(* Types; and what is in a pipe is what was written and not read yet.      *)
TypeOK ==
  /\ parent \in {"staging", "pumping", "done"} /\ sent \in {"open", "closed", "epipe"}
  /\ worker \in {"none", "reading", "executing", "writing", "gone"}
  /\ {stdin, stdout, stderr} \subseteq 0..PipeUnits
  /\ Gone \/ toSend + stdin + got = job.units
  /\ said = stderr + err

(* A document is answered for with every preview asked for, each at least  *)
(* a pixel and at most max_px a side; and a page is found too large only   *)
(* if it has no end or no pixel is allowed (compile.rs clamp_scale).       *)
CompleteResult ==
  /\ answer.kind = "ok" =>
       /\ [i \in DOMAIN answer.previews |-> answer.previews[i].page] = job.opts.pages
       /\ \A i \in DOMAIN answer.previews :
            {answer.previews[i].size.w, answer.previews[i].size.h} \subseteq 1..job.opts.maxPx
       /\ answer.pages <= job.opts.maxPages
  /\ answer.kind = "failed" /\ answer.of = "page_too_large" =>
       job.opts.maxPx = 0 \/ \E i \in DOMAIN job.doc.pages : IsEndless(job.doc.pages[i])

(* A worker that did not exit cleanly is reported as such, with all it     *)
(* wrote to stderr, even if the job was never read to its end.             *)
StderrKept ==
  LET uncleanly == parent = "done" /\ exit \notin {"none", "0"} IN
  uncleanly /\ answer.kind # "timeout" => answer = [kind |-> "died", stderr |-> said]

(* Unless something went wrong by itself, a broken document is answered as *)
(* a broken document and a good one with its result; an error of the       *)
(* worker means a frame over the limit, one of the workspace a page asked  *)
(* for twice.                                                              *)
BrokenDocumentNotBrokenWorker ==
  faults = {} =>
    CASE answer.kind = "failed" -> Compiled.status = "failed"
      [] answer.kind = "ok" -> Compiled.status = "ok"
      [] answer.kind = "died" -> job.replyUnits > MaxFrame
      [] answer.kind = "io" -> job.units > MaxFrame
      [] answer.kind = "workspace" ->
           Cardinality(Elements(job.opts.pages)) # Len(job.opts.pages)
      [] OTHER -> answer.kind = "none"

(* A failed document says why: there is an error among its diagnostics,    *)
(* and no warning gathered before the failure is lost.                     *)
DiagnosticsKept ==
  answer.kind = "failed" =>
    /\ HasError(answer.diagnostics)
    /\ Elements(Collect(job.doc.warnings)) \subseteq Elements(answer.diagnostics)

(* Parent and worker never wait for each other: every job ends, and unless *)
(* its document runs for ever no deadline is needed for that.              *)
JobEnds == <>(parent = "done")
=============================================================================
