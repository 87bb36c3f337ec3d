------------------------------- MODULE Runner -------------------------------
(***************************************************************************)
(* The jobs of one incident: the requests that enqueue them                *)
(* (apps/api/routes_incidents.py, routes_approvals.py), the queue and its  *)
(* workers (apps/worker/queue.py, worker.py), run_workflow and             *)
(* _persist_terminal (core/orchestration/orchestrator.py), the rows they   *)
(* write (core/persistence/database.py) and the events they publish.       *)
(*                                                                         *)
(* The graph of module Workflow is seen from outside, in five stages with  *)
(* a checkpoint after each: planning stands for the nodes up to the risk   *)
(* evaluation, which have no effect but on the channels.  Of the audit     *)
(* trail, the events of the approval and of the end stand for all of it.   *)
(* A job that resumes continues at the stage of the last checkpoint, a job *)
(* with a new incident starts over on its channels.  The queue delivers a  *)
(* job again when its worker dies; a job that is timed out is dropped.     *)
(* Two jobs of one incident may run at the same time (max_jobs = 10).      *)
(***************************************************************************)
EXTENDS Integers, Sequences, FiniteSets, Functions

CONSTANTS
    Workers,         \* jobs that run at the same time
    Outcomes,        \* how the graph may end, unless a human rejects
    MaxPlans,        \* bound: plans proposed
    MaxSubmissions,  \* bound: requests with the incident
    MaxAnswers,      \* bound: requests with a decision
    MaxFaults,       \* bound: workers that die, jobs timed out, inserts failed
    MaxInputs        \* bound: requests and faults, all together

Statuses == {"SUCCESS", "FAILED", "ESCALATED", "DENIED"}

ASSUME RunnerAssumption ==
    /\ IsFiniteSet(Workers)
    /\ Outcomes \subseteq Statuses /\ Outcomes # {}
    /\ MaxPlans \in Nat /\ MaxSubmissions \in Nat
    /\ MaxAnswers \in Nat /\ MaxFaults \in Nat /\ MaxInputs \in Nat

VARIABLES
    queue,       \* jobs not yet taken
    task,        \* the job a worker runs
    step,        \* where in run_workflow it is
    answer,      \* the decision its graph has not consumed yet
    mem,         \* the state its graph runs on, then the snapshot it persists
    unflushed,   \* audit events it has still to insert
    checkpoint,  \* the last state saved for the incident's thread
    status,      \* the incident's row
    approvals,   \* the approval rows, in the order of their creation
    ledger,      \* the audit rows, likewise
    notice,      \* the last published event that tells how the incident stands
    effects,     \* ghost: times each plan was carried out
    made,        \* ghost: plans proposed so far; a plan is named by its rank
    sensitive,   \* ghost: plans the graph asked a human about
    approved,    \* ghost: plans that were pending when an approver said yes
    submissions, answers,        \* ghosts: requests so far
    crashes, timeouts, lost,     \* ghosts: faults so far, a lost row is one
    overlapped   \* ghost: a job was taken while another one was running

rows     == <<status, approvals, ledger, notice>>
workers  == <<task, step, answer, mem, unflushed>>
requests == <<submissions, answers, approved>>
faults   == <<crashes, timeouts, lost, overlapped>>
plans    == <<effects, made, sensitive>>

vars == <<queue, workers, checkpoint, rows, plans, requests, faults>>

Stages == {"plan", "ask", "execute", "assess", "finalize", "END"}

Decisions == {"APPROVED", "REJECTED"}

Job == [kind: {"run"}, answer: {"none"}] \cup
       [kind: {"resume"}, answer: Decisions]

NoJob == [kind |-> "none", answer |-> "none"]

AuditEvent == [event: {"ask", "finalize"}, plan: 0..MaxPlans]

Thread ==
    [next: Stages, plan: 0..MaxPlans, decision: Decisions \cup {"none"},
     final: Statuses \cup {"none"}, trail: Seq(AuditEvent)]

NoThread ==
    [next |-> "END", plan |-> 0, decision |-> "none", final |-> "none",
     trail |-> <<>>]

Approval ==
    [plan: 0..MaxPlans, status: Decisions \cup {"pending", "superseded"}]

Steps ==
    {"idle", "begin", "load", "graph", "calling", "announce", "fail", "error",
     "snapshot", "supersede", "create", "await", "notify", "close", "flush"}

\* The events of which the streams and the operators' screens make something.
Notice ==
    [event: {"none", "approval_required", "finalized", "error"},
     plan: 0..MaxPlans, final: Statuses \cup {"none"}]

NoNotice == [event |-> "none", plan |-> 0, final |-> "none"]

TypeOK ==
    /\ queue \in Seq(Job)
    /\ task \in [Workers -> Job \cup {NoJob}]
    /\ step \in [Workers -> Steps]
    /\ answer \in [Workers -> Decisions \cup {"none"}]
    /\ mem \in [Workers -> Thread]
    /\ unflushed \in [Workers -> Seq(AuditEvent)]
    /\ checkpoint \in Thread
    /\ status \in Statuses \cup {"none", "IN_PROGRESS", "AWAITING_APPROVAL"}
    /\ approvals \in Seq(Approval)
    /\ ledger \in Seq(AuditEvent)
    /\ notice \in Notice
    /\ effects \in [1..MaxPlans -> Nat]
    /\ made \in 0..MaxPlans
    /\ sensitive \subseteq 1..MaxPlans /\ approved \subseteq 1..MaxPlans
    /\ submissions \in 0..MaxSubmissions /\ answers \in 0..MaxAnswers
    /\ crashes \in Nat /\ timeouts \in Nat /\ lost \in Nat
    /\ crashes + timeouts + lost <= MaxFaults
    /\ overlapped \in BOOLEAN

Init ==
    /\ queue = <<>>
    /\ task = [w \in Workers |-> NoJob]
    /\ step = [w \in Workers |-> "idle"]
    /\ answer = [w \in Workers |-> "none"]
    /\ mem = [w \in Workers |-> NoThread]
    /\ unflushed = [w \in Workers |-> <<>>]
    /\ checkpoint = NoThread
    /\ status = "none" /\ approvals = <<>> /\ ledger = <<>> /\ notice = NoNotice
    /\ effects = [p \in 1..MaxPlans |-> 0]
    /\ made = 0 /\ sensitive = {} /\ approved = {}
    /\ submissions = 0 /\ answers = 0
    /\ crashes = 0 /\ timeouts = 0 /\ lost = 0 /\ overlapped = FALSE

-----------------------------------------------------------------------------
(* The requests.                                                           *)

\* The bound on what comes from outside.
InputLeft == submissions + answers + crashes + timeouts + lost < MaxInputs

\* POST /api/incidents: no check of what the incident is doing.
SubmitIncident ==
    /\ submissions < MaxSubmissions /\ InputLeft
    /\ submissions' = submissions + 1
    /\ queue' = Append(queue, [kind |-> "run", answer |-> "none"])
    /\ UNCHANGED <<workers, checkpoint, rows, plans, answers, approved, faults>>

\* POST /api/approvals: the graph is paused when the request looks; the job
\* does not say which plan the decision was about.
SubmitApproval(decision) ==
    /\ answers < MaxAnswers /\ InputLeft
    /\ checkpoint.next = "ask"
    /\ answers' = answers + 1
    /\ approved' = IF decision = "APPROVED"
                   THEN approved \cup {checkpoint.plan} ELSE approved
    /\ queue' = Append(queue, [kind |-> "resume", answer |-> decision])
    /\ UNCHANGED <<workers, checkpoint, rows, plans, submissions, faults>>

-----------------------------------------------------------------------------
(* The start of a job.                                                     *)

Take(w) ==
    /\ step[w] = "idle" /\ queue # <<>>
    /\ task' = [task EXCEPT ![w] = Head(queue)]
    /\ queue' = Tail(queue)
    /\ step' = [step EXCEPT ![w] = "begin"]
    /\ overlapped' = (overlapped \/ \E v \in Workers \ {w} : step[v] # "idle")
    /\ UNCHANGED <<answer, mem, unflushed, checkpoint, rows, plans, requests,
                   crashes, timeouts, lost>>

\* resolve_approval updates every row that is pending.
Resolved(decision) ==
    [i \in DOMAIN approvals |->
        IF approvals[i].status = "pending"
        THEN [approvals[i] EXCEPT !.status = decision] ELSE approvals[i]]

\* The row that is written before the graph runs.
Begin(w) ==
    /\ step[w] = "begin"
    /\ IF task[w].kind = "resume"
       THEN approvals' = Resolved(task[w].answer) /\ UNCHANGED status
       ELSE status' = "IN_PROGRESS" /\ UNCHANGED approvals
    /\ step' = [step EXCEPT ![w] = "load"]
    /\ UNCHANGED <<queue, task, answer, mem, unflushed, checkpoint, ledger,
                   notice, plans, requests, faults>>

\* Mutant: a decision always goes to the approval stage.
LoadAtApproval(w) ==
    /\ step[w] = "load"
    /\ mem' = [mem EXCEPT ![w] =
           [checkpoint EXCEPT !.next = IF task[w].kind = "run" THEN "plan"
                                       ELSE "ask"]]
    /\ checkpoint' = mem'[w]
    /\ answer' = [answer EXCEPT ![w] = task[w].answer]
    /\ step' = [step EXCEPT ![w] = "graph"]
    /\ UNCHANGED <<queue, task, unflushed, rows, plans, requests, faults>>

\* A new input starts the graph over; a decision reaches the stage that the
\* checkpoint waits at, if that is the approval, and is dropped otherwise.
Load(w) ==
    /\ step[w] = "load"
    /\ mem' = [mem EXCEPT ![w] =
           IF task[w].kind = "run" THEN [checkpoint EXCEPT !.next = "plan"]
           ELSE checkpoint]
    /\ checkpoint' = mem'[w]
    /\ answer' = [answer EXCEPT ![w] =
           IF checkpoint.next = "ask" THEN task[w].answer ELSE "none"]
    /\ step' = [step EXCEPT ![w] = "graph"]
    /\ UNCHANGED <<queue, task, unflushed, rows, plans, requests, faults>>

-----------------------------------------------------------------------------
(* The graph.                                                              *)

InGraph(w, stage) == step[w] = "graph" /\ mem[w].next = stage

\* The stage returns: its updates are checkpointed.
Save(w, thread) ==
    /\ mem' = [mem EXCEPT ![w] = thread]
    /\ checkpoint' = mem'[w]

\* Its audit event with them.
Checkpoint(w, thread, event) ==
    Save(w, [thread EXCEPT
        !.trail = Append(@, [event |-> event, plan |-> thread.plan])])

\* A plan passes the gates, and is executed or shown to a human.
PlanMade(w, next) ==
    /\ InGraph(w, "plan")
    /\ made < MaxPlans
    /\ made' = made + 1
    /\ Save(w, [mem[w] EXCEPT !.plan = made', !.next = next])
    /\ sensitive' = IF next = "ask" THEN sensitive \cup {made'} ELSE sensitive
    /\ UNCHANGED <<queue, task, step, answer, unflushed, rows, effects,
                   requests, faults>>

\* No plan passes the gates, or no contract is found.
GiveUp(w) ==
    /\ InGraph(w, "plan")
    /\ Save(w, [mem[w] EXCEPT !.next = "finalize"])
    /\ UNCHANGED <<queue, task, step, answer, unflushed, rows, plans,
                   requests, faults>>

\* An exception leaves a node: run_workflow catches it.  No driver can be
\* made for the execution, or the metrics cannot be read after it.
Raise(w) ==
    /\ \E stage \in {"plan", "execute", "assess"} : InGraph(w, stage)
    /\ step' = [step EXCEPT ![w] = "fail"]
    /\ UNCHANGED <<queue, task, answer, mem, unflushed, checkpoint, rows,
                   plans, requests, faults>>

\* Mutant: the job waits for the decision itself.
InterruptInJob(w) ==
    /\ InGraph(w, "ask")
    /\ answer[w] = "none"
    /\ queue # <<>> /\ Head(queue).kind = "resume"
    /\ answer' = [answer EXCEPT ![w] = Head(queue).answer]
    /\ queue' = Tail(queue)
    /\ UNCHANGED <<task, step, mem, unflushed, checkpoint, rows, plans,
                   requests, faults>>

\* interrupt(): nobody has answered yet, the graph stops.
Interrupt(w) ==
    /\ InGraph(w, "ask")
    /\ answer[w] = "none"
    /\ step' = [step EXCEPT ![w] = "snapshot"]
    /\ UNCHANGED <<queue, task, answer, mem, unflushed, checkpoint, rows,
                   plans, requests, faults>>

Decide(w) ==
    /\ InGraph(w, "ask")
    /\ answer[w] # "none"
    /\ Checkpoint(w, [mem[w] EXCEPT
           !.decision = answer[w],
           !.next = IF answer[w] = "APPROVED" THEN "execute" ELSE "finalize"],
           "ask")
    /\ answer' = [answer EXCEPT ![w] = "none"]
    /\ UNCHANGED <<queue, task, step, unflushed, rows, plans, requests, faults>>

\* The driver carries the plan out before the node returns.
Execute(w) ==
    /\ InGraph(w, "execute")
    /\ effects' = [effects EXCEPT ![mem[w].plan] = @ + 1]
    /\ step' = [step EXCEPT ![w] = "calling"]
    /\ UNCHANGED <<queue, task, answer, mem, unflushed, checkpoint, rows, made,
                   sensitive, requests, faults>>

Executed(w) ==
    /\ step[w] = "calling"
    /\ Save(w, [mem[w] EXCEPT !.next = "assess"])
    /\ step' = [step EXCEPT ![w] = "graph"]
    /\ UNCHANGED <<queue, task, answer, unflushed, rows, plans, requests,
                   faults>>

\* The postconditions pass, or a new plan is due.
Assess(w) ==
    /\ InGraph(w, "assess")
    /\ \E next \in {"plan", "finalize"} : Save(w, [mem[w] EXCEPT !.next = next])
    /\ UNCHANGED <<queue, task, step, answer, unflushed, rows, plans,
                   requests, faults>>

Finalize(w) ==
    /\ InGraph(w, "finalize")
    /\ \E final \in IF mem[w].decision = "REJECTED" THEN {"DENIED"}
                    ELSE Outcomes :
           Checkpoint(w, [mem[w] EXCEPT !.next = "END", !.final = final],
                      "finalize")
    /\ step' = [step EXCEPT ![w] = "announce"]
    /\ UNCHANGED <<queue, task, answer, unflushed, rows, plans, requests,
                   faults>>

\* The graph had ended already: no node returns, and nothing is published.
End(w) ==
    /\ InGraph(w, "END")
    /\ step' = [step EXCEPT ![w] = "snapshot"]
    /\ UNCHANGED <<queue, task, answer, mem, unflushed, checkpoint, rows,
                   plans, requests, faults>>

GraphStep(w) ==
    \/ \E next \in {"ask", "execute"} : PlanMade(w, next)
    \/ GiveUp(w) \/ Raise(w) \/ Interrupt(w) \/ Decide(w)
    \/ Execute(w) \/ Executed(w) \/ Assess(w) \/ Finalize(w) \/ End(w)

-----------------------------------------------------------------------------
(* What the job writes when the graph has stopped.                         *)

\* The worker is free again.
Done(w) ==
    /\ task' = [task EXCEPT ![w] = NoJob]
    /\ step' = [step EXCEPT ![w] = "idle"]
    /\ answer' = [answer EXCEPT ![w] = "none"]
    /\ mem' = [mem EXCEPT ![w] = NoThread]
    /\ unflushed' = [unflushed EXCEPT ![w] = <<>>]

Publish(w, event) ==
    notice' = [NoNotice EXCEPT
        !.event = event,
        !.plan = IF event = "approval_required" THEN mem[w].plan ELSE 0,
        !.final = IF event = "finalized" THEN mem[w].final ELSE "none"]

\* _emit, after the node finalize: the streams end before a row is written.
Announce(w) ==
    /\ step[w] = "announce"
    /\ Publish(w, "finalized")
    /\ step' = [step EXCEPT ![w] = "snapshot"]
    /\ UNCHANGED <<queue, task, answer, mem, unflushed, checkpoint, status,
                   approvals, ledger, plans, requests, faults>>

Fail(w) ==
    /\ step[w] = "fail"
    /\ status' = "FAILED"
    /\ step' = [step EXCEPT ![w] = "error"]
    /\ UNCHANGED <<queue, task, answer, mem, unflushed, checkpoint, approvals,
                   ledger, notice, plans, requests, faults>>

NotifyError(w) ==
    /\ step[w] = "error"
    /\ Publish(w, "error")
    /\ Done(w)
    /\ UNCHANGED <<queue, checkpoint, status, approvals, ledger, plans,
                   requests, faults>>

\* aget_state: the thread as it is saved, by whichever job.
Snapshot(w) ==
    /\ step[w] = "snapshot"
    /\ mem' = [mem EXCEPT ![w] = checkpoint]
    /\ step' = [step EXCEPT ![w] = IF checkpoint.next = "END" THEN "close"
                                   ELSE "supersede"]
    /\ UNCHANGED <<queue, task, answer, unflushed, checkpoint, rows, plans,
                   requests, faults>>

\* Mutant: the stale row is not superseded.
KeepStale(w) ==
    /\ step[w] = "supersede"
    /\ step' = [step EXCEPT ![w] = "create"]
    /\ UNCHANGED <<queue, task, answer, mem, unflushed, checkpoint, rows,
                   plans, requests, faults>>

Supersede(w) ==
    /\ step[w] = "supersede"
    /\ approvals' = Resolved("superseded")
    /\ step' = [step EXCEPT ![w] = "create"]
    /\ UNCHANGED <<queue, task, answer, mem, unflushed, checkpoint, status,
                   ledger, notice, plans, requests, faults>>

Create(w) ==
    /\ step[w] = "create"
    /\ approvals' = Append(approvals,
                           [plan |-> mem[w].plan, status |-> "pending"])
    /\ step' = [step EXCEPT ![w] = "await"]
    /\ UNCHANGED <<queue, task, answer, mem, unflushed, checkpoint, status,
                   ledger, notice, plans, requests, faults>>

Await(w) ==
    /\ step[w] = "await"
    /\ status' = "AWAITING_APPROVAL"
    /\ step' = [step EXCEPT ![w] = "notify"]
    /\ UNCHANGED <<queue, task, answer, mem, unflushed, checkpoint, approvals,
                   ledger, notice, plans, requests, faults>>

\* Mutant: the trail is flushed at every stop of the graph.
NotifyAndFlush(w) ==
    /\ step[w] = "notify"
    /\ Publish(w, "approval_required")
    /\ unflushed' = [unflushed EXCEPT ![w] = mem[w].trail]
    /\ step' = [step EXCEPT ![w] = "flush"]
    /\ UNCHANGED <<queue, task, answer, mem, checkpoint, status, approvals,
                   ledger, plans, requests, faults>>

NotifyApproval(w) ==
    /\ step[w] = "notify"
    /\ Publish(w, "approval_required")
    /\ Done(w)
    /\ UNCHANGED <<queue, checkpoint, status, approvals, ledger, plans,
                   requests, faults>>

\* Mutant: only the newest event is inserted.
CloseWithLast(w) ==
    /\ step[w] = "close"
    /\ status' = IF mem[w].final = "none" THEN "FAILED" ELSE mem[w].final
    /\ unflushed' = [unflushed EXCEPT ![w] =
           SubSeq(mem[w].trail, Len(mem[w].trail), Len(mem[w].trail))]
    /\ step' = [step EXCEPT ![w] = "flush"]
    /\ UNCHANGED <<queue, task, answer, mem, checkpoint, approvals, ledger,
                   notice, plans, requests, faults>>

Close(w) ==
    /\ step[w] = "close"
    /\ status' = IF mem[w].final = "none" THEN "FAILED" ELSE mem[w].final
    /\ unflushed' = [unflushed EXCEPT ![w] = mem[w].trail]
    /\ step' = [step EXCEPT ![w] = "flush"]
    /\ UNCHANGED <<queue, task, answer, mem, checkpoint, approvals, ledger,
                   notice, plans, requests, faults>>

\* An event that cannot be inserted is logged and skipped.
LoseOne(w) ==
    /\ step[w] = "flush" /\ unflushed[w] # <<>>
    /\ crashes + timeouts + lost < MaxFaults /\ InputLeft
    /\ lost' = lost + 1
    /\ unflushed' = [unflushed EXCEPT ![w] = Tail(@)]
    /\ UNCHANGED <<queue, task, step, answer, mem, checkpoint, rows, plans,
                   requests, crashes, timeouts, overlapped>>

FlushOne(w) ==
    /\ step[w] = "flush" /\ unflushed[w] # <<>>
    /\ ledger' = Append(ledger, Head(unflushed[w]))
    /\ unflushed' = [unflushed EXCEPT ![w] = Tail(@)]
    /\ UNCHANGED <<queue, task, step, answer, mem, checkpoint, status,
                   approvals, notice, plans, requests, faults>>

Flushed(w) ==
    /\ step[w] = "flush" /\ unflushed[w] = <<>>
    /\ Done(w)
    /\ UNCHANGED <<queue, checkpoint, rows, plans, requests, faults>>

PersistStep(w) ==
    \/ Announce(w) \/ Fail(w) \/ NotifyError(w)
    \/ Snapshot(w) \/ Supersede(w) \/ Create(w) \/ Await(w)
    \/ NotifyApproval(w) \/ Close(w) \/ FlushOne(w) \/ LoseOne(w) \/ Flushed(w)

\* get_incident_status: what GET /api/incidents/{id} says, from the graph's
\* state alone.
Shown ==
    IF checkpoint.final # "none" THEN checkpoint.final
    ELSE IF checkpoint.next = "ask" THEN "AWAITING_APPROVAL"
    ELSE "IN_PROGRESS"

-----------------------------------------------------------------------------
(* Faults.                                                                 *)

\* A worker dies.  Its job is delivered again, before or after the jobs
\* that wait: its claim on the job has to expire first.  The queue gives a
\* job up at its fifth delivery (max_tries), which MaxFaults does not reach.
Crash(w) ==
    /\ step[w] # "idle"
    /\ crashes + timeouts + lost < MaxFaults /\ InputLeft
    /\ crashes' = crashes + 1
    /\ \/ queue' = <<task[w]>> \o queue
       \/ queue' = Append(queue, task[w])
    /\ Done(w)
    /\ UNCHANGED <<checkpoint, rows, plans, requests, timeouts, lost,
                   overlapped>>

\* job_timeout cancels the job: no except clause of run_workflow catches it
\* and the queue does not deliver the job again.
TimeOut(w) ==
    /\ step[w] # "idle"
    /\ crashes + timeouts + lost < MaxFaults /\ InputLeft
    /\ timeouts' = timeouts + 1
    /\ Done(w)
    /\ UNCHANGED <<queue, checkpoint, rows, plans, requests, crashes,
                   lost, overlapped>>

WorkerStep(w) ==
    Take(w) \/ Begin(w) \/ Load(w) \/ GraphStep(w) \/ PersistStep(w)

Next ==
    \/ SubmitIncident
    \/ \E decision \in Decisions : SubmitApproval(decision)
    \/ \E w \in Workers : WorkerStep(w) \/ Crash(w) \/ TimeOut(w)

Spec == Init /\ [][Next]_vars

\* A live worker takes jobs and runs them; nobody has to submit or answer.
FairSpec == Spec /\ \A w \in Workers : WF_vars(WorkerStep(w))

-----------------------------------------------------------------------------
(* Properties.                                                             *)

Quiet == queue = <<>> /\ \A w \in Workers : step[w] = "idle"

\* What a pause leaves when no two jobs overlapped.
PauseAlone ==
    /\ status = "AWAITING_APPROVAL"
    /\ \E i \in DOMAIN approvals :
           approvals[i] = [plan |-> checkpoint.plan, status |-> "pending"]
    /\ \A i, j \in DOMAIN approvals :
           approvals[i].status = "pending" /\ approvals[j].status = "pending"
               => i = j
    /\ notice = [event |-> "approval_required", plan |-> checkpoint.plan,
                 final |-> "none"]
    /\ submissions + crashes <= 1 => Shown = status

\* What an end leaves when no two jobs overlapped.
EndAlone ==
    /\ status = checkpoint.final /\ Shown = status
    /\ lost = 0 => \E start \in 0..Len(ledger) :
           SubSeq(ledger, start + 1, Len(ledger)) = checkpoint.trail
    /\ crashes = 0 => notice = [event |-> "finalized", plan |-> 0,
                                final |-> status]

\* A paused incident is one that an approver is shown: once the jobs are
\* done, whatever crashed and was delivered again and whichever jobs ran at
\* the same time, an approval is pending, and the plan the graph waits with
\* was put in a row that nobody has answered (a job that is timed out may
\* leave less).  Unless two jobs overlapped, the incident's row says
\* AWAITING_APPROVAL, the one pending approval is for that plan, and the plan
\* is the last one an approval was asked for on the stream.  The status
\* request agrees with the row until the incident is submitted or delivered
\* again.
PausedIsShown ==
    Quiet /\ checkpoint.next = "ask" /\ timeouts = 0 =>
        /\ \E i \in DOMAIN approvals : approvals[i].status = "pending"
        /\ \E i \in DOMAIN approvals :
               /\ approvals[i].plan = checkpoint.plan
               /\ approvals[i].status \in {"pending", "superseded"}
        /\ ~overlapped => PauseAlone

\* "Terminal - record final status and flush the audit trail exactly once"
\* (orchestrator.py:129), as far as it goes: once the jobs are done, whatever
\* crashed before and whichever jobs overlapped, a finalized incident is not
\* left IN_PROGRESS, and every event of its trail is in the ledger unless an
\* insert failed.  Unless two jobs overlapped, the graph's status is in its
\* row and in the status request, and the whole trail, in order, ends the
\* ledger.  The event that ended the streams before the row was written said
\* the same, unless the worker died before it was published: the graph has
\* ended then, and nobody publishes it.  FlushedOnce is about "exactly once".
ClosedIsRecorded ==
    Quiet /\ checkpoint.next = "END" /\ checkpoint.final # "none"
          /\ timeouts = 0 =>
        /\ status # "IN_PROGRESS"
        /\ lost = 0 => Range(checkpoint.trail) \subseteq Range(ledger)
        /\ ~overlapped => EndAlone

\* "... flush the audit trail exactly once" (orchestrator.py:129): when every
\* answer was consumed by a question of the graph, the ledger never holds
\* more than the trail, in order and without a gap.  A redelivery, a second
\* submission, an answer that finds the graph ended and two jobs at a time
\* each flush the trail again.
FlushedOnce ==
    /\ submissions <= 1 /\ crashes = 0 /\ lost = 0 /\ ~overlapped
    /\ answers = Cardinality({i \in DOMAIN checkpoint.trail :
                                  checkpoint.trail[i].event = "ask"})
    => ledger = SubSeq(checkpoint.trail, 1, Len(ledger))

\* A plan is carried out once, and again only for a reason: each repetition
\* has an answer or a redelivery of its own, even when jobs overlap.  Unless
\* they do, an answer is no reason, whatever it finds: resubmissions and
\* second answers alone never repeat a side effect.
RepeatsAreCounted ==
    \A p \in 1..MaxPlans :
        /\ effects[p] <= 1 + answers + crashes
        /\ ~overlapped => effects[p] <= 1 + crashes + timeouts

\* Every request is served: the queue runs dry, whatever the graph decides
\* and whichever workers die.
Drains == queue # <<>> ~> Quiet
=============================================================================
