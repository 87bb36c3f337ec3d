---------------------------- MODULE RunnerProofs ----------------------------
(***************************************************************************)
(* The runner for every number of workers, plans, requests and faults: its *)
(* types; what is left of a pause and of an end, and how often a plan is   *)
(* carried out, however jobs overlap and, more strictly, unless they did.  *)
(* No worker goes on for ever.                                             *)
(***************************************************************************)
EXTENDS Runner, FiniteSetTheorems, SequenceTheorems, WellFoundedInduction,
        TLAPS

-----------------------------------------------------------------------------
(* Type correctness.                                                       *)

\* Strengthening of TypeOK: a thread that waits for a human or is about to
\* execute has a plan.
Planned(thread) == thread.next \in {"ask", "execute"} => thread.plan # 0

TypeInv ==
    /\ TypeOK
    /\ Planned(checkpoint)
    /\ \A w \in Workers : Planned(mem[w])

LEMMA NoThreadTyped == NoThread \in Thread
<1>1. 0 \in 0..MaxPlans
  BY RunnerAssumption
<1>2. <<>> \in Seq(AuditEvent)
  OBVIOUS
<1> QED
  BY <1>1, <1>2 DEF NoThread, Thread, Stages

\* Resolving rows keeps them well formed.
LEMMA ResolvedTyped ==
    ASSUME approvals \in Seq(Approval),
           NEW decision \in Decisions \cup {"superseded"}
    PROVE  Resolved(decision) \in Seq(Approval)
<1>1. DOMAIN approvals = 1..Len(approvals) /\ Len(approvals) \in Nat
  OBVIOUS
<1>2. \A i \in 1..Len(approvals) : approvals[i] \in Approval
  OBVIOUS
<1>3. Resolved(decision) \in [1..Len(approvals) -> Approval]
  BY <1>1, <1>2 DEF Resolved, Approval
<1> QED
  BY <1>1, <1>3, SeqDef

\* A stage that returns saves a well formed thread.
LEMMA SaveTyped ==
    ASSUME TypeInv, NEW w \in Workers, NEW thread \in Thread, Planned(thread),
           Save(w, thread)
    PROVE  /\ mem' \in [Workers -> Thread] /\ checkpoint' \in Thread
           /\ Planned(checkpoint') /\ \A v \in Workers : Planned(mem'[v])
<1>1. mem' = [mem EXCEPT ![w] = thread] /\ checkpoint' = thread
  BY DEF Save, TypeInv, TypeOK
<1> QED
  BY <1>1 DEF TypeInv, TypeOK

\* Its event does not change what the thread is.
LEMMA EventTyped ==
    ASSUME NEW thread \in Thread, NEW event \in {"ask", "finalize"}
    PROVE  LET saved == [thread EXCEPT !.trail = Append(@,
                             [event |-> event, plan |-> thread.plan])]
           IN  /\ saved \in Thread /\ saved.next = thread.next
               /\ saved.plan = thread.plan /\ saved.final = thread.final
<1> DEFINE trail == Append(thread.trail,
                           [event |-> event, plan |-> thread.plan])
<1>1. trail \in Seq(AuditEvent)
  <2>1. [event |-> event, plan |-> thread.plan] \in AuditEvent
    BY DEF AuditEvent, Thread
  <2>2. thread.trail \in Seq(AuditEvent)
    BY DEF Thread
  <2> QED
    BY <2>1, <2>2
<1> HIDE DEF trail
<1>2. /\ [thread EXCEPT !.trail = trail] \in Thread
      /\ [thread EXCEPT !.trail = trail].next = thread.next
      /\ [thread EXCEPT !.trail = trail].plan = thread.plan
      /\ [thread EXCEPT !.trail = trail].final = thread.final
  BY <1>1 DEF Thread
<1> QED
  BY <1>2 DEF trail

\* A stage that returns saves a well formed thread with its event.
LEMMA CheckpointTyped ==
    ASSUME TypeInv, NEW w \in Workers, NEW thread \in Thread, Planned(thread),
           NEW event \in {"ask", "finalize"}, Checkpoint(w, thread, event)
    PROVE  /\ mem' \in [Workers -> Thread] /\ checkpoint' \in Thread
           /\ Planned(checkpoint') /\ \A v \in Workers : Planned(mem'[v])
<1> DEFINE saved == [thread EXCEPT !.trail = Append(@,
                         [event |-> event, plan |-> thread.plan])]
<1>1. /\ saved \in Thread /\ saved.next = thread.next
      /\ saved.plan = thread.plan
  BY EventTyped
<1>2. Save(w, saved)
  BY DEF Checkpoint
<1> HIDE DEF saved
<1> QED
  BY <1>1, <1>2, SaveTyped DEF Planned

\* A job that is done leaves its worker's variables well formed.
LEMMA DoneTyped ==
    ASSUME TypeOK, NEW w \in Workers, Done(w)
    PROVE  /\ task' \in [Workers -> Job \cup {NoJob}]
           /\ step' \in [Workers -> Steps]
           /\ answer' \in [Workers -> Decisions \cup {"none"}]
           /\ mem' \in [Workers -> Thread]
           /\ unflushed' \in [Workers -> Seq(AuditEvent)]
<1>1. <<>> \in Seq(AuditEvent)
  OBVIOUS
<1> QED
  BY <1>1, NoThreadTyped DEF Done, TypeOK, Steps

LEMMA RunnerTypeInit == Init => TypeInv
<1> SUFFICES ASSUME Init
             PROVE  TypeInv
  OBVIOUS
<1>1. /\ queue \in Seq(Job) /\ approvals \in Seq(Approval)
      /\ ledger \in Seq(AuditEvent)
      /\ unflushed \in [Workers -> Seq(AuditEvent)]
  BY DEF Init
<1>n. NoNotice \in Notice
  BY RunnerAssumption DEF NoNotice, Notice
<1>c. /\ crashes \in Nat /\ timeouts \in Nat /\ lost \in Nat
      /\ crashes + timeouts + lost <= MaxFaults
      /\ submissions \in 0..MaxSubmissions /\ answers \in 0..MaxAnswers
  BY RunnerAssumption DEF Init
<1>o. overlapped \in BOOLEAN
  BY Zenon DEF Init
<1>2. TypeOK
  BY <1>1, <1>n, <1>c, <1>o, NoThreadTyped, RunnerAssumption
  DEF Init, TypeOK, Steps
<1>3. Planned(NoThread)
  BY DEF Planned, NoThread
<1> QED
  BY <1>2, <1>3 DEF Init, TypeInv

\* A request appends a job, and an answer names the plan that waits.
LEMMA RequestTyped ==
    ASSUME TypeInv,
           SubmitIncident \/ \E decision \in Decisions : SubmitApproval(decision)
    PROVE  TypeInv'
<1>1. CASE SubmitIncident
  <2>1. [kind |-> "run", answer |-> "none"] \in Job
    BY DEF Job
  <2>2. queue' \in Seq(Job)
    BY <1>1, <2>1 DEF SubmitIncident, TypeInv, TypeOK
  <2>3. submissions' \in 0..MaxSubmissions
    BY <1>1, RunnerAssumption DEF SubmitIncident, TypeInv, TypeOK
  <2>4. TypeOK'
    BY <1>1, <2>2, <2>3
    DEF SubmitIncident, TypeInv, TypeOK, workers, rows, plans, faults
  <2> QED
    BY <1>1, <2>4 DEF SubmitIncident, TypeInv, Planned, workers
<1>2. ASSUME NEW decision \in Decisions, SubmitApproval(decision)
      PROVE  TypeInv'
  <2>1. [kind |-> "resume", answer |-> decision] \in Job
    BY DEF Job
  <2>2. queue' \in Seq(Job)
    BY <1>2, <2>1 DEF SubmitApproval, TypeInv, TypeOK
  <2>3. answers' \in 0..MaxAnswers
    BY <1>2, RunnerAssumption DEF SubmitApproval, TypeInv, TypeOK
  <2>4. checkpoint.plan \in 1..MaxPlans
    BY <1>2, RunnerAssumption
    DEF SubmitApproval, TypeInv, Planned, TypeOK, Thread
  <2>5. approved' \subseteq 1..MaxPlans
    BY <1>2, <2>4 DEF SubmitApproval, TypeInv, TypeOK
  <2>6. TypeOK'
    BY <1>2, <2>2, <2>3, <2>5
    DEF SubmitApproval, TypeInv, TypeOK, workers, rows, plans, faults
  <2> QED
    BY <1>2, <2>6 DEF SubmitApproval, TypeInv, Planned, workers
<1> QED
  BY <1>1, <1>2

\* Only a job that resumes carries a decision.
LEMMA JobAnswered ==
    ASSUME NEW job \in Job \cup {NoJob}
    PROVE  /\ job.kind = "resume" => job.answer \in Decisions
           /\ job.answer \in Decisions \cup {"none"}
<1>1. CASE job \in [kind: {"run"}, answer: {"none"}]
  BY <1>1
<1>2. CASE job \in [kind: {"resume"}, answer: Decisions]
  BY <1>2
<1>3. CASE job = NoJob
  BY <1>3 DEF NoJob
<1> QED
  BY <1>1, <1>2, <1>3 DEF Job

\* What is published is an event.
LEMMA PublishTyped ==
    ASSUME TypeOK, NEW w \in Workers,
           NEW event \in {"approval_required", "finalized", "error"},
           Publish(w, event)
    PROVE  notice' \in Notice
<1>1. /\ mem[w].plan \in 0..MaxPlans /\ 0 \in 0..MaxPlans
      /\ mem[w].final \in Statuses \cup {"none"}
  BY RunnerAssumption DEF TypeOK, Thread
<1> QED
  BY <1>1 DEF Publish, NoNotice, Notice

\* The start of a job.
LEMMA StartTyped ==
    ASSUME TypeInv, NEW w \in Workers, Take(w) \/ Begin(w) \/ Load(w)
    PROVE  TypeInv'
<1>1. CASE Take(w)
  <2>1. Head(queue) \in Job /\ Tail(queue) \in Seq(Job)
    BY <1>1, HeadTailProperties DEF Take, TypeInv, TypeOK
  <2>2. TypeOK'
    BY <1>1, <2>1
    DEF Take, TypeInv, TypeOK, Steps, rows, plans, requests, faults
  <2> QED
    BY <1>1, <2>2 DEF Take, TypeInv, Planned
<1>2. CASE Begin(w)
  <2>1. task[w].kind = "resume" => task[w].answer \in Decisions
    <3>1. task[w] \in Job \cup {NoJob}
      BY DEF TypeInv, TypeOK
    <3> QED
      BY <3>1, JobAnswered
  <2>2. approvals' \in Seq(Approval)
    <3>1. approvals \in Seq(Approval)
      BY DEF TypeInv, TypeOK
    <3>2. CASE task[w].kind = "resume"
      BY <1>2, <2>1, <3>1, <3>2, ResolvedTyped DEF Begin
    <3>3. CASE task[w].kind # "resume"
      BY <1>2, <3>1, <3>3 DEF Begin
    <3> QED
      BY <3>2, <3>3
  <2>3. status' \in Statuses \cup {"none", "IN_PROGRESS", "AWAITING_APPROVAL"}
    BY <1>2 DEF Begin, TypeInv, TypeOK
  <2>4. TypeOK'
    BY <1>2, <2>2, <2>3
    DEF Begin, TypeInv, TypeOK, Steps, plans, requests, faults
  <2> QED
    BY <1>2, <2>4 DEF Begin, TypeInv, Planned
<1>3. CASE Load(w)
  <2>1. [checkpoint EXCEPT !.next = "plan"] \in Thread
    BY DEF TypeInv, TypeOK, Thread, Stages
  <2>2. mem' \in [Workers -> Thread] /\ checkpoint' \in Thread
    BY <1>3, <2>1 DEF Load, TypeInv, TypeOK
  <2>3. answer' \in [Workers -> Decisions \cup {"none"}]
    BY <1>3 DEF Load, TypeInv, TypeOK, Job, NoJob
  <2>4. TypeOK'
    BY <1>3, <2>2, <2>3
    DEF Load, TypeInv, TypeOK, Steps, rows, plans, requests, faults
  <2>5. Planned(checkpoint') /\ \A v \in Workers : Planned(mem'[v])
    BY <1>3, <2>1 DEF Load, TypeInv, TypeOK, Thread, Planned
  <2> QED
    BY <2>4, <2>5 DEF TypeInv, Planned
<1> QED
  BY <1>1, <1>2, <1>3

\* A stage of the graph: each either stops the graph, or saves a thread that
\* has a plan if it is to be shown or executed.
LEMMA GraphTyped ==
    ASSUME TypeInv, NEW w \in Workers, GraphStep(w)
    PROVE  TypeInv'
<1> USE DEF TypeInv
<1>m. mem[w] \in Thread /\ checkpoint \in Thread /\ Planned(mem[w])
  BY DEF TypeOK
<1>1. ASSUME NEW next \in {"ask", "execute"}, PlanMade(w, next)
      PROVE  TypeInv'
  <2> DEFINE thread == [mem[w] EXCEPT !.plan = made', !.next = next]
  <2>1. made' \in 1..MaxPlans
    <3>1. made' = made + 1 /\ made < MaxPlans /\ made \in Nat /\ MaxPlans \in Nat
      BY <1>1, RunnerAssumption DEF PlanMade, TypeOK
    <3> QED
      BY <3>1
  <2>2. thread \in Thread /\ Planned(thread)
    <3>1. made' \in 0..MaxPlans /\ made' # 0 /\ next \in Stages
      BY <2>1, RunnerAssumption DEF Stages
    <3>2. thread \in Thread
      BY <1>m, <3>1 DEF Thread
    <3> QED
      BY <1>m, <3>1, <3>2 DEF Thread, Planned
  <2>3. Save(w, thread)
    BY <1>1 DEF PlanMade
  <2> HIDE DEF thread
  <2>4. mem' \in [Workers -> Thread] /\ checkpoint' \in Thread
    BY <2>2, <2>3, SaveTyped
  <2>5. Planned(checkpoint') /\ \A v \in Workers : Planned(mem'[v])
    BY <2>2, <2>3, SaveTyped
  <2>6. TypeOK'
    <3>1. made' \in 0..MaxPlans /\ sensitive' \subseteq 1..MaxPlans
      <4>1. /\ sensitive \subseteq 1..MaxPlans
            /\ sensitive' \in {sensitive, sensitive \cup {made'}}
        BY <1>1 DEF PlanMade, TypeOK
      <4> QED
        BY <2>1, <4>1
    <3>2. UNCHANGED <<queue, task, step, answer, unflushed, rows, effects,
                      requests, faults>>
      BY <1>1 DEF PlanMade
    <3> QED
      BY <2>4, <3>1, <3>2 DEF TypeOK, rows, requests, faults
  <2> QED
    BY <2>5, <2>6 DEF Planned
<1>2. CASE GiveUp(w)
  <2> DEFINE thread == [mem[w] EXCEPT !.next = "finalize"]
  <2>1. thread \in Thread /\ Planned(thread)
    BY <1>m DEF Thread, Stages, Planned
  <2>2. Save(w, thread)
    BY <1>2 DEF GiveUp
  <2> HIDE DEF thread
  <2>3. mem' \in [Workers -> Thread] /\ checkpoint' \in Thread
    BY <2>1, <2>2, SaveTyped
  <2>4. Planned(checkpoint') /\ \A v \in Workers : Planned(mem'[v])
    BY <2>1, <2>2, SaveTyped
  <2>5. TypeOK'
    BY <1>2, <2>3 DEF GiveUp, TypeOK, rows, plans, requests, faults
  <2> QED
    BY <2>4, <2>5 DEF Planned
<1>3. CASE Raise(w) \/ Interrupt(w) \/ End(w)
  <2>1. TypeOK'
    BY <1>3 DEF Raise, Interrupt, End, TypeOK, Steps, rows, plans, requests,
                faults
  <2> QED
    BY <1>3, <2>1 DEF Raise, Interrupt, End, Planned
<1>4. CASE Decide(w)
  <2> DEFINE thread ==
        [mem[w] EXCEPT
            !.decision = answer[w],
            !.next = IF answer[w] = "APPROVED" THEN "execute" ELSE "finalize"]
  <2>1. answer[w] \in Decisions /\ mem[w].next = "ask"
    BY <1>4 DEF Decide, InGraph, TypeOK
  <2>2. thread \in Thread /\ Planned(thread)
    BY <1>m, <2>1 DEF Thread, Stages, Planned
  <2>3. Checkpoint(w, thread, "ask")
    BY <1>4 DEF Decide
  <2> HIDE DEF thread
  <2>4. mem' \in [Workers -> Thread] /\ checkpoint' \in Thread
    BY <2>2, <2>3, CheckpointTyped
  <2>5. Planned(checkpoint') /\ \A v \in Workers : Planned(mem'[v])
    BY <2>2, <2>3, CheckpointTyped
  <2>6. TypeOK'
    BY <1>4, <2>4 DEF Decide, TypeOK, rows, plans, requests, faults
  <2> QED
    BY <2>5, <2>6 DEF Planned
<1>5. CASE Execute(w)
  <2>1. effects' \in [1..MaxPlans -> Nat]
    <3>1. mem[w].plan \in 1..MaxPlans
      BY <1>5, <1>m, RunnerAssumption DEF Execute, InGraph, Planned, Thread
    <3> QED
      BY <1>5, <3>1 DEF Execute, TypeOK
  <2>2. TypeOK'
    BY <1>5, <2>1 DEF Execute, TypeOK, Steps, rows, requests, faults
  <2> QED
    BY <1>5, <2>2 DEF Execute, Planned
<1>6. CASE Executed(w)
  <2> DEFINE thread == [mem[w] EXCEPT !.next = "assess"]
  <2>1. thread \in Thread /\ Planned(thread)
    BY <1>m DEF Thread, Stages, Planned
  <2>2. Save(w, thread)
    BY <1>6 DEF Executed
  <2> HIDE DEF thread
  <2>3. mem' \in [Workers -> Thread] /\ checkpoint' \in Thread
    BY <2>1, <2>2, SaveTyped
  <2>4. Planned(checkpoint') /\ \A v \in Workers : Planned(mem'[v])
    BY <2>1, <2>2, SaveTyped
  <2>5. TypeOK'
    BY <1>6, <2>3 DEF Executed, TypeOK, Steps, rows, plans, requests, faults
  <2> QED
    BY <2>4, <2>5 DEF Planned
<1>7. CASE Assess(w)
  <2>1. PICK next \in {"plan", "finalize"} :
            Save(w, [mem[w] EXCEPT !.next = next])
    BY <1>7 DEF Assess
  <2> DEFINE thread == [mem[w] EXCEPT !.next = next]
  <2>2. thread \in Thread /\ Planned(thread)
    BY <1>m DEF Thread, Stages, Planned
  <2>3. Save(w, thread)
    BY <2>1
  <2> HIDE DEF thread
  <2>4. mem' \in [Workers -> Thread] /\ checkpoint' \in Thread
    BY <2>2, <2>3, SaveTyped
  <2>5. Planned(checkpoint') /\ \A v \in Workers : Planned(mem'[v])
    BY <2>2, <2>3, SaveTyped
  <2>6. TypeOK'
    BY <1>7, <2>4 DEF Assess, TypeOK, rows, plans, requests, faults
  <2> QED
    BY <2>5, <2>6 DEF Planned
<1>8. CASE Finalize(w)
  <2>1. PICK final \in Statuses :
            Checkpoint(w, [mem[w] EXCEPT !.next = "END", !.final = final],
                       "finalize")
    BY <1>8, RunnerAssumption DEF Finalize, Statuses
  <2> DEFINE thread == [mem[w] EXCEPT !.next = "END", !.final = final]
  <2>2. thread \in Thread /\ Planned(thread)
    BY <1>m DEF Thread, Stages, Planned
  <2>3. Checkpoint(w, thread, "finalize")
    BY <2>1
  <2> HIDE DEF thread
  <2>4. mem' \in [Workers -> Thread] /\ checkpoint' \in Thread
    BY <2>2, <2>3, CheckpointTyped
  <2>5. Planned(checkpoint') /\ \A v \in Workers : Planned(mem'[v])
    BY <2>2, <2>3, CheckpointTyped
  <2>6. TypeOK'
    BY <1>8, <2>4 DEF Finalize, TypeOK, Steps, rows, plans, requests, faults
  <2> QED
    BY <2>5, <2>6 DEF Planned
<1> QED
  BY <1>1, <1>2, <1>3, <1>4, <1>5, <1>6, <1>7, <1>8 DEF GraphStep

\* A worker that is done leaves no plan behind that it could execute.
LEMMA DonePlanned ==
    ASSUME TypeInv, NEW w \in Workers, Done(w), UNCHANGED checkpoint
    PROVE  Planned(checkpoint') /\ \A v \in Workers : Planned(mem'[v])
<1>1. Planned(NoThread)
  BY DEF Planned, NoThread
<1> QED
  BY <1>1 DEF Done, TypeInv, TypeOK

\* What the job writes when the graph has stopped.
LEMMA PersistTyped ==
    ASSUME TypeInv, NEW w \in Workers, PersistStep(w)
    PROVE  TypeInv'
<1> USE DEF TypeInv
<1>1. CASE Fail(w)
  <2>1. TypeOK'
    BY <1>1 DEF Fail, TypeOK, Steps, Statuses, plans, requests, faults
  <2> QED
    BY <1>1, <2>1 DEF Fail, Planned
<1>2. CASE Snapshot(w)
  <2>1. TypeOK'
    BY <1>2 DEF Snapshot, TypeOK, Steps, rows, plans, requests, faults
  <2> QED
    BY <1>2, <2>1 DEF Snapshot, TypeOK, Planned
<1>3. CASE Supersede(w)
  <2>1. approvals' \in Seq(Approval)
    BY <1>3, ResolvedTyped DEF Supersede, TypeOK
  <2>2. TypeOK'
    BY <1>3, <2>1 DEF Supersede, TypeOK, Steps, plans, requests, faults
  <2> QED
    BY <1>3, <2>2 DEF Supersede, Planned
<1>4. CASE Create(w)
  <2>1. [plan |-> mem[w].plan, status |-> "pending"] \in Approval
    BY DEF TypeOK, Thread, Approval
  <2>2. approvals' \in Seq(Approval)
    BY <1>4, <2>1 DEF Create, TypeOK
  <2>3. TypeOK'
    BY <1>4, <2>2 DEF Create, TypeOK, Steps, plans, requests, faults
  <2> QED
    BY <1>4, <2>3 DEF Create, Planned
<1>5. CASE Await(w)
  <2>1. TypeOK'
    BY <1>5 DEF Await, TypeOK, Steps, plans, requests, faults
  <2> QED
    BY <1>5, <2>1 DEF Await, Planned
<1>6. CASE Close(w)
  <2>1. mem[w].trail \in Seq(AuditEvent) /\ mem[w].final \in Statuses \cup {"none"}
    BY DEF TypeOK, Thread
  <2>2. status' \in Statuses
    BY <1>6, <2>1 DEF Close, Statuses
  <2>3. TypeOK'
    BY <1>6, <2>1, <2>2 DEF Close, TypeOK, Steps, plans, requests, faults
  <2> QED
    BY <1>6, <2>3 DEF Close, Planned
<1>7. CASE FlushOne(w)
  <2>1. /\ Head(unflushed[w]) \in AuditEvent
        /\ Tail(unflushed[w]) \in Seq(AuditEvent)
    BY <1>7, HeadTailProperties DEF FlushOne, TypeOK
  <2>2. ledger' \in Seq(AuditEvent)
    BY <1>7, <2>1 DEF FlushOne, TypeOK
  <2>3. TypeOK'
    BY <1>7, <2>1, <2>2 DEF FlushOne, TypeOK, plans, requests, faults
  <2> QED
    BY <1>7, <2>3 DEF FlushOne, Planned
<1>8. CASE Flushed(w)
  <2>1. TypeOK'
    BY <1>8, DoneTyped DEF Flushed, TypeOK, rows, plans, requests, faults
  <2> QED
    BY <1>8, <2>1, DonePlanned DEF Flushed, Planned
<1>9. CASE Announce(w)
  <2>1. notice' \in Notice
    BY <1>9, PublishTyped DEF Announce
  <2>2. TypeOK'
    BY <1>9, <2>1 DEF Announce, TypeOK, Steps, plans, requests, faults
  <2> QED
    BY <1>9, <2>2 DEF Announce, Planned
<1>10. CASE NotifyError(w) \/ NotifyApproval(w)
  <2>1. notice' \in Notice
    BY <1>10, PublishTyped DEF NotifyError, NotifyApproval
  <2>2. TypeOK'
    BY <1>10, <2>1, DoneTyped
    DEF NotifyError, NotifyApproval, TypeOK, plans, requests, faults
  <2> QED
    BY <1>10, <2>2, DonePlanned DEF NotifyError, NotifyApproval, Planned
<1>11. CASE LoseOne(w)
  <2>1. Tail(unflushed[w]) \in Seq(AuditEvent)
    BY <1>11, HeadTailProperties DEF LoseOne, TypeOK
  <2>2. lost' \in Nat /\ crashes + timeouts + lost' <= MaxFaults
    BY <1>11, RunnerAssumption DEF LoseOne, TypeOK
  <2>3. TypeOK'
    BY <1>11, <2>1, <2>2 DEF LoseOne, TypeOK, rows, plans, requests
  <2> QED
    BY <1>11, <2>3 DEF LoseOne, Planned
<1> QED
  BY <1>1, <1>2, <1>3, <1>4, <1>5, <1>6, <1>7, <1>8, <1>9, <1>10, <1>11
  DEF PersistStep

\* A worker that is not idle has a job.
Employed == \A w \in Workers : step[w] # "idle" => task[w] \in Job

\* A worker that dies gives its job back.
LEMMA FaultTyped ==
    ASSUME TypeInv, Employed, NEW w \in Workers, Crash(w) \/ TimeOut(w)
    PROVE  TypeInv'
<1> USE DEF TypeInv
<1>1. CASE Crash(w)
  <2>1. task[w] \in Job
    BY <1>1 DEF Crash, Employed
  <2>2. queue' \in Seq(Job)
    <3>1. queue \in Seq(Job) /\ <<task[w]>> \in Seq(Job)
      BY <2>1 DEF TypeOK
    <3>2. <<task[w]>> \o queue \in Seq(Job) /\ Append(queue, task[w]) \in Seq(Job)
      BY <2>1, <3>1, ConcatProperties, AppendProperties
    <3> QED
      BY <1>1, <3>2 DEF Crash
  <2>3. crashes' \in Nat /\ crashes' + timeouts + lost <= MaxFaults
    BY <1>1, RunnerAssumption DEF Crash, TypeOK
  <2>4. TypeOK'
    BY <1>1, <2>2, <2>3, DoneTyped DEF Crash, TypeOK, rows, plans, requests
  <2> QED
    BY <1>1, <2>4, DonePlanned DEF Crash, Planned
<1>2. CASE TimeOut(w)
  <2>1. timeouts' \in Nat /\ crashes + timeouts' + lost <= MaxFaults
    BY <1>2, RunnerAssumption DEF TimeOut, TypeOK
  <2>2. TypeOK'
    BY <1>2, <2>1, DoneTyped DEF TimeOut, TypeOK, rows, plans, requests
  <2> QED
    BY <1>2, <2>2, DonePlanned DEF TimeOut, Planned
<1> QED
  BY <1>1, <1>2

LEMMA EmployedStep ==
    ASSUME TypeInv, Employed, Next
    PROVE  Employed'
<1> USE DEF Employed
<1>1. CASE SubmitIncident \/ \E decision \in Decisions : SubmitApproval(decision)
  BY <1>1 DEF SubmitIncident, SubmitApproval, workers
<1>2. ASSUME NEW w \in Workers, Take(w)
      PROVE  Employed'
  <2>1. Head(queue) \in Job
    BY <1>2, HeadTailProperties DEF Take, TypeInv, TypeOK
  <2> QED
    BY <1>2, <2>1 DEF Take, TypeInv, TypeOK
<1>3. ASSUME NEW w \in Workers, Done(w)
      PROVE  Employed'
  BY <1>3 DEF Done, TypeInv, TypeOK
<1>4. ASSUME NEW w \in Workers, Begin(w) \/ Load(w)
      PROVE  Employed'
  BY <1>4 DEF Begin, Load, TypeInv, TypeOK
<1>5. ASSUME NEW w \in Workers, GraphStep(w)
      PROVE  Employed'
  BY <1>5 DEF GraphStep, PlanMade, GiveUp, Raise, Interrupt, Decide, Execute,
              Executed, Assess, Finalize, End, InGraph, TypeInv, TypeOK
<1>6. ASSUME NEW w \in Workers,
             \/ Announce(w) \/ Fail(w) \/ Snapshot(w) \/ Supersede(w)
             \/ Create(w) \/ Await(w) \/ Close(w) \/ FlushOne(w)
             \/ LoseOne(w)
      PROVE  Employed'
  BY <1>6 DEF Announce, Fail, Snapshot, Supersede, Create, Await, Close,
              FlushOne, LoseOne, TypeInv, TypeOK
<1> QED
  BY <1>1, <1>2, <1>3, <1>4, <1>5, <1>6
  DEF Next, WorkerStep, PersistStep, NotifyError, NotifyApproval, Flushed,
      Crash, TimeOut

LEMMA RunnerTypeStep ==
    ASSUME TypeInv, Employed, [Next]_vars
    PROVE  TypeInv' /\ Employed'
<1>1. CASE Next
  <2>1. Employed'
    BY <1>1, EmployedStep
  <2>2. TypeInv'
    BY <1>1, RequestTyped, StartTyped, GraphTyped, PersistTyped, FaultTyped
    DEF Next, WorkerStep
  <2> QED
    BY <2>1, <2>2
<1>2. CASE UNCHANGED vars
  BY <1>2 DEF vars, workers, rows, plans, requests, faults, TypeInv, TypeOK,
              Planned, Employed
<1> QED
  BY <1>1, <1>2

\* The runner's type invariant, for any number of workers, plans, requests
\* and faults.
THEOREM RunnerTyped == Spec => []TypeOK
<1>1. Init => TypeInv /\ Employed
  BY RunnerTypeInit DEF Init, Employed
<1>2. TypeInv /\ Employed /\ [Next]_vars => (TypeInv /\ Employed)'
  BY RunnerTypeStep
<1>3. TypeInv => TypeOK
  BY DEF TypeInv
<1> QED
  BY <1>1, <1>2, <1>3, PTL DEF Spec

-----------------------------------------------------------------------------
(* Side effects are repeated by faults alone, when jobs do not overlap.    *)

\* What is the case until two jobs overlap: at most one worker is busy.
OneAtATime ==
    \A v, w \in Workers : step[v] # "idle" /\ step[w] # "idle" => v = w

\* A step during which no worker but w is busy.
Alone(w) ==
    \A v \in Workers : v # w => step[v] = "idle" /\ step'[v] = "idle"

\* A plan is carried out once, and again only for a fault: redeliveries,
\* resubmissions and second answers alone never repeat a side effect.
RepeatsAreFaults ==
    \A p \in 1..MaxPlans : effects[p] <= 1 + crashes + timeouts

\* Strengthening of RepeatsAreFaults.  The graph runs on the thread that is
\* saved; a plan that is not made yet has no effects; and a plan that is
\* still to be carried out has none but those that faults account for.
InStep ==
    \A w \in Workers :
        /\ step[w] \in {"graph", "calling"} => mem[w] = checkpoint
        /\ step[w] = "calling" => checkpoint.next = "execute"

Fresh ==
    /\ checkpoint.plan <= made
    /\ \A p \in 1..MaxPlans : p > made => effects[p] = 0

Owed ==
    checkpoint.next \in {"ask", "execute"} /\ (\A w \in Workers : step[w] # "calling")
        => effects[checkpoint.plan] <= crashes + timeouts

RepeatInv == InStep /\ Fresh /\ Owed /\ RepeatsAreFaults

Typed == TypeInv /\ Employed

\* A worker's step changes nothing that another worker keeps.
LEMMA StepsOwn ==
    ASSUME Typed, NEW w \in Workers, WorkerStep(w) \/ Crash(w) \/ TimeOut(w)
    PROVE  \A v \in Workers : v # w =>
               /\ step'[v] = step[v] /\ mem'[v] = mem[v] /\ task'[v] = task[v]
               /\ unflushed'[v] = unflushed[v]
<1>1. /\ step \in [Workers -> Steps] /\ mem \in [Workers -> Thread]
      /\ task \in [Workers -> Job \cup {NoJob}]
      /\ unflushed \in [Workers -> Seq(AuditEvent)]
  BY DEF Typed, TypeInv, TypeOK
<1>2. step' = step \/ \E s : step' = [step EXCEPT ![w] = s]
  BY DEF WorkerStep, Take, Begin, Load, GraphStep, PlanMade, GiveUp, Raise,
         Interrupt, Decide, Execute, Executed, Assess, Finalize, End,
         PersistStep, Announce, Fail, NotifyError, Snapshot, Supersede, Create,
         Await, NotifyApproval, Close, FlushOne, LoseOne, Flushed, Crash,
         TimeOut, Done
<1>3. mem' = mem \/ \E thread : mem' = [mem EXCEPT ![w] = thread]
  BY DEF WorkerStep, Take, Begin, Load, GraphStep, PlanMade, GiveUp, Raise,
         Interrupt, Decide, Execute, Executed, Assess, Finalize, End,
         PersistStep, Announce, Fail, NotifyError, Snapshot, Supersede, Create,
         Await, NotifyApproval, Close, FlushOne, LoseOne, Flushed, Crash,
         TimeOut, Done, Checkpoint, Save
<1>4. task' = task \/ \E job : task' = [task EXCEPT ![w] = job]
  BY DEF WorkerStep, Take, Begin, Load, GraphStep, PlanMade, GiveUp, Raise,
         Interrupt, Decide, Execute, Executed, Assess, Finalize, End,
         PersistStep, Announce, Fail, NotifyError, Snapshot, Supersede, Create,
         Await, NotifyApproval, Close, FlushOne, LoseOne, Flushed, Crash,
         TimeOut, Done
<1>5. unflushed' = unflushed
      \/ \E rest : unflushed' = [unflushed EXCEPT ![w] = rest]
  BY DEF WorkerStep, Take, Begin, Load, GraphStep, PlanMade, GiveUp, Raise,
         Interrupt, Decide, Execute, Executed, Assess, Finalize, End,
         PersistStep, Announce, Fail, NotifyError, Snapshot, Supersede, Create,
         Await, NotifyApproval, Close, FlushOne, LoseOne, Flushed, Crash,
         TimeOut, Done
<1> QED
  BY <1>1, <1>2, <1>3, <1>4, <1>5

\* When jobs do not overlap, a worker that takes a step is alone.
LEMMA StepsAlone ==
    ASSUME Typed, OneAtATime, OneAtATime', NEW w \in Workers,
           WorkerStep(w) \/ Crash(w) \/ TimeOut(w)
    PROVE  Alone(w)
<1>1. step[w] # "idle" \/ step'[w] # "idle"
  BY DEF WorkerStep, Take, Begin, Load, GraphStep, PlanMade, GiveUp, Raise,
         Interrupt, Decide, Execute, Executed, Assess, Finalize, End, InGraph,
         PersistStep, Announce, Fail, NotifyError, Snapshot, Supersede, Create,
         Await, NotifyApproval, Close, FlushOne, LoseOne, Flushed, Crash,
         TimeOut, Typed, TypeInv, TypeOK
<1> QED
  BY <1>1, StepsOwn DEF OneAtATime, Alone

LEMMA RepeatInit == Init => RepeatInv
BY RunnerAssumption
DEF Init, RepeatInv, InStep, Fresh, Owed, RepeatsAreFaults, NoThread

\* What a step leaves alone, it cannot disturb.
LEMMA RepeatKept ==
    ASSUME RepeatInv, NEW w \in Workers, Alone(w), Typed,
           UNCHANGED <<checkpoint, effects, made, crashes, timeouts>>,
           step[w] # "calling", step'[w] \notin {"graph", "calling"}
    PROVE  RepeatInv'
<1>1. \A v \in Workers : step[v] # "calling" /\ step'[v] \notin {"graph", "calling"}
  BY DEF Alone
<1> QED
  BY <1>1 DEF RepeatInv, InStep, Fresh, Owed, RepeatsAreFaults

\* A fault accounts for what was done since the last checkpoint.
LEMMA RepeatFault ==
    ASSUME RepeatInv, NEW w \in Workers, Alone(w), Typed,
           Crash(w) \/ TimeOut(w)
    PROVE  RepeatInv'
<1>1. /\ UNCHANGED <<checkpoint, effects, made>>
      /\ effects \in [1..MaxPlans -> Nat]
  BY DEF Crash, TimeOut, plans, Typed, TypeInv, TypeOK
<1>n. /\ 1 + crashes + timeouts = crashes' + timeouts'
      /\ crashes' \in Nat /\ timeouts' \in Nat
  <2>1. crashes \in Nat /\ timeouts \in Nat
    BY DEF Typed, TypeInv, TypeOK
  <2>2. CASE crashes' = crashes + 1 /\ timeouts' = timeouts
    BY <2>1, <2>2
  <2>3. CASE timeouts' = timeouts + 1 /\ crashes' = crashes
    BY <2>1, <2>3
  <2> QED
    BY <2>2, <2>3 DEF Crash, TimeOut, requests
<1>2. \A v \in Workers : step'[v] = "idle"
  BY DEF Alone, Crash, TimeOut, Done, Typed, TypeInv, TypeOK
<1>3. checkpoint.next \in {"ask", "execute"} => checkpoint.plan \in 1..MaxPlans
  BY RunnerAssumption DEF Typed, TypeInv, TypeOK, Planned, Thread
<1>4. InStep' /\ Fresh'
  BY <1>1, <1>2 DEF RepeatInv, InStep, Fresh
<1>5. \A p \in 1..MaxPlans : effects'[p] <= crashes' + timeouts'
  <2> SUFFICES ASSUME NEW p \in 1..MaxPlans
               PROVE  effects[p] <= crashes' + timeouts'
    BY <1>1
  <2>1. effects[p] <= 1 + crashes + timeouts
    BY DEF RepeatInv, RepeatsAreFaults
  <2> QED
    BY <1>n, <2>1
<1>6. RepeatsAreFaults'
  <2> SUFFICES ASSUME NEW p \in 1..MaxPlans
               PROVE  effects'[p] <= 1 + crashes' + timeouts'
    BY DEF RepeatsAreFaults
  <2>1. effects'[p] <= crashes' + timeouts' /\ effects'[p] \in Nat
    BY <1>1, <1>5
  <2> QED
    BY <1>n, <2>1
<1>7. Owed'
  BY <1>1, <1>3, <1>5 DEF Owed
<1> QED
  BY <1>4, <1>6, <1>7 DEF RepeatInv

\* A checkpoint of a plan that is not to be carried out any more, or of the
\* plan that already was.
LEMMA RepeatSaved ==
    ASSUME RepeatInv, NEW w \in Workers, Alone(w), Typed,
           UNCHANGED <<effects, made, crashes, timeouts>>,
           step'[w] \in {"graph", "announce"}, mem'[w] = checkpoint',
           checkpoint'.plan = checkpoint.plan,
           \/ checkpoint'.next \notin {"ask", "execute"}
           \/ /\ checkpoint.next \in {"ask", "execute"}
              /\ step[w] # "calling"
    PROVE  RepeatInv'
<1>1. \A v \in Workers : v # w => step[v] = "idle" /\ step'[v] = "idle"
  BY DEF Alone
<1>2. InStep' /\ Fresh'
  BY <1>1 DEF RepeatInv, InStep, Fresh
<1>3. Owed'
  BY <1>1 DEF RepeatInv, Owed
<1>4. RepeatsAreFaults'
  BY DEF RepeatInv, RepeatsAreFaults
<1> QED
  BY <1>2, <1>3, <1>4 DEF RepeatInv

\* A stage saves the thread it returns.
LEMMA SavedThread ==
    ASSUME Typed, NEW w \in Workers, NEW thread \in Thread,
           NEW event \in {"ask", "finalize"}, Checkpoint(w, thread, event)
    PROVE  /\ checkpoint'.plan = thread.plan /\ checkpoint'.next = thread.next
           /\ checkpoint'.final = thread.final /\ mem'[w] = checkpoint'
<1> DEFINE saved == [thread EXCEPT !.trail = Append(@,
                         [event |-> event, plan |-> thread.plan])]
<1>1. /\ saved.next = thread.next /\ saved.plan = thread.plan
      /\ saved.final = thread.final
  BY EventTyped
<1>2. Save(w, saved)
  BY DEF Checkpoint
<1> HIDE DEF saved
<1>3. mem' = [mem EXCEPT ![w] = saved] /\ checkpoint' = saved
  BY <1>2 DEF Save, Typed, TypeInv, TypeOK
<1> QED
  BY <1>1, <1>3 DEF Typed, TypeInv, TypeOK

\* Without an event, the saved thread is the one it returns.
LEMMA SavedAsIs ==
    ASSUME Typed, NEW w \in Workers, NEW thread \in Thread, Save(w, thread)
    PROVE  checkpoint' = thread /\ mem'[w] = checkpoint'
BY DEF Save, Typed, TypeInv, TypeOK

\* A stage that returns saves the plan it ran on, and waits for a human or
\* executes it only if it is the approval.
LEMMA StageSaved ==
    ASSUME Typed, NEW w \in Workers,
           GiveUp(w) \/ Decide(w) \/ Executed(w) \/ Assess(w) \/ Finalize(w)
    PROVE  /\ mem'[w] = checkpoint' /\ checkpoint'.plan = mem[w].plan
           /\ step'[w] \in {"graph", "announce"}
           /\ \/ checkpoint'.next \notin {"ask", "execute"}
              \/ mem[w].next = "ask" /\ step[w] = "graph"
           /\ UNCHANGED <<queue, task, plans, requests, faults>>
<1>1. /\ mem[w] \in Thread /\ mem \in [Workers -> Thread]
      /\ step \in [Workers -> Steps]
  BY DEF Typed, TypeInv, TypeOK
<1>2. /\ UNCHANGED <<queue, task, plans, requests, faults>>
      /\ step'[w] \in {"graph", "announce"}
  BY <1>1 DEF GiveUp, Decide, Executed, Assess, Finalize, InGraph
<1>3. CASE GiveUp(w)
  <2> DEFINE thread == [mem[w] EXCEPT !.next = "finalize"]
  <2>1. /\ thread \in Thread /\ thread.plan = mem[w].plan
        /\ thread.next = "finalize"
    BY <1>1 DEF Thread, Stages
  <2>2. Save(w, thread)
    BY <1>3 DEF GiveUp
  <2> HIDE DEF thread
  <2> QED
    BY <1>2, <2>1, <2>2, SavedAsIs
<1>4. CASE Decide(w)
  <2> DEFINE thread ==
        [mem[w] EXCEPT
            !.decision = answer[w],
            !.next = IF answer[w] = "APPROVED" THEN "execute" ELSE "finalize"]
  <2>1. answer[w] \in Decisions /\ step[w] = "graph" /\ mem[w].next = "ask"
    BY <1>4 DEF Decide, InGraph, Typed, TypeInv, TypeOK
  <2>2. thread \in Thread /\ thread.plan = mem[w].plan
    BY <1>1, <2>1 DEF Thread, Stages
  <2>3. Checkpoint(w, thread, "ask")
    BY <1>4 DEF Decide
  <2> HIDE DEF thread
  <2> QED
    BY <1>2, <2>1, <2>2, <2>3, SavedThread
<1>5. CASE Executed(w)
  <2> DEFINE thread == [mem[w] EXCEPT !.next = "assess"]
  <2>1. /\ thread \in Thread /\ thread.plan = mem[w].plan
        /\ thread.next = "assess"
    BY <1>1 DEF Thread, Stages
  <2>2. Save(w, thread)
    BY <1>5 DEF Executed
  <2> HIDE DEF thread
  <2> QED
    BY <1>2, <2>1, <2>2, SavedAsIs
<1>6. CASE Assess(w)
  <2>1. PICK next \in {"plan", "finalize"} :
            Save(w, [mem[w] EXCEPT !.next = next])
    BY <1>6 DEF Assess
  <2> DEFINE thread == [mem[w] EXCEPT !.next = next]
  <2>2. /\ thread \in Thread /\ thread.plan = mem[w].plan
        /\ thread.next \in {"plan", "finalize"}
    BY <1>1 DEF Thread, Stages
  <2>3. Save(w, thread)
    BY <2>1
  <2> HIDE DEF thread
  <2> QED
    BY <1>2, <2>2, <2>3, SavedAsIs
<1>7. CASE Finalize(w)
  <2>1. PICK final \in Statuses :
            Checkpoint(w, [mem[w] EXCEPT !.next = "END", !.final = final],
                       "finalize")
    BY <1>7, RunnerAssumption DEF Finalize, Statuses
  <2> DEFINE thread == [mem[w] EXCEPT !.next = "END", !.final = final]
  <2>2. /\ thread \in Thread /\ thread.plan = mem[w].plan
        /\ thread.next = "END"
    BY <1>1 DEF Thread, Stages
  <2>3. Checkpoint(w, thread, "finalize")
    BY <2>1
  <2> HIDE DEF thread
  <2> QED
    BY <1>2, <2>2, <2>3, SavedThread
<1> QED
  BY <1>3, <1>4, <1>5, <1>6, <1>7

\* The steps of the graph.
LEMMA RepeatGraph ==
    ASSUME RepeatInv, NEW w \in Workers, Alone(w), Typed, GraphStep(w)
    PROVE  RepeatInv'
<1>1. /\ \A v \in Workers : v # w => step[v] = "idle" /\ step'[v] = "idle"
      /\ mem[w] \in Thread /\ Planned(mem[w])
      /\ mem \in [Workers -> Thread]
      /\ step \in [Workers -> Steps]
      /\ effects \in [1..MaxPlans -> Nat] /\ made \in Nat
      /\ crashes \in Nat /\ timeouts \in Nat
  BY RunnerAssumption DEF Alone, Typed, TypeInv, TypeOK
<1>2. ASSUME NEW next \in {"ask", "execute"}, PlanMade(w, next)
      PROVE  RepeatInv'
  <2>1. /\ mem'[w] = checkpoint' /\ checkpoint'.plan = made + 1
        /\ made' = made + 1 /\ made' \in 1..MaxPlans
        /\ UNCHANGED <<step, effects, crashes, timeouts>> /\ step[w] = "graph"
    BY <1>1, <1>2, RunnerAssumption
    DEF PlanMade, Save, Thread, InGraph, faults
  <2>2. effects[made'] = 0
    BY <1>1, <2>1 DEF RepeatInv, Fresh
  <2>3. InStep'
    BY <1>1, <2>1 DEF InStep
  <2>4. Fresh'
    BY <1>1, <2>1 DEF RepeatInv, Fresh
  <2>5. Owed'
    BY <1>1, <2>1, <2>2 DEF Owed
  <2>6. RepeatsAreFaults'
    BY <2>1 DEF RepeatInv, RepeatsAreFaults
  <2> QED
    BY <2>3, <2>4, <2>5, <2>6 DEF RepeatInv
<1>3. CASE GiveUp(w) \/ Decide(w) \/ Executed(w) \/ Assess(w) \/ Finalize(w)
  <2>1. mem[w] = checkpoint
    BY <1>3 DEF GiveUp, Decide, Executed, Assess, Finalize, InGraph,
                RepeatInv, InStep
  <2> QED
    BY <1>3, <2>1, StageSaved, RepeatSaved DEF plans, faults
<1>4. CASE Raise(w) \/ Interrupt(w) \/ End(w)
  <2>1. /\ UNCHANGED <<checkpoint, effects, made, crashes, timeouts>>
        /\ step[w] # "calling" /\ step'[w] \notin {"graph", "calling"}
    BY <1>1, <1>4 DEF Raise, Interrupt, End, InGraph, plans, faults
  <2> QED
    BY <2>1, RepeatKept
<1>5. CASE Execute(w)
  <2>1. /\ UNCHANGED <<checkpoint, mem, made, crashes, timeouts>>
        /\ mem[w] = checkpoint /\ checkpoint.next = "execute"
        /\ step[w] = "graph" /\ step'[w] = "calling"
        /\ effects' = [effects EXCEPT ![checkpoint.plan] = @ + 1]
    BY <1>1, <1>5 DEF Execute, InGraph, RepeatInv, InStep, faults
  <2>2. checkpoint.plan \in 1..MaxPlans
    BY <1>1, <2>1, RunnerAssumption DEF Planned, Thread
  <2>3. effects[checkpoint.plan] <= crashes + timeouts
    BY <1>1, <2>1 DEF RepeatInv, Owed
  <2>4. InStep' /\ Owed'
    BY <1>1, <2>1 DEF InStep, Owed
  <2>5. Fresh'
    BY <1>1, <2>1, <2>2 DEF RepeatInv, Fresh
  <2>6. RepeatsAreFaults'
    BY <1>1, <2>1, <2>2, <2>3 DEF RepeatInv, RepeatsAreFaults
  <2> QED
    BY <2>4, <2>5, <2>6 DEF RepeatInv
<1> QED
  BY <1>2, <1>3, <1>4, <1>5 DEF GraphStep

LEMMA RepeatStep ==
    ASSUME RepeatInv, OneAtATime, OneAtATime', Typed, [Next]_vars
    PROVE  RepeatInv'
<1>1. CASE SubmitIncident \/ \E decision \in Decisions : SubmitApproval(decision)
  BY <1>1 DEF SubmitIncident, SubmitApproval, workers, plans, faults,
              RepeatInv, InStep, Fresh, Owed, RepeatsAreFaults
<1>2. ASSUME NEW w \in Workers,
             \/ Take(w) \/ Begin(w) \/ Announce(w) \/ Fail(w)
             \/ NotifyError(w) \/ Snapshot(w) \/ Supersede(w) \/ Create(w)
             \/ Await(w) \/ NotifyApproval(w) \/ Close(w) \/ FlushOne(w)
             \/ LoseOne(w) \/ Flushed(w)
      PROVE  RepeatInv'
  <2>1. step[w] # "calling" /\ step'[w] \notin {"graph", "calling"}
    BY <1>2 DEF Take, Begin, Announce, Fail, NotifyError, Snapshot, Supersede,
                Create, Await, NotifyApproval, Close, FlushOne, LoseOne,
                Flushed, Done, Typed, TypeInv, TypeOK
  <2>2. UNCHANGED <<checkpoint, effects, made, crashes, timeouts>>
    BY <1>2 DEF Take, Begin, Announce, Fail, NotifyError, Snapshot, Supersede,
                Create, Await, NotifyApproval, Close, FlushOne, LoseOne,
                Flushed, plans, faults
  <2>3. Alone(w)
    BY <1>2, StepsAlone DEF WorkerStep, PersistStep
  <2> QED
    BY <2>1, <2>2, <2>3, RepeatKept
<1>3. ASSUME NEW w \in Workers, Load(w)
      PROVE  RepeatInv'
  <2>1. /\ UNCHANGED <<effects, made, crashes, timeouts>>
        /\ step'[w] = "graph" /\ step[w] # "calling"
        /\ mem'[w] = checkpoint' /\ checkpoint'.plan = checkpoint.plan
        /\ checkpoint'.next \in {"plan", checkpoint.next}
    BY <1>3 DEF Load, plans, faults, Typed, TypeInv, TypeOK, Thread
  <2>2. Alone(w)
    BY <1>3, StepsAlone DEF WorkerStep
  <2> QED
    BY <2>1, <2>2, RepeatSaved
<1>4. CASE UNCHANGED vars
  BY <1>4 DEF vars, workers, rows, plans, requests, faults,
              RepeatInv, InStep, Fresh, Owed, RepeatsAreFaults
<1>5. ASSUME NEW w \in Workers, GraphStep(w) \/ Crash(w) \/ TimeOut(w)
      PROVE  RepeatInv'
  BY <1>5, StepsAlone, RepeatGraph, RepeatFault DEF WorkerStep
<1> QED
  BY <1>1, <1>2, <1>3, <1>4, <1>5 DEF Next, WorkerStep, PersistStep

\* Until two jobs overlap at most one worker is busy, and once they have
\* overlapped it is not forgotten.
LEMMA OverlapStep ==
    ASSUME Typed, ~overlapped => OneAtATime, [Next]_vars, ~overlapped'
    PROVE  ~overlapped /\ OneAtATime'
<1>1. step \in [Workers -> Steps]
  BY DEF Typed, TypeInv, TypeOK
<1>2. CASE UNCHANGED <<step, overlapped>>
  BY <1>2 DEF OneAtATime
<1>3. ASSUME NEW w \in Workers, Take(w)
      PROVE  ~overlapped /\ OneAtATime'
  BY <1>1, <1>3 DEF Take, OneAtATime
<1>4. ASSUME NEW w \in Workers, WorkerStep(w) \/ Crash(w) \/ TimeOut(w),
             ~Take(w)
      PROVE  ~overlapped /\ OneAtATime'
  <2>1. UNCHANGED overlapped /\ step[w] # "idle"
    BY <1>4 DEF WorkerStep, Begin, Load, GraphStep, PlanMade, GiveUp, Raise,
         Interrupt, Decide, Execute, Executed, Assess, Finalize, End, InGraph,
         PersistStep, Announce, Fail, NotifyError, Snapshot, Supersede,
         Create, Await, NotifyApproval, Close, FlushOne, LoseOne, Flushed,
         Crash, TimeOut, faults
  <2>2. \A v \in Workers : v # w => step'[v] = step[v]
    BY <1>4, StepsOwn
  <2> QED
    BY <2>1, <2>2 DEF OneAtATime
<1> QED
  BY <1>2, <1>3, <1>4
  DEF Next, SubmitIncident, SubmitApproval, vars, workers, faults

\* Until two jobs overlap, each fault accounts for one repetition at most.
LEMMA RunnerRepeatsAlone == Spec => [](~overlapped => RepeatsAreFaults)
<1> DEFINE Inv == Typed /\ (~overlapped => OneAtATime /\ RepeatInv)
<1>1. Init => Inv
  BY RunnerTypeInit, RepeatInit DEF Init, Typed, Employed, OneAtATime
<1>2. Inv /\ [Next]_vars => Inv'
  BY RunnerTypeStep, OverlapStep, RepeatStep DEF Typed
<1>3. Inv => (~overlapped => RepeatsAreFaults)
  BY DEF RepeatInv
<1> QED
  BY <1>1, <1>2, <1>3, PTL DEF Spec

-----------------------------------------------------------------------------
(* What a job leaves in the rows and on the stream when it is done.        *)

NonePending == \A i \in DOMAIN approvals : approvals[i].status # "pending"

OnePending ==
    /\ \E i \in DOMAIN approvals :
           approvals[i] = [plan |-> checkpoint.plan, status |-> "pending"]
    /\ \A i, j \in DOMAIN approvals :
           approvals[i].status = "pending" /\ approvals[j].status = "pending"
               => i = j

Recorded ==
    status = IF checkpoint.final = "none" THEN "FAILED" ELSE checkpoint.final

\* The end of the ledger and the events still to be inserted are the trail.
Trailing(rest) ==
    \E start \in 0..Len(ledger) :
        SubSeq(ledger, start + 1, Len(ledger)) \o rest = checkpoint.trail

\* What holds at each step of the job that runs: its copy of the thread is
\* the one that is saved, the thread stands where the step supposes it does,
\* and the rows that were written before it have not been lost.
WritingOf(w) ==
    /\ step[w] \in {"graph", "calling", "announce", "supersede", "create",
                    "await", "notify", "close", "flush"}
           => mem[w] = checkpoint
    /\ step[w] = "calling" => checkpoint.next = "execute"
    /\ step[w] \in {"fail", "error"} => checkpoint.next \notin {"ask", "END"}
    /\ step[w] = "snapshot" => checkpoint.next \in {"ask", "END"}
    /\ step[w] \in {"supersede", "create", "await", "notify"}
           => checkpoint.next = "ask"
    /\ step[w] \in {"announce", "close", "flush"} => checkpoint.next = "END"
    /\ step[w] = "create" => NonePending
    /\ step[w] \in {"await", "notify"} => OnePending
    /\ step[w] = "notify" => status = "AWAITING_APPROVAL"
    /\ step[w] = "flush" =>
           Recorded /\ (lost = 0 => Trailing(unflushed[w]))

Writing == \A w \in Workers : WritingOf(w)

\* The event of a graph that ended is the last one, once it is published,
\* unless a fault interferes.
Announced ==
    /\ crashes = 0 /\ timeouts = 0
    /\ checkpoint.next = "END" /\ checkpoint.final # "none"
    /\ \A w \in Workers : step[w] # "announce"
    => notice = [event |-> "finalized", plan |-> 0, final |-> checkpoint.final]

\* What a job that was not timed out has left when nothing runs.
Rest ==
    timeouts = 0 /\ Quiet =>
        /\ checkpoint.next = "ask" =>
               /\ status = "AWAITING_APPROVAL" /\ OnePending
               /\ notice = [event |-> "approval_required",
                            plan |-> checkpoint.plan, final |-> "none"]
        /\ checkpoint.next = "END" /\ checkpoint.final # "none" =>
               Recorded /\ (lost = 0 => Trailing(<<>>))

\* An incident that was started once has no end while its graph runs.
OneRun ==
    submissions + crashes <= 1 =>
        /\ submissions = 0 =>
               /\ queue = <<>> /\ checkpoint = NoThread
               /\ \A w \in Workers : step[w] = "idle"
        /\ (\E i \in DOMAIN queue : queue[i].kind = "run") =>
               /\ Len(queue) = 1 /\ checkpoint = NoThread
               /\ \A w \in Workers : step[w] = "idle"
        /\ \A w \in Workers :
               step[w] \in {"begin", "load"} /\ task[w].kind = "run" =>
                   queue = <<>> /\ checkpoint = NoThread
        /\ checkpoint.next # "END" => checkpoint.final = "none"

WriteInv == Writing /\ Announced /\ Rest /\ OneRun

LEMMA WriteInit == Init => WriteInv
BY DEF Init, WriteInv, Writing, WritingOf, Announced, Rest, OneRun, NoThread

\* Inserting the next event moves it from the events that remain to the end
\* of the ledger.
LEMMA InsertNext ==
    ASSUME NEW S, NEW book \in Seq(S), NEW rest \in Seq(S), rest # <<>>,
           NEW start \in 0..Len(book)
    PROVE  SubSeq(Append(book, Head(rest)), start + 1, Len(book) + 1)
               \o Tail(rest)
           = SubSeq(book, start + 1, Len(book)) \o rest
<1> DEFINE n == Len(book)
           long == Append(book, Head(rest))
           a == SubSeq(long, start + 1, n + 1)
           b == SubSeq(book, start + 1, n)
           t == Tail(rest)
<1>1. n \in Nat /\ start \in Nat /\ start <= n
  BY LenProperties
<1>2. /\ Head(rest) \in S /\ t \in Seq(S) /\ Len(t) = Len(rest) - 1
      /\ \A i \in 1..Len(t) : t[i] = rest[i + 1]
      /\ rest[1] = Head(rest) /\ Len(rest) \in Nat \ {0}
  BY HeadTailProperties, EmptySeq
<1>3. /\ long \in Seq(S) /\ Len(long) = n + 1
      /\ \A i \in 1..n : long[i] = book[i]
      /\ long[n + 1] = Head(rest)
  BY <1>1, <1>2, AppendProperties
<1>4. /\ a \in Seq(S) /\ Len(a) = n + 1 - start
      /\ \A i \in 1..(n + 1 - start) : a[i] = long[start + i]
  <2> HIDE DEF long, n
  <2>1. \A i \in (start + 1)..(n + 1) : long[i] \in S
    BY <1>1, <1>3, ElementOfSeq
  <2> QED
    BY <1>1, <2>1, SubSeqProperties
<1>5. /\ b \in Seq(S) /\ Len(b) = n - start
      /\ \A i \in 1..(n - start) : b[i] = book[start + i]
  <2> HIDE DEF long
  <2>1. \A i \in (start + 1)..n : book[i] \in S
    BY <1>1, ElementOfSeq
  <2> QED
    BY <1>1, <2>1, SubSeqProperties
<1> HIDE DEF a, b, t, long, n
<1>6. /\ a \o t \in Seq(S) /\ Len(a \o t) = Len(a) + Len(t)
      /\ \A i \in 1..(Len(a) + Len(t)) :
             (a \o t)[i] = IF i <= Len(a) THEN a[i] ELSE t[i - Len(a)]
  BY <1>2, <1>4, ConcatProperties
<1>7. /\ b \o rest \in Seq(S) /\ Len(b \o rest) = Len(b) + Len(rest)
      /\ \A i \in 1..(Len(b) + Len(rest)) :
             (b \o rest)[i] = IF i <= Len(b) THEN b[i] ELSE rest[i - Len(b)]
  BY <1>5, ConcatProperties
<1>8. Len(a \o t) = Len(b \o rest)
  BY <1>1, <1>2, <1>4, <1>5, <1>6, <1>7
<1>9. ASSUME NEW i \in 1..Len(a \o t)
      PROVE  (a \o t)[i] = (b \o rest)[i]
  <2>0. /\ i \in Nat /\ i >= 1 /\ i <= Len(b) + Len(rest)
        /\ i <= Len(a) + Len(t) /\ Len(a) = Len(b) + 1 /\ Len(b) \in Nat
    BY <1>1, <1>2, <1>4, <1>5, <1>6, <1>7, <1>8
  <2>1. CASE i <= Len(b)
    <3>1. i \in 1..Len(b) /\ i \in 1..Len(a)
      BY <2>0, <2>1
    <3>2. (a \o t)[i] = a[i]
      BY <1>6, <2>0, <3>1
    <3>3. (b \o rest)[i] = b[i]
      BY <1>7, <2>0, <2>1
    <3>4. start + i \in 1..n /\ i \in 1..(n - start) /\ i \in 1..(n + 1 - start)
      BY <1>1, <1>5, <2>0, <3>1
    <3>5. a[i] = long[start + i] /\ b[i] = book[start + i]
      BY <1>4, <1>5, <3>4
    <3> QED
      BY <1>3, <3>2, <3>3, <3>4, <3>5
  <2>2. CASE i = Len(b) + 1
    <3>1. (a \o t)[i] = a[i] /\ a[i] = long[n + 1]
      BY <1>1, <1>2, <1>4, <1>5, <1>6, <2>2
    <3>2. (b \o rest)[i] = rest[i - Len(b)] /\ i - Len(b) = 1
      BY <1>7, <2>0, <2>2
    <3> QED
      BY <1>2, <1>3, <3>1, <3>2
  <2>3. CASE i > Len(b) + 1
    <3>0. Len(a) \in Nat /\ i > Len(a) /\ Len(t) \in Nat
      BY <1>2, <2>0, <2>3
    <3>1. (a \o t)[i] = t[i - Len(a)] /\ i - Len(a) \in 1..Len(t)
      BY <1>6, <2>0, <3>0
    <3>2. (b \o rest)[i] = rest[i - Len(b)] /\ i - Len(b) = i - Len(a) + 1
      BY <1>7, <2>0, <2>3
    <3> QED
      BY <1>2, <3>1, <3>2
  <2> QED
    BY <2>0, <2>1, <2>2, <2>3
<1>10. a \o t = b \o rest
  BY <1>6, <1>7, <1>8, <1>9, SeqEqual
<1> QED
  BY <1>10 DEF a, b, t, long, n

-----------------------------------------------------------------------------
(* Its steps.                                                              *)

\* While a job runs nothing is at rest.
LEMMA BusyRest ==
    ASSUME NEW w \in Workers, step'[w] # "idle"
    PROVE  Rest'
BY DEF Rest, Quiet

LEMMA AnnouncedKept ==
    ASSUME WriteInv, NEW w \in Workers, Alone(w), step[w] # "announce",
           UNCHANGED <<notice, crashes, timeouts>>,
           UNCHANGED checkpoint \/ checkpoint'.next # "END"
    PROVE  Announced'
<1>1. \A v \in Workers : v # w => step[v] = "idle" /\ step'[v] = "idle"
  BY DEF Alone
<1> QED
  BY <1>1 DEF WriteInv, Announced

\* A job that has been loaded leaves the queue alone, and only the end of
\* its graph gives the incident a final status.
LEMMA OneRunKept ==
    ASSUME WriteInv, Typed, NEW w \in Workers, Alone(w), step[w] # "idle",
           step'[w] \notin {"begin", "load"},
           UNCHANGED <<queue, submissions, crashes>>,
           checkpoint'.next # "END" =>
               checkpoint.next # "END" /\ checkpoint'.final = checkpoint.final
    PROVE  OneRun'
<1>1. \A v \in Workers : v # w => step[v] = "idle" /\ step'[v] = "idle"
  BY DEF Alone
<1> QED
  BY <1>1 DEF WriteInv, OneRun

LEMMA WriteRequest ==
    ASSUME WriteInv, Typed,
           SubmitIncident \/ \E decision \in Decisions : SubmitApproval(decision)
    PROVE  WriteInv'
<1>1. /\ UNCHANGED <<workers, checkpoint, rows, faults>>
      /\ queue \in Seq(Job) /\ submissions \in Nat /\ crashes \in Nat
  <2>1. UNCHANGED <<workers, checkpoint, rows, faults>>
    BY DEF SubmitIncident, SubmitApproval
  <2>2. queue \in Seq(Job) /\ submissions \in Nat /\ crashes \in Nat
    BY RunnerAssumption DEF Typed, TypeInv, TypeOK
  <2> QED
    BY <2>1, <2>2
<1>2. PICK job \in Job : queue' = Append(queue, job)
  BY DEF SubmitIncident, SubmitApproval, Job
<1>3. /\ queue' # <<>> /\ Len(queue') = Len(queue) + 1
      /\ \A i \in 1..Len(queue) : queue'[i] = queue[i]
      /\ queue'[Len(queue) + 1] = job
      /\ DOMAIN queue = 1..Len(queue) /\ DOMAIN queue' = 1..(Len(queue) + 1)
      /\ Len(queue) \in Nat
  <2>1. Len(queue) \in Nat
    BY <1>1, LenProperties
  <2>2. /\ queue' \in Seq(Job) /\ Len(queue') = Len(queue) + 1
        /\ \A i \in 1..Len(queue) : queue'[i] = queue[i]
        /\ queue'[Len(queue) + 1] = job
    BY <1>1, <1>2, AppendProperties
  <2> QED
    BY <1>1, <2>1, <2>2, LenProperties, EmptySeq
<1>4. Writing'
  BY <1>1 DEF workers, rows, faults, WriteInv, Writing, WritingOf,
              NonePending, OnePending, Recorded, Trailing
<1>5. Announced' /\ Rest'
  BY <1>1, <1>3 DEF workers, rows, faults, WriteInv, Announced, Rest, Quiet
<1>6. OneRun'
  <2>1. CASE SubmitIncident
    <3>1. submissions' = submissions + 1 /\ crashes' = crashes
      BY <2>1 DEF SubmitIncident, faults
    <3>2. CASE submissions' + crashes' <= 1
      <4>1. submissions = 0 /\ submissions + crashes <= 1
        BY <1>1, <3>1, <3>2
      <4>2. /\ queue = <<>> /\ checkpoint = NoThread
            /\ \A w \in Workers : step[w] = "idle"
        BY <4>1 DEF WriteInv, OneRun
      <4>3. Len(queue') = 1
        BY <1>3, <4>2
      <4> QED
        BY <1>1, <3>1, <4>1, <4>2, <4>3 DEF OneRun, workers, NoThread
    <3> QED
      BY <3>2 DEF OneRun
  <2>2. CASE \E decision \in Decisions : SubmitApproval(decision)
    <3>1. /\ checkpoint.next = "ask" /\ UNCHANGED <<submissions, crashes>>
          /\ queue'[Len(queue) + 1].kind = "resume"
      BY <1>2, <1>3, <2>2 DEF SubmitApproval, faults
    <3>2. checkpoint # NoThread
      BY <3>1 DEF NoThread
    <3>3. CASE submissions + crashes <= 1
      <4>1. /\ submissions # 0
            /\ \A i \in 1..Len(queue) : queue[i].kind # "run"
            /\ \A w \in Workers :
                   ~(step[w] \in {"begin", "load"} /\ task[w].kind = "run")
            /\ checkpoint.final = "none"
        BY <1>3, <3>1, <3>2, <3>3 DEF WriteInv, OneRun
      <4>2. \A i \in DOMAIN queue' : queue'[i].kind # "run"
        <5> SUFFICES ASSUME NEW i \in 1..(Len(queue) + 1)
                     PROVE  queue'[i].kind # "run"
          BY <1>3
        <5>1. i \in 1..Len(queue) \/ i = Len(queue) + 1
          BY <1>3
        <5> QED
          BY <1>3, <3>1, <4>1, <5>1
      <4> QED
        BY <1>1, <3>1, <4>1, <4>2 DEF OneRun, workers
    <3> QED
      BY <3>1, <3>3 DEF OneRun
  <2> QED
    BY <2>1, <2>2
<1> QED
  BY <1>4, <1>5, <1>6 DEF WriteInv

LEMMA WriteStart ==
    ASSUME WriteInv, Typed, NEW w \in Workers, Alone(w),
           Take(w) \/ Begin(w) \/ Load(w)
    PROVE  WriteInv'
<1>1. /\ \A v \in Workers : v # w => step[v] = "idle" /\ step'[v] = "idle"
      /\ step \in [Workers -> Steps] /\ mem \in [Workers -> Thread]
      /\ task \in [Workers -> Job \cup {NoJob}]
      /\ queue \in Seq(Job) /\ checkpoint \in Thread
  BY DEF Alone, Typed, TypeInv, TypeOK
<1>2. CASE Take(w)
  <2>1. /\ step'[w] = "begin" /\ step[w] = "idle" /\ task'[w] = Head(queue)
        /\ UNCHANGED <<checkpoint, notice, submissions, crashes, timeouts>>
        /\ queue # <<>> /\ queue' = Tail(queue)
    BY <1>1, <1>2 DEF Take, rows, requests, faults
  <2>2. Writing' /\ Announced' /\ Rest'
    BY <1>1, <2>1, BusyRest, AnnouncedKept DEF Writing, WritingOf
  <2>3. OneRun'
    <3>1. /\ Len(queue) \in Nat \ {0} /\ DOMAIN queue = 1..Len(queue)
          /\ queue' \in Seq(Job) /\ Len(queue') = Len(queue) - 1
          /\ \A i \in 1..Len(queue') : queue'[i] = queue[i + 1]
          /\ Head(queue) = queue[1] /\ DOMAIN queue' = 1..Len(queue')
      BY <1>1, <2>1, HeadTailProperties, LenProperties, EmptySeq
    <3>2. ASSUME NEW i \in DOMAIN queue', queue'[i].kind = "run",
                 submissions + crashes <= 1
          PROVE  FALSE
      <4>1. i + 1 \in DOMAIN queue /\ queue[i + 1].kind = "run"
        BY <3>1, <3>2
      <4>2. Len(queue) = 1
        BY <3>2, <4>1 DEF WriteInv, OneRun
      <4> QED
        BY <3>1, <4>2
    <3>3. ASSUME task'[w].kind = "run", submissions + crashes <= 1
          PROVE  queue' = <<>> /\ checkpoint = NoThread
      <4>1. 1 \in DOMAIN queue /\ queue[1].kind = "run"
        BY <2>1, <3>1, <3>3
      <4>2. Len(queue) = 1 /\ checkpoint = NoThread
        BY <3>3, <4>1 DEF WriteInv, OneRun
      <4>3. Len(queue') = 0
        BY <3>1, <4>2
      <4> QED
        BY <3>1, <4>2, <4>3, EmptySeq
    <3>4. submissions + crashes <= 1 =>
              submissions # 0
              /\ (checkpoint.next # "END" => checkpoint.final = "none")
      BY <2>1 DEF WriteInv, OneRun
    <3> QED
      BY <1>1, <2>1, <3>2, <3>3, <3>4 DEF OneRun
  <2> QED
    BY <2>2, <2>3 DEF WriteInv
<1>3. CASE Begin(w)
  <2>1. /\ step'[w] = "load" /\ step[w] = "begin"
        /\ UNCHANGED <<checkpoint, notice, submissions, crashes, timeouts,
                       queue, task>>
    BY <1>1, <1>3 DEF Begin, requests, faults
  <2>2. Writing' /\ Announced' /\ Rest'
    BY <1>1, <2>1, BusyRest, AnnouncedKept DEF Writing, WritingOf
  <2>3. OneRun'
    BY <1>1, <2>1 DEF WriteInv, OneRun
  <2> QED
    BY <2>2, <2>3 DEF WriteInv
<1>4. CASE Load(w)
  <2>1. /\ step'[w] = "graph" /\ step[w] = "load" /\ mem'[w] = checkpoint'
        /\ UNCHANGED <<notice, submissions, crashes, timeouts, queue, task>>
        /\ \/ task[w].kind = "run" /\ checkpoint'.next = "plan"
              /\ checkpoint'.final = checkpoint.final
           \/ task[w].kind # "run" /\ checkpoint' = checkpoint
    BY <1>1, <1>4 DEF Load, rows, requests, faults, Thread
  <2>2. Writing' /\ Announced' /\ Rest'
    BY <1>1, <2>1, BusyRest, AnnouncedKept DEF Writing, WritingOf
  <2>3. OneRun'
    <3>1. CASE submissions + crashes <= 1
      <4>1. /\ submissions # 0
            /\ \A i \in DOMAIN queue : queue[i].kind # "run"
            /\ checkpoint'.next # "END" => checkpoint'.final = "none"
        BY <2>1, <3>1 DEF WriteInv, OneRun, NoThread
      <4> QED
        BY <1>1, <2>1, <4>1 DEF OneRun
    <3> QED
      BY <2>1, <3>1 DEF OneRun
  <2> QED
    BY <2>2, <2>3 DEF WriteInv
<1> QED
  BY <1>2, <1>3, <1>4

LEMMA WriteFault ==
    ASSUME WriteInv, Typed, NEW w \in Workers, Alone(w),
           Crash(w) \/ TimeOut(w)
    PROVE  WriteInv'
<1>1. /\ \A v \in Workers : v # w => step[v] = "idle" /\ step'[v] = "idle"
      /\ crashes \in Nat /\ timeouts \in Nat /\ submissions \in Nat
      /\ step[w] # "idle" /\ UNCHANGED <<checkpoint, rows, submissions>>
  BY RunnerAssumption
  DEF Alone, Typed, TypeInv, TypeOK, Crash, TimeOut, requests
<1>2. step'[w] = "idle"
  BY DEF Crash, TimeOut, Done, Typed, TypeInv, TypeOK
<1>3. Writing'
  BY <1>1, <1>2 DEF Writing, WritingOf
<1>4. CASE Crash(w)
  <2>1. crashes' = crashes + 1 /\ queue' # <<>>
    <3>1. queue \in Seq(Job) /\ task[w] \in Job \cup {NoJob}
      BY DEF Typed, TypeInv, TypeOK
    <3> DEFINE S == Job \cup {NoJob}
    <3>2. queue \in Seq(S)
      BY <3>1, SeqMonotonic
    <3>3. /\ Len(<<task[w]>> \o queue) = 1 + Len(queue)
          /\ Len(Append(queue, task[w])) = Len(queue) + 1
          /\ Len(queue) \in Nat
      <4>1. task[w] \in S
        BY <3>1
      <4> HIDE DEF S
      <4>2. <<task[w]>> \in Seq(S) /\ Len(<<task[w]>>) = 1
        BY <4>1
      <4> QED
        BY <3>2, <4>1, <4>2, ConcatProperties, AppendProperties, LenProperties
    <3>4. Len(queue') # 0
      BY <1>4, <3>3 DEF Crash
    <3> QED
      BY <1>4, <3>4, EmptySeq DEF Crash
  <2>2. Announced' /\ Rest'
    BY <1>1, <2>1 DEF Announced, Rest, Quiet
  <2>3. ~(submissions' + crashes' <= 1)
    <3>1. submissions + crashes <= 1 => submissions # 0
      BY <1>1 DEF WriteInv, OneRun
    <3> QED
      BY <1>1, <2>1, <3>1
  <2> QED
    BY <1>3, <2>2, <2>3 DEF WriteInv, OneRun
<1>5. CASE TimeOut(w)
  <2>1. timeouts' # 0 /\ UNCHANGED <<queue, crashes>>
    BY <1>1, <1>5 DEF TimeOut
  <2>2. Announced' /\ Rest'
    BY <2>1 DEF Announced, Rest
  <2>3. OneRun'
    <3>1. checkpoint.next # "END" /\ submissions + crashes <= 1
              => checkpoint.final = "none"
      BY DEF WriteInv, OneRun
    <3> QED
      BY <1>1, <1>2, <2>1, <3>1 DEF WriteInv, OneRun
  <2> QED
    BY <1>3, <2>2, <2>3 DEF WriteInv
<1> QED
  BY <1>4, <1>5

\* A stage that returns and does not end the graph.
LEMMA WriteSaved ==
    ASSUME WriteInv, Typed, NEW w \in Workers, Alone(w), step[w] # "idle",
           step[w] # "announce", step'[w] = "graph", mem'[w] = checkpoint',
           UNCHANGED <<queue, rows, submissions, crashes, timeouts>>,
           checkpoint.next # "END", checkpoint'.next # "END",
           checkpoint'.final = checkpoint.final
    PROVE  WriteInv'
<1>1. \A v \in Workers : v # w => step[v] = "idle" /\ step'[v] = "idle"
  BY DEF Alone
<1>2. Writing'
  BY <1>1 DEF Writing, WritingOf
<1>3. UNCHANGED notice
  BY DEF rows
<1>4. Announced' /\ Rest' /\ OneRun'
  BY <1>3, BusyRest, AnnouncedKept, OneRunKept
<1> QED
  BY <1>2, <1>4 DEF WriteInv

LEMMA WriteGraph ==
    ASSUME WriteInv, Typed, NEW w \in Workers, Alone(w), GraphStep(w)
    PROVE  WriteInv'
<1>1. /\ \A v \in Workers : v # w => step[v] = "idle" /\ step'[v] = "idle"
      /\ mem \in [Workers -> Thread] /\ mem[w] \in Thread
      /\ step \in [Workers -> Steps] /\ answer[w] \in Decisions \cup {"none"}
  BY DEF Alone, Typed, TypeInv, TypeOK
<1>2. /\ step[w] \in {"graph", "calling"}
      /\ UNCHANGED <<queue, rows, submissions, crashes, timeouts>>
  BY DEF GraphStep, PlanMade, GiveUp, Raise, Interrupt, Decide, Execute,
         Executed, Assess, Finalize, End, InGraph, requests, faults
<1>3. /\ mem[w] = checkpoint /\ UNCHANGED notice
      /\ step[w] = "calling" => checkpoint.next = "execute"
  BY <1>2 DEF WriteInv, Writing, WritingOf, rows
<1>4. ASSUME NEW next \in {"ask", "execute"}, PlanMade(w, next)
      PROVE  WriteInv'
  <2> DEFINE thread == [mem[w] EXCEPT !.plan = made', !.next = next]
  <2>1. made' \in 0..MaxPlans /\ next \in Stages
    <3>1. made' = made + 1 /\ made < MaxPlans /\ made \in Nat /\ MaxPlans \in Nat
      BY <1>4, RunnerAssumption DEF PlanMade, Typed, TypeInv, TypeOK
    <3>2. made' \in 0..MaxPlans
      BY <3>1
    <3> QED
      BY <3>2 DEF Stages
  <2>2. /\ thread \in Thread /\ thread.next = next
        /\ thread.final = mem[w].final
    BY <1>1, <2>1 DEF Thread
  <2>3. Save(w, thread)
    BY <1>4 DEF PlanMade
  <2> HIDE DEF thread
  <2>4. /\ checkpoint'.next = next /\ checkpoint'.final = checkpoint.final
        /\ mem'[w] = checkpoint'
    BY <1>3, <2>2, <2>3, SavedAsIs
  <2>5. step'[w] = "graph" /\ checkpoint.next = "plan"
    BY <1>3, <1>4 DEF PlanMade, InGraph
  <2> QED
    BY <1>2, <2>4, <2>5, WriteSaved
<1>5. CASE GiveUp(w)
  <2> DEFINE thread == [mem[w] EXCEPT !.next = "finalize"]
  <2>1. /\ thread \in Thread /\ thread.next = "finalize"
        /\ thread.final = mem[w].final
    BY <1>1 DEF Thread, Stages
  <2>2. Save(w, thread)
    BY <1>5 DEF GiveUp
  <2> HIDE DEF thread
  <2>3. /\ checkpoint'.next = "finalize" /\ mem'[w] = checkpoint'
        /\ checkpoint'.final = checkpoint.final
    BY <1>3, <2>1, <2>2, SavedAsIs
  <2>4. step'[w] = "graph" /\ checkpoint.next = "plan"
    BY <1>3, <1>5 DEF GiveUp, InGraph
  <2> QED
    BY <1>2, <2>3, <2>4, WriteSaved
<1>6. CASE Decide(w)
  <2> DEFINE thread ==
        [mem[w] EXCEPT
            !.decision = answer[w],
            !.next = IF answer[w] = "APPROVED" THEN "execute" ELSE "finalize"]
  <2>1. /\ step'[w] = "graph" /\ checkpoint.next = "ask"
        /\ answer[w] \in Decisions
    BY <1>1, <1>3, <1>6 DEF Decide, InGraph
  <2>2. /\ thread \in Thread /\ thread.next \in {"execute", "finalize"}
        /\ thread.final = mem[w].final
    BY <1>1, <2>1 DEF Thread, Stages
  <2>3. Checkpoint(w, thread, "ask")
    BY <1>6 DEF Decide
  <2> HIDE DEF thread
  <2>4. /\ checkpoint'.next # "END" /\ mem'[w] = checkpoint'
        /\ checkpoint'.final = checkpoint.final
    BY <1>3, <2>2, <2>3, SavedThread
  <2> QED
    BY <1>2, <2>1, <2>4, WriteSaved
<1>7. CASE Executed(w)
  <2> DEFINE thread == [mem[w] EXCEPT !.next = "assess"]
  <2>1. /\ thread \in Thread /\ thread.next = "assess"
        /\ thread.final = mem[w].final
    BY <1>1 DEF Thread, Stages
  <2>2. Save(w, thread)
    BY <1>7 DEF Executed
  <2> HIDE DEF thread
  <2>3. /\ checkpoint'.next = "assess" /\ mem'[w] = checkpoint'
        /\ checkpoint'.final = checkpoint.final
    BY <1>3, <2>1, <2>2, SavedAsIs
  <2>4. step'[w] = "graph" /\ checkpoint.next = "execute"
    BY <1>1, <1>3, <1>7 DEF Executed
  <2> QED
    BY <1>2, <2>3, <2>4, WriteSaved
<1>8. CASE Assess(w)
  <2>1. PICK next \in {"plan", "finalize"} :
            Save(w, [mem[w] EXCEPT !.next = next])
    BY <1>8 DEF Assess
  <2> DEFINE thread == [mem[w] EXCEPT !.next = next]
  <2>2. /\ thread \in Thread /\ thread.next = next
        /\ thread.final = mem[w].final
    BY <1>1 DEF Thread, Stages
  <2>3. Save(w, thread)
    BY <2>1
  <2> HIDE DEF thread
  <2>4. /\ checkpoint'.next = next /\ mem'[w] = checkpoint'
        /\ checkpoint'.final = checkpoint.final
    BY <1>3, <2>2, <2>3, SavedAsIs
  <2>5. step'[w] = "graph" /\ checkpoint.next = "assess"
    BY <1>3, <1>8 DEF Assess, InGraph
  <2> QED
    BY <1>2, <2>4, <2>5, WriteSaved
<1>9. CASE Finalize(w)
  <2>1. PICK final \in Statuses :
            Checkpoint(w, [mem[w] EXCEPT !.next = "END", !.final = final],
                       "finalize")
    BY <1>9, RunnerAssumption DEF Finalize, Statuses
  <2> DEFINE thread == [mem[w] EXCEPT !.next = "END", !.final = final]
  <2>2. thread \in Thread /\ thread.next = "END"
    BY <1>1 DEF Thread, Stages
  <2>3. Checkpoint(w, thread, "finalize")
    BY <2>1
  <2> HIDE DEF thread
  <2>4. checkpoint'.next = "END" /\ mem'[w] = checkpoint'
    BY <2>2, <2>3, SavedThread
  <2>5. step'[w] = "announce"
    BY <1>1, <1>9 DEF Finalize
  <2>6. Writing'
    BY <1>1, <2>4, <2>5 DEF Writing, WritingOf
  <2>7. Announced' /\ Rest' /\ OneRun'
    BY <1>2, <2>4, <2>5, BusyRest, OneRunKept DEF Announced
  <2> QED
    BY <2>6, <2>7 DEF WriteInv
<1>10. CASE Raise(w) \/ Interrupt(w) \/ Execute(w) \/ End(w)
  <2>1. /\ UNCHANGED <<mem, checkpoint>>
        /\ \/ step'[w] = "fail" /\ checkpoint.next \notin {"ask", "END"}
           \/ step'[w] = "snapshot" /\ checkpoint.next \in {"ask", "END"}
           \/ step'[w] = "calling" /\ checkpoint.next = "execute"
    BY <1>1, <1>3, <1>10 DEF Raise, Interrupt, Execute, End, InGraph
  <2>2. Writing'
    BY <1>1, <1>3, <2>1 DEF Writing, WritingOf
  <2>3. Announced' /\ Rest' /\ OneRun'
    BY <1>2, <1>3, <2>1, BusyRest, AnnouncedKept, OneRunKept
  <2> QED
    BY <2>2, <2>3 DEF WriteInv
<1> QED
  BY <1>4, <1>5, <1>6, <1>7, <1>8, <1>9, <1>10 DEF GraphStep

\* The one row that is created when none is pending.
LEMMA CreatedPends ==
    ASSUME Typed, NonePending, NEW w \in Workers, mem[w] = checkpoint,
           UNCHANGED checkpoint,
           approvals' = Append(approvals,
                               [plan |-> mem[w].plan, status |-> "pending"])
    PROVE  OnePending'
<1> DEFINE row == [plan |-> checkpoint.plan, status |-> "pending"]
           n == Len(approvals)
<1>1. approvals \in Seq(Approval) /\ checkpoint.plan \in 0..MaxPlans
  BY DEF Typed, TypeInv, TypeOK, Thread
<1>2. row \in Approval
  BY <1>1 DEF Approval
<1>3. row.status = "pending" /\ approvals' = Append(approvals, row)
  OBVIOUS
<1> HIDE DEF row
<1>4. /\ n \in Nat /\ DOMAIN approvals = 1..n /\ DOMAIN approvals' = 1..(n + 1)
      /\ \A i \in 1..n : approvals'[i] = approvals[i]
      /\ approvals'[n + 1] = row
  BY <1>1, <1>2, <1>3, AppendProperties, LenProperties
<1> HIDE DEF n
<1>5. \A i \in 1..(n + 1) : approvals'[i].status = "pending" => i = n + 1
  <2> SUFFICES ASSUME NEW i \in 1..(n + 1), i # n + 1
               PROVE  approvals'[i].status # "pending"
    OBVIOUS
  <2>1. i \in 1..n
    BY <1>4
  <2> QED
    BY <1>4, <2>1 DEF NonePending
<1>6. \E i \in DOMAIN approvals' : approvals'[i] = row
  BY <1>4
<1> QED
  BY <1>4, <1>5, <1>6 DEF OnePending, row

\* What the job writes keeps what it has written before.
LEMMA WritePersist ==
    ASSUME WriteInv, Typed, NEW w \in Workers, Alone(w), PersistStep(w)
    PROVE  WriteInv'
<1>1. /\ \A v \in Workers : v # w => step[v] = "idle" /\ step'[v] = "idle"
      /\ mem \in [Workers -> Thread] /\ checkpoint \in Thread
      /\ step \in [Workers -> Steps]
      /\ unflushed \in [Workers -> Seq(AuditEvent)]
      /\ approvals \in Seq(Approval) /\ ledger \in Seq(AuditEvent)
  BY DEF Alone, Typed, TypeInv, TypeOK
<1>2. /\ step[w] \in {"announce", "fail", "error", "snapshot", "supersede",
                      "create", "await", "notify", "close", "flush"}
      /\ UNCHANGED <<queue, checkpoint, submissions, crashes, timeouts>>
      /\ UNCHANGED lost \/ LoseOne(w)
  BY DEF PersistStep, Announce, Fail, NotifyError, Snapshot, Supersede, Create,
         Await, NotifyApproval, Close, FlushOne, LoseOne, Flushed, requests,
         faults
<1>3. WritingOf(w) /\ Announced
  BY DEF WriteInv, Writing
<1>4. step'[w] \in {"snapshot", "error", "idle", "close", "supersede", "create",
                    "await", "notify", "flush"}
  BY <1>1 DEF PersistStep, Announce, Fail, NotifyError, Snapshot, Supersede,
              Create, Await, NotifyApproval, Close, FlushOne, LoseOne, Flushed,
              Done
<1>5. OneRun'
  BY <1>2, <1>4, OneRunKept
<1>6. WritingOf(w)' => Writing'
  BY <1>1 DEF Writing, WritingOf
<1>7. CASE Announce(w)
  <2>1. /\ step'[w] = "snapshot" /\ checkpoint.next = "END"
        /\ mem[w] = checkpoint
    BY <1>1, <1>3, <1>7 DEF Announce, WritingOf
  <2>2. notice' = [event |-> "finalized", plan |-> 0,
                   final |-> checkpoint.final]
    BY <1>7, <2>1 DEF Announce, Publish, NoNotice
  <2>3. WritingOf(w)'
    BY <1>2, <2>1 DEF WritingOf
  <2> QED
    BY <1>2, <1>5, <1>6, <2>1, <2>2, <2>3, BusyRest DEF WriteInv, Announced
<1>8. CASE Fail(w)
  <2>1. step[w] = "fail" /\ step'[w] = "error" /\ UNCHANGED notice
    BY <1>1, <1>8 DEF Fail
  <2>2. WritingOf(w)'
    BY <1>2, <1>3, <2>1 DEF WritingOf
  <2> QED
    BY <1>2, <1>5, <1>6, <2>1, <2>2, BusyRest, AnnouncedKept DEF WriteInv
<1>9. CASE NotifyError(w)
  <2>1. /\ step[w] = "error" /\ step'[w] = "idle"
        /\ checkpoint.next \notin {"ask", "END"}
    BY <1>1, <1>3, <1>9 DEF NotifyError, Done, WritingOf
  <2>2. WritingOf(w)' /\ Announced' /\ Rest'
    BY <1>2, <2>1 DEF WritingOf, Announced, Rest
  <2> QED
    BY <1>5, <1>6, <2>2 DEF WriteInv
<1>10. CASE Snapshot(w)
  <2>1. /\ step[w] = "snapshot" /\ mem'[w] = checkpoint /\ UNCHANGED notice
        /\ \/ step'[w] = "close" /\ checkpoint.next = "END"
           \/ step'[w] = "supersede" /\ checkpoint.next = "ask"
    BY <1>1, <1>3, <1>10 DEF Snapshot, WritingOf, rows
  <2>2. WritingOf(w)'
    BY <1>2, <2>1 DEF WritingOf
  <2> QED
    BY <1>2, <1>5, <1>6, <2>1, <2>2, BusyRest, AnnouncedKept DEF WriteInv
<1>11. CASE Supersede(w)
  <2>1. /\ step[w] = "supersede" /\ step'[w] = "create"
        /\ UNCHANGED <<mem, notice>>
    BY <1>1, <1>11 DEF Supersede
  <2>2. NonePending'
    BY <1>1, <1>11 DEF Supersede, Resolved, NonePending, Approval
  <2>3. WritingOf(w)'
    BY <1>2, <1>3, <2>1, <2>2 DEF WritingOf
  <2> QED
    BY <1>2, <1>5, <1>6, <2>1, <2>3, BusyRest, AnnouncedKept DEF WriteInv
<1>12. CASE Create(w)
  <2>1. /\ step[w] = "create" /\ step'[w] = "await"
        /\ UNCHANGED <<mem, notice>>
        /\ mem[w] = checkpoint /\ NonePending /\ checkpoint.next = "ask"
    BY <1>1, <1>3, <1>12 DEF Create, WritingOf
  <2>2. OnePending'
    BY <1>2, <1>12, <2>1, CreatedPends DEF Create
  <2>3. WritingOf(w)'
    BY <1>2, <2>1, <2>2 DEF WritingOf
  <2> QED
    BY <1>2, <1>5, <1>6, <2>1, <2>3, BusyRest, AnnouncedKept DEF WriteInv
<1>13. CASE Await(w)
  <2>1. /\ step[w] = "await" /\ step'[w] = "notify"
        /\ UNCHANGED <<mem, notice, approvals>> /\ status' = "AWAITING_APPROVAL"
        /\ mem[w] = checkpoint /\ OnePending /\ checkpoint.next = "ask"
    BY <1>1, <1>3, <1>13 DEF Await, WritingOf
  <2>2. WritingOf(w)'
    BY <1>2, <2>1 DEF WritingOf, OnePending
  <2> QED
    BY <1>2, <1>5, <1>6, <2>1, <2>2, BusyRest, AnnouncedKept DEF WriteInv
<1>14. CASE NotifyApproval(w)
  <2>1. /\ step[w] = "notify" /\ step'[w] = "idle"
        /\ UNCHANGED <<status, approvals>> /\ status = "AWAITING_APPROVAL"
        /\ mem[w] = checkpoint /\ OnePending /\ checkpoint.next = "ask"
    BY <1>1, <1>3, <1>14 DEF NotifyApproval, Done, WritingOf
  <2>2. notice' = [event |-> "approval_required", plan |-> checkpoint.plan,
                   final |-> "none"]
    BY <1>14, <2>1 DEF NotifyApproval, Publish, NoNotice
  <2>3. WritingOf(w)' /\ Announced' /\ Rest'
    BY <1>2, <2>1, <2>2 DEF WritingOf, Announced, Rest, OnePending
  <2> QED
    BY <1>5, <1>6, <2>3 DEF WriteInv
<1>15. CASE Close(w)
  <2>1. /\ step[w] = "close" /\ step'[w] = "flush"
        /\ UNCHANGED <<mem, notice, ledger>>
        /\ mem[w] = checkpoint /\ checkpoint.next = "END"
        /\ unflushed'[w] = checkpoint.trail
        /\ status' = IF checkpoint.final = "none" THEN "FAILED"
                     ELSE checkpoint.final
    BY <1>1, <1>3, <1>15 DEF Close, WritingOf
  <2>2. Trailing(unflushed[w])'
    <3>1. Len(ledger) \in 0..Len(ledger) /\ Len(ledger) \in Nat
      BY <1>1, LenProperties
    <3>2. SubSeq(ledger, Len(ledger) + 1, Len(ledger)) = <<>>
      BY <3>1, SubSeqEmpty
    <3>3. checkpoint.trail \in Seq(AuditEvent)
      BY <1>1 DEF Thread
    <3>4. <<>> \o checkpoint.trail = checkpoint.trail
      BY <3>3, ConcatEmptySeq
    <3> QED
      BY <1>2, <2>1, <3>1, <3>2, <3>4 DEF Trailing
  <2>3. WritingOf(w)'
    BY <1>2, <2>1, <2>2 DEF WritingOf, Recorded
  <2> QED
    BY <1>2, <1>5, <1>6, <2>1, <2>3, BusyRest, AnnouncedKept DEF WriteInv
<1>16. CASE FlushOne(w)
  <2>1. /\ step[w] = "flush" /\ step'[w] = "flush"
        /\ UNCHANGED <<mem, notice, status>>
        /\ mem[w] = checkpoint /\ checkpoint.next = "END"
        /\ Recorded /\ (lost = 0 => Trailing(unflushed[w]))
        /\ unflushed[w] # <<>> /\ UNCHANGED lost
        /\ unflushed'[w] = Tail(unflushed[w])
        /\ ledger' = Append(ledger, Head(unflushed[w]))
    BY <1>1, <1>3, <1>16 DEF FlushOne, WritingOf, faults
  <2>2. lost = 0 => Trailing(unflushed[w])'
    <3> SUFFICES ASSUME lost = 0
                 PROVE  Trailing(unflushed[w])'
      OBVIOUS
    <3>1. PICK start \in 0..Len(ledger) :
              SubSeq(ledger, start + 1, Len(ledger)) \o unflushed[w]
                  = checkpoint.trail
      BY <2>1 DEF Trailing
    <3>2. /\ Len(ledger') = Len(ledger) + 1 /\ start \in 0..Len(ledger')
      <4>1. Len(ledger) \in Nat /\ Head(unflushed[w]) \in AuditEvent
        BY <1>1, <2>1, LenProperties, HeadTailProperties
      <4>2. Len(ledger') = Len(ledger) + 1
        BY <1>1, <2>1, <4>1, AppendProperties
      <4> QED
        BY <4>1, <4>2
    <3>3. SubSeq(ledger', start + 1, Len(ledger) + 1) \o Tail(unflushed[w])
              = SubSeq(ledger, start + 1, Len(ledger)) \o unflushed[w]
      <4>1. unflushed[w] \in Seq(AuditEvent)
        BY <1>1
      <4>2. SubSeq(Append(ledger, Head(unflushed[w])), start + 1, Len(ledger) + 1)
                \o Tail(unflushed[w])
            = SubSeq(ledger, start + 1, Len(ledger)) \o unflushed[w]
        <5>1. /\ ledger \in Seq(AuditEvent) /\ unflushed[w] # <<>>
              /\ start \in 0..Len(ledger)
          BY <1>1, <2>1, <3>1
        <5> QED
          BY <4>1, <5>1, InsertNext, Zenon
      <4> QED
        BY <2>1, <4>2
    <3> QED
      BY <1>2, <2>1, <3>1, <3>2, <3>3 DEF Trailing
  <2>3. WritingOf(w)'
    BY <1>2, <2>1, <2>2 DEF WritingOf, Recorded
  <2> QED
    BY <1>2, <1>5, <1>6, <2>1, <2>3, BusyRest, AnnouncedKept DEF WriteInv
<1>17. CASE Flushed(w)
  <2>1. /\ step[w] = "flush" /\ step'[w] = "idle"
        /\ UNCHANGED <<notice, status, ledger>>
        /\ checkpoint.next = "END" /\ Recorded
        /\ UNCHANGED lost /\ (lost = 0 => Trailing(<<>>))
    BY <1>1, <1>3, <1>17 DEF Flushed, Done, WritingOf, rows, faults
  <2>2. WritingOf(w)' /\ Rest'
    BY <1>2, <2>1 DEF WritingOf, Rest, Recorded, Trailing
  <2>3. Announced'
    BY <1>2, <2>1, AnnouncedKept
  <2> QED
    BY <1>5, <1>6, <2>2, <2>3 DEF WriteInv
<1>18. CASE LoseOne(w)
  <2>1. /\ step[w] = "flush" /\ step'[w] = "flush" /\ lost' # 0
        /\ UNCHANGED <<mem, notice, status>>
        /\ mem[w] = checkpoint /\ checkpoint.next = "END" /\ Recorded
    <3>1. lost \in Nat
      BY DEF Typed, TypeInv, TypeOK
    <3> QED
      BY <1>1, <1>3, <1>18, <3>1 DEF LoseOne, WritingOf, rows
  <2>2. WritingOf(w)'
    BY <1>2, <2>1 DEF WritingOf, Recorded
  <2> QED
    BY <1>2, <1>5, <1>6, <2>1, <2>2, BusyRest, AnnouncedKept DEF WriteInv
<1> QED
  BY <1>7, <1>8, <1>9, <1>10, <1>11, <1>12, <1>13, <1>14, <1>15, <1>16, <1>17,
     <1>18
  DEF PersistStep

LEMMA WriteStep ==
    ASSUME WriteInv, OneAtATime, OneAtATime', Typed, [Next]_vars
    PROVE  WriteInv'
<1>1. CASE UNCHANGED vars
  <2>1. UNCHANGED <<queue, task, step, answer, mem, unflushed, checkpoint,
                    status, approvals, ledger, notice, effects, made,
                    sensitive, submissions, answers, approved, crashes,
                    timeouts, lost>>
    BY <1>1 DEF vars, workers, rows, plans, requests, faults
  <2>2. OneRun'
    BY <2>1 DEF WriteInv, OneRun
  <2>3. Rest'
    BY <2>1 DEF WriteInv, Rest, Quiet, OnePending, Recorded, Trailing
  <2>4. Announced'
    BY <2>1 DEF WriteInv, Announced
  <2>5. Writing'
    BY <2>1 DEF WriteInv, Writing, WritingOf, NonePending, OnePending,
                Recorded, Trailing
  <2> QED
    BY <2>2, <2>3, <2>4, <2>5 DEF WriteInv
<1>2. ASSUME NEW w \in Workers, WorkerStep(w) \/ Crash(w) \/ TimeOut(w)
      PROVE  WriteInv'
  <2>1. Alone(w)
    BY <1>2, StepsAlone
  <2> QED
    BY <1>2, <2>1, WriteStart, WriteGraph, WritePersist, WriteFault
    DEF WorkerStep
<1> QED
  BY <1>1, <1>2, WriteRequest DEF Next

LEMMA RunnerWrites == Spec => [](Typed /\ (~overlapped => WriteInv))
<1> DEFINE Inv == Typed /\ (~overlapped => OneAtATime /\ WriteInv)
<1>1. Init => Inv
  BY RunnerTypeInit, WriteInit DEF Init, Typed, Employed, OneAtATime
<1>2. Inv /\ [Next]_vars => Inv'
  BY RunnerTypeStep, OverlapStep, WriteStep DEF Typed
<1>3. Inv => Typed /\ (~overlapped => WriteInv)
  OBVIOUS
<1> QED
  BY <1>1, <1>2, <1>3, PTL DEF Spec

LEMMA WritesPause ==
    ASSUME WriteInv, Quiet, checkpoint.next = "ask", timeouts = 0
    PROVE  PauseAlone
BY DEF WriteInv, Rest, OneRun, OnePending, PauseAlone, Shown

LEMMA WritesEnd ==
    ASSUME Typed, WriteInv, Quiet, checkpoint.next = "END",
           checkpoint.final # "none", timeouts = 0
    PROVE  EndAlone
<1>1. Recorded /\ (lost = 0 => Trailing(<<>>))
  BY DEF WriteInv, Rest
<1>2. status = checkpoint.final /\ Shown = status
  BY <1>1 DEF Recorded, Shown
<1>3. ASSUME lost = 0
      PROVE  \E start \in 0..Len(ledger) :
                 SubSeq(ledger, start + 1, Len(ledger)) = checkpoint.trail
  <2>1. PICK start \in 0..Len(ledger) :
            SubSeq(ledger, start + 1, Len(ledger)) \o <<>> = checkpoint.trail
    BY <1>1, <1>3 DEF Trailing
  <2>2. ledger \in Seq(AuditEvent) /\ Len(ledger) \in Nat
    BY LenProperties DEF Typed, TypeInv, TypeOK
  <2>3. \A i \in (start + 1)..Len(ledger) : ledger[i] \in AuditEvent
    BY <2>2, ElementOfSeq
  <2>4. SubSeq(ledger, start + 1, Len(ledger)) \in Seq(AuditEvent)
    BY <2>2, <2>3, SubSeqProperties
  <2> QED
    BY <2>1, <2>4, ConcatEmptySeq
<1>4. crashes = 0 => notice = [event |-> "finalized", plan |-> 0,
                               final |-> status]
  <2>1. \A w \in Workers : step[w] # "announce"
    BY DEF Quiet
  <2> QED
    BY <1>2, <2>1 DEF WriteInv, Announced
<1> QED
  BY <1>2, <1>3, <1>4 DEF EndAlone

-----------------------------------------------------------------------------
(* What is left however jobs overlap.                                      *)

\* Something will still be saved, or looked at: a job waits or begins, a
\* graph is where the thread is, or its job is about to read the thread.
Stirring ==
    \/ queue # <<>>
    \/ \E w \in Workers :
           \/ step[w] \in {"begin", "load", "announce", "snapshot"}
           \/ step[w] = "graph" /\ mem[w] = checkpoint

SomePending == \E i \in DOMAIN approvals : approvals[i].status = "pending"

PlanUnanswered ==
    \E i \in DOMAIN approvals :
        /\ approvals[i].plan = checkpoint.plan
        /\ approvals[i].status \in {"pending", "superseded"}

\* Strengthening of what a pause leaves.
Asked ==
    checkpoint.next = "ask" /\ timeouts = 0 =>
        \/ Stirring
        \/ /\ \/ SomePending
              \/ \E w \in Workers : step[w] \in {"supersede", "create"}
           /\ \/ PlanUnanswered
              \/ \E w \in Workers : /\ step[w] \in {"supersede", "create"}
                                    /\ mem[w].plan = checkpoint.plan

\* Strengthening of what an end leaves.
Inserted ==
    checkpoint.next = "END" /\ checkpoint.final # "none"
          /\ timeouts = 0 /\ lost = 0 =>
        \/ Stirring
        \/ Range(checkpoint.trail) \subseteq Range(ledger)
        \/ \E w \in Workers : step[w] = "close" /\ mem[w] = checkpoint
        \/ \E w \in Workers :
               /\ step[w] = "flush"
               /\ Range(checkpoint.trail)
                      \subseteq Range(ledger) \cup Range(unflushed[w])

InProgress ==
    status = "IN_PROGRESS" /\ timeouts = 0 =>
        \/ queue # <<>>
        \/ \E w \in Workers :
               step[w] \notin {"idle", "error", "notify", "flush"}

\* A step that leaves the thread and the queue as they are.
Passing(w) ==
    \/ Raise(w) \/ Execute(w) \/ Fail(w) \/ NotifyError(w) \/ Snapshot(w)
    \/ Supersede(w) \/ Create(w) \/ Await(w) \/ NotifyApproval(w) \/ Close(w)
    \/ FlushOne(w) \/ LoseOne(w) \/ Flushed(w)

\* Every other step but a timeout leaves something to come.
LEMMA OtherStirs ==
    ASSUME Typed, NEW w \in Workers, WorkerStep(w) \/ Crash(w), ~Passing(w)
    PROVE  Stirring'
<1>1. /\ step \in [Workers -> Steps] /\ mem \in [Workers -> Thread]
      /\ queue \in Seq(Job)
  BY DEF Typed, TypeInv, TypeOK
<1>2. CASE Take(w) \/ Begin(w) \/ Load(w)
  BY <1>1, <1>2 DEF Take, Begin, Load, Stirring
<1>3. CASE GraphStep(w)
  <2>1. CASE Interrupt(w) \/ End(w) \/ Finalize(w)
    BY <1>1, <2>1 DEF Interrupt, End, Finalize, Stirring
  <2>2. CASE GiveUp(w) \/ Decide(w) \/ Executed(w) \/ Assess(w)
    <3>1. step'[w] = "graph"
      BY <1>1, <2>2 DEF GiveUp, Decide, Executed, Assess, InGraph
    <3> QED
      BY <2>2, <3>1, StageSaved DEF Stirring
  <2>3. CASE \E next \in {"ask", "execute"} : PlanMade(w, next)
    <3>1. step'[w] = "graph" /\ mem'[w] = checkpoint'
      BY <1>1, <2>3 DEF PlanMade, InGraph, Save
    <3> QED
      BY <3>1 DEF Stirring
  <2> QED
    BY <1>3, <2>1, <2>2, <2>3 DEF GraphStep, Passing
<1>4. CASE Announce(w)
  BY <1>1, <1>4 DEF Announce, Stirring
<1>5. CASE Crash(w)
  <2>1. task[w] \in Job
    BY <1>5 DEF Crash, Typed, Employed
  <2>2. <<task[w]>> \in Seq(Job) /\ Len(<<task[w]>>) = 1
    BY <2>1
  <2>3. /\ Len(<<task[w]>> \o queue) = 1 + Len(queue)
        /\ Len(Append(queue, task[w])) = Len(queue) + 1
        /\ Len(queue) \in Nat
    BY <1>1, <2>1, <2>2, ConcatProperties, AppendProperties, LenProperties
  <2>4. Len(queue') # 0
    BY <1>5, <2>3 DEF Crash
  <2> QED
    BY <2>4, EmptySeq DEF Stirring
<1> QED
  BY <1>2, <1>3, <1>4, <1>5 DEF WorkerStep, PersistStep, Passing

\* A request leaves a job.
LEMMA RequestStirs ==
    ASSUME Typed,
           SubmitIncident \/ \E decision \in Decisions : SubmitApproval(decision)
    PROVE  queue' # <<>>
<1>1. queue \in Seq(Job)
  BY DEF Typed, TypeInv, TypeOK
<1>2. PICK job \in Job : queue' = Append(queue, job)
  BY DEF SubmitIncident, SubmitApproval, Job
<1> QED
  BY <1>1, <1>2, AppendProperties, LenProperties, EmptySeq

\* What a passing step does not touch.
LEMMA PassingKeeps ==
    ASSUME Typed, NEW w \in Workers, Passing(w)
    PROVE  /\ UNCHANGED <<queue, checkpoint, timeouts>>
           /\ \A v \in Workers : v # w =>
                  /\ step'[v] = step[v] /\ mem'[v] = mem[v]
                  /\ unflushed'[v] = unflushed[v]
           /\ step[w] \notin {"idle", "begin", "load", "announce"}
           /\ step[w] = "graph" => mem[w].next \notin {"ask", "END"}
           /\ step[w] = "snapshot" => Snapshot(w)
<1>1. WorkerStep(w)
  BY DEF Passing, WorkerStep, GraphStep, PersistStep
<1>2. UNCHANGED <<queue, checkpoint, timeouts>>
  BY DEF Passing, Raise, Execute, Fail, NotifyError, Snapshot, Supersede,
         Create, Await, NotifyApproval, Close, FlushOne, LoseOne, Flushed,
         faults
<1>3. /\ step[w] \notin {"idle", "begin", "load", "announce"}
      /\ step[w] = "graph" => mem[w].next \notin {"ask", "END"}
      /\ step[w] = "snapshot" => Snapshot(w)
  BY DEF Passing, Raise, Execute, InGraph, Fail, NotifyError, Snapshot,
         Supersede, Create, Await, NotifyApproval, Close, FlushOne, LoseOne,
         Flushed
<1> QED
  BY <1>1, <1>2, <1>3, StepsOwn

\* It takes nothing away that is to come, but what it reads of the thread.
LEMMA PassingStirs ==
    ASSUME Typed, NEW w \in Workers, Passing(w), Stirring, ~Snapshot(w),
           checkpoint.next \in {"ask", "END"}
    PROVE  Stirring'
<1>1. CASE queue # <<>>
  BY <1>1, PassingKeeps DEF Stirring
<1>2. ASSUME NEW v \in Workers,
             \/ step[v] \in {"begin", "load", "announce", "snapshot"}
             \/ step[v] = "graph" /\ mem[v] = checkpoint
      PROVE  Stirring'
  <2>1. v # w
    BY <1>2, PassingKeeps
  <2> QED
    BY <1>2, <2>1, PassingKeeps DEF Stirring
<1> QED
  BY <1>1, <1>2 DEF Stirring

\* An inserted event moves from those that remain to the ledger.
LEMMA FlushedRange ==
    ASSUME NEW w \in Workers, FlushOne(w), ledger \in Seq(AuditEvent),
           unflushed \in [Workers -> Seq(AuditEvent)]
    PROVE  /\ Range(ledger) \subseteq Range(ledger')
           /\ Range(ledger) \cup Range(unflushed[w])
                  \subseteq Range(ledger') \cup Range(unflushed'[w])
<1> DEFINE rest == unflushed[w]
           n == Len(ledger)
<1>1. /\ rest \in Seq(AuditEvent) /\ rest # <<>>
      /\ ledger' = Append(ledger, Head(rest)) /\ unflushed'[w] = Tail(rest)
  BY DEF FlushOne
<1> HIDE DEF rest
<1>2. /\ Head(rest) \in AuditEvent /\ Head(rest) = rest[1]
      /\ Tail(rest) \in Seq(AuditEvent) /\ Len(Tail(rest)) = Len(rest) - 1
      /\ \A i \in 1..Len(Tail(rest)) : Tail(rest)[i] = rest[i + 1]
      /\ Len(rest) \in Nat \ {0} /\ DOMAIN rest = 1..Len(rest)
      /\ DOMAIN Tail(rest) = 1..Len(Tail(rest))
  BY <1>1, HeadTailProperties, EmptySeq, LenProperties
<1>3. /\ n \in Nat /\ DOMAIN ledger = 1..n /\ DOMAIN ledger' = 1..(n + 1)
      /\ \A i \in 1..n : ledger'[i] = ledger[i]
      /\ ledger'[n + 1] = Head(rest)
  BY <1>1, <1>2, AppendProperties, LenProperties
<1> HIDE DEF n
<1>4. Range(ledger) \subseteq Range(ledger') /\ Head(rest) \in Range(ledger')
  <2>1. \A i \in 1..n : i \in 1..(n + 1)
    BY <1>3
  <2>2. n + 1 \in 1..(n + 1)
    BY <1>3
  <2>3. \A i \in DOMAIN ledger : i \in DOMAIN ledger' /\ ledger'[i] = ledger[i]
    BY <1>3, <2>1
  <2>4. n + 1 \in DOMAIN ledger'
    BY <1>3, <2>2
  <2>5. Range(ledger) \subseteq Range(ledger')
    BY <2>3, Zenon DEF Range
  <2>6. ledger'[n + 1] \in Range(ledger')
    BY <2>4, Zenon DEF Range
  <2> QED
    BY <1>3, <2>5, <2>6
<1>5. Range(rest) \subseteq {Head(rest)} \cup Range(Tail(rest))
  <2> SUFFICES ASSUME NEW i \in 1..Len(rest), i # 1
               PROVE  rest[i] \in Range(Tail(rest))
    BY <1>2 DEF Range
  <2>1. i - 1 \in 1..Len(Tail(rest)) /\ rest[(i - 1) + 1] = rest[i]
    BY <1>2
  <2> QED
    BY <1>2, <2>1 DEF Range
<1> QED
  BY <1>1, <1>4, <1>5 DEF rest

\* Rows that a step does not write, and a new row beside them.
LEMMA RowsKept ==
    ASSUME Typed, NEW w \in Workers,
           Supersede(w) \/ Create(w) \/ UNCHANGED approvals,
           UNCHANGED checkpoint
    PROVE  /\ PlanUnanswered => PlanUnanswered'
           /\ Create(w) => SomePending'
           /\ Create(w) /\ mem[w].plan = checkpoint.plan => PlanUnanswered'
           /\ UNCHANGED approvals /\ SomePending => SomePending'
<1>1. approvals \in Seq(Approval) /\ mem[w].plan \in 0..MaxPlans
  BY DEF Typed, TypeInv, TypeOK, Thread
<1>2. CASE UNCHANGED approvals /\ ~Create(w)
  BY <1>2 DEF PlanUnanswered, SomePending
<1>3. CASE Supersede(w) /\ ~Create(w)
  <2>1. /\ DOMAIN approvals' = DOMAIN approvals
        /\ \A i \in DOMAIN approvals :
               /\ approvals'[i].plan = approvals[i].plan
               /\ approvals'[i].status =
                      IF approvals[i].status = "pending" THEN "superseded"
                      ELSE approvals[i].status
    BY <1>1, <1>3 DEF Supersede, Resolved, Approval
  <2> QED
    BY <1>3, <2>1 DEF PlanUnanswered, SomePending
<1>4. CASE Create(w)
  <2> DEFINE row == [plan |-> mem[w].plan, status |-> "pending"]
             n == Len(approvals)
  <2>1. /\ row \in Approval /\ row.status = "pending"
        /\ row.plan = mem[w].plan
    BY <1>1 DEF Approval
  <2>2. approvals' = Append(approvals, row)
    BY <1>4 DEF Create
  <2> HIDE DEF row
  <2>3. /\ n \in Nat /\ DOMAIN approvals = 1..n
        /\ DOMAIN approvals' = 1..(n + 1) /\ n + 1 \in 1..(n + 1)
        /\ \A i \in 1..n : i \in 1..(n + 1) /\ approvals'[i] = approvals[i]
        /\ approvals'[n + 1] = row
    BY <1>1, <2>1, <2>2, AppendProperties, LenProperties
  <2> HIDE DEF n
  <2>4. PlanUnanswered => PlanUnanswered'
    BY <2>3 DEF PlanUnanswered
  <2>5. SomePending'
    BY <2>1, <2>3 DEF SomePending
  <2>6. mem[w].plan = checkpoint.plan => PlanUnanswered'
    BY <2>1, <2>3 DEF PlanUnanswered
  <2> QED
    BY <2>4, <2>5, <2>6
<1> QED
  BY <1>2, <1>3, <1>4

LEMMA AskedStep ==
    ASSUME Typed, Asked, [Next]_vars
    PROVE  Asked'
<1>1. CASE UNCHANGED vars
  BY <1>1 DEF vars, workers, rows, faults, Asked, Stirring, SomePending,
              PlanUnanswered
<1>2. CASE SubmitIncident \/ \E decision \in Decisions : SubmitApproval(decision)
  BY <1>2, RequestStirs DEF Asked, Stirring
<1>3. ASSUME NEW w \in Workers, TimeOut(w)
      PROVE  Asked'
  <2>1. timeouts' # 0
    BY <1>3 DEF TimeOut, Typed, TypeInv, TypeOK
  <2> QED
    BY <2>1 DEF Asked
<1>4. ASSUME NEW w \in Workers, WorkerStep(w) \/ Crash(w), ~Passing(w)
      PROVE  Asked'
  BY <1>4, OtherStirs DEF Asked
<1>5. ASSUME NEW w \in Workers, Passing(w), checkpoint.next = "ask",
             timeouts = 0
      PROVE  Asked'
  <2>1. /\ step \in [Workers -> Steps] /\ mem \in [Workers -> Thread]
        /\ UNCHANGED checkpoint
    BY <1>5, PassingKeeps DEF Typed, TypeInv, TypeOK
  <2>2. CASE Snapshot(w)
    <3>1. step'[w] = "supersede" /\ mem'[w] = checkpoint
      BY <1>5, <2>1, <2>2 DEF Snapshot
    <3> QED
      BY <2>1, <3>1 DEF Asked
  <2>3. CASE Stirring /\ ~Snapshot(w)
    BY <1>5, <2>3, PassingStirs DEF Asked
  <2>4. CASE ~Stirring /\ ~Snapshot(w)
    <3>1. /\ \/ SomePending
             \/ \E v \in Workers : step[v] \in {"supersede", "create"}
          /\ \/ PlanUnanswered
             \/ \E v \in Workers : /\ step[v] \in {"supersede", "create"}
                                   /\ mem[v].plan = checkpoint.plan
      BY <1>5, <2>4 DEF Asked
    <3>2. CASE Supersede(w)
      <4>1. step'[w] = "create" /\ mem'[w] = mem[w]
        BY <2>1, <3>2 DEF Supersede
      <4>2. \/ PlanUnanswered'
            \/ \E v \in Workers : /\ step'[v] \in {"supersede", "create"}
                                  /\ mem'[v].plan = checkpoint'.plan
        <5>1. CASE PlanUnanswered
          BY <2>1, <3>2, <5>1, RowsKept
        <5>2. ASSUME NEW v \in Workers, step[v] \in {"supersede", "create"},
                     mem[v].plan = checkpoint.plan
              PROVE  /\ step'[v] \in {"supersede", "create"}
                     /\ mem'[v].plan = checkpoint'.plan
          BY <1>5, <2>1, <4>1, <5>2, PassingKeeps
        <5> QED
          BY <3>1, <5>1, <5>2
      <4> QED
        BY <4>1, <4>2 DEF Asked
    <3>3. CASE Create(w)
      <4>1. SomePending'
        BY <2>1, <3>3, RowsKept
      <4>2. \/ PlanUnanswered'
            \/ \E v \in Workers : /\ step'[v] \in {"supersede", "create"}
                                  /\ mem'[v].plan = checkpoint'.plan
        <5>1. CASE PlanUnanswered \/ mem[w].plan = checkpoint.plan
          BY <2>1, <3>3, <5>1, RowsKept
        <5>2. ASSUME NEW v \in Workers, step[v] \in {"supersede", "create"},
                     mem[v].plan = checkpoint.plan,
                     mem[w].plan # checkpoint.plan
              PROVE  /\ step'[v] \in {"supersede", "create"}
                     /\ mem'[v].plan = checkpoint'.plan
          BY <1>5, <2>1, <5>2, PassingKeeps
        <5> QED
          BY <3>1, <5>1, <5>2
      <4> QED
        BY <4>1, <4>2 DEF Asked
    <3>4. CASE ~Supersede(w) /\ ~Create(w)
      <4>1. UNCHANGED approvals /\ step[w] \notin {"supersede", "create"}
        BY <1>5, <2>4, <3>4
        DEF Passing, Raise, Execute, InGraph, Fail, NotifyError, Await,
            NotifyApproval, Close, FlushOne, LoseOne, Flushed, rows
      <4>2. \A v \in Workers : step[v] \in {"supersede", "create"} =>
                step'[v] = step[v] /\ mem'[v] = mem[v]
        BY <1>5, <4>1, PassingKeeps
      <4>3. /\ SomePending => SomePending'
            /\ PlanUnanswered => PlanUnanswered'
        BY <2>1, <4>1, RowsKept
      <4> QED
        BY <2>1, <3>1, <4>2, <4>3 DEF Asked
    <3> QED
      BY <3>2, <3>3, <3>4
  <2> QED
    BY <2>2, <2>3, <2>4
<1>6. ASSUME NEW w \in Workers, Passing(w),
             ~(checkpoint.next = "ask" /\ timeouts = 0)
      PROVE  Asked'
  BY <1>6, PassingKeeps DEF Asked
<1> QED
  BY <1>1, <1>2, <1>3, <1>4, <1>5, <1>6 DEF Next

LEMMA InsertedStep ==
    ASSUME Typed, Inserted, [Next]_vars
    PROVE  Inserted'
<1>1. CASE UNCHANGED vars
  BY <1>1 DEF vars, workers, rows, faults, Inserted, Stirring
<1>2. CASE SubmitIncident \/ \E decision \in Decisions : SubmitApproval(decision)
  BY <1>2, RequestStirs DEF Inserted, Stirring
<1>3. ASSUME NEW w \in Workers, TimeOut(w) \/ LoseOne(w)
      PROVE  Inserted'
  <2>1. timeouts' # 0 \/ lost' # 0
    BY <1>3 DEF TimeOut, LoseOne, Typed, TypeInv, TypeOK
  <2> QED
    BY <2>1 DEF Inserted
<1>4. ASSUME NEW w \in Workers, WorkerStep(w) \/ Crash(w), ~Passing(w)
      PROVE  Inserted'
  BY <1>4, OtherStirs DEF Inserted
<1>5. ASSUME NEW w \in Workers, Passing(w), ~LoseOne(w),
             checkpoint.next = "END", checkpoint.final # "none",
             timeouts = 0, lost = 0
      PROVE  Inserted'
  <2>1. /\ step \in [Workers -> Steps] /\ mem \in [Workers -> Thread]
        /\ unflushed \in [Workers -> Seq(AuditEvent)]
        /\ ledger \in Seq(AuditEvent) /\ UNCHANGED checkpoint
    BY <1>5, PassingKeeps DEF Typed, TypeInv, TypeOK
  <2>2. CASE Snapshot(w)
    <3>1. step'[w] = "close" /\ mem'[w] = checkpoint
      BY <1>5, <2>1, <2>2 DEF Snapshot
    <3> QED
      BY <2>1, <3>1 DEF Inserted
  <2>3. CASE Stirring /\ ~Snapshot(w)
    BY <1>5, <2>3, PassingStirs DEF Inserted
  <2>4. ASSUME ~Stirring, ~Snapshot(w)
        PROVE  Inserted'
    <3>1. Range(ledger) \subseteq Range(ledger')
      <4>1. CASE FlushOne(w)
        BY <2>1, <4>1, FlushedRange
      <4>2. CASE ~FlushOne(w)
        BY <1>5, <2>4, <4>2
        DEF Passing, Raise, Execute, Fail, NotifyError, Supersede, Create,
            Await, NotifyApproval, Close, Flushed, rows
      <4> QED
        BY <4>1, <4>2
    <3>2. CASE Range(checkpoint.trail) \subseteq Range(ledger)
      BY <2>1, <3>1, <3>2 DEF Inserted
    <3>3. ASSUME NEW v \in Workers, step[v] = "close", mem[v] = checkpoint
          PROVE  Inserted'
      <4>1. CASE v = w
        <5>1. Close(w)
          BY <1>5, <2>4, <3>3, <4>1
          DEF Passing, Raise, Execute, InGraph, Fail, NotifyError, Supersede,
              Create, Await, NotifyApproval, FlushOne, LoseOne, Flushed
        <5>2. step'[w] = "flush" /\ unflushed'[w] = checkpoint.trail
          BY <2>1, <3>3, <4>1, <5>1 DEF Close
        <5> QED
          BY <2>1, <5>2 DEF Inserted
      <4>2. CASE v # w
        <5>1. step'[v] = "close" /\ mem'[v] = checkpoint
          BY <1>5, <3>3, <4>2, PassingKeeps
        <5> QED
          BY <2>1, <5>1 DEF Inserted
      <4> QED
        BY <4>1, <4>2
    <3>4. ASSUME NEW v \in Workers, step[v] = "flush",
                 Range(checkpoint.trail)
                     \subseteq Range(ledger) \cup Range(unflushed[v])
          PROVE  Inserted'
      <4>1. CASE v = w
        <5>1. FlushOne(w) \/ Flushed(w)
          BY <1>5, <2>4, <3>4, <4>1
          DEF Passing, Raise, Execute, InGraph, Fail, NotifyError, Supersede,
              Create, Await, NotifyApproval, Close, LoseOne
        <5>2. CASE FlushOne(w)
          <6>1. step'[w] = "flush"
            BY <3>4, <4>1, <5>2 DEF FlushOne
          <6>2. Range(ledger) \cup Range(unflushed[w])
                    \subseteq Range(ledger') \cup Range(unflushed'[w])
            BY <2>1, <5>2, FlushedRange
          <6> QED
            BY <2>1, <3>4, <4>1, <6>1, <6>2 DEF Inserted
        <5>3. CASE Flushed(w)
          <6>1. Range(unflushed[w]) = {} /\ UNCHANGED ledger
            BY <5>3 DEF Flushed, Range, rows
          <6> QED
            BY <2>1, <3>4, <4>1, <6>1 DEF Inserted
        <5> QED
          BY <5>1, <5>2, <5>3
      <4>2. CASE v # w
        <5>1. step'[v] = "flush" /\ unflushed'[v] = unflushed[v]
          BY <1>5, <3>4, <4>2, PassingKeeps
        <5>2. Range(checkpoint'.trail)
                  \subseteq Range(ledger') \cup Range(unflushed'[v])
          BY <2>1, <3>1, <3>4, <5>1
        <5> QED
          BY <5>1, <5>2 DEF Inserted
      <4> QED
        BY <4>1, <4>2
    <3> QED
      BY <1>5, <2>4, <3>2, <3>3, <3>4 DEF Inserted
  <2> QED
    BY <2>2, <2>3, <2>4
<1>6. ASSUME NEW w \in Workers, Passing(w), ~LoseOne(w),
             ~(checkpoint.next = "END" /\ checkpoint.final # "none"
               /\ timeouts = 0 /\ lost = 0)
      PROVE  Inserted'
  <2>1. UNCHANGED <<checkpoint, timeouts, lost>>
    BY <1>6, PassingKeeps
    DEF Passing, Raise, Execute, Fail, NotifyError, Snapshot, Supersede,
        Create, Await, NotifyApproval, Close, FlushOne, Flushed, faults
  <2> QED
    BY <1>6, <2>1 DEF Inserted
<1> QED
  BY <1>1, <1>2, <1>3, <1>4, <1>5, <1>6 DEF Next

LEMMA InProgressStep ==
    ASSUME Typed, InProgress, [Next]_vars
    PROVE  InProgress'
<1>0. step \in [Workers -> Steps] /\ mem \in [Workers -> Thread]
  BY DEF Typed, TypeInv, TypeOK
<1>1. CASE UNCHANGED vars
  BY <1>1 DEF vars, workers, rows, faults, InProgress
<1>2. CASE SubmitIncident \/ \E decision \in Decisions : SubmitApproval(decision)
  BY <1>2, RequestStirs DEF InProgress
<1>3. ASSUME NEW w \in Workers, TimeOut(w)
      PROVE  InProgress'
  <2>1. timeouts' # 0
    BY <1>3 DEF TimeOut, Typed, TypeInv, TypeOK
  <2> QED
    BY <2>1 DEF InProgress
<1>4. ASSUME NEW w \in Workers, WorkerStep(w) \/ Crash(w), ~Passing(w)
      PROVE  InProgress'
  BY <1>4, OtherStirs DEF InProgress, Stirring
<1>5. ASSUME NEW w \in Workers, Passing(w)
      PROVE  InProgress'
  <2>1. CASE Raise(w) \/ Execute(w) \/ Snapshot(w) \/ Supersede(w) \/ Create(w)
    <3>1. step'[w] \notin {"idle", "error", "notify", "flush"}
      BY <1>0, <2>1 DEF Raise, Execute, Snapshot, Supersede, Create
    <3> QED
      BY <3>1 DEF InProgress
  <2>2. CASE Fail(w) \/ Await(w) \/ Close(w)
    <3>1. mem[w].final \in Statuses \cup {"none"}
      BY <1>0 DEF Thread
    <3>2. status' # "IN_PROGRESS"
      BY <2>2, <3>1 DEF Fail, Await, Close, Statuses
    <3> QED
      BY <3>2 DEF InProgress
  <2>3. CASE \/ NotifyError(w) \/ NotifyApproval(w) \/ FlushOne(w)
             \/ LoseOne(w) \/ Flushed(w)
    <3>1. /\ UNCHANGED status
          /\ step[w] \in {"error", "notify", "flush"}
      BY <2>3 DEF NotifyError, NotifyApproval, FlushOne, LoseOne, Flushed, rows
    <3>2. \A v \in Workers : step[v] \notin {"idle", "error", "notify", "flush"}
              => step'[v] = step[v]
      BY <1>5, <3>1, PassingKeeps
    <3> QED
      BY <1>5, <3>1, <3>2, PassingKeeps DEF InProgress
  <2> QED
    BY <1>5, <2>1, <2>2, <2>3 DEF Passing
<1> QED
  BY <1>1, <1>2, <1>3, <1>4, <1>5 DEF Next

LEMMA RunnerLeaves == Spec => [](Typed /\ Asked /\ Inserted /\ InProgress)
<1>1. Init => Typed /\ Asked /\ Inserted /\ InProgress
  BY RunnerTypeInit
  DEF Init, Typed, Employed, Asked, Inserted, InProgress, NoThread
<1>2. Typed /\ Asked /\ Inserted /\ InProgress /\ [Next]_vars
          => (Typed /\ Asked /\ Inserted /\ InProgress)'
  BY RunnerTypeStep, AskedStep, InsertedStep, InProgressStep DEF Typed
<1> QED
  BY <1>1, <1>2, PTL DEF Spec

\* An incident that waits for a human has been shown to one, whatever crashed
\* and was delivered again.  However jobs overlapped, something is pending
\* and the plan it waits with is in a row that nobody has answered; until two
\* jobs overlap, its row, its one pending approval and the stream's last
\* event say so.
THEOREM RunnerShowsPause == Spec => []PausedIsShown
<1>1. ASSUME Typed, Asked, ~overlapped => WriteInv
      PROVE  PausedIsShown
  <2> SUFFICES ASSUME Quiet, checkpoint.next = "ask", timeouts = 0
               PROVE  SomePending /\ PlanUnanswered /\ (~overlapped => PauseAlone)
    BY DEF PausedIsShown, SomePending, PlanUnanswered
  <2>1. ~Stirring /\ \A w \in Workers : step[w] \notin {"supersede", "create"}
    BY DEF Quiet, Stirring
  <2>2. SomePending /\ PlanUnanswered
    BY <1>1, <2>1 DEF Asked
  <2> QED
    BY <1>1, <2>2, WritesPause
<1> QED
  BY <1>1, RunnerWrites, RunnerLeaves, PTL

\* An incident that the graph ended is recorded.  However jobs overlapped, it
\* is not left IN_PROGRESS and the ledger has every event of the trail unless
\* an insert failed; until two jobs overlap, its row has the graph's status,
\* the ledger ends with the whole trail, and without a fault the stream's
\* last event said the same.
THEOREM RunnerRecordsEnd == Spec => []ClosedIsRecorded
<1>1. ASSUME Typed, Inserted, InProgress, ~overlapped => WriteInv
      PROVE  ClosedIsRecorded
  <2> SUFFICES ASSUME Quiet, checkpoint.next = "END",
                      checkpoint.final # "none", timeouts = 0
               PROVE  /\ status # "IN_PROGRESS"
                      /\ lost = 0 => Range(checkpoint.trail) \subseteq Range(ledger)
                      /\ ~overlapped => EndAlone
    BY DEF ClosedIsRecorded
  <2>1. ~Stirring /\ queue = <<>> /\ \A w \in Workers : step[w] = "idle"
    BY DEF Quiet, Stirring
  <2>2. status # "IN_PROGRESS"
    BY <1>1, <2>1 DEF InProgress
  <2>3. lost = 0 => Range(checkpoint.trail) \subseteq Range(ledger)
    BY <1>1, <2>1 DEF Inserted
  <2>4. ~overlapped => EndAlone
    BY <1>1, WritesEnd
  <2> QED
    BY <2>2, <2>3, <2>4
<1> QED
  BY <1>1, RunnerWrites, RunnerLeaves, PTL

-----------------------------------------------------------------------------
(* However jobs overlap, only answers and deaths of workers repeat a plan. *)

\* A plan is carried out once, and again at most once for each answer and
\* each crash: submissions and jobs that are timed out never repeat one.
RepeatsAreAnswers ==
    \A p \in 1..MaxPlans : effects[p] <= 1 + answers + crashes

\* A job that resumes may find any plan waiting: it is a licence to carry out
\* one.  Each answer issues a licence and each crash may issue one again; a
\* queued job holds it, then a worker until the graph has left the plan.
Licences(jobs) == {i \in DOMAIN jobs : jobs[i].kind = "resume"}

Resuming ==
    {w \in Workers : step[w] \in {"begin", "load"} /\ task[w].kind = "resume"}

\* The workers that could still carry out a plan.
Holders(p) ==
    Resuming \cup {w \in Workers : /\ step[w] = "graph"
                                   /\ mem[w].next \in {"ask", "execute"}
                                   /\ mem[w].plan = p}

\* Strengthening of RepeatsAreAnswers.  No thread knows of a plan that is not
\* made; the licences that are out were issued; and what was done to a plan
\* and what is out against it stays within what was issued.
Known ==
    /\ checkpoint.plan <= made
    /\ \A w \in Workers : mem[w].plan <= made
    /\ \A p \in 1..MaxPlans : p > made => effects[p] = 0

Issued ==
    Cardinality(Licences(queue)) + Cardinality(Resuming) <= answers + crashes

Spent ==
    \A p \in 1..made :
        effects[p] + Cardinality(Licences(queue)) + Cardinality(Holders(p))
            <= 1 + answers + crashes

LicenceInv == Known /\ Issued /\ Spent

\* A queue holds finitely many licences.
LEMMA LicencesFinite ==
    ASSUME NEW jobs \in Seq(Job \cup {NoJob})
    PROVE  IsFiniteSet(Licences(jobs)) /\ Cardinality(Licences(jobs)) \in Nat
<1>1. Len(jobs) \in Nat /\ DOMAIN jobs = 1..Len(jobs)
  BY LenProperties
<1>2. IsFiniteSet(1..Len(jobs))
  BY <1>1, FS_Interval
<1>3. Licences(jobs) \in SUBSET (1..Len(jobs))
  BY <1>1 DEF Licences
<1> QED
  BY <1>2, <1>3, FS_Subset, FS_CardinalityType

\* The licence of one job.
One(job) == IF job.kind = "resume" THEN 1 ELSE 0

LEMMA LicencesAppend ==
    ASSUME NEW jobs \in Seq(Job \cup {NoJob}), NEW job \in Job \cup {NoJob}
    PROVE  Cardinality(Licences(Append(jobs, job)))
               = Cardinality(Licences(jobs)) + One(job)
<1> DEFINE n == Len(jobs)
           S == Job \cup {NoJob}
<1>1. /\ n \in Nat /\ DOMAIN jobs = 1..n
      /\ DOMAIN Append(jobs, job) = 1..(n + 1)
      /\ \A i \in 1..n : Append(jobs, job)[i] = jobs[i]
      /\ Append(jobs, job)[n + 1] = job
  <2>1. jobs \in Seq(S) /\ job \in S
    OBVIOUS
  <2> HIDE DEF S
  <2> QED
    BY <2>1, LenProperties, AppendProperties
<1>2. IsFiniteSet(Licences(jobs)) /\ Cardinality(Licences(jobs)) \in Nat
  BY LicencesFinite
<1> HIDE DEF n
<1>3. CASE job.kind = "resume"
  <2>1. Licences(Append(jobs, job)) = Licences(jobs) \cup {n + 1}
    BY <1>1, <1>3 DEF Licences
  <2>2. n + 1 \notin Licences(jobs)
    BY <1>1 DEF Licences
  <2> QED
    BY <1>2, <1>3, <2>1, <2>2, FS_AddElement DEF One
<1>4. CASE job.kind # "resume"
  <2>1. Licences(Append(jobs, job)) = Licences(jobs)
    BY <1>1, <1>4 DEF Licences
  <2> QED
    BY <1>2, <1>4, <2>1 DEF One
<1> QED
  BY <1>3, <1>4

LEMMA LicencesTail ==
    ASSUME NEW jobs \in Seq(Job \cup {NoJob}), jobs # <<>>
    PROVE  Cardinality(Licences(jobs))
               = Cardinality(Licences(Tail(jobs))) + One(Head(jobs))
<1> DEFINE n == Len(jobs)
           S == Job \cup {NoJob}
           rest == Licences(jobs) \ {1}
           shift == [i \in rest |-> i - 1]
<1>1. /\ n \in Nat \ {0} /\ DOMAIN jobs = 1..n /\ Head(jobs) = jobs[1]
      /\ Tail(jobs) \in Seq(S) /\ DOMAIN Tail(jobs) = 1..(n - 1)
      /\ \A i \in 1..(n - 1) : Tail(jobs)[i] = jobs[i + 1]
  <2>1. jobs \in Seq(S)
    OBVIOUS
  <2> HIDE DEF S
  <2> QED
    BY <2>1, LenProperties, HeadTailProperties, EmptySeq
<1>2. IsFiniteSet(Licences(jobs)) /\ Cardinality(Licences(jobs)) \in Nat
  BY LicencesFinite
<1> HIDE DEF n
<1>3. /\ IsFiniteSet(rest)
      /\ Cardinality(rest) = IF 1 \in Licences(jobs)
                             THEN Cardinality(Licences(jobs)) - 1
                             ELSE Cardinality(Licences(jobs))
  BY <1>2, FS_RemoveElement
<1>4. 1 \in Licences(jobs) <=> Head(jobs).kind = "resume"
  BY <1>1 DEF Licences
<1>5. shift \in Bijection(rest, Licences(Tail(jobs)))
  <2>1. shift \in [rest -> Licences(Tail(jobs))]
    BY <1>1 DEF Licences
  <2>2. \A i, j \in rest : shift[i] = shift[j] => i = j
    BY <1>1 DEF Licences
  <2>3. \A k \in Licences(Tail(jobs)) : \E i \in rest : shift[i] = k
    <3> SUFFICES ASSUME NEW k \in Licences(Tail(jobs))
                 PROVE  \E i \in rest : shift[i] = k
      OBVIOUS
    <3>1. k \in 1..(n - 1) /\ jobs[k + 1].kind = "resume"
      BY <1>1 DEF Licences
    <3>2. k + 1 \in rest /\ shift[k + 1] = k
      BY <1>1, <3>1 DEF Licences
    <3> QED
      BY <3>2
  <2> HIDE DEF shift, rest
  <2> QED
    BY <2>1, <2>2, <2>3 DEF Bijection, Injection, Surjection, IsInjective
<1>6. Cardinality(Licences(Tail(jobs))) = Cardinality(rest)
  <2> HIDE DEF shift, rest
  <2> QED
    BY <1>3, <1>5, FS_Bijection DEF ExistsBijection
<1> HIDE DEF rest
<1> QED
  BY <1>2, <1>3, <1>4, <1>6 DEF One

LEMMA LicencesCons ==
    ASSUME NEW jobs \in Seq(Job \cup {NoJob}), NEW job \in Job \cup {NoJob}
    PROVE  Cardinality(Licences(<<job>> \o jobs))
               = Cardinality(Licences(jobs)) + One(job)
<1> DEFINE S == Job \cup {NoJob}
           long == <<job>> \o jobs
<1>1. jobs \in Seq(S) /\ <<job>> \in Seq(S) /\ Len(<<job>>) = 1
  OBVIOUS
<1> HIDE DEF S
<1>2. /\ long \in Seq(S) /\ Len(long) = 1 + Len(jobs) /\ Len(jobs) \in Nat
      /\ \A i \in 1..(1 + Len(jobs)) :
             long[i] = IF i <= 1 THEN <<job>>[i] ELSE jobs[i - 1]
  BY <1>1, ConcatProperties, LenProperties
<1> HIDE DEF long
<1>3. long # <<>> /\ Head(long) = job
  BY <1>2, EmptySeq
<1>4. /\ Tail(long) \in Seq(S) /\ Len(Tail(long)) = Len(jobs)
      /\ \A i \in 1..Len(jobs) : Tail(long)[i] = long[i + 1]
  BY <1>2, <1>3, HeadTailProperties
<1>5. ASSUME NEW i \in 1..Len(jobs)
      PROVE  Tail(long)[i] = jobs[i]
  <2>1. i + 1 \in 1..(1 + Len(jobs)) /\ ~(i + 1 <= 1) /\ (i + 1) - 1 = i
    BY <1>2
  <2> QED
    BY <1>2, <1>4, <2>1
<1>6. Tail(long) = jobs
  BY <1>1, <1>4, <1>5, SeqEqual
<1> QED
  BY <1>2, <1>3, <1>6, LicencesTail DEF S, long

LEMMA LicenceInit == Init => LicenceInv
<1> SUFFICES ASSUME Init
             PROVE  LicenceInv
  OBVIOUS
<1>1. Licences(queue) = {} /\ Resuming = {}
  BY DEF Init, Licences, Resuming
<1>2. Cardinality({}) = 0
  BY FS_EmptySet
<1>3. Known
  BY DEF Init, NoThread, Known
<1>4. answers = 0 /\ crashes = 0 /\ made = 0
  BY DEF Init
<1>5. Issued /\ Spent
  BY <1>1, <1>2, <1>4 DEF Issued, Spent
<1> QED
  BY <1>3, <1>5 DEF LicenceInv

\* Fewer workers, fewer licences.
LEMMA WorkersCount ==
    ASSUME NEW T \in SUBSET Workers, NEW U \in SUBSET T
    PROVE  /\ IsFiniteSet(T) /\ Cardinality(T) \in Nat
           /\ Cardinality(U) \in Nat /\ Cardinality(U) <= Cardinality(T)
<1>1. IsFiniteSet(Workers)
  BY RunnerAssumption
<1>2. IsFiniteSet(T) /\ IsFiniteSet(U) /\ Cardinality(U) <= Cardinality(T)
  BY <1>1, FS_Subset
<1> QED
  BY <1>2, FS_CardinalityType

\* What the counting needs of the types.
LEMMA LicenceTypes ==
    ASSUME Typed
    PROVE  /\ queue \in Seq(Job \cup {NoJob})
           /\ task \in [Workers -> Job \cup {NoJob}]
           /\ step \in [Workers -> Steps] /\ mem \in [Workers -> Thread]
           /\ \A w \in Workers : mem[w] \in Thread /\ mem[w].plan \in Nat
           /\ checkpoint \in Thread /\ checkpoint.plan \in Nat
           /\ effects \in [1..MaxPlans -> Nat] /\ made \in 0..MaxPlans
           /\ answers \in Nat /\ crashes \in Nat /\ made \in Nat
           /\ MaxPlans \in Nat
           /\ Cardinality(Licences(queue)) \in Nat
           /\ Resuming \subseteq Workers /\ Cardinality(Resuming) \in Nat
           /\ \A p : /\ Resuming \subseteq Holders(p)
                     /\ Holders(p) \subseteq Workers
                     /\ Cardinality(Holders(p)) \in Nat
<1>1. queue \in Seq(Job \cup {NoJob})
  <2>1. queue \in Seq(Job)
    BY DEF Typed, TypeInv, TypeOK
  <2> QED
    BY <2>1, SeqMonotonic
<1>2. Cardinality(Licences(queue)) \in Nat
  BY <1>1, LicencesFinite
<1>3. Resuming \subseteq Workers /\ Cardinality(Resuming) \in Nat
  BY WorkersCount DEF Resuming
<1>4. \A p : /\ Resuming \subseteq Holders(p) /\ Holders(p) \subseteq Workers
             /\ Cardinality(Holders(p)) \in Nat
  <2>1. \A p : Resuming \subseteq Holders(p) /\ Holders(p) \subseteq Workers
    BY DEF Holders, Resuming
  <2> QED
    BY <2>1, WorkersCount
<1>5. /\ task \in [Workers -> Job \cup {NoJob}]
      /\ step \in [Workers -> Steps] /\ mem \in [Workers -> Thread]
      /\ checkpoint \in Thread
      /\ effects \in [1..MaxPlans -> Nat] /\ made \in 0..MaxPlans
      /\ answers \in Nat /\ crashes \in Nat /\ made \in Nat
      /\ MaxPlans \in Nat
  BY RunnerAssumption DEF Typed, TypeInv, TypeOK
<1>6. /\ \A w \in Workers : mem[w] \in Thread /\ mem[w].plan \in Nat
      /\ checkpoint.plan \in Nat
  BY <1>5 DEF Thread
<1> QED
  BY <1>1, <1>2, <1>3, <1>4, <1>5, <1>6

LEMMA Slack ==
    ASSUME NEW q \in Nat, NEW next \in Nat, NEW held \in Nat, NEW left \in Nat,
           NEW issued \in Nat, NEW later \in Nat, NEW done \in Nat,
           left <= held, next - q <= later - issued,
           done + q + held <= issued
    PROVE  done + next + left <= later
OBVIOUS

\* A step that carries nothing out and gives no worker a licence: what it
\* adds to the queue was issued by the same step.
LEMMA LicenceKept ==
    ASSUME Typed, Typed', LicenceInv, Known', UNCHANGED <<effects, made>>,
           Resuming' \subseteq Resuming,
           \A p \in 1..made : Holders(p)' \subseteq Holders(p),
           Cardinality(Licences(queue')) - Cardinality(Licences(queue))
               <= (answers' + crashes') - (answers + crashes)
    PROVE  LicenceInv'
<1>1. /\ answers \in Nat /\ crashes \in Nat /\ MaxPlans \in Nat
      /\ effects \in [1..MaxPlans -> Nat] /\ made \in 0..MaxPlans
      /\ Resuming \subseteq Workers /\ Cardinality(Resuming) \in Nat
      /\ \A p : Holders(p) \subseteq Workers /\ Cardinality(Holders(p)) \in Nat
  BY LicenceTypes
<1>2. PICK q \in Nat : q = Cardinality(Licences(queue))
  BY LicenceTypes
<1>3. PICK next \in Nat : next = Cardinality(Licences(queue'))
  <2>1. queue' \in Seq(Job \cup {NoJob})
    <3>1. queue' \in Seq(Job)
      BY DEF Typed, TypeInv, TypeOK
    <3> QED
      BY <3>1, SeqMonotonic
  <2> QED
    BY <2>1, LicencesFinite
<1>4. PICK later \in Nat : later = answers' + crashes'
  <2>1. answers' \in 0..MaxAnswers /\ crashes' \in Nat
    BY DEF Typed, TypeInv, TypeOK
  <2>2. PICK a \in Nat, c \in Nat : answers' = a /\ crashes' = c
    BY <2>1, RunnerAssumption
  <2>3. a + c \in Nat
    OBVIOUS
  <2> QED
    BY <2>2, <2>3
<1>5. PICK issued \in Nat : issued = answers + crashes
  BY <1>1
<1>6. next - q <= later - issued
  BY <1>2, <1>3, <1>4, <1>5
<1>7. Issued'
  <2>1. PICK held \in Nat, left \in Nat :
            /\ held = Cardinality(Resuming) /\ left = Cardinality(Resuming')
            /\ left <= held
    BY <1>1, WorkersCount
  <2>2. 0 + q + held <= issued
    BY <1>2, <1>5, <2>1 DEF LicenceInv, Issued
  <2>3. 0 + next + left <= later
    BY <1>6, <2>1, <2>2, Slack
  <2> QED
    BY <1>3, <1>4, <2>1, <2>3 DEF Issued
<1>8. Spent'
  <2> SUFFICES ASSUME NEW p \in 1..made
               PROVE  effects[p] + Cardinality(Licences(queue'))
                          + Cardinality(Holders(p)')
                              <= 1 + answers' + crashes'
    BY DEF Spent
  <2>1. PICK held \in Nat, left \in Nat :
            /\ held = Cardinality(Holders(p)) /\ left = Cardinality(Holders(p)')
            /\ left <= held
    BY <1>1, WorkersCount
  <2>2. /\ effects[p] \in Nat /\ effects[p] + q + held <= 1 + issued
        /\ next - q <= (1 + later) - (1 + issued)
    BY <1>1, <1>2, <1>5, <1>6, <2>1 DEF LicenceInv, Spent
  <2>3. effects[p] + next + left <= 1 + later
    BY <2>1, <2>2, Slack
  <2>4. 1 + answers' + crashes' = 1 + later
    <3>1. answers' \in 0..MaxAnswers /\ crashes' \in Nat
      BY DEF Typed, TypeInv, TypeOK
    <3>2. PICK a \in Nat, c \in Nat : a = answers' /\ c = crashes'
      BY <3>1, RunnerAssumption
    <3> QED
      BY <1>4, <3>2
  <2> QED
    BY <1>3, <2>1, <2>3, <2>4
<1> QED
  BY <1>7, <1>8 DEF LicenceInv

\* A worker's step that starts no job that resumes, and does not bring its
\* graph to a plan it was not at.
LEMMA HoldersFall ==
    ASSUME Typed, NEW w \in Workers, WorkerStep(w) \/ Crash(w) \/ TimeOut(w),
           step'[w] \in {"begin", "load"} /\ task'[w].kind = "resume" =>
               w \in Resuming,
           step'[w] = "graph" /\ mem'[w].next \in {"ask", "execute"} =>
               \/ w \in Resuming
               \/ /\ step[w] = "graph" /\ mem[w].next \in {"ask", "execute"}
                  /\ mem'[w].plan = mem[w].plan
    PROVE  /\ Resuming' \subseteq Resuming
           /\ \A p : Holders(p)' \subseteq Holders(p)
<1>1. \A v \in Workers : v # w =>
          step'[v] = step[v] /\ mem'[v] = mem[v] /\ task'[v] = task[v]
  BY StepsOwn
<1>2. Resuming' \subseteq Resuming
  BY <1>1 DEF Resuming
<1>3. ASSUME NEW p, NEW v \in Holders(p)'
      PROVE  v \in Holders(p)
  <2>1. CASE v \in Resuming'
    BY <1>2, <2>1 DEF Holders
  <2>2. CASE /\ v \in Workers /\ step'[v] = "graph"
             /\ mem'[v].next \in {"ask", "execute"} /\ mem'[v].plan = p
    BY <1>1, <2>2 DEF Holders
  <2> QED
    BY <1>3, <2>1, <2>2 DEF Holders
<1> QED
  BY <1>2, <1>3

\* A request queues a job; an answer comes with its licence.
LEMMA LicenceRequest ==
    ASSUME Typed, Typed', LicenceInv,
           SubmitIncident \/ \E decision \in Decisions : SubmitApproval(decision)
    PROVE  LicenceInv'
<1>1. UNCHANGED <<workers, checkpoint, plans, crashes>>
  BY DEF SubmitIncident, SubmitApproval, faults
<1>2. Known' /\ Resuming' \subseteq Resuming
      /\ \A p \in 1..made : Holders(p)' \subseteq Holders(p)
  BY <1>1 DEF workers, plans, LicenceInv, Known, Resuming, Holders
<1>3. /\ queue \in Seq(Job \cup {NoJob}) /\ answers \in Nat /\ crashes \in Nat
      /\ Cardinality(Licences(queue)) \in Nat
  BY LicenceTypes
<1>4. PICK job \in Job : /\ queue' = Append(queue, job)
                         /\ \/ job.kind = "run" /\ answers' = answers
                            \/ job.kind = "resume" /\ answers' = answers + 1
  <2>1. CASE SubmitIncident
    <3>1. [kind |-> "run", answer |-> "none"] \in Job
      BY DEF Job
    <3> QED
      BY <2>1, <3>1 DEF SubmitIncident
  <2>2. ASSUME NEW decision \in Decisions, SubmitApproval(decision)
        PROVE  /\ [kind |-> "resume", answer |-> decision] \in Job
               /\ queue' = Append(queue, [kind |-> "resume", answer |-> decision])
               /\ answers' = answers + 1
    BY <2>2 DEF SubmitApproval, Job
  <2> QED
    BY <2>1, <2>2
<1>5. Cardinality(Licences(queue'))
          = Cardinality(Licences(queue)) + One(job)
  <2>1. job \in Job \cup {NoJob}
    OBVIOUS
  <2> QED
    BY <1>3, <1>4, <2>1, LicencesAppend
<1>6. One(job) <= (answers' + crashes') - (answers + crashes)
  BY <1>1, <1>3, <1>4 DEF One
<1>7. Cardinality(Licences(queue')) - Cardinality(Licences(queue))
          <= (answers' + crashes') - (answers + crashes)
  <2>1. One(job) \in Nat
    BY DEF One
  <2>2. Cardinality(Licences(queue')) - Cardinality(Licences(queue)) = One(job)
    BY <1>3, <1>5, <2>1
  <2> QED
    BY <1>6, <2>2
<1> QED
  BY <1>1, <1>2, <1>7, LicenceKept DEF plans

\* A worker that takes a job takes its licence along.
LEMMA LicenceTake ==
    ASSUME Typed, Typed', LicenceInv, NEW w \in Workers, Take(w)
    PROVE  LicenceInv'
<1>1. /\ UNCHANGED <<mem, checkpoint, effects, made, answers, crashes>>
      /\ queue # <<>> /\ queue' = Tail(queue)
  BY DEF Take, plans, requests, faults
<1>2. /\ queue \in Seq(Job \cup {NoJob}) /\ answers \in Nat /\ crashes \in Nat
      /\ task \in [Workers -> Job \cup {NoJob}] /\ step \in [Workers -> Steps]
      /\ effects \in [1..MaxPlans -> Nat] /\ made \in 0..MaxPlans
      /\ MaxPlans \in Nat /\ Resuming \subseteq Workers
      /\ \A p : /\ Resuming \subseteq Holders(p) /\ Holders(p) \subseteq Workers
                /\ Cardinality(Holders(p)) \in Nat
      /\ Cardinality(Resuming) \in Nat /\ Cardinality(Licences(queue)) \in Nat
  BY LicenceTypes
<1>3. Cardinality(Licences(queue)) = Cardinality(Licences(queue')) + One(Head(queue))
  BY <1>1, <1>2, LicencesTail
<1>4. Cardinality(Licences(queue')) \in Nat
  <2>1. queue' \in Seq(Job \cup {NoJob})
    <3> DEFINE S == Job \cup {NoJob}
    <3>1. queue \in Seq(S)
      BY <1>2
    <3> HIDE DEF S
    <3>2. queue' \in Seq(S)
      BY <1>1, <3>1, HeadTailProperties
    <3> QED
      BY <3>2 DEF S
  <2> QED
    BY <2>1, LicencesFinite
<1>5. Known'
  BY <1>1 DEF LicenceInv, Known
<1>6. /\ step[w] = "idle" /\ step'[w] = "begin" /\ task'[w] = Head(queue)
      /\ \A v \in Workers : v # w => step'[v] = step[v] /\ task'[v] = task[v]
  BY <1>2 DEF Take
<1>7. CASE Head(queue).kind = "resume"
  <2>1. /\ w \notin Resuming /\ Resuming' = Resuming \cup {w}
        /\ \A p : w \notin Holders(p) /\ Holders(p)' = Holders(p) \cup {w}
    BY <1>1, <1>6, <1>7 DEF Resuming, Holders
  <2>2. /\ Cardinality(Resuming') = Cardinality(Resuming) + 1
        /\ \A p : Cardinality(Holders(p)') = Cardinality(Holders(p)) + 1
    BY <1>2, <2>1, WorkersCount, FS_AddElement
  <2>3. Cardinality(Licences(queue)) = Cardinality(Licences(queue')) + 1
    BY <1>3, <1>7 DEF One
  <2>4. Issued'
    BY <1>1, <1>2, <1>4, <2>2, <2>3 DEF LicenceInv, Issued
  <2>5. Spent'
    <3> SUFFICES ASSUME NEW p \in 1..made
                 PROVE  effects[p] + Cardinality(Licences(queue'))
                            + Cardinality(Holders(p)') <= 1 + answers + crashes
      BY <1>1 DEF Spent
    <3>1. /\ effects[p] \in Nat
          /\ effects[p] + Cardinality(Licences(queue)) + Cardinality(Holders(p))
                 <= 1 + answers + crashes
      BY <1>2 DEF LicenceInv, Spent
    <3> QED
      BY <1>2, <1>4, <2>2, <2>3, <3>1
  <2> QED
    BY <1>5, <2>4, <2>5 DEF LicenceInv
<1>8. CASE Head(queue).kind # "resume"
  <2>1. Resuming' \subseteq Resuming /\ \A p : Holders(p)' \subseteq Holders(p)
    BY <1>6, <1>8, HoldersFall DEF WorkerStep
  <2>2. Cardinality(Licences(queue)) = Cardinality(Licences(queue'))
    BY <1>3, <1>4, <1>8 DEF One
  <2>3. Cardinality(Licences(queue')) - Cardinality(Licences(queue))
            <= (answers' + crashes') - (answers + crashes)
    BY <1>1, <1>2, <2>2
  <2> QED
    BY <1>1, <1>5, <2>1, <2>3, LicenceKept
<1> QED
  BY <1>7, <1>8

\* A step of a worker that leaves the queue and the plans alone, and neither
\* gets a licence nor comes to a plan.
LEMMA LicenceQuiet ==
    ASSUME Typed, Typed', LicenceInv, NEW w \in Workers,
           WorkerStep(w) \/ TimeOut(w),
           UNCHANGED <<queue, effects, made, answers, crashes>>,
           checkpoint'.plan <= made, mem'[w].plan <= made,
           step'[w] \in {"begin", "load"} /\ task'[w].kind = "resume" =>
               w \in Resuming,
           step'[w] = "graph" /\ mem'[w].next \in {"ask", "execute"} =>
               \/ w \in Resuming
               \/ /\ step[w] = "graph" /\ mem[w].next \in {"ask", "execute"}
                  /\ mem'[w].plan = mem[w].plan
    PROVE  LicenceInv'
<1>1. /\ Resuming' \subseteq Resuming
      /\ \A p : Holders(p)' \subseteq Holders(p)
  BY HoldersFall
<1>2. Known'
  <2>1. \A v \in Workers : v # w => mem'[v] = mem[v]
    BY StepsOwn
  <2> QED
    BY <2>1 DEF LicenceInv, Known
<1>3. Cardinality(Licences(queue')) - Cardinality(Licences(queue))
          <= (answers' + crashes') - (answers + crashes)
  BY LicenceTypes
<1> QED
  BY <1>1, <1>2, <1>3, LicenceKept

\* A worker that starts its job keeps the licence until the graph runs.
LEMMA LicenceStart ==
    ASSUME Typed, Typed', LicenceInv, NEW w \in Workers, Begin(w) \/ Load(w)
    PROVE  LicenceInv'
<1>1. /\ UNCHANGED <<queue, task, effects, made, answers, crashes>>
      /\ step \in [Workers -> Steps] /\ mem \in [Workers -> Thread]
      /\ checkpoint \in Thread
  BY LicenceTypes DEF Begin, Load, plans, requests, faults
<1>2. checkpoint.plan <= made /\ mem[w].plan <= made
  BY DEF LicenceInv, Known
<1>3. CASE Begin(w)
  <2>1. /\ step[w] = "begin" /\ step'[w] = "load"
        /\ UNCHANGED <<mem, checkpoint>>
    BY <1>1, <1>3 DEF Begin
  <2> QED
    BY <1>1, <1>2, <1>3, <2>1, LicenceQuiet DEF WorkerStep, Resuming
<1>4. CASE Load(w)
  <2>1. /\ step[w] = "load" /\ step'[w] = "graph" /\ mem'[w] = checkpoint'
        /\ checkpoint'.plan = checkpoint.plan
        /\ task[w].kind = "run" => checkpoint'.next = "plan"
    BY <1>1, <1>4 DEF Load, Thread
  <2>2. task[w].kind # "run" => task[w].kind = "resume"
    BY <2>1 DEF Typed, Employed, Job
  <2> QED
    BY <1>1, <1>2, <1>4, <2>1, <2>2, LicenceQuiet DEF WorkerStep, Resuming
<1> QED
  BY <1>3, <1>4

\* A new plan has nobody at it but those with a licence; a plan that is
\* carried out has one worker less at it.
LEMMA LicenceGraph ==
    ASSUME Typed, Typed', LicenceInv, NEW w \in Workers, GraphStep(w)
    PROVE  LicenceInv'
<1>1. /\ step \in [Workers -> Steps] /\ mem \in [Workers -> Thread]
      /\ mem[w] \in Thread /\ mem[w].plan \in Nat /\ Planned(mem[w])
      /\ effects \in [1..MaxPlans -> Nat] /\ made \in Nat /\ made \in 0..MaxPlans
      /\ answers \in Nat /\ crashes \in Nat /\ MaxPlans \in Nat
      /\ Resuming \subseteq Workers /\ Cardinality(Resuming) \in Nat
      /\ \A p : /\ Holders(p) \subseteq Workers
                /\ Cardinality(Holders(p)) \in Nat
      /\ Cardinality(Licences(queue)) \in Nat
  BY LicenceTypes DEF Typed, TypeInv
<1>2. /\ checkpoint.plan <= made /\ mem[w].plan <= made
      /\ \A v \in Workers : mem[v].plan <= made
  BY DEF LicenceInv, Known
<1>3. \A v \in Workers : v # w =>
          step'[v] = step[v] /\ mem'[v] = mem[v] /\ task'[v] = task[v]
  BY StepsOwn DEF WorkerStep
<1>4. ASSUME NEW next \in {"ask", "execute"}, PlanMade(w, next)
      PROVE  LicenceInv'
  <2>1. /\ mem'[w] = checkpoint' /\ checkpoint'.plan = made + 1
        /\ made' = made + 1 /\ made' \in 1..MaxPlans
        /\ UNCHANGED <<queue, task, step, effects, answers, crashes>>
        /\ step[w] = "graph" /\ mem[w].next = "plan" /\ checkpoint'.next = next
    BY <1>1, <1>4 DEF PlanMade, Save, Thread, InGraph, requests, faults
  <2>2. Known'
    <3>1. \A v \in Workers : mem'[v].plan <= made + 1
      <4>1. \A v \in Workers : mem[v].plan \in Nat /\ mem[v].plan <= made + 1
        BY <1>1, <1>2, LicenceTypes
      <4>2. mem'[w].plan <= made + 1
        BY <1>1, <2>1
      <4> QED
        BY <1>3, <4>1, <4>2
    <3>2. \A p \in 1..MaxPlans : p > made + 1 => effects[p] = 0
      BY <1>1 DEF LicenceInv, Known
    <3> QED
      BY <1>1, <2>1, <3>1, <3>2 DEF Known
  <2>3. Resuming' = Resuming
    BY <2>1 DEF Resuming
  <2>4. Issued'
    BY <2>1, <2>3 DEF LicenceInv, Issued
  <2>5. ASSUME NEW p \in 1..made
        PROVE  effects[p] + Cardinality(Licences(queue)) + Cardinality(Holders(p)')
                   <= 1 + answers + crashes
    <3>1. Holders(p)' \subseteq Holders(p)
      <4>1. mem'[w].plan # p
        BY <1>1, <2>1
      <4> QED
        BY <1>3, <2>1, <2>3, <4>1 DEF Holders
    <3>2. PICK held \in Nat, left \in Nat :
              /\ held = Cardinality(Holders(p))
              /\ Cardinality(Holders(p)') = left /\ left <= held
      BY <1>1, <3>1, WorkersCount
    <3>3. /\ effects[p] \in Nat
          /\ effects[p] + Cardinality(Licences(queue)) + held
                 <= 1 + answers + crashes
      BY <1>1, <3>2 DEF LicenceInv, Spent
    <3> QED
      BY <1>1, <3>2, <3>3
  <2>6. ASSUME NEW p \in Nat, p = made + 1
        PROVE  effects[p] + Cardinality(Licences(queue)) + Cardinality(Holders(p)')
                   <= 1 + answers + crashes
    <3>1. effects[p] = 0
      BY <1>1, <2>1, <2>6 DEF LicenceInv, Known
    <3>2. Holders(p)' \subseteq Resuming \cup {w}
      <4>1. \A v \in Workers : mem[v].plan # p
        BY <1>1, <1>2, <2>6, LicenceTypes
      <4> QED
        BY <1>3, <2>3, <4>1 DEF Holders
    <3>3. Cardinality(Resuming \cup {w}) <= Cardinality(Resuming) + 1
      BY <1>1, WorkersCount, FS_AddElement
    <3>4. PICK held \in Nat, left \in Nat :
              /\ held = Cardinality(Resuming \cup {w})
              /\ Cardinality(Holders(p)') = left /\ left <= held
      <4>1. Resuming \cup {w} \subseteq Workers
        BY <1>1
      <4> QED
        BY <3>2, <4>1, WorkersCount
    <3>5. PICK q \in Nat, r \in Nat :
              /\ q = Cardinality(Licences(queue)) /\ r = Cardinality(Resuming)
              /\ q + r <= answers + crashes
      BY <1>1 DEF LicenceInv, Issued
    <3>6. left <= r + 1
      BY <3>3, <3>4, <3>5
    <3>7. 0 + q + left <= 1 + answers + crashes
      BY <1>1, <3>5, <3>6
    <3> QED
      BY <3>1, <3>4, <3>5, <3>7
  <2>7. Spent'
    <3> SUFFICES ASSUME NEW p \in 1..(made + 1)
                 PROVE  effects[p] + Cardinality(Licences(queue))
                            + Cardinality(Holders(p)') <= 1 + answers + crashes
      BY <2>1 DEF Spent
    <3>1. p \in 1..made \/ p = made + 1
      BY <1>1
    <3>2. CASE p \in 1..made
      BY <2>5, <3>2
    <3>3. CASE p = made + 1
      BY <1>1, <2>6, <3>3
    <3> QED
      BY <3>1, <3>2, <3>3
  <2> QED
    BY <2>2, <2>4, <2>7 DEF LicenceInv
<1>5. CASE GiveUp(w) \/ Decide(w) \/ Executed(w) \/ Assess(w) \/ Finalize(w)
  <2>1. /\ mem'[w] = checkpoint' /\ checkpoint'.plan = mem[w].plan
        /\ step'[w] \in {"graph", "announce"}
        /\ \/ checkpoint'.next \notin {"ask", "execute"}
           \/ mem[w].next = "ask" /\ step[w] = "graph"
        /\ UNCHANGED <<queue, task, effects, made, answers, crashes>>
    BY <1>5, StageSaved DEF plans, requests, faults
  <2> QED
    BY <1>2, <2>1, LicenceQuiet DEF WorkerStep
<1>6. CASE Raise(w) \/ Interrupt(w) \/ End(w)
  <2>1. /\ UNCHANGED <<queue, effects, made, answers, crashes, mem, checkpoint>>
        /\ step'[w] \in {"fail", "snapshot"}
    BY <1>1, <1>6 DEF Raise, Interrupt, End, plans, requests, faults
  <2> QED
    BY <1>2, <2>1, LicenceQuiet DEF WorkerStep
<1>7. CASE Execute(w)
  <2> DEFINE plan == mem[w].plan
  <2>1. /\ UNCHANGED <<queue, task, mem, checkpoint, made, answers, crashes>>
        /\ step[w] = "graph" /\ step'[w] = "calling" /\ mem[w].next = "execute"
        /\ effects' = [effects EXCEPT ![plan] = @ + 1]
    BY <1>1, <1>7 DEF Execute, InGraph, requests, faults
  <2>2. plan \in 1..made /\ plan \in 1..MaxPlans
    BY <1>1, <1>2, <2>1 DEF Planned
  <2>3. /\ Resuming' \subseteq Resuming
        /\ \A p : Holders(p)' \subseteq Holders(p)
    BY <1>7, <2>1, HoldersFall DEF WorkerStep
  <2>4. Known'
    BY <1>1, <2>1, <2>2 DEF LicenceInv, Known
  <2>5. Issued'
    <3>1. PICK held \in Nat, left \in Nat :
              /\ held = Cardinality(Resuming)
              /\ Cardinality(Resuming') = left /\ left <= held
      BY <1>1, <2>3, WorkersCount
    <3>2. Cardinality(Licences(queue)) + held <= answers + crashes
      BY <3>1 DEF LicenceInv, Issued
    <3>3. Cardinality(Licences(queue)) + left <= answers + crashes
      BY <1>1, <3>1, <3>2
    <3> QED
      BY <2>1, <3>1, <3>3 DEF Issued
  <2>6. ASSUME NEW p \in 1..made
        PROVE  effects'[p] + Cardinality(Licences(queue)) + Cardinality(Holders(p)')
                   <= 1 + answers + crashes
    <3>1. PICK held \in Nat, left \in Nat :
              /\ held = Cardinality(Holders(p))
              /\ Cardinality(Holders(p)') = left /\ left <= held
              /\ p = plan => left + 1 <= held
      <4>1. CASE p = plan
        <5>1. /\ w \in Holders(p) /\ w \notin Resuming
              /\ Holders(p)' \subseteq Holders(p) \ {w}
          BY <2>1, <2>3, <4>1 DEF Holders, Resuming
        <5>2. IsFiniteSet(Holders(p)) /\ Holders(p) \ {w} \subseteq Workers
          BY <1>1, WorkersCount
        <5>3. Cardinality(Holders(p) \ {w}) = Cardinality(Holders(p)) - 1
          BY <5>1, <5>2, FS_RemoveElement
        <5>4. PICK some \in Nat, left \in Nat :
                  /\ Cardinality(Holders(p) \ {w}) = some
                  /\ Cardinality(Holders(p)') = left /\ left <= some
          BY <5>1, <5>2, WorkersCount
        <5>5. PICK held \in Nat : held = Cardinality(Holders(p))
          BY <1>1
        <5> QED
          BY <5>3, <5>4, <5>5
      <4>2. CASE p # plan
        BY <1>1, <2>3, <4>2, WorkersCount
      <4> QED
        BY <4>1, <4>2
    <3>2. /\ effects[p] \in Nat
          /\ effects[p] + Cardinality(Licences(queue)) + held
                 <= 1 + answers + crashes
      BY <1>1, <3>1 DEF LicenceInv, Spent
    <3>3. effects'[p] = IF p = plan THEN effects[p] + 1 ELSE effects[p]
      BY <1>1, <2>1, <2>2
    <3>4. PICK e \in Nat, q \in Nat :
              e = effects[p] /\ q = Cardinality(Licences(queue))
      BY <1>1, <3>2
    <3>5. CASE p = plan
      <4>1. effects'[p] = e + 1
        BY <3>3, <3>4, <3>5
      <4>2. e + q + held <= 1 + answers + crashes /\ left + 1 <= held
        BY <3>1, <3>2, <3>4, <3>5
      <4>3. (e + 1) + q + left <= 1 + answers + crashes
        BY <1>1, <4>2
      <4> QED
        BY <3>1, <3>4, <4>1, <4>3
    <3>6. CASE p # plan
      <4>1. effects'[p] = e
        BY <3>3, <3>4, <3>6
      <4>2. e + q + held <= 1 + answers + crashes /\ left <= held
        BY <3>1, <3>2, <3>4
      <4>3. e + q + left <= 1 + answers + crashes
        BY <1>1, <4>2
      <4> QED
        BY <3>1, <3>4, <4>1, <4>3
    <3> QED
      BY <3>5, <3>6
  <2>7. Spent'
    BY <2>1, <2>6 DEF Spent
  <2> QED
    BY <2>4, <2>5, <2>7 DEF LicenceInv
<1> QED
  BY <1>4, <1>5, <1>6, <1>7 DEF GraphStep

LEMMA LicencePersist ==
    ASSUME Typed, Typed', LicenceInv, NEW w \in Workers,
           PersistStep(w) \/ TimeOut(w)
    PROVE  LicenceInv'
<1>1. /\ step \in [Workers -> Steps] /\ mem \in [Workers -> Thread]
      /\ made \in Nat
  BY LicenceTypes
<1>2. checkpoint.plan <= made /\ mem[w].plan <= made
  BY DEF LicenceInv, Known
<1>3. /\ UNCHANGED <<queue, checkpoint, effects, made, answers, crashes>>
      /\ step'[w] \notin {"begin", "load", "graph"}
  BY <1>1 DEF PersistStep, Announce, Fail, NotifyError, Snapshot, Supersede,
              Create, Await, NotifyApproval, Close, FlushOne, LoseOne,
              Flushed, TimeOut, Done, plans, requests, faults
<1>4. mem' = mem \/ mem'[w] = checkpoint \/ mem'[w] = NoThread
  BY <1>1 DEF PersistStep, Announce, Fail, NotifyError, Snapshot, Supersede,
              Create, Await, NotifyApproval, Close, FlushOne, LoseOne,
              Flushed, TimeOut, Done
<1>5. mem'[w].plan <= made
  BY <1>1, <1>2, <1>4 DEF NoThread
<1> QED
  BY <1>2, <1>3, <1>5, LicenceQuiet DEF WorkerStep

\* A worker that dies gives its job back, with a licence for it.
LEMMA LicenceCrash ==
    ASSUME Typed, Typed', LicenceInv, NEW w \in Workers, Crash(w)
    PROVE  LicenceInv'
<1>1. /\ UNCHANGED <<checkpoint, effects, made, answers>>
      /\ crashes' = crashes + 1
  BY DEF Crash, plans, requests
<1>2. /\ queue \in Seq(Job \cup {NoJob}) /\ task[w] \in Job \cup {NoJob}
      /\ step \in [Workers -> Steps] /\ mem \in [Workers -> Thread]
      /\ answers \in Nat /\ crashes \in Nat /\ made \in Nat
      /\ Cardinality(Licences(queue)) \in Nat
  BY LicenceTypes
<1>3. step'[w] = "idle" /\ mem'[w] = NoThread
  BY <1>2 DEF Crash, Done
<1>4. /\ Resuming' \subseteq Resuming
      /\ \A p : Holders(p)' \subseteq Holders(p)
  BY <1>3, HoldersFall
<1>5. Known'
  <2>1. \A v \in Workers : v # w => mem'[v] = mem[v]
    BY StepsOwn
  <2> QED
    BY <1>1, <1>2, <1>3, <2>1 DEF LicenceInv, Known, NoThread
<1>6. Cardinality(Licences(queue'))
          = Cardinality(Licences(queue)) + One(task[w])
  BY <1>2, LicencesAppend, LicencesCons DEF Crash
<1>7. Cardinality(Licences(queue')) - Cardinality(Licences(queue))
          <= (answers' + crashes') - (answers + crashes)
  <2>1. Cardinality(Licences(queue')) - Cardinality(Licences(queue)) <= 1
    BY <1>2, <1>6 DEF One
  <2>2. (answers' + crashes') - (answers + crashes) = 1
    BY <1>1, <1>2
  <2> QED
    BY <2>1, <2>2
<1> QED
  BY <1>1, <1>4, <1>5, <1>7, LicenceKept

LEMMA LicenceStep ==
    ASSUME Typed, Typed', LicenceInv, [Next]_vars
    PROVE  LicenceInv'
<1>1. CASE UNCHANGED vars
  BY <1>1 DEF vars, workers, rows, plans, requests, faults, LicenceInv, Known,
              Issued, Spent, Resuming, Holders
<1> QED
  BY <1>1, LicenceRequest, LicenceTake, LicenceStart, LicenceGraph,
     LicencePersist, LicenceCrash
  DEF Next, WorkerStep

\* With any number of workers, however their jobs overlap, a plan is carried
\* out once and again at most once for each answer and each crash; neither a
\* submission nor a job that is timed out repeats one.
THEOREM RunnerAnswers == Spec => []RepeatsAreAnswers
<1>1. Init => Typed /\ LicenceInv
  BY RunnerTypeInit, LicenceInit DEF Init, Typed, Employed
<1>2. Typed /\ LicenceInv /\ [Next]_vars => (Typed /\ LicenceInv)'
  BY RunnerTypeStep, LicenceStep DEF Typed
<1>3. Typed /\ LicenceInv => RepeatsAreAnswers
  <2> SUFFICES ASSUME Typed, LicenceInv, NEW p \in 1..MaxPlans
               PROVE  effects[p] <= 1 + answers + crashes
    BY DEF RepeatsAreAnswers
  <2>1. /\ effects[p] \in Nat /\ made \in Nat /\ answers \in Nat
        /\ crashes \in Nat /\ Cardinality(Licences(queue)) \in Nat
        /\ Cardinality(Holders(p)) \in Nat
    BY LicenceTypes
  <2>2. CASE p <= made
    BY <2>1, <2>2 DEF LicenceInv, Spent
  <2>3. CASE p > made
    BY <2>1, <2>3 DEF LicenceInv, Known
  <2> QED
    BY <2>1, <2>2, <2>3
<1> QED
  BY <1>1, <1>2, <1>3, PTL DEF Spec

\* RepeatsAreCounted, for any number of workers, plans, requests and faults:
\* each repetition of a plan has an answer or a crash of its own however jobs
\* overlap, and a fault of its own unless they do.
THEOREM RunnerRepeats == Spec => []RepeatsAreCounted
<1>1. RepeatsAreAnswers /\ (~overlapped => RepeatsAreFaults)
          => RepeatsAreCounted
  BY DEF RepeatsAreCounted, RepeatsAreAnswers, RepeatsAreFaults
<1> QED
  BY <1>1, RunnerAnswers, RunnerRepeatsAlone, PTL

-----------------------------------------------------------------------------
(* The jobs get nearer to their end.                                       *)

\* What requests and faults may still do, and the jobs that wait: a request
\* and a worker that dies queue one job each.
Allowance ==
    2 * ((MaxSubmissions - submissions) + (MaxAnswers - answers)
         + (MaxFaults - (crashes + timeouts + lost)))
    + Len(queue)

PlansAhead == MaxPlans - made

\* Of one plan, or after the last.
StepsAhead(w) ==
    CASE step[w] = "begin"                      -> 14
      [] step[w] = "load"                       -> 13
      [] InGraph(w, "ask")                      -> 12
      [] InGraph(w, "execute")                  -> 11
      [] step[w] = "calling"                    -> 10
      [] InGraph(w, "assess")                   -> 9
      [] InGraph(w, "plan")                     -> 8
      [] InGraph(w, "finalize")                 -> 7
      [] InGraph(w, "END")                      -> 6
      [] step[w] = "announce"                   -> 6
      [] step[w] = "snapshot"                   -> 5
      [] step[w] = "supersede"                  -> 4
      [] step[w] = "create"                     -> 3
      [] step[w] \in {"await", "close", "fail"} -> 2
      [] step[w] \in {"notify", "flush", "error"}-> 1
      [] OTHER -> 0

\* What lies ahead of a worker, what goes down last first.
JobAhead(w) ==
    <<Allowance, PlansAhead, StepsAhead(w), Len(unflushed[w])>>

LessAhead == LexProductOrdering(OpToRel(<, Nat), Nat, 4)

LEMMA LessAheadWellFounded == IsWellFoundedOn(LessAhead, [1..4 -> Nat])
BY NatLessThanWellFounded, WFLexProductOrdering DEF LessAhead

LEMMA LessAt ==
    ASSUME NEW u \in [1..4 -> Nat], NEW v \in [1..4 -> Nat],
           NEW i \in 1..4, u[i] < v[i], \A j \in 1..(i - 1) : u[j] = v[j]
    PROVE  <<u, v>> \in LessAhead
BY DEF LessAhead, LexProductOrdering, OpToRel

LEMMA JobAheadTyped ==
    ASSUME Typed, NEW w \in Workers
    PROVE  /\ Allowance \in Nat /\ PlansAhead \in Nat /\ StepsAhead(w) \in Nat
           /\ Len(unflushed[w]) \in Nat
           /\ JobAhead(w) \in [1..4 -> Nat]
<1>1. /\ submissions \in 0..MaxSubmissions /\ answers \in 0..MaxAnswers
      /\ crashes \in Nat /\ timeouts \in Nat /\ lost \in Nat
      /\ crashes + timeouts + lost <= MaxFaults
      /\ made \in 0..MaxPlans /\ Len(queue) \in Nat
      /\ unflushed[w] \in Seq(AuditEvent)
  BY DEF Typed, TypeInv, TypeOK
<1>2. Allowance \in Nat
  BY <1>1, RunnerAssumption DEF Allowance
<1>3. PlansAhead \in Nat
  BY <1>1, RunnerAssumption DEF PlansAhead
<1>4. StepsAhead(w) \in Nat
  BY DEF StepsAhead
<1>5. Len(unflushed[w]) \in Nat
  BY <1>1
<1> QED
  BY <1>2, <1>3, <1>4, <1>5 DEF JobAhead

\* Whichever component falls first.
LEMMA Nearer ==
    ASSUME NEW w \in Workers,
           JobAhead(w) \in [1..4 -> Nat], JobAhead(w)' \in [1..4 -> Nat],
           \/ Allowance' < Allowance
           \/ Allowance' = Allowance /\ PlansAhead' < PlansAhead
           \/ /\ Allowance' = Allowance /\ PlansAhead' = PlansAhead
              /\ StepsAhead(w)' < StepsAhead(w)
           \/ /\ Allowance' = Allowance /\ PlansAhead' = PlansAhead
              /\ StepsAhead(w)' = StepsAhead(w)
              /\ Len(unflushed[w])' < Len(unflushed[w])
    PROVE  <<JobAhead(w)', JobAhead(w)>> \in LessAhead
<1>1. /\ JobAhead(w)[1] = Allowance /\ JobAhead(w)'[1] = Allowance'
      /\ JobAhead(w)[2] = PlansAhead /\ JobAhead(w)'[2] = PlansAhead'
      /\ JobAhead(w)[3] = StepsAhead(w) /\ JobAhead(w)'[3] = StepsAhead(w)'
      /\ JobAhead(w)[4] = Len(unflushed[w])
      /\ JobAhead(w)'[4] = Len(unflushed[w])'
  BY DEF JobAhead
<1> HIDE DEF JobAhead
<1> QED
  BY <1>1, LessAt

\* A request, a fault and a job that is taken use the allowance up.
LEMMA AllowanceFalls ==
    ASSUME Typed,
           \/ SubmitIncident
           \/ \E decision \in Decisions : SubmitApproval(decision)
           \/ \E w \in Workers :
                  Take(w) \/ Crash(w) \/ TimeOut(w) \/ LoseOne(w)
    PROVE  Allowance' < Allowance
<1>1. /\ submissions \in Nat /\ answers \in Nat /\ crashes \in Nat
      /\ timeouts \in Nat /\ lost \in Nat
      /\ queue \in Seq(Job \cup {NoJob})
      /\ task \in [Workers -> Job \cup {NoJob}]
      /\ MaxSubmissions \in Nat /\ MaxAnswers \in Nat /\ MaxFaults \in Nat
  BY RunnerAssumption DEF Typed, TypeInv, TypeOK
<1>2. CASE SubmitIncident
  <2>1. Len(queue') = Len(queue) + 1
    BY <1>1, <1>2 DEF SubmitIncident, Job
  <2> QED
    BY <1>1, <1>2, <2>1 DEF SubmitIncident, faults, Allowance
<1>3. ASSUME NEW decision \in Decisions, SubmitApproval(decision)
      PROVE  Allowance' < Allowance
  <2>1. Len(queue') = Len(queue) + 1
    BY <1>1, <1>3 DEF SubmitApproval, Job
  <2> QED
    BY <1>1, <1>3, <2>1 DEF SubmitApproval, faults, Allowance
<1>4. ASSUME NEW w \in Workers, Take(w)
      PROVE  Allowance' < Allowance
  <2>1. Len(queue') = Len(queue) - 1
    BY <1>1, <1>4 DEF Take
  <2> QED
    BY <1>1, <1>4, <2>1 DEF Take, requests, faults, Allowance
<1>5. ASSUME NEW w \in Workers, Crash(w)
      PROVE  Allowance' < Allowance
  <2>1. Len(queue') = Len(queue) + 1
    BY <1>1, <1>5 DEF Crash
  <2> QED
    BY <1>1, <1>5, <2>1 DEF Crash, requests, Allowance
<1>6. ASSUME NEW w \in Workers, TimeOut(w)
      PROVE  Allowance' < Allowance
  BY <1>1, <1>6 DEF TimeOut, requests, Allowance
<1>7. ASSUME NEW w \in Workers, LoseOne(w)
      PROVE  Allowance' < Allowance
  BY <1>1, <1>7 DEF LoseOne, requests, Allowance
<1> QED
  BY <1>2, <1>3, <1>4, <1>5, <1>6, <1>7

\* Otherwise a job leaves it alone.
LEMMA AllowanceKept ==
    ASSUME NEW w \in Workers,
           Begin(w) \/ Load(w) \/ GraphStep(w) \/ PersistStep(w), ~ LoseOne(w)
    PROVE  Allowance' = Allowance
<1>1. UNCHANGED <<queue, requests, faults>>
  BY DEF Begin, Load, GraphStep, PlanMade, GiveUp, Raise, Interrupt, Decide,
         Execute, Executed, Assess, Finalize, End, PersistStep, Announce, Fail,
         NotifyError, Snapshot, Supersede, Create, Await, NotifyApproval,
         Close, FlushOne, Flushed
<1> QED
  BY <1>1 DEF requests, faults, Allowance

\* A plan that is proposed is one less to come; nothing else changes that.
LEMMA PlansNearer ==
    ASSUME Typed, NEW w \in Workers,
           Begin(w) \/ Load(w) \/ GraphStep(w) \/ PersistStep(w)
    PROVE  \/ PlansAhead' < PlansAhead
           \/ /\ PlansAhead' = PlansAhead
              /\ ~ \E next \in {"ask", "execute"} : PlanMade(w, next)
<1>1. made \in Nat /\ MaxPlans \in Nat
  BY RunnerAssumption DEF Typed, TypeInv, TypeOK
<1>2. CASE \E next \in {"ask", "execute"} : PlanMade(w, next)
  BY <1>1, <1>2 DEF PlanMade, PlansAhead
<1>3. CASE ~ \E next \in {"ask", "execute"} : PlanMade(w, next)
  <2>1. made' = made
    BY <1>3 DEF Begin, Load, GraphStep, GiveUp, Raise, Interrupt, Decide,
           Execute, Executed, Assess, Finalize, End, PersistStep, Announce,
           Fail, NotifyError, Snapshot, Supersede, Create, Await,
           NotifyApproval, Close, FlushOne, LoseOne, Flushed, plans
  <2> QED
    BY <1>3, <2>1 DEF PlansAhead
<1> QED
  BY <1>2, <1>3

\* The other steps of a job go on in the order of run_workflow.
LEMMA StepsNearer ==
    ASSUME Typed, Typed', NEW w \in Workers,
           Begin(w) \/ Load(w) \/ GraphStep(w) \/ PersistStep(w),
           ~ \E next \in {"ask", "execute"} : PlanMade(w, next)
    PROVE  \/ StepsAhead(w)' < StepsAhead(w)
           \/ /\ StepsAhead(w)' = StepsAhead(w)
              /\ Len(unflushed[w])' < Len(unflushed[w])
<1>1. /\ step \in [Workers -> Steps] /\ mem \in [Workers -> Thread]
      /\ unflushed \in [Workers -> Seq(AuditEvent)]
      /\ mem'[w].next \in Stages
  BY DEF Typed, TypeInv, TypeOK, Thread
<1>2. CASE Begin(w)
  BY <1>1, <1>2 DEF Begin, InGraph, StepsAhead
<1>3. CASE Load(w)
  <2>1. step[w] = "load" /\ step'[w] = "graph"
    BY <1>1, <1>3 DEF Load
  <2> QED
    BY <1>1, <2>1 DEF InGraph, StepsAhead, Stages
<1>4. CASE GraphStep(w)
  <2>1. CASE Raise(w) \/ Interrupt(w) \/ Execute(w) \/ End(w)
    BY <1>1, <2>1 DEF Raise, Interrupt, Execute, End, InGraph, StepsAhead
  <2>2. CASE GiveUp(w)
    <3>1. InGraph(w, "plan") /\ step'[w] = "graph" /\ mem'[w].next = "finalize"
      BY <1>1, <2>2 DEF GiveUp, Save, InGraph, Thread
    <3> QED
      BY <3>1 DEF InGraph, StepsAhead
  <2>3. CASE Decide(w)
    <3>1. /\ InGraph(w, "ask") /\ step'[w] = "graph"
          /\ mem'[w].next \in {"execute", "finalize"}
      BY <1>1, <2>3 DEF Decide, Checkpoint, Save, InGraph, Thread
    <3> QED
      BY <3>1 DEF InGraph, StepsAhead
  <2>4. CASE Executed(w)
    <3>1. step[w] = "calling" /\ step'[w] = "graph" /\ mem'[w].next = "assess"
      BY <1>1, <2>4 DEF Executed, Save, Thread
    <3> QED
      BY <3>1 DEF InGraph, StepsAhead
  <2>5. CASE Assess(w)
    <3>1. /\ InGraph(w, "assess") /\ step'[w] = "graph"
          /\ mem'[w].next \in {"plan", "finalize"}
      BY <1>1, <2>5 DEF Assess, Save, InGraph, Thread
    <3> QED
      BY <3>1 DEF InGraph, StepsAhead
  <2>6. CASE Finalize(w)
    <3>1. InGraph(w, "finalize") /\ step'[w] = "announce"
      BY <1>1, <2>6 DEF Finalize, InGraph
    <3> QED
      BY <3>1 DEF InGraph, StepsAhead
  <2> QED
    BY <1>4, <2>1, <2>2, <2>3, <2>4, <2>5, <2>6 DEF GraphStep
<1>5. CASE PersistStep(w)
  <2>1. CASE Announce(w) \/ Fail(w) \/ NotifyError(w) \/ Snapshot(w)
             \/ Supersede(w) \/ Create(w) \/ Await(w) \/ NotifyApproval(w)
             \/ Close(w) \/ Flushed(w)
    BY <1>1, <2>1 DEF Announce, Fail, NotifyError, Snapshot, Supersede, Create,
                      Await, NotifyApproval, Close, Flushed, Done, InGraph,
                      StepsAhead
  <2>2. CASE FlushOne(w) \/ LoseOne(w)
    <3>1. step'[w] = "flush" /\ step[w] = "flush"
      BY <2>2 DEF FlushOne, LoseOne
    <3>2. StepsAhead(w)' = StepsAhead(w)
      BY <3>1 DEF StepsAhead, InGraph
    <3>3. unflushed'[w] = Tail(unflushed[w]) /\ unflushed[w] # <<>>
      BY <1>1, <2>2 DEF FlushOne, LoseOne
    <3>4. Len(unflushed'[w]) < Len(unflushed[w])
      BY <1>1, <3>3
    <3> QED
      BY <3>2, <3>4
  <2> QED
    BY <1>5, <2>1, <2>2 DEF PersistStep
<1> QED
  BY <1>2, <1>3, <1>4, <1>5

\* A step of a worker brings down what lies ahead of it.
LEMMA OwnStepNearer ==
    ASSUME Typed, Typed', NEW w \in Workers,
           JobAhead(w) \in [1..4 -> Nat], JobAhead(w)' \in [1..4 -> Nat],
           WorkerStep(w)
    PROVE  <<JobAhead(w)', JobAhead(w)>> \in LessAhead
<1>1. CASE Take(w) \/ LoseOne(w)
  BY <1>1, AllowanceFalls, Nearer
<1>2. CASE /\ Begin(w) \/ Load(w) \/ GraphStep(w) \/ PersistStep(w)
           /\ ~ LoseOne(w)
  <2>1. Allowance' = Allowance
    BY <1>2, AllowanceKept
  <2>2. CASE PlansAhead' < PlansAhead
    BY <2>1, <2>2, Nearer
  <2>3. CASE /\ PlansAhead' = PlansAhead
             /\ ~ \E next \in {"ask", "execute"} : PlanMade(w, next)
    <3>1. \/ StepsAhead(w)' < StepsAhead(w)
          \/ /\ StepsAhead(w)' = StepsAhead(w)
             /\ Len(unflushed[w])' < Len(unflushed[w])
      BY <1>2, <2>3, StepsNearer
    <3> QED
      BY <2>1, <2>3, <3>1, Nearer
  <2> QED
    BY <1>2, <2>2, <2>3, PlansNearer
<1> QED
  BY <1>1, <1>2 DEF WorkerStep

\* A job of another worker leaves it, or proposes a plan.
LEMMA OtherStepNearer ==
    ASSUME Typed, Typed', NEW w \in Workers,
           JobAhead(w) \in [1..4 -> Nat], JobAhead(w)' \in [1..4 -> Nat],
           NEW v \in Workers, v # w, ~ LoseOne(v),
           Begin(v) \/ Load(v) \/ GraphStep(v) \/ PersistStep(v)
    PROVE  \/ JobAhead(w)' = JobAhead(w)
           \/ <<JobAhead(w)', JobAhead(w)>> \in LessAhead
<1>1. Allowance' = Allowance
  BY AllowanceKept
<1>2. step'[w] = step[w] /\ mem'[w] = mem[w]
  BY StepsOwn DEF WorkerStep
<1>3. unflushed'[w] = unflushed[w]
  <2>1. \/ unflushed' = unflushed
        \/ \E events : unflushed' = [unflushed EXCEPT ![v] = events]
    BY DEF Begin, Load, GraphStep, PlanMade, GiveUp, Raise, Interrupt, Decide,
           Execute, Executed, Assess, Finalize, End, PersistStep, Announce,
           Fail, NotifyError, Snapshot, Supersede, Create, Await,
           NotifyApproval, Close, FlushOne, LoseOne, Flushed, Done
  <2> QED
    BY <2>1 DEF Typed, TypeInv, TypeOK
<1>4. StepsAhead(w)' = StepsAhead(w)
  BY <1>2 DEF StepsAhead, InGraph
<1>5. CASE PlansAhead' < PlansAhead
  BY <1>1, <1>5, Nearer
<1>6. CASE PlansAhead' = PlansAhead
  BY <1>1, <1>3, <1>4, <1>6 DEF JobAhead
<1> QED
  BY <1>5, <1>6, PlansNearer

LEMMA NeverFurther ==
    ASSUME Typed, Typed', NEW w \in Workers,
           JobAhead(w) \in [1..4 -> Nat], JobAhead(w)' \in [1..4 -> Nat],
           [Next]_vars
    PROVE  \/ JobAhead(w)' = JobAhead(w)
           \/ <<JobAhead(w)', JobAhead(w)>> \in LessAhead
<1>1. CASE UNCHANGED vars
  BY <1>1 DEF vars, workers, plans, requests, faults, JobAhead, Allowance,
              PlansAhead, StepsAhead, InGraph
<1>2. CASE \/ SubmitIncident
           \/ \E decision \in Decisions : SubmitApproval(decision)
           \/ \E v \in Workers :
                  Take(v) \/ Crash(v) \/ TimeOut(v) \/ LoseOne(v)
  BY <1>2, AllowanceFalls, Nearer
<1>3. CASE WorkerStep(w)
  BY <1>3, OwnStepNearer
<1>4. ASSUME NEW v \in Workers, v # w, ~ LoseOne(v),
             Begin(v) \/ Load(v) \/ GraphStep(v) \/ PersistStep(v)
      PROVE  \/ JobAhead(w)' = JobAhead(w)
             \/ <<JobAhead(w)', JobAhead(w)>> \in LessAhead
  BY <1>4, OtherStepNearer
<1> QED
  BY <1>1, <1>2, <1>3, <1>4 DEF Next, WorkerStep

\* No worker goes on for ever, for any number of them and any requests,
\* deaths and cancellations: each of its steps brings what lies ahead of it
\* down in a well-founded order that no step of anybody else raises (that it
\* does go on until the queue is empty is the fairness of Drains).
THEOREM RunnerGetsNearer ==
    ASSUME NEW w \in Workers
    PROVE  /\ IsWellFoundedOn(LessAhead, [1..4 -> Nat])
           /\ Spec =>
                /\ [](JobAhead(w) \in [1..4 -> Nat])
                /\ [][WorkerStep(w)
                        => <<JobAhead(w)', JobAhead(w)>> \in LessAhead]_vars
                /\ [][\/ JobAhead(w)' = JobAhead(w)
                      \/ <<JobAhead(w)', JobAhead(w)>> \in LessAhead]_vars
<1>1. Init => Typed
  BY RunnerTypeInit DEF Init, Typed, Employed
<1>2. Typed /\ [Next]_vars => Typed'
  BY RunnerTypeStep DEF Typed
<1>3. Typed => JobAhead(w) \in [1..4 -> Nat]
  BY JobAheadTyped
<1>4. /\ Typed /\ Typed' /\ [Next]_vars
      /\ JobAhead(w) \in [1..4 -> Nat] /\ (JobAhead(w) \in [1..4 -> Nat])'
      => [WorkerStep(w) => <<JobAhead(w)', JobAhead(w)>> \in LessAhead]_vars
  BY OwnStepNearer
<1>5. /\ Typed /\ Typed' /\ [Next]_vars
      /\ JobAhead(w) \in [1..4 -> Nat] /\ (JobAhead(w) \in [1..4 -> Nat])'
      => [\/ JobAhead(w)' = JobAhead(w)
          \/ <<JobAhead(w)', JobAhead(w)>> \in LessAhead]_vars
  BY NeverFurther
<1>6. Spec =>
        /\ [](JobAhead(w) \in [1..4 -> Nat])
        /\ [][WorkerStep(w)
                => <<JobAhead(w)', JobAhead(w)>> \in LessAhead]_vars
        /\ [][\/ JobAhead(w)' = JobAhead(w)
              \/ <<JobAhead(w)', JobAhead(w)>> \in LessAhead]_vars
  BY <1>1, <1>2, <1>3, <1>4, <1>5, PTL DEF Spec
<1> QED
  BY <1>6, LessAheadWellFounded
=============================================================================
