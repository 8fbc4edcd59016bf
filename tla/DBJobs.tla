------------------------------- MODULE DBJobs -------------------------------
(***************************************************************************)
(* The database layer shared by the services: FCDatabase, whose worker     *)
(* threads execute queued jobs, and the thread of ServiceLogicBase that    *)
(* hands the results to the service.  It implements JobQueue.              *)
(* A critical section in which a thread waits for nothing is one step.     *)
(***************************************************************************)
EXTENDS Naturals, Sequences, FiniteSets

CONSTANTS Jobs, Workers, None

ASSUME DBJobsAssumption == None \notin Jobs

VARIABLES
  jobs,       \* m_jobs
  completed,  \* m_completedJobs
  dropped,    \* jobs that failed
  handled,    \* how often the result of each job was handled
  pc,         \* what each worker does next
  job,        \* the local variable job of each worker
  conn,       \* pConn is not null, per worker
  monPc,      \* what ServiceLogicBase::thrdDBWorker does next
  monJob      \* its local variable job

queues  == <<jobs, completed>>
results == <<dropped, handled>>
monitor == <<monPc, monJob>>
vars    == <<queues, results, pc, job, conn, monitor>>

PC == {"connect", "size", "fetch", "execute", "complete", "error", "wait", "sleep",
       "exit", "crash"}

In(j, s) == \E i \in DOMAIN s : s[i] = j

Init ==
  /\ jobs = <<>>
  /\ completed = <<>>
  /\ dropped = {}
  /\ handled = [j \in Jobs |-> 0]
  /\ pc = [w \in Workers |-> "connect"]
  /\ job = [w \in Workers |-> None]
  /\ conn = [w \in Workers |-> FALSE]
  /\ monPc = "count"
  /\ monJob = None

Goto(w, label) == pc' = [pc EXCEPT ![w] = label]

\* A job is a new object each time: it has not been submitted before.
Fresh(j) ==
  /\ ~In(j, jobs) /\ ~In(j, completed)
  /\ j \notin dropped /\ handled[j] = 0 /\ monJob # j
  /\ \A w \in Workers : job[w] # j

-----------------------------------------------------------------------------
\* A caller queues a job and signals: one of the workers that are inside
\* pthread_cond_wait goes on, and if there is none the signal is lost.
QueueJob(j) ==
  /\ Fresh(j)
  /\ jobs' = Append(jobs, j)
  /\ IF \E w \in Workers : pc[w] = "sleep"
     THEN \E w \in Workers : pc[w] = "sleep" /\ Goto(w, "size")
     ELSE UNCHANGED pc
  /\ UNCHANGED <<completed, results, job, conn, monitor>>

\* A worker that cannot connect ends.
Connect(w) ==
  /\ pc[w] = "connect"
  /\ \E ok \in BOOLEAN : /\ conn' = [conn EXCEPT ![w] = ok]
                         /\ Goto(w, IF ok THEN "size" ELSE "exit")
  /\ UNCHANGED <<queues, results, job, monitor>>

\* while ( m_jobs.size() ), without the mutex
Size(w) ==
  /\ pc[w] = "size"
  /\ Goto(w, IF jobs = <<>> THEN "wait" ELSE "fetch")
  /\ UNCHANGED <<queues, results, job, conn, monitor>>

\* Mutant of Fetch: the job is copied and not popped.
FetchNoPop(w) ==
  /\ pc[w] = "fetch"
  /\ IF jobs = <<>>
     THEN Goto(w, "size") /\ UNCHANGED job
     ELSE /\ job' = [job EXCEPT ![w] = Head(jobs)]
          /\ Goto(w, "execute")
  /\ UNCHANGED <<queues, results, conn, monitor>>

\* The synchronised job fetch, which tests the size again.
Fetch(w) ==
  /\ pc[w] = "fetch"
  /\ IF jobs = <<>>
     THEN Goto(w, "size") /\ UNCHANGED <<jobs, job>>
     ELSE /\ job' = [job EXCEPT ![w] = Head(jobs)]
          /\ jobs' = Tail(jobs)
          /\ Goto(w, "execute")
  /\ UNCHANGED <<completed, results, conn, monitor>>

\* pConn->Execute.  A worker whose reconnect failed calls it on null.
Execute(w) ==
  /\ pc[w] = "execute"
  /\ \E next \in IF conn[w] THEN {"complete", "error"} ELSE {"crash"} : Goto(w, next)
  /\ UNCHANGED <<queues, results, job, conn, monitor>>

\* Mutant of Complete: the local variable is cleared too early.
CompleteNothing(w) ==
  /\ pc[w] = "complete"
  /\ job' = [job EXCEPT ![w] = None]
  /\ completed' = Append(completed, job'[w])
  /\ Goto(w, "size")
  /\ UNCHANGED <<jobs, results, conn, monitor>>

\* Mutant of Complete: the worker waits after every job.
CompleteThenWait(w) ==
  /\ pc[w] = "complete"
  /\ completed' = Append(completed, job[w])
  /\ job' = [job EXCEPT ![w] = None]
  /\ Goto(w, "wait")
  /\ UNCHANGED <<jobs, results, conn, monitor>>

\* JobComplete
Complete(w) ==
  /\ pc[w] = "complete"
  /\ completed' = Append(completed, job[w])
  /\ job' = [job EXCEPT ![w] = None]
  /\ Goto(w, "size")
  /\ UNCHANGED <<jobs, results, conn, monitor>>

\* The job is dropped.  If the server has gone away (2006) the worker
\* reconnects, and goes on whether that succeeded or not; after any other
\* error the connection is still there.
Error(w) ==
  /\ pc[w] = "error"
  /\ dropped' = dropped \cup {job[w]}
  /\ job' = [job EXCEPT ![w] = None]
  /\ \E ok \in BOOLEAN : conn' = [conn EXCEPT ![w] = ok]
  /\ Goto(w, "size")
  /\ UNCHANGED <<queues, handled, monitor>>

\* m_condJobs.WaitForSignal
Wait(w) ==
  /\ pc[w] = "wait"
  /\ Goto(w, "sleep")
  /\ UNCHANGED <<queues, results, job, conn, monitor>>

\* pthread_cond_wait may return without a signal.
SpuriousWakeup(w) ==
  /\ pc[w] = "sleep"
  /\ Goto(w, "size")
  /\ UNCHANGED <<queues, results, job, conn, monitor>>

-----------------------------------------------------------------------------
\* Mutant of Count: the count is not asked for.
CountUntested ==
  /\ monPc = "count"
  /\ monPc' = "next"
  /\ UNCHANGED <<queues, results, pc, job, conn, monJob>>

\* ServiceLogicBase::thrdDBWorker: while ( db.GetCompletedJobCount() ).  The
\* poll every 250 ms is the repetition of this step.
Count ==
  /\ monPc = "count"
  /\ completed # <<>>
  /\ monPc' = "next"
  /\ UNCHANGED <<queues, results, pc, job, conn, monJob>>

\* GetNextCompletedJob leaves the variable alone if there is no job; its
\* result is not looked at.
GetNext ==
  /\ monPc = "next"
  /\ monPc' = "handle"
  /\ IF completed = <<>>
     THEN UNCHANGED <<completed, monJob>>
     ELSE monJob' = Head(completed) /\ completed' = Tail(completed)
  /\ UNCHANGED <<jobs, results, pc, job, conn>>

\* HandleCompletedDBJob
Handle ==
  /\ monPc = "handle"
  /\ handled' = [handled EXCEPT ![monJob] = @ + 1]
  /\ monPc' = "count"
  /\ UNCHANGED <<queues, dropped, pc, job, conn, monJob>>

-----------------------------------------------------------------------------
WorkerStep(w) ==
  \/ Connect(w) \/ Size(w) \/ Fetch(w) \/ Execute(w)
  \/ Complete(w) \/ Error(w) \/ Wait(w)

MonitorStep == Count \/ GetNext \/ Handle

\* A worker that uses a null connection takes the process down.
Alive == \A w \in Workers : pc[w] # "crash"

Next ==
  /\ Alive
  /\ \/ \E j \in Jobs : QueueJob(j)
     \/ \E w \in Workers : WorkerStep(w) \/ SpuriousWakeup(w)
     \/ MonitorStep

Spec == Init /\ [][Next]_vars

\* Every thread that can run is run; nobody is obliged to queue a job.
Fairness == /\ \A w \in Workers : WF_vars(Alive /\ WorkerStep(w))
            /\ WF_vars(Alive /\ MonitorStep)
FairSpec == Spec /\ Fairness

-----------------------------------------------------------------------------
(* Properties *)

\* The type of every variable.
TypeOK ==
  /\ jobs \in Seq(Jobs)
  /\ completed \in Seq(Jobs)
  /\ dropped \subseteq Jobs
  /\ handled \in [Jobs -> Nat]
  /\ pc \in [Workers -> PC]
  /\ job \in [Workers -> Jobs \cup {None}]
  /\ conn \in [Workers -> BOOLEAN]
  /\ monPc \in {"count", "next", "handle"}
  /\ monJob \in Jobs \cup {None}

\* The abstract queue: a result is taken when GetNextCompletedJob returns it.
Over == dropped \cup {j \in Jobs : handled[j] > 0 \/ j = monJob}

Abstract == INSTANCE JobQueue WITH queued <- jobs, running <- job, done <- Over

\* The workers and the result thread, with their unprotected tests of sizes,
\* implement the job queue: no job is executed twice, lost without a
\* failure, or taken out of the order of completion.
ImplementsJobQueue == Abstract!Spec

\* QueueJob, the workers and GetNextCompletedJob never have a job in two
\* places: two workers do not execute it, and it is not executed again after
\* it completed or failed.
JobsRunOnce == Abstract!OncePerJob

\* The result thread handles no job twice, although it ignores whether
\* GetNextCompletedJob found one.
HandledOnce ==
  /\ \A j \in Jobs : handled[j] <= 1
  /\ monPc = "handle" => monJob # None /\ handled[monJob] = 0

\* One worker that is not waiting is enough for a queued job to reach its
\* handler or to fail, although every signal may be lost: unless a worker
\* has brought the process down.
BusyWorkerSuffices ==
  \A j \in Jobs, w \in Workers :
    In(j, jobs) /\ pc[w] \in {"size", "fetch", "execute", "complete", "error"}
      ~> j \in dropped \/ handled[j] > 0 \/ ~Alive
=============================================================================
