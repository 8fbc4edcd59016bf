---------------------------- MODULE DBJobsProofs ----------------------------
(***************************************************************************)
(* The database layer implements the job queue, for any jobs and any       *)
(* number of workers; hence a job is executed and handled at most once.    *)
(***************************************************************************)
EXTENDS DBJobs, TLAPS


\* What appending and removing at the head do to membership: the queues of
\* FCDatabase are std::queue, pushed at the back and popped at the front.
LEMMA InAppend ==
  ASSUME NEW S, NEW s \in Seq(S), NEW e \in S, NEW j
  PROVE  Abstract!In(j, Append(s, e)) <=> Abstract!In(j, s) \/ j = e
<1>1. /\ DOMAIN Append(s, e) = DOMAIN s \cup {Len(s) + 1}
      /\ \A i \in DOMAIN s : Append(s, e)[i] = s[i]
      /\ Append(s, e)[Len(s) + 1] = e
  OBVIOUS
<1> QED BY <1>1 DEF Abstract!In

LEMMA InTail ==
  ASSUME NEW S, NEW s \in Seq(S), s # <<>>, NEW j
  PROVE  /\ Abstract!In(j, Tail(s)) => Abstract!In(j, s)
         /\ Head(s) \in S /\ Tail(s) \in Seq(S)
         /\ Abstract!In(Head(s), s)
<1>1. /\ DOMAIN Tail(s) = 1..(Len(s) - 1)
      /\ \A i \in DOMAIN Tail(s) : Tail(s)[i] = s[i + 1]
      /\ DOMAIN s = 1..Len(s) /\ Len(s) \in Nat /\ Len(s) > 0
      /\ Head(s) = s[1]
      /\ Head(s) \in S /\ Tail(s) \in Seq(S)
  OBVIOUS
<1>2. ASSUME Abstract!In(j, Tail(s)) PROVE Abstract!In(j, s)
  <2>1. PICK i \in DOMAIN Tail(s) : Tail(s)[i] = j
    BY <1>2 DEF Abstract!In
  <2>2. i + 1 \in DOMAIN s /\ s[i + 1] = j
    BY <2>1, <1>1
  <2> QED BY <2>2 DEF Abstract!In
<1>3. Abstract!In(Head(s), s)
  <2>1. 1 \in DOMAIN s
    BY <1>1
  <2> QED BY <2>1, <1>1 DEF Abstract!In
<1> QED BY <1>1, <1>2, <1>3

\* A queue without duplicates stays so, and its head leaves it for good.
LEMMA NoDuplicatesAppend ==
  ASSUME NEW S, NEW s \in Seq(S), NEW e \in S, Abstract!NoDuplicates(s), ~Abstract!In(e, s)
  PROVE  Abstract!NoDuplicates(Append(s, e))
<1>1. /\ DOMAIN Append(s, e) = DOMAIN s \cup {Len(s) + 1}
      /\ \A i \in DOMAIN s : Append(s, e)[i] = s[i]
      /\ Append(s, e)[Len(s) + 1] = e
  OBVIOUS
<1> QED BY <1>1 DEF Abstract!In, Abstract!NoDuplicates

LEMMA NoDuplicatesTail ==
  ASSUME NEW S, NEW s \in Seq(S), s # <<>>, Abstract!NoDuplicates(s)
  PROVE  Abstract!NoDuplicates(Tail(s)) /\ ~Abstract!In(Head(s), Tail(s))
<1>1. /\ DOMAIN Tail(s) = 1..(Len(s) - 1)
      /\ \A i \in DOMAIN Tail(s) : Tail(s)[i] = s[i + 1]
      /\ DOMAIN s = 1..Len(s) /\ Len(s) \in Nat /\ Len(s) > 0
      /\ Head(s) = s[1]
  OBVIOUS
<1>2. \A i \in DOMAIN Tail(s) : i \in Nat /\ i + 1 \in DOMAIN s /\ i + 1 # 1
  BY <1>1
<1>3. Abstract!NoDuplicates(Tail(s))
  <2> SUFFICES ASSUME NEW i \in DOMAIN Tail(s), NEW k \in DOMAIN Tail(s),
                      Tail(s)[i] = Tail(s)[k]
               PROVE  i = k
    BY DEF Abstract!NoDuplicates
  <2>1. s[i + 1] = s[k + 1]
    BY <1>1
  <2>2. i + 1 = k + 1
    BY <2>1, <1>2 DEF Abstract!NoDuplicates
  <2> QED BY <2>2, <1>2
<1>4. ~Abstract!In(Head(s), Tail(s))
  <2> SUFFICES ASSUME NEW i \in DOMAIN Tail(s), Tail(s)[i] = Head(s)
               PROVE  FALSE
    BY DEF Abstract!In
  <2>1. s[i + 1] = s[1] /\ 1 \in DOMAIN s
    BY <1>1
  <2> QED BY <2>1, <1>2 DEF Abstract!NoDuplicates
<1> QED BY <1>3, <1>4

-----------------------------------------------------------------------------
\* The inductive invariant: the types and OncePerJob.
QueueInv == Abstract!TypeOK /\ Abstract!OncePerJob

\* One action per step of a job through the database layer.
LEMMA QueueStep ==
  ASSUME None \notin Jobs, QueueInv, [Abstract!Next]_(Abstract!vars)
  PROVE  QueueInv'
<1> USE DEF QueueInv
<1>1. ASSUME NEW j \in Jobs, Abstract!Submit(j)
      PROVE  QueueInv'
  <2>1. Abstract!TypeOK'
    BY <1>1 DEF Abstract!TypeOK, Abstract!Submit
  <2>2. \A k : Abstract!In(k, jobs)' <=> Abstract!In(k, jobs) \/ k = j
    BY <1>1, InAppend, SMTT(30) DEF Abstract!TypeOK, Abstract!Submit, Abstract!In
  <2>3. Abstract!NoDuplicates(jobs)'
    BY <1>1, NoDuplicatesAppend
    DEF Abstract!TypeOK, Abstract!OncePerJob, Abstract!Submit, Abstract!Fresh,
        Abstract!NoDuplicates
  <2> QED BY <1>1, <2>1, <2>2, <2>3
          DEF Abstract!OncePerJob, Abstract!Submit, Abstract!Fresh, Abstract!In,
              Abstract!NoDuplicates
<1>2. ASSUME NEW w \in Workers, Abstract!Fetch(w)
      PROVE  QueueInv'
  <2> DEFINE h == Head(jobs)
  <2>1. h \in Jobs /\ Abstract!In(h, jobs) /\ Tail(jobs) \in Seq(Jobs)
    BY <1>2, InTail DEF Abstract!TypeOK, Abstract!Fetch
  <2>2. \A k : Abstract!In(k, jobs)' => Abstract!In(k, jobs)
    BY <1>2, InTail DEF Abstract!TypeOK, Abstract!Fetch, Abstract!In
  <2>3. Abstract!NoDuplicates(jobs)' /\ ~Abstract!In(h, jobs')
    BY <1>2, NoDuplicatesTail
    DEF Abstract!TypeOK, Abstract!OncePerJob, Abstract!Fetch, Abstract!NoDuplicates
  <2>4. Abstract!TypeOK'
    BY <1>2, <2>1 DEF Abstract!TypeOK, Abstract!Fetch
  <2>5. \A v \in Workers : job'[v] = IF v = w THEN h ELSE job[v]
    BY <1>2 DEF Abstract!Fetch, Abstract!TypeOK
  <2>6. \A v \in Workers : job[v] # h
    BY <2>1 DEF Abstract!OncePerJob
  <2>7. \A v, u \in Workers : job'[v] = job'[u] /\ job'[v] # None => v = u
    BY <2>5, <2>6 DEF Abstract!OncePerJob
  <2>8. ASSUME NEW j \in Jobs
        PROVE  /\ Abstract!In(j, jobs)' => ~Abstract!In(j, completed)' /\ j \notin Over'
               /\ Abstract!In(j, completed)' => j \notin Over'
               /\ \A v \in Workers : job'[v] = j =>
                    ~Abstract!In(j, jobs)' /\ ~Abstract!In(j, completed)' /\ j \notin Over'
    <3>1. completed' = completed /\ Over' = Over
      BY <1>2 DEF Abstract!Fetch
    <3>2. Abstract!In(j, completed)' <=> Abstract!In(j, completed)
      BY <3>1 DEF Abstract!In
    <3>3. Abstract!In(j, jobs)' <=> Abstract!In(j, jobs')
      BY DEF Abstract!In
    <3> QED BY <2>1, <2>2, <2>3, <2>5, <3>1, <3>2, <3>3 DEF Abstract!OncePerJob
  <2>9. Abstract!NoDuplicates(completed)'
    BY <1>2 DEF Abstract!OncePerJob, Abstract!Fetch, Abstract!NoDuplicates
  <2> QED BY <2>3, <2>4, <2>7, <2>8, <2>9 DEF Abstract!OncePerJob
<1>3. ASSUME NEW w \in Workers, Abstract!Complete(w)
      PROVE  QueueInv'
  <2> DEFINE r == job[w]
  <2>1. r \in Jobs
    BY <1>3 DEF Abstract!TypeOK, Abstract!Complete
  <2>2. Abstract!TypeOK'
    BY <1>3, <2>1 DEF Abstract!TypeOK, Abstract!Complete
  <2>3. \A k : Abstract!In(k, completed)' <=> Abstract!In(k, completed) \/ k = r
    BY <1>3, <2>1, InAppend, SMTT(30) DEF Abstract!TypeOK, Abstract!Complete, Abstract!In
  <2>4. Abstract!NoDuplicates(completed)'
    BY <1>3, <2>1, NoDuplicatesAppend
    DEF Abstract!TypeOK, Abstract!OncePerJob, Abstract!Complete, Abstract!NoDuplicates
  <2>5. \A v \in Workers : job'[v] = IF v = w THEN None ELSE job[v]
    BY <1>3 DEF Abstract!Complete, Abstract!TypeOK
  <2> QED BY <1>3, <2>1, <2>2, <2>3, <2>4, <2>5
          DEF Abstract!OncePerJob, Abstract!Complete, Abstract!In, Abstract!NoDuplicates
<1>4. ASSUME NEW w \in Workers, Abstract!Fail(w)
      PROVE  QueueInv'
  <2>1. job[w] \in Jobs
    BY <1>4 DEF Abstract!TypeOK, Abstract!Fail
  <2>2. Abstract!TypeOK'
    BY <1>4, <2>1 DEF Abstract!TypeOK, Abstract!Fail
  <2>3. \A v \in Workers : job'[v] = IF v = w THEN None ELSE job[v]
    BY <1>4 DEF Abstract!Fail, Abstract!TypeOK
  <2> QED BY <1>4, <2>1, <2>2, <2>3
          DEF Abstract!OncePerJob, Abstract!Fail, Abstract!In, Abstract!NoDuplicates
<1>5. ASSUME Abstract!Take
      PROVE  QueueInv'
  <2> DEFINE h == Head(completed)
  <2>1. h \in Jobs /\ Abstract!In(h, completed) /\ Tail(completed) \in Seq(Jobs)
    BY <1>5, InTail DEF Abstract!TypeOK, Abstract!Take
  <2>2. \A k : Abstract!In(k, completed)' => Abstract!In(k, completed)
    BY <1>5, InTail DEF Abstract!TypeOK, Abstract!Take, Abstract!In
  <2>3. Abstract!NoDuplicates(completed)' /\ ~Abstract!In(h, completed')
    BY <1>5, NoDuplicatesTail
    DEF Abstract!TypeOK, Abstract!OncePerJob, Abstract!Take, Abstract!NoDuplicates
  <2>4. Abstract!TypeOK'
    BY <1>5, <2>1 DEF Abstract!TypeOK, Abstract!Take
  <2>5. \A k : Abstract!In(k, completed)' <=> Abstract!In(k, completed')
    BY DEF Abstract!In
  <2> QED BY <1>5, <2>1, <2>2, <2>3, <2>4, <2>5
          DEF Abstract!OncePerJob, Abstract!Take, Abstract!In, Abstract!NoDuplicates
<1>6. CASE UNCHANGED Abstract!vars
  BY <1>6
  DEF Abstract!vars, Abstract!TypeOK, Abstract!OncePerJob, Abstract!In, Abstract!NoDuplicates
<1> QED BY <1>1, <1>2, <1>3, <1>4, <1>5, <1>6 DEF Abstract!Next

\* In every behaviour of the abstract queue a job is in one place only.
THEOREM QueueOncePerJob ==
  ASSUME None \notin Jobs
  PROVE  Abstract!Spec => []Abstract!OncePerJob
<1>1. Abstract!Init => QueueInv
  BY
  DEF Abstract!Init, QueueInv, Abstract!TypeOK, Abstract!OncePerJob, Abstract!In,
      Abstract!NoDuplicates
<1>2. QueueInv /\ [Abstract!Next]_(Abstract!vars) => QueueInv'
  BY QueueStep
<1>3. QueueInv => Abstract!OncePerJob
  BY DEF QueueInv
<1> QED BY <1>1, <1>2, <1>3, PTL DEF Abstract!Spec

-----------------------------------------------------------------------------
(* The database layer *)

Holding == {"execute", "complete", "error", "crash"}

\* A worker has a job exactly between the fetch and the end of the job.
LocalsInv == \A w \in Workers : pc[w] \in Holding <=> job[w] # None

\* The result thread asks for a job when there is one, and nobody else takes
\* results: what it handles it has just taken, and what it took before was
\* handled.
MonitorInv ==
  /\ monPc = "next" => completed # <<>>
  /\ monPc # "handle" => monJob = None \/ handled[monJob] > 0

IInv == TypeOK /\ LocalsInv /\ MonitorInv /\ JobsRunOnce /\ HandledOnce

\* What popping a queue leaves.
LEMMA PopType ==
  ASSUME NEW S, NEW s \in Seq(S), s # <<>>
  PROVE  Head(s) \in S /\ Tail(s) \in Seq(S)
OBVIOUS

\* The types, and which worker holds a job.
LEMMA TypeStep ==
  ASSUME TypeOK, LocalsInv, MonitorInv, [Next]_vars,
         monPc = "handle" => monJob # None
  PROVE  TypeOK' /\ LocalsInv'
<1> USE DBJobsAssumption DEF vars, queues, results, monitor
<1>1. ASSUME NEW j \in Jobs, QueueJob(j)
      PROVE  TypeOK' /\ LocalsInv'
  <2>1. jobs' \in Seq(Jobs)
    BY <1>1 DEF QueueJob, TypeOK
  <2>2. \/ UNCHANGED pc
        \/ \E w \in Workers : pc[w] = "sleep" /\ Goto(w, "size")
    BY <1>1 DEF QueueJob
  <2> QED BY <1>1, <2>1, <2>2 DEF QueueJob, TypeOK, LocalsInv, Goto, PC, Holding
<1>2. ASSUME NEW w \in Workers, Connect(w)
      PROVE  TypeOK' /\ LocalsInv'
  BY <1>2 DEF Connect, TypeOK, LocalsInv, Goto, PC, Holding
<1>3. ASSUME NEW w \in Workers, Size(w)
      PROVE  TypeOK' /\ LocalsInv'
  BY <1>3 DEF Size, TypeOK, LocalsInv, Goto, PC, Holding
<1>4. ASSUME NEW w \in Workers, Fetch(w)
      PROVE  TypeOK' /\ LocalsInv'
  <2>1. CASE jobs = <<>>
    BY <1>4, <2>1 DEF Fetch, TypeOK, LocalsInv, Goto, PC, Holding
  <2>2. CASE jobs # <<>>
    <3>1. Head(jobs) \in Jobs /\ Tail(jobs) \in Seq(Jobs)
      BY <2>2, PopType DEF TypeOK
    <3> QED BY <1>4, <2>2, <3>1 DEF Fetch, TypeOK, LocalsInv, Goto, PC, Holding
  <2> QED BY <2>1, <2>2
<1>5. ASSUME NEW w \in Workers, Execute(w)
      PROVE  TypeOK' /\ LocalsInv'
  <2>1. PICK next \in {"complete", "error", "crash"} : Goto(w, next)
    BY <1>5 DEF Execute
  <2> QED BY <1>5, <2>1 DEF Execute, TypeOK, LocalsInv, Goto, PC, Holding
<1>6. ASSUME NEW w \in Workers, Complete(w)
      PROVE  TypeOK' /\ LocalsInv'
  <2>1. job[w] \in Jobs
    BY <1>6 DEF Complete, TypeOK, LocalsInv, Holding
  <2> QED BY <1>6, <2>1 DEF Complete, TypeOK, LocalsInv, Goto, PC, Holding
<1>7. ASSUME NEW w \in Workers, Error(w)
      PROVE  TypeOK' /\ LocalsInv'
  <2>1. job[w] \in Jobs
    BY <1>7 DEF Error, TypeOK, LocalsInv, Holding
  <2> QED BY <1>7, <2>1 DEF Error, TypeOK, LocalsInv, Goto, PC, Holding
<1>8. ASSUME NEW w \in Workers, Wait(w) \/ SpuriousWakeup(w)
      PROVE  TypeOK' /\ LocalsInv'
  BY <1>8 DEF Wait, SpuriousWakeup, TypeOK, LocalsInv, Goto, PC, Holding
<1>9. ASSUME MonitorStep
      PROVE  TypeOK' /\ LocalsInv'
  <2>1. CASE Count
    BY <2>1 DEF Count, TypeOK, LocalsInv
  <2>2. CASE GetNext
    <3>1. completed # <<>>
      BY <2>2 DEF GetNext, MonitorInv
    <3>2. Head(completed) \in Jobs /\ Tail(completed) \in Seq(Jobs)
      BY <3>1, PopType DEF TypeOK
    <3> QED BY <2>2, <3>1, <3>2 DEF GetNext, TypeOK, LocalsInv
  <2>3. CASE Handle
    BY <2>3 DEF Handle, TypeOK, LocalsInv
  <2> QED BY <1>9, <2>1, <2>2, <2>3 DEF MonitorStep
<1>10. CASE UNCHANGED vars
  BY <1>10 DEF TypeOK, LocalsInv
<1> QED
  BY <1>1, <1>2, <1>3, <1>4, <1>5, <1>6, <1>7, <1>8, <1>9, <1>10 DEF Next, WorkerStep

\* What the result thread has asked for, taken and handled.  The queue lets
\* a result be taken once, which is why the one taken was not handled before.
LEMMA MonitorStepInv ==
  ASSUME IInv, [Next]_vars
  PROVE  MonitorInv' /\ HandledOnce'
<1> USE DBJobsAssumption DEF vars, queues, results, monitor
<1>1. ASSUME NEW j \in Jobs, QueueJob(j)
      PROVE  MonitorInv' /\ HandledOnce'
  BY <1>1 DEF QueueJob, IInv, MonitorInv, HandledOnce
<1>2. ASSUME NEW w \in Workers, WorkerStep(w) \/ SpuriousWakeup(w), ~Complete(w)
      PROVE  MonitorInv' /\ HandledOnce'
  <2>1. UNCHANGED <<completed, handled, monPc, monJob>>
    BY <1>2 DEF WorkerStep, Connect, Size, Fetch, Execute, Error, Wait, SpuriousWakeup
  <2> QED BY <2>1 DEF IInv, MonitorInv, HandledOnce
<1>3. ASSUME NEW w \in Workers, Complete(w)
      PROVE  MonitorInv' /\ HandledOnce'
  <2>1. job[w] \in Jobs
    BY <1>3 DEF Complete, IInv, TypeOK, LocalsInv, Holding
  <2>2. completed' # <<>>
    BY <1>3, <2>1 DEF Complete, IInv, TypeOK
  <2> QED BY <1>3, <2>2 DEF Complete, IInv, MonitorInv, HandledOnce
<1>4. CASE Count
  BY <1>4 DEF Count, IInv, MonitorInv, HandledOnce
<1>5. CASE GetNext
  <2> DEFINE h == Head(completed)
  <2>1. completed # <<>> /\ monJob' = h /\ monPc' = "handle" /\ handled' = handled
    BY <1>5 DEF GetNext, IInv, MonitorInv
  <2>2. h \in Jobs /\ 1 \in DOMAIN completed /\ completed[1] = h
    BY <2>1 DEF IInv, TypeOK
  <2>3. Abstract!In(h, completed)
    BY <2>2 DEF Abstract!In
  <2>4. h \notin Over
    BY <2>2, <2>3 DEF IInv, JobsRunOnce, Abstract!OncePerJob
  <2>5. handled[h] = 0
    BY <2>2, <2>4 DEF IInv, TypeOK, Over
  <2> QED BY <2>1, <2>2, <2>5 DEF IInv, MonitorInv, HandledOnce
<1>6. CASE Handle
  <2>1. monJob \in Jobs /\ handled[monJob] = 0
    BY <1>6 DEF Handle, IInv, TypeOK, HandledOnce
  <2>2. handled' = [handled EXCEPT ![monJob] = 1]
    BY <1>6, <2>1 DEF Handle
  <2> QED BY <1>6, <2>1, <2>2 DEF Handle, IInv, TypeOK, MonitorInv, HandledOnce
<1>7. CASE UNCHANGED vars
  BY <1>7 DEF IInv, MonitorInv, HandledOnce
<1> QED BY <1>1, <1>2, <1>3, <1>4, <1>5, <1>6, <1>7 DEF Next, MonitorStep

-----------------------------------------------------------------------------
\* Every step of the database layer is a step of the abstract queue or none.
LEMMA StepSimulates ==
  ASSUME IInv, [Next]_vars
  PROVE  [Abstract!Next]_(Abstract!vars)
<1> USE DBJobsAssumption DEF vars, queues, results, monitor, Abstract!vars
<1>1. ASSUME NEW j \in Jobs, QueueJob(j)
      PROVE  Abstract!Submit(j)
  <2>1. Over' = Over
    BY <1>1 DEF QueueJob, Over
  <2>2. Abstract!Fresh(j)
    BY <1>1 DEF QueueJob, Fresh, In, Abstract!Fresh, Abstract!In, Over, IInv, TypeOK
  <2> QED BY <1>1, <2>1, <2>2 DEF QueueJob, Abstract!Submit
<1>2. ASSUME NEW w \in Workers,
             Connect(w) \/ Size(w) \/ Execute(w) \/ Wait(w) \/ SpuriousWakeup(w)
      PROVE  UNCHANGED Abstract!vars
  BY <1>2 DEF Connect, Size, Execute, Wait, SpuriousWakeup, Over
<1>3. ASSUME NEW w \in Workers, Fetch(w)
      PROVE  Abstract!Fetch(w) \/ UNCHANGED Abstract!vars
  <2>1. Over' = Over /\ completed' = completed
    BY <1>3 DEF Fetch, Over
  <2>2. job[w] = None
    BY <1>3 DEF Fetch, IInv, LocalsInv, Holding
  <2> QED BY <1>3, <2>1, <2>2 DEF Fetch, Abstract!Fetch
<1>4. ASSUME NEW w \in Workers, Complete(w)
      PROVE  Abstract!Complete(w)
  <2>1. Over' = Over
    BY <1>4 DEF Complete, Over
  <2>2. job[w] # None
    BY <1>4 DEF Complete, IInv, LocalsInv, Holding
  <2> QED BY <1>4, <2>1, <2>2 DEF Complete, Abstract!Complete
<1>5. ASSUME NEW w \in Workers, Error(w)
      PROVE  Abstract!Fail(w)
  <2>1. Over' = Over \cup {job[w]}
    BY <1>5 DEF Error, Over
  <2>2. job[w] # None
    BY <1>5 DEF Error, IInv, LocalsInv, Holding
  <2> QED BY <1>5, <2>1, <2>2 DEF Error, Abstract!Fail
<1>6. CASE Count
  BY <1>6 DEF Count, Over
<1>7. CASE GetNext
  <2>1. completed # <<>> /\ monJob' = Head(completed) /\ completed' = Tail(completed)
    BY <1>7 DEF GetNext, IInv, MonitorInv
  <2>2. Head(completed) \in Jobs
    BY <2>1, PopType DEF IInv, TypeOK
  <2>3. monJob = None \/ handled[monJob] > 0
    BY <1>7 DEF GetNext, IInv, MonitorInv
  <2>4. dropped' = dropped /\ handled' = handled
    BY <1>7 DEF GetNext
  <2>5. Over' = Over \cup {Head(completed)}
    BY <2>1, <2>2, <2>3, <2>4 DEF Over
  <2>6. Abstract!Take
    BY <1>7, <2>1, <2>5 DEF GetNext, Abstract!Take
  <2> QED BY <2>6 DEF Abstract!Next
<1>8. CASE Handle
  <2>1. \A j \in Jobs : handled'[j] > 0 \/ j = monJob <=> handled[j] > 0 \/ j = monJob
    BY <1>8 DEF Handle, IInv, TypeOK
  <2>2. Over' = Over
    BY <1>8, <2>1 DEF Handle, Over
  <2> QED BY <1>8, <2>2 DEF Handle
<1>9. CASE UNCHANGED vars
  BY <1>9 DEF Over
<1> QED
  BY <1>1, <1>2, <1>3, <1>4, <1>5, <1>6, <1>7, <1>8, <1>9
  DEF Next, WorkerStep, MonitorStep, Abstract!Next

\* The steps of the abstract queue keep every job in one place.
LEMMA OncePerJobStep ==
  ASSUME IInv, [Next]_vars
  PROVE  JobsRunOnce'
<1>1. Abstract!TypeOK
  BY DEF IInv, TypeOK, Over, Abstract!TypeOK
<1>2. Abstract!OncePerJob
  BY DEF IInv, JobsRunOnce
<1>3. [Abstract!Next]_(Abstract!vars)
  BY StepSimulates
<1> QED BY <1>1, <1>2, <1>3, QueueStep, DBJobsAssumption DEF QueueInv, JobsRunOnce

-----------------------------------------------------------------------------
LEMMA InitInv == Init => IInv
<1> SUFFICES ASSUME Init
             PROVE  IInv
  OBVIOUS
<1>1. TypeOK /\ LocalsInv /\ MonitorInv /\ HandledOnce
  BY DEF Init, TypeOK, LocalsInv, MonitorInv, HandledOnce, PC, Holding
<1>2. JobsRunOnce
  BY DBJobsAssumption
  DEF Init, JobsRunOnce, Abstract!OncePerJob, Abstract!NoDuplicates, Abstract!In
<1> QED BY <1>1, <1>2 DEF IInv

\* The inductive invariant of the database layer.
THEOREM Invariance == Spec => []IInv
<1>1. Init => IInv
  BY InitInv
<1>2. IInv /\ [Next]_vars => IInv'
  <2> SUFFICES ASSUME IInv, [Next]_vars
               PROVE  IInv'
    OBVIOUS
  <2>1. TypeOK' /\ LocalsInv'
    BY TypeStep DEF IInv, HandledOnce
  <2>2. MonitorInv' /\ HandledOnce'
    BY MonitorStepInv
  <2>3. JobsRunOnce'
    BY OncePerJobStep
  <2> QED BY <2>1, <2>2, <2>3 DEF IInv
<1> QED BY <1>1, <1>2, PTL DEF Spec

\* Every variable of the database layer keeps its type.
THEOREM TypeCorrect == Spec => []TypeOK
<1>1. IInv => TypeOK
  BY DEF IInv
<1> QED BY <1>1, Invariance, PTL

\* FCDatabase and the result thread implement the job queue: the tests of
\* sizes without the mutexes, and the ignored result of GetNextCompletedJob,
\* make no difference.
THEOREM Refinement == Spec => ImplementsJobQueue
<1>1. Init => Abstract!Init
  BY DBJobsAssumption DEF Init, Abstract!Init, Over
<1>2. IInv /\ [Next]_vars => [Abstract!Next]_(Abstract!vars)
  BY StepSimulates
<1>3. Spec => Abstract!Init /\ [][Abstract!Next]_(Abstract!vars)
  BY <1>1, <1>2, Invariance, PTL DEF Spec
<1> QED BY <1>3 DEF ImplementsJobQueue, Abstract!Spec

\* No job is executed by two workers, or again after it is over.
THEOREM RunOnce == Spec => []JobsRunOnce
<1>1. IInv => JobsRunOnce
  BY DEF IInv
<1> QED BY <1>1, Invariance, PTL

\* HandleCompletedDBJob is called with a job it has not seen before.
THEOREM HandleOnce == Spec => []HandledOnce
<1>1. IInv => HandledOnce
  BY DEF IInv
<1> QED BY <1>1, Invariance, PTL
=============================================================================
