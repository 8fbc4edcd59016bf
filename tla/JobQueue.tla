------------------------------ MODULE JobQueue ------------------------------
(***************************************************************************)
(* What the database layer of a service promises to its callers: jobs      *)
(* leave the queue in the order they entered it, several may run at a      *)
(* time, each either fails or completes, and the results are taken in the  *)
(* order of completion.  No job is run or answered twice.                  *)
(***************************************************************************)
EXTENDS Naturals, Sequences

CONSTANTS
  Jobs,     \* the jobs, each submitted at most once
  Workers,  \* the threads that run them
  None      \* no job, not in Jobs

VARIABLES
  queued,    \* jobs waiting, oldest first
  running,   \* the job of each worker
  completed, \* jobs that succeeded and whose result nobody has taken
  done       \* jobs that failed or whose result was taken

vars == <<queued, running, completed, done>>

In(j, s) == \E i \in DOMAIN s : s[i] = j

Init ==
  /\ queued = <<>>
  /\ running = [w \in Workers |-> None]
  /\ completed = <<>>
  /\ done = {}

Fresh(j) ==
  /\ ~In(j, queued) /\ ~In(j, completed) /\ j \notin done
  /\ \A w \in Workers : running[w] # j

Submit(j) ==
  /\ Fresh(j)
  /\ queued' = Append(queued, j)
  /\ UNCHANGED <<running, completed, done>>

Fetch(w) ==
  /\ running[w] = None
  /\ queued # <<>>
  /\ running' = [running EXCEPT ![w] = Head(queued)]
  /\ queued' = Tail(queued)
  /\ UNCHANGED <<completed, done>>

Complete(w) ==
  /\ running[w] # None
  /\ completed' = Append(completed, running[w])
  /\ running' = [running EXCEPT ![w] = None]
  /\ UNCHANGED <<queued, done>>

Fail(w) ==
  /\ running[w] # None
  /\ done' = done \cup {running[w]}
  /\ running' = [running EXCEPT ![w] = None]
  /\ UNCHANGED <<queued, completed>>

Take ==
  /\ completed # <<>>
  /\ done' = done \cup {Head(completed)}
  /\ completed' = Tail(completed)
  /\ UNCHANGED <<queued, running>>

Next ==
  \/ \E j \in Jobs : Submit(j)
  \/ \E w \in Workers : Fetch(w) \/ Complete(w) \/ Fail(w)
  \/ Take

Spec == Init /\ [][Next]_vars

-----------------------------------------------------------------------------
\* The type of every variable.
TypeOK ==
  /\ queued \in Seq(Jobs)
  /\ running \in [Workers -> Jobs \cup {None}]
  /\ completed \in Seq(Jobs)
  /\ done \subseteq Jobs

NoDuplicates(s) == \A i, k \in DOMAIN s : s[i] = s[k] => i = k

\* A job is in one place only: no two workers run it, none runs it again
\* after it completed or failed, and its result is not there twice.
OncePerJob ==
  /\ NoDuplicates(queued) /\ NoDuplicates(completed)
  /\ \A v, w \in Workers : running[v] = running[w] /\ running[v] # None => v = w
  /\ \A j \in Jobs :
       /\ In(j, queued) => ~In(j, completed) /\ j \notin done
       /\ In(j, completed) => j \notin done
       /\ \A w \in Workers : running[w] = j =>
            ~In(j, queued) /\ ~In(j, completed) /\ j \notin done
=============================================================================
