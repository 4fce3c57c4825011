------------------------------- MODULE JobPool -------------------------------
(* Periodic jobs and the connection pool.  Every replica starts every job on its timer; *)
(* a start opens a transaction, which keeps one connection, takes the job's advisory     *)
(* lock in it, and runs a body whose queries each ask the same pool for another one.     *)
(*                                                                                       *)
(* A Call is one runIfLeader; the timers do not wait for the call before.                *)
EXTENDS Naturals, Sequences, FiniteSets

CONSTANTS Call,       \* runIfLeader calls that may overlap
          NodeOf,     \* the replica each runs on
          Job,        \* JOBS
          PoolMax,    \* PG_POOL_MAX
          MaxQueries, \* queries in the body of a job
          MaxRestarts

Replica == {NodeOf[c] : c \in Call}

ASSUME PoolAssumption == IsFiniteSet(Job) /\ PoolMax \in Nat /\ PoolMax > Cardinality(Job)
ASSUME CallAssumption == Job # {} /\ {MaxQueries, MaxRestarts} \subseteq Nat /\ "free" \notin Call

VARIABLES
  call,    \* the job, the next step and the queries left of each call
  waiting, \* calls waiting for a connection of each replica's pool, first come first served
  busy,    \* connections in use
  locks,   \* the call that holds each job's advisory lock
  restarts

poolVars == <<call, waiting, busy, locks, restarts>>

NoCall == [job |-> CHOOSE j \in Job : TRUE, at |-> "idle", left |-> 0]

PoolTypeOK ==
  /\ call \in [Call -> [job : Job, at : {"idle", "begin", "locking", "body", "query"}, left : 0..MaxQueries]]
  /\ waiting \in [Replica -> Seq(Call)]
  /\ busy \in [Replica -> 0..PoolMax]
  /\ locks \in [Job -> Call \cup {"free"}]
  /\ restarts \in 0..MaxRestarts

PoolInit ==
  /\ call = [c \in Call |-> NoCall]
  /\ waiting = [n \in Replica |-> <<>>]
  /\ busy = [n \in Replica |-> 0]
  /\ locks = [j \in Job |-> "free"]
  /\ restarts = 0

Ask(c, step) ==
  /\ call' = [call EXCEPT ![c] = step]
  /\ waiting' = [waiting EXCEPT ![NodeOf[c]] = Append(@, c)]
Release(c, k) == busy' = [busy EXCEPT ![NodeOf[c]] = @ - k]

(* A timer fires; the job may be switched off, then nothing happens.                      *)
RunIfLeader(c, j) ==
  /\ call[c].at = "idle"
  /\ Ask(c, [job |-> j, at |-> "begin", left |-> MaxQueries])
  /\ UNCHANGED <<busy, locks, restarts>>

(* The pool serves its queue.                                                              *)
Grant(n) ==
  /\ waiting[n] # <<>> /\ busy[n] < PoolMax
  /\ LET c == Head(waiting[n])
     IN  call' = [call EXCEPT ![c].at = IF @ = "begin" THEN "locking" ELSE "query"]
  /\ waiting' = [waiting EXCEPT ![n] = Tail(@)]
  /\ busy' = [busy EXCEPT ![n] = @ + 1]
  /\ UNCHANGED <<locks, restarts>>

(* Mutant: pg_advisory_xact_lock, which waits for the lock.                                *)
AwaitLock(c) ==
  /\ call[c].at = "locking" /\ locks[call[c].job] = "free"
  /\ locks' = [locks EXCEPT ![call[c].job] = c]
  /\ Ask(c, [call[c] EXCEPT !.at = "body"])
  /\ UNCHANGED <<busy, restarts>>

(* The loser's transaction ends at once; the winner's first query queues for a connection. *)
TryLock(c) ==
  /\ call[c].at = "locking"
  /\ IF locks[call[c].job] = "free"
       THEN /\ locks' = [locks EXCEPT ![call[c].job] = c]
            /\ Ask(c, [call[c] EXCEPT !.at = "body"])
            /\ UNCHANGED busy
       ELSE /\ call' = [call EXCEPT ![c] = NoCall]
            /\ Release(c, 1)
            /\ UNCHANGED <<waiting, locks>>
  /\ UNCHANGED restarts

(* Mutant: a body that throws returns its query's connection and keeps the lock's.          *)
QueryLeaks(c) ==
  /\ call[c].at = "query"
  /\ \/ /\ call[c].left > 1
        /\ Ask(c, [call[c] EXCEPT !.at = "body", !.left = @ - 1])
        /\ UNCHANGED locks
     \/ /\ call' = [call EXCEPT ![c] = NoCall]
        /\ locks' = [locks EXCEPT ![call[c].job] = "free"]
        /\ UNCHANGED waiting
  /\ Release(c, 1)
  /\ UNCHANGED restarts

(* A query returns its connection; then the next one queues, or the body is done or has    *)
(* thrown, and the commit releases lock and connection.                                    *)
Query(c) ==
  /\ call[c].at = "query"
  /\ \/ /\ call[c].left > 1
        /\ Ask(c, [call[c] EXCEPT !.at = "body", !.left = @ - 1])
        /\ Release(c, 1)
        /\ UNCHANGED locks
     \/ /\ call' = [call EXCEPT ![c] = NoCall]
        /\ Release(c, 2)
        /\ locks' = [locks EXCEPT ![call[c].job] = "free"]
        /\ UNCHANGED waiting
  /\ UNCHANGED restarts

(* The database rolls a dead replica's transactions back and frees their locks.            *)
RestartReplica(n) ==
  /\ restarts < MaxRestarts
  /\ restarts' = restarts + 1
  /\ call' = [c \in Call |-> IF NodeOf[c] = n THEN NoCall ELSE call[c]]
  /\ waiting' = [waiting EXCEPT ![n] = <<>>]
  /\ busy' = [busy EXCEPT ![n] = 0]
  /\ locks' = [j \in Job |-> IF locks[j] # "free" /\ NodeOf[locks[j]] = n THEN "free" ELSE locks[j]]

PoolNext ==
  \/ \E c \in Call : \/ \E j \in Job : RunIfLeader(c, j)
                     \/ TryLock(c) \/ Query(c)
  \/ \E n \in Replica : Grant(n) \/ RestartReplica(n)

(* The pool serves its queue and the database answers.                                     *)
PoolFairness ==
  /\ \A c \in Call : WF_poolVars(TryLock(c) \/ Query(c))
  /\ \A n \in Replica : WF_poolVars(Grant(n))

PoolSpec == PoolInit /\ [][PoolNext]_poolVars /\ PoolFairness

-----------------------------------------------------------------------------
(* Nobody waits in vain: as long as a replica's pool has somebody in its queue, it has a  *)
(* connection to give, or a call that runs will return one (scheduler.ts:47, with fewer   *)
(* jobs than connections).                                                                *)
PoolNeverStuck ==
  \A n \in Replica : waiting[n] # <<>> =>
    busy[n] < PoolMax \/ \E c \in Call : NodeOf[c] = n /\ call[c].at \in {"locking", "query"}

(* Everyone waiting on everyone: a winner holds a connection while it waits for one.  With  *)
(* one connection more than there are jobs every call that begins ends, however the timers  *)
(* overlap, since losers do not wait for the lock.                                          *)
JobsFinish == \A c \in Call : call[c].at # "idle" ~> call[c].at = "idle"
=============================================================================
