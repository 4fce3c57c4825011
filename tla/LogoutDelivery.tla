--------------------------- MODULE LogoutDelivery ---------------------------
(* The queue of back-channel logouts and the job that drains it: runIfLeader on    *)
(* every replica, cleanupExpiredTokens under its advisory lock or, from the         *)
(* maintenance endpoint, under none, and drainBackchannelQueue with its retries.    *)
(*                                                                                  *)
(* A drainer reads the due rows once and then works through that list, a POST and    *)
(* an UPDATE per row, neither of which looks at the row again: what it writes is      *)
(* computed from what it read.                                                       *)
EXTENDS Naturals, FiniteSets

CONSTANTS Node,         \* replicas, each with its timer
          Admin,        \* administrators that call the maintenance endpoint
          Delivery,     \* rows of backchannel_logout_deliveries
          None,         \* nobody
          MaxAttempts,  \* MAX_ATTEMPTS
          Limit,        \* rows read by one drain
          MaxFaults     \* bound on crashes and failing statements

ASSUME NoneAssumption == None \notin Node \cup Delivery
ASSUME BoundAssumption == {MaxAttempts, Limit} \subseteq Nat \ {0} /\ MaxFaults \in Nat
ASSUME CallerAssumption == Node \cap Admin = {}

Drainer == Node \cup Admin

VARIABLES
  rows,      \* backchannel_logout_deliveries
  lock,      \* the replica whose transaction holds the cleanup job's advisory lock
  rotation,  \* "stuck": there is no next signing key to promote
  pc,        \* where each run of the cleanup job stands
  list,      \* the rows it selected and has not handled yet
  seen,      \* the attempts those rows had when it selected them
  cur,       \* the row it is handling
  tries,     \* history: how often each row was tried, up to MaxAttempts
  accepted,  \* history: how often the relying party accepted it, up to 2
  events,    \* history: what may have a logout posted again
  faults     \* how many crashes and failing statements there were

table == <<rows, lock, rotation>>
locals == <<pc, list, seen, cur>>
history == <<tries, accepted, events, faults>>
vars == <<rows, lock, rotation, pc, list, seen, cur, tries, accepted, events, faults>>

Row == [st : {"absent", "pending", "delivered", "failed"}, attempts : 0 .. MaxAttempts,
        due : BOOLEAN]

TypeOK ==
  /\ rows \in [Delivery -> Row]
  /\ lock \in Node \cup {None}
  /\ rotation \in {"fine", "stuck"}
  /\ pc \in [Drainer -> {"idle", "rotate", "select", "next", "mark", "retry"}]
  /\ list \in [Drainer -> SUBSET Delivery]
  /\ seen \in [Drainer -> [Delivery -> 0 .. MaxAttempts]]
  /\ cur \in [Drainer -> Delivery \cup {None}]
  /\ tries \in [Delivery -> 0 .. MaxAttempts]
  /\ accepted \in [Delivery -> 0 .. 2]
  /\ events \subseteq {"overlap", "repeat"}
  /\ faults \in Nat

Unseen == [d \in Delivery |-> 0]

Init ==
  /\ rows = [d \in Delivery |-> [st |-> "absent", attempts |-> 0, due |-> FALSE]]
  /\ lock = None
  /\ rotation = "fine"
  /\ pc = [p \in Drainer |-> "idle"]
  /\ list = [p \in Drainer |-> {}]
  /\ seen = [p \in Drainer |-> Unseen]
  /\ cur = [p \in Drainer |-> None]
  /\ tries = [d \in Delivery |-> 0]
  /\ accepted = [d \in Delivery |-> 0]
  /\ events = {}
  /\ faults = 0

--------------------------------------------------------------------------------
GoTo(p, s) == pc' = [pc EXCEPT ![p] = s]

(* Mutant: a session-level lock, which the end of the transaction does not release.     *)
EndJobLocked(p) ==
  /\ GoTo(p, "idle")
  /\ list' = [list EXCEPT ![p] = {}]
  /\ seen' = [seen EXCEPT ![p] = Unseen]
  /\ cur' = [cur EXCEPT ![p] = None]
  /\ UNCHANGED lock

(* The job of p is over, well or badly; the transaction of runIfLeader with it.      *)
EndJob(p) ==
  /\ GoTo(p, "idle")
  /\ list' = [list EXCEPT ![p] = {}]
  /\ seen' = [seen EXCEPT ![p] = Unseen]
  /\ cur' = [cur EXCEPT ![p] = None]
  /\ lock' = IF lock = p THEN None ELSE lock

Fault == faults < MaxFaults /\ faults' = faults + 1 /\ events' = events \cup {"repeat"}

Busy == {p \in Drainer : pc[p] # "idle"}

--------------------------------------------------------------------------------
(* enqueueBackchannelLogout; next_attempt_at defaults to now().                      *)
Enqueue(d) ==
  /\ rows[d].st = "absent"
  /\ rows' = [rows EXCEPT ![d] = [st |-> "pending", attempts |-> 0, due |-> TRUE]]
  /\ UNCHANGED <<lock, rotation, locals, history>>

(* The backoff of a row is over.                                                     *)
Elapse(d) ==
  /\ rows[d].st = "pending" /\ ~rows[d].due
  /\ rows' = [rows EXCEPT ![d].due = TRUE]
  /\ UNCHANGED <<lock, rotation, locals, history>>

(* Mutant: the result of pg_try_advisory_xact_lock is not looked at.                 *)
TickUnlocked(n) ==
  /\ pc[n] = "idle"
  /\ lock' = IF lock = None THEN n ELSE lock
  /\ GoTo(n, "rotate")
  /\ events' = IF Busy \cap Admin # {} THEN events \cup {"overlap"} ELSE events
  /\ UNCHANGED <<rows, rotation, list, seen, cur, tries, accepted, faults>>

(* The timer of replica n fires and pg_try_advisory_xact_lock succeeds; when it       *)
(* does not, nothing happens until the timer fires again.                            *)
Tick(n) ==
  /\ pc[n] = "idle" /\ lock = None
  /\ lock' = n
  /\ GoTo(n, "rotate")
  /\ events' = IF Busy \cap Admin # {} THEN events \cup {"overlap"} ELSE events
  /\ UNCHANGED <<rows, rotation, list, seen, cur, tries, accepted, faults>>

(* POST /api/admin/maintenance/cleanup-tokens runs the same job without the lock.    *)
Maintain(a) ==
  /\ pc[a] = "idle"
  /\ GoTo(a, "rotate")
  /\ events' = IF Busy # {} THEN events \cup {"overlap"} ELSE events
  /\ UNCHANGED <<table, list, seen, cur, tries, accepted, faults>>

(* rotateSigningKeyIfDue comes first and may throw.  A rotation that a failing          *)
(* statement leaves halfway leaves no next key: from then on it throws whenever the     *)
(* active row that LIMIT 1 returns is due.                                               *)
Rotate(p) ==
  /\ pc[p] = "rotate"
  /\ \/ /\ GoTo(p, "select")
        /\ UNCHANGED <<table, list, seen, cur, events, faults>>
     \/ /\ rotation = "stuck"
        /\ EndJob(p)
        /\ UNCHANGED <<rows, rotation, events, faults>>
     \/ /\ rotation = "fine" /\ Fault
        /\ rotation' = "stuck"
        /\ EndJob(p)
        /\ UNCHANGED rows
  /\ UNCHANGED <<tries, accepted>>

(* Mutant: the SELECT does not look at the status.                                    *)
DueWhatever == {d \in Delivery : rows[d].st # "absent"}

(* SELECT ... WHERE status = 'pending' AND next_attempt_at <= now LIMIT 50, in no      *)
(* particular order.                                                                  *)
Due == {d \in Delivery : rows[d].st = "pending" /\ rows[d].due}

Select(p) ==
  /\ pc[p] = "select"
  /\ \E batch \in SUBSET Due :
       /\ Cardinality(batch) = Limit \/ (batch = Due /\ Cardinality(Due) < Limit)
       /\ list' = [list EXCEPT ![p] = batch]
       /\ seen' = [seen EXCEPT ![p] = [d \in Delivery |-> IF d \in batch THEN rows[d].attempts
                                                                        ELSE 0]]
  /\ GoTo(p, "next")
  /\ UNCHANGED <<table, cur, history>>

(* The relying party ends the session that the logout token names.                   *)
Accept(d) == accepted' = [accepted EXCEPT ![d] = IF @ < 2 THEN @ + 1 ELSE @]

(* The loop goes on to the next row of the list.                                     *)
NextRow(p) ==
  /\ seen' = [seen EXCEPT ![p][cur[p]] = 0]
  /\ cur' = [cur EXCEPT ![p] = None]
  /\ GoTo(p, "next")

(* One turn of the loop: the logout token is signed and posted.  The relying party    *)
(* accepts it, or does not, or accepts it when DELIVERY_TIMEOUT_MS have passed.       *)
Post(p) ==
  /\ pc[p] = "next"
  /\ \E d \in list[p] :
       /\ list' = [list EXCEPT ![p] = @ \ {d}]
       /\ cur' = [cur EXCEPT ![p] = d]
       /\ tries' = [tries EXCEPT ![d] = IF @ < MaxAttempts THEN @ + 1 ELSE @]
       /\ \/ GoTo(p, "mark") /\ Accept(d) /\ UNCHANGED events
          \/ GoTo(p, "retry") /\ UNCHANGED <<events, accepted>>
          \/ GoTo(p, "retry") /\ Accept(d) /\ events' = events \cup {"repeat"}
  /\ UNCHANGED <<table, seen, faults>>

(* UPDATE ... SET status = 'delivered'; if it throws, the catch block takes over.      *)
MarkDelivered(p) ==
  /\ pc[p] = "mark"
  /\ \/ /\ rows' = [rows EXCEPT ![cur[p]].st = "delivered"]
        /\ NextRow(p)
        /\ UNCHANGED <<events, faults>>
     \/ Fault /\ GoTo(p, "retry") /\ UNCHANGED <<rows, seen, cur>>
  /\ UNCHANGED <<lock, rotation, list, tries, accepted>>

(* Mutant: attempts already holds the one being made.                                 *)
GiveUpSoon(p) ==
  /\ pc[p] = "retry"
  /\ LET attempts == seen[p][cur[p]] + 1
     IN  rows' = [rows EXCEPT ![cur[p]] =
                    [st |-> IF attempts + 1 >= MaxAttempts THEN "failed" ELSE "pending",
                     attempts |-> attempts, due |-> FALSE]]
  /\ NextRow(p)
  /\ UNCHANGED <<lock, rotation, list, history>>

(* The catch block: attempts, status and next_attempt_at follow from the row as it     *)
(* was when the list was read.                                                          *)
Retry(p) ==
  /\ pc[p] = "retry"
  /\ LET attempts == seen[p][cur[p]] + 1
     IN  rows' = [rows EXCEPT ![cur[p]] =
                    [st |-> IF attempts >= MaxAttempts THEN "failed" ELSE "pending",
                     attempts |-> attempts, due |-> FALSE]]
  /\ NextRow(p)
  /\ UNCHANGED <<lock, rotation, list, history>>

Finish(p) ==
  /\ pc[p] = "next" /\ list[p] = {}
  /\ EndJob(p)
  /\ UNCHANGED <<rows, rotation, history>>

(* A statement outside the try block throws, or the process dies; when it is a         *)
(* replica that dies, it boots again, and ensureKeysInitialized makes a next key.       *)
Abort(p) ==
  /\ pc[p] # "idle" /\ Fault
  /\ EndJob(p)
  /\ \/ UNCHANGED rotation
     \/ rotation' = "fine"
  /\ UNCHANGED <<rows, tries, accepted>>

Reboot(n) ==
  /\ rotation = "stuck" /\ pc[n] = "idle"
  /\ rotation' = "fine"
  /\ UNCHANGED <<rows, lock, locals, history>>

(* The connection that holds the lock is lost while the job, on other connections of    *)
(* the pool, goes on.                                                                    *)
LoseLock(n) ==
  /\ lock = n /\ faults < MaxFaults
  /\ lock' = None
  /\ faults' = faults + 1
  /\ events' = events \cup {"overlap"}
  /\ UNCHANGED <<rows, rotation, locals, tries, accepted>>

Step(p) == Rotate(p) \/ Select(p) \/ Post(p) \/ MarkDelivered(p) \/ Retry(p) \/ Finish(p)

Next ==
  \/ \E d \in Delivery : Enqueue(d) \/ Elapse(d)
  \/ \E n \in Node : Tick(n) \/ LoseLock(n) \/ Reboot(n)
  \/ \E a \in Admin : Maintain(a)
  \/ \E p \in Drainer : Step(p) \/ Abort(p)

Spec == Init /\ [][Next]_vars

(* setInterval keeps firing on some replica, a job that was begun goes on (fetch is      *)
(* aborted after DELIVERY_TIMEOUT_MS), and time passes.                                   *)
Fairness ==
  /\ WF_vars(\E n \in Node : Tick(n))
  /\ \A p \in Drainer : WF_vars(Step(p))
  /\ \A d \in Delivery : WF_vars(Elapse(d))

FairSpec == Spec /\ Fairness

--------------------------------------------------------------------------------
(* Correctness.                                                                     *)

(* A logout is given up only after MAX_ATTEMPTS tries, although every drainer counts     *)
(* from the attempts it read and overlapping ones overwrite each other's count            *)
(* (backchannel-logout.service.ts:99-104).                                                 *)
NotGivenUpEarly == \A d \in Delivery : rows[d].st = "failed" => tries[d] = MaxAttempts

(* Under the scheduler's lock alone, with no fault and no late answer, a relying party     *)
(* accepts each logout at most once, whatever replicas tick (scheduler.ts:36-43).           *)
AcceptedOnce == events = {} => \A d \in Delivery : accepted[d] <= 1

(* Without an overlap a settled row is never touched again: nobody posts a logout that      *)
(* was delivered or given up, and nobody writes over its status.                             *)
SettledIsFinal ==
  [][\A d \in Delivery : rows[d].st \in {"delivered", "failed"} /\ "overlap" \notin events
                         => rows'[d] = rows[d] /\ tries'[d] = tries[d]]_vars

(* As long as key rotation works, every queued logout is settled in the end and stays so,    *)
(* however many maintenance calls overlap with the scheduler's runs and write stale counts.   *)
LogoutsAreSettled ==
  <>[](rotation = "fine") => \A d \in Delivery : <>[](rows[d].st # "pending")
==============================================================================
