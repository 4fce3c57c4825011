----------------------- MODULE LogoutDeliveryProofs -----------------------
(* The back-channel queue for any number of replicas, administrators and rows, any *)
(* batch size and any number of attempts: no logout is given up early, and without   *)
(* overlapping drainers none is posted again once it was accepted.                    *)
EXTENDS LogoutDelivery, TLAPS

(* What a drainer's locals are at each point, and that only rows with attempts left    *)
(* are pending.                                                                         *)
LocalInv ==
  /\ \A p \in Drainer : pc[p] \in {"mark", "retry"} => cur[p] \in Delivery \ list[p]
  /\ \A p \in Drainer : pc[p] \notin {"next", "mark", "retry"} => list[p] = {}
  /\ \A d \in Delivery : rows[d].st = "pending" => rows[d].attempts < MaxAttempts
  /\ \A p \in Drainer, d \in Delivery : seen[p][d] < MaxAttempts

(* No count runs ahead of the tries: not the one in the table, nor the one a drainer    *)
(* read, nor the one it is about to write.                                               *)
CountInv ==
  /\ \A d \in Delivery : rows[d].attempts <= tries[d]
  /\ \A p \in Drainer, d \in Delivery : seen[p][d] <= tries[d]
  /\ \A p \in Drainer : pc[p] \in {"mark", "retry"} => seen[p][cur[p]] < tries[cur[p]]
  /\ NotGivenUpEarly

(* Until drainers overlap there is one at a time, and the rows it still has to handle    *)
(* are as it read them.                                                                  *)
AloneInv == "overlap" \notin events =>
  /\ \A p, q \in Drainer : pc[p] # "idle" /\ pc[q] # "idle" => p = q
  /\ \A n \in Node : pc[n] # "idle" => lock = n
  /\ \A p \in Drainer : \A d \in list[p] : rows[d].st = "pending"
  /\ \A p \in Drainer : pc[p] \in {"mark", "retry"} => rows[cur[p]].st = "pending"

(* A row that was accepted is marked delivered, or about to be.                           *)
AcceptInv == events = {} =>
  \A d \in Delivery : accepted[d] # 0 =>
    /\ accepted[d] = 1
    /\ rows[d].st = "delivered" \/ \E p \in Drainer : pc[p] = "mark" /\ cur[p] = d

DeliveryInv == TypeOK /\ LocalInv /\ CountInv /\ AloneInv /\ AcceptInv

--------------------------------------------------------------------------------
LEMMA Bounds == MaxAttempts \in Nat /\ MaxAttempts > 0
  BY BoundAssumption

LEMMA InitHolds == Init => DeliveryInv
<1> SUFFICES ASSUME Init PROVE DeliveryInv
  OBVIOUS
<1> USE Bounds
<1>1. TypeOK
  BY DEF Init, TypeOK, Row, Unseen
<1>2. LocalInv /\ CountInv
  BY DEF Init, LocalInv, CountInv, NotGivenUpEarly, Unseen
<1>3. AloneInv /\ AcceptInv
  BY DEF Init, AloneInv, AcceptInv, Drainer
<1>4. QED
  BY <1>1, <1>2, <1>3 DEF DeliveryInv

LEMMA EnqueueKeeps == ASSUME DeliveryInv, NEW d \in Delivery, Enqueue(d) PROVE DeliveryInv'
<1> USE Bounds DEF DeliveryInv, Enqueue, locals, history
<1>1. TypeOK'
  BY DEF TypeOK, Row
<1>2. LocalInv'
  BY DEF TypeOK, Row, LocalInv
<1>3. CountInv'
  BY DEF TypeOK, Row, CountInv, NotGivenUpEarly
<1>4. AloneInv'
  BY DEF TypeOK, Row, AloneInv
<1>5. AcceptInv'
  <2>1. events = {} => accepted[d] = 0
    BY DEF AcceptInv, AloneInv
  <2>2. QED
    BY <2>1 DEF AcceptInv, TypeOK
<1>6. QED
  BY <1>1, <1>2, <1>3, <1>4, <1>5

LEMMA ElapseKeeps == ASSUME DeliveryInv, NEW d \in Delivery, Elapse(d) PROVE DeliveryInv'
<1> USE Bounds DEF DeliveryInv, Elapse, locals, history
<1>1. TypeOK'
  BY DEF TypeOK, Row
<1>2. LocalInv'
  BY DEF TypeOK, Row, LocalInv
<1>3. CountInv'
  BY DEF TypeOK, Row, CountInv, NotGivenUpEarly
<1>4. AloneInv'
  BY DEF TypeOK, Row, AloneInv
<1>5. AcceptInv'
  BY DEF AcceptInv, TypeOK, Row
<1>6. QED
  BY <1>1, <1>2, <1>3, <1>4, <1>5

(* With no maintenance call at work, a free lock means that nobody is.                   *)
LEMMA TickKeeps == ASSUME DeliveryInv, NEW n \in Node, Tick(n) PROVE DeliveryInv'
<1> USE Bounds, NoneAssumption DEF DeliveryInv, Tick, GoTo
<1>1. TypeOK'
  BY DEF TypeOK, Drainer
<1>2. LocalInv'
  BY DEF TypeOK, LocalInv, Drainer
<1>3. CountInv'
  BY DEF TypeOK, CountInv, NotGivenUpEarly, Drainer
<1>4. AloneInv'
  <2> SUFFICES ASSUME "overlap" \notin events' PROVE AloneInv'
    BY DEF AloneInv
  <2>1. "overlap" \notin events /\ Busy \cap Admin = {}
    OBVIOUS
  <2>2. \A p \in Drainer : pc[p] = "idle"
    BY <2>1 DEF AloneInv, Busy, Drainer
  <2>3. QED
    BY <2>1, <2>2 DEF AloneInv, TypeOK, Drainer
<1>5. AcceptInv'
  BY DEF AcceptInv, TypeOK, Drainer
<1>6. QED
  BY <1>1, <1>2, <1>3, <1>4, <1>5

LEMMA MaintainKeeps == ASSUME DeliveryInv, NEW a \in Admin, Maintain(a) PROVE DeliveryInv'
<1> USE Bounds, CallerAssumption DEF DeliveryInv, Maintain, GoTo, table
<1>1. TypeOK'
  BY DEF TypeOK, Drainer
<1>2. LocalInv'
  BY DEF TypeOK, LocalInv, Drainer
<1>3. CountInv'
  BY DEF TypeOK, CountInv, NotGivenUpEarly, Drainer
<1>4. AloneInv'
  <2> SUFFICES ASSUME "overlap" \notin events' PROVE AloneInv'
    BY DEF AloneInv
  <2>1. "overlap" \notin events /\ \A p \in Drainer : pc[p] = "idle"
    BY DEF Busy
  <2>2. QED
    BY <2>1 DEF AloneInv, TypeOK, Drainer
<1>5. AcceptInv'
  BY DEF AcceptInv, TypeOK, Drainer
<1>6. QED
  BY <1>1, <1>2, <1>3, <1>4, <1>5

(* A job that ends leaves the rows alone; an interrupted one is on record in events.       *)
LEMMA EndJobKeeps ==
  ASSUME DeliveryInv, NEW p \in Drainer, EndJob(p), UNCHANGED <<rows, tries, accepted>>,
         rotation' \in {"fine", "stuck"}, faults' \in Nat,
         \/ UNCHANGED events /\ pc[p] # "mark"
         \/ events' = events \cup {"repeat"}
  PROVE  DeliveryInv'
<1> USE Bounds DEF DeliveryInv, EndJob, GoTo, Unseen
<1>1. TypeOK'
  <2>1. seen' \in [Drainer -> [Delivery -> 0 .. MaxAttempts]]
    BY DEF TypeOK
  <2>2. lock' \in Node \cup {None} /\ events' \subseteq {"overlap", "repeat"}
    BY DEF TypeOK
  <2>3. QED
    BY <2>1, <2>2 DEF TypeOK
<1>2. LocalInv'
  BY DEF TypeOK, LocalInv
<1>3. CountInv'
  BY DEF TypeOK, CountInv, NotGivenUpEarly
<1>4. AloneInv'
  <2> SUFFICES ASSUME "overlap" \notin events' PROVE AloneInv'
    BY DEF AloneInv
  <2>1. "overlap" \notin events
    OBVIOUS
  <2>2. \A q \in Drainer : pc'[q] # "idle" => q # p /\ pc'[q] = pc[q]
    BY DEF TypeOK
  <2>3. \A n \in Node : pc'[n] # "idle" => lock' = n
    BY <2>1, <2>2, NoneAssumption DEF AloneInv, Drainer
  <2>4. QED
    BY <2>1, <2>2, <2>3 DEF AloneInv, TypeOK
<1>5. AcceptInv'
  BY DEF AcceptInv, TypeOK
<1>6. QED
  BY <1>1, <1>2, <1>3, <1>4, <1>5

LEMMA RotateKeeps == ASSUME DeliveryInv, NEW p \in Drainer, Rotate(p) PROVE DeliveryInv'
<1>1. CASE GoTo(p, "select") /\ UNCHANGED <<table, list, seen, cur, events, faults>>
  <2> USE <1>1, Bounds DEF DeliveryInv, Rotate, GoTo, table
  <2>1. TypeOK'
    BY DEF TypeOK
  <2>2. LocalInv'
    BY DEF TypeOK, LocalInv
  <2>3. CountInv'
    BY DEF TypeOK, CountInv, NotGivenUpEarly
  <2>4. AloneInv'
    BY DEF TypeOK, AloneInv, Drainer
  <2>5. AcceptInv'
    BY DEF TypeOK, AcceptInv
  <2>6. QED
    BY <2>1, <2>2, <2>3, <2>4, <2>5
<1>2. CASE EndJob(p)
  <2>1. rotation' \in {"fine", "stuck"} /\ faults' \in Nat
    BY <1>2 DEF Rotate, EndJob, Fault, table, DeliveryInv, TypeOK
  <2>2. UNCHANGED <<rows, tries, accepted>> /\ pc[p] = "rotate"
    BY <1>2 DEF Rotate, table
  <2>3. UNCHANGED events \/ events' = events \cup {"repeat"}
    BY <1>2 DEF Rotate, Fault
  <2>4. QED
    BY <1>2, <2>1, <2>2, <2>3, EndJobKeeps
<1>3. QED
  BY <1>1, <1>2 DEF Rotate

LEMMA FinishKeeps == ASSUME DeliveryInv, NEW p \in Drainer, Finish(p) PROVE DeliveryInv'
<1>1. rotation' \in {"fine", "stuck"} /\ faults' \in Nat
  BY DEF Finish, history, DeliveryInv, TypeOK
<1>2. UNCHANGED <<rows, tries, accepted, events>> /\ pc[p] = "next" /\ EndJob(p)
  BY DEF Finish, history
<1>3. QED
  BY <1>1, <1>2, EndJobKeeps

LEMMA AbortKeeps == ASSUME DeliveryInv, NEW p \in Drainer, Abort(p) PROVE DeliveryInv'
<1>1. rotation' \in {"fine", "stuck"} /\ faults' \in Nat
  BY DEF Abort, Fault, DeliveryInv, TypeOK
<1>2. UNCHANGED <<rows, tries, accepted>> /\ EndJob(p) /\ events' = events \cup {"repeat"}
  BY DEF Abort, Fault
<1>3. QED
  BY <1>1, <1>2, EndJobKeeps

LEMMA SelectKeeps == ASSUME DeliveryInv, NEW p \in Drainer, Select(p) PROVE DeliveryInv'
<1> USE Bounds DEF DeliveryInv, Select, GoTo, table, history
<1>1. PICK batch \in SUBSET Due :
        /\ list' = [list EXCEPT ![p] = batch]
        /\ seen' = [seen EXCEPT ![p] = [d \in Delivery |-> IF d \in batch THEN rows[d].attempts
                                                                         ELSE 0]]
  BY DEF Select
<1>2. batch \subseteq Delivery /\ \A d \in batch : rows[d].st = "pending"
  BY DEF Due
<1>3. \A d \in Delivery : rows[d].attempts \in 0 .. MaxAttempts
  BY DEF TypeOK, Row
<1>4. TypeOK'
  <2>1. seen' \in [Drainer -> [Delivery -> 0 .. MaxAttempts]]
    BY <1>1, <1>3 DEF TypeOK
  <2>2. list' \in [Drainer -> SUBSET Delivery]
    BY <1>1, <1>2 DEF TypeOK
  <2>3. QED
    BY <2>1, <2>2 DEF TypeOK
<1>5. \A q \in Drainer, d \in Delivery :
        seen'[q][d] = IF q = p THEN IF d \in batch THEN rows[d].attempts ELSE 0 ELSE seen[q][d]
  BY <1>1 DEF TypeOK
<1>6. LocalInv'
  <2>1. \A q \in Drainer, d \in Delivery : seen'[q][d] < MaxAttempts
    BY <1>2, <1>3, <1>5 DEF LocalInv
  <2>2. QED
    BY <1>1, <2>1 DEF LocalInv, TypeOK
<1>7. CountInv'
  <2>1. \A q \in Drainer, d \in Delivery : seen'[q][d] <= tries[d]
    BY <1>3, <1>5 DEF CountInv, TypeOK
  <2>2. \A q \in Drainer : pc'[q] \in {"mark", "retry"} => seen'[q] = seen[q] /\ pc'[q] = pc[q]
    BY <1>1 DEF TypeOK
  <2>3. QED
    BY <2>1, <2>2 DEF CountInv, NotGivenUpEarly, TypeOK
<1>8. AloneInv'
  BY <1>1, <1>2 DEF AloneInv, TypeOK, Drainer
<1>9. AcceptInv'
  BY DEF AcceptInv, TypeOK
<1>10. QED
  BY <1>4, <1>6, <1>7, <1>8, <1>9

LEMMA PostKeeps == ASSUME DeliveryInv, NEW p \in Drainer, Post(p) PROVE DeliveryInv'
<1> USE Bounds DEF DeliveryInv
<1>1. PICK d \in list[p] :
        /\ list' = [list EXCEPT ![p] = @ \ {d}]
        /\ cur' = [cur EXCEPT ![p] = d]
        /\ tries' = [tries EXCEPT ![d] = IF @ < MaxAttempts THEN @ + 1 ELSE @]
        /\ \/ GoTo(p, "mark") /\ Accept(d) /\ UNCHANGED events
           \/ GoTo(p, "retry") /\ UNCHANGED <<events, accepted>>
           \/ GoTo(p, "retry") /\ Accept(d) /\ events' = events \cup {"repeat"}
  BY DEF Post
<1>2. d \in Delivery /\ pc[p] = "next" /\ UNCHANGED <<rows, lock, rotation, seen, faults>>
  BY DEF TypeOK, Post, table
<1>3. /\ \A q \in Drainer \ {p} : pc'[q] = pc[q]
      /\ pc'[p] \in {"mark", "retry"}
      /\ pc' \in [Drainer -> {"idle", "rotate", "select", "next", "mark", "retry"}]
  <2>1. pc' = [pc EXCEPT ![p] = "mark"] \/ pc' = [pc EXCEPT ![p] = "retry"]
    BY <1>1 DEF GoTo
  <2>2. QED
    BY <2>1 DEF TypeOK
<1>4. /\ \A c \in Delivery : tries[c] <= tries'[c]
      /\ tries' \in [Delivery -> 0 .. MaxAttempts]
      /\ tries[d] < MaxAttempts => tries'[d] = tries[d] + 1
      /\ tries[d] = MaxAttempts => tries'[d] = MaxAttempts
  BY <1>1, <1>2 DEF TypeOK
<1>5. TypeOK'
  <2>1. accepted' \in [Delivery -> 0 .. 2]
    BY <1>1, <1>2 DEF TypeOK, Accept
  <2>2. events' \subseteq {"overlap", "repeat"}
    <3>1. events' = events \/ events' = events \cup {"repeat"}
      BY <1>1
    <3>2. QED
      BY <3>1 DEF TypeOK
  <2>3. list' \in [Drainer -> SUBSET Delivery] /\ cur' \in [Drainer -> Delivery \cup {None}]
    BY <1>1, <1>2 DEF TypeOK
  <2>4. QED
    BY <1>2, <1>3, <1>4, <2>1, <2>2, <2>3 DEF TypeOK
<1>6. LocalInv'
  BY <1>1, <1>2, <1>3 DEF LocalInv, TypeOK
<1>7. CountInv'
  <2>1. \A c \in Delivery : rows[c].attempts \in Nat /\ tries[c] \in Nat /\ tries'[c] \in Nat
    BY <1>4 DEF TypeOK, Row
  <2>2. \A q \in Drainer, c \in Delivery : seen[q][c] \in Nat
    BY DEF TypeOK
  <2>3. seen[p][d] < tries'[d]
    <3>1. seen[p][d] < MaxAttempts /\ seen[p][d] <= tries[d]
      BY <1>2 DEF LocalInv, CountInv
    <3>2. tries[d] \in 0 .. MaxAttempts
      BY <1>2 DEF TypeOK
    <3>3. QED
      BY <3>1, <3>2, <1>2, <1>4, <2>1, <2>2
  <2>4. \A q \in Drainer : pc'[q] \in {"mark", "retry"} => seen'[q][cur'[q]] < tries'[cur'[q]]
    <3> SUFFICES ASSUME NEW q \in Drainer, pc'[q] \in {"mark", "retry"}
                 PROVE  seen[q][cur'[q]] < tries'[cur'[q]]
      BY <1>2
    <3>1. CASE q = p
      BY <3>1, <1>1, <2>3 DEF TypeOK
    <3>2. CASE q # p
      <4>1. cur'[q] = cur[q] /\ cur[q] \in Delivery /\ seen[q][cur[q]] < tries[cur[q]]
        BY <3>2, <1>1, <1>3 DEF TypeOK, LocalInv, CountInv
      <4>2. QED
        BY <4>1, <1>4, <2>1, <2>2
    <3>3. QED
      BY <3>1, <3>2
  <2>5. NotGivenUpEarly'
    BY <1>2, <1>4, <2>1 DEF CountInv, NotGivenUpEarly, TypeOK
  <2>6. QED
    <3>1. \A c \in Delivery : rows'[c].attempts <= tries'[c]
      BY <1>2, <1>4, <2>1 DEF CountInv
    <3>2. \A q \in Drainer, c \in Delivery : seen'[q][c] <= tries'[c]
      BY <1>2, <1>4, <2>1, <2>2 DEF CountInv
    <3>3. QED
      BY <3>1, <3>2, <2>4, <2>5 DEF CountInv
<1>8. AloneInv'
  BY <1>1, <1>2, <1>3 DEF AloneInv, TypeOK, Drainer
<1>9. AcceptInv'
  <2> SUFFICES ASSUME events' = {}, NEW c \in Delivery, accepted'[c] # 0
               PROVE  /\ accepted'[c] = 1
                      /\ \/ rows[c].st = "delivered"
                         \/ \E q \in Drainer : pc'[q] = "mark" /\ cur'[q] = c
    BY <1>2 DEF AcceptInv
  <2>1. events = {} /\ \A q \in Drainer : pc[q] # "mark"
    BY <1>1, <1>2 DEF AloneInv
  <2>2. accepted[d] = 0
    BY <1>2, <2>1 DEF AcceptInv, AloneInv
  <2>3. CASE c = d
    <3>1. Accept(d) /\ GoTo(p, "mark")
      BY <2>2, <2>3, <1>1
    <3>2. accepted'[c] = 1 /\ pc'[p] = "mark" /\ cur'[p] = c
      BY <3>1, <2>2, <2>3, <1>1, <1>2 DEF Accept, GoTo, TypeOK
    <3>3. QED
      BY <3>2
  <2>4. CASE c # d
    BY <2>1, <2>4, <1>1, <1>2 DEF Accept, TypeOK, AcceptInv
  <2>5. QED
    BY <2>3, <2>4
<1>10. QED
  BY <1>5, <1>6, <1>7, <1>8, <1>9

LEMMA MarkDeliveredKeeps ==
  ASSUME DeliveryInv, NEW p \in Drainer, MarkDelivered(p) PROVE DeliveryInv'
<1> USE Bounds DEF DeliveryInv
<1>1. cur[p] \in Delivery \ list[p] /\ pc[p] = "mark"
  BY DEF MarkDelivered, LocalInv
<1>2. CASE Fault /\ GoTo(p, "retry") /\ UNCHANGED <<rows, seen, cur>>
  <2> USE <1>1, <1>2 DEF MarkDelivered, Fault, GoTo
  <2>1. TypeOK'
    BY DEF TypeOK
  <2>2. LocalInv'
    BY DEF TypeOK, LocalInv
  <2>3. CountInv'
    BY DEF TypeOK, CountInv, NotGivenUpEarly
  <2>4. AloneInv'
    BY DEF TypeOK, AloneInv, Drainer
  <2>5. AcceptInv'
    BY DEF AcceptInv
  <2>6. QED
    BY <2>1, <2>2, <2>3, <2>4, <2>5
<1>3. CASE rows' = [rows EXCEPT ![cur[p]].st = "delivered"] /\ NextRow(p) /\ UNCHANGED <<events, faults>>
  <2> USE <1>1, <1>3 DEF MarkDelivered, NextRow, GoTo
  <2>1. TypeOK'
    <3>1. seen' \in [Drainer -> [Delivery -> 0 .. MaxAttempts]]
      BY DEF TypeOK
    <3>2. rows' \in [Delivery -> Row]
      <4>1. rows \in [Delivery -> Row]
        BY DEF TypeOK
      <4>2. [rows[cur[p]] EXCEPT !.st = "delivered"] \in Row
        BY <4>1 DEF Row
      <4>3. QED
        BY <4>1, <4>2
    <3>3. QED
      BY <3>1, <3>2 DEF TypeOK
  <2>2. \A q \in Drainer, d \in Delivery : seen'[q][d] <= seen[q][d]
    BY DEF TypeOK
  <2>3. LocalInv'
    <3>1. \A q \in Drainer, d \in Delivery : seen'[q][d] < MaxAttempts
      BY DEF TypeOK, LocalInv
    <3>2. \A d \in Delivery : rows'[d].attempts = rows[d].attempts
                              /\ (rows'[d].st = "pending" => rows[d].st = "pending")
      BY DEF TypeOK, Row
    <3>3. QED
      BY <3>1, <3>2 DEF TypeOK, LocalInv
  <2>4. CountInv'
    <3>1. \A q \in Drainer, d \in Delivery : seen'[q][d] <= tries[d]
      BY DEF TypeOK, CountInv
    <3>2. \A d \in Delivery : rows'[d].attempts = rows[d].attempts
                              /\ (rows'[d].st = "failed" => rows[d].st = "failed")
      BY DEF TypeOK, Row
    <3>3. \A q \in Drainer : pc'[q] \in {"mark", "retry"} =>
             q # p /\ seen'[q] = seen[q] /\ cur'[q] = cur[q] /\ pc'[q] = pc[q]
      BY DEF TypeOK
    <3>4. QED
      BY <3>1, <3>2, <3>3 DEF TypeOK, CountInv, NotGivenUpEarly
  <2>5. AloneInv'
    <3> SUFFICES ASSUME "overlap" \notin events PROVE AloneInv'
      BY DEF AloneInv
    <3>1. \A q \in Drainer : pc[q] # "idle" => q = p
      BY DEF AloneInv
    <3>2. \A q \in Drainer : q # p => pc'[q] = pc[q] /\ list[q] = {}
      BY <3>1 DEF TypeOK, LocalInv
    <3>3. \A d \in Delivery : d # cur[p] => rows'[d] = rows[d]
      BY DEF TypeOK
    <3>4. QED
      BY <3>1, <3>2, <3>3 DEF AloneInv, TypeOK, Drainer
  <2>6. AcceptInv'
    <3> SUFFICES ASSUME events = {}, NEW c \in Delivery, accepted[c] # 0
                 PROVE  accepted[c] = 1 /\ rows'[c].st = "delivered"
      BY DEF AcceptInv
    <3>1. \A q \in Drainer : pc[q] = "mark" => q = p
      BY DEF AloneInv
    <3>2. QED
      BY <3>1 DEF AcceptInv, TypeOK, Row
  <2>7. QED
    BY <2>1, <2>3, <2>4, <2>5, <2>6
<1>4. QED
  BY <1>2, <1>3 DEF MarkDelivered

(* What Retry writes has been tried; only the drainer's own row changes.                    *)
LEMMA RetryKeeps == ASSUME DeliveryInv, NEW p \in Drainer, Retry(p) PROVE DeliveryInv'
<1> USE Bounds DEF DeliveryInv
<1> DEFINE d == cur[p]
           n == seen[p][d] + 1
           row == [st |-> IF n >= MaxAttempts THEN "failed" ELSE "pending",
                   attempts |-> n, due |-> FALSE]
<1>1. d \in Delivery \ list[p] /\ pc[p] = "retry"
  BY DEF Retry, LocalInv
<1>2. rows' = [rows EXCEPT ![d] = row] /\ NextRow(p)
      /\ UNCHANGED <<lock, rotation, list, tries, accepted, events, faults>>
  BY DEF Retry, history
<1>3. n \in 1 .. MaxAttempts /\ n <= tries[d] /\ tries[d] \in 0 .. MaxAttempts
  BY <1>1 DEF TypeOK, LocalInv, CountInv
<1>4. row \in Row
  BY <1>3 DEF Row
<1> HIDE DEF n
<1>5. \A q \in Drainer, c \in Delivery :
        seen'[q][c] = IF q = p /\ c = d THEN 0 ELSE seen[q][c]
  BY <1>1, <1>2 DEF NextRow, TypeOK
<1>6. \A c \in Delivery : rows'[c] = IF c = d THEN row ELSE rows[c]
  BY <1>1, <1>2 DEF TypeOK
<1>7. \A q \in Drainer : IF q = p THEN pc'[q] = "next" /\ cur'[q] = None
                                    ELSE pc'[q] = pc[q] /\ cur'[q] = cur[q]
  BY <1>2 DEF NextRow, GoTo, TypeOK
<1>8. TypeOK'
  <2>1. seen' \in [Drainer -> [Delivery -> 0 .. MaxAttempts]]
    BY <1>1, <1>2 DEF NextRow, TypeOK
  <2>2. rows' \in [Delivery -> Row]
    BY <1>2, <1>4 DEF TypeOK
  <2>3. QED
    BY <2>1, <2>2, <1>2 DEF NextRow, GoTo, TypeOK
<1>9. LocalInv'
  <2>1. \A q \in Drainer, c \in Delivery : seen'[q][c] < MaxAttempts
    BY <1>5 DEF LocalInv
  <2>2. \A c \in Delivery : rows'[c].st = "pending" => rows'[c].attempts < MaxAttempts
    BY <1>3, <1>6 DEF LocalInv
  <2>3. QED
    BY <1>2, <1>7, <2>1, <2>2 DEF LocalInv
<1>10. CountInv'
  <2>1. \A c \in Delivery : rows'[c].attempts <= tries[c]
    BY <1>3, <1>6 DEF CountInv
  <2>2. \A q \in Drainer, c \in Delivery : seen'[q][c] <= tries[c]
    BY <1>5 DEF CountInv, TypeOK
  <2>3. \A q \in Drainer : pc'[q] \in {"mark", "retry"} => seen'[q][cur'[q]] < tries[cur'[q]]
    BY <1>5, <1>7 DEF CountInv, LocalInv
  <2>4. \A c \in Delivery : rows'[c].st = "failed" => tries[c] = MaxAttempts
    BY <1>3, <1>6 DEF CountInv, NotGivenUpEarly
  <2>5. QED
    BY <1>2, <2>1, <2>2, <2>3, <2>4 DEF CountInv, NotGivenUpEarly
<1>11. AloneInv'
  <2> SUFFICES ASSUME "overlap" \notin events PROVE AloneInv'
    BY <1>2 DEF AloneInv
  <2>1. \A q \in Drainer : pc[q] # "idle" => q = p
    BY <1>1 DEF AloneInv
  <2>2. \A q \in Drainer : q # p => pc[q] = "idle" /\ list[q] = {}
    BY <2>1 DEF LocalInv
  <2>3. \A c \in list[p] : rows'[c].st = "pending"
    BY <1>1, <1>6 DEF AloneInv, TypeOK
  <2>4. QED
    BY <1>1, <1>2, <1>7, <2>2, <2>3 DEF AloneInv, Drainer
<1>12. AcceptInv'
  <2> SUFFICES ASSUME events = {}, NEW c \in Delivery, accepted[c] # 0
               PROVE  accepted[c] = 1 /\ rows'[c].st = "delivered"
    BY <1>2 DEF AcceptInv
  <2>1. \A q \in Drainer : pc[q] # "mark"
    BY <1>1 DEF AloneInv
  <2>2. accepted[c] = 1 /\ rows[c].st = "delivered"
    BY <2>1 DEF AcceptInv
  <2>3. rows[d].st = "pending"
    BY <1>1 DEF AloneInv
  <2>4. QED
    BY <2>2, <2>3, <1>6
<1>13. QED
  BY <1>8, <1>9, <1>10, <1>11, <1>12

LEMMA RebootKeeps == ASSUME DeliveryInv, NEW n \in Node, Reboot(n) PROVE DeliveryInv'
<1> USE DEF DeliveryInv, Reboot, locals, history
<1>1. TypeOK'
  BY DEF TypeOK
<1>2. LocalInv' /\ CountInv' /\ AcceptInv'
  BY DEF LocalInv, CountInv, NotGivenUpEarly, AcceptInv
<1>3. AloneInv'
  BY DEF AloneInv
<1>4. QED
  BY <1>1, <1>2, <1>3

LEMMA LoseLockKeeps == ASSUME DeliveryInv, NEW n \in Node, LoseLock(n) PROVE DeliveryInv'
<1> USE DEF DeliveryInv, LoseLock, locals
<1>1. TypeOK'
  BY DEF TypeOK
<1>2. LocalInv' /\ CountInv'
  BY DEF LocalInv, CountInv, NotGivenUpEarly
<1>3. "overlap" \in events'
  OBVIOUS
<1>4. AloneInv' /\ AcceptInv'
  BY <1>3 DEF AloneInv, AcceptInv
<1>5. QED
  BY <1>1, <1>2, <1>4

LEMMA StepKeeps == DeliveryInv /\ [Next]_vars => DeliveryInv'
<1> SUFFICES ASSUME DeliveryInv, [Next]_vars PROVE DeliveryInv'
  OBVIOUS
<1>1. CASE UNCHANGED vars
  <2> USE <1>1 DEF vars, DeliveryInv
  <2>1. TypeOK' /\ LocalInv'
    BY DEF TypeOK, LocalInv
  <2>2. CountInv' /\ AloneInv' /\ AcceptInv'
    BY DEF CountInv, NotGivenUpEarly, AloneInv, AcceptInv
  <2>3. QED
    BY <2>1, <2>2
<1>2. ASSUME NEW d \in Delivery, Enqueue(d) \/ Elapse(d) PROVE DeliveryInv'
  BY <1>2, EnqueueKeeps, ElapseKeeps
<1>3. ASSUME NEW n \in Node, Tick(n) \/ LoseLock(n) \/ Reboot(n) PROVE DeliveryInv'
  BY <1>3, TickKeeps, LoseLockKeeps, RebootKeeps
<1>4. ASSUME NEW a \in Admin, Maintain(a) PROVE DeliveryInv'
  BY <1>4, MaintainKeeps
<1>5. ASSUME NEW p \in Drainer, Step(p) PROVE DeliveryInv'
  BY <1>5, RotateKeeps, SelectKeeps, PostKeeps, MarkDeliveredKeeps, RetryKeeps, FinishKeeps
     DEF Step
<1>6. ASSUME NEW p \in Drainer, Abort(p) PROVE DeliveryInv'
  BY <1>6, AbortKeeps
<1>7. QED
  BY <1>1, <1>2, <1>3, <1>4, <1>5, <1>6 DEF Next

LEMMA DeliveryInvHolds == Spec => []DeliveryInv
  BY InitHolds, StepKeeps, PTL DEF Spec

--------------------------------------------------------------------------------
(* Rows and drainers are always of their types.                                          *)
THEOREM DeliveryTypesCorrect == Spec => []TypeOK
<1>1. DeliveryInv => TypeOK
  BY DEF DeliveryInv
<1>2. QED
  BY <1>1, DeliveryInvHolds, PTL

(* A logout is given up only after MAX_ATTEMPTS tries, also when drainers overlap, lose     *)
(* the lock, die or write over each other's counts (backchannel-logout.service.ts:99-104).   *)
THEOREM NotGivenUpEarlyTheorem == Spec => []NotGivenUpEarly
<1>1. DeliveryInv => NotGivenUpEarly
  BY DEF DeliveryInv, CountInv
<1>2. QED
  BY <1>1, DeliveryInvHolds, PTL

(* The scheduler's lock is enough to have each logout accepted at most once when nothing    *)
(* fails and no answer is late (scheduler.ts:36-43).                                         *)
THEOREM AcceptedOnceTheorem == Spec => []AcceptedOnce
<1>1. DeliveryInv => AcceptedOnce
  BY DEF DeliveryInv, AcceptInv, AcceptedOnce
<1>2. QED
  BY <1>1, DeliveryInvHolds, PTL

(* Until drainers overlap, a row that was delivered or given up is never tried or written    *)
(* again, whatever else fails.                                                               *)
THEOREM SettledIsFinalTheorem == Spec => SettledIsFinal
<1> DEFINE Settled(d) == rows[d].st \in {"delivered", "failed"} /\ "overlap" \notin events
           Final == \A d \in Delivery : Settled(d) => rows'[d] = rows[d] /\ tries'[d] = tries[d]
<1>1. ASSUME DeliveryInv, [Next]_vars PROVE Final
  <2> SUFFICES ASSUME NEW d \in Delivery, Settled(d)
               PROVE  rows'[d] = rows[d] /\ tries'[d] = tries[d]
    OBVIOUS
  <2> USE <1>1 DEF DeliveryInv
  <2>1. CASE UNCHANGED <<rows, tries>>
    BY <2>1
  <2>2. ASSUME NEW c \in Delivery, Enqueue(c) \/ Elapse(c) PROVE rows'[d] = rows[d] /\ tries' = tries
    BY <2>2 DEF Enqueue, Elapse, history, TypeOK
  <2>3. ASSUME NEW p \in Drainer, Post(p) PROVE rows'[d] = rows[d] /\ tries'[d] = tries[d]
    BY <2>3 DEF Post, table, AloneInv, TypeOK
  <2>4. ASSUME NEW p \in Drainer, MarkDelivered(p) PROVE rows'[d] = rows[d] /\ tries' = tries
    BY <2>4 DEF MarkDelivered, AloneInv, TypeOK
  <2>5. ASSUME NEW p \in Drainer, Retry(p) PROVE rows'[d] = rows[d] /\ tries' = tries
    BY <2>5 DEF Retry, history, AloneInv, TypeOK
  <2>6. ASSUME NEW p \in Drainer, Rotate(p) \/ Select(p) \/ Finish(p) \/ Abort(p)
        PROVE  UNCHANGED <<rows, tries>>
    BY <2>6 DEF Rotate, Select, Finish, Abort, table, history
  <2>7. ASSUME NEW n \in Node, Tick(n) \/ LoseLock(n) \/ Reboot(n)
        PROVE  UNCHANGED <<rows, tries>>
    BY <2>7 DEF Tick, LoseLock, Reboot, history
  <2>8. ASSUME NEW a \in Admin, Maintain(a) PROVE UNCHANGED <<rows, tries>>
    BY <2>8 DEF Maintain, table
  <2>9. CASE UNCHANGED vars
    BY <2>9 DEF vars
  <2>10. QED
    BY <2>2, <2>3, <2>4, <2>5, <2>6, <2>7, <2>8, <2>9 DEF Next, Step
<1>2. DeliveryInv /\ [Next]_vars => [Final]_vars
  BY <1>1
<1>3. QED
  BY <1>2, DeliveryInvHolds, PTL DEF Spec, SettledIsFinal
============================================================================
