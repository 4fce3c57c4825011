----------------------------- MODULE ServicesProofs -----------------------------
(* Proofs about the health rules (Operations) and about the composition MCServices: what *)
(* each component promises holds of every behaviour of the nine.                          *)
EXTENDS MCServices, AccountProofs, AccessProofs

--------------------------------------------------------------------------------
(* Operations.                                                                       *)

(* What a tick and the memory of a rule are made of.                                          *)
Log == [count : Nat, lastAt : 0..MaxClock, windowStart : 0..MaxClock, kept : BOOLEAN]
AlertRow == [why : Event \cup Rule, node : Node, at : 0..MaxClock]
TickStep == {"idle", "degraded", "rule", "alert", "log", "failed", "end"}
TickRow == [at : TickStep, node : Node \cup {"none"}, failing : SUBSET Rule,
            left : 0..Len(Rules), event : Event \cup {"none"}]
OpsRows ==
  /\ opsCase \in OpsCases
  /\ clock \in 0..MaxClock
  /\ alerts \in Seq(AlertRow) /\ \A i \in DOMAIN alerts : alerts[i].at <= clock
  /\ recent \in [Node -> 0..AlertLimit]
  /\ emitted \in [Event -> [at : {"no", "local", "stream", "end"}, node : Node \cup {"none"}]]
  /\ \A e \in Event : emitted[e].at # "no" => emitted[e].node \in Node
  /\ execution \in [Node -> [Rule -> Log]]
  /\ tick \in [Tick -> TickRow]
  /\ \A t \in Tick : /\ tick[t].at # "idle" => tick[t].node \in Node
                     /\ tick[t].at \in {"alert", "log", "failed"} => tick[t].left > 0
  /\ excused \subseteq Node \X Rule

(* An event that went to the stream was handled where it was emitted, and only there.         *)
EventInv(e) ==
  /\ emitted[e].at \in {"no", "local"} => \A i \in DOMAIN alerts : alerts[i].why # e
  /\ emitted[e].at = "stream" =>
       /\ \A i \in DOMAIN alerts : alerts[i].why = e => alerts[i].node = emitted[e].node
       /\ \A i, j \in DOMAIN alerts : alerts[i].why = e /\ alerts[j].why = e => i = j
  /\ \A i, j \in DOMAIN alerts :
       alerts[i].why = e /\ alerts[j].why = e /\ alerts[i].node = alerts[j].node => i = j
  /\ \E k, l \in Nat : \A i \in DOMAIN alerts : alerts[i].why = e => i \in {k, l}

Busy(n, r) == {t \in Tick : tick[t].at \in {"alert", "log"} /\ tick[t].node = n /\ RuleOf(t) = r}
Logging(n, r) == {t \in Busy(n, r) : tick[t].at = "log"}
Counted(n, r) == {i \in AlertsOf(r, n) : alerts[i].at >= execution[n][r].windowStart}

(* The memory of a rule that no overlap has excused: every alert but the one whose row is     *)
(* being logged is in it, and what is being executed was allowed by it.                       *)
MemoryInv(n, r) ==
  /\ \A t, u \in Busy(n, r) : t = u
  /\ \A i, j \in AlertsOf(r, n) : i < j => alerts[j].at >= alerts[i].at + Cooldown
  /\ \A i \in AlertsOf(r, n) :
       \/ execution[n][r].kept /\ alerts[i].at <= execution[n][r].lastAt
       \/ Logging(n, r) # {} /\ \A j \in AlertsOf(r, n) : j <= i
  /\ execution[n][r].kept =>
       /\ execution[n][r].lastAt <= execution[n][r].windowStart + Window
       /\ execution[n][r].lastAt <= clock
       /\ 1 <= MaxExecutions /\ execution[n][r].count <= MaxExecutions
       /\ Cardinality(Counted(n, r)) <= execution[n][r].count + (IF Logging(n, r) = {} THEN 0 ELSE 1)
  /\ \A t \in Busy(n, r) :
       /\ execution[n][r].count < MaxExecutions
       /\ t \notin Logging(n, r) /\ execution[n][r].kept => execution[n][r].lastAt + Cooldown <= clock

OpsInv ==
  /\ OpsRows
  /\ \A e \in Event : EventInv(e)
  /\ \A n \in Node, r \in Rule : <<n, r>> \notin excused => MemoryInv(n, r)

LEMMA TickFacts ==
  ASSUME OpsRows, NEW t \in Tick
  PROVE  /\ tick[t] \in TickRow /\ tick[t].at \in TickStep /\ tick[t].left \in 0..Len(Rules)
         /\ Len(Rules) \in Nat
         /\ tick[t].at # "idle" => tick[t].node \in Node
         /\ tick[t].left > 0 => RuleOf(t) \in Rule
         /\ tick[t].at \in {"alert", "log", "failed"} => tick[t].left > 0 /\ RuleOf(t) \in Rule
<1>1. tick[t] \in TickRow /\ tick[t].at \in TickStep /\ tick[t].left \in 0..Len(Rules)
  BY DEF OpsRows, TickRow
<1>2. Len(Rules) \in Nat /\ \A i \in 1..Len(Rules) : Rules[i] \in Rule
  BY RulesAssumption, LenProperties, ElementOfSeq DEF Rule
<1>3. tick[t].left > 0 => RuleOf(t) \in Rule
  BY <1>1, <1>2 DEF RuleOf
<1>4. QED
  BY <1>1, <1>2, <1>3 DEF OpsRows

(* Nobody's execution begins or ends.                                                         *)
LEMMA BusySame ==
  ASSUME NEW n, NEW r,
         \A t \in Tick : \/ tick'[t] = tick[t]
                         \/ /\ tick[t].at \notin {"alert", "log"}
                            /\ tick'[t].at \notin {"alert", "log"}
  PROVE  Busy(n, r)' = Busy(n, r) /\ Logging(n, r)' = Logging(n, r)
<1>1. ASSUME NEW t \in Tick PROVE t \in Busy(n, r)' <=> t \in Busy(n, r)
  BY DEF Busy, RuleOf
<1>2. Busy(n, r)' = Busy(n, r)
  BY <1>1 DEF Busy
<1>3. \A t \in Busy(n, r) : tick'[t] = tick[t]
  BY DEF Busy
<1>4. QED
  BY <1>2, <1>3 DEF Logging

(* Nor anything else the memory of a rule depends on; time may pass.                          *)
LEMMA MemoryKept ==
  ASSUME OpsRows, NEW n \in Node, NEW r \in Rule, MemoryInv(n, r),
         execution'[n][r] = execution[n][r],
         Busy(n, r)' = Busy(n, r), Logging(n, r)' = Logging(n, r),
         AlertsOf(r, n)' = AlertsOf(r, n),
         \A i \in AlertsOf(r, n) : alerts'[i] = alerts[i],
         clock' \in Nat, clock <= clock'
  PROVE  MemoryInv(n, r)'
<1>1. execution[n][r] \in Log /\ clock \in Nat
  BY DEF OpsRows
<1>2. Counted(n, r)' = Counted(n, r)
  BY DEF Counted
<1>3. (\A t, u \in Busy(n, r) : t = u)'
  BY DEF MemoryInv
<1>4. (\A i, j \in AlertsOf(r, n) : i < j => alerts[j].at >= alerts[i].at + Cooldown)'
  BY DEF MemoryInv
<1>5. (\A i \in AlertsOf(r, n) :
         \/ execution[n][r].kept /\ alerts[i].at <= execution[n][r].lastAt
         \/ Logging(n, r) # {} /\ \A j \in AlertsOf(r, n) : j <= i)'
  BY DEF MemoryInv
<1>6. execution'[n][r].kept =>
        /\ execution'[n][r].lastAt <= execution'[n][r].windowStart + Window
        /\ execution'[n][r].lastAt <= clock'
        /\ 1 <= MaxExecutions /\ execution'[n][r].count <= MaxExecutions
        /\ Cardinality(Counted(n, r)') <= execution'[n][r].count + (IF Logging(n, r)' = {} THEN 0 ELSE 1)
  <2>1. execution[n][r].kept => execution[n][r].lastAt <= clock /\ execution[n][r].lastAt \in Nat
    BY <1>1 DEF MemoryInv, Log
  <2>2. QED
    BY <1>1, <1>2, <2>1 DEF MemoryInv
<1>7. \A t \in Busy(n, r)' :
        /\ execution'[n][r].count < MaxExecutions
        /\ t \notin Logging(n, r)' /\ execution'[n][r].kept => execution'[n][r].lastAt + Cooldown <= clock'
  <2>1. execution[n][r].lastAt \in Nat
    BY <1>1 DEF Log
  <2>2. QED
    BY <1>1, <2>1, LimitAssumption DEF MemoryInv
<1>8. QED
  BY <1>3, <1>4, <1>5, <1>6, <1>7 DEF MemoryInv

(* createAlert: one more row of its own, or none.                                             *)
LEMMA AlertRaised ==
  ASSUME OpsRows, NEW w \in Event \cup Rule, NEW m \in Node, CreateAlert(w, m)
  PROVE  /\ recent' \in [Node -> 0..AlertLimit]
         /\ \/ alerts' = alerts
            \/ /\ alerts' = Append(alerts, [why |-> w, node |-> m, at |-> clock])
               /\ recent' # recent
<1>1. AlertLimit \in Nat /\ recent \in [Node -> 0..AlertLimit]
  BY LimitAssumption DEF OpsRows
<1>2. CASE recent[m] >= AlertLimit
  BY <1>1, <1>2 DEF CreateAlert
<1>3. CASE ~(recent[m] >= AlertLimit)
  <2>1. recent' = [recent EXCEPT ![m] = @ + 1]
    BY <1>3 DEF CreateAlert
  <2>2. recent'[m] = recent[m] + 1 /\ recent[m] \in 0..AlertLimit
    BY <1>1, <2>1
  <2>3. recent' \in [Node -> 0..AlertLimit]
    BY <1>1, <1>3, <2>1, <2>2
  <2>4. recent' # recent
    BY <2>2
  <2>5. QED
    BY <1>3, <2>3, <2>4 DEF CreateAlert
<1>4. QED
  BY <1>2, <1>3

LEMMA OneMoreAlert ==
  ASSUME OpsRows, NEW w \in Event \cup Rule, NEW m \in Node,
         alerts' = Append(alerts, [why |-> w, node |-> m, at |-> clock])
  PROVE  /\ alerts' \in Seq(AlertRow) /\ Len(alerts) \in Nat /\ DOMAIN alerts = 1..Len(alerts)
         /\ DOMAIN alerts' = DOMAIN alerts \cup {Len(alerts) + 1}
         /\ \A i \in DOMAIN alerts : alerts'[i] = alerts[i] /\ i <= Len(alerts)
         /\ alerts'[Len(alerts) + 1].why = w /\ alerts'[Len(alerts) + 1].node = m
         /\ alerts'[Len(alerts) + 1].at = clock
<1> DEFINE row == [why |-> w, node |-> m, at |-> clock]
<1>1. row \in AlertRow /\ row.why = w /\ row.node = m /\ row.at = clock
  BY DEF OpsRows, AlertRow
<1> HIDE DEF row
<1>2. alerts \in Seq(AlertRow) /\ alerts' = Append(alerts, row)
  BY DEF OpsRows, row
<1>3. /\ alerts' \in Seq(AlertRow) /\ Len(alerts') = Len(alerts) + 1
      /\ \A i \in 1..Len(alerts) : alerts'[i] = alerts[i]
      /\ alerts'[Len(alerts) + 1] = row
  BY <1>1, <1>2, AppendProperties
<1>4. DOMAIN alerts' = 1..Len(alerts') /\ DOMAIN alerts = 1..Len(alerts) /\ Len(alerts) \in Nat
  BY <1>2, <1>3, LenProperties
<1>5. QED
  BY <1>1, <1>3, <1>4

LEMMA AlertsFinite ==
  ASSUME OpsRows, NEW n, NEW r
  PROVE  /\ IsFiniteSet(DOMAIN alerts) /\ DOMAIN alerts = 1..Len(alerts) /\ Len(alerts) \in Nat
         /\ IsFiniteSet(AlertsOf(r, n)) /\ IsFiniteSet(Counted(n, r))
         /\ Cardinality(Counted(n, r)) \in Nat
<1>1. DOMAIN alerts = 1..Len(alerts) /\ Len(alerts) \in Nat
  BY LenProperties DEF OpsRows
<1>2. IsFiniteSet(DOMAIN alerts)
  BY <1>1, FS_Interval
<1>3. AlertsOf(r, n) \in SUBSET DOMAIN alerts /\ Counted(n, r) \in SUBSET DOMAIN alerts
  BY DEF AlertsOf, Counted
<1>4. QED
  BY <1>1, <1>2, <1>3, FS_Subset, FS_CardinalityType

(* An event's promise stays while its alerts and how far it is stay.                          *)
LEMMA EventKept ==
  ASSUME OpsRows, NEW e \in Event, EventInv(e),
         \/ emitted'[e] = emitted[e]
         \/ emitted[e].at = "no" /\ emitted'[e].at = "local"
         \/ /\ emitted[e].at \in {"local", "stream"}
            /\ emitted'[e].at = "end",
         \/ alerts' = alerts
         \/ \E w \in Event \cup Rule, m \in Node :
               w # e /\ alerts' = Append(alerts, [why |-> w, node |-> m, at |-> clock])
  PROVE  EventInv(e)'
<1>1. /\ \A i \in DOMAIN alerts' : alerts'[i].why = e => i \in DOMAIN alerts /\ alerts'[i] = alerts[i]
  <2>1. CASE alerts' = alerts
    BY <2>1
  <2>2. ASSUME NEW w \in Event \cup Rule, NEW m \in Node, w # e,
               alerts' = Append(alerts, [why |-> w, node |-> m, at |-> clock])
        PROVE  \A i \in DOMAIN alerts' : alerts'[i].why = e => i \in DOMAIN alerts /\ alerts'[i] = alerts[i]
    BY <2>2, OneMoreAlert
  <2>3. QED
    BY <2>1, <2>2
<1>2. (\E k, l \in Nat : \A i \in DOMAIN alerts : alerts[i].why = e => i \in {k, l})'
  BY <1>1 DEF EventInv
<1>3. (\A i, j \in DOMAIN alerts :
         alerts[i].why = e /\ alerts[j].why = e /\ alerts[i].node = alerts[j].node => i = j)'
  BY <1>1 DEF EventInv
<1>4. (emitted[e].at \in {"no", "local"} => \A i \in DOMAIN alerts : alerts[i].why # e)'
  BY <1>1 DEF EventInv
<1>5. (emitted[e].at = "stream" =>
       /\ \A i \in DOMAIN alerts : alerts[i].why = e => alerts[i].node = emitted[e].node
       /\ \A i, j \in DOMAIN alerts : alerts[i].why = e /\ alerts[j].why = e => i = j)'
  BY <1>1 DEF EventInv
<1>6. QED
  BY <1>2, <1>3, <1>4, <1>5 DEF EventInv

(* Every event keeps its promise, and so does every memory, when no alert is stored, no       *)
(* execution begins or ends and nothing is logged.                                            *)
LEMMA QuietStep ==
  ASSUME OpsInv, OpsRows',
         UNCHANGED <<alerts, execution, excused>>, clock <= clock',
         \A t \in Tick : \/ tick'[t] = tick[t]
                         \/ /\ tick[t].at \notin {"alert", "log"}
                            /\ tick'[t].at \notin {"alert", "log"},
         \A e \in Event : \/ emitted'[e] = emitted[e]
                          \/ emitted[e].at = "no" /\ emitted'[e].at = "local"
  PROVE  OpsInv'
<1>1. ASSUME NEW e \in Event PROVE EventInv(e)'
  BY EventKept DEF OpsInv
<1>2. ASSUME NEW n \in Node, NEW r \in Rule, <<n, r>> \notin excused' PROVE MemoryInv(n, r)'
  <2>1. MemoryInv(n, r) /\ AlertsOf(r, n)' = AlertsOf(r, n)
    BY <1>2 DEF OpsInv, AlertsOf
  <2>2. Busy(n, r)' = Busy(n, r) /\ Logging(n, r)' = Logging(n, r)
    BY BusySame
  <2>3. clock' \in Nat
    BY LimitAssumption DEF OpsRows
  <2>4. QED
    BY <2>1, <2>2, <2>3, MemoryKept DEF OpsInv
<1>3. QED
  BY <1>1, <1>2 DEF OpsInv

LEMMA EmitKeeps ==
  ASSUME OpsInv, NEW e \in Event, NEW n \in Node, Emit(e, n)
  PROVE  OpsInv'
<1> DEFINE row == [emitted[e] EXCEPT !.at = "local", !.node = n]
<1>1. /\ OpsRows /\ emitted[e].at = "no" /\ clock \in 0..MaxClock
      /\ emitted \in [Event -> [at : {"no", "local", "stream", "end"}, node : Node \cup {"none"}]]
      /\ UNCHANGED <<opsCase, clock, alerts, recent, execution, tick, excused>>
  BY DEF OpsInv, OpsRows, Emit
<1>2. /\ row \in [at : {"no", "local", "stream", "end"}, node : Node \cup {"none"}]
      /\ row.at = "local" /\ row.node = n
  BY <1>1
<1>3. emitted' = [emitted EXCEPT ![e] = row]
  BY <1>1 DEF Emit
<1> HIDE DEF row
<1>4. /\ emitted' \in [Event -> [at : {"no", "local", "stream", "end"}, node : Node \cup {"none"}]]
      /\ emitted'[e] = row /\ \A d \in Event : d # e => emitted'[d] = emitted[d]
  BY <1>1, <1>2, <1>3
<1>5. OpsRows'
  BY <1>1, <1>2, <1>4 DEF OpsRows
<1>6. QED
  BY <1>1, <1>2, <1>4, <1>5, LimitAssumption, QuietStep

(* An event is handled on one more replica and goes on its way.                               *)
LEMMA EventHandled ==
  ASSUME OpsInv, NEW e \in Event, NEW m \in Node, NEW step \in {"stream", "end"},
         emitted[e].at # "no", EventTo(e, step),
         alerts' = alerts \/ alerts' = Append(alerts, [why |-> e, node |-> m, at |-> clock]),
         recent' \in [Node -> 0..AlertLimit],
         UNCHANGED <<opsCase, clock, execution, tick, excused>>,
         EventInv(e)'
  PROVE  OpsInv'
<1> DEFINE row == [emitted[e] EXCEPT !.at = step]
<1>1. /\ OpsRows /\ clock \in 0..MaxClock
      /\ emitted \in [Event -> [at : {"no", "local", "stream", "end"}, node : Node \cup {"none"}]]
      /\ emitted[e].node \in Node
  BY DEF OpsInv, OpsRows
<1>2. /\ row \in [at : {"no", "local", "stream", "end"}, node : Node \cup {"none"}]
      /\ row.at = step /\ row.node = emitted[e].node
  BY <1>1
<1>3. emitted' = [emitted EXCEPT ![e] = row]
  BY <1>1 DEF EventTo
<1> HIDE DEF row
<1>4. /\ emitted' \in [Event -> [at : {"no", "local", "stream", "end"}, node : Node \cup {"none"}]]
      /\ emitted'[e] = row /\ \A d \in Event : d # e => emitted'[d] = emitted[d]
  BY <1>1, <1>2, <1>3
<1>5. alerts' \in Seq(AlertRow) /\ \A i \in DOMAIN alerts' : alerts'[i].at <= clock'
  <2>1. CASE alerts' = alerts
    BY <2>1 DEF OpsInv, OpsRows
  <2>2. CASE alerts' = Append(alerts, [why |-> e, node |-> m, at |-> clock])
    <3>1. \A i \in DOMAIN alerts : alerts[i].at <= clock
      BY <1>1 DEF OpsRows
    <3>2. /\ alerts' \in Seq(AlertRow) /\ DOMAIN alerts' = DOMAIN alerts \cup {Len(alerts) + 1}
          /\ \A i \in DOMAIN alerts : alerts'[i] = alerts[i]
          /\ alerts'[Len(alerts) + 1].at = clock
      BY <1>1, <2>2, OneMoreAlert
    <3>3. QED
      BY <1>1, <3>1, <3>2
  <2>3. QED
    BY <2>1, <2>2
<1>6. OpsRows'
  BY <1>1, <1>2, <1>4, <1>5 DEF OpsRows
<1>7. ASSUME NEW d \in Event PROVE EventInv(d)'
  <2>1. CASE d # e
    BY <1>1, <1>4, <2>1, EventKept DEF OpsInv
  <2>2. QED
    BY <2>1
<1>8. ASSUME NEW n \in Node, NEW r \in Rule, <<n, r>> \notin excused' PROVE MemoryInv(n, r)'
  <2>1. MemoryInv(n, r)
    BY <1>8 DEF OpsInv
  <2>2. Busy(n, r)' = Busy(n, r) /\ Logging(n, r)' = Logging(n, r)
    BY BusySame
  <2>3. AlertsOf(r, n)' = AlertsOf(r, n) /\ \A i \in AlertsOf(r, n) : alerts'[i] = alerts[i]
    <3>1. r # e
      BY RulesAssumption DEF Rule
    <3>2. CASE alerts' = alerts
      BY <3>2 DEF AlertsOf
    <3>3. CASE alerts' = Append(alerts, [why |-> e, node |-> m, at |-> clock])
      <4>1. e \in Event \cup Rule /\ OpsRows /\ m \in Node
        BY <1>1
      <4>2. /\ DOMAIN alerts' = DOMAIN alerts \cup {Len(alerts) + 1}
            /\ \A i \in DOMAIN alerts : alerts'[i] = alerts[i]
            /\ alerts'[Len(alerts) + 1].why = e
        BY <3>3, <4>1, OneMoreAlert
      <4>21. AlertsOf(r, n)' = AlertsOf(r, n)
        BY <3>1, <4>2 DEF AlertsOf
      <4>22. \A i \in AlertsOf(r, n) : alerts'[i] = alerts[i]
        BY <4>2 DEF AlertsOf
      <4>3. QED
        BY <4>21, <4>22
    <3>4. QED
      BY <3>2, <3>3
  <2>4. clock' \in Nat /\ clock <= clock'
    BY <1>1, LimitAssumption
  <2>5. QED
    BY <1>1, <2>1, <2>2, <2>3, <2>4, MemoryKept
<1>9. QED
  BY <1>6, <1>7, <1>8 DEF OpsInv

LEMMA DispatchLocalKeeps ==
  ASSUME OpsInv, NEW e \in Event, DispatchLocal(e)
  PROVE  OpsInv'
<1>1. PICK m \in Node : emitted[e].node = m
  BY DEF OpsInv, OpsRows, DispatchLocal
<1>2. PICK step \in {"stream", "end"} : EventTo(e, step)
  BY DEF DispatchLocal
<1>3. /\ OpsRows /\ EventInv(e) /\ emitted[e].at = "local"
      /\ UNCHANGED <<opsCase, clock, execution, tick, excused>>
      /\ emitted \in [Event -> [at : {"no", "local", "stream", "end"}, node : Node \cup {"none"}]]
  BY DEF OpsInv, OpsRows, DispatchLocal
<1>4. /\ recent' \in [Node -> 0..AlertLimit]
      /\ alerts' = alerts \/ alerts' = Append(alerts, [why |-> e, node |-> m, at |-> clock])
  <2>1. CreateAlert(e, m)
    BY <1>1 DEF DispatchLocal
  <2>2. QED
    BY <1>3, <2>1, AlertRaised
<1>5. emitted'[e].at = step /\ emitted'[e].node = m
  BY <1>1, <1>2, <1>3 DEF EventTo
<1>6. \A i \in DOMAIN alerts : alerts[i].why # e
  BY <1>3 DEF EventInv
<1>7. EventInv(e)'
  <2>1. CASE alerts' = alerts
    BY <1>5, <1>6, <2>1 DEF EventInv
  <2>2. CASE alerts' = Append(alerts, [why |-> e, node |-> m, at |-> clock])
    <3>1. /\ Len(alerts) \in Nat
          /\ \A i \in DOMAIN alerts' : alerts'[i].why = e => i = Len(alerts) + 1
          /\ alerts'[Len(alerts) + 1].node = m
      BY <1>3, <1>6, <2>2, OneMoreAlert
    <3>2. Len(alerts) + 1 \in Nat
      BY <3>1
    <3>3. (\E k, l \in Nat : \A i \in DOMAIN alerts : alerts[i].why = e => i \in {k, l})'
      BY <3>1, <3>2
    <3>4. QED
      BY <1>5, <3>1, <3>3 DEF EventInv
  <2>3. QED
    BY <1>4, <2>1, <2>2
<1>8. QED
  BY <1>2, <1>3, <1>4, <1>7, EventHandled

LEMMA DeliverKeeps ==
  ASSUME OpsInv, NEW e \in Event, NEW n \in Node, Deliver(e, n)
  PROVE  OpsInv'
<1>1. /\ OpsRows /\ EventInv(e) /\ emitted[e].at = "stream" /\ EventTo(e, "end")
      /\ UNCHANGED <<opsCase, clock, execution, tick, excused>>
      /\ emitted \in [Event -> [at : {"no", "local", "stream", "end"}, node : Node \cup {"none"}]]
      /\ recent \in [Node -> 0..AlertLimit]
  BY DEF OpsInv, OpsRows, Deliver
<1>2. /\ recent' \in [Node -> 0..AlertLimit]
      /\ \/ alerts' = alerts
         \/ /\ alerts' = Append(alerts, [why |-> e, node |-> n, at |-> clock])
            /\ n # emitted[e].node
  <2>1. CASE n # emitted[e].node /\ CreateAlert(e, n)
    BY <1>1, <2>1, AlertRaised
  <2>2. CASE UNCHANGED <<alerts, recent>>
    BY <1>1, <2>2
  <2>3. QED
    BY <2>1, <2>2 DEF Deliver
<1>3. emitted'[e].at = "end"
  BY <1>1 DEF EventTo
<1>4. EventInv(e)'
  <2>1. CASE alerts' = alerts
    BY <1>1, <1>3, <2>1 DEF EventInv
  <2>2. CASE /\ alerts' = Append(alerts, [why |-> e, node |-> n, at |-> clock])
             /\ n # emitted[e].node
    <3>1. /\ \A i \in DOMAIN alerts : alerts[i].why = e => alerts[i].node = emitted[e].node
          /\ \A i, j \in DOMAIN alerts : alerts[i].why = e /\ alerts[j].why = e => i = j
      BY <1>1 DEF EventInv
    <3>2. /\ Len(alerts) \in Nat /\ DOMAIN alerts = 1..Len(alerts)
          /\ DOMAIN alerts' = DOMAIN alerts \cup {Len(alerts) + 1}
          /\ \A i \in DOMAIN alerts : alerts'[i] = alerts[i]
          /\ alerts'[Len(alerts) + 1].node = n
      BY <1>1, <2>2, OneMoreAlert
    <3>3. (\A i, j \in DOMAIN alerts :
             alerts[i].why = e /\ alerts[j].why = e /\ alerts[i].node = alerts[j].node => i = j)'
      BY <2>2, <3>1, <3>2
    <3>4. (\E k, l \in Nat : \A i \in DOMAIN alerts : alerts[i].why = e => i \in {k, l})'
      <4>1. CASE \E k \in DOMAIN alerts : alerts[k].why = e
        <5>1. PICK k \in DOMAIN alerts : alerts[k].why = e
          BY <4>1
        <5>2. k \in Nat /\ Len(alerts) + 1 \in Nat
          BY <3>2
        <5>3. \A i \in DOMAIN alerts' : alerts'[i].why = e => i \in {k, Len(alerts) + 1}
          BY <3>1, <3>2, <5>1
        <5>4. QED
          BY <5>2, <5>3
      <4>2. CASE ~\E k \in DOMAIN alerts : alerts[k].why = e
        <5>1. Len(alerts) + 1 \in Nat
          BY <3>2
        <5>2. \A i \in DOMAIN alerts' : alerts'[i].why = e => i \in {Len(alerts) + 1, Len(alerts) + 1}
          BY <3>2, <4>2
        <5>3. QED
          BY <5>1, <5>2
      <4>3. QED
        BY <4>1, <4>2
    <3>5. QED
      BY <1>3, <3>3, <3>4 DEF EventInv
  <2>3. QED
    BY <1>2, <2>1, <2>2
<1>5. QED
  BY <1>1, <1>2, <1>4, EventHandled

(* A tick moves on.                                                                           *)
LEMMA TickMoves ==
  ASSUME OpsRows, NEW t \in Tick, NEW r \in TickRow, tick' = [tick EXCEPT ![t] = r],
         r.at # "idle" => r.node \in Node, r.at \in {"alert", "log", "failed"} => r.left > 0,
         opsCase' = opsCase, clock' = clock,
         alerts' = alerts, recent' = recent, emitted' = emitted,
         execution' \in [Node -> [Rule -> Log]], excused' \subseteq Node \X Rule
  PROVE  /\ OpsRows' /\ tick'[t] = r /\ \A u \in Tick : u # t => tick'[u] = tick[u]
<1>1. tick' \in [Tick -> TickRow] /\ tick'[t] = r /\ \A u \in Tick : u # t => tick'[u] = tick[u]
  BY DEF OpsRows
<1>2. OpsRows'
  BY <1>1 DEF OpsRows
<1>3. QED
  BY <1>1, <1>2

LEMMA BeginTickKeeps ==
  ASSUME OpsInv, NEW t \in Tick, NEW n \in Node, NEW failing \in SUBSET Rule,
         NEW e \in Event \cup {"none"}, BeginTick(t, n, failing, e)
  PROVE  OpsInv'
<1> DEFINE at == IF e = "none" THEN "rule" ELSE "degraded"
           r == [at |-> at, node |-> n, failing |-> failing, left |-> Len(Rules), event |-> e]
<1>1. /\ OpsRows /\ tick[t].at = "idle" /\ clock \in 0..MaxClock
      /\ emitted \in [Event -> [at : {"no", "local", "stream", "end"}, node : Node \cup {"none"}]]
      /\ tick \in [Tick -> TickRow]
      /\ UNCHANGED <<opsCase, clock, alerts, recent, execution, excused>>
      /\ tick' = [tick EXCEPT ![t] = r]
  BY DEF OpsInv, OpsRows, BeginTick
<1>2. at \in {"rule", "degraded"} /\ Len(Rules) \in 0..Len(Rules)
  BY RulesAssumption, LenProperties
<1> HIDE DEF at
<1>3. r \in TickRow /\ r.at = at /\ r.node = n
  BY <1>2 DEF TickRow, TickStep
<1> HIDE DEF r
<1>4. /\ tick' \in [Tick -> TickRow] /\ tick'[t] = r
      /\ \A u \in Tick : u # t => tick'[u] = tick[u]
  BY <1>1, <1>3
<1>5. /\ emitted' \in [Event -> [at : {"no", "local", "stream", "end"}, node : Node \cup {"none"}]]
      /\ \A d \in Event : /\ \/ emitted'[d] = emitted[d]
                             \/ emitted[d].at = "no" /\ emitted'[d].at = "local"
                          /\ emitted'[d].at # "no" => emitted'[d].node \in Node
  <2>0. \A d \in Event : emitted[d].at # "no" => emitted[d].node \in Node
    BY <1>1 DEF OpsRows
  <2>1. CASE e = "none"
    BY <1>1, <2>0, <2>1 DEF BeginTick
  <2>2. CASE e # "none"
    <3> DEFINE row == [emitted[e] EXCEPT !.at = "local", !.node = n]
    <3>1. e \in Event /\ emitted[e].at = "no"
      BY <2>2 DEF BeginTick
    <3>2. /\ row \in [at : {"no", "local", "stream", "end"}, node : Node \cup {"none"}]
          /\ row.at = "local" /\ row.node = n
      BY <1>1, <3>1
    <3>3. emitted' = [emitted EXCEPT ![e] = row]
      BY <1>1, <2>2, <3>1 DEF BeginTick
    <3> HIDE DEF row
    <3>4. /\ emitted' \in [Event -> [at : {"no", "local", "stream", "end"}, node : Node \cup {"none"}]]
          /\ emitted'[e] = row /\ \A d \in Event : d # e => emitted'[d] = emitted[d]
      BY <1>1, <3>1, <3>2, <3>3
    <3>5. QED
      BY <2>0, <3>1, <3>2, <3>4
  <2>3. QED
    BY <2>1, <2>2
<1>6. OpsRows'
  <2>1. \A u \in Tick : /\ tick'[u].at # "idle" => tick'[u].node \in Node
                        /\ tick'[u].at \in {"alert", "log", "failed"} => tick'[u].left > 0
    BY <1>1, <1>2, <1>3, <1>4 DEF OpsRows
  <2>2. QED
    BY <1>1, <1>4, <1>5, <2>1 DEF OpsRows
<1>7. \A u \in Tick : \/ tick'[u] = tick[u]
                      \/ /\ tick[u].at \notin {"alert", "log"}
                         /\ tick'[u].at \notin {"alert", "log"}
  BY <1>1, <1>2, <1>3, <1>4
<1>8. clock <= clock'
  BY <1>1, LimitAssumption
<1>9. QED
  BY <1>1, <1>5, <1>6, <1>7, <1>8, QuietStep

(* A tick that neither begins nor ends an execution.                                          *)
LEMMA QuietTick ==
  ASSUME OpsInv, NEW t \in Tick, NEW r \in TickRow, tick' = [tick EXCEPT ![t] = r],
         tick[t].at \notin {"idle", "alert", "log"}, r.at \in {"rule", "end"}, r.node = tick[t].node,
         UNCHANGED <<opsCase, clock, alerts, recent, emitted, execution, excused>>
  PROVE  OpsInv'
<1>1. /\ OpsRows /\ tick[t].node \in Node /\ execution \in [Node -> [Rule -> Log]]
      /\ excused \subseteq Node \X Rule /\ clock <= clock'
  BY LimitAssumption DEF OpsInv, OpsRows
<1>2. OpsRows' /\ tick'[t] = r /\ \A u \in Tick : u # t => tick'[u] = tick[u]
  BY <1>1, TickMoves
<1>3. QED
  BY <1>1, <1>2, QuietStep

LEMMA AwaitEventKeeps ==
  ASSUME OpsInv, NEW t \in Tick, AwaitEvent(t)
  PROVE  OpsInv'
<1> DEFINE r == [tick[t] EXCEPT !.at = "rule"]
<1>1. tick[t] \in TickRow /\ tick[t].at = "degraded"
  BY DEF OpsInv, OpsRows, AwaitEvent
<1>2. r \in TickRow /\ r.at = "rule" /\ r.node = tick[t].node
  BY <1>1 DEF TickRow, TickStep
<1>3. tick' = [tick EXCEPT ![t] = r]
  BY DEF OpsInv, OpsRows, AwaitEvent, TickTo
<1> HIDE DEF r
<1>4. QED
  BY <1>1, <1>2, <1>3, QuietTick DEF AwaitEvent

LEMMA EndTickKeeps ==
  ASSUME OpsInv, NEW t \in Tick, EndTick(t)
  PROVE  OpsInv'
<1> DEFINE r == [tick[t] EXCEPT !.at = "end", !.failing = {}]
<1>1. tick[t] \in TickRow /\ tick[t].at = "rule"
  BY DEF OpsInv, OpsRows, EndTick
<1>2. r \in TickRow /\ r.at = "end" /\ r.node = tick[t].node
  BY <1>1 DEF TickRow, TickStep
<1>3. tick' = [tick EXCEPT ![t] = r]
  BY DEF OpsInv, OpsRows, EndTick
<1> HIDE DEF r
<1>4. QED
  BY <1>1, <1>2, <1>3, QuietTick DEF EndTick

LEMMA LogFailureKeeps ==
  ASSUME OpsInv, NEW t \in Tick, LogFailure(t)
  PROVE  OpsInv'
<1>1. /\ tick[t] \in TickRow /\ tick[t].at = "failed" /\ tick[t].left > 0
      /\ tick[t].left \in 0..Len(Rules) /\ Len(Rules) \in Nat /\ tick \in [Tick -> TickRow]
  BY TickFacts DEF OpsInv, OpsRows, LogFailure
<1>2. CASE tick' = [tick EXCEPT ![t].at = "rule", ![t].left = @ - 1]
  <2> DEFINE r == [tick[t] EXCEPT !.at = "rule", !.left = @ - 1]
  <2>0. tick[t].left - 1 \in 0..Len(Rules)
    BY <1>1
  <2>1. r \in TickRow /\ r.at = "rule" /\ r.node = tick[t].node
    BY <1>1, <2>0 DEF TickRow, TickStep
  <2>2. tick' = [tick EXCEPT ![t] = r]
    BY <1>1, <1>2
  <2> HIDE DEF r
  <2>3. QED
    BY <1>1, <2>1, <2>2, QuietTick DEF LogFailure
<1>3. CASE tick' = [tick EXCEPT ![t].at = "end", ![t].failing = {}]
  <2> DEFINE r == [tick[t] EXCEPT !.at = "end", !.failing = {}]
  <2>1. r \in TickRow /\ r.at = "end" /\ r.node = tick[t].node
    BY <1>1 DEF TickRow, TickStep
  <2>2. tick' = [tick EXCEPT ![t] = r]
    BY <1>1, <1>3
  <2> HIDE DEF r
  <2>3. QED
    BY <1>1, <2>1, <2>2, QuietTick DEF LogFailure
<1>4. QED
  BY <1>2, <1>3 DEF LogFailure

LEMMA PassTimeKeeps == OpsInv /\ PassTime => OpsInv'
<1> SUFFICES ASSUME OpsInv, PassTime PROVE OpsInv'
  OBVIOUS
<1>1. /\ OpsRows /\ clock \in 0..MaxClock /\ MaxClock \in Nat /\ AlertLimit \in Nat
      /\ clock < MaxClock /\ clock' = clock + 1 /\ recent' = [n \in Node |-> 0]
      /\ UNCHANGED <<opsCase, alerts, emitted, execution, tick, excused>>
  BY LimitAssumption DEF OpsInv, OpsRows, PassTime
<1>2. clock' \in 0..MaxClock /\ clock <= clock' /\ recent' \in [Node -> 0..AlertLimit]
  BY <1>1
<1>3. \A i \in DOMAIN alerts : alerts[i].at <= clock'
  <2>1. \A i \in DOMAIN alerts : alerts[i].at \in Nat
    <3>1. alerts \in Seq(AlertRow)
      BY <1>1 DEF OpsRows
    <3>2. \A i \in DOMAIN alerts : alerts[i] \in AlertRow
      BY <3>1, LenProperties, ElementOfSeq
    <3>3. QED
      BY <1>1, <3>2 DEF AlertRow
  <2>2. \A i \in DOMAIN alerts : alerts[i].at <= clock
    BY <1>1 DEF OpsRows
  <2>3. QED
    BY <1>1, <2>1, <2>2
<1>4. OpsRows'
  BY <1>1, <1>2, <1>3 DEF OpsRows
<1>5. QED
  BY <1>1, <1>2, <1>4, QuietStep

(* Whose execution of which rule is under way after one tick has moved.                       *)
LEMMA BusyMoves ==
  ASSUME OpsRows, NEW t \in Tick, \A u \in Tick : u # t => tick'[u] = tick[u],
         NEW n \in Node, NEW r \in Rule
  PROVE  /\ t \notin Busy(n, r) /\ t \notin Busy(n, r)' =>
              Busy(n, r)' = Busy(n, r) /\ Logging(n, r)' = Logging(n, r)
         /\ Busy(n, r) \subseteq {t} /\ t \in Busy(n, r)' =>
              /\ Busy(n, r)' = {t}
              /\ tick'[t].at = "log" => Logging(n, r)' = {t}
              /\ tick'[t].at # "log" => Logging(n, r)' = {}
         /\ Busy(n, r) \subseteq {t} /\ t \notin Busy(n, r)' =>
              Busy(n, r)' = {} /\ Logging(n, r)' = {}
<1>1. \A u \in Tick : u # t => RuleOf(u)' = RuleOf(u)
  BY DEF RuleOf
<1>2. ASSUME NEW u \in Tick, u # t
      PROVE  /\ u \in Busy(n, r)' <=> u \in Busy(n, r)
             /\ u \in Logging(n, r)' <=> u \in Logging(n, r)
  BY <1>1, <1>2 DEF Busy, Logging
<1>3. /\ Busy(n, r) \subseteq Tick /\ Busy(n, r)' \subseteq Tick
      /\ Logging(n, r) \subseteq Busy(n, r) /\ Logging(n, r)' \subseteq Busy(n, r)'
      /\ t \in Logging(n, r)' <=> (t \in Busy(n, r)' /\ tick'[t].at = "log")
  BY DEF Busy, Logging
<1>4. t \notin Busy(n, r) /\ t \notin Busy(n, r)' =>
        Busy(n, r)' = Busy(n, r) /\ Logging(n, r)' = Logging(n, r)
  BY <1>2, <1>3
<1>5. Busy(n, r) \subseteq {t} /\ t \in Busy(n, r)' => Busy(n, r)' = {t}
  BY <1>2, <1>3
<1>6. Busy(n, r) \subseteq {t} /\ t \in Busy(n, r)' /\ tick'[t].at = "log" => Logging(n, r)' = {t}
  BY <1>2, <1>3, <1>5
<1>7. Busy(n, r) \subseteq {t} /\ t \in Busy(n, r)' /\ tick'[t].at # "log" => Logging(n, r)' = {}
  BY <1>2, <1>3, <1>5
<1>8. Busy(n, r) \subseteq {t} /\ t \notin Busy(n, r)' => Busy(n, r)' = {} /\ Logging(n, r)' = {}
  BY <1>2, <1>3
<1>9. QED
  BY <1>4, <1>5, <1>6, <1>7, <1>8

(* Other rules, and the rule on other replicas, are not concerned by an execution.            *)
LEMMA OtherMemory ==
  ASSUME OpsInv, NEW t \in Tick, \A u \in Tick : u # t => tick'[u] = tick[u],
         NEW n \in Node, NEW r \in Rule, MemoryInv(n, r),
         t \notin Busy(n, r), t \notin Busy(n, r)',
         execution'[n][r] = execution[n][r], clock' = clock,
         AlertsOf(r, n)' = AlertsOf(r, n), \A i \in AlertsOf(r, n) : alerts'[i] = alerts[i]
  PROVE  MemoryInv(n, r)'
<1>1. Busy(n, r)' = Busy(n, r) /\ Logging(n, r)' = Logging(n, r)
  BY BusyMoves DEF OpsInv
<1>2. clock' \in Nat /\ clock <= clock'
  BY LimitAssumption DEF OpsInv, OpsRows
<1>3. QED
  BY <1>1, <1>2, MemoryKept DEF OpsInv

LEMMA DecideRuleKeeps ==
  ASSUME OpsInv, NEW t \in Tick, DecideRule(t)
  PROVE  OpsInv'
<1>1. /\ OpsRows /\ tick[t] \in TickRow /\ tick[t].at = "rule" /\ tick[t].left > 0
      /\ tick[t].left \in 0..Len(Rules) /\ Len(Rules) \in Nat
      /\ tick \in [Tick -> TickRow] /\ clock \in 0..MaxClock
      /\ execution \in [Node -> [Rule -> Log]] /\ excused \subseteq Node \X Rule
      /\ UNCHANGED <<opsCase, clock, alerts, recent, emitted>>
      /\ {Cooldown, Window, MaxExecutions, AlertLimit, MaxClock} \subseteq Nat
  BY TickFacts, LimitAssumption DEF OpsInv, OpsRows, DecideRule
<1>2. PICK n0 \in Node, r0 \in Rule : tick[t].node = n0 /\ RuleOf(t) = r0
  BY <1>1, TickFacts
<1> DEFINE L == execution[n0][r0]
           applies == RuleOf(t) \in tick[t].failing /\ ~InCooldown(t)
           within == WindowOver(t) \/ LogOf(t).count < MaxExecutions
<1>3. L \in Log /\ LogOf(t) = L
  BY <1>1, <1>2 DEF LogOf
<1>4. CASE ~(applies /\ within)
  <2> DEFINE row == [tick[t] EXCEPT !.left = @ - 1]
  <2>1. tick[t].left - 1 \in 0..Len(Rules)
    BY <1>1
  <2>2. row \in TickRow /\ row.at = "rule" /\ row.node = tick[t].node
    BY <1>1, <2>1 DEF TickRow, TickStep
  <2>3. tick' = [tick EXCEPT ![t] = row] /\ execution' = execution /\ excused' = excused
    BY <1>1, <1>4 DEF DecideRule
  <2> HIDE DEF row
  <2>4. QED
    BY <1>1, <2>2, <2>3, QuietTick
<1>5. CASE applies /\ within
  <2> DEFINE row == [tick[t] EXCEPT !.at = "alert"]
             new == IF WindowOver(t) THEN [L EXCEPT !.count = 0, !.windowStart = clock] ELSE L
  <2>1. row \in TickRow /\ row.at = "alert" /\ row.node = n0 /\ row.left = tick[t].left
    BY <1>1, <1>2 DEF TickRow, TickStep
  <2>2. /\ tick' = [tick EXCEPT ![t] = row]
        /\ excused' = IF \E u \in Tick : Executing(t, u) THEN Excuse(t) ELSE excused
    BY <1>1, <1>5 DEF DecideRule, TickTo
  <2>3. /\ new \in Log /\ new.kept = L.kept /\ new.lastAt = L.lastAt
        /\ WindowOver(t) => new.count = 0 /\ new.windowStart = clock
        /\ ~WindowOver(t) => new = L
    BY <1>1, <1>3 DEF Log
  <2>4. /\ execution' \in [Node -> [Rule -> Log]] /\ execution'[n0][r0] = new
        /\ \A n \in Node, r \in Rule : n # n0 \/ r # r0 => execution'[n][r] = execution[n][r]
    <3>1. execution' = [execution EXCEPT ![n0][r0] = new]
      <4>1. CASE WindowOver(t)
        BY <1>1, <1>2, <1>5, <4>1 DEF DecideRule
      <4>2. CASE ~WindowOver(t)
        <5>1. execution' = execution /\ new = execution[n0][r0]
          BY <1>5, <4>2 DEF DecideRule
        <5> HIDE DEF new
        <5>2. QED
          BY <1>1, <5>1
      <4>3. QED
        BY <4>1, <4>2
    <3> HIDE DEF new
    <3>2. QED
      BY <1>1, <2>3, <3>1
  <2>5. excused' \subseteq Node \X Rule /\ excused \subseteq excused'
    BY <1>1, <1>2, <2>2 DEF Excuse
  <2> HIDE DEF row, new
  <2>6. OpsRows' /\ tick'[t] = row /\ \A u \in Tick : u # t => tick'[u] = tick[u]
    BY <1>1, <2>1, <2>2, <2>4, <2>5, TickMoves
  <2>7. RuleOf(t)' = r0
    BY <1>2, <2>1, <2>6 DEF RuleOf
  <2>8. ASSUME NEW e \in Event PROVE EventInv(e)'
    BY <1>1, EventKept DEF OpsInv
  <2>9. ASSUME NEW n \in Node, NEW r \in Rule, <<n, r>> \notin excused' PROVE MemoryInv(n, r)'
    <3>1. MemoryInv(n, r) /\ AlertsOf(r, n)' = AlertsOf(r, n)
      BY <1>1, <2>5, <2>9 DEF OpsInv, AlertsOf
    <3>2. CASE n # n0 \/ r # r0
      <4>1. t \notin Busy(n, r) /\ t \notin Busy(n, r)'
        BY <1>1, <1>2, <2>1, <2>6, <2>7, <3>2 DEF Busy
      <4>2. QED
        BY <1>1, <2>4, <2>6, <3>1, <3>2, <4>1, OtherMemory
    <3>3. CASE n = n0 /\ r = r0
      <4>1. ~\E u \in Tick : Executing(t, u)
        BY <1>2, <2>2, <2>9, <3>3 DEF Excuse
      <4>2. Busy(n0, r0) = {}
        <5>1. t \notin Busy(n0, r0)
          BY <1>1 DEF Busy
        <5>2. \A u \in Busy(n0, r0) : u # t => Executing(t, u)
          BY <1>2 DEF Busy, Executing
        <5>3. QED
          BY <4>1, <5>1, <5>2 DEF Busy
      <4>3. t \in Busy(n0, r0)'
        BY <2>1, <2>6, <2>7 DEF Busy
      <4>4. Busy(n0, r0)' = {t} /\ Logging(n0, r0)' = {} /\ Logging(n0, r0) = {}
        <5>1. OpsRows /\ Busy(n0, r0) \subseteq {t} /\ tick'[t].at = "alert"
          BY <1>1, <2>1, <2>6, <4>2
        <5>2. \A u \in Tick : u # t => tick'[u] = tick[u]
          BY <2>6
        <5>3. Busy(n0, r0)' = {t} /\ Logging(n0, r0)' = {}
          BY <4>3, <5>1, <5>2, BusyMoves
        <5>4. Logging(n0, r0) = {}
          BY <4>2 DEF Logging
        <5>5. QED
          BY <5>3, <5>4
      <4>5. \A i \in AlertsOf(r0, n0) : L.kept /\ alerts[i].at <= L.lastAt
        BY <3>1, <3>3, <4>4 DEF MemoryInv
      <4>6. L.kept => L.lastAt + Cooldown <= clock
        <5>1. ~(L.kept /\ clock - L.lastAt < Cooldown)
          BY <1>3, <1>5 DEF InCooldown
        <5>2. clock \in Int /\ L.lastAt \in Int /\ Cooldown \in Int
          BY <1>1, <1>3 DEF Log
        <5> HIDE DEF L
        <5>3. QED
          BY <5>1, <5>2
      <4>7. L.kept => /\ L.lastAt <= L.windowStart + Window /\ L.lastAt <= clock
                      /\ 1 <= MaxExecutions /\ L.count <= MaxExecutions
                      /\ Cardinality(Counted(n0, r0)) <= L.count
        <5>1. Cardinality(Counted(n0, r0)) \in Nat /\ L.count \in Nat
          BY <1>1, <1>3, AlertsFinite DEF Log
        <5>2. QED
          BY <3>1, <3>3, <4>4, <5>1 DEF MemoryInv
      <4>8. CASE WindowOver(t)
        <5>1. L.kept /\ clock - L.windowStart > Window
          BY <1>3, <4>8 DEF WindowOver
        <5>2. Counted(n0, r0)' = {}
          <6>1. \A i \in AlertsOf(r0, n0) : ~(alerts[i].at >= clock)
            <7>1. \A i \in AlertsOf(r0, n0) : alerts[i].at \in Nat
              <8>1. alerts \in Seq(AlertRow)
                BY <1>1 DEF OpsRows
              <8>2. \A i \in DOMAIN alerts : alerts[i] \in AlertRow
                BY <8>1, LenProperties, ElementOfSeq
              <8>3. QED
                BY <1>1, <8>2 DEF AlertsOf, AlertRow
            <7>2. L.lastAt \in Nat /\ L.windowStart \in Nat /\ clock \in Nat /\ Window \in Nat
              BY <1>1, <1>3 DEF Log
            <7>3. L.lastAt < clock
              <8> HIDE DEF L
              <8>1. QED
                BY <4>7, <5>1, <7>2
            <7>4. QED
              BY <4>5, <7>1, <7>2, <7>3
          <6>2. AlertsOf(r0, n0)' = AlertsOf(r0, n0)
            BY <3>1, <3>3
          <6>3. execution'[n0][r0].windowStart = clock /\ alerts' = alerts
            BY <1>1, <2>3, <2>4, <4>8
          <6>4. QED
            BY <6>1, <6>2, <6>3 DEF Counted
        <5>3. Cardinality(Counted(n0, r0)') = 0
          BY <5>2, FS_EmptySet
        <5>4. /\ new.count = 0 /\ new.windowStart = clock /\ new.lastAt = L.lastAt /\ new.kept = L.kept
              /\ L.lastAt \in Nat /\ clock \in Nat
          BY <1>1, <1>3, <2>3, <4>8 DEF Log
        <5>5. /\ new.lastAt <= new.windowStart + Window /\ new.lastAt <= clock
              /\ 1 <= MaxExecutions /\ new.count <= MaxExecutions /\ new.count < MaxExecutions
              /\ Cardinality(Counted(n0, r0)') <= new.count
          BY <1>1, <4>7, <5>1, <5>3, <5>4
        <5>6. QED
          BY <1>1, <2>4, <3>1, <3>3, <4>4, <4>5, <4>6, <5>4, <5>5 DEF MemoryInv
      <4>9. CASE ~WindowOver(t)
        <5>1. new = L /\ L.count < MaxExecutions
          BY <1>3, <1>5, <2>3, <4>9
        <5>2. Counted(n0, r0)' = Counted(n0, r0)
          BY <1>1, <2>4, <3>1, <3>3, <5>1 DEF Counted
        <5>3. QED
          BY <1>1, <2>4, <3>1, <3>3, <4>4, <4>5, <4>6, <4>7, <5>1, <5>2 DEF MemoryInv
      <4>10. QED
        BY <4>8, <4>9
    <3>4. QED
      BY <3>2, <3>3
  <2>10. QED
    BY <2>6, <2>8, <2>9 DEF OpsInv
<1>6. QED
  BY <1>4, <1>5

LEMMA SendAlertKeeps ==
  ASSUME OpsInv, NEW t \in Tick, SendAlert(t)
  PROVE  OpsInv'
<1>1. /\ OpsRows /\ tick[t] \in TickRow /\ tick[t].at = "alert" /\ tick[t].left > 0
      /\ tick \in [Tick -> TickRow] /\ clock \in 0..MaxClock /\ MaxClock \in Nat /\ Cooldown \in Nat
      /\ execution \in [Node -> [Rule -> Log]] /\ excused \subseteq Node \X Rule
      /\ UNCHANGED <<opsCase, clock, emitted, execution, excused>>
  BY TickFacts, LimitAssumption DEF OpsInv, OpsRows, SendAlert
<1>2. PICK n0 \in Node, r0 \in Rule : tick[t].node = n0 /\ RuleOf(t) = r0
  BY <1>1, TickFacts
<1>3. CreateAlert(r0, n0)
  BY <1>2 DEF SendAlert
<1>4. /\ recent' \in [Node -> 0..AlertLimit]
      /\ \/ alerts' = alerts
         \/ /\ alerts' = Append(alerts, [why |-> r0, node |-> n0, at |-> clock])
            /\ recent' # recent
  BY <1>1, <1>3, AlertRaised
<1> DEFINE step == IF recent' # recent /\ alerts' = alerts THEN "failed" ELSE "log"
<1>5. step \in {"failed", "log"} /\ (alerts' # alerts => step = "log")
  OBVIOUS
<1>6. tick' = [tick EXCEPT ![t].at = step]
  BY DEF SendAlert, TickTo
<1> HIDE DEF step
<1>7. /\ tick' \in [Tick -> TickRow] /\ tick'[t] \in TickRow /\ tick'[t].at = step
      /\ tick'[t].node = n0 /\ tick'[t].left = tick[t].left
      /\ \A u \in Tick : u # t => tick'[u] = tick[u]
  <2> DEFINE row == [tick[t] EXCEPT !.at = step]
  <2>0. step \in TickStep
    BY <1>5 DEF TickStep
  <2>1. row \in TickRow /\ row.at = step /\ row.node = n0 /\ row.left = tick[t].left
    BY <1>1, <1>2, <2>0 DEF TickRow
  <2>2. tick' = [tick EXCEPT ![t] = row]
    BY <1>1, <1>6
  <2> HIDE DEF row
  <2>3. QED
    BY <1>1, <2>1, <2>2
<1>8. /\ alerts' \in Seq(AlertRow) /\ Len(alerts) \in Nat /\ DOMAIN alerts = 1..Len(alerts)
      /\ \A i \in DOMAIN alerts : alerts'[i] = alerts[i] /\ alerts[i].at <= clock /\ alerts[i].at \in Nat
      /\ \/ alerts' = alerts
         \/ /\ DOMAIN alerts' = DOMAIN alerts \cup {Len(alerts) + 1}
            /\ alerts'[Len(alerts) + 1].why = r0 /\ alerts'[Len(alerts) + 1].node = n0
            /\ alerts'[Len(alerts) + 1].at = clock /\ step = "log"
  <2>1. alerts \in Seq(AlertRow) /\ \A i \in DOMAIN alerts : alerts[i].at <= clock
    BY <1>1 DEF OpsRows
  <2>2. /\ DOMAIN alerts = 1..Len(alerts) /\ Len(alerts) \in Nat
        /\ \A i \in DOMAIN alerts : alerts[i] \in AlertRow
    BY <2>1, LenProperties, ElementOfSeq
  <2>3. \A i \in DOMAIN alerts : alerts[i].at \in Nat
    BY <1>1, <2>2 DEF AlertRow
  <2>4. CASE alerts' = alerts
    BY <2>1, <2>2, <2>3, <2>4
  <2>5. CASE /\ alerts' = Append(alerts, [why |-> r0, node |-> n0, at |-> clock])
             /\ recent' # recent
    <3>1. /\ alerts' \in Seq(AlertRow)
          /\ DOMAIN alerts' = DOMAIN alerts \cup {Len(alerts) + 1}
          /\ \A i \in DOMAIN alerts : alerts'[i] = alerts[i]
          /\ alerts'[Len(alerts) + 1].why = r0 /\ alerts'[Len(alerts) + 1].node = n0
          /\ alerts'[Len(alerts) + 1].at = clock
      BY <1>1, <2>5, OneMoreAlert
    <3>2. Len(alerts) + 1 \in DOMAIN alerts' /\ Len(alerts) + 1 \notin DOMAIN alerts
      BY <2>2, <3>1
    <3>3. alerts' # alerts
      <4> SUFFICES ASSUME alerts' = alerts PROVE FALSE
        OBVIOUS
      <4>1. QED
        BY <3>2
    <3>4. step = "log"
      BY <1>5, <3>3
    <3>5. QED
      BY <2>1, <2>2, <2>3, <3>1, <3>4
  <2>6. QED
    BY <1>4, <2>4, <2>5
<1>9. OpsRows'
  <2>1. \A i \in DOMAIN alerts' : alerts'[i].at <= clock'
    BY <1>1, <1>8
  <2>2. \A u \in Tick : /\ tick'[u].at # "idle" => tick'[u].node \in Node
                        /\ tick'[u].at \in {"alert", "log", "failed"} => tick'[u].left > 0
    BY <1>1, <1>7 DEF OpsRows
  <2>3. QED
    BY <1>1, <1>4, <1>7, <1>8, <2>1, <2>2 DEF OpsRows
<1>10. RuleOf(t)' = r0
  BY <1>2, <1>7 DEF RuleOf
<1>11. ASSUME NEW e \in Event PROVE EventInv(e)'
  <2>1. e # r0
    BY RulesAssumption DEF Rule
  <2>2. QED
    BY <1>1, <1>4, <2>1, EventKept DEF OpsInv
<1>12. ASSUME NEW n \in Node, NEW r \in Rule, <<n, r>> \notin excused' PROVE MemoryInv(n, r)'
  <2>1. MemoryInv(n, r)
    BY <1>1, <1>12 DEF OpsInv
  <2>2. CASE n # n0 \/ r # r0
    <3>1. t \notin Busy(n, r) /\ t \notin Busy(n, r)'
      BY <1>1, <1>2, <1>7, <1>10, <2>2 DEF Busy
    <3>2. AlertsOf(r, n)' = AlertsOf(r, n)
      BY <1>8, <2>2 DEF AlertsOf
    <3>3. \A i \in AlertsOf(r, n) : alerts'[i] = alerts[i]
      BY <1>8 DEF AlertsOf
    <3>4. QED
      BY <1>1, <1>7, <2>1, <3>1, <3>2, <3>3, OtherMemory
  <2>3. CASE n = n0 /\ r = r0
    <3> DEFINE L == execution[n0][r0]
               A == AlertsOf(r0, n0)
    <3>1. t \in Busy(n0, r0) /\ t \notin Logging(n0, r0)
      BY <1>1, <1>2 DEF Busy, Logging
    <3>2. Busy(n0, r0) = {t} /\ Logging(n0, r0) = {}
      BY <2>1, <2>3, <3>1 DEF MemoryInv, Logging
    <3>3. L \in Log /\ L.count \in Nat /\ L.lastAt \in Nat /\ L.windowStart \in Nat
      BY <1>1 DEF Log
    <3>4. /\ \A i \in A : L.kept /\ alerts[i].at <= L.lastAt
          /\ \A i, j \in A : i < j => alerts[j].at >= alerts[i].at + Cooldown
          /\ L.count < MaxExecutions
          /\ L.kept => /\ L.lastAt <= L.windowStart + Window /\ L.lastAt <= clock
                       /\ 1 <= MaxExecutions /\ L.count <= MaxExecutions
                       /\ Cardinality(Counted(n0, r0)) <= L.count
                       /\ L.lastAt + Cooldown <= clock
      <4>1. Cardinality(Counted(n0, r0)) \in Nat
        BY <1>1, AlertsFinite
      <4>2. QED
        BY <2>1, <2>3, <3>2, <3>3, <4>1 DEF MemoryInv
    <3>5. A \subseteq DOMAIN alerts
      BY DEF AlertsOf
    <3>6. CASE step = "failed"
      <4>1. alerts' = alerts /\ AlertsOf(r0, n0)' = A
        BY <1>8, <3>6 DEF AlertsOf
      <4>2. t \notin Busy(n0, r0)'
        BY <1>7, <3>6 DEF Busy
      <4>3. Busy(n0, r0)' = {} /\ Logging(n0, r0)' = {}
        BY <1>1, <1>7, <3>2, <4>2, BusyMoves
      <4>4. Counted(n0, r0)' = Counted(n0, r0)
        BY <1>1, <4>1 DEF Counted
      <4>5. QED
        BY <1>1, <2>3, <3>3, <3>4, <4>1, <4>3, <4>4 DEF MemoryInv
    <3>7. CASE step = "log"
      <4>1. t \in Busy(n0, r0)'
        BY <1>7, <1>10, <3>7 DEF Busy
      <4>2. Busy(n0, r0)' = {t} /\ Logging(n0, r0)' = {t}
        <5>1. tick'[t].at = "log" /\ Busy(n0, r0) \subseteq {t}
          BY <1>7, <3>2, <3>7
        <5>2. QED
          BY <1>1, <1>7, <4>1, <5>1, BusyMoves
      <4>3. /\ A \subseteq AlertsOf(r0, n0)' /\ AlertsOf(r0, n0)' \subseteq A \cup {Len(alerts) + 1}
            /\ \A i \in A : alerts'[i] = alerts[i] /\ i \in Nat /\ i <= Len(alerts) /\ alerts[i].at \in Nat
            /\ Len(alerts) + 1 \in AlertsOf(r0, n0)' => alerts'[Len(alerts) + 1].at = clock
        <5>1. \A i \in A : i \in DOMAIN alerts' /\ alerts'[i] = alerts[i]
          BY <1>8, <3>5
        <5>2. A \subseteq AlertsOf(r0, n0)'
          BY <5>1 DEF AlertsOf
        <5>3. AlertsOf(r0, n0)' \subseteq A \cup {Len(alerts) + 1}
          BY <1>8 DEF AlertsOf
        <5>4. Len(alerts) + 1 \in AlertsOf(r0, n0)' => alerts'[Len(alerts) + 1].at = clock
          <6>1. CASE alerts' = alerts
            <7>1. Len(alerts) + 1 \notin DOMAIN alerts
              BY <1>8
            <7>2. QED
              BY <6>1, <7>1 DEF AlertsOf
          <6>2. QED
            BY <1>8, <6>1
        <5>5. QED
          BY <1>8, <3>5, <5>2, <5>3, <5>4
      <4> HIDE DEF A, L
      <4>4. \A i \in AlertsOf(r0, n0)' :
              \/ i \in A /\ i <= Len(alerts) /\ i \in Nat /\ alerts'[i].at = alerts[i].at
              \/ i = Len(alerts) + 1 /\ alerts'[i].at = clock
        BY <4>3
      <4>5. (\A i, j \in AlertsOf(r0, n0) : i < j => alerts[j].at >= alerts[i].at + Cooldown)'
        <5> SUFFICES ASSUME NEW i \in AlertsOf(r0, n0)', NEW j \in AlertsOf(r0, n0)', i < j
                     PROVE  alerts'[j].at >= alerts'[i].at + Cooldown
          OBVIOUS
        <5>1. i \in A /\ alerts'[i].at = alerts[i].at /\ alerts[i].at \in Nat
          BY <1>8, <4>3, <4>4
        <5>2. CASE j \in A
          BY <3>4, <4>3, <5>1, <5>2
        <5>3. CASE j = Len(alerts) + 1
          <6>1. alerts'[j].at = clock /\ alerts[i].at <= L.lastAt /\ L.lastAt + Cooldown <= clock
            BY <3>4, <4>3, <5>1, <5>3
          <6>2. QED
            BY <1>1, <3>3, <5>1, <6>1
        <5>4. QED
          BY <4>4, <5>2, <5>3
      <4>6. (\A i \in AlertsOf(r0, n0) :
               \/ execution[n0][r0].kept /\ alerts[i].at <= execution[n0][r0].lastAt
               \/ Logging(n0, r0) # {} /\ \A j \in AlertsOf(r0, n0) : j <= i)'
        <5> SUFFICES ASSUME NEW i \in AlertsOf(r0, n0)'
                     PROVE  \/ L.kept /\ alerts'[i].at <= L.lastAt
                            \/ \A j \in AlertsOf(r0, n0)' : j <= i
          BY <1>1, <4>2 DEF L
        <5>1. CASE i \in A
          BY <3>4, <4>3, <5>1
        <5>2. CASE i = Len(alerts) + 1
          BY <1>8, <4>4, <5>2
        <5>3. QED
          BY <4>4, <5>1, <5>2
      <4>7. L.kept => Cardinality(Counted(n0, r0)') <= L.count + 1
        <5> SUFFICES ASSUME L.kept PROVE Cardinality(Counted(n0, r0)') <= L.count + 1
          OBVIOUS
        <5>1. IsFiniteSet(Counted(n0, r0)) /\ Cardinality(Counted(n0, r0)) \in Nat
          BY <1>1, AlertsFinite
        <5>2. Counted(n0, r0)' \subseteq Counted(n0, r0) \cup {Len(alerts) + 1}
          BY <1>1, <4>3 DEF Counted, A
        <5>3. /\ IsFiniteSet(Counted(n0, r0) \cup {Len(alerts) + 1})
              /\ Cardinality(Counted(n0, r0) \cup {Len(alerts) + 1})
                   = (IF Len(alerts) + 1 \in Counted(n0, r0) THEN Cardinality(Counted(n0, r0))
                      ELSE Cardinality(Counted(n0, r0)) + 1)
          BY <5>1, FS_AddElement
        <5>4. Cardinality(Counted(n0, r0)') <= Cardinality(Counted(n0, r0) \cup {Len(alerts) + 1})
              /\ Cardinality(Counted(n0, r0)') \in Nat
          BY <5>2, <5>3, FS_Subset, FS_CardinalityType
        <5>5. Cardinality(Counted(n0, r0)) <= L.count
          BY <3>4
        <5>6. QED
          BY <3>3, <5>1, <5>3, <5>4, <5>5
      <4>8. execution'[n0][r0] = L /\ clock' = clock
        BY <1>1 DEF L
      <4>9. QED
        BY <2>3, <3>3, <3>4, <4>2, <4>5, <4>6, <4>7, <4>8 DEF MemoryInv
    <3>8. QED
      BY <1>5, <3>6, <3>7
  <2>4. QED
    BY <2>2, <2>3
<1>13. QED
  BY <1>9, <1>11, <1>12 DEF OpsInv

LEMMA AtMostOne ==
  ASSUME NEW S, \A i, j \in S : i = j
  PROVE  Cardinality(S) \in Nat /\ Cardinality(S) <= 1
<1>1. CASE S = {}
  BY <1>1, FS_EmptySet
<1>2. CASE S # {}
  <2>1. PICK i : i \in S
    BY <1>2
  <2>2. S = {i}
    BY <2>1
  <2>3. Cardinality({i}) = 1
    BY FS_Singleton
  <2>4. QED
    BY <2>2, <2>3
<1>3. QED
  BY <1>1, <1>2

LEMMA LogSuccessKeeps ==
  ASSUME OpsInv, NEW t \in Tick, LogSuccess(t)
  PROVE  OpsInv'
<1>1. /\ OpsRows /\ tick[t] \in TickRow /\ tick[t].at = "log" /\ tick[t].left > 0
      /\ tick[t].left \in 0..Len(Rules) /\ Len(Rules) \in Nat
      /\ tick \in [Tick -> TickRow] /\ clock \in 0..MaxClock /\ MaxClock \in Nat /\ Cooldown \in Nat
      /\ Window \in Nat /\ MaxExecutions \in Nat
      /\ execution \in [Node -> [Rule -> Log]] /\ excused \subseteq Node \X Rule
      /\ UNCHANGED <<opsCase, clock, alerts, recent, emitted>>
  BY TickFacts, LimitAssumption DEF OpsInv, OpsRows, LogSuccess
<1>2. PICK n0 \in Node, r0 \in Rule : tick[t].node = n0 /\ RuleOf(t) = r0
  BY <1>1, TickFacts
<1>3. ASSUME NEW e \in Event PROVE EventInv(e)'
  BY <1>1, EventKept DEF OpsInv
<1>4. \A n, r : AlertsOf(r, n)' = AlertsOf(r, n)
  BY <1>1 DEF AlertsOf
<1> DEFINE L == execution[n0][r0]
<1>5. L \in Log /\ LogOf(t) = L /\ L.count \in Nat /\ L.lastAt \in Nat /\ L.windowStart \in Nat
  BY <1>1, <1>2 DEF LogOf, Log
<1>6. CASE TickTo(t, "failed") /\ excused' = Excuse(t) /\ UNCHANGED execution
  <2> DEFINE row == [tick[t] EXCEPT !.at = "failed"]
  <2>1. row \in TickRow /\ row.at = "failed" /\ row.node = n0 /\ row.left = tick[t].left
    BY <1>1, <1>2 DEF TickRow, TickStep
  <2>2. tick' = [tick EXCEPT ![t] = row]
    BY <1>1, <1>6 DEF TickTo
  <2>3. excused' = excused \cup {<<n0, r0>>} /\ excused' \subseteq Node \X Rule
    BY <1>1, <1>2, <1>6 DEF Excuse
  <2>4. execution' \in [Node -> [Rule -> Log]]
    BY <1>1, <1>6
  <2> HIDE DEF row
  <2>5. OpsRows' /\ tick'[t] = row /\ \A u \in Tick : u # t => tick'[u] = tick[u]
    BY <1>1, <2>1, <2>2, <2>3, <2>4, TickMoves
  <2>6. ASSUME NEW n \in Node, NEW r \in Rule, <<n, r>> \notin excused' PROVE MemoryInv(n, r)'
    <3>1. MemoryInv(n, r) /\ (n # n0 \/ r # r0)
      BY <2>3, <2>6 DEF OpsInv
    <3>2. t \notin Busy(n, r) /\ t \notin Busy(n, r)'
      BY <1>1, <1>2, <2>1, <2>5, <3>1 DEF Busy
    <3>3. execution'[n][r] = execution[n][r] /\ \A i \in AlertsOf(r, n) : alerts'[i] = alerts[i]
      BY <1>1, <1>6
    <3>4. QED
      BY <1>1, <1>4, <2>5, <3>1, <3>2, <3>3, OtherMemory
  <2>7. QED
    BY <1>3, <2>5, <2>6 DEF OpsInv
<1>7. CASE /\ execution' = RecordExecution(t)
           /\ tick' = [tick EXCEPT ![t].at = "rule", ![t].left = @ - 1]
           /\ UNCHANGED excused
  <2> DEFINE row == [tick[t] EXCEPT !.at = "rule", !.left = @ - 1]
             fresh == ~L.kept \/ WindowOver(t)
             new == IF fresh
                      THEN [count |-> 1, lastAt |-> clock, windowStart |-> clock, kept |-> TRUE]
                      ELSE [L EXCEPT !.count = @ + 1, !.lastAt = clock]
  <2>1. tick[t].left - 1 \in 0..Len(Rules)
    BY <1>1
  <2>2. row \in TickRow /\ row.at = "rule" /\ row.node = n0
    BY <1>1, <1>2, <2>1 DEF TickRow, TickStep
  <2>3. tick' = [tick EXCEPT ![t] = row]
    BY <1>1, <1>7
  <2>4. /\ new \in Log /\ new.kept /\ new.lastAt = clock
        /\ fresh => new.count = 1 /\ new.windowStart = clock
        /\ ~fresh => L.kept /\ new.count = L.count + 1 /\ new.windowStart = L.windowStart
    <3>1. CASE fresh
      BY <1>1, <3>1 DEF Log
    <3>2. CASE ~fresh
      <4>1. L.kept = TRUE /\ new = [L EXCEPT !.count = @ + 1, !.lastAt = clock]
        BY <1>5, <3>2 DEF Log
      <4>2. L.count + 1 \in Nat /\ L \in Log
        BY <1>5
      <4> HIDE DEF fresh, new, L
      <4>3. /\ new \in Log /\ new.kept = L.kept /\ new.lastAt = clock
            /\ new.count = L.count + 1 /\ new.windowStart = L.windowStart
        BY <1>1, <4>1, <4>2 DEF Log
      <4>4. QED
        BY <3>2, <4>1, <4>3
    <3>3. QED
      BY <3>1, <3>2
  <2>5. /\ execution' \in [Node -> [Rule -> Log]] /\ execution'[n0][r0] = new
        /\ \A n \in Node, r \in Rule : n # n0 \/ r # r0 => execution'[n][r] = execution[n][r]
    <3>1. execution' = [execution EXCEPT ![n0][r0] = new]
      BY <1>1, <1>2, <1>5, <1>7 DEF RecordExecution
    <3> HIDE DEF new
    <3>2. QED
      BY <1>1, <2>4, <3>1
  <2>6. excused' \subseteq Node \X Rule
    BY <1>1, <1>7
  <2> HIDE DEF row, new
  <2>7. OpsRows' /\ tick'[t] = row /\ \A u \in Tick : u # t => tick'[u] = tick[u]
    BY <1>1, <2>2, <2>3, <2>5, <2>6, TickMoves
  <2>8. \A n, r : t \notin Busy(n, r)'
    BY <2>2, <2>7 DEF Busy
  <2>9. ASSUME NEW n \in Node, NEW r \in Rule, <<n, r>> \notin excused' PROVE MemoryInv(n, r)'
    <3>1. MemoryInv(n, r)
      BY <1>7, <2>9 DEF OpsInv
    <3>2. CASE n # n0 \/ r # r0
      <4>1. t \notin Busy(n, r)
        BY <1>2, <3>2 DEF Busy
      <4>2. \A i \in AlertsOf(r, n) : alerts'[i] = alerts[i]
        BY <1>1
      <4>3. execution'[n][r] = execution[n][r] /\ AlertsOf(r, n)' = AlertsOf(r, n) /\ t \notin Busy(n, r)'
        BY <1>4, <2>5, <2>8, <3>2
      <4>4. QED
        BY <1>1, <2>7, <3>1, <4>1, <4>2, <4>3, OtherMemory
    <3>3. CASE n = n0 /\ r = r0
      <4> DEFINE A == AlertsOf(r0, n0)
      <4>1. t \in Busy(n0, r0) /\ t \in Logging(n0, r0)
        BY <1>1, <1>2 DEF Busy, Logging
      <4>2. Busy(n0, r0) \subseteq {t}
        BY <3>1, <3>3, <4>1 DEF MemoryInv
      <4>3. Busy(n0, r0)' = {} /\ Logging(n0, r0)' = {} /\ A' = A /\ alerts' = alerts
        BY <1>1, <1>4, <2>7, <2>8, <4>2, BusyMoves
      <4>4. /\ \A i, j \in A : i < j => alerts[j].at >= alerts[i].at + Cooldown
            /\ \A i \in A : \/ L.kept /\ alerts[i].at <= L.lastAt
                            \/ \A j \in A : j <= i
            /\ L.count < MaxExecutions
            /\ L.kept => /\ L.lastAt <= L.windowStart + Window
                         /\ Cardinality(Counted(n0, r0)) <= L.count + 1
        <5>1. Logging(n0, r0) # {}
          BY <4>1
        <5>2. QED
          BY <3>1, <3>3, <4>1, <5>1 DEF MemoryInv
      <4>5. \A i \in A : alerts[i].at <= clock /\ alerts[i].at \in Nat /\ i \in Nat
        <5>1. alerts \in Seq(AlertRow) /\ \A i \in DOMAIN alerts : alerts[i].at <= clock
          BY <1>1 DEF OpsRows
        <5>2. /\ DOMAIN alerts = 1..Len(alerts) /\ Len(alerts) \in Nat
              /\ \A i \in DOMAIN alerts : alerts[i] \in AlertRow
          BY <5>1, LenProperties, ElementOfSeq
        <5>3. \A i \in DOMAIN alerts : alerts[i].at \in Nat /\ i \in Nat
          BY <1>1, <5>2 DEF AlertRow
        <5>4. QED
          BY <5>1, <5>3 DEF AlertsOf
      <4>6. clock <= new.windowStart + Window /\ new.count <= MaxExecutions /\ 1 <= MaxExecutions
        <5>1. 1 <= MaxExecutions /\ L.count + 1 <= MaxExecutions
          BY <1>1, <1>5, <4>4
        <5>2. CASE fresh
          BY <1>1, <2>4, <5>1, <5>2
        <5>3. CASE ~fresh
          <6>1. ~(clock - L.windowStart > Window)
            BY <1>5, <5>3 DEF WindowOver
          <6>2. QED
            BY <1>1, <1>5, <2>4, <5>1, <5>3, <6>1
        <5>4. QED
          BY <5>2, <5>3
      <4>7. Cardinality(Counted(n0, r0)') <= new.count
        <5> HIDE DEF A, L
        <5>1. CASE fresh
          <6>1. Counted(n0, r0)' = {i \in A : alerts[i].at >= clock}
            BY <2>4, <2>5, <4>3, <5>1 DEF Counted, A
          <6>2. ASSUME NEW i \in A, alerts[i].at >= clock
                PROVE  \A j \in A : j <= i
            <7>1. CASE ~L.kept
              BY <4>4, <7>1
            <7>2. CASE L.kept
              <8>1. clock - L.windowStart > Window
                BY <1>5, <5>1, <7>2 DEF WindowOver
              <8>2. ~(alerts[i].at <= L.lastAt)
                BY <1>1, <1>5, <4>4, <4>5, <6>2, <7>2, <8>1
              <8>3. QED
                BY <4>4, <8>2
            <7>3. QED
              BY <7>1, <7>2
          <6>3. \A i, j \in Counted(n0, r0)' : i = j
            <7>1. \A i, j \in Counted(n0, r0)' : j <= i /\ i <= j /\ i \in Nat /\ j \in Nat
              BY <4>5, <6>1, <6>2
            <7>2. QED
              BY <7>1
          <6>4. QED
            BY <2>4, <5>1, <6>3, AtMostOne
        <5>2. CASE ~fresh
          <6>1. Counted(n0, r0)' = Counted(n0, r0)
            BY <2>4, <2>5, <4>3, <5>2 DEF Counted, A, L
          <6>2. QED
            BY <2>4, <4>4, <5>2, <6>1
        <5>3. QED
          BY <5>1, <5>2
      <4>8. \A i \in A : new.kept /\ alerts[i].at <= new.lastAt
        BY <2>4, <4>5
      <4> HIDE DEF A, L
      <4>9. Cardinality(Counted(n0, r0)') \in Nat /\ new.count \in Nat /\ clock \in Nat
        <5>1. IsFiniteSet(Counted(n0, r0)')
          <6>1. IsFiniteSet(A)
            BY <1>1, AlertsFinite DEF A
          <6>2. Counted(n0, r0)' \in SUBSET A
            BY <4>3 DEF Counted, A
          <6>3. QED
            BY <6>1, <6>2, FS_Subset
        <5>2. QED
          BY <1>1, <2>4, <5>1, FS_CardinalityType DEF Log
      <4>10. (\A i, j \in AlertsOf(r0, n0) : i < j => alerts[j].at >= alerts[i].at + Cooldown)'
        BY <4>3, <4>4 DEF A
      <4>11. (\A i \in AlertsOf(r0, n0) :
                \/ execution[n0][r0].kept /\ alerts[i].at <= execution[n0][r0].lastAt
                \/ Logging(n0, r0) # {} /\ \A j \in AlertsOf(r0, n0) : j <= i)'
        BY <2>5, <4>3, <4>8 DEF A
      <4>12. QED
        BY <1>1, <2>4, <2>5, <3>3, <4>3, <4>6, <4>7, <4>9, <4>10, <4>11 DEF MemoryInv
    <3>4. QED
      BY <3>2, <3>3
  <2>10. QED
    BY <1>3, <2>7, <2>9 DEF OpsInv
<1>8. QED
  BY <1>6, <1>7 DEF LogSuccess

LEMMA OpsStarts == OpsInit => OpsInv
<1> SUFFICES ASSUME OpsInit PROVE OpsInv
  OBVIOUS
<1>1. {Cooldown, Window, MaxExecutions, AlertLimit, MaxClock} \subseteq Nat /\ Len(Rules) \in Nat
  BY LimitAssumption, RulesAssumption, LenProperties
<1>2. alerts \in Seq(AlertRow) /\ DOMAIN alerts = {}
  BY EmptySeq DEF OpsInit
<1>3. OpsRows
  <2>1. NoLog \in Log
    BY <1>1 DEF NoLog, Log
  <2>2. execution \in [Node -> [Rule -> Log]]
    BY <2>1 DEF OpsInit
  <2>3. tick \in [Tick -> TickRow] /\ \A t \in Tick : tick[t].at = "idle"
    BY <1>1 DEF OpsInit, TickRow, TickStep
  <2>4. /\ emitted \in [Event -> [at : {"no", "local", "stream", "end"}, node : Node \cup {"none"}]]
        /\ \A e \in Event : emitted[e].at = "no"
    BY DEF OpsInit
  <2>5. recent \in [Node -> 0..AlertLimit] /\ clock \in 0..MaxClock /\ excused \subseteq Node \X Rule
        /\ opsCase \in OpsCases
    BY <1>1 DEF OpsInit
  <2>6. QED
    BY <1>2, <2>2, <2>3, <2>4, <2>5 DEF OpsRows
<1>4. ASSUME NEW e \in Event PROVE EventInv(e)
  BY <1>2 DEF OpsInit, EventInv
<1>5. ASSUME NEW n \in Node, NEW r \in Rule PROVE MemoryInv(n, r)
  <2>1. AlertsOf(r, n) = {} /\ Busy(n, r) = {} /\ ~execution[n][r].kept
    BY <1>2 DEF AlertsOf, Busy, OpsInit, NoLog
  <2>2. QED
    BY <2>1 DEF MemoryInv
<1>6. QED
  BY <1>3, <1>4, <1>5 DEF OpsInv

LEMMA OpsMoves == OpsInv /\ [OpsNext]_opsVars => OpsInv'
<1> SUFFICES ASSUME OpsInv, [OpsNext]_opsVars PROVE OpsInv'
  OBVIOUS
<1>1. CASE \E e \in Event : DispatchLocal(e)
  BY <1>1, DispatchLocalKeeps
<1>2. CASE \E e \in Event, n \in Node : Emit(e, n)
  BY <1>2, EmitKeeps
<1>3. CASE \E e \in Event, n \in Node : Deliver(e, n)
  BY <1>3, DeliverKeeps
<1>4. CASE \E t \in Tick, n \in Node, failing \in SUBSET Rule, e \in Event \cup {"none"} :
             BeginTick(t, n, failing, e)
  BY <1>4, BeginTickKeeps
<1>5. CASE \E t \in Tick : AwaitEvent(t)
  BY <1>5, AwaitEventKeeps
<1>6. CASE \E t \in Tick : DecideRule(t)
  BY <1>6, DecideRuleKeeps
<1>7. CASE \E t \in Tick : SendAlert(t)
  BY <1>7, SendAlertKeeps
<1>8. CASE \E t \in Tick : LogSuccess(t)
  BY <1>8, LogSuccessKeeps
<1>9. CASE \E t \in Tick : LogFailure(t)
  BY <1>9, LogFailureKeeps
<1>10. CASE \E t \in Tick : EndTick(t)
  BY <1>10, EndTickKeeps
<1>11. CASE PassTime
  BY <1>11, PassTimeKeeps
<1>12. CASE UNCHANGED opsVars
  <2>1. OpsRows'
    BY <1>12 DEF OpsInv, OpsRows, opsVars
  <2>2. ASSUME NEW e \in Event PROVE EventInv(e)'
    BY <1>12, EventKept DEF OpsInv, opsVars
  <2>3. ASSUME NEW n \in Node, NEW r \in Rule, <<n, r>> \notin excused' PROVE MemoryInv(n, r)'
    <3>1. MemoryInv(n, r)
      BY <1>12, <2>3 DEF OpsInv, opsVars
    <3>2. QED
      BY <1>12, <3>1 DEF MemoryInv, AlertsOf, Busy, Logging, Counted, RuleOf, opsVars
  <2>4. QED
    BY <2>1, <2>2, <2>3 DEF OpsInv
<1>13. QED
  BY <1>1, <1>2, <1>3, <1>4, <1>5, <1>6, <1>7, <1>8, <1>9, <1>10, <1>11, <1>12 DEF OpsNext

(* Always: what ticks have decided, the alerts of a rule and the memory of each replica fit.    *)
THEOREM OpsInvHolds == OpsSpec => []OpsInv
<1>1. QED
  BY OpsStarts, OpsMoves, PTL DEF OpsSpec

(* The rows of the invariant are the declared types.                                          *)
LEMMA OpsTyped == OpsInv => OpsTypeOK
<1> SUFFICES ASSUME OpsInv PROVE OpsTypeOK
  OBVIOUS
<1>1. \A t \in Tick : /\ tick[t].at \in {"idle", "degraded", "rule", "alert", "log", "failed", "end"}
                      /\ tick[t].node \in Node \cup {"none"} /\ tick[t].failing \subseteq Rule
                      /\ tick[t].left \in 0..Len(Rules) /\ tick[t].event \in Event \cup {"none"}
  BY DEF OpsInv, OpsRows, TickRow, TickStep
<1>2. \A e \in Event : /\ emitted[e].at \in {"no", "local", "stream", "end"}
                       /\ emitted[e].node \in Node \cup {"none"}
  BY DEF OpsInv, OpsRows
<1>3. QED
  BY <1>1, <1>2 DEF OpsInv, OpsRows, OpsTypeOK, AlertRow, Log

(* An event raises one alert per replica and two in all; a rule keeps to its limits.          *)
LEMMA AlertsStayBounded == OpsInv => AlertsBounded
<1> SUFFICES ASSUME OpsInv PROVE AlertsBounded
  OBVIOUS
<1>1. ASSUME NEW e \in Event, NEW n \in Node PROVE Cardinality(AlertsOf(e, n)) <= 1
  <2>1. \A i, j \in AlertsOf(e, n) : i = j
    BY DEF OpsInv, EventInv, AlertsOf
  <2>2. QED
    BY <2>1, AtMostOne
<1>2. ASSUME NEW e \in Event PROVE Cardinality({i \in DOMAIN alerts : alerts[i].why = e}) <= 2
  <2> DEFINE S == {i \in DOMAIN alerts : alerts[i].why = e}
  <2>1. PICK k, l \in Nat : \A i \in DOMAIN alerts : alerts[i].why = e => i \in {k, l}
    BY DEF OpsInv, EventInv
  <2>2. S \subseteq {k} \cup {l}
    BY <2>1
  <2>3. IsFiniteSet({k}) /\ Cardinality({k}) = 1
    BY FS_Singleton
  <2>4. /\ IsFiniteSet({k} \cup {l}) /\ Cardinality({k} \cup {l}) \in Nat
        /\ Cardinality({k} \cup {l}) <= 2
    <3>1. /\ IsFiniteSet({k} \cup {l})
          /\ Cardinality({k} \cup {l}) = (IF l \in {k} THEN Cardinality({k}) ELSE Cardinality({k}) + 1)
      BY <2>3, FS_AddElement
    <3>2. QED
      BY <2>3, <3>1
  <2>5. Cardinality(S) <= Cardinality({k} \cup {l}) /\ Cardinality(S) \in Nat
    BY <2>2, <2>4, FS_Subset, FS_CardinalityType
  <2>6. QED
    BY <2>4, <2>5
<1>3. ASSUME NEW n \in Node, NEW r \in Rule, <<n, r>> \notin excused
      PROVE  /\ \A i, j \in AlertsOf(r, n) : i < j => alerts[j].at >= alerts[i].at + Cooldown
             /\ execution[n][r].kept =>
                  Cardinality({i \in AlertsOf(r, n) : alerts[i].at >= execution[n][r].windowStart})
                    <= MaxExecutions
  <2>1. MemoryInv(n, r)
    BY <1>3 DEF OpsInv
  <2>2. ASSUME execution[n][r].kept PROVE Cardinality(Counted(n, r)) <= MaxExecutions
    <3>1. /\ execution[n][r].count \in Nat /\ MaxExecutions \in Nat
          /\ Cardinality(Counted(n, r)) \in Nat
      BY AlertsFinite, LimitAssumption DEF OpsInv, OpsRows, Log
    <3>2. CASE Logging(n, r) = {}
      BY <2>1, <2>2, <3>1, <3>2 DEF MemoryInv
    <3>3. CASE Logging(n, r) # {}
      <4>1. execution[n][r].count < MaxExecutions
        BY <2>1, <3>3 DEF MemoryInv, Logging
      <4>2. Cardinality(Counted(n, r)) <= execution[n][r].count + 1
        BY <2>1, <2>2, <3>3 DEF MemoryInv
      <4>3. QED
        BY <3>1, <4>1, <4>2
    <3>4. QED
      BY <3>2, <3>3
  <2>3. QED
    BY <2>1, <2>2 DEF MemoryInv, Counted
<1>4. QED
  BY <1>1, <1>2, <1>3 DEF AlertsBounded

(* Whatever ticks overlap on however many replicas: an event raises one alert on a replica and *)
(* two in all, and a heal rule keeps its cooldown and hourly limit on each replica, unless two *)
(* executions of it overlapped there or one could not be logged.                               *)
THEOREM AlertsBoundedTheorem == OpsSpec => []AlertsBounded
<1>1. QED
  BY OpsInvHolds, AlertsStayBounded, PTL

--------------------------------------------------------------------------------
(* The components together.                                                          *)

(* A step of one component leaves the others as they are; the rest may stutter.                *)
EachStep ==
  /\ [AccountNext]_accountVars /\ [FactorNext]_factorVars /\ [CaptchaNext]_captchaVars
  /\ [FederationNext]_federationVars /\ [OpsNext]_opsVars /\ [ClientNext]_clientVars
  /\ [AccessNext]_accessVars /\ [BrowserNext]_browserVars /\ [RiskNext]_riskVars

LEMMA EachStepTaken == [ServicesNext]_servicesVars => EachStep
<1> SUFFICES ASSUME [ServicesNext]_servicesVars PROVE EachStep
  OBVIOUS
<1>1. CASE UNCHANGED servicesVars
  BY <1>1 DEF servicesVars, EachStep
<1>2. CASE Others("account") /\ AccountNext
  BY <1>2 DEF Others, Keep, Part, EachStep
<1>3. CASE Others("factor") /\ FactorNext
  BY <1>3 DEF Others, Keep, Part, EachStep
<1>4. CASE Others("captcha") /\ CaptchaNext
  BY <1>4 DEF Others, Keep, Part, EachStep
<1>5. CASE Others("federation") /\ FederationNext
  BY <1>5 DEF Others, Keep, Part, EachStep
<1>6. CASE Others("ops") /\ OpsNext
  BY <1>6 DEF Others, Keep, Part, EachStep
<1>7. CASE Others("client") /\ ClientNext
  BY <1>7 DEF Others, Keep, Part, EachStep
<1>8. CASE Others("access") /\ AccessNext
  BY <1>8 DEF Others, Keep, Part, EachStep
<1>9. CASE Others("browser") /\ BrowserNext
  BY <1>9 DEF Others, Keep, Part, EachStep
<1>10. CASE Others("risk") /\ RiskNext
  BY <1>10 DEF Others, Keep, Part, EachStep
<1>11. QED
  BY <1>1, <1>2, <1>3, <1>4, <1>5, <1>6, <1>7, <1>8, <1>9, <1>10 DEF ServicesNext

(* A behaviour of the composition is one of each component: the eight that do not run          *)
(* stutter, and their initial states are some of their own.                                    *)
THEOREM EachComponentRuns ==
  ServicesSpec => /\ AccountSpec /\ FactorSpec /\ CaptchaSpec /\ FederationSpec /\ OpsSpec
                  /\ ClientSpec /\ AccessSpec /\ BrowserSpec /\ RiskSpec
<1>1. ServicesInit => /\ AccountInit /\ FactorInit /\ CaptchaInit /\ FederationInit /\ OpsInit
                      /\ ClientInit /\ AccessInit /\ BrowserInit /\ RiskInit
  BY DEF ServicesInit
<1>2. [ServicesNext]_servicesVars =>
        /\ [AccountNext]_accountVars /\ [FactorNext]_factorVars /\ [CaptchaNext]_captchaVars
        /\ [FederationNext]_federationVars /\ [OpsNext]_opsVars /\ [ClientNext]_clientVars
        /\ [AccessNext]_accessVars /\ [BrowserNext]_browserVars /\ [RiskNext]_riskVars
  BY EachStepTaken DEF EachStep
<1>3. QED
  BY <1>1, <1>2, PTL DEF ServicesSpec, AccountSpec, FactorSpec, CaptchaSpec, FederationSpec, OpsSpec,
     ClientSpec, AccessSpec, BrowserSpec, RiskSpec

(* The components keep their types while any one of them runs.                                 *)
THEOREM ServicesTypesCorrect == ServicesSpec => []ServicesTypeOK
<1>1. /\ AccountInv => AccountTypeOK
      /\ CaptchaInv => CaptchaTypeOK
      /\ FederationInv => FederationTypeOK
      /\ OpsInv => OpsTypeOK
      /\ ClientInv => ClientTypeOK
      /\ AccessInv => AccessTypeOK
      /\ BrowserInv => BrowserTypeOK
      /\ RiskInv => RiskTypeOK
  BY OpsTyped, BrowserTyped, RiskTyped
     DEF AccountInv, AccountBase, CaptchaInv, FederationInv, ClientInv, AccessInv
<1>2. ServicesInit => part \in Part
  BY DEF ServicesInit
<1>3. part \in Part /\ [ServicesNext]_servicesVars => (part \in Part)'
  BY DEF ServicesNext, Others, Runs, servicesVars, Part
<1>4. (/\ part \in Part /\ AccountTypeOK /\ FactorTypeOK /\ CaptchaTypeOK /\ FederationTypeOK
       /\ OpsTypeOK /\ ClientTypeOK /\ AccessTypeOK /\ BrowserTypeOK /\ RiskTypeOK)
        => ServicesTypeOK
  <2> SUFFICES ASSUME part \in Part, AccountTypeOK, FactorTypeOK, CaptchaTypeOK, FederationTypeOK,
                      OpsTypeOK, ClientTypeOK, AccessTypeOK, BrowserTypeOK, RiskTypeOK
               PROVE  ServicesTypeOK
    OBVIOUS
  <2>1. CASE part = "account"
    BY <2>1 DEF ServicesTypeOK
  <2>2. CASE part = "factor"
    BY <2>2 DEF ServicesTypeOK
  <2>3. CASE part = "captcha"
    BY <2>3 DEF ServicesTypeOK
  <2>4. CASE part = "federation"
    BY <2>4 DEF ServicesTypeOK
  <2>5. CASE part = "ops"
    BY <2>5 DEF ServicesTypeOK
  <2>6. CASE part = "client"
    BY <2>6 DEF ServicesTypeOK
  <2>7. CASE part = "access"
    BY <2>7 DEF ServicesTypeOK
  <2>8. CASE part = "browser"
    BY <2>8 DEF ServicesTypeOK
  <2>9. CASE part = "risk"
    BY <2>9 DEF ServicesTypeOK
  <2>10. QED
    BY <2>1, <2>2, <2>3, <2>4, <2>5, <2>6, <2>7, <2>8, <2>9 DEF Part
<1>5. ServicesSpec => [](part \in Part)
  BY <1>2, <1>3, PTL DEF ServicesSpec
<1>6. /\ AccountSpec => []AccountTypeOK
      /\ CaptchaSpec => []CaptchaTypeOK
      /\ FederationSpec => []FederationTypeOK
      /\ OpsSpec => []OpsTypeOK
      /\ ClientSpec => []ClientTypeOK
      /\ AccessSpec => []AccessTypeOK
      /\ BrowserSpec => []BrowserTypeOK
      /\ RiskSpec => []RiskTypeOK
  BY <1>1, AccountInvHolds, CaptchaInvHolds, FederationInvHolds, OpsInvHolds, ClientInvHolds,
     AccessInvHolds, BrowserInvHolds, RiskInvHolds, PTL
<1>7. QED
  BY <1>4, <1>5, <1>6, EachComponentRuns, FactorTypesCorrect, PTL

(* What the components promise one by one holds of the composition that the run checks.        *)
THEOREM ServicesHold ==
  ServicesSpec => /\ [](/\ AccountHolds /\ FactorHolds /\ CaptchaHolds /\ FederationHolds
                        /\ AlertsBounded /\ ClientAuthHolds /\ AccessHolds
                        /\ BrowserKeepsTokens /\ BaselineHolds)
                  /\ DisabledStaysDisabled
BY EachComponentRuns, AccountHoldsTheorem, FactorHoldsTheorem, CaptchaHoldsTheorem,
   FederationHoldsTheorem, AlertsBoundedTheorem, ClientAuthHoldsTheorem, AccessHoldsTheorem,
   BrowserKeepsTokensTheorem, BaselineHoldsTheorem, DisabledStaysDisabledTheorem, PTL
================================================================================
