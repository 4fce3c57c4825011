----------------------------- MODULE Operations -----------------------------
(* Alerts: raised by the handlers of events, which the event bus runs on the replica   *)
(* that emits and on one that consumes, and by the auto-heal ticks, whose cooldowns and *)
(* hourly limits each replica keeps in its own memory.                                  *)
(*                                                                                      *)
(* Time is the unit of clock; a step ends at an await.                                  *)
EXTENDS Naturals, Sequences, SequencesExt, FiniteSets

CONSTANTS Node,          \* replicas
          Event,         \* events with an alert rule
          Rules,         \* HEAL_RULES, in their order
          Tick,          \* calls of autoHealTick
          Scheduled,     \* those the scheduler makes, under the job's lock
          Degrading,     \* those that may find the whole system degraded
          Cooldown,      \* cooldownMs of every rule
          Window,        \* COOLDOWN_WINDOW_MS
          MaxExecutions, \* maxExecutions of every rule
          AlertLimit,    \* ALERT_RATE_LIMIT_PER_MINUTE
          MaxClock,
          OpsCases       \* what a behaviour is about: sets of "event", "heal"

ASSUME TickAssumption == Scheduled \cup Degrading \subseteq Tick
ASSUME LimitAssumption == {Cooldown, Window, MaxExecutions, AlertLimit, MaxClock} \subseteq Nat
ASSUME RulesAssumption == Rules \in Seq(ToSet(Rules)) /\ Event \cap ToSet(Rules) = {}

VARIABLES
  opsCase,   \* the case of this behaviour
  clock,
  alerts,    \* rows of alerts, in the order of their insertion
  recent,    \* rateLimitMap of each replica: how many alerts in this minute, a unit of clock
  emitted,   \* how far each event has come
  execution, \* executionLog of each replica; 0 executions at time 0 is no entry
  tick,      \* next step and local variables of each autoHealTick
  excused    \* history: <<replica, rule>> two ticks of which overlapped, or whose log row failed

opsVars == <<opsCase, clock, alerts, recent, emitted, execution, tick, excused>>

Rule == ToSet(Rules)
NoLog == [count |-> 0, lastAt |-> 0, windowStart |-> 0, kept |-> FALSE]

OpsTypeOK ==
  /\ opsCase \in OpsCases
  /\ clock \in 0..MaxClock
  /\ alerts \in Seq([why : Event \cup Rule, node : Node, at : 0..MaxClock])
  /\ recent \in [Node -> 0..AlertLimit]
  /\ \A e \in Event : /\ emitted[e].at \in {"no", "local", "stream", "end"}
                      /\ emitted[e].node \in Node \cup {"none"}
  /\ execution \in [Node -> [Rule -> [count : Nat, lastAt : 0..MaxClock,
                                      windowStart : 0..MaxClock, kept : BOOLEAN]]]
  /\ \A t \in Tick : /\ tick[t].at \in {"idle", "degraded", "rule", "alert", "log", "failed", "end"}
                     /\ tick[t].node \in Node \cup {"none"} /\ tick[t].failing \subseteq Rule
                     /\ tick[t].left \in 0..Len(Rules) /\ tick[t].event \in Event \cup {"none"}
  /\ excused \subseteq Node \X Rule

OpsInit ==
  /\ opsCase \in OpsCases
  /\ clock = 0
  /\ alerts = <<>>
  /\ recent = [n \in Node |-> 0]
  /\ emitted = [e \in Event |-> [at |-> "no", node |-> "none"]]
  /\ execution = [n \in Node |-> [r \in Rule |-> NoLog]]
  /\ tick = [t \in Tick |-> [at |-> "idle", node |-> "none", failing |-> {},
                             left |-> 0, event |-> "none"]]
  /\ excused = {}

-----------------------------------------------------------------------------
(* Alerts of events *)

(* Mutant: the limit is one too high.                                                    *)
CreateOneMore(why, n) ==
  IF recent[n] > AlertLimit
    THEN UNCHANGED <<alerts, recent>>
    ELSE /\ recent' = [recent EXCEPT ![n] = @ + 1]
         /\ alerts' = Append(alerts, [why |-> why, node |-> n, at |-> clock])

(* createAlert: over the limit of the minute it inserts nothing and says nothing.        *)
CreateAlert(why, n) ==
  IF recent[n] >= AlertLimit
    THEN UNCHANGED <<alerts, recent>>
    ELSE /\ recent' = [recent EXCEPT ![n] = @ + 1]
         /\ \/ alerts' = Append(alerts, [why |-> why, node |-> n, at |-> clock])
            \/ UNCHANGED alerts \* the insert failed

EventTo(e, step) == emitted' = [emitted EXCEPT ![e].at = step]

Emit(e, n) ==
  /\ "event" \in opsCase /\ emitted[e].at = "no"
  /\ emitted' = [emitted EXCEPT ![e].at = "local", ![e].node = n]
  /\ UNCHANGED <<opsCase, clock, alerts, recent, execution, tick, excused>>

(* emit() waits for the handlers here, then appends to the stream if Redis answers.      *)
DispatchLocal(e) ==
  /\ emitted[e].at = "local"
  /\ CreateAlert(e, emitted[e].node)
  /\ \E next \in {"stream", "end"} : EventTo(e, next)
  /\ UNCHANGED <<opsCase, clock, execution, tick, excused>>

(* Mutant: nobody skips its own events.                                                  *)
DeliverToAny(e, n) ==
  /\ emitted[e].at = "stream"
  /\ CreateAlert(e, n)
  /\ EventTo(e, "end")
  /\ UNCHANGED <<opsCase, clock, execution, tick, excused>>

(* One replica of the group gets the entry, and the origin drops it.  A replica that dies *)
(* with an entry leaves it pending for good.                                              *)
Deliver(e, n) ==
  /\ emitted[e].at = "stream"
  /\ EventTo(e, "end")
  /\ \/ n # emitted[e].node /\ CreateAlert(e, n)
     \/ UNCHANGED <<alerts, recent>>
  /\ UNCHANGED <<opsCase, clock, execution, tick, excused>>

-----------------------------------------------------------------------------
(* Auto-heal *)

TickTo(t, step) == tick' = [tick EXCEPT ![t].at = step]
Running(t) == tick[t].at \notin {"idle", "end"}

(* The checks find the conditions of some rules to hold (a rule the replica has disabled   *)
(* is never among them); below the threshold they emit an event too.                      *)
BeginTick(t, n, failing, degraded) ==
  /\ "heal" \in opsCase /\ tick[t].at = "idle"
  /\ t \in Scheduled => \A u \in Scheduled : ~Running(u)
  /\ degraded # "none" => t \in Degrading /\ failing # {} /\ emitted[degraded].at = "no"
  /\ tick' = [tick EXCEPT ![t] = [at |-> IF degraded = "none" THEN "rule" ELSE "degraded", node |-> n,
                                  failing |-> failing, left |-> Len(Rules), event |-> degraded]]
  /\ emitted' = IF degraded = "none" THEN emitted
                ELSE [emitted EXCEPT ![degraded].at = "local", ![degraded].node = n]
  /\ UNCHANGED <<opsCase, clock, alerts, recent, execution, excused>>

AwaitEvent(t) ==
  /\ tick[t].at = "degraded" /\ emitted[tick[t].event].at # "local"
  /\ TickTo(t, "rule")
  /\ UNCHANGED <<opsCase, clock, alerts, recent, emitted, execution, excused>>

RuleOf(t) == Rules[Len(Rules) + 1 - tick[t].left]
LogOf(t) == execution[tick[t].node][RuleOf(t)]
InCooldown(t) == LogOf(t).kept /\ clock - LogOf(t).lastAt < Cooldown
WindowOver(t) == LogOf(t).kept /\ clock - LogOf(t).windowStart > Window
Executing(t, u) == /\ u # t /\ tick[u].at \in {"alert", "log"}
                   /\ tick[u].node = tick[t].node /\ RuleOf(u) = RuleOf(t)
Excuse(t) == excused \cup {<<tick[t].node, RuleOf(t)>>}

(* One iteration of the loop up to its first await.  A rule that does not apply, cools    *)
(* down or is at its limit is passed over; looking at the limit opens a new window when    *)
(* the old one is over.                                                                   *)
DecideRule(t) ==
  LET n == tick[t].node
      applies == RuleOf(t) \in tick[t].failing /\ ~InCooldown(t)
      within == WindowOver(t) \/ LogOf(t).count < MaxExecutions
  IN  /\ tick[t].at = "rule" /\ tick[t].left > 0
      /\ execution' = IF applies /\ WindowOver(t)
                        THEN [execution EXCEPT ![n][RuleOf(t)].count = 0, ![n][RuleOf(t)].windowStart = clock]
                        ELSE execution
      /\ IF applies /\ within
           THEN /\ TickTo(t, "alert")
                /\ excused' = IF \E u \in Tick : Executing(t, u) THEN Excuse(t) ELSE excused
           ELSE tick' = [tick EXCEPT ![t].left = @ - 1] /\ UNCHANGED excused
      /\ UNCHANGED <<opsCase, clock, alerts, recent, emitted>>

EndTick(t) ==
  /\ tick[t].at = "rule" /\ tick[t].left = 0
  /\ tick' = [tick EXCEPT ![t].at = "end", ![t].failing = {}]
  /\ UNCHANGED <<opsCase, clock, alerts, recent, emitted, execution, excused>>

SendAlert(t) ==
  /\ tick[t].at = "alert"
  /\ CreateAlert(RuleOf(t), tick[t].node)
  /\ TickTo(t, IF recent' # recent /\ alerts' = alerts THEN "failed" ELSE "log")
  /\ UNCHANGED <<opsCase, clock, emitted, execution, excused>>

(* Mutant: the first execution of a window is not counted.                               *)
RecordFromZero(t) ==
  [execution EXCEPT ![tick[t].node][RuleOf(t)] =
     IF ~LogOf(t).kept \/ WindowOver(t)
       THEN [count |-> 0, lastAt |-> clock, windowStart |-> clock, kept |-> TRUE]
       ELSE [LogOf(t) EXCEPT !.count = @ + 1, !.lastAt = clock]]

RecordExecution(t) ==
  [execution EXCEPT ![tick[t].node][RuleOf(t)] =
     IF ~LogOf(t).kept \/ WindowOver(t)
       THEN [count |-> 1, lastAt |-> clock, windowStart |-> clock, kept |-> TRUE]
       ELSE [LogOf(t) EXCEPT !.count = @ + 1, !.lastAt = clock]]

(* The row of auto_heal_log comes before the execution counts; an alert the limit of the  *)
(* minute swallowed is logged as a success all the same.                                  *)
LogSuccess(t) ==
  /\ tick[t].at = "log"
  /\ \/ /\ execution' = RecordExecution(t)
        /\ tick' = [tick EXCEPT ![t].at = "rule", ![t].left = @ - 1]
        /\ UNCHANGED excused
     \/ TickTo(t, "failed") /\ excused' = Excuse(t) /\ UNCHANGED execution
  /\ UNCHANGED <<opsCase, clock, alerts, recent, emitted>>

(* When the row of the failure fails too, the tick ends and the later rules are not tried. *)
LogFailure(t) ==
  /\ tick[t].at = "failed"
  /\ \/ tick' = [tick EXCEPT ![t].at = "rule", ![t].left = @ - 1]
     \/ tick' = [tick EXCEPT ![t].at = "end", ![t].failing = {}]
  /\ UNCHANGED <<opsCase, clock, alerts, recent, emitted, execution, excused>>

PassTime ==
  /\ clock < MaxClock
  /\ clock' = clock + 1
  /\ recent' = [n \in Node |-> 0]
  /\ UNCHANGED <<opsCase, alerts, emitted, execution, tick, excused>>

OpsNext ==
  \/ \E e \in Event :
       \/ DispatchLocal(e)
       \/ \E n \in Node : Emit(e, n) \/ Deliver(e, n)
  \/ \E t \in Tick :
       \/ \E n \in Node, failing \in SUBSET Rule, e \in Event \cup {"none"} : BeginTick(t, n, failing, e)
       \/ AwaitEvent(t) \/ DecideRule(t) \/ SendAlert(t) \/ LogSuccess(t) \/ LogFailure(t) \/ EndTick(t)
  \/ PassTime

OpsSpec == OpsInit /\ [][OpsNext]_opsVars

-----------------------------------------------------------------------------
AlertsOf(why, n) == {i \in DOMAIN alerts : alerts[i].why = why /\ alerts[i].node = n}

(* An event raises at most one alert on a replica and at most two in all, where it was    *)
(* emitted and where it was consumed.  A heal rule keeps to its cooldown and its hourly    *)
(* limit on each replica, unless two ticks of the replica executed it at the same time or   *)
(* the execution could not be logged: the memory is looked at before the alert is stored   *)
(* and written after.                                                                      *)
AlertsBounded ==
  /\ \A e \in Event : /\ \A n \in Node : Cardinality(AlertsOf(e, n)) <= 1
                      /\ Cardinality({i \in DOMAIN alerts : alerts[i].why = e}) <= 2
  /\ \A n \in Node, r \in Rule : <<n, r>> \notin excused =>
       /\ \A i, j \in AlertsOf(r, n) : i < j => alerts[j].at >= alerts[i].at + Cooldown
       /\ execution[n][r].kept =>
            Cardinality({i \in AlertsOf(r, n) : alerts[i].at >= execution[n][r].windowStart}) <= MaxExecutions
=============================================================================
