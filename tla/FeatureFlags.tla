---------------------------- MODULE FeatureFlags ----------------------------
(* Feature flags: the table of overrides, the snapshot each replica answers from, and *)
(* the three ways a change reaches a snapshot: the request that makes it, the event   *)
(* that announces it, and the periodic resync.                                        *)
(*                                                                                    *)
(* An Edit is one PUT or reset request; a step of it ends at an await.  "enforce" is  *)
(* also the TRUE of a boolean flag, "off" its FALSE.                                  *)
EXTENDS Naturals, Sequences

CONSTANTS Node,       \* replicas
          Flag,       \* FEATURE_REGISTRY
          TriState,   \* the flags with a shadow mode
          DependsOn,  \* dependsOn of each flag
          Unmet,      \* flags whose hard requirement the environment does not meet
          EnvDefault, \* envDefault() of each flag
          Edit,       \* administrators' requests
          Slot,       \* overlapping resyncs of one replica
          MaxCrashes

ASSUME FlagAssumption ==
  /\ TriState \subseteq Flag /\ Unmet \subseteq Flag
  /\ DependsOn \in [Flag -> SUBSET Flag]
  /\ EnvDefault \in [Flag -> {"off", "shadow", "enforce"}]
  /\ \A f \in Unmet : EnvDefault[f] = "off"
ASSUME ReplicaAssumption == Node # {} /\ Flag # {} /\ MaxCrashes \in Nat

VARIABLES
  flags,    \* feature_flags; "none" is a flag without a row
  snapshot, \* snapshot of each replica
  resync,   \* rows a loadFlags in flight has read
  edit,     \* next step and local variables of each request
  stream,   \* the Redis stream, undelivered entries first
  event,    \* what the consumer of each replica is working on
  crashes

flagVars == <<flags, snapshot, resync, edit, stream, event, crashes>>

Mode == {"off", "shadow", "enforce"}
Option(f) == IF f \in TriState THEN Mode ELSE {"off", "enforce"}
Idle == [flag |-> CHOOSE f \in Flag : TRUE, at |-> "idle"]
NoEdit(step) == [at |-> step, node |-> CHOOSE n \in Node : TRUE, flag |-> Idle.flag,
                 value |-> "none", row |-> "none"]

(* The value a row resolves to: an unmet hard requirement beats every override.        *)
Clamp(f, v) == IF f \in Unmet THEN "off" ELSE v
Resolved(f) == IF flags[f] = "none" THEN EnvDefault[f] ELSE Clamp(f, flags[f])
Enabled(n, f) == snapshot[n][f] = "enforce"

FlagTypeOK ==
  /\ flags \in [Flag -> Mode \cup {"none"}]
  /\ \A f \in Flag : flags[f] \in Option(f) \cup {"none"}
  /\ snapshot \in [Node -> [Flag -> Mode]]
  /\ resync \in [Node -> [Slot -> [Flag -> Mode] \cup {<<>>}]]
  /\ edit \in [Edit -> [at : {"idle", "write", "own", "read", "refresh", "publish", "done"}, node : Node,
                       flag : Flag, value : Mode \cup {"none"}, row : Mode \cup {"none"}]]
  /\ stream \in Seq([flag : Flag, origin : Node])
  /\ event \in [Node -> [flag : Flag, at : Mode \cup {"idle", "read"}]]
  /\ crashes \in 0..MaxCrashes

FlagInit ==
  /\ flags = [f \in Flag |-> "none"]
  /\ snapshot = [n \in Node |-> EnvDefault]
  /\ resync = [n \in Node |-> [s \in Slot |-> <<>>]]
  /\ edit = [r \in Edit |-> NoEdit("idle")]
  /\ stream = <<>>
  /\ event = [n \in Node |-> Idle]
  /\ crashes = 0

EditAt(r, step) == edit[r].at = step
EditTo(r, step) == edit' = [edit EXCEPT ![r].at = step]
bus == <<stream, event>>

-----------------------------------------------------------------------------
(* PUT and reset *)

(* The dependencies are looked up in the replica's own snapshot, before the write.     *)
BeginSet(r, n, f, v) ==
  /\ edit[r].at = "idle" /\ v \in Option(f)
  /\ v # "off" => \A d \in DependsOn[f] : Enabled(n, d)
  /\ edit' = [edit EXCEPT ![r] = [edit[r] EXCEPT !.at = "write", !.node = n, !.flag = f, !.value = v]]
  /\ UNCHANGED <<flags, snapshot, resync, bus, crashes>>

BeginReset(r, n, f) ==
  /\ edit[r].at = "idle"
  /\ edit' = [edit EXCEPT ![r] = [edit[r] EXCEPT !.at = "write", !.node = n, !.flag = f, !.value = "none"]]
  /\ UNCHANGED <<flags, snapshot, resync, bus, crashes>>

WriteRow(r) ==
  /\ EditAt(r, "write")
  /\ flags' = [flags EXCEPT ![edit[r].flag] = edit[r].value]
  /\ EditTo(r, "own")
  /\ UNCHANGED <<snapshot, resync, bus, crashes>>

(* The value the request carried, not what the table holds by now.                     *)
ApplyOwn(r) ==
  /\ EditAt(r, "own")
  /\ LET f == edit[r].flag
     IN  snapshot' = [snapshot EXCEPT ![edit[r].node][f] =
                        IF edit[r].value = "none" THEN EnvDefault[f] ELSE Clamp(f, edit[r].value)]
  /\ EditTo(r, "read")
  /\ UNCHANGED <<flags, resync, bus, crashes>>

(* emit() first runs the local handler, which reads the row again ...                  *)
ReadBack(r) ==
  /\ EditAt(r, "read")
  /\ edit' = [edit EXCEPT ![r].at = "refresh", ![r].row = Resolved(edit[r].flag)]
  /\ UNCHANGED <<flags, snapshot, resync, bus, crashes>>

Refresh(r) ==
  /\ EditAt(r, "refresh")
  /\ snapshot' = [snapshot EXCEPT ![edit[r].node][edit[r].flag] = edit[r].row]
  /\ EditTo(r, "publish")
  /\ UNCHANGED <<flags, resync, bus, crashes>>

(* ... and then appends to the stream, if Redis answers.                               *)
Publish(r) ==
  /\ EditAt(r, "publish")
  /\ edit' = [edit EXCEPT ![r] = NoEdit("done")]
  /\ \/ stream' = Append(stream, [flag |-> edit[r].flag, origin |-> edit[r].node])
     \/ UNCHANGED stream
  /\ UNCHANGED <<flags, snapshot, resync, event, crashes>>

-----------------------------------------------------------------------------
(* The consumer: all replicas share one group, so an entry goes to one of them, and the *)
(* origin acknowledges its own entry without acting on it.                              *)
Consume(n) ==
  /\ event[n].at = "idle" /\ stream # <<>>
  /\ stream' = Tail(stream)
  /\ event' = [event EXCEPT ![n] = IF Head(stream).origin = n THEN Idle
                                   ELSE [flag |-> Head(stream).flag, at |-> "read"]]
  /\ UNCHANGED <<flags, snapshot, resync, edit, crashes>>

ReadEvent(n) ==
  /\ event[n].at = "read"
  /\ event' = [event EXCEPT ![n].at = Resolved(event[n].flag)]
  /\ UNCHANGED <<flags, snapshot, resync, edit, stream, crashes>>

ApplyEvent(n) ==
  /\ event[n].at \in Mode
  /\ snapshot' = [snapshot EXCEPT ![n][event[n].flag] = event[n].at]
  /\ event' = [event EXCEPT ![n] = Idle]
  /\ UNCHANGED <<flags, resync, edit, stream, crashes>>

-----------------------------------------------------------------------------
(* loadFlags, at boot and on a timer that does not wait for the load before *)

BeginLoad(n, s) ==
  /\ resync[n][s] = <<>>
  /\ resync' = [resync EXCEPT ![n][s] = [f \in Flag |-> Resolved(f)]]
  /\ UNCHANGED <<flags, snapshot, edit, bus, crashes>>

(* Mutant: the rows are merged into the snapshot; what was reset elsewhere stays on.    *)
MergeLoad(n, s) ==
  /\ resync[n][s] # <<>>
  /\ snapshot' = [snapshot EXCEPT ![n] = [f \in Flag |-> IF flags[f] = "none" THEN snapshot[n][f]
                                                         ELSE resync[n][s][f]]]
  /\ resync' = [resync EXCEPT ![n][s] = <<>>]
  /\ UNCHANGED <<flags, edit, bus, crashes>>

EndLoad(n, s) ==
  /\ resync[n][s] # <<>>
  /\ snapshot' = [snapshot EXCEPT ![n] = resync[n][s]]
  /\ resync' = [resync EXCEPT ![n][s] = <<>>]
  /\ UNCHANGED <<flags, edit, bus, crashes>>

(* A replica dies and comes back with the defaults.  A dead one only stands still, so    *)
(* one step does both.  The entry its consumer had taken is gone: nobody reads the       *)
(* group's pending entries again.                                                        *)
Restart(n) ==
  /\ crashes < MaxCrashes
  /\ crashes' = crashes + 1
  /\ snapshot' = [snapshot EXCEPT ![n] = EnvDefault]
  /\ resync' = [resync EXCEPT ![n] = [s \in Slot |-> <<>>]]
  /\ event' = [event EXCEPT ![n] = Idle]
  /\ edit' = [r \in Edit |-> IF edit[r].node = n /\ edit[r].at \notin {"idle", "done"}
                             THEN NoEdit("done") ELSE edit[r]]
  /\ UNCHANGED <<flags, stream>>

EditStep(r) == WriteRow(r) \/ ApplyOwn(r) \/ ReadBack(r) \/ Refresh(r) \/ Publish(r)
EventStep(n) == ReadEvent(n) \/ ApplyEvent(n)

FlagNext ==
  \/ \E r \in Edit :
       \/ \E n \in Node, f \in Flag : \/ \E v \in Mode : BeginSet(r, n, f, v)
                                      \/ BeginReset(r, n, f)
       \/ EditStep(r)
  \/ \E n \in Node : \/ Consume(n) \/ EventStep(n)
                     \/ \E s \in Slot : BeginLoad(n, s) \/ EndLoad(n, s)
                     \/ Restart(n)

(* The timers fire, queries come back and a request that began goes on.  No fairness of  *)
(* Consume: without Redis there is no consumer.                                          *)
FlagFairness ==
  /\ \A r \in Edit : WF_flagVars(EditStep(r))
  /\ \A n \in Node : WF_flagVars(EventStep(n))
  /\ \A n \in Node, s \in Slot : WF_flagVars(BeginLoad(n, s)) /\ WF_flagVars(EndLoad(n, s))

FlagSpec == FlagInit /\ [][FlagNext]_flagVars /\ FlagFairness

-----------------------------------------------------------------------------
(* No edit, event, resync or restart turns on, on any replica, a flag whose hard         *)
(* requirement the environment does not meet (clampToHardRequirement).                    *)
UnmetStaysOff == \A n \in Node, f \in Unmet : snapshot[n][f] = "off"

(* A change reaches every replica, whatever becomes of its event: requests,   *)
(* events and overlapping loads may write stale values into a snapshot, but once the     *)
(* last write has settled the snapshots resolve every flag as the table does, for good.  *)
FlagsConverge == <>[](\A n \in Node, f \in Flag : snapshot[n][f] = Resolved(f))
=============================================================================
