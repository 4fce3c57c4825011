--------------------------------- MODULE Risk ---------------------------------
(***************************************************************************)
(* What the risk engine knows of one user (server/services/risk.service.ts *)
(* and server/jobs/ueba.job.ts).  A successful sign-in is recorded and     *)
(* then folded into the user's baseline by a read and a later write.  A    *)
(* nightly job recomputes the baseline from the records, also by a read    *)
(* and a later write.  The score and the bands decide only which sign-ins  *)
(* succeed, and only where the engine is enforced: here any may (the       *)
(* verdict is a free choice of AuthAccount's Gates).                       *)
(*                                                                         *)
(* Countries, networks, devices and hours are kept alike: one list stands  *)
(* for the four.                                                           *)
(***************************************************************************)
EXTENDS FiniteSets, Functions, Naturals, Sequences, SequencesExt

CONSTANTS
    Scored,        \* the sign-ins and recomputations under way
    Device,        \* what a sign-in comes from
    ListCap,       \* entries of a list of the baseline
    MaxEvents      \* successful sign-ins recorded

ASSUME CapAssumption == ListCap \in Nat \ {0} /\ MaxEvents \in Nat

VARIABLES
    events,        \* the devices of the successful sign-ins, in order
    aged,          \* how many of them the look-back no longer sees
    baseline,      \* usual devices and login count
    task,          \* a sign-in or a recomputation: its step and what it read
    drifted        \* a write was based on what another had changed, or never came

riskVars == <<events, aged, baseline, task, drifted>>

Waiting == [step |-> "idle"]
Seen == SubSeq(events, aged + 1, Len(events))

RiskTypeOK ==
    /\ events \in BoundedSeq(Device, MaxEvents)
    /\ aged \in 0 .. Len(events)
    /\ drifted \in BOOLEAN
    /\ baseline.usual \in BoundedSeq(Device, ListCap) /\ baseline.count \in Nat
    /\ IsInjective(baseline.usual)
    /\ \A t \in Scored : task[t].step \in {"idle", "recorded", "merging", "recompute"}

RiskInit ==
    /\ events = <<>> /\ aged = 0
    /\ baseline = [usual |-> <<>>, count |-> 0]
    /\ task = [t \in Scored |-> Waiting]
    /\ drifted = FALSE

--------------------------------------------------------------------------------
(* Recording and learning                                                    *)

\* A change of what a task of the given kind has read and not yet used.
Overtake(f, steps) == [t \in Scored |-> IF f[t].step \in steps
                                        THEN [f[t] EXCEPT !.stale = TRUE] ELSE f[t]]

\* recordLoginEvent, once the sign-in was let through, whatever it scored.
RecordSuccess(t, d) ==
    /\ task[t] = Waiting /\ Len(events) < MaxEvents
    /\ events' = Append(events, d)
    /\ task' = [Overtake(task, {"recompute"}) EXCEPT ![t] = [step |-> "recorded", device |-> d]]
    /\ UNCHANGED <<aged, baseline, drifted>>

\* updateBaseline reads the row ...
ReadBaseline(t) ==
    /\ task[t].step = "recorded"
    /\ task' = [task EXCEPT ![t] = [step |-> "merging", device |-> task[t].device,
                                    read |-> baseline, stale |-> FALSE]]
    /\ UNCHANGED <<events, aged, baseline, drifted>>

\* For a mutant: the list holds one entry less.
MergeShort(usual, d) ==
    IF d \in ToSet(usual) THEN usual
    ELSE LET longer == Append(usual, d)
         IN  IF Len(longer) >= ListCap THEN Tail(longer) ELSE longer

\* mergeCapped: a known value stays where it is, a new one pushes out the oldest.
Merge(usual, d) ==
    IF d \in ToSet(usual) THEN usual
    ELSE LET longer == Append(usual, d)
         IN  IF Len(longer) > ListCap THEN Tail(longer) ELSE longer

\* ... and writes the whole of it back.
WriteBaseline(t) ==
    /\ task[t].step = "merging"
    /\ baseline' = [usual |-> Merge(task[t].read.usual, task[t].device),
                    count |-> task[t].read.count + 1]
    /\ drifted' = (drifted \/ task[t].stale)
    /\ task' = [Overtake(task, {"merging", "recompute"}) EXCEPT ![t] = Waiting]
    /\ UNCHANGED <<events, aged>>

\* A failed update is only logged, and a process may stop before it.
LoseUpdate(t) ==
    /\ task[t].step \in {"recorded", "merging"}
    /\ drifted' = TRUE
    /\ task' = [task EXCEPT ![t] = Waiting]
    /\ UNCHANGED <<events, aged, baseline>>

--------------------------------------------------------------------------------
(* The nightly job                                                           *)

\* The successes of the look-back are read at once; a user without any is not
\* in the result, and its row stays.
BeginRecompute(t) ==
    /\ task[t] = Waiting /\ Seen # <<>>
    /\ task' = [task EXCEPT ![t] = [step |-> "recompute", read |-> Seen, stale |-> FALSE]]
    /\ UNCHANGED <<events, aged, baseline, drifted>>

\* The distinct values, the last ListCap of them as the rows happened to come.
Recomputed(seen) ==
    {s \in BoundedSeq(ToSet(seen), ListCap) :
        IsInjective(s) /\ (Len(s) = ListCap \/ ToSet(s) = ToSet(seen))}

EndRecompute(t) ==
    /\ task[t].step = "recompute"
    /\ \E usual \in Recomputed(task[t].read) :
          baseline' = [usual |-> usual, count |-> Len(task[t].read)]
    /\ drifted' = task[t].stale
    /\ task' = [Overtake(task, {"merging", "recompute"}) EXCEPT ![t] = Waiting]
    /\ UNCHANGED <<events, aged>>

StopRecompute(t) ==
    /\ task[t].step = "recompute"
    /\ task' = [task EXCEPT ![t] = Waiting]
    /\ UNCHANGED <<events, aged, baseline, drifted>>

--------------------------------------------------------------------------------
(* The world around                                                          *)

Age ==
    /\ aged < Len(events) /\ aged' = aged + 1
    /\ UNCHANGED <<events, baseline, task, drifted>>

RiskNext ==
    \/ \E t \in Scored :
          \/ \E d \in Device : RecordSuccess(t, d)
          \/ ReadBaseline(t) \/ WriteBaseline(t) \/ LoseUpdate(t)
          \/ BeginRecompute(t) \/ EndRecompute(t) \/ StopRecompute(t)
    \/ Age

RiskSpec == RiskInit /\ [][RiskNext]_riskVars

--------------------------------------------------------------------------------
(* Properties                                                                *)

\* A device the look-back sees is usual once nothing is under way, as long as
\* the list can hold all: sign-ins one after the other lose nothing, and a
\* recomputation that nothing overtook repairs what they lost
\* (server/jobs/ueba.job.ts:18, "this pass corrects any drift").
BaselineKnowsDevices ==
    (\A t \in Scored : task[t] = Waiting) /\ ~drifted
        /\ Cardinality(ToSet(events)) <= ListCap
    => ToSet(Seen) \subseteq ToSet(baseline.usual)

\* Whatever is lost, nothing is invented: a usual device was used successfully.
NothingInvented == ToSet(baseline.usual) \subseteq ToSet(events)

BaselineHolds == BaselineKnowsDevices /\ NothingInvented
================================================================================
