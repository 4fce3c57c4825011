----------------------------- MODULE MCPlatform -----------------------------
(* Model checking of two components of the server that share no state: a behaviour is  *)
(* one of the feature flags or one of the scheduler's pool, "part".  The fairness is    *)
(* that of each module, for the part that runs.                                        *)
EXTENDS FeatureFlags, JobPool, TLC

VARIABLE part

Dependencies == "f1" :> {} @@ "f2" :> {"f1"}
Environment == "f1" :> "off" @@ "f2" :> "off"
Homes == [c \in {"c1", "c2", "c3"} |-> "n1"] @@ "c4" :> "n2"

platformVars == <<part, flagVars, poolVars>>

PlatformInit == part \in {"flags", "pool"} /\ FlagInit /\ PoolInit

PlatformNext ==
  /\ UNCHANGED part
  /\ \/ part = "flags" /\ FlagNext /\ UNCHANGED poolVars
     \/ part = "pool" /\ PoolNext /\ UNCHANGED flagVars

PlatformFairness ==
  /\ \A r \in Edit : WF_flagVars(part = "flags" /\ EditStep(r))
  /\ \A n \in Node : WF_flagVars(part = "flags" /\ EventStep(n))
  /\ \A n \in Node, s \in Slot :
       /\ WF_flagVars(part = "flags" /\ BeginLoad(n, s))
       /\ WF_flagVars(part = "flags" /\ EndLoad(n, s))
  /\ \A c \in Call : WF_poolVars(part = "pool" /\ (TryLock(c) \/ Query(c)))
  /\ \A n \in Replica : WF_poolVars(part = "pool" /\ Grant(n))

PlatformSpec == PlatformInit /\ [][PlatformNext]_platformVars /\ PlatformFairness

(* Flags, snapshots, events, connections and locks keep their types.                   *)
PlatformTypeOK == FlagTypeOK /\ PoolTypeOK

(* Beyond their types: no pool is exhausted by those who wait for it, and no replica     *)
(* turns on a flag whose requirement is unmet.                                           *)
PlatformHolds == PlatformTypeOK /\ PoolNeverStuck /\ UnmetStaysOff
=============================================================================
