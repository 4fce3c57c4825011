------------------------- MODULE SigningKeysProofs -------------------------
(* Three facts about the signing keys for any number of replicas and keys and any *)
(* values of the time constants that the assumptions allow: getActiveSigner always *)
(* finds a key, no key is withdrawn before the tokens signed with it expire, and    *)
(* an undisturbed rotation signs with no key that was not published long before.   *)
EXTENDS SigningKeys, TLAPS

(* Keys become active in an order.  A rotation promotes a key that came, or will    *)
(* come, later in that order than the one it retires; so the last key that became   *)
(* active is never retired.                                                         *)
OrderInv ==
  /\ \A k \in Key : turn[k] <= turns
  /\ \A k \in Key : turns > 0 /\ turn[k] = turns => keys[k].st = "active"
  /\ turns > 0 => \E k \in Key : turn[k] = turns
  /\ \A k \in Key : turn[k] = 0 <=> keys[k].st \in {"absent", "next"}
  /\ \A n \in Node : pc[n] \notin {"down", "boot"} => turns > 0

RotatorInv ==
  \A n \in Node :
    /\ pc[n] \in {"next", "promote", "retire"} => old[n] \in Key /\ turn[old[n]] > 0
    /\ pc[n] = "promote" =>
         /\ nxt[n] \in Key /\ keys[nxt[n]].st # "absent"
         /\ turn[nxt[n]] = 0 \/ turn[nxt[n]] > turn[old[n]]
    /\ pc[n] = "retire" => nxt[n] \in Key /\ turn[nxt[n]] > turn[old[n]]

(* A key is retired for so long that every replica has dropped it from its cache    *)
(* and every token signed with it has expired.                                      *)
ClockInv ==
  /\ \A n \in Node : pc[n] \in {"promote", "retire", "insert"} =>
                       t0[n] <= now /\ now <= t0[n] + Lag
  /\ \A n \in Node : loading[n].kid # None =>
                       /\ loading[n].time <= now /\ now <= loading[n].time + Lag
                       /\ turn[loading[n].kid] > 0
  /\ \A n \in Node : cache[n].kid # None => cache[n].time <= now /\ turn[cache[n].kid] > 0
  /\ \A k \in Key : until[k] <= now + TokenLife
  /\ \A k \in Key : until[k] > 0 => turn[k] > 0

RetiredInv ==
  \A k \in Key : keys[k].st = "retired" =>
    /\ until[k] <= keys[k].expires
    /\ \A n \in Node :
         /\ cache[n].kid = k => cache[n].time + CacheTTL + TokenLife <= keys[k].expires
         /\ loading[n].kid = k =>
              loading[n].time + Lag + CacheTTL + TokenLife <= keys[k].expires

PurgedInv ==
  \A k \in Key : keys[k].st = "purged" =>
    /\ until[k] <= now
    /\ \A n \in Node : /\ cache[n].kid = k => cache[n].time + CacheTTL <= now
                       /\ loading[n].kid # k

KeyInv == TypeOK /\ OrderInv /\ RotatorInv /\ ClockInv /\ RetiredInv /\ PurgedInv
--------------------------------------------------------------------------------
(* Every constant of time is a natural number.                                     *)
LEMMA Times ==
  /\ Period \in Nat /\ Grace \in Nat /\ CacheTTL \in Nat /\ TokenLife \in Nat
  /\ MaxAge \in Nat /\ Lag \in Nat /\ MaxTime \in Nat /\ MaxCrashes \in Nat
  BY TimeAssumption

(* What each replica does keeps the types.                                         *)
LEMMA NodeKeepsTypes ==
  ASSUME TypeOK, NEW n \in Node,
         \/ BootRead(n) \/ BootInsert(n) \/ Crash(n) \/ Fail(n)
         \/ CheckDue(n) \/ ReadOld(n) \/ ReadNext(n) \/ Promote(n) \/ Retire(n) \/ InsertNext(n)
         \/ LoadSigner(n) \/ StoreSigner(n) \/ Sign(n)
  PROVE  TypeOK'
<1> USE DEF TypeOK
<1>1. CASE BootRead(n)
  <2>1. pc' \in [Node -> {"down", "boot", "up"} \cup Steps]
    BY <1>1 DEF BootRead, GoTo
  <2>2. t0' \in [Node -> Nat]
    BY <1>1 DEF BootRead
  <2>3. QED
    BY <1>1, <2>1, <2>2 DEF BootRead, signers, order
<1>2. CASE BootInsert(n)
  <2>1. pc' \in [Node -> {"down", "boot", "up"} \cup Steps]
    BY <1>2 DEF BootInsert, GoTo
  <2>2. old' \in [Node -> Key \cup {None}] /\ nxt' \in [Node -> Key \cup {None}] /\ t0' \in [Node -> Nat]
    BY <1>2 DEF BootInsert, Forget
  <2>3. \A st \in {"active", "next"} : NewRow(st) \in KeyRow
    BY DEF NewRow, KeyRow
  <2>4. keys' \in [Key -> KeyRow]
    BY <1>2, <2>3 DEF BootInsert, InsertKeyRow
  <2>5. turn' \in [Key -> Nat] /\ turns' \in Nat
    BY <1>2 DEF BootInsert, Stamp, order
  <2>6. QED
    BY <1>2, <2>1, <2>2, <2>4, <2>5 DEF BootInsert, signers
<1>3. CASE Crash(n) \/ Fail(n)
  <2>1. CASE Crash(n)
    BY <2>1 DEF Crash, GoTo, order, Forget, ClearKeyCache, NoSigner, Signer
  <2>2. CASE Fail(n)
    BY <2>2 DEF Fail, GoTo, order, signers, Forget
  <2>3. QED
    BY <1>3, <2>1, <2>2
<1>4. CASE CheckDue(n)
  BY <1>4 DEF CheckDue, GoTo, signers, order, Steps
<1>5. CASE ReadOld(n)
  BY <1>5 DEF ReadOld, GoTo, signers, order, With, Steps
<1>6. CASE ReadNext(n)
  <2>1. pc' \in [Node -> {"down", "boot", "up"} \cup Steps]
    BY <1>6 DEF ReadNext, GoTo, Steps
  <2>2. old' \in [Node -> Key \cup {None}] /\ t0' \in [Node -> Nat]
    BY <1>6 DEF ReadNext, Forget
  <2>3. nxt' \in [Node -> Key \cup {None}]
    BY <1>6 DEF ReadNext, Forget, With
  <2>4. QED
    BY <1>6, <2>1, <2>2, <2>3 DEF ReadNext, signers, order
<1>7. CASE Promote(n)
  <2>1. \A k \in Key : [keys[k] EXCEPT !.st = "active", !.activated = t0[n]] \in KeyRow
    BY DEF KeyRow
  <2>2. keys' \in [Key -> KeyRow]
    BY <1>7, <2>1 DEF Promote
  <2>3. turn' \in [Key -> Nat] /\ turns' \in Nat
    <3>1. turns + 1 \in Nat
      OBVIOUS
    <3>2. QED
      BY <1>7, <3>1 DEF Promote, Stamp
  <2>4. QED
    BY <1>7, <2>2, <2>3 DEF Promote, GoTo, signers, Steps
<1>8. CASE Retire(n)
  <2> DEFINE e == t0[n] + Grace
  <2>0. e \in Nat
    BY Times
  <2> HIDE DEF e
  <2>1. \A k \in Key : [keys[k] EXCEPT !.st = "retired", !.expires = e] \in KeyRow
    BY <2>0 DEF KeyRow
  <2>2. keys' \in [Key -> KeyRow]
    BY <1>8, <2>1 DEF Retire, e
  <2>3. QED
    BY <1>8, <2>2 DEF Retire, GoTo, signers, order, Steps
<1>9. CASE InsertNext(n)
  <2>1. NewRow("next") \in KeyRow
    BY DEF NewRow, KeyRow
  <2>2. keys' \in [Key -> KeyRow]
    BY <1>9, <2>1 DEF InsertNext, InsertKeyRow
  <2>3. QED
    BY <1>9, <2>2 DEF InsertNext, GoTo, order, Forget, ClearKeyCache, NoSigner, Signer
<1>10. CASE LoadSigner(n)
  BY <1>10 DEF LoadSigner, clocks, order, With, Signer
<1>11. CASE StoreSigner(n)
  <2>1. cache' \in [Node -> Signer] /\ loading' \in [Node -> Signer]
    BY <1>11 DEF StoreSigner, clocks, NoSigner, Signer
  <2>2. until' \in [Key -> Nat]
    <3>1. now + TokenLife \in Nat
      BY Times
    <3>2. QED
      BY <1>11, <3>1 DEF StoreSigner, clocks
  <2>3. QED
    BY <1>11, <2>1, <2>2 DEF StoreSigner, clocks, order
<1>12. CASE Sign(n)
  <2>1. until' \in [Key -> Nat]
    <3>1. now + TokenLife \in Nat
      BY Times
    <3>2. QED
      BY <1>12, <3>1 DEF Sign, clocks
  <2>2. QED
    BY <1>12, <2>1 DEF Sign, clocks, order
<1>13. QED
  BY <1>1, <1>2, <1>3, <1>4, <1>5, <1>6, <1>7, <1>8, <1>9, <1>10, <1>11, <1>12

LEMMA StepKeepsTypes == TypeOK /\ [Next]_vars => TypeOK'
<1> SUFFICES ASSUME TypeOK, [Next]_vars PROVE TypeOK'
  OBVIOUS
<1>1. CASE PurgeKeys
  BY <1>1 DEF PurgeKeys, TypeOK, KeyRow, signers, order
<1>2. CASE Tick
  BY <1>2 DEF Tick, TypeOK, signers, order
<1>3. CASE UNCHANGED vars
  BY <1>3 DEF vars, TypeOK
<1>4. QED
  BY <1>1, <1>2, <1>3, NodeKeepsTypes DEF Next

LEMMA InitTypes == Init => TypeOK
<1>1. NoSigner \in Signer
  BY DEF NoSigner, Signer
<1>2. [st |-> "absent", created |-> 0, activated |-> 0, expires |-> 0] \in KeyRow
  BY DEF KeyRow
<1>3. SUFFICES ASSUME Init PROVE TypeOK
  OBVIOUS
<1>4. keys \in [Key -> KeyRow]
  BY <1>2, <1>3 DEF Init
<1>5. pc \in [Node -> {"down", "boot", "up"} \cup Steps]
  BY <1>3 DEF Init
<1>6. loading \in [Node -> Signer] /\ cache \in [Node -> Signer]
  BY <1>1, <1>3 DEF Init
<1>7. /\ old \in [Node -> Key \cup {None}] /\ nxt \in [Node -> Key \cup {None}]
      /\ t0 \in [Node -> Nat] /\ until \in [Key -> Nat] /\ turn \in [Key -> Nat]
  BY <1>3 DEF Init
<1>8. QED
  BY <1>3, <1>4, <1>5, <1>6, <1>7 DEF Init, TypeOK

(* The variables keep their types (schema/oauth.ts:91-105, keys.service.ts).        *)
THEOREM KeyTypesCorrect == Spec => []TypeOK
  BY InitTypes, StepKeepsTypes, PTL DEF Spec

--------------------------------------------------------------------------------
(* There is always an active key.                                                  *)

OrderTypes ==
  /\ keys \in [Key -> KeyRow] /\ turn \in [Key -> Nat] /\ turns \in Nat
  /\ pc \in [Node -> {"down", "boot", "up"} \cup Steps]
  /\ old \in [Node -> Key \cup {None}] /\ nxt \in [Node -> Key \cup {None}]

ActiveInv == OrderTypes /\ OrderInv /\ RotatorInv

(* A step that leaves the keys alone, and whose replica enters no rotation.         *)
LEMMA IdleStepKeepsOrder ==
  ASSUME ActiveInv, UNCHANGED <<keys, turn, turns>>, OrderTypes',
         NEW n \in Node,
         \A m \in Node \ {n} : pc'[m] = pc[m] /\ old'[m] = old[m] /\ nxt'[m] = nxt[m],
         pc'[n] \in {"down", "boot", "up", "old", "insert"},
         pc'[n] \notin {"down", "boot"} => turns > 0
  PROVE  OrderInv' /\ RotatorInv'
  BY DEF ActiveInv, OrderTypes, OrderInv, RotatorInv

(* A new "next" row.                                                               *)
LEMMA InsertKeepsOrder ==
  ASSUME ActiveInv, OrderTypes', NEW n \in Node, NEW k \in Key,
         InsertKeyRow(k, "next"), UNCHANGED order, turns > 0,
         \A m \in Node \ {n} : pc'[m] = pc[m] /\ old'[m] = old[m] /\ nxt'[m] = nxt[m],
         pc'[n] = "up"
  PROVE  OrderInv' /\ RotatorInv'
<1>1. /\ keys[k].st = "absent" /\ keys'[k].st = "next"
      /\ \A j \in Key \ {k} : keys'[j] = keys[j]
  BY DEF InsertKeyRow, NewRow, ActiveInv, OrderTypes
<1>2. turn[k] = 0 /\ turn' = turn /\ turns' = turns
  BY <1>1 DEF ActiveInv, OrderInv, order
<1>3. OrderInv'
  BY <1>1, <1>2 DEF ActiveInv, OrderTypes, OrderInv
<1>4. RotatorInv'
  BY <1>1, <1>2 DEF ActiveInv, OrderTypes, RotatorInv
<1>5. QED
  BY <1>3, <1>4

LEMMA BootKeepsOrder ==
  ASSUME ActiveInv, OrderTypes', NEW n \in Node, BootRead(n) \/ BootInsert(n)
  PROVE  OrderInv' /\ RotatorInv'
<1>1. CASE BootRead(n)
  <2>1. turns > 0 \/ pc'[n] = "boot"
    BY <1>1 DEF BootRead, With, GoTo, ActiveInv, OrderTypes, OrderInv
  <2>2. pc'[n] \in {"boot", "up"}
    BY <1>1 DEF BootRead, GoTo, ActiveInv, OrderTypes
  <2>3. UNCHANGED <<keys, turn, turns, old, nxt>>
    BY <1>1 DEF BootRead, order
  <2>4. \A m \in Node \ {n} : pc'[m] = pc[m]
    BY <1>1 DEF BootRead, GoTo, ActiveInv, OrderTypes
  <2>5. QED
    BY <2>1, <2>2, <2>3, <2>4, IdleStepKeepsOrder
<1>2. CASE BootInsert(n) /\ With("active") # {}
  <2>1. turns > 0
    BY <1>2 DEF With, ActiveInv, OrderTypes, OrderInv
  <2>2. \A m \in Node \ {n} : pc'[m] = pc[m] /\ old'[m] = old[m] /\ nxt'[m] = nxt[m]
    BY <1>2 DEF BootInsert, GoTo, Forget, ActiveInv, OrderTypes
  <2>3. pc'[n] = "up"
    BY <1>2 DEF BootInsert, GoTo, ActiveInv, OrderTypes
  <2>4. QED
    BY <1>2, <2>1, <2>2, <2>3, InsertKeepsOrder DEF BootInsert
<1>3. CASE BootInsert(n) /\ With("active") = {}
  <2>1. turns = 0
    BY <1>3 DEF With, ActiveInv, OrderTypes, OrderInv
  <2>2. PICK j, k \in With("absent") :
          /\ j # k
          /\ keys' = [keys EXCEPT ![j] = NewRow("active"), ![k] = NewRow("next")]
          /\ Stamp(j)
    BY <1>3 DEF BootInsert
  <2>3. j \in Key /\ k \in Key /\ turn[j] = 0 /\ turn[k] = 0
    BY <2>1 DEF With, ActiveInv, OrderTypes, OrderInv
  <2>4. /\ keys'[j].st = "active" /\ keys'[k].st = "next"
        /\ \A i \in Key \ {j, k} : keys'[i] = keys[i]
    BY <2>2, <2>3 DEF NewRow, ActiveInv, OrderTypes
  <2>5. turns' = 1 /\ turn'[j] = 1 /\ \A i \in Key \ {j} : turn'[i] = turn[i]
    BY <2>1, <2>2, <2>3 DEF Stamp, ActiveInv, OrderTypes
  <2>6. \A i \in Key : turn[i] = 0
    BY <2>1 DEF ActiveInv, OrderTypes, OrderInv
  <2>7. OrderInv'
    <3>1. \A i \in Key : keys[i].st \in {"absent", "next"}
      BY <2>6 DEF ActiveInv, OrderInv
    <3>2. \A i \in Key : turn'[i] = 0 <=> keys'[i].st \in {"absent", "next"}
      <4>1. j # k
        BY <2>2
      <4>2. turn'[k] = 0 /\ turn'[j] = 1
        BY <2>3, <2>5, <4>1
      <4>3. \A i \in Key \ {j, k} : turn'[i] = 0
        BY <2>5, <2>6
      <4>4. QED
        BY <2>4, <3>1, <4>2, <4>3
    <3>3. \A i \in Key : turn'[i] <= turns' /\ (turn'[i] = turns' => keys'[i].st = "active")
      BY <2>3, <2>4, <2>5, <2>6
    <3>4. turns' > 0 /\ \E i \in Key : turn'[i] = turns'
      BY <2>3, <2>5
    <3>5. QED
      BY <3>2, <3>3, <3>4 DEF OrderInv
  <2>8. \A m \in Node : pc[m] \in {"down", "boot"}
    BY <2>1 DEF ActiveInv, OrderTypes, OrderInv
  <2>9. \A m \in Node : pc'[m] \in {"down", "boot", "up"}
    BY <1>3, <2>8 DEF BootInsert, GoTo, ActiveInv, OrderTypes
  <2>10. QED
    BY <2>7, <2>9 DEF RotatorInv
<1>4. QED
  BY <1>1, <1>2, <1>3

(* The rotation.                                                                   *)
LEMMA ReadKeepsOrder ==
  ASSUME ActiveInv, OrderTypes', NEW n \in Node, ReadOld(n) \/ ReadNext(n)
  PROVE  OrderInv' /\ RotatorInv'
<1>1. UNCHANGED <<keys, turn, turns>>
  BY DEF ReadOld, ReadNext, order
<1>2. turns > 0
  BY DEF ReadOld, ReadNext, ActiveInv, OrderInv
<1>3. \A m \in Node \ {n} : pc'[m] = pc[m] /\ old'[m] = old[m] /\ nxt'[m] = nxt[m]
  BY DEF ReadOld, ReadNext, GoTo, Forget, ActiveInv, OrderTypes
<1>4. OrderInv'
  BY <1>1, <1>2, <1>3 DEF OrderInv, ActiveInv, OrderTypes
<1>5. CASE ReadOld(n)
  <2>1. pc'[n] = "next" /\ old'[n] \in Key /\ keys[old'[n]].st = "active"
    BY <1>5 DEF ReadOld, GoTo, With, ActiveInv, OrderTypes
  <2>2. turn[old'[n]] > 0
    BY <2>1 DEF ActiveInv, OrderTypes, OrderInv
  <2>3. RotatorInv'
    BY <1>1, <1>3, <2>1, <2>2 DEF RotatorInv, ActiveInv
  <2>4. QED
    BY <1>4, <2>3
<1>6. CASE ReadNext(n) /\ With("next") = {}
  <2>1. pc'[n] = "up"
    BY <1>6 DEF ReadNext, GoTo, ActiveInv, OrderTypes
  <2>2. QED
    BY <1>1, <1>2, <1>3, <2>1, IdleStepKeepsOrder
<1>7. CASE ReadNext(n) /\ With("next") # {}
  <2>1. pc[n] = "next" /\ pc'[n] = "promote" /\ old'[n] = old[n]
    BY <1>7 DEF ReadNext, GoTo, ActiveInv, OrderTypes
  <2>2. nxt'[n] \in Key /\ keys[nxt'[n]].st = "next"
    BY <1>7 DEF ReadNext, With, ActiveInv, OrderTypes
  <2>3. turn[nxt'[n]] = 0
    BY <2>2 DEF ActiveInv, OrderInv
  <2>4. RotatorInv'
    BY <1>1, <1>3, <2>1, <2>2, <2>3 DEF RotatorInv, ActiveInv
  <2>5. QED
    BY <1>4, <2>4
<1>8. QED
  BY <1>5, <1>6, <1>7 DEF ReadNext

LEMMA PromoteKeepsOrder ==
  ASSUME ActiveInv, OrderTypes', NEW n \in Node, Promote(n)
  PROVE  OrderInv' /\ RotatorInv'
<1> DEFINE x == nxt[n]
<1>1. /\ x \in Key /\ keys[x].st # "absent" /\ pc[n] = "promote"
      /\ old[n] \in Key /\ turn[old[n]] > 0
      /\ turn[x] = 0 \/ turn[x] > turn[old[n]]
  BY DEF Promote, ActiveInv, RotatorInv
<1>2. /\ keys'[x].st = IF keys[x].st = "purged" THEN "purged" ELSE "active"
      /\ \A k \in Key \ {x} : keys'[k] = keys[k]
  BY <1>1 DEF Promote, ActiveInv, OrderTypes, KeyRow
<1>3. /\ turn[x] = 0 => turn'[x] = turns + 1 /\ turns' = turns + 1
      /\ turn[x] # 0 => turn'[x] = turn[x] /\ turns' = turns
      /\ \A k \in Key \ {x} : turn'[k] = turn[k]
  BY <1>1 DEF Promote, Stamp, ActiveInv, OrderTypes
<1>4. /\ \A m \in Node \ {n} : pc'[m] = pc[m]
      /\ pc'[n] = "retire" /\ old' = old /\ nxt' = nxt
  BY DEF Promote, GoTo, ActiveInv, OrderTypes
<1>5. turn \in [Key -> Nat] /\ turns \in Nat /\ \A k \in Key : turn[k] <= turns
  BY DEF ActiveInv, OrderTypes, OrderInv
<1>6. turn[x] = 0 <=> keys[x].st = "next"
  BY <1>1 DEF ActiveInv, OrderInv
<1>7. turn'[x] > turn[old[n]] /\ turn'[x] # 0
  BY <1>1, <1>3, <1>5
<1> HIDE DEF x
<1>8. OrderInv'
  <2>1. CASE turn[x] = 0
    BY <2>1, <1>1, <1>2, <1>3, <1>4, <1>5, <1>6 DEF OrderInv, ActiveInv, OrderTypes
  <2>2. CASE turn[x] # 0
    BY <2>2, <1>1, <1>2, <1>3, <1>4, <1>5, <1>6 DEF OrderInv, ActiveInv, OrderTypes
  <2>3. QED
    BY <2>1, <2>2
<1>9. RotatorInv'
  <2> SUFFICES ASSUME NEW m \in Node
               PROVE  /\ pc'[m] \in {"next", "promote", "retire"} => old[m] \in Key /\ turn'[old[m]] > 0
                      /\ pc'[m] = "promote" =>
                           /\ nxt[m] \in Key /\ keys'[nxt[m]].st # "absent"
                           /\ turn'[nxt[m]] = 0 \/ turn'[nxt[m]] > turn'[old[m]]
                      /\ pc'[m] = "retire" => nxt[m] \in Key /\ turn'[nxt[m]] > turn'[old[m]]
    BY <1>4 DEF RotatorInv
  <2>1. CASE m = n
    BY <2>1, <1>1, <1>3, <1>4, <1>5, <1>7 DEF x
  <2>2. CASE m # n
    <3>1. \A k \in Key : turn[k] > 0 => turn'[k] = turn[k]
      BY <1>3, <1>5
    <3>2. \A k \in Key : /\ turn'[k] = turn[k] \/ turn'[k] > turns
                         /\ keys[k].st # "absent" => keys'[k].st # "absent"
      BY <1>2, <1>3, <1>5
    <3>3. QED
      BY <2>2, <3>1, <3>2, <1>4, <1>5 DEF RotatorInv, ActiveInv, OrderTypes
  <2>3. QED
    BY <2>1, <2>2
<1>10. QED
  BY <1>8, <1>9

LEMMA RetireKeepsOrder ==
  ASSUME ActiveInv, OrderTypes', NEW n \in Node, Retire(n)
  PROVE  OrderInv' /\ RotatorInv'
<1> DEFINE x == old[n]
<1>1. /\ x \in Key /\ turn[x] > 0 /\ nxt[n] \in Key /\ turn[nxt[n]] > turn[x]
  BY DEF Retire, ActiveInv, RotatorInv
<1>2. turn \in [Key -> Nat] /\ turns \in Nat /\ \A k \in Key : turn[k] <= turns
  BY DEF ActiveInv, OrderTypes, OrderInv
<1>3. turn[x] < turns
  BY <1>1, <1>2
<1>4. /\ keys'[x].st \in {"retired", "purged"}
      /\ \A k \in Key \ {x} : keys'[k] = keys[k]
  BY <1>1 DEF Retire, ActiveInv, OrderTypes, KeyRow
<1>5. /\ \A m \in Node \ {n} : pc'[m] = pc[m]
      /\ pc[n] = "retire" /\ pc'[n] = "insert" /\ old' = old /\ nxt' = nxt /\ turn' = turn /\ turns' = turns
  BY DEF Retire, GoTo, order, ActiveInv, OrderTypes
<1> HIDE DEF x
<1>6. OrderInv'
  BY <1>1, <1>2, <1>3, <1>4, <1>5 DEF OrderInv, ActiveInv, OrderTypes
<1>7. RotatorInv'
  BY <1>4, <1>5 DEF RotatorInv, ActiveInv, OrderTypes
<1>8. QED
  BY <1>6, <1>7

LEMMA PurgeKeepsOrder ==
  ASSUME ActiveInv, OrderTypes', PurgeKeys
  PROVE  OrderInv' /\ RotatorInv'
<1>1. UNCHANGED <<pc, old, nxt, turn, turns>>
  BY DEF PurgeKeys, order
<1>2. \A k \in Key : \/ keys'[k] = keys[k]
                     \/ keys[k].st = "retired" /\ keys'[k].st = "purged"
  BY DEF PurgeKeys, ActiveInv, OrderTypes, KeyRow
<1>3. OrderInv'
  BY <1>1, <1>2 DEF OrderInv, ActiveInv, OrderTypes
<1>4. RotatorInv'
  BY <1>1, <1>2 DEF RotatorInv, ActiveInv, OrderTypes
<1>5. QED
  BY <1>3, <1>4

LEMMA StepKeepsOrder == TypeOK /\ OrderInv /\ RotatorInv /\ [Next]_vars => OrderInv' /\ RotatorInv'
<1> SUFFICES ASSUME TypeOK, OrderInv, RotatorInv, [Next]_vars PROVE OrderInv' /\ RotatorInv'
  OBVIOUS
<1>1. ActiveInv /\ OrderTypes'
  BY StepKeepsTypes DEF ActiveInv, OrderTypes, TypeOK
<1>2. ASSUME UNCHANGED <<keys, pc, old, nxt, turn, turns>>
      PROVE  OrderInv' /\ RotatorInv'
  BY <1>2 DEF OrderInv, RotatorInv
<1>3. ASSUME NEW n \in Node, BootRead(n) \/ BootInsert(n)
      PROVE  OrderInv' /\ RotatorInv'
  BY <1>1, <1>3, BootKeepsOrder
<1>4. ASSUME NEW n \in Node, Crash(n) \/ Fail(n)
      PROVE  OrderInv' /\ RotatorInv'
  <2>1. /\ \A m \in Node \ {n} : pc'[m] = pc[m] /\ old'[m] = old[m] /\ nxt'[m] = nxt[m]
        /\ pc'[n] \in {"down", "up"}
    BY <1>4 DEF Crash, Fail, GoTo, Forget, TypeOK
  <2>2. UNCHANGED <<keys, turn, turns>> /\ (pc'[n] = "up" => turns > 0)
    BY <1>4 DEF Crash, Fail, order, GoTo, TypeOK, OrderInv, Steps
  <2>3. QED
    BY <1>1, <2>1, <2>2, IdleStepKeepsOrder
<1>5. ASSUME NEW n \in Node, CheckDue(n)
      PROVE  OrderInv' /\ RotatorInv'
  <2>1. /\ \A m \in Node \ {n} : pc'[m] = pc[m] /\ old'[m] = old[m] /\ nxt'[m] = nxt[m]
        /\ pc'[n] = "old"
    BY <1>5 DEF CheckDue, GoTo, TypeOK
  <2>2. UNCHANGED <<keys, turn, turns>> /\ turns > 0
    BY <1>5 DEF CheckDue, order, OrderInv
  <2>3. QED
    BY <1>1, <2>1, <2>2, IdleStepKeepsOrder
<1>6. ASSUME NEW n \in Node, ReadOld(n) \/ ReadNext(n)
      PROVE  OrderInv' /\ RotatorInv'
  BY <1>1, <1>6, ReadKeepsOrder
<1>7. ASSUME NEW n \in Node, Promote(n)
      PROVE  OrderInv' /\ RotatorInv'
  BY <1>1, <1>7, PromoteKeepsOrder
<1>8. ASSUME NEW n \in Node, Retire(n)
      PROVE  OrderInv' /\ RotatorInv'
  BY <1>1, <1>8, RetireKeepsOrder
<1>9. ASSUME NEW n \in Node, InsertNext(n)
      PROVE  OrderInv' /\ RotatorInv'
  <2>1. PICK k \in Key : InsertKeyRow(k, "next")
    BY <1>9 DEF InsertNext
  <2>2. \A m \in Node \ {n} : pc'[m] = pc[m] /\ old'[m] = old[m] /\ nxt'[m] = nxt[m]
    BY <1>9 DEF InsertNext, GoTo, Forget, TypeOK
  <2>3. pc'[n] = "up" /\ turns > 0 /\ UNCHANGED order
    BY <1>9 DEF InsertNext, GoTo, OrderInv, TypeOK
  <2>4. QED
    BY <1>1, <2>1, <2>2, <2>3, InsertKeepsOrder
<1>10. ASSUME NEW n \in Node, LoadSigner(n) \/ StoreSigner(n) \/ Sign(n)
       PROVE  OrderInv' /\ RotatorInv'
  BY <1>2, <1>10 DEF LoadSigner, StoreSigner, Sign, order
<1>11. CASE PurgeKeys
  BY <1>1, <1>11, PurgeKeepsOrder
<1>12. CASE Tick
  BY <1>2, <1>12 DEF Tick, order
<1>13. CASE UNCHANGED vars
  BY <1>2, <1>13 DEF vars
<1>14. QED
  BY <1>3, <1>4, <1>5, <1>6, <1>7, <1>8, <1>9, <1>10, <1>11, <1>12, <1>13 DEF Next

LEMMA OrderHolds == Spec => [](TypeOK /\ OrderInv /\ RotatorInv)
<1>1. Init => TypeOK /\ OrderInv /\ RotatorInv
  <2>1. Init => OrderInv /\ RotatorInv
    BY DEF Init, OrderInv, RotatorInv
  <2>2. QED
    BY <2>1, InitTypes
<1>2. TypeOK /\ OrderInv /\ RotatorInv /\ [Next]_vars => (TypeOK /\ OrderInv /\ RotatorInv)'
  BY StepKeepsTypes, StepKeepsOrder
<1>3. QED
  BY <1>1, <1>2, PTL DEF Spec

(* Once a replica has booted there is an active key, whatever boots, crashes and    *)
(* overlapping rotations did: getActiveSigner (keys.service.ts:94-115) finds one.    *)
THEOREM SomeKeyActiveTheorem == Spec => []SomeKeyActive
<1>1. OrderInv => SomeKeyActive
  BY DEF OrderInv, SomeKeyActive, With
<1>2. QED
  BY <1>1, OrderHolds, PTL

--------------------------------------------------------------------------------
(* No key is withdrawn before the tokens signed with it have expired.              *)

WithdrawInv == ClockInv /\ RetiredInv /\ PurgedInv
RotationClock == \A n \in Node : pc[n] \in {"promote", "retire", "insert"} =>
                                   t0[n] <= now /\ now <= t0[n] + Lag

(* A step that retires and deletes no key, loads no signer and signs nothing.       *)
LEMMA QuietStepKeepsWithdrawal ==
  ASSUME TypeOK, TypeOK', WithdrawInv, RotationClock',
         now' = now, until' = until,
         \A k \in Key : turn[k] > 0 => turn'[k] > 0,
         \A k \in Key : keys'[k] = keys[k] \/ keys'[k].st \notin {"retired", "purged"},
         \A n \in Node : /\ cache'[n] = cache[n] \/ cache'[n] = NoSigner
                         /\ loading'[n] = loading[n] \/ loading'[n] = NoSigner
  PROVE  WithdrawInv'
<1>1. /\ \A n \in Node : cache[n] \in Signer /\ loading[n] \in Signer
      /\ None \notin Key /\ NoSigner.kid = None
  BY NoneAssumption DEF TypeOK, NoSigner
<1>2. /\ now \in Nat /\ until \in [Key -> Nat] /\ turn \in [Key -> Nat]
      /\ \A n \in Node : cache[n].kid \in Key \cup {None} /\ loading[n].kid \in Key \cup {None}
  BY DEF TypeOK, Signer
<1>3. ClockInv'
  BY <1>1, <1>2 DEF WithdrawInv, ClockInv, RotationClock
<1>4. RetiredInv'
  BY <1>1, <1>2 DEF WithdrawInv, RetiredInv
<1>5. PurgedInv'
  BY <1>1, <1>2 DEF WithdrawInv, PurgedInv
<1>6. QED
  BY <1>3, <1>4, <1>5 DEF WithdrawInv

LEMMA RotationKeepsWithdrawal ==
  ASSUME TypeOK, TypeOK', OrderInv, RotatorInv, WithdrawInv, NEW n \in Node,
         \/ BootRead(n) \/ BootInsert(n) \/ Crash(n) \/ Fail(n) \/ CheckDue(n)
         \/ ReadOld(n) \/ ReadNext(n) \/ Promote(n) \/ InsertNext(n)
  PROVE  WithdrawInv'
<1>1. RotationClock
  BY DEF WithdrawInv, ClockInv, RotationClock
<1>2. now' = now /\ until' = until
  BY DEF BootRead, BootInsert, Crash, Fail, CheckDue, ReadOld, ReadNext, Promote, InsertNext,
         signers
<1>3. \A m \in Node : /\ cache'[m] = cache[m] \/ cache'[m] = NoSigner
                      /\ loading'[m] = loading[m] \/ loading'[m] = NoSigner
  BY DEF BootRead, BootInsert, Crash, Fail, CheckDue, ReadOld, ReadNext, Promote, InsertNext,
         signers, ClearKeyCache, TypeOK
<1>4. \A k \in Key : turn[k] > 0 => turn'[k] > 0
  BY DEF BootRead, BootInsert, Crash, Fail, CheckDue, ReadOld, ReadNext, Promote, InsertNext,
         order, Stamp, TypeOK
<1>5. \A k \in Key : keys'[k] = keys[k] \/ keys'[k].st \notin {"retired", "purged"}
  <2>1. CASE UNCHANGED keys
    BY <2>1
  <2>2. CASE Promote(n)
    BY <2>2 DEF Promote, RotatorInv, TypeOK, KeyRow
  <2>3. CASE BootInsert(n)
    BY <2>3 DEF BootInsert, InsertKeyRow, NewRow, TypeOK
  <2>4. CASE InsertNext(n)
    BY <2>4 DEF InsertNext, InsertKeyRow, NewRow, TypeOK
  <2>5. QED
    BY <2>1, <2>2, <2>3, <2>4 DEF BootRead, Crash, Fail, CheckDue, ReadOld, ReadNext
<1>6. RotationClock'
  <2>1. \A m \in Node \ {n} : pc'[m] = pc[m] /\ t0'[m] = t0[m]
    BY DEF BootRead, BootInsert, Crash, Fail, CheckDue, ReadOld, ReadNext, Promote, InsertNext,
           GoTo, Forget, TypeOK
  <2>2. pc'[n] \in {"promote", "retire", "insert"} =>
          \/ t0'[n] = now
          \/ t0'[n] = t0[n] /\ pc[n] = "promote"
    BY DEF BootRead, BootInsert, Crash, Fail, CheckDue, ReadOld, ReadNext, Promote, InsertNext,
           GoTo, Forget, TypeOK
  <2>3. QED
    BY <1>1, <1>2, <2>1, <2>2, Times DEF RotationClock, TypeOK
<1>7. QED
  BY <1>2, <1>3, <1>4, <1>5, <1>6, QuietStepKeepsWithdrawal

(* The grace period outlasts whatever still signs with the key being retired.       *)
LEMMA RetireKeepsWithdrawal ==
  ASSUME TypeOK, TypeOK', RotatorInv, WithdrawInv, NEW n \in Node, Retire(n)
  PROVE  WithdrawInv'
<1> DEFINE x == old[n]
<1>1. x \in Key /\ t0[n] <= now /\ now <= t0[n] + Lag
  BY DEF Retire, RotatorInv, WithdrawInv, ClockInv
<1>2. /\ keys[x].st = "purged" => keys'[x] = keys[x]
      /\ keys[x].st # "purged" => keys'[x].st = "retired" /\ keys'[x].expires = t0[n] + Grace
      /\ \A k \in Key \ {x} : keys'[k] = keys[k]
  BY <1>1 DEF Retire, TypeOK, KeyRow
<1>3. UNCHANGED <<now, t0, cache, loading, until, turn>>
  BY DEF Retire, signers, order
<1>4. /\ now \in Nat /\ until \in [Key -> Nat] /\ t0[n] \in Nat
      /\ \A m \in Node : /\ cache[m].kid \in Key \cup {None} /\ loading[m].kid \in Key \cup {None}
                         /\ cache[m].time \in Nat /\ loading[m].time \in Nat
      /\ None \notin Key
  BY NoneAssumption DEF TypeOK, Signer
<1> HIDE DEF x
<1>5. ClockInv'
  <2>1. \A m \in Node : pc'[m] \in {"promote", "retire", "insert"} =>
                          pc[m] \in {"promote", "retire", "insert"}
    BY DEF Retire, GoTo, TypeOK
  <2>2. QED
    BY <1>3, <2>1 DEF WithdrawInv, ClockInv
<1>6. RetiredInv'
  <2> SUFFICES ASSUME NEW k \in Key, keys'[k].st = "retired"
               PROVE  /\ until[k] <= keys'[k].expires
                      /\ \A m \in Node :
                           /\ cache[m].kid = k => cache[m].time + CacheTTL + TokenLife <= keys'[k].expires
                           /\ loading[m].kid = k =>
                                loading[m].time + Lag + CacheTTL + TokenLife <= keys'[k].expires
    BY <1>3 DEF RetiredInv
  <2>1. CASE keys'[k] = keys[k]
    BY <2>1 DEF WithdrawInv, RetiredInv
  <2>2. CASE k = x /\ keys[x].st # "purged"
    <3>1. keys'[k].expires = t0[n] + Grace
      BY <2>2, <1>2
    <3>2. t0[n] + Grace >= now + Lag + CacheTTL + TokenLife
      BY <1>1, <1>4, Times, GraceAssumption
    <3>3. until[k] <= now + TokenLife
      BY DEF WithdrawInv, ClockInv
    <3>4. \A m \in Node : /\ cache[m].kid = k => cache[m].time <= now
                          /\ loading[m].kid = k => loading[m].time <= now
      BY <1>4 DEF WithdrawInv, ClockInv
    <3>5. QED
      BY <3>1, <3>2, <3>3, <3>4, <1>4, Times
  <2>3. QED
    BY <2>1, <2>2, <1>2
<1>7. PurgedInv'
  <2>1. \A k \in Key : keys'[k].st = "purged" => keys'[k] = keys[k]
    BY <1>2
  <2>2. QED
    BY <1>3, <2>1 DEF WithdrawInv, PurgedInv
<1>8. QED
  BY <1>5, <1>6, <1>7 DEF WithdrawInv

LEMMA PurgeKeepsWithdrawal ==
  ASSUME TypeOK, TypeOK', WithdrawInv, PurgeKeys
  PROVE  WithdrawInv'
<1>1. UNCHANGED <<now, pc, t0, cache, loading, until, turn>>
  BY DEF PurgeKeys, signers, order
<1>2. \A k \in Key : \/ keys'[k] = keys[k]
                     \/ /\ keys[k].st = "retired" /\ keys[k].expires < now
                        /\ keys'[k].st = "purged"
  BY DEF PurgeKeys, TypeOK, KeyRow
<1>3. /\ now \in Nat /\ until \in [Key -> Nat]
      /\ \A k \in Key : keys[k].expires \in Nat
      /\ \A m \in Node : /\ cache[m].kid \in Key \cup {None} /\ loading[m].kid \in Key \cup {None}
                         /\ cache[m].time \in Nat /\ loading[m].time \in Nat
      /\ None \notin Key
  BY NoneAssumption DEF TypeOK, Signer, KeyRow
<1>4. ClockInv'
  BY <1>1 DEF WithdrawInv, ClockInv
<1>5. RetiredInv'
  BY <1>1, <1>2 DEF WithdrawInv, RetiredInv
<1>6. PurgedInv'
  <2> SUFFICES ASSUME NEW k \in Key, keys'[k].st = "purged"
               PROVE  /\ until[k] <= now
                      /\ \A m \in Node : /\ cache[m].kid = k => cache[m].time + CacheTTL <= now
                                         /\ loading[m].kid # k
    BY <1>1 DEF PurgedInv
  <2>1. CASE keys'[k] = keys[k]
    BY <2>1 DEF WithdrawInv, PurgedInv
  <2>2. CASE keys[k].st = "retired" /\ keys[k].expires < now
    <3>1. until[k] <= now
      BY <2>2, <1>3 DEF WithdrawInv, RetiredInv
    <3>2. \A m \in Node : cache[m].kid = k => cache[m].time + CacheTTL <= now
      BY <2>2, <1>3, Times DEF WithdrawInv, RetiredInv
    <3>3. \A m \in Node : loading[m].kid # k
      BY <2>2, <1>3, Times DEF WithdrawInv, RetiredInv, ClockInv
    <3>4. QED
      BY <3>1, <3>2, <3>3
  <2>3. QED
    BY <2>1, <2>2, <1>2
<1>7. QED
  BY <1>4, <1>5, <1>6 DEF WithdrawInv

LEMMA SigningKeepsWithdrawal ==
  ASSUME TypeOK, TypeOK', OrderInv, WithdrawInv, NEW n \in Node,
         LoadSigner(n) \/ StoreSigner(n) \/ Sign(n)
  PROVE  WithdrawInv'
<1>1. UNCHANGED <<now, t0, keys, pc, turn>>
  BY DEF LoadSigner, StoreSigner, Sign, clocks, order
<1>2. /\ now \in Nat /\ until \in [Key -> Nat] /\ turn \in [Key -> Nat]
      /\ \A k \in Key : keys[k].expires \in Nat
      /\ cache \in [Node -> Signer] /\ loading \in [Node -> Signer]
      /\ None \notin Key /\ NoSigner.kid = None
  BY NoneAssumption DEF TypeOK, KeyRow, NoSigner
<1>3. \A m \in Node :
        /\ cache[m].kid \in Key \cup {None} /\ loading[m].kid \in Key \cup {None}
        /\ cache[m].time \in Nat /\ loading[m].time \in Nat
  BY <1>2 DEF Signer
<1>4. CASE LoadSigner(n)
  <2>1. PICK k \in Key : /\ keys[k].st = "active"
                         /\ loading' = [loading EXCEPT ![n] = [kid |-> k, time |-> now]]
    BY <1>4 DEF LoadSigner, With
  <2>2. /\ loading'[n].kid = k /\ loading'[n].time = now
        /\ \A m \in Node \ {n} : loading'[m] = loading[m]
    BY <2>1, <1>2
  <2>3. turn[k] > 0
    BY <2>1, <1>2 DEF OrderInv
  <2>4. UNCHANGED <<cache, until>>
    BY <1>4 DEF LoadSigner
  <2>5. ClockInv'
    BY <1>1, <1>2, <2>2, <2>3, <2>4, Times DEF WithdrawInv, ClockInv
  <2>6. RetiredInv'
    BY <1>1, <1>2, <2>1, <2>2, <2>4 DEF WithdrawInv, RetiredInv
  <2>7. PurgedInv'
    BY <1>1, <1>2, <2>1, <2>2, <2>4 DEF WithdrawInv, PurgedInv
  <2>8. QED
    BY <2>5, <2>6, <2>7 DEF WithdrawInv
<1>5. CASE StoreSigner(n)
  <2> DEFINE x == loading[n].kid
  <2>1. /\ x \in Key /\ turn[x] > 0 /\ loading[n].time <= now /\ now <= loading[n].time + Lag
    BY <1>5, <1>3 DEF StoreSigner, WithdrawInv, ClockInv
  <2>2. /\ cache'[n].kid = x /\ cache'[n].time = now
        /\ loading'[n] = NoSigner
        /\ \A m \in Node \ {n} : cache'[m] = cache[m] /\ loading'[m] = loading[m]
    BY <1>5, <1>2 DEF StoreSigner
  <2>3. until'[x] = now + TokenLife /\ \A k \in Key \ {x} : until'[k] = until[k]
    BY <1>5, <1>2, <2>1 DEF StoreSigner
  <2>4. keys[x].st = "retired" => now + CacheTTL + TokenLife <= keys[x].expires
    BY <2>1, <1>2, <1>3, Times DEF WithdrawInv, RetiredInv
  <2>5. keys[x].st # "purged"
    BY <2>1 DEF WithdrawInv, PurgedInv
  <2> HIDE DEF x
  <2>6. ClockInv'
    BY <1>1, <1>2, <2>1, <2>2, <2>3, Times DEF WithdrawInv, ClockInv
  <2>7. RetiredInv'
    BY <1>1, <1>2, <2>1, <2>2, <2>3, <2>4, Times DEF WithdrawInv, RetiredInv
  <2>8. PurgedInv'
    BY <1>1, <1>2, <2>1, <2>2, <2>3, <2>5 DEF WithdrawInv, PurgedInv
  <2>9. QED
    BY <2>6, <2>7, <2>8 DEF WithdrawInv
<1>6. CASE Sign(n)
  <2> DEFINE x == cache[n].kid
  <2>1. /\ x \in Key /\ turn[x] > 0 /\ now < cache[n].time + CacheTTL
    BY <1>6, <1>3 DEF Sign, Cached, WithdrawInv, ClockInv
  <2>2. until'[x] = now + TokenLife /\ \A k \in Key \ {x} : until'[k] = until[k]
    BY <1>6, <1>2, <2>1 DEF Sign
  <2>3. keys[x].st = "retired" => now + TokenLife <= keys[x].expires
    BY <2>1, <1>2, <1>3, Times DEF WithdrawInv, RetiredInv
  <2>4. keys[x].st # "purged"
    BY <2>1, <1>2, <1>3, Times DEF WithdrawInv, PurgedInv
  <2>5. UNCHANGED <<cache, loading>>
    BY <1>6 DEF Sign
  <2> HIDE DEF x
  <2>6. ClockInv'
    BY <1>1, <1>2, <2>1, <2>2, <2>5, Times DEF WithdrawInv, ClockInv
  <2>7. RetiredInv'
    BY <1>1, <1>2, <2>1, <2>2, <2>3, <2>5, Times DEF WithdrawInv, RetiredInv
  <2>8. PurgedInv'
    BY <1>1, <1>2, <2>1, <2>2, <2>4, <2>5 DEF WithdrawInv, PurgedInv
  <2>9. QED
    BY <2>6, <2>7, <2>8 DEF WithdrawInv
<1>7. QED
  BY <1>4, <1>5, <1>6

LEMMA TickKeepsWithdrawal ==
  ASSUME TypeOK, TypeOK', WithdrawInv, Tick
  PROVE  WithdrawInv'
<1>1. /\ UNCHANGED <<t0, keys, pc, turn, cache, loading, until>>
      /\ now' = now + 1
  BY DEF Tick, signers, order
<1>2. /\ now \in Nat /\ until \in [Key -> Nat] /\ t0 \in [Node -> Nat]
      /\ \A m \in Node : cache[m].time \in Nat /\ loading[m].time \in Nat
  BY DEF TypeOK, Signer
<1>3. \A n \in Node : /\ pc[n] \in {"promote", "retire", "insert"} => now < t0[n] + Lag
                      /\ loading[n].kid # None => now < loading[n].time + Lag
  BY DEF Tick
<1>4. ClockInv'
  BY <1>1, <1>2, <1>3, Times DEF WithdrawInv, ClockInv
<1>5. RetiredInv'
  BY <1>1 DEF WithdrawInv, RetiredInv
<1>6. PurgedInv'
  BY <1>1, <1>2, Times DEF WithdrawInv, PurgedInv
<1>7. QED
  BY <1>4, <1>5, <1>6 DEF WithdrawInv

LEMMA StepKeepsWithdrawal ==
  TypeOK /\ OrderInv /\ RotatorInv /\ WithdrawInv /\ [Next]_vars => WithdrawInv'
<1> SUFFICES ASSUME TypeOK, OrderInv, RotatorInv, WithdrawInv, [Next]_vars PROVE WithdrawInv'
  OBVIOUS
<1>1. TypeOK'
  BY StepKeepsTypes
<1>2. ASSUME NEW n \in Node,
             \/ BootRead(n) \/ BootInsert(n) \/ Crash(n) \/ Fail(n) \/ CheckDue(n)
             \/ ReadOld(n) \/ ReadNext(n) \/ Promote(n) \/ InsertNext(n)
      PROVE  WithdrawInv'
  BY <1>1, <1>2, RotationKeepsWithdrawal
<1>3. ASSUME NEW n \in Node, Retire(n)
      PROVE  WithdrawInv'
  BY <1>1, <1>3, RetireKeepsWithdrawal
<1>4. ASSUME NEW n \in Node, LoadSigner(n) \/ StoreSigner(n) \/ Sign(n)
      PROVE  WithdrawInv'
  BY <1>1, <1>4, SigningKeepsWithdrawal
<1>5. CASE PurgeKeys
  BY <1>1, <1>5, PurgeKeepsWithdrawal
<1>6. CASE Tick
  BY <1>1, <1>6, TickKeepsWithdrawal
<1>7. CASE UNCHANGED vars
  BY <1>7 DEF vars, WithdrawInv, ClockInv, RetiredInv, PurgedInv
<1>8. QED
  BY <1>2, <1>3, <1>4, <1>5, <1>6, <1>7 DEF Next

LEMMA KeysHold == Spec => []KeyInv
<1>1. Init => WithdrawInv
  <2>1. Init => ClockInv
    BY Times DEF Init, ClockInv, NoSigner
  <2>2. Init => RetiredInv /\ PurgedInv
    BY DEF Init, RetiredInv, PurgedInv
  <2>3. QED
    BY <2>1, <2>2 DEF WithdrawInv
<1>2. Spec => []WithdrawInv
  BY <1>1, StepKeepsWithdrawal, OrderHolds, PTL DEF Spec
<1>3. TypeOK /\ OrderInv /\ RotatorInv /\ WithdrawInv => KeyInv
  BY DEF WithdrawInv, KeyInv
<1>4. QED
  BY <1>2, <1>3, OrderHolds, PTL

(* A token that has not expired can be verified: the 24 h grace of keys.service.ts:16 *)
(* covers the time a rotation, a cached signer and the token's own life can take, for   *)
(* every number of replicas and rotations and any constants that respect               *)
(* GraceAssumption.                                                                     *)
THEOREM SignedTokensVerifyTheorem == Spec => []SignedTokensVerify
<1>1. KeyInv => SignedTokensVerify
  <2> SUFFICES ASSUME KeyInv, NEW k \in Key, now < until[k] PROVE Published(k)
    BY DEF SignedTokensVerify
  <2>1. /\ now \in Nat /\ until[k] \in Nat /\ keys[k] \in KeyRow /\ turn[k] \in Nat
    BY DEF KeyInv, TypeOK
  <2>2. turn[k] > 0
    BY <2>1 DEF KeyInv, ClockInv
  <2>3. keys[k].st \in {"active", "retired", "purged"}
    BY <2>1, <2>2 DEF KeyInv, OrderInv, KeyRow
  <2>4. keys[k].st # "purged"
    BY <2>1 DEF KeyInv, PurgedInv
  <2>5. keys[k].st = "retired" => keys[k].expires > now
    BY <2>1 DEF KeyInv, RetiredInv, KeyRow
  <2>6. QED
    BY <2>3, <2>4, <2>5 DEF Published
<1>2. QED
  BY <1>1, KeysHold, PTL
--------------------------------------------------------------------------------
(* A key is published for max-age before it signs, as long as no two rotations overlap and *)
(* none dies halfway.                                                                       *)

(* A boot works on what it read a moment ago, alone; keys are not created in the future.  *)
BootInv ==
  /\ \A m, n \in Node : pc[m] = "boot" /\ pc[n] = "boot" => m = n
  /\ \A n \in Node : pc[n] = "boot" => t0[n] <= now /\ now <= t0[n] + Lag
  /\ \A k \in Key : keys[k].created <= now

(* The active key that stays: not the one that a rotation has read and is about to retire. *)
Stays(k) == keys[k].st = "active" /\ \A n \in Node : pc[n] = "retire" => old[n] # k

(* One rotation at a time, which promotes a row that is still "next" and leaves one key    *)
(* active.                                                                                  *)
AloneInv ==
  /\ \A m, n \in Node : pc[m] \in Steps /\ pc[n] \in Steps => m = n
  /\ \A i, j \in Key : Stays(i) /\ Stays(j) => i = j
  /\ \A n \in Node :
       /\ pc[n] \in {"next", "promote"} => keys[old[n]].st = "active"
       /\ pc[n] = "promote" => keys[nxt[n]].st = "next"
       /\ pc[n] \in {"retire", "insert"} =>
            nxt[n] \in Key /\ Stays(nxt[n]) /\ keys[nxt[n]].activated = t0[n]

(* The "next" row is made within two operations of the promotion that used up the one     *)
(* before, by the rotation or by a boot that found none; so it is old when the active key  *)
(* is due.                                                                                  *)
EarlyInv ==
  /\ turns > 0 /\ With("next") = {} => \E n \in Node : pc[n] \in {"retire", "insert"}
  /\ \A j \in Key : Stays(j) =>
       /\ \A k \in Key : keys[k].st = "next" => keys[k].created <= keys[j].activated + Lag + Lag
       /\ \A n \in Node : pc[n] = "boot" => t0[n] <= keys[j].activated + Lag
       /\ \A n \in Node : pc[n] \in {"old", "next", "promote"} => keys[j].activated + Period <= now
  /\ \A k \in Key : turn[k] > 1 => keys[k].created + MaxAge <= now

KnownInv == BootInv /\ (disturbed \/ (AloneInv /\ EarlyInv))

(* What a step of an undisturbed system may rely on.                                        *)
Calm == KeyInv /\ BootInv /\ AloneInv /\ EarlyInv

(* What the next state needs of the types, once for all steps.                             *)
LEMMA CalmTypes ==
  ASSUME TypeOK
  PROVE  /\ now \in Nat /\ turns \in Nat /\ turn \in [Key -> Nat] /\ t0 \in [Node -> Nat]
         /\ old \in [Node -> Key \cup {None}] /\ nxt \in [Node -> Key \cup {None}]
         /\ DOMAIN pc = Node /\ DOMAIN keys = Key
         /\ \A k \in Key : /\ keys[k].created \in Nat /\ keys[k].activated \in Nat
                           /\ keys[k].st \in {"absent", "next", "active", "retired", "purged"}
  BY DEF TypeOK, KeyRow

(* Promotion and retirement leave a row's date of creation alone.                          *)
LEMMA OnlyFields ==
  ASSUME TypeOK, NEW k \in Key, NEW v
  PROVE  /\ [keys[k] EXCEPT !.st = "active", !.activated = v].created = keys[k].created
         /\ [keys[k] EXCEPT !.st = "retired", !.expires = v].created = keys[k].created
         /\ [keys[k] EXCEPT !.st = "retired", !.expires = v].activated = keys[k].activated
  BY DEF TypeOK, KeyRow

(* A boot is alone by its lock, and no operation takes longer than Lag.                    *)
LEMMA StepKeepsBoot ==
  ASSUME TypeOK, TypeOK', BootInv, [Next]_vars
  PROVE  BootInv'
<1> USE CalmTypes, Times DEF BootInv
<1>1. CASE \E n \in Node : BootRead(n)
  BY <1>1 DEF BootRead, GoTo
<1>2. CASE \E n \in Node : BootInsert(n)
  <2>1. PICK n \in Node : BootInsert(n)
    BY <1>2
  <2>2. \A m \in Node : pc'[m] = "boot" => pc[m] = "boot" /\ t0'[m] = t0[m] /\ m # n
    BY <2>1 DEF BootInsert, GoTo, Forget
  <2>3. \A k \in Key : keys'[k] = keys[k] \/ keys'[k].created = now
    BY <2>1 DEF BootInsert, InsertKeyRow, NewRow
  <2>4. now' = now
    BY <2>1 DEF BootInsert
  <2>5. QED
    BY <2>2, <2>3, <2>4
<1>3. CASE \E n \in Node : Crash(n) \/ Fail(n)
  <2>1. PICK n \in Node : Crash(n) \/ Fail(n)
    BY <1>3
  <2>2. \A m \in Node : pc'[m] = "boot" => pc[m] = "boot" /\ t0'[m] = t0[m]
    BY <2>1 DEF Crash, Fail, GoTo, Forget, Steps
  <2>3. keys' = keys /\ now' = now
    BY <2>1 DEF Crash, Fail
  <2>4. QED
    BY <2>2, <2>3
<1>4. CASE \E n \in Node : CheckDue(n) \/ ReadOld(n) \/ ReadNext(n) \/ Promote(n) \/ Retire(n)
  <2>1. PICK n \in Node : CheckDue(n) \/ ReadOld(n) \/ ReadNext(n) \/ Promote(n) \/ Retire(n)
    BY <1>4
  <2>2. \A m \in Node : pc'[m] = "boot" => pc[m] = "boot" /\ t0'[m] = t0[m]
    BY <2>1 DEF CheckDue, ReadOld, ReadNext, Promote, Retire, GoTo, Forget
  <2>3. \A k \in Key : keys'[k].created = keys[k].created
    <3>1. CASE CheckDue(n) \/ ReadOld(n) \/ ReadNext(n)
      BY <3>1 DEF CheckDue, ReadOld, ReadNext
    <3>2. CASE Promote(n)
      BY <3>2, OnlyFields DEF Promote
    <3>3. CASE Retire(n)
      BY <3>3, OnlyFields DEF Retire
    <3>4. QED
      BY <2>1, <3>1, <3>2, <3>3
  <2>4. now' = now
    BY <2>1 DEF CheckDue, ReadOld, ReadNext, Promote, Retire
  <2>5. QED
    BY <2>2, <2>3, <2>4
<1>5. CASE \E n \in Node : InsertNext(n)
  <2>1. PICK n \in Node : InsertNext(n)
    BY <1>5
  <2>2. \A m \in Node : pc'[m] = "boot" => pc[m] = "boot" /\ t0'[m] = t0[m]
    BY <2>1 DEF InsertNext, GoTo, Forget
  <2>3. \A k \in Key : keys'[k] = keys[k] \/ keys'[k].created = now
    BY <2>1 DEF InsertNext, InsertKeyRow, NewRow
  <2>4. now' = now
    BY <2>1 DEF InsertNext
  <2>5. QED
    BY <2>2, <2>3, <2>4
<1>6. CASE \/ \E n \in Node : LoadSigner(n) \/ StoreSigner(n) \/ Sign(n)
           \/ UNCHANGED vars
  <2>1. UNCHANGED <<now, keys, pc, t0>>
    BY <1>6 DEF LoadSigner, StoreSigner, Sign, clocks, vars
  <2>2. QED
    BY <2>1
<1>7. CASE PurgeKeys
  <2>1. \A k \in Key : keys'[k].created = keys[k].created
    BY <1>7 DEF PurgeKeys
  <2>2. QED
    BY <1>7, <2>1 DEF PurgeKeys
<1>8. CASE Tick
  BY <1>8 DEF Tick
<1>9. QED
  BY <1>1, <1>2, <1>3, <1>4, <1>5, <1>6, <1>7, <1>8 DEF Next

(* Steps that write no key: boots that begin, processes that die outside a rotation, the   *)
(* reads of a rotation, and signing.                                                       *)
LEMMA BootReadStaysCalm ==
  ASSUME TypeOK', Calm, NEW n \in Node, BootRead(n)
  PROVE  AloneInv' /\ EarlyInv'
<1> USE DEF Calm, KeyInv
<1>1. /\ UNCHANGED <<now, keys, old, nxt, turn, turns>>
      /\ \A m \in Node : m # n => pc'[m] = pc[m] /\ t0'[m] = t0[m]
      /\ pc[n] = "down" /\ pc'[n] \in {"boot", "up"}
  BY CalmTypes DEF BootRead, GoTo, order
<1>2. \A m \in Node : pc'[m] \in Steps <=> pc[m] \in Steps
  BY <1>1 DEF Steps
<1>3. \A k \in Key : Stays(k)' <=> Stays(k)
  BY <1>1 DEF Stays
<1>4. AloneInv'
  BY <1>1, <1>2, <1>3 DEF AloneInv
<1>5. ASSUME NEW j \in Key, Stays(j), pc'[n] = "boot" PROVE t0'[n] <= keys[j].activated + Lag
  <2>1. keys[j].st = "active" /\ t0'[n] = now
    BY <1>5, CalmTypes DEF Stays, BootRead, GoTo
  <2>2. With("next") = {} /\ turns > 0
    <3>1. With("active") # {}
      BY <2>1 DEF With
    <3>2. turns > 0
      BY <2>1, CalmTypes DEF OrderInv
    <3>3. QED
      BY <1>5, <3>1, <3>2, CalmTypes DEF BootRead, GoTo
  <2>3. PICK m \in Node : pc[m] \in {"retire", "insert"}
    BY <2>2 DEF EarlyInv
  <2>4. nxt[m] \in Key /\ Stays(nxt[m]) /\ keys[nxt[m]].activated = t0[m]
    BY <2>3 DEF AloneInv
  <2>5. nxt[m] = j
    BY <1>5, <2>4 DEF AloneInv
  <2>6. now <= t0[m] + Lag
    BY <2>3 DEF ClockInv
  <2>7. QED
    BY <2>1, <2>4, <2>5, <2>6
<1>6. EarlyInv'
  <2>1. turns' > 0 /\ With("next")' = {} => \E m \in Node : pc'[m] \in {"retire", "insert"}
    BY <1>1 DEF EarlyInv, With
  <2>2. ASSUME NEW j \in Key, Stays(j)'
        PROVE  \A m \in Node : pc'[m] = "boot" => t0'[m] <= keys'[j].activated + Lag
    BY <1>1, <1>3, <1>5, <2>2 DEF EarlyInv
  <2>3. ASSUME NEW j \in Key, Stays(j)'
        PROVE  /\ \A k \in Key : keys'[k].st = "next" => keys'[k].created <= keys'[j].activated + Lag + Lag
               /\ \A m \in Node : pc'[m] \in {"old", "next", "promote"} => keys'[j].activated + Period <= now'
    BY <1>1, <1>3, <2>3 DEF EarlyInv
  <2>4. \A k \in Key : turn'[k] > 1 => keys'[k].created + MaxAge <= now'
    BY <1>1 DEF EarlyInv
  <2>5. QED
    BY <2>1, <2>2, <2>3, <2>4 DEF EarlyInv
<1>7. QED
  BY <1>4, <1>6

LEMMA DyingStaysCalm ==
  ASSUME TypeOK', Calm, NEW n \in Node, Crash(n), ~disturbed'
  PROVE  AloneInv' /\ EarlyInv'
<1> USE DEF Calm, KeyInv
<1>1. /\ UNCHANGED <<now, keys, turn, turns>>
      /\ \A m \in Node : m # n => /\ pc'[m] = pc[m] /\ t0'[m] = t0[m]
                                  /\ old'[m] = old[m] /\ nxt'[m] = nxt[m]
      /\ pc[n] \notin Steps /\ pc'[n] = "down"
  BY CalmTypes DEF Crash, GoTo, Forget, order
<1>2. \A k \in Key : Stays(k)' <=> Stays(k)
  BY <1>1 DEF Stays, Steps
<1>3. AloneInv'
  BY <1>1, <1>2 DEF AloneInv, Steps
<1>4. EarlyInv'
  BY <1>1, <1>2 DEF EarlyInv, With, Steps
<1>5. QED
  BY <1>3, <1>4

LEMMA CheckDueStaysCalm ==
  ASSUME TypeOK', Calm, NEW n \in Node, CheckDue(n), ~disturbed'
  PROVE  AloneInv' /\ EarlyInv'
<1> USE DEF Calm, KeyInv
<1>1. /\ UNCHANGED <<now, keys, old, nxt, t0, turn, turns>>
      /\ \A m \in Node : m # n => pc'[m] = pc[m] /\ pc[m] \notin Steps
      /\ pc[n] = "up" /\ pc'[n] = "old"
  BY CalmTypes DEF CheckDue, GoTo, order, signers
<1>2. PICK d \in Key : Due(d)
  BY DEF CheckDue
<1>3. \A k \in Key : /\ Stays(k) <=> keys[k].st = "active"
                     /\ Stays(k)' <=> keys[k].st = "active"
  BY <1>1 DEF Stays, Steps
<1>4. AloneInv'
  BY <1>1, <1>3 DEF AloneInv, Steps
<1>5. \A j \in Key : Stays(j) => keys[j].activated + Period <= now
  BY <1>2, <1>3, CalmTypes, Times DEF Due, AloneInv
<1>6. EarlyInv'
  BY <1>1, <1>3, <1>5 DEF EarlyInv, With, Steps
<1>7. QED
  BY <1>4, <1>6

LEMMA ReadOldStaysCalm ==
  ASSUME TypeOK', Calm, NEW n \in Node, ReadOld(n)
  PROVE  AloneInv' /\ EarlyInv'
<1> USE DEF Calm, KeyInv
<1>1. /\ UNCHANGED <<now, keys, nxt, t0, turn, turns>>
      /\ \A m \in Node : m # n => pc'[m] = pc[m] /\ old'[m] = old[m]
      /\ pc[n] = "old" /\ pc'[n] = "next" /\ keys[old'[n]].st = "active"
  BY CalmTypes DEF ReadOld, GoTo, order, signers, With
<1>2. \A k \in Key : Stays(k)' <=> Stays(k)
  BY <1>1 DEF Stays
<1>3. AloneInv'
  BY <1>1, <1>2 DEF AloneInv, Steps
<1>4. EarlyInv'
  BY <1>1, <1>2 DEF EarlyInv, With
<1>5. QED
  BY <1>3, <1>4

LEMMA ReadNextStaysCalm ==
  ASSUME TypeOK', Calm, NEW n \in Node, ReadNext(n)
  PROVE  AloneInv' /\ EarlyInv'
<1> USE DEF Calm, KeyInv
<1>1. /\ UNCHANGED <<now, keys, turn, turns>>
      /\ \A m \in Node : m # n => /\ pc'[m] = pc[m] /\ t0'[m] = t0[m]
                                  /\ old'[m] = old[m] /\ nxt'[m] = nxt[m]
      /\ pc[n] = "next"
  BY CalmTypes DEF ReadNext, GoTo, Forget, order, signers
<1>2. \/ pc'[n] = "up"
      \/ pc'[n] = "promote" /\ old'[n] = old[n] /\ keys[nxt'[n]].st = "next"
  BY CalmTypes DEF ReadNext, GoTo, With
<1>3. \A k \in Key : Stays(k)' <=> Stays(k)
  BY <1>1, <1>2 DEF Stays
<1>4. AloneInv'
  BY <1>1, <1>2, <1>3 DEF AloneInv, Steps
<1>5. EarlyInv'
  BY <1>1, <1>2, <1>3 DEF EarlyInv, With
<1>6. QED
  BY <1>4, <1>5

LEMMA SigningStaysCalm ==
  ASSUME Calm, UNCHANGED <<now, keys, pc, old, nxt, t0, turn, turns>>
  PROVE  AloneInv' /\ EarlyInv'
<1>1. \A k \in Key : Stays(k)' <=> Stays(k)
  BY DEF Stays
<1>2. QED
  BY <1>1 DEF Calm, AloneInv, EarlyInv, With

LEMMA PurgeStaysCalm ==
  ASSUME TypeOK', Calm, PurgeKeys
  PROVE  AloneInv' /\ EarlyInv'
<1> USE DEF Calm, KeyInv
<1>1. /\ UNCHANGED <<now, pc, old, nxt, t0, turn, turns>>
      /\ \A k \in Key : \/ keys'[k] = keys[k]
                        \/ /\ keys[k].st = "retired" /\ keys'[k].st = "purged"
                           /\ keys'[k].created = keys[k].created
  BY CalmTypes DEF PurgeKeys, order, signers
<1>2. \A k \in Key : Stays(k)' <=> Stays(k)
  BY <1>1 DEF Stays
<1>3. AloneInv'
  <2>1. \A k \in Key : keys[k].st \in {"active", "next"} => keys'[k] = keys[k]
    BY <1>1
  <2>2. \A m \in Node : /\ pc[m] \in {"next", "promote"} => old[m] \in Key
                        /\ pc[m] = "promote" => nxt[m] \in Key
    BY DEF RotatorInv
  <2>3. \A m \in Node : pc[m] \in {"retire", "insert"} => keys[nxt[m]].st = "active"
    BY DEF AloneInv, Stays
  <2>4. QED
    BY <1>1, <1>2, <2>1, <2>2, <2>3 DEF AloneInv
<1>4. EarlyInv'
  <2>1. \A k \in Key : /\ keys'[k].st = "next" <=> keys[k].st = "next"
                       /\ keys'[k].created = keys[k].created
                       /\ Stays(k) => keys'[k] = keys[k]
    BY <1>1 DEF Stays
  <2>2. QED
    BY <1>1, <1>2, <2>1 DEF EarlyInv, With
<1>5. QED
  BY <1>3, <1>4

LEMMA TickStaysCalm ==
  ASSUME TypeOK', Calm, Tick
  PROVE  AloneInv' /\ EarlyInv'
<1> USE DEF Calm, KeyInv
<1>1. UNCHANGED <<keys, pc, old, nxt, t0, turn, turns>> /\ now' = now + 1
  BY DEF Tick, order
<1>2. \A k \in Key : Stays(k)' <=> Stays(k)
  BY <1>1 DEF Stays
<1>3. AloneInv'
  BY <1>1, <1>2 DEF AloneInv
<1>4. EarlyInv'
  <2>1. ASSUME NEW j \in Key, Stays(j)
        PROVE  \A m \in Node : pc[m] \in {"old", "next", "promote"} => keys[j].activated + Period <= now + 1
    BY <2>1, CalmTypes, Times DEF EarlyInv
  <2>2. \A k \in Key : turn[k] > 1 => keys[k].created + MaxAge <= now + 1
    BY CalmTypes, Times DEF EarlyInv
  <2>3. QED
    BY <1>1, <1>2, <2>1, <2>2 DEF EarlyInv, With
<1>5. QED
  BY <1>3, <1>4

(* A new row may be "next": it is made while Lag and Lag again have not passed.            *)
LEMMA NewNextStaysEarly ==
  ASSUME TypeOK, TypeOK', BootInv, EarlyInv, NEW k \in Key,
         UNCHANGED <<now, turn, turns>>,
         keys[k].st = "absent", keys'[k].st = "next", keys'[k].created = now, turn[k] = 0,
         \A j \in Key : j # k => keys'[j] = keys[j],
         \A j \in Key : Stays(j)' => Stays(j) /\ now <= keys[j].activated + Lag + Lag,
         \A m \in Node : /\ pc'[m] = "boot" => pc[m] = "boot" /\ t0'[m] = t0[m]
                         /\ pc'[m] \in {"old", "next", "promote"} => pc[m] = pc'[m]
  PROVE  EarlyInv'
<1>1. \A j \in Key : Stays(j)' => j # k
  BY DEF Stays
<1>2. With("next")' # {}
  BY DEF With
<1>3. ASSUME NEW j \in Key, Stays(j)'
      PROVE  \A i \in Key : keys'[i].st = "next" => keys'[i].created <= keys'[j].activated + Lag + Lag
  <2>1. Stays(j) /\ keys'[j] = keys[j] /\ now <= keys[j].activated + Lag + Lag
    BY <1>1, <1>3
  <2>2. QED
    BY <2>1 DEF EarlyInv
<1>4. ASSUME NEW j \in Key, Stays(j)'
      PROVE  /\ \A m \in Node : pc'[m] = "boot" => t0'[m] <= keys'[j].activated + Lag
             /\ \A m \in Node : pc'[m] \in {"old", "next", "promote"} => keys'[j].activated + Period <= now'
  <2>1. Stays(j) /\ keys'[j] = keys[j]
    BY <1>1, <1>4
  <2>2. QED
    BY <2>1 DEF EarlyInv
<1>5. \A i \in Key : turn'[i] > 1 => keys'[i].created + MaxAge <= now'
  <2>1. ASSUME NEW i \in Key, turn[i] > 1 PROVE keys'[i] = keys[i]
    BY <2>1
  <2>2. QED
    BY <2>1 DEF EarlyInv
<1>6. QED
  BY <1>2, <1>3, <1>4, <1>5 DEF EarlyInv

LEMMA InsertNextStaysCalm ==
  ASSUME TypeOK', Calm, NEW n \in Node, InsertNext(n)
  PROVE  AloneInv' /\ EarlyInv'
<1> USE DEF Calm, KeyInv
<1>1. /\ UNCHANGED <<now, turn, turns>>
      /\ \A m \in Node : m # n => /\ pc'[m] = pc[m] /\ t0'[m] = t0[m]
                                  /\ old'[m] = old[m] /\ nxt'[m] = nxt[m]
      /\ pc[n] = "insert" /\ pc'[n] = "up"
  BY CalmTypes DEF InsertNext, GoTo, Forget, order
<1>2. PICK k \in Key : InsertKeyRow(k, "next")
  BY DEF InsertNext
<1>3. /\ keys[k].st = "absent" /\ keys'[k].st = "next" /\ keys'[k].created = now
      /\ \A j \in Key : j # k => keys'[j] = keys[j]
  BY <1>2, CalmTypes DEF InsertKeyRow, NewRow
<1>4. \A j \in Key : Stays(j)' <=> Stays(j)
  BY <1>1, <1>3 DEF Stays
<1>5. \A m \in Node : m # n => pc[m] \notin Steps
  BY <1>1 DEF AloneInv, Steps
<1>6. AloneInv'
  BY <1>1, <1>4, <1>5 DEF AloneInv, Steps
<1>7. \A j \in Key : Stays(j) => now <= keys[j].activated + Lag + Lag
  <2>1. nxt[n] \in Key /\ Stays(nxt[n]) /\ keys[nxt[n]].activated = t0[n] /\ now <= t0[n] + Lag
    BY <1>1 DEF AloneInv, ClockInv
  <2>2. \A j \in Key : Stays(j) => j = nxt[n]
    BY <2>1 DEF AloneInv
  <2>3. QED
    BY <2>1, <2>2, CalmTypes, Times
<1>8. turn[k] = 0
  BY <1>3 DEF OrderInv
<1>9. QED
  BY <1>1, <1>3, <1>4, <1>6, <1>7, <1>8, NewNextStaysEarly

LEMMA BootInsertStaysCalm ==
  ASSUME TypeOK', Calm, NEW n \in Node, BootInsert(n)
  PROVE  AloneInv' /\ EarlyInv'
<1> USE DEF Calm, KeyInv
<1>1. /\ now' = now
      /\ \A m \in Node : m # n => /\ pc'[m] = pc[m] /\ t0'[m] = t0[m]
                                  /\ old'[m] = old[m] /\ nxt'[m] = nxt[m]
      /\ pc[n] = "boot" /\ pc'[n] = "up"
  BY CalmTypes DEF BootInsert, GoTo, Forget
<1>2. \A m \in Node : m # n => pc'[m] # "boot"
  BY <1>1 DEF BootInv
<1>3. CASE With("active") # {}
  <2>1. PICK k \in Key : InsertKeyRow(k, "next")
    BY <1>3 DEF BootInsert
  <2>2. /\ keys[k].st = "absent" /\ keys'[k].st = "next" /\ keys'[k].created = now
        /\ \A j \in Key : j # k => keys'[j] = keys[j]
    BY <2>1, CalmTypes DEF InsertKeyRow, NewRow
  <2>3. \A j \in Key : Stays(j)' <=> Stays(j)
    BY <1>1, <2>2 DEF Stays
  <2>4. UNCHANGED <<turn, turns>>
    BY <1>3 DEF BootInsert, order
  <2>5. AloneInv'
    <3>1. \A m \in Node : /\ pc[m] \in {"next", "promote"} => old[m] \in Key
                          /\ pc[m] = "promote" => nxt[m] \in Key
      BY DEF RotatorInv
    <3>2. \A j \in Key : keys[j].st \in {"active", "next"} => keys'[j] = keys[j]
      BY <2>2
    <3>3. \A m \in Node : pc[m] \in {"retire", "insert"} => keys[nxt[m]].st = "active"
      BY DEF AloneInv, Stays
    <3>4. QED
      BY <1>1, <2>3, <3>1, <3>2, <3>3 DEF AloneInv, Steps
  <2>6. \A j \in Key : Stays(j) => now <= keys[j].activated + Lag + Lag
    BY <1>1, CalmTypes, Times DEF BootInv, EarlyInv
  <2>7. turn[k] = 0
    BY <2>2 DEF OrderInv
  <2>8. QED
    BY <1>1, <1>2, <2>2, <2>3, <2>4, <2>5, <2>6, <2>7, NewNextStaysEarly
<1>4. CASE With("active") = {}
  <2>1. turns = 0
    <3>1. \A k \in Key : keys[k].st # "active"
      BY <1>4 DEF With
    <3>2. QED
      BY <3>1, CalmTypes DEF OrderInv
  <2>2. \A m \in Node : pc'[m] \notin Steps
    BY <1>1, <2>1 DEF OrderInv, Steps
  <2>3. \A k \in Key : turn[k] = 0 /\ keys[k].st # "active"
    BY <1>4, <2>1, CalmTypes DEF OrderInv, With
  <2>4. PICK j \in With("absent"), k \in With("absent") :
          /\ j # k
          /\ keys' = [keys EXCEPT ![j] = NewRow("active"), ![k] = NewRow("next")]
          /\ Stamp(j)
    BY <1>4 DEF BootInsert
  <2>5. /\ j \in Key /\ k \in Key
        /\ keys'[j] = NewRow("active") /\ keys'[k] = NewRow("next")
        /\ \A i \in Key : i # j /\ i # k => keys'[i] = keys[i]
        /\ \A i \in Key : turn'[i] <= 1
    BY <2>1, <2>3, <2>4, CalmTypes DEF With, Stamp
  <2>6. \A i \in Key : keys'[i].st = "active" => i = j
    BY <2>3, <2>5 DEF NewRow
  <2>7. AloneInv'
    BY <2>2, <2>6 DEF AloneInv, Stays, Steps
  <2>8. EarlyInv'
    <3>1. \A i \in Key : keys'[i].created <= now
      BY <2>5, CalmTypes DEF NewRow, BootInv
    <3>2. keys'[j].activated = now
      BY <2>5 DEF NewRow
    <3>3. With("next")' # {}
      BY <2>5 DEF With, NewRow
    <3>4. \A i \in Key : ~(turn'[i] > 1)
      BY <2>5 DEF TypeOK
    <3>5. ASSUME NEW i \in Key, Stays(i)'
          PROVE  \A h \in Key : keys'[h].created <= keys'[i].activated + Lag + Lag
      <4>1. i = j
        BY <2>6, <3>5 DEF Stays
      <4>2. \A h \in Key : keys'[h].created \in Nat
        BY DEF TypeOK, KeyRow
      <4>3. QED
        BY <3>1, <3>2, <4>1, <4>2, CalmTypes, Times
    <3>6. QED
      BY <1>1, <1>2, <2>2, <3>3, <3>4, <3>5 DEF EarlyInv, Steps
  <2>9. QED
    BY <2>7, <2>8
<1>5. QED
  BY <1>3, <1>4

(* The row promoted was made long before the active key became due.                       *)
LEMMA PromoteStaysCalm ==
  ASSUME TypeOK', Calm, NEW n \in Node, Promote(n)
  PROVE  AloneInv' /\ EarlyInv'
<1> USE DEF Calm, KeyInv
<1> DEFINE k == nxt[n]
<1>1. /\ UNCHANGED <<now, old, nxt, t0>>
      /\ \A m \in Node : m # n => pc'[m] = pc[m] /\ pc[m] \notin Steps
      /\ pc[n] = "promote" /\ pc'[n] = "retire"
  BY CalmTypes DEF Promote, GoTo, AloneInv, Steps
<1>2. /\ k \in Key /\ keys[k].st = "next" /\ turn[k] = 0
      /\ old[n] \in Key /\ keys[old[n]].st = "active" /\ old[n] # k
  BY <1>1 DEF RotatorInv, AloneInv, OrderInv
<1>3. /\ keys'[k].st = "active" /\ keys'[k].activated = t0[n] /\ keys'[k].created = keys[k].created
      /\ \A j \in Key : j # k => keys'[j] = keys[j]
  <2>1. keys' = [keys EXCEPT ![k] = [@ EXCEPT !.st = "active", !.activated = t0[n]]]
    BY <1>2 DEF Promote
  <2>2. QED
    BY <1>2, <2>1 DEF TypeOK, KeyRow
<1>4. \A j \in Key : Stays(j) <=> keys[j].st = "active"
  BY <1>1 DEF Stays, Steps
<1>5. \A j \in Key : Stays(j) => j = old[n]
  BY <1>2, <1>4 DEF AloneInv
<1>6. \A j \in Key : Stays(j)' <=> j = k
  BY <1>1, <1>2, <1>3, <1>4, <1>5 DEF Stays, Steps
<1>7. AloneInv'
  BY <1>1, <1>2, <1>3, <1>6 DEF AloneInv, Steps
<1>8. keys[k].created + MaxAge <= now
  <2>1. /\ keys[k].created <= keys[old[n]].activated + Lag + Lag
        /\ keys[old[n]].activated + Period <= now
    BY <1>1, <1>2, <1>4 DEF EarlyInv
  <2>2. Period >= Lag + Lag + MaxAge
    BY Times, PeriodAssumption
  <2>3. QED
    BY <1>2, <2>1, <2>2, CalmTypes, Times
<1>9. t0[n] \in Nat /\ now <= t0[n] + Lag
  BY <1>1, CalmTypes DEF ClockInv
<1>10. EarlyInv'
  <2>1. \E m \in Node : pc'[m] \in {"retire", "insert"}
    BY <1>1
  <2>2. \A j \in Key : keys'[j].created <= t0[n] + Lag + Lag
    BY <1>3, <1>9, CalmTypes, Times DEF BootInv
  <2>3. \A m \in Node : pc'[m] = "boot" => t0'[m] <= t0[n] + Lag
    BY <1>1, <1>9, CalmTypes, Times DEF BootInv
  <2>4. \A m \in Node : pc'[m] \notin {"old", "next", "promote"}
    BY <1>1 DEF Steps
  <2>5. \A j \in Key : turn'[j] > 1 => keys'[j].created + MaxAge <= now'
    <3>1. \A j \in Key : j # k => turn'[j] = turn[j]
      BY CalmTypes DEF Promote, Stamp
    <3>2. QED
      BY <1>1, <1>3, <1>8, <3>1 DEF EarlyInv
  <2>6. QED
    BY <1>3, <1>6, <2>1, <2>2, <2>3, <2>4, <2>5 DEF EarlyInv
<1>11. QED
  BY <1>7, <1>10

LEMMA RetireStaysCalm ==
  ASSUME TypeOK', Calm, NEW n \in Node, Retire(n)
  PROVE  AloneInv' /\ EarlyInv'
<1> USE DEF Calm, KeyInv
<1> DEFINE k == old[n]
<1>1. /\ UNCHANGED <<now, old, nxt, t0, turn, turns>>
      /\ \A m \in Node : m # n => pc'[m] = pc[m] /\ pc[m] \notin Steps
      /\ pc[n] = "retire" /\ pc'[n] = "insert"
  BY CalmTypes DEF Retire, GoTo, AloneInv, Steps, order
<1>2. k \in Key /\ nxt[n] \in Key /\ Stays(nxt[n]) /\ k # nxt[n]
  BY <1>1, CalmTypes DEF RotatorInv, AloneInv, Stays
<1>3. /\ keys'[k].st \in {"retired", "purged"} /\ keys'[k].created = keys[k].created
      /\ \A j \in Key : j # k => keys'[j] = keys[j]
  <2> DEFINE e == t0[n] + Grace
  <2> HIDE DEF e
  <2>1. keys' = [keys EXCEPT ![k] = IF @.st = "purged" THEN @
                                    ELSE [@ EXCEPT !.st = "retired", !.expires = e]]
    BY DEF Retire, e
  <2>2. QED
    BY <1>2, <2>1 DEF TypeOK, KeyRow
<1>4. \A j \in Key : Stays(j)' <=> Stays(j)
  BY <1>1, <1>2, <1>3 DEF Stays, Steps
<1>5. AloneInv'
  BY <1>1, <1>2, <1>3, <1>4 DEF AloneInv, Steps
<1>6. EarlyInv'
  <2>1. \A j \in Key : /\ keys'[j].st = "next" => keys[j].st = "next"
                       /\ keys'[j].created = keys[j].created
                       /\ Stays(j) => keys'[j] = keys[j]
    BY <1>1, <1>2, <1>3 DEF Stays
  <2>2. \A m \in Node : pc'[m] \notin {"old", "next", "promote"}
    BY <1>1 DEF Steps
  <2>3. \A m \in Node : pc'[m] = "boot" => pc[m] = "boot"
    BY <1>1
  <2>4. QED
    BY <1>1, <1>4, <2>1, <2>2, <2>3 DEF EarlyInv
<1>7. QED
  BY <1>5, <1>6

LEMMA StepStaysKnown ==
  ASSUME KeyInv, KnownInv, [Next]_vars
  PROVE  KnownInv'
<1>1. TypeOK'
  BY StepKeepsTypes DEF KeyInv
<1>2. BootInv'
  BY <1>1, StepKeepsBoot DEF KeyInv, KnownInv
<1>3. disturbed => disturbed'
  BY DEF Next, vars, BootRead, BootInsert, Crash, Fail, CheckDue, ReadOld, ReadNext, Promote, Retire,
         InsertNext, LoadSigner, StoreSigner, Sign, PurgeKeys, Tick
<1>4. ASSUME ~disturbed' PROVE AloneInv' /\ EarlyInv'
  <2>1. Calm
    BY <1>3, <1>4 DEF KnownInv, Calm
  <2>2. ASSUME NEW n \in Node, BootRead(n) \/ BootInsert(n) \/ Crash(n) \/ Fail(n)
        PROVE  AloneInv' /\ EarlyInv'
    BY <1>1, <1>4, <2>1, <2>2, BootReadStaysCalm, BootInsertStaysCalm, DyingStaysCalm DEF Fail
  <2>3. ASSUME NEW n \in Node, CheckDue(n) \/ ReadOld(n) \/ ReadNext(n)
        PROVE  AloneInv' /\ EarlyInv'
    BY <1>1, <1>4, <2>1, <2>3, CheckDueStaysCalm, ReadOldStaysCalm, ReadNextStaysCalm
  <2>4. ASSUME NEW n \in Node, Promote(n) \/ Retire(n) \/ InsertNext(n)
        PROVE  AloneInv' /\ EarlyInv'
    BY <1>1, <2>1, <2>4, PromoteStaysCalm, RetireStaysCalm, InsertNextStaysCalm
  <2>5. CASE \/ \E n \in Node : LoadSigner(n) \/ StoreSigner(n) \/ Sign(n)
             \/ UNCHANGED vars
    <3>1. UNCHANGED <<now, keys, pc, old, nxt, t0, turn, turns>>
      BY <2>5 DEF LoadSigner, StoreSigner, Sign, clocks, order, vars
    <3>2. QED
      BY <2>1, <3>1, SigningStaysCalm
  <2>6. CASE PurgeKeys
    BY <1>1, <2>1, <2>6, PurgeStaysCalm
  <2>7. CASE Tick
    BY <1>1, <2>1, <2>7, TickStaysCalm
  <2>8. QED
    BY <2>2, <2>3, <2>4, <2>5, <2>6, <2>7 DEF Next
<1>5. QED
  BY <1>2, <1>4 DEF KnownInv

(* As long as rotations neither overlap nor die halfway, a relying party that keeps the    *)
(* key set for max-age (well-known.ts:78) knows every kid it meets: the row that            *)
(* keys.service.ts:159 promotes was published before, for every number of replicas and any  *)
(* constants that respect PeriodAssumption.                                                 *)
THEOREM KidKnownUndisturbedTheorem == Spec => []KidKnownUndisturbed
<1>1. Init => KnownInv
  BY Times DEF Init, KnownInv, BootInv, AloneInv, EarlyInv, Stays, Steps
<1>2. Spec => []KnownInv
  BY <1>1, StepStaysKnown, KeysHold, PTL DEF Spec
<1>3. KeyInv /\ KnownInv => KidKnownUndisturbed
  <2> SUFFICES ASSUME KeyInv, KnownInv, ~disturbed, NEW k \in Key, CanSignWith(k), turn[k] # 1
               PROVE  now >= keys[k].created + MaxAge
    BY DEF KidKnownUndisturbed, KidNeverMissed
  <2>1. turn[k] > 1
    <3>1. turn[k] > 0
      BY NoneAssumption DEF CanSignWith, KeyInv, ClockInv
    <3>2. QED
      BY <3>1, CalmTypes DEF KeyInv
  <2>2. keys[k].created + MaxAge <= now
    BY <2>1 DEF KnownInv, EarlyInv
  <2>3. QED
    BY <2>2, CalmTypes, Times DEF KeyInv
<1>4. QED
  BY <1>2, <1>3, KeysHold, PTL
==============================================================================
