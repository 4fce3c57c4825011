---------------------------- MODULE SigningKeys ----------------------------
(* The RS256 keys the identity provider signs tokens with: the boot that makes    *)
(* the first keys, the rotation that the cleanup job runs, the signer each        *)
(* replica caches, and the deletion of retired keys.                              *)
(*                                                                                *)
(* The replicas share the table signing_keys and nothing else.  A step is one SQL *)
(* statement; the cleanup runs under a scheduler lock, but an administrator's      *)
(* POST /maintenance/cleanup-tokens runs it without one, so two rotations may      *)
(* overlap.  A replica runs one rotation at a time here: a second one in the same  *)
(* process interleaves with the first exactly as one of another replica does.      *)
EXTENDS Naturals

CONSTANTS Node,       \* replicas of the server
          Signing,    \* those that are asked for tokens
          Key,        \* the key pairs that may be generated
          None,       \* no key
          Period,     \* ROTATION_PERIOD_MS
          Grace,      \* ROTATION_GRACE_MS
          CacheTTL,   \* CACHE_TTL_MS of the cached signer
          TokenLife,  \* lifetime of a signed token
          MaxAge,     \* Cache-Control max-age of /.well-known/jwks.json
          Lag,        \* bound on the time between the statements of one operation
          MaxTime,    \* bound on the clock
          MaxCrashes  \* bound on the number of crashes and failing statements

ASSUME NoneAssumption == None \notin Key
ASSUME SigningAssumption == Signing \subseteq Node
ASSUME TimeAssumption == {Period, Grace, CacheTTL, TokenLife, MaxAge, Lag, MaxTime, MaxCrashes} \subseteq Nat
(* 24 h of grace against 60 s of cache, 15 min of token and statements that do not *)
(* take hours; 90 days between rotations against 5 min of max-age.                 *)
ASSUME GraceAssumption == Grace >= 2 * Lag + CacheTTL + TokenLife
ASSUME PeriodAssumption == Period >= 2 * Lag + MaxAge

VARIABLES
  now,       \* the clock of the database and the replicas
  keys,      \* the table signing_keys
  pc,        \* what each replica is doing
  old,       \* rotateKeys: the row it read as oldActive
  nxt,       \* rotateKeys: the row it read as next
  t0,        \* rotateKeys: its "now"; when a boot began
  loading,   \* the signer row a replica has selected and is importing, and when
  cache,     \* activeSignerCache
  until,     \* until[k]: when the last token signed with k expires
  turn,      \* history: turn[k] is the place of k in the order keys became active
  turns,     \* history: how many keys became active
  disturbed, \* history: two rotations overlapped, or one died halfway
  crashes    \* how many crashes and failing statements there were

vars == <<now, keys, pc, old, nxt, t0, loading, cache, until, turn, turns, disturbed, crashes>>

Steps == {"old", "next", "promote", "retire", "insert"}
KeyRow == [st : {"absent", "next", "active", "retired", "purged"},
           created : Nat, activated : Nat, expires : Nat]
Signer == [kid : Key \cup {None}, time : Nat]

TypeOK ==
  /\ now \in Nat
  /\ keys \in [Key -> KeyRow]
  /\ pc \in [Node -> {"down", "boot", "up"} \cup Steps]
  /\ old \in [Node -> Key \cup {None}]
  /\ nxt \in [Node -> Key \cup {None}]
  /\ t0 \in [Node -> Nat]
  /\ loading \in [Node -> Signer]
  /\ cache \in [Node -> Signer]
  /\ until \in [Key -> Nat]
  /\ turn \in [Key -> Nat]
  /\ turns \in Nat
  /\ disturbed \in BOOLEAN
  /\ crashes \in Nat

NoSigner == [kid |-> None, time |-> 0]

Init ==
  /\ now = 0
  /\ keys = [k \in Key |-> [st |-> "absent", created |-> 0, activated |-> 0, expires |-> 0]]
  /\ pc = [n \in Node |-> "down"]
  /\ old = [n \in Node |-> None]
  /\ nxt = [n \in Node |-> None]
  /\ t0 = [n \in Node |-> 0]
  /\ loading = [n \in Node |-> NoSigner]
  /\ cache = [n \in Node |-> NoSigner]
  /\ until = [k \in Key |-> 0]
  /\ turn = [k \in Key |-> 0]
  /\ turns = 0
  /\ disturbed = FALSE
  /\ crashes = 0

--------------------------------------------------------------------------------
With(st) == {k \in Key : keys[k].st = st}
GoTo(n, p) == pc' = [pc EXCEPT ![n] = p]
clocks == <<now, t0>>
signers == <<loading, cache, until>>

order == <<turn, turns>>

(* One more key becomes active.                                                    *)
Stamp(k) == /\ turn' = [turn EXCEPT ![k] = IF @ = 0 THEN turns + 1 ELSE @]
            /\ turns' = IF turn[k] = 0 THEN turns + 1 ELSE turns

(* insertKeyRow(status); activated_at of a "next" row is NULL, but nobody reads it   *)
(* before the row is promoted.                                                      *)
NewRow(st) == [st |-> st, created |-> now, activated |-> now, expires |-> 0]
InsertKeyRow(k, st) == keys[k].st = "absent" /\ keys' = [keys EXCEPT ![k] = NewRow(st)]

(* The local variables of rotateKeys go out of scope.                              *)
Forget(n) == /\ old' = [old EXCEPT ![n] = None]
             /\ nxt' = [nxt EXCEPT ![n] = None]
             /\ t0' = [t0 EXCEPT ![n] = 0]

(* clearKeyCache(): this replica's cache only.                                     *)
ClearKeyCache(n) == cache' = [cache EXCEPT ![n] = NoSigner]

--------------------------------------------------------------------------------
(* ensureKeysInitialized, at boot: one transaction under an advisory lock, which   *)
(* keeps other boots out but not a rotation.  Its rows appear when it commits.      *)

BootRead(n) ==
  /\ pc[n] = "down"
  /\ \A m \in Node : pc[m] # "boot"
  /\ \/ /\ With("active") = {} \/ With("next") = {}
        /\ GoTo(n, "boot") /\ t0' = [t0 EXCEPT ![n] = now]
     \/ /\ With("active") # {} /\ With("next") # {}
        /\ GoTo(n, "up") /\ UNCHANGED t0
  /\ UNCHANGED <<now, keys, old, nxt, signers, order, disturbed, crashes>>

BootInsert(n) ==
  /\ pc[n] = "boot"
  /\ \/ /\ With("active") # {}
        /\ \E k \in Key : InsertKeyRow(k, "next")
        /\ UNCHANGED order
     \/ /\ With("active") = {}
        /\ \E j, k \in With("absent") :
             /\ j # k
             /\ keys' = [keys EXCEPT ![j] = NewRow("active"), ![k] = NewRow("next")]
             /\ Stamp(j)
  /\ Forget(n)
  /\ GoTo(n, "up")
  /\ UNCHANGED <<now, signers, disturbed, crashes>>

(* The process dies and loses its caches; a boot that dies is rolled back.          *)
Crash(n) ==
  /\ pc[n] # "down" /\ crashes < MaxCrashes
  /\ GoTo(n, "down")
  /\ ClearKeyCache(n)
  /\ loading' = [loading EXCEPT ![n] = NoSigner]
  /\ disturbed' = (disturbed \/ pc[n] \in Steps)
  /\ Forget(n)
  /\ crashes' = crashes + 1
  /\ UNCHANGED <<now, keys, until, order>>

(* A statement of rotateKeys throws: the rotation stays halfway, the replica stays up. *)
Fail(n) ==
  /\ pc[n] \in Steps /\ crashes < MaxCrashes
  /\ GoTo(n, "up")
  /\ disturbed' = TRUE
  /\ Forget(n)
  /\ crashes' = crashes + 1
  /\ UNCHANGED <<now, keys, signers, order>>

--------------------------------------------------------------------------------
(* rotateSigningKeyIfDue and rotateKeys.  LIMIT 1 without ORDER BY may return any   *)
(* of the rows.                                                                     *)

(* Mutant: an active key is rotated however young it is.                           *)
DueAtOnce(k) == keys[k].st = "active"

Due(k) == keys[k].st = "active" /\ now >= keys[k].activated + Period

CheckDue(n) ==
  /\ pc[n] = "up"
  /\ \E k \in Key : Due(k)
  /\ disturbed' = (disturbed \/ \E m \in Node \ {n} : pc[m] \in Steps)
  /\ GoTo(n, "old")
  /\ UNCHANGED <<now, keys, old, nxt, t0, signers, order, crashes>>

(* oldActive; SomeKeyActive says there is one.                                     *)
ReadOld(n) ==
  /\ pc[n] = "old"
  /\ \E k \in With("active") : old' = [old EXCEPT ![n] = k]
  /\ GoTo(n, "next")
  /\ UNCHANGED <<now, keys, nxt, t0, signers, order, disturbed, crashes>>

(* No "next" row: rotateKeys throws.                                               *)
ReadNext(n) ==
  /\ pc[n] = "next"
  /\ \/ With("next") = {} /\ GoTo(n, "up") /\ Forget(n)
     \/ /\ UNCHANGED old
        /\ \E k \in With("next") : nxt' = [nxt EXCEPT ![n] = k]
        /\ t0' = [t0 EXCEPT ![n] = now]
        /\ GoTo(n, "promote")
  /\ UNCHANGED <<now, keys, signers, order, disturbed, crashes>>

(* UPDATE ... WHERE id = next.id, whatever its status is by now.                   *)
Promote(n) ==
  /\ pc[n] = "promote"
  /\ keys' = [keys EXCEPT ![nxt[n]] = IF @.st = "purged" THEN @
                                      ELSE [@ EXCEPT !.st = "active", !.activated = t0[n]]]
  /\ Stamp(nxt[n])
  /\ GoTo(n, "retire")
  /\ UNCHANGED <<now, old, nxt, t0, signers, disturbed, crashes>>

(* Mutant: the row retired is the one that is active now, not the one read before. *)
RetireCurrent(n) ==
  /\ pc[n] = "retire"
  /\ \E k \in With("active") :
       keys' = [keys EXCEPT ![k].st = "retired", ![k].expires = t0[n] + Grace]
  /\ GoTo(n, "insert")
  /\ UNCHANGED <<now, old, nxt, t0, signers, order, disturbed, crashes>>

(* Mutant: expires_at is left NULL.                                                 *)
RetireForever(n) ==
  /\ pc[n] = "retire"
  /\ keys' = [keys EXCEPT ![old[n]] = IF @.st = "purged" THEN @
                                      ELSE [@ EXCEPT !.st = "retired", !.expires = None]]
  /\ GoTo(n, "insert")
  /\ UNCHANGED <<now, old, nxt, t0, signers, order, disturbed, crashes>>

(* UPDATE ... WHERE id = oldActive.id                                              *)
Retire(n) ==
  /\ pc[n] = "retire"
  /\ keys' = [keys EXCEPT ![old[n]] = IF @.st = "purged" THEN @
                                      ELSE [@ EXCEPT !.st = "retired", !.expires = t0[n] + Grace]]
  /\ GoTo(n, "insert")
  /\ UNCHANGED <<now, old, nxt, t0, signers, order, disturbed, crashes>>

InsertNext(n) ==
  /\ pc[n] = "insert"
  /\ \E k \in Key : InsertKeyRow(k, "next")
  /\ ClearKeyCache(n)
  /\ Forget(n)
  /\ GoTo(n, "up")
  /\ UNCHANGED <<now, loading, until, order, disturbed, crashes>>

(* cleanupExpiredTokens: DELETE ... WHERE status = 'retired' AND expires_at < now   *)
PurgeKeys ==
  /\ \E n \in Node : pc[n] \in {"up"} \cup Steps
  /\ keys' = [k \in Key |-> IF keys[k].st = "retired" /\ keys[k].expires < now
                            THEN [keys[k] EXCEPT !.st = "purged"] ELSE keys[k]]
  /\ UNCHANGED <<now, pc, old, nxt, t0, signers, order, disturbed, crashes>>

--------------------------------------------------------------------------------
(* getActiveSigner and sign.                                                       *)

Serving(n) == n \in Signing /\ pc[n] \in {"up"} \cup Steps
Cached(n) == cache[n].kid # None /\ now < cache[n].time + CacheTTL

(* SELECT ... WHERE status = 'active' ORDER BY created_at LIMIT 1; importJWK is     *)
(* awaited before the cache is set.                                                 *)
LoadSigner(n) ==
  /\ Serving(n) /\ ~Cached(n) /\ loading[n] = NoSigner
  /\ \E k \in With("active") :
       /\ \A j \in With("active") : keys[k].created <= keys[j].created
       /\ loading' = [loading EXCEPT ![n] = [kid |-> k, time |-> now]]
  /\ UNCHANGED <<clocks, keys, pc, old, nxt, cache, until, order, disturbed, crashes>>

(* Mutant: a cached signer is used however old it is.                              *)
SignStale(n) ==
  /\ Serving(n) /\ cache[n].kid # None
  /\ until' = [until EXCEPT ![cache[n].kid] = now + TokenLife]
  /\ UNCHANGED <<clocks, keys, pc, old, nxt, loading, cache, order, disturbed, crashes>>

Sign(n) ==
  /\ Serving(n) /\ Cached(n)
  /\ until' = [until EXCEPT ![cache[n].kid] = now + TokenLife]
  /\ UNCHANGED <<clocks, keys, pc, old, nxt, loading, cache, order, disturbed, crashes>>

(* The cache is set, maybe after a rotation cleared it, and the caller signs.       *)
StoreSigner(n) ==
  /\ Serving(n) /\ loading[n].kid # None
  /\ cache' = [cache EXCEPT ![n] = [kid |-> loading[n].kid, time |-> now]]
  /\ until' = [until EXCEPT ![loading[n].kid] = now + TokenLife]
  /\ loading' = [loading EXCEPT ![n] = NoSigner]
  /\ UNCHANGED <<clocks, keys, pc, old, nxt, order, disturbed, crashes>>

(* Time passes once there are keys, but no operation takes longer than Lag.         *)
Tick ==
  /\ now < MaxTime /\ turns > 0
  /\ \A n \in Node : /\ pc[n] \in {"boot", "promote", "retire", "insert"} => now < t0[n] + Lag
                     /\ loading[n].kid # None => now < loading[n].time + Lag
  /\ now' = now + 1
  /\ UNCHANGED <<keys, pc, old, nxt, t0, signers, order, disturbed, crashes>>

Next ==
  \/ \E n \in Node :
       \/ BootRead(n) \/ BootInsert(n) \/ Crash(n) \/ Fail(n)
       \/ CheckDue(n) \/ ReadOld(n) \/ ReadNext(n) \/ Promote(n) \/ Retire(n) \/ InsertNext(n)
       \/ LoadSigner(n) \/ StoreSigner(n) \/ Sign(n)
  \/ PurgeKeys \/ Tick

Spec == Init /\ [][Next]_vars

--------------------------------------------------------------------------------
(* Correctness.                                                                   *)

(* However boots, crashes and rotations interleave, once a replica has booted there *)
(* is an active key: getActiveSigner never throws.                                   *)
SomeKeyActive == (\E n \in Node : pc[n] \notin {"down", "boot"}) => With("active") # {}

(* publishJwks; getVerificationKey accepts at least these.                          *)
Published(k) == \/ keys[k].st \in {"active", "next"}
                \/ keys[k].st = "retired" /\ keys[k].expires > now

(* A token that has not expired can be verified: its key is never withdrawn or      *)
(* deleted first, although a replica goes on signing with a key that another         *)
(* replica has retired (keys.service.ts:15-16, 95, 175).                             *)
SignedTokensVerify == \A k \in Key : now < until[k] => Published(k)

(* The implementation plan (line 100): an RP that caches the key set for max-age     *)
(* never meets a kid it does not know, because a key is published long before it     *)
(* signs.  The very first key is exempt: nobody has fetched the key set before it.   *)
CanSignWith(k) == \E n \in Node : Serving(n) /\ cache[n].kid = k /\ Cached(n)
KidNeverMissed == \A k \in Key : CanSignWith(k) /\ turn[k] # 1 => now >= keys[k].created + MaxAge

(* The same as long as no two rotations overlapped and none died halfway.            *)
KidKnownUndisturbed == disturbed \/ KidNeverMissed
==============================================================================
