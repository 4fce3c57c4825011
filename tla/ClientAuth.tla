----------------------------- MODULE ClientAuth -----------------------------
(* How a client proves who it is at the token endpoint: its secret, stored in clear and *)
(* as a hash; a signed assertion; the DPoP proof a token is bound with; and the pushed   *)
(* authorization request, which is redeemed once.                                        *)
(*                                                                                       *)
(* Secrets are numbered by rotation.  Life is the age both an assertion and a DPoP proof *)
(* may have, in units of time, of which a Second has several; a step ends at an await.   *)
EXTENDS Naturals, FiniteSets

CONSTANTS Authn,     \* authentications
          Assertion, \* client assertions, by jti
          Dpop,      \* DPoP proofs, by jti
          Pushed,    \* request_uris
          Life,
          Second,
          MaxSecret, \* rotations
          LastTime,
          ClientCases \* what a behaviour is about: sets of "secret", "proof", "pushed"

ASSUME ProofAssumption ==
  /\ Assertion \cap Dpop = {} /\ Assertion \cup Dpop # {}
  /\ Life \in Nat \ {0} /\ Second \in 1..Life /\ Life % Second = 0
  /\ MaxSecret \in Nat /\ LastTime \in Nat

VARIABLES
  clientCase, \* the case of this behaviour
  now,
  iat,       \* the date of each proof
  client,    \* the row of clients: present, secret in clear and hashed, JWT methods only
  jti,       \* client_assertion_jtis and dpop_jtis: when a row expires; 0 is no row
  par,       \* pushed_auth_requests
  auth,      \* next step and local variables of each call
  uses,      \* history: how often each proof was accepted
  redeemed,  \* history: how often each request_uri was
  ahead,     \* history: proofs accepted before their date, or by a call that stalled
  late,      \* history: assertions accepted in the second that follows their age
  undone     \* history: a hash was written for a secret already rotated away

clientVars == <<clientCase, now, iat, client, jti, par, auth, uses, redeemed, ahead, late, undone>>

Proof == Assertion \cup Dpop
Secret == 0..MaxSecret
NoHash == MaxSecret + 1
Time == 0..(LastTime + Life)
NoAuth == [at |-> "idle", secret |-> 0, clear |-> 0, hash |-> NoHash, jwt |-> FALSE,
           stale |-> FALSE, proof |-> CHOOSE p \in Proof : TRUE, since |-> 0]

ClientTypeOK ==
  /\ clientCase \in ClientCases
  /\ now \in 0..LastTime
  /\ client \in [there : BOOLEAN, clear : Secret, hash : Secret \cup {NoHash}, jwt : BOOLEAN]
  /\ iat \in [Proof -> 0..LastTime]
  /\ jti \in [Proof -> Time]
  /\ par \in [Pushed -> [at : {"none", "live", "used", "gone"}, until : Time]]
  /\ auth \in [Authn -> [at : {"idle", "compare", "upgrade", "jti", "in", "out"},
                         secret : Secret, clear : Secret, hash : Secret \cup {NoHash},
                         jwt : BOOLEAN, stale : BOOLEAN, proof : Proof, since : Time]]
  /\ uses \in [Proof -> Nat] /\ redeemed \in [Pushed -> Nat]
  /\ ahead \subseteq Proof /\ late \subseteq Assertion /\ undone \in BOOLEAN

(* A registered client has a hash from the start; the seeded one gets it when it first   *)
(* signs in.                                                                             *)
ClientInit ==
  /\ clientCase \in ClientCases
  /\ now = 0
  /\ \E h \in {0, NoHash}, j \in BOOLEAN : client = [there |-> TRUE, clear |-> 0, hash |-> h, jwt |-> j]
  /\ iat \in [Proof -> {t \in 0..LastTime : t % Second = 0}]
  /\ "proof" \notin clientCase => iat = [p \in Proof |-> 0]
  /\ jti = [p \in Proof |-> 0]
  /\ par = [q \in Pushed |-> [at |-> "none", until |-> 0]]
  /\ auth = [r \in Authn |-> NoAuth]
  /\ uses = [p \in Proof |-> 0]
  /\ redeemed = [q \in Pushed |-> 0]
  /\ ahead = {}
  /\ late = {}
  /\ undone = FALSE

AuthTo(r, step) == auth' = [auth EXCEPT ![r] = [NoAuth EXCEPT !.at = step, !.stale = auth[r].stale]]
tallies == <<uses, redeemed, ahead, late, undone>>
tables == <<jti, par>>

-----------------------------------------------------------------------------
(* A secret *)

ReadClient(r, s) ==
  /\ "secret" \in clientCase
  /\ auth[r].at = "idle" /\ client.there /\ s <= client.clear
  /\ auth' = [auth EXCEPT ![r] = [NoAuth EXCEPT !.at = "compare", !.secret = s, !.clear = client.clear,
                                  !.hash = client.hash, !.jwt = client.jwt, !.stale = s # client.clear]]
  /\ UNCHANGED <<clientCase, now, iat, client, tables, tallies>>

(* A client registered for a JWT method is refused after its secret was found right.     *)
Verdict(r) == IF auth[r].jwt THEN "out" ELSE "in"

(* The hash decides if the row has one; a row without it is about to get one.            *)
Compare(r) ==
  /\ auth[r].at = "compare"
  /\ IF auth[r].hash = NoHash /\ auth[r].secret = auth[r].clear
       THEN auth' = [auth EXCEPT ![r].at = "upgrade"]
       ELSE AuthTo(r, IF auth[r].secret = auth[r].hash THEN Verdict(r) ELSE "out")
  /\ UNCHANGED <<clientCase, now, iat, client, tables, tallies>>

(* The hash takes time, and the row is updated by its id, whatever its secret is by now;  *)
(* a failure here is forgiven.                                                            *)
Upgrade(r) ==
  /\ auth[r].at = "upgrade"
  /\ \/ /\ client.there
        /\ client' = [client EXCEPT !.hash = auth[r].secret]
        /\ undone' = (undone \/ auth[r].secret # client.clear)
     \/ UNCHANGED <<client, undone>>
  /\ AuthTo(r, Verdict(r))
  /\ UNCHANGED <<clientCase, now, iat, tables, uses, redeemed, ahead, late>>

-----------------------------------------------------------------------------
(* Assertions and DPoP proofs: checked against the time, then entered under their jti *)

(* An assertion is not dated ahead; a DPoP proof may be, by up to Life.  The age of an     *)
(* assertion is taken in whole seconds, rounded down: dates and Life are whole, so it is   *)
(* too old a Second later than a DPoP proof.  What is signed wrongly leaves no trace.      *)
CheckProof(r, p) ==
  /\ "proof" \in clientCase
  /\ auth[r].at = "idle" /\ (p \in Assertion => client.there)
  /\ \/ now <= iat[p] + Life
     \/ p \in Assertion /\ now < iat[p] + Life + Second
  /\ iat[p] <= IF p \in Dpop THEN now + Life ELSE now
  /\ auth' = [auth EXCEPT ![r] = [NoAuth EXCEPT !.at = "jti", !.proof = p, !.since = now]]
  /\ ahead' = IF iat[p] > now THEN ahead \cup {p} ELSE ahead
  /\ late' = IF now > iat[p] + Life THEN late \cup {p} ELSE late
  /\ UNCHANGED <<clientCase, now, iat, client, tables, uses, redeemed, undone>>

(* The primary key decides between calls that present the same proof.                     *)
InsertJti(r) ==
  /\ auth[r].at = "jti"
  /\ LET p == auth[r].proof
     IN  /\ jti' = IF jti[p] = 0 THEN [jti EXCEPT ![p] = now + Life] ELSE jti
         /\ uses' = IF jti[p] = 0 THEN [uses EXCEPT ![p] = @ + 1] ELSE uses
         /\ ahead' = IF now > auth[r].since THEN ahead \cup {p} ELSE ahead
         /\ AuthTo(r, IF jti[p] = 0 THEN "in" ELSE "out")
  /\ UNCHANGED <<clientCase, now, iat, client, par, redeemed, late, undone>>

-----------------------------------------------------------------------------
(* Pushed requests *)

Push(q) ==
  /\ "pushed" \in clientCase
  /\ par[q].at = "none" /\ client.there
  /\ par' = [par EXCEPT ![q] = [at |-> "live", until |-> now + Life]]
  /\ UNCHANGED <<clientCase, now, iat, client, jti, auth, tallies>>

(* Mutant: the UPDATE does not ask for usedAt to be null.                                 *)
ResolveAgain(q) ==
  /\ par[q].at \in {"live", "used"}
  /\ par' = [par EXCEPT ![q].at = "used"]
  /\ redeemed' = IF now <= par[q].until THEN [redeemed EXCEPT ![q] = @ + 1] ELSE redeemed
  /\ UNCHANGED <<clientCase, now, iat, client, jti, auth, uses, ahead, late, undone>>

(* One UPDATE marks the row; an expired one is marked as well, and yields nothing.        *)
ResolvePar(q) ==
  /\ par[q].at = "live"
  /\ par' = [par EXCEPT ![q].at = "used"]
  /\ redeemed' = IF now <= par[q].until THEN [redeemed EXCEPT ![q] = @ + 1] ELSE redeemed
  /\ UNCHANGED <<clientCase, now, iat, client, jti, auth, uses, ahead, late, undone>>

-----------------------------------------------------------------------------
(* Administration, registration, cleanup, time *)

(* Mutant: the hash is left to the next sign-in, which does not replace one.              *)
RotateInClear ==
  /\ "secret" \in clientCase
  /\ client.there /\ client.clear < MaxSecret
  /\ client' = [client EXCEPT !.clear = @ + 1]
  /\ UNCHANGED <<clientCase, now, iat, tables, auth, tallies>>

RotateSecret ==
  /\ "secret" \in clientCase
  /\ client.there /\ client.clear < MaxSecret
  /\ client' = [client EXCEPT !.clear = @ + 1, !.hash = client.clear + 1]
  /\ UNCHANGED <<clientCase, now, iat, tables, auth, tallies>>

HandleRegistrationUpdate(j) ==
  /\ "secret" \in clientCase
  /\ client.there /\ j # client.jwt
  /\ client' = [client EXCEPT !.jwt = j]
  /\ UNCHANGED <<clientCase, now, iat, tables, auth, tallies>>

DeleteClient ==
  /\ client.there
  /\ client' = [client EXCEPT !.there = FALSE]
  /\ UNCHANGED <<clientCase, now, iat, tables, auth, tallies>>

(* Mutant: rows are deleted in the unit in which they expire.                             *)
EagerCleanup ==
  /\ jti' = [p \in Proof |-> IF jti[p] # 0 /\ jti[p] <= now THEN 0 ELSE jti[p]]
  /\ par' = [q \in Pushed |-> IF par[q].at # "none" /\ par[q].until < now
                              THEN [par[q] EXCEPT !.at = "gone"] ELSE par[q]]
  /\ UNCHANGED <<clientCase, now, iat, client, auth, tallies>>

Cleanup ==
  /\ jti' = [p \in Proof |-> IF jti[p] # 0 /\ jti[p] < now THEN 0 ELSE jti[p]]
  /\ par' = [q \in Pushed |-> IF par[q].at # "none" /\ par[q].until < now
                              THEN [par[q] EXCEPT !.at = "gone"] ELSE par[q]]
  /\ UNCHANGED <<clientCase, now, iat, client, auth, tallies>>

TimePasses ==
  /\ now < LastTime
  /\ now' = now + 1
  /\ UNCHANGED <<clientCase, iat, client, tables, auth, tallies>>

ClientNext ==
  \/ \E r \in Authn :
       \/ \E s \in Secret : ReadClient(r, s)
       \/ Compare(r) \/ Upgrade(r) \/ InsertJti(r)
       \/ \E p \in Proof : CheckProof(r, p)
  \/ \E q \in Pushed : Push(q) \/ ResolvePar(q)
  \/ RotateSecret \/ DeleteClient \/ Cleanup \/ TimePasses
  \/ \E j \in BOOLEAN : HandleRegistrationUpdate(j)

ClientSpec == ClientInit /\ [][ClientNext]_clientVars
-----------------------------------------------------------------------------
(* A secret rotated away before a call begins does not let it in, unless a call that was   *)
(* storing the hash of the old secret overtook the rotation.  A proof lets one call in: its *)
(* jti is kept until it is too old, except for a proof dated ahead or a call that stalls     *)
(* between check and entry; an assertion accepted once more in the second that follows its  *)
(* age, when the row of its first use may be deleted, lets in no third call.  A request_uri *)
(* is redeemed once.                                                                        *)
ClientAuthHolds ==
  /\ \A r \in Authn : auth[r].at = "in" /\ auth[r].stale => undone
  /\ \A p \in Proof \ ahead : uses[p] <= IF p \in late THEN 2 ELSE 1
  /\ \A q \in Pushed : redeemed[q] <= 1
=============================================================================
