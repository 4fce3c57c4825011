----------------------------- MODULE AccountProofs ------------------------------
(* Proofs about one user: the password account with its tokens (AuthAccount), the      *)
(* second factors (SecondFactor) and the baseline of the sign-ins (Risk), for every set *)
(* of requests, passwords, factors, codes and devices and every choice of the           *)
(* operations a behaviour exercises.                                                    *)
EXTENDS AuthAccount, SecondFactor, Risk, TLAPS, WellFoundedInduction, FiniteSetTheorems, SequenceTheorems

--------------------------------------------------------------------------------
(* SecondFactor.                                                                     *)

(* What a request read is still so where it matters: a job that has not begun has read   *)
(* nothing, and only a factor that takes codes or assertions has challenges.              *)
ReadBy(j) ==
  /\ Is(j, "idle") => local[j] = Nothing
  /\ Is(j, "send") => kind[local[j].f] # "totp"
  /\ Is(j, "judge") => local[j].n \in DOMAIN sent[local[j].f]
  /\ Is(j, "judge") /\ local[j].setup => kind[local[j].f] = "webauthn" \/ local[j].saw = "pending"
  /\ Is(j, "activate") => kind[local[j].f] = "webauthn" \/ local[j].saw = "pending"
ReadInv == \A j \in Job : ReadBy(j)

(* A challenge that was never judged twice at once: its attempts are the wrong answers,   *)
(* whoever judges it is alone and read them as they are, and it was not accepted yet       *)
(* while it is open or under judgement.                                                    *)
Tallied(f, n) ==
  /\ sent[f][n].accepted <= 1
  /\ sent[f][n].open => sent[f][n].accepted = 0
  /\ kind[f] = "otp" => /\ sent[f][n].wrong = sent[f][n].attempts
                        /\ sent[f][n].wrong + sent[f][n].accepted <= MaxAttempts
  /\ \A j \in Judging(f, n) :
       /\ \A i \in Judging(f, n) : i = j
       /\ sent[f][n].accepted = 0
       /\ kind[f] = "otp" => /\ local[j].attempts = sent[f][n].attempts
                             /\ local[j].attempts < MaxAttempts
ChallengeInv ==
  \A f \in Factor : /\ sent[f] # <<>> => kind[f] # "totp"
                    /\ \A n \in DOMAIN sent[f] : ~sent[f][n].raced => Tallied(f, n)

(* A recovery code that was never found twice at once.                                    *)
Marking(j, k) == Is(j, "mark") /\ local[j].k = k
CodeInv ==
  \A k \in RecoveryCode :
    /\ recovery[k] \in {"none", "active"} /\ ~batch[k].raced => batch[k].accepted = 0
    /\ recovery[k] = "none" => \A j \in Job : ~Marking(j, k)
    /\ ~batch[k].raced =>
         /\ batch[k].accepted <= 1
         /\ \A j \in Job : Marking(j, k) => /\ batch[k].accepted = 0
                                            /\ \A i \in Job : Marking(i, k) => i = j

(* Without overlapping generations a job that inserts codes finds only its own.           *)
BatchInv ==
  ~mixed => /\ \A i, j \in Generating : i = j
            /\ \A j \in Job : Is(j, "insert") => \A k \in Active : batch[k].by = j
            /\ \A k, l \in Active : batch[k].by = batch[l].by

FactorInv == FactorTypeOK /\ ReadInv /\ ChallengeInv /\ CodeInv /\ BatchInv

-----------------------------------------------------------------------------
(* What requests begin with.                                                               *)
LEMMA NothingIs == /\ Nothing \in Progress
                   /\ Nothing.at = "idle" /\ Nothing.saw = "pending" /\ ~Nothing.setup
BY SomeFactorAssumption DEF Nothing, Progress

(* A request that ends judges, marks, inserts and activates nothing.                       *)
LEMMA FinishedIs ==
  ASSUME FactorTypeOK, NEW j \in Job, Finished(j)
  PROVE  /\ local' \in [Job -> Progress] /\ local'[j].at = "done"
         /\ \A i \in Job : i # j => local'[i] = local[i]
BY NothingIs DEF FactorTypeOK, Finished, Progress

(* Every nonempty set of positions in a sequence has a newest one.                         *)
LEMMA NewestOf == ASSUME NEW N \in Nat, NEW S, S \subseteq 1 .. N, S # {}
                PROVE  \E n \in S : \A m \in S : m <= n
<1> DEFINE T == {N - s : s \in S}
<1>1. T \subseteq Nat /\ T # {}
  <2>1. \A s \in S : N - s \in Nat
    OBVIOUS
  <2>2. \E s \in S : N - s \in T
    OBVIOUS
  <2>3. QED
    BY <2>1, <2>2
<1>2. PICK t \in T : \A u \in T : ~(<<u, t>> \in OpToRel(<, Nat))
  <2> HIDE DEF T
  <2> QED
    BY <1>1, NatLessThanWellFounded, WFMin
<1>3. PICK n \in S : t = N - n
  BY <1>2
<1>4. \A m \in S : ~(N - m < t)
  BY <1>1, <1>2 DEF OpToRel
<1>5. QED
  BY <1>3, <1>4

LEMMA LocalIs == FactorTypeOK => \A j \in Job : local[j] \in Progress
BY DEF FactorTypeOK

(* A request that goes on has new values of its own and leaves the others theirs.          *)
LEMMA MoveIs ==
  ASSUME FactorTypeOK, NEW j \in Job, NEW r \in Progress, local' = [local EXCEPT ![j] = r]
  PROVE  /\ local' \in [Job -> Progress] /\ local'[j] = r
         /\ \A i \in Job : i # j => local'[i] = local[i]
BY DEF FactorTypeOK

LEMMA InitHolds == FactorInit => FactorInv
<1> SUFFICES ASSUME FactorInit PROVE FactorInv
  OBVIOUS
<1> USE NothingIs DEF FactorInit
<1>1. FactorTypeOK
  <2>1. kind \in [Factor -> {"totp", "otp", "webauthn"}]
    OBVIOUS
  <2>2. sent \in [Factor -> Seq(Challenge)] /\ \A f \in Factor : Len(sent[f]) <= MaxSent
    BY FactorAssumption
  <2>3. legacy \in BOOLEAN /\ mixed \in BOOLEAN
    OBVIOUS
  <2>4. /\ status \in [Factor -> {"none", "pending", "active", "disabled"}]
        /\ recovery \in [RecoveryCode -> {"none", "active", "used", "deleted"}]
        /\ local \in [Job -> Progress]
        /\ batch \in [RecoveryCode -> [by : Job \cup {"none"}, accepted : Nat, raced : BOOLEAN]]
    OBVIOUS
  <2>5. QED
    BY <2>1, <2>2, <2>3, <2>4 DEF FactorTypeOK
<1>2. ReadInv
  BY DEF ReadInv, ReadBy, Is
<1>3. ChallengeInv
  BY DEF ChallengeInv
<1>4. CodeInv
  BY DEF CodeInv, Marking, Is
<1>5. BatchInv
  BY DEF BatchInv, Generating, Active, Is
<1>6. QED
  BY <1>1, <1>2, <1>3, <1>4, <1>5 DEF FactorInv

-----------------------------------------------------------------------------
(* Frames: what a step must leave alone for a part of the invariant to stay.               *)

(* What the other requests have read, when challenges are only added.                      *)
LEMMA ReadFrame ==
  ASSUME FactorTypeOK, ReadInv, UNCHANGED kind,
         \A f \in Factor : DOMAIN sent[f] \subseteq DOMAIN sent'[f],
         \A i \in Job : local'[i] = local[i] \/ ReadBy(i)'
  PROVE  ReadInv'
<1> SUFFICES ASSUME NEW i \in Job, local'[i] = local[i] PROVE ReadBy(i)'
  BY DEF ReadInv
<1>1. local[i].f \in Factor
  BY DEF FactorTypeOK, Progress
<1>2. QED
  BY <1>1 DEF ReadInv, ReadBy, Is

(* Challenges, when no request begins or goes on judging.                                  *)
LEMMA ChallengeFrame ==
  ASSUME FactorTypeOK, ChallengeInv, UNCHANGED <<kind, sent>>,
         \A j \in Job : Is(j, "judge")' => local'[j] = local[j]
  PROVE  ChallengeInv'
<1>1. \A f \in Factor : \A n \in DOMAIN sent[f] : Judging(f, n)' \subseteq Judging(f, n)
  BY DEF Judging, Is
<1>2. ASSUME NEW f \in Factor, NEW n \in DOMAIN sent[f], ~sent[f][n].raced
      PROVE  Tallied(f, n)'
  <2>1. Tallied(f, n)
    BY <1>2 DEF ChallengeInv
  <2>2. \A j \in Judging(f, n)' : j \in Judging(f, n) /\ local'[j] = local[j]
    BY <1>1, <1>2 DEF Judging
  <2>3. QED
    BY <2>1, <2>2 DEF Tallied
<1>3. QED
  BY <1>2 DEF ChallengeInv

(* Recovery codes and their batches, when no request begins to use or draw them.           *)
LEMMA CodeFrame ==
  ASSUME FactorTypeOK, CodeInv, BatchInv, UNCHANGED codes,
         \A j \in Job : local'[j].at \in {"mark", "delete", "insert"} => local'[j] = local[j]
  PROVE  CodeInv' /\ BatchInv'
<1>1. \A j \in Job, k \in RecoveryCode : Marking(j, k)' => Marking(j, k)
  BY DEF Marking, Is
<1>2. CodeInv'
  BY <1>1 DEF CodeInv, codes
<1>3. Generating' \subseteq Generating /\ Active' = Active
  BY DEF Generating, Active, Is, codes
<1>4. BatchInv'
  BY <1>3 DEF BatchInv, codes, Is
<1>5. QED
  BY <1>2, <1>4

-----------------------------------------------------------------------------
(* The steps that neither judge a challenge nor touch recovery codes.                      *)

(* Such a step takes one request to an end, to a sending or to an activation, or none.     *)
LEMMA PlainKeeps ==
  ASSUME FactorInv, UNCHANGED <<fixed, sent, codes>>,
         status' \in [Factor -> {"none", "pending", "active", "disabled"}],
         local' \in [Job -> Progress],
         \A i \in Job : \/ local'[i] = local[i]
                        \/ /\ local'[i].at \in {"send", "activate", "migrate", "done"}
                           /\ ReadBy(i)'
  PROVE  FactorInv'
<1> USE DEF FactorInv
<1>1. FactorTypeOK'
  BY DEF FactorTypeOK, fixed, codes
<1>2. ReadInv'
  BY ReadFrame DEF fixed
<1>3. ChallengeInv'
  BY ChallengeFrame DEF fixed, Is
<1>4. CodeInv' /\ BatchInv'
  BY CodeFrame
<1>5. QED
  BY <1>1, <1>2, <1>3, <1>4

LEMMA PlainStepsKeep ==
  ASSUME FactorInv, NEW j \in Job, NEW f \in Factor,
         \/ Enrol(j, f) \/ AskChallenge(j, f) \/ ConfirmTotp(j, f) \/ Activate(j)
         \/ BeginMigrate(j) \/ Migrate(j) \/ Break(j) \/ DisableFactor(f)
  PROVE  FactorInv'
<1> USE DEF FactorInv
<1>1. CASE Enrol(j, f) \/ AskChallenge(j, f)
  <2>1. /\ local' \in [Job -> Progress] /\ local'[j].at \in {"send", "done"} /\ local'[j].f = f
        /\ local'[j].at = "send" => kind[f] # "totp"
        /\ \A i \in Job : i # j => local'[i] = local[i]
    <3>1. PICK to \in {"send", "done"} :
            /\ local' = [local EXCEPT ![j].at = to, ![j].f = f]
            /\ to = "send" => kind[f] # "totp"
      BY <1>1 DEF Enrol, AskChallenge
    <3> DEFINE r == [local[j] EXCEPT !.at = to, !.f = f]
    <3>2. r \in Progress /\ r.at = to /\ r.f = f
      BY LocalIs DEF Progress
    <3>3. local' = [local EXCEPT ![j] = r]
      BY <3>1
    <3> HIDE DEF r
    <3>4. QED
      BY <3>1, <3>2, <3>3, MoveIs
  <2>2. ReadBy(j)' /\ UNCHANGED <<fixed, sent, codes>>
    BY <1>1, <2>1 DEF Enrol, AskChallenge, ReadBy, Is, fixed
  <2>3. status' \in [Factor -> {"none", "pending", "active", "disabled"}]
    BY <1>1 DEF Enrol, AskChallenge, FactorTypeOK
  <2>4. QED
    BY <2>1, <2>2, <2>3, PlainKeeps
<1>2. CASE ConfirmTotp(j, f)
  <2>1. local[j] = Nothing
    BY <1>2 DEF ConfirmTotp, ReadInv, ReadBy
  <2>2. /\ local' \in [Job -> Progress] /\ local'[j].at = "activate" /\ local'[j].saw = "pending"
        /\ \A i \in Job : i # j => local'[i] = local[i]
    BY <1>2, <2>1, NothingIs DEF ConfirmTotp, FactorTypeOK, Progress
  <2>3. ReadBy(j)' /\ UNCHANGED <<fixed, sent, codes, status>>
    BY <1>2, <2>2 DEF ConfirmTotp, ReadBy, Is
  <2>4. QED
    BY <2>2, <2>3, PlainKeeps DEF FactorTypeOK
<1>3. CASE BeginMigrate(j)
  <2>1. /\ local' \in [Job -> Progress] /\ local'[j].at = "migrate"
        /\ \A i \in Job : i # j => local'[i] = local[i]
    <3> DEFINE r == [local[j] EXCEPT !.at = "migrate"]
    <3>1. r \in Progress /\ r.at = "migrate"
      BY LocalIs DEF Progress
    <3>2. local' = [local EXCEPT ![j] = r]
      BY <1>3 DEF BeginMigrate, Then
    <3> HIDE DEF r
    <3>3. QED
      BY <3>1, <3>2, MoveIs
  <2>2. ReadBy(j)' /\ UNCHANGED <<fixed, sent, codes, status>>
    BY <1>3, <2>1 DEF BeginMigrate, ReadBy, Is
  <2>3. QED
    BY <2>1, <2>2, PlainKeeps DEF FactorTypeOK
<1>4. CASE Activate(j) \/ Migrate(j) \/ Break(j)
  <2>1. Finished(j) /\ UNCHANGED <<fixed, sent, codes>>
    BY <1>4 DEF Activate, Migrate, Break
  <2>2. status' \in [Factor -> {"none", "pending", "active", "disabled"}]
    BY <1>4 DEF Activate, Migrate, Break, FactorTypeOK
  <2>3. /\ local' \in [Job -> Progress] /\ local'[j].at = "done"
        /\ \A i \in Job : i # j => local'[i] = local[i]
    BY <2>1, FinishedIs
  <2>4. ReadBy(j)'
    BY <2>3 DEF ReadBy, Is
  <2>5. QED
    BY <2>1, <2>2, <2>3, <2>4, PlainKeeps
<1>5. CASE DisableFactor(f)
  <2>1. status' \in [Factor -> {"none", "pending", "active", "disabled"}]
    BY <1>5 DEF DisableFactor, FactorTypeOK
  <2>2. QED
    BY <1>5, <2>1, PlainKeeps DEF DisableFactor, FactorTypeOK
<1>6. QED
  BY <1>1, <1>2, <1>3, <1>4, <1>5

-----------------------------------------------------------------------------
(* Recovery codes.                                                                         *)

(* What their steps have in common: they judge nothing.                                    *)
LEMMA RecoveryKeeps ==
  ASSUME FactorInv, UNCHANGED <<fixed, status, sent>>,
         NEW j \in Job, NEW r \in Progress, local' = [local EXCEPT ![j] = r],
         r.at \in {"delete", "insert", "mark", "done"},
         recovery' \in [RecoveryCode -> {"none", "active", "used", "deleted"}],
         batch' \in [RecoveryCode -> [by : Job \cup {"none"}, accepted : Nat, raced : BOOLEAN]],
         mixed' \in BOOLEAN, CodeInv', BatchInv'
  PROVE  FactorInv'
<1> USE DEF FactorInv
<1>1. /\ local' \in [Job -> Progress] /\ local'[j] = r
      /\ \A i \in Job : i # j => local'[i] = local[i]
  BY MoveIs
<1>2. FactorTypeOK'
  BY <1>1 DEF FactorTypeOK, fixed
<1>3. ReadBy(j)'
  BY <1>1 DEF ReadBy, Is
<1>4. ReadInv'
  BY <1>1, <1>3, ReadFrame DEF fixed
<1>5. ChallengeInv'
  BY <1>1, ChallengeFrame DEF fixed, Is
<1>6. QED
  BY <1>2, <1>4, <1>5

LEMMA BeginGenerateKeeps == ASSUME FactorInv, NEW j \in Job, BeginGenerate(j) PROVE FactorInv'
<1> USE DEF FactorInv
<1> DEFINE r == [local[j] EXCEPT !.at = "delete"]
<1>1. r \in Progress /\ r.at = "delete"
  BY LocalIs DEF Progress
<1>2. local' = [local EXCEPT ![j] = r] /\ UNCHANGED <<fixed, status, sent, recovery, batch>>
  BY DEF BeginGenerate, Then
<1> HIDE DEF r
<1>3. local'[j] = r /\ \A i \in Job : i # j => local'[i] = local[i]
  BY <1>1, <1>2, MoveIs
<1>4. \A i \in Job, k \in RecoveryCode : Marking(i, k)' => Marking(i, k)
  BY <1>1, <1>3 DEF Marking, Is
<1>5. CodeInv'
  BY <1>2, <1>4 DEF CodeInv
<1>6. BatchInv'
  <2> SUFFICES ASSUME ~mixed' PROVE BatchInv'
    BY DEF BatchInv
  <2>1. ~mixed /\ Generating = {}
    BY DEF BeginGenerate
  <2>2. Generating' \subseteq {j} /\ \A i \in Job : ~Is(i, "insert")'
    BY <1>1, <1>3, <2>1 DEF Generating, Is
  <2>3. QED
    BY <1>2, <2>1, <2>2 DEF BatchInv, Active
<1>7. mixed' \in BOOLEAN
  BY DEF BeginGenerate, FactorTypeOK
<1>8. QED
  BY <1>1, <1>2, <1>5, <1>6, <1>7, RecoveryKeeps DEF FactorTypeOK

LEMMA DeleteCodesKeeps == ASSUME FactorInv, NEW j \in Job, DeleteCodes(j) PROVE FactorInv'
<1> USE DEF FactorInv
<1> DEFINE r == [local[j] EXCEPT !.at = "insert"]
<1>1. r \in Progress /\ r.at = "insert"
  BY LocalIs DEF Progress
<1>2. /\ local' = [local EXCEPT ![j] = r] /\ UNCHANGED <<fixed, status, sent, batch, mixed>>
      /\ recovery' = [k \in RecoveryCode |-> IF recovery[k] = "none" THEN "none" ELSE "deleted"]
      /\ j \in Generating
  BY DEF DeleteCodes, Then, Generating
<1> HIDE DEF r
<1>3. local'[j] = r /\ \A i \in Job : i # j => local'[i] = local[i]
  BY <1>1, <1>2, MoveIs
<1>4. \A i \in Job, k \in RecoveryCode : Marking(i, k)' => Marking(i, k)
  BY <1>1, <1>3 DEF Marking, Is
<1>5. CodeInv'
  <2>1. \A k \in RecoveryCode : recovery'[k] \in {"none", "active"} => recovery[k] = "none"
    BY <1>2
  <2>2. QED
    BY <1>2, <1>4, <2>1 DEF CodeInv
<1>6. BatchInv'
  <2>1. Active' = {} /\ Generating' \subseteq Generating
    BY <1>1, <1>2, <1>3 DEF Active, Generating, Is
  <2>2. QED
    BY <1>2, <2>1 DEF BatchInv
<1>7. QED
  BY <1>1, <1>2, <1>5, <1>6, RecoveryKeeps DEF FactorTypeOK

LEMMA InsertCodeKeeps ==
  ASSUME FactorInv, NEW j \in Job, NEW k \in RecoveryCode, InsertCode(j, k) PROVE FactorInv'
<1> USE DEF FactorInv
<1>1. PICK r \in Progress :
        r.at \in {"insert", "done"} /\ local' = [local EXCEPT ![j] = r]
  <2>1. PICK to \in {"insert", "done"} : local' = [local EXCEPT ![j].n = @ + 1, ![j].at = to]
    BY DEF InsertCode
  <2> DEFINE r == [local[j] EXCEPT !.n = local[j].n + 1, !.at = to]
  <2>2. local[j] \in Progress /\ local[j].n + 1 \in Nat
    BY LocalIs DEF Progress
  <2>3. r \in Progress /\ r.at = to
    BY <2>2 DEF Progress
  <2>4. local' = [local EXCEPT ![j] = r]
    BY <2>1
  <2> QED
    BY <2>3, <2>4
<1>2. /\ UNCHANGED <<fixed, status, sent, mixed>>
      /\ recovery' = [recovery EXCEPT ![k] = "active"] /\ recovery[k] = "none"
      /\ batch' = [batch EXCEPT ![k].by = j] /\ Is(j, "insert")
  BY DEF InsertCode
<1>3. local'[j] = r /\ \A i \in Job : i # j => local'[i] = local[i]
  BY <1>1, MoveIs
<1>4. \A i \in Job, l \in RecoveryCode : Marking(i, l)' => Marking(i, l)
  BY <1>1, <1>3 DEF Marking, Is
<1>5. /\ batch' \in [RecoveryCode -> [by : Job \cup {"none"}, accepted : Nat, raced : BOOLEAN]]
      /\ batch'[k].by = j
      /\ \A l \in RecoveryCode : /\ batch'[l].accepted = batch[l].accepted
                                 /\ batch'[l].raced = batch[l].raced
                                 /\ l # k => batch'[l].by = batch[l].by
  BY <1>2 DEF FactorTypeOK
<1>6. /\ recovery' \in [RecoveryCode -> {"none", "active", "used", "deleted"}]
      /\ \A l \in RecoveryCode : l # k => recovery'[l] = recovery[l]
      /\ recovery'[k] = "active"
  BY <1>2 DEF FactorTypeOK
<1>7. CodeInv'
  <2> SUFFICES ASSUME NEW l \in RecoveryCode
               PROVE /\ recovery'[l] \in {"none", "active"} /\ ~batch'[l].raced => batch'[l].accepted = 0
                     /\ recovery'[l] = "none" => \A i \in Job : ~Marking(i, l)'
                     /\ ~batch'[l].raced =>
                          /\ batch'[l].accepted <= 1
                          /\ \A i \in Job : Marking(i, l)' =>
                               /\ batch'[l].accepted = 0
                               /\ \A h \in Job : Marking(h, l)' => h = i
    BY DEF CodeInv
  <2>1. recovery[l] \in {"none", "active"} \/ recovery'[l] = recovery[l]
    BY <1>2, <1>6
  <2>2. QED
    BY <1>2, <1>4, <1>5, <1>6, <2>1 DEF CodeInv
<1>8. BatchInv'
  <2> SUFFICES ASSUME ~mixed PROVE BatchInv'
    BY <1>2 DEF BatchInv
  <2>1. Generating' \subseteq Generating /\ j \in Generating
    BY <1>1, <1>2, <1>3 DEF Generating, Is
  <2>2. \A i \in Generating : i = j
    BY <2>1 DEF BatchInv
  <2>3. Active' \subseteq Active \cup {k}
    BY <1>6 DEF Active
  <2>4. \A l \in Active' : batch'[l].by = j
    BY <1>2, <1>5, <2>3 DEF BatchInv, Active
  <2>5. \A i \in Job : Is(i, "insert")' => i = j
    BY <2>1, <2>2 DEF Generating
  <2>6. QED
    BY <2>1, <2>2, <2>4, <2>5 DEF BatchInv
<1>9. QED
  BY <1>1, <1>2, <1>5, <1>6, <1>7, <1>8, RecoveryKeeps DEF FactorTypeOK

LEMMA FindCodeKeeps ==
  ASSUME FactorInv, NEW j \in Job, NEW k \in RecoveryCode, FindCode(j, k) PROVE FactorInv'
<1> USE DEF FactorInv
<1> DEFINE r == [local[j] EXCEPT !.at = "mark", !.k = k]
<1>1. r \in Progress /\ r.at = "mark" /\ r.k = k
  BY LocalIs DEF Progress
<1>2. /\ local' = [local EXCEPT ![j] = r] /\ UNCHANGED <<fixed, status, sent, recovery, mixed>>
      /\ recovery[k] = "active"
      /\ batch' = [batch EXCEPT ![k].raced = @ \/ \E i \in Job : Marking(i, k)]
  BY DEF FindCode, Marking
<1> HIDE DEF r
<1>3. local'[j] = r /\ \A i \in Job : i # j => local'[i] = local[i]
  BY <1>1, <1>2, MoveIs
<1>4. \A i \in Job, l \in RecoveryCode : Marking(i, l)' => Marking(i, l) \/ (i = j /\ l = k)
  BY <1>1, <1>3 DEF Marking, Is
<1>5. /\ batch' \in [RecoveryCode -> [by : Job \cup {"none"}, accepted : Nat, raced : BOOLEAN]]
      /\ \A l \in RecoveryCode : batch'[l].accepted = batch[l].accepted /\ batch'[l].by = batch[l].by
      /\ \A l \in RecoveryCode : l # k => batch'[l].raced = batch[l].raced
      /\ ~batch'[k].raced => ~batch[k].raced /\ \A i \in Job : ~Marking(i, k)
  BY <1>2 DEF FactorTypeOK
<1>6. CodeInv'
  <2> SUFFICES ASSUME NEW l \in RecoveryCode
               PROVE /\ recovery[l] \in {"none", "active"} /\ ~batch'[l].raced => batch'[l].accepted = 0
                     /\ recovery[l] = "none" => \A i \in Job : ~Marking(i, l)'
                     /\ ~batch'[l].raced =>
                          /\ batch'[l].accepted <= 1
                          /\ \A i \in Job : Marking(i, l)' =>
                               /\ batch'[l].accepted = 0
                               /\ \A h \in Job : Marking(h, l)' => h = i
    BY <1>2 DEF CodeInv
  <2>1. CASE l = k
    <3>1. ~batch'[k].raced => \A i \in Job : Marking(i, k)' => i = j
      BY <1>4, <1>5
    <3>2. ~batch'[k].raced => batch'[k].accepted = 0
      BY <1>2, <1>5 DEF CodeInv
    <3>3. QED
      BY <1>2, <2>1, <3>1, <3>2
  <2>2. CASE l # k
    BY <1>4, <1>5, <2>2 DEF CodeInv
  <2>3. QED
    BY <2>1, <2>2
<1>7. BatchInv'
  <2>1. Generating' \subseteq Generating /\ Active' = Active
    BY <1>1, <1>2, <1>3 DEF Generating, Active, Is
  <2>2. \A i \in Job : Is(i, "insert")' => Is(i, "insert")
    BY <1>1, <1>3 DEF Is
  <2>3. QED
    BY <1>2, <1>5, <2>1, <2>2 DEF BatchInv, Active
<1>8. QED
  BY <1>1, <1>2, <1>5, <1>6, <1>7, RecoveryKeeps DEF FactorTypeOK

LEMMA MarkCodeKeeps == ASSUME FactorInv, NEW j \in Job, MarkCode(j) PROVE FactorInv'
<1> USE DEF FactorInv
<1>1. PICK k \in RecoveryCode : k = local[j].k
  BY LocalIs DEF Progress
<1>2. /\ Finished(j) /\ UNCHANGED <<fixed, status, sent, mixed>> /\ Marking(j, k)
      /\ recovery' = [recovery EXCEPT ![k] = IF @ = "deleted" THEN @ ELSE "used"]
      /\ batch' = [batch EXCEPT ![k].accepted = @ + 1]
  BY <1>1 DEF MarkCode, Marking
<1> DEFINE r == [Nothing EXCEPT !.at = "done"]
<1>3. r \in Progress /\ r.at = "done"
  BY NothingIs DEF Progress
<1>4. local' = [local EXCEPT ![j] = r]
  BY <1>2 DEF Finished
<1> HIDE DEF r
<1>5. local'[j] = r /\ \A i \in Job : i # j => local'[i] = local[i]
  BY <1>3, <1>4, MoveIs
<1>6. \A i \in Job, l \in RecoveryCode : Marking(i, l)' => Marking(i, l) /\ i # j
  BY <1>3, <1>5 DEF Marking, Is
<1>7. /\ batch' \in [RecoveryCode -> [by : Job \cup {"none"}, accepted : Nat, raced : BOOLEAN]]
      /\ \A l \in RecoveryCode : batch'[l].raced = batch[l].raced /\ batch'[l].by = batch[l].by
      /\ \A l \in RecoveryCode : l # k => batch'[l].accepted = batch[l].accepted
      /\ batch'[k].accepted = batch[k].accepted + 1
  <2>1. /\ batch \in [RecoveryCode -> [by : Job \cup {"none"}, accepted : Nat, raced : BOOLEAN]]
        /\ batch[k].accepted + 1 \in Nat
    BY <1>1 DEF FactorTypeOK
  <2>2. QED
    BY <1>1, <1>2, <2>1
<1>8. /\ recovery' \in [RecoveryCode -> {"none", "active", "used", "deleted"}]
      /\ \A l \in RecoveryCode : l # k => recovery'[l] = recovery[l]
      /\ recovery'[k] \notin {"none", "active"}
  BY <1>1, <1>2 DEF FactorTypeOK
<1>9. CodeInv'
  <2> SUFFICES ASSUME NEW l \in RecoveryCode
               PROVE /\ recovery'[l] \in {"none", "active"} /\ ~batch'[l].raced => batch'[l].accepted = 0
                     /\ recovery'[l] = "none" => \A i \in Job : ~Marking(i, l)'
                     /\ ~batch'[l].raced =>
                          /\ batch'[l].accepted <= 1
                          /\ \A i \in Job : Marking(i, l)' =>
                               /\ batch'[l].accepted = 0
                               /\ \A h \in Job : Marking(h, l)' => h = i
    BY DEF CodeInv
  <2>1. CASE l = k
    <3>1. ~batch[k].raced => batch[k].accepted = 0 /\ \A i \in Job : Marking(i, k) => i = j
      BY <1>1, <1>2 DEF CodeInv
    <3>2. ~batch'[k].raced => batch'[k].accepted = 1 /\ \A i \in Job : ~Marking(i, k)'
      BY <1>6, <1>7, <3>1
    <3>3. QED
      BY <1>8, <2>1, <3>2
  <2>2. CASE l # k
    BY <1>6, <1>7, <1>8, <2>2 DEF CodeInv
  <2>3. QED
    BY <2>1, <2>2
<1>10. BatchInv'
  <2>1. Generating' \subseteq Generating /\ Active' \subseteq Active
    BY <1>1, <1>3, <1>5, <1>8 DEF Generating, Active, Is
  <2>2. \A i \in Job : Is(i, "insert")' => Is(i, "insert")
    BY <1>3, <1>5 DEF Is
  <2>3. QED
    BY <1>2, <1>7, <2>1, <2>2 DEF BatchInv, Active
<1>11. QED
  BY <1>2, <1>3, <1>4, <1>7, <1>8, <1>9, <1>10, RecoveryKeeps DEF FactorTypeOK

-----------------------------------------------------------------------------
(* Challenges.                                                                             *)

(* A step that rewrites one challenge and lets at most one request judge it.                *)
LEMMA RewriteKeeps ==
  ASSUME FactorInv, UNCHANGED <<fixed, codes>>,
         status' \in [Factor -> {"none", "pending", "active", "disabled"}],
         local' \in [Job -> Progress],
         NEW f \in Factor, NEW n \in DOMAIN sent[f], NEW c \in Challenge,
         sent' = [sent EXCEPT ![f][n] = c],
         ~c.raced => Tallied(f, n)',
         \A i \in Job : \/ local'[i] = local[i]
                        \/ /\ ReadBy(i)' /\ local'[i].at \in {"judge", "activate", "done"}
                           /\ local'[i].at = "judge" => local'[i].f = f /\ local'[i].n = n
  PROVE  FactorInv'
<1> USE DEF FactorInv
<1>2. /\ sent' \in [Factor -> Seq(Challenge)]
      /\ \A g \in Factor : Len(sent'[g]) = Len(sent[g]) /\ DOMAIN sent'[g] = DOMAIN sent[g]
      /\ sent'[f][n] = c
      /\ \A g \in Factor : \A m \in DOMAIN sent[g] :
           <<g, m>> # <<f, n>> => sent'[g][m] = sent[g][m]
  <2>1. sent \in [Factor -> Seq(Challenge)]
    BY DEF FactorTypeOK
  <2>2. [sent[f] EXCEPT ![n] = c] \in Seq(Challenge)
    BY <2>1
  <2>3. sent'[f] = [sent[f] EXCEPT ![n] = c] /\ \A g \in Factor : g # f => sent'[g] = sent[g]
    BY <2>1
  <2>4. Len(sent'[f]) = Len(sent[f])
    BY <2>1, <2>3
  <2>5. QED
    BY <2>1, <2>2, <2>3, <2>4
<1>3. FactorTypeOK'
  BY <1>2 DEF FactorTypeOK, fixed, codes
<1>4. ReadInv'
  BY <1>2, ReadFrame DEF fixed
<1>5. CodeInv' /\ BatchInv'
  BY CodeFrame
<1>6. ChallengeInv'
  <2> SUFFICES ASSUME NEW g \in Factor
               PROVE  /\ sent'[g] # <<>> => kind[g] # "totp"
                      /\ \A m \in DOMAIN sent'[g] : ~sent'[g][m].raced => Tallied(g, m)'
    BY DEF ChallengeInv, fixed
  <2>1. sent'[g] # <<>> => kind[g] # "totp"
    BY <1>2 DEF ChallengeInv, FactorTypeOK
  <2>2. ASSUME NEW m \in DOMAIN sent[g], ~sent'[g][m].raced, <<g, m>> # <<f, n>>
        PROVE  Tallied(g, m)'
    <3>1. sent'[g][m] = sent[g][m]
      BY <1>2, <2>2
    <3>2. Tallied(g, m)
      BY <2>2, <3>1 DEF ChallengeInv
    <3>3. \A i \in Judging(g, m)' : i \in Judging(g, m) /\ local'[i] = local[i]
      BY <2>2 DEF Judging, Is
    <3>4. QED
      BY <3>1, <3>2, <3>3 DEF Tallied, fixed
  <2>3. QED
    BY <1>2, <2>1, <2>2
<1>7. QED
  BY <1>3, <1>4, <1>5, <1>6

LEMMA FindChallengeKeeps ==
  ASSUME FactorInv, NEW j \in Job, NEW f \in Factor, NEW setup \in BOOLEAN,
         FindChallenge(j, f, setup)
  PROVE  FactorInv'
<1> USE DEF FactorInv
<1>1. PICK n \in DOMAIN sent[f] :
        /\ n \in Open(f)
        /\ kind[f] = "otp" => sent[f][n].attempts < MaxAttempts
        /\ local' = [local EXCEPT ![j] = [Nothing EXCEPT !.at = "judge", !.f = f, !.n = n,
                                             !.attempts = sent[f][n].attempts, !.setup = setup,
                                             !.saw = status[f]]]
        /\ sent' = [sent EXCEPT ![f][n].raced = @ \/ Judging(f, n) # {}]
  <2>1. \E n \in Open(f) : \A m \in Open(f) : m <= n
    <3>1. Open(f) \subseteq 1 .. Len(sent[f]) /\ Len(sent[f]) \in Nat /\ Open(f) # {}
      BY DEF FindChallenge, Open, FactorTypeOK
    <3>2. QED
      BY <3>1, NewestOf
  <2>2. QED
    BY <2>1 DEF FindChallenge, Open
<1> DEFINE r == [Nothing EXCEPT !.at = "judge", !.f = f, !.n = n,
                                !.attempts = sent[f][n].attempts, !.setup = setup,
                                !.saw = status[f]]
           c == [sent[f][n] EXCEPT !.raced = @ \/ Judging(f, n) # {}]
<1>2. n \in DOMAIN sent[f] /\ sent[f][n] \in Challenge /\ sent[f][n].open
  BY <1>1 DEF Open, FactorTypeOK
<1>3. /\ Is(j, "idle") /\ kind[f] # "totp" /\ Eligible(f, setup)
      /\ UNCHANGED <<fixed, status, codes>>
      /\ status[f] \in {"pending", "active", "disabled"}
  BY DEF FindChallenge, Eligible, FactorTypeOK
<1>4. /\ r \in Progress /\ r.at = "judge" /\ r.f = f /\ r.n = n /\ r.setup = setup
      /\ r.attempts = sent[f][n].attempts /\ r.saw = status[f]
  <2>1. sent[f][n].attempts \in Nat /\ n \in Nat
    BY <1>2 DEF Challenge, FactorTypeOK
  <2>2. QED
    BY <1>3, <2>1, NothingIs DEF Progress
<1>5. /\ c \in Challenge /\ c.attempts = sent[f][n].attempts /\ c.open
      /\ c.accepted = sent[f][n].accepted /\ c.wrong = sent[f][n].wrong
      /\ ~c.raced => ~sent[f][n].raced /\ Judging(f, n) = {}
  BY <1>2 DEF Challenge
<1>6. local' = [local EXCEPT ![j] = r] /\ sent' = [sent EXCEPT ![f][n] = c]
  BY <1>1
<1> HIDE DEF r, c
<1>7. local'[j] = r /\ \A i \in Job : i # j => local'[i] = local[i]
  BY <1>4, <1>6, MoveIs
<1>8. sent'[f][n] = c /\ DOMAIN sent'[f] = DOMAIN sent[f]
  BY <1>2, <1>6 DEF FactorTypeOK
<1>9. ReadBy(j)'
  BY <1>2, <1>3, <1>4, <1>7, <1>8 DEF ReadBy, Is, Eligible, fixed
<1>10. ASSUME ~c.raced PROVE Tallied(f, n)'
  <2>1. Tallied(f, n)
    BY <1>2, <1>5, <1>10 DEF ChallengeInv
  <2>2. Judging(f, n)' \subseteq {j}
    BY <1>5, <1>7, <1>10 DEF Judging, Is
  <2>3. c.accepted = 0 /\ UNCHANGED kind
    BY <1>2, <1>3, <1>5, <2>1 DEF Tallied, fixed
  <2>4. kind[f] = "otp" => /\ c.wrong = c.attempts /\ c.wrong + c.accepted <= MaxAttempts
                           /\ local'[j].attempts = c.attempts /\ local'[j].attempts < MaxAttempts
    BY <1>1, <1>4, <1>5, <1>7, <2>1 DEF Tallied
  <2>5. \A i \in Judging(f, n)' : /\ i = j
                                  /\ \A h \in Judging(f, n)' : h = i
    BY <2>2
  <2>6. QED
    BY <1>8, <2>3, <2>4, <2>5 DEF Tallied
<1>11. local' \in [Job -> Progress]
  BY <1>4, <1>6, MoveIs
<1>12. \A i \in Job : \/ local'[i] = local[i]
                     \/ /\ ReadBy(i)' /\ local'[i].at \in {"judge", "activate", "done"}
                        /\ local'[i].at = "judge" => local'[i].f = f /\ local'[i].n = n
  BY <1>4, <1>7, <1>9
<1>13. status' \in [Factor -> {"none", "pending", "active", "disabled"}] /\ UNCHANGED <<fixed, codes>>
  BY <1>3 DEF FactorTypeOK
<1>14. c \in Challenge /\ sent' = [sent EXCEPT ![f][n] = c]
  BY <1>5, <1>6
<1>15. QED
  BY <1>10, <1>11, <1>12, <1>13, <1>14, RewriteKeeps

(* What a request that judges has in hand.                                                 *)
LEMMA JudgeIs ==
  ASSUME FactorInv, NEW j \in Job, Is(j, "judge")
  PROVE  /\ local[j].f \in Factor /\ local[j].n \in DOMAIN sent[local[j].f]
         /\ local[j].attempts \in Nat
         /\ sent[local[j].f][local[j].n] \in Challenge
         /\ j \in Judging(local[j].f, local[j].n)
         /\ ~sent[local[j].f][local[j].n].raced => Tallied(local[j].f, local[j].n)
<1> USE DEF FactorInv
<1>1. local[j].f \in Factor /\ local[j].attempts \in Nat
  BY LocalIs DEF Progress
<1>2. local[j].n \in DOMAIN sent[local[j].f]
  BY DEF ReadInv, ReadBy
<1>3. sent[local[j].f][local[j].n] \in Challenge
  BY <1>1, <1>2 DEF FactorTypeOK
<1>4. QED
  BY <1>1, <1>2, <1>3 DEF Judging, ChallengeInv

LEMMA WrongKeeps == ASSUME FactorInv, NEW j \in Job, Wrong(j) PROVE FactorInv'
<1> USE DEF FactorInv
<1>1. Is(j, "judge") /\ Finished(j) /\ UNCHANGED <<fixed, status, codes>>
  BY DEF Wrong
<1>2. /\ local' \in [Job -> Progress] /\ local'[j].at = "done"
      /\ \A i \in Job : i # j => local'[i] = local[i]
  BY <1>1, FinishedIs
<1>3. ReadBy(j)'
  BY <1>2 DEF ReadBy, Is
<1>4. CASE kind[local[j].f] # "otp"
  <2>1. UNCHANGED sent
    BY <1>4 DEF Wrong
  <2>2. QED
    BY <1>1, <1>2, <1>3, <2>1, PlainKeeps DEF FactorTypeOK
<1>5. CASE kind[local[j].f] = "otp"
  <2>1. PICK f \in Factor : f = local[j].f
    BY <1>1, JudgeIs
  <2>2. PICK n \in DOMAIN sent[f] : n = local[j].n
    BY <1>1, <2>1, JudgeIs
  <2>3. /\ sent[f][n] \in Challenge /\ local[j].attempts \in Nat /\ j \in Judging(f, n)
        /\ ~sent[f][n].raced => Tallied(f, n)
    BY <1>1, <2>1, <2>2, JudgeIs
  <2> DEFINE c == [sent[f][n] EXCEPT !.attempts = local[j].attempts + 1,
                                     !.wrong = sent[f][n].wrong + 1]
  <2>4. sent[f][n].wrong + 1 \in Nat /\ local[j].attempts + 1 \in Nat
    BY <2>3 DEF Challenge
  <2>5. /\ c \in Challenge /\ c.attempts = local[j].attempts + 1 /\ c.wrong = sent[f][n].wrong + 1
        /\ c.open = sent[f][n].open /\ c.accepted = sent[f][n].accepted /\ c.raced = sent[f][n].raced
    BY <2>3, <2>4 DEF Challenge
  <2>6. sent' = [sent EXCEPT ![f][n] = c]
    <3>1. sent' = [sent EXCEPT ![f][n].attempts = local[j].attempts + 1,
                                  ![f][n].wrong = @ + 1]
      BY <1>5, <2>1, <2>2 DEF Wrong
    <3>2. QED
      BY <3>1
  <2> HIDE DEF c
  <2>7. sent'[f][n] = c
    BY <2>2, <2>6 DEF FactorTypeOK
  <2>8. ASSUME ~c.raced PROVE Tallied(f, n)'
    <3>1. Tallied(f, n)
      BY <2>3, <2>5, <2>8
    <3>2. \A i \in Judging(f, n) : i = j
      BY <2>3, <3>1 DEF Tallied
    <3>3. Judging(f, n)' = {}
      BY <1>2, <3>2 DEF Judging, Is
    <3>4. sent[f][n].accepted = 0 /\ sent[f][n].wrong = local[j].attempts /\ local[j].attempts < MaxAttempts
      BY <1>5, <2>1, <2>3, <3>1 DEF Tallied
    <3>5. c.accepted = 0 /\ c.wrong = c.attempts /\ c.wrong + c.accepted <= MaxAttempts
      BY <2>3, <2>5, <3>4, FactorAssumption
    <3>6. QED
      BY <2>7, <3>3, <3>5 DEF Tallied
  <2>9. status' \in [Factor -> {"none", "pending", "active", "disabled"}] /\ UNCHANGED <<fixed, codes>>
    BY <1>1 DEF FactorTypeOK
  <2>10. QED
    BY <1>2, <1>3, <2>2, <2>5, <2>6, <2>8, <2>9, RewriteKeeps
<1>6. QED
  BY <1>4, <1>5

LEMMA RightKeeps == ASSUME FactorInv, NEW j \in Job, Right(j) PROVE FactorInv'
<1> USE DEF FactorInv
<1>1. Is(j, "judge") /\ UNCHANGED <<fixed, status, codes>>
  BY DEF Right
<1>2. PICK f \in Factor : f = local[j].f
  BY <1>1, JudgeIs
<1>3. PICK n \in DOMAIN sent[f] : n = local[j].n
  BY <1>1, <1>2, JudgeIs
<1>4. /\ sent[f][n] \in Challenge /\ j \in Judging(f, n)
      /\ ~sent[f][n].raced => Tallied(f, n)
  BY <1>1, <1>2, <1>3, JudgeIs
<1>5. /\ local' \in [Job -> Progress] /\ local'[j].at \in {"activate", "done"} /\ ReadBy(j)'
      /\ \A i \in Job : i # j => local'[i] = local[i]
  <2>1. CASE local[j].setup
    <3> DEFINE r == [local[j] EXCEPT !.at = "activate"]
    <3>1. r \in Progress /\ r.at = "activate" /\ r.f = f /\ r.saw = local[j].saw
      BY <1>2, LocalIs DEF Progress
    <3>2. local' = [local EXCEPT ![j] = r]
      BY <2>1 DEF Right, Then
    <3> HIDE DEF r
    <3>3. local'[j] = r /\ local' \in [Job -> Progress] /\ \A i \in Job : i # j => local'[i] = local[i]
      BY <3>1, <3>2, MoveIs
    <3>4. kind[f] = "webauthn" \/ local[j].saw = "pending"
      BY <1>1, <1>2, <2>1 DEF ReadInv, ReadBy
    <3>5. ReadBy(j)'
      BY <1>1, <3>1, <3>3, <3>4 DEF ReadBy, Is, fixed
    <3>6. QED
      BY <3>1, <3>3, <3>5
  <2>2. CASE ~local[j].setup
    <3>1. Finished(j)
      BY <2>2 DEF Right
    <3>2. QED
      BY <3>1, FinishedIs DEF ReadBy, Is
  <2>3. QED
    BY <2>1, <2>2
<1> DEFINE c == [sent[f][n] EXCEPT !.open = FALSE, !.accepted = sent[f][n].accepted + 1]
<1>6. /\ c \in Challenge /\ ~c.open /\ c.accepted = sent[f][n].accepted + 1
      /\ c.attempts = sent[f][n].attempts /\ c.wrong = sent[f][n].wrong /\ c.raced = sent[f][n].raced
  <2>1. sent[f][n].accepted + 1 \in Nat
    BY <1>4 DEF Challenge
  <2>2. QED
    BY <1>4, <2>1 DEF Challenge
<1>7. sent' = [sent EXCEPT ![f][n] = c]
  <2>1. sent' = [sent EXCEPT ![f][n].open = FALSE, ![f][n].accepted = @ + 1]
    BY <1>2, <1>3 DEF Right
  <2>2. QED
    BY <2>1
<1> HIDE DEF c
<1>8. sent'[f][n] = c
  BY <1>3, <1>7 DEF FactorTypeOK
<1>9. ASSUME ~c.raced PROVE Tallied(f, n)'
  <2>1. Tallied(f, n)
    BY <1>4, <1>6, <1>9
  <2>2. \A i \in Judging(f, n) : i = j
    BY <1>4, <2>1 DEF Tallied
  <2>3. Judging(f, n)' = {}
    BY <1>5, <2>2 DEF Judging, Is
  <2>4. sent[f][n].accepted = 0 /\ (kind[f] = "otp" => /\ sent[f][n].wrong = sent[f][n].attempts
                                                       /\ sent[f][n].attempts < MaxAttempts)
    BY <1>4, <2>1 DEF Tallied
  <2>5. c.accepted = 1 /\ (kind[f] = "otp" => c.wrong = c.attempts /\ c.wrong + c.accepted <= MaxAttempts)
    BY <1>4, <1>6, <2>4, FactorAssumption DEF Challenge
  <2>6. QED
    BY <1>1, <1>6, <1>8, <2>3, <2>5 DEF Tallied, fixed
<1>10. status' \in [Factor -> {"none", "pending", "active", "disabled"}] /\ UNCHANGED <<fixed, codes>>
  BY <1>1 DEF FactorTypeOK
<1>11. \A i \in Job : \/ local'[i] = local[i]
                     \/ /\ ReadBy(i)' /\ local'[i].at \in {"judge", "activate", "done"}
                        /\ local'[i].at = "judge" => local'[i].f = f /\ local'[i].n = n
  BY <1>5
<1>12. QED
  BY <1>3, <1>5, <1>6, <1>7, <1>9, <1>10, <1>11, RewriteKeeps

LEMMA ChallengeExpiresKeeps ==
  ASSUME FactorInv, NEW f \in Factor, ChallengeExpires(f) PROVE FactorInv'
<1> USE DEF FactorInv
<1>1. PICK n \in Open(f) : sent' = [sent EXCEPT ![f][n].open = FALSE]
  BY DEF ChallengeExpires
<1> DEFINE c == [sent[f][n] EXCEPT !.open = FALSE]
<1>2. n \in DOMAIN sent[f] /\ sent[f][n] \in Challenge
  BY DEF Open, FactorTypeOK
<1>3. /\ c \in Challenge /\ ~c.open /\ c.accepted = sent[f][n].accepted
      /\ c.attempts = sent[f][n].attempts /\ c.wrong = sent[f][n].wrong /\ c.raced = sent[f][n].raced
  BY <1>2 DEF Challenge
<1>4. sent' = [sent EXCEPT ![f][n] = c] /\ UNCHANGED <<fixed, status, local, codes>>
  BY <1>1 DEF ChallengeExpires
<1> HIDE DEF c
<1>5. sent'[f][n] = c
  BY <1>2, <1>4 DEF FactorTypeOK
<1>6. ASSUME ~c.raced PROVE Tallied(f, n)'
  <2>1. Tallied(f, n)
    BY <1>2, <1>3, <1>6 DEF ChallengeInv
  <2>2. Judging(f, n)' = Judging(f, n)
    BY <1>4 DEF Judging, Is
  <2>3. QED
    BY <1>3, <1>4, <1>5, <2>1, <2>2 DEF Tallied, fixed
<1>7. QED
  BY <1>2, <1>3, <1>4, <1>6, RewriteKeeps DEF FactorTypeOK
(* A new challenge is open, and nobody judges it yet.                                       *)
LEMMA SendCodeKeeps == ASSUME FactorInv, NEW j \in Job, SendCode(j) PROVE FactorInv'
<1> USE DEF FactorInv
<1>1. PICK f \in Factor : f = local[j].f
  BY LocalIs DEF Progress
<1>2. /\ Is(j, "send") /\ Finished(j) /\ UNCHANGED <<fixed, status, codes>>
      /\ kind[f] # "totp" /\ Len(sent[f]) < MaxSent
      /\ sent' = [sent EXCEPT ![f] = Append(@, Sent)]
  BY <1>1 DEF SendCode, ReadInv, ReadBy
<1>3. /\ local' \in [Job -> Progress] /\ local'[j].at = "done"
      /\ \A i \in Job : i # j => local'[i] = local[i]
  BY <1>2, FinishedIs
<1>4. Sent \in Challenge /\ ~Sent.raced /\ Sent.attempts = 0 /\ Sent.wrong = 0 /\ Sent.accepted = 0
  BY DEF Sent, Challenge
<1>5. /\ sent' \in [Factor -> Seq(Challenge)]
      /\ \A g \in Factor : g # f => sent'[g] = sent[g]
      /\ Len(sent'[f]) = Len(sent[f]) + 1 /\ Len(sent[f]) \in Nat
      /\ sent'[f][Len(sent[f]) + 1] = Sent
      /\ \A n \in DOMAIN sent[f] : n \in DOMAIN sent'[f] /\ sent'[f][n] = sent[f][n]
      /\ DOMAIN sent'[f] = DOMAIN sent[f] \cup {Len(sent[f]) + 1}
      /\ Len(sent[f]) + 1 \notin DOMAIN sent[f]
  <2>1. sent[f] \in Seq(Challenge) /\ sent'[f] = Append(sent[f], Sent)
    BY <1>2 DEF FactorTypeOK
  <2>2. Append(sent[f], Sent) \in Seq(Challenge)
    BY <1>4, <2>1
  <2>3. /\ sent' \in [Factor -> Seq(Challenge)]
        /\ \A g \in Factor : g # f => sent'[g] = sent[g]
    BY <1>2, <2>1, <2>2 DEF FactorTypeOK
  <2>4. QED
    BY <2>1, <2>3
<1>6. FactorTypeOK'
  <2>1. \A g \in Factor : Len(sent'[g]) <= MaxSent
    <3>1. Len(sent[f]) + 1 <= MaxSent
      BY <1>2, <1>5, FactorAssumption
    <3>2. QED
      BY <1>5, <3>1 DEF FactorTypeOK
  <2>2. QED
    BY <1>2, <1>3, <1>5, <2>1 DEF FactorTypeOK, fixed, codes
<1>7. ReadInv'
  <2>1. ReadBy(j)'
    BY <1>3 DEF ReadBy, Is
  <2>2. \A g \in Factor : DOMAIN sent[g] \subseteq DOMAIN sent'[g]
    BY <1>5
  <2>3. QED
    BY <1>2, <1>3, <2>1, <2>2, ReadFrame DEF fixed
<1>8. CodeInv' /\ BatchInv'
  BY <1>2, <1>3, CodeFrame
<1>9. ASSUME NEW g \in Factor, NEW n \in DOMAIN sent[g], ~sent'[g][n].raced
      PROVE  Tallied(g, n)'
  <2>1. sent'[g][n] = sent[g][n]
    BY <1>5
  <2>2. Tallied(g, n)
    BY <1>9, <2>1 DEF ChallengeInv
  <2>3. \A i \in Judging(g, n)' : i \in Judging(g, n) /\ local'[i] = local[i]
    BY <1>3 DEF Judging, Is
  <2>4. QED
    BY <1>2, <2>1, <2>2, <2>3 DEF Tallied, fixed
<1>10. PICK new \in Nat : new = Len(sent[f]) + 1
  BY <1>5
<1>11. Tallied(f, new)'
  <2>1. Judging(f, new)' = {}
    <3>1. Judging(f, new) = {}
      BY <1>5, <1>10 DEF ReadInv, ReadBy, Judging
    <3>2. QED
      BY <1>3, <3>1 DEF Judging, Is
  <2>2. sent'[f][new] = Sent
    BY <1>5, <1>10
  <2>3. QED
    BY <1>4, <2>1, <2>2, FactorAssumption DEF Tallied
<1>12. ChallengeInv'
  <2> SUFFICES ASSUME NEW g \in Factor
               PROVE  /\ sent'[g] # <<>> => kind[g] # "totp"
                      /\ \A m \in DOMAIN sent'[g] : ~sent'[g][m].raced => Tallied(g, m)'
    BY <1>2 DEF ChallengeInv, fixed
  <2>1. sent'[g] # <<>> => kind[g] # "totp"
    BY <1>2, <1>5 DEF ChallengeInv
  <2>2. \A m \in DOMAIN sent'[g] : m \in DOMAIN sent[g] \/ (g = f /\ m = new)
    BY <1>5, <1>10
  <2>3. QED
    BY <1>9, <1>11, <2>1, <2>2
<1>13. QED
  BY <1>6, <1>7, <1>8, <1>12

-----------------------------------------------------------------------------
LEMMA NextKeeps == FactorInv /\ [FactorNext]_factorVars => FactorInv'
<1> SUFFICES ASSUME FactorInv, [FactorNext]_factorVars PROVE FactorInv'
  OBVIOUS
<1>1. CASE UNCHANGED factorVars
  <2>1. UNCHANGED <<fixed, sent, codes>> /\ UNCHANGED <<status, local>>
    BY <1>1 DEF factorVars, fixed, codes
  <2>2. QED
    BY <2>1, PlainKeeps DEF FactorInv, FactorTypeOK
<1>2. ASSUME NEW j \in Job, NEW f \in Factor,
             \/ Enrol(j, f) \/ AskChallenge(j, f) \/ ConfirmTotp(j, f)
             \/ \E setup \in BOOLEAN : FindChallenge(j, f, setup)
      PROVE  FactorInv'
  BY <1>2, PlainStepsKeep, FindChallengeKeeps
<1>3. ASSUME NEW j \in Job,
             \/ SendCode(j) \/ Wrong(j) \/ Right(j) \/ Activate(j)
             \/ BeginGenerate(j) \/ DeleteCodes(j) \/ MarkCode(j)
             \/ \E k \in RecoveryCode : InsertCode(j, k) \/ FindCode(j, k)
             \/ BeginMigrate(j) \/ Migrate(j) \/ Break(j)
      PROVE  FactorInv'
  <2>1. CASE SendCode(j) \/ Wrong(j) \/ Right(j)
    BY <2>1, SendCodeKeeps, WrongKeeps, RightKeeps
  <2>2. CASE Activate(j) \/ BeginMigrate(j) \/ Migrate(j) \/ Break(j)
    BY <2>2, PlainStepsKeep, SomeFactorAssumption
  <2>3. CASE BeginGenerate(j) \/ DeleteCodes(j) \/ MarkCode(j)
    BY <2>3, BeginGenerateKeeps, DeleteCodesKeeps, MarkCodeKeeps
  <2>4. CASE \E k \in RecoveryCode : InsertCode(j, k) \/ FindCode(j, k)
    BY <2>4, InsertCodeKeeps, FindCodeKeeps
  <2>5. QED
    BY <1>3, <2>1, <2>2, <2>3, <2>4
<1>4. ASSUME NEW f \in Factor, DisableFactor(f) \/ ChallengeExpires(f) PROVE FactorInv'
  <2>1. CASE DisableFactor(f)
    <3>1. CASE Job = {}
      <4>1. status' \in [Factor -> {"none", "pending", "active", "disabled"}]
        BY <2>1 DEF DisableFactor, FactorInv, FactorTypeOK
      <4>2. QED
        BY <2>1, <4>1, PlainKeeps DEF DisableFactor, FactorInv, FactorTypeOK
    <3>2. CASE Job # {}
      BY <2>1, <3>2, PlainStepsKeep
    <3>3. QED
      BY <3>1, <3>2
  <2>2. CASE ChallengeExpires(f)
    BY <2>2, ChallengeExpiresKeeps
  <2>3. QED
    BY <1>4, <2>1, <2>2
<1>5. QED
  BY <1>1, <1>2, <1>3, <1>4 DEF FactorNext

(* What makes second factors correct is kept by every step of every request.               *)
THEOREM FactorInvHolds == FactorSpec => []FactorInv
<1>1. FactorInit => FactorInv
  BY InitHolds
<1>2. FactorInv /\ [FactorNext]_factorVars => FactorInv'
  BY NextKeeps
<1>3. QED
  BY <1>1, <1>2, PTL DEF FactorSpec

(* The rows of mfa_factors and mfa_challenges, and what requests remember of them, stay    *)
(* of their types.                                                                          *)
THEOREM FactorTypesCorrect == FactorSpec => []FactorTypeOK
<1>1. FactorInv => FactorTypeOK
  BY DEF FactorInv
<1>2. QED
  BY <1>1, FactorInvHolds, PTL

(* A challenge that no two requests judge at once is accepted once and takes at most        *)
(* MaxAttempts answers when it is a code; a recovery code found by one request at a time    *)
(* is accepted once; and codes of one generation only are accepted, unless two overlapped.  *)
THEOREM FactorHoldsTheorem == FactorSpec => []FactorHolds
<1>1. FactorInv => FactorHolds
  <2> SUFFICES ASSUME FactorInv PROVE FactorHolds
    OBVIOUS
  <2> USE DEF FactorInv
  <2>1. ASSUME NEW f \in Factor, NEW n \in 1..MaxSent, n \in DOMAIN sent[f], ~sent[f][n].raced
        PROVE  /\ sent[f][n].accepted <= 1
               /\ sent[f][n].wrong + sent[f][n].accepted <= MaxAttempts \/ kind[f] = "webauthn"
    <3>1. Tallied(f, n)
      BY <2>1 DEF ChallengeInv
    <3>2. kind[f] = "otp" \/ kind[f] = "webauthn"
      <4>1. sent[f] # <<>>
        BY <2>1 DEF FactorTypeOK
      <4>2. QED
        BY <4>1 DEF ChallengeInv, FactorTypeOK
    <3>3. QED
      BY <3>1, <3>2 DEF Tallied
  <2>2. \A k \in RecoveryCode : batch[k].raced \/ batch[k].accepted <= 1
    BY DEF CodeInv
  <2>3. ChallengeHolds
    BY <2>1, <2>2 DEF ChallengeHolds
  <2>4. OneBatch
    BY DEF OneBatch, BatchInv
  <2>5. QED
    BY <2>3, <2>4 DEF FactorHolds
<1>2. QED
  BY <1>1, FactorInvHolds, PTL

(* Disabling a factor lasts: only the activation that follows a confirmation which found    *)
(* the factor pending, or the end of a WebAuthn registration, makes it active again; a      *)
(* login, a backfill or a failure never does.                                               *)
THEOREM DisabledStaysDisabledTheorem == FactorSpec => DisabledStaysDisabled
<1> DEFINE Stays == \A f \in Factor : status[f] = "disabled" /\ status'[f] # "disabled" =>
                      \E j \in Job : /\ Is(j, "activate") /\ local[j].f = f
                                     /\ kind[f] = "webauthn" \/ local[j].saw = "pending"
<1>1. FactorInv /\ [FactorNext]_factorVars => Stays
  <2> SUFFICES ASSUME FactorInv, [FactorNext]_factorVars,
                      NEW f \in Factor, status[f] = "disabled", status'[f] # "disabled"
               PROVE  \E j \in Job : /\ Is(j, "activate") /\ local[j].f = f
                                     /\ kind[f] = "webauthn" \/ local[j].saw = "pending"
    OBVIOUS
  <2>1. status \in [Factor -> {"none", "pending", "active", "disabled"}]
    BY DEF FactorInv, FactorTypeOK
  <2>2. \A j \in Job, g \in Factor :
          ~(Enrol(j, g) \/ AskChallenge(j, g) \/ ConfirmTotp(j, g) \/ DisableFactor(g)
            \/ ChallengeExpires(g) \/ \E setup \in BOOLEAN : FindChallenge(j, g, setup))
    BY <2>1 DEF Enrol, AskChallenge, ConfirmTotp, DisableFactor, ChallengeExpires, FindChallenge
  <2>3. \A g \in Factor : ~(DisableFactor(g) \/ ChallengeExpires(g))
    BY <2>1 DEF DisableFactor, ChallengeExpires
  <2>4. \A j \in Job :
          ~(\/ SendCode(j) \/ Wrong(j) \/ Right(j) \/ BeginGenerate(j) \/ DeleteCodes(j)
            \/ MarkCode(j) \/ \E k \in RecoveryCode : InsertCode(j, k) \/ FindCode(j, k)
            \/ BeginMigrate(j) \/ Migrate(j) \/ Break(j))
    BY <2>1 DEF SendCode, Wrong, Right, BeginGenerate, DeleteCodes, MarkCode, InsertCode,
                FindCode, BeginMigrate, Migrate, Break
  <2>5. ~UNCHANGED factorVars
    BY DEF factorVars
  <2>6. PICK j \in Job : Activate(j)
    BY <2>2, <2>3, <2>4, <2>5 DEF FactorNext
  <2>7. Is(j, "activate") /\ local[j].f = f
    BY <2>1, <2>6 DEF Activate
  <2>8. kind[f] = "webauthn" \/ local[j].saw = "pending"
    BY <2>7 DEF FactorInv, ReadInv, ReadBy
  <2>9. QED
    BY <2>7, <2>8
<1>2. FactorSpec => [][Stays]_factorVars
  BY <1>1, FactorInvHolds, PTL DEF FactorSpec
<1>3. QED
  BY <1>2 DEF DisabledStaysDisabled

--------------------------------------------------------------------------------
(* AuthAccount.                                                                      *)

MyRow == [at : Steps, got : UserRow, link : Call, how : Hows, proved : MaybePassword, new : MaybePassword]
InsRow == [access : TokenState, refresh : TokenState, reset : LinkState, mail : LinkState,
           deletion : {"none", "pending", "cancelled"}, mfa : BOOLEAN]

(* What a call at a step has in its locals and in the tables.                                  *)
Shape(c) ==
  /\ my[c].at = "idle" => my[c] = Fresh(c)
  /\ my[c].at # "done" => ins[c].refresh = "none" /\ ~ins[c].mfa
  /\ my[c].at \in {"update", "mark", "record", "welcome"} => my[c].new \in Password
  /\ my[c].at = "spend" => my[c].how = "renew"
  /\ my[c].how = "renew" => /\ my[c].at \in {"access", "spend", "refresh"}
                            /\ ins[my[c].link].refresh # "none"
                            /\ my[c].at = "refresh" => ins[my[c].link].refresh = "revoked"

(* Before the registration there is nothing.                                                  *)
NoAccount ==
  ~Exists => user = NoUser /\ \A c \in Call : my[c].at \in {"idle", "done"} /\ ins[c] = NoRows

AccountBase == AccountTypeOK /\ (\A c \in Call : Shape(c)) /\ NoAccount

(* What a call proved is the password of the account, or its tokens need not live.             *)
Needs(c) ==
  \/ my[c].at = "check" /\ my[c].proved = my[c].got.pw
  \/ my[c].at \in TokenSteps
  \/ ins[c].mfa
  \/ ins[c].refresh = "live"
Clean(c) ==
  \/ my[c].proved \in {user.pw, NoPassword}
  \/ straddled[c]
  \/ \E d \in Call : Revoking(d)
CleanInv == \A c \in Call : Needs(c) => Clean(c)

(* The row a login has read still tells the count.                                            *)
LockInv ==
  ~attempts.overlapped =>
    /\ user.failed = attempts.wrong
    /\ attempts.wrong >= MaxFailed => user.locked \/ attempts.lapsed
    /\ \A c, d \in Reading : c = d
    /\ \A c \in Reading : my[c].got.failed = user.failed

(* One renewal at a time presents a token that is not spent yet.                              *)
RenewInv(l) ==
  ~renewals[l].overlapped =>
    /\ \A c, d \in Renewing(l) : c = d
    /\ renewals[l].minted <= 1
    /\ Renewing(l) # {} => renewals[l].minted = 0
    /\ renewals[l].minted > 0 => ins[l].refresh = "revoked"

AccountInv ==
  /\ AccountBase
  /\ CleanInv
  /\ LockInv
  /\ \A l \in Call : RenewInv(l)

LEMMA AccountFacts ==
  ASSUME AccountBase
  PROVE  /\ user \in UserRow /\ user.pw \in MaybePassword /\ user.failed \in Nat /\ user.locked \in BOOLEAN
         /\ my \in [Call -> MyRow] /\ ins \in [Call -> InsRow]
         /\ \A c \in Call : /\ my[c] \in MyRow /\ my[c].proved \in MaybePassword /\ my[c].new \in MaybePassword
                            /\ my[c].link \in Call /\ my[c].got \in UserRow /\ my[c].at \in Steps
                            /\ my[c].how \in Hows /\ ins[c] \in InsRow /\ ins[c].refresh \in TokenState
                            /\ Shape(c)
                            /\ my[c].at \notin {"idle", "done"} => Exists
                            /\ ins[c] # NoRows => Exists
         /\ ~Exists => user = NoUser
         /\ straddled \in [Call -> BOOLEAN]
         /\ attempts \in [wrong : Nat, overlapped : BOOLEAN, lapsed : BOOLEAN]
         /\ renewals \in [Call -> [minted : Nat, overlapped : BOOLEAN]]
         /\ dead \subseteq Call /\ enrolled \in BOOLEAN /\ trusted \in BOOLEAN
         /\ history \in Seq(Password)
<1>1. my \in [Call -> MyRow] /\ ins \in [Call -> InsRow] /\ user \in UserRow
  BY DEF AccountBase, AccountTypeOK, MyRow, InsRow
<1>2. \A c \in Call : /\ my[c] \in MyRow /\ my[c].proved \in MaybePassword /\ my[c].new \in MaybePassword
                      /\ my[c].link \in Call /\ my[c].got \in UserRow /\ my[c].at \in Steps
                      /\ my[c].how \in Hows /\ ins[c] \in InsRow /\ ins[c].refresh \in TokenState
  BY <1>1 DEF MyRow, InsRow
<1>3. user.pw \in MaybePassword /\ user.failed \in Nat /\ user.locked \in BOOLEAN
  BY <1>1 DEF UserRow
<1>4. \A c \in Call : /\ Shape(c)
                      /\ my[c].at \notin {"idle", "done"} => Exists
                      /\ ins[c] # NoRows => Exists
  BY DEF AccountBase, NoAccount
<1>5. ~Exists => user = NoUser
  BY DEF AccountBase, NoAccount
<1>6. QED
  BY <1>1, <1>2, <1>3, <1>4, <1>5 DEF AccountBase, AccountTypeOK

LEMMA MyTyped == AccountTypeOK' <=>
  /\ user' \in UserRow
  /\ enrolled' \in BOOLEAN /\ trusted' \in BOOLEAN
  /\ history' \in Seq(Password)
  /\ ins' \in [Call -> InsRow] /\ my' \in [Call -> MyRow]
  /\ dead' \subseteq Call
  /\ straddled' \in [Call -> BOOLEAN]
  /\ attempts' \in [wrong : Nat, overlapped : BOOLEAN, lapsed : BOOLEAN]
  /\ renewals' \in [Call -> [minted : Nat, overlapped : BOOLEAN]]
BY DEF AccountTypeOK, MyRow, InsRow

LEMMA FreshFacts ==
  ASSUME NEW c \in Call
  PROVE  /\ Fresh(c) \in MyRow /\ Fresh(c).at = "idle" /\ Fresh(c).how = "login" /\ Fresh(c).link = c
         /\ Fresh(c).proved = NoPassword /\ NoUser \in UserRow /\ NoUser.pw = NoPassword
         /\ NoUser.failed = 0 /\ ~NoUser.locked
         /\ NoRows \in InsRow /\ NoRows.refresh = "none" /\ ~NoRows.mfa
<1>1. NoUser \in UserRow /\ NoUser.pw = NoPassword /\ NoUser.failed = 0 /\ ~NoUser.locked
  BY DEF NoUser, UserRow, MaybePassword
<1>2. NoRows \in InsRow /\ NoRows.refresh = "none" /\ ~NoRows.mfa
  BY DEF NoRows, InsRow, TokenState, LinkState
<1>3. /\ Fresh(c) \in MyRow /\ Fresh(c).at = "idle" /\ Fresh(c).how = "login" /\ Fresh(c).link = c
      /\ Fresh(c).proved = NoPassword
  BY <1>1 DEF Fresh, MyRow, Steps, TokenSteps, Hows, MaybePassword
<1>4. QED
  BY <1>1, <1>2, <1>3

LEMMA GoFacts ==
  ASSUME AccountBase, NEW c \in Call, NEW step \in Steps, Go(c, step)
  PROVE  /\ my' \in [Call -> MyRow] /\ \A d \in Call : d # c => my'[d] = my[d]
         /\ my'[c].at = step /\ my'[c].got = my[c].got /\ my'[c].link = my[c].link
         /\ my'[c].how = my[c].how /\ my'[c].proved = my[c].proved /\ my'[c].new = my[c].new
<1>1. my \in [Call -> MyRow] /\ my[c] \in MyRow
  BY AccountFacts
<1> DEFINE row == [my[c] EXCEPT !.at = step]
<1>2. /\ row \in MyRow /\ row.at = step /\ row.got = my[c].got /\ row.link = my[c].link
      /\ row.how = my[c].how /\ row.proved = my[c].proved /\ row.new = my[c].new
      /\ my' = [my EXCEPT ![c] = row]
  BY <1>1 DEF MyRow, Go
<1> HIDE DEF row
<1>3. QED
  BY <1>1, <1>2

LEMMA EndFacts ==
  ASSUME AccountBase, NEW c \in Call, End(c)
  PROVE  /\ my' \in [Call -> MyRow] /\ \A d \in Call : d # c => my'[d] = my[d]
         /\ my'[c].at = "done" /\ my'[c].how = "login" /\ my'[c].proved = my[c].proved
<1>1. my \in [Call -> MyRow] /\ my[c] \in MyRow /\ my[c].proved \in MaybePassword /\ Fresh(c) \in MyRow
      /\ Fresh(c).how = "login"
  BY AccountFacts, FreshFacts
<1> DEFINE row == [Fresh(c) EXCEPT !.at = "done", !.proved = my[c].proved]
<1>2. /\ row \in MyRow /\ row.at = "done" /\ row.how = "login" /\ row.proved = my[c].proved
      /\ my' = [my EXCEPT ![c] = row]
  BY <1>1 DEF MyRow, End, Steps, TokenSteps
<1> HIDE DEF row
<1>3. QED
  BY <1>1, <1>2

(* The locals and the rows of a call fit each other after a step.                             *)
Fits(c) ==
  /\ my[c].at # "idle"
  /\ my[c].at # "done" => ins[c].refresh = "none" /\ ~ins[c].mfa
  /\ my[c].at \in {"update", "mark", "record", "welcome"} => my[c].new \in Password
  /\ my[c].at = "spend" => my[c].how = "renew"
  /\ my[c].how = "renew" => /\ my[c].at \in {"access", "spend", "refresh"}
                            /\ ins[my[c].link].refresh # "none"
                            /\ my[c].at = "refresh" => ins[my[c].link].refresh = "revoked"

(* Rows of refresh tokens are inserted once, by calls that end, and only ever revoked.        *)
RowsGoOn ==
  \A d \in Call : /\ ins[d].refresh # "none" => ins'[d].refresh # "none"
                  /\ ins[d].refresh = "revoked" => ins'[d].refresh = "revoked"
                  /\ ins'[d].mfa => ins[d].mfa \/ my'[d].at = "done"
                  /\ ins'[d].refresh # "none" => ins[d].refresh # "none" \/ my'[d].at = "done"

LEMMA BaseKept ==
  ASSUME AccountBase, AccountTypeOK', Exists', RowsGoOn,
         \A d \in Call : my'[d] = my[d] \/ Fits(d)'
  PROVE  AccountBase'
<1>1. ASSUME NEW d \in Call PROVE Shape(d)'
  <2>1. Shape(d) /\ my[d].link \in Call
    BY AccountFacts
  <2>2. CASE Fits(d)'
    BY <2>2 DEF Fits, Shape
  <2>3. CASE my'[d] = my[d]
    <3>1. my[d].at # "done" => ins'[d].refresh = "none" /\ ~ins'[d].mfa
      BY <2>1, <2>3 DEF Shape, RowsGoOn
    <3>2. my[d].how = "renew" => /\ ins'[my[d].link].refresh # "none"
                                 /\ my[d].at = "refresh" => ins'[my[d].link].refresh = "revoked"
      BY <2>1 DEF Shape, RowsGoOn
    <3>3. QED
      BY <2>1, <2>3, <3>1, <3>2 DEF Shape
  <2>4. QED
    BY <2>2, <2>3
<1>2. NoAccount'
  BY DEF NoAccount
<1>3. QED
  BY <1>1, <1>2 DEF AccountBase

LEMMA CleanKept ==
  ASSUME CleanInv, user'.pw = user.pw,
         \A d \in Call : Revoking(d) => Revoking(d)',
         \A c \in Call : Needs(c)' =>
            \/ my'[c].proved \in {user.pw, NoPassword}
            \/ \E l \in Call : /\ Needs(l) /\ my'[c].proved = my[l].proved
                               /\ straddled[l] => straddled'[c]
  PROVE  CleanInv'
<1> SUFFICES ASSUME NEW c \in Call, Needs(c)' PROVE Clean(c)'
  BY DEF CleanInv
<1>1. CASE my'[c].proved \in {user.pw, NoPassword}
  BY <1>1 DEF Clean
<1>2. ASSUME NEW l \in Call, Needs(l), my'[c].proved = my[l].proved, straddled[l] => straddled'[c]
      PROVE  Clean(c)'
  <2>1. Clean(l)
    BY <1>2 DEF CleanInv
  <2>2. CASE \E d \in Call : Revoking(d)
    BY <2>2 DEF Clean
  <2>3. QED
    BY <1>2, <2>1, <2>2 DEF Clean
<1>3. QED
  BY <1>1, <1>2

LEMMA LockKept ==
  ASSUME LockInv, user'.failed = user.failed, user'.locked = user.locked, attempts' = attempts,
         \A d \in Call : my'[d].at = "check" => my'[d] = my[d]
  PROVE  LockInv'
<1>1. \A d \in Call : d \in Reading' => d \in Reading /\ my'[d] = my[d]
  BY DEF Reading
<1>2. QED
  BY <1>1 DEF LockInv, Reading

LEMMA RenewKept ==
  ASSUME NEW l \in Call, RenewInv(l), renewals'[l] = renewals[l], RowsGoOn,
         \A d \in Call : my'[d].how = "renew" => my[d].how = "renew" /\ my'[d].link = my[d].link
  PROVE  RenewInv(l)'
<1>1. \A d \in Call : d \in Renewing(l)' => d \in Renewing(l)
  BY DEF Renewing
<1>2. QED
  BY <1>1 DEF RenewInv, Renewing, RowsGoOn

(* A step that concerns neither the password, the lockout nor what has been renewed.          *)
LEMMA StepKeeps ==
  ASSUME AccountInv, AccountTypeOK', Exists', RowsGoOn, NEW c \in Call,
         user'.pw = user.pw, user'.failed = user.failed, user'.locked = user.locked,
         attempts' = attempts, straddled' = straddled, renewals' = renewals,
         \A d \in Call : d # c => /\ my'[d] = my[d]
                                  /\ ins'[d].mfa => ins[d].mfa
                                  /\ ins'[d].refresh = "live" => ins[d].refresh = "live",
         my'[c] = my[c] \/ Fits(c)',
         my'[c].at = "check" => my'[c] = my[c],
         my'[c].how = "renew" => my[c].how = "renew" /\ my'[c].link = my[c].link,
         Revoking(c) => Revoking(c)',
         Needs(c)' => my'[c].proved = NoPassword \/ (Needs(c) /\ my'[c].proved = my[c].proved)
  PROVE  AccountInv'
<1>1. AccountBase'
  BY BaseKept DEF AccountInv
<1>2. CleanInv'
  <2>1. \A d \in Call : Revoking(d) => Revoking(d)'
    BY DEF Revoking
  <2>2. ASSUME NEW d \in Call, Needs(d)'
        PROVE  \/ my'[d].proved \in {user.pw, NoPassword}
               \/ \E l \in Call : /\ Needs(l) /\ my'[d].proved = my[l].proved
                                  /\ straddled[l] => straddled'[d]
    <3>1. CASE d = c
      BY <2>2, <3>1
    <3>2. CASE d # c
      <4>1. Needs(d) /\ my'[d].proved = my[d].proved
        BY <2>2, <3>2 DEF Needs, TokenSteps
      <4>2. QED
        BY <4>1
    <3>3. QED
      BY <3>1, <3>2
  <2>3. QED
    BY <2>1, <2>2, CleanKept DEF AccountInv
<1>3. LockInv'
  BY LockKept DEF AccountInv
<1>4. \A l \in Call : RenewInv(l)'
  BY RenewKept DEF AccountInv
<1>5. QED
  BY <1>1, <1>2, <1>3, <1>4 DEF AccountInv

(* The tables keep their types, and no refresh token or mfa_token comes or goes.              *)
TablesQuiet ==
  /\ user' \in UserRow /\ user'.pw = user.pw /\ user'.failed = user.failed /\ user'.locked = user.locked
  /\ trusted' \in BOOLEAN /\ history' \in Seq(Password)
  /\ ins' \in [Call -> InsRow] /\ dead' \subseteq Call
  /\ UNCHANGED <<accountCase, enrolled, straddled, attempts, renewals>>
MfaQuiet == \A d \in Call : ins'[d].refresh = ins[d].refresh /\ (ins'[d].mfa => ins[d].mfa)

LEMMA QuietTypes ==
  ASSUME AccountBase, TablesQuiet, my' \in [Call -> MyRow]
  PROVE  AccountTypeOK'
<1>1. /\ enrolled' \in BOOLEAN /\ straddled' \in [Call -> BOOLEAN]
      /\ attempts' \in [wrong : Nat, overlapped : BOOLEAN, lapsed : BOOLEAN]
      /\ renewals' \in [Call -> [minted : Nat, overlapped : BOOLEAN]]
  BY AccountFacts DEF TablesQuiet
<1>2. QED
  BY <1>1, MyTyped DEF TablesQuiet

LEMMA GoKeeps ==
  ASSUME AccountInv, TablesQuiet, MfaQuiet, Exists, NEW c \in Call, NEW step \in Steps, Go(c, step),
         my[c].at # "done", step \notin {"idle", "check", "done"},
         step \in {"update", "mark", "record", "welcome"} => my[c].new \in Password,
         step = "spend" => my[c].how = "renew",
         my[c].how = "renew" => step \in {"access", "spend"},
         Revoking(c) => \/ step \in {"mark", "record", "prune", "refreshOff"}
                        \/ step = "accessOff" /\ my[c].how = "change",
         step \in TokenSteps =>
            Needs(c) \/ my[c].proved = NoPassword
  PROVE  AccountInv'
<1>1. AccountBase
  BY DEF AccountInv
<1>2. /\ my' \in [Call -> MyRow] /\ \A d \in Call : d # c => my'[d] = my[d]
      /\ my'[c].at = step /\ my'[c].got = my[c].got /\ my'[c].link = my[c].link
      /\ my'[c].how = my[c].how /\ my'[c].proved = my[c].proved /\ my'[c].new = my[c].new
  BY <1>1, GoFacts
<1>3. AccountTypeOK' /\ Exists'
  BY <1>1, <1>2, QuietTypes DEF TablesQuiet, Exists
<1>4. RowsGoOn
  BY DEF MfaQuiet, RowsGoOn
<1>5. Shape(c) /\ my[c].link \in Call
  BY <1>1, AccountFacts
<1>6. Fits(c)'
  BY <1>2, <1>5 DEF Fits, Shape, MfaQuiet
<1>7. Revoking(c) => Revoking(c)'
  BY <1>2 DEF Revoking
<1>8. Needs(c)' => my'[c].proved = NoPassword \/ (Needs(c) /\ my'[c].proved = my[c].proved)
  BY <1>2, <1>5 DEF Needs, TokenSteps, Shape, MfaQuiet
<1>9. \A d \in Call : d # c => /\ my'[d] = my[d]
                               /\ ins'[d].mfa => ins[d].mfa
                               /\ ins'[d].refresh = "live" => ins[d].refresh = "live"
  BY <1>2 DEF MfaQuiet
<1>10. /\ user'.pw = user.pw /\ user'.failed = user.failed /\ user'.locked = user.locked
       /\ attempts' = attempts /\ straddled' = straddled /\ renewals' = renewals
  BY DEF TablesQuiet
<1>11. QED
  BY <1>2, <1>3, <1>4, <1>6, <1>7, <1>8, <1>9, <1>10, StepKeeps

LEMMA EndKeeps ==
  ASSUME AccountInv, TablesQuiet, MfaQuiet, Exists, NEW c \in Call, End(c), ~Revoking(c)
  PROVE  AccountInv'
<1>1. AccountBase
  BY DEF AccountInv
<1>2. /\ my' \in [Call -> MyRow] /\ \A d \in Call : d # c => my'[d] = my[d]
      /\ my'[c].at = "done" /\ my'[c].how = "login" /\ my'[c].proved = my[c].proved
  BY <1>1, EndFacts
<1>3. AccountTypeOK' /\ Exists'
  BY <1>1, <1>2, QuietTypes DEF TablesQuiet, Exists
<1>4. RowsGoOn
  BY DEF MfaQuiet, RowsGoOn
<1>5. Fits(c)'
  BY <1>2 DEF Fits
<1>6. Needs(c)' => Needs(c)
  BY <1>2 DEF Needs, TokenSteps, MfaQuiet
<1>7. \A d \in Call : d # c => /\ my'[d] = my[d]
                               /\ ins'[d].mfa => ins[d].mfa
                               /\ ins'[d].refresh = "live" => ins[d].refresh = "live"
  BY <1>2 DEF MfaQuiet
<1>8. /\ user'.pw = user.pw /\ user'.failed = user.failed /\ user'.locked = user.locked
      /\ attempts' = attempts /\ straddled' = straddled /\ renewals' = renewals
  BY DEF TablesQuiet
<1>9. QED
  BY <1>2, <1>3, <1>4, <1>5, <1>6, <1>7, <1>8, StepKeeps

(* No call takes a step.                                                                      *)
LEMMA NobodyKeeps ==
  ASSUME AccountInv, TablesQuiet, MfaQuiet, my' = my, ~Exists => user' = user /\ ins' = ins
  PROVE  AccountInv'
<1>1. AccountBase
  BY DEF AccountInv
<1>2. AccountTypeOK'
  BY <1>1, AccountFacts, QuietTypes
<1>3. RowsGoOn
  BY DEF MfaQuiet, RowsGoOn
<1>4. AccountBase'
  <2>1. CASE Exists
    <3>1. Exists'
      BY <2>1 DEF Exists, TablesQuiet
    <3>2. QED
      BY <1>1, <1>2, <1>3, <3>1, BaseKept
  <2>2. CASE ~Exists
    BY <1>1, <1>2, <2>2 DEF AccountBase, Shape, NoAccount, Exists
  <2>3. QED
    BY <2>1, <2>2
<1>5. CleanInv'
  <2>1. \A d \in Call : Needs(d)' => Needs(d)
    BY DEF Needs, TokenSteps, MfaQuiet
  <2>2. QED
    BY <2>1, CleanKept DEF AccountInv, TablesQuiet, Revoking
<1>6. LockInv'
  BY LockKept DEF AccountInv, TablesQuiet
<1>7. \A l \in Call : RenewInv(l)'
  BY <1>3, RenewKept DEF AccountInv, TablesQuiet
<1>8. QED
  BY <1>4, <1>5, <1>6, <1>7 DEF AccountInv

LEMMA TablesSame ==
  ASSUME AccountBase, UNCHANGED <<choice, user, trusted, history, ins, dead, seen>>
  PROVE  TablesQuiet /\ MfaQuiet
BY AccountFacts DEF TablesQuiet, MfaQuiet, choice, seen

(* One row changes, in what is no refresh token and no mfa_token, or an mfa_token ends.        *)
LEMMA RowChanges ==
  ASSUME AccountBase, NEW d \in Call, NEW i \in InsRow, ins' = [ins EXCEPT ![d] = i],
         i.refresh = ins[d].refresh, i.mfa => ins[d].mfa,
         UNCHANGED <<choice, user, trusted, history, seen>>, dead' \subseteq Call
  PROVE  TablesQuiet /\ MfaQuiet
<1>1. ins' \in [Call -> InsRow] /\ MfaQuiet
  BY AccountFacts DEF MfaQuiet
<1>2. QED
  BY <1>1, AccountFacts DEF TablesQuiet, choice, seen

LEMMA ForgetDeviceKeeps == AccountInv /\ ForgetDevice => AccountInv'
<1> SUFFICES ASSUME AccountInv, ForgetDevice PROVE AccountInv'
  OBVIOUS
<1>1. TablesQuiet /\ MfaQuiet /\ my' = my /\ user' = user /\ ins' = ins
  BY AccountFacts DEF AccountInv, ForgetDevice, TablesQuiet, MfaQuiet, choice, seen
<1>2. QED
  BY <1>1, NobodyKeeps

LEMMA PasswordAgesKeeps == AccountInv /\ PasswordAges => AccountInv'
<1> SUFFICES ASSUME AccountInv, PasswordAges PROVE AccountInv'
  OBVIOUS
<1>1. user \in UserRow
  BY AccountFacts DEF AccountInv
<1>2. /\ user' \in UserRow /\ user'.pw = user.pw /\ user'.failed = user.failed
      /\ user'.locked = user.locked
  BY <1>1 DEF PasswordAges, UserRow
<1>3. TablesQuiet /\ MfaQuiet /\ my' = my /\ ins' = ins /\ Exists
  BY <1>2, AccountFacts DEF AccountInv, PasswordAges, TablesQuiet, MfaQuiet, choice, seen
<1>4. QED
  BY <1>3, NobodyKeeps

LEMMA LinkExpiresKeeps ==
  ASSUME AccountInv, NEW c \in Call, LinkExpires(c)
  PROVE  AccountInv'
<1>1. /\ AccountBase /\ ins[c] \in InsRow /\ ins \in [Call -> InsRow] /\ dead' \subseteq Call /\ my' = my
      /\ UNCHANGED <<choice, user, trusted, history, seen>>
  BY AccountFacts DEF AccountInv, LinkExpires
<1>2. PICK i \in InsRow : /\ ins' = [ins EXCEPT ![c] = i] /\ i.refresh = ins[c].refresh
                          /\ i.mfa => ins[c].mfa
  <2>1. CASE ins' = [ins EXCEPT ![c].reset = "expired"]
    <3>1. [ins[c] EXCEPT !.reset = "expired"] \in InsRow
      BY <1>1 DEF InsRow, LinkState
    <3>2. QED
      BY <1>1, <2>1, <3>1 DEF InsRow
  <2>2. CASE ins' = [ins EXCEPT ![c].mail = "expired"]
    <3>1. [ins[c] EXCEPT !.mail = "expired"] \in InsRow
      BY <1>1 DEF InsRow, LinkState
    <3>2. QED
      BY <1>1, <2>2, <3>1 DEF InsRow
  <2>3. CASE ins' = [ins EXCEPT ![c].mfa = FALSE]
    <3>1. [ins[c] EXCEPT !.mfa = FALSE] \in InsRow
      BY <1>1 DEF InsRow
    <3>2. QED
      BY <1>1, <2>3, <3>1 DEF InsRow
  <2>4. QED
    BY <2>1, <2>2, <2>3 DEF LinkExpires
<1>3. TablesQuiet /\ MfaQuiet
  BY <1>1, <1>2, RowChanges
<1>4. Exists
  <2>1. ins[c] # NoRows
    BY DEF LinkExpires, NoRows
  <2>2. QED
    BY <1>1, <2>1, AccountFacts
<1>5. QED
  BY <1>1, <1>3, <1>4, NobodyKeeps

LEMMA DieKeeps ==
  ASSUME AccountInv, NEW c \in Call, Die(c)
  PROVE  AccountInv'
<1>1. TablesQuiet /\ MfaQuiet /\ my' = my /\ user' = user /\ ins' = ins
  BY AccountFacts DEF AccountInv, Die, TablesQuiet, MfaQuiet, choice, seen
<1>2. QED
  BY <1>1, NobodyKeeps

LEMMA AccountStays ==
  ASSUME AccountInv, UNCHANGED accountVars
  PROVE  AccountInv'
<1>1. TablesQuiet /\ MfaQuiet /\ my' = my /\ user' = user /\ ins' = ins
  BY AccountFacts DEF AccountInv, accountVars, TablesQuiet, MfaQuiet, choice, seen
<1>2. QED
  BY <1>1, NobodyKeeps

LEMMA AtFacts ==
  ASSUME AccountInv, NEW c \in Call, NEW step, At(c, step)
  PROVE  /\ AccountBase /\ my[c].at = step /\ Shape(c) /\ my[c].link \in Call /\ my[c].how \in Hows
         /\ ins[c] \in InsRow /\ ins \in [Call -> InsRow] /\ my \in [Call -> MyRow] /\ dead \subseteq Call
         /\ step \notin {"idle", "done"} => Exists
         /\ step = "idle" => /\ my[c].proved = NoPassword /\ my[c].how = "login" /\ my[c].link = c
                             /\ ins[c].refresh = "none" /\ ~ins[c].mfa /\ ~Revoking(c)
         /\ step \notin {"access", "spend", "refresh"} => my[c].how # "renew"
<1>1. /\ AccountBase /\ my[c].at = step /\ Shape(c) /\ my[c].link \in Call /\ my[c].how \in Hows
      /\ ins[c] \in InsRow /\ ins \in [Call -> InsRow] /\ my \in [Call -> MyRow] /\ dead \subseteq Call
      /\ step \notin {"idle", "done"} => Exists
  BY AccountFacts DEF AccountInv, At
<1>2. step = "idle" => /\ my[c].proved = NoPassword /\ my[c].how = "login" /\ my[c].link = c
                       /\ ins[c].refresh = "none" /\ ~ins[c].mfa /\ ~Revoking(c)
  BY <1>1, FreshFacts DEF Shape, Revoking
<1>3. step \notin {"access", "spend", "refresh"} => my[c].how # "renew"
  BY <1>1 DEF Shape
<1>4. QED
  BY <1>1, <1>2, <1>3

LEMMA OpenSessionKeeps ==
  ASSUME AccountInv, NEW c \in Call, OpenSession(c)
  PROVE  AccountInv'
<1>1. /\ AccountBase /\ my[c].at = "session" /\ Exists /\ my[c].how # "renew"
  BY AtFacts DEF OpenSession
<1>2. TablesQuiet /\ MfaQuiet
  BY <1>1, AccountFacts DEF OpenSession, TablesQuiet, MfaQuiet, choice, seen
<1>3. Go(c, "refresh") /\ "refresh" \in Steps /\ Needs(c) /\ ~Revoking(c)
  BY <1>1 DEF OpenSession, Steps, Needs, TokenSteps, Revoking
<1>4. QED
  BY <1>1, <1>2, <1>3, GoKeeps

LEMMA FederatedSignInKeeps ==
  ASSUME AccountInv, NEW c \in Call, FederatedSignIn(c)
  PROVE  AccountInv'
<1>1. /\ AccountBase /\ my[c].at = "idle" /\ Exists /\ my[c].how # "renew" /\ my[c].proved = NoPassword
      /\ ~Revoking(c)
  BY AtFacts DEF FederatedSignIn
<1>2. TablesQuiet /\ MfaQuiet
  BY <1>1, TablesSame DEF FederatedSignIn
<1>3. Go(c, "access") /\ "access" \in Steps
  BY DEF FederatedSignIn, Steps, TokenSteps
<1>4. QED
  BY <1>1, <1>2, <1>3, GoKeeps

(* The newest HistoryCount rows of the history are a history.                                 *)
LEMMA NewestTyped ==
  ASSUME history \in Seq(Password)
  PROVE  NewestPasswords \in Seq(Password)
<1> DEFINE n == IF Len(history) < HistoryCount THEN Len(history) ELSE HistoryCount
<1>1. n \in Nat /\ n <= Len(history)
  BY AccountBoundAssumption
<1> HIDE DEF n
<1>2. \A i \in 1..n : history[i] \in Password
  BY <1>1, ElementOfSeq
<1>3. SubSeq(history, 1, n) \in Seq(Password)
  BY <1>1, <1>2, SubSeqProperties
<1>4. QED
  BY <1>3 DEF NewestPasswords, n

LEMMA RecordHistoryKeeps ==
  ASSUME AccountInv, NEW c \in Call, RecordHistory(c)
  PROVE  AccountInv'
<1>1. PICK step \in {"record", "welcome"} : At(c, step)
  BY DEF RecordHistory
<1>2. /\ AccountBase /\ my[c].at = step /\ Exists /\ my[c].how # "renew" /\ my[c].new \in Password
  BY <1>1, AtFacts DEF Shape
<1>3. history' \in Seq(Password)
  BY <1>2, AccountFacts DEF RecordHistory
<1>4. TablesQuiet /\ MfaQuiet
  BY <1>2, <1>3, AccountFacts DEF RecordHistory, TablesQuiet, MfaQuiet, choice, seen
<1>5. PICK to \in {"prune", "tidy"} : Go(c, to) /\ (step = "record" => to = "prune")
  BY <1>1, <1>2 DEF RecordHistory
<1>6. to \in Steps /\ to \notin TokenSteps /\ (step = "welcome" => ~Revoking(c))
  BY <1>2 DEF Steps, ChangeSteps, TokenSteps, Revoking
<1>7. QED
  BY <1>2, <1>4, <1>5, <1>6, GoKeeps

LEMMA PruneHistoryKeeps ==
  ASSUME AccountInv, NEW c \in Call, PruneHistory(c)
  PROVE  AccountInv'
<1>1. PICK step \in {"prune", "tidy"} : At(c, step)
  BY DEF PruneHistory
<1>2. /\ AccountBase /\ my[c].at = step /\ Exists /\ my[c].how # "renew"
  BY <1>1, AtFacts
<1>3. history' \in Seq(Password)
  BY <1>2, AccountFacts, NewestTyped DEF PruneHistory
<1>4. TablesQuiet /\ MfaQuiet
  BY <1>2, <1>3, AccountFacts DEF PruneHistory, TablesQuiet, MfaQuiet, choice, seen
<1>5. PICK to \in {"mail", "accessOff", "refreshOff"} :
        /\ Go(c, to) /\ (step = "prune" => to # "mail")
        /\ to = "accessOff" => my[c].how = "change"
  BY <1>1, <1>2 DEF PruneHistory, At
<1>6. to \in Steps /\ to \notin TokenSteps /\ (step = "tidy" => ~Revoking(c))
  BY <1>2 DEF Steps, ChangeSteps, TokenSteps, Revoking
<1>7. QED
  BY <1>2, <1>4, <1>5, <1>6, GoKeeps

LEMMA ResendKeeps ==
  ASSUME AccountInv, NEW c \in Call, Resend(c)
  PROVE  AccountInv'
<1>1. AccountBase /\ my[c].at = "idle" /\ Exists /\ my[c].how # "renew" /\ ~Revoking(c)
  BY AtFacts DEF Resend
<1>2. TablesQuiet /\ MfaQuiet
  BY <1>1, TablesSame DEF Resend
<1>3. Go(c, "mail") /\ "mail" \in Steps \ TokenSteps
  BY DEF Resend, Steps, TokenSteps
<1>4. QED
  BY <1>1, <1>2, <1>3, GoKeeps

LEMMA AskDeletionKeeps ==
  ASSUME AccountInv, NEW c \in Call, AskDeletion(c)
  PROVE  AccountInv'
<1>1. AccountBase /\ my[c].at = "idle" /\ Exists /\ my[c].how # "renew" /\ ~Revoking(c)
  BY AtFacts DEF AskDeletion, SignedIn
<1>2. TablesQuiet /\ MfaQuiet
  BY <1>1, TablesSame DEF AskDeletion
<1>3. Go(c, "demand") /\ "demand" \in Steps \ TokenSteps
  BY DEF AskDeletion, Steps, TokenSteps
<1>4. QED
  BY <1>1, <1>2, <1>3, GoKeeps

LEMMA InsertAccessKeeps ==
  ASSUME AccountInv, NEW c \in Call, InsertAccess(c)
  PROVE  AccountInv'
<1>1. /\ AccountBase /\ my[c].at = "access" /\ Exists /\ ins[c] \in InsRow /\ ins \in [Call -> InsRow]
      /\ Needs(c) /\ ~Revoking(c) /\ dead \subseteq Call
  BY AtFacts DEF InsertAccess, Needs, TokenSteps, Revoking
<1>2. TablesQuiet /\ MfaQuiet
  <2> DEFINE i == [ins[c] EXCEPT !.access = "live"]
  <2>1. i \in InsRow /\ i.refresh = ins[c].refresh /\ i.mfa = ins[c].mfa /\ ins' = [ins EXCEPT ![c] = i]
    BY <1>1 DEF InsertAccess, InsRow, TokenState
  <2> HIDE DEF i
  <2>2. QED
    BY <1>1, <2>1, RowChanges DEF InsertAccess
<1>3. PICK step \in {"spend", "session"} :
        Go(c, step) /\ (step = "spend" <=> my[c].how = "renew")
  BY DEF InsertAccess
<1>4. step \in Steps
  BY DEF Steps, TokenSteps
<1>5. QED
  BY <1>1, <1>2, <1>3, <1>4, GoKeeps

LEMMA MarkResetUsedKeeps ==
  ASSUME AccountInv, NEW c \in Call, MarkResetUsed(c)
  PROVE  AccountInv'
<1>1. /\ AccountBase /\ my[c].at = "mark" /\ Exists /\ my[c].how # "renew" /\ my[c].new \in Password
      /\ my[c].link \in Call /\ ins \in [Call -> InsRow] /\ dead \subseteq Call
  BY AtFacts DEF MarkResetUsed, Shape
<1>2. TablesQuiet /\ MfaQuiet
  <2> DEFINE l == my[c].link
             i == [ins[l] EXCEPT !.reset = "used"]
  <2>0. l \in Call
    BY <1>1
  <2>1. i \in InsRow /\ i.refresh = ins[l].refresh /\ i.mfa = ins[l].mfa /\ ins' = [ins EXCEPT ![l] = i]
    BY <1>1 DEF MarkResetUsed, InsRow, LinkState
  <2> HIDE DEF i, l
  <2>2. QED
    BY <1>1, <2>0, <2>1, RowChanges DEF MarkResetUsed
<1>3. Go(c, "record") /\ "record" \in Steps \ TokenSteps
  BY DEF MarkResetUsed, Steps, TokenSteps, ChangeSteps
<1>4. QED
  BY <1>1, <1>2, <1>3, GoKeeps

LEMMA OpenMailKeeps ==
  ASSUME AccountInv, NEW c \in Call, OpenMail(c)
  PROVE  AccountInv'
<1>1. /\ AccountBase /\ my[c].at = "open" /\ Exists /\ my[c].how # "renew" /\ ~Revoking(c)
      /\ my[c].link \in Call /\ ins \in [Call -> InsRow] /\ dead \subseteq Call
  BY AtFacts DEF OpenMail, Revoking
<1>2. TablesQuiet /\ MfaQuiet
  <2> DEFINE l == my[c].link
             i == [ins[l] EXCEPT !.mail = "used"]
  <2>0. l \in Call
    BY <1>1
  <2>1. i \in InsRow /\ i.refresh = ins[l].refresh /\ i.mfa = ins[l].mfa /\ ins' = [ins EXCEPT ![l] = i]
    BY <1>1 DEF OpenMail, InsRow, LinkState
  <2> HIDE DEF i, l
  <2>2. QED
    BY <1>1, <2>0, <2>1, RowChanges DEF OpenMail
<1>3. Go(c, "verify") /\ "verify" \in Steps /\ "verify" \notin TokenSteps
  BY DEF OpenMail, Steps, TokenSteps
<1>4. QED
  BY <1>1, <1>2, <1>3, GoKeeps

LEMMA RequestResetKeeps ==
  ASSUME AccountInv, NEW c \in Call, RequestReset(c)
  PROVE  AccountInv'
<1>1. /\ AccountBase /\ my[c].at = "idle" /\ Exists /\ ~Revoking(c) /\ End(c)
      /\ ins[c] \in InsRow /\ ins \in [Call -> InsRow] /\ dead \subseteq Call
  BY AtFacts DEF RequestReset
<1>2. TablesQuiet /\ MfaQuiet
  <2> DEFINE i == [ins[c] EXCEPT !.reset = "unused"]
  <2>1. i \in InsRow /\ i.refresh = ins[c].refresh /\ i.mfa = ins[c].mfa /\ ins' = [ins EXCEPT ![c] = i]
    BY <1>1 DEF RequestReset, InsRow, LinkState
  <2> HIDE DEF i
  <2>2. QED
    BY <1>1, <2>1, RowChanges DEF RequestReset
<1>3. QED
  BY <1>1, <1>2, EndKeeps

LEMMA InsertMailKeeps ==
  ASSUME AccountInv, NEW c \in Call, InsertMail(c)
  PROVE  AccountInv'
<1>1. /\ AccountBase /\ my[c].at = "mail" /\ Exists /\ ~Revoking(c) /\ End(c)
      /\ ins[c] \in InsRow /\ ins \in [Call -> InsRow] /\ dead \subseteq Call
  BY AtFacts DEF InsertMail, Revoking
<1>2. TablesQuiet /\ MfaQuiet
  <2> DEFINE i == [ins[c] EXCEPT !.mail = "unused"]
  <2>1. i \in InsRow /\ i.refresh = ins[c].refresh /\ i.mfa = ins[c].mfa /\ ins' = [ins EXCEPT ![c] = i]
    BY <1>1 DEF InsertMail, InsRow, LinkState
  <2> HIDE DEF i
  <2>2. QED
    BY <1>1, <2>1, RowChanges DEF InsertMail
<1>3. QED
  BY <1>1, <1>2, EndKeeps

LEMMA MarkVerifiedKeeps ==
  ASSUME AccountInv, NEW c \in Call, MarkVerified(c)
  PROVE  AccountInv'
<1>1. AccountBase /\ my[c].at = "verify" /\ Exists /\ ~Revoking(c) /\ End(c) /\ user \in UserRow
  BY AtFacts, AccountFacts DEF MarkVerified, Revoking
<1>2. user' \in UserRow /\ user'.pw = user.pw /\ user'.failed = user.failed /\ user'.locked = user.locked
  BY <1>1 DEF MarkVerified, UserRow
<1>3. TablesQuiet /\ MfaQuiet
  BY <1>1, <1>2, AccountFacts DEF MarkVerified, TablesQuiet, MfaQuiet, choice, seen
<1>4. QED
  BY <1>1, <1>3, EndKeeps

LEMMA AdminUpdateKeeps ==
  ASSUME AccountInv, NEW c \in Call, AdminUpdate(c)
  PROVE  AccountInv'
<1>1. AccountBase /\ my[c].at = "idle" /\ Exists /\ ~Revoking(c) /\ End(c) /\ user \in UserRow
  BY AtFacts, AccountFacts DEF AdminUpdate
<1>2. user' \in UserRow /\ user'.pw = user.pw /\ user'.failed = user.failed /\ user'.locked = user.locked
  <2>1. PICK a \in BOOLEAN, on \in BOOLEAN :
          user' = [user EXCEPT !.admin = a, !.verified = @ \/ a, !.active = on]
    BY DEF AdminUpdate
  <2>2. user.verified \in BOOLEAN /\ (user.verified \/ a) \in BOOLEAN
    BY <1>1 DEF UserRow
  <2>3. QED
    BY <1>1, <2>1, <2>2 DEF UserRow
<1>3. TablesQuiet /\ MfaQuiet
  BY <1>1, <1>2, AccountFacts DEF AdminUpdate, TablesQuiet, MfaQuiet, choice, seen
<1>4. QED
  BY <1>1, <1>3, EndKeeps

LEMMA InsertDeletionKeeps ==
  ASSUME AccountInv, NEW c \in Call, InsertDeletion(c)
  PROVE  AccountInv'
<1>1. /\ AccountBase /\ my[c].at = "demand" /\ Exists /\ ~Revoking(c) /\ End(c)
      /\ ins[c] \in InsRow /\ ins \in [Call -> InsRow] /\ dead \subseteq Call
  BY AtFacts DEF InsertDeletion, Revoking
<1>2. TablesQuiet /\ MfaQuiet
  <2> DEFINE i == [ins[c] EXCEPT !.deletion = "pending"]
  <2>1. i \in InsRow /\ i.refresh = ins[c].refresh /\ i.mfa = ins[c].mfa
    BY <1>1 DEF InsRow
  <2>2. ins' = ins \/ ins' = [ins EXCEPT ![c] = i]
    BY DEF InsertDeletion
  <2> HIDE DEF i
  <2>3. CASE ins' = ins
    BY <1>1, <2>3, TablesSame DEF InsertDeletion
  <2>4. CASE ins' = [ins EXCEPT ![c] = i]
    BY <1>1, <2>1, <2>4, RowChanges DEF InsertDeletion
  <2>5. QED
    BY <2>2, <2>3, <2>4
<1>3. QED
  BY <1>1, <1>2, EndKeeps

LEMMA CancelDeletionKeeps ==
  ASSUME AccountInv, NEW c \in Call, CancelDeletion(c)
  PROVE  AccountInv'
<1>1. /\ AccountBase /\ my[c].at = "cancel" /\ Exists /\ ~Revoking(c) /\ End(c)
      /\ my[c].link \in Call /\ ins \in [Call -> InsRow] /\ dead \subseteq Call
  BY AtFacts DEF CancelDeletion, Revoking
<1>2. TablesQuiet /\ MfaQuiet
  <2> DEFINE l == my[c].link
             i == [ins[l] EXCEPT !.deletion = "cancelled"]
  <2>0. l \in Call
    BY <1>1
  <2>1. i \in InsRow /\ i.refresh = ins[l].refresh /\ i.mfa = ins[l].mfa /\ ins' = [ins EXCEPT ![l] = i]
    BY <1>1 DEF CancelDeletion, InsRow
  <2> HIDE DEF i, l
  <2>2. QED
    BY <1>1, <2>0, <2>1, RowChanges DEF CancelDeletion
<1>3. QED
  BY <1>1, <1>2, EndKeeps

(* Access tokens are revoked, all but those spared; nothing else in the tables changes.        *)
LEMMA RevokedAccess ==
  ASSUME AccountBase, NEW own, Revoke("access", own)
  PROVE  ins' \in [Call -> InsRow] /\ MfaQuiet
<1>1. ins \in [Call -> InsRow]
  BY AccountFacts
<1>2. ASSUME NEW d \in Call
      PROVE  ins'[d] \in InsRow /\ ins'[d].refresh = ins[d].refresh /\ ins'[d].mfa = ins[d].mfa
  <2>1. ins[d] \in InsRow
    BY <1>1
  <2>2. ins'[d] = ins[d] \/ ins'[d] = [ins[d] EXCEPT !.access = "revoked"]
    BY DEF Revoke
  <2>3. QED
    BY <2>1, <2>2 DEF InsRow, TokenState
<1>3. ins' = [d \in Call |-> ins'[d]]
  BY DEF Revoke
<1>4. QED
  BY <1>2, <1>3 DEF MfaQuiet

LEMMA RevokeAccessKeeps ==
  ASSUME AccountInv, NEW c \in Call, RevokeAccess(c)
  PROVE  AccountInv'
<1>1. AccountBase /\ my[c].at = "accessOff" /\ Exists /\ my[c].how # "renew"
  BY AtFacts DEF RevokeAccess
<1>2. TablesQuiet /\ MfaQuiet
  <2>1. PICK own : Revoke("access", own)
    BY DEF RevokeAccess
  <2>2. ins' \in [Call -> InsRow] /\ MfaQuiet
    BY <1>1, <2>1, RevokedAccess
  <2>3. QED
    BY <1>1, <2>2, AccountFacts DEF RevokeAccess, TablesQuiet, choice, seen
<1>3. CASE my[c].how = "change"
  <2>1. Go(c, "refreshOff") /\ "refreshOff" \in Steps \ TokenSteps
    BY <1>3 DEF RevokeAccess, Steps, TokenSteps, ChangeSteps
  <2>2. QED
    BY <1>1, <1>2, <2>1, GoKeeps
<1>4. CASE my[c].how # "change"
  <2>1. End(c) /\ ~Revoking(c)
    BY <1>1, <1>4 DEF RevokeAccess, Revoking
  <2>2. QED
    BY <1>1, <1>2, <2>1, EndKeeps
<1>5. QED
  BY <1>3, <1>4

LEMMA GatesKeeps ==
  ASSUME AccountInv, NEW c \in Call, Gates(c)
  PROVE  AccountInv'
<1>1. /\ AccountBase /\ my[c].at = "gates" /\ Exists /\ ~Revoking(c) /\ my[c].how # "renew" /\ Needs(c)
      /\ ins \in [Call -> InsRow] /\ dead \subseteq Call
  BY AtFacts DEF Gates, Revoking, Needs, TokenSteps
<1>2. TablesQuiet /\ MfaQuiet
  BY <1>1, TablesSame DEF Gates
<1>3. CASE End(c)
  BY <1>1, <1>2, <1>3, EndKeeps
<1>4. CASE \E verdict \in {"device", "stepUp"} : Go(c, verdict)
  <2>1. PICK verdict \in {"device", "stepUp"} : Go(c, verdict)
    BY <1>4
  <2>2. verdict \in Steps
    BY DEF Steps, TokenSteps
  <2>3. QED
    BY <1>1, <1>2, <2>1, <2>2, GoKeeps
<1>5. QED
  BY <1>3, <1>4 DEF Gates

LEMMA JudgeFactorKeeps ==
  ASSUME AccountInv, NEW c \in Call, JudgeFactor(c)
  PROVE  AccountInv'
<1>1. /\ AccountBase /\ my[c].at = "factor" /\ Exists /\ ~Revoking(c) /\ my[c].how # "renew" /\ Needs(c)
      /\ ins \in [Call -> InsRow] /\ dead \subseteq Call
  BY AtFacts DEF JudgeFactor, Revoking, Needs, TokenSteps
<1>2. (TablesQuiet /\ MfaQuiet) /\ "access" \in Steps
  BY <1>1, TablesSame DEF JudgeFactor, Steps, TokenSteps
<1>3. CASE End(c)
  BY <1>1, <1>2, <1>3, EndKeeps
<1>4. CASE Go(c, "access")
  BY <1>1, <1>2, <1>4, GoKeeps
<1>5. QED
  BY <1>3, <1>4 DEF JudgeFactor

LEMMA AskFactorKeeps ==
  ASSUME AccountInv, NEW c \in Call, AskFactor(c)
  PROVE  AccountInv'
<1>0. PICK step \in {"device", "stepUp"} : At(c, step)
  BY DEF AskFactor
<1>1. /\ AccountBase /\ my[c].at = step /\ Exists /\ ~Revoking(c) /\ my[c].how # "renew" /\ Needs(c)
      /\ ins[c] \in InsRow /\ ins \in [Call -> InsRow] /\ dead \subseteq Call
  BY <1>0, AtFacts DEF Revoking, Needs, TokenSteps
<1>2. CASE Go(c, "access") /\ UNCHANGED ins
  <2>1. (TablesQuiet /\ MfaQuiet) /\ "access" \in Steps
    BY <1>1, <1>2, TablesSame DEF AskFactor, Steps, TokenSteps
  <2>2. QED
    BY <1>1, <1>2, <2>1, GoKeeps
<1>3. CASE ins' = [ins EXCEPT ![c].mfa = TRUE] /\ End(c)
  <2> DEFINE i == [ins[c] EXCEPT !.mfa = TRUE]
  <2>1. i \in InsRow /\ i.refresh = ins[c].refresh /\ ins' = [ins EXCEPT ![c] = i]
    BY <1>1, <1>3 DEF InsRow
  <2> HIDE DEF i
  <2>2. /\ ins' \in [Call -> InsRow] /\ \A d \in Call : ins'[d].refresh = ins[d].refresh
        /\ \A d \in Call : d # c => ins'[d] = ins[d]
    BY <1>1, <2>1
  <2>3. TablesQuiet
    BY <1>1, <2>2, AccountFacts DEF AskFactor, TablesQuiet, choice, seen
  <2>4. /\ my' \in [Call -> MyRow] /\ \A d \in Call : d # c => my'[d] = my[d]
        /\ my'[c].at = "done" /\ my'[c].how = "login" /\ my'[c].proved = my[c].proved
    BY <1>1, <1>3, EndFacts
  <2>5. AccountTypeOK' /\ Exists'
    BY <1>1, <2>3, <2>4, QuietTypes DEF TablesQuiet, Exists
  <2>6. RowsGoOn
    BY <2>2, <2>4 DEF RowsGoOn
  <2>7. Fits(c)'
    BY <2>4 DEF Fits
  <2>8. /\ user'.pw = user.pw /\ user'.failed = user.failed /\ user'.locked = user.locked
        /\ attempts' = attempts /\ straddled' = straddled /\ renewals' = renewals
    BY <2>3 DEF TablesQuiet
  <2>9. QED
    BY <1>1, <2>2, <2>4, <2>5, <2>6, <2>7, <2>8, StepKeeps
<1>4. QED
  BY <1>2, <1>3 DEF AskFactor

(* The four parts of the invariant, for a step that leaves types, rows and renewals alone.     *)
LEMMA PartsKept ==
  ASSUME AccountInv, AccountBase', CleanInv', LockInv', RowsGoOn, renewals' = renewals,
         \A d \in Call : my'[d].how = "renew" => my[d].how = "renew" /\ my'[d].link = my[d].link
  PROVE  AccountInv'
<1>1. \A l \in Call : RenewInv(l)'
  BY RenewKept DEF AccountInv
<1>2. QED
  BY <1>1 DEF AccountInv

(* One call's locals become row; who holds a row keeps its type.                               *)
LEMMA RowTyped ==
  ASSUME AccountBase, NEW c \in Call, NEW row \in MyRow, my' = [my EXCEPT ![c] = row]
  PROVE  my' \in [Call -> MyRow] /\ my'[c] = row /\ \A d \in Call : d # c => my'[d] = my[d]
BY AccountFacts

LEMMA SpendKeeps ==
  ASSUME AccountInv, NEW c \in Call, Spend(c)
  PROVE  AccountInv'
<1>1. /\ AccountBase /\ my[c].at = "spend" /\ Exists /\ my[c].how = "renew" /\ my[c].link \in Call
      /\ ins[c].refresh = "none" /\ ~ins[c].mfa /\ ins[my[c].link].refresh # "none"
      /\ ins \in [Call -> InsRow] /\ dead \subseteq Call
  BY AtFacts DEF Spend, Shape
<1> DEFINE l == my[c].link
           i == [ins[l] EXCEPT !.refresh = "revoked"]
<1>2. l \in Call /\ l # c /\ i \in InsRow /\ i.refresh = "revoked" /\ i.mfa = ins[l].mfa
      /\ ins' = [ins EXCEPT ![l] = i] /\ ins[l].refresh # "none"
  BY <1>1 DEF InsRow, TokenState, Spend
<1>3. Go(c, "refresh") /\ "refresh" \in Steps
  BY DEF Spend, Steps, TokenSteps
<1>4. /\ my' \in [Call -> MyRow] /\ \A d \in Call : d # c => my'[d] = my[d]
      /\ my'[c].at = "refresh" /\ my'[c].link = l
      /\ my'[c].how = "renew" /\ my'[c].proved = my[c].proved
  BY <1>1, <1>3, GoFacts
<1> HIDE DEF i, l
<1>5. /\ ins' \in [Call -> InsRow] /\ ins'[l] = i /\ \A d \in Call : d # l => ins'[d] = ins[d]
  BY <1>1, <1>2
<1>6. TablesQuiet
  BY <1>1, <1>5, AccountFacts DEF Spend, TablesQuiet, choice, seen
<1>7. AccountTypeOK' /\ Exists'
  BY <1>1, <1>4, <1>6, QuietTypes DEF TablesQuiet, Exists
<1>8. \A d \in Call : /\ ins'[d].mfa = ins[d].mfa
                      /\ ins'[d].refresh = ins[d].refresh \/ (d = l /\ ins'[d].refresh = "revoked")
  BY <1>2, <1>5
<1>9. RowsGoOn
  BY <1>2, <1>5, <1>8 DEF RowsGoOn
<1>10. Fits(c)'
  BY <1>1, <1>2, <1>4, <1>5 DEF Fits
<1>11. ~Revoking(c) /\ Needs(c) /\ l = my[c].link
  BY <1>1 DEF Revoking, Needs, TokenSteps, l
<1>12. /\ user'.pw = user.pw /\ user'.failed = user.failed /\ user'.locked = user.locked
       /\ attempts' = attempts /\ straddled' = straddled /\ renewals' = renewals
  BY <1>6 DEF TablesQuiet
<1>13. \A d \in Call : d # c => /\ my'[d] = my[d]
                                /\ ins'[d].mfa => ins[d].mfa
                                /\ ins'[d].refresh = "live" => ins[d].refresh = "live"
  BY <1>4, <1>8
<1>14. QED
  BY <1>1, <1>4, <1>7, <1>9, <1>10, <1>11, <1>12, <1>13, StepKeeps

(* A call that was idle goes on with other work than a sign-in.                                *)
LEMMA IdleMoves ==
  ASSUME AccountInv, NEW c \in Call, At(c, "idle"), Exists, NEW row \in MyRow,
         my' = [my EXCEPT ![c] = row], UNCHANGED <<choice, user, trusted, history, ins, dead, seen>>,
         row.at \in {"update", "cancel", "open"}, row.at = "update" => row.new \in Password,
         row.how # "renew"
  PROVE  AccountInv'
<1>1. /\ AccountBase /\ my[c].at = "idle" /\ ins[c].refresh = "none" /\ ~ins[c].mfa /\ ~Revoking(c)
  BY AtFacts
<1>2. TablesQuiet /\ MfaQuiet
  BY <1>1, TablesSame
<1>3. my' \in [Call -> MyRow] /\ my'[c] = row /\ \A d \in Call : d # c => my'[d] = my[d]
  BY <1>1, RowTyped
<1>4. AccountTypeOK' /\ Exists'
  BY <1>1, <1>2, <1>3, QuietTypes DEF TablesQuiet, Exists
<1>5. RowsGoOn
  BY <1>2 DEF MfaQuiet, RowsGoOn
<1>6. Fits(c)' /\ ~Needs(c)'
  BY <1>1, <1>3 DEF Fits, Needs, TokenSteps
<1>7. /\ user'.pw = user.pw /\ user'.failed = user.failed /\ user'.locked = user.locked
      /\ attempts' = attempts /\ straddled' = straddled /\ renewals' = renewals
  BY <1>2 DEF TablesQuiet
<1>8. QED
  BY <1>1, <1>2, <1>3, <1>4, <1>5, <1>6, <1>7, StepKeeps DEF MfaQuiet

LEMMA BeginChangeKeeps ==
  ASSUME AccountInv, NEW c \in Call, NEW way \in Ways, NEW l \in Call, NEW p, NEW q \in Password,
         BeginChange(c, way, l, p, q)
  PROVE  AccountInv'
<1>1. AccountBase /\ my \in [Call -> MyRow] /\ my[c] \in MyRow /\ At(c, "idle")
  BY AccountFacts DEF AccountInv, BeginChange
<1>2. Exists
  <2>1. CASE way = "reset"
    <3>1. ins[l].reset = "unused"
      BY <2>1 DEF BeginChange, MayChange
    <3>2. ins[l] # NoRows
      BY <3>1 DEF NoRows
    <3>3. QED
      BY <1>1, <3>2, AccountFacts
  <2>2. CASE way \in {"change", "expired", "forced"}
    BY <2>2 DEF BeginChange, MayChange, SignedIn
  <2>3. QED
    BY <2>1, <2>2 DEF Ways
<1> DEFINE row == [my[c] EXCEPT !.at = "update", !.link = l, !.how = way, !.new = q]
<1>3. /\ row \in MyRow /\ row.at = "update" /\ row.new \in Password /\ row.how # "renew"
      /\ my' = [my EXCEPT ![c] = row]
  <2>1. way \in Hows /\ way # "renew" /\ "update" \in Steps /\ q \in MaybePassword
    BY DEF Ways, Hows, Steps, TokenSteps, ChangeSteps, MaybePassword
  <2>2. QED
    BY <1>1, <2>1 DEF MyRow, BeginChange
<1> HIDE DEF row
<1>4. QED
  BY <1>1, <1>2, <1>3, IdleMoves DEF BeginChange

LEMMA FindMailKeeps ==
  ASSUME AccountInv, NEW c \in Call, NEW l \in Call, FindMail(c, l)
  PROVE  AccountInv'
<1>1. /\ AccountBase /\ my \in [Call -> MyRow] /\ my[c] \in MyRow /\ At(c, "idle") /\ ins[l] # NoRows
      /\ my[c].how # "renew"
  BY AccountFacts, AtFacts DEF AccountInv, FindMail, NoRows
<1> DEFINE row == [my[c] EXCEPT !.at = "open", !.link = l]
<1>2. /\ row \in MyRow /\ row.at = "open" /\ row.how # "renew" /\ my' = [my EXCEPT ![c] = row]
  BY <1>1 DEF MyRow, FindMail, Steps, TokenSteps
<1> HIDE DEF row
<1>3. Exists
  BY <1>1, AccountFacts
<1>4. QED
  BY <1>1, <1>2, <1>3, IdleMoves DEF FindMail

LEMMA FindDeletionKeeps ==
  ASSUME AccountInv, NEW c \in Call, NEW l \in Call, FindDeletion(c, l)
  PROVE  AccountInv'
<1>1. /\ AccountBase /\ my \in [Call -> MyRow] /\ my[c] \in MyRow /\ At(c, "idle") /\ Exists
      /\ my[c].how # "renew"
  BY AccountFacts, AtFacts DEF AccountInv, FindDeletion, SignedIn
<1> DEFINE row == [my[c] EXCEPT !.at = "cancel", !.link = l]
<1>2. /\ row \in MyRow /\ row.at = "cancel" /\ row.how # "renew" /\ my' = [my EXCEPT ![c] = row]
  BY <1>1 DEF MyRow, FindDeletion, Steps, TokenSteps
<1> HIDE DEF row
<1>3. QED
  BY <1>1, <1>2, IdleMoves DEF FindDeletion

(* An idle call is turned down.                                                               *)
LEMMA IdleEnds ==
  ASSUME AccountInv, NEW c \in Call, At(c, "idle"), Go(c, "done"),
         UNCHANGED <<choice, user, trusted, history, ins, dead, seen>>
  PROVE  AccountInv'
<1>1. /\ AccountBase /\ my[c].at = "idle" /\ my[c].how = "login" /\ ~Revoking(c) /\ "done" \in Steps
  BY AtFacts DEF Steps, TokenSteps
<1>2. TablesQuiet /\ MfaQuiet
  BY <1>1, TablesSame
<1>3. /\ my' \in [Call -> MyRow] /\ \A d \in Call : d # c => my'[d] = my[d]
      /\ my'[c].at = "done" /\ my'[c].how = "login" /\ my'[c].proved = my[c].proved
  BY <1>1, GoFacts
<1>4. AccountTypeOK' /\ RowsGoOn
  BY <1>1, <1>2, <1>3, QuietTypes DEF RowsGoOn, MfaQuiet
<1>5. AccountBase'
  <2>1. ASSUME NEW d \in Call PROVE Shape(d)'
    <3>1. Shape(d) /\ ins' = ins
      BY <1>1, AccountFacts
    <3>2. CASE d = c
      BY <1>3, <3>2 DEF Shape
    <3>3. CASE d # c
      <4>1. my'[d] = my[d]
        BY <1>3, <3>3
      <4>2. QED
        BY <3>1, <4>1 DEF Shape
    <3>4. QED
      BY <3>2, <3>3
  <2>2. NoAccount'
    <3>1. Exists' => Exists
      BY DEF Exists
    <3>2. ASSUME ~Exists
          PROVE  user' = NoUser /\ \A d \in Call : my'[d].at \in {"idle", "done"} /\ ins'[d] = NoRows
      BY <1>1, <1>3, <3>2 DEF AccountBase, NoAccount
    <3>3. QED
      BY <3>2 DEF NoAccount, Exists
  <2>3. QED
    BY <1>4, <2>1, <2>2 DEF AccountBase
<1>6. CleanInv'
  <2>1. \A d \in Call : Needs(d)' => Needs(d) /\ my'[d].proved = my[d].proved
    BY <1>3 DEF Needs, TokenSteps
  <2>2. \A d \in Call : Revoking(d) => Revoking(d)'
    BY <1>1, <1>3 DEF Revoking
  <2>3. user'.pw = user.pw /\ straddled' = straddled
    BY <1>2 DEF TablesQuiet
  <2>4. QED
    BY <2>1, <2>2, <2>3, CleanKept DEF AccountInv
<1>7. LockInv'
  <2>1. user'.failed = user.failed /\ user'.locked = user.locked /\ attempts' = attempts
    BY <1>2 DEF TablesQuiet
  <2>2. QED
    BY <1>3, <2>1, LockKept DEF AccountInv
<1>8. QED
  BY <1>3, <1>4, <1>5, <1>6, <1>7, PartsKept DEF seen

LEMMA InsertRefreshKeeps ==
  ASSUME AccountInv, NEW c \in Call, InsertRefresh(c)
  PROVE  AccountInv'
<1>1. /\ AccountBase /\ my[c].at = "refresh" /\ Exists /\ my[c].link \in Call /\ End(c)
      /\ ins[c] \in InsRow /\ ins[c].refresh = "none" /\ ~ins[c].mfa /\ ins \in [Call -> InsRow]
      /\ my[c].how = "renew" => ins[my[c].link].refresh = "revoked"
  BY AtFacts DEF InsertRefresh, Shape
<1>2. /\ my' \in [Call -> MyRow] /\ \A d \in Call : d # c => my'[d] = my[d]
      /\ my'[c].at = "done" /\ my'[c].how = "login" /\ my'[c].proved = my[c].proved
  BY <1>1, EndFacts
<1> DEFINE i == [ins[c] EXCEPT !.refresh = "live"]
<1>3. i \in InsRow /\ i.refresh = "live" /\ i.mfa = ins[c].mfa /\ ins' = [ins EXCEPT ![c] = i]
  BY <1>1 DEF InsRow, TokenState, InsertRefresh
<1> HIDE DEF i
<1>4. /\ ins' \in [Call -> InsRow] /\ ins'[c] = i /\ \A d \in Call : d # c => ins'[d] = ins[d]
  BY <1>1, <1>3
<1>5. RowsGoOn
  BY <1>1, <1>2, <1>3, <1>4 DEF RowsGoOn
<1>6. Fits(c)'
  BY <1>2 DEF Fits
<1>7. /\ renewals \in [Call -> [minted : Nat, overlapped : BOOLEAN]]
      /\ \A l \in Call : renewals[l] \in [minted : Nat, overlapped : BOOLEAN]
  BY <1>1, AccountFacts
<1>8. /\ renewals' \in [Call -> [minted : Nat, overlapped : BOOLEAN]]
      /\ \A l \in Call : ~(my[c].how = "renew" /\ l = my[c].link) => renewals'[l] = renewals[l]
      /\ my[c].how = "renew" => /\ renewals'[my[c].link].minted = renewals[my[c].link].minted + 1
                                /\ renewals'[my[c].link].overlapped = renewals[my[c].link].overlapped
  <2>1. CASE my[c].how # "renew"
    BY <1>7, <2>1 DEF InsertRefresh
  <2>2. CASE my[c].how = "renew"
    <3> DEFINE l == my[c].link
               r == [renewals[l] EXCEPT !.minted = @ + 1]
    <3>1. l \in Call /\ renewals[l] \in [minted : Nat, overlapped : BOOLEAN]
      BY <1>1, <1>7
    <3>2. renewals[l].minted + 1 \in Nat
      BY <3>1
    <3>3. /\ r \in [minted : Nat, overlapped : BOOLEAN] /\ r.minted = renewals[l].minted + 1
          /\ r.overlapped = renewals[l].overlapped /\ renewals' = [renewals EXCEPT ![l] = r]
      BY <2>2, <3>1, <3>2 DEF InsertRefresh
    <3> HIDE DEF r, l
    <3>4. /\ renewals' \in [Call -> [minted : Nat, overlapped : BOOLEAN]] /\ renewals'[l] = r
          /\ \A k \in Call : k # l => renewals'[k] = renewals[k]
      BY <1>7, <3>1, <3>3
    <3>5. QED
      BY <2>2, <3>3, <3>4 DEF l
  <2>3. QED
    BY <2>1, <2>2
<1>9. AccountTypeOK' /\ Exists'
  BY <1>1, <1>2, <1>4, <1>8, AccountFacts, MyTyped DEF InsertRefresh, choice, Exists
<1>10. AccountBase'
  BY <1>1, <1>2, <1>5, <1>6, <1>9, BaseKept
<1>11. CleanInv'
  <2>1. Needs(c) /\ ~Revoking(c)
    BY <1>1 DEF Needs, TokenSteps, Revoking
  <2>2. \A d \in Call : d # c /\ Needs(d)' => Needs(d)
    BY <1>2, <1>4 DEF Needs, TokenSteps
  <2>3. \A d \in Call : Revoking(d) => Revoking(d)'
    BY <1>2, <2>1 DEF Revoking
  <2>4. user'.pw = user.pw /\ straddled' = straddled
    BY DEF InsertRefresh
  <2>5. \A d \in Call : Needs(d)' => Needs(d) /\ my'[d].proved = my[d].proved
    BY <1>2, <2>1, <2>2
  <2>6. QED
    BY <2>3, <2>4, <2>5, CleanKept DEF AccountInv
<1>12. LockInv'
  BY <1>2, LockKept DEF AccountInv, InsertRefresh
<1>13. ASSUME NEW l \in Call PROVE RenewInv(l)'
  <2>1. \A d \in Call : my'[d].how = "renew" => d # c /\ my[d].how = "renew" /\ my'[d].link = my[d].link
    BY <1>2
  <2>2. RenewInv(l)
    BY DEF AccountInv
  <2>3. CASE ~(my[c].how = "renew" /\ l = my[c].link)
    BY <1>5, <1>8, <2>1, <2>2, <2>3, RenewKept
  <2>4. CASE my[c].how = "renew" /\ l = my[c].link
    <3> SUFFICES ASSUME ~renewals'[l].overlapped
                 PROVE  /\ \A d, e \in Renewing(l)' : d = e
                        /\ renewals'[l].minted <= 1
                        /\ Renewing(l)' # {} => renewals'[l].minted = 0
                        /\ renewals'[l].minted > 0 => ins'[l].refresh = "revoked"
      BY DEF RenewInv
    <3>1. c \in Renewing(l) /\ ~renewals[l].overlapped
      BY <1>8, <2>4 DEF Renewing
    <3>2. renewals[l].minted = 0 /\ \A d, e \in Renewing(l) : d = e
      BY <2>2, <3>1 DEF RenewInv
    <3>3. Renewing(l)' = {}
      BY <2>1, <3>1, <3>2 DEF Renewing
    <3>4. renewals'[l].minted = 1
      BY <1>8, <2>4, <3>2
    <3>5. ins'[l].refresh = "revoked"
      BY <1>1, <1>4, <2>4
    <3>6. QED
      BY <3>3, <3>4, <3>5
  <2>5. QED
    BY <2>3, <2>4
<1>14. QED
  BY <1>10, <1>11, <1>12, <1>13 DEF AccountInv

LEMMA LoginReadKeeps ==
  ASSUME AccountInv, NEW c \in Call, NEW p \in Password, LoginRead(c, p)
  PROVE  AccountInv'
<1>1. /\ AccountBase /\ my[c].at = "idle" /\ my[c] \in MyRow /\ my[c].how = "login" /\ ~Revoking(c)
      /\ At(c, "idle") /\ ins[c].refresh = "none" /\ ~ins[c].mfa
  BY AtFacts, AccountFacts DEF LoginRead
<1>2. CASE ~(Exists /\ user.active /\ ~user.locked)
  BY <1>1, <1>2, IdleEnds DEF LoginRead, Go, seen
<1>3. CASE Exists /\ user.active /\ ~user.locked
  <2> DEFINE row == [my[c] EXCEPT !.at = "check", !.got = user, !.proved = p]
  <2>1. user \in UserRow /\ p \in MaybePassword /\ "check" \in Steps
    BY <1>1, AccountFacts DEF MaybePassword, Steps, TokenSteps
  <2>2. /\ row \in MyRow /\ row.at = "check" /\ row.got = user /\ row.proved = p /\ row.how = "login"
        /\ my' = [my EXCEPT ![c] = row]
    BY <1>1, <1>3, <2>1 DEF MyRow, LoginRead
  <2> HIDE DEF row
  <2>3. my' \in [Call -> MyRow] /\ my'[c] = row /\ \A d \in Call : d # c => my'[d] = my[d]
    BY <1>1, <2>2, RowTyped
  <2>4. /\ attempts' \in [wrong : Nat, overlapped : BOOLEAN, lapsed : BOOLEAN]
        /\ attempts'.wrong = attempts.wrong /\ attempts'.lapsed = attempts.lapsed
        /\ ~attempts'.overlapped => ~attempts.overlapped /\ Reading = {}
    <3>1. attempts \in [wrong : Nat, overlapped : BOOLEAN, lapsed : BOOLEAN]
      BY <1>1, AccountFacts
    <3> DEFINE b == attempts.overlapped \/ Reading # {}
    <3>2. b \in BOOLEAN /\ attempts' = [attempts EXCEPT !.overlapped = b]
      BY <1>3 DEF LoginRead
    <3>3. ~b => ~attempts.overlapped /\ Reading = {}
      OBVIOUS
    <3> HIDE DEF b
    <3>4. /\ attempts' \in [wrong : Nat, overlapped : BOOLEAN, lapsed : BOOLEAN]
          /\ attempts'.wrong = attempts.wrong /\ attempts'.lapsed = attempts.lapsed
          /\ attempts'.overlapped = b
      BY <3>1, <3>2
    <3>5. QED
      BY <3>3, <3>4
  <2>5. AccountTypeOK' /\ Exists'
    BY <1>1, <1>3, <2>3, <2>4, AccountFacts, MyTyped DEF LoginRead, choice, Exists
  <2>6. RowsGoOn
    BY DEF LoginRead, RowsGoOn
  <2>7. Fits(c)'
    BY <1>1, <2>2, <2>3 DEF Fits, LoginRead
  <2>8. AccountBase'
    BY <1>1, <2>3, <2>5, <2>6, <2>7, BaseKept
  <2>9. CleanInv'
    <3>1. \A d \in Call : d # c /\ Needs(d)' => Needs(d)
      BY <2>3 DEF Needs, TokenSteps, LoginRead
    <3>2. Needs(c)' => my'[c].proved = user.pw
      BY <1>1, <2>2, <2>3 DEF Needs, TokenSteps, LoginRead
    <3>3. \A d \in Call : Revoking(d) => Revoking(d)'
      BY <1>1, <2>3 DEF Revoking
    <3>4. user'.pw = user.pw /\ straddled' = straddled
      BY DEF LoginRead
    <3>5. ASSUME NEW d \in Call, Needs(d)'
          PROVE  \/ my'[d].proved \in {user.pw, NoPassword}
                 \/ \E l \in Call : /\ Needs(l) /\ my'[d].proved = my[l].proved
                                    /\ straddled[l] => straddled'[d]
      <4>1. CASE d = c
        BY <3>2, <3>5, <4>1
      <4>2. CASE d # c
        <5>1. Needs(d) /\ my'[d].proved = my[d].proved /\ straddled'[d] = straddled[d]
          BY <2>3, <3>1, <3>4, <3>5, <4>2
        <5>2. QED
          BY <5>1
      <4>3. QED
        BY <4>1, <4>2
    <3>6. QED
      BY <3>3, <3>4, <3>5, CleanKept DEF AccountInv
  <2>10. LockInv'
    <3> SUFFICES ASSUME ~attempts'.overlapped
                 PROVE  /\ user'.failed = attempts'.wrong
                        /\ attempts'.wrong >= MaxFailed => user'.locked \/ attempts'.lapsed
                        /\ \A d, e \in Reading' : d = e
                        /\ \A d \in Reading' : my'[d].got.failed = user'.failed
      BY DEF LockInv
    <3>1. user' = user /\ Reading = {} /\ ~attempts.overlapped
      BY <2>4 DEF LoginRead
    <3>2. \A d \in Reading' : d = c /\ my'[d].got.failed = user.failed
      BY <2>2, <2>3, <3>1 DEF Reading
    <3>3. /\ user.failed = attempts.wrong
          /\ attempts.wrong >= MaxFailed => user.locked \/ attempts.lapsed
      BY <3>1 DEF LockInv, AccountInv
    <3>4. QED
      BY <2>4, <3>1, <3>2, <3>3
  <2>11. \A d \in Call : my'[d].how = "renew" => my[d].how = "renew" /\ my'[d].link = my[d].link
    BY <2>2, <2>3
  <2>12. QED
    BY <2>6, <2>8, <2>9, <2>10, <2>11, PartsKept DEF LoginRead
<1>4. QED
  BY <1>2, <1>3

LEMMA MfaVerifyKeeps ==
  ASSUME AccountInv, NEW c \in Call, NEW l \in Call, MfaVerify(c, l)
  PROVE  AccountInv'
<1>1. /\ AccountBase /\ my[c].at = "idle" /\ my[c] \in MyRow /\ my[c].how = "login" /\ ~Revoking(c)
      /\ At(c, "idle") /\ ins[c].refresh = "none" /\ ~ins[c].mfa
      /\ my[l].proved \in MaybePassword /\ straddled \in [Call -> BOOLEAN]
  BY AtFacts, AccountFacts DEF MfaVerify
<1>2. CASE my' = [my EXCEPT ![c].at = "done"] /\ UNCHANGED straddled
  BY <1>1, <1>2, IdleEnds DEF MfaVerify, Go, seen
<1>3. CASE /\ my' = [my EXCEPT ![c].at = "factor", ![c].proved = my[l].proved]
           /\ straddled' = [straddled EXCEPT ![c] = straddled[l]]
  <2>1. Exists /\ Needs(l)
    <3>1. ins[l].mfa /\ ins[l] # NoRows
      BY DEF MfaVerify, NoRows
    <3>2. QED
      BY <1>1, <3>1, AccountFacts DEF Needs, TokenSteps
  <2> DEFINE row == [my[c] EXCEPT !.at = "factor", !.proved = my[l].proved]
  <2>2. /\ row \in MyRow /\ row.at = "factor" /\ row.proved = my[l].proved /\ row.how = "login"
        /\ my' = [my EXCEPT ![c] = row]
    BY <1>1, <1>3 DEF MyRow, Steps, TokenSteps
  <2> HIDE DEF row
  <2>3. my' \in [Call -> MyRow] /\ my'[c] = row /\ \A d \in Call : d # c => my'[d] = my[d]
    BY <1>1, <2>2, RowTyped
  <2>4. /\ straddled' \in [Call -> BOOLEAN] /\ straddled'[c] = straddled[l]
        /\ \A d \in Call : d # c => straddled'[d] = straddled[d]
    BY <1>1, <1>3
  <2>5. AccountTypeOK' /\ Exists'
    BY <1>1, <2>1, <2>3, <2>4, AccountFacts, MyTyped DEF MfaVerify, choice, Exists
  <2>6. RowsGoOn
    BY DEF MfaVerify, RowsGoOn
  <2>7. Fits(c)'
    BY <1>1, <2>2, <2>3 DEF Fits, MfaVerify
  <2>8. AccountBase'
    BY <1>1, <2>3, <2>5, <2>6, <2>7, BaseKept
  <2>9. CleanInv'
    <3>1. \A d \in Call : d # c /\ Needs(d)' => Needs(d)
      BY <2>3 DEF Needs, TokenSteps, MfaVerify
    <3>2. \A d \in Call : Revoking(d) => Revoking(d)'
      BY <1>1, <2>3 DEF Revoking
    <3>3. user'.pw = user.pw
      BY DEF MfaVerify
    <3>4. ASSUME NEW d \in Call, Needs(d)'
          PROVE  \E e \in Call : /\ Needs(e) /\ my'[d].proved = my[e].proved
                                 /\ straddled[e] => straddled'[d]
      <4>1. CASE d = c
        BY <2>1, <2>2, <2>3, <2>4, <4>1
      <4>2. CASE d # c
        <5>1. Needs(d) /\ my'[d].proved = my[d].proved /\ straddled'[d] = straddled[d]
          BY <2>3, <2>4, <3>1, <3>4, <4>2
        <5>2. QED
          BY <5>1
      <4>3. QED
        BY <4>1, <4>2
    <3>5. QED
      BY <3>2, <3>3, <3>4, CleanKept DEF AccountInv
  <2>10. LockInv'
    <3>1. \A d \in Call : my'[d].at = "check" => my'[d] = my[d]
      BY <2>2, <2>3
    <3>2. QED
      BY <3>1, LockKept DEF AccountInv, MfaVerify
  <2>11. \A d \in Call : my'[d].how = "renew" => my[d].how = "renew" /\ my'[d].link = my[d].link
    BY <2>2, <2>3
  <2>12. QED
    BY <2>6, <2>8, <2>9, <2>10, <2>11, PartsKept DEF MfaVerify
<1>4. QED
  BY <1>2, <1>3 DEF MfaVerify

LEMMA RenewReadKeeps ==
  ASSUME AccountInv, NEW c \in Call, NEW l \in Call, RenewRead(c, l)
  PROVE  AccountInv'
<1>1. /\ AccountBase /\ my[c].at = "idle" /\ my[c] \in MyRow /\ my[c].how = "login" /\ ~Revoking(c)
      /\ ins[c].refresh = "none" /\ ~ins[c].mfa
      /\ my[l].proved \in MaybePassword /\ straddled \in [Call -> BOOLEAN]
  BY AtFacts, AccountFacts DEF RenewRead
<1>2. Exists /\ Needs(l) /\ ins[l].refresh = "live"
  <2>1. ins[l].refresh = "live" /\ ins[l] # NoRows
    BY DEF RenewRead, NoRows
  <2>2. QED
    BY <1>1, <2>1, AccountFacts DEF Needs, TokenSteps
<1> DEFINE row == [my[c] EXCEPT !.at = "access", !.how = "renew", !.link = l, !.proved = my[l].proved]
<1>3. /\ row \in MyRow /\ row.at = "access" /\ row.proved = my[l].proved /\ row.how = "renew"
      /\ row.link = l /\ my' = [my EXCEPT ![c] = row]
  BY <1>1 DEF MyRow, Steps, TokenSteps, Hows, RenewRead
<1> HIDE DEF row
<1>4. my' \in [Call -> MyRow] /\ my'[c] = row /\ \A d \in Call : d # c => my'[d] = my[d]
  BY <1>1, <1>3, RowTyped
<1>5. /\ straddled' \in [Call -> BOOLEAN] /\ straddled'[c] = straddled[l]
      /\ \A d \in Call : d # c => straddled'[d] = straddled[d]
  BY <1>1 DEF RenewRead
<1>6. /\ renewals' \in [Call -> [minted : Nat, overlapped : BOOLEAN]]
      /\ renewals'[l].minted = renewals[l].minted
      /\ ~renewals'[l].overlapped => ~renewals[l].overlapped /\ Renewing(l) = {}
      /\ \A k \in Call : k # l => renewals'[k] = renewals[k]
  <2>1. /\ renewals \in [Call -> [minted : Nat, overlapped : BOOLEAN]]
        /\ renewals[l] \in [minted : Nat, overlapped : BOOLEAN]
    BY <1>1, AccountFacts
  <2> DEFINE b == renewals[l].overlapped \/ Renewing(l) # {}
             r == [renewals[l] EXCEPT !.overlapped = b]
  <2>2. b \in BOOLEAN /\ (~b => ~renewals[l].overlapped /\ Renewing(l) = {})
    OBVIOUS
  <2>3. renewals' = [renewals EXCEPT ![l] = r]
    BY <2>1 DEF RenewRead
  <2> HIDE DEF b
  <2>4. /\ r \in [minted : Nat, overlapped : BOOLEAN] /\ r.minted = renewals[l].minted
        /\ r.overlapped = b
    BY <2>1, <2>2
  <2> HIDE DEF r
  <2>5. QED
    BY <2>1, <2>2, <2>3, <2>4
<1>7. AccountTypeOK' /\ Exists'
  BY <1>1, <1>2, <1>4, <1>5, <1>6, AccountFacts, MyTyped DEF RenewRead, choice, Exists
<1>8. RowsGoOn
  BY DEF RenewRead, RowsGoOn
<1>9. Fits(c)'
  BY <1>1, <1>2, <1>3, <1>4 DEF Fits, RenewRead
<1>10. AccountBase'
  BY <1>1, <1>4, <1>7, <1>8, <1>9, BaseKept
<1>11. CleanInv'
  <2>1. \A d \in Call : d # c /\ Needs(d)' => Needs(d)
    BY <1>4 DEF Needs, TokenSteps, RenewRead
  <2>2. \A d \in Call : Revoking(d) => Revoking(d)'
    BY <1>1, <1>4 DEF Revoking
  <2>3. user'.pw = user.pw
    BY DEF RenewRead
  <2>4. ASSUME NEW d \in Call, Needs(d)'
        PROVE  \E e \in Call : /\ Needs(e) /\ my'[d].proved = my[e].proved
                               /\ straddled[e] => straddled'[d]
    <3>1. CASE d = c
      BY <1>2, <1>3, <1>4, <1>5, <3>1
    <3>2. CASE d # c
      <4>1. Needs(d) /\ my'[d].proved = my[d].proved /\ straddled'[d] = straddled[d]
        BY <1>4, <1>5, <2>1, <2>4, <3>2
      <4>2. QED
        BY <4>1
    <3>3. QED
      BY <3>1, <3>2
  <2>5. QED
    BY <2>2, <2>3, <2>4, CleanKept DEF AccountInv
<1>12. LockInv'
  <2>1. \A d \in Call : my'[d].at = "check" => my'[d] = my[d]
    BY <1>3, <1>4
  <2>2. QED
    BY <2>1, LockKept DEF AccountInv, RenewRead
<1>13. ASSUME NEW k \in Call PROVE RenewInv(k)'
  <2>1. RenewInv(k)
    BY DEF AccountInv
  <2>2. \A d \in Call : my'[d].how = "renew" =>
                          \/ d = c
                          \/ d # c /\ my[d].how = "renew" /\ my'[d].link = my[d].link
    BY <1>4
  <2>3. CASE k # l
    <3>1. \A d \in Call : d \in Renewing(k)' => d \in Renewing(k)
      BY <1>3, <1>4, <2>2, <2>3 DEF Renewing
    <3>2. renewals'[k] = renewals[k] /\ ins' = ins
      BY <1>6, <2>3 DEF RenewRead
    <3>3. QED
      BY <2>1, <3>1, <3>2 DEF RenewInv, Renewing
  <2>4. CASE k = l
    <3> SUFFICES ASSUME ~renewals'[l].overlapped
                 PROVE  /\ \A d, e \in Renewing(l)' : d = e
                        /\ renewals'[l].minted <= 1
                        /\ Renewing(l)' # {} => renewals'[l].minted = 0
                        /\ renewals'[l].minted > 0 => ins'[l].refresh = "revoked"
      BY <2>4 DEF RenewInv
    <3>1. ~renewals[l].overlapped /\ Renewing(l) = {} /\ renewals'[l].minted = renewals[l].minted
      BY <1>6
    <3>2. \A d \in Renewing(l)' : d = c
      BY <2>2, <3>1 DEF Renewing
    <3>3. renewals[l].minted <= 1 /\ ~(renewals[l].minted > 0) /\ renewals[l].minted \in Nat
      <4>1. renewals[l].minted \in Nat
        BY <1>1, AccountFacts
      <4>2. QED
        BY <1>2, <2>1, <2>4, <3>1, <4>1 DEF RenewInv
    <3>4. QED
      BY <3>1, <3>2, <3>3
  <2>5. QED
    BY <2>3, <2>4
<1>14. QED
  BY <1>10, <1>11, <1>12, <1>13 DEF AccountInv

(* The verdict on a password: one login has gone past the comparison.                          *)
LEMMA CheckEnds ==
  ASSUME AccountInv, NEW c \in Call, my[c].at = "check",
         my' \in [Call -> MyRow], \A d \in Call : d # c => my'[d] = my[d],
         my'[c].at \in {"gates", "done"}, my'[c].how # "renew", my'[c].proved = my[c].proved,
         my'[c].at = "gates" => my[c].proved = my[c].got.pw,
         user' \in UserRow, user'.pw = user.pw,
         attempts' \in [wrong : Nat, overlapped : BOOLEAN, lapsed : BOOLEAN],
         attempts'.overlapped = attempts.overlapped,
         ~attempts.overlapped =>
            /\ user'.failed = attempts'.wrong
            /\ attempts'.wrong >= MaxFailed => user'.locked \/ attempts'.lapsed,
         UNCHANGED <<choice, trusted, history, ins, dead, straddled, renewals>>
  PROVE  AccountInv'
<1>1. AccountBase /\ Exists /\ Shape(c)
  BY AccountFacts DEF AccountInv
<1>2. AccountTypeOK' /\ Exists'
  BY <1>1, AccountFacts, MyTyped DEF choice, Exists
<1>3. RowsGoOn
  BY DEF RowsGoOn
<1>4. Fits(c)'
  BY <1>1 DEF Fits, Shape
<1>5. AccountBase'
  BY <1>1, <1>2, <1>3, <1>4, BaseKept
<1>6. CleanInv'
  <2>1. ~ins[c].mfa /\ ins[c].refresh = "none"
    BY <1>1 DEF Shape
  <2>2. Needs(c)' => Needs(c)
    BY <2>1 DEF Needs, TokenSteps
  <2>3. \A d \in Call : d # c /\ Needs(d)' => Needs(d)
    BY DEF Needs, TokenSteps
  <2>4. \A d \in Call : Revoking(d) => Revoking(d)'
    BY DEF Revoking
  <2>5. \A d \in Call : Needs(d)' => Needs(d) /\ my'[d].proved = my[d].proved
    BY <2>2, <2>3
  <2>6. QED
    BY <2>4, <2>5, CleanKept DEF AccountInv
<1>7. LockInv'
  <2> SUFFICES ASSUME ~attempts.overlapped
               PROVE  Reading' = {}
    BY DEF LockInv
  <2>1. \A d, e \in Reading : d = e
    BY DEF AccountInv, LockInv
  <2>2. c \in Reading
    BY DEF Reading
  <2>3. QED
    BY <2>1, <2>2 DEF Reading
<1>8. \A d \in Call : my'[d].how = "renew" => my[d].how = "renew" /\ my'[d].link = my[d].link
  OBVIOUS
<1>9. QED
  BY <1>3, <1>5, <1>6, <1>7, <1>8, PartsKept

LEMMA CountFailureKeeps ==
  ASSUME AccountInv, NEW c \in Call, CountFailure(c)
  PROVE  AccountInv'
<1>1. /\ AccountBase /\ my[c].at = "check" /\ End(c) /\ user \in UserRow /\ user.locked \in BOOLEAN
      /\ my[c].got \in UserRow /\ attempts \in [wrong : Nat, overlapped : BOOLEAN, lapsed : BOOLEAN]
  BY AtFacts, AccountFacts DEF CountFailure
<1>2. /\ my' \in [Call -> MyRow] /\ \A d \in Call : d # c => my'[d] = my[d]
      /\ my'[c].at = "done" /\ my'[c].how = "login" /\ my'[c].proved = my[c].proved
  BY <1>1, EndFacts
<1> DEFINE n == my[c].got.failed + 1
           locks == user.locked \/ n >= MaxFailed
<1>3. n \in Nat /\ n = my[c].got.failed + 1
  BY <1>1 DEF UserRow
<1>4. user' = [user EXCEPT !.failed = n, !.locked = locks] /\ locks \in BOOLEAN
      /\ (n >= MaxFailed => locks)
  BY <1>1, <1>3 DEF CountFailure
<1> HIDE DEF n, locks
<1>5. user' \in UserRow /\ user'.pw = user.pw /\ user'.failed = n /\ user'.locked = locks
  BY <1>1, <1>3, <1>4 DEF UserRow
<1>6. attempts.wrong + 1 \in Nat /\ attempts' = [attempts EXCEPT !.wrong = attempts.wrong + 1]
  BY <1>1 DEF CountFailure
<1>7. /\ attempts' \in [wrong : Nat, overlapped : BOOLEAN, lapsed : BOOLEAN]
      /\ attempts'.wrong = attempts.wrong + 1 /\ attempts'.overlapped = attempts.overlapped
  BY <1>1, <1>6
<1>8. ASSUME ~attempts.overlapped
      PROVE  /\ user'.failed = attempts'.wrong
             /\ attempts'.wrong >= MaxFailed => user'.locked \/ attempts'.lapsed
  <2>1. user.failed = attempts.wrong /\ my[c].got.failed = user.failed
    BY <1>1, <1>8 DEF AccountInv, LockInv, Reading
  <2>2. n = attempts'.wrong
    BY <1>3, <1>7, <2>1
  <2>3. QED
    BY <1>4, <1>5, <2>2
<1>9. QED
  BY <1>1, <1>2, <1>5, <1>7, <1>8, CheckEnds DEF CountFailure

LEMMA ClearFailuresKeeps ==
  ASSUME AccountInv, NEW c \in Call, ClearFailures(c)
  PROVE  AccountInv'
<1>1. /\ AccountBase /\ my[c].at = "check" /\ user \in UserRow /\ my[c].how # "renew"
      /\ attempts \in [wrong : Nat, overlapped : BOOLEAN, lapsed : BOOLEAN]
      /\ Go(c, "gates") /\ "gates" \in Steps /\ my[c].proved = my[c].got.pw
  <2>1. At(c, "check") /\ Go(c, "gates") /\ my[c].proved = my[c].got.pw
    BY DEF ClearFailures
  <2>2. AccountBase /\ my[c].at = "check" /\ my[c].how # "renew"
    BY <2>1, AtFacts
  <2>3. "gates" \in Steps
    BY DEF Steps, TokenSteps
  <2>4. QED
    BY <2>1, <2>2, <2>3, AccountFacts
<1>2. /\ my' \in [Call -> MyRow] /\ \A d \in Call : d # c => my'[d] = my[d]
      /\ my'[c].at = "gates" /\ my'[c].how = my[c].how /\ my'[c].proved = my[c].proved
  BY <1>1, GoFacts
<1>3. user' \in UserRow /\ user'.pw = user.pw /\ user'.failed = 0
  BY <1>1 DEF UserRow, ClearFailures
<1>4. /\ attempts' \in [wrong : Nat, overlapped : BOOLEAN, lapsed : BOOLEAN]
      /\ attempts'.wrong = 0 /\ attempts'.overlapped = attempts.overlapped
  BY <1>1 DEF ClearFailures
<1>5. ~(0 >= MaxFailed)
  BY AccountBoundAssumption
<1>6. ~attempts.overlapped => /\ user'.failed = attempts'.wrong
                              /\ attempts'.wrong >= MaxFailed => user'.locked \/ attempts'.lapsed
  BY <1>3, <1>4, <1>5
<1>7. QED
  BY <1>1, <1>2, <1>3, <1>4, <1>6, CheckEnds DEF ClearFailures

LEMMA LockLapsesKeeps ==
  ASSUME AccountInv, LockLapses
  PROVE  AccountInv'
<1>1. /\ AccountBase /\ user \in UserRow
      /\ attempts \in [wrong : Nat, overlapped : BOOLEAN, lapsed : BOOLEAN]
  BY AccountFacts DEF AccountInv
<1>2. Exists
  BY <1>1, AccountFacts DEF LockLapses, NoUser
<1>3. /\ user' \in UserRow /\ user'.pw = user.pw /\ user'.failed = user.failed
  BY <1>1 DEF LockLapses, UserRow
<1>4. /\ attempts' \in [wrong : Nat, overlapped : BOOLEAN, lapsed : BOOLEAN] /\ attempts'.lapsed
      /\ attempts'.wrong = attempts.wrong /\ attempts'.overlapped = attempts.overlapped
  BY <1>1 DEF LockLapses
<1>5. AccountTypeOK' /\ Exists'
  BY <1>1, <1>2, <1>3, <1>4, AccountFacts, MyTyped DEF LockLapses, choice, Exists
<1>6. RowsGoOn
  BY DEF LockLapses, RowsGoOn
<1>7. AccountBase'
  BY <1>1, <1>5, <1>6, BaseKept DEF LockLapses
<1>8. CleanInv'
  <2>1. \A d \in Call : /\ Needs(d)' => Needs(d) /\ my'[d].proved = my[d].proved
                        /\ Revoking(d) => Revoking(d)'
    BY DEF Needs, TokenSteps, LockLapses, Revoking
  <2>2. QED
    BY <1>3, <2>1, CleanKept DEF AccountInv, LockLapses
<1>9. LockInv'
  BY <1>3, <1>4 DEF AccountInv, LockInv, Reading, LockLapses
<1>10. QED
  BY <1>6, <1>7, <1>8, <1>9, PartsKept DEF LockLapses

LEMMA UpdatePasswordKeeps ==
  ASSUME AccountInv, NEW c \in Call, UpdatePassword(c)
  PROVE  AccountInv'
<1>1. /\ AccountBase /\ my[c].at = "update" /\ Exists /\ my[c].how # "renew" /\ my[c].new \in Password
      /\ Shape(c) /\ user \in UserRow
  BY AtFacts, AccountFacts DEF UpdatePassword, Shape
<1>2. PICK step \in {"mark", "record"} : Go(c, step)
  BY DEF UpdatePassword
<1>3. /\ my' \in [Call -> MyRow] /\ \A d \in Call : d # c => my'[d] = my[d]
      /\ my'[c].at = step /\ my'[c].how = my[c].how /\ my'[c].new = my[c].new
  <2>1. step \in Steps
    BY DEF Steps, TokenSteps, ChangeSteps
  <2>2. QED
    BY <1>1, <1>2, <2>1, GoFacts
<1>4. /\ user' \in UserRow /\ user'.pw \in Password /\ user'.failed = user.failed
      /\ user'.locked = user.locked
  <2> DEFINE m == user.must /\ my[c].how \notin {"expired", "forced"}
  <2>1. m \in BOOLEAN /\ my[c].new \in MaybePassword
    BY <1>1 DEF UserRow, MaybePassword
  <2>2. user' = [user EXCEPT !.pw = my[c].new, !.aged = FALSE, !.must = m]
    BY <1>1 DEF UpdatePassword, UserRow
  <2> HIDE DEF m
  <2>3. QED
    BY <1>1, <2>1, <2>2 DEF UserRow
<1>5. AccountTypeOK' /\ Exists'
  BY <1>1, <1>3, <1>4, AccountFacts, MyTyped, PasswordAssumption DEF UpdatePassword, choice, Exists, seen
<1>6. RowsGoOn
  BY DEF UpdatePassword, RowsGoOn
<1>7. Fits(c)'
  BY <1>1, <1>3 DEF Fits, Shape, UpdatePassword
<1>8. AccountBase'
  BY <1>1, <1>3, <1>5, <1>6, <1>7, BaseKept
<1>9. CleanInv'
  <2>1. Revoking(c)'
    BY <1>3 DEF Revoking
  <2>2. QED
    BY <2>1 DEF CleanInv, Clean
<1>10. LockInv'
  <2>1. \A d \in Call : my'[d].at = "check" => my'[d] = my[d]
    BY <1>3
  <2>2. QED
    BY <1>4, <2>1, LockKept DEF AccountInv, UpdatePassword, seen
<1>11. \A d \in Call : my'[d].how = "renew" => my[d].how = "renew" /\ my'[d].link = my[d].link
  BY <1>1, <1>3
<1>12. QED
  BY <1>6, <1>8, <1>9, <1>10, <1>11, PartsKept DEF UpdatePassword, seen

LEMMA RevokeRefreshKeeps ==
  ASSUME AccountInv, NEW c \in Call, RevokeRefresh(c)
  PROVE  AccountInv'
<1>1. /\ AccountBase /\ my[c].at = "refreshOff" /\ Exists /\ my[c].how # "renew"
      /\ Shape(c) /\ ins \in [Call -> InsRow] /\ straddled \in [Call -> BOOLEAN]
      /\ ins[c].refresh = "none" /\ ~ins[c].mfa
  BY AtFacts, AccountFacts DEF RevokeRefresh, Shape
<1>2. ASSUME NEW d \in Call
      PROVE  /\ ins'[d] \in InsRow /\ ins'[d].refresh # "live" /\ ins'[d].mfa = ins[d].mfa
             /\ \/ ins'[d].refresh = ins[d].refresh
                \/ ins[d].refresh = "live" /\ ins'[d].refresh = "revoked"
  <2>1. ins[d] \in InsRow
    BY <1>1
  <2>2. ins'[d] = IF ins[d].refresh = "live" THEN [ins[d] EXCEPT !.refresh = "revoked"] ELSE ins[d]
    BY DEF RevokeRefresh, Revoke
  <2>3. CASE ins[d].refresh = "live"
    BY <2>1, <2>2, <2>3 DEF InsRow, TokenState
  <2>4. CASE ins[d].refresh # "live"
    <3>1. ins'[d] = ins[d]
      BY <2>2, <2>4
    <3>2. QED
      BY <2>1, <2>4, <3>1
  <2>5. QED
    BY <2>3, <2>4
<1>3. ins' \in [Call -> InsRow]
  <2>1. ins' = [d \in Call |-> ins'[d]]
    BY DEF RevokeRefresh, Revoke
  <2>2. QED
    BY <1>2, <2>1
<1>4. /\ my' \in [Call -> MyRow] /\ \A d \in Call : d # c => my'[d] = my[d]
      /\ my'[c].at \in {"accessOff", "done"} /\ my'[c].how # "renew"
  <2>1. CASE Go(c, "accessOff")
    <3>1. "accessOff" \in Steps
      BY DEF Steps, TokenSteps, ChangeSteps
    <3>2. QED
      BY <1>1, <2>1, <3>1, GoFacts
  <2>2. CASE End(c)
    BY <1>1, <2>2, EndFacts
  <2>3. QED
    BY <2>1, <2>2 DEF RevokeRefresh
<1>5. /\ straddled' \in [Call -> BOOLEAN]
      /\ \A d \in Call : straddled[d] \/ InFlight(d) => straddled'[d]
  <2> DEFINE s(d) == straddled[d] \/ InFlight(d)
  <2>1. straddled' = [d \in Call |-> s(d)] /\ \A d \in Call : s(d) \in BOOLEAN
    BY DEF RevokeRefresh
  <2>2. \A d \in Call : straddled'[d] = s(d)
    BY <2>1
  <2> HIDE DEF s
  <2>3. straddled' \in [Call -> BOOLEAN]
    BY <2>1
  <2>4. QED
    BY <2>2, <2>3 DEF s
<1>6. AccountTypeOK' /\ Exists'
  BY <1>1, <1>3, <1>4, <1>5, AccountFacts, MyTyped DEF RevokeRefresh, choice, Exists
<1>7. RowsGoOn
  BY <1>2 DEF RowsGoOn
<1>8. Fits(c)'
  BY <1>1, <1>2, <1>4 DEF Fits
<1>9. AccountBase'
  BY <1>1, <1>4, <1>6, <1>7, <1>8, BaseKept
<1>10. CleanInv'
  <2>1. ASSUME NEW d \in Call, Needs(d)' PROVE straddled'[d]
    <3>1. CASE d = c
      BY <1>1, <1>2, <1>4, <2>1, <3>1 DEF Needs, TokenSteps
    <3>2. CASE d # c
      BY <1>2, <1>4, <1>5, <2>1, <3>2 DEF Needs, InFlight, TokenSteps
    <3>3. QED
      BY <3>1, <3>2
  <2>2. QED
    BY <2>1 DEF CleanInv, Clean
<1>11. LockInv'
  <2>1. \A d \in Call : my'[d].at = "check" => my'[d] = my[d]
    BY <1>4
  <2>2. QED
    BY <2>1, LockKept DEF AccountInv, RevokeRefresh
<1>12. \A d \in Call : my'[d].how = "renew" => my[d].how = "renew" /\ my'[d].link = my[d].link
  BY <1>4
<1>13. QED
  BY <1>7, <1>9, <1>10, <1>11, <1>12, PartsKept DEF RevokeRefresh

LEMMA RegisterKeeps ==
  ASSUME AccountInv, NEW c \in Call, NEW p \in Password, Register(c, p)
  PROVE  AccountInv'
<1>1. /\ AccountBase /\ my[c].at = "idle" /\ my[c] \in MyRow /\ my[c].how = "login" /\ ~Revoking(c)
  BY AtFacts, AccountFacts DEF Register
<1>2. CASE Exists
  <2>1. End(c) /\ TablesQuiet /\ MfaQuiet
    BY <1>1, <1>2, TablesSame DEF Register
  <2>2. QED
    BY <1>1, <1>2, <2>1, EndKeeps
<1>3. CASE ~Exists
  <2>1. user = NoUser /\ \A d \in Call : my[d].at \in {"idle", "done"} /\ ins[d] = NoRows
    BY <1>1, <1>3 DEF AccountBase, NoAccount
  <2> DEFINE row == [my[c] EXCEPT !.at = "welcome", !.new = p]
  <2>2. /\ row \in MyRow /\ row.at = "welcome" /\ row.new = p /\ row.how = "login"
        /\ my' = [my EXCEPT ![c] = row]
    BY <1>1, <1>3 DEF MyRow, Steps, TokenSteps, MaybePassword, Register
  <2> HIDE DEF row
  <2>3. my' \in [Call -> MyRow] /\ my'[c] = row /\ \A d \in Call : d # c => my'[d] = my[d]
    BY <1>1, <2>2, RowTyped
  <2>4. /\ user' \in UserRow /\ user'.pw = p /\ user'.failed = user.failed /\ user'.locked = user.locked
    <3>1. NoUser \in UserRow /\ p \in MaybePassword /\ user' = [NoUser EXCEPT !.pw = p]
      BY <1>3, FreshFacts DEF Register, MaybePassword
    <3>2. QED
      BY <2>1, <3>1 DEF UserRow
  <2>5. AccountTypeOK' /\ Exists'
    BY <1>1, <2>3, <2>4, AccountFacts, MyTyped, PasswordAssumption DEF Register, choice, Exists, seen
  <2>6. RowsGoOn
    BY DEF Register, RowsGoOn
  <2>7. ins' = ins /\ \A d \in Call : ins[d].refresh = "none" /\ ~ins[d].mfa
    BY <2>1, FreshFacts DEF Register
  <2>8. Fits(c)'
    BY <2>2, <2>3, <2>7 DEF Fits
  <2>9. AccountBase'
    BY <1>1, <2>3, <2>5, <2>6, <2>8, BaseKept
  <2>10. CleanInv'
    <3>1. ASSUME NEW d \in Call PROVE ~Needs(d)'
      <4>1. my'[d].at \in {"idle", "done", "welcome"}
        BY <2>1, <2>2, <2>3
      <4>2. QED
        BY <2>7, <4>1 DEF Needs, TokenSteps
    <3>2. QED
      BY <3>1 DEF CleanInv
  <2>11. LockInv'
    <3>1. \A d \in Call : my'[d].at = "check" => my'[d] = my[d]
      BY <2>2, <2>3
    <3>2. QED
      BY <2>4, <3>1, LockKept DEF AccountInv, Register, seen
  <2>12. \A d \in Call : my'[d].how = "renew" => my[d].how = "renew" /\ my'[d].link = my[d].link
    BY <2>2, <2>3
  <2>13. QED
    BY <2>6, <2>9, <2>10, <2>11, <2>12, PartsKept DEF Register, seen
<1>4. QED
  BY <1>2, <1>3

LEMMA AccountStarts == AccountInit => AccountInv
<1> SUFFICES ASSUME AccountInit PROVE AccountInv
  OBVIOUS
<1>1. \A c \in Call : /\ my[c] = Fresh(c) /\ ins[c] = NoRows /\ straddled[c] = FALSE
                      /\ renewals[c] = [minted |-> 0, overlapped |-> FALSE]
  BY DEF AccountInit
<1>2. user \in UserRow /\ user.failed = 0 /\ user.pw \in MaybePassword
      /\ (~Exists => user = NoUser) /\ (user.pw \in Password \/ history = <<>>)
  <2>1. PICK p \in Password, v \in BOOLEAN, m \in BOOLEAN :
          user = IF "register" \in accountCase THEN NoUser
                 ELSE [NoUser EXCEPT !.pw = p, !.verified = v \/ "mail" \notin accountCase,
                                     !.must = m /\ "forced" \in accountCase]
    BY DEF AccountInit
  <2>2. CASE "register" \in accountCase
    <3>1. user = NoUser /\ history = <<>>
      BY <2>1, <2>2 DEF AccountInit
    <3>2. QED
      BY <3>1, FreshFacts DEF Exists, MaybePassword, NoUser, UserRow
  <2>3. CASE "register" \notin accountCase
    <3> DEFINE b == v \/ "mail" \notin accountCase
               n == m /\ "forced" \in accountCase
    <3>1. user = [NoUser EXCEPT !.pw = p, !.verified = b, !.must = n]
      BY <2>1, <2>3
    <3>2. b \in BOOLEAN /\ n \in BOOLEAN
      OBVIOUS
    <3> HIDE DEF b, n
    <3>3. user \in UserRow /\ user.failed = 0 /\ user.pw = p
      BY <3>1, <3>2 DEF NoUser, UserRow, MaybePassword
    <3>4. QED
      BY <3>3, PasswordAssumption DEF Exists, MaybePassword
  <2>4. QED
    BY <2>2, <2>3
<1>3. \A c \in Call : /\ my[c] \in MyRow /\ my[c].at = "idle" /\ my[c].how = "login"
                      /\ my[c].proved = NoPassword /\ ins[c] \in InsRow /\ ins[c].refresh = "none"
                      /\ ~ins[c].mfa
  BY <1>1, FreshFacts
<1>4. AccountTypeOK
  <2>1. my \in [Call -> MyRow] /\ ins \in [Call -> InsRow]
    <3>1. my = [c \in Call |-> Fresh(c)] /\ ins = [c \in Call |-> NoRows]
      BY DEF AccountInit
    <3>2. (\A c \in Call : Fresh(c) \in MyRow) /\ (\A c \in Call : NoRows \in InsRow)
      BY FreshFacts
    <3>3. QED
      BY <3>1, <3>2
  <2>2. history \in Seq(Password)
    <3>1. CASE history = <<>>
      BY <3>1
    <3>2. CASE history # <<>>
      <4>1. history = <<user.pw>> /\ user.pw \in Password
        BY <1>2, <3>2 DEF AccountInit
      <4>2. QED
        BY <4>1
    <3>3. QED
      BY <3>1, <3>2
  <2>3. enrolled \in BOOLEAN /\ trusted \in BOOLEAN /\ dead \subseteq Call
    BY DEF AccountInit
  <2>4. /\ straddled \in [Call -> BOOLEAN]
        /\ attempts \in [wrong : Nat, overlapped : BOOLEAN, lapsed : BOOLEAN]
        /\ renewals \in [Call -> [minted : Nat, overlapped : BOOLEAN]]
    BY DEF AccountInit
  <2>5. QED
    BY <1>2, <2>1, <2>2, <2>3, <2>4 DEF AccountTypeOK, MyRow, InsRow
<1>5. AccountBase
  <2>1. \A c \in Call : Shape(c)
    BY <1>1, <1>3 DEF Shape
  <2>2. NoAccount
    BY <1>1, <1>2, <1>3 DEF NoAccount
  <2>3. QED
    BY <1>4, <2>1, <2>2 DEF AccountBase
<1>6. CleanInv
  BY <1>3 DEF CleanInv, Needs, TokenSteps
<1>7. LockInv
  <2>1. attempts = [wrong |-> 0, overlapped |-> FALSE, lapsed |-> FALSE]
    BY DEF AccountInit
  <2>2. Reading = {} /\ ~(0 >= MaxFailed)
    BY <1>3, AccountBoundAssumption DEF Reading
  <2>3. QED
    BY <1>2, <2>1, <2>2 DEF LockInv
<1>8. \A l \in Call : RenewInv(l)
  <2>1. \A l \in Call : Renewing(l) = {}
    BY <1>3 DEF Renewing
  <2>2. QED
    BY <1>1, <2>1 DEF RenewInv
<1>9. QED
  BY <1>5, <1>6, <1>7, <1>8 DEF AccountInv

LEMMA AccountStep == AccountInv /\ [AccountNext]_accountVars => AccountInv'
<1> SUFFICES ASSUME AccountInv, [AccountNext]_accountVars PROVE AccountInv'
  OBVIOUS
<1>1. CASE UNCHANGED accountVars
  BY <1>1, AccountStays
<1>2. ASSUME NEW c \in Call, NEW p \in Password, LoginRead(c, p) \/ Register(c, p)
      PROVE  AccountInv'
  BY <1>2, LoginReadKeeps, RegisterKeeps
<1>3. ASSUME NEW c \in Call, NEW l \in Call,
             RenewRead(c, l) \/ MfaVerify(c, l) \/ FindMail(c, l) \/ FindDeletion(c, l)
      PROVE  AccountInv'
  BY <1>3, RenewReadKeeps, MfaVerifyKeeps, FindMailKeeps, FindDeletionKeeps
<1>4. ASSUME NEW c \in Call, NEW way \in Ways, NEW l \in Call, NEW p \in MaybePassword,
             NEW q \in Password, BeginChange(c, way, l, p, q)
      PROVE  AccountInv'
  BY <1>4, BeginChangeKeeps
<1>5. ASSUME NEW c \in Call,
             \/ FederatedSignIn(c) \/ Spend(c) \/ CountFailure(c) \/ ClearFailures(c) \/ Gates(c) \/ AskFactor(c) \/ JudgeFactor(c)
             \/ InsertAccess(c) \/ OpenSession(c) \/ InsertRefresh(c)
      PROVE  AccountInv'
  BY <1>5, FederatedSignInKeeps, SpendKeeps, CountFailureKeeps, ClearFailuresKeeps, GatesKeeps,
     AskFactorKeeps, JudgeFactorKeeps, InsertAccessKeeps, OpenSessionKeeps, InsertRefreshKeeps
<1>6. ASSUME NEW c \in Call,
             \/ RequestReset(c) \/ UpdatePassword(c) \/ MarkResetUsed(c) \/ RecordHistory(c) \/ PruneHistory(c)
             \/ RevokeRefresh(c) \/ RevokeAccess(c)
      PROVE  AccountInv'
  BY <1>6, RequestResetKeeps, UpdatePasswordKeeps, MarkResetUsedKeeps, RecordHistoryKeeps,
     PruneHistoryKeeps, RevokeRefreshKeeps, RevokeAccessKeeps
<1>7. ASSUME NEW c \in Call,
             \/ OpenMail(c) \/ Resend(c) \/ InsertMail(c) \/ MarkVerified(c)
             \/ AskDeletion(c) \/ InsertDeletion(c) \/ CancelDeletion(c)
             \/ AdminUpdate(c) \/ LinkExpires(c) \/ Die(c)
      PROVE  AccountInv'
  BY <1>7, OpenMailKeeps, ResendKeeps, InsertMailKeeps, MarkVerifiedKeeps, AskDeletionKeeps,
     InsertDeletionKeeps, CancelDeletionKeeps, AdminUpdateKeeps, LinkExpiresKeeps, DieKeeps
<1>8. CASE ForgetDevice \/ LockLapses \/ PasswordAges
  BY <1>8, ForgetDeviceKeeps, LockLapsesKeeps, PasswordAgesKeeps
<1>9. QED
  BY <1>1, <1>2, <1>3, <1>4, <1>5, <1>6, <1>7, <1>8 DEF AccountNext

(* Always: the account's types, and what ties its calls to its tables.                         *)
THEOREM AccountInvHolds == AccountSpec => []AccountInv
BY AccountStarts, AccountStep, PTL DEF AccountSpec

(* What a call at its end still needs is what the tables hold.                                 *)
LEMMA AccountKept == AccountInv => AccountHolds
<1> SUFFICES ASSUME AccountInv PROVE AccountHolds
  OBVIOUS
<1>1. OldPasswordLeavesNothing
  BY DEF AccountInv, CleanInv, Needs, TokenSteps, Clean, OldPasswordLeavesNothing
<1>2. LockoutCounts
  BY DEF AccountInv, LockInv, LockoutCounts
<1>3. RenewedOnce
  BY DEF AccountInv, RenewInv, RenewedOnce
<1>4. QED
  BY <1>1, <1>2, <1>3 DEF AccountHolds

(* Whatever requests run together and wherever they stop: after a password change nothing      *)
(* that the old password obtained refreshes, wrong passwords are counted and lock, and only    *)
(* renewals under way together exchange a refresh token twice.                                  *)
THEOREM AccountHoldsTheorem == AccountSpec => []AccountHolds
BY AccountInvHolds, AccountKept, PTL

--------------------------------------------------------------------------------
(* Risk.                                                                             *)

(* What a baseline and a task are made of.                                                    *)
Base == {b \in [usual : Seq(Device), count : Nat] : Len(b.usual) <= ListCap /\ IsInjective(b.usual)}
TaskRow == {Waiting} \cup [step : {"recorded"}, device : Device]
             \cup [step : {"merging"}, device : Device, read : Base, stale : BOOLEAN]
             \cup [step : {"recompute"}, read : Seq(Device), stale : BOOLEAN]
RiskRows ==
  /\ drifted \in BOOLEAN
  /\ events \in Seq(Device) /\ Len(events) <= MaxEvents
  /\ aged \in 0 .. Len(events)
  /\ baseline \in Base
  /\ task \in [Scored -> TaskRow]

(* Everything a task holds or the baseline lists was recorded.                                *)
KnownInv ==
  /\ ToSet(baseline.usual) \subseteq ToSet(events)
  /\ \A t \in Scored :
       /\ task[t].step \in {"recorded", "merging"} => task[t].device \in ToSet(events)
       /\ task[t].step = "merging" => ToSet(task[t].read.usual) \subseteq ToSet(events)
       /\ task[t].step = "recompute" => ToSet(task[t].read) \subseteq ToSet(events)

(* What a task read is still so unless it was overtaken: the baseline, or for the nightly job *)
(* all that the look-back sees.                                                               *)
FreshInv ==
  \A t \in Scored :
    /\ task[t].step = "merging" /\ ~task[t].stale => task[t].read = baseline
    /\ task[t].step = "recompute" /\ ~task[t].stale => ToSet(Seen) \subseteq ToSet(task[t].read)

(* Unless something was lost, what the look-back sees is usual or about to be folded in.      *)
CoveredInv ==
  ~drifted /\ Cardinality(ToSet(events)) <= ListCap =>
    \A d \in ToSet(Seen) : \/ d \in ToSet(baseline.usual)
                           \/ \E t \in Scored : /\ task[t].step \in {"recorded", "merging"}
                                                /\ task[t].device = d

RiskInv == RiskRows /\ KnownInv /\ FreshInv /\ CoveredInv

LEMMA ShortSequences ==
  ASSUME NEW S, NEW n \in Nat
  PROVE  \A s : s \in BoundedSeq(S, n) <=> s \in Seq(S) /\ Len(s) <= n
<1>1. ASSUME NEW s \in BoundedSeq(S, n) PROVE s \in Seq(S) /\ Len(s) <= n
  <2>1. PICK m \in 0 .. n : s \in [1 .. m -> S]
    BY DEF BoundedSeq, SeqOf
  <2>2. QED
    BY <2>1, SeqDef, LenProperties
<1>2. ASSUME NEW s \in Seq(S), Len(s) <= n PROVE s \in BoundedSeq(S, n)
  <2>1. Len(s) \in 0 .. n /\ s \in [1 .. Len(s) -> S]
    BY <1>2, LenProperties
  <2>2. QED
    BY <2>1 DEF BoundedSeq, SeqOf
<1>3. QED
  BY <1>1, <1>2

LEMMA EntriesOf ==
  ASSUME NEW S, NEW s \in Seq(S)
  PROVE  /\ DOMAIN s = 1 .. Len(s) /\ Len(s) \in Nat
         /\ ToSet(s) \subseteq S /\ IsFiniteSet(ToSet(s))
         /\ \A i \in 1 .. Len(s) : s[i] \in ToSet(s)
         /\ \A x \in ToSet(s) : \E i \in 1 .. Len(s) : s[i] = x
<1>1. DOMAIN s = 1 .. Len(s) /\ Len(s) \in Nat /\ s \in [1 .. Len(s) -> S]
  BY LenProperties
<1>2. ToSet(s) \subseteq S
  BY <1>1 DEF ToSet
<1>3. s \in Surjection(1 .. Len(s), ToSet(s))
  BY <1>1 DEF Surjection, ToSet
<1>4. IsFiniteSet(1 .. Len(s))
  BY <1>1, FS_Interval
<1>5. IsFiniteSet(ToSet(s))
  BY <1>3, <1>4, FS_Surjection
<1>6. QED
  BY <1>1, <1>2, <1>5 DEF ToSet

(* A list without repetition is no longer than what it is taken from, and as long only when   *)
(* it holds all of it.                                                                        *)
LEMMA DistinctFit ==
  ASSUME NEW S, NEW s \in Seq(S), IsInjective(s), NEW F, IsFiniteSet(F), ToSet(s) \subseteq F
  PROVE  /\ Len(s) <= Cardinality(F)
         /\ Len(s) = Cardinality(F) => ToSet(s) = F
         /\ Cardinality(F) \in Nat
<1>1. s \in [1 .. Len(s) -> F] /\ Len(s) \in Nat
  <2>1. DOMAIN s = 1 .. Len(s) /\ Len(s) \in Nat /\ s \in [1 .. Len(s) -> S]
    BY LenProperties
  <2>2. \A i \in 1 .. Len(s) : s[i] \in F
    BY EntriesOf
  <2>3. QED
    BY <2>1, <2>2
<1>2. s \in Injection(1 .. Len(s), F)
  BY <1>1 DEF Injection
<1>3. IsFiniteSet(1 .. Len(s)) /\ Cardinality(1 .. Len(s)) = Len(s)
  <2>1. 1 \in Int /\ Len(s) \in Int
    BY <1>1
  <2>2. IsFiniteSet(1 .. Len(s)) /\ Cardinality(1 .. Len(s)) = (IF 1 > Len(s) THEN 0 ELSE Len(s) - 1 + 1)
    BY <2>1, FS_Interval
  <2>3. QED
    BY <1>1, <2>2
<1>4. /\ Cardinality(1 .. Len(s)) <= Cardinality(F)
      /\ Cardinality(1 .. Len(s)) = Cardinality(F) => s \in Surjection(1 .. Len(s), F)
  BY <1>2, FS_Injection
<1>5. s \in Surjection(1 .. Len(s), F) => ToSet(s) = F
  BY <1>1 DEF Surjection, ToSet
<1>6. QED
  BY <1>3, <1>4, <1>5, FS_CardinalityType

LEMMA AppendEntries ==
  ASSUME NEW S, NEW s \in Seq(S), NEW d \in S
  PROVE  ToSet(Append(s, d)) = ToSet(s) \cup {d}
<1>1. /\ Append(s, d) \in Seq(S) /\ Len(Append(s, d)) = Len(s) + 1
      /\ \A i \in 1 .. Len(s) : Append(s, d)[i] = s[i]
      /\ Append(s, d)[Len(s) + 1] = d /\ Len(s) \in Nat
  BY AppendProperties, LenProperties
<1>2. ASSUME NEW x \in ToSet(Append(s, d)) PROVE x \in ToSet(s) \cup {d}
  <2>1. PICK i \in 1 .. Len(s) + 1 : Append(s, d)[i] = x
    BY <1>1, EntriesOf
  <2>2. CASE i = Len(s) + 1
    BY <1>1, <2>1, <2>2
  <2>3. CASE i \in 1 .. Len(s)
    BY <1>1, <2>1, <2>3, EntriesOf
  <2>4. QED
    BY <1>1, <2>1, <2>2, <2>3
<1>3. ASSUME NEW x \in ToSet(s) \cup {d} PROVE x \in ToSet(Append(s, d))
  <2>1. CASE x = d
    <3>1. Len(s) + 1 \in 1 .. Len(Append(s, d))
      BY <1>1
    <3>2. Append(s, d)[Len(s) + 1] \in ToSet(Append(s, d))
      BY <1>1, <3>1, EntriesOf
    <3>3. QED
      BY <1>1, <2>1, <3>2
  <2>2. CASE x \in ToSet(s)
    <3>1. PICK i \in 1 .. Len(s) : s[i] = x
      BY <2>2, EntriesOf
    <3>2. i \in 1 .. Len(Append(s, d)) /\ Append(s, d)[i] = x
      BY <1>1, <3>1
    <3>3. QED
      BY <1>1, <3>2, EntriesOf
  <2>3. QED
    BY <1>3, <2>1, <2>2
<1>4. QED
  BY <1>2, <1>3

LEMMA SeenEntries ==
  ASSUME NEW S, NEW s \in Seq(S), NEW a \in 0 .. Len(s)
  PROVE  /\ SubSeq(s, a + 1, Len(s)) \in Seq(S)
         /\ ToSet(SubSeq(s, a + 1, Len(s))) = {s[i] : i \in a + 1 .. Len(s)}
<1> DEFINE u == SubSeq(s, a + 1, Len(s))
<1>1. Len(s) \in Nat /\ a \in Nat /\ a <= Len(s) /\ \A i \in 1 .. Len(s) : s[i] \in S
  BY LenProperties, EntriesOf
<1>2. /\ u \in Seq(S) /\ Len(u) = Len(s) - a
      /\ \A i \in 1 .. Len(s) - a : u[i] = s[a + i]
  <2>1. \A i \in a + 1 .. Len(s) : s[i] \in S
    BY <1>1
  <2>2. a + 1 \in Int /\ Len(s) \in Int
    BY <1>1
  <2>3. /\ u \in Seq(S) /\ Len(u) = (IF a + 1 <= Len(s) THEN Len(s) - (a + 1) + 1 ELSE 0)
        /\ \A i \in 1 .. Len(s) - (a + 1) + 1 : u[i] = s[(a + 1) + i - 1]
    BY <2>1, <2>2, SubSeqProperties
  <2> HIDE DEF u
  <2>4. QED
    BY <1>1, <2>3
<1> HIDE DEF u
<1>3. ASSUME NEW x \in ToSet(u) PROVE x \in {s[i] : i \in a + 1 .. Len(s)}
  <2>1. PICK i \in 1 .. Len(s) - a : u[i] = x
    BY <1>2, EntriesOf
  <2>2. a + i \in a + 1 .. Len(s) /\ s[a + i] = x
    BY <1>1, <1>2, <2>1
  <2>3. QED
    BY <2>2
<1>4. ASSUME NEW i \in a + 1 .. Len(s) PROVE s[i] \in ToSet(u)
  <2>1. i - a \in 1 .. Len(u) /\ u[i - a] = s[i]
    BY <1>1, <1>2
  <2>2. QED
    BY <1>2, <2>1, EntriesOf
<1>5. QED
  BY <1>2, <1>3, <1>4 DEF u

(* Folding a device in keeps the list short and without repetition, and loses nothing as long *)
(* as all there is fits.                                                                      *)
LEMMA MergeFacts ==
  ASSUME NEW s \in Seq(Device), IsInjective(s), Len(s) <= ListCap, NEW d \in Device
  PROVE  /\ Merge(s, d) \in Seq(Device) /\ IsInjective(Merge(s, d)) /\ Len(Merge(s, d)) <= ListCap
         /\ d \in ToSet(Merge(s, d)) /\ ToSet(Merge(s, d)) \subseteq ToSet(s) \cup {d}
         /\ \A F : IsFiniteSet(F) /\ ToSet(s) \cup {d} \subseteq F /\ Cardinality(F) <= ListCap
                     => ToSet(s) \subseteq ToSet(Merge(s, d))
<1>1. CASE d \in ToSet(s)
  BY <1>1 DEF Merge
<1>2. CASE d \notin ToSet(s)
  <2> DEFINE w == Append(s, d)
  <2>1. /\ w \in Seq(Device) /\ Len(w) = Len(s) + 1 /\ Len(s) \in Nat
        /\ \A i \in 1 .. Len(s) : w[i] = s[i] /\ w[i] \in ToSet(s)
        /\ w[Len(s) + 1] = d /\ w # <<>> /\ DOMAIN w = 1 .. Len(s) + 1
        /\ ToSet(w) = ToSet(s) \cup {d}
    <3>1. w \in Seq(Device)
      BY AppendProperties
    <3>2. QED
      BY <3>1, AppendProperties, LenProperties, EntriesOf, AppendEntries
  <2> HIDE DEF w
  <2>2. IsInjective(w)
    <3> SUFFICES ASSUME NEW i \in 1 .. Len(s) + 1, NEW j \in 1 .. Len(s) + 1, w[i] = w[j]
                 PROVE  i = j
      BY <2>1 DEF IsInjective
    <3>1. CASE i \in 1 .. Len(s) /\ j \in 1 .. Len(s)
      <4>1. s[i] = s[j] /\ DOMAIN s = 1 .. Len(s)
        BY <2>1, <3>1, EntriesOf
      <4>2. QED
        BY <3>1, <4>1 DEF IsInjective
    <3>2. CASE i = Len(s) + 1 /\ j \in 1 .. Len(s)
      BY <1>2, <2>1, <3>2
    <3>3. CASE j = Len(s) + 1 /\ i \in 1 .. Len(s)
      BY <1>2, <2>1, <3>3
    <3>4. QED
      BY <2>1, <3>1, <3>2, <3>3
  <2>3. CASE Len(w) > ListCap
    <3>1. Merge(s, d) = Tail(w)
      BY <1>2, <2>3 DEF Merge, w
    <3>2. /\ Tail(w) \in Seq(Device) /\ Len(Tail(w)) = Len(s)
          /\ \A i \in 1 .. Len(s) : Tail(w)[i] = w[i + 1]
      BY <2>1, HeadTailProperties
    <3>3. IsInjective(Tail(w))
      BY <2>1, <2>2, <3>2, EntriesOf DEF IsInjective
    <3>4. d \in ToSet(Tail(w))
      <4>1. Len(s) \in 1 .. Len(s)
        BY <2>1, <2>3, CapAssumption
      <4>2. Tail(w)[Len(s)] = d
        BY <2>1, <3>2, <4>1
      <4>3. QED
        BY <3>2, <4>1, <4>2, EntriesOf
    <3>5. ToSet(Tail(w)) \subseteq ToSet(w)
      <4> SUFFICES ASSUME NEW x \in ToSet(Tail(w)) PROVE x \in ToSet(w)
        OBVIOUS
      <4>1. PICK i \in 1 .. Len(s) : Tail(w)[i] = x
        BY <3>2, EntriesOf
      <4>2. i + 1 \in 1 .. Len(w) /\ w[i + 1] = x
        BY <2>1, <3>2, <4>1
      <4>3. QED
        BY <2>1, <4>2, EntriesOf
    <3>6. ASSUME NEW F, IsFiniteSet(F), ToSet(s) \cup {d} \subseteq F PROVE ~(Cardinality(F) <= ListCap)
      <4>1. Len(w) <= Cardinality(F) /\ Cardinality(F) \in Nat
        BY <2>1, <2>2, <3>6, DistinctFit
      <4>2. QED
        BY <2>1, <2>3, <4>1, CapAssumption
    <3>7. QED
      BY <2>1, <3>1, <3>2, <3>3, <3>4, <3>5, <3>6
  <2>4. CASE ~(Len(w) > ListCap)
    <3>1. Merge(s, d) = w
      BY <1>2, <2>4 DEF Merge, w
    <3>2. QED
      BY <2>1, <2>2, <2>4, <3>1, CapAssumption
  <2>5. QED
    BY <2>3, <2>4
<1>3. QED
  BY <1>1, <1>2

(* A recomputed list is what was seen, all of it as long as all there is fits.                *)
LEMMA RecomputedFacts ==
  ASSUME NEW list \in Seq(Device), NEW s \in Recomputed(list)
  PROVE  /\ s \in Seq(Device) /\ IsInjective(s) /\ Len(s) <= ListCap
         /\ ToSet(s) \subseteq ToSet(list)
         /\ \A F : IsFiniteSet(F) /\ ToSet(list) \subseteq F /\ Cardinality(F) <= ListCap
                     => ToSet(list) \subseteq ToSet(s)
<1>1. /\ s \in Seq(ToSet(list)) /\ IsInjective(s) /\ Len(s) <= ListCap
      /\ Len(s) = ListCap \/ ToSet(s) = ToSet(list)
  BY ShortSequences, CapAssumption DEF Recomputed
<1>2. ToSet(list) \subseteq Device /\ ToSet(s) \subseteq ToSet(list)
  BY <1>1, EntriesOf
<1>3. s \in Seq(Device)
  BY <1>1, <1>2, SeqMonotonic
<1>4. ASSUME NEW F, IsFiniteSet(F), ToSet(list) \subseteq F, Cardinality(F) <= ListCap, Len(s) = ListCap
      PROVE  ToSet(list) \subseteq ToSet(s)
  <2>1. /\ Len(s) <= Cardinality(F) /\ Cardinality(F) \in Nat
        /\ Len(s) = Cardinality(F) => ToSet(s) = F
    BY <1>1, <1>2, <1>3, <1>4, DistinctFit
  <2>2. Len(s) = Cardinality(F)
    BY <1>4, <2>1, CapAssumption
  <2>3. QED
    BY <1>4, <2>1, <2>2
<1>5. QED
  BY <1>1, <1>2, <1>3, <1>4

LEMMA TaskFacts ==
  ASSUME NEW r \in TaskRow
  PROVE  /\ r = Waiting \/ r.step \in {"recorded", "merging", "recompute"}
         /\ Waiting.step = "idle"
         /\ r.step \in {"idle", "recorded", "merging", "recompute"}
         /\ r.step = "idle" => r = Waiting
         /\ r.step \in {"recorded", "merging"} => r.device \in Device
         /\ r.step = "merging" =>
              /\ r.read \in Base /\ r.stale \in BOOLEAN
              /\ [r EXCEPT !.stale = TRUE] \in TaskRow
              /\ [r EXCEPT !.stale = TRUE].step = "merging" /\ [r EXCEPT !.stale = TRUE].stale
              /\ [r EXCEPT !.stale = TRUE].read = r.read /\ [r EXCEPT !.stale = TRUE].device = r.device
         /\ r.step = "recompute" =>
              /\ r.read \in Seq(Device) /\ r.stale \in BOOLEAN
              /\ [r EXCEPT !.stale = TRUE] \in TaskRow
              /\ [r EXCEPT !.stale = TRUE].step = "recompute" /\ [r EXCEPT !.stale = TRUE].stale
              /\ [r EXCEPT !.stale = TRUE].read = r.read
<1>1. CASE r = Waiting
  BY <1>1 DEF Waiting
<1>2. CASE r \in [step : {"recorded"}, device : Device]
  BY <1>2 DEF Waiting
<1>3. CASE r \in [step : {"merging"}, device : Device, read : Base, stale : BOOLEAN]
  BY <1>3 DEF Waiting, TaskRow
<1>4. CASE r \in [step : {"recompute"}, read : Seq(Device), stale : BOOLEAN]
  BY <1>4 DEF Waiting, TaskRow
<1>5. QED
  BY <1>1, <1>2, <1>3, <1>4 DEF TaskRow

(* Overtaken tasks are the same but for the mark.                                             *)
LEMMA Overtaken ==
  ASSUME task \in [Scored -> TaskRow], NEW steps \in SUBSET {"merging", "recompute"}
  PROVE  /\ Overtake(task, steps) \in [Scored -> TaskRow]
         /\ \A t \in Scored : LET r == Overtake(task, steps)[t]
                              IN  /\ r.step = task[t].step
                                  /\ task[t].step \in steps => r.stale
                                  /\ task[t].step \notin steps => r = task[t]
                                  /\ task[t].step \in {"recorded", "merging"} => r.device = task[t].device
                                  /\ task[t].step \in {"merging", "recompute"} => r.read = task[t].read
<1> DEFINE row(t) == IF task[t].step \in steps THEN [task[t] EXCEPT !.stale = TRUE] ELSE task[t]
<1>1. Overtake(task, steps) = [t \in Scored |-> row(t)]
  BY DEF Overtake
<1>2. ASSUME NEW t \in Scored
      PROVE  /\ row(t) \in TaskRow /\ row(t).step = task[t].step
             /\ task[t].step \in steps => row(t).stale
             /\ task[t].step \notin steps => row(t) = task[t]
             /\ task[t].step \in {"recorded", "merging"} => row(t).device = task[t].device
             /\ task[t].step \in {"merging", "recompute"} => row(t).read = task[t].read
  <2>1. CASE task[t].step \in steps
    BY <2>1, TaskFacts
  <2>2. CASE task[t].step \notin steps
    BY <2>2
  <2>3. QED
    BY <2>1, <2>2
<1> HIDE DEF row
<1>3. QED
  BY <1>1, <1>2

(* What the look-back sees was recorded.                                                      *)
LEMMA SeenKnown ==
  ASSUME RiskRows
  PROVE  /\ Seen \in Seq(Device) /\ ToSet(Seen) = {events[i] : i \in aged + 1 .. Len(events)}
         /\ ToSet(Seen) \subseteq ToSet(events) /\ Len(events) \in Nat /\ IsFiniteSet(ToSet(events))
<1>1. events \in Seq(Device) /\ aged \in 0 .. Len(events) /\ Len(events) \in Nat
  BY LenProperties DEF RiskRows
<1>2. Seen \in Seq(Device) /\ ToSet(Seen) = {events[i] : i \in aged + 1 .. Len(events)}
  BY <1>1, SeenEntries DEF Seen
<1>3. \A i \in aged + 1 .. Len(events) : events[i] \in ToSet(events)
  BY <1>1, EntriesOf
<1>4. QED
  BY <1>1, <1>2, <1>3, EntriesOf

LEMMA RecordSuccessKeeps ==
  ASSUME RiskInv, NEW t \in Scored, NEW d \in Device, RecordSuccess(t, d)
  PROVE  RiskInv'
<1> DEFINE over == Overtake(task, {"recompute"})
           r == [step |-> "recorded", device |-> d]
<1>1. /\ RiskRows /\ task \in [Scored -> TaskRow] /\ events \in Seq(Device)
      /\ aged \in 0 .. Len(events) /\ Len(events) \in Nat /\ task[t] = Waiting
      /\ Len(events) < MaxEvents /\ events' = Append(events, d)
      /\ task' = [over EXCEPT ![t] = r]
      /\ UNCHANGED <<aged, baseline, drifted>>
  BY LenProperties DEF RiskInv, RiskRows, RecordSuccess
<1>2. r \in TaskRow /\ r.step = "recorded" /\ r.device = d
  BY DEF TaskRow
<1>3. /\ over \in [Scored -> TaskRow]
      /\ \A u \in Scored : /\ over[u].step = task[u].step
                           /\ task[u].step = "recompute" => over[u].stale
                           /\ task[u].step # "recompute" => over[u] = task[u]
                           /\ task[u].step \in {"recorded", "merging"} => over[u].device = task[u].device
                           /\ task[u].step \in {"merging", "recompute"} => over[u].read = task[u].read
  BY <1>1, Overtaken
<1> HIDE DEF over, r
<1>4. /\ task' \in [Scored -> TaskRow] /\ task'[t] = r
      /\ \A u \in Scored : u # t => task'[u] = over[u]
  BY <1>1, <1>2, <1>3
<1>5. /\ events' \in Seq(Device) /\ Len(events') = Len(events) + 1
      /\ ToSet(events') = ToSet(events) \cup {d}
      /\ \A i \in 1 .. Len(events) : events'[i] = events[i]
      /\ events'[Len(events) + 1] = d
  BY <1>1, AppendProperties, AppendEntries
<1>6. RiskRows'
  BY <1>1, <1>4, <1>5, CapAssumption DEF RiskRows
<1>7. ToSet(Seen') \subseteq ToSet(Seen) \cup {d}
  <2>1. ToSet(Seen') = {events'[i] : i \in aged + 1 .. Len(events')}
    <3>1. aged \in 0 .. Len(events')
      BY <1>1, <1>5
    <3>2. ToSet(SubSeq(events', aged + 1, Len(events'))) = {events'[i] : i \in aged + 1 .. Len(events')}
      BY <1>5, <3>1, SeenEntries
    <3>3. Seen' = SubSeq(events', aged + 1, Len(events'))
      BY <1>1 DEF Seen
    <3>4. QED
      BY <3>2, <3>3
  <2>2. ToSet(Seen) = {events[i] : i \in aged + 1 .. Len(events)}
    BY <1>1, SeenKnown
  <2>3. QED
    BY <1>1, <1>5, <2>1, <2>2
<1>8. KnownInv'
  <2>1. KnownInv /\ ToSet(events) \subseteq ToSet(events')
    BY <1>5 DEF RiskInv
  <2>2. \A u \in Scored : u # t =>
          /\ task'[u].step = task[u].step
          /\ task[u].step \in {"recorded", "merging"} => task'[u].device = task[u].device
          /\ task[u].step \in {"merging", "recompute"} => task'[u].read = task[u].read
    BY <1>3, <1>4
  <2>3. ASSUME NEW u \in Scored, u # t
        PROVE  /\ task'[u].step \in {"recorded", "merging"} => task'[u].device \in ToSet(events')
               /\ task'[u].step = "merging" => ToSet(task'[u].read.usual) \subseteq ToSet(events')
               /\ task'[u].step = "recompute" => ToSet(task'[u].read) \subseteq ToSet(events')
    BY <2>1, <2>2, <2>3 DEF KnownInv
  <2>4. /\ task'[t].step = "recorded" /\ task'[t].device \in ToSet(events')
    BY <1>2, <1>4, <1>5
  <2>5. ToSet(baseline'.usual) \subseteq ToSet(events')
    BY <1>1, <2>1 DEF KnownInv
  <2>6. QED
    BY <2>3, <2>4, <2>5 DEF KnownInv
<1>9. FreshInv'
  <2>1. ASSUME NEW u \in Scored
        PROVE  /\ task'[u].step = "merging" /\ ~task'[u].stale => task'[u].read = baseline'
               /\ task'[u].step = "recompute" => task'[u].stale
    <3>1. CASE u = t
      BY <1>2, <1>4, <3>1
    <3>2. CASE u # t
      BY <1>1, <1>3, <1>4, <3>2 DEF FreshInv, RiskInv
    <3>3. QED
      BY <3>1, <3>2
  <2>2. QED
    BY <2>1 DEF FreshInv
<1>10. CoveredInv'
  <2> SUFFICES ASSUME ~drifted', Cardinality(ToSet(events')) <= ListCap, NEW x \in ToSet(Seen')
               PROVE  \/ x \in ToSet(baseline'.usual)
                      \/ \E u \in Scored : /\ task'[u].step \in {"recorded", "merging"}
                                           /\ task'[u].device = x
    BY DEF CoveredInv
  <2>1. CASE x = d
    BY <1>2, <1>4, <2>1
  <2>2. CASE x # d
    <3>1. x \in ToSet(Seen)
      BY <1>7, <2>2
    <3>2. Cardinality(ToSet(events)) <= ListCap
      <4>1. IsFiniteSet(ToSet(events')) /\ ToSet(events) \in SUBSET ToSet(events')
        BY <1>5, EntriesOf
      <4>2. /\ Cardinality(ToSet(events)) <= Cardinality(ToSet(events'))
            /\ Cardinality(ToSet(events')) \in Nat
        BY <4>1, FS_Subset, FS_CardinalityType
      <4>3. IsFiniteSet(ToSet(events)) /\ Cardinality(ToSet(events)) \in Nat
        BY <1>1, EntriesOf, FS_CardinalityType
      <4>4. QED
        BY <4>2, <4>3, CapAssumption
    <3>3. \/ x \in ToSet(baseline.usual)
          \/ \E u \in Scored : task[u].step \in {"recorded", "merging"} /\ task[u].device = x
      BY <1>1, <3>1, <3>2 DEF CoveredInv, RiskInv
    <3>4. ASSUME NEW u \in Scored, task[u].step \in {"recorded", "merging"}
          PROVE  task'[u].step \in {"recorded", "merging"} /\ task'[u].device = task[u].device
      <4>1. u # t
        BY <1>1, <3>4 DEF Waiting
      <4>2. QED
        BY <1>3, <1>4, <3>4, <4>1
    <3>5. QED
      BY <1>1, <3>3, <3>4
  <2>3. QED
    BY <2>1, <2>2
<1>11. QED
  BY <1>6, <1>8, <1>9, <1>10 DEF RiskInv

(* A task of t becomes r and nothing else changes but the mark that something was lost.       *)
LEMMA TaskMoves ==
  ASSUME RiskInv, NEW t \in Scored, NEW r \in TaskRow, task' = [task EXCEPT ![t] = r],
         UNCHANGED <<events, aged, baseline>>, drifted' \in BOOLEAN,
         r.step \in {"recorded", "merging"} => r.device \in ToSet(events),
         r.step = "merging" => r.read = baseline,
         r.step = "recompute" => ToSet(r.read) = ToSet(Seen),
         drifted' \/ /\ drifted' = drifted
                     /\ task[t].step \in {"recorded", "merging"} =>
                          r.step \in {"recorded", "merging"} /\ r.device = task[t].device
  PROVE  RiskInv'
<1>1. /\ RiskRows /\ KnownInv /\ FreshInv /\ CoveredInv /\ task \in [Scored -> TaskRow]
      /\ task' \in [Scored -> TaskRow] /\ task'[t] = r
      /\ \A u \in Scored : u # t => task'[u] = task[u]
      /\ Seen' = Seen
  BY DEF RiskInv, RiskRows, Seen
<1>2. RiskRows'
  BY <1>1 DEF RiskRows
<1>3. ToSet(Seen) \subseteq ToSet(events)
  BY <1>1, SeenKnown
<1>4. KnownInv'
  BY <1>1, <1>3 DEF KnownInv
<1>5. FreshInv'
  BY <1>1 DEF FreshInv
<1>6. CoveredInv'
  <2>1. CASE drifted'
    BY <2>1 DEF CoveredInv
  <2>2. CASE ~drifted'
    <3>1. /\ ~drifted
          /\ task[t].step \in {"recorded", "merging"} =>
                r.step \in {"recorded", "merging"} /\ r.device = task[t].device
      BY <2>2
    <3>2. \A u \in Scored : task[u].step \in {"recorded", "merging"} =>
             task'[u].step \in {"recorded", "merging"} /\ task'[u].device = task[u].device
      BY <1>1, <3>1
    <3>3. QED
      BY <1>1, <3>1, <3>2 DEF CoveredInv
  <2>3. QED
    BY <2>1, <2>2
<1>7. QED
  BY <1>2, <1>4, <1>5, <1>6 DEF RiskInv

LEMMA ReadBaselineKeeps ==
  ASSUME RiskInv, NEW t \in Scored, ReadBaseline(t)
  PROVE  RiskInv'
<1> DEFINE r == [step |-> "merging", device |-> task[t].device, read |-> baseline, stale |-> FALSE]
<1>1. /\ RiskRows /\ KnownInv /\ task[t] \in TaskRow /\ task[t].step = "recorded"
      /\ baseline \in Base /\ drifted \in BOOLEAN
      /\ task' = [task EXCEPT ![t] = r]
      /\ UNCHANGED <<events, aged, baseline, drifted>>
  BY DEF RiskInv, RiskRows, ReadBaseline
<1>2. task[t].device \in Device /\ task[t].device \in ToSet(events)
  BY <1>1, TaskFacts DEF KnownInv
<1>3. /\ r \in TaskRow /\ r.step = "merging" /\ r.device = task[t].device /\ r.read = baseline
  BY <1>1, <1>2 DEF TaskRow
<1> HIDE DEF r
<1>4. QED
  BY <1>1, <1>2, <1>3, TaskMoves

LEMMA LoseUpdateKeeps ==
  ASSUME RiskInv, NEW t \in Scored, LoseUpdate(t)
  PROVE  RiskInv'
<1>1. Waiting \in TaskRow /\ Waiting.step = "idle"
  BY DEF TaskRow, Waiting
<1>2. QED
  BY <1>1, TaskMoves DEF LoseUpdate

LEMMA StopRecomputeKeeps ==
  ASSUME RiskInv, NEW t \in Scored, StopRecompute(t)
  PROVE  RiskInv'
<1>1. Waiting \in TaskRow /\ Waiting.step = "idle" /\ drifted \in BOOLEAN
  BY DEF TaskRow, Waiting, RiskInv, RiskRows
<1>2. QED
  BY <1>1, TaskMoves DEF StopRecompute

LEMMA BeginRecomputeKeeps ==
  ASSUME RiskInv, NEW t \in Scored, BeginRecompute(t)
  PROVE  RiskInv'
<1> DEFINE r == [step |-> "recompute", read |-> Seen, stale |-> FALSE]
<1>1. /\ RiskRows /\ drifted \in BOOLEAN /\ task[t] = Waiting /\ Waiting.step = "idle"
      /\ task' = [task EXCEPT ![t] = r]
      /\ UNCHANGED <<events, aged, baseline, drifted>>
  BY DEF RiskInv, RiskRows, BeginRecompute, Waiting
<1>2. Seen \in Seq(Device)
  BY <1>1, SeenKnown
<1>3. r \in TaskRow /\ r.step = "recompute" /\ r.read = Seen
  BY <1>2 DEF TaskRow
<1> HIDE DEF r
<1>4. QED
  BY <1>1, <1>3, TaskMoves

(* The baseline is written: every other task that read it before is marked.                   *)
LEMMA BaselineWritten ==
  ASSUME RiskInv, NEW t \in Scored, baseline' \in Base, drifted' \in BOOLEAN,
         task' = [Overtake(task, {"merging", "recompute"}) EXCEPT ![t] = Waiting],
         UNCHANGED <<events, aged>>,
         ToSet(baseline'.usual) \subseteq ToSet(events),
         CoveredInv'
  PROVE  RiskInv'
<1> DEFINE over == Overtake(task, {"merging", "recompute"})
<1>1. RiskRows /\ KnownInv /\ task \in [Scored -> TaskRow] /\ task' = [over EXCEPT ![t] = Waiting]
  BY DEF RiskInv, RiskRows
<1>2. /\ over \in [Scored -> TaskRow]
      /\ \A u \in Scored : /\ over[u].step = task[u].step
                           /\ task[u].step \in {"merging", "recompute"} => over[u].stale
                           /\ task[u].step \in {"recorded", "merging"} => over[u].device = task[u].device
                           /\ task[u].step \in {"merging", "recompute"} => over[u].read = task[u].read
  BY <1>1, Overtaken
<1> HIDE DEF over
<1>3. /\ task' \in [Scored -> TaskRow] /\ task'[t] = Waiting /\ Waiting.step = "idle"
      /\ \A u \in Scored : u # t => task'[u] = over[u]
  BY <1>1, <1>2 DEF TaskRow, Waiting
<1>4. RiskRows'
  BY <1>1, <1>3 DEF RiskRows
<1>5. \A u \in Scored :
        \/ task'[u].step = "idle"
        \/ /\ task'[u].step = task[u].step
           /\ task[u].step \in {"merging", "recompute"} => task'[u].stale
           /\ task[u].step \in {"recorded", "merging"} => task'[u].device = task[u].device
           /\ task[u].step \in {"merging", "recompute"} => task'[u].read = task[u].read
  BY <1>2, <1>3
<1>6. KnownInv'
  <2>1. ASSUME NEW u \in Scored
        PROVE  /\ task'[u].step \in {"recorded", "merging"} => task'[u].device \in ToSet(events')
               /\ task'[u].step = "merging" => ToSet(task'[u].read.usual) \subseteq ToSet(events')
               /\ task'[u].step = "recompute" => ToSet(task'[u].read) \subseteq ToSet(events')
    BY <1>1, <1>5 DEF KnownInv
  <2>2. QED
    BY <2>1 DEF KnownInv
<1>7. FreshInv'
  BY <1>5 DEF FreshInv
<1>8. QED
  BY <1>4, <1>6, <1>7 DEF RiskInv

LEMMA WriteBaselineKeeps ==
  ASSUME RiskInv, NEW t \in Scored, WriteBaseline(t)
  PROVE  RiskInv'
<1> DEFINE d == task[t].device
           s == task[t].read.usual
           m == Merge(s, d)
<1>1. /\ RiskRows /\ KnownInv /\ FreshInv /\ CoveredInv
      /\ task \in [Scored -> TaskRow] /\ task[t].step = "merging"
      /\ UNCHANGED <<events, aged>>
      /\ drifted' = (drifted \/ task[t].stale) /\ drifted \in BOOLEAN
      /\ task' = [Overtake(task, {"merging", "recompute"}) EXCEPT ![t] = Waiting]
  BY DEF RiskInv, RiskRows, WriteBaseline
<1>2. /\ d \in Device /\ task[t].read \in Base /\ task[t].stale \in BOOLEAN
      /\ d \in ToSet(events) /\ ToSet(s) \subseteq ToSet(events)
  BY <1>1, TaskFacts DEF KnownInv
<1>3. /\ s \in Seq(Device) /\ IsInjective(s) /\ Len(s) <= ListCap
      /\ task[t].read.count \in Nat
  BY <1>2 DEF Base
<1>4. /\ m \in Seq(Device) /\ IsInjective(m) /\ Len(m) <= ListCap
      /\ d \in ToSet(m) /\ ToSet(m) \subseteq ToSet(s) \cup {d}
      /\ \A F : IsFiniteSet(F) /\ ToSet(s) \cup {d} \subseteq F /\ Cardinality(F) <= ListCap
                  => ToSet(s) \subseteq ToSet(m)
  BY <1>2, <1>3, MergeFacts
<1>5. baseline' = [usual |-> m, count |-> task[t].read.count + 1]
  BY DEF WriteBaseline
<1>6. ~task[t].stale => task[t].read = baseline
  BY <1>1 DEF FreshInv
<1> HIDE DEF d, s, m
<1>7. baseline' \in Base /\ baseline'.usual = m /\ ToSet(m) \subseteq ToSet(events)
  BY <1>2, <1>3, <1>4, <1>5 DEF Base
<1>8. CoveredInv'
  <2> SUFFICES ASSUME ~drifted', Cardinality(ToSet(events')) <= ListCap, NEW x \in ToSet(Seen')
               PROVE  \/ x \in ToSet(baseline'.usual)
                      \/ \E u \in Scored : /\ task'[u].step \in {"recorded", "merging"}
                                           /\ task'[u].device = x
    BY DEF CoveredInv
  <2>1. ~drifted /\ s = baseline.usual /\ x \in ToSet(Seen) /\ Cardinality(ToSet(events)) <= ListCap
    BY <1>1, <1>2, <1>6 DEF s, Seen
  <2>2. ToSet(s) \subseteq ToSet(m)
    BY <1>1, <1>2, <1>4, <2>1, SeenKnown
  <2>3. CASE x \in ToSet(baseline.usual)
    BY <1>7, <2>1, <2>2, <2>3
  <2>4. ASSUME NEW u \in Scored, task[u].step \in {"recorded", "merging"}, task[u].device = x
        PROVE  \/ x \in ToSet(baseline'.usual)
               \/ task'[u].step \in {"recorded", "merging"} /\ task'[u].device = x
    <3>1. CASE u = t
      BY <1>4, <1>7, <2>4, <3>1 DEF d
    <3>2. CASE u # t
      <4>1. /\ Overtake(task, {"merging", "recompute"}) \in [Scored -> TaskRow]
            /\ Overtake(task, {"merging", "recompute"})[u].step = task[u].step
            /\ Overtake(task, {"merging", "recompute"})[u].device = task[u].device
        BY <1>1, <2>4, Overtaken
      <4>2. task'[u] = Overtake(task, {"merging", "recompute"})[u]
        BY <1>1, <3>2, <4>1
      <4>3. QED
        BY <2>4, <4>1, <4>2
    <3>3. QED
      BY <3>1, <3>2
  <2>5. QED
    BY <1>1, <2>1, <2>3, <2>4 DEF CoveredInv
<1>9. QED
  BY <1>1, <1>2, <1>7, <1>8, BaselineWritten

LEMMA EndRecomputeKeeps ==
  ASSUME RiskInv, NEW t \in Scored, EndRecompute(t)
  PROVE  RiskInv'
<1>1. /\ RiskRows /\ KnownInv /\ FreshInv
      /\ task \in [Scored -> TaskRow] /\ task[t].step = "recompute"
      /\ UNCHANGED <<events, aged>>
      /\ drifted' = task[t].stale
      /\ task' = [Overtake(task, {"merging", "recompute"}) EXCEPT ![t] = Waiting]
  BY DEF RiskInv, RiskRows, EndRecompute
<1>2. PICK usual \in Recomputed(task[t].read) :
        baseline' = [usual |-> usual, count |-> Len(task[t].read)]
  BY DEF EndRecompute
<1>3. task[t].read \in Seq(Device) /\ task[t].stale \in BOOLEAN /\ ToSet(task[t].read) \subseteq ToSet(events)
  BY <1>1, TaskFacts DEF KnownInv
<1>4. /\ usual \in Seq(Device) /\ IsInjective(usual) /\ Len(usual) <= ListCap
      /\ ToSet(usual) \subseteq ToSet(task[t].read)
      /\ \A F : IsFiniteSet(F) /\ ToSet(task[t].read) \subseteq F /\ Cardinality(F) <= ListCap
                  => ToSet(task[t].read) \subseteq ToSet(usual)
  BY <1>3, RecomputedFacts
<1>5. /\ baseline' \in Base /\ baseline'.usual = usual /\ ToSet(usual) \subseteq ToSet(events)
  BY <1>2, <1>3, <1>4, LenProperties DEF Base
<1>6. CoveredInv'
  <2> SUFFICES ASSUME ~drifted', Cardinality(ToSet(events')) <= ListCap, NEW x \in ToSet(Seen')
               PROVE  x \in ToSet(baseline'.usual)
    BY DEF CoveredInv
  <2>1. x \in ToSet(Seen) /\ Cardinality(ToSet(events)) <= ListCap
    BY <1>1 DEF Seen
  <2>2. ToSet(Seen) \subseteq ToSet(task[t].read)
    BY <1>1 DEF FreshInv
  <2>3. ToSet(task[t].read) \subseteq ToSet(usual)
    BY <1>1, <1>3, <1>4, <2>1, SeenKnown
  <2>4. QED
    BY <1>5, <2>1, <2>2, <2>3
<1>7. QED
  BY <1>1, <1>3, <1>5, <1>6, BaselineWritten

LEMMA AgeKeeps == RiskInv /\ Age => RiskInv'
<1> SUFFICES ASSUME RiskInv, Age PROVE RiskInv'
  OBVIOUS
<1>1. /\ RiskRows /\ KnownInv /\ FreshInv /\ CoveredInv /\ aged < Len(events) /\ aged' = aged + 1
      /\ aged \in 0 .. Len(events) /\ Len(events) \in Nat
      /\ UNCHANGED <<events, baseline, task, drifted>>
  BY SeenKnown DEF RiskInv, RiskRows, Age
<1>2. RiskRows'
  BY <1>1 DEF RiskRows
<1>3. ToSet(Seen') \subseteq ToSet(Seen)
  <2>1. ToSet(Seen) = {events[i] : i \in aged + 1 .. Len(events)}
    BY <1>1, SeenKnown
  <2>2. ToSet(Seen') = {events[i] : i \in (aged + 1) + 1 .. Len(events)}
    <3>1. events \in Seq(Device) /\ aged + 1 \in 0 .. Len(events)
      BY <1>1 DEF RiskRows
    <3>2. ToSet(SubSeq(events, (aged + 1) + 1, Len(events)))
            = {events[i] : i \in (aged + 1) + 1 .. Len(events)}
      BY <3>1, SeenEntries
    <3>3. Seen' = SubSeq(events, (aged + 1) + 1, Len(events))
      BY <1>1 DEF Seen
    <3>4. QED
      BY <3>2, <3>3
  <2>3. QED
    BY <1>1, <2>1, <2>2
<1>4. KnownInv'
  BY <1>1 DEF KnownInv
<1>5. FreshInv'
  BY <1>1, <1>3 DEF FreshInv
<1>6. CoveredInv'
  BY <1>1, <1>3 DEF CoveredInv
<1>7. QED
  BY <1>2, <1>4, <1>5, <1>6 DEF RiskInv

LEMMA RiskInitHolds == RiskInit => RiskInv
<1> SUFFICES ASSUME RiskInit PROVE RiskInv
  OBVIOUS
<1>1. /\ events = <<>> /\ Len(events) = 0 /\ events \in Seq(Device)
      /\ \A t \in Scored : task[t] = Waiting /\ task[t].step = "idle"
  BY EmptySeq DEF RiskInit, Waiting
<1>2. baseline \in Base /\ baseline.usual = <<>>
  <2>1. IsInjective(<<>>)
    BY DEF IsInjective
  <2>2. QED
    BY <1>1, <2>1, CapAssumption DEF RiskInit, Base
<1>3. RiskRows
  <2>1. aged \in 0 .. Len(events) /\ Len(events) <= MaxEvents
    BY <1>1, CapAssumption DEF RiskInit
  <2>2. task \in [Scored -> TaskRow]
    BY DEF RiskInit, TaskRow
  <2>3. drifted \in BOOLEAN
    BY DEF RiskInit
  <2>4. QED
    BY <1>1, <1>2, <2>1, <2>2, <2>3 DEF RiskRows
<1>4. ToSet(events) = {}
  BY <1>1 DEF ToSet
<1>5. ToSet(Seen) = {}
  BY <1>3, <1>4, SeenKnown
<1>6. KnownInv /\ FreshInv
  BY <1>1, <1>2, <1>4 DEF KnownInv, FreshInv
<1>7. CoveredInv
  BY <1>5 DEF CoveredInv
<1>8. QED
  BY <1>3, <1>6, <1>7 DEF RiskInv

LEMMA RiskNextKeeps == RiskInv /\ [RiskNext]_riskVars => RiskInv'
<1> SUFFICES ASSUME RiskInv, [RiskNext]_riskVars PROVE RiskInv'
  OBVIOUS
<1>1. CASE UNCHANGED riskVars
  BY <1>1 DEF riskVars, RiskInv, RiskRows, KnownInv, FreshInv, CoveredInv, Seen
<1>2. ASSUME NEW t \in Scored, NEW d \in Device, RecordSuccess(t, d) PROVE RiskInv'
  BY <1>2, RecordSuccessKeeps
<1>3. ASSUME NEW t \in Scored,
             \/ ReadBaseline(t) \/ WriteBaseline(t) \/ LoseUpdate(t)
             \/ BeginRecompute(t) \/ EndRecompute(t) \/ StopRecompute(t)
      PROVE  RiskInv'
  BY <1>3, ReadBaselineKeeps, WriteBaselineKeeps, LoseUpdateKeeps, BeginRecomputeKeeps,
     EndRecomputeKeeps, StopRecomputeKeeps
<1>4. CASE Age
  BY <1>4, AgeKeeps
<1>5. QED
  BY <1>1, <1>2, <1>3, <1>4 DEF RiskNext

(* The invariant of the risk engine: a read that nothing overtook is still the truth, and     *)
(* what was not lost is on its way into the baseline.                                         *)
THEOREM RiskInvHolds == RiskSpec => []RiskInv
<1>1. QED
  BY RiskInitHolds, RiskNextKeeps, PTL DEF RiskSpec

(* Whatever sign-ins and recomputations overlap: the baseline lists no device that was not    *)
(* used, and when nothing is under way and nothing was lost it lists all the look-back sees.  *)
THEOREM BaselineHoldsTheorem == RiskSpec => []BaselineHolds
<1>1. RiskInv => BaselineHolds
  <2> SUFFICES ASSUME RiskInv PROVE BaselineHolds
    OBVIOUS
  <2>1. NothingInvented
    BY DEF RiskInv, KnownInv, NothingInvented
  <2>2. BaselineKnowsDevices
    BY DEF RiskInv, CoveredInv, BaselineKnowsDevices, Waiting
  <2>3. QED
    BY <2>1, <2>2 DEF BaselineHolds
<1>2. QED
  BY <1>1, RiskInvHolds, PTL

(* A baseline that the invariant describes has its types.                                      *)
LEMMA RiskTyped == RiskInv => RiskTypeOK
<1> SUFFICES ASSUME RiskInv PROVE RiskTypeOK
  OBVIOUS
<1>1. RiskRows /\ ListCap \in Nat /\ MaxEvents \in Nat
  BY CapAssumption DEF RiskInv
<1>2. /\ \A s : s \in Seq(Device) /\ Len(s) <= ListCap => s \in BoundedSeq(Device, ListCap)
      /\ \A s : s \in Seq(Device) /\ Len(s) <= MaxEvents => s \in BoundedSeq(Device, MaxEvents)
  BY <1>1, ShortSequences
<1>3. /\ baseline.usual \in Seq(Device) /\ Len(baseline.usual) <= ListCap
      /\ IsInjective(baseline.usual) /\ baseline.count \in Nat
  BY <1>1 DEF RiskRows, Base
<1>4. \A t \in Scored : task[t].step \in {"idle", "recorded", "merging", "recompute"}
  BY <1>1 DEF RiskRows, TaskRow, Waiting
<1>5. QED
  BY <1>1, <1>2, <1>3, <1>4 DEF RiskTypeOK, RiskRows
================================================================================
