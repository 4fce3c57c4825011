---------------------------- MODULE SecondFactor ----------------------------
(* The second factors of one user: enrolment, one-time codes sent by e-mail or SMS, *)
(* WebAuthn challenges, recovery codes, and the backfill of the authenticator        *)
(* secrets that predate the table mfa_factors.                                        *)
(*                                                                                    *)
(* A Job is one HTTP request, or the start of a replica.  What a factor checks (a     *)
(* digest, a signature) is the caller's choice right or wrong.  Which logins may ask  *)
(* for a factor is AuthAccount's.                                                      *)
EXTENDS Naturals, Sequences, FiniteSets

CONSTANTS Job,          \* requests and starts
          Factor,       \* rows of mfa_factors other than recovery codes
          RecoveryCode, \* codes generateRecoveryCode may draw
          MaxAttempts,  \* MFA_CONFIG.otpMaxAttempts
          BatchSize,    \* MFA_CONFIG.recoveryCodeCount
          MaxSent,      \* bound on the challenges of a factor
          FactorCases   \* sets of operations; a behaviour exercises one of them

ASSUME FactorAssumption == {MaxAttempts, BatchSize, MaxSent} \subseteq Nat \ {0}
ASSUME SomeFactorAssumption == Factor # {} /\ RecoveryCode # {}

VARIABLES
  factorCase, \* the operations of this behaviour
  kind,       \* type of each factor; e-mail and SMS are alike
  status,     \* mfa_factors.status; "none": no such row
  sent,       \* mfa_challenges of each factor, oldest first
  recovery,   \* the recovery code's row; "spent": not drawn again
  legacy,     \* users.otp_enabled and otp_secret are set
  local,      \* next step and local variables of each job
  batch,      \* history: the job that drew each recovery code, and its acceptances
  mixed       \* history: two generations of recovery codes overlapped

factorVars == <<factorCase, kind, status, sent, recovery, legacy, local, batch, mixed>>

Challenge == [attempts : Nat, open : BOOLEAN, accepted : Nat, wrong : Nat, raced : BOOLEAN]
Sent == [attempts |-> 0, open |-> TRUE, accepted |-> 0, wrong |-> 0, raced |-> FALSE]
Progress == [at : {"idle", "send", "judge", "activate", "mark", "delete", "insert", "migrate", "done"},
          f : Factor, n : Nat, attempts : Nat, setup : BOOLEAN, k : RecoveryCode,
          saw : {"pending", "active", "disabled"}]
Nothing == [at |-> "idle", f |-> CHOOSE f \in Factor : TRUE, n |-> 0, attempts |-> 0,
            setup |-> FALSE, k |-> CHOOSE k \in RecoveryCode : TRUE, saw |-> "pending"]

FactorTypeOK ==
  /\ kind \in [Factor -> {"totp", "otp", "webauthn"}]
  /\ status \in [Factor -> {"none", "pending", "active", "disabled"}]
  /\ sent \in [Factor -> Seq(Challenge)] /\ \A f \in Factor : Len(sent[f]) <= MaxSent
  /\ recovery \in [RecoveryCode -> {"none", "active", "used", "deleted"}]
  /\ legacy \in BOOLEAN /\ mixed \in BOOLEAN
  /\ local \in [Job -> Progress]
  /\ batch \in [RecoveryCode -> [by : Job \cup {"none"}, accepted : Nat, raced : BOOLEAN]]

FactorInit ==
  /\ factorCase \in FactorCases
  /\ kind \in [Factor -> {"totp", "otp", "webauthn"} \cap factorCase]
  /\ status \in [Factor -> {"none", "active"}]
  /\ sent = [f \in Factor |-> <<>>]
  /\ recovery = [k \in RecoveryCode |-> "none"]
  /\ legacy \in IF "totp" \in factorCase THEN BOOLEAN ELSE {FALSE}
  /\ local = [j \in Job |-> Nothing]
  /\ batch = [k \in RecoveryCode |-> [by |-> "none", accepted |-> 0, raced |-> FALSE]]
  /\ mixed = FALSE

Is(j, step) == local[j].at = step
Then(j, step) == local' = [local EXCEPT ![j].at = step]
Finished(j) == local' = [local EXCEPT ![j] = [Nothing EXCEPT !.at = "done"]]
fixed == <<factorCase, kind, legacy>>
codes == <<recovery, batch, mixed>>

-----------------------------------------------------------------------------
(* Enrolment and challenges *)

(* begin...Setup: a pending row, and a challenge unless the type needs none.           *)
Enrol(j, f) ==
  /\ Is(j, "idle") /\ status[f] = "none"
  /\ status' = [status EXCEPT ![f] = "pending"]
  /\ local' = [local EXCEPT ![j].at = IF kind[f] = "totp" THEN "done" ELSE "send", ![j].f = f]
  /\ UNCHANGED <<fixed, sent, codes>>

(* POST /mfa/challenge for an active factor.                                            *)
AskChallenge(j, f) ==
  /\ Is(j, "idle") /\ status[f] = "active" /\ kind[f] # "totp"
  /\ local' = [local EXCEPT ![j].at = "send", ![j].f = f]
  /\ UNCHANGED <<fixed, status, sent, codes>>

SendCode(j) ==
  /\ Is(j, "send") /\ Len(sent[local[j].f]) < MaxSent
  /\ sent' = [sent EXCEPT ![local[j].f] = Append(@, Sent)]
  /\ Finished(j)
  /\ UNCHANGED <<fixed, status, codes>>

(* Unconsumed and unexpired; the newest is the one a code is compared with.             *)
Open(f) == {n \in DOMAIN sent[f] : sent[f][n].open}
Judging(f, n) == {j \in Job : Is(j, "judge") /\ local[j].f = f /\ local[j].n = n}

(* Mutant: a confirmation takes the factor whatever its status.                          *)
EligibleAny(f, setup) == IF setup THEN status[f] # "none" ELSE status[f] = "active"

(* Where a challenge is looked for: a login needs an active factor, the confirmation    *)
(* of a code a pending one; the end of a WebAuthn registration any row.                 *)
Eligible(f, setup) ==
  IF ~setup THEN status[f] = "active"
  ELSE IF kind[f] = "webauthn" THEN status[f] # "none" ELSE status[f] = "pending"

(* The reads of verifyOtpChallenge, verifyWebauthnAuthentication and                     *)
(* finishWebauthnRegistration; only codes have a limit on attempts.                      *)
FindChallenge(j, f, setup) ==
  /\ Is(j, "idle") /\ kind[f] # "totp" /\ Eligible(f, setup) /\ Open(f) # {}
  /\ LET n == CHOOSE n \in Open(f) : \A m \in Open(f) : m <= n
     IN  /\ kind[f] = "otp" => sent[f][n].attempts < MaxAttempts
         /\ local' = [local EXCEPT ![j] = [Nothing EXCEPT !.at = "judge", !.f = f, !.n = n,
                                             !.attempts = sent[f][n].attempts, !.setup = setup,
                                             !.saw = status[f]]]
         /\ sent' = [sent EXCEPT ![f][n].raced = @ \/ Judging(f, n) # {}]
  /\ UNCHANGED <<fixed, status, codes>>

(* Mutant: the attempts are written back as they were read.                              *)
WrongUncounted(j) ==
  /\ Is(j, "judge")
  /\ sent' = IF kind[local[j].f] = "otp"
             THEN [sent EXCEPT ![local[j].f][local[j].n].attempts = local[j].attempts,
                              ![local[j].f][local[j].n].wrong = @ + 1]
             ELSE sent
  /\ Finished(j)
  /\ UNCHANGED <<fixed, status, codes>>

(* A wrong code: the attempts as they were read, plus one.                               *)
Wrong(j) ==
  /\ Is(j, "judge")
  /\ sent' = IF kind[local[j].f] = "otp"
             THEN [sent EXCEPT ![local[j].f][local[j].n].attempts = local[j].attempts + 1,
                              ![local[j].f][local[j].n].wrong = @ + 1]
             ELSE sent
  /\ Finished(j)
  /\ UNCHANGED <<fixed, status, codes>>

Right(j) ==
  /\ Is(j, "judge")
  /\ sent' = [sent EXCEPT ![local[j].f][local[j].n].open = FALSE,
                           ![local[j].f][local[j].n].accepted = @ + 1]
  /\ IF local[j].setup THEN Then(j, "activate") ELSE Finished(j)
  /\ UNCHANGED <<fixed, status, codes>>

(* confirmTotpSetup reads a pending row and compares the code.                          *)
ConfirmTotp(j, f) ==
  /\ Is(j, "idle") /\ kind[f] = "totp" /\ status[f] = "pending"
  /\ local' = [local EXCEPT ![j].at = "activate", ![j].f = f]
  /\ UNCHANGED <<fixed, status, sent, codes>>

(* The row becomes active whatever it is by now.                                         *)
Activate(j) ==
  /\ Is(j, "activate")
  /\ status' = [status EXCEPT ![local[j].f] = "active"]
  /\ Finished(j)
  /\ UNCHANGED <<fixed, sent, codes>>

DisableFactor(f) ==
  /\ status[f] \in {"pending", "active"}
  /\ status' = [status EXCEPT ![f] = "disabled"]
  /\ UNCHANGED <<fixed, sent, local, codes>>

ChallengeExpires(f) ==
  /\ \E n \in Open(f) : sent' = [sent EXCEPT ![f][n].open = FALSE]
  /\ UNCHANGED <<fixed, status, local, codes>>

-----------------------------------------------------------------------------
(* Recovery codes *)

Active == {k \in RecoveryCode : recovery[k] = "active"}
Generating == {j \in Job : Is(j, "delete") \/ Is(j, "insert")}

(* POST /recovery/generate asks for another active factor.                              *)
BeginGenerate(j) ==
  /\ "recovery" \in factorCase /\ Is(j, "idle") /\ \E f \in Factor : status[f] = "active"
  /\ Then(j, "delete")
  /\ mixed' = (mixed \/ Generating # {})
  /\ UNCHANGED <<fixed, status, sent, recovery, batch>>

(* Mutant: codes that were used are kept, and so are those that were not.               *)
DeleteUsed(j) ==
  /\ Is(j, "delete")
  /\ recovery' = [k \in RecoveryCode |-> IF recovery[k] = "used" THEN "deleted" ELSE recovery[k]]
  /\ Then(j, "insert")
  /\ UNCHANGED <<fixed, status, sent, batch, mixed>>

DeleteCodes(j) ==
  /\ Is(j, "delete")
  /\ recovery' = [k \in RecoveryCode |-> IF recovery[k] = "none" THEN "none" ELSE "deleted"]
  /\ Then(j, "insert")
  /\ UNCHANGED <<fixed, status, sent, batch, mixed>>

(* One INSERT per code.                                                                 *)
InsertCode(j, k) ==
  /\ Is(j, "insert") /\ recovery[k] = "none"
  /\ recovery' = [recovery EXCEPT ![k] = "active"]
  /\ batch' = [batch EXCEPT ![k].by = j]
  /\ local' = [local EXCEPT ![j].n = @ + 1,
                            ![j].at = IF local[j].n + 1 = BatchSize THEN "done" ELSE "insert"]
  /\ UNCHANGED <<fixed, status, sent, mixed>>

(* verifyRecoveryCode finds the active row, then marks it if it is still there.          *)
FindCode(j, k) ==
  /\ "recovery" \in factorCase /\ Is(j, "idle") /\ recovery[k] = "active"
  /\ local' = [local EXCEPT ![j].at = "mark", ![j].k = k]
  /\ batch' = [batch EXCEPT ![k].raced = @ \/ \E i \in Job : Is(i, "mark") /\ local[i].k = k]
  /\ UNCHANGED <<fixed, status, sent, recovery, mixed>>

MarkCode(j) ==
  /\ Is(j, "mark")
  /\ LET k == local[j].k
     IN  /\ recovery' = [recovery EXCEPT ![k] = IF @ = "deleted" THEN @ ELSE "used"]
         /\ batch' = [batch EXCEPT ![k].accepted = @ + 1]
  /\ Finished(j)
  /\ UNCHANGED <<fixed, status, sent, mixed>>

-----------------------------------------------------------------------------
(* migrateLegacyTotpFactors at the start of a replica: look for an active              *)
(* authenticator, insert one if there is none.                                          *)
BeginMigrate(j) ==
  /\ legacy /\ Is(j, "idle")
  /\ \A f \in Factor : ~(kind[f] = "totp" /\ status[f] = "active")
  /\ Then(j, "migrate")
  /\ UNCHANGED <<fixed, status, sent, codes>>

Migrate(j) ==
  /\ Is(j, "migrate")
  /\ \E f \in Factor : /\ kind[f] = "totp" /\ status[f] = "none"
                       /\ status' = [status EXCEPT ![f] = "active"]
  /\ Finished(j)
  /\ UNCHANGED <<fixed, sent, codes>>

(* The process dies or a statement throws.                                              *)
Break(j) ==
  /\ local[j].at \notin {"idle", "done"}
  /\ Finished(j)
  /\ UNCHANGED <<fixed, status, sent, codes>>

FactorNext ==
  \/ \E j \in Job, f \in Factor :
       \/ Enrol(j, f) \/ AskChallenge(j, f) \/ ConfirmTotp(j, f)
       \/ \E setup \in BOOLEAN : FindChallenge(j, f, setup)
  \/ \E j \in Job :
       \/ SendCode(j) \/ Wrong(j) \/ Right(j) \/ Activate(j)
       \/ BeginGenerate(j) \/ DeleteCodes(j) \/ MarkCode(j)
       \/ \E k \in RecoveryCode : InsertCode(j, k) \/ FindCode(j, k)
       \/ BeginMigrate(j) \/ Migrate(j) \/ Break(j)
  \/ \E f \in Factor : DisableFactor(f) \/ ChallengeExpires(f)

FactorSpec == FactorInit /\ [][FactorNext]_factorVars

-----------------------------------------------------------------------------
(* A challenge is read, judged and written back in separate statements, and so is a     *)
(* recovery code: as long as no two requests judge it at once, it is accepted once at    *)
(* most, and a code that was sent takes MaxAttempts wrong guesses and no right one       *)
(* after them.                                                                            *)
ChallengeHolds ==
  /\ \A f \in Factor, n \in 1..MaxSent :
       n \in DOMAIN sent[f] /\ ~sent[f][n].raced =>
         /\ sent[f][n].accepted <= 1
         /\ sent[f][n].wrong + sent[f][n].accepted <= MaxAttempts \/ kind[f] = "webauthn"
  /\ \A k \in RecoveryCode : batch[k].raced \/ batch[k].accepted <= 1

(* generateRecoveryCodes deletes and inserts without a transaction: unless two of them   *)
(* overlapped, the codes that are accepted all come from one generation.                 *)
OneBatch == mixed \/ \A k, l \in Active : batch[k].by = batch[l].by

(* Challenges and recovery codes together.                                                *)
FactorHolds == ChallengeHolds /\ OneBatch

(* A factor's status is read before its code is compared and written after: a disabled    *)
(* factor becomes active again only by a confirmation that found it pending, or by the    *)
(* end of a WebAuthn registration, which does not look at the status at all.              *)
DisabledStaysDisabled ==
  [][\A f \in Factor : status[f] = "disabled" /\ status'[f] # "disabled" =>
       \E j \in Job : /\ Is(j, "activate") /\ local[j].f = f
                      /\ kind[f] = "webauthn" \/ local[j].saw = "pending"]_factorVars
=============================================================================
