----------------------------- MODULE AuthAccount -----------------------------
(* One password account of the identity provider: login with its lockout, the    *)
(* tokens a login mints, the four ways to change a password, e-mail verification *)
(* and the request to delete the account.                                         *)
(*                                                                                *)
(* A Call is one HTTP request; a step is one SQL statement and the synchronous    *)
(* code around it.  A row (token, reset link, verification mail, deletion request)*)
(* is named by the call that inserted it.  Second factors are SecondFactor's and  *)
(* captchas Captcha's: here the answer of a factor is a free choice.  Bans revoke *)
(* tokens in OAuthTokens; here they only close the account.                       *)
EXTENDS Naturals, Sequences, SequencesExt, FiniteSets

CONSTANTS Call,         \* HTTP requests
          Password,     \* passwords that pass the character rules of the policy
          NoPassword,   \* no password
          MaxFailed,    \* SECURITY_CONFIG.maxFailedAttempts
          HistoryCount, \* history_count of the tenant's password policy
          AccountCases, \* sets of operations; a behaviour exercises one of them
          MaxDead       \* bound on the calls whose process dies or whose statement throws

ASSUME PasswordAssumption == NoPassword \notin Password
ASSUME AccountBoundAssumption == {MaxFailed, HistoryCount} \subseteq Nat \ {0}

VARIABLES
  accountCase, \* the operations of this behaviour
  user,        \* the row of users; pw = NoPassword means there is none
  enrolled,    \* the user has an active factor other than recovery codes
  trusted,     \* trusted_devices has a row for the caller's fingerprint
  history,     \* password_history, newest first
  ins,         \* the rows each call has inserted
  my,          \* each call's next step and local variables
  dead,        \* calls that will take no further step
  straddled,   \* history: a revocation ran between a call's check and its tokens
  attempts,    \* history: what happened to the lockout counter
  renewals     \* history: what each refresh token was exchanged for

accountVars == <<accountCase, user, enrolled, trusted, history, ins, my, dead, straddled, attempts,
                 renewals>>
choice == <<accountCase, enrolled>>
seen == <<straddled, attempts, renewals>>

MaybePassword == Password \cup {NoPassword}
UserRow == [pw : MaybePassword, failed : Nat, locked : BOOLEAN, verified : BOOLEAN,
            admin : BOOLEAN, active : BOOLEAN, must : BOOLEAN, aged : BOOLEAN]
NoUser == [pw |-> NoPassword, failed |-> 0, locked |-> FALSE, verified |-> FALSE,
           admin |-> FALSE, active |-> TRUE, must |-> FALSE, aged |-> FALSE]
TokenState == {"none", "live", "revoked"}
LinkState == {"none", "unused", "used", "expired"}
NoRows == [access |-> "none", refresh |-> "none", reset |-> "none", mail |-> "none",
           deletion |-> "none", mfa |-> FALSE]
(* Ways to change a password: with a reset link; signed in; not signed in, because *)
(* it expired; signed in, because the initial one must be replaced.                *)
Ways == {"reset", "change", "expired", "forced"}
Hows == Ways \cup {"login", "renew"}
ChangeSteps == {"update", "mark", "record", "prune", "refreshOff", "accessOff"}
(* Past the password, on the way to tokens.                                          *)
TokenSteps == {"gates", "device", "stepUp", "factor", "access", "session", "spend", "refresh"}
Steps == {"idle", "check", "welcome", "tidy", "mail", "open", "verify", "demand", "cancel", "done"}
         \cup TokenSteps \cup ChangeSteps
Fresh(c) == [at |-> "idle", got |-> NoUser, link |-> c, how |-> "login",
             proved |-> NoPassword, new |-> NoPassword]

AccountTypeOK ==
  /\ user \in UserRow
  /\ enrolled \in BOOLEAN /\ trusted \in BOOLEAN
  /\ history \in Seq(Password)
  /\ ins \in [Call -> [access : TokenState, refresh : TokenState, reset : LinkState,
                       mail : LinkState, deletion : {"none", "pending", "cancelled"},
                       mfa : BOOLEAN]]
  /\ my \in [Call -> [at : Steps, got : UserRow, link : Call, how : Hows,
                      proved : MaybePassword, new : MaybePassword]]
  /\ dead \subseteq Call
  /\ straddled \in [Call -> BOOLEAN]
  /\ attempts \in [wrong : Nat, overlapped : BOOLEAN, lapsed : BOOLEAN]
  /\ renewals \in [Call -> [minted : Nat, overlapped : BOOLEAN]]

(* The account exists before a behaviour unless the behaviour registers it; an     *)
(* administrator's POST /users writes no history, the registration does.            *)
AccountInit ==
  /\ accountCase \in AccountCases
  /\ \E p \in Password, v, m \in BOOLEAN :
       user = IF "register" \in accountCase THEN NoUser
              ELSE [NoUser EXCEPT !.pw = p, !.verified = v \/ "mail" \notin accountCase,
                                  !.must = m /\ "forced" \in accountCase]
  /\ enrolled \in IF "mfa" \in accountCase THEN BOOLEAN ELSE {FALSE}
  /\ trusted = FALSE
  /\ history \in IF "register" \in accountCase THEN {<<>>} ELSE {<<>>, <<user.pw>>}
  /\ ins = [c \in Call |-> NoRows]
  /\ my = [c \in Call |-> Fresh(c)]
  /\ dead = {}
  /\ straddled = [c \in Call |-> FALSE]
  /\ attempts = [wrong |-> 0, overlapped |-> FALSE, lapsed |-> FALSE]
  /\ renewals = [c \in Call |-> [minted |-> 0, overlapped |-> FALSE]]

Exists == user.pw # NoPassword
Does(op) == op \in accountCase
At(c, step) == my[c].at = step /\ c \notin dead
Go(c, step) == my' = [my EXCEPT ![c].at = step]
(* The response is sent: the locals are gone, but not what the call had proved.    *)
End(c) == my' = [my EXCEPT ![c] = [Fresh(c) EXCEPT !.at = "done", !.proved = my[c].proved]]
(* authenticateToken: a live access token of an account that is open.              *)
SignedIn == Exists /\ user.active /\ \E c \in Call : ins[c].access = "live"

-----------------------------------------------------------------------------
(* Login *)

(* Logins that have read the user row and not yet counted the attempt.             *)
Reading == {c \in Call : my[c].at = "check"}

(* POST /login up to the comparison: the early answers and the row it goes on with. *)
LoginRead(c, p) ==
  /\ Does("login") /\ At(c, "idle")
  /\ IF Exists /\ user.active /\ ~user.locked
       THEN /\ my' = [my EXCEPT ![c].at = "check", ![c].got = user, ![c].proved = p]
            /\ attempts' = [attempts EXCEPT !.overlapped = @ \/ Reading # {}]
       ELSE my' = [my EXCEPT ![c].at = "done"] /\ UNCHANGED attempts
  /\ UNCHANGED <<choice, user, trusted, history, ins, dead, straddled, renewals>>

(* A wrong password: the count of the row that was read, plus one.                  *)
CountFailure(c) ==
  /\ At(c, "check") /\ my[c].proved # my[c].got.pw
  /\ LET n == my[c].got.failed + 1
     IN  user' = [user EXCEPT !.failed = n, !.locked = @ \/ n >= MaxFailed]
  /\ attempts' = [attempts EXCEPT !.wrong = @ + 1]
  /\ End(c)
  /\ UNCHANGED <<choice, trusted, history, ins, dead, straddled, renewals>>

(* The right password: counter and lock are cleared before the other conditions    *)
(* are looked at.                                                                   *)
ClearFailures(c) ==
  /\ At(c, "check") /\ my[c].proved = my[c].got.pw
  /\ user' = [user EXCEPT !.failed = 0, !.locked = FALSE]
  /\ attempts' = [attempts EXCEPT !.wrong = 0, !.lapsed = FALSE]
  /\ Go(c, "gates")
  /\ UNCHANGED <<choice, trusted, history, ins, dead, straddled, renewals>>

Admitted(c) ==
  /\ my[c].got.verified \/ my[c].got.admin
  /\ \A d \in Call : ins[d].deletion # "pending"
  /\ ~my[c].got.must /\ ~my[c].got.aged

(* The gates after the password, on the row read before it and the deletion request *)
(* read now.  The verdict of the risk engine is a free choice: it may always deny,   *)
(* and a step-up ignores the trusted device.                                         *)
Gates(c) ==
  /\ At(c, "gates")
  /\ \/ End(c)
     \/ Admitted(c) /\ \E verdict \in {"device", "stepUp"} : Go(c, verdict)
  /\ UNCHANGED <<choice, user, trusted, history, ins, dead, seen>>

(* The factors and the trusted device: tokens, or the mfa_token that asks for one.   *)
AskFactor(c) ==
  /\ At(c, "device") \/ At(c, "stepUp")
  /\ IF enrolled /\ (At(c, "stepUp") \/ ~trusted)
       THEN ins' = [ins EXCEPT ![c].mfa = TRUE] /\ End(c)
       ELSE Go(c, "access") /\ UNCHANGED ins
  /\ UNCHANGED <<choice, user, trusted, history, dead, seen>>

(* POST /mfa/verify with the mfa_token of login l: the user row is read again and    *)
(* only is_active looked at.                                                         *)
MfaVerify(c, l) ==
  /\ Does("mfa") /\ At(c, "idle") /\ ins[l].mfa
  /\ IF user.active
       THEN /\ my' = [my EXCEPT ![c].at = "factor", ![c].proved = my[l].proved]
            /\ straddled' = [straddled EXCEPT ![c] = straddled[l]]
       ELSE my' = [my EXCEPT ![c].at = "done"] /\ UNCHANGED straddled
  /\ UNCHANGED <<choice, user, trusted, history, ins, dead, attempts, renewals>>

(* The factor's answer, SecondFactor's business: right or wrong.                     *)
JudgeFactor(c) ==
  /\ At(c, "factor")
  /\ Go(c, "access") \/ End(c)
  /\ UNCHANGED <<choice, user, trusted, history, ins, dead, seen>>

(* completeLogin: three inserts, and the trusted device between them on request.     *)
InsertAccess(c) ==
  /\ At(c, "access")
  /\ ins' = [ins EXCEPT ![c].access = "live"]
  /\ Go(c, IF my[c].how = "renew" THEN "spend" ELSE "session")
  /\ UNCHANGED <<choice, user, trusted, history, dead, seen>>

OpenSession(c) ==
  /\ At(c, "session") /\ my[c].how # "renew"
  /\ trusted' \in {trusted, enrolled \/ trusted}
  /\ Go(c, "refresh")
  /\ UNCHANGED <<choice, user, history, ins, dead, seen>>

InsertRefresh(c) ==
  /\ At(c, "refresh")
  /\ ins' = [ins EXCEPT ![c].refresh = "live"]
  /\ renewals' = IF my[c].how = "renew" THEN [renewals EXCEPT ![my[c].link].minted = @ + 1]
                                        ELSE renewals
  /\ End(c)
  /\ UNCHANGED <<choice, user, trusted, history, dead, straddled, attempts>>

(* A federated login mints the same rows; it looks neither at mustChangePassword nor  *)
(* at the password's age.                                                            *)
FederatedSignIn(c) ==
  /\ Does("federated") /\ At(c, "idle") /\ Exists
  /\ Go(c, "access")
  /\ UNCHANGED <<choice, user, trusted, history, ins, dead, seen>>

(* POST /refresh: the token and the user are read, then an access token inserted, the *)
(* refresh token marked revoked whatever it is by now, and a new one inserted.        *)
Renewing(l) == {c \in Call : my[c].how = "renew" /\ my[c].link = l}

RenewRead(c, l) ==
  /\ Does("renew") /\ At(c, "idle")
  /\ ins[l].refresh = "live" /\ user.active /\ ~user.must /\ ~user.aged
  /\ my' = [my EXCEPT ![c].at = "access", ![c].how = "renew", ![c].link = l,
                      ![c].proved = my[l].proved]
  /\ straddled' = [straddled EXCEPT ![c] = straddled[l]]
  /\ renewals' = [renewals EXCEPT ![l].overlapped = @ \/ Renewing(l) # {}]
  /\ UNCHANGED <<choice, user, trusted, history, ins, dead, attempts>>

Spend(c) ==
  /\ At(c, "spend")
  /\ ins' = [ins EXCEPT ![my[c].link].refresh = "revoked"]
  /\ Go(c, "refresh")
  /\ UNCHANGED <<choice, user, trusted, history, dead, seen>>

(* DELETE /trusted-devices/:id, and the expiry of the row.                           *)
ForgetDevice ==
  /\ trusted
  /\ trusted' = FALSE
  /\ UNCHANGED <<choice, user, history, ins, my, dead, seen>>

-----------------------------------------------------------------------------
(* Passwords *)

(* POST /password/reset-request, and an administrator's POST /reset-password.        *)
RequestReset(c) ==
  /\ Does("reset") /\ At(c, "idle") /\ Exists
  /\ ins' = [ins EXCEPT ![c].reset = "unused"]
  /\ End(c)
  /\ UNCHANGED <<choice, user, trusted, history, dead, seen>>

(* The rows validatePassword compares with and recordPasswordHistory keeps.           *)
NewestPasswords == SubSeq(history, 1, IF Len(history) < HistoryCount THEN Len(history) ELSE HistoryCount)

(* What a change demands of the caller: an unused link, the current password, or    *)
(* that one and a flag of the row.                                                   *)
MayChange(way, l, p) ==
  CASE way = "reset"   -> ins[l].reset = "unused"
    [] way = "change"  -> SignedIn /\ p = user.pw
    [] way = "expired" -> Exists /\ p = user.pw /\ (user.must \/ user.aged)
    [] way = "forced"  -> SignedIn /\ p = user.pw /\ user.must

(* The reads of a change, validatePassword's of the history included.                *)
BeginChange(c, way, l, p, q) ==
  /\ Does(way) /\ At(c, "idle")
  /\ way \in Ways
  /\ MayChange(way, l, p)
  /\ way = "reset" \/ l = c
  /\ way # "reset" \/ p = NoPassword
  /\ q \notin ToSet(NewestPasswords)
  /\ way = "forced" => q # p
  /\ my' = [my EXCEPT ![c].at = "update", ![c].link = l, ![c].how = way, ![c].new = q]
  /\ UNCHANGED <<choice, user, trusted, history, ins, dead, seen>>

(* UPDATE users; two of the ways clear the flag mustChangePassword.                  *)
UpdatePassword(c) ==
  /\ At(c, "update")
  /\ user' = [user EXCEPT !.pw = my[c].new, !.aged = FALSE,
                          !.must = @ /\ my[c].how \notin {"expired", "forced"}]
  /\ Go(c, IF my[c].how = "reset" THEN "mark" ELSE "record")
  /\ UNCHANGED <<choice, trusted, history, ins, dead, seen>>

MarkResetUsed(c) ==
  /\ At(c, "mark")
  /\ ins' = [ins EXCEPT ![my[c].link].reset = "used"]
  /\ Go(c, "record")
  /\ UNCHANGED <<choice, user, trusted, history, dead, seen>>

(* recordPasswordHistory, after a change and in a registration: an insert, then the   *)
(* deletion of all but the newest HistoryCount rows.                                  *)
RecordHistory(c) ==
  /\ At(c, "record") \/ At(c, "welcome")
  /\ history' = <<my[c].new>> \o history
  /\ Go(c, IF At(c, "record") THEN "prune" ELSE "tidy")
  /\ UNCHANGED <<choice, user, trusted, ins, dead, seen>>

PruneHistory(c) ==
  /\ At(c, "prune") \/ At(c, "tidy")
  /\ history' = NewestPasswords
  /\ Go(c, IF At(c, "tidy") THEN "mail"
           ELSE IF my[c].how = "change" THEN "accessOff" ELSE "refreshOff")
  /\ UNCHANGED <<choice, user, trusted, ins, dead, seen>>

Revoke(kind, spared) ==
  ins' = [d \in Call |-> IF ins[d][kind] = "live" /\ d \notin spared
                         THEN [ins[d] EXCEPT ![kind] = "revoked"] ELSE ins[d]]

(* Between its check and its tokens: a login, one that waits for its factor, a renewal. *)
InFlight(c) ==
  my[c].at \in TokenSteps \cup {"check"} \/ ins[c].mfa

(* Mutant: a reset leaves the refresh tokens alone.                                   *)
RevokeUnlessReset(c) ==
  /\ At(c, "refreshOff")
  /\ IF my[c].how = "reset" THEN UNCHANGED ins ELSE Revoke("refresh", {})
  /\ straddled' = [d \in Call |-> straddled[d] \/ InFlight(d)]
  /\ IF my[c].how \in {"expired", "forced"} THEN Go(c, "accessOff") ELSE End(c)
  /\ UNCHANGED <<choice, user, trusted, history, dead, attempts, renewals>>

(* UPDATE refresh_tokens SET revoked.  A reset stops here: it revokes no access token. *)
RevokeRefresh(c) ==
  /\ At(c, "refreshOff")
  /\ Revoke("refresh", {})
  /\ straddled' = [d \in Call |-> straddled[d] \/ InFlight(d)]
  /\ IF my[c].how \in {"expired", "forced"} THEN Go(c, "accessOff") ELSE End(c)
  /\ UNCHANGED <<choice, user, trusted, history, dead, attempts, renewals>>

(* revokeOtherUserTokens spares the caller's own access token.                         *)
RevokeAccess(c) ==
  /\ At(c, "accessOff")
  /\ \E own \in IF my[c].how = "change" THEN {{d} : d \in Call} ELSE {{}} : Revoke("access", own)
  /\ IF my[c].how = "change" THEN Go(c, "refreshOff") ELSE End(c)
  /\ UNCHANGED <<choice, user, trusted, history, dead, seen>>

-----------------------------------------------------------------------------
(* Registration, e-mail verification, deletion *)

(* POST /register: the user, its history, the mail; the name is taken only once.      *)
Register(c, p) ==
  /\ Does("register") /\ At(c, "idle")
  /\ IF Exists THEN End(c) /\ UNCHANGED user
     ELSE /\ user' = [NoUser EXCEPT !.pw = p]
          /\ my' = [my EXCEPT ![c].at = "welcome", ![c].new = p]
  /\ UNCHANGED <<choice, trusted, history, ins, dead, seen>>

(* POST /email/resend and /resend-public read that the address is not verified.        *)
Resend(c) ==
  /\ Does("mail") /\ At(c, "idle") /\ Exists /\ ~user.verified
  /\ Go(c, "mail")
  /\ UNCHANGED <<choice, user, trusted, history, ins, dead, seen>>

InsertMail(c) ==
  /\ At(c, "mail")
  /\ ins' = [ins EXCEPT ![c].mail = "unused"]
  /\ End(c)
  /\ UNCHANGED <<choice, user, trusted, history, dead, seen>>

(* POST /email/verify reads the mail, marks it, then marks the user.                    *)
FindMail(c, l) ==
  /\ Does("mail") /\ At(c, "idle") /\ ins[l].mail = "unused"
  /\ my' = [my EXCEPT ![c].at = "open", ![c].link = l]
  /\ UNCHANGED <<choice, user, trusted, history, ins, dead, seen>>

OpenMail(c) ==
  /\ At(c, "open")
  /\ ins' = [ins EXCEPT ![my[c].link].mail = "used"]
  /\ Go(c, "verify")
  /\ UNCHANGED <<choice, user, trusted, history, dead, seen>>

MarkVerified(c) ==
  /\ At(c, "verify")
  /\ user' = [user EXCEPT !.verified = TRUE]
  /\ End(c)
  /\ UNCHANGED <<choice, trusted, history, ins, dead, seen>>

(* POST and DELETE /account/delete-request, each a read and a write.                   *)
AskDeletion(c) ==
  /\ Does("deletion") /\ At(c, "idle") /\ SignedIn
  /\ \A d \in Call : ins[d].deletion # "pending"
  /\ Go(c, "demand")
  /\ UNCHANGED <<choice, user, trusted, history, ins, dead, seen>>

(* user_id is unique: a request that was cancelled keeps every later one out.         *)
InsertDeletion(c) ==
  /\ At(c, "demand")
  /\ ins' = IF \E d \in Call : ins[d].deletion # "none" THEN ins
                                                       ELSE [ins EXCEPT ![c].deletion = "pending"]
  /\ End(c)
  /\ UNCHANGED <<choice, user, trusted, history, dead, seen>>

FindDeletion(c, l) ==
  /\ Does("deletion") /\ At(c, "idle") /\ SignedIn /\ ins[l].deletion = "pending"
  /\ my' = [my EXCEPT ![c].at = "cancel", ![c].link = l]
  /\ UNCHANGED <<choice, user, trusted, history, ins, dead, seen>>

CancelDeletion(c) ==
  /\ At(c, "cancel")
  /\ ins' = [ins EXCEPT ![my[c].link].deletion = "cancelled"]
  /\ End(c)
  /\ UNCHANGED <<choice, user, trusted, history, dead, seen>>

-----------------------------------------------------------------------------
(* Administrators, time and faults *)

(* PUT /users/:userId: an administrator's address counts as verified.                  *)
AdminUpdate(c) ==
  /\ Does("admin") /\ At(c, "idle") /\ Exists
  /\ \E a, on \in BOOLEAN :
       user' = [user EXCEPT !.admin = a, !.verified = @ \/ a, !.active = on]
  /\ End(c)
  /\ UNCHANGED <<choice, trusted, history, ins, dead, seen>>

LockLapses ==
  /\ user.locked
  /\ user' = [user EXCEPT !.locked = FALSE]
  /\ attempts' = [attempts EXCEPT !.lapsed = TRUE]
  /\ UNCHANGED <<choice, trusted, history, ins, my, dead, straddled, renewals>>

PasswordAges ==
  /\ Does("expired") /\ Exists /\ ~user.aged
  /\ user' = [user EXCEPT !.aged = TRUE]
  /\ UNCHANGED <<choice, trusted, history, ins, my, dead, seen>>

(* A reset link, a mail or an mfa_token runs out.                                      *)
LinkExpires(c) ==
  /\ \/ ins[c].reset = "unused" /\ ins' = [ins EXCEPT ![c].reset = "expired"]
     \/ ins[c].mail = "unused" /\ ins' = [ins EXCEPT ![c].mail = "expired"]
     \/ ins[c].mfa /\ ins' = [ins EXCEPT ![c].mfa = FALSE]
  /\ UNCHANGED <<choice, user, trusted, history, my, dead, seen>>

(* The process dies, or a statement throws: nothing is rolled back.                    *)
Die(c) ==
  /\ my[c].at \notin {"idle", "done"} /\ c \notin dead /\ Cardinality(dead) < MaxDead
  /\ dead' = dead \cup {c}
  /\ UNCHANGED <<choice, user, trusted, history, ins, my, seen>>

AccountNext ==
  \/ \E c \in Call :
       \/ \E p \in Password : LoginRead(c, p) \/ Register(c, p)
       \/ FederatedSignIn(c) \/ Spend(c) \/ \E l \in Call : RenewRead(c, l)
       \/ CountFailure(c) \/ ClearFailures(c) \/ Gates(c) \/ AskFactor(c) \/ JudgeFactor(c)
       \/ InsertAccess(c) \/ OpenSession(c) \/ InsertRefresh(c)
       \/ \E l \in Call : MfaVerify(c, l) \/ FindMail(c, l) \/ FindDeletion(c, l)
       \/ \E way \in Ways, l \in Call, p \in MaybePassword, q \in Password :
            BeginChange(c, way, l, p, q)
       \/ RequestReset(c) \/ UpdatePassword(c) \/ MarkResetUsed(c) \/ RecordHistory(c) \/ PruneHistory(c)
       \/ RevokeRefresh(c) \/ RevokeAccess(c)
       \/ OpenMail(c) \/ Resend(c) \/ InsertMail(c) \/ MarkVerified(c)
       \/ AskDeletion(c) \/ InsertDeletion(c) \/ CancelDeletion(c)
       \/ AdminUpdate(c) \/ LinkExpires(c) \/ Die(c)
  \/ ForgetDevice \/ LockLapses \/ PasswordAges

AccountSpec == AccountInit /\ [][AccountNext]_accountVars

-----------------------------------------------------------------------------
(* A change that has written the new password and not yet revoked refresh tokens.     *)
Revoking(c) == \/ my[c].at \in {"mark", "record", "prune", "refreshOff"}
               \/ my[c].at = "accessOff" /\ my[c].how = "change"

(* After a password change nothing that the old password obtained refreshes: a live   *)
(* refresh token won with another password than the current one, at a login or by     *)
(* renewals of such a token, belongs to a call that was under way, or held an          *)
(* mfa_token, when tokens were revoked; or the change still has to revoke them, or     *)
(* died before it did.                                                                *)
OldPasswordLeavesNothing ==
  \A c \in Call : ins[c].refresh = "live" /\ my[c].proved \notin {user.pw, NoPassword}
                  => straddled[c] \/ \E d \in Call : Revoking(d)

(* failedLoginAttempts is read with the row and written after bcrypt: as long as no    *)
(* two logins do so at once it is the number of wrong passwords since the last right   *)
(* one, and MaxFailed of them lock the account until the lock runs out.                *)
LockoutCounts ==
  ~attempts.overlapped => /\ user.failed = attempts.wrong
                          /\ attempts.wrong >= MaxFailed => user.locked \/ attempts.lapsed

(* The UPDATE that spends a refresh token is not conditional on revoked = false: a    *)
(* token is exchanged for two only by renewals that were under way together.          *)
RenewedOnce == \A l \in Call : renewals[l].overlapped \/ renewals[l].minted <= 1

(* The account through all of its requests: passwords, lockout and login sessions.    *)
AccountHolds == OldPasswordLeavesNothing /\ LockoutCounts /\ RenewedOnce
=============================================================================
