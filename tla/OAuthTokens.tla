---------------------------- MODULE OAuthTokens ----------------------------
(* The life of the tokens the identity provider issues to one user's clients:   *)
(* the authorization-code, refresh-token and device-code grants of the token     *)
(* endpoint, RFC 7009 revocation, RP-initiated logout, the administrator's ban,  *)
(* the SPA's own /api/auth/refresh and /api/auth/logout, and the cleanup job.    *)
(*                                                                                *)
(* Every HTTP request is a process.  One step of a request is one SQL statement   *)
(* together with the synchronous code up to the next await, so any two requests   *)
(* interleave wherever the event loop or a second replica can interleave them.    *)
(* A row is named by the request that inserted it (the code draws a random UUID): *)
(* code k, device code k, OIDC session s, access token a and refresh token t are  *)
(* all members of Req.                                                            *)
CONSTANTS Req,        \* requests, each serving one HTTP call
          Browser,    \* browser SSO sessions of the user
          Client,     \* OAuth clients of the tenant
          BcClient,   \* those that registered a backchannel_logout_uri
          Kinds,      \* the operations that occur in this instance
          None        \* SQL NULL

ASSUME NoneAssumption == None \notin Req \cup Browser \cup Client
ASSUME BcAssumption == BcClient \subseteq Client

VARIABLES
  codes,    \* auth_codes
  devs,     \* device_codes
  sess,     \* oidc_sessions
  bsess,    \* the rows of sessions: live browser sessions
  at,       \* access_tokens
  rt,       \* refresh_tokens
  active,   \* users.is_active
  queue,    \* sessions with a row in backchannel_logout_deliveries
  pc,       \* where each request stands
  arg,      \* the credential or browser session a request presented
  cli,      \* the client it authenticated as
  sid,      \* the oidc session id it read
  fam,      \* the refresh-token family it read
  todo,     \* end_session/confirm: sessions read and not yet terminated
  ret       \* where revokeTokensBySession returns to

tables == <<codes, devs, sess, bsess, at, rt, active, queue>>
locals == <<arg, cli, sid, fam, todo, ret>>
vars == <<codes, devs, sess, bsess, at, rt, active, queue, pc, arg, cli, sid, fam, todo, ret>>

--------------------------------------------------------------------------------
(* Rows.  "absent" and "purged" stand for no row: not inserted yet, and deleted.  *)

ReqOrNone == Req \cup {None}
ClientOrNone == Client \cup {None}

CodeRow == [st : {"absent", "fresh", "used", "purged"}, exp : BOOLEAN,
            client : ClientOrNone, sess : ReqOrNone]
DeviceRow == [st : {"absent", "pending", "approved", "denied", "redeemed", "purged"},
              exp : BOOLEAN, client : ClientOrNone]
SessionRow == [st : {"absent", "live", "terminated"},
               browser : Browser \cup {None}, client : ClientOrNone]
AccessRow == [st : {"absent", "live", "revoked", "purged"},
              client : ClientOrNone, sess : ReqOrNone, code : ReqOrNone]
RefreshRow == [st : {"absent", "live", "revoked", "purged"}, exp : BOOLEAN,
               client : ClientOrNone, sess : ReqOrNone, code : ReqOrNone, fam : ReqOrNone]

NoCode == [st |-> "absent", exp |-> FALSE, client |-> None, sess |-> None]
NoDevice == [st |-> "absent", exp |-> FALSE, client |-> None]
NoSession == [st |-> "absent", browser |-> None, client |-> None]
NoAccess == [st |-> "absent", client |-> None, sess |-> None, code |-> None]
NoRefresh == [st |-> "absent", exp |-> FALSE, client |-> None, sess |-> None,
              code |-> None, fam |-> None]

Final == {"ok", "failed", "crashed"}
InFlight == {"new_session", "new_code",
             "code_user", "code_at", "code_rt", "replay_seek", "replay_at", "replay_rt",
             "ref_user", "ref_claim", "ref_rt", "ref_session", "ref_at",
             "reuse_family", "risk_end", "sess_at", "sess_rt",
             "dev_approve", "dev_deny", "dev_claim", "dev_at", "dev_rt",
             "rev_row", "rev_fam",
             "end_next", "end_queue", "ban_at", "ban_rt",
             "api_user", "api_at", "api_spend", "api_rt", "out_at"}
PC == {"idle"} \cup Final \cup InFlight

TypeOK ==
  /\ codes \in [Req -> CodeRow]
  /\ devs \in [Req -> DeviceRow]
  /\ sess \in [Req -> SessionRow]
  /\ bsess \subseteq Browser
  /\ at \in [Req -> AccessRow]
  /\ rt \in [Req -> RefreshRow]
  /\ active \in BOOLEAN
  /\ queue \subseteq Req
  /\ pc \in [Req -> PC]
  /\ arg \in [Req -> Req \cup Browser \cup {None}]
  /\ cli \in [Req -> ClientOrNone]
  /\ sid \in [Req -> ReqOrNone]
  /\ fam \in [Req -> ReqOrNone]
  /\ todo \in [Req -> SUBSET Req]
  /\ ret \in [Req -> {"failed", "ok", "risk_end", "end_queue"}]

Init ==
  /\ codes = [k \in Req |-> NoCode]
  /\ devs = [d \in Req |-> NoDevice]
  /\ sess = [s \in Req |-> NoSession]
  /\ bsess = Browser
  /\ at = [a \in Req |-> NoAccess]
  /\ rt = [t \in Req |-> NoRefresh]
  /\ active = TRUE
  /\ queue = {}
  /\ pc = [r \in Req |-> "idle"]
  /\ arg = [r \in Req |-> None]
  /\ cli = [r \in Req |-> None]
  /\ sid = [r \in Req |-> None]
  /\ fam = [r \in Req |-> None]
  /\ todo = [r \in Req |-> {}]
  /\ ret = [r \in Req |-> "failed"]

--------------------------------------------------------------------------------
(* Statements and control shared by the handlers.                                *)

Arrives(r, kind) == kind \in Kinds /\ pc[r] = "idle"
GoTo(r, p) == pc' = [pc EXCEPT ![r] = p]

(* The bearer of a code or token learnt it from the response that carried it.    *)
Answered(x) == pc[x] = "ok"

(* UPDATE ... SET revoked = true WHERE <ids> AND revoked = false                 *)
Revoke(tab, ids) ==
  [x \in Req |-> IF x \in ids /\ tab[x].st = "live" THEN [tab[x] EXCEPT !.st = "revoked"]
                                                    ELSE tab[x]]
OfCode(tab, k) == {x \in Req : tab[x].code = k}
OfSession(tab, s) == {x \in Req : tab[x].sess = s}
OfFamily(f) == {t \in Req : rt[t].fam = f}

(* issueAccessToken / issueRefreshToken: one INSERT                               *)
InsertAccess(r, c, s, k) ==
  at' = [at EXCEPT ![r] = [st |-> "live", client |-> c, sess |-> s, code |-> k]]
InsertRefresh(r, c, s, k, f) ==
  rt' = [rt EXCEPT ![r] = [st |-> "live", exp |-> FALSE, client |-> c, sess |-> s,
                           code |-> k, fam |-> f]]

(* await revokeTokensBySession(sid[r]), then continue at p                        *)
CallRevokeBySession(r, p) == GoTo(r, "sess_at") /\ ret' = [ret EXCEPT ![r] = p]

RevokeSessionAccess(r) ==
  /\ pc[r] = "sess_at"
  /\ at' = Revoke(at, OfSession(at, sid[r]))
  /\ GoTo(r, "sess_rt")
  /\ UNCHANGED <<codes, devs, sess, bsess, rt, active, queue, locals>>

RevokeSessionRefresh(r) ==
  /\ pc[r] = "sess_rt"
  /\ rt' = Revoke(rt, OfSession(rt, sid[r]))
  /\ GoTo(r, ret[r])
  /\ UNCHANGED <<codes, devs, sess, bsess, at, active, queue, locals>>

--------------------------------------------------------------------------------
(* POST /api/oidc/authorize                                                       *)

(* Mutant: the SELECT forgets "terminated_at IS NULL".                             *)
AnySessions(b, c) == {s \in Req : sess[s].browser = b /\ sess[s].client = c}

LiveSessions(b, c) == {s \in Req : sess[s] = [st |-> "live", browser |-> b, client |-> c]}

(* authenticateToken, the acr/max_age check (freshOk says it passes), and the     *)
(* SELECT of getOrCreateOidcSession.                                              *)
Authorize(r, b, c, freshOk) ==
  /\ Arrives(r, "authorize")
  /\ active
  /\ arg' = [arg EXCEPT ![r] = b]
  /\ cli' = [cli EXCEPT ![r] = c]
  /\ \/ ~freshOk /\ GoTo(r, "failed") /\ UNCHANGED sid
     \/ /\ freshOk /\ LiveSessions(b, c) = {}
        /\ GoTo(r, "new_session") /\ UNCHANGED sid
     \/ /\ freshOk
        /\ \E s \in LiveSessions(b, c) : sid' = [sid EXCEPT ![r] = s]
        /\ GoTo(r, "new_code")
  /\ UNCHANGED <<tables, fam, todo, ret>>

(* Mutant: the browser session's id is put into the code in place of the new row's. *)
SessionByBrowser(r) ==
  /\ pc[r] = "new_session"
  /\ sess' = [sess EXCEPT ![r] = [st |-> "live", browser |-> arg[r], client |-> cli[r]]]
  /\ sid' = [sid EXCEPT ![r] = arg[r]]
  /\ GoTo(r, "new_code")
  /\ UNCHANGED <<codes, devs, bsess, at, rt, active, queue, arg, cli, fam, todo, ret>>

InsertSession(r) ==
  /\ pc[r] = "new_session"
  /\ sess' = [sess EXCEPT ![r] = [st |-> "live", browser |-> arg[r], client |-> cli[r]]]
  /\ sid' = [sid EXCEPT ![r] = r]
  /\ GoTo(r, "new_code")
  /\ UNCHANGED <<codes, devs, bsess, at, rt, active, queue, arg, cli, fam, todo, ret>>

InsertCode(r) ==
  /\ pc[r] = "new_code"
  /\ codes' = [codes EXCEPT ![r] = [st |-> "fresh", exp |-> FALSE, client |-> cli[r],
                                    sess |-> sid[r]]]
  /\ GoTo(r, "ok")
  /\ UNCHANGED <<devs, sess, bsess, at, rt, active, queue, locals>>

--------------------------------------------------------------------------------
(* grant_type=authorization_code                                                  *)

(* Mutant: the WHERE clause of the claim lost "used = false".                      *)
ClaimableAgain(k, c) == codes[k].st \in {"fresh", "used"} /\ codes[k].client = c

(* WHERE code = k AND client_id = c AND ... AND used = false                      *)
Claimable(k, c) == codes[k].st = "fresh" /\ codes[k].client = c

(* The claim; pkceOk is the outcome of the checks made on the returned row.       *)
ClaimCode(r, k, c, pkceOk) ==
  /\ Arrives(r, "redeem")
  /\ Answered(k) /\ codes[k].st # "absent"
  /\ arg' = [arg EXCEPT ![r] = k]
  /\ cli' = [cli EXCEPT ![r] = c]
  /\ \/ /\ Claimable(k, c)
        /\ codes' = [codes EXCEPT ![k].st = "used"]
        /\ sid' = [sid EXCEPT ![r] = codes[k].sess]
        /\ GoTo(r, IF pkceOk /\ ~codes[k].exp THEN "code_user" ELSE "failed")
     \/ /\ ~Claimable(k, c)
        /\ GoTo(r, "replay_seek")
        /\ UNCHANGED <<codes, sid>>
  /\ UNCHANGED <<devs, sess, bsess, at, rt, active, queue, fam, todo, ret>>

(* The user and oidc_sessions rows are read; a bad DPoP proof still refuses.      *)
CheckCodeUser(r) ==
  /\ pc[r] = "code_user"
  /\ \/ active /\ GoTo(r, "code_at")
     \/ GoTo(r, "failed")
  /\ UNCHANGED <<tables, locals>>

InsertCodeAccess(r) ==
  /\ pc[r] = "code_at"
  /\ InsertAccess(r, cli[r], sid[r], arg[r])
  /\ GoTo(r, "code_rt")
  /\ UNCHANGED <<codes, devs, sess, bsess, rt, active, queue, locals>>

InsertCodeRefresh(r) ==
  /\ pc[r] = "code_rt"
  /\ InsertRefresh(r, cli[r], sid[r], arg[r], r)
  /\ GoTo(r, "ok")
  /\ UNCHANGED <<codes, devs, sess, bsess, at, active, queue, locals>>

(* The replay branch: SELECT the used row, then revokeTokensFromAuthCode.         *)
SeekReplayed(r) ==
  /\ pc[r] = "replay_seek"
  /\ GoTo(r, IF codes[arg[r]].st = "used" THEN "replay_at" ELSE "failed")
  /\ UNCHANGED <<tables, locals>>

ReplayAccess(r) ==
  /\ pc[r] = "replay_at"
  /\ at' = Revoke(at, OfCode(at, arg[r]))
  /\ GoTo(r, "replay_rt")
  /\ UNCHANGED <<codes, devs, sess, bsess, rt, active, queue, locals>>

ReplayRefresh(r) ==
  /\ pc[r] = "replay_rt"
  /\ rt' = Revoke(rt, OfCode(rt, arg[r]))
  /\ GoTo(r, "failed")
  /\ UNCHANGED <<codes, devs, sess, bsess, at, active, queue, locals>>

--------------------------------------------------------------------------------
(* grant_type=refresh_token                                                       *)

Refresh(r, t, c) ==
  /\ Arrives(r, "refresh")
  /\ Answered(t) /\ rt[t].st # "absent"
  /\ arg' = [arg EXCEPT ![r] = t]
  /\ cli' = [cli EXCEPT ![r] = c]
  /\ sid' = [sid EXCEPT ![r] = rt[t].sess]
  /\ fam' = [fam EXCEPT ![r] = rt[t].fam]
  /\ \/ /\ rt[t].st = "purged" \/ rt[t].client # c
        /\ GoTo(r, "failed") /\ UNCHANGED ret
     \/ /\ rt[t].st = "revoked" /\ rt[t].client = c          \* reuse detected
        /\ ret' = [ret EXCEPT ![r] = "failed"]
        /\ GoTo(r, IF rt[t].fam # None THEN "reuse_family"
                   ELSE IF rt[t].sess # None THEN "sess_at" ELSE "failed")
     \/ /\ rt[t].st = "live" /\ rt[t].client = c
        /\ GoTo(r, IF rt[t].exp THEN "failed" ELSE "ref_user") /\ UNCHANGED ret
  /\ UNCHANGED <<tables, todo>>

ReuseFamily(r) ==
  /\ pc[r] = "reuse_family"
  /\ rt' = Revoke(rt, OfFamily(fam[r]))
  /\ ret' = [ret EXCEPT ![r] = "failed"]
  /\ GoTo(r, IF sid[r] # None THEN "sess_at" ELSE "failed")
  /\ UNCHANGED <<codes, devs, sess, bsess, at, active, queue, arg, cli, sid, fam, todo>>

CheckRefreshUser(r) ==
  /\ pc[r] = "ref_user"
  /\ GoTo(r, IF active THEN "ref_claim" ELSE "failed")
  /\ UNCHANGED <<tables, locals>>

(* Mutant: the outcome of the UPDATE is ignored.                                   *)
BlindClaimRefresh(r) ==
  /\ pc[r] = "ref_claim"
  /\ rt' = Revoke(rt, {arg[r]})
  /\ GoTo(r, "ref_rt")
  /\ UNCHANGED <<codes, devs, sess, bsess, at, active, queue, locals>>

(* UPDATE ... SET revoked = true WHERE id = t AND revoked = false RETURNING       *)
ClaimRefresh(r) ==
  /\ pc[r] = "ref_claim"
  /\ rt' = Revoke(rt, {arg[r]})
  /\ GoTo(r, IF rt[arg[r]].st = "live" THEN "ref_rt" ELSE "failed")
  /\ UNCHANGED <<codes, devs, sess, bsess, at, active, queue, locals>>

(* Mutant: the successor is issued without the parent's OIDC session.              *)
InsertUnlinked(r) ==
  /\ pc[r] = "ref_rt"
  /\ InsertRefresh(r, cli[r], None, None, IF fam[r] = None THEN r ELSE fam[r])
  /\ GoTo(r, IF sid[r] = None THEN "ref_at" ELSE "ref_session")
  /\ UNCHANGED <<codes, devs, sess, bsess, at, active, queue, locals>>

(* A token without a family starts one: issueRefreshToken's familyId default.     *)
InsertRotated(r) ==
  /\ pc[r] = "ref_rt"
  /\ InsertRefresh(r, cli[r], sid[r], None, IF fam[r] = None THEN r ELSE fam[r])
  /\ GoTo(r, IF sid[r] = None THEN "ref_at" ELSE "ref_session")
  /\ UNCHANGED <<codes, devs, sess, bsess, at, active, queue, locals>>

(* The session is read and the risk engine asked; under enforce a jump of the     *)
(* score revokes the session instead of issuing the access token.                  *)
AssessRisk(r) ==
  /\ pc[r] = "ref_session"
  /\ \/ GoTo(r, "ref_at") /\ UNCHANGED ret
     \/ "risk" \in Kinds /\ CallRevokeBySession(r, "risk_end")
  /\ UNCHANGED <<tables, arg, cli, sid, fam, todo>>

TerminateRisky(r) ==
  /\ pc[r] = "risk_end"
  /\ sess' = [sess EXCEPT ![sid[r]].st = "terminated"]
  /\ GoTo(r, "failed")
  /\ UNCHANGED <<codes, devs, bsess, at, rt, active, queue, locals>>

InsertRefreshedAccess(r) ==
  /\ pc[r] = "ref_at"
  /\ InsertAccess(r, cli[r], sid[r], None)
  /\ GoTo(r, "ok")
  /\ UNCHANGED <<codes, devs, sess, bsess, rt, active, queue, locals>>

--------------------------------------------------------------------------------
(* The device flow: device_authorization, device/approve, device/deny and         *)
(* grant_type=device_code.  The poll bookkeeping (interval, pollCount) decides     *)
(* only which error a pending poll gets.                                           *)

DeviceStart(r, c) ==
  /\ Arrives(r, "device")
  /\ devs' = [devs EXCEPT ![r] = [st |-> "pending", exp |-> FALSE, client |-> c]]
  /\ GoTo(r, "ok")
  /\ UNCHANGED <<codes, sess, bsess, at, rt, active, queue, locals>>

(* approve and deny: authenticateToken reads the token and the user, and the row    *)
(* is written later, without another look at them.                                  *)
DecideDevice(r, d, verdict) ==
  /\ Arrives(r, "device")
  /\ active
  /\ Answered(d) /\ devs[d].st # "absent"
  /\ arg' = [arg EXCEPT ![r] = d]
  /\ GoTo(r, IF verdict = "approved" THEN "dev_approve" ELSE "dev_deny")
  /\ UNCHANGED <<tables, cli, sid, fam, todo, ret>>

(* UPDATE ... WHERE status = 'pending' AND expires_at > now                          *)
MarkDevice(r, verdict) ==
  /\ pc[r] = IF verdict = "approved" THEN "dev_approve" ELSE "dev_deny"
  /\ \/ /\ devs[arg[r]].st = "pending" /\ ~devs[arg[r]].exp
        /\ devs' = [devs EXCEPT ![arg[r]].st = verdict]
        /\ GoTo(r, "ok")
     \/ /\ devs[arg[r]].st # "pending" \/ devs[arg[r]].exp
        /\ GoTo(r, "failed") /\ UNCHANGED devs
  /\ UNCHANGED <<codes, sess, bsess, at, rt, active, queue, locals>>

PollDevice(r, d, c) ==
  /\ Arrives(r, "device")
  /\ Answered(d) /\ devs[d].st # "absent"
  /\ arg' = [arg EXCEPT ![r] = d]
  /\ cli' = [cli EXCEPT ![r] = c]
  /\ GoTo(r, IF devs[d].st = "approved" /\ devs[d].client = c /\ ~devs[d].exp
             THEN "dev_claim" ELSE "failed")
  /\ UNCHANGED <<tables, sid, fam, todo, ret>>

(* Mutant: the UPDATE is not conditional on the status.                            *)
BlindClaimDevice(r) ==
  /\ pc[r] = "dev_claim"
  /\ devs' = [devs EXCEPT ![arg[r]].st = "redeemed"]
  /\ GoTo(r, "dev_at")
  /\ UNCHANGED <<codes, sess, bsess, at, rt, active, queue, locals>>

(* UPDATE ... SET status = 'redeemed' WHERE id = d AND status = 'approved'        *)
ClaimDevice(r) ==
  /\ pc[r] = "dev_claim"
  /\ \/ /\ devs[arg[r]].st = "approved"
        /\ devs' = [devs EXCEPT ![arg[r]].st = "redeemed"]
        /\ GoTo(r, "dev_at")
     \/ /\ devs[arg[r]].st # "approved"
        /\ GoTo(r, "failed") /\ UNCHANGED devs
  /\ UNCHANGED <<codes, sess, bsess, at, rt, active, queue, locals>>

InsertDeviceAccess(r) ==
  /\ pc[r] = "dev_at"
  /\ InsertAccess(r, cli[r], None, None)
  /\ GoTo(r, "dev_rt")
  /\ UNCHANGED <<codes, devs, sess, bsess, rt, active, queue, locals>>

InsertDeviceRefresh(r) ==
  /\ pc[r] = "dev_rt"
  /\ InsertRefresh(r, cli[r], None, None, r)
  /\ GoTo(r, "ok")
  /\ UNCHANGED <<codes, devs, sess, bsess, at, active, queue, locals>>

--------------------------------------------------------------------------------
(* POST /api/oidc/revoke (RFC 7009)                                               *)

RevokeAccessToken(r, a, c) ==
  /\ Arrives(r, "revoke")
  /\ Answered(a) /\ at[a].st # "absent"
  /\ at' = IF at[a].client = c THEN Revoke(at, {a}) ELSE at
  /\ GoTo(r, "ok")
  /\ UNCHANGED <<codes, devs, sess, bsess, rt, active, queue, locals>>

ResolveRefreshToken(r, t, c) ==
  /\ Arrives(r, "revoke")
  /\ Answered(t) /\ rt[t].st # "absent"
  /\ arg' = [arg EXCEPT ![r] = t]
  /\ sid' = [sid EXCEPT ![r] = rt[t].sess]
  /\ fam' = [fam EXCEPT ![r] = rt[t].fam]
  /\ GoTo(r, IF rt[t].st # "purged" /\ rt[t].client = c THEN "rev_row" ELSE "ok")
  /\ UNCHANGED <<tables, cli, todo, ret>>

RevokeRefreshRow(r) ==
  /\ pc[r] = "rev_row"
  /\ rt' = Revoke(rt, {arg[r]})
  /\ ret' = [ret EXCEPT ![r] = "ok"]
  /\ GoTo(r, IF sid[r] # None THEN "sess_at" ELSE IF fam[r] # None THEN "rev_fam" ELSE "ok")
  /\ UNCHANGED <<codes, devs, sess, bsess, at, active, queue, arg, cli, sid, fam, todo>>

RevokeFamily(r) ==
  /\ pc[r] = "rev_fam"
  /\ rt' = Revoke(rt, OfFamily(fam[r]))
  /\ GoTo(r, "ok")
  /\ UNCHANGED <<codes, devs, sess, bsess, at, active, queue, locals>>

--------------------------------------------------------------------------------
(* POST /api/oidc/end_session/confirm                                             *)

EndSession(r, b) ==
  /\ Arrives(r, "logout")
  /\ active
  /\ arg' = [arg EXCEPT ![r] = b]
  /\ todo' = [todo EXCEPT ![r] = UNION {LiveSessions(b, c) : c \in Client}]
  /\ GoTo(r, "end_next")
  /\ UNCHANGED <<tables, cli, sid, fam, ret>>

TerminateNext(r) ==
  /\ pc[r] = "end_next"
  /\ \E s \in todo[r] :
       /\ sess' = [sess EXCEPT ![s].st = "terminated"]
       /\ sid' = [sid EXCEPT ![r] = s]
       /\ todo' = [todo EXCEPT ![r] = @ \ {s}]
  /\ CallRevokeBySession(r, "end_queue")
  /\ UNCHANGED <<codes, devs, bsess, at, rt, active, queue, arg, cli, fam>>

(* Mutant: only sessions that own a refresh token are announced.                   *)
EnqueueHolders(r) ==
  /\ pc[r] = "end_queue"
  /\ queue' = IF sess[sid[r]].client \in BcClient /\ OfSession(rt, sid[r]) # {}
              THEN queue \cup {sid[r]} ELSE queue
  /\ GoTo(r, "end_next")
  /\ UNCHANGED <<codes, devs, sess, bsess, at, rt, active, locals>>

EnqueueLogout(r) ==
  /\ pc[r] = "end_queue"
  /\ queue' = IF sess[sid[r]].client \in BcClient THEN queue \cup {sid[r]} ELSE queue
  /\ GoTo(r, "end_next")
  /\ UNCHANGED <<codes, devs, sess, bsess, at, rt, active, locals>>

DeleteBrowserSession(r) ==
  /\ pc[r] = "end_next" /\ todo[r] = {}
  /\ bsess' = bsess \ {arg[r]}
  /\ GoTo(r, "ok")
  /\ UNCHANGED <<codes, devs, sess, at, rt, active, queue, locals>>

--------------------------------------------------------------------------------
(* Administration: ban, unban and deactivation of the user.                       *)

Ban(r) ==
  /\ Arrives(r, "ban")
  /\ active' = FALSE
  /\ GoTo(r, "ban_at")
  /\ UNCHANGED <<codes, devs, sess, bsess, at, rt, queue, locals>>

BanAccess(r) ==
  /\ pc[r] = "ban_at"
  /\ at' = Revoke(at, Req)
  /\ GoTo(r, "ban_rt")
  /\ UNCHANGED <<codes, devs, sess, bsess, rt, active, queue, locals>>

BanRefresh(r) ==
  /\ pc[r] = "ban_rt"
  /\ rt' = Revoke(rt, Req)
  /\ GoTo(r, "ok")
  /\ UNCHANGED <<codes, devs, sess, bsess, at, active, queue, locals>>

SetActive(r, flag) ==
  /\ Arrives(r, "ban")
  /\ active' = flag
  /\ GoTo(r, "ok")
  /\ UNCHANGED <<codes, devs, sess, bsess, at, rt, queue, locals>>

--------------------------------------------------------------------------------
(* POST /api/auth/refresh and POST /api/auth/logout, the SPA's endpoints, which   *)
(* work on the same refresh_tokens table.                                          *)

(* SELECT ... WHERE token = t AND revoked = false: neither client nor expiry.     *)
ApiRefresh(r, t) ==
  /\ Arrives(r, "api")
  /\ Answered(t) /\ rt[t].st # "absent"
  /\ arg' = [arg EXCEPT ![r] = t]
  /\ cli' = [cli EXCEPT ![r] = rt[t].client]
  /\ GoTo(r, IF rt[t].st = "live" THEN "api_user" ELSE "failed")
  /\ UNCHANGED <<tables, sid, fam, todo, ret>>

(* Mutant: the user's is_active is not looked at.                                  *)
CheckApiUserExists(r) ==
  /\ pc[r] = "api_user"
  /\ GoTo(r, "api_at") \/ GoTo(r, "failed")
  /\ UNCHANGED <<tables, locals>>

(* An expired or to-be-changed password refuses too.                              *)
CheckApiUser(r) ==
  /\ pc[r] = "api_user"
  /\ \/ active /\ GoTo(r, "api_at")
     \/ GoTo(r, "failed")
  /\ UNCHANGED <<tables, locals>>

InsertApiAccess(r) ==
  /\ pc[r] = "api_at"
  /\ InsertAccess(r, cli[r], None, None)
  /\ GoTo(r, "api_spend")
  /\ UNCHANGED <<codes, devs, sess, bsess, rt, active, queue, locals>>

SpendApiRefresh(r) ==
  /\ pc[r] = "api_spend"
  /\ rt' = Revoke(rt, {arg[r]})
  /\ GoTo(r, "api_rt")
  /\ UNCHANGED <<codes, devs, sess, bsess, at, active, queue, locals>>

InsertApiRefresh(r) ==
  /\ pc[r] = "api_rt"
  /\ InsertRefresh(r, cli[r], None, None, None)
  /\ GoTo(r, "ok")
  /\ UNCHANGED <<codes, devs, sess, bsess, at, active, queue, locals>>

(* Without an x-session-id header: every refresh token of the user, then the      *)
(* bearer token itself.                                                            *)
ApiLogout(r, a) ==
  /\ Arrives(r, "api")
  /\ active
  /\ Answered(a) /\ at[a].st = "live"
  /\ arg' = [arg EXCEPT ![r] = a]
  /\ rt' = Revoke(rt, Req)
  /\ GoTo(r, "out_at")
  /\ UNCHANGED <<codes, devs, sess, bsess, at, active, queue, cli, sid, fam, todo, ret>>

LogoutAccess(r) ==
  /\ pc[r] = "out_at"
  /\ at' = Revoke(at, {arg[r]})
  /\ GoTo(r, "ok")
  /\ UNCHANGED <<codes, devs, sess, bsess, rt, active, queue, locals>>

--------------------------------------------------------------------------------
(* Time and the cleanup job.  Expiry of an access token needs no flag: the JWT     *)
(* check refuses it whether or not its row has been deleted.                       *)

Expire ==
  /\ "expiry" \in Kinds
  /\ UNCHANGED <<sess, bsess, active, queue, pc, locals>>
  /\ \/ \E k \in Req : /\ codes[k].st \in {"fresh", "used"} /\ ~codes[k].exp
                       /\ codes' = [codes EXCEPT ![k].exp = TRUE]
                       /\ UNCHANGED <<devs, at, rt>>
     \/ \E d \in Req : /\ devs[d].st \notin {"absent", "purged"} /\ ~devs[d].exp
                       /\ devs' = [devs EXCEPT ![d].exp = TRUE]
                       /\ UNCHANGED <<codes, at, rt>>
     \/ \E t \in Req : /\ rt[t].st \in {"live", "revoked"} /\ ~rt[t].exp
                       /\ rt' = [rt EXCEPT ![t].exp = TRUE]
                       /\ UNCHANGED <<codes, devs, at>>
     \/ \E a \in Req : /\ at[a].st \in {"live", "revoked"}
                       /\ at' = [at EXCEPT ![a].st = "purged"]
                       /\ UNCHANGED <<codes, devs, rt>>

(* The DELETE statements of cleanupExpiredTokens, one per table.  They run one    *)
(* after the other without a transaction and touch disjoint tables.               *)
PurgeRefresh ==
  /\ "expiry" \in Kinds
  /\ rt' = [t \in Req |-> IF rt[t].exp /\ rt[t].st = "revoked"
                          THEN [rt[t] EXCEPT !.st = "purged"] ELSE rt[t]]
  /\ UNCHANGED <<codes, devs, sess, bsess, at, active, queue, pc, locals>>

PurgeCodes ==
  /\ "expiry" \in Kinds
  /\ codes' = [k \in Req |-> IF codes[k].exp THEN [codes[k] EXCEPT !.st = "purged"]
                                             ELSE codes[k]]
  /\ UNCHANGED <<devs, sess, bsess, at, rt, active, queue, pc, locals>>

PurgeDevices ==
  /\ "expiry" \in Kinds
  /\ devs' = [d \in Req |-> IF devs[d].exp \/ devs[d].st = "redeemed"
                            THEN [devs[d] EXCEPT !.st = "purged"] ELSE devs[d]]
  /\ UNCHANGED <<codes, sess, bsess, at, rt, active, queue, pc, locals>>

(* The process dies, or a statement throws and the handler answers an error:      *)
(* either way the rest of the request never runs and nothing is rolled back.       *)
Crash(r) ==
  /\ "crash" \in Kinds
  /\ pc[r] \in InFlight
  /\ GoTo(r, "crashed")
  /\ UNCHANGED <<tables, locals>>

--------------------------------------------------------------------------------
Start(r) ==
  \/ \E b \in Browser, c \in Client, ok \in BOOLEAN : Authorize(r, b, c, ok)
  \/ \E k \in Req, c \in Client, ok \in BOOLEAN : ClaimCode(r, k, c, ok)
  \/ \E t \in Req, c \in Client : Refresh(r, t, c)
  \/ \E c \in Client : DeviceStart(r, c)
  \/ \E d \in Req, verdict \in {"approved", "denied"} : DecideDevice(r, d, verdict)
  \/ \E d \in Req, c \in Client : PollDevice(r, d, c)
  \/ \E a \in Req, c \in Client : RevokeAccessToken(r, a, c)
  \/ \E t \in Req, c \in Client : ResolveRefreshToken(r, t, c)
  \/ \E b \in Browser : EndSession(r, b)
  \/ Ban(r)
  \/ \E flag \in BOOLEAN : SetActive(r, flag)
  \/ \E t \in Req : ApiRefresh(r, t)
  \/ \E a \in Req : ApiLogout(r, a)

Continue(r) ==
  \/ InsertSession(r) \/ InsertCode(r)
  \/ CheckCodeUser(r) \/ InsertCodeAccess(r) \/ InsertCodeRefresh(r)
  \/ SeekReplayed(r) \/ ReplayAccess(r) \/ ReplayRefresh(r)
  \/ ReuseFamily(r) \/ CheckRefreshUser(r) \/ ClaimRefresh(r) \/ InsertRotated(r)
  \/ AssessRisk(r) \/ TerminateRisky(r) \/ InsertRefreshedAccess(r)
  \/ RevokeSessionAccess(r) \/ RevokeSessionRefresh(r)
  \/ (\E verdict \in {"approved", "denied"} : MarkDevice(r, verdict))
  \/ ClaimDevice(r) \/ InsertDeviceAccess(r) \/ InsertDeviceRefresh(r)
  \/ RevokeRefreshRow(r) \/ RevokeFamily(r)
  \/ TerminateNext(r) \/ EnqueueLogout(r) \/ DeleteBrowserSession(r)
  \/ BanAccess(r) \/ BanRefresh(r)
  \/ CheckApiUser(r) \/ InsertApiAccess(r) \/ SpendApiRefresh(r) \/ InsertApiRefresh(r)
  \/ LogoutAccess(r)

Next ==
  \/ \E r \in Req : Start(r) \/ Continue(r) \/ Crash(r)
  \/ Expire \/ PurgeRefresh \/ PurgeCodes \/ PurgeDevices

Spec == Init /\ [][Next]_vars

--------------------------------------------------------------------------------
(* Correctness.                                                                   *)

(* Request q is the one that redeemed code k: it stands between the claim and the *)
(* last insert, or a row it inserted carries the code's id.                        *)
Redeems(q, k) ==
  \/ pc[q] \in {"code_user", "code_at", "code_rt"} /\ arg[q] = k
  \/ at[q].st # "absent" /\ at[q].code = k
  \/ rt[q].st # "absent" /\ rt[q].code = k

(* An authorization code is redeemed by at most one request, however many present *)
(* it at once: the conditional UPDATE of authorization-code.ts:50-60 is the only   *)
(* thing that keeps two concurrent token requests from both minting.               *)
CodeMintsOnce ==
  \A k \in Req : \A q1, q2 \in Req : Redeems(q1, k) /\ Redeems(q2, k) => q1 = q2

(* Request q carries family f forward: it owns the family's live refresh token,   *)
(* or has claimed the parent and not yet inserted the successor.                    *)
Carries(q, f) ==
  \/ pc[q] = "ref_rt" /\ fam[q] = f
  \/ rt[q].st = "live" /\ rt[q].fam = f

(* A refresh-token family is a chain: never two live tokens, nor a live token      *)
(* beside a rotation in progress (refresh-token.ts:66-76).                          *)
RotationIsLinear ==
  \A f \in Req : \A q1, q2 \in Req : Carries(q1, f) /\ Carries(q2, f) => q1 = q2

(* Every token stays within the session and the client it was granted for, through *)
(* any number of rotations, and a family never spans two sessions: otherwise       *)
(* revokeTokensBySession revokes too little or the tokens of another client.        *)
TokensStayInSession ==
  /\ \A a \in Req : at[a].st # "absent" /\ at[a].sess # None =>
       sess[at[a].sess].st # "absent" /\ sess[at[a].sess].client = at[a].client
  /\ \A t \in Req : rt[t].st # "absent" /\ rt[t].sess # None =>
       sess[rt[t].sess].st # "absent" /\ sess[rt[t].sess].client = rt[t].client
  /\ \A t \in Req : rt[t].st # "absent" /\ rt[t].fam # None =>
       /\ rt[rt[t].fam].st # "absent" /\ rt[rt[t].fam].fam = rt[t].fam
       /\ rt[rt[t].fam].sess = rt[t].sess /\ rt[rt[t].fam].client = rt[t].client

(* Once reuse detection, a logout or a ban has caught a family with no rotation in *)
(* flight, no interleaving of later requests brings the family back to life.       *)
FamilyDead(f) == rt[f].st # "absent" /\ rt[f].fam = f /\ \A q \in Req : ~Carries(q, f)
DeadFamilyStaysDead == [][\A f \in Req : FamilyDead(f) => FamilyDead(f)']_vars

(* A request that may still insert a token or a code for session s.                *)
Feeds(q, s) ==
  /\ sid[q] = s
  /\ pc[q] \in {"new_code", "code_user", "code_at", "code_rt", "ref_rt", "ref_session", "ref_at"}

(* A terminated session without live tokens, unredeemed codes and requests at work *)
(* for it is closed for good: end_session/confirm and the risk engine are final    *)
(* once the outstanding codes are gone.                                             *)
Closed(s) ==
  /\ sess[s].st = "terminated"
  /\ \A x \in Req : /\ at[x].st = "live" => at[x].sess # s
                    /\ rt[x].st = "live" => rt[x].sess # s
                    /\ codes[x].st = "fresh" => codes[x].sess # s
                    /\ ~Feeds(x, s)
ClosedSessionStaysClosed == [][\A s \in Req : Closed(s) => Closed(s)']_vars

(* Logout announces every session it terminates to a client that registered a      *)
(* back-channel URI, also when two logouts overlap: an unannounced one is still     *)
(* being worked on, was dropped by a crash, or fell to the risk engine, which       *)
(* announces nothing.                                                              *)
LogoutIsAnnounced ==
  \A s \in Req : sess[s].st = "terminated" /\ sess[s].client \in BcClient /\ s \notin queue =>
    \E q \in Req : /\ sid[q] = s
                   /\ \/ pc[q] \in {"sess_at", "sess_rt", "end_queue", "crashed"}
                      \/ pc[q] = "failed" /\ rt[q].st # "absent"

(* A request that will insert a token, or approve a device code, without looking at  *)
(* the user again.                                                                  *)
Minting(q) == pc[q] \in {"code_at", "code_rt", "ref_rt", "ref_session", "ref_at",
                         "dev_approve", "dev_at", "dev_rt",
                         "api_at", "api_spend", "api_rt"}

(* A banned user whose tokens are revoked gets no live token until somebody unbans  *)
(* the account, provided that no request is past its last look at the user and no   *)
(* device code is approved: that grant never looks at is_active, so an approval     *)
(* whose check came before the ban, but whose UPDATE comes after it, outlives it     *)
(* (oidc.ts:421, device-code.ts:56).                                                *)
LockedOut ==
  /\ ~active
  /\ \A x \in Req : /\ at[x].st # "live" /\ rt[x].st # "live" /\ devs[x].st # "approved"
                    /\ ~Minting(x)
BanHolds == [][LockedOut => LockedOut' \/ active']_vars

(* The three grants implement the one-time credential of module SingleUse.         *)
CodeCredential == INSTANCE SingleUse WITH
  Cred <- Req,
  fresh <- {k \in Req : codes[k].st = "fresh" /\ ~codes[k].exp},
  spent <- {k \in Req : codes[k].st \in {"used", "purged"} \/ codes[k].exp},
  minted <- [k \in Req |-> {q \in Req : at[q].st # "absent" /\ at[q].code = k}]
CodeIsSingleUse == CodeCredential!Spec

(* Tokens that rotation obtained from refresh token t (a token request that        *)
(* presented t and whose own refresh token belongs to a family).                    *)
Successors(t) == {q \in Req : /\ rt[q].st # "absent" /\ rt[q].fam # None
                              /\ arg[q] = t /\ rt[t].st # "absent"}
RefreshCredential == INSTANCE SingleUse WITH
  Cred <- Req,
  fresh <- {t \in Req : rt[t].st = "live"},
  spent <- {t \in Req : rt[t].st \in {"revoked", "purged"}},
  minted <- [t \in Req |-> Successors(t)]
RefreshIsSingleUse == RefreshCredential!Spec

DeviceCredential == INSTANCE SingleUse WITH
  Cred <- Req,
  fresh <- {d \in Req : devs[d].st \in {"pending", "approved", "denied"}},
  spent <- {d \in Req : devs[d].st \in {"redeemed", "purged"}},
  minted <- [d \in Req |-> {q \in Req : at[q].st # "absent" /\ arg[q] = d /\ devs[d].st # "absent"}]
DeviceIsSingleUse == DeviceCredential!Spec

(* What the comments of the code promise and it does not keep, each checked by a   *)
(* run that shows how.                                                              *)

(* oidc.ts:506: the confirmation "terminates the whole browser SSO session"; once  *)
(* every request has been answered, a terminated session has no live token.         *)
Quiet == \A r \in Req : pc[r] \in {"idle", "ok", "failed"}
LogoutEndsSession ==
  Quiet => \A x \in Req : /\ at[x].st = "live" /\ at[x].sess # None => sess[at[x].sess].st = "live"
                          /\ rt[x].st = "live" /\ rt[x].sess # None => sess[rt[x].sess].st = "live"

(* refresh-token.ts:79: "The OIDC session link must survive rotation".              *)
SessionLinkSurvivesRotation ==
  \A q \in Req : rt[q].st # "absent" /\ arg[q] \in Req /\ rt[arg[q]].st # "absent"
                 => rt[q].sess = rt[arg[q]].sess
==============================================================================
