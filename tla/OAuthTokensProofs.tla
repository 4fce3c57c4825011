--------------------------- MODULE OAuthTokensProofs ----------------------------
(* Proofs about OAuthTokens for every set of requests, browsers and clients and     *)
(* every choice of Kinds: types, grants, sessions, and the one-time credential.      *)
EXTENDS OAuthTokens, TLAPS

--------------------------------------------------------------------------------
(* Types and bans.                                                                   *)

(* What an UPDATE or an INSERT leaves in a well-typed table is well typed.          *)
LEMMA RevokeAccessType ==
  ASSUME NEW tab \in [Req -> AccessRow], NEW ids
  PROVE  Revoke(tab, ids) \in [Req -> AccessRow]
BY DEF Revoke, AccessRow

LEMMA RevokeRefreshType ==
  ASSUME NEW tab \in [Req -> RefreshRow], NEW ids
  PROVE  Revoke(tab, ids) \in [Req -> RefreshRow]
BY DEF Revoke, RefreshRow

LEMMA RevokeType ==
  ASSUME TypeOK
  PROVE  \A ids : Revoke(at, ids) \in [Req -> AccessRow] /\ Revoke(rt, ids) \in [Req -> RefreshRow]
BY RevokeAccessType, RevokeRefreshType DEF TypeOK

LEMMA CodeType ==
  ASSUME TypeOK, NEW k \in Req
  PROVE  /\ codes[k].client \in ClientOrNone /\ codes[k].sess \in ReqOrNone
         /\ codes' = [codes EXCEPT ![k].st = "used"] => codes' \in [Req -> CodeRow]
         /\ codes' = [codes EXCEPT ![k].exp = TRUE] => codes' \in [Req -> CodeRow]
<1>1. codes[k].client \in ClientOrNone /\ codes[k].sess \in ReqOrNone
  BY DEF TypeOK, CodeRow
<1>2. /\ [codes EXCEPT ![k].st = "used"] \in [Req -> CodeRow]
      /\ [codes EXCEPT ![k].exp = TRUE] \in [Req -> CodeRow]
  BY DEF TypeOK, CodeRow
<1> QED
  BY <1>1, <1>2

LEMMA InsertCodeType ==
  ASSUME TypeOK, NEW k \in Req, NEW c \in ClientOrNone, NEW s \in ReqOrNone
  PROVE  [codes EXCEPT ![k] = [st |-> "fresh", exp |-> FALSE, client |-> c, sess |-> s]]
           \in [Req -> CodeRow]
BY DEF TypeOK, CodeRow

LEMMA DeviceType ==
  ASSUME TypeOK, NEW d \in Req, NEW v \in {"approved", "denied", "redeemed"}
  PROVE  devs' = [devs EXCEPT ![d].st = v] => devs' \in [Req -> DeviceRow]
<1>1. [devs EXCEPT ![d].st = v] \in [Req -> DeviceRow]
  BY DEF TypeOK, DeviceRow
<1> QED
  BY <1>1

LEMMA DeviceExpires ==
  ASSUME TypeOK, NEW d \in Req
  PROVE  devs' = [devs EXCEPT ![d].exp = TRUE] => devs' \in [Req -> DeviceRow]
<1>1. [devs EXCEPT ![d].exp = TRUE] \in [Req -> DeviceRow]
  BY DEF TypeOK, DeviceRow
<1> QED
  BY <1>1

LEMMA InsertDeviceType ==
  ASSUME TypeOK, NEW d \in Req, NEW c \in ClientOrNone
  PROVE  [devs EXCEPT ![d] = [st |-> "pending", exp |-> FALSE, client |-> c]] \in [Req -> DeviceRow]
BY DEF TypeOK, DeviceRow

LEMMA SessionType ==
  ASSUME TypeOK, NEW s \in Req
  PROVE  /\ [sess EXCEPT ![s].st = "terminated"] \in [Req -> SessionRow]
         /\ \A b \in Browser \cup {None}, c \in ClientOrNone :
              [sess EXCEPT ![s] = [st |-> "live", browser |-> b, client |-> c]]
                \in [Req -> SessionRow]
BY DEF TypeOK, SessionRow

LEMMA AccessType ==
  ASSUME TypeOK, NEW x \in Req
  PROVE  [at EXCEPT ![x].st = "purged"] \in [Req -> AccessRow]
BY DEF TypeOK, AccessRow

LEMMA RefreshType ==
  ASSUME TypeOK, NEW x \in Req
  PROVE  /\ rt[x].client \in ClientOrNone /\ rt[x].sess \in ReqOrNone /\ rt[x].fam \in ReqOrNone
         /\ [rt EXCEPT ![x].exp = TRUE] \in [Req -> RefreshRow]
BY DEF TypeOK, RefreshRow

LEMMA InsertAccessType ==
  ASSUME TypeOK, NEW x \in Req, NEW c \in ClientOrNone, NEW s \in ReqOrNone,
         NEW k \in ReqOrNone, InsertAccess(x, c, s, k)
  PROVE  at' \in [Req -> AccessRow]
<1>1. [st |-> "live", client |-> c, sess |-> s, code |-> k] \in AccessRow
  BY DEF AccessRow
<1> QED
  BY <1>1 DEF TypeOK, InsertAccess

LEMMA InsertRefreshType ==
  ASSUME TypeOK, NEW x \in Req, NEW c \in ClientOrNone, NEW s \in ReqOrNone,
         NEW k \in ReqOrNone, NEW f \in ReqOrNone, InsertRefresh(x, c, s, k, f)
  PROVE  rt' \in [Req -> RefreshRow]
<1>1. [st |-> "live", exp |-> FALSE, client |-> c, sess |-> s, code |-> k, fam |-> f] \in RefreshRow
  BY DEF RefreshRow
<1> QED
  BY <1>1 DEF TypeOK, InsertRefresh

(* The DELETE statements of the cleanup job.                                          *)
LEMMA PurgeType ==
  ASSUME TypeOK
  PROVE  /\ PurgeRefresh => rt' \in [Req -> RefreshRow]
         /\ PurgeCodes => codes' \in [Req -> CodeRow]
         /\ PurgeDevices => devs' \in [Req -> DeviceRow]
<1>1. PurgeRefresh => rt' \in [Req -> RefreshRow]
  BY DEF TypeOK, PurgeRefresh, RefreshRow
<1>2. PurgeCodes => codes' \in [Req -> CodeRow]
  BY DEF TypeOK, PurgeCodes, CodeRow
<1>3. PurgeDevices => devs' \in [Req -> DeviceRow]
  BY DEF TypeOK, PurgeDevices, DeviceRow
<1> QED
  BY <1>1, <1>2, <1>3

(* What a request remembers fits the step it is about to take: a request about to    *)
(* create a session or to end one holds a browser session, one that serves a grant     *)
(* holds the credential it was shown, one that acts on an OIDC session knows which.    *)
ArgsOK ==
  \A r \in Req :
    /\ pc[r] = "new_session" => arg[r] \in Browser
    /\ pc[r] \in {"code_user", "code_at", "code_rt", "replay_seek", "replay_at", "replay_rt",
                  "ref_user", "ref_claim", "ref_rt", "dev_approve", "dev_deny", "dev_claim",
                  "dev_at", "dev_rt", "rev_row", "api_user", "api_at", "api_spend", "api_rt", "out_at"} => arg[r] \in Req
    /\ pc[r] \in {"sess_at", "sess_rt", "ref_session", "risk_end", "end_queue"} => sid[r] \in Req

TypeInv == TypeOK /\ ArgsOK

(* Every table and every local stays within its type.                                *)
THEOREM TypeInvariant == Spec => []TypeInv
<1>1. Init => TypeInv
  BY DEF Init, TypeInv, ArgsOK, TypeOK, CodeRow, DeviceRow, SessionRow, AccessRow, RefreshRow, NoCode,
         NoDevice, NoSession, NoAccess, NoRefresh, ReqOrNone, ClientOrNone, PC
<1>2. TypeInv /\ [Next]_vars => TypeInv'
  <2> SUFFICES ASSUME TypeOK, ArgsOK, [Next]_vars PROVE TypeOK' /\ ArgsOK'
    BY DEF TypeInv
  <2> USE DEF TypeOK, PC, Final, InFlight, GoTo, tables, locals, ReqOrNone, ClientOrNone

  <2>1. ASSUME NEW r \in Req, NEW b \in Browser, NEW c \in Client, NEW ok \in BOOLEAN, Authorize(r, b, c, ok) PROVE TypeOK' /\ ArgsOK'
    <3>1. TypeOK'
      BY <2>1 DEF Authorize, Arrives, LiveSessions
    <3>2. ArgsOK'
      BY <2>1 DEF Authorize, Arrives, LiveSessions, ArgsOK
    <3> QED
      BY <3>1, <3>2
  <2>2. ASSUME NEW r \in Req, NEW k \in Req, NEW c \in Client, NEW ok \in BOOLEAN, ClaimCode(r, k, c, ok) PROVE TypeOK' /\ ArgsOK'
    <3>1. codes' \in [Req -> CodeRow] /\ sid' \in [Req -> ReqOrNone]
      BY <2>2, CodeType DEF ClaimCode, Arrives
    <3>2. pc' \in [Req -> PC] /\ arg' \in [Req -> Req \cup Browser \cup {None}]
      BY <2>2 DEF ClaimCode, Arrives
    <3>3. TypeOK'
      BY <2>2, <3>1, <3>2 DEF ClaimCode, Arrives
    <3>4. ArgsOK'
      BY <2>2 DEF ClaimCode, Arrives, ArgsOK
    <3> QED
      BY <3>3, <3>4
  <2>3. ASSUME NEW r \in Req, NEW t \in Req, NEW c \in Client, Refresh(r, t, c) PROVE TypeOK' /\ ArgsOK'
    <3>1. TypeOK'
      BY <2>3, RefreshType DEF Refresh, Arrives
    <3>2. pc'[r] = "sess_at" => sid'[r] \in Req
      <4>1. sid'[r] = rt[t].sess /\ rt[t].sess \in Req \cup {None}
        BY <2>3, RefreshType DEF Refresh, Arrives
      <4>2. pc'[r] = "sess_at" => rt[t].sess # None
        <5>1. CASE rt[t].st = "revoked" /\ rt[t].client = c
          BY <2>3, <5>1 DEF Refresh, Arrives
        <5>2. CASE ~(rt[t].st = "revoked" /\ rt[t].client = c)
          BY <2>3, <5>2 DEF Refresh, Arrives
        <5> QED
          BY <5>1, <5>2
      <4> QED
        BY <4>1, <4>2
    <3>3. ArgsOK'
      BY <2>3, <3>2 DEF Refresh, Arrives, ArgsOK
    <3> QED
      BY <3>1, <3>3
  <2>4. ASSUME NEW r \in Req, NEW c \in Client, DeviceStart(r, c) PROVE TypeOK' /\ ArgsOK'
    <3>1. TypeOK'
      BY <2>4, InsertDeviceType DEF DeviceStart, Arrives
    <3>2. ArgsOK'
      BY <2>4 DEF DeviceStart, Arrives, ArgsOK
    <3> QED
      BY <3>1, <3>2
  <2>5. ASSUME NEW r \in Req, NEW d \in Req, NEW verdict \in {"approved", "denied"}, DecideDevice(r, d, verdict) PROVE TypeOK' /\ ArgsOK'
    <3>1. TypeOK'
      BY <2>5 DEF DecideDevice, Arrives
    <3>2. ArgsOK'
      BY <2>5 DEF DecideDevice, Arrives, ArgsOK
    <3> QED
      BY <3>1, <3>2
  <2>6. ASSUME NEW r \in Req, NEW d \in Req, NEW c \in Client, PollDevice(r, d, c) PROVE TypeOK' /\ ArgsOK'
    <3>1. TypeOK'
      BY <2>6 DEF PollDevice, Arrives
    <3>2. ArgsOK'
      BY <2>6 DEF PollDevice, Arrives, ArgsOK
    <3> QED
      BY <3>1, <3>2
  <2>7. ASSUME NEW r \in Req, NEW a \in Req, NEW c \in Client, RevokeAccessToken(r, a, c) PROVE TypeOK' /\ ArgsOK'
    <3>1. TypeOK'
      BY <2>7, RevokeType DEF RevokeAccessToken, Arrives
    <3>2. ArgsOK'
      BY <2>7 DEF RevokeAccessToken, Arrives, ArgsOK
    <3> QED
      BY <3>1, <3>2
  <2>8. ASSUME NEW r \in Req, NEW t \in Req, NEW c \in Client, ResolveRefreshToken(r, t, c) PROVE TypeOK' /\ ArgsOK'
    <3>1. TypeOK'
      BY <2>8, RefreshType DEF ResolveRefreshToken, Arrives
    <3>2. ArgsOK'
      BY <2>8 DEF ResolveRefreshToken, Arrives, ArgsOK
    <3> QED
      BY <3>1, <3>2
  <2>9. ASSUME NEW r \in Req, NEW b \in Browser, EndSession(r, b) PROVE TypeOK' /\ ArgsOK'
    <3>1. \A c \in Client : LiveSessions(b, c) \subseteq Req
      BY DEF LiveSessions
    <3>2. TypeOK'
      BY <2>9, <3>1 DEF EndSession, Arrives
    <3>3. ArgsOK'
      BY <2>9 DEF EndSession, Arrives, ArgsOK
    <3> QED
      BY <3>2, <3>3
  <2>10. ASSUME NEW r \in Req, Ban(r) PROVE TypeOK' /\ ArgsOK'
    <3>1. TypeOK'
      BY <2>10 DEF Ban, Arrives
    <3>2. ArgsOK'
      BY <2>10 DEF Ban, Arrives, ArgsOK
    <3> QED
      BY <3>1, <3>2
  <2>11. ASSUME NEW r \in Req, NEW flag \in BOOLEAN, SetActive(r, flag) PROVE TypeOK' /\ ArgsOK'
    <3>1. TypeOK'
      BY <2>11 DEF SetActive, Arrives
    <3>2. ArgsOK'
      BY <2>11 DEF SetActive, Arrives, ArgsOK
    <3> QED
      BY <3>1, <3>2
  <2>12. ASSUME NEW r \in Req, NEW t \in Req, ApiRefresh(r, t) PROVE TypeOK' /\ ArgsOK'
    <3>1. TypeOK'
      BY <2>12, RefreshType DEF ApiRefresh, Arrives
    <3>2. ArgsOK'
      BY <2>12 DEF ApiRefresh, Arrives, ArgsOK
    <3> QED
      BY <3>1, <3>2
  <2>13. ASSUME NEW r \in Req, NEW a \in Req, ApiLogout(r, a) PROVE TypeOK' /\ ArgsOK'
    <3>1. TypeOK'
      BY <2>13, RevokeType DEF ApiLogout, Arrives
    <3>2. ArgsOK'
      BY <2>13 DEF ApiLogout, Arrives, ArgsOK
    <3> QED
      BY <3>1, <3>2
  <2>14. ASSUME NEW r \in Req, InsertSession(r) PROVE TypeOK' /\ ArgsOK'
    <3>1. TypeOK'
      BY <2>14, SessionType DEF InsertSession, ArgsOK
    <3>2. ArgsOK'
      BY <2>14 DEF InsertSession, ArgsOK
    <3> QED
      BY <3>1, <3>2
  <2>15. ASSUME NEW r \in Req, InsertCode(r) PROVE TypeOK' /\ ArgsOK'
    <3>1. TypeOK'
      BY <2>15, InsertCodeType DEF InsertCode
    <3>2. ArgsOK'
      BY <2>15 DEF InsertCode, ArgsOK
    <3> QED
      BY <3>1, <3>2
  <2>16. ASSUME NEW r \in Req, CheckCodeUser(r) PROVE TypeOK' /\ ArgsOK'
    <3>1. TypeOK'
      BY <2>16 DEF CheckCodeUser
    <3>2. ArgsOK'
      BY <2>16 DEF CheckCodeUser, ArgsOK
    <3> QED
      BY <3>1, <3>2
  <2>17. ASSUME NEW r \in Req, InsertCodeAccess(r) PROVE TypeOK' /\ ArgsOK'
    <3>1. TypeOK'
      BY <2>17, InsertAccessType DEF InsertCodeAccess, ArgsOK
    <3>2. ArgsOK'
      BY <2>17 DEF InsertCodeAccess, ArgsOK
    <3> QED
      BY <3>1, <3>2
  <2>18. ASSUME NEW r \in Req, InsertCodeRefresh(r) PROVE TypeOK' /\ ArgsOK'
    <3>1. TypeOK'
      BY <2>18, InsertRefreshType DEF InsertCodeRefresh, ArgsOK
    <3>2. ArgsOK'
      BY <2>18 DEF InsertCodeRefresh, ArgsOK
    <3> QED
      BY <3>1, <3>2
  <2>19. ASSUME NEW r \in Req, SeekReplayed(r) PROVE TypeOK' /\ ArgsOK'
    <3>1. TypeOK'
      BY <2>19 DEF SeekReplayed
    <3>2. ArgsOK'
      BY <2>19 DEF SeekReplayed, ArgsOK
    <3> QED
      BY <3>1, <3>2
  <2>20. ASSUME NEW r \in Req, ReplayAccess(r) PROVE TypeOK' /\ ArgsOK'
    <3>1. TypeOK'
      BY <2>20, RevokeType DEF ReplayAccess
    <3>2. ArgsOK'
      BY <2>20 DEF ReplayAccess, ArgsOK
    <3> QED
      BY <3>1, <3>2
  <2>21. ASSUME NEW r \in Req, ReplayRefresh(r) PROVE TypeOK' /\ ArgsOK'
    <3>1. TypeOK'
      BY <2>21, RevokeType DEF ReplayRefresh
    <3>2. ArgsOK'
      BY <2>21 DEF ReplayRefresh, ArgsOK
    <3> QED
      BY <3>1, <3>2
  <2>22. ASSUME NEW r \in Req, ReuseFamily(r) PROVE TypeOK' /\ ArgsOK'
    <3>1. TypeOK'
      BY <2>22, RevokeType DEF ReuseFamily
    <3>2. ArgsOK'
      BY <2>22 DEF ReuseFamily, ArgsOK
    <3> QED
      BY <3>1, <3>2
  <2>23. ASSUME NEW r \in Req, CheckRefreshUser(r) PROVE TypeOK' /\ ArgsOK'
    <3>1. TypeOK'
      BY <2>23 DEF CheckRefreshUser
    <3>2. ArgsOK'
      BY <2>23 DEF CheckRefreshUser, ArgsOK
    <3> QED
      BY <3>1, <3>2
  <2>24. ASSUME NEW r \in Req, ClaimRefresh(r) PROVE TypeOK' /\ ArgsOK'
    <3>1. TypeOK'
      BY <2>24, RevokeType DEF ClaimRefresh
    <3>2. ArgsOK'
      BY <2>24 DEF ClaimRefresh, ArgsOK
    <3> QED
      BY <3>1, <3>2
  <2>25. ASSUME NEW r \in Req, InsertRotated(r) PROVE TypeOK' /\ ArgsOK'
    <3>1. TypeOK'
      BY <2>25, InsertRefreshType DEF InsertRotated, ArgsOK
    <3>2. ArgsOK'
      BY <2>25 DEF InsertRotated, ArgsOK
    <3> QED
      BY <3>1, <3>2
  <2>26. ASSUME NEW r \in Req, AssessRisk(r) PROVE TypeOK' /\ ArgsOK'
    <3>1. TypeOK'
      BY <2>26 DEF AssessRisk, CallRevokeBySession
    <3>2. ArgsOK'
      BY <2>26 DEF AssessRisk, CallRevokeBySession, ArgsOK
    <3> QED
      BY <3>1, <3>2
  <2>27. ASSUME NEW r \in Req, TerminateRisky(r) PROVE TypeOK' /\ ArgsOK'
    <3>1. TypeOK'
      BY <2>27, SessionType DEF TerminateRisky, ArgsOK
    <3>2. ArgsOK'
      BY <2>27 DEF TerminateRisky, ArgsOK
    <3> QED
      BY <3>1, <3>2
  <2>28. ASSUME NEW r \in Req, InsertRefreshedAccess(r) PROVE TypeOK' /\ ArgsOK'
    <3>1. TypeOK'
      BY <2>28, InsertAccessType DEF InsertRefreshedAccess
    <3>2. ArgsOK'
      BY <2>28 DEF InsertRefreshedAccess, ArgsOK
    <3> QED
      BY <3>1, <3>2
  <2>29. ASSUME NEW r \in Req, RevokeSessionAccess(r) PROVE TypeOK' /\ ArgsOK'
    <3>1. TypeOK'
      BY <2>29, RevokeType DEF RevokeSessionAccess
    <3>2. ArgsOK'
      BY <2>29 DEF RevokeSessionAccess, ArgsOK
    <3> QED
      BY <3>1, <3>2
  <2>30. ASSUME NEW r \in Req, RevokeSessionRefresh(r) PROVE TypeOK' /\ ArgsOK'
    <3>1. TypeOK'
      BY <2>30, RevokeType DEF RevokeSessionRefresh
    <3>2. ArgsOK'
      BY <2>30 DEF RevokeSessionRefresh, ArgsOK
    <3> QED
      BY <3>1, <3>2
  <2>30a. ASSUME NEW r \in Req, NEW verdict \in {"approved", "denied"}, MarkDevice(r, verdict) PROVE TypeOK' /\ ArgsOK'
    <3>1. devs' \in [Req -> DeviceRow]
      BY <2>30a, DeviceType DEF MarkDevice, ArgsOK
    <3>2. TypeOK'
      BY <2>30a, <3>1, DeviceType DEF MarkDevice
    <3>3. ArgsOK'
      BY <2>30a DEF MarkDevice, ArgsOK
    <3> QED
      BY <3>2, <3>3
  <2>31. ASSUME NEW r \in Req, ClaimDevice(r) PROVE TypeOK' /\ ArgsOK'
    <3>1. devs' \in [Req -> DeviceRow]
      BY <2>31, DeviceType DEF ClaimDevice, ArgsOK
    <3>2. TypeOK'
      BY <2>31, <3>1, DeviceType DEF ClaimDevice
    <3>3. ArgsOK'
      BY <2>31 DEF ClaimDevice, ArgsOK
    <3> QED
      BY <3>2, <3>3
  <2>32. ASSUME NEW r \in Req, InsertDeviceAccess(r) PROVE TypeOK' /\ ArgsOK'
    <3>1. TypeOK'
      BY <2>32, InsertAccessType DEF InsertDeviceAccess
    <3>2. ArgsOK'
      BY <2>32 DEF InsertDeviceAccess, ArgsOK
    <3> QED
      BY <3>1, <3>2
  <2>33. ASSUME NEW r \in Req, InsertDeviceRefresh(r) PROVE TypeOK' /\ ArgsOK'
    <3>1. TypeOK'
      BY <2>33, InsertRefreshType DEF InsertDeviceRefresh
    <3>2. ArgsOK'
      BY <2>33 DEF InsertDeviceRefresh, ArgsOK
    <3> QED
      BY <3>1, <3>2
  <2>34. ASSUME NEW r \in Req, RevokeRefreshRow(r) PROVE TypeOK' /\ ArgsOK'
    <3>1. TypeOK'
      BY <2>34, RevokeType DEF RevokeRefreshRow
    <3>2. ArgsOK'
      BY <2>34 DEF RevokeRefreshRow, ArgsOK
    <3> QED
      BY <3>1, <3>2
  <2>35. ASSUME NEW r \in Req, RevokeFamily(r) PROVE TypeOK' /\ ArgsOK'
    <3>1. TypeOK'
      BY <2>35, RevokeType DEF RevokeFamily
    <3>2. ArgsOK'
      BY <2>35 DEF RevokeFamily, ArgsOK
    <3> QED
      BY <3>1, <3>2
  <2>36. ASSUME NEW r \in Req, TerminateNext(r) PROVE TypeOK' /\ ArgsOK'
    <3>1. TypeOK'
      BY <2>36, SessionType DEF TerminateNext, CallRevokeBySession
    <3>2. ArgsOK'
      BY <2>36 DEF TerminateNext, CallRevokeBySession, ArgsOK
    <3> QED
      BY <3>1, <3>2
  <2>37. ASSUME NEW r \in Req, EnqueueLogout(r) PROVE TypeOK' /\ ArgsOK'
    <3>1. TypeOK'
      BY <2>37 DEF EnqueueLogout, ArgsOK
    <3>2. ArgsOK'
      BY <2>37 DEF EnqueueLogout, ArgsOK
    <3> QED
      BY <3>1, <3>2
  <2>38. ASSUME NEW r \in Req, DeleteBrowserSession(r) PROVE TypeOK' /\ ArgsOK'
    <3>1. TypeOK'
      BY <2>38 DEF DeleteBrowserSession
    <3>2. ArgsOK'
      BY <2>38 DEF DeleteBrowserSession, ArgsOK
    <3> QED
      BY <3>1, <3>2
  <2>39. ASSUME NEW r \in Req, BanAccess(r) PROVE TypeOK' /\ ArgsOK'
    <3>1. TypeOK'
      BY <2>39, RevokeType DEF BanAccess
    <3>2. ArgsOK'
      BY <2>39 DEF BanAccess, ArgsOK
    <3> QED
      BY <3>1, <3>2
  <2>40. ASSUME NEW r \in Req, BanRefresh(r) PROVE TypeOK' /\ ArgsOK'
    <3>1. TypeOK'
      BY <2>40, RevokeType DEF BanRefresh
    <3>2. ArgsOK'
      BY <2>40 DEF BanRefresh, ArgsOK
    <3> QED
      BY <3>1, <3>2
  <2>41. ASSUME NEW r \in Req, CheckApiUser(r) PROVE TypeOK' /\ ArgsOK'
    <3>1. TypeOK'
      BY <2>41 DEF CheckApiUser
    <3>2. ArgsOK'
      BY <2>41 DEF CheckApiUser, ArgsOK
    <3> QED
      BY <3>1, <3>2
  <2>42. ASSUME NEW r \in Req, InsertApiAccess(r) PROVE TypeOK' /\ ArgsOK'
    <3>1. TypeOK'
      BY <2>42, InsertAccessType DEF InsertApiAccess
    <3>2. ArgsOK'
      BY <2>42 DEF InsertApiAccess, ArgsOK
    <3> QED
      BY <3>1, <3>2
  <2>43. ASSUME NEW r \in Req, SpendApiRefresh(r) PROVE TypeOK' /\ ArgsOK'
    <3>1. TypeOK'
      BY <2>43, RevokeType DEF SpendApiRefresh
    <3>2. ArgsOK'
      BY <2>43 DEF SpendApiRefresh, ArgsOK
    <3> QED
      BY <3>1, <3>2
  <2>44. ASSUME NEW r \in Req, InsertApiRefresh(r) PROVE TypeOK' /\ ArgsOK'
    <3>1. TypeOK'
      BY <2>44, InsertRefreshType DEF InsertApiRefresh
    <3>2. ArgsOK'
      BY <2>44 DEF InsertApiRefresh, ArgsOK
    <3> QED
      BY <3>1, <3>2
  <2>45. ASSUME NEW r \in Req, LogoutAccess(r) PROVE TypeOK' /\ ArgsOK'
    <3>1. TypeOK'
      BY <2>45, RevokeType DEF LogoutAccess
    <3>2. ArgsOK'
      BY <2>45 DEF LogoutAccess, ArgsOK
    <3> QED
      BY <3>1, <3>2
  <2>46. ASSUME NEW r \in Req, Crash(r) PROVE TypeOK' /\ ArgsOK'
    <3>1. TypeOK'
      BY <2>46 DEF Crash
    <3>2. ArgsOK'
      BY <2>46 DEF Crash, ArgsOK
    <3> QED
      BY <3>1, <3>2
  <2>47. ASSUME Expire PROVE TypeOK' /\ ArgsOK'
    <3>1. codes' \in [Req -> CodeRow]
      BY <2>47, CodeType DEF Expire
    <3>2. devs' \in [Req -> DeviceRow]
      BY <2>47, DeviceExpires DEF Expire
    <3>3. at' \in [Req -> AccessRow]
      BY <2>47, AccessType DEF Expire
    <3>4. rt' \in [Req -> RefreshRow]
      BY <2>47, RefreshType DEF Expire
    <3> QED
      BY <2>47, <3>1, <3>2, <3>3, <3>4 DEF Expire, ArgsOK
  <2>48. ASSUME PurgeRefresh PROVE TypeOK' /\ ArgsOK'
    <3>1. TypeOK'
      BY <2>48, PurgeType DEF PurgeRefresh
    <3>2. ArgsOK'
      BY <2>48 DEF PurgeRefresh, ArgsOK
    <3> QED
      BY <3>1, <3>2
  <2>49. ASSUME PurgeCodes PROVE TypeOK' /\ ArgsOK'
    <3>1. TypeOK'
      BY <2>49, PurgeType DEF PurgeCodes
    <3>2. ArgsOK'
      BY <2>49 DEF PurgeCodes, ArgsOK
    <3> QED
      BY <3>1, <3>2
  <2>50. ASSUME PurgeDevices PROVE TypeOK' /\ ArgsOK'
    <3>1. TypeOK'
      BY <2>50, PurgeType DEF PurgeDevices
    <3>2. ArgsOK'
      BY <2>50 DEF PurgeDevices, ArgsOK
    <3> QED
      BY <3>1, <3>2
  <2>51. ASSUME UNCHANGED vars PROVE TypeOK' /\ ArgsOK'
    BY <2>51 DEF vars, ArgsOK
  <2> HIDE DEF TypeOK, PC, GoTo, tables, locals
  <2> QED
    BY <2>1, <2>2, <2>3, <2>4, <2>5, <2>6, <2>7, <2>8, <2>9, <2>10, <2>11, <2>12, <2>13, <2>14, <2>15, <2>16, <2>17, <2>18, <2>19, <2>20, <2>21, <2>22, <2>23, <2>24, <2>25, <2>26, <2>27, <2>28, <2>29, <2>30, <2>30a, <2>31, <2>32, <2>33, <2>34, <2>35, <2>36, <2>37, <2>38, <2>39, <2>40, <2>41, <2>42, <2>43, <2>44, <2>45, <2>46, <2>47, <2>48, <2>49, <2>50, <2>51 DEF Next, Start, Continue
<1> QED
  BY <1>1, <1>2, PTL DEF Spec

(* In particular the tables and locals are typed in every reachable state.           *)
THEOREM TypeCorrect == Spec => []TypeOK
<1>1. TypeInv => TypeOK
  BY DEF TypeInv
<1> QED
  BY <1>1, TypeInvariant, PTL

--------------------------------------------------------------------------------
(* An authorization code mints once, a refresh-token family is a chain and a dead   *)
(* family stays dead.                                                                *)

(* The two invariants that carry the arguments.                                       *)

BeforeCode == {"idle", "new_session", "new_code"}

(* A request that has not inserted its code has none; a code somebody redeems is spent. *)
CodeInv ==
  /\ \A k \in Req : codes[k].st = "absent" => ~codes[k].exp
  /\ \A r \in Req : pc[r] \in BeforeCode => codes[r].st = "absent"
  /\ \A q, k \in Req : Redeems(q, k) => codes[k].st \in {"used", "purged"}

(* Requests that may still insert a refresh token, and those about to rotate one.      *)
BeforeRefresh == {"idle", "code_user", "code_at", "code_rt", "ref_user", "ref_claim", "ref_rt",
                  "dev_approve", "dev_deny", "dev_claim", "dev_at", "dev_rt", "api_user", "api_at", "api_spend", "api_rt"}
Rotating == {"ref_user", "ref_claim", "ref_rt"}

(* A request that has not inserted its refresh token has none, the root of a family     *)
(* exists, and a rotating request remembers the family of the token it was shown.       *)
FamilyInv ==
  /\ \A r \in Req : pc[r] \in BeforeRefresh => rt[r].st = "absent"
  /\ \A t \in Req : rt[t].st # "absent" /\ rt[t].fam # None => rt[rt[t].fam].st # "absent"
  /\ \A q \in Req : pc[q] \in Rotating => rt[arg[q]].st # "absent" /\ fam[q] = rt[arg[q]].fam

--------------------------------------------------------------------------------
(* Steps that do not matter to codes, and steps that do not matter to families.         *)

CodesQuiet ==
  /\ \A k \in Req : \/ codes'[k] = codes[k]
                    \/ codes[k].st # "absent" /\ codes'[k].st \in {codes[k].st, "purged"}
  /\ \A r \in Req : pc'[r] \in BeforeCode => pc[r] \in BeforeCode
  /\ \A q, k \in Req : Redeems(q, k)' => Redeems(q, k)

FamiliesQuiet ==
  /\ \A t \in Req : /\ rt'[t].fam = rt[t].fam
                    /\ rt'[t].st = "live" => rt[t].st = "live"
                    /\ rt'[t].st = "absent" <=> rt[t].st = "absent"
  /\ \A q \in Req : /\ pc'[q] \in BeforeRefresh => pc[q] \in BeforeRefresh
                    /\ pc'[q] \in Rotating =>
                         pc[q] \in Rotating /\ arg'[q] = arg[q] /\ fam'[q] = fam[q]
                    /\ pc'[q] = "ref_rt" => pc[q] = "ref_rt"

LEMMA CodesQuietStep ==
  ASSUME CodeInv, CodeMintsOnce, CodesQuiet
  PROVE  CodeInv' /\ CodeMintsOnce'
<1>1. CodeInv'
  <2>1. \A k \in Req : codes'[k].st = "absent" => ~codes'[k].exp
    BY DEF CodesQuiet, CodeInv
  <2>2. \A r \in Req : pc'[r] \in BeforeCode => codes'[r].st = "absent"
    BY DEF CodesQuiet, CodeInv
  <2>3. \A q, k \in Req : Redeems(q, k)' => codes'[k].st \in {"used", "purged"}
    BY DEF CodesQuiet, CodeInv
  <2> QED
    BY <2>1, <2>2, <2>3 DEF CodeInv, BeforeCode
<1>2. CodeMintsOnce'
  BY DEF CodesQuiet, CodeMintsOnce
<1> QED
  BY <1>1, <1>2

(* A dead family: the consequent of the action property, as a step.                    *)
DeadStays == \A f \in Req : FamilyDead(f) => FamilyDead(f)'

LEMMA FamiliesQuietStep ==
  ASSUME TypeInv, FamilyInv, RotationIsLinear, FamiliesQuiet
  PROVE  FamilyInv' /\ RotationIsLinear' /\ DeadStays
<1>1. \A t \in Req : rt[t].fam \in Req \cup {None}
  BY RefreshType DEF TypeInv, ReqOrNone
<1>2. \A q \in Req : pc[q] \in Rotating => arg[q] \in Req
  BY DEF TypeInv, ArgsOK, Rotating
<1>3. FamilyInv'
  <2>1. \A r \in Req : pc'[r] \in BeforeRefresh => rt'[r].st = "absent"
    BY DEF FamiliesQuiet, FamilyInv
  <2>2. \A t \in Req : rt'[t].st # "absent" /\ rt'[t].fam # None => rt'[rt'[t].fam].st # "absent"
    BY <1>1 DEF FamiliesQuiet, FamilyInv
  <2>3. \A q \in Req : pc'[q] \in Rotating =>
                         rt'[arg'[q]].st # "absent" /\ fam'[q] = rt'[arg'[q]].fam
    BY <1>2 DEF FamiliesQuiet, FamilyInv
  <2> QED
    BY <2>1, <2>2, <2>3 DEF FamilyInv, BeforeRefresh, Rotating
<1>4. \A q, f \in Req : Carries(q, f)' => Carries(q, f)
  BY DEF FamiliesQuiet, Carries, Rotating
<1>5. RotationIsLinear'
  BY <1>4 DEF RotationIsLinear
<1>6. DeadStays
  BY <1>4 DEF DeadStays, FamilyDead, FamiliesQuiet
<1> QED
  BY <1>3, <1>5, <1>6

(* The bulk UPDATEs only take rows out of use.                                         *)
LEMMA RevokeKeeps ==
  ASSUME TypeOK
  PROVE  \A ids : \A x \in Req :
           /\ Revoke(rt, ids)[x].fam = rt[x].fam
           /\ Revoke(rt, ids)[x].code = rt[x].code
           /\ Revoke(rt, ids)[x].st = "live" => rt[x].st = "live" /\ x \notin ids
           /\ Revoke(rt, ids)[x].st = "absent" <=> rt[x].st = "absent"
           /\ Revoke(at, ids)[x].code = at[x].code
           /\ Revoke(at, ids)[x].st = "absent" <=> at[x].st = "absent"
BY DEF Revoke, TypeOK, RefreshRow, AccessRow

(* The passing of time changes no status but that of an access token that exists.      *)
LEMMA ExpireKeeps ==
  ASSUME TypeOK, Expire
  PROVE  \A x \in Req :
           /\ codes'[x] = codes[x] \/ (codes[x].st # "absent" /\ codes'[x].st = codes[x].st)
           /\ rt'[x].fam = rt[x].fam /\ rt'[x].code = rt[x].code /\ rt'[x].st = rt[x].st
           /\ at'[x].code = at[x].code /\ (at'[x].st = "absent" <=> at[x].st = "absent")
<1>1. ASSUME NEW k \in Req
      PROVE  LET tab == [codes EXCEPT ![k].exp = TRUE]
             IN  \A x \in Req : tab[x].st = codes[x].st /\ (x # k => tab[x] = codes[x])
  BY DEF TypeOK, CodeRow
<1>2. ASSUME NEW t \in Req
      PROVE  LET tab == [rt EXCEPT ![t].exp = TRUE]
             IN  \A x \in Req : tab[x].st = rt[x].st /\ tab[x].fam = rt[x].fam /\ tab[x].code = rt[x].code
  BY DEF TypeOK, RefreshRow
<1>3. ASSUME NEW a \in Req, at[a].st # "absent"
      PROVE  LET tab == [at EXCEPT ![a].st = "purged"]
             IN  \A x \in Req : tab[x].code = at[x].code /\ (tab[x].st = "absent" <=> at[x].st = "absent")
  BY <1>3 DEF TypeOK, AccessRow
<1>4. CASE \E k \in Req : codes[k].st # "absent" /\ codes' = [codes EXCEPT ![k].exp = TRUE] /\ UNCHANGED <<at, rt>>
  BY <1>4, <1>1
<1>5. CASE UNCHANGED <<codes, at, rt>>
  BY <1>5
<1>6. CASE \E t \in Req : rt' = [rt EXCEPT ![t].exp = TRUE] /\ UNCHANGED <<codes, at>>
  BY <1>6, <1>2
<1>7. CASE \E a \in Req : at[a].st # "absent" /\ at' = [at EXCEPT ![a].st = "purged"] /\ UNCHANGED <<codes, rt>>
  BY <1>7, <1>3
<1> QED
  BY <1>4, <1>5, <1>6, <1>7 DEF Expire


(* Only the claim and the issue of a code matter to codes.                              *)
LEMMA MostStepsLeaveCodes ==
  ASSUME TypeInv, CodeInv, [Next]_vars,
         \A r \in Req : ~(\E k \in Req, c \in Client, ok \in BOOLEAN : ClaimCode(r, k, c, ok)),
         \A r \in Req : ~InsertCode(r)
  PROVE  CodesQuiet
<1> USE DEF TypeInv, TypeOK, GoTo, tables, locals, CodesQuiet, Redeems, BeforeCode, ReqOrNone, ClientOrNone
<1>1. ASSUME NEW r \in Req, NEW b \in Browser, NEW c \in Client, NEW ok \in BOOLEAN, Authorize(r, b, c, ok) PROVE CodesQuiet
  BY <1>1 DEF Authorize, Arrives
<1>2. ASSUME NEW r \in Req, NEW t \in Req, NEW c \in Client, Refresh(r, t, c) PROVE CodesQuiet
  BY <1>2 DEF Refresh, Arrives
<1>3. ASSUME NEW r \in Req, NEW c \in Client, DeviceStart(r, c) PROVE CodesQuiet
  BY <1>3 DEF DeviceStart, Arrives
<1>4. ASSUME NEW r \in Req, NEW d \in Req, NEW verdict \in {"approved", "denied"}, DecideDevice(r, d, verdict) PROVE CodesQuiet
  BY <1>4 DEF DecideDevice, Arrives
<1>5. ASSUME NEW r \in Req, NEW d \in Req, NEW c \in Client, PollDevice(r, d, c) PROVE CodesQuiet
  BY <1>5 DEF PollDevice, Arrives
<1>6. ASSUME NEW r \in Req, NEW a \in Req, NEW c \in Client, RevokeAccessToken(r, a, c) PROVE CodesQuiet
  BY <1>6, RevokeKeeps DEF RevokeAccessToken, Arrives
<1>7. ASSUME NEW r \in Req, NEW t \in Req, NEW c \in Client, ResolveRefreshToken(r, t, c) PROVE CodesQuiet
  BY <1>7 DEF ResolveRefreshToken, Arrives
<1>8. ASSUME NEW r \in Req, NEW b \in Browser, EndSession(r, b) PROVE CodesQuiet
  BY <1>8 DEF EndSession, Arrives
<1>9. ASSUME NEW r \in Req, Ban(r) PROVE CodesQuiet
  BY <1>9 DEF Ban, Arrives
<1>10. ASSUME NEW r \in Req, NEW flag \in BOOLEAN, SetActive(r, flag) PROVE CodesQuiet
  BY <1>10 DEF SetActive, Arrives
<1>11. ASSUME NEW r \in Req, NEW t \in Req, ApiRefresh(r, t) PROVE CodesQuiet
  BY <1>11 DEF ApiRefresh, Arrives
<1>12. ASSUME NEW r \in Req, NEW a \in Req, ApiLogout(r, a) PROVE CodesQuiet
  BY <1>12, RevokeKeeps DEF ApiLogout, Arrives
<1>13. ASSUME NEW r \in Req, InsertSession(r) PROVE CodesQuiet
  BY <1>13, NoneAssumption DEF InsertSession
<1>14. ASSUME NEW r \in Req, CheckCodeUser(r) PROVE CodesQuiet
  BY <1>14 DEF CheckCodeUser
<1>15. ASSUME NEW r \in Req, InsertCodeAccess(r) PROVE CodesQuiet
  BY <1>15, NoneAssumption DEF InsertCodeAccess, InsertAccess
<1>16. ASSUME NEW r \in Req, InsertCodeRefresh(r) PROVE CodesQuiet
  BY <1>16, NoneAssumption DEF InsertCodeRefresh, InsertRefresh
<1>17. ASSUME NEW r \in Req, SeekReplayed(r) PROVE CodesQuiet
  BY <1>17 DEF SeekReplayed
<1>18. ASSUME NEW r \in Req, ReplayAccess(r) PROVE CodesQuiet
  BY <1>18, RevokeKeeps DEF ReplayAccess
<1>19. ASSUME NEW r \in Req, ReplayRefresh(r) PROVE CodesQuiet
  BY <1>19, RevokeKeeps DEF ReplayRefresh
<1>20. ASSUME NEW r \in Req, ReuseFamily(r) PROVE CodesQuiet
  BY <1>20, RevokeKeeps DEF ReuseFamily
<1>21. ASSUME NEW r \in Req, CheckRefreshUser(r) PROVE CodesQuiet
  BY <1>21 DEF CheckRefreshUser
<1>22. ASSUME NEW r \in Req, ClaimRefresh(r) PROVE CodesQuiet
  BY <1>22, RevokeKeeps DEF ClaimRefresh
<1>23. ASSUME NEW r \in Req, InsertRotated(r) PROVE CodesQuiet
  BY <1>23, NoneAssumption DEF InsertRotated, InsertRefresh
<1>24. ASSUME NEW r \in Req, AssessRisk(r) PROVE CodesQuiet
  BY <1>24 DEF AssessRisk, CallRevokeBySession
<1>25. ASSUME NEW r \in Req, TerminateRisky(r) PROVE CodesQuiet
  BY <1>25 DEF TerminateRisky
<1>26. ASSUME NEW r \in Req, InsertRefreshedAccess(r) PROVE CodesQuiet
  BY <1>26, NoneAssumption DEF InsertRefreshedAccess, InsertAccess
<1>27. ASSUME NEW r \in Req, RevokeSessionAccess(r) PROVE CodesQuiet
  BY <1>27, RevokeKeeps DEF RevokeSessionAccess
<1>28. ASSUME NEW r \in Req, RevokeSessionRefresh(r) PROVE CodesQuiet
  BY <1>28, RevokeKeeps DEF RevokeSessionRefresh
<1>28a. ASSUME NEW r \in Req, NEW verdict \in {"approved", "denied"}, MarkDevice(r, verdict) PROVE CodesQuiet
  BY <1>28a DEF MarkDevice
<1>29. ASSUME NEW r \in Req, ClaimDevice(r) PROVE CodesQuiet
  BY <1>29 DEF ClaimDevice
<1>30. ASSUME NEW r \in Req, InsertDeviceAccess(r) PROVE CodesQuiet
  BY <1>30, NoneAssumption DEF InsertDeviceAccess, InsertAccess
<1>31. ASSUME NEW r \in Req, InsertDeviceRefresh(r) PROVE CodesQuiet
  BY <1>31, NoneAssumption DEF InsertDeviceRefresh, InsertRefresh
<1>32. ASSUME NEW r \in Req, RevokeRefreshRow(r) PROVE CodesQuiet
  BY <1>32, RevokeKeeps DEF RevokeRefreshRow
<1>33. ASSUME NEW r \in Req, RevokeFamily(r) PROVE CodesQuiet
  BY <1>33, RevokeKeeps DEF RevokeFamily
<1>34. ASSUME NEW r \in Req, TerminateNext(r) PROVE CodesQuiet
  BY <1>34 DEF TerminateNext, CallRevokeBySession
<1>35. ASSUME NEW r \in Req, EnqueueLogout(r) PROVE CodesQuiet
  BY <1>35 DEF EnqueueLogout
<1>36. ASSUME NEW r \in Req, DeleteBrowserSession(r) PROVE CodesQuiet
  BY <1>36 DEF DeleteBrowserSession
<1>37. ASSUME NEW r \in Req, BanAccess(r) PROVE CodesQuiet
  BY <1>37, RevokeKeeps DEF BanAccess
<1>38. ASSUME NEW r \in Req, BanRefresh(r) PROVE CodesQuiet
  BY <1>38, RevokeKeeps DEF BanRefresh
<1>39. ASSUME NEW r \in Req, CheckApiUser(r) PROVE CodesQuiet
  BY <1>39 DEF CheckApiUser
<1>40. ASSUME NEW r \in Req, InsertApiAccess(r) PROVE CodesQuiet
  BY <1>40, NoneAssumption DEF InsertApiAccess, InsertAccess
<1>41. ASSUME NEW r \in Req, SpendApiRefresh(r) PROVE CodesQuiet
  BY <1>41, RevokeKeeps DEF SpendApiRefresh
<1>42. ASSUME NEW r \in Req, InsertApiRefresh(r) PROVE CodesQuiet
  BY <1>42, NoneAssumption DEF InsertApiRefresh, InsertRefresh
<1>43. ASSUME NEW r \in Req, LogoutAccess(r) PROVE CodesQuiet
  BY <1>43, RevokeKeeps DEF LogoutAccess
<1>44. ASSUME NEW r \in Req, Crash(r) PROVE CodesQuiet
  BY <1>44 DEF Crash
<1>45. ASSUME Expire PROVE CodesQuiet
  BY <1>45, ExpireKeeps DEF Expire
<1>46. ASSUME PurgeRefresh PROVE CodesQuiet
  BY <1>46 DEF PurgeRefresh, CodeRow, AccessRow, RefreshRow, CodeInv
<1>47. ASSUME PurgeCodes PROVE CodesQuiet
  BY <1>47 DEF PurgeCodes, CodeRow, AccessRow, RefreshRow, CodeInv
<1>48. ASSUME PurgeDevices PROVE CodesQuiet
  BY <1>48 DEF PurgeDevices
<1>49. ASSUME UNCHANGED vars PROVE CodesQuiet
  BY <1>49 DEF vars
<1> HIDE DEF TypeInv, TypeOK, GoTo, tables, locals, CodesQuiet, Redeems, BeforeCode, ReqOrNone, ClientOrNone
<1> QED
  BY <1>1, <1>2, <1>3, <1>4, <1>5, <1>6, <1>7, <1>8, <1>9, <1>10, <1>11, <1>12, <1>13, <1>14, <1>15, <1>16, <1>17, <1>18, <1>19, <1>20, <1>21, <1>22, <1>23, <1>24, <1>25, <1>26, <1>27, <1>28, <1>28a, <1>29, <1>30, <1>31, <1>32, <1>33, <1>34, <1>35, <1>36, <1>37, <1>38, <1>39, <1>40, <1>41, <1>42, <1>43, <1>44, <1>45, <1>46, <1>47, <1>48, <1>49 DEF Next, Start, Continue

(* Only rotation and the insertion of a refresh token matter to families.               *)
LEMMA MostStepsLeaveFamilies ==
  ASSUME TypeInv, [Next]_vars,
         \A r \in Req : ~(\E t \in Req, c \in Client : Refresh(r, t, c)),
         \A r \in Req : ~ClaimRefresh(r),
         \A r \in Req : ~InsertCodeRefresh(r),
         \A r \in Req : ~InsertRotated(r),
         \A r \in Req : ~InsertDeviceRefresh(r),
         \A r \in Req : ~InsertApiRefresh(r)
  PROVE  FamiliesQuiet
<1> USE DEF TypeInv, TypeOK, GoTo, tables, locals, FamiliesQuiet, BeforeRefresh, Rotating
<1>1. ASSUME NEW r \in Req, NEW b \in Browser, NEW c \in Client, NEW ok \in BOOLEAN, Authorize(r, b, c, ok) PROVE FamiliesQuiet
  BY <1>1 DEF Authorize, Arrives
<1>2. ASSUME NEW r \in Req, NEW k \in Req, NEW c \in Client, NEW ok \in BOOLEAN, ClaimCode(r, k, c, ok) PROVE FamiliesQuiet
  BY <1>2 DEF ClaimCode, Arrives
<1>3. ASSUME NEW r \in Req, NEW c \in Client, DeviceStart(r, c) PROVE FamiliesQuiet
  BY <1>3 DEF DeviceStart, Arrives
<1>4. ASSUME NEW r \in Req, NEW d \in Req, NEW verdict \in {"approved", "denied"}, DecideDevice(r, d, verdict) PROVE FamiliesQuiet
  BY <1>4 DEF DecideDevice, Arrives
<1>5. ASSUME NEW r \in Req, NEW d \in Req, NEW c \in Client, PollDevice(r, d, c) PROVE FamiliesQuiet
  BY <1>5 DEF PollDevice, Arrives
<1>6. ASSUME NEW r \in Req, NEW a \in Req, NEW c \in Client, RevokeAccessToken(r, a, c) PROVE FamiliesQuiet
  BY <1>6, RevokeKeeps DEF RevokeAccessToken, Arrives
<1>7. ASSUME NEW r \in Req, NEW t \in Req, NEW c \in Client, ResolveRefreshToken(r, t, c) PROVE FamiliesQuiet
  BY <1>7 DEF ResolveRefreshToken, Arrives
<1>8. ASSUME NEW r \in Req, NEW b \in Browser, EndSession(r, b) PROVE FamiliesQuiet
  BY <1>8 DEF EndSession, Arrives
<1>9. ASSUME NEW r \in Req, Ban(r) PROVE FamiliesQuiet
  BY <1>9 DEF Ban, Arrives
<1>10. ASSUME NEW r \in Req, NEW flag \in BOOLEAN, SetActive(r, flag) PROVE FamiliesQuiet
  BY <1>10 DEF SetActive, Arrives
<1>11. ASSUME NEW r \in Req, NEW t \in Req, ApiRefresh(r, t) PROVE FamiliesQuiet
  BY <1>11 DEF ApiRefresh, Arrives
<1>12. ASSUME NEW r \in Req, NEW a \in Req, ApiLogout(r, a) PROVE FamiliesQuiet
  BY <1>12, RevokeKeeps DEF ApiLogout, Arrives
<1>13. ASSUME NEW r \in Req, InsertSession(r) PROVE FamiliesQuiet
  BY <1>13, NoneAssumption DEF InsertSession
<1>14. ASSUME NEW r \in Req, InsertCode(r) PROVE FamiliesQuiet
  BY <1>14, NoneAssumption DEF InsertCode
<1>15. ASSUME NEW r \in Req, CheckCodeUser(r) PROVE FamiliesQuiet
  BY <1>15 DEF CheckCodeUser
<1>16. ASSUME NEW r \in Req, InsertCodeAccess(r) PROVE FamiliesQuiet
  BY <1>16, NoneAssumption DEF InsertCodeAccess, InsertAccess
<1>17. ASSUME NEW r \in Req, SeekReplayed(r) PROVE FamiliesQuiet
  BY <1>17 DEF SeekReplayed
<1>18. ASSUME NEW r \in Req, ReplayAccess(r) PROVE FamiliesQuiet
  BY <1>18, RevokeKeeps DEF ReplayAccess
<1>19. ASSUME NEW r \in Req, ReplayRefresh(r) PROVE FamiliesQuiet
  BY <1>19, RevokeKeeps DEF ReplayRefresh
<1>20. ASSUME NEW r \in Req, ReuseFamily(r) PROVE FamiliesQuiet
  BY <1>20, RevokeKeeps DEF ReuseFamily
<1>21. ASSUME NEW r \in Req, CheckRefreshUser(r) PROVE FamiliesQuiet
  BY <1>21 DEF CheckRefreshUser
<1>22. ASSUME NEW r \in Req, AssessRisk(r) PROVE FamiliesQuiet
  BY <1>22 DEF AssessRisk, CallRevokeBySession
<1>23. ASSUME NEW r \in Req, TerminateRisky(r) PROVE FamiliesQuiet
  BY <1>23 DEF TerminateRisky
<1>24. ASSUME NEW r \in Req, InsertRefreshedAccess(r) PROVE FamiliesQuiet
  BY <1>24, NoneAssumption DEF InsertRefreshedAccess, InsertAccess
<1>25. ASSUME NEW r \in Req, RevokeSessionAccess(r) PROVE FamiliesQuiet
  BY <1>25, RevokeKeeps DEF RevokeSessionAccess
<1>26. ASSUME NEW r \in Req, RevokeSessionRefresh(r) PROVE FamiliesQuiet
  BY <1>26, RevokeKeeps DEF RevokeSessionRefresh
<1>26a. ASSUME NEW r \in Req, NEW verdict \in {"approved", "denied"}, MarkDevice(r, verdict) PROVE FamiliesQuiet
  BY <1>26a DEF MarkDevice
<1>27. ASSUME NEW r \in Req, ClaimDevice(r) PROVE FamiliesQuiet
  BY <1>27 DEF ClaimDevice
<1>28. ASSUME NEW r \in Req, InsertDeviceAccess(r) PROVE FamiliesQuiet
  BY <1>28, NoneAssumption DEF InsertDeviceAccess, InsertAccess
<1>29. ASSUME NEW r \in Req, RevokeRefreshRow(r) PROVE FamiliesQuiet
  BY <1>29, RevokeKeeps DEF RevokeRefreshRow
<1>30. ASSUME NEW r \in Req, RevokeFamily(r) PROVE FamiliesQuiet
  BY <1>30, RevokeKeeps DEF RevokeFamily
<1>31. ASSUME NEW r \in Req, TerminateNext(r) PROVE FamiliesQuiet
  BY <1>31 DEF TerminateNext, CallRevokeBySession
<1>32. ASSUME NEW r \in Req, EnqueueLogout(r) PROVE FamiliesQuiet
  BY <1>32 DEF EnqueueLogout
<1>33. ASSUME NEW r \in Req, DeleteBrowserSession(r) PROVE FamiliesQuiet
  BY <1>33 DEF DeleteBrowserSession
<1>34. ASSUME NEW r \in Req, BanAccess(r) PROVE FamiliesQuiet
  BY <1>34, RevokeKeeps DEF BanAccess
<1>35. ASSUME NEW r \in Req, BanRefresh(r) PROVE FamiliesQuiet
  BY <1>35, RevokeKeeps DEF BanRefresh
<1>36. ASSUME NEW r \in Req, CheckApiUser(r) PROVE FamiliesQuiet
  BY <1>36 DEF CheckApiUser
<1>37. ASSUME NEW r \in Req, InsertApiAccess(r) PROVE FamiliesQuiet
  BY <1>37, NoneAssumption DEF InsertApiAccess, InsertAccess
<1>38. ASSUME NEW r \in Req, SpendApiRefresh(r) PROVE FamiliesQuiet
  BY <1>38, RevokeKeeps DEF SpendApiRefresh
<1>39. ASSUME NEW r \in Req, LogoutAccess(r) PROVE FamiliesQuiet
  BY <1>39, RevokeKeeps DEF LogoutAccess
<1>40. ASSUME NEW r \in Req, Crash(r) PROVE FamiliesQuiet
  BY <1>40 DEF Crash
<1>41. ASSUME Expire PROVE FamiliesQuiet
  BY <1>41, ExpireKeeps DEF Expire
<1>42. ASSUME PurgeRefresh PROVE FamiliesQuiet
  BY <1>42 DEF PurgeRefresh, CodeRow, AccessRow, RefreshRow, CodeInv
<1>43. ASSUME PurgeCodes PROVE FamiliesQuiet
  BY <1>43 DEF PurgeCodes, CodeRow, AccessRow, RefreshRow, CodeInv
<1>44. ASSUME PurgeDevices PROVE FamiliesQuiet
  BY <1>44 DEF PurgeDevices
<1>45. ASSUME UNCHANGED vars PROVE FamiliesQuiet
  BY <1>45 DEF vars
<1> HIDE DEF TypeInv, TypeOK, GoTo, tables, locals, FamiliesQuiet, BeforeRefresh, Rotating
<1> QED
  BY <1>1, <1>2, <1>3, <1>4, <1>5, <1>6, <1>7, <1>8, <1>9, <1>10, <1>11, <1>12, <1>13, <1>14, <1>15, <1>16, <1>17, <1>18, <1>19, <1>20, <1>21, <1>22, <1>23, <1>24, <1>25, <1>26, <1>26a, <1>27, <1>28, <1>29, <1>30, <1>31, <1>32, <1>33, <1>34, <1>35, <1>36, <1>37, <1>38, <1>39, <1>40, <1>41, <1>42, <1>43, <1>44, <1>45 DEF Next, Start, Continue

--------------------------------------------------------------------------------
(* Authorization codes.                                                               *)

(* The claim: nobody can have redeemed a fresh code, and afterwards only r does.         *)
LEMMA ClaimCodeStep ==
  ASSUME TypeInv, CodeInv, CodeMintsOnce,
         NEW r \in Req, NEW k \in Req, NEW c \in Client, NEW ok \in BOOLEAN, ClaimCode(r, k, c, ok)
  PROVE  CodeInv' /\ CodeMintsOnce'
<1> USE DEF TypeInv, TypeOK, GoTo, BeforeCode
<1>1. CASE Claimable(k, c)
  <2>1. \A q \in Req : ~Redeems(q, k)
    BY <1>1 DEF Claimable, CodeInv
  <2>2. /\ \A x \in Req \ {k} : codes'[x] = codes[x]
        /\ codes'[k].st = "used"
    BY <1>1 DEF ClaimCode, CodeRow
  <2>3. \A q, x \in Req : Redeems(q, x)' => Redeems(q, x) \/ (q = r /\ x = k)
    <3>1. /\ at' = at /\ rt' = rt /\ arg'[r] = k
          /\ \A q \in Req \ {r} : pc'[q] = pc[q] /\ arg'[q] = arg[q]
      BY <1>1 DEF ClaimCode
    <3> QED
      BY <3>1 DEF Redeems
  <2>4. \A x \in Req : pc'[x] \in BeforeCode => pc[x] \in BeforeCode
    BY <1>1 DEF ClaimCode, Arrives
  <2>5. codes[k].st # "absent"
    BY <1>1 DEF Claimable
  <2> HIDE DEF TypeInv, TypeOK, GoTo, BeforeCode
  <2>6. \A x \in Req : codes'[x].st = "absent" => ~codes'[x].exp
    BY <2>2 DEF CodeInv
  <2>7. \A x \in Req : pc'[x] \in BeforeCode => codes'[x].st = "absent"
    BY <2>2, <2>4, <2>5 DEF CodeInv
  <2>8. \A q, x \in Req : Redeems(q, x)' => codes'[x].st \in {"used", "purged"}
    BY <2>2, <2>3 DEF CodeInv
  <2>9. CodeMintsOnce'
    BY <2>1, <2>3 DEF CodeMintsOnce
  <2> QED
    BY <2>6, <2>7, <2>8, <2>9 DEF CodeInv, BeforeCode
<1>2. CASE ~Claimable(k, c)
  <2>1. CodesQuiet
    BY <1>2 DEF ClaimCode, Arrives, CodesQuiet, Redeems
  <2> QED
    BY <2>1, CodesQuietStep
<1> QED
  BY <1>1, <1>2

(* The issue: r had no code yet, so nobody has redeemed the one it inserts.              *)
LEMMA InsertCodeStep ==
  ASSUME TypeInv, CodeInv, CodeMintsOnce, NEW r \in Req, InsertCode(r)
  PROVE  CodeInv' /\ CodeMintsOnce'
<1> USE DEF TypeInv, TypeOK, GoTo, BeforeCode
<1>1. codes[r].st = "absent"
  BY DEF InsertCode, CodeInv
<1>2. \A q \in Req : ~Redeems(q, r)
  BY <1>1 DEF CodeInv
<1>3. /\ \A x \in Req \ {r} : codes'[x] = codes[x]
      /\ codes'[r].st = "fresh"
  BY DEF InsertCode
<1>4. \A q, x \in Req : Redeems(q, x)' => Redeems(q, x)
  BY DEF InsertCode, Redeems, locals
<1>5. \A x \in Req : pc'[x] \in BeforeCode => pc[x] \in BeforeCode /\ x # r
  BY DEF InsertCode
<1> HIDE DEF TypeInv, TypeOK, GoTo, BeforeCode
<1>6. \A x \in Req : codes'[x].st = "absent" => ~codes'[x].exp
  BY <1>3 DEF CodeInv
<1>7. \A x \in Req : pc'[x] \in BeforeCode => codes'[x].st = "absent"
  BY <1>3, <1>5 DEF CodeInv
<1>8. \A q, x \in Req : Redeems(q, x)' => codes'[x].st \in {"used", "purged"}
  BY <1>2, <1>3, <1>4 DEF CodeInv
<1>9. CodeMintsOnce'
  BY <1>4 DEF CodeMintsOnce
<1> QED
  BY <1>6, <1>7, <1>8, <1>9 DEF CodeInv, BeforeCode

(* A code that was redeemed stays redeemed, by one request.                               *)
LEMMA CodeInvariant == Spec => []CodeInv /\ []CodeMintsOnce
<1>1. Init => CodeInv /\ CodeMintsOnce
  BY DEF Init, CodeInv, CodeMintsOnce, Redeems, NoCode, NoAccess, NoRefresh, BeforeCode
<1>2. TypeInv /\ CodeInv /\ CodeMintsOnce /\ [Next]_vars => CodeInv' /\ CodeMintsOnce'
  <2> SUFFICES ASSUME TypeInv, CodeInv, CodeMintsOnce, [Next]_vars
               PROVE  CodeInv' /\ CodeMintsOnce'
    OBVIOUS
  <2>1. CASE \E r, k \in Req, c \in Client, ok \in BOOLEAN : ClaimCode(r, k, c, ok)
    BY <2>1, ClaimCodeStep
  <2>2. CASE \E r \in Req : InsertCode(r)
    BY <2>2, InsertCodeStep
  <2>3. CASE /\ \A r \in Req : ~(\E k \in Req, c \in Client, ok \in BOOLEAN : ClaimCode(r, k, c, ok))
             /\ \A r \in Req : ~InsertCode(r)
    BY <2>3, MostStepsLeaveCodes, CodesQuietStep
  <2> QED
    BY <2>1, <2>2, <2>3
<1> QED
  BY <1>1, <1>2, TypeInvariant, PTL DEF Spec

(* However many requests present a code at once, at most one ever obtains tokens for it. *)
THEOREM CodeMintsOnceTheorem == Spec => []CodeMintsOnce
BY CodeInvariant, PTL

--------------------------------------------------------------------------------
(* Refresh-token families.                                                            *)

(* A request learns the family of the token it presents; nothing is rotated yet.        *)
LEMMA RefreshStep ==
  ASSUME TypeInv, FamilyInv, RotationIsLinear,
         NEW r \in Req, NEW t \in Req, NEW c \in Client, Refresh(r, t, c)
  PROVE  FamilyInv' /\ RotationIsLinear' /\ DeadStays
<1>1. /\ rt' = rt /\ arg'[r] = t /\ fam'[r] = rt[t].fam /\ rt[t].st # "absent"
      /\ pc[r] = "idle" /\ pc'[r] \notin {"idle", "ref_rt"}
      /\ \A q \in Req \ {r} : pc'[q] = pc[q] /\ arg'[q] = arg[q] /\ fam'[q] = fam[q]
  BY DEF Refresh, Arrives, GoTo, TypeInv, TypeOK, tables
<1>2. FamilyInv'
  BY <1>1 DEF FamilyInv, BeforeRefresh, Rotating
<1>3. \A q, f \in Req : Carries(q, f)' <=> Carries(q, f)
  BY <1>1 DEF Carries
<1>4. RotationIsLinear'
  BY <1>3 DEF RotationIsLinear
<1>5. DeadStays
  BY <1>1, <1>3 DEF DeadStays, FamilyDead
<1> QED
  BY <1>2, <1>4, <1>5

(* The claim hands the family from the presented token to the request that claimed it.  *)
LEMMA ClaimRefreshStep ==
  ASSUME TypeInv, FamilyInv, RotationIsLinear, NEW r \in Req, ClaimRefresh(r)
  PROVE  FamilyInv' /\ RotationIsLinear' /\ DeadStays
<1>1. /\ pc[r] = "ref_claim" /\ arg[r] \in Req /\ arg' = arg /\ fam' = fam
      /\ pc'[r] \in {"ref_rt", "failed"}
      /\ pc'[r] = "ref_rt" => rt[arg[r]].st = "live"
      /\ \A q \in Req \ {r} : pc'[q] = pc[q]
  BY DEF ClaimRefresh, GoTo, TypeInv, TypeOK, ArgsOK, locals
<1>2. \A x \in Req : /\ rt'[x].fam = rt[x].fam
                     /\ rt'[x].st = "live" => rt[x].st = "live" /\ x # arg[r]
                     /\ rt'[x].st = "absent" <=> rt[x].st = "absent"
  BY RevokeKeeps DEF TypeInv, ClaimRefresh
<1>3. fam[r] = rt[arg[r]].fam
  BY <1>1 DEF FamilyInv, Rotating
<1>4. FamilyInv'
  <2>1. \A x \in Req : pc'[x] \in BeforeRefresh => rt'[x].st = "absent"
    BY <1>1, <1>2 DEF FamilyInv, BeforeRefresh
  <2>2. \A x \in Req : rt'[x].st # "absent" /\ rt'[x].fam # None => rt'[rt'[x].fam].st # "absent"
    BY <1>2, RefreshType DEF FamilyInv, TypeInv, ReqOrNone
  <2>3. \A q \in Req : pc'[q] \in Rotating =>
                         rt'[arg'[q]].st # "absent" /\ fam'[q] = rt'[arg'[q]].fam
    <3>1. \A q \in Req : pc'[q] \in Rotating => pc[q] \in Rotating
      BY <1>1 DEF Rotating
    <3>2. \A q \in Req : pc[q] \in Rotating => arg[q] \in Req
      BY DEF TypeInv, ArgsOK, Rotating
    <3> QED
      BY <1>1, <1>2, <3>1, <3>2 DEF FamilyInv
  <2> QED
    BY <2>1, <2>2, <2>3 DEF FamilyInv, BeforeRefresh, Rotating
<1>5. \A q, f \in Req : Carries(q, f)' => \/ Carries(q, f) /\ q # arg[r]
                                          \/ q = r /\ Carries(arg[r], f)
  <2>1. rt[arg[r]].st # "absent" /\ pc[arg[r]] # "ref_rt" /\ arg[r] # r
    BY <1>1 DEF FamilyInv, BeforeRefresh, Rotating
  <2>2. ASSUME NEW q \in Req, NEW f \in Req, rt'[q].st = "live", rt'[q].fam = f
        PROVE  Carries(q, f) /\ q # arg[r]
    BY <1>2, <2>2 DEF Carries
  <2>3. ASSUME NEW q \in Req, NEW f \in Req, pc'[q] = "ref_rt", fam'[q] = f, q # r
        PROVE  Carries(q, f) /\ q # arg[r]
    BY <1>1, <2>1, <2>3 DEF Carries
  <2>4. ASSUME NEW f \in Req, pc'[r] = "ref_rt", fam'[r] = f
        PROVE  Carries(arg[r], f)
    BY <1>1, <1>3, <2>4 DEF Carries
  <2> QED
    BY <2>2, <2>3, <2>4 DEF Carries
<1>6. RotationIsLinear'
  BY <1>1, <1>5 DEF RotationIsLinear
<1>7. DeadStays
  BY <1>1, <1>2, <1>5 DEF DeadStays, FamilyDead
<1> QED
  BY <1>4, <1>6, <1>7

(* An inserted refresh token that joins no family, opens its own, or takes the place of   *)
(* the rotation its request has in progress.                                             *)
LEMMA InsertStep ==
  ASSUME TypeInv, FamilyInv, RotationIsLinear, NEW r \in Req, NEW f,
         pc[r] \in BeforeRefresh, pc'[r] \notin BeforeRefresh,
         \A q \in Req \ {r} : pc'[q] = pc[q], arg' = arg, fam' = fam,
         rt'[r].st = "live", rt'[r].fam = f, \A x \in Req \ {r} : rt'[x] = rt[x],
         f \in {None, r} \/ (pc[r] = "ref_rt" /\ f = fam[r] /\ f \in Req)
  PROVE  FamilyInv' /\ RotationIsLinear' /\ DeadStays
<1>1. rt[r].st = "absent"
  BY DEF FamilyInv
<1>2. \A x \in Req : rt[x].fam \in Req \cup {None}
  BY RefreshType DEF TypeInv, ReqOrNone
<1>3. \A q \in Req : pc[q] \in Rotating => arg[q] \in Req /\ arg[q] # r
  BY <1>1 DEF TypeInv, ArgsOK, Rotating, FamilyInv
<1>4. \A q \in Req : pc'[q] \in Rotating => pc[q] \in Rotating /\ q # r
  BY DEF Rotating, BeforeRefresh
<1>5. f \in Req /\ f # r => rt[f].st # "absent"
  <2>1. CASE pc[r] = "ref_rt" /\ f = fam[r] /\ f \in Req
    <3>1. arg[r] \in Req /\ rt[arg[r]].st # "absent" /\ rt[arg[r]].fam = f
      BY <2>1, <1>3 DEF FamilyInv, Rotating
    <3> QED
      BY <3>1, <2>1, NoneAssumption DEF FamilyInv
  <2>2. CASE f \in {None, r}
    BY <2>2, NoneAssumption
  <2> QED
    BY <2>1, <2>2
<1>6. FamilyInv'
  <2>1. \A x \in Req : pc'[x] \in BeforeRefresh => rt'[x].st = "absent"
    BY DEF FamilyInv
  <2>2. \A x \in Req : rt'[x].st # "absent" /\ rt'[x].fam # None => rt'[rt'[x].fam].st # "absent"
    <3>1. \A x \in Req : rt[x].st # "absent" => rt'[x].st # "absent"
      BY <1>1
    <3>2. rt'[r].fam # None => rt'[rt'[r].fam].st # "absent"
      BY <1>5, <3>1
    <3> QED
      BY <1>2, <3>1, <3>2 DEF FamilyInv
  <2>3. \A q \in Req : pc'[q] \in Rotating =>
                         rt'[arg'[q]].st # "absent" /\ fam'[q] = rt'[arg'[q]].fam
    BY <1>3, <1>4 DEF FamilyInv
  <2> QED
    BY <2>1, <2>2, <2>3 DEF FamilyInv, BeforeRefresh, Rotating
<1>7. \A q \in Req : ~Carries(q, r)
  <2>1. \A q \in Req : rt[q].st # "absent" => rt[q].fam # r
    BY <1>1, NoneAssumption DEF FamilyInv
  <2>2. \A q \in Req : pc[q] \in Rotating => fam[q] # r
    BY <1>3, <2>1 DEF FamilyInv
  <2> QED
    BY <2>1, <2>2 DEF Carries, Rotating
<1>8. \A q, g \in Req : Carries(q, g)' => Carries(q, g) \/ (q = r /\ g = r /\ f = r)
  BY <1>4, NoneAssumption DEF Carries, Rotating
<1>9. RotationIsLinear'
  BY <1>7, <1>8 DEF RotationIsLinear
<1>10. DeadStays
  BY <1>1, <1>8 DEF DeadStays, FamilyDead
<1> QED
  BY <1>6, <1>9, <1>10

(* The four places that issue a refresh token.                                         *)
LEMMA InsertingStep ==
  ASSUME TypeInv, FamilyInv, RotationIsLinear, NEW r \in Req,
         InsertCodeRefresh(r) \/ InsertRotated(r) \/ InsertDeviceRefresh(r) \/ InsertApiRefresh(r)
  PROVE  FamilyInv' /\ RotationIsLinear' /\ DeadStays
<1> USE DEF TypeInv, TypeOK, GoTo, locals, InsertRefresh, BeforeRefresh
<1>1. CASE InsertCodeRefresh(r)
  BY <1>1, InsertStep DEF InsertCodeRefresh
<1>2. CASE InsertDeviceRefresh(r)
  BY <1>2, InsertStep DEF InsertDeviceRefresh
<1>3. CASE InsertApiRefresh(r)
  BY <1>3, InsertStep DEF InsertApiRefresh
<1>4. CASE InsertRotated(r)
  <2>1. CASE fam[r] = None
    BY <1>4, <2>1, InsertStep DEF InsertRotated
  <2>2. CASE fam[r] # None
    BY <1>4, <2>2, InsertStep DEF InsertRotated, ReqOrNone
  <2> QED
    BY <2>1, <2>2
<1> QED
  BY <1>1, <1>2, <1>3, <1>4

LEMMA FamilyStep ==
  ASSUME TypeInv, FamilyInv, RotationIsLinear, [Next]_vars
  PROVE  FamilyInv' /\ RotationIsLinear' /\ DeadStays
<1>1. CASE \E r, t \in Req, c \in Client : Refresh(r, t, c)
  BY <1>1, RefreshStep
<1>2. CASE \E r \in Req : ClaimRefresh(r)
  BY <1>2, ClaimRefreshStep
<1>3. CASE \E r \in Req : \/ InsertCodeRefresh(r) \/ InsertRotated(r)
                         \/ InsertDeviceRefresh(r) \/ InsertApiRefresh(r)
  BY <1>3, InsertingStep
<1>4. CASE /\ \A r \in Req : ~(\E t \in Req, c \in Client : Refresh(r, t, c))
           /\ \A r \in Req : ~ClaimRefresh(r) /\ ~InsertCodeRefresh(r) /\ ~InsertRotated(r)
                             /\ ~InsertDeviceRefresh(r) /\ ~InsertApiRefresh(r)
  BY <1>4, MostStepsLeaveFamilies, FamiliesQuietStep
<1> QED
  BY <1>1, <1>2, <1>3, <1>4

LEMMA FamilyInit == Init => FamilyInv /\ RotationIsLinear
BY NoneAssumption DEF Init, FamilyInv, RotationIsLinear, Carries, NoRefresh, Rotating

(* A family never has two live refresh tokens, nor one beside a rotation in progress.   *)
THEOREM RotationIsLinearTheorem == Spec => []RotationIsLinear
<1>1. TypeInv /\ FamilyInv /\ RotationIsLinear /\ [Next]_vars => FamilyInv' /\ RotationIsLinear'
  BY FamilyStep
<1> QED
  BY <1>1, FamilyInit, TypeInvariant, PTL DEF Spec

(* A family whose tokens are all revoked is never revived.                               *)
THEOREM DeadFamilyStaysDeadTheorem == Spec => DeadFamilyStaysDead
<1>1. TypeInv /\ FamilyInv /\ RotationIsLinear /\ [Next]_vars => FamilyInv' /\ RotationIsLinear'
  BY FamilyStep
<1>2. TypeInv /\ FamilyInv /\ RotationIsLinear /\ [Next]_vars
      => [\A f \in Req : FamilyDead(f) => FamilyDead(f)']_vars
  BY FamilyStep DEF DeadStays
<1> QED
  BY <1>1, <1>2, FamilyInit, TypeInvariant, PTL DEF Spec, DeadFamilyStaysDead

--------------------------------------------------------------------------------
(* The administrator's ban.                                                           *)

(* The bulk UPDATEs, seen from the tables' live rows.                                   *)
LEMMA RevokeRevivesNothing ==
  ASSUME TypeOK
  PROVE  \A ids : \A x \in Req :
           /\ Revoke(at, ids)[x].st = "live" => at[x].st = "live"
           /\ Revoke(rt, ids)[x].st = "live" => rt[x].st = "live"
BY DEF Revoke, TypeOK, AccessRow, RefreshRow

(* Neither time nor the cleanup job makes a token live or a device code approved.       *)
LEMMA TimeRevivesNothing ==
  ASSUME TypeOK, Expire \/ PurgeRefresh \/ PurgeCodes \/ PurgeDevices
  PROVE  /\ \A x \in Req :
              /\ at'[x].st = "live" => at[x].st = "live"
              /\ rt'[x].st = "live" => rt[x].st = "live"
              /\ devs'[x].st = "approved" => devs[x].st = "approved"
         /\ pc' = pc /\ active' = active
<1>1. CASE PurgeRefresh
  BY <1>1 DEF PurgeRefresh, TypeOK, RefreshRow
<1>2. CASE PurgeCodes
  BY <1>2 DEF PurgeCodes
<1>3. CASE PurgeDevices
  BY <1>3 DEF PurgeDevices, TypeOK, DeviceRow
<1>4. CASE Expire
  <2>1. \A x \in Req : rt'[x].st = "live" => rt[x].st = "live"
    BY <1>4, ExpireKeeps
  <2>2. CASE \E d \in Req : devs' = [devs EXCEPT ![d].exp = TRUE] /\ at' = at
    <3>1. PICK d \in Req : devs' = [devs EXCEPT ![d].exp = TRUE] /\ at' = at
      BY <2>2
    <3>2. \A x \in Req : devs'[x].st = devs[x].st
      BY <3>1 DEF TypeOK, DeviceRow
    <3> QED
      BY <1>4, <2>1, <3>1, <3>2 DEF Expire
  <2>3. CASE \E a \in Req : at' = [at EXCEPT ![a].st = "purged"] /\ devs' = devs
    <3>1. PICK a \in Req : at' = [at EXCEPT ![a].st = "purged"] /\ devs' = devs
      BY <2>3
    <3>2. \A x \in Req : at'[x].st = "live" => at[x].st = "live"
      BY <3>1 DEF TypeOK, AccessRow
    <3> QED
      BY <1>4, <2>1, <3>1, <3>2 DEF Expire
  <2>4. CASE devs' = devs /\ at' = at
    BY <1>4, <2>1, <2>4 DEF Expire
  <2> QED
    BY <1>4, <2>2, <2>3, <2>4 DEF Expire
<1> QED
  BY <1>1, <1>2, <1>3, <1>4

LEMMA BanStep ==
  ASSUME TypeInv, LockedOut, [Next]_vars
  PROVE  LockedOut' \/ active'
<1> USE DEF TypeInv, TypeOK, GoTo, tables, locals, LockedOut, Minting
<1>1. ASSUME NEW r \in Req, NEW b \in Browser, NEW c \in Client, NEW ok \in BOOLEAN, Authorize(r, b, c, ok) PROVE LockedOut' \/ active'
  BY <1>1 DEF Authorize, Arrives
<1>2. ASSUME NEW r \in Req, NEW k \in Req, NEW c \in Client, NEW ok \in BOOLEAN, ClaimCode(r, k, c, ok) PROVE LockedOut' \/ active'
  BY <1>2 DEF ClaimCode, Arrives
<1>3. ASSUME NEW r \in Req, NEW t \in Req, NEW c \in Client, Refresh(r, t, c) PROVE LockedOut' \/ active'
  BY <1>3 DEF Refresh, Arrives
<1>4. ASSUME NEW r \in Req, NEW c \in Client, DeviceStart(r, c) PROVE LockedOut' \/ active'
  BY <1>4 DEF DeviceStart, Arrives
<1>5. ASSUME NEW r \in Req, NEW d \in Req, NEW verdict \in {"approved", "denied"}, DecideDevice(r, d, verdict) PROVE LockedOut' \/ active'
  BY <1>5 DEF DecideDevice, Arrives
<1>6. ASSUME NEW r \in Req, NEW d \in Req, NEW c \in Client, PollDevice(r, d, c) PROVE LockedOut' \/ active'
  BY <1>6 DEF PollDevice, Arrives
<1>7. ASSUME NEW r \in Req, NEW a \in Req, NEW c \in Client, RevokeAccessToken(r, a, c) PROVE LockedOut' \/ active'
  BY <1>7, RevokeRevivesNothing DEF RevokeAccessToken, Arrives
<1>8. ASSUME NEW r \in Req, NEW t \in Req, NEW c \in Client, ResolveRefreshToken(r, t, c) PROVE LockedOut' \/ active'
  BY <1>8 DEF ResolveRefreshToken, Arrives
<1>9. ASSUME NEW r \in Req, NEW b \in Browser, EndSession(r, b) PROVE LockedOut' \/ active'
  BY <1>9 DEF EndSession, Arrives
<1>10. ASSUME NEW r \in Req, Ban(r) PROVE LockedOut' \/ active'
  BY <1>10 DEF Ban, Arrives
<1>11. ASSUME NEW r \in Req, NEW flag \in BOOLEAN, SetActive(r, flag) PROVE LockedOut' \/ active'
  BY <1>11 DEF SetActive, Arrives
<1>12. ASSUME NEW r \in Req, NEW t \in Req, ApiRefresh(r, t) PROVE LockedOut' \/ active'
  BY <1>12 DEF ApiRefresh, Arrives
<1>13. ASSUME NEW r \in Req, NEW a \in Req, ApiLogout(r, a) PROVE LockedOut' \/ active'
  BY <1>13, RevokeRevivesNothing DEF ApiLogout, Arrives
<1>14. ASSUME NEW r \in Req, InsertSession(r) PROVE LockedOut' \/ active'
  BY <1>14 DEF InsertSession
<1>15. ASSUME NEW r \in Req, InsertCode(r) PROVE LockedOut' \/ active'
  BY <1>15 DEF InsertCode
<1>16. ASSUME NEW r \in Req, CheckCodeUser(r) PROVE LockedOut' \/ active'
  BY <1>16 DEF CheckCodeUser
<1>17. ASSUME NEW r \in Req, InsertCodeAccess(r) PROVE LockedOut' \/ active'
  BY <1>17 DEF InsertCodeAccess
<1>18. ASSUME NEW r \in Req, InsertCodeRefresh(r) PROVE LockedOut' \/ active'
  BY <1>18 DEF InsertCodeRefresh
<1>19. ASSUME NEW r \in Req, SeekReplayed(r) PROVE LockedOut' \/ active'
  BY <1>19 DEF SeekReplayed
<1>20. ASSUME NEW r \in Req, ReplayAccess(r) PROVE LockedOut' \/ active'
  BY <1>20, RevokeRevivesNothing DEF ReplayAccess
<1>21. ASSUME NEW r \in Req, ReplayRefresh(r) PROVE LockedOut' \/ active'
  BY <1>21, RevokeRevivesNothing DEF ReplayRefresh
<1>22. ASSUME NEW r \in Req, ReuseFamily(r) PROVE LockedOut' \/ active'
  BY <1>22, RevokeRevivesNothing DEF ReuseFamily
<1>23. ASSUME NEW r \in Req, CheckRefreshUser(r) PROVE LockedOut' \/ active'
  BY <1>23 DEF CheckRefreshUser
<1>24. ASSUME NEW r \in Req, ClaimRefresh(r) PROVE LockedOut' \/ active'
  BY <1>24, RevokeRevivesNothing DEF ClaimRefresh, ArgsOK
<1>25. ASSUME NEW r \in Req, InsertRotated(r) PROVE LockedOut' \/ active'
  BY <1>25 DEF InsertRotated
<1>26. ASSUME NEW r \in Req, AssessRisk(r) PROVE LockedOut' \/ active'
  BY <1>26 DEF AssessRisk, CallRevokeBySession
<1>27. ASSUME NEW r \in Req, TerminateRisky(r) PROVE LockedOut' \/ active'
  BY <1>27 DEF TerminateRisky
<1>28. ASSUME NEW r \in Req, InsertRefreshedAccess(r) PROVE LockedOut' \/ active'
  BY <1>28 DEF InsertRefreshedAccess
<1>29. ASSUME NEW r \in Req, RevokeSessionAccess(r) PROVE LockedOut' \/ active'
  BY <1>29, RevokeRevivesNothing DEF RevokeSessionAccess
<1>30. ASSUME NEW r \in Req, RevokeSessionRefresh(r) PROVE LockedOut' \/ active'
  BY <1>30, RevokeRevivesNothing DEF RevokeSessionRefresh
<1>30a. ASSUME NEW r \in Req, NEW verdict \in {"approved", "denied"}, MarkDevice(r, verdict) PROVE LockedOut' \/ active'
  <2>1. /\ pc[r] = "dev_deny" /\ verdict = "denied" /\ ~active /\ ~active'
        /\ \A x \in Req : devs[x].st # "approved"
    BY <1>30a DEF MarkDevice
  <2>2. PICK d \in Req : d = arg[r]
    BY <2>1 DEF ArgsOK, TypeInv
  <2>3. devs' = devs \/ devs' = [devs EXCEPT ![d].st = "denied"]
    BY <1>30a, <2>1, <2>2 DEF MarkDevice
  <2>4. \A x \in Req : devs'[x].st # "approved"
    <3>1. devs \in [Req -> DeviceRow]
      BY DEF TypeInv
    <3> HIDE DEF TypeInv, TypeOK, LockedOut
    <3>2. \A x \in Req : devs'[x].st = devs[x].st \/ devs'[x].st = "denied"
      BY <2>2, <2>3, <3>1 DEF DeviceRow
    <3> QED
      BY <2>1, <3>2
  <2>5. /\ UNCHANGED <<at, rt>>
        /\ \A x \in Req : pc'[x] = pc[x] \/ pc'[x] \in {"ok", "failed"}
    BY <1>30a DEF MarkDevice
  <2> QED
    BY <2>1, <2>4, <2>5
<1>31. ASSUME NEW r \in Req, ClaimDevice(r) PROVE LockedOut' \/ active'
  BY <1>31 DEF ClaimDevice, ArgsOK
<1>32. ASSUME NEW r \in Req, InsertDeviceAccess(r) PROVE LockedOut' \/ active'
  BY <1>32 DEF InsertDeviceAccess
<1>33. ASSUME NEW r \in Req, InsertDeviceRefresh(r) PROVE LockedOut' \/ active'
  BY <1>33 DEF InsertDeviceRefresh
<1>34. ASSUME NEW r \in Req, RevokeRefreshRow(r) PROVE LockedOut' \/ active'
  BY <1>34, RevokeRevivesNothing DEF RevokeRefreshRow
<1>35. ASSUME NEW r \in Req, RevokeFamily(r) PROVE LockedOut' \/ active'
  BY <1>35, RevokeRevivesNothing DEF RevokeFamily
<1>36. ASSUME NEW r \in Req, TerminateNext(r) PROVE LockedOut' \/ active'
  BY <1>36 DEF TerminateNext, CallRevokeBySession
<1>37. ASSUME NEW r \in Req, EnqueueLogout(r) PROVE LockedOut' \/ active'
  BY <1>37 DEF EnqueueLogout
<1>38. ASSUME NEW r \in Req, DeleteBrowserSession(r) PROVE LockedOut' \/ active'
  BY <1>38 DEF DeleteBrowserSession
<1>39. ASSUME NEW r \in Req, BanAccess(r) PROVE LockedOut' \/ active'
  BY <1>39, RevokeRevivesNothing DEF BanAccess
<1>40. ASSUME NEW r \in Req, BanRefresh(r) PROVE LockedOut' \/ active'
  BY <1>40, RevokeRevivesNothing DEF BanRefresh
<1>41. ASSUME NEW r \in Req, CheckApiUser(r) PROVE LockedOut' \/ active'
  BY <1>41 DEF CheckApiUser
<1>42. ASSUME NEW r \in Req, InsertApiAccess(r) PROVE LockedOut' \/ active'
  BY <1>42 DEF InsertApiAccess
<1>43. ASSUME NEW r \in Req, SpendApiRefresh(r) PROVE LockedOut' \/ active'
  BY <1>43, RevokeRevivesNothing DEF SpendApiRefresh
<1>44. ASSUME NEW r \in Req, InsertApiRefresh(r) PROVE LockedOut' \/ active'
  BY <1>44 DEF InsertApiRefresh
<1>45. ASSUME NEW r \in Req, LogoutAccess(r) PROVE LockedOut' \/ active'
  BY <1>45, RevokeRevivesNothing DEF LogoutAccess
<1>46. ASSUME NEW r \in Req, Crash(r) PROVE LockedOut' \/ active'
  BY <1>46 DEF Crash
<1>47. ASSUME Expire \/ PurgeRefresh \/ PurgeCodes \/ PurgeDevices PROVE LockedOut' \/ active'
  BY <1>47, TimeRevivesNothing
<1>48. ASSUME UNCHANGED vars PROVE LockedOut' \/ active'
  BY <1>48 DEF vars
<1> HIDE DEF TypeInv, TypeOK, GoTo, tables, locals, LockedOut, Minting
<1> QED
  BY <1>1, <1>2, <1>3, <1>4, <1>5, <1>6, <1>7, <1>8, <1>9, <1>10, <1>11, <1>12, <1>13, <1>14, <1>15, <1>16, <1>17, <1>18, <1>19, <1>20, <1>21, <1>22, <1>23, <1>24, <1>25, <1>26, <1>27, <1>28, <1>29, <1>30, <1>30a, <1>31, <1>32, <1>33, <1>34, <1>35, <1>36, <1>37, <1>38, <1>39, <1>40, <1>41, <1>42, <1>43, <1>44, <1>45, <1>46, <1>47, <1>48 DEF Next, Start, Continue

(* A user who was locked out completely gets no live token before an unban.              *)
THEOREM BanHoldsTheorem == Spec => BanHolds
<1>1. TypeInv /\ [Next]_vars => [LockedOut => LockedOut' \/ active']_vars
  BY BanStep
<1> QED
  BY <1>1, TypeInvariant, PTL DEF Spec, BanHolds

--------------------------------------------------------------------------------
(* Tokens stay in the session they were granted in, a closed session stays closed   *)
(* and every logout is announced.                                                    *)

(* The session x is NULL, or exists and belongs to client c.                            *)
Linked(x, c) == x # None => x \in Req /\ sess[x].st # "absent" /\ sess[x].client = c

(* A request that will insert a code or a token of the session it has read.              *)
Holding == {"new_code", "code_user", "code_at", "code_rt",
            "ref_user", "ref_claim", "ref_rt", "ref_session", "ref_at"}
BeforeSession == {"idle", "new_session"}
BeforeToken == {"idle", "code_user", "code_at", "code_rt", "ref_user", "ref_claim", "ref_rt",
                "dev_approve", "dev_deny", "dev_claim", "dev_at", "dev_rt", "api_user", "api_at", "api_spend", "api_rt"}
Claiming == {"ref_user", "ref_claim", "ref_rt"}
Ending == {"sess_at", "sess_rt", "ref_session", "risk_end", "end_queue", "reuse_family", "rev_row"}

(* Sessions exist before whatever refers to them, and their rows are inserted once.       *)
SessionsInv ==
  /\ \A r \in Req : pc[r] \in BeforeSession => sess[r].st = "absent"
  /\ \A r \in Req : pc[r] \in Ending /\ sid[r] \in Req => sess[sid[r]].st # "absent"
  /\ \A r \in Req : \A s \in todo[r] : sess[s].st # "absent"

(* Codes, tokens and requests name sessions of their own client.                          *)
LinksInv ==
  /\ \A k \in Req : codes[k].st \in {"fresh", "used"} => Linked(codes[k].sess, codes[k].client)
  /\ \A a \in Req : at[a].st # "absent" => Linked(at[a].sess, at[a].client)
  /\ \A t \in Req : rt[t].st # "absent" => Linked(rt[t].sess, rt[t].client)
  /\ \A r \in Req : pc[r] \in Holding => Linked(sid[r], cli[r])

(* A family has the session and the client of its first token, and so does the request    *)
(* that rotates one of its tokens.                                                         *)
RootsInv ==
  /\ \A r \in Req : pc[r] \in BeforeToken => rt[r].st = "absent"
  /\ \A t \in Req : rt[t].st # "absent" /\ rt[t].fam # None =>
       /\ rt[rt[t].fam].st # "absent" /\ rt[rt[t].fam].fam = rt[t].fam
       /\ rt[rt[t].fam].sess = rt[t].sess /\ rt[rt[t].fam].client = rt[t].client
  /\ \A q \in Req : pc[q] \in Claiming =>
       /\ rt[arg[q]].st # "absent" /\ fam[q] = rt[arg[q]].fam
       /\ sid[q] = rt[arg[q]].sess /\ cli[q] = rt[arg[q]].client

SessionInv == SessionsInv /\ LinksInv /\ RootsInv

(* A request that ends a session for the risk engine has a refresh token already.          *)
RiskInv ==
  \A r \in Req :
    pc[r] \in {"ref_session", "risk_end"} \/ (pc[r] \in {"sess_at", "sess_rt"} /\ ret[r] = "risk_end")
      => rt[r].st # "absent"

(* Request q announces session s, or died or was refused before it could.                  *)
Announces(q, s) ==
  /\ sid[q] = s
  /\ \/ pc[q] \in {"sess_at", "sess_rt"} /\ ret[q] = "end_queue"
     \/ pc[q] \in {"end_queue", "crashed"}
     \/ pc[q] = "failed" /\ rt[q].st # "absent"
AnnounceInv ==
  \A s \in Req : sess[s].st = "terminated" /\ sess[s].client \in BcClient /\ s \notin queue =>
    \E q \in Req : Announces(q, s)
--------------------------------------------------------------------------------
(* What bulk UPDATEs and the passing of time leave as it was.                              *)
LEMMA RevokeLeaves ==
  ASSUME TypeOK
  PROVE  \A ids : \A x \in Req :
           /\ Revoke(rt, ids)[x].fam = rt[x].fam
           /\ Revoke(rt, ids)[x].sess = rt[x].sess
           /\ Revoke(rt, ids)[x].client = rt[x].client
           /\ Revoke(rt, ids)[x].st = "live" => rt[x].st = "live" /\ x \notin ids
           /\ Revoke(rt, ids)[x].st = "absent" <=> rt[x].st = "absent"
           /\ Revoke(at, ids)[x].sess = at[x].sess
           /\ Revoke(at, ids)[x].client = at[x].client
           /\ Revoke(at, ids)[x].st = "live" => at[x].st = "live"
           /\ Revoke(at, ids)[x].st = "absent" <=> at[x].st = "absent"
BY DEF Revoke, TypeOK, RefreshRow, AccessRow

LEMMA TimeLeaves ==
  ASSUME TypeOK, Expire \/ PurgeRefresh \/ PurgeCodes \/ PurgeDevices
  PROVE  /\ UNCHANGED <<sess, bsess, active, queue, pc, locals>>
         /\ \A x \in Req :
              /\ rt'[x].fam = rt[x].fam /\ rt'[x].sess = rt[x].sess /\ rt'[x].client = rt[x].client
              /\ rt'[x].st = "live" => rt[x].st = "live"
              /\ rt'[x].st = "absent" <=> rt[x].st = "absent"
              /\ at'[x].sess = at[x].sess /\ at'[x].client = at[x].client
              /\ at'[x].st = "live" => at[x].st = "live"
              /\ at'[x].st = "absent" <=> at[x].st = "absent"
              /\ codes'[x].sess = codes[x].sess /\ codes'[x].client = codes[x].client
              /\ codes'[x].st \in {codes[x].st, "purged"}
<1> DEFINE Rt(t) == \A x \in Req :
             /\ t[x].fam = rt[x].fam /\ t[x].sess = rt[x].sess /\ t[x].client = rt[x].client
             /\ t[x].st = "live" => rt[x].st = "live"
             /\ t[x].st = "absent" <=> rt[x].st = "absent"
           At(t) == \A x \in Req :
             /\ t[x].sess = at[x].sess /\ t[x].client = at[x].client
             /\ t[x].st = "live" => at[x].st = "live"
             /\ t[x].st = "absent" <=> at[x].st = "absent"
           Codes(t) == \A x \in Req :
             /\ t[x].sess = codes[x].sess /\ t[x].client = codes[x].client
             /\ t[x].st \in {codes[x].st, "purged"}
<1>1. Rt(rt) /\ At(at) /\ Codes(codes)
  OBVIOUS
<1>2. \A k \in Req : Codes([codes EXCEPT ![k].exp = TRUE])
  BY DEF TypeOK, CodeRow
<1>3. \A t \in Req : Rt([rt EXCEPT ![t].exp = TRUE])
  BY DEF TypeOK, RefreshRow
<1>4. \A a \in Req : at[a].st # "absent" => At([at EXCEPT ![a].st = "purged"])
  BY DEF TypeOK, AccessRow
<1>5. /\ Rt([t \in Req |-> IF rt[t].exp /\ rt[t].st = "revoked" THEN [rt[t] EXCEPT !.st = "purged"]
                                                              ELSE rt[t]])
      /\ Codes([k \in Req |-> IF codes[k].exp THEN [codes[k] EXCEPT !.st = "purged"] ELSE codes[k]])
  BY DEF TypeOK, RefreshRow, CodeRow
<1>6. Rt(rt') /\ At(at') /\ Codes(codes')
  <2> HIDE DEF Rt, At, Codes
  <2>1. CASE Expire
    BY <2>1, <1>1, <1>2, <1>3, <1>4 DEF Expire
  <2>2. CASE PurgeRefresh \/ PurgeCodes \/ PurgeDevices
    BY <2>2, <1>1, <1>5 DEF PurgeRefresh, PurgeCodes, PurgeDevices
  <2> QED
    BY <2>1, <2>2
<1>7. UNCHANGED <<sess, bsess, active, queue, pc, locals>>
  BY DEF Expire, PurgeRefresh, PurgeCodes, PurgeDevices, locals
<1> QED
  BY <1>6, <1>7

--------------------------------------------------------------------------------
(* Steps that insert no row and begin no work for a session.                               *)
LinksQuiet ==
  /\ sess' = sess /\ todo' = todo
  /\ \A k \in Req : codes'[k].st \in {"fresh", "used"} =>
       codes[k].st \in {"fresh", "used"} /\ codes'[k].sess = codes[k].sess /\ codes'[k].client = codes[k].client
  /\ \A a \in Req : at'[a].st # "absent" =>
       at[a].st # "absent" /\ at'[a].sess = at[a].sess /\ at'[a].client = at[a].client
  /\ \A t \in Req : /\ rt'[t].st = "absent" <=> rt[t].st = "absent"
                    /\ rt'[t].sess = rt[t].sess /\ rt'[t].client = rt[t].client
                    /\ rt'[t].fam = rt[t].fam
  /\ \A q \in Req :
       /\ pc'[q] \in BeforeSession => pc[q] \in BeforeSession
       /\ pc'[q] \in BeforeToken => pc[q] \in BeforeToken
       /\ pc'[q] \in Ending => pc[q] \in Ending /\ sid'[q] = sid[q]
       /\ pc'[q] \in Holding => pc[q] \in Holding /\ sid'[q] = sid[q] /\ cli'[q] = cli[q]
       /\ pc'[q] \in Claiming =>
            /\ pc[q] \in Claiming /\ arg'[q] = arg[q] /\ fam'[q] = fam[q]
            /\ sid'[q] = sid[q] /\ cli'[q] = cli[q]

LEMMA LinksQuietStep == ASSUME TypeInv, SessionInv, LinksQuiet PROVE SessionInv'
<1> USE DEF SessionInv
<1>1. \A x, c : Linked(x, c)' <=> Linked(x, c)
  BY DEF Linked, LinksQuiet
<1>2. SessionsInv'
  BY DEF SessionsInv, LinksQuiet
<1>3. LinksInv'
  BY <1>1 DEF LinksInv, LinksQuiet
<1>4. RootsInv'
  <2>1. \A t \in Req : rt[t].fam \in Req \cup {None}
    BY RefreshType DEF TypeInv, ReqOrNone
  <2>2. \A q \in Req : pc[q] \in Claiming => arg[q] \in Req
    BY DEF TypeInv, ArgsOK, Claiming
  <2>3. \A r \in Req : pc'[r] \in BeforeToken => rt'[r].st = "absent"
    BY DEF RootsInv, LinksQuiet
  <2>4. \A t \in Req : rt'[t].st # "absent" /\ rt'[t].fam # None =>
          /\ rt'[rt'[t].fam].st # "absent" /\ rt'[rt'[t].fam].fam = rt'[t].fam
          /\ rt'[rt'[t].fam].sess = rt'[t].sess /\ rt'[rt'[t].fam].client = rt'[t].client
    BY <2>1 DEF RootsInv, LinksQuiet
  <2>5. \A q \in Req : pc'[q] \in Claiming =>
          /\ rt'[arg'[q]].st # "absent" /\ fam'[q] = rt'[arg'[q]].fam
          /\ sid'[q] = rt'[arg'[q]].sess /\ cli'[q] = rt'[arg'[q]].client
    BY <2>2 DEF RootsInv, LinksQuiet
  <2> QED
    BY <2>3, <2>4, <2>5 DEF RootsInv, BeforeToken, Claiming
<1> QED
  BY <1>2, <1>3, <1>4

LEMMA MostStepsLeaveLinks ==
  ASSUME TypeInv, [Next]_vars,
         \A r \in Req :
           /\ ~(\E b \in Browser, c \in Client, ok \in BOOLEAN : Authorize(r, b, c, ok))
           /\ ~(\E k \in Req, c \in Client, ok \in BOOLEAN : ClaimCode(r, k, c, ok))
           /\ ~(\E t \in Req, c \in Client : Refresh(r, t, c))
           /\ ~(\E t \in Req, c \in Client : ResolveRefreshToken(r, t, c))
           /\ ~(\E b \in Browser : EndSession(r, b))
           /\ ~InsertSession(r)
           /\ ~InsertCode(r)
           /\ ~InsertCodeAccess(r)
           /\ ~InsertCodeRefresh(r)
           /\ ~InsertRotated(r)
           /\ ~InsertRefreshedAccess(r)
           /\ ~InsertDeviceAccess(r)
           /\ ~InsertDeviceRefresh(r)
           /\ ~InsertApiAccess(r)
           /\ ~InsertApiRefresh(r)
           /\ ~TerminateNext(r)
           /\ ~TerminateRisky(r)
  PROVE  LinksQuiet
<1> USE DEF TypeInv, TypeOK, GoTo, tables, locals, LinksQuiet, BeforeSession, BeforeToken, Ending,
            Holding, Claiming
<1>1. ASSUME NEW r \in Req, NEW c \in Client, DeviceStart(r, c) PROVE LinksQuiet
  BY <1>1 DEF DeviceStart, Arrives
<1>2. ASSUME NEW r \in Req, NEW d \in Req, NEW verdict \in {"approved", "denied"}, DecideDevice(r, d, verdict) PROVE LinksQuiet
  BY <1>2 DEF DecideDevice, Arrives
<1>3. ASSUME NEW r \in Req, NEW d \in Req, NEW c \in Client, PollDevice(r, d, c) PROVE LinksQuiet
  BY <1>3 DEF PollDevice, Arrives
<1>4. ASSUME NEW r \in Req, NEW a \in Req, NEW c \in Client, RevokeAccessToken(r, a, c) PROVE LinksQuiet
  BY <1>4, RevokeLeaves DEF RevokeAccessToken, Arrives
<1>5. ASSUME NEW r \in Req, Ban(r) PROVE LinksQuiet
  BY <1>5 DEF Ban, Arrives
<1>6. ASSUME NEW r \in Req, NEW flag \in BOOLEAN, SetActive(r, flag) PROVE LinksQuiet
  BY <1>6 DEF SetActive, Arrives
<1>7. ASSUME NEW r \in Req, NEW t \in Req, ApiRefresh(r, t) PROVE LinksQuiet
  BY <1>7 DEF ApiRefresh, Arrives
<1>8. ASSUME NEW r \in Req, NEW a \in Req, ApiLogout(r, a) PROVE LinksQuiet
  BY <1>8, RevokeLeaves DEF ApiLogout, Arrives
<1>9. ASSUME NEW r \in Req, CheckCodeUser(r) PROVE LinksQuiet
  BY <1>9 DEF CheckCodeUser
<1>10. ASSUME NEW r \in Req, SeekReplayed(r) PROVE LinksQuiet
  BY <1>10 DEF SeekReplayed
<1>11. ASSUME NEW r \in Req, ReplayAccess(r) PROVE LinksQuiet
  BY <1>11, RevokeLeaves DEF ReplayAccess
<1>12. ASSUME NEW r \in Req, ReplayRefresh(r) PROVE LinksQuiet
  BY <1>12, RevokeLeaves DEF ReplayRefresh
<1>13. ASSUME NEW r \in Req, ReuseFamily(r) PROVE LinksQuiet
  BY <1>13, RevokeLeaves DEF ReuseFamily
<1>14. ASSUME NEW r \in Req, CheckRefreshUser(r) PROVE LinksQuiet
  BY <1>14 DEF CheckRefreshUser
<1>15. ASSUME NEW r \in Req, ClaimRefresh(r) PROVE LinksQuiet
  BY <1>15, RevokeLeaves DEF ClaimRefresh
<1>16. ASSUME NEW r \in Req, AssessRisk(r) PROVE LinksQuiet
  BY <1>16 DEF AssessRisk, CallRevokeBySession
<1>17. ASSUME NEW r \in Req, RevokeSessionAccess(r) PROVE LinksQuiet
  BY <1>17, RevokeLeaves DEF RevokeSessionAccess
<1>18. ASSUME NEW r \in Req, RevokeSessionRefresh(r) PROVE LinksQuiet
  BY <1>18, RevokeLeaves DEF RevokeSessionRefresh
<1>18a. ASSUME NEW r \in Req, NEW verdict \in {"approved", "denied"}, MarkDevice(r, verdict) PROVE LinksQuiet
  BY <1>18a DEF MarkDevice
<1>19. ASSUME NEW r \in Req, ClaimDevice(r) PROVE LinksQuiet
  BY <1>19 DEF ClaimDevice, ArgsOK
<1>20. ASSUME NEW r \in Req, RevokeRefreshRow(r) PROVE LinksQuiet
  BY <1>20, RevokeLeaves DEF RevokeRefreshRow
<1>21. ASSUME NEW r \in Req, RevokeFamily(r) PROVE LinksQuiet
  BY <1>21, RevokeLeaves DEF RevokeFamily
<1>22. ASSUME NEW r \in Req, EnqueueLogout(r) PROVE LinksQuiet
  BY <1>22 DEF EnqueueLogout
<1>23. ASSUME NEW r \in Req, DeleteBrowserSession(r) PROVE LinksQuiet
  BY <1>23 DEF DeleteBrowserSession
<1>24. ASSUME NEW r \in Req, BanAccess(r) PROVE LinksQuiet
  BY <1>24, RevokeLeaves DEF BanAccess
<1>25. ASSUME NEW r \in Req, BanRefresh(r) PROVE LinksQuiet
  BY <1>25, RevokeLeaves DEF BanRefresh
<1>26. ASSUME NEW r \in Req, CheckApiUser(r) PROVE LinksQuiet
  BY <1>26 DEF CheckApiUser
<1>27. ASSUME NEW r \in Req, SpendApiRefresh(r) PROVE LinksQuiet
  BY <1>27, RevokeLeaves DEF SpendApiRefresh
<1>28. ASSUME NEW r \in Req, LogoutAccess(r) PROVE LinksQuiet
  BY <1>28, RevokeLeaves DEF LogoutAccess
<1>29. ASSUME NEW r \in Req, Crash(r) PROVE LinksQuiet
  BY <1>29 DEF Crash
<1>30. ASSUME Expire PROVE LinksQuiet
  BY <1>30, TimeLeaves DEF Expire
<1>31. ASSUME PurgeRefresh PROVE LinksQuiet
  BY <1>31, TimeLeaves DEF PurgeRefresh
<1>32. ASSUME PurgeCodes PROVE LinksQuiet
  BY <1>32, TimeLeaves DEF PurgeCodes
<1>33. ASSUME PurgeDevices PROVE LinksQuiet
  BY <1>33, TimeLeaves DEF PurgeDevices
<1>34. ASSUME UNCHANGED vars PROVE LinksQuiet
  BY <1>34 DEF vars
<1> HIDE DEF TypeInv, TypeOK, GoTo, tables, locals, LinksQuiet, BeforeSession, BeforeToken, Ending,
             Holding, Claiming
<1> QED
  BY <1>1, <1>2, <1>3, <1>4, <1>5, <1>6, <1>7, <1>8, <1>9, <1>10, <1>11, <1>12, <1>13,
     <1>14, <1>15, <1>16, <1>17, <1>18, <1>18a, <1>19, <1>20, <1>21, <1>22, <1>23, <1>24, <1>25,
     <1>26, <1>27, <1>28, <1>29, <1>30, <1>31, <1>32, <1>33, <1>34 DEF Next, Start, Continue

--------------------------------------------------------------------------------
(* Steps that insert a row or begin work for a session.                                     *)

(* A new access token names its request's session or none.                                  *)
LEMMA AccessInserted ==
  ASSUME TypeInv, SessionInv, NEW r \in Req, NEW c, NEW s, NEW k,
         InsertAccess(r, c, s, k), Linked(s, c),
         UNCHANGED <<codes, sess, rt, arg, cli, sid, fam, todo>>,
         \A q \in Req : q # r => pc'[q] = pc[q],
         pc'[r] \notin BeforeSession \cup Ending \cup Claiming,
         pc'[r] \in BeforeToken => pc[r] \in BeforeToken,
         pc'[r] \in Holding => pc[r] \in Holding
  PROVE  SessionInv'
<1> USE DEF SessionInv
<1>1. /\ at'[r].sess = s /\ at'[r].client = c
      /\ \A a \in Req : a # r => at'[a] = at[a]
  BY DEF InsertAccess, TypeInv, TypeOK
<1>2. \A x, d : Linked(x, d)' <=> Linked(x, d)
  BY DEF Linked
<1>3. SessionsInv'
  BY DEF SessionsInv
<1>4. LinksInv'
  BY <1>1, <1>2 DEF LinksInv
<1>5. RootsInv'
  BY DEF RootsInv
<1> QED
  BY <1>3, <1>4, <1>5

(* A new refresh token opens its own family, none, or continues one of its session.         *)
LEMMA RefreshInserted ==
  ASSUME TypeInv, SessionInv, NEW r \in Req, NEW c, NEW s, NEW k, NEW f,
         InsertRefresh(r, c, s, k, f), Linked(s, c),
         \/ f \in {None, r}
         \/ /\ f \in Req /\ rt[f].st # "absent" /\ rt[f].fam = f
            /\ rt[f].sess = s /\ rt[f].client = c,
         UNCHANGED <<codes, sess, at, arg, cli, sid, fam, todo>>,
         \A q \in Req : q # r => pc'[q] = pc[q],
         pc[r] \in BeforeToken, pc'[r] \notin BeforeToken \cup BeforeSession,
         pc'[r] \in Holding \cup Ending => Linked(sid[r], cli[r])
  PROVE  SessionInv'
<1> USE DEF SessionInv
<1>1. rt[r].st = "absent"
  BY DEF RootsInv
<1>2. /\ rt'[r].st # "absent" /\ rt'[r].sess = s /\ rt'[r].client = c /\ rt'[r].fam = f
      /\ \A t \in Req : t # r => rt'[t] = rt[t]
  BY DEF InsertRefresh, TypeInv, TypeOK
<1>3. \A x, d : Linked(x, d)' <=> Linked(x, d)
  BY DEF Linked
<1>4. SessionsInv'
  BY NoneAssumption DEF SessionsInv, Linked
<1>5. LinksInv'
  BY <1>2, <1>3 DEF LinksInv
<1>6. RootsInv'
  <2>1. \A t \in Req : rt[t].fam \in Req \cup {None}
    BY RefreshType DEF TypeInv, ReqOrNone
  <2>2. \A q \in Req : pc'[q] \in Claiming => pc[q] \in Claiming /\ arg[q] \in Req /\ arg[q] # r /\ q # r
    BY <1>1 DEF TypeInv, ArgsOK, Claiming, RootsInv, BeforeToken
  <2>3. \A q \in Req : pc'[q] \in BeforeToken => rt'[q].st = "absent"
    BY <1>2 DEF RootsInv
  <2>4. ASSUME NEW t \in Req, rt'[t].st # "absent", rt'[t].fam # None
        PROVE  /\ rt'[rt'[t].fam].st # "absent" /\ rt'[rt'[t].fam].fam = rt'[t].fam
               /\ rt'[rt'[t].fam].sess = rt'[t].sess /\ rt'[rt'[t].fam].client = rt'[t].client
    <3>1. CASE t = r
      BY <1>1, <1>2, <2>4, <3>1
    <3>2. CASE t # r
      <4>1. rt'[t] = rt[t] /\ rt[t].fam \in Req /\ rt[rt[t].fam].st # "absent"
        BY <1>2, <2>1, <2>4, <3>2 DEF RootsInv
      <4>2. rt'[rt[t].fam] = rt[rt[t].fam]
        BY <1>1, <1>2, <4>1
      <4> QED
        BY <2>4, <4>1, <4>2 DEF RootsInv
    <3> QED
      BY <3>1, <3>2
  <2>5. \A q \in Req : pc'[q] \in Claiming =>
          /\ rt'[arg'[q]].st # "absent" /\ fam'[q] = rt'[arg'[q]].fam
          /\ sid'[q] = rt'[arg'[q]].sess /\ cli'[q] = rt'[arg'[q]].client
    BY <1>2, <2>2 DEF RootsInv
  <2> QED
    BY <2>3, <2>4, <2>5 DEF RootsInv, BeforeToken, Claiming
<1> QED
  BY <1>4, <1>5, <1>6

LEMMA InsertingKeepsLinks ==
  ASSUME TypeInv, SessionInv, NEW r \in Req,
         \/ InsertCodeAccess(r) \/ InsertRefreshedAccess(r) \/ InsertDeviceAccess(r) \/ InsertApiAccess(r)
         \/ InsertCodeRefresh(r) \/ InsertRotated(r) \/ InsertDeviceRefresh(r) \/ InsertApiRefresh(r)
  PROVE  SessionInv'
<1> USE DEF GoTo, locals, Holding, BeforeToken, BeforeSession, Ending, Claiming
<1>1. Linked(None, cli[r])
  BY DEF Linked
<1>2. pc[r] \in Holding => Linked(sid[r], cli[r])
  BY DEF SessionInv, LinksInv
<1>3. CASE InsertCodeAccess(r)
  BY <1>2, <1>3, AccessInserted DEF InsertCodeAccess, TypeInv, TypeOK
<1>4. CASE InsertRefreshedAccess(r)
  BY <1>2, <1>4, AccessInserted DEF InsertRefreshedAccess, TypeInv, TypeOK
<1>5. CASE InsertDeviceAccess(r)
  BY <1>1, <1>5, AccessInserted DEF InsertDeviceAccess, TypeInv, TypeOK
<1>6. CASE InsertApiAccess(r)
  BY <1>1, <1>6, AccessInserted DEF InsertApiAccess, TypeInv, TypeOK
<1>7. CASE InsertCodeRefresh(r)
  BY <1>2, <1>7, RefreshInserted DEF InsertCodeRefresh, TypeInv, TypeOK
<1>8. CASE InsertDeviceRefresh(r)
  BY <1>1, <1>8, RefreshInserted DEF InsertDeviceRefresh, TypeInv, TypeOK
<1>9. CASE InsertApiRefresh(r)
  BY <1>1, <1>9, RefreshInserted DEF InsertApiRefresh, TypeInv, TypeOK
<1>10. CASE InsertRotated(r)
  <2>1. PICK f : /\ f = IF fam[r] = None THEN r ELSE fam[r]
                 /\ InsertRefresh(r, cli[r], sid[r], None, f)
    BY <1>10 DEF InsertRotated
  <2>2. fam[r] \in Req \cup {None} /\ pc[r] = "ref_rt" /\ arg[r] \in Req
    BY <1>10 DEF InsertRotated, TypeInv, TypeOK, ArgsOK, ReqOrNone
  <2>3. /\ rt[arg[r]].st # "absent" /\ fam[r] = rt[arg[r]].fam
        /\ sid[r] = rt[arg[r]].sess /\ cli[r] = rt[arg[r]].client
    BY <2>2 DEF SessionInv, RootsInv
  <2>4. \/ f \in {None, r}
        \/ /\ f \in Req /\ rt[f].st # "absent" /\ rt[f].fam = f
           /\ rt[f].sess = sid[r] /\ rt[f].client = cli[r]
    BY <2>1, <2>2, <2>3 DEF SessionInv, RootsInv
  <2>5. /\ UNCHANGED <<codes, sess, at, arg, cli, sid, fam, todo>>
        /\ \A q \in Req : q # r => pc'[q] = pc[q]
        /\ pc'[r] \in {"ref_at", "ref_session"}
    BY <1>10 DEF InsertRotated, TypeInv, TypeOK
  <2> QED
    BY <1>2, <2>1, <2>2, <2>4, <2>5, RefreshInserted
<1> QED
  BY <1>3, <1>4, <1>5, <1>6, <1>7, <1>8, <1>9, <1>10

(* A request that begins, or goes on, for a session it has found.                           *)
LEMMA WorkBegins ==
  ASSUME TypeInv, SessionInv, NEW r \in Req, UNCHANGED <<sess, at, rt>>,
         \A k \in Req : codes'[k].st \in {"fresh", "used"} => Linked(codes'[k].sess, codes'[k].client),
         \A q \in Req : q # r => /\ pc'[q] = pc[q] /\ arg'[q] = arg[q] /\ cli'[q] = cli[q]
                                 /\ sid'[q] = sid[q] /\ fam'[q] = fam[q] /\ todo'[q] = todo[q],
         pc'[r] \in BeforeSession => pc[r] \in BeforeSession,
         pc'[r] \in BeforeToken => pc[r] \in BeforeToken,
         pc'[r] \in Holding => Linked(sid'[r], cli'[r]),
         pc'[r] \in Ending /\ sid'[r] \in Req => sess[sid'[r]].st # "absent",
         pc'[r] \in Claiming =>
           /\ rt[arg'[r]].st # "absent" /\ fam'[r] = rt[arg'[r]].fam
           /\ sid'[r] = rt[arg'[r]].sess /\ cli'[r] = rt[arg'[r]].client,
         \A s \in todo'[r] : sess[s].st # "absent"
  PROVE  SessionInv'
<1> USE DEF SessionInv
<1>1. \A x, d : Linked(x, d)' <=> Linked(x, d)
  BY DEF Linked
<1>2. SessionsInv'
  BY DEF SessionsInv
<1>3. LinksInv'
  BY <1>1 DEF LinksInv
<1>4. RootsInv'
  BY DEF RootsInv
<1> QED
  BY <1>2, <1>3, <1>4

LEMMA BeginningKeepsLinks ==
  ASSUME TypeInv, SessionInv, NEW r \in Req,
         \/ \E b \in Browser, c \in Client, ok \in BOOLEAN : Authorize(r, b, c, ok)
         \/ \E k \in Req, c \in Client, ok \in BOOLEAN : ClaimCode(r, k, c, ok)
         \/ \E t \in Req, c \in Client : Refresh(r, t, c)
         \/ \E t \in Req, c \in Client : ResolveRefreshToken(r, t, c)
         \/ \E b \in Browser : EndSession(r, b)
         \/ InsertCode(r)
  PROVE  SessionInv'
<1> USE DEF TypeInv, TypeOK, GoTo, tables, locals, Holding, BeforeToken, BeforeSession, Ending, Claiming
<1>1. \A k \in Req : codes[k].st \in {"fresh", "used"} => Linked(codes[k].sess, codes[k].client)
  BY DEF SessionInv, LinksInv
<1>2. \A s \in todo[r] : sess[s].st # "absent"
  BY DEF SessionInv, SessionsInv
<1>3. \A t \in Req : rt[t].st # "absent" => Linked(rt[t].sess, rt[t].client)
  BY DEF SessionInv, LinksInv
<1>4. ASSUME NEW b \in Browser, NEW c \in Client, NEW ok \in BOOLEAN, Authorize(r, b, c, ok)
      PROVE  SessionInv'
  <2>1. \A s \in LiveSessions(b, c) : Linked(s, c)
    BY DEF LiveSessions, Linked
  <2> QED
    BY <1>1, <1>2, <1>4, <2>1, WorkBegins DEF Authorize, Arrives
<1>5. ASSUME NEW k \in Req, NEW c \in Client, NEW ok \in BOOLEAN, ClaimCode(r, k, c, ok)
      PROVE  SessionInv'
  <2>1. \A x \in Req : /\ codes'[x].sess = codes[x].sess /\ codes'[x].client = codes[x].client
                       /\ codes'[x].st \in {"fresh", "used"} => codes[x].st \in {"fresh", "used"}
    <3>1. CASE codes' = codes
      BY <3>1
    <3>2. CASE Claimable(k, c) /\ codes' = [codes EXCEPT ![k].st = "used"]
      BY <3>2 DEF CodeRow, Claimable
    <3> QED
      BY <1>5, <3>1, <3>2 DEF ClaimCode
  <2>2. pc'[r] \in Holding => Linked(sid'[r], cli'[r])
    BY <1>1, <1>5 DEF ClaimCode, Arrives, Claimable
  <2>3. pc'[r] \in {"code_user", "failed", "replay_seek"} /\ pc[r] = "idle"
    BY <1>5 DEF ClaimCode, Arrives
  <2>4. \A q \in Req : q # r => /\ pc'[q] = pc[q] /\ arg'[q] = arg[q] /\ cli'[q] = cli[q]
                                /\ sid'[q] = sid[q] /\ fam'[q] = fam[q] /\ todo'[q] = todo[q]
    BY <1>5 DEF ClaimCode, Arrives
  <2>5. UNCHANGED <<sess, at, rt, todo>>
    BY <1>5 DEF ClaimCode
  <2>6. \A x \in Req : codes'[x].st \in {"fresh", "used"} => Linked(codes'[x].sess, codes'[x].client)
    BY <1>1, <2>1
  <2> HIDE DEF TypeInv, TypeOK, GoTo, tables, locals
  <2> QED
    BY <1>2, <2>2, <2>3, <2>4, <2>5, <2>6, WorkBegins
<1>6. ASSUME NEW t \in Req, NEW c \in Client, Refresh(r, t, c) PROVE SessionInv'
  <2>1. /\ arg'[r] = t /\ cli'[r] = c /\ sid'[r] = rt[t].sess /\ fam'[r] = rt[t].fam
        /\ rt[t].st # "absent" /\ pc[r] = "idle" /\ UNCHANGED <<sess, at, rt, todo, codes>>
        /\ \A q \in Req : q # r => /\ pc'[q] = pc[q] /\ arg'[q] = arg[q] /\ cli'[q] = cli[q]
                                   /\ sid'[q] = sid[q] /\ fam'[q] = fam[q] /\ todo'[q] = todo[q]
    BY <1>6 DEF Refresh, Arrives
  <2>2. /\ pc'[r] \in {"failed", "reuse_family", "sess_at", "ref_user"}
        /\ pc'[r] = "ref_user" => rt[t].client = c
    BY <1>6 DEF Refresh, Arrives
  <2>3. rt[t].sess \in Req => sess[rt[t].sess].st # "absent"
    BY <1>3, <2>1, NoneAssumption DEF Linked
  <2> HIDE DEF TypeInv, TypeOK, GoTo, tables, locals
  <2> QED
    BY <1>1, <1>2, <1>3, <2>1, <2>2, <2>3, WorkBegins
<1>7. ASSUME NEW t \in Req, NEW c \in Client, ResolveRefreshToken(r, t, c) PROVE SessionInv'
  <2>1. /\ sid'[r] = rt[t].sess /\ rt[t].st # "absent" /\ UNCHANGED <<sess, at, rt, todo, codes, cli>>
        /\ \A q \in Req : q # r => /\ pc'[q] = pc[q] /\ arg'[q] = arg[q] /\ cli'[q] = cli[q]
                                   /\ sid'[q] = sid[q] /\ fam'[q] = fam[q] /\ todo'[q] = todo[q]
    BY <1>7 DEF ResolveRefreshToken, Arrives
  <2>2. pc'[r] \in {"rev_row", "ok"}
    BY <1>7 DEF ResolveRefreshToken, Arrives
  <2>3. rt[t].sess \in Req => sess[rt[t].sess].st # "absent"
    BY <1>3, <2>1, NoneAssumption DEF Linked
  <2> HIDE DEF TypeInv, TypeOK, GoTo, tables, locals
  <2> QED
    BY <1>1, <1>2, <2>1, <2>2, <2>3, WorkBegins
<1>8. ASSUME NEW b \in Browser, EndSession(r, b) PROVE SessionInv'
  <2>0. \A c \in Client : \A s \in LiveSessions(b, c) : sess[s].st = "live"
    BY DEF LiveSessions
  <2>1. \A s \in todo'[r] : sess[s].st # "absent"
    <3>1. todo'[r] = UNION {LiveSessions(b, c) : c \in Client}
      BY <1>8 DEF EndSession
    <3> QED
      BY <2>0, <3>1
  <2> QED
    BY <1>1, <1>8, <2>1, WorkBegins DEF EndSession, Arrives
<1>9. ASSUME InsertCode(r) PROVE SessionInv'
  <2>1. Linked(sid[r], cli[r])
    BY <1>9 DEF InsertCode, SessionInv, LinksInv
  <2>2. \A k \in Req : codes'[k].st \in {"fresh", "used"} => Linked(codes'[k].sess, codes'[k].client)
    BY <1>1, <1>9, <2>1 DEF InsertCode
  <2> QED
    BY <1>2, <1>9, <2>2, WorkBegins DEF InsertCode
<1> QED
  BY <1>4, <1>5, <1>6, <1>7, <1>8, <1>9

(* A session's row is inserted once and never changes its client.                            *)
LEMMA SessionsKeepLinks ==
  ASSUME TypeInv, SessionInv, NEW r \in Req,
         InsertSession(r) \/ TerminateNext(r) \/ TerminateRisky(r)
  PROVE  SessionInv'
<1> USE DEF TypeInv, TypeOK, GoTo, locals, Holding, BeforeToken, BeforeSession, Ending, Claiming, SessionInv
<1>1. \A s \in Req : sess[s].st # "absent" => sess'[s].st # "absent" /\ sess'[s].client = sess[s].client
  <2>1. CASE InsertSession(r)
    BY <2>1 DEF InsertSession, SessionsInv
  <2>2. ASSUME NEW s \in Req, sess' = [sess EXCEPT ![s].st = "terminated"]
        PROVE  \A x \in Req : sess[x].st # "absent" => sess'[x].st # "absent" /\ sess'[x].client = sess[x].client
    BY <2>2 DEF SessionRow
  <2>3. CASE TerminateNext(r)
    BY <2>2, <2>3 DEF TerminateNext
  <2>4. CASE TerminateRisky(r)
    BY <2>2, <2>4 DEF TerminateRisky, ArgsOK
  <2> QED
    BY <2>1, <2>3, <2>4
<1>2. \A x, c : Linked(x, c) => Linked(x, c)'
  BY <1>1 DEF Linked
<1>3. UNCHANGED <<codes, at, rt, arg, cli, fam>>
  BY DEF InsertSession, TerminateNext, TerminateRisky, CallRevokeBySession
<1>4. /\ \A q \in Req : q # r => pc'[q] = pc[q] /\ sid'[q] = sid[q]
      /\ pc'[r] \in {"new_code", "sess_at", "failed"}
      /\ \A q \in Req : todo'[q] \subseteq todo[q]
  BY DEF InsertSession, TerminateNext, TerminateRisky, CallRevokeBySession
<1>5. /\ pc'[r] = "new_code" => /\ sid'[r] \in Req /\ sess'[sid'[r]].st # "absent"
                                /\ sess'[sid'[r]].client = cli'[r]
      /\ pc'[r] = "sess_at" => sid'[r] \in Req /\ sess'[sid'[r]].st # "absent"
  <2>1. CASE InsertSession(r)
    BY <2>1 DEF InsertSession
  <2>2. CASE TerminateNext(r)
    BY <2>2, <1>1 DEF TerminateNext, CallRevokeBySession, SessionsInv
  <2>3. CASE TerminateRisky(r)
    BY <2>3 DEF TerminateRisky
  <2> QED
    BY <2>1, <2>2, <2>3
<1>6. \A q \in Req : pc'[q] \in BeforeSession => sess'[q].st = "absent"
  <2>1. CASE InsertSession(r)
    BY <2>1 DEF InsertSession, SessionsInv
  <2>2. CASE TerminateNext(r)
    <3>1. PICK s \in todo[r] : sess' = [sess EXCEPT ![s].st = "terminated"]
      BY <2>2 DEF TerminateNext
    <3>2. s \in Req /\ sess[s].st # "absent"
      BY <3>1 DEF SessionsInv
    <3>3. \A q \in Req : q # s => sess'[q] = sess[q]
      BY <3>1
    <3> QED
      BY <1>4, <3>2, <3>3 DEF SessionsInv
  <2>3. CASE TerminateRisky(r)
    <3>1. sid[r] \in Req /\ sess[sid[r]].st # "absent"
      BY <2>3 DEF TerminateRisky, ArgsOK, SessionsInv
    <3>2. \A q \in Req : q # sid[r] => sess'[q] = sess[q]
      BY <2>3 DEF TerminateRisky
    <3> QED
      BY <1>4, <3>1, <3>2 DEF SessionsInv
  <2> QED
    BY <2>1, <2>2, <2>3
<1>7. SessionsInv'
  BY <1>1, <1>4, <1>5, <1>6 DEF SessionsInv
<1>8. LinksInv'
  <2> DEFINE Now(x, c) == x # None => x \in Req /\ sess'[x].st # "absent" /\ sess'[x].client = c
  <2>1. \A x, c : Linked(x, c) => Now(x, c)
    BY <1>1 DEF Linked
  <2>2. \A q \in Req : pc'[q] \in Holding => Now(sid'[q], cli'[q])
    BY <2>1, <1>3, <1>4, <1>5 DEF LinksInv
  <2>3. \A k \in Req : codes'[k].st \in {"fresh", "used"} => Now(codes'[k].sess, codes'[k].client)
    BY <2>1, <1>3 DEF LinksInv
  <2>4. \A a \in Req : at'[a].st # "absent" => Now(at'[a].sess, at'[a].client)
    BY <2>1, <1>3 DEF LinksInv
  <2>5. \A t \in Req : rt'[t].st # "absent" => Now(rt'[t].sess, rt'[t].client)
    BY <2>1, <1>3 DEF LinksInv
  <2> HIDE DEF TypeInv, TypeOK, GoTo, locals
  <2> QED
    BY <2>2, <2>3, <2>4, <2>5 DEF LinksInv, Linked
<1>9. RootsInv'
  BY <1>3, <1>4 DEF RootsInv
<1> QED
  BY <1>7, <1>8, <1>9

(* Every step keeps the links.                                                                *)
LEMMA SessionStep == ASSUME TypeInv, SessionInv, [Next]_vars PROVE SessionInv'
<1> DEFINE Begins(r) ==
             \/ \E b \in Browser, c \in Client, ok \in BOOLEAN : Authorize(r, b, c, ok)
             \/ \E k \in Req, c \in Client, ok \in BOOLEAN : ClaimCode(r, k, c, ok)
             \/ \E t \in Req, c \in Client : Refresh(r, t, c)
             \/ \E t \in Req, c \in Client : ResolveRefreshToken(r, t, c)
             \/ \E b \in Browser : EndSession(r, b)
             \/ InsertCode(r)
           Inserts(r) ==
             \/ InsertCodeAccess(r) \/ InsertRefreshedAccess(r) \/ InsertDeviceAccess(r) \/ InsertApiAccess(r)
             \/ InsertCodeRefresh(r) \/ InsertRotated(r) \/ InsertDeviceRefresh(r) \/ InsertApiRefresh(r)
           Changes(r) == InsertSession(r) \/ TerminateNext(r) \/ TerminateRisky(r)
<1>1. ASSUME NEW r \in Req, Begins(r) PROVE SessionInv'
  BY <1>1, BeginningKeepsLinks
<1>2. ASSUME NEW r \in Req, Inserts(r) PROVE SessionInv'
  BY <1>2, InsertingKeepsLinks
<1>3. ASSUME NEW r \in Req, Changes(r) PROVE SessionInv'
  BY <1>3, SessionsKeepLinks
<1>4. CASE \A r \in Req : ~Begins(r) /\ ~Inserts(r) /\ ~Changes(r)
  BY <1>4, MostStepsLeaveLinks, LinksQuietStep
<1> QED
  BY <1>1, <1>2, <1>3, <1>4

LEMMA SessionInit == Init => SessionInv
BY DEF Init, NoCode, NoSession, NoAccess, NoRefresh, SessionInv, SessionsInv, LinksInv, RootsInv,
       BeforeSession, BeforeToken, Ending, Holding, Claiming

LEMMA SessionInvariant == Spec => []SessionInv
<1>1. TypeInv /\ SessionInv /\ [Next]_vars => SessionInv'
  BY SessionStep
<1> QED
  BY <1>1, SessionInit, TypeInvariant, PTL DEF Spec

(* Every token names a session of its own client and a family never spans two sessions, in     *)
(* every interleaving of grants, rotations, logouts, revocations and the cleanup job: what      *)
(* revokeTokensBySession relies on to find every token of a session and no other.               *)
THEOREM TokensStayInSessionTheorem == Spec => []TokensStayInSession
<1>1. SessionInv => TokensStayInSession
  <2> SUFFICES ASSUME SessionInv PROVE TokensStayInSession
    OBVIOUS
  <2>1. \A a \in Req : at[a].st # "absent" /\ at[a].sess # None =>
          sess[at[a].sess].st # "absent" /\ sess[at[a].sess].client = at[a].client
    BY DEF SessionInv, LinksInv, Linked
  <2>2. \A t \in Req : rt[t].st # "absent" /\ rt[t].sess # None =>
          sess[rt[t].sess].st # "absent" /\ sess[rt[t].sess].client = rt[t].client
    BY DEF SessionInv, LinksInv, Linked
  <2> QED
    BY <2>1, <2>2 DEF TokensStayInSession, SessionInv, RootsInv
<1> QED
  BY <1>1, SessionInvariant, PTL

--------------------------------------------------------------------------------
(* Logout announces what it ends.                                                            *)

LEMMA RiskStep == ASSUME TypeInv, RiskInv, [Next]_vars PROVE RiskInv'
<1> USE DEF TypeInv, TypeOK, GoTo, tables, locals, RiskInv
<1>1. ASSUME NEW r \in Req, NEW b \in Browser, NEW c \in Client, NEW ok \in BOOLEAN, Authorize(r, b, c, ok) PROVE RiskInv'
  BY <1>1 DEF Authorize, Arrives
<1>2. ASSUME NEW r \in Req, NEW k \in Req, NEW c \in Client, NEW ok \in BOOLEAN, ClaimCode(r, k, c, ok) PROVE RiskInv'
  BY <1>2 DEF ClaimCode, Arrives
<1>3. ASSUME NEW r \in Req, NEW t \in Req, NEW c \in Client, Refresh(r, t, c) PROVE RiskInv'
  BY <1>3 DEF Refresh, Arrives
<1>4. ASSUME NEW r \in Req, NEW c \in Client, DeviceStart(r, c) PROVE RiskInv'
  BY <1>4 DEF DeviceStart, Arrives
<1>5. ASSUME NEW r \in Req, NEW d \in Req, NEW verdict \in {"approved", "denied"}, DecideDevice(r, d, verdict) PROVE RiskInv'
  BY <1>5 DEF DecideDevice, Arrives
<1>6. ASSUME NEW r \in Req, NEW d \in Req, NEW c \in Client, PollDevice(r, d, c) PROVE RiskInv'
  BY <1>6 DEF PollDevice, Arrives
<1>7. ASSUME NEW r \in Req, NEW a \in Req, NEW c \in Client, RevokeAccessToken(r, a, c) PROVE RiskInv'
  BY <1>7, RevokeLeaves DEF RevokeAccessToken, Arrives
<1>8. ASSUME NEW r \in Req, NEW t \in Req, NEW c \in Client, ResolveRefreshToken(r, t, c) PROVE RiskInv'
  BY <1>8 DEF ResolveRefreshToken, Arrives
<1>9. ASSUME NEW r \in Req, NEW b \in Browser, EndSession(r, b) PROVE RiskInv'
  BY <1>9 DEF EndSession, Arrives
<1>10. ASSUME NEW r \in Req, Ban(r) PROVE RiskInv'
  BY <1>10 DEF Ban, Arrives
<1>11. ASSUME NEW r \in Req, NEW flag \in BOOLEAN, SetActive(r, flag) PROVE RiskInv'
  BY <1>11 DEF SetActive, Arrives
<1>12. ASSUME NEW r \in Req, NEW t \in Req, ApiRefresh(r, t) PROVE RiskInv'
  BY <1>12 DEF ApiRefresh, Arrives
<1>13. ASSUME NEW r \in Req, NEW a \in Req, ApiLogout(r, a) PROVE RiskInv'
  BY <1>13, RevokeLeaves DEF ApiLogout, Arrives
<1>14. ASSUME NEW r \in Req, InsertSession(r) PROVE RiskInv'
  BY <1>14 DEF InsertSession
<1>15. ASSUME NEW r \in Req, InsertCode(r) PROVE RiskInv'
  BY <1>15 DEF InsertCode
<1>16. ASSUME NEW r \in Req, CheckCodeUser(r) PROVE RiskInv'
  BY <1>16 DEF CheckCodeUser
<1>17. ASSUME NEW r \in Req, InsertCodeAccess(r) PROVE RiskInv'
  BY <1>17 DEF InsertCodeAccess, InsertAccess
<1>18. ASSUME NEW r \in Req, InsertCodeRefresh(r) PROVE RiskInv'
  BY <1>18 DEF InsertCodeRefresh, InsertRefresh
<1>19. ASSUME NEW r \in Req, SeekReplayed(r) PROVE RiskInv'
  BY <1>19 DEF SeekReplayed
<1>20. ASSUME NEW r \in Req, ReplayAccess(r) PROVE RiskInv'
  BY <1>20, RevokeLeaves DEF ReplayAccess
<1>21. ASSUME NEW r \in Req, ReplayRefresh(r) PROVE RiskInv'
  BY <1>21, RevokeLeaves DEF ReplayRefresh
<1>22. ASSUME NEW r \in Req, ReuseFamily(r) PROVE RiskInv'
  BY <1>22, RevokeLeaves DEF ReuseFamily
<1>23. ASSUME NEW r \in Req, CheckRefreshUser(r) PROVE RiskInv'
  BY <1>23 DEF CheckRefreshUser
<1>24. ASSUME NEW r \in Req, ClaimRefresh(r) PROVE RiskInv'
  BY <1>24, RevokeLeaves DEF ClaimRefresh
<1>25. ASSUME NEW r \in Req, InsertRotated(r) PROVE RiskInv'
  BY <1>25 DEF InsertRotated, InsertRefresh
<1>26. ASSUME NEW r \in Req, AssessRisk(r) PROVE RiskInv'
  BY <1>26 DEF AssessRisk, CallRevokeBySession
<1>27. ASSUME NEW r \in Req, TerminateRisky(r) PROVE RiskInv'
  BY <1>27 DEF TerminateRisky, ArgsOK
<1>28. ASSUME NEW r \in Req, InsertRefreshedAccess(r) PROVE RiskInv'
  BY <1>28 DEF InsertRefreshedAccess, InsertAccess
<1>29. ASSUME NEW r \in Req, RevokeSessionAccess(r) PROVE RiskInv'
  BY <1>29, RevokeLeaves DEF RevokeSessionAccess
<1>30. ASSUME NEW r \in Req, RevokeSessionRefresh(r) PROVE RiskInv'
  BY <1>30, RevokeLeaves DEF RevokeSessionRefresh
<1>30a. ASSUME NEW r \in Req, NEW verdict \in {"approved", "denied"}, MarkDevice(r, verdict) PROVE RiskInv'
  BY <1>30a DEF MarkDevice
<1>31. ASSUME NEW r \in Req, ClaimDevice(r) PROVE RiskInv'
  BY <1>31 DEF ClaimDevice
<1>32. ASSUME NEW r \in Req, InsertDeviceAccess(r) PROVE RiskInv'
  BY <1>32 DEF InsertDeviceAccess, InsertAccess
<1>33. ASSUME NEW r \in Req, InsertDeviceRefresh(r) PROVE RiskInv'
  BY <1>33 DEF InsertDeviceRefresh, InsertRefresh
<1>34. ASSUME NEW r \in Req, RevokeRefreshRow(r) PROVE RiskInv'
  BY <1>34, RevokeLeaves DEF RevokeRefreshRow
<1>35. ASSUME NEW r \in Req, RevokeFamily(r) PROVE RiskInv'
  BY <1>35, RevokeLeaves DEF RevokeFamily
<1>36. ASSUME NEW r \in Req, TerminateNext(r) PROVE RiskInv'
  BY <1>36 DEF TerminateNext, CallRevokeBySession
<1>37. ASSUME NEW r \in Req, EnqueueLogout(r) PROVE RiskInv'
  BY <1>37 DEF EnqueueLogout
<1>38. ASSUME NEW r \in Req, DeleteBrowserSession(r) PROVE RiskInv'
  BY <1>38 DEF DeleteBrowserSession
<1>39. ASSUME NEW r \in Req, BanAccess(r) PROVE RiskInv'
  BY <1>39, RevokeLeaves DEF BanAccess
<1>40. ASSUME NEW r \in Req, BanRefresh(r) PROVE RiskInv'
  BY <1>40, RevokeLeaves DEF BanRefresh
<1>41. ASSUME NEW r \in Req, CheckApiUser(r) PROVE RiskInv'
  BY <1>41 DEF CheckApiUser
<1>42. ASSUME NEW r \in Req, InsertApiAccess(r) PROVE RiskInv'
  BY <1>42 DEF InsertApiAccess, InsertAccess
<1>43. ASSUME NEW r \in Req, SpendApiRefresh(r) PROVE RiskInv'
  BY <1>43, RevokeLeaves DEF SpendApiRefresh
<1>44. ASSUME NEW r \in Req, InsertApiRefresh(r) PROVE RiskInv'
  BY <1>44 DEF InsertApiRefresh, InsertRefresh
<1>45. ASSUME NEW r \in Req, LogoutAccess(r) PROVE RiskInv'
  BY <1>45, RevokeLeaves DEF LogoutAccess
<1>46. ASSUME NEW r \in Req, Crash(r) PROVE RiskInv'
  BY <1>46 DEF Crash
<1>47. ASSUME Expire PROVE RiskInv'
  BY <1>47, TimeLeaves DEF Expire
<1>48. ASSUME PurgeRefresh PROVE RiskInv'
  BY <1>48, TimeLeaves DEF PurgeRefresh
<1>49. ASSUME PurgeCodes PROVE RiskInv'
  BY <1>49, TimeLeaves DEF PurgeCodes
<1>50. ASSUME PurgeDevices PROVE RiskInv'
  BY <1>50, TimeLeaves DEF PurgeDevices
<1>51. ASSUME UNCHANGED vars PROVE RiskInv'
  BY <1>51 DEF vars
<1> HIDE DEF TypeInv, TypeOK, GoTo, tables, locals, RiskInv
<1> QED
  BY <1>1, <1>2, <1>3, <1>4, <1>5, <1>6, <1>7, <1>8, <1>9, <1>10, <1>11, <1>12, <1>13,
     <1>14, <1>15, <1>16, <1>17, <1>18, <1>19, <1>20, <1>21, <1>22, <1>23, <1>24, <1>25,
     <1>26, <1>27, <1>28, <1>29, <1>30, <1>30a, <1>31, <1>32, <1>33, <1>34, <1>35, <1>36, <1>37,
     <1>38, <1>39, <1>40, <1>41, <1>42, <1>43, <1>44, <1>45, <1>46, <1>47, <1>48, <1>49,
     <1>50, <1>51 DEF Next, Start, Continue

Saying(q) ==
  \/ pc[q] \in {"sess_at", "sess_rt"} /\ ret[q] = "end_queue"
  \/ pc[q] \in {"end_queue", "crashed"}
  \/ pc[q] = "failed" /\ rt[q].st # "absent"

(* No session ends, and what was to be announced still is.                                    *)
AnnounceQuiet ==
  /\ \A s \in Req : sess'[s].st = "terminated" => sess[s].st = "terminated" /\ sess'[s].client = sess[s].client
  /\ queue \subseteq queue'
  /\ \A q \in Req : Saying(q) => /\ sid'[q] = sid[q]
                                 /\ Saying(q)' \/ sid[q] \in queue' \/ sess[sid[q]].client \notin BcClient

LEMMA MostStepsAnnounce ==
  ASSUME TypeInv, SessionsInv, [Next]_vars, \A r \in Req : ~TerminateNext(r) /\ ~TerminateRisky(r)
  PROVE  AnnounceQuiet
<1> USE DEF TypeInv, TypeOK, GoTo, tables, locals, Saying, AnnounceQuiet
<1>1. ASSUME NEW r \in Req, NEW b \in Browser, NEW c \in Client, NEW ok \in BOOLEAN, Authorize(r, b, c, ok) PROVE AnnounceQuiet
  BY <1>1 DEF Authorize, Arrives
<1>2. ASSUME NEW r \in Req, NEW k \in Req, NEW c \in Client, NEW ok \in BOOLEAN, ClaimCode(r, k, c, ok) PROVE AnnounceQuiet
  BY <1>2 DEF ClaimCode, Arrives
<1>3. ASSUME NEW r \in Req, NEW t \in Req, NEW c \in Client, Refresh(r, t, c) PROVE AnnounceQuiet
  BY <1>3 DEF Refresh, Arrives
<1>4. ASSUME NEW r \in Req, NEW c \in Client, DeviceStart(r, c) PROVE AnnounceQuiet
  BY <1>4 DEF DeviceStart, Arrives
<1>5. ASSUME NEW r \in Req, NEW d \in Req, NEW verdict \in {"approved", "denied"}, DecideDevice(r, d, verdict) PROVE AnnounceQuiet
  BY <1>5 DEF DecideDevice, Arrives
<1>6. ASSUME NEW r \in Req, NEW d \in Req, NEW c \in Client, PollDevice(r, d, c) PROVE AnnounceQuiet
  BY <1>6 DEF PollDevice, Arrives
<1>7. ASSUME NEW r \in Req, NEW a \in Req, NEW c \in Client, RevokeAccessToken(r, a, c) PROVE AnnounceQuiet
  BY <1>7, RevokeLeaves DEF RevokeAccessToken, Arrives
<1>8. ASSUME NEW r \in Req, NEW t \in Req, NEW c \in Client, ResolveRefreshToken(r, t, c) PROVE AnnounceQuiet
  BY <1>8 DEF ResolveRefreshToken, Arrives
<1>9. ASSUME NEW r \in Req, NEW b \in Browser, EndSession(r, b) PROVE AnnounceQuiet
  BY <1>9 DEF EndSession, Arrives
<1>10. ASSUME NEW r \in Req, Ban(r) PROVE AnnounceQuiet
  BY <1>10 DEF Ban, Arrives
<1>11. ASSUME NEW r \in Req, NEW flag \in BOOLEAN, SetActive(r, flag) PROVE AnnounceQuiet
  BY <1>11 DEF SetActive, Arrives
<1>12. ASSUME NEW r \in Req, NEW t \in Req, ApiRefresh(r, t) PROVE AnnounceQuiet
  BY <1>12 DEF ApiRefresh, Arrives
<1>13. ASSUME NEW r \in Req, NEW a \in Req, ApiLogout(r, a) PROVE AnnounceQuiet
  BY <1>13, RevokeLeaves DEF ApiLogout, Arrives
<1>14. ASSUME NEW r \in Req, InsertSession(r) PROVE AnnounceQuiet
  BY <1>14 DEF InsertSession, SessionsInv, BeforeSession
<1>15. ASSUME NEW r \in Req, InsertCode(r) PROVE AnnounceQuiet
  BY <1>15 DEF InsertCode
<1>16. ASSUME NEW r \in Req, CheckCodeUser(r) PROVE AnnounceQuiet
  BY <1>16 DEF CheckCodeUser
<1>17. ASSUME NEW r \in Req, InsertCodeAccess(r) PROVE AnnounceQuiet
  BY <1>17 DEF InsertCodeAccess, InsertAccess
<1>18. ASSUME NEW r \in Req, InsertCodeRefresh(r) PROVE AnnounceQuiet
  BY <1>18 DEF InsertCodeRefresh, InsertRefresh
<1>19. ASSUME NEW r \in Req, SeekReplayed(r) PROVE AnnounceQuiet
  BY <1>19 DEF SeekReplayed
<1>20. ASSUME NEW r \in Req, ReplayAccess(r) PROVE AnnounceQuiet
  BY <1>20, RevokeLeaves DEF ReplayAccess
<1>21. ASSUME NEW r \in Req, ReplayRefresh(r) PROVE AnnounceQuiet
  BY <1>21, RevokeLeaves DEF ReplayRefresh
<1>22. ASSUME NEW r \in Req, ReuseFamily(r) PROVE AnnounceQuiet
  BY <1>22, RevokeLeaves DEF ReuseFamily
<1>23. ASSUME NEW r \in Req, CheckRefreshUser(r) PROVE AnnounceQuiet
  BY <1>23 DEF CheckRefreshUser
<1>24. ASSUME NEW r \in Req, ClaimRefresh(r) PROVE AnnounceQuiet
  BY <1>24, RevokeLeaves DEF ClaimRefresh
<1>25. ASSUME NEW r \in Req, InsertRotated(r) PROVE AnnounceQuiet
  BY <1>25 DEF InsertRotated, InsertRefresh
<1>26. ASSUME NEW r \in Req, AssessRisk(r) PROVE AnnounceQuiet
  BY <1>26 DEF AssessRisk, CallRevokeBySession
<1>27. ASSUME NEW r \in Req, InsertRefreshedAccess(r) PROVE AnnounceQuiet
  BY <1>27 DEF InsertRefreshedAccess, InsertAccess
<1>28. ASSUME NEW r \in Req, RevokeSessionAccess(r) PROVE AnnounceQuiet
  BY <1>28, RevokeLeaves DEF RevokeSessionAccess
<1>29. ASSUME NEW r \in Req, RevokeSessionRefresh(r) PROVE AnnounceQuiet
  BY <1>29, RevokeLeaves DEF RevokeSessionRefresh
<1>29a. ASSUME NEW r \in Req, NEW verdict \in {"approved", "denied"}, MarkDevice(r, verdict) PROVE AnnounceQuiet
  BY <1>29a DEF MarkDevice
<1>30. ASSUME NEW r \in Req, ClaimDevice(r) PROVE AnnounceQuiet
  BY <1>30 DEF ClaimDevice
<1>31. ASSUME NEW r \in Req, InsertDeviceAccess(r) PROVE AnnounceQuiet
  BY <1>31 DEF InsertDeviceAccess, InsertAccess
<1>32. ASSUME NEW r \in Req, InsertDeviceRefresh(r) PROVE AnnounceQuiet
  BY <1>32 DEF InsertDeviceRefresh, InsertRefresh
<1>33. ASSUME NEW r \in Req, RevokeRefreshRow(r) PROVE AnnounceQuiet
  BY <1>33, RevokeLeaves DEF RevokeRefreshRow
<1>34. ASSUME NEW r \in Req, RevokeFamily(r) PROVE AnnounceQuiet
  BY <1>34, RevokeLeaves DEF RevokeFamily
<1>35. ASSUME NEW r \in Req, EnqueueLogout(r) PROVE AnnounceQuiet
  BY <1>35 DEF EnqueueLogout
<1>36. ASSUME NEW r \in Req, DeleteBrowserSession(r) PROVE AnnounceQuiet
  BY <1>36 DEF DeleteBrowserSession
<1>37. ASSUME NEW r \in Req, BanAccess(r) PROVE AnnounceQuiet
  BY <1>37, RevokeLeaves DEF BanAccess
<1>38. ASSUME NEW r \in Req, BanRefresh(r) PROVE AnnounceQuiet
  BY <1>38, RevokeLeaves DEF BanRefresh
<1>39. ASSUME NEW r \in Req, CheckApiUser(r) PROVE AnnounceQuiet
  BY <1>39 DEF CheckApiUser
<1>40. ASSUME NEW r \in Req, InsertApiAccess(r) PROVE AnnounceQuiet
  BY <1>40 DEF InsertApiAccess, InsertAccess
<1>41. ASSUME NEW r \in Req, SpendApiRefresh(r) PROVE AnnounceQuiet
  BY <1>41, RevokeLeaves DEF SpendApiRefresh
<1>42. ASSUME NEW r \in Req, InsertApiRefresh(r) PROVE AnnounceQuiet
  BY <1>42 DEF InsertApiRefresh, InsertRefresh
<1>43. ASSUME NEW r \in Req, LogoutAccess(r) PROVE AnnounceQuiet
  BY <1>43, RevokeLeaves DEF LogoutAccess
<1>44. ASSUME NEW r \in Req, Crash(r) PROVE AnnounceQuiet
  BY <1>44 DEF Crash
<1>45. ASSUME Expire PROVE AnnounceQuiet
  BY <1>45, TimeLeaves DEF Expire
<1>46. ASSUME PurgeRefresh PROVE AnnounceQuiet
  BY <1>46, TimeLeaves DEF PurgeRefresh
<1>47. ASSUME PurgeCodes PROVE AnnounceQuiet
  BY <1>47, TimeLeaves DEF PurgeCodes
<1>48. ASSUME PurgeDevices PROVE AnnounceQuiet
  BY <1>48, TimeLeaves DEF PurgeDevices
<1>49. ASSUME UNCHANGED vars PROVE AnnounceQuiet
  BY <1>49 DEF vars
<1> HIDE DEF TypeInv, TypeOK, GoTo, tables, locals, Saying, AnnounceQuiet
<1> QED
  BY <1>1, <1>2, <1>3, <1>4, <1>5, <1>6, <1>7, <1>8, <1>9, <1>10, <1>11, <1>12, <1>13,
     <1>14, <1>15, <1>16, <1>17, <1>18, <1>19, <1>20, <1>21, <1>22, <1>23, <1>24, <1>25,
     <1>26, <1>27, <1>28, <1>29, <1>29a, <1>30, <1>31, <1>32, <1>33, <1>34, <1>35, <1>36, <1>37,
     <1>38, <1>39, <1>40, <1>41, <1>42, <1>43, <1>44, <1>45, <1>46, <1>47, <1>48, <1>49 DEF Next, Start, Continue

LEMMA AnnounceStep ==
  ASSUME TypeInv, SessionInv, RiskInv, AnnounceInv, [Next]_vars
  PROVE  AnnounceInv'
<1>1. ASSUME AnnounceQuiet PROVE AnnounceInv'
  <2> SUFFICES ASSUME NEW s \in Req, sess'[s].st = "terminated", sess'[s].client \in BcClient, s \notin queue'
               PROVE  \E q \in Req : sid'[q] = s /\ Saying(q)'
    BY DEF AnnounceInv, Announces, Saying
  <2>1. PICK q \in Req : sid[q] = s /\ Saying(q)
    BY <1>1 DEF AnnounceInv, Announces, Saying, AnnounceQuiet
  <2> QED
    BY <1>1, <2>1 DEF AnnounceQuiet
<1>2. ASSUME NEW r \in Req, NEW s \in Req, sess' = [sess EXCEPT ![s].st = "terminated"],
             UNCHANGED <<queue, rt>>, sid'[r] = s, Saying(r)', ~Saying(r),
             \A q \in Req : q # r => sid'[q] = sid[q] /\ pc'[q] = pc[q] /\ ret'[q] = ret[q]
      PROVE  AnnounceInv'
  <2>1. \A x \in Req : x # s => sess'[x] = sess[x]
    BY <1>2 DEF TypeInv, TypeOK
  <2> SUFFICES ASSUME NEW x \in Req, sess'[x].st = "terminated", sess'[x].client \in BcClient, x \notin queue'
               PROVE  \E q \in Req : sid'[q] = x /\ Saying(q)'
    BY DEF AnnounceInv, Announces, Saying
  <2>2. CASE x = s
    BY <1>2, <2>2
  <2>3. CASE x # s
    <3>1. PICK q \in Req : sid[q] = x /\ Saying(q)
      BY <1>2, <2>1, <2>3 DEF AnnounceInv, Announces, Saying
    <3>2. q # r
      BY <1>2, <3>1
    <3> QED
      BY <1>2, <3>1, <3>2 DEF Saying
  <2> QED
    BY <2>2, <2>3
<1>3. ASSUME NEW r \in Req, TerminateNext(r) PROVE AnnounceInv'
  <2>1. PICK s \in todo[r] : /\ sess' = [sess EXCEPT ![s].st = "terminated"]
                             /\ sid' = [sid EXCEPT ![r] = s]
    BY <1>3 DEF TerminateNext
  <2>2. s \in Req /\ sid'[r] = s
    BY <2>1 DEF TypeInv, TypeOK
  <2>3. Saying(r)' /\ ~Saying(r) /\ UNCHANGED <<queue, rt>>
    BY <1>3 DEF TerminateNext, CallRevokeBySession, GoTo, TypeInv, TypeOK, Saying
  <2>4. \A q \in Req : q # r => sid'[q] = sid[q] /\ pc'[q] = pc[q] /\ ret'[q] = ret[q]
    BY <1>3, <2>1 DEF TerminateNext, CallRevokeBySession, GoTo, TypeInv, TypeOK
  <2> QED
    BY <1>2, <2>1, <2>2, <2>3, <2>4
<1>4. ASSUME NEW r \in Req, TerminateRisky(r) PROVE AnnounceInv'
  <2>1. PICK s \in Req : s = sid[r]
    BY <1>4 DEF TerminateRisky, TypeInv, ArgsOK
  <2>2. rt[r].st # "absent"
    BY <1>4 DEF TerminateRisky, RiskInv
  <2>3. Saying(r)' /\ ~Saying(r) /\ UNCHANGED <<queue, rt, sid>>
    BY <1>4, <2>2 DEF TerminateRisky, GoTo, TypeInv, TypeOK, Saying, locals
  <2>4. \A q \in Req : q # r => sid'[q] = sid[q] /\ pc'[q] = pc[q] /\ ret'[q] = ret[q]
    BY <1>4 DEF TerminateRisky, GoTo, TypeInv, TypeOK, locals
  <2>5. sess' = [sess EXCEPT ![s].st = "terminated"]
    BY <1>4, <2>1 DEF TerminateRisky
  <2> QED
    BY <1>2, <2>1, <2>3, <2>4, <2>5
<1> QED
  BY <1>1, <1>3, <1>4, MostStepsAnnounce DEF SessionInv

(* A terminated session of a client with a back-channel URI is queued for its logout token,     *)
(* unless the request that ended it is still at work, died, or was the risk engine: also when   *)
(* two confirmations of /api/oidc/end_session overlap.                                           *)
THEOREM LogoutIsAnnouncedTheorem == Spec => []LogoutIsAnnounced
<1>1. Init => RiskInv /\ AnnounceInv
  BY DEF Init, NoSession, RiskInv, AnnounceInv
<1>2. TypeInv /\ RiskInv /\ [Next]_vars => RiskInv'
  BY RiskStep
<1>3. TypeInv /\ SessionInv /\ RiskInv /\ AnnounceInv /\ [Next]_vars => AnnounceInv'
  BY AnnounceStep
<1>4. AnnounceInv => LogoutIsAnnounced
  BY DEF AnnounceInv, Announces, LogoutIsAnnounced
<1> QED
  BY <1>1, <1>2, <1>3, <1>4, SessionInvariant, TypeInvariant, PTL DEF Spec

--------------------------------------------------------------------------------
(* A closed session stays closed.                                                             *)
Feeding == {"new_code", "code_user", "code_at", "code_rt", "ref_rt", "ref_session", "ref_at"}

(* Nothing of any session comes to life and no request begins to work for one.                *)
CloseQuiet ==
  /\ \A s \in Req : sess[s].st = "terminated" => sess'[s].st = "terminated"
  /\ \A x \in Req :
       /\ at'[x].st = "live" => at[x].st = "live" /\ at'[x].sess = at[x].sess
       /\ rt'[x].st = "live" => rt[x].st = "live" /\ rt'[x].sess = rt[x].sess
       /\ codes'[x].st = "fresh" => codes[x].st = "fresh" /\ codes'[x].sess = codes[x].sess
       /\ pc'[x] \in Feeding => pc[x] \in Feeding /\ sid'[x] = sid[x]

LEMMA MostStepsCloseQuietly ==
  ASSUME TypeInv, [Next]_vars,
         \A r \in Req :
           /\ ~(\E b \in Browser, c \in Client, ok \in BOOLEAN : Authorize(r, b, c, ok))
           /\ ~(\E k \in Req, c \in Client, ok \in BOOLEAN : ClaimCode(r, k, c, ok))
           /\ ~InsertSession(r)
           /\ ~InsertCode(r)
           /\ ~ClaimRefresh(r)
           /\ ~InsertCodeAccess(r)
           /\ ~InsertRefreshedAccess(r)
           /\ ~InsertDeviceAccess(r)
           /\ ~InsertApiAccess(r)
           /\ ~InsertCodeRefresh(r)
           /\ ~InsertRotated(r)
           /\ ~InsertDeviceRefresh(r)
           /\ ~InsertApiRefresh(r)
  PROVE  CloseQuiet
<1> USE DEF TypeInv, TypeOK, GoTo, tables, locals, CloseQuiet, Feeding
<1>1. ASSUME NEW r \in Req, NEW t \in Req, NEW c \in Client, Refresh(r, t, c) PROVE CloseQuiet
  BY <1>1 DEF Refresh, Arrives
<1>2. ASSUME NEW r \in Req, NEW c \in Client, DeviceStart(r, c) PROVE CloseQuiet
  BY <1>2 DEF DeviceStart, Arrives
<1>3. ASSUME NEW r \in Req, NEW d \in Req, NEW verdict \in {"approved", "denied"}, DecideDevice(r, d, verdict) PROVE CloseQuiet
  BY <1>3 DEF DecideDevice, Arrives
<1>4. ASSUME NEW r \in Req, NEW d \in Req, NEW c \in Client, PollDevice(r, d, c) PROVE CloseQuiet
  BY <1>4 DEF PollDevice, Arrives
<1>5. ASSUME NEW r \in Req, NEW a \in Req, NEW c \in Client, RevokeAccessToken(r, a, c) PROVE CloseQuiet
  BY <1>5, RevokeLeaves DEF RevokeAccessToken, Arrives
<1>6. ASSUME NEW r \in Req, NEW t \in Req, NEW c \in Client, ResolveRefreshToken(r, t, c) PROVE CloseQuiet
  BY <1>6 DEF ResolveRefreshToken, Arrives
<1>7. ASSUME NEW r \in Req, NEW b \in Browser, EndSession(r, b) PROVE CloseQuiet
  BY <1>7 DEF EndSession, Arrives
<1>8. ASSUME NEW r \in Req, Ban(r) PROVE CloseQuiet
  BY <1>8 DEF Ban, Arrives
<1>9. ASSUME NEW r \in Req, NEW flag \in BOOLEAN, SetActive(r, flag) PROVE CloseQuiet
  BY <1>9 DEF SetActive, Arrives
<1>10. ASSUME NEW r \in Req, NEW t \in Req, ApiRefresh(r, t) PROVE CloseQuiet
  BY <1>10 DEF ApiRefresh, Arrives
<1>11. ASSUME NEW r \in Req, NEW a \in Req, ApiLogout(r, a) PROVE CloseQuiet
  BY <1>11, RevokeLeaves DEF ApiLogout, Arrives
<1>12. ASSUME NEW r \in Req, CheckCodeUser(r) PROVE CloseQuiet
  BY <1>12 DEF CheckCodeUser
<1>13. ASSUME NEW r \in Req, SeekReplayed(r) PROVE CloseQuiet
  BY <1>13 DEF SeekReplayed
<1>14. ASSUME NEW r \in Req, ReplayAccess(r) PROVE CloseQuiet
  BY <1>14, RevokeLeaves DEF ReplayAccess
<1>15. ASSUME NEW r \in Req, ReplayRefresh(r) PROVE CloseQuiet
  BY <1>15, RevokeLeaves DEF ReplayRefresh
<1>16. ASSUME NEW r \in Req, ReuseFamily(r) PROVE CloseQuiet
  BY <1>16, RevokeLeaves DEF ReuseFamily
<1>17. ASSUME NEW r \in Req, CheckRefreshUser(r) PROVE CloseQuiet
  BY <1>17 DEF CheckRefreshUser
<1>18. ASSUME NEW r \in Req, AssessRisk(r) PROVE CloseQuiet
  BY <1>18 DEF AssessRisk, CallRevokeBySession
<1>19. ASSUME NEW r \in Req, TerminateRisky(r) PROVE CloseQuiet
  BY <1>19 DEF TerminateRisky, ArgsOK, SessionRow
<1>20. ASSUME NEW r \in Req, RevokeSessionAccess(r) PROVE CloseQuiet
  BY <1>20, RevokeLeaves DEF RevokeSessionAccess
<1>21. ASSUME NEW r \in Req, RevokeSessionRefresh(r) PROVE CloseQuiet
  BY <1>21, RevokeLeaves DEF RevokeSessionRefresh
<1>21a. ASSUME NEW r \in Req, NEW verdict \in {"approved", "denied"}, MarkDevice(r, verdict) PROVE CloseQuiet
  BY <1>21a DEF MarkDevice
<1>22. ASSUME NEW r \in Req, ClaimDevice(r) PROVE CloseQuiet
  BY <1>22 DEF ClaimDevice
<1>23. ASSUME NEW r \in Req, RevokeRefreshRow(r) PROVE CloseQuiet
  BY <1>23, RevokeLeaves DEF RevokeRefreshRow
<1>24. ASSUME NEW r \in Req, RevokeFamily(r) PROVE CloseQuiet
  BY <1>24, RevokeLeaves DEF RevokeFamily
<1>25. ASSUME NEW r \in Req, TerminateNext(r) PROVE CloseQuiet
  BY <1>25 DEF TerminateNext, CallRevokeBySession, SessionRow
<1>26. ASSUME NEW r \in Req, EnqueueLogout(r) PROVE CloseQuiet
  BY <1>26 DEF EnqueueLogout
<1>27. ASSUME NEW r \in Req, DeleteBrowserSession(r) PROVE CloseQuiet
  BY <1>27 DEF DeleteBrowserSession
<1>28. ASSUME NEW r \in Req, BanAccess(r) PROVE CloseQuiet
  BY <1>28, RevokeLeaves DEF BanAccess
<1>29. ASSUME NEW r \in Req, BanRefresh(r) PROVE CloseQuiet
  BY <1>29, RevokeLeaves DEF BanRefresh
<1>30. ASSUME NEW r \in Req, CheckApiUser(r) PROVE CloseQuiet
  BY <1>30 DEF CheckApiUser
<1>31. ASSUME NEW r \in Req, SpendApiRefresh(r) PROVE CloseQuiet
  BY <1>31, RevokeLeaves DEF SpendApiRefresh
<1>32. ASSUME NEW r \in Req, LogoutAccess(r) PROVE CloseQuiet
  BY <1>32, RevokeLeaves DEF LogoutAccess
<1>33. ASSUME NEW r \in Req, Crash(r) PROVE CloseQuiet
  BY <1>33 DEF Crash
<1>34. ASSUME Expire PROVE CloseQuiet
  BY <1>34, TimeLeaves DEF Expire
<1>35. ASSUME PurgeRefresh PROVE CloseQuiet
  BY <1>35, TimeLeaves DEF PurgeRefresh
<1>36. ASSUME PurgeCodes PROVE CloseQuiet
  BY <1>36, TimeLeaves DEF PurgeCodes
<1>37. ASSUME PurgeDevices PROVE CloseQuiet
  BY <1>37, TimeLeaves DEF PurgeDevices
<1>38. ASSUME UNCHANGED vars PROVE CloseQuiet
  BY <1>38 DEF vars
<1> HIDE DEF TypeInv, TypeOK, GoTo, tables, locals, CloseQuiet, Feeding
<1> QED
  BY <1>1, <1>2, <1>3, <1>4, <1>5, <1>6, <1>7, <1>8, <1>9, <1>10, <1>11, <1>12, <1>13,
     <1>14, <1>15, <1>16, <1>17, <1>18, <1>19, <1>20, <1>21, <1>21a, <1>22, <1>23, <1>24, <1>25,
     <1>26, <1>27, <1>28, <1>29, <1>30, <1>31, <1>32, <1>33, <1>34, <1>35, <1>36, <1>37,
     <1>38 DEF Next, Start, Continue

(* The steps that bring something to life do it for a session that is not closed.             *)
LEMMA FeedingStep ==
  ASSUME TypeInv, SessionInv, NEW s \in Req, Closed(s), NEW r \in Req,
         \/ \E b \in Browser, c \in Client, ok \in BOOLEAN : Authorize(r, b, c, ok)
         \/ \E k \in Req, c \in Client, ok \in BOOLEAN : ClaimCode(r, k, c, ok)
         \/ InsertSession(r) \/ InsertCode(r) \/ ClaimRefresh(r)
         \/ InsertCodeAccess(r) \/ InsertRefreshedAccess(r) \/ InsertDeviceAccess(r) \/ InsertApiAccess(r)
         \/ InsertCodeRefresh(r) \/ InsertRotated(r) \/ InsertDeviceRefresh(r) \/ InsertApiRefresh(r)
  PROVE  Closed(s)'
<1> USE DEF TypeInv, TypeOK, GoTo, tables, locals, Feeds
<1>1. /\ sess[s].st = "terminated" /\ s # None
      /\ \A x \in Req : /\ at[x].st = "live" => at[x].sess # s
                        /\ rt[x].st = "live" => rt[x].sess # s
                        /\ codes[x].st = "fresh" => codes[x].sess # s
      /\ \A x \in Req : pc[x] \in Feeding => sid[x] # s
  BY NoneAssumption DEF Closed, Feeding
<1>2. ASSUME NEW b \in Browser, NEW c \in Client, NEW ok \in BOOLEAN, Authorize(r, b, c, ok)
      PROVE  Closed(s)'
  <2>1. s \notin LiveSessions(b, c)
    BY <1>1 DEF LiveSessions
  <2>2. pc'[r] = "new_code" => sid'[r] # s
    BY <1>2, <2>1 DEF Authorize, Arrives
  <2>3. /\ UNCHANGED tables /\ pc'[r] \in {"failed", "new_session", "new_code"}
        /\ \A q \in Req : q # r => pc'[q] = pc[q] /\ sid'[q] = sid[q]
    BY <1>2 DEF Authorize, Arrives
  <2> QED
    BY <1>1, <2>2, <2>3 DEF Closed, Feeding
<1>3. ASSUME NEW k \in Req, NEW c \in Client, NEW ok \in BOOLEAN, ClaimCode(r, k, c, ok)
      PROVE  Closed(s)'
  <2>1. pc'[r] = "code_user" => sid'[r] # s
    BY <1>1, <1>3 DEF ClaimCode, Claimable, Arrives
  <2>2. /\ UNCHANGED <<sess, at, rt>> /\ pc'[r] \in {"failed", "replay_seek", "code_user"}
        /\ \A q \in Req : q # r => pc'[q] = pc[q] /\ sid'[q] = sid[q]
    BY <1>3 DEF ClaimCode, Arrives
  <2>3. \A x \in Req : codes'[x].st = "fresh" => codes'[x].sess # s
    BY <1>1, <1>3 DEF ClaimCode, CodeRow
  <2> QED
    BY <1>1, <2>1, <2>2, <2>3 DEF Closed, Feeding
<1>4. CASE InsertSession(r)
  <2>1. r # s
    BY <1>1, <1>4 DEF InsertSession, SessionInv, SessionsInv, BeforeSession
  <2> QED
    BY <1>1, <1>4, <2>1 DEF InsertSession, Closed, Feeding
<1>5. CASE InsertCode(r)
  BY <1>1, <1>5 DEF InsertCode, Closed, Feeding
<1>6. CASE ClaimRefresh(r)
  <2>1. arg[r] \in Req /\ pc[r] = "ref_claim" /\ sid[r] = rt[arg[r]].sess
    BY <1>6 DEF ClaimRefresh, ArgsOK, SessionInv, RootsInv, Claiming
  <2>2. pc'[r] = "ref_rt" => sid[r] # s
    BY <1>1, <1>6, <2>1 DEF ClaimRefresh
  <2>3. \A x \in Req : rt'[x].st = "live" => rt'[x].sess # s
    BY <1>1, <1>6, RevokeLeaves DEF ClaimRefresh
  <2>4. /\ UNCHANGED <<codes, sess, at, sid>> /\ pc'[r] \in {"ref_rt", "failed"}
        /\ \A q \in Req : q # r => pc'[q] = pc[q]
    BY <1>6 DEF ClaimRefresh
  <2> QED
    BY <1>1, <2>2, <2>3, <2>4 DEF Closed, Feeding
<1>7. ASSUME NEW c, NEW x, NEW k, InsertAccess(r, c, x, k), x # s, UNCHANGED <<codes, sess, rt, sid>>,
             \A q \in Req : q # r => pc'[q] = pc[q],
             pc'[r] \in Feeding => pc[r] \in Feeding
      PROVE  Closed(s)'
  BY <1>1, <1>7 DEF InsertAccess, Closed, Feeding
<1>8. ASSUME NEW c, NEW x, NEW k, NEW f, InsertRefresh(r, c, x, k, f), x # s, UNCHANGED <<codes, sess, at, sid>>,
             \A q \in Req : q # r => pc'[q] = pc[q],
             pc'[r] \in Feeding => pc[r] \in Feeding
      PROVE  Closed(s)'
  BY <1>1, <1>8 DEF InsertRefresh, Closed, Feeding
<1>9. CASE InsertCodeAccess(r)
  BY <1>1, <1>7, <1>9 DEF InsertCodeAccess, Feeding
<1>10. CASE InsertRefreshedAccess(r)
  BY <1>1, <1>7, <1>10 DEF InsertRefreshedAccess, Feeding
<1>11. CASE InsertDeviceAccess(r)
  BY <1>1, <1>7, <1>11 DEF InsertDeviceAccess, Feeding
<1>12. CASE InsertApiAccess(r)
  BY <1>1, <1>7, <1>12 DEF InsertApiAccess, Feeding
<1>13. CASE InsertCodeRefresh(r)
  BY <1>1, <1>8, <1>13 DEF InsertCodeRefresh, Feeding
<1>14. CASE InsertRotated(r)
  BY <1>1, <1>8, <1>14 DEF InsertRotated, Feeding
<1>15. CASE InsertDeviceRefresh(r)
  BY <1>1, <1>8, <1>15 DEF InsertDeviceRefresh, Feeding
<1>16. CASE InsertApiRefresh(r)
  BY <1>1, <1>8, <1>16 DEF InsertApiRefresh, Feeding
<1> QED
  BY <1>2, <1>3, <1>4, <1>5, <1>6, <1>9, <1>10, <1>11, <1>12, <1>13, <1>14, <1>15, <1>16

LEMMA CloseStep ==
  ASSUME TypeInv, SessionInv, [Next]_vars, NEW s \in Req, Closed(s)
  PROVE  Closed(s)'
<1>1. ASSUME CloseQuiet PROVE Closed(s)'
  BY <1>1 DEF CloseQuiet, Closed, Feeds, Feeding
<1> QED
  BY <1>1, FeedingStep, MostStepsCloseQuietly

(* Once a terminated session has no live token, no fresh code and no request at work for it,     *)
(* no interleaving of later requests gives it a token again: a revoked token cannot be claimed  *)
(* (refresh-token.ts:66-76) and getOrCreateOidcSession skips terminated rows.                    *)
THEOREM ClosedSessionStaysClosedTheorem == Spec => ClosedSessionStaysClosed
<1>1. TypeInv /\ SessionInv /\ [Next]_vars => [\A s \in Req : Closed(s) => Closed(s)']_vars
  BY CloseStep
<1> QED
  BY <1>1, SessionInvariant, TypeInvariant, PTL DEF Spec, ClosedSessionStaysClosed

--------------------------------------------------------------------------------
(* The authorization-code, refresh-token and device-code grants implement the        *)
(* one-time credential of module SingleUse.                                          *)

(* Which rows a request has inserted, and which credential it serves.                   *)

BeforeAccess == {"idle", "new_session", "new_code", "code_user", "code_at", "ref_user", "ref_claim",
                 "ref_rt", "ref_session", "ref_at", "dev_approve", "dev_deny", "dev_claim", "dev_at",
                 "api_user", "api_at"}
BeforeRotated == BeforeRefresh \cup {"new_session", "new_code"}

ServesCode == {"code_user", "code_at", "code_rt"}
ServesRefresh == {"ref_user", "ref_claim", "ref_rt", "ref_session", "ref_at",
                  "api_user", "api_at", "api_spend", "api_rt"}
ServesDevice == {"dev_claim", "dev_at", "dev_rt"}
Serving == ServesCode \cup ServesRefresh \cup ServesDevice

(* A code and a device code are the last thing their request inserts, and the only one.  *)
OneRow ==
  /\ \A r \in Req : codes[r].st # "absent" \/ devs[r].st # "absent" =>
                      pc[r] = "ok" /\ at[r].st = "absent" /\ rt[r].st = "absent"
  /\ \A r \in Req : codes[r].st = "absent" \/ devs[r].st = "absent"
  /\ \A r \in Req : /\ pc[r] \in BeforeAccess => at[r].st = "absent"
                    /\ pc[r] \in BeforeRotated => rt[r].st = "absent"
  /\ \A d \in Req : devs[d].st = "absent" => ~devs[d].exp

(* Tokens come from a credential an answered request inserted.                            *)
Origin ==
  /\ \A q \in Req : pc[q] \in Serving \/ at[q].st # "absent" \/ rt[q].st # "absent" =>
                      arg[q] \in Req /\ pc[arg[q]] = "ok"
  /\ \A q \in Req : /\ pc[q] \in ServesCode => codes[arg[q]].st # "absent"
                    /\ pc[q] \in ServesRefresh => rt[arg[q]].st # "absent"
                    /\ pc[q] \in ServesDevice => devs[arg[q]].st # "absent"

RowsInv == OneRow /\ Origin

(* Request q has redeemed device code d, or refresh token t.                              *)
DeviceHolder(q, d) == /\ arg[q] = d /\ devs[d].st # "absent"
                      /\ pc[q] = "dev_at" \/ at[q].st # "absent"
RefreshHolder(q, t) == /\ arg[q] = t /\ rt[t].st # "absent"
                       /\ pc[q] = "ref_rt" \/ (rt[q].st # "absent" /\ rt[q].fam # None)

--------------------------------------------------------------------------------
(* What bulk UPDATEs and the passing of time do to the status of a row.                  *)
LEMMA RevokeSpends ==
  ASSUME TypeOK
  PROVE  \A ids : \A x \in Req :
           /\ Revoke(rt, ids)[x].fam = rt[x].fam
           /\ Revoke(rt, ids)[x].st \in {rt[x].st, "revoked"}
           /\ Revoke(rt, ids)[x].st # rt[x].st => rt[x].st = "live"
           /\ Revoke(at, ids)[x].code = at[x].code
           /\ Revoke(at, ids)[x].st = "absent" <=> at[x].st = "absent"
BY DEF Revoke, TypeOK, RefreshRow, AccessRow

LEMMA StatusMoves ==
  ASSUME TypeOK
  PROVE  \A d \in Req, v \in {"used", "approved", "denied", "redeemed"} :
           /\ [devs EXCEPT ![d].st = v][d].st = v
           /\ \A x \in Req : x # d => [devs EXCEPT ![d].st = v][x] = devs[x]
           /\ [codes EXCEPT ![d].st = v][d].st = v
           /\ [codes EXCEPT ![d].st = v][d].exp = codes[d].exp
           /\ \A x \in Req : x # d => [codes EXCEPT ![d].st = v][x] = codes[x]
BY DEF TypeOK, CodeRow, DeviceRow

LEMMA TimeSpends ==
  ASSUME TypeOK, CodeInv, OneRow, Expire \/ PurgeRefresh \/ PurgeCodes \/ PurgeDevices
  PROVE  /\ UNCHANGED <<pc, locals>>
         /\ \A x \in Req :
              /\ rt'[x].fam = rt[x].fam
              /\ rt'[x].st = rt[x].st \/ (rt[x].st = "revoked" /\ rt'[x].st = "purged")
              /\ at'[x].code = at[x].code
              /\ at'[x].st = "absent" <=> at[x].st = "absent"
              /\ codes'[x].st = codes[x].st \/ (codes[x].exp /\ codes'[x].st = "purged")
              /\ codes[x].exp => codes'[x].exp
              /\ codes[x].st = "absent" => codes'[x] = codes[x]
              /\ devs'[x].st = devs[x].st
                 \/ (devs[x].st # "absent" /\ devs'[x].st = "purged")
              /\ devs[x].st = "absent" => devs'[x] = devs[x]
<1> DEFINE Rt(t) == \A x \in Req :
             /\ t[x].fam = rt[x].fam
             /\ t[x].st = rt[x].st \/ (rt[x].st = "revoked" /\ t[x].st = "purged")
           At(t) == \A x \in Req :
             /\ t[x].code = at[x].code
             /\ t[x].st = "absent" <=> at[x].st = "absent"
           Codes(t) == \A x \in Req :
             /\ t[x].st = codes[x].st \/ (codes[x].exp /\ t[x].st = "purged")
             /\ codes[x].exp => t[x].exp
             /\ codes[x].st = "absent" => t[x] = codes[x]
           Devs(t) == \A x \in Req :
             /\ t[x].st = devs[x].st \/ (devs[x].st # "absent" /\ t[x].st = "purged")
             /\ devs[x].st = "absent" => t[x] = devs[x]
<1>1. Rt(rt) /\ At(at) /\ Codes(codes) /\ Devs(devs)
  OBVIOUS
<1>2. \A k \in Req : codes[k].st # "absent" => Codes([codes EXCEPT ![k].exp = TRUE])
  BY DEF TypeOK, CodeRow
<1>3. \A t \in Req : Rt([rt EXCEPT ![t].exp = TRUE])
  BY DEF TypeOK, RefreshRow
<1>4. \A a \in Req : at[a].st # "absent" => At([at EXCEPT ![a].st = "purged"])
  BY DEF TypeOK, AccessRow
<1>5. \A d \in Req : devs[d].st # "absent" => Devs([devs EXCEPT ![d].exp = TRUE])
  BY DEF TypeOK, DeviceRow
<1>6. Rt([t \in Req |-> IF rt[t].exp /\ rt[t].st = "revoked" THEN [rt[t] EXCEPT !.st = "purged"]
                                                          ELSE rt[t]])
  BY DEF TypeOK, RefreshRow
<1>7. Codes([k \in Req |-> IF codes[k].exp THEN [codes[k] EXCEPT !.st = "purged"] ELSE codes[k]])
  BY DEF TypeOK, CodeRow, CodeInv
<1>8. Devs([d \in Req |-> IF devs[d].exp \/ devs[d].st = "redeemed"
                          THEN [devs[d] EXCEPT !.st = "purged"] ELSE devs[d]])
  BY DEF TypeOK, DeviceRow, OneRow
<1>9. Rt(rt') /\ At(at') /\ Codes(codes') /\ Devs(devs')
  <2> HIDE DEF Rt, At, Codes, Devs
  <2>1. CASE Expire
    BY <2>1, <1>1, <1>2, <1>3, <1>4, <1>5 DEF Expire
  <2>2. CASE PurgeRefresh \/ PurgeCodes \/ PurgeDevices
    BY <2>2, <1>1, <1>6, <1>7, <1>8 DEF PurgeRefresh, PurgeCodes, PurgeDevices
  <2> QED
    BY <2>1, <2>2
<1>10. UNCHANGED <<pc, locals>>
  BY DEF Expire, PurgeRefresh, PurgeCodes, PurgeDevices, locals
<1> QED
  BY <1>9, <1>10

--------------------------------------------------------------------------------
(* Rows and their origin.                                                                *)

(* What the UPDATEs of single rows do, besides the request's own state.                   *)
OthersStay(r) == \A q \in Req : q # r => pc'[q] = pc[q] /\ arg'[q] = arg[q]

LEMMA ClaimCodeEffect ==
  ASSUME TypeInv, NEW r \in Req, NEW k \in Req, NEW c \in Client, NEW ok \in BOOLEAN, ClaimCode(r, k, c, ok)
  PROVE  /\ UNCHANGED <<devs, at, rt>> /\ OthersStay(r)
         /\ codes[k].st # "absent" /\ pc[k] = "ok"
         /\ \A x \in Req : /\ x # k => codes'[x] = codes[x]
                           /\ codes'[x].exp = codes[x].exp
                           /\ codes'[x].st \in {codes[x].st, "used"}
                           /\ codes'[x].st # codes[x].st => codes[x].st = "fresh"
         /\ pc[r] = "idle" /\ arg'[r] = k /\ pc'[r] \in {"code_user", "failed", "replay_seek"}
         /\ pc'[r] = "code_user" => codes'[k].st = "used"
<1> USE DEF TypeInv, TypeOK, GoTo, OthersStay
<1>1. UNCHANGED <<devs, at, rt>> /\ OthersStay(r)
  BY DEF ClaimCode, Arrives
<1>2. codes[k].st # "absent" /\ pc[k] = "ok" /\ pc[r] = "idle" /\ arg'[r] = k
  BY DEF ClaimCode, Arrives, Answered
<1>3. CASE Claimable(k, c)
  <2>1. codes' = [codes EXCEPT ![k].st = "used"] /\ pc'[r] \in {"code_user", "failed"}
    BY <1>3 DEF ClaimCode, Arrives
  <2> QED
    BY <1>1, <1>2, <1>3, <2>1, StatusMoves DEF Claimable
<1>4. CASE ~Claimable(k, c)
  <2>1. codes' = codes /\ pc'[r] = "replay_seek"
    BY <1>4 DEF ClaimCode, Arrives
  <2> QED
    BY <1>1, <1>2, <2>1
<1> QED
  BY <1>3, <1>4

LEMMA DecideDeviceEffect ==
  ASSUME TypeInv, NEW r \in Req, NEW d \in Req, NEW v \in {"approved", "denied"}, DecideDevice(r, d, v)
  PROVE  /\ UNCHANGED <<codes, devs, at, rt>> /\ OthersStay(r)
         /\ pc[r] = "idle" /\ arg'[r] = d /\ pc'[r] \in {"dev_approve", "dev_deny"}
  BY DEF DecideDevice, Arrives, TypeInv, TypeOK, GoTo, OthersStay, tables, locals

LEMMA MarkDeviceEffect ==
  ASSUME TypeInv, NEW r \in Req, NEW v \in {"approved", "denied"}, MarkDevice(r, v)
  PROVE  /\ UNCHANGED <<codes, at, rt, arg>> /\ OthersStay(r)
         /\ \A x \in Req : devs'[x] = devs[x] \/ (devs[x].st = "pending" /\ devs'[x].st = v)
         /\ pc[r] \in {"dev_approve", "dev_deny"} /\ pc'[r] \in {"ok", "failed"}
<1> USE DEF TypeInv, TypeOK, GoTo, OthersStay, locals
<1>1. /\ UNCHANGED <<codes, at, rt, arg>> /\ OthersStay(r) /\ arg[r] \in Req
      /\ pc[r] \in {"dev_approve", "dev_deny"} /\ pc'[r] \in {"ok", "failed"}
  BY DEF MarkDevice, ArgsOK
<1>2. PICK d \in Req : d = arg[r]
  BY <1>1
<1>3. devs' = devs \/ (devs[d].st = "pending" /\ devs' = [devs EXCEPT ![d].st = v])
  BY <1>2 DEF MarkDevice
<1>4. \A x \in Req : devs'[x] = devs[x] \/ (devs[x].st = "pending" /\ devs'[x].st = v)
  BY <1>3 DEF DeviceRow
<1> HIDE DEF TypeInv, TypeOK, GoTo
<1> QED
  BY <1>1, <1>4

LEMMA ClaimDeviceEffect ==
  ASSUME TypeInv, NEW r \in Req, ClaimDevice(r)
  PROVE  /\ UNCHANGED <<codes, at, rt, arg>> /\ OthersStay(r) /\ arg[r] \in Req
         /\ \A x \in Req : devs'[x] = devs[x] \/ (x = arg[r] /\ devs[x].st = "approved" /\ devs'[x].st = "redeemed")
         /\ pc[r] = "dev_claim" /\ pc'[r] \in {"dev_at", "failed"}
         /\ pc'[r] = "dev_at" => devs[arg[r]].st = "approved" /\ devs'[arg[r]].st = "redeemed"
<1> USE DEF TypeInv, TypeOK, GoTo, OthersStay, locals
<1>1. /\ UNCHANGED <<codes, at, rt, arg>> /\ OthersStay(r) /\ arg[r] \in Req
      /\ pc[r] = "dev_claim" /\ pc'[r] \in {"dev_at", "failed"}
  BY DEF ClaimDevice, ArgsOK
<1>2. \/ devs' = devs /\ pc'[r] = "failed"
      \/ devs[arg[r]].st = "approved" /\ devs' = [devs EXCEPT ![arg[r]].st = "redeemed"]
  BY DEF ClaimDevice
<1>3. \A x \in Req : \/ devs'[x] = devs[x]
                     \/ x = arg[r] /\ devs[x].st = "approved" /\ devs'[x].st = "redeemed"
  <2>1. PICK d \in Req : d = arg[r]
    BY <1>1
  <2>2. \A x \in Req : [devs EXCEPT ![d].st = "redeemed"][x] =
                          IF x = d THEN [devs[d] EXCEPT !.st = "redeemed"] ELSE devs[x]
    OBVIOUS
  <2>3. [devs[d] EXCEPT !.st = "redeemed"].st = "redeemed"
    BY DEF DeviceRow
  <2> HIDE DEF TypeInv, TypeOK, GoTo
  <2> QED
    BY <1>2, <2>1, <2>2, <2>3
<1>4. pc'[r] = "dev_at" => devs[arg[r]].st = "approved" /\ devs'[arg[r]].st = "redeemed"
  <2>1. PICK d \in Req : d = arg[r]
    BY <1>1
  <2>2. [devs EXCEPT ![d].st = "redeemed"][d].st = "redeemed"
    BY DEF DeviceRow
  <2> HIDE DEF TypeInv, TypeOK, GoTo
  <2> QED
    BY <1>2, <2>1, <2>2
<1> HIDE DEF TypeInv, TypeOK, GoTo
<1> QED
  BY <1>1, <1>3, <1>4

LEMMA ApiLogoutEffect ==
  ASSUME TypeInv, NEW r \in Req, NEW a \in Req, ApiLogout(r, a)
  PROVE  /\ UNCHANGED <<codes, devs, at>> /\ OthersStay(r) /\ rt' = Revoke(rt, Req)
         /\ pc[r] = "idle" /\ pc'[r] = "out_at"
BY DEF ApiLogout, Arrives, TypeInv, TypeOK, GoTo, OthersStay

(* No row is inserted.                                                                   *)
RowsKept ==
  \A r \in Req :
    /\ codes'[r].st = "absent" <=> codes[r].st = "absent"
    /\ devs[r].st = "absent" => devs'[r] = devs[r]
    /\ devs'[r].st = "absent" => devs[r].st = "absent"
    /\ at'[r].st = "absent" <=> at[r].st = "absent"
    /\ rt'[r].st = "absent" <=> rt[r].st = "absent"
    /\ pc[r] = "ok" => pc'[r] = "ok"
    /\ pc'[r] \in BeforeAccess => pc[r] \in BeforeAccess
    /\ pc'[r] \in BeforeRotated => pc[r] \in BeforeRotated

LEMMA MostStepsKeepRows ==
  ASSUME TypeInv, CodeInv, OneRow, [Next]_vars,
         \A r \in Req :
           /\ ~InsertCode(r)
           /\ ~(\E c \in Client : DeviceStart(r, c))
           /\ ~InsertCodeAccess(r)
           /\ ~InsertRefreshedAccess(r)
           /\ ~InsertDeviceAccess(r)
           /\ ~InsertApiAccess(r)
           /\ ~InsertCodeRefresh(r)
           /\ ~InsertRotated(r)
           /\ ~InsertDeviceRefresh(r)
           /\ ~InsertApiRefresh(r)
  PROVE  RowsKept
<1> USE DEF TypeInv, TypeOK, GoTo, tables, locals, RowsKept, BeforeAccess, BeforeRotated, BeforeRefresh
<1>1. ASSUME NEW r \in Req, NEW b \in Browser, NEW c \in Client, NEW ok \in BOOLEAN, Authorize(r, b, c, ok) PROVE RowsKept
  BY <1>1 DEF Authorize, Arrives
<1>2. ASSUME NEW r \in Req, NEW k \in Req, NEW c \in Client, NEW ok \in BOOLEAN, ClaimCode(r, k, c, ok) PROVE RowsKept
  BY <1>2, ClaimCodeEffect DEF OthersStay
<1>3. ASSUME NEW r \in Req, NEW t \in Req, NEW c \in Client, Refresh(r, t, c) PROVE RowsKept
  BY <1>3 DEF Refresh, Arrives
<1>4. ASSUME NEW r \in Req, NEW d \in Req, NEW verdict \in {"approved", "denied"}, DecideDevice(r, d, verdict) PROVE RowsKept
  BY <1>4, DecideDeviceEffect DEF OthersStay
<1>5. ASSUME NEW r \in Req, NEW d \in Req, NEW c \in Client, PollDevice(r, d, c) PROVE RowsKept
  BY <1>5 DEF PollDevice, Arrives
<1>6. ASSUME NEW r \in Req, NEW a \in Req, NEW c \in Client, RevokeAccessToken(r, a, c) PROVE RowsKept
  BY <1>6, RevokeSpends DEF RevokeAccessToken, Arrives
<1>7. ASSUME NEW r \in Req, NEW t \in Req, NEW c \in Client, ResolveRefreshToken(r, t, c) PROVE RowsKept
  BY <1>7 DEF ResolveRefreshToken, Arrives
<1>8. ASSUME NEW r \in Req, NEW b \in Browser, EndSession(r, b) PROVE RowsKept
  BY <1>8 DEF EndSession, Arrives
<1>9. ASSUME NEW r \in Req, Ban(r) PROVE RowsKept
  BY <1>9 DEF Ban, Arrives
<1>10. ASSUME NEW r \in Req, NEW flag \in BOOLEAN, SetActive(r, flag) PROVE RowsKept
  BY <1>10 DEF SetActive, Arrives
<1>11. ASSUME NEW r \in Req, NEW t \in Req, ApiRefresh(r, t) PROVE RowsKept
  BY <1>11 DEF ApiRefresh, Arrives
<1>12. ASSUME NEW r \in Req, NEW a \in Req, ApiLogout(r, a) PROVE RowsKept
  BY <1>12, ApiLogoutEffect, RevokeSpends DEF OthersStay
<1>13. ASSUME NEW r \in Req, InsertSession(r) PROVE RowsKept
  BY <1>13 DEF InsertSession
<1>14. ASSUME NEW r \in Req, CheckCodeUser(r) PROVE RowsKept
  BY <1>14 DEF CheckCodeUser
<1>15. ASSUME NEW r \in Req, SeekReplayed(r) PROVE RowsKept
  BY <1>15 DEF SeekReplayed
<1>16. ASSUME NEW r \in Req, ReplayAccess(r) PROVE RowsKept
  BY <1>16, RevokeSpends DEF ReplayAccess
<1>17. ASSUME NEW r \in Req, ReplayRefresh(r) PROVE RowsKept
  BY <1>17, RevokeSpends DEF ReplayRefresh
<1>18. ASSUME NEW r \in Req, ReuseFamily(r) PROVE RowsKept
  BY <1>18, RevokeSpends DEF ReuseFamily
<1>19. ASSUME NEW r \in Req, CheckRefreshUser(r) PROVE RowsKept
  BY <1>19 DEF CheckRefreshUser
<1>20. ASSUME NEW r \in Req, ClaimRefresh(r) PROVE RowsKept
  BY <1>20, RevokeSpends DEF ClaimRefresh
<1>21. ASSUME NEW r \in Req, AssessRisk(r) PROVE RowsKept
  BY <1>21 DEF AssessRisk, CallRevokeBySession
<1>22. ASSUME NEW r \in Req, TerminateRisky(r) PROVE RowsKept
  BY <1>22 DEF TerminateRisky
<1>23. ASSUME NEW r \in Req, RevokeSessionAccess(r) PROVE RowsKept
  BY <1>23, RevokeSpends DEF RevokeSessionAccess
<1>24. ASSUME NEW r \in Req, RevokeSessionRefresh(r) PROVE RowsKept
  BY <1>24, RevokeSpends DEF RevokeSessionRefresh
<1>24a. ASSUME NEW r \in Req, NEW verdict \in {"approved", "denied"}, MarkDevice(r, verdict) PROVE RowsKept
  BY <1>24a, MarkDeviceEffect DEF OthersStay
<1>25. ASSUME NEW r \in Req, ClaimDevice(r) PROVE RowsKept
  BY <1>25, ClaimDeviceEffect DEF OthersStay
<1>26. ASSUME NEW r \in Req, RevokeRefreshRow(r) PROVE RowsKept
  BY <1>26, RevokeSpends DEF RevokeRefreshRow
<1>27. ASSUME NEW r \in Req, RevokeFamily(r) PROVE RowsKept
  BY <1>27, RevokeSpends DEF RevokeFamily
<1>28. ASSUME NEW r \in Req, TerminateNext(r) PROVE RowsKept
  BY <1>28 DEF TerminateNext, CallRevokeBySession
<1>29. ASSUME NEW r \in Req, EnqueueLogout(r) PROVE RowsKept
  BY <1>29 DEF EnqueueLogout
<1>30. ASSUME NEW r \in Req, DeleteBrowserSession(r) PROVE RowsKept
  BY <1>30 DEF DeleteBrowserSession
<1>31. ASSUME NEW r \in Req, BanAccess(r) PROVE RowsKept
  BY <1>31, RevokeSpends DEF BanAccess
<1>32. ASSUME NEW r \in Req, BanRefresh(r) PROVE RowsKept
  BY <1>32, RevokeSpends DEF BanRefresh
<1>33. ASSUME NEW r \in Req, CheckApiUser(r) PROVE RowsKept
  BY <1>33 DEF CheckApiUser
<1>34. ASSUME NEW r \in Req, SpendApiRefresh(r) PROVE RowsKept
  BY <1>34, RevokeSpends DEF SpendApiRefresh
<1>35. ASSUME NEW r \in Req, LogoutAccess(r) PROVE RowsKept
  BY <1>35, RevokeSpends DEF LogoutAccess
<1>36. ASSUME NEW r \in Req, Crash(r) PROVE RowsKept
  BY <1>36 DEF Crash, InFlight
<1>37. ASSUME Expire PROVE RowsKept
  BY <1>37, TimeSpends DEF Expire
<1>38. ASSUME PurgeRefresh PROVE RowsKept
  BY <1>38, TimeSpends DEF PurgeRefresh
<1>39. ASSUME PurgeCodes PROVE RowsKept
  BY <1>39, TimeSpends DEF PurgeCodes
<1>40. ASSUME PurgeDevices PROVE RowsKept
  BY <1>40, TimeSpends DEF PurgeDevices
<1>41. ASSUME UNCHANGED vars PROVE RowsKept
  BY <1>41 DEF vars
<1> HIDE DEF TypeInv, TypeOK, GoTo, tables, locals, RowsKept, BeforeAccess, BeforeRotated, BeforeRefresh
<1> QED
  BY <1>1, <1>2, <1>3, <1>4, <1>5, <1>6, <1>7, <1>8, <1>9, <1>10, <1>11, <1>12, <1>13,
     <1>14, <1>15, <1>16, <1>17, <1>18, <1>19, <1>20, <1>21, <1>22, <1>23, <1>24, <1>24a, <1>25,
     <1>26, <1>27, <1>28, <1>29, <1>30, <1>31, <1>32, <1>33, <1>34, <1>35, <1>36, <1>37,
     <1>38, <1>39, <1>40, <1>41 DEF Next, Start, Continue

LEMMA InsertKeepsOneRow ==
  ASSUME TypeInv, CodeInv, OneRow, NEW r \in Req,
         \/ InsertCode(r) \/ (\E c \in Client : DeviceStart(r, c))
         \/ InsertCodeAccess(r) \/ InsertRefreshedAccess(r) \/ InsertDeviceAccess(r) \/ InsertApiAccess(r)
         \/ InsertCodeRefresh(r) \/ InsertRotated(r) \/ InsertDeviceRefresh(r) \/ InsertApiRefresh(r)
  PROVE  OneRow'
<1> USE DEF TypeInv, TypeOK, GoTo, locals, OneRow, BeforeAccess, BeforeRotated, BeforeRefresh, InsertAccess, InsertRefresh
<1>1. CASE InsertCode(r)
  BY <1>1 DEF InsertCode
<1>2. CASE \E c \in Client : DeviceStart(r, c)
  BY <1>2 DEF DeviceStart, Arrives, CodeInv, BeforeCode
<1>3. CASE InsertCodeAccess(r) \/ InsertRefreshedAccess(r) \/ InsertDeviceAccess(r) \/ InsertApiAccess(r)
  <2>1. /\ UNCHANGED <<codes, devs, rt>> /\ \A q \in Req : q # r => pc'[q] = pc[q]
        /\ \A a \in Req : a # r => at'[a] = at[a]
    BY <1>3 DEF InsertCodeAccess, InsertRefreshedAccess, InsertDeviceAccess, InsertApiAccess
  <2>2. /\ pc[r] \in {"code_at", "ref_at", "dev_at", "api_at"}
        /\ pc'[r] \in {"code_rt", "ok", "dev_rt", "api_spend"}
        /\ pc'[r] = "ok" <=> pc[r] = "ref_at"
    BY <1>3 DEF InsertCodeAccess, InsertRefreshedAccess, InsertDeviceAccess, InsertApiAccess
  <2> HIDE DEF TypeInv, TypeOK, GoTo, locals, InsertAccess, InsertRefresh
  <2>3. codes[r].st = "absent" /\ devs[r].st = "absent"
    BY <2>2
  <2>4. \A q \in Req : pc'[q] \in BeforeAccess => q # r /\ at'[q].st = "absent"
    BY <2>1, <2>2
  <2>5. \A q \in Req : pc'[q] \in BeforeRotated => rt'[q].st = "absent"
    BY <2>1, <2>2
  <2>6. \A q \in Req : codes'[q].st # "absent" \/ devs'[q].st # "absent" =>
                          pc'[q] = "ok" /\ at'[q].st = "absent" /\ rt'[q].st = "absent"
    BY <2>1, <2>3
  <2>7. \A q \in Req : /\ codes'[q].st = "absent" \/ devs'[q].st = "absent"
                       /\ devs'[q].st = "absent" => ~devs'[q].exp
    BY <2>1
  <2> QED
    BY <2>4, <2>5, <2>6, <2>7
<1>4. CASE InsertCodeRefresh(r) \/ InsertRotated(r) \/ InsertDeviceRefresh(r) \/ InsertApiRefresh(r)
  BY <1>4 DEF InsertCodeRefresh, InsertRotated, InsertDeviceRefresh, InsertApiRefresh
<1> QED
  BY <1>1, <1>2, <1>3, <1>4

LEMMA OneRowStep == ASSUME TypeInv, CodeInv, OneRow, [Next]_vars PROVE OneRow'
<1>1. ASSUME RowsKept PROVE OneRow'
  BY <1>1 DEF RowsKept, OneRow, BeforeAccess, BeforeRotated
<1> QED
  BY <1>1, MostStepsKeepRows, InsertKeepsOneRow

(* A request goes on serving the credential it served, or was shown one by an answered   *)
(* request; rows stay.                                                                    *)
StillServes(q) ==
  /\ at'[q].st # "absent" \/ rt'[q].st # "absent" =>
       (at[q].st # "absent" \/ rt[q].st # "absent" \/ pc[q] \in Serving) /\ arg'[q] = arg[q]
  /\ pc'[q] \in ServesCode => pc[q] \in ServesCode /\ arg'[q] = arg[q]
  /\ pc'[q] \in ServesRefresh => pc[q] \in ServesRefresh /\ arg'[q] = arg[q]
  /\ pc'[q] \in ServesDevice => pc[q] \in ServesDevice /\ arg'[q] = arg[q]
ShownTo(q) ==
  /\ arg'[q] \in Req /\ pc[arg'[q]] = "ok"
  /\ pc'[q] \in ServesCode => codes[arg'[q]].st # "absent"
  /\ pc'[q] \in ServesRefresh => rt[arg'[q]].st # "absent"
  /\ pc'[q] \in ServesDevice => devs[arg'[q]].st # "absent"
OriginKept ==
  /\ \A r \in Req : /\ codes[r].st # "absent" => codes'[r].st # "absent"
                    /\ devs[r].st # "absent" => devs'[r].st # "absent"
                    /\ rt[r].st # "absent" => rt'[r].st # "absent"
                    /\ pc[r] = "ok" => pc'[r] = "ok"
  /\ \A q \in Req : StillServes(q) \/ ShownTo(q)

LEMMA OriginKeptStep == ASSUME TypeInv, CodeInv, RowsInv, [Next]_vars PROVE OriginKept
<1> USE DEF TypeInv, TypeOK, GoTo, tables, locals, RowsInv, OneRow, OriginKept, StillServes, ShownTo,
            Serving, ServesCode, ServesRefresh, ServesDevice, BeforeAccess, BeforeRotated, BeforeRefresh
<1>1. ASSUME NEW r \in Req, NEW b \in Browser, NEW c \in Client, NEW ok \in BOOLEAN, Authorize(r, b, c, ok) PROVE OriginKept
  BY <1>1 DEF Authorize, Arrives
<1>2. ASSUME NEW r \in Req, NEW k \in Req, NEW c \in Client, NEW ok \in BOOLEAN, ClaimCode(r, k, c, ok) PROVE OriginKept
  <2>1. /\ pc[r] = "idle" /\ arg'[r] = k /\ pc'[r] \in {"code_user", "failed", "replay_seek"}
        /\ codes[k].st # "absent" /\ pc[k] = "ok" /\ UNCHANGED <<devs, at, rt>> /\ OthersStay(r)
        /\ \A x \in Req : codes[x].st # "absent" => codes'[x].st # "absent"
    BY <1>2, ClaimCodeEffect
  <2>2. \A q \in Req : q # r => StillServes(q)
    BY <2>1 DEF OthersStay
  <2>3. StillServes(r) \/ ShownTo(r)
    BY <2>1
  <2> QED
    BY <2>1, <2>2, <2>3 DEF OthersStay
<1>3. ASSUME NEW r \in Req, NEW t \in Req, NEW c \in Client, Refresh(r, t, c) PROVE OriginKept
  <2>1. PICK p \in {"failed", "reuse_family", "sess_at", "ref_user"} : pc' = [pc EXCEPT ![r] = p]
    BY <1>3 DEF Refresh
  <2>2. /\ pc[r] = "idle" /\ pc[t] = "ok" /\ rt[t].st # "absent" /\ arg' = [arg EXCEPT ![r] = t]
        /\ UNCHANGED tables
    BY <1>3 DEF Refresh, Arrives, Answered
  <2>3. QED
    BY <2>1, <2>2
<1>4. ASSUME NEW r \in Req, NEW c \in Client, DeviceStart(r, c) PROVE OriginKept
  BY <1>4 DEF DeviceStart, Arrives
<1>5. ASSUME NEW r \in Req, NEW d \in Req, NEW verdict \in {"approved", "denied"}, DecideDevice(r, d, verdict) PROVE OriginKept
  BY <1>5, DecideDeviceEffect DEF OthersStay
<1>6. ASSUME NEW r \in Req, NEW d \in Req, NEW c \in Client, PollDevice(r, d, c) PROVE OriginKept
  BY <1>6 DEF PollDevice, Arrives, Answered
<1>7. ASSUME NEW r \in Req, NEW a \in Req, NEW c \in Client, RevokeAccessToken(r, a, c) PROVE OriginKept
  BY <1>7, RevokeSpends DEF RevokeAccessToken, Arrives
<1>8. ASSUME NEW r \in Req, NEW t \in Req, NEW c \in Client, ResolveRefreshToken(r, t, c) PROVE OriginKept
  BY <1>8 DEF ResolveRefreshToken, Arrives
<1>9. ASSUME NEW r \in Req, NEW b \in Browser, EndSession(r, b) PROVE OriginKept
  BY <1>9 DEF EndSession, Arrives
<1>10. ASSUME NEW r \in Req, Ban(r) PROVE OriginKept
  BY <1>10 DEF Ban, Arrives
<1>11. ASSUME NEW r \in Req, NEW flag \in BOOLEAN, SetActive(r, flag) PROVE OriginKept
  BY <1>11 DEF SetActive, Arrives
<1>12. ASSUME NEW r \in Req, NEW t \in Req, ApiRefresh(r, t) PROVE OriginKept
  BY <1>12 DEF ApiRefresh, Arrives, Answered
<1>13. ASSUME NEW r \in Req, NEW a \in Req, ApiLogout(r, a) PROVE OriginKept
  <2>1. /\ pc[r] = "idle" /\ pc'[r] = "out_at" /\ UNCHANGED <<codes, devs, at>> /\ OthersStay(r)
        /\ rt' = Revoke(rt, Req)
    BY <1>13, ApiLogoutEffect
  <2>2. \A x \in Req : rt'[x].st # "absent" <=> rt[x].st # "absent"
    BY <2>1, RevokeSpends
  <2>3. StillServes(r)
    BY <2>1, <2>2
  <2>4. \A q \in Req : q # r => StillServes(q)
    BY <2>1, <2>2 DEF OthersStay
  <2> QED
    BY <2>1, <2>2, <2>3, <2>4 DEF OthersStay
<1>14. ASSUME NEW r \in Req, InsertSession(r) PROVE OriginKept
  BY <1>14 DEF InsertSession
<1>15. ASSUME NEW r \in Req, InsertCode(r) PROVE OriginKept
  BY <1>15 DEF InsertCode
<1>16. ASSUME NEW r \in Req, CheckCodeUser(r) PROVE OriginKept
  BY <1>16 DEF CheckCodeUser
<1>17. ASSUME NEW r \in Req, InsertCodeAccess(r) PROVE OriginKept
  BY <1>17 DEF InsertCodeAccess, InsertAccess
<1>18. ASSUME NEW r \in Req, InsertCodeRefresh(r) PROVE OriginKept
  BY <1>18 DEF InsertCodeRefresh, InsertRefresh
<1>19. ASSUME NEW r \in Req, SeekReplayed(r) PROVE OriginKept
  BY <1>19 DEF SeekReplayed
<1>20. ASSUME NEW r \in Req, ReplayAccess(r) PROVE OriginKept
  BY <1>20, RevokeSpends DEF ReplayAccess
<1>21. ASSUME NEW r \in Req, ReplayRefresh(r) PROVE OriginKept
  BY <1>21, RevokeSpends DEF ReplayRefresh
<1>22. ASSUME NEW r \in Req, ReuseFamily(r) PROVE OriginKept
  BY <1>22, RevokeSpends DEF ReuseFamily
<1>23. ASSUME NEW r \in Req, CheckRefreshUser(r) PROVE OriginKept
  BY <1>23 DEF CheckRefreshUser
<1>24. ASSUME NEW r \in Req, ClaimRefresh(r) PROVE OriginKept
  BY <1>24, RevokeSpends DEF ClaimRefresh
<1>25. ASSUME NEW r \in Req, InsertRotated(r) PROVE OriginKept
  BY <1>25 DEF InsertRotated, InsertRefresh
<1>26. ASSUME NEW r \in Req, AssessRisk(r) PROVE OriginKept
  BY <1>26 DEF AssessRisk, CallRevokeBySession
<1>27. ASSUME NEW r \in Req, TerminateRisky(r) PROVE OriginKept
  BY <1>27 DEF TerminateRisky
<1>28. ASSUME NEW r \in Req, InsertRefreshedAccess(r) PROVE OriginKept
  BY <1>28 DEF InsertRefreshedAccess, InsertAccess
<1>29. ASSUME NEW r \in Req, RevokeSessionAccess(r) PROVE OriginKept
  BY <1>29, RevokeSpends DEF RevokeSessionAccess
<1>30. ASSUME NEW r \in Req, RevokeSessionRefresh(r) PROVE OriginKept
  BY <1>30, RevokeSpends DEF RevokeSessionRefresh
<1>30a. ASSUME NEW r \in Req, NEW verdict \in {"approved", "denied"}, MarkDevice(r, verdict) PROVE OriginKept
  BY <1>30a, MarkDeviceEffect DEF OthersStay
<1>31. ASSUME NEW r \in Req, ClaimDevice(r) PROVE OriginKept
  BY <1>31, ClaimDeviceEffect DEF OthersStay
<1>32. ASSUME NEW r \in Req, InsertDeviceAccess(r) PROVE OriginKept
  BY <1>32 DEF InsertDeviceAccess, InsertAccess
<1>33. ASSUME NEW r \in Req, InsertDeviceRefresh(r) PROVE OriginKept
  BY <1>33 DEF InsertDeviceRefresh, InsertRefresh
<1>34. ASSUME NEW r \in Req, RevokeRefreshRow(r) PROVE OriginKept
  BY <1>34, RevokeSpends DEF RevokeRefreshRow
<1>35. ASSUME NEW r \in Req, RevokeFamily(r) PROVE OriginKept
  BY <1>35, RevokeSpends DEF RevokeFamily
<1>36. ASSUME NEW r \in Req, TerminateNext(r) PROVE OriginKept
  BY <1>36 DEF TerminateNext, CallRevokeBySession
<1>37. ASSUME NEW r \in Req, EnqueueLogout(r) PROVE OriginKept
  BY <1>37 DEF EnqueueLogout
<1>38. ASSUME NEW r \in Req, DeleteBrowserSession(r) PROVE OriginKept
  BY <1>38 DEF DeleteBrowserSession
<1>39. ASSUME NEW r \in Req, BanAccess(r) PROVE OriginKept
  BY <1>39, RevokeSpends DEF BanAccess
<1>40. ASSUME NEW r \in Req, BanRefresh(r) PROVE OriginKept
  BY <1>40, RevokeSpends DEF BanRefresh
<1>41. ASSUME NEW r \in Req, CheckApiUser(r) PROVE OriginKept
  BY <1>41 DEF CheckApiUser
<1>42. ASSUME NEW r \in Req, InsertApiAccess(r) PROVE OriginKept
  BY <1>42 DEF InsertApiAccess, InsertAccess
<1>43. ASSUME NEW r \in Req, SpendApiRefresh(r) PROVE OriginKept
  BY <1>43, RevokeSpends DEF SpendApiRefresh
<1>44. ASSUME NEW r \in Req, InsertApiRefresh(r) PROVE OriginKept
  BY <1>44 DEF InsertApiRefresh, InsertRefresh
<1>45. ASSUME NEW r \in Req, LogoutAccess(r) PROVE OriginKept
  BY <1>45, RevokeSpends DEF LogoutAccess
<1>46. ASSUME NEW r \in Req, Crash(r) PROVE OriginKept
  BY <1>46 DEF Crash, InFlight
<1>47. ASSUME Expire PROVE OriginKept
  BY <1>47, TimeSpends DEF Expire
<1>48. ASSUME PurgeRefresh PROVE OriginKept
  BY <1>48, TimeSpends DEF PurgeRefresh
<1>49. ASSUME PurgeCodes PROVE OriginKept
  BY <1>49, TimeSpends DEF PurgeCodes
<1>50. ASSUME PurgeDevices PROVE OriginKept
  BY <1>50, TimeSpends DEF PurgeDevices
<1>51. ASSUME UNCHANGED vars PROVE OriginKept
  BY <1>51 DEF vars
<1> HIDE DEF TypeInv, TypeOK, GoTo, tables, locals, RowsInv, OneRow, OriginKept, StillServes, ShownTo,
             Serving, ServesCode, ServesRefresh, ServesDevice, BeforeAccess, BeforeRotated, BeforeRefresh
<1> QED
  BY <1>1, <1>2, <1>3, <1>4, <1>5, <1>6, <1>7, <1>8, <1>9, <1>10, <1>11, <1>12, <1>13,
     <1>14, <1>15, <1>16, <1>17, <1>18, <1>19, <1>20, <1>21, <1>22, <1>23, <1>24, <1>25,
     <1>26, <1>27, <1>28, <1>29, <1>30, <1>30a, <1>31, <1>32, <1>33, <1>34, <1>35, <1>36, <1>37,
     <1>38, <1>39, <1>40, <1>41, <1>42, <1>43, <1>44, <1>45, <1>46, <1>47, <1>48, <1>49,
     <1>50, <1>51 DEF Next, Start, Continue

LEMMA RowsStep == ASSUME TypeInv, CodeInv, RowsInv, [Next]_vars PROVE RowsInv'
<1>1. Origin'
  BY OriginKeptStep DEF OriginKept, StillServes, ShownTo, RowsInv, Origin, Serving, ServesCode, ServesRefresh, ServesDevice
<1> QED
  BY <1>1, OneRowStep DEF RowsInv

LEMMA RowsInvariant == Spec => []RowsInv
<1>1. Init => RowsInv
  BY DEF Init, RowsInv, OneRow, Origin, NoCode, NoDevice, NoAccess, NoRefresh, Serving, ServesCode, ServesRefresh, ServesDevice
<1>2. TypeInv /\ CodeInv /\ RowsInv /\ [Next]_vars => RowsInv'
  BY RowsStep
<1> QED
  BY <1>1, <1>2, CodeInvariant, TypeInvariant, PTL DEF Spec

--------------------------------------------------------------------------------
(* Who has redeemed what.                                                                *)

(* Nobody redeems anything, and what was spent stays spent.                               *)
DevicesHeld ==
  /\ \A d \in Req : devs[d].st \in {"redeemed", "purged"} => devs'[d].st \in {"redeemed", "purged"}
  /\ \A q, d \in Req : DeviceHolder(q, d)' => DeviceHolder(q, d)
RefreshesHeld ==
  /\ \A t \in Req : rt[t].st \in {"revoked", "purged"} => rt'[t].st \in {"revoked", "purged"}
  /\ \A q, t \in Req : RefreshHolder(q, t)' => RefreshHolder(q, t)

LEMMA MostStepsHoldDevices ==
  ASSUME TypeInv, CodeInv, RowsInv, [Next]_vars, \A r \in Req : ~ClaimDevice(r)
  PROVE  DevicesHeld
<1> USE DEF TypeInv, TypeOK, GoTo, tables, locals, RowsInv, OneRow, Origin, DevicesHeld, DeviceHolder,
            Serving, ServesCode, ServesRefresh, ServesDevice, BeforeAccess
<1>1. ASSUME NEW r \in Req, NEW b \in Browser, NEW c \in Client, NEW ok \in BOOLEAN, Authorize(r, b, c, ok) PROVE DevicesHeld
  BY <1>1 DEF Authorize, Arrives
<1>2. ASSUME NEW r \in Req, NEW k \in Req, NEW c \in Client, NEW ok \in BOOLEAN, ClaimCode(r, k, c, ok) PROVE DevicesHeld
  BY <1>2, ClaimCodeEffect DEF OthersStay
<1>3. ASSUME NEW r \in Req, NEW t \in Req, NEW c \in Client, Refresh(r, t, c) PROVE DevicesHeld
  <2>1. /\ UNCHANGED <<devs, at>> /\ pc[r] = "idle" /\ pc'[r] # "dev_at"
        /\ \A q \in Req : q # r => pc'[q] = pc[q] /\ arg'[q] = arg[q]
    BY <1>3 DEF Refresh, Arrives
  <2>2. at[r].st = "absent"
    BY <2>1
  <2> QED
    BY <2>1, <2>2
<1>4. ASSUME NEW r \in Req, NEW c \in Client, DeviceStart(r, c) PROVE DevicesHeld
  BY <1>4 DEF DeviceStart, Arrives
<1>5. ASSUME NEW r \in Req, NEW d \in Req, NEW verdict \in {"approved", "denied"}, DecideDevice(r, d, verdict) PROVE DevicesHeld
  BY <1>5, DecideDeviceEffect DEF OthersStay
<1>6. ASSUME NEW r \in Req, NEW d \in Req, NEW c \in Client, PollDevice(r, d, c) PROVE DevicesHeld
  BY <1>6 DEF PollDevice, Arrives
<1>7. ASSUME NEW r \in Req, NEW a \in Req, NEW c \in Client, RevokeAccessToken(r, a, c) PROVE DevicesHeld
  BY <1>7, RevokeSpends DEF RevokeAccessToken, Arrives
<1>8. ASSUME NEW r \in Req, NEW t \in Req, NEW c \in Client, ResolveRefreshToken(r, t, c) PROVE DevicesHeld
  BY <1>8 DEF ResolveRefreshToken, Arrives
<1>9. ASSUME NEW r \in Req, NEW b \in Browser, EndSession(r, b) PROVE DevicesHeld
  BY <1>9 DEF EndSession, Arrives
<1>10. ASSUME NEW r \in Req, Ban(r) PROVE DevicesHeld
  BY <1>10 DEF Ban, Arrives
<1>11. ASSUME NEW r \in Req, NEW flag \in BOOLEAN, SetActive(r, flag) PROVE DevicesHeld
  BY <1>11 DEF SetActive, Arrives
<1>12. ASSUME NEW r \in Req, NEW t \in Req, ApiRefresh(r, t) PROVE DevicesHeld
  BY <1>12 DEF ApiRefresh, Arrives
<1>13. ASSUME NEW r \in Req, NEW a \in Req, ApiLogout(r, a) PROVE DevicesHeld
  BY <1>13, ApiLogoutEffect, RevokeSpends DEF OthersStay
<1>14. ASSUME NEW r \in Req, InsertSession(r) PROVE DevicesHeld
  BY <1>14 DEF InsertSession
<1>15. ASSUME NEW r \in Req, InsertCode(r) PROVE DevicesHeld
  BY <1>15 DEF InsertCode
<1>16. ASSUME NEW r \in Req, CheckCodeUser(r) PROVE DevicesHeld
  BY <1>16 DEF CheckCodeUser
<1>17. ASSUME NEW r \in Req, InsertCodeAccess(r) PROVE DevicesHeld
  BY <1>17 DEF InsertCodeAccess, InsertAccess
<1>18. ASSUME NEW r \in Req, InsertCodeRefresh(r) PROVE DevicesHeld
  BY <1>18 DEF InsertCodeRefresh, InsertRefresh
<1>19. ASSUME NEW r \in Req, SeekReplayed(r) PROVE DevicesHeld
  BY <1>19 DEF SeekReplayed
<1>20. ASSUME NEW r \in Req, ReplayAccess(r) PROVE DevicesHeld
  BY <1>20, RevokeSpends DEF ReplayAccess
<1>21. ASSUME NEW r \in Req, ReplayRefresh(r) PROVE DevicesHeld
  BY <1>21, RevokeSpends DEF ReplayRefresh
<1>22. ASSUME NEW r \in Req, ReuseFamily(r) PROVE DevicesHeld
  BY <1>22, RevokeSpends DEF ReuseFamily
<1>23. ASSUME NEW r \in Req, CheckRefreshUser(r) PROVE DevicesHeld
  BY <1>23 DEF CheckRefreshUser
<1>24. ASSUME NEW r \in Req, ClaimRefresh(r) PROVE DevicesHeld
  BY <1>24, RevokeSpends DEF ClaimRefresh
<1>25. ASSUME NEW r \in Req, InsertRotated(r) PROVE DevicesHeld
  BY <1>25 DEF InsertRotated, InsertRefresh
<1>26. ASSUME NEW r \in Req, AssessRisk(r) PROVE DevicesHeld
  BY <1>26 DEF AssessRisk, CallRevokeBySession
<1>27. ASSUME NEW r \in Req, TerminateRisky(r) PROVE DevicesHeld
  BY <1>27 DEF TerminateRisky
<1>28. ASSUME NEW r \in Req, InsertRefreshedAccess(r) PROVE DevicesHeld
  BY <1>28 DEF InsertRefreshedAccess, InsertAccess
<1>29. ASSUME NEW r \in Req, RevokeSessionAccess(r) PROVE DevicesHeld
  BY <1>29, RevokeSpends DEF RevokeSessionAccess
<1>30. ASSUME NEW r \in Req, RevokeSessionRefresh(r) PROVE DevicesHeld
  BY <1>30, RevokeSpends DEF RevokeSessionRefresh
<1>30a. ASSUME NEW r \in Req, NEW verdict \in {"approved", "denied"}, MarkDevice(r, verdict) PROVE DevicesHeld
  BY <1>30a, MarkDeviceEffect DEF OthersStay
<1>31. ASSUME NEW r \in Req, InsertDeviceAccess(r) PROVE DevicesHeld
  BY <1>31 DEF InsertDeviceAccess, InsertAccess
<1>32. ASSUME NEW r \in Req, InsertDeviceRefresh(r) PROVE DevicesHeld
  BY <1>32 DEF InsertDeviceRefresh, InsertRefresh
<1>33. ASSUME NEW r \in Req, RevokeRefreshRow(r) PROVE DevicesHeld
  BY <1>33, RevokeSpends DEF RevokeRefreshRow
<1>34. ASSUME NEW r \in Req, RevokeFamily(r) PROVE DevicesHeld
  BY <1>34, RevokeSpends DEF RevokeFamily
<1>35. ASSUME NEW r \in Req, TerminateNext(r) PROVE DevicesHeld
  BY <1>35 DEF TerminateNext, CallRevokeBySession
<1>36. ASSUME NEW r \in Req, EnqueueLogout(r) PROVE DevicesHeld
  BY <1>36 DEF EnqueueLogout
<1>37. ASSUME NEW r \in Req, DeleteBrowserSession(r) PROVE DevicesHeld
  BY <1>37 DEF DeleteBrowserSession
<1>38. ASSUME NEW r \in Req, BanAccess(r) PROVE DevicesHeld
  BY <1>38, RevokeSpends DEF BanAccess
<1>39. ASSUME NEW r \in Req, BanRefresh(r) PROVE DevicesHeld
  BY <1>39, RevokeSpends DEF BanRefresh
<1>40. ASSUME NEW r \in Req, CheckApiUser(r) PROVE DevicesHeld
  BY <1>40 DEF CheckApiUser
<1>41. ASSUME NEW r \in Req, InsertApiAccess(r) PROVE DevicesHeld
  BY <1>41 DEF InsertApiAccess, InsertAccess
<1>42. ASSUME NEW r \in Req, SpendApiRefresh(r) PROVE DevicesHeld
  BY <1>42, RevokeSpends DEF SpendApiRefresh
<1>43. ASSUME NEW r \in Req, InsertApiRefresh(r) PROVE DevicesHeld
  BY <1>43 DEF InsertApiRefresh, InsertRefresh
<1>44. ASSUME NEW r \in Req, LogoutAccess(r) PROVE DevicesHeld
  BY <1>44, RevokeSpends DEF LogoutAccess
<1>45. ASSUME NEW r \in Req, Crash(r) PROVE DevicesHeld
  BY <1>45 DEF Crash, InFlight
<1>46. ASSUME Expire PROVE DevicesHeld
  BY <1>46, TimeSpends DEF Expire
<1>47. ASSUME PurgeRefresh PROVE DevicesHeld
  BY <1>47, TimeSpends DEF PurgeRefresh
<1>48. ASSUME PurgeCodes PROVE DevicesHeld
  BY <1>48, TimeSpends DEF PurgeCodes
<1>49. ASSUME PurgeDevices PROVE DevicesHeld
  BY <1>49, TimeSpends DEF PurgeDevices
<1>50. ASSUME UNCHANGED vars PROVE DevicesHeld
  BY <1>50 DEF vars
<1> HIDE DEF TypeInv, TypeOK, GoTo, tables, locals, RowsInv, OneRow, Origin, DevicesHeld, DeviceHolder,
             Serving, ServesCode, ServesRefresh, ServesDevice, BeforeAccess
<1> QED
  BY <1>1, <1>2, <1>3, <1>4, <1>5, <1>6, <1>7, <1>8, <1>9, <1>10, <1>11, <1>12, <1>13,
     <1>14, <1>15, <1>16, <1>17, <1>18, <1>19, <1>20, <1>21, <1>22, <1>23, <1>24, <1>25,
     <1>26, <1>27, <1>28, <1>29, <1>30, <1>30a, <1>31, <1>32, <1>33, <1>34, <1>35, <1>36, <1>37,
     <1>38, <1>39, <1>40, <1>41, <1>42, <1>43, <1>44, <1>45, <1>46, <1>47, <1>48, <1>49,
     <1>50 DEF Next, Start, Continue

LEMMA MostStepsHoldRefreshes ==
  ASSUME TypeInv, CodeInv, RowsInv, [Next]_vars, \A r \in Req : ~ClaimRefresh(r)
  PROVE  RefreshesHeld
<1> USE DEF TypeInv, TypeOK, GoTo, tables, locals, RowsInv, OneRow, Origin, RefreshesHeld, RefreshHolder,
            Serving, ServesCode, ServesRefresh, ServesDevice, BeforeRotated, BeforeRefresh
<1>1. ASSUME NEW r \in Req, NEW b \in Browser, NEW c \in Client, NEW ok \in BOOLEAN, Authorize(r, b, c, ok) PROVE RefreshesHeld
  BY <1>1 DEF Authorize, Arrives
<1>2. ASSUME NEW r \in Req, NEW k \in Req, NEW c \in Client, NEW ok \in BOOLEAN, ClaimCode(r, k, c, ok) PROVE RefreshesHeld
  BY <1>2, ClaimCodeEffect DEF OthersStay
<1>3. ASSUME NEW r \in Req, NEW t \in Req, NEW c \in Client, Refresh(r, t, c) PROVE RefreshesHeld
  BY <1>3 DEF Refresh, Arrives
<1>4. ASSUME NEW r \in Req, NEW c \in Client, DeviceStart(r, c) PROVE RefreshesHeld
  BY <1>4 DEF DeviceStart, Arrives
<1>5. ASSUME NEW r \in Req, NEW d \in Req, NEW verdict \in {"approved", "denied"}, DecideDevice(r, d, verdict) PROVE RefreshesHeld
  BY <1>5, DecideDeviceEffect DEF OthersStay
<1>6. ASSUME NEW r \in Req, NEW d \in Req, NEW c \in Client, PollDevice(r, d, c) PROVE RefreshesHeld
  BY <1>6 DEF PollDevice, Arrives
<1>7. ASSUME NEW r \in Req, NEW a \in Req, NEW c \in Client, RevokeAccessToken(r, a, c) PROVE RefreshesHeld
  BY <1>7, RevokeSpends DEF RevokeAccessToken, Arrives
<1>8. ASSUME NEW r \in Req, NEW t \in Req, NEW c \in Client, ResolveRefreshToken(r, t, c) PROVE RefreshesHeld
  BY <1>8 DEF ResolveRefreshToken, Arrives
<1>9. ASSUME NEW r \in Req, NEW b \in Browser, EndSession(r, b) PROVE RefreshesHeld
  BY <1>9 DEF EndSession, Arrives
<1>10. ASSUME NEW r \in Req, Ban(r) PROVE RefreshesHeld
  BY <1>10 DEF Ban, Arrives
<1>11. ASSUME NEW r \in Req, NEW flag \in BOOLEAN, SetActive(r, flag) PROVE RefreshesHeld
  BY <1>11 DEF SetActive, Arrives
<1>12. ASSUME NEW r \in Req, NEW t \in Req, ApiRefresh(r, t) PROVE RefreshesHeld
  BY <1>12 DEF ApiRefresh, Arrives
<1>13. ASSUME NEW r \in Req, NEW a \in Req, ApiLogout(r, a) PROVE RefreshesHeld
  BY <1>13, ApiLogoutEffect, RevokeSpends DEF OthersStay
<1>14. ASSUME NEW r \in Req, InsertSession(r) PROVE RefreshesHeld
  BY <1>14 DEF InsertSession
<1>15. ASSUME NEW r \in Req, InsertCode(r) PROVE RefreshesHeld
  BY <1>15 DEF InsertCode
<1>16. ASSUME NEW r \in Req, CheckCodeUser(r) PROVE RefreshesHeld
  BY <1>16 DEF CheckCodeUser
<1>17. ASSUME NEW r \in Req, InsertCodeAccess(r) PROVE RefreshesHeld
  BY <1>17 DEF InsertCodeAccess, InsertAccess
<1>18. ASSUME NEW r \in Req, InsertCodeRefresh(r) PROVE RefreshesHeld
  BY <1>18 DEF InsertCodeRefresh, InsertRefresh
<1>19. ASSUME NEW r \in Req, SeekReplayed(r) PROVE RefreshesHeld
  BY <1>19 DEF SeekReplayed
<1>20. ASSUME NEW r \in Req, ReplayAccess(r) PROVE RefreshesHeld
  BY <1>20, RevokeSpends DEF ReplayAccess
<1>21. ASSUME NEW r \in Req, ReplayRefresh(r) PROVE RefreshesHeld
  BY <1>21, RevokeSpends DEF ReplayRefresh
<1>22. ASSUME NEW r \in Req, ReuseFamily(r) PROVE RefreshesHeld
  BY <1>22, RevokeSpends DEF ReuseFamily
<1>23. ASSUME NEW r \in Req, CheckRefreshUser(r) PROVE RefreshesHeld
  BY <1>23 DEF CheckRefreshUser
<1>24. ASSUME NEW r \in Req, InsertRotated(r) PROVE RefreshesHeld
  BY <1>24 DEF InsertRotated, InsertRefresh
<1>25. ASSUME NEW r \in Req, AssessRisk(r) PROVE RefreshesHeld
  BY <1>25 DEF AssessRisk, CallRevokeBySession
<1>26. ASSUME NEW r \in Req, TerminateRisky(r) PROVE RefreshesHeld
  BY <1>26 DEF TerminateRisky
<1>27. ASSUME NEW r \in Req, InsertRefreshedAccess(r) PROVE RefreshesHeld
  BY <1>27 DEF InsertRefreshedAccess, InsertAccess
<1>28. ASSUME NEW r \in Req, RevokeSessionAccess(r) PROVE RefreshesHeld
  BY <1>28, RevokeSpends DEF RevokeSessionAccess
<1>29. ASSUME NEW r \in Req, RevokeSessionRefresh(r) PROVE RefreshesHeld
  BY <1>29, RevokeSpends DEF RevokeSessionRefresh
<1>29a. ASSUME NEW r \in Req, NEW verdict \in {"approved", "denied"}, MarkDevice(r, verdict) PROVE RefreshesHeld
  BY <1>29a, MarkDeviceEffect DEF OthersStay
<1>30. ASSUME NEW r \in Req, ClaimDevice(r) PROVE RefreshesHeld
  BY <1>30, ClaimDeviceEffect DEF OthersStay
<1>31. ASSUME NEW r \in Req, InsertDeviceAccess(r) PROVE RefreshesHeld
  BY <1>31 DEF InsertDeviceAccess, InsertAccess
<1>32. ASSUME NEW r \in Req, InsertDeviceRefresh(r) PROVE RefreshesHeld
  BY <1>32 DEF InsertDeviceRefresh, InsertRefresh
<1>33. ASSUME NEW r \in Req, RevokeRefreshRow(r) PROVE RefreshesHeld
  BY <1>33, RevokeSpends DEF RevokeRefreshRow
<1>34. ASSUME NEW r \in Req, RevokeFamily(r) PROVE RefreshesHeld
  BY <1>34, RevokeSpends DEF RevokeFamily
<1>35. ASSUME NEW r \in Req, TerminateNext(r) PROVE RefreshesHeld
  BY <1>35 DEF TerminateNext, CallRevokeBySession
<1>36. ASSUME NEW r \in Req, EnqueueLogout(r) PROVE RefreshesHeld
  BY <1>36 DEF EnqueueLogout
<1>37. ASSUME NEW r \in Req, DeleteBrowserSession(r) PROVE RefreshesHeld
  BY <1>37 DEF DeleteBrowserSession
<1>38. ASSUME NEW r \in Req, BanAccess(r) PROVE RefreshesHeld
  BY <1>38, RevokeSpends DEF BanAccess
<1>39. ASSUME NEW r \in Req, BanRefresh(r) PROVE RefreshesHeld
  BY <1>39, RevokeSpends DEF BanRefresh
<1>40. ASSUME NEW r \in Req, CheckApiUser(r) PROVE RefreshesHeld
  BY <1>40 DEF CheckApiUser
<1>41. ASSUME NEW r \in Req, InsertApiAccess(r) PROVE RefreshesHeld
  BY <1>41 DEF InsertApiAccess, InsertAccess
<1>42. ASSUME NEW r \in Req, SpendApiRefresh(r) PROVE RefreshesHeld
  BY <1>42, RevokeSpends DEF SpendApiRefresh
<1>43. ASSUME NEW r \in Req, InsertApiRefresh(r) PROVE RefreshesHeld
  BY <1>43 DEF InsertApiRefresh, InsertRefresh
<1>44. ASSUME NEW r \in Req, LogoutAccess(r) PROVE RefreshesHeld
  BY <1>44, RevokeSpends DEF LogoutAccess
<1>45. ASSUME NEW r \in Req, Crash(r) PROVE RefreshesHeld
  BY <1>45 DEF Crash, InFlight
<1>46. ASSUME Expire PROVE RefreshesHeld
  BY <1>46, TimeSpends DEF Expire
<1>47. ASSUME PurgeRefresh PROVE RefreshesHeld
  BY <1>47, TimeSpends DEF PurgeRefresh
<1>48. ASSUME PurgeCodes PROVE RefreshesHeld
  BY <1>48, TimeSpends DEF PurgeCodes
<1>49. ASSUME PurgeDevices PROVE RefreshesHeld
  BY <1>49, TimeSpends DEF PurgeDevices
<1>50. ASSUME UNCHANGED vars PROVE RefreshesHeld
  BY <1>50 DEF vars
<1> HIDE DEF TypeInv, TypeOK, GoTo, tables, locals, RowsInv, OneRow, Origin, RefreshesHeld, RefreshHolder,
             Serving, ServesCode, ServesRefresh, ServesDevice, BeforeRotated, BeforeRefresh
<1> QED
  BY <1>1, <1>2, <1>3, <1>4, <1>5, <1>6, <1>7, <1>8, <1>9, <1>10, <1>11, <1>12, <1>13,
     <1>14, <1>15, <1>16, <1>17, <1>18, <1>19, <1>20, <1>21, <1>22, <1>23, <1>24, <1>25,
     <1>26, <1>27, <1>28, <1>29, <1>29a, <1>30, <1>31, <1>32, <1>33, <1>34, <1>35, <1>36, <1>37,
     <1>38, <1>39, <1>40, <1>41, <1>42, <1>43, <1>44, <1>45, <1>46, <1>47, <1>48, <1>49,
     <1>50 DEF Next, Start, Continue

(* The conditional UPDATE gives a device code to one request.                             *)
DeviceHolders ==
  /\ \A q, d \in Req : DeviceHolder(q, d) => devs[d].st \in {"redeemed", "purged"}
  /\ \A d \in Req : \A p, q \in Req : DeviceHolder(p, d) /\ DeviceHolder(q, d) => p = q
RefreshHolders ==
  /\ \A q, t \in Req : RefreshHolder(q, t) => rt[t].st \in {"revoked", "purged"}
  /\ \A t \in Req : \A p, q \in Req : RefreshHolder(p, t) /\ RefreshHolder(q, t) => p = q

LEMMA DeviceHoldersStep ==
  ASSUME TypeInv, CodeInv, RowsInv, DeviceHolders, [Next]_vars
  PROVE  DeviceHolders'
<1>1. ASSUME DevicesHeld PROVE DeviceHolders'
  BY <1>1 DEF DevicesHeld, DeviceHolders
<1>2. ASSUME NEW r \in Req, ClaimDevice(r) PROVE DeviceHolders'
  <2>1. \A q, d \in Req : DeviceHolder(q, d)' =>
          \/ DeviceHolder(q, d)
          \/ q = r /\ d = arg[r] /\ devs[d].st = "approved" /\ devs'[d].st = "redeemed"
    BY <1>2, ClaimDeviceEffect DEF DeviceHolder, OthersStay
  <2>2. \A d \in Req : devs[d].st \in {"redeemed", "purged"} => devs'[d].st \in {"redeemed", "purged"}
    BY <1>2, ClaimDeviceEffect
  <2> QED
    BY <2>1, <2>2 DEF DeviceHolders
<1> QED
  BY <1>1, <1>2, MostStepsHoldDevices

LEMMA RefreshHoldersStep ==
  ASSUME TypeInv, CodeInv, RowsInv, RefreshHolders, [Next]_vars
  PROVE  RefreshHolders'
<1>1. ASSUME RefreshesHeld PROVE RefreshHolders'
  BY <1>1 DEF RefreshesHeld, RefreshHolders
<1>2. ASSUME NEW r \in Req, ClaimRefresh(r) PROVE RefreshHolders'
  <2>1. /\ arg[r] \in Req /\ arg' = arg
        /\ pc'[r] = "ref_rt" => rt[arg[r]].st = "live"
        /\ pc'[r] \in {"ref_rt", "failed"} /\ pc[r] = "ref_claim"
        /\ \A q \in Req : q # r => pc'[q] = pc[q]
    BY <1>2 DEF ClaimRefresh, TypeInv, TypeOK, ArgsOK, GoTo, locals
  <2>2. \A x \in Req : /\ rt'[x].fam = rt[x].fam
                       /\ rt'[x].st = rt[x].st \/ (rt[x].st = "live" /\ rt'[x].st = "revoked")
    BY <1>2, RevokeSpends DEF ClaimRefresh, TypeInv
  <2>3. rt[arg[r]].st = "live" => rt'[arg[r]].st = "revoked"
    BY <1>2, <2>1 DEF ClaimRefresh, Revoke, TypeInv, TypeOK, RefreshRow
  <2>4. \A q, t \in Req : RefreshHolder(q, t)' =>
          \/ RefreshHolder(q, t)
          \/ q = r /\ t = arg[r] /\ rt[t].st = "live" /\ rt'[t].st = "revoked"
    BY <2>1, <2>2, <2>3 DEF RefreshHolder
  <2> QED
    BY <2>2, <2>4 DEF RefreshHolders
<1> QED
  BY <1>1, <1>2, MostStepsHoldRefreshes

LEMMA HoldersInvariant == Spec => []DeviceHolders /\ []RefreshHolders
<1>1. Init => DeviceHolders /\ RefreshHolders
  BY DEF Init, DeviceHolders, RefreshHolders, DeviceHolder, RefreshHolder, NoDevice, NoRefresh
<1>2. TypeInv /\ CodeInv /\ RowsInv /\ DeviceHolders /\ [Next]_vars => DeviceHolders'
  BY DeviceHoldersStep
<1>3. TypeInv /\ CodeInv /\ RowsInv /\ RefreshHolders /\ [Next]_vars => RefreshHolders'
  BY RefreshHoldersStep
<1> QED
  BY <1>1, <1>2, <1>3, CodeInvariant, RowsInvariant, TypeInvariant, PTL DEF Spec

--------------------------------------------------------------------------------
(* Authorization codes.                                                                   *)
CodeFresh(k) == codes[k].st = "fresh" /\ ~codes[k].exp
CodeSpent(k) == codes[k].st \in {"used", "purged"} \/ codes[k].exp
CodeMinted(q, k) == at[q].st # "absent" /\ at[q].code = k

(* The step takes codes out of circulation, or does not concern them.                     *)
CodesSpending ==
  /\ \A k \in Req : /\ CodeFresh(k)' => CodeFresh(k)
                    /\ CodeSpent(k)' <=> CodeSpent(k) \/ (CodeFresh(k) /\ ~CodeFresh(k)')
  /\ \A q, k \in Req : CodeMinted(q, k)' <=> CodeMinted(q, k)

LEMMA MostStepsSpendCodes ==
  ASSUME TypeInv, CodeInv, RowsInv, [Next]_vars, \A r \in Req : ~InsertCode(r) /\ ~InsertCodeAccess(r)
  PROVE  CodesSpending
<1> USE NoneAssumption DEF TypeInv, TypeOK, GoTo, tables, locals, CodesSpending, CodeFresh, CodeSpent, CodeMinted,
                           RowsInv, OneRow, BeforeAccess
<1>1. ASSUME NEW r \in Req, NEW b \in Browser, NEW c \in Client, NEW ok \in BOOLEAN, Authorize(r, b, c, ok) PROVE CodesSpending
  BY <1>1 DEF Authorize, Arrives
<1>2. ASSUME NEW r \in Req, NEW k \in Req, NEW c \in Client, NEW ok \in BOOLEAN, ClaimCode(r, k, c, ok) PROVE CodesSpending
  BY <1>2, ClaimCodeEffect DEF OthersStay
<1>3. ASSUME NEW r \in Req, NEW t \in Req, NEW c \in Client, Refresh(r, t, c) PROVE CodesSpending
  BY <1>3 DEF Refresh, Arrives
<1>4. ASSUME NEW r \in Req, NEW c \in Client, DeviceStart(r, c) PROVE CodesSpending
  BY <1>4 DEF DeviceStart, Arrives
<1>5. ASSUME NEW r \in Req, NEW d \in Req, NEW verdict \in {"approved", "denied"}, DecideDevice(r, d, verdict) PROVE CodesSpending
  BY <1>5, DecideDeviceEffect DEF OthersStay
<1>6. ASSUME NEW r \in Req, NEW d \in Req, NEW c \in Client, PollDevice(r, d, c) PROVE CodesSpending
  BY <1>6 DEF PollDevice, Arrives
<1>7. ASSUME NEW r \in Req, NEW a \in Req, NEW c \in Client, RevokeAccessToken(r, a, c) PROVE CodesSpending
  BY <1>7, RevokeSpends DEF RevokeAccessToken, Arrives
<1>8. ASSUME NEW r \in Req, NEW t \in Req, NEW c \in Client, ResolveRefreshToken(r, t, c) PROVE CodesSpending
  BY <1>8 DEF ResolveRefreshToken, Arrives
<1>9. ASSUME NEW r \in Req, NEW b \in Browser, EndSession(r, b) PROVE CodesSpending
  BY <1>9 DEF EndSession, Arrives
<1>10. ASSUME NEW r \in Req, Ban(r) PROVE CodesSpending
  BY <1>10 DEF Ban, Arrives
<1>11. ASSUME NEW r \in Req, NEW flag \in BOOLEAN, SetActive(r, flag) PROVE CodesSpending
  BY <1>11 DEF SetActive, Arrives
<1>12. ASSUME NEW r \in Req, NEW t \in Req, ApiRefresh(r, t) PROVE CodesSpending
  BY <1>12 DEF ApiRefresh, Arrives
<1>13. ASSUME NEW r \in Req, NEW a \in Req, ApiLogout(r, a) PROVE CodesSpending
  BY <1>13, ApiLogoutEffect, RevokeSpends DEF OthersStay
<1>14. ASSUME NEW r \in Req, InsertSession(r) PROVE CodesSpending
  BY <1>14 DEF InsertSession
<1>15. ASSUME NEW r \in Req, CheckCodeUser(r) PROVE CodesSpending
  BY <1>15 DEF CheckCodeUser
<1>16. ASSUME NEW r \in Req, InsertCodeRefresh(r) PROVE CodesSpending
  BY <1>16 DEF InsertCodeRefresh, InsertRefresh
<1>17. ASSUME NEW r \in Req, SeekReplayed(r) PROVE CodesSpending
  BY <1>17 DEF SeekReplayed
<1>18. ASSUME NEW r \in Req, ReplayAccess(r) PROVE CodesSpending
  BY <1>18, RevokeSpends DEF ReplayAccess
<1>19. ASSUME NEW r \in Req, ReplayRefresh(r) PROVE CodesSpending
  BY <1>19, RevokeSpends DEF ReplayRefresh
<1>20. ASSUME NEW r \in Req, ReuseFamily(r) PROVE CodesSpending
  BY <1>20, RevokeSpends DEF ReuseFamily
<1>21. ASSUME NEW r \in Req, CheckRefreshUser(r) PROVE CodesSpending
  BY <1>21 DEF CheckRefreshUser
<1>22. ASSUME NEW r \in Req, ClaimRefresh(r) PROVE CodesSpending
  BY <1>22, RevokeSpends DEF ClaimRefresh
<1>23. ASSUME NEW r \in Req, InsertRotated(r) PROVE CodesSpending
  BY <1>23 DEF InsertRotated, InsertRefresh
<1>24. ASSUME NEW r \in Req, AssessRisk(r) PROVE CodesSpending
  BY <1>24 DEF AssessRisk, CallRevokeBySession
<1>25. ASSUME NEW r \in Req, TerminateRisky(r) PROVE CodesSpending
  BY <1>25 DEF TerminateRisky
<1>26. ASSUME NEW r \in Req, InsertRefreshedAccess(r) PROVE CodesSpending
  BY <1>26 DEF InsertRefreshedAccess, InsertAccess
<1>27. ASSUME NEW r \in Req, RevokeSessionAccess(r) PROVE CodesSpending
  BY <1>27, RevokeSpends DEF RevokeSessionAccess
<1>28. ASSUME NEW r \in Req, RevokeSessionRefresh(r) PROVE CodesSpending
  BY <1>28, RevokeSpends DEF RevokeSessionRefresh
<1>28a. ASSUME NEW r \in Req, NEW verdict \in {"approved", "denied"}, MarkDevice(r, verdict) PROVE CodesSpending
  BY <1>28a, MarkDeviceEffect DEF OthersStay
<1>29. ASSUME NEW r \in Req, ClaimDevice(r) PROVE CodesSpending
  BY <1>29, ClaimDeviceEffect DEF OthersStay
<1>30. ASSUME NEW r \in Req, InsertDeviceAccess(r) PROVE CodesSpending
  BY <1>30 DEF InsertDeviceAccess, InsertAccess
<1>31. ASSUME NEW r \in Req, InsertDeviceRefresh(r) PROVE CodesSpending
  BY <1>31 DEF InsertDeviceRefresh, InsertRefresh
<1>32. ASSUME NEW r \in Req, RevokeRefreshRow(r) PROVE CodesSpending
  BY <1>32, RevokeSpends DEF RevokeRefreshRow
<1>33. ASSUME NEW r \in Req, RevokeFamily(r) PROVE CodesSpending
  BY <1>33, RevokeSpends DEF RevokeFamily
<1>34. ASSUME NEW r \in Req, TerminateNext(r) PROVE CodesSpending
  BY <1>34 DEF TerminateNext, CallRevokeBySession
<1>35. ASSUME NEW r \in Req, EnqueueLogout(r) PROVE CodesSpending
  BY <1>35 DEF EnqueueLogout
<1>36. ASSUME NEW r \in Req, DeleteBrowserSession(r) PROVE CodesSpending
  BY <1>36 DEF DeleteBrowserSession
<1>37. ASSUME NEW r \in Req, BanAccess(r) PROVE CodesSpending
  BY <1>37, RevokeSpends DEF BanAccess
<1>38. ASSUME NEW r \in Req, BanRefresh(r) PROVE CodesSpending
  BY <1>38, RevokeSpends DEF BanRefresh
<1>39. ASSUME NEW r \in Req, CheckApiUser(r) PROVE CodesSpending
  BY <1>39 DEF CheckApiUser
<1>40. ASSUME NEW r \in Req, InsertApiAccess(r) PROVE CodesSpending
  BY <1>40 DEF InsertApiAccess, InsertAccess
<1>41. ASSUME NEW r \in Req, SpendApiRefresh(r) PROVE CodesSpending
  BY <1>41, RevokeSpends DEF SpendApiRefresh
<1>42. ASSUME NEW r \in Req, InsertApiRefresh(r) PROVE CodesSpending
  BY <1>42 DEF InsertApiRefresh, InsertRefresh
<1>43. ASSUME NEW r \in Req, LogoutAccess(r) PROVE CodesSpending
  BY <1>43, RevokeSpends DEF LogoutAccess
<1>44. ASSUME NEW r \in Req, Crash(r) PROVE CodesSpending
  BY <1>44 DEF Crash, InFlight
<1>45. ASSUME Expire PROVE CodesSpending
  BY <1>45, TimeSpends DEF Expire
<1>46. ASSUME PurgeRefresh PROVE CodesSpending
  BY <1>46, TimeSpends DEF PurgeRefresh
<1>47. ASSUME PurgeCodes PROVE CodesSpending
  BY <1>47, TimeSpends DEF PurgeCodes
<1>48. ASSUME PurgeDevices PROVE CodesSpending
  BY <1>48, TimeSpends DEF PurgeDevices
<1>49. ASSUME UNCHANGED vars PROVE CodesSpending
  BY <1>49 DEF vars
<1> HIDE DEF TypeInv, TypeOK, GoTo, tables, locals, CodesSpending, CodeFresh, CodeSpent, CodeMinted,
             RowsInv, OneRow, BeforeAccess
<1> QED
  BY <1>1, <1>2, <1>3, <1>4, <1>5, <1>6, <1>7, <1>8, <1>9, <1>10, <1>11, <1>12, <1>13,
     <1>14, <1>15, <1>16, <1>17, <1>18, <1>19, <1>20, <1>21, <1>22, <1>23, <1>24, <1>25,
     <1>26, <1>27, <1>28, <1>28a, <1>29, <1>30, <1>31, <1>32, <1>33, <1>34, <1>35, <1>36, <1>37,
     <1>38, <1>39, <1>40, <1>41, <1>42, <1>43, <1>44, <1>45, <1>46, <1>47, <1>48, <1>49 DEF Next, Start, Continue

LEMMA SpendCodes == ASSUME CodesSpending PROVE CodeCredential!Next
<1> DEFINE F == {k \in Req : codes[k].st = "fresh" /\ ~codes[k].exp}
           S == {k \in Req : codes[k].st \in {"used", "purged"} \/ codes[k].exp}
           M == [k \in Req |-> {q \in Req : at[q].st # "absent" /\ at[q].code = k}]
           C == {k \in Req : CodeFresh(k) /\ ~CodeFresh(k)'}
<1>1. C \in SUBSET Req /\ C \subseteq F
  BY DEF CodeFresh
<1>2. F' = F \ C
  BY DEF CodesSpending, CodeFresh
<1>3. S' = S \cup C
  BY DEF CodesSpending, CodeSpent, CodeFresh
<1>4. M' = M
  BY DEF CodesSpending, CodeMinted
<1> QED
  BY <1>1, <1>2, <1>3, <1>4 DEF CodeCredential!Next, CodeCredential!Spend

LEMMA CodeStep ==
  ASSUME TypeInv, CodeInv, CodeMintsOnce, RowsInv, [Next]_vars
  PROVE  CodeCredential!Next
<1> DEFINE F == {k \in Req : codes[k].st = "fresh" /\ ~codes[k].exp}
           S == {k \in Req : codes[k].st \in {"used", "purged"} \/ codes[k].exp}
           M == [k \in Req |-> {q \in Req : at[q].st # "absent" /\ at[q].code = k}]
<1>1. ASSUME NEW r \in Req, InsertCode(r) PROVE CodeCredential!Next
  <2>1. codes[r].st = "absent" /\ ~codes[r].exp
    BY <1>1 DEF CodeInv, InsertCode, BeforeCode
  <2>2. /\ codes'[r].st = "fresh" /\ ~codes'[r].exp
        /\ \A k \in Req : k # r => codes'[k] = codes[k]
        /\ at' = at
    BY <1>1 DEF InsertCode, TypeInv, TypeOK
  <2>3. r \notin F \cup S /\ F' = F \cup {r} /\ S' = S /\ M' = M
    BY <2>1, <2>2
  <2> QED
    BY <2>3 DEF CodeCredential!Next, CodeCredential!Create
<1>2. ASSUME NEW r \in Req, InsertCodeAccess(r) PROVE CodeCredential!Next
  <2>1. PICK k \in Req : k = arg[r]
    BY <1>2 DEF InsertCodeAccess, TypeInv, ArgsOK
  <2>2. Redeems(r, k) /\ at[r].st = "absent"
    BY <1>2, <2>1 DEF InsertCodeAccess, Redeems, RowsInv, OneRow, BeforeAccess
  <2>3. k \in S
    BY <2>2 DEF CodeInv
  <2>4. M[k] = {}
    BY <2>2 DEF CodeMintsOnce, Redeems
  <2>5. /\ at'[r].st = "live" /\ at'[r].code = k
        /\ \A q \in Req : q # r => at'[q] = at[q]
        /\ codes' = codes
    BY <1>2, <2>1 DEF InsertCodeAccess, InsertAccess, TypeInv, TypeOK
  <2>6. \A x \in Req : M'[x] = IF x = k THEN {r} ELSE M[x]
    BY <2>2, <2>4, <2>5
  <2>7. M' = [M EXCEPT ![k] = {r}]
    BY <2>6
  <2>8. F' = F /\ S' = S
    BY <2>5
  <2> QED
    BY <2>3, <2>4, <2>7, <2>8 DEF CodeCredential!Next, CodeCredential!Mint
<1> QED
  BY <1>1, <1>2, MostStepsSpendCodes, SpendCodes

(* The authorization-code grant implements the one-time credential: a code is handed out   *)
(* once, spent for good by the conditional UPDATE, its expiry or the cleanup job, and one   *)
(* request obtains tokens from it, after it was spent.                                      *)
THEOREM CodeIsSingleUseTheorem == Spec => CodeIsSingleUse
<1>1. Init => CodeCredential!Init
  BY DEF Init, NoCode, NoAccess, CodeCredential!Init
<1>2. TypeInv /\ CodeInv /\ CodeMintsOnce /\ RowsInv /\ [Next]_vars
      => [CodeCredential!Next]_(CodeCredential!vars)
  BY CodeStep
<1> QED
  BY <1>1, <1>2, CodeInvariant, RowsInvariant, TypeInvariant, PTL DEF Spec, CodeIsSingleUse, CodeCredential!Spec

--------------------------------------------------------------------------------
(* Device codes.                                                                          *)
DeviceFresh(d) == devs[d].st \in {"pending", "approved", "denied"}
DeviceSpent(d) == devs[d].st \in {"redeemed", "purged"}
DeviceMinted(q, d) == at[q].st # "absent" /\ arg[q] = d /\ devs[d].st # "absent"

DevicesSpending ==
  /\ \A d \in Req : /\ DeviceFresh(d)' => DeviceFresh(d)
                    /\ DeviceSpent(d)' <=> DeviceSpent(d) \/ (DeviceFresh(d) /\ ~DeviceFresh(d)')
  /\ \A q, d \in Req : DeviceMinted(q, d)' <=> DeviceMinted(q, d)

LEMMA DevicesAge ==
  ASSUME TypeInv, CodeInv, RowsInv, Expire \/ PurgeDevices
  PROVE  /\ UNCHANGED <<pc, arg>>
         /\ \A x \in Req : /\ at'[x].st = "absent" <=> at[x].st = "absent"
                           /\ devs'[x].st = "absent" <=> devs[x].st = "absent"
                           /\ DeviceFresh(x)' => DeviceFresh(x)
                           /\ DeviceSpent(x)' <=> DeviceSpent(x) \/ (DeviceFresh(x) /\ ~DeviceFresh(x)')
<1>1. \A x \in Req : devs[x].st \in {"absent", "pending", "approved", "denied", "redeemed", "purged"}
  BY DEF TypeInv, TypeOK, DeviceRow
<1> QED
  BY <1>1, TimeSpends DEF TypeInv, RowsInv, DeviceFresh, DeviceSpent, locals

LEMMA MostStepsSpendDevices ==
  ASSUME TypeInv, CodeInv, RowsInv, [Next]_vars,
         \A r \in Req : ~InsertDeviceAccess(r) /\ ~(\E c \in Client : DeviceStart(r, c))
  PROVE  DevicesSpending
<1> USE NoneAssumption DEF TypeInv, TypeOK, GoTo, tables, locals, DevicesSpending, DeviceFresh, DeviceSpent, DeviceMinted,
            RowsInv, OneRow, Origin, Serving, ServesCode, ServesRefresh, ServesDevice, BeforeAccess
<1>1. ASSUME NEW r \in Req, NEW b \in Browser, NEW c \in Client, NEW ok \in BOOLEAN, Authorize(r, b, c, ok) PROVE DevicesSpending
  BY <1>1 DEF Authorize, Arrives
<1>2. ASSUME NEW r \in Req, NEW k \in Req, NEW c \in Client, NEW ok \in BOOLEAN, ClaimCode(r, k, c, ok) PROVE DevicesSpending
  BY <1>2, ClaimCodeEffect DEF OthersStay
<1>3. ASSUME NEW r \in Req, NEW t \in Req, NEW c \in Client, Refresh(r, t, c) PROVE DevicesSpending
  BY <1>3 DEF Refresh, Arrives
<1>4. ASSUME NEW r \in Req, NEW d \in Req, NEW verdict \in {"approved", "denied"}, DecideDevice(r, d, verdict) PROVE DevicesSpending
  BY <1>4, DecideDeviceEffect DEF OthersStay
<1>5. ASSUME NEW r \in Req, NEW d \in Req, NEW c \in Client, PollDevice(r, d, c) PROVE DevicesSpending
  BY <1>5 DEF PollDevice, Arrives
<1>6. ASSUME NEW r \in Req, NEW a \in Req, NEW c \in Client, RevokeAccessToken(r, a, c) PROVE DevicesSpending
  BY <1>6, RevokeSpends DEF RevokeAccessToken, Arrives
<1>7. ASSUME NEW r \in Req, NEW t \in Req, NEW c \in Client, ResolveRefreshToken(r, t, c) PROVE DevicesSpending
  BY <1>7 DEF ResolveRefreshToken, Arrives
<1>8. ASSUME NEW r \in Req, NEW b \in Browser, EndSession(r, b) PROVE DevicesSpending
  BY <1>8 DEF EndSession, Arrives
<1>9. ASSUME NEW r \in Req, Ban(r) PROVE DevicesSpending
  BY <1>9 DEF Ban, Arrives
<1>10. ASSUME NEW r \in Req, NEW flag \in BOOLEAN, SetActive(r, flag) PROVE DevicesSpending
  BY <1>10 DEF SetActive, Arrives
<1>11. ASSUME NEW r \in Req, NEW t \in Req, ApiRefresh(r, t) PROVE DevicesSpending
  BY <1>11 DEF ApiRefresh, Arrives
<1>12. ASSUME NEW r \in Req, NEW a \in Req, ApiLogout(r, a) PROVE DevicesSpending
  BY <1>12, ApiLogoutEffect, RevokeSpends DEF OthersStay
<1>13. ASSUME NEW r \in Req, InsertSession(r) PROVE DevicesSpending
  BY <1>13 DEF InsertSession
<1>14. ASSUME NEW r \in Req, InsertCode(r) PROVE DevicesSpending
  BY <1>14 DEF InsertCode
<1>15. ASSUME NEW r \in Req, CheckCodeUser(r) PROVE DevicesSpending
  BY <1>15 DEF CheckCodeUser
<1>16. ASSUME NEW r \in Req, InsertCodeAccess(r) PROVE DevicesSpending
  BY <1>16 DEF InsertCodeAccess, InsertAccess
<1>17. ASSUME NEW r \in Req, InsertCodeRefresh(r) PROVE DevicesSpending
  BY <1>17 DEF InsertCodeRefresh, InsertRefresh
<1>18. ASSUME NEW r \in Req, SeekReplayed(r) PROVE DevicesSpending
  BY <1>18 DEF SeekReplayed
<1>19. ASSUME NEW r \in Req, ReplayAccess(r) PROVE DevicesSpending
  BY <1>19, RevokeSpends DEF ReplayAccess
<1>20. ASSUME NEW r \in Req, ReplayRefresh(r) PROVE DevicesSpending
  BY <1>20, RevokeSpends DEF ReplayRefresh
<1>21. ASSUME NEW r \in Req, ReuseFamily(r) PROVE DevicesSpending
  BY <1>21, RevokeSpends DEF ReuseFamily
<1>22. ASSUME NEW r \in Req, CheckRefreshUser(r) PROVE DevicesSpending
  BY <1>22 DEF CheckRefreshUser
<1>23. ASSUME NEW r \in Req, ClaimRefresh(r) PROVE DevicesSpending
  BY <1>23, RevokeSpends DEF ClaimRefresh
<1>24. ASSUME NEW r \in Req, InsertRotated(r) PROVE DevicesSpending
  BY <1>24 DEF InsertRotated, InsertRefresh
<1>25. ASSUME NEW r \in Req, AssessRisk(r) PROVE DevicesSpending
  BY <1>25 DEF AssessRisk, CallRevokeBySession
<1>26. ASSUME NEW r \in Req, TerminateRisky(r) PROVE DevicesSpending
  BY <1>26 DEF TerminateRisky
<1>27. ASSUME NEW r \in Req, InsertRefreshedAccess(r) PROVE DevicesSpending
  BY <1>27 DEF InsertRefreshedAccess, InsertAccess
<1>28. ASSUME NEW r \in Req, RevokeSessionAccess(r) PROVE DevicesSpending
  BY <1>28, RevokeSpends DEF RevokeSessionAccess
<1>29. ASSUME NEW r \in Req, RevokeSessionRefresh(r) PROVE DevicesSpending
  BY <1>29, RevokeSpends DEF RevokeSessionRefresh
<1>29a. ASSUME NEW r \in Req, NEW verdict \in {"approved", "denied"}, MarkDevice(r, verdict) PROVE DevicesSpending
  BY <1>29a, MarkDeviceEffect DEF OthersStay
<1>30. ASSUME NEW r \in Req, ClaimDevice(r) PROVE DevicesSpending
  BY <1>30, ClaimDeviceEffect DEF OthersStay
<1>31. ASSUME NEW r \in Req, InsertDeviceRefresh(r) PROVE DevicesSpending
  BY <1>31 DEF InsertDeviceRefresh, InsertRefresh
<1>32. ASSUME NEW r \in Req, RevokeRefreshRow(r) PROVE DevicesSpending
  BY <1>32, RevokeSpends DEF RevokeRefreshRow
<1>33. ASSUME NEW r \in Req, RevokeFamily(r) PROVE DevicesSpending
  BY <1>33, RevokeSpends DEF RevokeFamily
<1>34. ASSUME NEW r \in Req, TerminateNext(r) PROVE DevicesSpending
  BY <1>34 DEF TerminateNext, CallRevokeBySession
<1>35. ASSUME NEW r \in Req, EnqueueLogout(r) PROVE DevicesSpending
  BY <1>35 DEF EnqueueLogout
<1>36. ASSUME NEW r \in Req, DeleteBrowserSession(r) PROVE DevicesSpending
  BY <1>36 DEF DeleteBrowserSession
<1>37. ASSUME NEW r \in Req, BanAccess(r) PROVE DevicesSpending
  BY <1>37, RevokeSpends DEF BanAccess
<1>38. ASSUME NEW r \in Req, BanRefresh(r) PROVE DevicesSpending
  BY <1>38, RevokeSpends DEF BanRefresh
<1>39. ASSUME NEW r \in Req, CheckApiUser(r) PROVE DevicesSpending
  BY <1>39 DEF CheckApiUser
<1>40. ASSUME NEW r \in Req, InsertApiAccess(r) PROVE DevicesSpending
  BY <1>40 DEF InsertApiAccess, InsertAccess
<1>41. ASSUME NEW r \in Req, SpendApiRefresh(r) PROVE DevicesSpending
  BY <1>41, RevokeSpends DEF SpendApiRefresh
<1>42. ASSUME NEW r \in Req, InsertApiRefresh(r) PROVE DevicesSpending
  BY <1>42 DEF InsertApiRefresh, InsertRefresh
<1>43. ASSUME NEW r \in Req, LogoutAccess(r) PROVE DevicesSpending
  BY <1>43, RevokeSpends DEF LogoutAccess
<1>44. ASSUME NEW r \in Req, Crash(r) PROVE DevicesSpending
  BY <1>44 DEF Crash, InFlight
<1>45. ASSUME Expire PROVE DevicesSpending
  BY <1>45, DevicesAge DEF Expire
<1>46. ASSUME PurgeRefresh PROVE DevicesSpending
  BY <1>46, TimeSpends DEF PurgeRefresh
<1>47. ASSUME PurgeCodes PROVE DevicesSpending
  BY <1>47, TimeSpends DEF PurgeCodes
<1>48. ASSUME PurgeDevices PROVE DevicesSpending
  BY <1>48, DevicesAge DEF PurgeDevices
<1>49. ASSUME UNCHANGED vars PROVE DevicesSpending
  BY <1>49 DEF vars
<1> HIDE DEF TypeInv, TypeOK, GoTo, tables, locals, DevicesSpending, DeviceFresh, DeviceSpent, DeviceMinted,
             RowsInv, OneRow, Origin, Serving, ServesCode, ServesRefresh, ServesDevice, BeforeAccess
<1> QED
  BY <1>1, <1>2, <1>3, <1>4, <1>5, <1>6, <1>7, <1>8, <1>9, <1>10, <1>11, <1>12, <1>13,
     <1>14, <1>15, <1>16, <1>17, <1>18, <1>19, <1>20, <1>21, <1>22, <1>23, <1>24, <1>25,
     <1>26, <1>27, <1>28, <1>29, <1>29a, <1>30, <1>31, <1>32, <1>33, <1>34, <1>35, <1>36, <1>37,
     <1>38, <1>39, <1>40, <1>41, <1>42, <1>43, <1>44, <1>45, <1>46, <1>47, <1>48, <1>49 DEF Next, Start, Continue

LEMMA SpendDevices == ASSUME DevicesSpending PROVE DeviceCredential!Next
<1> DEFINE F == {d \in Req : devs[d].st \in {"pending", "approved", "denied"}}
           S == {d \in Req : devs[d].st \in {"redeemed", "purged"}}
           M == [d \in Req |-> {q \in Req : at[q].st # "absent" /\ arg[q] = d /\ devs[d].st # "absent"}]
           C == {d \in Req : DeviceFresh(d) /\ ~DeviceFresh(d)'}
<1>1. C \in SUBSET Req /\ C \subseteq F
  BY DEF DeviceFresh
<1>2. F' = F \ C
  BY DEF DevicesSpending, DeviceFresh
<1>3. S' = S \cup C
  BY DEF DevicesSpending, DeviceSpent, DeviceFresh
<1>4. M' = M
  BY DEF DevicesSpending, DeviceMinted
<1> QED
  BY <1>1, <1>2, <1>3, <1>4 DEF DeviceCredential!Next, DeviceCredential!Spend

LEMMA DeviceStep ==
  ASSUME TypeInv, CodeInv, RowsInv, DeviceHolders, [Next]_vars
  PROVE  DeviceCredential!Next
<1> DEFINE F == {d \in Req : devs[d].st \in {"pending", "approved", "denied"}}
           S == {d \in Req : devs[d].st \in {"redeemed", "purged"}}
           M == [d \in Req |-> {q \in Req : at[q].st # "absent" /\ arg[q] = d /\ devs[d].st # "absent"}]
<1>1. ASSUME NEW r \in Req, NEW c \in Client, DeviceStart(r, c) PROVE DeviceCredential!Next
  <2>1. pc[r] = "idle" /\ devs[r].st = "absent"
    BY <1>1 DEF DeviceStart, Arrives, RowsInv, OneRow
  <2>2. /\ devs'[r].st = "pending"
        /\ \A d \in Req : d # r => devs'[d] = devs[d]
        /\ at' = at /\ arg' = arg
    BY <1>1 DEF DeviceStart, TypeInv, TypeOK, locals
  <2>3. \A q \in Req : at[q].st # "absent" => arg[q] # r
    BY <2>1 DEF RowsInv, Origin
  <2>4. r \notin F \cup S /\ F' = F \cup {r} /\ S' = S
    BY <2>1, <2>2
  <2>5. M' = M
    BY <2>1, <2>2, <2>3
  <2> QED
    BY <2>4, <2>5 DEF DeviceCredential!Next, DeviceCredential!Create
<1>2. ASSUME NEW r \in Req, InsertDeviceAccess(r) PROVE DeviceCredential!Next
  <2>1. PICK d \in Req : d = arg[r]
    BY <1>2 DEF InsertDeviceAccess, TypeInv, ArgsOK
  <2>2. DeviceHolder(r, d) /\ at[r].st = "absent" /\ devs[d].st # "absent"
    BY <1>2, <2>1 DEF InsertDeviceAccess, DeviceHolder, RowsInv, OneRow, BeforeAccess, Origin, ServesDevice
  <2>3. d \in S
    BY <2>2 DEF DeviceHolders
  <2>4. M[d] = {}
    BY <2>2 DEF DeviceHolders, DeviceHolder
  <2>5. /\ at'[r].st = "live"
        /\ \A q \in Req : q # r => at'[q] = at[q]
        /\ devs' = devs /\ arg' = arg
    BY <1>2, <2>1 DEF InsertDeviceAccess, InsertAccess, TypeInv, TypeOK, locals
  <2>6. \A x \in Req : M'[x] = IF x = d THEN {r} ELSE M[x]
    BY <2>1, <2>2, <2>4, <2>5
  <2>7. M' = [M EXCEPT ![d] = {r}]
    BY <2>6
  <2>8. F' = F /\ S' = S
    BY <2>5
  <2> QED
    BY <2>3, <2>4, <2>7, <2>8 DEF DeviceCredential!Next, DeviceCredential!Mint
<1> QED
  BY <1>1, <1>2, MostStepsSpendDevices, SpendDevices

(* The device grant implements the one-time credential: however many polls find the code     *)
(* approved at once, one of them obtains tokens from it, after it was redeemed.              *)
THEOREM DeviceIsSingleUseTheorem == Spec => DeviceIsSingleUse
<1>1. Init => DeviceCredential!Init
  BY DEF Init, NoDevice, NoAccess, DeviceCredential!Init
<1>2. TypeInv /\ CodeInv /\ RowsInv /\ DeviceHolders /\ [Next]_vars
      => [DeviceCredential!Next]_(DeviceCredential!vars)
  BY DeviceStep
<1> QED
  BY <1>1, <1>2, CodeInvariant, RowsInvariant, HoldersInvariant, TypeInvariant, PTL
  DEF Spec, DeviceIsSingleUse, DeviceCredential!Spec

--------------------------------------------------------------------------------
(* Refresh tokens.                                                                        *)
RefreshFresh(t) == rt[t].st = "live"
RefreshSpent(t) == rt[t].st \in {"revoked", "purged"}
RefreshMinted(q, t) == rt[q].st # "absent" /\ rt[q].fam # None /\ arg[q] = t /\ rt[t].st # "absent"

RefreshesSpending ==
  /\ \A t \in Req : /\ RefreshFresh(t)' => RefreshFresh(t)
                    /\ RefreshSpent(t)' <=> RefreshSpent(t) \/ (RefreshFresh(t) /\ ~RefreshFresh(t)')
  /\ \A q, t \in Req : RefreshMinted(q, t)' <=> RefreshMinted(q, t)

LEMMA MostStepsSpendRefreshes ==
  ASSUME TypeInv, CodeInv, RowsInv, [Next]_vars,
         \A r \in Req : /\ ~InsertCodeRefresh(r) /\ ~InsertRotated(r)
                        /\ ~InsertDeviceRefresh(r) /\ ~InsertApiRefresh(r)
  PROVE  RefreshesSpending
<1> USE NoneAssumption DEF TypeInv, TypeOK, GoTo, tables, locals, RefreshesSpending, RefreshFresh, RefreshSpent, RefreshMinted,
            RowsInv, OneRow, BeforeRotated, BeforeRefresh
<1>1. ASSUME NEW r \in Req, NEW b \in Browser, NEW c \in Client, NEW ok \in BOOLEAN, Authorize(r, b, c, ok) PROVE RefreshesSpending
  BY <1>1 DEF Authorize, Arrives
<1>2. ASSUME NEW r \in Req, NEW k \in Req, NEW c \in Client, NEW ok \in BOOLEAN, ClaimCode(r, k, c, ok) PROVE RefreshesSpending
  BY <1>2, ClaimCodeEffect DEF OthersStay
<1>3. ASSUME NEW r \in Req, NEW t \in Req, NEW c \in Client, Refresh(r, t, c) PROVE RefreshesSpending
  BY <1>3 DEF Refresh, Arrives
<1>4. ASSUME NEW r \in Req, NEW c \in Client, DeviceStart(r, c) PROVE RefreshesSpending
  BY <1>4 DEF DeviceStart, Arrives
<1>5. ASSUME NEW r \in Req, NEW d \in Req, NEW verdict \in {"approved", "denied"}, DecideDevice(r, d, verdict) PROVE RefreshesSpending
  BY <1>5, DecideDeviceEffect DEF OthersStay
<1>6. ASSUME NEW r \in Req, NEW d \in Req, NEW c \in Client, PollDevice(r, d, c) PROVE RefreshesSpending
  BY <1>6 DEF PollDevice, Arrives
<1>7. ASSUME NEW r \in Req, NEW a \in Req, NEW c \in Client, RevokeAccessToken(r, a, c) PROVE RefreshesSpending
  BY <1>7, RevokeSpends DEF RevokeAccessToken, Arrives
<1>8. ASSUME NEW r \in Req, NEW t \in Req, NEW c \in Client, ResolveRefreshToken(r, t, c) PROVE RefreshesSpending
  BY <1>8 DEF ResolveRefreshToken, Arrives
<1>9. ASSUME NEW r \in Req, NEW b \in Browser, EndSession(r, b) PROVE RefreshesSpending
  BY <1>9 DEF EndSession, Arrives
<1>10. ASSUME NEW r \in Req, Ban(r) PROVE RefreshesSpending
  BY <1>10 DEF Ban, Arrives
<1>11. ASSUME NEW r \in Req, NEW flag \in BOOLEAN, SetActive(r, flag) PROVE RefreshesSpending
  BY <1>11 DEF SetActive, Arrives
<1>12. ASSUME NEW r \in Req, NEW t \in Req, ApiRefresh(r, t) PROVE RefreshesSpending
  BY <1>12 DEF ApiRefresh, Arrives
<1>13. ASSUME NEW r \in Req, NEW a \in Req, ApiLogout(r, a) PROVE RefreshesSpending
  BY <1>13, ApiLogoutEffect, RevokeSpends DEF OthersStay
<1>14. ASSUME NEW r \in Req, InsertSession(r) PROVE RefreshesSpending
  BY <1>14 DEF InsertSession
<1>15. ASSUME NEW r \in Req, InsertCode(r) PROVE RefreshesSpending
  BY <1>15 DEF InsertCode
<1>16. ASSUME NEW r \in Req, CheckCodeUser(r) PROVE RefreshesSpending
  BY <1>16 DEF CheckCodeUser
<1>17. ASSUME NEW r \in Req, InsertCodeAccess(r) PROVE RefreshesSpending
  BY <1>17 DEF InsertCodeAccess, InsertAccess
<1>18. ASSUME NEW r \in Req, SeekReplayed(r) PROVE RefreshesSpending
  BY <1>18 DEF SeekReplayed
<1>19. ASSUME NEW r \in Req, ReplayAccess(r) PROVE RefreshesSpending
  BY <1>19, RevokeSpends DEF ReplayAccess
<1>20. ASSUME NEW r \in Req, ReplayRefresh(r) PROVE RefreshesSpending
  BY <1>20, RevokeSpends DEF ReplayRefresh
<1>21. ASSUME NEW r \in Req, ReuseFamily(r) PROVE RefreshesSpending
  BY <1>21, RevokeSpends DEF ReuseFamily
<1>22. ASSUME NEW r \in Req, CheckRefreshUser(r) PROVE RefreshesSpending
  BY <1>22 DEF CheckRefreshUser
<1>23. ASSUME NEW r \in Req, ClaimRefresh(r) PROVE RefreshesSpending
  BY <1>23, RevokeSpends DEF ClaimRefresh
<1>24. ASSUME NEW r \in Req, AssessRisk(r) PROVE RefreshesSpending
  BY <1>24 DEF AssessRisk, CallRevokeBySession
<1>25. ASSUME NEW r \in Req, TerminateRisky(r) PROVE RefreshesSpending
  BY <1>25 DEF TerminateRisky
<1>26. ASSUME NEW r \in Req, InsertRefreshedAccess(r) PROVE RefreshesSpending
  BY <1>26 DEF InsertRefreshedAccess, InsertAccess
<1>27. ASSUME NEW r \in Req, RevokeSessionAccess(r) PROVE RefreshesSpending
  BY <1>27, RevokeSpends DEF RevokeSessionAccess
<1>28. ASSUME NEW r \in Req, RevokeSessionRefresh(r) PROVE RefreshesSpending
  BY <1>28, RevokeSpends DEF RevokeSessionRefresh
<1>28a. ASSUME NEW r \in Req, NEW verdict \in {"approved", "denied"}, MarkDevice(r, verdict) PROVE RefreshesSpending
  BY <1>28a, MarkDeviceEffect DEF OthersStay
<1>29. ASSUME NEW r \in Req, ClaimDevice(r) PROVE RefreshesSpending
  BY <1>29, ClaimDeviceEffect DEF OthersStay
<1>30. ASSUME NEW r \in Req, InsertDeviceAccess(r) PROVE RefreshesSpending
  BY <1>30 DEF InsertDeviceAccess, InsertAccess
<1>31. ASSUME NEW r \in Req, RevokeRefreshRow(r) PROVE RefreshesSpending
  BY <1>31, RevokeSpends DEF RevokeRefreshRow
<1>32. ASSUME NEW r \in Req, RevokeFamily(r) PROVE RefreshesSpending
  BY <1>32, RevokeSpends DEF RevokeFamily
<1>33. ASSUME NEW r \in Req, TerminateNext(r) PROVE RefreshesSpending
  BY <1>33 DEF TerminateNext, CallRevokeBySession
<1>34. ASSUME NEW r \in Req, EnqueueLogout(r) PROVE RefreshesSpending
  BY <1>34 DEF EnqueueLogout
<1>35. ASSUME NEW r \in Req, DeleteBrowserSession(r) PROVE RefreshesSpending
  BY <1>35 DEF DeleteBrowserSession
<1>36. ASSUME NEW r \in Req, BanAccess(r) PROVE RefreshesSpending
  BY <1>36, RevokeSpends DEF BanAccess
<1>37. ASSUME NEW r \in Req, BanRefresh(r) PROVE RefreshesSpending
  BY <1>37, RevokeSpends DEF BanRefresh
<1>38. ASSUME NEW r \in Req, CheckApiUser(r) PROVE RefreshesSpending
  BY <1>38 DEF CheckApiUser
<1>39. ASSUME NEW r \in Req, InsertApiAccess(r) PROVE RefreshesSpending
  BY <1>39 DEF InsertApiAccess, InsertAccess
<1>40. ASSUME NEW r \in Req, SpendApiRefresh(r) PROVE RefreshesSpending
  BY <1>40, RevokeSpends DEF SpendApiRefresh
<1>41. ASSUME NEW r \in Req, LogoutAccess(r) PROVE RefreshesSpending
  BY <1>41, RevokeSpends DEF LogoutAccess
<1>42. ASSUME NEW r \in Req, Crash(r) PROVE RefreshesSpending
  BY <1>42 DEF Crash, InFlight
<1>43. ASSUME Expire PROVE RefreshesSpending
  BY <1>43, TimeSpends DEF Expire
<1>44. ASSUME PurgeRefresh PROVE RefreshesSpending
  BY <1>44, TimeSpends DEF PurgeRefresh
<1>45. ASSUME PurgeCodes PROVE RefreshesSpending
  BY <1>45, TimeSpends DEF PurgeCodes
<1>46. ASSUME PurgeDevices PROVE RefreshesSpending
  BY <1>46, TimeSpends DEF PurgeDevices
<1>47. ASSUME UNCHANGED vars PROVE RefreshesSpending
  BY <1>47 DEF vars
<1> HIDE DEF TypeInv, TypeOK, GoTo, tables, locals, RefreshesSpending, RefreshFresh, RefreshSpent, RefreshMinted,
             RowsInv, OneRow, BeforeRotated, BeforeRefresh
<1> QED
  BY <1>1, <1>2, <1>3, <1>4, <1>5, <1>6, <1>7, <1>8, <1>9, <1>10, <1>11, <1>12, <1>13,
     <1>14, <1>15, <1>16, <1>17, <1>18, <1>19, <1>20, <1>21, <1>22, <1>23, <1>24, <1>25,
     <1>26, <1>27, <1>28, <1>28a, <1>29, <1>30, <1>31, <1>32, <1>33, <1>34, <1>35, <1>36, <1>37,
     <1>38, <1>39, <1>40, <1>41, <1>42, <1>43, <1>44, <1>45, <1>46, <1>47 DEF Next, Start, Continue

LEMMA SpendRefreshes == ASSUME RefreshesSpending PROVE RefreshCredential!Next
<1> DEFINE F == {t \in Req : rt[t].st = "live"}
           S == {t \in Req : rt[t].st \in {"revoked", "purged"}}
           M == [t \in Req |-> Successors(t)]
           C == {t \in Req : RefreshFresh(t) /\ ~RefreshFresh(t)'}
<1>1. C \in SUBSET Req /\ C \subseteq F
  BY DEF RefreshFresh
<1>2. F' = F \ C
  BY DEF RefreshesSpending, RefreshFresh
<1>3. S' = S \cup C
  BY DEF RefreshesSpending, RefreshSpent, RefreshFresh
<1>4. M' = M
  BY DEF RefreshesSpending, RefreshMinted, Successors
<1> QED
  BY <1>1, <1>2, <1>3, <1>4 DEF RefreshCredential!Next, RefreshCredential!Spend

(* A request about to insert a refresh token has none, and nobody rotated one it has.      *)
LEMMA BeforeInsert ==
  ASSUME RowsInv, NEW r \in Req, pc[r] \in {"code_rt", "ref_rt", "dev_rt", "api_rt"}
  PROVE  /\ rt[r].st = "absent"
         /\ \A q \in Req : rt[q].st # "absent" => arg[q] # r
         /\ arg[r] \in Req /\ arg[r] # r
         /\ pc[r] \in {"code_rt", "dev_rt"} => rt[arg[r]].st = "absent"
         /\ pc[r] \in {"ref_rt", "api_rt"} => rt[arg[r]].st # "absent"
BY DEF RowsInv, OneRow, Origin, BeforeRotated, BeforeRefresh, Serving, ServesCode, ServesRefresh, ServesDevice

LEMMA RefreshGrantStep ==
  ASSUME TypeInv, CodeInv, RowsInv, RefreshHolders, [Next]_vars
  PROVE  RefreshCredential!Next
<1> DEFINE F == {t \in Req : rt[t].st = "live"}
           S == {t \in Req : rt[t].st \in {"revoked", "purged"}}
           M == [t \in Req |-> Successors(t)]
<1>1. ASSUME NEW r \in Req, NEW f, rt'[r].st = "live", rt'[r].fam = f,
             \A q \in Req : q # r => rt'[q] = rt[q], arg' = arg,
             pc[r] \in {"code_rt", "dev_rt", "api_rt"}, pc[r] = "api_rt" => f = None
      PROVE  RefreshCredential!Next
  <2>1. r \notin F \cup S /\ F' = F \cup {r} /\ S' = S
    BY <1>1, BeforeInsert
  <2>2. M' = M
    BY <1>1, BeforeInsert DEF Successors
  <2> QED
    BY <2>1, <2>2 DEF RefreshCredential!Next, RefreshCredential!Create
<1>2. ASSUME NEW r \in Req, InsertCodeRefresh(r) \/ InsertDeviceRefresh(r) \/ InsertApiRefresh(r)
      PROVE  RefreshCredential!Next
  <2>1. CASE InsertCodeRefresh(r)
    BY <1>1, <2>1 DEF InsertCodeRefresh, InsertRefresh, TypeInv, TypeOK, locals
  <2>2. CASE InsertDeviceRefresh(r)
    BY <1>1, <2>2 DEF InsertDeviceRefresh, InsertRefresh, TypeInv, TypeOK, locals
  <2>3. CASE InsertApiRefresh(r)
    BY <1>1, <2>3 DEF InsertApiRefresh, InsertRefresh, TypeInv, TypeOK, locals
  <2> QED
    BY <1>2, <2>1, <2>2, <2>3
<1>3. ASSUME NEW r \in Req, InsertRotated(r) PROVE RefreshCredential!Next
  <2>1. pc[r] = "ref_rt" /\ arg' = arg
    BY <1>3 DEF InsertRotated, locals
  <2>2. PICK t \in Req : t = arg[r]
    BY <2>1, BeforeInsert
  <2>3. /\ rt[r].st = "absent" /\ t # r /\ rt[t].st # "absent" /\ RefreshHolder(r, t)
        /\ \A q \in Req : rt[q].st # "absent" => arg[q] # r
    BY <2>1, <2>2, BeforeInsert DEF RefreshHolder
  <2>4. t \in S
    BY <2>3 DEF RefreshHolders
  <2>5. M[t] = {}
    BY <2>3 DEF RefreshHolders, RefreshHolder, Successors
  <2>6. /\ rt'[r].st = "live" /\ rt'[r].fam # None
        /\ \A q \in Req : q # r => rt'[q] = rt[q]
    BY <1>3, NoneAssumption DEF InsertRotated, InsertRefresh, TypeInv, TypeOK
  <2>7. \A x \in Req : M'[x] = IF x = t THEN {r} ELSE M[x]
    <3>1. \A x, q \in Req : q \in M'[x] <=>
            rt'[q].st # "absent" /\ rt'[q].fam # None /\ arg[q] = x /\ rt'[x].st # "absent"
      BY <2>1 DEF Successors
    <3>2. \A x, q \in Req : q \in M[x] <=>
            rt[q].st # "absent" /\ rt[q].fam # None /\ arg[q] = x /\ rt[x].st # "absent"
      BY DEF Successors
    <3>3. \A x \in Req : M[x] \subseteq Req /\ M'[x] \subseteq Req
      BY DEF Successors
    <3>4. \A x, q \in Req : q \in M'[x] <=> q \in M[x] \/ (x = t /\ q = r)
      BY <2>2, <2>3, <2>6, <3>1, <3>2
    <3>5. \A x \in Req : M'[x] = {q \in Req : q \in M[x] \/ (x = t /\ q = r)}
      <4> HIDE DEF M
      <4> QED
        BY <3>3, <3>4
    <3>6. \A x \in Req : x # t => M'[x] = M[x]
      <4> HIDE DEF M
      <4> QED
        BY <3>3, <3>5
    <3>7. M'[t] = {r}
      <4> HIDE DEF M
      <4> QED
        BY <2>5, <3>5
    <3> QED
      BY <3>6, <3>7
  <2>8. M' = [M EXCEPT ![t] = {r}]
    BY <2>7
  <2>9. F' = F \cup {r} /\ S' = S /\ r \in Req \ (F \cup S)
    BY <2>3, <2>6
  <2> QED
    BY <2>4, <2>5, <2>8, <2>9 DEF RefreshCredential!Next, RefreshCredential!Mint
<1> QED
  BY <1>2, <1>3, MostStepsSpendRefreshes, SpendRefreshes

(* The refresh-token grant implements the one-time credential: however a token was revoked    *)
(* (rotation, reuse, logout, ban, the SPA), at most one request ever rotates it, and that     *)
(* request obtains one successor, after the token was spent.                                   *)
THEOREM RefreshIsSingleUseTheorem == Spec => RefreshIsSingleUse
<1>1. Init => RefreshCredential!Init
  BY DEF Init, NoRefresh, Successors, RefreshCredential!Init
<1>2. TypeInv /\ CodeInv /\ RowsInv /\ RefreshHolders /\ [Next]_vars
      => [RefreshCredential!Next]_(RefreshCredential!vars)
  BY RefreshGrantStep
<1> QED
  BY <1>1, <1>2, CodeInvariant, RowsInvariant, HoldersInvariant, TypeInvariant, PTL
  DEF Spec, RefreshIsSingleUse, RefreshCredential!Spec
================================================================================
