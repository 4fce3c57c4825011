------------------------------- MODULE Decisions -------------------------------
(* Pages on which a signed-in user decides once: approve or deny a device                  *)
(* (src/src/pages/DeviceVerify.tsx, example/src/views/DeviceApprove.vue), consent to an      *)
(* authorization (src/src/pages/Authorize.tsx), sign out everywhere (src/src/pages/Logout.tsx); *)
(* and the start of the console, which decides who is signed in (src/src/App.tsx).           *)
(* Other tabs share the storage; other browsers decide about the same codes.                 *)
EXTENDS FiniteSets

CONSTANTS Thing,   \* user codes, authorization requests, accounts
          NoThing,
          Lookup,  \* lookups of what a page shows, under way together
          Subjects \* <<page, application>> of a behaviour

ASSUME DecisionAssumption ==
  /\ NoThing \notin Thing
  /\ Subjects \subseteq {"device"} \X {"console", "example"} \cup {"consent", "logout", "start"} \X {"console"}

VARIABLES
  subject, host,
  code,          \* device_codes.status
  entered,       \* the code typed; the authorization request, or login code, of the address bar
  about,         \* what the page shows the details of
  look,          \* lookups
  stage,         \* step of the page
  ask,           \* decisions under way: about what and as whom, beside what the page showed
  stored, shownUser, \* whose token is stored; whom the page was loaded for
  alive,         \* accounts of which the server takes a token, as the start of the console asks
  sso,           \* accounts with OIDC sessions of this browser, which a sign-out ends
  outrun, swapped, unsure \* what happened, for the properties

decisionVars == <<subject, host, code, entered, about, look, stage, ask, stored, shownUser, alive, sso,
                  outrun, swapped, unsure>>

Maybe == Thing \cup {NoThing}
NoLook == [at |-> "idle", of |-> NoThing]
NoAsk == [at |-> "idle", of |-> NoThing, shown |-> NoThing, as |-> NoThing, seen |-> NoThing]
Looking == {l \in Lookup : look[l].at # "idle"}
Asking == {k \in {"yes", "no"} : ask[k].at # "idle"}

DecisionsTypeOK ==
  /\ <<subject, host>> \in Subjects
  /\ code \in [Thing -> {"pending", "approved", "denied", "expired"}]
  /\ {entered, about, stored, shownUser} \subseteq Maybe /\ alive \cup sso \subseteq Thing
  /\ look \in [Lookup -> [at : {"idle", "sent", "found", "refused"}, of : Maybe]]
  /\ stage \in {"start", "input", "look", "confirm", "processing", "approved", "denied", "error", "ready", "left"}
  /\ \A k \in {"yes", "no"} : /\ ask[k].at \in {"idle", "sent", "ok", "refused", "lost"}
                              /\ {ask[k].of, ask[k].shown, ask[k].as, ask[k].seen} \subseteq Maybe
  /\ {outrun, swapped, unsure} \subseteq BOOLEAN

DecisionsInit ==
  /\ \E s \in Subjects : subject = s[1] /\ host = s[2]
  /\ code = [c \in Thing |-> "pending"]
  /\ stage = IF subject = "device" THEN "input" ELSE IF subject = "logout" THEN "confirm" ELSE "start"
  /\ entered \in (IF subject = "start" THEN Maybe ELSE {NoThing})
  /\ stored \in (IF subject = "start" THEN Maybe ELSE Thing)
  /\ shownUser = (IF subject = "start" THEN NoThing ELSE stored)
  /\ about = NoThing /\ look = [l \in Lookup |-> NoLook] /\ ask = [k \in {"yes", "no"} |-> NoAsk]
  /\ alive = {stored} \ {NoThing} /\ sso = alive
  /\ outrun = FALSE /\ swapped = FALSE /\ unsure = FALSE

History == UNCHANGED <<outrun, swapped, unsure>>
Accounts == UNCHANGED <<stored, shownUser, alive, sso>>
Fixed == UNCHANGED <<subject, host>>

-----------------------------------------------------------------------------
(* What else happens *)

(* Another tab signs in with another account, or out.                                       *)
SwitchAccount ==
  /\ ~swapped /\ stored' \in Maybe \ {stored} /\ swapped' = TRUE
  /\ alive' = alive \cup ({stored'} \ {NoThing}) /\ sso' = sso \cup ({stored'} \ {NoThing})
  /\ UNCHANGED <<code, entered, about, look, stage, ask, shownUser, outrun, unsure>> /\ Fixed

(* A code ends, or another browser decides about it.                                        *)
CodeChanges(c) ==
  /\ subject = "device" /\ code[c] = "pending"
  /\ \E s \in {"approved", "denied", "expired"} : code' = [code EXCEPT ![c] = s]
  /\ UNCHANGED <<entered, about, look, stage, ask>> /\ Accounts /\ History /\ Fixed

-----------------------------------------------------------------------------
(* Looking up *)

StartLookup(l, c) == look' = [look EXCEPT ![l] = [at |-> "sent", of |-> c]]

(* Mutant: the field stays enabled.                                                         *)
TypeCodeAnytime(c) ==
  /\ subject = "device" /\ c # entered
  /\ stage = "input" \/ (stage = "error" /\ host = "example")
  /\ entered' = c
  /\ UNCHANGED <<code, about, look, stage, ask>> /\ Accounts /\ History /\ Fixed

(* The field is disabled, or hidden, while its code is looked up.                            *)
TypeCode(c) ==
  /\ subject = "device" /\ c # entered /\ Looking = {}
  /\ stage = "input" \/ (stage = "error" /\ host = "example")
  /\ entered' = c
  /\ UNCHANGED <<code, about, look, stage, ask>> /\ Accounts /\ History /\ Fixed

LookUpCode(l) ==
  /\ subject = "device" /\ entered # NoThing /\ Looking = {}
  /\ stage = "input" \/ (stage = "error" /\ host = "example")
  /\ StartLookup(l, entered)
  /\ stage' = IF host = "example" THEN "look" ELSE stage
  /\ UNCHANGED <<code, entered, about, ask>> /\ Accounts /\ History /\ Fixed

(* The console's ways back: "try a different code", and "try again", which empties the field. *)
BackToInput ==
  /\ subject = "device" /\ host = "console" /\ stage \in {"denied", "error"}
  /\ stage' = "input"
  /\ entered' = IF stage = "error" THEN NoThing ELSE entered
  /\ UNCHANGED <<code, about, look, ask>> /\ Accounts /\ History /\ Fixed

(* The effect of Authorize.tsx: the first request, or another one of the history.           *)
OpenRequest(l, r) ==
  /\ subject = "consent" /\ stage # "left" /\ l \notin Looking /\ r # entered
  /\ entered' = r /\ StartLookup(l, r)
  /\ outrun' = (outrun \/ Looking # {} \/ about # NoThing)
  /\ UNCHANGED <<code, about, stage, ask, swapped, unsure>> /\ Accounts /\ Fixed

AnswerLookup(l) ==
  /\ look[l].at = "sent"
  /\ \E a \in {"found", "refused"} :
       /\ a = "found" /\ subject = "device" => code[look[l].of] = "pending"
       /\ a = "found" /\ subject = "start" => look[l].of \in alive
       /\ look' = [look EXCEPT ![l].at = a]
  /\ UNCHANGED <<code, entered, about, stage, ask>> /\ Accounts /\ History /\ Fixed

LandLookup(l) ==
  /\ subject # "start" /\ stage # "left" /\ look[l].at \in {"found", "refused"}
  /\ look' = [look EXCEPT ![l] = NoLook]
  /\ about' = IF look[l].at = "found" THEN look[l].of ELSE about
  /\ stage' = IF look[l].at = "refused" THEN "error"
              ELSE IF subject = "device" \/ stage = "start" THEN "confirm" ELSE stage
  /\ UNCHANGED <<code, entered, ask>> /\ Accounts /\ History /\ Fixed

-----------------------------------------------------------------------------
(* Deciding *)

(* The request carries the token that is stored now.  Only DeviceVerify.tsx disables its     *)
(* buttons; a second press on Authorize.tsx is the other one of the two decisions.           *)
Decide(k) ==
  /\ stage = "confirm" /\ ask[k].at = "idle"
  /\ subject = "device" /\ host = "console" => Asking = {}
  /\ subject = "logout" => k = "yes"
  /\ ask' = [ask EXCEPT ![k] = [at |-> "sent", of |-> entered, shown |-> about, as |-> stored, seen |-> shownUser]]
  /\ stage' = IF subject = "logout" THEN "processing" ELSE stage
  /\ UNCHANGED <<code, entered, about, look>> /\ Accounts /\ History /\ Fixed

(* Both updates are conditional on status = 'pending'.                                      *)
Verdict(k) == IF k = "yes" THEN "approved" ELSE "denied"
AnswerDevice(k) ==
  /\ subject = "device" /\ ask[k].at = "sent"
  /\ \/ /\ code[ask[k].of] = "pending" /\ ask[k].as # NoThing
        /\ code' = [code EXCEPT ![ask[k].of] = Verdict(k)]
        /\ \E a \in {"ok", "lost"} : ask' = [ask EXCEPT ![k].at = a]
     \/ code[ask[k].of] # "pending" /\ ask' = [ask EXCEPT ![k].at = "refused"] /\ UNCHANGED code
     \/ ask' = [ask EXCEPT ![k].at = "lost"] /\ UNCHANGED code
  /\ UNCHANGED <<entered, about, look, stage>> /\ Accounts /\ History /\ Fixed

(* The console says "denied" whatever came back.                                            *)
LandDevice(k) ==
  /\ subject = "device" /\ ask[k].at \in {"ok", "refused", "lost"}
  /\ ask' = [ask EXCEPT ![k] = NoAsk]
  /\ stage' = IF ask[k].at = "ok" \/ (k = "no" /\ host = "console") THEN Verdict(k) ELSE stage
  /\ unsure' = (unsure \/ (k = "no" /\ ask[k].at # "ok"))
  /\ UNCHANGED <<code, entered, about, look, outrun, swapped>> /\ Accounts /\ Fixed

(* A request without a live token and one to renew it with is answered 401: what is stored    *)
(* is cleared and the browser goes to the login page.                                        *)
SentAway ==
  /\ subject # "start" /\ stage # "left"
  /\ \/ \E k \in Asking : ask[k].at = "sent"
     \/ subject = "device" /\ \E l \in Looking : look[l].at = "sent"
  /\ stored' = NoThing /\ stage' = "left"
  /\ look' = [l \in Lookup |-> NoLook] /\ ask' = [k \in {"yes", "no"} |-> NoAsk]
  /\ UNCHANGED <<code, entered, about, shownUser, alive, sso>> /\ History /\ Fixed

(* A code is issued and the browser leaves for the client with it; or the page stays.        *)
LandConsent(k) ==
  /\ subject = "consent" /\ stage # "left" /\ ask[k].at = "sent"
  /\ \/ ask[k].as # NoThing /\ stage' = "left" /\ UNCHANGED ask
     \/ stage' = "error" /\ ask' = [ask EXCEPT ![k] = NoAsk]
  /\ UNCHANGED <<code, entered, about, look>> /\ Accounts /\ History /\ Fixed

(* end_session/confirm ends the OIDC sessions of the browser, unless the answer is lost       *)
(* before; the console's own tokens it leaves alive.                                         *)
AnswerLogout ==
  /\ subject = "logout" /\ ask["yes"].at = "sent"
  /\ \/ /\ ask["yes"].as # NoThing /\ sso' = sso \ {ask["yes"].as}
        /\ ask' = [ask EXCEPT !["yes"].at = "ok"]
     \/ ask' = [ask EXCEPT !["yes"].at = "refused"] /\ UNCHANGED sso
     \/ sso' \in {sso, sso \ {ask["yes"].as}} /\ ask' = [ask EXCEPT !["yes"].at = "lost"]
  /\ UNCHANGED <<code, entered, about, look, stage, stored, shownUser, alive>> /\ History /\ Fixed

(* A refusal brings the question back; a request that failed clears the storage all the same. *)
LandLogout ==
  /\ subject = "logout" /\ ask["yes"].at \in {"ok", "refused", "lost"}
  /\ ask' = [ask EXCEPT !["yes"] = NoAsk]
  /\ stage' = IF ask["yes"].at = "refused" THEN "confirm" ELSE "ready"
  /\ stored' = IF ask["yes"].at = "refused" THEN stored ELSE NoThing
  /\ unsure' = (unsure \/ ask["yes"].at = "lost")
  /\ UNCHANGED <<code, entered, about, look, shownUser, alive, sso, outrun, swapped>> /\ Fixed

-----------------------------------------------------------------------------
(* The start of the console *)

(* A one-time login code in the address bar is exchanged, github_code or federation_code.   *)
ExchangeCode ==
  /\ subject = "start" /\ stage = "start" /\ entered # NoThing
  /\ ask' = [ask EXCEPT !["yes"] = [NoAsk EXCEPT !.at = "sent", !.of = entered]]
  /\ stage' = "processing"
  /\ UNCHANGED <<code, entered, about, look>> /\ Accounts /\ History /\ Fixed

(* Whoever was stored is asked for when there is no code, or the exchange failed.            *)
AskWhoIAm(l) ==
  /\ IF stored = NoThing THEN stage' = "ready" /\ UNCHANGED look
                         ELSE stage' = "look" /\ StartLookup(l, stored)
  /\ UNCHANGED <<stored, shownUser, alive>>

(* A token in the address bar, as older links have it, is stored before.                     *)
StartWithToken(l) ==
  /\ subject = "start" /\ stage = "start" /\ entered # NoThing
  /\ stored' = entered /\ alive' \in {alive, alive \cup {entered}}
  /\ stage' = "look" /\ StartLookup(l, entered)
  /\ UNCHANGED <<code, entered, about, ask, shownUser, sso>> /\ History /\ Fixed

LandExchange(l) ==
  /\ subject = "start" /\ ask["yes"].at = "sent"
  /\ \/ /\ stored' = entered /\ shownUser' = entered /\ alive' = alive \cup {entered}
        /\ stage' = "ready" /\ UNCHANGED look
     \/ AskWhoIAm(l)
  /\ ask' = [ask EXCEPT !["yes"] = NoAsk]
  /\ UNCHANGED <<code, entered, about, sso>> /\ History /\ Fixed

StartWithoutCode(l) ==
  /\ subject = "start" /\ stage = "start" /\ entered = NoThing
  /\ AskWhoIAm(l)
  /\ UNCHANGED <<code, entered, about, ask, sso>> /\ History /\ Fixed

(* 401 or 403 clears what is stored by then; a failing request changes nothing.             *)
LandWhoIAm(l) ==
  /\ subject = "start" /\ look[l].at \in {"found", "refused"}
  /\ look' = [look EXCEPT ![l] = NoLook] /\ stage' = "ready"
  /\ \/ look[l].at = "found" /\ shownUser' = look[l].of /\ UNCHANGED <<stored, unsure>>
     \/ look[l].at = "refused" /\ stored' = NoThing /\ UNCHANGED <<shownUser, unsure>>
     \/ look[l].at = "refused" /\ unsure' = TRUE /\ UNCHANGED <<stored, shownUser>>
  /\ UNCHANGED <<code, entered, about, ask, alive, sso, outrun, swapped>> /\ Fixed

DecisionsNext ==
  \/ SwitchAccount \/ BackToInput \/ SentAway \/ AnswerLogout \/ LandLogout \/ ExchangeCode
  \/ \E c \in Thing : CodeChanges(c) \/ TypeCode(c) \/ \E l \in Lookup : OpenRequest(l, c)
  \/ \E l \in Lookup : \/ LookUpCode(l) \/ AnswerLookup(l) \/ LandLookup(l)
                       \/ LandExchange(l) \/ StartWithToken(l) \/ StartWithoutCode(l) \/ LandWhoIAm(l)
  \/ \E k \in {"yes", "no"} : Decide(k) \/ AnswerDevice(k) \/ LandDevice(k) \/ LandConsent(k)

DecisionsSpec == DecisionsInit /\ [][DecisionsNext]_decisionVars

-----------------------------------------------------------------------------
(* A user decides about what the page shows and as the account it shows: about a code only    *)
(* the one looked up; about an authorization too, unless an older request's details came late   *)
(* or are still there; as another account only if another tab changed the account.              *)
DecidesAsShown ==
  subject # "start" =>
    \A k \in Asking : /\ subject # "logout" => ask[k].of = ask[k].shown \/ outrun
                      /\ ask[k].as = ask[k].seen \/ swapped

(* "Approved" is true, and "denied" too, unless the console's denial failed.                  *)
SaysWhatItDid ==
  subject = "device" =>
    /\ stage = "approved" => code[entered] = "approved"
    /\ stage = "denied" => code[entered] = "denied" \/ (host = "console" /\ unsure)

(* "Signed out": nothing is stored and the OIDC sessions of the browser have ended, unless the *)
(* request failed on the way, or another tab changed the account.                             *)
SignedOutEverywhere ==
  subject = "logout" /\ stage = "ready" =>
    /\ stored = NoThing \/ swapped
    /\ shownUser \notin sso \/ unsure \/ swapped

(* The console starts as the account whose token is stored, and as nobody when that failed;    *)
(* a login code that cannot be exchanged starts it as whoever was there before.               *)
StartsAsStored ==
  subject = "start" /\ stage = "ready" => shownUser = stored \/ swapped \/ (unsure /\ shownUser = NoThing)

DecisionsHold == DecidesAsShown /\ SaysWhatItDid /\ SignedOutEverywhere /\ StartsAsStored
=============================================================================
