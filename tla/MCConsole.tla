------------------------------ MODULE MCConsole ------------------------------
(* Model checking of the pages: a behaviour is one of one component, "part", while the *)
(* variables of the others keep one value.  What two of a kind the pages handle (rows,   *)
(* requests, accounts) are named n1 and n2.                                             *)
EXTENDS LiveAlerts, AdminPages, AccountPages, SignIn, RelyingParty, Decisions, TLC

CONSTANTS n1, n2

VARIABLE part

TopicSet == {<<"list", "react">>, <<"list", "vue">>} \cup
            {<<t, "react">> : t \in {"factors", "profile", "deletion", "password", "codes"}}
SceneSet == {<<"form", "react">>, <<"step", "react">>, <<"step", "vue">>, <<"puzzle", "react">>}
SubjectSet == {<<"device", "console">>, <<"device", "example">>, <<"consent", "console">>,
               <<"logout", "console">>, <<"start", "console">>}
Symmetry == Permutations({n1, n2})

consoleVars == <<part, alertVars, pageVars, accountPageVars, signInVars, rpVars, decisionVars>>

Part == {"alerts", "pages", "account", "signin", "rp", "decide"}
Only(p) ==
  /\ part = p /\ UNCHANGED part
  /\ p # "alerts" => UNCHANGED alertVars
  /\ p # "pages" => UNCHANGED pageVars
  /\ p # "account" => UNCHANGED accountPageVars
  /\ p # "signin" => UNCHANGED signInVars
  /\ p # "rp" => UNCHANGED rpVars
  /\ p # "decide" => UNCHANGED decisionVars

(* The component that runs starts in any of its initial states, the others in one.      *)
ConsoleInit ==
  /\ part \in Part
  /\ AlertInit /\ (part # "alerts" => alertCase = {"stream"})
  /\ PagesInit /\ (part # "pages" => place = "audit" /\ ~table.there)
  /\ AccountPagesInit /\ (part # "account" => topic = "codes")
  /\ SignInInit /\ (part # "signin" => scene = "puzzle" /\ ~wants /\ sel = CHOOSE m \in Method : TRUE)
  /\ RpInit /\ (part # "rp" => \A i \in Entry : kind[i] = "form")
  /\ DecisionsInit /\ (part # "decide" => subject = "start" /\ entered = NoThing /\ stored = NoThing)

ConsoleNext ==
  \/ Only("alerts") /\ AlertNext
  \/ Only("pages") /\ PagesNext
  \/ Only("account") /\ AccountPagesNext
  \/ Only("signin") /\ SignInNext
  \/ Only("rp") /\ RpNext
  \/ Only("decide") /\ DecisionsNext

ConsoleSpec == ConsoleInit /\ [][ConsoleNext]_consoleVars

(* What the page that runs keeps, and what it asks of the server, has its type.          *)
ConsoleTypeOK ==
  CASE part = "alerts" -> AlertTypeOK
    [] part = "pages" -> PagesTypeOK
    [] part = "account" -> AccountPagesTypeOK
    [] part = "signin" -> SignInTypeOK
    [] part = "rp" -> RpTypeOK
    [] part = "decide" -> DecisionsTypeOK

(* What a page shows at rest is what the tables hold, in each of the ways the pages of    *)
(* the console keep their own copy (src/src/pages): the alert page beside its stream, the  *)
(* administrator's lists and forms, the pages on which a user keeps the account; and a     *)
(* user decides about what a page shows.                                                   *)
ConsoleHolds == LiveAlertsHold /\ PagesHold /\ AccountPagesHold /\ DecisionsHold

(* Signing in, at the console's and the example's forms and through the IdP, leaves one    *)
(* account in the browser, and what a page shows is what its last answer said              *)
(* (src/src/pages/Login.tsx, example/src/stores/auth.ts).                                  *)
BrowserHolds == SignInHolds /\ RelyingPartyHolds
=============================================================================
