-------------------------------- MODULE SignIn --------------------------------
(* The pages on which a user signs in: the console's form with its puzzle, second step and *)
(* expired password (src/src/pages/Login.tsx, components/SliderCaptcha.tsx,                  *)
(* MfaChallenge.tsx, utils/post-login-redirect.ts) and the example's (views/Login.vue).       *)
(* Nothing cancels a request once it is sent; answers change the page that is there then.      *)
EXTENDS FiniteSets, Naturals

CONSTANTS Name,     \* accounts whose names are typed
          Sending,  \* requests of the page under way together
          Method,   \* second factors that need a code to be sent
          NoName,
          Scenes    \* <<scene, app>> of a behaviour

ASSUME SignInAssumption == Scenes \subseteq {"form", "step", "puzzle"} \X {"react", "vue"}

VARIABLES
  scene, ui,
  name, must, mfa, cap,  \* form: the name typed; mustChangePassword, mfaToken's account, captchaRequired
  req,                   \* its requests
  flash,                 \* the account the puzzle was solved for, until the pass is handed on
  wants, parked,         \* the page's redirect; pending_post_login_redirect, by who parked it
  site,                  \* the document loaded, and where it is leaving to
  signed,                \* whose tokens are stored
  requested, wanted, entangled, leftover, resumed, \* what happened, for the properties
  sel, codeSent, sending, chal, mailed, switched, \* the second step
  slider, phase, trail, timerOn, check, rushed    \* the puzzle

formVars == <<name, must, mfa, cap, req, flash, wants, parked, site, signed, requested, wanted, entangled,
              leftover, resumed>>
stepVars == <<sel, codeSent, sending, chal, mailed, switched>>
puzzleVars == <<slider, phase, trail, timerOn, check, rushed>>
signInVars == <<scene, ui, formVars, stepVars, puzzleVars>>
FormOnly == UNCHANGED <<scene, ui, stepVars, puzzleVars>>
StepOnly == UNCHANGED <<scene, ui, formVars, puzzleVars>>
PuzzleOnly == UNCHANGED <<scene, ui, formVars, stepVars>>

NoReq == [at |-> "idle", kind |-> "login", name |-> NoName, pass |-> FALSE]
NoChal == [at |-> "idle", to |-> NoName]
Choice == Method \cup {"recovery", NoName}

SignInTypeOK ==
  /\ <<scene, ui>> \in Scenes
  /\ {name, signed, mfa, flash, parked, resumed, requested} \subseteq Name \cup {NoName}
  /\ {must, cap, wants, entangled, leftover} \subseteq BOOLEAN /\ wanted \in {"yes", "no", "late"}
  /\ \A r \in Sending : /\ req[r].at \in {"idle", "sent"} /\ req[r].name \in Name \cup {NoName}
                        /\ req[r].kind \in {"login", "relogin", "change", "verify", "old", "ldap"}
                        /\ chal[r].at \in {"idle", "sent", "mailed", "refused"} /\ chal[r].to \in Choice
                        /\ check[r] \in {"idle", "sent", "fetch"}
  /\ site \in [at : {"login", "profile", "home"}, leaving : BOOLEAN]
  /\ sel \in Choice /\ codeSent \in BOOLEAN /\ sending \in BOOLEAN /\ mailed \subseteq Method
  /\ phase \in {"idle", "checking", "fail", "success"} /\ trail \in {"none", "whole", "cut", "dragging"}

SignInInit ==
  /\ \E s \in Scenes : scene = s[1] /\ ui = s[2]
  /\ must = FALSE /\ mfa = NoName /\ cap = FALSE /\ flash = NoName
  /\ req = [r \in Sending |-> NoReq]
  /\ name = NoName /\ wants \in BOOLEAN
  /\ parked = NoName /\ site = [at |-> "login", leaving |-> FALSE] /\ signed = NoName
  /\ requested = NoName /\ wanted = "yes" /\ entangled = FALSE /\ leftover = FALSE /\ resumed = NoName
  /\ sel \in (IF ui = "react" THEN Method ELSE {NoName}) /\ codeSent = FALSE /\ sending = FALSE
  /\ chal = [r \in Sending |-> NoChal] /\ mailed = {} /\ switched = FALSE
  /\ slider = FALSE /\ phase = "idle" /\ trail = "none" /\ timerOn = FALSE /\ rushed = FALSE
  /\ check = [r \in Sending |-> "idle"]

-----------------------------------------------------------------------------
(* The form *)

Page == scene = "form" /\ site.at = "login" /\ ~site.leaving
View == IF must THEN "expired" ELSE IF mfa # NoName THEN "mfa" ELSE IF cap THEN "captcha" ELSE "form"
Outstanding == flash # NoName \/ \E r \in Sending : req[r].at # "idle"
SendForm(r, k, n, p) == [req EXCEPT ![r] = [NoReq EXCEPT !.at = "sent", !.kind = k, !.name = n, !.pass = p]]

TypeName(n) ==
  /\ Page /\ View = "form" /\ n # name
  /\ name' = n
  /\ UNCHANGED <<must, mfa, cap, req, flash, wants, parked, site, signed, requested, wanted, entangled,
                 leftover, resumed>> /\ FormOnly

(* The form's buttons are not disabled while a request is under way.                        *)
SubmitLogin(r) ==
  /\ Page /\ req[r].at = "idle"
  /\ \/ View = "form" /\ name # NoName /\ req' = SendForm(r, "login", name, FALSE)
     \/ View = "expired" /\ req' = SendForm(r, "change", name, FALSE)
     \/ /\ View = "mfa" /\ \A q \in Sending : req[q].at # "idle" => req[q].kind # "verify"
        /\ req' = SendForm(r, "verify", mfa, FALSE)
  /\ requested' = req'[r].name /\ wanted' = "yes" /\ entangled' = Outstanding
  /\ UNCHANGED <<name, must, mfa, cap, flash, wants, parked, site, signed, leftover, resumed>> /\ FormOnly

(* The directory's form on the same page has a name of its own.                             *)
SubmitLdap(r, n) ==
  /\ Page /\ ui = "react" /\ View = "form" /\ req[r].at = "idle"
  /\ req' = SendForm(r, "ldap", n, FALSE)
  /\ requested' = n /\ wanted' = "yes" /\ entangled' = Outstanding
  /\ UNCHANGED <<name, must, mfa, cap, flash, wants, parked, site, signed, leftover, resumed>> /\ FormOnly

Answers(q) ==
  CASE q.kind = "login" -> {"ok", "enrol", "mfa", "expired", "refused"} \cup (IF q.pass THEN {} ELSE {"captcha"})
    [] q.kind = "relogin" -> {"ok", "enrol", "refused"}
    [] q.kind \in {"verify", "old"} -> {"ok", "enrol", "refused"}
    [] q.kind \in {"change", "ldap"} -> {"ok", "refused"}

(* finishLogin, of the form and of the directory's: store the tokens, park the redirect if a *)
(* factor is due, load a document.                                                           *)
CompleteLogin(n, enrol) ==
  /\ signed' = n
  /\ parked' = IF enrol /\ wants THEN n ELSE parked
  /\ site' = [at |-> IF enrol THEN "profile" ELSE "home", leaving |-> TRUE]

LandForm(r) ==
  /\ req[r].at = "sent"
  /\ \E a \in Answers(req[r]) :
       LET q == req[r]
           done == a \in {"ok", "enrol"} /\ q.kind # "change"
           again == a = "ok" /\ q.kind = "change"
       IN  /\ IF done THEN CompleteLogin(q.name, a = "enrol") ELSE UNCHANGED <<signed, parked, site>>
           /\ mfa' = IF a = "mfa" THEN q.name ELSE mfa
           /\ must' = ((must \/ a = "expired") /\ ~again)
           /\ cap' = (a = "captcha" \/ (cap /\ ~(q.kind = "login" /\ a # "refused")))
           /\ req' = IF again THEN SendForm(r, "relogin", q.name, FALSE) ELSE [req EXCEPT ![r] = NoReq]
  /\ UNCHANGED <<name, flash, wants, requested, wanted, entangled, leftover, resumed>> /\ FormOnly

(* A solved puzzle is shown for a moment; then the login it was asked for is sent.           *)
SolvePuzzle ==
  /\ Page /\ View = "captcha" /\ flash = NoName
  /\ flash' = name /\ wanted' = "yes" /\ entangled' = Outstanding
  /\ UNCHANGED <<name, must, mfa, cap, req, wants, parked, site, signed, requested, leftover, resumed>>
  /\ FormOnly

HandPass(r) ==
  /\ flash # NoName /\ req[r].at = "idle"
  /\ cap' = FALSE /\ flash' = NoName
  /\ req' = SendForm(r, "login", flash, TRUE) /\ requested' = flash
  /\ entangled' = (entangled \/ \E q \in Sending : req[q].at # "idle")
  /\ UNCHANGED <<name, must, mfa, wants, parked, site, signed, wanted, leftover, resumed>> /\ FormOnly

(* Closing the puzzle or going back stops nothing that is under way.                         *)
GoBack ==
  /\ Page /\ View \in {"captcha", "mfa"}
  /\ cap' = (cap /\ View # "captcha") /\ mfa' = IF View = "mfa" THEN NoName ELSE mfa
  /\ req' = [r \in Sending |-> [req[r] EXCEPT !.kind = IF @ = "verify" THEN "old" ELSE @]]
  /\ wanted' = IF Outstanding THEN "late" ELSE "no"
  /\ UNCHANGED <<name, must, flash, wants, parked, site, signed, requested, entangled, leftover, resumed>>
  /\ FormOnly

(* The document the page was leaving to replaces it, with all it had under way.              *)
Unload ==
  /\ site.leaving
  /\ site' = [site EXCEPT !.leaving = FALSE]
  /\ must' = FALSE /\ mfa' = NoName /\ cap' = FALSE /\ flash' = NoName
  /\ req' = [r \in Sending |-> NoReq]
  /\ name' = NoName /\ requested' = NoName /\ wanted' = "yes"
  /\ UNCHANGED <<wants, parked, signed, entangled, leftover, resumed>> /\ FormOnly

(* enrollmentSucceeded: the parked request is taken, once.                                    *)
Enrolled ==
  /\ site.at # "login" /\ ~site.leaving
  /\ resumed' = parked /\ parked' = NoName
  /\ UNCHANGED <<name, must, mfa, cap, req, flash, wants, site, signed, requested, wanted, entangled, leftover>>
  /\ FormOnly

(* Signing out clears the tokens; what is parked stays.                                      *)
SignOutPage ==
  /\ site.at # "login" /\ ~site.leaving
  /\ site' = [at |-> "login", leaving |-> FALSE]
  /\ signed' = NoName /\ resumed' = NoName /\ entangled' = FALSE
  /\ leftover' = (parked # NoName)
  /\ wants' \in BOOLEAN
  /\ UNCHANGED <<name, must, mfa, cap, req, flash, parked, requested, wanted>> /\ FormOnly

-----------------------------------------------------------------------------
(* The second step *)

SecondStep == scene = "step"
AwaitingCode == {r \in Sending : chal[r].at # "idle"}

(* Mutant: another factor keeps "code sent".                                                *)
PickKeep(f) ==
  /\ SecondStep /\ ui = "react" /\ f # sel
  /\ sel' = f /\ UNCHANGED codeSent
  /\ switched' = (switched \/ AwaitingCode # {})
  /\ UNCHANGED <<sending, chal, mailed>> /\ StepOnly

(* React: the radio buttons stay enabled while a code is being sent.                         *)
Pick(f) ==
  /\ SecondStep /\ ui = "react" /\ f # sel
  /\ sel' = f /\ codeSent' = FALSE
  /\ switched' = (switched \/ AwaitingCode # {})
  /\ UNCHANGED <<sending, chal, mailed>> /\ StepOnly

SendCodeTo(r) ==
  /\ SecondStep /\ ui = "react" /\ ~sending /\ ~codeSent /\ AwaitingCode = {}
  /\ sending' = TRUE
  /\ chal' = [chal EXCEPT ![r] = [at |-> "sent", to |-> sel]]
  /\ UNCHANGED <<sel, codeSent, mailed, switched>> /\ StepOnly

(* Vue: choosing a factor sends its code.                                                    *)
Choose(r, f) ==
  /\ SecondStep /\ ui = "vue" /\ sel = NoName /\ ~sending /\ AwaitingCode = {}
  /\ sel' = f /\ codeSent' = FALSE /\ sending' = TRUE
  /\ chal' = [chal EXCEPT ![r] = [at |-> "sent", to |-> f]]
  /\ UNCHANGED <<mailed, switched>> /\ StepOnly

(* Back to the list, or to a recovery code, which no request under way prevents.             *)
Turn ==
  /\ SecondStep /\ ui = "vue"
  /\ \/ sel # NoName /\ sel' = NoName
     \/ sel = NoName /\ sel' = "recovery"
  /\ switched' = (switched \/ AwaitingCode # {})
  /\ UNCHANGED <<codeSent, sending, chal, mailed>> /\ StepOnly

AnswerCode(r) ==
  /\ chal[r].at = "sent"
  /\ \/ chal' = [chal EXCEPT ![r].at = "mailed"] /\ mailed' = mailed \cup {chal[r].to}
     \/ chal' = [chal EXCEPT ![r].at = "refused"] /\ UNCHANGED mailed
  /\ UNCHANGED <<sel, codeSent, sending, switched>> /\ StepOnly

LandCode(r) ==
  /\ chal[r].at \in {"mailed", "refused"}
  /\ sending' = FALSE /\ chal' = [chal EXCEPT ![r] = NoChal]
  /\ codeSent' = (codeSent \/ chal[r].at = "mailed")
  /\ sel' = IF chal[r].at = "refused" /\ ui = "vue" THEN NoName ELSE sel
  /\ UNCHANGED <<mailed, switched>> /\ StepOnly

-----------------------------------------------------------------------------
(* The puzzle *)

Sliding == scene = "puzzle"
NotAsking(r) == Sliding /\ check[r] = "idle"
CheckRuns == phase \in {"checking", "success"}

(* The mount, a refused load's button or the puzzle's own, which a check disables.           *)
FetchPuzzle(r) ==
  /\ NotAsking(r) /\ ~CheckRuns
  /\ phase' = "idle" /\ trail' = "none"
  /\ check' = [check EXCEPT ![r] = "fetch"]
  /\ UNCHANGED <<slider, timerOn, rushed>> /\ PuzzleOnly

LandPuzzle(r) ==
  /\ check[r] = "fetch"
  /\ slider' \in {TRUE, slider}
  /\ check' = [check EXCEPT ![r] = "idle"]
  /\ UNCHANGED <<phase, trail, timerOn, rushed>> /\ PuzzleOnly

DragSlider ==
  /\ Sliding /\ slider /\ ~CheckRuns /\ trail # "dragging"
  /\ trail' = "dragging"
  /\ UNCHANGED <<slider, phase, timerOn, check, rushed>> /\ PuzzleOnly

Drop(r) ==
  /\ NotAsking(r) /\ slider /\ ~CheckRuns /\ trail \in {"dragging", "cut"}
  /\ trail' = IF trail = "cut" THEN "cut" ELSE "whole"
  /\ phase' = "checking"
  /\ check' = [check EXCEPT ![r] = "sent"]
  /\ UNCHANGED <<slider, timerOn, rushed>> /\ PuzzleOnly

(* Right; expired, which fetches a puzzle; wrong, which resets the slider half a second       *)
(* later; or no answer.                                                                       *)
LandCheck(r) ==
  /\ check[r] = "sent"
  /\ \/ phase' = "success" /\ check' = [check EXCEPT ![r] = "idle"] /\ UNCHANGED <<trail, timerOn>>
     \/ phase' = "idle" /\ trail' = "none" /\ check' = [check EXCEPT ![r] = "fetch"] /\ UNCHANGED timerOn
     \/ phase' = "fail" /\ timerOn' = TRUE /\ check' = [check EXCEPT ![r] = "idle"] /\ UNCHANGED trail
     \/ phase' = "idle" /\ check' = [check EXCEPT ![r] = "idle"] /\ UNCHANGED <<trail, timerOn>>
  /\ UNCHANGED <<slider, rushed>> /\ PuzzleOnly

(* The reset after a failure also hits a slider that is dragged, or checked, again.           *)
ResetSlider ==
  /\ timerOn
  /\ timerOn' = FALSE /\ phase' = "idle"
  /\ trail' = IF trail = "dragging" THEN "cut" ELSE "none"
  /\ rushed' = (rushed \/ CheckRuns)
  /\ UNCHANGED <<slider, check>> /\ PuzzleOnly

SignInNext ==
  \/ \E n \in Name : TypeName(n) \/ \E r \in Sending : SubmitLdap(r, n)
  \/ \E r \in Sending : \/ SubmitLogin(r) \/ LandForm(r) \/ HandPass(r)
                        \/ SendCodeTo(r) \/ AnswerCode(r) \/ LandCode(r)
                        \/ FetchPuzzle(r) \/ LandPuzzle(r) \/ Drop(r) \/ LandCheck(r)
                        \/ \E f \in Method : Choose(r, f)
  \/ SolvePuzzle \/ GoBack \/ Unload \/ Enrolled \/ SignOutPage \/ Turn \/ DragSlider \/ ResetSlider
  \/ \E f \in Method : Pick(f)

SignInSpec == SignInInit /\ [][SignInNext]_signInVars

-----------------------------------------------------------------------------
(* The page signs in the account it was last asked for, unless two requests overlapped; it    *)
(* signs nobody in after the user closed the puzzle or went back, unless something was under   *)
(* way then, a pass about to be handed on included.                                            *)
SignedAsAsked ==
  site.leaving => (~entangled => signed = requested) /\ wanted # "no"

(* A parked authorization request is resumed for the account that parked it, unless that one   *)
(* signed out without enrolling: then it waits for whoever signs in next; or two sign-ins      *)
(* overlapped.                                                                                  *)
ResumedOwn == resumed # NoName => resumed = signed \/ leftover \/ entangled

(* "Code sent" is about the factor chosen, unless the choice changed while one was being sent.  *)
CodeSentTrue == SecondStep /\ codeSent /\ ~switched => sel \in mailed \cup {NoName, "recovery"}

(* One check at a time, unless the reset of a failure ended during the next check.              *)
OneCheck == Cardinality({r \in Sending : check[r] = "sent"}) <= 1 \/ rushed

SignInHolds == SignedAsAsked /\ ResumedOwn /\ CodeSentTrue /\ OneCheck
=============================================================================
