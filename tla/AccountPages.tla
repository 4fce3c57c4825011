----------------------------- MODULE AccountPages -----------------------------
(* The pages on which a user keeps the account: profile and picture, sessions, trusted   *)
(* devices and second factors, recovery codes, the deletion request and a new password.    *)
(* The console's (src/src/pages/Profile.tsx, components/MfaFactorsManager.tsx) keep what a  *)
(* handler saw when it started, the example's (example/src/views) read their lists again.    *)
(*                                                                                           *)
(* A behaviour is about one topic.  Its requests overlap in every way the buttons allow;     *)
(* other browsers of the user act too (Elsewhere, a second screen).                          *)
EXTENDS FiniteSets, Naturals

CONSTANTS Item,        \* sessions, trusted devices or second factors
          Answering,   \* reads (of a list, a verdict, a batch of codes) under way together
          Screen,      \* browsers with the deletion request open
          Topics,      \* <<topic, app>> of a behaviour
          MaxElsewhere, \* changes from other browsers
          MaxBatches   \* batches of recovery codes

ASSUME AccountPagesAssumption ==
  /\ Topics \subseteq {"list", "factors", "profile", "deletion", "password", "codes"} \X {"react", "vue"}
  /\ MaxElsewhere \in Nat /\ MaxBatches \in Nat

VARIABLES
  topic, app, elsewhere,
  rows, listed, itemRead, job, outdated,            \* a list
  saved, kept, send, tangled,               \* the profile
  request, screen, peek,                    \* the deletion request
  typed, verdict, timer, validation, late, passing,  \* a new password
  lastBatch, live, codesShown, generation, doubled   \* recovery codes

listVars == <<rows, listed, itemRead, job, outdated>>
profileVars == <<saved, kept, send, tangled>>
deletionVars == <<request, screen, peek>>
passwordVars == <<typed, verdict, timer, validation, late, passing>>
codeVars == <<lastBatch, live, codesShown, generation, doubled>>
accountPageVars == <<topic, app, elsewhere, listVars, profileVars, deletionVars, passwordVars, codeVars>>
Same == UNCHANGED <<topic, app>>
ListOnly == Same /\ UNCHANGED <<profileVars, deletionVars, passwordVars, codeVars>>
ProfileOnly == Same /\ UNCHANGED <<listVars, deletionVars, passwordVars, codeVars>>
DeletionOnly == Same /\ UNCHANGED <<elsewhere, listVars, profileVars, passwordVars, codeVars>>
PasswordOnly == Same /\ UNCHANGED <<elsewhere, listVars, profileVars, deletionVars, codeVars>>
CodesOnly == Same /\ UNCHANGED <<elsewhere, listVars, profileVars, deletionVars, passwordVars>>

Field == {"name", "avatar"}
Profile == [Field -> {0, 1}]
Text == {"", "weak", "good"}
NoRead == [at |-> "idle", rows |-> {}, missed |-> FALSE]
NoJob == [at |-> "idle", adds |-> FALSE, seen |-> {}, moved |-> FALSE]
NoSend(p) == [at |-> "idle", value |-> 0, seen |-> p, moved |-> FALSE]
NoScreen == [act |-> "idle", posted |-> TRUE, shown |-> "none", behind |-> TRUE]
NoPeek == [at |-> "idle", answer |-> "none", fresh |-> FALSE, own |-> FALSE]
Deciding == {"idle", "post", "insert", "posted", "delete", "cancel", "cancelled", "reload", "refused"}
NoValidation == [text |-> "", older |-> {}, overtaken |-> FALSE]

AccountPagesTypeOK ==
  /\ <<topic, app>> \in Topics /\ elsewhere \in 0..MaxElsewhere
  /\ rows \subseteq Item /\ listed \subseteq Item /\ outdated \in BOOLEAN
  /\ \A l \in Answering : /\ itemRead[l].at \in {"idle", "asked", "read"} /\ itemRead[l].rows \subseteq Item
                          /\ validation[l].text \in Text
                          /\ generation[l].at \in {"idle", "sent", "deleted", "done"}
  /\ \A s \in Item : job[s].at \in {"idle", "sent", "done", "refused"} /\ job[s].seen \subseteq Item
  /\ saved \in Profile /\ kept \in Profile
  /\ \A f \in Field : send[f].at \in {"idle", "sent", "done", "refused"}
  /\ request \in {"none", "pending", "cancelled"}
  /\ \A w \in Screen : /\ screen[w].act \in Deciding
                       /\ screen[w].shown \in {"none", "pending", "cancelled"}
                       /\ \A l \in Answering : peek[w][l].at \in {"idle", "read"}
  /\ {typed, verdict, timer, passing} \subseteq Text
  /\ live \subseteq 1..lastBatch /\ codesShown \in 0..lastBatch

AccountPagesInit ==
  /\ \E t \in Topics : topic = t[1] /\ app = t[2]
  /\ elsewhere = 0
  /\ rows = Item /\ listed = {} /\ outdated = TRUE
  /\ itemRead = [l \in Answering |-> NoRead] /\ job = [s \in Item |-> NoJob]
  /\ saved = [f \in Field |-> 0] /\ kept = saved /\ tangled = FALSE
  /\ send = [f \in Field |-> NoSend(kept)]
  /\ request = "none" /\ screen = [w \in Screen |-> NoScreen]
  /\ peek = [w \in Screen |-> [l \in Answering |-> NoPeek]]
  /\ typed = "" /\ verdict = "" /\ timer = "" /\ passing = "" /\ late = FALSE
  /\ validation = [l \in Answering |-> NoValidation]
  /\ lastBatch = 0 /\ live = {} /\ codesShown = 0 /\ doubled = FALSE
  /\ generation = [l \in Answering |-> [at |-> "idle", batch |-> 0]]

-----------------------------------------------------------------------------
(* Lists: sessions and devices are taken off the list the page has, second factors are    *)
(* read again after every change.                                                          *)

Rereads == topic = "factors"
FreeReads == {l \in Answering : itemRead[l].at = "idle"}
Ask(l) == [itemRead EXCEPT ![l].at = "asked"]
Missed == [l \in Answering |-> [itemRead[l] EXCEPT !.missed = @ \/ itemRead[l].at = "read"]]
Moved(list) == [s \in Item |-> [job[s] EXCEPT !.moved = @ \/ (job[s].seen # {} /\ list # listed)]]

(* The tab is opened, or the page; a read under way is not cancelled.                      *)
AskItems(l) ==
  /\ topic \in {"list", "factors"} /\ l \in FreeReads
  /\ itemRead' = Ask(l)
  /\ UNCHANGED <<elsewhere, rows, listed, job, outdated>> /\ ListOnly

ReadItems(l) ==
  /\ itemRead[l].at = "asked"
  /\ itemRead' = [itemRead EXCEPT ![l].at = "read", ![l].rows = rows]
  /\ UNCHANGED <<elsewhere, rows, listed, job, outdated>> /\ ListOnly

LandItems(l) ==
  /\ itemRead[l].at = "read"
  /\ itemRead' = [itemRead EXCEPT ![l] = NoRead]
  /\ \/ listed' = itemRead[l].rows /\ job' = Moved(listed') /\ outdated' = itemRead[l].missed
     \/ UNCHANGED <<listed, job, outdated>>
  /\ UNCHANGED <<elsewhere, rows>> /\ ListOnly

(* Revoke, remove, disable a listed item; confirm the code of a factor being set up.         *)
StartJob(s) ==
  /\ topic \in {"list", "factors"} /\ job[s].at = "idle" /\ (s \in listed \/ Rereads)
  /\ job' = [job EXCEPT ![s] = [NoJob EXCEPT !.at = "sent", !.adds = s \notin listed,
                                             !.seen = IF Rereads THEN {} ELSE listed]]
  /\ UNCHANGED <<elsewhere, rows, listed, itemRead, outdated>> /\ ListOnly

(* Done; or refused (gone already, the session of this browser, a wrong code); or done      *)
(* while the answer is lost.                                                                 *)
AnswerJob(s) ==
  /\ job[s].at = "sent"
  /\ \/ /\ job[s].adds = (s \notin rows)
        /\ rows' = IF job[s].adds THEN rows \cup {s} ELSE rows \ {s}
        /\ itemRead' = Missed
        /\ \/ job' = [job EXCEPT ![s].at = "done"] /\ outdated' = (outdated \/ Rereads)
           \/ job' = [job EXCEPT ![s].at = "refused"] /\ outdated' = TRUE
     \/ job' = [job EXCEPT ![s].at = "refused"] /\ UNCHANGED <<rows, itemRead, outdated>>
  /\ UNCHANGED <<elsewhere, listed>> /\ ListOnly

(* Mutant: both applications filter the list the handler saw.                               *)
RemainingSeen(s) == job[s].seen \ {s}

(* React filters the list the handler saw, Vue the list as it is.                           *)
Remaining(s) == (IF app = "react" THEN job[s].seen ELSE listed) \ {s}

LandJob(s) ==
  /\ job[s].at \in {"done", "refused"}
  /\ LET list == IF job[s].at = "refused" \/ Rereads THEN listed ELSE Remaining(s)
     IN  /\ listed' = list
         /\ job' = [Moved(list) EXCEPT ![s] = NoJob]
         /\ outdated' = (outdated \/ (app = "react" /\ list # listed /\ job[s].moved))
  /\ IF job[s].at = "done" /\ Rereads THEN \E l \in FreeReads : itemRead' = Ask(l) ELSE UNCHANGED itemRead
  /\ UNCHANGED <<elsewhere, rows>> /\ ListOnly

(* The id of a session or device that went does not come back.                              *)
NeverSeen(s) == s \notin listed /\ job[s].at = "idle" /\ \A l \in Answering : s \notin itemRead[l].rows

ElsewhereItem(s) ==
  /\ topic \in {"list", "factors"} /\ elsewhere < MaxElsewhere
  /\ elsewhere' = elsewhere + 1
  /\ \/ s \in rows /\ rows' = rows \ {s}
     \/ s \notin rows /\ (Rereads \/ NeverSeen(s)) /\ rows' = rows \cup {s}
  /\ itemRead' = Missed /\ outdated' = TRUE
  /\ UNCHANGED <<listed, job>> /\ ListOnly

-----------------------------------------------------------------------------
(* The profile: a form for name and phone, a picture, each with one request at a time.     *)

Save(f) ==
  /\ topic = "profile" /\ send[f].at = "idle"
  /\ \E v \in {0, 1} : send' = [send EXCEPT ![f] = [NoSend(kept) EXCEPT !.at = "sent", !.value = v]]
  /\ UNCHANGED <<elsewhere, saved, kept, tangled>> /\ ProfileOnly

AnswerSave(f) ==
  /\ send[f].at = "sent"
  /\ \/ /\ saved' = [saved EXCEPT ![f] = send[f].value]
        /\ \/ send' = [send EXCEPT ![f].at = "done"] /\ UNCHANGED tangled
           \/ send' = [send EXCEPT ![f].at = "refused"] /\ tangled' = TRUE
     \/ send' = [send EXCEPT ![f].at = "refused"] /\ UNCHANGED <<saved, tangled>>
  /\ UNCHANGED <<elsewhere, kept>> /\ ProfileOnly

(* setUser spreads the user the handler saw over what landed meanwhile.                     *)
LandSave(f) ==
  /\ send[f].at \in {"done", "refused"}
  /\ kept' = IF send[f].at = "done" THEN [send[f].seen EXCEPT ![f] = send[f].value] ELSE kept
  /\ tangled' = (tangled \/ (kept' # kept /\ send[f].moved))
  /\ send' = [g \in Field |-> IF g = f THEN NoSend(kept')
                              ELSE IF send[g].at = "idle" THEN NoSend(kept')
                              ELSE [send[g] EXCEPT !.moved = @ \/ kept' # kept]]
  /\ UNCHANGED <<elsewhere, saved>> /\ ProfileOnly

ElsewhereProfile(f) ==
  /\ topic = "profile" /\ elsewhere < MaxElsewhere
  /\ elsewhere' = elsewhere + 1
  /\ saved' = [saved EXCEPT ![f] = 1 - @] /\ tangled' = TRUE
  /\ UNCHANGED <<kept, send>> /\ ProfileOnly

-----------------------------------------------------------------------------
(* The deletion request: found, then inserted or cancelled; a user has at most one row.    *)

(* The row changes: what the screens show or still await is behind.                         *)
Outdate == [v \in Screen |-> [screen[v] EXCEPT !.behind = TRUE, !.posted = @ /\ screen[v].act # "posted"]]
Overlook == [v \in Screen |-> [l \in Answering |-> [peek[v][l] EXCEPT !.fresh = FALSE]]]
Peek(w, l, new) == [peek EXCEPT ![w] = [@ EXCEPT ![l] = new]]
RequestRead(own) == [at |-> "read", answer |-> request, fresh |-> TRUE, own |-> own]

(* The tab is opened; the reads of an earlier visit go on.  Asking changes nothing on the    *)
(* page, so that a read is one step, its answer another.                                    *)
ReadRequest(w, l) ==
  /\ topic = "deletion" /\ peek[w][l].at = "idle"
  /\ peek' = Peek(w, l, RequestRead(FALSE))
  /\ UNCHANGED <<request, screen>> /\ DeletionOnly

(* A failed read leaves the page as it is; the handler that waited for it ends either way.   *)
LandRequest(w, l) ==
  /\ peek[w][l].at = "read"
  /\ peek' = Peek(w, l, NoPeek)
  /\ LET act == IF peek[w][l].own THEN "idle" ELSE screen[w].act
     IN  \/ screen' = [screen EXCEPT ![w].act = act, ![w].shown = peek[w][l].answer,
                                      ![w].behind = ~peek[w][l].fresh]
         \/ screen' = [screen EXCEPT ![w].act = act]
  /\ UNCHANGED request /\ DeletionOnly

PressDeletion(w) ==
  /\ topic = "deletion" /\ screen[w].act = "idle"
  /\ screen' = [screen EXCEPT ![w].act = IF screen[w].shown = "pending" THEN "delete" ELSE "post"]
  /\ UNCHANGED <<request, peek>> /\ DeletionOnly

CheckRequest(w) ==
  /\ screen[w].act = "post"
  /\ screen' = [screen EXCEPT ![w].act = IF request = "pending" THEN "refused" ELSE "insert"]
  /\ UNCHANGED <<request, peek>> /\ DeletionOnly

(* A cancelled request keeps its row, so that its user cannot ask again.                     *)
InsertRequest(w) ==
  /\ screen[w].act = "insert"
  /\ IF request = "none" THEN /\ request' = "pending" /\ peek' = Overlook
                              /\ screen' = [Outdate EXCEPT ![w].act = "posted"]
                          ELSE /\ screen' = [screen EXCEPT ![w].act = "refused"]
                               /\ UNCHANGED <<request, peek>>
  /\ DeletionOnly

FindRequest(w) ==
  /\ screen[w].act = "delete"
  /\ screen' = [screen EXCEPT ![w].act = IF request = "pending" THEN "cancel" ELSE "refused"]
  /\ UNCHANGED <<request, peek>> /\ DeletionOnly

CancelRequest(w) ==
  /\ screen[w].act = "cancel"
  /\ request' = "cancelled" /\ peek' = Overlook
  /\ screen' = [Outdate EXCEPT ![w].act = "cancelled"]
  /\ DeletionOnly

(* A lost answer is a refused one to the page.                                             *)
LandDeletion(w) ==
  /\ \/ screen[w].act \in {"posted", "cancelled", "refused"} /\ screen' = [screen EXCEPT ![w].act = "idle"]
     \/ /\ screen[w].act = "posted"
        /\ screen' = [screen EXCEPT ![w] = [NoScreen EXCEPT !.shown = "pending", !.behind = ~screen[w].posted]]
  /\ UNCHANGED <<request, peek>> /\ DeletionOnly

(* The handler of a cancellation waits for a read of its own.                              *)
RequestAgain(w, l) ==
  /\ screen[w].act = "cancelled" /\ peek[w][l].at = "idle"
  /\ screen' = [screen EXCEPT ![w].act = "reload"]
  /\ peek' = Peek(w, l, RequestRead(TRUE))
  /\ UNCHANGED request /\ DeletionOnly

-----------------------------------------------------------------------------
(* The new password: every keystroke restarts a timer, its end asks for a verdict.         *)

Validating == {l \in Answering : validation[l].text # ""}

Type ==
  /\ topic = "password"
  /\ typed' \in {"weak", "good"} /\ timer' = typed'
  /\ UNCHANGED <<verdict, validation, late, passing>> /\ PasswordOnly

Validate(l) ==
  /\ timer # "" /\ l \notin Validating
  /\ timer' = ""
  /\ validation' = [validation EXCEPT ![l] = [text |-> timer, older |-> Validating, overtaken |-> typed = ""]]
  /\ UNCHANGED <<typed, verdict, late, passing>> /\ PasswordOnly

LandVerdict(l) ==
  /\ l \in Validating
  /\ \/ verdict' = validation[l].text /\ late' = validation[l].overtaken
     \/ late' = TRUE /\ UNCHANGED verdict
  /\ validation' = [k \in Answering |->
       IF k = l THEN NoValidation
       ELSE [validation[k] EXCEPT !.older = @ \ {l}, !.overtaken = @ \/ k \in validation[l].older]]
  /\ UNCHANGED <<typed, timer, passing>> /\ PasswordOnly

(* The form is sent on the last verdict, whatever it was about, one request at a time.       *)
SendPassword ==
  /\ topic = "password" /\ passing = "" /\ verdict = "good" /\ typed # ""
  /\ passing' = typed
  /\ UNCHANGED <<typed, verdict, timer, validation, late>> /\ PasswordOnly

(* The server validates once more; an accepted password clears the form, whatever was typed   *)
(* meanwhile.                                                                                 *)
LandPassword ==
  /\ passing # "" /\ passing' = ""
  /\ \/ /\ passing = "good" /\ typed' = "" /\ verdict' = ""
        /\ validation' = [l \in Answering |-> [validation[l] EXCEPT !.overtaken = TRUE]]
     \/ UNCHANGED <<typed, verdict, validation>>
  /\ UNCHANGED <<timer, late>> /\ PasswordOnly

-----------------------------------------------------------------------------
(* Recovery codes: the old ones are deleted, then the new ones inserted and shown once.     *)

GeneratingNow == {l \in Answering : generation[l].at # "idle"}

Generate(l) ==
  /\ topic = "codes" /\ generation[l].at = "idle" /\ codesShown = 0 /\ lastBatch < MaxBatches
  /\ generation' = [generation EXCEPT ![l].at = "sent"]
  /\ doubled' = (GeneratingNow # {})
  /\ UNCHANGED <<lastBatch, live, codesShown>> /\ CodesOnly

DropCodes(l) ==
  /\ generation[l].at = "sent"
  /\ live' = {}
  /\ generation' = [generation EXCEPT ![l].at = "deleted"]
  /\ UNCHANGED <<lastBatch, codesShown, doubled>> /\ CodesOnly

StoreCodes(l) ==
  /\ generation[l].at = "deleted" /\ lastBatch < MaxBatches
  /\ lastBatch' = lastBatch + 1 /\ live' = live \cup {lastBatch'}
  /\ generation' = [generation EXCEPT ![l] = [at |-> "done", batch |-> lastBatch']]
  /\ UNCHANGED <<codesShown, doubled>> /\ CodesOnly

ShowCodes(l) ==
  /\ generation[l].at = "done"
  /\ codesShown' \in {0, generation[l].batch} \ (IF codesShown = 0 THEN {} ELSE {0})
  /\ generation' = [generation EXCEPT ![l] = [at |-> "idle", batch |-> 0]]
  /\ UNCHANGED <<lastBatch, live, doubled>> /\ CodesOnly

CloseCodes ==
  /\ codesShown # 0 /\ codesShown' = 0
  /\ UNCHANGED <<lastBatch, live, generation, doubled>> /\ CodesOnly

AccountPagesNext ==
  \/ \E l \in Answering : \/ AskItems(l) \/ ReadItems(l) \/ LandItems(l) \/ Validate(l) \/ LandVerdict(l)
                          \/ Generate(l) \/ DropCodes(l) \/ StoreCodes(l) \/ ShowCodes(l)
  \/ \E s \in Item : StartJob(s) \/ AnswerJob(s) \/ LandJob(s) \/ ElsewhereItem(s)
  \/ \E f \in Field : Save(f) \/ AnswerSave(f) \/ LandSave(f) \/ ElsewhereProfile(f)
  \/ \E w \in Screen : \/ PressDeletion(w) \/ CheckRequest(w) \/ InsertRequest(w) \/ FindRequest(w)
                       \/ CancelRequest(w) \/ LandDeletion(w)
                       \/ \E l \in Answering : ReadRequest(w, l) \/ LandRequest(w, l) \/ RequestAgain(w, l)
  \/ Type \/ SendPassword \/ LandPassword \/ CloseCodes

AccountPagesSpec == AccountPagesInit /\ [][AccountPagesNext]_accountPageVars

-----------------------------------------------------------------------------
(* A revoked session, device or factor never comes back to a page at rest, unless React    *)
(* filtered a list that had changed since the handler started, an answer was lost, a read     *)
(* missed a change, or another browser was there; in the example overlapping revocations       *)
(* do no harm.                                                                                *)
ItemsTrue ==
  (\A l \in Answering : itemRead[l].at = "idle") /\ (\A s \in Item : job[s].at = "idle") /\ ~outdated
    => listed = rows

(* The user the console keeps is the stored one, unless saving name and picture overlapped,   *)
(* an answer was lost or another browser saved.                                               *)
UserTrue == (\A f \in Field : send[f].at = "idle") /\ ~tangled => kept = saved

(* A screen at rest shows a pending request exactly when there is one, unless the row       *)
(* changed since it last looked, or it saw an answer overtaken by a change.                  *)
DeletionShown ==
  \A w \in Screen : screen[w].act = "idle" /\ (\A l \in Answering : peek[w][l].at = "idle") /\ ~screen[w].behind
                      => (screen[w].shown = "pending" <=> request = "pending")

(* Verdicts are not ordered: the one shown is that of the text typed, unless one was          *)
(* overtaken, failed, or was under way when the form was cleared.                             *)
VerdictTrue == Validating = {} /\ timer = "" /\ ~late => verdict = typed

(* The codes on the screen are those the server knows, unless two generations overlapped.     *)
CodesWork == codesShown # 0 /\ ~doubled /\ GeneratingNow = {} => live = {codesShown}

AccountPagesHold == ItemsTrue /\ UserTrue /\ DeletionShown /\ VerdictTrue /\ CodesWork
=============================================================================
