------------------------------ MODULE AdminPages ------------------------------
(* The administrator's list pages: each loads a list, opens forms filled from it, sends  *)
(* changes and loads the list again, without cancelling or ordering its loads            *)
(* (src/src/pages/admin, src/src/hooks/useFeatures.ts), over the tables behind            *)
(* server/routes/admin.                                                                   *)
(*                                                                                        *)
(* A behaviour is one of one page, and of one row of its table.  Other administrators     *)
(* change the row at any time (Elsewhere).  The administrator has one change under way at a *)
(* time, a bound of the model where a page leaves its buttons enabled.                     *)
EXTENDS FiniteSets, Naturals

CONSTANTS Fetch,     \* loads of the page's list under way together
          PageCases, \* the pages
          MaxForeign \* changes of other administrators

ASSUME PagesAssumption ==
  /\ PageCases \subseteq {"users", "clients", "tenants", "idps", "flags", "rules", "risk", "stats", "audit"}
  /\ MaxForeign \in Nat

VARIABLES
  place,   \* the page
  table,   \* the row
  list,    \* the row as the page shows it, and the query it answers
  want,    \* the query asked last
  fetch,   \* loads under way
  form,    \* the open form, as filled from the list
  change,  \* the page's request under way
  stale,   \* another administrator has changed the row since the list was read
  reverted, \* a field the administrator did not touch was written back to an older value
  foreign

pageVars == <<place, table, list, want, fetch, form, change, stale, reverted, foreign>>

-----------------------------------------------------------------------------
(* The pages.  "flag" is a field that the form carries along (is_admin, is_active, the    *)
(* provider's secret), "on" one that a button of its own changes; a provider's form carries *)
(* "on" along too (enabled, the name, the provisioning switches).                          *)

Offer(kinds) == [kinds |-> kinds, reload |-> kinds, waits |-> FALSE, timer |-> FALSE]

(* Create, edit, ban and unban, delete (which deactivates), and a reset mail.             *)
UsersPage == [Offer({"create", "edit", "switch", "delete", "mail"})
                EXCEPT !.reload = {"create", "edit", "switch", "delete"}]
(* The rotated secret is shown beside the list.                                           *)
ClientsPage == [Offer({"create", "edit", "delete", "mail"}) EXCEPT !.reload = {"create", "edit", "delete"}]
TenantsPage == Offer({"create", "edit", "delete"})
IdpsPage == Offer({"create", "edit", "delete"})
(* A flag's switch is disabled until the list is there again.                             *)
FlagsPage == [Offer({"switch"}) EXCEPT !.waits = TRUE]
(* The toggled rule is changed in the list, whatever the answer was; a refresh or a manual *)
(* tick loads it at any time.                                                              *)
RulesPage == [Offer({"switch"}) EXCEPT !.reload = {}, !.timer = TRUE]
RiskPage == [Offer({"switch"}) EXCEPT !.waits = TRUE]
StatsPage == [Offer({}) EXCEPT !.timer = TRUE]
AuditPage == Offer({"search"})

PageOf == [users |-> UsersPage, clients |-> ClientsPage, tenants |-> TenantsPage, idps |-> IdpsPage,
           flags |-> FlagsPage, rules |-> RulesPage, risk |-> RiskPage, stats |-> StatsPage,
           audit |-> AuditPage]

Query == {0, 1}
Unasked == 2  \* before the page asks for its list
Here == IF want = Unasked THEN Offer({}) ELSE PageOf[place]

TableRow == [there : BOOLEAN, flag : BOOLEAN, on : BOOLEAN]
NoRow == [there |-> FALSE, flag |-> FALSE, on |-> FALSE]
Fields == (IF "edit" \in Here.kinds THEN {"flag"} ELSE {})
          \cup (IF "switch" \in Here.kinds \/ Here.timer \/ place = "idps" THEN {"on"} ELSE {})
NoFetch == [at |-> "idle", query |-> 0, row |-> NoRow, older |-> {}, overtaken |-> FALSE, missed |-> FALSE]
NoForm == [open |-> FALSE, flag |-> FALSE, on |-> FALSE, fresh |-> FALSE]
NoChange == [at |-> "idle", kind |-> "edit", value |-> FALSE, keeps |-> FALSE, fresh |-> FALSE,
             on |-> FALSE, keepsOn |-> FALSE, known |-> FALSE, saw |-> FALSE, ok |-> FALSE, missed |-> FALSE]

PagesTypeOK ==
  /\ place \in PageCases
  /\ table \in TableRow /\ list.row \in TableRow /\ list.query \in Query /\ want \in Query \cup {Unasked}
  /\ \A l \in Fetch : /\ fetch[l].at \in {"idle", "asked", "answered"}
                      /\ fetch[l].row \in TableRow /\ fetch[l].older \subseteq Fetch
  /\ change.at \in {"idle", "sent", "read", "done"}
  /\ change.kind \in {"create", "edit", "switch", "delete", "mail"}
  /\ stale \in BOOLEAN /\ reverted \in BOOLEAN /\ foreign \in 0..MaxForeign

Loading == {l \in Fetch : fetch[l].at # "idle"}
Free == Fetch \ Loading
AtRest == Loading = {} /\ change.at = "idle"

(* A load that starts now, while those in "older" are still under way.                    *)
StartFetch(l, q) ==
  [fetch EXCEPT ![l] = [NoFetch EXCEPT !.at = "asked", !.query = q, !.older = Loading]]

PagesInit ==
  /\ place \in PageCases
  /\ table \in {NoRow, [NoRow EXCEPT !.there = TRUE]}
  /\ list = [row |-> NoRow, query |-> 0] /\ want = Unasked
  /\ fetch = [l \in Fetch |-> NoFetch]
  /\ form = NoForm /\ change = NoChange
  /\ stale = TRUE /\ reverted = FALSE /\ foreign = 0

-----------------------------------------------------------------------------
(* Loading the list *)

MountPage(l) ==
  /\ want = Unasked
  /\ want' = 0 /\ fetch' = StartFetch(l, 0)
  /\ UNCHANGED <<place, table, list, form, change, stale, reverted, foreign>>

(* The timer of the statistics, or a refresh, does not wait for the answer before.        *)
Refetch(l) ==
  /\ Here.timer /\ l \in Free
  /\ fetch' = StartFetch(l, want)
  /\ UNCHANGED <<place, table, list, want, form, change, stale, reverted, foreign>>

(* A search asks for page 1 of the filter; the change of page asks once more.             *)
Search(l, q) ==
  /\ "search" \in Here.kinds /\ l \in Free
  /\ want' = q
  /\ fetch' = StartFetch(l, q)
  /\ UNCHANGED <<place, table, list, form, change, stale, reverted, foreign>>

(* The configuration of a provider comes without its secrets.                             *)
Redacted(row) == IF place = "idps" THEN [row EXCEPT !.flag = FALSE] ELSE row

ReadRows(l) ==
  /\ fetch[l].at = "asked"
  /\ fetch' = [fetch EXCEPT ![l].at = "answered", ![l].row = Redacted(table)]
  /\ UNCHANGED <<place, table, list, want, form, change, stale, reverted, foreign>>

(* Answers land in any order; one that fails leaves the list as it is.                    *)
LandRows(l) ==
  /\ fetch[l].at = "answered"
  /\ \/ /\ list' = [row |-> fetch[l].row, query |-> fetch[l].query]
        /\ stale' = (fetch[l].overtaken \/ fetch[l].missed)
     \/ UNCHANGED list /\ stale' = TRUE
  /\ fetch' = [k \in Fetch |->
       IF k = l THEN NoFetch
       ELSE [fetch[k] EXCEPT !.older = @ \ {l}, !.overtaken = @ \/ k \in fetch[l].older]]
  /\ UNCHANGED <<place, table, want, form, change, reverted, foreign>>

-----------------------------------------------------------------------------
(* Changes *)

OpenForm ==
  /\ "edit" \in Here.kinds /\ ~form.open /\ change.at = "idle" /\ list.row.there
  /\ form' = [open |-> TRUE, flag |-> list.row.flag, on |-> place = "idps" /\ list.row.on,
              fresh |-> AtRest /\ ~stale]
  /\ UNCHANGED <<place, table, list, want, fetch, change, stale, reverted, foreign>>

(* The whole form is sent, what the administrator left as it was included.                *)
SubmitForm ==
  /\ form.open /\ change.at = "idle"
  /\ \E f \in BOOLEAN, o \in BOOLEAN :
       /\ place # "idps" => o = form.on
       /\ change' = [NoChange EXCEPT !.at = "sent", !.value = f, !.keeps = f = form.flag, !.fresh = form.fresh,
                                     !.on = o, !.keepsOn = o = form.on, !.known = form.fresh]
  /\ UNCHANGED <<place, table, list, want, fetch, form, stale, reverted, foreign>>

CloseForm ==
  /\ form.open /\ change.at = "idle"
  /\ form' = NoForm
  /\ UNCHANGED <<place, table, list, want, fetch, change, stale, reverted, foreign>>

SendChange(kind) ==
  /\ kind \in Here.kinds /\ kind \notin {"edit", "search"} /\ ~form.open /\ change.at = "idle"
  /\ (kind # "create") = list.row.there
  /\ Here.waits => Loading = {}
  /\ change' = [NoChange EXCEPT !.at = "sent", !.kind = kind,
                                !.value = kind = "switch" /\ ~list.row.on]
  /\ UNCHANGED <<place, table, list, want, fetch, form, stale, reverted, foreign>>

Answered(ok) == [NoChange EXCEPT !.at = "done", !.kind = change.kind, !.value = change.value, !.ok = ok]
Reverts(row) == change.keeps /\ change.fresh /\ row.flag # table.flag
RevertsPlain(row) == change.keepsOn /\ change.known /\ row.on # table.on

(* Users and clients are looked up first; an update of a tenant that is gone succeeds.    *)
SaveForm ==
  /\ change.at = "sent" /\ change.kind = "edit" /\ place # "idps"
  /\ LET row == [table EXCEPT !.flag = change.value]
     IN  /\ table' = IF table.there THEN row ELSE table
         /\ change' = Answered(table.there \/ place = "tenants")
         /\ reverted' = (reverted \/ (table.there /\ Reverts(row)))
  /\ UNCHANGED <<place, list, want, fetch, form, stale, foreign>>

(* A provider's configuration is read, the secret sent is merged into it ...              *)
ReadIdp ==
  /\ change.at = "sent" /\ change.kind = "edit" /\ place = "idps"
  /\ change' = IF table.there THEN [change EXCEPT !.at = "read", !.saw = table.flag, !.fresh = TRUE]
                              ELSE Answered(FALSE)
  /\ UNCHANGED <<place, table, list, want, fetch, form, stale, reverted, foreign>>

(* ... and written; the placeholder of a secret stands for the one that was read, the other  *)
(* fields are written as the form has them.                                                  *)
SaveIdp ==
  /\ change.at = "read"
  /\ LET row == [table EXCEPT !.flag = IF change.keeps THEN change.saw ELSE change.value, !.on = change.on]
     IN  /\ table' = IF table.there THEN row ELSE table
         /\ reverted' = (reverted \/ (table.there /\ (Reverts(row) \/ RevertsPlain(row))))
  /\ change' = Answered(TRUE)
  /\ UNCHANGED <<place, list, want, fetch, form, stale, foreign>>

(* Mutant: the list stays as it is after a change.                                        *)
LandQuietly ==
  /\ change.at = "done"
  /\ change' = NoChange
  /\ form' = IF change.kind = "edit" /\ change.ok THEN NoForm ELSE form
  /\ stale' = (stale \/ ~change.ok)
  /\ UNCHANGED <<place, table, list, want, fetch, reverted, foreign>>

CreateRow ==
  /\ change.at = "sent" /\ change.kind = "create"
  /\ table' = IF table.there THEN table ELSE [NoRow EXCEPT !.there = TRUE]
  /\ change' = Answered(~table.there)
  /\ UNCHANGED <<place, list, want, fetch, form, stale, reverted, foreign>>

SwitchRow ==
  /\ change.at = "sent" /\ change.kind \in {"switch", "mail"}
  /\ table' = IF table.there /\ change.kind = "switch" THEN [table EXCEPT !.on = change.value] ELSE table
  /\ change' = Answered(table.there)
  /\ fetch' = IF change.kind \in Here.reload THEN fetch
              ELSE [l \in Fetch |-> [fetch[l] EXCEPT !.missed = @ \/ fetch[l].at = "answered"]]
  /\ UNCHANGED <<place, list, want, form, stale, reverted, foreign>>

DeleteRow ==
  /\ change.at = "sent" /\ change.kind = "delete"
  /\ table' = IF place = "users" THEN [table EXCEPT !.on = FALSE] ELSE NoRow
  /\ change' = Answered(table.there \/ place = "tenants")
  /\ UNCHANGED <<place, list, want, fetch, form, stale, reverted, foreign>>

(* The answer of a change starts a load; the rules' page changes its list itself.          *)
LandChange ==
  /\ change.at = "done"
  /\ change' = NoChange
  /\ form' = IF change.kind = "edit" /\ change.ok THEN NoForm ELSE form
  /\ IF change.kind \in Here.reload /\ (change.ok \/ Here.waits)
     THEN \E l \in Free : fetch' = StartFetch(l, want)
     ELSE UNCHANGED fetch
  /\ IF place = "rules" THEN /\ list' = [list EXCEPT !.row.on = change.value]
                             /\ stale' = (stale \/ ~change.ok \/ change.missed)
                        ELSE UNCHANGED list /\ stale' = (stale \/ ~change.ok)
  /\ UNCHANGED <<place, table, want, reverted, foreign>>

Elsewhere ==
  /\ foreign < MaxForeign
  /\ foreign' = foreign + 1
  /\ table' \in {NoRow} \cup {[table EXCEPT !.there = TRUE, ![f] = ~@] : f \in Fields}
  /\ table' # table
  /\ stale' = TRUE
  /\ fetch' = [l \in Fetch |-> [fetch[l] EXCEPT !.missed = @ \/ fetch[l].at = "answered"]]
  /\ form' = [form EXCEPT !.fresh = FALSE]
  /\ change' = [change EXCEPT !.fresh = FALSE, !.known = FALSE, !.missed = change.at = "done"]
  /\ UNCHANGED <<place, list, want, reverted>>

PagesNext ==
  \/ \E l \in Fetch : MountPage(l) \/ Refetch(l) \/ ReadRows(l) \/ LandRows(l) \/ \E q \in Query : Search(l, q)
  \/ OpenForm \/ SubmitForm \/ CloseForm \/ SaveForm \/ ReadIdp \/ SaveIdp
  \/ \E kind \in {"create", "switch", "delete", "mail"} : SendChange(kind)
  \/ CreateRow \/ SwitchRow \/ DeleteRow \/ LandChange \/ Elsewhere

PagesSpec == PagesInit /\ [][PagesNext]_pageVars

-----------------------------------------------------------------------------
(* Nothing orders a page's loads, yet a page at rest shows the table, its own last change  *)
(* and the last query, unless an older answer overtook a newer one, a change was refused,    *)
(* or another administrator was there meanwhile.                                            *)
ListTrue == AtRest /\ ~stale => list.row = Redacted(table) /\ list.query = want

(* A form sends back all it was filled with: it takes nobody's change back when it was       *)
(* opened on such a list and nobody else changed the row until it was saved; a provider's    *)
(* secret it takes back only from a change between the server's own read and write, however   *)
(* old the form is.                                                                          *)
NothingReverted == ~reverted

PagesHold == ListTrue /\ NothingReverted
=============================================================================
