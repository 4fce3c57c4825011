---------------------------- MODULE RelyingParty ----------------------------
(* The example application as a relying party: what it keeps of a sign-in in the           *)
(* browser's storage and in its store, over sign-ins with its form, through the IdP        *)
(* (authorization code with PKCE) and as a device, refreshes, logout and the IdP's         *)
(* front-channel logout (example/src/stores/auth.ts, utils/http.ts, views/Callback.vue,    *)
(* DeviceLogin.vue, LogoutFrontchannel.vue).  One tab; the iframe of a front-channel       *)
(* logout shares its storage.                                                               *)
EXTENDS FiniteSets

CONSTANTS Entry,   \* sign-ins
          NoEntry,
          EntryKinds \* what the sign-ins of a behaviour are

VARIABLES
  kind,     \* "form", "sso" or "device"
  entry,    \* step of a sign-in
  store,    \* localStorage: the sign-in each piece comes from
  tab,      \* authStore.token; where the tab is; checkAuth of a loading document
  out,      \* a logout under way and the id_token it read
  ren,      \* a refresh under way: whose token it sent
  device,   \* DeviceLogin.vue: mounted, status, pollTimer
  iframe,   \* the IdP's logout page has loaded the front-channel page of this application
  revoked,  \* sign-ins whose tokens the IdP no longer takes
  ended,    \* the IdP's session was ended
  owed,     \* the sign-in its user completed last and did not end
  signedOver, straddled, kicked, framed, revived, orphaned  \* what happened, for the properties

rpVars == <<kind, entry, store, tab, out, ren, device, iframe, revoked, ended, owed, signedOver, straddled,
            kicked, framed, revived, orphaned>>
rpHistory == <<signedOver, straddled, kicked, framed, revived, orphaned>>

Piece == {"token", "refresh", "sid", "id"}
Nothing == [p \in Piece |-> NoEntry]
NoLogout == [at |-> "idle", hint |-> NoEntry]
NoRenewal == [at |-> "idle", who |-> NoEntry]
NoDevice == [open |-> FALSE, status |-> "idle", timer |-> NoEntry]
Flying == {"sent", "starting", "polling"}

RpTypeOK ==
  /\ kind \in [Entry -> {"form", "sso", "device"}]
  /\ entry \in [Entry -> {"idle", "away", "code", "in", "gone"} \cup Flying]
  /\ store \in [Piece -> Entry \cup {NoEntry}]
  /\ tab \in [token : Entry \cup {NoEntry}, at : {"here", "away"}, check : BOOLEAN]
  /\ out \in [at : {"idle", "sent"}, hint : Entry \cup {NoEntry}]
  /\ ren \in [at : {"idle", "sent"}, who : Entry \cup {NoEntry}]
  /\ device \in [open : BOOLEAN, status : {"idle", "waiting", "done"}, timer : Entry \cup {NoEntry}]
  /\ {iframe, ended, signedOver, straddled, kicked, framed, revived} \subseteq BOOLEAN
  /\ revoked \subseteq Entry /\ orphaned \subseteq Entry /\ owed \in Entry \cup {NoEntry}

RpInit ==
  /\ kind \in {k \in [Entry -> {"form", "sso", "device"}] : {k[i] : i \in Entry} \in EntryKinds}
  /\ entry = [i \in Entry |-> "idle"] /\ store = Nothing
  /\ tab = [token |-> NoEntry, at |-> "here", check |-> FALSE]
  /\ out = NoLogout /\ ren = NoRenewal /\ device = NoDevice
  /\ iframe = FALSE /\ revoked = {} /\ ended = FALSE /\ owed = NoEntry
  /\ signedOver = FALSE /\ straddled = FALSE /\ kicked = FALSE /\ framed = FALSE /\ revived = FALSE
  /\ orphaned = {}

Shown == tab.at = "here" /\ ~tab.check  \* the router's view is there

(* A document replaces the one before with all it had under way, and reads the storage. *)
Loads(kept) ==
  /\ tab' = [token |-> kept.token, at |-> "here", check |-> kept.token # NoEntry]
  /\ out' = NoLogout /\ ren' = NoRenewal /\ device' = NoDevice
Dropped == [i \in Entry |-> IF entry[i] \in Flying THEN "gone" ELSE entry[i]]
Leaves == tab' = [tab EXCEPT !.at = "away"] /\ out' = NoLogout /\ ren' = NoRenewal /\ device' = NoDevice

-----------------------------------------------------------------------------
(* Signing in *)

(* applySuccessfulAuth and exchangeCodeForToken: each stores the pieces its answer has.  *)
Brings(i) == CASE kind[i] = "form" -> {"token", "refresh", "sid"}
               [] kind[i] = "sso" -> {"token", "refresh", "id"}
               [] kind[i] = "device" -> {"token", "refresh"}

SignInLands(i) ==
  /\ entry[i] = "sent"
  /\ entry' = [entry EXCEPT ![i] = "in"]
  /\ store' = [p \in Piece |-> IF p \in Brings(i) THEN i ELSE store[p]]
  /\ tab' = [tab EXCEPT !.token = i]
  /\ device' = IF kind[i] = "device" /\ device.open THEN [device EXCEPT !.status = "done"] ELSE device
  /\ owed' = IF i \in revoked THEN NoEntry ELSE i
  /\ signedOver' = (signedOver \/ tab.token # NoEntry \/ store.token # NoEntry)
  /\ straddled' = (straddled \/ out.at = "sent" \/ ren.at = "sent" \/ iframe)
  /\ revived' = FALSE /\ framed' = FALSE
  /\ UNCHANGED <<kind, out, ren, iframe, revoked, ended, kicked, orphaned>>

Fail(i) ==
  /\ entry[i] \in {"sent", "starting"}
  /\ entry' = [entry EXCEPT ![i] = "gone"]
  /\ device' = IF kind[i] = "device" /\ device.open THEN [device EXCEPT !.status = "done"] ELSE device
  /\ UNCHANGED <<kind, store, tab, out, ren, iframe, revoked, ended, owed, rpHistory>>

(* The router keeps the form from who is signed in; shown again, it knows nothing of the    *)
(* request sent before.                                                                    *)
SubmitSignIn(i) ==
  /\ kind[i] = "form" /\ entry[i] = "idle" /\ Shown /\ tab.token = NoEntry
  /\ entry' = [entry EXCEPT ![i] = "sent"]
  /\ UNCHANGED <<kind, store, tab, out, ren, device, iframe, revoked, ended, owed, rpHistory>>

(* beginOAuthLogin stores state and verifier and leaves for the IdP.                      *)
BeginOAuthLogin(i) ==
  /\ kind[i] = "sso" /\ entry[i] = "idle" /\ Shown
  /\ entry' = [Dropped EXCEPT ![i] = "away"] /\ Leaves
  /\ UNCHANGED <<kind, store, iframe, revoked, ended, owed, rpHistory>>

(* The IdP sends the browser back with a code, or the user returns without one.           *)
ComeBack ==
  /\ tab.at = "away"
  /\ entry' \in {[i \in Entry |-> IF entry[i] = "away" THEN to ELSE entry[i]] : to \in {"code", "gone"}}
  /\ Loads(store)
  /\ UNCHANGED <<kind, store, iframe, revoked, ended, owed, rpHistory>>

(* Callback.vue consumes the state, which a reload finds gone; or it is older than ten    *)
(* minutes.                                                                                *)
RunCallback(i) ==
  /\ entry[i] = "code" /\ Shown
  /\ entry' \in {[entry EXCEPT ![i] = "sent"], [entry EXCEPT ![i] = "gone"]}
  /\ UNCHANGED <<kind, store, tab, out, ren, device, iframe, revoked, ended, owed, rpHistory>>

Reload ==
  /\ Shown /\ \E i \in Entry : entry[i] = "sent"
  /\ entry' = Dropped /\ Loads(store)
  /\ UNCHANGED <<kind, store, iframe, revoked, ended, owed, rpHistory>>

-----------------------------------------------------------------------------
(* Signing in as a device *)

OpenDevice ==
  /\ Shown /\ ~device.open /\ \E i \in Entry : kind[i] = "device" /\ entry[i] = "idle"
  /\ device' = [NoDevice EXCEPT !.open = TRUE]
  /\ UNCHANGED <<kind, entry, store, tab, out, ren, iframe, revoked, ended, owed, rpHistory>>

(* The button stays until the answer is there.                                            *)
StartDevice(i) ==
  /\ kind[i] = "device" /\ entry[i] = "idle" /\ device.open /\ device.status # "waiting"
  /\ entry' = [entry EXCEPT ![i] = "starting"]
  /\ device' = [device EXCEPT !.status = "idle"]
  /\ UNCHANGED <<kind, store, tab, out, ren, iframe, revoked, ended, owed, rpHistory>>

(* A second answer replaces the code on the page; the poll of the first goes on.           *)
ShowCode(i) ==
  /\ entry[i] = "starting"
  /\ entry' = [entry EXCEPT ![i] = "polling"]
  /\ device' = IF i \in orphaned THEN device ELSE [device EXCEPT !.status = "waiting", !.timer = i]
  /\ orphaned' = IF i \in orphaned THEN orphaned
                 ELSE orphaned \cup {j \in Entry \ {i} : kind[j] = "device" /\ entry[j] \in {"polling", "sent"}}
  /\ UNCHANGED <<kind, store, tab, out, ren, iframe, revoked, ended, owed, signedOver, straddled, kicked,
                 framed, revived>>

Poll(i) ==
  /\ entry[i] = "polling"
  /\ entry' = [entry EXCEPT ![i] = "sent"]
  /\ UNCHANGED <<kind, store, tab, out, ren, device, iframe, revoked, ended, owed, rpHistory>>

(* Pending: the timer is set again, by whichever poll comes back.                         *)
PollAgain(i) ==
  /\ kind[i] = "device" /\ entry[i] = "sent"
  /\ entry' = [entry EXCEPT ![i] = "polling"]
  /\ device' = IF device.open /\ device.status = "waiting" /\ i \notin orphaned
               THEN [device EXCEPT !.timer = i] ELSE device
  /\ UNCHANGED <<kind, store, tab, out, ren, iframe, revoked, ended, owed, rpHistory>>

(* Mutant: the page leaves its timer running.                                              *)
LeavePolling ==
  /\ device.open /\ Shown
  /\ device' = NoDevice
  /\ UNCHANGED <<kind, entry, store, tab, out, ren, iframe, revoked, ended, owed, rpHistory>>

(* onBeforeUnmount clears the timer; it finds none while a request is under way.           *)
LeaveDevice ==
  /\ device.open /\ Shown
  /\ device' = NoDevice
  /\ entry' = [i \in Entry |-> IF i = device.timer /\ entry[i] = "polling" THEN "gone" ELSE entry[i]]
  /\ orphaned' = orphaned \cup {i \in Entry : kind[i] = "device" /\ entry[i] \in {"starting", "sent"}}
  /\ UNCHANGED <<kind, store, tab, out, ren, iframe, revoked, ended, owed, signedOver, straddled, kicked,
                 framed, revived>>

-----------------------------------------------------------------------------
(* Signing out *)

StartLogout == out' = [at |-> "sent", hint |-> store.id]

(* The header's button stays: a second press sends the same once more, and is left out.    *)
Logout ==
  /\ Shown /\ tab.token # NoEntry /\ out.at = "idle"
  /\ StartLogout
  /\ owed' = NoEntry
  /\ UNCHANGED <<kind, entry, store, tab, ren, device, iframe, revoked, ended, rpHistory>>

(* Whatever the answer was; with an id_token the tab leaves to end the IdP's session.       *)
LogoutLands ==
  /\ out.at = "sent"
  /\ store' = Nothing
  /\ IF out.hint = NoEntry
     THEN tab' = [tab EXCEPT !.token = NoEntry] /\ out' = NoLogout /\ UNCHANGED <<entry, ren, device>>
     ELSE Leaves /\ entry' = Dropped
  /\ revived' = FALSE /\ framed' = FALSE
  /\ UNCHANGED <<kind, iframe, revoked, ended, owed, signedOver, straddled, kicked, orphaned>>

(* http.ts gives up: the id_token stays behind.                                            *)
Forget(kept) == [kept EXCEPT !.token = NoEntry, !.refresh = NoEntry, !.sid = NoEntry]
Kick ==
  /\ store' = Forget(store) /\ Loads(store') /\ entry' = Dropped
  /\ kicked' = TRUE /\ owed' = NoEntry

(* A request is answered with 401, which a short-lived token may be at any time: the refresh *)
(* token is sent, unless there is none.                                                      *)
Unauthorized ==
  /\ tab.at = "here" /\ ren.at = "idle" /\ tab.token # NoEntry
  /\ IF store.refresh = NoEntry THEN Kick /\ UNCHANGED <<framed, revived>>
     ELSE /\ ren' = [at |-> "sent", who |-> store.refresh]
          /\ UNCHANGED <<entry, store, tab, out, device, owed, kicked, framed, revived>>
  /\ UNCHANGED <<kind, iframe, revoked, ended, signedOver, straddled, orphaned>>

(* The answer is stored whatever happened to the storage meanwhile.                        *)
RenewalLands ==
  /\ ren.at = "sent"
  /\ \/ /\ ren.who \notin revoked
        /\ store' = [store EXCEPT !.token = ren.who, !.refresh = ren.who]
        /\ ren' = NoRenewal
        /\ revived' = (revived \/ store.token # ren.who)
        /\ UNCHANGED <<entry, tab, out, device, kicked, owed>>
     \/ Kick /\ UNCHANGED revived
  /\ UNCHANGED <<kind, iframe, revoked, ended, signedOver, straddled, framed, orphaned>>

(* checkAuth of a loading document: a failure that is not a 401 signs out, and the view     *)
(* is shown before that has ended.                                                          *)
CheckAuth ==
  /\ tab.check /\ ren.at = "idle"
  /\ tab' = [tab EXCEPT !.check = FALSE]
  /\ \/ tab.token \notin revoked /\ UNCHANGED <<out, owed>>
     \/ out.at = "idle" /\ StartLogout /\ owed' = NoEntry
  /\ UNCHANGED <<kind, entry, store, ren, device, iframe, revoked, ended, rpHistory>>

-----------------------------------------------------------------------------
(* The IdP *)

(* The session is ended there, by this application's user or elsewhere: its tokens die,     *)
(* then the front-channel page is loaded in an iframe.                                      *)
EndSession ==
  /\ ~ended /\ \E i \in Entry : kind[i] = "sso" /\ entry[i] = "in"
  /\ ended' = TRUE /\ iframe' = TRUE
  /\ revoked' = revoked \cup {i \in Entry : kind[i] = "sso" /\ entry[i] = "in"}
  /\ owed' = IF owed \in revoked' THEN NoEntry ELSE owed
  /\ UNCHANGED <<kind, entry, store, tab, out, ren, device, rpHistory>>

(* Mutant: the session's id stays.                                                          *)
ClearTokens(kept) == [Nothing EXCEPT !.sid = kept.sid]

(* LogoutFrontchannel.vue.                                                                   *)
ClearStorage(kept) == Nothing

(* The iframe is the whole application: a dead token is found by its checkAuth, which        *)
(* leaves the page before it is shown.  The tab's own store is another one.                  *)
FrontChannel ==
  /\ iframe
  /\ iframe' = FALSE
  /\ store' = IF store.token \in revoked THEN Forget(store) ELSE ClearStorage(store)
  /\ kicked' = (kicked \/ store.token \in revoked)
  /\ framed' = TRUE
  /\ owed' = NoEntry
  /\ UNCHANGED <<kind, entry, tab, out, ren, device, revoked, ended, signedOver, straddled, revived, orphaned>>

(* Tokens end in other ways too.                                                            *)
Expire(i) ==
  /\ entry[i] = "in" /\ i \notin revoked
  /\ revoked' = revoked \cup {i}
  /\ owed' = IF owed = i THEN NoEntry ELSE owed
  /\ UNCHANGED <<kind, entry, store, tab, out, ren, device, iframe, ended, rpHistory>>

RpNext ==
  \/ \E i \in Entry :
       \/ SubmitSignIn(i) \/ BeginOAuthLogin(i) \/ RunCallback(i) \/ SignInLands(i) \/ Fail(i)
       \/ StartDevice(i) \/ ShowCode(i) \/ Poll(i) \/ PollAgain(i) \/ Expire(i)
  \/ ComeBack \/ Reload \/ OpenDevice \/ LeaveDevice
  \/ Logout \/ LogoutLands \/ Unauthorized \/ RenewalLands \/ CheckAuth
  \/ EndSession \/ FrontChannel

RpSpec == RpInit /\ [][RpNext]_rpVars

-----------------------------------------------------------------------------
(* What is stored comes from one sign-in, the one the page shows, unless a sign-in landed    *)
(* on top of another or on something under way; an id_token may be left over from a sign-in   *)
(* that http.ts or the iframe of a front-channel logout dropped.                             *)
OneSignIn ==
  ~signedOver /\ ~straddled =>
    /\ \A p \in {"refresh", "sid"} : store[p] \in {NoEntry, store.token}
    /\ store.id \in {NoEntry, store.token} \/ kicked

(* The tab takes itself for signed in exactly when a token is stored, unless the storage     *)
(* was cleared by the iframe, or a refresh came back after a logout.                         *)
TabAgrees ==
  tab.at = "here" /\ ~framed /\ ~revived => (tab.token = NoEntry) = (store.token = NoEntry)

(* A completed sign-in is lost only by what its user, the IdP or a failing check did to it,  *)
(* unless a logout or a refresh was under way when it landed: a check that fails at start      *)
(* still clears the storage after the callback behind it has signed the user in.             *)
SignInKept == owed # NoEntry /\ ~straddled => store.token = owed

(* Only the code on the page is polled for, unless the page was left while a request was      *)
(* under way or two starts overlapped: then the browser is signed in by a page that is gone.  *)
PollsWhatItShows ==
  \A i \in Entry : kind[i] = "device" /\ entry[i] = "polling" => (device.open /\ device.timer = i) \/ i \in orphaned

RelyingPartyHolds == OneSignIn /\ TabAgrees /\ SignInKept /\ PollsWhatItShows
=============================================================================
