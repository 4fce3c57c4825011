------------------------------ MODULE LiveAlerts ------------------------------
(* The administrator's alert page beside the table it shows: rows come with a load,    *)
(* new alerts over a stream of server-sent events, and the page keeps its own count of  *)
(* the open ones (src/src/pages/admin/AlertPanel.tsx, hooks/useAlertStream.ts,          *)
(* server/routes/events.ts).                                                            *)
EXTENDS FiniteSets, Integers, Sequences, SequencesExt

CONSTANTS Alert,
          Conn,       \* connections of the stream, one after the other
          Load,       \* loads of the list under way together
          Try,        \* presses of an alert's buttons under way together: none disables them
          MaxRetries, \* maxRetries of useAlertStream
          HeardCap,   \* alerts the stream remembers
          AlertCases  \* what a behaviour is about

ASSUME AlertAssumption ==
  /\ IsFiniteSet(Alert) /\ Conn # {} /\ "none" \notin Conn
  /\ MaxRetries \in Nat /\ HeardCap \in Nat \ {0}

VARIABLES
  alertCase, \* "stream": connections come and go; "press", "others": who handles alerts;
             \* "abroad": the administrator is the platform's; "away": other processes push;
             \* "twice": buttons pressed again; "lost": failing requests; "filter": partial lists,
             \* with one press at a time
  abroad,  \* alerts of other tenants, of which a platform administrator's stream tells
  row,     \* alerts.status; "none" before the insert
  told,    \* alerts createAlert has pushed to its subscribers
  conn,    \* a connection of the stream as the server has it
  subs,    \* sseSubscribers, of whichever process a connection is at
  orphan,  \* connections whose client left while they were being authenticated
  wire,    \* alerts written to a connection and not yet arrived
  session, \* the token the page was mounted with is live; its user an administrator
  panel,   \* mounted, its connection, reconnects so far
  heard,   \* sseAlerts, newest first
  shown,   \* the status the page lists an alert with; "none" when it does not
  whole,   \* the last load brought every row, which its filter and its limit of 50 may prevent
  counts,  \* counts of the page
  counted, \* countedIdsRef
  load,    \* step and answer of a load
  act,     \* what the administrator asked for an alert, each time, and what came back
  drift    \* since the last undisturbed load something happened that a page cannot count

alertRows == <<alertCase, abroad, row, told>>
alertStream == <<conn, subs, orphan, wire, session, panel, heard>>
alertView == <<shown, whole, counts, counted>>
alertVars == <<alertRows, alertStream, alertView, load, act, drift>>

Status == {"none", "open", "acknowledged", "resolved"}
NoConn == "none"
NoLoad == [at |-> "idle", rows |-> [a \in Alert |-> "none"], whole |-> FALSE, open |-> 0,
           acknowledged |-> 0, clean |-> FALSE]
Own(s) == {a \in Alert \ abroad : row[a] = s}
Listable == Alert \ (abroad \cup Own("none"))
Pushed == \A a \in Alert : row[a] = "none" \/ a \in told
NonePressed == \A a \in Alert, i \in Try : act[a][i] = "idle"

AlertTypeOK ==
  /\ alertCase \in AlertCases /\ abroad \subseteq Alert
  /\ row \in [Alert -> Status] /\ told \subseteq Alert
  /\ conn \in [Conn -> {"idle", "asked", "open", "closed"}]
  /\ subs \subseteq Conn /\ orphan \subseteq Conn
  /\ wire \in Seq(Alert)
  /\ session \in [token : BOOLEAN, admin : BOOLEAN]
  /\ panel \in [mounted : BOOLEAN, conn : Conn \cup {NoConn}, retries : 0..MaxRetries, timer : BOOLEAN]
  /\ heard \in Seq(Alert) /\ Len(heard) <= HeardCap
  /\ shown \in [Alert -> Status] /\ whole \in BOOLEAN
  /\ counts \in [open : Int, acknowledged : Int] /\ counted \subseteq Alert
  /\ \A l \in Load : /\ load[l].at \in {"idle", "asked", "listed", "answered"}
                     /\ load[l].rows \in [Alert -> Status]
                     /\ load[l].whole \in BOOLEAN /\ load[l].clean \in BOOLEAN
  /\ act \in [Alert -> [Try -> {"idle", "acknowledge", "resolve", "acknowledged", "resolved", "refused"}]]
  /\ drift \in BOOLEAN

Streams == "stream" \in alertCase

(* What a behaviour about one alert is about.                                             *)
Single == alertCase \cap {"stream", "twice"} # {}

AlertInit ==
  /\ alertCase \in AlertCases
  /\ abroad \in SUBSET Alert /\ ("abroad" \notin alertCase => abroad = {})
  /\ row = [a \in Alert |-> "none"] /\ told = {}
  /\ session = [token |-> TRUE, admin |-> TRUE]
  /\ LET first == CHOOSE c \in Conn : TRUE
         up == IF Streams THEN {} ELSE {first}
     IN  /\ conn = [c \in Conn |-> IF c \in up THEN "open" ELSE "idle"] /\ subs = up
         /\ panel = [mounted |-> TRUE, conn |-> IF Streams THEN NoConn ELSE first, retries |-> 0,
                    timer |-> Streams]
  /\ orphan = {} /\ wire = <<>>
  /\ heard = <<>>
  /\ shown = [a \in Alert |-> "none"] /\ whole = FALSE
  /\ counts = [open |-> 0, acknowledged |-> 0] /\ counted = {}
  /\ load = [l \in Load |-> NoLoad]
  /\ act = [a \in Alert |-> [i \in Try |-> "idle"]]
  /\ drift = TRUE

(* A load under way while anything else happens does not repair the page for certain.  *)
DisturbLoads == load' = [l \in Load |-> [load[l] EXCEPT !.clean = FALSE]]

-----------------------------------------------------------------------------
(* The rows *)

InsertAlert(a) ==
  /\ row[a] = "none" /\ (Single => \A b \in Alert : row[b] = "none")
  /\ row' = [row EXCEPT ![a] = "open"]
  /\ DisturbLoads
  /\ UNCHANGED <<alertCase, abroad, told, alertStream, alertView, act, drift>>

(* After the insert the process writes to its own subscribers, "here" when the page's is  *)
(* one of them: to those of the alert's tenant and to platform administrators, whose page   *)
(* counts it among their own tenant's.  A page that is not told finds out by a load.       *)
PushAlert(a, here) ==
  /\ row[a] # "none" /\ a \notin told /\ (here \/ "away" \in alertCase)
  /\ told' = told \cup {a}
  /\ LET reaches == here /\ panel.conn \in subs
     IN  /\ wire' = IF reaches THEN Append(wire, a) ELSE wire
         /\ drift' = (drift \/ (reaches <=> a \in abroad))
  /\ DisturbLoads
  /\ UNCHANGED <<alertCase, abroad, row, conn, subs, orphan, session, panel, heard, alertView, act>>

(* acknowledgeAlert and resolveAlert: conditional updates of the administrator's tenant.  *)
Acknowledges(a) == a \notin abroad /\ row[a] = "open" /\ row' = [row EXCEPT ![a] = "acknowledged"]
Resolves(a) == a \notin abroad /\ row[a] \in {"open", "acknowledged"} /\ row' = [row EXCEPT ![a] = "resolved"]

OtherAdmin(a) ==
  /\ "others" \in alertCase
  /\ Acknowledges(a) \/ Resolves(a)
  /\ drift' = TRUE
  /\ DisturbLoads
  /\ UNCHANGED <<alertCase, abroad, told, alertStream, alertView, act>>

-----------------------------------------------------------------------------
(* The stream *)

Connect(c) ==
  /\ panel.mounted /\ panel.timer /\ conn[c] = "idle"
  /\ conn' = [conn EXCEPT ![c] = "asked"]
  /\ panel' = [panel EXCEPT !.conn = c, !.timer = FALSE]
  /\ UNCHANGED <<alertRows, subs, orphan, wire, session, heard, alertView, load, act, drift>>

(* authenticateSseRequest awaits; 'close' is listened to only after the subscription.   *)
Admit(c) ==
  /\ conn[c] = "asked" /\ session.admin
  /\ session.token \/ c \in orphan
  /\ subs' = subs \cup {c}
  /\ conn' = [conn EXCEPT ![c] = "open"]
  /\ panel' = IF panel.conn = c THEN [panel EXCEPT !.retries = 0] ELSE panel
  /\ drift' = TRUE
  /\ UNCHANGED <<alertRows, orphan, wire, session, heard, alertView, load, act>>

(* Mutant: one retry more.                                                                *)
ReconnectOnceMore == [panel EXCEPT !.conn = NoConn, !.timer = panel.retries <= MaxRetries,
                                  !.retries = IF @ <= MaxRetries THEN @ + 1 ELSE @]

(* onerror: the page closes its source and tries again later, a bounded number of times. *)
Reconnect == [panel EXCEPT !.conn = NoConn, !.timer = panel.retries < MaxRetries,
                          !.retries = IF @ < MaxRetries THEN @ + 1 ELSE @]

Refuse(c) ==
  /\ conn[c] = "asked" /\ ~(session.token /\ session.admin)
  /\ conn' = [conn EXCEPT ![c] = "closed"]
  /\ panel' = IF panel.conn = c THEN Reconnect ELSE panel
  /\ UNCHANGED <<alertRows, subs, orphan, wire, session, heard, alertView, load, act, drift>>

(* The connection breaks, with what was still on the wire.                              *)
Hangs(c) ==
  /\ conn' = [conn EXCEPT ![c] = IF @ = "open" THEN "closed" ELSE @]
  /\ subs' = IF conn[c] = "open" THEN subs \ {c} ELSE subs
  /\ orphan' = IF conn[c] = "asked" THEN orphan \cup {c} ELSE orphan
  /\ wire' = <<>>

StreamBreaks ==
  /\ Streams /\ panel.conn # NoConn
  /\ Hangs(panel.conn)
  /\ panel' = Reconnect
  /\ drift' = TRUE
  /\ UNCHANGED <<alertRows, session, heard, alertView, load, act>>

(* The effect's cleanup.  A page mounted later starts empty and with the current token. *)
Unmount ==
  /\ Streams /\ panel.mounted
  /\ IF panel.conn = NoConn THEN UNCHANGED <<conn, subs, orphan, wire>> ELSE Hangs(panel.conn)
  /\ panel' = [panel EXCEPT !.mounted = FALSE, !.conn = NoConn, !.timer = FALSE]
  /\ heard' = <<>> /\ shown' = [a \in Alert |-> "none"] /\ whole' = FALSE
  /\ counts' = [open |-> 0, acknowledged |-> 0] /\ counted' = {}
  /\ load' = [l \in Load |-> NoLoad]
  /\ act' = [a \in Alert |-> [i \in Try |-> "idle"]]
  /\ drift' = TRUE
  /\ UNCHANGED <<alertRows, session>>

Mount ==
  /\ ~panel.mounted
  /\ panel' = [panel EXCEPT !.mounted = TRUE, !.retries = 0, !.timer = TRUE]
  /\ session' = [session EXCEPT !.token = TRUE]
  /\ UNCHANGED <<alertRows, conn, subs, orphan, wire, heard, alertView, load, act, drift>>

(* The hook keeps the token it was mounted with; a subscription outlives it and the role. *)
SessionChanges ==
  /\ Streams
  /\ \/ session.token /\ session' = [session EXCEPT !.token = FALSE]
     \/ session.admin /\ session' = [session EXCEPT !.admin = FALSE]
  /\ UNCHANGED <<alertRows, conn, subs, orphan, wire, panel, heard, alertView, load, act, drift>>

-----------------------------------------------------------------------------
(* The page *)

(* Mutant: whatever the stream remembers is counted with every new alert.                *)
CountTwice(list) ==
  /\ counted' = counted \cup ToSet(list)
  /\ counts' = [counts EXCEPT !.open = @ + Cardinality(ToSet(list))]

(* Only arrivals that were never counted are added to the open ones.                    *)
CountNew(list) ==
  /\ counted' = counted \cup ToSet(list)
  /\ counts' = [counts EXCEPT !.open = @ + Cardinality(ToSet(list) \ counted)]

(* All the stream remembers is merged into the list, where it is not listed.            *)
AlertArrives ==
  /\ wire # <<>>
  /\ wire' = Tail(wire)
  /\ heard' = LET h == <<Head(wire)>> \o heard IN SubSeq(h, 1, IF Len(h) < HeardCap THEN Len(h) ELSE HeardCap)
  /\ shown' = [a \in Alert |-> IF shown[a] = "none" /\ a \in ToSet(heard') THEN "open" ELSE shown[a]]
  /\ CountNew(heard')
  /\ DisturbLoads
  /\ UNCHANGED <<alertRows, conn, subs, orphan, session, panel, whole, act, drift>>

(* The page asks when it is mounted, for another filter, and at the button.             *)
AskList(l) ==
  /\ panel.mounted /\ load[l].at = "idle"
  /\ load' = [load EXCEPT ![l] = [NoLoad EXCEPT !.at = "asked",
                !.clean = /\ \A k \in Load : load[k].at = "idle"
                          /\ Pushed /\ wire = <<>> /\ NonePressed]]
  /\ UNCHANGED <<alertRows, alertStream, alertView, act, drift>>

(* The handler lists those of its tenant's rows that the filter and the limit select, and  *)
(* then counts them all.                                                                  *)
ReadList(l) ==
  /\ load[l].at = "asked"
  /\ \E chosen \in SUBSET Listable :
       /\ chosen = Listable \/ "filter" \in alertCase
       /\ load' = [load EXCEPT ![l].at = "listed",
                               ![l].rows = [a \in Alert |-> IF a \in chosen THEN row[a] ELSE "none"],
                               ![l].whole = (chosen = Listable)]
  /\ UNCHANGED <<alertRows, alertStream, alertView, act, drift>>

ReadCounts(l) ==
  /\ load[l].at = "listed"
  /\ load' = [load EXCEPT ![l].at = "answered", ![l].open = Cardinality(Own("open")),
                          ![l].acknowledged = Cardinality(Own("acknowledged"))]
  /\ UNCHANGED <<alertRows, alertStream, alertView, act, drift>>

(* The answer replaces list and counts, whatever came meanwhile; or the load fails.     *)
LandList(l) ==
  /\ load[l].at = "answered"
  /\ load' = [k \in Load |-> IF k = l THEN NoLoad ELSE [load[k] EXCEPT !.clean = FALSE]]
  /\ \/ /\ shown' = load[l].rows /\ whole' = load[l].whole
        /\ counts' = [open |-> load[l].open, acknowledged |-> load[l].acknowledged]
        /\ drift' = ~load[l].clean
     \/ UNCHANGED <<shown, whole, counts, drift>>
  /\ UNCHANGED <<alertRows, alertStream, counted, act>>

(* Both buttons are there for an alert that is listed as open, and stay while the answer  *)
(* is awaited.                                                                            *)
Press(a, i) ==
  /\ "press" \in alertCase /\ panel.mounted /\ shown[a] = "open"
  /\ act[a][i] = "idle" /\ i = CHOOSE j \in Try : act[a][j] = "idle"
  /\ "twice" \in alertCase \/ \A j \in Try : act[a][j] = "idle"
  /\ "filter" \in alertCase => NonePressed
  /\ \E s \in {"acknowledge", "resolve"} : act' = [act EXCEPT ![a][i] = s]
  /\ DisturbLoads
  /\ UNCHANGED <<alertRows, alertStream, alertView, drift>>

(* The server does it, or finds that it cannot: 404.                                       *)
Answer(a, i) ==
  /\ \/ act[a][i] = "acknowledge" /\ Acknowledges(a) /\ act' = [act EXCEPT ![a][i] = "acknowledged"]
        /\ UNCHANGED drift
     \/ /\ act[a][i] = "resolve" /\ Resolves(a) /\ act' = [act EXCEPT ![a][i] = "resolved"]
        /\ drift' = (drift \/ row[a] = "acknowledged")
     \/ /\ \/ act[a][i] = "acknowledge" /\ (a \in abroad \/ row[a] # "open")
           \/ act[a][i] = "resolve" /\ (a \in abroad \/ row[a] = "resolved")
        /\ act' = [act EXCEPT ![a][i] = "refused"] /\ UNCHANGED <<row, drift>>
  /\ DisturbLoads
  /\ UNCHANGED <<alertCase, abroad, told, alertStream, alertView>>

(* The request fails on its way, or the answer to what was done does.                      *)
LoseAnswer(a, i) ==
  /\ "lost" \in alertCase /\ act[a][i] \in {"acknowledge", "resolve", "acknowledged", "resolved"}
  /\ act' = [act EXCEPT ![a][i] = "refused"]
  /\ drift' = (drift \/ act[a][i] \in {"acknowledged", "resolved"})
  /\ DisturbLoads
  /\ UNCHANGED <<alertRows, alertStream, alertView>>

(* The page counts one open alert less, also for one that was acknowledged before.  It     *)
(* logs an error and keeps what it shows.                                                 *)
Land(a, i) ==
  /\ act[a][i] \in {"acknowledged", "resolved", "refused"}
  /\ IF act[a][i] = "refused" THEN UNCHANGED <<shown, counts>>
     ELSE /\ shown' = [shown EXCEPT ![a] = IF @ = "none" THEN @ ELSE act[a][i]]
          /\ counts' = [counts EXCEPT !.open = @ - 1,
                          !.acknowledged = IF act[a][i] = "acknowledged" THEN @ + 1 ELSE @]
  /\ act' = [act EXCEPT ![a][i] = "idle"]
  /\ DisturbLoads
  /\ UNCHANGED <<alertRows, alertStream, whole, counted, drift>>

AlertNext ==
  \/ \E a \in Alert : InsertAlert(a) \/ OtherAdmin(a) \/ \E here \in BOOLEAN : PushAlert(a, here)
  \/ \E a \in Alert, i \in Try : Press(a, i) \/ Answer(a, i) \/ LoseAnswer(a, i) \/ Land(a, i)
  \/ \E c \in Conn : Connect(c) \/ Admit(c) \/ Refuse(c)
  \/ \E l \in Load : AskList(l) \/ ReadList(l) \/ ReadCounts(l) \/ LandList(l)
  \/ StreamBreaks \/ Unmount \/ Mount \/ SessionChanges \/ AlertArrives

AlertSpec == AlertInit /\ [][AlertNext]_alertVars

-----------------------------------------------------------------------------
(* The page counts on its own between two loads: with every alert of its tenant told to   *)
(* it and no other, no answer lost, nobody else at work and no load overtaken, its counts   *)
(* are those of the table, whatever part of it the list shows; and where the list had       *)
(* every row, each open alert is listed as open, once all answers have arrived.            *)
PageCountsRight ==
  ~drift /\ wire = <<>> /\ Pushed /\ NonePressed =>
    /\ counts.open = Cardinality(Own("open"))
    /\ counts.acknowledged = Cardinality(Own("acknowledged"))
    /\ whole => \A a \in Own("open") : shown[a] = "open"

(* A subscription is dropped with its connection, unless the client left while the        *)
(* request was being authenticated: then it stays, with its heartbeat, for good.           *)
SubscribersListen == \A c \in subs \ orphan : c = panel.conn /\ conn[c] = "open"

LiveAlertsHold == PageCountsRight /\ SubscribersListen
=============================================================================
