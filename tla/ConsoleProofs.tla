---------------------------- MODULE ConsoleProofs ----------------------------
(* Proofs about the pages: what each component of MCConsole promises follows from an       *)
(* inductive invariant of its own, for any number of rows, requests under way, screens,     *)
(* accounts and sign-ins, and so it holds of the composition.                               *)
EXTENDS MCConsole, TLAPS, FiniteSetTheorems, SequenceTheorems

--------------------------------------------------------------------------------
(* LiveAlerts: the alert page beside its stream.                                          *)

(* What the page keeps of the stream: an alert is written to it once, and counted once.      *)
WireInv ==
  /\ IsInjective(wire)
  /\ ToSet(wire) \subseteq told \ counted
  /\ ToSet(heard) \subseteq counted /\ counted \subseteq told
  /\ \A a \in told : row[a] # "none"

(* One connection at a time, but for those whose client left while they were asked for.      *)
StreamInv ==
  /\ panel.timer \/ ~panel.mounted => panel.conn = NoConn
  /\ \A c \in Conn \ orphan : conn[c] = "asked" => c = panel.conn
  /\ SubscribersListen

(* What has reached the page: alerts of the stream that are not on their way any more.       *)
Arrived == told \ ToSet(wire)

(* A load that nothing disturbed has read rows as they are, and the page knows them all.       *)
Settled == Pushed /\ wire = <<>> /\ NonePressed
AlertLoadInv ==
  \A l \in Load : load[l].clean =>
    /\ Settled
    /\ load[l].at \in {"listed", "answered"} =>
         /\ \A a \in Alert : load[l].rows[a] # "none" => a \notin abroad /\ load[l].rows[a] = row[a]
         /\ load[l].whole => \A a \in Alert \ abroad : load[l].rows[a] = row[a]
    /\ load[l].at = "answered" => /\ load[l].open = Cardinality(Own("open"))
                                  /\ load[l].acknowledged = Cardinality(Own("acknowledged"))

(* Without drift the page counts an alert of its tenant once it has arrived, as open until     *)
(* the answer lands that says what was done with it; at most one press does something; and    *)
(* a list that had every row says of each what is counted.                                    *)
Committed(a, i) == act[a][i] \in {"acknowledged", "resolved"}
Owing(a) == \E i \in Try : Committed(a, i)
Tally(a) == IF a \in Arrived \ abroad THEN IF Owing(a) THEN "open" ELSE row[a] ELSE "none"
Tallied(s) == {a \in Alert : Tally(a) = s}
OnlyOwnWired == ToSet(wire) \cap abroad = {}
PressesArrived == \A a \in Alert : shown[a] # "none" \/ (\E i \in Try : act[a][i] # "idle") => a \in Arrived
OneCommits ==
  \A a \in Alert, i \in Try : Committed(a, i) =>
    a \notin abroad /\ row[a] = act[a][i] /\ \A k \in Try : Committed(a, k) => k = i
NewAreOpen == \A a \in Alert \ (Arrived \cup abroad) : row[a] \in {"none", "open"}
CountsTally == counts.open = Cardinality(Tallied("open")) /\ counts.acknowledged = Cardinality(Tallied("acknowledged"))
WholeTallies == whole => \A a \in Arrived \ abroad : shown[a] = Tally(a)
Undrifted == OnlyOwnWired /\ PressesArrived /\ OneCommits /\ NewAreOpen /\ CountsTally /\ WholeTallies
AlertListInv == ~drift => Undrifted

(* The types, by the parts of the component.                                                *)
AlertLoading == [at : {"idle", "asked", "listed", "answered"}, rows : [Alert -> Status],
            whole : BOOLEAN, open : Int, acknowledged : Int, clean : BOOLEAN]
Panel == [mounted : BOOLEAN, conn : Conn \cup {NoConn}, retries : 0..MaxRetries, timer : BOOLEAN]
Pressed == {"idle", "acknowledge", "resolve", "acknowledged", "resolved", "refused"}
RowTypes == alertCase \in AlertCases /\ abroad \subseteq Alert /\ row \in [Alert -> Status] /\ told \subseteq Alert
StreamTypes ==
  /\ conn \in [Conn -> {"idle", "asked", "open", "closed"}] /\ subs \subseteq Conn /\ orphan \subseteq Conn
  /\ session \in [token : BOOLEAN, admin : BOOLEAN] /\ panel \in Panel
WireTypes == wire \in Seq(Alert) /\ heard \in Seq(Alert) /\ Len(heard) <= HeardCap
ViewTypes ==
  /\ shown \in [Alert -> Status] /\ whole \in BOOLEAN
  /\ counts \in [open : Int, acknowledged : Int] /\ counted \subseteq Alert
LoadTypes == load \in [Load -> AlertLoading]
ActTypes == act \in [Alert -> [Try -> Pressed]] /\ drift \in BOOLEAN
AlertTypes == RowTypes /\ StreamTypes /\ WireTypes /\ ViewTypes /\ LoadTypes /\ ActTypes

AlertInv == AlertTypes /\ WireInv /\ StreamInv /\ AlertLoadInv /\ AlertListInv

LEMMA ReconnectTypes == panel \in Panel => Reconnect \in Panel /\ Reconnect.conn = NoConn
<1> SUFFICES ASSUME panel \in Panel PROVE Reconnect \in Panel /\ Reconnect.conn = NoConn
  OBVIOUS
<1>1. \A b \in BOOLEAN, r \in 0..MaxRetries :
        /\ [panel EXCEPT !.conn = NoConn, !.timer = b, !.retries = r] \in Panel
        /\ [panel EXCEPT !.conn = NoConn, !.timer = b, !.retries = r].conn = NoConn
  BY DEF Panel
<1>2. CASE panel.retries < MaxRetries
  <2>1. Reconnect = [panel EXCEPT !.conn = NoConn, !.timer = TRUE, !.retries = panel.retries + 1]
    BY <1>2 DEF Reconnect
  <2>2. panel.retries + 1 \in 0..MaxRetries
    BY <1>2, AlertAssumption DEF Panel
  <2>3. QED
    BY <1>1, <2>1, <2>2
<1>3. CASE ~(panel.retries < MaxRetries)
  <2>1. Reconnect = [panel EXCEPT !.conn = NoConn, !.timer = FALSE, !.retries = panel.retries]
    <3>1. (panel.retries < MaxRetries) = FALSE
      BY <1>3
    <3>2. QED
      BY <3>1 DEF Reconnect
  <2>2. panel.retries \in 0..MaxRetries
    BY DEF Panel
  <2>3. QED
    BY <1>1, <2>1, <2>2
<1>4. QED
  BY <1>2, <1>3

LEMMA NoLoadType ==
  /\ NoLoad \in AlertLoading
  /\ \A b \in BOOLEAN : [NoLoad EXCEPT !.at = "asked", !.clean = b] \in AlertLoading
<1>1. [a \in Alert |-> "none"] \in [Alert -> Status]
  BY DEF Status
<1>2. NoLoad \in AlertLoading
  BY <1>1 DEF NoLoad, AlertLoading
<1>3. \A x \in AlertLoading, b \in BOOLEAN : [x EXCEPT !.at = "asked", !.clean = b] \in AlertLoading
  BY DEF AlertLoading
<1>4. QED
  BY <1>2, <1>3

LEMMA OwnFinite == \A s \in Status : IsFiniteSet(Own(s)) /\ Cardinality(Own(s)) \in Nat
<1> TAKE s \in Status
<1>1. Own(s) \subseteq Alert
  BY DEF Own
<1>2. QED
  BY <1>1, AlertAssumption, FS_Subset, FS_CardinalityType

LEMMA TalliedFinite == \A s : IsFiniteSet(Tallied(s)) /\ Cardinality(Tallied(s)) \in Nat
<1> TAKE s
<1>1. Tallied(s) \subseteq Alert
  BY DEF Tallied
<1>2. QED
  BY <1>1, AlertAssumption, FS_Subset, FS_CardinalityType

(* One press changes, and no other.                                                          *)
LEMMA OnePress ==
  ASSUME NEW A, NEW T, NEW P, NEW f \in [A -> [T -> P]], NEW a \in A, NEW i \in T, NEW s \in P
  PROVE  /\ [f EXCEPT ![a][i] = s] \in [A -> [T -> P]]
         /\ [f EXCEPT ![a][i] = s][a][i] = s
         /\ \A b \in A, k \in T : b # a \/ k # i => [f EXCEPT ![a][i] = s][b][k] = f[b][k]
OBVIOUS

LEMMA AppendSet ==
  ASSUME NEW S, NEW s \in Seq(S), NEW x \in S
  PROVE  /\ ToSet(Append(s, x)) = ToSet(s) \cup {x}
         /\ x \notin ToSet(s) /\ IsInjective(s) => IsInjective(Append(s, x))
<1>1. Len(s) \in Nat /\ DOMAIN s = 1..Len(s)
  BY LenProperties
<1>2. /\ DOMAIN Append(s, x) = 1..(Len(s) + 1)
      /\ \A i \in 1..Len(s) : Append(s, x)[i] = s[i]
      /\ Append(s, x)[Len(s) + 1] = x
  BY <1>1
<1>3. ToSet(Append(s, x)) = ToSet(s) \cup {x}
  BY <1>1, <1>2 DEF ToSet
<1>4. ASSUME x \notin ToSet(s), IsInjective(s) PROVE IsInjective(Append(s, x))
  BY <1>1, <1>2, <1>4 DEF ToSet, IsInjective
<1>5. QED
  BY <1>3, <1>4

LEMMA TailSet ==
  ASSUME NEW S, NEW s \in Seq(S), s # <<>>, IsInjective(s)
  PROVE  Head(s) \in ToSet(s) /\ IsInjective(Tail(s)) /\ ToSet(Tail(s)) = ToSet(s) \ {Head(s)}
<1>1. Len(s) \in Nat \ {0} /\ DOMAIN s = 1..Len(s) /\ Head(s) = s[1]
  BY EmptySeq, LenProperties
<1>2. DOMAIN Tail(s) = 1..(Len(s) - 1) /\ \A i \in 1..(Len(s) - 1) : Tail(s)[i] = s[i + 1]
  BY <1>1
<1>3. IsInjective(Tail(s))
  BY <1>1, <1>2 DEF IsInjective
<1>4. ToSet(Tail(s)) \subseteq ToSet(s) \ {Head(s)}
  BY <1>1, <1>2 DEF IsInjective, ToSet
<1>5. ASSUME NEW i \in 1..Len(s), s[i] # Head(s) PROVE s[i] \in ToSet(Tail(s))
  <2>1. i - 1 \in 1..(Len(s) - 1) /\ Tail(s)[i - 1] = s[i]
    BY <1>1, <1>2, <1>5
  <2>2. QED
    BY <1>2, <2>1 DEF ToSet
<1>6. QED
  BY <1>1, <1>3, <1>4, <1>5 DEF ToSet

(* An alert that arrives is remembered as the newest, and counted unless it was before.      *)
LEMMA HeardStep ==
  ASSUME WireTypes, ViewTypes, AlertArrives
  PROVE  /\ wire # <<>> /\ Head(wire) \in Alert /\ wire' = Tail(wire) /\ wire' \in Seq(Alert)
         /\ heard' \in Seq(Alert) /\ Len(heard') <= HeardCap
         /\ Head(wire) \in ToSet(heard') /\ ToSet(heard') \subseteq ToSet(heard) \cup {Head(wire)}
         /\ counted' = counted \cup ToSet(heard') /\ counted' \subseteq Alert
         /\ IsFiniteSet(ToSet(heard') \ counted)
         /\ counts' = [counts EXCEPT !.open = @ + Cardinality(ToSet(heard') \ counted)]
         /\ counts' \in [open : Int, acknowledged : Int]
<1> DEFINE h == <<Head(wire)>> \o heard
           n == IF Len(h) < HeardCap THEN Len(h) ELSE HeardCap
<1>1. wire # <<>> /\ wire' = Tail(wire) /\ heard' = SubSeq(h, 1, n) /\ CountNew(heard')
  BY DEF AlertArrives
<1>2. wire \in Seq(Alert) /\ heard \in Seq(Alert) /\ Len(heard) \in Nat
  BY LenProperties DEF WireTypes
<1>3. Head(wire) \in Alert /\ Tail(wire) \in Seq(Alert)
  BY <1>1, <1>2, HeadTailProperties
<1>4. /\ h \in Seq(Alert) /\ Len(h) = Len(heard) + 1 /\ h[1] = Head(wire)
      /\ \A i \in 2..Len(h) : h[i] = heard[i - 1] /\ i - 1 \in DOMAIN heard
  BY <1>2, <1>3
<1>5. n \in Nat /\ 1 <= n /\ n <= Len(h) /\ n <= HeardCap
  BY <1>2, <1>4, AlertAssumption
<1> HIDE DEF h, n
<1>6. /\ heard' \in Seq(Alert) /\ Len(heard') = n /\ \A i \in 1..n : heard'[i] = h[i]
  BY <1>1, <1>4, <1>5
<1>7. Head(wire) \in ToSet(heard') /\ ToSet(heard') \subseteq ToSet(heard) \cup {Head(wire)}
  <2>1. DOMAIN heard' = 1..n /\ heard'[1] = Head(wire)
    BY <1>4, <1>5, <1>6
  <2>2. Head(wire) \in ToSet(heard')
    BY <1>5, <2>1 DEF ToSet
  <2>3. ASSUME NEW i \in 1..n PROVE heard'[i] \in ToSet(heard) \cup {Head(wire)}
    <3>1. CASE i = 1
      BY <2>1, <3>1
    <3>2. CASE i # 1
      <4>1. i \in 2..Len(h)
        BY <1>4, <1>5, <3>2
      <4>2. QED
        BY <1>4, <1>6, <4>1 DEF ToSet
    <3>3. QED
      BY <3>1, <3>2
  <2>4. QED
    BY <2>1, <2>2, <2>3 DEF ToSet
<1>8. ToSet(heard') \subseteq Alert
  BY <1>6 DEF ToSet
<1>9. IsFiniteSet(ToSet(heard') \ counted) /\ Cardinality(ToSet(heard') \ counted) \in Nat
  BY <1>8, AlertAssumption, FS_Subset, FS_CardinalityType
<1>10. /\ counted' = counted \cup ToSet(heard') /\ counted' \subseteq Alert
       /\ counts' = [counts EXCEPT !.open = @ + Cardinality(ToSet(heard') \ counted)]
  BY <1>1, <1>8 DEF CountNew, ViewTypes
<1>11. counts' \in [open : Int, acknowledged : Int]
  BY <1>9, <1>10 DEF ViewTypes
<1>12. wire # <<>> /\ wire' = Tail(wire) /\ wire' \in Seq(Alert) /\ heard' \in Seq(Alert) /\ Len(heard') <= HeardCap
  BY <1>1, <1>3, <1>5, <1>6
<1>13. QED
  BY <1>3, <1>7, <1>9, <1>10, <1>11, <1>12

LEMMA RowTypesKept == AlertInv /\ AlertNext => RowTypes'
<1> SUFFICES ASSUME AlertInv, AlertNext PROVE RowTypes'
  OBVIOUS
<1> USE DEF AlertInv, AlertTypes, alertRows, alertStream, alertView, DisturbLoads, RowTypes, Status
<1>1. ASSUME NEW a \in Alert, InsertAlert(a) PROVE RowTypes'
  BY <1>1 DEF InsertAlert
<1>2. ASSUME NEW a \in Alert, \E here \in BOOLEAN : PushAlert(a, here) PROVE RowTypes'
  BY <1>2 DEF PushAlert
<1>3. ASSUME NEW a \in Alert, OtherAdmin(a) PROVE RowTypes'
  BY <1>3 DEF OtherAdmin, Acknowledges, Resolves
<1>4. ASSUME NEW a \in Alert, NEW i \in Try, Press(a, i) PROVE RowTypes'
  BY <1>4 DEF Press
<1>5. ASSUME NEW a \in Alert, NEW i \in Try, Answer(a, i) PROVE RowTypes'
  BY <1>5 DEF Answer, Acknowledges, Resolves
<1>6. ASSUME NEW a \in Alert, NEW i \in Try, Land(a, i) PROVE RowTypes'
  BY <1>6 DEF Land
<1>7. ASSUME NEW c \in Conn, Connect(c) PROVE RowTypes'
  BY <1>7 DEF Connect
<1>8. ASSUME NEW c \in Conn, Admit(c) PROVE RowTypes'
  BY <1>8 DEF Admit
<1>9. ASSUME NEW c \in Conn, Refuse(c) PROVE RowTypes'
  BY <1>9 DEF Refuse, Reconnect
<1>10. ASSUME NEW l \in Load, AskList(l) PROVE RowTypes'
  BY <1>10 DEF AskList
<1>11. ASSUME NEW l \in Load, ReadList(l) PROVE RowTypes'
  BY <1>11 DEF ReadList
<1>12. ASSUME NEW l \in Load, ReadCounts(l) PROVE RowTypes'
  BY <1>12 DEF ReadCounts
<1>13. ASSUME NEW l \in Load, LandList(l) PROVE RowTypes'
  BY <1>13 DEF LandList
<1>14. ASSUME StreamBreaks PROVE RowTypes'
  BY <1>14 DEF StreamBreaks, Reconnect, Hangs
<1>15. ASSUME Unmount PROVE RowTypes'
  BY <1>15 DEF Unmount, Hangs
<1>16. ASSUME Mount PROVE RowTypes'
  BY <1>16 DEF Mount
<1>17. ASSUME SessionChanges PROVE RowTypes'
  BY <1>17 DEF SessionChanges
<1>18. ASSUME AlertArrives PROVE RowTypes'
  BY <1>18 DEF AlertArrives, CountNew
<1>19. ASSUME NEW a \in Alert, NEW i \in Try, LoseAnswer(a, i) PROVE RowTypes'
  BY <1>19 DEF LoseAnswer
<1>20. QED
  BY <1>1, <1>2, <1>3, <1>4, <1>5, <1>6, <1>7, <1>8, <1>9, <1>10, <1>11, <1>12, <1>13, <1>14, <1>15, <1>16, <1>17, <1>18, <1>19 DEF AlertNext

LEMMA StreamTypesKept == AlertInv /\ AlertNext => StreamTypes'
<1> SUFFICES ASSUME AlertInv, AlertNext PROVE StreamTypes'
  OBVIOUS
<1> USE AlertAssumption DEF AlertInv, AlertTypes, alertRows, alertStream, alertView, DisturbLoads, StreamTypes, Panel, NoConn
<1>1. ASSUME NEW a \in Alert, InsertAlert(a) PROVE StreamTypes'
  BY <1>1 DEF InsertAlert
<1>2. ASSUME NEW a \in Alert, \E here \in BOOLEAN : PushAlert(a, here) PROVE StreamTypes'
  BY <1>2 DEF PushAlert
<1>3. ASSUME NEW a \in Alert, OtherAdmin(a) PROVE StreamTypes'
  BY <1>3 DEF OtherAdmin, Acknowledges, Resolves
<1>4. ASSUME NEW a \in Alert, NEW i \in Try, Press(a, i) PROVE StreamTypes'
  BY <1>4 DEF Press
<1>5. ASSUME NEW a \in Alert, NEW i \in Try, Answer(a, i) PROVE StreamTypes'
  BY <1>5 DEF Answer, Acknowledges, Resolves
<1>6. ASSUME NEW a \in Alert, NEW i \in Try, Land(a, i) PROVE StreamTypes'
  BY <1>6 DEF Land
<1>7. ASSUME NEW c \in Conn, Connect(c) PROVE StreamTypes'
  BY <1>7 DEF Connect
<1>8. ASSUME NEW c \in Conn, Admit(c) PROVE StreamTypes'
  BY <1>8 DEF Admit
<1>9. ASSUME NEW c \in Conn, Refuse(c) PROVE StreamTypes'
  <2>1. panel' \in Panel
    BY <1>9, ReconnectTypes DEF Refuse
  <2>2. QED
    BY <1>9, <2>1 DEF Refuse
<1>10. ASSUME NEW l \in Load, AskList(l) PROVE StreamTypes'
  BY <1>10 DEF AskList
<1>11. ASSUME NEW l \in Load, ReadList(l) PROVE StreamTypes'
  BY <1>11 DEF ReadList
<1>12. ASSUME NEW l \in Load, ReadCounts(l) PROVE StreamTypes'
  BY <1>12 DEF ReadCounts
<1>13. ASSUME NEW l \in Load, LandList(l) PROVE StreamTypes'
  BY <1>13 DEF LandList
<1>14. ASSUME StreamBreaks PROVE StreamTypes'
  <2>1. panel' \in Panel /\ session' = session
    BY <1>14, ReconnectTypes DEF StreamBreaks
  <2>2. conn' \in [Conn -> {"idle", "asked", "open", "closed"}] /\ subs' \subseteq Conn /\ orphan' \subseteq Conn
    BY <1>14 DEF StreamBreaks, Hangs
  <2>3. QED
    BY <2>1, <2>2
<1>15. ASSUME Unmount PROVE StreamTypes'
  <2>1. panel' = [mounted |-> FALSE, conn |-> NoConn, retries |-> panel.retries, timer |-> FALSE]
    BY <1>15 DEF Unmount
  <2>2. conn' \in [Conn -> {"idle", "asked", "open", "closed"}] /\ subs' \subseteq Conn /\ orphan' \subseteq Conn
    BY <1>15 DEF Unmount, Hangs
  <2>3. session' = session
    BY <1>15 DEF Unmount
  <2>4. QED
    BY <2>1, <2>2, <2>3
<1>16. ASSUME Mount PROVE StreamTypes'
  <2>1. panel' = [mounted |-> TRUE, conn |-> panel.conn, retries |-> 0, timer |-> TRUE]
    BY <1>16 DEF Mount
  <2>2. session' = [token |-> TRUE, admin |-> session.admin] /\ UNCHANGED <<conn, subs, orphan>>
    BY <1>16 DEF Mount
  <2>3. QED
    BY <2>1, <2>2
<1>17. ASSUME SessionChanges PROVE StreamTypes'
  BY <1>17 DEF SessionChanges
<1>18. ASSUME AlertArrives PROVE StreamTypes'
  BY <1>18 DEF AlertArrives, CountNew
<1>19. ASSUME NEW a \in Alert, NEW i \in Try, LoseAnswer(a, i) PROVE StreamTypes'
  BY <1>19 DEF LoseAnswer
<1>20. QED
  BY <1>1, <1>2, <1>3, <1>4, <1>5, <1>6, <1>7, <1>8, <1>9, <1>10, <1>11, <1>12, <1>13, <1>14, <1>15, <1>16, <1>17, <1>18, <1>19 DEF AlertNext

LEMMA WireTypesKept == AlertInv /\ AlertNext => WireTypes'
<1> SUFFICES ASSUME AlertInv, AlertNext PROVE WireTypes'
  OBVIOUS
<1> USE DEF AlertInv, AlertTypes, alertRows, alertStream, alertView, DisturbLoads, WireTypes
<1>1. ASSUME NEW a \in Alert, InsertAlert(a) PROVE WireTypes'
  BY <1>1 DEF InsertAlert
<1>2. ASSUME NEW a \in Alert, \E here \in BOOLEAN : PushAlert(a, here) PROVE WireTypes'
  BY <1>2 DEF PushAlert
<1>3. ASSUME NEW a \in Alert, OtherAdmin(a) PROVE WireTypes'
  BY <1>3 DEF OtherAdmin, Acknowledges, Resolves
<1>4. ASSUME NEW a \in Alert, NEW i \in Try, Press(a, i) PROVE WireTypes'
  BY <1>4 DEF Press
<1>5. ASSUME NEW a \in Alert, NEW i \in Try, Answer(a, i) PROVE WireTypes'
  BY <1>5 DEF Answer, Acknowledges, Resolves
<1>6. ASSUME NEW a \in Alert, NEW i \in Try, Land(a, i) PROVE WireTypes'
  BY <1>6 DEF Land
<1>7. ASSUME NEW c \in Conn, Connect(c) PROVE WireTypes'
  BY <1>7 DEF Connect
<1>8. ASSUME NEW c \in Conn, Admit(c) PROVE WireTypes'
  BY <1>8 DEF Admit
<1>9. ASSUME NEW c \in Conn, Refuse(c) PROVE WireTypes'
  BY <1>9 DEF Refuse, Reconnect
<1>10. ASSUME NEW l \in Load, AskList(l) PROVE WireTypes'
  BY <1>10 DEF AskList
<1>11. ASSUME NEW l \in Load, ReadList(l) PROVE WireTypes'
  BY <1>11 DEF ReadList
<1>12. ASSUME NEW l \in Load, ReadCounts(l) PROVE WireTypes'
  BY <1>12 DEF ReadCounts
<1>13. ASSUME NEW l \in Load, LandList(l) PROVE WireTypes'
  BY <1>13 DEF LandList
<1>14. ASSUME StreamBreaks PROVE WireTypes'
  BY <1>14 DEF StreamBreaks, Reconnect, Hangs
<1>15. ASSUME Unmount PROVE WireTypes'
  <2>1. (wire' = wire \/ wire' = <<>>) /\ heard' = <<>>
    BY <1>15 DEF Unmount, Hangs
  <2>2. <<>> \in Seq(Alert) /\ Len(<<>>) <= HeardCap
    BY EmptySeq, AlertAssumption
  <2>3. QED
    BY <2>1, <2>2
<1>16. ASSUME Mount PROVE WireTypes'
  BY <1>16 DEF Mount
<1>17. ASSUME SessionChanges PROVE WireTypes'
  BY <1>17 DEF SessionChanges
<1>18. ASSUME AlertArrives PROVE WireTypes'
  <2>1. wire' \in Seq(Alert) /\ heard' \in Seq(Alert) /\ Len(heard') <= HeardCap
    BY <1>18, HeardStep
  <2>2. QED
    BY <2>1
<1>19. ASSUME NEW a \in Alert, NEW i \in Try, LoseAnswer(a, i) PROVE WireTypes'
  BY <1>19 DEF LoseAnswer
<1>20. QED
  BY <1>1, <1>2, <1>3, <1>4, <1>5, <1>6, <1>7, <1>8, <1>9, <1>10, <1>11, <1>12, <1>13, <1>14, <1>15, <1>16, <1>17, <1>18, <1>19 DEF AlertNext

LEMMA ViewTypesKept == AlertInv /\ AlertNext => ViewTypes'
<1> SUFFICES ASSUME AlertInv, AlertNext PROVE ViewTypes'
  OBVIOUS
<1> USE DEF AlertInv, AlertTypes, alertRows, alertStream, alertView, DisturbLoads, ViewTypes, Status
<1>1. ASSUME NEW a \in Alert, InsertAlert(a) PROVE ViewTypes'
  BY <1>1 DEF InsertAlert
<1>2. ASSUME NEW a \in Alert, \E here \in BOOLEAN : PushAlert(a, here) PROVE ViewTypes'
  BY <1>2 DEF PushAlert
<1>3. ASSUME NEW a \in Alert, OtherAdmin(a) PROVE ViewTypes'
  BY <1>3 DEF OtherAdmin, Acknowledges, Resolves
<1>4. ASSUME NEW a \in Alert, NEW i \in Try, Press(a, i) PROVE ViewTypes'
  BY <1>4 DEF Press
<1>5. ASSUME NEW a \in Alert, NEW i \in Try, Answer(a, i) PROVE ViewTypes'
  BY <1>5 DEF Answer, Acknowledges, Resolves
<1>6. ASSUME NEW a \in Alert, NEW i \in Try, Land(a, i) PROVE ViewTypes'
  <2>1. counts' = counts \/ counts' = [open |-> counts.open - 1, acknowledged |-> counts.acknowledged]
                         \/ counts' = [open |-> counts.open - 1, acknowledged |-> counts.acknowledged + 1]
    BY <1>6 DEF Land
  <2>2. shown' \in [Alert -> Status] /\ counted' = counted
    BY <1>6 DEF Land
  <2>3. whole' = whole
    BY <1>6 DEF Land
  <2>4. counts' \in [open : Int, acknowledged : Int]
    BY <2>1
  <2>5. QED
    BY <2>2, <2>3, <2>4
<1>7. ASSUME NEW c \in Conn, Connect(c) PROVE ViewTypes'
  BY <1>7 DEF Connect
<1>8. ASSUME NEW c \in Conn, Admit(c) PROVE ViewTypes'
  BY <1>8 DEF Admit
<1>9. ASSUME NEW c \in Conn, Refuse(c) PROVE ViewTypes'
  BY <1>9 DEF Refuse, Reconnect
<1>10. ASSUME NEW l \in Load, AskList(l) PROVE ViewTypes'
  BY <1>10 DEF AskList
<1>11. ASSUME NEW l \in Load, ReadList(l) PROVE ViewTypes'
  BY <1>11 DEF ReadList
<1>12. ASSUME NEW l \in Load, ReadCounts(l) PROVE ViewTypes'
  BY <1>12 DEF ReadCounts
<1>13. ASSUME NEW l \in Load, LandList(l) PROVE ViewTypes'
  <2>1. load[l] \in AlertLoading /\ load[l].whole \in BOOLEAN /\ load[l].rows \in [Alert -> Status] /\ load[l].open \in Int /\ load[l].acknowledged \in Int
    BY DEF LoadTypes, AlertLoading
  <2>2. QED
    BY <1>13, <2>1 DEF LandList
<1>14. ASSUME StreamBreaks PROVE ViewTypes'
  BY <1>14 DEF StreamBreaks, Reconnect, Hangs
<1>15. ASSUME Unmount PROVE ViewTypes'
  <2>1. shown' = [a \in Alert |-> "none"] /\ whole' = FALSE /\ counts' = [open |-> 0, acknowledged |-> 0] /\ counted' = {}
    BY <1>15 DEF Unmount
  <2>2. whole' \in BOOLEAN
    <3>1. whole' = FALSE
      BY <2>1
    <3>2. QED
      BY <3>1
  <2>3. QED
    BY <2>1, <2>2
<1>16. ASSUME Mount PROVE ViewTypes'
  BY <1>16 DEF Mount
<1>17. ASSUME SessionChanges PROVE ViewTypes'
  BY <1>17 DEF SessionChanges
<1>18. ASSUME AlertArrives PROVE ViewTypes'
  <2>1. counted' \subseteq Alert /\ counts' \in [open : Int, acknowledged : Int]
    BY <1>18, HeardStep
  <2>2. shown' \in [Alert -> Status]
    BY <1>18 DEF AlertArrives
  <2>3. whole' = whole
    BY <1>18 DEF AlertArrives
  <2>4. QED
    BY <2>1, <2>2, <2>3
<1>19. ASSUME NEW a \in Alert, NEW i \in Try, LoseAnswer(a, i) PROVE ViewTypes'
  BY <1>19 DEF LoseAnswer
<1>20. QED
  BY <1>1, <1>2, <1>3, <1>4, <1>5, <1>6, <1>7, <1>8, <1>9, <1>10, <1>11, <1>12, <1>13, <1>14, <1>15, <1>16, <1>17, <1>18, <1>19 DEF AlertNext

LEMMA LoadTypesKept == AlertInv /\ AlertNext => LoadTypes'
<1> SUFFICES ASSUME AlertInv, AlertNext PROVE LoadTypes'
  OBVIOUS
<1> USE DEF AlertInv, AlertTypes, alertRows, alertStream, alertView, DisturbLoads, LoadTypes, AlertLoading, Status, NoLoad
<1>1. ASSUME NEW a \in Alert, InsertAlert(a) PROVE LoadTypes'
  BY <1>1 DEF InsertAlert
<1>2. ASSUME NEW a \in Alert, \E here \in BOOLEAN : PushAlert(a, here) PROVE LoadTypes'
  <2>1. DisturbLoads
    BY <1>2 DEF PushAlert
  <2>2. QED
    BY <2>1
<1>3. ASSUME NEW a \in Alert, OtherAdmin(a) PROVE LoadTypes'
  BY <1>3 DEF OtherAdmin, Acknowledges, Resolves
<1>4. ASSUME NEW a \in Alert, NEW i \in Try, Press(a, i) PROVE LoadTypes'
  BY <1>4 DEF Press
<1>5. ASSUME NEW a \in Alert, NEW i \in Try, Answer(a, i) PROVE LoadTypes'
  BY <1>5 DEF Answer, Acknowledges, Resolves
<1>6. ASSUME NEW a \in Alert, NEW i \in Try, Land(a, i) PROVE LoadTypes'
  BY <1>6 DEF Land
<1>7. ASSUME NEW c \in Conn, Connect(c) PROVE LoadTypes'
  BY <1>7 DEF Connect
<1>8. ASSUME NEW c \in Conn, Admit(c) PROVE LoadTypes'
  BY <1>8 DEF Admit
<1>9. ASSUME NEW c \in Conn, Refuse(c) PROVE LoadTypes'
  BY <1>9 DEF Refuse, Reconnect
<1>10. ASSUME NEW l \in Load, AskList(l) PROVE LoadTypes'
  <2> DEFINE ok == /\ \A k \in Load : load[k].at = "idle"
                   /\ Pushed /\ wire = <<>> /\ NonePressed
             new == [NoLoad EXCEPT !.at = "asked", !.clean = ok]
  <2>1. load' = [load EXCEPT ![l] = new]
    BY <1>10 DEF AskList
  <2>2. ok \in BOOLEAN
    OBVIOUS
  <2> HIDE DEF ok
  <2>3. new \in AlertLoading
    BY <2>2, NoLoadType
  <2> HIDE DEF new
  <2>4. QED
    BY <2>1, <2>3
<1>11. ASSUME NEW l \in Load, ReadList(l) PROVE LoadTypes'
  <2>1. PICK chosen \in SUBSET Listable : load' = [load EXCEPT ![l].at = "listed",
                            ![l].rows = [a \in Alert |-> IF a \in chosen THEN row[a] ELSE "none"],
                            ![l].whole = (chosen = Listable)]
    BY <1>11 DEF ReadList
  <2> DEFINE read == [a \in Alert |-> IF a \in chosen THEN row[a] ELSE "none"]
             all == chosen = Listable
             new == [load[l] EXCEPT !.at = "listed", !.rows = read, !.whole = all]
  <2>2. load' = [load EXCEPT ![l] = new]
    BY <2>1
  <2>3. read \in [Alert -> Status] /\ all \in BOOLEAN
    BY DEF RowTypes
  <2> HIDE DEF read, all
  <2>4. new \in AlertLoading
    BY <2>3
  <2> HIDE DEF new
  <2>5. QED
    BY <2>2, <2>4
<1>12. ASSUME NEW l \in Load, ReadCounts(l) PROVE LoadTypes'
  <2> DEFINE o == Cardinality(Own("open"))
             k == Cardinality(Own("acknowledged"))
             new == [load[l] EXCEPT !.at = "answered", !.open = o, !.acknowledged = k]
  <2>1. load' = [load EXCEPT ![l] = new]
    BY <1>12 DEF ReadCounts
  <2>2. o \in Int /\ k \in Int
    BY OwnFinite
  <2> HIDE DEF o, k
  <2>3. new \in AlertLoading
    BY <2>2
  <2> HIDE DEF new
  <2>4. QED
    BY <2>1, <2>3
<1>13. ASSUME NEW l \in Load, LandList(l) PROVE LoadTypes'
  <2>1. load' = [k \in Load |-> IF k = l THEN NoLoad ELSE [load[k] EXCEPT !.clean = FALSE]]
    BY <1>13 DEF LandList
  <2>2. NoLoad \in AlertLoading
    BY NoLoadType
  <2>3. \A k \in Load : [load[k] EXCEPT !.clean = FALSE] \in AlertLoading
    OBVIOUS
  <2>4. QED
    BY <2>1, <2>2, <2>3
<1>14. ASSUME StreamBreaks PROVE LoadTypes'
  BY <1>14 DEF StreamBreaks, Reconnect, Hangs
<1>15. ASSUME Unmount PROVE LoadTypes'
  BY <1>15 DEF Unmount, Hangs
<1>16. ASSUME Mount PROVE LoadTypes'
  BY <1>16 DEF Mount
<1>17. ASSUME SessionChanges PROVE LoadTypes'
  BY <1>17 DEF SessionChanges
<1>18. ASSUME AlertArrives PROVE LoadTypes'
  BY <1>18 DEF AlertArrives, CountNew
<1>19. ASSUME NEW a \in Alert, NEW i \in Try, LoseAnswer(a, i) PROVE LoadTypes'
  BY <1>19 DEF LoseAnswer
<1>20. QED
  BY <1>1, <1>2, <1>3, <1>4, <1>5, <1>6, <1>7, <1>8, <1>9, <1>10, <1>11, <1>12, <1>13, <1>14, <1>15, <1>16, <1>17, <1>18, <1>19 DEF AlertNext

LEMMA ActTypesKept == AlertInv /\ AlertNext => ActTypes'
<1> SUFFICES ASSUME AlertInv, AlertNext PROVE ActTypes'
  OBVIOUS
<1> USE DEF AlertInv, AlertTypes, alertRows, alertStream, alertView, DisturbLoads, ActTypes, Pressed
<1>1. ASSUME NEW a \in Alert, InsertAlert(a) PROVE ActTypes'
  BY <1>1 DEF InsertAlert
<1>2. ASSUME NEW a \in Alert, \E here \in BOOLEAN : PushAlert(a, here) PROVE ActTypes'
  BY <1>2 DEF PushAlert
<1>3. ASSUME NEW a \in Alert, OtherAdmin(a) PROVE ActTypes'
  BY <1>3 DEF OtherAdmin, Acknowledges, Resolves
<1>4. ASSUME NEW a \in Alert, NEW i \in Try, Press(a, i) PROVE ActTypes'
  <2>1. drift' \in BOOLEAN
    BY <1>4 DEF Press
  <2>2. \E s \in {"acknowledge", "resolve"} : act' = [act EXCEPT ![a][i] = s]
    BY <1>4 DEF Press
  <2>3. QED
    BY <2>1, <2>2, OnePress
<1>5. ASSUME NEW a \in Alert, NEW i \in Try, Answer(a, i) PROVE ActTypes'
  <2>1. drift' \in BOOLEAN
    BY <1>5 DEF Answer
  <2>2. \E s \in {"acknowledged", "resolved", "refused"} : act' = [act EXCEPT ![a][i] = s]
    BY <1>5 DEF Answer
  <2>3. QED
    BY <2>1, <2>2, OnePress
<1>6. ASSUME NEW a \in Alert, NEW i \in Try, Land(a, i) PROVE ActTypes'
  <2>1. drift' \in BOOLEAN
    BY <1>6 DEF Land
  <2>2. \E s \in {"idle"} : act' = [act EXCEPT ![a][i] = s]
    BY <1>6 DEF Land
  <2>3. QED
    BY <2>1, <2>2, OnePress
<1>7. ASSUME NEW c \in Conn, Connect(c) PROVE ActTypes'
  BY <1>7 DEF Connect
<1>8. ASSUME NEW c \in Conn, Admit(c) PROVE ActTypes'
  BY <1>8 DEF Admit
<1>9. ASSUME NEW c \in Conn, Refuse(c) PROVE ActTypes'
  BY <1>9 DEF Refuse, Reconnect
<1>10. ASSUME NEW l \in Load, AskList(l) PROVE ActTypes'
  BY <1>10 DEF AskList
<1>11. ASSUME NEW l \in Load, ReadList(l) PROVE ActTypes'
  BY <1>11 DEF ReadList
<1>12. ASSUME NEW l \in Load, ReadCounts(l) PROVE ActTypes'
  BY <1>12 DEF ReadCounts
<1>13. ASSUME NEW l \in Load, LandList(l) PROVE ActTypes'
  BY <1>13 DEF LandList
<1>14. ASSUME StreamBreaks PROVE ActTypes'
  BY <1>14 DEF StreamBreaks, Reconnect, Hangs
<1>15. ASSUME Unmount PROVE ActTypes'
  BY <1>15 DEF Unmount, Hangs
<1>16. ASSUME Mount PROVE ActTypes'
  BY <1>16 DEF Mount
<1>17. ASSUME SessionChanges PROVE ActTypes'
  BY <1>17 DEF SessionChanges
<1>18. ASSUME AlertArrives PROVE ActTypes'
  BY <1>18 DEF AlertArrives, CountNew
<1>19. ASSUME NEW a \in Alert, NEW i \in Try, LoseAnswer(a, i) PROVE ActTypes'
  <2>1. drift' \in BOOLEAN
    BY <1>19 DEF LoseAnswer
  <2>2. \E s \in {"refused"} : act' = [act EXCEPT ![a][i] = s]
    BY <1>19 DEF LoseAnswer
  <2>3. QED
    BY <2>1, <2>2, OnePress
<1>20. QED
  BY <1>1, <1>2, <1>3, <1>4, <1>5, <1>6, <1>7, <1>8, <1>9, <1>10, <1>11, <1>12, <1>13, <1>14, <1>15, <1>16, <1>17, <1>18, <1>19 DEF AlertNext

LEMMA WireKept == AlertInv /\ AlertNext => WireInv'
<1> SUFFICES ASSUME AlertInv, AlertNext PROVE WireInv'
  OBVIOUS
<1> USE DEF AlertInv, AlertTypes, alertRows, alertStream, alertView, DisturbLoads, WireInv, WireTypes, RowTypes, Status
<1>1. ASSUME NEW a \in Alert, InsertAlert(a) PROVE WireInv'
  BY <1>1 DEF InsertAlert
<1>2. ASSUME NEW a \in Alert, \E here \in BOOLEAN : PushAlert(a, here) PROVE WireInv'
  <2>1. a \notin told /\ told' = told \cup {a} /\ row[a] # "none" /\ UNCHANGED <<row, heard, counted>>
        /\ (wire' = wire \/ wire' = Append(wire, a))
    BY <1>2 DEF PushAlert
  <2>2. IsInjective(Append(wire, a)) /\ ToSet(Append(wire, a)) = ToSet(wire) \cup {a}
    <3>1. wire \in Seq(Alert) /\ IsInjective(wire) /\ a \notin ToSet(wire)
      BY <2>1
    <3>2. QED
      BY <3>1, AppendSet
  <2>3. IsInjective(wire') /\ ToSet(wire') \subseteq ToSet(wire) \cup {a}
    BY <2>1, <2>2
  <2>4. QED
    BY <2>1, <2>3
<1>3. ASSUME NEW a \in Alert, OtherAdmin(a) PROVE WireInv'
  BY <1>3 DEF OtherAdmin, Acknowledges, Resolves
<1>4. ASSUME NEW a \in Alert, NEW i \in Try, Press(a, i) PROVE WireInv'
  BY <1>4 DEF Press
<1>5. ASSUME NEW a \in Alert, NEW i \in Try, Answer(a, i) PROVE WireInv'
  BY <1>5 DEF Answer, Acknowledges, Resolves
<1>6. ASSUME NEW a \in Alert, NEW i \in Try, Land(a, i) PROVE WireInv'
  BY <1>6 DEF Land
<1>7. ASSUME NEW c \in Conn, Connect(c) PROVE WireInv'
  BY <1>7 DEF Connect
<1>8. ASSUME NEW c \in Conn, Admit(c) PROVE WireInv'
  BY <1>8 DEF Admit
<1>9. ASSUME NEW c \in Conn, Refuse(c) PROVE WireInv'
  BY <1>9 DEF Refuse, Reconnect
<1>10. ASSUME NEW l \in Load, AskList(l) PROVE WireInv'
  BY <1>10 DEF AskList
<1>11. ASSUME NEW l \in Load, ReadList(l) PROVE WireInv'
  BY <1>11 DEF ReadList
<1>12. ASSUME NEW l \in Load, ReadCounts(l) PROVE WireInv'
  BY <1>12 DEF ReadCounts
<1>13. ASSUME NEW l \in Load, LandList(l) PROVE WireInv'
  BY <1>13 DEF LandList
<1>14. ASSUME StreamBreaks PROVE WireInv'
  <2>1. wire' = <<>> /\ UNCHANGED <<row, told, heard, counted>>
    BY <1>14 DEF StreamBreaks, Hangs
  <2>2. QED
    BY <2>1 DEF IsInjective, ToSet
<1>15. ASSUME Unmount PROVE WireInv'
  <2>1. (wire' = wire \/ wire' = <<>>) /\ heard' = <<>> /\ counted' = {} /\ UNCHANGED <<row, told>>
    BY <1>15 DEF Unmount, Hangs
  <2>2. IsInjective(wire') /\ ToSet(wire') \subseteq told /\ ToSet(heard') = {}
    BY <2>1 DEF IsInjective, ToSet
  <2>3. QED
    BY <2>1, <2>2
<1>16. ASSUME Mount PROVE WireInv'
  BY <1>16 DEF Mount
<1>17. ASSUME SessionChanges PROVE WireInv'
  BY <1>17 DEF SessionChanges
<1>18. ASSUME AlertArrives PROVE WireInv'
  <2>1. UNCHANGED <<row, told>>
    BY <1>18 DEF AlertArrives
  <2>2. wire # <<>> /\ wire' = Tail(wire) /\ ToSet(heard') \subseteq ToSet(heard) \cup {Head(wire)}
        /\ counted' = counted \cup ToSet(heard')
    BY <1>18, HeardStep
  <2>3. Head(wire) \in ToSet(wire) /\ IsInjective(wire') /\ ToSet(wire') = ToSet(wire) \ {Head(wire)}
    BY <2>2, TailSet
  <2>4. QED
    BY <2>1, <2>2, <2>3
<1>19. ASSUME NEW a \in Alert, NEW i \in Try, LoseAnswer(a, i) PROVE WireInv'
  BY <1>19 DEF LoseAnswer
<1>20. QED
  BY <1>1, <1>2, <1>3, <1>4, <1>5, <1>6, <1>7, <1>8, <1>9, <1>10, <1>11, <1>12, <1>13, <1>14, <1>15, <1>16, <1>17, <1>18, <1>19 DEF AlertNext

LEMMA StreamKept == AlertInv /\ AlertNext => StreamInv'
<1> SUFFICES ASSUME AlertInv, AlertNext PROVE StreamInv'
  OBVIOUS
<1> USE AlertAssumption DEF AlertInv, AlertTypes, alertRows, alertStream, alertView, DisturbLoads, StreamInv, StreamTypes, Panel, SubscribersListen, NoConn
<1>1. ASSUME NEW a \in Alert, InsertAlert(a) PROVE StreamInv'
  BY <1>1 DEF InsertAlert
<1>2. ASSUME NEW a \in Alert, \E here \in BOOLEAN : PushAlert(a, here) PROVE StreamInv'
  BY <1>2 DEF PushAlert
<1>3. ASSUME NEW a \in Alert, OtherAdmin(a) PROVE StreamInv'
  BY <1>3 DEF OtherAdmin, Acknowledges, Resolves
<1>4. ASSUME NEW a \in Alert, NEW i \in Try, Press(a, i) PROVE StreamInv'
  BY <1>4 DEF Press
<1>5. ASSUME NEW a \in Alert, NEW i \in Try, Answer(a, i) PROVE StreamInv'
  BY <1>5 DEF Answer, Acknowledges, Resolves
<1>6. ASSUME NEW a \in Alert, NEW i \in Try, Land(a, i) PROVE StreamInv'
  BY <1>6 DEF Land
<1>7. ASSUME NEW c \in Conn, Connect(c) PROVE StreamInv'
  BY <1>7 DEF Connect
<1>8. ASSUME NEW c \in Conn, Admit(c) PROVE StreamInv'
  BY <1>8 DEF Admit
<1>9. ASSUME NEW c \in Conn, Refuse(c) PROVE StreamInv'
  BY <1>9 DEF Refuse, Reconnect
<1>10. ASSUME NEW l \in Load, AskList(l) PROVE StreamInv'
  BY <1>10 DEF AskList
<1>11. ASSUME NEW l \in Load, ReadList(l) PROVE StreamInv'
  BY <1>11 DEF ReadList
<1>12. ASSUME NEW l \in Load, ReadCounts(l) PROVE StreamInv'
  BY <1>12 DEF ReadCounts
<1>13. ASSUME NEW l \in Load, LandList(l) PROVE StreamInv'
  BY <1>13 DEF LandList
<1>14. ASSUME StreamBreaks PROVE StreamInv'
  BY <1>14 DEF StreamBreaks, Reconnect, Hangs
<1>15. ASSUME Unmount PROVE StreamInv'
  BY <1>15 DEF Unmount, Hangs
<1>16. ASSUME Mount PROVE StreamInv'
  BY <1>16 DEF Mount
<1>17. ASSUME SessionChanges PROVE StreamInv'
  BY <1>17 DEF SessionChanges
<1>18. ASSUME AlertArrives PROVE StreamInv'
  BY <1>18 DEF AlertArrives, CountNew
<1>19. ASSUME NEW a \in Alert, NEW i \in Try, LoseAnswer(a, i) PROVE StreamInv'
  BY <1>19 DEF LoseAnswer
<1>20. QED
  BY <1>1, <1>2, <1>3, <1>4, <1>5, <1>6, <1>7, <1>8, <1>9, <1>10, <1>11, <1>12, <1>13, <1>14, <1>15, <1>16, <1>17, <1>18, <1>19 DEF AlertNext

(* A load goes on undisturbed while nothing happens that it is about, and is disturbed else.   *)
LEMMA LoadsKept ==
  ASSUME AlertLoadInv, UNCHANGED <<abroad, row, told, act, load>>, wire' = wire \/ wire' = <<>>
  PROVE  AlertLoadInv'
<1>1. (\A s : Own(s)' = Own(s)) /\ Pushed' = Pushed /\ NonePressed' = NonePressed
  BY DEF Own, Pushed, NonePressed
<1>2. Settled => Settled'
  BY <1>1 DEF Settled
<1>3. QED
  BY <1>1, <1>2 DEF AlertLoadInv

LEMMA LoadsDisturbed == LoadTypes /\ DisturbLoads => AlertLoadInv'
BY DEF LoadTypes, DisturbLoads, AlertLoadInv, AlertLoading

LEMMA LoadKept == AlertInv /\ AlertNext => AlertLoadInv'
<1> SUFFICES ASSUME AlertInv, AlertNext PROVE AlertLoadInv'
  OBVIOUS
<1>0. AlertLoadInv /\ LoadTypes
  BY DEF AlertInv, AlertTypes
<1>1. ASSUME NEW a \in Alert, InsertAlert(a) PROVE AlertLoadInv'
  BY <1>0, <1>1, LoadsDisturbed DEF InsertAlert
<1>2. ASSUME NEW a \in Alert, \E here \in BOOLEAN : PushAlert(a, here) PROVE AlertLoadInv'
  BY <1>0, <1>2, LoadsDisturbed DEF PushAlert
<1>3. ASSUME NEW a \in Alert, OtherAdmin(a) PROVE AlertLoadInv'
  BY <1>0, <1>3, LoadsDisturbed DEF OtherAdmin
<1>4. ASSUME NEW a \in Alert, NEW i \in Try, Press(a, i) PROVE AlertLoadInv'
  BY <1>0, <1>4, LoadsDisturbed DEF Press
<1>5. ASSUME NEW a \in Alert, NEW i \in Try, Answer(a, i) PROVE AlertLoadInv'
  BY <1>0, <1>5, LoadsDisturbed DEF Answer
<1>6. ASSUME NEW a \in Alert, NEW i \in Try, Land(a, i) PROVE AlertLoadInv'
  BY <1>0, <1>6, LoadsDisturbed DEF Land
<1>7. ASSUME NEW c \in Conn, Connect(c) PROVE AlertLoadInv'
  BY <1>0, <1>7, LoadsKept DEF Connect, alertRows, alertStream, alertView
<1>8. ASSUME NEW c \in Conn, Admit(c) PROVE AlertLoadInv'
  BY <1>0, <1>8, LoadsKept DEF Admit, alertRows, alertStream, alertView
<1>9. ASSUME NEW c \in Conn, Refuse(c) PROVE AlertLoadInv'
  BY <1>0, <1>9, LoadsKept DEF Refuse, alertRows, alertStream, alertView
<1>10. ASSUME NEW l \in Load, AskList(l) PROVE AlertLoadInv'
  <2>1. UNCHANGED <<abroad, row, told, act, wire>>
    BY <1>10 DEF AskList, alertRows, alertStream
  <2>2. (\A s : Own(s)' = Own(s)) /\ Settled' = Settled
    BY <2>1 DEF Own, Settled, Pushed, NonePressed
  <2> DEFINE ok == (\A k \in Load : load[k].at = "idle") /\ Pushed /\ wire = <<>> /\ NonePressed
             new == [NoLoad EXCEPT !.at = "asked", !.clean = ok]
  <2>3. load' = [load EXCEPT ![l] = new]
    BY <1>10 DEF AskList
  <2>4. (new.clean => Settled) /\ new.at = "asked"
    BY DEF NoLoad, Settled
  <2> HIDE DEF new
  <2>5. \A k \in Load : load'[k] = IF k = l THEN new ELSE load[k]
    BY <1>0, <2>3 DEF LoadTypes
  <2>6. QED
    BY <1>0, <2>1, <2>2, <2>4, <2>5 DEF AlertLoadInv
<1>11. ASSUME NEW l \in Load, ReadList(l) PROVE AlertLoadInv'
  <2>1. UNCHANGED <<abroad, row, told, act, wire>> /\ load[l].at = "asked"
    BY <1>11 DEF ReadList, alertRows, alertStream
  <2>2. (\A s : Own(s)' = Own(s)) /\ Settled' = Settled
    BY <2>1 DEF Own, Settled, Pushed, NonePressed
  <2>3. PICK chosen \in SUBSET Listable : load' = [load EXCEPT ![l].at = "listed",
                            ![l].rows = [a \in Alert |-> IF a \in chosen THEN row[a] ELSE "none"],
                            ![l].whole = (chosen = Listable)]
    BY <1>11 DEF ReadList
  <2> DEFINE read == [a \in Alert |-> IF a \in chosen THEN row[a] ELSE "none"]
             all == chosen = Listable
             new == [load[l] EXCEPT !.at = "listed", !.rows = read, !.whole = all]
  <2>4. load' = [load EXCEPT ![l] = new]
    BY <2>3
  <2>5. \A a \in Alert : read[a] # "none" => a \notin abroad /\ read[a] = row[a]
    BY DEF Listable
  <2>6. ASSUME all, NEW a \in Alert \ abroad PROVE read[a] = row[a]
    BY <2>6 DEF Listable, Own
  <2> HIDE DEF read, all
  <2>7. new.rows = read /\ new.whole = all /\ new.at = "listed" /\ new.clean = load[l].clean
    BY <1>0 DEF LoadTypes, AlertLoading
  <2> HIDE DEF new
  <2>8. \A k \in Load : load'[k] = IF k = l THEN new ELSE load[k]
    BY <1>0, <2>4 DEF LoadTypes
  <2>9. ASSUME NEW k \in Load, load'[k].clean
        PROVE  /\ Settled'
               /\ load'[k].at \in {"listed", "answered"} =>
                    /\ \A a \in Alert : load'[k].rows[a] # "none" => a \notin abroad' /\ load'[k].rows[a] = row'[a]
                    /\ load'[k].whole => \A a \in Alert \ abroad' : load'[k].rows[a] = row'[a]
               /\ load'[k].at = "answered" => /\ load'[k].open = Cardinality(Own("open")')
                                              /\ load'[k].acknowledged = Cardinality(Own("acknowledged")')
    <3>1. CASE k = l
      <4>1. load'[k] = new /\ load[l].clean
        BY <2>7, <2>8, <2>9, <3>1
      <4>2. Settled'
        BY <1>0, <2>2, <4>1 DEF AlertLoadInv
      <4>3. QED
        BY <2>1, <2>5, <2>6, <2>7, <4>1, <4>2
    <3>2. CASE k # l
      <4>1. load'[k] = load[k]
        BY <2>8, <3>2
      <4>2. QED
        BY <1>0, <2>1, <2>2, <2>9, <4>1 DEF AlertLoadInv
    <3>3. QED
      BY <3>1, <3>2
  <2>10. QED
    BY <2>9 DEF AlertLoadInv
<1>12. ASSUME NEW l \in Load, ReadCounts(l) PROVE AlertLoadInv'
  <2>1. UNCHANGED <<abroad, row, told, act, wire>> /\ load[l].at = "listed"
    BY <1>12 DEF ReadCounts, alertRows, alertStream
  <2>2. (\A s : Own(s)' = Own(s)) /\ Settled' = Settled
    BY <2>1 DEF Own, Settled, Pushed, NonePressed
  <2> DEFINE o == Cardinality(Own("open"))
             c == Cardinality(Own("acknowledged"))
             new == [load[l] EXCEPT !.at = "answered", !.open = o, !.acknowledged = c]
  <2>3. load' = [load EXCEPT ![l] = new]
    BY <1>12 DEF ReadCounts
  <2>4. new.open = o /\ new.acknowledged = c /\ new.at = "answered" /\ new.clean = load[l].clean
        /\ new.rows = load[l].rows /\ new.whole = load[l].whole
    BY <1>0 DEF LoadTypes, AlertLoading
  <2>5. o' = o /\ c' = c
    BY <2>2
  <2> HIDE DEF new
  <2>6. \A k \in Load : load'[k] = IF k = l THEN new ELSE load[k]
    BY <1>0, <2>3 DEF LoadTypes
  <2>7. QED
    BY <1>0, <2>1, <2>2, <2>4, <2>5, <2>6 DEF AlertLoadInv
<1>13. ASSUME NEW l \in Load, LandList(l) PROVE AlertLoadInv'
  <2>1. load' = [k \in Load |-> IF k = l THEN NoLoad ELSE [load[k] EXCEPT !.clean = FALSE]]
    BY <1>13 DEF LandList
  <2>2. \A k \in Load : ~load'[k].clean
    BY <1>0, <2>1 DEF LoadTypes, AlertLoading, NoLoad
  <2>3. QED
    BY <2>2 DEF AlertLoadInv
<1>14. ASSUME StreamBreaks PROVE AlertLoadInv'
  BY <1>0, <1>14, LoadsKept DEF StreamBreaks, Hangs, alertRows
<1>15. ASSUME Unmount PROVE AlertLoadInv'
  <2>1. load' = [l \in Load |-> NoLoad]
    BY <1>15 DEF Unmount
  <2>2. QED
    BY <2>1 DEF AlertLoadInv, NoLoad
<1>16. ASSUME Mount PROVE AlertLoadInv'
  BY <1>0, <1>16, LoadsKept DEF Mount, alertRows
<1>17. ASSUME SessionChanges PROVE AlertLoadInv'
  BY <1>0, <1>17, LoadsKept DEF SessionChanges, alertRows
<1>18. ASSUME AlertArrives PROVE AlertLoadInv'
  BY <1>0, <1>18, LoadsDisturbed DEF AlertArrives
<1>19. ASSUME NEW a \in Alert, NEW i \in Try, LoseAnswer(a, i) PROVE AlertLoadInv'
  BY <1>0, <1>19, LoadsDisturbed DEF LoseAnswer
<1>20. QED
  BY <1>1, <1>2, <1>3, <1>4, <1>5, <1>6, <1>7, <1>8, <1>9, <1>10, <1>11, <1>12, <1>13, <1>14, <1>15, <1>16, <1>17, <1>18,
     <1>19 DEF AlertNext

(* What changes nothing that the undrifted page is about keeps it so.                         *)
LEMMA UndriftedKept ==
  UNCHANGED <<abroad, row, told, wire, shown, whole, counts, act, drift>> /\ AlertListInv => AlertListInv'
<1> SUFFICES ASSUME UNCHANGED <<abroad, row, told, wire, shown, whole, counts, act, drift>>, AlertListInv, ~drift
             PROVE  Undrifted'
  BY DEF AlertListInv
<1>1. Arrived' = Arrived /\ \A a, i : Committed(a, i)' = Committed(a, i)
  BY DEF Arrived, Committed
<1>2. \A a : Tally(a)' = Tally(a)
  BY <1>1 DEF Tally, Owing
<1>3. \A s : Tallied(s)' = Tallied(s)
  BY <1>2 DEF Tallied
<1>4. Undrifted
  BY DEF AlertListInv
<1>5. QED
  BY <1>1, <1>2, <1>3, <1>4 DEF Undrifted, OnlyOwnWired, PressesArrived, OneCommits, NewAreOpen, CountsTally, WholeTallies

(* The same of a press that does nothing, begins or fails.                                    *)
LEMMA UncommittedKept ==
  ASSUME AlertInv, NEW a \in Alert, NEW i \in Try, NEW s \in Pressed,
         act' = [act EXCEPT ![a][i] = s], UNCHANGED <<abroad, row, told, wire, shown, whole, counts, drift>>,
         ~Committed(a, i), s \notin {"acknowledged", "resolved"}, drift \/ a \in Arrived
  PROVE  AlertListInv'
<1> SUFFICES ASSUME ~drift PROVE Undrifted'
  BY DEF AlertListInv
<1>1. \A b \in Alert, k \in Try : act'[b][k] = IF b = a /\ k = i THEN s ELSE act[b][k]
  BY OnePress DEF AlertInv, AlertTypes, ActTypes
<1>2. Arrived' = Arrived /\ \A b \in Alert, k \in Try : Committed(b, k)' = Committed(b, k)
  <2>1. Arrived' = Arrived
    BY DEF Arrived
  <2>2. \A b \in Alert, k \in Try : Committed(b, k)' = Committed(b, k)
    BY <1>1 DEF Committed
  <2>3. QED
    BY <2>1, <2>2
<1>3. \A b \in Alert : Tally(b)' = Tally(b)
  BY <1>2 DEF Tally, Owing
<1>4. \A x : Tallied(x)' = Tallied(x)
  BY <1>3 DEF Tallied
<1>5. Undrifted
  BY DEF AlertInv, AlertListInv
<1>6. PressesArrived'
  BY <1>1, <1>2, <1>5 DEF Undrifted, PressesArrived
<1>7. OneCommits'
  BY <1>1, <1>2, <1>5 DEF Undrifted, OneCommits, Committed
<1>8. CountsTally' /\ WholeTallies'
  <2>1. CountsTally'
    BY <1>4, <1>5 DEF Undrifted, CountsTally
  <2>2. WholeTallies'
    BY <1>2, <1>3, <1>5 DEF Undrifted, WholeTallies, Arrived, AlertInv, AlertTypes, RowTypes
  <2>3. QED
    BY <2>1, <2>2
<1>9. OnlyOwnWired' /\ NewAreOpen'
  BY <1>2, <1>5 DEF Undrifted, OnlyOwnWired, NewAreOpen
<1>10. QED
  BY <1>6, <1>7, <1>8, <1>9 DEF Undrifted

LEMMA ListKept == AlertInv /\ AlertNext => AlertListInv'
<1> SUFFICES ASSUME AlertInv, AlertNext PROVE AlertListInv'
  OBVIOUS
<1>0. AlertListInv /\ (~drift => Undrifted)
  BY DEF AlertInv, AlertListInv
<1>1. ASSUME NEW a \in Alert, InsertAlert(a) PROVE AlertListInv'
  <2>1. UNCHANGED <<abroad, told, wire, shown, whole, counts, act, drift>> /\ row[a] = "none"
        /\ row' = [row EXCEPT ![a] = "open"]
    BY <1>1 DEF InsertAlert, alertStream, alertView
  <2>2. SUFFICES ASSUME ~drift PROVE Undrifted'
    BY <2>1 DEF AlertListInv
  <2>3. Arrived' = Arrived /\ a \notin Arrived /\ \A b, i : Committed(b, i)' = Committed(b, i)
    BY <2>1 DEF Arrived, Committed, AlertInv, WireInv
  <2>4. \A b \in Alert : Tally(b)' = Tally(b)
    <3>1. \A b \in Arrived : row'[b] = row[b]
      BY <2>1, <2>3 DEF AlertInv, AlertTypes, RowTypes, Arrived
    <3>2. QED
      BY <2>1, <2>3, <3>1 DEF Tally, Owing
  <2>5. \A s : Tallied(s)' = Tallied(s)
    BY <2>4 DEF Tallied
  <2>6. OneCommits'
    <3>1. \A b \in Alert, i \in Try : Committed(b, i) => b # a
      BY <1>0, <2>2, <2>3 DEF Undrifted, PressesArrived, Committed
    <3>2. QED
      BY <1>0, <2>1, <2>2, <2>3, <3>1 DEF Undrifted, OneCommits, AlertInv, AlertTypes, RowTypes
  <2>7. NewAreOpen'
    BY <1>0, <2>1, <2>2, <2>3 DEF Undrifted, NewAreOpen, AlertInv, AlertTypes, RowTypes
  <2>8. CountsTally' /\ WholeTallies'
    <3>1. CountsTally'
      BY <1>0, <2>1, <2>2, <2>5 DEF Undrifted, CountsTally
    <3>2. WholeTallies'
      BY <1>0, <2>1, <2>2, <2>3, <2>4 DEF Undrifted, WholeTallies, Arrived, AlertInv, AlertTypes, RowTypes
    <3>3. QED
      BY <3>1, <3>2
  <2>9. OnlyOwnWired' /\ PressesArrived'
    BY <1>0, <2>1, <2>2, <2>3 DEF Undrifted, OnlyOwnWired, PressesArrived
  <2>10. QED
    BY <2>6, <2>7, <2>8, <2>9 DEF Undrifted
<1>2. ASSUME NEW a \in Alert, \E here \in BOOLEAN : PushAlert(a, here) PROVE AlertListInv'
  <2>0. PICK here \in BOOLEAN : PushAlert(a, here)
    BY <1>2
  <2> DEFINE reaches == here /\ panel.conn \in subs
  <2>1. a \notin told /\ row[a] # "none" /\ told' = told \cup {a} /\ UNCHANGED <<abroad, row, shown, whole, counts, act>>
        /\ wire' = (IF reaches THEN Append(wire, a) ELSE wire) /\ drift' = (drift \/ (reaches <=> a \in abroad))
    BY <2>0 DEF PushAlert, alertView
  <2> HIDE DEF reaches
  <2>2. SUFFICES ASSUME ~drift' PROVE Undrifted'
    BY DEF AlertListInv
  <2>3. ~drift /\ (reaches <=> a \notin abroad)
    BY <2>1, <2>2
  <2>4. ToSet(Append(wire, a)) = ToSet(wire) \cup {a} /\ a \notin ToSet(wire)
    BY <2>1, AppendSet DEF AlertInv, AlertTypes, WireTypes, WireInv
  <2>5. OnlyOwnWired' /\ Arrived \ abroad = Arrived' \ abroad /\ Arrived \subseteq Arrived'
    <3>0. Undrifted
      BY <1>0, <2>3
    <3>1. CASE a \in abroad
      <4>1. wire' = wire
        BY <2>1, <2>3, <3>1
      <4>2. QED
        BY <2>1, <2>4, <3>0, <3>1, <4>1 DEF Undrifted, OnlyOwnWired, Arrived
    <3>2. CASE a \notin abroad
      <4>1. ToSet(wire') = ToSet(wire) \cup {a}
        BY <2>1, <2>3, <2>4, <3>2
      <4>2. QED
        BY <2>1, <2>4, <3>0, <3>2, <4>1 DEF Undrifted, OnlyOwnWired, Arrived
    <3>3. QED
      BY <3>1, <3>2
  <2>6. \A b, i : Committed(b, i)' = Committed(b, i)
    BY <2>1 DEF Committed
  <2>7. \A b \in Alert : Tally(b)' = Tally(b)
    BY <2>1, <2>5, <2>6 DEF Tally, Owing
  <2>8. \A s : Tallied(s)' = Tallied(s)
    BY <2>7 DEF Tallied
  <2>9. NewAreOpen' /\ WholeTallies'
    <3>1. Alert \ (Arrived \cup abroad) = Alert \ (Arrived' \cup abroad)
      BY <2>5
    <3>2. QED
      BY <1>0, <2>1, <2>3, <2>5, <2>7, <3>1 DEF Undrifted, NewAreOpen, WholeTallies, Arrived, AlertInv, AlertTypes, RowTypes
  <2>10. QED
    BY <1>0, <2>1, <2>3, <2>5, <2>6, <2>8, <2>9 DEF Undrifted, PressesArrived, OneCommits, CountsTally
<1>3. ASSUME NEW a \in Alert, OtherAdmin(a) PROVE AlertListInv'
  BY <1>3 DEF OtherAdmin, AlertListInv
<1>4. ASSUME NEW a \in Alert, NEW i \in Try, Press(a, i) PROVE AlertListInv'
  <2>1. UNCHANGED <<abroad, row, told, wire, shown, whole, counts, drift>> /\ act[a][i] = "idle" /\ shown[a] = "open"
    BY <1>4 DEF Press, alertRows, alertStream, alertView
  <2>2. PICK s \in {"acknowledge", "resolve"} : act' = [act EXCEPT ![a][i] = s]
    BY <1>4 DEF Press
  <2>3. drift \/ a \in Arrived
    BY <1>0, <2>1 DEF Undrifted, PressesArrived
  <2>4. s \in Pressed /\ ~Committed(a, i) /\ s \notin {"acknowledged", "resolved"}
    BY <2>1 DEF Pressed, Committed
  <2>5. QED
    BY <2>1, <2>2, <2>3, <2>4, UncommittedKept
<1>5. ASSUME NEW a \in Alert, NEW i \in Try, Answer(a, i) PROVE AlertListInv'
  <2>1. UNCHANGED <<abroad, told, wire, shown, whole, counts>> /\ act[a][i] \in {"acknowledge", "resolve"}
    <3>1. UNCHANGED <<abroad, told, wire, shown, whole, counts>>
      BY <1>5 DEF Answer, alertStream, alertView
    <3>2. act[a][i] \in {"acknowledge", "resolve"}
      BY <1>5 DEF Answer
    <3>3. QED
      BY <3>1, <3>2
  <2>2. drift \/ a \in Arrived
    BY <1>0, <2>1 DEF Undrifted, PressesArrived
  <2>3. CASE act' = [act EXCEPT ![a][i] = "refused"] /\ UNCHANGED <<row, drift>>
    <3>1. "refused" \in Pressed /\ ~Committed(a, i)
      BY <2>1 DEF Pressed, Committed
    <3>2. QED
      BY <2>1, <2>2, <2>3, <3>1, UncommittedKept
  <2>4. ASSUME NEW s \in {"acknowledged", "resolved"}, act' = [act EXCEPT ![a][i] = s], a \notin abroad, row[a] # "none",
               row' = [row EXCEPT ![a] = s], drift' \/ row[a] = "open", drift => drift'
        PROVE  AlertListInv'
    <3>1. SUFFICES ASSUME ~drift' PROVE Undrifted'
      BY DEF AlertListInv
    <3>2. ~drift /\ Undrifted /\ row[a] = "open" /\ a \in Arrived
      BY <1>0, <2>2, <2>4, <3>1
    <3>3. /\ \A b \in Alert, k \in Try : act'[b][k] = IF b = a /\ k = i THEN s ELSE act[b][k]
          /\ \A b \in Alert : row'[b] = IF b = a THEN s ELSE row[b]
      <4>1. s \in Pressed
        BY DEF Pressed
      <4>2. \A b \in Alert, k \in Try : act'[b][k] = IF b = a /\ k = i THEN s ELSE act[b][k]
        BY <2>4, <4>1, OnePress DEF AlertInv, AlertTypes, ActTypes
      <4>3. \A b \in Alert : row'[b] = IF b = a THEN s ELSE row[b]
        BY <2>4 DEF AlertInv, AlertTypes, RowTypes
      <4>4. QED
        BY <4>2, <4>3
    <3>4. Arrived' = Arrived
      BY <2>1 DEF Arrived
    <3>5. \A k \in Try : ~Committed(a, k)
      BY <3>2 DEF Undrifted, OneCommits, Committed
    <3>6. \A b \in Alert, k \in Try : Committed(b, k)' = (Committed(b, k) \/ (b = a /\ k = i))
      BY <3>3, <3>5 DEF Committed
    <3>7. \A b \in Alert : Tally(b)' = Tally(b)
      <4>1. Tally(a) = "open" /\ Tally(a)' = "open"
        BY <2>1, <2>4, <3>2, <3>4, <3>5, <3>6 DEF Tally, Owing
      <4>2. \A b \in Alert \ {a} : Tally(b)' = Tally(b)
        BY <2>1, <3>3, <3>4, <3>6 DEF Tally, Owing
      <4>3. QED
        BY <4>1, <4>2
    <3>8. \A x : Tallied(x)' = Tallied(x)
      BY <3>7 DEF Tallied
    <3>9. OneCommits'
      <4>1. ASSUME NEW b \in Alert, NEW k \in Try, Committed(b, k)'
            PROVE  b \notin abroad' /\ row'[b] = act'[b][k] /\ \A m \in Try : Committed(b, m)' => m = k
        <5>1. CASE b = a
          BY <2>1, <2>4, <3>3, <3>5, <3>6, <4>1, <5>1
        <5>2. CASE b # a
          <6>1. Committed(b, k) /\ act'[b][k] = act[b][k] /\ row'[b] = row[b] /\ abroad' = abroad
            BY <2>1, <3>3, <3>6, <4>1, <5>2
          <6>2. \A m \in Try : Committed(b, m)' => Committed(b, m)
            BY <3>6, <5>2
          <6>3. QED
            BY <3>2, <6>1, <6>2 DEF Undrifted, OneCommits
        <5>3. QED
          BY <5>1, <5>2
      <4>2. QED
        BY <4>1 DEF OneCommits
    <3>10. PressesArrived' /\ NewAreOpen'
      BY <2>1, <3>2, <3>3, <3>4 DEF Undrifted, PressesArrived, NewAreOpen
    <3>11. CountsTally' /\ WholeTallies'
      <4>1. CountsTally'
        BY <2>1, <3>2, <3>8 DEF Undrifted, CountsTally
      <4>2. WholeTallies'
        BY <2>1, <3>2, <3>4, <3>7 DEF Undrifted, WholeTallies, Arrived, AlertInv, AlertTypes, RowTypes
      <4>3. QED
        BY <4>1, <4>2
    <3>12. QED
      BY <2>1, <3>2, <3>9, <3>10, <3>11 DEF Undrifted, OnlyOwnWired
  <2>5. CASE act[a][i] = "acknowledge" /\ Acknowledges(a) /\ act' = [act EXCEPT ![a][i] = "acknowledged"] /\ UNCHANGED drift
    BY <2>4, <2>5 DEF Acknowledges
  <2>6. CASE act[a][i] = "resolve" /\ Resolves(a) /\ act' = [act EXCEPT ![a][i] = "resolved"]
             /\ drift' = (drift \/ row[a] = "acknowledged")
    BY <2>4, <2>6 DEF Resolves
  <2>7. QED
    BY <1>5, <2>3, <2>5, <2>6 DEF Answer
<1>6. ASSUME NEW a \in Alert, NEW i \in Try, Land(a, i) PROVE AlertListInv'
  <2>1. UNCHANGED <<abroad, row, told, wire, whole, drift>> /\ act' = [act EXCEPT ![a][i] = "idle"]
        /\ act[a][i] \in {"acknowledged", "resolved", "refused"}
    BY <1>6 DEF Land, alertRows, alertStream
  <2>2. CASE act[a][i] = "refused"
    <3>1. UNCHANGED <<shown, counts>>
      BY <1>6, <2>2 DEF Land
    <3>2. "idle" \in Pressed /\ ~Committed(a, i) /\ (drift \/ a \in Arrived)
      BY <1>0, <2>2 DEF Pressed, Committed, Undrifted, PressesArrived
    <3>3. QED
      BY <2>1, <3>1, <3>2, UncommittedKept
  <2>3. CASE act[a][i] # "refused" /\ ~drift
    <3> DEFINE s == act[a][i]
    <3>1. s \in {"acknowledged", "resolved"} /\ Committed(a, i)
      BY <2>1, <2>3 DEF Committed
    <3>2. a \in Arrived \ abroad /\ row[a] = s /\ \A k \in Try : Committed(a, k) => k = i
      BY <1>0, <2>3, <3>1 DEF Undrifted, OneCommits, PressesArrived
    <3>3. shown' = [shown EXCEPT ![a] = IF @ = "none" THEN @ ELSE s]
          /\ counts' = [counts EXCEPT !.open = @ - 1, !.acknowledged = IF s = "acknowledged" THEN @ + 1 ELSE @]
      BY <1>6, <2>3 DEF Land
    <3> HIDE DEF s
    <3>4. counts'.open = counts.open - 1
          /\ counts'.acknowledged = IF s = "acknowledged" THEN counts.acknowledged + 1 ELSE counts.acknowledged
      BY <3>3 DEF AlertInv, AlertTypes, ViewTypes
    <3>5. /\ \A b \in Alert, k \in Try : act'[b][k] = IF b = a /\ k = i THEN "idle" ELSE act[b][k]
          /\ \A b \in Alert : shown'[b] = IF b = a /\ shown[a] # "none" THEN s ELSE shown[b]
      <4>1. "idle" \in Pressed
        BY DEF Pressed
      <4>2. \A b \in Alert, k \in Try : act'[b][k] = IF b = a /\ k = i THEN "idle" ELSE act[b][k]
        BY <2>1, <4>1, OnePress DEF AlertInv, AlertTypes, ActTypes
      <4>3. \A b \in Alert : shown'[b] = IF b = a /\ shown[a] # "none" THEN s ELSE shown[b]
        BY <3>3 DEF AlertInv, AlertTypes, ViewTypes
      <4>4. QED
        BY <4>2, <4>3
    <3>6. Arrived' = Arrived
      BY <2>1 DEF Arrived
    <3>7. \A b \in Alert, k \in Try : Committed(b, k)' = (Committed(b, k) /\ ~(b = a /\ k = i))
      BY <3>5 DEF Committed
    <3>8. Tally(a) = "open" /\ Tally(a)' = s /\ \A b \in Alert \ {a} : Tally(b)' = Tally(b)
      <4>1. Tally(a) = "open" /\ Tally(a)' = s
        BY <2>1, <3>1, <3>2, <3>6, <3>7 DEF Tally, Owing
      <4>2. \A b \in Alert \ {a} : Tally(b)' = Tally(b)
        BY <2>1, <3>6, <3>7 DEF Tally, Owing
      <4>3. QED
        BY <4>1, <4>2
    <3>9. Tallied("open")' = Tallied("open") \ {a} /\ a \in Tallied("open") /\ a \notin Tallied("acknowledged")
          /\ Tallied("acknowledged")' = IF s = "acknowledged" THEN Tallied("acknowledged") \cup {a} ELSE Tallied("acknowledged")
      <4>1. s = "acknowledged" \/ s = "resolved"
        BY <3>1 DEF s
      <4>2. QED
        BY <3>8, <4>1 DEF Tallied
    <3>10. /\ Cardinality(Tallied("open") \ {a}) = Cardinality(Tallied("open")) - 1
           /\ Cardinality(Tallied("acknowledged") \cup {a}) = Cardinality(Tallied("acknowledged")) + 1
      <4>1. IsFiniteSet(Tallied("open")) /\ IsFiniteSet(Tallied("acknowledged"))
        BY TalliedFinite
      <4>2. QED
        BY <3>9, <4>1, FS_AddElement, FS_RemoveElement
    <3>11. counts.open = Cardinality(Tallied("open")) /\ counts.acknowledged = Cardinality(Tallied("acknowledged"))
      BY <1>0, <2>3 DEF Undrifted, CountsTally
    <3>12. CountsTally'
      BY <3>4, <3>9, <3>10, <3>11 DEF CountsTally
    <3>13. WholeTallies'
      <4>1. ASSUME whole PROVE \A b \in Arrived \ abroad : shown'[b] = Tally(b)'
        <5>1. \A b \in Arrived \ abroad : b \in Alert /\ shown[b] = Tally(b)
          BY <1>0, <2>3, <4>1 DEF Undrifted, WholeTallies, Arrived, AlertInv, AlertTypes, RowTypes
        <5>2. shown[a] = "open"
          BY <3>2, <3>8, <5>1
        <5>3. QED
          BY <3>5, <3>8, <5>1, <5>2
      <4>2. QED
        BY <2>1, <3>6, <4>1 DEF WholeTallies
    <3>14. OneCommits' /\ PressesArrived'
      <4>1. OneCommits'
        <5>1. ASSUME NEW b \in Alert, NEW k \in Try, Committed(b, k)'
              PROVE  b \notin abroad' /\ row'[b] = act'[b][k] /\ \A m \in Try : Committed(b, m)' => m = k
          <6>1. Committed(b, k) /\ act'[b][k] = act[b][k] /\ \A m \in Try : Committed(b, m)' => Committed(b, m)
            BY <3>5, <3>7, <5>1
          <6>2. QED
            BY <1>0, <2>1, <2>3, <6>1 DEF Undrifted, OneCommits
        <5>2. QED
          BY <5>1 DEF OneCommits
      <4>2. PressesArrived'
        BY <1>0, <2>3, <3>2, <3>5, <3>6 DEF Undrifted, PressesArrived
      <4>3. QED
        BY <4>1, <4>2
    <3>15. OnlyOwnWired' /\ NewAreOpen'
      BY <1>0, <2>1, <2>3, <3>6 DEF Undrifted, OnlyOwnWired, NewAreOpen
    <3>16. Undrifted'
      BY <3>12, <3>13, <3>14, <3>15 DEF Undrifted
    <3>17. QED
      BY <3>16 DEF AlertListInv
  <2>4. QED
    BY <2>1, <2>2, <2>3 DEF AlertListInv
<1>7. ASSUME NEW c \in Conn, Connect(c) PROVE AlertListInv'
  BY <1>0, <1>7, UndriftedKept DEF Connect, alertRows, alertView
<1>8. ASSUME NEW c \in Conn, Admit(c) PROVE AlertListInv'
  BY <1>8 DEF Admit, AlertListInv
<1>9. ASSUME NEW c \in Conn, Refuse(c) PROVE AlertListInv'
  BY <1>0, <1>9, UndriftedKept DEF Refuse, alertRows, alertView
<1>10. ASSUME NEW l \in Load, AskList(l) PROVE AlertListInv'
  BY <1>0, <1>10, UndriftedKept DEF AskList, alertRows, alertStream, alertView
<1>11. ASSUME NEW l \in Load, ReadList(l) PROVE AlertListInv'
  BY <1>0, <1>11, UndriftedKept DEF ReadList, alertRows, alertStream, alertView
<1>12. ASSUME NEW l \in Load, ReadCounts(l) PROVE AlertListInv'
  BY <1>0, <1>12, UndriftedKept DEF ReadCounts, alertRows, alertStream, alertView
<1>13. ASSUME NEW l \in Load, LandList(l) PROVE AlertListInv'
  <2>1. UNCHANGED <<abroad, row, told, wire, act>>
    BY <1>13 DEF LandList, alertRows, alertStream
  <2>2. CASE UNCHANGED <<shown, whole, counts, drift>>
    BY <1>0, <2>1, <2>2, UndriftedKept
  <2>3. CASE load[l].at = "answered" /\ load[l].clean /\ shown' = load[l].rows /\ whole' = load[l].whole
             /\ counts' = [open |-> load[l].open, acknowledged |-> load[l].acknowledged]
    <3>1. /\ Settled /\ counts'.open = Cardinality(Own("open")) /\ counts'.acknowledged = Cardinality(Own("acknowledged"))
          /\ \A a \in Alert : shown'[a] # "none" => a \notin abroad /\ shown'[a] = row[a]
          /\ whole' => \A a \in Alert \ abroad : shown'[a] = row[a]
      BY <2>3 DEF AlertInv, AlertLoadInv
    <3>2. ToSet(wire) = {} /\ Arrived = told /\ Arrived' = Arrived /\ told \subseteq Alert
      BY <2>1, <3>1 DEF Settled, Arrived, ToSet, AlertInv, AlertTypes, RowTypes
    <3>3. \A a \in Alert, i \in Try : act[a][i] = "idle" /\ ~Committed(a, i)' /\ act'[a][i] = "idle"
      BY <2>1, <3>1 DEF Settled, NonePressed, Committed
    <3>4. \A a \in Alert : row[a] # "none" <=> a \in told
      BY <3>1 DEF Settled, Pushed, AlertInv, WireInv
    <3>5. \A a \in Alert : Tally(a)' = IF a \in abroad THEN "none" ELSE row[a]
      BY <2>1, <3>2, <3>3, <3>4 DEF Tally, Owing
    <3>6. Tallied("open")' = Own("open") /\ Tallied("acknowledged")' = Own("acknowledged")
      BY <3>5 DEF Tallied, Own
    <3>7. OnlyOwnWired' /\ NewAreOpen'
      BY <2>1, <3>2, <3>4 DEF OnlyOwnWired, NewAreOpen
    <3>8. PressesArrived' /\ OneCommits'
      BY <2>1, <3>1, <3>2, <3>3, <3>4 DEF PressesArrived, OneCommits
    <3>9. CountsTally' /\ WholeTallies'
      BY <2>1, <3>1, <3>2, <3>5, <3>6 DEF CountsTally, WholeTallies
    <3>10. QED
      BY <3>7, <3>8, <3>9 DEF AlertListInv, Undrifted
  <2>4. CASE load[l].at = "answered" /\ ~load[l].clean /\ drift' = ~load[l].clean
    BY <2>4 DEF AlertListInv
  <2>5. QED
    BY <1>13, <2>2, <2>3, <2>4 DEF LandList
<1>14. ASSUME StreamBreaks PROVE AlertListInv'
  BY <1>14 DEF StreamBreaks, AlertListInv
<1>15. ASSUME Unmount PROVE AlertListInv'
  BY <1>15 DEF Unmount, AlertListInv
<1>16. ASSUME Mount PROVE AlertListInv'
  BY <1>0, <1>16, UndriftedKept DEF Mount, alertRows, alertView
<1>17. ASSUME SessionChanges PROVE AlertListInv'
  BY <1>0, <1>17, UndriftedKept DEF SessionChanges, alertRows, alertView
<1>18. ASSUME AlertArrives PROVE AlertListInv'
  <2>0. PICK h \in Alert : h = Head(wire)
    BY <1>18, HeardStep DEF AlertInv, AlertTypes
  <2>1. UNCHANGED <<abroad, told, row, act, drift, whole>>
        /\ shown' = [a \in Alert |-> IF shown[a] = "none" /\ a \in ToSet(heard') THEN "open" ELSE shown[a]]
    BY <1>18 DEF AlertArrives, alertRows
  <2>2. /\ wire # <<>> /\ wire' = Tail(wire) /\ h \in Alert
        /\ h \in ToSet(heard') /\ ToSet(heard') \subseteq ToSet(heard) \cup {h}
        /\ counts' = [counts EXCEPT !.open = @ + Cardinality(ToSet(heard') \ counted)]
    BY <1>18, <2>0, HeardStep DEF AlertInv, AlertTypes
  <2>3. h \in ToSet(wire) /\ ToSet(wire') = ToSet(wire) \ {h} /\ h \in told \ counted
    BY <2>0, <2>2, TailSet DEF AlertInv, AlertTypes, WireInv, WireTypes
  <2>4. ToSet(heard') \ counted = {h} /\ Arrived' = Arrived \cup {h} /\ h \notin Arrived
    BY <2>1, <2>2, <2>3 DEF AlertInv, WireInv, Arrived
  <2>5. counts'.open = counts.open + 1 /\ counts'.acknowledged = counts.acknowledged
    <3>1. Cardinality({h}) = 1
      BY FS_Singleton
    <3>2. QED
      BY <2>2, <2>4, <3>1 DEF AlertInv, AlertTypes, ViewTypes
  <2>6. ASSUME ~drift PROVE Undrifted'
    <3>0. Undrifted
      BY <1>0, <2>6
    <3>1. /\ h \notin abroad /\ shown[h] = "none" /\ row[h] = "open" /\ \A i \in Try : act[h][i] = "idle"
      BY <2>2, <2>3, <2>4, <3>0 DEF AlertInv, WireInv, Undrifted, OnlyOwnWired, PressesArrived, NewAreOpen
    <3>2. Arrived \subseteq Alert /\ \A b \in Arrived : row[b] # "none"
      BY DEF AlertInv, AlertTypes, RowTypes, WireInv, Arrived
    <3>3. \A b, i : Committed(b, i)' = Committed(b, i)
      BY <2>1 DEF Committed
    <3>4. Tally(h) = "none" /\ Tally(h)' = "open" /\ \A b \in Alert \ {h} : Tally(b)' = Tally(b)
      <4>1. \A i \in Try : ~Committed(h, i)
        BY <3>1 DEF Committed
      <4>3. Tally(h) = "none" /\ Tally(h)' = "open"
        BY <2>1, <2>4, <3>1, <3>3, <4>1 DEF Tally, Owing
      <4>2. \A b \in Alert \ {h} : Tally(b)' = Tally(b)
        BY <2>1, <2>4, <3>3 DEF Tally, Owing
      <4>4. QED
        BY <4>2, <4>3
    <3>5. Tallied("open")' = Tallied("open") \cup {h} /\ h \notin Tallied("open")
          /\ Tallied("acknowledged")' = Tallied("acknowledged")
      BY <2>2, <3>4 DEF Tallied
    <3>6. Cardinality(Tallied("open") \cup {h}) = Cardinality(Tallied("open")) + 1
      <4>1. IsFiniteSet(Tallied("open"))
        BY TalliedFinite
      <4>2. QED
        BY <3>5, <4>1, FS_AddElement
    <3>7. CountsTally'
      BY <2>5, <3>0, <3>5, <3>6 DEF Undrifted, CountsTally
    <3>8. ToSet(heard') \subseteq Arrived'
      BY <2>1, <2>2, <2>3, <2>4 DEF AlertInv, WireInv, Arrived
    <3>9. PressesArrived'
      <4>1. \A b \in Alert : shown'[b] # "none" => shown[b] # "none" \/ b \in ToSet(heard')
        BY <2>1
      <4>2. QED
        BY <2>1, <2>4, <3>0, <3>8, <4>1 DEF Undrifted, PressesArrived
    <3>10. WholeTallies'
      <4>1. ASSUME whole, NEW b \in Arrived \ abroad PROVE shown'[b] = Tally(b)'
        <5>1. b \in Alert /\ b # h /\ shown[b] = Tally(b)
          BY <2>4, <3>0, <3>2, <4>1 DEF Undrifted, WholeTallies
        <5>2. Tally(b) # "none"
          BY <3>2 DEF Tally
        <5>3. QED
          BY <2>1, <3>4, <5>1, <5>2
      <4>2. shown'[h] = "open"
        BY <2>1, <2>2, <3>1
      <4>3. ASSUME whole, NEW b \in Arrived' \ abroad' PROVE shown'[b] = Tally(b)'
        <5>1. b = h \/ b \in Arrived \ abroad
          BY <2>1, <2>4
        <5>2. QED
          BY <3>4, <4>1, <4>2, <4>3, <5>1
      <4>4. QED
        BY <2>1, <4>3 DEF WholeTallies
    <3>11. OnlyOwnWired' /\ NewAreOpen' /\ OneCommits'
      <4>1. OnlyOwnWired' /\ NewAreOpen'
        BY <2>1, <2>3, <2>4, <3>0 DEF Undrifted, OnlyOwnWired, NewAreOpen
      <4>2. OneCommits'
        BY <2>1, <3>0, <3>3 DEF Undrifted, OneCommits
      <4>3. QED
        BY <4>1, <4>2
    <3>12. QED
      BY <3>7, <3>9, <3>10, <3>11 DEF Undrifted
  <2>7. QED
    BY <2>1, <2>6 DEF AlertListInv
<1>19. ASSUME NEW a \in Alert, NEW i \in Try, LoseAnswer(a, i) PROVE AlertListInv'
  <2>1. UNCHANGED <<abroad, row, told, wire, shown, whole, counts>> /\ act' = [act EXCEPT ![a][i] = "refused"]
        /\ drift' = (drift \/ act[a][i] \in {"acknowledged", "resolved"})
        /\ act[a][i] \in {"acknowledge", "resolve", "acknowledged", "resolved"}
    BY <1>19 DEF LoseAnswer, alertRows, alertStream, alertView
  <2>2. CASE drift'
    BY <2>2 DEF AlertListInv
  <2>3. CASE ~drift'
    <3>1. UNCHANGED drift /\ ~Committed(a, i) /\ "refused" \in Pressed /\ (drift \/ a \in Arrived)
      BY <1>0, <2>1, <2>3 DEF Committed, Pressed, Undrifted, PressesArrived, AlertInv, AlertTypes, ActTypes
    <3>2. QED
      BY <2>1, <3>1, UncommittedKept
  <2>4. QED
    BY <2>2, <2>3
<1>20. QED
  BY <1>1, <1>2, <1>3, <1>4, <1>5, <1>6, <1>7, <1>8, <1>9, <1>10, <1>11, <1>12, <1>13, <1>14, <1>15, <1>16, <1>17, <1>18,
     <1>19 DEF AlertNext

(* The inductive invariant of the alert page: it holds at the start, *)
LEMMA AlertsStart == AlertInit => AlertInv
<1> SUFFICES ASSUME AlertInit PROVE AlertInv
  OBVIOUS
<1> USE DEF AlertInit
<1>1. (CHOOSE c \in Conn : TRUE) \in Conn
  BY AlertAssumption
<1>2. RowTypes /\ ActTypes
  BY DEF RowTypes, ActTypes, Status, Pressed
<1>3. StreamTypes
  <2> DEFINE first == CHOOSE c \in Conn : TRUE
  <2>1. first \in Conn
    BY <1>1
  <2>0. 0 \in 0..MaxRetries /\ NoConn \in Conn \cup {NoConn}
    BY AlertAssumption
  <2> HIDE DEF first
  <2>2. CASE Streams
    <3>1. conn = [c \in Conn |-> IF c \in {} THEN "open" ELSE "idle"] /\ subs = {} /\ orphan = {}
      BY <2>2 DEF first
    <3>2. panel = [mounted |-> TRUE, conn |-> NoConn, retries |-> 0, timer |-> TRUE]
      BY <2>2
    <3> HIDE DEF AlertInit
    <3>3. panel \in Panel
      BY <2>0, <3>2 DEF Panel
    <3>4. conn \in [Conn -> {"idle", "asked", "open", "closed"}]
      BY <3>1
    <3>5. session \in [token : BOOLEAN, admin : BOOLEAN]
      BY DEF AlertInit
    <3>6. QED
      BY <3>1, <3>3, <3>4, <3>5 DEF StreamTypes
  <2>3. CASE ~Streams
    <3>0. {first} = IF Streams THEN {} ELSE {first}
      BY <2>3
    <3>1. conn = [c \in Conn |-> IF c \in {first} THEN "open" ELSE "idle"] /\ subs = {first} /\ orphan = {}
      BY <2>3, <3>0 DEF first
    <3>2. panel = [mounted |-> TRUE, conn |-> first, retries |-> 0, timer |-> FALSE]
      <4>1. panel = [mounted |-> TRUE, conn |-> IF Streams THEN NoConn ELSE first, retries |-> 0, timer |-> Streams]
        BY DEF first
      <4>2. Streams = FALSE
        BY <2>3 DEF Streams
      <4>3. QED
        BY <4>1, <4>2
    <3>7. first \in Conn \cup {NoConn}
      BY <2>1
    <3> HIDE DEF AlertInit
    <3>3. panel \in Panel
      BY <2>0, <3>7, <3>2 DEF Panel
    <3>4. conn \in [Conn -> {"idle", "asked", "open", "closed"}]
      BY <3>1
    <3>5. session \in [token : BOOLEAN, admin : BOOLEAN]
      BY DEF AlertInit
    <3>6. QED
      BY <2>1, <3>1, <3>3, <3>4, <3>5 DEF StreamTypes
  <2>4. QED
    BY <2>2, <2>3
<1>4. WireTypes /\ ViewTypes /\ LoadTypes
  <2>1. wire \in Seq(Alert) /\ heard \in Seq(Alert)
    BY EmptySeq
  <2>2. Len(heard) <= HeardCap
    <3>1. heard = <<>>
      OBVIOUS
    <3>2. QED
      BY <3>1, EmptySeq, AlertAssumption
  <2>3. ViewTypes
    <3>1. shown = [a \in Alert |-> "none"] /\ whole = FALSE /\ counts = [open |-> 0, acknowledged |-> 0] /\ counted = {}
      OBVIOUS
    <3> HIDE DEF AlertInit
    <3>2. whole \in BOOLEAN
      BY <3>1
    <3>3. QED
      BY <3>1, <3>2 DEF ViewTypes, Status
  <2>4. NoLoad \in AlertLoading /\ load = [l \in Load |-> NoLoad]
    BY NoLoadType
  <2>5. LoadTypes
    BY <2>4 DEF LoadTypes
  <2>6. QED
    BY <2>1, <2>2, <2>3, <2>5 DEF WireTypes
<1>5. WireInv
  BY DEF WireInv, IsInjective, ToSet
<1>6. StreamInv
  BY <1>1, AlertAssumption DEF StreamInv, SubscribersListen, NoConn
<1>7. AlertLoadInv /\ AlertListInv
  BY DEF AlertLoadInv, AlertListInv, NoLoad
<1>8. QED
  BY <1>2, <1>3, <1>4, <1>5, <1>6, <1>7 DEF AlertInv, AlertTypes

(* every step of every actor keeps it,                                                    *)
LEMMA AlertStepKeeps == AlertInv /\ [AlertNext]_alertVars => AlertInv'
<1> SUFFICES ASSUME AlertInv, [AlertNext]_alertVars PROVE AlertInv'
  OBVIOUS
<1>1. CASE AlertNext
  BY <1>1, RowTypesKept, StreamTypesKept, WireTypesKept, ViewTypesKept, LoadTypesKept, ActTypesKept, WireKept,
     StreamKept, LoadKept, ListKept DEF AlertInv, AlertTypes
<1>2. CASE UNCHANGED alertVars
  <2>1. UNCHANGED <<alertCase, abroad, row, told, conn, subs, orphan, wire, session, panel, heard, shown, whole, counts,
                    counted, load, act, drift>>
    BY <1>2 DEF alertVars, alertRows, alertStream, alertView
  <2>2. AlertTypes'
    BY <2>1 DEF AlertInv, AlertTypes, RowTypes, StreamTypes, WireTypes, ViewTypes, LoadTypes, ActTypes
  <2>3. WireInv' /\ StreamInv'
    BY <2>1 DEF AlertInv, WireInv, StreamInv, SubscribersListen
  <2>4. AlertLoadInv' /\ AlertListInv'
    <3>1. (\A s : Own(s)' = Own(s)) /\ Settled' = Settled
      BY <2>1 DEF Own, Settled, Pushed, NonePressed
    <3>2. AlertLoadInv'
      BY <2>1, <3>1 DEF AlertInv, AlertLoadInv
    <3>3. AlertListInv'
      BY <2>1, UndriftedKept DEF AlertInv
    <3>4. QED
      BY <3>2, <3>3
  <2>5. QED
    BY <2>2, <2>3, <2>4 DEF AlertInv
<1>3. QED
  BY <1>1, <1>2

(* and what the runs check of the component follows from it.                              *)
LEMMA AlertInvHolds == AlertInv => AlertTypeOK /\ LiveAlertsHold
<1> SUFFICES ASSUME AlertInv PROVE AlertTypeOK /\ LiveAlertsHold
  OBVIOUS
<1>1. AlertTypeOK
  BY DEF AlertInv, AlertTypes, AlertTypeOK, RowTypes, StreamTypes, WireTypes, ViewTypes, LoadTypes, ActTypes, AlertLoading,
         Panel, Pressed
<1>2. ASSUME ~drift, wire = <<>>, Pushed, NonePressed
      PROVE  /\ counts.open = Cardinality(Own("open")) /\ counts.acknowledged = Cardinality(Own("acknowledged"))
             /\ whole => \A a \in Own("open") : shown[a] = "open"
  <2>1. Undrifted
    BY <1>2 DEF AlertInv, AlertListInv
  <2>2. Arrived = told /\ \A a \in Alert : row[a] # "none" <=> a \in told
    BY <1>2 DEF Arrived, ToSet, Pushed, AlertInv, WireInv
  <2>3. \A a \in Alert : Tally(a) = IF a \in abroad THEN "none" ELSE row[a]
    BY <1>2, <2>2 DEF Tally, Owing, Committed, NonePressed
  <2>4. Tallied("open") = Own("open") /\ Tallied("acknowledged") = Own("acknowledged")
    BY <2>3 DEF Tallied, Own
  <2>5. QED
    BY <2>1, <2>2, <2>3, <2>4 DEF Undrifted, CountsTally, WholeTallies, Own
<1>3. PageCountsRight
  BY <1>2 DEF PageCountsRight
<1>4. QED
  BY <1>1, <1>3 DEF LiveAlertsHold, AlertInv, StreamInv

--------------------------------------------------------------------------------
(* AdminPages: the administrator's lists and forms.                                       *)

(* The types, by the parts of the component.                                                *)
Fetched == [at : {"idle", "asked", "answered"}, query : Query, row : TableRow, older : SUBSET Fetch,
            overtaken : BOOLEAN, missed : BOOLEAN]
Kind == {"create", "edit", "switch", "delete", "mail"}
Changing == [at : {"idle", "sent", "read", "done"}, kind : Kind, value : BOOLEAN, keeps : BOOLEAN, fresh : BOOLEAN,
             on : BOOLEAN, keepsOn : BOOLEAN, known : BOOLEAN, saw : BOOLEAN, ok : BOOLEAN, missed : BOOLEAN]
PageTypes ==
  /\ place \in PageCases /\ want \in Query \cup {Unasked}
  /\ stale \in BOOLEAN /\ reverted \in BOOLEAN /\ foreign \in 0..MaxForeign
TableTypes == table \in TableRow /\ list \in [row : TableRow, query : Query]
FetchTypes == fetch \in [Fetch -> Fetched]
ChangeTypes == form \in [open : BOOLEAN, flag : BOOLEAN, on : BOOLEAN, fresh : BOOLEAN] /\ change \in Changing

(* A page that has not asked for its list does nothing; a row that is gone keeps nothing.     *)
QuietInv ==
  /\ want = Unasked => Loading = {} /\ change.at = "idle" /\ ~form.open
  /\ ~table.there => table = NoRow

(* Of the loads under way each knows those that were asked for before.                       *)
OrderInv ==
  \A l \in Loading : /\ fetch[l].older \subseteq Loading \ {l}
                     /\ \A k \in Loading \ {l} : k \in fetch[l].older \/ l \in fetch[k].older

(* A change is one the page offers; the open form is the one whose change is under way, and    *)
(* its values are those of the row as long as nobody else has changed it.                    *)
FormInv ==
  /\ change.at # "idle" => change.kind \in Here.kinds /\ (form.open <=> change.kind = "edit")
  /\ form.open => "edit" \in Here.kinds
  /\ change.at = "sent" /\ change.kind = "edit" /\ change.keeps =>
       change.value = form.flag /\ (change.fresh => form.fresh)
  /\ form.open /\ form.fresh /\ place # "idps" /\ table.there /\ (change.at \in {"idle", "sent"} \/ ~change.ok) =>
       form.flag = table.flag
  /\ change.at \in {"sent", "read"} /\ change.kind = "edit" /\ change.keepsOn =>
       change.on = form.on /\ (change.known => form.fresh)
  /\ form.open /\ form.fresh /\ place = "idps" /\ table.there /\ (change.at # "done" \/ ~change.ok) =>
       form.on = table.on
  /\ change.at = "read" => /\ place = "idps" /\ change.kind = "edit"
                           /\ change.fresh => change.saw = table.flag

(* The answer of a change is going to load the list again.                                   *)
Owed == change.at = "done" /\ change.kind \in Here.reload /\ (change.ok \/ Here.waits)

(* The newest load, if no newer one has landed, answers the last query with the row as it is,    *)
(* unless it is known to have missed a change.                                               *)
Newest(l) == l \in Loading /\ ~fetch[l].overtaken /\ Loading \ {l} \subseteq fetch[l].older
FetchInv ==
  \A l \in Fetch : Newest(l) =>
    /\ fetch[l].query = want
    /\ fetch[l].at = "asked" \/ fetch[l].missed \/ Owed \/ fetch[l].row = Redacted(table)

(* The list as the answer under way will leave it.                                            *)
Switched == place = "rules" /\ change.at = "done"
ShownRow == IF Switched THEN [list.row EXCEPT !.on = change.value] ELSE list.row
PageListInv ==
  /\ Switched /\ change.ok /\ ~change.missed => table.on = change.value
  /\ Loading = {} /\ ~stale /\ ~Owed /\ ~(Switched /\ (change.missed \/ ~change.ok)) =>
       ShownRow = Redacted(table) /\ list.query = want

PageTypesAll == PageTypes /\ TableTypes /\ FetchTypes /\ ChangeTypes
PagesInv == PageTypesAll /\ QuietInv /\ OrderInv /\ FormInv /\ FetchInv /\ PageListInv /\ ~reverted

LEMMA FetchedFields ==
  \A x \in Fetched :
    /\ x.at \in {"idle", "asked", "answered"} /\ x.query \in Query /\ x.row \in TableRow
    /\ x.older \subseteq Fetch /\ x.overtaken \in BOOLEAN /\ x.missed \in BOOLEAN
BY DEF Fetched

LEMMA FetchedRead ==
  \A x \in Fetched, r \in TableRow :
    LET y == [x EXCEPT !.at = "answered", !.row = r]
    IN  /\ y \in Fetched /\ y.at = "answered" /\ y.row = r
        /\ y.query = x.query /\ y.older = x.older /\ y.overtaken = x.overtaken
BY DEF Fetched

LEMMA FetchedPassed ==
  \A x \in Fetched, s \in SUBSET Fetch, b \in BOOLEAN :
    LET y == [x EXCEPT !.older = s, !.overtaken = b]
    IN  /\ y \in Fetched /\ y.older = s /\ y.overtaken = b
        /\ y.at = x.at /\ y.query = x.query /\ y.row = x.row /\ y.missed = x.missed
BY DEF Fetched

(* What the pages offer: a change is followed by a load, but for a mail and for the rules.    *)
LEMMA HereFacts ==
  ASSUME place \in PageCases
  PROVE  /\ want = Unasked => Here.kinds = {} /\ Here.reload = {} /\ Here.timer = FALSE
         /\ Here.waits \in BOOLEAN /\ Here.timer \in BOOLEAN
         /\ place # "rules" => \A k \in Here.kinds : k \in Here.reload \/ k = "mail"
         /\ place = "rules" => Here.kinds \subseteq {"switch"} /\ Here.reload = {}
         /\ place = "idps" => "switch" \notin Here.kinds /\ "mail" \notin Here.kinds
         /\ "edit" \in Here.kinds => "edit" \in Here.reload
         /\ Here.waits => "mail" \notin Here.kinds
<1> DEFINE P == PageOf[place]
<1>1. CASE want = Unasked
  <2>1. Here.kinds = {} /\ Here.reload = {} /\ Here.timer = FALSE /\ Here.waits = FALSE
    BY <1>1 DEF Here, Offer
  <2>2. QED
    BY <2>1
<1>2. CASE want # Unasked
  <2>0. Here = P
    BY <1>2 DEF Here
  <2> HIDE DEF P
  <2>1. CASE place = "users"
    <3>1. P = UsersPage
      BY <2>1 DEF PageOf, P
    <3>2. UsersPage.kinds = {"create", "edit", "switch", "delete", "mail"} /\ UsersPage.reload = {"create", "edit", "switch", "delete"}
      BY DEF UsersPage, Offer
    <3>3. UsersPage.waits = FALSE /\ UsersPage.timer = FALSE
      BY DEF UsersPage, Offer
    <3>4. Here.kinds = {"create", "edit", "switch", "delete", "mail"} /\ Here.reload = {"create", "edit", "switch", "delete"} /\ Here.waits = FALSE /\ Here.timer = FALSE
      BY <2>0, <3>1, <3>2, <3>3
    <3>5. QED
      BY <1>2, <2>1, <3>4
  <2>2. CASE place = "clients"
    <3>1. P = ClientsPage
      BY <2>2 DEF PageOf, P
    <3>2. ClientsPage.kinds = {"create", "edit", "delete", "mail"} /\ ClientsPage.reload = {"create", "edit", "delete"}
      BY DEF ClientsPage, Offer
    <3>3. ClientsPage.waits = FALSE /\ ClientsPage.timer = FALSE
      BY DEF ClientsPage, Offer
    <3>4. Here.kinds = {"create", "edit", "delete", "mail"} /\ Here.reload = {"create", "edit", "delete"} /\ Here.waits = FALSE /\ Here.timer = FALSE
      BY <2>0, <3>1, <3>2, <3>3
    <3>5. QED
      BY <1>2, <2>2, <3>4
  <2>3. CASE place = "tenants"
    <3>1. P = TenantsPage
      BY <2>3 DEF PageOf, P
    <3>2. TenantsPage.kinds = {"create", "edit", "delete"} /\ TenantsPage.reload = {"create", "edit", "delete"}
      BY DEF TenantsPage, Offer
    <3>3. TenantsPage.waits = FALSE /\ TenantsPage.timer = FALSE
      BY DEF TenantsPage, Offer
    <3>4. Here.kinds = {"create", "edit", "delete"} /\ Here.reload = {"create", "edit", "delete"} /\ Here.waits = FALSE /\ Here.timer = FALSE
      BY <2>0, <3>1, <3>2, <3>3
    <3>5. QED
      BY <1>2, <2>3, <3>4
  <2>4. CASE place = "idps"
    <3>1. P = IdpsPage
      BY <2>4 DEF PageOf, P
    <3>2. IdpsPage.kinds = {"create", "edit", "delete"} /\ IdpsPage.reload = {"create", "edit", "delete"}
      BY DEF IdpsPage, Offer
    <3>3. IdpsPage.waits = FALSE /\ IdpsPage.timer = FALSE
      BY DEF IdpsPage, Offer
    <3>4. Here.kinds = {"create", "edit", "delete"} /\ Here.reload = {"create", "edit", "delete"} /\ Here.waits = FALSE /\ Here.timer = FALSE
      BY <2>0, <3>1, <3>2, <3>3
    <3>5. QED
      BY <1>2, <2>4, <3>4
  <2>5. CASE place = "flags"
    <3>1. P = FlagsPage
      BY <2>5 DEF PageOf, P
    <3>2. FlagsPage.kinds = {"switch"} /\ FlagsPage.reload = {"switch"}
      BY DEF FlagsPage, Offer
    <3>3. FlagsPage.waits = TRUE /\ FlagsPage.timer = FALSE
      BY DEF FlagsPage, Offer
    <3>4. Here.kinds = {"switch"} /\ Here.reload = {"switch"} /\ Here.waits = TRUE /\ Here.timer = FALSE
      BY <2>0, <3>1, <3>2, <3>3
    <3>5. QED
      BY <1>2, <2>5, <3>4
  <2>6. CASE place = "rules"
    <3>1. P = RulesPage
      BY <2>6 DEF PageOf, P
    <3>2. RulesPage.kinds = {"switch"} /\ RulesPage.reload = {}
      BY DEF RulesPage, Offer
    <3>3. RulesPage.waits = FALSE /\ RulesPage.timer = TRUE
      BY DEF RulesPage, Offer
    <3>4. Here.kinds = {"switch"} /\ Here.reload = {} /\ Here.waits = FALSE /\ Here.timer = TRUE
      BY <2>0, <3>1, <3>2, <3>3
    <3>5. QED
      BY <1>2, <2>6, <3>4
  <2>7. CASE place = "risk"
    <3>1. P = RiskPage
      BY <2>7 DEF PageOf, P
    <3>2. RiskPage.kinds = {"switch"} /\ RiskPage.reload = {"switch"}
      BY DEF RiskPage, Offer
    <3>3. RiskPage.waits = TRUE /\ RiskPage.timer = FALSE
      BY DEF RiskPage, Offer
    <3>4. Here.kinds = {"switch"} /\ Here.reload = {"switch"} /\ Here.waits = TRUE /\ Here.timer = FALSE
      BY <2>0, <3>1, <3>2, <3>3
    <3>5. QED
      BY <1>2, <2>7, <3>4
  <2>8. CASE place = "stats"
    <3>1. P = StatsPage
      BY <2>8 DEF PageOf, P
    <3>2. StatsPage.kinds = {} /\ StatsPage.reload = {}
      BY DEF StatsPage, Offer
    <3>3. StatsPage.waits = FALSE /\ StatsPage.timer = TRUE
      BY DEF StatsPage, Offer
    <3>4. Here.kinds = {} /\ Here.reload = {} /\ Here.waits = FALSE /\ Here.timer = TRUE
      BY <2>0, <3>1, <3>2, <3>3
    <3>5. QED
      BY <1>2, <2>8, <3>4
  <2>9. CASE place = "audit"
    <3>1. P = AuditPage
      BY <2>9 DEF PageOf, P
    <3>2. AuditPage.kinds = {"search"} /\ AuditPage.reload = {"search"}
      BY DEF AuditPage, Offer
    <3>3. AuditPage.waits = FALSE /\ AuditPage.timer = FALSE
      BY DEF AuditPage, Offer
    <3>4. Here.kinds = {"search"} /\ Here.reload = {"search"} /\ Here.waits = FALSE /\ Here.timer = FALSE
      BY <2>0, <3>1, <3>2, <3>3
    <3>5. QED
      BY <1>2, <2>9, <3>4
  <2>10. QED
    BY PagesAssumption, <2>1, <2>2, <2>3, <2>4, <2>5, <2>6, <2>7, <2>8, <2>9
<1>3. QED
  BY <1>1, <1>2

LEMMA RowFacts ==
  /\ NoRow \in TableRow /\ NoRow.there = FALSE
  /\ [NoRow EXCEPT !.there = TRUE] \in TableRow
  /\ \A r \in TableRow, b \in BOOLEAN :
       /\ [r EXCEPT !.flag = b] \in TableRow /\ [r EXCEPT !.on = b] \in TableRow
       /\ Redacted(r) \in TableRow
       /\ place # "idps" => Redacted(r) = r
<1>1. NoRow \in TableRow /\ NoRow.there = FALSE /\ [NoRow EXCEPT !.there = TRUE] \in TableRow
  BY DEF NoRow, TableRow
<1>2. \A r \in TableRow, b \in BOOLEAN : [r EXCEPT !.flag = b] \in TableRow /\ [r EXCEPT !.on = b] \in TableRow
  BY DEF TableRow
<1>3. QED
  BY <1>1, <1>2 DEF Redacted

(* The page asks for its list: the new load comes after all those under way.                *)
LEMMA FetchStarts ==
  ASSUME FetchTypes, OrderInv, NEW l \in Free, NEW q \in Query, fetch' = StartFetch(l, q)
  PROVE  /\ FetchTypes' /\ OrderInv'
         /\ Loading' = Loading \cup {l} /\ l \notin Loading
         /\ fetch'[l].at = "asked" /\ fetch'[l].query = q
         /\ \A k \in Fetch : Newest(k)' => k = l
<1> DEFINE new == [NoFetch EXCEPT !.at = "asked", !.query = q, !.older = Loading]
<1>1. l \in Fetch /\ l \notin Loading /\ fetch' = [fetch EXCEPT ![l] = new]
  BY DEF Free, StartFetch
<1>2. Loading \subseteq Fetch
  BY DEF Loading
<1>3. NoFetch \in Fetched
  BY RowFacts DEF NoFetch, Fetched, Query
<1>4. new \in Fetched /\ new.at = "asked" /\ new.query = q /\ new.older = Loading
  BY <1>2, <1>3 DEF Fetched
<1> HIDE DEF new
<1>5. FetchTypes' /\ fetch'[l] = new /\ \A k \in Fetch \ {l} : fetch'[k] = fetch[k]
  BY <1>1, <1>4 DEF FetchTypes
<1>6. Loading' = Loading \cup {l}
  BY <1>1, <1>4, <1>5 DEF Loading
<1>7. OrderInv'
  BY <1>1, <1>2, <1>4, <1>5, <1>6 DEF OrderInv
<1>8. ASSUME NEW k \in Fetch, Newest(k)', k # l PROVE FALSE
  BY <1>1, <1>5, <1>6, <1>8 DEF Newest, OrderInv
<1>9. QED
  BY <1>1, <1>4, <1>5, <1>6, <1>7, <1>8

LEMMA FetchReads ==
  ASSUME FetchTypes, OrderInv, TableTypes, NEW l \in Fetch, ReadRows(l)
  PROVE  /\ FetchTypes' /\ OrderInv' /\ Loading' = Loading
         /\ fetch'[l].row = Redacted(table) /\ fetch'[l].query = fetch[l].query
         /\ \A k \in Fetch : Newest(k)' => Newest(k)
         /\ \A k \in Fetch \ {l} : fetch'[k] = fetch[k]
<1> DEFINE new == [fetch[l] EXCEPT !.at = "answered", !.row = Redacted(table)]
<1>1. fetch[l].at = "asked" /\ fetch' = [fetch EXCEPT ![l] = new]
  BY DEF ReadRows
<1>2. Redacted(table) \in TableRow
  BY RowFacts DEF TableTypes
<1>3. /\ new \in Fetched /\ new.at = "answered" /\ new.row = Redacted(table)
      /\ new.query = fetch[l].query /\ new.older = fetch[l].older /\ new.overtaken = fetch[l].overtaken
  <2>1. fetch[l] \in Fetched
    BY DEF FetchTypes
  <2>2. QED
    BY <1>2, <2>1, FetchedRead
<1> HIDE DEF new
<1>4. FetchTypes' /\ fetch'[l] = new /\ \A k \in Fetch \ {l} : fetch'[k] = fetch[k]
  BY <1>1, <1>3 DEF FetchTypes
<1>5. Loading' = Loading
  BY <1>1, <1>3, <1>4 DEF Loading
<1>6. \A k \in Fetch : fetch'[k].older = fetch[k].older /\ fetch'[k].overtaken = fetch[k].overtaken
  BY <1>3, <1>4
<1>7. OrderInv'
  BY <1>5, <1>6 DEF OrderInv, Loading
<1>8. \A k \in Fetch : Newest(k)' => Newest(k)
  BY <1>5, <1>6 DEF Newest
<1>9. QED
  BY <1>3, <1>4, <1>5, <1>7, <1>8

(* An answer lands: the loads asked for before it are overtaken.                            *)
LEMMA FetchLands ==
  ASSUME FetchTypes, OrderInv, NEW l \in Fetch, LandRows(l)
  PROVE  /\ FetchTypes' /\ OrderInv' /\ l \in Loading /\ Loading' = Loading \ {l}
         /\ \A k \in Fetch : Newest(k)' =>
              /\ k # l /\ Newest(k) /\ fetch'[k].at = fetch[k].at /\ fetch'[k].query = fetch[k].query
              /\ fetch'[k].row = fetch[k].row /\ fetch'[k].missed = fetch[k].missed
<1> DEFINE old(k) == [fetch[k] EXCEPT !.older = @ \ {l}, !.overtaken = @ \/ k \in fetch[l].older]
<1>1. fetch[l].at = "answered" /\ fetch' = [k \in Fetch |-> IF k = l THEN NoFetch ELSE old(k)]
  BY DEF LandRows
<1>2. NoFetch \in Fetched /\ NoFetch.at = "idle"
  BY RowFacts DEF NoFetch, Fetched, Query
<1>3. ASSUME NEW k \in Fetch
      PROVE  /\ old(k) \in Fetched /\ old(k).at = fetch[k].at /\ old(k).query = fetch[k].query
             /\ old(k).row = fetch[k].row /\ old(k).missed = fetch[k].missed
             /\ old(k).older = fetch[k].older \ {l}
             /\ ~old(k).overtaken => ~fetch[k].overtaken /\ k \notin fetch[l].older
  <2> DEFINE b == fetch[k].overtaken \/ k \in fetch[l].older
  <2>1. fetch[k] \in Fetched /\ fetch[k].older \ {l} \in SUBSET Fetch
    BY FetchedFields DEF FetchTypes
  <2>2. CASE b
    <3>1. old(k) = [fetch[k] EXCEPT !.older = fetch[k].older \ {l}, !.overtaken = TRUE]
      BY <2>2
    <3> HIDE DEF old
    <3> DEFINE x == fetch[k]
               s == fetch[k].older \ {l}
               y == [x EXCEPT !.older = s, !.overtaken = TRUE]
    <3>2. x \in Fetched /\ s \in SUBSET Fetch /\ TRUE \in BOOLEAN
      BY <2>1
    <3> HIDE DEF x, s
    <3>3. y \in Fetched /\ y.older = s /\ y.overtaken = TRUE
          /\ y.at = x.at /\ y.query = x.query /\ y.row = x.row /\ y.missed = x.missed
      BY <3>2, FetchedPassed
    <3>4. QED
      BY <3>1, <3>3 DEF x, s
  <2>3. CASE ~b
    <3>1. old(k) = [fetch[k] EXCEPT !.older = fetch[k].older \ {l}, !.overtaken = FALSE]
      BY <2>3
    <3> HIDE DEF old
    <3> DEFINE x == fetch[k]
               s == fetch[k].older \ {l}
               y == [x EXCEPT !.older = s, !.overtaken = FALSE]
    <3>2. x \in Fetched /\ s \in SUBSET Fetch /\ FALSE \in BOOLEAN
      BY <2>1
    <3> HIDE DEF x, s
    <3>3. y \in Fetched /\ y.older = s
          /\ y.at = x.at /\ y.query = x.query /\ y.row = x.row /\ y.missed = x.missed
      BY <3>2, FetchedPassed
    <3>4. QED
      BY <2>3, <3>1, <3>3 DEF x, s
  <2>4. QED
    BY <2>2, <2>3
<1> HIDE DEF old
<1>4. FetchTypes' /\ fetch'[l] = NoFetch /\ \A k \in Fetch \ {l} : fetch'[k] = old(k)
  BY <1>1, <1>2, <1>3 DEF FetchTypes
<1>5. l \in Loading /\ Loading' = Loading \ {l} /\ Loading \subseteq Fetch
  BY <1>1, <1>2, <1>3, <1>4 DEF Loading
<1>6. OrderInv'
  <2> SUFFICES ASSUME NEW k \in Loading \ {l}
               PROVE  /\ fetch'[k].older \subseteq (Loading \ {l}) \ {k}
                      /\ \A j \in (Loading \ {l}) \ {k} : k \in fetch'[j].older \/ j \in fetch'[k].older
    BY <1>5 DEF OrderInv
  <2>1. \A j \in Loading \ {l} : fetch'[j].older = fetch[j].older \ {l}
    BY <1>3, <1>4, <1>5
  <2>2. QED
    BY <2>1 DEF OrderInv
<1>7. ASSUME NEW k \in Fetch, Newest(k)' PROVE k # l /\ Newest(k)
  <2>1. k \in Loading /\ k # l /\ fetch'[k] = old(k) /\ ~fetch'[k].overtaken /\ Loading' \ {k} \subseteq fetch'[k].older
    BY <1>4, <1>5, <1>7 DEF Newest
  <2>2. ~fetch[k].overtaken /\ k \notin fetch[l].older
    BY <1>3, <2>1
  <2>3. l \in fetch[k].older
    BY <1>5, <2>1, <2>2 DEF OrderInv
  <2>4. (Loading \ {l}) \ {k} \subseteq fetch[k].older
    BY <1>3, <1>5, <2>1
  <2>5. QED
    BY <2>1, <2>2, <2>3, <2>4 DEF Newest
<1>8. QED
  BY <1>3, <1>4, <1>5, <1>6, <1>7

(* A change that no load will follow: an answer under way has missed it.                    *)
LEMMA FetchMisses ==
  ASSUME FetchTypes, OrderInv,
         fetch' = [l \in Fetch |-> [fetch[l] EXCEPT !.missed = @ \/ fetch[l].at = "answered"]]
  PROVE  /\ FetchTypes' /\ OrderInv' /\ Loading' = Loading
         /\ \A k \in Fetch : /\ Newest(k)' => Newest(k)
                             /\ fetch'[k].at = fetch[k].at /\ fetch'[k].query = fetch[k].query
                             /\ fetch'[k].at = "asked" \/ fetch'[k].missed \/ k \notin Loading
<1> DEFINE new(k) == [fetch[k] EXCEPT !.missed = @ \/ fetch[k].at = "answered"]
<1>1. ASSUME NEW k \in Fetch
      PROVE  /\ new(k) \in Fetched /\ new(k).at = fetch[k].at /\ new(k).query = fetch[k].query
             /\ new(k).older = fetch[k].older /\ new(k).overtaken = fetch[k].overtaken
             /\ new(k).missed = (fetch[k].missed \/ fetch[k].at = "answered")
  <2>1. \A b \in BOOLEAN :
          LET x == [fetch[k] EXCEPT !.missed = b]
          IN  /\ x \in Fetched /\ x.at = fetch[k].at /\ x.query = fetch[k].query /\ x.missed = b
              /\ x.older = fetch[k].older /\ x.overtaken = fetch[k].overtaken
    BY DEF FetchTypes, Fetched
  <2> DEFINE m == fetch[k].missed \/ fetch[k].at = "answered"
  <2>2. m \in BOOLEAN
    OBVIOUS
  <2>3. new(k) = [fetch[k] EXCEPT !.missed = m]
    OBVIOUS
  <2> HIDE DEF m, new
  <2>4. new(k) \in Fetched /\ new(k).at = fetch[k].at /\ new(k).query = fetch[k].query
        /\ new(k).older = fetch[k].older /\ new(k).overtaken = fetch[k].overtaken /\ new(k).missed = m
    BY <2>1, <2>2, <2>3
  <2>5. QED
    BY <2>4 DEF m
<1>2. fetch' = [k \in Fetch |-> new(k)]
  OBVIOUS
<1> HIDE DEF new
<1>3. FetchTypes' /\ \A k \in Fetch : fetch'[k] = new(k)
  BY <1>1, <1>2 DEF FetchTypes
<1>4. Loading' = Loading /\ Loading \subseteq Fetch
  BY <1>1, <1>3 DEF Loading
<1>5. OrderInv'
  BY <1>1, <1>3, <1>4 DEF OrderInv
<1>6. \A k \in Fetch : Newest(k)' => Newest(k)
  BY <1>1, <1>3, <1>4 DEF Newest
<1>7. \A k \in Fetch : fetch'[k].at = "asked" \/ fetch'[k].missed \/ k \notin Loading
  <2>1. \A k \in Fetch : fetch[k].at \in {"idle", "asked", "answered"}
    BY DEF FetchTypes, Fetched
  <2>2. QED
    BY <1>1, <1>3, <2>1 DEF Loading
<1>8. QED
  BY <1>1, <1>3, <1>4, <1>5, <1>6, <1>7

LEMMA FetchStays ==
  ASSUME UNCHANGED fetch
  PROVE  /\ Loading' = Loading /\ (FetchTypes => FetchTypes') /\ (OrderInv => OrderInv')
         /\ \A k : Newest(k)' = Newest(k)
<1>1. Loading' = Loading
  BY DEF Loading
<1>2. QED
  BY <1>1 DEF FetchTypes, OrderInv, Newest

LEMMA HereStays ==
  ASSUME place' = place, want' = want \/ (want # Unasked /\ want' # Unasked)
  PROVE  Here' = Here /\ \A r : Redacted(r)' = Redacted(r)
BY DEF Here, Redacted

LEMMA RowsSame ==
  \A r, s \in TableRow : r.there = s.there /\ r.flag = s.flag /\ r.on = s.on => r = s
BY DEF TableRow

LEMMA RowGone == [NoRow EXCEPT !.on = FALSE] = NoRow
<1> DEFINE r == [NoRow EXCEPT !.on = FALSE]
<1>1. r \in TableRow /\ NoRow \in TableRow
  BY RowFacts
<1>2. r.there = NoRow.there /\ r.flag = NoRow.flag /\ r.on = NoRow.on
  BY DEF NoRow
<1> HIDE DEF r
<1>3. r = NoRow
  BY <1>1, <1>2, RowsSame
<1>4. QED
  BY <1>3 DEF r

LEMMA ChangeAnswers ==
  ASSUME NEW ok \in BOOLEAN
  PROVE  LET c == Answered(ok) IN c.at = "done" /\ c.kind = change.kind /\ c.value = change.value /\ c.ok = ok
                                  /\ c.missed = FALSE /\ c.keeps = FALSE
BY DEF Answered, NoChange

LEMMA ChangesTyped ==
  /\ NoChange \in Changing
  /\ NoForm \in [open : BOOLEAN, flag : BOOLEAN, on : BOOLEAN, fresh : BOOLEAN]
  /\ ChangeTypes => \A ok \in BOOLEAN : Answered(ok) \in Changing
<1>1. NoChange \in Changing
  BY DEF NoChange, Changing, Kind
<1>2. NoForm \in [open : BOOLEAN, flag : BOOLEAN, on : BOOLEAN, fresh : BOOLEAN]
  BY DEF NoForm
<1>3. ASSUME ChangeTypes, NEW ok \in BOOLEAN PROVE Answered(ok) \in Changing
  <2>1. change.kind \in Kind /\ change.value \in BOOLEAN
    BY <1>3 DEF ChangeTypes, Changing
  <2>2. \A k \in Kind, b \in BOOLEAN :
          [NoChange EXCEPT !.at = "done", !.kind = k, !.value = b, !.ok = ok] \in Changing
    BY DEF NoChange, Changing, Kind
  <2>3. QED
    BY <2>1, <2>2 DEF Answered
<1>4. QED
  BY <1>1, <1>2, <1>3

(* What the form sends, and what the change remembers of it.                                 *)
LEMMA FormSent ==
  ASSUME ChangeTypes, SubmitForm
  PROVE  /\ form' = form /\ form.open /\ change.at = "idle"
         /\ change' \in Changing /\ change'.at = "sent" /\ change'.kind = "edit"
         /\ change'.keeps => change'.value = form.flag
         /\ change'.keepsOn => change'.on = form.on
         /\ change'.fresh = form.fresh /\ change'.known = form.fresh
<1>1. PICK f \in BOOLEAN, o \in BOOLEAN :
        change' = [NoChange EXCEPT !.at = "sent", !.value = f, !.keeps = f = form.flag, !.fresh = form.fresh,
                                   !.on = o, !.keepsOn = o = form.on, !.known = form.fresh]
  BY DEF SubmitForm
<1> DEFINE w == f = form.flag
           y == o = form.on
           h == form.fresh
<1>2. w \in BOOLEAN /\ y \in BOOLEAN /\ h \in BOOLEAN
  BY DEF ChangeTypes
<1>3. change' = [NoChange EXCEPT !.at = "sent", !.value = f, !.keeps = w, !.fresh = h,
                                 !.on = o, !.keepsOn = y, !.known = h]
  BY <1>1
<1> HIDE DEF w, y, h
<1>4. /\ change' \in Changing /\ change'.at = "sent" /\ change'.kind = "edit" /\ change'.value = f
      /\ change'.keeps = w /\ change'.fresh = h /\ change'.on = o /\ change'.keepsOn = y /\ change'.known = h
  BY <1>2, <1>3 DEF NoChange, Changing, Kind
<1>5. form' = form /\ form.open /\ change.at = "idle"
  BY DEF SubmitForm
<1>6. change'.keeps => change'.value = form.flag
  BY <1>4 DEF w
<1>7. change'.keepsOn => change'.on = form.on
  BY <1>4 DEF y
<1>8. QED
  BY <1>4, <1>5, <1>6, <1>7 DEF h

LEMMA SendTyped ==
  ASSUME ChangeTypes, NEW k \in Kind, SendChange(k)
  PROVE  change' \in Changing /\ form' = form
<1> DEFINE v == k = "switch" /\ ~list.row.on
<1>1. v \in BOOLEAN
  OBVIOUS
<1>2. change' = [NoChange EXCEPT !.at = "sent", !.kind = k, !.value = v] /\ form' = form
  BY DEF SendChange
<1> HIDE DEF v
<1>3. QED
  BY <1>1, <1>2 DEF NoChange, Changing, Kind

LEMMA RedactedOn == \A held \in TableRow : Redacted(held).on = held.on
BY DEF Redacted, TableRow

LEMMA HereSearches ==
  ASSUME place \in PageCases, "search" \in Here.kinds \/ "edit" \in Here.kinds \/ change.kind \in Here.kinds \/ Here.timer
  PROVE  want # Unasked
BY HereFacts

(* What follows from a step that leaves the loads, the row and the last query as they are.   *)
LEMMA FetchInvStays ==
  ASSUME FetchInv, UNCHANGED <<place, want, fetch>>, ~Owed \/ Owed', table' = table \/ Owed'
  PROVE  FetchInv'
<1>1. Here' = Here /\ \A r : Redacted(r)' = Redacted(r)
  BY HereStays
<1>2. \A k : Newest(k)' = Newest(k)
  BY FetchStays
<1>3. Redacted(table)' = Redacted(table) \/ Owed'
  BY DEF Redacted
<1>4. QED
  BY <1>2, <1>3 DEF FetchInv

(* A change that is done without a load to follow has left the row as it was.                *)
LEMMA Reloads ==
  ASSUME place \in PageCases, change.kind \in Here.kinds
  PROVE  /\ place # "rules" => change.kind \in Here.reload \/ change.kind = "mail"
         /\ place = "rules" => change.kind = "switch" /\ Here.reload = {}
BY HereFacts

LEMMA PageListStays ==
  ASSUME PageListInv, UNCHANGED <<place, list, want, fetch>>, change.at # "done", ~Switched',
         stale' \/ ~stale, table' = table \/ Owed'
  PROVE  PageListInv'
<1>1. Loading' = Loading
  BY FetchStays
<1>2. ~Owed /\ ~Switched /\ ShownRow = list.row /\ ShownRow' = list'.row
  BY DEF Owed, Switched, ShownRow
<1>3. Redacted(table)' = Redacted(table) \/ Owed'
  BY DEF Redacted
<1>4. QED
  BY <1>1, <1>2, <1>3 DEF PageListInv

LEMMA Free0 == \A l \in Free : l \in Fetch /\ l \notin Loading
BY DEF Free

LEMMA PageTypesKept == PagesInv /\ PagesNext => PageTypes'
<1> SUFFICES ASSUME PagesInv, PagesNext PROVE PageTypes'
  OBVIOUS
<1> USE PagesAssumption DEF PagesInv, PageTypesAll, PageTypes
<1>1. ASSUME NEW l \in Fetch, MountPage(l) PROVE PageTypes'
  BY <1>1 DEF MountPage, Query
<1>2. ASSUME NEW l \in Fetch, Refetch(l) PROVE PageTypes'
  BY <1>2 DEF Refetch
<1>3. ASSUME NEW l \in Fetch, ReadRows(l) PROVE PageTypes'
  BY <1>3 DEF ReadRows
<1>4. ASSUME NEW l \in Fetch, LandRows(l) PROVE PageTypes'
  BY <1>4 DEF LandRows
<1>5. ASSUME NEW l \in Fetch, NEW q \in Query, Search(l, q) PROVE PageTypes'
  BY <1>5 DEF Search
<1>6. ASSUME OpenForm PROVE PageTypes'
  BY <1>6 DEF OpenForm
<1>7. ASSUME SubmitForm PROVE PageTypes'
  BY <1>7 DEF SubmitForm
<1>8. ASSUME CloseForm PROVE PageTypes'
  BY <1>8 DEF CloseForm
<1>9. ASSUME SaveForm PROVE PageTypes'
  BY <1>9 DEF SaveForm
<1>10. ASSUME ReadIdp PROVE PageTypes'
  BY <1>10 DEF ReadIdp
<1>11. ASSUME SaveIdp PROVE PageTypes'
  BY <1>11 DEF SaveIdp
<1>12. ASSUME NEW k \in {"create", "switch", "delete", "mail"}, SendChange(k) PROVE PageTypes'
  BY <1>12 DEF SendChange
<1>13. ASSUME CreateRow PROVE PageTypes'
  BY <1>13 DEF CreateRow
<1>14. ASSUME SwitchRow PROVE PageTypes'
  BY <1>14 DEF SwitchRow
<1>15. ASSUME DeleteRow PROVE PageTypes'
  BY <1>15 DEF DeleteRow
<1>16. ASSUME LandChange PROVE PageTypes'
  BY <1>16 DEF LandChange
<1>17. ASSUME Elsewhere PROVE PageTypes'
  <2>1. place' = place /\ want' = want /\ reverted' = reverted /\ stale' = TRUE
    BY <1>17 DEF Elsewhere
  <2>4. foreign < MaxForeign /\ foreign' = foreign + 1
    BY <1>17 DEF Elsewhere
  <2>2. foreign' \in 0..MaxForeign
    BY <2>4
  <2>3. QED
    BY <2>1, <2>2
<1>18. QED
  BY <1>1, <1>2, <1>3, <1>4, <1>5, <1>6, <1>7, <1>8, <1>9, <1>10, <1>11, <1>12, <1>13, <1>14, <1>15, <1>16, <1>17 DEF PagesNext

LEMMA PageTableKept == PagesInv /\ PagesNext => TableTypes'
<1> SUFFICES ASSUME PagesInv, PagesNext PROVE TableTypes'
  OBVIOUS
<1> USE RowFacts DEF PagesInv, PageTypesAll, TableTypes, ChangeTypes, Changing
<1>1. ASSUME NEW l \in Fetch, MountPage(l) PROVE TableTypes'
  BY <1>1 DEF MountPage
<1>2. ASSUME NEW l \in Fetch, Refetch(l) PROVE TableTypes'
  BY <1>2 DEF Refetch
<1>3. ASSUME NEW l \in Fetch, ReadRows(l) PROVE TableTypes'
  BY <1>3 DEF ReadRows
<1>4. ASSUME NEW l \in Fetch, LandRows(l) PROVE TableTypes'
  <2>1. table' = table /\ (list' = list \/ list' = [row |-> fetch[l].row, query |-> fetch[l].query])
    BY <1>4 DEF LandRows
  <2>2. fetch[l].row \in TableRow /\ fetch[l].query \in Query
    BY FetchedFields DEF FetchTypes
  <2>3. QED
    BY <2>1, <2>2
<1>5. ASSUME NEW l \in Fetch, NEW q \in Query, Search(l, q) PROVE TableTypes'
  BY <1>5 DEF Search
<1>6. ASSUME OpenForm PROVE TableTypes'
  BY <1>6 DEF OpenForm
<1>7. ASSUME SubmitForm PROVE TableTypes'
  BY <1>7 DEF SubmitForm
<1>8. ASSUME CloseForm PROVE TableTypes'
  BY <1>8 DEF CloseForm
<1>9. ASSUME SaveForm PROVE TableTypes'
  BY <1>9 DEF SaveForm
<1>10. ASSUME ReadIdp PROVE TableTypes'
  BY <1>10 DEF ReadIdp
<1>11. ASSUME SaveIdp PROVE TableTypes'
  BY <1>11 DEF SaveIdp
<1>12. ASSUME NEW k \in {"create", "switch", "delete", "mail"}, SendChange(k) PROVE TableTypes'
  BY <1>12 DEF SendChange
<1>13. ASSUME CreateRow PROVE TableTypes'
  BY <1>13 DEF CreateRow
<1>14. ASSUME SwitchRow PROVE TableTypes'
  BY <1>14 DEF SwitchRow
<1>15. ASSUME DeleteRow PROVE TableTypes'
  BY <1>15 DEF DeleteRow
<1>16. ASSUME LandChange PROVE TableTypes'
  <2>1. table' = table /\ (list' = list \/ list' = [list EXCEPT !.row.on = change.value])
    BY <1>16 DEF LandChange
  <2>2. [list EXCEPT !.row.on = change.value] \in [row : TableRow, query : Query]
    BY DEF TableRow
  <2>3. QED
    BY <2>1, <2>2
<1>17. ASSUME Elsewhere PROVE TableTypes'
  <2>1. list' = list /\ table' \in {NoRow} \cup {[table EXCEPT !.there = TRUE, ![f] = ~@] : f \in Fields}
    BY <1>17 DEF Elsewhere
  <2>2. ASSUME NEW f \in Fields PROVE [table EXCEPT !.there = TRUE, ![f] = ~@] \in TableRow
    <3>1. f \in {"flag", "on"}
      BY DEF Fields
    <3>2. QED
      BY <3>1 DEF TableRow
  <2>3. CASE table' # NoRow
    <3>1. PICK f \in Fields : table' = [table EXCEPT !.there = TRUE, ![f] = ~@]
      BY <2>1, <2>3
    <3>2. QED
      BY <2>1, <2>2, <3>1
  <2>4. QED
    BY <2>1, <2>3
<1>18. QED
  BY <1>1, <1>2, <1>3, <1>4, <1>5, <1>6, <1>7, <1>8, <1>9, <1>10, <1>11, <1>12, <1>13, <1>14, <1>15, <1>16, <1>17 DEF PagesNext

LEMMA PageFetchTypesKept == PagesInv /\ PagesNext => FetchTypes'
<1> SUFFICES ASSUME PagesInv, PagesNext PROVE FetchTypes'
  OBVIOUS
<1> USE DEF PagesInv, PageTypesAll, FetchTypes
<1>1. ASSUME NEW l \in Fetch, MountPage(l) PROVE FetchTypes'
  BY <1>1, FetchStarts DEF MountPage, QuietInv, Free, Query
<1>2. ASSUME NEW l \in Fetch, Refetch(l) PROVE FetchTypes'
  BY <1>2, FetchStarts, HereFacts DEF Refetch, PageTypes
<1>3. ASSUME NEW l \in Fetch, ReadRows(l) PROVE FetchTypes'
  BY <1>3, FetchReads
<1>4. ASSUME NEW l \in Fetch, LandRows(l) PROVE FetchTypes'
  BY <1>4, FetchLands
<1>5. ASSUME NEW l \in Fetch, NEW q \in Query, Search(l, q) PROVE FetchTypes'
  BY <1>5, FetchStarts DEF Search
<1>6. ASSUME OpenForm PROVE FetchTypes'
  BY <1>6, FetchStays DEF OpenForm
<1>7. ASSUME SubmitForm PROVE FetchTypes'
  BY <1>7, FetchStays DEF SubmitForm
<1>8. ASSUME CloseForm PROVE FetchTypes'
  BY <1>8, FetchStays DEF CloseForm
<1>9. ASSUME SaveForm PROVE FetchTypes'
  BY <1>9, FetchStays DEF SaveForm
<1>10. ASSUME ReadIdp PROVE FetchTypes'
  BY <1>10, FetchStays DEF ReadIdp
<1>11. ASSUME SaveIdp PROVE FetchTypes'
  BY <1>11, FetchStays DEF SaveIdp
<1>12. ASSUME NEW k \in {"create", "switch", "delete", "mail"}, SendChange(k) PROVE FetchTypes'
  BY <1>12, FetchStays DEF SendChange
<1>13. ASSUME CreateRow PROVE FetchTypes'
  BY <1>13, FetchStays DEF CreateRow
<1>14. ASSUME SwitchRow PROVE FetchTypes'
  <2>1. CASE UNCHANGED fetch
    BY <2>1, FetchStays
  <2>2. CASE fetch' = [l \in Fetch |-> [fetch[l] EXCEPT !.missed = @ \/ fetch[l].at = "answered"]]
    BY <2>2, FetchMisses
  <2>3. QED
    BY <1>14, <2>1, <2>2 DEF SwitchRow
<1>15. ASSUME DeleteRow PROVE FetchTypes'
  BY <1>15, FetchStays DEF DeleteRow
<1>16. ASSUME LandChange PROVE FetchTypes'
  <2>1. CASE UNCHANGED fetch
    BY <2>1, FetchStays
  <2>2. CASE \E l \in Free : fetch' = StartFetch(l, want)
    <3>1. want \in Query
      BY <1>16 DEF LandChange, QuietInv, PageTypes
    <3>2. QED
      BY <2>2, <3>1, FetchStarts
  <2>3. QED
    BY <1>16, <2>1, <2>2 DEF LandChange
<1>17. ASSUME Elsewhere PROVE FetchTypes'
  <2>1. fetch' = [l \in Fetch |-> [fetch[l] EXCEPT !.missed = @ \/ fetch[l].at = "answered"]]
    BY <1>17 DEF Elsewhere
  <2>2. QED
    BY <2>1, FetchMisses
<1>18. QED
  BY <1>1, <1>2, <1>3, <1>4, <1>5, <1>6, <1>7, <1>8, <1>9, <1>10, <1>11, <1>12, <1>13, <1>14, <1>15, <1>16, <1>17 DEF PagesNext

LEMMA PageChangeTypesKept == PagesInv /\ PagesNext => ChangeTypes'
<1> SUFFICES ASSUME PagesInv, PagesNext PROVE ChangeTypes'
  OBVIOUS
<1>0. ChangeTypes
  BY DEF PagesInv, PageTypesAll
<1> USE <1>0
<1>1. ASSUME NEW l \in Fetch, MountPage(l) PROVE ChangeTypes'
  BY <1>1 DEF MountPage, ChangeTypes
<1>2. ASSUME NEW l \in Fetch, Refetch(l) PROVE ChangeTypes'
  BY <1>2 DEF Refetch, ChangeTypes
<1>3. ASSUME NEW l \in Fetch, ReadRows(l) PROVE ChangeTypes'
  BY <1>3 DEF ReadRows, ChangeTypes
<1>4. ASSUME NEW l \in Fetch, LandRows(l) PROVE ChangeTypes'
  BY <1>4 DEF LandRows, ChangeTypes
<1>5. ASSUME NEW l \in Fetch, NEW q \in Query, Search(l, q) PROVE ChangeTypes'
  BY <1>5 DEF Search, ChangeTypes
<1>6. ASSUME OpenForm PROVE ChangeTypes'
  <2> DEFINE b == AtRest /\ ~stale
  <2> DEFINE o == place = "idps" /\ list.row.on
  <2>1. form' = [open |-> TRUE, flag |-> list.row.flag, on |-> o, fresh |-> b] /\ change' = change
    BY <1>6 DEF OpenForm
  <2>2. b \in BOOLEAN /\ o \in BOOLEAN /\ list.row.flag \in BOOLEAN
    BY DEF PagesInv, PageTypesAll, TableTypes, TableRow
  <2> HIDE DEF b, o
  <2>3. QED
    BY <2>1, <2>2 DEF ChangeTypes
<1>7. ASSUME SubmitForm PROVE ChangeTypes'
  BY <1>7, FormSent DEF ChangeTypes
<1>8. ASSUME CloseForm PROVE ChangeTypes'
  BY <1>8, ChangesTyped DEF CloseForm, ChangeTypes
<1>9. ASSUME SaveForm PROVE ChangeTypes'
  <2> DEFINE ok == table.there \/ place = "tenants"
  <2>1. ok \in BOOLEAN /\ form' = form /\ change' = Answered(ok)
    BY <1>9 DEF SaveForm, PagesInv, PageTypesAll, TableTypes, TableRow
  <2> HIDE DEF ok
  <2>2. QED
    BY <2>1, ChangesTyped DEF ChangeTypes
<1>10. ASSUME ReadIdp PROVE ChangeTypes'
  <2>1. change' = [change EXCEPT !.at = "read", !.saw = table.flag, !.fresh = TRUE] \/ change' = Answered(FALSE)
    BY <1>10 DEF ReadIdp
  <2>2. table.flag \in BOOLEAN
    BY DEF PagesInv, PageTypesAll, TableTypes, TableRow
  <2>3. form' = form
    BY <1>10 DEF ReadIdp
  <2>4. \A b \in BOOLEAN : [change EXCEPT !.at = "read", !.saw = b, !.fresh = TRUE] \in Changing
    BY DEF ChangeTypes, Changing
  <2>5. QED
    BY <2>1, <2>2, <2>3, <2>4, ChangesTyped DEF ChangeTypes
<1>11. ASSUME SaveIdp PROVE ChangeTypes'
  BY <1>11, ChangesTyped DEF SaveIdp, ChangeTypes
<1>12. ASSUME NEW k \in {"create", "switch", "delete", "mail"}, SendChange(k) PROVE ChangeTypes'
  <2>1. k \in Kind
    BY DEF Kind
  <2>2. QED
    BY <1>12, <2>1, SendTyped DEF ChangeTypes
<1>13. ASSUME CreateRow PROVE ChangeTypes'
  <2>1. (~table.there) \in BOOLEAN /\ form' = form /\ change' = Answered(~table.there)
    BY <1>13 DEF CreateRow
  <2>2. QED
    BY <2>1, ChangesTyped DEF ChangeTypes
<1>14. ASSUME SwitchRow PROVE ChangeTypes'
  <2>1. table.there \in BOOLEAN
    BY DEF PagesInv, PageTypesAll, TableTypes, TableRow
  <2>2. QED
    BY <1>14, <2>1, ChangesTyped DEF SwitchRow, ChangeTypes
<1>15. ASSUME DeleteRow PROVE ChangeTypes'
  <2> DEFINE ok == table.there \/ place = "tenants"
  <2>1. ok \in BOOLEAN /\ form' = form /\ change' = Answered(ok)
    BY <1>15 DEF DeleteRow, PagesInv, PageTypesAll, TableTypes, TableRow
  <2> HIDE DEF ok
  <2>2. QED
    BY <2>1, ChangesTyped DEF ChangeTypes
<1>16. ASSUME LandChange PROVE ChangeTypes'
  <2>1. change' = NoChange /\ (form' = NoForm \/ form' = form)
    BY <1>16 DEF LandChange
  <2>2. QED
    BY <2>1, ChangesTyped DEF ChangeTypes
<1>17. ASSUME Elsewhere PROVE ChangeTypes'
  <2> DEFINE m == change.at = "done"
  <2>1. m \in BOOLEAN /\ form' = [form EXCEPT !.fresh = FALSE]
        /\ change' = [change EXCEPT !.fresh = FALSE, !.known = FALSE, !.missed = m]
    BY <1>17 DEF Elsewhere
  <2> HIDE DEF m
  <2>2. QED
    BY <2>1 DEF ChangeTypes, Changing
<1>18. QED
  BY <1>1, <1>2, <1>3, <1>4, <1>5, <1>6, <1>7, <1>8, <1>9, <1>10, <1>11, <1>12, <1>13, <1>14, <1>15, <1>16, <1>17 DEF PagesNext

LEMMA PageQuietKept == PagesInv /\ PagesNext => QuietInv'
<1> SUFFICES ASSUME PagesInv, PagesNext PROVE QuietInv'
  OBVIOUS
<1> USE HereFacts DEF PagesInv, PageTypesAll, QuietInv, PageTypes, Query, Unasked, Loading, NoForm, NoChange, Answered
<1>1. ASSUME NEW l \in Fetch, MountPage(l) PROVE QuietInv'
  BY <1>1 DEF MountPage, PageTypes, Query, Unasked
<1>2. ASSUME NEW l \in Fetch, Refetch(l) PROVE QuietInv'
  BY <1>2 DEF Refetch, PageTypes, Query, Unasked
<1>3. ASSUME NEW l \in Fetch, ReadRows(l) PROVE QuietInv'
  BY <1>3 DEF ReadRows
<1>4. ASSUME NEW l \in Fetch, LandRows(l) PROVE QuietInv'
  BY <1>4 DEF LandRows
<1>5. ASSUME NEW l \in Fetch, NEW q \in Query, Search(l, q) PROVE QuietInv'
  BY <1>5 DEF Search, PageTypes, Query, Unasked
<1>6. ASSUME OpenForm PROVE QuietInv'
  BY <1>6 DEF OpenForm, PageTypes, Query, Unasked
<1>7. ASSUME SubmitForm PROVE QuietInv'
  BY <1>7 DEF SubmitForm
<1>8. ASSUME CloseForm PROVE QuietInv'
  BY <1>8 DEF CloseForm
<1>9. ASSUME SaveForm PROVE QuietInv'
  BY <1>9 DEF SaveForm
<1>10. ASSUME ReadIdp PROVE QuietInv'
  BY <1>10 DEF ReadIdp
<1>11. ASSUME SaveIdp PROVE QuietInv'
  BY <1>11 DEF SaveIdp
<1>12. ASSUME NEW k \in {"create", "switch", "delete", "mail"}, SendChange(k) PROVE QuietInv'
  BY <1>12 DEF SendChange, PageTypes, Query, Unasked
<1>13. ASSUME CreateRow PROVE QuietInv'
  BY <1>13 DEF CreateRow
<1>14. ASSUME SwitchRow PROVE QuietInv'
  BY <1>14 DEF SwitchRow
<1>15. ASSUME DeleteRow PROVE QuietInv'
  <2>1. table' = NoRow \/ table' = [table EXCEPT !.on = FALSE]
    BY <1>15 DEF DeleteRow
  <2>2. table.there \/ table = NoRow
    OBVIOUS
  <2>3. table'.there \/ table' = NoRow
    <3>1. [NoRow EXCEPT !.on = FALSE] = NoRow
      BY RowGone
    <3>2. table.there => [table EXCEPT !.on = FALSE].there
      BY DEF TableTypes, TableRow
    <3>3. QED
      BY <2>1, <2>2, <3>1, <3>2
  <2>4. UNCHANGED <<want, fetch, form>> /\ change.at # "idle"
    BY <1>15 DEF DeleteRow
  <2>5. QED
    BY <2>3, <2>4
<1>16. ASSUME LandChange PROVE QuietInv'
  BY <1>16 DEF LandChange
<1>17. ASSUME Elsewhere PROVE QuietInv'
  <2>1. table' = NoRow \/ table'.there
    <3>1. table' \in {NoRow} \cup {[table EXCEPT !.there = TRUE, ![f] = ~@] : f \in Fields}
      BY <1>17 DEF Elsewhere
    <3>2. ASSUME NEW f \in Fields PROVE [table EXCEPT !.there = TRUE, ![f] = ~@].there
      <4>1. f \in {"flag", "on"}
        BY DEF Fields
      <4>2. QED
        BY <4>1 DEF TableTypes, TableRow
    <3>3. QED
      BY <3>1, <3>2
  <2>2. fetch' = [l \in Fetch |-> [fetch[l] EXCEPT !.missed = @ \/ fetch[l].at = "answered"]]
    BY <1>17 DEF Elsewhere
  <2>3. Loading' = Loading
    BY <2>2, FetchMisses
  <2>4. want' = want /\ change'.at = change.at /\ form'.open = form.open
    BY <1>17 DEF Elsewhere, ChangeTypes, Changing
  <2>5. QED
    BY <2>1, <2>3, <2>4 DEF Loading
<1>18. QED
  BY <1>1, <1>2, <1>3, <1>4, <1>5, <1>6, <1>7, <1>8, <1>9, <1>10, <1>11, <1>12, <1>13, <1>14, <1>15, <1>16, <1>17 DEF PagesNext

LEMMA PageOrderKept == PagesInv /\ PagesNext => OrderInv'
<1> SUFFICES ASSUME PagesInv, PagesNext PROVE OrderInv'
  OBVIOUS
<1> USE DEF PagesInv, PageTypesAll, OrderInv
<1>1. ASSUME NEW l \in Fetch, MountPage(l) PROVE OrderInv'
  BY <1>1, FetchStarts DEF MountPage, QuietInv, Free, Query
<1>2. ASSUME NEW l \in Fetch, Refetch(l) PROVE OrderInv'
  BY <1>2, FetchStarts, HereFacts DEF Refetch, PageTypes
<1>3. ASSUME NEW l \in Fetch, ReadRows(l) PROVE OrderInv'
  BY <1>3, FetchReads
<1>4. ASSUME NEW l \in Fetch, LandRows(l) PROVE OrderInv'
  BY <1>4, FetchLands
<1>5. ASSUME NEW l \in Fetch, NEW q \in Query, Search(l, q) PROVE OrderInv'
  BY <1>5, FetchStarts DEF Search
<1>6. ASSUME OpenForm PROVE OrderInv'
  BY <1>6, FetchStays DEF OpenForm
<1>7. ASSUME SubmitForm PROVE OrderInv'
  BY <1>7, FetchStays DEF SubmitForm
<1>8. ASSUME CloseForm PROVE OrderInv'
  BY <1>8, FetchStays DEF CloseForm
<1>9. ASSUME SaveForm PROVE OrderInv'
  BY <1>9, FetchStays DEF SaveForm
<1>10. ASSUME ReadIdp PROVE OrderInv'
  BY <1>10, FetchStays DEF ReadIdp
<1>11. ASSUME SaveIdp PROVE OrderInv'
  BY <1>11, FetchStays DEF SaveIdp
<1>12. ASSUME NEW k \in {"create", "switch", "delete", "mail"}, SendChange(k) PROVE OrderInv'
  BY <1>12, FetchStays DEF SendChange
<1>13. ASSUME CreateRow PROVE OrderInv'
  BY <1>13, FetchStays DEF CreateRow
<1>14. ASSUME SwitchRow PROVE OrderInv'
  <2>1. CASE UNCHANGED fetch
    BY <2>1, FetchStays
  <2>2. CASE fetch' = [l \in Fetch |-> [fetch[l] EXCEPT !.missed = @ \/ fetch[l].at = "answered"]]
    BY <2>2, FetchMisses
  <2>3. QED
    BY <1>14, <2>1, <2>2 DEF SwitchRow
<1>15. ASSUME DeleteRow PROVE OrderInv'
  BY <1>15, FetchStays DEF DeleteRow
<1>16. ASSUME LandChange PROVE OrderInv'
  <2>1. CASE UNCHANGED fetch
    BY <2>1, FetchStays
  <2>2. CASE \E l \in Free : fetch' = StartFetch(l, want)
    <3>1. want \in Query
      BY <1>16 DEF LandChange, QuietInv, PageTypes
    <3>2. QED
      BY <2>2, <3>1, FetchStarts
  <2>3. QED
    BY <1>16, <2>1, <2>2 DEF LandChange
<1>17. ASSUME Elsewhere PROVE OrderInv'
  <2>1. fetch' = [l \in Fetch |-> [fetch[l] EXCEPT !.missed = @ \/ fetch[l].at = "answered"]]
    BY <1>17 DEF Elsewhere
  <2>2. QED
    BY <2>1, FetchMisses
<1>18. QED
  BY <1>1, <1>2, <1>3, <1>4, <1>5, <1>6, <1>7, <1>8, <1>9, <1>10, <1>11, <1>12, <1>13, <1>14, <1>15, <1>16, <1>17 DEF PagesNext

LEMMA PageFormKept == PagesInv /\ PagesNext => FormInv'
<1> SUFFICES ASSUME PagesInv, PagesNext PROVE FormInv'
  OBVIOUS
<1> USE DEF PagesInv, PageTypesAll, FormInv, PageTypes, ChangeTypes, TableTypes, Changing, NoForm, NoChange, Answered
<1>1. ASSUME NEW l \in Fetch, MountPage(l) PROVE FormInv'
  <2>1. UNCHANGED <<place, table, form, change>> /\ want = Unasked
    BY <1>1 DEF MountPage
  <2>2. QED
    BY <2>1 DEF QuietInv
<1>2. ASSUME NEW l \in Fetch, Refetch(l) PROVE FormInv'
  <2>1. UNCHANGED <<place, table, form, change>>
    BY <1>2 DEF Refetch
  <2>2. Here' = Here
    BY <1>2, HereStays, HereSearches DEF Refetch, PageTypes, Query, Unasked
  <2>3. QED
    BY <2>1, <2>2
<1>3. ASSUME NEW l \in Fetch, ReadRows(l) PROVE FormInv'
  <2>1. UNCHANGED <<place, table, form, change>>
    BY <1>3 DEF ReadRows
  <2>2. Here' = Here
    BY <1>3, HereStays, HereSearches DEF ReadRows, PageTypes, Query, Unasked
  <2>3. QED
    BY <2>1, <2>2
<1>4. ASSUME NEW l \in Fetch, LandRows(l) PROVE FormInv'
  <2>1. UNCHANGED <<place, table, form, change>>
    BY <1>4 DEF LandRows
  <2>2. Here' = Here
    BY <1>4, HereStays, HereSearches DEF LandRows, PageTypes, Query, Unasked
  <2>3. QED
    BY <2>1, <2>2
<1>5. ASSUME NEW l \in Fetch, NEW q \in Query, Search(l, q) PROVE FormInv'
  <2>1. UNCHANGED <<place, table, form, change>>
    BY <1>5 DEF Search
  <2>2. Here' = Here
    BY <1>5, HereStays, HereSearches DEF Search, PageTypes, Query, Unasked
  <2>3. QED
    BY <2>1, <2>2
<1>6. ASSUME OpenForm PROVE FormInv'
  <2>1. UNCHANGED <<place, table, want>>
    BY <1>6 DEF OpenForm
  <2>2. Here' = Here
    BY <2>1, HereStays

  <2>3. change' = change /\ change.at = "idle" /\ "edit" \in Here.kinds /\ form'.flag = list.row.flag /\ (form'.fresh => AtRest /\ ~stale)
    BY <1>6 DEF OpenForm
  <2>4. AtRest /\ ~stale /\ place # "idps" => list.row = table
    BY <2>3, RowFacts DEF AtRest, PageListInv, Owed, Switched, ShownRow, TableTypes
  <2>5. AtRest /\ ~stale => list.row = Redacted(table)
    BY <2>3, RowFacts DEF AtRest, PageListInv, Owed, Switched, ShownRow, TableTypes
  <2>6. AtRest /\ ~stale => list.row.on = table.on
    BY <2>5, RedactedOn DEF TableTypes
  <2>7. place = "idps" => form'.on = list.row.on
    <3>1. list.row.on \in BOOLEAN
      BY DEF TableRow
    <3>2. QED
      BY <1>6, <3>1 DEF OpenForm
  <2>8. QED
    BY <2>1, <2>2, <2>3, <2>4, <2>6, <2>7
<1>7. ASSUME SubmitForm PROVE FormInv'
  <2>1. UNCHANGED <<place, table, want>>
    BY <1>7 DEF SubmitForm
  <2>2. Here' = Here
    BY <2>1, HereStays

  <2>3. /\ form' = form /\ form.open /\ change.at = "idle" /\ change'.at = "sent" /\ change'.kind = "edit"
        /\ change'.keeps => change'.value = form.flag
        /\ change'.keepsOn => change'.on = form.on
        /\ change'.fresh = form.fresh /\ change'.known = form.fresh
    BY <1>7, FormSent
  <2>4. "edit" \in Here.kinds
    BY <2>3
  <2>5. QED
    BY <2>1, <2>2, <2>3, <2>4
<1>8. ASSUME CloseForm PROVE FormInv'
  <2>1. UNCHANGED <<place, table, change>> /\ form' = NoForm /\ NoForm.open = FALSE /\ change.at = "idle"
    BY <1>8 DEF CloseForm
  <2>2. QED
    BY <2>1
<1>9. ASSUME SaveForm PROVE FormInv'
  <2>1. UNCHANGED <<place, form, want>>
    BY <1>9 DEF SaveForm
  <2>2. Here' = Here
    BY <2>1, HereStays

  <2>0. table.there \in BOOLEAN
    BY DEF TableRow
  <2>3. (table.there \/ place = "tenants") \in BOOLEAN
    BY <2>0
  <2>4. change' = Answered((table.there \/ place = "tenants")) /\ change.at # "idle"
    BY <1>9 DEF SaveForm
  <2>5. change'.at = "done" /\ change'.kind = change.kind /\ change'.ok = ((table.there \/ place = "tenants"))
    BY <2>3, <2>4, ChangeAnswers
  <2>6. change.kind = "edit" /\ (table.there \/ table' = table)
    BY <1>9 DEF SaveForm
  <2>7. QED
    BY <2>1, <2>2, <2>4, <2>5, <2>6
<1>10. ASSUME ReadIdp PROVE FormInv'
  <2>1. UNCHANGED <<place, table, form, want>>
    BY <1>10 DEF ReadIdp
  <2>2. Here' = Here
    BY <2>1, HereStays

  <2>3. change.at = "sent" /\ change.kind = "edit" /\ place = "idps"
    BY <1>10 DEF ReadIdp
  <2>4. CASE change' = [change EXCEPT !.at = "read", !.saw = table.flag, !.fresh = TRUE]
    <3>1. /\ change'.at = "read" /\ change'.saw = table.flag /\ change'.kind = change.kind
          /\ change'.on = change.on /\ change'.keepsOn = change.keepsOn /\ change'.known = change.known
      BY <2>4
    <3>2. QED
      BY <2>1, <2>2, <2>3, <3>1
  <2>5. CASE change' = Answered(FALSE)
    <3>1. change'.at = "done" /\ change'.kind = change.kind
      BY <2>5, ChangeAnswers
    <3>2. QED
      BY <2>1, <2>2, <2>3, <3>1
  <2>6. QED
    BY <1>10, <2>4, <2>5 DEF ReadIdp
<1>11. ASSUME SaveIdp PROVE FormInv'
  <2>1. UNCHANGED <<place, form, want>>
    BY <1>11 DEF SaveIdp
  <2>2. Here' = Here
    BY <2>1, HereStays

  <2>0. table.there \in BOOLEAN
    BY DEF TableRow
  <2>3. TRUE \in BOOLEAN
    BY <2>0
  <2>4. change' = Answered(TRUE) /\ change.at # "idle"
    BY <1>11 DEF SaveIdp
  <2>5. change'.at = "done" /\ change'.kind = change.kind /\ change'.ok = (TRUE)
    BY <2>3, <2>4, ChangeAnswers
  <2>6. change.kind = "edit"
    BY <1>11 DEF SaveIdp
  <2>7. QED
    BY <2>1, <2>2, <2>4, <2>5, <2>6
<1>12. ASSUME NEW k \in {"create", "switch", "delete", "mail"}, SendChange(k) PROVE FormInv'
  <2>1. UNCHANGED <<place, table, form, want>>
    BY <1>12 DEF SendChange
  <2>2. Here' = Here
    BY <2>1, HereStays

  <2>3. ~form.open /\ k \in Here.kinds /\ change'.at = "sent" /\ change'.kind = k /\ k # "edit"
    BY <1>12 DEF SendChange, NoChange
  <2>4. QED
    BY <2>1, <2>2, <2>3
<1>13. ASSUME CreateRow PROVE FormInv'
  <2>1. UNCHANGED <<place, form, want>>
    BY <1>13 DEF CreateRow
  <2>2. Here' = Here
    BY <2>1, HereStays

  <2>0. table.there \in BOOLEAN
    BY DEF TableRow
  <2>3. (~table.there) \in BOOLEAN
    BY <2>0
  <2>4. change' = Answered((~table.there)) /\ change.at # "idle"
    BY <1>13 DEF CreateRow
  <2>5. change'.at = "done" /\ change'.kind = change.kind /\ change'.ok = ((~table.there))
    BY <2>3, <2>4, ChangeAnswers
  <2>6. change.kind = "create"
    BY <1>13 DEF CreateRow
  <2>7. QED
    BY <2>1, <2>2, <2>4, <2>5, <2>6
<1>14. ASSUME SwitchRow PROVE FormInv'
  <2>1. UNCHANGED <<place, form, want>>
    BY <1>14 DEF SwitchRow
  <2>2. Here' = Here
    BY <2>1, HereStays

  <2>0. table.there \in BOOLEAN
    BY DEF TableRow
  <2>3. table.there \in BOOLEAN
    BY <2>0
  <2>4. change' = Answered(table.there) /\ change.at # "idle"
    BY <1>14 DEF SwitchRow
  <2>5. change'.at = "done" /\ change'.kind = change.kind /\ change'.ok = (table.there)
    BY <2>3, <2>4, ChangeAnswers
  <2>6. change.kind # "edit"
    BY <1>14 DEF SwitchRow
  <2>7. QED
    BY <2>1, <2>2, <2>4, <2>5, <2>6
<1>15. ASSUME DeleteRow PROVE FormInv'
  <2>1. UNCHANGED <<place, form, want>>
    BY <1>15 DEF DeleteRow
  <2>2. Here' = Here
    BY <2>1, HereStays

  <2>0. table.there \in BOOLEAN
    BY DEF TableRow
  <2>3. (table.there \/ place = "tenants") \in BOOLEAN
    BY <2>0
  <2>4. change' = Answered((table.there \/ place = "tenants")) /\ change.at # "idle"
    BY <1>15 DEF DeleteRow
  <2>5. change'.at = "done" /\ change'.kind = change.kind /\ change'.ok = ((table.there \/ place = "tenants"))
    BY <2>3, <2>4, ChangeAnswers
  <2>6. change.kind # "edit"
    BY <1>15 DEF DeleteRow
  <2>7. QED
    BY <2>1, <2>2, <2>4, <2>5, <2>6
<1>16. ASSUME LandChange PROVE FormInv'
  <2>1. UNCHANGED <<place, table, want>>
    BY <1>16 DEF LandChange
  <2>2. Here' = Here
    BY <2>1, HereStays

  <2>3. change.at = "done" /\ change' = NoChange /\ NoChange.at = "idle"
        /\ form' = IF change.kind = "edit" /\ change.ok THEN NoForm ELSE form
    BY <1>16 DEF LandChange, NoChange
  <2>4. form' = NoForm \/ (form' = form /\ (form.open => ~change.ok))
    BY <2>3
  <2>5. NoForm.open = FALSE
    BY DEF NoForm
  <2>6. QED
    BY <2>1, <2>2, <2>3, <2>4, <2>5
<1>17. ASSUME Elsewhere PROVE FormInv'
  <2>1. UNCHANGED <<place, want>>
    BY <1>17 DEF Elsewhere
  <2>2. Here' = Here
    BY <2>1, HereStays

  <2>3. form' = [form EXCEPT !.fresh = FALSE] /\ change' = [change EXCEPT !.fresh = FALSE, !.known = FALSE, !.missed = change.at = "done"]
    BY <1>17 DEF Elsewhere
  <2>4. form'.open = form.open /\ form'.flag = form.flag /\ form'.on = form.on /\ form'.fresh = FALSE
    BY <2>3
  <2>5. change'.at = change.at /\ change'.kind = change.kind /\ change'.keeps = change.keeps
        /\ change'.value = change.value /\ change'.fresh = FALSE /\ change'.on = change.on
        /\ change'.keepsOn = change.keepsOn /\ change'.known = FALSE
    BY <2>3
  <2>6. QED
    BY <2>1, <2>2, <2>4, <2>5
<1>18. QED
  BY <1>1, <1>2, <1>3, <1>4, <1>5, <1>6, <1>7, <1>8, <1>9, <1>10, <1>11, <1>12, <1>13, <1>14, <1>15, <1>16, <1>17 DEF PagesNext

LEMMA PageLoadsKept == PagesInv /\ PagesNext => FetchInv'
<1> SUFFICES ASSUME PagesInv, PagesNext PROVE FetchInv'
  OBVIOUS
<1> USE DEF PagesInv, PageTypesAll, FetchInv
<1>1. ASSUME NEW l \in Fetch, MountPage(l) PROVE FetchInv'
  <2>1. l \in Free /\ want' \in Query /\ fetch' = StartFetch(l, want')
    BY <1>1 DEF MountPage, Free, QuietInv, Query
  <2>2. QED
    BY <2>1, FetchStarts
<1>2. ASSUME NEW l \in Fetch, Refetch(l) PROVE FetchInv'
  <2>1. l \in Free /\ want' = want /\ fetch' = StartFetch(l, want) /\ want # Unasked
    BY <1>2, HereFacts DEF Refetch, PageTypes
  <2>2. want \in Query
    BY <2>1 DEF PageTypes
  <2>3. QED
    BY <2>1, <2>2, FetchStarts
<1>3. ASSUME NEW l \in Fetch, ReadRows(l) PROVE FetchInv'
  <2>1. UNCHANGED <<place, table, want, change>>
    BY <1>3 DEF ReadRows
  <2>2. Owed' = Owed /\ Redacted(table)' = Redacted(table)
    BY <2>1, HereStays DEF Owed, Redacted
  <2>3. /\ fetch'[l].row = Redacted(table) /\ fetch'[l].query = fetch[l].query
        /\ \A k \in Fetch : Newest(k)' => Newest(k)
        /\ \A k \in Fetch \ {l} : fetch'[k] = fetch[k]
    BY <1>3, FetchReads
  <2>4. QED
    BY <2>1, <2>2, <2>3
<1>4. ASSUME NEW l \in Fetch, LandRows(l) PROVE FetchInv'
  <2>1. UNCHANGED <<place, table, want, change>>
    BY <1>4 DEF LandRows
  <2>2. Owed' = Owed /\ Redacted(table)' = Redacted(table)
    BY <2>1, HereStays DEF Owed, Redacted
  <2>3. \A k \in Fetch : Newest(k)' =>
              /\ k # l /\ Newest(k) /\ fetch'[k].at = fetch[k].at /\ fetch'[k].query = fetch[k].query
              /\ fetch'[k].row = fetch[k].row /\ fetch'[k].missed = fetch[k].missed
    BY <1>4, FetchLands
  <2>4. QED
    BY <2>1, <2>2, <2>3
<1>5. ASSUME NEW l \in Fetch, NEW q \in Query, Search(l, q) PROVE FetchInv'
  <2>1. l \in Free /\ want' \in Query /\ fetch' = StartFetch(l, want')
    BY <1>5 DEF Search, Free
  <2>2. QED
    BY <2>1, FetchStarts
<1>6. ASSUME OpenForm PROVE FetchInv'
  <2>1. UNCHANGED <<place, table, want, change, fetch>>
    BY <1>6 DEF OpenForm
  <2>2. Owed' = Owed
    BY <2>1, HereStays DEF Owed
  <2>3. QED
    BY <2>1, <2>2, FetchInvStays
<1>7. ASSUME SubmitForm PROVE FetchInv'
  <2>1. UNCHANGED <<place, table, want, fetch>> /\ change.at # "done"
    BY <1>7 DEF SubmitForm
  <2>2. ~Owed
    BY <2>1 DEF Owed
  <2>3. QED
    BY <2>1, <2>2, FetchInvStays
<1>8. ASSUME CloseForm PROVE FetchInv'
  <2>1. UNCHANGED <<place, table, want, change, fetch>>
    BY <1>8 DEF CloseForm
  <2>2. Owed' = Owed
    BY <2>1, HereStays DEF Owed
  <2>3. QED
    BY <2>1, <2>2, FetchInvStays
<1>9. ASSUME SaveForm PROVE FetchInv'
  <2>1. UNCHANGED <<place, want, fetch>> /\ change.at \in {"sent", "read"} /\ change' = Answered((table.there \/ place = "tenants"))
    BY <1>9 DEF SaveForm
  <2>2. ~Owed /\ Here' = Here
    BY <2>1, HereStays DEF Owed
  <2>3. (table.there \/ place = "tenants") \in BOOLEAN
    BY DEF TableTypes, TableRow
  <2>4. change'.at = "done" /\ change'.kind = change.kind /\ (change'.ok <=> (table.there \/ place = "tenants"))
    BY <2>1, <2>3, ChangeAnswers
  <2>5. change.kind \in Here.reload
    BY <1>9, <2>1, HereFacts DEF FormInv, PageTypes, SaveForm
  <2>6. (table.there \/ place = "tenants") => Owed'
    BY <2>2, <2>4, <2>5 DEF Owed
  <2>7. ~table.there => table' = table
    BY <1>9 DEF SaveForm
  <2>8. QED
    BY <2>1, <2>2, <2>6, <2>7, FetchInvStays
<1>10. ASSUME ReadIdp PROVE FetchInv'
  <2>1. UNCHANGED <<place, table, want, fetch>> /\ change.at # "done"
    BY <1>10 DEF ReadIdp
  <2>2. ~Owed
    BY <2>1 DEF Owed
  <2>3. QED
    BY <2>1, <2>2, FetchInvStays
<1>11. ASSUME SaveIdp PROVE FetchInv'
  <2>1. UNCHANGED <<place, want, fetch>> /\ change.at \in {"sent", "read"} /\ change' = Answered(TRUE)
    BY <1>11 DEF SaveIdp
  <2>2. ~Owed /\ Here' = Here
    BY <2>1, HereStays DEF Owed
  <2>3. TRUE \in BOOLEAN
    BY DEF TableTypes, TableRow
  <2>4. change'.at = "done" /\ change'.kind = change.kind /\ (change'.ok <=> TRUE)
    BY <2>1, <2>3, ChangeAnswers
  <2>5. change.kind \in Here.reload
    BY <1>11, <2>1, HereFacts DEF FormInv, PageTypes, SaveIdp
  <2>6. TRUE => Owed'
    BY <2>2, <2>4, <2>5 DEF Owed
  <2>7. TRUE
    OBVIOUS
  <2>8. QED
    BY <2>1, <2>2, <2>6, <2>7, FetchInvStays
<1>12. ASSUME NEW k \in {"create", "switch", "delete", "mail"}, SendChange(k) PROVE FetchInv'
  <2>1. UNCHANGED <<place, table, want, fetch>> /\ change.at # "done"
    BY <1>12 DEF SendChange
  <2>2. ~Owed
    BY <2>1 DEF Owed
  <2>3. QED
    BY <2>1, <2>2, FetchInvStays
<1>13. ASSUME CreateRow PROVE FetchInv'
  <2>1. UNCHANGED <<place, want, fetch>> /\ change.at \in {"sent", "read"} /\ change' = Answered((~table.there))
    BY <1>13 DEF CreateRow
  <2>2. ~Owed /\ Here' = Here
    BY <2>1, HereStays DEF Owed
  <2>3. (~table.there) \in BOOLEAN
    BY DEF TableTypes, TableRow
  <2>4. change'.at = "done" /\ change'.kind = change.kind /\ (change'.ok <=> (~table.there))
    BY <2>1, <2>3, ChangeAnswers
  <2>5. change.kind \in Here.reload
    BY <1>13, <2>1, HereFacts DEF FormInv, PageTypes, CreateRow
  <2>6. (~table.there) => Owed'
    BY <2>2, <2>4, <2>5 DEF Owed
  <2>7. table.there => table' = table
    BY <1>13 DEF CreateRow
  <2>8. QED
    BY <2>1, <2>2, <2>6, <2>7, FetchInvStays
<1>14. ASSUME SwitchRow PROVE FetchInv'
  <2>1. UNCHANGED <<place, want>> /\ change.at = "sent" /\ change' = Answered(table.there)
    BY <1>14 DEF SwitchRow
  <2>2. CASE change.kind \in Here.reload
    <3>1. fetch' = fetch
      BY <1>14, <2>2 DEF SwitchRow
    <3>2. ~Owed /\ Here' = Here
      BY <2>1, HereStays DEF Owed
    <3>3. table.there \in BOOLEAN
      BY DEF TableTypes, TableRow
    <3>4. table.there => Owed'
      BY <2>1, <2>2, <3>2, <3>3, ChangeAnswers DEF Owed
    <3>5. ~table.there => table' = table
      BY <1>14 DEF SwitchRow
    <3>6. QED
      BY <2>1, <3>1, <3>2, <3>4, <3>5, FetchInvStays
  <2>3. CASE change.kind \notin Here.reload
    <3>1. fetch' = [k \in Fetch |-> [fetch[k] EXCEPT !.missed = @ \/ fetch[k].at = "answered"]]
      BY <1>14, <2>3 DEF SwitchRow
    <3>2. \A k \in Fetch : /\ Newest(k)' => Newest(k)
                           /\ fetch'[k].query = fetch[k].query
                           /\ fetch'[k].at = "asked" \/ fetch'[k].missed \/ k \notin Loading
      BY <3>1, FetchMisses
    <3>3. QED
      BY <2>1, <3>2 DEF Newest
  <2>4. QED
    BY <2>2, <2>3
<1>15. ASSUME DeleteRow PROVE FetchInv'
  <2>1. UNCHANGED <<place, want, fetch>> /\ change.at \in {"sent", "read"} /\ change' = Answered((table.there \/ place = "tenants"))
    BY <1>15 DEF DeleteRow
  <2>2. ~Owed /\ Here' = Here
    BY <2>1, HereStays DEF Owed
  <2>3. (table.there \/ place = "tenants") \in BOOLEAN
    BY DEF TableTypes, TableRow
  <2>4. change'.at = "done" /\ change'.kind = change.kind /\ (change'.ok <=> (table.there \/ place = "tenants"))
    BY <2>1, <2>3, ChangeAnswers
  <2>5. change.kind \in Here.reload
    BY <1>15, <2>1, HereFacts DEF FormInv, PageTypes, DeleteRow
  <2>6. (table.there \/ place = "tenants") => Owed'
    BY <2>2, <2>4, <2>5 DEF Owed
  <2>7. ~table.there => table' = table
    BY <1>15, RowGone DEF DeleteRow, QuietInv
  <2>8. QED
    BY <2>1, <2>2, <2>6, <2>7, FetchInvStays
<1>16. ASSUME LandChange PROVE FetchInv'
  <2>1. UNCHANGED <<place, table, want>> /\ change.at = "done"
    BY <1>16 DEF LandChange
  <2>2. CASE Owed
    <3>1. PICK l \in Free : fetch' = StartFetch(l, want)
      BY <1>16, <2>2 DEF LandChange, Owed
    <3>2. want \in Query
      BY <2>1 DEF QuietInv, PageTypes
    <3>3. QED
      BY <2>1, <3>1, <3>2, FetchStarts
  <2>3. CASE ~Owed
    <3>1. fetch' = fetch
      BY <1>16, <2>1, <2>3 DEF LandChange, Owed
    <3>2. QED
      BY <2>1, <2>3, <3>1, FetchInvStays
  <2>4. QED
    BY <2>2, <2>3
<1>17. ASSUME Elsewhere PROVE FetchInv'
  <2>1. UNCHANGED <<place, want>>
    BY <1>17 DEF Elsewhere
  <2>2. fetch' = [k \in Fetch |-> [fetch[k] EXCEPT !.missed = @ \/ fetch[k].at = "answered"]]
    BY <1>17 DEF Elsewhere
  <2>3. \A k \in Fetch : /\ Newest(k)' => Newest(k)
                         /\ fetch'[k].query = fetch[k].query
                         /\ fetch'[k].at = "asked" \/ fetch'[k].missed \/ k \notin Loading
    BY <2>2, FetchMisses
  <2>4. QED
    BY <2>1, <2>3 DEF Newest
<1>18. QED
  BY <1>1, <1>2, <1>3, <1>4, <1>5, <1>6, <1>7, <1>8, <1>9, <1>10, <1>11, <1>12, <1>13, <1>14, <1>15, <1>16, <1>17 DEF PagesNext

LEMMA PageListKept == PagesInv /\ PagesNext => PageListInv'
<1> SUFFICES ASSUME PagesInv, PagesNext PROVE PageListInv'
  OBVIOUS
<1> USE DEF PagesInv, PageTypesAll, PageListInv
<1>1. ASSUME NEW l \in Fetch, MountPage(l) PROVE PageListInv'
  <2>1. l \in Free /\ want' \in Query /\ fetch' = StartFetch(l, want') /\ UNCHANGED <<place, table, change>>
    BY <1>1 DEF MountPage, Free, QuietInv, Query
  <2>2. l \in Loading'
    BY <2>1, FetchStarts
  <2>3. QED
    BY <2>1, <2>2 DEF Switched
<1>2. ASSUME NEW l \in Fetch, Refetch(l) PROVE PageListInv'
  <2>1. l \in Free /\ want' = want /\ fetch' = StartFetch(l, want) /\ want # Unasked /\ UNCHANGED <<place, table, change>>
    BY <1>2, HereFacts DEF Refetch, PageTypes
  <2>2. want \in Query
    BY <2>1 DEF PageTypes
  <2>3. l \in Loading'
    BY <2>1, <2>2, FetchStarts
  <2>4. QED
    BY <2>1, <2>3 DEF Switched
<1>3. ASSUME NEW l \in Fetch, ReadRows(l) PROVE PageListInv'
  <2>1. UNCHANGED <<place, table, change>> /\ l \in Loading
    BY <1>3 DEF ReadRows, Loading
  <2>2. Loading' = Loading
    BY <1>3, FetchReads
  <2>3. QED
    BY <2>1, <2>2 DEF Switched
<1>4. ASSUME NEW l \in Fetch, LandRows(l) PROVE PageListInv'
  <2>1. UNCHANGED <<place, table, want, change>> /\ fetch[l].at = "answered"
    BY <1>4 DEF LandRows
  <2>2. Owed' = Owed /\ Redacted(table)' = Redacted(table) /\ Switched' = Switched
    BY <2>1, HereStays DEF Owed, Redacted, Switched
  <2>3. l \in Loading /\ Loading' = Loading \ {l}
    BY <1>4, FetchLands
  <2>4. CASE Loading' # {} \/ stale'
    BY <2>1, <2>2, <2>4 DEF Switched
  <2>5. CASE Loading' = {} /\ ~stale' /\ ~Owed /\ ~(Switched /\ (change.missed \/ ~change.ok))
    <3>1. list' = [row |-> fetch[l].row, query |-> fetch[l].query] /\ ~fetch[l].overtaken /\ ~fetch[l].missed
      BY <1>4, <2>5 DEF LandRows
    <3>2. Newest(l)
      BY <2>3, <2>5, <3>1 DEF Newest
    <3>3. list'.query = want /\ list'.row = Redacted(table)
      BY <2>1, <2>5, <3>1, <3>2 DEF FetchInv
    <3>4. Switched => [table EXCEPT !.on = change.value] = table /\ Redacted(table) = table
      <4>1. SUFFICES ASSUME Switched PROVE [table EXCEPT !.on = change.value] = table /\ Redacted(table) = table
        OBVIOUS
      <4>2. place = "rules" /\ table.on = change.value /\ table \in TableRow
        BY <2>5, <4>1 DEF Switched, TableTypes
      <4>3. [table EXCEPT !.on = table.on] = table
        BY <4>2 DEF TableRow
      <4>4. QED
        BY <4>2, <4>3 DEF Redacted
    <3>5. ShownRow' = Redacted(table)
      BY <2>1, <2>2, <3>3, <3>4 DEF ShownRow, Switched
    <3>6. QED
      BY <2>1, <2>2, <3>3, <3>5 DEF Switched
  <2>6. QED
    BY <2>1, <2>2, <2>4, <2>5
<1>5. ASSUME NEW l \in Fetch, NEW q \in Query, Search(l, q) PROVE PageListInv'
  <2>1. l \in Free /\ want' \in Query /\ fetch' = StartFetch(l, want') /\ UNCHANGED <<place, table, change>>
    BY <1>5 DEF Search, Free
  <2>2. l \in Loading'
    BY <2>1, FetchStarts
  <2>3. QED
    BY <2>1, <2>2 DEF Switched
<1>6. ASSUME OpenForm PROVE PageListInv'
  <2>1. UNCHANGED <<place, table, want, change, fetch, list, stale>>
    BY <1>6 DEF OpenForm
  <2>2. Owed' = Owed /\ Loading' = Loading /\ Switched' = Switched /\ ShownRow' = ShownRow
        /\ Redacted(table)' = Redacted(table)
    BY <2>1, HereStays, FetchStays DEF Owed, Switched, ShownRow, Redacted
  <2>3. QED
    BY <2>1, <2>2
<1>7. ASSUME SubmitForm PROVE PageListInv'
  <2>1. UNCHANGED <<place, table, list, want, fetch, stale>> /\ change.at # "done"
    BY <1>7 DEF SubmitForm
  <2>2. ~Switched'
    BY <1>7, ChangeAnswers DEF SubmitForm, Switched, NoChange
  <2>3. QED
    BY <2>1, <2>2, PageListStays
<1>8. ASSUME CloseForm PROVE PageListInv'
  <2>1. UNCHANGED <<place, table, want, change, fetch, list, stale>>
    BY <1>8 DEF CloseForm
  <2>2. Owed' = Owed /\ Loading' = Loading /\ Switched' = Switched /\ ShownRow' = ShownRow
        /\ Redacted(table)' = Redacted(table)
    BY <2>1, HereStays, FetchStays DEF Owed, Switched, ShownRow, Redacted
  <2>3. QED
    BY <2>1, <2>2
<1>9. ASSUME SaveForm PROVE PageListInv'
  <2>1. UNCHANGED <<place, list, want, fetch, stale>> /\ change.at \in {"sent", "read"} /\ change' = Answered((table.there \/ place = "tenants"))
    BY <1>9 DEF SaveForm
  <2>2. ~Owed /\ Here' = Here
    BY <2>1, HereStays DEF Owed
  <2>3. (table.there \/ place = "tenants") \in BOOLEAN
    BY DEF TableTypes, TableRow
  <2>4. change'.at = "done" /\ change'.kind = change.kind /\ (change'.ok <=> (table.there \/ place = "tenants"))
    BY <2>1, <2>3, ChangeAnswers
  <2>5. change.kind \in Here.reload /\ place # "rules"
    BY <1>9, <2>1, HereFacts DEF FormInv, PageTypes, SaveForm
  <2>6. ((table.there \/ place = "tenants") => Owed') /\ ~Switched'
    BY <2>1, <2>2, <2>4, <2>5 DEF Owed, Switched
  <2>7. ~table.there => table' = table
    BY <1>9 DEF SaveForm
  <2>8. QED
    BY <2>1, <2>2, <2>6, <2>7, PageListStays
<1>10. ASSUME ReadIdp PROVE PageListInv'
  <2>1. UNCHANGED <<place, table, list, want, fetch, stale>> /\ change.at # "done"
    BY <1>10 DEF ReadIdp
  <2>2. ~Switched'
    BY <1>10, ChangeAnswers DEF ReadIdp, Switched, NoChange
  <2>3. QED
    BY <2>1, <2>2, PageListStays
<1>11. ASSUME SaveIdp PROVE PageListInv'
  <2>1. UNCHANGED <<place, list, want, fetch, stale>> /\ change.at \in {"sent", "read"} /\ change' = Answered(TRUE)
    BY <1>11 DEF SaveIdp
  <2>2. ~Owed /\ Here' = Here
    BY <2>1, HereStays DEF Owed
  <2>3. TRUE \in BOOLEAN
    BY DEF TableTypes, TableRow
  <2>4. change'.at = "done" /\ change'.kind = change.kind /\ (change'.ok <=> TRUE)
    BY <2>1, <2>3, ChangeAnswers
  <2>5. change.kind \in Here.reload /\ place # "rules"
    BY <1>11, <2>1, HereFacts DEF FormInv, PageTypes, SaveIdp
  <2>6. (TRUE => Owed') /\ ~Switched'
    BY <2>1, <2>2, <2>4, <2>5 DEF Owed, Switched
  <2>7. TRUE
    OBVIOUS
  <2>8. QED
    BY <2>1, <2>2, <2>6, <2>7, PageListStays
<1>12. ASSUME NEW k \in {"create", "switch", "delete", "mail"}, SendChange(k) PROVE PageListInv'
  <2>1. UNCHANGED <<place, table, list, want, fetch, stale>> /\ change.at # "done"
    BY <1>12 DEF SendChange
  <2>2. ~Switched'
    BY <1>12, ChangeAnswers DEF SendChange, Switched, NoChange
  <2>3. QED
    BY <2>1, <2>2, PageListStays
<1>13. ASSUME CreateRow PROVE PageListInv'
  <2>1. UNCHANGED <<place, list, want, fetch, stale>> /\ change.at \in {"sent", "read"} /\ change' = Answered((~table.there))
    BY <1>13 DEF CreateRow
  <2>2. ~Owed /\ Here' = Here
    BY <2>1, HereStays DEF Owed
  <2>3. (~table.there) \in BOOLEAN
    BY DEF TableTypes, TableRow
  <2>4. change'.at = "done" /\ change'.kind = change.kind /\ (change'.ok <=> (~table.there))
    BY <2>1, <2>3, ChangeAnswers
  <2>5. change.kind \in Here.reload /\ place # "rules"
    BY <1>13, <2>1, HereFacts DEF FormInv, PageTypes, CreateRow
  <2>6. ((~table.there) => Owed') /\ ~Switched'
    BY <2>1, <2>2, <2>4, <2>5 DEF Owed, Switched
  <2>7. table.there => table' = table
    BY <1>13 DEF CreateRow
  <2>8. QED
    BY <2>1, <2>2, <2>6, <2>7, PageListStays
<1>14. ASSUME SwitchRow PROVE PageListInv'
  <2>1. UNCHANGED <<place, list, want, stale>> /\ change.at = "sent" /\ change' = Answered(table.there)
        /\ change.kind \in {"switch", "mail"}
        /\ table' = IF table.there /\ change.kind = "switch" THEN [table EXCEPT !.on = change.value] ELSE table
    BY <1>14 DEF SwitchRow
  <2>2. ~Owed /\ Here' = Here /\ ~Switched /\ ShownRow = list.row
    BY <2>1, HereStays DEF Owed, Switched, ShownRow
  <2>3. table.there \in BOOLEAN
    BY DEF TableTypes, TableRow
  <2>4. change'.at = "done" /\ change'.kind = change.kind /\ change'.ok = table.there /\ change'.value = change.value
        /\ change'.missed = FALSE
    BY <2>1, <2>3, ChangeAnswers
  <2>5. Loading' = Loading
    <3>1. CASE fetch' = fetch
      BY <3>1, FetchStays
    <3>2. CASE fetch' = [k \in Fetch |-> [fetch[k] EXCEPT !.missed = @ \/ fetch[k].at = "answered"]]
      BY <3>2, FetchMisses
    <3>3. QED
      BY <1>14, <3>1, <3>2 DEF SwitchRow
  <2>6. place # "rules" => change.kind \in Here.reload \/ change.kind = "mail"
    BY <2>1, Reloads DEF FormInv, PageTypes
  <2>7. place = "rules" => change.kind = "switch"
    BY <2>1, Reloads DEF FormInv, PageTypes
  <2>8. CASE place # "rules"
    <3>1. ~Switched' /\ ShownRow' = list.row
      BY <2>1, <2>8 DEF Switched, ShownRow
    <3>2. table' = table \/ Owed'
      BY <2>1, <2>2, <2>4, <2>6, <2>8 DEF Owed
    <3>3. Redacted(table)' = Redacted(table) \/ Owed'
      BY <2>1, <3>2 DEF Redacted
    <3>4. QED
      BY <2>1, <2>2, <2>5, <3>1, <3>3
  <2>9. CASE place = "rules"
    <3>1. Switched' /\ ShownRow' = [list.row EXCEPT !.on = change.value]
      BY <2>1, <2>4, <2>9 DEF Switched, ShownRow
    <3>2. change'.ok => table' = [table EXCEPT !.on = change.value] /\ table'.on = change.value
      BY <2>1, <2>4, <2>7, <2>9 DEF TableTypes, TableRow
    <3>3. \A r : Redacted(r) = r /\ Redacted(r)' = r
      BY <2>1, <2>9 DEF Redacted
    <3>4. Redacted(table)' = table'
      BY <2>1, <2>9 DEF Redacted
    <3>5. QED
      BY <2>1, <2>2, <2>4, <2>5, <3>1, <3>2, <3>3, <3>4
  <2>10. QED
    BY <2>8, <2>9
<1>15. ASSUME DeleteRow PROVE PageListInv'
  <2>1. UNCHANGED <<place, list, want, fetch, stale>> /\ change.at \in {"sent", "read"} /\ change' = Answered((table.there \/ place = "tenants"))
    BY <1>15 DEF DeleteRow
  <2>2. ~Owed /\ Here' = Here
    BY <2>1, HereStays DEF Owed
  <2>3. (table.there \/ place = "tenants") \in BOOLEAN
    BY DEF TableTypes, TableRow
  <2>4. change'.at = "done" /\ change'.kind = change.kind /\ (change'.ok <=> (table.there \/ place = "tenants"))
    BY <2>1, <2>3, ChangeAnswers
  <2>5. change.kind \in Here.reload /\ place # "rules"
    BY <1>15, <2>1, HereFacts DEF FormInv, PageTypes, DeleteRow
  <2>6. ((table.there \/ place = "tenants") => Owed') /\ ~Switched'
    BY <2>1, <2>2, <2>4, <2>5 DEF Owed, Switched
  <2>7. ~table.there => table' = table
    BY <1>15, RowGone DEF DeleteRow, QuietInv
  <2>8. QED
    BY <2>1, <2>2, <2>6, <2>7, PageListStays
<1>16. ASSUME LandChange PROVE PageListInv'
  <2>1. UNCHANGED <<place, table, want>> /\ change.at = "done" /\ change' = NoChange /\ NoChange.at = "idle"
    BY <1>16 DEF LandChange, NoChange
  <2>2. ~Switched' /\ ShownRow' = list'.row /\ Redacted(table)' = Redacted(table)
    BY <2>1 DEF Switched, ShownRow, Redacted
  <2>3. CASE Owed
    <3>1. PICK l \in Free : fetch' = StartFetch(l, want)
      BY <1>16, <2>3 DEF LandChange, Owed
    <3>2. want \in Query
      BY <2>1 DEF QuietInv, PageTypes
    <3>3. l \in Loading'
      BY <3>1, <3>2, FetchStarts
    <3>4. QED
      BY <2>2, <3>3
  <2>4. CASE ~Owed
    <3>1. fetch' = fetch
      BY <1>16, <2>1, <2>4 DEF LandChange, Owed
    <3>2. Loading' = Loading
      BY <3>1, FetchStays
    <3>3. CASE place = "rules"
      <4>1. list' = [list EXCEPT !.row.on = change.value] /\ stale' = (stale \/ ~change.ok \/ change.missed)
        BY <1>16, <3>3 DEF LandChange
      <4>2. Switched /\ ShownRow = [list.row EXCEPT !.on = change.value]
        BY <2>1, <3>3 DEF Switched, ShownRow
      <4>3. list'.row = [list.row EXCEPT !.on = change.value] /\ list'.query = list.query
        BY <4>1 DEF TableTypes
      <4>4. QED
        BY <2>1, <2>2, <2>4, <3>2, <4>1, <4>2, <4>3
    <3>4. CASE place # "rules"
      <4>1. list' = list /\ stale' = (stale \/ ~change.ok)
        BY <1>16, <3>4 DEF LandChange
      <4>2. ~Switched /\ ShownRow = list.row
        BY <3>4 DEF Switched, ShownRow
      <4>3. QED
        BY <2>1, <2>2, <2>4, <3>2, <4>1, <4>2
    <3>5. QED
      BY <3>3, <3>4
  <2>5. QED
    BY <2>3, <2>4
<1>17. ASSUME Elsewhere PROVE PageListInv'
  <2>1. place' = place /\ stale' = TRUE /\ change' = [change EXCEPT !.fresh = FALSE, !.known = FALSE, !.missed = change.at = "done"]
    BY <1>17 DEF Elsewhere
  <2>2. change'.at = change.at /\ (change.at = "done" => change'.missed)
    BY <2>1 DEF ChangeTypes, Changing
  <2>3. QED
    BY <2>1, <2>2 DEF Switched
<1>18. QED
  BY <1>1, <1>2, <1>3, <1>4, <1>5, <1>6, <1>7, <1>8, <1>9, <1>10, <1>11, <1>12, <1>13, <1>14, <1>15, <1>16, <1>17 DEF PagesNext

LEMMA PageRevertedKept == PagesInv /\ PagesNext => (~reverted)'
<1> SUFFICES ASSUME PagesInv, PagesNext PROVE (~reverted)'
  OBVIOUS
<1> USE DEF PagesInv, PageTypesAll, FormInv, QuietInv, Reverts, RevertsPlain, Answered
<1>1. ASSUME NEW l \in Fetch, MountPage(l) PROVE (~reverted)'
  BY <1>1 DEF MountPage
<1>2. ASSUME NEW l \in Fetch, Refetch(l) PROVE (~reverted)'
  BY <1>2 DEF Refetch
<1>3. ASSUME NEW l \in Fetch, ReadRows(l) PROVE (~reverted)'
  BY <1>3 DEF ReadRows
<1>4. ASSUME NEW l \in Fetch, LandRows(l) PROVE (~reverted)'
  BY <1>4 DEF LandRows
<1>5. ASSUME NEW l \in Fetch, NEW q \in Query, Search(l, q) PROVE (~reverted)'
  BY <1>5 DEF Search
<1>6. ASSUME OpenForm PROVE (~reverted)'
  BY <1>6 DEF OpenForm
<1>7. ASSUME SubmitForm PROVE (~reverted)'
  BY <1>7 DEF SubmitForm
<1>8. ASSUME CloseForm PROVE (~reverted)'
  BY <1>8 DEF CloseForm
<1>9. ASSUME SaveForm PROVE (~reverted)'
  <2>1. change.at = "sent" /\ change.kind = "edit" /\ place # "idps"
    BY <1>9 DEF SaveForm
  <2>2. CASE table.there /\ change.keeps /\ change.fresh
    <3>1. form.open /\ form.fresh /\ change.value = form.flag /\ form.flag = table.flag
      BY <2>1, <2>2
    <3>2. [table EXCEPT !.flag = change.value].flag = table.flag
      BY <3>1 DEF TableTypes, TableRow
    <3>3. QED
      BY <1>9, <3>2 DEF SaveForm
  <2>3. QED
    BY <1>9, <2>2 DEF SaveForm
<1>10. ASSUME ReadIdp PROVE (~reverted)'
  BY <1>10 DEF ReadIdp
<1>11. ASSUME SaveIdp PROVE (~reverted)'
  <2>1. change.at = "read"
    BY <1>11 DEF SaveIdp
  <2> DEFINE newRow == [table EXCEPT !.flag = IF change.keeps THEN change.saw ELSE change.value, !.on = change.on]
  <2>2. change.keeps /\ change.fresh => newRow.flag = table.flag
    BY <2>1 DEF TableTypes, TableRow
  <2>3. change.keepsOn /\ change.known /\ table.there => newRow.on = table.on
    <3>1. SUFFICES ASSUME change.keepsOn, change.known, table.there PROVE newRow.on = table.on
      OBVIOUS
    <3>2. place = "idps" /\ change.kind = "edit" /\ form.open /\ form.fresh /\ change.on = form.on
      BY <2>1, <3>1
    <3>3. form.on = table.on
      BY <2>1, <3>1, <3>2
    <3>4. QED
      BY <3>2, <3>3 DEF TableTypes, TableRow
  <2>4. reverted' = (reverted \/ (table.there /\ (Reverts(newRow) \/ RevertsPlain(newRow))))
    BY <1>11 DEF SaveIdp
  <2> HIDE DEF newRow
  <2>5. QED
    BY <2>2, <2>3, <2>4
<1>12. ASSUME NEW k \in {"create", "switch", "delete", "mail"}, SendChange(k) PROVE (~reverted)'
  BY <1>12 DEF SendChange
<1>13. ASSUME CreateRow PROVE (~reverted)'
  BY <1>13 DEF CreateRow
<1>14. ASSUME SwitchRow PROVE (~reverted)'
  BY <1>14 DEF SwitchRow
<1>15. ASSUME DeleteRow PROVE (~reverted)'
  BY <1>15 DEF DeleteRow
<1>16. ASSUME LandChange PROVE (~reverted)'
  BY <1>16 DEF LandChange
<1>17. ASSUME Elsewhere PROVE (~reverted)'
  BY <1>17 DEF Elsewhere
<1>18. QED
  BY <1>1, <1>2, <1>3, <1>4, <1>5, <1>6, <1>7, <1>8, <1>9, <1>10, <1>11, <1>12, <1>13, <1>14, <1>15, <1>16, <1>17 DEF PagesNext

(* The inductive invariant of an administrator's page: it holds at the start, *)
LEMMA PagesStart == PagesInit => PagesInv
<1> SUFFICES ASSUME PagesInit PROVE PagesInv
  OBVIOUS
<1> USE DEF PagesInit
<1>1. PageTypes
  <2>1. foreign = 0 /\ stale = TRUE /\ reverted = FALSE /\ want = Unasked /\ place \in PageCases
    OBVIOUS
  <2>2. 0 \in 0..MaxForeign
    BY PagesAssumption
  <2> HIDE DEF PagesInit
  <2>3. QED
    BY <2>1, <2>2 DEF PageTypes
<1>2. TableTypes
  BY RowFacts DEF TableTypes, Query
<1>3. NoFetch \in Fetched /\ NoFetch.at = "idle"
  BY RowFacts DEF NoFetch, Fetched, Query
<1>4. FetchTypes /\ Loading = {}
  BY <1>3 DEF FetchTypes, Loading
<1>5. ChangeTypes /\ change.at = "idle" /\ ~form.open
  BY DEF ChangeTypes, Changing, Kind, NoForm, NoChange
<1>6. ~table.there => table = NoRow
  BY DEF NoRow
<1>7. QuietInv /\ OrderInv /\ FormInv
  BY <1>4, <1>5, <1>6 DEF QuietInv, OrderInv, FormInv
<1>8. FetchInv /\ PageListInv
  BY <1>4, <1>5 DEF FetchInv, Newest, PageListInv, Switched
<1>9. QED
  BY <1>1, <1>2, <1>4, <1>5, <1>7, <1>8 DEF PagesInv, PageTypesAll

(* every step of every actor keeps it,                                                    *)
LEMMA PagesStepKeeps == PagesInv /\ [PagesNext]_pageVars => PagesInv'
<1> SUFFICES ASSUME PagesInv, [PagesNext]_pageVars PROVE PagesInv'
  OBVIOUS
<1>1. CASE PagesNext
  BY <1>1, PageTypesKept, PageTableKept, PageFetchTypesKept, PageChangeTypesKept, PageQuietKept, PageOrderKept,
     PageFormKept, PageLoadsKept, PageListKept, PageRevertedKept DEF PagesInv, PageTypesAll
<1>2. CASE UNCHANGED pageVars
  <2>1. UNCHANGED <<place, table, list, want, fetch, form, change, stale, reverted, foreign>>
    BY <1>2 DEF pageVars
  <2>2. PageTypesAll'
    BY <2>1 DEF PagesInv, PageTypesAll, PageTypes, TableTypes, FetchTypes, ChangeTypes
  <2>3. Here' = Here /\ Loading' = Loading /\ \A k : Newest(k)' = Newest(k)
    BY <2>1, HereStays, FetchStays
  <2>4. Owed' = Owed /\ Switched' = Switched /\ ShownRow' = ShownRow /\ Redacted(table)' = Redacted(table)
    BY <2>1, <2>3 DEF Owed, Switched, ShownRow, Redacted
  <2>5. QuietInv' /\ OrderInv'
    BY <2>1, <2>3, FetchStays DEF PagesInv, QuietInv
  <2>6. FormInv'
    BY <2>1, <2>3 DEF PagesInv, FormInv
  <2>7. FetchInv' /\ PageListInv'
    BY <2>1, <2>3, <2>4 DEF PagesInv, FetchInv, PageListInv
  <2>8. QED
    BY <2>1, <2>2, <2>5, <2>6, <2>7 DEF PagesInv
<1>3. QED
  BY <1>1, <1>2

(* and what the runs check of the component follows from it.                              *)
LEMMA PagesInvHolds == PagesInv => PagesTypeOK /\ PagesHold
<1> SUFFICES ASSUME PagesInv PROVE PagesTypeOK /\ PagesHold
  OBVIOUS
<1>1. /\ list.row \in TableRow /\ list.query \in Query /\ change.at \in {"idle", "sent", "read", "done"}
      /\ change.kind \in {"create", "edit", "switch", "delete", "mail"}
  BY DEF PagesInv, PageTypesAll, TableTypes, ChangeTypes, Changing, Kind
<1>2. \A l \in Fetch : /\ fetch[l].at \in {"idle", "asked", "answered"}
                       /\ fetch[l].row \in TableRow /\ fetch[l].older \subseteq Fetch
  BY FetchedFields DEF PagesInv, PageTypesAll, FetchTypes
<1>3. PagesTypeOK
  BY <1>1, <1>2 DEF PagesTypeOK, PagesInv, PageTypesAll, PageTypes, TableTypes
<1>4. ListTrue
  <2>1. SUFFICES ASSUME AtRest, ~stale PROVE list.row = Redacted(table) /\ list.query = want
    BY DEF ListTrue
  <2>2. Loading = {} /\ ~Owed /\ ~Switched /\ ShownRow = list.row
    BY <2>1 DEF AtRest, Owed, Switched, ShownRow
  <2>3. QED
    BY <2>1, <2>2 DEF PagesInv, PageListInv
<1>5. QED
  BY <1>3, <1>4 DEF PagesHold, NothingReverted, PagesInv

--------------------------------------------------------------------------------
(* AccountPages: the pages on which a user keeps the account.                             *)

(* The list: a read that missed nothing holds the items as they are, and what the page lists     *)
(* differs from them by the items whose removal has not landed yet.                          *)
ItemReading == [at : {"idle", "asked", "read"}, rows : SUBSET Item, missed : BOOLEAN]
ItemJob == [at : {"idle", "sent", "done", "refused"}, adds : BOOLEAN, seen : SUBSET Item, moved : BOOLEAN]
ItemTypes ==
  /\ rows \subseteq Item /\ listed \subseteq Item /\ outdated \in BOOLEAN
  /\ itemRead \in [Answering -> ItemReading] /\ job \in [Item -> ItemJob]
Leaving == {s \in Item : ~Rereads /\ job[s].at = "done"}
ItemsInv ==
  /\ ItemTypes
  /\ \A l \in Answering : itemRead[l].at = "read" /\ ~itemRead[l].missed => itemRead[l].rows = rows
  /\ \A s \in Item : ~Rereads /\ job[s].at # "idle" =>
       /\ ~job[s].adds /\ s \in job[s].seen
       /\ ~job[s].moved => job[s].seen = listed
  /\ Leaving \cap rows = {}
  /\ ~outdated => rows = listed \ Leaving

(* The profile: what is kept is what is stored, but for what has been saved and not landed.    *)
ProfileSending == [at : {"idle", "sent", "done", "refused"}, value : {0, 1}, seen : Profile, moved : BOOLEAN]
ProfileInv ==
  /\ saved \in Profile /\ kept \in Profile /\ tangled \in BOOLEAN /\ send \in [Field -> ProfileSending]
  /\ \A f \in Field : send[f].at # "idle" /\ ~send[f].moved => send[f].seen = kept
  /\ ~tangled => \A f \in Field : saved[f] = IF send[f].at = "done" THEN send[f].value ELSE kept[f]

(* The deletion request: what a screen shows or still awaits is behind, or it is the request.  *)
Requested == {"none", "pending", "cancelled"}
Screened == [act : Deciding, posted : BOOLEAN, shown : Requested, behind : BOOLEAN]
Peeked == [at : {"idle", "read"}, answer : Requested, fresh : BOOLEAN, own : BOOLEAN]
Peeks == peek \in [Screen -> [Answering -> Peeked]]
PeeksTrue == \A w \in Screen : \A l \in Answering : peek[w][l].fresh => peek[w][l].answer = request
ScreensTrue ==
  \A w \in Screen : /\ ~screen[w].behind => (screen[w].shown = "pending" <=> request = "pending")
                    /\ screen[w].act = "posted" /\ screen[w].posted => request = "pending"
DeletionInv ==
  request \in Requested /\ screen \in [Screen -> Screened] /\ Peeks /\ PeeksTrue /\ ScreensTrue

(* The password: the newest verdict under way is about the text typed, unless it is overtaken. *)
Checked == [text : Text, older : SUBSET Answering, overtaken : BOOLEAN]
Latest(l) == l \in Validating /\ ~validation[l].overtaken /\ Validating \ {l} \subseteq validation[l].older
PasswordTypes ==
  /\ {typed, verdict, timer, passing} \subseteq Text /\ late \in BOOLEAN
  /\ validation \in [Answering -> Checked]
VerdictOrder ==
  \A l \in Validating : /\ validation[l].older \subseteq Validating \ {l}
                        /\ \A k \in Validating \ {l} : k \in validation[l].older \/ l \in validation[k].older
PasswordInv ==
  /\ PasswordTypes /\ VerdictOrder
  /\ timer \in {"", typed} \/ typed = ""
  /\ \A l \in Answering : Latest(l) /\ timer = "" => validation[l].text = typed
  /\ VerdictTrue

(* The codes: one generation at a time, unless two overlap.                                   *)
Generated == [at : {"idle", "sent", "deleted", "done"}, batch : Nat]
CodesInv ==
  /\ lastBatch \in Nat /\ live \subseteq 1..lastBatch /\ codesShown \in 0..lastBatch /\ doubled \in BOOLEAN
  /\ generation \in [Answering -> Generated]
  /\ \A l \in Answering : generation[l].batch \in 0..lastBatch
  /\ ~doubled => /\ \A l, k \in GeneratingNow : l = k
                 /\ \A l \in Answering : /\ generation[l].at = "deleted" => live = {}
                                         /\ generation[l].at = "done" => live = {generation[l].batch}
  /\ CodesWork

TopicInv == <<topic, app>> \in Topics /\ app \in {"react", "vue"} /\ elsewhere \in 0..MaxElsewhere
AccountPagesInv == TopicInv /\ ItemsInv /\ ProfileInv /\ DeletionInv /\ PasswordInv /\ CodesInv

(* The steps, by topic: each leaves what the other topics are about alone.                    *)
ItemStep ==
  \/ \E l \in Answering : AskItems(l) \/ ReadItems(l) \/ LandItems(l)
  \/ \E s \in Item : StartJob(s) \/ AnswerJob(s) \/ LandJob(s) \/ ElsewhereItem(s)
ProfileStep == \E f \in Field : Save(f) \/ AnswerSave(f) \/ LandSave(f) \/ ElsewhereProfile(f)
DeletionStep ==
  \E w \in Screen : \/ PressDeletion(w) \/ CheckRequest(w) \/ InsertRequest(w) \/ FindRequest(w)
                    \/ CancelRequest(w) \/ LandDeletion(w)
                    \/ \E l \in Answering : ReadRequest(w, l) \/ LandRequest(w, l) \/ RequestAgain(w, l)
PasswordStep ==
  (\E l \in Answering : Validate(l) \/ LandVerdict(l)) \/ Type \/ SendPassword \/ LandPassword
CodesStep == (\E l \in Answering : Generate(l) \/ DropCodes(l) \/ StoreCodes(l) \/ ShowCodes(l)) \/ CloseCodes

LEMMA ScreenedFields ==
  \A x \in Screened : x.act \in Deciding /\ x.shown \in Requested /\ x.posted \in BOOLEAN /\ x.behind \in BOOLEAN
BY DEF Screened

LEMMA PeekedFields ==
  \A x \in Peeked : x.at \in {"idle", "read"} /\ x.answer \in Requested /\ x.fresh \in BOOLEAN /\ x.own \in BOOLEAN
BY DEF Peeked

(* A read starts or lands, and no other.                                                     *)
LEMMA PeekSteps ==
  ASSUME Peeks, NEW w \in Screen, NEW l \in Answering, NEW new \in Peeked
  PROVE  /\ Peek(w, l, new) \in [Screen -> [Answering -> Peeked]]
         /\ Peek(w, l, new)[w][l] = new
         /\ \A v \in Screen : \A k \in Answering : v # w \/ k # l => Peek(w, l, new)[v][k] = peek[v][k]
<1> DEFINE asks == [peek[w] EXCEPT ![l] = new]
<1>1. peek \in [Screen -> [Answering -> Peeked]] /\ peek[w] \in [Answering -> Peeked]
  BY DEF Peeks
<1>2. Peek(w, l, new) = [peek EXCEPT ![w] = asks]
  BY <1>1 DEF Peek
<1>3. asks \in [Answering -> Peeked] /\ asks[l] = new /\ \A k \in Answering \ {l} : asks[k] = peek[w][k]
  BY <1>1
<1> HIDE DEF asks
<1>4. QED
  BY <1>1, <1>2, <1>3

(* The row changes: every screen is behind, and so is every answer that is to come.          *)
LEMMA OutdateFacts ==
  ASSUME screen \in [Screen -> Screened]
  PROVE  /\ Outdate \in [Screen -> Screened]
         /\ \A v \in Screen : Outdate[v].behind = TRUE /\ (Outdate[v].posted => Outdate[v].act # "posted")
<1> DEFINE b(v) == screen[v].posted /\ screen[v].act # "posted"
           new(v) == [screen[v] EXCEPT !.behind = TRUE, !.posted = b(v)]
<1>1. Outdate = [v \in Screen |-> new(v)]
  BY DEF Outdate
<1>2. ASSUME NEW v \in Screen PROVE b(v) \in BOOLEAN /\ (b(v) => screen[v].act # "posted") /\ screen[v] \in Screened
  BY DEF Screened
<1> HIDE DEF b
<1>3. ASSUME NEW v \in Screen
      PROVE  new(v) \in Screened /\ new(v).behind = TRUE /\ new(v).posted = b(v) /\ new(v).act = screen[v].act
  BY <1>2 DEF Screened
<1> HIDE DEF new
<1>4. QED
  BY <1>1, <1>2, <1>3

LEMMA OverlookFacts ==
  ASSUME Peeks
  PROVE  /\ Overlook \in [Screen -> [Answering -> Peeked]]
         /\ \A v \in Screen : \A k \in Answering : Overlook[v][k].fresh = FALSE
<1> DEFINE new(v, k) == [peek[v][k] EXCEPT !.fresh = FALSE]
           asks(v) == [k \in Answering |-> new(v, k)]
<1>1. ASSUME NEW v \in Screen, NEW k \in Answering PROVE new(v, k) \in Peeked /\ new(v, k).fresh = FALSE
  <2>1. peek[v][k] \in Peeked
    BY DEF Peeks
  <2>2. QED
    BY <2>1 DEF Peeked
<1>2. Overlook = [v \in Screen |-> asks(v)]
  BY DEF Overlook
<1> HIDE DEF new
<1>3. \A v \in Screen : asks(v) \in [Answering -> Peeked] /\ \A k \in Answering : asks(v)[k] = new(v, k)
  BY <1>1
<1> HIDE DEF asks
<1>4. QED
  BY <1>1, <1>2, <1>3

LEMMA NewPeeks ==
  ASSUME request \in Requested, NEW own \in BOOLEAN
  PROVE  /\ RequestRead(own) \in Peeked /\ RequestRead(own).answer = request
         /\ NoPeek \in Peeked /\ NoPeek.fresh = FALSE
BY DEF RequestRead, NoPeek, Peeked, Requested

(* The rows change: a read that has seen them has missed it.                                 *)
LEMMA MissedFacts ==
  ASSUME itemRead \in [Answering -> ItemReading]
  PROVE  /\ Missed \in [Answering -> ItemReading]
         /\ \A l \in Answering : ~(Missed[l].at = "read" /\ ~Missed[l].missed)
<1> DEFINE new(l) == [itemRead[l] EXCEPT !.missed = @ \/ itemRead[l].at = "read"]
<1>1. ASSUME NEW l \in Answering
      PROVE  new(l) \in ItemReading /\ ~(new(l).at = "read" /\ ~new(l).missed)
  <2> DEFINE x == itemRead[l]
             b == x.missed \/ x.at = "read"
  <2>1. x \in ItemReading /\ b \in BOOLEAN
    BY DEF ItemReading
  <2>2. new(l) = [x EXCEPT !.missed = b] /\ (x.at = "read" => b)
    OBVIOUS
  <2> HIDE DEF b, x, new
  <2>3. new(l) \in ItemReading /\ new(l).at = x.at /\ new(l).missed = b
    BY <2>1, <2>2 DEF ItemReading
  <2>4. QED
    BY <2>2, <2>3
<1>2. Missed = [l \in Answering |-> new(l)]
  BY DEF Missed
<1> HIDE DEF new
<1>3. QED
  BY <1>1, <1>2

(* The list changes: the handlers that saw it as it was have been moved past.               *)
LEMMA MovedFacts ==
  ASSUME job \in [Item -> ItemJob], NEW next
  PROVE  /\ Moved(next) \in [Item -> ItemJob]
         /\ \A s \in Item : /\ Moved(next)[s].at = job[s].at /\ Moved(next)[s].seen = job[s].seen
                            /\ Moved(next)[s].adds = job[s].adds
                            /\ ~Moved(next)[s].moved => ~job[s].moved /\ (job[s].seen = {} \/ next = listed)
<1> DEFINE new(s) == [job[s] EXCEPT !.moved = @ \/ (job[s].seen # {} /\ next # listed)]
<1>1. ASSUME NEW s \in Item
      PROVE  /\ new(s) \in ItemJob /\ new(s).at = job[s].at /\ new(s).seen = job[s].seen
             /\ new(s).adds = job[s].adds
             /\ ~new(s).moved => ~job[s].moved /\ (job[s].seen = {} \/ next = listed)
  <2> DEFINE x == job[s]
             b == x.moved \/ (x.seen # {} /\ next # listed)
  <2>1. x \in ItemJob /\ b \in BOOLEAN
    BY DEF ItemJob
  <2>2. new(s) = [x EXCEPT !.moved = b] /\ (~b => ~x.moved /\ (x.seen = {} \/ next = listed))
    OBVIOUS
  <2> HIDE DEF b, x, new
  <2>3. new(s) \in ItemJob /\ new(s).at = x.at /\ new(s).seen = x.seen /\ new(s).adds = x.adds /\ new(s).moved = b
    BY <2>1, <2>2 DEF ItemJob
  <2>4. QED
    BY <2>2, <2>3 DEF x
<1>2. Moved(next) = [s \in Item |-> new(s)]
  BY DEF Moved
<1> HIDE DEF new
<1>3. QED
  BY <1>1, <1>2

(* A list is asked for.                                                                      *)
LEMMA AskFacts ==
  ASSUME itemRead \in [Answering -> ItemReading], NEW l \in Answering
  PROVE  /\ Ask(l) \in [Answering -> ItemReading]
         /\ \A k \in Answering : Ask(l)[k].at = "read" => Ask(l)[k] = itemRead[k]
BY DEF Ask, ItemReading

LEMMA Emptied ==
  /\ NoRead \in ItemReading /\ NoRead.at = "idle"
  /\ NoJob \in ItemJob /\ NoJob.at = "idle" /\ NoJob.adds = FALSE /\ NoJob.moved = FALSE
BY DEF NoRead, ItemReading, NoJob, ItemJob

(* A list is read: its answer holds the rows as they are.                                    *)
LEMMA ReadFacts ==
  ASSUME itemRead \in [Answering -> ItemReading], rows \subseteq Item, NEW l \in Answering, ReadItems(l)
  PROVE  /\ itemRead' \in [Answering -> ItemReading] /\ itemRead'[l].rows = rows
         /\ \A k \in Answering \ {l} : itemRead'[k] = itemRead[k]
<1> DEFINE x == itemRead[l]
           new == [x EXCEPT !.at = "read", !.rows = rows]
<1>1. x \in ItemReading /\ itemRead' = [itemRead EXCEPT ![l] = new]
  BY DEF ReadItems
<1> HIDE DEF x
<1>2. new \in ItemReading /\ new.rows = rows
  BY <1>1 DEF ItemReading
<1> HIDE DEF new
<1>3. QED
  BY <1>1, <1>2

LEMMA ItemsKept == ItemsInv /\ ItemStep /\ app \in {"react", "vue"} => ItemsInv'
<1> SUFFICES ASSUME ItemsInv, ItemStep, app \in {"react", "vue"} PROVE ItemsInv'
  OBVIOUS
<1> USE DEF ItemsInv, ItemTypes, ItemReading, ItemJob, Leaving
<1>1. ASSUME NEW l \in Answering, AskItems(l) PROVE ItemsInv'
  <2>1. itemRead' = Ask(l) /\ UNCHANGED <<rows, listed, job, outdated, topic>>
    BY <1>1 DEF AskItems, ListOnly, Same
  <2>2. itemRead' \in [Answering -> ItemReading] /\ \A k \in Answering : itemRead'[k].at = "read" => itemRead'[k] = itemRead[k]
    BY <2>1, AskFacts
  <2>3. QED
    BY <2>1, <2>2 DEF Rereads
<1>2. ASSUME NEW l \in Answering, ReadItems(l) PROVE ItemsInv'
  <2>1. UNCHANGED <<rows, listed, job, outdated, topic>>
    BY <1>2 DEF ReadItems, ListOnly, Same
  <2>2. /\ itemRead' \in [Answering -> ItemReading] /\ itemRead'[l].rows = rows
        /\ \A k \in Answering \ {l} : itemRead'[k] = itemRead[k]
    BY <1>2, ReadFacts
  <2>3. QED
    BY <2>1, <2>2 DEF Rereads
<1>3. ASSUME NEW l \in Answering, LandItems(l) PROVE ItemsInv'
  <2>1. itemRead[l].at = "read" /\ itemRead' = [itemRead EXCEPT ![l] = NoRead] /\ UNCHANGED <<rows, topic>>
    BY <1>3 DEF LandItems, ListOnly, Same
  <2>2. itemRead' \in [Answering -> ItemReading] /\ \A k \in Answering : itemRead'[k].at = "read" => itemRead'[k] = itemRead[k]
    BY <2>1, Emptied
  <2>3. CASE UNCHANGED <<listed, job, outdated>>
    BY <2>1, <2>2, <2>3 DEF Rereads
  <2>4. CASE listed' = itemRead[l].rows /\ job' = Moved(listed') /\ outdated' = itemRead[l].missed
    <3>1. /\ job' \in [Item -> ItemJob]
          /\ \A s \in Item : /\ job'[s].at = job[s].at /\ job'[s].seen = job[s].seen /\ job'[s].adds = job[s].adds
                             /\ ~job'[s].moved => ~job[s].moved /\ (job[s].seen = {} \/ listed' = listed)
      BY <2>4, MovedFacts
    <3>2. Leaving' = Leaving
      BY <2>1, <3>1 DEF Rereads
    <3>3. listed' \subseteq Item /\ outdated' \in BOOLEAN
      BY <2>4
    <3>4. ~outdated' => rows = listed' \ Leaving
      BY <2>1, <2>4
    <3>5. \A s \in Item : ~Rereads /\ job'[s].at # "idle" =>
             ~job'[s].adds /\ s \in job'[s].seen /\ (~job'[s].moved => job'[s].seen = listed')
      BY <3>1
    <3> HIDE DEF Leaving
    <3>6. QED
      BY <2>1, <2>2, <3>1, <3>2, <3>3, <3>4, <3>5 DEF Rereads
  <2>5. QED
    BY <1>3, <2>3, <2>4 DEF LandItems
<1>4. ASSUME NEW s \in Item, StartJob(s) PROVE ItemsInv'
  <2> DEFINE b == s \notin listed
             d == IF Rereads THEN {} ELSE listed
             new == [NoJob EXCEPT !.at = "sent", !.adds = b, !.seen = d]
  <2>1. /\ job[s].at = "idle" /\ (~b \/ Rereads) /\ job' = [job EXCEPT ![s] = new]
        /\ UNCHANGED <<rows, listed, itemRead, outdated, topic>>
    BY <1>4 DEF StartJob, ListOnly, Same
  <2>2. b \in BOOLEAN /\ d \in SUBSET Item /\ (~Rereads => d = listed) /\ (~b => s \in listed)
    OBVIOUS
  <2> HIDE DEF b, d
  <2>3. new \in ItemJob /\ new.at = "sent" /\ new.adds = b /\ new.seen = d
    BY <2>2 DEF NoJob
  <2> HIDE DEF new
  <2>4. job' \in [Item -> ItemJob] /\ job'[s] = new /\ \A t \in Item \ {s} : job'[t] = job[t]
    BY <2>1, <2>3
  <2>5. Leaving' = Leaving
    BY <2>1, <2>3, <2>4 DEF Rereads
  <2>6. ~Rereads => ~new.adds /\ s \in new.seen /\ new.seen = listed
    BY <2>1, <2>2, <2>3
  <2>7. QED
    BY <2>1, <2>4, <2>5, <2>6 DEF Rereads
<1>5. ASSUME NEW s \in Item, AnswerJob(s) PROVE ItemsInv'
  <2>1. job[s].at = "sent" /\ listed' = listed /\ topic' = topic
    BY <1>5 DEF AnswerJob, ListOnly, Same
  <2> DEFINE Unseen(a) == a = "refused" /\ UNCHANGED <<rows, itemRead, outdated>>
             Seen(a) == /\ job[s].adds = (s \notin rows)
                        /\ rows' = IF job[s].adds THEN rows \cup {s} ELSE rows \ {s}
                        /\ itemRead' = Missed
                        /\ (a = "done" /\ outdated' = (outdated \/ Rereads)) \/ (a = "refused" /\ outdated' = TRUE)
  <2>2. PICK a \in {"done", "refused"} : job' = [job EXCEPT ![s].at = a] /\ (Seen(a) \/ Unseen(a))
    BY <1>5 DEF AnswerJob
  <2>3. /\ job' \in [Item -> ItemJob] /\ job'[s].at = a /\ job'[s].adds = job[s].adds /\ job'[s].seen = job[s].seen
        /\ job'[s].moved = job[s].moved /\ \A t \in Item \ {s} : job'[t] = job[t]
    BY <2>2
  <2>4. \A t \in Item : ~Rereads /\ job'[t].at # "idle" =>
          ~job'[t].adds /\ t \in job'[t].seen /\ (~job'[t].moved => job'[t].seen = listed)
    BY <2>1, <2>3
  <2>5. CASE a = "refused" /\ UNCHANGED <<rows, itemRead, outdated>>
    <3>1. Leaving' = Leaving
      BY <2>1, <2>3, <2>5 DEF Rereads
    <3>2. QED
      BY <2>1, <2>3, <2>4, <2>5, <3>1 DEF Rereads
  <2>6. CASE /\ job[s].adds = (s \notin rows)
             /\ rows' = IF job[s].adds THEN rows \cup {s} ELSE rows \ {s}
             /\ itemRead' = Missed
             /\ (a = "done" /\ outdated' = (outdated \/ Rereads)) \/ (a = "refused" /\ outdated' = TRUE)
    <3>1. itemRead' \in [Answering -> ItemReading] /\ \A l \in Answering : ~(itemRead'[l].at = "read" /\ ~itemRead'[l].missed)
      BY <2>6, MissedFacts
    <3>2. rows' \subseteq Item /\ outdated' \in BOOLEAN
      BY <2>6
    <3>3. CASE Rereads
      <4>1. Leaving' = {} /\ outdated'
        BY <2>1, <2>6, <3>3 DEF Rereads
      <4>2. QED
        BY <2>1, <2>3, <2>4, <3>1, <3>2, <3>3, <4>1 DEF Rereads
    <3>4. CASE ~Rereads
      <4>1. ~job[s].adds /\ rows' = rows \ {s}
        BY <2>1, <2>6, <3>4
      <4>2. Leaving' = Leaving \cup (IF a = "done" THEN {s} ELSE {})
        BY <2>1, <2>3, <3>4 DEF Rereads
      <4>3. ~outdated' => a = "done" /\ ~outdated
        BY <2>2, <2>6
      <4> HIDE DEF Leaving
      <4>4. (Leaving' \cap rows' = {}) /\ (~outdated' => rows' = listed \ Leaving')
        BY <4>1, <4>2, <4>3
      <4>5. QED
        BY <2>1, <2>3, <2>4, <3>1, <3>2, <4>4 DEF Rereads
    <3>5. QED
      BY <3>3, <3>4
  <2>7. QED
    BY <2>2, <2>5, <2>6
<1>6. ASSUME NEW s \in Item, LandJob(s) PROVE ItemsInv'
  <2> DEFINE next == IF job[s].at = "refused" \/ Rereads THEN listed ELSE Remaining(s)
  <2>1. /\ job[s].at \in {"done", "refused"} /\ listed' = next
        /\ job' = [Moved(next) EXCEPT ![s] = NoJob]
        /\ outdated' = (outdated \/ (app = "react" /\ next # listed /\ job[s].moved))
        /\ UNCHANGED <<rows, topic>>
    BY <1>6 DEF LandJob, ListOnly, Same
  <2>2. /\ itemRead' \in [Answering -> ItemReading]
        /\ \A k \in Answering : itemRead'[k].at = "read" => itemRead'[k] = itemRead[k]
    <3>1. CASE itemRead' = itemRead
      BY <3>1
    <3>2. CASE \E l \in FreeReads : itemRead' = Ask(l)
      BY <3>2, AskFacts DEF FreeReads
    <3>3. QED
      BY <1>6, <3>1, <3>2 DEF LandJob
  <2>3. next \subseteq Item
    BY DEF Remaining
  <2>4. outdated' \in BOOLEAN /\ (~outdated' => ~outdated /\ (app # "react" \/ next = listed \/ ~job[s].moved))
    BY <2>1
  <2>5. ~(job[s].at = "refused" \/ Rereads) => job[s].at = "done" /\ next = (IF app = "react" THEN job[s].seen ELSE listed) \ {s}
    BY <2>1 DEF Remaining
  <2>6. job[s].at = "refused" \/ Rereads => next = listed
    OBVIOUS
  <2> HIDE DEF next
  <2>7. /\ job' \in [Item -> ItemJob] /\ job'[s].at = "idle"
        /\ \A t \in Item \ {s} : /\ job'[t].at = job[t].at /\ job'[t].seen = job[t].seen /\ job'[t].adds = job[t].adds
                                 /\ ~job'[t].moved => ~job[t].moved /\ (job[t].seen = {} \/ next = listed)
    <3> DEFINE m == Moved(next)
    <3>1. /\ m \in [Item -> ItemJob]
          /\ \A t \in Item : /\ m[t].at = job[t].at /\ m[t].seen = job[t].seen /\ m[t].adds = job[t].adds
                             /\ ~m[t].moved => ~job[t].moved /\ (job[t].seen = {} \/ next = listed)
      BY MovedFacts
    <3>2. job' = [m EXCEPT ![s] = NoJob]
      BY <2>1
    <3> HIDE DEF m
    <3>3. QED
      BY <3>1, <3>2, Emptied
  <2>8. \A t \in Item : ~Rereads /\ job'[t].at # "idle" =>
          ~job'[t].adds /\ t \in job'[t].seen /\ (~job'[t].moved => job'[t].seen = next)
    BY <2>7
  <2>9. Leaving' = Leaving \ {s}
    BY <2>1, <2>7 DEF Rereads
  <2>10. ~outdated' => rows = next \ (Leaving \ {s})
    <3> SUFFICES ASSUME ~outdated' PROVE rows = next \ (Leaving \ {s})
      OBVIOUS
    <3>1. CASE job[s].at = "refused" \/ Rereads
      <4>1. s \notin Leaving
        BY <3>1
      <4>2. QED
        BY <2>4, <2>6, <3>1, <4>1
    <3>2. CASE ~(job[s].at = "refused" \/ Rereads)
      <4>1. s \in Leaving /\ rows = listed \ Leaving
        BY <2>4, <2>5, <3>2
      <4>2. next = listed \/ next = listed \ {s}
        BY <2>4, <2>5, <3>2
      <4>4. next = listed => s \notin listed
        BY <2>5, <3>2, <2>4
      <4> HIDE DEF Leaving
      <4>3. QED
        BY <4>1, <4>2, <4>4
    <3>3. QED
      BY <3>1, <3>2
  <2> HIDE DEF Leaving
  <2>11. QED
    BY <2>1, <2>2, <2>3, <2>4, <2>7, <2>8, <2>9, <2>10 DEF Rereads
<1>7. ASSUME NEW s \in Item, ElsewhereItem(s) PROVE ItemsInv'
  <2>1. itemRead' = Missed /\ outdated' = TRUE /\ UNCHANGED <<listed, job, topic>>
    BY <1>7 DEF ElsewhereItem, ListOnly, Same
  <2>2. itemRead' \in [Answering -> ItemReading] /\ \A l \in Answering : ~(itemRead'[l].at = "read" /\ ~itemRead'[l].missed)
    BY <2>1, MissedFacts
  <2>3. rows' \subseteq Item /\ Leaving \cap rows' = {}
    <3>1. CASE rows' = rows \ {s}
      BY <3>1
    <3>2. CASE (Rereads \/ NeverSeen(s)) /\ rows' = rows \cup {s}
      <4>1. s \notin Leaving
        BY <3>2 DEF NeverSeen
      <4>2. QED
        BY <3>2, <4>1
    <3>3. QED
      BY <1>7, <3>1, <3>2 DEF ElsewhereItem
  <2>4. QED
    BY <2>1, <2>2, <2>3 DEF Rereads
<1>8. QED
  BY <1>1, <1>2, <1>3, <1>4, <1>5, <1>6, <1>7 DEF ItemStep

LEMMA ProfileKept == ProfileInv /\ ProfileStep => ProfileInv'
<1> SUFFICES ASSUME ProfileInv, ProfileStep PROVE ProfileInv'
  OBVIOUS
<1> USE DEF ProfileInv, ProfileSending, NoSend
<1>1. ASSUME NEW f \in Field, Save(f) PROVE ProfileInv'
  <2>1. PICK v \in {0, 1} : send' = [send EXCEPT ![f] = [NoSend(kept) EXCEPT !.at = "sent", !.value = v]]
    BY <1>1 DEF Save
  <2>2. UNCHANGED <<saved, kept, tangled>> /\ send[f].at = "idle"
    BY <1>1 DEF Save
  <2> DEFINE new == [NoSend(kept) EXCEPT !.at = "sent", !.value = v]
  <2>3. new \in ProfileSending /\ new.at = "sent" /\ new.seen = kept /\ new.value = v
    OBVIOUS
  <2> HIDE DEF new
  <2>4. send' \in [Field -> ProfileSending] /\ send'[f] = new /\ \A g \in Field \ {f} : send'[g] = send[g]
    BY <2>1, <2>3 DEF new
  <2>5. QED
    BY <2>2, <2>3, <2>4
<1>2. ASSUME NEW f \in Field, AnswerSave(f) PROVE ProfileInv'
  <2>1. send[f] \in ProfileSending /\ kept' = kept /\ send[f].at = "sent"
    BY <1>2 DEF AnswerSave
  <2>2. PICK a \in {"done", "refused"} : send' = [send EXCEPT ![f].at = a]
    BY <1>2 DEF AnswerSave
  <2>3. send' \in [Field -> ProfileSending] /\ send'[f].at = a /\ send'[f].value = send[f].value
        /\ send'[f].seen = send[f].seen /\ send'[f].moved = send[f].moved
        /\ \A g \in Field \ {f} : send'[g] = send[g]
    BY <2>1, <2>2
  <2>4. saved' \in Profile /\ \A g \in Field \ {f} : saved'[g] = saved[g]
    <3>1. saved' = saved \/ saved' = [saved EXCEPT ![f] = send[f].value]
      BY <1>2 DEF AnswerSave
    <3>2. QED
      BY <2>1, <3>1 DEF Profile
  <2>7. tangled' \in BOOLEAN /\ (tangled => tangled')
    <3>1. tangled' = tangled \/ tangled' = TRUE
      BY <1>2 DEF AnswerSave
    <3>2. QED
      BY <3>1
  <2>5. ~tangled' => saved'[f] = IF a = "done" THEN send[f].value ELSE saved[f]
    BY <1>2, <2>1, <2>2, <2>3 DEF AnswerSave, Profile
  <2>6. QED
    BY <2>1, <2>3, <2>4, <2>5, <2>7
<1>3. ASSUME NEW f \in Field, LandSave(f) PROVE ProfileInv'
  <2>1. /\ saved' = saved /\ send[f] \in ProfileSending /\ send[f].at \in {"done", "refused"}
        /\ kept' = IF send[f].at = "done" THEN [send[f].seen EXCEPT ![f] = send[f].value] ELSE kept
        /\ tangled' = (tangled \/ (kept' # kept /\ send[f].moved))
    BY <1>3 DEF LandSave
  <2>2. kept' \in Profile
    BY <2>1 DEF Profile
  <2> DEFINE none == [at |-> "idle", value |-> 0, seen |-> kept', moved |-> FALSE]
             still(g) == [send[g] EXCEPT !.moved = @ \/ kept' # kept]
  <2>3. send' = [g \in Field |-> IF g = f THEN none ELSE IF send[g].at = "idle" THEN none ELSE still(g)]
    BY <1>3 DEF LandSave
  <2>4. none \in ProfileSending /\ none.at = "idle"
    BY <2>2
  <2>5. ASSUME NEW g \in Field
        PROVE  /\ still(g) \in ProfileSending /\ still(g).at = send[g].at /\ still(g).value = send[g].value
               /\ still(g).seen = send[g].seen
               /\ ~still(g).moved => ~send[g].moved /\ kept' = kept
    <3>1. CASE kept' # kept
      <4>1. still(g) = [send[g] EXCEPT !.moved = TRUE]
        BY <3>1
      <4> HIDE DEF still
      <4>2. QED
        BY <4>1
    <3>2. CASE kept' = kept
      <4>1. still(g) = [send[g] EXCEPT !.moved = send[g].moved]
        BY <3>2
      <4> HIDE DEF still
      <4>2. QED
        BY <3>2, <4>1
    <3>3. QED
      BY <3>1, <3>2
  <2> HIDE DEF none, still
  <2>6. send' \in [Field -> ProfileSending]
    BY <2>3, <2>4, <2>5
  <2>7. \A g \in Field : send'[g].at # "idle" =>
          /\ g # f /\ send'[g].at = send[g].at /\ send'[g].value = send[g].value /\ send'[g].seen = send[g].seen
          /\ ~send'[g].moved => ~send[g].moved /\ kept' = kept
    BY <2>3, <2>4, <2>5
  <2>8. \A g \in Field \ {f} : send[g].at # "idle" => send'[g].at = send[g].at /\ send'[g].value = send[g].value
    BY <2>3, <2>5
  <2>9. tangled' \in BOOLEAN
    BY <2>1
  <2>10. CASE ~tangled'
    <3>1. ~tangled /\ (kept' = kept \/ ~send[f].moved)
      BY <2>1, <2>10
    <3>2. kept' = IF send[f].at = "done" THEN [kept EXCEPT ![f] = send[f].value] ELSE kept
      BY <2>1, <3>1 DEF Profile
    <3>3. ASSUME NEW g \in Field PROVE saved[g] = IF send'[g].at = "done" THEN send'[g].value ELSE kept'[g]
      <4>1. send'[f].at = "idle"
        BY <2>7
      <4>2. CASE g = f
        BY <2>1, <3>1, <3>2, <4>1, <4>2 DEF Profile
      <4>3. CASE g # f
        <5>1. kept'[g] = kept[g]
          BY <3>2, <4>3 DEF Profile
        <5>2. CASE send[g].at = "idle"
          BY <2>7, <3>1, <4>3, <5>1, <5>2
        <5>3. CASE send[g].at # "idle"
          BY <2>8, <3>1, <4>3, <5>1, <5>3
        <5>4. QED
          BY <5>2, <5>3
      <4>4. QED
        BY <4>2, <4>3
    <3>4. QED
      BY <2>1, <2>2, <2>6, <2>7, <2>9, <3>3
  <2>11. QED
    BY <2>1, <2>2, <2>6, <2>7, <2>9, <2>10
<1>4. ASSUME NEW f \in Field, ElsewhereProfile(f) PROVE ProfileInv'
  <2>1. UNCHANGED <<kept, send>> /\ saved' = [saved EXCEPT ![f] = 1 - @] /\ tangled' = TRUE
    BY <1>4 DEF ElsewhereProfile
  <2>2. saved' \in Profile
    <3>1. 1 - saved[f] \in {0, 1}
      BY DEF Profile
    <3>2. QED
      BY <2>1, <3>1 DEF Profile
  <2>3. QED
    BY <2>1, <2>2
<1>5. QED
  BY <1>1, <1>2, <1>3, <1>4 DEF ProfileStep

(* What a step that leaves the row as it is has to keep.                                      *)
LEMMA ReadsKept ==
  ASSUME DeletionInv, UNCHANGED request, NEW w \in Screen, NEW l \in Answering, NEW new \in Peeked,
         peek' = Peek(w, l, new), new.fresh => new.answer = request
  PROVE  Peeks' /\ PeeksTrue'
<1>1. /\ peek' \in [Screen -> [Answering -> Peeked]] /\ peek'[w][l] = new
      /\ \A v \in Screen : \A k \in Answering : v # w \/ k # l => peek'[v][k] = peek[v][k]
  BY PeekSteps DEF DeletionInv
<1>2. PeeksTrue'
  <2> SUFFICES ASSUME NEW v \in Screen, NEW k \in Answering, peek'[v][k].fresh
               PROVE  peek'[v][k].answer = request'
    BY DEF PeeksTrue
  <2>1. CASE v = w /\ k = l
    BY <1>1, <2>1
  <2>2. CASE v # w \/ k # l
    BY <1>1, <2>2 DEF DeletionInv, PeeksTrue
  <2>3. QED
    BY <2>1, <2>2
<1>3. QED
  BY <1>1, <1>2 DEF Peeks

LEMMA ScreensKept ==
  ASSUME DeletionInv, UNCHANGED request, NEW w \in Screen, NEW new \in Screened,
         screen' = [screen EXCEPT ![w] = new],
         new.act = "posted" => screen[w].act = "posted" /\ new.posted = screen[w].posted,
         \/ new.behind = screen[w].behind /\ new.shown = screen[w].shown
         \/ ~new.behind => (new.shown = "pending" <=> request = "pending")
  PROVE  screen' \in [Screen -> Screened] /\ ScreensTrue'
<1>1. screen[w] \in Screened /\ screen' \in [Screen -> Screened] /\ screen'[w] = new
  BY DEF DeletionInv
<1>2. \A v \in Screen \ {w} : screen'[v] = screen[v]
  BY DEF DeletionInv
<1>3. ScreensTrue'
  <2> SUFFICES ASSUME NEW v \in Screen
               PROVE  /\ ~screen'[v].behind => (screen'[v].shown = "pending" <=> request' = "pending")
                      /\ screen'[v].act = "posted" /\ screen'[v].posted => request' = "pending"
    BY DEF ScreensTrue
  <2>1. /\ ~screen[v].behind => (screen[v].shown = "pending" <=> request = "pending")
        /\ screen[v].act = "posted" /\ screen[v].posted => request = "pending"
    BY DEF DeletionInv, ScreensTrue
  <2>2. CASE v # w
    BY <1>2, <2>1, <2>2
  <2>3. CASE v = w
    <3>1. screen'[v] = new
      BY <1>1, <2>3
    <3>2. new.act = "posted" /\ new.posted => request' = "pending"
      BY <2>1, <2>3
    <3>3. ~new.behind => (new.shown = "pending" <=> request' = "pending")
      BY <2>1, <2>3
    <3>4. QED
      BY <3>1, <3>2, <3>3
  <2>4. QED
    BY <2>2, <2>3
<1>4. QED
  BY <1>1, <1>3

LEMMA ActKept ==
  ASSUME DeletionInv, UNCHANGED <<request, peek>>, NEW w \in Screen, NEW a \in Deciding \ {"posted"},
         screen' = [screen EXCEPT ![w].act = a]
  PROVE  DeletionInv'
<1> DEFINE new == [screen[w] EXCEPT !.act = a]
<1>1. screen[w] \in Screened /\ screen' = [screen EXCEPT ![w] = new]
  BY DEF DeletionInv
<1>2. new \in Screened /\ new.act = a /\ new.behind = screen[w].behind /\ new.shown = screen[w].shown
  BY <1>1 DEF Screened
<1> HIDE DEF new
<1>3. QED
  BY <1>1, <1>2, ScreensKept DEF DeletionInv, Peeks, PeeksTrue

(* The row changes: nothing on a screen or awaited by it counts.                              *)
LEMMA RowChanges ==
  ASSUME DeletionInv, NEW w \in Screen, NEW a \in Deciding,
         request' \in Requested, peek' = Overlook, screen' = [Outdate EXCEPT ![w].act = a],
         a = "posted" => request' = "pending"
  PROVE  DeletionInv'
<1>1. screen \in [Screen -> Screened] /\ Peeks
  BY DEF DeletionInv
<1>2. /\ Outdate \in [Screen -> Screened]
      /\ \A v \in Screen : Outdate[v].behind = TRUE /\ (Outdate[v].posted => Outdate[v].act # "posted")
  BY <1>1, OutdateFacts
<1>3. Peeks' /\ PeeksTrue'
  BY <1>1, OverlookFacts DEF Peeks, PeeksTrue
<1> DEFINE new == [Outdate[w] EXCEPT !.act = a]
<1>4. Outdate[w] \in Screened /\ screen' = [Outdate EXCEPT ![w] = new]
  BY <1>2
<1>5. new \in Screened /\ new.act = a /\ new.behind = TRUE
  BY <1>2, <1>4 DEF Screened
<1> HIDE DEF new
<1>6. screen' \in [Screen -> Screened] /\ screen'[w] = new /\ \A v \in Screen \ {w} : screen'[v] = Outdate[v]
  BY <1>2, <1>4, <1>5
<1>7. ScreensTrue'
  BY <1>2, <1>5, <1>6 DEF ScreensTrue
<1>8. QED
  BY <1>3, <1>6, <1>7 DEF DeletionInv

LEMMA DeletionKept == DeletionInv /\ DeletionStep => DeletionInv'
<1> SUFFICES ASSUME DeletionInv, DeletionStep PROVE DeletionInv'
  OBVIOUS
<1>1. ASSUME NEW w \in Screen, NEW l \in Answering, ReadRequest(w, l) PROVE DeletionInv'
  <2>1. UNCHANGED <<request, screen>> /\ peek' = Peek(w, l, RequestRead(FALSE))
    BY <1>1 DEF ReadRequest
  <2>2. Peeks' /\ PeeksTrue'
    BY <2>1, NewPeeks, ReadsKept DEF DeletionInv
  <2>3. QED
    BY <2>1, <2>2 DEF DeletionInv, ScreensTrue
<1>2. ASSUME NEW w \in Screen, NEW l \in Answering, LandRequest(w, l) PROVE DeletionInv'
  <2> DEFINE deed == IF peek[w][l].own THEN "idle" ELSE screen[w].act
             b == ~peek[w][l].fresh
             hears == [screen[w] EXCEPT !.act = deed, !.shown = peek[w][l].answer, !.behind = b]
             deaf == [screen[w] EXCEPT !.act = deed]
  <2>1. /\ request' = request /\ peek' = Peek(w, l, NoPeek)
        /\ screen' = [screen EXCEPT ![w] = hears] \/ screen' = [screen EXCEPT ![w] = deaf]
    BY <1>2 DEF LandRequest
  <2>2. screen[w] \in Screened /\ peek[w][l] \in Peeked
    BY DEF DeletionInv, Peeks
  <2>3. deed \in Deciding /\ (deed = "posted" => screen[w].act = "posted")
    BY <2>2, ScreenedFields DEF Deciding
  <2>4. b \in BOOLEAN /\ peek[w][l].answer \in Requested /\ (~b => peek[w][l].answer = request)
    BY <2>2, PeekedFields DEF DeletionInv, PeeksTrue
  <2> HIDE DEF deed, b
  <2>5. /\ hears \in Screened /\ hears.act = deed /\ hears.posted = screen[w].posted
        /\ hears.shown = peek[w][l].answer /\ hears.behind = b
    BY <2>2, <2>3, <2>4 DEF Screened
  <2>6. /\ deaf \in Screened /\ deaf.act = deed /\ deaf.posted = screen[w].posted
        /\ deaf.shown = screen[w].shown /\ deaf.behind = screen[w].behind
    BY <2>2, <2>3 DEF Screened
  <2> HIDE DEF hears, deaf
  <2>7. Peeks' /\ PeeksTrue'
    <3>1. NoPeek \in Peeked /\ NoPeek.fresh = FALSE
      BY NewPeeks DEF DeletionInv
    <3>2. QED
      BY <2>1, <3>1, ReadsKept
  <2>8. screen' \in [Screen -> Screened] /\ ScreensTrue'
    BY <2>1, <2>3, <2>4, <2>5, <2>6, ScreensKept
  <2>9. QED
    BY <2>1, <2>7, <2>8 DEF DeletionInv
<1>3. ASSUME NEW w \in Screen, NEW l \in Answering, RequestAgain(w, l) PROVE DeletionInv'
  <2> DEFINE new == [screen[w] EXCEPT !.act = "reload"]
  <2>1. /\ request' = request /\ peek' = Peek(w, l, RequestRead(TRUE)) /\ screen' = [screen EXCEPT ![w] = new]
        /\ screen[w] \in Screened
    BY <1>3 DEF RequestAgain, DeletionInv
  <2>2. /\ new \in Screened /\ new.act = "reload" /\ new.behind = screen[w].behind
        /\ new.shown = screen[w].shown
    BY <2>1 DEF Screened, Deciding
  <2> HIDE DEF new
  <2>3. Peeks' /\ PeeksTrue'
    BY <2>1, NewPeeks, ReadsKept DEF DeletionInv
  <2>4. screen' \in [Screen -> Screened] /\ ScreensTrue'
    BY <2>1, <2>2, ScreensKept
  <2>5. QED
    BY <2>1, <2>3, <2>4 DEF DeletionInv
<1>4. ASSUME NEW w \in Screen, PressDeletion(w) \/ CheckRequest(w) \/ FindRequest(w) PROVE DeletionInv'
  <2>1. PICK a \in Deciding \ {"posted"} : screen' = [screen EXCEPT ![w].act = a]
    BY <1>4 DEF PressDeletion, CheckRequest, FindRequest, Deciding
  <2>2. UNCHANGED <<request, peek>>
    BY <1>4 DEF PressDeletion, CheckRequest, FindRequest
  <2>3. QED
    BY <2>1, <2>2, ActKept
<1>5. ASSUME NEW w \in Screen, InsertRequest(w) PROVE DeletionInv'
  <2>1. CASE request' = "pending" /\ peek' = Overlook /\ screen' = [Outdate EXCEPT ![w].act = "posted"]
    BY <2>1, RowChanges DEF Requested, Deciding
  <2>2. CASE UNCHANGED <<request, peek>> /\ screen' = [screen EXCEPT ![w].act = "refused"]
    BY <2>2, ActKept DEF Deciding
  <2>3. QED
    BY <1>5, <2>1, <2>2 DEF InsertRequest
<1>6. ASSUME NEW w \in Screen, CancelRequest(w) PROVE DeletionInv'
  BY <1>6, RowChanges DEF CancelRequest, Requested, Deciding
<1>7. ASSUME NEW w \in Screen, LandDeletion(w) PROVE DeletionInv'
  <2>1. UNCHANGED <<request, peek>>
    BY <1>7 DEF LandDeletion
  <2>2. CASE screen' = [screen EXCEPT ![w].act = "idle"]
    BY <2>1, <2>2, ActKept DEF Deciding
  <2>3. CASE /\ screen[w].act = "posted"
             /\ screen' = [screen EXCEPT ![w] = [NoScreen EXCEPT !.shown = "pending", !.behind = ~screen[w].posted]]
    <3> DEFINE b == ~screen[w].posted
               new == [NoScreen EXCEPT !.shown = "pending", !.behind = b]
    <3>0. screen[w] \in Screened /\ (screen[w].posted => request = "pending")
      BY <2>3 DEF DeletionInv, ScreensTrue
    <3>1. b \in BOOLEAN /\ (~b => request = "pending")
      BY <3>0
    <3> HIDE DEF b
    <3>2. new \in Screened /\ new.act = "idle" /\ new.shown = "pending" /\ new.behind = b
      BY <3>1 DEF NoScreen, Screened, Deciding, Requested
    <3>3. screen' = [screen EXCEPT ![w] = new]
      BY <2>3 DEF b
    <3> HIDE DEF new
    <3>4. screen' \in [Screen -> Screened] /\ ScreensTrue'
      BY <2>1, <3>1, <3>2, <3>3, ScreensKept
    <3>5. QED
      BY <2>1, <3>4 DEF DeletionInv, Peeks, PeeksTrue
  <2>4. QED
    BY <1>7, <2>2, <2>3 DEF LandDeletion
<1>8. QED
  BY <1>1, <1>2, <1>3, <1>4, <1>5, <1>6, <1>7 DEF DeletionStep

LEMMA CheckedFields ==
  \A x \in Checked, s \in SUBSET Answering, b \in BOOLEAN :
    LET y == [x EXCEPT !.older = s, !.overtaken = b]
    IN  y \in Checked /\ y.older = s /\ y.overtaken = b /\ y.text = x.text
BY DEF Checked

(* A verdict is asked for: it comes after all those under way.                               *)
LEMMA VerdictStarts ==
  ASSUME PasswordTypes, VerdictOrder, NEW l \in Answering, Validate(l)
  PROVE  /\ validation' \in [Answering -> Checked] /\ VerdictOrder'
         /\ l \in Validating' /\ validation'[l].text = timer
         /\ ~validation'[l].overtaken => typed # ""
         /\ \A k \in Answering : Latest(k)' => k = l
<1> DEFINE b == typed = ""
           new == [text |-> timer, older |-> Validating, overtaken |-> b]
<1>1. timer # "" /\ l \notin Validating /\ validation' = [validation EXCEPT ![l] = new]
  BY DEF Validate
<1>2. Validating \subseteq Answering /\ timer \in Text /\ b \in BOOLEAN
  BY DEF Validating, PasswordTypes
<1>3. new \in Checked /\ new.text = timer /\ new.older = Validating /\ (~new.overtaken => typed # "")
  BY <1>2 DEF Checked
<1> HIDE DEF new
<1>4. validation' \in [Answering -> Checked] /\ validation'[l] = new /\ \A k \in Answering \ {l} : validation'[k] = validation[k]
  BY <1>1, <1>3 DEF PasswordTypes
<1>5. Validating' = Validating \cup {l}
  BY <1>1, <1>3, <1>4 DEF Validating
<1>6. VerdictOrder'
  BY <1>1, <1>2, <1>3, <1>4, <1>5 DEF VerdictOrder
<1>7. ASSUME NEW k \in Answering, Latest(k)', k # l PROVE FALSE
  BY <1>1, <1>4, <1>5, <1>7 DEF Latest, VerdictOrder
<1>8. QED
  BY <1>3, <1>4, <1>5, <1>6, <1>7

(* A verdict lands: those asked for before it are overtaken.                                *)
LEMMA VerdictLands ==
  ASSUME PasswordTypes, VerdictOrder, NEW l \in Answering, LandVerdict(l)
  PROVE  /\ validation' \in [Answering -> Checked] /\ VerdictOrder'
         /\ l \in Validating /\ Validating' = Validating \ {l}
         /\ \A k \in Answering : Latest(k)' => Latest(k) /\ validation'[k].text = validation[k].text
<1> DEFINE old(k) == [validation[k] EXCEPT !.older = @ \ {l}, !.overtaken = @ \/ k \in validation[l].older]
<1>1. l \in Validating /\ validation' = [k \in Answering |-> IF k = l THEN NoValidation ELSE old(k)]
  BY DEF LandVerdict
<1>2. NoValidation \in Checked /\ NoValidation.text = ""
  BY DEF NoValidation, Checked, Text
<1>3. ASSUME NEW k \in Answering
      PROVE  /\ old(k) \in Checked /\ old(k).text = validation[k].text
             /\ old(k).older = validation[k].older \ {l}
             /\ ~old(k).overtaken => ~validation[k].overtaken /\ k \notin validation[l].older
  <2> DEFINE b == validation[k].overtaken \/ k \in validation[l].older
  <2>1. validation[k] \in Checked /\ validation[k].older \ {l} \in SUBSET Answering /\ validation[k].overtaken \in BOOLEAN
    BY DEF PasswordTypes, Checked
  <2>2. CASE b
    <3>1. old(k) = [validation[k] EXCEPT !.older = validation[k].older \ {l}, !.overtaken = TRUE]
      BY <2>2
    <3> HIDE DEF old
    <3> DEFINE x == validation[k]
               s == validation[k].older \ {l}
               y == [x EXCEPT !.older = s, !.overtaken = TRUE]
    <3>2. x \in Checked /\ s \in SUBSET Answering /\ TRUE \in BOOLEAN
      BY <2>1
    <3> HIDE DEF x, s
    <3>3. y \in Checked /\ y.older = s /\ y.overtaken = TRUE /\ y.text = x.text
      BY <3>2, CheckedFields
    <3>4. QED
      BY <2>2, <3>1, <3>3 DEF x, s
  <2>3. CASE ~b
    <3>1. old(k) = [validation[k] EXCEPT !.older = validation[k].older \ {l}, !.overtaken = FALSE]
      BY <2>3
    <3> HIDE DEF old
    <3> DEFINE x == validation[k]
               s == validation[k].older \ {l}
               y == [x EXCEPT !.older = s, !.overtaken = FALSE]
    <3>2. x \in Checked /\ s \in SUBSET Answering /\ FALSE \in BOOLEAN
      BY <2>1
    <3> HIDE DEF x, s
    <3>3. y \in Checked /\ y.older = s /\ y.overtaken = FALSE /\ y.text = x.text
      BY <3>2, CheckedFields
    <3>4. QED
      BY <2>3, <3>1, <3>3 DEF x, s
  <2>4. QED
    BY <2>2, <2>3
<1> HIDE DEF old
<1>4. validation' \in [Answering -> Checked] /\ validation'[l] = NoValidation /\ \A k \in Answering \ {l} : validation'[k] = old(k)
  BY <1>1, <1>2, <1>3
<1>5. Validating' = Validating \ {l} /\ Validating \subseteq Answering
  BY <1>1, <1>2, <1>3, <1>4 DEF Validating
<1>6. VerdictOrder'
  <2> SUFFICES ASSUME NEW k \in Validating \ {l}
               PROVE  /\ validation'[k].older \subseteq (Validating \ {l}) \ {k}
                      /\ \A j \in (Validating \ {l}) \ {k} : j \in validation'[k].older \/ k \in validation'[j].older
    BY <1>5 DEF VerdictOrder
  <2>1. \A j \in Validating \ {l} : validation'[j].older = validation[j].older \ {l}
    BY <1>3, <1>4, <1>5
  <2>2. QED
    BY <2>1 DEF VerdictOrder
<1>7. ASSUME NEW k \in Answering, Latest(k)' PROVE k # l /\ Latest(k)
  <2>1. k \in Validating /\ k # l /\ validation'[k] = old(k) /\ ~validation'[k].overtaken /\ Validating' \ {k} \subseteq validation'[k].older
    BY <1>4, <1>5, <1>7 DEF Latest
  <2>2. ~validation[k].overtaken /\ k \notin validation[l].older
    BY <1>3, <2>1
  <2>3. l \in validation[k].older
    BY <1>1, <1>5, <2>1, <2>2 DEF VerdictOrder
  <2>4. (Validating \ {l}) \ {k} \subseteq validation[k].older
    BY <1>3, <1>5, <2>1
  <2>5. QED
    BY <2>1, <2>2, <2>3, <2>4 DEF Latest
<1>8. QED
  BY <1>1, <1>3, <1>4, <1>5, <1>6, <1>7

LEMMA PasswordKept == PasswordInv /\ PasswordStep => PasswordInv'
<1> SUFFICES ASSUME PasswordInv, PasswordStep PROVE PasswordInv'
  OBVIOUS
<1> USE DEF PasswordInv, PasswordTypes
<1>1. ASSUME NEW l \in Answering, Validate(l) PROVE PasswordInv'
  <2>1. timer # "" /\ timer' = "" /\ UNCHANGED <<typed, verdict, late, passing>>
    BY <1>1 DEF Validate
  <2>2. /\ validation' \in [Answering -> Checked] /\ VerdictOrder'
        /\ l \in Validating' /\ validation'[l].text = timer
        /\ ~validation'[l].overtaken => typed # ""
        /\ \A k \in Answering : Latest(k)' => k = l
    BY <1>1, VerdictStarts
  <2>3. PasswordTypes'
    BY <2>1, <2>2 DEF Text
  <2>4. \A k \in Answering : Latest(k)' /\ timer' = "" => validation'[k].text = typed'
    BY <2>1, <2>2 DEF Latest
  <2>5. VerdictTrue'
    BY <2>2 DEF VerdictTrue
  <2>6. QED
    BY <2>1, <2>2, <2>3, <2>4, <2>5
<1>2. ASSUME NEW l \in Answering, LandVerdict(l) PROVE PasswordInv'
  <2>1. UNCHANGED <<typed, timer, passing>>
    BY <1>2 DEF LandVerdict
  <2>2. /\ validation' \in [Answering -> Checked] /\ VerdictOrder'
        /\ l \in Validating /\ Validating' = Validating \ {l}
        /\ \A k \in Answering : Latest(k)' => Latest(k) /\ validation'[k].text = validation[k].text
    BY <1>2, VerdictLands
  <2>3. CASE verdict' = validation[l].text /\ late' = validation[l].overtaken
    <3>1. validation[l].text \in Text /\ validation[l].overtaken \in BOOLEAN
      BY DEF Checked
    <3>2. PasswordTypes'
      BY <2>1, <2>2, <2>3, <3>1
    <3>3. VerdictTrue'
      <4> SUFFICES ASSUME Validating' = {}, timer = "", ~late' PROVE verdict' = typed
        BY <2>1 DEF VerdictTrue
      <4>1. Validating = {l}
        BY <2>2
      <4>2. Latest(l)
        BY <2>3, <4>1 DEF Latest
      <4>3. QED
        BY <2>3, <4>2
    <3>4. QED
      BY <2>1, <2>2, <3>2, <3>3
  <2>4. CASE late' = TRUE /\ verdict' = verdict
    <3>1. PasswordTypes' /\ VerdictTrue'
      BY <2>1, <2>2, <2>4 DEF VerdictTrue
    <3>2. QED
      BY <2>1, <2>2, <3>1
  <2>5. QED
    BY <1>2, <2>3, <2>4 DEF LandVerdict
<1>3. ASSUME Type PROVE PasswordInv'
  <2>1. typed' \in {"weak", "good"} /\ timer' = typed' /\ UNCHANGED <<verdict, validation, late, passing>>
    BY <1>3 DEF Type
  <2>2. PasswordTypes' /\ VerdictOrder'
    BY <2>1 DEF Text, VerdictOrder, Validating
  <2>3. QED
    BY <2>1, <2>2 DEF VerdictTrue
<1>4. ASSUME SendPassword PROVE PasswordInv'
  <2>1. passing' = typed /\ UNCHANGED <<typed, verdict, timer, validation, late>>
    BY <1>4 DEF SendPassword
  <2>2. QED
    BY <2>1 DEF VerdictOrder, VerdictTrue, Latest, Validating
<1>5. ASSUME LandPassword PROVE PasswordInv'
  <2>1. passing' = "" /\ UNCHANGED <<timer, late>>
    BY <1>5 DEF LandPassword
  <2>2. CASE UNCHANGED <<typed, verdict, validation>>
    <3>1. PasswordTypes'
      BY <2>1, <2>2 DEF Text
    <3>2. QED
      BY <2>1, <2>2, <3>1 DEF VerdictOrder, VerdictTrue, Latest, Validating
  <2>3. CASE typed' = "" /\ verdict' = "" /\ validation' = [l \in Answering |-> [validation[l] EXCEPT !.overtaken = TRUE]]
    <3>1. \A l \in Answering : /\ validation'[l] \in Checked /\ validation'[l].overtaken = TRUE
                              /\ validation'[l].older = validation[l].older /\ validation'[l].text = validation[l].text
      <4>1. \A x \in Checked : LET y == [x EXCEPT !.overtaken = TRUE]
                               IN  y \in Checked /\ y.overtaken = TRUE /\ y.older = x.older /\ y.text = x.text
        BY DEF Checked
      <4>2. QED
        BY <2>3, <4>1
    <3>2. PasswordTypes'
      BY <2>1, <2>3, <3>1 DEF Text
    <3>3. Validating' = Validating /\ \A l \in Answering : ~Latest(l)'
      BY <3>1 DEF Validating, Latest
    <3>4. VerdictOrder'
      BY <3>1, <3>3 DEF VerdictOrder, Validating
    <3>5. QED
      BY <2>1, <2>3, <3>2, <3>3, <3>4 DEF VerdictTrue
  <2>4. QED
    BY <1>5, <2>2, <2>3 DEF LandPassword
<1>6. QED
  BY <1>1, <1>2, <1>3, <1>4, <1>5 DEF PasswordStep

LEMMA CodesKept == CodesInv /\ CodesStep => CodesInv'
<1> SUFFICES ASSUME CodesInv, CodesStep PROVE CodesInv'
  OBVIOUS
<1> USE DEF CodesInv, Generated, CodesWork, GeneratingNow
<1>1. ASSUME NEW l \in Answering, Generate(l) PROVE CodesInv'
  BY <1>1 DEF Generate
<1>2. ASSUME NEW l \in Answering, DropCodes(l) PROVE CodesInv'
  BY <1>2 DEF DropCodes
<1>3. ASSUME NEW l \in Answering, StoreCodes(l) PROVE CodesInv'
  <2> DEFINE next == lastBatch + 1
  <2>1. /\ generation[l].at = "deleted" /\ lastBatch' = next /\ live' = live \cup {next}
        /\ generation' = [generation EXCEPT ![l] = [at |-> "done", batch |-> next]]
        /\ UNCHANGED <<codesShown, doubled>>
    BY <1>3 DEF StoreCodes
  <2>2. next \in Nat /\ next \in 1..next /\ 1..lastBatch \subseteq 1..next /\ 0..lastBatch \subseteq 0..next
    OBVIOUS
  <2> HIDE DEF next
  <2>3. /\ lastBatch' \in Nat /\ live' \subseteq 1..lastBatch' /\ codesShown' \in 0..lastBatch'
        /\ doubled' \in BOOLEAN /\ generation' \in [Answering -> Generated]
    BY <2>1, <2>2
  <2>4. \A k \in Answering : generation'[k].batch \in 0..lastBatch'
    <3>1. next \in 0..next
      BY <2>2
    <3>2. QED
      BY <2>1, <2>2, <3>1
  <2>5. GeneratingNow' = GeneratingNow /\ l \in GeneratingNow
    BY <2>1 DEF GeneratingNow
  <2>6. ~doubled => live' = {next} /\ \A k \in Answering \ {l} : k \notin GeneratingNow
    BY <2>1, <2>5
  <2>7. QED
    BY <2>1, <2>3, <2>4, <2>5, <2>6
<1>4. ASSUME NEW l \in Answering, ShowCodes(l) PROVE CodesInv'
  BY <1>4 DEF ShowCodes
<1>5. ASSUME CloseCodes PROVE CodesInv'
  BY <1>5 DEF CloseCodes
<1>6. QED
  BY <1>1, <1>2, <1>3, <1>4, <1>5 DEF CodesStep

(* The inductive invariant of a page of an account: it holds at the start, *)
LEMMA AccountPagesStart == AccountPagesInit => AccountPagesInv
<1> SUFFICES ASSUME AccountPagesInit PROVE AccountPagesInv
  OBVIOUS
<1> USE DEF AccountPagesInit
<1>1. TopicInv
  <2>1. PICK t \in Topics : topic = t[1] /\ app = t[2]
    OBVIOUS
  <2>2. t = <<t[1], t[2]>> /\ t[2] \in {"react", "vue"}
    <3>1. t \in {"list", "factors", "profile", "deletion", "password", "codes"} \X {"react", "vue"}
      BY AccountPagesAssumption
    <3> HIDE DEF AccountPagesInit
    <3>2. QED
      BY <3>1
  <2>3. elsewhere \in 0..MaxElsewhere
    <3>1. elsewhere = 0
      OBVIOUS
    <3> HIDE DEF AccountPagesInit
    <3>2. QED
      BY <3>1, AccountPagesAssumption
  <2>4. QED
    BY <2>1, <2>2, <2>3 DEF TopicInv
<1>2. ItemsInv
  <2>1. ItemTypes /\ Leaving = {}
    BY Emptied DEF ItemTypes, Leaving
  <2>2. QED
    BY <2>1, Emptied DEF ItemsInv
<1>3. ProfileInv
  <2>1. kept \in Profile /\ saved = kept
    BY DEF Profile
  <2>2. NoSend(kept) \in ProfileSending /\ NoSend(kept).at = "idle"
    BY <2>1 DEF NoSend, ProfileSending
  <2>3. tangled = FALSE /\ send = [f \in Field |-> NoSend(kept)]
    OBVIOUS
  <2> HIDE DEF AccountPagesInit
  <2>4. send \in [Field -> ProfileSending] /\ \A f \in Field : send[f].at = "idle"
    BY <2>2, <2>3
  <2>5. QED
    BY <2>1, <2>3, <2>4 DEF ProfileInv
<1>4. DeletionInv
  <2>1. NoScreen \in Screened /\ NoScreen.behind = TRUE /\ NoScreen.act = "idle"
    BY DEF NoScreen, Screened, Deciding, Requested
  <2>2. NoPeek \in Peeked /\ NoPeek.fresh = FALSE
    BY DEF NoPeek, Peeked, Requested
  <2>3. Peeks /\ PeeksTrue
    BY <2>2 DEF Peeks, PeeksTrue
  <2>4. ScreensTrue /\ screen \in [Screen -> Screened] /\ request \in Requested
    BY <2>1 DEF ScreensTrue, Requested
  <2>5. QED
    BY <2>3, <2>4 DEF DeletionInv
<1>5. PasswordInv
  <2>1. NoValidation \in Checked /\ NoValidation.text = ""
    BY DEF NoValidation, Checked, Text
  <2>2. Validating = {}
    BY <2>1 DEF Validating
  <2>3. PasswordTypes
    BY <2>1 DEF PasswordTypes, Text
  <2>4. QED
    BY <2>2, <2>3 DEF PasswordInv, VerdictOrder, Latest, VerdictTrue
<1>6. CodesInv
  <2>1. generation \in [Answering -> Generated] /\ \A l \in Answering : generation[l].at = "idle" /\ generation[l].batch = 0
    BY DEF Generated
  <2>2. lastBatch = 0 /\ live = {} /\ codesShown = 0 /\ doubled = FALSE
    OBVIOUS
  <2> HIDE DEF AccountPagesInit
  <2>3. GeneratingNow = {} /\ CodesWork
    BY <2>1, <2>2 DEF CodesWork, GeneratingNow
  <2>4. /\ lastBatch \in Nat /\ live \subseteq 1..lastBatch /\ codesShown \in 0..lastBatch
        /\ \A l \in Answering : generation[l].batch \in 0..lastBatch
    BY <2>1, <2>2
  <2>5. doubled \in BOOLEAN
    BY <2>2
  <2>6. /\ \A l, k \in GeneratingNow : l = k
        /\ \A l \in Answering : generation[l].at # "deleted" /\ generation[l].at # "done"
    BY <2>1, <2>3
  <2>7. QED
    BY <2>1, <2>3, <2>4, <2>5, <2>6 DEF CodesInv
<1>7. QED
  BY <1>1, <1>2, <1>3, <1>4, <1>5, <1>6 DEF AccountPagesInv

(* Each invariant is about the variables of its topic only.                                   *)
LEMMA ItemsStay == ItemsInv /\ UNCHANGED <<topic, listVars>> => ItemsInv'
BY DEF ItemsInv, ItemTypes, Leaving, Rereads, listVars
LEMMA ProfileStays == ProfileInv /\ UNCHANGED profileVars => ProfileInv'
BY DEF ProfileInv, profileVars
LEMMA DeletionStays == DeletionInv /\ UNCHANGED deletionVars => DeletionInv'
BY DEF DeletionInv, Peeks, PeeksTrue, ScreensTrue, deletionVars
LEMMA PasswordStays == PasswordInv /\ UNCHANGED passwordVars => PasswordInv'
<1> SUFFICES ASSUME PasswordInv, UNCHANGED passwordVars PROVE PasswordInv'
  OBVIOUS
<1>1. UNCHANGED <<typed, verdict, timer, validation, late, passing>>
  BY DEF passwordVars
<1>2. Validating' = Validating /\ \A l \in Answering : Latest(l)' => Latest(l)
  BY <1>1 DEF Validating, Latest
<1>3. PasswordTypes' /\ VerdictOrder' /\ VerdictTrue'
  BY <1>1, <1>2 DEF PasswordInv, PasswordTypes, VerdictOrder, VerdictTrue
<1>4. QED
  BY <1>1, <1>2, <1>3 DEF PasswordInv
LEMMA CodesStay == CodesInv /\ UNCHANGED codeVars => CodesInv'
BY DEF CodesInv, CodesWork, GeneratingNow, codeVars

(* Every step is about one topic, and counts what other browsers do.                          *)
LEMMA StepsApart ==
  AccountPagesNext =>
    /\ UNCHANGED <<topic, app>>
    /\ elsewhere' = elsewhere \/ (elsewhere < MaxElsewhere /\ elsewhere' = elsewhere + 1)
    /\ \/ ItemStep /\ UNCHANGED <<profileVars, deletionVars, passwordVars, codeVars>>
       \/ ProfileStep /\ UNCHANGED <<listVars, deletionVars, passwordVars, codeVars>>
       \/ DeletionStep /\ UNCHANGED <<listVars, profileVars, passwordVars, codeVars>>
       \/ PasswordStep /\ UNCHANGED <<listVars, profileVars, deletionVars, codeVars>>
       \/ CodesStep /\ UNCHANGED <<listVars, profileVars, deletionVars, passwordVars>>
<1>1. ItemStep => /\ UNCHANGED <<topic, app, profileVars, deletionVars, passwordVars, codeVars>>
                  /\ elsewhere' = elsewhere \/ (elsewhere < MaxElsewhere /\ elsewhere' = elsewhere + 1)
  BY DEF ItemStep, AskItems, ReadItems, LandItems, StartJob, AnswerJob, LandJob, ElsewhereItem, ListOnly, Same
<1>2. ProfileStep => /\ UNCHANGED <<topic, app, listVars, deletionVars, passwordVars, codeVars>>
                     /\ elsewhere' = elsewhere \/ (elsewhere < MaxElsewhere /\ elsewhere' = elsewhere + 1)
  BY DEF ProfileStep, Save, AnswerSave, LandSave, ElsewhereProfile, ProfileOnly, Same
<1>3. DeletionStep => UNCHANGED <<topic, app, elsewhere, listVars, profileVars, passwordVars, codeVars>>
  BY DEF DeletionStep, ReadRequest, LandRequest, RequestAgain, PressDeletion, CheckRequest, InsertRequest,
         FindRequest, CancelRequest, LandDeletion, DeletionOnly, Same
<1>4. PasswordStep => UNCHANGED <<topic, app, elsewhere, listVars, profileVars, deletionVars, codeVars>>
  BY DEF PasswordStep, Validate, LandVerdict, Type, SendPassword, LandPassword, PasswordOnly, Same
<1>5. CodesStep => UNCHANGED <<topic, app, elsewhere, listVars, profileVars, deletionVars, passwordVars>>
  BY DEF CodesStep, Generate, DropCodes, StoreCodes, ShowCodes, CloseCodes, CodesOnly, Same
<1>6. AccountPagesNext => ItemStep \/ ProfileStep \/ DeletionStep \/ PasswordStep \/ CodesStep
  BY DEF AccountPagesNext, ItemStep, ProfileStep, DeletionStep, PasswordStep, CodesStep
<1>7. QED
  BY <1>1, <1>2, <1>3, <1>4, <1>5, <1>6

(* every step of every actor keeps it,                                                    *)
LEMMA AccountPagesStepKeeps == AccountPagesInv /\ [AccountPagesNext]_accountPageVars => AccountPagesInv'
<1> SUFFICES ASSUME AccountPagesInv, [AccountPagesNext]_accountPageVars PROVE AccountPagesInv'
  OBVIOUS
<1> USE DEF AccountPagesInv
<1>1. CASE AccountPagesNext
  <2>1. UNCHANGED <<topic, app>> /\ app \in {"react", "vue"}
    BY <1>1, StepsApart DEF TopicInv
  <2>2. TopicInv'
    BY <1>1, <2>1, StepsApart, AccountPagesAssumption DEF TopicInv
  <2>3. CASE ItemStep /\ UNCHANGED <<profileVars, deletionVars, passwordVars, codeVars>>
    BY <2>1, <2>2, <2>3, ItemsKept, ProfileStays, DeletionStays, PasswordStays, CodesStay
  <2>4. CASE ProfileStep /\ UNCHANGED <<listVars, deletionVars, passwordVars, codeVars>>
    BY <2>1, <2>2, <2>4, ItemsStay, ProfileKept, DeletionStays, PasswordStays, CodesStay
  <2>5. CASE DeletionStep /\ UNCHANGED <<listVars, profileVars, passwordVars, codeVars>>
    BY <2>1, <2>2, <2>5, ItemsStay, ProfileStays, DeletionKept, PasswordStays, CodesStay
  <2>6. CASE PasswordStep /\ UNCHANGED <<listVars, profileVars, deletionVars, codeVars>>
    BY <2>1, <2>2, <2>6, ItemsStay, ProfileStays, DeletionStays, PasswordKept, CodesStay
  <2>7. CASE CodesStep /\ UNCHANGED <<listVars, profileVars, deletionVars, passwordVars>>
    BY <2>1, <2>2, <2>7, ItemsStay, ProfileStays, DeletionStays, PasswordStays, CodesKept
  <2>8. QED
    BY <1>1, <2>3, <2>4, <2>5, <2>6, <2>7, StepsApart
<1>2. CASE UNCHANGED accountPageVars
  <2>1. UNCHANGED <<topic, app, elsewhere, listVars, profileVars, deletionVars, passwordVars, codeVars>>
    BY <1>2 DEF accountPageVars
  <2>2. TopicInv'
    BY <2>1 DEF TopicInv
  <2>3. QED
    BY <2>1, <2>2, ItemsStay, ProfileStays, DeletionStays, PasswordStays, CodesStay
<1>3. QED
  BY <1>1, <1>2

(* and what the runs check of the component follows from it.                              *)
LEMMA AccountPagesInvHolds == AccountPagesInv => AccountPagesTypeOK /\ AccountPagesHold
<1> SUFFICES ASSUME AccountPagesInv PROVE AccountPagesTypeOK /\ AccountPagesHold
  OBVIOUS
<1> USE DEF AccountPagesInv
<1>1. AccountPagesTypeOK
  <2>1. \A l \in Answering : itemRead[l].at \in {"idle", "asked", "read"} /\ itemRead[l].rows \subseteq Item
    BY DEF ItemsInv, ItemTypes, ItemReading
  <2>2. \A s \in Item : job[s].at \in {"idle", "sent", "done", "refused"} /\ job[s].seen \subseteq Item
    BY DEF ItemsInv, ItemTypes, ItemJob
  <2>3. \A l \in Answering : validation[l].text \in Text
    BY DEF PasswordInv, PasswordTypes, Checked
  <2>4. \A l \in Answering : generation[l].at \in {"idle", "sent", "deleted", "done"}
    BY DEF CodesInv, Generated
  <2>5. \A f \in Field : send[f].at \in {"idle", "sent", "done", "refused"}
    BY DEF ProfileInv, ProfileSending
  <2>6. \A w \in Screen : /\ screen[w].act \in Deciding
                          /\ screen[w].shown \in {"none", "pending", "cancelled"}
                          /\ \A l \in Answering : peek[w][l].at \in {"idle", "read"}
    BY ScreenedFields, PeekedFields DEF DeletionInv, Peeks, Requested
  <2>7. <<topic, app>> \in Topics /\ elsewhere \in 0..MaxElsewhere
    BY DEF TopicInv
  <2>8. rows \subseteq Item /\ listed \subseteq Item /\ outdated \in BOOLEAN
    BY DEF ItemsInv, ItemTypes
  <2>9. saved \in Profile /\ kept \in Profile /\ request \in {"none", "pending", "cancelled"}
    BY DEF ProfileInv, DeletionInv, Requested
  <2>10. {typed, verdict, timer, passing} \subseteq Text /\ live \subseteq 1..lastBatch /\ codesShown \in 0..lastBatch
    BY DEF PasswordInv, PasswordTypes, CodesInv
  <2> HIDE DEF AccountPagesInv
  <2>11. QED
    BY <2>1, <2>2, <2>3, <2>4, <2>5, <2>6, <2>7, <2>8, <2>9, <2>10 DEF AccountPagesTypeOK
<1>2. ItemsTrue
  BY DEF ItemsTrue, ItemsInv, Leaving
<1>3. UserTrue
  <2> SUFFICES ASSUME \A f \in Field : send[f].at = "idle", ~tangled PROVE kept = saved
    BY DEF UserTrue
  <2>1. kept \in Profile /\ saved \in Profile /\ \A f \in Field : saved[f] = kept[f]
    BY DEF ProfileInv
  <2>2. QED
    BY <2>1 DEF Profile
<1>4. DeletionShown
  <2>1. ScreensTrue
    BY DEF DeletionInv
  <2> HIDE DEF AccountPagesInv
  <2>2. QED
    BY <2>1 DEF DeletionShown, ScreensTrue
<1>5. VerdictTrue /\ CodesWork
  BY DEF PasswordInv, CodesInv
<1>6. QED
  BY <1>1, <1>2, <1>3, <1>4, <1>5 DEF AccountPagesHold

--------------------------------------------------------------------------------
(* SignIn: the form, the second step and the puzzle.                                      *)

(* Signing in: the types.                                                                     *)
SignInRequest == [at : {"idle", "sent"}, kind : {"login", "relogin", "change", "verify", "old", "ldap"},
                  name : Name \cup {NoName}, pass : BOOLEAN]
CodeRequest == [at : {"idle", "sent", "mailed", "refused"}, to : Choice]
SignInFormTypes ==
  /\ {name, signed, mfa, flash, parked, resumed, requested} \subseteq Name \cup {NoName}
  /\ must \in BOOLEAN /\ cap \in BOOLEAN /\ wants \in BOOLEAN /\ entangled \in BOOLEAN /\ leftover \in BOOLEAN
  /\ wanted \in {"yes", "no", "late"}
  /\ req \in [Sending -> SignInRequest] /\ site \in [at : {"login", "profile", "home"}, leaving : BOOLEAN]

(* The form: unless requests overlapped, what is under way is about the account asked for last; *)
(* what a document has parked, it has parked for the account it signs in.                       *)
Away == site.at # "login" /\ ~site.leaving
Underway == {r \in Sending : req[r].at # "idle"}
SignInFormInv ==
  /\ site.leaving => site.at # "login"
  /\ ~entangled => /\ \A r \in Underway : req[r].name = requested
                   /\ flash # NoName => Underway = {} /\ ~site.leaving
                   /\ site.leaving => signed = requested
  /\ wanted = "no" => flash = NoName /\ Underway = {} /\ ~site.leaving
  /\ Away => flash = NoName /\ Underway = {}
  /\ site.at = "login" => parked = NoName \/ leftover
  /\ parked # NoName /\ ~leftover /\ ~entangled => parked = signed
  /\ resumed # NoName => Away
  /\ ResumedOwn

(* The second step: the code under way is for the factor chosen, unless the choice changed.     *)
SecondStepInv ==
  /\ sel \in Choice /\ codeSent \in BOOLEAN /\ sending \in BOOLEAN /\ mailed \subseteq Method /\ switched \in BOOLEAN
  /\ chal \in [Sending -> CodeRequest]
  /\ ui = "react" => sel \in Method
  /\ \A r, q \in AwaitingCode : r = q
  /\ \A r \in AwaitingCode : /\ chal[r].to \in Method /\ (chal[r].at = "mailed" => chal[r].to \in mailed)
                             /\ ~switched => chal[r].to = sel
  /\ codeSent /\ ~switched => sel \in mailed \cup {NoName, "recovery"}

(* The puzzle: one check, shown as such, unless the reset of a failure ended during it.          *)
Checks == {r \in Sending : check[r] = "sent"}
PuzzleInv ==
  /\ slider \in BOOLEAN /\ timerOn \in BOOLEAN /\ rushed \in BOOLEAN
  /\ phase \in {"idle", "checking", "fail", "success"} /\ trail \in {"none", "whole", "cut", "dragging"}
  /\ check \in [Sending -> {"idle", "sent", "fetch"}]
  /\ ~rushed => (\A r, q \in Checks : r = q) /\ (Checks # {} => phase = "checking")

SceneInv == <<scene, ui>> \in Scenes
SignInInv == SceneInv /\ SignInFormTypes /\ SignInFormInv /\ SecondStepInv /\ PuzzleInv

(* The steps, by scene.                                                                       *)
Submits(r) == SubmitLogin(r) \/ \E n \in Name : SubmitLdap(r, n)
FormStep ==
  \/ \E n \in Name : TypeName(n)
  \/ \E r \in Sending : Submits(r) \/ LandForm(r) \/ HandPass(r)
  \/ SolvePuzzle \/ GoBack \/ Unload \/ Enrolled \/ SignOutPage
SecondStepStep ==
  \/ \E r \in Sending : SendCodeTo(r) \/ AnswerCode(r) \/ LandCode(r) \/ \E f \in Method : Choose(r, f)
  \/ Turn \/ \E f \in Method : Pick(f)
PuzzleStep ==
  (\E r \in Sending : FetchPuzzle(r) \/ LandPuzzle(r) \/ Drop(r) \/ LandCheck(r)) \/ DragSlider \/ ResetSlider

LEMMA SendFacts ==
  ASSUME req \in [Sending -> SignInRequest], NEW r \in Sending,
         NEW k \in {"login", "relogin", "change", "verify", "old", "ldap"}, NEW n \in Name \cup {NoName},
         \/ req' = [req EXCEPT ![r] = [NoReq EXCEPT !.at = "sent", !.kind = k, !.name = n, !.pass = TRUE]]
         \/ req' = [req EXCEPT ![r] = [NoReq EXCEPT !.at = "sent", !.kind = k, !.name = n, !.pass = FALSE]]
  PROVE  /\ req' \in [Sending -> SignInRequest] /\ req'[r].at = "sent" /\ req'[r].name = n
         /\ \A q \in Sending \ {r} : req'[q] = req[q]
<1> DEFINE x == NoReq
           new(p) == [x EXCEPT !.at = "sent", !.kind = k, !.name = n, !.pass = p]
<1>1. x \in SignInRequest
  BY DEF NoReq, SignInRequest
<1> HIDE DEF x
<1>2. /\ new(TRUE) \in SignInRequest /\ new(TRUE).at = "sent" /\ new(TRUE).name = n
      /\ new(FALSE) \in SignInRequest /\ new(FALSE).at = "sent" /\ new(FALSE).name = n
  BY <1>1 DEF SignInRequest
<1>3. req' = [req EXCEPT ![r] = new(TRUE)] \/ req' = [req EXCEPT ![r] = new(FALSE)]
  BY DEF x
<1> HIDE DEF new
<1>4. QED
  BY <1>2, <1>3

LEMMA NoReqFacts == NoReq \in SignInRequest /\ NoReq.at = "idle"
BY DEF NoReq, SignInRequest

(* A request is answered: it is over, or it is sent again as the same account's.                 *)
LEMMA LandFormFacts ==
  ASSUME SignInFormTypes, NEW r \in Sending, LandForm(r)
  PROVE  /\ r \in Underway /\ req[r].name \in Name \cup {NoName}
         /\ req' \in [Sending -> SignInRequest] /\ Underway' \subseteq Underway
         /\ \A q \in Underway' : req'[q].name = req[q].name
         /\ \/ UNCHANGED <<signed, parked, site>>
            \/ /\ signed' = req[r].name /\ parked' \in {parked, req[r].name}
               /\ site'.leaving = TRUE /\ site'.at # "login"
               /\ site' \in [at : {"login", "profile", "home"}, leaving : BOOLEAN]
         /\ must' \in BOOLEAN /\ cap' \in BOOLEAN /\ mfa' \in {mfa, req[r].name}
         /\ UNCHANGED <<name, flash, wants, requested, wanted, entangled, leftover, resumed>>
<1> DEFINE n == req[r].name
<1>1. req[r].at = "sent" /\ UNCHANGED <<name, flash, wants, requested, wanted, entangled, leftover, resumed>>
  BY DEF LandForm
<1>2. req \in [Sending -> SignInRequest] /\ n \in Name \cup {NoName} /\ must \in BOOLEAN /\ cap \in BOOLEAN
  BY DEF SignInFormTypes, SignInRequest
<1>3. PICK a \in Answers(req[r]) :
        LET q == req[r]
            done == a \in {"ok", "enrol"} /\ q.kind # "change"
            again == a = "ok" /\ q.kind = "change"
        IN  /\ IF done THEN CompleteLogin(q.name, a = "enrol") ELSE UNCHANGED <<signed, parked, site>>
            /\ mfa' = IF a = "mfa" THEN q.name ELSE mfa
            /\ must' = ((must \/ a = "expired") /\ ~again)
            /\ cap' = (a = "captcha" \/ (cap /\ ~(q.kind = "login" /\ a # "refused")))
            /\ req' = IF again THEN SendForm(r, "relogin", q.name, FALSE) ELSE [req EXCEPT ![r] = NoReq]
  BY DEF LandForm
<1>4. req' = SendForm(r, "relogin", n, FALSE) \/ req' = [req EXCEPT ![r] = NoReq]
  BY <1>3
<1>5. must' \in BOOLEAN /\ cap' \in BOOLEAN /\ mfa' \in {mfa, n}
  BY <1>3
<1>6. \/ UNCHANGED <<signed, parked, site>>
      \/ /\ signed' = n /\ parked' \in {parked, n} /\ site'.leaving = TRUE /\ site'.at # "login"
         /\ site' \in [at : {"login", "profile", "home"}, leaving : BOOLEAN]
  <2>1. UNCHANGED <<signed, parked, site>> \/ CompleteLogin(n, TRUE) \/ CompleteLogin(n, FALSE)
    <3>1. CASE a = "enrol"
      <4>1. (a = "enrol") = TRUE
        BY <3>1
      <4>2. QED
        BY <1>3, <4>1
    <3>2. CASE a # "enrol"
      <4>1. (a = "enrol") = FALSE
        BY <3>2
      <4>2. QED
        BY <1>3, <4>1
    <3>3. QED
      BY <3>1, <3>2
  <2>2. ASSUME NEW e \in BOOLEAN, CompleteLogin(n, e)
        PROVE  /\ signed' = n /\ parked' \in {parked, n} /\ site'.leaving = TRUE /\ site'.at # "login"
               /\ site' \in [at : {"login", "profile", "home"}, leaving : BOOLEAN]
    <3>1. signed' = n /\ parked' \in {parked, n}
      BY <2>2 DEF CompleteLogin
    <3>2. PICK d \in {"profile", "home"} : site' = [at |-> d, leaving |-> TRUE]
      BY <2>2 DEF CompleteLogin
    <3>3. QED
      BY <3>1, <3>2
  <2>3. QED
    <3>1. TRUE \in BOOLEAN /\ FALSE \in BOOLEAN
      OBVIOUS
    <3>2. CASE CompleteLogin(n, TRUE)
      BY <2>2, <3>1, <3>2
    <3>3. CASE CompleteLogin(n, FALSE)
      BY <2>2, <3>1, <3>3
    <3>4. QED
      BY <2>1, <3>2, <3>3
<1> HIDE DEF n
<1>7. r \in Underway
  BY <1>1 DEF Underway
<1>8. CASE req' = SendForm(r, "relogin", n, FALSE)
  <2>1. /\ req' \in [Sending -> SignInRequest] /\ req'[r].at = "sent" /\ req'[r].name = n
        /\ \A q \in Sending \ {r} : req'[q] = req[q]
    BY <1>2, <1>8, SendFacts DEF SendForm
  <2>2. QED
    BY <1>1, <1>2, <1>5, <1>6, <1>7, <2>1 DEF Underway, n
<1>9. CASE req' = [req EXCEPT ![r] = NoReq]
  BY <1>1, <1>2, <1>5, <1>6, <1>7, <1>9, NoReqFacts DEF Underway, n
<1>10. QED
  BY <1>4, <1>8, <1>9

(* A request is sent, for the account it was asked for.                                       *)
LEMMA SubmitFacts ==
  ASSUME SignInFormTypes, NEW r \in Sending, Submits(r) \/ HandPass(r)
  PROVE  /\ r \notin Underway /\ Underway' = Underway \cup {r}
         /\ req' \in [Sending -> SignInRequest] /\ req'[r].name = requested' /\ requested' \in Name \cup {NoName}
         /\ \A q \in Underway : req'[q] = req[q]
<1>1. req[r].at = "idle" /\ req \in [Sending -> SignInRequest] /\ {name, mfa, flash} \subseteq Name \cup {NoName}
  BY DEF Submits, SubmitLogin, SubmitLdap, HandPass, SignInFormTypes
<1>2. ASSUME NEW k \in {"login", "relogin", "change", "verify", "old", "ldap"}, NEW n \in Name \cup {NoName},
             req' = SendForm(r, k, n, TRUE) \/ req' = SendForm(r, k, n, FALSE)
      PROVE  /\ req' \in [Sending -> SignInRequest] /\ req'[r].at = "sent" /\ req'[r].name = n
             /\ \A q \in Sending \ {r} : req'[q] = req[q]
  BY <1>1, <1>2, SendFacts DEF SendForm
<1>3. CASE SubmitLogin(r)
  <2>1. requested' = req'[r].name
    BY <1>3 DEF SubmitLogin
  <2>2. \/ req' = SendForm(r, "login", name, FALSE) \/ req' = SendForm(r, "change", name, FALSE)
        \/ req' = SendForm(r, "verify", mfa, FALSE)
    BY <1>3 DEF SubmitLogin
  <2>3. PICK n \in {name, mfa} : /\ req' \in [Sending -> SignInRequest] /\ req'[r].at = "sent" /\ req'[r].name = n
                                 /\ \A q \in Sending \ {r} : req'[q] = req[q]
    BY <1>1, <1>2, <2>2
  <2>4. QED
    BY <1>1, <2>1, <2>3 DEF Underway
<1>5. ASSUME NEW n \in Name, SubmitLdap(r, n)
      PROVE  /\ r \notin Underway /\ Underway' = Underway \cup {r}
             /\ req' \in [Sending -> SignInRequest] /\ req'[r].name = requested' /\ requested' \in Name \cup {NoName}
             /\ \A q \in Underway : req'[q] = req[q]
  <2>1. requested' = n /\ req' = SendForm(r, "ldap", n, FALSE)
    BY <1>5 DEF SubmitLdap
  <2>2. /\ req' \in [Sending -> SignInRequest] /\ req'[r].at = "sent" /\ req'[r].name = n
        /\ \A q \in Sending \ {r} : req'[q] = req[q]
    BY <1>1, <1>2, <2>1
  <2>3. QED
    BY <1>1, <2>1, <2>2 DEF Underway
<1>4. CASE HandPass(r)
  <2>1. requested' = flash /\ req' = SendForm(r, "login", flash, TRUE)
    BY <1>4 DEF HandPass
  <2>2. /\ req' \in [Sending -> SignInRequest] /\ req'[r].at = "sent" /\ req'[r].name = flash
        /\ \A q \in Sending \ {r} : req'[q] = req[q]
    BY <1>1, <1>2, <2>1
  <2>3. QED
    BY <1>1, <2>1, <2>2 DEF Underway
<1>6. QED
  BY <1>3, <1>4, <1>5 DEF Submits

(* Going back stops nothing that is under way.                                                *)
LEMMA GoBackFacts ==
  ASSUME SignInFormTypes, GoBack
  PROVE  /\ req' \in [Sending -> SignInRequest] /\ Underway' = Underway
         /\ \A r \in Sending : req'[r].name = req[r].name
<1> DEFINE new(r) == [req[r] EXCEPT !.kind = IF @ = "verify" THEN "old" ELSE @]
<1>1. req' = [r \in Sending |-> new(r)]
  BY DEF GoBack
<1>2. ASSUME NEW r \in Sending PROVE new(r) \in SignInRequest /\ new(r).at = req[r].at /\ new(r).name = req[r].name
  BY DEF SignInFormTypes, SignInRequest
<1> HIDE DEF new
<1>3. QED
  BY <1>1, <1>2 DEF Underway

LEMMA OutstandingFacts ==
  SignInFormTypes => (Outstanding <=> flash # NoName \/ Underway # {})
BY DEF Outstanding, Underway

LEMMA CodeAsked ==
  ASSUME chal \in [Sending -> CodeRequest], AwaitingCode = {}, NEW r \in Sending, NEW f \in Choice,
         chal' = [chal EXCEPT ![r] = [at |-> "sent", to |-> f]]
  PROVE  chal' \in [Sending -> CodeRequest] /\ AwaitingCode' = {r} /\ chal'[r].to = f /\ chal'[r].at = "sent"
<1> DEFINE new == [at |-> "sent", to |-> f]
<1>1. new \in CodeRequest /\ new.at = "sent" /\ new.to = f
  BY DEF CodeRequest
<1>2. chal' = [chal EXCEPT ![r] = new]
  OBVIOUS
<1> HIDE DEF new
<1>3. chal' \in [Sending -> CodeRequest] /\ chal'[r] = new /\ \A q \in Sending \ {r} : chal'[q] = chal[q]
  BY <1>1, <1>2
<1>4. QED
  BY <1>1, <1>3 DEF AwaitingCode

LEMMA CodeAnswered ==
  ASSUME chal \in [Sending -> CodeRequest], NEW r \in Sending, chal[r].at = "sent", NEW a \in {"mailed", "refused"},
         chal' = [chal EXCEPT ![r].at = a]
  PROVE  /\ chal' \in [Sending -> CodeRequest] /\ AwaitingCode' = AwaitingCode
         /\ \A q \in Sending : chal'[q].to = chal[q].to
         /\ chal'[r].at = a /\ \A q \in Sending \ {r} : chal'[q].at = chal[q].at
<1> DEFINE new == [chal[r] EXCEPT !.at = a]
<1>1. new \in CodeRequest /\ new.at = a /\ new.to = chal[r].to
  BY DEF CodeRequest
<1>2. chal' = [chal EXCEPT ![r] = new]
  OBVIOUS
<1> HIDE DEF new
<1>3. chal' \in [Sending -> CodeRequest] /\ chal'[r] = new /\ \A q \in Sending \ {r} : chal'[q] = chal[q]
  BY <1>1, <1>2
<1>4. QED
  BY <1>1, <1>3 DEF AwaitingCode

LEMMA CodeLanded ==
  ASSUME chal \in [Sending -> CodeRequest], NEW r \in Sending, chal' = [chal EXCEPT ![r] = NoChal]
  PROVE  chal' \in [Sending -> CodeRequest] /\ AwaitingCode' = AwaitingCode \ {r}
<1>1. NoChal \in CodeRequest /\ NoChal.at = "idle"
  BY DEF NoChal, CodeRequest, Choice
<1>2. chal' \in [Sending -> CodeRequest] /\ chal'[r] = NoChal /\ \A q \in Sending \ {r} : chal'[q] = chal[q]
  BY <1>1
<1>3. QED
  BY <1>1, <1>2 DEF AwaitingCode

LEMMA SignInTypesKept == SignInFormTypes /\ SignInFormInv /\ FormStep => SignInFormTypes'
<1> SUFFICES ASSUME SignInFormTypes, SignInFormInv, FormStep PROVE SignInFormTypes'
  OBVIOUS
<1> USE DEF SignInFormTypes
<1>1. ASSUME NEW n \in Name, TypeName(n) PROVE SignInFormTypes'
  BY <1>1 DEF TypeName
<1>2. ASSUME NEW r \in Sending, Submits(r) PROVE SignInFormTypes'
  <2>1. UNCHANGED <<name, must, mfa, cap, flash, wants, parked, site, signed, leftover, resumed>> /\ wanted' = "yes"
    BY <1>2 DEF Submits, SubmitLogin, SubmitLdap
  <2>2. req' \in [Sending -> SignInRequest] /\ requested' \in Name \cup {NoName}
    BY <1>2, SubmitFacts
  <2>3. entangled' \in BOOLEAN
    BY <1>2 DEF Submits, SubmitLogin, SubmitLdap, Outstanding
  <2>4. QED
    BY <2>1, <2>2, <2>3
<1>3. ASSUME NEW r \in Sending, LandForm(r) PROVE SignInFormTypes'
  <2> HIDE DEF SignInFormTypes
  <2>1. /\ req' \in [Sending -> SignInRequest] /\ req[r].name \in Name \cup {NoName}
        /\ must' \in BOOLEAN /\ cap' \in BOOLEAN /\ mfa' \in {mfa, req[r].name}
        /\ UNCHANGED <<name, flash, wants, requested, wanted, entangled, leftover, resumed>>
        /\ \/ UNCHANGED <<signed, parked, site>>
           \/ /\ signed' = req[r].name /\ parked' \in {parked, req[r].name}
              /\ site' \in [at : {"login", "profile", "home"}, leaving : BOOLEAN]
    BY <1>3, LandFormFacts
  <2> HIDE DEF SignInRequest
  <2>2. QED
    BY <2>1 DEF SignInFormTypes
<1>4. ASSUME NEW r \in Sending, HandPass(r) PROVE SignInFormTypes'
  <2>1. /\ UNCHANGED <<name, must, mfa, wants, parked, site, signed, wanted, leftover, resumed>>
        /\ cap' = FALSE /\ flash' = NoName
    BY <1>4 DEF HandPass
  <2>2. req' \in [Sending -> SignInRequest] /\ requested' \in Name \cup {NoName}
    BY <1>4, SubmitFacts
  <2>3. entangled' \in BOOLEAN
    BY <1>4 DEF HandPass
  <2>4. QED
    BY <2>1, <2>2, <2>3
<1>5. ASSUME SolvePuzzle PROVE SignInFormTypes'
  <2>1. /\ UNCHANGED <<name, must, mfa, cap, req, wants, parked, site, signed, requested, leftover, resumed>>
        /\ flash' = name /\ wanted' = "yes"
    BY <1>5 DEF SolvePuzzle
  <2>2. entangled' \in BOOLEAN
    BY <1>5 DEF SolvePuzzle, Outstanding
  <2>3. QED
    BY <2>1, <2>2
<1>6. ASSUME GoBack PROVE SignInFormTypes'
  <2>1. /\ UNCHANGED <<name, must, flash, wants, parked, site, signed, requested, entangled, leftover, resumed>>
        /\ cap' = (cap /\ View # "captcha") /\ mfa' \in {mfa, NoName} /\ wanted' \in {"late", "no"}
    BY <1>6 DEF GoBack
  <2>2. req' \in [Sending -> SignInRequest]
    BY <1>6, GoBackFacts
  <2>3. cap' \in BOOLEAN
    BY <2>1
  <2>4. QED
    BY <2>1, <2>2, <2>3
<1>7. ASSUME Unload PROVE SignInFormTypes'
  <2>1. /\ UNCHANGED <<wants, parked, signed, entangled, leftover, resumed>> /\ site' = [site EXCEPT !.leaving = FALSE]
        /\ must' = FALSE /\ mfa' = NoName /\ cap' = FALSE /\ flash' = NoName
        /\ req' = [r \in Sending |-> NoReq]
        /\ name' = NoName /\ requested' = NoName /\ wanted' = "yes"
    BY <1>7 DEF Unload
  <2>2. req' \in [Sending -> SignInRequest]
    BY <2>1, NoReqFacts
  <2>3. site' \in [at : {"login", "profile", "home"}, leaving : BOOLEAN]
    BY <2>1
  <2>4. QED
    BY <2>1, <2>2, <2>3
<1>8. ASSUME Enrolled PROVE SignInFormTypes'
  BY <1>8 DEF Enrolled
<1>9. ASSUME SignOutPage PROVE SignInFormTypes'
  BY <1>9 DEF SignOutPage
<1>10. QED
  BY <1>1, <1>2, <1>3, <1>4, <1>5, <1>6, <1>7, <1>8, <1>9 DEF FormStep

LEMMA SignInFormKept == SignInFormTypes /\ SignInFormInv /\ FormStep => SignInFormInv'
<1> SUFFICES ASSUME SignInFormTypes, SignInFormInv, FormStep PROVE SignInFormInv'
  OBVIOUS
<1> USE DEF SignInFormInv, Away, ResumedOwn
<1>1. ASSUME NEW n \in Name, TypeName(n) PROVE SignInFormInv'
  <2>1. UNCHANGED <<must, mfa, cap, req, flash, wants, parked, site, signed, requested, wanted, entangled, leftover, resumed>>
    BY <1>1 DEF TypeName

  <2>2. Underway' = Underway /\ (Away' = Away)
    BY <2>1 DEF Underway
  <2>3. QED
    BY <2>1, <2>2
<1>2. ASSUME NEW r \in Sending, Submits(r) PROVE SignInFormInv'
  <2>1. /\ UNCHANGED <<flash, parked, site, signed, leftover, resumed>> /\ wanted' = "yes"
        /\ ~site.leaving /\ site.at = "login"
    BY <1>2 DEF Submits, SubmitLogin, SubmitLdap, Page
  <2>2. /\ Underway' = Underway \cup {r} /\ req'[r].name = requested'
    BY <1>2, SubmitFacts
  <2>3. ~entangled' => flash = NoName /\ Underway = {}
    <3>1. entangled' = Outstanding
      BY <1>2 DEF Submits, SubmitLogin, SubmitLdap
    <3>2. QED
      BY <3>1, OutstandingFacts
  <2>4. QED
    BY <2>1, <2>2, <2>3
<1>3. ASSUME NEW r \in Sending, LandForm(r) PROVE SignInFormInv'
  <2> DEFINE n == req[r].name
  <2>1. /\ r \in Underway /\ Underway' \subseteq Underway /\ \A q \in Underway' : req'[q].name = req[q].name
        /\ UNCHANGED <<flash, requested, wanted, entangled, leftover, resumed>>
        /\ \/ UNCHANGED <<signed, parked, site>>
           \/ signed' = n /\ parked' \in {parked, n} /\ site'.leaving = TRUE /\ site'.at # "login"
    BY <1>3, LandFormFacts
  <2>2. ~Away /\ wanted # "no" /\ resumed = NoName /\ (~entangled => n = requested /\ flash = NoName)
    BY <2>1
  <2>3. ~entangled => \A q \in Underway' : req'[q].name = requested
    BY <2>1
  <2> HIDE DEF n
  <2>4. CASE UNCHANGED <<signed, parked, site>>
    BY <2>1, <2>2, <2>3, <2>4
  <2>5. CASE signed' = n /\ parked' \in {parked, n} /\ site'.leaving = TRUE /\ site'.at # "login"
    <3>1. parked' # NoName /\ ~leftover /\ ~entangled => parked' = signed'
      <4>1. CASE parked' = n
        BY <2>5, <4>1
      <4>2. CASE parked' = parked
        <5>1. CASE site.at = "login"
          BY <4>2, <5>1
        <5>2. CASE site.at # "login"
          BY <2>2, <2>5, <4>2, <5>2
        <5>3. QED
          BY <5>1, <5>2
      <4>3. QED
        BY <2>5, <4>1, <4>2
    <3>2. QED
      BY <2>1, <2>2, <2>3, <2>5, <3>1
  <2>6. QED
    BY <2>1, <2>4, <2>5 DEF n
<1>4. ASSUME NEW r \in Sending, HandPass(r) PROVE SignInFormInv'
  <2>1. /\ UNCHANGED <<parked, site, signed, wanted, leftover, resumed>> /\ flash # NoName /\ flash' = NoName
        /\ (entangled => entangled')
    BY <1>4 DEF HandPass
  <2>2. /\ Underway' = Underway \cup {r} /\ req'[r].name = requested'
    BY <1>4, SubmitFacts
  <2>3. ~entangled' => Underway = {} /\ ~entangled
    BY <1>4 DEF HandPass, Underway
  <2>4. QED
    BY <2>1, <2>2, <2>3
<1>5. ASSUME SolvePuzzle PROVE SignInFormInv'
  <2>1. /\ UNCHANGED <<req, parked, site, signed, requested, leftover, resumed>> /\ wanted' = "yes"
        /\ ~site.leaving /\ site.at = "login"
    BY <1>5 DEF SolvePuzzle, Page
  <2>2. Underway' = Underway
    BY <2>1 DEF Underway
  <2>3. ~entangled' => Underway = {}
    BY <1>5, OutstandingFacts DEF SolvePuzzle
  <2>4. QED
    BY <2>1, <2>2, <2>3
<1>6. ASSUME GoBack PROVE SignInFormInv'
  <2>1. /\ UNCHANGED <<flash, parked, site, signed, requested, entangled, leftover, resumed>>
        /\ ~site.leaving /\ site.at = "login" /\ wanted' = IF Outstanding THEN "late" ELSE "no"
    BY <1>6 DEF GoBack, Page
  <2>2. Underway' = Underway /\ \A r \in Sending : req'[r].name = req[r].name
    BY <1>6, GoBackFacts
  <2>3. wanted' = "no" => flash = NoName /\ Underway = {}
    BY <2>1, OutstandingFacts
  <2>4. Underway \subseteq Sending
    BY DEF Underway
  <2>5. QED
    BY <2>1, <2>2, <2>3, <2>4
<1>7. ASSUME Unload PROVE SignInFormInv'
  <2>1. /\ UNCHANGED <<parked, signed, entangled, leftover, resumed>> /\ site.leaving
        /\ site' = [site EXCEPT !.leaving = FALSE]
        /\ flash' = NoName /\ req' = [r \in Sending |-> NoReq] /\ wanted' = "yes"
    BY <1>7 DEF Unload
  <2>2. Underway' = {}
    BY <2>1, NoReqFacts DEF Underway
  <2>3. site'.leaving = FALSE /\ site'.at = site.at
    BY <2>1 DEF SignInFormTypes
  <2>4. QED
    BY <2>1, <2>2, <2>3
<1>8. ASSUME Enrolled PROVE SignInFormInv'
  <2>1. /\ UNCHANGED <<req, flash, site, signed, requested, wanted, entangled, leftover>>
        /\ Away /\ resumed' = parked /\ parked' = NoName
    BY <1>8 DEF Enrolled

  <2>2. Underway' = Underway /\ (Away' = Away)
    BY <2>1 DEF Underway
  <2>3. QED
    BY <2>1, <2>2
<1>9. ASSUME SignOutPage PROVE SignInFormInv'
  <2>1. /\ UNCHANGED <<req, flash, parked, requested, wanted>> /\ Away
        /\ site' = [at |-> "login", leaving |-> FALSE]
        /\ signed' = NoName /\ resumed' = NoName /\ entangled' = FALSE /\ leftover' = (parked # NoName)
    BY <1>9 DEF SignOutPage
  <2>2. Underway' = Underway /\ site'.leaving = FALSE /\ site'.at = "login"
    BY <2>1 DEF Underway
  <2>3. QED
    BY <2>1, <2>2
<1>10. QED
  BY <1>1, <1>2, <1>3, <1>4, <1>5, <1>6, <1>7, <1>8, <1>9 DEF FormStep

LEMMA SecondStepKept == SecondStepInv /\ SecondStepStep => SecondStepInv'
<1> SUFFICES ASSUME SecondStepInv, SecondStepStep PROVE SecondStepInv'
  OBVIOUS
<1> USE DEF SecondStepInv, CodeRequest, StepOnly
<1>1. ASSUME NEW r \in Sending, SendCodeTo(r) PROVE SecondStepInv'
  <2>1. /\ ui = "react" /\ ~codeSent /\ AwaitingCode = {} /\ sending' = TRUE
        /\ chal' = [chal EXCEPT ![r] = [at |-> "sent", to |-> sel]]
        /\ UNCHANGED <<sel, codeSent, mailed, switched, ui>>
    BY <1>1 DEF SendCodeTo
  <2>2. chal' \in [Sending -> CodeRequest] /\ AwaitingCode' = {r} /\ chal'[r].to = sel /\ chal'[r].at = "sent"
    BY <2>1, CodeAsked
  <2>3. QED
    BY <2>1, <2>2
<1>2. ASSUME NEW r \in Sending, AnswerCode(r) PROVE SecondStepInv'
  <2>1. chal[r].at = "sent" /\ UNCHANGED <<sel, codeSent, sending, switched, ui>> /\ r \in AwaitingCode
    BY <1>2 DEF AnswerCode, AwaitingCode
  <2>2. CASE chal' = [chal EXCEPT ![r].at = "mailed"] /\ mailed' = mailed \cup {chal[r].to}
    <3>1. /\ chal' \in [Sending -> CodeRequest] /\ AwaitingCode' = AwaitingCode
          /\ \A q \in Sending : chal'[q].to = chal[q].to
      BY <2>1, <2>2, CodeAnswered
    <3>2. mailed' \subseteq Method
      BY <2>1, <2>2
    <3>3. \A q \in AwaitingCode : q = r /\ q \in Sending
      BY <2>1 DEF AwaitingCode
    <3>4. QED
      BY <2>1, <2>2, <3>1, <3>2, <3>3
  <2>3. CASE chal' = [chal EXCEPT ![r].at = "refused"] /\ mailed' = mailed
    <3>1. /\ chal' \in [Sending -> CodeRequest] /\ AwaitingCode' = AwaitingCode /\ chal'[r].at = "refused"
          /\ \A q \in Sending : chal'[q].to = chal[q].to
      BY <2>1, <2>3, CodeAnswered
    <3>2. \A q \in AwaitingCode : q = r /\ q \in Sending
      BY <2>1 DEF AwaitingCode
    <3>3. QED
      BY <2>1, <2>3, <3>1, <3>2
  <2>4. QED
    BY <1>2, <2>2, <2>3 DEF AnswerCode
<1>3. ASSUME NEW r \in Sending, LandCode(r) PROVE SecondStepInv'
  <2>1. /\ r \in AwaitingCode /\ sending' = FALSE /\ chal' = [chal EXCEPT ![r] = NoChal]
        /\ codeSent' = (codeSent \/ chal[r].at = "mailed")
        /\ sel' = IF chal[r].at = "refused" /\ ui = "vue" THEN NoName ELSE sel
        /\ UNCHANGED <<mailed, switched, ui>>
    BY <1>3 DEF LandCode, AwaitingCode
  <2>2. chal' \in [Sending -> CodeRequest] /\ AwaitingCode' = AwaitingCode \ {r}
    BY <2>1, CodeLanded
  <2>3. AwaitingCode' = {}
    BY <2>1, <2>2
  <2>4. sel' \in Choice /\ (ui' = "react" => sel' \in Method) /\ codeSent' \in BOOLEAN
    BY <2>1 DEF Choice
  <2>5. codeSent' /\ ~switched' => sel' \in mailed' \cup {NoName, "recovery"}
    BY <2>1
  <2>6. QED
    BY <2>1, <2>2, <2>3, <2>4, <2>5
<1>4. ASSUME NEW r \in Sending, NEW f \in Method, Choose(r, f) PROVE SecondStepInv'
  <2>1. /\ ui = "vue" /\ AwaitingCode = {} /\ sel' = f /\ codeSent' = FALSE /\ sending' = TRUE
        /\ chal' = [chal EXCEPT ![r] = [at |-> "sent", to |-> f]]
        /\ UNCHANGED <<mailed, switched, ui>>
    BY <1>4 DEF Choose
  <2>2. f \in Choice
    BY DEF Choice
  <2>3. chal' \in [Sending -> CodeRequest] /\ AwaitingCode' = {r} /\ chal'[r].to = f /\ chal'[r].at = "sent"
    BY <2>1, <2>2, CodeAsked
  <2>4. QED
    BY <2>1, <2>2, <2>3
<1>5. ASSUME Turn PROVE SecondStepInv'
  <2>1. /\ ui = "vue" /\ sel' \in {NoName, "recovery"} /\ switched' = (switched \/ AwaitingCode # {})
        /\ UNCHANGED <<codeSent, sending, chal, mailed, ui>>
    BY <1>5 DEF Turn
  <2>2. AwaitingCode' = AwaitingCode /\ sel' \in Choice
    BY <2>1 DEF AwaitingCode, Choice
  <2>3. switched' \in BOOLEAN /\ (~switched' => ~switched /\ AwaitingCode = {})
    BY <2>1
  <2>4. QED
    BY <2>1, <2>2, <2>3
<1>6. ASSUME NEW f \in Method, Pick(f) PROVE SecondStepInv'
  <2>1. /\ sel' = f /\ codeSent' = FALSE /\ switched' = (switched \/ AwaitingCode # {})
        /\ UNCHANGED <<sending, chal, mailed, ui>>
    BY <1>6 DEF Pick
  <2>2. AwaitingCode' = AwaitingCode /\ sel' \in Choice
    BY <2>1 DEF AwaitingCode, Choice
  <2>3. switched' \in BOOLEAN /\ (~switched' => ~switched /\ AwaitingCode = {})
    BY <2>1
  <2>4. QED
    BY <2>1, <2>2, <2>3
<1>7. QED
  BY <1>1, <1>2, <1>3, <1>4, <1>5, <1>6 DEF SecondStepStep

LEMMA PuzzleKept == PuzzleInv /\ PuzzleStep => PuzzleInv'
<1> SUFFICES ASSUME PuzzleInv, PuzzleStep PROVE PuzzleInv'
  OBVIOUS
<1> USE DEF PuzzleInv, Checks, NotAsking, CheckRuns
<1>1. ASSUME NEW r \in Sending, FetchPuzzle(r) PROVE PuzzleInv'
  BY <1>1 DEF FetchPuzzle
<1>2. ASSUME NEW r \in Sending, LandPuzzle(r) PROVE PuzzleInv'
  BY <1>2 DEF LandPuzzle
<1>3. ASSUME NEW r \in Sending, Drop(r) PROVE PuzzleInv'
  BY <1>3 DEF Drop
<1>4. ASSUME NEW r \in Sending, LandCheck(r) PROVE PuzzleInv'
  <2>1. r \in Checks /\ UNCHANGED <<slider, rushed>>
    BY <1>4 DEF LandCheck
  <2>2. PICK c \in {"idle", "fetch"} : check' = [check EXCEPT ![r] = c]
    BY <1>4 DEF LandCheck
  <2>3. /\ phase' \in {"success", "idle", "fail"} /\ timerOn' \in {timerOn, TRUE} /\ trail' \in {trail, "none"}
    BY <1>4 DEF LandCheck
  <2>4. check' \in [Sending -> {"idle", "sent", "fetch"}] /\ Checks' = Checks \ {r}
    BY <2>2
  <2>5. ~rushed => Checks' = {}
    BY <2>1, <2>4
  <2> HIDE DEF Checks
  <2>6. QED
    BY <2>1, <2>3, <2>4, <2>5
<1>5. ASSUME DragSlider PROVE PuzzleInv'
  BY <1>5 DEF DragSlider
<1>6. ASSUME ResetSlider PROVE PuzzleInv'
  BY <1>6 DEF ResetSlider
<1>7. QED
  BY <1>1, <1>2, <1>3, <1>4, <1>5, <1>6 DEF PuzzleStep

(* The inductive invariant of signing in: it holds at the start, *)
LEMMA SignInStart == SignInInit => SignInInv
<1> SUFFICES ASSUME SignInInit PROVE SignInInv
  OBVIOUS
<1>1. SceneInv
  <2>1. PICK s \in Scenes : scene = s[1] /\ ui = s[2]
    BY DEF SignInInit
  <2>2. s = <<s[1], s[2]>>
    <3>1. s \in {"form", "step", "puzzle"} \X {"react", "vue"}
      BY SignInAssumption
    <3>2. QED
      BY <3>1
  <2>3. QED
    BY <2>1, <2>2 DEF SceneInv
<1>2. req = [r \in Sending |-> NoReq] /\ site = [at |-> "login", leaving |-> FALSE]
  BY DEF SignInInit
<1>3. Underway = {} /\ req \in [Sending -> SignInRequest]
  BY <1>2, NoReqFacts DEF Underway
<1>4. SignInFormTypes
  <2>1. /\ {name, signed, mfa, flash, parked, resumed, requested} \subseteq Name \cup {NoName}
        /\ must \in BOOLEAN /\ cap \in BOOLEAN /\ wants \in BOOLEAN /\ entangled \in BOOLEAN /\ leftover \in BOOLEAN
        /\ wanted \in {"yes", "no", "late"}
    BY DEF SignInInit
  <2>2. site \in [at : {"login", "profile", "home"}, leaving : BOOLEAN]
    BY <1>2
  <2>3. QED
    BY <1>3, <2>1, <2>2 DEF SignInFormTypes
<1>5. SignInFormInv
  <2>1. flash = NoName /\ wanted = "yes" /\ parked = NoName /\ resumed = NoName
    BY DEF SignInInit
  <2>2. site.at = "login" /\ site.leaving = FALSE
    BY <1>2
  <2>3. QED
    BY <1>3, <2>1, <2>2 DEF SignInFormInv, Away, ResumedOwn
<1>6. SecondStepInv
  <2>1. chal = [r \in Sending |-> NoChal] /\ codeSent = FALSE /\ sending = FALSE /\ mailed = {} /\ switched = FALSE
    BY DEF SignInInit
  <2>2. NoChal \in CodeRequest /\ NoChal.at = "idle"
    BY DEF NoChal, CodeRequest, Choice
  <2>3. AwaitingCode = {} /\ chal \in [Sending -> CodeRequest]
    BY <2>1, <2>2 DEF AwaitingCode
  <2>4. sel \in Choice /\ (ui = "react" => sel \in Method)
    BY DEF SignInInit, Choice
  <2>5. QED
    BY <2>1, <2>3, <2>4 DEF SecondStepInv
<1>7. PuzzleInv
  BY DEF SignInInit, PuzzleInv, Checks
<1>8. QED
  BY <1>1, <1>4, <1>5, <1>6, <1>7 DEF SignInInv

(* Each invariant is about the variables of its scene only.                                   *)
LEMMA SignInFormStays ==
  SignInFormTypes /\ SignInFormInv /\ UNCHANGED formVars => SignInFormTypes' /\ SignInFormInv'
BY DEF SignInFormTypes, SignInFormInv, Away, Underway, ResumedOwn, formVars
LEMMA SecondStepStays == SecondStepInv /\ UNCHANGED <<ui, stepVars>> => SecondStepInv'
BY DEF SecondStepInv, AwaitingCode, stepVars
LEMMA PuzzleStays == PuzzleInv /\ UNCHANGED puzzleVars => PuzzleInv'
BY DEF PuzzleInv, Checks, puzzleVars

LEMMA ScenesApart ==
  SignInNext =>
    /\ UNCHANGED <<scene, ui>>
    /\ \/ FormStep /\ UNCHANGED <<stepVars, puzzleVars>>
       \/ SecondStepStep /\ UNCHANGED <<formVars, puzzleVars>>
       \/ PuzzleStep /\ UNCHANGED <<formVars, stepVars>>
<1>1. FormStep => UNCHANGED <<scene, ui, stepVars, puzzleVars>>
  BY DEF FormStep, TypeName, Submits, SubmitLogin, SubmitLdap, LandForm, HandPass, SolvePuzzle, GoBack, Unload, Enrolled, SignOutPage, FormOnly
<1>2. SecondStepStep => UNCHANGED <<scene, ui, formVars, puzzleVars>>
  BY DEF SecondStepStep, SendCodeTo, AnswerCode, LandCode, Choose, Turn, Pick, StepOnly
<1>3. PuzzleStep => UNCHANGED <<scene, ui, formVars, stepVars>>
  BY DEF PuzzleStep, FetchPuzzle, LandPuzzle, Drop, LandCheck, DragSlider, ResetSlider, PuzzleOnly
<1>4. SignInNext => FormStep \/ SecondStepStep \/ PuzzleStep
  BY DEF SignInNext, FormStep, Submits, SecondStepStep, PuzzleStep
<1>5. QED
  BY <1>1, <1>2, <1>3, <1>4

(* every step of every actor keeps it,                                                    *)
LEMMA SignInStepKeeps == SignInInv /\ [SignInNext]_signInVars => SignInInv'
<1> SUFFICES ASSUME SignInInv, [SignInNext]_signInVars PROVE SignInInv'
  OBVIOUS
<1> USE DEF SignInInv
<1>1. CASE SignInNext
  <2>1. UNCHANGED <<scene, ui>> /\ SceneInv'
    BY <1>1, ScenesApart DEF SceneInv
  <2>2. CASE FormStep /\ UNCHANGED <<stepVars, puzzleVars>>
    BY <2>1, <2>2, SignInTypesKept, SignInFormKept, SecondStepStays, PuzzleStays
  <2>3. CASE SecondStepStep /\ UNCHANGED <<formVars, puzzleVars>>
    BY <2>1, <2>3, SignInFormStays, SecondStepKept, PuzzleStays
  <2>4. CASE PuzzleStep /\ UNCHANGED <<formVars, stepVars>>
    BY <2>1, <2>4, SignInFormStays, SecondStepStays, PuzzleKept
  <2>5. QED
    BY <1>1, <2>2, <2>3, <2>4, ScenesApart
<1>2. CASE UNCHANGED signInVars
  <2>1. UNCHANGED <<scene, ui, formVars, stepVars, puzzleVars>>
    BY <1>2 DEF signInVars
  <2>2. QED
    BY <2>1, SignInFormStays, SecondStepStays, PuzzleStays DEF SceneInv
<1>3. QED
  BY <1>1, <1>2

(* and what the runs check of the component follows from it.                              *)
LEMMA SignInInvHolds == SignInInv => SignInTypeOK /\ SignInHolds
<1> SUFFICES ASSUME SignInInv PROVE SignInTypeOK /\ SignInHolds
  OBVIOUS
<1>1. SignInTypeOK
  <2>1. \A r \in Sending : /\ req[r].at \in {"idle", "sent"} /\ req[r].name \in Name \cup {NoName}
                           /\ req[r].kind \in {"login", "relogin", "change", "verify", "old", "ldap"}
    BY DEF SignInInv, SignInFormTypes, SignInRequest
  <2>2. \A r \in Sending : chal[r].at \in {"idle", "sent", "mailed", "refused"} /\ chal[r].to \in Choice
    BY DEF SignInInv, SecondStepInv, CodeRequest
  <2>3. \A r \in Sending : check[r] \in {"idle", "sent", "fetch"}
    BY DEF SignInInv, PuzzleInv
  <2>4. /\ {name, signed, mfa, flash, parked, resumed, requested} \subseteq Name \cup {NoName}
        /\ {must, cap, wants, entangled, leftover} \subseteq BOOLEAN /\ wanted \in {"yes", "no", "late"}
        /\ site \in [at : {"login", "profile", "home"}, leaving : BOOLEAN]
    BY DEF SignInInv, SignInFormTypes
  <2>5. sel \in Choice /\ codeSent \in BOOLEAN /\ sending \in BOOLEAN /\ mailed \subseteq Method
    BY DEF SignInInv, SecondStepInv
  <2>6. phase \in {"idle", "checking", "fail", "success"} /\ trail \in {"none", "whole", "cut", "dragging"}
    BY DEF SignInInv, PuzzleInv
  <2>7. QED
    BY <2>1, <2>2, <2>3, <2>4, <2>5, <2>6 DEF SignInTypeOK, SignInInv, SceneInv
<1>2. SignedAsAsked /\ ResumedOwn
  BY DEF SignInInv, SignInFormInv, SignedAsAsked
<1>3. CodeSentTrue
  BY DEF SignInInv, SecondStepInv, CodeSentTrue
<1>4. OneCheck
  <2>1. CASE ~rushed
    <3>1. \A r, q \in Checks : r = q
      BY <2>1 DEF SignInInv, PuzzleInv
    <3>2. CASE Checks = {}
      <4>1. Cardinality(Checks) = 0
        BY <3>2, FS_EmptySet
      <4>2. QED
        BY <4>1 DEF OneCheck, Checks
    <3>3. CASE Checks # {}
      <4>1. PICK r \in Checks : Checks = {r}
        BY <3>1, <3>3
      <4>2. Cardinality(Checks) = 1
        BY <4>1, FS_Singleton
      <4>3. QED
        BY <4>2 DEF OneCheck, Checks
    <3>4. QED
      BY <3>2, <3>3
  <2>2. CASE rushed
    BY <2>2 DEF OneCheck
  <2>3. QED
    BY <2>1, <2>2
<1>5. QED
  BY <1>1, <1>2, <1>3, <1>4 DEF SignInHolds

--------------------------------------------------------------------------------
(* RelyingParty: the example's sign-ins, storage and device page.                         *)

(* The storage: an answer of a sign-in is stored whole; a refresh under way sends the token     *)
(* that is stored, and a logout under way ends what its user had completed.                    *)
RpStoreInv ==
  /\ ~signedOver /\ ~straddled =>
       /\ store.refresh \in {NoEntry, store.token} /\ store.sid \in {NoEntry, store.token}
       /\ store.id \in {NoEntry, store.token} \/ kicked
  /\ ren.at = "sent" /\ ~signedOver /\ ~straddled =>
       store.sid \in {NoEntry, ren.who} /\ (store.id \in {NoEntry, ren.who} \/ kicked)
RpOwedInv ==
  owed # NoEntry /\ ~straddled =>
    /\ store.token = owed /\ store.refresh = owed /\ out.at = "idle"
    /\ ren.at = "sent" => ren.who = owed

(* The device page: what it has started belongs to it, until it is left or starts again.       *)
RpDeviceInv ==
  /\ tab.at = "away" => ~device.open /\ \A i \in Entry : entry[i] \notin Flying
  /\ \A i \in Entry :
       /\ entry[i] \in {"away", "code"} => kind[i] = "sso"
       /\ kind[i] = "device" /\ i \notin orphaned =>
            /\ entry[i] \in {"polling", "sent"} => device.open /\ device.timer = i
            /\ entry[i] = "starting" => device.open

RpInv == RpTypeOK /\ RpStoreInv /\ RpOwedInv /\ RpDeviceInv /\ TabAgrees

LEMMA BringFacts ==
  ASSUME RpTypeOK, NEW i \in Entry
  PROVE  /\ Brings(i) \subseteq Piece /\ "token" \in Brings(i) /\ "refresh" \in Brings(i)
<1>1. kind[i] \in {"form", "sso", "device"}
  BY DEF RpTypeOK
<1>2. CASE kind[i] = "form"
  BY <1>2 DEF Brings, Piece
<1>3. CASE kind[i] = "sso"
  BY <1>3 DEF Brings, Piece
<1>4. CASE kind[i] = "device"
  BY <1>4 DEF Brings, Piece
<1>5. QED
  BY <1>1, <1>2, <1>3, <1>4

LEMMA LandFacts ==
  ASSUME RpTypeOK, NEW i \in Entry, SignInLands(i)
  PROVE  /\ store' \in [Piece -> Entry \cup {NoEntry}]
         /\ store'.token = i /\ store'.refresh = i
         /\ store'.sid \in {i, store.sid} /\ store'.id \in {i, store.id}
<1>1. store' = [p \in Piece |-> IF p \in Brings(i) THEN i ELSE store[p]]
  BY DEF SignInLands
<1>2. store \in [Piece -> Entry \cup {NoEntry}]
  BY DEF RpTypeOK
<1>3. \A p \in Piece : store'[p] \in {i, store[p]}
  BY <1>1
<1>4. "token" \in Piece /\ "refresh" \in Piece /\ "sid" \in Piece /\ "id" \in Piece
  BY DEF Piece
<1>5. QED
  BY <1>1, <1>2, <1>3, <1>4, BringFacts

(* http.ts gives up.                                                                         *)
LEMMA KickFacts ==
  ASSUME RpTypeOK, Kick
  PROVE  /\ store' \in [Piece -> Entry \cup {NoEntry}]
         /\ store'.token = NoEntry /\ store'.refresh = NoEntry /\ store'.sid = NoEntry /\ store'.id = store.id
         /\ tab' = [token |-> NoEntry, at |-> "here", check |-> FALSE]
         /\ out' = NoLogout /\ ren' = NoRenewal /\ device' = NoDevice
         /\ kicked' = TRUE /\ owed' = NoEntry /\ entry' = Dropped
<1>1. store' = Forget(store) /\ store \in [Piece -> Entry \cup {NoEntry}]
  BY DEF Kick, RpTypeOK
<1>2. /\ store' \in [Piece -> Entry \cup {NoEntry}]
      /\ store'.token = NoEntry /\ store'.refresh = NoEntry /\ store'.sid = NoEntry /\ store'.id = store.id
  BY <1>1 DEF Forget, Piece
<1>3. tab' = [token |-> NoEntry, at |-> "here", check |-> FALSE]
  <2>1. tab' = [token |-> store'.token, at |-> "here", check |-> store'.token # NoEntry]
    BY DEF Kick, Loads
  <2>2. (store'.token # NoEntry) = FALSE
    BY <1>2
  <2>3. QED
    BY <1>2, <2>1, <2>2
<1>4. QED
  BY <1>2, <1>3 DEF Kick, Loads

(* The refresh is answered.                                                                  *)
LEMMA RenewFacts ==
  ASSUME RpTypeOK, ren.who \notin revoked, store' = [store EXCEPT !.token = ren.who, !.refresh = ren.who]
  PROVE  /\ store' \in [Piece -> Entry \cup {NoEntry}]
         /\ store'.token = ren.who /\ store'.refresh = ren.who /\ store'.sid = store.sid /\ store'.id = store.id
<1>1. ren.who \in Entry \cup {NoEntry} /\ store \in [Piece -> Entry \cup {NoEntry}]
  BY DEF RpTypeOK
<1>2. QED
  BY <1>1 DEF Piece

LEMMA DroppedFacts ==
  RpTypeOK => Dropped \in [Entry -> {"idle", "away", "code", "in", "gone"} \cup Flying]
BY DEF RpTypeOK, Dropped, Flying

LEMMA RpTypesKept == RpInv /\ RpNext => RpTypeOK'
<1> SUFFICES ASSUME RpInv, RpNext PROVE RpTypeOK'
  OBVIOUS
<1> USE DEF RpInv, RpTypeOK, Loads, Leaves, Dropped, Flying, Kick, Forget, ClearStorage, Nothing, NoLogout, NoRenewal, NoDevice, StartLogout, Piece, rpHistory, Shown
<1>1. ASSUME NEW i \in Entry, SubmitSignIn(i) PROVE RpTypeOK'
  BY <1>1 DEF SubmitSignIn
<1>2. ASSUME NEW i \in Entry, BeginOAuthLogin(i) PROVE RpTypeOK'
  BY <1>2 DEF BeginOAuthLogin
<1>3. ASSUME NEW i \in Entry, RunCallback(i) PROVE RpTypeOK'
  BY <1>3 DEF RunCallback
<1>4. ASSUME NEW i \in Entry, SignInLands(i) PROVE RpTypeOK'
  BY <1>4 DEF SignInLands
<1>5. ASSUME NEW i \in Entry, Fail(i) PROVE RpTypeOK'
  BY <1>5 DEF Fail
<1>6. ASSUME NEW i \in Entry, StartDevice(i) PROVE RpTypeOK'
  BY <1>6 DEF StartDevice
<1>7. ASSUME NEW i \in Entry, ShowCode(i) PROVE RpTypeOK'
  BY <1>7 DEF ShowCode
<1>8. ASSUME NEW i \in Entry, Poll(i) PROVE RpTypeOK'
  BY <1>8 DEF Poll
<1>9. ASSUME NEW i \in Entry, PollAgain(i) PROVE RpTypeOK'
  BY <1>9 DEF PollAgain
<1>10. ASSUME NEW i \in Entry, Expire(i) PROVE RpTypeOK'
  BY <1>10 DEF Expire
<1>11. ASSUME ComeBack PROVE RpTypeOK'
  BY <1>11 DEF ComeBack
<1>12. ASSUME Reload PROVE RpTypeOK'
  BY <1>12 DEF Reload
<1>13. ASSUME OpenDevice PROVE RpTypeOK'
  BY <1>13 DEF OpenDevice
<1>14. ASSUME LeaveDevice PROVE RpTypeOK'
  BY <1>14 DEF LeaveDevice
<1>15. ASSUME Logout PROVE RpTypeOK'
  BY <1>15 DEF Logout
<1>16. ASSUME LogoutLands PROVE RpTypeOK'
  <2>1. /\ store' = Nothing /\ revived' = FALSE /\ framed' = FALSE
        /\ UNCHANGED <<kind, iframe, revoked, ended, owed, signedOver, straddled, kicked, orphaned>>
    BY <1>16 DEF LogoutLands
  <2>2. store' \in [Piece -> Entry \cup {NoEntry}]
    BY <2>1
  <2>3. CASE tab' = [tab EXCEPT !.token = NoEntry] /\ out' = NoLogout /\ UNCHANGED <<entry, ren, device>>
    <3>1. tab' \in [token : Entry \cup {NoEntry}, at : {"here", "away"}, check : BOOLEAN]
      BY <2>3
    <3>2. out' \in [at : {"idle", "sent"}, hint : Entry \cup {NoEntry}]
      BY <2>3
    <3>3. QED
      BY <2>1, <2>2, <2>3, <3>1, <3>2
  <2>4. CASE Leaves /\ entry' = Dropped
    <3>1. tab' \in [token : Entry \cup {NoEntry}, at : {"here", "away"}, check : BOOLEAN]
      BY <2>4
    <3>2. /\ out' \in [at : {"idle", "sent"}, hint : Entry \cup {NoEntry}]
          /\ ren' \in [at : {"idle", "sent"}, who : Entry \cup {NoEntry}]
          /\ device' \in [open : BOOLEAN, status : {"idle", "waiting", "done"}, timer : Entry \cup {NoEntry}]
      BY <2>4
    <3>3. entry' \in [Entry -> {"idle", "away", "code", "in", "gone"} \cup Flying]
      BY <2>4, DroppedFacts
    <3>4. QED
      BY <2>1, <2>2, <3>1, <3>2, <3>3
  <2>5. QED
    BY <1>16, <2>3, <2>4 DEF LogoutLands
<1>17. ASSUME Unauthorized PROVE RpTypeOK'
  <2>1. UNCHANGED <<kind, iframe, revoked, ended, signedOver, straddled, orphaned>>
    BY <1>17 DEF Unauthorized
  <2>2. CASE Kick /\ UNCHANGED <<framed, revived>>
    <3>1. /\ store' \in [Piece -> Entry \cup {NoEntry}]
          /\ tab' = [token |-> NoEntry, at |-> "here", check |-> FALSE]
          /\ out' = NoLogout /\ ren' = NoRenewal /\ device' = NoDevice
          /\ kicked' = TRUE /\ owed' = NoEntry /\ entry' = Dropped
      BY <2>2, KickFacts
    <3>2. tab' \in [token : Entry \cup {NoEntry}, at : {"here", "away"}, check : BOOLEAN]
      BY <3>1
    <3>3. /\ out' \in [at : {"idle", "sent"}, hint : Entry \cup {NoEntry}]
          /\ ren' \in [at : {"idle", "sent"}, who : Entry \cup {NoEntry}]
          /\ device' \in [open : BOOLEAN, status : {"idle", "waiting", "done"}, timer : Entry \cup {NoEntry}]
      BY <3>1
    <3>4. entry' \in [Entry -> {"idle", "away", "code", "in", "gone"} \cup Flying]
      BY <3>1, DroppedFacts
    <3>5. QED
      BY <2>1, <2>2, <3>1, <3>2, <3>3, <3>4
  <2>3. CASE /\ ren' = [at |-> "sent", who |-> store.refresh]
             /\ UNCHANGED <<entry, store, tab, out, device, owed, kicked, framed, revived>>
    <3>1. ren' \in [at : {"idle", "sent"}, who : Entry \cup {NoEntry}]
      BY <2>3
    <3>2. QED
      BY <2>1, <2>3, <3>1
  <2>4. QED
    BY <1>17, <2>2, <2>3 DEF Unauthorized
<1>18. ASSUME RenewalLands PROVE RpTypeOK'
  <2>1. UNCHANGED <<kind, iframe, revoked, ended, signedOver, straddled, framed, orphaned>>
    BY <1>18 DEF RenewalLands
  <2>2. CASE Kick /\ UNCHANGED revived
    <3>1. /\ store' \in [Piece -> Entry \cup {NoEntry}]
          /\ tab' = [token |-> NoEntry, at |-> "here", check |-> FALSE]
          /\ out' = NoLogout /\ ren' = NoRenewal /\ device' = NoDevice
          /\ kicked' = TRUE /\ owed' = NoEntry /\ entry' = Dropped
      BY <2>2, KickFacts
    <3>2. tab' \in [token : Entry \cup {NoEntry}, at : {"here", "away"}, check : BOOLEAN]
      BY <3>1
    <3>3. /\ out' \in [at : {"idle", "sent"}, hint : Entry \cup {NoEntry}]
          /\ ren' \in [at : {"idle", "sent"}, who : Entry \cup {NoEntry}]
          /\ device' \in [open : BOOLEAN, status : {"idle", "waiting", "done"}, timer : Entry \cup {NoEntry}]
      BY <3>1
    <3>4. entry' \in [Entry -> {"idle", "away", "code", "in", "gone"} \cup Flying]
      BY <3>1, DroppedFacts
    <3>5. QED
      BY <2>1, <2>2, <3>1, <3>2, <3>3, <3>4
  <2>3. CASE /\ ren.who \notin revoked
             /\ store' = [store EXCEPT !.token = ren.who, !.refresh = ren.who]
             /\ ren' = NoRenewal
             /\ revived' = (revived \/ store.token # ren.who)
             /\ UNCHANGED <<entry, tab, out, device, kicked, owed>>
    <3>1. store' \in [Piece -> Entry \cup {NoEntry}]
      BY <2>3, RenewFacts
    <3>2. ren' \in [at : {"idle", "sent"}, who : Entry \cup {NoEntry}]
      BY <2>3
    <3>3. revived' \in BOOLEAN
      BY <2>3
    <3>4. QED
      BY <2>1, <2>3, <3>1, <3>2, <3>3
  <2>4. QED
    BY <1>18, <2>2, <2>3 DEF RenewalLands
<1>19. ASSUME CheckAuth PROVE RpTypeOK'
  <2>1. UNCHANGED <<kind, entry, store, ren, device, iframe, revoked, ended, rpHistory>>
    BY <1>19 DEF CheckAuth
  <2>2. tab' \in [token : Entry \cup {NoEntry}, at : {"here", "away"}, check : BOOLEAN]
    BY <1>19 DEF CheckAuth
  <2>3. out' \in [at : {"idle", "sent"}, hint : Entry \cup {NoEntry}] /\ owed' \in Entry \cup {NoEntry}
    BY <1>19 DEF CheckAuth
  <2>4. QED
    BY <2>1, <2>2, <2>3
<1>20. ASSUME EndSession PROVE RpTypeOK'
  BY <1>20 DEF EndSession
<1>21. ASSUME FrontChannel PROVE RpTypeOK'
  BY <1>21 DEF FrontChannel
<1>22. QED
  BY <1>1, <1>2, <1>3, <1>4, <1>5, <1>6, <1>7, <1>8, <1>9, <1>10, <1>11, <1>12, <1>13, <1>14, <1>15, <1>16, <1>17, <1>18, <1>19, <1>20, <1>21 DEF RpNext

LEMMA RpStoreKept == RpInv /\ RpNext => RpStoreInv'
<1> SUFFICES ASSUME RpInv, RpNext PROVE RpStoreInv'
  OBVIOUS
<1> USE DEF RpInv, RpStoreInv, RpOwedInv, RpTypeOK, OneSignIn, Loads, Leaves, Dropped, Flying, Kick, Forget, ClearStorage, Nothing, NoLogout, NoRenewal, NoDevice, StartLogout, Piece, rpHistory, Shown
<1>1. ASSUME NEW i \in Entry, SubmitSignIn(i) PROVE RpStoreInv'
  BY <1>1 DEF SubmitSignIn
<1>2. ASSUME NEW i \in Entry, BeginOAuthLogin(i) PROVE RpStoreInv'
  BY <1>2 DEF BeginOAuthLogin
<1>3. ASSUME NEW i \in Entry, RunCallback(i) PROVE RpStoreInv'
  BY <1>3 DEF RunCallback
<1>4. ASSUME NEW i \in Entry, SignInLands(i) PROVE RpStoreInv'
  <2>1. store'.token = i /\ store'.refresh = i /\ store'.sid \in {i, store.sid} /\ store'.id \in {i, store.id}
    BY <1>4, LandFacts
  <2>2. /\ tab' = [tab EXCEPT !.token = i] /\ owed' = (IF i \in revoked THEN NoEntry ELSE i)
        /\ signedOver' = (signedOver \/ tab.token # NoEntry \/ store.token # NoEntry)
        /\ straddled' = (straddled \/ out.at = "sent" \/ ren.at = "sent" \/ iframe)
        /\ UNCHANGED <<out, ren, kicked>>
    BY <1>4 DEF SignInLands
  <2>3. tab.token \in Entry \cup {NoEntry} /\ tab'.token = i /\ out.at \in {"idle", "sent"}
    BY <2>2
  <2>4. QED
    BY <2>1, <2>2, <2>3
<1>5. ASSUME NEW i \in Entry, Fail(i) PROVE RpStoreInv'
  BY <1>5 DEF Fail
<1>6. ASSUME NEW i \in Entry, StartDevice(i) PROVE RpStoreInv'
  BY <1>6 DEF StartDevice
<1>7. ASSUME NEW i \in Entry, ShowCode(i) PROVE RpStoreInv'
  BY <1>7 DEF ShowCode
<1>8. ASSUME NEW i \in Entry, Poll(i) PROVE RpStoreInv'
  BY <1>8 DEF Poll
<1>9. ASSUME NEW i \in Entry, PollAgain(i) PROVE RpStoreInv'
  BY <1>9 DEF PollAgain
<1>10. ASSUME NEW i \in Entry, Expire(i) PROVE RpStoreInv'
  BY <1>10 DEF Expire
<1>11. ASSUME ComeBack PROVE RpStoreInv'
  BY <1>11 DEF ComeBack
<1>12. ASSUME Reload PROVE RpStoreInv'
  BY <1>12 DEF Reload
<1>13. ASSUME OpenDevice PROVE RpStoreInv'
  BY <1>13 DEF OpenDevice
<1>14. ASSUME LeaveDevice PROVE RpStoreInv'
  BY <1>14 DEF LeaveDevice
<1>15. ASSUME Logout PROVE RpStoreInv'
  BY <1>15 DEF Logout
<1>16. ASSUME LogoutLands PROVE RpStoreInv'
  BY <1>16 DEF LogoutLands
<1>17. ASSUME Unauthorized PROVE RpStoreInv'
  <2>1. UNCHANGED <<signedOver, straddled>>
    BY <1>17 DEF Unauthorized
  <2>2. CASE Kick
    <3>1. /\ store'.token = NoEntry /\ store'.refresh = NoEntry /\ store'.sid = NoEntry
          /\ ren' = NoRenewal /\ kicked' = TRUE
      BY <2>2, KickFacts
    <3>2. QED
      BY <2>1, <3>1
  <2>3. CASE /\ store.refresh # NoEntry /\ ren' = [at |-> "sent", who |-> store.refresh]
             /\ UNCHANGED <<entry, store, tab, out, device, owed, kicked, framed, revived>>
    BY <2>1, <2>3
  <2>4. QED
    BY <1>17, <2>2, <2>3 DEF Unauthorized
<1>18. ASSUME RenewalLands PROVE RpStoreInv'
  <2>1. UNCHANGED <<signedOver, straddled, framed>> /\ ren.at = "sent"
    BY <1>18 DEF RenewalLands
  <2>2. CASE Kick
    <3>1. /\ store'.token = NoEntry /\ store'.refresh = NoEntry /\ store'.sid = NoEntry
          /\ tab' = [token |-> NoEntry, at |-> "here", check |-> FALSE]
          /\ out' = NoLogout /\ ren' = NoRenewal /\ kicked' = TRUE /\ owed' = NoEntry
      BY <2>2, KickFacts
    <3>2. QED
      BY <2>1, <3>1
  <2>3. CASE /\ ren.who \notin revoked
             /\ store' = [store EXCEPT !.token = ren.who, !.refresh = ren.who]
             /\ ren' = NoRenewal
             /\ revived' = (revived \/ store.token # ren.who)
             /\ UNCHANGED <<entry, tab, out, device, kicked, owed>>
    <3>1. store'.token = ren.who /\ store'.refresh = ren.who /\ store'.sid = store.sid /\ store'.id = store.id
      BY <2>3, RenewFacts
    <3>2. QED
      BY <2>1, <2>3, <3>1
  <2>4. QED
    BY <1>18, <2>2, <2>3 DEF RenewalLands
<1>19. ASSUME CheckAuth PROVE RpStoreInv'
  BY <1>19 DEF CheckAuth
<1>20. ASSUME EndSession PROVE RpStoreInv'
  BY <1>20 DEF EndSession
<1>21. ASSUME FrontChannel PROVE RpStoreInv'
  BY <1>21 DEF FrontChannel
<1>22. QED
  BY <1>1, <1>2, <1>3, <1>4, <1>5, <1>6, <1>7, <1>8, <1>9, <1>10, <1>11, <1>12, <1>13, <1>14, <1>15, <1>16, <1>17, <1>18, <1>19, <1>20, <1>21 DEF RpNext

LEMMA RpOwedKept == RpInv /\ RpNext => RpOwedInv'
<1> SUFFICES ASSUME RpInv, RpNext PROVE RpOwedInv'
  OBVIOUS
<1> USE DEF RpInv, RpOwedInv, RpStoreInv, RpTypeOK, Loads, Leaves, Dropped, Flying, Kick, Forget, ClearStorage, Nothing, NoLogout, NoRenewal, NoDevice, StartLogout, Piece, rpHistory, Shown
<1>1. ASSUME NEW i \in Entry, SubmitSignIn(i) PROVE RpOwedInv'
  BY <1>1 DEF SubmitSignIn
<1>2. ASSUME NEW i \in Entry, BeginOAuthLogin(i) PROVE RpOwedInv'
  BY <1>2 DEF BeginOAuthLogin
<1>3. ASSUME NEW i \in Entry, RunCallback(i) PROVE RpOwedInv'
  BY <1>3 DEF RunCallback
<1>4. ASSUME NEW i \in Entry, SignInLands(i) PROVE RpOwedInv'
  <2>1. store'.token = i /\ store'.refresh = i /\ store'.sid \in {i, store.sid} /\ store'.id \in {i, store.id}
    BY <1>4, LandFacts
  <2>2. /\ tab' = [tab EXCEPT !.token = i] /\ owed' = (IF i \in revoked THEN NoEntry ELSE i)
        /\ signedOver' = (signedOver \/ tab.token # NoEntry \/ store.token # NoEntry)
        /\ straddled' = (straddled \/ out.at = "sent" \/ ren.at = "sent" \/ iframe)
        /\ UNCHANGED <<out, ren, kicked>>
    BY <1>4 DEF SignInLands
  <2>3. tab.token \in Entry \cup {NoEntry} /\ tab'.token = i /\ out.at \in {"idle", "sent"}
    BY <2>2
  <2>4. QED
    BY <2>1, <2>2, <2>3
<1>5. ASSUME NEW i \in Entry, Fail(i) PROVE RpOwedInv'
  BY <1>5 DEF Fail
<1>6. ASSUME NEW i \in Entry, StartDevice(i) PROVE RpOwedInv'
  BY <1>6 DEF StartDevice
<1>7. ASSUME NEW i \in Entry, ShowCode(i) PROVE RpOwedInv'
  BY <1>7 DEF ShowCode
<1>8. ASSUME NEW i \in Entry, Poll(i) PROVE RpOwedInv'
  BY <1>8 DEF Poll
<1>9. ASSUME NEW i \in Entry, PollAgain(i) PROVE RpOwedInv'
  BY <1>9 DEF PollAgain
<1>10. ASSUME NEW i \in Entry, Expire(i) PROVE RpOwedInv'
  BY <1>10 DEF Expire
<1>11. ASSUME ComeBack PROVE RpOwedInv'
  BY <1>11 DEF ComeBack
<1>12. ASSUME Reload PROVE RpOwedInv'
  BY <1>12 DEF Reload
<1>13. ASSUME OpenDevice PROVE RpOwedInv'
  BY <1>13 DEF OpenDevice
<1>14. ASSUME LeaveDevice PROVE RpOwedInv'
  BY <1>14 DEF LeaveDevice
<1>15. ASSUME Logout PROVE RpOwedInv'
  BY <1>15 DEF Logout
<1>16. ASSUME LogoutLands PROVE RpOwedInv'
  BY <1>16 DEF LogoutLands
<1>17. ASSUME Unauthorized PROVE RpOwedInv'
  BY <1>17 DEF Unauthorized
<1>18. ASSUME RenewalLands PROVE RpOwedInv'
  <2>1. UNCHANGED <<signedOver, straddled, framed>> /\ ren.at = "sent"
    BY <1>18 DEF RenewalLands
  <2>2. CASE Kick
    <3>1. /\ store'.token = NoEntry /\ store'.refresh = NoEntry /\ store'.sid = NoEntry
          /\ tab' = [token |-> NoEntry, at |-> "here", check |-> FALSE]
          /\ out' = NoLogout /\ ren' = NoRenewal /\ kicked' = TRUE /\ owed' = NoEntry
      BY <2>2, KickFacts
    <3>2. QED
      BY <2>1, <3>1
  <2>3. CASE /\ ren.who \notin revoked
             /\ store' = [store EXCEPT !.token = ren.who, !.refresh = ren.who]
             /\ ren' = NoRenewal
             /\ revived' = (revived \/ store.token # ren.who)
             /\ UNCHANGED <<entry, tab, out, device, kicked, owed>>
    <3>1. store'.token = ren.who /\ store'.refresh = ren.who /\ store'.sid = store.sid /\ store'.id = store.id
      BY <2>3, RenewFacts
    <3>2. QED
      BY <2>1, <2>3, <3>1
  <2>4. QED
    BY <1>18, <2>2, <2>3 DEF RenewalLands
<1>19. ASSUME CheckAuth PROVE RpOwedInv'
  BY <1>19 DEF CheckAuth
<1>20. ASSUME EndSession PROVE RpOwedInv'
  BY <1>20 DEF EndSession
<1>21. ASSUME FrontChannel PROVE RpOwedInv'
  BY <1>21 DEF FrontChannel
<1>22. QED
  BY <1>1, <1>2, <1>3, <1>4, <1>5, <1>6, <1>7, <1>8, <1>9, <1>10, <1>11, <1>12, <1>13, <1>14, <1>15, <1>16, <1>17, <1>18, <1>19, <1>20, <1>21 DEF RpNext

LEMMA RpDeviceKept == RpInv /\ RpNext => RpDeviceInv'
<1> SUFFICES ASSUME RpInv, RpNext PROVE RpDeviceInv'
  OBVIOUS
<1> USE DEF RpInv, RpDeviceInv, RpTypeOK, Loads, Leaves, Dropped, Flying, Kick, Forget, ClearStorage, Nothing, NoLogout, NoRenewal, NoDevice, StartLogout, Piece, rpHistory, Shown
<1>1. ASSUME NEW i \in Entry, SubmitSignIn(i) PROVE RpDeviceInv'
  BY <1>1 DEF SubmitSignIn
<1>2. ASSUME NEW i \in Entry, BeginOAuthLogin(i) PROVE RpDeviceInv'
  BY <1>2 DEF BeginOAuthLogin
<1>3. ASSUME NEW i \in Entry, RunCallback(i) PROVE RpDeviceInv'
  BY <1>3 DEF RunCallback
<1>4. ASSUME NEW i \in Entry, SignInLands(i) PROVE RpDeviceInv'
  BY <1>4 DEF SignInLands
<1>5. ASSUME NEW i \in Entry, Fail(i) PROVE RpDeviceInv'
  BY <1>5 DEF Fail
<1>6. ASSUME NEW i \in Entry, StartDevice(i) PROVE RpDeviceInv'
  BY <1>6 DEF StartDevice
<1>7. ASSUME NEW i \in Entry, ShowCode(i) PROVE RpDeviceInv'
  BY <1>7 DEF ShowCode
<1>8. ASSUME NEW i \in Entry, Poll(i) PROVE RpDeviceInv'
  BY <1>8 DEF Poll
<1>9. ASSUME NEW i \in Entry, PollAgain(i) PROVE RpDeviceInv'
  BY <1>9 DEF PollAgain
<1>10. ASSUME NEW i \in Entry, Expire(i) PROVE RpDeviceInv'
  BY <1>10 DEF Expire
<1>11. ASSUME ComeBack PROVE RpDeviceInv'
  BY <1>11 DEF ComeBack
<1>12. ASSUME Reload PROVE RpDeviceInv'
  BY <1>12 DEF Reload
<1>13. ASSUME OpenDevice PROVE RpDeviceInv'
  BY <1>13 DEF OpenDevice
<1>14. ASSUME LeaveDevice PROVE RpDeviceInv'
  BY <1>14 DEF LeaveDevice
<1>15. ASSUME Logout PROVE RpDeviceInv'
  BY <1>15 DEF Logout
<1>16. ASSUME LogoutLands PROVE RpDeviceInv'
  BY <1>16 DEF LogoutLands
<1>17. ASSUME Unauthorized PROVE RpDeviceInv'
  BY <1>17 DEF Unauthorized
<1>18. ASSUME RenewalLands PROVE RpDeviceInv'
  BY <1>18 DEF RenewalLands
<1>19. ASSUME CheckAuth PROVE RpDeviceInv'
  BY <1>19 DEF CheckAuth
<1>20. ASSUME EndSession PROVE RpDeviceInv'
  BY <1>20 DEF EndSession
<1>21. ASSUME FrontChannel PROVE RpDeviceInv'
  BY <1>21 DEF FrontChannel
<1>22. QED
  BY <1>1, <1>2, <1>3, <1>4, <1>5, <1>6, <1>7, <1>8, <1>9, <1>10, <1>11, <1>12, <1>13, <1>14, <1>15, <1>16, <1>17, <1>18, <1>19, <1>20, <1>21 DEF RpNext

LEMMA TabKept == RpInv /\ RpNext => TabAgrees'
<1> SUFFICES ASSUME RpInv, RpNext PROVE TabAgrees'
  OBVIOUS
<1> USE DEF RpInv, TabAgrees, RpTypeOK, Loads, Leaves, Dropped, Flying, Kick, Forget, ClearStorage, Nothing, NoLogout, NoRenewal, NoDevice, StartLogout, Piece, rpHistory, Shown
<1>1. ASSUME NEW i \in Entry, SubmitSignIn(i) PROVE TabAgrees'
  BY <1>1 DEF SubmitSignIn
<1>2. ASSUME NEW i \in Entry, BeginOAuthLogin(i) PROVE TabAgrees'
  BY <1>2 DEF BeginOAuthLogin
<1>3. ASSUME NEW i \in Entry, RunCallback(i) PROVE TabAgrees'
  BY <1>3 DEF RunCallback
<1>4. ASSUME NEW i \in Entry, SignInLands(i) PROVE TabAgrees'
  <2>1. store'.token = i /\ store'.refresh = i /\ store'.sid \in {i, store.sid} /\ store'.id \in {i, store.id}
    BY <1>4, LandFacts
  <2>2. /\ tab' = [tab EXCEPT !.token = i] /\ owed' = (IF i \in revoked THEN NoEntry ELSE i)
        /\ signedOver' = (signedOver \/ tab.token # NoEntry \/ store.token # NoEntry)
        /\ straddled' = (straddled \/ out.at = "sent" \/ ren.at = "sent" \/ iframe)
        /\ UNCHANGED <<out, ren, kicked>>
    BY <1>4 DEF SignInLands
  <2>3. tab.token \in Entry \cup {NoEntry} /\ tab'.token = i /\ out.at \in {"idle", "sent"}
    BY <2>2
  <2>4. QED
    BY <2>1, <2>2, <2>3
<1>5. ASSUME NEW i \in Entry, Fail(i) PROVE TabAgrees'
  BY <1>5 DEF Fail
<1>6. ASSUME NEW i \in Entry, StartDevice(i) PROVE TabAgrees'
  BY <1>6 DEF StartDevice
<1>7. ASSUME NEW i \in Entry, ShowCode(i) PROVE TabAgrees'
  BY <1>7 DEF ShowCode
<1>8. ASSUME NEW i \in Entry, Poll(i) PROVE TabAgrees'
  BY <1>8 DEF Poll
<1>9. ASSUME NEW i \in Entry, PollAgain(i) PROVE TabAgrees'
  BY <1>9 DEF PollAgain
<1>10. ASSUME NEW i \in Entry, Expire(i) PROVE TabAgrees'
  BY <1>10 DEF Expire
<1>11. ASSUME ComeBack PROVE TabAgrees'
  BY <1>11 DEF ComeBack
<1>12. ASSUME Reload PROVE TabAgrees'
  BY <1>12 DEF Reload
<1>13. ASSUME OpenDevice PROVE TabAgrees'
  BY <1>13 DEF OpenDevice
<1>14. ASSUME LeaveDevice PROVE TabAgrees'
  BY <1>14 DEF LeaveDevice
<1>15. ASSUME Logout PROVE TabAgrees'
  BY <1>15 DEF Logout
<1>16. ASSUME LogoutLands PROVE TabAgrees'
  BY <1>16 DEF LogoutLands
<1>17. ASSUME Unauthorized PROVE TabAgrees'
  BY <1>17 DEF Unauthorized
<1>18. ASSUME RenewalLands PROVE TabAgrees'
  <2>1. UNCHANGED <<signedOver, straddled, framed>> /\ ren.at = "sent"
    BY <1>18 DEF RenewalLands
  <2>2. CASE Kick
    <3>1. /\ store'.token = NoEntry /\ store'.refresh = NoEntry /\ store'.sid = NoEntry
          /\ tab' = [token |-> NoEntry, at |-> "here", check |-> FALSE]
          /\ out' = NoLogout /\ ren' = NoRenewal /\ kicked' = TRUE /\ owed' = NoEntry
      BY <2>2, KickFacts
    <3>2. QED
      BY <2>1, <3>1
  <2>3. CASE /\ ren.who \notin revoked
             /\ store' = [store EXCEPT !.token = ren.who, !.refresh = ren.who]
             /\ ren' = NoRenewal
             /\ revived' = (revived \/ store.token # ren.who)
             /\ UNCHANGED <<entry, tab, out, device, kicked, owed>>
    <3>1. store'.token = ren.who /\ store'.refresh = ren.who /\ store'.sid = store.sid /\ store'.id = store.id
      BY <2>3, RenewFacts
    <3>2. QED
      BY <2>1, <2>3, <3>1
  <2>4. QED
    BY <1>18, <2>2, <2>3 DEF RenewalLands
<1>19. ASSUME CheckAuth PROVE TabAgrees'
  BY <1>19 DEF CheckAuth
<1>20. ASSUME EndSession PROVE TabAgrees'
  BY <1>20 DEF EndSession
<1>21. ASSUME FrontChannel PROVE TabAgrees'
  BY <1>21 DEF FrontChannel
<1>22. QED
  BY <1>1, <1>2, <1>3, <1>4, <1>5, <1>6, <1>7, <1>8, <1>9, <1>10, <1>11, <1>12, <1>13, <1>14, <1>15, <1>16, <1>17, <1>18, <1>19, <1>20, <1>21 DEF RpNext

(* The inductive invariant of the relying party: it holds at the start, *)
LEMMA RpStart == RpInit => RpInv
<1> SUFFICES ASSUME RpInit PROVE RpInv
  OBVIOUS
<1>1. RpTypeOK
  <2>1. store \in [Piece -> Entry \cup {NoEntry}] /\ entry \in [Entry -> {"idle", "away", "code", "in", "gone"} \cup Flying]
    BY DEF RpInit, Nothing
  <2>2. /\ tab \in [token : Entry \cup {NoEntry}, at : {"here", "away"}, check : BOOLEAN]
        /\ out \in [at : {"idle", "sent"}, hint : Entry \cup {NoEntry}]
        /\ ren \in [at : {"idle", "sent"}, who : Entry \cup {NoEntry}]
        /\ device \in [open : BOOLEAN, status : {"idle", "waiting", "done"}, timer : Entry \cup {NoEntry}]
    BY DEF RpInit, NoLogout, NoRenewal, NoDevice
  <2>3. kind \in [Entry -> {"form", "sso", "device"}]
    BY DEF RpInit
  <2>4. /\ {iframe, ended, signedOver, straddled, kicked, framed, revived} \subseteq BOOLEAN
        /\ revoked \subseteq Entry /\ orphaned \subseteq Entry /\ owed \in Entry \cup {NoEntry}
    BY DEF RpInit
  <2>5. QED
    BY <2>1, <2>2, <2>3, <2>4 DEF RpTypeOK
<1>2. RpStoreInv /\ RpOwedInv /\ RpDeviceInv /\ TabAgrees
  BY DEF RpInit, RpStoreInv, RpOwedInv, RpDeviceInv, TabAgrees, Nothing, Piece, NoLogout, NoRenewal, NoDevice, Flying
<1>3. QED
  BY <1>1, <1>2 DEF RpInv

(* every step of every actor keeps it,                                                    *)
LEMMA RpStepKeeps == RpInv /\ [RpNext]_rpVars => RpInv'
<1> SUFFICES ASSUME RpInv, [RpNext]_rpVars PROVE RpInv'
  OBVIOUS
<1>1. CASE RpNext
  BY <1>1, RpTypesKept, RpStoreKept, RpOwedKept, RpDeviceKept, TabKept DEF RpInv
<1>2. CASE UNCHANGED rpVars
  BY <1>2 DEF rpVars, RpInv, RpTypeOK, RpStoreInv, RpOwedInv, RpDeviceInv, TabAgrees
<1>3. QED
  BY <1>1, <1>2

(* and what the runs check of the component follows from it.                              *)
LEMMA RpInvHolds == RpInv => RpTypeOK /\ RelyingPartyHolds
<1> SUFFICES ASSUME RpInv PROVE RpTypeOK /\ RelyingPartyHolds
  OBVIOUS
<1>1. OneSignIn
  BY DEF RpInv, RpStoreInv, OneSignIn
<1>2. SignInKept
  BY DEF RpInv, RpOwedInv, SignInKept
<1>3. PollsWhatItShows
  BY DEF RpInv, RpDeviceInv, PollsWhatItShows
<1>4. QED
  BY <1>1, <1>2, <1>3 DEF RpInv, RelyingPartyHolds

--------------------------------------------------------------------------------
(* Decisions: the pages on which a user decides, and the start.                           *)

Asked == [at : {"idle", "sent", "ok", "refused", "lost"}, of : Maybe, shown : Maybe, as : Maybe, seen : Maybe]
Looked == [at : {"idle", "sent", "found", "refused"}, of : Maybe]
Stage == {"start", "input", "look", "confirm", "processing", "approved", "denied", "error", "ready", "left"}

(* With the type: a lookup that is under way is of something, and "ready" is where a sign-out *)
(* and a start end.                                                                          *)
DecisionTypes ==
  /\ DecisionsTypeOK
  /\ code \in [Thing -> {"pending", "approved", "denied", "expired"}]
  /\ ask \in [{"yes", "no"} -> Asked]
  /\ \A l \in Looking : look[l].of \in Thing
  /\ stage = "ready" => subject \in {"logout", "start"}

(* A device's code: what is looked up is what the field holds, until the page is left; then   *)
(* that is what is decided.                                                                  *)
DeviceInv ==
  subject = "device" =>
    /\ stage \in {"input", "look", "confirm", "approved", "denied", "error", "left"}
    /\ \A l \in Looking : look[l].of = entered /\ stage \in {"input", "look"} /\ \A m \in Looking : m = l
    /\ stage = "confirm" => about = entered
    /\ stage \in {"confirm", "approved", "denied"} => entered \in Thing
    /\ \A k \in Asking : /\ stage \in {"confirm", "approved", "denied"}
                         /\ host = "console" => stage = "confirm" /\ \A j \in Asking : j = k
                         /\ ask[k].of = entered /\ ask[k].shown = entered
                         /\ ask[k].at = "ok" => code[entered] = Verdict(k)

(* An authorization: until an older request was overtaken, there is one.                      *)
ConsentInv ==
  subject = "consent" =>
    /\ \/ outrun
       \/ /\ \A l \in Looking : look[l].of = entered
          /\ about \in {NoThing, entered} /\ (stage = "confirm" => about = entered /\ about # NoThing)
    /\ \A k \in Asking : ask[k].of = ask[k].shown \/ outrun

(* The account of the page, of its decision and of the storage.                              *)
AccountInv ==
  subject # "start" =>
    /\ stage \notin {"ready", "left"} => stored = shownUser \/ swapped
    /\ \A k \in Asking : ask[k].as = ask[k].seen \/ swapped

LogoutInv ==
  subject = "logout" =>
    /\ Looking = {} /\ Asking \subseteq {"yes"} /\ (Asking # {} => stage = "processing")
    /\ \A k \in Asking : /\ ask[k].seen = shownUser
                         /\ ask[k].at = "ok" => ask[k].as \notin sso \/ swapped

StartInv ==
  subject = "start" =>
    /\ stage \in {"start", "processing", "look", "ready"}
    /\ Looking # {} => stage = "look"
    /\ Asking \subseteq {"yes"} /\ (Asking # {} => stage = "processing" /\ entered # NoThing)
    /\ \A l \in Looking : (look[l].of = stored \/ swapped) /\ \A m \in Looking : m = l
    /\ stage # "ready" => shownUser = NoThing

DecisionInv ==
  /\ DecisionTypes
  /\ DeviceInv /\ ConsentInv /\ AccountInv /\ LogoutInv /\ StartInv
  /\ SaysWhatItDid /\ SignedOutEverywhere /\ StartsAsStored

LEMMA AnsweredAsk ==
  ASSUME NEW f \in [{"yes", "no"} -> Asked], NEW k \in {"yes", "no"}, NEW a \in {"ok", "lost", "refused"}
  PROVE  [f EXCEPT ![k].at = a] \in [{"yes", "no"} -> Asked]
BY DEF Asked

LEMMA DecisionTypesKept == DecisionInv /\ DecisionsNext => DecisionTypes'
<1> SUFFICES ASSUME DecisionInv, DecisionsNext PROVE DecisionTypes'
  OBVIOUS
<1> USE DEF DecisionInv, DecisionTypes, DecisionsTypeOK, Looking, Asking, Maybe, Asked, Looked, NoLook, NoAsk, Stage, History, Accounts, Fixed
<1>1. ASSUME SwitchAccount PROVE DecisionTypes'
  BY <1>1 DEF SwitchAccount
<1>2. ASSUME BackToInput PROVE DecisionTypes'
  BY <1>2 DEF BackToInput
<1>3. ASSUME SentAway PROVE DecisionTypes'
  BY <1>3 DEF SentAway
<1>4. ASSUME AnswerLogout PROVE DecisionTypes'
  BY <1>4 DEF AnswerLogout
<1>5. ASSUME LandLogout PROVE DecisionTypes'
  BY <1>5 DEF LandLogout
<1>6. ASSUME ExchangeCode PROVE DecisionTypes'
  BY <1>6 DEF ExchangeCode
<1>7. ASSUME NEW c \in Thing, CodeChanges(c) PROVE DecisionTypes'
  BY <1>7 DEF CodeChanges
<1>8. ASSUME NEW c \in Thing, TypeCode(c) PROVE DecisionTypes'
  BY <1>8 DEF TypeCode
<1>9. ASSUME NEW l \in Lookup, NEW c \in Thing, OpenRequest(l, c) PROVE DecisionTypes'
  BY <1>9 DEF OpenRequest, StartLookup
<1>10. ASSUME NEW l \in Lookup, LookUpCode(l) PROVE DecisionTypes'
  BY <1>10 DEF LookUpCode, StartLookup
<1>11. ASSUME NEW l \in Lookup, AnswerLookup(l) PROVE DecisionTypes'
  BY <1>11 DEF AnswerLookup
<1>12. ASSUME NEW l \in Lookup, LandLookup(l) PROVE DecisionTypes'
  BY <1>12 DEF LandLookup
<1>13. ASSUME NEW l \in Lookup, LandExchange(l) PROVE DecisionTypes'
  <2>1. subject = "start" /\ entered \in Thing
    BY <1>13 DEF LandExchange, StartInv
  <2>2. ask' \in [{"yes", "no"} -> Asked] /\ UNCHANGED <<subject, host, code, entered, about, sso, outrun, swapped, unsure>>
    BY <1>13 DEF LandExchange
  <2>3. {stored', shownUser'} \subseteq Maybe /\ alive' \subseteq Thing /\ stage' \in {"ready", "look"}
    BY <1>13, <2>1 DEF LandExchange, AskWhoIAm
  <2>4. CASE look' = look
    BY <2>1, <2>2, <2>3, <2>4
  <2>5. CASE look' = [look EXCEPT ![l] = [at |-> "sent", of |-> stored]] /\ stored # NoThing
    <3>1. look' \in [Lookup -> Looked] /\ \A m \in Looking' : look'[m].of \in Thing
      BY <2>5
    <3>2. QED
      BY <2>1, <2>2, <2>3, <3>1
  <2>6. QED
    BY <1>13, <2>4, <2>5 DEF LandExchange, AskWhoIAm, StartLookup
<1>14. ASSUME NEW l \in Lookup, StartWithoutCode(l) PROVE DecisionTypes'
  BY <1>14 DEF StartWithoutCode, AskWhoIAm, StartLookup
<1>15. ASSUME NEW l \in Lookup, LandWhoIAm(l) PROVE DecisionTypes'
  <2>1. look' = [look EXCEPT ![l] = NoLook] /\ stage' = "ready" /\ subject = "start"
        /\ UNCHANGED <<subject, host, code, entered, about, ask, alive, sso, outrun, swapped>>
    BY <1>15 DEF LandWhoIAm
  <2>2. look' \in [Lookup -> Looked] /\ \A m \in Looking' : m \in Looking /\ look'[m] = look[m]
    BY <2>1
  <2>3. stored' \in {stored, NoThing} /\ shownUser' \in {shownUser, look[l].of} /\ unsure' \in BOOLEAN
    BY <1>15 DEF LandWhoIAm
  <2>4. {stored', shownUser'} \subseteq Maybe
    BY <2>3
  <2>5. QED
    BY <2>1, <2>2, <2>3, <2>4
<1>16. ASSUME NEW k \in {"yes", "no"}, Decide(k) PROVE DecisionTypes'
  BY <1>16 DEF Decide
<1>17. ASSUME NEW k \in {"yes", "no"}, AnswerDevice(k) PROVE DecisionTypes'
  <2>1. \E a \in {"ok", "lost", "refused"} : ask' = [ask EXCEPT ![k].at = a]
    BY <1>17 DEF AnswerDevice
  <2>2. ask' \in [{"yes", "no"} -> Asked]
    <3>1. ask \in [{"yes", "no"} -> Asked]
      OBVIOUS
    <3>2. PICK a \in {"ok", "lost", "refused"} : ask' = [ask EXCEPT ![k].at = a]
      BY <2>1
    <3>3. [ask EXCEPT ![k].at = a] \in [{"yes", "no"} -> Asked]
      BY <3>1, AnsweredAsk
    <3>4. QED
      BY <3>2, <3>3
  <2>3. code' \in [Thing -> {"pending", "approved", "denied", "expired"}]
    BY <1>17 DEF AnswerDevice, Verdict
  <2>4. UNCHANGED <<subject, host, entered, about, look, stage, stored, shownUser, alive, sso, outrun, swapped, unsure>>
    BY <1>17 DEF AnswerDevice
  <2>5. QED
    BY <2>2, <2>3, <2>4
<1>18. ASSUME NEW k \in {"yes", "no"}, LandDevice(k) PROVE DecisionTypes'
  BY <1>18 DEF LandDevice, Verdict
<1>19. ASSUME NEW k \in {"yes", "no"}, LandConsent(k) PROVE DecisionTypes'
  BY <1>19 DEF LandConsent
<1>20. ASSUME NEW l \in Lookup, StartWithToken(l) PROVE DecisionTypes'
  BY <1>20, DecisionAssumption DEF StartWithToken, StartLookup
<1>21. QED
  BY <1>1, <1>2, <1>3, <1>4, <1>5, <1>6, <1>7, <1>8, <1>9, <1>10, <1>11, <1>12, <1>13, <1>14, <1>15, <1>16, <1>17, <1>18,
     <1>19, <1>20 DEF DecisionsNext

LEMMA DeviceInvKept == DecisionInv /\ DecisionsNext => DeviceInv'
<1> SUFFICES ASSUME DecisionInv, DecisionsNext PROVE DeviceInv'
  OBVIOUS
<1> USE DEF DecisionInv, DecisionTypes, DeviceInv, DecisionsTypeOK, Looking, Asking, Maybe, Asked, Looked, NoLook, NoAsk, History, Accounts, Fixed
<1>1. ASSUME SwitchAccount PROVE DeviceInv'
  BY <1>1 DEF SwitchAccount
<1>2. ASSUME BackToInput PROVE DeviceInv'
  BY <1>2 DEF BackToInput
<1>3. ASSUME SentAway PROVE DeviceInv'
  BY <1>3 DEF SentAway
<1>4. ASSUME AnswerLogout PROVE DeviceInv'
  BY <1>4 DEF AnswerLogout
<1>5. ASSUME LandLogout PROVE DeviceInv'
  BY <1>5 DEF LandLogout
<1>6. ASSUME ExchangeCode PROVE DeviceInv'
  BY <1>6 DEF ExchangeCode
<1>7. ASSUME NEW c \in Thing, CodeChanges(c) PROVE DeviceInv'
  <2>1. code[c] = "pending" /\ (\A d \in Thing \ {c} : code'[d] = code[d])
        /\ UNCHANGED <<entered, about, look, stage, ask, subject, host>>
    BY <1>7 DEF CodeChanges
  <2>2. \A k \in Asking : ask[k].at = "ok" /\ subject = "device" => entered \in Thing /\ entered # c
    BY <2>1 DEF Verdict
  <2>3. QED
    BY <2>1, <2>2
<1>8. ASSUME NEW c \in Thing, TypeCode(c) PROVE DeviceInv'
  BY <1>8 DEF TypeCode
<1>9. ASSUME NEW l \in Lookup, NEW c \in Thing, OpenRequest(l, c) PROVE DeviceInv'
  BY <1>9, DecisionAssumption DEF OpenRequest, StartLookup
<1>10. ASSUME NEW l \in Lookup, LookUpCode(l) PROVE DeviceInv'
  BY <1>10, DecisionAssumption DEF LookUpCode, StartLookup
<1>11. ASSUME NEW l \in Lookup, AnswerLookup(l) PROVE DeviceInv'
  BY <1>11 DEF AnswerLookup
<1>12. ASSUME NEW l \in Lookup, LandLookup(l) PROVE DeviceInv'
  BY <1>12 DEF LandLookup
<1>13. ASSUME NEW l \in Lookup, LandExchange(l) PROVE DeviceInv'
  BY <1>13 DEF LandExchange, AskWhoIAm, StartLookup
<1>14. ASSUME NEW l \in Lookup, StartWithoutCode(l) PROVE DeviceInv'
  BY <1>14 DEF StartWithoutCode, AskWhoIAm, StartLookup
<1>15. ASSUME NEW l \in Lookup, LandWhoIAm(l) PROVE DeviceInv'
  BY <1>15 DEF LandWhoIAm
<1>16. ASSUME NEW k \in {"yes", "no"}, Decide(k) PROVE DeviceInv'
  BY <1>16 DEF Decide
<1>17. ASSUME NEW k \in {"yes", "no"}, AnswerDevice(k) PROVE DeviceInv'
  BY <1>17 DEF AnswerDevice, Verdict
<1>18. ASSUME NEW k \in {"yes", "no"}, LandDevice(k) PROVE DeviceInv'
  BY <1>18 DEF LandDevice, Verdict
<1>19. ASSUME NEW k \in {"yes", "no"}, LandConsent(k) PROVE DeviceInv'
  BY <1>19 DEF LandConsent
<1>20. ASSUME NEW l \in Lookup, StartWithToken(l) PROVE DeviceInv'
  BY <1>20, DecisionAssumption DEF StartWithToken, StartLookup
<1>21. QED
  BY <1>1, <1>2, <1>3, <1>4, <1>5, <1>6, <1>7, <1>8, <1>9, <1>10, <1>11, <1>12, <1>13, <1>14, <1>15, <1>16, <1>17, <1>18,
     <1>19, <1>20 DEF DecisionsNext

LEMMA ConsentInvKept == DecisionInv /\ DecisionsNext => ConsentInv'
<1> SUFFICES ASSUME DecisionInv, DecisionsNext PROVE ConsentInv'
  OBVIOUS
<1> USE DEF DecisionInv, DecisionTypes, ConsentInv, DecisionsTypeOK, Looking, Asking, Maybe, Asked, Looked, NoLook, NoAsk, History, Accounts, Fixed
<1>1. ASSUME SwitchAccount PROVE ConsentInv'
  BY <1>1 DEF SwitchAccount
<1>2. ASSUME BackToInput PROVE ConsentInv'
  BY <1>2 DEF BackToInput
<1>3. ASSUME SentAway PROVE ConsentInv'
  BY <1>3 DEF SentAway
<1>4. ASSUME AnswerLogout PROVE ConsentInv'
  BY <1>4 DEF AnswerLogout
<1>5. ASSUME LandLogout PROVE ConsentInv'
  BY <1>5 DEF LandLogout
<1>6. ASSUME ExchangeCode PROVE ConsentInv'
  BY <1>6 DEF ExchangeCode
<1>7. ASSUME NEW c \in Thing, CodeChanges(c) PROVE ConsentInv'
  BY <1>7 DEF CodeChanges
<1>8. ASSUME NEW c \in Thing, TypeCode(c) PROVE ConsentInv'
  BY <1>8 DEF TypeCode
<1>9. ASSUME NEW l \in Lookup, NEW c \in Thing, OpenRequest(l, c) PROVE ConsentInv'
  <2>1. entered' = c /\ look' = [look EXCEPT ![l] = [at |-> "sent", of |-> c]]
        /\ outrun' = (outrun \/ Looking # {} \/ about # NoThing) /\ UNCHANGED <<about, stage, ask, subject>>
    BY <1>9 DEF OpenRequest, StartLookup
  <2>2. outrun' \in BOOLEAN /\ (outrun => outrun') /\ Asking' = Asking /\ \A k \in Asking : ask'[k] = ask[k]
    BY <2>1
  <2>3. CASE outrun'
    BY <2>2, <2>3
  <2>4. CASE ~outrun'
    <3>1. ~outrun /\ Looking = {} /\ about = NoThing
      BY <2>1, <2>4
    <3>2. subject = "consent" => stage # "confirm"
      BY <3>1, <1>9, DecisionAssumption DEF OpenRequest
    <3>3. \A m \in Looking' : look'[m].of = c
      BY <2>1, <3>1
    <3>4. QED
      BY <2>1, <2>2, <3>1, <3>2, <3>3
  <2>5. QED
    BY <2>2, <2>3, <2>4
<1>10. ASSUME NEW l \in Lookup, LookUpCode(l) PROVE ConsentInv'
  BY <1>10, DecisionAssumption DEF LookUpCode, StartLookup
<1>11. ASSUME NEW l \in Lookup, AnswerLookup(l) PROVE ConsentInv'
  BY <1>11 DEF AnswerLookup
<1>12. ASSUME NEW l \in Lookup, LandLookup(l) PROVE ConsentInv'
  <2>1. /\ l \in Looking /\ Looking' \subseteq Looking /\ \A m \in Looking' : look'[m] = look[m]
        /\ UNCHANGED <<subject, entered, ask, outrun>>
    BY <1>12 DEF LandLookup
  <2>2. CASE look[l].at = "refused"
    BY <1>12, <2>1, <2>2 DEF LandLookup
  <2>3. CASE look[l].at = "found"
    <3>1. about' = look[l].of /\ about' # NoThing /\ stage' \in {stage, "confirm"}
      BY <1>12, <2>1, <2>3, DecisionAssumption DEF LandLookup
    <3>2. QED
      BY <2>1, <3>1
  <2>4. QED
    BY <1>12, <2>2, <2>3 DEF LandLookup
<1>13. ASSUME NEW l \in Lookup, LandExchange(l) PROVE ConsentInv'
  BY <1>13 DEF LandExchange, AskWhoIAm, StartLookup
<1>14. ASSUME NEW l \in Lookup, StartWithoutCode(l) PROVE ConsentInv'
  BY <1>14 DEF StartWithoutCode, AskWhoIAm, StartLookup
<1>15. ASSUME NEW l \in Lookup, LandWhoIAm(l) PROVE ConsentInv'
  BY <1>15 DEF LandWhoIAm
<1>16. ASSUME NEW k \in {"yes", "no"}, Decide(k) PROVE ConsentInv'
  BY <1>16 DEF Decide
<1>17. ASSUME NEW k \in {"yes", "no"}, AnswerDevice(k) PROVE ConsentInv'
  BY <1>17 DEF AnswerDevice, Verdict
<1>18. ASSUME NEW k \in {"yes", "no"}, LandDevice(k) PROVE ConsentInv'
  BY <1>18 DEF LandDevice, Verdict
<1>19. ASSUME NEW k \in {"yes", "no"}, LandConsent(k) PROVE ConsentInv'
  BY <1>19 DEF LandConsent
<1>20. ASSUME NEW l \in Lookup, StartWithToken(l) PROVE ConsentInv'
  BY <1>20, DecisionAssumption DEF StartWithToken, StartLookup
<1>21. QED
  BY <1>1, <1>2, <1>3, <1>4, <1>5, <1>6, <1>7, <1>8, <1>9, <1>10, <1>11, <1>12, <1>13, <1>14, <1>15, <1>16, <1>17, <1>18,
     <1>19, <1>20 DEF DecisionsNext

LEMMA AccountInvKept == DecisionInv /\ DecisionsNext => AccountInv'
<1> SUFFICES ASSUME DecisionInv, DecisionsNext PROVE AccountInv'
  OBVIOUS
<1> USE DEF DecisionInv, DecisionTypes, AccountInv, DecisionsTypeOK, Looking, Asking, Maybe, Asked, Looked, NoLook, NoAsk, History, Accounts, Fixed
<1>1. ASSUME SwitchAccount PROVE AccountInv'
  BY <1>1 DEF SwitchAccount
<1>2. ASSUME BackToInput PROVE AccountInv'
  BY <1>2 DEF BackToInput
<1>3. ASSUME SentAway PROVE AccountInv'
  BY <1>3 DEF SentAway
<1>4. ASSUME AnswerLogout PROVE AccountInv'
  BY <1>4 DEF AnswerLogout
<1>5. ASSUME LandLogout PROVE AccountInv'
  <2>1. UNCHANGED <<subject, shownUser, swapped>> /\ subject = "logout"
        /\ IF ask["yes"].at = "refused" THEN stage' = "confirm" /\ stored' = stored
                                        ELSE stage' = "ready" /\ stored' = NoThing
    BY <1>5 DEF LandLogout
  <2>2. stage = "processing" /\ Asking' \subseteq Asking /\ \A k \in Asking' : ask'[k] = ask[k]
    BY <1>5 DEF LandLogout, LogoutInv
  <2>3. QED
    BY <2>1, <2>2
<1>6. ASSUME ExchangeCode PROVE AccountInv'
  BY <1>6 DEF ExchangeCode
<1>7. ASSUME NEW c \in Thing, CodeChanges(c) PROVE AccountInv'
  BY <1>7 DEF CodeChanges
<1>8. ASSUME NEW c \in Thing, TypeCode(c) PROVE AccountInv'
  BY <1>8 DEF TypeCode
<1>9. ASSUME NEW l \in Lookup, NEW c \in Thing, OpenRequest(l, c) PROVE AccountInv'
  BY <1>9, DecisionAssumption DEF OpenRequest, StartLookup
<1>10. ASSUME NEW l \in Lookup, LookUpCode(l) PROVE AccountInv'
  BY <1>10, DecisionAssumption DEF LookUpCode, StartLookup
<1>11. ASSUME NEW l \in Lookup, AnswerLookup(l) PROVE AccountInv'
  BY <1>11 DEF AnswerLookup
<1>12. ASSUME NEW l \in Lookup, LandLookup(l) PROVE AccountInv'
  <2>1. UNCHANGED <<ask, stored, shownUser, swapped, subject>> /\ l \in Looking /\ subject # "start" /\ stage # "left"
    BY <1>12 DEF LandLookup
  <2>2. stage \notin {"ready", "left"}
    BY <2>1 DEF LogoutInv
  <2>3. QED
    BY <2>1, <2>2
<1>13. ASSUME NEW l \in Lookup, LandExchange(l) PROVE AccountInv'
  BY <1>13 DEF LandExchange, AskWhoIAm, StartLookup
<1>14. ASSUME NEW l \in Lookup, StartWithoutCode(l) PROVE AccountInv'
  BY <1>14 DEF StartWithoutCode, AskWhoIAm, StartLookup
<1>15. ASSUME NEW l \in Lookup, LandWhoIAm(l) PROVE AccountInv'
  BY <1>15 DEF LandWhoIAm
<1>16. ASSUME NEW k \in {"yes", "no"}, Decide(k) PROVE AccountInv'
  BY <1>16 DEF Decide
<1>17. ASSUME NEW k \in {"yes", "no"}, AnswerDevice(k) PROVE AccountInv'
  BY <1>17 DEF AnswerDevice, Verdict
<1>18. ASSUME NEW k \in {"yes", "no"}, LandDevice(k) PROVE AccountInv'
  BY <1>18 DEF LandDevice, Verdict, DeviceInv
<1>19. ASSUME NEW k \in {"yes", "no"}, LandConsent(k) PROVE AccountInv'
  BY <1>19 DEF LandConsent
<1>20. ASSUME NEW l \in Lookup, StartWithToken(l) PROVE AccountInv'
  BY <1>20, DecisionAssumption DEF StartWithToken, StartLookup
<1>21. QED
  BY <1>1, <1>2, <1>3, <1>4, <1>5, <1>6, <1>7, <1>8, <1>9, <1>10, <1>11, <1>12, <1>13, <1>14, <1>15, <1>16, <1>17, <1>18,
     <1>19, <1>20 DEF DecisionsNext

LEMMA LogoutInvKept == DecisionInv /\ DecisionsNext => LogoutInv'
<1> SUFFICES ASSUME DecisionInv, DecisionsNext PROVE LogoutInv'
  OBVIOUS
<1> USE DEF DecisionInv, DecisionTypes, LogoutInv, DecisionsTypeOK, Looking, Asking, Maybe, Asked, Looked, NoLook, NoAsk, History, Accounts, Fixed
<1>1. ASSUME SwitchAccount PROVE LogoutInv'
  BY <1>1 DEF SwitchAccount
<1>2. ASSUME BackToInput PROVE LogoutInv'
  BY <1>2 DEF BackToInput
<1>3. ASSUME SentAway PROVE LogoutInv'
  BY <1>3 DEF SentAway
<1>4. ASSUME AnswerLogout PROVE LogoutInv'
  BY <1>4 DEF AnswerLogout
<1>5. ASSUME LandLogout PROVE LogoutInv'
  BY <1>5 DEF LandLogout
<1>6. ASSUME ExchangeCode PROVE LogoutInv'
  BY <1>6 DEF ExchangeCode
<1>7. ASSUME NEW c \in Thing, CodeChanges(c) PROVE LogoutInv'
  BY <1>7 DEF CodeChanges
<1>8. ASSUME NEW c \in Thing, TypeCode(c) PROVE LogoutInv'
  BY <1>8 DEF TypeCode
<1>9. ASSUME NEW l \in Lookup, NEW c \in Thing, OpenRequest(l, c) PROVE LogoutInv'
  BY <1>9, DecisionAssumption DEF OpenRequest, StartLookup
<1>10. ASSUME NEW l \in Lookup, LookUpCode(l) PROVE LogoutInv'
  BY <1>10, DecisionAssumption DEF LookUpCode, StartLookup
<1>11. ASSUME NEW l \in Lookup, AnswerLookup(l) PROVE LogoutInv'
  BY <1>11 DEF AnswerLookup
<1>12. ASSUME NEW l \in Lookup, LandLookup(l) PROVE LogoutInv'
  BY <1>12 DEF LandLookup
<1>13. ASSUME NEW l \in Lookup, LandExchange(l) PROVE LogoutInv'
  BY <1>13 DEF LandExchange, AskWhoIAm, StartLookup
<1>14. ASSUME NEW l \in Lookup, StartWithoutCode(l) PROVE LogoutInv'
  BY <1>14 DEF StartWithoutCode, AskWhoIAm, StartLookup
<1>15. ASSUME NEW l \in Lookup, LandWhoIAm(l) PROVE LogoutInv'
  BY <1>15 DEF LandWhoIAm
<1>16. ASSUME NEW k \in {"yes", "no"}, Decide(k) PROVE LogoutInv'
  BY <1>16 DEF Decide
<1>17. ASSUME NEW k \in {"yes", "no"}, AnswerDevice(k) PROVE LogoutInv'
  BY <1>17 DEF AnswerDevice, Verdict
<1>18. ASSUME NEW k \in {"yes", "no"}, LandDevice(k) PROVE LogoutInv'
  BY <1>18 DEF LandDevice, Verdict
<1>19. ASSUME NEW k \in {"yes", "no"}, LandConsent(k) PROVE LogoutInv'
  BY <1>19 DEF LandConsent
<1>20. ASSUME NEW l \in Lookup, StartWithToken(l) PROVE LogoutInv'
  BY <1>20, DecisionAssumption DEF StartWithToken, StartLookup
<1>21. QED
  BY <1>1, <1>2, <1>3, <1>4, <1>5, <1>6, <1>7, <1>8, <1>9, <1>10, <1>11, <1>12, <1>13, <1>14, <1>15, <1>16, <1>17, <1>18,
     <1>19, <1>20 DEF DecisionsNext

LEMMA StartInvKept == DecisionInv /\ DecisionsNext => StartInv'
<1> SUFFICES ASSUME DecisionInv, DecisionsNext PROVE StartInv'
  OBVIOUS
<1> USE DEF DecisionInv, DecisionTypes, StartInv, DecisionsTypeOK, Looking, Asking, Maybe, Asked, Looked, NoLook, NoAsk, History, Accounts, Fixed
<1>1. ASSUME SwitchAccount PROVE StartInv'
  BY <1>1 DEF SwitchAccount
<1>2. ASSUME BackToInput PROVE StartInv'
  BY <1>2 DEF BackToInput
<1>3. ASSUME SentAway PROVE StartInv'
  BY <1>3 DEF SentAway
<1>4. ASSUME AnswerLogout PROVE StartInv'
  BY <1>4 DEF AnswerLogout
<1>5. ASSUME LandLogout PROVE StartInv'
  BY <1>5 DEF LandLogout
<1>6. ASSUME ExchangeCode PROVE StartInv'
  BY <1>6 DEF ExchangeCode
<1>7. ASSUME NEW c \in Thing, CodeChanges(c) PROVE StartInv'
  BY <1>7 DEF CodeChanges
<1>8. ASSUME NEW c \in Thing, TypeCode(c) PROVE StartInv'
  BY <1>8 DEF TypeCode
<1>9. ASSUME NEW l \in Lookup, NEW c \in Thing, OpenRequest(l, c) PROVE StartInv'
  BY <1>9, DecisionAssumption DEF OpenRequest, StartLookup
<1>10. ASSUME NEW l \in Lookup, LookUpCode(l) PROVE StartInv'
  BY <1>10, DecisionAssumption DEF LookUpCode, StartLookup
<1>11. ASSUME NEW l \in Lookup, AnswerLookup(l) PROVE StartInv'
  BY <1>11 DEF AnswerLookup
<1>12. ASSUME NEW l \in Lookup, LandLookup(l) PROVE StartInv'
  BY <1>12 DEF LandLookup
<1>13. ASSUME NEW l \in Lookup, LandExchange(l) PROVE StartInv'
  <2>1. /\ ask' = [ask EXCEPT !["yes"] = NoAsk] /\ subject = "start" /\ "yes" \in Asking
        /\ UNCHANGED <<subject, swapped, entered>>
    BY <1>13 DEF LandExchange
  <2>2. stage = "processing" /\ Looking = {} /\ shownUser = NoThing /\ Asking \subseteq {"yes"}
    BY <2>1
  <2>3. Asking' = {}
    BY <2>1, <2>2
  <2>4. CASE stage' = "ready" /\ look' = look
    BY <2>1, <2>2, <2>3, <2>4
  <2>5. CASE stage' = "look" /\ look' = [look EXCEPT ![l] = [at |-> "sent", of |-> stored]] /\ stored' = stored
             /\ shownUser' = shownUser
    <3>1. \A m \in Looking' : m = l /\ look'[m].of = stored
      BY <2>2, <2>5
    <3>2. QED
      BY <2>1, <2>2, <2>3, <2>5, <3>1
  <2>6. QED
    BY <1>13, <2>4, <2>5 DEF LandExchange, AskWhoIAm, StartLookup
<1>14. ASSUME NEW l \in Lookup, StartWithoutCode(l) PROVE StartInv'
  BY <1>14 DEF StartWithoutCode, AskWhoIAm, StartLookup
<1>15. ASSUME NEW l \in Lookup, LandWhoIAm(l) PROVE StartInv'
  BY <1>15 DEF LandWhoIAm
<1>16. ASSUME NEW k \in {"yes", "no"}, Decide(k) PROVE StartInv'
  BY <1>16 DEF Decide
<1>17. ASSUME NEW k \in {"yes", "no"}, AnswerDevice(k) PROVE StartInv'
  BY <1>17 DEF AnswerDevice, Verdict
<1>18. ASSUME NEW k \in {"yes", "no"}, LandDevice(k) PROVE StartInv'
  BY <1>18 DEF LandDevice, Verdict
<1>19. ASSUME NEW k \in {"yes", "no"}, LandConsent(k) PROVE StartInv'
  BY <1>19 DEF LandConsent
<1>20. ASSUME NEW l \in Lookup, StartWithToken(l) PROVE StartInv'
  BY <1>20, DecisionAssumption DEF StartWithToken, StartLookup
<1>21. QED
  BY <1>1, <1>2, <1>3, <1>4, <1>5, <1>6, <1>7, <1>8, <1>9, <1>10, <1>11, <1>12, <1>13, <1>14, <1>15, <1>16, <1>17, <1>18,
     <1>19, <1>20 DEF DecisionsNext

LEMMA SaysKept == DecisionInv /\ DecisionsNext => SaysWhatItDid'
<1> SUFFICES ASSUME DecisionInv, DecisionsNext PROVE SaysWhatItDid'
  OBVIOUS
<1> USE DEF DecisionInv, DecisionTypes, DecisionsTypeOK, Looking, Asking, Maybe, Asked, Looked, NoLook, NoAsk, SaysWhatItDid, DeviceInv, Verdict, History, Accounts, Fixed
<1>1. ASSUME SwitchAccount PROVE SaysWhatItDid'
  BY <1>1 DEF SwitchAccount
<1>2. ASSUME BackToInput PROVE SaysWhatItDid'
  BY <1>2 DEF BackToInput
<1>3. ASSUME SentAway PROVE SaysWhatItDid'
  BY <1>3 DEF SentAway
<1>4. ASSUME AnswerLogout PROVE SaysWhatItDid'
  BY <1>4 DEF AnswerLogout
<1>5. ASSUME LandLogout PROVE SaysWhatItDid'
  BY <1>5 DEF LandLogout
<1>6. ASSUME ExchangeCode PROVE SaysWhatItDid'
  BY <1>6 DEF ExchangeCode
<1>7. ASSUME NEW c \in Thing, CodeChanges(c) PROVE SaysWhatItDid'
  BY <1>7 DEF CodeChanges
<1>8. ASSUME NEW c \in Thing, TypeCode(c) PROVE SaysWhatItDid'
  BY <1>8 DEF TypeCode
<1>9. ASSUME NEW l \in Lookup, NEW c \in Thing, OpenRequest(l, c) PROVE SaysWhatItDid'
  BY <1>9 DEF OpenRequest
<1>10. ASSUME NEW l \in Lookup, LookUpCode(l) PROVE SaysWhatItDid'
  BY <1>10 DEF LookUpCode
<1>11. ASSUME NEW l \in Lookup, AnswerLookup(l) PROVE SaysWhatItDid'
  BY <1>11 DEF AnswerLookup
<1>12. ASSUME NEW l \in Lookup, LandLookup(l) PROVE SaysWhatItDid'
  BY <1>12 DEF LandLookup
<1>13. ASSUME NEW l \in Lookup, LandExchange(l) PROVE SaysWhatItDid'
  BY <1>13 DEF LandExchange, AskWhoIAm, StartLookup
<1>14. ASSUME NEW l \in Lookup, StartWithoutCode(l) PROVE SaysWhatItDid'
  BY <1>14 DEF StartWithoutCode, AskWhoIAm, StartLookup
<1>15. ASSUME NEW l \in Lookup, LandWhoIAm(l) PROVE SaysWhatItDid'
  BY <1>15 DEF LandWhoIAm
<1>16. ASSUME NEW k \in {"yes", "no"}, Decide(k) PROVE SaysWhatItDid'
  BY <1>16 DEF Decide
<1>17. ASSUME NEW k \in {"yes", "no"}, AnswerDevice(k) PROVE SaysWhatItDid'
  BY <1>17 DEF AnswerDevice
<1>18. ASSUME NEW k \in {"yes", "no"}, LandDevice(k) PROVE SaysWhatItDid'
  BY <1>18 DEF LandDevice
<1>19. ASSUME NEW k \in {"yes", "no"}, LandConsent(k) PROVE SaysWhatItDid'
  BY <1>19 DEF LandConsent
<1>20. ASSUME NEW l \in Lookup, StartWithToken(l) PROVE SaysWhatItDid'
  BY <1>20, DecisionAssumption DEF StartWithToken, StartLookup
<1>21. QED
  BY <1>1, <1>2, <1>3, <1>4, <1>5, <1>6, <1>7, <1>8, <1>9, <1>10, <1>11, <1>12, <1>13, <1>14, <1>15, <1>16, <1>17, <1>18,
     <1>19, <1>20 DEF DecisionsNext

LEMMA SignedOutKept == DecisionInv /\ DecisionsNext => SignedOutEverywhere'
<1> SUFFICES ASSUME DecisionInv, DecisionsNext PROVE SignedOutEverywhere'
  OBVIOUS
<1> USE DEF DecisionInv, DecisionTypes, DecisionsTypeOK, Looking, Asking, Maybe, Asked, Looked, NoLook, NoAsk, SignedOutEverywhere, LogoutInv, AccountInv, Verdict, History, Accounts, Fixed
<1>1. ASSUME SwitchAccount PROVE SignedOutEverywhere'
  BY <1>1 DEF SwitchAccount
<1>2. ASSUME BackToInput PROVE SignedOutEverywhere'
  BY <1>2 DEF BackToInput
<1>3. ASSUME SentAway PROVE SignedOutEverywhere'
  BY <1>3 DEF SentAway
<1>4. ASSUME AnswerLogout PROVE SignedOutEverywhere'
  BY <1>4 DEF AnswerLogout
<1>5. ASSUME LandLogout PROVE SignedOutEverywhere'
  <2>1. UNCHANGED <<subject, shownUser, swapped, sso>> /\ subject = "logout" /\ "yes" \in Asking
        /\ IF ask["yes"].at = "refused" THEN stage' = "confirm" ELSE stage' = "ready" /\ stored' = NoThing
        /\ unsure' = (unsure \/ ask["yes"].at = "lost") /\ ask["yes"].at \in {"ok", "refused", "lost"}
    BY <1>5 DEF LandLogout
  <2>2. /\ ask["yes"].seen = shownUser /\ (ask["yes"].as = ask["yes"].seen \/ swapped)
        /\ (ask["yes"].at = "ok" => ask["yes"].as \notin sso \/ swapped)
    BY <2>1
  <2>3. QED
    BY <2>1, <2>2
<1>6. ASSUME ExchangeCode PROVE SignedOutEverywhere'
  BY <1>6 DEF ExchangeCode
<1>7. ASSUME NEW c \in Thing, CodeChanges(c) PROVE SignedOutEverywhere'
  BY <1>7 DEF CodeChanges
<1>8. ASSUME NEW c \in Thing, TypeCode(c) PROVE SignedOutEverywhere'
  BY <1>8 DEF TypeCode
<1>9. ASSUME NEW l \in Lookup, NEW c \in Thing, OpenRequest(l, c) PROVE SignedOutEverywhere'
  BY <1>9 DEF OpenRequest
<1>10. ASSUME NEW l \in Lookup, LookUpCode(l) PROVE SignedOutEverywhere'
  BY <1>10 DEF LookUpCode
<1>11. ASSUME NEW l \in Lookup, AnswerLookup(l) PROVE SignedOutEverywhere'
  BY <1>11 DEF AnswerLookup
<1>12. ASSUME NEW l \in Lookup, LandLookup(l) PROVE SignedOutEverywhere'
  BY <1>12 DEF LandLookup
<1>13. ASSUME NEW l \in Lookup, LandExchange(l) PROVE SignedOutEverywhere'
  BY <1>13 DEF LandExchange, AskWhoIAm, StartLookup
<1>14. ASSUME NEW l \in Lookup, StartWithoutCode(l) PROVE SignedOutEverywhere'
  BY <1>14 DEF StartWithoutCode, AskWhoIAm, StartLookup
<1>15. ASSUME NEW l \in Lookup, LandWhoIAm(l) PROVE SignedOutEverywhere'
  BY <1>15 DEF LandWhoIAm
<1>16. ASSUME NEW k \in {"yes", "no"}, Decide(k) PROVE SignedOutEverywhere'
  BY <1>16 DEF Decide
<1>17. ASSUME NEW k \in {"yes", "no"}, AnswerDevice(k) PROVE SignedOutEverywhere'
  BY <1>17 DEF AnswerDevice
<1>18. ASSUME NEW k \in {"yes", "no"}, LandDevice(k) PROVE SignedOutEverywhere'
  BY <1>18 DEF LandDevice
<1>19. ASSUME NEW k \in {"yes", "no"}, LandConsent(k) PROVE SignedOutEverywhere'
  BY <1>19 DEF LandConsent
<1>20. ASSUME NEW l \in Lookup, StartWithToken(l) PROVE SignedOutEverywhere'
  BY <1>20, DecisionAssumption DEF StartWithToken, StartLookup
<1>21. QED
  BY <1>1, <1>2, <1>3, <1>4, <1>5, <1>6, <1>7, <1>8, <1>9, <1>10, <1>11, <1>12, <1>13, <1>14, <1>15, <1>16, <1>17, <1>18,
     <1>19, <1>20 DEF DecisionsNext

LEMMA StartsKept == DecisionInv /\ DecisionsNext => StartsAsStored'
<1> SUFFICES ASSUME DecisionInv, DecisionsNext PROVE StartsAsStored'
  OBVIOUS
<1> USE DEF DecisionInv, DecisionTypes, DecisionsTypeOK, Looking, Asking, Maybe, Asked, Looked, NoLook, NoAsk, StartsAsStored, StartInv, Verdict, History, Accounts, Fixed
<1>1. ASSUME SwitchAccount PROVE StartsAsStored'
  BY <1>1 DEF SwitchAccount
<1>2. ASSUME BackToInput PROVE StartsAsStored'
  BY <1>2 DEF BackToInput
<1>3. ASSUME SentAway PROVE StartsAsStored'
  BY <1>3 DEF SentAway
<1>4. ASSUME AnswerLogout PROVE StartsAsStored'
  BY <1>4 DEF AnswerLogout
<1>5. ASSUME LandLogout PROVE StartsAsStored'
  BY <1>5 DEF LandLogout
<1>6. ASSUME ExchangeCode PROVE StartsAsStored'
  BY <1>6 DEF ExchangeCode
<1>7. ASSUME NEW c \in Thing, CodeChanges(c) PROVE StartsAsStored'
  BY <1>7 DEF CodeChanges
<1>8. ASSUME NEW c \in Thing, TypeCode(c) PROVE StartsAsStored'
  BY <1>8 DEF TypeCode
<1>9. ASSUME NEW l \in Lookup, NEW c \in Thing, OpenRequest(l, c) PROVE StartsAsStored'
  BY <1>9 DEF OpenRequest
<1>10. ASSUME NEW l \in Lookup, LookUpCode(l) PROVE StartsAsStored'
  BY <1>10 DEF LookUpCode
<1>11. ASSUME NEW l \in Lookup, AnswerLookup(l) PROVE StartsAsStored'
  BY <1>11 DEF AnswerLookup
<1>12. ASSUME NEW l \in Lookup, LandLookup(l) PROVE StartsAsStored'
  BY <1>12 DEF LandLookup
<1>13. ASSUME NEW l \in Lookup, LandExchange(l) PROVE StartsAsStored'
  BY <1>13 DEF LandExchange, AskWhoIAm, StartLookup
<1>14. ASSUME NEW l \in Lookup, StartWithoutCode(l) PROVE StartsAsStored'
  BY <1>14 DEF StartWithoutCode, AskWhoIAm, StartLookup
<1>15. ASSUME NEW l \in Lookup, LandWhoIAm(l) PROVE StartsAsStored'
  BY <1>15 DEF LandWhoIAm
<1>16. ASSUME NEW k \in {"yes", "no"}, Decide(k) PROVE StartsAsStored'
  BY <1>16 DEF Decide
<1>17. ASSUME NEW k \in {"yes", "no"}, AnswerDevice(k) PROVE StartsAsStored'
  BY <1>17 DEF AnswerDevice
<1>18. ASSUME NEW k \in {"yes", "no"}, LandDevice(k) PROVE StartsAsStored'
  BY <1>18 DEF LandDevice
<1>19. ASSUME NEW k \in {"yes", "no"}, LandConsent(k) PROVE StartsAsStored'
  BY <1>19 DEF LandConsent
<1>20. ASSUME NEW l \in Lookup, StartWithToken(l) PROVE StartsAsStored'
  BY <1>20, DecisionAssumption DEF StartWithToken, StartLookup
<1>21. QED
  BY <1>1, <1>2, <1>3, <1>4, <1>5, <1>6, <1>7, <1>8, <1>9, <1>10, <1>11, <1>12, <1>13, <1>14, <1>15, <1>16, <1>17, <1>18,
     <1>19, <1>20 DEF DecisionsNext

(* The inductive invariant of a page that decides: it holds at the start, *)
LEMMA DecisionsStart == DecisionsInit => DecisionInv
<1> SUFFICES ASSUME DecisionsInit PROVE DecisionInv
  OBVIOUS
<1> USE DEF DecisionsInit, Maybe, Looking, Asking, NoLook, NoAsk
<1>1. <<subject, host>> \in Subjects
  <2>1. \A s \in Subjects : s = <<s[1], s[2]>>
    BY DecisionAssumption
  <2>2. QED
    BY <2>1
<1>2. stored \in Maybe /\ shownUser \in Maybe /\ entered \in Maybe
  <2>1. CASE subject = "start"
    BY <2>1
  <2>2. CASE subject # "start"
    BY <2>2
  <2>3. QED
    BY <2>1, <2>2
<1>3. Looking = {} /\ Asking = {} /\ ask \in [{"yes", "no"} -> Asked]
  BY DEF Asked
<1>4. DecisionTypes
  BY <1>1, <1>2, <1>3 DEF DecisionTypes, DecisionsTypeOK, Asked
<1>5. DeviceInv /\ ConsentInv /\ AccountInv /\ LogoutInv /\ StartInv
  BY <1>3 DEF DeviceInv, ConsentInv, AccountInv, LogoutInv, StartInv
<1>6. SaysWhatItDid /\ SignedOutEverywhere /\ StartsAsStored
  BY DEF SaysWhatItDid, SignedOutEverywhere, StartsAsStored
<1>7. QED
  BY <1>4, <1>5, <1>6 DEF DecisionInv

(* every step of every actor keeps it,                                                    *)
LEMMA DecisionStepKeeps == DecisionInv /\ [DecisionsNext]_decisionVars => DecisionInv'
<1> SUFFICES ASSUME DecisionInv, [DecisionsNext]_decisionVars PROVE DecisionInv'
  OBVIOUS
<1>1. CASE DecisionsNext
  BY <1>1, DecisionTypesKept, DeviceInvKept, ConsentInvKept, AccountInvKept, LogoutInvKept, StartInvKept,
     SaysKept, SignedOutKept, StartsKept DEF DecisionInv
<1>2. CASE UNCHANGED decisionVars
  BY <1>2 DEF decisionVars, DecisionInv, DecisionTypes, DecisionsTypeOK, DeviceInv, ConsentInv, AccountInv, LogoutInv,
              StartInv, SaysWhatItDid, SignedOutEverywhere, StartsAsStored, Looking, Asking
<1>3. QED
  BY <1>1, <1>2

(* and what the runs check of the component follows from it.                              *)
LEMMA DecisionInvHolds == DecisionInv => DecisionsTypeOK /\ DecisionsHold
<1> SUFFICES ASSUME DecisionInv PROVE DecisionsTypeOK /\ DecisionsHold
  OBVIOUS
<1>1. DecidesAsShown
  <2>1. subject \in {"device", "consent", "logout", "start"}
    BY DecisionAssumption DEF DecisionInv, DecisionTypes, DecisionsTypeOK
  <2>2. QED
    BY <2>1 DEF DecidesAsShown, DecisionInv, DeviceInv, ConsentInv, AccountInv
<1>2. QED
  BY <1>1 DEF DecisionInv, DecisionTypes, DecisionsHold

--------------------------------------------------------------------------------
(* The composition: a step of one component leaves the variables of the others alone.       *)

ConsoleInv == part \in Part /\ AlertInv /\ PagesInv /\ AccountPagesInv /\ SignInInv /\ RpInv /\ DecisionInv

LEMMA ConsoleStart == ConsoleInit => ConsoleInv
BY AlertsStart, PagesStart, AccountPagesStart, SignInStart, RpStart, DecisionsStart DEF ConsoleInit, ConsoleInv

LEMMA ConsoleSteps ==
  [ConsoleNext]_consoleVars =>
    /\ [AlertNext]_alertVars /\ [PagesNext]_pageVars /\ [AccountPagesNext]_accountPageVars
    /\ [SignInNext]_signInVars /\ [RpNext]_rpVars /\ [DecisionsNext]_decisionVars
<1> SUFFICES ASSUME [ConsoleNext]_consoleVars
             PROVE  /\ AlertNext \/ UNCHANGED alertVars
                    /\ PagesNext \/ UNCHANGED pageVars
                    /\ AccountPagesNext \/ UNCHANGED accountPageVars
                    /\ SignInNext \/ UNCHANGED signInVars
                    /\ RpNext \/ UNCHANGED rpVars
                    /\ DecisionsNext \/ UNCHANGED decisionVars
  OBVIOUS
<1>1. CASE UNCHANGED consoleVars
  BY <1>1 DEF consoleVars
<1>2. CASE ConsoleNext
  BY <1>2 DEF ConsoleNext, Only
<1>3. QED
  BY <1>1, <1>2

(* Every behaviour of the pages keeps the invariants of all of them.                         *)
THEOREM ConsoleInvariant == ConsoleSpec => []ConsoleInv
<1>1. part \in Part /\ [ConsoleNext]_consoleVars => (part \in Part)'
  BY DEF ConsoleNext, consoleVars, Only
<1>2. ConsoleInv /\ [ConsoleNext]_consoleVars => ConsoleInv'
  BY <1>1, ConsoleSteps, AlertStepKeeps, PagesStepKeeps, AccountPagesStepKeeps, SignInStepKeeps, RpStepKeeps,
     DecisionStepKeeps DEF ConsoleInv
<1>3. QED
  BY ConsoleStart, <1>2, PTL DEF ConsoleSpec

(* The pages keep, and ask of the server, only what has its type.                            *)
THEOREM ConsoleTypesCorrect == ConsoleSpec => []ConsoleTypeOK
<1>1. ConsoleInv => /\ part \in Part /\ AlertTypeOK /\ PagesTypeOK /\ AccountPagesTypeOK
                    /\ SignInTypeOK /\ RpTypeOK /\ DecisionsTypeOK
  BY AlertInvHolds, PagesInvHolds, AccountPagesInvHolds, SignInInvHolds, RpInvHolds, DecisionInvHolds
     DEF ConsoleInv
<1>2. ConsoleInv => ConsoleTypeOK
  BY <1>1 DEF Part, ConsoleTypeOK
<1>3. QED
  BY ConsoleInvariant, <1>2, PTL

(* What a page of the console shows at rest is what the tables hold, and a user decides      *)
(* about what a page shows.                                                                   *)
THEOREM ConsoleHoldsTheorem == ConsoleSpec => []ConsoleHolds
<1>1. ConsoleInv => ConsoleHolds
  BY AlertInvHolds, PagesInvHolds, AccountPagesInvHolds, DecisionInvHolds DEF ConsoleInv, ConsoleHolds
<1>2. QED
  BY ConsoleInvariant, <1>1, PTL

(* Signing in leaves one account in the browser, and the tab shows what its last answer said. *)
THEOREM BrowserHoldsTheorem == ConsoleSpec => []BrowserHolds
<1>1. ConsoleInv => BrowserHolds
  BY SignInInvHolds, RpInvHolds DEF ConsoleInv, BrowserHolds
<1>2. QED
  BY ConsoleInvariant, <1>1, PTL
================================================================================
