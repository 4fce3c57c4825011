--------------------------- MODULE PlatformProofs ---------------------------
(* Proofs about three components of the server that have no users: the audit log, the   *)
(* feature flags, and the pool the scheduler's jobs draw on.                             *)
EXTENDS AuditChain, MCPlatform, TLAPS, WellFoundedInduction, FiniteSetTheorems, SequenceTheorems

-----------------------------------------------------------------------------
(* The audit log.                                                                       *)

(* The transactions exclude each other, so what a writer read is still the newest  *)
(* row when it commits (unless a purge or a tamperer removed that row).             *)
LockInv ==
  /\ \A v, w \in Writer : pc[v] # "idle" /\ pc[w] # "idle" => v = w
  /\ \A w \in Writer : pc[w] \in {"insert", "commit"} =>
                         /\ last[w] <= serial /\ \A r \in Kept : r <= last[w]
                         /\ last[w] \in Kept => lastHash[w] <= log[last[w]].hash
  /\ \A w \in Writer : pc[w] = "commit" => mine[w] = serial /\ last[w] < serial

(* Each row names the newest of the rows that were there when it came, unless it was  *)
(* linked anew, and a version of its hash that is no newer than the one it has now.     *)
SaneRow(s) == /\ s <= serial
              /\ log[s].prev < s
              /\ log[s].hash = 0 => log[s].said = log[s].prev + 1
              /\ log[s].hash <= log[s].text
Ordered(r, s) == r < s => r <= log[s].prev \/ (log[s].prev = 0 /\ log[s].hash > 0)
Linked(r, s) == log[s].prev = r => log[s].link <= log[r].hash
RowInv == /\ \A s \in Kept : SaneRow(s)
          /\ \A r, s \in Kept : Ordered(r, s) /\ Linked(r, s)

(* A hash recomputed while a newer row was there: no row of the next seq is still to     *)
(* come, and the one there is names an older hash, unless its own was recomputed.         *)
LateInv ==
  /\ \A s \in SeqNo : log[s].late =>
       s < serial /\ \A w \in Writer : pc[w] = "commit" => s + 1 < serial
  /\ \A s, r \in Kept : log[s].late /\ r = s + 1 /\ log[r].hash = 0 /\ log[r].prev = s =>
                          log[r].link < log[s].hash

(* A log that nothing disturbed has every row up to the sequence's value, but for   *)
(* the one whose transaction is about to commit.                                    *)
CleanRow(s) == /\ log[s].st = "kept" /\ log[s].said = s /\ log[s].prev = s - 1
               /\ log[s].text = 0 /\ log[s].hash = 0 /\ log[s].link = 0
CleanInv == faults = {} =>
  /\ \A s \in Kept : CleanRow(s) /\ (s > 1 => s - 1 \in Kept)
  /\ \A s \in SeqNo : s < serial => s \in Kept
  /\ \A w \in Writer : pc[w] = "commit" => last[w] = serial - 1
  /\ \A w \in Writer : pc[w] = "insert" => last[w] = serial
  /\ \A w \in Writer : pc[w] \in {"insert", "commit"} => lastHash[w] = 0
  /\ (\A w \in Writer : pc[w] # "commit") => \A s \in SeqNo : s <= serial => s \in Kept

AuditInv == TypeOK /\ LockInv /\ RowInv /\ LateInv /\ CleanInv

--------------------------------------------------------------------------------
(* Every nonempty set of rows has an oldest and a newest one.                       *)
LEMMA Least == ASSUME NEW S, S \subseteq Nat, S # {}
               PROVE  \E m \in S : \A r \in S : m <= r
<1>1. PICK m \in S : \A r \in S : ~(<<r, m>> \in OpToRel(<, Nat))
  BY NatLessThanWellFounded, WFMin
<1>2. \A r \in S : ~(r < m)
  BY <1>1 DEF OpToRel
<1>3. QED
  BY <1>2

LEMMA Greatest == ASSUME NEW S, S \subseteq SeqNo, S # {}
                  PROVE  \E m \in S : \A r \in S : r <= m
<1> DEFINE T == {MaxSeq - s : s \in S}
<1>1. T \subseteq Nat /\ T # {}
  <2>1. \A s \in S : MaxSeq - s \in Nat
    BY MaxAssumption DEF SeqNo
  <2>2. \E s \in S : MaxSeq - s \in T
    OBVIOUS
  <2>3. QED
    BY <2>1, <2>2
<1>2. PICK t \in T : \A u \in T : t <= u
  <2> HIDE DEF T
  <2> QED
    BY <1>1, Least
<1>3. PICK m \in S : t = MaxSeq - m
  BY <1>2
<1>4. \A r \in S : MaxSeq - m <= MaxSeq - r
  BY <1>2, <1>3
<1>5. QED
  BY <1>4, MaxAssumption DEF SeqNo

(* What logAudit's SELECT returns.                                                  *)
LEMMA NewestIsNewest == /\ Newest \in 0 .. MaxSeq
                        /\ Kept = {} => Newest = 0
                        /\ Kept # {} => Newest \in Kept
                        /\ \A r \in Kept : r <= Newest
<1>1. CASE Kept = {}
  BY <1>1, MaxAssumption DEF Newest
<1>2. CASE Kept # {}
  <2>1. \E s \in Kept : \A r \in Kept : r <= s
    BY <1>2, Greatest DEF Kept
  <2>2. Newest \in Kept /\ \A r \in Kept : r <= Newest
    BY <1>2, <2>1 DEF Newest
  <2>3. QED
    BY <1>2, <2>2, MaxAssumption DEF Kept, SeqNo
<1>3. QED
  BY <1>1, <1>2

--------------------------------------------------------------------------------
(* The steps.                                                                       *)
LEMMA InitHolds == Init => AuditInv
<1> SUFFICES ASSUME Init PROVE AuditInv
  OBVIOUS
<1> USE MaxAssumption
<1>6. PICK t \in Tenant : log = [s \in SeqNo |-> [NewRow(t, 0, 0) EXCEPT !.st = "none"]]
  BY DEF Init
<1>7. [NewRow(t, 0, 0) EXCEPT !.st = "none"] \in Row
  <2>1. NewRow(t, 0, 0) \in Row
    BY DEF NewRow, Row
  <2>2. QED
    BY <2>1 DEF Row
<1>1. TypeOK
  BY <1>6, <1>7 DEF Init, TypeOK, SeqNo
<1>2. Kept = {}
  BY DEF Init, Kept
<1>3. \A s \in SeqNo : ~log[s].late
  BY DEF Init, NewRow
<1>5. LockInv /\ RowInv /\ LateInv /\ CleanInv
  BY <1>2, <1>3 DEF Init, LockInv, RowInv, SaneRow, Ordered, Linked, LateInv, CleanInv, SeqNo
<1>4. QED
  BY <1>1, <1>5 DEF AuditInv

LEMMA BeginKeeps == ASSUME AuditInv, NEW w \in Writer, Begin(w) PROVE AuditInv'
<1> USE DEF AuditInv
<1>1. Kept' = Kept
  BY DEF Begin, Kept
<1>2. TypeOK'
  BY DEF Begin, GoTo, TypeOK
<1>3. LockInv'
  BY <1>1 DEF Begin, GoTo, TypeOK, LockInv
<1>4. RowInv' /\ LateInv' /\ CleanInv'
  BY <1>1 DEF Begin, GoTo, TypeOK, RowInv, SaneRow, Ordered, Linked, LateInv, CleanInv, CleanRow
<1>5. QED
  BY <1>2, <1>3, <1>4

LEMMA ReadLastKeeps == ASSUME AuditInv, NEW w \in Writer, ReadLast(w) PROVE AuditInv'
<1> USE DEF AuditInv
<1>1. Kept' = Kept
  BY DEF ReadLast, Kept
<1>2. Newest <= serial
  BY NewestIsNewest DEF RowInv, SaneRow, Ordered, Linked, TypeOK
<1> DEFINE h == IF Newest \in Kept THEN log[Newest].hash ELSE 0
<1>9. h \in Nat /\ (Newest \in Kept => h <= log[Newest].hash) /\ lastHash' = [lastHash EXCEPT ![w] = h]
  BY DEF ReadLast, TypeOK, Row, Kept
<1> HIDE DEF h
<1>3. TypeOK'
  BY NewestIsNewest, <1>9 DEF ReadLast, GoTo, TypeOK
<1>4. LockInv'
  BY <1>1, <1>2, <1>9, NewestIsNewest DEF ReadLast, GoTo, TypeOK, LockInv
<1>5. RowInv' /\ LateInv'
  BY <1>1 DEF ReadLast, GoTo, TypeOK, RowInv, SaneRow, Ordered, Linked, LateInv
<1>6. faults = {} => Newest = serial
  <2> SUFFICES ASSUME faults = {} PROVE Newest = serial
    OBVIOUS
  <2>1. \A v \in Writer : pc[v] # "commit"
    BY DEF ReadLast, LockInv
  <2>2. \A s \in SeqNo : s <= serial => s \in Kept
    BY <2>1 DEF CleanInv
  <2>3. serial > 0 => serial \in Kept
    BY <2>2, MaxAssumption DEF TypeOK, SeqNo
  <2>4. QED
    BY <2>3, <1>2, NewestIsNewest, MaxAssumption DEF TypeOK
<1>10. faults = {} => h = 0
  BY DEF h, CleanInv, CleanRow
<1>7. CleanInv'
  BY <1>1, <1>6, <1>9, <1>10 DEF ReadLast, GoTo, TypeOK, CleanInv, CleanRow
<1>8. QED
  BY <1>3, <1>4, <1>5, <1>7

LEMMA InsertKeeps == ASSUME AuditInv, NEW w \in Writer, Insert(w) PROVE AuditInv'
<1> USE DEF AuditInv
<1>1. Kept' = Kept
  BY DEF Insert, Kept
<1>2. TypeOK'
  BY MaxAssumption DEF Insert, GoTo, TypeOK
<1>3. LockInv'
  BY <1>1, MaxAssumption DEF Insert, GoTo, TypeOK, LockInv
<1>4. RowInv'
  BY <1>1, MaxAssumption DEF Insert, TypeOK, RowInv, SaneRow, Ordered, Linked, Kept, Row, SeqNo
<1>7. LateInv'
  BY <1>1, MaxAssumption DEF Insert, TypeOK, LateInv, SeqNo
<1>5. CleanInv'
  <2> SUFFICES ASSUME faults = {} PROVE CleanInv'
    BY DEF Insert, CleanInv
  <2>1. \A v \in Writer : pc[v] # "commit"
    BY DEF Insert, LockInv
  <2>2. \A s \in SeqNo : s < serial' => s \in Kept'
    BY <1>1, <2>1, MaxAssumption DEF Insert, CleanInv, TypeOK, SeqNo
  <2>3. pc'[w] = "commit" /\ last'[w] = serial' - 1 /\ lastHash'[w] = 0
    BY MaxAssumption DEF Insert, GoTo, CleanInv, TypeOK
  <2>4. \A v \in Writer : pc'[v] = "insert" => FALSE
    BY DEF Insert, GoTo, TypeOK, LockInv
  <2>5. \A v \in Writer : pc'[v] = "commit" => v = w
    BY <2>1 DEF Insert, GoTo, TypeOK
  <2>6. \A s \in Kept' : CleanRow(s)' /\ (s > 1 => s - 1 \in Kept')
    BY <1>1 DEF Insert, CleanInv, CleanRow
  <2>7. QED
    BY <2>2, <2>3, <2>4, <2>5, <2>6 DEF CleanInv
<1>6. QED
  BY <1>2, <1>3, <1>4, <1>5, <1>7

LEMMA CommitKeeps == ASSUME AuditInv, NEW w \in Writer, Commit(w) PROVE AuditInv'
<1> USE DEF AuditInv
<1> PICK m : m = mine[w]
  OBVIOUS
<1>1. /\ pc[w] = "commit" /\ m = serial /\ last[w] < m
      /\ last[w] \in Nat /\ m \in SeqNo
      /\ \A r \in Kept : r <= last[w]
  BY MaxAssumption DEF Commit, LockInv, TypeOK, SeqNo
<1>2. PICK t \in Tenant :
        log' = [log EXCEPT ![m] = NewRow(t, last[w], lastHash[w])]
  BY DEF Commit
<1>3. /\ log'[m].st = "kept" /\ log'[m].text = 0 /\ log'[m].hash = 0 /\ ~log'[m].late
      /\ log'[m].said = last[w] + 1 /\ log'[m].prev = last[w] /\ log'[m].link = lastHash[w]
  BY <1>1, <1>2 DEF TypeOK, NewRow
<1>4. \A s \in SeqNo \ {m} : log'[s] = log[s]
  BY <1>1, <1>2 DEF TypeOK
<1>5. Kept' = Kept \cup {m}
  BY <1>1, <1>3, <1>4 DEF Kept
<1>6. Kept \subseteq SeqNo \ {m}
  BY <1>1 DEF Kept, SeqNo
<1>7. TypeOK'
  <2>1. log' \in [SeqNo -> Row]
    BY <1>1, <1>2 DEF TypeOK, Row, NewRow
  <2>2. QED
    BY <2>1, MaxAssumption DEF Commit, EndTransaction, GoTo, TypeOK
<1>8. \A v \in Writer : pc'[v] = "idle"
  BY <1>1 DEF Commit, EndTransaction, GoTo, TypeOK, LockInv
<1>9. LockInv'
  BY <1>8 DEF LockInv
<1>15. /\ \A s \in Kept : s # m /\ s \in SeqNo /\ log'[s] = log[s]
       /\ \A s \in Kept' : s = m \/ s \in Kept
  BY <1>4, <1>5, <1>6
<1>10. RowInv'
  <2>1. ASSUME NEW s \in Kept' PROVE SaneRow(s)'
    <3>1. CASE s = m
      BY <3>1, <1>1, <1>3 DEF SaneRow, Commit, TypeOK, SeqNo
    <3>2. CASE s # m
      BY <3>2, <1>15 DEF SaneRow, Commit, RowInv
    <3>3. QED
      BY <3>1, <3>2
  <2>2. ASSUME NEW r \in Kept', NEW s \in Kept' PROVE Ordered(r, s)'
    <3>1. CASE s = m /\ r # m
      BY <3>1, <1>1, <1>3, <1>15 DEF Ordered
    <3>2. CASE s = m /\ r = m
      BY <3>2, <1>1 DEF Ordered, SeqNo
    <3>3. CASE s # m /\ r # m
      BY <3>3, <1>15 DEF Ordered, RowInv
    <3>4. CASE s # m /\ r = m
      BY <3>4, <1>1, <1>15 DEF Ordered, SeqNo
    <3>5. QED
      BY <3>1, <3>2, <3>3, <3>4
  <2>3. ASSUME NEW r \in Kept', NEW s \in Kept' PROVE Linked(r, s)'
    <3>1. CASE s = m /\ r # m
      BY <3>1, <1>1, <1>3, <1>15 DEF Linked, LockInv
    <3>2. CASE r = m
      <4>1. log'[s].prev < s /\ s <= m
        BY <2>1, <1>1 DEF SaneRow, Commit
      <4>2. s \in Nat /\ log'[s].prev \in Nat
        <5>1. s \in SeqNo /\ s \in Nat
          BY <1>15, <1>1 DEF SeqNo
        <5>2. log'[s] \in Row
          BY <5>1, <1>7 DEF TypeOK
        <5>3. QED
          BY <5>1, <5>2 DEF Row
      <4>3. log'[s].prev # m
        BY <4>1, <4>2, <1>1 DEF SeqNo
      <4>4. QED
        BY <3>2, <4>3 DEF Linked
    <3>3. CASE s # m /\ r # m
      BY <3>3, <1>15 DEF Linked, RowInv
    <3>4. QED
      BY <3>1, <3>2, <3>3
  <2>4. QED
    BY <2>1, <2>2, <2>3 DEF RowInv
<1>13. LateInv'
  <2>1. \A s \in SeqNo : log'[s].late => s # m /\ log[s].late
    BY <1>3, <1>4
  <2>2. \A s \in SeqNo : log'[s].late => s + 1 < serial /\ s < serial
    BY <2>1, <1>1 DEF LateInv
  <2>3. \A s \in SeqNo : log'[s].late => s < serial' /\ \A v \in Writer : pc'[v] # "commit"
    BY <2>2, <1>8 DEF Commit
  <2>4. \A s, r \in Kept' : log'[s].late /\ r = s + 1 => s \in Kept /\ r \in Kept /\ log'[s] = log[s] /\ log'[r] = log[r]
    BY <2>1, <2>2, <1>1, <1>4, <1>5, <1>6 DEF SeqNo
  <2>5. QED
    BY <2>3, <2>4 DEF LateInv
<1>11. CleanInv'
  <2> SUFFICES ASSUME faults = {} PROVE CleanInv'
    BY DEF Commit, CleanInv
  <2>1. last[w] = m - 1 /\ lastHash[w] = 0 /\ \A s \in SeqNo : s < m => s \in Kept
    BY <1>1 DEF CleanInv
  <2>2. CleanRow(m)'
    <3>1. m \in Int /\ last[w] + 1 = m
      BY <2>1, <1>1 DEF SeqNo
    <3>2. QED
      BY <2>1, <3>1, <1>3 DEF CleanRow
  <2>3. \A s \in Kept : CleanRow(s)'
    BY <1>4, <1>6 DEF CleanInv, CleanRow
  <2>4. \A s \in Kept' : s > 1 => s - 1 \in Kept'
    BY <2>1, <1>1, <1>5, <1>6, MaxAssumption DEF CleanInv, SeqNo
  <2>5. \A s \in SeqNo : s <= serial' => s \in Kept'
    BY <2>1, <1>1, <1>5 DEF Commit, SeqNo
  <2>6. \A s \in SeqNo : s < serial' => s \in Kept'
    BY <2>5, <1>1 DEF Commit, SeqNo
  <2>7. QED
    BY <2>2, <2>3, <2>4, <2>5, <2>6, <1>5, <1>8 DEF CleanInv
<1>12. QED
  BY <1>7, <1>9, <1>10, <1>11, <1>13

LEMMA RollbackKeeps == ASSUME AuditInv, NEW w \in Writer, Rollback(w) PROVE AuditInv'
<1> USE DEF AuditInv
<1>1. Kept' = Kept
  BY DEF Rollback, Kept
<1>2. TypeOK'
  BY MaxAssumption DEF Rollback, EndTransaction, GoTo, TypeOK
<1>3. \A v \in Writer : pc'[v] = "idle"
  BY DEF Rollback, EndTransaction, GoTo, TypeOK, LockInv
<1>4. LockInv'
  BY <1>3 DEF LockInv
<1>5. RowInv' /\ LateInv'
  BY <1>1, <1>3 DEF Rollback, RowInv, SaneRow, Ordered, Linked, LateInv
<1>6. CleanInv'
  <2> SUFFICES ASSUME faults' = {} PROVE CleanInv'
    BY DEF CleanInv
  <2>1. faults = {} /\ pc[w] # "commit"
    BY DEF Rollback
  <2>2. \A v \in Writer : pc[v] # "commit"
    BY <2>1 DEF Rollback, LockInv
  <2>3. QED
    BY <1>1, <1>3, <2>1, <2>2 DEF Rollback, CleanInv, CleanRow
<1>7. QED
  BY <1>2, <1>4, <1>5, <1>6

(* A purge and a deletion only take rows away.                                      *)
LEMMA LossKeeps ==
  ASSUME AuditInv, faults' # {}, TypeOK', Kept' \subseteq Kept,
         \A s \in SeqNo : /\ log'[s].prev = log[s].prev /\ log'[s].said = log[s].said
                          /\ log'[s].link = log[s].link /\ log'[s].text = log[s].text
                          /\ log'[s].hash = log[s].hash /\ log'[s].late = log[s].late,
         UNCHANGED <<serial, lock, pc, last, lastHash, mine>>
  PROVE  AuditInv'
<1> USE DEF AuditInv
<1>0. Kept \subseteq SeqNo
  BY DEF Kept
<1>1. LockInv'
  BY <1>0 DEF LockInv
<1>2. RowInv'
  BY <1>0 DEF RowInv, SaneRow, Ordered, Linked
<1>5. LateInv'
  BY <1>0 DEF LateInv
<1>3. CleanInv'
  BY DEF CleanInv
<1>4. QED
  BY <1>1, <1>2, <1>3, <1>5

LEMMA PurgeKeeps == ASSUME AuditInv, NEW t \in Tenant, Purge(t) PROVE AuditInv'
<1> PICK old \in SUBSET {s \in Kept : log[s].tenant = t} :
      log' = [s \in SeqNo |-> IF s \in old THEN [log[s] EXCEPT !.st = "purged"] ELSE log[s]]
  BY DEF Purge
<1>1. TypeOK'
  BY DEF AuditInv, Purge, TypeOK, Row
<1>2. \A s \in SeqNo : /\ log'[s].st = "kept" => log[s].st = "kept"
                     /\ log'[s].prev = log[s].prev /\ log'[s].said = log[s].said
                     /\ log'[s].link = log[s].link /\ log'[s].text = log[s].text
                     /\ log'[s].hash = log[s].hash /\ log'[s].late = log[s].late
  BY DEF AuditInv, TypeOK, Row
<1>3. Kept' \subseteq Kept
  BY <1>2 DEF Kept
<1>4. faults' # {} /\ UNCHANGED <<serial, lock, pc, last, lastHash, mine>>
  BY DEF Purge
<1>5. QED
  BY <1>1, <1>2, <1>3, <1>4, LossKeeps

LEMMA DeleteKeeps ==
  ASSUME AuditInv, Tamper, NEW v \in Kept, Delete(v)
  PROVE  AuditInv'
<1>0. v \in SeqNo /\ log \in [SeqNo -> Row] /\ log[v] \in Row /\ log' = [log EXCEPT ![v].st = "removed"]
  BY DEF AuditInv, TypeOK, Kept, Delete
<1>1. TypeOK'
  <2>1. log' \in [SeqNo -> Row]
    BY <1>0 DEF Row
  <2>2. QED
    BY <2>1 DEF AuditInv, Tamper, TypeOK
<1>2. \A s \in SeqNo : /\ log'[s].st = "kept" => log[s].st = "kept"
                     /\ log'[s].prev = log[s].prev /\ log'[s].said = log[s].said
                     /\ log'[s].link = log[s].link /\ log'[s].text = log[s].text
                     /\ log'[s].hash = log[s].hash /\ log'[s].late = log[s].late
  BY <1>0 DEF Row
<1>3. Kept' \subseteq Kept
  BY <1>2 DEF Kept
<1>4. faults' # {} /\ UNCHANGED <<serial, lock, pc, last, lastHash, mine>>
  BY DEF Tamper
<1>5. QED
  BY <1>1, <1>2, <1>3, <1>4, LossKeeps

(* An edit that leaves the hash as it was only makes the row's text newer.             *)
LEMMA EditedKeeps ==
  ASSUME AuditInv, Tamper, NEW v \in Kept, EditText(v)
  PROVE  AuditInv'
<1> USE DEF AuditInv
<1>0. v \in SeqNo /\ log \in [SeqNo -> Row] /\ log[v] \in Row /\ log' = [log EXCEPT ![v].text = log[v].text + 1]
  BY DEF TypeOK, Kept, EditText
<1>1. TypeOK'
  <2>1. log' \in [SeqNo -> Row]
    BY <1>0 DEF Row
  <2>2. QED
    BY <2>1 DEF Tamper, TypeOK
<1>2. \A s \in SeqNo : /\ log'[s].st = log[s].st /\ log'[s].prev = log[s].prev /\ log'[s].said = log[s].said
                     /\ log'[s].link = log[s].link /\ log'[s].hash = log[s].hash /\ log'[s].late = log[s].late
                     /\ log[s].text \in Nat /\ log[s].hash \in Nat /\ log'[s].text \in {log[s].text, log[s].text + 1}
  BY <1>0 DEF Row
<1>3. Kept' = Kept /\ Kept \subseteq SeqNo
  BY <1>2 DEF Kept
<1>4. faults' # {} /\ UNCHANGED <<serial, lock, pc, last, lastHash, mine>>
  BY DEF Tamper
<1>5. LockInv'
  BY <1>2, <1>3, <1>4 DEF LockInv
<1>6. RowInv'
  <2>1. \A s \in Kept : log'[s].hash <= log'[s].text
    BY <1>2, <1>3 DEF RowInv, SaneRow, Ordered, Linked
  <2>2. QED
    BY <1>2, <1>3, <1>4, <2>1 DEF RowInv, SaneRow, Ordered, Linked
<1>7. LateInv'
  BY <1>2, <1>3, <1>4 DEF LateInv
<1>8. QED
  BY <1>1, <1>4, <1>5, <1>6, <1>7 DEF CleanInv

(* A row rewritten with its hash names the present hash of its predecessor, and has a    *)
(* newer hash than any row that names it.                                                *)
LEMMA RewriteKeeps ==
  ASSUME AuditInv, Tamper, NEW v \in Kept, Rewrite(v)
  PROVE  AuditInv'
<1> USE DEF AuditInv
<1> DEFINE h == log[v].text + 1
<1> DEFINE p == Before(v)[1]
<1> DEFINE l == Before(v)[2]
<1> DEFINE late == HasNewer(v)
<1> DEFINE row == [log[v] EXCEPT !.text = h, !.hash = h, !.said = v, !.prev = p, !.link = l, !.late = late]
<1>0. v \in SeqNo /\ v \in Nat /\ log \in [SeqNo -> Row] /\ log[v] \in Row /\ Kept \subseteq SeqNo
  BY MaxAssumption DEF TypeOK, Kept, SeqNo
<1>1. /\ p \in Nat /\ l \in Nat /\ p < v /\ (p = 0 \/ p = v - 1)
      /\ v > 1 /\ v - 1 \in Kept => p = v - 1
      /\ p \in Kept => l = log[p].hash
  BY <1>0 DEF Before, SeqNo, Kept, Row
<1>2. log' = [log EXCEPT ![v] = row]
  BY DEF Rewrite
<1>3. /\ row \in Row /\ row.st = "kept" /\ row.text = h /\ row.hash = h /\ row.said = v
      /\ row.prev = p /\ row.link = l /\ row.late = late
      /\ log[v].st = "kept" /\ h \in Nat /\ h > 0 /\ h > log[v].text
  <2> HIDE DEF late, p, l
  <2>1. late \in BOOLEAN /\ h \in Nat /\ h > 0 /\ h > log[v].text
    BY <1>0 DEF late, HasNewer, Row
  <2>2. log[v].st = "kept"
    BY DEF Kept
  <2>3. QED
    BY <2>1, <2>2, <1>0, <1>1 DEF Row
<1> HIDE DEF row, h, p, l
<1>4. log'[v] = row /\ \A s \in SeqNo : s # v => log'[s] = log[s]
  BY <1>0, <1>2
<1>5. Kept' = Kept
  BY <1>3, <1>4 DEF Kept
<1>6. faults' # {} /\ UNCHANGED <<serial, lock, pc, last, lastHash, mine>>
  BY DEF Tamper
<1>7. TypeOK'
  <2>1. log' \in [SeqNo -> Row]
    BY <1>0, <1>2, <1>3
  <2>2. QED
    BY <2>1 DEF Tamper, TypeOK
<1>8. \A s \in SeqNo : log[s].hash \in Nat /\ log[s].link \in Nat /\ log[s].prev \in Nat /\ s \in Nat /\ log[s].text \in Nat
  BY <1>0, MaxAssumption DEF Row, SeqNo
<1>9. log[v].hash < h
  BY <1>3, <1>8, <1>0 DEF RowInv, SaneRow, Ordered, Linked
<1>10. \A s \in Kept : log[s].hash <= log'[s].hash /\ log'[s].hash \in Nat
  BY <1>0, <1>3, <1>4, <1>8, <1>9
<1>11. LockInv'
  <2>1. \A w \in Writer : last[w] \in Kept /\ lastHash[w] <= log[last[w]].hash => lastHash[w] <= log'[last[w]].hash
    BY <1>0, <1>8, <1>10 DEF TypeOK
  <2>2. QED
    BY <2>1, <1>5, <1>6 DEF LockInv
<1>15. \A s \in Kept : s # v => log'[s] = log[s]
  BY <1>0, <1>4
<1>12. RowInv'
  <2>1. ASSUME NEW s \in Kept PROVE SaneRow(s)'
    <3>1. CASE s = v
      BY <3>1, <1>1, <1>3, <1>4, <1>6 DEF SaneRow, RowInv
    <3>2. CASE s # v
      BY <3>2, <1>15, <1>6 DEF SaneRow, RowInv
    <3>3. QED
      BY <3>1, <3>2
  <2>2. ASSUME NEW r \in Kept, NEW s \in Kept PROVE Ordered(r, s)'
    <3>1. CASE s = v
      <4>1. r < v => p = 0 \/ r <= p
        BY <1>0, <1>1, <1>8
      <4>2. QED
        BY <3>1, <4>1, <1>3, <1>4 DEF Ordered
    <3>2. CASE s # v
      BY <3>2, <1>15 DEF Ordered, RowInv
    <3>3. QED
      BY <3>1, <3>2
  <2>3. ASSUME NEW r \in Kept, NEW s \in Kept PROVE Linked(r, s)'
    <3>1. CASE s = v
      <4>1. log'[s].prev = r => r = p /\ l = log[r].hash /\ r # v
        BY <3>1, <1>0, <1>1, <1>3, <1>4
      <4>2. QED
        BY <3>1, <4>1, <1>0, <1>3, <1>4, <1>8 DEF Linked
    <3>2. CASE s # v
      <4>1. log'[s] = log[s] /\ Linked(r, s) /\ log[s].link \in Nat /\ log[r].hash \in Nat
        BY <3>2, <1>0, <1>15, <1>8 DEF RowInv
      <4>2. QED
        BY <4>1, <1>10 DEF Linked
    <3>3. QED
      BY <3>1, <3>2
  <2>4. QED
    BY <2>1, <2>2, <2>3, <1>5 DEF RowInv
<1>13. LateInv'
  <2>1. \A s \in SeqNo : log'[s].late => s < serial /\ \A w \in Writer : pc[w] = "commit" => s + 1 < serial
    <3> SUFFICES ASSUME NEW s \in SeqNo, log'[s].late
                 PROVE  s < serial /\ \A w \in Writer : pc[w] = "commit" => s + 1 < serial
      OBVIOUS
    <3>1. CASE s # v
      BY <3>1, <1>4 DEF LateInv
    <3>2. CASE s = v
      <4>1. PICK r \in Kept : r > v
        BY <3>2, <1>3, <1>4 DEF HasNewer
      <4>2. r <= serial /\ r \in Nat /\ serial \in Nat
        BY <1>0, <1>8, MaxAssumption DEF RowInv, SaneRow, Ordered, Linked, TypeOK
      <4>3. \A w \in Writer : pc[w] = "commit" => r < serial
        BY <1>0, <4>2, MaxAssumption DEF LockInv, TypeOK
      <4>4. QED
        BY <3>2, <4>1, <4>2, <4>3, <1>0
    <3>3. QED
      BY <3>1, <3>2
  <2>2. \A s, r \in Kept : log'[s].late /\ r = s + 1 /\ log'[r].hash = 0 /\ log'[r].prev = s =>
                            log'[r].link < log'[s].hash
    <3> SUFFICES ASSUME NEW s \in Kept, NEW r \in Kept,
                        log'[s].late, r = s + 1, log'[r].hash = 0, log'[r].prev = s
                 PROVE  log'[r].link < log'[s].hash
      OBVIOUS
    <3>1. r # v /\ log'[r] = log[r]
      BY <1>0, <1>3, <1>4
    <3>2. CASE s = v
      <4>1. log[r].link <= log[v].hash
        BY <3>1, <3>2 DEF RowInv, SaneRow, Ordered, Linked
      <4>2. QED
        BY <3>1, <3>2, <4>1, <1>0, <1>3, <1>4, <1>8, <1>9
    <3>3. CASE s # v
      BY <3>1, <3>3, <1>0, <1>4 DEF LateInv
    <3>4. QED
      BY <3>2, <3>3
  <2>3. QED
    BY <2>1, <2>2, <1>5, <1>6 DEF LateInv
<1>14. QED
  BY <1>6, <1>7, <1>11, <1>12, <1>13 DEF CleanInv

LEMMA TamperKeeps == ASSUME AuditInv, Tamper PROVE AuditInv'
<1>1. ASSUME NEW v \in Kept, Delete(v) \/ EditText(v) \/ Rewrite(v) PROVE AuditInv'
  BY <1>1, DeleteKeeps, EditedKeeps, RewriteKeeps
<1>2. CASE log' = log
  BY <1>2 DEF Tamper, AuditInv, TypeOK, LockInv, RowInv, SaneRow, Ordered, Linked, LateInv, CleanInv, Kept
<1>3. QED
  BY <1>1, <1>2 DEF Tamper

LEMMA StepKeeps == AuditInv /\ [Next]_vars => AuditInv'
<1> SUFFICES ASSUME AuditInv, [Next]_vars PROVE AuditInv'
  OBVIOUS
<1>1. ASSUME NEW w \in Writer, Begin(w) \/ ReadLast(w) \/ Insert(w) \/ Commit(w) \/ Rollback(w)
      PROVE  AuditInv'
  BY <1>1, BeginKeeps, ReadLastKeeps, InsertKeeps, CommitKeeps, RollbackKeeps
<1>2. ASSUME NEW t \in Tenant, Purge(t) PROVE AuditInv'
  BY <1>2, PurgeKeeps
<1>3. CASE Tamper
  BY <1>3, TamperKeeps
<1>4. CASE UNCHANGED vars
  BY <1>4 DEF vars, AuditInv, TypeOK, LockInv, RowInv, SaneRow, Ordered, Linked, LateInv, CleanInv, CleanRow, Kept
<1>5. QED
  BY <1>1, <1>2, <1>3, <1>4 DEF Next

LEMMA AuditHolds == Spec => []AuditInv
  BY InitHolds, StepKeeps, PTL DEF Spec

--------------------------------------------------------------------------------
(* The transactions of logAudit and their advisory lock: the lock is held exactly by  *)
(* the writers inside a transaction, whatever is rolled back.                          *)
THEOREM AuditTypesCorrect == Spec => []TypeOK
  BY AuditHolds, PTL DEF AuditInv

(* "A genuine total order instead of forking" (audit.ts:9-12), for any number of     *)
(* concurrent writers, rollbacks, purges and deletions.                               *)
THEOREM ChainDoesNotForkTheorem == Spec => []ChainDoesNotFork
<1>1. AuditInv => ChainDoesNotFork
  <2> SUFFICES ASSUME AuditInv, NEW r \in Kept, NEW s \in Kept
               PROVE  /\ log[s].prev < s
                      /\ log[r].prev = log[s].prev /\ log[s].prev # 0 => r = s
    BY DEF ChainDoesNotFork
  <2>1. /\ r \in Nat /\ log[r].prev \in Nat /\ log[r].prev < r /\ log[r] \in Row
        /\ s \in Nat /\ log[s].prev \in Nat /\ log[s].prev < s /\ log[s] \in Row
    BY MaxAssumption DEF AuditInv, RowInv, SaneRow, Ordered, Linked, TypeOK, Row, Kept, SeqNo
  <2>2. /\ r < s => r <= log[s].prev \/ log[s].prev = 0
        /\ s < r => s <= log[r].prev \/ log[r].prev = 0
    BY DEF AuditInv, RowInv, SaneRow, Ordered, Linked
  <2>3. QED
    BY <2>1, <2>2
<1>2. QED
  BY <1>1, AuditHolds, PTL

(* GET /audit/verify never raises an alarm about a log whose transactions all          *)
(* committed and which nobody purged or touched, however writers overlap.              *)
THEOREM UndisturbedVerifiesTheorem == Spec => []UndisturbedVerifies
<1>1. AuditInv => UndisturbedVerifies
  <2> SUFFICES ASSUME AuditInv, faults = {}, NEW s \in Kept
               PROVE  ~ContentTampered(s) /\ ~ChainBroken(s)
    BY DEF UndisturbedVerifies, Issues
  <2>1. CleanRow(s) /\ (s > 1 => s - 1 \in Kept) /\ s \in Nat /\ s >= 1
    BY DEF AuditInv, CleanInv, Kept, SeqNo
  <2>2. s > 1 => log[s - 1].hash = 0
    BY <2>1 DEF AuditInv, CleanInv, CleanRow
  <2>3. QED
    BY <2>1, <2>2 DEF CleanRow, ContentTampered, ChainBroken, Before
<1>2. QED
  BY <1>1, AuditHolds, PTL

(* An edit whose hash was left as it was is reported at its row.  A deletion, and an     *)
(* edit whose hash was recomputed when a newer row was there, are reported at the oldest  *)
(* newer row, as long as there is one and no newer hash was recomputed: that row names a   *)
(* predecessor that is not there, or an older hash, or was hashed under another seq than   *)
(* its own.                                                                               *)
THEOREM TamperingShowsTheorem == Spec => []TamperingShows
<1>1. AuditInv => TamperingShows
  <2> SUFFICES ASSUME AuditInv, NEW s \in SeqNo,
                      \/ log[s].st = "kept" /\ log[s].text # log[s].hash
                      \/ log[s].st = "kept" /\ log[s].late /\ HasNewer(s) /\ NewerAsWritten(s)
                      \/ log[s].st = "removed" /\ HasNewer(s) /\ NewerAsWritten(s)
               PROVE  Issues # {}
    BY DEF TamperingShows
  <2>1. CASE log[s].st = "kept" /\ log[s].text # log[s].hash
    BY <2>1 DEF Kept, Issues, ContentTampered
  <2>2. CASE /\ HasNewer(s) /\ NewerAsWritten(s)
             /\ log[s].st = "removed" \/ (log[s].st = "kept" /\ log[s].late)
    <3> DEFINE Newer == {r \in Kept : r > s}
    <3>1. Newer \subseteq Nat /\ Newer # {}
      BY <2>2 DEF Kept, SeqNo, HasNewer
    <3>2. PICK r \in Newer : \A q \in Newer : r <= q
      <4> HIDE DEF Newer
      <4> QED
        BY <3>1, Least
    <3>3. r \in Kept /\ r > s /\ r \in Nat /\ s \in Nat /\ s >= 1 /\ r \in SeqNo
      BY <3>2 DEF Kept, SeqNo
    <3>4. log[r].hash = 0
      BY <2>2, <3>3 DEF NewerAsWritten
    <3>5. log[r].said = log[r].prev + 1 /\ log[r].prev \in Nat /\ log[r].link \in Nat
      BY <3>3, <3>4 DEF AuditInv, RowInv, SaneRow, Ordered, Linked, TypeOK, Row
    <3>6. ContentTampered(r) \/ ChainBroken(r)
      <4>1. CASE r - 1 \notin Kept
        <5>1. Before(r) = <<0, 0>>
          BY <4>1 DEF Before
        <5>2. CASE log[r].prev = 0
          BY <5>2, <3>3, <3>5 DEF ContentTampered
        <5>3. CASE log[r].prev # 0
          BY <5>1, <5>3 DEF ChainBroken
        <5>4. QED
          BY <5>2, <5>3
      <4>2. CASE r - 1 \in Kept
        <5>1. r = s + 1 /\ s \in Kept
          <6>1. ~(r - 1 > s)
            BY <3>2, <3>3, <4>2
          <6>2. QED
            BY <3>3, <4>2, <6>1
        <5>2. log[s].late
          BY <2>2, <5>1 DEF Kept
        <5>3. Before(r) = <<s, log[s].hash>>
          BY <5>1, <3>3, <4>2 DEF Before
        <5>4. log[r].prev = s => log[r].link < log[s].hash
          BY <5>1, <5>2, <3>3, <3>4 DEF AuditInv, LateInv
        <5>5. log[s].hash \in Nat
          BY DEF AuditInv, TypeOK, Row
        <5>6. QED
          BY <5>3, <5>4, <5>5, <3>5 DEF ChainBroken
      <4>3. QED
        BY <4>1, <4>2
    <3>7. QED
      BY <3>3, <3>6 DEF Issues
  <2>3. QED
    BY <2>1, <2>2
<1>2. QED
  BY <1>1, AuditHolds, PTL
-----------------------------------------------------------------------------
(* The pool.                                                                           *)

(* The calls of a replica that keep a connection for their transaction, and those of    *)
(* them that have a second one for a query: these are the connections in use.           *)
Begun(n) == {c \in Call : NodeOf[c] = n /\ call[c].at \in {"locking", "body", "query"}}
Querying(n) == {c \in Call : NodeOf[c] = n /\ call[c].at = "query"}
CountInv(n) ==
  IsFiniteSet(Begun(n)) /\ busy[n] = Cardinality(Begun(n)) + Cardinality(Querying(n))

(* Who waits in a queue is a call of that replica that has not got its connection, and   *)
(* waits once.                                                                            *)
QueueInv(n) ==
  \A i \in DOMAIN waiting[n] :
    /\ NodeOf[waiting[n][i]] = n /\ call[waiting[n][i]].at \in {"begin", "body"}
    /\ \A j \in DOMAIN waiting[n] : waiting[n][i] = waiting[n][j] => i = j

(* The body of a job runs under the job's lock.                                          *)
OwnInv == \A c \in Call : call[c].at \in {"body", "query"} => locks[call[c].job] = c

PoolInv == PoolTypeOK /\ OwnInv /\ \A n \in Replica : CountInv(n) /\ QueueInv(n)

LEMMA PoolTypes ==
  /\ PoolMax \in Nat /\ MaxQueries \in Nat /\ MaxRestarts \in Nat
  /\ NoCall \in [job : Job, at : {"idle"}, left : {0}]
  BY PoolAssumption, CallAssumption DEF NoCall

LEMMA PoolFields ==
  ASSUME PoolTypeOK
  PROVE  /\ \A c \in Call : /\ call[c].job \in Job /\ call[c].left \in 0..MaxQueries
                            /\ call[c].at \in {"idle", "begin", "locking", "body", "query"}
                            /\ NodeOf[c] \in Replica
         /\ \A n \in Replica : /\ waiting[n] \in Seq(Call) /\ busy[n] \in 0..PoolMax
  BY DEF PoolTypeOK, Replica

LEMMA PoolInitHolds == PoolInit => PoolInv
<1> SUFFICES ASSUME PoolInit PROVE PoolInv
  OBVIOUS
<1> USE DEF PoolInit
<1>1. PoolTypeOK
  BY PoolTypes DEF PoolTypeOK
<1>2. OwnInv
  BY PoolTypes DEF OwnInv
<1>3. ASSUME NEW n \in Replica PROVE CountInv(n) /\ QueueInv(n)
  <2>1. Begun(n) = {} /\ Querying(n) = {}
    BY PoolTypes DEF Begun, Querying
  <2>2. CountInv(n)
    BY <2>1, FS_EmptySet DEF CountInv
  <2>3. QueueInv(n)
    BY DEF QueueInv
  <2>4. QED
    BY <2>2, <2>3
<1>4. QED
  BY <1>1, <1>2, <1>3 DEF PoolInv

(* A call joins the queue of its replica's pool, behind the others.                       *)
LEMMA JoinsQueue ==
  ASSUME NEW n \in Replica, NEW c \in Call, NodeOf[c] = n, QueueInv(n), PoolTypeOK,
         call[c].at \notin {"begin", "body"},
         waiting'[n] = Append(waiting[n], c), call'[c].at \in {"begin", "body"},
         \A d \in Call \ {c} : call'[d] = call[d]
  PROVE  QueueInv(n)'
<1> DEFINE w == waiting[n]  v == Append(w, c)
<1>1. w \in Seq(Call)
  BY PoolFields
<1>2. DOMAIN w = 1..Len(w) /\ DOMAIN v = 1..(Len(w) + 1) /\ Len(w) \in Nat
  BY <1>1
<1>3. v[Len(w) + 1] = c /\ \A i \in DOMAIN w : v[i] = w[i] /\ w[i] \in Call \ {c}
  BY <1>1, <1>2 DEF QueueInv
<1>4. ASSUME NEW i \in DOMAIN v
      PROVE  /\ NodeOf[v[i]] = n /\ call'[v[i]].at \in {"begin", "body"}
             /\ \A j \in DOMAIN v : v[i] = v[j] => i = j
  <2>1. i \in DOMAIN w \/ i = Len(w) + 1
    BY <1>2
  <2>2. NodeOf[v[i]] = n /\ call'[v[i]].at \in {"begin", "body"}
    BY <1>3, <2>1 DEF QueueInv
  <2>3. ASSUME NEW j \in DOMAIN v, v[i] = v[j] PROVE i = j
    <3>1. j \in DOMAIN w \/ j = Len(w) + 1
      BY <1>2
    <3>2. QED
      BY <1>3, <2>1, <2>3, <3>1 DEF QueueInv
  <2>4. QED
    BY <2>2, <2>3
<1>5. QED
  BY <1>4 DEF QueueInv

(* A queue that nobody joins or leaves stays as it is.                                    *)
LEMMA QueueStays ==
  ASSUME NEW n \in Replica, QueueInv(n), PoolTypeOK, waiting'[n] = waiting[n],
         \A d \in Call : NodeOf[d] = n /\ call[d].at \in {"begin", "body"} => call'[d].at = call[d].at
  PROVE  QueueInv(n)'
<1>1. \A i \in DOMAIN waiting[n] : waiting[n][i] \in Call
  BY PoolFields
<1>2. QED
  BY <1>1 DEF QueueInv

(* The connections of a replica, when one call of it goes a step: it may get one for its    *)
(* transaction or for a query, and give back what it has.                                  *)
LEMMA Counting ==
  ASSUME NEW n \in Replica, CountInv(n), NEW c \in Call, NodeOf[c] = n, PoolTypeOK,
         \A d \in Call \ {c} : call'[d] = call[d]
  PROVE  /\ Begun(n)' = (IF call'[c].at \in {"locking", "body", "query"}
                          THEN Begun(n) \cup {c} ELSE Begun(n) \ {c})
         /\ Querying(n)' = (IF call'[c].at = "query" THEN Querying(n) \cup {c} ELSE Querying(n) \ {c})
         /\ IsFiniteSet(Begun(n)) /\ IsFiniteSet(Querying(n))
         /\ Cardinality(Begun(n)) \in Nat /\ Cardinality(Querying(n)) \in Nat
         /\ c \in Begun(n) <=> call[c].at \in {"locking", "body", "query"}
         /\ c \in Querying(n) <=> call[c].at = "query"
<1>1. Begun(n)' = (IF call'[c].at \in {"locking", "body", "query"}
                    THEN Begun(n) \cup {c} ELSE Begun(n) \ {c})
  BY DEF Begun
<1>2. Querying(n)' = (IF call'[c].at = "query" THEN Querying(n) \cup {c} ELSE Querying(n) \ {c})
  BY DEF Querying
<1>3. IsFiniteSet(Begun(n)) /\ Querying(n) \subseteq Begun(n)
  BY DEF CountInv, Begun, Querying
<1>4. IsFiniteSet(Querying(n))
  BY <1>3, FS_Subset
<1>5. Cardinality(Begun(n)) \in Nat /\ Cardinality(Querying(n)) \in Nat
  BY <1>3, <1>4, FS_CardinalityType
<1>6. (c \in Begun(n) <=> call[c].at \in {"locking", "body", "query"})
      /\ (c \in Querying(n) <=> call[c].at = "query")
  BY DEF Begun, Querying
<1>7. QED
  BY <1>1, <1>2, <1>3, <1>4, <1>5, <1>6

LEMMA CountStays ==
  ASSUME NEW n \in Replica, CountInv(n), busy'[n] = busy[n],
         \A d \in Call : NodeOf[d] = n => call'[d] = call[d]
  PROVE  CountInv(n)'
<1>1. Begun(n)' = Begun(n) /\ Querying(n)' = Querying(n)
  BY DEF Begun, Querying
<1>2. QED
  BY <1>1 DEF CountInv

LEMMA RunIfLeaderKeeps ==
  ASSUME PoolInv, NEW c \in Call, NEW j \in Job, RunIfLeader(c, j)
  PROVE  PoolInv'
<1> DEFINE m == NodeOf[c]  row == [job |-> j, at |-> "begin", left |-> MaxQueries]
<1>1. /\ call[c].at = "idle" /\ call' = [call EXCEPT ![c] = row]
      /\ waiting' = [waiting EXCEPT ![m] = Append(@, c)]
      /\ busy' = busy /\ locks' = locks /\ restarts' = restarts
  BY DEF RunIfLeader, Ask
<1>2. PoolTypeOK /\ OwnInv /\ \A n \in Replica : CountInv(n) /\ QueueInv(n)
  BY DEF PoolInv
<1>3. row \in [job : Job, at : {"begin"}, left : 0..MaxQueries] /\ m \in Replica
  BY <1>2, PoolTypes, PoolFields
<1>4. call'[c] = row /\ \A d \in Call \ {c} : call'[d] = call[d]
  BY <1>1, <1>2 DEF PoolTypeOK
<1>5. waiting'[m] = Append(waiting[m], c) /\ \A n \in Replica \ {m} : waiting'[n] = waiting[n]
  BY <1>1, <1>2, <1>3 DEF PoolTypeOK
<1>6. PoolTypeOK'
  <2>1. Append(waiting[m], c) \in Seq(Call)
    BY <1>2, <1>3, PoolFields
  <2>2. QED
    BY <1>1, <1>2, <1>3, <2>1 DEF PoolTypeOK
<1>7. OwnInv'
  BY <1>1, <1>2, <1>3, <1>4 DEF OwnInv
<1>8. ASSUME NEW n \in Replica PROVE (CountInv(n) /\ QueueInv(n))'
  <2>1. QueueInv(n)'
    <3>1. CASE n = m
      BY <1>1, <1>2, <1>3, <1>4, <1>5, <3>1, JoinsQueue
    <3>2. CASE n # m
      BY <1>1, <1>2, <1>4, <1>5, <3>2, QueueStays
    <3>3. QED
      BY <3>1, <3>2
  <2>2. Begun(n)' = Begun(n) /\ Querying(n)' = Querying(n)
    BY <1>1, <1>3, <1>4 DEF Begun, Querying
  <2>3. QED
    BY <1>1, <1>2, <2>1, <2>2 DEF CountInv
<1>9. QED
  BY <1>6, <1>7, <1>8 DEF PoolInv

LEMMA GrantKeeps ==
  ASSUME PoolInv, NEW m \in Replica, Grant(m)
  PROVE  PoolInv'
<1> DEFINE c == Head(waiting[m])
           row == [call[c] EXCEPT !.at = IF call[c].at = "begin" THEN "locking" ELSE "query"]
<1>1. /\ waiting[m] # <<>> /\ busy[m] < PoolMax
      /\ call' = [call EXCEPT ![c] = row]
      /\ waiting' = [waiting EXCEPT ![m] = Tail(@)] /\ busy' = [busy EXCEPT ![m] = @ + 1]
      /\ locks' = locks /\ restarts' = restarts
  BY DEF Grant
<1>2. PoolTypeOK /\ OwnInv /\ \A n \in Replica : CountInv(n) /\ QueueInv(n)
  BY DEF PoolInv
<1>3. waiting[m] \in Seq(Call) /\ busy[m] \in 0..PoolMax
  BY <1>2, PoolFields
<1>4. /\ 1 \in DOMAIN waiting[m] /\ c = waiting[m][1] /\ c \in Call
      /\ Tail(waiting[m]) \in Seq(Call) /\ DOMAIN Tail(waiting[m]) = 1..(Len(waiting[m]) - 1)
      /\ Len(waiting[m]) \in Nat /\ DOMAIN waiting[m] = 1..Len(waiting[m])
      /\ \A i \in DOMAIN Tail(waiting[m]) : Tail(waiting[m])[i] = waiting[m][i + 1]
  BY <1>1, <1>3
<1>5. NodeOf[c] = m /\ call[c].at \in {"begin", "body"}
  BY <1>2, <1>4 DEF QueueInv
<1>6. row \in [job : Job, at : {"locking", "query"}, left : 0..MaxQueries] /\ row.job = call[c].job
      /\ (row.at = "query" <=> call[c].at = "body")
  BY <1>2, <1>4, <1>5 DEF PoolTypeOK
<1> HIDE DEF row
<1>7. call'[c] = row /\ \A d \in Call \ {c} : call'[d] = call[d]
  BY <1>1, <1>2, <1>4 DEF PoolTypeOK
<1>8. /\ waiting'[m] = Tail(waiting[m]) /\ busy'[m] = busy[m] + 1
      /\ \A n \in Replica \ {m} : waiting'[n] = waiting[n] /\ busy'[n] = busy[n]
  BY <1>1, <1>2 DEF PoolTypeOK
<1>9. PoolTypeOK'
  <2>1. call' \in [Call -> [job : Job, at : {"idle", "begin", "locking", "body", "query"}, left : 0..MaxQueries]]
    BY <1>1, <1>2, <1>6 DEF PoolTypeOK
  <2>2. waiting' \in [Replica -> Seq(Call)]
    BY <1>1, <1>2, <1>4 DEF PoolTypeOK
  <2>3. busy' \in [Replica -> 0..PoolMax]
    BY <1>1, <1>2, <1>3, PoolTypes DEF PoolTypeOK
  <2>4. QED
    BY <1>1, <1>2, <2>1, <2>2, <2>3 DEF PoolTypeOK
<1>10. OwnInv'
  BY <1>1, <1>2, <1>4, <1>5, <1>6, <1>7 DEF OwnInv
<1>11. ASSUME NEW n \in Replica, n # m PROVE (CountInv(n) /\ QueueInv(n))'
  <2>1. \A d \in Call : NodeOf[d] = n => call'[d] = call[d]
    BY <1>5, <1>7, <1>11
  <2>2. QED
    BY <1>2, <1>8, <1>11, <2>1, CountStays, QueueStays
<1>12. CountInv(m)'
  <2>1. \/ call[c].at = "begin" /\ Begun(m)' = Begun(m) \cup {c} /\ Querying(m)' = Querying(m) \ {c}
        \/ call[c].at = "body" /\ Begun(m)' = Begun(m) \cup {c} /\ Querying(m)' = Querying(m) \cup {c}
    BY <1>2, <1>4, <1>5, <1>6, <1>7, Counting
  <2>2. /\ IsFiniteSet(Begun(m)) /\ IsFiniteSet(Querying(m)) /\ c \notin Querying(m)
        /\ Cardinality(Begun(m)) \in Nat /\ Cardinality(Querying(m)) \in Nat
        /\ (c \in Begun(m) <=> call[c].at = "body")
    BY <1>2, <1>4, <1>5, <1>7, Counting
  <2>3. busy[m] = Cardinality(Begun(m)) + Cardinality(Querying(m))
    BY <1>2 DEF CountInv
  <2>4. IsFiniteSet(Begun(m)') /\ Cardinality(Begun(m)') + Cardinality(Querying(m)')
                                    = Cardinality(Begun(m)) + Cardinality(Querying(m)) + 1
    <3>1. CASE call[c].at = "begin"
      <4>1. Begun(m)' = Begun(m) \cup {c} /\ Querying(m)' = Querying(m) /\ c \notin Begun(m)
        BY <2>1, <2>2, <3>1
      <4>2. IsFiniteSet(Begun(m) \cup {c}) /\ Cardinality(Begun(m) \cup {c}) = Cardinality(Begun(m)) + 1
        BY <2>2, <4>1, FS_AddElement
      <4>3. QED
        BY <2>2, <4>1, <4>2
    <3>2. CASE call[c].at = "body"
      <4>1. Begun(m)' = Begun(m) /\ Querying(m)' = Querying(m) \cup {c}
        BY <2>1, <2>2, <3>2
      <4>2. Cardinality(Querying(m) \cup {c}) = Cardinality(Querying(m)) + 1
        BY <2>2, FS_AddElement
      <4>3. QED
        BY <2>2, <4>1, <4>2
    <3>3. QED
      BY <1>5, <3>1, <3>2
  <2>5. QED
    BY <1>8, <2>3, <2>4 DEF CountInv
<1>13. QueueInv(m)'
  <2> SUFFICES ASSUME NEW i \in DOMAIN Tail(waiting[m])
               PROVE  /\ NodeOf[Tail(waiting[m])[i]] = m
                      /\ call'[Tail(waiting[m])[i]].at \in {"begin", "body"}
                      /\ \A j \in DOMAIN Tail(waiting[m]) : Tail(waiting[m])[i] = Tail(waiting[m])[j] => i = j
    BY <1>8 DEF QueueInv
  <2>1. i + 1 \in DOMAIN waiting[m] /\ i + 1 # 1 /\ Tail(waiting[m])[i] = waiting[m][i + 1]
    BY <1>4
  <2>2. waiting[m][i + 1] # c /\ waiting[m][i + 1] \in Call
    BY <1>2, <1>3, <1>4, <2>1 DEF QueueInv
  <2>3. NodeOf[waiting[m][i + 1]] = m /\ call'[waiting[m][i + 1]].at \in {"begin", "body"}
    BY <1>2, <1>7, <2>1, <2>2 DEF QueueInv
  <2>4. ASSUME NEW j \in DOMAIN Tail(waiting[m]), Tail(waiting[m])[i] = Tail(waiting[m])[j] PROVE i = j
    <3>1. j + 1 \in DOMAIN waiting[m] /\ Tail(waiting[m])[j] = waiting[m][j + 1] /\ i \in Nat /\ j \in Nat
      BY <1>4
    <3>2. i + 1 = j + 1
      BY <1>2, <2>1, <2>4, <3>1 DEF QueueInv
    <3>3. QED
      BY <3>1, <3>2
  <2>5. QED
    BY <2>1, <2>3, <2>4
<1>14. QED
  BY <1>9, <1>10, <1>11, <1>12, <1>13 DEF PoolInv

LEMMA TryLockKeeps ==
  ASSUME PoolInv, NEW c \in Call, TryLock(c)
  PROVE  PoolInv'
<1> DEFINE m == NodeOf[c]  j == call[c].job  row == [call[c] EXCEPT !.at = "body"]
<1>2. PoolTypeOK /\ OwnInv /\ \A n \in Replica : CountInv(n) /\ QueueInv(n)
  BY DEF PoolInv
<1>3. /\ call[c].at = "locking" /\ m \in Replica /\ j \in Job
      /\ waiting[m] \in Seq(Call) /\ busy[m] \in 0..PoolMax
  BY <1>2, PoolFields DEF TryLock
<1>4. CASE locks[j] = "free"
  <2>1. /\ locks' = [locks EXCEPT ![j] = c] /\ call' = [call EXCEPT ![c] = row]
        /\ waiting' = [waiting EXCEPT ![m] = Append(@, c)]
        /\ busy' = busy /\ restarts' = restarts
    BY <1>4 DEF TryLock, Ask
  <2>2. row \in [job : Job, at : {"body"}, left : 0..MaxQueries] /\ row.job = j
    BY <1>2 DEF PoolTypeOK
  <2> HIDE DEF row
  <2>3. call'[c] = row /\ \A d \in Call \ {c} : call'[d] = call[d]
    BY <1>2, <2>1 DEF PoolTypeOK
  <2>4. waiting'[m] = Append(waiting[m], c) /\ \A n \in Replica \ {m} : waiting'[n] = waiting[n]
    BY <1>2, <1>3, <2>1 DEF PoolTypeOK
  <2>5. locks'[j] = c /\ \A i \in Job \ {j} : locks'[i] = locks[i]
    BY <1>2, <1>3, <2>1 DEF PoolTypeOK
  <2>6. PoolTypeOK'
    <3>1. Append(waiting[m], c) \in Seq(Call)
      BY <1>3
    <3>2. waiting' \in [Replica -> Seq(Call)]
      BY <1>2, <2>1, <3>1 DEF PoolTypeOK
    <3>3. call' \in [Call -> [job : Job, at : {"idle", "begin", "locking", "body", "query"}, left : 0..MaxQueries]]
      BY <1>2, <2>1, <2>2 DEF PoolTypeOK
    <3>4. locks' \in [Job -> Call \cup {"free"}]
      BY <1>2, <2>1 DEF PoolTypeOK
    <3>5. QED
      BY <1>2, <2>1, <3>2, <3>3, <3>4 DEF PoolTypeOK
  <2>7. OwnInv'
    <3>1. \A d \in Call : call[d].at \in {"body", "query"} => call[d].job # j
      BY <1>2, <1>4, CallAssumption DEF OwnInv
    <3>2. QED
      BY <1>2, <2>2, <2>3, <2>5, <3>1, PoolFields DEF OwnInv
  <2>8. ASSUME NEW n \in Replica PROVE (CountInv(n) /\ QueueInv(n))'
    <3>1. QueueInv(n)'
      <4>1. CASE n = m
        BY <1>2, <1>3, <2>2, <2>3, <2>4, <4>1, JoinsQueue
      <4>2. CASE n # m
        BY <1>2, <2>3, <2>4, <4>2, QueueStays
      <4>3. QED
        BY <4>1, <4>2
    <3>2. Begun(n)' = Begun(n) /\ Querying(n)' = Querying(n)
      BY <1>3, <2>2, <2>3 DEF Begun, Querying
    <3>3. QED
      BY <1>2, <2>1, <3>1, <3>2 DEF CountInv
  <2>9. QED
    BY <2>6, <2>7, <2>8 DEF PoolInv
<1>5. CASE locks[j] # "free"
  <2>1. /\ call' = [call EXCEPT ![c] = NoCall] /\ busy' = [busy EXCEPT ![m] = @ - 1]
        /\ waiting' = waiting /\ locks' = locks /\ restarts' = restarts
    BY <1>5 DEF TryLock, Release
  <2>2. call'[c] = NoCall /\ \A d \in Call \ {c} : call'[d] = call[d]
    BY <1>2, <2>1 DEF PoolTypeOK
  <2>3. busy'[m] = busy[m] - 1 /\ \A n \in Replica \ {m} : busy'[n] = busy[n]
    BY <1>2, <1>3, <2>1 DEF PoolTypeOK
  <2>4. CountInv(m)' /\ busy[m] - 1 \in 0..PoolMax
    <3>1. Begun(m)' = Begun(m) \ {c} /\ Querying(m)' = Querying(m) \ {c}
      BY <1>2, <1>3, <2>2, PoolTypes, Counting
    <3>2. /\ IsFiniteSet(Begun(m)) /\ c \in Begun(m) /\ c \notin Querying(m)
          /\ Cardinality(Begun(m)) \in Nat /\ Cardinality(Querying(m)) \in Nat
      BY <1>2, <1>3, <2>2, Counting
    <3>3. /\ IsFiniteSet(Begun(m)') /\ Cardinality(Begun(m)') = Cardinality(Begun(m)) - 1
          /\ Cardinality(Begun(m)') \in Nat
      BY <3>1, <3>2, FS_RemoveElement, FS_CardinalityType
    <3>4. Querying(m)' = Querying(m)
      BY <3>1, <3>2
    <3>5. busy[m] = Cardinality(Begun(m)) + Cardinality(Querying(m))
      BY <1>2, <1>3 DEF CountInv
    <3>6. QED
      BY <1>3, <2>3, <3>2, <3>3, <3>4, <3>5, PoolTypes DEF CountInv
  <2>5. PoolTypeOK'
    <3>1. busy' \in [Replica -> 0..PoolMax]
      BY <1>2, <2>1, <2>4 DEF PoolTypeOK
    <3>2. QED
      BY <1>2, <2>1, <3>1, PoolTypes DEF PoolTypeOK
  <2>6. OwnInv'
    BY <1>2, <2>1, <2>2, PoolTypes DEF OwnInv
  <2>7. ASSUME NEW n \in Replica PROVE (CountInv(n) /\ QueueInv(n))'
    <3>1. QueueInv(n)'
      BY <1>2, <1>3, <2>1, <2>2, QueueStays
    <3>2. CountInv(n)'
      <4>1. CASE n = m
        BY <2>4, <4>1
      <4>2. CASE n # m
        BY <1>2, <2>2, <2>3, <4>2, CountStays
      <4>3. QED
        BY <4>1, <4>2
    <3>3. QED
      BY <3>1, <3>2
  <2>8. QED
    BY <2>5, <2>6, <2>7 DEF PoolInv
<1>6. QED
  BY <1>4, <1>5

(* A query that is followed by another one, or by the end of the transaction.              *)
LEMMA NextQueryKeeps ==
  ASSUME PoolInv, NEW c \in Call, call[c].at = "query", call[c].left > 1,
         Ask(c, [call[c] EXCEPT !.at = "body", !.left = @ - 1]), Release(c, 1),
         locks' = locks, restarts' = restarts
  PROVE  PoolInv'
<1> DEFINE m == NodeOf[c]  row == [call[c] EXCEPT !.at = "body", !.left = @ - 1]
<1>1. /\ call' = [call EXCEPT ![c] = row] /\ busy' = [busy EXCEPT ![m] = @ - 1]
      /\ waiting' = [waiting EXCEPT ![m] = Append(@, c)]
  BY DEF Ask, Release
<1>2. PoolTypeOK /\ OwnInv /\ \A n \in Replica : CountInv(n) /\ QueueInv(n)
  BY DEF PoolInv
<1>3. /\ m \in Replica /\ waiting[m] \in Seq(Call) /\ busy[m] \in 0..PoolMax
      /\ call[c].left \in 0..MaxQueries
  BY <1>2, PoolFields
<1>4. row \in [job : Job, at : {"body"}, left : 0..MaxQueries] /\ row.job = call[c].job
  <2>1. call[c].left - 1 \in 0..MaxQueries
    BY <1>3, PoolTypes
  <2>2. QED
    BY <1>2, <2>1 DEF PoolTypeOK
<1> HIDE DEF row
<1>5. call'[c] = row /\ \A d \in Call \ {c} : call'[d] = call[d]
  BY <1>1, <1>2 DEF PoolTypeOK
<1>6. /\ busy'[m] = busy[m] - 1 /\ \A n \in Replica \ {m} : busy'[n] = busy[n]
      /\ waiting'[m] = Append(waiting[m], c) /\ \A n \in Replica \ {m} : waiting'[n] = waiting[n]
  BY <1>1, <1>2, <1>3 DEF PoolTypeOK
<1>7. CountInv(m)' /\ busy[m] - 1 \in 0..PoolMax
  <2>1. Begun(m)' = Begun(m) \cup {c} /\ Querying(m)' = Querying(m) \ {c}
    BY <1>2, <1>3, <1>4, <1>5, Counting
  <2>2. /\ IsFiniteSet(Begun(m)) /\ IsFiniteSet(Querying(m)) /\ c \in Begun(m) /\ c \in Querying(m)
        /\ Cardinality(Begun(m)) \in Nat /\ Cardinality(Querying(m)) \in Nat
    BY <1>2, <1>3, <1>5, Counting
  <2>3. IsFiniteSet(Querying(m) \ {c}) /\ Cardinality(Querying(m) \ {c}) = Cardinality(Querying(m)) - 1
    BY <2>2, FS_RemoveElement
  <2>4. Cardinality(Querying(m) \ {c}) \in Nat
    BY <2>3, FS_CardinalityType
  <2>5. Begun(m)' = Begun(m)
    BY <2>1, <2>2
  <2>6. busy[m] = Cardinality(Begun(m)) + Cardinality(Querying(m))
    BY <1>2, <1>3 DEF CountInv
  <2>7. Cardinality(Querying(m)') = Cardinality(Querying(m)) - 1 /\ Cardinality(Querying(m)') \in Nat
    BY <2>1, <2>3, <2>4
  <2>8. QED
    BY <1>3, <1>6, <2>2, <2>5, <2>6, <2>7, PoolTypes DEF CountInv
<1>8. PoolTypeOK'
  <2>1. busy' \in [Replica -> 0..PoolMax]
    BY <1>1, <1>2, <1>7 DEF PoolTypeOK
  <2>2. waiting' \in [Replica -> Seq(Call)]
    <3>1. Append(waiting[m], c) \in Seq(Call)
      BY <1>3
    <3>2. QED
      BY <1>1, <1>2, <3>1 DEF PoolTypeOK
  <2>3. call' \in [Call -> [job : Job, at : {"idle", "begin", "locking", "body", "query"}, left : 0..MaxQueries]]
    BY <1>1, <1>2, <1>4 DEF PoolTypeOK
  <2>4. QED
    BY <1>2, <2>1, <2>2, <2>3 DEF PoolTypeOK
<1>9. OwnInv'
  BY <1>2, <1>4, <1>5 DEF OwnInv
<1>10. ASSUME NEW n \in Replica PROVE (CountInv(n) /\ QueueInv(n))'
  <2>1. CASE n = m
    BY <1>2, <1>3, <1>4, <1>5, <1>6, <1>7, <2>1, JoinsQueue
  <2>2. CASE n # m
    BY <1>2, <1>5, <1>6, <2>2, CountStays, QueueStays
  <2>3. QED
    BY <2>1, <2>2
<1>11. QED
  BY <1>8, <1>9, <1>10 DEF PoolInv

LEMMA LastQueryKeeps ==
  ASSUME PoolInv, NEW c \in Call, call[c].at = "query",
         call' = [call EXCEPT ![c] = NoCall], Release(c, 2),
         locks' = [locks EXCEPT ![call[c].job] = "free"], waiting' = waiting, restarts' = restarts
  PROVE  PoolInv'
<1> DEFINE m == NodeOf[c]  j == call[c].job
<1>1. busy' = [busy EXCEPT ![m] = @ - 2]
  BY DEF Release
<1>2. PoolTypeOK /\ OwnInv /\ \A n \in Replica : CountInv(n) /\ QueueInv(n)
  BY DEF PoolInv
<1>3. m \in Replica /\ busy[m] \in 0..PoolMax /\ j \in Job
  BY <1>2, PoolFields
<1>4. call'[c] = NoCall /\ \A d \in Call \ {c} : call'[d] = call[d]
  BY <1>2 DEF PoolTypeOK
<1>5. busy'[m] = busy[m] - 2 /\ \A n \in Replica \ {m} : busy'[n] = busy[n]
  BY <1>1, <1>2, <1>3 DEF PoolTypeOK
<1>6. CountInv(m)' /\ busy[m] - 2 \in 0..PoolMax
  <2>1. Begun(m)' = Begun(m) \ {c} /\ Querying(m)' = Querying(m) \ {c}
    BY <1>2, <1>3, <1>4, PoolTypes, Counting
  <2>2. /\ IsFiniteSet(Begun(m)) /\ IsFiniteSet(Querying(m)) /\ c \in Begun(m) /\ c \in Querying(m)
    BY <1>2, <1>3, <1>4, Counting
  <2>3. /\ IsFiniteSet(Querying(m) \ {c}) /\ Cardinality(Querying(m) \ {c}) = Cardinality(Querying(m)) - 1
        /\ IsFiniteSet(Begun(m) \ {c}) /\ Cardinality(Begun(m) \ {c}) = Cardinality(Begun(m)) - 1
    BY <2>2, FS_RemoveElement
  <2>4. /\ Cardinality(Querying(m) \ {c}) \in Nat /\ Cardinality(Begun(m) \ {c}) \in Nat
        /\ Cardinality(Querying(m)) \in Nat /\ Cardinality(Begun(m)) \in Nat
    BY <2>2, <2>3, FS_CardinalityType
  <2>5. busy[m] = Cardinality(Begun(m)) + Cardinality(Querying(m))
    BY <1>2, <1>3 DEF CountInv
  <2>6. QED
    BY <1>3, <1>5, <2>1, <2>3, <2>4, <2>5, PoolTypes DEF CountInv
<1>7. PoolTypeOK'
  <2>1. busy' \in [Replica -> 0..PoolMax]
    BY <1>1, <1>2, <1>6 DEF PoolTypeOK
  <2>2. QED
    BY <1>2, <2>1, PoolTypes DEF PoolTypeOK
<1>8. OwnInv'
  <2> SUFFICES ASSUME NEW d \in Call, call'[d].at \in {"body", "query"} PROVE locks'[call'[d].job] = d
    BY DEF OwnInv
  <2>1. d # c /\ call'[d] = call[d]
    BY <1>4, PoolTypes
  <2>2. locks[call[d].job] = d /\ locks[j] = c
    BY <1>2, <2>1 DEF OwnInv
  <2>3. QED
    BY <1>2, <1>3, <2>1, <2>2, PoolFields DEF PoolTypeOK
<1>9. ASSUME NEW n \in Replica PROVE (CountInv(n) /\ QueueInv(n))'
  <2>1. QueueInv(n)'
    BY <1>2, <1>4, QueueStays
  <2>2. CASE n = m
    BY <1>6, <2>1, <2>2
  <2>3. CASE n # m
    BY <1>2, <1>4, <1>5, <2>1, <2>3, CountStays
  <2>4. QED
    BY <2>2, <2>3
<1>10. QED
  BY <1>7, <1>8, <1>9 DEF PoolInv

LEMMA RestartReplicaKeeps ==
  ASSUME PoolInv, NEW m \in Replica, RestartReplica(m)
  PROVE  PoolInv'
<1>1. /\ restarts < MaxRestarts /\ restarts' = restarts + 1
      /\ call' = [c \in Call |-> IF NodeOf[c] = m THEN NoCall ELSE call[c]]
      /\ waiting' = [waiting EXCEPT ![m] = <<>>] /\ busy' = [busy EXCEPT ![m] = 0]
      /\ locks' = [j \in Job |-> IF locks[j] # "free" /\ NodeOf[locks[j]] = m THEN "free" ELSE locks[j]]
  BY DEF RestartReplica
<1>2. PoolTypeOK /\ OwnInv /\ \A n \in Replica : CountInv(n) /\ QueueInv(n)
  BY DEF PoolInv
<1>3. /\ busy'[m] = 0 /\ \A n \in Replica \ {m} : busy'[n] = busy[n]
      /\ waiting'[m] = <<>> /\ \A n \in Replica \ {m} : waiting'[n] = waiting[n]
  BY <1>1, <1>2 DEF PoolTypeOK
<1>4. PoolTypeOK'
  BY <1>1, <1>2, PoolTypes DEF PoolTypeOK
<1>5. OwnInv'
  <2> SUFFICES ASSUME NEW d \in Call, call'[d].at \in {"body", "query"} PROVE locks'[call'[d].job] = d
    BY DEF OwnInv
  <2>1. NodeOf[d] # m /\ call'[d] = call[d]
    BY <1>1, PoolTypes
  <2>2. locks[call[d].job] = d /\ call[d].job \in Job
    BY <1>2, <2>1, PoolFields DEF OwnInv
  <2>3. QED
    BY <1>1, <2>1, <2>2
<1>6. ASSUME NEW n \in Replica PROVE (CountInv(n) /\ QueueInv(n))'
  <2>1. CASE n = m
    <3>1. Begun(n)' = {} /\ Querying(n)' = {}
      BY <1>1, <2>1, PoolTypes DEF Begun, Querying
    <3>2. QED
      BY <1>3, <2>1, <3>1, FS_EmptySet DEF CountInv, QueueInv
  <2>2. CASE n # m
    <3>1. \A d \in Call : NodeOf[d] = n => call'[d] = call[d]
      BY <1>1, <2>2
    <3>2. QED
      BY <1>2, <1>3, <2>2, <3>1, CountStays, QueueStays
  <2>3. QED
    BY <2>1, <2>2
<1>7. QED
  BY <1>4, <1>5, <1>6 DEF PoolInv

LEMMA PoolStepKeeps == PoolInv /\ [PoolNext]_poolVars => PoolInv'
<1> SUFFICES ASSUME PoolInv, [PoolNext]_poolVars PROVE PoolInv'
  OBVIOUS
<1>1. ASSUME NEW c \in Call, NEW j \in Job, RunIfLeader(c, j) PROVE PoolInv'
  BY <1>1, RunIfLeaderKeeps
<1>2. ASSUME NEW c \in Call, TryLock(c) PROVE PoolInv'
  BY <1>2, TryLockKeeps
<1>3. ASSUME NEW c \in Call, Query(c) PROVE PoolInv'
  BY <1>3, NextQueryKeeps, LastQueryKeeps DEF Query
<1>4. ASSUME NEW n \in Replica, Grant(n) PROVE PoolInv'
  BY <1>4, GrantKeeps
<1>5. ASSUME NEW n \in Replica, RestartReplica(n) PROVE PoolInv'
  BY <1>5, RestartReplicaKeeps
<1>6. CASE UNCHANGED poolVars
  <2>1. call' = call /\ waiting' = waiting /\ busy' = busy /\ locks' = locks /\ restarts' = restarts
    BY <1>6 DEF poolVars
  <2>2. PoolTypeOK' /\ OwnInv'
    BY <2>1 DEF PoolInv, PoolTypeOK, OwnInv
  <2>3. ASSUME NEW n \in Replica PROVE (CountInv(n) /\ QueueInv(n))'
    BY <2>1, CountStays, QueueStays DEF PoolInv
  <2>4. QED
    BY <2>2, <2>3 DEF PoolInv
<1>7. QED
  BY <1>1, <1>2, <1>3, <1>4, <1>5, <1>6 DEF PoolNext

(* At most one call for each job is between its lock and its commit, so with a connection  *)
(* more than there are jobs the calls that hold one and wait for another cannot have all.    *)
LEMMA PoolInvNeverStuck == PoolInv => PoolNeverStuck
<1> SUFFICES ASSUME PoolInv, NEW n \in Replica,
                    \A c \in Call : NodeOf[c] = n => call[c].at \notin {"locking", "query"}
             PROVE  busy[n] < PoolMax
  BY DEF PoolNeverStuck
<1>1. PoolTypeOK /\ OwnInv /\ CountInv(n)
  BY DEF PoolInv
<1> DEFINE f == [c \in Begun(n) |-> call[c].job]
<1>2. \A c \in Begun(n) : c \in Call /\ call[c].at = "body" /\ call[c].job \in Job
  BY <1>1, PoolFields DEF Begun
<1>3. \A c, d \in Begun(n) : call[c].job = call[d].job => c = d
  BY <1>1, <1>2 DEF OwnInv
<1>4. f \in Injection(Begun(n), Job)
  BY <1>2, <1>3 DEF Injection, IsInjective
<1>5. IsFiniteSet(Job)
  BY PoolAssumption
<1>6. Cardinality(Begun(n)) <= Cardinality(Job)
  BY <1>4, <1>5, FS_Injection
<1>7. Querying(n) = {}
  BY DEF Querying
<1>8. Cardinality(Querying(n)) = 0
  BY <1>7, FS_EmptySet
<1>9. Cardinality(Begun(n)) \in Nat /\ Cardinality(Job) \in Nat
  BY <1>1, <1>5, FS_CardinalityType DEF CountInv
<1>10. QED
  BY <1>1, <1>6, <1>8, <1>9, PoolAssumption DEF CountInv

-----------------------------------------------------------------------------
(* Feature flags.                                                                        *)

(* A row is given a value that its flag has, and what was read back is a value.          *)
FitsInv ==
  \A r \in Edit : /\ edit[r].at = "write" => edit[r].value \in Option(edit[r].flag) \cup {"none"}
                  /\ edit[r].at = "refresh" => edit[r].row \in Mode

(* A flag whose requirement the environment does not meet is off in all that is on its way  *)
(* to a snapshot.                                                                          *)
CarriedOff ==
  /\ \A n \in Node, s \in Slot, f \in Unmet : resync[n][s] # <<>> => resync[n][s][f] = "off"
  /\ \A r \in Edit : edit[r].at = "refresh" /\ edit[r].flag \in Unmet => edit[r].row = "off"
  /\ \A n \in Node : event[n].at \in Mode /\ event[n].flag \in Unmet => event[n].at = "off"

FlagInv == FlagTypeOK /\ FitsInv /\ UnmetStaysOff /\ CarriedOff

Edited == [at : {"idle", "write", "own", "read", "refresh", "publish", "done"}, node : Node,
           flag : Flag, value : Mode \cup {"none"}, row : Mode \cup {"none"}]
Entry == [flag : Flag, at : Mode \cup {"idle", "read"}]

LEMMA FlagTypes ==
  /\ Unmet \subseteq Flag /\ EnvDefault \in [Flag -> Mode] /\ MaxCrashes \in Nat
  /\ \A f \in Unmet : EnvDefault[f] = "off"
  /\ \A f \in Flag : Option(f) \subseteq Mode
  /\ Idle \in [flag : Flag, at : {"idle"}]
  /\ \A step \in {"idle", "done"} : NoEdit(step) \in Edited /\ NoEdit(step).at = step
<1>1. (CHOOSE f \in Flag : TRUE) \in Flag /\ (CHOOSE n \in Node : TRUE) \in Node
  BY ReplicaAssumption
<1>2. Idle \in [flag : Flag, at : {"idle"}]
  BY <1>1 DEF Idle
<1>3. \A step \in {"idle", "done"} : NoEdit(step) \in Edited /\ NoEdit(step).at = step
  BY <1>1, <1>2 DEF NoEdit, Edited
<1>4. QED
  BY <1>2, <1>3, FlagAssumption, ReplicaAssumption DEF Mode, Option

LEMMA FlagFields ==
  ASSUME FlagTypeOK
  PROVE  /\ \A r \in Edit : /\ edit[r] \in Edited /\ edit[r].flag \in Flag /\ edit[r].node \in Node
                            /\ edit[r].value \in Mode \cup {"none"} /\ edit[r].row \in Mode \cup {"none"}
         /\ edit \in [Edit -> Edited] /\ event \in [Node -> Entry]
         /\ \A n \in Node : event[n] \in Entry /\ event[n].flag \in Flag /\ snapshot[n] \in [Flag -> Mode]
         /\ \A f \in Flag : Resolved(f) \in Mode /\ (f \in Unmet => Resolved(f) = "off")
<1>1. /\ edit \in [Edit -> Edited] /\ event \in [Node -> Entry]
      /\ \A n \in Node : snapshot[n] \in [Flag -> Mode]
  BY DEF FlagTypeOK, Edited, Entry
<1>2. \A f \in Flag : Resolved(f) \in Mode /\ (f \in Unmet => Resolved(f) = "off")
  BY FlagTypes DEF FlagTypeOK, Resolved, Clamp, Mode
<1>3. QED
  BY <1>1, <1>2 DEF Edited, Entry

LEMMA FlagInitHolds == FlagInit => FlagInv
<1> SUFFICES ASSUME FlagInit PROVE FlagInv
  OBVIOUS
<1> USE DEF FlagInit
<1>1. FlagTypeOK
  <2>1. edit \in [Edit -> Edited]
    BY FlagTypes
  <2>2. event \in [Node -> [flag : Flag, at : Mode \cup {"idle", "read"}]]
    BY FlagTypes
  <2>3. stream \in Seq([flag : Flag, origin : Node])
    OBVIOUS
  <2>4. QED
    BY <2>1, <2>2, <2>3, FlagTypes DEF FlagTypeOK, Edited
<1>2. FitsInv /\ UnmetStaysOff /\ CarriedOff
  <2>1. \A r \in Edit : edit[r].at = "idle"
    BY FlagTypes
  <2>2. \A n \in Node : event[n].at = "idle" /\ "idle" \notin Mode
    BY FlagTypes DEF Mode
  <2>3. QED
    BY <2>1, <2>2, FlagTypes DEF FitsInv, UnmetStaysOff, CarriedOff
<1>3. QED
  BY <1>1, <1>2 DEF FlagInv

(* A request goes a step and touches nothing else but, perhaps, the stream.                *)
LEMMA EditGoes ==
  ASSUME FlagInv, NEW r \in Edit, NEW row \in Edited, edit' = [edit EXCEPT ![r] = row],
         row.at = "write" => row.value \in Option(row.flag) \cup {"none"},
         row.at = "refresh" => row.row \in Mode /\ (row.flag \in Unmet => row.row = "off"),
         flags' = flags, snapshot' = snapshot, resync' = resync, event' = event, crashes' = crashes,
         stream' \in Seq([flag : Flag, origin : Node])
  PROVE  FlagInv'
<1>1. FlagTypeOK /\ FitsInv /\ UnmetStaysOff /\ CarriedOff
  BY DEF FlagInv
<1>2. edit'[r] = row /\ (\A q \in Edit \ {r} : edit'[q] = edit[q]) /\ edit' \in [Edit -> Edited]
  BY <1>1, FlagFields
<1>3. FlagTypeOK'
  BY <1>1, <1>2 DEF FlagTypeOK, Edited
<1>4. FitsInv' /\ UnmetStaysOff' /\ CarriedOff'
  BY <1>1, <1>2 DEF FitsInv, UnmetStaysOff, CarriedOff
<1>5. QED
  BY <1>3, <1>4 DEF FlagInv

(* A replica writes one flag of its snapshot, with a value that the flag may have.          *)
LEMMA SnapshotGoes ==
  ASSUME FlagInv, NEW n \in Node, NEW f \in Flag, NEW v \in Mode, f \in Unmet => v = "off",
         snapshot' = [snapshot EXCEPT ![n][f] = v]
  PROVE  snapshot' \in [Node -> [Flag -> Mode]] /\ UnmetStaysOff'
<1>1. snapshot \in [Node -> [Flag -> Mode]] /\ UnmetStaysOff
  BY DEF FlagInv, FlagTypeOK
<1>2. snapshot'[n] = [snapshot[n] EXCEPT ![f] = v] /\ \A m \in Node \ {n} : snapshot'[m] = snapshot[m]
  BY <1>1
<1>3. snapshot' \in [Node -> [Flag -> Mode]]
  BY <1>1
<1>4. QED
  BY <1>1, <1>2, <1>3 DEF UnmetStaysOff

LEMMA EditKeeps ==
  ASSUME FlagInv, NEW r \in Edit,
         \/ \E n \in Node, f \in Flag : (\E v \in Mode : BeginSet(r, n, f, v)) \/ BeginReset(r, n, f)
         \/ EditStep(r)
  PROVE  FlagInv'
<1> DEFINE f == edit[r].flag
<1>1. FlagTypeOK /\ FitsInv /\ UnmetStaysOff /\ CarriedOff
  BY DEF FlagInv
<1>2. edit[r] \in Edited /\ f \in Flag /\ edit[r].node \in Node /\ stream \in Seq([flag : Flag, origin : Node])
  BY <1>1, FlagFields DEF FlagTypeOK
<1>3. ASSUME NEW n \in Node, NEW g \in Flag, NEW v \in Mode, BeginSet(r, n, g, v) PROVE FlagInv'
  <2> DEFINE row == [edit[r] EXCEPT !.at = "write", !.node = n, !.flag = g, !.value = v]
  <2>1. row \in Edited /\ row.at = "write" /\ row.flag = g /\ row.value = v
    BY <1>2 DEF Edited
  <2>2. edit' = [edit EXCEPT ![r] = row] /\ v \in Option(g)
    BY <1>3 DEF BeginSet
  <2> HIDE DEF row
  <2>3. QED
    BY <1>2, <1>3, <2>1, <2>2, EditGoes DEF BeginSet, bus
<1>4. ASSUME NEW n \in Node, NEW g \in Flag, BeginReset(r, n, g) PROVE FlagInv'
  <2> DEFINE row == [edit[r] EXCEPT !.at = "write", !.node = n, !.flag = g, !.value = "none"]
  <2>1. row \in Edited /\ row.at = "write" /\ row.flag = g /\ row.value = "none"
    BY <1>2 DEF Edited
  <2>2. edit' = [edit EXCEPT ![r] = row]
    BY <1>4 DEF BeginReset
  <2> HIDE DEF row
  <2>3. QED
    BY <1>2, <1>4, <2>1, <2>2, EditGoes DEF BeginReset, bus
<1>5. ASSUME NEW step \in {"own", "read", "publish"}, EditTo(r, step)
      PROVE  /\ edit' \in [Edit -> Edited] /\ edit'[r].at = step
             /\ \A q \in Edit \ {r} : edit'[q] = edit[q]
  <2> DEFINE row == [edit[r] EXCEPT !.at = step]
  <2>1. row \in Edited /\ row.at = step
    BY <1>2 DEF Edited
  <2>2. edit' = [edit EXCEPT ![r] = row]
    BY <1>5 DEF EditTo
  <2> HIDE DEF row
  <2>3. QED
    BY <1>1, <2>1, <2>2, FlagFields
<1>6. ASSUME WriteRow(r) PROVE FlagInv'
  <2>1. /\ edit[r].at = "write" /\ flags' = [flags EXCEPT ![f] = edit[r].value]
        /\ EditTo(r, "own") /\ snapshot' = snapshot /\ resync' = resync /\ stream' = stream
        /\ event' = event /\ crashes' = crashes
    BY <1>6 DEF WriteRow, EditAt, bus
  <2>2. edit[r].value \in Option(f) \cup {"none"} /\ edit[r].value \in Mode \cup {"none"}
    BY <1>1, <2>1, FlagFields DEF FitsInv
  <2>3. flags' \in [Flag -> Mode \cup {"none"}] /\ \A g \in Flag : flags'[g] \in Option(g) \cup {"none"}
    BY <1>1, <1>2, <2>1, <2>2 DEF FlagTypeOK
  <2>4. FlagTypeOK'
    BY <1>1, <1>5, <2>1, <2>3 DEF FlagTypeOK, Edited
  <2>5. FitsInv' /\ UnmetStaysOff' /\ CarriedOff'
    BY <1>1, <1>5, <2>1 DEF FitsInv, UnmetStaysOff, CarriedOff
  <2>6. QED
    BY <2>4, <2>5 DEF FlagInv
<1>7. ASSUME ApplyOwn(r) PROVE FlagInv'
  <2> DEFINE v == IF edit[r].value = "none" THEN EnvDefault[f] ELSE Clamp(f, edit[r].value)
  <2>1. /\ edit[r].at = "own" /\ snapshot' = [snapshot EXCEPT ![edit[r].node][f] = v]
        /\ EditTo(r, "read") /\ flags' = flags /\ resync' = resync /\ stream' = stream
        /\ event' = event /\ crashes' = crashes
    BY <1>7 DEF ApplyOwn, EditAt, bus
  <2>2. v \in Mode /\ (f \in Unmet => v = "off")
    BY <1>1, <1>2, FlagTypes, FlagFields DEF Clamp, Mode
  <2> HIDE DEF v
  <2>3. snapshot' \in [Node -> [Flag -> Mode]] /\ UnmetStaysOff'
    BY <1>2, <2>1, <2>2, SnapshotGoes
  <2>4. FlagTypeOK'
    BY <1>1, <1>5, <2>1, <2>3 DEF FlagTypeOK, Edited
  <2>5. FitsInv' /\ CarriedOff'
    BY <1>1, <1>5, <2>1 DEF FitsInv, CarriedOff
  <2>6. QED
    BY <2>3, <2>4, <2>5 DEF FlagInv
<1>8. ASSUME ReadBack(r) PROVE FlagInv'
  <2> DEFINE row == [edit[r] EXCEPT !.at = "refresh", !.row = Resolved(f)]
  <2>1. row \in Edited /\ row.at = "refresh" /\ row.flag = f /\ row.row = Resolved(f)
    BY <1>1, <1>2, FlagFields DEF Edited
  <2>2. edit' = [edit EXCEPT ![r] = row]
    BY <1>8 DEF ReadBack
  <2> HIDE DEF row
  <2>3. Resolved(f) \in Mode /\ (f \in Unmet => Resolved(f) = "off")
    BY <1>1, <1>2, FlagFields
  <2>4. QED
    BY <1>2, <1>8, <2>1, <2>2, <2>3, EditGoes DEF ReadBack, bus
<1>9. ASSUME Refresh(r) PROVE FlagInv'
  <2>1. /\ edit[r].at = "refresh" /\ snapshot' = [snapshot EXCEPT ![edit[r].node][f] = edit[r].row]
        /\ EditTo(r, "publish") /\ flags' = flags /\ resync' = resync /\ stream' = stream
        /\ event' = event /\ crashes' = crashes
    BY <1>9 DEF Refresh, EditAt, bus
  <2>2. edit[r].row \in Mode /\ (f \in Unmet => edit[r].row = "off")
    BY <1>1, <2>1 DEF CarriedOff, FitsInv
  <2>3. snapshot' \in [Node -> [Flag -> Mode]] /\ UnmetStaysOff'
    BY <1>2, <2>1, <2>2, SnapshotGoes
  <2>4. FlagTypeOK'
    BY <1>1, <1>5, <2>1, <2>3 DEF FlagTypeOK, Edited
  <2>5. FitsInv' /\ CarriedOff'
    BY <1>1, <1>5, <2>1 DEF FitsInv, CarriedOff
  <2>6. QED
    BY <2>3, <2>4, <2>5 DEF FlagInv
<1>10. ASSUME Publish(r) PROVE FlagInv'
  <2>1. [flag |-> f, origin |-> edit[r].node] \in [flag : Flag, origin : Node]
    BY <1>2
  <2>2. stream' \in Seq([flag : Flag, origin : Node])
    <3>1. \/ stream' = Append(stream, [flag |-> f, origin |-> edit[r].node]) \/ stream' = stream
      BY <1>10 DEF Publish
    <3>2. \A e \in [flag : Flag, origin : Node] : Append(stream, e) \in Seq([flag : Flag, origin : Node])
      BY <1>2
    <3>3. QED
      BY <1>2, <2>1, <3>1, <3>2
  <2>3. NoEdit("done") \in Edited /\ NoEdit("done").at = "done"
    BY FlagTypes
  <2>4. QED
    BY <1>10, <2>2, <2>3, EditGoes DEF Publish
<1>11. QED
  BY <1>3, <1>4, <1>6, <1>7, <1>8, <1>9, <1>10 DEF EditStep

LEMMA EventKeeps ==
  ASSUME FlagInv, NEW n \in Node, Consume(n) \/ EventStep(n)
  PROVE  FlagInv'
<1>1. FlagTypeOK /\ FitsInv /\ UnmetStaysOff /\ CarriedOff
  BY DEF FlagInv
<1>2. event[n] \in Entry /\ event[n].flag \in Flag /\ event \in [Node -> Entry]
  BY <1>1, FlagFields
<1>3. ASSUME NEW row \in Entry, event' = [event EXCEPT ![n] = row],
             row.at \in Mode /\ row.flag \in Unmet => row.at = "off",
             flags' = flags, resync' = resync, edit' = edit, crashes' = crashes,
             stream' \in Seq([flag : Flag, origin : Node]),
             snapshot' \in [Node -> [Flag -> Mode]], UnmetStaysOff'
      PROVE  FlagInv'
  <2>1. event' \in [Node -> Entry] /\ event'[n] = row /\ \A m \in Node \ {n} : event'[m] = event[m]
    BY <1>2, <1>3
  <2>2. FlagTypeOK'
    BY <1>1, <1>3, <2>1 DEF FlagTypeOK, Entry
  <2>3. FitsInv' /\ CarriedOff'
    BY <1>1, <1>3, <2>1 DEF FitsInv, CarriedOff
  <2>4. QED
    BY <1>3, <2>2, <2>3 DEF FlagInv
<1>4. snapshot \in [Node -> [Flag -> Mode]] /\ stream \in Seq([flag : Flag, origin : Node])
  BY <1>1 DEF FlagTypeOK
<1>5. Idle \in Entry /\ Idle.at \notin Mode
  BY FlagTypes DEF Entry, Mode
<1>6. CASE Consume(n)
  <2> DEFINE row == IF Head(stream).origin = n THEN Idle ELSE [flag |-> Head(stream).flag, at |-> "read"]
  <2>1. /\ stream # <<>> /\ stream' = Tail(stream) /\ event' = [event EXCEPT ![n] = row]
        /\ flags' = flags /\ snapshot' = snapshot /\ resync' = resync /\ edit' = edit /\ crashes' = crashes
    BY <1>6 DEF Consume
  <2>2. Head(stream) \in [flag : Flag, origin : Node] /\ Tail(stream) \in Seq([flag : Flag, origin : Node])
    <3>1. \A S, s : s \in Seq(S) /\ s # <<>> => Head(s) \in S /\ Tail(s) \in Seq(S)
      BY HeadTailProperties
    <3>2. QED
      BY <1>4, <2>1, <3>1
  <2>3. row \in Entry /\ row.at \notin Mode
    BY <1>5, <2>2 DEF Entry, Mode
  <2> HIDE DEF row
  <2>4. UnmetStaysOff'
    BY <1>1, <2>1 DEF UnmetStaysOff
  <2>5. QED
    BY <1>3, <1>4, <2>1, <2>2, <2>3, <2>4
<1>7. CASE ReadEvent(n)
  <2> DEFINE row == [event[n] EXCEPT !.at = Resolved(event[n].flag)]
  <2>1. /\ event' = [event EXCEPT ![n] = row] /\ flags' = flags /\ snapshot' = snapshot
        /\ resync' = resync /\ edit' = edit /\ stream' = stream /\ crashes' = crashes
    BY <1>7 DEF ReadEvent
  <2>2. row \in Entry /\ (row.at \in Mode /\ row.flag \in Unmet => row.at = "off")
    BY <1>1, <1>2, FlagFields DEF Entry
  <2> HIDE DEF row
  <2>3. UnmetStaysOff'
    BY <1>1, <2>1 DEF UnmetStaysOff
  <2>4. QED
    BY <1>3, <1>4, <2>1, <2>2, <2>3
<1>8. CASE ApplyEvent(n)
  <2>1. /\ event[n].at \in Mode /\ snapshot' = [snapshot EXCEPT ![n][event[n].flag] = event[n].at]
        /\ event' = [event EXCEPT ![n] = Idle] /\ flags' = flags
        /\ resync' = resync /\ edit' = edit /\ stream' = stream /\ crashes' = crashes
    BY <1>8 DEF ApplyEvent
  <2>2. event[n].flag \in Unmet => event[n].at = "off"
    BY <1>1, <2>1 DEF CarriedOff
  <2>3. snapshot' \in [Node -> [Flag -> Mode]] /\ UnmetStaysOff'
    BY <1>2, <2>1, <2>2, SnapshotGoes
  <2>4. QED
    BY <1>3, <1>4, <1>5, <2>1, <2>3
<1>9. QED
  BY <1>6, <1>7, <1>8 DEF EventStep

LEMMA LoadKeeps ==
  ASSUME FlagInv, NEW n \in Node, NEW s \in Slot, BeginLoad(n, s) \/ EndLoad(n, s)
  PROVE  FlagInv'
<1>1. FlagTypeOK /\ FitsInv /\ UnmetStaysOff /\ CarriedOff
  BY DEF FlagInv
<1>2. /\ resync \in [Node -> [Slot -> [Flag -> Mode] \cup {<<>>}]] /\ snapshot \in [Node -> [Flag -> Mode]]
      /\ resync[n][s] \in [Flag -> Mode] \cup {<<>>}
  BY <1>1 DEF FlagTypeOK
<1>3. ASSUME NEW v \in [Flag -> Mode] \cup {<<>>}, resync' = [resync EXCEPT ![n][s] = v],
             v # <<>> => \A f \in Unmet : v[f] = "off",
             flags' = flags, edit' = edit, stream' = stream, event' = event, crashes' = crashes,
             snapshot' \in [Node -> [Flag -> Mode]], UnmetStaysOff'
      PROVE  FlagInv'
  <2>1. resync' \in [Node -> [Slot -> [Flag -> Mode] \cup {<<>>}]]
    BY <1>2, <1>3
  <2>2. \A m \in Node, t \in Slot : resync'[m][t] = resync[m][t] \/ resync'[m][t] = v
    BY <1>2, <1>3
  <2>3. FlagTypeOK'
    BY <1>1, <1>3, <2>1 DEF FlagTypeOK
  <2>4. FitsInv' /\ CarriedOff'
    BY <1>1, <1>3, <2>2 DEF FitsInv, CarriedOff
  <2>5. QED
    BY <1>3, <2>3, <2>4 DEF FlagInv
<1>4. CASE BeginLoad(n, s)
  <2> DEFINE v == [f \in Flag |-> Resolved(f)]
  <2>1. v \in [Flag -> Mode] /\ \A f \in Unmet : v[f] = "off"
    BY <1>1, FlagFields, FlagTypes
  <2>2. /\ resync' = [resync EXCEPT ![n][s] = v] /\ flags' = flags /\ snapshot' = snapshot
        /\ edit' = edit /\ stream' = stream /\ event' = event /\ crashes' = crashes
    BY <1>4 DEF BeginLoad, bus
  <2> HIDE DEF v
  <2>3. UnmetStaysOff'
    BY <1>1, <2>2 DEF UnmetStaysOff
  <2>4. QED
    BY <1>2, <1>3, <2>1, <2>2, <2>3
<1>5. CASE EndLoad(n, s)
  <2>1. /\ resync[n][s] # <<>> /\ snapshot' = [snapshot EXCEPT ![n] = resync[n][s]]
        /\ resync' = [resync EXCEPT ![n][s] = <<>>] /\ flags' = flags
        /\ edit' = edit /\ stream' = stream /\ event' = event /\ crashes' = crashes
    BY <1>5 DEF EndLoad, bus
  <2>2. resync[n][s] \in [Flag -> Mode] /\ \A f \in Unmet : resync[n][s][f] = "off"
    BY <1>1, <1>2, <2>1 DEF CarriedOff
  <2>3. snapshot' \in [Node -> [Flag -> Mode]] /\ UnmetStaysOff'
    BY <1>1, <1>2, <2>1, <2>2 DEF UnmetStaysOff
  <2>4. QED
    BY <1>3, <2>1, <2>3
<1>6. QED
  BY <1>4, <1>5

LEMMA RestartKeeps ==
  ASSUME FlagInv, NEW n \in Node, Restart(n)
  PROVE  FlagInv'
<1>1. FlagTypeOK /\ FitsInv /\ UnmetStaysOff /\ CarriedOff
  BY DEF FlagInv
<1>2. /\ crashes < MaxCrashes /\ crashes' = crashes + 1 /\ flags' = flags /\ stream' = stream
      /\ snapshot' = [snapshot EXCEPT ![n] = EnvDefault]
      /\ resync' = [resync EXCEPT ![n] = [s \in Slot |-> <<>>]]
      /\ event' = [event EXCEPT ![n] = Idle]
      /\ edit' = [r \in Edit |-> IF edit[r].node = n /\ edit[r].at \notin {"idle", "done"}
                                 THEN NoEdit("done") ELSE edit[r]]
  BY DEF Restart
<1>3. /\ snapshot' \in [Node -> [Flag -> Mode]]
      /\ \A m \in Node : snapshot'[m] = IF m = n THEN EnvDefault ELSE snapshot[m]
  BY <1>1, <1>2, FlagTypes DEF FlagTypeOK
<1>4. /\ resync' \in [Node -> [Slot -> [Flag -> Mode] \cup {<<>>}]]
      /\ \A m \in Node, s \in Slot : resync'[m][s] = <<>> \/ resync'[m][s] = resync[m][s]
  BY <1>1, <1>2 DEF FlagTypeOK
<1>5. /\ event' \in [Node -> Entry]
      /\ \A m \in Node : event'[m] = event[m] \/ event'[m].at \notin Mode
  BY <1>1, <1>2, FlagFields, FlagTypes DEF Entry, Mode
<1>6. /\ edit' \in [Edit -> Edited]
      /\ \A r \in Edit : edit'[r] = edit[r] \/ edit'[r].at = "done"
  BY <1>1, <1>2, FlagFields, FlagTypes
<1>7. crashes' \in 0..MaxCrashes
  BY <1>1, <1>2, FlagTypes DEF FlagTypeOK
<1>8. FlagTypeOK'
  BY <1>1, <1>2, <1>3, <1>4, <1>5, <1>6, <1>7 DEF FlagTypeOK, Entry, Edited
<1>9. FitsInv'
  BY <1>1, <1>2, <1>6 DEF FitsInv
<1>10. UnmetStaysOff'
  BY <1>1, <1>3, FlagAssumption DEF UnmetStaysOff
<1>11. CarriedOff'
  <2>1. \A m \in Node, s \in Slot, f \in Unmet : resync'[m][s] # <<>> => resync'[m][s][f] = "off"
    <3>1. SUFFICES ASSUME NEW m \in Node, NEW s \in Slot, NEW f \in Unmet, resync'[m][s] # <<>>
                   PROVE  resync'[m][s][f] = "off"
      OBVIOUS
    <3>2. resync'[m][s] = resync[m][s]
      BY <1>4, <3>1
    <3>3. QED
      BY <1>1, <3>1, <3>2 DEF CarriedOff
  <2>2. \A r \in Edit : edit'[r].at = "refresh" /\ edit'[r].flag \in Unmet => edit'[r].row = "off"
    BY <1>1, <1>6 DEF CarriedOff
  <2>3. \A m \in Node : event'[m].at \in Mode /\ event'[m].flag \in Unmet => event'[m].at = "off"
    BY <1>1, <1>5 DEF CarriedOff
  <2>4. QED
    BY <2>1, <2>2, <2>3 DEF CarriedOff
<1>12. QED
  BY <1>8, <1>9, <1>10, <1>11 DEF FlagInv

LEMMA FlagStepKeeps == FlagInv /\ [FlagNext]_flagVars => FlagInv'
<1> SUFFICES ASSUME FlagInv, [FlagNext]_flagVars PROVE FlagInv'
  OBVIOUS
<1>1. CASE FlagNext
  BY <1>1, EditKeeps, EventKeeps, LoadKeeps, RestartKeeps DEF FlagNext
<1>2. CASE UNCHANGED flagVars
  BY <1>2 DEF flagVars, FlagInv, FlagTypeOK, FitsInv, UnmetStaysOff, CarriedOff
<1>3. QED
  BY <1>1, <1>2

-----------------------------------------------------------------------------
(* The two together.                                                                     *)

(* Each of the two components goes its own steps in the composition, and keeps what it      *)
(* promises alone.                                                                        *)
THEOREM PlatformInvHolds == PlatformSpec => [](FlagInv /\ PoolInv)
<1>1. PlatformInit => FlagInv /\ PoolInv
  BY FlagInitHolds, PoolInitHolds DEF PlatformInit
<1>2. (FlagInv /\ PoolInv) /\ [PlatformNext]_platformVars => (FlagInv /\ PoolInv)'
  <2>1. [PlatformNext]_platformVars => [FlagNext]_flagVars /\ [PoolNext]_poolVars
    BY DEF PlatformNext, platformVars, flagVars, poolVars
  <2>2. QED
    BY <2>1, FlagStepKeeps, PoolStepKeeps
<1>3. QED
  BY <1>1, <1>2, PTL DEF PlatformSpec

(* Flags, snapshots and events keep their values, and a pool never has more connections in  *)
(* use than PG_POOL_MAX, nor fewer than none, whatever jobs overlap and replicas die.       *)
THEOREM PlatformTypesCorrect == PlatformSpec => []PlatformTypeOK
<1>1. FlagInv /\ PoolInv => PlatformTypeOK
  BY DEF FlagInv, PoolInv, PlatformTypeOK
<1>2. QED
  BY <1>1, PlatformInvHolds, PTL

(* Jobs that hold a connection for their lock and wait for another never exhaust a pool      *)
(* that has one more than there are jobs: the safety on which JobsFinish rests.             *)
THEOREM PoolNeverStuckTheorem == PlatformSpec => []PoolNeverStuck
  BY PoolInvNeverStuck, PlatformInvHolds, PTL

(* No edit, event, resync or restart turns on a flag whose hard requirement the environment  *)
(* does not meet, on any replica.                                                           *)
THEOREM UnmetStaysOffTheorem == PlatformSpec => []UnmetStaysOff
<1>1. FlagInv => UnmetStaysOff
  BY DEF FlagInv
<1>2. QED
  BY <1>1, PlatformInvHolds, PTL

(* What the run of the platform checks, for every value of the constants.                   *)
THEOREM PlatformHoldsTheorem == PlatformSpec => []PlatformHolds
  BY PlatformTypesCorrect, PoolNeverStuckTheorem, UnmetStaysOffTheorem, PTL DEF PlatformHolds
=============================================================================
