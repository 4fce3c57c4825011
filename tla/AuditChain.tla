----------------------------- MODULE AuditChain -----------------------------
(* The hash-chained audit log: logAudit appends under an advisory lock,           *)
(* purgeExpiredAuditLogs deletes a tenant's oldest rows, GET /audit/verify walks    *)
(* the chain.                                                                       *)
(*                                                                                 *)
(* A row is named by its seq, the value PostgreSQL's bigserial gave it; 0 is "no    *)
(* row".  A hash is named by what it was computed from: the seq of a row and the     *)
(* version of the columns it covers, 0 as written and higher after each edit.  It    *)
(* has no key: whoever may edit a row may recompute its hash.                        *)
EXTENDS Naturals

CONSTANTS Writer,    \* requests that log an action
          Tenant,    \* the tenants the rows belong to
          MaxSeq,    \* bound on the sequence
          MaxEdits,  \* bound on the edits of one row
          Faults     \* what may happen in this instance: "rollback", "purge", "tamper"

ASSUME MaxAssumption == MaxSeq \in Nat /\ MaxEdits \in Nat

VARIABLES
  log,      \* audit_logs
  serial,   \* the sequence's last value; a rollback does not return it
  lock,     \* the writers that hold the advisory lock
  pc,       \* where each writer stands in its transaction
  last,     \* the newest row it read,
  lastHash, \* the version of that row's hash,
  mine,     \* and the seq its INSERT got (all 0 outside a transaction)
  faults    \* history: which faults happened

vars == <<log, serial, lock, pc, last, lastHash, mine, faults>>

SeqNo == 1 .. MaxSeq
(* said is the seq that went into the hash, text and hash the versions of the columns  *)
(* it covers and of what it was computed from; prev and link are the row and the       *)
(* version that prev_hash names.  late is history: a newer row was there when the hash  *)
(* was recomputed.                                                                     *)
Row == [st : {"none", "kept", "purged", "removed"}, tenant : Tenant, said : Nat,
        prev : Nat, link : Nat, text : Nat, hash : Nat, late : BOOLEAN]
NewRow(t, p, l) == [st |-> "kept", tenant |-> t, said |-> p + 1, prev |-> p, link |-> l,
                    text |-> 0, hash |-> 0, late |-> FALSE]

(* pg_advisory_xact_lock is held exactly as long as the transaction lasts.          *)
TypeOK ==
  /\ log \in [SeqNo -> Row]
  /\ serial \in 0 .. MaxSeq
  /\ pc \in [Writer -> {"idle", "read", "insert", "commit"}]
  /\ lock = {w \in Writer : pc[w] # "idle"}
  /\ last \in [Writer -> 0 .. MaxSeq]
  /\ lastHash \in [Writer -> Nat]
  /\ mine \in [Writer -> 0 .. MaxSeq]
  /\ faults \subseteq {"rollback", "purge", "tamper"}

Kept == {s \in SeqNo : log[s].st = "kept"}
Newest == IF Kept = {} THEN 0 ELSE CHOOSE s \in Kept : \A r \in Kept : r <= s

Init ==
  /\ \E t \in Tenant : log = [s \in SeqNo |-> [NewRow(t, 0, 0) EXCEPT !.st = "none"]]
  /\ serial = 0
  /\ lock = {}
  /\ pc = [w \in Writer |-> "idle"]
  /\ last = [w \in Writer |-> 0]
  /\ lastHash = [w \in Writer |-> 0]
  /\ mine = [w \in Writer |-> 0]
  /\ faults = {}

GoTo(w, p) == pc' = [pc EXCEPT ![w] = p]

(* The transaction of w is over, and with it the advisory lock and its locals.       *)
EndTransaction(w) ==
  /\ lock' = lock \ {w}
  /\ GoTo(w, "idle")
  /\ last' = [last EXCEPT ![w] = 0]
  /\ lastHash' = [lastHash EXCEPT ![w] = 0]
  /\ mine' = [mine EXCEPT ![w] = 0]

--------------------------------------------------------------------------------
(* logAudit                                                                        *)

(* Mutant: no pg_advisory_xact_lock.                                               *)
BeginUnlocked(w) ==
  /\ pc[w] = "idle"
  /\ lock' = lock \cup {w}
  /\ GoTo(w, "read")
  /\ UNCHANGED <<log, serial, last, lastHash, mine, faults>>

(* BEGIN and pg_advisory_xact_lock.                                                *)
Begin(w) ==
  /\ pc[w] = "idle" /\ lock = {}
  /\ lock' = {w}
  /\ GoTo(w, "read")
  /\ UNCHANGED <<log, serial, last, lastHash, mine, faults>>

(* SELECT hash, seq ORDER BY seq DESC LIMIT 1                                      *)
ReadLast(w) ==
  /\ pc[w] = "read"
  /\ last' = [last EXCEPT ![w] = Newest]
  /\ lastHash' = [lastHash EXCEPT ![w] = IF Newest \in Kept THEN log[Newest].hash ELSE 0]
  /\ GoTo(w, "insert")
  /\ UNCHANGED <<log, serial, lock, mine, faults>>

(* The INSERT leaves seq to its default, nextval().                                *)
Insert(w) ==
  /\ pc[w] = "insert" /\ serial < MaxSeq
  /\ serial' = serial + 1
  /\ mine' = [mine EXCEPT ![w] = serial + 1]
  /\ GoTo(w, "commit")
  /\ UNCHANGED <<log, lock, last, lastHash, faults>>

Commit(w) ==
  /\ pc[w] = "commit"
  /\ \E t \in Tenant : log' = [log EXCEPT ![mine[w]] = NewRow(t, last[w], lastHash[w])]
  /\ EndTransaction(w)
  /\ UNCHANGED <<serial, faults>>

(* Mutant: pg_advisory_lock, which a failed transaction does not give back.          *)
RollbackLocked(w) ==
  /\ "rollback" \in Faults
  /\ pc[w] # "idle"
  /\ faults' = IF pc[w] = "commit" THEN faults \cup {"rollback"} ELSE faults
  /\ GoTo(w, "idle")
  /\ UNCHANGED <<log, serial, lock, last, lastHash, mine>>

(* A statement fails or the connection is lost: the row is gone, its seq is spent,  *)
(* and logAudit only writes an error to the log file.                               *)
Rollback(w) ==
  /\ "rollback" \in Faults
  /\ pc[w] # "idle"
  /\ faults' = IF pc[w] = "commit" THEN faults \cup {"rollback"} ELSE faults
  /\ EndTransaction(w)
  /\ UNCHANGED <<log, serial>>

--------------------------------------------------------------------------------
(* purgeExpiredAuditLogs: the rows of one tenant created before its retention cutoff. *)
(* created_at is the replica's clock before the lock is asked for, so it need not      *)
(* follow seq: any of the tenant's rows can be the old ones.                           *)
Purge(t) ==
  /\ "purge" \in Faults
  /\ \E old \in SUBSET {s \in Kept : log[s].tenant = t} :
       /\ old # {}
       /\ log' = [s \in SeqNo |-> IF s \in old THEN [log[s] EXCEPT !.st = "purged"] ELSE log[s]]
  /\ faults' = faults \cup {"purge"}
  /\ UNCHANGED <<serial, lock, pc, last, lastHash, mine>>

HasNewer(s) == \E r \in Kept : r > s
(* What prev_hash of row s has to name for the chain to be whole there.               *)
Before(s) == IF s > 1 /\ s - 1 \in Kept THEN <<s - 1, log[s - 1].hash>> ELSE <<0, 0>>

(* Somebody deletes a row in the database, edits columns that its hash covers, or       *)
(* edits them and recomputes the hash, linking the row to its present predecessor.      *)
(* target_id, ip_address and user_agent are in no hash, and so not in this module: an   *)
(* edit of those leaves the log as the verifier sees it.                                *)
Delete(s) == log' = [log EXCEPT ![s].st = "removed"]
EditText(s) == log' = [log EXCEPT ![s].text = log[s].text + 1]
Rewrite(s) ==
  log' = [log EXCEPT ![s] = [log[s] EXCEPT !.text = log[s].text + 1, !.hash = log[s].text + 1,
                               !.said = s, !.prev = Before(s)[1], !.link = Before(s)[2],
                               !.late = HasNewer(s)]]

Tamper ==
  /\ "tamper" \in Faults
  /\ \/ \E s \in Kept : Delete(s) \/ (log[s].text < MaxEdits /\ (EditText(s) \/ Rewrite(s)))
     \/ log' = log
  /\ faults' = faults \cup {"tamper"}
  /\ UNCHANGED <<serial, lock, pc, last, lastHash, mine>>

Next == \/ \E w \in Writer : Begin(w) \/ ReadLast(w) \/ Insert(w) \/ Commit(w) \/ Rollback(w)
        \/ \E t \in Tenant : Purge(t)
        \/ Tamper

Spec == Init /\ [][Next]_vars

--------------------------------------------------------------------------------
(* GET /audit/verify.  The report on one row does not depend on the tenant or the    *)
(* window asked for: the bridge query fetches the predecessor of the oldest row too. *)

(* Mutant: a broken link is not reported.                                          *)
NeverBroken(s) == FALSE

ContentTampered(s) == log[s].said # s \/ log[s].text # log[s].hash
ChainBroken(s) == <<log[s].prev, log[s].link>> # Before(s)
Issues == {s \in Kept : ContentTampered(s) \/ ChainBroken(s)}

(* Correctness.                                                                    *)

(* The lock keeps the chain "a genuine total order instead of forking": no two rows  *)
(* of the log name the same predecessor, and a predecessor is older (audit.ts:9-12). *)
ChainDoesNotFork ==
  \A r, s \in Kept : /\ log[s].prev < s
                     /\ log[r].prev = log[s].prev /\ log[s].prev # 0 => r = s

(* A log that nothing disturbed is reported intact, whatever writers overlap.        *)
UndisturbedVerifies == faults = {} => Issues = {}

(* The rows newer than s carry the hashes they were written with.                    *)
NewerAsWritten(s) == \A r \in Kept : r > s => log[r].hash = 0

(* What the verifier can show of the columns the hash covers, also after purges and    *)
(* rollbacks (admin/audit.ts:125-135): an edit that leaves the hash as it was; and,      *)
(* as long as a newer row is there and no newer hash was recomputed too, the deletion    *)
(* of a row and an edit whose hash was recomputed, if the row was not the newest then.   *)
(* Beyond its reach, and allowed here: an edit of the newest row with its hash, a log     *)
(* rewritten up to its newest row, and every column the hash leaves out (audit.ts:33).   *)
TamperingShows ==
  \A s \in SeqNo :
    (\/ log[s].st = "kept" /\ log[s].text # log[s].hash
     \/ log[s].st = "kept" /\ log[s].late /\ HasNewer(s) /\ NewerAsWritten(s)
     \/ log[s].st = "removed" /\ HasNewer(s) /\ NewerAsWritten(s)) => Issues # {}

(* The hash is recomputed "to catch tampering of their content specifically": a row    *)
(* nobody edited is not reported as content_tampered (admin/audit.ts:101-102).          *)
OnlyTamperedContentReported == \A s \in Kept : ContentTampered(s) => log[s].text > 0
==============================================================================
