------------------------------ MODULE AccessProofs ------------------------------
(* Proofs about who gets in and as what: the captcha (Captcha), federated sign-in      *)
(* (Federation), client authentication with its one-time proofs (ClientAuth), roles,    *)
(* groups and tenants (Access), and the tabs of a browser (Browser), for every set of    *)
(* callers, identities, tokens and tabs.                                                *)
EXTENDS Captcha, Federation, ClientAuth, Access, Browser, TLAPS, FiniteSetTheorems

--------------------------------------------------------------------------------
(* Captcha.                                                                          *)

(* A pass that no two logins read at once: if it is live, or if a login has read it and is  *)
(* about to delete it, it has let in fewer than it was granted to, and there is no second.  *)
Spends(c, p) == Stands(c, "spend") /\ caller[c].p = p
PassOnce(p) ==
  /\ entered[p] <= solved[p].passes
  /\ pass[p] = "live" => entered[p] + 1 <= solved[p].passes
  /\ \A c \in Caller : Spends(c, p) => /\ entered[p] + 1 <= solved[p].passes
                                       /\ \A d \in Caller : Spends(d, p) => c = d
PassInv == \A p \in Puzzle : p \in shared \/ PassOnce(p)

(* A puzzle whose answers never overlapped has at most one of: a request that judges it,    *)
(* a request about to grant its pass, a pass granted.  The attempts that are left, in the   *)
(* cache or in the hands of the judge, and the answers so far are MaxSolves together.       *)
Judges(c, p) == Stands(c, "judge") /\ caller[c].p = p
Grants(c, p) == Stands(c, "grant") /\ caller[c].p = p
PuzzleOnce(p) ==
  /\ puzzle[p].fresh => /\ puzzle[p].left = 0 /\ solved[p].wrong = 0 /\ solved[p].passes = 0
                        /\ \A c \in Caller : ~Judges(c, p) /\ ~Grants(c, p)
  /\ puzzle[p].left + solved[p].wrong + solved[p].passes <= MaxSolves
  /\ solved[p].passes <= 1
  /\ puzzle[p].left > 0 => solved[p].passes = 0 /\ \A c \in Caller : ~Grants(c, p)
  /\ \A c \in Caller :
       /\ Judges(c, p) => /\ caller[c].left > 0 /\ caller[c].left + solved[p].wrong <= MaxSolves
                          /\ solved[p].passes = 0 /\ \A d \in Caller : ~Grants(d, p)
       /\ Grants(c, p) => solved[p].passes = 0 /\ solved[p].wrong < MaxSolves
       /\ \A d \in Caller : (\/ Judges(c, p) /\ Judges(d, p)
                             \/ Grants(c, p) /\ Grants(d, p)) => c = d
PuzzleInv == \A p \in Puzzle : solved[p].raced \/ PuzzleOnce(p)

(* A request judges only what it read as unsolved.                                          *)
JudgeInv == \A c \in Caller : Stands(c, "judge") => caller[c].left > 0

CaptchaInv == CaptchaTypeOK /\ JudgeInv /\ PassInv /\ PuzzleInv

(* What the steps need of types and constants, once for all of them.                       *)
LEMMA CaptchaTypes ==
  /\ Threshold \in Nat /\ Threshold > 0 /\ MaxSolves \in Nat /\ MaxSolves > 0
  /\ PuzzleLimit \in Nat /\ PuzzleLimit > 0 /\ MaxWindows \in Nat
  /\ NoCaller \in [at : {"idle"}, id : Identity, p : Puzzle, left : {0}]
  BY CaptchaAssumption, SomePuzzleAssumption DEF NoCaller

LEMMA CaptchaFields ==
  ASSUME CaptchaTypeOK
  PROVE  /\ \A p \in Puzzle : /\ puzzle[p].left \in 0..MaxSolves /\ puzzle[p].of \in Identity
                              /\ puzzle[p].fresh \in BOOLEAN /\ entered[p] \in Nat
                              /\ solved[p].passes \in Nat /\ solved[p].wrong \in Nat
                              /\ solved[p].raced \in BOOLEAN
         /\ \A c \in Caller : caller[c].p \in Puzzle /\ caller[c].id \in Identity
                              /\ caller[c].left \in 0..MaxSolves
  BY DEF CaptchaTypeOK

(* A puzzle's attempts and answers keep their types.                                        *)
LEMMA PuzzleLeftTyped ==
  ASSUME CaptchaTypeOK, NEW q \in Puzzle, NEW n \in 0..MaxSolves
  PROVE  /\ [puzzle EXCEPT ![q].left = n] \in [Puzzle -> [left : 0..MaxSolves, of : Identity,
                                                       fresh : BOOLEAN]]
         /\ \A p \in Puzzle : /\ p # q => [puzzle EXCEPT ![q].left = n][p] = puzzle[p]
                              /\ [puzzle EXCEPT ![q].left = n][p].fresh = puzzle[p].fresh
         /\ [puzzle EXCEPT ![q].left = n][q].left = n
<1> DEFINE S == 0..MaxSolves
<1>1. n \in S /\ puzzle \in [Puzzle -> [left : S, of : Identity, fresh : BOOLEAN]]
  BY DEF CaptchaTypeOK
<1> HIDE DEF S
<1>2. /\ [puzzle EXCEPT ![q].left = n] \in [Puzzle -> [left : S, of : Identity, fresh : BOOLEAN]]
      /\ \A p \in Puzzle : /\ p # q => [puzzle EXCEPT ![q].left = n][p] = puzzle[p]
                           /\ [puzzle EXCEPT ![q].left = n][p].fresh = puzzle[p].fresh
      /\ [puzzle EXCEPT ![q].left = n][q].left = n
  BY <1>1
<1>3. QED
  BY <1>2 DEF S

(* Nothing happened to puzzle p, or its key ran out, or a request left it.                  *)
LEMMA PuzzleUndisturbed ==
  ASSUME CaptchaTypeOK, NEW p \in Puzzle, PuzzleOnce(p),
         puzzle'[p].fresh = puzzle[p].fresh, puzzle'[p].left \in {0, puzzle[p].left},
         solved'[p].passes = solved[p].passes, solved'[p].wrong = solved[p].wrong,
         \A c \in Caller : /\ Judges(c, p)' => Judges(c, p) /\ caller'[c].left = caller[c].left
                           /\ Grants(c, p)' => Grants(c, p)
  PROVE  PuzzleOnce(p)'
  BY CaptchaTypes, CaptchaFields DEF PuzzleOnce

(* No pass is granted, read or deleted.                                                     *)
LEMMA PassUndisturbed ==
  ASSUME PassInv, UNCHANGED <<entered, shared>>,
         \A p \in Puzzle : /\ solved'[p].passes = solved[p].passes
                           /\ pass'[p] = "live" => pass[p] = "live"
                           /\ \A c \in Caller : Spends(c, p)' => Spends(c, p)
  PROVE  PassInv'
<1> SUFFICES ASSUME NEW p \in Puzzle, p \notin shared PROVE PassOnce(p)'
  BY DEF PassInv
<1>1. PassOnce(p)
  BY DEF PassInv
<1> QED
  BY <1>1 DEF PassOnce

LEMMA LeaveIs ==
  ASSUME CaptchaTypeOK, NEW c \in Caller, Leave(c)
  PROVE  /\ caller' \in [Caller -> [at : {"idle", "judge", "grant", "guard", "spend", "password", "done"},
                                    id : Identity, p : Puzzle, left : 0..MaxSolves]]
         /\ caller'[c].at = "done"
         /\ \A d \in Caller : d # c => caller'[d] = caller[d]
<1> DEFINE gone == [NoCaller EXCEPT !.at = "done"]
<1>1. /\ gone \in [at : {"idle", "judge", "grant", "guard", "spend", "password", "done"},
                    id : Identity, p : Puzzle, left : 0..MaxSolves]
      /\ gone.at = "done"
  BY CaptchaTypes
<1>2. caller' = [caller EXCEPT ![c] = gone]
  BY DEF Leave
<1> HIDE DEF gone
<1>3. QED
  BY <1>1, <1>2 DEF CaptchaTypeOK

(* A login touches neither puzzles nor those who answer them.                              *)
LEMMA LoginLeavesPuzzles ==
  ASSUME CaptchaInv, NEW c \in Caller, UNCHANGED <<puzzle, solved>>,
         caller'[c].at \in {"guard", "spend", "password", "done"},
         \A d \in Caller : d # c => caller'[d] = caller[d]
  PROVE  PuzzleInv'
<1> USE DEF CaptchaInv
<1> SUFFICES ASSUME NEW p \in Puzzle, ~solved'[p].raced PROVE PuzzleOnce(p)'
  BY DEF PuzzleInv
<1>1. PuzzleOnce(p)
  BY DEF PuzzleInv
<1>2. \A d \in Caller : /\ Judges(d, p)' => Judges(d, p) /\ caller'[d].left = caller[d].left
                        /\ Grants(d, p)' => Grants(d, p)
  BY DEF Judges, Grants, Stands
<1>3. QED
  BY <1>1, <1>2, PuzzleUndisturbed

(* The steps of a login that leave its pass alone.                                         *)
LEMMA LoginKeepsCaptcha ==
  ASSUME CaptchaInv, NEW c \in Caller,
         (\E i \in Identity : Arrive(c, i)) \/ FailOpen(c) \/ CheckPassword(c)
  PROVE  CaptchaInv'
<1> USE DEF CaptchaInv
<1>1. /\ UNCHANGED <<puzzle, pass, hits, solved, entered, shared>>
      /\ \A d \in Caller : d # c => caller'[d] = caller[d]
      /\ caller'[c].at \in {"guard", "password", "done"}
      /\ caller' \in [Caller -> [at : {"idle", "judge", "grant", "guard", "spend", "password", "done"},
                                 id : Identity, p : Puzzle, left : 0..MaxSolves]]
  <2>2. CASE \E i \in Identity : Arrive(c, i)
    <3>1. PICK i \in Identity : Arrive(c, i)
      BY <2>2
    <3>2. CASE failures[i] < Threshold
      BY <3>1, <3>2, CaptchaTypes, CaptchaFields DEF Arrive, CaptchaTypeOK
    <3>3. CASE ~(failures[i] < Threshold)
      BY <3>1, <3>3, CaptchaTypes, CaptchaFields DEF Arrive, CaptchaTypeOK
    <3>4. QED
      BY <3>2, <3>3
  <2>3. CASE FailOpen(c)
    BY <2>3 DEF FailOpen, CaptchaTypeOK
  <2>4. CASE CheckPassword(c)
    BY <2>4, LeaveIs DEF CheckPassword
  <2>5. QED
    BY <2>2, <2>3, <2>4
<1>2. failures' \in [Identity -> 0..Threshold]
  <2>1. CASE CheckPassword(c)
    <3>1. \A i \in Identity : failures[i] \in 0..Threshold
      BY DEF CaptchaTypeOK
    <3>2. QED
      BY <2>1, <3>1, CaptchaTypes DEF CheckPassword, CaptchaTypeOK
  <2>2. CASE ~CheckPassword(c)
    BY <2>2 DEF Arrive, FailOpen, CaptchaTypeOK
  <2>3. QED
    BY <2>1, <2>2
<1>4. CaptchaTypeOK'
  BY <1>1, <1>2 DEF CaptchaTypeOK
<1>5. PassInv'
  BY <1>1, PassUndisturbed DEF Spends, Stands
<1>6. PuzzleInv'
  BY <1>1, LoginLeavesPuzzles
<1>7. JudgeInv'
  BY <1>1 DEF JudgeInv, Stands
<1>8. QED
  BY <1>4, <1>5, <1>6, <1>7

(* getdel's read: a second reader of the same live pass is what `shared' records.           *)
LEMMA ReadPassKeepsCaptcha ==
  ASSUME CaptchaInv, NEW c \in Caller, NEW q \in Puzzle, ReadPass(c, q)
  PROVE  CaptchaInv'
<1> USE DEF CaptchaInv
<1>1. UNCHANGED <<failures, puzzle, pass, hits, solved, entered>>
  BY DEF ReadPass
<1>2. CASE pass[q] = "live"
  <2>1. /\ caller' = [caller EXCEPT ![c].at = "spend", ![c].p = q]
        /\ shared' = IF Spending(q) # {} THEN shared \cup {q} ELSE shared
    BY <1>2 DEF ReadPass
  <2>2. /\ caller' \in [Caller -> [at : {"idle", "judge", "grant", "guard", "spend", "password", "done"},
                                   id : Identity, p : Puzzle, left : 0..MaxSolves]]
        /\ caller'[c].at = "spend" /\ caller'[c].p = q
        /\ \A d \in Caller : d # c => caller'[d] = caller[d]
    <3> DEFINE S == 0..MaxSolves
    <3>1. caller \in [Caller -> [at : {"idle", "judge", "grant", "guard", "spend", "password", "done"},
                                 id : Identity, p : Puzzle, left : S]]
      BY DEF CaptchaTypeOK
    <3> HIDE DEF S
    <3>2. /\ caller' \in [Caller -> [at : {"idle", "judge", "grant", "guard", "spend", "password", "done"},
                                     id : Identity, p : Puzzle, left : S]]
          /\ caller'[c].at = "spend" /\ caller'[c].p = q
          /\ \A d \in Caller : d # c => caller'[d] = caller[d]
      BY <2>1, <3>1
    <3>3. QED
      BY <3>2 DEF S
  <2>3. CaptchaTypeOK'
    BY <1>1, <2>1, <2>2 DEF CaptchaTypeOK
  <2>4. PassInv'
    <3> SUFFICES ASSUME NEW p \in Puzzle, p \notin shared' PROVE PassOnce(p)'
      BY DEF PassInv
    <3>1. PassOnce(p)
      BY <2>1 DEF PassInv
    <3>2. \A d \in Caller : Spends(d, p)' => (d # c /\ Spends(d, p)) \/ (d = c /\ p = q)
      BY <2>2 DEF Spends, Stands
    <3>3. p = q => \A d \in Caller : ~Spends(d, p)
      BY <2>1 DEF Spending, Spends
    <3>4. QED
      BY <1>1, <1>2, <3>1, <3>2, <3>3 DEF PassOnce
  <2>5. PuzzleInv' /\ JudgeInv'
    BY <1>1, <2>2, LoginLeavesPuzzles DEF JudgeInv, Stands
  <2>6. QED
    BY <2>3, <2>4, <2>5
<1>3. CASE pass[q] # "live"
  <2>1. Leave(c) /\ UNCHANGED shared
    BY <1>3 DEF ReadPass
  <2>2. CaptchaTypeOK'
    BY <1>1, <2>1, LeaveIs DEF CaptchaTypeOK
  <2>3. PassInv'
    BY <1>1, <2>1, LeaveIs, PassUndisturbed DEF Spends, Stands
  <2>4. PuzzleInv' /\ JudgeInv'
    BY <1>1, <2>1, LeaveIs, LoginLeavesPuzzles DEF JudgeInv, Stands
  <2>5. QED
    BY <2>2, <2>3, <2>4
<1>4. QED
  BY <1>2, <1>3

(* getdel's delete, and the login the pass lets in.                                         *)
LEMMA DropPassKeepsCaptcha ==
  ASSUME CaptchaInv, NEW c \in Caller, DropPass(c)
  PROVE  CaptchaInv'
<1> USE DEF CaptchaInv
<1> DEFINE q == caller[c].p
<1>1. /\ UNCHANGED <<failures, puzzle, hits, solved, shared>> /\ q \in Puzzle
      /\ pass' = [pass EXCEPT ![q] = "gone"] /\ Spends(c, q)
  BY CaptchaFields DEF DropPass, Spends
<1>2. /\ caller' \in [Caller -> [at : {"idle", "judge", "grant", "guard", "spend", "password", "done"},
                                 id : Identity, p : Puzzle, left : 0..MaxSolves]]
      /\ caller'[c].at \in {"password", "done"}
      /\ \A d \in Caller : d # c => caller'[d] = caller[d]
      /\ entered' = entered \/ entered' = [entered EXCEPT ![q] = entered[q] + 1]
  <2>1. CASE puzzle[q].of = caller[c].id
    <3>1. caller' = [caller EXCEPT ![c].at = "password"] /\ entered' = [entered EXCEPT ![q] = entered[q] + 1]
      BY <2>1, <1>1 DEF DropPass, CaptchaTypeOK
    <3> HIDE DEF q
    <3>2. QED
      BY <3>1 DEF CaptchaTypeOK
  <2>2. CASE puzzle[q].of # caller[c].id
    BY <2>2, LeaveIs DEF DropPass
  <2>3. QED
    BY <2>1, <2>2
<1> HIDE DEF q
<1>3. CaptchaTypeOK'
  <2>1. pass' \in [Puzzle -> {"none", "live", "gone"}]
    BY <1>1 DEF CaptchaTypeOK
  <2>3. entered' \in [Puzzle -> Nat]
    BY <1>1, <1>2 DEF CaptchaTypeOK
  <2>2. QED
    BY <1>1, <1>2, <2>1, <2>3 DEF CaptchaTypeOK
<1>4. PassInv'
  <2> SUFFICES ASSUME NEW p \in Puzzle, p \notin shared PROVE PassOnce(p)'
    BY <1>1 DEF PassInv
  <2>1. PassOnce(p)
    BY DEF PassInv
  <2>2. \A d \in Caller : Spends(d, p)' => d # c /\ Spends(d, p)
    BY <1>2 DEF Spends, Stands
  <2>3. CASE p = q
    <3>1. entered[p] + 1 <= solved[p].passes /\ \A d \in Caller : Spends(d, p) => c = d
      BY <1>1, <2>1, <2>3 DEF PassOnce
    <3>2. pass'[p] = "gone" /\ entered'[p] \in {entered[p], entered[p] + 1} /\ solved' = solved
      BY <1>1, <1>2, <2>3 DEF CaptchaTypeOK
    <3>3. \A d \in Caller : ~Spends(d, p)'
      BY <2>2, <3>1
    <3>4. QED
      BY <2>1, <3>1, <3>2, <3>3, CaptchaFields DEF PassOnce
  <2>4. CASE p # q
    <3>1. pass'[p] = pass[p] /\ entered'[p] = entered[p] /\ solved' = solved
      BY <1>1, <1>2, <2>4 DEF CaptchaTypeOK
    <3>2. QED
      BY <2>1, <2>2, <3>1 DEF PassOnce
  <2>5. QED
    BY <2>3, <2>4
<1>5. PuzzleInv' /\ JudgeInv'
  BY <1>1, <1>2, LoginLeavesPuzzles DEF JudgeInv, Stands
<1>6. QED
  BY <1>3, <1>4, <1>5

(* Somebody reads the puzzle: the overlap it may make is what `raced' records.              *)
LEMMA ReadPuzzleKeepsCaptcha ==
  ASSUME CaptchaInv, NEW c \in Caller, NEW q \in Puzzle, ReadPuzzle(c, q)
  PROVE  CaptchaInv'
<1> USE DEF CaptchaInv
<1>1. /\ UNCHANGED <<failures, puzzle, pass, hits, entered, shared>>
      /\ caller' = [caller EXCEPT ![c] = [at |-> "judge", id |-> puzzle[q].of,
                                          p |-> q, left |-> puzzle[q].left]]
      /\ solved' = [solved EXCEPT ![q].raced = solved[q].raced \/ Solving(q) # {}]
      /\ puzzle[q].left > 0 /\ caller[c].at = "idle"
  BY DEF ReadPuzzle, Stands, CaptchaTypeOK
<1>2. \A p \in Puzzle : /\ solved'[p].passes = solved[p].passes /\ solved'[p].wrong = solved[p].wrong
                        /\ ~solved'[p].raced => ~solved[p].raced /\ (p = q => Solving(q) = {})
  BY <1>1 DEF CaptchaTypeOK
<1>3. CaptchaTypeOK'
  <2>1. caller' \in [Caller -> [at : {"idle", "judge", "grant", "guard", "spend", "password", "done"},
                                id : Identity, p : Puzzle, left : 0..MaxSolves]]
    BY <1>1, CaptchaFields DEF CaptchaTypeOK
  <2>2. solved' \in [Puzzle -> [passes : Nat, wrong : Nat, raced : BOOLEAN]]
    <3> DEFINE r == solved[q].raced \/ Solving(q) # {}
    <3>1. r \in BOOLEAN
      BY CaptchaFields
    <3>2. solved' = [solved EXCEPT ![q].raced = r]
      BY <1>1
    <3> HIDE DEF r
    <3>3. QED
      BY <3>1, <3>2 DEF CaptchaTypeOK
  <2>3. QED
    BY <1>1, <2>1, <2>2 DEF CaptchaTypeOK
<1>8. caller'[c].at = "judge" /\ \A d \in Caller : d # c => caller'[d] = caller[d]
  BY <1>1 DEF CaptchaTypeOK
<1>4. PassInv'
  BY <1>1, <1>2, <1>8, PassUndisturbed DEF Spends, Stands
<1>5. PuzzleInv'
  <2> SUFFICES ASSUME NEW p \in Puzzle, ~solved'[p].raced PROVE PuzzleOnce(p)'
    BY DEF PuzzleInv
  <2>1. PuzzleOnce(p)
    BY <1>2 DEF PuzzleInv
  <2>2. /\ caller'[c] = [at |-> "judge", id |-> puzzle[q].of, p |-> q, left |-> puzzle[q].left]
        /\ \A d \in Caller : d # c => caller'[d] = caller[d]
    BY <1>1 DEF CaptchaTypeOK
  <2>3. CASE p # q
    <3>1. \A d \in Caller : /\ Judges(d, p)' => Judges(d, p) /\ caller'[d].left = caller[d].left
                            /\ Grants(d, p)' => Grants(d, p)
      BY <2>2, <2>3 DEF Judges, Grants, Stands
    <3>2. QED
      BY <1>1, <1>2, <2>1, <3>1, PuzzleUndisturbed
  <2>4. CASE p = q
    <3>1. \A d \in Caller : ~Judges(d, p)
      BY <1>2, <2>4 DEF Solving, Judges
    <3>2. \A d \in Caller : /\ Judges(d, p)' <=> d = c
                            /\ Grants(d, p)' <=> (d # c /\ Grants(d, p))
      BY <2>2, <2>4, <3>1 DEF Judges, Grants, Stands
    <3>3. QED
      BY <1>1, <1>2, <2>1, <2>2, <2>4, <3>2, CaptchaFields DEF PuzzleOnce
  <2>5. QED
    BY <2>3, <2>4
<1>6. JudgeInv'
  BY <1>1 DEF JudgeInv, Stands, CaptchaTypeOK
<1>7. QED
  BY <1>3, <1>4, <1>5, <1>6

(* The judge writes: a wrong answer stores the attempts it had read, less one; a right one  *)
(* burns the key and goes on to grant the pass.                                             *)
LEMMA MissKeepsCaptcha ==
  ASSUME CaptchaInv, NEW c \in Caller, Miss(c)
  PROVE  CaptchaInv'
<1> USE DEF CaptchaInv
<1> DEFINE q == caller[c].p
<1>1. /\ q \in Puzzle /\ caller[c].left \in 0..MaxSolves /\ Judges(c, q)
      /\ UNCHANGED <<failures, pass, hits, entered, shared>>
      /\ puzzle' = [puzzle EXCEPT ![q].left = caller[c].left - 1]
      /\ solved' = [solved EXCEPT ![q].wrong = solved[q].wrong + 1]
      /\ Leave(c)
  BY CaptchaFields DEF Miss, Judges, CaptchaTypeOK
<1>2. /\ caller' \in [Caller -> [at : {"idle", "judge", "grant", "guard", "spend", "password", "done"},
                                 id : Identity, p : Puzzle, left : 0..MaxSolves]]
      /\ caller'[c].at = "done" /\ \A d \in Caller : d # c => caller'[d] = caller[d]
  BY <1>1, LeaveIs
<1>3. /\ \A p \in Puzzle : /\ solved'[p].passes = solved[p].passes /\ solved'[p].raced = solved[p].raced
                           /\ puzzle'[p].fresh = puzzle[p].fresh
                           /\ p # q => solved'[p] = solved[p] /\ puzzle'[p] = puzzle[p]
      /\ solved'[q].wrong = solved[q].wrong + 1 /\ puzzle'[q].left = caller[c].left - 1
  BY <1>1 DEF CaptchaTypeOK
<1>4. PassInv'
  BY <1>1, <1>2, <1>3, PassUndisturbed DEF Spends, Stands
<1>5. caller[c].left > 0
  BY <1>1 DEF JudgeInv, Judges
<1>6. CaptchaTypeOK'
  <2>1. caller[c].left - 1 \in 0..MaxSolves
    BY <1>1, <1>5, CaptchaTypes
  <2>2. puzzle' \in [Puzzle -> [left : 0..MaxSolves, of : Identity, fresh : BOOLEAN]]
    BY <1>1, <2>1, PuzzleLeftTyped
  <2>3. solved' \in [Puzzle -> [passes : Nat, wrong : Nat, raced : BOOLEAN]]
    <3> HIDE DEF q
    <3>1. solved[q].wrong + 1 \in Nat
      BY <1>1, CaptchaFields
    <3>2. QED
      BY <1>1, <3>1 DEF CaptchaTypeOK
  <2>4. QED
    BY <1>1, <1>2, <2>2, <2>3 DEF CaptchaTypeOK
<1>7. JudgeInv'
  BY <1>2 DEF JudgeInv, Stands
<1>8. PuzzleInv'
  <2> SUFFICES ASSUME NEW p \in Puzzle, ~solved'[p].raced PROVE PuzzleOnce(p)'
    BY DEF PuzzleInv
  <2>1. PuzzleOnce(p)
    BY <1>3 DEF PuzzleInv
  <2>2. \A d \in Caller : /\ Judges(d, p)' => d # c /\ Judges(d, p) /\ caller'[d].left = caller[d].left
                          /\ Grants(d, p)' => Grants(d, p)
    BY <1>2 DEF Judges, Grants, Stands
  <2>3. CASE p # q
    BY <1>3, <2>1, <2>2, <2>3, PuzzleUndisturbed
  <2>4. CASE p = q
    <3>0. Judges(c, p)
      BY <1>1, <2>4
    <3>a. \A d \in Caller : ~Grants(d, p) /\ (Judges(d, p) => d = c)
      BY <2>1, <3>0 DEF PuzzleOnce
    <3>1. \A d \in Caller : ~Judges(d, p)' /\ ~Grants(d, p)'
      BY <2>2, <3>a
    <3>2. ~puzzle[p].fresh /\ caller[c].left + solved[p].wrong <= MaxSolves /\ solved[p].passes = 0
      BY <1>1, <2>1, <2>4 DEF PuzzleOnce
    <3>3. QED
      BY <1>3, <1>5, <2>4, <3>1, <3>2, CaptchaTypes, CaptchaFields DEF PuzzleOnce
  <2>5. QED
    BY <2>3, <2>4
<1>9. QED
  BY <1>4, <1>6, <1>7, <1>8

LEMMA BurnKeepsCaptcha ==
  ASSUME CaptchaInv, NEW c \in Caller, Burn(c)
  PROVE  CaptchaInv'
<1> USE DEF CaptchaInv
<1> DEFINE q == caller[c].p
<1>1. /\ q \in Puzzle /\ Judges(c, q)
      /\ UNCHANGED <<failures, pass, hits, solved, entered, shared>>
      /\ puzzle' = [puzzle EXCEPT ![q].left = 0]
      /\ caller' = [caller EXCEPT ![c].at = "grant"]
  BY CaptchaFields DEF Burn, Judges
<1>2. CaptchaTypeOK'
  <2>1. puzzle' \in [Puzzle -> [left : 0..MaxSolves, of : Identity, fresh : BOOLEAN]]
    BY <1>1, CaptchaTypes, PuzzleLeftTyped
  <2>2. QED
    BY <1>1, <2>1 DEF CaptchaTypeOK
<1>6. caller'[c].at = "grant" /\ \A d \in Caller : d # c => caller'[d] = caller[d]
  BY <1>1 DEF CaptchaTypeOK
<1>3. PassInv' /\ JudgeInv'
  BY <1>1, <1>6, PassUndisturbed DEF Spends, JudgeInv, Stands
<1>4. PuzzleInv'
  <2> SUFFICES ASSUME NEW p \in Puzzle, ~solved'[p].raced PROVE PuzzleOnce(p)'
    BY DEF PuzzleInv
  <2>1. PuzzleOnce(p)
    BY <1>1 DEF PuzzleInv
  <2>2. \A d \in Caller : /\ Judges(d, p)' => d # c /\ Judges(d, p)
                          /\ Grants(d, p)' => Grants(d, p) \/ (d = c /\ p = q)
                          /\ caller'[d].left = caller[d].left
    <3>1. /\ caller'[c].at = "grant" /\ caller'[c].p = q /\ caller'[c].left = caller[c].left
          /\ \A d \in Caller : d # c => caller'[d] = caller[d]
      BY <1>1 DEF CaptchaTypeOK
    <3> HIDE DEF q
    <3>2. QED
      BY <1>1, <3>1 DEF Judges, Grants, Stands
  <2>3. /\ puzzle'[p].fresh = puzzle[p].fresh /\ puzzle'[p].left \in {0, puzzle[p].left}
        /\ p = q => puzzle'[p].left = 0
    BY <1>1 DEF CaptchaTypeOK
  <2>4. CASE p # q
    BY <1>1, <2>1, <2>2, <2>3, <2>4, PuzzleUndisturbed
  <2>5. CASE p = q
    <3>0. Judges(c, p)
      BY <1>1, <2>5
    <3>a. \A d \in Caller : ~Grants(d, p) /\ (Judges(d, p) => d = c)
      BY <2>1, <3>0 DEF PuzzleOnce
    <3>1. \A d \in Caller : ~Judges(d, p)' /\ (Grants(d, p)' => d = c)
      BY <2>2, <3>a
    <3>2. /\ ~puzzle[p].fresh /\ solved[p].passes = 0
          /\ caller[c].left > 0 /\ caller[c].left + solved[p].wrong <= MaxSolves
      BY <1>1, <2>1, <2>5 DEF PuzzleOnce
    <3>3. solved[p].wrong < MaxSolves
      BY <1>1, <3>2, CaptchaTypes, CaptchaFields
    <3>4. QED
      BY <1>1, <2>3, <2>5, <3>1, <3>2, <3>3, CaptchaTypes, CaptchaFields DEF PuzzleOnce
  <2>6. QED
    BY <2>4, <2>5
<1>5. QED
  BY <1>2, <1>3, <1>4

LEMMA GrantKeepsCaptcha ==
  ASSUME CaptchaInv, NEW c \in Caller, Grant(c)
  PROVE  CaptchaInv'
<1> USE DEF CaptchaInv
<1> DEFINE q == caller[c].p
<1>1. /\ q \in Puzzle /\ Grants(c, q)
      /\ UNCHANGED <<failures, puzzle, hits, entered, shared>>
      /\ pass' = [pass EXCEPT ![q] = "live"]
      /\ solved' = [solved EXCEPT ![q].passes = solved[q].passes + 1]
      /\ Leave(c)
  BY CaptchaFields DEF Grant, Grants, CaptchaTypeOK
<1>2. /\ caller' \in [Caller -> [at : {"idle", "judge", "grant", "guard", "spend", "password", "done"},
                                 id : Identity, p : Puzzle, left : 0..MaxSolves]]
      /\ caller'[c].at = "done" /\ \A d \in Caller : d # c => caller'[d] = caller[d]
  BY <1>1, LeaveIs
<1>3. /\ \A p \in Puzzle : /\ solved'[p].wrong = solved[p].wrong /\ solved'[p].raced = solved[p].raced
                           /\ p # q => solved'[p] = solved[p] /\ pass'[p] = pass[p]
      /\ solved'[q].passes = solved[q].passes + 1
  BY <1>1 DEF CaptchaTypeOK
<1>4. CaptchaTypeOK'
  <2>1. solved' \in [Puzzle -> [passes : Nat, wrong : Nat, raced : BOOLEAN]]
    BY <1>1, CaptchaFields DEF CaptchaTypeOK
  <2>2. pass' \in [Puzzle -> {"none", "live", "gone"}]
    BY <1>1 DEF CaptchaTypeOK
  <2>3. QED
    BY <1>1, <1>2, <2>1, <2>2 DEF CaptchaTypeOK
<1>5. PassInv'
  <2> SUFFICES ASSUME NEW p \in Puzzle, p \notin shared PROVE PassOnce(p)'
    BY <1>1 DEF PassInv
  <2>1. PassOnce(p) /\ entered[p] \in Nat /\ solved[p].passes \in Nat
    BY CaptchaFields DEF PassInv
  <2>2. \A d \in Caller : Spends(d, p)' => Spends(d, p)
    BY <1>2 DEF Spends, Stands
  <2>3. CASE p = q
    <3>1. solved'[p].passes = solved[p].passes + 1 /\ entered' = entered
      BY <1>1, <1>3, <2>3
    <3>2. QED
      BY <2>1, <2>2, <3>1 DEF PassOnce
  <2>4. CASE p # q
    BY <1>1, <1>3, <2>1, <2>2, <2>4 DEF PassOnce
  <2>5. QED
    BY <2>3, <2>4
<1>6. JudgeInv'
  BY <1>2 DEF JudgeInv, Stands
<1>7. PuzzleInv'
  <2> SUFFICES ASSUME NEW p \in Puzzle, ~solved'[p].raced PROVE PuzzleOnce(p)'
    BY DEF PuzzleInv
  <2>1. PuzzleOnce(p)
    BY <1>3 DEF PuzzleInv
  <2>2. \A d \in Caller : /\ Judges(d, p)' => Judges(d, p) /\ caller'[d].left = caller[d].left
                          /\ Grants(d, p)' => d # c /\ Grants(d, p)
    BY <1>2 DEF Judges, Grants, Stands
  <2>3. CASE p # q
    BY <1>1, <1>3, <2>1, <2>2, <2>3, PuzzleUndisturbed
  <2>4. CASE p = q
    <3>1. \A d \in Caller : ~Judges(d, p)' /\ ~Grants(d, p)'
      BY <1>1, <2>1, <2>2, <2>4 DEF PuzzleOnce
    <3>2. ~puzzle[p].fresh /\ puzzle[p].left = 0 /\ solved[p].passes = 0 /\ solved[p].wrong < MaxSolves
      BY <1>1, <2>1, <2>4, CaptchaFields DEF PuzzleOnce
    <3>3. QED
      BY <1>1, <1>3, <2>4, <3>1, <3>2, CaptchaTypes, CaptchaFields DEF PuzzleOnce
  <2>5. QED
    BY <2>3, <2>4
<1>8. QED
  BY <1>4, <1>5, <1>6, <1>7

(* A fresh puzzle has no answers yet, so its key starts with all its attempts.              *)
LEMMA IssueKeepsCaptcha ==
  ASSUME CaptchaInv, NEW q \in Puzzle, NEW i \in Identity, IssuePuzzle(q, i)
  PROVE  CaptchaInv'
<1> USE DEF CaptchaInv
<1>1. UNCHANGED <<failures, pass, caller, solved, entered, shared>> /\ puzzle[q].fresh
  BY DEF IssuePuzzle
<1>2. hits' \in [n : 0..PuzzleLimit + 1, window : 0..MaxWindows]
  BY CaptchaTypes DEF IssuePuzzle, CaptchaTypeOK
<1>3. \/ puzzle' = puzzle
      \/ puzzle' = [puzzle EXCEPT ![q] = [left |-> MaxSolves, of |-> i, fresh |-> FALSE]]
  BY DEF IssuePuzzle
<1>4. CaptchaTypeOK'
  <2>1. puzzle' \in [Puzzle -> [left : 0..MaxSolves, of : Identity, fresh : BOOLEAN]]
    <3> DEFINE S == 0..MaxSolves
    <3>1. i \in Identity /\ MaxSolves \in S /\ puzzle \in [Puzzle -> [left : S, of : Identity, fresh : BOOLEAN]]
      BY CaptchaTypes DEF CaptchaTypeOK
    <3> HIDE DEF S
    <3>2. puzzle' \in [Puzzle -> [left : S, of : Identity, fresh : BOOLEAN]]
      <4> DEFINE new == [left |-> MaxSolves, of |-> i, fresh |-> FALSE]
      <4>1. new \in [left : S, of : Identity, fresh : BOOLEAN]
        BY <3>1
      <4>2. puzzle' = puzzle \/ puzzle' = [puzzle EXCEPT ![q] = new]
        BY <1>3
      <4> HIDE DEF new
      <4>3. QED
        BY <3>1, <4>1, <4>2
    <3>3. QED
      BY <3>2 DEF S
  <2>2. QED
    BY <1>1, <1>2, <2>1 DEF CaptchaTypeOK
<1>5. PassInv' /\ JudgeInv'
  BY <1>1, PassUndisturbed DEF Spends, JudgeInv, Stands
<1>6. PuzzleInv'
  <2> SUFFICES ASSUME NEW p \in Puzzle, ~solved'[p].raced PROVE PuzzleOnce(p)'
    BY DEF PuzzleInv
  <2>1. PuzzleOnce(p) /\ (\A d \in Caller : /\ Judges(d, p)' => Judges(d, p)
                                            /\ Grants(d, p)' => Grants(d, p)
                                            /\ caller'[d].left = caller[d].left)
    BY <1>1 DEF PuzzleInv, Judges, Grants, Stands
  <2>2. CASE puzzle'[p] = puzzle[p]
    BY <1>1, <2>1, <2>2, PuzzleUndisturbed
  <2>3. CASE p = q /\ puzzle'[p] = [left |-> MaxSolves, of |-> i, fresh |-> FALSE]
    BY <1>1, <2>1, <2>3, CaptchaTypes, CaptchaFields DEF PuzzleOnce
  <2>4. QED
    BY <1>3, <2>2, <2>3 DEF CaptchaTypeOK
<1>7. QED
  BY <1>4, <1>5, <1>6

(* Time: the limiter's window and the keys.                                                 *)
LEMMA TimeKeepsCaptcha ==
  ASSUME CaptchaInv, WindowEnds \/ KeyExpires
  PROVE  CaptchaInv'
<1> USE DEF CaptchaInv
<1>1. UNCHANGED <<caller, solved, entered, shared>>
  BY DEF WindowEnds, KeyExpires
<1>2. hits' \in [n : 0..PuzzleLimit + 1, window : 0..MaxWindows]
  BY CaptchaTypes DEF WindowEnds, KeyExpires, CaptchaTypeOK
<1>3. failures' \in [Identity -> 0..Threshold]
  BY CaptchaTypes DEF WindowEnds, KeyExpires, CaptchaTypeOK
<1>4. /\ pass' \in [Puzzle -> {"none", "live", "gone"}]
      /\ \A p \in Puzzle : pass'[p] = "live" => pass[p] = "live"
  BY DEF WindowEnds, KeyExpires, CaptchaTypeOK
<1>5. \/ puzzle' = puzzle
      \/ \E q \in Puzzle : puzzle' = [puzzle EXCEPT ![q].left = 0]
  BY DEF WindowEnds, KeyExpires
<1>6. CaptchaTypeOK'
  <2>1. puzzle' \in [Puzzle -> [left : 0..MaxSolves, of : Identity, fresh : BOOLEAN]]
    BY <1>5, CaptchaTypes, PuzzleLeftTyped DEF CaptchaTypeOK
  <2>2. QED
    BY <1>1, <1>2, <1>3, <1>4, <2>1 DEF CaptchaTypeOK
<1>7. PassInv' /\ JudgeInv'
  BY <1>1, <1>4, PassUndisturbed DEF Spends, JudgeInv, Stands
<1>8. PuzzleInv'
  <2> SUFFICES ASSUME NEW p \in Puzzle, ~solved'[p].raced PROVE PuzzleOnce(p)'
    BY DEF PuzzleInv
  <2>1. PuzzleOnce(p) /\ (\A d \in Caller : /\ Judges(d, p)' => Judges(d, p)
                                            /\ Grants(d, p)' => Grants(d, p)
                                            /\ caller'[d].left = caller[d].left)
    BY <1>1 DEF PuzzleInv, Judges, Grants, Stands
  <2>2. puzzle'[p].fresh = puzzle[p].fresh /\ puzzle'[p].left \in {0, puzzle[p].left}
    BY <1>5 DEF CaptchaTypeOK
  <2>3. QED
    BY <1>1, <2>1, <2>2, PuzzleUndisturbed
<1>9. QED
  BY <1>6, <1>7, <1>8

LEMMA CaptchaInvHolds == CaptchaSpec => []CaptchaInv
<1>1. CaptchaInit => CaptchaInv
  <2> SUFFICES ASSUME CaptchaInit PROVE CaptchaInv
    OBVIOUS
  <2>1. failures \in [Identity -> 0..Threshold]
    BY CaptchaTypes DEF CaptchaInit
  <2>2. CaptchaTypeOK
    BY <2>1, CaptchaTypes, SomePuzzleAssumption DEF CaptchaInit, CaptchaTypeOK
  <2>3. \A c \in Caller : caller[c].at = "idle"
    BY DEF CaptchaInit, NoCaller
  <2>4. PassInv /\ JudgeInv /\ PuzzleInv
    BY <2>3, CaptchaTypes
    DEF CaptchaInit, PassInv, PassOnce, Spends, JudgeInv, PuzzleInv, PuzzleOnce, Judges, Grants, Stands
  <2>5. QED
    BY <2>2, <2>4 DEF CaptchaInv
<1>2. CaptchaInv /\ [CaptchaNext]_captchaVars => CaptchaInv'
  <2> SUFFICES ASSUME CaptchaInv, [CaptchaNext]_captchaVars PROVE CaptchaInv'
    OBVIOUS
  <2>1. ASSUME NEW c \in Caller,
               \/ \E p \in Puzzle : ReadPuzzle(c, p) \/ ReadPass(c, p)
               \/ DropPass(c)
               \/ \E i \in Identity : Arrive(c, i)
               \/ Miss(c) \/ Burn(c) \/ Grant(c) \/ FailOpen(c) \/ CheckPassword(c)
        PROVE  CaptchaInv'
    BY <2>1, ReadPuzzleKeepsCaptcha, ReadPassKeepsCaptcha, DropPassKeepsCaptcha, LoginKeepsCaptcha, MissKeepsCaptcha, BurnKeepsCaptcha,
       GrantKeepsCaptcha
  <2>2. CASE UNCHANGED captchaVars
    BY <2>2 DEF captchaVars, CaptchaInv, CaptchaTypeOK, JudgeInv, PassInv, PassOnce, Spends, PuzzleInv, PuzzleOnce,
                Judges, Grants, Stands
  <2>3. QED
    BY <2>1, <2>2, IssueKeepsCaptcha, TimeKeepsCaptcha DEF CaptchaNext
<1>3. QED
  BY <1>1, <1>2, PTL DEF CaptchaSpec

(* Unless two answers overlapped, a puzzle takes MaxSolves wrong answers at most and yields *)
(* one pass, after which it is burnt; and unless two logins read it before either deleted   *)
(* it, a pass lets in one login for each time it was granted.                               *)
THEOREM CaptchaHoldsTheorem == CaptchaSpec => []CaptchaHolds
<1>1. CaptchaInv => CaptchaHolds
  <2> SUFFICES ASSUME CaptchaInv, NEW p \in Puzzle
               PROVE  /\ ~solved[p].raced => /\ solved[p].passes <= 1
                                             /\ solved[p].wrong + solved[p].passes <= MaxSolves
                      /\ p \notin shared => entered[p] <= solved[p].passes
    BY DEF CaptchaHolds
  <2>1. p \notin shared => entered[p] <= solved[p].passes
    BY DEF CaptchaInv, PassInv, PassOnce
  <2>2. CASE ~solved[p].raced
    <3>1. PuzzleOnce(p)
      BY <2>2 DEF CaptchaInv, PuzzleInv
    <3>2. QED
      BY <2>1, <3>1, CaptchaTypes, CaptchaFields DEF CaptchaInv, PuzzleOnce
  <2>3. QED
    BY <2>1, <2>2
<1>2. QED
  BY <1>1, CaptchaInvHolds, PTL

--------------------------------------------------------------------------------
(* Federation.                                                                       *)

(* A visit that has a token is past the step that minted it; the token is of the account its  *)
(* identity is linked to.                                                                      *)
Paired == {"refresh", "code", "signed"}
Minted(n) ==
  LET v == tokens[n].by
  IN  v # Elsewhere =>
      /\ visit[v].at \in Paired \cup {"handed", "failed"} /\ visit[v].access = {}
      /\ tokens[n].of = visit[v].as /\ tokens[n].of = link[visit[v].who]

(* The visit's own state at each step: the account it mints for is the one of its link; it     *)
(* has minted what the step before minted; and a visit that fetches tokens with a code goes    *)
(* back to a visit that has issued one for its own account.                                    *)
Has(v, kind) == \E n \in DOMAIN tokens : tokens[n].by = v /\ tokens[n].kind = kind
Fetches(v) == \/ On(v, "burn") \/ On(v, "newestAccess") \/ On(v, "newestRefresh")
              \/ On(v, "handed") /\ visit[v].access # {}
Lost(v) == Struck(visit[v].from)
Taken(v) ==
  /\ visit[v].access # {} => On(v, "newestRefresh") \/ On(v, "handed") \/ On(v, "failed")
  /\ Fetches(v) => /\ visit[v].from \in Visit /\ On(visit[v].from, "signed")
                   /\ visit[v].as = visit[visit[v].from].as
  /\ visit[v].from \notin crowded =>
       /\ On(v, "newestRefresh") => visit[v].access \subseteq {visit[v].from} \/ Lost(v)
       /\ On(v, "handed") /\ visit[v].access # {} =>
            /\ visit[v].refresh = {visit[v].from}
            /\ visit[v].access = {visit[v].from} \/ Lost(v)
VisitInv(v) ==
  /\ visit[v].at \in {"access"} \cup Paired => link[visit[v].who] = visit[v].as
  /\ visit[v].at \in Paired => Has(v, "access")
  /\ visit[v].at \in {"code", "signed"} => Has(v, "refresh")
  /\ exchange[v] = "live" => On(v, "signed")
  /\ Taken(v)

(* After the first token of a visit that nobody crowded, all tokens of its account are its     *)
(* own; and its refresh token is dead only if all those before it are, because only a sign-in  *)
(* elsewhere, which would have crowded it, can have spent it alone.                            *)
Apart(v) == v \in Visit /\ v \notin crowded /\ visit[v].at \in Paired
OwnFromThere(n, m) ==
  Apart(tokens[n].by) /\ tokens[m].of = tokens[n].of => tokens[m].by = tokens[n].by
LiveFromThere(n, m) ==
  /\ Apart(tokens[m].by) /\ tokens[m].of = tokens[n].of
  /\ tokens[n].kind = "refresh" /\ tokens[m].kind = "refresh" /\ tokens[n].live
  => tokens[m].live
TokenInv ==
  \A n \in DOMAIN tokens :
    /\ Minted(n)
    /\ \A m \in DOMAIN tokens : n < m => OwnFromThere(n, m) /\ LiveFromThere(n, m)

FederationInv == FederationTypeOK /\ TokenInv /\ \A v \in Visit : VisitInv(v)

VisitRow == [at : Steps_, who : Foreign, row : Attempt, from : Account, as : Account,
             email : Address, access : SUBSET Minter, refresh : SUBSET Minter]

LEMMA FederationFields ==
  ASSUME FederationTypeOK
  PROVE  /\ visit \in [Visit -> VisitRow] /\ DOMAIN tokens = 1..Len(tokens) /\ Len(tokens) \in Nat
         /\ \A n \in DOMAIN tokens : /\ n \in Nat /\ tokens[n] \in Token /\ tokens[n].by \in Minter
                                     /\ tokens[n].by \in Visit <=> tokens[n].by # Elsewhere
                                     /\ tokens[n].of \in Account /\ tokens[n].of # "none"
                                     /\ tokens[n].live \in BOOLEAN
         /\ \A v \in Visit : /\ visit[v].at \in Steps_ /\ visit[v].who \in Foreign
                             /\ visit[v].row \in Attempt
                             /\ visit[v].as \in Account /\ visit[v].as # "none"
                             /\ visit[v].from \in Account /\ visit[v].email \in Address
                             /\ visit[v].access \subseteq Minter /\ visit[v].refresh \subseteq Minter
         /\ \A i \in Foreign : link[i] \in Account \cup {"none"}
<1>1. tokens \in Seq(Token) /\ visit \in [Visit -> VisitRow] /\ link \in [Foreign -> Account \cup {"none"}]
  BY DEF FederationTypeOK, VisitRow
<1>2. "none" \notin Account
  BY LocalAssumption DEF Account
<1>3. DOMAIN tokens = 1..Len(tokens) /\ Len(tokens) \in Nat /\ \A n \in DOMAIN tokens : n \in Nat /\ tokens[n] \in Token
  BY <1>1
<1>4. \A n \in DOMAIN tokens : /\ tokens[n].by \in Minter /\ tokens[n].of \in Account
                               /\ tokens[n].live \in BOOLEAN
                               /\ tokens[n].by \in Visit <=> tokens[n].by # Elsewhere
  BY <1>3, LocalAssumption DEF Token, Minter
<1>5. QED
  BY <1>1, <1>2, <1>3, <1>4 DEF VisitRow

LEMMA GotoIs ==
  ASSUME FederationTypeOK, NEW v \in Visit, NEW step \in Steps_, visit' = [visit EXCEPT ![v].at = step]
  PROVE  /\ visit' \in [Visit -> VisitRow] /\ visit'[v].at = step
         /\ \A u \in Visit : /\ u # v => visit'[u] = visit[u]
                             /\ visit'[u].who = visit[u].who /\ visit'[u].as = visit[u].as
                             /\ visit'[u].access = visit[u].access
                             /\ visit'[u].from = visit[u].from
  BY FederationFields DEF VisitRow

(* What a visit has fetched stands as long as the visit it fetched from does.                  *)
LEMMA TakenStands ==
  ASSUME NEW u \in Visit, Taken(u), visit'[u] = visit[u], crowded \subseteq crowded',
         visit[u].from \in Visit /\ On(visit[u].from, "signed") =>
           /\ visit'[visit[u].from] = visit[visit[u].from]
           /\ Lost(u) => Lost(u)'
  PROVE  Taken(u)'
<1>1. Fetches(u)' => Fetches(u)
  BY DEF Fetches, On
<1>2. visit'[u].access # {} => (On(u, "newestRefresh") \/ On(u, "handed") \/ On(u, "failed"))'
  BY DEF Taken, On
<1>3. Fetches(u)' => /\ visit'[u].from \in Visit /\ On(visit[u].from, "signed")'
                     /\ visit'[u].as = visit'[visit'[u].from].as
  BY <1>1 DEF Taken, On
<1>4. visit'[u].from \notin crowded' => visit[u].from \notin crowded
  OBVIOUS
<1>5. visit'[u].from \notin crowded' =>
        /\ On(u, "newestRefresh")' => visit'[u].access \subseteq {visit'[u].from} \/ Lost(u)'
        /\ On(u, "handed")' /\ visit'[u].access # {} =>
             /\ visit'[u].refresh = {visit'[u].from}
             /\ visit'[u].access = {visit'[u].from} \/ Lost(u)'
  BY <1>1, <1>4 DEF Taken, Fetches, On
<1>6. QED
  BY <1>2, <1>3, <1>5 DEF Taken, On

(* A visit without a token takes a step that mints none.                                       *)
LEMMA OneVisitMoves ==
  ASSUME FederationInv, FederationTypeOK', NEW v \in Visit,
         visit[v].at \notin Paired \cup {"handed", "failed"}, visit'[v].at \notin Paired,
         UNCHANGED <<tokens, crowded>>,
         \A u \in Visit : u # v => visit'[u] = visit[u],
         \A i \in Foreign : link[i] # "none" => link'[i] = link[i],
         \A u \in Visit : exchange'[u] = "live" => exchange[u] = "live",
         visit'[v].at = "access" => link'[visit'[v].who] = visit'[v].as,
         Taken(v)'
  PROVE  FederationInv'
<1> USE DEF FederationInv
<1>1. \A n \in DOMAIN tokens : tokens[n].by # v
  BY LocalAssumption, FederationFields DEF TokenInv, Minted
<1>2. TokenInv'
  <2> SUFFICES ASSUME NEW n \in DOMAIN tokens
               PROVE  /\ Minted(n)'
                      /\ \A m \in DOMAIN tokens : n < m => OwnFromThere(n, m)' /\ LiveFromThere(n, m)'
    BY DEF TokenInv
  <2>1. \A m \in DOMAIN tokens : tokens[m].by # Elsewhere =>
          visit'[tokens[m].by] = visit[tokens[m].by] /\ tokens[m].by \in Visit
    BY <1>1, FederationFields
  <2>2. Minted(n)'
    BY <2>1, FederationFields DEF TokenInv, Minted
  <2>3. \A m \in DOMAIN tokens : Apart(tokens[m].by)' => Apart(tokens[m].by)
    BY <2>1, FederationFields DEF Apart
  <2>5. \A m \in DOMAIN tokens : n < m => OwnFromThere(n, m)' /\ LiveFromThere(n, m)'
    BY <2>3 DEF TokenInv, OwnFromThere, LiveFromThere
  <2>4. QED
    BY <2>2, <2>5
<1>3. ASSUME NEW u \in Visit, u # v PROVE VisitInv(u)'
  <2>1. visit'[u] = visit[u] /\ VisitInv(u)
    BY <1>3
  <2>2. /\ visit'[u].at \in {"access"} \cup Paired => link'[visit'[u].who] = visit'[u].as
        /\ visit'[u].at \in Paired => Has(u, "access")'
        /\ visit'[u].at \in {"code", "signed"} => Has(u, "refresh")'
        /\ exchange'[u] = "live" => On(u, "signed")'
    BY <2>1, FederationFields DEF VisitInv, Has, On
  <2>3. Taken(u)'
    <3>1. On(visit[u].from, "signed") => visit[u].from # v
      BY DEF On, Paired
    <3>2. visit[u].from \in Visit /\ On(visit[u].from, "signed") =>
            visit'[visit[u].from] = visit[visit[u].from]
      BY <3>1
    <3>4. Lost(u) => Lost(u)'
      BY <2>1 DEF Lost, Struck
    <3>3. QED
      BY <2>1, <3>2, <3>4, TakenStands DEF VisitInv
  <2>4. QED
    BY <2>2, <2>3 DEF VisitInv
<1>4. VisitInv(v)'
  <2>1. exchange'[v] # "live"
    BY DEF VisitInv, On, Paired
  <2>2. QED
    BY <2>1 DEF VisitInv, Paired
<1>5. QED
  BY <1>2, <1>3, <1>4

(* What only touches settings, rows and codes.                                                 *)
LEMMA NobodyMoves ==
  ASSUME FederationInv, FederationTypeOK', UNCHANGED <<tokens, crowded, visit, link>>,
         \A u \in Visit : exchange'[u] = "live" => exchange[u] = "live"
  PROVE  FederationInv'
<1> USE DEF FederationInv
<1>1. TokenInv'
  BY DEF TokenInv, Minted, OwnFromThere, LiveFromThere, Apart
<1>2. ASSUME NEW v \in Visit PROVE VisitInv(v)'
  <2>3. Lost(v) => Lost(v)'
    BY DEF Lost, Struck
  <2>1. Taken(v)'
    BY <2>3, TakenStands DEF VisitInv
  <2>2. QED
    BY <2>1 DEF VisitInv, Has, On
<1>3. QED
  BY <1>1, <1>2

(* A visit with tokens gets its code, or breaks off before.                                    *)
LEMMA PairedVisitMoves ==
  ASSUME FederationInv, FederationTypeOK', NEW v \in Visit, visit[v].at \in {"refresh", "code"},
         UNCHANGED <<tokens, crowded, link>>, NEW step \in {"signed", "failed"},
         visit' = [visit EXCEPT ![v].at = step],
         step = "signed" => visit[v].at = "code",
         \A u \in Visit : exchange'[u] = "live" => exchange[u] = "live" \/ (u = v /\ step = "signed")
  PROVE  FederationInv'
<1> USE DEF FederationInv
<1>1. /\ \A u \in Visit : /\ u # v => visit'[u] = visit[u]
                          /\ visit'[u].who = visit[u].who /\ visit'[u].as = visit[u].as
                          /\ visit'[u].access = visit[u].access
                          /\ visit'[u].at \in Paired => visit[u].at \in Paired
                          /\ visit[u].at \in Paired \cup {"handed", "failed"} =>
                               visit'[u].at \in Paired \cup {"handed", "failed"}
      /\ visit'[v].at = step
  BY FederationFields DEF VisitRow, Paired
<1>2. TokenInv'
  <2>1. \A m \in DOMAIN tokens : Apart(tokens[m].by)' => Apart(tokens[m].by)
    BY <1>1 DEF Apart
  <2>2. \A n \in DOMAIN tokens : Minted(n)'
    BY <1>1, FederationFields DEF TokenInv, Minted
  <2>3. QED
    BY <2>1, <2>2 DEF TokenInv, OwnFromThere, LiveFromThere
<1>3. ASSUME NEW u \in Visit, u # v PROVE VisitInv(u)'
  <2>1. visit'[u] = visit[u] /\ VisitInv(u)
    BY <1>1, <1>3
  <2>2. /\ visit'[u].at \in {"access"} \cup Paired => link'[visit'[u].who] = visit'[u].as
        /\ visit'[u].at \in Paired => Has(u, "access")'
        /\ visit'[u].at \in {"code", "signed"} => Has(u, "refresh")'
        /\ exchange'[u] = "live" => On(u, "signed")'
    BY <1>3, <2>1, FederationFields DEF VisitInv, Has, On
  <2>3. Taken(u)'
    <3>1. On(visit[u].from, "signed") => visit[u].from # v
      BY DEF On, Paired
    <3>2. visit[u].from \in Visit /\ On(visit[u].from, "signed") =>
            visit'[visit[u].from] = visit[visit[u].from]
      BY <1>1, <3>1
    <3>4. Lost(u) => Lost(u)'
      BY <2>1 DEF Lost, Struck
    <3>3. QED
      BY <2>1, <3>2, <3>4, TakenStands DEF VisitInv
  <2>4. QED
    BY <2>2, <2>3 DEF VisitInv
<1>4. VisitInv(v)'
  <2>1. visit[v].access = {} /\ VisitInv(v)
    BY DEF VisitInv, Taken, On
  <2>2. Taken(v)'
    BY <1>1, <2>1 DEF Taken, Fetches, On
  <2>3. Has(v, "access")' /\ (visit[v].at = "code" => Has(v, "refresh")')
    BY <2>1 DEF VisitInv, Has, Paired
  <2>4. link'[visit'[v].who] = visit'[v].as
    BY <1>1, <2>1 DEF VisitInv, Paired
  <2>5. exchange'[v] = "live" => step = "signed"
    BY <2>1 DEF VisitInv, On
  <2>6. QED
    BY <1>1, <2>2, <2>3, <2>4, <2>5 DEF VisitInv, On, Paired
<1>5. QED
  BY <1>2, <1>3, <1>4

(* The newest live refresh token is the visit's own if nobody else minted after its first; and *)
(* so is the newest live access token, unless the visit's is dead.                             *)
LEMMA NewestIsOwn ==
  ASSUME FederationInv, NEW w \in Visit, On(w, "signed"), w \notin crowded
  PROVE  /\ Newest("refresh", visit[w].as) \subseteq {w}
         /\ Newest("access", visit[w].as) \subseteq {w} \/ Struck(w)
<1> USE DEF FederationInv
<1>1. Apart(w)
  BY DEF Apart, On, Paired
<1>2. ASSUME NEW kind \in {"access", "refresh"}, NEW o \in DOMAIN tokens, tokens[o].by = w,
             tokens[o].kind = kind, kind = "access" => tokens[o].live
      PROVE  Newest(kind, visit[w].as) \subseteq {w}
  <2>1. tokens[o].of = visit[w].as /\ o \in Nat
    BY <1>2, LocalAssumption, FederationFields DEF TokenInv, Minted
  <2>2. ASSUME NEW n \in Live(kind, visit[w].as), \A m \in Live(kind, visit[w].as) : m <= n
        PROVE  tokens[n].by = w
    <3>1. /\ n \in DOMAIN tokens /\ n \in Nat /\ tokens[n].of = visit[w].as /\ tokens[n].live
          /\ tokens[n].kind = kind
      BY FederationFields DEF Live
    <3>2. CASE o < n
      BY <1>1, <1>2, <2>1, <3>1, <3>2 DEF TokenInv, OwnFromThere
    <3>3. CASE o = n
      BY <1>2, <3>3
    <3>4. CASE n < o
      <4>1. tokens[o].live
        BY <1>1, <1>2, <2>1, <3>1, <3>4 DEF TokenInv, LiveFromThere
      <4>2. o \in Live(kind, visit[w].as)
        BY <1>2, <2>1, <4>1 DEF Live
      <4>3. QED
        BY <2>1, <2>2, <3>1, <3>4, <4>2
    <3>5. QED
      BY <2>1, <3>1, <3>2, <3>3, <3>4
  <2>3. QED
    BY <2>2 DEF Newest
<1>3. Newest("refresh", visit[w].as) \subseteq {w}
  <2>1. PICK o \in DOMAIN tokens : tokens[o].by = w /\ tokens[o].kind = "refresh"
    BY DEF VisitInv, Has, On, Paired
  <2>2. QED
    BY <1>2, <2>1
<1>4. ASSUME ~Struck(w) PROVE Newest("access", visit[w].as) \subseteq {w}
  <2>1. PICK o \in DOMAIN tokens : tokens[o].by = w /\ tokens[o].kind = "access" /\ tokens[o].live
    BY <1>4 DEF Struck
  <2>2. QED
    BY <1>2, <2>1
<1>5. QED
  BY <1>3, <1>4

(* To the provider and back, and findOrLinkUser: no tokens yet.                                *)
LEMMA FindKeeps ==
  ASSUME FederationInv, NEW v \in Visit,
         \/ \E s \in Attempt : Callback(v, s)
         \/ \E i \in Foreign : Bind(v, i)
         \/ DeleteState(v) \/ Prove(v) \/ FindLink(v) \/ FindByEmail(v) \/ CreateAccount(v)
         \/ InsertLink(v)
  PROVE  FederationInv'
<1> USE DEF FederationInv
<1>1. /\ visit[v].at \in {"idle", "delete", "prove", "find", "email", "create", "link"}
      /\ visit[v].access = {} /\ UNCHANGED <<tokens, crowded, exchange>>
  <2>1. /\ visit[v].at \in {"idle", "delete", "prove", "find", "email", "create", "link"}
        /\ UNCHANGED <<tokens, crowded, exchange>>
    BY DEF Callback, Bind, DeleteState, Prove, FindLink, FindByEmail, CreateAccount, InsertLink,
           On, issued
  <2>2. QED
    BY <2>1 DEF VisitInv, Taken, On
<1> DEFINE Moves(r) == /\ r \in VisitRow /\ visit' = [visit EXCEPT ![v] = r] /\ r.access = {}
                       /\ r.at \in {"delete", "prove", "find", "email", "create", "link", "failed",
                                   "access"}
                       /\ r.at = "access" => link'[r.who] = r.as
           Rows == /\ idp' = idp /\ state' \in [Attempt -> Redirect \cup {"none", "gone"}]
                   /\ proof' \in [Attempt -> BOOLEAN]
                   /\ account' \in [Account -> [there : BOOLEAN, active : BOOLEAN, email : Address]]
                   /\ link' \in [Foreign -> Account \cup {"none"}]
                   /\ \A i \in Foreign : link[i] # "none" => link'[i] = link[i]
<1>2. \E r : Moves(r)
  <2>0. ASSUME NEW step \in {"delete", "prove", "find", "create", "failed"},
               visit' = [visit EXCEPT ![v].at = step]
        PROVE  Moves([visit[v] EXCEPT !.at = step])
    BY <1>1, <2>0, FederationFields DEF VisitRow, Steps_
  <2>1. ASSUME NEW s \in Attempt, Callback(v, s) PROVE \E r : Moves(r)
    <3>1. /\ visit' = [visit EXCEPT ![v].at = "delete", ![v].row = s, ![v].who = state[s]]
          /\ state[s] \in Foreign
      BY <2>1, RedirectAssumption DEF Callback
    <3>2. Moves([visit[v] EXCEPT !.at = "delete", !.row = s, !.who = state[s]])
      BY <1>1, <3>1, FederationFields DEF VisitRow, Steps_
    <3>3. QED
      BY <3>2
  <2>2. ASSUME NEW i \in Foreign, Bind(v, i) PROVE \E r : Moves(r)
    <3>1. Moves([visit[v] EXCEPT !.at = "find", !.who = i])
      BY <1>1, <2>2, FederationFields DEF Bind, VisitRow, Steps_
    <3>2. QED
      BY <3>1
  <2>3. CASE DeleteState(v) \/ Prove(v)
    BY <2>0, <2>3 DEF DeleteState, Prove, Goto
  <2>4. CASE FindLink(v)
    <3>1. CASE link[visit[v].who] = "none"
      <4>1. PICK e \in Address : visit' = [visit EXCEPT ![v].at = "email", ![v].email = e]
        BY <2>4, <3>1 DEF FindLink
      <4>2. Moves([visit[v] EXCEPT !.at = "email", !.email = e])
        BY <1>1, <4>1, FederationFields DEF VisitRow, Steps_
      <4>3. QED
        BY <4>2
    <3>2. CASE link[visit[v].who] # "none"
      <4>1. PICK step \in {"access", "failed"} :
              visit' = [visit EXCEPT ![v].as = link[visit[v].who], ![v].at = step]
        BY <2>4, <3>2 DEF FindLink, Welcome
      <4>2. link[visit[v].who] \in Account /\ link' = link
        BY <2>4, <3>2, FederationFields DEF FindLink, people
      <4>3. Moves([visit[v] EXCEPT !.as = link[visit[v].who], !.at = step])
        BY <1>1, <4>1, <4>2, FederationFields DEF VisitRow, Steps_
      <4>4. QED
        BY <4>3
    <3>3. QED
      BY <3>1, <3>2
  <2>5. CASE FindByEmail(v)
    <3>1. ASSUME NEW a \in Account, visit' = [visit EXCEPT ![v].at = "link", ![v].as = a]
          PROVE  Moves([visit[v] EXCEPT !.at = "link", !.as = a])
      BY <1>1, <3>1, FederationFields DEF VisitRow, Steps_
    <3>2. QED
      BY <2>0, <2>5, <3>1 DEF FindByEmail, Goto, Holder
  <2>6. CASE CreateAccount(v)
    <3>1. ASSUME visit' = [visit EXCEPT ![v].at = "link", ![v].as = v]
          PROVE  Moves([visit[v] EXCEPT !.at = "link", !.as = v])
      BY <1>1, <3>1, FederationFields DEF VisitRow, Steps_, Account
    <3>2. QED
      BY <2>0, <2>6, <3>1 DEF CreateAccount, Goto
  <2>7. CASE InsertLink(v)
    <3>1. ASSUME link' = [link EXCEPT ![visit[v].who] = visit[v].as],
                 visit' = [visit EXCEPT ![v].at = "access"]
          PROVE  Moves([visit[v] EXCEPT !.at = "access"])
      <4>1. link'[visit[v].who] = visit[v].as
        BY <3>1, FederationFields DEF FederationTypeOK
      <4>2. QED
        BY <1>1, <3>1, <4>1, FederationFields DEF VisitRow, Steps_
    <3>2. QED
      BY <2>0, <2>7, <3>1 DEF InsertLink, Goto
  <2>8. QED
    BY <2>1, <2>2, <2>3, <2>4, <2>5, <2>6, <2>7
<1>3. Rows
  <2>1. idp' = idp /\ state' \in [Attempt -> Redirect \cup {"none", "gone"}]
    BY DEF Callback, Bind, DeleteState, Prove, FindLink, FindByEmail, CreateAccount, InsertLink,
           FederationTypeOK
  <2>2. proof' \in [Attempt -> BOOLEAN]
    BY DEF Callback, Bind, DeleteState, Prove, FindLink, FindByEmail, CreateAccount, InsertLink,
           FederationTypeOK
  <2>3. account' \in [Account -> [there : BOOLEAN, active : BOOLEAN, email : Address]]
    <3>1. \/ account' = account
          \/ account' = [account EXCEPT ![v] = [there |-> TRUE, active |-> TRUE,
                                              email |-> visit[v].email]]
      BY DEF Callback, Bind, DeleteState, Prove, FindLink, FindByEmail, CreateAccount, InsertLink, people
    <3>2. QED
      <4> DEFINE row == [there |-> TRUE, active |-> TRUE, email |-> visit[v].email]
      <4>1. row \in [there : BOOLEAN, active : BOOLEAN, email : Address]
        BY FederationFields
      <4>2. account' = account \/ account' = [account EXCEPT ![v] = row]
        BY <3>1
      <4> HIDE DEF row
      <4>3. QED
        BY <4>1, <4>2 DEF FederationTypeOK
  <2>4. /\ link' \in [Foreign -> Account \cup {"none"}]
        /\ \A i \in Foreign : link[i] # "none" => link'[i] = link[i]
    BY FederationFields DEF Callback, Bind, DeleteState, Prove, FindLink, FindByEmail, CreateAccount,
       InsertLink, FederationTypeOK, people
  <2>5. QED
    BY <2>1, <2>2, <2>3, <2>4
<1>4. PICK r : Moves(r)
  BY <1>2
<1>5. visit' \in [Visit -> VisitRow] /\ visit'[v] = r /\ \A u \in Visit : u # v => visit'[u] = visit[u]
  BY <1>4, FederationFields
<1>6. FederationTypeOK'
  BY <1>1, <1>3, <1>5 DEF FederationTypeOK, VisitRow
<1>7. Taken(v)'
  BY <1>4, <1>5 DEF Taken, Fetches, On
<1>8. QED
  BY <1>1, <1>3, <1>4, <1>5, <1>6, <1>7, OneVisitMoves DEF Paired

(* A token is appended: its visit is now past that step, and whoever of the same account was   *)
(* between its first token and its code is crowded.                                            *)
LEMMA MintKeeps ==
  ASSUME FederationInv, NEW v \in Visit, NEW kind \in {"access", "refresh"}, Mint(v, kind)
  PROVE  FederationInv'
<1> USE DEF FederationInv
<1> DEFINE t == [kind |-> kind, of |-> visit[v].as, by |-> v, live |-> TRUE]
           N == Len(tokens) + 1
           step == CASE kind = "access" -> "refresh"
                     [] kind = "refresh" /\ visit[v].who \in Redirect -> "code"
                     [] OTHER -> "handed"
<1>1. /\ visit[v].at = kind /\ tokens' = Append(tokens, t)
      /\ crowded' = crowded \cup (Minting(visit[v].as) \ {v})
      /\ visit' = [visit EXCEPT ![v].at = step]
      /\ UNCHANGED <<idp, state, proof, account, link, exchange>>
  BY DEF Mint, On, Goto, people
<1>2. /\ step \in {"refresh", "code", "handed"} /\ step \in Steps_
      /\ step = "refresh" => kind = "access" 
      /\ step = "code" => kind = "refresh"
  BY DEF Steps_
<1>3. /\ link[visit[v].who] = visit[v].as /\ visit[v].access = {} /\ exchange[v] # "live"
      /\ kind = "refresh" => Has(v, "access")
  BY <1>1 DEF VisitInv, Taken, On, Paired
<1>4. t \in Token /\ t.by = v /\ t.of = visit[v].as /\ t.kind = kind /\ t.live
  BY FederationFields DEF Token, Minter
<1>5. /\ tokens' \in Seq(Token) /\ Len(tokens') = N /\ DOMAIN tokens' = 1..N /\ tokens'[N] = t
      /\ \A n \in DOMAIN tokens : n \in DOMAIN tokens' /\ n < N /\ tokens'[n] = tokens[n]
      /\ \A n \in DOMAIN tokens' : n \in Nat /\ (n \in DOMAIN tokens \/ n = N)
  BY <1>1, <1>4, FederationFields DEF FederationTypeOK
<1> HIDE DEF t, N, step
<1>6. /\ visit' \in [Visit -> VisitRow] /\ visit'[v].at = step
      /\ \A u \in Visit : /\ u # v => visit'[u] = visit[u]
                          /\ visit'[u].who = visit[u].who /\ visit'[u].as = visit[u].as
                          /\ visit'[u].access = visit[u].access
  BY <1>1, <1>2, FederationFields DEF VisitRow
<1>7. FederationTypeOK'
  BY <1>1, <1>5, <1>6 DEF FederationTypeOK, VisitRow, Minting
<1>8. /\ \A n \in DOMAIN tokens : tokens[n].by = v => visit[v].at \in Paired
      /\ \A n \in DOMAIN tokens : Apart(tokens[n].by)' => Apart(tokens[n].by)
  <2>1. \A n \in DOMAIN tokens : tokens[n].by = v => visit[v].at \in Paired
    BY <1>1, LocalAssumption DEF TokenInv, Minted
  <2>2. QED
    BY <1>1, <1>6, <2>1 DEF Apart
<1>9. TokenInv'
  <2>1. ASSUME NEW n \in DOMAIN tokens' PROVE Minted(n)'
    <3>1. CASE n = N
      BY <1>1, <1>2, <1>3, <1>4, <1>5, <1>6, <3>1 DEF Minted, Paired
    <3>2. CASE n \in DOMAIN tokens
      BY <1>1, <1>2, <1>5, <1>6, <3>2, FederationFields DEF TokenInv, Minted, Paired
    <3>3. QED
      BY <1>5, <3>1, <3>2
  <2>2. ASSUME NEW n \in DOMAIN tokens', NEW m \in DOMAIN tokens', n < m
        PROVE  OwnFromThere(n, m)' /\ LiveFromThere(n, m)'
    <3>1. n \in DOMAIN tokens /\ tokens'[n] = tokens[n]
      BY <1>5, <2>2, FederationFields
    <3>2. CASE m \in DOMAIN tokens
      <4>1. tokens'[m] = tokens[m]
        BY <1>5, <3>2
      <4>2. Apart(tokens[n].by)' => Apart(tokens[n].by)
        BY <1>8, <3>1
      <4>3. Apart(tokens[m].by)' => Apart(tokens[m].by)
        BY <1>8, <3>2
      <4>4. OwnFromThere(n, m) /\ LiveFromThere(n, m)
        BY <2>2, <3>1, <3>2 DEF TokenInv
      <4>5. OwnFromThere(n, m)'
        BY <3>1, <4>1, <4>2, <4>4 DEF OwnFromThere, Apart
      <4>6. LiveFromThere(n, m)'
        BY <3>1, <4>1, <4>3, <4>4 DEF LiveFromThere, Apart
      <4>7. QED
        BY <4>5, <4>6
    <3>3. CASE m = N
      <4>1. ASSUME Apart(tokens[n].by)', tokens[n].of = visit[v].as PROVE tokens[n].by = v
        <5>1. Apart(tokens[n].by) /\ tokens[n].by \in Visit
          BY <1>8, <3>1, <4>1 DEF Apart
        <5>2. visit[tokens[n].by].as = tokens[n].of
          BY <3>1, <5>1, LocalAssumption DEF TokenInv, Minted
        <5>5. visit[tokens[n].by].at \in {"refresh", "code", "signed"}
          BY <5>1 DEF Apart, Paired
        <5>6. tokens[n].of = visit[v].as
          BY <4>1
        <5>3. tokens[n].by \in Minting(visit[v].as)
          BY <3>1, <5>1, <5>2, <5>5, <5>6 DEF Minting
        <5>4. QED
          BY <1>1, <3>1, <4>1, <5>3 DEF Apart
      <4>2. tokens'[n] = tokens[n] /\ tokens'[m] = t
        BY <1>5, <3>1, <3>3
      <4>3. OwnFromThere(n, m)'
        BY <1>4, <4>1, <4>2 DEF OwnFromThere, Apart
      <4>4. QED
        BY <1>4, <4>2, <4>3 DEF LiveFromThere
    <3>4. QED
      BY <1>5, <3>2, <3>3
  <2>3. QED
    BY <2>1, <2>2 DEF TokenInv
<1>10. \A u \in Visit, k \in {"access", "refresh"} : Has(u, k) \/ (u = v /\ k = kind) => Has(u, k)'
  <2>1. ASSUME NEW u \in Visit, NEW k \in {"access", "refresh"}, Has(u, k) PROVE Has(u, k)'
    BY <1>5, <2>1 DEF Has
  <2>2. Has(v, kind)'
    <3>1. N \in DOMAIN tokens'
      BY <1>5, FederationFields DEF N
    <3>2. QED
      BY <1>4, <1>5, <3>1 DEF Has
  <2>3. QED
    BY <2>1, <2>2
<1>11. ASSUME NEW u \in Visit, u # v PROVE VisitInv(u)'
  <2>1. visit'[u] = visit[u] /\ VisitInv(u)
    BY <1>6, <1>11
  <2>2. /\ visit'[u].at \in {"access"} \cup Paired => link'[visit'[u].who] = visit'[u].as
        /\ exchange'[u] = "live" => On(u, "signed")'
    BY <1>1, <2>1 DEF VisitInv, On
  <2>3. /\ visit'[u].at \in Paired => Has(u, "access")'
        /\ visit'[u].at \in {"code", "signed"} => Has(u, "refresh")'
    BY <1>10, <2>1 DEF VisitInv
  <2>4. Taken(u)'
    <3>1. On(visit[u].from, "signed") => visit[u].from # v
      BY <1>1 DEF On
    <3>2. visit[u].from \in Visit /\ On(visit[u].from, "signed") =>
            /\ visit'[visit[u].from] = visit[visit[u].from]
            /\ Lost(u) => Lost(u)'
      <4> SUFFICES ASSUME visit[u].from \in Visit, On(visit[u].from, "signed")
                   PROVE  /\ visit'[visit[u].from] = visit[visit[u].from]
                          /\ Lost(u) => Lost(u)'
        OBVIOUS
      <4>1. visit'[visit[u].from] = visit[visit[u].from] /\ visit[u].from # v
        BY <1>6, <3>1
      <4>2. Lost(u) => Lost(u)'
        BY <1>4, <1>5, <2>1, <4>1 DEF Lost, Struck
      <4>3. QED
        BY <4>1, <4>2
    <3>3. QED
      BY <1>1, <2>1, <3>2, TakenStands DEF VisitInv
  <2>5. QED
    BY <2>2, <2>3, <2>4 DEF VisitInv
<1>12. VisitInv(v)'
  <2>1. Taken(v)'
    BY <1>2, <1>3, <1>6 DEF Taken, Fetches, On
  <2>2. /\ step \in {"refresh", "code"} => Has(v, "access")'
        /\ step = "code" => Has(v, "refresh")'
    BY <1>2, <1>3, <1>10
  <2>3. QED
    BY <1>1, <1>2, <1>3, <1>6, <2>1, <2>2 DEF VisitInv, Paired
<1>13. QED
  BY <1>7, <1>9, <1>11, <1>12

(* The code is issued, or the visit breaks off.                                                *)
LEMMA SignKeeps ==
  ASSUME FederationInv, NEW v \in Visit, IssueCode(v) \/ BreakOff(v)
  PROVE  FederationInv'
<1> USE DEF FederationInv
<1>1. CASE IssueCode(v)
  <2>1. /\ visit[v].at = "code" /\ visit' = [visit EXCEPT ![v].at = "signed"]
        /\ exchange' = [exchange EXCEPT ![v] = "live"]
        /\ UNCHANGED <<idp, state, proof, account, link, tokens, crowded>>
    BY <1>1 DEF IssueCode, On, Goto, people
  <2>2. FederationTypeOK'
    <3>1. visit' \in [Visit -> VisitRow]
      <4>1. "signed" \in Steps_
        BY DEF Steps_
      <4>2. QED
        BY <2>1, <4>1, GotoIs
    <3>2. exchange' \in [Visit -> {"none", "live", "gone"}]
      BY <2>1 DEF FederationTypeOK
    <3>3. QED
      BY <2>1, <3>1, <3>2 DEF FederationTypeOK, VisitRow
  <2>3. \A u \in Visit : exchange'[u] = "live" => exchange[u] = "live" \/ u = v
    BY <2>1 DEF FederationTypeOK
  <2>4. QED
    BY <2>1, <2>2, <2>3, PairedVisitMoves
<1>2. CASE BreakOff(v)
  <2>1. /\ visit[v].at \in {"delete", "find", "email", "link", "access", "refresh", "code"}
        /\ visit' = [visit EXCEPT ![v].at = "failed"]
        /\ UNCHANGED <<idp, state, proof, account, link, tokens, exchange, crowded>>
    BY <1>2 DEF BreakOff, Goto, people, issued
  <2>2. /\ visit' \in [Visit -> VisitRow] /\ visit'[v].at = "failed"
        /\ visit'[v].access = visit[v].access
        /\ \A u \in Visit : u # v => visit'[u] = visit[u]
    <3>1. "failed" \in Steps_
      BY DEF Steps_
    <3>2. QED
      BY <2>1, <3>1, GotoIs
  <2>3. FederationTypeOK'
    BY <2>1, <2>2 DEF FederationTypeOK, VisitRow
  <2>4. CASE visit[v].at \in {"refresh", "code"}
    BY <2>1, <2>3, <2>4, PairedVisitMoves
  <2>5. CASE visit[v].at \notin {"refresh", "code"}
    <3>1. Taken(v)'
      BY <2>2 DEF Taken, Fetches, On
    <3>2. QED
      BY <2>1, <2>2, <2>3, <2>5, <3>1, OneVisitMoves DEF Paired
  <2>6. QED
    BY <2>4, <2>5
<1>3. QED
  BY <1>1, <1>2

(* The exchange of a code for the newest tokens of its user *)
LEMMA FetchKeeps ==
  ASSUME FederationInv, NEW v \in Visit,
         (\E w \in Visit : ReadCode(v, w)) \/ BurnCode(v) \/ TakeAccess(v) \/ TakeRefresh(v)
  PROVE  FederationInv'
<1> USE DEF FederationInv
<1>1. /\ visit[v].at \in {"idle", "burn", "newestAccess", "newestRefresh"}
      /\ UNCHANGED <<idp, state, proof, account, link, tokens, crowded>>
  BY DEF ReadCode, BurnCode, TakeAccess, TakeRefresh, On, Goto, people, issued
<1>2. /\ exchange' \in [Visit -> {"none", "live", "gone"}]
      /\ \A u \in Visit : exchange'[u] = "live" => exchange[u] = "live"
  BY DEF ReadCode, BurnCode, TakeAccess, TakeRefresh, issued, FederationTypeOK
<1>3. Taken(v) /\ \A k \in {"access", "refresh"}, a \in Account : Newest(k, a) \subseteq Minter
  BY FederationFields DEF VisitInv, Newest, Live
<1>4. ASSUME NEW r \in VisitRow, visit' = [visit EXCEPT ![v] = r]
      PROVE  /\ visit' \in [Visit -> VisitRow] /\ visit'[v] = r
             /\ \A u \in Visit : u # v => visit'[u] = visit[u]
  BY <1>4, FederationFields
<1> DEFINE From == visit[v].from
           Goal == /\ visit' \in [Visit -> VisitRow] /\ \A u \in Visit : u # v => visit'[u] = visit[u]
                   /\ visit'[v].at \in {"burn", "newestAccess", "newestRefresh", "handed", "failed"}
                   /\ Taken(v)'
<1>5. Fetches(v) => /\ From \in Visit /\ On(From, "signed") /\ visit[v].as = visit[From].as
                    /\ From # v
                    /\ From \notin crowded =>
                         /\ Newest("refresh", visit[v].as) \subseteq {From}
                         /\ Newest("access", visit[v].as) \subseteq {From} \/ Struck(From)
  BY <1>1, <1>3, NewestIsOwn DEF Taken, On
<1>6. Goal
  <2>1. ASSUME NEW w \in Visit, ReadCode(v, w) PROVE Goal
    <3> DEFINE r == [visit[v] EXCEPT !.at = "burn", !.from = w, !.as = visit[w].as]
    <3>1. /\ visit' = [visit EXCEPT ![v] = r] /\ visit[v].at = "idle" /\ exchange[w] = "live"
      BY <2>1 DEF ReadCode, On
    <3>2. /\ r \in VisitRow /\ r.at = "burn" /\ r.from = w /\ r.as = visit[w].as
          /\ r.access = visit[v].access
      <4>1. "burn" \in Steps_ /\ w \in Account /\ visit[w].as \in Account /\ visit[v] \in VisitRow
        BY FederationFields DEF Steps_, Account
      <4>2. QED
        BY <4>1 DEF VisitRow
    <3> HIDE DEF r
    <3>3. On(w, "signed") /\ w # v /\ visit[v].access = {}
      BY <1>3, <3>1 DEF VisitInv, Taken, On
    <3>4. /\ visit' \in [Visit -> VisitRow] /\ visit'[v] = r
          /\ \A u \in Visit : u # v => visit'[u] = visit[u]
      BY <1>4, <3>1, <3>2
    <3>5. Taken(v)'
      BY <3>2, <3>3, <3>4 DEF Taken, Fetches, On
    <3>6. QED
      BY <3>2, <3>4, <3>5
  <2>2. CASE BurnCode(v)
    <3>1. visit' = [visit EXCEPT ![v].at = "newestAccess"] /\ On(v, "burn")
      BY <2>2 DEF BurnCode, Goto
    <3>2. /\ visit' \in [Visit -> VisitRow] /\ visit'[v].at = "newestAccess"
          /\ \A u \in Visit : /\ u # v => visit'[u] = visit[u]
                              /\ visit'[u].as = visit[u].as /\ visit'[u].from = visit[u].from
                              /\ visit'[u].access = visit[u].access
      <4>1. "newestAccess" \in Steps_
        BY DEF Steps_
      <4>2. QED
        BY <3>1, <4>1, GotoIs
    <3>3. visit[v].access = {} /\ Fetches(v)
      BY <1>3, <3>1 DEF Taken, On, Fetches
    <3>4. Taken(v)'
      BY <1>5, <3>2, <3>3 DEF Taken, Fetches, On
    <3>5. QED
      BY <3>2, <3>4
  <2>3. CASE TakeAccess(v)
    <3> DEFINE r == [visit[v] EXCEPT !.at = "newestRefresh", !.access = Newest("access", visit[v].as)]
    <3>1. visit' = [visit EXCEPT ![v] = r] /\ Fetches(v)
      BY <2>3 DEF TakeAccess, Fetches
    <3>2. /\ r \in VisitRow /\ r.at = "newestRefresh" /\ r.access = Newest("access", visit[v].as)
          /\ r.from = From /\ r.as = visit[v].as
      <4> DEFINE new == Newest("access", visit[v].as)
      <4>1. "newestRefresh" \in Steps_ /\ new \in SUBSET Minter /\ visit[v] \in VisitRow
        BY <1>3, FederationFields DEF Steps_
      <4> HIDE DEF new
      <4>2. LET q == [visit[v] EXCEPT !.at = "newestRefresh", !.access = new]
            IN  /\ q \in VisitRow /\ q.at = "newestRefresh" /\ q.access = new
                /\ q.from = From /\ q.as = visit[v].as
        BY <4>1 DEF VisitRow
      <4>3. QED
        BY <4>2 DEF new
    <3> HIDE DEF r
    <3>3. /\ visit' \in [Visit -> VisitRow] /\ visit'[v] = r
          /\ \A u \in Visit : u # v => visit'[u] = visit[u]
      BY <1>4, <3>1, <3>2
    <3>4. From \notin crowded => r.access \subseteq {From} \/ Struck(From)
      BY <1>5, <3>1, <3>2
    <3>5. Struck(From) => Lost(v)'
      BY <1>1, <3>2, <3>3 DEF Lost, Struck
    <3>6. Taken(v)'
      BY <1>1, <1>5, <3>1, <3>2, <3>3, <3>4, <3>5 DEF Taken, Fetches, On
    <3>7. QED
      BY <3>2, <3>3, <3>6
  <2>4. CASE TakeRefresh(v)
    <3> DEFINE found == Newest("refresh", visit[v].as)
               step == IF found = {} \/ visit[v].access = {} THEN "failed" ELSE "handed"
               r == [visit[v] EXCEPT !.refresh = found, !.at = step]
    <3>1. visit' = [visit EXCEPT ![v] = r] /\ Fetches(v) /\ On(v, "newestRefresh")
      BY <2>4 DEF TakeRefresh, Fetches
    <3>2. /\ r \in VisitRow /\ r.at = step /\ r.access = visit[v].access /\ r.refresh = found
          /\ r.from = From /\ r.as = visit[v].as
      <4>1. step \in Steps_ /\ found \in SUBSET Minter /\ visit[v] \in VisitRow
        BY <1>3, FederationFields DEF Steps_
      <4> HIDE DEF step, found
      <4>2. QED
        BY <4>1 DEF VisitRow
    <3> HIDE DEF r
    <3>3. /\ visit' \in [Visit -> VisitRow] /\ visit'[v] = r
          /\ \A u \in Visit : u # v => visit'[u] = visit[u]
      BY <1>4, <3>1, <3>2
    <3>4. CASE step = "failed"
      BY <3>2, <3>3, <3>4 DEF Taken, Fetches, On
    <3>5. CASE step = "handed" /\ found # {} /\ visit[v].access # {}
      <4>1. From \notin crowded =>
              found \subseteq {From} /\ (visit[v].access \subseteq {From} \/ Struck(From))
        BY <1>3, <1>5, <3>1 DEF Taken, Lost
      <4>2. From \notin crowded => found = {From} /\ (visit[v].access = {From} \/ Struck(From))
        BY <3>5, <4>1
      <4>5. Struck(From) => Lost(v)'
        BY <1>1, <3>2, <3>3 DEF Lost, Struck
      <4>3. Taken(v)'
        BY <1>1, <1>5, <3>1, <3>2, <3>3, <3>5, <4>2, <4>5 DEF Taken, Fetches, On
      <4>4. QED
        BY <3>2, <3>3, <3>5, <4>3
    <3>6. QED
      BY <3>4, <3>5
  <2>5. QED
    BY <2>1, <2>2, <2>3, <2>4
<1>7. FederationTypeOK'
  BY <1>1, <1>2, <1>6 DEF FederationTypeOK, VisitRow
<1>8. QED
  BY <1>1, <1>2, <1>6, <1>7, OneVisitMoves DEF Paired

(* Rows, settings and the account's other life *)
LEMMA OthersKeep ==
  ASSUME FederationInv,
         \/ \E s \in Attempt, i \in Redirect : InsertState(s, i)
         \/ RowExpires
         \/ \E a \in Leaver : Deactivate(a)
  PROVE  FederationInv'
<1> USE DEF FederationInv
<1>1. UNCHANGED <<idp, proof, link, tokens, visit, crowded>>
  BY DEF InsertState, RowExpires, Deactivate, people, issued
<1>2. /\ state' \in [Attempt -> Redirect \cup {"none", "gone"}]
      /\ exchange' \in [Visit -> {"none", "live", "gone"}]
      /\ \A u \in Visit : exchange'[u] = "live" => exchange[u] = "live"
  <2>1. state' = state \/ \E s \in Attempt, x \in Redirect \cup {"gone"} : state' = [state EXCEPT ![s] = x]
    BY DEF InsertState, RowExpires, Deactivate
  <2>2. exchange' = exchange \/ \E v \in Visit : exchange' = [exchange EXCEPT ![v] = "gone"]
    BY DEF InsertState, RowExpires, Deactivate, issued
  <2>3. QED
    <3>1. state' \in [Attempt -> Redirect \cup {"none", "gone"}]
      BY <2>1 DEF FederationTypeOK
    <3>2. /\ exchange' \in [Visit -> {"none", "live", "gone"}]
          /\ \A u \in Visit : exchange'[u] = "live" => exchange[u] = "live"
      BY <2>2 DEF FederationTypeOK
    <3>3. QED
      BY <3>1, <3>2
<1>3. account' \in [Account -> [there : BOOLEAN, active : BOOLEAN, email : Address]]
  <2>1. account' = account \/ \E a \in Account : account' = [account EXCEPT ![a].active = FALSE]
    BY LeaverAssumption DEF InsertState, RowExpires, Deactivate, people, Account
  <2>2. ASSUME NEW a \in Account, account' = [account EXCEPT ![a].active = FALSE]
        PROVE  account' \in [Account -> [there : BOOLEAN, active : BOOLEAN, email : Address]]
    <3> DEFINE row == [account[a] EXCEPT !.active = FALSE]
    <3>1. row \in [there : BOOLEAN, active : BOOLEAN, email : Address]
      <4>1. account[a] \in [there : BOOLEAN, active : BOOLEAN, email : Address]
        BY DEF FederationTypeOK
      <4>2. QED
        BY <4>1
    <3>2. account' = [account EXCEPT ![a] = row]
      BY <2>2
    <3> HIDE DEF row
    <3>3. QED
      BY <3>1, <3>2 DEF FederationTypeOK
  <2>3. QED
    BY <2>1, <2>2 DEF FederationTypeOK
<1>4. FederationTypeOK'
  BY <1>1, <1>2, <1>3 DEF FederationTypeOK
<1>5. QED
  BY <1>1, <1>2, <1>4, NobodyMoves

(* A sign-in elsewhere mints a token.                                                          *)
LEMMA MintElsewhereKeeps ==
  ASSUME FederationInv, NEW a \in Leaver, NEW kind \in {"access", "refresh"}, MintElsewhere(a, kind)
  PROVE  FederationInv'
<1> USE DEF FederationInv
<1> DEFINE t == [kind |-> kind, of |-> a, by |-> Elsewhere, live |-> TRUE]
           N == Len(tokens) + 1
<1>1. /\ tokens' = Append(tokens, t) /\ crowded' = crowded \cup Minting(a)
      /\ UNCHANGED <<idp, state, proof, account, link, exchange, visit>>
  BY DEF MintElsewhere, people
<1>2. t \in Token /\ t.by = Elsewhere /\ t.of = a /\ t.live
  BY LeaverAssumption DEF Token, Minter, Account
<1>3. /\ tokens' \in Seq(Token) /\ DOMAIN tokens' = 1..N /\ tokens'[N] = t /\ N \in DOMAIN tokens'
      /\ \A n \in DOMAIN tokens : n \in DOMAIN tokens' /\ n < N /\ tokens'[n] = tokens[n]
      /\ \A n \in DOMAIN tokens' : n \in Nat /\ (n \in DOMAIN tokens \/ n = N)
  BY <1>1, <1>2, FederationFields DEF FederationTypeOK
<1> HIDE DEF t, N
<1>4. FederationTypeOK'
  BY <1>1, <1>3 DEF FederationTypeOK, Minting
<1>5. \A u \in Visit : Apart(u)' => Apart(u)
  BY <1>1 DEF Apart
<1>6. TokenInv'
  <2>1. ASSUME NEW n \in DOMAIN tokens' PROVE Minted(n)'
    BY <1>1, <1>2, <1>3 DEF TokenInv, Minted
  <2>2. ASSUME NEW n \in DOMAIN tokens', NEW m \in DOMAIN tokens', n < m
        PROVE  OwnFromThere(n, m)' /\ LiveFromThere(n, m)'
    <3>1. n \in DOMAIN tokens /\ tokens'[n] = tokens[n] /\ (Apart(tokens[n].by)' => Apart(tokens[n].by))
      BY <1>3, <1>5, <2>2, FederationFields DEF Apart
    <3>2. CASE m \in DOMAIN tokens
      <4>1. tokens'[m] = tokens[m] /\ (Apart(tokens[m].by)' => Apart(tokens[m].by))
        BY <1>3, <1>5, <3>2 DEF Apart
      <4>2. OwnFromThere(n, m) /\ LiveFromThere(n, m)
        BY <2>2, <3>1, <3>2 DEF TokenInv
      <4>3. QED
        BY <3>1, <4>1, <4>2 DEF OwnFromThere, LiveFromThere, Apart
    <3>3. CASE m = N
      <4>1. ASSUME Apart(tokens[n].by)', tokens[n].of = a PROVE FALSE
        <5>1. Apart(tokens[n].by) /\ tokens[n].by \in Visit
          BY <3>1, <4>1 DEF Apart
        <5>2. visit[tokens[n].by].as = tokens[n].of
          BY <3>1, <5>1, LocalAssumption DEF TokenInv, Minted
        <5>5. visit[tokens[n].by].at \in {"refresh", "code", "signed"}
          BY <5>1 DEF Apart, Paired
        <5>6. tokens[n].of = a
          BY <4>1
        <5>3. tokens[n].by \in Minting(a)
          BY <3>1, <5>1, <5>2, <5>5, <5>6 DEF Minting
        <5>4. QED
          BY <1>1, <3>1, <4>1, <5>3 DEF Apart
      <4>2. QED
        BY <1>2, <1>3, <3>1, <3>3, <4>1 DEF OwnFromThere, LiveFromThere, Apart
    <3>4. QED
      BY <1>3, <3>2, <3>3
  <2>3. QED
    BY <2>1, <2>2 DEF TokenInv
<1>7. ASSUME NEW u \in Visit PROVE VisitInv(u)'
  <2>1. \A k \in {"access", "refresh"} : Has(u, k) => Has(u, k)'
    BY <1>3 DEF Has
  <2>2. visit[u].from \in Visit /\ Lost(u) => Lost(u)'
    BY <1>1, <1>2, <1>3, LocalAssumption DEF Lost, Struck
  <2>3. Taken(u)'
    BY <1>1, <2>2, TakenStands DEF VisitInv
  <2>4. QED
    BY <1>1, <2>1, <2>3 DEF VisitInv, On
<1>8. QED
  BY <1>4, <1>6, <1>7

(* Tokens are revoked, and with a visit's own refresh token all the older ones of its account. *)
LEMMA RevokeKeeps ==
  ASSUME FederationInv, NEW ends, Withdraw(ends),
         \A m \in DOMAIN tokens :
           m \in ends /\ tokens[m].kind = "refresh" /\ Apart(tokens[m].by) =>
             \A n \in DOMAIN tokens :
               /\ n < m /\ tokens[n].kind = "refresh" /\ tokens[n].live
               /\ tokens[m].of = tokens[n].of
               => n \in ends
  PROVE  FederationInv'
<1> USE DEF FederationInv
<1>1. /\ tokens' = [n \in DOMAIN tokens |-> [tokens[n] EXCEPT !.live = tokens[n].live /\ n \notin ends]]
      /\ UNCHANGED <<idp, state, proof, account, link, exchange, visit, crowded>>
      /\ DOMAIN tokens' = DOMAIN tokens
  BY DEF Withdraw, people
<1>2. ASSUME NEW n \in DOMAIN tokens
      PROVE  /\ tokens'[n] \in Token
             /\ tokens'[n].kind = tokens[n].kind /\ tokens'[n].of = tokens[n].of
             /\ tokens'[n].by = tokens[n].by
             /\ tokens'[n].live <=> (tokens[n].live /\ n \notin ends)
  <2> DEFINE b == tokens[n].live /\ n \notin ends
  <2>1. b \in BOOLEAN /\ tokens[n] \in Token
    BY FederationFields
  <2>2. tokens'[n] = [tokens[n] EXCEPT !.live = b]
    BY <1>1
  <2>3. tokens'[n].live = b /\ tokens'[n] \in Token
    <3> HIDE DEF b
    <3>1. QED
      BY <2>1, <2>2 DEF Token
  <2>4. QED
    BY <2>1, <2>2, <2>3 DEF Token
<1>3. FederationTypeOK'
  <2>1. tokens' \in Seq(Token)
    <3>1. DOMAIN tokens' = 1..Len(tokens) /\ Len(tokens) \in Nat
      BY <1>1, FederationFields
    <3>2. tokens' = [n \in 1..Len(tokens) |-> tokens'[n]]
      BY <1>1, <3>1
    <3>3. \A n \in 1..Len(tokens) : tokens'[n] \in Token
      BY <1>2, FederationFields
    <3>4. QED
      BY <3>1, <3>2, <3>3, FederationFields
  <2>2. QED
    BY <1>1, <2>1 DEF FederationTypeOK
<1>4. TokenInv'
  <2>1. ASSUME NEW n \in DOMAIN tokens PROVE Minted(n)' /\ (Apart(tokens[n].by)' <=> Apart(tokens[n].by))
    <3>1. tokens'[n].by = tokens[n].by /\ tokens'[n].of = tokens[n].of
      BY <1>2
    <3>2. Minted(n)
      BY DEF TokenInv
    <3>3. Minted(n)'
      BY <1>1, <3>1, <3>2 DEF Minted
    <3>4. Apart(tokens[n].by)' <=> Apart(tokens[n].by)
      BY <1>1, <3>1 DEF Apart
    <3>5. QED
      BY <3>3, <3>4
  <2>2. ASSUME NEW n \in DOMAIN tokens, NEW m \in DOMAIN tokens, n < m
        PROVE  OwnFromThere(n, m)'
    <3>1. OwnFromThere(n, m)
      BY <2>2 DEF TokenInv
    <3>2. /\ tokens'[n].by = tokens[n].by /\ tokens'[n].of = tokens[n].of
          /\ tokens'[m].by = tokens[m].by /\ tokens'[m].of = tokens[m].of
      BY <1>2
    <3>3. QED
      BY <2>1, <3>1, <3>2 DEF OwnFromThere
  <2>3. ASSUME NEW n \in DOMAIN tokens, NEW m \in DOMAIN tokens, n < m
        PROVE  LiveFromThere(n, m)'
    <3>1. LiveFromThere(n, m)
      BY <2>3 DEF TokenInv
    <3>2. Apart(tokens[m].by)' <=> Apart(tokens[m].by)
      BY <2>1
    <3>3. QED
      BY <1>2, <2>3, <3>1, <3>2 DEF LiveFromThere
  <2>4. QED
    BY <1>1, <2>1, <2>2, <2>3 DEF TokenInv
<1>5. ASSUME NEW v \in Visit PROVE VisitInv(v)'
  <2>1. Lost(v) => Lost(v)'
    BY <1>1, <1>2 DEF Lost, Struck
  <2>2. Taken(v)'
    BY <1>1, <2>1, TakenStands DEF VisitInv
  <2>3. /\ Has(v, "access") => Has(v, "access")'
        /\ Has(v, "refresh") => Has(v, "refresh")'
    BY <1>1, <1>2 DEF Has
  <2>4. QED
    BY <1>1, <2>2, <2>3 DEF VisitInv, On
<1>6. QED
  BY <1>3, <1>4, <1>5

(* Of the ways to revoke, only a rotation ends one refresh token of a visit, and the access    *)
(* token that /auth/refresh inserted before it has crowded the visit.                          *)
LEMMA RevocationsKeep ==
  ASSUME FederationInv,
         \/ \E a \in Leaver : EndRefresh(a) \/ EndAccess(a)
         \/ \E n \in DOMAIN tokens : SpendRefresh(n) \/ RevokeOwn(n) \/ RevokeOthers(n)
  PROVE  FederationInv'
<1> USE DEF FederationInv
<1>1. ASSUME NEW a \in Leaver, EndRefresh(a) PROVE FederationInv'
  <2>1. Withdraw(Live("refresh", a))
    BY <1>1 DEF EndRefresh
  <2>2. QED
    BY <2>1, RevokeKeeps DEF Live
<1>2. ASSUME NEW a \in Leaver, EndAccess(a) PROVE FederationInv'
  <2>1. Withdraw(Live("access", a))
    BY <1>2 DEF EndAccess
  <2>2. \A m \in DOMAIN tokens : m \in Live("access", a) => tokens[m].kind # "refresh"
    BY DEF Live
  <2>3. QED
    BY <2>1, <2>2, RevokeKeeps
<1>3. ASSUME NEW n \in DOMAIN tokens, RevokeOwn(n) \/ RevokeOthers(n) PROVE FederationInv'
  <2>1. PICK ends : Withdraw(ends) /\ \A m \in ends : tokens[m].kind = "access"
    BY <1>3 DEF RevokeOwn, RevokeOthers, Live
  <2>2. \A m \in DOMAIN tokens : m \in ends => tokens[m].kind # "refresh"
    BY <2>1
  <2>3. QED
    BY <2>1, <2>2, RevokeKeeps
<1>4. ASSUME NEW n \in DOMAIN tokens, SpendRefresh(n) PROVE FederationInv'
  <2>1. Withdraw({n})
    BY <1>4 DEF SpendRefresh
  <2>2. ~Apart(tokens[n].by)
    <3> SUFFICES ASSUME Apart(tokens[n].by) PROVE FALSE
      OBVIOUS
    <3>1. tokens[n].by # Elsewhere
      BY LocalAssumption DEF Apart
    <3>2. PICK m \in DOMAIN tokens : n < m /\ tokens[m].by = Elsewhere /\ tokens[m].of = tokens[n].of
      BY <1>4, <3>1 DEF SpendRefresh
    <3>3. OwnFromThere(n, m)
      BY <3>2 DEF TokenInv
    <3>4. QED
      BY <3>1, <3>2, <3>3 DEF OwnFromThere
  <2>3. QED
    BY <2>1, <2>2, RevokeKeeps
<1>5. QED
  BY <1>1, <1>2, <1>3, <1>4

LEMMA FederationInvHolds == FederationSpec => []FederationInv
<1>1. FederationInit => FederationInv
  <2> SUFFICES ASSUME FederationInit PROVE FederationInv
    OBVIOUS
  <2>1. Blank \in VisitRow /\ Blank.at = "idle" /\ Blank.access = {}
    BY SomeAssumption DEF Blank, VisitRow, Steps_, Account, Address
  <2>2. tokens = <<>> /\ DOMAIN tokens = {} /\ tokens \in Seq(Token)
    BY DEF FederationInit
  <2>3. account \in [Account -> [there : BOOLEAN, active : BOOLEAN, email : Address]]
    <3>1. PICK e \in Email :
            account = [a \in Account |-> [there |-> a = Local, active |-> TRUE, email |-> e]]
      BY DEF FederationInit
    <3>2. ASSUME NEW a \in Account PROVE (a = Local) \in BOOLEAN
      OBVIOUS
    <3>3. QED
      BY <3>1, <3>2 DEF Address
  <2>4. visit \in [Visit -> VisitRow] /\ \A v \in Visit : visit[v] = Blank
    BY <2>1 DEF FederationInit
  <2>5. FederationTypeOK
    BY <2>2, <2>3, <2>4 DEF FederationInit, FederationTypeOK, VisitRow
  <2>6. TokenInv
    BY <2>2 DEF TokenInv
  <2>7. \A v \in Visit : VisitInv(v)
    BY <2>1, <2>4 DEF FederationInit, VisitInv, Taken, Fetches, On, Paired
  <2>8. QED
    BY <2>5, <2>6, <2>7 DEF FederationInv
<1>2. FederationInv /\ [FederationNext]_federationVars => FederationInv'
  <2> SUFFICES ASSUME FederationInv, [FederationNext]_federationVars PROVE FederationInv'
    OBVIOUS
  <2>1. CASE UNCHANGED federationVars
    <3>1. FederationTypeOK'
      BY <2>1 DEF federationVars, FederationInv, FederationTypeOK
    <3>2. QED
      BY <2>1, <3>1, NobodyMoves DEF federationVars
  <2>2. CASE FederationNext
    BY <2>2, FindKeeps, MintKeeps, SignKeeps, FetchKeeps, OthersKeep, MintElsewhereKeeps, RevocationsKeep DEF FederationNext
  <2>3. QED
    BY <2>1, <2>2
<1>3. QED
  BY <1>1, <1>2, PTL DEF FederationSpec

(* Every token minted for an identity is of the account that the identity is linked to; and a   *)
(* code yields the pair it was issued for, unless somebody minted for the account since, but for *)
(* an older access token in the place of one that was revoked.                                  *)
THEOREM FederationHoldsTheorem == FederationSpec => []FederationHolds
<1>1. FederationInv => FederationHolds
  <2> SUFFICES ASSUME FederationInv PROVE FederationHolds
    OBVIOUS
  <2>1. SameIdentitySameUser
    BY DEF FederationInv, TokenInv, Minted, SameIdentitySameUser
  <2>2. ExchangeYieldsOwn
    BY DEF FederationInv, VisitInv, Taken, Lost, ExchangeYieldsOwn
  <2>3. QED
    BY <2>1, <2>2 DEF FederationHolds
<1>2. QED
  BY <1>1, FederationInvHolds, PTL

--------------------------------------------------------------------------------
(* ClientAuth.                                                                       *)

(* The stored hash is of the current secret, and so was the one each call has read, unless   *)
(* a call that was storing the hash of an old secret overtook a rotation.                    *)
HashIsCurrent == ~undone => client.hash \in {client.clear, NoHash}
SecretRead(r) ==
  /\ auth[r].at = "compare" => /\ auth[r].stale <=> auth[r].secret # auth[r].clear
                               /\ ~undone => auth[r].hash \in {auth[r].clear, NoHash}
  /\ auth[r].at \in {"upgrade", "jti"} => ~auth[r].stale
  /\ auth[r].at = "in" /\ auth[r].stale => undone
SecretInv == HashIsCurrent /\ \A r \in Authn : SecretRead(r)

(* A call that is about to enter a proof found it neither dated ahead nor too old.            *)
Presents(r, p) == auth[r].at = "jti" /\ auth[r].proof = p
InTime(r, p) == /\ iat[p] <= auth[r].since /\ auth[r].since <= now
                /\ auth[r].since < iat[p] + Life + Second
                /\ p \in late \/ auth[r].since <= iat[p] + Life

(* A proof that was accepted is in the table until it is past its age; one accepted twice, the *)
(* second time in the Second after its age, until nothing accepts it any more.                 *)
TooLate(p) == iat[p] + Life + Second
ProofOnce(p) ==
  /\ uses[p] <= IF p \in late THEN 2 ELSE 1
  /\ jti[p] # 0 => iat[p] + Life <= jti[p]
  /\ uses[p] = 0 \/ jti[p] # 0 \/ now > iat[p] + Life
  /\ uses[p] = 2 => (jti[p] # 0 /\ jti[p] >= TooLate(p)) \/ now >= TooLate(p)
  /\ \A r \in Authn : Presents(r, p) => InTime(r, p)
ProofInv == \A p \in Proof : p \in ahead \/ ProofOnce(p)

ParInv == \A q \in Pushed : /\ redeemed[q] <= 1
                            /\ par[q].at \in {"none", "live"} => redeemed[q] = 0

ClientInv == ClientTypeOK /\ SecretInv /\ ProofInv /\ ParInv

AuthRow == [at : {"idle", "compare", "upgrade", "jti", "in", "out"}, secret : Secret,
            clear : Secret, hash : Secret \cup {NoHash}, jwt : BOOLEAN, stale : BOOLEAN,
            proof : Proof, since : Time]

LEMMA ClientTypes ==
  /\ Life \in Nat /\ Life > 0 /\ Second \in Nat /\ 0 < Second /\ Second <= Life
  /\ LastTime \in Nat /\ MaxSecret \in Nat
  /\ 0 \in Secret /\ 0 \in Time /\ NoHash \notin Secret /\ NoHash \in Nat
  /\ \A s \in Secret : s \in Nat
  /\ \A t \in 0..LastTime : t \in Time /\ t + Life \in Time
  /\ NoAuth \in AuthRow /\ NoAuth.at = "idle" /\ ~NoAuth.stale
<1>1. /\ Life \in Nat /\ Life > 0 /\ Second \in Nat /\ 0 < Second /\ Second <= Life
      /\ LastTime \in Nat /\ MaxSecret \in Nat
      /\ 0 \in Secret /\ 0 \in Time /\ NoHash \notin Secret /\ NoHash \in Nat
      /\ \A s \in Secret : s \in Nat
      /\ \A t \in 0..LastTime : t \in Time /\ t + Life \in Time
  BY ProofAssumption DEF Secret, Time, NoHash
<1>2. (CHOOSE p \in Proof : TRUE) \in Proof
  BY ProofAssumption DEF Proof
<1>3. NoAuth \in AuthRow /\ NoAuth.at = "idle" /\ ~NoAuth.stale
  BY <1>1, <1>2 DEF NoAuth, AuthRow
<1>4. QED
  BY <1>1, <1>3

LEMMA ClientFields ==
  ASSUME ClientTypeOK
  PROVE  /\ auth \in [Authn -> AuthRow] /\ now \in 0..LastTime /\ now \in Nat
         /\ client.there \in BOOLEAN /\ client.clear \in Secret /\ client.jwt \in BOOLEAN
         /\ client.hash \in Secret \cup {NoHash}
         /\ \A p \in Proof : iat[p] \in Nat /\ jti[p] \in Time /\ jti[p] \in Nat /\ uses[p] \in Nat
         /\ \A q \in Pushed : redeemed[q] \in Nat /\ par[q].until \in Nat
         /\ \A r \in Authn : /\ auth[r].secret \in Secret /\ auth[r].clear \in Secret
                             /\ auth[r].hash \in Secret \cup {NoHash}
                             /\ auth[r].stale \in BOOLEAN /\ auth[r].jwt \in BOOLEAN
                             /\ auth[r].proof \in Proof /\ auth[r].since \in Nat
  BY ClientTypes DEF ClientTypeOK, AuthRow, Time

(* Where a call is left that keeps nothing but whether its secret was out of date.            *)
LEMMA AuthToIs ==
  ASSUME ClientTypeOK, NEW r \in Authn, NEW step \in {"idle", "compare", "upgrade", "jti", "in", "out"},
         AuthTo(r, step)
  PROVE  /\ auth' \in [Authn -> AuthRow]
         /\ auth'[r].at = step /\ auth'[r].stale = auth[r].stale
         /\ \A d \in Authn : d # r => auth'[d] = auth[d]
<1> DEFINE row == [NoAuth EXCEPT !.at = step, !.stale = auth[r].stale]
<1>1. row \in AuthRow /\ row.at = step /\ row.stale = auth[r].stale
  BY ClientTypes, ClientFields DEF AuthRow
<1>2. auth' = [auth EXCEPT ![r] = row]
  BY DEF AuthTo
<1> HIDE DEF row
<1>3. QED
  BY <1>1, <1>2, ClientFields

(* What the tables and the proofs under way say of a proof is not met by the other steps.     *)
LEMMA ProofUndisturbed ==
  ASSUME ClientTypeOK, ProofInv, UNCHANGED <<now, iat, jti, uses, late>>, ahead \subseteq ahead',
         \A r \in Authn : auth'[r] = auth[r] \/ auth'[r].at # "jti"
  PROVE  ProofInv'
<1> SUFFICES ASSUME NEW p \in Proof, p \notin ahead' PROVE ProofOnce(p)'
  BY DEF ProofInv
<1>1. ProofOnce(p)
  BY DEF ProofInv
<1>2. \A r \in Authn : Presents(r, p)' => Presents(r, p) /\ auth'[r].since = auth[r].since
  BY DEF Presents
<1>3. QED
  BY <1>1, <1>2 DEF ProofOnce, InTime, TooLate

(* A secret *)
LEMMA ReadClientKeeps ==
  ASSUME ClientInv, NEW r \in Authn, NEW s \in Secret, ReadClient(r, s)
  PROVE  ClientInv'
<1> USE DEF ClientInv
<1> DEFINE row == [NoAuth EXCEPT !.at = "compare", !.secret = s, !.clear = client.clear,
                                 !.hash = client.hash, !.jwt = client.jwt,
                                 !.stale = s # client.clear]
<1>1. /\ UNCHANGED <<clientCase, now, iat, client, jti, par, uses, redeemed, ahead, late, undone>>
      /\ auth' = [auth EXCEPT ![r] = row]
  BY DEF ReadClient, tables, tallies
<1>2. /\ row \in AuthRow /\ row.at = "compare" /\ row.secret = s /\ row.clear = client.clear
      /\ row.hash = client.hash
      /\ row.stale <=> s # client.clear
  BY ClientTypes, ClientFields DEF AuthRow
<1> HIDE DEF row
<1>3. /\ auth' \in [Authn -> AuthRow] /\ auth'[r] = row
      /\ \A d \in Authn : d # r => auth'[d] = auth[d]
  BY <1>1, <1>2, ClientFields
<1>4. ClientTypeOK'
  BY <1>1, <1>3 DEF ClientTypeOK, AuthRow
<1>5. SecretInv'
  <2>1. HashIsCurrent'
    BY <1>1 DEF SecretInv, HashIsCurrent
  <2>2. ASSUME NEW d \in Authn, d # r PROVE SecretRead(d)'
    BY <1>1, <1>3, <2>2 DEF SecretInv, SecretRead
  <2>3. SecretRead(r)'
    <3>1. /\ auth'[r].at = "compare" /\ auth'[r].hash = client.hash /\ auth'[r].clear = client.clear
          /\ auth'[r].stale <=> auth'[r].secret # auth'[r].clear
      BY <1>2, <1>3
    <3>2. QED
      BY <1>1, <3>1 DEF SecretInv, SecretRead, HashIsCurrent
  <2>4. QED
    BY <2>1, <2>2, <2>3 DEF SecretInv
<1>6. ProofInv'
  BY <1>1, <1>2, <1>3, ProofUndisturbed
<1>7. ParInv'
  BY <1>1 DEF ParInv
<1>8. QED
  BY <1>4, <1>5, <1>6, <1>7

LEMMA CompareKeeps ==
  ASSUME ClientInv, NEW r \in Authn, Compare(r)
  PROVE  ClientInv'
<1> USE DEF ClientInv
<1>1. /\ UNCHANGED <<clientCase, now, iat, client, jti, par, uses, redeemed, ahead, late, undone>>
      /\ auth[r].at = "compare"
  BY DEF Compare, tables, tallies
<1>2. /\ auth' \in [Authn -> AuthRow] /\ auth'[r].stale = auth[r].stale
      /\ auth'[r].at \in {"upgrade", "in", "out"}
      /\ auth'[r].at = "upgrade" => auth[r].secret = auth[r].clear
      /\ auth'[r].at = "in" => auth[r].secret = auth[r].hash
      /\ \A d \in Authn : d # r => auth'[d] = auth[d]
  <2>1. CASE auth[r].hash = NoHash /\ auth[r].secret = auth[r].clear
    <3>1. auth' = [auth EXCEPT ![r].at = "upgrade"]
      BY <2>1 DEF Compare
    <3>2. QED
      BY <2>1, <3>1, ClientFields DEF AuthRow
  <2>2. CASE ~(auth[r].hash = NoHash /\ auth[r].secret = auth[r].clear)
    <3>1. PICK step \in {"in", "out"} :
            AuthTo(r, step) /\ (step = "in" => auth[r].secret = auth[r].hash)
      BY <2>2 DEF Compare, Verdict
    <3>2. /\ auth' \in [Authn -> AuthRow] /\ auth'[r].at = step /\ auth'[r].stale = auth[r].stale
          /\ \A d \in Authn : d # r => auth'[d] = auth[d]
      BY <3>1, AuthToIs
    <3>3. QED
      BY <3>1, <3>2
  <2>3. QED
    BY <2>1, <2>2
<1>3. ClientTypeOK'
  BY <1>1, <1>2 DEF ClientTypeOK, AuthRow
<1>4. SecretInv'
  <2>1. HashIsCurrent'
    BY <1>1 DEF SecretInv, HashIsCurrent
  <2>2. ASSUME NEW d \in Authn, d # r PROVE SecretRead(d)'
    BY <1>1, <1>2, <2>2 DEF SecretInv, SecretRead
  <2>3. SecretRead(r)'
    BY <1>1, <1>2, ClientTypes, ClientFields DEF SecretInv, SecretRead
  <2>4. QED
    BY <2>1, <2>2, <2>3 DEF SecretInv
<1>5. ProofInv'
  BY <1>1, <1>2, ProofUndisturbed
<1>6. ParInv'
  BY <1>1 DEF ParInv
<1>7. QED
  BY <1>3, <1>4, <1>5, <1>6

LEMMA UpgradeKeeps ==
  ASSUME ClientInv, NEW r \in Authn, Upgrade(r)
  PROVE  ClientInv'
<1> USE DEF ClientInv
<1>1. /\ UNCHANGED <<clientCase, now, iat, jti, par, uses, redeemed, ahead, late>>
      /\ auth[r].at = "upgrade" /\ ~auth[r].stale /\ AuthTo(r, Verdict(r))
  BY DEF Upgrade, tables, SecretInv, SecretRead
<1>2. /\ auth' \in [Authn -> AuthRow] /\ ~auth'[r].stale /\ auth'[r].at \in {"in", "out"}
      /\ \A d \in Authn : d # r => auth'[d] = auth[d]
  <2>1. Verdict(r) \in {"in", "out"}
    BY DEF Verdict
  <2>2. QED
    BY <1>1, <2>1, AuthToIs
<1>3. \/ UNCHANGED <<client, undone>>
      \/ /\ client' = [client EXCEPT !.hash = auth[r].secret]
         /\ undone' = (undone \/ auth[r].secret # client.clear)
  BY DEF Upgrade
<1>4. ClientTypeOK'
  <2>1. /\ client' \in [there : BOOLEAN, clear : Secret, hash : Secret \cup {NoHash}, jwt : BOOLEAN]
        /\ undone' \in BOOLEAN
    BY <1>3, ClientFields DEF ClientTypeOK
  <2>2. QED
    BY <1>1, <1>2, <2>1 DEF ClientTypeOK, AuthRow
<1>5. SecretInv'
  <2>1. HashIsCurrent'
    BY <1>3, ClientFields DEF SecretInv, HashIsCurrent, ClientTypeOK
  <2>2. undone => undone'
    BY <1>3
  <2>3. ASSUME NEW d \in Authn, d # r PROVE SecretRead(d)'
    BY <1>2, <2>2, <2>3 DEF SecretInv, SecretRead
  <2>4. SecretRead(r)'
    BY <1>2 DEF SecretRead
  <2>5. QED
    BY <2>1, <2>3, <2>4 DEF SecretInv
<1>6. ProofInv'
  BY <1>1, <1>2, ProofUndisturbed
<1>7. ParInv'
  BY <1>1 DEF ParInv
<1>8. QED
  BY <1>4, <1>5, <1>6, <1>7

(* Assertions and DPoP proofs *)
LEMMA CheckProofKeeps ==
  ASSUME ClientInv, NEW r \in Authn, NEW q \in Proof, CheckProof(r, q)
  PROVE  ClientInv'
<1> USE DEF ClientInv
<1> DEFINE row == [NoAuth EXCEPT !.at = "jti", !.proof = q, !.since = now]
<1>1. /\ UNCHANGED <<clientCase, now, iat, client, jti, par, uses, redeemed, undone>>
      /\ auth' = [auth EXCEPT ![r] = row] /\ now < iat[q] + Life + Second
      /\ late' = IF now > iat[q] + Life THEN late \cup {q} ELSE late
      /\ now > iat[q] + Life => q \in Assertion
      /\ ahead' = IF iat[q] > now THEN ahead \cup {q} ELSE ahead
  BY ClientTypes, ClientFields DEF CheckProof, tables
<1>2. /\ row \in AuthRow /\ row.at = "jti" /\ row.proof = q /\ row.since = now /\ ~row.stale
  BY ClientTypes, ClientFields DEF AuthRow
<1> HIDE DEF row
<1>3. /\ auth' \in [Authn -> AuthRow] /\ auth'[r] = row
      /\ \A d \in Authn : d # r => auth'[d] = auth[d]
  BY <1>1, <1>2, ClientFields
<1>4. ClientTypeOK'
  <2>1. late' \subseteq Assertion
    BY <1>1 DEF ClientTypeOK
  <2>2. QED
    BY <1>1, <1>3, <2>1 DEF ClientTypeOK, AuthRow
<1>5. SecretInv'
  <2>1. HashIsCurrent'
    BY <1>1 DEF SecretInv, HashIsCurrent
  <2>2. ASSUME NEW d \in Authn, d # r PROVE SecretRead(d)'
    BY <1>1, <1>3, <2>2 DEF SecretInv, SecretRead
  <2>3. SecretRead(r)'
    BY <1>2, <1>3 DEF SecretRead
  <2>4. QED
    BY <2>1, <2>2, <2>3 DEF SecretInv
<1>6. ProofInv'
  <2> SUFFICES ASSUME NEW p \in Proof, p \notin ahead' PROVE ProofOnce(p)'
    BY DEF ProofInv
  <2>1. ProofOnce(p) /\ p \notin ahead /\ (p = q => iat[p] <= now)
    BY <1>1, ClientFields DEF ProofInv
  <2>4. p \in late => p \in late'
    BY <1>1
  <2>5. p = q => (p \in late' \/ now <= iat[p] + Life)
    BY <1>1, ClientTypes, ClientFields
  <2>2. ASSUME NEW d \in Authn, Presents(d, p)' PROVE InTime(d, p)'
    <3>1. CASE d = r
      BY <1>1, <1>2, <1>3, <2>1, <2>2, <2>5, <3>1, ClientFields DEF Presents, InTime
    <3>2. CASE d # r
      BY <1>1, <1>3, <2>1, <2>2, <2>4, <3>2 DEF Presents, InTime, ProofOnce
    <3>3. QED
      BY <3>1, <3>2
  <2>3. QED
    <3>1. uses[p] \in Nat /\ UNCHANGED <<uses[p], jti[p], iat[p], now>>
      BY <1>1, ClientFields
    <3>2. uses'[p] <= IF p \in late' THEN 2 ELSE 1
      BY <2>1, <2>4, <3>1 DEF ProofOnce
    <3>3. QED
      BY <1>1, <2>1, <2>2, <3>1, <3>2 DEF ProofOnce, TooLate
<1>7. ParInv'
  BY <1>1 DEF ParInv
<1>8. QED
  BY <1>4, <1>5, <1>6, <1>7

LEMMA InsertJtiKeeps ==
  ASSUME ClientInv, NEW r \in Authn, InsertJti(r)
  PROVE  ClientInv'
<1> USE DEF ClientInv
<1> DEFINE q == auth[r].proof
<1>1. /\ q \in Proof /\ Presents(r, q)
      /\ UNCHANGED <<clientCase, now, iat, client, par, redeemed, late, undone>>
      /\ jti' = IF jti[q] = 0 THEN [jti EXCEPT ![q] = now + Life] ELSE jti
      /\ uses' = IF jti[q] = 0 THEN [uses EXCEPT ![q] = uses[q] + 1] ELSE uses
      /\ ahead' = IF now > auth[r].since THEN ahead \cup {q} ELSE ahead
      /\ ~auth[r].stale
  BY ClientFields DEF InsertJti, Presents, SecretInv, SecretRead
<1>2. /\ auth' \in [Authn -> AuthRow] /\ auth'[r].at \in {"in", "out"} /\ ~auth'[r].stale
      /\ \A d \in Authn : d # r => auth'[d] = auth[d]
  <2>1. PICK step \in {"in", "out"} : AuthTo(r, step)
    BY DEF InsertJti
  <2>2. QED
    BY <1>1, <2>1, AuthToIs
<1> HIDE DEF q
<1>3. ClientTypeOK'
  BY <1>1, <1>2, ClientTypes, ClientFields DEF ClientTypeOK, AuthRow
<1>4. SecretInv'
  <2>1. HashIsCurrent'
    BY <1>1 DEF SecretInv, HashIsCurrent
  <2>2. ASSUME NEW d \in Authn, d # r PROVE SecretRead(d)'
    BY <1>1, <1>2, <2>2 DEF SecretInv, SecretRead
  <2>3. SecretRead(r)'
    BY <1>2 DEF SecretRead
  <2>4. QED
    BY <2>1, <2>2, <2>3 DEF SecretInv
<1>5. ProofInv'
  <2> SUFFICES ASSUME NEW p \in Proof, p \notin ahead' PROVE ProofOnce(p)'
    BY DEF ProofInv
  <2>1. ProofOnce(p) /\ (p = q => now <= auth[r].since)
    BY <1>1, ClientFields DEF ProofInv
  <2>2. \A d \in Authn : Presents(d, p)' => InTime(d, p)'
    BY <1>1, <1>2, <2>1 DEF ProofOnce, TooLate, Presents, InTime
  <2>3. CASE p # q \/ jti[q] # 0
    <3>1. jti'[p] = jti[p] /\ uses'[p] = uses[p]
      BY <1>1, <2>3 DEF ClientTypeOK
    <3>2. QED
      BY <1>1, <2>1, <2>2, <3>1 DEF ProofOnce, TooLate
  <2>4. CASE p = q /\ jti[q] = 0
    <3>1. iat[p] <= now /\ now < TooLate(p) /\ (p \in late \/ now <= iat[p] + Life)
      <4>1. InTime(r, p) /\ now = auth[r].since
        BY <1>1, <2>1, <2>4, ClientFields DEF ProofOnce, InTime, TooLate
      <4>2. QED
        BY <4>1 DEF InTime, TooLate
    <3>2. uses[p] = 0 \/ (uses[p] = 1 /\ p \in late /\ now > iat[p] + Life)
      <4>1. uses[p] \in 0..2 /\ (uses[p] = 2 => p \in late)
        BY <2>1, ClientFields DEF ProofOnce, TooLate
      <4>2. uses[p] # 2
        BY <2>1, <2>4, <3>1, ClientTypes, ClientFields DEF ProofOnce, TooLate
      <4>3. uses[p] = 1 => now > iat[p] + Life
        BY <2>1, <2>4 DEF ProofOnce, TooLate
      <4>4. QED
        BY <3>1, <4>1, <4>2, <4>3, ClientTypes, ClientFields
    <3>3. jti'[p] = now + Life /\ uses'[p] = uses[p] + 1
      BY <1>1, <2>4 DEF ClientTypeOK
    <3>4. /\ jti'[p] # 0 /\ iat[p] + Life <= jti'[p]
          /\ uses'[p] <= IF p \in late THEN 2 ELSE 1
          /\ uses'[p] = 2 => jti'[p] >= TooLate(p)
      BY <3>1, <3>2, <3>3, ClientTypes, ClientFields DEF TooLate
    <3>5. QED
      BY <1>1, <2>2, <3>4 DEF ProofOnce, TooLate
  <2>5. QED
    BY <2>3, <2>4
<1>6. ParInv'
  BY <1>1 DEF ParInv
<1>7. QED
  BY <1>3, <1>4, <1>5, <1>6

(* Pushed requests, administration, cleanup and time *)
LEMMA ParKeeps ==
  ASSUME ClientInv, NEW q \in Pushed, Push(q) \/ ResolvePar(q)
  PROVE  ClientInv'
<1> USE DEF ClientInv
<1>1. UNCHANGED <<clientCase, now, iat, client, jti, auth, uses, ahead, late, undone>>
  BY DEF Push, ResolvePar, tallies
<1>2. /\ par' \in [Pushed -> [at : {"none", "live", "used", "gone"}, until : Time]]
      /\ redeemed' \in [Pushed -> Nat] /\ ParInv'
  <2>1. CASE Push(q)
    <3>1. now + Life \in Time
      BY ClientTypes, ClientFields
    <3>2. QED
      BY <2>1, <3>1 DEF Push, tallies, ClientTypeOK, ParInv
  <2>2. CASE ResolvePar(q)
    <3>1. par' = [par EXCEPT ![q].at = "used"] /\ par[q].at = "live"
      BY <2>2 DEF ResolvePar
    <3>2. redeemed' = redeemed \/ redeemed' = [redeemed EXCEPT ![q] = redeemed[q] + 1]
      BY <2>2 DEF ResolvePar
    <3>3. redeemed[q] = 0
      BY <3>1 DEF ParInv
    <3>4. redeemed' \in [Pushed -> Nat] /\ \A p \in Pushed : redeemed'[p] = redeemed[p]
                                                            \/ (p = q /\ redeemed'[p] = 1)
      BY <3>2, <3>3 DEF ClientTypeOK
    <3>5. QED
      <4>1. /\ par' \in [Pushed -> [at : {"none", "live", "used", "gone"}, until : Time]]
            /\ par'[q].at = "used" /\ \A p \in Pushed : p # q => par'[p] = par[p]
        BY <3>1 DEF ClientTypeOK
      <4>2. ASSUME NEW p \in Pushed
            PROVE  /\ redeemed'[p] <= 1
                   /\ par'[p].at \in {"none", "live"} => redeemed'[p] = 0
        BY <3>3, <3>4, <4>1 DEF ParInv
      <4>3. QED
        BY <3>4, <4>1, <4>2 DEF ParInv
  <2>3. QED
    BY <2>1, <2>2
<1>3. ClientTypeOK'
  BY <1>1, <1>2 DEF ClientTypeOK, Time
<1>4. SecretInv'
  BY <1>1 DEF SecretInv, HashIsCurrent, SecretRead
<1>5. ProofInv'
  BY <1>1, ProofUndisturbed
<1>6. QED
  BY <1>2, <1>3, <1>4, <1>5

LEMMA AdminKeeps ==
  ASSUME ClientInv,
         \/ RotateSecret \/ DeleteClient
         \/ \E j \in BOOLEAN : HandleRegistrationUpdate(j)
  PROVE  ClientInv'
<1> USE DEF ClientInv
<1>1. UNCHANGED <<clientCase, now, iat, jti, par, auth, uses, redeemed, ahead, late, undone>>
  BY DEF RotateSecret, DeleteClient, HandleRegistrationUpdate, tables, tallies
<1>2. /\ client' \in [there : BOOLEAN, clear : Secret, hash : Secret \cup {NoHash}, jwt : BOOLEAN]
      /\ HashIsCurrent'
  <2>1. CASE RotateSecret
    <3>1. client.clear + 1 \in Secret /\ undone' = undone
      BY <1>1, <2>1, ClientTypes, ClientFields DEF RotateSecret, Secret
    <3>2. client' = [there |-> client.there, clear |-> client.clear + 1,
                     hash |-> client.clear + 1, jwt |-> client.jwt]
      BY <2>1 DEF RotateSecret, ClientTypeOK
    <3>3. QED
      BY <3>1, <3>2, ClientFields DEF HashIsCurrent
  <2>2. CASE DeleteClient
    BY <1>1, <2>2, ClientFields DEF DeleteClient, ClientTypeOK, HashIsCurrent, SecretInv
  <2>3. ASSUME NEW j \in BOOLEAN, HandleRegistrationUpdate(j)
        PROVE  /\ client' \in [there : BOOLEAN, clear : Secret, hash : Secret \cup {NoHash},
                               jwt : BOOLEAN]
               /\ HashIsCurrent'
    BY <1>1, <2>3, ClientFields DEF HandleRegistrationUpdate, ClientTypeOK, HashIsCurrent, SecretInv
  <2>4. QED
    BY <2>1, <2>2, <2>3
<1>3. ClientTypeOK'
  BY <1>1, <1>2 DEF ClientTypeOK
<1>4. SecretInv'
  BY <1>1, <1>2 DEF SecretInv, SecretRead
<1>5. ProofInv' /\ ParInv'
  BY <1>1, ProofUndisturbed DEF ParInv
<1>6. QED
  BY <1>3, <1>4, <1>5

(* A row that is deleted has expired, so its proof is too old by then.                        *)
LEMMA CleanupKeeps ==
  ASSUME ClientInv, Cleanup
  PROVE  ClientInv'
<1> USE DEF ClientInv
<1>1. /\ UNCHANGED <<clientCase, now, iat, client, auth, uses, redeemed, ahead, late, undone>>
      /\ jti' = [p \in Proof |-> IF jti[p] # 0 /\ jti[p] < now THEN 0 ELSE jti[p]]
      /\ par' = [q \in Pushed |-> IF par[q].at # "none" /\ par[q].until < now
                                  THEN [par[q] EXCEPT !.at = "gone"] ELSE par[q]]
  BY DEF Cleanup, tallies
<1>2. /\ par' \in [Pushed -> [at : {"none", "live", "used", "gone"}, until : Time]] 
      /\ \A q \in Pushed : par'[q].at \in {"gone", par[q].at}
  BY <1>1 DEF ClientTypeOK
<1>3. ClientTypeOK'
  BY <1>1, <1>2, ClientTypes DEF ClientTypeOK
<1>4. SecretInv' /\ ParInv'
  BY <1>1, <1>2 DEF SecretInv, HashIsCurrent, SecretRead, ParInv
<1>5. ProofInv'
  <2> SUFFICES ASSUME NEW p \in Proof, p \notin ahead PROVE ProofOnce(p)'
    BY <1>1 DEF ProofInv
  <2>1. ProofOnce(p) /\ (\A d \in Authn : Presents(d, p)' => InTime(d, p)')
    BY <1>1 DEF ProofInv, ProofOnce, TooLate, Presents, InTime
  <2>2. \/ jti'[p] = jti[p]
        \/ jti'[p] = 0 /\ jti[p] # 0 /\ jti[p] < now
    BY <1>1
  <2>3. QED
    BY <1>1, <2>1, <2>2, ClientTypes, ClientFields DEF ProofOnce, TooLate
<1>6. QED
  BY <1>3, <1>4, <1>5

LEMMA TimeKeeps ==
  ASSUME ClientInv, TimePasses
  PROVE  ClientInv'
<1> USE DEF ClientInv
<1>1. /\ UNCHANGED <<clientCase, iat, client, jti, par, auth, uses, redeemed, ahead, late, undone>>
      /\ now' = now + 1 /\ now' \in 0..LastTime
  BY ClientTypes, ClientFields DEF TimePasses, tables, tallies
<1>2. ClientTypeOK' /\ SecretInv' /\ ParInv'
  BY <1>1 DEF ClientTypeOK, SecretInv, HashIsCurrent, SecretRead, ParInv
<1>3. ProofInv'
  <2> SUFFICES ASSUME NEW p \in Proof, p \notin ahead PROVE ProofOnce(p)'
    BY <1>1 DEF ProofInv
  <2>1. ProofOnce(p)
    BY DEF ProofInv
  <2>2. \A d \in Authn : Presents(d, p)' => InTime(d, p)'
    BY <1>1, <2>1, ClientFields DEF ProofOnce, TooLate, Presents, InTime
  <2>3. QED
    BY <1>1, <2>1, <2>2, ClientTypes, ClientFields DEF ProofOnce, TooLate
<1>4. QED
  BY <1>2, <1>3

LEMMA ClientInvHolds == ClientSpec => []ClientInv
<1>1. ClientInit => ClientInv
  <2> SUFFICES ASSUME ClientInit PROVE ClientInv
    OBVIOUS
  <2>1. /\ \A r \in Authn : auth[r] = NoAuth
        /\ auth \in [Authn -> AuthRow]
    BY ClientTypes DEF ClientInit
  <2>2. client \in [there : BOOLEAN, clear : Secret, hash : Secret \cup {NoHash}, jwt : BOOLEAN]
    BY ClientTypes DEF ClientInit
  <2>3. iat \in [Proof -> 0..LastTime]
    BY ClientTypes DEF ClientInit
  <2>4. ClientTypeOK
    <3>1. now \in 0..LastTime /\ clientCase \in ClientCases
      BY ClientTypes DEF ClientInit
    <3>5. ahead \subseteq Proof /\ late \subseteq Assertion /\ undone \in BOOLEAN
      BY DEF ClientInit
    <3>4. jti \in [Proof -> Time] /\ uses \in [Proof -> Nat] /\ redeemed \in [Pushed -> Nat]
      BY ClientTypes DEF ClientInit
    <3>2. par \in [Pushed -> [at : {"none", "live", "used", "gone"}, until : Time]]
      BY ClientTypes DEF ClientInit
    <3>3. QED
      BY <2>1, <2>2, <2>3, <3>1, <3>2, <3>4, <3>5 DEF ClientTypeOK, AuthRow
  <2>5. SecretInv
    BY <2>1, ClientTypes DEF ClientInit, SecretInv, HashIsCurrent, SecretRead
  <2>6. ProofInv /\ ParInv
    BY <2>1, ClientTypes DEF ClientInit, ProofInv, ProofOnce, TooLate, Presents, ParInv
  <2>7. QED
    BY <2>4, <2>5, <2>6 DEF ClientInv
<1>2. ClientInv /\ [ClientNext]_clientVars => ClientInv'
  <2> SUFFICES ASSUME ClientInv, [ClientNext]_clientVars PROVE ClientInv'
    OBVIOUS
  <2>1. CASE UNCHANGED clientVars
    BY <2>1 DEF clientVars, ClientInv, ClientTypeOK, SecretInv, HashIsCurrent, SecretRead, ProofInv,
                ProofOnce, TooLate, Presents, InTime, ParInv, Time
  <2>2. CASE ClientNext
    BY <2>2, ReadClientKeeps, CompareKeeps, UpgradeKeeps, InsertJtiKeeps, CheckProofKeeps, ParKeeps,
       AdminKeeps, CleanupKeeps, TimeKeeps DEF ClientNext
  <2>3. QED
    BY <2>1, <2>2
<1>3. QED
  BY <1>1, <1>2, PTL DEF ClientSpec

(* A call whose secret was rotated away before it began is let in only where an upgrade      *)
(* undid the rotation; a proof that was neither dated ahead nor held up lets one call in;     *)
(* a request_uri is redeemed once.                                                            *)
THEOREM ClientAuthHoldsTheorem == ClientSpec => []ClientAuthHolds
<1>1. ClientInv => ClientAuthHolds
  BY DEF ClientInv, SecretInv, SecretRead, ProofInv, ProofOnce, ParInv, ClientAuthHolds
<1>2. QED
  BY <1>1, ClientInvHolds, PTL

--------------------------------------------------------------------------------
(* Access.                                                                           *)

(* What an operation is made of.                                                              *)
BootRow == [kind : {"boot"}, step : {"roles", "wire", "grants", "up"}, todo : SUBSET Tenant,
            ready : SUBSET Tenant, queue : SUBSET (Tenant \cup (User \X (Tenant \cup {NoTenant}))),
            alone : BOOLEAN]
CreateRow == [kind : {"create"}, user : User, tenant : Tenant, admin : BOOLEAN]
RemoveRow == [kind : {"remove"}, tenant : Tenant]
ChangeKind == {"replace", "add", "drop", "delete"}
ChangeRow == [kind : ChangeKind, group : Group, todo : SUBSET User, want : SUBSET User,
              cleared : BOOLEAN]
OpRow == {Idle} \cup BootRow \cup CreateRow \cup RemoveRow \cup ChangeRow

(* Nobody who is not astray is in a tenant that is gone or that a deletion has emptied; and    *)
(* who has no row yet is no administrator.                                                     *)
PersonInv ==
  /\ \A u \in User : persons[u].tenant = NoTenant => ~persons[u].admin
  /\ \A u \in User \ astray :
       /\ persons[u].tenant = NoTenant \/ persons[u].tenant \in tenants
       /\ \A c \in Op : op[c].kind = "remove" => persons[u].tenant # op[c].tenant
  /\ \A c \in Op : op[c].kind = "remove" => op[c].tenant # DefaultTenant

(* A start of a server has the roles it knows of; of the administrators it read, as long as    *)
(* nobody changed them, each has its role or is still to get it.                               *)
BootInv(c) ==
  op[c].kind = "boot" =>
    /\ \A t \in op[c].ready : role[t] # "none"
    /\ op[c].step = "wire" => op[c].queue \subseteq Tenant /\ \A t \in op[c].queue : role[t] # "none"
    /\ op[c].step \in {"grants", "up"} /\ op[c].alone =>
         \A u \in User : persons[u].admin /\ persons[u].tenant \in op[c].ready =>
           \/ <<u, persons[u].tenant>> \in granted
           \/ /\ op[c].step = "grants"
              /\ <<u, persons[u].tenant>> \in op[c].queue

(* How far the one request that changes a group has got from what was settled before.          *)
Halfway(o, members, before) ==
  /\ o.todo \subseteq o.want
  /\ o.kind = "replace" => IF o.cleared THEN members = o.want \ o.todo ELSE o.todo = o.want
  /\ o.kind = "add" => o.cleared /\ members = before \cup (o.want \ o.todo)
  /\ o.kind = "drop" => o.cleared /\ members = before \ (o.want \ o.todo)
  /\ o.kind = "delete" => o.want = {} /\ (o.cleared => members = {})
GroupInv(g) ==
  /\ ~group[g].live => group[g].members = {}
  /\ settled[g] # Unknown =>
       /\ Changes(g) = {} => group[g].members = settled[g]
       /\ \A c \in Changes(g) : /\ Halfway(op[c], group[g].members, settled[g])
                                /\ \A d \in Changes(g) : c = d

AccessInv ==
  /\ AccessTypeOK /\ op \in [Op -> OpRow] /\ PersonInv
  /\ \A c \in Op : BootInv(c)
  /\ \A g \in Group : GroupInv(g)

LEMMA OpFacts ==
  ASSUME NEW o \in OpRow
  PROVE  /\ o.kind \in {"idle", "boot", "create", "remove", "replace", "add", "drop", "delete"}
         /\ o.kind = "idle" => o = Idle
         /\ o = Idle => o.kind = "idle"
         /\ o.kind = "boot" => o \in BootRow
         /\ o.kind = "create" => o \in CreateRow /\ o.user \in User /\ o.tenant \in Tenant
                               /\ o.admin \in BOOLEAN
         /\ o.kind = "remove" => o \in RemoveRow /\ o.tenant \in Tenant
         /\ o.kind \in ChangeKind => o \in ChangeRow /\ o.group \in Group
<1>1. CASE o = Idle
  BY <1>1 DEF Idle, ChangeKind
<1>2. CASE o \in BootRow
  BY <1>2 DEF BootRow, Idle, ChangeKind
<1>3. CASE o \in CreateRow
  BY <1>3 DEF CreateRow, Idle, ChangeKind
<1>4. CASE o \in RemoveRow
  BY <1>4 DEF RemoveRow, Idle, ChangeKind
<1>5. CASE o \in ChangeRow
  BY <1>5 DEF ChangeRow, Idle, ChangeKind
<1>6. QED
  BY <1>1, <1>2, <1>3, <1>4, <1>5 DEF OpRow

(* The type of the operations is what their rows are.                                         *)
LEMMA KindsAreRows ==
  ASSUME op \in [Op -> OpRow]
  PROVE  \A c \in Op : op[c].kind \in {"idle", "boot", "create", "remove",
                                       "replace", "add", "drop", "delete"}
  BY OpFacts

(* What neither the groups' requests change nor anything they depend on.                      *)
LEMMA GroupsUndisturbed ==
  ASSUME AccessInv, UNCHANGED <<group, settled>>,
         \A c \in Op : \/ op'[c] = op[c]
                       \/ op[c].kind \notin ChangeKind /\ op'[c].kind \notin ChangeKind
  PROVE  \A g \in Group : GroupInv(g)'
<1> SUFFICES ASSUME NEW g \in Group PROVE GroupInv(g)'
  OBVIOUS
<1>1. GroupInv(g)
  BY DEF AccessInv
<1>2. Changes(g)' = Changes(g)
  BY DEF Changes, ChangeKind
<1>3. \A c \in Changes(g) : op'[c] = op[c]
  BY DEF Changes, ChangeKind
<1>4. QED
  BY <1>1, <1>2, <1>3 DEF GroupInv

(* A start of a server takes a step: roles and grants only grow.                              *)
LEMMA BootMoves ==
  ASSUME AccessInv, NEW c \in Op, op[c].kind \in {"idle", "boot"}, NEW r \in BootRow,
         op' = [op EXCEPT ![c] = r],
         UNCHANGED <<accessCase, tenants, persons, group, settled, astray>>,
         granted' \in SUBSET (User \X Tenant), granted \subseteq granted',
         role' \in [Tenant -> {"none", "bare", "wired"}],
         \A t \in Tenant : /\ role[t] # "none" => role'[t] # "none"
                           /\ role'[t] # "none" => t \in tenants,
         BootInv(c)'
  PROVE  AccessInv'
<1> USE DEF AccessInv
<1>1. /\ op' \in [Op -> OpRow] /\ op'[c] = r /\ r.kind = "boot"
      /\ \A d \in Op : d # c => op'[d] = op[d]
  BY DEF OpRow, BootRow
<1>2. AccessTypeOK'
  BY <1>1, OpFacts DEF AccessTypeOK
<1>3. PersonInv'
  BY <1>1 DEF PersonInv
<1>4. ASSUME NEW d \in Op PROVE BootInv(d)'
  <2>1. CASE d # c
    <3>1. op'[d] = op[d] /\ persons' = persons /\ BootInv(d)
      BY <1>1, <2>1
    <3>2. CASE op[d].kind = "boot"
      <4>1. op[d].ready \subseteq Tenant
        BY <3>2, OpFacts DEF BootRow
      <4>2. QED
        BY <3>1, <4>1 DEF BootInv
    <3>3. CASE op[d].kind # "boot"
      BY <3>1, <3>3 DEF BootInv
    <3>4. QED
      BY <3>2, <3>3
  <2>2. QED
    BY <2>1
<1>5. \A g \in Group : GroupInv(g)'
  BY <1>1, GroupsUndisturbed DEF ChangeKind
<1>6. QED
  BY <1>1, <1>2, <1>3, <1>4, <1>5

LEMMA BeginBootKeeps ==
  ASSUME AccessInv, NEW c \in Op, BeginBoot(c)
  PROVE  AccessInv'
<1> DEFINE r == [kind |-> "boot", step |-> "roles", todo |-> tenants,
                 ready |-> {}, queue |-> {}, alone |-> TRUE]
<1>1. tenants \in SUBSET Tenant
  BY DEF AccessInv, AccessTypeOK
<1>2. r \in BootRow /\ r.kind = "boot" /\ r.step = "roles" /\ r.ready = {}
  BY <1>1 DEF BootRow
<1>3. op[c].kind = "idle" /\ op' = [op EXCEPT ![c] = r]
  BY DEF BeginBoot, Start, Idle
<1> HIDE DEF r
<1>4. BootInv(c)'
  <2>1. op'[c] = r
    BY <1>3 DEF AccessInv
  <2>2. QED
    BY <1>2, <2>1 DEF BootInv
<1>5. QED
  BY <1>2, <1>3, <1>4, BootMoves DEF BeginBoot, AccessInv, AccessTypeOK

LEMMA EnsureRoleKeeps ==
  ASSUME AccessInv, NEW c \in Op, NEW t \in Tenant, EnsureRole(c, t)
  PROVE  AccessInv'
<1> DEFINE left == [op[c] EXCEPT !.todo = @ \ {t}]
<1>1. op[c] \in BootRow /\ op[c].kind = "boot" /\ op[c].step = "roles" /\ BootInv(c)
  BY OpFacts DEF AccessInv, EnsureRole
<1>2. /\ left \in BootRow /\ left.kind = "boot" /\ left.step = "roles"
      /\ left.ready = op[c].ready /\ left.ready \subseteq Tenant
  BY <1>1 DEF BootRow
<1>3. /\ AccessTypeOK /\ op \in [Op -> OpRow]
      /\ role \in [Tenant -> {"none", "bare", "wired"}]
      /\ \A s \in Tenant : role[s] # "none" => s \in tenants
  BY DEF AccessInv, AccessTypeOK
<1>4. UNCHANGED <<accessCase, tenants, persons, granted, group, settled, astray>>
  BY DEF EnsureRole
<1>5. CASE role[t] # "none" /\ op' = [op EXCEPT ![c] = [left EXCEPT !.ready = @ \cup {t}]]
           /\ UNCHANGED role
  <2> DEFINE r == [left EXCEPT !.ready = @ \cup {t}]
  <2>1. r \in BootRow /\ r.kind = "boot" /\ r.step = "roles" /\ r.ready = op[c].ready \cup {t}
    BY <1>2 DEF BootRow
  <2>2. op' = [op EXCEPT ![c] = r]
    BY <1>5
  <2> HIDE DEF r
  <2>3. op'[c] = r
    BY <1>3, <2>2
  <2>4. BootInv(c)'
    BY <1>1, <1>5, <2>1, <2>3 DEF BootInv
  <2>5. QED
    BY <1>1, <1>3, <1>4, <1>5, <2>1, <2>2, <2>4, BootMoves DEF AccessTypeOK
<1>6. CASE /\ role[t] = "none" /\ t \in tenants
           /\ role' = [role EXCEPT ![t] = "bare"]
           /\ op' = [op EXCEPT ![c] = [left EXCEPT !.step = "wire", !.queue = {t}]]
  <2> DEFINE r == [left EXCEPT !.step = "wire", !.queue = {t}]
  <2>1. /\ r \in BootRow /\ r.kind = "boot" /\ r.step = "wire" /\ r.ready = op[c].ready
        /\ r.queue = {t}
    BY <1>2 DEF BootRow
  <2>2. op' = [op EXCEPT ![c] = r]
    BY <1>6
  <2> HIDE DEF r
  <2>3. op'[c] = r
    BY <1>3, <2>2
  <2>4. /\ role' \in [Tenant -> {"none", "bare", "wired"}]
        /\ \A s \in Tenant : /\ role[s] # "none" => role'[s] # "none"
                             /\ role'[s] # "none" => s \in tenants
        /\ role'[t] = "bare"
    BY <1>3, <1>6
  <2>5. BootInv(c)'
    <3>1. \A s \in op[c].ready : role'[s] # "none"
      BY <1>1, <1>2, <2>4 DEF BootInv
    <3>2. QED
      BY <3>1, <2>1, <2>3, <2>4 DEF BootInv
  <2>6. QED
    BY <1>1, <1>3, <1>4, <2>1, <2>2, <2>4, <2>5, BootMoves DEF AccessTypeOK
<1>7. CASE op' = [op EXCEPT ![c] = left] /\ UNCHANGED role
  <2>1. op'[c] = left
    BY <1>3, <1>7
  <2>2. BootInv(c)'
    BY <1>1, <1>2, <1>7, <2>1 DEF BootInv
  <2> HIDE DEF left
  <2>3. QED
    BY <1>1, <1>2, <1>3, <1>4, <1>7, <2>2, BootMoves DEF AccessTypeOK
<1>8. QED
  BY <1>5, <1>6, <1>7 DEF EnsureRole

LEMMA WireRoleKeeps ==
  ASSUME AccessInv, NEW c \in Op, WireRole(c)
  PROVE  AccessInv'
<1>1. op[c] \in BootRow /\ op[c].kind = "boot" /\ op[c].step = "wire" /\ BootInv(c)
  BY OpFacts DEF AccessInv, WireRole
<1>2. /\ AccessTypeOK /\ op \in [Op -> OpRow]
      /\ role \in [Tenant -> {"none", "bare", "wired"}]
      /\ \A s \in Tenant : role[s] # "none" => s \in tenants
  BY DEF AccessInv, AccessTypeOK
<1>3. ASSUME NEW t \in op[c].queue,
             role' = [role EXCEPT ![t] = IF @ = "none" THEN @ ELSE "wired"],
             op' = [op EXCEPT ![c].step = "roles", ![c].queue = {}, ![c].ready = @ \cup {t}]
      PROVE  AccessInv'
  <2>1. t \in Tenant /\ role[t] # "none"
    BY <1>1, <1>3 DEF BootInv
  <2>2. /\ role' \in [Tenant -> {"none", "bare", "wired"}]
        /\ \A s \in Tenant : /\ role[s] # "none" => role'[s] # "none"
                             /\ role'[s] # "none" => s \in tenants
    BY <1>2, <1>3, <2>1
  <2> DEFINE r == [op[c] EXCEPT !.step = "roles", !.queue = {}, !.ready = @ \cup {t}]
  <2>3. /\ r \in BootRow /\ r.kind = "boot" /\ r.step = "roles" /\ r.ready = op[c].ready \cup {t}
        /\ op[c].ready \subseteq Tenant
    BY <1>1, <2>1 DEF BootRow
  <2>4. op' = [op EXCEPT ![c] = r]
    BY <1>2, <1>3
  <2> HIDE DEF r
  <2>5. op'[c] = r
    BY <1>2, <2>4
  <2>6. BootInv(c)'
    <3>1. \A s \in r.ready : role'[s] # "none"
      BY <1>1, <2>1, <2>2, <2>3 DEF BootInv
    <3>2. QED
      BY <2>3, <2>5, <3>1 DEF BootInv
  <2>7. QED
    BY <1>1, <1>2, <2>2, <2>3, <2>4, <2>6, BootMoves DEF WireRole, AccessTypeOK
<1>4. CASE op' = [op EXCEPT ![c].step = "roles", ![c].queue = {}] /\ UNCHANGED role
  <2> DEFINE r == [op[c] EXCEPT !.step = "roles", !.queue = {}]
  <2>1. r \in BootRow /\ r.kind = "boot" /\ r.step = "roles" /\ r.ready = op[c].ready
    BY <1>1 DEF BootRow
  <2>2. op' = [op EXCEPT ![c] = r]
    BY <1>2, <1>4
  <2> HIDE DEF r
  <2>3. op'[c] = r
    BY <1>2, <2>2
  <2>4. BootInv(c)'
    BY <1>1, <1>4, <2>1, <2>3 DEF BootInv
  <2>5. QED
    BY <1>1, <1>2, <1>4, <2>1, <2>2, <2>4, BootMoves DEF WireRole, AccessTypeOK
<1>5. QED
  BY <1>3, <1>4 DEF WireRole

LEMMA ReadAdminsKeeps ==
  ASSUME AccessInv, NEW c \in Op, ReadAdmins(c)
  PROVE  AccessInv'
<1> DEFINE q == {<<u, persons[u].tenant>> : u \in {v \in User : persons[v].admin}}
           r == [op[c] EXCEPT !.step = "grants", !.queue = q]
<1>1. op[c] \in BootRow /\ op[c].kind = "boot" /\ BootInv(c)
  BY OpFacts DEF AccessInv, ReadAdmins
<1>2. /\ AccessTypeOK /\ op \in [Op -> OpRow]
      /\ persons \in [User -> [tenant : Tenant \cup {NoTenant}, admin : BOOLEAN]]
  BY DEF AccessInv, AccessTypeOK
<1>3. q \in SUBSET (User \X (Tenant \cup {NoTenant}))
  BY <1>2
<1>4. \A u \in User : persons[u].admin => <<u, persons[u].tenant>> \in q
  OBVIOUS
<1>5. op' = [op EXCEPT ![c].step = "grants", ![c].queue = q]
  BY DEF ReadAdmins
<1> HIDE DEF q
<1>6. op' = [op EXCEPT ![c] = r]
  BY <1>2, <1>5
<1>7. /\ r \in BootRow /\ r.kind = "boot" /\ r.step = "grants" /\ r.ready = op[c].ready
      /\ r.queue = q
  BY <1>1, <1>3 DEF BootRow
<1> HIDE DEF r
<1>8. op'[c] = r /\ UNCHANGED <<persons, role, granted>>
  BY <1>2, <1>6 DEF ReadAdmins
<1>9. BootInv(c)'
  BY <1>1, <1>4, <1>7, <1>8 DEF BootInv
<1>10. QED
  BY <1>1, <1>2, <1>6, <1>7, <1>9, BootMoves DEF ReadAdmins, AccessTypeOK

LEMMA AssignRoleKeeps ==
  ASSUME AccessInv, NEW c \in Op, NEW u \in User, NEW t \in Tenant, AssignRole(c, u, t)
  PROVE  AccessInv'
<1> DEFINE left == [op[c] EXCEPT !.queue = @ \ {<<u, t>>}]
           due == t \in op[c].ready /\ role[t] # "none"
<1>1. op[c] \in BootRow /\ op[c].kind = "boot" /\ op[c].step = "grants" /\ BootInv(c)
  BY OpFacts DEF AccessInv, AssignRole
<1>2. AccessTypeOK /\ op \in [Op -> OpRow] /\ granted \in SUBSET (User \X Tenant)
  BY DEF AccessInv, AccessTypeOK
<1>3. /\ left \in BootRow /\ left.kind = "boot" /\ left.step = "grants"
      /\ left.ready = op[c].ready /\ left.queue = op[c].queue \ {<<u, t>>}
      /\ left.alone = op[c].alone
  BY <1>1 DEF BootRow
<1>4. UNCHANGED <<accessCase, tenants, role, persons, group, settled, astray>>
  BY DEF AssignRole
<1>5. /\ granted \subseteq granted' /\ granted' \in SUBSET (User \X Tenant)
      /\ \/ op' = [op EXCEPT ![c] = left] /\ (due => <<u, t>> \in granted')
         \/ op' = [op EXCEPT ![c] = [left EXCEPT !.alone = FALSE]]
  BY <1>2 DEF AssignRole
<1>6. CASE op' = [op EXCEPT ![c] = left] /\ (due => <<u, t>> \in granted')
  <2>1. op'[c] = left
    BY <1>2, <1>6
  <2>2. BootInv(c)'
    <3>1. \A s \in op[c].ready : role[s] # "none"
      BY <1>1 DEF BootInv
    <3>2. ASSUME op[c].alone, NEW v \in User, persons[v].admin, persons[v].tenant \in op[c].ready,
                 <<v, persons[v].tenant>> \notin granted'
          PROVE  <<v, persons[v].tenant>> \in op[c].queue \ {<<u, t>>}
      <4>1. <<v, persons[v].tenant>> \in op[c].queue
        BY <1>1, <1>5, <3>2 DEF BootInv
      <4>2. <<v, persons[v].tenant>> # <<u, t>>
        BY <1>6, <3>1, <3>2
      <4>3. QED
        BY <4>1, <4>2
    <3> HIDE DEF left
    <3>3. QED
      BY <1>3, <1>4, <2>1, <3>1, <3>2 DEF BootInv
  <2> HIDE DEF left
  <2>3. QED
    BY <1>1, <1>2, <1>3, <1>4, <1>5, <1>6, <2>2, BootMoves DEF AccessTypeOK
<1>7. CASE op' = [op EXCEPT ![c] = [left EXCEPT !.alone = FALSE]]
  <2> DEFINE r == [left EXCEPT !.alone = FALSE]
  <2>1. /\ r \in BootRow /\ r.kind = "boot" /\ r.step = "grants" /\ ~r.alone
        /\ r.ready = op[c].ready
    BY <1>3 DEF BootRow
  <2>2. op' = [op EXCEPT ![c] = r]
    BY <1>7
  <2> HIDE DEF r, left
  <2>3. op'[c] = r
    BY <1>2, <2>2
  <2>4. BootInv(c)'
    BY <1>1, <1>4, <2>1, <2>3 DEF BootInv
  <2>5. QED
    BY <1>1, <1>2, <1>4, <1>5, <2>1, <2>2, <2>4, BootMoves DEF AccessTypeOK
<1>8. QED
  BY <1>5, <1>6, <1>7

LEMMA EndBootKeeps ==
  ASSUME AccessInv, NEW c \in Op, EndBoot(c)
  PROVE  AccessInv'
<1> DEFINE r == [op[c] EXCEPT !.step = "up"]
<1>1. op[c] \in BootRow /\ op[c].kind = "boot" /\ op[c].step = "grants" /\ op[c].queue = {} /\ BootInv(c)
  BY OpFacts DEF AccessInv, EndBoot
<1>2. AccessTypeOK /\ op \in [Op -> OpRow]
  BY DEF AccessInv
<1>3. op' = [op EXCEPT ![c] = r]
  BY <1>2 DEF EndBoot
<1>4. /\ r \in BootRow /\ r.kind = "boot" /\ r.step = "up" /\ r.ready = op[c].ready
      /\ r.alone = op[c].alone
  BY <1>1 DEF BootRow
<1> HIDE DEF r
<1>5. op'[c] = r /\ UNCHANGED <<persons, role, granted>>
  BY <1>2, <1>3 DEF EndBoot
<1>6. BootInv(c)'
  BY <1>1, <1>4, <1>5 DEF BootInv
<1>7. QED
  BY <1>1, <1>2, <1>3, <1>4, <1>6, BootMoves DEF EndBoot, AccessTypeOK

(* A request that changes group g takes a step: only what is said of g is to be shown.        *)
LEMMA ChangeMoves ==
  ASSUME AccessInv, NEW c \in Op, NEW g \in Group, NEW r \in OpRow,
         op[c].kind = "idle" \/ (op[c].kind \in ChangeKind /\ op[c].group = g),
         r = Idle \/ (r \in ChangeRow /\ r.group = g),
         op' = [op EXCEPT ![c] = r],
         UNCHANGED <<accessCase, tenants, role, persons, granted, astray>>,
         group' \in [Group -> [live : BOOLEAN, members : SUBSET User]],
         settled' \in [Group -> (SUBSET User) \cup {Unknown}],
         \A h \in Group : h # g => group'[h] = group[h] /\ settled'[h] = settled[h],
         GroupInv(g)'
  PROVE  AccessInv'
<1> USE DEF AccessInv
<1>1. /\ op' \in [Op -> OpRow] /\ op'[c] = r
      /\ \A d \in Op : d # c => op'[d] = op[d]
  OBVIOUS
<1>2. r.kind = "idle" \/ r.kind \in ChangeKind
  BY OpFacts DEF Idle, ChangeRow
<1>3. AccessTypeOK'
  BY <1>1, OpFacts DEF AccessTypeOK
<1>4. \A d \in Op : /\ op'[d].kind = "remove" => op'[d] = op[d]
                    /\ op'[d].kind = "boot" => op'[d] = op[d]
  BY <1>1, <1>2 DEF ChangeKind
<1>5. PersonInv'
  BY <1>4 DEF PersonInv
<1>6. ASSUME NEW d \in Op PROVE BootInv(d)'
  BY <1>4 DEF BootInv
<1>7. ASSUME NEW h \in Group PROVE GroupInv(h)'
  <2>1. CASE h # g
    <3>1. Changes(h)' = Changes(h)
      <4>1. c \notin Changes(h)
        BY <2>1 DEF Changes, ChangeKind
      <4>2. c \notin Changes(h)'
        BY <1>1, <2>1 DEF Changes, ChangeKind, Idle
      <4>3. QED
        BY <1>1, <4>1, <4>2 DEF Changes
    <3>2. \A d \in Changes(h) : op'[d] = op[d]
      BY <1>1, <2>1 DEF Changes, ChangeKind
    <3>3. GroupInv(h) /\ group'[h] = group[h] /\ settled'[h] = settled[h]
      BY <2>1
    <3>4. QED
      BY <3>1, <3>2, <3>3 DEF GroupInv
  <2>2. QED
    BY <2>1
<1>8. QED
  BY <1>1, <1>3, <1>5, <1>6, <1>7

(* Which requests change g after such a step.                                                 *)
LEMMA ChangesOf ==
  ASSUME op \in [Op -> OpRow], NEW c \in Op, NEW g \in Group, NEW r \in OpRow,
         op' = [op EXCEPT ![c] = r]
  PROVE  /\ r = Idle => Changes(g)' = Changes(g) \ {c}
         /\ r \in ChangeRow /\ r.group = g => Changes(g)' = Changes(g) \cup {c}
         /\ c \in Changes(g) <=> op[c].kind \in ChangeKind /\ op[c].group = g
         /\ \A d \in Changes(g) : d \in Op
<1>1. r = Idle => r.kind = "idle"
  BY DEF Idle
<1>2. r \in ChangeRow => r.kind \in ChangeKind
  BY DEF ChangeRow
<1>3. op'[c] = r /\ \A d \in Op : d # c => op'[d] = op[d]
  OBVIOUS
<1>4. QED
  BY <1>1, <1>2, <1>3 DEF Changes, ChangeKind

(* A group whose contents nobody can tell needs only be empty when its row is gone.           *)
LEMMA UnknownGroup ==
  ASSUME NEW g \in Group, settled'[g] = Unknown, ~group'[g].live => group'[g].members = {}
  PROVE  GroupInv(g)'
  BY DEF GroupInv

LEMMA BeginGroupChangeKeeps ==
  ASSUME AccessInv, NEW c \in Op, NEW g \in Group, NEW kind \in ChangeKind, NEW who \in SUBSET User,
         kind = "delete" => who = {}, BeginGroupChange(c, g, kind, who)
  PROVE  AccessInv'
<1> DEFINE r == [kind |-> kind, group |-> g, todo |-> who, want |-> who,
                 cleared |-> kind \in {"add", "drop"}]
<1>1. /\ r \in ChangeRow /\ r.kind = kind /\ r.group = g /\ r.todo = who /\ r.want = who
      /\ r.cleared = (kind \in {"add", "drop"})
  BY DEF ChangeRow
<1>2. op[c] = Idle /\ op' = [op EXCEPT ![c] = r]
  BY DEF BeginGroupChange, Start
<1> HIDE DEF r
<1>3. /\ AccessTypeOK /\ op \in [Op -> OpRow] /\ GroupInv(g)
      /\ group \in [Group -> [live : BOOLEAN, members : SUBSET User]]
      /\ settled \in [Group -> (SUBSET User) \cup {Unknown}]
  BY DEF AccessInv, AccessTypeOK
<1>4. r \in OpRow /\ op[c].kind = "idle" /\ op'[c] = r
  BY <1>1, <1>2, <1>3 DEF OpRow, Idle
<1>5. Changes(g)' = Changes(g) \cup {c} /\ c \notin Changes(g)
  BY <1>1, <1>2, <1>3, <1>4, ChangesOf DEF ChangeKind
<1>6. /\ UNCHANGED <<accessCase, tenants, role, persons, granted, group, astray>>
      /\ settled' = [settled EXCEPT ![g] = IF Changes(g) = {} THEN @ ELSE Unknown]
  BY DEF BeginGroupChange
<1>7. /\ settled' \in [Group -> (SUBSET User) \cup {Unknown}]
      /\ \A h \in Group : h # g => settled'[h] = settled[h]
      /\ settled'[g] = IF Changes(g) = {} THEN settled[g] ELSE Unknown
  <2> DEFINE v == IF Changes(g) = {} THEN settled[g] ELSE Unknown
  <2>1. v \in (SUBSET User) \cup {Unknown}
    BY <1>3
  <2>2. settled' = [settled EXCEPT ![g] = v]
    BY <1>3, <1>6
  <2>3. QED
    <3> HIDE DEF v
    <3>1. settled'[g] = v /\ settled' \in [Group -> (SUBSET User) \cup {Unknown}]
      BY <1>3, <2>1, <2>2
    <3>2. \A h \in Group : h # g => settled'[h] = settled[h]
      BY <1>3, <2>2
    <3>3. QED
      BY <3>1, <3>2 DEF v
<1>8. GroupInv(g)'
  <2>1. CASE Changes(g) = {} /\ settled[g] # Unknown
    <3>1. group[g].members = settled[g]
      BY <1>3, <2>1 DEF GroupInv
    <3>2. Halfway(r, group[g].members, settled[g])
      BY <1>1, <3>1 DEF Halfway, ChangeKind
    <3>3. Changes(g)' = {c}
      BY <1>5, <2>1
    <3>4. QED
      BY <1>3, <1>4, <1>6, <1>7, <2>1, <3>2, <3>3 DEF GroupInv
  <2>2. CASE Changes(g) # {} \/ settled[g] = Unknown
    BY <1>3, <1>6, <1>7, <2>2 DEF GroupInv
  <2>3. QED
    BY <2>1, <2>2
<1>9. QED
  <2>1. \A h \in Group : h # g => group'[h] = group[h] /\ settled'[h] = settled[h]
    BY <1>6, <1>7
  <2>2. /\ group' \in [Group -> [live : BOOLEAN, members : SUBSET User]]
        /\ settled' \in [Group -> (SUBSET User) \cup {Unknown}]
    BY <1>3, <1>6, <1>7
  <2>3. /\ op' = [op EXCEPT ![c] = r] /\ op[c].kind = "idle"
        /\ UNCHANGED <<accessCase, tenants, role, persons, granted, astray>>
    BY <1>2, <1>4, <1>6
  <2>4. r \in OpRow /\ (r = Idle \/ (r \in ChangeRow /\ r.group = g))
    BY <1>1, <1>4
  <2> HIDE DEF ChangeKind
  <2>5. QED
    BY <2>1, <2>2, <2>3, <2>4, <1>8, ChangeMoves

LEMMA CreateGroupKeeps ==
  ASSUME AccessInv, NEW c \in Op, NEW g \in Group, NEW who \in SUBSET User, CreateGroup(c, g, who)
  PROVE  AccessInv'
<1> DEFINE r == [kind |-> "add", group |-> g, todo |-> who, want |-> who, cleared |-> TRUE]
<1>1. /\ r \in ChangeRow /\ r.kind = "add" /\ r.group = g /\ r.todo = who /\ r.want = who
      /\ r.cleared
  BY DEF ChangeRow, ChangeKind
<1>2. op[c] = Idle /\ op' = [op EXCEPT ![c] = r]
  BY DEF CreateGroup, Start
<1> HIDE DEF r
<1>3. /\ AccessTypeOK /\ op \in [Op -> OpRow] /\ GroupInv(g)
      /\ group \in [Group -> [live : BOOLEAN, members : SUBSET User]]
      /\ settled \in [Group -> (SUBSET User) \cup {Unknown}]
  BY DEF AccessInv, AccessTypeOK
<1>4. r \in OpRow /\ op[c].kind = "idle" /\ op'[c] = r
  BY <1>1, <1>2, <1>3 DEF OpRow, Idle
<1>5. Changes(g)' = Changes(g) \cup {c} /\ c \notin Changes(g)
  BY <1>1, <1>2, <1>3, <1>4, ChangesOf DEF ChangeKind
<1>6. /\ UNCHANGED <<accessCase, tenants, role, persons, granted, astray>>
      /\ group' = [group EXCEPT ![g].live = TRUE] /\ ~group[g].live
      /\ settled' = [settled EXCEPT ![g] = IF Changes(g) = {} THEN {} ELSE Unknown]
  BY DEF CreateGroup
<1>7. /\ settled' \in [Group -> (SUBSET User) \cup {Unknown}]
      /\ \A h \in Group : h # g => settled'[h] = settled[h]
      /\ settled'[g] = IF Changes(g) = {} THEN {} ELSE Unknown
  <2> DEFINE v == IF Changes(g) = {} THEN {} ELSE Unknown
  <2>1. v \in (SUBSET User) \cup {Unknown}
    OBVIOUS
  <2>2. settled' = [settled EXCEPT ![g] = v]
    BY <1>3, <1>6
  <2>3. QED
    <3> HIDE DEF v
    <3>1. settled'[g] = v /\ settled' \in [Group -> (SUBSET User) \cup {Unknown}]
      BY <1>3, <2>1, <2>2
    <3>2. \A h \in Group : h # g => settled'[h] = settled[h]
      BY <1>3, <2>2
    <3>3. QED
      BY <3>1, <3>2 DEF v
<1>8. /\ group' \in [Group -> [live : BOOLEAN, members : SUBSET User]]
      /\ \A h \in Group : h # g => group'[h] = group[h]
      /\ group'[g].live /\ group'[g].members = group[g].members
  BY <1>3, <1>6
<1>9. GroupInv(g)'
  <2>1. CASE Changes(g) = {}
    <3>1. group'[g].members = {}
      BY <1>3, <1>6, <1>8 DEF GroupInv
    <3>2. Halfway(r, group'[g].members, settled'[g])
      BY <1>1, <1>7, <2>1, <3>1 DEF Halfway
    <3>3. Changes(g)' = {c}
      BY <1>5, <2>1
    <3>4. QED
      BY <1>4, <1>8, <3>2, <3>3 DEF GroupInv
  <2>2. CASE Changes(g) # {}
    BY <1>7, <1>8, <2>2 DEF GroupInv
  <2>3. QED
    BY <2>1, <2>2
<1>10. QED
  <2>1. \A h \in Group : h # g => group'[h] = group[h] /\ settled'[h] = settled[h]
    BY <1>6, <1>7, <1>8
  <2>2. /\ group' \in [Group -> [live : BOOLEAN, members : SUBSET User]]
        /\ settled' \in [Group -> (SUBSET User) \cup {Unknown}]
    BY <1>3, <1>6, <1>7, <1>8
  <2>3. /\ op' = [op EXCEPT ![c] = r] /\ op[c].kind = "idle"
        /\ UNCHANGED <<accessCase, tenants, role, persons, granted, astray>>
    BY <1>2, <1>4, <1>6
  <2>4. r \in OpRow /\ (r = Idle \/ (r \in ChangeRow /\ r.group = g))
    BY <1>1, <1>4
  <2> HIDE DEF ChangeKind
  <2>5. QED
    BY <2>1, <2>2, <2>3, <2>4, <1>9, ChangeMoves

LEMMA ClearKeeps ==
  ASSUME AccessInv, NEW c \in Op, Clear(c)
  PROVE  AccessInv'
<1> DEFINE r == [op[c] EXCEPT !.cleared = TRUE]
<1>0. PICK g \in Group : op[c].group = g
  BY OpFacts DEF AccessInv, Clear, ChangeKind
<1>1. /\ AccessTypeOK /\ op \in [Op -> OpRow] /\ op[c] \in ChangeRow
      /\ op[c].kind \in {"replace", "delete"} /\ ~op[c].cleared
  BY OpFacts DEF AccessInv, Clear, ChangeKind
<1>2. /\ GroupInv(g)
      /\ group \in [Group -> [live : BOOLEAN, members : SUBSET User]]
      /\ settled \in [Group -> (SUBSET User) \cup {Unknown}]
  BY <1>1 DEF AccessInv, AccessTypeOK
<1>3. /\ r \in ChangeRow /\ r.kind = op[c].kind /\ r.group = g /\ r.todo = op[c].todo
      /\ r.want = op[c].want /\ r.cleared
  BY <1>0, <1>1 DEF ChangeRow
<1>4. /\ op' = [op EXCEPT ![c] = r]
      /\ group' = [group EXCEPT ![g].members = {}]
      /\ UNCHANGED <<accessCase, tenants, role, persons, granted, settled, astray>>
  BY <1>0, <1>1 DEF Clear
<1> HIDE DEF r
<1>5. r \in OpRow /\ op'[c] = r /\ op[c].kind \in ChangeKind
  BY <1>1, <1>3, <1>4 DEF OpRow, ChangeKind
<1>6. Changes(g)' = Changes(g) \cup {c} /\ c \in Changes(g)
  BY <1>0, <1>1, <1>3, <1>4, <1>5, ChangesOf
<1>7. /\ group' \in [Group -> [live : BOOLEAN, members : SUBSET User]]
      /\ \A h \in Group : h # g => group'[h] = group[h]
      /\ group'[g].members = {}
  BY <1>1, <1>2, <1>4
<1>8. GroupInv(g)'
  <2>1. CASE settled[g] # Unknown
    <3>1. Halfway(op[c], group[g].members, settled[g]) /\ \A d \in Changes(g) : c = d
      BY <1>2, <1>6, <2>1 DEF GroupInv
    <3>2. Changes(g)' = {c}
      BY <1>6, <3>1
    <3>3. Halfway(r, {}, settled[g])
      BY <1>1, <1>3, <3>1 DEF Halfway
    <3>4. QED
      BY <1>4, <1>5, <1>7, <3>2, <3>3 DEF GroupInv
  <2>2. CASE settled[g] = Unknown
    BY <1>4, <1>7, <2>2 DEF GroupInv
  <2>3. QED
    BY <2>1, <2>2
<1>9. QED
  BY <1>0, <1>1, <1>2, <1>3, <1>4, <1>5, <1>7, <1>8, ChangeMoves

LEMMA PutMemberKeeps ==
  ASSUME AccessInv, NEW c \in Op, NEW u \in User, PutMember(c, u)
  PROVE  AccessInv'
<1>0. PICK g \in Group : op[c].group = g
  BY OpFacts DEF AccessInv, PutMember, ChangeKind
<1>1. /\ AccessTypeOK /\ op \in [Op -> OpRow] /\ op[c] \in ChangeRow
      /\ op[c].kind \in {"replace", "add"} /\ op[c].cleared /\ u \in op[c].todo
  BY OpFacts DEF AccessInv, PutMember, ChangeKind
<1>2. /\ GroupInv(g)
      /\ group \in [Group -> [live : BOOLEAN, members : SUBSET User]]
      /\ settled \in [Group -> (SUBSET User) \cup {Unknown}]
  BY <1>1 DEF AccessInv, AccessTypeOK
<1>3. UNCHANGED <<accessCase, tenants, role, persons, granted, astray>>
  BY DEF PutMember
<1>4. op[c].kind \in ChangeKind
  BY <1>1 DEF ChangeKind
<1>5. CASE /\ group[g].live
           /\ group' = [group EXCEPT ![g].members = @ \cup {u}]
           /\ op' = [op EXCEPT ![c].todo = @ \ {u}]
           /\ UNCHANGED settled
  <2> DEFINE r == [op[c] EXCEPT !.todo = @ \ {u}]
  <2>1. /\ r \in ChangeRow /\ r.kind = op[c].kind /\ r.group = g /\ r.todo = op[c].todo \ {u}
        /\ r.want = op[c].want /\ r.cleared
    BY <1>0, <1>1 DEF ChangeRow
  <2>2. op' = [op EXCEPT ![c] = r]
    BY <1>1, <1>5
  <2> HIDE DEF r
  <2>3. r \in OpRow /\ op'[c] = r
    BY <1>1, <2>1, <2>2 DEF OpRow
  <2>4. Changes(g)' = Changes(g) \cup {c} /\ c \in Changes(g)
    BY <1>0, <1>1, <1>4, <2>1, <2>2, <2>3, ChangesOf
  <2>5. /\ group' \in [Group -> [live : BOOLEAN, members : SUBSET User]]
        /\ \A h \in Group : h # g => group'[h] = group[h]
        /\ group'[g].members = group[g].members \cup {u} /\ group'[g].live
    BY <1>2, <1>5
  <2>6. GroupInv(g)'
    <3>1. CASE settled[g] # Unknown
      <4>1. Halfway(op[c], group[g].members, settled[g]) /\ \A d \in Changes(g) : c = d
        BY <1>2, <2>4, <3>1 DEF GroupInv
      <4>2. Changes(g)' = {c}
        BY <2>4, <4>1
      <4>3. /\ op[c].todo \in SUBSET User /\ op[c].want \in SUBSET User
            /\ op[c].todo \subseteq op[c].want
        BY <1>1, <4>1 DEF ChangeRow, Halfway
      <4>4. op[c].want \ r.todo = (op[c].want \ op[c].todo) \cup {u}
        BY <1>1, <2>1, <4>3
      <4>5. Halfway(r, group'[g].members, settled[g])
        BY <1>1, <2>1, <2>5, <4>1, <4>3, <4>4 DEF Halfway
      <4>6. QED
        BY <1>5, <2>3, <2>5, <4>2, <4>5 DEF GroupInv
    <3>2. CASE settled[g] = Unknown
      BY <1>5, <2>5, <3>2 DEF GroupInv
    <3>3. QED
      BY <3>1, <3>2
  <2>7. r \in OpRow /\ (r = Idle \/ (r \in ChangeRow /\ r.group = g))
    BY <2>1, <2>3
  <2>8. /\ settled' \in [Group -> (SUBSET User) \cup {Unknown}]
        /\ \A h \in Group : h # g => group'[h] = group[h] /\ settled'[h] = settled[h]
    BY <1>2, <1>5, <2>5
  <2>9. QED
    BY <1>0, <1>3, <1>4, <2>2, <2>5, <2>6, <2>7, <2>8, ChangeMoves
<1>6. CASE Finish(c) /\ settled' = [settled EXCEPT ![g] = Unknown] /\ UNCHANGED group
  <2>1. op' = [op EXCEPT ![c] = Idle] /\ Idle \in OpRow
    BY <1>6 DEF Finish, OpRow
  <2>2. /\ settled' \in [Group -> (SUBSET User) \cup {Unknown}] /\ settled'[g] = Unknown
        /\ \A h \in Group : h # g => settled'[h] = settled[h]
    BY <1>2, <1>6
  <2>3. GroupInv(g)'
    BY <1>2, <1>6, <2>2 DEF GroupInv
  <2>4. QED
    BY <1>0, <1>2, <1>3, <1>4, <1>6, <2>1, <2>2, <2>3, ChangeMoves
<1>7. QED
  BY <1>0, <1>5, <1>6 DEF PutMember

LEMMA TakeMemberKeeps ==
  ASSUME AccessInv, NEW c \in Op, NEW u \in User, TakeMember(c, u)
  PROVE  AccessInv'
<1>0. PICK g \in Group : op[c].group = g
  BY OpFacts DEF AccessInv, TakeMember, ChangeKind
<1>1. /\ AccessTypeOK /\ op \in [Op -> OpRow] /\ op[c] \in ChangeRow
      /\ op[c].kind = "drop" /\ u \in op[c].todo
  BY OpFacts DEF AccessInv, TakeMember, ChangeKind
<1>2. /\ GroupInv(g)
      /\ group \in [Group -> [live : BOOLEAN, members : SUBSET User]]
      /\ settled \in [Group -> (SUBSET User) \cup {Unknown}]
  BY <1>1 DEF AccessInv, AccessTypeOK
<1>3. UNCHANGED <<accessCase, tenants, role, persons, granted, settled, astray>>
  BY DEF TakeMember
<1>4. op[c].kind \in ChangeKind
  BY <1>1 DEF ChangeKind
<1> DEFINE r == [op[c] EXCEPT !.todo = @ \ {u}]
<1>5. /\ r \in ChangeRow /\ r.kind = "drop" /\ r.group = g /\ r.todo = op[c].todo \ {u}
      /\ r.want = op[c].want /\ r.cleared = op[c].cleared
  BY <1>0, <1>1 DEF ChangeRow
<1>6. op' = [op EXCEPT ![c] = r] /\ group' = [group EXCEPT ![g].members = @ \ {u}]
  BY <1>0, <1>1 DEF TakeMember
<1> HIDE DEF r
<1>7. r \in OpRow /\ op'[c] = r
  BY <1>1, <1>5, <1>6 DEF OpRow
<1>8. Changes(g)' = Changes(g) \cup {c} /\ c \in Changes(g)
  BY <1>0, <1>1, <1>4, <1>5, <1>6, <1>7, ChangesOf
<1>9. /\ group' \in [Group -> [live : BOOLEAN, members : SUBSET User]]
      /\ \A h \in Group : h # g => group'[h] = group[h]
      /\ group'[g].members = group[g].members \ {u} /\ group'[g].live = group[g].live
  BY <1>2, <1>6
<1>10. GroupInv(g)'
  <2>1. CASE settled[g] # Unknown
    <3>1. Halfway(op[c], group[g].members, settled[g]) /\ \A d \in Changes(g) : c = d
      BY <1>2, <1>8, <2>1 DEF GroupInv
    <3>2. Changes(g)' = {c}
      BY <1>8, <3>1
    <3>3. /\ op[c].todo \in SUBSET User /\ op[c].want \in SUBSET User
          /\ op[c].todo \subseteq op[c].want
      BY <1>1, <3>1 DEF ChangeRow, Halfway
    <3>4. op[c].want \ r.todo = (op[c].want \ op[c].todo) \cup {u}
      BY <1>1, <1>5, <3>3
    <3>5. Halfway(r, group'[g].members, settled[g])
      BY <1>1, <1>5, <1>9, <3>1, <3>3, <3>4 DEF Halfway
    <3>6. ~group'[g].live => group'[g].members = {}
      BY <1>2, <1>9 DEF GroupInv
    <3>7. QED
      BY <1>3, <1>7, <3>2, <3>5, <3>6 DEF GroupInv
  <2>2. CASE settled[g] = Unknown
    BY <1>2, <1>3, <1>9, <2>2 DEF GroupInv
  <2>3. QED
    BY <2>1, <2>2
<1>11. QED
  BY <1>0, <1>2, <1>3, <1>4, <1>5, <1>6, <1>7, <1>9, <1>10, ChangeMoves

LEMMA EndGroupChangeKeeps ==
  ASSUME AccessInv, NEW c \in Op, EndGroupChange(c)
  PROVE  AccessInv'
<1>0. PICK g \in Group : op[c].group = g
  BY OpFacts DEF AccessInv, EndGroupChange, ChangeKind
<1>1. /\ AccessTypeOK /\ op \in [Op -> OpRow] /\ op[c] \in ChangeRow
      /\ op[c].kind \in ChangeKind /\ op[c].cleared /\ (op[c].kind # "delete" => op[c].todo = {})
  BY OpFacts DEF AccessInv, EndGroupChange, ChangeKind
<1>2. /\ GroupInv(g)
      /\ group \in [Group -> [live : BOOLEAN, members : SUBSET User]]
      /\ settled \in [Group -> (SUBSET User) \cup {Unknown}]
  BY <1>1 DEF AccessInv, AccessTypeOK
<1>3. UNCHANGED <<accessCase, tenants, role, persons, granted, astray>>
  BY DEF EndGroupChange
<1> DEFINE live == group[g].live /\ ~(op[c].kind = "delete" /\ group[g].members = {})
           next == IF Alone(c, g) THEN Asked(op[c], settled[g]) ELSE Unknown
<1>4. /\ op' = [op EXCEPT ![c] = Idle]
      /\ group' = [group EXCEPT ![g].live = live]
      /\ settled' = [settled EXCEPT ![g] = next]
  BY <1>0, <1>2 DEF EndGroupChange, Finish
<1>5. live \in BOOLEAN /\ (~live => group[g].members = {})
  BY <1>2 DEF GroupInv
<1>6. c \in Changes(g)
  BY <1>0, <1>1 DEF Changes, ChangeKind
<1>7. settled[g] # Unknown =>
        /\ Halfway(op[c], group[g].members, settled[g]) /\ Changes(g) = {c}
        /\ settled[g] \in SUBSET User
  BY <1>2, <1>6 DEF GroupInv
<1>8. next \in (SUBSET User) \cup {Unknown} /\ (next # Unknown => next = group[g].members)
  <2>1. CASE Alone(c, g)
    <3>1. /\ op[c].todo \in SUBSET User /\ op[c].want \in SUBSET User
          /\ group[g].members \in SUBSET User
      BY <1>1, <1>2 DEF ChangeRow
    <3>2. Asked(op[c], settled[g]) = group[g].members
      <4>1. Halfway(op[c], group[g].members, settled[g]) /\ settled[g] \in SUBSET User
        BY <1>7, <2>1 DEF Alone
      <4>2. CASE op[c].kind = "replace"
        BY <1>1, <3>1, <4>1, <4>2 DEF Halfway, Asked
      <4>3. CASE op[c].kind = "add"
        BY <1>1, <3>1, <4>1, <4>3 DEF Halfway, Asked
      <4>4. CASE op[c].kind = "drop"
        BY <1>1, <3>1, <4>1, <4>4 DEF Halfway, Asked
      <4>5. CASE op[c].kind = "delete"
        BY <1>1, <3>1, <4>1, <4>5 DEF Halfway, Asked
      <4>6. QED
        BY <1>1, <4>2, <4>3, <4>4, <4>5 DEF ChangeKind
    <3>3. next = group[g].members
      BY <2>1, <3>2
    <3> HIDE DEF next
    <3>4. QED
      BY <3>1, <3>3
  <2>2. CASE ~Alone(c, g)
    BY <2>2
  <2>3. QED
    BY <2>1, <2>2
<1>10. Changes(g)' = Changes(g) \ {c}
  <2>1. Idle \in OpRow
    BY DEF OpRow
  <2>2. QED
    BY <1>1, <1>4, <2>1, ChangesOf
<1> HIDE DEF live, next
<1>11. /\ group' \in [Group -> [live : BOOLEAN, members : SUBSET User]]
       /\ \A h \in Group : h # g => group'[h] = group[h]
       /\ group'[g].members = group[g].members /\ group'[g].live = live
  BY <1>2, <1>4, <1>5
<1>12. /\ settled' \in [Group -> (SUBSET User) \cup {Unknown}] /\ settled'[g] = next
       /\ \A h \in Group : h # g => settled'[h] = settled[h]
  BY <1>2, <1>4, <1>8
<1>13. GroupInv(g)'
  <2>1. CASE next # Unknown
    <3>1. Alone(c, g)
      BY <2>1 DEF next
    <3>2. Changes(g)' = {}
      BY <1>10, <3>1 DEF Alone
    <3>3. QED
      BY <1>5, <1>8, <1>11, <1>12, <2>1, <3>2 DEF GroupInv
  <2>2. CASE next = Unknown
    BY <1>5, <1>11, <1>12, <2>2 DEF GroupInv
  <2>3. QED
    BY <2>1, <2>2
<1>14. QED
  <2>1. Idle \in OpRow
    BY DEF OpRow
  <2>2. QED
    BY <1>0, <1>1, <1>3, <1>4, <1>11, <1>12, <1>13, <2>1, ChangeMoves

(* Disturbing the starts under way changes what they may be asked for, nothing else.          *)
LEMMA Disturbed ==
  ASSUME op \in [Op -> OpRow]
  PROVE  /\ Disturb(op) \in [Op -> OpRow]
         /\ \A c \in Op : /\ op[c].kind # "boot" => Disturb(op)[c] = op[c]
                          /\ op[c].kind = "boot" =>
                               /\ Disturb(op)[c].kind = "boot" /\ ~Disturb(op)[c].alone
                               /\ Disturb(op)[c].ready = op[c].ready
                               /\ Disturb(op)[c].step = op[c].step
                               /\ Disturb(op)[c].queue = op[c].queue
<1>1. ASSUME NEW c \in Op, op[c].kind = "boot"
      PROVE  /\ [op[c] EXCEPT !.alone = FALSE] \in OpRow
             /\ [op[c] EXCEPT !.alone = FALSE].kind = "boot"
             /\ ~[op[c] EXCEPT !.alone = FALSE].alone
             /\ [op[c] EXCEPT !.alone = FALSE].ready = op[c].ready
             /\ [op[c] EXCEPT !.alone = FALSE].step = op[c].step
             /\ [op[c] EXCEPT !.alone = FALSE].queue = op[c].queue
  <2>1. op[c] \in BootRow
    BY <1>1, OpFacts
  <2>2. QED
    BY <1>1, <2>1 DEF BootRow, OpRow
<1>2. QED
  BY <1>1 DEF Disturb

(* A start that goes on as it was, or was disturbed, keeps its promise as long as its roles   *)
(* and grants and, unless it was disturbed, the administrators stay.                          *)
LEMMA BootKept ==
  ASSUME AccessInv, NEW c \in Op, UNCHANGED <<role, granted>>,
         op'[c].kind = "boot" =>
           /\ op[c].kind = "boot" /\ op'[c].ready = op[c].ready /\ op'[c].step = op[c].step
           /\ op'[c].queue = op[c].queue
           /\ ~op'[c].alone \/ (op'[c].alone = op[c].alone /\ \A u \in User :
                                  \/ persons'[u] = persons[u]
                                  \/ ~persons'[u].admin)
  PROVE  BootInv(c)'
<1>1. BootInv(c)
  BY DEF AccessInv
<1>2. CASE op'[c].kind = "boot"
  <2>1. /\ op[c].kind = "boot" /\ op'[c].ready = op[c].ready /\ op'[c].step = op[c].step
        /\ op'[c].queue = op[c].queue /\ role' = role /\ granted' = granted
    BY <1>2
  <2>2. CASE ~op'[c].alone
    BY <1>1, <2>1, <2>2 DEF BootInv
  <2>3. CASE op'[c].alone
    <3>1. op[c].alone /\ \A u \in User : persons'[u] = persons[u] \/ ~persons'[u].admin
      BY <1>2, <2>3
    <3>2. QED
      BY <1>1, <2>1, <3>1 DEF BootInv
  <2>4. QED
    BY <2>2, <2>3
<1>3. QED
  BY <1>2 DEF BootInv

(* Where a user's row is written leaves it in a tenant that stays, or marks it astray.         *)
LEMMA WrittenRow ==
  ASSUME AccessTypeOK, PersonInv, NEW u \in User, NEW t \in Tenant, NEW flag \in BOOLEAN,
         persons' = [persons EXCEPT ![u] = [tenant |-> t, admin |-> flag]],
         astray' = Astray(u, t), tenants' = tenants,
         \A d \in Op : op'[d].kind = "remove" => op[d].kind = "remove" /\ op'[d] = op[d]
  PROVE  /\ PersonInv' /\ astray' \in SUBSET User
         /\ persons' \in [User -> [tenant : Tenant \cup {NoTenant}, admin : BOOLEAN]]
         /\ \A v \in User : v # u => persons'[v] = persons[v]
         /\ persons'[u].tenant = t /\ persons'[u].admin = flag
<1>1. /\ persons \in [User -> [tenant : Tenant \cup {NoTenant}, admin : BOOLEAN]]
      /\ astray \in SUBSET User /\ NoTenant \notin Tenant
  BY TenantAssumption DEF AccessTypeOK
<1>2. /\ persons' \in [User -> [tenant : Tenant \cup {NoTenant}, admin : BOOLEAN]]
      /\ \A v \in User : v # u => persons'[v] = persons[v]
      /\ persons'[u].tenant = t /\ persons'[u].admin = flag
  <2>1. [tenant |-> t, admin |-> flag] \in [tenant : Tenant \cup {NoTenant}, admin : BOOLEAN]
    OBVIOUS
  <2>2. QED
    BY <1>1, <2>1
<1>3. astray' \in SUBSET User /\ \A v \in User \ astray' : v # u => v \in User \ astray
  BY <1>1 DEF Astray
<1>4. \A v \in User : persons'[v].tenant = NoTenant => ~persons'[v].admin
  BY <1>1, <1>2 DEF PersonInv
<1>5. ASSUME NEW v \in User \ astray'
      PROVE  /\ persons'[v].tenant = NoTenant \/ persons'[v].tenant \in tenants'
             /\ \A d \in Op : op'[d].kind = "remove" => persons'[v].tenant # op'[d].tenant
  <2>1. CASE v # u
    <3>1. v \in User \ astray /\ persons'[v] = persons[v]
      BY <1>2, <1>3, <1>5, <2>1
    <3>2. QED
      BY <3>1 DEF PersonInv
  <2>2. CASE v = u
    <3>1. ~Leaving(t)
      BY <1>5, <2>2 DEF Astray
    <3>2. t \in tenants /\ \A d \in Op : op[d].kind = "remove" => op[d].tenant # t
      BY <3>1 DEF Leaving
    <3>3. QED
      BY <1>2, <2>2, <3>2
  <2>3. QED
    BY <2>1, <2>2
<1>6. \A d \in Op : op'[d].kind = "remove" => op'[d].tenant # DefaultTenant
  BY DEF PersonInv
<1>7. QED
  BY <1>2, <1>3, <1>4, <1>5, <1>6 DEF PersonInv

LEMMA UpdateUserKeeps ==
  ASSUME AccessInv, NEW c \in Op, NEW u \in User, NEW flag \in BOOLEAN, NEW t \in Tenant,
         UpdateUser(c, u, flag, t)
  PROVE  AccessInv'
<1>1. /\ AccessTypeOK /\ op \in [Op -> OpRow] /\ op' = Disturb(op) /\ PersonInv
      /\ persons' = [persons EXCEPT ![u] = [tenant |-> t, admin |-> flag]]
      /\ astray' = Astray(u, t)
      /\ UNCHANGED <<accessCase, tenants, role, granted, group, settled>>
  BY DEF AccessInv, UpdateUser
<1>2. op' \in [Op -> OpRow]
  BY <1>1, Disturbed
<1>3. \A d \in Op : /\ op[d].kind # "boot" => op'[d] = op[d]
                    /\ op[d].kind = "boot" =>
                         /\ op'[d].kind = "boot" /\ ~op'[d].alone
                         /\ op'[d].ready = op[d].ready /\ op'[d].step = op[d].step
                         /\ op'[d].queue = op[d].queue
  BY <1>1, Disturbed
<1>4. /\ PersonInv' /\ astray' \in SUBSET User
      /\ persons' \in [User -> [tenant : Tenant \cup {NoTenant}, admin : BOOLEAN]]
  <2>1. \A d \in Op : op'[d].kind = "remove" => op[d].kind = "remove" /\ op'[d] = op[d]
    BY <1>3
  <2>2. QED
    BY <1>1, <2>1, WrittenRow
<1>5. AccessTypeOK'
  BY <1>1, <1>2, <1>4, OpFacts DEF AccessTypeOK
<1>6. ASSUME NEW d \in Op PROVE BootInv(d)'
  BY <1>1, <1>3, BootKept
<1>7. \A g \in Group : GroupInv(g)'
  <2>1. \A d \in Op : op'[d] = op[d] \/ (op[d].kind \notin ChangeKind /\ op'[d].kind \notin ChangeKind)
    BY <1>3 DEF ChangeKind
  <2>2. QED
    BY <1>1, <2>1, GroupsUndisturbed
<1>8. QED
  BY <1>2, <1>4, <1>5, <1>6, <1>7 DEF AccessInv

LEMMA BeginCreateKeeps ==
  ASSUME AccessInv, NEW c \in Op, NEW u \in User, NEW t \in Tenant, NEW flag \in BOOLEAN,
         BeginCreate(c, u, t, flag)
  PROVE  AccessInv'
<1> DEFINE r == [kind |-> "create", user |-> u, tenant |-> t, admin |-> flag]
<1>1. r \in OpRow /\ r.kind = "create"
  BY DEF OpRow, CreateRow
<1> HIDE DEF r
<1>2. /\ AccessTypeOK /\ op \in [Op -> OpRow] /\ op' = [op EXCEPT ![c] = r] /\ op[c].kind = "idle"
      /\ UNCHANGED <<accessCase, tenants, role, persons, granted, group, settled, astray>>
  BY DEF AccessInv, BeginCreate, Start, r, Idle
<1>3. op' \in [Op -> OpRow] /\ op'[c] = r /\ \A d \in Op : d # c => op'[d] = op[d]
  BY <1>1, <1>2
<1>4. AccessTypeOK'
  BY <1>2, <1>3, OpFacts DEF AccessTypeOK
<1>5. PersonInv'
  BY <1>1, <1>2, <1>3 DEF PersonInv, AccessInv
<1>6. ASSUME NEW d \in Op PROVE BootInv(d)'
  <2>1. op'[d].kind = "boot" => op'[d] = op[d]
    BY <1>1, <1>3
  <2>2. QED
    BY <1>2, <2>1, BootKept
<1>7. \A g \in Group : GroupInv(g)'
  <2>1. \A d \in Op : op'[d] = op[d] \/ (op[d].kind \notin ChangeKind /\ op'[d].kind \notin ChangeKind)
    BY <1>1, <1>2, <1>3 DEF ChangeKind
  <2>2. QED
    BY <1>2, <2>1, GroupsUndisturbed
<1>8. QED
  BY <1>3, <1>4, <1>5, <1>6, <1>7 DEF AccessInv

LEMMA InsertUserKeeps ==
  ASSUME AccessInv, NEW c \in Op, InsertUser(c)
  PROVE  AccessInv'
<1>1. PICK u \in User, t \in Tenant, flag \in BOOLEAN :
        op[c].user = u /\ op[c].tenant = t /\ op[c].admin = flag
  BY OpFacts DEF AccessInv, InsertUser
<1>2. /\ AccessTypeOK /\ op \in [Op -> OpRow] /\ op[c].kind = "create" /\ PersonInv
      /\ Idle \in OpRow /\ Idle.kind = "idle"
      /\ UNCHANGED <<accessCase, tenants, role, granted, group, settled>>
  BY DEF AccessInv, InsertUser, OpRow, Idle
<1>3. CASE /\ persons' = [persons EXCEPT ![u] = [tenant |-> t, admin |-> flag]]
           /\ astray' = Astray(u, t)
           /\ op' = [(IF flag THEN Disturb(op) ELSE op) EXCEPT ![c] = Idle]
  <2> DEFINE rest == IF flag THEN Disturb(op) ELSE op
  <2>1. /\ rest \in [Op -> OpRow]
        /\ \A d \in Op : /\ op[d].kind # "boot" => rest[d] = op[d]
                         /\ op[d].kind = "boot" =>
                              /\ rest[d].kind = "boot" /\ (flag => ~rest[d].alone)
                              /\ rest[d].ready = op[d].ready /\ rest[d].step = op[d].step
                              /\ rest[d].queue = op[d].queue
                              /\ ~flag => rest[d] = op[d]
    BY <1>2, Disturbed
  <2>2. op' = [rest EXCEPT ![c] = Idle]
    BY <1>3
  <2> HIDE DEF rest
  <2>3. /\ op' \in [Op -> OpRow] /\ op'[c] = Idle
        /\ \A d \in Op : d # c => op'[d] = rest[d]
    BY <1>2, <2>1, <2>2
  <2>4. /\ PersonInv' /\ astray' \in SUBSET User
        /\ persons' \in [User -> [tenant : Tenant \cup {NoTenant}, admin : BOOLEAN]]
        /\ \A v \in User : v # u => persons'[v] = persons[v]
        /\ persons'[u].admin = flag
    <3>1. \A d \in Op : op'[d].kind = "remove" => op[d].kind = "remove" /\ op'[d] = op[d]
      BY <1>2, <2>1, <2>3
    <3>2. QED
      BY <1>2, <1>3, <3>1, WrittenRow
  <2>5. AccessTypeOK'
    BY <1>2, <2>3, <2>4, OpFacts DEF AccessTypeOK
  <2>6. ASSUME NEW d \in Op PROVE BootInv(d)'
    <3>1. flag \/ \A v \in User : persons'[v] = persons[v] \/ ~persons'[v].admin
      BY <2>4
    <3>2. op'[d].kind = "boot" => d # c /\ op[d].kind = "boot" /\ op'[d] = rest[d]
      BY <1>2, <2>1, <2>3
    <3>3. QED
      BY <1>2, <2>1, <3>1, <3>2, BootKept
  <2>7. \A g \in Group : GroupInv(g)'
    <3>1. \A d \in Op : op'[d] = op[d] \/ (op[d].kind \notin ChangeKind /\ op'[d].kind \notin ChangeKind)
      BY <1>2, <2>1, <2>3 DEF ChangeKind
    <3>2. /\ group' = group
          /\ settled' = settled
      BY <1>2
    <3>3. QED
      BY <3>1, <3>2, GroupsUndisturbed
  <2>8. QED
    BY <2>3, <2>4, <2>5, <2>6, <2>7 DEF AccessInv
<1>4. CASE UNCHANGED <<persons, astray>> /\ op' = [op EXCEPT ![c] = Idle]
  <2>1. op' \in [Op -> OpRow] /\ op'[c] = Idle /\ \A d \in Op : d # c => op'[d] = op[d]
    BY <1>2, <1>4
  <2>2. AccessTypeOK'
    BY <1>2, <1>4, <2>1, OpFacts DEF AccessTypeOK
  <2>3. PersonInv'
    BY <1>2, <1>4, <2>1 DEF PersonInv
  <2>4. ASSUME NEW d \in Op PROVE BootInv(d)'
    <3>1. op'[d].kind = "boot" => op'[d] = op[d]
      BY <1>2, <2>1
    <3>2. QED
      BY <1>2, <1>4, <3>1, BootKept
  <2>5. \A g \in Group : GroupInv(g)'
    <3>1. \A d \in Op : op'[d] = op[d] \/ (op[d].kind \notin ChangeKind /\ op'[d].kind \notin ChangeKind)
      BY <1>2, <2>1 DEF ChangeKind
    <3>2. QED
      BY <1>2, <3>1, GroupsUndisturbed
  <2>6. QED
    BY <2>1, <2>2, <2>3, <2>4, <2>5 DEF AccessInv
<1>5. QED
  BY <1>1, <1>3, <1>4 DEF InsertUser, Finish

LEMMA EmptyTenantKeeps ==
  ASSUME AccessInv, NEW c \in Op, NEW t \in Tenant, EmptyTenant(c, t)
  PROVE  AccessInv'
<1> DEFINE r == [kind |-> "remove", tenant |-> t]
<1>1. r \in OpRow /\ r.kind = "remove" /\ r.tenant = t
  BY DEF OpRow, RemoveRow
<1>2. op' = [Disturb(op) EXCEPT ![c] = r]
  BY DEF EmptyTenant
<1> HIDE DEF r
<1>3. /\ AccessTypeOK /\ op \in [Op -> OpRow] /\ PersonInv
      /\ t \in tenants \ {DefaultTenant} /\ op[c].kind = "idle"
      /\ persons \in [User -> [tenant : Tenant \cup {NoTenant}, admin : BOOLEAN]]
      /\ DefaultTenant \in tenants /\ tenants \subseteq Tenant
      /\ astray' = {u \in astray : persons[u].tenant # t} /\ astray \in SUBSET User
      /\ UNCHANGED <<accessCase, tenants, role, granted, group, settled>>
  BY DEF AccessInv, AccessTypeOK, EmptyTenant, Idle
<1>4. /\ op' \in [Op -> OpRow] /\ op'[c] = r
      /\ \A d \in Op : d # c =>
           /\ op[d].kind # "boot" => op'[d] = op[d]
           /\ op[d].kind = "boot" =>
                /\ op'[d].kind = "boot" /\ ~op'[d].alone
                /\ op'[d].ready = op[d].ready /\ op'[d].step = op[d].step
                /\ op'[d].queue = op[d].queue
  BY <1>1, <1>2, <1>3, Disturbed
<1>5. persons' = [u \in User |-> IF persons[u].tenant = t
                                 THEN [persons[u] EXCEPT !.tenant = DefaultTenant] ELSE persons[u]]
  BY DEF EmptyTenant
<1>6. /\ persons' \in [User -> [tenant : Tenant \cup {NoTenant}, admin : BOOLEAN]]
      /\ \A u \in User : /\ persons[u].tenant = t => persons'[u].tenant = DefaultTenant
                         /\ persons[u].tenant # t => persons'[u] = persons[u]
  <2>1. ASSUME NEW u \in User
        PROVE  /\ [persons[u] EXCEPT !.tenant = DefaultTenant]
                    \in [tenant : Tenant \cup {NoTenant}, admin : BOOLEAN]
               /\ [persons[u] EXCEPT !.tenant = DefaultTenant].tenant = DefaultTenant
    BY <1>3, TenantAssumption
  <2>2. QED
    BY <1>3, <1>5, <2>1
<1>7. AccessTypeOK'
  BY <1>3, <1>4, <1>6, OpFacts DEF AccessTypeOK
<1>8. PersonInv'
  <2>1. \A u \in User : persons'[u].tenant = NoTenant => ~persons'[u].admin
    BY <1>3, <1>6, TenantAssumption DEF PersonInv
  <2>2. \A d \in Op : op'[d].kind = "remove" =>
           \/ /\ d = c
              /\ op'[d].tenant = t
           \/ /\ op[d].kind = "remove"
              /\ op'[d] = op[d]
    BY <1>1, <1>4
  <2>3. ASSUME NEW u \in User \ astray'
        PROVE  /\ persons'[u].tenant = NoTenant \/ persons'[u].tenant \in tenants'
               /\ \A d \in Op : op'[d].kind = "remove" => persons'[u].tenant # op'[d].tenant
    <3>1. CASE persons[u].tenant = t
      <4>1. persons'[u].tenant = DefaultTenant
        BY <1>6, <3>1
      <4>2. \A d \in Op : op'[d].kind = "remove" => op'[d].tenant # DefaultTenant
        BY <1>3, <2>2 DEF PersonInv
      <4>3. QED
        BY <1>3, <4>1, <4>2
    <3>2. CASE persons[u].tenant # t
      <4>1. u \notin astray /\ persons'[u] = persons[u]
        BY <1>3, <1>6, <2>3, <3>2
      <4>2. QED
        BY <1>3, <2>2, <3>2, <4>1 DEF PersonInv
    <3>3. QED
      BY <3>1, <3>2
  <2>4. \A d \in Op : op'[d].kind = "remove" => op'[d].tenant # DefaultTenant
    BY <1>3, <2>2 DEF PersonInv
  <2>5. QED
    BY <2>1, <2>3, <2>4 DEF PersonInv
<1>9. ASSUME NEW d \in Op PROVE BootInv(d)'
  BY <1>1, <1>3, <1>4, BootKept
<1>10. \A g \in Group : GroupInv(g)'
  <2>1. \A d \in Op : op'[d] = op[d] \/ (op[d].kind \notin ChangeKind /\ op'[d].kind \notin ChangeKind)
    BY <1>1, <1>3, <1>4 DEF ChangeKind
  <2>2. QED
    BY <1>3, <2>1, GroupsUndisturbed
<1>11. QED
  BY <1>4, <1>7, <1>8, <1>9, <1>10 DEF AccessInv

LEMMA DropTenantKeeps ==
  ASSUME AccessInv, NEW c \in Op, DropTenant(c)
  PROVE  AccessInv'
<1>1. PICK t \in Tenant : op[c].tenant = t
  BY OpFacts DEF AccessInv, DropTenant
<1>2. /\ AccessTypeOK /\ op \in [Op -> OpRow] /\ PersonInv /\ op[c].kind = "remove"
      /\ op' = [Disturb(op) EXCEPT ![c] = Idle]
      /\ tenants' = IF role[t] = "none" THEN tenants \ {t} ELSE tenants
      /\ UNCHANGED <<accessCase, role, persons, granted, group, settled, astray>>
  BY <1>1 DEF AccessInv, DropTenant
<1>3. /\ op' \in [Op -> OpRow] /\ op'[c] = Idle /\ Idle.kind = "idle"
      /\ \A d \in Op : d # c =>
           /\ op[d].kind # "boot" => op'[d] = op[d]
           /\ op[d].kind = "boot" =>
                /\ op'[d].kind = "boot" /\ ~op'[d].alone
                /\ op'[d].ready = op[d].ready /\ op'[d].step = op[d].step
                /\ op'[d].queue = op[d].queue
  <2>1. Idle \in OpRow /\ Idle.kind = "idle"
    BY DEF OpRow, Idle
  <2>2. QED
    BY <1>2, <2>1, Disturbed
<1>4. t # DefaultTenant
  BY <1>1, <1>2 DEF PersonInv
<1>5. AccessTypeOK'
  <2>1. /\ tenants \in SUBSET Tenant /\ DefaultTenant \in tenants
        /\ \A s \in Tenant : role[s] # "none" => s \in tenants
    BY <1>2 DEF AccessTypeOK
  <2>2. /\ tenants' \in SUBSET Tenant /\ DefaultTenant \in tenants'
        /\ \A s \in Tenant : role'[s] # "none" => s \in tenants'
    BY <1>2, <1>4, <2>1
  <2>3. QED
    BY <1>2, <1>3, <2>2, OpFacts DEF AccessTypeOK
<1>6. PersonInv'
  <2>1. \A d \in Op : op'[d].kind = "remove" => op[d].kind = "remove" /\ op'[d] = op[d]
    BY <1>3
  <2>2. \A u \in User \ astray : persons[u].tenant # t
    BY <1>1, <1>2 DEF PersonInv
  <2>3. QED
    BY <1>2, <2>1, <2>2 DEF PersonInv
<1>7. ASSUME NEW d \in Op PROVE BootInv(d)'
  BY <1>2, <1>3, BootKept
<1>8. \A g \in Group : GroupInv(g)'
  <2>1. \A d \in Op : op'[d] = op[d] \/ (op[d].kind \notin ChangeKind /\ op'[d].kind \notin ChangeKind)
    BY <1>2, <1>3 DEF ChangeKind
  <2>2. QED
    BY <1>2, <2>1, GroupsUndisturbed
<1>9. QED
  BY <1>3, <1>5, <1>6, <1>7, <1>8 DEF AccessInv

LEMMA StopKeeps ==
  ASSUME AccessInv, NEW c \in Op, Stop(c)
  PROVE  AccessInv'
<1>1. /\ AccessTypeOK /\ op \in [Op -> OpRow] /\ PersonInv
      /\ op' = [op EXCEPT ![c] = Idle] /\ Idle \in OpRow /\ Idle.kind = "idle"
      /\ UNCHANGED <<accessCase, tenants, role, persons, granted, group, astray>>
  BY DEF AccessInv, Stop, Finish, OpRow, Idle
<1>2. op' \in [Op -> OpRow] /\ op'[c] = Idle /\ \A d \in Op : d # c => op'[d] = op[d]
  BY <1>1
<1>3. CASE op[c].kind \in ChangeKind
  <2>1. PICK g \in Group : op[c].group = g
    BY <1>1, <1>3, OpFacts
  <2>2. settled' = [settled EXCEPT ![g] = Unknown]
    BY <1>3, <2>1 DEF Stop, ChangeKind
  <2>3. /\ settled \in [Group -> (SUBSET User) \cup {Unknown}]
        /\ group \in [Group -> [live : BOOLEAN, members : SUBSET User]]
    BY <1>1 DEF AccessTypeOK
  <2>4. /\ settled' \in [Group -> (SUBSET User) \cup {Unknown}] /\ settled'[g] = Unknown
        /\ \A h \in Group : h # g => group'[h] = group[h] /\ settled'[h] = settled[h]
    BY <1>1, <2>2, <2>3
  <2>5. GroupInv(g)'
    BY <1>1, <2>4 DEF GroupInv, AccessInv
  <2>6. QED
    BY <1>1, <1>3, <2>1, <2>3, <2>4, <2>5, ChangeMoves
<1>4. CASE op[c].kind \notin ChangeKind
  <2>1. settled' = settled
    BY <1>4 DEF Stop, ChangeKind
  <2>2. AccessTypeOK'
    BY <1>1, <1>2, <2>1, OpFacts DEF AccessTypeOK
  <2>3. PersonInv'
    BY <1>1, <1>2 DEF PersonInv
  <2>4. ASSUME NEW d \in Op PROVE BootInv(d)'
    <3>1. op'[d].kind = "boot" => op'[d] = op[d]
      BY <1>1, <1>2
    <3>2. QED
      BY <1>1, <3>1, BootKept
  <2>5. \A g \in Group : GroupInv(g)'
    <3>1. \A d \in Op : op'[d] = op[d] \/ (op[d].kind \notin ChangeKind /\ op'[d].kind \notin ChangeKind)
      BY <1>1, <1>2, <1>4 DEF ChangeKind
    <3>2. QED
      BY <1>1, <2>1, <3>1, GroupsUndisturbed
  <2>6. QED
    BY <1>2, <2>2, <2>3, <2>4, <2>5 DEF AccessInv
<1>5. QED
  BY <1>3, <1>4

LEMMA AccessInitHolds == AccessInit => AccessInv
<1> SUFFICES ASSUME AccessInit PROVE AccessInv
  OBVIOUS
<1>1. op \in [Op -> OpRow] /\ \A c \in Op : op[c] = Idle /\ op[c].kind = "idle"
  BY DEF AccessInit, OpRow, Idle
<1>2. AccessTypeOK
  BY <1>1, TenantAssumption DEF AccessInit, AccessTypeOK
<1>3. PersonInv
  BY <1>1, TenantAssumption DEF AccessInit, PersonInv
<1>4. \A c \in Op : BootInv(c)
  BY <1>1 DEF BootInv
<1>5. \A g \in Group : GroupInv(g)
  BY <1>1 DEF AccessInit, GroupInv, Changes
<1>6. QED
  BY <1>1, <1>2, <1>3, <1>4, <1>5 DEF AccessInv

LEMMA AccessNextKeeps == AccessInv /\ [AccessNext]_accessVars => AccessInv'
<1> SUFFICES ASSUME AccessInv, [AccessNext]_accessVars PROVE AccessInv'
  OBVIOUS
<1>1. CASE UNCHANGED accessVars
  BY <1>1 DEF accessVars, AccessInv, AccessTypeOK, PersonInv, BootInv, GroupInv, Changes, Halfway
<1>2. ASSUME NEW c \in Op, BeginBoot(c) \/ WireRole(c) \/ ReadAdmins(c) \/ EndBoot(c)
      PROVE  AccessInv'
  BY <1>2, BeginBootKeeps, WireRoleKeeps, ReadAdminsKeeps, EndBootKeeps
<1>3. ASSUME NEW c \in Op, NEW t \in Tenant, EnsureRole(c, t) \/ EmptyTenant(c, t)
      PROVE  AccessInv'
  BY <1>3, EnsureRoleKeeps, EmptyTenantKeeps
<1>4. ASSUME NEW c \in Op, NEW u \in User, NEW t \in Tenant, AssignRole(c, u, t)
      PROVE  AccessInv'
  BY <1>4, AssignRoleKeeps
<1>5. ASSUME NEW c \in Op, NEW u \in User, NEW t \in Tenant, NEW flag \in BOOLEAN,
             UpdateUser(c, u, flag, t) \/ BeginCreate(c, u, t, flag)
      PROVE  AccessInv'
  BY <1>5, UpdateUserKeeps, BeginCreateKeeps
<1>6. ASSUME NEW c \in Op, InsertUser(c) \/ DropTenant(c) \/ Clear(c) \/ EndGroupChange(c) \/ Stop(c)
      PROVE  AccessInv'
  BY <1>6, InsertUserKeeps, DropTenantKeeps, ClearKeeps, EndGroupChangeKeeps, StopKeeps
<1>7. ASSUME NEW c \in Op, NEW g \in Group, NEW who \in SUBSET User,
             NEW kind \in {"replace", "add", "drop"}, BeginGroupChange(c, g, kind, who)
      PROVE  AccessInv'
  BY <1>7, BeginGroupChangeKeeps DEF ChangeKind
<1>8. ASSUME NEW c \in Op, NEW g \in Group, NEW who \in SUBSET User, CreateGroup(c, g, who)
      PROVE  AccessInv'
  BY <1>8, CreateGroupKeeps
<1>9. ASSUME NEW c \in Op, NEW g \in Group, BeginGroupChange(c, g, "delete", {})
      PROVE  AccessInv'
  BY <1>9, BeginGroupChangeKeeps DEF ChangeKind
<1>10. ASSUME NEW c \in Op, NEW u \in User, PutMember(c, u) \/ TakeMember(c, u)
       PROVE  AccessInv'
  BY <1>10, PutMemberKeeps, TakeMemberKeeps
<1>11. QED
  BY <1>1, <1>2, <1>3, <1>4, <1>5, <1>6, <1>7, <1>8, <1>9, <1>10 DEF AccessNext

(* The invariant of the administration: its types and what each kind of operation, wherever   *)
(* it has got, owes to the rows it has written.                                               *)
THEOREM AccessInvHolds == AccessSpec => []AccessInv
<1>1. QED
  BY AccessInitHolds, AccessNextKeeps, PTL DEF AccessSpec

(* Whatever starts of servers, deletions of tenants and changes of groups overlap or stop     *)
(* half way: no user is left in a tenant that is gone unless written during the deletion,     *)
(* every undisturbed start grants what it saw, and a group at rest holds what was asked.      *)
THEOREM AccessHoldsTheorem == AccessSpec => []AccessHolds
<1>1. AccessInv => AccessHolds
  <2> SUFFICES ASSUME AccessInv PROVE AccessHolds
    OBVIOUS
  <2>1. NobodyLeftBehind
    BY DEF AccessInv, PersonInv, NobodyLeftBehind
  <2>2. StartGrants
    <3> SUFFICES ASSUME NEW c \in Op, op[c].kind = "boot", op[c].step = "up", op[c].alone,
                        NEW u \in User, persons[u].admin, persons[u].tenant \in op[c].ready
                 PROVE  <<u, persons[u].tenant>> \in granted
      BY DEF StartGrants
    <3>1. BootInv(c)
      BY DEF AccessInv
    <3>2. QED
      BY <3>1 DEF BootInv
  <2>3. GroupsAsAsked
    BY DEF AccessInv, GroupInv, GroupsAsAsked
  <2>4. QED
    BY <2>1, <2>2, <2>3 DEF AccessHolds
<1>2. QED
  BY <1>1, AccessInvHolds, PTL

--------------------------------------------------------------------------------
(* Browser.                                                                          *)

(* What the browser and the server remember.                                                  *)
PageRow == [refreshing : BOOLEAN, leaving : BOOLEAN, got : Number, token : Number]
CallRow == [step : Step, tab : Tab \cup {NoTab}, kind : {"data", "check", "logout", "login"},
            token : Number, attempt : {"first", "owner", "again"}]

BrowserRows ==
    /\ tabs \in TabCases
    /\ store \in [access : Number, refresh : Number] /\ store.access = store.refresh
    /\ page \in [Tab -> PageRow]
    /\ request \in [Request -> CallRow]
    /\ \A r \in Request : IF request[r].step = "idle" THEN request[r] = Rest
                                                      ELSE request[r].tab \in Tab
    /\ server \in [live : SUBSET Number, grant : Number, minted : Number]
    /\ signedIn \in BOOLEAN /\ crossed \in BOOLEAN
    /\ lost \in 0 .. MaxLost

(* A tab has one refresh under way at a time, which holds its flag: until it is over, and at   *)
(* the console until the call that started it is answered.                                    *)
Holds(r) == \/ request[r].step \in {"asked", "renewed", "refused"}
            \/ request[r].step # "idle" /\ request[r].attempt = "owner" /\ request[r].tab \in Console
OneRefresh ==
    \A r \in Request : Holds(r) =>
        /\ page[request[r].tab].refreshing /\ request[r].attempt = "owner"
        /\ \A o \in Request : Holds(o) /\ request[o].tab = request[r].tab => o = r

(* A sign-in keeps to itself; a sign-out may be one of several.                               *)
LoginInv(r) ==
    /\ Calls = {r} /\ store = NoTokens /\ ~page[request[r].tab].leaving
    /\ request[r].step = "signed"
    /\ request[r].token # None /\ server.grant \in {request[r].token, None}
(* Only a sign-in waits for its tokens.                                                        *)
SignedInv == \A r \in Request : request[r].step = "signed" => request[r].kind = "login"

(* A refresh has the token that is stored, or its successor, or there is none to be had.       *)
RefreshInv(r) ==
    /\ Refreshes = {r} /\ Switches \subseteq {r} /\ store # NoTokens
    /\ request[r].step = "asked" => request[r].token = store.refresh
    /\ request[r].step = "renewed" => request[r].token # None /\ server.grant \in {request[r].token, None}
    /\ request[r].step = "refused" => server.grant = None

KeptInv ==
    /\ \A r \in Request : /\ request[r].kind = "login" => LoginInv(r)
                          /\ request[r].kind = "logout" => ~signedIn
                          /\ r \in Refreshes => RefreshInv(r)
    /\ store # NoTokens /\ server.grant # None /\ (\A r \in Request : request[r].step # "renewed")
         => store.refresh = server.grant
    /\ store # NoTokens /\ ~signedIn => \E r \in Request : request[r].kind = "logout"
    /\ store = NoTokens /\ signedIn /\ server.grant # None => \E r \in Request : request[r].kind = "login"
    /\ store # NoTokens => \A t \in Tab : page[t].leaving => \A r \in Calls : request[r].tab # t

BrowserInv ==
    /\ BrowserRows
    /\ OneRefresh
    /\ ~crossed /\ lost = 0 => KeptInv

LEMMA CallFacts ==
  ASSUME BrowserRows, NEW r \in Request
  PROVE  /\ request \in [Request -> CallRow] /\ request[r] \in CallRow
         /\ request[r].step \in Step /\ request[r].kind \in {"data", "check", "logout", "login"}
         /\ request[r].token \in Number /\ request[r].attempt \in {"first", "owner", "again"}
         /\ request[r].step = "idle" => request[r] = Rest
         /\ request[r].step # "idle" => request[r].tab \in Tab /\ page[request[r].tab] \in PageRow
         /\ r \in Calls <=> request[r].step # "idle"
         /\ r \in Refreshes <=> request[r].step \in {"asked", "renewed", "refused"}
         /\ r \in Switches <=> request[r].kind \in {"logout", "login"}
         /\ request[r].kind # "data" => request[r].step # "idle"
         /\ request[r].tab \in Tab => request[r].step # "idle"
<1>1. request \in [Request -> CallRow] /\ request[r] \in CallRow
  BY DEF BrowserRows
<1>2. /\ request[r].step = "idle" => request[r] = Rest
      /\ request[r].step # "idle" => request[r].tab \in Tab
  BY DEF BrowserRows
<1>3. Rest.kind = "data" /\ Rest.tab = NoTab /\ NoTab \notin Tab
  BY BrowserAssumption DEF Rest
<1>4. QED
  BY <1>1, <1>2, <1>3 DEF CallRow, BrowserRows, Calls, Refreshes, Switches

LEMMA NumberFacts ==
  /\ MaxMinted \in Nat /\ None \in Number /\ 1 \in Number /\ None = 0
  /\ \A m \in Number : m \in Nat /\ (m < MaxMinted => m + 1 \in Number /\ m + 1 # None)
BY BrowserAssumption DEF Number, None

LEMMA RestFacts ==
  /\ Rest \in CallRow /\ Rest.step = "idle" /\ Rest.kind = "data" /\ Rest.attempt = "first"
  /\ Rest.tab = NoTab /\ NoTab \notin Tab
BY NumberFacts, BrowserAssumption DEF Rest, CallRow, Step

LEMMA StoreFacts ==
  ASSUME BrowserRows
  PROVE  /\ store \in [access : Number, refresh : Number] /\ store.access = store.refresh
         /\ store = NoTokens <=> store.access = None
         /\ store = NoTokens <=> store.refresh = None
         /\ NoTokens \in [access : Number, refresh : Number]
         /\ NoTokens.access = NoTokens.refresh /\ NoTokens.refresh = None
<1>1. store \in [access : Number, refresh : Number] /\ store.access = store.refresh
  BY DEF BrowserRows
<1>2. store = [access |-> store.access, refresh |-> store.refresh]
  BY <1>1
<1>3. QED
  BY <1>1, <1>2, NumberFacts DEF NoTokens

LEMMA PairFacts ==
  ASSUME NEW n \in Number
  PROVE  /\ Pair(n) \in [access : Number, refresh : Number] /\ Pair(n).access = Pair(n).refresh
         /\ Pair(n).refresh = n /\ (n # None => Pair(n) # NoTokens)
BY DEF Pair, NoTokens

(* The rows after the step of one call.                                                       *)
LEMMA OneCallMoves ==
  ASSUME BrowserRows, NEW r \in Request, NEW row \in CallRow,
         IF row.step = "idle" THEN row = Rest ELSE row.tab \in Tab,
         request' = [request EXCEPT ![r] = row]
  PROVE  /\ request' \in [Request -> CallRow] /\ request'[r] = row
         /\ \A q \in Request : q # r => request'[q] = request[q]
         /\ \A q \in Request : IF request'[q].step = "idle" THEN request'[q] = Rest
                                                            ELSE request'[q].tab \in Tab
<1>1. request' \in [Request -> CallRow] /\ request'[r] = row
  BY DEF BrowserRows
<1>2. \A q \in Request : q # r => request'[q] = request[q]
  BY DEF BrowserRows
<1>3. QED
  BY <1>1, <1>2 DEF BrowserRows

LEMMA RefreshStillOne ==
  ASSUME OneRefresh,
         \A q \in Request : Holds(q)' =>
            /\ Holds(q) /\ request'[q].tab = request[q].tab /\ request'[q].attempt = request[q].attempt
            /\ page'[request[q].tab].refreshing
  PROVE  OneRefresh'
BY DEF OneRefresh

(* A step by which no token moves: calls other than sign-ins and refreshes go on, end, or       *)
(* begin where there is a token and the page stays.                                           *)
LEMMA StillKept ==
  ASSUME BrowserRows, BrowserRows', KeptInv, store' = store, signedIn' = signedIn,
         server'.grant \in {server.grant, None},
         \A t \in Tab : page'[t].leaving =>
            \/ page[t].leaving
            \/ store = NoTokens /\ \A q \in Request : request[q].kind # "login",
         \A q \in Request :
            \/ request'[q] = request[q]
            \/ /\ request[q].kind # "login" /\ request'[q].kind # "login"
               /\ request'[q].kind = "logout" => request[q].kind = "logout"
               /\ request[q].kind = "logout" => request'[q].kind = "logout" \/ store = NoTokens
               /\ request[q].step \notin {"asked", "renewed", "refused"}
               /\ request'[q].step \notin {"asked", "renewed", "refused"}
               /\ request'[q].step # "idle" =>
                    \/ request[q].step # "idle" /\ request'[q].tab = request[q].tab
                    \/ store # NoTokens /\ ~page[request'[q].tab].leaving
  PROVE  KeptInv'
<1>1. \A q \in Request : /\ request'[q].kind = "logout" => request[q].kind = "logout"
                         /\ store # NoTokens /\ request[q].kind = "logout" => request'[q].kind = "logout"
                         /\ request'[q].kind = "login" <=> request[q].kind = "login"
                         /\ q \in Refreshes' <=> q \in Refreshes
                         /\ q \in Refreshes => request'[q] = request[q]
                         /\ q \in Switches' => q \in Switches
                         /\ request[q].kind = "login" => request'[q] = request[q]
                         /\ q \in Calls' => q \in Calls \/ store # NoTokens
                         /\ request'[q].step = "renewed" <=> request[q].step = "renewed"
  <2>1. ASSUME NEW q \in Request
        PROVE  /\ q \in Calls <=> request[q].step # "idle"
               /\ q \in Calls' <=> request'[q].step # "idle"
               /\ q \in Refreshes <=> request[q].step \in {"asked", "renewed", "refused"}
               /\ q \in Refreshes' <=> request'[q].step \in {"asked", "renewed", "refused"}
               /\ q \in Switches <=> request[q].kind \in {"logout", "login"}
               /\ q \in Switches' <=> request'[q].kind \in {"logout", "login"}
    <3>1. request[q].kind # "data" => request[q].step # "idle"
      BY CallFacts
    <3>2. request'[q].kind # "data" => request'[q].step # "idle"
      BY RestFacts DEF BrowserRows
    <3>3. QED
      BY <3>1, <3>2 DEF Calls, Refreshes, Switches
  <2>2. QED
    BY <2>1
<1>2. Refreshes' = Refreshes /\ Switches' \subseteq Switches
  BY <1>1 DEF Refreshes, Switches, Calls
<1>3. ASSUME NEW r \in Request, request'[r].kind = "login" PROVE LoginInv(r)'
  <2>1. LoginInv(r) /\ request'[r] = request[r]
    BY <1>1, <1>3 DEF KeptInv
  <2>2. Calls' = {r}
    <3>1. \A q \in Request : q \in Calls' => q = r
      BY <1>1, <2>1 DEF LoginInv
    <3>2. r \in Calls'
      BY <2>1 DEF LoginInv, Calls
    <3>3. QED
      BY <3>1, <3>2 DEF Calls
  <2>3. ~page'[request[r].tab].leaving
    <3>1. request[r].tab \in Tab
      BY <2>1, CallFacts DEF LoginInv
    <3>2. QED
      BY <1>1, <1>3, <2>1, <3>1 DEF LoginInv
  <2>4. QED
    BY <2>1, <2>2, <2>3 DEF LoginInv
<1>4. ASSUME NEW r \in Request, request'[r].kind = "logout" PROVE ~signedIn'
  BY <1>1, <1>4 DEF KeptInv
<1>5. ASSUME NEW r \in Request, r \in Refreshes' PROVE RefreshInv(r)'
  <2>1. RefreshInv(r) /\ request'[r] = request[r]
    BY <1>1, <1>5 DEF KeptInv
  <2>2. QED
    BY <1>2, <2>1 DEF RefreshInv
<1>6. (store # NoTokens /\ server.grant # None /\ (\A r \in Request : request[r].step # "renewed")
         => store.refresh = server.grant)'
  BY <1>1 DEF KeptInv
<1>7. (store # NoTokens /\ ~signedIn => \E r \in Request : request[r].kind = "logout")'
  BY <1>1 DEF KeptInv
<1>8. (store = NoTokens /\ signedIn /\ server.grant # None => \E r \in Request : request[r].kind = "login")'
  BY <1>1 DEF KeptInv
<1>9. (store # NoTokens => \A t \in Tab : page[t].leaving => \A r \in Calls : request[r].tab # t)'
  <2> SUFFICES ASSUME store # NoTokens, NEW t \in Tab, page'[t].leaving,
                      NEW r \in Request, request'[r].step # "idle"
               PROVE  request'[r].tab # t
    BY DEF Calls
  <2>1. page[t].leaving /\ (request[r].step # "idle" => request[r].tab # t)
    BY DEF KeptInv, Calls
  <2>2. QED
    BY <2>1
<1>10. QED
  BY <1>3, <1>4, <1>5, <1>6, <1>7, <1>8, <1>9 DEF KeptInv

(* A step that leaves no token in the browser, and no refresh or sign-in under way.             *)
LEMMA EmptiedKept ==
  ASSUME store' = NoTokens, signedIn' => server'.grant = None,
         \A q \in Request : /\ request'[q].kind # "login"
                            /\ request'[q].kind = "logout" => ~signedIn'
                            /\ request'[q].step \notin {"asked", "renewed", "refused"}
  PROVE  KeptInv'
<1>1. ASSUME NEW q \in Request
      PROVE  /\ request'[q].kind = "login" => LoginInv(q)'
             /\ request'[q].kind = "logout" => ~signedIn'
             /\ q \in Refreshes' => RefreshInv(q)'
  <2>1. q \notin Refreshes'
    BY DEF Refreshes
  <2>2. request'[q].kind # "login" /\ (request'[q].kind = "logout" => ~signedIn')
    OBVIOUS
  <2>3. QED
    BY <2>1, <2>2
<1>2. (store = NoTokens /\ signedIn /\ server.grant # None => \E q \in Request : request[q].kind = "login")'
  OBVIOUS
<1>3. QED
  BY <1>1, <1>2 DEF KeptInv

(* While a call other than a sign-in goes on, nobody is signing in.                             *)
LEMMA NoLogin ==
  ASSUME BrowserRows, KeptInv, NEW r \in Request, request[r].step \notin {"idle", "signed"}
  PROVE  \A q \in Request : request[q].kind # "login"
BY CallFacts DEF KeptInv, LoginInv

LEMMA SendDataKeeps ==
  ASSUME BrowserInv, NEW r \in Request, NEW t \in Tab, NEW kind \in {"data", "check"}, Send(r, t, kind)
  PROVE  BrowserInv'
<1> DEFINE row == [step |-> "sent", tab |-> t, kind |-> kind, attempt |-> "first", token |-> store.access]
<1>1. /\ BrowserRows /\ request[r].step = "idle" /\ request[r] = Rest
      /\ store.access # None /\ store # NoTokens /\ ~page[t].leaving
      /\ UNCHANGED <<tabs, store, page, server, lost>> /\ signedIn' = signedIn /\ crossed' = crossed
  BY CallFacts, StoreFacts DEF BrowserInv, BrowserRows, Send
<1>2. request' = [request EXCEPT ![r] = row]
  BY DEF Send
<1>3. row \in CallRow /\ row.step = "sent" /\ row.kind = kind /\ row.tab = t /\ row.attempt = "first"
  BY <1>1, StoreFacts DEF CallRow, Step
<1> HIDE DEF row
<1>4. /\ request' \in [Request -> CallRow] /\ request'[r] = row
      /\ \A q \in Request : q # r => request'[q] = request[q]
      /\ \A q \in Request : IF request'[q].step = "idle" THEN request'[q] = Rest
                                                         ELSE request'[q].tab \in Tab
  BY <1>1, <1>2, <1>3, OneCallMoves
<1>5. BrowserRows'
  BY <1>1, <1>4 DEF BrowserRows
<1>6. OneRefresh'
  <2>1. ASSUME NEW q \in Request, Holds(q)'
        PROVE  Holds(q) /\ request'[q] = request[q]
    BY <1>3, <1>4, <2>1 DEF Holds
  <2>2. \A q \in Request : Holds(q) => page[request[q].tab].refreshing
    BY DEF BrowserInv, OneRefresh
  <2>3. QED
    BY <1>1, <2>1, <2>2, RefreshStillOne DEF BrowserInv
<1>7. ASSUME ~crossed', lost' = 0 PROVE KeptInv'
  <2>1. KeptInv
    BY <1>1, <1>7 DEF BrowserInv
  <2>2. \A q \in Request : request'[q] = request[q] \/
           (/\ request[q].kind \notin {"login", "logout"} /\ request'[q].kind \notin {"login", "logout"}
            /\ request[q].step \notin {"asked", "renewed", "refused"}
            /\ request'[q].step \notin {"asked", "renewed", "refused"}
            /\ store # NoTokens /\ ~page[request'[q].tab].leaving)
    BY <1>1, <1>3, <1>4, RestFacts
  <2>3. server'.grant \in {server.grant, None}
    BY <1>1
  <2>4. QED
    BY <1>1, <1>5, <2>1, <2>2, <2>3, StillKept
<1>8. QED
  BY <1>5, <1>6, <1>7 DEF BrowserInv

LEMMA SendLogoutKeeps ==
  ASSUME BrowserInv, NEW r \in Request, NEW t \in Tab, Send(r, t, "logout")
  PROVE  BrowserInv'
<1> DEFINE token == IF t \in Example THEN page[t].token ELSE store.access
           row == [step |-> "sent", tab |-> t, kind |-> "logout", attempt |-> "first", token |-> token]
<1>1. /\ BrowserRows /\ request[r].step = "idle" /\ request[r] = Rest
      /\ store.access # None /\ store # NoTokens /\ ~page[t].leaving
      /\ UNCHANGED <<tabs, store, page, server, lost>> /\ signedIn' = FALSE
      /\ crossed' = (crossed \/ Refreshes # {}) /\ crossed' \in BOOLEAN
  BY CallFacts, StoreFacts DEF BrowserInv, BrowserRows, Send
<1>2. request' = [request EXCEPT ![r] = row]
  BY DEF Send
<1>3. token \in Number
  BY <1>1, StoreFacts DEF BrowserRows, PageRow
<1> HIDE DEF token
<1>4. row \in CallRow /\ row.step = "sent" /\ row.kind = "logout" /\ row.tab = t /\ row.attempt = "first"
  BY <1>3 DEF CallRow, Step
<1> HIDE DEF row
<1>5. /\ request' \in [Request -> CallRow] /\ request'[r] = row
      /\ \A q \in Request : q # r => request'[q] = request[q]
      /\ \A q \in Request : IF request'[q].step = "idle" THEN request'[q] = Rest
                                                         ELSE request'[q].tab \in Tab
  BY <1>1, <1>2, <1>4, OneCallMoves
<1>6. BrowserRows'
  BY <1>1, <1>5 DEF BrowserRows
<1>7. OneRefresh'
  <2>1. ASSUME NEW q \in Request, Holds(q)'
        PROVE  Holds(q) /\ request'[q] = request[q]
    BY <1>4, <1>5, <2>1 DEF Holds
  <2>2. \A q \in Request : Holds(q) => page[request[q].tab].refreshing
    BY DEF BrowserInv, OneRefresh
  <2>3. QED
    BY <1>1, <2>1, <2>2, RefreshStillOne DEF BrowserInv
<1>8. ASSUME ~crossed', lost' = 0 PROVE KeptInv'
  <2>1. KeptInv /\ Refreshes = {}
    BY <1>1, <1>8 DEF BrowserInv
  <2>2. Refreshes' = {}
    BY <1>4, <1>5, <2>1 DEF Refreshes
  <2>3. \A q \in Request : request[q].kind # "login"
    BY <1>1, <2>1 DEF KeptInv, LoginInv
  <2>5. \A q \in Request : request'[q].kind # "login" /\ request[q].step # "renewed"
    BY <1>4, <1>5, <2>1, <2>3 DEF Refreshes
  <2>7. \A u \in Tab : page'[u].leaving => \A q \in Calls' : request'[q].tab # u
    <3>1. \A u \in Tab : page[u].leaving => \A q \in Calls : request[q].tab # u
      BY <1>1, <2>1 DEF KeptInv
    <3>2. QED
      BY <1>1, <1>4, <1>5, <3>1 DEF Calls
  <2>8. \A q \in Request : q \notin Refreshes'
    BY <2>2
  <2>9. store.refresh = server.grant \/ server.grant = None
    BY <1>1, <2>1, <2>5 DEF KeptInv
  <2>10. (\A q \in Request : /\ request[q].kind = "login" => LoginInv(q)
                             /\ request[q].kind = "logout" => ~signedIn
                             /\ q \in Refreshes => RefreshInv(q))'
    BY <1>1, <2>5, <2>8
  <2>11. \E q \in Request : request'[q].kind = "logout"
    BY <1>4, <1>5
  <2>12. QED
    BY <1>1, <2>7, <2>9, <2>10, <2>11 DEF KeptInv
<1>9. QED
  BY <1>6, <1>7, <1>8 DEF BrowserInv

LEMMA AnswerKeeps ==
  ASSUME BrowserInv, NEW r \in Request, Judge(r) \/ Fail(r)
  PROVE  BrowserInv'
<1>1. /\ BrowserRows /\ request[r].step = "sent" /\ request[r] \in CallRow /\ request[r].tab \in Tab
      /\ UNCHANGED <<tabs, store, page, signedIn, crossed, lost>>
  BY CallFacts DEF BrowserInv, Judge, Fail
<1>2. /\ server' \in [live : SUBSET Number, grant : Number, minted : Number]
      /\ server'.grant \in {server.grant, None}
  <2>1. server \in [live : SUBSET Number, grant : Number, minted : Number]
    BY <1>1 DEF BrowserRows
  <2>2. CASE server' = server
    BY <2>1, <2>2
  <2>3. CASE \E grant \in {server.grant, None} :
               server' = [server EXCEPT !.live = @ \ {request[r].token}, !.grant = grant]
    <3>1. PICK grant \in {server.grant, None} :
            server' = [server EXCEPT !.live = @ \ {request[r].token}, !.grant = grant]
      BY <2>3
    <3>2. grant \in Number
      BY <2>1, NumberFacts
    <3>3. QED
      BY <2>1, <3>1, <3>2
  <2>4. QED
    BY <2>2, <2>3 DEF Judge, Fail
<1>3. PICK step \in {"ok", "denied", "failed"} : request' = [request EXCEPT ![r].step = step]
  BY DEF Judge, Fail
<1> DEFINE row == [request[r] EXCEPT !.step = step]
<1>4. /\ row \in CallRow /\ row.step = step /\ row.kind = request[r].kind /\ row.tab = request[r].tab
      /\ row.attempt = request[r].attempt /\ request' = [request EXCEPT ![r] = row]
  BY <1>1, <1>3 DEF CallRow, Step
<1> HIDE DEF row
<1>5. /\ request' \in [Request -> CallRow] /\ request'[r] = row
      /\ \A q \in Request : q # r => request'[q] = request[q]
      /\ \A q \in Request : IF request'[q].step = "idle" THEN request'[q] = Rest
                                                         ELSE request'[q].tab \in Tab
  BY <1>1, <1>3, <1>4, OneCallMoves
<1>6. BrowserRows'
  BY <1>1, <1>2, <1>5 DEF BrowserRows
<1>7. OneRefresh'
  <2>1. ASSUME NEW q \in Request, Holds(q)'
        PROVE  Holds(q) /\ request'[q].tab = request[q].tab /\ request'[q].attempt = request[q].attempt
    BY <1>1, <1>3, <1>4, <1>5, <2>1 DEF Holds
  <2>2. \A q \in Request : Holds(q) => page[request[q].tab].refreshing
    BY DEF BrowserInv, OneRefresh
  <2>3. QED
    BY <1>1, <2>1, <2>2, RefreshStillOne DEF BrowserInv
<1>8. ASSUME ~crossed', lost' = 0 PROVE KeptInv'
  <2>1. KeptInv
    BY <1>1, <1>8 DEF BrowserInv
  <2>2. request[r].kind # "login"
    BY <1>1, <2>1 DEF KeptInv, LoginInv
  <2>3. \A q \in Request : request'[q] = request[q] \/
           (/\ request'[q].kind = request[q].kind /\ request[q].kind # "login"
            /\ request[q].step \notin {"asked", "renewed", "refused"}
            /\ request'[q].step \notin {"asked", "renewed", "refused"}
            /\ request[q].step # "idle" /\ request'[q].tab = request[q].tab)
    BY <1>1, <1>3, <1>4, <1>5, <2>2
  <2>4. QED
    BY <1>1, <1>2, <1>6, <2>1, <2>3, StillKept
<1>9. QED
  BY <1>6, <1>7, <1>8 DEF BrowserInv

LEMMA JoinKeeps ==
  ASSUME BrowserInv, NEW r \in Request, Join(r)
  PROVE  BrowserInv'
<1>1. /\ BrowserRows /\ request[r].step = "denied" /\ request[r] \in CallRow /\ request[r].tab \in Tab
      /\ request[r].attempt # "owner" /\ page[request[r].tab] \in PageRow
      /\ UNCHANGED <<tabs, store, page, server, signedIn, crossed, lost>>
  BY CallFacts DEF BrowserInv, Join, Unauthorized, Final
<1> DEFINE row == IF page[request[r].tab].got = None THEN [request[r] EXCEPT !.step = "wait"]
                  ELSE [request[r] EXCEPT !.step = "sent", !.token = page[request[r].tab].got,
                                          !.attempt = "again"]
<1>2. /\ row \in CallRow /\ row.step \in {"wait", "sent"} /\ row.kind = request[r].kind
      /\ row.tab = request[r].tab /\ row.attempt # "owner"
  BY <1>1 DEF CallRow, PageRow, Step
<1>3. request' = [request EXCEPT ![r] = row]
  BY DEF Join
<1> HIDE DEF row
<1>4. /\ request' \in [Request -> CallRow] /\ request'[r] = row
      /\ \A q \in Request : q # r => request'[q] = request[q]
      /\ \A q \in Request : IF request'[q].step = "idle" THEN request'[q] = Rest
                                                         ELSE request'[q].tab \in Tab
  BY <1>1, <1>2, <1>3, OneCallMoves
<1>5. BrowserRows'
  BY <1>1, <1>4 DEF BrowserRows
<1>6. OneRefresh'
  <2>1. ASSUME NEW q \in Request, Holds(q)'
        PROVE  Holds(q) /\ request'[q] = request[q]
    BY <1>1, <1>2, <1>4, <2>1 DEF Holds
  <2>2. \A q \in Request : Holds(q) => page[request[q].tab].refreshing
    BY DEF BrowserInv, OneRefresh
  <2>3. QED
    BY <1>1, <2>1, <2>2, RefreshStillOne DEF BrowserInv
<1>7. ASSUME ~crossed', lost' = 0 PROVE KeptInv'
  <2>1. KeptInv
    BY <1>1, <1>7 DEF BrowserInv
  <2>2. request[r].kind # "login"
    BY <1>1, <2>1 DEF KeptInv, LoginInv
  <2>3. \A q \in Request : request'[q] = request[q] \/
           (/\ request'[q].kind = request[q].kind /\ request[q].kind # "login"
            /\ request[q].step \notin {"asked", "renewed", "refused"}
            /\ request'[q].step \notin {"asked", "renewed", "refused"}
            /\ request[q].step # "idle" /\ request'[q].tab = request[q].tab)
    BY <1>1, <1>2, <1>4, <2>2
  <2>4. server'.grant \in {server.grant, None}
    BY <1>1
  <2>5. QED
    BY <1>1, <1>5, <2>1, <2>3, <2>4, StillKept
<1>8. QED
  BY <1>5, <1>6, <1>7 DEF BrowserInv

(* A call that is over.                                                                       *)
LEMMA CallEnds ==
  ASSUME BrowserRows, NEW r \in Request, request' = [request EXCEPT ![r] = Rest]
  PROVE  /\ request' \in [Request -> CallRow] /\ request'[r] = Rest
         /\ \A q \in Request : q # r => request'[q] = request[q]
         /\ \A q \in Request : IF request'[q].step = "idle" THEN request'[q] = Rest
                                                            ELSE request'[q].tab \in Tab
         /\ ~Holds(r)' /\ \A q \in Request : q # r => (Holds(q)' <=> Holds(q))
<1>1. /\ request' \in [Request -> CallRow] /\ request'[r] = Rest
      /\ \A q \in Request : q # r => request'[q] = request[q]
      /\ \A q \in Request : IF request'[q].step = "idle" THEN request'[q] = Rest
                                                         ELSE request'[q].tab \in Tab
  BY RestFacts, OneCallMoves
<1>2. QED
  BY <1>1, RestFacts DEF Holds

(* The end of a call as its page's flags have it.                                               *)
LEMMA EndedRow ==
  ASSUME NEW p \in PageRow, NEW q \in CallRow
  PROVE  /\ Ended(p, q) \in PageRow /\ Ended(p, q).leaving = p.leaving /\ Ended(p, q).token = p.token
         /\ ~(q.attempt = "owner" /\ q.tab \in Console) => Ended(p, q).refreshing = p.refreshing
<1>1. (p.refreshing /\ ~(q.attempt = "owner" /\ q.tab \in Console)) \in BOOLEAN
  OBVIOUS
<1>2. QED
  BY <1>1, NumberFacts DEF Ended, PageRow

(* What follows on a call that a page gave up: nothing, or a sign-out.                          *)
LEMMA AfterRow ==
  ASSUME BrowserRows, NEW r \in Request, request[r].step # "idle"
  PROVE  /\ After(request[r]) \in CallRow /\ After(request[r]).attempt = "first"
         /\ After(request[r]).kind # "login" /\ After(request[r]).step \in {"idle", "sent"}
         /\ After(request[r]).kind = "logout" <=> LogsOut(request[r])
         /\ IF After(request[r]).step = "idle" THEN After(request[r]) = Rest
                                               ELSE After(request[r]).tab = request[r].tab
<1> DEFINE out == [step |-> "sent", tab |-> request[r].tab, kind |-> "logout", attempt |-> "first",
                   token |-> page[request[r].tab].token]
<1>1. request[r].tab \in Tab /\ page[request[r].tab].token \in Number
  BY CallFacts DEF PageRow
<1>2. /\ out \in CallRow /\ out.attempt = "first" /\ out.kind = "logout" /\ out.step = "sent"
      /\ out.tab = request[r].tab
  BY <1>1 DEF CallRow, Step
<1>3. After(request[r]) = IF LogsOut(request[r]) THEN out ELSE Rest
  BY DEF After
<1> HIDE DEF out
<1>4. QED
  BY <1>2, <1>3, RestFacts

LEMMA SettleKeeps ==
  ASSUME BrowserInv, NEW r \in Request, Settle(r)
  PROVE  BrowserInv'
<1> DEFINE p == Ended(page[request[r].tab], request[r])
           row == [p EXCEPT !.token = IF request[r].kind = "logout" THEN None ELSE @]
<1>1. /\ BrowserRows /\ request[r].step \in {"ok", "failed", "denied"} /\ request[r] \in CallRow
      /\ request[r].tab \in Tab /\ page[request[r].tab] \in PageRow /\ page \in [Tab -> PageRow]
      /\ request' = [request EXCEPT ![r] = Rest]
      /\ store' = IF request[r].kind = "logout" THEN NoTokens ELSE store
      /\ page' = [page EXCEPT ![request[r].tab] = row]
      /\ UNCHANGED <<tabs, server, signedIn, crossed, lost>>
  BY CallFacts DEF BrowserInv, BrowserRows, Settle, Final
<1>2. /\ row \in PageRow /\ row.leaving = page[request[r].tab].leaving
      /\ ~(request[r].attempt = "owner" /\ request[r].tab \in Console)
            => row.refreshing = page[request[r].tab].refreshing
  <2>1. /\ p \in PageRow /\ p.leaving = page[request[r].tab].leaving
        /\ ~(request[r].attempt = "owner" /\ request[r].tab \in Console)
              => p.refreshing = page[request[r].tab].refreshing
    BY <1>1, EndedRow
  <2> HIDE DEF p
  <2>2. QED
    BY <2>1, NumberFacts DEF PageRow
<1> HIDE DEF row
<1>3. /\ page' \in [Tab -> PageRow] /\ page'[request[r].tab] = row
      /\ \A t \in Tab : t # request[r].tab => page'[t] = page[t]
  BY <1>1, <1>2
<1>4. /\ request' \in [Request -> CallRow] /\ request'[r] = Rest
      /\ \A q \in Request : q # r => request'[q] = request[q]
      /\ \A q \in Request : IF request'[q].step = "idle" THEN request'[q] = Rest
                                                         ELSE request'[q].tab \in Tab
      /\ ~Holds(r)' /\ \A q \in Request : q # r => (Holds(q)' <=> Holds(q))
  BY <1>1, CallEnds
<1>5. BrowserRows'
  BY <1>1, <1>3, <1>4, StoreFacts DEF BrowserRows
<1>6. OneRefresh'
  <2>1. ASSUME NEW q \in Request, Holds(q)'
        PROVE  /\ Holds(q) /\ request'[q] = request[q] /\ page'[request[q].tab].refreshing
    <3>1. q # r /\ Holds(q) /\ request'[q] = request[q]
      BY <1>4, <2>1
    <3>2. page[request[q].tab].refreshing /\ request[q].tab \in Tab
      BY <1>1, <3>1, CallFacts DEF BrowserInv, OneRefresh, Holds
    <3>3. CASE request[q].tab # request[r].tab
      BY <1>3, <3>1, <3>2, <3>3
    <3>4. CASE request[q].tab = request[r].tab
      <4>1. ~(request[r].attempt = "owner" /\ request[r].tab \in Console)
        BY <1>1, <3>1, <3>4 DEF BrowserInv, OneRefresh, Holds
      <4>2. QED
        BY <1>2, <1>3, <3>1, <3>2, <3>4, <4>1
    <3>5. QED
      BY <3>3, <3>4
  <2>2. QED
    BY <2>1, RefreshStillOne DEF BrowserInv
<1>7. ASSUME ~crossed', lost' = 0 PROVE KeptInv'
  <2>1. KeptInv
    BY <1>1, <1>7 DEF BrowserInv
  <2>2. \A q \in Request : request[q].kind # "login"
    BY <1>1, <2>1, NoLogin
  <2>3. \A t \in Tab : page'[t].leaving = page[t].leaving
    BY <1>2, <1>3
  <2>4. CASE request[r].kind # "logout"
    <3>1. request[r].kind \in {"data", "check"}
      BY <1>1, <2>2, <2>4, CallFacts
    <3>2. \A q \in Request : request'[q] = request[q] \/
             (/\ request[q].kind \notin {"login", "logout"} /\ request'[q].kind \notin {"login", "logout"}
              /\ request[q].step \notin {"asked", "renewed", "refused"}
              /\ request'[q].step \notin {"asked", "renewed", "refused"}
              /\ request'[q].step = "idle")
      BY <1>1, <1>4, <3>1, RestFacts
    <3>3. server'.grant \in {server.grant, None} /\ store' = store
      BY <1>1, <2>4
    <3>4. QED
      BY <1>1, <1>5, <2>1, <2>3, <3>2, <3>3, StillKept
  <2>5. CASE request[r].kind = "logout"
    <3>1. ~signedIn /\ r \in Switches
      BY <1>1, <2>1, <2>5, CallFacts DEF KeptInv
    <3>2. \A q \in Request : q \notin Refreshes
      BY <1>1, <2>1, <3>1, CallFacts DEF KeptInv, RefreshInv
    <3>3. \A q \in Request : /\ request'[q].kind # "login"
                             /\ request'[q].step \notin {"asked", "renewed", "refused"}
      BY <1>4, <2>2, <3>2, RestFacts DEF Refreshes
    <3>4. store' = NoTokens /\ ~signedIn'
      BY <1>1, <2>5, <3>1
    <3>5. QED
      BY <3>3, <3>4, EmptiedKept
  <2>6. QED
    BY <2>4, <2>5
<1>8. QED
  BY <1>5, <1>6, <1>7 DEF BrowserInv

LEMMA CheckFailsKeeps ==
  ASSUME BrowserInv, NEW r \in Request, CheckFails(r)
  PROVE  BrowserInv'
<1> DEFINE t == request[r].tab
           row == After(request[r])
           leaf == Ended(page[t], request[r])
<1>1. /\ BrowserRows /\ request[r].step \in {"ok", "failed", "denied"} /\ request[r] \in CallRow
      /\ t \in Tab /\ page[t] \in PageRow /\ page \in [Tab -> PageRow]
      /\ request[r].kind = "check" /\ request' = [request EXCEPT ![r] = row]
      /\ UNCHANGED <<tabs, server, lost>>
  BY CallFacts DEF BrowserInv, BrowserRows, CheckFails, Final, Failed
<1>2. /\ row \in CallRow /\ row.attempt = "first" /\ row.kind # "login" /\ row.step \in {"idle", "sent"}
      /\ row.kind = "logout" <=> LogsOut(request[r])
      /\ IF row.step = "idle" THEN row = Rest ELSE row.tab = t
  BY <1>1, AfterRow
<1>3. /\ leaf \in PageRow /\ leaf.leaving = page[t].leaving
      /\ ~(request[r].attempt = "owner" /\ t \in Console) => leaf.refreshing = page[t].refreshing
      /\ page' = [page EXCEPT ![t] = leaf]
  BY <1>1, EndedRow DEF CheckFails
<1>4. \/ /\ store' = (IF LogsOut(request[r]) THEN store ELSE NoTokens) /\ signedIn' = FALSE
         /\ crossed' = (crossed \/ Refreshes \ {r} # {})
      \/ ~LogsOut(request[r]) /\ UNCHANGED <<store, signedIn, crossed>>
  BY DEF CheckFails
<1> HIDE DEF row, leaf
<1>5. /\ request' \in [Request -> CallRow] /\ request'[r] = row
      /\ \A q \in Request : q # r => request'[q] = request[q]
      /\ \A q \in Request : IF request'[q].step = "idle" THEN request'[q] = Rest
                                                         ELSE request'[q].tab \in Tab
  BY <1>1, <1>2, OneCallMoves
<1>6. /\ page' \in [Tab -> PageRow] /\ page'[t] = leaf
      /\ \A u \in Tab : u # t => page'[u] = page[u]
  BY <1>1, <1>3
<1>7. BrowserRows'
  <2>1. /\ store' \in [access : Number, refresh : Number] /\ store'.access = store'.refresh
        /\ signedIn' \in BOOLEAN /\ crossed' \in BOOLEAN
    BY <1>1, <1>4, StoreFacts DEF BrowserRows
  <2>2. QED
    BY <1>1, <1>5, <1>6, <2>1 DEF BrowserRows
<1>8. OneRefresh'
  <2>1. ASSUME NEW q \in Request, Holds(q)'
        PROVE  /\ Holds(q) /\ request'[q] = request[q] /\ page'[request[q].tab].refreshing
    <3>1. q # r /\ Holds(q) /\ request'[q] = request[q]
      BY <1>2, <1>5, <2>1 DEF Holds
    <3>2. page[request[q].tab].refreshing /\ request[q].tab \in Tab
      BY <1>1, <3>1, CallFacts DEF BrowserInv, OneRefresh, Holds
    <3>3. CASE request[q].tab # t
      BY <1>6, <3>1, <3>2, <3>3
    <3>4. CASE request[q].tab = t
      <4>1. ~(request[r].attempt = "owner" /\ t \in Console)
        BY <1>1, <3>1, <3>4 DEF BrowserInv, OneRefresh, Holds
      <4>2. QED
        BY <1>3, <1>6, <3>1, <3>2, <3>4, <4>1
    <3>5. QED
      BY <3>3, <3>4
  <2>2. QED
    BY <2>1, RefreshStillOne DEF BrowserInv
<1>9. ASSUME ~crossed', lost' = 0 PROVE KeptInv'
  <2>1. KeptInv
    BY <1>1, <1>4, <1>9 DEF BrowserInv
  <2>2. /\ \A q \in Request : request[q].kind # "login"
        /\ \A q \in Request : request'[q].kind # "login"
    BY <1>1, <1>2, <1>5, <2>1, NoLogin
  <2>3. \A u \in Tab : page'[u].leaving = page[u].leaving
    BY <1>3, <1>6
  <2>4. server'.grant \in {server.grant, None}
    BY <1>1
  <2>5. r \notin Refreshes
    BY <1>1 DEF Refreshes
  <2>6. CASE ~LogsOut(request[r]) /\ UNCHANGED <<store, signedIn, crossed>>
    <3>1. row.kind # "logout"
      BY <1>2, <2>6
    <3>2. \A q \in Request : request'[q] = request[q] \/
             (/\ request[q].kind \notin {"login", "logout"} /\ request'[q].kind \notin {"login", "logout"}
              /\ request[q].step \notin {"asked", "renewed", "refused"}
              /\ request'[q].step \notin {"asked", "renewed", "refused"}
              /\ request'[q].step # "idle" => request[q].step # "idle" /\ request'[q].tab = request[q].tab)
      BY <1>1, <1>2, <1>5, <3>1
    <3>3. QED
      BY <1>1, <1>7, <2>1, <2>3, <2>4, <2>6, <3>2, StillKept
  <2>7. CASE signedIn' = FALSE /\ Refreshes = {}
    <3>1. \A q \in Request : request'[q].step \notin {"asked", "renewed", "refused"}
      BY <1>2, <1>5, <2>7 DEF Refreshes
    <3>2. CASE store' = NoTokens
      BY <2>2, <2>7, <3>1, <3>2, EmptiedKept
    <3>3. CASE store' = store /\ LogsOut(request[r])
      <4>1. \E q \in Request : request'[q].kind = "logout"
        BY <1>2, <1>5, <3>3
      <4>2. store # NoTokens => \A u \in Tab : page'[u].leaving => \A q \in Calls' : request'[q].tab # u
        <5>1. store # NoTokens => \A u \in Tab : page[u].leaving => \A q \in Calls : request[q].tab # u
          BY <2>1 DEF KeptInv
        <5>2. \A q \in Calls' : q \in Calls /\ request'[q].tab = request[q].tab
          BY <1>1, <1>2, <1>5 DEF Calls
        <5>3. QED
          BY <2>3, <5>1, <5>2
      <4>3. store # NoTokens /\ server.grant # None => store.refresh = server.grant
        BY <2>1, <2>7 DEF KeptInv, Refreshes
      <4>4. QED
        BY <1>1, <2>2, <2>7, <3>1, <3>3, <4>1, <4>2, <4>3 DEF KeptInv, Refreshes
    <3>4. QED
      BY <1>4, <2>7, <3>2, <3>3, <2>6
  <2>8. QED
    BY <1>4, <1>9, <2>5, <2>6, <2>7
<1>10. QED
  BY <1>7, <1>8, <1>9 DEF BrowserInv

LEMMA StartRefreshKeeps ==
  ASSUME BrowserInv, NEW r \in Request, StartRefresh(r)
  PROVE  BrowserInv'
<1> DEFINE t == request[r].tab
           row == [request[r] EXCEPT !.step = "asked", !.token = store.refresh, !.attempt = "owner"]
           leaf == [page[t] EXCEPT !.refreshing = TRUE]
<1>1. /\ BrowserRows /\ request[r].step = "denied" /\ request[r] \in CallRow
      /\ t \in Tab /\ page[t] \in PageRow /\ page \in [Tab -> PageRow]
      /\ ~page[t].refreshing /\ store.refresh # None /\ store # NoTokens
      /\ crossed' = (crossed \/ Switches \ {r} # {} \/ \E o \in Refreshes : request[o].tab # t)
      /\ crossed' \in BOOLEAN
      /\ UNCHANGED <<tabs, store, server, signedIn, lost>>
  BY CallFacts, StoreFacts DEF BrowserInv, BrowserRows, StartRefresh, Unauthorized
<1>2. /\ row \in CallRow /\ row.step = "asked" /\ row.kind = request[r].kind /\ row.tab = t
      /\ row.attempt = "owner" /\ row.token = store.refresh /\ request' = [request EXCEPT ![r] = row]
  BY <1>1, StoreFacts DEF CallRow, Step, StartRefresh
<1>3. /\ leaf \in PageRow /\ leaf.refreshing /\ leaf.leaving = page[t].leaving
      /\ page' = [page EXCEPT ![t] = leaf]
  BY <1>1 DEF PageRow, StartRefresh
<1> HIDE DEF row, leaf
<1>4. /\ request' \in [Request -> CallRow] /\ request'[r] = row
      /\ \A q \in Request : q # r => request'[q] = request[q]
      /\ \A q \in Request : IF request'[q].step = "idle" THEN request'[q] = Rest
                                                         ELSE request'[q].tab \in Tab
  BY <1>1, <1>2, OneCallMoves
<1>5. /\ page' \in [Tab -> PageRow] /\ page'[t] = leaf
      /\ \A u \in Tab : u # t => page'[u] = page[u]
  BY <1>1, <1>3
<1>6. BrowserRows'
  BY <1>1, <1>4, <1>5 DEF BrowserRows
<1>7. \A q \in Request : Holds(q) => request[q].tab # t /\ request[q].tab \in Tab
  BY <1>1, CallFacts DEF BrowserInv, OneRefresh, Holds
<1>8. \A q \in Request : q # r => (Holds(q)' <=> Holds(q))
  BY <1>4 DEF Holds
<1>9. OneRefresh'
  <2> SUFFICES ASSUME NEW q \in Request, Holds(q)'
               PROVE  /\ page'[request'[q].tab].refreshing /\ request'[q].attempt = "owner"
                      /\ \A o \in Request : Holds(o)' /\ request'[o].tab = request'[q].tab => o = q
    BY DEF OneRefresh
  <2>1. CASE q = r
    BY <1>2, <1>3, <1>4, <1>5, <1>7, <1>8, <2>1
  <2>2. CASE q # r
    <3>1. Holds(q) /\ request'[q] = request[q] /\ request[q].tab # t /\ request[q].tab \in Tab
      BY <1>4, <1>7, <1>8, <2>2
    <3>2. /\ page[request[q].tab].refreshing /\ request[q].attempt = "owner"
          /\ \A o \in Request : Holds(o) /\ request[o].tab = request[q].tab => o = q
      BY <3>1 DEF BrowserInv, OneRefresh
    <3>3. page'[request'[q].tab].refreshing /\ request'[q].attempt = "owner"
      BY <1>5, <3>1, <3>2
    <3>4. ASSUME NEW o \in Request, Holds(o)', request'[o].tab = request'[q].tab PROVE o = q
      <4>1. o # r
        BY <1>2, <1>4, <3>1, <3>4
      <4>2. QED
        BY <1>4, <1>8, <3>1, <3>2, <3>4, <4>1
    <3>5. QED
      BY <3>3, <3>4
  <2>3. QED
    BY <2>1, <2>2
<1>10. ASSUME ~crossed', lost' = 0 PROVE KeptInv'
  <2>1. KeptInv /\ Switches \subseteq {r}
    BY <1>1, <1>10 DEF BrowserInv
  <2>2. Refreshes = {}
    <3>1. ASSUME NEW q \in Refreshes PROVE FALSE
      <4>1. request[q].tab = t /\ Holds(q)
        BY <1>1, <1>10 DEF Refreshes, Holds
      <4>2. QED
        BY <1>7, <4>1 DEF Refreshes
    <3>2. QED
      BY <3>1
  <2>3. Refreshes' = {r}
    <3>1. \A q \in Request : q \in Refreshes' <=> q = r
      BY <1>2, <1>4, <2>2 DEF Refreshes
    <3>2. QED
      BY <3>1 DEF Refreshes
  <2>4. /\ Switches' = Switches /\ \A q \in Request : request'[q].kind = request[q].kind
        /\ \A q \in Request : request'[q].step # "renewed" /\ request[q].step # "renewed"
    <3>1. \A q \in Request : /\ request'[q].kind = request[q].kind
                             /\ q \in Calls' <=> q \in Calls
      BY <1>1, <1>2, <1>4 DEF Calls
    <3>2. \A q \in Request : request'[q].step # "renewed" /\ request[q].step # "renewed"
      BY <1>2, <1>4, <2>2 DEF Refreshes
    <3>3. QED
      BY <3>1, <3>2 DEF Switches, Calls
  <2>5. \A q \in Request : request[q].kind # "login"
    BY <1>1, <2>1, NoLogin
  <2>6. RefreshInv(r)'
    BY <1>1, <1>2, <1>4, <2>1, <2>3, <2>4 DEF RefreshInv
  <2>7. ASSUME NEW q \in Request, request'[q].kind = "logout" PROVE ~signedIn'
    BY <1>1, <2>1, <2>4, <2>7 DEF KeptInv
  <2>8. (\A q \in Request : /\ request[q].kind = "login" => LoginInv(q)
                            /\ request[q].kind = "logout" => ~signedIn
                            /\ q \in Refreshes => RefreshInv(q))'
    BY <2>3, <2>4, <2>5, <2>6, <2>7
  <2>9. \A u \in Tab : page'[u].leaving => \A q \in Calls' : request'[q].tab # u
    <3>1. \A u \in Tab : page[u].leaving => \A q \in Calls : request[q].tab # u
      BY <1>1, <2>1 DEF KeptInv
    <3>2. \A u \in Tab : page'[u].leaving = page[u].leaving
      BY <1>3, <1>5
    <3>3. \A q \in Request : request'[q].tab = request[q].tab /\ (q \in Calls' <=> q \in Calls)
      BY <1>1, <1>2, <1>4 DEF Calls
    <3>4. QED
      BY <3>1, <3>2, <3>3 DEF Calls
  <2>10. (server.grant # None => store.refresh = server.grant)'
    BY <1>1, <2>1, <2>4 DEF KeptInv
  <2>11. ~signedIn' => \E q \in Request : request'[q].kind = "logout"
    BY <1>1, <2>1, <2>4 DEF KeptInv
  <2>12. QED
    BY <1>1, <2>8, <2>9, <2>10, <2>11 DEF KeptInv
<1>11. QED
  BY <1>6, <1>9, <1>10 DEF BrowserInv

LEMMA GiveUpKeeps ==
  ASSUME BrowserInv, NEW r \in Request, GiveUp(r)
  PROVE  BrowserInv'
<1> DEFINE t == request[r].tab
           row == After(request[r])
           leaf == [page[t] EXCEPT !.leaving = TRUE, !.refreshing = t \in Example]
<1>1. /\ BrowserRows /\ request[r].step = "denied" /\ request[r] \in CallRow
      /\ t \in Tab /\ page[t] \in PageRow /\ page \in [Tab -> PageRow]
      /\ ~page[t].refreshing /\ store = NoTokens /\ store' = store
      /\ request' = [request EXCEPT ![r] = row]
      /\ signedIn' = (signedIn /\ ~LogsOut(request[r])) /\ signedIn' \in BOOLEAN
      /\ crossed' = (crossed \/ (LogsOut(request[r]) /\ Refreshes # {})) /\ crossed' \in BOOLEAN
      /\ UNCHANGED <<tabs, server, lost>>
  BY CallFacts, StoreFacts DEF BrowserInv, BrowserRows, GiveUp, Unauthorized
<1>2. leaf \in PageRow /\ page' = [page EXCEPT ![t] = leaf]
  <2>1. (t \in Example) \in BOOLEAN
    OBVIOUS
  <2>2. leaf \in PageRow
    BY <1>1, <2>1 DEF PageRow
  <2>3. page' = [page EXCEPT ![t].leaving = TRUE, ![t].refreshing = t \in Example]
    BY DEF GiveUp
  <2>4. page' = [page EXCEPT ![t] = leaf]
    BY <1>1, <2>3
  <2>5. QED
    BY <2>2, <2>4
<1>0. /\ row \in CallRow /\ row.attempt = "first" /\ row.kind # "login" /\ row.step \in {"idle", "sent"}
      /\ row.kind = "logout" <=> LogsOut(request[r])
      /\ IF row.step = "idle" THEN row = Rest ELSE row.tab = t
  BY <1>1, AfterRow
<1> HIDE DEF leaf, row
<1>3. /\ page' \in [Tab -> PageRow]
      /\ \A u \in Tab : u # t => page'[u] = page[u]
  BY <1>1, <1>2
<1>4. /\ request' \in [Request -> CallRow] /\ request'[r] = row
      /\ \A q \in Request : q # r => request'[q] = request[q]
      /\ \A q \in Request : IF request'[q].step = "idle" THEN request'[q] = Rest
                                                         ELSE request'[q].tab \in Tab
      /\ ~Holds(r)' /\ \A q \in Request : q # r => (Holds(q)' <=> Holds(q))
  <2>1. /\ request' \in [Request -> CallRow] /\ request'[r] = row
        /\ \A q \in Request : q # r => request'[q] = request[q]
        /\ \A q \in Request : IF request'[q].step = "idle" THEN request'[q] = Rest
                                                           ELSE request'[q].tab \in Tab
    BY <1>0, <1>1, OneCallMoves
  <2>2. QED
    BY <1>0, <2>1 DEF Holds
<1>5. BrowserRows'
  BY <1>1, <1>3, <1>4 DEF BrowserRows
<1>6. OneRefresh'
  <2>1. \A q \in Request : Holds(q) => /\ request[q].tab # t /\ request[q].tab \in Tab
                                       /\ page[request[q].tab].refreshing
    BY <1>1, CallFacts DEF BrowserInv, OneRefresh, Holds
  <2>2. ASSUME NEW q \in Request, Holds(q)'
        PROVE  /\ Holds(q) /\ request'[q] = request[q] /\ page'[request[q].tab].refreshing
    BY <1>3, <1>4, <2>1, <2>2
  <2>3. QED
    BY <2>2, RefreshStillOne DEF BrowserInv
<1>7. ASSUME ~crossed', lost' = 0 PROVE KeptInv'
  <2>1. KeptInv
    BY <1>1, <1>7 DEF BrowserInv
  <2>2. \A q \in Request : request[q].kind # "login" /\ request'[q].kind # "login"
    BY <1>0, <1>1, <1>4, <2>1, NoLogin
  <2>3. \A q \in Request : q \notin Refreshes
    BY <1>1, <2>1 DEF KeptInv, RefreshInv
  <2>4. \A q \in Request : request'[q].step \notin {"asked", "renewed", "refused"}
    BY <1>0, <1>4, <2>3 DEF Refreshes
  <2>5. \A q \in Request : request'[q].kind = "logout" => ~signedIn'
    BY <1>0, <1>1, <1>4, <2>1 DEF KeptInv
  <2>6. signedIn' => server'.grant = None
    BY <1>1, <2>1, <2>2 DEF KeptInv
  <2>7. QED
    BY <1>1, <2>2, <2>4, <2>5, <2>6, EmptiedKept
<1>8. QED
  BY <1>5, <1>6, <1>7 DEF BrowserInv

(* What a refresh under way says of the others.                                               *)
LEMMA RefreshFacts ==
  ASSUME BrowserRows, KeptInv, NEW r \in Request, r \in Refreshes
  PROVE  /\ RefreshInv(r) /\ store # NoTokens
         /\ \A q \in Request : /\ q # r => q \notin Refreshes /\ request[q].kind # "logout"
                               /\ request[q].kind # "login"
<1>1. RefreshInv(r)
  BY DEF KeptInv
<1>2. \A q \in Request : q # r => q \notin Refreshes /\ request[q].kind \notin {"logout", "login"}
  BY <1>1, CallFacts DEF RefreshInv
<1>3. request[r].kind # "login"
  BY CallFacts DEF KeptInv, LoginInv
<1>4. QED
  BY <1>1, <1>2, <1>3 DEF RefreshInv

LEMMA RenewKeeps ==
  ASSUME BrowserInv, NEW r \in Request, Renew(r)
  PROVE  BrowserInv'
<1>1. /\ BrowserRows /\ request[r].step = "asked" /\ request[r] \in CallRow
      /\ request[r].tab \in Tab /\ r \in Refreshes
      /\ UNCHANGED <<tabs, store, page, signedIn, crossed, lost>>
      /\ server \in [live : SUBSET Number, grant : Number, minted : Number]
  BY CallFacts DEF BrowserInv, BrowserRows, Renew
<1>2. PICK step \in {"renewed", "refused"}, n \in Number :
        /\ request' = [request EXCEPT ![r].step = step, ![r].token = n]
        /\ server' \in [live : SUBSET Number, grant : Number, minted : Number]
        /\ step = "renewed" => n # None /\ server'.grant = n
        /\ step = "refused" => server' = server /\ request[r].token # server.grant
  <2>1. CASE /\ request[r].token = server.grant /\ server.minted < MaxMinted
             /\ server' = [live |-> server.live \cup {server.minted + 1}, grant |-> server.minted + 1,
                           minted |-> server.minted + 1]
             /\ request' = [request EXCEPT ![r].step = "renewed", ![r].token = server.minted + 1]
    <3>1. server.minted + 1 \in Number /\ server.minted + 1 # None /\ server.live \subseteq Number
      BY <1>1, <2>1, NumberFacts
    <3>2. /\ server' \in [live : SUBSET Number, grant : Number, minted : Number]
          /\ server'.grant = server.minted + 1
      BY <2>1, <3>1
    <3>3. QED
      BY <2>1, <3>1, <3>2
  <2>2. CASE /\ request[r].token # server.grant
             /\ request' = [request EXCEPT ![r].step = "refused"]
             /\ UNCHANGED server
    <3> DEFINE n == request[r].token
    <3>1. n \in Number
      BY <1>1 DEF CallRow
    <3>2. request' = [request EXCEPT ![r].step = "refused", ![r].token = n]
      <4>1. [request[r] EXCEPT !.step = "refused", !.token = n] = [request[r] EXCEPT !.step = "refused"]
        BY <1>1 DEF CallRow
      <4>2. QED
        BY <1>1, <2>2, <4>1 DEF BrowserRows
    <3> HIDE DEF n
    <3>3. QED
      BY <1>1, <2>2, <3>1, <3>2
  <2>3. QED
    BY <2>1, <2>2 DEF Renew
<1> DEFINE row == [request[r] EXCEPT !.step = step, !.token = n]
<1>3. /\ row \in CallRow /\ row.step = step /\ row.kind = request[r].kind /\ row.tab = request[r].tab
      /\ row.attempt = request[r].attempt /\ row.token = n /\ request' = [request EXCEPT ![r] = row]
  BY <1>1, <1>2 DEF CallRow, Step
<1> HIDE DEF row
<1>4. /\ request' \in [Request -> CallRow] /\ request'[r] = row
      /\ \A q \in Request : q # r => request'[q] = request[q]
      /\ \A q \in Request : IF request'[q].step = "idle" THEN request'[q] = Rest
                                                         ELSE request'[q].tab \in Tab
  BY <1>1, <1>2, <1>3, OneCallMoves
<1>5. BrowserRows'
  BY <1>1, <1>2, <1>4 DEF BrowserRows
<1>6. OneRefresh'
  <2>1. ASSUME NEW q \in Request, Holds(q)'
        PROVE  Holds(q) /\ request'[q].tab = request[q].tab /\ request'[q].attempt = request[q].attempt
    BY <1>1, <1>2, <1>3, <1>4, <2>1 DEF Holds
  <2>2. \A q \in Request : Holds(q) => page[request[q].tab].refreshing
    BY DEF BrowserInv, OneRefresh
  <2>3. QED
    BY <1>1, <2>1, <2>2, RefreshStillOne DEF BrowserInv
<1>7. ASSUME ~crossed', lost' = 0 PROVE KeptInv'
  <2>1. KeptInv
    BY <1>1, <1>7 DEF BrowserInv
  <2>2. /\ RefreshInv(r) /\ store # NoTokens
        /\ \A q \in Request : /\ q # r => q \notin Refreshes /\ request[q].kind # "logout"
                              /\ request[q].kind # "login"
    BY <1>1, <2>1, RefreshFacts
  <2>3. \A q \in Request : /\ request'[q].kind = request[q].kind /\ request'[q].tab = request[q].tab
                           /\ q \in Refreshes' <=> q = r
                           /\ q \in Calls' <=> q \in Calls
                           /\ q # r => request[q].step # "renewed"
    BY <1>1, <1>2, <1>3, <1>4, <2>2 DEF Refreshes, Calls
  <2>4. Refreshes' = {r} /\ Switches' = Switches
    BY <2>3 DEF Refreshes, Switches, Calls
  <2>5. step = "refused" => server'.grant = None
    <3>1. \A q \in Request : request[q].step # "renewed"
      BY <1>1, <2>3
    <3>2. server.grant # None => request[r].token = server.grant
      BY <1>1, <2>1, <2>2, <3>1 DEF KeptInv, RefreshInv
    <3>3. QED
      BY <1>2, <3>2
  <2>6. RefreshInv(r)'
    BY <1>1, <1>2, <1>3, <1>4, <2>2, <2>4, <2>5 DEF RefreshInv
  <2>7. ASSUME NEW q \in Request, request'[q].kind = "logout" PROVE ~signedIn'
    BY <1>1, <2>1, <2>3, <2>4, <2>7 DEF KeptInv
  <2>8. (\A q \in Request : /\ request[q].kind = "login" => LoginInv(q)
                            /\ request[q].kind = "logout" => ~signedIn
                            /\ q \in Refreshes => RefreshInv(q))'
    BY <2>2, <2>3, <2>6, <2>7
  <2>9. \A u \in Tab : page'[u].leaving => \A q \in Calls' : request'[q].tab # u
    <3>1. \A u \in Tab : page[u].leaving => \A q \in Calls : request[q].tab # u
      BY <2>1, <2>2 DEF KeptInv
    <3>2. QED
      BY <1>1, <2>3, <3>1 DEF Calls
  <2>10. server'.grant # None => \E q \in Request : request'[q].step = "renewed"
    BY <1>2, <1>3, <1>4, <2>5
  <2>11. ~signedIn' => \E q \in Request : request'[q].kind = "logout"
    BY <1>1, <2>1, <2>2, <2>3 DEF KeptInv
  <2>12. QED
    BY <1>1, <2>2, <2>8, <2>9, <2>10, <2>11 DEF KeptInv
<1>8. QED
  BY <1>5, <1>6, <1>7 DEF BrowserInv

LEMMA LoseRefreshKeeps ==
  ASSUME BrowserInv, NEW r \in Request, LoseRefresh(r)
  PROVE  BrowserInv'
<1>1. /\ BrowserRows /\ request[r].step \in {"asked", "renewed"} /\ request[r] \in CallRow
      /\ request[r].tab \in Tab /\ UNCHANGED <<tabs, store, page, server, signedIn, crossed>>
      /\ lost \in 0 .. MaxLost /\ lost < MaxLost /\ lost' = lost + 1 /\ MaxLost \in Nat
  BY CallFacts, BrowserAssumption DEF BrowserInv, BrowserRows, LoseRefresh
<1> DEFINE row == [request[r] EXCEPT !.step = "refused", !.token = None]
<1>2. /\ row \in CallRow /\ row.step = "refused" /\ row.tab = request[r].tab
      /\ row.attempt = request[r].attempt /\ request' = [request EXCEPT ![r] = row]
  BY <1>1, NumberFacts DEF CallRow, Step, LoseRefresh
<1> HIDE DEF row
<1>3. /\ request' \in [Request -> CallRow] /\ request'[r] = row
      /\ \A q \in Request : q # r => request'[q] = request[q]
      /\ \A q \in Request : IF request'[q].step = "idle" THEN request'[q] = Rest
                                                         ELSE request'[q].tab \in Tab
  BY <1>1, <1>2, OneCallMoves
<1>4. lost' \in 0 .. MaxLost /\ lost' # 0
  BY <1>1
<1>5. BrowserRows'
  BY <1>1, <1>3, <1>4 DEF BrowserRows
<1>6. OneRefresh'
  <2>1. ASSUME NEW q \in Request, Holds(q)'
        PROVE  Holds(q) /\ request'[q].tab = request[q].tab /\ request'[q].attempt = request[q].attempt
    BY <1>1, <1>2, <1>3, <2>1 DEF Holds
  <2>2. \A q \in Request : Holds(q) => page[request[q].tab].refreshing
    BY DEF BrowserInv, OneRefresh
  <2>3. QED
    BY <1>1, <2>1, <2>2, RefreshStillOne DEF BrowserInv
<1>7. QED
  BY <1>4, <1>5, <1>6 DEF BrowserInv

LEMMA LandRenewedKeeps ==
  ASSUME BrowserInv, NEW r \in Request, LandRenewed(r)
  PROVE  BrowserInv'
<1> DEFINE t == request[r].tab
           n == request[r].token
           leaf == IF t \in Console THEN [page[t] EXCEPT !.got = n]
                                    ELSE [page[t] EXCEPT !.refreshing = FALSE]
           Again(q) == IF q = r THEN [request[q] EXCEPT !.step = "sent"]
                       ELSE IF q \in WaitersOf(t)
                            THEN [request[q] EXCEPT !.step = "sent", !.token = n, !.attempt = "again"]
                            ELSE request[q]
<1>1. /\ BrowserRows /\ request[r].step = "renewed" /\ request[r] \in CallRow
      /\ t \in Tab /\ page[t] \in PageRow /\ page \in [Tab -> PageRow] /\ n \in Number
      /\ r \in Refreshes /\ Holds(r)
      /\ store' = Pair(n) /\ UNCHANGED <<tabs, server, signedIn, crossed, lost>>
  BY CallFacts DEF BrowserInv, BrowserRows, LandRenewed, Holds
<1>2. /\ leaf \in PageRow /\ leaf.leaving = page[t].leaving
      /\ t \in Console => leaf.refreshing = page[t].refreshing
      /\ page' = [page EXCEPT ![t] = leaf]
  <2>1. leaf \in PageRow /\ leaf.leaving = page[t].leaving
        /\ (t \in Console => leaf.refreshing = page[t].refreshing)
    BY <1>1 DEF PageRow
  <2>2. page' = [page EXCEPT ![t] = leaf]
    <3>1. CASE t \in Console
      BY <1>1, <3>1 DEF LandRenewed
    <3>2. CASE t \notin Console
      BY <1>1, <3>2 DEF LandRenewed
    <3>3. QED
      BY <3>1, <3>2
  <2>3. QED
    BY <2>1, <2>2
<1>3. request' = [q \in Request |-> Again(q)]
  BY DEF LandRenewed
<1>4. ASSUME NEW q \in Request
      PROVE  /\ Again(q) \in CallRow /\ Again(q).kind = request[q].kind /\ Again(q).tab = request[q].tab
             /\ IF Again(q).step = "idle" THEN Again(q) = Rest ELSE Again(q).tab \in Tab
             /\ Again(q).step = "idle" <=> request[q].step = "idle"
             /\ q = r => Again(q).step = "sent" /\ Again(q).attempt = request[q].attempt
             /\ q # r => \/ Again(q) = request[q]
                         \/ request[q].step = "wait" /\ Again(q).step = "sent" /\ Again(q).attempt = "again"
  <2>1. /\ request[q] \in CallRow
        /\ request[q].step = "idle" => request[q] = Rest
        /\ request[q].step # "idle" => request[q].tab \in Tab
    BY <1>1, CallFacts
  <2>2. CASE q = r
    BY <1>1, <2>1, <2>2 DEF CallRow, Step
  <2>3. CASE q # r /\ q \in WaitersOf(t)
    BY <1>1, <2>1, <2>3 DEF CallRow, Step, WaitersOf
  <2>4. CASE q # r /\ q \notin WaitersOf(t)
    BY <2>1, <2>4
  <2>5. QED
    BY <2>2, <2>3, <2>4
<1>5. \A q \in Request : request'[q] = Again(q)
  BY <1>3
<1> HIDE DEF Again, leaf
<1>6. /\ page' \in [Tab -> PageRow] /\ page'[t] = leaf
      /\ \A u \in Tab : u # t => page'[u] = page[u]
  BY <1>1, <1>2
<1>7. BrowserRows'
  <2>1. request' \in [Request -> CallRow]
    BY <1>3, <1>4
  <2>2. \A q \in Request : IF request'[q].step = "idle" THEN request'[q] = Rest
                                                        ELSE request'[q].tab \in Tab
    BY <1>4, <1>5
  <2>3. QED
    BY <1>1, <1>6, <2>1, <2>2, PairFacts DEF BrowserRows
<1>8. OneRefresh'
  <2>1. ASSUME NEW q \in Request, Holds(q)'
        PROVE  /\ Holds(q) /\ request'[q].tab = request[q].tab /\ request'[q].attempt = request[q].attempt
               /\ page'[request[q].tab].refreshing
    <3>1. Holds(q) /\ request'[q].tab = request[q].tab /\ request'[q].attempt = request[q].attempt
      BY <1>1, <1>4, <1>5, <2>1 DEF Holds
    <3>2. page[request[q].tab].refreshing /\ request[q].tab \in Tab
      BY <1>1, <3>1, CallFacts DEF BrowserInv, OneRefresh, Holds
    <3>3. CASE request[q].tab # t
      BY <1>6, <3>1, <3>2, <3>3
    <3>4. CASE request[q].tab = t
      <4>1. q = r
        BY <1>1, <3>1, <3>4 DEF BrowserInv, OneRefresh
      <4>2. t \in Console
        BY <1>4, <1>5, <2>1, <4>1 DEF Holds
      <4>3. QED
        BY <1>2, <1>6, <3>1, <3>2, <3>4, <4>2
    <3>5. QED
      BY <3>3, <3>4
  <2>2. QED
    BY <2>1, RefreshStillOne DEF BrowserInv
<1>9. ASSUME ~crossed', lost' = 0 PROVE KeptInv'
  <2>1. KeptInv
    BY <1>1, <1>9 DEF BrowserInv
  <2>2. /\ RefreshInv(r) /\ store # NoTokens
        /\ \A q \in Request : /\ q # r => q \notin Refreshes /\ request[q].kind # "logout"
                              /\ request[q].kind # "login"
    BY <1>1, <2>1, RefreshFacts
  <2>3. n # None /\ server.grant \in {n, None} /\ store' # NoTokens /\ store'.refresh = n
    BY <1>1, <2>2, PairFacts DEF RefreshInv
  <2>4. \A q \in Request : /\ request'[q].kind = request[q].kind /\ request'[q].tab = request[q].tab
                           /\ q \notin Refreshes'
                           /\ q \in Calls' <=> q \in Calls
    BY <1>1, <1>4, <1>5, <2>2 DEF Refreshes, Calls
  <2>5. Switches' = Switches
    BY <2>4 DEF Switches, Calls
  <2>6. ASSUME NEW q \in Request, request'[q].kind = "logout" PROVE ~signedIn'
    BY <1>1, <2>1, <2>3, <2>4, <2>5, <2>6 DEF KeptInv
  <2>7. (\A q \in Request : /\ request[q].kind = "login" => LoginInv(q)
                            /\ request[q].kind = "logout" => ~signedIn
                            /\ q \in Refreshes => RefreshInv(q))'
    BY <2>2, <2>4, <2>6
  <2>8. \A u \in Tab : page'[u].leaving => \A q \in Calls' : request'[q].tab # u
    <3>1. \A u \in Tab : page[u].leaving => \A q \in Calls : request[q].tab # u
      BY <2>1, <2>2 DEF KeptInv
    <3>2. \A u \in Tab : page'[u].leaving = page[u].leaving
      BY <1>2, <1>6
    <3>3. QED
      BY <2>4, <3>1, <3>2 DEF Calls
  <2>9. ~signedIn' => \E q \in Request : request'[q].kind = "logout"
    BY <1>1, <2>1, <2>2, <2>4 DEF KeptInv
  <2>10. (server.grant # None => store.refresh = server.grant)'
    BY <1>1, <2>3
  <2>11. QED
    BY <2>3, <2>7, <2>8, <2>9, <2>10 DEF KeptInv
<1>10. QED
  BY <1>7, <1>8, <1>9 DEF BrowserInv

LEMMA LandRefusedKeeps ==
  ASSUME BrowserInv, NEW r \in Request, LandRefused(r)
  PROVE  BrowserInv'
<1> DEFINE t == request[r].tab
           leaf == [page[t] EXCEPT !.refreshing = FALSE, !.leaving = TRUE]
           Over == WaitersOf(t) \cup {r}
<1>1. /\ BrowserRows /\ request[r].step = "refused" /\ request[r] \in CallRow
      /\ t \in Tab /\ page[t] \in PageRow /\ page \in [Tab -> PageRow]
      /\ r \in Refreshes /\ Holds(r)
      /\ store' = NoTokens /\ UNCHANGED <<tabs, server, lost>>
      /\ signedIn' = (signedIn /\ ~(\E q \in Over : LogsOut(request[q]))) /\ signedIn' \in BOOLEAN
      /\ crossed' \in BOOLEAN /\ (crossed => crossed')
      /\ request' = [q \in Request |-> IF q \in Over THEN After(request[q]) ELSE request[q]]
  BY CallFacts DEF BrowserInv, BrowserRows, LandRefused, Holds
<1>2. leaf \in PageRow /\ page' = [page EXCEPT ![t] = leaf]
  <2>1. leaf \in PageRow
    BY <1>1 DEF PageRow
  <2>2. page' = [page EXCEPT ![t].refreshing = FALSE, ![t].leaving = TRUE]
    BY DEF LandRefused
  <2>3. page' = [page EXCEPT ![t] = leaf]
    BY <1>1, <2>2
  <2>4. QED
    BY <2>1, <2>3
<1>3. \A q \in Request : /\ request'[q] = (IF q \in Over THEN After(request[q]) ELSE request[q])
                         /\ q \in Over => request[q].step # "idle" /\ (q = r \/ request[q].step = "wait")
  BY <1>1 DEF WaitersOf
<1> HIDE DEF leaf, Over
<1>4. /\ page' \in [Tab -> PageRow]
      /\ \A u \in Tab : u # t => page'[u] = page[u]
  BY <1>1, <1>2
<1>5. r \in Over
  BY DEF Over
<1>6. BrowserRows'
  <2>0. ASSUME NEW q \in Request
        PROVE  /\ request'[q] \in CallRow
               /\ IF request'[q].step = "idle" THEN request'[q] = Rest ELSE request'[q].tab \in Tab
    <3>1. CASE q \in Over
      BY <1>1, <1>3, <3>1, AfterRow, CallFacts
    <3>2. CASE q \notin Over
      BY <1>1, <1>3, <3>2 DEF BrowserRows
    <3>3. QED
      BY <3>1, <3>2
  <2>1. request' \in [Request -> CallRow]
    BY <1>1, <1>3, <2>0
  <2>3. QED
    BY <1>1, <1>4, <2>0, <2>1, StoreFacts DEF BrowserRows
<1>7. OneRefresh'
  <2>1. ASSUME NEW q \in Request, Holds(q)'
        PROVE  /\ Holds(q) /\ request'[q].tab = request[q].tab /\ request'[q].attempt = request[q].attempt
               /\ page'[request[q].tab].refreshing
    <3>1. Holds(q) /\ request'[q] = request[q] /\ q # r
      BY <1>1, <1>3, <1>5, <2>1, AfterRow DEF Holds
    <3>2. page[request[q].tab].refreshing /\ request[q].tab \in Tab
      BY <1>1, <3>1, CallFacts DEF BrowserInv, OneRefresh, Holds
    <3>3. request[q].tab # t
      BY <1>1, <3>1 DEF BrowserInv, OneRefresh
    <3>4. QED
      BY <1>4, <3>1, <3>2, <3>3
  <2>2. QED
    BY <2>1, RefreshStillOne DEF BrowserInv
<1>8. ASSUME ~crossed', lost' = 0 PROVE KeptInv'
  <2>1. KeptInv
    BY <1>1, <1>8 DEF BrowserInv
  <2>2. /\ RefreshInv(r)
        /\ \A q \in Request : /\ q # r => q \notin Refreshes
                              /\ request[q].kind # "login"
    BY <1>1, <2>1, RefreshFacts
  <2>3. server'.grant = None
    BY <1>1, <2>2 DEF RefreshInv
  <2>4. ASSUME NEW q \in Request
        PROVE  /\ request'[q].kind # "login" /\ request'[q].step \notin {"asked", "renewed", "refused"}
               /\ request'[q].kind = "logout" => ~signedIn'
    <3>1. CASE q \in Over
      BY <1>1, <1>3, <3>1, AfterRow
    <3>2. CASE q \notin Over
      BY <1>1, <1>3, <1>5, <2>1, <2>2, <3>2 DEF KeptInv, Refreshes
    <3>3. QED
      BY <3>1, <3>2
  <2>5. QED
    BY <1>1, <2>3, <2>4, EmptiedKept
<1>9. QED
  BY <1>6, <1>7, <1>8 DEF BrowserInv

LEMMA ReloadKeeps ==
  ASSUME BrowserInv, NEW t \in Tab, Reload(t)
  PROVE  BrowserInv'
<1> DEFINE leaf == [Closed EXCEPT !.token = store.access]
<1>1. /\ BrowserRows /\ page[t].leaving /\ page \in [Tab -> PageRow]
      /\ request' = [q \in Request |-> IF request[q].tab = t THEN Rest ELSE request[q]]
      /\ UNCHANGED <<tabs, store, server, signedIn, crossed, lost>>
  BY DEF BrowserInv, BrowserRows, Reload
<1>2. leaf \in PageRow /\ ~leaf.leaving /\ page' = [page EXCEPT ![t] = leaf]
  BY <1>1, StoreFacts, NumberFacts DEF PageRow, Closed, Reload
<1> HIDE DEF leaf
<1>3. /\ page' \in [Tab -> PageRow] /\ page'[t] = leaf
      /\ \A u \in Tab : u # t => page'[u] = page[u]
  BY <1>1, <1>2
<1>4. \A q \in Request : request'[q] = (IF request[q].tab = t THEN Rest ELSE request[q])
  BY <1>1
<1>5. BrowserRows'
  <2>1. request' \in [Request -> CallRow]
    BY <1>1, RestFacts DEF BrowserRows
  <2>2. \A q \in Request : IF request'[q].step = "idle" THEN request'[q] = Rest
                                                        ELSE request'[q].tab \in Tab
    BY <1>1, <1>4, RestFacts DEF BrowserRows
  <2>3. QED
    BY <1>1, <1>3, <2>1, <2>2 DEF BrowserRows
<1>6. OneRefresh'
  <2>1. ASSUME NEW q \in Request, Holds(q)'
        PROVE  /\ Holds(q) /\ request'[q] = request[q] /\ page'[request[q].tab].refreshing
    <3>1. Holds(q) /\ request'[q] = request[q] /\ request[q].tab # t
      BY <1>4, <2>1, RestFacts DEF Holds
    <3>2. page[request[q].tab].refreshing /\ request[q].tab \in Tab
      BY <1>1, <3>1, CallFacts DEF BrowserInv, OneRefresh, Holds
    <3>3. QED
      BY <1>3, <3>1, <3>2
  <2>2. QED
    BY <2>1, RefreshStillOne DEF BrowserInv
<1>7. ASSUME ~crossed', lost' = 0 PROVE KeptInv'
  <2>1. KeptInv
    BY <1>1, <1>7 DEF BrowserInv
  <2>2. ASSUME NEW q \in Request, request[q].tab = t
        PROVE  /\ request[q].kind # "login" /\ store = NoTokens
               /\ request[q].step \notin {"asked", "renewed", "refused"}
    <3>1. q \in Calls
      BY <1>1, <2>2, CallFacts
    <3>2. store = NoTokens
      BY <1>1, <2>1, <2>2, <3>1 DEF KeptInv
    <3>3. request[q].kind # "login"
      BY <1>1, <2>1, <2>2 DEF KeptInv, LoginInv
    <3>4. q \notin Refreshes
      BY <2>1, <3>2 DEF KeptInv, RefreshInv
    <3>5. QED
      BY <1>1, <3>2, <3>3, <3>4, CallFacts
  <2>3. \A q \in Request : request'[q] = request[q] \/
           (/\ request[q].kind # "login" /\ request'[q].kind = "data" /\ store = NoTokens
            /\ request[q].step \notin {"asked", "renewed", "refused"}
            /\ request'[q].step \notin {"asked", "renewed", "refused"}
            /\ request'[q].step = "idle")
    BY <1>4, <2>2, RestFacts
  <2>4. server'.grant \in {server.grant, None}
    BY <1>1
  <2>5. \A u \in Tab : page'[u].leaving => page[u].leaving
    BY <1>2, <1>3
  <2>6. QED
    BY <1>1, <1>5, <2>1, <2>3, <2>4, <2>5, StillKept
<1>8. QED
  BY <1>5, <1>6, <1>7 DEF BrowserInv

LEMMA SignInKeeps ==
  ASSUME BrowserInv, NEW r \in Request, NEW t \in Tab, SignIn(r, t)
  PROVE  BrowserInv'
<1> DEFINE n == server.minted + 1
           row == [step |-> "signed", tab |-> t, kind |-> "login", token |-> n, attempt |-> "first"]
<1>1. /\ BrowserRows /\ request[r].step = "idle" /\ ~page[t].leaving /\ store = NoTokens
      /\ server \in [live : SUBSET Number, grant : Number, minted : Number]
      /\ server.minted < MaxMinted
      /\ server' = [live |-> server.live \cup {n}, grant |-> n, minted |-> n]
      /\ request' = [request EXCEPT ![r] = row]
      /\ crossed' = (crossed \/ Calls # {}) /\ crossed' \in BOOLEAN
      /\ UNCHANGED <<tabs, store, page, signedIn, lost>>
  BY CallFacts, StoreFacts DEF BrowserInv, BrowserRows, SignIn
<1>2. n \in Number /\ n # None /\ server.live \subseteq Number
  BY <1>1, NumberFacts
<1> HIDE DEF n
<1>3. row \in CallRow /\ row.step = "signed" /\ row.kind = "login" /\ row.tab = t /\ row.attempt = "first"
      /\ row.token = n
  BY <1>2 DEF CallRow, Step
<1> HIDE DEF row
<1>4. /\ request' \in [Request -> CallRow] /\ request'[r] = row
      /\ \A q \in Request : q # r => request'[q] = request[q]
      /\ \A q \in Request : IF request'[q].step = "idle" THEN request'[q] = Rest
                                                         ELSE request'[q].tab \in Tab
  BY <1>1, <1>3, OneCallMoves
<1>5. server' \in [live : SUBSET Number, grant : Number, minted : Number] /\ server'.grant = n
  BY <1>1, <1>2
<1>6. BrowserRows'
  BY <1>1, <1>4, <1>5 DEF BrowserRows
<1>7. OneRefresh'
  <2>1. ASSUME NEW q \in Request, Holds(q)'
        PROVE  Holds(q) /\ request'[q] = request[q]
    BY <1>3, <1>4, <2>1 DEF Holds
  <2>2. \A q \in Request : Holds(q) => page[request[q].tab].refreshing
    BY DEF BrowserInv, OneRefresh
  <2>3. QED
    BY <1>1, <2>1, <2>2, RefreshStillOne DEF BrowserInv
<1>8. ASSUME ~crossed', lost' = 0 PROVE KeptInv'
  <2>1. Calls = {}
    BY <1>1, <1>8
  <2>2. \A q \in Request : q # r => request'[q] = Rest
    BY <1>1, <1>4, <2>1, CallFacts
  <2>3. Calls' = {r}
    <3>1. \A q \in Request : q \in Calls' <=> q = r
      BY <1>3, <1>4, <2>2, RestFacts DEF Calls
    <3>2. QED
      BY <3>1 DEF Calls
  <2>4. LoginInv(r)'
    BY <1>1, <1>2, <1>3, <1>4, <1>5, <2>3 DEF LoginInv
  <2>5. \A q \in Request : /\ request'[q].kind = "login" => q = r
                           /\ request'[q].kind # "logout" /\ q \notin Refreshes'
    BY <1>3, <1>4, <2>2, RestFacts DEF Refreshes
  <2>6. \E q \in Request : request'[q].kind = "login"
    BY <1>3, <1>4
  <2>7. QED
    BY <1>1, <2>4, <2>5, <2>6 DEF KeptInv
<1>9. QED
  BY <1>6, <1>7, <1>8 DEF BrowserInv

LEMMA FinishLoginKeeps ==
  ASSUME BrowserInv, SignedInv, NEW r \in Request, FinishLogin(r)
  PROVE  BrowserInv'
<1> DEFINE n == request[r].token
           t == request[r].tab
           leaf == [page[t] EXCEPT !.token = n]
<1>1. /\ BrowserRows /\ request[r].step = "signed" /\ t \in Tab /\ page[t] \in PageRow /\ n \in Number
      /\ page \in [Tab -> PageRow]
      /\ store' = Pair(n) /\ request' = [request EXCEPT ![r] = Rest] /\ signedIn' = TRUE
      /\ page' = [page EXCEPT ![t].token = n]
      /\ UNCHANGED <<tabs, server, crossed, lost>>
  BY CallFacts DEF BrowserInv, BrowserRows, FinishLogin
<1>2. /\ leaf \in PageRow /\ leaf.refreshing = page[t].refreshing /\ leaf.leaving = page[t].leaving
      /\ page' = [page EXCEPT ![t] = leaf]
  BY <1>1 DEF PageRow
<1> HIDE DEF leaf
<1>3. /\ page' \in [Tab -> PageRow]
      /\ \A u \in Tab : /\ page'[u].refreshing = page[u].refreshing
                        /\ page'[u].leaving = page[u].leaving
  BY <1>1, <1>2
<1>4. /\ request' \in [Request -> CallRow] /\ request'[r] = Rest
      /\ \A q \in Request : q # r => request'[q] = request[q]
      /\ \A q \in Request : IF request'[q].step = "idle" THEN request'[q] = Rest
                                                         ELSE request'[q].tab \in Tab
      /\ ~Holds(r)' /\ \A q \in Request : q # r => (Holds(q)' <=> Holds(q))
  BY <1>1, CallEnds
<1>5. BrowserRows'
  BY <1>1, <1>3, <1>4, PairFacts DEF BrowserRows
<1>6. OneRefresh'
  <2>1. ASSUME NEW q \in Request, Holds(q)'
        PROVE  /\ Holds(q) /\ request'[q] = request[q] /\ page'[request[q].tab].refreshing
    <3>1. q # r /\ Holds(q) /\ request'[q] = request[q]
      BY <1>4, <2>1
    <3>2. page[request[q].tab].refreshing /\ request[q].tab \in Tab
      BY <1>1, <3>1, CallFacts DEF BrowserInv, OneRefresh, Holds
    <3>3. QED
      BY <1>3, <3>1, <3>2
  <2>2. QED
    BY <2>1, RefreshStillOne DEF BrowserInv
<1>7. ASSUME ~crossed', lost' = 0 PROVE KeptInv'
  <2>1. KeptInv
    BY <1>1, <1>7 DEF BrowserInv
  <2>2. LoginInv(r)
    BY <1>1, <2>1 DEF SignedInv, KeptInv
  <2>3. n # None /\ server'.grant \in {n, None} /\ store'.refresh = n /\ store' # NoTokens
    BY <1>1, <2>2, PairFacts DEF LoginInv
  <2>4. \A q \in Request : request'[q] = Rest
    BY <1>1, <1>4, <2>2, CallFacts DEF LoginInv
  <2>5. \A u \in Tab : page'[u].leaving => \A q \in Calls' : request'[q].tab # u
    BY <2>4, RestFacts DEF Calls
  <2>6. \A q \in Request : request'[q].kind = "data" /\ q \notin Refreshes'
    BY <2>4, RestFacts DEF Refreshes
  <2>7. QED
    BY <1>1, <2>3, <2>5, <2>6 DEF KeptInv
<1>8. QED
  BY <1>5, <1>6, <1>7 DEF BrowserInv

(* Only sign-ins are ever "signed".                                                            *)
LEMMA SignedKept == BrowserRows /\ SignedInv /\ [BrowserNext]_browserVars => SignedInv'
<1> SUFFICES ASSUME BrowserRows, SignedInv, [BrowserNext]_browserVars PROVE SignedInv'
  OBVIOUS
<1>0. request \in [Request -> CallRow]
  BY DEF BrowserRows
<1>1. ASSUME NEW r \in Request, NEW row \in CallRow, request' = [request EXCEPT ![r] = row],
             row.step = "signed" => row.kind = "login"
      PROVE  SignedInv'
  BY <1>0, <1>1 DEF SignedInv
<1>2. ASSUME NEW r \in Request, NEW step \in {"ok", "failed", "denied", "asked", "refused", "renewed"},
             \/ request' = [request EXCEPT ![r].step = step]
             \/ \E n \in Number : request' = [request EXCEPT ![r].step = step, ![r].token = n]
             \/ \E n \in Number : request' = [request EXCEPT ![r].step = step, ![r].token = n,
                                                            ![r].attempt = "owner"]
      PROVE  SignedInv'
  <2>1. \A q \in Request : q # r => request'[q] = request[q]
    BY <1>0, <1>2
  <2>2. request'[r].step = step
    <3>0. request[r] \in CallRow
      BY <1>0
    <3>1. CASE request' = [request EXCEPT ![r].step = step]
      BY <1>0, <3>0, <3>1 DEF CallRow
    <3>2. ASSUME NEW n \in Number, request' = [request EXCEPT ![r].step = step, ![r].token = n]
          PROVE  request'[r].step = step
      BY <1>0, <3>0, <3>2 DEF CallRow
    <3>3. ASSUME NEW n \in Number,
                 request' = [request EXCEPT ![r].step = step, ![r].token = n, ![r].attempt = "owner"]
          PROVE  request'[r].step = step
      BY <1>0, <3>0, <3>3 DEF CallRow
    <3>4. QED
      BY <1>2, <3>1, <3>2, <3>3
  <2>3. QED
    BY <2>1, <2>2 DEF SignedInv
<1>3. ASSUME NEW r \in Request, NEW t \in Tab, NEW what \in {"data", "check", "logout"}, Send(r, t, what)
      PROVE  SignedInv'
  <2> DEFINE row == [step |-> "sent", tab |-> t, kind |-> what, attempt |-> "first",
                     token |-> IF t \in Example /\ what = "logout" THEN page[t].token ELSE store.access]
  <2>1. request' = [request EXCEPT ![r] = row] /\ row.step = "sent"
    BY <1>3 DEF Send
  <2> HIDE DEF row
  <2>2. QED
    BY <1>0, <2>1 DEF SignedInv
<1>4. ASSUME NEW r \in Request, NEW t \in Tab, SignIn(r, t)
      PROVE  SignedInv'
  <2> DEFINE row == [step |-> "signed", tab |-> t, kind |-> "login",
                     token |-> server.minted + 1, attempt |-> "first"]
  <2>1. request' = [request EXCEPT ![r] = row] /\ row.kind = "login"
    BY <1>4 DEF SignIn
  <2> HIDE DEF row
  <2>2. QED
    BY <1>0, <2>1 DEF SignedInv
<1>5. ASSUME NEW r \in Request, Judge(r) \/ Fail(r) PROVE SignedInv'
  BY <1>2, <1>5 DEF Judge, Fail
<1>6. ASSUME NEW r \in Request, Settle(r) \/ FinishLogin(r) \/ CheckFails(r) \/ GiveUp(r) PROVE SignedInv'
  <2>1. CASE request' = [request EXCEPT ![r] = Rest]
    BY <1>1, <2>1, RestFacts
  <2>2. CASE request' = [request EXCEPT ![r] = After(request[r])] /\ request[r].step # "idle"
    BY <1>1, <2>2, AfterRow
  <2>3. QED
    BY <1>6, <2>1, <2>2 DEF Settle, FinishLogin, CheckFails, GiveUp, Final, Unauthorized
<1>7. ASSUME NEW r \in Request, Join(r) PROVE SignedInv'
  <2> DEFINE row == IF page[request[r].tab].got = None THEN [request[r] EXCEPT !.step = "wait"]
                    ELSE [request[r] EXCEPT !.step = "sent", !.token = page[request[r].tab].got,
                                            !.attempt = "again"]
  <2>1. request' = [request EXCEPT ![r] = row]
    BY <1>7 DEF Join
  <2>2. row.step \in {"wait", "sent"}
    BY <1>0 DEF CallRow
  <2> HIDE DEF row
  <2>3. QED
    BY <1>0, <2>1, <2>2 DEF SignedInv
<1>8. ASSUME NEW r \in Request, StartRefresh(r) PROVE SignedInv'
  BY <1>2, <1>8, StoreFacts DEF StartRefresh
<1>9. ASSUME NEW r \in Request, Renew(r) PROVE SignedInv'
  <2>1. CASE request' = [request EXCEPT ![r].step = "refused"]
    BY <1>2, <2>1
  <2>2. CASE /\ server.minted < MaxMinted
             /\ request' = [request EXCEPT ![r].step = "renewed", ![r].token = server.minted + 1]
    <3>1. server.minted + 1 \in Number
      BY <2>2, NumberFacts DEF BrowserRows
    <3>2. QED
      BY <1>2, <2>2, <3>1
  <2>3. QED
    BY <1>9, <2>1, <2>2 DEF Renew
<1>10. ASSUME NEW r \in Request, LoseRefresh(r) PROVE SignedInv'
  BY <1>2, <1>10, NumberFacts DEF LoseRefresh
<1>11. ASSUME NEW r \in Request, LandRenewed(r) PROVE SignedInv'
  BY <1>0, <1>11 DEF LandRenewed, WaitersOf, SignedInv, CallRow
<1>12. ASSUME NEW r \in Request, LandRefused(r) PROVE SignedInv'
  <2>1. ASSUME NEW q \in Request PROVE request'[q].step = "signed" => request'[q] = request[q]
    <3>1. CASE q \in WaitersOf(request[r].tab) \cup {r}
      <4>1. request[q].step # "idle" /\ request'[q] = After(request[q])
        BY <1>12, <3>1 DEF LandRefused, WaitersOf
      <4>2. QED
        BY <4>1, AfterRow
    <3>2. CASE q \notin WaitersOf(request[r].tab) \cup {r}
      BY <1>12, <3>2 DEF LandRefused
    <3>3. QED
      BY <3>1, <3>2
  <2>2. QED
    BY <2>1 DEF SignedInv
<1>13. ASSUME NEW t \in Tab, Reload(t) PROVE SignedInv'
  BY <1>0, <1>13, RestFacts DEF Reload, SignedInv
<1>14. CASE Expire \/ EndElsewhere \/ UNCHANGED browserVars
  BY <1>14 DEF Expire, EndElsewhere, browserVars, SignedInv
<1>15. QED
  BY <1>3, <1>4, <1>5, <1>6, <1>7, <1>8, <1>9, <1>10, <1>11, <1>12, <1>13, <1>14 DEF BrowserNext

(* Steps that only the server takes, or none.                                                 *)
LEMMA ServerKeeps ==
  ASSUME BrowserInv, Expire \/ EndElsewhere \/ UNCHANGED browserVars
  PROVE  BrowserInv'
<1>1. /\ BrowserRows /\ UNCHANGED <<tabs, store, page, request, signedIn, crossed, lost>>
      /\ server \in [live : SUBSET Number, grant : Number, minted : Number]
  BY DEF BrowserInv, BrowserRows, Expire, EndElsewhere, browserVars
<1>2. /\ server' \in [live : SUBSET Number, grant : Number, minted : Number]
      /\ server'.grant \in {server.grant, None}
  <2>1. CASE Expire
    BY <1>1, <2>1 DEF Expire
  <2>2. CASE EndElsewhere
    BY <1>1, <2>2, NumberFacts DEF EndElsewhere
  <2>3. CASE UNCHANGED browserVars
    BY <1>1, <2>3 DEF browserVars
  <2>4. QED
    BY <2>1, <2>2, <2>3
<1>3. BrowserRows'
  BY <1>1, <1>2 DEF BrowserRows
<1>4. OneRefresh'
  BY <1>1 DEF BrowserInv, OneRefresh, Holds
<1>5. ASSUME ~crossed', lost' = 0 PROVE KeptInv'
  <2>1. KeptInv
    BY <1>1, <1>5 DEF BrowserInv
  <2>2. QED
    BY <1>1, <1>2, <1>3, <2>1, StillKept
<1>6. QED
  BY <1>3, <1>4, <1>5 DEF BrowserInv

LEMMA BrowserStarts == BrowserInit => BrowserInv /\ SignedInv
<1> SUFFICES ASSUME BrowserInit PROVE BrowserInv /\ SignedInv
  OBVIOUS
<1>1. /\ \A r \in Request : request[r] = Rest
      /\ request \in [Request -> CallRow]
  BY RestFacts DEF BrowserInit
<1>2. page \in [Tab -> PageRow] /\ \A t \in Tab : ~page[t].leaving
  <2>1. Closed \in PageRow /\ [Closed EXCEPT !.token = 1] \in PageRow
        /\ ~Closed.leaving /\ ~[Closed EXCEPT !.token = 1].leaving
    BY NumberFacts DEF Closed, PageRow
  <2> HIDE DEF PageRow
  <2>2. QED
    BY <2>1 DEF BrowserInit
<1>3. /\ server \in [live : SUBSET Number, grant : Number, minted : Number] /\ server.grant = 1
      /\ lost \in 0 .. MaxLost /\ 1 # None
  BY NumberFacts, BrowserAssumption DEF BrowserInit
<1>4. store = Pair(1) /\ signedIn = TRUE /\ crossed = FALSE /\ tabs \in TabCases
  BY DEF BrowserInit
<1>5. BrowserRows
  BY <1>1, <1>2, <1>3, <1>4, NumberFacts, PairFacts, RestFacts DEF BrowserRows
<1>6. OneRefresh
  BY <1>1, RestFacts DEF OneRefresh, Holds
<1>7. KeptInv
  BY <1>1, <1>2, <1>3, <1>4, NumberFacts, PairFacts, RestFacts DEF KeptInv, Refreshes
<1>8. SignedInv
  BY <1>1, RestFacts DEF SignedInv
<1>9. QED
  BY <1>5, <1>6, <1>7, <1>8 DEF BrowserInv

LEMMA BrowserMoves == BrowserInv /\ SignedInv /\ [BrowserNext]_browserVars => BrowserInv' /\ SignedInv'
<1> SUFFICES ASSUME BrowserInv, SignedInv, [BrowserNext]_browserVars PROVE BrowserInv' /\ SignedInv'
  OBVIOUS
<1>1. SignedInv'
  BY SignedKept DEF BrowserInv
<1>2. CASE \E r \in Request, t \in Tab : SignIn(r, t)
  BY <1>1, <1>2, SignInKeeps
<1>3. CASE \E r \in Request, t \in Tab : \E kind \in {"data", "check", "logout"} : Send(r, t, kind)
  BY <1>1, <1>3, SendDataKeeps, SendLogoutKeeps
<1>4. CASE \E r \in Request : Judge(r) \/ Fail(r) \/ Settle(r) \/ CheckFails(r) \/ Join(r)
  BY <1>1, <1>4, AnswerKeeps, SettleKeeps, CheckFailsKeeps, JoinKeeps
<1>5. CASE \E r \in Request : StartRefresh(r) \/ GiveUp(r) \/ Renew(r)
  BY <1>1, <1>5, StartRefreshKeeps, GiveUpKeeps, RenewKeeps
<1>6. CASE \E r \in Request : LoseRefresh(r) \/ LandRenewed(r) \/ LandRefused(r)
  BY <1>1, <1>6, LoseRefreshKeeps, LandRenewedKeeps, LandRefusedKeeps
<1>7. CASE \E r \in Request : FinishLogin(r)
  BY <1>1, <1>7, FinishLoginKeeps
<1>8. CASE \E t \in Tab : Reload(t)
  BY <1>1, <1>8, ReloadKeeps
<1>9. CASE Expire \/ EndElsewhere \/ UNCHANGED browserVars
  BY <1>1, <1>9, ServerKeeps
<1>10. BrowserInv'
  BY <1>2, <1>3, <1>4, <1>5, <1>6, <1>7, <1>8, <1>9 DEF BrowserNext
<1>11. QED
  BY <1>1, <1>10

(* Always: what a browser has under way and what it stores fit what the server has.           *)
THEOREM BrowserInvHolds == BrowserSpec => [](BrowserInv /\ SignedInv)
<1>1. QED
  BY BrowserStarts, BrowserMoves, PTL DEF BrowserSpec

(* The rows of the invariant are the declared types.                                          *)
LEMMA BrowserTyped == BrowserInv => BrowserTypeOK
BY DEF BrowserInv, BrowserRows, BrowserTypeOK, PageRow, CallRow

(* At rest nothing is under way, and what is left of the invariant is the promise.            *)
LEMMA TokensKept == BrowserInv => BrowserKeepsTokens
<1> SUFFICES ASSUME BrowserInv PROVE BrowserKeepsTokens
  OBVIOUS
<1>1. ASSUME Quiet PROVE /\ signedIn /\ server.grant # None => store.refresh = server.grant
                         /\ ~signedIn => store = NoTokens
  <2>1. KeptInv
    BY <1>1 DEF BrowserInv, Quiet
  <2>2. \A r \in Request : /\ request[r].kind \notin {"logout", "login"} /\ request[r].step # "renewed"
    <3>1. \A r \in Request : r \notin Switches /\ r \notin Refreshes
      BY <1>1 DEF Quiet
    <3>2. \A r \in Request : request[r].kind \notin {"logout", "login"}
      BY <3>1, CallFacts DEF BrowserInv
    <3>3. \A r \in Request : request[r].step # "renewed"
      BY <3>1, CallFacts DEF BrowserInv
    <3>4. QED
      BY <3>2, <3>3
  <2>3. QED
    BY <2>1, <2>2 DEF KeptInv
<1>2. QED
  BY <1>1 DEF BrowserKeepsTokens, StaysSignedIn, StaysSignedOut

(* Whatever tabs load, check, refresh, sign in and out together: with nothing under way and      *)
(* nothing crossed or lost, a browser that is signed in stores the refresh token the server's grant     *)
(* goes by, and one that is signed out stores none.                                             *)
THEOREM BrowserKeepsTokensTheorem == BrowserSpec => []BrowserKeepsTokens
<1>1. QED
  BY BrowserInvHolds, TokensKept, PTL
================================================================================
