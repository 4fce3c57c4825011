------------------------------ MODULE Captcha ------------------------------
(* The slider captcha in front of POST /login: the counter of wrong passwords that  *)
(* calls for it, challenges with their attempts, passes that admit one login, and    *)
(* the fixed-window limiter in front of the challenges.                               *)
(*                                                                                    *)
(* All of it lives in the cache; a step is one cache call.  Whether a puzzle was      *)
(* solved is the caller's choice.  Counting wrong passwords is fired and not awaited  *)
(* by the login.                                                                      *)
EXTENDS Naturals, FiniteSets

CONSTANTS Caller,        \* requests to /captcha/verify and /login
          Puzzle,        \* challenge ids; a pass is named by its puzzle
          Identity,      \* ip + tenant + username
          Threshold,     \* CAPTCHA_CONFIG.triggerThreshold
          MaxSolves,     \* CAPTCHA_CONFIG.maxVerifyAttempts
          PuzzleLimit,   \* limit of captchaChallengeRateLimit
          MaxWindows     \* bound on the windows of the limiter

ASSUME CaptchaAssumption == {Threshold, MaxSolves, PuzzleLimit, MaxWindows} \subseteq Nat \ {0}
ASSUME SomePuzzleAssumption == Puzzle # {} /\ Identity # {}

VARIABLES
  failures, \* captcha_fail:<identity>
  puzzle,   \* captcha_challenge:<id>; left = 0: no such key
  pass,     \* captcha_pass:<id>
  hits,     \* the limiter's counter and the windows that have passed
  caller,   \* next step and local variables of each request
  solved,   \* history: passes and wrong answers each puzzle yielded
  entered,  \* history: logins let through while a captcha was demanded
  shared    \* history: passes that two logins read before either deleted them

captchaVars == <<failures, puzzle, pass, hits, caller, solved, entered, shared>>

NoCaller == [at |-> "idle", id |-> CHOOSE i \in Identity : TRUE,
             p |-> CHOOSE p \in Puzzle : TRUE, left |-> 0]

CaptchaTypeOK ==
  /\ failures \in [Identity -> 0..Threshold]
  /\ puzzle \in [Puzzle -> [left : 0..MaxSolves, of : Identity, fresh : BOOLEAN]]
  /\ pass \in [Puzzle -> {"none", "live", "gone"}]
  /\ hits \in [n : 0..PuzzleLimit + 1, window : 0..MaxWindows]
  /\ caller \in [Caller -> [at : {"idle", "judge", "grant", "guard", "spend", "password", "done"},
                            id : Identity, p : Puzzle, left : 0..MaxSolves]]
  /\ solved \in [Puzzle -> [passes : Nat, wrong : Nat, raced : BOOLEAN]]
  /\ entered \in [Puzzle -> Nat]
  /\ shared \subseteq Puzzle

CaptchaInit ==
  /\ failures \in [Identity -> {Threshold - 1, Threshold}]
  /\ puzzle = [p \in Puzzle |-> [left |-> 0, of |-> CHOOSE i \in Identity : TRUE, fresh |-> TRUE]]
  /\ pass = [p \in Puzzle |-> "none"]
  /\ hits = [n |-> 0, window |-> 0]
  /\ caller = [c \in Caller |-> NoCaller]
  /\ solved = [p \in Puzzle |-> [passes |-> 0, wrong |-> 0, raced |-> FALSE]]
  /\ entered = [p \in Puzzle |-> 0]
  /\ shared = {}

Stands(c, step) == caller[c].at = step
Leave(c) == caller' = [caller EXCEPT ![c] = [NoCaller EXCEPT !.at = "done"]]

-----------------------------------------------------------------------------
(* Challenges *)

(* POST /captcha/challenge: INCR in the window, then the puzzle's key.  Requests over    *)
(* the limit count as well; the counter is cut off one above it.                         *)
IssuePuzzle(p, i) ==
  /\ puzzle[p].fresh
  /\ IF hits.n >= PuzzleLimit
       THEN hits' = [hits EXCEPT !.n = PuzzleLimit + 1] /\ UNCHANGED puzzle
       ELSE /\ hits' = [hits EXCEPT !.n = @ + 1]
            /\ puzzle' = [puzzle EXCEPT ![p] = [left |-> MaxSolves, of |-> i, fresh |-> FALSE]]
  /\ UNCHANGED <<failures, pass, caller, solved, entered, shared>>

(* EXPIRE was set by the first INCR of the window.                                       *)
WindowEnds ==
  /\ hits.n > 0 /\ hits.window < MaxWindows
  /\ hits' = [n |-> 0, window |-> hits.window + 1]
  /\ UNCHANGED <<failures, puzzle, pass, caller, solved, entered, shared>>

Solving(p) == {c \in Caller : Stands(c, "judge") /\ caller[c].p = p}

(* POST /captcha/verify: get, judge, then del or set.                                    *)
ReadPuzzle(c, p) ==
  /\ Stands(c, "idle") /\ puzzle[p].left > 0
  /\ caller' = [caller EXCEPT ![c] = [at |-> "judge", id |-> puzzle[p].of,
                                      p |-> p, left |-> puzzle[p].left]]
  /\ solved' = [solved EXCEPT ![p].raced = @ \/ Solving(p) # {}]
  /\ UNCHANGED <<failures, puzzle, pass, hits, entered, shared>>

(* Mutant: the attempts are not stored.                                                  *)
MissFree(c) ==
  /\ Stands(c, "judge")
  /\ solved' = [solved EXCEPT ![caller[c].p].wrong = @ + 1]
  /\ Leave(c)
  /\ UNCHANGED <<failures, puzzle, pass, hits, entered, shared>>

(* A wrong answer stores the attempts that were read, less one: the key is back if it    *)
(* was burnt in between.                                                                 *)
Miss(c) ==
  /\ Stands(c, "judge")
  /\ puzzle' = [puzzle EXCEPT ![caller[c].p].left = caller[c].left - 1]
  /\ solved' = [solved EXCEPT ![caller[c].p].wrong = @ + 1]
  /\ Leave(c)
  /\ UNCHANGED <<failures, pass, hits, entered, shared>>

Burn(c) ==
  /\ Stands(c, "judge")
  /\ puzzle' = [puzzle EXCEPT ![caller[c].p].left = 0]
  /\ caller' = [caller EXCEPT ![c].at = "grant"]
  /\ UNCHANGED <<failures, pass, hits, solved, entered, shared>>

Grant(c) ==
  /\ Stands(c, "grant")
  /\ pass' = [pass EXCEPT ![caller[c].p] = "live"]
  /\ solved' = [solved EXCEPT ![caller[c].p].passes = @ + 1]
  /\ Leave(c)
  /\ UNCHANGED <<failures, puzzle, hits, entered, shared>>

-----------------------------------------------------------------------------
(* Logins *)

(* captchaGuard in mode enforce: without enough failures there is no captcha.            *)
Arrive(c, i) ==
  /\ Stands(c, "idle")
  /\ caller' = [caller EXCEPT ![c] =
                   [at |-> IF failures[i] < Threshold THEN "password" ELSE "guard",
                    id |-> i, p |-> caller[c].p, left |-> 0]]
  /\ UNCHANGED <<failures, puzzle, pass, hits, solved, entered, shared>>

(* consumeCaptchaPass: getdel, and then whose pass it was.  Redis reads and deletes in    *)
(* one call.  The memory cache, in use without REDIS_URL, awaits its own get() between     *)
(* the two (cache.service.ts:56-57), so another login may read the pass as well.           *)
Spending(p) == {c \in Caller : Stands(c, "spend") /\ caller[c].p = p}

ReadPass(c, p) ==
  /\ Stands(c, "guard")
  /\ IF pass[p] = "live"
       THEN /\ caller' = [caller EXCEPT ![c].at = "spend", ![c].p = p]
            /\ shared' = IF Spending(p) # {} THEN shared \cup {p} ELSE shared
       ELSE Leave(c) /\ UNCHANGED shared
  /\ UNCHANGED <<failures, puzzle, pass, hits, solved, entered>>

(* A pass shown by another identity is spent as well.                                    *)
DropPass(c) ==
  /\ Stands(c, "spend")
  /\ pass' = [pass EXCEPT ![caller[c].p] = "gone"]
  /\ IF puzzle[caller[c].p].of = caller[c].id
       THEN /\ caller' = [caller EXCEPT ![c].at = "password"]
            /\ entered' = [entered EXCEPT ![caller[c].p] = @ + 1]
       ELSE Leave(c) /\ UNCHANGED entered
  /\ UNCHANGED <<failures, puzzle, hits, solved, shared>>

(* The cache does not answer, or the mode is off or shadow: no captcha is asked for.     *)
FailOpen(c) ==
  /\ Stands(c, "guard")
  /\ caller' = [caller EXCEPT ![c].at = "password"]
  /\ UNCHANGED <<failures, puzzle, pass, hits, solved, entered, shared>>

(* recordLoginFailure and clearLoginFailures after the password check; the failures are  *)
(* counted up to the threshold.                                                          *)
CheckPassword(c) ==
  /\ Stands(c, "password")
  /\ \E right \in BOOLEAN :
       failures' = [failures EXCEPT ![caller[c].id] =
                      IF right THEN 0 ELSE IF @ < Threshold THEN @ + 1 ELSE @]
  /\ Leave(c)
  /\ UNCHANGED <<puzzle, pass, hits, solved, entered, shared>>

(* Keys run out.                                                                         *)
KeyExpires ==
  /\ \/ /\ \E i \in Identity : failures[i] > 0 /\ failures' = [failures EXCEPT ![i] = 0]
        /\ UNCHANGED <<puzzle, pass>>
     \/ /\ \E p \in Puzzle : puzzle[p].left > 0 /\ puzzle' = [puzzle EXCEPT ![p].left = 0]
        /\ UNCHANGED <<failures, pass>>
     \/ /\ \E p \in Puzzle : pass[p] = "live" /\ pass' = [pass EXCEPT ![p] = "gone"]
        /\ UNCHANGED <<failures, puzzle>>
  /\ UNCHANGED <<hits, caller, solved, entered, shared>>

CaptchaNext ==
  \/ \E c \in Caller :
       \/ \E p \in Puzzle : ReadPuzzle(c, p) \/ ReadPass(c, p)
       \/ DropPass(c)
       \/ \E i \in Identity : Arrive(c, i)
       \/ Miss(c) \/ Burn(c) \/ Grant(c) \/ FailOpen(c) \/ CheckPassword(c)
  \/ \E p \in Puzzle, i \in Identity : IssuePuzzle(p, i)
  \/ WindowEnds \/ KeyExpires

CaptchaSpec == CaptchaInit /\ [][CaptchaNext]_captchaVars

-----------------------------------------------------------------------------
(* A puzzle is read, judged and written back in separate cache calls: unless two answers *)
(* overlapped it takes MaxSolves wrong answers at most and yields one pass, after which   *)
(* it is burnt; and unless two logins read a pass before either deleted it, it lets one   *)
(* login through for each time it was granted.  The interface promises the latter of      *)
(* every cache (cache.service.ts:10-14); the memory cache does not keep it.               *)
CaptchaHolds ==
  \A p \in Puzzle :
    /\ ~solved[p].raced => solved[p].passes <= 1 /\ solved[p].wrong + solved[p].passes <= MaxSolves
    /\ p \notin shared => entered[p] <= solved[p].passes
=============================================================================
