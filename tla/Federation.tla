----------------------------- MODULE Federation -----------------------------
(* Sign-in through GitHub, an OpenID provider, SAML or LDAP: the state row that      *)
(* carries the browser to the provider and back, the account the foreign identity    *)
(* is linked to, the tokens minted for it, and the code they are fetched with.        *)
(*                                                                                    *)
(* A Visit is one HTTP request; a step is one statement.  Rows are named by the       *)
(* visit that inserted them; Local is an account with a password.  The provider's     *)
(* own checks (code exchange, PKCE, signatures, directory bind) succeed or fail.      *)
(* Whatever else mints or revokes tokens of an account is Elsewhere.                  *)
EXTENDS Naturals, Sequences, SequencesExt, FiniteSets

CONSTANTS Visit,    \* HTTP requests
          Foreign,  \* (provider, provider_user_id) pairs of one tenant
          Attempt,  \* rows of oauth_states
          Email,    \* addresses
          NoEmail,  \* the empty address
          Local,    \* the account that was there before
          Redirect, \* providers that answer through the browser; the others are LDAP
          GitHub,   \* the ones of GitHub, whose callback looks at neither jit nor is_active
          Leaver,   \* accounts that are used elsewhere, sign out or are deactivated meanwhile
          Elsewhere,   \* who mints tokens in /auth/refresh, a password sign-in or a grant
          MaxElsewhere \* bound on those tokens

ASSUME LocalAssumption ==
  /\ Local \notin Visit /\ Elsewhere \notin Visit
  /\ "none" \notin Visit \cup {Local} /\ NoEmail \notin Email
ASSUME SomeAssumption == Foreign # {} /\ Attempt # {}
ASSUME RedirectAssumption == GitHub \subseteq Redirect /\ Redirect \subseteq Foreign
ASSUME LeaverAssumption == Leaver \subseteq Visit \cup {Local} /\ MaxElsewhere \in Nat

VARIABLES
  idp,      \* the provider's settings: jitProvisioning
  state,    \* oauth_states: the identity that is to come back
  proof,    \* the provider's answer to it, assertion or authorization code, is unused
  account,  \* users
  link,     \* linked_accounts; Visit \cup {Local} is linked, "none" is not
  tokens,   \* access_tokens and refresh_tokens in the order of their insertion
  exchange, \* auth_codes of client github-oauth or federation-oauth
  visit,    \* next step and local variables of each visit
  crowded   \* history: visits during which somebody else minted for the same account

federationVars == <<idp, state, proof, account, link, tokens, exchange, visit, crowded>>

Address == Email \cup {NoEmail}
Account == Visit \cup {Local}
Minter == Visit \cup {Elsewhere}
Token == [kind : {"access", "refresh"}, of : Account, by : Minter, live : BOOLEAN]
Steps_ == {"idle", "delete", "prove", "find", "email", "create", "link", "access", "refresh",
           "code", "signed", "burn", "newestAccess", "newestRefresh", "handed", "failed"}
Blank == [at |-> "idle", who |-> CHOOSE i \in Foreign : TRUE, row |-> CHOOSE s \in Attempt : TRUE,
          from |-> Local, as |-> Local, email |-> NoEmail, access |-> {}, refresh |-> {}]

FederationTypeOK ==
  /\ idp \in [jit : BOOLEAN]
  /\ state \in [Attempt -> Redirect \cup {"none", "gone"}]
  /\ proof \in [Attempt -> BOOLEAN]
  /\ account \in [Account -> [there : BOOLEAN, active : BOOLEAN, email : Address]]
  /\ link \in [Foreign -> Account \cup {"none"}]
  /\ tokens \in Seq(Token)
  /\ exchange \in [Visit -> {"none", "live", "gone"}]
  /\ visit \in [Visit -> [at : Steps_, who : Foreign, row : Attempt, from : Account,
                          as : Account, email : Address,
                          access : SUBSET Minter, refresh : SUBSET Minter]]
  /\ crowded \subseteq Visit

FederationInit ==
  /\ idp \in [jit : BOOLEAN]
  /\ state = [s \in Attempt |-> "none"]
  /\ proof = [s \in Attempt |-> TRUE]
  /\ \E e \in Email : account = [a \in Account |-> [there |-> a = Local, active |-> TRUE, email |-> e]]
  /\ link = [i \in Foreign |-> "none"]
  /\ tokens = <<>>
  /\ exchange = [v \in Visit |-> "none"]
  /\ visit = [v \in Visit |-> Blank]
  /\ crowded = {}

On(v, step) == visit[v].at = step
Goto(v, step) == visit' = [visit EXCEPT ![v].at = step]
people == <<account, link>>
issued == <<tokens, exchange>>

-----------------------------------------------------------------------------
(* To the provider and back *)

(* GET .../login.                                                                        *)
InsertState(s, i) ==
  /\ state[s] = "none"
  /\ state' = [state EXCEPT ![s] = i]
  /\ UNCHANGED <<idp, proof, people, issued, visit, crowded>>

(* The callback reads the state row and deletes it, whoever else has read it.            *)
Callback(v, s) ==
  /\ On(v, "idle") /\ state[s] \in Redirect
  /\ visit' = [visit EXCEPT ![v].at = "delete", ![v].row = s, ![v].who = state[s]]
  /\ UNCHANGED <<idp, state, proof, people, issued, crowded>>

DeleteState(v) ==
  /\ On(v, "delete")
  /\ state' = [state EXCEPT ![visit[v].row] = "gone"]
  /\ Goto(v, "prove")
  /\ UNCHANGED <<idp, proof, people, issued, crowded>>

(* saml_assertion_ids has the assertion as its key, and a provider redeems its code once. *)
Prove(v) ==
  /\ On(v, "prove")
  /\ proof' = [proof EXCEPT ![visit[v].row] = FALSE]
  /\ \/ proof[visit[v].row] /\ Goto(v, "find")
     \/ Goto(v, "failed")
  /\ UNCHANGED <<idp, state, people, issued, crowded>>

(* POST .../ldap/login after the directory accepted the password.                        *)
Bind(v, i) ==
  /\ On(v, "idle") /\ i \notin Redirect
  /\ visit' = [visit EXCEPT ![v].at = "find", ![v].who = i]
  /\ UNCHANGED <<idp, state, proof, people, issued, crowded>>

-----------------------------------------------------------------------------
(* findOrLinkUser *)

Welcome(v, a) == visit[v].who \in GitHub \/ account[a].active

FindLink(v) ==
  /\ On(v, "find")
  /\ LET a == link[visit[v].who]
     IN  \/ /\ a = "none"
            /\ \E e \in Address : visit' = [visit EXCEPT ![v].at = "email", ![v].email = e]
         \/ /\ a # "none"
            /\ visit' = [visit EXCEPT ![v].as = a,
                                      ![v].at = IF Welcome(v, a) THEN "access" ELSE "failed"]
  /\ UNCHANGED <<idp, state, proof, people, issued, crowded>>

Holder(e) == {a \in Account : account[a].there /\ account[a].email = e}

(* The address is what this answer of the provider says.  Unless it is verified, and the   *)
(* provider is set to link by it, no account is looked up by it; a new account gets it all  *)
(* the same, the empty one too.                                                            *)
FindByEmail(v) ==
  /\ On(v, "email")
  /\ \E linkByVerifiedEmail \in BOOLEAN :
       LET e == visit[v].email
           found == IF linkByVerifiedEmail /\ e # NoEmail THEN Holder(e) ELSE {}
       IN  \/ \E a \in found : visit' = [visit EXCEPT ![v].at = "link", ![v].as = a]
           \/ found = {} /\ Goto(v, IF visit[v].who \in GitHub \/ idp.jit THEN "create"
                                   ELSE "failed")
  /\ UNCHANGED <<idp, state, proof, people, issued, crowded>>

(* (email, tenant_id) is unique in users.                                                *)
CreateAccount(v) ==
  /\ On(v, "create")
  /\ IF Holder(visit[v].email) = {}
       THEN /\ account' = [account EXCEPT ![v] = [there |-> TRUE, active |-> TRUE,
                                                  email |-> visit[v].email]]
            /\ visit' = [visit EXCEPT ![v].at = "link", ![v].as = v]
       ELSE Goto(v, "failed") /\ UNCHANGED account
  /\ UNCHANGED <<idp, state, proof, link, issued, crowded>>

(* Mutant: (provider, provider_user_id, tenant_id) is not unique.                        *)
InsertAnyLink(v) ==
  /\ On(v, "link")
  /\ link' = [link EXCEPT ![visit[v].who] = visit[v].as]
  /\ Goto(v, IF Welcome(v, visit[v].as) THEN "access" ELSE "failed")
  /\ UNCHANGED <<idp, state, proof, account, issued, crowded>>

(* It is unique: the later of two first sign-ins fails, and leaves its account behind.   *)
InsertLink(v) ==
  /\ On(v, "link")
  /\ IF link[visit[v].who] = "none"
       THEN /\ link' = [link EXCEPT ![visit[v].who] = visit[v].as]
            /\ Goto(v, IF Welcome(v, visit[v].as) THEN "access" ELSE "failed")
       ELSE Goto(v, "failed") /\ UNCHANGED link
  /\ UNCHANGED <<idp, state, proof, account, issued, crowded>>

-----------------------------------------------------------------------------
(* Tokens and the code for them *)

Minting(a) == {w \in Visit : visit[w].as = a /\ visit[w].at \in {"refresh", "code", "signed"}
                             /\ \E n \in DOMAIN tokens : tokens[n].by = w}

(* mintTokensForUser: an access token, then a session and a refresh token.               *)
Mint(v, kind) ==
  /\ On(v, kind)
  /\ tokens' = Append(tokens, [kind |-> kind, of |-> visit[v].as, by |-> v, live |-> TRUE])
  /\ crowded' = crowded \cup (Minting(visit[v].as) \ {v})
  /\ Goto(v, CASE kind = "access" -> "refresh"
               [] kind = "refresh" /\ visit[v].who \in Redirect -> "code"
               [] OTHER -> "handed")
  /\ UNCHANGED <<idp, state, proof, people, exchange>>

IssueCode(v) ==
  /\ On(v, "code")
  /\ exchange' = [exchange EXCEPT ![v] = "live"]
  /\ Goto(v, "signed")
  /\ UNCHANGED <<idp, state, proof, people, tokens, crowded>>

(* POST .../exchange reads the code, deletes it, and takes the newest live tokens of the *)
(* user: the code does not name the ones minted with it.                                 *)
ReadCode(v, w) ==
  /\ On(v, "idle") /\ exchange[w] = "live"
  /\ visit' = [visit EXCEPT ![v].at = "burn", ![v].from = w, ![v].as = visit[w].as]
  /\ UNCHANGED <<idp, state, proof, people, issued, crowded>>

BurnCode(v) ==
  /\ On(v, "burn")
  /\ exchange' = [exchange EXCEPT ![visit[v].from] = "gone"]
  /\ Goto(v, "newestAccess")
  /\ UNCHANGED <<idp, state, proof, people, tokens, crowded>>

Live(kind, a) == {n \in DOMAIN tokens : tokens[n].kind = kind /\ tokens[n].of = a /\ tokens[n].live}

(* Mutant: the rows come in the order of their insertion.                                *)
Oldest(kind, a) == {tokens[n].by : n \in {n \in Live(kind, a) : \A m \in Live(kind, a) : n <= m}}

Newest(kind, a) == {tokens[n].by : n \in {n \in Live(kind, a) : \A m \in Live(kind, a) : m <= n}}

TakeAccess(v) ==
  /\ On(v, "newestAccess")
  /\ visit' = [visit EXCEPT ![v].at = "newestRefresh", ![v].access = Newest("access", visit[v].as)]
  /\ UNCHANGED <<idp, state, proof, people, issued, crowded>>

TakeRefresh(v) ==
  /\ On(v, "newestRefresh")
  /\ LET found == Newest("refresh", visit[v].as)
     IN  visit' = [visit EXCEPT ![v].refresh = found,
                                ![v].at = IF found = {} \/ visit[v].access = {} THEN "failed" ELSE "handed"]
  /\ UNCHANGED <<idp, state, proof, people, issued, crowded>>

-----------------------------------------------------------------------------
(* The account's other life.  It is used elsewhere: /auth/refresh, a password sign-in or a *)
(* grant inserts a token ...                                                              *)
MintElsewhere(a, kind) ==
  /\ account[a].there
  /\ Cardinality({n \in DOMAIN tokens : tokens[n].by = Elsewhere}) < MaxElsewhere
  /\ tokens' = Append(tokens, [kind |-> kind, of |-> a, by |-> Elsewhere, live |-> TRUE])
  /\ crowded' = crowded \cup Minting(a)
  /\ UNCHANGED <<idp, state, proof, people, exchange, visit>>

(* A token somebody was given: a visit's that was answered, or one from elsewhere.        *)
Held(n) ==
  \/ tokens[n].by = Elsewhere
  \/ \E v \in Visit : On(v, "handed") /\ tokens[n].by \in {v} \cup visit[v].access \cup visit[v].refresh

Withdraw(ends) ==
  /\ tokens' = [n \in DOMAIN tokens |-> [tokens[n] EXCEPT !.live = tokens[n].live /\ n \notin ends]]
  /\ UNCHANGED <<idp, state, proof, people, exchange, visit, crowded>>

(* ... and /auth/refresh spends a refresh token, after it inserted the new access token;  *)
(* one from elsewhere also ends with its trusted device, its client or its session.       *)
SpendRefresh(n) ==
  /\ tokens[n].kind = "refresh" /\ tokens[n].live /\ Held(n)
  /\ tokens[n].by # Elsewhere =>
       \E m \in DOMAIN tokens : /\ n < m /\ tokens[m].by = Elsewhere
                            /\ tokens[m].kind = "access" /\ tokens[m].of = tokens[n].of
  /\ Withdraw({n})

(* A sign-out without X-Session-Id, a reset, an administrator: every refresh token.        *)
EndRefresh(a) ==
  /\ Live("refresh", a) # {}
  /\ Withdraw(Live("refresh", a))

(* A sign-out's next step: the access token it came with.                                 *)
RevokeOwn(n) ==
  /\ tokens[n].kind = "access" /\ tokens[n].live /\ Held(n)
  /\ Withdraw({n})

(* PUT /user/password: every access token but the one it came with.                       *)
RevokeOthers(n) ==
  /\ tokens[n].kind = "access" /\ tokens[n].live /\ Held(n)
  /\ Withdraw(Live("access", tokens[n].of) \ {n})

(* A ban, or a forced change: all of them.                                                *)
EndAccess(a) ==
  /\ Live("access", a) # {}
  /\ Withdraw(Live("access", a))

(* It is deactivated; a state row or a code runs out; a request breaks off.               *)
Deactivate(a) ==
  /\ account[a].there /\ account[a].active
  /\ account' = [account EXCEPT ![a].active = FALSE]
  /\ UNCHANGED <<idp, state, proof, link, issued, visit, crowded>>

RowExpires ==
  /\ \/ /\ \E s \in Attempt : state[s] \in Redirect /\ state' = [state EXCEPT ![s] = "gone"]
        /\ UNCHANGED exchange
     \/ /\ \E v \in Visit : exchange[v] = "live" /\ exchange' = [exchange EXCEPT ![v] = "gone"]
        /\ UNCHANGED state
  /\ UNCHANGED <<idp, proof, people, tokens, visit, crowded>>

BreakOff(v) ==
  /\ visit[v].at \in {"delete", "find", "email", "link", "access", "refresh", "code"}
  /\ Goto(v, "failed")
  /\ UNCHANGED <<idp, state, proof, people, issued, crowded>>

FederationNext ==
  \/ \E v \in Visit :
       \/ \E s \in Attempt : Callback(v, s)
       \/ \E i \in Foreign : Bind(v, i)
       \/ DeleteState(v) \/ Prove(v)
       \/ FindLink(v) \/ FindByEmail(v) \/ CreateAccount(v) \/ InsertLink(v)
       \/ \E kind \in {"access", "refresh"} : Mint(v, kind)
       \/ IssueCode(v) \/ \E w \in Visit : ReadCode(v, w)
       \/ BurnCode(v) \/ TakeAccess(v) \/ TakeRefresh(v) \/ BreakOff(v)
  \/ \E s \in Attempt, i \in Redirect : InsertState(s, i)
  \/ RowExpires
  \/ \E a \in Leaver :
       \/ \E kind \in {"access", "refresh"} : MintElsewhere(a, kind)
       \/ EndRefresh(a) \/ EndAccess(a) \/ Deactivate(a)
  \/ \E n \in DOMAIN tokens :
       tokens[n].of \in Leaver /\ (SpendRefresh(n) \/ RevokeOwn(n) \/ RevokeOthers(n))

FederationSpec == FederationInit /\ [][FederationNext]_federationVars

-----------------------------------------------------------------------------
(* Find-or-create runs statement by statement, so two first sign-ins of one identity may *)
(* both find no link and both insert an account; yet every token minted for an identity  *)
(* is of the account the identity is linked to.                                           *)
SameIdentitySameUser ==
  \A n \in DOMAIN tokens :
    tokens[n].by # Elsewhere => link[visit[tokens[n].by].who] = tokens[n].of

(* The code does not name its tokens: it yields the newest live ones of the account.  They *)
(* are the pair minted with it as long as nobody mints for the account after that pair's   *)
(* first token, with one exception: the access token may be an older one if the pair's was *)
(* revoked before the code was exchanged, as PUT /user/password spares its caller's.        *)
Struck(w) == \A n \in DOMAIN tokens : tokens[n].by = w /\ tokens[n].kind = "access" => ~tokens[n].live
ExchangeYieldsOwn ==
  \A v \in Visit :
    On(v, "handed") /\ visit[v].access # {} /\ visit[v].from \notin crowded =>
      /\ visit[v].refresh = {visit[v].from}
      /\ visit[v].access = {visit[v].from} \/ Struck(visit[v].from)

FederationHolds == SameIdentitySameUser /\ ExchangeYieldsOwn
=============================================================================
