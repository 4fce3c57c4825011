------------------------------ MODULE SingleUse ------------------------------
(* What every one-time credential of the identity provider promises: an         *)
(* authorization code, a refresh token presented to the token endpoint, an      *)
(* approved device code.  A credential is created once, is spent (redeemed or    *)
(* revoked, alone or in bulk) for good, and at most one request ever mints       *)
(* tokens from it, after it was spent.                                            *)
CONSTANTS Cred,    \* the credentials
          Req      \* the requests that may redeem them

VARIABLES fresh,   \* the credentials that can still be redeemed
          spent,   \* the credentials that were redeemed or revoked
          minted   \* minted[c]: the requests holding tokens obtained from c

vars == <<fresh, spent, minted>>

TypeOK == /\ fresh \subseteq Cred
          /\ spent \subseteq Cred
          /\ minted \in [Cred -> SUBSET Req]

Init == /\ fresh = {}
        /\ spent = {}
        /\ minted = [c \in Cred |-> {}]

(* A new credential is handed out. *)
Create(c) == /\ c \notin fresh \cup spent
             /\ fresh' = fresh \cup {c}
             /\ UNCHANGED <<spent, minted>>

(* One UPDATE takes a set of credentials out of circulation. *)
Spend(C) == /\ C \subseteq fresh
            /\ fresh' = fresh \ C
            /\ spent' = spent \cup C
            /\ UNCHANGED minted

(* The request that spent c obtains tokens from it; nobody else has.  What it      *)
(* obtains may include one new credential (rotation).                              *)
Mint(c, r) == /\ c \in spent
              /\ minted[c] = {}
              /\ minted' = [minted EXCEPT ![c] = {r}]
              /\ \/ UNCHANGED fresh
                 \/ \E d \in Cred \ (fresh \cup spent) : fresh' = fresh \cup {d}
              /\ UNCHANGED spent

Next == \/ \E c \in Cred : Create(c)
        \/ \E C \in SUBSET Cred : Spend(C)
        \/ \E c \in Cred, r \in Req : Mint(c, r)

Spec == Init /\ [][Next]_vars
==============================================================================
