---------------------------- MODULE MCOAuthTokens ----------------------------
(* Small instances of OAuthTokens for TLC.  Requests, browsers and clients are     *)
(* interchangeable; no property below names one of them.                            *)
EXTENDS OAuthTokens, TLC

Symmetry == Permutations(Req) \cup Permutations(Browser)
==============================================================================
