----------------------------- MODULE MCServices -----------------------------
(* Model checking of the components that share no state with one another: a behaviour  *)
(* is one of one component, "part", while the variables of the others keep one value.  *)
(* Calls of any component are named c1, c2, ... and replicas, users and sign-ins n1,   *)
(* n2, so that two small groups of permutations serve them all.                        *)
EXTENDS AuthAccount, SecondFactor, Captcha, Federation, Operations, ClientAuth, Access, Browser,
        Risk, TLC

VARIABLE part

AccountBehaviours ==
  {{"login", "reset"}, {"login", "change", "renew"}, {"login", "mfa", "change"},
   {"federated", "forced", "renew"}, {"login", "expired"}, {"register", "login", "mail"},
   {"login", "deletion"}, {"login", "admin"}}
RuleOrder == <<"r1">>
Symmetry == Permutations(Call) \cup Permutations(User)

servicesVars == <<part, accountVars, factorVars, captchaVars, federationVars, opsVars, clientVars,
                  accessVars, browserVars, riskVars>>

Runs(p) == part = p /\ UNCHANGED part
Keep(names) ==
  /\ "account" \in names => UNCHANGED accountVars
  /\ "factor" \in names => UNCHANGED factorVars
  /\ "captcha" \in names => UNCHANGED captchaVars
  /\ "federation" \in names => UNCHANGED federationVars
  /\ "ops" \in names => UNCHANGED opsVars
  /\ "client" \in names => UNCHANGED clientVars
  /\ "access" \in names => UNCHANGED accessVars
  /\ "browser" \in names => UNCHANGED browserVars
  /\ "risk" \in names => UNCHANGED riskVars
Part == {"account", "factor", "captcha", "federation", "ops", "client", "access", "browser", "risk"}
Others(p) == Runs(p) /\ Keep(Part \ {p})

(* The component that runs starts in any of its initial states, the others in one.     *)
ServicesInit ==
  /\ part \in Part
  /\ AccountInit /\ (part # "account" =>
       accountCase = {"register", "login", "mail"} /\ ~enrolled)
  /\ FactorInit /\ (part # "factor" =>
       factorCase = {"otp"} /\ \A f \in Factor : status[f] = "none")
  /\ CaptchaInit /\ (part # "captcha" => \A i \in Identity : failures[i] = Threshold)
  /\ FederationInit /\ (part # "federation" => ~idp.jit)
  /\ OpsInit /\ (part # "ops" => opsCase = {"event"})
  /\ ClientInit /\ (part # "client" =>
       clientCase = {"secret"} /\ client.hash = 0 /\ ~client.jwt)
  /\ AccessInit /\ (part # "access" =>
       accessCase = {"group"} /\ \A u \in User : persons[u].tenant = DefaultTenant)
  /\ BrowserInit /\ (part # "browser" => Cardinality(tabs) = 2)
  /\ RiskInit

ServicesNext ==
  \/ Others("account") /\ AccountNext
  \/ Others("factor") /\ FactorNext
  \/ Others("captcha") /\ CaptchaNext
  \/ Others("federation") /\ FederationNext
  \/ Others("ops") /\ OpsNext
  \/ Others("client") /\ ClientNext
  \/ Others("access") /\ AccessNext
  \/ Others("browser") /\ BrowserNext
  \/ Others("risk") /\ RiskNext

ServicesSpec == ServicesInit /\ [][ServicesNext]_servicesVars

(* The rows, requests and counters of the component that runs keep their types.        *)
ServicesTypeOK ==
  CASE part = "account" -> AccountTypeOK
    [] part = "factor" -> FactorTypeOK
    [] part = "captcha" -> CaptchaTypeOK
    [] part = "federation" -> FederationTypeOK
    [] part = "ops" -> OpsTypeOK
    [] part = "client" -> ClientTypeOK
    [] part = "access" -> AccessTypeOK
    [] part = "browser" -> BrowserTypeOK
    [] part = "risk" -> RiskTypeOK
=============================================================================
