--------------------------- MODULE Startup_proofs ---------------------------
(***************************************************************************)
(* Theorems about Startup, for any addresses in the configuration and on   *)
(* the command line.                                                       *)
(***************************************************************************)
EXTENDS Startup, TLAPS

\* Where the address of serve_http has been parsed.
AddressPhases == {"address known", "handler made", "serving"}

\* What is resolved stays resolved: the token that guards the tools and the
\* accepted hosts are the ones of the configuration, and what is listened on is
\* the address.
ResolvedOnce ==
  /\ (command = "serve-http" /\ phase \in AddressPhases)
       => expected = ResolvedToken /\ Address # "invalid"
  /\ (command = "serve-http" /\ phase \in {"handler made", "serving"})
       => hosts = ResolvedAllowedHosts
  /\ phase \in AddressPhases \ {"serving"} => command = "serve-http"
  /\ listening # "none" => phase = "serving" /\ command = "serve-http"
                           /\ listening = Address

\* Only a server answers.
AnsweredByServer ==
  answered.path # "none" => phase = "serving" /\ command = "serve-http"

\* The inductive invariant.
StartupInv ==
  /\ TypeOK /\ ResolvedOnce /\ AnsweredByServer
  /\ CdbFromFirstPlace /\ TokenGuardsTools

LEMMA StartupInit == Init => StartupInv
<1> SUFFICES ASSUME Init PROVE StartupInv
  OBVIOUS
<1>1. TypeOK
  <2>1. StartTypes
    BY DEF Init, StartTypes, Phases
  <2>2. ServingTypes
    BY DEF Init, ServingTypes, Tokens
  <2> QED
    BY <2>1, <2>2 DEF TypeOK
<1>2. ResolvedOnce /\ AnsweredByServer
  BY DEF Init, ResolvedOnce, AddressPhases, AnsweredByServer
<1>3. CdbFromFirstPlace /\ TokenGuardsTools
  BY DEF Init, CdbFromFirstPlace, TokenGuardsTools
<1> QED
  BY <1>1, <1>2, <1>3 DEF StartupInv

\* The types of what the configuration resolves to.
LEMMA ResolvedTypes ==
  ASSUME TypeOK
  PROVE  /\ ResolvedToken \in [some : BOOLEAN, token : Tokens \cup {""}]
         /\ ResolvedAllowedHosts \subseteq Hosts \cup {"listed"}
         /\ Address \in Hosts \cup {"invalid"}
         /\ cfg.cdb \in {"none", "file"}
         /\ cfg.inline \in Tokens \cup {"", "none"} /\ cfg.tokenEnv \in Tokens \cup {""}
<1>1. /\ cfg.bind \in Hosts \cup {"invalid"}
      /\ cfg.allowed \in {"none", "empty", "list"}
      /\ cfg.inline \in Tokens \cup {"", "none"} /\ cfg.tokenEnv \in Tokens \cup {""}
      /\ cfg.cdb \in {"none", "file"}
  <2>1. cfg \in Configs \cup {Default}
    BY DEF TypeOK, StartTypes
  <2>2. CASE cfg \in Configs
    BY <2>2, BindsAssumption DEF Configs
  <2>3. CASE cfg = Default
    BY <2>3 DEF Default, Hosts, Tokens
  <2> QED
    BY <2>1, <2>2, <2>3
<1>2. ResolvedToken \in [some : BOOLEAN, token : Tokens \cup {""}]
  BY <1>1 DEF ResolvedToken
<1>3. ResolvedAllowedHosts \subseteq Hosts \cup {"listed"}
  BY <1>1 DEF ResolvedAllowedHosts, Hosts
<1>4. Address \in Hosts \cup {"invalid"}
  BY <1>1, BindsAssumption, OverridesAssumption DEF Address, TypeOK, StartTypes
<1> QED
  BY <1>1, <1>2, <1>3, <1>4

LEMMA StartTypesNext ==
  ASSUME TypeOK, [Next]_vars
  PROVE  StartTypes'
<1> USE DEF TypeOK, StartTypes, vars, environment, security, Phases, Goto
<1>1. CASE AdjustFails \/ Adjust
  BY <1>1 DEF AdjustFails, Adjust, Detected
<1>2. CASE LoadFails \/ Load
  BY <1>2 DEF LoadFails, Load
<1>3. CASE Finalize
  <2>1. cfg.cdb \in {"none", "file"}
    BY ResolvedTypes
  <2> QED
    BY <1>3, <2>1 DEF Finalize, FinalizeTo, DetectCdb
<1>4. CASE ParseBind \/ NewHandler \/ Listen \/ Report
  BY <1>4 DEF ParseBind, NewHandler, Listen, Report
<1>5. CASE UNCHANGED vars
  BY <1>5
<1>6. ASSUME NEW path \in {"/mcp", "/health"}, NEW bearer \in Tokens \cup {""},
             Request(path, bearer)
      PROVE  StartTypes'
  BY <1>6 DEF Request
<1> QED
  BY <1>1, <1>2, <1>3, <1>4, <1>5, <1>6 DEF Next

LEMMA ServingTypesNext ==
  ASSUME TypeOK, [Next]_vars, ResolvedOnce
  PROVE  ServingTypes'
<1> USE DEF TypeOK, ServingTypes, security, Goto
<1>1. CASE ParseBind \/ Report
  BY <1>1, ResolvedTypes DEF ParseBind, Report
<1>2. CASE NewHandler
  BY <1>2, ResolvedTypes DEF NewHandler
<1>3. CASE Listen
  BY <1>3, ResolvedTypes DEF Listen, ResolvedOnce, AddressPhases
<1>4. ASSUME NEW path \in {"/mcp", "/health"}, NEW bearer \in Tokens \cup {""},
             Request(path, bearer)
      PROVE  ServingTypes'
  BY <1>4 DEF Request, Authorized
<1>5. CASE UNCHANGED <<expected, hosts, listening, answered>>
  BY <1>5
<1>6. \/ ParseBind \/ Report \/ NewHandler \/ Listen
      \/ \E path \in {"/mcp", "/health"}, bearer \in Tokens \cup {""} :
           Request(path, bearer)
      \/ UNCHANGED <<expected, hosts, listening, answered>>
  BY DEF Next, vars, AdjustFails, Adjust, Detected, LoadFails, Load, Finalize,
         FinalizeTo
<1> QED
  BY <1>1, <1>2, <1>3, <1>4, <1>5, <1>6

LEMMA ResolvedNext ==
  ASSUME TypeOK, [Next]_vars, ResolvedOnce, AnsweredByServer
  PROVE  ResolvedOnce' /\ AnsweredByServer'
<1> USE DEF vars, environment, security, Goto, ResolvedOnce, AnsweredByServer,
            AddressPhases, Address, ResolvedToken, ResolvedAllowedHosts
<1>1. CASE AdjustFails \/ Adjust
  BY <1>1 DEF AdjustFails, Adjust, Detected
<1>2. CASE LoadFails \/ Load \/ Finalize
  BY <1>2 DEF LoadFails, Load, Finalize, FinalizeTo
<1>3. CASE ParseBind
  BY <1>3 DEF ParseBind
<1>4. CASE NewHandler
  BY <1>4 DEF NewHandler
<1>5. CASE Listen
  BY <1>5 DEF Listen
<1>6. CASE Report
  BY <1>6 DEF Report
<1>7. ASSUME NEW path \in {"/mcp", "/health"}, NEW bearer \in Tokens \cup {""},
             Request(path, bearer)
      PROVE  ResolvedOnce' /\ AnsweredByServer'
  <2>1. answered'.path = path
    BY <1>7 DEF Request
  <2> QED
    BY <1>7, <2>1 DEF Request
<1>8. CASE UNCHANGED vars
  BY <1>8
<1> QED
  BY <1>1, <1>2, <1>3, <1>4, <1>5, <1>6, <1>7, <1>8 DEF Next

\* Finalize and detect_cdb together take the first place that has a cdb.
LEMMA FinalizeTakesFirst ==
  ASSUME TypeOK, Finalize
  PROVE  CdbFromFirstPlace'
<1> DEFINE has == world \cup {cfg.cdb}
           found == {i \in DOMAIN Precedence : Precedence[i] \in has}
<1>1. /\ DOMAIN Precedence = 1..4
      /\ Precedence[1] = "file" /\ Precedence[2] = "variable"
      /\ Precedence[3] = "candidate" /\ Precedence[4] = "PATH"
  BY DEF Precedence
<1>2. cfg.cdb \in {"none", "file"} /\ world \subseteq {"variable", "candidate", "PATH"}
  BY ResolvedTypes DEF TypeOK, StartTypes
<1>3. /\ 1 \in found <=> cfg.cdb = "file"
      /\ 2 \in found <=> "variable" \in world
      /\ 3 \in found <=> "candidate" \in world
      /\ 4 \in found <=> "PATH" \in world
  BY <1>1, <1>2
<1>4. found \subseteq 1..4
  BY <1>1
<1>5. cdbPath' = IF cfg.cdb # "none" THEN cfg.cdb
                 ELSE IF "variable" \in world THEN "variable" ELSE DetectCdb
  BY DEF Finalize, FinalizeTo
<1> HIDE DEF found
<1>6. IF found = {} THEN cdbPath' = "none"
      ELSE \E i \in found : cdbPath' = Precedence[i] /\ \A j \in found : i <= j
  <2>1. CASE cfg.cdb = "file"
    <3>1. 1 \in found /\ cdbPath' = Precedence[1]
      BY <1>1, <1>3, <1>5, <2>1
    <3>2. \A j \in found : 1 <= j
      BY <1>4
    <3> QED
      BY <3>1, <3>2
  <2>2. CASE cfg.cdb = "none" /\ "variable" \in world
    <3>1. 2 \in found /\ cdbPath' = Precedence[2]
      BY <1>1, <1>3, <1>5, <2>2
    <3>2. \A j \in found : 2 <= j
      BY <1>3, <1>4, <2>2
    <3> QED
      BY <3>1, <3>2
  <2>3. CASE cfg.cdb = "none" /\ "variable" \notin world /\ "candidate" \in world
    <3>1. 3 \in found /\ cdbPath' = Precedence[3]
      BY <1>1, <1>3, <1>5, <2>3 DEF DetectCdb
    <3>2. \A j \in found : 3 <= j
      BY <1>3, <1>4, <2>3
    <3> QED
      BY <3>1, <3>2
  <2>4. CASE /\ cfg.cdb = "none" /\ "variable" \notin world
             /\ "candidate" \notin world /\ "PATH" \in world
    <3>1. 4 \in found /\ cdbPath' = Precedence[4]
      BY <1>1, <1>3, <1>5, <2>4 DEF DetectCdb
    <3>2. \A j \in found : 4 <= j
      BY <1>3, <1>4, <2>4
    <3> QED
      BY <3>1, <3>2
  <2>5. CASE cfg.cdb = "none" /\ world = {}
    <3>1. found = {} /\ cdbPath' = "none"
      BY <1>3, <1>4, <1>5, <2>5 DEF DetectCdb
    <3> QED
      BY <3>1
  <2> QED
    BY <1>2, <2>1, <2>2, <2>3, <2>4, <2>5
<1>7. UNCHANGED <<cfg, world>>
  BY DEF Finalize, FinalizeTo, environment
<1> QED
  BY <1>6, <1>7 DEF CdbFromFirstPlace, found

LEMMA CdbNext ==
  ASSUME TypeOK, [Next]_vars, CdbFromFirstPlace
  PROVE  CdbFromFirstPlace'
<1> DEFINE Configured == {"configured", "address known", "handler made", "serving",
                          "reported"}
<1>1. CASE Finalize
  BY <1>1, FinalizeTakesFirst
<1>2. CASE phase' \notin Configured
  BY <1>2 DEF CdbFromFirstPlace
<1>3. CASE UNCHANGED <<cfg, world, cdbPath>> /\ (phase \in Configured \/ phase' = phase)
  BY <1>3 DEF CdbFromFirstPlace
<1>4. \/ Finalize \/ phase' \notin Configured
      \/ UNCHANGED <<cfg, world, cdbPath>> /\ (phase \in Configured \/ phase' = phase)
  BY DEF Next, vars, environment, Goto, AdjustFails, Adjust, Detected, LoadFails, Load,
         ParseBind, NewHandler, Listen, Report, Request
<1> QED
  BY <1>1, <1>2, <1>3, <1>4

\* bearer_auth with the token of resolved_token lets through what bears the one
\* token that counts, or everything when none does.
LEMMA AuthorizedByUsable ==
  ASSUME TypeOK, expected = ResolvedToken, NEW bearer \in Tokens \cup {""}
  PROVE  LET usable == {cfg.inline, cfg.tokenEnv} \ {"", "none"}
             counts == IF cfg.inline \in usable THEN {cfg.inline} ELSE usable
         IN  Authorized(bearer) <=> counts = {} \/ bearer \in counts
<1>1. cfg.inline \in {"a", "b", "", "none"} /\ cfg.tokenEnv \in {"a", "b", ""}
  BY ResolvedTypes DEF Tokens
<1>2. CASE cfg.inline \in {"", "none"}
  <2>1. /\ expected.token = cfg.tokenEnv
        /\ expected.some <=> cfg.tokenEnv # ""
    BY <1>2 DEF ResolvedToken
  <2> QED
    BY <1>1, <1>2, <2>1 DEF Authorized
<1>3. CASE cfg.inline \in {"a", "b"}
  <2>1. expected.token = cfg.inline /\ expected.some
    BY <1>3 DEF ResolvedToken
  <2> QED
    BY <1>1, <1>3, <2>1 DEF Authorized
<1> QED
  BY <1>1, <1>2, <1>3

LEMMA TokenNext ==
  ASSUME TypeOK, ResolvedOnce, AnsweredByServer, [Next]_vars, TokenGuardsTools
  PROVE  TokenGuardsTools'
<1>1. ASSUME NEW path \in {"/mcp", "/health"}, NEW bearer \in Tokens \cup {""},
             Request(path, bearer)
      PROVE  TokenGuardsTools'
  <2>1. /\ answered'.path = path /\ answered'.bearer = bearer
        /\ answered'.ok = (path = "/health" \/ Authorized(bearer))
        /\ cfg' = cfg
    BY <1>1 DEF Request
  <2>2. expected = ResolvedToken
    BY <1>1 DEF Request, ResolvedOnce, AddressPhases
  <2> QED
    BY <2>1, <2>2, AuthorizedByUsable DEF TokenGuardsTools
<1>2. CASE UNCHANGED <<answered, cfg>>
  BY <1>2 DEF TokenGuardsTools
<1>3. CASE answered.path = "none" /\ UNCHANGED answered
  BY <1>3 DEF TokenGuardsTools
<1>4. \/ UNCHANGED <<answered, cfg>>
      \/ answered.path = "none" /\ UNCHANGED answered
      \/ \E path \in {"/mcp", "/health"}, bearer \in Tokens \cup {""} :
           Request(path, bearer)
  BY DEF Next, vars, AnsweredByServer, AdjustFails, Adjust, Detected, LoadFails, Load,
         Finalize, FinalizeTo, ParseBind, NewHandler, Listen, Report
<1> QED
  BY <1>1, <1>2, <1>3, <1>4

\* The inductive invariant holds of every behaviour.
LEMMA StartupInvHolds == Spec => []StartupInv
<1>1. StartupInv /\ [Next]_vars => StartupInv'
  BY StartTypesNext, ServingTypesNext, ResolvedNext, CdbNext, TokenNext
  DEF StartupInv, TypeOK
<1> QED
  BY StartupInit, <1>1, PTL DEF Spec

\* Type correctness of the configuration and of what is made of it.
THEOREM StartupTypes == Spec => []TypeOK
<1>1. StartupInv => TypeOK
  BY DEF StartupInv
<1> QED
  BY StartupInvHolds, <1>1, PTL

\* cdb comes from the first of the four places that has one.
THEOREM CdbPrecedence == Spec => []CdbFromFirstPlace
<1>1. StartupInv => CdbFromFirstPlace
  BY DEF StartupInv
<1> QED
  BY StartupInvHolds, <1>1, PTL

\* Where a usable token is configured, the tools are guarded by the one that counts.
THEOREM TokenIsRequired == Spec => []TokenGuardsTools
<1>1. StartupInv => TokenGuardsTools
  BY DEF StartupInv
<1> QED
  BY StartupInvHolds, <1>1, PTL

\* Only --bind can make the server refuse the host it listens on: with the address
\* of the configuration the host is accepted.
THEOREM OnlyBindLocksOut == Spec => [](override = "none" => BindHostIsAllowed)
<1>1. StartupInv => (override = "none" => BindHostIsAllowed)
  BY DEF StartupInv, ResolvedOnce, BindHostIsAllowed, ResolvedAllowedHosts, Address,
         AddressPhases
<1> QED
  BY StartupInvHolds, <1>1, PTL
=============================================================================
