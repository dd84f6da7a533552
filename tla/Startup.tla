------------------------------- MODULE Startup -------------------------------
(***************************************************************************)
(* From the command line to a server that serves, or an error: main.rs,    *)
(* the configuration of src/src/config, what src/src/app.rs makes of it    *)
(* before it serves, the debug privilege, and the bearer token that guards *)
(* the HTTP transport (src/src/security.rs).                               *)
(*                                                                         *)
(* Every input is chosen where the code reads it; every step of the OS may *)
(* fail.  Addresses, tokens and paths are reduced to what decides: an      *)
(* address is its host ("invalid" has none), a token one of two values or  *)
(* empty, a path where it was found.                                       *)
(***************************************************************************)
EXTENDS Naturals, Sequences

CONSTANTS
  Binds,      \* the addresses of the configuration and of --bind
  Overrides   \* the values of --bind, "none" for an option that is not given

Hosts == {"loopback", "lan", "wildcard"}
ASSUME BindsAssumption == Binds \subseteq Hosts \cup {"invalid"}
ASSUME OverridesAssumption == Overrides \subseteq Binds \cup {"none"}

VARIABLES
  phase,      \* how far main is
  command,    \* the subcommand
  override,   \* its --bind
  held,       \* does the token of the process hold SeDebugPrivilege
  enabled,    \* was it enabled
  privilege,  \* PrivilegeLevel
  cfg,        \* Config
  world,      \* where cdb can be found
  cdbPath,    \* Config.debugger.cdb_path, by the source it came from
  expected,   \* TokenState.expected
  hosts,      \* the hosts rmcp accepts
  listening,  \* the host of the listener
  answered    \* the last request, and whether bearer_auth let it through

environment == <<command, override, held, world>>
security == <<expected, hosts>>
vars == <<phase, environment, enabled, privilege, cfg, cdbPath, security,
          listening, answered>>

Tokens == {"a", "b"}

\* What a TOML file can say; a field that is missing is "none".
Configs == [cdb : {"none", "file"}, bind : Binds,
            allowed : {"none", "empty", "list"},
            inline : Tokens \cup {"", "none"}, tokenEnv : Tokens \cup {""},
            audit : BOOLEAN]

Default == [cdb |-> "none", bind |-> "loopback", allowed |-> "none",
            inline |-> "none", tokenEnv |-> "", audit |-> FALSE]

Init ==
  /\ phase = "begin"
  /\ command \in {"serve-stdio", "serve-http", "check-env"}
  /\ override \in IF command = "serve-http" THEN Overrides ELSE {"none"}
  /\ held \in BOOLEAN /\ enabled = FALSE /\ privilege = "none"
  /\ cfg = Default
  /\ world \in SUBSET {"variable", "candidate", "PATH"}
  /\ cdbPath = "none"
  /\ expected = [some |-> FALSE, token |-> ""] /\ hosts = {} /\ listening = "none"
  /\ answered = [path |-> "none", bearer |-> "", ok |-> FALSE]

Goto(p) == phase' = p

-----------------------------------------------------------------------------
(* enable_debug_privilege.                                                 *)

Detected(level) ==
  /\ phase = "begin" /\ Goto("privilege known")
  /\ privilege' = level
  /\ UNCHANGED <<environment, cfg, cdbPath, security, listening, answered>>

\* Windows has no token, no such privilege, or does not adjust it.
AdjustFails == Detected("User") /\ UNCHANGED enabled

\* AdjustTokenPrivileges succeeds, and reports apart whether it did anything.
Adjust == Detected(IF held THEN "Admin" ELSE "User") /\ enabled' = held

-----------------------------------------------------------------------------
(* Config::load.                                                           *)

\* The file cannot be read or is not a configuration.
LoadFails ==
  /\ phase = "privilege known" /\ Goto("failed")
  /\ UNCHANGED <<environment, enabled, privilege, cfg, cdbPath, security,
                 listening, answered>>

Load ==
  /\ phase = "privilege known" /\ Goto("loaded")
  /\ cfg' \in Configs \cup {Default}
  /\ UNCHANGED <<environment, enabled, privilege, cdbPath, security, listening,
                 answered>>

\* detect_cdb.
DetectCdb ==
  IF "candidate" \in world THEN "candidate"
  ELSE IF "PATH" \in world THEN "PATH" ELSE "none"

FinalizeTo(path) ==
  /\ phase = "loaded" /\ Goto("configured")
  /\ cdbPath' = path
  /\ UNCHANGED <<environment, enabled, privilege, cfg, security, listening,
                 answered>>

\* Mutant of Finalize: the variable wins over the file.
FinalizeVariableFirst ==
  FinalizeTo(IF "variable" \in world THEN "variable"
             ELSE IF cfg.cdb # "none" THEN cfg.cdb ELSE DetectCdb)

Finalize ==
  FinalizeTo(IF cfg.cdb # "none" THEN cfg.cdb
             ELSE IF "variable" \in world THEN "variable" ELSE DetectCdb)

-----------------------------------------------------------------------------
(* serve_http and serve_stdio.                                             *)

Address == IF override = "none" THEN cfg.bind ELSE override

\* Mutant of ResolvedToken: an empty inline token counts.
ResolvedTokenGiven ==
  IF cfg.inline # "none" THEN [some |-> TRUE, token |-> cfg.inline]
                         ELSE [some |-> cfg.tokenEnv # "", token |-> cfg.tokenEnv]

ResolvedToken ==
  LET token == IF cfg.inline \in {"none", ""} THEN cfg.tokenEnv ELSE cfg.inline
  IN  [some |-> token # "", token |-> token]

\* resolved_allowed_hosts; a list is used as it is.
ResolvedAllowedHosts ==
  CASE cfg.allowed = "empty" -> {}
    [] cfg.allowed = "list" -> {"listed"}
    [] cfg.allowed = "none" -> {"loopback"} \cup ({cfg.bind} \ {"wildcard", "invalid"})

ParseBind ==
  /\ phase = "configured" /\ command = "serve-http"
  /\ Goto(IF Address = "invalid" THEN "failed" ELSE "address known")
  /\ expected' = ResolvedToken
  /\ UNCHANGED <<environment, enabled, privilege, cfg, cdbPath, hosts,
                 listening, answered>>

\* WindbgrMcp::new: SessionManager::new wants a path, AuditLog::new a file.
NewHandler ==
  /\ phase = IF command = "serve-http" THEN "address known" ELSE "configured"
  /\ command # "check-env"
  /\ \/ cdbPath = "none" /\ Goto("failed")
     \/ cdbPath # "none" /\ cfg.audit /\ Goto("failed")
     \/ cdbPath # "none"
        /\ Goto(IF command = "serve-http" THEN "handler made" ELSE "serving")
  /\ hosts' = IF command = "serve-http" THEN ResolvedAllowedHosts ELSE {}
  /\ UNCHANGED <<environment, enabled, privilege, cfg, cdbPath, expected,
                 listening, answered>>

\* TcpListener::bind, which may find the address taken.
Listen ==
  /\ phase = "handler made"
  /\ \/ Goto("failed") /\ UNCHANGED listening
     \/ Goto("serving") /\ listening' = Address
  /\ UNCHANGED <<environment, enabled, privilege, cfg, cdbPath, security,
                 answered>>

\* check_env says what serve_http would resolve.
Report ==
  /\ phase = "configured" /\ command = "check-env" /\ Goto("reported")
  /\ expected' = ResolvedToken /\ hosts' = ResolvedAllowedHosts
  /\ UNCHANGED <<environment, enabled, privilege, cfg, cdbPath, listening,
                 answered>>

-----------------------------------------------------------------------------
(* bearer_auth, in front of everything but /health.  A request without the *)
(* header has the empty token; ok says that bearer_auth lets it through,   *)
(* after which rmcp may still refuse its Host header.                      *)

Authorized(bearer) == ~expected.some \/ bearer = expected.token

Request(path, bearer) ==
  /\ phase = "serving" /\ command = "serve-http"
  /\ answered' = [path |-> path, bearer |-> bearer,
                  ok |-> path = "/health" \/ Authorized(bearer)]
  /\ UNCHANGED <<phase, environment, enabled, privilege, cfg, cdbPath, security,
                 listening>>

-----------------------------------------------------------------------------
Next ==
  \/ AdjustFails \/ Adjust
  \/ LoadFails \/ Load \/ Finalize
  \/ ParseBind \/ NewHandler \/ Listen \/ Report
  \/ \E path \in {"/mcp", "/health"}, bearer \in Tokens \cup {""} :
       Request(path, bearer)

Spec == Init /\ [][Next]_vars
-----------------------------------------------------------------------------
Phases == {"begin", "privilege known", "loaded", "configured", "address known",
           "handler made", "serving", "reported", "failed"}

\* Types: what is read and decided before the server is made, and the server's.
StartTypes ==
  /\ phase \in Phases
  /\ command \in {"serve-stdio", "serve-http", "check-env"}
  /\ override \in Overrides \cup {"none"}
  /\ held \in BOOLEAN /\ enabled \in BOOLEAN
  /\ privilege \in {"none", "User", "Admin"}
  /\ cfg \in Configs \cup {Default}
  /\ world \subseteq {"variable", "candidate", "PATH"}
  /\ cdbPath \in {"none", "file", "variable", "candidate", "PATH"}

ServingTypes ==
  /\ expected \in [some : BOOLEAN, token : Tokens \cup {""}]
  /\ hosts \subseteq Hosts \cup {"listed"}
  /\ listening \in Hosts \cup {"none"}
  /\ answered \in [path : {"none", "/mcp", "/health"}, bearer : Tokens \cup {""},
                   ok : BOOLEAN]

TypeOK == StartTypes /\ ServingTypes

\* "TOML field -> env var -> known paths -> PATH": two functions in two files
\* make one order.
Precedence == <<"file", "variable", "candidate", "PATH">>
CdbFromFirstPlace ==
  phase \in {"configured", "address known", "handler made", "serving", "reported"}
  => LET found == {i \in DOMAIN Precedence : Precedence[i] \in world \cup {cfg.cdb}}
     IN  IF found = {} THEN cdbPath = "none"
         ELSE \E i \in found : cdbPath = Precedence[i] /\ \A j \in found : i <= j

\* Where a usable token is configured, bearer_auth lets no tool request through
\* but one that bears the token that counts.  That an empty token never counts is
\* decided in resolved_token; bearer_auth reads a missing header as an empty token.
TokenGuardsTools ==
  LET usable == {cfg.inline, cfg.tokenEnv} \ {"", "none"}
      counts == IF cfg.inline \in usable THEN {cfg.inline} ELSE usable
  IN  answered.path = "/mcp" /\ answered.ok /\ usable # {}
      => answered.bearer \in counts

-----------------------------------------------------------------------------
(* What the documentation says and the code does not do (README,           *)
(* "Disagreements").                                                       *)

\* "The defaults are intentionally restrictive (loopback bind, Bearer required for
\* HTTP)": no tool request is let through without a token to check.
BearerRequired == answered.path = "/mcp" /\ answered.ok => expected.some

\* "keep rmcp's loopback list and add the bind host if it differs": the host that
\* is listened on is accepted in the Host header.
BindHostIsAllowed ==
  (listening \notin {"none", "wildcard"} /\ cfg.allowed = "none")
  => listening \in hosts
=============================================================================
