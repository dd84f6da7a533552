------------------------------- MODULE Server -------------------------------
(***************************************************************************)
(* The server process around the registry: the transports of               *)
(* src/src/app.rs, from the first client to the exit of the process.       *)
(*                                                                         *)
(* It extends SessionManager, whose registry all MCP sessions share: the   *)
(* handler is made once and cloned for every client that connects.  Calls  *)
(* begin while a client is connected, and go on without it.  The exit of   *)
(* the process ends what is under way; it does not end any cdb.            *)
(***************************************************************************)
EXTENDS SessionManager

CONSTANT Clients  \* the clients that may connect, again and again

VARIABLES
  kind,       \* which transport serves
  connected,  \* the clients with an open connection
  transport,  \* is it open, closing, or has its future returned, and how
  process     \* does the process run

serverVars == <<kind, connected, transport, process>>
allVars == <<vars, serverVars>>

ServerInit ==
  /\ Init
  /\ kind \in {"stdio", "http"}
  /\ connected = {} /\ transport = "open" /\ process = "running"

-----------------------------------------------------------------------------
(* The transport.  On stdio there is one connection, the standard streams; *)
(* their end is the end of the transport.                                  *)

Connect(m) ==
  /\ process = "running" /\ transport = "open" /\ m \notin connected
  /\ kind = "stdio" => connected = {}
  /\ connected' = connected \cup {m}
  /\ UNCHANGED <<vars, kind, transport, process>>

Disconnect(m) ==
  /\ process = "running" /\ m \in connected
  /\ connected' = connected \ {m}
  /\ transport' = IF kind = "stdio" THEN "closed" ELSE transport
  /\ UNCHANGED <<vars, kind, process>>

\* shutdown_signal: no connection is accepted any more.
Signal ==
  /\ process = "running" /\ kind = "http" /\ transport = "open"
  /\ transport' = "draining"
  /\ UNCHANGED <<vars, kind, connected, process>>

DrainIf(done) ==
  /\ process = "running" /\ transport = "draining" /\ done
  /\ transport' = "closed"
  /\ UNCHANGED <<vars, kind, connected, process>>

\* Mutant of Drained: the calls under way are waited for as well.
DrainedOfCalls == DrainIf(connected = {} /\ InFlight = {})

\* with_graceful_shutdown: axum returns when the last connection is closed.
Drained == DrainIf(connected = {})

\* The future of the transport ends in an error: that of axum is looked at after
\* the shutdown of the sessions, that of stdio returns at once.
TransportFails ==
  /\ process = "running" /\ transport \in {"open", "draining"}
  /\ transport' = "failed" /\ connected' = {}
  /\ UNCHANGED <<vars, kind, process>>

-----------------------------------------------------------------------------
(* The calls, the sessions and the shutdown, as in SessionManager.         *)

\* A call can only begin on a connection.
ServeCall ==
  /\ process = "running" /\ connected # {}
  /\ BeginCall
  /\ UNCHANGED serverVars

\* Calls under way, sessions and the shutdown go on until the process exits.
Work == process = "running" /\ GoOn /\ UNCHANGED serverVars

ShutdownFrom(ended) ==
  /\ process = "running" /\ ended
  /\ Snapshot
  /\ UNCHANGED serverVars

\* Mutant of BeginShutdown: the signal itself begins it.
BeginShutdownOnSignal == ShutdownFrom(transport # "open")

BeginShutdown ==
  ShutdownFrom(transport = "closed" \/ (transport = "failed" /\ kind = "http"))

ExitIf(ready) ==
  /\ process = "running" /\ ready
  /\ process' = "exited"
  /\ UNCHANGED <<vars, kind, connected, transport>>

\* Mutant of ServerExits: an error of either transport returns at once.
ServerExitsOnError == ExitIf(shutdown = "done" \/ transport = "failed")

ServerExits ==
  ExitIf(shutdown = "done" \/ (transport = "failed" /\ kind = "stdio"))

-----------------------------------------------------------------------------
ServerNext ==
  \/ \E m \in Clients : Connect(m) \/ Disconnect(m)
  \/ Signal \/ Drained \/ TransportFails
  \/ ServeCall \/ Work \/ BeginShutdown \/ ServerExits

ServerSpec == ServerInit /\ [][ServerNext]_allVars

Shutdown == process = "running" /\ UNCHANGED serverVars
            /\ (ShutdownEnds \/ \E a \in Spawns : ShutdownOne(a))

\* Clients close their connections once the server is asked to end; axum waits
\* for each.  The rest is one task, whose awaits are under timeouts.
ServerFairSpec ==
  /\ ServerSpec
  /\ \A m \in Clients : WF_allVars(transport = "draining" /\ Disconnect(m))
  /\ WF_allVars(Drained) /\ WF_allVars(BeginShutdown)
  /\ WF_allVars(Shutdown) /\ WF_allVars(ServerExits)

-----------------------------------------------------------------------------
\* Types of the variables of the transport; a failed or closed one has no clients.
ServerTypeOK ==
  /\ kind \in {"stdio", "http"} /\ connected \subseteq Clients
  /\ transport \in {"open", "draining", "closed", "failed"}
  /\ process \in {"running", "exited"}
  /\ transport \in {"closed", "failed"} => connected = {}

\* The registry is used as SessionManager says: what app.rs awaits before it
\* calls shutdown makes sure that no call begins after its snapshot.
UsesManager == Spec

\* What the exit leaves behind: unless stdio failed, a cdb that still runs hung in
\* its stop, was registered after the snapshot, or belongs to a spawn that was
\* under way, dropped or failed.
ExitAccountsForChildren ==
  (process = "exited" /\ ~(transport = "failed" /\ kind = "stdio"))
  => \A a \in Spawns : child[a] =>
       a \in timedOut \cup late \cup InFlight \/ spawn[a] \in {"failed", "dropped"}

\* A server whose transport is asked to end, ends or failed exits, whatever hangs.
ServerEnds == (transport # "open") ~> (process = "exited")
=============================================================================
