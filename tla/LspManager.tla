----------------------------- MODULE LspManager -----------------------------
(***************************************************************************)
(* Which server serves a language: LSPManager of                           *)
(* src/src/lsp/lsp-manager.ts, for one language, since the maps of the     *)
(* manager keep languages apart.  Calls that ask while a server is being   *)
(* started wait for the same start; configurations are tried in turn.      *)
(***************************************************************************)
EXTENDS LspConnection

CONSTANTS
    Configs,   \* how many configurations the language has
    NoConn     \* the server of a language that has none

ASSUME ManagerAssumption == Configs \in Nat /\ NoConn \notin Conns

VARIABLES
    table,     \* connections: the server that has been started
    start,     \* pendingServers: how far the start is, or "off"
    config,    \* the configuration it is trying
    new,       \* the connection it has made
    stop,      \* how far the shutdown of each connection is
    pc,        \* where each call is
    server     \* the server a call was given

mgrVars == <<table, start, config, new, stop>>

MgrInit ==
    /\ table = NoConn
    /\ start = "off"
    /\ config = 0
    /\ new = NoConn
    /\ stop = [c \in Conns |-> "no"]

Goto(k, loc) == pc' = [pc EXCEPT ![k] = loc]

-----------------------------------------------------------------------------
(* shutdown of a connection.                                               *)

BeginStop(c) ==
    IF conn[c].open
    THEN /\ StartRequest(c, c, "shutdown", conn[c], srv[c])
         /\ stop' = [stop EXCEPT ![c] = "asked"]
    ELSE /\ conn' = [conn EXCEPT ![c] = Closed(@)]
         /\ stop' = [stop EXCEPT ![c] = "done"]
         /\ UNCHANGED <<srv, req, timers>>

(* Bug: the timers are cleared with the table of pending requests.         *)
BugKill(c) ==
    /\ stop[c] = "asked" /\ req[c].st # "open"
    /\ stop' = [stop EXCEPT ![c] = "done"]
    /\ srv' = [srv EXCEPT ![c] = Down(@)]
    /\ timers' = timers \ conn[c].pending
    /\ conn' = [conn EXCEPT ![c] = [Closed(@) EXCEPT !.attached = FALSE]]
    /\ UNCHANGED <<req, heard, faults, table, start, config, new, pc, server>>

(* The answer or its absence, the exit notification, the drain window, and *)
(* the kill.                                                               *)
Kill(c) ==
    /\ stop[c] = "asked" /\ req[c].st # "open"
    /\ stop' = [stop EXCEPT ![c] = "done"]
    /\ srv' = [srv EXCEPT ![c] = Down(@)]
    /\ conn' = [conn EXCEPT ![c] = [Closed(@) EXCEPT !.attached = FALSE]]
    /\ UNCHANGED <<req, timers, heard, faults, table, start, config, new, pc, server>>

-----------------------------------------------------------------------------
(* getServerInner.                                                         *)

(* Everybody who waits gets the server, or null.                           *)
Resolve(c) ==
    /\ start' = "off"
    /\ new' = NoConn
    /\ pc' = [k \in Calls |-> IF pc[k] = "waiting" THEN "served" ELSE pc[k]]
    /\ server' = [k \in Calls |-> IF pc[k] = "waiting" THEN c ELSE server[k]]

(* findExecutable or resolveArgs has nothing for this configuration.       *)
NotFound ==
    /\ start = "probe" /\ config <= Configs
    /\ config' = config + 1
    /\ UNCHANGED <<connVars, table, start, new, stop, pc, server>>

(* connectionFactory, which may fail to spawn, and initialize.             *)
Spawn(c) ==
    /\ start = "probe" /\ config <= Configs
    /\ Fresh(c) /\ \A e \in Conns : Fresh(e) => c <= e
    /\ \E up \in {"up", "down"} :
          srv' = [srv EXCEPT ![c] = ShownRequest([@ EXCEPT !.up = up], c, "initialize")]
    /\ conn' = [conn EXCEPT ![c] = [@ EXCEPT !.open = TRUE, !.attached = TRUE,
                                             !.pending = {<<c, "initialize">>}]]
    /\ req' = [req EXCEPT ![c] = Asked("initialize")]
    /\ timers' = timers \cup {<<c, "initialize">>}
    /\ start' = "init"
    /\ new' = c
    /\ UNCHANGED <<heard, faults, table, config, stop, pc, server>>

Started ==
    /\ start = "init" /\ req[new].st = "ok"
    /\ table' = new
    /\ Resolve(new)
    /\ UNCHANGED <<connVars, config, stop>>

(* Bug: a server that does not answer initialize is left alone.            *)
BugStartFailed ==
    /\ start = "init" /\ req[new].st = "failed"
    /\ start' = "probe"
    /\ config' = config + 1
    /\ new' = NoConn
    /\ UNCHANGED <<connVars, table, stop, pc, server>>

StartFailed ==
    /\ start = "init" /\ req[new].st = "failed"
    /\ BeginStop(new)
    /\ start' = "clean"
    /\ UNCHANGED <<heard, faults, table, config, new, pc, server>>

NextConfig ==
    /\ start = "clean" /\ stop[new] = "done"
    /\ start' = "probe"
    /\ config' = config + 1
    /\ new' = NoConn
    /\ UNCHANGED <<connVars, table, stop, pc, server>>

NoServer ==
    /\ start = "probe" /\ config > Configs
    /\ Resolve(NoConn)
    /\ UNCHANGED <<connVars, table, config, stop>>

-----------------------------------------------------------------------------
Serve(k, c) ==
    /\ Goto(k, "served")
    /\ server' = [server EXCEPT ![k] = c]

(* getServer: a start under way, a running server, or a start of its own,  *)
(* after removing a server that no longer runs.                            *)
GetServer(k) ==
    \/ /\ start # "off"
       /\ Goto(k, "waiting")
       /\ UNCHANGED <<connVars, mgrVars, server>>
    \/ /\ start = "off" /\ table # NoConn /\ conn[table].open
       /\ Serve(k, table)
       /\ UNCHANGED <<connVars, mgrVars>>
    \/ /\ start = "off" /\ (table # NoConn => ~conn[table].open)
       /\ IF table = NoConn THEN UNCHANGED <<conn, srv, req, timers, stop>>
          ELSE BeginStop(table)
       /\ table' = NoConn
       /\ start' = "probe"
       /\ config' = 1
       /\ Goto(k, "waiting")
       /\ UNCHANGED <<heard, faults, new, server>>

(* removeServer.                                                           *)
RemoveServer ==
    /\ IF table = NoConn THEN UNCHANGED <<conn, srv, req, timers, stop>>
       ELSE BeginStop(table)
    /\ table' = NoConn
    /\ UNCHANGED <<heard, faults, start, config, new>>

-----------------------------------------------------------------------------
MgrTypeOK ==
    /\ table \in Conns \cup {NoConn} /\ new \in Conns \cup {NoConn}
    /\ start \in {"off", "probe", "init", "clean"} /\ config \in Nat
    /\ stop \in [Conns -> {"no", "asked", "done"}]

(* No server process is forgotten: one that runs is the server of its      *)
(* language, is being started, or is being shut down                       *)
(* (lsp-manager.ts:169-227).                                               *)
NoStrayServer ==
    \A c \in Conns : srv[c].up = "up" =>
        \/ c = table
        \/ c = new /\ start # "off"
        \/ stop[c] = "asked"

(* Calls are given servers that have answered initialize themselves, not   *)
(* by a request of the server that has the same number                     *)
(* (lsp-connection.ts:381-385).                                            *)
ServerIsInitialized ==
    \A k \in Calls : server[k] # NoConn =>
        Answer(<<server[k], "initialize">>, NoText) \notin srv[server[k]].owes
=============================================================================
