----------------------------- MODULE LspSession -----------------------------
(***************************************************************************)
(* Tool calls that use a language server: withOpenDocument of              *)
(* src/src/lsp/document-sync.ts, checkPostEditDiagnostics of               *)
(* src/src/lsp/diagnostics.ts, the requests of src/src/lsp/semantic-nav.ts *)
(* and restarts, over the manager and its connections.                     *)
(*                                                                         *)
(* A check opens the file with the content it has written, waits three     *)
(* seconds for diagnostics to be published, asks for them if none are, and *)
(* closes the file.  Checks of one file follow each other.                 *)
(***************************************************************************)
EXTENDS LspManager

CONSTANT Mixes  \* what the calls may be doing together

ASSUME CallsAssumption == Mixes \subseteq [Calls -> {"check", "navigate", "restart", "shutdown"}]

VARIABLES
    kind,    \* what each call does
    chain,   \* per connection and document, who holds or awaits its lock
    result   \* what each check has reported: a status and the content that
             \* the diagnostics are about

callVars == <<kind, pc, server, chain, result>>
vars == <<connVars, mgrVars, callVars>>

Init ==
    /\ ConnInit
    /\ MgrInit
    /\ kind \in Mixes
    /\ pc = [k \in Calls |-> "idle"]
    /\ server = [k \in Calls |-> NoConn]
    /\ chain = [c \in Conns |-> [d \in Docs |-> <<>>]]
    /\ result = [k \in Calls |-> [status |-> "none", text |-> NoText]]

Report(k, s, t) == result' = [result EXCEPT ![k] = [status |-> s, text |-> t]]

-----------------------------------------------------------------------------
(* A call asks for the server, with the manager it was given when it       *)
(* began, which may be that of a session that has ended since.             *)
Ask(k) ==
    /\ pc[k] = "idle" /\ kind[k] \in {"check", "navigate"}
    /\ GetServer(k)
    /\ UNCHANGED <<kind, chain, result>>

(* restartServer, and the shutdown of the session: removeServer, awaited.  *)
Remove(k) ==
    /\ pc[k] = "idle" /\ kind[k] \in {"restart", "shutdown"}
    /\ RemoveServer
    /\ server' = [server EXCEPT ![k] = table]
    /\ Goto(k, "removing")
    /\ UNCHANGED <<kind, chain, result>>

Removed(k) == server[k] # NoConn => stop[server[k]] = "done"

Restart(k) ==
    /\ pc[k] = "removing" /\ kind[k] = "restart" /\ Removed(k)
    /\ GetServer(k)
    /\ UNCHANGED <<kind, chain, result>>

ShutDown(k) ==
    /\ pc[k] = "removing" /\ kind[k] = "shutdown" /\ Removed(k)
    /\ Goto(k, "done")
    /\ UNCHANGED <<connVars, mgrVars, kind, server, chain, result>>

Conclude(k) ==
    /\ pc[k] = "served" /\ (server[k] = NoConn \/ kind[k] = "restart")
    /\ Goto(k, "done")
    /\ Report(k, IF kind[k] = "check" THEN "unavailable" ELSE "none", NoText)
    /\ UNCHANGED <<connVars, mgrVars, kind, server, chain>>

-----------------------------------------------------------------------------
(* A request of semantic-nav.ts.                                           *)
Navigate(k) ==
    /\ pc[k] = "served" /\ kind[k] = "navigate" /\ server[k] # NoConn
    /\ StartRequest(k, server[k], "navigate", conn[server[k]], srv[server[k]])
    /\ Goto(k, "navigating")
    /\ UNCHANGED <<heard, faults, mgrVars, kind, server, chain, result>>

Navigated(k) ==
    /\ pc[k] = "navigating" /\ req[k].st # "open"
    /\ Goto(k, "done")
    /\ UNCHANGED <<connVars, mgrVars, kind, server, chain, result>>

-----------------------------------------------------------------------------
(* withOpenDocument.                                                       *)

Lock(k) == chain[server[k]][DocOf[k]]

(* locks.get(uri), locks.set(uri, nextLock).                               *)
Enqueue(k) ==
    /\ pc[k] = "served" /\ kind[k] = "check" /\ server[k] # NoConn
    /\ chain' = [chain EXCEPT ![server[k]][DocOf[k]] = Append(@, k)]
    /\ Goto(k, "queued")
    /\ UNCHANGED <<connVars, mgrVars, kind, server, result>>

(* Bug: the lock before is not awaited.                                    *)
BugTurn(k) == TRUE

(* await prevLock.                                                         *)
Turn(k) == Lock(k) # <<>> /\ Head(Lock(k)) = k

(* didOpen, and a request whose answer shows that it has been seen.        *)
Open(k) ==
    /\ pc[k] = "queued" /\ Turn(k)
    /\ StartRequest(k, server[k], "sync", conn[server[k]],
                    ShownDocument(srv[server[k]], DocOf[k], TextOf[k]))
    /\ Goto(k, "sync")
    /\ UNCHANGED <<heard, faults, mgrVars, kind, server, chain, result>>

(* The handler is registered before the wait.                              *)
Listen(k) ==
    /\ pc[k] = "sync" /\ req[k].st # "open"
    /\ conn' = [conn EXCEPT ![server[k]].listeners = @ \cup {k}]
    /\ Goto(k, "listen")
    /\ UNCHANGED <<srv, req, timers, heard, faults,
                   mgrVars, kind, server, chain, result>>

Heard(k) ==
    /\ pc[k] = "listen" /\ heard[k] # Nothing
    /\ Report(k, "confirmed", heard[k])
    /\ Goto(k, "close")
    /\ UNCHANGED <<connVars, mgrVars, kind, server, chain>>

(* Bug: a handler is left to end the wait, which an exit has removed.      *)
BugListenTimeout(k) ==
    /\ pc[k] = "listen" /\ heard[k] = Nothing
    /\ k \in conn[server[k]].listeners
    /\ StartRequest(k, server[k], "pull",
                    [conn[server[k]] EXCEPT !.listeners = @ \ {k}], srv[server[k]])
    /\ Goto(k, "pull")
    /\ UNCHANGED <<heard, faults, mgrVars, kind, server, chain, result>>

(* Three seconds without diagnostics: unsubscribe, and ask for them.       *)
ListenTimeout(k) ==
    /\ pc[k] = "listen" /\ heard[k] = Nothing
    /\ StartRequest(k, server[k], "pull",
                    [conn[server[k]] EXCEPT !.listeners = @ \ {k}], srv[server[k]])
    /\ Goto(k, "pull")
    /\ UNCHANGED <<heard, faults, mgrVars, kind, server, chain, result>>

Pulled(k) ==
    /\ pc[k] = "pull" /\ req[k].st # "open"
    /\ IF req[k].st = "ok" THEN Report(k, "confirmed", req[k].text)
       ELSE Report(k, "unconfirmed", NoText)
    /\ Goto(k, "close")
    /\ UNCHANGED <<connVars, mgrVars, kind, server, chain>>

(* didClose unless the connection is closed, then resolveLock.             *)
CloseDocument(k) ==
    /\ pc[k] = "close"
    /\ srv' = IF conn[server[k]].open
              THEN [srv EXCEPT ![server[k]] = ShownDocument(@, DocOf[k], NoText)] ELSE srv
    /\ chain' = [chain EXCEPT ![server[k]][DocOf[k]] = Tail(@)]
    /\ Goto(k, "done")
    /\ UNCHANGED <<conn, req, timers, heard, faults, mgrVars, kind, server, result>>

-----------------------------------------------------------------------------
CallStep(k) ==
    \/ Restart(k) \/ ShutDown(k) \/ Conclude(k)
    \/ Navigate(k) \/ Navigated(k)
    \/ Enqueue(k) \/ Open(k) \/ Listen(k) \/ Heard(k) \/ ListenTimeout(k)
    \/ Pulled(k) \/ CloseDocument(k)

StartStep ==
    \/ NotFound \/ \E c \in Conns : Spawn(c)
    \/ Started \/ StartFailed \/ NextConfig \/ NoServer

(* The steps of connections and servers leave calls and manager alone.     *)
ConnStep(c) ==
    \/ ReceiveAnswer(c) \/ ReceiveDiagnostics(c) \/ ExitSeen(c) \/ Overflow(c)
    \/ ServerAsks(c) \/ ServerExits(c)

ManagerStep == StartStep \/ \E c \in Conns : Kill(c)

(* What the event loop does by itself: continuations and timers.           *)
LoopStep ==
    \/ \E k \in Calls : CallStep(k)
    \/ ManagerStep /\ UNCHANGED <<kind, chain, result>>
    \/ (\E o \in Owners : Timeout(o)) /\ UNCHANGED <<mgrVars, callVars>>

Next ==
    \/ LoopStep
    \/ \E k \in Calls : Ask(k) \/ Remove(k)
    \/ (\E c \in Conns : ConnStep(c)) /\ UNCHANGED <<mgrVars, callVars>>

Spec == Init /\ [][Next]_vars

(* The event loop runs as long as it has something to do; nothing is       *)
(* expected of a server.                                                   *)
FairSpec == Spec /\ WF_vars(LoopStep)

-----------------------------------------------------------------------------
TypeOK ==
    /\ ConnTypeOK /\ MgrTypeOK
    /\ kind \in Mixes
    /\ pc \in [Calls -> {"idle", "removing", "waiting", "served", "navigating", "queued",
                         "sync", "listen", "pull", "close", "done"}]
    /\ server \in [Calls -> Conns \cup {NoConn}]
    /\ chain \in [Conns -> [Docs -> Seq(Calls)]]
    /\ result \in [Calls -> [status : {"none", "unavailable", "confirmed", "unconfirmed"},
                             text : Contents]]

(* From didOpen to didClose the server has the document as this call wrote *)
(* it, and afterwards no document of a call that is done: concurrent       *)
(* checks of one file neither replace each other's text nor close it       *)
(* (document-sync.ts:58-67).                                               *)
OwnDocument ==
    \A c \in Conns, d \in Docs : srv[c].up = "up" =>
        LET using == {k \in Calls : /\ server[k] = c /\ DocOf[k] = d
                                    /\ pc[k] \in {"sync", "listen", "pull", "close"}} IN
        IF using = {} THEN srv[c].docs[d] = NoText
        ELSE \A k \in using : srv[c].docs[d] = TextOf[k]

(* Every call ends, whatever the servers do: they may be silent, exit, or  *)
(* flood, during the start, a request or a shutdown.                       *)
CallsEnd == \A k \in Calls : pc[k] # "idle" ~> pc[k] = "done"
=============================================================================
