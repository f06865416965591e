--------------------------- MODULE LspConnection ---------------------------
(***************************************************************************)
(* Connections to language servers: LSPConnection of                       *)
(* src/src/lsp/lsp-connection.ts, JSON-RPC over the pipes of a child       *)
(* process, and the process at the other end.                              *)
(*                                                                         *)
(* A request is settled by its answer, by its timer, or with all others of *)
(* its connection when the process goes or its output cannot be framed.    *)
(* The server (external) reads in order.  What it owes, answers and the    *)
(* diagnostics of the contents it was shown, it may send at any time, in   *)
(* any order, also after a document was closed, or never.                  *)
(***************************************************************************)
EXTENDS Naturals, Sequences

CONSTANTS
    Calls,      \* the tool calls that use servers
    Conns,      \* the connections that can be made, numbered
    Docs, DocOf,    \* documents, and the document of each call
    Texts, TextOf,  \* contents, and the content each call has written
    NoText,     \* the content of a document that is not open
    MaxFaults   \* bound on exits, overflows and requests of servers

Owners == Calls \cup Conns  \* a connection itself asks to start and to stop

ASSUME LspAssumption ==
    /\ Calls \cap Conns = {} /\ Conns \subseteq Nat
    /\ DocOf \in [Calls -> Docs]
    /\ TextOf \in [Calls -> Texts]
    /\ NoText \notin Texts
    /\ MaxFaults \in Nat

Methods == {"none", "initialize", "shutdown", "sync", "pull", "navigate"}

(* messageId: nobody sends the same request twice.                         *)
Ids == Owners \X Methods

VARIABLES
    conn,      \* per connection: open (not closed), attached (has handlers on
               \* the process), pending, and listeners (for diagnostics)
    srv,       \* per connection its process: up, the docs it has open, and
               \* the messages it owes
    req,       \* the latest request of each owner, and what became of it
    timers,    \* requests whose timer runs
    heard,     \* what a listener has been given
    faults

connVars == <<conn, srv, req, timers, heard, faults>>

Nothing == "nothing"  \* not heard yet

Fresh(c) == srv[c].up = "new"
IdOf(o) == <<o, req[o].method>>

ConnInit ==
    /\ conn = [c \in Conns |->
                  [open |-> FALSE, attached |-> FALSE, pending |-> {}, listeners |-> {}]]
    /\ srv = [c \in Conns |->
                 [up |-> "new", docs |-> [d \in Docs |-> NoText], owes |-> {}]]
    /\ req = [o \in Owners |-> [method |-> "none", st |-> "settled", text |-> NoText]]
    /\ timers = {}
    /\ heard = [k \in Calls |-> Nothing]
    /\ faults = 0

-----------------------------------------------------------------------------
(* What the methods of a connection do.                                    *)

Asked(m) == [method |-> m, st |-> "open", text |-> NoText]
Refused(m) == [method |-> m, st |-> "failed", text |-> NoText]

Answer(id, t) == [kind |-> "answer", to |-> id, text |-> t]
Publication(d, t) == [kind |-> "publish", to |-> d, text |-> t]
Question(id) == [kind |-> "ask", to |-> id, text |-> NoText]

(* What a process reads: a request ...                                     *)
ShownRequest(s, o, m) ==
    IF s.up # "up" THEN s
    ELSE [s EXCEPT !.owes = @ \cup
             {Answer(<<o, m>>, IF m = "pull" THEN s.docs[DocOf[o]] ELSE NoText)}]

(* ... and a document that is opened with a content, or closed.            *)
ShownDocument(s, d, t) ==
    IF s.up # "up" THEN s
    ELSE [s EXCEPT !.docs[d] = t, !.owes = @ \cup {Publication(d, t)}]

(* request(m) of o on c, whose record is now cn and whose process is in    *)
(* state s.                                                                *)
StartRequest(o, c, m, cn, s) ==
    IF conn[c].open
    THEN /\ req' = [req EXCEPT ![o] = Asked(m)]
         /\ timers' = timers \cup {<<o, m>>}
         /\ conn' = [conn EXCEPT ![c] = [cn EXCEPT !.pending = @ \cup {<<o, m>>}]]
         /\ srv' = [srv EXCEPT ![c] = ShownRequest(s, o, m)]
    ELSE /\ req' = [req EXCEPT ![o] = Refused(m)]
         /\ conn' = [conn EXCEPT ![c] = cn]
         /\ UNCHANGED <<timers, srv>>

(* The requests that are settled in state st by the end of a connection.   *)
Ended(ids) ==
    [o \in Owners |-> IF req[o].st = "open" /\ IdOf(o) \in ids
                      THEN Refused(req[o].method) ELSE req[o]]

(* for (const [, cb] of this.pending) { clearTimeout; cb.reject }          *)
RejectAll(c) ==
    /\ req' = Ended(conn[c].pending)
    /\ timers' = timers \ conn[c].pending

Closed(cn) == [cn EXCEPT !.open = FALSE, !.pending = {}, !.listeners = {}]
Down(s) == [s EXCEPT !.up = "down"]

-----------------------------------------------------------------------------
(* What happens to a connection.                                           *)

(* The request timer.                                                      *)
Timeout(o) ==
    /\ IdOf(o) \in timers
    /\ timers' = timers \ {IdOf(o)}
    /\ conn' = [c \in Conns |-> [conn[c] EXCEPT !.pending = @ \ {IdOf(o)}]]
    /\ req' = [req EXCEPT ![o] = Refused(@.method)]
    /\ UNCHANGED <<srv, heard, faults>>

(* Bug: a request of the server settles ours of the same number.           *)
BugSettles(m) == m.kind \in {"answer", "ask"}

(* message.id != null && !message.method                                   *)
Settles(m) == m.kind = "answer"

(* onData: the answer, or the error, for a pending request.                *)
ReceiveAnswer(c) ==
    /\ conn[c].attached
    /\ \E m \in srv[c].owes, st \in {"ok", "failed"} :
          /\ Settles(m) /\ m.to \in conn[c].pending
          /\ srv' = [srv EXCEPT ![c].owes = @ \ {m}]
          /\ req' = [req EXCEPT ![m.to[1]] = [@ EXCEPT !.st = st, !.text = m.text]]
          /\ timers' = timers \ {m.to}
          /\ conn' = [conn EXCEPT ![c].pending = @ \ {m.to}]
    /\ UNCHANGED <<heard, faults>>

(* onData: diagnostics for whoever listens.  A message for nobody is as if *)
(* it had not been sent.                                                   *)
ReceiveDiagnostics(c) ==
    /\ conn[c].attached
    /\ \E m \in srv[c].owes :
          LET hs == {k \in conn[c].listeners : m.kind = "publish" /\ DocOf[k] = m.to} IN
          /\ hs # {}
          /\ srv' = [srv EXCEPT ![c].owes = @ \ {m}]
          /\ heard' = [k \in Calls |-> IF k \in hs THEN m.text ELSE heard[k]]
          /\ conn' = [conn EXCEPT ![c].listeners = @ \ hs]
    /\ UNCHANGED <<req, timers, faults>>

(* onExit and onError.                                                     *)
ExitSeen(c) ==
    /\ conn[c].attached /\ conn[c].open /\ srv[c].up = "down"
    /\ RejectAll(c)
    /\ conn' = [conn EXCEPT ![c] = Closed(@)]
    /\ UNCHANGED <<srv, heard, faults>>

(* The receive buffer has grown over its limit.                            *)
Overflow(c) ==
    /\ conn[c].attached /\ srv[c].up = "up" /\ faults < MaxFaults
    /\ faults' = faults + 1
    /\ RejectAll(c)
    /\ conn' = [conn EXCEPT ![c] = [Closed(@) EXCEPT !.attached = FALSE]]
    /\ srv' = [srv EXCEPT ![c] = Down(@)]
    /\ UNCHANGED heard

-----------------------------------------------------------------------------
(* What a server does besides.                                             *)

(* A request of the server, whose number one of ours has too.              *)
ServerAsks(c) ==
    /\ srv[c].up = "up" /\ faults < MaxFaults
    /\ faults' = faults + 1
    /\ \E id \in conn[c].pending : srv' = [srv EXCEPT ![c].owes = @ \cup {Question(id)}]
    /\ UNCHANGED <<conn, req, timers, heard>>

ServerExits(c) ==
    /\ srv[c].up = "up" /\ faults < MaxFaults
    /\ faults' = faults + 1
    /\ srv' = [srv EXCEPT ![c] = Down(@)]
    /\ UNCHANGED <<conn, req, timers, heard>>

-----------------------------------------------------------------------------
Contents == Texts \cup {NoText}

Messages ==
    [kind : {"answer", "ask"}, to : Ids, text : Contents]
        \cup [kind : {"publish"}, to : Docs, text : Contents]

ConnTypes == [open : BOOLEAN, attached : BOOLEAN,
              pending : SUBSET Ids, listeners : SUBSET Calls]
SrvTypes == [up : {"new", "up", "down"}, docs : [Docs -> Contents],
             owes : SUBSET Messages]
ReqTypes == [method : Methods, st : {"settled", "open", "ok", "failed"}, text : Contents]

ConnTypeOK ==
    /\ conn \in [Conns -> ConnTypes]
    /\ srv \in [Conns -> SrvTypes]
    /\ req \in [Owners -> ReqTypes]
    /\ timers \subseteq Ids
    /\ heard \in [Calls -> Contents \cup {Nothing}]
    /\ faults \in Nat

(* A request is settled by its timer if by nothing else: whatever empties  *)
(* the table of pending requests, nobody waits for a request whose timer   *)
(* no longer runs (lsp-connection.ts:94-120, 297-323).                     *)
UnsettledIsTimed == \A o \in Owners : req[o].st = "open" => IdOf(o) \in timers
=============================================================================
