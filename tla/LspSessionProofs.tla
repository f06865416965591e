-------------------------- MODULE LspSessionProofs --------------------------
(* What is proved of LspSession, for every number of calls, connections,   *)
(* configurations, documents and faults.                                   *)
EXTENDS LspSession, SequenceTheorems, TLAPS

(* An answer is owed to a request.                                         *)
LEMMA AnswerTyped ==
  ASSUME NEW id \in Ids, NEW t \in Contents
  PROVE  Answer(id, t) \in Messages /\ Question(id) \in Messages
  BY DEF Answer, Question, Messages, Contents

(* A process that reads a request or a document stays within its type.     *)
LEMMA ShownTyped ==
  ASSUME NEW s \in SrvTypes
  PROVE  /\ \A o \in Owners, m \in Methods :
               (m = "pull" => o \in Calls) => ShownRequest(s, o, m) \in SrvTypes
         /\ \A d \in Docs, t \in Contents : ShownDocument(s, d, t) \in SrvTypes
         /\ Down(s) \in SrvTypes
<1>1. ASSUME NEW o \in Owners, NEW m \in Methods, m = "pull" => o \in Calls
      PROVE  ShownRequest(s, o, m) \in SrvTypes
  <2> DEFINE t == IF m = "pull" THEN s.docs[DocOf[o]] ELSE NoText
  <2>1. t \in Contents
    BY <1>1, LspAssumption DEF SrvTypes, Contents
  <2>2. Answer(<<o, m>>, t) \in Messages
    BY <2>1, AnswerTyped DEF Ids
  <2> QED
    BY <2>2 DEF ShownRequest, SrvTypes
<1>2. ASSUME NEW d \in Docs, NEW t \in Contents
      PROVE  ShownDocument(s, d, t) \in SrvTypes
  <2>1. Publication(d, t) \in Messages
    BY DEF Publication, Messages
  <2> QED
    BY <2>1 DEF ShownDocument, SrvTypes
<1>3. Down(s) \in SrvTypes
  BY DEF Down, SrvTypes
<1> QED
  BY <1>1, <1>2, <1>3

(* A request keeps the types, and times what it starts.                    *)
LEMMA RequestTyped ==
  ASSUME ConnTypeOK, UnsettledIsTimed, NEW c \in Conns, NEW o \in Owners, NEW m \in Methods,
         m = "pull" => o \in Calls, NEW cn \in ConnTypes, NEW s \in SrvTypes,
         StartRequest(o, c, m, cn, s), UNCHANGED <<heard, faults>>
  PROVE  ConnTypeOK' /\ UnsettledIsTimed'
<1>1. ShownRequest(s, o, m) \in SrvTypes
  BY ShownTyped
<1>2. <<o, m>> \in Ids
  BY DEF Ids
<1>3. NoText \in Contents
  BY DEF Contents
<1>4. CASE conn[c].open
  <2>1. req' = [req EXCEPT ![o] = Asked(m)] /\ timers' = timers \cup {<<o, m>>}
    BY <1>4 DEF StartRequest
  <2>2. Asked(m) \in ReqTypes
    BY <1>3 DEF Asked, ReqTypes
  <2>3. [cn EXCEPT !.pending = @ \cup {<<o, m>>}] \in ConnTypes
    BY <1>2 DEF ConnTypes
  <2>4. ConnTypeOK'
    BY <1>1, <1>2, <1>4, <2>1, <2>2, <2>3 DEF ConnTypeOK, StartRequest
  <2>5. UnsettledIsTimed'
    BY <2>1 DEF ConnTypeOK, UnsettledIsTimed, IdOf, Asked
  <2> QED
    BY <2>4, <2>5
<1>5. CASE ~conn[c].open
  BY <1>3, <1>5 DEF ConnTypeOK, StartRequest, UnsettledIsTimed, IdOf, Refused, ReqTypes
<1> QED
  BY <1>4, <1>5

(* Taking something away from a connection or a process keeps its type.    *)
LEMMA FewerTyped ==
  ASSUME NEW cn \in ConnTypes, NEW s \in SrvTypes, NEW X
  PROVE  /\ [cn EXCEPT !.pending = @ \ X] \in ConnTypes
         /\ [cn EXCEPT !.listeners = @ \ X] \in ConnTypes
         /\ [s EXCEPT !.owes = @ \ X] \in SrvTypes
<1>1. cn.pending \ X \in SUBSET Ids /\ cn.listeners \ X \in SUBSET Calls
  BY DEF ConnTypes
<1>2. s.owes \ X \in SUBSET Messages
  BY DEF SrvTypes
<1> QED
  BY <1>1, <1>2 DEF ConnTypes, SrvTypes

(* So does making a connection, or closing one for good.                   *)
LEMMA UpdateTyped ==
  ASSUME NEW cn \in ConnTypes, NEW s \in SrvTypes, NEW id \in Ids, NEW up \in {"up", "down"}
  PROVE  /\ [cn EXCEPT !.open = TRUE, !.attached = TRUE, !.pending = {id}] \in ConnTypes
         /\ [Closed(cn) EXCEPT !.attached = FALSE] \in ConnTypes
         /\ Closed(cn) \in ConnTypes
         /\ [s EXCEPT !.up = up] \in SrvTypes
  BY DEF ConnTypes, SrvTypes, Closed

(* So do the events of a connection and the timers.                        *)
LEMMA EventTyped ==
  ASSUME ConnTypeOK, UnsettledIsTimed,
         \/ \E c \in Conns : ConnStep(c)
         \/ \E o \in Owners : Timeout(o)
  PROVE  ConnTypeOK' /\ UnsettledIsTimed'
<1> DEFINE G == ConnTypeOK' /\ UnsettledIsTimed'
<1> USE DEF ConnTypeOK
<1>0. NoText \in Contents
  BY DEF Contents
<1>1. ASSUME NEW o \in Owners, Timeout(o) PROVE G
  <2>1. conn' \in [Conns -> ConnTypes]
    BY <1>1, FewerTyped DEF Timeout
  <2>2. req' \in [Owners -> ReqTypes]
    BY <1>0, <1>1 DEF Timeout, Refused, ReqTypes
  <2>3. UnsettledIsTimed'
    BY <1>1 DEF Timeout, UnsettledIsTimed, IdOf, Refused
  <2> QED
    BY <1>1, <2>1, <2>2, <2>3 DEF Timeout
<1>2. ASSUME NEW c \in Conns, ReceiveAnswer(c) PROVE G
  <2>1. PICK m \in srv[c].owes, st \in {"ok", "failed"} :
          /\ Settles(m) /\ m.to \in conn[c].pending
          /\ srv' = [srv EXCEPT ![c].owes = @ \ {m}]
          /\ req' = [req EXCEPT ![m.to[1]] = [@ EXCEPT !.st = st, !.text = m.text]]
          /\ timers' = timers \ {m.to}
          /\ conn' = [conn EXCEPT ![c].pending = @ \ {m.to}]
    BY <1>2 DEF ReceiveAnswer
  <2>2. m \in Messages /\ m.to \in Ids
    BY <2>1 DEF ConnTypes, SrvTypes
  <2>3. m.text \in Contents /\ m.to[1] \in Owners
    BY <2>2 DEF Messages, Ids
  <2>4. conn' \in [Conns -> ConnTypes] /\ srv' \in [Conns -> SrvTypes]
    BY <2>1, FewerTyped
  <2>5. req' \in [Owners -> ReqTypes]
    BY <2>1, <2>3 DEF ReqTypes
  <2>6. UnsettledIsTimed'
    BY <2>1, <2>3 DEF UnsettledIsTimed, IdOf
  <2> QED
    BY <1>2, <2>1, <2>4, <2>5, <2>6 DEF ReceiveAnswer
<1>3. ASSUME NEW c \in Conns, ReceiveDiagnostics(c) PROVE G
  <2>1. PICK m \in srv[c].owes :
          LET hs == {k \in conn[c].listeners : m.kind = "publish" /\ DocOf[k] = m.to} IN
          /\ srv' = [srv EXCEPT ![c].owes = @ \ {m}]
          /\ heard' = [k \in Calls |-> IF k \in hs THEN m.text ELSE heard[k]]
          /\ conn' = [conn EXCEPT ![c].listeners = @ \ hs]
    BY <1>3 DEF ReceiveDiagnostics
  <2>2. m \in Messages
    BY DEF SrvTypes
  <2>3. m.text \in Contents
    BY <2>2 DEF Messages
  <2>4. conn' \in [Conns -> ConnTypes] /\ srv' \in [Conns -> SrvTypes]
    BY <2>1, FewerTyped
  <2> QED
    BY <1>3, <2>1, <2>3, <2>4 DEF ReceiveDiagnostics, UnsettledIsTimed, IdOf
<1>4. ASSUME NEW c \in Conns, RejectAll(c)
      PROVE  /\ req' \in [Owners -> ReqTypes]
             /\ timers' \subseteq Ids /\ UnsettledIsTimed'
  <2>1. req' = Ended(conn[c].pending) /\ timers' = timers \ conn[c].pending
    BY <1>4 DEF RejectAll
  <2> QED
    BY <1>0, <2>1 DEF Ended, UnsettledIsTimed, IdOf, Refused, ReqTypes
<1>5. ASSUME NEW c \in Conns, ExitSeen(c) PROVE G
  <2>1. conn' \in [Conns -> ConnTypes]
    BY <1>5 DEF ExitSeen, Closed, ConnTypes
  <2> QED
    BY <1>4, <1>5, <2>1 DEF ExitSeen
<1>6. ASSUME NEW c \in Conns, Overflow(c) PROVE G
  <2>1. conn' \in [Conns -> ConnTypes]
    BY <1>6 DEF Overflow, Closed, ConnTypes
  <2>2. srv' \in [Conns -> SrvTypes]
    BY <1>6, ShownTyped DEF Overflow
  <2> QED
    BY <1>4, <1>6, <2>1, <2>2 DEF Overflow
<1>7. ASSUME NEW c \in Conns, ServerAsks(c) PROVE G
  <2>1. PICK id \in conn[c].pending : srv' = [srv EXCEPT ![c].owes = @ \cup {Question(id)}]
    BY <1>7 DEF ServerAsks
  <2>2. Question(id) \in Messages
    BY <1>0, AnswerTyped DEF ConnTypes
  <2>3. srv' \in [Conns -> SrvTypes]
    BY <2>1, <2>2 DEF SrvTypes
  <2> QED
    BY <1>7, <2>3 DEF ServerAsks, UnsettledIsTimed, IdOf
<1>8. ASSUME NEW c \in Conns, ServerExits(c) PROVE G
  BY <1>8, ShownTyped DEF ServerExits, UnsettledIsTimed, IdOf
<1> QED
  BY <1>1, <1>2, <1>3, <1>5, <1>6, <1>7, <1>8 DEF ConnStep

-----------------------------------------------------------------------------
(* A connection whose process runs is open; one that was shut down has     *)
(* none; what is in use has been spawned; a start has the table to itself. *)
Serving ==
    /\ \A c \in Conns : /\ srv[c].up = "up" => conn[c].open
                        /\ stop[c] = "done" => srv[c].up = "down"
    /\ table # NoConn => ~Fresh(table)
    /\ new # NoConn => ~Fresh(new)
    /\ \A k \in Calls : server[k] # NoConn => ~Fresh(server[k])
    /\ start # "off" => table = NoConn
    /\ new # NoConn <=> start \in {"init", "clean"}

(* Calls that use a document hold its lock.                                *)
Holding == {"sync", "listen", "pull", "close"}
Using == Holding \cup {"queued", "navigating"}

Locked ==
    \A k \in Calls : /\ pc[k] \in Using => server[k] \in Conns
                     /\ pc[k] \in Holding => Turn(k)

IInv ==
    /\ TypeOK /\ UnsettledIsTimed
    /\ Serving /\ NoStrayServer
    /\ Locked

(* The shutdown of a connection keeps the types.                           *)
LEMMA StopTyped ==
  ASSUME ConnTypeOK, MgrTypeOK, UnsettledIsTimed, NEW c \in Conns,
         BeginStop(c), UNCHANGED <<heard, faults>>
  PROVE  /\ ConnTypeOK' /\ UnsettledIsTimed'
         /\ stop' \in [Conns -> {"no", "asked", "done"}]
<1>1. ConnTypeOK /\ conn[c] \in ConnTypes /\ srv[c] \in SrvTypes
  BY DEF ConnTypeOK
<1>2. CASE conn[c].open
  <2>1. StartRequest(c, c, "shutdown", conn[c], srv[c])
    BY <1>2 DEF BeginStop
  <2>2. ConnTypeOK' /\ UnsettledIsTimed'
    BY <1>1, <2>1, RequestTyped DEF Owners, Methods
  <2> QED
    BY <1>2, <2>2 DEF BeginStop, MgrTypeOK
<1>3. CASE ~conn[c].open
  <2>1. Closed(conn[c]) \in ConnTypes
    BY <1>1 DEF Closed, ConnTypes
  <2>2. ConnTypeOK'
    BY <1>1, <1>3, <2>1 DEF BeginStop, ConnTypeOK
  <2>3. UnsettledIsTimed'
    BY <1>3 DEF BeginStop, UnsettledIsTimed, IdOf
  <2> QED
    BY <1>3, <2>2, <2>3 DEF BeginStop, MgrTypeOK
<1> QED
  BY <1>2, <1>3

(* Nobody has anything at the start.                                       *)
LEMMA InitIInv == Init => IInv
<1> SUFFICES ASSUME Init PROVE IInv
  OBVIOUS
<1> USE DEF Init, ConnInit, MgrInit
<1>1. TypeOK
  BY LspAssumption, CallsAssumption DEF TypeOK, ConnTypeOK, MgrTypeOK, ConnTypes, SrvTypes, ReqTypes, Contents, Methods
<1>2. UnsettledIsTimed /\ NoStrayServer
  BY DEF UnsettledIsTimed, NoStrayServer
<1>3. Serving
  BY DEF Serving, Fresh
<1>4. Locked
  BY DEF Locked, Using, Holding
<1> QED
  BY <1>1, <1>2, <1>3, <1>4 DEF IInv

(* Steps that leave connections alone keep what is known of them.          *)
LEMMA StillTyped ==
  ASSUME ConnTypeOK, UnsettledIsTimed, UNCHANGED <<conn, srv, req, timers, heard, faults>>
  PROVE  ConnTypeOK' /\ UnsettledIsTimed'
  BY DEF ConnTypeOK, UnsettledIsTimed, IdOf

(* getServer keeps the types.                                              *)
LEMMA GetTyped ==
  ASSUME TypeOK, UnsettledIsTimed, NEW k \in Calls, GetServer(k)
  PROVE  /\ ConnTypeOK' /\ UnsettledIsTimed' /\ MgrTypeOK'
         /\ \/ Goto(k, "waiting") /\ server' = server
            \/ Serve(k, table) /\ table # NoConn
<1> USE DEF TypeOK
<1>1. CASE /\ UNCHANGED <<connVars, mgrVars>>
           /\ \/ Goto(k, "waiting") /\ server' = server
              \/ Serve(k, table) /\ table # NoConn
  <2>1. ConnTypeOK' /\ UnsettledIsTimed'
    BY <1>1, StillTyped DEF connVars
  <2> QED
    BY <1>1, <2>1 DEF MgrTypeOK, mgrVars
<1>2. CASE /\ table # NoConn /\ BeginStop(table) /\ UNCHANGED <<heard, faults, new, server>>
           /\ table' = NoConn /\ start' = "probe" /\ config' = 1 /\ Goto(k, "waiting")
  <2>1. table \in Conns
    BY <1>2 DEF MgrTypeOK
  <2>2. ConnTypeOK' /\ UnsettledIsTimed' /\ stop' \in [Conns -> {"no", "asked", "done"}]
    BY <1>2, <2>1, StopTyped
  <2> QED
    BY <1>2, <2>2 DEF MgrTypeOK
<1>3. CASE /\ table = NoConn /\ UNCHANGED <<connVars, stop, new, server>>
           /\ table' = NoConn /\ start' = "probe" /\ config' = 1 /\ Goto(k, "waiting")
  <2>1. ConnTypeOK' /\ UnsettledIsTimed'
    BY <1>3, StillTyped DEF connVars
  <2> QED
    BY <1>3, <2>1 DEF MgrTypeOK
<1> QED
  BY <1>1, <1>2, <1>3 DEF GetServer, connVars

(* removeServer keeps the types.                                           *)
LEMMA RemoveTyped ==
  ASSUME TypeOK, UnsettledIsTimed, RemoveServer
  PROVE  ConnTypeOK' /\ UnsettledIsTimed' /\ MgrTypeOK'
<1> USE DEF TypeOK
<1>1. CASE table = NoConn
  <2>1. ConnTypeOK' /\ UnsettledIsTimed'
    BY <1>1, StillTyped DEF RemoveServer
  <2> QED
    BY <1>1, <2>1 DEF RemoveServer, MgrTypeOK
<1>2. CASE table # NoConn
  <2>1. /\ table \in Conns /\ BeginStop(table) /\ UNCHANGED <<heard, faults>>
    BY <1>2 DEF RemoveServer, MgrTypeOK
  <2>2. ConnTypeOK' /\ UnsettledIsTimed' /\ stop' \in [Conns -> {"no", "asked", "done"}]
    BY <2>1, StopTyped
  <2> QED
    BY <2>2 DEF RemoveServer, MgrTypeOK
<1> QED
  BY <1>1, <1>2

(* A step of the start or of a shutdown keeps the types.                   *)
LEMMA ManagerTyped ==
  ASSUME IInv, ManagerStep
  PROVE  /\ ConnTypeOK' /\ UnsettledIsTimed' /\ MgrTypeOK'
         /\ \/ UNCHANGED <<pc, server>>
            \/ Resolve(NoConn)
            \/ Resolve(new) /\ new \in Conns
<1> USE DEF IInv, TypeOK
<1>1. ASSUME NotFound \/ NextConfig \/ NoServer \/ Started
      PROVE  ConnTypeOK' /\ UnsettledIsTimed' /\ MgrTypeOK'
  <2>1. UNCHANGED <<conn, srv, req, timers, heard, faults>>
    BY <1>1 DEF NotFound, NextConfig, NoServer, Started, connVars
  <2>2. ConnTypeOK' /\ UnsettledIsTimed'
    BY <2>1, StillTyped
  <2>3. MgrTypeOK'
    BY <1>1 DEF NotFound, NextConfig, NoServer, Started, Resolve, MgrTypeOK
  <2> QED
    BY <2>2, <2>3
<1>2. ASSUME NEW c \in Conns, Spawn(c)
      PROVE  ConnTypeOK' /\ UnsettledIsTimed' /\ MgrTypeOK'
  <2>1. /\ <<c, "initialize">> \in Ids /\ NoText \in Contents
        /\ Asked("initialize") \in ReqTypes
    BY DEF Ids, Owners, Methods, Contents, Asked, ReqTypes
  <2>2. PICK up \in {"up", "down"} :
          srv' = [srv EXCEPT ![c] = ShownRequest([@ EXCEPT !.up = up], c, "initialize")]
    BY <1>2 DEF Spawn
  <2>0. conn[c] \in ConnTypes /\ srv[c] \in SrvTypes
    BY DEF ConnTypeOK
  <2>3. [srv[c] EXCEPT !.up = up] \in SrvTypes
    BY <2>0, <2>1, UpdateTyped
  <2>4. ShownRequest([srv[c] EXCEPT !.up = up], c, "initialize") \in SrvTypes
    BY <2>3, ShownTyped DEF Owners, Methods
  <2>5. srv' \in [Conns -> SrvTypes]
    BY <2>2, <2>4 DEF ConnTypeOK
  <2>6. conn' \in [Conns -> ConnTypes]
    <3>1. [conn[c] EXCEPT !.open = TRUE, !.attached = TRUE,
                          !.pending = {<<c, "initialize">>}] \in ConnTypes
      BY <2>0, <2>1, UpdateTyped
    <3> QED
      BY <1>2, <3>1 DEF Spawn, ConnTypeOK
  <2>7. UnsettledIsTimed'
    BY <1>2 DEF Spawn, UnsettledIsTimed, IdOf, Asked, ConnTypeOK
  <2>8. ConnTypeOK'
    BY <1>2, <2>1, <2>5, <2>6 DEF Spawn, ConnTypeOK, Owners
  <2> QED
    BY <1>2, <2>7, <2>8 DEF Spawn, MgrTypeOK
<1>3. ASSUME StartFailed
      PROVE  ConnTypeOK' /\ UnsettledIsTimed' /\ MgrTypeOK'
  <2>1. new \in Conns
    BY <1>3 DEF StartFailed, Serving, MgrTypeOK
  <2>2. ConnTypeOK' /\ UnsettledIsTimed' /\ stop' \in [Conns -> {"no", "asked", "done"}]
    BY <1>3, <2>1, StopTyped DEF StartFailed
  <2> QED
    BY <1>3, <2>2 DEF StartFailed, MgrTypeOK
<1>4. ASSUME NEW c \in Conns, Kill(c)
      PROVE  ConnTypeOK' /\ UnsettledIsTimed' /\ MgrTypeOK'
  <2>1. [Closed(conn[c]) EXCEPT !.attached = FALSE] \in ConnTypes
    <3>1. conn[c] \in ConnTypes /\ srv[c] \in SrvTypes
      BY DEF ConnTypeOK
    <3>2. \A cn \in ConnTypes : [Closed(cn) EXCEPT !.attached = FALSE] \in ConnTypes
      BY DEF ConnTypes, Closed
    <3> QED
      BY <3>1, <3>2
  <2>2. ConnTypeOK'
    BY <1>4, <2>1, ShownTyped DEF Kill, ConnTypeOK
  <2> QED
    BY <1>4, <2>2 DEF Kill, MgrTypeOK, UnsettledIsTimed, IdOf
<1>5. ASSUME NEW c \in Conns, Spawn(c) \/ Kill(c) PROVE UNCHANGED <<pc, server>>
  BY <1>5 DEF Spawn, Kill
<1>6. ASSUME NotFound \/ NextConfig \/ StartFailed PROVE UNCHANGED <<pc, server>>
  BY <1>6 DEF NotFound, NextConfig, StartFailed
<1>7. ASSUME Started PROVE Resolve(new) /\ new \in Conns
  BY <1>7 DEF Started, Serving, MgrTypeOK
<1>8. ASSUME NoServer PROVE Resolve(NoConn)
  BY <1>8 DEF NoServer
<1> QED
  BY <1>1, <1>2, <1>3, <1>4, <1>5, <1>6, <1>7, <1>8 DEF ManagerStep, StartStep

(* A step of a call keeps the types: a lock it gives back, it held.        *)
LEMMA CallTyped ==
  ASSUME IInv, NEW k \in Calls, CallStep(k) \/ Ask(k) \/ Remove(k)
  PROVE  TypeOK' /\ UnsettledIsTimed'
<1> DEFINE G == TypeOK' /\ UnsettledIsTimed'
           Silent == UNCHANGED connVars /\ MgrTypeOK'
<1> USE DEF IInv
<1>0. /\ NoText \in Contents /\ TextOf[k] \in Contents /\ DocOf[k] \in Docs
      /\ k \in Owners
      /\ \A c \in Conns : conn[c] \in ConnTypes /\ srv[c] \in SrvTypes
  BY LspAssumption DEF TypeOK, ConnTypeOK, Contents, Owners
<1>1. ASSUME UNCHANGED connVars PROVE ConnTypeOK' /\ UnsettledIsTimed'
  BY <1>1, StillTyped DEF connVars, TypeOK
<1>2. ASSUME UNCHANGED mgrVars PROVE MgrTypeOK'
  BY <1>2 DEF mgrVars, TypeOK, MgrTypeOK
<1>3. ASSUME Ask(k) \/ Restart(k) PROVE G
  <2>1. GetServer(k) /\ UNCHANGED <<kind, chain, result>>
    BY <1>3 DEF Ask, Restart
  <2>2. /\ ConnTypeOK' /\ UnsettledIsTimed' /\ MgrTypeOK'
        /\ \/ Goto(k, "waiting") /\ server' = server
           \/ Serve(k, table) /\ table # NoConn
    BY <2>1, GetTyped
  <2> QED
    BY <2>1, <2>2 DEF TypeOK, MgrTypeOK, Goto, Serve
<1>4. ASSUME Remove(k) PROVE G
  BY <1>4, RemoveTyped DEF Remove, TypeOK, MgrTypeOK, Goto
<1>5. ASSUME ShutDown(k) \/ Conclude(k) \/ Navigated(k) \/ Heard(k) \/ Pulled(k) PROVE G
  <2>1. UNCHANGED <<connVars, mgrVars, kind, server, chain>>
    BY <1>5 DEF ShutDown, Conclude, Navigated, Heard, Pulled
  <2>2. req[k].text \in Contents /\ (heard[k] # Nothing => heard[k] \in Contents)
    BY <1>0 DEF TypeOK, ConnTypeOK, ReqTypes
  <2>3. pc' \in [Calls -> {"idle", "removing", "waiting", "served", "navigating", "queued",
                           "sync", "listen", "pull", "close", "done"}]
    BY <1>5 DEF TypeOK, ShutDown, Conclude, Navigated, Heard, Pulled, Goto
  <2>4. result' \in [Calls -> [status : {"none", "unavailable", "confirmed", "unconfirmed"},
                               text : Contents]]
    BY <1>0, <1>5, <2>2 DEF TypeOK, ShutDown, Conclude, Navigated, Heard, Pulled, Report
  <2> QED
    BY <1>1, <1>2, <2>1, <2>3, <2>4 DEF TypeOK
<1>6. ASSUME NEW m \in Methods, NEW cn \in ConnTypes, NEW s \in SrvTypes,
             NEW loc \in {"navigating", "sync", "pull"}, server[k] \in Conns,
             StartRequest(k, server[k], m, cn, s), Goto(k, loc),
             UNCHANGED <<heard, faults, mgrVars, kind, server, chain, result>>
      PROVE  G
  <2>1. ConnTypeOK' /\ UnsettledIsTimed'
    BY <1>0, <1>6, RequestTyped DEF TypeOK
  <2> QED
    BY <1>2, <1>6, <2>1 DEF TypeOK, Goto
<1>7. ASSUME Navigate(k) PROVE G
  <2>1. server[k] \in Conns
    BY <1>7 DEF Navigate, TypeOK
  <2> QED
    BY <1>0, <1>6, <1>7, <2>1 DEF Navigate, Methods
<1>8. pc[k] \in Using => server[k] \in Conns
  BY DEF Locked
<1>9. ASSUME Open(k) PROVE G
  <2>1. server[k] \in Conns
    BY <1>8, <1>9 DEF Open, Using
  <2>2. ShownDocument(srv[server[k]], DocOf[k], TextOf[k]) \in SrvTypes
    BY <1>0, <2>1, ShownTyped
  <2> QED
    BY <1>0, <1>6, <1>9, <2>1, <2>2 DEF Open, Methods
<1>10. ASSUME ListenTimeout(k) PROVE G
  <2>1. server[k] \in Conns
    BY <1>8, <1>10 DEF ListenTimeout, Using, Holding
  <2>2. [conn[server[k]] EXCEPT !.listeners = @ \ {k}] \in ConnTypes
    BY <1>0, <2>1, FewerTyped
  <2> QED
    BY <1>0, <1>6, <1>10, <2>1, <2>2 DEF ListenTimeout, Methods
<1>11. ASSUME Enqueue(k) PROVE G
  <2>1. server[k] \in Conns
    BY <1>11 DEF Enqueue, TypeOK
  <2>2. chain' \in [Conns -> [Docs -> Seq(Calls)]]
    BY <1>0, <1>11, <2>1 DEF Enqueue, TypeOK
  <2> QED
    BY <1>1, <1>2, <1>11, <2>2 DEF Enqueue, TypeOK, Goto
<1>12. ASSUME Listen(k) PROVE G
  <2>1. server[k] \in Conns
    BY <1>8, <1>12 DEF Listen, Using, Holding
  <2>2. [conn[server[k]] EXCEPT !.listeners = @ \cup {k}] \in ConnTypes
    BY <1>0, <2>1 DEF ConnTypes
  <2>3. conn' \in [Conns -> ConnTypes]
    BY <1>12, <2>1, <2>2 DEF Listen, TypeOK, ConnTypeOK
  <2>4. ConnTypeOK' /\ UnsettledIsTimed'
    BY <1>12, <2>3 DEF Listen, TypeOK, ConnTypeOK, UnsettledIsTimed, IdOf
  <2> QED
    BY <1>2, <1>12, <2>4 DEF Listen, TypeOK, Goto
<1>13. ASSUME CloseDocument(k) PROVE G
  <2>1. server[k] \in Conns /\ Lock(k) # <<>>
    BY <1>13 DEF CloseDocument, Using, Holding, Locked, Turn
  <2>2. ShownDocument(srv[server[k]], DocOf[k], NoText) \in SrvTypes
    BY <1>0, <2>1, ShownTyped
  <2>3. srv' \in [Conns -> SrvTypes]
    BY <1>13, <2>1, <2>2 DEF CloseDocument, TypeOK, ConnTypeOK
  <2>4. Tail(Lock(k)) \in Seq(Calls)
    BY <1>0, <2>1, HeadTailProperties DEF Lock, TypeOK
  <2>5. chain' \in [Conns -> [Docs -> Seq(Calls)]]
    BY <1>0, <1>13, <2>1, <2>4 DEF CloseDocument, TypeOK, Lock
  <2>6. ConnTypeOK' /\ UnsettledIsTimed'
    BY <1>13, <2>3 DEF CloseDocument, TypeOK, ConnTypeOK, UnsettledIsTimed, IdOf
  <2> QED
    BY <1>2, <1>13, <2>5, <2>6 DEF CloseDocument, TypeOK, Goto
<1> QED
  BY <1>3, <1>4, <1>5, <1>7, <1>9, <1>10, <1>11, <1>12, <1>13 DEF CallStep

(* Every step keeps the types, and the timers of what is not settled.      *)
LEMMA TypeStep == IInv /\ [Next]_vars => TypeOK' /\ UnsettledIsTimed'
<1> SUFFICES ASSUME IInv, [Next]_vars PROVE TypeOK' /\ UnsettledIsTimed'
  OBVIOUS
<1>1. ASSUME NEW k \in Calls, CallStep(k) \/ Ask(k) \/ Remove(k)
      PROVE  TypeOK' /\ UnsettledIsTimed'
  BY <1>1, CallTyped
<1>2. ASSUME ManagerStep, UNCHANGED <<kind, chain, result>>
      PROVE  TypeOK' /\ UnsettledIsTimed'
  BY <1>2, ManagerTyped DEF IInv, TypeOK, Resolve
<1>3. ASSUME UNCHANGED <<mgrVars, callVars>>,
             (\E c \in Conns : ConnStep(c)) \/ (\E o \in Owners : Timeout(o))
      PROVE  TypeOK' /\ UnsettledIsTimed'
  BY <1>3, EventTyped DEF IInv, TypeOK, MgrTypeOK, mgrVars, callVars
<1>4. ASSUME UNCHANGED vars PROVE TypeOK' /\ UnsettledIsTimed'
  BY <1>4, StillTyped DEF IInv, TypeOK, MgrTypeOK, vars, connVars, mgrVars, callVars
<1> QED
  BY <1>1, <1>2, <1>3, <1>4 DEF Next, LoopStep

-----------------------------------------------------------------------------
(* Steps that start and stop no server: connections stay open while their  *)
(* processes run, and processes only go.                                   *)
Still ==
    /\ \A c \in Conns : /\ conn[c].open /\ srv'[c].up = "up" => conn'[c].open
                        /\ \/ srv'[c].up = srv[c].up
                           \/ srv[c].up = "up" /\ srv'[c].up = "down"
    /\ UNCHANGED mgrVars
    /\ \A k \in Calls : server'[k] # NoConn => server'[k] \in Conns /\ ~Fresh(server'[k])

(* A request neither opens nor ends anything.                              *)
LEMMA RequestStill ==
  ASSUME ConnTypeOK, NEW c \in Conns, NEW o, NEW m, NEW cn \in ConnTypes, NEW s \in SrvTypes,
         cn.open = conn[c].open, s.up = srv[c].up, StartRequest(o, c, m, cn, s)
  PROVE  \A e \in Conns : conn'[e].open = conn[e].open /\ srv'[e].up = srv[e].up
<1>1. ShownRequest(s, o, m).up = s.up
  BY DEF ShownRequest, SrvTypes
<1>2. [cn EXCEPT !.pending = @ \cup {<<o, m>>}].open = cn.open
  BY DEF ConnTypes
<1> QED
  BY <1>1, <1>2 DEF StartRequest, ConnTypeOK

(* Reading a document does not end a process, and shows the document.      *)
LEMMA ShownStill ==
  ASSUME NEW s \in SrvTypes
  PROVE  /\ \A d \in Docs, t \in Contents :
               /\ ShownDocument(s, d, t).up = s.up
               /\ ShownDocument(s, d, t).docs =
                    IF s.up = "up" THEN [s.docs EXCEPT ![d] = t] ELSE s.docs
         /\ Down(s).up = "down" /\ Down(s).docs = s.docs
  BY DEF ShownDocument, SrvTypes, Down

(* What starts and stops no server forgets none.                           *)
LEMMA StillServing ==
  ASSUME ConnTypeOK, MgrTypeOK, Serving, NoStrayServer, Still
  PROVE  Serving' /\ NoStrayServer'
<1> USE DEF Still, mgrVars
<1>1. \A c \in Conns : srv'[c].up = "up" => srv[c].up = "up" /\ conn'[c].open
  BY DEF Serving
<1>2. \A c \in Conns : ~Fresh(c) => ~Fresh(c)'
  BY DEF Fresh
<1>3. NoStrayServer'
  BY <1>1 DEF NoStrayServer
<1>4. \A c \in Conns : stop[c] = "done" => srv'[c].up = "down"
  BY DEF Serving
<1>5. \A k \in Calls : server'[k] # NoConn => ~Fresh(server[k])'
  BY <1>2 DEF Fresh
<1>6. (table' # NoConn => ~Fresh(table)') /\ (new' # NoConn => ~Fresh(new)')
  BY <1>2 DEF Serving, MgrTypeOK, Fresh
<1> QED
  BY <1>1, <1>3, <1>4, <1>5, <1>6 DEF Serving

(* Steps of calls, connections and timers start and stop no server.        *)
LEMMA MostStill ==
  ASSUME IInv,
         \/ \E k \in Calls : CallStep(k) /\ ~Restart(k)
         \/ /\ (\E c \in Conns : ConnStep(c)) \/ (\E o \in Owners : Timeout(o))
            /\ UNCHANGED <<mgrVars, callVars>>
  PROVE  Still
<1> USE DEF IInv, TypeOK, ConnTypeOK
<1>0. /\ \A c \in Conns : conn[c] \in ConnTypes /\ srv[c] \in SrvTypes
      /\ \A k \in Calls : DocOf[k] \in Docs /\ TextOf[k] \in Contents
      /\ NoText \in Contents
  BY LspAssumption DEF Contents
<1>1. ASSUME UNCHANGED <<mgrVars, server>>,
             \A c \in Conns : conn'[c].open = conn[c].open /\ srv'[c].up = srv[c].up
      PROVE  Still
  BY <1>1 DEF Still, Serving
<1>2. ASSUME NEW k \in Calls, CallStep(k), ~Restart(k) PROVE Still
  <2>1. UNCHANGED <<mgrVars, server>>
    BY <1>2 DEF CallStep, ShutDown, Conclude, Navigate, Navigated, Enqueue, Open, Listen,
                Heard, ListenTimeout, Pulled, CloseDocument
  <2>2. pc[k] \in Using => server[k] \in Conns
    BY DEF Locked
  <2>3. CASE UNCHANGED <<conn, srv>>
    BY <1>1, <2>1, <2>3
  <2>4. CASE Navigate(k)
    <3>1. server[k] \in Conns
      BY <2>4 DEF Navigate
    <3> QED
      BY <1>0, <1>1, <2>1, <2>4, <3>1, RequestStill DEF Navigate
  <2>5. CASE Open(k)
    <3>1. server[k] \in Conns
      BY <2>2, <2>5 DEF Open, Using
    <3>2. ShownDocument(srv[server[k]], DocOf[k], TextOf[k]) \in SrvTypes
      BY <1>0, <3>1, ShownTyped
    <3>3. ShownDocument(srv[server[k]], DocOf[k], TextOf[k]).up = srv[server[k]].up
      <4> HIDE DEF IInv, TypeOK, ConnTypeOK
      <4>1. srv[server[k]] \in SrvTypes /\ DocOf[k] \in Docs
        BY <1>0, <3>1
      <4> QED
        BY <1>0, <4>1, ShownStill
    <3> QED
      BY <1>0, <1>1, <2>1, <2>5, <3>1, <3>2, <3>3, RequestStill DEF Open
  <2>6. CASE ListenTimeout(k)
    <3>1. server[k] \in Conns
      BY <2>2, <2>6 DEF ListenTimeout, Using, Holding
    <3>2. /\ [conn[server[k]] EXCEPT !.listeners = @ \ {k}] \in ConnTypes
          /\ [conn[server[k]] EXCEPT !.listeners = @ \ {k}].open = conn[server[k]].open
      BY <1>0, <3>1, FewerTyped DEF ConnTypes
    <3> QED
      BY <1>0, <1>1, <2>1, <2>6, <3>1, <3>2, RequestStill DEF ListenTimeout
  <2>7. CASE Listen(k)
    <3>1. server[k] \in Conns
      BY <2>2, <2>7 DEF Listen, Using, Holding
    <3> QED
      BY <1>0, <1>1, <2>1, <2>7, <3>1 DEF Listen, ConnTypes
  <2>8. CASE CloseDocument(k)
    <3>1. server[k] \in Conns
      BY <2>2, <2>8 DEF CloseDocument, Using, Holding
    <3>2. ShownDocument(srv[server[k]], DocOf[k], NoText).up = srv[server[k]].up
      <4> HIDE DEF IInv, TypeOK, ConnTypeOK
      <4>1. srv[server[k]] \in SrvTypes /\ DocOf[k] \in Docs
        BY <1>0, <3>1
      <4> QED
        BY <1>0, <4>1, ShownStill
    <3> QED
      BY <1>1, <2>1, <2>8, <3>1, <3>2 DEF CloseDocument
  <2> QED
    BY <1>2, <2>3, <2>4, <2>5, <2>6, <2>7, <2>8 DEF CallStep, ShutDown, Conclude, Navigated,
       Enqueue, Heard, Pulled, connVars
<1>3. ASSUME NEW o \in Owners, Timeout(o), UNCHANGED <<mgrVars, callVars>> PROVE Still
  BY <1>0, <1>1, <1>3 DEF Timeout, callVars, ConnTypes
<1>4. ASSUME NEW c \in Conns, ConnStep(c), UNCHANGED <<mgrVars, callVars>> PROVE Still
  <2>1. UNCHANGED <<mgrVars, server>>
    BY <1>4 DEF callVars
  <2>2. CASE ReceiveAnswer(c)
    BY <1>0, <1>1, <2>1, <2>2 DEF ReceiveAnswer, ConnTypes, SrvTypes
  <2>3. CASE ReceiveDiagnostics(c)
    BY <1>0, <1>1, <2>1, <2>3 DEF ReceiveDiagnostics, ConnTypes, SrvTypes
  <2>4. CASE ServerAsks(c)
    BY <1>0, <1>1, <2>1, <2>4 DEF ServerAsks, SrvTypes
  <2>5. \A k \in Calls : server'[k] # NoConn => server'[k] \in Conns /\ ~Fresh(server'[k])
    BY <2>1 DEF Serving
  <2>6. CASE ExitSeen(c)
    <3>1. \A e \in Conns : srv'[e] = srv[e] /\ (conn'[e] = conn[e] \/ srv[e].up = "down")
      BY <2>6 DEF ExitSeen
    <3> QED
      BY <2>1, <2>5, <3>1 DEF Still
  <2>7. CASE Overflow(c) \/ ServerExits(c)
    <3>1. /\ \A e \in Conns : e # c => srv'[e] = srv[e] /\ conn'[e] = conn[e]
          /\ srv'[c] = Down(srv[c]) /\ srv[c].up = "up"
      BY <2>7 DEF Overflow, ServerExits
    <3>2. srv'[c].up = "down"
      BY <1>0, <3>1 DEF Down, SrvTypes
    <3>3. ASSUME NEW e \in Conns
          PROVE  /\ conn[e].open /\ srv'[e].up = "up" => conn'[e].open
                 /\ srv'[e].up = srv[e].up \/ (srv[e].up = "up" /\ srv'[e].up = "down")
      <4>1. CASE e = c
        BY <3>1, <3>2, <4>1
      <4>2. CASE e # c
        BY <3>1, <4>2
      <4> QED
        BY <4>1, <4>2
    <3> QED
      BY <2>1, <2>5, <3>3 DEF Still
  <2> QED
    BY <1>4, <2>2, <2>3, <2>4, <2>6, <2>7 DEF ConnStep
<1> QED
  BY <1>2, <1>3, <1>4

(* What the shutdown of c does to connections and processes.               *)
LEMMA StopServing ==
  ASSUME ConnTypeOK, MgrTypeOK, Serving, NEW c \in Conns, ~Fresh(c), BeginStop(c)
  PROVE  /\ \A e \in Conns : /\ srv'[e].up = srv[e].up
                             /\ conn[e].open /\ srv'[e].up = "up" => conn'[e].open
                             /\ e # c => stop'[e] = stop[e]
         /\ \/ stop'[c] = "asked"
            \/ stop'[c] = "done" /\ srv[c].up = "down"
<1>0. conn[c] \in ConnTypes /\ srv[c] \in SrvTypes
  BY DEF ConnTypeOK
<1>1. CASE conn[c].open
  <2>1. /\ StartRequest(c, c, "shutdown", conn[c], srv[c])
        /\ stop' = [stop EXCEPT ![c] = "asked"]
    BY <1>1 DEF BeginStop
  <2>2. \A e \in Conns : conn'[e].open = conn[e].open /\ srv'[e].up = srv[e].up
    BY <1>0, <2>1, RequestStill
  <2> QED
    BY <2>1, <2>2 DEF MgrTypeOK
<1>2. CASE ~conn[c].open
  <2>1. /\ conn' = [conn EXCEPT ![c] = Closed(@)] /\ srv' = srv
        /\ stop' = [stop EXCEPT ![c] = "done"]
    BY <1>2 DEF BeginStop
  <2>2. srv[c].up = "down"
    BY <1>0, <1>2 DEF Serving, Fresh, SrvTypes
  <2>3. \A e \in Conns : e # c => conn'[e] = conn[e]
    BY <2>1 DEF ConnTypeOK
  <2> QED
    BY <2>1, <2>2, <2>3 DEF MgrTypeOK
<1> QED
  BY <1>1, <1>2

(* A server that has been given up by getServer or removeServer is down or *)
(* shut down.                                                              *)
LEMMA GivenUp ==
  ASSUME ConnTypeOK, MgrTypeOK, Serving, NoStrayServer, UNCHANGED new,
         IF table = NoConn THEN UNCHANGED <<conn, srv, req, timers, stop>> ELSE BeginStop(table),
         table' = NoConn, start' = start \/ (start = "off" /\ start' = "probe"),
         \A k \in Calls : server'[k] # NoConn => server'[k] \in Conns /\ ~Fresh(server'[k])
  PROVE  Serving' /\ NoStrayServer'
<1>1. \A e \in Conns : /\ srv'[e].up = srv[e].up
                       /\ conn[e].open /\ srv'[e].up = "up" => conn'[e].open
                       /\ stop'[e] = "done" => srv[e].up = "down"
                       /\ e # table => stop'[e] = stop[e]
  <2>1. CASE table = NoConn
    BY <2>1 DEF Serving
  <2>2. CASE table # NoConn
    <3>1. table \in Conns /\ ~Fresh(table) /\ BeginStop(table)
      BY <2>2 DEF MgrTypeOK, Serving
    <3> QED
      BY <3>1, StopServing DEF Serving
  <2> QED
    BY <2>1, <2>2
<1>2. table # NoConn => stop'[table] = "asked" \/ srv[table].up = "down"
  <2> SUFFICES ASSUME table # NoConn PROVE stop'[table] = "asked" \/ srv[table].up = "down"
    OBVIOUS
  <2>1. table \in Conns /\ ~Fresh(table) /\ BeginStop(table)
    BY DEF MgrTypeOK, Serving
  <2> QED
    BY <2>1, StopServing
<1>3. \A e \in Conns : Fresh(e)' <=> Fresh(e)
  BY <1>1 DEF Fresh
<1>4. (start' # "off" /\ new # NoConn) <=> (start # "off" /\ new # NoConn)
  BY DEF Serving
<1>5. NoStrayServer'
  BY <1>1, <1>2, <1>4, LspAssumption, ManagerAssumption DEF NoStrayServer
<1>6. \A k \in Calls : server'[k] # NoConn => ~Fresh(server[k])'
  BY <1>3 DEF Fresh
<1>7. new' # NoConn => ~Fresh(new)'
  BY <1>3 DEF Serving, MgrTypeOK, Fresh
<1> QED
  BY <1>1, <1>5, <1>6, <1>7 DEF Serving

(* getServer and removeServer forget no server.                            *)
LEMMA CallServing ==
  ASSUME IInv, NEW k \in Calls, Ask(k) \/ Restart(k) \/ Remove(k)
  PROVE  Serving' /\ NoStrayServer'
<1> USE DEF IInv, TypeOK
<1>1. \A j \in Calls : server[j] # NoConn => server[j] \in Conns /\ ~Fresh(server[j])
  BY DEF Serving
<1>2. table # NoConn => table \in Conns /\ ~Fresh(table)
  BY DEF Serving, MgrTypeOK
<1>3. CASE Remove(k)
  <2>1. RemoveServer /\ server' = [server EXCEPT ![k] = table]
    BY <1>3 DEF Remove
  <2> QED
    BY <1>1, <1>2, <2>1, GivenUp DEF RemoveServer
<1>4. CASE GetServer(k)
  <2>1. ASSUME UNCHANGED <<connVars, mgrVars>>, server' = server \/ Serve(k, table)
        PROVE  Serving' /\ NoStrayServer'
    <3>1. \A j \in Calls : server'[j] # NoConn => server'[j] \in Conns /\ ~Fresh(server'[j])
      BY <1>1, <1>2, <2>1 DEF Serve
    <3>2. Still
      BY <2>1, <3>1 DEF Still, connVars
    <3> QED
      BY <3>2, StillServing
  <2>2. ASSUME /\ start = "off" /\ start' = "probe" /\ table' = NoConn
               /\ IF table = NoConn THEN UNCHANGED <<conn, srv, req, timers, stop>>
                  ELSE BeginStop(table)
               /\ UNCHANGED <<new, server>>
        PROVE  Serving' /\ NoStrayServer'
    BY <1>1, <2>2, GivenUp
  <2> QED
    BY <1>4, <2>1, <2>2 DEF GetServer
<1> QED
  BY <1>3, <1>4 DEF Ask, Restart

(* Nor do the steps of a start and the end of a shutdown.                  *)
LEMMA ManagerServing ==
  ASSUME IInv, ManagerStep
  PROVE  Serving' /\ NoStrayServer'
<1> USE DEF IInv, TypeOK
<1>0. /\ \A c \in Conns : conn[c] \in ConnTypes /\ srv[c] \in SrvTypes
      /\ \A j \in Calls : server[j] # NoConn => server[j] \in Conns /\ ~Fresh(server[j])
      /\ table # NoConn => table \in Conns /\ ~Fresh(table)
      /\ new # NoConn => new \in Conns /\ ~Fresh(new)
      /\ NoConn \notin Conns
  BY ManagerAssumption DEF ConnTypeOK, Serving, MgrTypeOK
<1>1. CASE NotFound
  BY <1>1 DEF NotFound, connVars, Serving, NoStrayServer, Fresh
<1>2. CASE NextConfig
  <2>1. srv[new].up = "down"
    BY <1>0, <1>2 DEF NextConfig, Serving
  <2> QED
    BY <1>2, <2>1 DEF NextConfig, connVars, Serving, NoStrayServer, Fresh
<1>3. CASE NoServer
  BY <1>0, <1>3 DEF NoServer, Resolve, connVars, Serving, NoStrayServer, Fresh
<1>4. CASE Started
  <2>1. new \in Conns /\ ~Fresh(new) /\ table = NoConn
    BY <1>0, <1>4 DEF Started, Serving
  <2>2. \A j \in Calls : server'[j] # NoConn => server'[j] \in Conns /\ ~Fresh(server'[j])
    BY <1>0, <1>4, <2>1 DEF Started, Resolve
  <2>3. \A j \in Calls : server'[j] # NoConn => ~Fresh(server[j])'
    BY <1>4, <2>2 DEF Started, connVars, Fresh
  <2>4. NoStrayServer'
    BY <1>0, <1>4, <2>1 DEF Started, Resolve, connVars, NoStrayServer
  <2> QED
    BY <1>0, <1>4, <2>1, <2>3, <2>4 DEF Started, Resolve, connVars, Serving, Fresh
<1>5. ASSUME NEW c \in Conns, Spawn(c) PROVE Serving' /\ NoStrayServer'
  <2>1. PICK up \in {"up", "down"} :
          srv' = [srv EXCEPT ![c] = ShownRequest([@ EXCEPT !.up = up], c, "initialize")]
    BY <1>5 DEF Spawn
  <2>2. /\ [srv[c] EXCEPT !.up = up] \in SrvTypes
        /\ [srv[c] EXCEPT !.up = up].up = up
    BY <1>0 DEF SrvTypes
  <2>3. ShownRequest([srv[c] EXCEPT !.up = up], c, "initialize").up = up
    BY <2>2 DEF ShownRequest, SrvTypes
  <2>4. \A e \in Conns : srv'[e].up = IF e = c THEN up ELSE srv[e].up
    BY <2>1, <2>3 DEF ConnTypeOK
  <2>5. \A e \in Conns : e # c => conn'[e].open = conn[e].open
    BY <1>5 DEF Spawn, ConnTypeOK
  <2>6. conn'[c].open
    BY <1>0, <1>5 DEF Spawn, ConnTypeOK, ConnTypes
  <2>7. /\ new' = c /\ start' = "init" /\ start = "probe" /\ Fresh(c)
        /\ UNCHANGED <<table, stop, server>>
    BY <1>5 DEF Spawn
  <2>8. \A e \in Conns : ~Fresh(e) \/ e = c => ~Fresh(e)'
    BY <2>4 DEF Fresh
  <2>9. stop[c] # "done"
    BY <2>7 DEF Serving, Fresh
  <2>10. NoStrayServer'
    BY <2>4, <2>7 DEF NoStrayServer, Serving
  <2>11. \A j \in Calls : server'[j] # NoConn => ~Fresh(server[j])'
    BY <1>0, <2>7, <2>8
  <2>12. (table' # NoConn => ~Fresh(table)') /\ (new' # NoConn => ~Fresh(new)')
    BY <1>0, <2>7, <2>8 DEF Fresh
  <2>13. \A e \in Conns : /\ srv'[e].up = "up" => conn'[e].open
                          /\ stop'[e] = "done" => srv'[e].up = "down"
    BY <2>4, <2>5, <2>6, <2>7, <2>9 DEF Serving
  <2> QED
    BY <2>7, <2>10, <2>11, <2>12, <2>13, <1>0 DEF Serving
<1>6. CASE StartFailed
  <2>1. new \in Conns /\ ~Fresh(new) /\ BeginStop(new)
    BY <1>0, <1>6 DEF StartFailed, Serving
  <2>2. /\ \A e \in Conns : /\ srv'[e].up = srv[e].up
                            /\ conn[e].open /\ srv'[e].up = "up" => conn'[e].open
                            /\ e # new => stop'[e] = stop[e]
        /\ \/ stop'[new] = "asked"
           \/ stop'[new] = "done" /\ srv[new].up = "down"
    BY <2>1, StopServing
  <2>3. /\ start = "init" /\ start' = "clean" /\ UNCHANGED <<table, new, server>>
    BY <1>6 DEF StartFailed
  <2>4. \A e \in Conns : Fresh(e)' <=> Fresh(e)
    BY <2>2 DEF Fresh
  <2>5. NoStrayServer'
    BY <2>2, <2>3 DEF NoStrayServer
  <2>6. \A j \in Calls : server'[j] # NoConn => ~Fresh(server[j])'
    BY <1>0, <2>3, <2>4
  <2>7. (table' # NoConn => ~Fresh(table)') /\ (new' # NoConn => ~Fresh(new)')
    BY <1>0, <2>3, <2>4 DEF Fresh
  <2>8. \A e \in Conns : /\ srv'[e].up = "up" => conn'[e].open
                         /\ stop'[e] = "done" => srv'[e].up = "down"
    BY <2>2 DEF Serving
  <2> QED
    BY <2>3, <2>5, <2>6, <2>7, <2>8 DEF Serving
<1>7. ASSUME NEW c \in Conns, Kill(c) PROVE Serving' /\ NoStrayServer'
  <2>1. \A e \in Conns : srv'[e].up = IF e = c THEN "down" ELSE srv[e].up
    BY <1>0, <1>7, ShownStill DEF Kill, ConnTypeOK
  <2>2. \A e \in Conns : e # c => conn'[e].open = conn[e].open /\ stop'[e] = stop[e]
    BY <1>7 DEF Kill, ConnTypeOK, MgrTypeOK
  <2>3. UNCHANGED <<table, start, new, server>>
    BY <1>7 DEF Kill
  <2>4. \A e \in Conns : ~Fresh(e) => ~Fresh(e)'
    BY <2>1 DEF Fresh
  <2>5. NoStrayServer'
    BY <2>1, <2>2, <2>3 DEF NoStrayServer
  <2>6. \A j \in Calls : server'[j] # NoConn => ~Fresh(server[j])'
    BY <1>0, <2>3, <2>4
  <2>7. (table' # NoConn => ~Fresh(table)') /\ (new' # NoConn => ~Fresh(new)')
    BY <1>0, <2>3, <2>4 DEF Fresh
  <2>8. \A e \in Conns : /\ srv'[e].up = "up" => conn'[e].open
                         /\ stop'[e] = "done" => srv'[e].up = "down"
    BY <2>1, <2>2 DEF Serving
  <2> QED
    BY <2>3, <2>5, <2>6, <2>7, <2>8 DEF Serving
<1> QED
  BY <1>1, <1>2, <1>3, <1>4, <1>5, <1>6, <1>7 DEF ManagerStep, StartStep

(* No step forgets a server.                                               *)
LEMMA ServingStep == IInv /\ [Next]_vars => Serving' /\ NoStrayServer'
<1> SUFFICES ASSUME IInv, [Next]_vars PROVE Serving' /\ NoStrayServer'
  OBVIOUS
<1>1. ASSUME Still PROVE Serving' /\ NoStrayServer'
  BY <1>1, StillServing DEF IInv, TypeOK
<1>2. ASSUME NEW k \in Calls, CallStep(k) PROVE Serving' /\ NoStrayServer'
  BY <1>1, <1>2, MostStill, CallServing
<1>3. ASSUME NEW k \in Calls, Ask(k) \/ Remove(k) PROVE Serving' /\ NoStrayServer'
  BY <1>3, CallServing
<1>4. ASSUME (\E c \in Conns : ConnStep(c)) \/ (\E o \in Owners : Timeout(o)),
             UNCHANGED <<mgrVars, callVars>>
      PROVE  Serving' /\ NoStrayServer'
  BY <1>1, <1>4, MostStill
<1>5. ASSUME UNCHANGED vars PROVE Serving' /\ NoStrayServer'
  <2>1. Still
    BY <1>5 DEF vars, connVars, callVars, Still, IInv, Serving, TypeOK
  <2> QED
    BY <1>1, <2>1
<1> QED
  BY <1>2, <1>3, <1>4, <1>5, ManagerServing DEF Next, LoopStep

-----------------------------------------------------------------------------
(* Steps that leave the locks alone keep them held, if who uses a server   *)
(* goes on using it, and who begins to has his turn.                       *)
LEMMA LocksKept ==
  ASSUME Locked, UNCHANGED chain,
         \A j \in Calls : pc'[j] \in Using =>
            /\ server'[j] = server[j] /\ server[j] \in Conns
            /\ pc[j] \in Holding \/ (pc'[j] \in Holding => Turn(j))
  PROVE  Locked'
<1>1. \A j \in Calls : pc'[j] \in Holding => Turn(j) /\ server'[j] = server[j]
  BY DEF Locked, Using
<1> QED
  BY <1>1 DEF Locked, Turn, Lock

(* One call at a time has its turn at a document.                          *)
LEMMA OneTurn ==
  ASSUME NEW j \in Calls, NEW k \in Calls, Turn(j), Turn(k),
         server[j] = server[k], DocOf[j] = DocOf[k]
  PROVE  j = k
  BY DEF Turn, Lock

(* Locks are kept in turn: appending is behind the head, and who gives a   *)
(* lock back is its head, which nobody else is.                            *)
LEMMA LockedStep == IInv /\ [Next]_vars => Locked'
<1> SUFFICES ASSUME IInv, [Next]_vars PROVE Locked'
  OBVIOUS
<1> USE DEF IInv, TypeOK
<1>0. Locked /\ \A j \in Calls : DocOf[j] \in Docs
  BY LspAssumption
<1>1. ASSUME UNCHANGED <<pc, server, chain>> PROVE Locked'
  BY <1>0, <1>1, LocksKept DEF Locked, Using
<1>2. ASSUME NEW k \in Calls, NEW loc, Goto(k, loc), UNCHANGED <<server, chain>>,
             \/ loc \notin Using
             \/ loc \in Holding /\ pc[k] \in Holding
      PROVE  Locked'
  BY <1>0, <1>2, LocksKept DEF Goto, Locked, Using
<1>3. ASSUME NEW k \in Calls, Ask(k) \/ Restart(k) PROVE Locked'
  <2>1. GetServer(k) /\ UNCHANGED chain
    BY <1>3 DEF Ask, Restart
  <2>2. \/ Goto(k, "waiting") /\ server' = server
        \/ Serve(k, table)
    BY <2>1 DEF GetServer
  <2>3. pc' = [pc EXCEPT ![k] = "waiting"] \/ pc' = [pc EXCEPT ![k] = "served"]
    BY <2>2 DEF Serve, Goto
  <2>4. \A j \in Calls : j # k => server'[j] = server[j]
    BY <2>2 DEF Serve
  <2> QED
    BY <1>0, <2>1, <2>3, <2>4, LocksKept DEF Locked, Using, Holding
<1>4. ASSUME NEW k \in Calls, Remove(k) PROVE Locked'
  BY <1>0, <1>4, LocksKept DEF Remove, Goto, Locked, Using, Holding
<1>5. ASSUME NEW k \in Calls,
             ShutDown(k) \/ Conclude(k) \/ Navigated(k) PROVE Locked'
  BY <1>2, <1>5 DEF ShutDown, Conclude, Navigated, Using, Holding
<1>6. ASSUME NEW k \in Calls,
             Listen(k) \/ Heard(k) \/ ListenTimeout(k) \/ Pulled(k) PROVE Locked'
  BY <1>2, <1>6 DEF Listen, Heard, ListenTimeout, Pulled, Holding
<1>7. ASSUME NEW k \in Calls, Navigate(k) PROVE Locked'
  BY <1>0, <1>7, LocksKept DEF Navigate, Goto, Locked, Using, Holding
<1>8. ASSUME NEW k \in Calls, Open(k) PROVE Locked'
  BY <1>0, <1>8, LocksKept DEF Open, Goto, Locked, Using, Holding
<1>9. ASSUME NEW k \in Calls, Enqueue(k) PROVE Locked'
  <2>1. /\ server[k] \in Conns /\ Lock(k) \in Seq(Calls)
        /\ pc' = [pc EXCEPT ![k] = "queued"] /\ UNCHANGED server
        /\ chain' = [chain EXCEPT ![server[k]][DocOf[k]] = Append(@, k)]
    BY <1>0, <1>9 DEF Enqueue, Goto, Lock
  <2>2. ASSUME NEW j \in Calls, pc'[j] \in Using
        PROVE  server'[j] \in Conns /\ (pc'[j] \in Holding => Turn(j)')
    <3>1. server[j] \in Conns /\ (j = k \/ pc'[j] = pc[j])
      BY <1>0, <2>1, <2>2 DEF Locked
    <3>2. ASSUME pc'[j] \in Holding PROVE Turn(j)'
      <4>1. Turn(j) /\ j # k
        BY <1>0, <2>1, <3>1, <3>2 DEF Locked, Holding
      <4>2. CASE server[j] = server[k] /\ DocOf[j] = DocOf[k]
        <5>1. Lock(j)' = Append(Lock(j), k) /\ Lock(j) \in Seq(Calls)
          BY <1>0, <2>1, <4>2 DEF Lock
        <5> QED
          BY <4>1, <5>1, AppendProperties DEF Turn
      <4>3. CASE ~(server[j] = server[k] /\ DocOf[j] = DocOf[k])
        <5>1. Lock(j)' = Lock(j)
          BY <1>0, <2>1, <3>1, <4>3 DEF Lock
        <5> QED
          BY <4>1, <5>1 DEF Turn
      <4> QED
        BY <4>2, <4>3
    <3> QED
      BY <2>1, <3>1, <3>2
  <2> QED
    BY <2>2 DEF Locked, Using
<1>10. ASSUME NEW k \in Calls, CloseDocument(k) PROVE Locked'
  <2>1. /\ pc[k] \in Holding /\ server[k] \in Conns /\ Turn(k)
        /\ pc' = [pc EXCEPT ![k] = "done"] /\ UNCHANGED server
        /\ chain' = [chain EXCEPT ![server[k]][DocOf[k]] = Tail(@)]
    BY <1>0, <1>10 DEF CloseDocument, Goto, Locked, Using, Holding
  <2>2. ASSUME NEW j \in Calls, pc'[j] \in Using
        PROVE  server'[j] \in Conns /\ (pc'[j] \in Holding => Turn(j)')
    <3>1. server[j] \in Conns /\ j # k /\ pc'[j] = pc[j]
      BY <1>0, <2>1, <2>2 DEF Locked, Using, Holding
    <3>2. ASSUME pc'[j] \in Holding PROVE Turn(j)'
      <4>1. Turn(j)
        BY <1>0, <3>1, <3>2 DEF Locked
      <4>2. ~(server[j] = server[k] /\ DocOf[j] = DocOf[k])
        BY <2>1, <3>1, <4>1, OneTurn
      <4>3. Lock(j)' = Lock(j)
        BY <1>0, <2>1, <3>1, <4>2 DEF Lock
      <4> QED
        BY <4>1, <4>3 DEF Turn
    <3> QED
      BY <2>1, <3>1, <3>2
  <2> QED
    BY <2>2 DEF Locked, Using
<1>11. ASSUME ManagerStep, UNCHANGED <<kind, chain, result>> PROVE Locked'
  <2>1. \A j \in Calls : pc'[j] \in Using => pc'[j] = pc[j] /\ server'[j] = server[j]
    BY <1>11, ManagerTyped DEF Resolve, Using, Holding
  <2> QED
    BY <1>0, <1>11, <2>1, LocksKept DEF Locked, Using
<1>12. ASSUME UNCHANGED callVars \/ UNCHANGED vars PROVE Locked'
  BY <1>1, <1>12 DEF callVars, vars
<1> QED
  BY <1>3, <1>4, <1>5, <1>6, <1>7, <1>8, <1>9, <1>10, <1>11, <1>12
     DEF Next, LoopStep, CallStep

-----------------------------------------------------------------------------
(* A process that has not been spawned has been shown no document.         *)
Empty == \A c \in Conns : Fresh(c) => \A d \in Docs : srv[c].docs[d] = NoText

(* The processes that run have been shown nothing by this step, and no     *)
(* other process runs.                                                     *)
Unseen == \A c \in Conns : /\ srv'[c].docs = srv[c].docs
                           /\ srv'[c].up = "up" => srv[c].up = "up"
                           /\ Fresh(c)' => Fresh(c)

(* Who uses a document goes on using it, and nobody else begins to.        *)
SameUsers == \A k \in Calls : /\ pc'[k] \in Holding <=> pc[k] \in Holding
                              /\ pc[k] \in Holding => server'[k] = server[k]

(* Nothing changes for anybody then.                                       *)
LEMMA OwnKept ==
  ASSUME OwnDocument, Empty, Unseen, SameUsers
  PROVE  OwnDocument' /\ Empty'
<1>1. Empty'
  BY DEF Empty, Unseen
<1>2. ASSUME NEW c \in Conns, NEW d \in Docs, srv'[c].up = "up",
             NEW k \in Calls, server'[k] = c, DocOf[k] = d, pc'[k] \in Holding
      PROVE  srv'[c].docs[d] = TextOf[k]
  BY <1>2 DEF OwnDocument, Unseen, SameUsers, Holding
<1>3. ASSUME NEW c \in Conns, NEW d \in Docs, srv'[c].up = "up",
             \A k \in Calls : ~(server'[k] = c /\ DocOf[k] = d /\ pc'[k] \in Holding)
      PROVE  srv'[c].docs[d] = NoText
  BY <1>3 DEF OwnDocument, Unseen, SameUsers, Holding
<1> QED
  BY <1>1, <1>2, <1>3 DEF OwnDocument, Holding

(* A request shows no document.                                            *)
LEMMA RequestUnseen ==
  ASSUME ConnTypeOK, NEW c \in Conns, NEW o, NEW m, NEW cn, NEW s \in SrvTypes,
         StartRequest(o, c, m, cn, s)
  PROVE  \A e \in Conns :
            \/ srv'[e] = srv[e]
            \/ e = c /\ conn[c].open /\ srv'[e].up = s.up /\ srv'[e].docs = s.docs
<1>1. ShownRequest(s, o, m).up = s.up /\ ShownRequest(s, o, m).docs = s.docs
  BY DEF ShownRequest, SrvTypes
<1> QED
  BY <1>1 DEF StartRequest, ConnTypeOK

(* Only a call that opens or closes its document, and a start, show a      *)
(* process something.                                                      *)
LEMMA MostUnseen ==
  ASSUME IInv, [Next]_vars,
         ~\E k \in Calls : Open(k) \/ CloseDocument(k),
         ~\E c \in Conns : Spawn(c)
  PROVE  Unseen
<1> USE DEF IInv, TypeOK
<1>0. /\ \A c \in Conns : srv[c] \in SrvTypes
      /\ table # NoConn => table \in Conns
      /\ new # NoConn => new \in Conns
  BY DEF ConnTypeOK, MgrTypeOK
<1>1. ASSUME \A c \in Conns : srv'[c].docs = srv[c].docs /\ srv'[c].up = srv[c].up
      PROVE  Unseen
  BY <1>1 DEF Unseen, Fresh
<1>2. ASSUME UNCHANGED srv PROVE Unseen
  BY <1>1, <1>2
<1>3. ASSUME NEW c \in Conns, NEW o, NEW m, NEW cn, StartRequest(o, c, m, cn, srv[c])
      PROVE  Unseen
  <2>1. srv[c] \in SrvTypes /\ ConnTypeOK
    BY <1>0
  <2>2. \A e \in Conns :
          \/ srv'[e] = srv[e]
          \/ e = c /\ conn[c].open /\ srv'[e].up = srv[c].up /\ srv'[e].docs = srv[c].docs
    BY <1>3, <2>1, RequestUnseen
  <2>3. \A e \in Conns : srv'[e].docs = srv[e].docs /\ srv'[e].up = srv[e].up
    BY <2>2
  <2> QED
    BY <1>1, <2>3
<1>4. ASSUME NEW c \in Conns, BeginStop(c) PROVE Unseen
  BY <1>2, <1>3, <1>4 DEF BeginStop
<1>5. ASSUME NEW k \in Calls, Ask(k) \/ Restart(k) \/ Remove(k) PROVE Unseen
  <2>1. UNCHANGED srv \/ (table # NoConn /\ BeginStop(table))
    BY <1>5 DEF Ask, Restart, Remove, RemoveServer, GetServer, connVars
  <2> QED
    BY <1>0, <1>2, <1>4, <2>1
<1>6. ASSUME NEW k \in Calls, Navigate(k) \/ ListenTimeout(k) PROVE Unseen
  <2>1. server[k] \in Conns
    BY <1>6 DEF Navigate, ListenTimeout, Locked, Using, Holding
  <2> QED
    BY <1>3, <1>6, <2>1 DEF Navigate, ListenTimeout
<1>7. ASSUME NEW k \in Calls, CallStep(k) PROVE Unseen
  BY <1>2, <1>5, <1>6, <1>7 DEF CallStep, ShutDown, Conclude, Navigated, Enqueue, Listen,
     Heard, Pulled, connVars
<1>8. ASSUME NEW c \in Conns, srv' = [srv EXCEPT ![c] = Down(@)] PROVE Unseen
  <2>1. \A e \in Conns : /\ srv'[e].docs = srv[e].docs
                         /\ srv'[e].up = srv[e].up \/ srv'[e].up = "down"
    BY <1>0, <1>8, ShownStill DEF ConnTypeOK
  <2> QED
    BY <2>1 DEF Unseen, Fresh
<1>9. ASSUME ManagerStep PROVE Unseen
  <2>1. CASE StartFailed
    BY <1>0, <1>4, <2>1 DEF StartFailed, Serving
  <2>2. ASSUME NEW c \in Conns, Kill(c) PROVE Unseen
    BY <1>8, <2>2 DEF Kill
  <2> QED
    BY <1>2, <1>9, <2>1, <2>2 DEF ManagerStep, StartStep, NotFound, NextConfig, NoServer,
       Started, connVars
<1>10. ASSUME NEW c \in Conns, NEW X, srv' = [srv EXCEPT ![c] = [@ EXCEPT !.owes = X]]
       PROVE  Unseen
  <2>1. [srv[c] EXCEPT !.owes = X].docs = srv[c].docs /\ [srv[c] EXCEPT !.owes = X].up = srv[c].up
    BY <1>0 DEF SrvTypes
  <2> QED
    BY <1>1, <1>10, <2>1 DEF ConnTypeOK
<1>11. ASSUME NEW c \in Conns, ConnStep(c) PROVE Unseen
  <2>1. CASE ReceiveAnswer(c) \/ ReceiveDiagnostics(c) \/ ServerAsks(c)
    <3>1. \E X : srv' = [srv EXCEPT ![c] = [@ EXCEPT !.owes = X]]
      BY <2>1 DEF ReceiveAnswer, ReceiveDiagnostics, ServerAsks
    <3> QED
      BY <1>10, <3>1
  <2>2. CASE Overflow(c) \/ ServerExits(c)
    BY <1>8, <2>2 DEF Overflow, ServerExits
  <2>3. CASE ExitSeen(c)
    BY <1>2, <2>3 DEF ExitSeen
  <2> QED
    BY <1>11, <2>1, <2>2, <2>3 DEF ConnStep
<1>12. ASSUME UNCHANGED vars \/ \E o \in Owners : Timeout(o) PROVE Unseen
  BY <1>2, <1>12 DEF vars, connVars, Timeout
<1> QED
  BY <1>5, <1>7, <1>9, <1>11, <1>12 DEF Next, LoopStep

(* Only a call that opens or closes its document begins or ends its use.   *)
LEMMA MostSameUsers ==
  ASSUME IInv, [Next]_vars,
         ~\E k \in Calls : Open(k) \/ CloseDocument(k)
  PROVE  SameUsers
<1> USE DEF IInv, TypeOK
<1>1. ASSUME UNCHANGED <<pc, server>> PROVE SameUsers
  BY <1>1 DEF SameUsers
<1>2. ASSUME NEW k \in Calls, NEW loc, Goto(k, loc), pc[k] \in Holding <=> loc \in Holding,
             \A j \in Calls : pc[j] \in Holding => server'[j] = server[j]
      PROVE  SameUsers
  BY <1>2 DEF Goto, SameUsers
<1>3. ASSUME NEW k \in Calls, Ask(k) \/ Restart(k) PROVE SameUsers
  <2>1. GetServer(k) /\ pc[k] \notin Holding
    BY <1>3 DEF Ask, Restart, Holding
  <2>2. \/ Goto(k, "waiting") /\ server' = server
        \/ Goto(k, "served") /\ server' = [server EXCEPT ![k] = table]
    BY <2>1 DEF GetServer, Serve
  <2> QED
    BY <1>2, <2>1, <2>2 DEF Holding
<1>4. ASSUME NEW k \in Calls, Remove(k) PROVE SameUsers
  BY <1>2, <1>4 DEF Remove, Holding
<1>5. ASSUME NEW k \in Calls, CallStep(k) PROVE SameUsers
  <2>1. CASE ShutDown(k) \/ Conclude(k) \/ Navigate(k) \/ Navigated(k) \/ Enqueue(k)
    BY <1>2, <2>1 DEF ShutDown, Conclude, Navigate, Navigated, Enqueue, Holding
  <2>2. CASE Listen(k) \/ Heard(k) \/ ListenTimeout(k) \/ Pulled(k)
    BY <1>2, <2>2 DEF Listen, Heard, ListenTimeout, Pulled, Holding
  <2> QED
    BY <1>3, <1>5, <2>1, <2>2 DEF CallStep
<1>6. ASSUME ManagerStep PROVE SameUsers
  <2>1. \A j \in Calls : \/ pc'[j] = pc[j] /\ server'[j] = server[j]
                         \/ pc[j] = "waiting" /\ pc'[j] = "served"
    BY <1>6, ManagerTyped DEF Resolve
  <2> QED
    BY <2>1 DEF SameUsers, Holding
<1>7. ASSUME UNCHANGED callVars \/ UNCHANGED vars PROVE SameUsers
  BY <1>1, <1>7 DEF callVars, vars
<1> QED
  BY <1>3, <1>4, <1>5, <1>6, <1>7 DEF Next, LoopStep

(* The steps that do: a call opens or closes its document when it has the  *)
(* lock, so nobody else has the document open, and a new process has no    *)
(* users.                                                                  *)
LEMMA OwnStep == IInv /\ OwnDocument /\ Empty /\ [Next]_vars => OwnDocument' /\ Empty'
<1> SUFFICES ASSUME IInv, OwnDocument, Empty, [Next]_vars PROVE OwnDocument' /\ Empty'
  OBVIOUS
<1> USE DEF IInv, TypeOK
<1>0. /\ \A c \in Conns : srv[c] \in SrvTypes /\ conn[c] \in ConnTypes
      /\ \A j \in Calls : DocOf[j] \in Docs /\ TextOf[j] \in Contents
      /\ NoText \in Contents
  BY LspAssumption DEF ConnTypeOK, Contents
<1>00. ASSUME NEW c \in Conns, NEW d \in Docs, srv[c].up = "up"
       PROVE  /\ \A j \in Calls : server[j] = c /\ DocOf[j] = d /\ pc[j] \in Holding
                                    => srv[c].docs[d] = TextOf[j]
              /\ (\A j \in Calls : ~(server[j] = c /\ DocOf[j] = d /\ pc[j] \in Holding))
                                    => srv[c].docs[d] = NoText
  <2> DEFINE using == {j \in Calls : /\ server[j] = c /\ DocOf[j] = d
                                     /\ pc[j] \in {"sync", "listen", "pull", "close"}}
  <2>1. IF using = {} THEN srv[c].docs[d] = NoText
        ELSE \A j \in using : srv[c].docs[d] = TextOf[j]
    BY <1>00 DEF OwnDocument
  <2> QED
    BY <2>1 DEF Holding
<1>1. ASSUME NEW k \in Calls, pc[k] \in Holding \/ pc'[k] \in Holding, Turn(k),
             server[k] \in Conns, ~Fresh(server[k]), UNCHANGED server,
             NEW loc, pc' = [pc EXCEPT ![k] = loc], NEW t,
             t = IF loc \in Holding THEN TextOf[k] ELSE NoText,
             \A c \in Conns : c # server[k] => srv'[c] = srv[c],
             srv'[server[k]].up = srv[server[k]].up,
             srv[server[k]].up = "up" =>
                srv'[server[k]].docs = [srv[server[k]].docs EXCEPT ![DocOf[k]] = t]
      PROVE  OwnDocument' /\ Empty'
  <2>1. Empty'
    <3> SUFFICES ASSUME NEW e \in Conns, Fresh(e)' PROVE \A d \in Docs : srv'[e].docs[d] = NoText
      BY DEF Empty
    <3>1. e # server[k]
      BY <1>1 DEF Fresh
    <3>2. srv'[e] = srv[e]
      BY <1>1, <3>1
    <3> QED
      BY <3>2 DEF Empty, Fresh
  <2>2. ASSUME NEW j \in Calls, pc[j] \in Holding,
               server[j] = server[k], DocOf[j] = DocOf[k]
        PROVE  j = k
    BY <1>1, <2>2, OneTurn DEF Locked
  <2>3. ASSUME NEW c \in Conns, NEW d \in Docs, srv'[c].up = "up"
        PROVE  /\ \A j \in Calls :
                    server'[j] = c /\ DocOf[j] = d /\ pc'[j] \in Holding
                       => srv'[c].docs[d] = TextOf[j]
               /\ (\A j \in Calls : ~(server'[j] = c /\ DocOf[j] = d /\ pc'[j] \in Holding))
                       => srv'[c].docs[d] = NoText
    <3>1. CASE c = server[k] /\ d = DocOf[k]
      <4>1. srv'[c].docs[d] = t
        <5>1. srv[c].docs \in [Docs -> Contents]
          BY <1>0 DEF SrvTypes
        <5>2. srv'[c].docs = [srv[c].docs EXCEPT ![d] = t]
          BY <1>1, <2>3, <3>1
        <5> QED
          BY <5>1, <5>2
      <4>2. \A j \in Calls : server'[j] = c /\ DocOf[j] = d /\ pc'[j] \in Holding => j = k
        BY <1>1, <2>2, <3>1
      <4> QED
        BY <1>1, <3>1, <4>1, <4>2
    <3>2. CASE ~(c = server[k] /\ d = DocOf[k])
      <4>1. srv'[c].docs[d] = srv[c].docs[d] /\ srv[c].up = "up"
        <5>1. CASE c # server[k]
          BY <1>1, <2>3, <5>1
        <5>2. CASE c = server[k]
          <6>1. srv[c].docs \in [Docs -> Contents]
            BY <1>0 DEF SrvTypes
          <6>2. srv'[c].docs = [srv[c].docs EXCEPT ![DocOf[k]] = t] /\ srv[c].up = "up"
            BY <1>1, <2>3, <5>2
          <6> QED
            BY <3>2, <5>2, <6>1, <6>2
        <5> QED
          BY <5>1, <5>2
      <4>2. \A j \in Calls : server[j] = c /\ DocOf[j] = d =>
               j # k /\ server'[j] = c /\ pc'[j] = pc[j]
        BY <1>1, <3>2
      <4>3. \A j \in Calls : server'[j] = c /\ DocOf[j] = d => server[j] = c /\ pc'[j] = pc[j]
        BY <1>1, <3>2, <4>2
      <4> QED
        BY <1>00, <4>1, <4>2, <4>3
    <3> QED
      BY <3>1, <3>2
  <2> QED
    BY <2>1, <2>3 DEF OwnDocument, Holding
<1>2. ASSUME NEW k \in Calls, Open(k) PROVE OwnDocument' /\ Empty'
  <2> DEFINE c == server[k]
             s == ShownDocument(srv[c], DocOf[k], TextOf[k])
  <2>1. /\ c \in Conns /\ ~Fresh(c) /\ Turn(k)
        /\ pc' = [pc EXCEPT ![k] = "sync"] /\ UNCHANGED server
        /\ StartRequest(k, c, "sync", conn[c], s)
    BY <1>2, ManagerAssumption DEF Open, Goto, Locked, Using, Serving
  <2>2. /\ s \in SrvTypes /\ s.up = srv[c].up
        /\ srv[c].up = "up" => s.docs = [srv[c].docs EXCEPT ![DocOf[k]] = TextOf[k]]
    <3> HIDE DEF IInv, TypeOK
    <3>1. /\ srv[c] \in SrvTypes /\ DocOf[k] \in Docs /\ TextOf[k] \in Contents
      BY <1>0, <2>1
    <3> QED
      BY <3>1, ShownTyped, ShownStill
  <2> HIDE DEF s
  <2>3. \A e \in Conns :
          \/ srv'[e] = srv[e]
          \/ e = c /\ conn[c].open /\ srv'[e].up = s.up /\ srv'[e].docs = s.docs
    BY <2>1, <2>2, RequestUnseen
  <2>4. ~conn[c].open => srv' = srv /\ srv[c].up # "up"
    BY <2>1 DEF StartRequest, Serving
  <2>5. conn[c].open => srv'[c].up = s.up /\ srv'[c].docs = s.docs
    <3> SUFFICES ASSUME conn[c].open PROVE srv'[c].up = s.up /\ srv'[c].docs = s.docs
      OBVIOUS
    <3>1. srv'[c] = ShownRequest(s, k, "sync")
      BY <2>1 DEF StartRequest, ConnTypeOK
    <3> QED
      BY <2>2, <3>1 DEF ShownRequest, SrvTypes
  <2>6. \A e \in Conns : e # c => srv'[e] = srv[e]
    BY <2>3
  <2>7. srv'[c].up = srv[c].up
    BY <2>2, <2>4, <2>5
  <2>8. srv[c].up = "up" => srv'[c].docs = [srv[c].docs EXCEPT ![DocOf[k]] = TextOf[k]]
    BY <2>2, <2>4, <2>5
  <2>9. pc'[k] = "sync" /\ "sync" \in Holding
    BY <2>1 DEF Holding
  <2> QED
    BY <1>1, <2>1, <2>6, <2>7, <2>8, <2>9
<1>3. ASSUME NEW k \in Calls, CloseDocument(k) PROVE OwnDocument' /\ Empty'
  <2> DEFINE c == server[k]
             s == ShownDocument(srv[c], DocOf[k], NoText)
  <2>1. /\ c \in Conns /\ ~Fresh(c) /\ Turn(k) /\ pc[k] \in Holding
        /\ pc' = [pc EXCEPT ![k] = "done"] /\ UNCHANGED server
        /\ srv' = IF conn[c].open THEN [srv EXCEPT ![c] = s] ELSE srv
    BY <1>3, ManagerAssumption DEF CloseDocument, Goto, Locked, Using, Holding, Serving
  <2>2. /\ s.up = srv[c].up
        /\ srv[c].up = "up" => s.docs = [srv[c].docs EXCEPT ![DocOf[k]] = NoText]
    <3> HIDE DEF IInv, TypeOK
    <3>1. /\ srv[c] \in SrvTypes /\ DocOf[k] \in Docs /\ NoText \in Contents
      BY <1>0, <2>1
    <3> QED
      BY <3>1, ShownStill
  <2> HIDE DEF s
  <2>3. ~conn[c].open => srv' = srv /\ srv[c].up # "up"
    BY <2>1 DEF Serving
  <2>4. conn[c].open => srv'[c] = s
    BY <2>1 DEF ConnTypeOK
  <2>5. \A e \in Conns : e # c => srv'[e] = srv[e]
    BY <2>1 DEF ConnTypeOK
  <2>6. srv'[c].up = srv[c].up
    BY <2>2, <2>3, <2>4
  <2>7. srv[c].up = "up" => srv'[c].docs = [srv[c].docs EXCEPT ![DocOf[k]] = NoText]
    BY <2>2, <2>3, <2>4
  <2>8. "done" \notin Holding
    BY DEF Holding
  <2> QED
    BY <1>1, <2>1, <2>5, <2>6, <2>7, <2>8
<1>4. ASSUME NEW c \in Conns, Spawn(c) PROVE OwnDocument' /\ Empty'
  <2>1. PICK up \in {"up", "down"} :
          srv' = [srv EXCEPT ![c] = ShownRequest([@ EXCEPT !.up = up], c, "initialize")]
    BY <1>4 DEF Spawn
  <2> DEFINE s == [srv[c] EXCEPT !.up = up]
  <2>2. s \in SrvTypes /\ s.up = up /\ s.docs = srv[c].docs
    BY <1>0 DEF SrvTypes
  <2> HIDE DEF s
  <2>3. ShownRequest(s, c, "initialize").docs = srv[c].docs
    BY <2>2 DEF ShownRequest, SrvTypes
  <2>4. ShownRequest(s, c, "initialize").up = up
    BY <2>2 DEF ShownRequest, SrvTypes
  <2>5. srv'[c] = ShownRequest(s, c, "initialize") /\ \A e \in Conns : e # c => srv'[e] = srv[e]
    BY <2>1 DEF ConnTypeOK, s
  <2>6. Fresh(c) /\ UNCHANGED <<pc, server>>
    BY <1>4 DEF Spawn
  <2>7. \A k \in Calls : server[k] # c
    BY <2>6, ManagerAssumption DEF Serving
  <2>8. \A d \in Docs : srv'[c].docs[d] = NoText
    BY <2>3, <2>5, <2>6 DEF Empty
  <2>9. Empty'
    <3> SUFFICES ASSUME NEW e \in Conns, Fresh(e)' PROVE \A d \in Docs : srv'[e].docs[d] = NoText
      BY DEF Empty
    <3>1. CASE e = c
      BY <2>8, <3>1
    <3>2. CASE e # c
      <4>1. srv'[e] = srv[e]
        BY <2>5, <3>2
      <4> QED
        BY <4>1 DEF Empty, Fresh
    <3> QED
      BY <3>1, <3>2
  <2>10. ASSUME NEW e \in Conns, NEW d \in Docs, srv'[e].up = "up"
         PROVE  /\ \A j \in Calls :
                     server'[j] = e /\ DocOf[j] = d /\ pc'[j] \in Holding
                        => srv'[e].docs[d] = TextOf[j]
                /\ (\A j \in Calls : ~(server'[j] = e /\ DocOf[j] = d /\ pc'[j] \in Holding))
                        => srv'[e].docs[d] = NoText
    <3>1. CASE e = c
      BY <2>6, <2>7, <2>8, <3>1
    <3>2. CASE e # c
      <4>1. srv'[e] = srv[e]
        BY <2>5, <3>2
      <4> QED
        BY <1>00, <2>6, <2>10, <4>1
    <3> QED
      BY <3>1, <3>2
  <2> QED
    BY <2>9, <2>10 DEF OwnDocument, Holding
<1>5. CASE ~(\E k \in Calls : Open(k) \/ CloseDocument(k)) /\ ~(\E c \in Conns : Spawn(c))
  BY <1>5, MostUnseen, MostSameUsers, OwnKept
<1> QED
  BY <1>2, <1>3, <1>4, <1>5

-----------------------------------------------------------------------------
(* The invariants hold together.                                           *)
LEMMA Invariant == Spec => [](IInv /\ OwnDocument /\ Empty)
<1>1. Init => IInv /\ OwnDocument /\ Empty
  <2>1. Init => OwnDocument /\ Empty
    BY DEF Init, ConnInit, OwnDocument, Empty
  <2> QED
    BY <2>1, InitIInv
<1>2. IInv /\ OwnDocument /\ Empty /\ [Next]_vars => (IInv /\ OwnDocument /\ Empty)'
  <2> SUFFICES ASSUME IInv, OwnDocument, Empty, [Next]_vars
               PROVE  IInv' /\ OwnDocument' /\ Empty'
    OBVIOUS
  <2>1. TypeOK' /\ UnsettledIsTimed' /\ Locked'
    BY TypeStep, LockedStep
  <2>2. OwnDocument' /\ Empty'
    BY OwnStep
  <2>3. Serving' /\ NoStrayServer'
    BY ServingStep
  <2> QED
    BY <2>1, <2>2, <2>3 DEF IInv
<1> QED
  BY <1>1, <1>2, PTL DEF Spec

(* Every variable stays within its type, with any number of calls, of      *)
(* connections, of configurations and of faults (TypeOK).                  *)
THEOREM TypeCorrect == Spec => []TypeOK
<1>1. IInv => TypeOK
  BY DEF IInv
<1> QED
  BY <1>1, Invariant, PTL

(* Nobody ever waits for a request whose timer does not run: the timer     *)
(* outlives every way in which the table of pending requests is emptied    *)
(* (lsp-connection.ts, request and shutdown).                              *)
THEOREM RequestsTimed == Spec => []UnsettledIsTimed
<1>1. IInv => UnsettledIsTimed
  BY DEF IInv
<1> QED
  BY <1>1, Invariant, PTL

(* No server process that runs is ever forgotten by the manager            *)
(* (lsp-manager.ts, getServerInner, removeServer).                         *)
THEOREM NoStray == Spec => []NoStrayServer
<1>1. IInv => NoStrayServer
  BY DEF IInv
<1> QED
  BY <1>1, Invariant, PTL

(* Checks of one document never see each other's text: the server has it   *)
(* as its present user wrote it, or not at all (document-sync.ts,          *)
(* withOpenDocument).                                                      *)
THEOREM DocumentsOwned == Spec => []OwnDocument
  BY Invariant, PTL
-----------------------------------------------------------------------------
(* An initialize request has been answered when it is no longer owed: the  *)
(* answer settles the request of the connection it came from, since only   *)
(* the connection itself asks for it, once, and while it starts it asks    *)
(* nothing else.                                                           *)
Owing(c) == Answer(<<c, "initialize">>, NoText) \in srv[c].owes

Greets(m) == m.kind = "answer" /\ \E c \in Conns : m.to = <<c, "initialize">>

Answered ==
    /\ \A c \in Conns : \A m \in srv[c].owes : Greets(m) => m.text = NoText
    /\ \A e, c \in Conns, x \in Methods : <<c, x>> \in conn[e].pending =>
          e = c /\ (start = "init" /\ c = new => x = "initialize")
    /\ start = "init" /\ req[new].st = "ok" => ~Owing(new)
    /\ table # NoConn => ~Owing(table)
    /\ \A k \in Calls : server[k] # NoConn => ~Owing(server[k])

(* Steps that neither ask for nor answer initialize, and begin no start.   *)
Calm ==
    /\ \A c \in Conns : \A m \in srv'[c].owes : Greets(m) => m \in srv[c].owes
    /\ \A e, c \in Conns, x \in Methods : <<c, x>> \in conn'[e].pending =>
          \/ <<c, x>> \in conn[e].pending
          \/ e = c /\ ~(start' = "init" /\ new' = c)
    /\ \A c \in Conns : req'[c].st = "ok" => req[c].st = "ok"
    /\ start' = "init" => start = "init" /\ new' = new

(* Calm steps leave what has been answered so.                             *)
LEMMA CalmKeeps ==
  ASSUME IInv, Answered, Calm,
         table' # NoConn => table' \in Conns /\ ~Owing(table'),
         \A k \in Calls : server'[k] # NoConn => server'[k] \in Conns /\ ~Owing(server'[k])
  PROVE  Answered'
<1>1. ASSUME NEW c \in Conns, ~Owing(c) PROVE ~Owing(c)'
  <2>1. Greets(Answer(<<c, "initialize">>, NoText))
    BY DEF Greets, Answer
  <2> QED
    BY <1>1, <2>1 DEF Owing, Calm
<1>2. \A c \in Conns : \A m \in srv'[c].owes : Greets(m) => m.text = NoText
  BY DEF Answered, Calm
<1>3. \A e, c \in Conns, x \in Methods : <<c, x>> \in conn'[e].pending =>
          e = c /\ (start' = "init" /\ c = new' => x = "initialize")
  BY DEF Answered, Calm
<1>4. start' = "init" /\ req'[new'].st = "ok" => ~Owing(new)'
  <2> SUFFICES ASSUME start' = "init", req'[new'].st = "ok" PROVE ~Owing(new)'
    OBVIOUS
  <2>1. start = "init" /\ new' = new /\ new \in Conns
    BY DEF Calm, IInv, Serving, TypeOK, MgrTypeOK
  <2>2. ~Owing(new)
    BY <2>1 DEF Calm, Answered
  <2> QED
    BY <1>1, <2>1, <2>2 DEF Owing
<1>5. table' # NoConn => ~Owing(table)'
  BY <1>1 DEF Owing
<1>6. \A k \in Calls : server'[k] # NoConn => ~Owing(server[k])'
  BY <1>1 DEF Owing
<1> QED
  BY <1>2, <1>3, <1>4, <1>5, <1>6 DEF Answered, Greets

(* What a request other than initialize does.                              *)
LEMMA RequestCalm ==
  ASSUME ConnTypeOK, NEW c \in Conns, NEW o \in Owners, NEW m \in Methods \ {"initialize"},
         NEW cn \in ConnTypes, NEW s \in SrvTypes, cn.pending \subseteq conn[c].pending,
         \A x \in s.owes : Greets(x) => x \in srv[c].owes,
         StartRequest(o, c, m, cn, s)
  PROVE  /\ \A e \in Conns : \A x \in srv'[e].owes : Greets(x) => x \in srv[e].owes
         /\ \A e \in Conns : \A id \in conn'[e].pending :
               id \in conn[e].pending \/ (e = c /\ id = <<o, m>>)
         /\ \A e \in Owners : req'[e].st = "ok" => req[e].st = "ok"
<1>1. \A x \in ShownRequest(s, o, m).owes : x \in s.owes \/ ~Greets(x)
  BY DEF ShownRequest, SrvTypes, Greets, Answer
<1>2. [cn EXCEPT !.pending = @ \cup {<<o, m>>}].pending = cn.pending \cup {<<o, m>>}
  BY DEF ConnTypes
<1>3. CASE conn[c].open
  <2>1. /\ srv' = [srv EXCEPT ![c] = ShownRequest(s, o, m)]
        /\ conn' = [conn EXCEPT ![c] = [cn EXCEPT !.pending = @ \cup {<<o, m>>}]]
        /\ req' = [req EXCEPT ![o] = Asked(m)]
    BY <1>3 DEF StartRequest
  <2>2. \A e \in Conns : \A x \in srv'[e].owes : Greets(x) => x \in srv[e].owes
    BY <1>1, <2>1 DEF ConnTypeOK
  <2>3. \A e \in Conns : \A id \in conn'[e].pending :
           id \in conn[e].pending \/ (e = c /\ id = <<o, m>>)
    BY <1>2, <2>1 DEF ConnTypeOK
  <2>4. \A e \in Owners : req'[e].st = "ok" => req[e].st = "ok"
    BY <2>1 DEF ConnTypeOK, Asked
  <2> QED
    BY <2>2, <2>3, <2>4
<1>4. CASE ~conn[c].open
  BY <1>4 DEF StartRequest, ConnTypeOK, Refused
<1> QED
  BY <1>3, <1>4

(* A document shown adds no answer.                                        *)
LEMMA DocumentCalm ==
  ASSUME NEW s \in SrvTypes, NEW d, NEW t
  PROVE  \A x \in ShownDocument(s, d, t).owes : Greets(x) => x \in s.owes
  BY DEF ShownDocument, SrvTypes, Greets, Publication

(* Nor does a request of a call, which the manager is no part of.          *)
LEMMA CallRequestCalm ==
  ASSUME ConnTypeOK, NEW c \in Conns, NEW k \in Calls, NEW m \in Methods \ {"initialize"},
         NEW cn \in ConnTypes, NEW s \in SrvTypes, cn.pending \subseteq conn[c].pending,
         \A x \in s.owes : Greets(x) => x \in srv[c].owes,
         StartRequest(k, c, m, cn, s), UNCHANGED <<start, new>>
  PROVE  Calm
<1>1. k \in Owners /\ \A e \in Conns : e \in Owners /\ e # k
  BY LspAssumption DEF Owners
<1>2. /\ \A e \in Conns : \A x \in srv'[e].owes : Greets(x) => x \in srv[e].owes
      /\ \A e \in Conns : \A id \in conn'[e].pending :
            id \in conn[e].pending \/ (e = c /\ id = <<k, m>>)
      /\ \A e \in Owners : req'[e].st = "ok" => req[e].st = "ok"
  BY <1>1, RequestCalm
<1> QED
  BY <1>1, <1>2 DEF Calm

(* The shutdown of a connection that is not being started.                 *)
LEMMA StopCalm ==
  ASSUME ConnTypeOK, NEW c \in Conns, BeginStop(c),
         start' = "init" => start = "init" /\ new' = new /\ new # c
  PROVE  Calm
<1>1. conn[c] \in ConnTypes /\ srv[c] \in SrvTypes /\ c \in Owners
      /\ \A e \in Conns : e \in Owners
  BY DEF ConnTypeOK, Owners
<1>2. CASE conn[c].open
  <2>1. StartRequest(c, c, "shutdown", conn[c], srv[c])
    BY <1>2 DEF BeginStop
  <2>2. /\ \A e \in Conns : \A x \in srv'[e].owes : Greets(x) => x \in srv[e].owes
        /\ \A e \in Conns : \A id \in conn'[e].pending :
              id \in conn[e].pending \/ (e = c /\ id = <<c, "shutdown">>)
        /\ \A e \in Owners : req'[e].st = "ok" => req[e].st = "ok"
    BY <1>1, <2>1, RequestCalm DEF Methods
  <2> QED
    BY <1>1, <2>2 DEF Calm
<1>3. CASE ~conn[c].open
  <2>1. Closed(conn[c]).pending = {}
    BY <1>1 DEF Closed, ConnTypes
  <2> QED
    BY <1>3, <2>1 DEF BeginStop, ConnTypeOK, Calm
<1> QED
  BY <1>2, <1>3

(* The steps of calls that neither ask for a server nor remove one are     *)
(* calm.                                                                   *)
LEMMA CallCalm ==
  ASSUME IInv, NEW k \in Calls, CallStep(k), ~Restart(k) PROVE Calm
<1> USE DEF IInv, TypeOK
<1>0. /\ \A c \in Conns : conn[c] \in ConnTypes /\ srv[c] \in SrvTypes
      /\ DocOf[k] \in Docs /\ TextOf[k] \in Contents /\ NoText \in Contents
  BY LspAssumption DEF ConnTypeOK, Contents
<1>1. pc[k] \in Using => server[k] \in Conns
  BY DEF Locked
<1>2. CASE UNCHANGED <<req, start, new>> /\ \A c \in Conns :
               /\ conn'[c].pending = conn[c].pending
               /\ \A m \in srv'[c].owes : Greets(m) => m \in srv[c].owes
  BY <1>2 DEF Calm
<1>3. CASE Navigate(k)
  <2>1. /\ StartRequest(k, server[k], "navigate", conn[server[k]], srv[server[k]])
        /\ server[k] \in Conns /\ UNCHANGED <<start, new>>
    BY <1>3 DEF Navigate, mgrVars
  <2> QED
    BY <1>0, <2>1, CallRequestCalm DEF Methods
<1>4. CASE Open(k)
  <2> DEFINE s == ShownDocument(srv[server[k]], DocOf[k], TextOf[k])
  <2>1. /\ StartRequest(k, server[k], "sync", conn[server[k]], s)
        /\ server[k] \in Conns /\ UNCHANGED <<start, new>>
    BY <1>1, <1>4 DEF Open, mgrVars, Using
  <2>2. s \in SrvTypes
    BY <1>0, <2>1, ShownTyped
  <2>3. \A x \in s.owes : Greets(x) => x \in srv[server[k]].owes
    BY <1>0, <2>1, DocumentCalm
  <2> QED
    BY <1>0, <2>1, <2>2, <2>3, CallRequestCalm DEF Methods
<1>5. CASE ListenTimeout(k)
  <2> DEFINE cn == [conn[server[k]] EXCEPT !.listeners = @ \ {k}]
  <2>1. /\ StartRequest(k, server[k], "pull", cn, srv[server[k]])
        /\ server[k] \in Conns /\ UNCHANGED <<start, new>>
    BY <1>1, <1>5 DEF ListenTimeout, mgrVars, Using, Holding
  <2>2. cn \in ConnTypes /\ cn.pending = conn[server[k]].pending
    BY <1>0, <2>1, FewerTyped DEF ConnTypes
  <2> QED
    BY <1>0, <2>1, <2>2, CallRequestCalm DEF Methods
<1>6. CASE Listen(k)
  <2>1. server[k] \in Conns
    BY <1>1, <1>6 DEF Listen, Using, Holding
  <2> QED
    BY <1>0, <1>2, <1>6, <2>1 DEF Listen, mgrVars, ConnTypes, ConnTypeOK
<1>7. CASE CloseDocument(k)
  <2>1. server[k] \in Conns
    BY <1>1, <1>7 DEF CloseDocument, Using, Holding
  <2>2. \A x \in ShownDocument(srv[server[k]], DocOf[k], NoText).owes :
           Greets(x) => x \in srv[server[k]].owes
    BY <1>0, <2>1, DocumentCalm
  <2>3. \A c \in Conns : \A m \in srv'[c].owes : Greets(m) => m \in srv[c].owes
    BY <1>7, <2>1, <2>2 DEF CloseDocument, ConnTypeOK
  <2>4. UNCHANGED <<conn, req, start, new>>
    BY <1>7 DEF CloseDocument, mgrVars
  <2> QED
    BY <1>2, <2>3, <2>4
<1>8. CASE UNCHANGED <<connVars, mgrVars>>
  BY <1>2, <1>8 DEF connVars, mgrVars
<1> QED
  BY <1>3, <1>4, <1>5, <1>6, <1>7, <1>8
  DEF CallStep, ShutDown, Conclude, Navigated, Enqueue, Heard, Pulled

(* So are timers, and what connections receive besides answers.            *)
LEMMA ConnCalm ==
  ASSUME IInv, UNCHANGED mgrVars,
         \/ \E o \in Owners : Timeout(o)
         \/ \E c \in Conns : ConnStep(c) /\ ~ReceiveAnswer(c)
  PROVE  Calm
<1> USE DEF IInv, TypeOK
<1>0. /\ \A c \in Conns : conn[c] \in ConnTypes /\ srv[c] \in SrvTypes /\ c \in Owners
      /\ \A o \in Owners : req[o] \in ReqTypes
      /\ UNCHANGED <<start, new>>
  BY DEF ConnTypeOK, Owners, mgrVars
<1>1. ASSUME \A c \in Conns : \A m \in srv'[c].owes : Greets(m) => m \in srv[c].owes,
             \A c \in Conns : conn'[c].pending \subseteq conn[c].pending,
             \A o \in Owners : req'[o].st = "ok" => req[o].st = "ok"
      PROVE  Calm
  BY <1>0, <1>1 DEF Calm
<1>2. \A ids : \A o \in Owners : Ended(ids)[o].st = "ok" => req[o].st = "ok"
  BY DEF Ended, Refused
<1>3. ASSUME NEW o \in Owners, Timeout(o) PROVE Calm
  <2>1. srv' = srv /\ \A c \in Conns : conn'[c].pending \subseteq conn[c].pending
    BY <1>0, <1>3 DEF Timeout, ConnTypes
  <2>2. \A e \in Owners : req'[e].st = "ok" => req[e].st = "ok"
    BY <1>3 DEF Timeout, Refused, ConnTypeOK
  <2> QED
    BY <1>1, <2>1, <2>2
<1>4. ASSUME NEW c \in Conns, ConnStep(c), ~ReceiveAnswer(c) PROVE Calm
  <2>1. CASE ReceiveDiagnostics(c)
    <3>1. \A e \in Conns : srv'[e].owes \subseteq srv[e].owes
      BY <1>0, <2>1 DEF ReceiveDiagnostics, SrvTypes, ConnTypeOK
    <3>2. \A e \in Conns : conn'[e].pending = conn[e].pending
      BY <1>0, <2>1 DEF ReceiveDiagnostics, ConnTypes, ConnTypeOK
    <3> QED
      BY <1>1, <2>1, <3>1, <3>2 DEF ReceiveDiagnostics
  <2>2. Closed(conn[c]).pending = {} /\ [Closed(conn[c]) EXCEPT !.attached = FALSE].pending = {}
    BY <1>0 DEF Closed, ConnTypes
  <2>3. Down(srv[c]).owes = srv[c].owes
    BY <1>0 DEF Down, SrvTypes
  <2>4. CASE ExitSeen(c)
    <3>1. \A e \in Conns : conn'[e].pending \subseteq conn[e].pending
      BY <2>2, <2>4 DEF ExitSeen, ConnTypeOK
    <3> QED
      BY <1>1, <1>2, <2>4, <3>1 DEF ExitSeen, RejectAll
  <2>5. CASE Overflow(c)
    <3>1. \A e \in Conns : conn'[e].pending \subseteq conn[e].pending
      BY <2>2, <2>5 DEF Overflow, ConnTypeOK
    <3>2. \A e \in Conns : srv'[e].owes = srv[e].owes
      BY <2>3, <2>5 DEF Overflow, ConnTypeOK
    <3> QED
      BY <1>1, <1>2, <2>5, <3>1, <3>2 DEF Overflow, RejectAll
  <2>6. CASE ServerAsks(c)
    <3>1. \A id : ~Greets(Question(id))
      BY DEF Greets, Question
    <3>2. \A e \in Conns : \A m \in srv'[e].owes : Greets(m) => m \in srv[e].owes
      BY <1>0, <2>6, <3>1 DEF ServerAsks, SrvTypes, ConnTypeOK
    <3> QED
      BY <1>1, <2>6, <3>2 DEF ServerAsks
  <2>7. CASE ServerExits(c)
    <3>1. \A e \in Conns : srv'[e].owes = srv[e].owes
      BY <2>3, <2>7 DEF ServerExits, ConnTypeOK
    <3> QED
      BY <1>1, <2>7, <3>1 DEF ServerExits
  <2> QED
    BY <1>4, <2>1, <2>4, <2>5, <2>6, <2>7 DEF ConnStep
<1> QED
  BY <1>3, <1>4

(* An answer received is that of the connection it comes from, and no      *)
(* longer owed.                                                            *)
LEMMA AnswerStep ==
  ASSUME IInv, Answered, NEW c \in Conns, ReceiveAnswer(c), UNCHANGED <<mgrVars, callVars>>
  PROVE  Answered'
<1> USE DEF IInv, TypeOK
<1>0. /\ \A e \in Conns : conn[e] \in ConnTypes /\ srv[e] \in SrvTypes
      /\ UNCHANGED <<table, start, new, server>>
  BY DEF ConnTypeOK, mgrVars, callVars
<1>1. PICK m \in srv[c].owes, st \in {"ok", "failed"} :
         /\ m.kind = "answer" /\ m.to \in conn[c].pending
         /\ srv' = [srv EXCEPT ![c].owes = @ \ {m}]
         /\ req' = [req EXCEPT ![m.to[1]] = [@ EXCEPT !.st = st, !.text = m.text]]
         /\ conn' = [conn EXCEPT ![c].pending = @ \ {m.to}]
  BY DEF ReceiveAnswer, Settles
<1>2. \A e \in Conns : srv'[e].owes = IF e = c THEN srv[c].owes \ {m} ELSE srv[e].owes
  BY <1>0, <1>1 DEF ConnTypeOK, SrvTypes
<1>3. \A e \in Conns : conn'[e].pending \subseteq conn[e].pending
  BY <1>0, <1>1 DEF ConnTypeOK, ConnTypes
<1>4. \A e \in Conns : ~Owing(e) => ~Owing(e)'
  BY <1>2 DEF Owing
<1>5. ASSUME start = "init", req'[new].st = "ok" PROVE ~Owing(new)'
  <2>1. new \in Conns /\ new \in Owners
    BY <1>5 DEF Serving, MgrTypeOK, Owners
  <2>2. CASE req[new].st = "ok"
    <3>1. ~Owing(new) /\ new' = new
      BY <1>0, <1>5, <2>2 DEF Answered
    <3> QED
      BY <1>4, <2>1, <3>1 DEF Owing
  <2>3. CASE req[new].st # "ok"
    <3>1. m.to[1] = new
      BY <1>1, <1>5, <2>1, <2>3 DEF ConnTypeOK
    <3>2. m.to \in Ids
      BY <1>0, <1>1 DEF ConnTypes
    <3>3. m.to = <<new, m.to[2]>> /\ m.to[2] \in Methods
      BY <3>1, <3>2 DEF Ids
    <3>4. c = new /\ m.to = <<new, "initialize">>
      <4>1. <<new, m.to[2]>> \in conn[c].pending
        BY <1>1, <3>3
      <4>2. c = new /\ m.to[2] = "initialize"
        BY <1>5, <2>1, <3>3, <4>1 DEF Answered
      <4> QED
        BY <3>3, <4>2
    <3>5. m.text = NoText
      BY <1>1, <2>1, <3>4 DEF Answered, Greets
    <3>6. m = Answer(<<new, "initialize">>, NoText)
      <4>1. m \in Messages
        BY <1>0, <1>1 DEF SrvTypes
      <4> QED
        BY <1>1, <3>4, <3>5, <4>1 DEF Messages, Answer
    <3>7. srv'[new].owes = srv[new].owes \ {m} /\ new' = new
      BY <1>0, <1>2, <2>1, <3>4
    <3> QED
      BY <3>6, <3>7 DEF Owing
  <2> QED
    BY <2>2, <2>3
<1>6. \A k \in Calls : server[k] # NoConn => server[k] \in Conns
  OBVIOUS
<1>7. \A e \in Conns : \A x \in srv'[e].owes : Greets(x) => x.text = NoText
  BY <1>2 DEF Answered
<1>8. \A e, d \in Conns, x \in Methods : <<d, x>> \in conn'[e].pending =>
          e = d /\ (start = "init" /\ d = new => x = "initialize")
  BY <1>3 DEF Answered
<1>9. (table # NoConn => ~Owing(table)') /\ \A k \in Calls : server[k] # NoConn => ~Owing(server[k])'
  BY <1>0, <1>4, <1>6 DEF Answered, MgrTypeOK, Owing
<1> QED
  BY <1>0, <1>5, <1>7, <1>8, <1>9 DEF Answered, Greets, Owing

(* A connection that is spawned owes one answer, and serves nobody yet.    *)
LEMMA SpawnStep ==
  ASSUME IInv, Answered, NEW c \in Conns, Spawn(c), UNCHANGED <<kind, chain, result>>
  PROVE  Answered'
<1> USE DEF IInv, TypeOK
<1>0. /\ conn[c] \in ConnTypes /\ srv[c] \in SrvTypes /\ c \in Owners
      /\ start' = "init" /\ new' = c /\ Fresh(c)
      /\ UNCHANGED <<table, server>>
  BY DEF ConnTypeOK, Spawn, Owners
<1>1. PICK up \in {"up", "down"} :
         srv' = [srv EXCEPT ![c] = ShownRequest([@ EXCEPT !.up = up], c, "initialize")]
  BY DEF Spawn
<1>2. \A m \in srv'[c].owes : m \in srv[c].owes \/ m = Answer(<<c, "initialize">>, NoText)
  BY <1>0, <1>1 DEF ShownRequest, SrvTypes, ConnTypeOK
<1>3. \A e \in Conns : e # c => srv'[e] = srv[e] /\ conn'[e] = conn[e]
  BY <1>1 DEF Spawn, ConnTypeOK
<1>4. \A e \in Conns : \A m \in srv'[e].owes : Greets(m) => m.text = NoText
  BY <1>2, <1>3 DEF Answered, Answer
<1>5. conn'[c].pending = {<<c, "initialize">>}
  BY <1>0 DEF Spawn, ConnTypeOK, ConnTypes
<1>6. \A e, d \in Conns, x \in Methods : <<d, x>> \in conn'[e].pending =>
          e = d /\ (d = c => x = "initialize")
  <2> SUFFICES ASSUME NEW e \in Conns, NEW d \in Conns, NEW x \in Methods,
                      <<d, x>> \in conn'[e].pending
               PROVE  e = d /\ (d = c => x = "initialize")
    OBVIOUS
  <2>1. CASE e = c
    BY <1>5, <2>1
  <2>2. CASE e # c
    <3>1. e = d
      BY <1>3, <2>2 DEF Answered
    <3> QED
      BY <2>2, <3>1
  <2> QED
    BY <2>1, <2>2
<1>7. req'[c].st = "open"
  BY <1>0 DEF Spawn, Asked, ConnTypeOK
<1>8. table # NoConn => table # c /\ table \in Conns
  BY <1>0 DEF Serving, MgrTypeOK
<1>9. \A k \in Calls : server[k] # NoConn => server[k] # c /\ server[k] \in Conns
  BY <1>0 DEF Serving
<1>10. \A e \in Conns : e # c /\ ~Owing(e) => ~Owing(e)'
  BY <1>3 DEF Owing
<1>11. (table # NoConn => ~Owing(table)') /\ \A k \in Calls : server[k] # NoConn => ~Owing(server[k])'
  BY <1>0, <1>8, <1>9, <1>10 DEF Answered, Owing
<1> QED
  BY <1>0, <1>4, <1>6, <1>7, <1>11 DEF Answered, Greets, Owing

(* getServer and removeServer give calls a server that is running.         *)
LEMMA GetCalm ==
  ASSUME IInv, Answered, NEW k \in Calls, Ask(k) \/ Restart(k) \/ Remove(k)
  PROVE  Answered'
<1> USE DEF IInv, TypeOK
<1>0. /\ table # NoConn => table \in Conns /\ ~Owing(table)
      /\ \A j \in Calls : server[j] # NoConn => server[j] \in Conns /\ ~Owing(server[j])
  BY DEF Answered, MgrTypeOK
<1>1. ASSUME IF table = NoConn THEN UNCHANGED <<conn, srv, req, timers, stop>> ELSE BeginStop(table),
             table' = NoConn, new' = new, start' = start \/ start' = "probe",
             \A j \in Calls : server'[j] # NoConn => server'[j] \in Conns /\ ~Owing(server'[j])
      PROVE  Answered'
  <2>1. CASE table = NoConn
    BY <1>1, <2>1, CalmKeeps DEF Calm
  <2>2. CASE table # NoConn
    <3>1. table \in Conns /\ start = "off"
      BY <2>2, <1>0 DEF Serving
    <3> QED
      BY <1>1, <2>2, <3>1, StopCalm, CalmKeeps
  <2> QED
    BY <2>1, <2>2
<1>2. CASE Remove(k)
  <2>1. RemoveServer /\ server' = [server EXCEPT ![k] = table]
    BY <1>2 DEF Remove
  <2> QED
    BY <1>0, <1>1, <2>1 DEF RemoveServer
<1>3. CASE GetServer(k)
  <2>1. ASSUME UNCHANGED <<connVars, mgrVars>>, server' = server \/ Serve(k, table)
        PROVE  Answered'
    <3>1. \A j \in Calls : server'[j] # NoConn => server'[j] \in Conns /\ ~Owing(server'[j])
      BY <1>0, <2>1 DEF Serve
    <3>2. Calm
      BY <2>1 DEF Calm, connVars, mgrVars
    <3> QED
      BY <1>0, <2>1, <3>1, <3>2, CalmKeeps DEF mgrVars
  <2>2. ASSUME /\ start = "off" /\ start' = "probe" /\ table' = NoConn
               /\ IF table = NoConn THEN UNCHANGED <<conn, srv, req, timers, stop>>
                  ELSE BeginStop(table)
               /\ UNCHANGED <<new, server>>
        PROVE  Answered'
    BY <1>0, <1>1, <2>2
  <2> QED
    BY <1>3, <2>1, <2>2 DEF GetServer
<1> QED
  BY <1>2, <1>3 DEF Ask, Restart

(* The other steps of a start, and the end of a shutdown.                  *)
LEMMA ManagerCalm ==
  ASSUME IInv, Answered, ManagerStep, UNCHANGED <<kind, chain, result>>,
         \A c \in Conns : ~Spawn(c)
  PROVE  Answered'
<1> USE DEF IInv, TypeOK
<1>0. /\ table # NoConn => table \in Conns /\ ~Owing(table)
      /\ \A j \in Calls : server[j] # NoConn => server[j] \in Conns /\ ~Owing(server[j])
      /\ \A c \in Conns : conn[c] \in ConnTypes /\ srv[c] \in SrvTypes
  BY DEF Answered, MgrTypeOK, ConnTypeOK
<1>1. CASE NotFound \/ NextConfig
  <2>1. Calm /\ UNCHANGED <<table, server>>
    BY <1>1 DEF NotFound, NextConfig, connVars, Calm
  <2> QED
    BY <1>0, <2>1, CalmKeeps
<1>2. CASE Started
  <2>1. new \in Conns /\ ~Owing(new) /\ table' = new
    BY <1>2 DEF Started, Answered, Serving, MgrTypeOK
  <2>2. \A j \in Calls : server'[j] # NoConn => server'[j] \in Conns /\ ~Owing(server'[j])
    BY <1>0, <1>2, <2>1 DEF Started, Resolve
  <2>3. Calm
    BY <1>2 DEF Started, Resolve, connVars, Calm
  <2> QED
    BY <2>1, <2>2, <2>3, CalmKeeps
<1>3. CASE NoServer
  <2>1. \A j \in Calls : server'[j] # NoConn => server'[j] \in Conns /\ ~Owing(server'[j])
    BY <1>0, <1>3 DEF NoServer, Resolve
  <2>2. Calm /\ table' = table
    BY <1>3 DEF NoServer, Resolve, connVars, Calm
  <2> QED
    BY <1>0, <2>1, <2>2, CalmKeeps
<1>4. CASE StartFailed
  <2>1. new \in Conns /\ BeginStop(new) /\ start' = "clean" /\ UNCHANGED <<table, server>>
    BY <1>4 DEF StartFailed, Serving, MgrTypeOK
  <2>2. Calm
    BY <2>1, StopCalm
  <2> QED
    BY <1>0, <2>1, <2>2, CalmKeeps
<1>5. ASSUME NEW c \in Conns, Kill(c) PROVE Answered'
  <2>1. \A e \in Conns : srv'[e].owes = srv[e].owes
    BY <1>0, <1>5 DEF Kill, Down, SrvTypes, ConnTypeOK
  <2>2. [Closed(conn[c]) EXCEPT !.attached = FALSE].pending = {}
    BY <1>0 DEF Closed, ConnTypes
  <2>3. \A e \in Conns : conn'[e].pending \subseteq conn[e].pending
    BY <1>5, <2>2 DEF Kill, ConnTypeOK
  <2>4. Calm /\ UNCHANGED <<table, server>>
    BY <1>5, <2>1, <2>3 DEF Kill, Calm
  <2> QED
    BY <1>0, <2>4, CalmKeeps
<1> QED
  BY <1>1, <1>2, <1>3, <1>4, <1>5 DEF ManagerStep, StartStep

(* No step gives a call a server that has yet to answer.                   *)
LEMMA AnsweredStep == IInv /\ Answered /\ [Next]_vars => Answered'
<1> SUFFICES ASSUME IInv, Answered, [Next]_vars PROVE Answered'
  OBVIOUS
<1>0. /\ table # NoConn => table \in Conns /\ ~Owing(table)
      /\ \A j \in Calls : server[j] # NoConn => server[j] \in Conns /\ ~Owing(server[j])
  BY DEF IInv, TypeOK, Answered, MgrTypeOK
<1>1. ASSUME NEW k \in Calls, CallStep(k), ~Restart(k) PROVE Answered'
  <2>1. UNCHANGED <<table, server>>
    BY <1>1 DEF CallStep, ShutDown, Conclude, Navigate, Navigated, Enqueue, Open, Listen,
                Heard, ListenTimeout, Pulled, CloseDocument, mgrVars
  <2> QED
    BY <1>0, <1>1, <2>1, CallCalm, CalmKeeps
<1>2. ASSUME NEW k \in Calls, Ask(k) \/ Restart(k) \/ Remove(k) PROVE Answered'
  BY <1>2, GetCalm
<1>3. ASSUME (\E c \in Conns : ConnStep(c)) \/ (\E o \in Owners : Timeout(o)),
             UNCHANGED <<mgrVars, callVars>>
      PROVE  Answered'
  <2>1. CASE \E c \in Conns : ReceiveAnswer(c)
    BY <1>3, <2>1, AnswerStep
  <2>2. CASE ~\E c \in Conns : ReceiveAnswer(c)
    BY <1>0, <1>3, <2>2, ConnCalm, CalmKeeps DEF mgrVars, callVars
  <2> QED
    BY <2>1, <2>2
<1>4. ASSUME ManagerStep, UNCHANGED <<kind, chain, result>> PROVE Answered'
  BY <1>4, SpawnStep, ManagerCalm
<1>5. ASSUME UNCHANGED vars PROVE Answered'
  <2>1. Calm /\ UNCHANGED <<table, server>>
    BY <1>5 DEF vars, connVars, mgrVars, callVars, Calm
  <2> QED
    BY <1>0, <2>1, CalmKeeps
<1> QED
  BY <1>1, <1>2, <1>3, <1>4, <1>5 DEF Next, LoopStep

(* Whoever is given a server is given one that has answered initialize,    *)
(* with any number of calls, starts, restarts and questions of the servers *)
(* (lsp-manager.ts, getServerInner; lsp-connection.ts, onData).            *)
THEOREM ServersInitialized == Spec => []ServerIsInitialized
<1>1. Init => Answered
  BY DEF Init, ConnInit, MgrInit, Answered
<1>2. Answered => ServerIsInitialized
  BY DEF Answered, Owing, ServerIsInitialized
<1>3. IInv /\ OwnDocument /\ Empty => IInv
  OBVIOUS
<1> QED
  BY <1>1, <1>2, <1>3, AnsweredStep, Invariant, PTL DEF Spec
=============================================================================
