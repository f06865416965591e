--------------------------- MODULE DiagnosticsMode ---------------------------
(***************************************************************************)
(* Who checks a file after an edit: SmartRead over the bus, or the         *)
(* language servers of SmartEdit (lsp/smartread-diagnostics-client.ts).    *)
(* The first checks of a session share one probe of 250 ms; its outcome    *)
(* holds for the session.  extension/final-lanes.ts runs the compiler when *)
(* the check did not confirm anything.  reset() has no caller in src/.     *)
(***************************************************************************)
EXTENDS Integers, FiniteSets

CONSTANT Checks   \* files checked, in any order and overlapping

VARIABLES
  mode,    \* "none" until the probe has ended
  probe,   \* probePromise: "none", "sent"; the answer may come too late
  probes,  \* ghost: probes sent
  check,   \* per check: "new", "probing", "decided", "remote", "local", "done"
  chosen,  \* per check, the mode it goes by
  status,  \* per check, DiagnosticResult.status
  compiled \* checks for which the compiler ran

dvars == <<mode, probe, probes, check, chosen, status, compiled>>

Modes == {"remote", "standalone"}

ModeInit ==
  /\ mode = "none" /\ probe = "none" /\ probes = 0
  /\ check = [c \in Checks |-> "new"]
  /\ chosen = [c \in Checks |-> "none"]
  /\ status = [c \in Checks |-> "none"]
  /\ compiled = {}

BugResolves(c) ==
  /\ probe' = "sent" /\ probes' = IF probe = "none" THEN probes + 1 ELSE probes
  /\ check' = [check EXCEPT ![c] = "probing"]
  /\ UNCHANGED chosen

(* resolveMode: the mode if known, else the probe already under way, else  *)
(* a new one.                                                              *)
Resolves(c) ==
  IF mode # "none"
  THEN /\ chosen' = [chosen EXCEPT ![c] = mode]
       /\ check' = [check EXCEPT ![c] = "decided"]
       /\ UNCHANGED <<probe, probes>>
  ELSE /\ probe' = "sent" /\ probes' = IF probe = "none" THEN probes + 1 ELSE probes
       /\ check' = [check EXCEPT ![c] = "probing"]
       /\ UNCHANGED chosen

BeginCheck(c) ==
  /\ check[c] = "new" /\ Resolves(c)
  /\ UNCHANGED <<mode, status, compiled>>

(* doProbe: the capability in time, or anything else.  All that wait on    *)
(* the promise get the same mode.                                          *)
ProbeEnds ==
  /\ probe = "sent"
  /\ \E m \in Modes :
       /\ mode' = m
       /\ chosen' = [c \in Checks |-> IF check[c] = "probing" THEN m ELSE chosen[c]]
  /\ check' = [c \in Checks |-> IF check[c] = "probing" THEN "decided" ELSE check[c]]
  /\ probe' = "none"
  /\ UNCHANGED <<probes, status, compiled>>

(* The reply of SmartRead, as a status; no reply in time is a failure, and *)
(* never a reason to ask the own servers.                                  *)
RemoteStatus(reply) ==
  CASE reply \in {"confirmed", "empty"} -> "confirmed"
    [] reply = "unavailable"            -> "unavailable"
    [] reply = "degraded"               -> "unconfirmed"
    [] OTHER                            -> "failed"

AskRemote(c) ==
  /\ check[c] = "decided" /\ chosen[c] = "remote"
  /\ \E reply \in {"confirmed", "empty", "unavailable", "degraded", "refused", "timeout"} :
       status' = [status EXCEPT ![c] = RemoteStatus(reply)]
  /\ check' = [check EXCEPT ![c] = "remote"]
  /\ UNCHANGED <<mode, probe, probes, chosen, compiled>>

AskLocal(c) ==
  /\ check[c] = "decided" /\ chosen[c] = "standalone"
  /\ \E s \in {"confirmed", "unconfirmed", "unavailable"} : status' = [status EXCEPT ![c] = s]
  /\ check' = [check EXCEPT ![c] = "local"]
  /\ UNCHANGED <<mode, probe, probes, chosen, compiled>>

(* runSingleFileFinalLanes *)
Lane(c) ==
  /\ check[c] \in {"remote", "local"}
  /\ compiled' = IF status[c] = "confirmed" THEN compiled ELSE compiled \cup {c}
  /\ check' = [check EXCEPT ![c] = "done"]
  /\ UNCHANGED <<mode, probe, probes, chosen, status>>

ModeNext ==
  ProbeEnds \/ \E c \in Checks : BeginCheck(c) \/ AskRemote(c) \/ AskLocal(c) \/ Lane(c)

ModeSpec == ModeInit /\ [][ModeNext]_dvars

-----------------------------------------------------------------------------

(* One session asks one party: whatever overlaps with the probe, however   *)
(* late its answer, all checks of the session go by the same mode, and the *)
(* bus was probed once at most.                                            *)
OneMode ==
  /\ \A c, d \in Checks : {chosen[c], chosen[d]} # Modes
  /\ probes <= 1

=============================================================================
