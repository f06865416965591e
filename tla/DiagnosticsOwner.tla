-------------------------- MODULE DiagnosticsOwner --------------------------
(***************************************************************************)
(* Two extensions of one process could both report diagnostics after a     *)
(* mutation.  SmartEdit claims the tool call in a shared map when it is    *)
(* made (mutation/mutation-ownership.ts, index.ts); SmartRead looks into   *)
(* the map when the result comes, in whichever order the two handlers run. *)
(***************************************************************************)
EXTENDS Integers, FiniteSets, FiniteSetsExt

CONSTANTS
  ToolCalls,    \* mutations, each with its own toolCallId
  ClaimTtl, MaxClaims,  \* CLAIM_TTL_MS in ticks, MAX_CLAIMS
  MaxClock      \* bound on time

ASSUME OwnerAssumption == ClaimTtl \in Nat /\ MaxClaims \in Nat /\ MaxClock \in Nat

VARIABLES
  claims,    \* the shared map: set of [id, at]
  stage,     \* of each call: "new", "running", "ended"
  failed,    \* calls whose result is an error
  handled,   \* per call, which extension has seen its result
  reported,  \* per call, which extension gave diagnostics for it
  claimedAt, \* ghost: when each call was claimed
  clock

ovars == <<claims, stage, failed, handled, reported, claimedAt, clock>>

OwnerInit ==
  /\ claims = {} /\ failed = {} /\ clock = 0
  /\ stage = [c \in ToolCalls |-> "new"]
  /\ handled = [c \in ToolCalls |-> {}]
  /\ reported = [c \in ToolCalls |-> {}]
  /\ claimedAt = [c \in ToolCalls |-> 0]

(* A mistake: the newest claim is the one to go. *)
BugPruned(S) ==
  LET live == {x \in S : clock - x.at <= ClaimTtl}
  IN CHOOSE T \in SUBSET live :
       /\ Cardinality(T) = Min({Cardinality(live), MaxClaims})
       /\ \A x \in live \ T, y \in T : x.at >= y.at

(* prune: expired claims go, then the oldest until the map is in bounds. *)
Pruned(S) ==
  LET live == {x \in S : clock - x.at <= ClaimTtl}
  IN CHOOSE T \in SUBSET live :
       /\ Cardinality(T) = Min({Cardinality(live), MaxClaims})
       /\ \A x \in live \ T, y \in T : x.at <= y.at

(* tool_call: claimDiagnosticsOwner prunes first, then adds its own. *)
Claim(c) ==
  /\ stage[c] = "new"
  /\ claims' = Pruned(claims) \cup {[id |-> c, at |-> clock]}
  /\ claimedAt' = [claimedAt EXCEPT ![c] = clock]
  /\ stage' = [stage EXCEPT ![c] = "running"]
  /\ UNCHANGED <<failed, handled, reported, clock>>

(* The mutation ends; one that went through has run its own diagnostics.   *)
EndCall(c) ==
  /\ stage[c] = "running"
  /\ stage' = [stage EXCEPT ![c] = "ended"]
  /\ \/ reported' = [reported EXCEPT ![c] = @ \cup {"SmartEdit"}] /\ UNCHANGED failed
     \/ failed' = failed \cup {c} /\ UNCHANGED reported
  /\ UNCHANGED <<claims, handled, claimedAt, clock>>

(* tool_result in SmartEdit: releaseClaimOnFailedMutation. *)
EditHandler(c) ==
  /\ stage[c] = "ended" /\ "SmartEdit" \notin handled[c]
  /\ handled' = [handled EXCEPT ![c] = @ \cup {"SmartEdit"}]
  /\ claims' = IF c \in failed THEN {x \in claims : x.id # c} ELSE claims
  /\ UNCHANGED <<stage, failed, reported, claimedAt, clock>>

(* tool_result in SmartRead: isDiagnosticsClaimed prunes, then looks. *)
ReadHandler(c) ==
  /\ stage[c] = "ended" /\ "SmartRead" \notin handled[c]
  /\ handled' = [handled EXCEPT ![c] = @ \cup {"SmartRead"}]
  /\ claims' = Pruned(claims)
  /\ reported' = IF \E x \in claims' : x.id = c THEN reported
                 ELSE [reported EXCEPT ![c] = @ \cup {"SmartRead"}]
  /\ UNCHANGED <<stage, failed, claimedAt, clock>>

Tick ==
  /\ clock < MaxClock /\ clock' = clock + 1
  /\ UNCHANGED <<claims, stage, failed, handled, reported, claimedAt>>

OwnerNext ==
  \/ Tick
  \/ \E c \in ToolCalls : Claim(c) \/ EndCall(c) \/ EditHandler(c) \/ ReadHandler(c)

OwnerSpec == OwnerInit /\ [][OwnerNext]_ovars

-----------------------------------------------------------------------------

(* mutation-ownership.ts:5: the model never sees two sets of diagnostics   *)
(* for one mutation, whatever order the handlers run in - except that a    *)
(* call which took longer than a claim lasts (mutation-ownership.ts:37-39),*)
(* or during which as many other calls were claimed as the map holds       *)
(* (41-51), may lose its claim and be reported twice.                      *)
NeverDouble ==
  \A c \in ToolCalls : Cardinality(reported[c]) = 2 =>
    \/ clock - claimedAt[c] > ClaimTtl
    \/ Cardinality({d \in ToolCalls \ {c} : stage[d] # "new" /\ claimedAt[d] >= claimedAt[c]}) >= MaxClaims

=============================================================================
