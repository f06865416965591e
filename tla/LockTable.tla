----------------------------- MODULE LockTable -----------------------------
(***************************************************************************)
(* What EditTransaction.begin and its release promise: a transaction takes *)
(* all the paths it names at one instant, when nobody has any of them, and *)
(* gives them back at one instant.  PatchTransaction is built on this.     *)
(***************************************************************************)
CONSTANTS Lockers,  \* whoever takes locks
          Keys      \* resolved paths

VARIABLE held       \* the paths each of them has

Init == held = [t \in Lockers |-> {}]

Take(t, ks) ==
    /\ held[t] = {}
    /\ \A u \in Lockers : held[u] \cap ks = {}
    /\ held' = [held EXCEPT ![t] = ks]

Give(t) == held' = [held EXCEPT ![t] = {}]

Next == \E t \in Lockers : Give(t) \/ \E ks \in SUBSET Keys : Take(t, ks)

Spec == Init /\ [][Next]_held
=============================================================================
