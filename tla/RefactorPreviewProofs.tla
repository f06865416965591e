----------------------- MODULE RefactorPreviewProofs -----------------------
(***************************************************************************)
(* However many requests apply previews at once, whatever files these have *)
(* in common, and whatever dies or fails: a refactoring overwrites only    *)
(* the text it was planned from.                                           *)
(***************************************************************************)
EXTENDS RefactorPreview, TLAPS

Texts == [Files -> Int]
Plans == [files : SUBSET Files, base : Texts, new : Texts]
Formed(r) == r = [stage |-> r.stage, id |-> r.id, done |-> r.done, tx |-> r.tx]
Journal(j) ==
  j.pre \in Texts /\ j = [id |-> j.id, of |-> j.of, pre |-> j.pre, state |-> j.state, dead |-> j.dead]

PreviewTypes ==
  /\ content \in Texts /\ numbers \in Int
  /\ previews \in Seq(Plans)
  /\ cache \subseteq 1..Len(previews)
  /\ applying = [a \in Appliers |-> applying[a]]
  /\ \A a \in Appliers : Formed(applying[a])
  /\ \A j \in journals : Journal(j)

(* From its check of the files on, those that a request has not written    *)
(* are as it found them, since whoever else would change one waits for the *)
(* same locks.                                                             *)
Pristine(a) ==
  \A f \in Preview(a).files \ applying[a].done : content[f] = Preview(a).base[f]

RequestInv(a) ==
  /\ applying[a].stage # "idle" => applying[a].id \in 1..Len(previews)
  /\ applying[a].stage \in {"idle", "taken", "recovered", "begun", "verified"} => applying[a].done = {}
  /\ applying[a].done \subseteq Preview(a).files
  /\ applying[a].stage \in {"verified", "writing"} => Pristine(a)

(* The locks of two requests are on different files. *)
Apart(a, b) == HasLocks(a) /\ HasLocks(b) => Preview(a).files \cap Preview(b).files = {}

PreviewInv ==
  /\ PreviewTypes
  /\ \A a \in Appliers : RequestInv(a)
  /\ \A a, b \in Appliers : a # b => Apart(a, b)

LEMMA InitPreview == PreviewInit => PreviewInv
<1> SUFFICES ASSUME PreviewInit PROVE PreviewInv
  OBVIOUS
<1>1. PreviewTypes
  BY PreviewAssumption DEF PreviewInit, PreviewTypes, Texts, Files, Waiting, Formed
<1> QED
  BY <1>1 DEF PreviewInit, PreviewInv, RequestInv, Waiting, Apart, HasLocks

LEMMA Held ==
  ASSUME PreviewTypes, NEW i \in 1..Len(previews)
  PROVE  previews[i] \in Plans
<1>1. previews \in Seq(Plans)
  BY DEF PreviewTypes
<1> QED
  BY <1>1

(* A journal stays one when its owner dies or it is marked. *)
LEMMA StillAJournal ==
  ASSUME NEW j, Journal(j), NEW v
  PROVE  Journal([j EXCEPT !.dead = v]) /\ Journal([j EXCEPT !.state = v])
<1>1. PICK i, o, p, s, d : p \in Texts /\ j = [id |-> i, of |-> o, pre |-> p, state |-> s, dead |-> d]
  BY DEF Journal
<1>2. [j EXCEPT !.dead = v] = [id |-> i, of |-> o, pre |-> p, state |-> s, dead |-> v]
  BY <1>1
<1>3. [j EXCEPT !.state = v] = [id |-> i, of |-> o, pre |-> p, state |-> v, dead |-> d]
  BY <1>1
<1> QED
  BY <1>1, <1>2, <1>3 DEF Journal

(* A request that moves on takes its preview and its progress along. *)
OthersStay(a) ==
  /\ applying' = [b \in Appliers |-> applying'[b]]
  /\ \A b \in Appliers : b # a => applying'[b] = applying[b]
Kept(a, stage) ==
  /\ OthersStay(a)
  /\ applying'[a] = [stage |-> stage, id |-> applying[a].id, done |-> applying[a].done, tx |-> applying'[a].tx]

LEMMA Moved ==
  ASSUME PreviewTypes, NEW a \in Appliers, NEW stage, Moves(a, stage)
  PROVE  Kept(a, stage)
<1> DEFINE r == applying[a]
<1>1. applying' = [b \in Appliers |-> IF b = a THEN [r EXCEPT !.stage = stage] ELSE applying[b]]
  BY DEF Moves, PreviewTypes
<1>2. [r EXCEPT !.stage = stage] = [stage |-> stage, id |-> r.id, done |-> r.done, tx |-> r.tx]
  <2>1. r = [stage |-> r.stage, id |-> r.id, done |-> r.done, tx |-> r.tx]
    BY DEF PreviewTypes, Formed
  <2> HIDE DEF r
  <2> QED
    BY <2>1
<1> QED
  BY <1>1, <1>2 DEF Kept, OthersStay

LEMMA Ended ==
  ASSUME PreviewTypes, NEW a \in Appliers, Ends(a)
  PROVE  OthersStay(a) /\ applying'[a] = [stage |-> "idle", id |-> 0, done |-> {}, tx |-> 0]
BY DEF Ends, Waiting, PreviewTypes, OthersStay

(* What a request may change: files it has the locks of.                   *)
ChangesItsOwn(a) ==
  \A f \in Files : content'[f] # content[f] => HasLocks(a) /\ f \in Preview(a).files

(* It has the locks it had, or takes free ones. *)
TakesFree(a) ==
  HasLocks(a)' => \/ HasLocks(a) /\ applying'[a].id = applying[a].id
                  \/ \A b \in Appliers : b # a /\ HasLocks(b) => Preview(a)'.files \cap Preview(b).files = {}

(* The other requests do not notice: what they rely on changes under locks *)
(* they do not have.                                                       *)
LEMMA Unnoticed ==
  ASSUME NEW a \in Appliers, NEW b \in Appliers, b # a, RequestInv(b), Apart(a, b), PreviewTypes,
         applying'[b] = applying[b], previews' = previews, ChangesItsOwn(a)
  PROVE  RequestInv(b)'
<1>1. Preview(b)' = Preview(b)
  BY DEF Preview
<1>2. ASSUME applying[b].stage \in {"verified", "writing"} PROVE Pristine(b)'
  <2>1. HasLocks(b) /\ Pristine(b) /\ Preview(b) \in Plans
    BY <1>2, Held DEF HasLocks, RequestInv, Preview
  <2>2. Preview(b).files \subseteq Files
    BY <2>1 DEF Plans
  <2>3. \A f \in Preview(b).files : content'[f] = content[f]
    BY <2>1, <2>2 DEF ChangesItsOwn, Apart
  <2> QED
    BY <1>1, <2>1, <2>3 DEF Pristine
<1> QED
  BY <1>1, <1>2 DEF RequestInv

(* One of the requests takes a step: what remains to be seen of it.        *)
LEMMA OneMoves ==
  ASSUME NEW a \in Appliers, PreviewInv, UNCHANGED <<previews, numbers>>,
         content' \in Texts, cache' \subseteq cache, \A j \in journals' : Journal(j),
         OthersStay(a), Formed(applying'[a]), RequestInv(a)', ChangesItsOwn(a), TakesFree(a)
  PROVE  PreviewInv'
<1>1. PreviewTypes'
  BY DEF PreviewInv, PreviewTypes, OthersStay, Formed
<1>2. ASSUME NEW b \in Appliers PROVE RequestInv(b)'
  BY Unnoticed DEF PreviewInv, OthersStay
<1>3. ASSUME NEW b \in Appliers, b # a PROVE Apart(a, b)' /\ Apart(b, a)'
  <2>1. applying'[b] = applying[b] /\ Preview(b)' = Preview(b) /\ (HasLocks(b)' <=> HasLocks(b))
    BY <1>3 DEF OthersStay, Preview, HasLocks
  <2>2. applying'[a].id = applying[a].id => Preview(a)' = Preview(a)
    BY DEF Preview
  <2>3. Apart(a, b)
    BY <1>3 DEF PreviewInv
  <2>4. HasLocks(a)' /\ HasLocks(b) => Preview(a)'.files \cap Preview(b).files = {}
    BY <1>3, <2>2, <2>3 DEF Apart, TakesFree
  <2> QED
    BY <2>1, <2>4 DEF Apart
<1>4. ASSUME NEW b \in Appliers, NEW c \in Appliers, b # a, c # a, b # c PROVE Apart(b, c)'
  <2>1. Apart(b, c) /\ applying'[b] = applying[b] /\ applying'[c] = applying[c]
    BY <1>4 DEF PreviewInv, OthersStay
  <2> QED
    BY <2>1 DEF Apart, HasLocks, Preview
<1> QED
  BY <1>1, <1>2, <1>3, <1>4 DEF PreviewInv

(* A step that leaves the files alone and the request where it has no locks*)
(* or has had them before.                                                 *)
LEMMA Onward ==
  ASSUME NEW a \in Appliers, PreviewInv, UNCHANGED <<content, previews, numbers>>,
         cache' \subseteq cache, \A j \in journals' : Journal(j),
         NEW stage, Kept(a, stage), stage # "idle", applying[a].stage # "idle",
         stage \in {"taken", "recovered", "begun", "verified"} => applying[a].done = {},
         stage \in {"verified", "writing"} => Pristine(a),
         TakesFree(a)
  PROVE  PreviewInv'
<1>1. RequestInv(a) /\ content \in Texts
  BY DEF PreviewInv, PreviewTypes
<1>2. Preview(a)' = Preview(a) /\ applying'[a].stage = stage /\ applying'[a].done = applying[a].done
      /\ applying'[a].id = applying[a].id
  BY DEF Preview, Kept
<1>3. RequestInv(a)'
  BY <1>1, <1>2 DEF RequestInv, Pristine
<1>4. Formed(applying'[a]) /\ OthersStay(a)
  BY DEF Kept, Formed
<1>5. ChangesItsOwn(a) /\ content' \in Texts
  BY <1>1 DEF ChangesItsOwn
<1> QED
  BY <1>3, <1>4, <1>5, OneMoves

(* A request that ends has nothing and knows nothing.                      *)
LEMMA Over ==
  ASSUME NEW a \in Appliers, PreviewInv, UNCHANGED <<previews, numbers>>, content' \in Texts,
         cache' \subseteq cache, \A j \in journals' : Journal(j), Ends(a), ChangesItsOwn(a)
  PROVE  PreviewInv'
<1>1. OthersStay(a) /\ applying'[a] = [stage |-> "idle", id |-> 0, done |-> {}, tx |-> 0]
  BY Ended DEF PreviewInv
<1>2. RequestInv(a)' /\ Formed(applying'[a]) /\ ~HasLocks(a)'
  BY <1>1 DEF RequestInv, Formed, HasLocks
<1> QED
  BY <1>1, <1>2, OneMoves DEF TakesFree

LEMMA Quiet ==
  ASSUME PreviewInv, NEW a \in Appliers,
         Take(a) \/ RecoveryRan(a) \/ Begin(a) \/ Verify(a) \/ Release(a) \/ MintApplied(a)
  PROVE  PreviewInv'
<1>0. RequestInv(a) /\ PreviewTypes /\ content \in Texts /\ \A j \in journals : Journal(j)
  BY DEF PreviewInv, PreviewTypes
<1>1. CASE Take(a)
  <2>0. UNCHANGED <<content, previews, cache, journals, numbers>>
    BY <1>1 DEF Take
  <2>1. PICK id \in cache : applying' = [applying EXCEPT ![a] = [Waiting EXCEPT !.stage = "taken", !.id = id]]
    BY <1>1 DEF Take
  <2>2. OthersStay(a) /\ applying'[a] = [stage |-> "taken", id |-> id, done |-> {}, tx |-> 0]
    BY <1>0, <2>1 DEF PreviewTypes, Waiting, OthersStay
  <2>3. RequestInv(a)' /\ Formed(applying'[a]) /\ ~HasLocks(a)'
    BY <1>0, <2>0, <2>2 DEF PreviewTypes, RequestInv, HasLocks, Formed
  <2> QED
    BY <1>0, <2>0, <2>2, <2>3, OneMoves DEF TakesFree, ChangesItsOwn
<1>2. CASE RecoveryRan(a)
  <2>1. Kept(a, "recovered") /\ ~HasLocks(a)' /\ applying[a].done = {} /\ applying[a].stage = "taken"
    BY <1>0, <1>2, Moved DEF RecoveryRan, At, Kept, HasLocks, RequestInv
  <2>2. UNCHANGED <<content, previews, cache, journals, numbers>>
    BY <1>2 DEF RecoveryRan
  <2> QED
    BY <1>0, <2>1, <2>2, Onward DEF TakesFree
<1>3. CASE Begin(a)
  <2>1. Kept(a, "begun") /\ applying[a].done = {} /\ applying[a].stage = "recovered"
    BY <1>0, <1>3, Moved DEF Begin, At, RequestInv
  <2>2. UNCHANGED <<content, previews, cache, journals, numbers>> /\ Preview(a).files \cap Locked = {}
    BY <1>3 DEF Begin
  <2>3. TakesFree(a)
    <3>1. Preview(a)' = Preview(a)
      BY <2>1, <2>2 DEF Preview, Kept
    <3>2. \A b \in Appliers : HasLocks(b) => Preview(b).files \subseteq Locked
      BY DEF Locked
    <3> QED
      BY <2>2, <3>1, <3>2 DEF TakesFree
  <2> QED
    BY <1>0, <2>1, <2>2, <2>3, Onward
<1>4. CASE Verify(a)
  <2>1. UNCHANGED <<content, previews, cache, journals, numbers>> /\ applying[a].stage = "begun"
    BY <1>4 DEF Verify, At
  <2>2. CASE Fits(a)
    <3>1. Kept(a, "verified") /\ applying[a].done = {} /\ HasLocks(a)
      BY <1>0, <1>4, <2>1, <2>2, Moved DEF Verify, HasLocks, RequestInv
    <3>2. Pristine(a)
      BY <2>2 DEF Fits, Pristine
    <3>3. TakesFree(a)
      BY <3>1 DEF TakesFree, Kept
    <3> QED
      BY <1>0, <2>1, <3>1, <3>2, <3>3, Onward
  <2>3. CASE ~Fits(a)
    <3>1. Ends(a)
      BY <1>4, <2>3 DEF Verify
    <3> QED
      BY <1>0, <2>1, <3>1, Over DEF ChangesItsOwn
  <2> QED
    BY <2>2, <2>3
<1>5. CASE Release(a)
  <2>1. Kept(a, "committed") /\ ~HasLocks(a)' /\ applying[a].stage = "marked"
    BY <1>0, <1>5, Moved DEF Release, At, Kept, HasLocks
  <2>2. UNCHANGED <<content, previews, cache, journals, numbers>>
    BY <1>5 DEF Release
  <2> QED
    BY <1>0, <2>1, <2>2, Onward DEF TakesFree
<1>6. CASE MintApplied(a)
  <2>1. Ends(a) /\ UNCHANGED <<content, previews, cache, journals, numbers>>
    BY <1>6 DEF MintApplied
  <2> QED
    BY <1>0, <2>1, Over DEF ChangesItsOwn
<1> QED
  BY <1>1, <1>2, <1>3, <1>4, <1>5, <1>6

LEMMA Applied ==
  ASSUME PreviewInv, NEW a \in Appliers,
         Prepare(a) \/ WriteNext(a) \/ FailWrite(a) \/ Mark(a) \/ Forget(a)
  PROVE  PreviewInv'
<1>0. RequestInv(a) /\ PreviewTypes /\ Formed(applying[a]) /\ content \in Texts /\ \A j \in journals : Journal(j)
  BY DEF PreviewInv, PreviewTypes
<1>1. CASE Prepare(a)
  <2>1. PICK n : /\ journals' = journals \cup {[id |-> n, of |-> applying[a].id, pre |-> content,
                                               state |-> "prepared", dead |-> FALSE]}
                 /\ applying' = [applying EXCEPT ![a] = [stage |-> "writing", id |-> @.id, done |-> @.done, tx |-> n]]
    BY <1>1 DEF Prepare
  <2>2. \A j \in journals' : Journal(j)
    BY <1>0, <2>1 DEF Journal
  <2>3. Kept(a, "writing") /\ applying[a].stage = "verified"
    BY <1>0, <1>1, <2>1 DEF PreviewTypes, Kept, OthersStay, Prepare, At
  <2>4. Pristine(a) /\ HasLocks(a) /\ UNCHANGED <<content, previews, cache, numbers>>
    BY <1>0, <1>1, <2>3 DEF Prepare, RequestInv, HasLocks
  <2>5. TakesFree(a)
    BY <2>3, <2>4 DEF TakesFree, Kept
  <2> QED
    BY <2>2, <2>3, <2>4, <2>5, Onward
<1>2. CASE WriteNext(a)
  <2>0. /\ applying[a].id \in 1..Len(previews) /\ Pristine(a) /\ HasLocks(a) /\ applying[a].stage = "writing"
        /\ UNCHANGED <<previews, cache, journals, numbers>> /\ applying[a].done \subseteq Preview(a).files
    BY <1>0, <1>2 DEF WriteNext, At, RequestInv, HasLocks
  <2>1. PICK f \in Preview(a).files \ applying[a].done :
          /\ content' = [content EXCEPT ![f] = Preview(a).new[f]]
          /\ applying' = [applying EXCEPT ![a].done = @ \cup {f}]
    BY <1>2 DEF WriteNext
  <2>2. f \in Files /\ Preview(a).files \subseteq Files /\ Preview(a).new[f] \in Int
    <3>1. Preview(a) \in Plans
      BY <1>0, <2>0, Held DEF Preview
    <3> QED
      BY <2>1, <3>1 DEF Plans, Texts
  <2>3. content' \in Texts /\ \A g \in Files : g # f => content'[g] = content[g]
    BY <1>0, <2>1, <2>2 DEF Texts
  <2>4. OthersStay(a) /\ applying'[a] = [applying[a] EXCEPT !.done = @ \cup {f}]
    BY <1>0, <2>1 DEF PreviewTypes, OthersStay
  <2>5. applying'[a] = [stage |-> "writing", id |-> applying[a].id, done |-> applying[a].done \cup {f}, tx |-> applying[a].tx]
    <3>1. PICK r : r = applying[a]
      OBVIOUS
    <3>2. r = [stage |-> "writing", id |-> r.id, done |-> r.done, tx |-> r.tx]
      BY <1>0, <2>0, <3>1 DEF Formed
    <3>3. [r EXCEPT !.done = @ \cup {f}] = [stage |-> "writing", id |-> r.id, done |-> r.done \cup {f}, tx |-> r.tx]
      BY <3>2
    <3> QED
      BY <2>4, <3>1, <3>3
  <2>6. Preview(a)' = Preview(a)
    BY <2>0, <2>5 DEF Preview
  <2>7. Pristine(a)'
    <3>1. \A g \in Preview(a).files \ applying'[a].done : g # f /\ g \in Files /\ g \notin applying[a].done
      BY <2>2, <2>5
    <3> QED
      BY <2>0, <2>3, <2>6, <3>1 DEF Pristine
  <2>8. RequestInv(a)'
    BY <2>0, <2>1, <2>5, <2>6, <2>7 DEF RequestInv
  <2>9. Formed(applying'[a])
    BY <2>5 DEF Formed
  <2>10. ChangesItsOwn(a)
    BY <2>0, <2>1, <2>3 DEF ChangesItsOwn
  <2>11. TakesFree(a)
    <3>1. applying'[a].id = applying[a].id
      BY <2>5
    <3> QED
      BY <2>0, <3>1 DEF TakesFree
  <2> QED
    BY <1>0, <2>0, <2>3, <2>4, <2>8, <2>9, <2>10, <2>11, OneMoves
<1>3. CASE FailWrite(a)
  <2>0. /\ applying[a].id \in 1..Len(previews) /\ HasLocks(a) /\ Ends(a)
        /\ UNCHANGED <<previews, cache, journals, numbers>> /\ applying[a].done \subseteq Preview(a).files
    BY <1>0, <1>3 DEF FailWrite, At, RequestInv, HasLocks
  <2>1. PICK kept \in SUBSET applying[a].done : content' = RolledBack(a, kept)
    BY <1>3 DEF FailWrite
  <2>2. Preview(a).base \in Texts
    BY <1>0, <2>0, Held DEF Preview, Plans
  <2>3. content' \in Texts
    BY <1>0, <2>1, <2>2 DEF RolledBack, Texts
  <2>4. ChangesItsOwn(a)
    BY <2>0, <2>1 DEF RolledBack, ChangesItsOwn
  <2> QED
    BY <1>0, <2>0, <2>3, <2>4, Over
<1>4. CASE Mark(a)
  <2>1. \A j \in journals' : Journal(j)
    <3>1. \A j \in journals : Journal([j EXCEPT !.state = "committed"])
      BY <1>0, StillAJournal
    <3>2. ASSUME NEW k \in journals' PROVE k \in journals \/ \E j \in journals : k = [j EXCEPT !.state = "committed"]
      BY <1>4, <3>2 DEF Mark, Own
    <3> QED
      BY <1>0, <3>1, <3>2
  <2>2. Kept(a, "marked") /\ HasLocks(a) /\ applying[a].stage = "writing"
    BY <1>0, <1>4, Moved DEF Mark, At, HasLocks
  <2>3. UNCHANGED <<content, previews, cache, numbers>> /\ TakesFree(a)
    BY <1>4, <2>2 DEF Mark, TakesFree, Kept
  <2> QED
    BY <2>1, <2>2, <2>3, Onward
<1>5. CASE Forget(a)
  <2>1. Kept(a, "applied") /\ ~HasLocks(a)' /\ applying[a].stage = "committed"
    BY <1>0, <1>5, Moved DEF Forget, At, Kept, HasLocks
  <2>2. UNCHANGED <<content, previews, numbers>> /\ cache' \subseteq cache /\ \A j \in journals' : Journal(j)
    BY <1>0, <1>5 DEF Forget
  <2> QED
    BY <2>1, <2>2, Onward DEF TakesFree
<1> QED
  BY <1>1, <1>2, <1>3, <1>4, <1>5

(* Whoever has no request changes no file under lock.                      *)
LEMMA FromOutside ==
  ASSUME PreviewInv, PreviewTypes', UNCHANGED <<previews, applying>>,
         \A f \in Files : content'[f] # content[f] => f \notin Locked
  PROVE  PreviewInv'
<1>1. \A b \in Appliers : Preview(b)' = Preview(b) /\ (HasLocks(b)' <=> HasLocks(b))
  BY DEF Preview, HasLocks
<1>2. ASSUME NEW b \in Appliers, applying[b].stage \in {"verified", "writing"} PROVE Pristine(b)'
  <2>1. HasLocks(b) /\ Pristine(b) /\ applying[b].id \in 1..Len(previews) /\ PreviewTypes
    BY <1>2 DEF PreviewInv, RequestInv, HasLocks
  <2>2. Preview(b).files \subseteq Files
    BY <2>1, Held DEF Plans, Preview
  <2>3. Preview(b).files \subseteq Locked
    BY <2>1 DEF Locked
  <2> QED
    BY <1>1, <2>1, <2>2, <2>3 DEF Pristine
<1>3. \A b \in Appliers : RequestInv(b)'
  BY <1>1, <1>2 DEF PreviewInv, RequestInv
<1> QED
  BY <1>1, <1>3 DEF PreviewInv, Apart

LEMMA Surroundings ==
  ASSUME PreviewInv,
         ReadFiles \/ Stage \/ Expire \/ Recover \/ EditorRecovers \/ EditorWrites \/ Die
  PROVE  PreviewInv'
<1>0. /\ PreviewTypes /\ content \in Texts /\ numbers \in Int /\ previews \in Seq(Plans)
      /\ \A j \in journals : Journal(j)
  BY DEF PreviewInv, PreviewTypes
<1>1. CASE ReadFiles \/ Expire \/ EditorRecovers
  <2>1. UNCHANGED <<content, previews, applying, journals, numbers>> /\ cache' \subseteq cache
    BY <1>1 DEF ReadFiles, Expire, EditorRecovers
  <2>2. PreviewTypes'
    BY <1>0, <2>1 DEF PreviewTypes
  <2> QED
    BY <2>1, <2>2, FromOutside
<1>2. CASE Stage
  <2>1. PICK S \in Shapes : previews' = Append(previews, [files |-> S, base |-> content, new |-> [f \in Files |-> numbers + f]])
    BY <1>2 DEF Stage
  <2>2. PICK p : p = [files |-> S, base |-> content, new |-> [f \in Files |-> numbers + f]]
    OBVIOUS
  <2>3. p \in Plans
    BY <1>0, <2>2, PreviewAssumption DEF Plans, Texts, Files
  <2>4. previews' = Append(previews, p)
    BY <2>1, <2>2
  <2>5. /\ previews' \in Seq(Plans) /\ Len(previews') = Len(previews) + 1
        /\ \A i \in 1..Len(previews) : previews'[i] = previews[i]
    BY <1>0, <2>3, <2>4
  <2>6. cache' \subseteq 1..Len(previews')
    BY <1>0, <1>2, <2>5 DEF Stage, Stored, PreviewTypes
  <2>7. PreviewTypes'
    BY <1>0, <1>2, <2>5, <2>6, PreviewAssumption DEF Stage, PreviewTypes
  <2>8. ASSUME NEW b \in Appliers
        PROVE  /\ applying[b].stage # "idle" => Preview(b)' = Preview(b) /\ applying[b].id \in 1..Len(previews')
               /\ applying[b].stage = "idle" => applying[b].done = {}
               /\ applying'[b] = applying[b] /\ content' = content
    BY <1>0, <1>2, <2>5 DEF Stage, PreviewInv, RequestInv, Preview
  <2>9. ASSUME NEW b \in Appliers PROVE RequestInv(b)'
    <3>1. RequestInv(b)
      BY DEF PreviewInv
    <3> QED
      BY <2>8, <3>1 DEF RequestInv, Pristine
  <2>10. ASSUME NEW b \in Appliers, NEW c \in Appliers, b # c PROVE Apart(b, c)'
    <3>1. Apart(b, c)
      BY <2>10 DEF PreviewInv
    <3> QED
      BY <2>8, <3>1 DEF Apart, HasLocks
  <2> QED
    BY <2>7, <2>9, <2>10 DEF PreviewInv
<1>3. CASE Recover
  <2>1. PICK j \in journals :
          /\ FilesOf(j) \cap Locked = {} /\ journals' = journals \ {j}
          /\ content' = content \/ content' = PutBack(j)
    BY <1>3 DEF Recover, Unrecovered
  <2>2. content' \in Texts /\ \A f \in Files : content'[f] # content[f] => f \notin Locked
    BY <1>0, <2>1 DEF PutBack, Texts, Journal
  <2>3. UNCHANGED <<previews, applying, cache, numbers>>
    BY <1>3 DEF Recover
  <2>4. PreviewTypes'
    BY <1>0, <2>1, <2>2, <2>3 DEF PreviewTypes
  <2> QED
    BY <2>2, <2>3, <2>4, FromOutside
<1>4. CASE EditorWrites
  <2>1. PICK f \in Files \ Locked : content' = [content EXCEPT ![f] = numbers + 1]
    BY <1>4 DEF EditorWrites
  <2>2. content' \in Texts /\ numbers' \in Int /\ UNCHANGED <<previews, applying, cache, journals>>
    BY <1>0, <1>4, <2>1 DEF EditorWrites, Texts
  <2>3. \A g \in Files : content'[g] # content[g] => g \notin Locked
    BY <1>0, <2>1 DEF Texts
  <2>4. PreviewTypes'
    BY <1>0, <2>2 DEF PreviewTypes
  <2> QED
    BY <2>2, <2>3, <2>4, FromOutside
<1>5. CASE Die
  <2>1. \A j \in journals' : Journal(j)
    <3>1. \A j \in journals : Journal([j EXCEPT !.dead = TRUE])
      BY <1>0, StillAJournal
    <3>2. ASSUME NEW k \in journals' PROVE \E j \in journals : k = [j EXCEPT !.dead = TRUE]
      BY <1>5, <3>2 DEF Die
    <3> QED
      BY <3>1, <3>2
  <2>2. \A a \in Appliers : applying'[a] = [stage |-> "idle", id |-> 0, done |-> {}, tx |-> 0]
    BY <1>5 DEF Die, Waiting
  <2>3. PreviewTypes'
    BY <1>0, <1>5, <2>1 DEF Die, Waiting, PreviewTypes, Formed
  <2>4. \A a \in Appliers : RequestInv(a)' /\ ~HasLocks(a)'
    BY <2>2 DEF RequestInv, HasLocks
  <2> QED
    BY <2>3, <2>4 DEF PreviewInv, Apart
<1> QED
  BY <1>1, <1>2, <1>3, <1>4, <1>5

LEMMA PreviewStep ==
  ASSUME PreviewInv, [PreviewNext]_pvars
  PROVE  PreviewInv'
<1>1. CASE UNCHANGED pvars
  <2>1. UNCHANGED <<content, previews, applying, journals, numbers, cache>>
    BY <1>1 DEF pvars
  <2>2. PreviewTypes'
    BY <2>1 DEF PreviewInv, PreviewTypes
  <2> QED
    BY <2>1, <2>2, FromOutside
<1> QED
  BY <1>1, Quiet, Applied, Surroundings DEF PreviewNext, Request

(* Only WriteNext advances a request, and it writes over what the preview  *)
(* was planned from.                                                       *)
LEMMA StepReplacesItsBase ==
  ASSUME PreviewInv, [PreviewNext]_pvars
  PROVE  ReplacesItsBase
<1> SUFFICES ASSUME NEW b \in Appliers, NEW f \in applying'[b].done \ applying[b].done
             PROVE  content[f] = Preview(b).base[f]
  BY DEF ReplacesItsBase
<1>0. PreviewTypes /\ \A a \in Appliers : Formed(applying[a]) /\ RequestInv(a)
  BY DEF PreviewInv, PreviewTypes
<1>1. ASSUME NEW a \in Appliers, WriteNext(a) PROVE content[f] = Preview(b).base[f]
  <2>1. PICK g \in Preview(a).files \ applying[a].done : applying' = [applying EXCEPT ![a].done = @ \cup {g}]
    BY <1>1 DEF WriteNext
  <2>2. applying' = [x \in Appliers |-> IF x = a THEN [applying[a] EXCEPT !.done = @ \cup {g}] ELSE applying[x]]
    BY <1>0, <2>1 DEF PreviewTypes
  <2>3. [applying[a] EXCEPT !.done = @ \cup {g}].done = applying[a].done \cup {g}
    BY <1>0 DEF Formed
  <2>4. b = a /\ f = g
    BY <1>0, <2>2, <2>3
  <2>5. Pristine(a)
    BY <1>0, <1>1 DEF WriteNext, At, RequestInv
  <2> QED
    BY <2>1, <2>4, <2>5 DEF Pristine
<1>2. ASSUME UNCHANGED applying PROVE FALSE
  BY <1>2
<1>3. ASSUME NEW a \in Appliers, NEW stage, Moves(a, stage) PROVE FALSE
  <2>1. Kept(a, stage)
    BY <1>0, <1>3, Moved
  <2> QED
    BY <2>1 DEF Kept, OthersStay
<1>4. ASSUME NEW a \in Appliers, Prepare(a) PROVE FALSE
  <2>1. PICK n : applying' = [applying EXCEPT ![a] = [stage |-> "writing", id |-> @.id, done |-> @.done, tx |-> n]]
    BY <1>4 DEF Prepare
  <2> QED
    BY <1>0, <2>1 DEF PreviewTypes
<1>5. ASSUME NEW a \in Appliers, Ends(a) PROVE FALSE
  BY <1>0, <1>5, Ended DEF OthersStay
<1>6. ASSUME NEW a \in Appliers, Take(a) PROVE FALSE
  BY <1>0, <1>6 DEF Take, Waiting, PreviewTypes
<1>7. ASSUME NEW a \in Appliers, Request(a) PROVE WriteNext(a)
  BY <1>3, <1>4, <1>5, <1>6, <1>7 DEF Request, RecoveryRan, Begin, Verify, FailWrite, Mark, Release, Forget, MintApplied
<1>8. ASSUME Die PROVE FALSE
  BY <1>8 DEF Die, Waiting
<1>9. CASE UNCHANGED pvars
  BY <1>2, <1>9 DEF pvars
<1>10. CASE ReadFiles \/ Stage \/ Expire \/ Recover \/ EditorRecovers \/ EditorWrites
  BY <1>2, <1>10 DEF ReadFiles, Stage, Expire, Recover, EditorRecovers, EditorWrites
<1> QED
  BY <1>1, <1>7, <1>8, <1>9, <1>10 DEF PreviewNext

(* Verified under the locks, written under the locks: a refactoring        *)
(* replaces the text it was planned from and nothing else, whatever files  *)
(* two previews share and however a rollback or a recovery ended           *)
(* (refactor-preview.ts, verifyPreviewPreconditions).                      *)
THEOREM BaseReplaced == PreviewSpec => RefactorReplacesItsBase
<1>1. PreviewInit => PreviewInv
  BY InitPreview
<1>2. PreviewInv /\ [PreviewNext]_pvars => PreviewInv'
  BY PreviewStep
<1>3. PreviewInv /\ [PreviewNext]_pvars => [ReplacesItsBase]_pvars
  BY StepReplacesItsBase
<1> QED
  BY <1>1, <1>2, <1>3, PTL DEF PreviewSpec, RefactorReplacesItsBase
=============================================================================
