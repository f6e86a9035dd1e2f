------------------------------- MODULE GroupKeys -------------------------------
(***************************************************************************)
(* Group keys by epoch (core/group-keys.mjs): every pod has a manager that *)
(* keeps the keys of some epochs, makes a new epoch when a member is added *)
(* or removed, and hands its current key to the members in envelopes.      *)
(* Making a key, wrapping and unwrapping are awaited, so that the calls of *)
(* one pod overlap.  A key is named by the pod that made it and its number. *)
(***************************************************************************)
EXTENDS Naturals, FiniteSets, FiniteSetsExt, Functions

CONSTANTS Pods,
  Founder,           \* the pod that calls initGroup()
  Founders,          \* with these members
  MaxEpochHistory,
  MaxKeys            \* bound: keys made altogether

ASSUME GroupKeysAssumption == Founder \in Founders /\ Founders \subseteq Pods /\ MaxEpochHistory \in Nat \ {0}

VARIABLES
  epochs,       \* pod -> (epoch -> [key, members])
  current,      \* pod -> current epoch + 1; 0 before the first
  made,         \* number of keys made so far
  rotating,     \* calls of rotate() that await their key: [pod, epoch, key, members]
  wire          \* distributions on their way: [epoch, key, members]

vars == <<epochs, current, made, rotating, wire>>

EmptyMap == [e \in {} |-> 0]
State(k, ms) == [key |-> k, members |-> ms]

Init ==
  /\ epochs = [p \in Pods |-> IF p = Founder THEN [e \in {1} |-> State(<<p, 1>>, Founders)] ELSE EmptyMap]
  /\ current = [p \in Pods |-> IF p = Founder THEN 1 ELSE 0]
  /\ made = 1
  /\ rotating = {} /\ wire = {}

Known(p) == DOMAIN epochs[p]
Active(p) == current[p] \in Known(p)
Cur(p) == epochs[p][current[p]]

(* #pruneOldEpochs(): the newest MaxEpochHistory epochs stay. *)
Pruned(m) == Restrict(m, {e \in DOMAIN m : Cardinality({f \in DOMAIN m : f > e}) < MaxEpochHistory})

Stored(p, e, s) == Pruned([f \in Known(p) \cup {e} |-> IF f = e THEN s ELSE epochs[p][f]])

-----------------------------------------------------------------------------
(* rotate() up to the await of its key: members and epoch are fixed now. *)
StartRotate(p, ms) ==
  /\ made < MaxKeys
  /\ made' = made + 1
  /\ rotating' = rotating \cup
       {[pod |-> p, epoch |-> current[p] + 1, key |-> <<p, made + 1>>, members |-> ms]}
  /\ UNCHANGED <<epochs, current, wire>>

AddMember(p, q) == Active(p) /\ q \notin Cur(p).members /\ StartRotate(p, Cur(p).members \cup {q})

RemoveMember(p, q) ==
  /\ Active(p) /\ q \in Cur(p).members
  /\ Cur(p).members # {q}
  /\ StartRotate(p, Cur(p).members \ {q})

(* The key is there: the epoch becomes the current one, whatever has become *)
(* current since.                                                           *)
EndRotate(r) ==
  /\ r \in rotating /\ rotating' = rotating \ {r}
  /\ epochs' = [epochs EXCEPT ![r.pod] = Stored(r.pod, r.epoch, State(r.key, r.members))]
  /\ current' = [current EXCEPT ![r.pod] = r.epoch]
  /\ UNCHANGED <<made, wire>>

(* broadcastDistribute(), asked for or not: an envelope for every member    *)
(* whose public key is known, made from the state read before the awaits of *)
(* the wrapping.  The public keys of all pods are registered.               *)
BroadcastDistribute(p) ==
  /\ Active(p)
  /\ wire' = wire \cup {[epoch |-> current[p], key |-> Cur(p).key, members |-> Cur(p).members]}
  /\ wire' # wire
  /\ UNCHANGED <<epochs, current, made, rotating>>

UnwrapsAny(p, m) == TRUE

Unwraps(p, m) == p \in m.members
(* The GROUP_KEY_DISTRIBUTE handler and acceptEpoch(): the first key of an  *)
(* epoch stays, an older epoch does not become current.                     *)
Accept(p, e) == IF e > current[p] THEN e ELSE current[p]

AcceptEpoch(p, m) ==
  /\ m \in wire /\ Unwraps(p, m) /\ m.epoch \notin Known(p)
  /\ epochs' = [epochs EXCEPT ![p] = Stored(p, m.epoch, State(m.key, m.members))]
  /\ current' = [current EXCEPT ![p] = Accept(p, m.epoch)]
  /\ UNCHANGED <<made, rotating, wire>>

Next ==
  \/ \E p, q \in Pods : AddMember(p, q) \/ RemoveMember(p, q)
  \/ \E r \in rotating : EndRotate(r)
  \/ \E p \in Pods : BroadcastDistribute(p) \/ \E m \in wire : AcceptEpoch(p, m)

Spec == Init /\ [][Next]_vars

-----------------------------------------------------------------------------
MembersOf(k) ==
  UNION {{r.members : r \in {x \in rotating : x.key = k}},
         {m.members : m \in {x \in wire : x.key = k}},
         UNION {{epochs[p][e].members : e \in {f \in Known(p) : epochs[p][f].key = k}} : p \in Pods}}

(* A key reaches nobody but its maker and the members its maker gave it to, *)
(* and everyone who has it agrees on who these are: after a removal the     *)
(* removed pod never comes to hold the keys made without it, in whatever    *)
(* order epochs of several makers are distributed, accepted and pruned.     *)
KeysStayWithMembers ==
  \A p \in Pods : \A e \in Known(p) :
    LET s == epochs[p][e] IN
      /\ p = s.key[1] \/ p \in s.members
      /\ Cardinality(MembersOf(s.key)) = 1
==============================================================================
