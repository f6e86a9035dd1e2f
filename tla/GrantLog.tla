-------------------------------- MODULE GrantLog --------------------------------
(***************************************************************************)
(* The replicated log of signed grants of a resource (apps/grant-log.mjs), *)
(* and the hand-over of the resource's key to the pods it admits           *)
(* (apps/key-distribution.mjs).  A pod replays all its records, in one     *)
(* order, after every change, and applies the difference to its registry.  *)
(* Signatures verify: what is on the wire was signed by its author.        *)
(***************************************************************************)
EXTENDS Naturals, FiniteSets, SequencesExt

CONSTANTS NPods,      \* the pods are 1..NPods
  Bootstrappers,      \* pods that call bootstrapAdmin()
  MaxAt,              \* bound: time stamps of the records
  MaxRecords          \* bound: records altogether

Holders == 1..NPods
FirstPod == 1

VARIABLES
  log,         \* pod -> its records: [who, scope, action, at, by]
  effective,   \* pod -> [admins, grants]: #effective
  registry,    \* pod -> the scopes its registry grants: <<pod, scope>>
  announcing,  \* pods whose announceToAdmins() awaits its key pair
  known,       \* pod -> pods whose encryption key it knows
  hasKey,      \* pods that hold the key of the resource
  wire         \* announcements and deliveries: [kind, from, to]

logs == <<log, effective, registry>>
vars == <<log, effective, registry, announcing, known, hasKey, wire>>

Nothing == [admins |-> {}, grants |-> {}]

Init ==
  /\ log = [p \in Holders |-> {}]
  /\ effective = [p \in Holders |-> Nothing]
  /\ registry = [p \in Holders |-> {}]
  /\ announcing = {} /\ known = [p \in Holders |-> {}]
  /\ hasKey = {FirstPod} /\ wire = {}

-----------------------------------------------------------------------------
(* #compareRecords(): by time, grants before revocations, then by signature *)
(* (for which author, subject and scope stand in).                          *)
Rank(r) == IF r.action = "grant" THEN 0 ELSE 1
Sig(r) == (r.by * (NPods + 1) + r.who) * 2 + (IF r.scope = "admin" THEN 0 ELSE 1)
Before(r, s) ==
  \/ r.at < s.at
  \/ r.at = s.at /\ Rank(r) < Rank(s)
  \/ r.at = s.at /\ Rank(r) = Rank(s) /\ Sig(r) < Sig(s)

(* #computeEffective(): a record counts if an admin of that moment signed   *)
(* it, or if it makes its author the first admin.                           *)
Apply(e, r) ==
  IF r.by \notin e.admins
     /\ ~ (r.scope = "admin" /\ e.admins = {} /\ r.action = "grant" /\ r.by = r.who)
  THEN e
  ELSE LET one == {<<r.who, r.scope>>} IN
       [grants |-> IF r.action = "grant" THEN e.grants \cup one ELSE e.grants \ one,
        admins |-> IF r.scope # "admin" THEN e.admins
                   ELSE IF r.action = "grant" THEN e.admins \cup {r.who} ELSE e.admins \ {r.who}]

InOrder(records) ==
  CHOOSE s \in [1..Cardinality(records) -> records] :
    \A i, j \in DOMAIN s : i < j => Before(s[i], s[j])

ComputeEffective(records) == FoldLeft(Apply, Nothing, InOrder(records))

Admitted(e) == {g[1] : g \in e.grants}

(* handleGrantChange() for the pods that were not admitted and are now: the *)
(* pod itself announces its encryption key, the others deliver if they can. *)
OnGrantChange(p, new) ==
  LET admitted == Admitted(new) \ Admitted(effective[p]) IN
  /\ announcing' = announcing \cup ({p} \cap admitted)
  /\ wire' = wire \cup {[kind |-> "deliver", from |-> p, to |-> q] :
                          q \in IF p \in hasKey THEN (admitted \ {p}) \cap known[p] ELSE {}}

ReplayAddsOnly(p, records) ==
  LET new == ComputeEffective(records) IN
  /\ log' = [log EXCEPT ![p] = records]
  /\ effective' = [effective EXCEPT ![p] = new]
  /\ registry' = [registry EXCEPT ![p] = @ \cup (new.grants \ effective[p].grants)]
  /\ OnGrantChange(p, new)
  /\ UNCHANGED <<known, hasKey>>

(* #replay(): the registry gets the difference. *)
Replay(p, records) ==
  LET new == ComputeEffective(records) IN
  /\ log' = [log EXCEPT ![p] = records]
  /\ effective' = [effective EXCEPT ![p] = new]
  /\ registry' = [registry EXCEPT ![p] = (@ \cup (new.grants \ effective[p].grants))
                                           \ (effective[p].grants \ new.grants)]
  /\ OnGrantChange(p, new)
  /\ UNCHANGED <<known, hasKey>>

-----------------------------------------------------------------------------
AllRecords == UNION {log[p] : p \in Holders}
Issued(p) == Cardinality({r \in AllRecords : r.by = p})

(* A record of p, at any time after its last one: clocks of pods differ. *)
Issue(p, who, scope, action) ==
  /\ Cardinality(AllRecords) < MaxRecords
  /\ \E at \in 1..MaxAt :
       /\ \A r \in AllRecords : r.by = p => r.at < at
       /\ Replay(p, log[p] \cup {[who |-> who, scope |-> scope, action |-> action, at |-> at, by |-> p]})

BootstrapAdmin(p) == p \in Bootstrappers /\ Issued(p) = 0 /\ Issue(p, p, "admin", "grant")

Grant(p, who, scope) == p \in effective[p].admins /\ Issue(p, who, scope, "grant")
Revoke(p, who, scope) == p \in effective[p].admins /\ Issue(p, who, scope, "revoke")

(* mergeRemote() of some records of p, all of them or those it had when it  *)
(* sent them: nothing is ever removed from the log.                         *)
MergeRemote(q, p) ==
  \E new \in SUBSET (log[p] \ log[q]) :
    new # {} /\ Replay(q, log[q] \cup new)

-----------------------------------------------------------------------------
AnnounceToAdmins(p) ==
  /\ p \in announcing /\ announcing' = announcing \ {p}
  /\ wire' = wire \cup {[kind |-> "announce", from |-> p, to |-> a] : a \in effective[p].admins \ {p}}
  /\ UNCHANGED <<logs, known, hasKey>>

HandleAnnounce(m) ==
  /\ m \in wire /\ m.kind = "announce"
  /\ known' = [known EXCEPT ![m.to] = @ \cup {m.from}]
  /\ wire' = (wire \ {m}) \cup
       (IF m.from \in Admitted(effective[m.to]) /\ m.to \in hasKey
        THEN {[kind |-> "deliver", from |-> m.to, to |-> m.from]} ELSE {})
  /\ UNCHANGED <<logs, announcing, hasKey>>

(* handleDeliver(): the sender must be admitted itself. *)
HandleDeliver(m) ==
  /\ m \in wire /\ m.kind = "deliver"
  /\ wire' = wire \ {m}
  /\ hasKey' = IF m.from \in Admitted(effective[m.to]) THEN hasKey \cup {m.to} ELSE hasKey
  /\ UNCHANGED <<logs, announcing, known>>

Steps == \/ \E p \in Holders : AnnounceToAdmins(p)
         \/ \E m \in wire : HandleAnnounce(m) \/ HandleDeliver(m)

Next ==
  \/ \E p \in Holders : BootstrapAdmin(p)
  \/ \E p, q \in Holders, s \in {"admin", "read"} : Grant(p, q, s) \/ Revoke(p, q, s)
  \/ \E p, q \in Holders : MergeRemote(q, p)
  \/ Steps

Fairness == WF_vars(Steps)

Spec == Init /\ [][Next]_vars /\ Fairness

-----------------------------------------------------------------------------
(* The registry grants exactly what the log does, after any sequence of     *)
(* replays, also when a late record rewrites the past (an admin was revoked *)
(* earlier than was known, or an earlier bootstrap displaces a later one);  *)
(* hence pods with the same records enforce the same.                       *)
RegistryFollowsLog ==
  \A p \in Holders : /\ registry[p] = ComputeEffective(log[p]).grants
                  /\ effective[p] = ComputeEffective(log[p])

Settled(q) ==
  /\ q \in Admitted(effective[q]) /\ q \in Admitted(effective[FirstPod])
  /\ FirstPod \in effective[q].admins /\ FirstPod \in effective[FirstPod].admins

(* Whoever is admitted gets the key, whether its announcement or its grant  *)
(* reaches the admin first.                                                 *)
AdmittedGetsKey == []<>(\A q \in Holders : Settled(q) => q \in hasKey)
==============================================================================
