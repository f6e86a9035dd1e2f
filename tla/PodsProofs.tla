------------------------------ MODULE PodsProofs ------------------------------
(***************************************************************************)
(* Proofs about pods and what they share, for every value of the bounds:   *)
(* the keys of a group, an escrow's credits, the reports about a bucket's  *)
(* chunks, the pods of a host and of a page, logs of grants and of audits, *)
(* restarts of a supervisor and migrations of a monitor.                   *)
(***************************************************************************)
EXTENDS MCPods, FiniteSetTheorems, SequenceTheorems, WellFoundedInduction, TLAPS

-----------------------------------------------------------------------------
(* Every state of an epoch that is held, being made or on its way. *)
Copies ==
       {State(r.key, r.members) : r \in rotating}
  \cup {State(m.key, m.members) : m \in wire}
  \cup UNION {{epochs[p][e] : e \in Known(p)} : p \in Pods}

KeysTypeOK ==
  /\ DOMAIN epochs = Pods
  /\ \A p \in Pods : Known(p) \subseteq Nat
  /\ current \in [Pods -> Nat]
  /\ made \in Nat
  /\ \A r \in rotating : r.pod \in Pods /\ r.epoch \in Nat
  /\ \A m \in wire : m.epoch \in Nat
  /\ Copies \subseteq [key : Pods \X (1..made), members : SUBSET Pods]

(* The makers number their keys, so that a key has one set of members; it   *)
(* is held by its maker, or by a member.                                    *)
KeysInv ==
  /\ KeysTypeOK
  /\ \A s, t \in Copies : s.key = t.key => s.members = t.members
  /\ \A r \in rotating : r.key[1] = r.pod
  /\ \A p \in Pods : \A e \in Known(p) : p = epochs[p][e].key[1] \/ p \in epochs[p][e].members

(* Pruning and storing leave nothing but what was there and what is stored. *)
LEMMA StoredParts ==
  ASSUME NEW p \in Pods, NEW e, NEW s
  PROVE  /\ DOMAIN Stored(p, e, s) \subseteq Known(p) \cup {e}
         /\ \A f \in DOMAIN Stored(p, e, s) : Stored(p, e, s)[f] = IF f = e THEN s ELSE epochs[p][f]
BY DEF Stored, Pruned, Restrict

LEMMA KeysInit == Init => KeysInv
<1> SUFFICES ASSUME Init PROVE KeysInv
  OBVIOUS
<1>1. /\ Known(Founder) = {1}
      /\ epochs[Founder][1] = State(<<Founder, 1>>, Founders)
      /\ \A p \in Pods : p # Founder => Known(p) = {}
  BY GroupKeysAssumption DEF Init, Known, EmptyMap
<1>2. Copies = {State(<<Founder, 1>>, Founders)}
  <2>1. Copies = UNION {{epochs[p][e] : e \in Known(p)} : p \in Pods}
    BY DEF Copies, Init
  <2> QED BY <2>1, <1>1, GroupKeysAssumption
<1>3. State(<<Founder, 1>>, Founders) \in [key : Pods \X (1..1), members : SUBSET Pods]
  BY GroupKeysAssumption DEF State
<1>4. KeysTypeOK
  BY <1>1, <1>2, <1>3, GroupKeysAssumption DEF Init, KeysTypeOK, Known
<1> QED BY <1>1, <1>2, <1>4 DEF Init, KeysInv, State

(* A step that makes no key and starts no rotation copies states only, and  *)
(* to nobody but a maker or a member.                                       *)
LEMMA KeysKept ==
  ASSUME KeysInv, KeysTypeOK', Copies' \subseteq Copies, rotating' \subseteq rotating,
         \A p \in Pods : \A e \in Known(p)' :
           p = epochs'[p][e].key[1] \/ p \in epochs'[p][e].members
  PROVE  KeysInv'
BY DEF KeysInv

(* addMember() and removeMember() make a key that nobody has. *)
LEMMA StartRotateKeys ==
  ASSUME KeysInv, NEW p \in Pods, NEW ms \in SUBSET Pods, StartRotate(p, ms)
  PROVE  KeysInv'
<1> DEFINE new == [pod |-> p, epoch |-> current[p] + 1, key |-> <<p, made + 1>>, members |-> ms]
<1>1. /\ made \in Nat /\ made' = made + 1 /\ rotating' = rotating \cup {new}
      /\ epochs' = epochs /\ current' = current /\ wire' = wire
  BY DEF StartRotate, KeysInv, KeysTypeOK
<1>2. Copies' = Copies \cup {State(<<p, made + 1>>, ms)}
  <2>1. State(new.key, new.members) = State(<<p, made + 1>>, ms)
    OBVIOUS
  <2>2. {State(r.key, r.members) : r \in rotating'}
          = {State(r.key, r.members) : r \in rotating} \cup {State(new.key, new.members)}
    BY <1>1
  <2> QED BY <1>1, <2>1, <2>2 DEF Copies, Known
<1>3. \A s \in Copies : s.key \in Pods \X (1..made)
  BY DEF KeysInv, KeysTypeOK
<1>4. Copies' \subseteq [key : Pods \X (1..made'), members : SUBSET Pods]
  BY <1>1, <1>2 DEF KeysInv, KeysTypeOK, State
<1>5. KeysTypeOK'
  BY <1>1, <1>4 DEF KeysInv, KeysTypeOK, Known
<1>6. \A s, t \in Copies' : s.key = t.key => s.members = t.members
  <2>1. \A s \in Copies : s.key # <<p, made + 1>>
    BY <1>1, <1>3
  <2> QED BY <1>2, <2>1 DEF KeysInv, State
<1> QED BY <1>1, <1>5, <1>6 DEF KeysInv, Known

(* Storing a state that is among the copies at its maker or at a member. *)
LEMMA StoreKeys ==
  ASSUME KeysInv, NEW p \in Pods, NEW e \in Nat, NEW s \in Copies,
         p = s.key[1] \/ p \in s.members,
         epochs' = [epochs EXCEPT ![p] = Stored(p, e, s)],
         current' \in [Pods -> Nat], made' = made,
         rotating' \subseteq rotating, wire' = wire
  PROVE  KeysInv'
<1>1. /\ DOMAIN epochs' = Pods
      /\ \A q \in Pods : epochs'[q] = IF q = p THEN Stored(p, e, s) ELSE epochs[q]
  BY DEF KeysInv, KeysTypeOK
<1>2. \A q \in Pods : \A f \in Known(q)' :
        \/ q = p /\ f = e /\ epochs'[q][f] = s
        \/ f \in Known(q) /\ epochs'[q][f] = epochs[q][f]
  BY <1>1, StoredParts DEF Known
<1>3. Copies' \subseteq Copies
  <2>1. ASSUME NEW q \in Pods, NEW f \in Known(q)' PROVE epochs'[q][f] \in Copies
    <3>1. CASE epochs'[q][f] = s
      BY <3>1
    <3>2. CASE f \in Known(q) /\ epochs'[q][f] = epochs[q][f]
      BY <3>2 DEF Copies
    <3> QED BY <1>2, <3>1, <3>2
  <2>2. \A x \in Copies' : \/ \E r \in rotating : x = State(r.key, r.members)
                           \/ \E m \in wire : x = State(m.key, m.members)
                           \/ \E q \in Pods : \E f \in Known(q)' : x = epochs'[q][f]
    BY DEF Copies
  <2> QED BY <2>1, <2>2 DEF Copies
<1>4. KeysTypeOK'
  BY <1>1, <1>2, <1>3 DEF KeysInv, KeysTypeOK
<1>5. \A q \in Pods : \A f \in Known(q)' :
        q = epochs'[q][f].key[1] \/ q \in epochs'[q][f].members
  BY <1>2 DEF KeysInv
<1> QED BY <1>3, <1>4, <1>5, KeysKept

LEMMA EndRotateKeys ==
  ASSUME KeysInv, NEW r \in rotating, EndRotate(r)
  PROVE  KeysInv'
<1>1. r.pod \in Pods /\ r.epoch \in Nat /\ r.key[1] = r.pod
  BY DEF KeysInv, KeysTypeOK
<1>2. State(r.key, r.members) \in Copies
  BY DEF Copies
<1>3. current' \in [Pods -> Nat]
  BY <1>1 DEF EndRotate, KeysInv, KeysTypeOK
<1> QED BY <1>1, <1>2, <1>3, StoreKeys DEF EndRotate, State

LEMMA BroadcastKeys ==
  ASSUME KeysInv, NEW p \in Pods, BroadcastDistribute(p)
  PROVE  KeysInv'
<1> DEFINE m == [epoch |-> current[p], key |-> Cur(p).key, members |-> Cur(p).members]
<1>1. /\ wire' = wire \cup {m}
      /\ epochs' = epochs /\ current' = current /\ made' = made /\ rotating' = rotating
      /\ current[p] \in Known(p)
  BY DEF BroadcastDistribute, Active
<1>2. Cur(p) \in Copies
  BY <1>1 DEF Cur, Copies
<1>3. State(m.key, m.members) = Cur(p)
  BY <1>2 DEF State, KeysInv, KeysTypeOK
<1>4. Copies' = Copies
  <2>1. {State(x.key, x.members) : x \in wire'}
          = {State(x.key, x.members) : x \in wire} \cup {State(m.key, m.members)}
    BY <1>1
  <2>2. Copies' = Copies \cup {State(m.key, m.members)}
    BY <1>1, <2>1 DEF Copies, Known
  <2> QED BY <2>2, <1>2, <1>3
<1>5. current[p] \in Nat
  BY DEF KeysInv, KeysTypeOK
<1> QED BY <1>1, <1>4, <1>5 DEF KeysInv, KeysTypeOK, Known

LEMMA AcceptKeys ==
  ASSUME KeysInv, NEW p \in Pods, NEW m \in wire, AcceptEpoch(p, m)
  PROVE  KeysInv'
<1>1. m.epoch \in Nat /\ p \in m.members
  BY DEF KeysInv, KeysTypeOK, AcceptEpoch, Unwraps
<1>2. State(m.key, m.members) \in Copies
  BY DEF Copies
<1>3. current' \in [Pods -> Nat]
  BY <1>1 DEF AcceptEpoch, KeysInv, KeysTypeOK, Accept
<1> QED BY <1>1, <1>2, <1>3, StoreKeys DEF AcceptEpoch, State

LEMMA KeysStep == KeysInv /\ [Next]_vars => KeysInv'
<1> SUFFICES ASSUME KeysInv, [Next]_vars PROVE KeysInv'
  OBVIOUS
<1>1. ASSUME NEW p \in Pods, NEW q \in Pods, AddMember(p, q) \/ RemoveMember(p, q)
      PROVE  KeysInv'
  <2>1. current[p] \in Known(p)
    BY <1>1 DEF AddMember, RemoveMember, Active
  <2>2. Cur(p) \in Copies
    BY <2>1 DEF Cur, Copies
  <2>3. Cur(p).members \in SUBSET Pods
    BY <2>2 DEF KeysInv, KeysTypeOK
  <2> QED BY <1>1, <2>3, StartRotateKeys DEF AddMember, RemoveMember
<1>2. CASE UNCHANGED vars
  BY <1>2 DEF vars, KeysInv, KeysTypeOK, Copies, Known
<1> QED BY <1>1, <1>2, EndRotateKeys, BroadcastKeys, AcceptKeys DEF Next

(* The states of one key agree, hence its copies name one set of members. *)
LEMMA KeysSafe == KeysInv => KeysStayWithMembers
<1> SUFFICES ASSUME KeysInv, NEW p \in Pods, NEW e \in Known(p)
             PROVE  /\ p = epochs[p][e].key[1] \/ p \in epochs[p][e].members
                    /\ Cardinality(MembersOf(epochs[p][e].key)) = 1
  BY DEF KeysStayWithMembers
<1> DEFINE s == epochs[p][e]
<1>1. s \in Copies
  BY DEF Copies
<1>2. MembersOf(s.key) = {s.members}
  <2>1. s.members \in MembersOf(s.key)
    BY DEF MembersOf
  <2>2. ASSUME NEW ms \in MembersOf(s.key) PROVE ms = s.members
    <3>1. \E t \in Copies : t.key = s.key /\ t.members = ms
      <4>1. CASE \E r \in rotating : r.key = s.key /\ r.members = ms
        <5>1. PICK r \in rotating : r.key = s.key /\ r.members = ms
          BY <4>1
        <5>2. State(r.key, r.members) \in Copies
          BY DEF Copies
        <5> QED BY <5>1, <5>2 DEF State
      <4>2. CASE \E m \in wire : m.key = s.key /\ m.members = ms
        <5>1. PICK m \in wire : m.key = s.key /\ m.members = ms
          BY <4>2
        <5>2. State(m.key, m.members) \in Copies
          BY DEF Copies
        <5> QED BY <5>1, <5>2 DEF State
      <4>3. CASE \E q \in Pods : \E f \in Known(q) : epochs[q][f].key = s.key /\ epochs[q][f].members = ms
        BY <4>3 DEF Copies
      <4> QED BY <4>1, <4>2, <4>3 DEF MembersOf
    <3> QED BY <1>1, <3>1 DEF KeysInv
  <2> QED BY <2>1, <2>2
<1>3. Cardinality({s.members}) = 1
  BY FS_Singleton
<1> QED BY <1>2, <1>3 DEF KeysInv

(* rotate(), acceptEpoch() and the broadcasts of any number of pods, in any *)
(* order: a key reaches its maker and the members it was made for, and      *)
(* everyone who holds it agrees on who these are.                           *)
THEOREM KeysStay == Spec => []KeysStayWithMembers
<1>1. Init => KeysInv
  BY KeysInit
<1>2. KeysInv /\ [Next]_vars => KeysInv'
  BY KeysStep
<1>3. KeysInv => KeysStayWithMembers
  BY KeysSafe
<1> QED BY <1>1, <1>2, <1>3, PTL DEF Spec

-----------------------------------------------------------------------------
(* A contract that holds its credits: charged, and not paid out.            *)
Held == {x \in Contracts : status[x] # "none" /\ x \notin paid}

Statuses == {"none", "debited", "funded", "disputed", "released", "refunded", "expired"}

EscrowTypes ==
  /\ status \in [Contracts -> Statuses]
  /\ balance \in [{Payer, Payee} -> Nat]
  /\ awaiting \subseteq Contracts \X Contract!Operations

(* What the statuses say of the payments.                                   *)
EscrowStatuses ==
  /\ \A x \in Contracts : Contract!Busy(x) => x \in paid
  /\ \A x \in Contracts :
       IF x \in paid THEN status[x] \notin {"none", "debited"} /\ (status[x] = "funded" => Contract!Busy(x))
       ELSE status[x] \in {"none", "debited", "funded", "disputed"}

(* Double entry.                                                            *)
EscrowSum ==
  /\ balance[Payer] + balance[Payee] + Amount * Cardinality(Held) >= Funds
  /\ raced = {} => balance[Payer] + balance[Payee] + Amount * Cardinality(Held) = Funds

EscrowInv == EscrowTypes /\ EscrowStatuses /\ EscrowSum

LEMMA HeldFinite == IsFiniteSet(Held) /\ Cardinality(Held) \in Nat
<1>1. IsFiniteSet(Held)
  BY FS_Subset, EscrowAssumption DEF Held
<1> QED BY <1>1, FS_CardinalityType

LEMMA Products ==
  ASSUME NEW m \in Nat
  PROVE  Amount * m \in Nat /\ Amount * (m + 1) = Amount * m + Amount
BY EscrowAssumption

LEMMA EscrowInit == Contract!Init => EscrowInv
<1> SUFFICES ASSUME Contract!Init PROVE EscrowInv
  OBVIOUS
<1>1. Held = {}
  BY DEF Contract!Init, Held
<1>2. Cardinality(Held) = 0
  BY <1>1, FS_EmptySet
<1>3. balance = [p \in {Payer, Payee} |-> IF p = Payer THEN Funds ELSE 0]
  BY DEF Contract!Init, Contract!Parties
<1>4. balance[Payer] = Funds /\ balance[Payee] = 0 /\ balance \in [{Payer, Payee} -> Nat]
  BY <1>3, EscrowAssumption
<1>5. /\ status = [x \in Contracts |-> "none"] /\ awaiting = {} /\ paid = {}
  BY DEF Contract!Init
<1>6. EscrowTypes
  BY <1>4, <1>5 DEF EscrowTypes, Statuses
<1>7. EscrowStatuses
  BY <1>5 DEF EscrowStatuses, Contract!Busy
<1>8. EscrowSum
  BY <1>2, <1>4, EscrowAssumption DEF EscrowSum
<1> QED BY <1>6, <1>7, <1>8 DEF EscrowInv

LEMMA ChargeHolds ==
  ASSUME EscrowInv, NEW x \in Contracts, Contract!Charge(x)
  PROVE  EscrowInv'
<1>1. /\ status[x] = "none" /\ status' = [status EXCEPT ![x] = "debited"]
      /\ balance[Payer] >= Amount /\ balance' = [balance EXCEPT ![Payer] = @ - Amount]
      /\ awaiting' = awaiting /\ paid' = paid /\ raced' = raced
  BY DEF Contract!Charge, Contract!history
<1>2. /\ balance[Payer] \in Nat /\ balance[Payee] \in Nat
      /\ balance' \in [{Payer, Payee} -> Nat]
      /\ balance'[Payer] = balance[Payer] - Amount /\ balance'[Payee] = balance[Payee]
  BY <1>1, EscrowAssumption DEF EscrowInv, EscrowTypes
<1>3. EscrowTypes'
  BY <1>1, <1>2 DEF EscrowInv, EscrowTypes, Statuses
<1>4. x \notin paid
  BY <1>1 DEF EscrowInv, EscrowStatuses
<1>5. EscrowStatuses'
  BY <1>1, <1>4 DEF EscrowInv, EscrowTypes, EscrowStatuses, Contract!Busy
<1>6. x \notin Held /\ Held' = Held \cup {x}
  BY <1>1, <1>4 DEF Held, EscrowInv, EscrowTypes
<1>7. Cardinality(Held') = Cardinality(Held) + 1
  BY <1>6, HeldFinite, FS_AddElement
<1>8. EscrowSum'
  BY <1>1, <1>2, <1>7, HeldFinite, Products, EscrowAssumption DEF EscrowInv, EscrowSum
<1> QED BY <1>3, <1>5, <1>8 DEF EscrowInv

(* Paying out: a contract that held its credits loses them, a balance gets  *)
(* them; a second payment of one contract adds to a balance only, and met   *)
(* the first.                                                               *)
LEMMA CreditHolds ==
  ASSUME EscrowInv, NEW x \in Contracts, NEW op \in Contract!Operations, Contract!Credit(x, op)
  PROVE  EscrowInv'
<1> DEFINE to == IF op = "release" THEN Payee ELSE Payer
<1>1. /\ status[x] = "funded" /\ status' = status
      /\ balance' = [balance EXCEPT ![to] = @ + Amount]
      /\ awaiting' = awaiting \cup {<<x, op>>}
      /\ paid' = paid \cup {x}
      /\ Contract!Busy(x) => raced' # {}
      /\ raced' = {} => raced = {}
  BY DEF Contract!Credit, Contract!Due
<1>2. /\ balance[Payer] \in Nat /\ balance[Payee] \in Nat
      /\ balance' \in [{Payer, Payee} -> Nat]
      /\ balance'[Payer] + balance'[Payee] = balance[Payer] + balance[Payee] + Amount
  BY <1>1, EscrowAssumption DEF EscrowInv, EscrowTypes
<1>3. EscrowTypes'
  BY <1>1, <1>2 DEF EscrowInv, EscrowTypes
<1>4. Contract!Busy(x)' /\ \A y \in Contracts : y # x => Contract!Busy(y)' = Contract!Busy(y)
  BY <1>1 DEF Contract!Busy
<1>5. EscrowStatuses'
  BY <1>1, <1>4 DEF EscrowInv, EscrowStatuses
<1>6. CASE x \in paid
  <2>1. Held' = Held /\ raced' # {}
    BY <1>1, <1>6 DEF Held, EscrowInv, EscrowStatuses
  <2>2. EscrowSum'
    BY <1>2, <2>1, HeldFinite, Products, EscrowAssumption DEF EscrowInv, EscrowSum
  <2> QED BY <1>3, <1>5, <2>2 DEF EscrowInv
<1>7. CASE x \notin paid
  <2>1. x \in Held /\ Held' = Held \ {x}
    BY <1>1, <1>7 DEF Held
  <2>2. Cardinality(Held') = Cardinality(Held) - 1 /\ Cardinality(Held') \in Nat
    BY <2>1, HeldFinite, FS_RemoveElement, FS_CardinalityType
  <2>3. Amount * Cardinality(Held) = Amount * Cardinality(Held') + Amount
    BY <2>2, HeldFinite, Products
  <2>4. EscrowSum'
    BY <1>1, <1>2, <2>2, <2>3, HeldFinite, Products, EscrowAssumption DEF EscrowInv, EscrowSum
  <2> QED BY <1>3, <1>5, <2>4 DEF EscrowInv
<1> QED BY <1>6, <1>7

(* A step that pays nothing and charges nobody.                             *)
LEMMA SumStays ==
  ASSUME EscrowSum, balance' = balance, Held' = Held, raced' = raced
  PROVE  EscrowSum'
BY DEF EscrowSum

LEMMA EscrowStep == EscrowInv /\ [Contract!Next]_escrow => EscrowInv'
<1> SUFFICES ASSUME EscrowInv, [Contract!Next]_escrow PROVE EscrowInv'
  OBVIOUS
<1> USE DEF Contract!history
<1>1. ASSUME NEW x \in Contracts, Contract!Create(x) \/ Contract!Dispute(x) PROVE EscrowInv'
  <2>1. /\ status[x] # "none"
        /\ \E s \in {"funded", "disputed"} :
             /\ status' = [status EXCEPT ![x] = s]
             /\ s = "funded" => status[x] = "debited"
        /\ balance' = balance /\ awaiting' = awaiting /\ paid' = paid /\ raced' = raced
    BY <1>1 DEF Contract!Create, Contract!Dispute
  <2>2. EscrowTypes'
    BY <2>1 DEF EscrowInv, EscrowTypes, Statuses
  <2>3. EscrowStatuses'
    BY <2>1 DEF EscrowInv, EscrowTypes, EscrowStatuses, Contract!Busy
  <2>4. Held' = Held
    BY <2>1 DEF Held, EscrowInv, EscrowTypes
  <2> QED BY <2>1, <2>2, <2>3, <2>4, SumStays DEF EscrowInv
<1>2. ASSUME NEW x \in Contracts, NEW op \in Contract!Operations, Contract!Settle(x, op)
      PROVE  EscrowInv'
  <2>1. /\ <<x, op>> \in awaiting /\ awaiting' = awaiting \ {<<x, op>>}
        /\ status' = [status EXCEPT ![x] = Contract!Outcome(op)]
        /\ balance' = balance /\ paid' = paid /\ raced' = raced
    BY <1>2 DEF Contract!Settle
  <2>2. Contract!Outcome(op) \in {"released", "refunded", "expired"}
    BY DEF Contract!Operations, Contract!Outcome
  <2>3. \A y \in Contracts : /\ Contract!Busy(y)' => Contract!Busy(y)
                             /\ y # x => Contract!Busy(y)' = Contract!Busy(y)
    BY <2>1 DEF Contract!Busy
  <2>4. x \in paid
    BY <2>1 DEF Contract!Busy, EscrowInv, EscrowStatuses
  <2>5. EscrowTypes'
    BY <2>1, <2>2 DEF EscrowInv, EscrowTypes, Statuses
  <2>6. EscrowStatuses'
    BY <2>1, <2>2, <2>3, <2>4 DEF EscrowInv, EscrowTypes, EscrowStatuses
  <2>7. Held' = Held
    BY <2>1, <2>4 DEF Held, EscrowInv, EscrowTypes
  <2> QED BY <2>1, <2>5, <2>6, <2>7, SumStays DEF EscrowInv
<1>3. ASSUME status' = status /\ balance' = balance /\ awaiting' = awaiting /\ paid' = paid /\ raced' = raced
      PROVE  EscrowInv'
  BY <1>3 DEF EscrowInv, EscrowTypes, EscrowStatuses, EscrowSum, Held, Contract!Busy
<1>4. ASSUME NEW x \in Contracts, Contract!Prove(x) \/ Contract!Expire(x) PROVE EscrowInv'
  BY <1>4, <1>3 DEF Contract!Prove, Contract!Expire
<1>5. ASSUME NEW x \in Contracts, NEW op \in Contract!Operations, Contract!CreditFails(x, op)
      PROVE  EscrowInv'
  BY <1>5, <1>3 DEF Contract!CreditFails, Contract!vars
<1>6. CASE UNCHANGED escrow
  BY <1>6, <1>3 DEF escrow
<1> QED BY <1>1, <1>2, <1>4, <1>5, <1>6, ChargeHolds, CreditHolds DEF Contract!Next

(* The cardinality that Escrow speaks of is the one of this module. *)
LEMMA SameCardinality ==
  ASSUME NEW S
  PROVE  Contract!Cardinality(S) = Cardinality(S)
BY DEF Contract!Cardinality, Cardinality

LEMMA EscrowSafe == EscrowInv => EscrowBalances
<1> SUFFICES ASSUME EscrowInv PROVE Contract!CreditsBalance
  BY DEF EscrowBalances
<1>1. Contract!Open = Held /\ Contract!Cardinality(Held) = Cardinality(Held)
  BY SameCardinality DEF Contract!Open, Held
<1>2. Contract!Total = balance[Payer] + balance[Payee]
  BY DEF Contract!Total
<1>3. \A x \in Contracts :
        IF x \in paid THEN status[x] = "funded" => Contract!Busy(x)
        ELSE status[x] \in {"none", "debited", "funded", "disputed"}
  BY DEF EscrowInv, EscrowStatuses
<1> QED BY <1>1, <1>2, <1>3 DEF Contract!CreditsBalance, EscrowInv, EscrowSum

(* create(), release(), refund(), checkExpired() and dispute() of any       *)
(* number of contracts, whose calls overlap and whose ledger may refuse:    *)
(* the balances and the contracts charged and not paid out hold at least    *)
(* all the credits there were, and exactly those as long as no two payments *)
(* of one contract overlapped.                                              *)
THEOREM EscrowKeepsCredits == MCSpec => []EscrowBalances
<1>1. MCInit => EscrowInv
  BY EscrowInit DEF MCInit
<1>2. EscrowInv /\ [MCNext]_all => EscrowInv'
  <2>1. [MCNext]_all => [Contract!Next]_escrow
    BY DEF MCNext, all, escrow
  <2> QED BY <2>1, EscrowStep
<1>3. EscrowInv => EscrowBalances
  BY EscrowSafe
<1> QED BY <1>1, <1>2, <1>3, PTL DEF MCSpec

-----------------------------------------------------------------------------
FetchKinds == {"have-query", "have-response", "fetch-request", "fetch-data", "fetch-error"}

ChunksTypeOK ==
  /\ store \in [Pods -> SUBSET Chunks]
  /\ connected \subseteq Pods /\ replicas \subseteq Pods
  /\ requests \in Nat
  /\ fetch = [at |-> fetch.at, cid |-> fetch.cid]
  /\ put = [at |-> put.at, targets |-> put.targets, acked |-> put.acked]
  /\ put.targets \subseteq Pods /\ put.acked \in [put.targets -> SUBSET Chunks]
  /\ net \subseteq [kind : FetchKinds \cup {"chunk-push", "replicate-ack"},
                    from : Pods, to : Pods, cid : Chunks, req : Nat]

(* An acknowledgement, under way or counted, is for a chunk in the store of *)
(* its sender, and stores never lose a chunk.  A message of the current     *)
(* request is about the chunk that the current fetch is for.                *)
ChunksInv ==
  /\ ChunksTypeOK
  /\ \A m \in net : m.kind = "replicate-ack" => m.cid \in store[m.from]
  /\ \A t \in put.targets : put.acked[t] \subseteq store[t]
  /\ put.at = "waiting" => put.targets # {}
  /\ put.at = "replicated" => \E t \in put.targets : put.acked[t] = Chunks
  /\ \A m \in net : m.kind \in FetchKinds => m.req =< requests
  /\ \A m \in net : m.kind \in FetchKinds /\ m.req = requests => m.cid = fetch.cid
  /\ fetch.at = "ok" => fetch.cid \in store[Reader]

LEMMA ChunksInit == Bucket!Init => ChunksInv
<1> SUFFICES ASSUME Bucket!Init PROVE ChunksInv
  OBVIOUS
<1>1. /\ connected = Pods /\ replicas \subseteq Pods /\ net = {} /\ requests = 0
      /\ store \in [Pods -> SUBSET Chunks]
  BY DEF Bucket!Init
<1>2. /\ put = [at |-> "none", targets |-> {}, acked |-> [t \in {} |-> {}]]
  BY DEF Bucket!Init, Bucket!NoPut
<1>3. fetch.at = "none" /\ fetch = [at |-> fetch.at, cid |-> fetch.cid]
  BY DEF Bucket!Init, Bucket!NoFetch
<1>4. put.at = "none" /\ put.targets = {} /\ put.acked = [t \in {} |-> {}]
  BY <1>2
<1>5. put = [at |-> put.at, targets |-> put.targets, acked |-> put.acked]
  BY <1>2, <1>4
<1>6. put.acked \in [put.targets -> SUBSET Chunks]
  BY <1>4
<1> QED BY <1>1, <1>3, <1>4, <1>5, <1>6 DEF ChunksInv, ChunksTypeOK

(* A reply is a message of the same request about the same chunk. *)
LEMMA ReplyChunks ==
  ASSUME ChunksTypeOK, NEW m \in net, NEW k2 \in FetchKinds \cup {"replicate-ack"}, Bucket!Reply(m, k2)
  PROVE  /\ net' = (net \ {m}) \cup {[kind |-> k2, from |-> m.to, to |-> m.from, cid |-> m.cid, req |-> m.req]}
         /\ net' \subseteq [kind : FetchKinds \cup {"chunk-push", "replicate-ack"},
                            from : Pods, to : Pods, cid : Chunks, req : Nat]
BY DEF Bucket!Reply, Bucket!Msg, ChunksTypeOK

(* The messages of a step that starts no request and changes no put. *)
LEMMA ChunksReply ==
  ASSUME ChunksInv, NEW m \in net, NEW k2 \in FetchKinds, m.kind \in FetchKinds, Bucket!Reply(m, k2),
         UNCHANGED <<store, connected, replicas, put, requests>>,
         fetch' = [at |-> fetch'.at, cid |-> fetch.cid],
         fetch'.at = "ok" => fetch.at = "ok"
  PROVE  ChunksInv'
<1>1. ChunksTypeOK
  BY DEF ChunksInv
<1> DEFINE new == [kind |-> k2, from |-> m.to, to |-> m.from, cid |-> m.cid, req |-> m.req]
<1>2. net' = (net \ {m}) \cup {new}
  BY <1>1, ReplyChunks
<1>3. fetch'.cid = fetch.cid
  OBVIOUS
<1>4. ChunksTypeOK'
  BY <1>1, <1>3, ReplyChunks DEF ChunksTypeOK
<1>5. "replicate-ack" \notin FetchKinds
  BY DEF FetchKinds
<1>6. new.kind = k2 /\ new.cid = m.cid /\ new.req = m.req
  OBVIOUS
<1> QED BY <1>2, <1>3, <1>4, <1>5, <1>6 DEF ChunksInv

(* A step that loses messages, and ends a fetch without its chunk, or not. *)
LEMMA ChunksLess ==
  ASSUME ChunksInv, net' \subseteq net, UNCHANGED <<store, put, requests>>,
         connected' \subseteq connected, replicas' \subseteq replicas,
         fetch' = [at |-> fetch'.at, cid |-> fetch.cid],
         fetch'.at = "ok" => fetch.at = "ok"
  PROVE  ChunksInv'
<1>1. fetch'.cid = fetch.cid
  OBVIOUS
<1>2. ChunksTypeOK'
  BY <1>1 DEF ChunksInv, ChunksTypeOK
<1> QED BY <1>1, <1>2 DEF ChunksInv

LEMMA PutChunks ==
  ASSUME ChunksInv, Bucket!ReplicatePut
  PROVE  ChunksInv'
<1> DEFINE targets == replicas \cap connected
           pushes == {Bucket!Msg("chunk-push", Writer, t, x, 0) : t \in targets, x \in store[Writer]}
<1>1. /\ put' = [at |-> IF targets = {} THEN "local-only" ELSE "waiting", targets |-> targets,
                 acked |-> [t \in targets |-> {}]]
      /\ net' = net \cup pushes
      /\ UNCHANGED <<store, connected, replicas, fetch, requests>>
  BY DEF Bucket!ReplicatePut
<1>2. /\ put'.at = IF targets = {} THEN "local-only" ELSE "waiting"
      /\ put'.targets = targets /\ put'.acked = [t \in targets |-> {}]
  BY <1>1
<1>3. \A m \in pushes : /\ m.kind = "chunk-push"
                        /\ m \in [kind : FetchKinds \cup {"chunk-push", "replicate-ack"},
                                  from : Pods, to : Pods, cid : Chunks, req : Nat]
  BY ChunksAssumption DEF Bucket!Msg, ChunksInv, ChunksTypeOK
<1>4. "chunk-push" \notin FetchKinds
  BY DEF FetchKinds
<1>5. ChunksTypeOK'
  <2> HIDE DEF pushes
  <2>1. net' \subseteq [kind : FetchKinds \cup {"chunk-push", "replicate-ack"},
                        from : Pods, to : Pods, cid : Chunks, req : Nat]
    BY <1>1, <1>3 DEF ChunksInv, ChunksTypeOK
  <2>2. put'.targets \subseteq Pods /\ put'.acked \in [put'.targets -> SUBSET Chunks]
    BY <1>2 DEF ChunksInv, ChunksTypeOK
  <2>3. put' = [at |-> put'.at, targets |-> put'.targets, acked |-> put'.acked]
    BY <1>1, <1>2
  <2> QED BY <1>1, <2>1, <2>2, <2>3 DEF ChunksInv, ChunksTypeOK
<1> HIDE DEF pushes
<1> QED BY <1>1, <1>2, <1>3, <1>4, <1>5 DEF ChunksInv

LEMMA PushChunks ==
  ASSUME ChunksInv, NEW m \in net, Bucket!HandleChunkPush(m)
  PROVE  ChunksInv'
<1>0. ChunksTypeOK
  BY DEF ChunksInv
<1>1. CASE net' = net \ {m} /\ UNCHANGED store
  <2>1. fetch' = fetch
    BY DEF Bucket!HandleChunkPush
  <2> QED BY <1>0, <1>1, <2>1, ChunksLess DEF Bucket!HandleChunkPush, ChunksTypeOK
<1>2. CASE /\ store' = [store EXCEPT ![m.to] = @ \cup {m.cid}]
           /\ Bucket!Reply(m, "replicate-ack")
  <2> DEFINE new == [kind |-> "replicate-ack", from |-> m.to, to |-> m.from, cid |-> m.cid, req |-> m.req]
  <2>1. net' = (net \ {m}) \cup {new}
    BY <1>0, <1>2, ReplyChunks
  <2>2. UNCHANGED <<connected, replicas, put, fetch, requests>>
    BY DEF Bucket!HandleChunkPush
  <2>3. m.to \in Pods /\ m.cid \in Chunks
    BY <1>0 DEF ChunksTypeOK
  <2>4. /\ store' \in [Pods -> SUBSET Chunks] /\ m.cid \in store'[m.to]
        /\ \A p \in Pods : store[p] \subseteq store'[p]
    BY <1>0, <1>2, <2>3 DEF ChunksTypeOK
  <2>5. ChunksTypeOK'
    BY <1>0, <1>2, <2>2, <2>4, ReplyChunks DEF ChunksTypeOK
  <2>6. \A x \in net' : x.kind = "replicate-ack" => x.cid \in store'[x.from]
    BY <1>0, <2>1, <2>4 DEF ChunksInv, ChunksTypeOK
  <2>7. \A t \in put'.targets : put'.acked[t] \subseteq store'[t]
    BY <1>0, <2>2, <2>4 DEF ChunksInv, ChunksTypeOK
  <2>8. fetch'.at = "ok" => fetch'.cid \in store'[Reader]
    BY <2>2, <2>4, ChunksAssumption DEF ChunksInv
  <2>9. new.kind \notin FetchKinds
    BY DEF FetchKinds
  <2> QED BY <2>1, <2>2, <2>5, <2>6, <2>7, <2>8, <2>9 DEF ChunksInv
<1> QED BY <1>1, <1>2 DEF Bucket!HandleChunkPush

LEMMA AckedUpdate ==
  ASSUME NEW r, NEW ks, r = [at |-> r.at, targets |-> r.targets, acked |-> r.acked]
  PROVE  [r EXCEPT !.acked = ks] = [at |-> r.at, targets |-> r.targets, acked |-> ks]
OBVIOUS

LEMMA AckChunks ==
  ASSUME ChunksInv, NEW m \in net, Bucket!HandleReplicateAck(m)
  PROVE  ChunksInv'
<1>0. ChunksTypeOK
  BY DEF ChunksInv
<1>1. /\ net' \subseteq net /\ m.kind = "replicate-ack"
      /\ UNCHANGED <<store, connected, replicas, fetch, requests>>
  BY DEF Bucket!HandleReplicateAck
<1>2. CASE UNCHANGED put
  BY <1>0, <1>1, <1>2, ChunksLess DEF ChunksTypeOK
<1>3. CASE put.at = "waiting"
  <2> DEFINE acked == [put.acked EXCEPT ![m.from] = @ \cup {m.cid}]
             new == [put EXCEPT !.acked = acked]
  <2>1. put' = IF Bucket!FullyAcked(new) = new.targets THEN [new EXCEPT !.at = "replicated"] ELSE new
    BY <1>3 DEF Bucket!HandleReplicateAck
  <2>2. /\ new.at = put.at /\ new.targets = put.targets /\ new.acked = acked
        /\ new = [at |-> new.at, targets |-> new.targets, acked |-> new.acked]
    <3>1. put = [at |-> put.at, targets |-> put.targets, acked |-> put.acked]
      BY <1>0 DEF ChunksTypeOK
    <3> HIDE DEF acked
    <3>2. new = [at |-> put.at, targets |-> put.targets, acked |-> acked]
      BY <3>1, AckedUpdate
    <3> HIDE DEF new
    <3> QED BY <3>2
  <2>3. m.cid \in store[m.from] /\ m.cid \in Chunks
    BY <1>0, <1>1 DEF ChunksInv, ChunksTypeOK
  <2>4. acked \in [put.targets -> SUBSET Chunks] /\ \A t \in put.targets : acked[t] \subseteq store[t]
    BY <1>0, <2>3 DEF ChunksInv, ChunksTypeOK
  <2> HIDE DEF new, acked
  <2>5. /\ put'.targets = put.targets /\ put'.acked = acked
        /\ put' = [at |-> put'.at, targets |-> put'.targets, acked |-> put'.acked]
        /\ put'.at = IF Bucket!FullyAcked(new) = new.targets THEN "replicated" ELSE "waiting"
    BY <1>3, <2>1, <2>2
  <2>6. put'.at = "replicated" => \E t \in put'.targets : put'.acked[t] = Chunks
    BY <1>3, <2>2, <2>5 DEF ChunksInv, Bucket!FullyAcked, Bucket!Complete
  <2>7. ChunksTypeOK'
    BY <1>0, <1>1, <2>4, <2>5 DEF ChunksTypeOK
  <2> QED BY <1>1, <1>3, <2>4, <2>5, <2>6, <2>7 DEF ChunksInv
<1> QED BY <1>2, <1>3 DEF Bucket!HandleReplicateAck

LEMMA PutTimeoutChunks ==
  ASSUME ChunksInv, Bucket!PutTimeout
  PROVE  ChunksInv'
<1>1. /\ put.at = "waiting"
      /\ put' = [put EXCEPT !.at = IF Bucket!FullyAcked(put) = {} THEN "local-only" ELSE "replicated"]
      /\ UNCHANGED <<store, connected, replicas, fetch, net, requests>>
  BY DEF Bucket!PutTimeout
<1>2. /\ put'.targets = put.targets /\ put'.acked = put.acked
      /\ put'.at = IF Bucket!FullyAcked(put) = {} THEN "local-only" ELSE "replicated"
      /\ put' = [at |-> put'.at, targets |-> put'.targets, acked |-> put'.acked]
  BY <1>1 DEF ChunksInv, ChunksTypeOK
<1>3. put'.at = "replicated" => \E t \in put'.targets : put'.acked[t] = Chunks
  BY <1>2 DEF Bucket!FullyAcked, Bucket!Complete
<1>4. ChunksTypeOK'
  BY <1>1, <1>2 DEF ChunksInv, ChunksTypeOK
<1>5. put'.at # "waiting"
  BY <1>2
<1> QED BY <1>1, <1>2, <1>3, <1>4, <1>5 DEF ChunksInv

LEMMA FetchChunks ==
  ASSUME ChunksInv, NEW x \in Chunks, Bucket!FetchChunk(x)
  PROVE  ChunksInv'
<1> DEFINE queries == {Bucket!Msg("have-query", Reader, p, x, requests + 1) : p \in connected \ {Reader}}
<1>1. /\ requests \in Nat /\ requests' = requests + 1
      /\ net' \subseteq net \cup queries
      /\ UNCHANGED <<store, connected, replicas, put>>
  BY DEF Bucket!FetchChunk, Bucket!Fetches, ChunksInv, ChunksTypeOK
<1>2. /\ fetch' = [at |-> fetch'.at, cid |-> fetch'.cid] /\ fetch'.cid = x
      /\ fetch'.at = "ok" => x \in store[Reader]
  <2>1. CASE x \in store[Reader]
    BY <2>1 DEF Bucket!FetchChunk
  <2>2. CASE x \notin store[Reader]
    <3>1. fetch' = [at |-> IF connected = {Reader} THEN "failed" ELSE "query", cid |-> x]
      BY <2>2 DEF Bucket!FetchChunk
    <3>2. fetch'.cid = x /\ fetch'.at = IF connected = {Reader} THEN "failed" ELSE "query"
      BY <3>1
    <3> QED BY <3>1, <3>2
  <2> QED BY <2>1, <2>2
<1>3. \A m \in queries : /\ m.kind = "have-query" /\ m.req = requests + 1 /\ m.cid = x
                         /\ m \in [kind : FetchKinds \cup {"chunk-push", "replicate-ack"},
                                   from : Pods, to : Pods, cid : Chunks, req : Nat]
  BY <1>1, ChunksAssumption DEF Bucket!Msg, FetchKinds, ChunksInv, ChunksTypeOK
<1> HIDE DEF queries
<1>4. ChunksTypeOK'
  BY <1>1, <1>2, <1>3 DEF ChunksInv, ChunksTypeOK
<1>5. \A m \in net' : m.kind = "replicate-ack" => m \in net
  BY <1>1, <1>3
<1>6. \A m \in net' : m.kind \in FetchKinds => \/ m.req = requests + 1 /\ m.cid = x
                                               \/ m.req \in Nat /\ m.req =< requests
  BY <1>1, <1>3 DEF ChunksInv, ChunksTypeOK
<1>7. \A m \in net' : m.kind \in FetchKinds => m.req =< requests' /\ (m.req = requests' => m.cid = fetch'.cid)
  BY <1>1, <1>2, <1>6
<1> QED BY <1>1, <1>2, <1>4, <1>5, <1>7 DEF ChunksInv

LEMMA ResponseChunks ==
  ASSUME ChunksInv, NEW m \in net, Bucket!HandleFetchResponse(m)
  PROVE  ChunksInv'
<1>0. ChunksTypeOK
  BY DEF ChunksInv
<1>1. /\ net' \subseteq net /\ m.kind \in {"fetch-data", "fetch-error"}
      /\ UNCHANGED <<connected, replicas, put, requests>>
  BY DEF Bucket!HandleFetchResponse
<1>2. CASE fetch.at # "fetch" \/ m.req # requests \/ m.kind = "fetch-error"
  <2>1. UNCHANGED store /\ (fetch' = fetch \/ fetch' = [fetch EXCEPT !.at = "failed"])
    BY <1>2 DEF Bucket!HandleFetchResponse
  <2>2. fetch' = [at |-> fetch'.at, cid |-> fetch.cid] /\ (fetch'.at = "ok" => fetch.at = "ok")
    BY <1>0, <2>1 DEF ChunksTypeOK
  <2> QED BY <1>1, <2>1, <2>2, ChunksLess
<1>3. CASE ~ (fetch.at # "fetch" \/ m.req # requests \/ m.kind = "fetch-error")
  <2>1. fetch' = [fetch EXCEPT !.at = "ok"] /\ store' = [store EXCEPT ![Reader] = @ \cup {m.cid}]
    BY <1>3 DEF Bucket!HandleFetchResponse
  <2>2. fetch' = [at |-> "ok", cid |-> fetch.cid]
    BY <1>0, <2>1 DEF ChunksTypeOK
  <2>3. m.cid = fetch.cid /\ m.cid \in Chunks
    BY <1>0, <1>1, <1>3 DEF ChunksInv, ChunksTypeOK, FetchKinds
  <2>4. /\ store' \in [Pods -> SUBSET Chunks] /\ m.cid \in store'[Reader]
        /\ \A p \in Pods : store[p] \subseteq store'[p]
    BY <1>0, <2>1, <2>3, ChunksAssumption DEF ChunksTypeOK
  <2>5. ChunksTypeOK'
    BY <1>0, <1>1, <2>2, <2>4 DEF ChunksTypeOK
  <2>6. \A x \in net' : x.kind = "replicate-ack" => x.cid \in store'[x.from]
    BY <1>0, <1>1, <2>4 DEF ChunksInv, ChunksTypeOK
  <2>7. \A t \in put'.targets : put'.acked[t] \subseteq store'[t]
    BY <1>0, <1>1, <2>4 DEF ChunksInv, ChunksTypeOK
  <2> QED BY <1>1, <2>2, <2>3, <2>4, <2>5, <2>6, <2>7 DEF ChunksInv
<1> QED BY <1>2, <1>3

LEMMA ChunksStep == ChunksInv /\ [Bucket!Next]_chunks => ChunksInv'
<1> SUFFICES ASSUME ChunksInv, [Bucket!Next]_chunks PROVE ChunksInv'
  OBVIOUS
<1>0. ChunksTypeOK /\ fetch = [at |-> fetch.at, cid |-> fetch.cid]
  BY DEF ChunksInv, ChunksTypeOK
<1>1. ASSUME NEW m \in net, Bucket!HandleHaveQuery(m) PROVE ChunksInv'
  <2>1. CASE m.cid \in store[m.to]
    BY <1>0, <1>1, <2>1, ChunksReply DEF Bucket!HandleHaveQuery, FetchKinds
  <2>2. CASE m.cid \notin store[m.to]
    BY <1>0, <1>1, <2>2, ChunksLess DEF Bucket!HandleHaveQuery
  <2> QED BY <2>1, <2>2
<1>2. ASSUME NEW m \in net, Bucket!HandleHaveResponse(m) PROVE ChunksInv'
  <2>1. CASE fetch.at = "query" /\ m.req = requests
    <3>1. /\ fetch' = [fetch EXCEPT !.at = "fetch"] /\ Bucket!Reply(m, "fetch-request")
          /\ m.kind = "have-response" /\ UNCHANGED <<store, connected, replicas, put, requests>>
      BY <1>2, <2>1 DEF Bucket!HandleHaveResponse
    <3>2. fetch' = [at |-> "fetch", cid |-> fetch.cid]
      BY <1>0, <3>1
    <3> QED BY <3>1, <3>2, ChunksReply DEF FetchKinds
  <2>2. CASE ~ (fetch.at = "query" /\ m.req = requests)
    BY <1>0, <1>2, <2>2, ChunksLess DEF Bucket!HandleHaveResponse
  <2> QED BY <2>1, <2>2
<1>3. ASSUME NEW m \in net, Bucket!HandleFetchRequest(m) PROVE ChunksInv'
  BY <1>0, <1>3, ChunksReply DEF Bucket!HandleFetchRequest, FetchKinds
<1>4. ASSUME Bucket!QueryTimeout \/ Bucket!FetchTimeout PROVE ChunksInv'
  <2>1. fetch' = [fetch EXCEPT !.at = "failed"] /\ UNCHANGED <<store, connected, replicas, put, net, requests>>
    BY <1>4 DEF Bucket!QueryTimeout, Bucket!FetchTimeout
  <2>2. fetch' = [at |-> "failed", cid |-> fetch.cid]
    BY <1>0, <2>1
  <2> QED BY <2>1, <2>2, ChunksLess
<1>5. ASSUME NEW p \in Pods, Bucket!Leave(p) \/ Bucket!RevokeAccess(p) PROVE ChunksInv'
  BY <1>0, <1>5, ChunksLess DEF Bucket!Leave, Bucket!RevokeAccess
<1>6. CASE UNCHANGED chunks
  BY <1>0, <1>6, ChunksLess DEF chunks
<1> QED BY <1>1, <1>2, <1>3, <1>4, <1>5, <1>6, PutChunks, PutTimeoutChunks, FetchChunks, PushChunks,
           AckChunks, ResponseChunks DEF Bucket!Next, Bucket!Timeouts

(* replicatePut() and fetchChunk() of any bucket: whoever replicatedTo      *)
(* names holds every chunk of the entry, at least one pod if the call       *)
(* reports "replicated", and a fetch that succeeded left the chunk it was   *)
(* for, whatever was lost, refused, late, or answered an earlier request.   *)
THEOREM ChunkReportsHold == MCSpec => []ChunkReportsAreTrue
<1>1. MCInit => ChunksInv
  BY ChunksInit DEF MCInit
<1>2. ChunksInv /\ [MCNext]_all => ChunksInv'
  <2>1. [MCNext]_all => [Bucket!Next]_chunks
    BY DEF MCNext, all, chunks
  <2> QED BY <2>1, ChunksStep
<1>3. ChunksInv => ChunkReportsAreTrue
  <2> SUFFICES ASSUME ChunksInv PROVE Bucket!ReportsAreTrue
    BY DEF ChunkReportsAreTrue
  <2>1. \A t \in put.targets : put.acked[t] = Chunks => store[t] = Chunks
    BY DEF ChunksInv, ChunksTypeOK
  <2>2. put.at = "replicated" => Bucket!ReplicatedTo # {}
    BY DEF ChunksInv, Bucket!ReplicatedTo, Bucket!FullyAcked, Bucket!Complete
  <2> QED BY <2>1, <2>2 DEF ChunksInv, Bucket!ReportsAreTrue, Bucket!ReplicatedTo,
             Bucket!FullyAcked, Bucket!Complete
<1> QED BY <1>1, <1>2, <1>3, PTL DEF MCSpec

-----------------------------------------------------------------------------
(* The pods of a page. *)
PageStates == {"none", "booting", "registered", "gone"}

PageTypeOK ==
  /\ record \in [Names -> [state : PageStates, handle : 0..MaxPageSpawns, pod : 0..MaxPageSpawns]]
  /\ spawns \in [Names -> 0..MaxPageSpawns]
  /\ alive \subseteq Host!Child /\ channel \subseteq Host!Child /\ waiting \subseteq Host!Child
  /\ ended \in [Host!Child -> {None, "ok", "failed", "timeout"}]

(* A record that holds a child holds that of the last spawn, and nobody     *)
(* waits for, or was told of, a spawn that is still to come.                *)
PageInv ==
  /\ PageTypeOK
  /\ \A x \in Names :
       \/ record[x].state \in {"booting", "registered"} /\ record[x].handle = spawns[x] /\ spawns[x] # 0
       \/ record[x].state \in {"none", "gone"} /\ record[x].handle = 0
  /\ \A x \in Names, n \in 1..MaxPageSpawns : <<x, n>> \in alive <=> record[x].handle = n
  /\ \A x \in Names, n \in 1..MaxPageSpawns : <<x, n>> \in waiting \/ ended[<<x, n>>] = "ok" => n =< spawns[x]
  /\ \A x \in Names, n \in 1..MaxPageSpawns : ended[<<x, n>>] = "ok" /\ n = spawns[x] =>
       record[x].pod # 0 /\ record[x].state \in {"registered", "gone"}

LEMMA PageSafe == PageInv => Host!ChildrenAreHeld
<1> SUFFICES ASSUME PageInv PROVE Host!ChildrenAreHeld
  OBVIOUS
<1>1. ASSUME NEW k \in alive PROVE record[k[1]].handle = k[2]
  BY PageAssumption DEF PageInv, PageTypeOK, Host!Child
<1>2. ASSUME NEW x \in Names, record[x].handle # 0
      PROVE  <<x, record[x].handle>> \in alive /\ record[x].state \in {"booting", "registered"}
  BY <1>2, PageAssumption DEF PageInv, PageTypeOK
<1>3. ASSUME NEW k \in Host!Child, ended[k] = "ok", k[2] = spawns[k[1]]
      PROVE  record[k[1]].pod # 0 /\ (k \in alive \/ record[k[1]].state = "gone")
  BY <1>3, PageAssumption DEF PageInv, PageTypeOK, Host!Child
<1> QED BY <1>1, <1>2, <1>3 DEF Host!ChildrenAreHeld

LEMMA PageInit == Host!PageInit => PageInv
<1> SUFFICES ASSUME Host!PageInit PROVE PageInv
  OBVIOUS
<1>1. /\ record = [x \in Names |-> [state |-> "none", handle |-> 0, pod |-> 0]]
      /\ spawns = [x \in Names |-> 0] /\ alive = {} /\ channel = {} /\ waiting = {}
      /\ ended = [k \in Host!Child |-> None]
  BY DEF Host!PageInit, Host!PageRec
<1>2. PageTypeOK
  BY <1>1, PageAssumption DEF PageTypeOK, PageStates
<1>3. \A x \in Names, n \in 1..MaxPageSpawns : <<x, n>> \in Host!Child /\ ended[<<x, n>>] # "ok"
  BY <1>1, PageAssumption DEF Host!Child
<1> QED BY <1>1, <1>2, <1>3, PageAssumption DEF PageInv

LEMMA PageStep == PageInv /\ [Host!PageNext]_page => PageInv'
<1> SUFFICES ASSUME PageInv, [Host!PageNext]_page PROVE PageInv'
  OBVIOUS
<1>1. ASSUME NEW x \in Names, Host!PageSpawn(x) PROVE PageInv'
  BY <1>1, PageAssumption DEF Host!PageSpawn, Host!CanSpawn, Host!PageRec, PageInv, PageTypeOK, Host!Child, PageStates
<1>2. ASSUME NEW x \in Names, Host!SpawnFails(x) PROVE PageInv'
  BY <1>2, PageAssumption DEF Host!SpawnFails, Host!CanSpawn, Host!PageRec, PageInv, PageTypeOK, Host!Child, PageStates
<1>3. ASSUME NEW x \in Names, Host!PageDrain(x) PROVE PageInv'
  BY <1>3, PageAssumption DEF Host!PageDrain, Host!PageRec, PageInv, PageTypeOK, Host!Child, PageStates
<1>4. ASSUME NEW k \in Host!Child, Host!Announce(k) PROVE PageInv'
  BY <1>4, PageAssumption DEF Host!Announce, PageInv, PageTypeOK
<1>5. ASSUME NEW k \in Host!Child, Host!HandleIncoming(k) PROVE PageInv'
  <2> DEFINE x == k[1]
             mine == {w \in waiting : w[1] = x /\ w[2] = spawns[x]}
  <2>1. /\ x \in Names /\ k[2] \in 1..MaxPageSpawns /\ channel' \subseteq Host!Child
        /\ spawns' = spawns /\ alive' = alive /\ PageTypeOK
    BY <1>5 DEF Host!HandleIncoming, PageInv, PageTypeOK, Host!Child
  <2>2. CASE UNCHANGED <<record, waiting, ended>>
    BY <2>1, <2>2 DEF PageInv, PageTypeOK
  <2>3. CASE /\ record[x].state \notin {"none", "gone"}
             /\ record' = [record EXCEPT ![x] = [state |-> "registered", handle |-> record[x].handle, pod |-> k[2]]]
             /\ waiting' = waiting \ mine
             /\ ended' = [w \in Host!Child |-> IF w \in mine THEN "ok" ELSE ended[w]]
    <3>1. /\ record'[x].state = "registered" /\ record'[x].handle = record[x].handle /\ record'[x].pod = k[2]
          /\ \A y \in Names : y # x => record'[y] = record[y]
      BY <2>1, <2>3 DEF PageTypeOK
    <3>2. PageTypeOK'
      <4>1. [state |-> "registered", handle |-> record[x].handle, pod |-> k[2]]
              \in [state : PageStates, handle : 0..MaxPageSpawns, pod : 0..MaxPageSpawns]
        BY <2>1, PageAssumption DEF PageTypeOK, PageStates
      <4>2. ended' \in [Host!Child -> {None, "ok", "failed", "timeout"}]
        BY <2>1, <2>3 DEF PageTypeOK
      <4> QED BY <2>1, <2>3, <4>1, <4>2 DEF PageTypeOK
    <3>3. \A y \in Names, n \in 1..MaxPageSpawns : <<y, n>> \in mine => y = x /\ n = spawns[x]
      OBVIOUS
    <3>4. \A y \in Names, n \in 1..MaxPageSpawns :
             ended'[<<y, n>>] = "ok" => ended[<<y, n>>] = "ok" \/ <<y, n>> \in mine
      BY <2>3 DEF Host!Child
    <3>5. waiting' \subseteq waiting /\ mine \subseteq waiting
      BY <2>3
    <3> HIDE DEF mine, x
    <3> QED BY <2>1, <2>3, <3>1, <3>2, <3>3, <3>4, <3>5, PageAssumption DEF PageInv
  <2> QED BY <1>5, <2>2, <2>3 DEF Host!HandleIncoming, Host!PageRec
<1>6. ASSUME NEW k \in Host!Child, Host!WaitTimeout(k) PROVE PageInv'
  BY <1>6, PageAssumption DEF Host!WaitTimeout, PageInv, PageTypeOK, Host!Child
<1>7. CASE UNCHANGED page
  BY <1>7 DEF page, PageInv, PageTypeOK
<1> QED BY <1>1, <1>2, <1>3, <1>4, <1>5, <1>6, <1>7 DEF Host!PageNext

-----------------------------------------------------------------------------
(* The host of a pod. *)
HostStates == {"registered", "serving", "snapshotted", "gone"}
Stages == {"sent", "dispatch", "running", "ok", "error", "answered"}
CallRecord == [verb : Host!Verbs, at : Stages, rec : Nat]

HostTypeOK ==
  /\ rec \in Seq(HostStates)
  /\ calls \in Seq(CallRecord)
  /\ outcome \in Seq({"pending", "ok", "error", "timeout"}) /\ Len(outcome) = Len(calls)

(* A call that runs does so on a record that was made. *)
HostInv ==
  /\ HostTypeOK
  /\ \A k \in 1..Len(calls) : calls[k].at = "running" => calls[k].rec \in 1..Len(rec)
  /\ Host!OnePodPerName

LEMMA GoneIsFinal == \A s \in HostStates : ~ Host!CanTransition("gone", s)
BY DEF Host!CanTransition

LEMMA CallMoves ==
  ASSUME NEW s \in Seq(CallRecord), NEW k \in 1..Len(s), NEW to \in Stages
  PROVE  /\ [s EXCEPT ![k].at = to] \in Seq(CallRecord) /\ Len([s EXCEPT ![k].at = to]) = Len(s)
         /\ \A d \in 1..Len(s) : /\ [s EXCEPT ![k].at = to][d].rec = s[d].rec
                                 /\ [s EXCEPT ![k].at = to][d].at = IF d = k THEN to ELSE s[d].at
<1> DEFINE e == [s[k] EXCEPT !.at = to]
<1>1. s[k] \in CallRecord
  BY ElementOfSeq
<1>2. e \in CallRecord /\ e.rec = s[k].rec /\ e.at = to
  BY <1>1 DEF CallRecord
<1>3. [s EXCEPT ![k].at = to] = [s EXCEPT ![k] = e]
  OBVIOUS
<1> HIDE DEF e
<1>4. /\ [s EXCEPT ![k] = e] \in Seq(CallRecord) /\ Len([s EXCEPT ![k] = e]) = Len(s)
      /\ \A d \in 1..Len(s) : [s EXCEPT ![k] = e][d] = IF d = k THEN e ELSE s[d]
  BY <1>2, ExceptSeq
<1> QED BY <1>2, <1>3, <1>4

LEMMA StateSet ==
  ASSUME NEW s \in Seq(HostStates), NEW r \in 1..Len(s), NEW to \in HostStates
  PROVE  /\ [s EXCEPT ![r] = to] \in Seq(HostStates) /\ Len([s EXCEPT ![r] = to]) = Len(s)
         /\ \A q \in 1..Len(s) : [s EXCEPT ![r] = to][q] = IF q = r THEN to ELSE s[q]
BY ExceptSeq

(* What a step may do to the driver's records: one more after the last one  *)
(* has gone, or a change of the last one, if it has not gone.               *)
LastBecomes(s) ==
  /\ Len(rec) > 0 /\ rec' = [rec EXCEPT ![Len(rec)] = s]
  /\ rec[Len(rec)] = "gone" => s = "gone"

NextMade ==
  (Len(rec) > 0 => rec[Len(rec)] = "gone") /\ rec' = Append(rec, "registered")

RecMoves == rec' = rec \/ (\E s \in HostStates : LastBecomes(s)) \/ NextMade

LEMMA RecKeeps ==
  ASSUME HostInv, RecMoves
  PROVE  /\ rec' \in Seq(HostStates) /\ Len(rec) \in Nat /\ Len(rec') \in Nat /\ Len(rec') >= Len(rec)
         /\ \A r \in 1..Len(rec') : r # Len(rec') => rec'[r] = "gone"
         /\ \A r \in 1..Len(rec) : rec[r] = "gone" => rec'[r] = "gone"
<1>1. rec \in Seq(HostStates) /\ Len(rec) \in Nat /\ \A r \in 1..Len(rec) : r # Len(rec) => rec[r] = "gone"
  BY DEF HostInv, HostTypeOK, Host!OnePodPerName, Host!Cur
<1>2. CASE rec' = rec
  BY <1>1, <1>2
<1>3. ASSUME NEW s \in HostStates, LastBecomes(s)
      PROVE  /\ rec' \in Seq(HostStates) /\ Len(rec') = Len(rec)
             /\ \A r \in 1..Len(rec) : r # Len(rec) => rec'[r] = "gone"
             /\ \A r \in 1..Len(rec) : rec[r] = "gone" => rec'[r] = "gone"
  <2>1. Len(rec) \in 1..Len(rec) /\ rec' = [rec EXCEPT ![Len(rec)] = s] /\ (rec[Len(rec)] = "gone" => s = "gone")
    BY <1>1, <1>3 DEF LastBecomes
  <2>2. /\ rec' \in Seq(HostStates) /\ Len(rec') = Len(rec)
        /\ \A q \in 1..Len(rec) : rec'[q] = IF q = Len(rec) THEN s ELSE rec[q]
    BY <1>1, <2>1, StateSet
  <2> QED BY <1>1, <2>1, <2>2
<1>4. CASE NextMade
  <2>1. /\ rec' \in Seq(HostStates) /\ Len(rec') = Len(rec) + 1
        /\ \A r \in 1..Len(rec) : rec'[r] = rec[r]
    BY <1>1, <1>4, AppendProperties DEF HostStates, NextMade
  <2> QED BY <1>1, <1>4, <2>1 DEF NextMade
<1> QED BY <1>1, <1>2, <1>3, <1>4 DEF RecMoves

(* A call goes on, perhaps to work on the last record. *)
Goes(k, to) == calls' = [calls EXCEPT ![k].at = to]
GoesOn(k, to, r) == calls' = [calls EXCEPT ![k].at = to, ![k].rec = r]

CallGoes(k) ==
  \/ calls' = calls
  \/ \E to \in Stages \ {"running"} : Goes(k, to)
  \/ \E r \in 1..Len(rec'), to \in Stages : GoesOn(k, to, r)

LEMMA CallKeeps ==
  ASSUME HostInv, RecMoves, NEW k \in 1..Len(calls), CallGoes(k)
  PROVE  /\ calls' \in Seq(CallRecord) /\ Len(calls') = Len(calls)
         /\ \A d \in 1..Len(calls') : calls'[d].at = "running" => calls'[d].rec \in 1..Len(rec')
<1>1. /\ calls \in Seq(CallRecord) /\ \A d \in 1..Len(calls) : calls[d].at = "running" => calls[d].rec \in 1..Len(rec)
      /\ Len(rec) \in Nat /\ Len(rec') \in Nat /\ Len(rec') >= Len(rec)
  BY RecKeeps DEF HostInv, HostTypeOK
<1>2. CASE calls' = calls
  BY <1>1, <1>2
<1>3. ASSUME NEW to \in Stages \ {"running"}, Goes(k, to)
      PROVE  /\ calls' \in Seq(CallRecord) /\ Len(calls') = Len(calls)
             /\ \A d \in 1..Len(calls') : calls'[d].at = "running" => calls'[d].rec \in 1..Len(rec')
  BY <1>1, <1>3, CallMoves DEF Goes
<1>4. ASSUME NEW r \in 1..Len(rec'), NEW to \in Stages, GoesOn(k, to, r)
      PROVE  /\ calls' \in Seq(CallRecord) /\ Len(calls') = Len(calls)
             /\ \A d \in 1..Len(calls') : calls'[d].at = "running" => calls'[d].rec \in 1..Len(rec')
  <2> DEFINE e == [calls[k] EXCEPT !.at = to, !.rec = r]
  <2>1. calls[k] \in CallRecord
    BY <1>1, ElementOfSeq
  <2>2. e \in CallRecord /\ e.rec = r
    <3>1. r \in Nat
      BY <1>1
    <3> QED BY <2>1, <3>1 DEF CallRecord
  <2>3. calls' = [calls EXCEPT ![k] = e]
    BY <1>4 DEF GoesOn
  <2> HIDE DEF e
  <2>4. /\ calls' \in Seq(CallRecord) /\ Len(calls') = Len(calls)
        /\ \A d \in 1..Len(calls) : calls'[d] = IF d = k THEN e ELSE calls[d]
    BY <1>1, <2>2, <2>3, ExceptSeq
  <2> QED BY <1>1, <2>2, <2>4
<1> QED BY <1>2, <1>3, <1>4 DEF CallGoes

(* dispatch() and what it calls *)
LEMMA DispatchMoves ==
  ASSUME HostInv, NEW k \in 1..Len(calls), Host!Dispatch(k)
  PROVE  RecMoves /\ CallGoes(k) /\ outcome' = outcome
<1>1. /\ rec \in Seq(HostStates) /\ Len(rec) \in Nat
      /\ Len(rec) > 0 => rec[Len(rec)] \in HostStates
  <2>1. rec \in Seq(HostStates)
    BY DEF HostInv, HostTypeOK
  <2> QED BY <2>1, ElementOfSeq
<1>2. outcome' = outcome
  BY DEF Host!Dispatch
<1>3. ASSUME Host!Fails(k) PROVE RecMoves /\ CallGoes(k)
  <2>1. rec' = rec /\ Goes(k, "error") /\ "error" \in Stages \ {"running"}
    BY <1>3 DEF Host!Fails, Host!At, Goes, Stages
  <2> QED BY <2>1 DEF RecMoves, CallGoes
<1>4. CASE Host!Spawn(k)
  <2>1. CASE Host!SpawnFree
    <3>1. /\ rec' = Append(rec, "registered") /\ calls' = [calls EXCEPT ![k].at = "ok", ![k].rec = Len(rec) + 1]
          /\ Len(rec) > 0 => rec[Len(rec)] = "gone"
      BY <1>4, <2>1 DEF Host!Spawn, Host!SpawnFree, Host!Live, Host!Cur
    <3>2. Len(rec') = Len(rec) + 1
      BY <1>1, <3>1, AppendProperties DEF HostStates
    <3>3. RecMoves
      BY <3>1 DEF RecMoves, NextMade
    <3>4. GoesOn(k, "ok", Len(rec) + 1) /\ Len(rec) + 1 \in 1..Len(rec') /\ "ok" \in Stages
      BY <1>1, <3>1, <3>2 DEF GoesOn, Stages
    <3>5. CallGoes(k)
      BY <3>4 DEF CallGoes
    <3> QED BY <1>2, <3>3, <3>5
  <2> QED BY <1>2, <1>3, <1>4, <2>1 DEF Host!Spawn
<1>5. CASE Host!ExecStarts(k)
  <2>1. CASE Host!Live /\ Host!CanTransition(rec[Host!Cur], "serving")
    <3>1. /\ Len(rec) > 0 /\ rec[Len(rec)] # "gone" /\ rec' = [rec EXCEPT ![Len(rec)] = "serving"]
          /\ calls' = [calls EXCEPT ![k].at = "running", ![k].rec = Len(rec)]
      BY <1>5, <2>1 DEF Host!ExecStarts, Host!Live, Host!Cur, Host!SetRec
    <3>2. RecMoves
      <4>1. LastBecomes("serving") /\ "serving" \in HostStates
        BY <3>1 DEF LastBecomes, HostStates
      <4> QED BY <4>1 DEF RecMoves
    <3>3. GoesOn(k, "running", Len(rec)) /\ Len(rec) \in 1..Len(rec') /\ "running" \in Stages
      BY <1>1, <3>1 DEF GoesOn, Stages
    <3>4. CallGoes(k)
      BY <3>3 DEF CallGoes
    <3> QED BY <1>2, <3>2, <3>4
  <2> QED BY <1>2, <1>3, <1>5, <2>1 DEF Host!ExecStarts
<1>6. CASE Host!Snapshot(k) \/ Host!Restore(k) \/ Host!Drain(k)
  <2>1. ASSUME ~ Host!Fails(k)
        PROVE  /\ Len(rec) > 0 /\ calls' = [calls EXCEPT ![k].at = "ok"]
               /\ \/ rec[Len(rec)] # "gone" /\ rec' = [rec EXCEPT ![Len(rec)] = "snapshotted"]
                  \/ rec[Len(rec)] # "gone" /\ rec' = [rec EXCEPT ![Len(rec)] = "registered"]
                  \/ rec' = [rec EXCEPT ![Len(rec)] = "gone"]
    <3>1. CASE Host!Snapshot(k)
      BY <2>1, <3>1 DEF Host!Snapshot, Host!Cur, Host!SetRec, Host!At
    <3>2. CASE Host!Restore(k)
      <4>1. Host!CanTransition(rec[Len(rec)], "restoring") => rec[Len(rec)] # "gone"
        BY DEF Host!CanTransition
      <4> QED BY <2>1, <3>2, <4>1 DEF Host!Restore, Host!Cur, Host!SetRec, Host!At
    <3>3. CASE Host!Drain(k)
      BY <2>1, <3>3 DEF Host!Drain, Host!Cur, Host!SetRec, Host!At
    <3> QED BY <1>6, <3>1, <3>2, <3>3
  <2>2. ASSUME ~ Host!Fails(k) PROVE RecMoves /\ CallGoes(k)
    <3>1. Goes(k, "ok") /\ "ok" \in Stages \ {"running"}
      BY <2>1, <2>2 DEF Goes, Stages
    <3>2. LastBecomes("snapshotted") \/ LastBecomes("registered") \/ LastBecomes("gone")
      BY <2>1, <2>2 DEF LastBecomes
    <3> QED BY <3>1, <3>2 DEF RecMoves, CallGoes, HostStates
  <2>3. RecMoves /\ CallGoes(k)
    BY <1>3, <2>2
  <2> QED BY <1>2, <2>3
<1>7. calls[k].verb \in Host!Verbs
  <2>1. calls[k] \in CallRecord
    BY ElementOfSeq DEF HostInv, HostTypeOK
  <2> QED BY <2>1 DEF CallRecord
<1>8. Host!Spawn(k) \/ Host!ExecStarts(k) \/ Host!Snapshot(k) \/ Host!Restore(k) \/ Host!Drain(k)
  BY <1>7 DEF Host!Dispatch, Host!Verbs
<1> QED BY <1>2, <1>4, <1>5, <1>6, <1>8

(* No step of the host changes an outcome, revives a pod or touches any but *)
(* the last record.                                                         *)
HostMoves ==
  /\ RecMoves
  /\ calls' \in Seq(CallRecord) /\ Len(calls') >= Len(calls)
  /\ \A d \in 1..Len(calls') : calls'[d].at = "running" => calls'[d].rec \in 1..Len(rec')
  /\ outcome' \in Seq({"pending", "ok", "error", "timeout"}) /\ Len(outcome') = Len(calls')
  /\ \A d \in 1..Len(calls) : outcome[d] # "pending" => outcome'[d] = outcome[d]

LEMMA OutcomeSet ==
  ASSUME HostTypeOK, NEW k \in 1..Len(calls), NEW v \in {"pending", "ok", "error", "timeout"},
         outcome' = [outcome EXCEPT ![k] = v], outcome[k] = "pending" \/ v = outcome[k]
  PROVE  /\ outcome' \in Seq({"pending", "ok", "error", "timeout"}) /\ Len(outcome') = Len(outcome)
         /\ \A d \in 1..Len(calls) : outcome[d] # "pending" => outcome'[d] = outcome[d]
<1>1. outcome \in Seq({"pending", "ok", "error", "timeout"}) /\ k \in 1..Len(outcome) /\ Len(outcome) = Len(calls)
  BY DEF HostTypeOK
<1> QED BY <1>1, ExceptSeq

LEMMA HostStep ==
  ASSUME HostInv, [Host!Next]_host
  PROVE  HostMoves
<1>1. /\ HostTypeOK /\ calls \in Seq(CallRecord) /\ Len(calls) \in Nat /\ rec \in Seq(HostStates) /\ Len(rec) \in Nat
      /\ outcome \in Seq({"pending", "ok", "error", "timeout"}) /\ Len(outcome) = Len(calls)
      /\ \A d \in 1..Len(calls) : calls[d].at = "running" => calls[d].rec \in 1..Len(rec)
  BY DEF HostInv, HostTypeOK
<1>2. ASSUME NEW v \in Host!Verbs, Host!Call(v) PROVE HostMoves
  <2>1. /\ calls' = Append(calls, [verb |-> v, at |-> "sent", rec |-> 0]) /\ outcome' = Append(outcome, "pending")
        /\ rec' = rec
    BY <1>2 DEF Host!Call
  <2>2. [verb |-> v, at |-> "sent", rec |-> 0] \in CallRecord
    BY DEF CallRecord, Stages
  <2>3. /\ calls' \in Seq(CallRecord) /\ Len(calls') = Len(calls) + 1
        /\ \A d \in 1..Len(calls) : calls'[d] = calls[d]
        /\ calls'[Len(calls) + 1].at = "sent"
    BY <1>1, <2>1, <2>2, AppendProperties
  <2>4. /\ outcome' \in Seq({"pending", "ok", "error", "timeout"}) /\ Len(outcome') = Len(calls) + 1
        /\ \A d \in 1..Len(calls) : outcome'[d] = outcome[d]
    BY <1>1, <2>1, AppendProperties
  <2>5. \A d \in 1..Len(calls') : calls'[d].at = "running" => calls'[d].rec \in 1..Len(rec')
    BY <1>1, <2>1, <2>3
  <2> QED BY <1>1, <2>1, <2>3, <2>4, <2>5 DEF HostMoves, RecMoves
<1>3. ASSUME NEW k \in 1..Len(calls), RecMoves, CallGoes(k), outcome' = outcome PROVE HostMoves
  BY <1>1, <1>3, CallKeeps DEF HostMoves
<1>4. ASSUME NEW k \in 1..Len(calls), Host!Gate(k) PROVE HostMoves
  <2>1. rec' = rec /\ outcome' = outcome /\ (Goes(k, "error") \/ Goes(k, "dispatch"))
    BY <1>4 DEF Host!Gate, Host!At, Goes
  <2>2. RecMoves /\ CallGoes(k)
    BY <2>1 DEF RecMoves, CallGoes, Stages
  <2> QED BY <1>3, <2>1, <2>2
<1>5. ASSUME NEW k \in 1..Len(calls), Host!Dispatch(k) PROVE HostMoves
  BY <1>3, <1>5, DispatchMoves
<1>6. ASSUME NEW k \in 1..Len(calls), Host!ExecEnds(k) PROVE HostMoves
  <2>0. PICK r \in 1..Len(rec) : r = calls[k].rec
    BY <1>1, <1>6 DEF Host!ExecEnds
  <2>1. outcome' = outcome /\ (Goes(k, "ok") \/ Goes(k, "error"))
    BY <1>1, <1>6 DEF Host!ExecEnds, Host!At, Goes
  <2>2. \/ rec' = rec
        \/ rec' = [rec EXCEPT ![r] = "registered"] /\ rec[r] # "gone"
    BY <1>6, <2>0 DEF Host!ExecEnds, Host!SetRec, Host!CanTransition
  <2>3. rec[r] # "gone" => r = Len(rec)
    BY DEF HostInv, Host!OnePodPerName, Host!Cur
  <2>4. RecMoves
    <3>1. CASE rec' = rec
      BY <3>1 DEF RecMoves
    <3>2. CASE rec' = [rec EXCEPT ![r] = "registered"] /\ rec[r] # "gone"
      <4>1. r = Len(rec) /\ Len(rec) > 0
        BY <1>1, <2>3, <3>2
      <4>2. LastBecomes("registered") /\ "registered" \in HostStates
        BY <3>2, <4>1 DEF LastBecomes, HostStates
      <4> QED BY <4>2 DEF RecMoves
    <3> QED BY <2>2, <3>1, <3>2
  <2>5. CallGoes(k)
    BY <2>1 DEF CallGoes, Stages
  <2> QED BY <1>3, <2>1, <2>4, <2>5
<1>7. ASSUME NEW k \in 1..Len(calls), Host!Respond(k) PROVE HostMoves
  <2>1. /\ calls' = [calls EXCEPT ![k].at = "answered"] /\ rec' = rec /\ calls[k].at \in {"ok", "error"}
        /\ outcome' = [outcome EXCEPT ![k] = IF outcome[k] = "pending" THEN calls[k].at ELSE outcome[k]]
    BY <1>1, <1>7 DEF Host!Respond
  <2>2. /\ outcome' \in Seq({"pending", "ok", "error", "timeout"}) /\ Len(outcome') = Len(outcome)
        /\ \A d \in 1..Len(calls) : outcome[d] # "pending" => outcome'[d] = outcome[d]
    <3>1. outcome[k] \in {"pending", "ok", "error", "timeout"}
      BY <1>1, ElementOfSeq
    <3>2. CASE outcome[k] = "pending"
      BY <1>1, <2>1, <3>2, OutcomeSet
    <3>3. CASE outcome[k] # "pending"
      BY <1>1, <2>1, <3>1, <3>3, OutcomeSet
    <3> QED BY <3>2, <3>3
  <2>3. RecMoves /\ CallGoes(k)
    <3>1. Goes(k, "answered")
      BY <2>1 DEF Goes
    <3> QED BY <2>1, <3>1 DEF RecMoves, CallGoes, Stages
  <2> QED BY <1>1, <2>2, <2>3, CallKeeps DEF HostMoves
<1>8. ASSUME NEW k \in 1..Len(calls), Host!Timeout(k) PROVE HostMoves
  <2>1. /\ outcome' = [outcome EXCEPT ![k] = "timeout"] /\ outcome[k] = "pending" /\ rec' = rec /\ calls' = calls
    BY <1>8 DEF Host!Timeout
  <2>2. /\ outcome' \in Seq({"pending", "ok", "error", "timeout"}) /\ Len(outcome') = Len(outcome)
        /\ \A d \in 1..Len(calls) : outcome[d] # "pending" => outcome'[d] = outcome[d]
    BY <1>1, <2>1, OutcomeSet
  <2> QED BY <1>1, <2>1, <2>2 DEF HostMoves, RecMoves
<1>9. CASE Host!Crash
  <2>1. /\ Len(rec) > 0 /\ rec' = [rec EXCEPT ![Len(rec)] = "gone"] /\ calls' = calls /\ outcome' = outcome
    BY <1>9 DEF Host!Crash, Host!Live, Host!Cur, Host!SetRec
  <2>2. RecMoves /\ Len(rec') = Len(rec)
    <3>1. LastBecomes("gone") /\ Len(rec') = Len(rec)
      BY <1>1, <2>1 DEF LastBecomes
    <3> QED BY <3>1 DEF RecMoves, HostStates
  <2> QED BY <1>1, <2>1, <2>2 DEF HostMoves
<1>10. CASE Host!Revoke \/ UNCHANGED host
  <2>1. rec' = rec /\ calls' = calls /\ outcome' = outcome
    BY <1>10 DEF Host!Revoke, host
  <2> QED BY <1>1, <2>1 DEF HostMoves, RecMoves
<1> QED BY <1>2, <1>4, <1>5, <1>6, <1>7, <1>8, <1>9, <1>10 DEF Host!Next, Host!Ids

LEMMA HostKeeps == HostInv /\ [Host!Next]_host => HostInv' /\ Host!EndsAreFinal
<1> SUFFICES ASSUME HostInv, [Host!Next]_host PROVE HostInv' /\ Host!EndsAreFinal
  OBVIOUS
<1>1. HostMoves
  BY HostStep
<1>2. /\ rec' \in Seq(HostStates)
      /\ \A r \in 1..Len(rec') : r # Len(rec') => rec'[r] = "gone"
      /\ \A r \in 1..Len(rec) : rec[r] = "gone" => rec'[r] = "gone"
  BY <1>1, RecKeeps DEF HostMoves
<1>3. HostInv'
  BY <1>1, <1>2 DEF HostMoves, HostInv, HostTypeOK, Host!OnePodPerName, Host!Cur
<1>4. Host!EndsAreFinal
  BY <1>1, <1>2 DEF HostMoves, Host!EndsAreFinal, Host!Ids, Host!Cur
<1> QED BY <1>3, <1>4

(* Pods of a host and of a page, for any number of calls, spawns and names. *)
THEOREM HostsHold == MCSpec => HostsHoldTheirPods
<1>1. MCInit => HostInv /\ PageInv
  <2>1. Host!Init => HostInv
    BY EmptySeq DEF Host!Init, HostInv, HostTypeOK, Host!OnePodPerName
  <2> QED BY <2>1, PageInit DEF MCInit
<1>2. [MCNext]_all => [Host!Next]_host /\ [Host!PageNext]_page
  BY DEF MCNext, all, host, page
<1>3. HostInv /\ PageInv /\ [MCNext]_all => HostInv' /\ PageInv'
  BY <1>2, HostKeeps, PageStep
<1>4. HostInv /\ PageInv' /\ [MCNext]_all => [Host!OnePodPerName /\ Host!EndsAreFinal /\ Host!ChildrenAreHeld']_all
  <2>1. PageInv' => Host!ChildrenAreHeld'
    BY PageSafe, PTL
  <2> QED BY <1>2, <2>1, HostKeeps DEF HostInv
<1> QED BY <1>1, <1>3, <1>4, PTL DEF MCSpec, HostsHoldTheirPods

-----------------------------------------------------------------------------
(* The logs of grants. *)
GrantsInv ==
  /\ DOMAIN log = Grants!Holders /\ DOMAIN effective = Grants!Holders /\ DOMAIN registry = Grants!Holders
  /\ Grants!RegistryFollowsLog

(* Without records nothing is in effect.                                    *)
LEMMA NoRecords == Grants!ComputeEffective({}) = Grants!Nothing
<1> DEFINE f == Grants!Nothing
<1>1. Grants!InOrder({}) = <<>>
  <2>1. Cardinality({}) = 0
    BY FS_EmptySet
  <2> QED BY <2>1 DEF Grants!InOrder
<1>2. DOMAIN <<>> = {}
  OBVIOUS
<1>3. \E g : g = [s \in SUBSET {} |-> IF s = {} THEN Grants!Nothing
                                      ELSE Grants!Apply(g[s \ {Grants!Max(s)}], <<>>[Grants!Max(s)])]
  <2> DEFINE g == [s \in SUBSET {} |-> Grants!Nothing]
  <2>1. g = [s \in SUBSET {} |-> IF s = {} THEN Grants!Nothing
                                 ELSE Grants!Apply(g[s \ {Grants!Max(s)}], <<>>[Grants!Max(s)])]
    OBVIOUS
  <2> QED BY <2>1
<1>4. Grants!FoldLeft(Grants!Apply, Grants!Nothing, <<>>) = Grants!Nothing
  BY <1>2, <1>3 DEF Grants!FoldLeft, Grants!MapThenFoldSet
<1> QED BY <1>1, <1>4 DEF Grants!ComputeEffective

LEMMA GrantsInit == Grants!Init => GrantsInv
<1>1. Grants!Nothing.grants = {}
  BY DEF Grants!Nothing
<1> QED BY <1>1, NoRecords DEF Grants!Init, GrantsInv, Grants!RegistryFollowsLog

LEMMA ReplayFollows ==
  ASSUME GrantsInv, NEW p \in Grants!Holders, NEW records, Grants!Replay(p, records)
  PROVE  GrantsInv'
<1> DEFINE new == Grants!ComputeEffective(records)
           old == Grants!ComputeEffective(log[p])
<1>1. registry[p] = old.grants /\ effective[p] = old
  BY DEF GrantsInv, Grants!RegistryFollowsLog
<1>2. /\ DOMAIN log' = Grants!Holders /\ DOMAIN effective' = Grants!Holders
      /\ DOMAIN registry' = Grants!Holders
      /\ log'[p] = records /\ effective'[p] = new
      /\ registry'[p] = (registry[p] \cup (new.grants \ effective[p].grants)) \ (effective[p].grants \ new.grants)
      /\ \A q \in Grants!Holders : q # p =>
           log'[q] = log[q] /\ effective'[q] = effective[q] /\ registry'[q] = registry[q]
  BY DEF GrantsInv, Grants!Replay
<1> HIDE DEF new, old
<1>3. registry'[p] = new.grants
  BY <1>1, <1>2
<1>4. ASSUME NEW q \in Grants!Holders
      PROVE  registry'[q] = Grants!ComputeEffective(log'[q]).grants /\ effective'[q] = Grants!ComputeEffective(log'[q])
  <2>1. CASE q = p
    BY <1>2, <1>3, <2>1 DEF new
  <2>2. CASE q # p
    BY <1>2, <2>2 DEF GrantsInv, Grants!RegistryFollowsLog
  <2> QED BY <2>1, <2>2
<1> QED BY <1>2, <1>4 DEF GrantsInv, Grants!RegistryFollowsLog, Grants!ComputeEffective

LEMMA GrantsStep == GrantsInv /\ [Grants!Next]_grants => GrantsInv'
<1> SUFFICES ASSUME GrantsInv, [Grants!Next]_grants PROVE GrantsInv'
  OBVIOUS
<1>1. CASE <<log, effective, registry>>' = <<log, effective, registry>>
  BY <1>1 DEF GrantsInv, Grants!RegistryFollowsLog, Grants!ComputeEffective
<1>2. ASSUME NEW p \in Grants!Holders, NEW who, NEW scope, NEW action, Grants!Issue(p, who, scope, action)
      PROVE  GrantsInv'
  BY <1>2, ReplayFollows DEF Grants!Issue
<1>3. CASE \E p, q \in Grants!Holders : Grants!MergeRemote(q, p)
  BY <1>3, ReplayFollows DEF Grants!MergeRemote
<1>4. CASE \E p \in Grants!Holders : Grants!BootstrapAdmin(p)
  BY <1>2, <1>4 DEF Grants!BootstrapAdmin
<1>5. CASE \E p, q \in Grants!Holders, s \in {"admin", "read"} : Grants!Grant(p, q, s) \/ Grants!Revoke(p, q, s)
  BY <1>2, <1>5 DEF Grants!Grant, Grants!Revoke
<1>6. CASE Grants!Steps
  BY <1>1, <1>6 DEF Grants!Steps, Grants!AnnounceToAdmins, Grants!HandleAnnounce, Grants!HandleDeliver, Grants!logs
<1> QED BY <1>1, <1>3, <1>4, <1>5, <1>6 DEF Grants!Next, grants

-----------------------------------------------------------------------------
(* A non-empty set of numbers has a least member.                           *)
LEMMA LeastNat ==
  ASSUME NEW S \in SUBSET Nat, S # {}
  PROVE  \E x \in S : \A y \in S : x =< y
<1>1. PICK x \in S : \A y \in S : ~ (<<y, x>> \in OpToRel(<, Nat))
  BY WFMin, NatLessThanWellFounded, Zenon
<1>2. \A y \in S : ~ (y < x)
  BY <1>1 DEF OpToRel
<1> QED BY <1>2

(* What loads and appends do to the members of a sequence.                  *)
LEMMA AppendedEntry ==
  ASSUME NEW s, s \in Seq(Audit!ToSet(s)), NEW e
  PROVE  /\ Append(s, e) \in Seq(Audit!ToSet(Append(s, e)))
         /\ Len(Append(s, e)) = Len(s) + 1 /\ Len(s) \in Nat
         /\ DOMAIN Append(s, e) = 1..(Len(s) + 1) /\ DOMAIN s = 1..Len(s)
         /\ \A i \in DOMAIN Append(s, e) :
              Append(s, e)[i] = IF i = Len(s) + 1 THEN e ELSE s[i]
<1> DEFINE t == Append(s, e)
           S == Audit!ToSet(s)
<1>1. t \in Seq(S \cup {e}) /\ s \in Seq(S \cup {e})
  BY SeqMonotonic
<1>2. /\ Len(t) = Len(s) + 1 /\ Len(s) \in Nat
      /\ DOMAIN t = 1..(Len(s) + 1) /\ DOMAIN s = 1..Len(s)
      /\ \A i \in DOMAIN t : t[i] = IF i = Len(s) + 1 THEN e ELSE s[i]
  BY <1>1
<1>3. t \in Seq(Audit!ToSet(t))
  BY <1>1, <1>2 DEF Audit!ToSet
<1> QED BY <1>2, <1>3

LEMMA AuditInit == Audit!Init => Audit!AuditInv
<1> SUFFICES ASSUME Audit!Init PROVE Audit!AuditInv
  OBVIOUS
<1>1. \A p \in Auditors : chain[p] = <<>> /\ signing[p] = {}
  BY DEF Audit!Init
<1>2. <<>> \in Seq(Audit!ToSet(<<>>)) /\ Len(<<>>) = 0 /\ DOMAIN <<>> = {}
  OBVIOUS
<1>3. Audit!AuditTypeOK
  BY <1>1, <1>2 DEF Audit!Init, Audit!AuditTypeOK
<1>4. Audit!VerifyIsExact
  BY <1>1, <1>2 DEF Audit!Init, Audit!VerifyIsExact, Audit!Verify
<1> QED BY <1>1, <1>2, <1>3, <1>4
        DEF Audit!Init, Audit!AuditInv, Audit!SigningFollows, Audit!CallsDiffer

LEMMA AuditAppend ==
  ASSUME NEW p \in Auditors, Audit!AuditInv, Audit!Append1(p)
  PROVE  Audit!AuditInv'
<1> DEFINE n == Len(chain[p])
           e == Audit!Entry(n, IF n = 0 THEN Audit!Genesis ELSE chain[p][n], appends)
<1>1. /\ DOMAIN signing = Auditors /\ appends \in Nat
      /\ \A q \in Auditors : chain[q] \in Seq(Audit!ToSet(chain[q]))
  BY DEF Audit!AuditInv, Audit!AuditTypeOK
<1>2. n \in Nat /\ Audit!SequenceOf(e) = n /\ Audit!DataOf(e) = appends
      /\ Audit!PreviousHash(e) = IF n = 0 THEN Audit!Genesis ELSE chain[p][n]
  BY <1>1 DEF Audit!Entry, Audit!SequenceOf, Audit!DataOf, Audit!PreviousHash
<1>3. /\ chain' = chain /\ overlapped' = overlapped /\ appends' = appends + 1
      /\ DOMAIN signing' = Auditors
      /\ signing'[p] = signing[p] \cup {e}
      /\ \A q \in Auditors : q # p => signing'[q] = signing[q]
  BY <1>1 DEF Audit!Append1
<1> HIDE DEF e, n
<1>4. \A q \in Auditors : \A f \in signing'[q] : f \in signing[q] \/ (q = p /\ f = e)
  BY <1>3
<1>5. Audit!AuditTypeOK'
  BY <1>1, <1>3 DEF Audit!AuditInv, Audit!AuditTypeOK
<1>6. Audit!SigningFollows'
  BY <1>2, <1>3, <1>4 DEF Audit!AuditInv, Audit!SigningFollows, n
<1>7. Audit!CallsDiffer'
  <2>1. \A x : x \in 0..(appends - 1) => x \in 0..(appends' - 1) /\ x # appends
    BY <1>1, <1>3
  <2>2. appends \in 0..(appends' - 1)
    BY <1>1, <1>3
  <2> QED BY <1>2, <1>3, <1>4, <2>1, <2>2 DEF Audit!AuditInv, Audit!CallsDiffer
<1>8. Audit!VerifyIsExact'
  BY <1>3 DEF Audit!AuditInv, Audit!VerifyIsExact, Audit!Verify
<1> QED BY <1>5, <1>6, <1>7, <1>8 DEF Audit!AuditInv

(* verify() of a longer copy. *)
LEMMA VerifyAppended ==
  ASSUME NEW s, s \in Seq(Audit!ToSet(s)), NEW e
  PROVE  Audit!Verify(Append(s, e)) <=>
           /\ Audit!Verify(s)
           /\ Audit!SequenceOf(e) = Len(s)
           /\ Audit!PreviousHash(e) = IF Len(s) = 0 THEN Audit!Genesis ELSE s[Len(s)]
<1> DEFINE t == Append(s, e)
<1>1. /\ Len(t) = Len(s) + 1 /\ Len(s) \in Nat
      /\ \A i \in 1..(Len(s) + 1) : t[i] = IF i = Len(s) + 1 THEN e ELSE s[i]
  BY AppendedEntry
<1> HIDE DEF t
<1>2. \A i \in 1..Len(s) : t[i] = s[i] /\ (i # 1 => t[i - 1] = s[i - 1])
  BY <1>1
<1>3. t[Len(s) + 1] = e /\ (Len(s) # 0 => t[Len(s)] = s[Len(s)])
  BY <1>1
<1>4. \A i \in 1..Len(t) : i \in 1..Len(s) \/ i = Len(s) + 1
  BY <1>1
<1>5. Len(s) + 1 \in 1..Len(t) /\ 1..Len(s) \subseteq 1..Len(t) /\ Len(s) + 1 - 1 = Len(s)
      /\ (Len(s) + 1 = 1 <=> Len(s) = 0)
  BY <1>1
<1>6. Audit!Verify(t) <=>
        /\ \A i \in 1..Len(s) : /\ Audit!SequenceOf(t[i]) = i - 1
                                /\ Audit!PreviousHash(t[i]) = IF i = 1 THEN Audit!Genesis ELSE t[i - 1]
        /\ Audit!SequenceOf(t[Len(s) + 1]) = Len(s) + 1 - 1
        /\ Audit!PreviousHash(t[Len(s) + 1]) = IF Len(s) + 1 = 1 THEN Audit!Genesis ELSE t[Len(s) + 1 - 1]
  BY <1>4, <1>5 DEF Audit!Verify
<1>7. Audit!Verify(t) <=>
        /\ \A i \in 1..Len(s) : /\ Audit!SequenceOf(s[i]) = i - 1
                                /\ Audit!PreviousHash(s[i]) = IF i = 1 THEN Audit!Genesis ELSE s[i - 1]
        /\ Audit!SequenceOf(e) = Len(s)
        /\ Audit!PreviousHash(e) = IF Len(s) = 0 THEN Audit!Genesis ELSE s[Len(s)]
  BY <1>2, <1>3, <1>5, <1>6
<1> QED BY <1>7 DEF t, Audit!Verify

LEMMA AuditPush ==
  ASSUME NEW p \in Auditors, NEW e, Audit!AuditInv, Audit!Push(p, e)
  PROVE  Audit!AuditInv'
<1> DEFINE s == chain[p]
           t == Append(s, e)
<1>1. /\ DOMAIN signing = Auditors /\ DOMAIN chain = Auditors /\ appends \in Nat
      /\ s \in Seq(Audit!ToSet(s)) /\ overlapped \subseteq Auditors
  BY DEF Audit!AuditInv, Audit!AuditTypeOK
<1>2. /\ t \in Seq(Audit!ToSet(t)) /\ Len(t) = Len(s) + 1 /\ Len(s) \in Nat
      /\ DOMAIN t = 1..(Len(s) + 1) /\ DOMAIN s = 1..Len(s)
      /\ \A i \in DOMAIN t : t[i] = IF i = Len(s) + 1 THEN e ELSE s[i]
  BY <1>1, AppendedEntry
<1>3. /\ e \in signing[p] /\ appends' = appends
      /\ DOMAIN signing' = Auditors /\ DOMAIN chain' = Auditors
      /\ signing'[p] = signing[p] \ {e} /\ chain'[p] = t
      /\ \A q \in Auditors : q # p => signing'[q] = signing[q] /\ chain'[q] = chain[q]
      /\ overlapped' = IF Len(s) = Audit!SequenceOf(e) THEN overlapped ELSE overlapped \cup {p}
  BY <1>1 DEF Audit!Push
<1>4. \A q \in Auditors : signing'[q] \subseteq signing[q] /\ (q = p => e \notin signing'[q])
  BY <1>3
<1> HIDE DEF t
<1>5. Audit!AuditTypeOK'
  BY <1>1, <1>2, <1>3 DEF Audit!AuditInv, Audit!AuditTypeOK
<1>6. Audit!SigningFollows'
  <2>1. ASSUME NEW f \in signing'[p]
        PROVE  /\ Audit!SequenceOf(f) \in 0..Len(t)
               /\ Audit!PreviousHash(f) =
                    IF Audit!SequenceOf(f) = 0 THEN Audit!Genesis ELSE t[Audit!SequenceOf(f)]
    <3>1. /\ Audit!SequenceOf(f) \in 0..Len(s)
          /\ Audit!PreviousHash(f) =
               IF Audit!SequenceOf(f) = 0 THEN Audit!Genesis ELSE s[Audit!SequenceOf(f)]
      BY <1>4, <2>1 DEF Audit!AuditInv, Audit!SigningFollows
    <3> QED BY <1>2, <3>1
  <2> QED BY <1>3, <1>4, <2>1 DEF Audit!AuditInv, Audit!SigningFollows
<1>7. Audit!CallsDiffer'
  <2>1. \A q \in Auditors : \A i \in DOMAIN chain'[q] :
          \/ i \in DOMAIN chain[q] /\ chain'[q][i] = chain[q][i]
          \/ q = p /\ i = Len(s) + 1 /\ chain'[q][i] = e
    BY <1>2, <1>3
  <2>2. /\ Audit!DataOf(e) \in 0..(appends - 1)
        /\ \A q \in Auditors : \A i \in DOMAIN chain[q] : Audit!DataOf(chain[q][i]) # Audit!DataOf(e)
        /\ \A q \in Auditors : \A f \in signing[q] : Audit!DataOf(f) = Audit!DataOf(e) => q = p /\ f = e
    BY <1>3 DEF Audit!AuditInv, Audit!CallsDiffer
  <2>3. \A q \in Auditors : \A f \in signing'[q] : Audit!DataOf(f) # Audit!DataOf(e)
    BY <1>4, <2>2
  <2>4. \A q \in Auditors : \A i, j \in DOMAIN chain'[q] :
          Audit!DataOf(chain'[q][i]) = Audit!DataOf(chain'[q][j]) => i = j
    BY <2>1, <2>2 DEF Audit!AuditInv, Audit!CallsDiffer
  <2>5. /\ \A q \in Auditors : \A f \in signing'[q] : Audit!DataOf(f) \in 0..(appends' - 1)
        /\ \A q \in Auditors : \A i \in DOMAIN chain'[q] : Audit!DataOf(chain'[q][i]) \in 0..(appends' - 1)
    BY <1>3, <1>4, <2>1, <2>2 DEF Audit!AuditInv, Audit!CallsDiffer
  <2>6. \A q, r \in Auditors : \A f \in signing'[q] :
          /\ \A i \in DOMAIN chain'[r] : Audit!DataOf(chain'[r][i]) # Audit!DataOf(f)
          /\ \A g \in signing'[r] : Audit!DataOf(g) = Audit!DataOf(f) => q = r /\ g = f
    BY <1>4, <2>1, <2>3 DEF Audit!AuditInv, Audit!CallsDiffer
  <2> QED BY <2>4, <2>5, <2>6 DEF Audit!CallsDiffer
<1>8. Audit!VerifyIsExact'
  <2>1. Audit!Verify(t) <=> Audit!Verify(s) /\ Audit!SequenceOf(e) = Len(s)
    <3>1. /\ Audit!SequenceOf(e) \in 0..Len(s)
          /\ Audit!PreviousHash(e) =
               IF Audit!SequenceOf(e) = 0 THEN Audit!Genesis ELSE s[Audit!SequenceOf(e)]
      BY <1>3 DEF Audit!AuditInv, Audit!SigningFollows
    <3> QED BY <1>1, <3>1, VerifyAppended DEF t
  <2>2. \A q \in Auditors : Audit!Verify(chain[q]) <=> q \notin overlapped
    BY DEF Audit!AuditInv, Audit!VerifyIsExact
  <2>3. ASSUME NEW q \in Auditors PROVE Audit!Verify(chain'[q]) <=> q \notin overlapped'
    BY <1>3, <2>1, <2>2
  <2> QED BY <2>3 DEF Audit!VerifyIsExact, Audit!Verify
<1> QED BY <1>5, <1>6, <1>7, <1>8 DEF Audit!AuditInv

LEMMA AuditLoad ==
  ASSUME NEW p \in Auditors, NEW q \in Auditors, Audit!AuditInv, Audit!Load(p, q)
  PROVE  Audit!AuditInv'
<1>1. /\ DOMAIN signing = Auditors /\ DOMAIN chain = Auditors /\ overlapped \subseteq Auditors
      /\ signing[p] = {} /\ signing' = signing /\ appends' = appends
      /\ DOMAIN chain' = Auditors /\ chain'[p] = chain[q]
      /\ \A r \in Auditors : r # p => chain'[r] = chain[r]
      /\ overlapped' = IF q \in overlapped THEN overlapped \cup {p} ELSE overlapped \ {p}
  BY DEF Audit!AuditInv, Audit!AuditTypeOK, Audit!Load
<1>2. \A r \in Auditors : \E x \in Auditors : chain'[r] = chain[x]
  BY <1>1
<1>3. Audit!AuditTypeOK'
  BY <1>1 DEF Audit!AuditInv, Audit!AuditTypeOK
<1>4. Audit!SigningFollows'
  BY <1>1 DEF Audit!AuditInv, Audit!SigningFollows
<1>5. Audit!CallsDiffer'
  <2>1. /\ \A r \in Auditors : \A i \in DOMAIN chain'[r] : Audit!DataOf(chain'[r][i]) \in 0..(appends' - 1)
        /\ \A r \in Auditors : \A i, j \in DOMAIN chain'[r] :
             Audit!DataOf(chain'[r][i]) = Audit!DataOf(chain'[r][j]) => i = j
    BY <1>1, <1>2 DEF Audit!AuditInv, Audit!CallsDiffer
  <2>2. \A r, x \in Auditors : \A e \in signing'[r] :
          /\ \A i \in DOMAIN chain'[x] : Audit!DataOf(chain'[x][i]) # Audit!DataOf(e)
          /\ \A f \in signing'[x] : Audit!DataOf(f) = Audit!DataOf(e) => r = x /\ f = e
    BY <1>1, <1>2 DEF Audit!AuditInv, Audit!CallsDiffer
  <2> QED BY <1>1, <2>1, <2>2 DEF Audit!AuditInv, Audit!CallsDiffer
<1>6. Audit!VerifyIsExact'
  <2>1. ASSUME NEW r \in Auditors PROVE Audit!Verify(chain'[r]) <=> r \notin overlapped'
    BY <1>1 DEF Audit!AuditInv, Audit!VerifyIsExact
  <2> QED BY <2>1 DEF Audit!VerifyIsExact, Audit!Verify
<1> QED BY <1>3, <1>4, <1>5, <1>6 DEF Audit!AuditInv

LEMMA AuditStep == Audit!AuditInv /\ [Audit!Next]_audit => Audit!AuditInv'
<1> SUFFICES ASSUME Audit!AuditInv, [Audit!Next]_audit PROVE Audit!AuditInv'
  OBVIOUS
<1>1. CASE UNCHANGED audit
  BY <1>1 DEF audit, Audit!AuditInv, Audit!AuditTypeOK, Audit!SigningFollows, Audit!CallsDiffer,
              Audit!VerifyIsExact, Audit!Verify
<1> QED BY <1>1, AuditAppend, AuditPush, AuditLoad DEF Audit!Next

(* What detectFork() finds in two copies that verify.                       *)
LEMMA ForkedMeans ==
  ASSUME NEW s, s \in Seq(Audit!ToSet(s)), NEW t, t \in Seq(Audit!ToSet(t)),
         Audit!Verify(s), Audit!Verify(t)
  PROVE  /\ Audit!Forked(s \o t) \subseteq Nat
         /\ \A n \in Nat : n \in Audit!Forked(s \o t) <=> n < Len(s) /\ n < Len(t) /\ s[n + 1] # t[n + 1]
<1> DEFINE U == Audit!ToSet(s) \cup Audit!ToSet(t)
<1>1. s \in Seq(U) /\ t \in Seq(U)
  BY SeqMonotonic
<1>2. /\ Len(s) \in Nat /\ DOMAIN s = 1..Len(s) /\ Len(t) \in Nat /\ DOMAIN t = 1..Len(t)
      /\ DOMAIN (s \o t) = 1..(Len(s) + Len(t))
      /\ \A i \in 1..(Len(s) + Len(t)) : (s \o t)[i] = IF i <= Len(s) THEN s[i] ELSE t[i - Len(s)]
  BY <1>1
<1>3. \A x : x \in Audit!ToSet(s \o t) <=> (\E i \in 1..Len(s) : x = s[i]) \/ (\E i \in 1..Len(t) : x = t[i])
  <2>1. \A i \in 1..(Len(s) + Len(t)) : i \in 1..Len(s) \/ (i - Len(s) \in 1..Len(t) /\ ~ (i <= Len(s)))
    BY <1>2
  <2>2. \A i \in 1..Len(s) : i \in 1..(Len(s) + Len(t)) /\ i <= Len(s)
    BY <1>2
  <2>3. \A i \in 1..Len(t) : /\ i + Len(s) \in 1..(Len(s) + Len(t)) /\ ~ (i + Len(s) <= Len(s))
                             /\ i + Len(s) - Len(s) = i
    BY <1>2
  <2>4. \A i \in 1..Len(s) : (s \o t)[i] = s[i]
    BY <1>2, <2>2
  <2>5. \A i \in 1..Len(t) : (s \o t)[i + Len(s)] = t[i]
    BY <1>2, <2>3
  <2>6. \A x : x \in Audit!ToSet(s \o t) <=> \E i \in 1..(Len(s) + Len(t)) : x = (s \o t)[i]
    BY <1>2 DEF Audit!ToSet
  <2>7. \A x : x \in Audit!ToSet(s \o t) => (\E i \in 1..Len(s) : x = s[i]) \/ (\E i \in 1..Len(t) : x = t[i])
    BY <1>2, <2>1, <2>6
  <2>8. \A x : (\E i \in 1..Len(s) : x = s[i]) \/ (\E i \in 1..Len(t) : x = t[i]) => x \in Audit!ToSet(s \o t)
    BY <2>2, <2>3, <2>4, <2>5, <2>6
  <2> QED BY <2>7, <2>8
<1>4. /\ \A i \in 1..Len(s) : i \in Nat /\ i - 1 \in Nat /\ Audit!SequenceOf(s[i]) = i - 1
      /\ \A i \in 1..Len(t) : i \in Nat /\ i - 1 \in Nat /\ Audit!SequenceOf(t[i]) = i - 1
  BY <1>2 DEF Audit!Verify
<1>5. \A n : n \in Audit!Forked(s \o t) <=>
        \E x, y \in Audit!ToSet(s \o t) : y # x /\ Audit!SequenceOf(y) = Audit!SequenceOf(x)
                                          /\ n = Audit!SequenceOf(x)
  BY DEF Audit!Forked
<1>6. Audit!Forked(s \o t) \subseteq Nat
  BY <1>3, <1>4, <1>5
<1>7. ASSUME NEW n \in Nat, n < Len(s), n < Len(t), s[n + 1] # t[n + 1]
      PROVE  n \in Audit!Forked(s \o t)
  <2>1. n + 1 \in 1..Len(s) /\ n + 1 \in 1..Len(t) /\ n + 1 - 1 = n
    BY <1>2, <1>7
  <2> QED BY <1>3, <1>4, <1>5, <1>7, <2>1
<1>8. ASSUME NEW n \in Nat, n \in Audit!Forked(s \o t)
      PROVE  n < Len(s) /\ n < Len(t) /\ s[n + 1] # t[n + 1]
  <2>1. PICK x \in Audit!ToSet(s \o t), y \in Audit!ToSet(s \o t) :
          y # x /\ Audit!SequenceOf(y) = n /\ Audit!SequenceOf(x) = n
    BY <1>5, <1>8
  <2>2. \A z \in Audit!ToSet(s \o t) : Audit!SequenceOf(z) = n =>
          \/ n + 1 \in 1..Len(s) /\ z = s[n + 1]
          \/ n + 1 \in 1..Len(t) /\ z = t[n + 1]
    <3>1. \A i : i \in Nat /\ i - 1 = n => i = n + 1
      OBVIOUS
    <3> QED BY <1>3, <1>4, <3>1
  <2>3. n + 1 \in 1..Len(s) /\ n + 1 \in 1..Len(t) /\ s[n + 1] # t[n + 1]
    BY <2>1, <2>2
  <2> QED BY <1>2, <2>3
<1> QED BY <1>6, <1>7, <1>8

LEMMA ForksFound == Audit!AuditInv => Audit!ForksAreFound
<1> SUFFICES ASSUME Audit!AuditInv, NEW p \in Auditors \ overlapped, NEW q \in Auditors \ overlapped
             PROVE  LET forks == Audit!Forked(chain[p] \o chain[q])
                        agree == {i \in 0..Len(chain[p]) : i =< Len(chain[q])
                                    /\ SubSeq(chain[p], 1, i) = SubSeq(chain[q], 1, i)}
                    IN  IF forks = {} THEN Audit!IsPrefix(chain[p], chain[q]) \/ Audit!IsPrefix(chain[q], chain[p])
                        ELSE \A i \in agree : i =< (CHOOSE s \in forks : \A t \in forks : s =< t)
  BY DEF Audit!ForksAreFound
<1> DEFINE s == chain[p]
           t == chain[q]
           forks == Audit!Forked(s \o t)
<1>1. /\ s \in Seq(Audit!ToSet(s)) /\ t \in Seq(Audit!ToSet(t))
      /\ Audit!Verify(s) /\ Audit!Verify(t)
  BY DEF Audit!AuditInv, Audit!AuditTypeOK, Audit!VerifyIsExact
<1> HIDE DEF s, t
<1>2. /\ forks \subseteq Nat
      /\ \A n \in Nat : n \in forks <=> n < Len(s) /\ n < Len(t) /\ s[n + 1] # t[n + 1]
  BY <1>1, ForkedMeans
<1>3. Len(s) \in Nat /\ Len(t) \in Nat
  BY <1>1
<1> HIDE DEF forks
<1>4. ASSUME NEW u, u \in Seq(Audit!ToSet(u)), NEW m \in 0..Len(u)
      PROVE  /\ SubSeq(u, 1, m) \in Seq(Audit!ToSet(u)) /\ Len(SubSeq(u, 1, m)) = m
             /\ \A i \in 1..m : SubSeq(u, 1, m)[i] = u[i]
  BY <1>4, SubSeqProperties
<1>5. CASE forks = {}
  <2>1. ASSUME NEW m \in Nat, m <= Len(s), m <= Len(t)
        PROVE  SubSeq(s, 1, m) = SubSeq(t, 1, m)
    <3>1. \A i \in 1..m : s[i] = t[i]
      <4>1. ASSUME NEW i \in 1..m PROVE s[i] = t[i]
        <5>1. i - 1 \in Nat /\ i - 1 < Len(s) /\ i - 1 < Len(t) /\ i - 1 + 1 = i
          BY <1>3, <2>1
        <5> QED BY <1>2, <1>5, <5>1
      <4> QED BY <4>1
    <3>2. m \in 0..Len(s) /\ m \in 0..Len(t)
      BY <1>3, <2>1
    <3>3. /\ SubSeq(s, 1, m) \in Seq(Audit!ToSet(s)) /\ Len(SubSeq(s, 1, m)) = m
          /\ SubSeq(t, 1, m) \in Seq(Audit!ToSet(t)) /\ Len(SubSeq(t, 1, m)) = m
          /\ \A i \in 1..m : SubSeq(s, 1, m)[i] = SubSeq(t, 1, m)[i]
      BY <1>1, <1>4, <3>1, <3>2
    <3> QED BY <3>3, SeqEqual
  <2>2. Len(s) <= Len(t) => Audit!IsPrefix(s, t)
    BY <1>3, <2>1 DEF Audit!IsPrefix
  <2>3. Len(t) <= Len(s) => Audit!IsPrefix(t, s)
    BY <1>3, <2>1 DEF Audit!IsPrefix
  <2> QED BY <1>3, <1>5, <2>2, <2>3 DEF forks, s, t
<1>6. CASE forks # {}
  <2> DEFINE least == CHOOSE x \in forks : \A y \in forks : x =< y
  <2>1. \E x \in forks : \A y \in forks : x =< y
    BY <1>2, <1>6, LeastNat
  <2>2. least \in forks
    BY <2>1
  <2> HIDE DEF least
  <2>3. ASSUME NEW i \in 0..Len(s), i =< Len(t), SubSeq(s, 1, i) = SubSeq(t, 1, i)
        PROVE  i =< least
    <3>1. i \in 0..Len(t) /\ least \in Nat
      BY <1>2, <1>3, <2>2, <2>3
    <3>2. SUFFICES ASSUME ~ (i =< least) PROVE FALSE
      OBVIOUS
    <3>3. least + 1 \in 1..i
      BY <3>1, <3>2
    <3>4. s[least + 1] = t[least + 1]
      BY <1>1, <1>4, <2>3, <3>1, <3>3
    <3> QED BY <1>2, <2>2, <3>4
  <2> QED BY <1>6, <2>3 DEF forks, s, t, least
<1> QED BY <1>5, <1>6

(* The same, as it is used: what fails somewhere fails somewhere first.     *)
LEMMA FirstFailure ==
  ASSUME NEW S \in SUBSET Nat, S # {}, 0 \notin S
  PROVE  \E x \in S : x - 1 \in Nat /\ x - 1 \notin S
<1>1. PICK x \in S : \A y \in S : x =< y
  BY LeastNat
<1> QED BY <1>1

LEMMA UpOf ==
  ASSUME NEW s, Len(s) \in Nat
  PROVE  LET n == (Len(s) + 1) \div 2 IN
         /\ n \in Nat /\ (2 * n = Len(s) \/ 2 * n = Len(s) + 1)
         /\ Len(Audit!Up(s)) = n
         /\ \A i \in 1..n : Audit!Up(s)[i] = <<"node", s[2 * i - 1], Audit!Sibling(s, 2 * i - 1)>>
<1> DEFINE n == (Len(s) + 1) \div 2
           e(i) == <<"node", s[2 * i - 1], Audit!Sibling(s, 2 * i - 1)>>
           u == [i \in 1..n |-> e(i)]
<1>1. n \in Nat /\ (2 * n = Len(s) \/ 2 * n = Len(s) + 1)
  OBVIOUS
<1>2. Audit!Up(s) = u
  BY DEF Audit!Up
<1> HIDE DEF n
<1> DEFINE E == {e(i) : i \in 1..n}
<1>3. u \in [1..n -> E]
  OBVIOUS
<1>4. Len(u) = n
  <2>1. u \in Seq(E)
    BY <1>1, <1>3, SeqDef, ZenonT(60)
  <2> QED BY <1>1, <1>3, <2>1
<1> QED BY <1>1, <1>2, <1>4 DEF n

LEMMA LayersUnfold ==
  ASSUME NEW s, Len(s) \in Nat
  PROVE  /\ Audit!Layers(s)[0] = s
         /\ \A n \in 1..Len(s) : Audit!Layers(s)[n] = Audit!Up(Audit!Layers(s)[n - 1])
<1> DEFINE Defined(m) == \E f : f = [n \in 0..m |-> IF n = 0 THEN s ELSE Audit!Up(f[n - 1])]
           S == {m \in Nat : ~ Defined(m)}
<1>1. Defined(0)
  <2> DEFINE f == [n \in 0..0 |-> s]
  <2>1. f = [n \in 0..0 |-> IF n = 0 THEN s ELSE Audit!Up(f[n - 1])]
    OBVIOUS
  <2> QED BY <2>1
<1>2. ASSUME NEW m \in Nat, m - 1 \in Nat, Defined(m - 1) PROVE Defined(m)
  <2>1. PICK f : f = [n \in 0..(m - 1) |-> IF n = 0 THEN s ELSE Audit!Up(f[n - 1])]
    BY <1>2
  <2> DEFINE g == [n \in 0..m |-> IF n = 0 THEN s ELSE Audit!Up(f[n - 1])]
  <2>2. \A n \in 0..(m - 1) : g[n] = f[n]
    <3>1. \A n \in 0..(m - 1) : f[n] = IF n = 0 THEN s ELSE Audit!Up(f[n - 1])
      BY <2>1
    <3> QED BY <3>1
  <2>3. \A n \in 0..m : n # 0 => n - 1 \in 0..(m - 1)
    OBVIOUS
  <2>4. \A n \in 0..m : n # 0 => g[n - 1] = f[n - 1]
    BY <2>2, <2>3
  <2>5. g = [n \in 0..m |-> IF n = 0 THEN s ELSE Audit!Up(g[n - 1])]
    BY <2>4
  <2> QED BY <2>5
<1>3. Defined(Len(s))
  <2>1. CASE S = {}
    BY <2>1
  <2>2. CASE S # {}
    BY <1>1, <1>2, <2>2, FirstFailure
  <2> QED BY <2>1, <2>2
<1> DEFINE L == Audit!Layers(s)
<1>4. L = [n \in 0..Len(s) |-> IF n = 0 THEN s ELSE Audit!Up(L[n - 1])]
  BY <1>3 DEF Audit!Layers
<1> HIDE DEF L
<1>5. 0 \in 0..Len(s) /\ \A n \in 1..Len(s) : n \in 0..Len(s) /\ n # 0
  OBVIOUS
<1> QED BY <1>4, <1>5 DEF L

(* The layers shrink to one node. *)
LEMMA LayerLens ==
  ASSUME NEW s, Len(s) \in Nat \ {0}
  PROVE  \A k \in 0..Len(s) :
           LET n == Len(Audit!Layers(s)[k]) IN
           n \in Nat \ {0} /\ (n = 1 \/ n + k =< Len(s))
<1> DEFINE n(k) == Len(Audit!Layers(s)[k])
           Shrinks(k) == n(k) \in Nat \ {0} /\ (n(k) = 1 \/ n(k) + k =< Len(s))
           S == {k \in 0..Len(s) : ~ Shrinks(k)}
<1>1. Shrinks(0)
  BY LayersUnfold
<1>2. ASSUME NEW k \in 1..Len(s), Shrinks(k - 1) PROVE Shrinks(k)
  <2>1. n(k - 1) \in Nat \ {0} /\ (n(k - 1) = 1 \/ n(k - 1) + (k - 1) =< Len(s))
    BY <1>2
  <2>2. Audit!Layers(s)[k] = Audit!Up(Audit!Layers(s)[k - 1])
    BY LayersUnfold
  <2>3. n(k) \in Nat /\ (2 * n(k) = n(k - 1) \/ 2 * n(k) = n(k - 1) + 1)
    BY <2>1, <2>2, UpOf
  <2> HIDE DEF n
  <2>4. n(k) \in Nat \ {0} /\ (n(k) = 1 \/ n(k) + k =< Len(s))
    BY <2>1, <2>3
  <2> QED BY <2>4
<1>3. S \in SUBSET Nat /\ 0 \notin S
  BY <1>1
<1> HIDE DEF n, Shrinks
<1>4. S = {}
  <2> SUFFICES ASSUME S # {} PROVE FALSE
    OBVIOUS
  <2>1. PICK k \in S : k - 1 \in Nat /\ k - 1 \notin S
    BY <1>3, FirstFailure
  <2>2. k \in 1..Len(s) /\ k - 1 \in 0..Len(s)
    BY <2>1
  <2> QED BY <1>2, <2>1, <2>2
<1> QED BY <1>4 DEF n, Shrinks

LEMMA HeightIs ==
  ASSUME NEW s, Len(s) \in Nat \ {0}
  PROVE  Audit!Height(s) \in 0..Len(s) /\ Len(Audit!Layers(s)[Audit!Height(s)]) = 1
<1> DEFINE n(k) == Len(Audit!Layers(s)[k])
           S == {k \in 0..Len(s) : n(k) = 1}
<1>1. \A k \in 0..Len(s) : n(k) \in Nat \ {0} /\ (n(k) = 1 \/ n(k) + k =< Len(s))
  BY LayerLens
<1> HIDE DEF n
<1>2. Len(s) \in S
  BY <1>1
<1> HIDE DEF S
<1>3. PICK x \in S : \A y \in S : x =< y
  <2>1. S \in SUBSET Nat /\ S # {}
    BY <1>2 DEF S
  <2> QED BY <2>1, LeastNat
<1>4. x \in 0..Len(s) /\ n(x) = 1 /\ \A m \in 0..(x - 1) : n(m) > 1
  <2>1. /\ x \in 0..Len(s) /\ n(x) = 1
        /\ \A y \in 0..Len(s) : n(y) = 1 => x =< y
    BY <1>3 DEF S
  <2>2. \A m \in 0..(x - 1) : m \in 0..Len(s) /\ ~ (x =< m)
    BY <2>1
  <2>3. \A m \in Nat \ {0} : m # 1 => m > 1
    OBVIOUS
  <2> QED BY <1>1, <2>1, <2>2, <2>3
<1> QED BY <1>4 DEF n, Audit!Height

LEMMA IndicesUnfold ==
  ASSUME NEW s, Len(s) \in Nat, NEW i
  PROVE  /\ Audit!Indices(s, i)[0] = i
         /\ \A n \in 1..Len(s) : Audit!Indices(s, i)[n] = (Audit!Indices(s, i)[n - 1] + 1) \div 2
<1> DEFINE Defined(m) == \E f : f = [n \in 0..m |-> IF n = 0 THEN i ELSE (f[n - 1] + 1) \div 2]
           S == {m \in Nat : ~ Defined(m)}
<1>1. Defined(0)
  <2> DEFINE f == [n \in 0..0 |-> i]
  <2>1. f = [n \in 0..0 |-> IF n = 0 THEN i ELSE (f[n - 1] + 1) \div 2]
    OBVIOUS
  <2> QED BY <2>1
<1>2. ASSUME NEW m \in Nat, m - 1 \in Nat, Defined(m - 1) PROVE Defined(m)
  <2>1. PICK f : f = [n \in 0..(m - 1) |-> IF n = 0 THEN i ELSE (f[n - 1] + 1) \div 2]
    BY <1>2
  <2> DEFINE g == [n \in 0..m |-> IF n = 0 THEN i ELSE (f[n - 1] + 1) \div 2]
  <2>2. \A n \in 0..(m - 1) : g[n] = f[n]
    <3>1. \A n \in 0..(m - 1) : f[n] = IF n = 0 THEN i ELSE (f[n - 1] + 1) \div 2
      BY <2>1
    <3> QED BY <3>1
  <2>3. \A n \in 0..m : n # 0 => n - 1 \in 0..(m - 1)
    OBVIOUS
  <2>4. \A n \in 0..m : n # 0 => g[n - 1] = f[n - 1]
    BY <2>2, <2>3
  <2>5. g = [n \in 0..m |-> IF n = 0 THEN i ELSE (g[n - 1] + 1) \div 2]
    BY <2>4
  <2> QED BY <2>5
<1>3. Defined(Len(s))
  <2>1. CASE S = {}
    BY <2>1
  <2>2. CASE S # {}
    BY <1>1, <1>2, <2>2, FirstFailure
  <2> QED BY <2>1, <2>2
<1> DEFINE at == Audit!Indices(s, i)
<1>4. at = [n \in 0..Len(s) |-> IF n = 0 THEN i ELSE (at[n - 1] + 1) \div 2]
  BY <1>3 DEF Audit!Indices
<1> HIDE DEF at
<1>5. 0 \in 0..Len(s) /\ \A n \in 1..Len(s) : n \in 0..Len(s) /\ n # 0
  OBVIOUS
<1> QED BY <1>4, <1>5 DEF at

LEMMA ClimbUnfold ==
  ASSUME NEW leaf, NEW proof, Len(proof) \in Nat
  PROVE  /\ Audit!Climb(leaf, proof)[0] = leaf
         /\ \A n \in 1..Len(proof) :
              Audit!Climb(leaf, proof)[n] = Audit!Join(Audit!Climb(leaf, proof)[n - 1], proof[n])
<1> DEFINE Defined(m) == \E f : f = [n \in 0..m |-> IF n = 0 THEN leaf ELSE Audit!Join(f[n - 1], proof[n])]
           S == {m \in Nat : ~ Defined(m)}
<1>1. Defined(0)
  <2> DEFINE f == [n \in 0..0 |-> leaf]
  <2>1. f = [n \in 0..0 |-> IF n = 0 THEN leaf ELSE Audit!Join(f[n - 1], proof[n])]
    OBVIOUS
  <2> QED BY <2>1
<1>2. ASSUME NEW m \in Nat, m - 1 \in Nat, Defined(m - 1) PROVE Defined(m)
  <2>1. PICK f : f = [n \in 0..(m - 1) |-> IF n = 0 THEN leaf ELSE Audit!Join(f[n - 1], proof[n])]
    BY <1>2
  <2> DEFINE g == [n \in 0..m |-> IF n = 0 THEN leaf ELSE Audit!Join(f[n - 1], proof[n])]
  <2>2. \A n \in 0..(m - 1) : g[n] = f[n]
    <3>1. \A n \in 0..(m - 1) : f[n] = IF n = 0 THEN leaf ELSE Audit!Join(f[n - 1], proof[n])
      BY <2>1
    <3> QED BY <3>1
  <2>3. \A n \in 0..m : n # 0 => n - 1 \in 0..(m - 1)
    OBVIOUS
  <2>4. \A n \in 0..m : n # 0 => g[n - 1] = f[n - 1]
    BY <2>2, <2>3
  <2>5. g = [n \in 0..m |-> IF n = 0 THEN leaf ELSE Audit!Join(g[n - 1], proof[n])]
    BY <2>4
  <2> QED BY <2>5
<1>3. Defined(Len(proof))
  <2>1. CASE S = {}
    BY <2>1
  <2>2. CASE S # {}
    BY <1>1, <1>2, <2>2, FirstFailure, ZenonT(60)
  <2> QED BY <2>1, <2>2
<1> DEFINE h == Audit!Climb(leaf, proof)
<1>4. h = [n \in 0..Len(proof) |-> IF n = 0 THEN leaf ELSE Audit!Join(h[n - 1], proof[n])]
  BY <1>3 DEF Audit!Climb
<1> HIDE DEF h
<1>5. 0 \in 0..Len(proof) /\ \A n \in 1..Len(proof) : n \in 0..Len(proof) /\ n # 0
  OBVIOUS
<1> QED BY <1>4, <1>5 DEF h

(* The path from an entry to the root. *)
LEMMA ProofOf ==
  ASSUME NEW s, Len(s) \in Nat \ {0}, NEW i \in 1..Len(s)
  PROVE  /\ Audit!Height(s) \in 0..Len(s)
         /\ Len(Audit!MerkleProof(s, i)) = Audit!Height(s)
         /\ \A k \in 0..Audit!Height(s) :
              Audit!Indices(s, i)[k] \in 1..Len(Audit!Layers(s)[k])
         /\ \A k \in 1..Audit!Height(s) :
              /\ Audit!Indices(s, i)[k] = (Audit!Indices(s, i)[k - 1] + 1) \div 2
              /\ Audit!Join(Audit!Layers(s)[k - 1][Audit!Indices(s, i)[k - 1]], Audit!MerkleProof(s, i)[k])
                   = Audit!Layers(s)[k][Audit!Indices(s, i)[k]]
<1> DEFINE H == Audit!Height(s)
           L(k) == Audit!Layers(s)[k]
           at(k) == Audit!Indices(s, i)[k]
           p == Audit!MerkleProof(s, i)
           S == {k \in 0..H : at(k) \notin 1..Len(L(k))}
<1>1. H \in 0..Len(s) /\ H \in Nat
  BY HeightIs
<1>2. L(0) = s /\ at(0) = i /\ \A k \in 1..H : L(k) = Audit!Up(L(k - 1)) /\ at(k) = (at(k - 1) + 1) \div 2
  BY <1>1, LayersUnfold, IndicesUnfold
<1>3. \A k \in 0..H : Len(L(k)) \in Nat
  BY <1>1, LayerLens
<1>4. /\ Len(p) = H
      /\ \A k \in 1..H : p[k] = IF at(k - 1) % 2 = 1 THEN <<"right", Audit!Sibling(L(k - 1), at(k - 1))>>
                                ELSE <<"left", L(k - 1)[at(k - 1) - 1]>>
  <2> DEFINE e(k) == IF at(k - 1) % 2 = 1 THEN <<"right", Audit!Sibling(L(k - 1), at(k - 1))>>
                     ELSE <<"left", L(k - 1)[at(k - 1) - 1]>>
             E == {e(k) : k \in 1..H}
  <2>1. p = [k \in 1..H |-> e(k)]
    BY DEF Audit!MerkleProof
  <2> HIDE DEF p, H, e
  <2>2. p \in [1..H -> E]
    BY <2>1
  <2>3. p \in Seq(E)
    BY <1>1, <2>2, SeqDef
  <2>4. Len(p) = H
    BY <1>1, <2>2, <2>3
  <2> QED BY <2>1, <2>4 DEF e
<1> HIDE DEF p, H, L, at
<1>5. ASSUME NEW k \in 1..H, at(k - 1) \in 1..Len(L(k - 1))
      PROVE  /\ at(k) \in 1..Len(L(k))
             /\ Audit!Join(L(k - 1)[at(k - 1)], p[k]) = L(k)[at(k)]
  <2> DEFINE u == L(k - 1)
             m == at(k - 1)
             n == at(k)
  <2>1. Len(u) \in Nat /\ k - 1 \in 0..H
    BY <1>1, <1>3
  <2>2. L(k) = Audit!Up(u) /\ n = (m + 1) \div 2
    BY <1>2
  <2>3. /\ Len(L(k)) \in Nat /\ (2 * Len(L(k)) = Len(u) \/ 2 * Len(L(k)) = Len(u) + 1)
        /\ \A x \in 1..Len(L(k)) : L(k)[x] = <<"node", u[2 * x - 1], Audit!Sibling(u, 2 * x - 1)>>
    BY <2>1, <2>2, UpOf
  <2>4. p[k] = IF m % 2 = 1 THEN <<"right", Audit!Sibling(u, m)>> ELSE <<"left", u[m - 1]>>
    BY <1>4
  <2>5. m \in 1..Len(u)
    BY <1>5
  <2> HIDE DEF u, m, n
  <2>6. n \in Nat /\ ((m % 2 = 1 /\ m = 2 * n - 1) \/ (m % 2 = 0 /\ m = 2 * n))
    BY <2>1, <2>2, <2>5
  <2>7. n \in 1..Len(L(k))
    BY <2>1, <2>3, <2>5, <2>6
  <2>8. L(k)[n] = <<"node", u[2 * n - 1], Audit!Sibling(u, 2 * n - 1)>>
    BY <2>3, <2>7
  <2>9. CASE m % 2 = 1 /\ m = 2 * n - 1
    <3>1. p[k] = <<"right", Audit!Sibling(u, m)>>
      BY <2>4, <2>9
    <3>2. Audit!Join(u[m], p[k]) = <<"node", u[m], Audit!Sibling(u, m)>>
      BY <3>1 DEF Audit!Join
    <3> QED BY <2>7, <2>8, <2>9, <3>2 DEF u, m, n
  <2>10. CASE m % 2 = 0 /\ m = 2 * n
    <3>1. p[k] = <<"left", u[m - 1]>>
      BY <2>4, <2>10
    <3>2. Audit!Join(u[m], p[k]) = <<"node", u[m - 1], u[m]>>
      BY <3>1 DEF Audit!Join
    <3>3. Audit!Sibling(u, m - 1) = u[m] /\ 2 * n - 1 = m - 1
      BY <2>1, <2>5, <2>6, <2>10 DEF Audit!Sibling
    <3> QED BY <2>7, <2>8, <2>10, <3>2, <3>3 DEF u, m, n
  <2> QED BY <2>6, <2>9, <2>10
<1>6. S = {}
  <2> SUFFICES ASSUME S # {} PROVE FALSE
    OBVIOUS
  <2>1. S \in SUBSET Nat /\ 0 \notin S
    BY <1>1, <1>2
  <2>2. PICK k \in S : k - 1 \in Nat /\ k - 1 \notin S
    BY <2>1, FirstFailure
  <2>3. k \in 1..H /\ k - 1 \in 0..H
    BY <1>1, <2>2
  <2> QED BY <1>5, <2>2, <2>3
<1>7. \A k \in 1..H : k - 1 \in 0..H
  BY <1>1
<1>8. \A k \in 1..H : Audit!Join(L(k - 1)[at(k - 1)], p[k]) = L(k)[at(k)]
  BY <1>5, <1>6, <1>7
<1> QED BY <1>1, <1>2, <1>4, <1>6, <1>8 DEF p, H, L, at

LEMMA ProofHoldsFor ==
  ASSUME NEW s, Len(s) \in Nat \ {0}, NEW i \in 1..Len(s), NEW leaf
  PROVE  Audit!ProofHolds(leaf, Audit!MerkleProof(s, i), Audit!MerkleRoot(s)) <=> leaf = s[i]
<1> DEFINE H == Audit!Height(s)
           p == Audit!MerkleProof(s, i)
           h(k) == Audit!Climb(leaf, p)[k]
           node(k) == Audit!Layers(s)[k][Audit!Indices(s, i)[k]]
<1>1. H \in Nat /\ Len(p) = H /\ \A k \in 1..H : Audit!Join(node(k - 1), p[k]) = node(k)
  BY ProofOf, HeightIs
<1>2. h(0) = leaf /\ \A k \in 1..H : h(k) = Audit!Join(h(k - 1), p[k])
  BY <1>1, ClimbUnfold
<1>3. node(0) = s[i]
  BY LayersUnfold, IndicesUnfold
<1>4. node(H) = Audit!MerkleRoot(s)
  <2>1. H \in 0..H /\ Len(Audit!Layers(s)[H]) = 1
    BY <1>1, HeightIs
  <2>2. \A k \in 0..H : Audit!Indices(s, i)[k] \in 1..Len(Audit!Layers(s)[k])
    BY ProofOf
  <2> HIDE DEF H
  <2>3. Audit!Indices(s, i)[H] \in 1..1
    BY <2>1, <2>2
  <2>4. Audit!Indices(s, i)[H] = 1
    BY <2>3
  <2> QED BY <2>4 DEF Audit!MerkleRoot, H
<1>5. Audit!ProofHolds(leaf, p, Audit!MerkleRoot(s)) <=> node(H) = h(H)
  BY <1>1, <1>4 DEF Audit!ProofHolds
<1>6. \A x, y, z : Audit!Join(x, z) = Audit!Join(y, z) <=> x = y
  BY DEF Audit!Join
<1> HIDE DEF h, node, H, p
<1>7. \A k \in 0..H : node(k) = h(k) <=> leaf = s[i]
  <2> DEFINE S == {k \in 0..H : ~ (node(k) = h(k) <=> leaf = s[i])}
  <2> SUFFICES ASSUME S # {} PROVE FALSE
    OBVIOUS
  <2>1. S \in SUBSET Nat /\ 0 \notin S
    BY <1>2, <1>3
  <2>2. PICK k \in S : k - 1 \in Nat /\ k - 1 \notin S
    BY <2>1, FirstFailure
  <2>3. k \in 1..H /\ k - 1 \in 0..H
    BY <1>1, <2>2
  <2>4. node(k - 1) = h(k - 1) <=> leaf = s[i]
    BY <2>2, <2>3
  <2>5. node(k) = h(k) <=> node(k - 1) = h(k - 1)
    BY <1>1, <1>2, <1>6, <2>3
  <2> QED BY <2>2, <2>4, <2>5
<1> QED BY <1>1, <1>5, <1>7 DEF p

LEMMA ProofsExact == Audit!AuditInv => Audit!ProofsAreExact
<1> SUFFICES ASSUME Audit!AuditInv, NEW p \in Auditors, NEW i \in 1..Len(chain[p]), NEW j \in 1..Len(chain[p])
             PROVE  Audit!ProofHolds(chain[p][j], Audit!MerkleProof(chain[p], i), Audit!MerkleRoot(chain[p])) <=> i = j
  BY DEF Audit!ProofsAreExact
<1>1. chain[p] \in Seq(Audit!ToSet(chain[p]))
  BY DEF Audit!AuditInv, Audit!AuditTypeOK
<1>2. Len(chain[p]) \in Nat \ {0} /\ DOMAIN chain[p] = 1..Len(chain[p])
  BY <1>1
<1>3. chain[p][j] = chain[p][i] => i = j
  BY <1>2 DEF Audit!AuditInv, Audit!CallsDiffer
<1> QED BY <1>2, <1>3, ProofHoldsFor

(* The three logs, for any number of pods, records and entries. *)
THEOREM LogsHold == MCSpec => []LogsAreTrue
<1>1. MCInit => GrantsInv /\ Audit!AuditInv
  BY GrantsInit, AuditInit DEF MCInit
<1>2. [MCNext]_all => [Grants!Next]_grants /\ [Audit!Next]_audit
  BY DEF MCNext, all, grants, audit
<1>3. GrantsInv /\ Audit!AuditInv /\ [MCNext]_all => (GrantsInv /\ Audit!AuditInv)'
  BY <1>2, GrantsStep, AuditStep
<1>4. GrantsInv /\ Audit!AuditInv => LogsAreTrue
  BY ForksFound, ProofsExact DEF LogsAreTrue, GrantsInv, Audit!AuditIsTrue, Audit!AuditInv
<1> QED BY <1>1, <1>3, <1>4, PTL DEF MCSpec

-----------------------------------------------------------------------------
(* No ticks were missed that were not silent. *)
MonitorTypeOK ==
  /\ peers \in Seq(Watched) /\ DOMAIN health = Watched
  /\ missed \in [Watched -> Nat] /\ silent \in [Watched -> 0..MaxMissed]
  /\ settled \subseteq Watched

MonitorInv ==
  /\ MonitorTypeOK
  /\ \A p \in Watched : missed[p] =< silent[p]
  /\ \A p \in Watched : health[p] = "failed" => silent[p] = MaxMissed
  /\ \A p \in settled : health[p] = "failed"

LEMMA MonitorSafe == MonitorInv => Monitor!VerdictsAreEarned
<1> SUFFICES ASSUME MonitorInv PROVE Monitor!VerdictsAreEarned
  OBVIOUS
<1>1. Monitor!ToSet(peers) \subseteq Watched
  BY DEF MonitorInv, MonitorTypeOK, Monitor!ToSet
<1> QED BY <1>1 DEF MonitorInv, Monitor!VerdictsAreEarned

LEMMA MonitorInit == Monitor!Init => MonitorInv
  BY MonitorAssumption DEF Monitor!Init, MonitorInv, MonitorTypeOK

(* A finite set can be listed. *)
LEMMA Listed ==
  ASSUME NEW S, IsFiniteSet(S)
  PROVE  Monitor!SetToSeq(S) \in Seq(S)
<1>1. Cardinality(S) \in Nat /\ ExistsBijection(1..Cardinality(S), S)
  BY FS_CardinalityType
<1>2. PICK f \in [1..Cardinality(S) -> S] : \A x, y \in 1..Cardinality(S) : f[x] = f[y] => x = y
  BY <1>1 DEF ExistsBijection, Bijection, Injection, IsInjective
<1>3. Monitor!IsInjective(f)
  BY <1>2 DEF Monitor!IsInjective
<1>4. Monitor!SetToSeq(S) \in [1..Cardinality(S) -> S]
  <2>1. Monitor!Cardinality(S) = Cardinality(S)
    BY DEF Monitor!Cardinality, Cardinality
  <2> QED BY <1>2, <1>3, <2>1 DEF Monitor!SetToSeq
<1> QED BY <1>1, <1>4, SeqDef

LEMMA TickEarned ==
  ASSUME MonitorInv, NEW live \in SUBSET Watched, Monitor!Tick(live)
  PROVE  MonitorInv'
<1> DEFINE order == peers \o Monitor!SetToSeq(live \ Monitor!ToSet(peers))
           new == [p \in Watched |-> IF p \in Monitor!ToSet(order)
                                     THEN Monitor!NextStatus(health[p], missed[p] + 1) ELSE health[p]]
           failing == {p \in Monitor!ToSet(order) : new[p] = "failed" /\ health[p] # "failed"}
<1>1. /\ peers' = order /\ health' = new
      /\ missed' = [p \in Watched |-> IF p \in Monitor!ToSet(order) THEN Monitor!Capped(missed[p] + 1) ELSE missed[p]]
      /\ silent' = [p \in Watched |-> IF p \in Monitor!ToSet(order) THEN Monitor!Capped(silent[p] + 1) ELSE silent[p]]
      /\ settled' \subseteq settled \cup failing
  BY DEF Monitor!Tick
<1>2. order \in Seq(Watched)
  <2>1. IsFiniteSet(live \ Monitor!ToSet(peers))
    BY MonitorAssumption, FS_Subset
  <2>2. Monitor!SetToSeq(live \ Monitor!ToSet(peers)) \in Seq(Watched)
    BY <2>1, Listed, SeqMonotonic
  <2> QED BY <2>2 DEF MonitorInv, MonitorTypeOK
<1>3. Monitor!ToSet(order) \subseteq Watched
  BY <1>2 DEF Monitor!ToSet
<1> HIDE DEF order
<1>4. MonitorTypeOK'
  <2>1. \A n \in Nat : Monitor!Capped(n) \in Nat /\ Monitor!Capped(n) \in 0..MaxMissed
    BY MonitorAssumption DEF Monitor!Capped
  <2>2. /\ \A p \in Watched : Monitor!Capped(missed[p] + 1) \in Nat
        /\ \A p \in Watched : Monitor!Capped(silent[p] + 1) \in 0..MaxMissed
    <3>1. \A p \in Watched : missed[p] + 1 \in Nat /\ silent[p] + 1 \in Nat
      BY MonitorAssumption DEF MonitorInv, MonitorTypeOK
    <3> QED BY <2>1, <3>1
  <2>3. missed' \in [Watched -> Nat] /\ silent' \in [Watched -> 0..MaxMissed]
    BY <1>1, <2>2 DEF MonitorInv, MonitorTypeOK
  <2>4. settled' \subseteq Watched
    BY <1>1, <1>3 DEF MonitorInv, MonitorTypeOK
  <2> QED BY <1>1, <1>2, <2>3, <2>4 DEF MonitorTypeOK
<1>5. \A p \in Watched : missed'[p] =< silent'[p]
  BY <1>1, MonitorAssumption DEF MonitorInv, MonitorTypeOK, Monitor!Capped
<1>6. \A p \in Watched : health'[p] = "failed" => silent'[p] = MaxMissed
  BY <1>1, MonitorAssumption DEF MonitorInv, MonitorTypeOK, Monitor!Capped, Monitor!NextStatus
<1>7. \A p \in settled' : health'[p] = "failed"
  <2>1. \A p \in settled : p \in Watched /\ health[p] = "failed"
    BY DEF MonitorInv, MonitorTypeOK
  <2>2. \A p \in Watched : health[p] = "failed" => new[p] = "failed"
    BY DEF Monitor!NextStatus
  <2> QED BY <1>1, <2>1, <2>2
<1> QED BY <1>4, <1>5, <1>6, <1>7 DEF MonitorInv

LEMMA MonitorStep == MonitorInv /\ [Monitor!Next]_monitor => MonitorInv'
<1> SUFFICES ASSUME MonitorInv, [Monitor!Next]_monitor PROVE MonitorInv'
  OBVIOUS
<1> USE DEF MonitorInv, MonitorTypeOK
<1>1. CASE \E live \in SUBSET Watched : Monitor!Tick(live)
  BY <1>1, TickEarned
<1>2. ASSUME NEW p \in Watched, NEW slow \in BOOLEAN, Monitor!RecordHeartbeat(p, slow)
      PROVE  MonitorInv'
  <2>1. peers' \in Seq(Watched)
    BY <1>2 DEF Monitor!RecordHeartbeat
  <2> QED BY <1>2, <2>1, MonitorAssumption DEF Monitor!RecordHeartbeat
<1>3. ASSUME NEW p \in Watched, Monitor!ClearHeartbeat(p) PROVE MonitorInv'
  BY <1>3 DEF Monitor!ClearHeartbeat
<1>4. ASSUME NEW p \in Watched, Monitor!Untrack(p) PROVE MonitorInv'
  <2>1. peers' \in Seq(Watched)
    <3> DEFINE i == CHOOSE j \in DOMAIN peers : peers[j] = p
    <3>1. i \in 1..Len(peers)
      <4>1. \E j \in DOMAIN peers : peers[j] = p
        BY <1>4 DEF Monitor!Untrack, Monitor!ToSet
      <4> QED BY <4>1
    <3>2. peers' = SubSeq(peers, 1, i - 1) \o SubSeq(peers, i + 1, Len(peers))
      BY <1>4 DEF Monitor!Untrack, Monitor!RemoveAt
    <3> HIDE DEF i
    <3>3. SubSeq(peers, 1, i - 1) \in Seq(Watched) /\ SubSeq(peers, i + 1, Len(peers)) \in Seq(Watched)
      BY <3>1, SubSeqProperties
    <3> QED BY <3>2, <3>3
  <2> QED BY <1>4, <2>1, MonitorAssumption DEF Monitor!Untrack
<1>5. CASE UNCHANGED <<peers, health, missed, silent, settled>>
  BY <1>5
<1>6. ASSUME Monitor!EnableOrDisable \/ (\E p \in Watched : \E to \in Monitor!Targets(health, Monitor!ToSet(peers), p) : Monitor!MigrateNow(p, to))
             \/ (\E i \in DOMAIN moves : Monitor!Advance(i) \/ Monitor!Ends(i))
      PROVE  UNCHANGED <<peers, health, missed, silent, settled>>
  BY <1>6 DEF Monitor!EnableOrDisable, Monitor!MigrateNow, Monitor!Advance, Monitor!Ends
<1> QED BY <1>1, <1>2, <1>3, <1>4, <1>5, <1>6 DEF Monitor!Next, monitor

-----------------------------------------------------------------------------
(* The supervisor.  A task at the gate has a place there; a task, or a      *)
(* timer, that is to spawn has used up a restart of its pod.                *)
TaskIds == 1..MaxTasks
AtGate == {"spawn", "inplace", "place", "placed", "reschedule"}
ToSpawn == {"schedule", "reschedule", "wait", "spawn", "place"}
Reasons == {"crashed", "host-lost", "drained", "restart-failed"}

Placed == {i \in TaskIds : tasks[i].op \in AtGate}
Spawning(p) == {i \in TaskIds : tasks[i].op \in ToSpawn /\ tasks[i].pod = p}

TaskOK(t) ==
  /\ "op" \in DOMAIN t
  /\ t.op \in {"idle", "register", "exit", "drain"} \cup AtGate \cup ToSpawn
  /\ t.op \notin {"idle", "register"} => "reason" \in DOMAIN t /\ t.reason \in Reasons
  /\ t.op \in AtGate \cup ToSpawn => "pod" \in DOMAIN t
  /\ t.op \in {"wait", "spawn", "inplace", "place", "placed"} => "host" \in DOMAIN t

GateInv ==
  /\ DOMAIN tasks = TaskIds
  /\ \A i \in TaskIds : TaskOK(tasks[i])
  /\ restartQueue \in Seq(TaskIds)
  /\ \A n \in 1..Len(restartQueue) : tasks[restartQueue[n]].op = "wait"
  /\ \A m, n \in 1..Len(restartQueue) : restartQueue[m] = restartQueue[n] => m = n
  /\ active = Cardinality(Placed) /\ active =< MaxConcurrent

SupTypeOK ==
  /\ DOMAIN entry \subseteq {pa, ch}
  /\ \A p \in DOMAIN entry : /\ DOMAIN entry[p] = {"state", "host", "restarts", "spec"}
                            /\ entry[p].restarts \in Nat /\ entry[p].spec.maxRestarts \in Nat
  /\ armed \in [{pa, ch} -> Seq(Reasons)]
  /\ spawned \in [{pa, ch} -> Nat]
  /\ \A e \in exits : e.reason \in Reasons

Spends(p) == spawned[p] + Len(armed[p]) + Cardinality(Spawning(p))
Budget(p) == entry[p].restarts + (IF spawned[p] = 0 THEN 0 ELSE 1)

BudgetInv ==
  \A p \in DOMAIN entry : entry[p].restarts =< entry[p].spec.maxRestarts /\ Spends(p) =< Budget(p)

SupInv == SupTypeOK /\ GateInv /\ BudgetInv

(* A set of tasks that changes at one of them. *)
LEMMA OneChanges ==
  ASSUME NEW A \in SUBSET TaskIds, NEW B \in SUBSET TaskIds, NEW i \in TaskIds,
         \A j \in TaskIds \ {i} : j \in A <=> j \in B
  PROVE  /\ Cardinality(A) \in Nat /\ Cardinality(B) \in Nat
         /\ Cardinality(B) = IF i \in B /\ i \notin A THEN Cardinality(A) + 1
                             ELSE IF i \in A /\ i \notin B THEN Cardinality(A) - 1
                             ELSE Cardinality(A)
<1>1. IsFiniteSet(TaskIds)
  BY SupervisorAssumption, FS_Interval DEF TaskIds
<1>2. IsFiniteSet(A) /\ IsFiniteSet(B)
  BY <1>1, FS_Subset
<1>3. Cardinality(A) \in Nat /\ Cardinality(B) \in Nat
  BY <1>2, FS_CardinalityType
<1>4. CASE i \in B /\ i \notin A
  <2>1. B = A \cup {i}
    BY <1>4
  <2> QED BY <1>2, <1>3, <1>4, <2>1, FS_AddElement
<1>5. CASE i \in A /\ i \notin B
  <2>1. B = A \ {i}
    BY <1>5
  <2> QED BY <1>2, <1>3, <1>5, <2>1, FS_RemoveElement
<1>6. CASE i \in A <=> i \in B
  <2>1. A = B
    BY <1>6
  <2> QED BY <1>3, <1>6, <2>1
<1> QED BY <1>4, <1>5, <1>6

(* What becomes of the counts when the task i moves and others at most go   *)
(* from waiting to spawning.                                                *)
LEMMA PlacedMoves ==
  ASSUME NEW i \in TaskIds,
         \A j \in TaskIds \ {i} : tasks'[j].op \in AtGate <=> tasks[j].op \in AtGate
  PROVE  /\ Cardinality(Placed) \in Nat /\ Cardinality(Placed') \in Nat
         /\ Cardinality(Placed') =
              IF tasks'[i].op \in AtGate /\ tasks[i].op \notin AtGate THEN Cardinality(Placed) + 1
              ELSE IF tasks[i].op \in AtGate /\ tasks'[i].op \notin AtGate THEN Cardinality(Placed) - 1
              ELSE Cardinality(Placed)
<1>1. /\ \A j \in TaskIds \ {i} : j \in Placed <=> j \in Placed'
      /\ i \in Placed <=> tasks[i].op \in AtGate
      /\ i \in Placed' <=> tasks'[i].op \in AtGate
  BY DEF Placed
<1>2. Placed \in SUBSET TaskIds /\ Placed' \in SUBSET TaskIds
  BY DEF Placed
<1> QED BY <1>1, <1>2, OneChanges

LEMMA SpawningMoves ==
  ASSUME NEW i \in TaskIds, NEW p,
         \A j \in TaskIds \ {i} :
           /\ tasks'[j].op \in ToSpawn <=> tasks[j].op \in ToSpawn
           /\ tasks[j].op \in ToSpawn => tasks'[j].pod = tasks[j].pod
  PROVE  LET before == tasks[i].op \in ToSpawn /\ tasks[i].pod = p
             after == tasks'[i].op \in ToSpawn /\ tasks'[i].pod = p
         IN  /\ Cardinality(Spawning(p)) \in Nat /\ Cardinality(Spawning(p)') \in Nat
             /\ Cardinality(Spawning(p)') = IF after /\ ~ before THEN Cardinality(Spawning(p)) + 1
                                            ELSE IF before /\ ~ after THEN Cardinality(Spawning(p)) - 1
                                            ELSE Cardinality(Spawning(p))
<1>1. /\ \A j \in TaskIds \ {i} : j \in Spawning(p) <=> j \in Spawning(p)'
      /\ i \in Spawning(p) <=> (tasks[i].op \in ToSpawn /\ tasks[i].pod = p)
      /\ i \in Spawning(p)' <=> (tasks'[i].op \in ToSpawn /\ tasks'[i].pod = p)
  BY DEF Spawning
<1>2. Spawning(p) \in SUBSET TaskIds /\ Spawning(p)' \in SUBSET TaskIds
  BY DEF Spawning
<1> QED BY <1>1, <1>2, OneChanges

(* A task moves on and neither takes nor gives up a place at the gate. *)
LEMMA GateGoto ==
  ASSUME GateInv, NEW i \in TaskIds, NEW t, TaskOK(t),
         tasks' = [tasks EXCEPT ![i] = t], active' = active, restartQueue' = restartQueue,
         tasks[i].op # "wait", t.op \in AtGate <=> tasks[i].op \in AtGate
  PROVE  GateInv'
<1>1. DOMAIN tasks' = TaskIds /\ tasks'[i] = t /\ \A j \in TaskIds \ {i} : tasks'[j] = tasks[j]
  BY DEF GateInv
<1>2. Cardinality(Placed') = Cardinality(Placed)
  BY <1>1, PlacedMoves
<1>3. \A n \in 1..Len(restartQueue) : restartQueue[n] \in TaskIds \ {i}
  BY DEF GateInv
<1> QED BY <1>1, <1>2, <1>3 DEF GateInv, TaskOK

(* A backoff timer has fired. *)
LEMMA GateFires ==
  ASSUME GateInv, NEW i \in TaskIds, tasks[i].op = "idle", NEW t, TaskOK(t),
         tasks' = [tasks EXCEPT ![i] = t],
         IF active >= MaxConcurrent
         THEN t.op = "wait" /\ restartQueue' = Append(restartQueue, i) /\ active' = active
         ELSE t.op = "spawn" /\ restartQueue' = restartQueue /\ active' = active + 1
  PROVE  GateInv'
<1>1. DOMAIN tasks' = TaskIds /\ tasks'[i] = t /\ \A j \in TaskIds \ {i} : tasks'[j] = tasks[j]
  BY DEF GateInv
<1>2. \A n \in 1..Len(restartQueue) : restartQueue[n] \in TaskIds \ {i}
  BY DEF GateInv
<1>3. /\ Cardinality(Placed) \in Nat
      /\ Cardinality(Placed') = IF t.op \in AtGate THEN Cardinality(Placed) + 1 ELSE Cardinality(Placed)
  BY <1>1, PlacedMoves DEF AtGate
<1>4. CASE active >= MaxConcurrent
  <2>1. /\ restartQueue' \in Seq(TaskIds) /\ Len(restartQueue') = Len(restartQueue) + 1
        /\ restartQueue'[Len(restartQueue) + 1] = i
        /\ \A n \in 1..Len(restartQueue) : restartQueue'[n] = restartQueue[n]
        /\ Len(restartQueue) \in Nat
    BY <1>4 DEF GateInv
  <2>2. \A n \in 1..Len(restartQueue') : n \in 1..Len(restartQueue) \/ n = Len(restartQueue) + 1
    BY <2>1
  <2>3. Cardinality(Placed') = Cardinality(Placed)
    BY <1>3, <1>4 DEF AtGate
  <2>4. \A n \in 1..Len(restartQueue') : tasks'[restartQueue'[n]].op = "wait"
    BY <1>1, <1>2, <1>4, <2>1, <2>2 DEF GateInv
  <2>5. \A m, n \in 1..Len(restartQueue') : restartQueue'[m] = restartQueue'[n] => m = n
    BY <1>2, <2>1, <2>2 DEF GateInv
  <2> QED BY <1>1, <1>4, <2>1, <2>3, <2>4, <2>5 DEF GateInv, TaskOK
<1>5. CASE ~ (active >= MaxConcurrent)
  <2>1. active' = Cardinality(Placed') /\ active' =< MaxConcurrent
    BY <1>3, <1>5, SupervisorAssumption DEF AtGate, GateInv
  <2> QED BY <1>1, <1>2, <1>5, <2>1 DEF GateInv, TaskOK
<1> QED BY <1>4, <1>5

(* A restart ends and hands on its place. *)
LEMMA GateRelease ==
  ASSUME GateInv, NEW i \in TaskIds, tasks[i].op \in AtGate,
         Supervisor!Release([tasks EXCEPT ![i] = Supervisor!Idle])
  PROVE  /\ GateInv'
         /\ tasks'[i] = Supervisor!Idle
         /\ \A j \in TaskIds \ {i} : /\ tasks'[j].op \in ToSpawn <=> tasks[j].op \in ToSpawn
                                     /\ tasks[j].op \in ToSpawn => tasks'[j].pod = tasks[j].pod
<1> DEFINE next == [tasks EXCEPT ![i] = Supervisor!Idle]
<1>1. DOMAIN next = TaskIds /\ next[i] = Supervisor!Idle /\ \A j \in TaskIds \ {i} : next[j] = tasks[j]
  BY DEF GateInv
<1>2. \A n \in 1..Len(restartQueue) : restartQueue[n] \in TaskIds \ {i}
  BY DEF GateInv, AtGate
<1>3. TaskOK(Supervisor!Idle) /\ Supervisor!Idle.op = "idle"
  BY DEF TaskOK, Supervisor!Idle, AtGate, ToSpawn
<1> HIDE DEF next
<1>4. CASE restartQueue = <<>>
  <2>1. active' = active - 1 /\ restartQueue' = restartQueue /\ tasks' = next
    BY <1>4 DEF Supervisor!Release, next
  <2>2. Cardinality(Placed) \in Nat /\ Cardinality(Placed') = Cardinality(Placed) - 1
    BY <1>1, <1>3, <2>1, PlacedMoves DEF AtGate
  <2>3. active' = Cardinality(Placed') /\ active' =< MaxConcurrent
    BY <2>1, <2>2, SupervisorAssumption DEF GateInv
  <2>4. \A j \in TaskIds : TaskOK(tasks'[j])
    BY <1>1, <1>3, <2>1 DEF GateInv
  <2> QED BY <1>1, <1>4, <2>1, <2>3, <2>4 DEF GateInv
<1>5. CASE restartQueue # <<>>
  <2> DEFINE j == Head(restartQueue)
             theirs == entry'[tasks[j].pod].host
  <2>1. /\ restartQueue' = Tail(restartQueue) /\ active' = active
        /\ tasks' = [next EXCEPT ![j].op = "spawn", ![j].host = theirs]
    BY <1>5 DEF Supervisor!Release, next
  <2>2. /\ j = restartQueue[1] /\ Len(restartQueue) \in Nat \ {0} /\ restartQueue' \in Seq(TaskIds)
        /\ Len(restartQueue') = Len(restartQueue) - 1
        /\ \A n \in 1..Len(restartQueue') : restartQueue'[n] = restartQueue[n + 1] /\ n + 1 \in 1..Len(restartQueue)
        /\ 1 \in 1..Len(restartQueue)
    BY <1>5, <2>1 DEF GateInv
  <2>3. j \in TaskIds \ {i} /\ tasks[j].op = "wait" /\ TaskOK(tasks[j])
    BY <1>2, <2>2 DEF GateInv
  <2> HIDE DEF j, theirs
  <2>4. /\ DOMAIN tasks' = TaskIds /\ tasks'[i] = Supervisor!Idle
        /\ tasks'[j] = [tasks[j] EXCEPT !.op = "spawn", !.host = theirs]
        /\ \A k \in TaskIds : k # i /\ k # j => tasks'[k] = tasks[k]
    BY <1>1, <2>1, <2>3
  <2>5. /\ tasks'[j].op = "spawn" /\ tasks'[j].pod = tasks[j].pod /\ TaskOK(tasks'[j])
    BY <2>3, <2>4 DEF TaskOK, AtGate, ToSpawn
  <2>6. active' = Cardinality(Placed') /\ active' =< MaxConcurrent
    <3> DEFINE P == Placed \ {i}
    <3>1. /\ \A k \in TaskIds \ {i} : k \in Placed <=> k \in P
          /\ i \in Placed /\ i \notin P
      BY DEF Placed
    <3>2. P \in SUBSET TaskIds /\ Placed \in SUBSET TaskIds /\ Placed' \in SUBSET TaskIds
      BY DEF Placed
    <3>3. Cardinality(P) = Cardinality(Placed) - 1 /\ Cardinality(Placed) \in Nat
      BY <3>1, <3>2, OneChanges
    <3>4. /\ \A k \in TaskIds \ {j} : k \in P <=> k \in Placed'
          /\ j \in Placed' /\ j \notin P
      BY <1>3, <2>3, <2>4, <2>5 DEF Placed, AtGate
    <3>5. Cardinality(Placed') = Cardinality(P) + 1
      BY <2>3, <3>2, <3>4, OneChanges
    <3> QED BY <2>1, <3>3, <3>5, SupervisorAssumption DEF GateInv
  <2>7. \A n \in 1..Len(restartQueue') : tasks'[restartQueue'[n]].op = "wait"
    <3>1. \A n \in 1..Len(restartQueue') : restartQueue'[n] # j /\ restartQueue'[n] \in TaskIds \ {i}
      BY <1>2, <2>2 DEF GateInv
    <3> QED BY <2>2, <2>4, <3>1 DEF GateInv
  <2>8. \A m, n \in 1..Len(restartQueue') : restartQueue'[m] = restartQueue'[n] => m = n
    <3>1. \A m, n \in 1..Len(restartQueue') : restartQueue'[m] = restartQueue'[n] => m + 1 = n + 1
      BY <2>2 DEF GateInv
    <3> QED BY <2>2, <3>1
  <2>9. \A k \in TaskIds : TaskOK(tasks'[k])
    BY <1>3, <2>4, <2>5 DEF GateInv
  <2>10. GateInv'
    BY <2>2, <2>4, <2>6, <2>7, <2>8, <2>9 DEF GateInv
  <2> QED BY <2>3, <2>4, <2>5, <2>10 DEF ToSpawn
<1> QED BY <1>4, <1>5

Holds(i, p) == IF tasks[i].op \in ToSpawn /\ tasks[i].pod = p THEN 1 ELSE 0

EntriesCount(p, n) ==
  /\ DOMAIN entry' = DOMAIN entry
  /\ \A q \in DOMAIN entry : /\ DOMAIN entry'[q] = DOMAIN entry[q] /\ entry'[q].spec = entry[q].spec
                             /\ entry'[q].restarts = IF q = p THEN entry[q].restarts + n ELSE entry[q].restarts

(* The account of a step of task i. *)
LEMMA BudgetMoves ==
  ASSUME SupInv, SupTypeOK', GateInv', NEW i \in TaskIds, DOMAIN entry' = DOMAIN entry,
         \A j \in TaskIds \ {i} : /\ tasks'[j].op \in ToSpawn <=> tasks[j].op \in ToSpawn
                                  /\ tasks[j].op \in ToSpawn => tasks'[j].pod = tasks[j].pod,
         \A p \in DOMAIN entry :
           /\ entry'[p].restarts =< entry'[p].spec.maxRestarts
           /\ spawned'[p] + Len(armed'[p]) + Holds(i, p)' + Budget(p)
                =< spawned[p] + Len(armed[p]) + Holds(i, p) + Budget(p)'
  PROVE  SupInv'
<1>1. ASSUME NEW p \in DOMAIN entry PROVE Spends(p)' =< Budget(p)'
  <2>1. /\ Cardinality(Spawning(p)) \in Nat /\ Cardinality(Spawning(p)') \in Nat
        /\ Cardinality(Spawning(p)') + Holds(i, p) = Cardinality(Spawning(p)) + Holds(i, p)'
    BY SpawningMoves DEF Holds
  <2>2. /\ spawned[p] \in Nat /\ spawned'[p] \in Nat /\ Len(armed[p]) \in Nat /\ Len(armed'[p]) \in Nat
        /\ entry[p].restarts \in Nat /\ entry'[p].restarts \in Nat
    BY DEF SupInv, SupTypeOK
  <2>3. Budget(p) \in Nat /\ Budget(p)' \in Nat /\ Holds(i, p) \in Nat /\ Holds(i, p)' \in Nat
    BY <2>2 DEF Budget, Holds
  <2> DEFINE x == spawned[p] + Len(armed[p])
             y == spawned'[p] + Len(armed'[p])
  <2>4. x \in Nat /\ y \in Nat /\ x + Cardinality(Spawning(p)) =< Budget(p)
    BY <2>2 DEF SupInv, BudgetInv, Spends
  <2>5. y + Holds(i, p)' + Budget(p) =< x + Holds(i, p) + Budget(p)'
    OBVIOUS
  <2> HIDE DEF x, y
  <2>6. y + Cardinality(Spawning(p)') =< Budget(p)'
    BY <2>1, <2>3, <2>4, <2>5
  <2> QED BY <2>6 DEF Spends, y
<1> QED BY <1>1 DEF SupInv, BudgetInv

LEMMA Shorter ==
  ASSUME NEW s \in Seq(Reasons)
  PROVE  /\ Supervisor!Front(s) \in Seq(Reasons) /\ Len(Supervisor!Front(s)) =< Len(s) /\ Len(s) \in Nat
         /\ \A n \in 1..Len(s) : /\ Supervisor!RemoveAt(s, n) \in Seq(Reasons)
                                 /\ Len(Supervisor!RemoveAt(s, n)) = Len(s) - 1
<1>1. Supervisor!Front(s) \in Seq(Reasons) /\ Len(Supervisor!Front(s)) =< Len(s)
  BY SubSeqProperties DEF Supervisor!Front
<1>2. ASSUME NEW n \in 1..Len(s)
      PROVE  Supervisor!RemoveAt(s, n) \in Seq(Reasons) /\ Len(Supervisor!RemoveAt(s, n)) = Len(s) - 1
  <2> DEFINE x == SubSeq(s, 1, n - 1)
             y == SubSeq(s, n + 1, Len(s))
  <2>1. x \in Seq(Reasons) /\ Len(x) = n - 1 /\ y \in Seq(Reasons) /\ Len(y) = Len(s) - n
    BY SubSeqProperties
  <2>2. Supervisor!RemoveAt(s, n) = x \o y
    BY DEF Supervisor!RemoveAt
  <2> HIDE DEF x, y
  <2>3. x \o y \in Seq(Reasons) /\ Len(x \o y) = Len(x) + Len(y)
    BY <2>1
  <2>4. Len(s) \in Nat
    OBVIOUS
  <2> QED BY <2>1, <2>2, <2>3, <2>4
<1> QED BY <1>1, <1>2

LEMMA StateSets ==
  ASSUME SupTypeOK, NEW p, NEW s, entry' = Supervisor!SetState(p, s)
  PROVE  EntriesCount(p, 0)
BY DEF SupTypeOK, Supervisor!SetState, EntriesCount

LEMMA RestartCounts ==
  ASSUME SupTypeOK, NEW p,
         \/ entry' = [entry EXCEPT ![p].restarts = @ + 1]
         \/ entry' = [entry EXCEPT ![p].restarts = @ + 1, ![p].state = "restarting"],
         ~ Supervisor!OutOfRestarts(p)
  PROVE  /\ EntriesCount(p, 1)
         /\ p \in DOMAIN entry => entry[p].restarts + 1 =< entry[p].spec.maxRestarts
<1>1. EntriesCount(p, 1)
  BY DEF SupTypeOK, EntriesCount
<1>2. p \in DOMAIN entry => entry[p].restarts + 1 =< entry[p].spec.maxRestarts
  BY DEF SupTypeOK, Supervisor!OutOfRestarts
<1> QED BY <1>1, <1>2

(* The usual step: nothing is armed, fired or spawned. *)
LEMMA PlainStep ==
  ASSUME SupInv, GateInv', NEW i \in TaskIds, NEW q, NEW n \in 0..1, EntriesCount(q, n),
         n = 1 /\ q \in DOMAIN entry => entry[q].restarts + 1 =< entry[q].spec.maxRestarts,
         \A j \in TaskIds \ {i} : /\ tasks'[j].op \in ToSpawn <=> tasks[j].op \in ToSpawn
                                  /\ tasks[j].op \in ToSpawn => tasks'[j].pod = tasks[j].pod,
         tasks'[i].op \in ToSpawn =>
           \/ tasks[i].op \in ToSpawn /\ tasks'[i].pod = tasks[i].pod
           \/ n = 1 /\ tasks'[i].pod = q,
         spawned' = spawned, armed' \in [{pa, ch} -> Seq(Reasons)],
         \A p \in {pa, ch} : Len(armed'[p]) =< Len(armed[p]),
         \A e \in exits' : e.reason \in Reasons
  PROVE  SupInv'
<1>1. SupTypeOK'
  <2>1. SupTypeOK
    BY DEF SupInv
  <2>2. DOMAIN entry' = DOMAIN entry
    BY DEF EntriesCount
  <2>3. ASSUME NEW p \in DOMAIN entry
        PROVE  /\ DOMAIN entry'[p] = {"state", "host", "restarts", "spec"}
               /\ entry'[p].restarts \in Nat /\ entry'[p].spec.maxRestarts \in Nat
    <3>1. entry[p].restarts + n \in Nat
      BY <2>1 DEF SupTypeOK
    <3> QED BY <2>1, <3>1 DEF SupTypeOK, EntriesCount
  <2> QED BY <2>1, <2>2, <2>3 DEF SupTypeOK
<1>2. ASSUME NEW p \in DOMAIN entry
      PROVE  /\ entry'[p].restarts =< entry'[p].spec.maxRestarts
             /\ spawned'[p] + Len(armed'[p]) + Holds(i, p)' + Budget(p)
                  =< spawned[p] + Len(armed[p]) + Holds(i, p) + Budget(p)'
  <2>1. p \in {pa, ch} /\ entry[p].restarts \in Nat /\ spawned[p] \in Nat
        /\ Len(armed[p]) \in Nat /\ Len(armed'[p]) \in Nat
    BY DEF SupInv, SupTypeOK
  <2>2. entry'[p].spec = entry[p].spec
        /\ entry'[p].restarts = IF p = q THEN entry[p].restarts + n ELSE entry[p].restarts
    BY DEF EntriesCount
  <2>3. entry'[p].restarts =< entry'[p].spec.maxRestarts
    BY <2>1, <2>2 DEF SupInv, BudgetInv
  <2>4. Holds(i, p)' =< Holds(i, p) + (IF n = 1 /\ p = q THEN 1 ELSE 0)
        /\ Holds(i, p) \in Nat /\ Holds(i, p)' \in Nat
    BY DEF Holds
  <2>5. Budget(p)' = Budget(p) + (IF n = 1 /\ p = q THEN 1 ELSE 0) /\ Budget(p) \in Nat
    BY <2>1, <2>2 DEF Budget
  <2>6. Len(armed'[p]) =< Len(armed[p]) /\ spawned'[p] = spawned[p]
    BY <2>1
  <2> DEFINE one == IF n = 1 /\ p = q THEN 1 ELSE 0
             x == spawned[p] + Len(armed[p])
             y == spawned'[p] + Len(armed'[p])
  <2>7. one \in Nat /\ x \in Nat /\ y \in Nat /\ y =< x
    BY <2>1, <2>6, SMTT(60)
  <2> HIDE DEF one, x, y
  <2>8. y + Holds(i, p)' + Budget(p) =< x + Holds(i, p) + Budget(p)'
    <3>1. Holds(i, p)' =< Holds(i, p) + one /\ Budget(p)' = Budget(p) + one
      BY <2>4, <2>5 DEF one
    <3>2. Budget(p)' \in Nat
      BY <2>5, <2>7, <3>1
    <3>3. \A o, k, h, e, f \in Nat : k =< h + o /\ f = e + o => y + k + e =< x + h + f
      BY <2>7
    <3> QED BY <2>4, <2>5, <2>7, <3>1, <3>2, <3>3
  <2> QED BY <2>3, <2>8 DEF x, y
<1>3. DOMAIN entry' = DOMAIN entry
  BY DEF EntriesCount
<1> QED BY <1>1, <1>2, <1>3, BudgetMoves

LEMMA FailedStep ==
  ASSUME SupInv, NEW i \in TaskIds, tasks[i].op \in {"spawn", "inplace", "place", "placed"},
         Supervisor!RestartFailed(i, tasks[i].pod), UNCHANGED <<armed, spawned, exits>>
  PROVE  SupInv'
<1> DEFINE p == tasks[i].pod
<1>1. SupTypeOK /\ GateInv
  BY DEF SupInv
<1>2. /\ armed' \in [{pa, ch} -> Seq(Reasons)]
      /\ \A q \in {pa, ch} : Len(armed'[q]) =< Len(armed[q])
      /\ \A e \in exits' : e.reason \in Reasons
  BY <1>1 DEF SupTypeOK
<1>3. CASE Supervisor!OutOfRestarts(p)
  <2>1. entry' = Supervisor!SetState(p, "dead") /\ Supervisor!Release([tasks EXCEPT ![i] = Supervisor!Idle])
    BY <1>3 DEF Supervisor!RestartFailed
  <2>2. EntriesCount(p, 0)
    BY <1>1, <2>1, StateSets
  <2>3. /\ GateInv' /\ tasks'[i] = Supervisor!Idle
        /\ \A j \in TaskIds \ {i} : /\ tasks'[j].op \in ToSpawn <=> tasks[j].op \in ToSpawn
                                    /\ tasks[j].op \in ToSpawn => tasks'[j].pod = tasks[j].pod
    BY <1>1, <2>1, GateRelease DEF AtGate
  <2>4. tasks'[i].op \notin ToSpawn
    BY <2>3 DEF Supervisor!Idle, ToSpawn
  <2> QED BY <1>2, <2>2, <2>3, <2>4, PlainStep
<1>4. CASE ~ Supervisor!OutOfRestarts(p)
  <2> DEFINE t == [op |-> "reschedule", pod |-> p, reason |-> "restart-failed"]
  <2>1. /\ entry' = [entry EXCEPT ![p].restarts = @ + 1]
        /\ tasks' = [tasks EXCEPT ![i] = t] /\ active' = active /\ restartQueue' = restartQueue
    BY <1>4 DEF Supervisor!RestartFailed, Supervisor!Goto, Supervisor!gate
  <2>2. EntriesCount(p, 1) /\ (p \in DOMAIN entry => entry[p].restarts + 1 =< entry[p].spec.maxRestarts)
    BY <1>1, <1>4, <2>1, RestartCounts
  <2>3. TaskOK(t) /\ t.op = "reschedule" /\ t.pod = p
    BY DEF TaskOK, AtGate, ToSpawn, Reasons
  <2> HIDE DEF t
  <2>4. GateInv'
    BY <1>1, <2>1, <2>3, GateGoto DEF AtGate
  <2>5. tasks'[i] = t /\ \A j \in TaskIds \ {i} : tasks'[j] = tasks[j]
    BY <1>1, <2>1 DEF GateInv
  <2> QED BY <1>2, <2>2, <2>3, <2>4, <2>5, PlainStep DEF ToSpawn
<1> QED BY <1>3, <1>4

LEMMA GotoStep ==
  ASSUME SupInv, NEW i \in TaskIds, NEW t, TaskOK(t), tasks' = [tasks EXCEPT ![i] = t],
         active' = active, restartQueue' = restartQueue,
         tasks[i].op # "wait", t.op \in AtGate <=> tasks[i].op \in AtGate,
         NEW q, NEW n \in 0..1, EntriesCount(q, n),
         n = 1 /\ q \in DOMAIN entry => entry[q].restarts + 1 =< entry[q].spec.maxRestarts,
         t.op \in ToSpawn => \/ tasks[i].op \in ToSpawn /\ t.pod = tasks[i].pod
                             \/ n = 1 /\ t.pod = q,
         spawned' = spawned, armed' \in [{pa, ch} -> Seq(Reasons)],
         \A p \in {pa, ch} : Len(armed'[p]) =< Len(armed[p]),
         \A e \in exits' : e.reason \in Reasons
  PROVE  SupInv'
<1>1. GateInv'
  BY GateGoto DEF SupInv
<1>2. tasks'[i] = t /\ \A j \in TaskIds \ {i} : tasks'[j] = tasks[j]
  BY DEF SupInv, GateInv
<1> QED BY <1>1, <1>2, PlainStep

LEMMA QuietStep ==
  ASSUME SupInv, UNCHANGED <<tasks, active, restartQueue, spawned>>, NEW q, EntriesCount(q, 0),
         armed' \in [{pa, ch} -> Seq(Reasons)],
         \A p \in {pa, ch} : Len(armed'[p]) =< Len(armed[p]),
         \A e \in exits' : e.reason \in Reasons
  PROVE  SupInv'
<1>1. GateInv'
  BY DEF SupInv, GateInv, Placed
<1>2. 1 \in TaskIds
  BY SupervisorAssumption DEF TaskIds
<1> QED BY <1>1, <1>2, PlainStep

(* The host has spawned the pod of task i, or of its supervise() call. *)
LEMMA SpawnStep ==
  ASSUME SupInv, NEW i \in TaskIds, NEW t, TaskOK(t), tasks' = [tasks EXCEPT ![i] = t],
         active' = active, restartQueue' = restartQueue,
         tasks[i].op # "wait", t.op \in AtGate <=> tasks[i].op \in AtGate,
         NEW p, t.op \notin ToSpawn, spawned' = [spawned EXCEPT ![p] = @ + 1],
         \/ tasks[i].op \in ToSpawn /\ tasks[i].pod = p
         \/ tasks[i].op \notin ToSpawn /\ spawned[p] = 0,
         entry' = entry, armed' = armed, exits' = exits
  PROVE  SupInv'
<1>1. GateInv'
  BY GateGoto DEF SupInv
<1>2. tasks'[i] = t /\ \A j \in TaskIds \ {i} : tasks'[j] = tasks[j]
  BY DEF SupInv, GateInv
<1>3. SupTypeOK'
  <2>1. spawned \in [{pa, ch} -> Nat]
    BY DEF SupInv, SupTypeOK
  <2>2. spawned' \in [{pa, ch} -> Nat]
    <3>1. \A q \in {pa, ch} : spawned'[q] \in Nat
      BY <2>1
    <3>2. spawned' = [q \in {pa, ch} |-> spawned'[q]]
      BY <2>1
    <3> QED BY <3>1, <3>2
  <2> QED BY <2>2 DEF SupInv, SupTypeOK
<1>4. ASSUME NEW q \in DOMAIN entry
      PROVE  /\ entry'[q].restarts =< entry'[q].spec.maxRestarts
             /\ spawned'[q] + Len(armed'[q]) + Holds(i, q)' + Budget(q)
                  =< spawned[q] + Len(armed[q]) + Holds(i, q) + Budget(q)'
  <2>1. /\ entry[q].restarts \in Nat /\ spawned[q] \in Nat /\ Len(armed[q]) \in Nat /\ q \in {pa, ch}
        /\ entry'[q].restarts =< entry'[q].spec.maxRestarts
    BY DEF SupInv, SupTypeOK, BudgetInv
  <2>2. Holds(i, q)' = 0 /\ Holds(i, q) \in Nat
    BY <1>2 DEF Holds
  <2>3. spawned'[q] = IF q = p THEN spawned[q] + 1 ELSE spawned[q]
    BY <2>1 DEF SupInv, SupTypeOK
  <2>4. CASE q # p
    <3>1. spawned'[q] = spawned[q] /\ Budget(q)' = Budget(q) /\ Budget(q) \in Nat
      BY <2>1, <2>3, <2>4 DEF Budget
    <3> QED BY <2>1, <2>2, <3>1
  <2>5. CASE q = p /\ tasks[i].op \in ToSpawn /\ tasks[i].pod = p
    <3>1. Holds(i, q) = 1
      BY <2>5 DEF Holds
    <3>2. Budget(q) =< Budget(q)' /\ Budget(q) \in Nat /\ Budget(q)' \in Nat
      BY <2>1, <2>3, <2>5 DEF Budget
    <3>3. spawned'[q] = spawned[q] + 1
      BY <2>3, <2>5
    <3> QED BY <2>1, <2>2, <3>1, <3>2, <3>3
  <2>6. CASE q = p /\ tasks[i].op \notin ToSpawn /\ spawned[p] = 0
    <3>1. Holds(i, q) = 0
      BY <2>6 DEF Holds
    <3>2. Budget(q)' = Budget(q) + 1 /\ Budget(q) \in Nat
      BY <2>1, <2>3, <2>6 DEF Budget
    <3>3. spawned'[q] = spawned[q] + 1
      BY <2>3, <2>6
    <3> QED BY <2>1, <2>2, <3>1, <3>2, <3>3
  <2> QED BY <2>4, <2>5, <2>6
<1> QED BY <1>1, <1>2, <1>3, <1>4, BudgetMoves

LEMMA SupInit == Supervisor!Init => SupInv
<1> SUFFICES ASSUME Supervisor!Init PROVE SupInv
  OBVIOUS
<1>1. PICK spec \in Podspecs :
        entry = [p \in DOMAIN spec |-> [state |-> "none", host |-> [x \in {pa, ch} |-> h1][p],
                                        restarts |-> 0, spec |-> spec[p]]]
  BY DEF Supervisor!Init
<1>2. DOMAIN spec \subseteq {pa, ch} /\ \A p \in DOMAIN spec : spec[p].maxRestarts \in Nat
  BY SupervisorAssumption DEF Podspecs, Podspec
<1>3. /\ DOMAIN entry = DOMAIN spec
      /\ \A p \in DOMAIN entry : /\ DOMAIN entry[p] = {"state", "host", "restarts", "spec"}
                                 /\ entry[p].restarts = 0 /\ entry[p].spec.maxRestarts \in Nat
  BY <1>1, <1>2
<1>4. tasks = [i \in TaskIds |-> Supervisor!Idle] /\ Supervisor!Idle.op = "idle"
  BY DEF Supervisor!Init, Supervisor!Ids, TaskIds, Supervisor!Idle
<1>5. SupTypeOK
  BY <1>2, <1>3 DEF Supervisor!Init, SupTypeOK
<1>6. Placed = {} /\ \A p : Spawning(p) = {}
  BY <1>4 DEF Placed, Spawning, AtGate, ToSpawn
<1>7. TaskOK(Supervisor!Idle)
  BY DEF TaskOK, Supervisor!Idle, AtGate, ToSpawn
<1>8. GateInv
  BY <1>4, <1>6, <1>7, FS_EmptySet, SupervisorAssumption DEF GateInv, Supervisor!Init
<1>9. BudgetInv
  <2>1. ASSUME NEW p \in DOMAIN entry PROVE Spends(p) = 0 /\ Budget(p) = 0
    <3>1. spawned[p] = 0 /\ armed[p] = <<>>
      BY <1>2, <1>3 DEF Supervisor!Init
    <3>2. Cardinality(Spawning(p)) = 0 /\ Len(armed[p]) = 0
      BY <1>6, <3>1, FS_EmptySet
    <3> QED BY <1>3, <3>1, <3>2 DEF Spends, Budget
  <2> QED BY <1>3, <2>1 DEF BudgetInv
<1> QED BY <1>5, <1>8, <1>9 DEF SupInv

LEMMA SupSafe == SupInv => Supervisor!RestartBudget
<1> SUFFICES ASSUME SupInv PROVE Supervisor!RestartBudget
  OBVIOUS
<1>1. ASSUME NEW p \in DOMAIN entry
      PROVE  entry[p].restarts <= entry[p].spec.maxRestarts /\ spawned[p] <= 1 + entry[p].restarts
  <2>1. /\ entry[p].restarts \in Nat /\ spawned[p] \in Nat /\ Len(armed[p]) \in Nat
        /\ entry[p].restarts <= entry[p].spec.maxRestarts
        /\ spawned[p] + Len(armed[p]) + Cardinality(Spawning(p)) =< Budget(p)
    BY DEF SupInv, SupTypeOK, BudgetInv, Spends
  <2>2. Cardinality(Spawning(p)) \in Nat
    <3>1. Spawning(p) \in SUBSET TaskIds /\ 1 \in TaskIds
      BY SupervisorAssumption DEF Spawning, TaskIds
    <3> QED BY <3>1, OneChanges
  <2>3. Budget(p) \in Nat /\ Budget(p) <= 1 + entry[p].restarts
    BY <2>1 DEF Budget
  <2> QED BY <2>1, <2>2, <2>3
<1>2. {i \in Supervisor!Ids : tasks[i].op \in {"spawn", "inplace", "place", "placed", "reschedule"}} = Placed
  BY DEF Placed, Supervisor!Ids, TaskIds, AtGate
<1>3. Supervisor!Cardinality(Placed) = Cardinality(Placed)
  BY DEF Supervisor!Cardinality, Cardinality
<1> QED BY <1>1, <1>2, <1>3 DEF Supervisor!RestartBudget, SupInv, GateInv

LEMMA FiresStep ==
  ASSUME SupInv, NEW i \in TaskIds, NEW p \in DOMAIN entry, Supervisor!BackoffFires(i, p)
  PROVE  SupInv'
<1>1. PICK n \in 1..Len(armed[p]) :
        /\ armed' = [armed EXCEPT ![p] = Supervisor!RemoveAt(@, n)]
        /\ tasks' = [tasks EXCEPT ![i] = [op |-> IF Supervisor!Full THEN "wait" ELSE "spawn", pod |-> p,
                                          reason |-> armed[p][n], host |-> entry[p].host]]
  BY DEF Supervisor!BackoffFires, Supervisor!Goto
<1> DEFINE t == [op |-> IF Supervisor!Full THEN "wait" ELSE "spawn", pod |-> p,
                 reason |-> armed[p][n], host |-> entry[p].host]
<1>2. /\ tasks[i].op = "idle" /\ entry' = entry /\ spawned' = spawned /\ exits' = exits
      /\ IF active >= MaxConcurrent
         THEN t.op = "wait" /\ restartQueue' = Append(restartQueue, i) /\ active' = active
         ELSE t.op = "spawn" /\ restartQueue' = restartQueue /\ active' = active + 1
  BY DEF Supervisor!BackoffFires, Supervisor!Free, Supervisor!Idle, Supervisor!Full, Supervisor!world
<1>3. /\ p \in {pa, ch} /\ armed[p] \in Seq(Reasons) /\ armed[p][n] \in Reasons
      /\ t.pod = p /\ t.op \in {"wait", "spawn"}
  BY DEF SupInv, SupTypeOK
<1>4. TaskOK(t)
  BY <1>3 DEF TaskOK, AtGate, ToSpawn
<1> HIDE DEF t
<1>5. GateInv'
  BY <1>1, <1>2, <1>4, GateFires DEF SupInv, t
<1>6. /\ Supervisor!RemoveAt(armed[p], n) \in Seq(Reasons)
      /\ Len(Supervisor!RemoveAt(armed[p], n)) = Len(armed[p]) - 1 /\ Len(armed[p]) \in Nat
  BY <1>3, Shorter
<1>7. /\ armed' \in [{pa, ch} -> Seq(Reasons)]
      /\ \A q \in {pa, ch} : armed'[q] = IF q = p THEN Supervisor!RemoveAt(armed[p], n) ELSE armed[q]
  BY <1>1, <1>3, <1>6 DEF SupInv, SupTypeOK
<1>8. SupTypeOK'
  BY <1>2, <1>7 DEF SupInv, SupTypeOK
<1>9. tasks'[i] = t /\ \A j \in TaskIds \ {i} : tasks'[j] = tasks[j]
  BY <1>1 DEF SupInv, GateInv, t
<1>10. ASSUME NEW q \in DOMAIN entry
       PROVE  /\ entry'[q].restarts =< entry'[q].spec.maxRestarts
              /\ spawned'[q] + Len(armed'[q]) + Holds(i, q)' + Budget(q)
                   =< spawned[q] + Len(armed[q]) + Holds(i, q) + Budget(q)'
  <2>1. /\ entry[q].restarts \in Nat /\ spawned[q] \in Nat /\ Len(armed[q]) \in Nat /\ q \in {pa, ch}
        /\ entry'[q].restarts =< entry'[q].spec.maxRestarts
    BY <1>2 DEF SupInv, SupTypeOK, BudgetInv
  <2>2. /\ Holds(i, q) = 0 /\ Holds(i, q)' = IF q = p THEN 1 ELSE 0
        /\ Budget(q)' = Budget(q) /\ Budget(q) \in Nat
    BY <1>2, <1>3, <1>9, <2>1 DEF Holds, Budget, ToSpawn
  <2>3. Len(armed'[q]) = IF q = p THEN Len(armed[q]) - 1 ELSE Len(armed[q])
    BY <1>6, <1>7, <2>1
  <2> QED BY <1>2, <2>1, <2>2, <2>3
<1> QED BY <1>2, <1>5, <1>8, <1>9, <1>10, BudgetMoves

LEMMA TimerStep ==
  ASSUME SupInv, NEW i \in TaskIds, Supervisor!SetTimer(i)
  PROVE  SupInv'
<1> DEFINE p == tasks[i].pod
           r == tasks[i].reason
<1>1. /\ tasks[i].op \in {"schedule", "reschedule"} /\ armed' = [armed EXCEPT ![p] = Append(@, r)]
      /\ entry' = entry /\ spawned' = spawned /\ exits' = exits
  BY DEF Supervisor!SetTimer, Supervisor!world
<1>2. r \in Reasons /\ tasks[i].op \in ToSpawn
  BY <1>1 DEF SupInv, GateInv, TaskOK, ToSpawn
<1>3. /\ GateInv' /\ tasks'[i] = Supervisor!Idle
      /\ \A j \in TaskIds \ {i} : /\ tasks'[j].op \in ToSpawn <=> tasks[j].op \in ToSpawn
                                  /\ tasks[j].op \in ToSpawn => tasks'[j].pod = tasks[j].pod
  <2>1. CASE tasks[i].op = "reschedule"
    <3>1. Supervisor!Release([tasks EXCEPT ![i] = Supervisor!Idle])
      BY <2>1 DEF Supervisor!SetTimer
    <3> QED BY <2>1, <3>1, GateRelease DEF SupInv, AtGate
  <2>2. CASE tasks[i].op = "schedule"
    <3>1. tasks' = [tasks EXCEPT ![i] = Supervisor!Idle] /\ active' = active /\ restartQueue' = restartQueue
      BY <2>2 DEF Supervisor!SetTimer, Supervisor!Goto, Supervisor!gate
    <3>2. TaskOK(Supervisor!Idle) /\ Supervisor!Idle.op = "idle"
      BY DEF TaskOK, Supervisor!Idle, AtGate, ToSpawn
    <3>3. GateInv'
      BY <2>2, <3>1, <3>2, GateGoto DEF SupInv, AtGate
    <3> QED BY <3>1, <3>3 DEF SupInv, GateInv
  <2> QED BY <1>1, <2>1, <2>2
<1> HIDE DEF p, r
<1>4. /\ armed' \in [{pa, ch} -> Seq(Reasons)]
      /\ \A q \in {pa, ch} : armed'[q] = IF q = p THEN Append(armed[q], r) ELSE armed[q]
  <2>1. armed \in [{pa, ch} -> Seq(Reasons)]
    BY DEF SupInv, SupTypeOK
  <2>2. \A q \in {pa, ch} : armed'[q] = IF q = p THEN Append(armed[q], r) ELSE armed[q]
    BY <1>1, <2>1 DEF p, r
  <2>3. \A q \in {pa, ch} : Append(armed[q], r) \in Seq(Reasons)
    BY <1>2, <2>1
  <2>4. armed' = [q \in {pa, ch} |-> armed'[q]]
    BY <1>1, <2>1
  <2> QED BY <2>1, <2>2, <2>3, <2>4
<1>5. SupTypeOK'
  BY <1>1, <1>4 DEF SupInv, SupTypeOK
<1>6. ASSUME NEW q \in DOMAIN entry
      PROVE  /\ entry'[q].restarts =< entry'[q].spec.maxRestarts
             /\ spawned'[q] + Len(armed'[q]) + Holds(i, q)' + Budget(q)
                  =< spawned[q] + Len(armed[q]) + Holds(i, q) + Budget(q)'
  <2>1. /\ entry[q].restarts \in Nat /\ spawned[q] \in Nat /\ armed[q] \in Seq(Reasons) /\ q \in {pa, ch}
        /\ entry'[q].restarts =< entry'[q].spec.maxRestarts
    BY <1>1 DEF SupInv, SupTypeOK, BudgetInv
  <2>2. /\ Holds(i, q)' = 0 /\ Holds(i, q) = IF q = p THEN 1 ELSE 0
        /\ Budget(q)' = Budget(q) /\ Budget(q) \in Nat
    BY <1>1, <1>2, <1>3, <2>1 DEF Holds, Budget, ToSpawn, Supervisor!Idle, p
  <2>3. Len(armed[q]) \in Nat /\ Len(armed'[q]) = IF q = p THEN Len(armed[q]) + 1 ELSE Len(armed[q])
    BY <1>2, <1>4, <2>1
  <2> QED BY <1>1, <2>1, <2>2, <2>3
<1> QED BY <1>1, <1>3, <1>5, <1>6, BudgetMoves

LEMMA RestartStep ==
  ASSUME SupInv, NEW i \in TaskIds,
         Supervisor!RestartInPlace(i) \/ Supervisor!RestartElsewhere(i) \/ Supervisor!SpawnAnswered(i)
  PROVE  SupInv'
<1> DEFINE p == tasks[i].pod
<1>1. /\ tasks[i].op \in {"spawn", "inplace", "place", "placed"} /\ TaskOK(tasks[i])
      /\ armed' = armed /\ exits' = exits
  BY DEF Supervisor!RestartInPlace, Supervisor!RestartElsewhere, Supervisor!SpawnAnswered,
         Supervisor!timers, Supervisor!world, SupInv, GateInv
<1>2. /\ armed' \in [{pa, ch} -> Seq(Reasons)]
      /\ \A q \in {pa, ch} : Len(armed'[q]) =< Len(armed[q])
      /\ \A e \in exits' : e.reason \in Reasons
  BY <1>1 DEF SupInv, SupTypeOK
<1>3. CASE Supervisor!RestartFailed(i, p) /\ UNCHANGED <<up, spawned>>
  BY <1>1, <1>3, FailedStep
<1>4. ASSUME tasks' = [tasks EXCEPT ![i] = [tasks[i] EXCEPT !.op = "place"]], tasks[i].op = "spawn",
             UNCHANGED <<entry, active, restartQueue, spawned>>
      PROVE  SupInv'
  <2> DEFINE t == [tasks[i] EXCEPT !.op = "place"]
  <2>1. TaskOK(t) /\ t.op = "place" /\ t.pod = p
    BY <1>1 DEF TaskOK, AtGate, ToSpawn
  <2>2. EntriesCount(p, 0)
    BY <1>4 DEF EntriesCount, SupInv, SupTypeOK
  <2> HIDE DEF t
  <2>3. tasks' = [tasks EXCEPT ![i] = t]
    BY <1>4 DEF t
  <2>4. /\ t.op \in AtGate /\ tasks[i].op \in AtGate /\ tasks[i].op \in ToSpawn
        /\ tasks[i].op # "wait" /\ 0 \in 0..1 /\ ~ (0 = 1)
    BY <1>4, <2>1 DEF AtGate, ToSpawn
  <2> QED BY <1>2, <1>4, <2>1, <2>2, <2>3, <2>4, GotoStep
<1>5. ASSUME NEW t, tasks' = [tasks EXCEPT ![i] = t], t.op \in {"inplace", "placed"}, TaskOK(t), tasks[i].op \in {"spawn", "place"},
             spawned' = [spawned EXCEPT ![p] = @ + 1], UNCHANGED <<entry, active, restartQueue>>
      PROVE  SupInv'
  BY <1>1, <1>5, SpawnStep DEF AtGate, ToSpawn
<1>6. CASE Supervisor!RestartInPlace(i)
  <2>1. tasks[i].op = "spawn"
    BY <1>6 DEF Supervisor!RestartInPlace
  <2>2. CASE tasks' = [tasks EXCEPT ![i] = [tasks[i] EXCEPT !.op = "place"]] /\ UNCHANGED <<entry, active, restartQueue, spawned>>
    BY <1>4, <2>1, <2>2
  <2>3. CASE /\ tasks' = [tasks EXCEPT ![i] = [tasks[i] EXCEPT !.op = "inplace"]]
             /\ spawned' = [spawned EXCEPT ![p] = @ + 1] /\ UNCHANGED <<entry, active, restartQueue>>
    <3>1. TaskOK([tasks[i] EXCEPT !.op = "inplace"]) /\ [tasks[i] EXCEPT !.op = "inplace"].op = "inplace"
      BY <1>1 DEF TaskOK, AtGate, ToSpawn
    <3> QED BY <1>5, <2>1, <2>3, <3>1
  <2> QED BY <1>3, <1>6, <2>2, <2>3 DEF Supervisor!RestartInPlace, Supervisor!Goto, Supervisor!gate, Supervisor!SpawnDone
<1>7. CASE Supervisor!RestartElsewhere(i)
  <2>1. tasks[i].op = "place"
    BY <1>7 DEF Supervisor!RestartElsewhere
  <2>2. ASSUME NEW h, tasks' = [tasks EXCEPT ![i] = [tasks[i] EXCEPT !.op = "placed", !.host = h]],
               spawned' = [spawned EXCEPT ![p] = @ + 1], UNCHANGED <<entry, active, restartQueue>>
        PROVE  SupInv'
    <3> DEFINE t == [tasks[i] EXCEPT !.op = "placed", !.host = h]
    <3>1. TaskOK(t) /\ t.op = "placed"
      BY <1>1 DEF TaskOK, AtGate, ToSpawn
    <3> QED BY <1>5, <2>1, <2>2, <3>1
  <2> QED BY <1>3, <1>7, <2>2 DEF Supervisor!RestartElsewhere, Supervisor!Goto, Supervisor!gate, Supervisor!SpawnDone
<1>8. CASE Supervisor!SpawnAnswered(i)
  <2>1. ASSUME EntriesCount(p, 0), Supervisor!Release([tasks EXCEPT ![i] = Supervisor!Idle]) PROVE SupInv'
    <3>1. tasks[i].op \in {"inplace", "placed"} /\ spawned' = spawned
      BY <1>8 DEF Supervisor!SpawnAnswered
    <3>2. /\ GateInv' /\ tasks'[i] = Supervisor!Idle
          /\ \A j \in TaskIds \ {i} : /\ tasks'[j].op \in ToSpawn <=> tasks[j].op \in ToSpawn
                                      /\ tasks[j].op \in ToSpawn => tasks'[j].pod = tasks[j].pod
      BY <2>1, <3>1, GateRelease DEF SupInv, AtGate
    <3>3. tasks'[i].op \notin ToSpawn
      BY <3>2 DEF Supervisor!Idle, ToSpawn
    <3> QED BY <1>2, <2>1, <3>1, <3>2, <3>3, PlainStep
  <2>2. CASE Supervisor!RestartFailed(i, p)
    BY <1>3, <1>8, <2>2 DEF Supervisor!SpawnAnswered
  <2>3. CASE Supervisor!Restarted(i, p, tasks[i].host)
    <3>1. /\ entry' = [entry EXCEPT ![p].state = "running", ![p].host = tasks[i].host]
          /\ Supervisor!Release([tasks EXCEPT ![i] = Supervisor!Idle])
      BY <2>3 DEF Supervisor!Restarted
    <3>2. EntriesCount(p, 0)
      BY <3>1 DEF EntriesCount, SupInv, SupTypeOK
    <3> QED BY <2>1, <3>1, <3>2
  <2>4. CASE entry' = Supervisor!SetState(p, "running") /\ Supervisor!Release([tasks EXCEPT ![i] = Supervisor!Idle])
    <3>1. EntriesCount(p, 0)
      BY <2>4, StateSets DEF SupInv
    <3> QED BY <2>1, <2>4, <3>1
  <2> QED BY <1>8, <2>2, <2>3, <2>4 DEF Supervisor!SpawnAnswered
<1> QED BY <1>6, <1>7, <1>8

LEMMA SuperviseStep ==
  ASSUME SupInv, NEW i \in TaskIds, NEW p, Supervisor!Supervise(i, p)
  PROVE  SupInv'
<1> DEFINE t == [op |-> "register", pod |-> p]
<1>1. /\ tasks[i].op = "idle" /\ tasks' = [tasks EXCEPT ![i] = t] /\ spawned[p] = 0
      /\ spawned' = [spawned EXCEPT ![p] = @ + 1] /\ active' = active /\ restartQueue' = restartQueue
      /\ entry' = entry /\ armed' = armed /\ exits' = exits
  BY DEF Supervisor!Supervise, Supervisor!Free, Supervisor!Idle, Supervisor!SpawnDone, Supervisor!Goto,
         Supervisor!timers, Supervisor!gate, Supervisor!world
<1>2. TaskOK(t) /\ t.op = "register"
  BY DEF TaskOK, AtGate, ToSpawn
<1> HIDE DEF t
<1>3. /\ tasks[i].op \notin AtGate /\ tasks[i].op \notin ToSpawn /\ tasks[i].op # "wait"
      /\ t.op \notin AtGate /\ t.op \notin ToSpawn
  BY <1>1, <1>2 DEF AtGate, ToSpawn
<1> QED BY <1>1, <1>2, <1>3, SpawnStep

(* The steps of register, exit and drain tasks, with what DrainAtHost does. *)
LEMMA OtherStep ==
  ASSUME SupInv, NEW i \in TaskIds, NEW t, TaskOK(t), tasks' = [tasks EXCEPT ![i] = t],
         active' = active, restartQueue' = restartQueue,
         tasks[i].op \notin AtGate \cup ToSpawn, t.op \notin AtGate \cup ToSpawn,
         NEW q, EntriesCount(q, 0), spawned' = spawned,
         armed' \in [{pa, ch} -> Seq(Reasons)],
         \A p \in {pa, ch} : Len(armed'[p]) =< Len(armed[p]),
         \A e \in exits' : e.reason \in Reasons
  PROVE  SupInv'
<1>1. /\ tasks[i].op # "wait" /\ (t.op \in AtGate <=> tasks[i].op \in AtGate) /\ t.op \notin ToSpawn
      /\ 0 \in 0..1 /\ ~ (0 = 1)
  BY DEF AtGate, ToSpawn
<1> QED BY <1>1, GotoStep

LEMMA SameEntries == SupTypeOK /\ entry' = entry => \A q : EntriesCount(q, 0)
BY DEF SupTypeOK, EntriesCount

LEMMA SameTimers ==
  SupTypeOK /\ armed' = armed =>
    armed' \in [{pa, ch} -> Seq(Reasons)] /\ \A p \in {pa, ch} : Len(armed'[p]) =< Len(armed[p])
BY DEF SupTypeOK

LEMMA ClearedTimers ==
  ASSUME SupTypeOK, NEW p, armed' = [armed EXCEPT ![p] = Supervisor!Front(@)]
  PROVE  armed' \in [{pa, ch} -> Seq(Reasons)] /\ \A q \in {pa, ch} : Len(armed'[q]) =< Len(armed[q])
<1>1. armed \in [{pa, ch} -> Seq(Reasons)]
  BY DEF SupTypeOK
<1>2. /\ DOMAIN armed' = {pa, ch} /\ armed' = [q \in {pa, ch} |-> armed'[q]]
      /\ \A q \in {pa, ch} : armed'[q] = IF q = p THEN Supervisor!Front(armed[q]) ELSE armed[q]
  BY <1>1
<1>3. ASSUME NEW q \in {pa, ch} PROVE armed'[q] \in Seq(Reasons) /\ Len(armed'[q]) =< Len(armed[q])
  <2>1. armed[q] \in Seq(Reasons) /\ Len(armed[q]) \in Nat
    BY <1>1
  <2>2. Supervisor!Front(armed[q]) \in Seq(Reasons) /\ Len(Supervisor!Front(armed[q])) =< Len(armed[q])
    BY <2>1, Shorter
  <2> QED BY <1>2, <2>1, <2>2
<1> QED BY <1>2, <1>3

LEMMA DrainedAtHost ==
  ASSUME SupTypeOK, NEW k, Supervisor!DrainAtHost(k)
  PROVE  \A e \in exits' : e.reason \in Reasons
<1>1. exits' \subseteq exits \cup {[key |-> k, reason |-> "drained", by |-> "host"]}
  BY DEF Supervisor!DrainAtHost
<1> QED BY <1>1 DEF SupTypeOK, Reasons

LEMMA TaskStep ==
  ASSUME SupInv, NEW i \in TaskIds,
         \/ Supervisor!Register(i) \/ Supervisor!OnExit(i) \/ Supervisor!NextChild(i)
         \/ Supervisor!DrainPod(i) \/ Supervisor!PodDrained(i) \/ Supervisor!ExitDecides(i)
         \/ \E p \in DOMAIN entry : Supervisor!Drain(i, p)
  PROVE  SupInv'
<1>1. SupTypeOK /\ GateInv /\ TaskOK(tasks[i]) /\ \A e \in exits : e.reason \in Reasons
  BY DEF SupInv, SupTypeOK, GateInv
<1>2. TaskOK(Supervisor!Idle) /\ Supervisor!Idle.op = "idle"
  BY DEF TaskOK, Supervisor!Idle, AtGate, ToSpawn
<1>3. \A s : s \in {"idle", "register", "exit", "drain"} => s \notin AtGate \cup ToSpawn
  BY DEF AtGate, ToSpawn
<1>4. CASE Supervisor!Register(i)
  <2> DEFINE p == tasks[i].pod
  <2>1. /\ tasks[i].op = "register" /\ tasks' = [tasks EXCEPT ![i] = Supervisor!Idle]
        /\ active' = active /\ restartQueue' = restartQueue /\ spawned' = spawned
        /\ entry' = Supervisor!SetState(p, "running") /\ armed' = armed /\ exits' = exits
    BY <1>4 DEF Supervisor!Register, Supervisor!Goto, Supervisor!timers, Supervisor!gate, Supervisor!world
  <2>2. EntriesCount(p, 0)
    BY <1>1, <2>1, StateSets
  <2> QED BY <1>1, <1>2, <1>3, <2>1, <2>2, SameTimers, OtherStep
<1>5. ASSUME NEW op \in {"exit", "drain"}, NEW k, NEW why \in Reasons, Supervisor!Start(i, op, k, why),
             UNCHANGED <<entry, armed, active, restartQueue, spawned>>, exits' \subseteq exits
      PROVE  SupInv'
  <2> DEFINE t == [op |-> op, reason |-> why, calls |-> <<Supervisor!Call(k)>>, draining |-> FALSE]
  <2>1. tasks[i].op = "idle" /\ tasks' = [tasks EXCEPT ![i] = t]
    BY <1>5 DEF Supervisor!Start, Supervisor!Goto, Supervisor!Free, Supervisor!Idle
  <2>2. TaskOK(t) /\ t.op = op
    BY DEF TaskOK, AtGate, ToSpawn
  <2> HIDE DEF t
  <2> QED BY <1>1, <1>3, <1>5, <2>1, <2>2, SameEntries, SameTimers, OtherStep
<1>6. CASE Supervisor!OnExit(i)
  <2>1. PICK e \in exits : Supervisor!Start(i, "exit", e.key, e.reason) /\ exits' = exits \ {e}
                           /\ UNCHANGED <<entry, armed, active, restartQueue, spawned>>
    BY <1>6 DEF Supervisor!OnExit, Supervisor!timers, Supervisor!gate
  <2> QED BY <1>1, <1>5, <2>1
<1>7. CASE \E p \in DOMAIN entry : Supervisor!Drain(i, p)
  <2>1. PICK p \in DOMAIN entry : Supervisor!Start(i, "drain", Supervisor!KeyOf(p), "drained")
                           /\ UNCHANGED <<entry, armed, active, restartQueue, spawned, exits>>
    BY <1>7 DEF Supervisor!Drain, Supervisor!timers, Supervisor!gate
  <2>2. "drained" \in Reasons
    BY DEF Reasons
  <2> QED BY <1>5, <2>1, <2>2
<1>8. ASSUME tasks[i].op \in {"exit", "drain"}, NEW t, tasks' = [tasks EXCEPT ![i] = t],
             t.op = tasks[i].op, t.reason = tasks[i].reason, DOMAIN t = DOMAIN tasks[i],
             active' = active, restartQueue' = restartQueue, spawned' = spawned,
             NEW q, EntriesCount(q, 0), armed' \in [{pa, ch} -> Seq(Reasons)],
             \A p \in {pa, ch} : Len(armed'[p]) =< Len(armed[p]),
             \A e \in exits' : e.reason \in Reasons
      PROVE  SupInv'
  <2>1. TaskOK(t)
    BY <1>1, <1>8 DEF TaskOK, AtGate, ToSpawn
  <2> QED BY <1>3, <1>8, <2>1, OtherStep
<1>9. CASE Supervisor!NextChild(i)
  <2>1. PICK stack : tasks' = [tasks EXCEPT ![i] = [tasks[i] EXCEPT !.calls = stack]]
    BY <1>9 DEF Supervisor!NextChild, Supervisor!Goto
  <2>2. /\ tasks[i].op \in {"exit", "drain"} /\ entry' = entry /\ spawned' = spawned
        /\ active' = active /\ restartQueue' = restartQueue /\ armed' = armed /\ exits' = exits
    BY <1>9 DEF Supervisor!NextChild, Supervisor!Runs, Supervisor!gate, Supervisor!timers, Supervisor!world
  <2> DEFINE t == [tasks[i] EXCEPT !.calls = stack]
  <2>3. t.op = tasks[i].op /\ t.reason = tasks[i].reason /\ DOMAIN t = DOMAIN tasks[i]
    BY <1>1, <2>2 DEF TaskOK
  <2> HIDE DEF t
  <2>4. EntriesCount(pa, 0)
    BY <1>1, <2>2, SameEntries
  <2>5. tasks' = [tasks EXCEPT ![i] = t]
    BY <2>1 DEF t
  <2> QED BY <1>1, <1>8, <2>2, <2>3, <2>4, <2>5, SameTimers
<1>10. CASE Supervisor!DrainPod(i)
  <2> DEFINE k == Supervisor!Current(i).key
             n == Len(Supervisor!Calls(i))
  <2>1. PICK found :
          /\ armed' = armed \/ armed' = [armed EXCEPT ![k[2]] = Supervisor!Front(@)]
          /\ Supervisor!DrainAtHost(IF found THEN Supervisor!KeyOf(k[2]) ELSE k)
          /\ tasks' = [tasks EXCEPT ![i] = [tasks[i] EXCEPT !.draining = TRUE, !.calls[n].known = found]]
    BY <1>10 DEF Supervisor!DrainPod, Supervisor!Goto, Supervisor!timers
  <2>2. /\ tasks[i].op \in {"exit", "drain"} /\ entry' = entry /\ spawned' = spawned
        /\ active' = active /\ restartQueue' = restartQueue
    BY <1>10 DEF Supervisor!DrainPod, Supervisor!Runs, Supervisor!gate
  <2> DEFINE t == [tasks[i] EXCEPT !.draining = TRUE, !.calls[n].known = found]
  <2>3. t.op = tasks[i].op /\ t.reason = tasks[i].reason /\ DOMAIN t = DOMAIN tasks[i]
    BY <1>1, <2>2 DEF TaskOK
  <2> HIDE DEF t
  <2>4. EntriesCount(pa, 0)
    BY <1>1, <2>2, SameEntries
  <2>5. tasks' = [tasks EXCEPT ![i] = t]
    BY <2>1 DEF t
  <2>6. \A e \in exits' : e.reason \in Reasons
    BY <1>1, <2>1, DrainedAtHost
  <2>7. armed' \in [{pa, ch} -> Seq(Reasons)] /\ \A p \in {pa, ch} : Len(armed'[p]) =< Len(armed[p])
    BY <1>1, <2>1, SameTimers, ClearedTimers
  <2> QED BY <1>8, <2>2, <2>3, <2>4, <2>5, <2>6, <2>7
<1>11. CASE Supervisor!PodDrained(i)
  <2> DEFINE k == Supervisor!Current(i).key
             t == [tasks[i] EXCEPT !.draining = FALSE, !.calls = Supervisor!Front(@)]
             u == IF Len(Supervisor!Calls(i)) - 1 > 0 THEN t ELSE Supervisor!Idle
  <2>6. tasks' = [tasks EXCEPT ![i] = u] /\ (u = Supervisor!Idle \/ u = t)
    <3>1. tasks' = [tasks EXCEPT ![i] = u]
      BY <1>11, Zenon DEF Supervisor!PodDrained, Supervisor!Goto
    <3> HIDE DEF t
    <3> QED BY <3>1
  <2>1. /\ tasks' = [tasks EXCEPT ![i] = Supervisor!Idle] \/ tasks' = [tasks EXCEPT ![i] = t]
        /\ tasks[i].op \in {"exit", "drain"} /\ spawned' = spawned
        /\ active' = active /\ restartQueue' = restartQueue /\ armed' = armed /\ exits' = exits
        /\ entry' = entry \/ entry' = Supervisor!SetState(k[2], "dead")
    <3> HIDE DEF t, u
    <3>1. tasks' = [tasks EXCEPT ![i] = Supervisor!Idle] \/ tasks' = [tasks EXCEPT ![i] = t]
      BY <2>6
    <3> QED BY <1>11, <3>1 DEF Supervisor!PodDrained, Supervisor!gate, Supervisor!timers, Supervisor!world
  <2>2. t.op = tasks[i].op /\ t.reason = tasks[i].reason /\ DOMAIN t = DOMAIN tasks[i]
    BY <1>1, <2>1 DEF TaskOK
  <2> HIDE DEF t, u
  <2>3. EntriesCount(k[2], 0)
    BY <1>1, <2>1, SameEntries, StateSets
  <2>4. CASE tasks' = [tasks EXCEPT ![i] = t]
    BY <1>1, <1>8, <2>1, <2>2, <2>3, <2>4, SameTimers
  <2>5. CASE tasks' = [tasks EXCEPT ![i] = Supervisor!Idle]
    BY <1>1, <1>2, <1>3, <2>1, <2>3, <2>5, SameTimers, OtherStep
  <2> QED BY <2>1, <2>4, <2>5
<1>12. CASE Supervisor!ExitDecides(i)
  <2> DEFINE p == Supervisor!Current(i).key[2]
             reason == tasks[i].reason
             t == [op |-> "schedule", pod |-> p, reason |-> reason]
  <2>1. /\ tasks[i].op = "exit" /\ spawned' = spawned /\ active' = active /\ restartQueue' = restartQueue
        /\ armed' = armed /\ exits' = exits
    BY <1>12 DEF Supervisor!ExitDecides, Supervisor!Runs, Supervisor!gate, Supervisor!timers, Supervisor!world
  <2>2. \/ /\ tasks' = [tasks EXCEPT ![i] = Supervisor!Idle]
           /\ entry' = entry \/ entry' = Supervisor!SetState(p, "dead")
        \/ /\ tasks' = [tasks EXCEPT ![i] = t] /\ ~ Supervisor!OutOfRestarts(p)
           /\ entry' = [entry EXCEPT ![p].restarts = @ + 1, ![p].state = "restarting"]
    BY <1>12 DEF Supervisor!ExitDecides, Supervisor!ScheduleRestart, Supervisor!Goto
  <2>3. CASE /\ tasks' = [tasks EXCEPT ![i] = Supervisor!Idle]
             /\ entry' = entry \/ entry' = Supervisor!SetState(p, "dead")
    <3>1. EntriesCount(p, 0)
      BY <1>1, <2>3, SameEntries, StateSets
    <3> QED BY <1>1, <1>2, <1>3, <2>1, <2>3, <3>1, SameTimers, OtherStep
  <2>4. CASE /\ tasks' = [tasks EXCEPT ![i] = t] /\ ~ Supervisor!OutOfRestarts(p)
             /\ entry' = [entry EXCEPT ![p].restarts = @ + 1, ![p].state = "restarting"]
    <3>1. EntriesCount(p, 1) /\ (p \in DOMAIN entry => entry[p].restarts + 1 =< entry[p].spec.maxRestarts)
      BY <1>1, <2>4, RestartCounts
    <3>2. TaskOK(t) /\ t.op = "schedule" /\ t.pod = p
      BY <1>1, <2>1 DEF TaskOK, AtGate, ToSpawn
    <3>3. tasks' = [tasks EXCEPT ![i] = t]
      BY <2>4
    <3> HIDE DEF t, p
    <3>4. /\ tasks[i].op # "wait" /\ (t.op \in AtGate <=> tasks[i].op \in AtGate)
          /\ 1 \in 0..1 /\ (1 = 1 /\ t.pod = p)
      BY <2>1, <3>2 DEF AtGate
    <3>5. 1 = 1 /\ p \in DOMAIN entry => entry[p].restarts + 1 =< entry[p].spec.maxRestarts
      BY <3>1
    <3>6. /\ armed' \in [{pa, ch} -> Seq(Reasons)] /\ (\A q \in {pa, ch} : Len(armed'[q]) =< Len(armed[q]))
          /\ \A e \in exits' : e.reason \in Reasons
      BY <1>1, <2>1, SameTimers
    <3> QED BY <2>1, <3>1, <3>2, <3>3, <3>4, <3>5, <3>6, GotoStep
  <2> QED BY <2>2, <2>3, <2>4
<1> QED BY <1>4, <1>6, <1>7, <1>9, <1>10, <1>11, <1>12

LEMMA SupStep == SupInv /\ [Supervisor!Next]_supervisor => SupInv'
<1> SUFFICES ASSUME SupInv, [Supervisor!Next]_supervisor PROVE SupInv'
  OBVIOUS
<1>1. SupTypeOK /\ \A e \in exits : e.reason \in Reasons
  BY DEF SupInv, SupTypeOK
<1>2. ASSUME UNCHANGED <<entry, tasks, active, restartQueue, spawned, armed>>,
             \A e \in exits' : e.reason \in Reasons
      PROVE  SupInv'
  BY <1>1, <1>2, SameEntries, SameTimers, QuietStep
<1>3. CASE UNCHANGED supervisor
  BY <1>1, <1>2, <1>3 DEF supervisor
<1>4. CASE \E i \in Supervisor!Ids : Supervisor!Step(i) \/ \E p \in DOMAIN entry : Supervisor!Supervise(i, p) \/ Supervisor!Drain(i, p)
  BY <1>4, SuperviseStep, TaskStep, FiresStep, TimerStep, RestartStep DEF Supervisor!Ids, TaskIds, Supervisor!Step
<1>5. ASSUME NEW p \in DOMAIN entry, Supervisor!Unsupervise(p) PROVE SupInv'
  <2>1. /\ UNCHANGED <<entry, tasks, active, restartQueue, spawned, exits>>
        /\ armed' = [armed EXCEPT ![p] = Supervisor!Front(@)] \/ armed' = [armed EXCEPT ![p] = @]
    BY <1>5 DEF Supervisor!Unsupervise, Supervisor!gate
  <2>2. armed' = [armed EXCEPT ![p] = Supervisor!Front(@)] \/ armed' = armed
    BY <1>1, <2>1 DEF SupTypeOK
  <2>3. EntriesCount(p, 0)
    BY <1>1, <2>1, SameEntries
  <2> QED BY <1>1, <2>1, <2>2, <2>3, SameTimers, ClearedTimers, QuietStep
<1>6. ASSUME NEW k, Supervisor!Crash(k) PROVE SupInv'
  <2>1. exits' \subseteq exits \cup {[key |-> k, reason |-> "crashed", by |-> "host"]}
    BY <1>6 DEF Supervisor!Crash
  <2>2. \A e \in exits' : e.reason \in Reasons
    BY <1>1, <2>1 DEF Reasons
  <2> QED BY <1>2, <1>6, <2>2 DEF Supervisor!Crash, Supervisor!gate, Supervisor!timers
<1>7. ASSUME NEW h, Supervisor!HostLost(h) PROVE SupInv'
  <2>1. \A e \in exits' : e \in exits \/ e.reason = "host-lost"
    BY <1>7 DEF Supervisor!HostLost
  <2>2. \A e \in exits' : e.reason \in Reasons
    BY <1>1, <2>1 DEF Reasons
  <2> QED BY <1>2, <1>7, <2>2 DEF Supervisor!HostLost, Supervisor!gate, Supervisor!timers
<1>8. ASSUME NEW h, Supervisor!Reconcile(h) PROVE SupInv'
  <2> DEFINE gone == {p \in listed : entry[p].host = h /\ entry[p].state = "running" /\ <<h, p>> \notin up}
             new == {[key |-> <<h, p>>, reason |-> "crashed", by |-> "reconcile"] : p \in gone}
  <2>a. exits' = exits \cup new
    BY <1>8 DEF Supervisor!Reconcile
  <2>b. \A e \in new : e.reason = "crashed"
    <3> HIDE DEF gone
    <3>1. SUFFICES ASSUME NEW e \in new PROVE e.reason = "crashed"
      OBVIOUS
    <3>2. \E p \in gone : e = [key |-> <<h, p>>, reason |-> "crashed", by |-> "reconcile"]
      BY Zenon
    <3> HIDE DEF new
    <3> QED BY <3>2
  <2>1. \A e \in exits' : e \in exits \/ e.reason = "crashed"
    <3> HIDE DEF new
    <3> QED BY <2>a, <2>b
  <2>2. \A e \in exits' : e.reason \in Reasons
    BY <1>1, <2>1 DEF Reasons
  <2> QED BY <1>2, <1>8, <2>2 DEF Supervisor!Reconcile, Supervisor!gate, Supervisor!timers
<1>9. ASSUME NEW h, Supervisor!HostRefuses(h) PROVE SupInv'
  BY <1>1, <1>2, <1>9 DEF Supervisor!HostRefuses, Supervisor!gate, Supervisor!timers
<1> QED BY <1>3, <1>4, <1>5, <1>6, <1>7, <1>8, <1>9 DEF Supervisor!Next

(* Restarts stay within their budgets and failovers are earned, for any     *)
(* number of hosts, tasks, restarts, peers and ticks.                       *)
THEOREM RestartsAreDue == MCSpec => []RestartsAndFailoversAreDue
<1>1. MCInit => SupInv /\ MonitorInv
  BY SupInit, MonitorInit DEF MCInit
<1>2. [MCNext]_all => [Supervisor!Next]_supervisor /\ [Monitor!Next]_monitor
  BY DEF MCNext, all, supervisor, monitor
<1>3. SupInv /\ MonitorInv /\ [MCNext]_all => (SupInv /\ MonitorInv)'
  BY <1>2, SupStep, MonitorStep
<1>4. SupInv /\ MonitorInv => RestartsAndFailoversAreDue
  BY SupSafe, MonitorSafe DEF RestartsAndFailoversAreDue
<1> QED BY <1>1, <1>3, <1>4, PTL DEF MCSpec

=============================================================================
