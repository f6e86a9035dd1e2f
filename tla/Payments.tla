------------------------------- MODULE Payments -------------------------------
(***************************************************************************)
(* Payment channels: PaymentChannel and PaymentRouter of                   *)
(* browsermesh-apps/src/payments.mjs, one router per pod, wired to a       *)
(* transport that delays messages, lets them overtake each other and loses *)
(* them.                                                                   *)
(*                                                                         *)
(* An operation that awaits a verification or a co-signature is suspended  *)
(* in `awaiting`; other calls and messages come in between.  Signing an    *)
(* own update or claim is awaited too, but changes nothing but when the    *)
(* message leaves, which the transport's delays cover.  A channel in the   *)
(* state "closed" is one that is no longer in the router's map.            *)
(***************************************************************************)
EXTENDS Integers, FiniteSets, FiniteSetTheorems, TLAPS

CONSTANTS
  Pod,          \* the two pods
  Signs,        \* whether channels are set up with signFn and verifyFn
  Redelivers,   \* whether the transport may deliver an update more than once
  Deposit,      \* what an opener puts into its channel, positive
  MaxOpens,     \* bound: channels opened
  MaxPays       \* bound: payments made

VARIABLES
  channel,    \* channel[p]: p's view of its channel to the other pod
  awaiting,   \* operations suspended at an await
  network,    \* messages under way
  disputed,   \* pods that raised a PaymentDispute
  attested,   \* attested[p]: the channels p co-signed the close of, with its view
  settled,    \* settled[p]: the settlements that finalizeClose() returned to p
  opens, pays

vars == <<channel, awaiting, network, disputed, attested, settled, opens, pays>>

-----------------------------------------------------------------------------
Other(p) == CHOOSE q \in Pod : q # p

(* id: the channelId, numbered in the order of opening, 0 for none. *)
View(st, id, signs, loc, rem) ==
  [state |-> st, id |-> id, signs |-> signs, local |-> loc, remote |-> rem, sequence |-> 0]

Balances(v) == <<v.local, v.remote>>

Update(p, amount) ==
  [kind |-> "update", to |-> Other(p), id |-> channel[p].id, signed |-> channel[p].signs,
   sequence |-> channel[p].sequence + 1, amount |-> amount, time |-> pays]

(* A CloseClaim carries the view of its sender, an ack echoes it. *)
Closing(kind, to, id, view) == [kind |-> kind, to |-> to, id |-> id, view |-> view]

Init ==
  /\ channel = [p \in Pod |-> View("closed", 0, FALSE, 0, 0)]
  /\ awaiting = {} /\ network = {}
  /\ disputed = {}
  /\ attested = [p \in Pod |-> {}]
  /\ settled = [p \in Pod |-> {}]
  /\ opens = 0 /\ pays = 0

-----------------------------------------------------------------------------
(* openChannel(), open(deposit), broadcastOpen(). *)
Open(p) ==
  /\ channel[p].state = "closed"
  /\ opens < MaxOpens
  /\ opens' = opens + 1
  /\ channel' = [channel EXCEPT ![p] = View("open", opens + 1, Signs, Deposit, 0)]
  /\ network' = network \cup {[kind |-> "open", to |-> Other(p), id |-> opens + 1]}
  /\ UNCHANGED <<awaiting, disputed, attested, settled, pays>>

(* The counterparty of a signed channel sets up its side itself, with the   *)
(* opener's channelId and open(0, deposit): PAYMENT_OPEN carries no keys.   *)
OpenSigned(p) ==
  LET theirs == channel[Other(p)]
  IN /\ channel[p].state = "closed"
     /\ theirs.state # "closed" /\ theirs.signs /\ theirs.id # channel[p].id
     /\ channel' = [channel EXCEPT ![p] = View("open", theirs.id, TRUE, 0, Deposit)]
     /\ UNCHANGED <<awaiting, network, disputed, attested, settled, opens, pays>>

(* pay() and broadcastUpdate(). *)
Pay(p, amount) ==
  /\ channel[p].state = "open"
  /\ amount <= channel[p].local
  /\ pays < MaxPays
  /\ pays' = pays + 1
  /\ channel' = [channel EXCEPT ![p].local = @ - amount, ![p].remote = @ + amount,
                                ![p].sequence = @ + 1]
  /\ network' = network \cup {Update(p, amount)}
  /\ UNCHANGED <<awaiting, disputed, attested, settled, opens>>

(* PaymentChannel.close(): a signing channel sends a claim and waits in the *)
(* state "closing"; any other is closed at once and leaves the map.         *)
CloseView(p) ==
  [channel EXCEPT ![p].state = IF channel[p].signs THEN "closing" ELSE "closed"]

Claim(p) == Closing("claim", Other(p), channel[p].id, Balances(channel[p]))

(* closeChannel(), and broadcastClose() of the settlement of an unsigned one. *)
Close(p) ==
  /\ channel[p].state = "open"
  /\ channel' = CloseView(p)
  /\ network' = network \cup
       {IF channel[p].signs THEN Claim(p) ELSE [kind |-> "close", to |-> Other(p)]}
  /\ UNCHANGED <<awaiting, disputed, attested, settled, opens, pays>>

-----------------------------------------------------------------------------
(* The handlers that wireTransport() subscribes.                            *)

(* PAYMENT_OPEN: openChannel() refuses a second channel to the same pod.    *)
HandleOpen(m) ==
  /\ m.kind = "open"
  /\ network' = network \ {m}
  /\ channel' = IF channel[m.to].state = "closed"
                THEN [channel EXCEPT ![m.to] = View("open", m.id, FALSE, 0, Deposit)]
                ELSE channel
  /\ UNCHANGED <<awaiting, disputed, attested, settled, opens, pays>>

(* receive(): the checks made before the signature is verified. *)
Receivable(m) ==
  LET v == channel[m.to]
  IN v.state = "open" /\ v.id = m.id /\ m.sequence > v.sequence

(* #applyReceive() *)
ApplyReceive(m) ==
  [channel EXCEPT ![m.to].local = @ + m.amount, ![m.to].remote = @ - m.amount,
                  ![m.to].sequence = m.sequence]

(* PAYMENT_UPDATE *)
HandleUpdate(m) ==
  /\ m.kind = "update"
  /\ network' = IF Redelivers THEN network ELSE network \ {m}
  /\ channel' = IF Receivable(m) /\ ~channel[m.to].signs THEN ApplyReceive(m) ELSE channel
  /\ awaiting' = IF Receivable(m) /\ channel[m.to].signs /\ m.signed
                 THEN awaiting \cup {m} ELSE awaiting
  /\ UNCHANGED <<disputed, attested, settled, opens, pays>>

(* #verifyAndApplyReceive() resumes, whatever state the channel is in now.  *)
(* A channel object that was replaced meanwhile concerns nobody.            *)
Verified(m) ==
  /\ m.kind = "update"
  /\ awaiting' = awaiting \ {m}
  /\ channel' = IF channel[m.to].id = m.id /\ channel[m.to].signs THEN ApplyReceive(m) ELSE channel
  /\ UNCHANGED <<network, disputed, attested, settled, opens, pays>>

(* PAYMENT_CLOSE with a claim or an ack: handleCloseMessage() answers in    *)
(* the state "open", finalizeClose() in "closing"; both begin by verifying, *)
(* which a channel without verifyFn cannot.                                 *)
HandleClosing(m) ==
  LET v == channel[m.to]
      due == v.id = m.id /\ v.state = (IF m.kind = "claim" THEN "open" ELSE "closing")
  IN /\ m.kind \in {"claim", "ack"}
     /\ network' = network \ {m}
     /\ awaiting' = IF due /\ v.signs THEN awaiting \cup {m} ELSE awaiting
     /\ disputed' = IF due /\ ~v.signs THEN disputed \cup {m.to} ELSE disputed
     /\ UNCHANGED <<channel, attested, settled, opens, pays>>

MirrorsTotal(claim) ==
  claim.view[1] + claim.view[2] = channel[claim.to].remote + channel[claim.to].local

(* The claim must mirror the own view. *)
Mirrors(claim) == claim.view = <<channel[claim.to].remote, channel[claim.to].local>>

(* handleCloseMessage() after the verification: a dispute, or on to signFn. *)
CheckClaim(m) ==
  /\ m.kind = "claim"
  /\ IF Mirrors(m)
     THEN /\ awaiting' = (awaiting \ {m}) \cup {Closing("cosign", m.to, m.id, m.view)}
          /\ attested' = [attested EXCEPT ![m.to] = @ \cup {<<m.id, Balances(channel[m.to])>>}]
          /\ UNCHANGED disputed
     ELSE /\ awaiting' = awaiting \ {m}
          /\ disputed' = disputed \cup {m.to}
          /\ UNCHANGED attested
  /\ UNCHANGED <<channel, network, settled, opens, pays>>

(* handleCloseMessage() after signFn: the channel closes and the ack leaves. *)
Cosigned(m) ==
  /\ m.kind = "cosign"
  /\ awaiting' = awaiting \ {m}
  /\ channel' = [channel EXCEPT ![m.to].state = "closed"]
  /\ network' = network \cup {Closing("ack", Other(m.to), m.id, m.view)}
  /\ UNCHANGED <<disputed, attested, settled, opens, pays>>

(* finalizeClose(): the ack must repeat the own view. *)
Repeats(ack) == ack.view = Balances(channel[ack.to])

(* finalizeClose() after the verification. *)
Finalize(m) ==
  /\ m.kind = "ack"
  /\ awaiting' = awaiting \ {m}
  /\ IF Repeats(m)
     THEN /\ channel' = [channel EXCEPT ![m.to].state = "closed"]
          /\ settled' = [settled EXCEPT ![m.to] = @ \cup {<<m.id, Balances(channel[m.to])>>}]
          /\ UNCHANGED disputed
     ELSE disputed' = disputed \cup {m.to} /\ UNCHANGED <<channel, settled>>
  /\ UNCHANGED <<network, attested, opens, pays>>

(* PAYMENT_CLOSE without either: closeChannel(), whichever channel it is.   *)
HandleClose(m) ==
  /\ m.kind = "close"
  /\ IF channel[m.to].state = "open"
     THEN /\ channel' = CloseView(m.to)
          /\ network' = (network \ {m}) \cup (IF channel[m.to].signs THEN {Claim(m.to)} ELSE {})
     ELSE network' = network \ {m} /\ UNCHANGED channel
  /\ UNCHANGED <<awaiting, disputed, attested, settled, opens, pays>>

-----------------------------------------------------------------------------
Next ==
  \/ \E p \in Pod : Open(p) \/ OpenSigned(p) \/ Close(p)
  \/ \E p \in Pod, amount \in 1..Deposit : Pay(p, amount)
  \/ \E m \in network : HandleOpen(m) \/ HandleUpdate(m) \/ HandleClosing(m) \/ HandleClose(m)
  \/ \E m \in awaiting : Verified(m) \/ CheckClaim(m) \/ Cosigned(m) \/ Finalize(m)

Spec == Init /\ [][Next]_vars

-----------------------------------------------------------------------------
TypeOK ==
  /\ channel \in [Pod -> [state : {"open", "closing", "closed"}, id : 0..MaxOpens,
                          signs : BOOLEAN, local : Int, remote : Int, sequence : Nat]]
  /\ disputed \subseteq Pod
  /\ \A m \in network \cup awaiting : m.to \in Pod

(* No payment counts twice: the two views of one channel never hold more    *)
(* than was deposited, however updates of both directions cross, overtake   *)
(* each other, arrive again or arrive after a close; and no view shows a    *)
(* debt.                                                                    *)
NoCreditCreated ==
  /\ \A p, q \in Pod : p # q /\ channel[p].id = channel[q].id =>
       channel[p].local + channel[q].local <= Deposit
  /\ \A p \in Pod : channel[p].local >= 0 /\ channel[p].remote >= 0

(* "never accept the wire message's numbers unconditionally": a settlement  *)
(* that finalizeClose() returns was co-signed by the other pod against a    *)
(* view of its own that mirrors it, and divides the whole deposit.          *)
SettlementAttested ==
  \A p \in Pod : \A s \in settled[p] :
    /\ <<s[1], <<s[2][2], s[2][1]>>>> \in attested[Other(p)]
    /\ s[2][1] + s[2][2] = Deposit

-----------------------------------------------------------------------------
(* Proofs, for any deposit and bounds, where a signed update is delivered   *)
(* at most once.                                                            *)
PayBounds ==
  /\ \E a, b : a # b /\ Pod = {a, b}
  /\ Deposit \in Nat /\ Signs \in BOOLEAN /\ Redelivers \in BOOLEAN /\ ~ (Signs /\ Redelivers)

Account ==
  [state : {"open", "closing", "closed"}, id : Nat, signs : BOOLEAN, local : Nat, remote : Int, sequence : Nat]

IsMail(m, n, t) ==
  /\ m.to \in Pod
  /\ m.kind = "update" => /\ m.id \in 1..n /\ m.sequence \in Nat \ {0} /\ m.amount \in 1..Deposit
                          /\ m.time \in Nat /\ m.time < t
  /\ m.kind = "open" => m.id \in 1..n /\ m = [kind |-> "open", to |-> m.to, id |-> m.id]

(* The credits that updates in U are worth, one by one. *)
Coins(U) == {c \in U \X (1..Deposit) : c[2] =< c[1].amount}

(* The updates that may still be applied to a view of channel i. *)
Pending(m, i, ch, net) ==
  IF ch[m.to].id = i THEN m.sequence > ch[m.to].sequence
                     ELSE [kind |-> "open", to |-> m.to, id |-> i] \in net

Live(i, ch, net, aw) ==
  {m \in net \cup aw : m.kind = "update" /\ m.id = i /\ (Redelivers => Pending(m, i, ch, net))}

Share(v, i) == IF v.id = i THEN v.local ELSE 0

Worth(p, i, ch, net, aw) ==
  Share(ch[p], i) + Share(ch[Other(p)], i) + Cardinality(Coins(Live(i, ch, net, aw)))

(* Each view but the initial one divides the whole deposit, and a view in   *)
(* use is of some channel.                                                  *)
Whole(ch, n) ==
  /\ ch \in [Pod -> Account]
  /\ \A p \in Pod : /\ ch[p].id =< n
                    /\ ch[p].local + ch[p].remote = IF ch[p].id = 0 THEN 0 ELSE Deposit
                    /\ ch[p].id = 0 => ch[p].local = 0
                    /\ ch[p].state # "closed" => ch[p].id # 0

(* What is under way concerns channels that were opened; an update waits    *)
(* for its verification or is under way, not both.                          *)
Mail(ch, net, aw, n, t) ==
  /\ IsFiniteSet(net) /\ IsFiniteSet(aw) /\ n \in Nat /\ t \in Nat
  /\ \A m \in net \cup aw : IsMail(m, n, t)
  /\ \A m \in aw : ch[m.to].id # 0
  /\ ~ Redelivers => \A m \in net : m.kind = "update" => m \notin aw
  /\ Redelivers => /\ aw = {} /\ \A p \in Pod : ~ ch[p].signs
                   /\ \A m \in net : m.kind = "open" => ch[m.to].id # m.id

Solvent(ch, net, aw) == \A p \in Pod, i \in Nat : Worth(p, i, ch, net, aw) =< Deposit

Mirror(view) == <<view[2], view[1]>>

Attested(net, aw, att) ==
  \A m \in net \cup aw : /\ m.kind = "ack" => <<m.id, Mirror(m.view)>> \in att[Other(m.to)]
                         /\ m.kind = "cosign" => <<m.id, Mirror(m.view)>> \in att[m.to]

OverPods(f) == f = [p \in Pod |-> f[p]]

LEMMA TwoPods ==
  ASSUME PayBounds, NEW p \in Pod
  PROVE  Other(p) \in Pod /\ Other(p) # p /\ Other(Other(p)) = p /\ \A q \in Pod : q = p \/ q = Other(p)
<1>1. PICK a, b : a # b /\ Pod = {a, b}
  BY DEF PayBounds
<1>2. ASSUME NEW q \in Pod PROVE Other(q) \in Pod /\ Other(q) # q
  <2>1. \E r \in Pod : r # q
    BY <1>1
  <2> QED BY <2>1 DEF Other
<1> QED BY <1>1, <1>2

(* A set of updates is worth what its updates are. *)
LEMMA CoinsFinite ==
  ASSUME PayBounds, NEW U, IsFiniteSet(U)
  PROVE  IsFiniteSet(Coins(U)) /\ Cardinality(Coins(U)) \in Nat
<1>1. IsFiniteSet(1..Deposit)
  BY FS_Interval DEF PayBounds
<1>2. IsFiniteSet(U \X (1..Deposit))
  BY <1>1, FS_Product
<1>3. Coins(U) \in SUBSET (U \X (1..Deposit))
  BY DEF Coins
<1>4. IsFiniteSet(Coins(U))
  BY <1>2, <1>3, FS_Subset
<1> QED BY <1>4, FS_CardinalityType

LEMMA CoinsOne ==
  ASSUME PayBounds, NEW m, m.amount \in 1..Deposit
  PROVE  Cardinality(Coins({m})) = m.amount
<1> DEFINE A == 1..m.amount
           f == [k \in A |-> <<m, k>>]
<1>1. m.amount \in Nat /\ A \subseteq 1..Deposit
  BY DEF PayBounds
<1>2. IsFiniteSet(A) /\ Cardinality(A) = m.amount
  <2>1. PICK k \in Nat : k = m.amount /\ k > 0
    BY <1>1
  <2>2. IsFiniteSet(1..k) /\ Cardinality(1..k) = IF 1 > k THEN 0 ELSE k - 1 + 1
    BY FS_Interval
  <2>3. Cardinality(1..k) = k
    BY <2>1, <2>2
  <2> QED BY <2>1, <2>2, <2>3
<1>3. f \in Bijection(A, Coins({m}))
  <2>1. \A k \in A : f[k] \in Coins({m})
    BY <1>1 DEF Coins
  <2>2. \A c \in Coins({m}) : \E k \in A : f[k] = c
    BY <1>1 DEF Coins
  <2>3. f \in [A -> Coins({m})]
    BY <2>1
  <2> QED BY <2>2, <2>3 DEF Bijection, Injection, IsInjective, Surjection
<1> HIDE DEF A, f
<1> QED BY <1>2, <1>3, FS_Bijection DEF ExistsBijection

LEMMA CoinsFewer ==
  ASSUME PayBounds, NEW U, IsFiniteSet(U), NEW V \in SUBSET U
  PROVE  Cardinality(Coins(V)) =< Cardinality(Coins(U))
<1>1. Coins(V) \in SUBSET Coins(U)
  BY DEF Coins
<1> QED BY <1>1, CoinsFinite, FS_Subset

LEMMA CoinsSum ==
  ASSUME PayBounds, NEW U, IsFiniteSet(U), NEW m, m.amount \in 1..Deposit
  PROVE  Cardinality(Coins(U \cup {m})) = Cardinality(Coins(U)) + IF m \in U THEN 0 ELSE m.amount
<1>1. CASE m \in U
  <2>1. U \cup {m} = U
    BY <1>1
  <2> QED BY <1>1, <2>1, CoinsFinite
<1>2. CASE m \notin U
  <2> DEFINE A == Coins(U)
             B == Coins({m})
  <2>1. Coins(U \cup {m}) = A \cup B /\ A \cap B = {}
    BY <1>2 DEF Coins
  <2>2. IsFiniteSet(A) /\ IsFiniteSet(B) /\ Cardinality(A) \in Nat /\ Cardinality(B) = m.amount
    BY CoinsFinite, CoinsOne, FS_Singleton
  <2> HIDE DEF A, B
  <2>3. Cardinality(A \cap B) = 0
    BY <2>1, FS_EmptySet, Zenon
  <2>4. Cardinality(A \cup B) = Cardinality(A) + Cardinality(B) - Cardinality(A \cap B)
    BY <2>2, FS_Union
  <2>5. m.amount \in Nat
    BY DEF PayBounds
  <2>6. Cardinality(A \cup B) = Cardinality(A) + m.amount
    BY <2>2, <2>3, <2>4, <2>5
  <2>7. Cardinality(Coins(U \cup {m})) = Cardinality(A) + m.amount
    BY <2>1, <2>6, Zenon
  <2> QED BY <1>2, <2>7 DEF A
<1> QED BY <1>1, <1>2

LEMMA CoinsAdded ==
  ASSUME PayBounds, NEW U, IsFiniteSet(U), NEW m, m.amount \in 1..Deposit, NEW V \in SUBSET (U \cup {m})
  PROVE  Cardinality(Coins(V)) =< Cardinality(Coins(U)) + m.amount
<1>1. IsFiniteSet(U \cup {m}) /\ IsFiniteSet(V)
  BY FS_AddElement, FS_Subset
<1>2. Cardinality(Coins(V)) =< Cardinality(Coins(U \cup {m}))
  BY <1>1, CoinsFewer
<1>3. m.amount \in Nat
  BY DEF PayBounds
<1> QED BY <1>1, <1>2, <1>3, CoinsSum, CoinsFinite

LEMMA CoinsSpent ==
  ASSUME PayBounds, NEW U, IsFiniteSet(U), NEW m \in U, m.amount \in 1..Deposit, NEW V \in SUBSET (U \ {m})
  PROVE  Cardinality(Coins(V)) + m.amount =< Cardinality(Coins(U))
<1>1. IsFiniteSet(V) /\ m \notin V /\ V \cup {m} \in SUBSET U
  BY FS_Subset
<1>2. Cardinality(Coins(V \cup {m})) =< Cardinality(Coins(U))
  BY <1>1, CoinsFewer
<1>3. m.amount \in Nat
  BY DEF PayBounds
<1> QED BY <1>1, <1>2, <1>3, CoinsSum, CoinsFinite

-----------------------------------------------------------------------------
(* What a change of views and messages does to the worth of a channel.      *)
Known(ch, net, aw, n, t) ==
  /\ PayBounds /\ Whole(ch, n) /\ Mail(ch, net, aw, n, t) /\ Solvent(ch, net, aw)

LEMMA LiveIs ==
  ASSUME NEW ch, NEW net, NEW aw, NEW n, NEW t, Known(ch, net, aw, n, t), NEW i \in Nat
  PROVE  /\ IsFiniteSet(Live(i, ch, net, aw)) /\ IsFiniteSet(net \cup aw)
         /\ Live(i, ch, net, aw) \in SUBSET (net \cup aw)
         /\ \A m \in Live(i, ch, net, aw) : m.kind = "update" /\ m.id = i /\ m.amount \in 1..Deposit
<1>1. IsFiniteSet(net \cup aw)
  BY FS_Union DEF Known, Mail
<1>2. Live(i, ch, net, aw) \in SUBSET (net \cup aw)
  BY DEF Live
<1>3. \A m \in Live(i, ch, net, aw) : m.kind = "update" /\ m.id = i /\ m.amount \in 1..Deposit
  BY DEF Live, Known, Mail, IsMail
<1> QED BY <1>1, <1>2, <1>3, FS_Subset

LEMMA ShareIs ==
  ASSUME NEW ch, NEW n, Whole(ch, n), NEW p \in Pod, NEW i
  PROVE  Share(ch[p], i) \in Nat
BY DEF Whole, Account, Share

(* Nothing more is pending, and nobody holds more. *)
LEMMA WorthNotMore ==
  ASSUME NEW ch, NEW net, NEW aw, NEW n, NEW t, Known(ch, net, aw, n, t),
         NEW c, NEW w, NEW b, NEW p \in Pod, NEW i \in Nat, NEW k, Whole(c, k),
         \A q \in Pod : Share(c[q], i) =< Share(ch[q], i),
         Live(i, c, w, b) \subseteq Live(i, ch, net, aw)
  PROVE  Worth(p, i, c, w, b) =< Deposit
<1> DEFINE U == Live(i, ch, net, aw)
           V == Live(i, c, w, b)
           o == Other(p)
<1>1. IsFiniteSet(U) /\ IsFiniteSet(V) /\ V \in SUBSET U
  <2>1. IsFiniteSet(U)
    BY LiveIs
  <2>2. V \in SUBSET U
    OBVIOUS
  <2> HIDE DEF U, V
  <2> QED BY <2>1, <2>2, FS_Subset
<1>2. PayBounds /\ o \in Pod
  BY TwoPods DEF Known
<1>3. Share(ch[p], i) + Share(ch[o], i) + Cardinality(Coins(U)) =< Deposit
  BY DEF Known, Solvent, Worth
<1>4. /\ Share(ch[p], i) \in Nat /\ Share(ch[o], i) \in Nat /\ Share(c[p], i) \in Nat /\ Share(c[o], i) \in Nat
      /\ Share(c[p], i) =< Share(ch[p], i) /\ Share(c[o], i) =< Share(ch[o], i) /\ Deposit \in Nat
  BY <1>2, ShareIs DEF Known, PayBounds
<1> HIDE DEF U, V, o
<1>5. Cardinality(Coins(V)) =< Cardinality(Coins(U)) /\ Cardinality(Coins(U)) \in Nat /\ Cardinality(Coins(V)) \in Nat
  BY <1>1, <1>2, CoinsFewer, CoinsFinite
<1>6. Share(c[p], i) + Share(c[o], i) + Cardinality(Coins(V)) =< Deposit
  BY <1>3, <1>4, <1>5
<1> QED BY <1>6 DEF Worth, V, o

(* Of channel i, pod r parts with amount a. *)
PartsWith(a, r, i, ch, c) ==
  /\ Share(c[r], i) = Share(ch[r], i) - a
  /\ \A q \in Pod : q # r => Share(c[q], i) = Share(ch[q], i)

(* Pod r pays: what it no longer holds is pending. *)
LEMMA WorthPaid ==
  ASSUME NEW ch, NEW net, NEW aw, NEW n, NEW t, Known(ch, net, aw, n, t),
         NEW c, NEW w, NEW b, NEW p \in Pod, NEW i \in Nat, NEW k, Whole(c, k),
         NEW r \in Pod, NEW m, m.amount \in 1..Deposit,
         PartsWith(m.amount, r, i, ch, c),
         Live(i, c, w, b) \subseteq Live(i, ch, net, aw) \cup {m}
  PROVE  Worth(p, i, c, w, b) =< Deposit
<1> DEFINE U == Live(i, ch, net, aw)
           V == Live(i, c, w, b)
           o == Other(p)
<1>1. IsFiniteSet(U) /\ V \in SUBSET (U \cup {m}) /\ IsFiniteSet(V)
  <2>1. IsFiniteSet(U)
    BY LiveIs
  <2>2. V \in SUBSET (U \cup {m})
    OBVIOUS
  <2> HIDE DEF U, V
  <2>3. IsFiniteSet(U \cup {m})
    BY <2>1, FS_AddElement
  <2> QED BY <2>1, <2>2, <2>3, FS_Subset
<1>2. PayBounds /\ o \in Pod /\ p # o /\ (r = p \/ r = o)
  BY TwoPods DEF Known
<1>3. Share(ch[p], i) + Share(ch[o], i) + Cardinality(Coins(U)) =< Deposit
  BY DEF Known, Solvent, Worth
<1>4. /\ Share(ch[p], i) \in Nat /\ Share(ch[o], i) \in Nat /\ Share(c[p], i) \in Nat /\ Share(c[o], i) \in Nat
      /\ Deposit \in Nat /\ m.amount \in Nat
  BY <1>2, ShareIs DEF Known, PayBounds
<1>5. Share(c[p], i) + Share(c[o], i) = Share(ch[p], i) + Share(ch[o], i) - m.amount
  BY <1>2, <1>4 DEF PartsWith
<1> HIDE DEF U, V, o
<1>6. Cardinality(Coins(V)) =< Cardinality(Coins(U)) + m.amount /\ Cardinality(Coins(U)) \in Nat /\ Cardinality(Coins(V)) \in Nat
  BY <1>1, <1>2, CoinsAdded, CoinsFinite
<1>7. Share(c[p], i) + Share(c[o], i) + Cardinality(Coins(V)) =< Deposit
  BY <1>3, <1>4, <1>5, <1>6
<1> QED BY <1>7 DEF Worth, V, o

(* Pod r applies an update: it is no longer pending. *)
LEMMA WorthReceived ==
  ASSUME NEW ch, NEW net, NEW aw, NEW n, NEW t, Known(ch, net, aw, n, t),
         NEW c, NEW w, NEW b, NEW p \in Pod, NEW i \in Nat, NEW k, Whole(c, k),
         NEW r \in Pod, NEW m \in Live(i, ch, net, aw),
         Share(c[r], i) = Share(ch[r], i) + m.amount,
         \A q \in Pod : q # r => Share(c[q], i) = Share(ch[q], i),
         Live(i, c, w, b) \subseteq Live(i, ch, net, aw) \ {m}
  PROVE  Worth(p, i, c, w, b) =< Deposit
<1> DEFINE U == Live(i, ch, net, aw)
           V == Live(i, c, w, b)
           o == Other(p)
<1>1. IsFiniteSet(U) /\ V \in SUBSET (U \ {m}) /\ IsFiniteSet(V) /\ m \in U /\ m.amount \in 1..Deposit
  <2>1. IsFiniteSet(U) /\ m.amount \in 1..Deposit
    BY LiveIs
  <2> HIDE DEF U, V
  <2>2. V \in SUBSET U /\ V \in SUBSET (U \ {m}) /\ m \in U
    BY DEF U, V
  <2> QED BY <2>1, <2>2, FS_Subset
<1>2. PayBounds /\ o \in Pod /\ p # o /\ (r = p \/ r = o)
  BY TwoPods DEF Known
<1>3. Share(ch[p], i) + Share(ch[o], i) + Cardinality(Coins(U)) =< Deposit
  BY DEF Known, Solvent, Worth
<1>4. /\ Share(ch[p], i) \in Nat /\ Share(ch[o], i) \in Nat /\ Share(c[p], i) \in Nat /\ Share(c[o], i) \in Nat
      /\ Deposit \in Nat /\ m.amount \in Nat
  BY <1>1, <1>2, ShareIs DEF Known, PayBounds
<1>5. Share(c[p], i) + Share(c[o], i) = Share(ch[p], i) + Share(ch[o], i) + m.amount
  BY <1>2, <1>4
<1> HIDE DEF U, V, o
<1>6. Cardinality(Coins(V)) + m.amount =< Cardinality(Coins(U)) /\ Cardinality(Coins(U)) \in Nat /\ Cardinality(Coins(V)) \in Nat
  BY <1>1, <1>2, CoinsSpent, CoinsFinite
<1>7. Share(c[p], i) + Share(c[o], i) + Cardinality(Coins(V)) =< Deposit
  BY <1>3, <1>4, <1>5, <1>6
<1> QED BY <1>7 DEF Worth, V, o

FewerUpdates(net, aw, w, b) ==
  /\ \A m \in w \cup b : m.kind = "update" => m \in net \cup aw
  /\ \A m \in w : m.kind = "open" => m \in net

OthersStay(r, ch, c) ==
  \A q \in Pod : q # r => c[q].id = ch[q].id /\ c[q].local = ch[q].local /\ c[q].sequence = ch[q].sequence

LEMMA OpeningIs == \A p, i : [kind |-> "open", to |-> p, id |-> i].kind = "open"
OBVIOUS

(* What is live at a pod whose view keeps its channel and its count.        *)
LEMMA LiveStays ==
  ASSUME NEW ch, NEW net, NEW aw, NEW c, NEW w, NEW b, FewerUpdates(net, aw, w, b), NEW i,
         NEW x \in Live(i, c, w, b), c[x.to].id = ch[x.to].id,
         Redelivers /\ c[x.to].id = i => (x.sequence > c[x.to].sequence => x.sequence > ch[x.to].sequence)
  PROVE  x \in Live(i, ch, net, aw)
<1>1. x \in net \cup aw /\ x.kind = "update" /\ x.id = i
  BY DEF Live, FewerUpdates
<1>2. ASSUME Redelivers PROVE Pending(x, i, ch, net)
  <2>1. Pending(x, i, c, w)
    BY <1>2 DEF Live
  <2>2. [kind |-> "open", to |-> x.to, id |-> i] \in w => [kind |-> "open", to |-> x.to, id |-> i] \in net
    BY OpeningIs, Zenon DEF FewerUpdates
  <2> QED BY <1>2, <2>1, <2>2 DEF Pending
<1> QED BY <1>1, <1>2 DEF Live

LEMMA SolventSame ==
  ASSUME NEW ch, NEW net, NEW aw, NEW n, NEW t, Known(ch, net, aw, n, t),
         NEW c, NEW w, NEW b, NEW k, Whole(c, k), FewerUpdates(net, aw, w, b),
         \A q \in Pod : c[q].id = ch[q].id /\ c[q].local = ch[q].local /\ c[q].sequence = ch[q].sequence
  PROVE  Solvent(c, w, b)
<1> SUFFICES ASSUME NEW p \in Pod, NEW i \in Nat PROVE Worth(p, i, c, w, b) =< Deposit
  BY DEF Solvent
<1>1. \A q \in Pod : Share(c[q], i) =< Share(ch[q], i)
  <2>1. \A q \in Pod : Share(c[q], i) = Share(ch[q], i) /\ Share(c[q], i) \in Nat
    BY ShareIs DEF Share
  <2> QED BY <2>1
<1>2. \A x \in Live(i, c, w, b) : x.to \in Pod
  BY DEF Live, FewerUpdates, Known, Mail, IsMail
<1>3. Live(i, c, w, b) \subseteq Live(i, ch, net, aw)
  BY <1>2, LiveStays
<1> QED BY <1>1, <1>3, WorthNotMore

LEMMA SolventJoined ==
  ASSUME NEW ch, NEW net, NEW aw, NEW n, NEW t, Known(ch, net, aw, n, t),
         NEW c, NEW w, NEW b, NEW k, Whole(c, k), FewerUpdates(net, aw, w, b),
         NEW r \in Pod, OthersStay(r, ch, c), c[r].local = 0,
         Redelivers => [kind |-> "open", to |-> r, id |-> c[r].id] \in net
  PROVE  Solvent(c, w, b)
<1> SUFFICES ASSUME NEW p \in Pod, NEW i \in Nat PROVE Worth(p, i, c, w, b) =< Deposit
  BY DEF Solvent
<1>1. \A q \in Pod : Share(c[q], i) =< Share(ch[q], i)
  <2>1. \A q \in Pod : Share(c[q], i) \in Nat /\ Share(ch[q], i) \in Nat
    BY ShareIs DEF Known
  <2>2. \A q \in Pod : q # r => Share(c[q], i) = Share(ch[q], i)
    BY DEF Share, OthersStay
  <2>3. Share(c[r], i) = 0
    BY DEF Share
  <2> QED BY <2>1, <2>2, <2>3
<1>2. \A x \in Live(i, c, w, b) : x.to \in Pod /\ x \in net \cup aw /\ x.kind = "update" /\ x.id = i
  BY DEF Live, FewerUpdates, Known, Mail, IsMail
<1>3. ASSUME NEW x \in Live(i, c, w, b) PROVE x \in Live(i, ch, net, aw)
  <2>1. CASE x.to # r
    BY <1>2, <2>1, LiveStays DEF OthersStay
  <2>2. CASE x.to = r
    <3>1. ASSUME Redelivers PROVE Pending(x, i, ch, net)
      <4> DEFINE u == [kind |-> "open", to |-> r, id |-> i]
      <4>1. u.kind = "open" /\ u.to = r /\ u.id = i
        OBVIOUS
      <4>2. u \in net
        <5>1. CASE c[r].id = i
          BY <3>1, <5>1
        <5>2. CASE c[r].id # i
          <6>1. Pending(x, i, c, w)
            BY <3>1 DEF Live
          <6>2. u \in w
            BY <2>2, <5>2, <6>1 DEF Pending
          <6> HIDE DEF u
          <6> QED BY <4>1, <6>2 DEF FewerUpdates
        <5> QED BY <5>1, <5>2
      <4> HIDE DEF u
      <4>3. ch[r].id # i
        BY <3>1, <4>1, <4>2 DEF Known, Mail
      <4> QED BY <2>2, <4>2, <4>3 DEF Pending, u
    <3> QED BY <1>2, <3>1 DEF Live
  <2> QED BY <2>1, <2>2
<1> QED BY <1>1, <1>3, WorthNotMore

LEMMA SolventOpened ==
  ASSUME NEW ch, NEW net, NEW aw, NEW n, NEW t, Known(ch, net, aw, n, t),
         NEW c, NEW w, NEW k, Whole(c, k), NEW r \in Pod, OthersStay(r, ch, c),
         c[r].id = n + 1, c[r].local = Deposit,
         w = net \cup {[kind |-> "open", to |-> Other(r), id |-> n + 1]}
  PROVE  Solvent(c, w, aw)
<1> DEFINE u == [kind |-> "open", to |-> Other(r), id |-> n + 1]
<1>0. u.kind = "open" /\ u.id = n + 1 /\ w = net \cup {u}
  OBVIOUS
<1>1. /\ n \in Nat /\ PayBounds /\ Deposit \in Nat /\ Whole(ch, n)
      /\ \A q \in Pod : ch[q].id \in Nat /\ ch[q].id =< n
  BY DEF Known, Mail, PayBounds, Whole, Account
<1> SUFFICES ASSUME NEW p \in Pod, NEW i \in Nat PROVE Worth(p, i, c, w, aw) =< Deposit
  BY DEF Solvent
<1> HIDE DEF u
<1>2. \A x \in Live(i, c, w, aw) : x.to \in Pod /\ x \in net \cup aw /\ x.kind = "update" /\ x.id = i /\ i =< n
  BY <1>0, <1>1 DEF Live, Known, Mail, IsMail
<1>3. CASE i = n + 1
  <2>1. Live(i, c, w, aw) = {}
    <3> SUFFICES ASSUME NEW x \in Live(i, c, w, aw) PROVE FALSE
      OBVIOUS
    <3>1. i =< n
      BY <1>2
    <3> QED BY <1>1, <1>3, <3>1
  <2>2. Cardinality(Coins({})) = 0
    <3>1. Coins({}) = {}
      BY DEF Coins
    <3> QED BY <3>1, FS_EmptySet, Zenon
  <2>3. Share(c[r], i) = Deposit /\ \A q \in Pod : q # r => Share(c[q], i) = 0
    BY <1>1, <1>3 DEF Share, OthersStay
  <2>4. Share(c[p], i) + Share(c[Other(p)], i) = Deposit
    BY <1>1, <2>3, TwoPods
  <2>5. Cardinality(Coins(Live(i, c, w, aw))) = 0
    BY <2>1, <2>2, Zenon
  <2>6. Deposit + 0 =< Deposit
    BY <1>1
  <2> QED BY <2>4, <2>5, <2>6 DEF Worth
<1>4. CASE i # n + 1
  <2>1. \A q \in Pod : Share(c[q], i) =< Share(ch[q], i)
    <3>1. \A q \in Pod : Share(c[q], i) \in Nat /\ Share(ch[q], i) \in Nat
      BY <1>1, ShareIs
    <3>2. \A q \in Pod : q # r => Share(c[q], i) = Share(ch[q], i)
      BY DEF Share, OthersStay
    <3>3. Share(c[r], i) = 0
      BY <1>4 DEF Share
    <3> QED BY <3>1, <3>2, <3>3
  <2>2. ASSUME NEW x \in Live(i, c, w, aw) PROVE x \in Live(i, ch, net, aw)
    <3>1. ASSUME Redelivers PROVE Pending(x, i, ch, net)
      <4> DEFINE o == [kind |-> "open", to |-> x.to, id |-> i]
      <4>1. o.kind = "open" /\ o.to = x.to /\ o.id = i
        OBVIOUS
      <4>2. Pending(x, i, c, w)
        BY <3>1 DEF Live
      <4>3. o # u
        BY <1>0, <1>4, <4>1
      <4>4. c[x.to].id # i => o \in net
        <5>1. c[x.to].id # i => o \in w
          BY <4>2 DEF Pending
        <5> HIDE DEF o
        <5> QED BY <1>0, <4>3, <5>1
      <4>5. CASE x.to # r
        BY <1>2, <4>2, <4>4, <4>5 DEF Pending, OthersStay
      <4>6. CASE x.to = r
        <5>1. o \in net
          BY <1>4, <4>4, <4>6
        <5> HIDE DEF o
        <5>2. ch[r].id # i
          BY <3>1, <4>1, <4>6, <5>1 DEF Known, Mail
        <5> QED BY <4>6, <5>1, <5>2 DEF Pending, o
      <4> QED BY <4>5, <4>6
    <3> QED BY <1>2, <3>1 DEF Live
  <2> QED BY <2>1, <2>2, WorthNotMore
<1> QED BY <1>3, <1>4

LEMMA SolventPaid ==
  ASSUME NEW ch, NEW net, NEW aw, NEW n, NEW t, Known(ch, net, aw, n, t),
         NEW c, NEW w, NEW k, Whole(c, k), NEW r \in Pod, OthersStay(r, ch, c),
         NEW m, m.amount \in 1..Deposit, m.id = ch[r].id, m.kind = "update", m.to \in Pod,
         c[r].id = ch[r].id, c[r].local = ch[r].local - m.amount, c[r].sequence = ch[r].sequence + 1,
         w = net \cup {m}
  PROVE  Solvent(c, w, aw)
<1> SUFFICES ASSUME NEW p \in Pod, NEW i \in Nat PROVE Worth(p, i, c, w, aw) =< Deposit
  BY DEF Solvent
<1>1. /\ Whole(ch, n) /\ \A q \in Pod : ch[q].sequence \in Nat
      /\ \A x \in net \cup aw : x.to \in Pod /\ (x.kind = "update" => x.sequence \in Nat)
  BY DEF Known, Mail, IsMail, Whole, Account
<1>2. ASSUME NEW x \in Live(i, c, w, aw), x # m PROVE x \in Live(i, ch, net, aw)
  <2>1. x \in net \cup aw /\ x.kind = "update" /\ x.id = i /\ x.to \in Pod
    BY <1>1, <1>2 DEF Live
  <2>2. ASSUME Redelivers PROVE Pending(x, i, ch, net)
    <3>1. Pending(x, i, c, w)
      BY <2>2 DEF Live
    <3>2. [kind |-> "open", to |-> x.to, id |-> i] \in w => [kind |-> "open", to |-> x.to, id |-> i] \in net
      <4> DEFINE o == [kind |-> "open", to |-> x.to, id |-> i]
      <4>1. o.kind = "open"
        OBVIOUS
      <4> HIDE DEF o
      <4>2. o # m
        BY <4>1
      <4> QED BY <4>2 DEF o
    <3>3. /\ c[x.to].id = ch[x.to].id
          /\ c[x.to].sequence = ch[x.to].sequence \/ c[x.to].sequence = ch[x.to].sequence + 1
      BY <2>1 DEF OthersStay
    <3> QED BY <1>1, <2>1, <3>1, <3>2, <3>3 DEF Pending
  <2> QED BY <2>1, <2>2 DEF Live
<1>3. \A q \in Pod : q # r => Share(c[q], i) = Share(ch[q], i)
  BY DEF Share, OthersStay
<1>4. CASE i = ch[r].id
  <2>1. Share(c[r], i) = Share(ch[r], i) - m.amount
    BY <1>4 DEF Share
  <2>2. Live(i, c, w, aw) \subseteq Live(i, ch, net, aw) \cup {m}
    BY <1>2
  <2>3. PartsWith(m.amount, r, i, ch, c)
    BY <1>3, <2>1 DEF PartsWith
  <2> QED BY <2>2, <2>3, WorthPaid, Zenon
<1>5. CASE i # ch[r].id
  <2>1. \A q \in Pod : Share(c[q], i) =< Share(ch[q], i)
    <3>1. Share(c[r], i) = 0 /\ Share(ch[r], i) = 0
      BY <1>5 DEF Share
    <3>2. \A q \in Pod : Share(ch[q], i) \in Nat
      BY <1>1, ShareIs
    <3> QED BY <1>3, <3>1, <3>2
  <2>2. Live(i, c, w, aw) \subseteq Live(i, ch, net, aw)
    BY <1>2, <1>5 DEF Live
  <2> QED BY <2>1, <2>2, WorthNotMore
<1> QED BY <1>4, <1>5

LEMMA SolventApplied ==
  ASSUME NEW ch, NEW net, NEW aw, NEW n, NEW t, Known(ch, net, aw, n, t),
         NEW c, NEW w, NEW b, NEW k, Whole(c, k), FewerUpdates(net, aw, w, b),
         NEW m \in net \cup aw, m.kind = "update", OthersStay(m.to, ch, c), m.id = ch[m.to].id,
         c[m.to].id = ch[m.to].id, c[m.to].local = ch[m.to].local + m.amount,
         c[m.to].sequence = m.sequence,
         IF Redelivers THEN m.sequence > ch[m.to].sequence ELSE m \notin w \cup b
  PROVE  Solvent(c, w, b)
<1> SUFFICES ASSUME NEW p \in Pod, NEW i \in Nat PROVE Worth(p, i, c, w, b) =< Deposit
  BY DEF Solvent
<1>1. /\ Whole(ch, n) /\ \A q \in Pod : ch[q].sequence \in Nat
      /\ \A x \in net \cup aw : x.to \in Pod /\ (x.kind = "update" => x.sequence \in Nat)
      /\ m.amount \in 1..Deposit /\ m.to \in Pod /\ m.id \in Nat
  BY DEF Known, Mail, IsMail, Whole, Account
<1>2. ASSUME NEW x \in Live(i, c, w, b) PROVE x \in Live(i, ch, net, aw) /\ (x # m \/ i # m.id)
  <2>1. x \in net \cup aw /\ x.kind = "update" /\ x.id = i /\ x.to \in Pod /\ x \in w \cup b
    BY <1>1 DEF Live, FewerUpdates
  <2>2. c[x.to].id = ch[x.to].id
    BY <2>1 DEF OthersStay
  <2>3. Redelivers /\ c[x.to].id = i => (x.sequence > c[x.to].sequence => x.sequence > ch[x.to].sequence)
    <3>1. CASE x.to = m.to
      BY <1>1, <2>1, <3>1
    <3>2. CASE x.to # m.to
      BY <2>1, <3>2 DEF OthersStay
    <3> QED BY <3>1, <3>2
  <2>4. ASSUME x = m, i = m.id PROVE FALSE
    <3>1. Redelivers
      BY <2>1, <2>4
    <3>2. Pending(x, i, c, w)
      BY <3>1 DEF Live
    <3>3. m.sequence > m.sequence
      BY <2>4, <3>2 DEF Pending
    <3> QED BY <1>1, <3>3
  <2> QED BY <2>2, <2>3, <2>4, LiveStays
<1>3. \A q \in Pod : q # m.to => Share(c[q], i) = Share(ch[q], i)
  BY DEF Share, OthersStay
<1>4. CASE i = m.id
  <2>1. Share(c[m.to], i) = Share(ch[m.to], i) + m.amount
    BY <1>4 DEF Share
  <2>2. Live(i, c, w, b) \subseteq Live(i, ch, net, aw) \ {m}
    BY <1>2, <1>4
  <2>3. m \in Live(i, ch, net, aw)
    BY <1>4 DEF Live, Pending
  <2> QED BY <1>1, <1>3, <2>1, <2>2, <2>3, WorthReceived
<1>5. CASE i # m.id
  <2>1. \A q \in Pod : Share(c[q], i) =< Share(ch[q], i)
    <3>1. Share(c[m.to], i) = 0 /\ Share(ch[m.to], i) = 0
      BY <1>5 DEF Share
    <3>2. \A q \in Pod : Share(ch[q], i) \in Nat
      BY <1>1, ShareIs
    <3> QED BY <1>3, <3>1, <3>2
  <2>2. Live(i, c, w, b) \subseteq Live(i, ch, net, aw)
    BY <1>2
  <2> QED BY <2>1, <2>2, WorthNotMore
<1> QED BY <1>4, <1>5

-----------------------------------------------------------------------------
(* Every operation keeps the views and the messages in order.               *)
LEMMA ViewIsAccount ==
  ASSUME NEW i \in Nat, NEW s \in BOOLEAN, NEW a \in Nat, NEW b \in Nat
  PROVE  View("open", i, s, a, b) \in Account
BY DEF View, Account

LEMMA OpenKeeps ==
  ASSUME NEW ch, NEW net, NEW aw, NEW n, NEW t, Known(ch, net, aw, n, t), NEW p \in Pod,
         NEW c, c = [ch EXCEPT ![p] = View("open", n + 1, Signs, Deposit, 0)],
         NEW w, w = net \cup {[kind |-> "open", to |-> Other(p), id |-> n + 1]}
  PROVE  Known(c, w, aw, n + 1, t)
<1> DEFINE u == [kind |-> "open", to |-> Other(p), id |-> n + 1]
           v == View("open", n + 1, Signs, Deposit, 0)
<1>1. /\ PayBounds /\ Deposit \in Nat /\ Signs \in BOOLEAN /\ n \in Nat /\ t \in Nat
      /\ ch \in [Pod -> Account] /\ Whole(ch, n) /\ Mail(ch, net, aw, n, t)
  BY DEF Known, PayBounds, Mail, Whole
<1>2. /\ v \in Account /\ v.id = n + 1 /\ v.local = Deposit /\ v.remote = 0 /\ v.signs = Signs
      /\ v.state = "open" /\ v.sequence = 0
  BY <1>1, ViewIsAccount DEF View
<1>3. u.kind = "open" /\ u.to = Other(p) /\ u.id = n + 1 /\ u = [kind |-> "open", to |-> u.to, id |-> u.id]
  OBVIOUS
<1>4. Other(p) \in Pod /\ Other(p) # p
  BY <1>1, TwoPods
<1> HIDE DEF u, v
<1>5. c \in [Pod -> Account] /\ c[p] = v /\ \A q \in Pod : q # p => c[q] = ch[q]
  BY <1>1, <1>2 DEF v
<1>6. Whole(c, n + 1)
  <2>1. ASSUME NEW q \in Pod
        PROVE  /\ c[q].id =< n + 1
               /\ c[q].local + c[q].remote = IF c[q].id = 0 THEN 0 ELSE Deposit
               /\ c[q].id = 0 => c[q].local = 0
               /\ c[q].state # "closed" => c[q].id # 0
    <3>1. CASE q = p
      BY <1>1, <1>2, <1>5, <3>1
    <3>2. CASE q # p
      <4>1. c[q] = ch[q] /\ ch[q].id \in Nat /\ ch[q].id =< n
        BY <1>1, <1>5, <3>2 DEF Whole, Account
      <4> QED BY <1>1, <4>1 DEF Whole
    <3> QED BY <3>1, <3>2
  <2> QED BY <1>5, <2>1 DEF Whole
<1>7. w = net \cup {u} /\ IsFiniteSet(w)
  BY <1>1, FS_AddElement DEF u, Mail
<1>8. IsMail(u, n + 1, t)
  BY <1>1, <1>3, <1>4 DEF IsMail
<1>9. \A m \in net \cup aw : IsMail(m, n, t) /\ IsMail(m, n + 1, t) /\ m.to \in Pod
  <2>1. 1..n \subseteq 1..(n + 1)
    BY <1>1
  <2> QED BY <1>1, <2>1 DEF Mail, IsMail
<1>10. \A m \in aw : c[m.to].id # 0
  BY <1>1, <1>2, <1>5, <1>9 DEF Mail
<1>11. ASSUME Redelivers
       PROVE  /\ aw = {} /\ \A q \in Pod : ~ c[q].signs
              /\ \A m \in w : m.kind = "open" => c[m.to].id # m.id
  <2>1. aw = {} /\ ~ Signs /\ \A q \in Pod : ~ ch[q].signs
    BY <1>1, <1>11 DEF Mail, PayBounds
  <2>2. \A q \in Pod : ~ c[q].signs
    BY <1>2, <1>5, <2>1
  <2>3. ASSUME NEW m \in net, m.kind = "open" PROVE c[m.to].id # m.id
    <3>1. m.id \in 1..n /\ m.to \in Pod /\ ch[m.to].id # m.id
      BY <1>1, <1>9, <1>11, <2>3 DEF Mail, IsMail
    <3> QED BY <1>1, <1>2, <1>5, <3>1
  <2>4. c[u.to].id # u.id
    <3>1. ch[Other(p)].id \in Nat /\ ch[Other(p)].id =< n
      BY <1>1, <1>4 DEF Whole, Account
    <3> QED BY <1>1, <1>3, <1>4, <1>5, <3>1
  <2> QED BY <1>7, <2>1, <2>2, <2>3, <2>4
<1>12. Mail(c, w, aw, n + 1, t)
  <2>1. ~ Redelivers => \A m \in w : m.kind = "update" => m \notin aw
    BY <1>1, <1>3, <1>7 DEF Mail
  <2>2. \A m \in w \cup aw : IsMail(m, n + 1, t)
    BY <1>7, <1>8, <1>9
  <2>3. IsFiniteSet(aw) /\ n + 1 \in Nat
    BY <1>1 DEF Mail
  <2> QED BY <1>1, <1>7, <1>10, <1>11, <2>1, <2>2, <2>3 DEF Mail
<1>13. Solvent(c, w, aw)
  <2>1. OthersStay(p, ch, c)
    BY <1>5 DEF OthersStay
  <2>2. c[p].id = n + 1 /\ c[p].local = Deposit
    BY <1>2, <1>5
  <2> QED BY <1>6, <2>1, <2>2, SolventOpened
<1> QED BY <1>1, <1>6, <1>12, <1>13 DEF Known

(* A pod takes up its side of channel j, without credits of its own.        *)
LEMMA JoinKeeps ==
  ASSUME NEW ch, NEW net, NEW aw, NEW n, NEW t, Known(ch, net, aw, n, t),
         NEW p \in Pod, NEW j \in 1..n, NEW s \in BOOLEAN,
         NEW c, c = [ch EXCEPT ![p] = View("open", j, s, 0, Deposit)], NEW w \in SUBSET net,
         Redelivers => /\ ~ s /\ [kind |-> "open", to |-> p, id |-> j] \in net
                       /\ [kind |-> "open", to |-> p, id |-> j] \notin w
  PROVE  Known(c, w, aw, n, t)
<1> DEFINE v == View("open", j, s, 0, Deposit)
<1>1. /\ PayBounds /\ Deposit \in Nat /\ n \in Nat /\ j \in Nat /\ j # 0
      /\ ch \in [Pod -> Account] /\ Whole(ch, n) /\ Mail(ch, net, aw, n, t)
  <2>1. n \in Nat
    BY DEF Known, Mail
  <2>2. j \in Nat /\ j # 0
    BY <2>1
  <2> QED BY <2>1, <2>2 DEF Known, PayBounds, Whole
<1>2. /\ v \in Account /\ v.id = j /\ v.local = 0 /\ v.remote = Deposit /\ v.signs = s
      /\ v.state = "open" /\ v.sequence = 0
  BY <1>1, ViewIsAccount DEF View
<1> HIDE DEF v
<1>3. c \in [Pod -> Account] /\ c[p] = v /\ \A q \in Pod : q # p => c[q] = ch[q]
  BY <1>1, <1>2 DEF v
<1>4. Whole(c, n)
  BY <1>1, <1>2, <1>3 DEF Whole
<1>5. \A m \in net \cup aw : IsMail(m, n, t) /\ m.to \in Pod
  BY <1>1 DEF Mail, IsMail
<1>6. \A m \in aw : c[m.to].id # 0
  BY <1>1, <1>2, <1>3, <1>5 DEF Mail
<1>7. ASSUME Redelivers
      PROVE  /\ aw = {} /\ \A q \in Pod : ~ c[q].signs
             /\ \A m \in w : m.kind = "open" => c[m.to].id # m.id
  <2>1. aw = {} /\ \A q \in Pod : ~ c[q].signs
    BY <1>1, <1>2, <1>3, <1>7 DEF Mail
  <2>2. ASSUME NEW m \in w, m.kind = "open" PROVE c[m.to].id # m.id
    <3>1. /\ m.to \in Pod /\ ch[m.to].id # m.id /\ m = [kind |-> "open", to |-> m.to, id |-> m.id]
      BY <1>1, <1>5, <1>7, <2>2 DEF Mail, IsMail
    <3>2. CASE m.to = p
      <4>1. m.id # j
        BY <1>7, <3>1, <3>2
      <4> QED BY <1>2, <1>3, <3>2, <4>1
    <3>3. CASE m.to # p
      BY <1>3, <3>1, <3>3
    <3> QED BY <3>2, <3>3
  <2> QED BY <2>1, <2>2
<1>8. Mail(c, w, aw, n, t)
  <2>1. IsFiniteSet(w)
    BY <1>1, FS_Subset DEF Mail
  <2> QED BY <1>1, <1>5, <1>6, <1>7, <2>1 DEF Mail
<1>9. Solvent(c, w, aw)
  <2>1. OthersStay(p, ch, c)
    BY <1>3 DEF OthersStay
  <2>2. c[p].id = j /\ c[p].local = 0
    BY <1>2, <1>3
  <2>3. FewerUpdates(net, aw, w, aw)
    BY DEF FewerUpdates
  <2> QED BY <1>4, <2>1, <2>2, <2>3, SolventJoined
<1> QED BY <1>1, <1>4, <1>8, <1>9 DEF Known

(* pay() and #applyReceive() change three fields of a view.                 *)
Moved(v, l, r, s) == [v EXCEPT !.local = l, !.remote = r, !.sequence = s]

IsMoved(x, v, l, r, s) ==
  /\ x \in Account /\ x.local = l /\ x.remote = r /\ x.sequence = s
  /\ x.id = v.id /\ x.state = v.state /\ x.signs = v.signs

LEMMA AccountMoves ==
  ASSUME NEW v \in Account, NEW l \in Nat, NEW r \in Int, NEW s \in Nat
  PROVE  IsMoved(Moved(v, l, r, s), v, l, r, s)
<1> DEFINE x == Moved(v, l, r, s)
<1>1. x \in Account
  BY DEF Account, Moved
<1>2. x.local = l /\ x.remote = r /\ x.sequence = s
  BY DEF Account, Moved
<1>3. x.id = v.id /\ x.state = v.state /\ x.signs = v.signs
  BY DEF Account, Moved
<1> QED BY <1>1, <1>2, <1>3 DEF IsMoved

Carries(m, r, ch, c) ==
  /\ m.amount \in 1..Deposit /\ m.id = ch[r].id /\ m.kind = "update" /\ m.to \in Pod
  /\ c[r].id = ch[r].id /\ c[r].local = ch[r].local - m.amount /\ c[r].sequence = ch[r].sequence + 1

LEMMA SolventCarried ==
  ASSUME NEW ch, NEW net, NEW aw, NEW n, NEW t, Known(ch, net, aw, n, t),
         NEW c, NEW k, Whole(c, k), NEW r \in Pod, OthersStay(r, ch, c), NEW m, Carries(m, r, ch, c)
  PROVE  Solvent(c, net \cup {m}, aw)
BY SolventPaid DEF Carries

(* Pod p pays m.amount, which m carries to the other pod.                   *)
LEMMA PayKeeps ==
  ASSUME NEW ch, NEW net, NEW aw, NEW n, NEW t, Known(ch, net, aw, n, t),
         NEW p \in Pod, ch[p].state = "open", NEW a \in 1..Deposit, a =< ch[p].local,
         NEW m, m = [kind |-> "update", to |-> Other(p), id |-> ch[p].id, signed |-> ch[p].signs,
                     sequence |-> ch[p].sequence + 1, amount |-> a, time |-> t],
         NEW c, c = [ch EXCEPT ![p].local = @ - a, ![p].remote = @ + a, ![p].sequence = @ + 1]
  PROVE  Known(c, net \cup {m}, aw, n, t + 1)
<1>0. PICK w : w = net \cup {m}
  OBVIOUS
<1>1. /\ PayBounds /\ Deposit \in Nat /\ n \in Nat /\ t \in Nat
      /\ ch \in [Pod -> Account] /\ Whole(ch, n) /\ Mail(ch, net, aw, n, t)
  BY DEF Known, PayBounds, Mail, Whole
<1>2. /\ ch[p] \in Account /\ ch[p].id \in 1..n /\ ch[p].local \in Nat /\ ch[p].sequence \in Nat /\ ch[p].remote \in Int
      /\ a \in Nat /\ a > 0
  BY <1>1 DEF Whole, Account
<1>3. /\ c[p] \in Account /\ c[p].id = ch[p].id /\ c[p].local = ch[p].local - a /\ c[p].state = ch[p].state
      /\ c[p].remote = ch[p].remote + a /\ c[p].sequence = ch[p].sequence + 1 /\ c[p].signs = ch[p].signs
  <2>1. c[p] = [ch[p] EXCEPT !.local = @ - a, !.remote = @ + a, !.sequence = @ + 1]
    BY <1>1
  <2>2. ch[p].local - a \in Nat /\ ch[p].remote + a \in Int /\ ch[p].sequence + 1 \in Nat
    BY <1>2
  <2>3. c[p] = Moved(ch[p], ch[p].local - a, ch[p].remote + a, ch[p].sequence + 1)
    BY <2>1 DEF Moved
  <2>4. PICK l \in Nat, r \in Int, s \in Nat : l = ch[p].local - a /\ r = ch[p].remote + a /\ s = ch[p].sequence + 1
    BY <1>1, <1>2, <2>2
  <2>5. IsMoved(Moved(ch[p], l, r, s), ch[p], l, r, s)
    BY <1>2, AccountMoves
  <2>6. c[p] = Moved(ch[p], l, r, s)
    BY <2>3, <2>4
  <2>7. IsMoved(c[p], ch[p], l, r, s)
    BY <2>5, <2>6
  <2> QED BY <2>4, <2>7 DEF IsMoved
<1>4. c \in [Pod -> Account] /\ \A q \in Pod : q # p => c[q] = ch[q]
  BY <1>1, <1>2, <1>3
<1>5. /\ m.kind = "update" /\ m.to = Other(p) /\ m.id = ch[p].id /\ m.amount = a /\ m.time = t
      /\ m.sequence = ch[p].sequence + 1 /\ m.to \in Pod
  BY <1>1, TwoPods
<1>6. Whole(c, n)
  <2>1. ASSUME NEW q \in Pod
        PROVE  /\ c[q].id =< n
               /\ c[q].local + c[q].remote = IF c[q].id = 0 THEN 0 ELSE Deposit
               /\ c[q].id = 0 => c[q].local = 0
               /\ c[q].state # "closed" => c[q].id # 0
    <3>1. CASE q = p
      BY <1>1, <1>2, <1>3, <3>1 DEF Whole
    <3>2. CASE q # p
      BY <1>1, <1>4, <3>2 DEF Whole
    <3> QED BY <3>1, <3>2
  <2> QED BY <1>4, <2>1 DEF Whole
<1>7. \A x \in net \cup aw : IsMail(x, n, t) /\ IsMail(x, n, t + 1) /\ x.to \in Pod
  BY <1>1 DEF Mail, IsMail
<1>8. IsMail(m, n, t + 1)
  BY <1>1, <1>2, <1>5 DEF IsMail
<1>9. m \notin net \cup aw
  <2> SUFFICES ASSUME m \in net \cup aw PROVE FALSE
    OBVIOUS
  <2>1. m.time < t
    BY <1>5, <1>7 DEF IsMail
  <2> QED BY <1>1, <1>5, <2>1
<1>10. \A q \in Pod : c[q].id = ch[q].id /\ c[q].signs = ch[q].signs
  BY <1>3, <1>4
<1>11. Mail(c, w, aw, n, t + 1)
  <2>1. IsFiniteSet(w)
    BY <1>0, <1>1, FS_AddElement DEF Mail
  <2>2. \A x \in aw : c[x.to].id # 0
    BY <1>1, <1>7, <1>10 DEF Mail
  <2>3. ~ Redelivers => \A x \in w : x.kind = "update" => x \notin aw
    BY <1>0, <1>1, <1>9 DEF Mail
  <2>4. Redelivers => /\ aw = {} /\ \A q \in Pod : ~ c[q].signs
                      /\ \A x \in w : x.kind = "open" => c[x.to].id # x.id
    BY <1>0, <1>1, <1>5, <1>7, <1>10 DEF Mail
  <2>5. \A x \in w \cup aw : IsMail(x, n, t + 1)
    BY <1>0, <1>7, <1>8
  <2>6. IsFiniteSet(aw) /\ t + 1 \in Nat
    BY <1>1 DEF Mail
  <2> QED BY <1>1, <2>1, <2>2, <2>3, <2>4, <2>5, <2>6 DEF Mail
<1>12. Solvent(c, w, aw)
  <2>1. OthersStay(p, ch, c)
    BY <1>4 DEF OthersStay
  <2>2. Carries(m, p, ch, c)
    BY <1>3, <1>5 DEF Carries
  <2>3. Solvent(c, net \cup {m}, aw)
    BY <1>6, <2>1, <2>2, SolventCarried, Zenon
  <2> QED BY <1>0, <2>3
<1>13. Known(c, w, aw, n, t + 1)
  BY <1>1, <1>6, <1>11, <1>12 DEF Known
<1> QED BY <1>0, <1>13

(* Messages of the next moment: no new updates and openings, and what waits *)
(* is of a channel in use.                                                  *)
MailMoves(ch, net, aw, w, b, n, t) ==
  /\ FewerUpdates(net, aw, w, b)
  /\ IsFiniteSet(w) /\ IsFiniteSet(b)
  /\ \A m \in w \cup b : IsMail(m, n, t)
  /\ \A m \in b : ch[m.to].id # 0
  /\ ~ Redelivers => \A m \in w : m.kind = "update" => m \notin b
  /\ Redelivers => b = {}

(* The same channels, balances and counts. *)
SameViews(ch, c) ==
  \A q \in Pod : /\ c[q].id = ch[q].id /\ c[q].local = ch[q].local /\ c[q].remote = ch[q].remote
                 /\ c[q].sequence = ch[q].sequence /\ c[q].signs = ch[q].signs
                 /\ c[q].state # "closed" => ch[q].state # "closed"

LEMMA SameIds ==
  ASSUME NEW ch, NEW net, NEW aw, NEW n, NEW t, Known(ch, net, aw, n, t), NEW c,
         \A q \in Pod : c[q].id = ch[q].id /\ c[q].signs = ch[q].signs,
         NEW w, NEW b, MailMoves(ch, net, aw, w, b, n, t)
  PROVE  Mail(c, w, b, n, t)
<1>1. Mail(ch, net, aw, n, t) /\ n \in Nat /\ t \in Nat
  BY DEF Known, Mail
<1>2. \A m \in w \cup b : m.to \in Pod
  BY DEF MailMoves, IsMail
<1>3. \A m \in b : c[m.to].id # 0
  BY <1>2 DEF MailMoves
<1>4. Redelivers => \A m \in w : m.kind = "open" => c[m.to].id # m.id
  BY <1>1, <1>2 DEF MailMoves, FewerUpdates, Mail
<1>5. Redelivers => \A q \in Pod : ~ c[q].signs
  BY <1>1 DEF Mail
<1> QED BY <1>1, <1>3, <1>4, <1>5 DEF Mail, MailMoves

LEMMA SameKeeps ==
  ASSUME NEW ch, NEW net, NEW aw, NEW n, NEW t, Known(ch, net, aw, n, t),
         NEW c \in [Pod -> Account], SameViews(ch, c),
         NEW w, NEW b, MailMoves(ch, net, aw, w, b, n, t)
  PROVE  Known(c, w, b, n, t)
<1>1. Whole(c, n)
  BY DEF Known, Whole, SameViews
<1>2. Mail(c, w, b, n, t)
  BY SameIds DEF SameViews
<1>3. Solvent(c, w, b)
  BY <1>1, SolventSame DEF SameViews, MailMoves
<1> QED BY <1>1, <1>2, <1>3 DEF Known

(* #applyReceive() *)
LEMMA ApplyKeeps ==
  ASSUME NEW ch, NEW net, NEW aw, NEW n, NEW t, Known(ch, net, aw, n, t),
         NEW m \in net \cup aw, m.kind = "update", m.id = ch[m.to].id,
         NEW c, c = [ch EXCEPT ![m.to].local = @ + m.amount, ![m.to].remote = @ - m.amount,
                               ![m.to].sequence = m.sequence],
         NEW w, NEW b, MailMoves(ch, net, aw, w, b, n, t),
         IF Redelivers THEN m.sequence > ch[m.to].sequence ELSE m \notin w \cup b
  PROVE  Known(c, w, b, n, t)
<1> DEFINE p == m.to
<1>1. /\ PayBounds /\ Deposit \in Nat /\ n \in Nat /\ p \in Pod /\ m.id \in 1..n /\ m.sequence \in Nat /\ m.amount \in 1..Deposit
      /\ ch \in [Pod -> Account] /\ Whole(ch, n)
  BY DEF Known, PayBounds, Mail, Whole, IsMail
<1>2. ch[p] \in Account /\ ch[p].id # 0 /\ ch[p].local \in Nat /\ ch[p].remote \in Int /\ m.amount \in Nat
  BY <1>1 DEF Account
<1>3. /\ c[p] \in Account /\ c[p].id = ch[p].id /\ c[p].local = ch[p].local + m.amount /\ c[p].state = ch[p].state
      /\ c[p].remote = ch[p].remote - m.amount /\ c[p].sequence = m.sequence /\ c[p].signs = ch[p].signs
  <2>1. c[p] = [ch[p] EXCEPT !.local = @ + m.amount, !.remote = @ - m.amount, !.sequence = m.sequence]
    BY <1>1
  <2> HIDE DEF p
  <2>2. ch[p].local + m.amount \in Nat /\ ch[p].remote - m.amount \in Int
    BY <1>2
  <2>3. c[p] = Moved(ch[p], ch[p].local + m.amount, ch[p].remote - m.amount, m.sequence)
    BY <2>1 DEF Moved
  <2>4. PICK l \in Nat, r \in Int, s \in Nat : l = ch[p].local + m.amount /\ r = ch[p].remote - m.amount /\ s = m.sequence
    BY <1>1, <1>2, <2>2
  <2>5. IsMoved(Moved(ch[p], l, r, s), ch[p], l, r, s)
    BY <1>2, AccountMoves
  <2>6. c[p] = Moved(ch[p], l, r, s)
    BY <2>3, <2>4
  <2>7. IsMoved(c[p], ch[p], l, r, s)
    BY <2>5, <2>6
  <2> QED BY <2>4, <2>7 DEF IsMoved
<1>4. c \in [Pod -> Account] /\ \A q \in Pod : q # p => c[q] = ch[q]
  BY <1>1, <1>2, <1>3
<1>5. Whole(c, n)
  <2>1. ASSUME NEW q \in Pod
        PROVE  /\ c[q].id =< n
               /\ c[q].local + c[q].remote = IF c[q].id = 0 THEN 0 ELSE Deposit
               /\ c[q].id = 0 => c[q].local = 0
               /\ c[q].state # "closed" => c[q].id # 0
    <3>1. CASE q = p
      <4>1. p \in Pod /\ ch[p].local + ch[p].remote = Deposit /\ ch[p].id =< n
        BY <1>1, <1>2 DEF Whole
      <4>2. c[p].local + c[p].remote = Deposit
        BY <1>1, <1>2, <1>3, <4>1
      <4> HIDE DEF p
      <4> QED BY <1>2, <1>3, <3>1, <4>1, <4>2
    <3>2. CASE q # p
      BY <1>1, <1>4, <3>2 DEF Whole
    <3> QED BY <3>1, <3>2
  <2> QED BY <1>4, <2>1 DEF Whole
<1>6. \A q \in Pod : c[q].id = ch[q].id /\ c[q].signs = ch[q].signs
  BY <1>3, <1>4
<1>7. Mail(c, w, b, n, t)
  BY <1>6, SameIds
<1>8. Solvent(c, w, b)
  <2>1. OthersStay(m.to, ch, c)
    BY <1>4 DEF OthersStay
  <2>2. FewerUpdates(net, aw, w, b)
    BY DEF MailMoves
  <2>3. c[m.to].id = ch[m.to].id /\ c[m.to].local = ch[m.to].local + m.amount /\ c[m.to].sequence = m.sequence
    BY <1>3
  <2> QED BY <1>5, <2>1, <2>2, <2>3, SolventApplied
<1> QED BY <1>1, <1>5, <1>7, <1>8 DEF Known

IsNote(m) == m.to \in Pod /\ m.kind # "update" /\ m.kind # "open"

(* Notes X leave, and messages Y begin to wait.                             *)
LEMMA Moves ==
  ASSUME NEW ch, NEW net, NEW aw, NEW n, NEW t, Known(ch, net, aw, n, t),
         NEW X, IsFiniteSet(X), \A m \in X : IsNote(m), NEW w \in SUBSET (net \cup X),
         NEW Y, IsFiniteSet(Y), \A m \in Y : IsNote(m) \/ (m \in net /\ m \notin w), NEW b \in SUBSET (aw \cup Y),
         \A m \in Y : ch[m.to].id # 0, Redelivers => Y = {}
  PROVE  MailMoves(ch, net, aw, w, b, n, t)
<1>1. Mail(ch, net, aw, n, t)
  BY DEF Known
<1>2. IsFiniteSet(w) /\ IsFiniteSet(b)
  <2>1. IsFiniteSet(net \cup X) /\ IsFiniteSet(aw \cup Y)
    BY <1>1, FS_Union DEF Mail
  <2> QED BY <2>1, FS_Subset
<1>3. \A m \in net \cup aw \cup X \cup Y : IsMail(m, n, t)
  BY <1>1 DEF Mail, IsMail, IsNote
<1>4. FewerUpdates(net, aw, w, b)
  BY DEF FewerUpdates, IsNote
<1>5. \A m \in b : ch[m.to].id # 0
  BY <1>1 DEF Mail
<1>6. ~ Redelivers => \A m \in w : m.kind = "update" => m \notin b
  BY <1>1 DEF Mail, IsNote
<1>7. Redelivers => b = {}
  BY <1>1 DEF Mail
<1> QED BY <1>2, <1>3, <1>4, <1>5, <1>6, <1>7 DEF MailMoves

(* Only the state of a view changes, to another or to "closed". *)
LEMMA StateChange ==
  ASSUME NEW ch, NEW net, NEW aw, NEW n, NEW t, Known(ch, net, aw, n, t), NEW p \in Pod,
         NEW s \in {"open", "closing", "closed"}, s # "closed" => ch[p].state # "closed",
         NEW c, c = [ch EXCEPT ![p].state = s]
  PROVE  c \in [Pod -> Account] /\ SameViews(ch, c)
<1>1. ch \in [Pod -> Account]
  BY DEF Known, Whole
<1>2. /\ c[p] = [ch[p] EXCEPT !.state = s] /\ ch[p] \in Account
      /\ \A q \in Pod : q # p => c[q] = ch[q]
  BY <1>1
<1>3. /\ c[p] \in Account /\ c[p].state = s /\ c[p].id = ch[p].id /\ c[p].local = ch[p].local
      /\ c[p].remote = ch[p].remote /\ c[p].sequence = ch[p].sequence /\ c[p].signs = ch[p].signs
  BY <1>2 DEF Account
<1>4. c \in [Pod -> Account]
  BY <1>1, <1>2, <1>3
<1>5. SameViews(ch, c)
  BY <1>2, <1>3 DEF SameViews
<1> QED BY <1>4, <1>5

LEMMA NoChange ==
  ASSUME NEW ch, NEW net, NEW aw, NEW n, NEW t, Known(ch, net, aw, n, t)
  PROVE  ch \in [Pod -> Account] /\ SameViews(ch, ch)
BY DEF Known, Whole, SameViews

ViewsInv == Known(channel, network, awaiting, opens, pays)

LEMMA OpeningStep ==
  ASSUME ViewsInv, NEW p \in Pod, Open(p) \/ OpenSigned(p)
  PROVE  Known(channel', network', awaiting', opens', pays')
<1>1. PayBounds /\ opens \in Nat /\ channel \in [Pod -> Account] /\ Whole(channel, opens)
  BY DEF ViewsInv, Known, Mail, Whole
<1>2. CASE Open(p)
  <2>1. /\ channel' = [channel EXCEPT ![p] = View("open", opens + 1, Signs, Deposit, 0)]
        /\ network' = network \cup {[kind |-> "open", to |-> Other(p), id |-> opens + 1]}
        /\ awaiting' = awaiting /\ opens' = opens + 1 /\ pays' = pays
    BY <1>2 DEF Open
  <2>2. PICK c : c = channel'
    OBVIOUS
  <2>3. PICK w : w = network'
    OBVIOUS
  <2>4. Known(c, w, awaiting, opens + 1, pays)
    BY <2>1, <2>2, <2>3, OpenKeeps DEF ViewsInv
  <2> QED BY <2>1, <2>2, <2>3, <2>4
<1>3. CASE OpenSigned(p)
  <2> DEFINE o == Other(p)
  <2>1. /\ channel[o].state # "closed" /\ channel[o].signs
        /\ channel' = [channel EXCEPT ![p] = View("open", channel[o].id, TRUE, 0, Deposit)]
        /\ awaiting' = awaiting /\ opens' = opens /\ pays' = pays /\ network' = network
    BY <1>3 DEF OpenSigned
  <2>2. o \in Pod
    BY <1>1, TwoPods
  <2> HIDE DEF o
  <2>3. channel[o].id \in 1..opens
    BY <1>1, <2>1, <2>2 DEF Whole, Account
  <2>4. ~ Redelivers
    BY <2>1, <2>2 DEF ViewsInv, Known, Mail
  <2>5. PICK c : c = channel'
    OBVIOUS
  <2>6. PICK j \in 1..opens : j = channel[o].id
    BY <2>3
  <2>7. Known(c, network, awaiting, opens, pays)
    BY <2>1, <2>4, <2>5, <2>6, JoinKeeps DEF ViewsInv
  <2> QED BY <2>1, <2>5, <2>7
<1> QED BY <1>2, <1>3

LEMMA PayingStep ==
  ASSUME ViewsInv, NEW p \in Pod, NEW a \in 1..Deposit, Pay(p, a)
  PROVE  Known(channel', network', awaiting', opens', pays')
<1>1. PICK m : m = [kind |-> "update", to |-> Other(p), id |-> channel[p].id, signed |-> channel[p].signs,
                    sequence |-> channel[p].sequence + 1, amount |-> a, time |-> pays]
  OBVIOUS
<1>2. PICK c : c = [channel EXCEPT ![p].local = @ - a, ![p].remote = @ + a, ![p].sequence = @ + 1]
  OBVIOUS
<1>3. /\ channel[p].state = "open" /\ a =< channel[p].local
      /\ channel' = c /\ network' = network \cup {m}
      /\ awaiting' = awaiting /\ opens' = opens /\ pays' = pays + 1
  BY <1>1, <1>2 DEF Pay, Update
<1>4. Known(c, network \cup {m}, awaiting, opens, pays + 1)
  BY <1>1, <1>2, <1>3, PayKeeps DEF ViewsInv
<1> QED BY <1>3, <1>4

(* A step that changes nothing but states, notes and what waits. *)
LEMMA NotesStep ==
  ASSUME ViewsInv, opens' = opens, pays' = pays,
         channel' \in [Pod -> Account], SameViews(channel, channel'),
         MailMoves(channel, network, awaiting, network', awaiting', opens, pays)
  PROVE  Known(channel', network', awaiting', opens', pays')
<1>1. PICK c : c = channel'
  OBVIOUS
<1>2. PICK w : w = network'
  OBVIOUS
<1>3. PICK b : b = awaiting'
  OBVIOUS
<1>4. c \in [Pod -> Account] /\ SameViews(channel, c) /\ MailMoves(channel, network, awaiting, w, b, opens, pays)
  BY <1>1, <1>2, <1>3
<1>5. Known(c, w, b, opens, pays)
  BY <1>4, SameKeeps DEF ViewsInv
<1> QED BY <1>1, <1>2, <1>3, <1>5

LEMMA ClosingIsNote ==
  ASSUME NEW kind \in {"claim", "cosign", "ack"}, NEW p \in Pod, NEW i, NEW v
  PROVE  IsNote(Closing(kind, p, i, v)) /\ Closing(kind, p, i, v).to = p
BY DEF IsNote, Closing

LEMMA CloseMoves ==
  ASSUME ViewsInv, NEW p \in Pod, channel[p].state = "open", channel' = CloseView(p)
  PROVE  channel' \in [Pod -> Account] /\ SameViews(channel, channel')
<1>1. PICK s \in {"open", "closing", "closed"} : s = IF channel[p].signs THEN "closing" ELSE "closed"
  OBVIOUS
<1>2. channel' = [channel EXCEPT ![p].state = s]
  BY <1>1 DEF CloseView
<1>3. PICK c : c = channel'
  OBVIOUS
<1>4. c \in [Pod -> Account] /\ SameViews(channel, c)
  BY <1>2, <1>3, StateChange DEF ViewsInv
<1> QED BY <1>3, <1>4

LEMMA ClosingStep ==
  ASSUME ViewsInv, NEW p \in Pod, Close(p)
  PROVE  Known(channel', network', awaiting', opens', pays')
<1>1. Other(p) \in Pod
  BY TwoPods DEF ViewsInv, Known
<1>2. PICK x : x = IF channel[p].signs THEN Claim(p) ELSE [kind |-> "close", to |-> Other(p)]
  OBVIOUS
<1>3. IsNote(x)
  BY <1>1, <1>2, ClosingIsNote DEF Claim, IsNote
<1>4. /\ network' = network \cup {x} /\ awaiting' = awaiting /\ opens' = opens /\ pays' = pays
      /\ channel[p].state = "open" /\ channel' = CloseView(p)
  BY <1>2 DEF Close
<1>5. IsFiniteSet({x}) /\ IsFiniteSet({})
  BY FS_Singleton, FS_EmptySet, Zenon
<1>6. MailMoves(channel, network, awaiting, network \cup {x}, awaiting, opens, pays)
  BY <1>3, <1>5, Moves DEF ViewsInv
<1> QED BY <1>4, <1>6, CloseMoves, NotesStep

LEMMA OpenedStep ==
  ASSUME ViewsInv, NEW m \in network, HandleOpen(m)
  PROVE  Known(channel', network', awaiting', opens', pays')
<1>1. /\ m.kind = "open" /\ network' = network \ {m} /\ awaiting' = awaiting /\ opens' = opens /\ pays' = pays
      /\ channel' = IF channel[m.to].state = "closed"
                    THEN [channel EXCEPT ![m.to] = View("open", m.id, FALSE, 0, Deposit)] ELSE channel
  BY DEF HandleOpen
<1>2. m.to \in Pod /\ m.id \in 1..opens /\ m = [kind |-> "open", to |-> m.to, id |-> m.id]
  BY <1>1 DEF ViewsInv, Known, Mail, IsMail
<1>3. PICK c : c = channel'
  OBVIOUS
<1>4. PICK w : w = network \ {m}
  OBVIOUS
<1>5. PICK j \in 1..opens : j = m.id
  BY <1>2
<1>6. Known(c, w, awaiting, opens, pays)
  <2>1. CASE channel[m.to].state = "closed"
    <3>1. c = [channel EXCEPT ![m.to] = View("open", j, FALSE, 0, Deposit)]
      BY <1>1, <1>3, <1>5, <2>1
    <3>2. /\ [kind |-> "open", to |-> m.to, id |-> j] \in network /\ [kind |-> "open", to |-> m.to, id |-> j] \notin w
          /\ w \in SUBSET network
      BY <1>2, <1>4, <1>5
    <3> QED BY <1>2, <3>1, <3>2, JoinKeeps DEF ViewsInv
  <2>2. CASE channel[m.to].state # "closed"
    <3>1. c = channel
      BY <1>1, <1>3, <2>2
    <3>2. IsFiniteSet({})
      BY FS_EmptySet, Zenon
    <3>3. MailMoves(channel, network, awaiting, w, awaiting, opens, pays)
      BY <1>4, <3>2, Moves DEF ViewsInv
    <3> QED BY <3>1, <3>3, NoChange, SameKeeps DEF ViewsInv
  <2> QED BY <2>1, <2>2
<1> QED BY <1>1, <1>3, <1>4, <1>6

LEMMA UpdatedStep ==
  ASSUME ViewsInv, NEW m \in network, HandleUpdate(m)
  PROVE  Known(channel', network', awaiting', opens', pays')
<1> DEFINE v == channel[m.to]
<1>1. /\ m.kind = "update" /\ network' = (IF Redelivers THEN network ELSE network \ {m}) /\ opens' = opens /\ pays' = pays
      /\ channel' = (IF Receivable(m) /\ ~ v.signs THEN ApplyReceive(m) ELSE channel)
      /\ awaiting' = (IF Receivable(m) /\ v.signs /\ m.signed THEN awaiting \cup {m} ELSE awaiting)
  BY DEF HandleUpdate
<1>2. /\ m.to \in Pod /\ Whole(channel, opens) /\ m.kind = "update" /\ channel[m.to] \in Account
      /\ Redelivers => ~ v.signs
  BY <1>1 DEF ViewsInv, Known, Mail, IsMail, Whole
<1>3. PICK w : w = IF Redelivers THEN network ELSE network \ {m}
  OBVIOUS
<1>4. PICK b : b = IF Receivable(m) /\ v.signs /\ m.signed THEN awaiting \cup {m} ELSE awaiting
  OBVIOUS
<1>5. PICK c : c = channel'
  OBVIOUS
<1>6. IsFiniteSet({}) /\ IsFiniteSet({m})
  BY FS_Singleton, FS_EmptySet, Zenon
<1>7. MailMoves(channel, network, awaiting, w, b, opens, pays)
  <2>1. CASE Receivable(m) /\ v.signs /\ m.signed
    <3>1. ~ Redelivers /\ channel[m.to].id # 0
      BY <1>2, <2>1 DEF Receivable, Whole
    <3>2. w = network \ {m} /\ b = awaiting \cup {m}
      BY <1>3, <1>4, <2>1, <3>1
    <3> QED BY <1>6, <3>1, <3>2, Moves DEF ViewsInv
  <2>2. CASE ~ (Receivable(m) /\ v.signs /\ m.signed)
    <3>1. w \in SUBSET network /\ b = awaiting
      BY <1>3, <1>4, <2>2
    <3> QED BY <1>6, <3>1, Moves DEF ViewsInv
  <2> QED BY <2>1, <2>2
<1>8. Known(c, w, b, opens, pays)
  <2>1. CASE Receivable(m) /\ ~ v.signs
    <3>1. /\ c = [channel EXCEPT ![m.to].local = @ + m.amount, ![m.to].remote = @ - m.amount, ![m.to].sequence = m.sequence]
          /\ m.id = channel[m.to].id /\ m.sequence > channel[m.to].sequence
      BY <1>1, <1>5, <2>1 DEF ApplyReceive, Receivable
    <3>2. ~ Redelivers => m \notin w \cup b
      BY <1>2, <1>3, <1>4, <2>1 DEF ViewsInv, Known, Mail
    <3> QED BY <1>2, <1>7, <3>1, <3>2, ApplyKeeps DEF ViewsInv
  <2>2. CASE ~ (Receivable(m) /\ ~ v.signs)
    <3>1. c = channel
      BY <1>1, <1>5, <2>2
    <3> QED BY <1>7, <3>1, NoChange, SameKeeps DEF ViewsInv
  <2> QED BY <2>1, <2>2
<1>9. network' = w /\ awaiting' = b
  BY <1>1, <1>3, <1>4
<1> QED BY <1>1, <1>5, <1>8, <1>9

LEMMA ClosingHandled ==
  ASSUME ViewsInv, NEW m \in network, HandleClosing(m) \/ HandleClose(m)
  PROVE  Known(channel', network', awaiting', opens', pays')
<1>1. /\ m.to \in Pod /\ Whole(channel, opens)
      /\ Redelivers => ~ channel[m.to].signs
  BY DEF ViewsInv, Known, Mail, IsMail
<1>2. IsFiniteSet({}) /\ IsFiniteSet({m})
  BY FS_Singleton, FS_EmptySet, Zenon
<1>3. CASE HandleClosing(m)
  <2> DEFINE due == channel[m.to].id = m.id /\ channel[m.to].state = (IF m.kind = "claim" THEN "open" ELSE "closing")
  <2>1. /\ m.kind \in {"claim", "ack"} /\ network' = network \ {m} /\ opens' = opens /\ pays' = pays /\ channel' = channel
        /\ awaiting' = IF due /\ channel[m.to].signs THEN awaiting \cup {m} ELSE awaiting
    BY <1>3 DEF HandleClosing
  <2>2. IsNote(m)
    BY <1>1, <2>1 DEF IsNote
  <2>3. MailMoves(channel, network, awaiting, network', awaiting', opens, pays)
    <3>1. CASE due /\ channel[m.to].signs
      <4>1. ~ Redelivers /\ channel[m.to].id # 0
        BY <1>1, <3>1 DEF Whole
      <4>2. network \ {m} \in SUBSET (network \cup {}) /\ awaiting \cup {m} \in SUBSET (awaiting \cup {m})
        OBVIOUS
      <4>3. MailMoves(channel, network, awaiting, network \ {m}, awaiting \cup {m}, opens, pays)
        BY <1>2, <2>2, <4>1, <4>2, Moves DEF ViewsInv
      <4> QED BY <2>1, <3>1, <4>3
    <3>2. CASE ~ (due /\ channel[m.to].signs)
      <4>1. MailMoves(channel, network, awaiting, network \ {m}, awaiting, opens, pays)
        BY <1>2, Moves DEF ViewsInv
      <4> QED BY <2>1, <3>2, <4>1
    <3> QED BY <3>1, <3>2
  <2>4. channel' \in [Pod -> Account] /\ SameViews(channel, channel')
    BY <2>1, NoChange DEF ViewsInv
  <2> QED BY <2>1, <2>3, <2>4, NotesStep
<1>4. CASE HandleClose(m)
  <2> DEFINE X == IF channel[m.to].signs THEN {Claim(m.to)} ELSE {}
  <2>1. /\ awaiting' = awaiting /\ opens' = opens /\ pays' = pays
        /\ IF channel[m.to].state = "open"
           THEN channel' = CloseView(m.to) /\ network' = (network \ {m}) \cup X
           ELSE channel' = channel /\ network' = network \ {m}
    BY <1>4 DEF HandleClose
  <2>2. IsFiniteSet(X) /\ \A x \in X : IsNote(x)
    <3>1. Other(m.to) \in Pod
      BY <1>1, TwoPods DEF ViewsInv, Known
    <3>2. IsNote(Claim(m.to))
      BY <3>1, ClosingIsNote DEF Claim
    <3>3. IsFiniteSet({Claim(m.to)})
      BY FS_Singleton, Zenon
    <3> QED BY <1>2, <3>2, <3>3
  <2> HIDE DEF X
  <2>3. MailMoves(channel, network, awaiting, network', awaiting', opens, pays)
    <3>1. PICK w : w = network'
      OBVIOUS
    <3>2. w \in SUBSET (network \cup X)
      BY <2>1, <3>1
    <3>3. MailMoves(channel, network, awaiting, w, awaiting, opens, pays)
      BY <1>2, <2>2, <3>2, Moves DEF ViewsInv
    <3> QED BY <2>1, <3>1, <3>3
  <2>4. channel' \in [Pod -> Account] /\ SameViews(channel, channel')
    BY <1>1, <2>1, CloseMoves, NoChange DEF ViewsInv
  <2> QED BY <2>1, <2>3, <2>4, NotesStep
<1> QED BY <1>3, <1>4

LEMMA VerifiedStep ==
  ASSUME ViewsInv, NEW m \in awaiting, Verified(m)
  PROVE  Known(channel', network', awaiting', opens', pays')
<1>1. /\ m.kind = "update" /\ awaiting' = awaiting \ {m} /\ network' = network /\ opens' = opens /\ pays' = pays
      /\ channel' = IF channel[m.to].id = m.id /\ channel[m.to].signs THEN ApplyReceive(m) ELSE channel
  BY DEF Verified
<1>2. m.to \in Pod /\ ~ Redelivers /\ m \notin network
  BY <1>1 DEF ViewsInv, Known, Mail, IsMail
<1>3. PICK b : b = awaiting \ {m}
  OBVIOUS
<1>4. PICK c : c = channel'
  OBVIOUS
<1>5. IsFiniteSet({})
  BY FS_EmptySet, Zenon
<1>6. MailMoves(channel, network, awaiting, network, b, opens, pays)
  BY <1>3, <1>5, Moves DEF ViewsInv
<1>7. Known(c, network, b, opens, pays)
  <2>1. CASE channel[m.to].id = m.id /\ channel[m.to].signs
    <3>1. c = [channel EXCEPT ![m.to].local = @ + m.amount, ![m.to].remote = @ - m.amount, ![m.to].sequence = m.sequence]
      BY <1>1, <1>4, <2>1 DEF ApplyReceive
    <3>2. m \in network \cup awaiting /\ m \notin network \cup b
      BY <1>2, <1>3
    <3> QED BY <1>1, <1>2, <1>6, <2>1, <3>1, <3>2, ApplyKeeps DEF ViewsInv
  <2>2. CASE ~ (channel[m.to].id = m.id /\ channel[m.to].signs)
    <3>1. c = channel
      BY <1>1, <1>4, <2>2
    <3> QED BY <1>6, <3>1, NoChange, SameKeeps DEF ViewsInv
  <2> QED BY <2>1, <2>2
<1> QED BY <1>1, <1>3, <1>4, <1>7

LEMMA ResumedStep ==
  ASSUME ViewsInv, NEW m \in awaiting, CheckClaim(m) \/ Cosigned(m) \/ Finalize(m)
  PROVE  Known(channel', network', awaiting', opens', pays')
<1>1. /\ m.to \in Pod /\ channel[m.to].id # 0 /\ ~ Redelivers /\ PayBounds
  BY DEF ViewsInv, Known, Mail, IsMail
<1>2. IsFiniteSet({})
  BY FS_EmptySet, Zenon
<1>3. PICK d : d = [channel EXCEPT ![m.to].state = "closed"]
  OBVIOUS
<1>4. d \in [Pod -> Account] /\ SameViews(channel, d) /\ channel \in [Pod -> Account] /\ SameViews(channel, channel)
  <2>1. d \in [Pod -> Account] /\ SameViews(channel, d)
    BY <1>1, <1>3, StateChange DEF ViewsInv
  <2> QED BY <2>1, NoChange DEF ViewsInv
<1>5. MailMoves(channel, network, awaiting, network, awaiting \ {m}, opens, pays)
  BY <1>2, Moves DEF ViewsInv
<1>6. CASE CheckClaim(m)
  <2> DEFINE x == Closing("cosign", m.to, m.id, m.view)
  <2>1. /\ network' = network /\ opens' = opens /\ pays' = pays /\ channel' = channel
        /\ awaiting' = (awaiting \ {m}) \cup {x} \/ awaiting' = awaiting \ {m}
    BY <1>6 DEF CheckClaim
  <2>2. IsNote(x) /\ x.to = m.to /\ IsFiniteSet({x})
    <3>1. IsFiniteSet({x})
      BY FS_Singleton, Zenon
    <3> QED BY <1>1, <3>1, ClosingIsNote
  <2> HIDE DEF x
  <2>3. MailMoves(channel, network, awaiting, network, (awaiting \ {m}) \cup {x}, opens, pays)
    BY <1>1, <1>2, <2>2, Moves DEF ViewsInv
  <2> QED BY <1>4, <1>5, <2>1, <2>3, NotesStep
<1>7. CASE Cosigned(m)
  <2> DEFINE x == Closing("ack", Other(m.to), m.id, m.view)
  <2>1. /\ network' = network \cup {x} /\ opens' = opens /\ pays' = pays /\ channel' = d /\ awaiting' = awaiting \ {m}
    BY <1>3, <1>7 DEF Cosigned
  <2>2. IsNote(x) /\ IsFiniteSet({x})
    <3>1. IsFiniteSet({x})
      BY FS_Singleton, Zenon
    <3>2. Other(m.to) \in Pod
      BY <1>1, TwoPods
    <3> QED BY <3>1, <3>2, ClosingIsNote
  <2> HIDE DEF x
  <2>3. MailMoves(channel, network, awaiting, network \cup {x}, awaiting \ {m}, opens, pays)
    BY <1>2, <2>2, Moves DEF ViewsInv
  <2> QED BY <1>4, <2>1, <2>3, NotesStep
<1>8. CASE Finalize(m)
  <2>1. /\ network' = network /\ opens' = opens /\ pays' = pays /\ awaiting' = awaiting \ {m}
        /\ channel' = d \/ channel' = channel
    BY <1>3, <1>8 DEF Finalize
  <2> QED BY <1>4, <1>5, <2>1, NotesStep
<1> QED BY <1>6, <1>7, <1>8

ClosesInv ==
  OverPods(attested) /\ OverPods(settled) /\ Attested(network, awaiting, attested) /\ SettlementAttested

(* Nothing is co-signed and nothing settled. *)
LEMMA NothingCosigned ==
  ASSUME ClosesInv, UNCHANGED <<attested, settled>>,
         \A m \in network' \cup awaiting' : m \in network \cup awaiting \/ m.kind \notin {"ack", "cosign"}
  PROVE  ClosesInv'
<1>1. PICK w : w = network'
  OBVIOUS
<1>2. PICK b : b = awaiting'
  OBVIOUS
<1>3. Attested(w, b, attested)
  BY <1>1, <1>2 DEF ClosesInv, Attested
<1> QED BY <1>1, <1>2, <1>3 DEF ClosesInv, Attested, OverPods, SettlementAttested

LEMMA ClosesStep ==
  ASSUME PayBounds, ViewsInv, ClosesInv, [Next]_vars
  PROVE  ClosesInv'
<1>1. ASSUME NEW p \in Pod, Open(p) \/ OpenSigned(p) \/ Close(p) PROVE ClosesInv'
  <2>1. UNCHANGED <<attested, settled>> /\ awaiting' = awaiting
    BY <1>1 DEF Open, OpenSigned, Close
  <2>2. \A m \in network' : m \in network \/ m.kind \notin {"ack", "cosign"}
    <3>1. CASE Open(p)
      <4>1. network' = network \cup {[kind |-> "open", to |-> Other(p), id |-> opens + 1]}
        BY <3>1 DEF Open
      <4> QED BY <4>1
    <3>3. CASE OpenSigned(p)
      BY <3>3 DEF OpenSigned
    <3>2. CASE Close(p)
      <4>1. Claim(p).kind = "claim"
        BY DEF Claim, Closing
      <4> QED BY <3>2, <4>1 DEF Close
    <3> QED BY <1>1, <3>1, <3>2, <3>3
  <2> QED BY <2>1, <2>2, NothingCosigned
<1>2. ASSUME NEW p \in Pod, NEW a \in 1..Deposit, Pay(p, a) PROVE ClosesInv'
  <2>1. UNCHANGED <<attested, settled>> /\ awaiting' = awaiting
    BY <1>2 DEF Pay
  <2>2. \A m \in network' : m \in network \/ m.kind \notin {"ack", "cosign"}
    BY <1>2 DEF Pay, Update
  <2> QED BY <2>1, <2>2, NothingCosigned
<1>3. ASSUME NEW m \in network, HandleOpen(m) \/ HandleUpdate(m) \/ HandleClosing(m) \/ HandleClose(m)
      PROVE  ClosesInv'
  <2>1. UNCHANGED <<attested, settled>> /\ \A x \in awaiting' : x \in network \cup awaiting
    BY <1>3 DEF HandleOpen, HandleUpdate, HandleClosing, HandleClose
  <2>2. \A x \in network' : x \in network \/ x.kind \notin {"ack", "cosign"}
    <3>1. Claim(m.to).kind = "claim"
      BY DEF Claim, Closing
    <3>2. CASE HandleClose(m)
      BY <3>1, <3>2 DEF HandleClose
    <3>3. CASE HandleOpen(m) \/ HandleUpdate(m) \/ HandleClosing(m)
      BY <3>3 DEF HandleOpen, HandleUpdate, HandleClosing
    <3> QED BY <1>3, <3>2, <3>3
  <2> QED BY <2>1, <2>2, NothingCosigned
<1>4. ASSUME NEW m \in awaiting, Verified(m) PROVE ClosesInv'
  BY <1>4, NothingCosigned DEF Verified
<1>5. ASSUME NEW m \in awaiting, CheckClaim(m) PROVE ClosesInv'
  <2>1. m.to \in Pod /\ network' = network /\ UNCHANGED settled
    BY <1>5 DEF ViewsInv, Known, Mail, IsMail, CheckClaim
  <2>2. CASE Mirrors(m)
    <3> DEFINE x == Closing("cosign", m.to, m.id, m.view)
    <3>1. /\ awaiting' = (awaiting \ {m}) \cup {x}
          /\ attested' = [attested EXCEPT ![m.to] = @ \cup {<<m.id, Balances(channel[m.to])>>}]
      BY <1>5, <2>2 DEF CheckClaim
    <3>2. x.kind = "cosign" /\ x.to = m.to /\ x.id = m.id /\ x.view = m.view
      BY DEF Closing
    <3>3. Mirror(x.view) = Balances(channel[m.to])
      BY <2>2, <3>2 DEF Mirrors, Mirror, Balances
    <3> HIDE DEF x
    <3>4. /\ OverPods(attested') /\ \A q \in Pod : attested[q] \subseteq attested'[q]
          /\ <<m.id, Balances(channel[m.to])>> \in attested'[m.to]
      BY <2>1, <3>1 DEF ClosesInv, OverPods
    <3>5. \A y \in network \cup awaiting : y.to \in Pod /\ Other(y.to) \in Pod
      BY TwoPods DEF ViewsInv, Known, Mail, IsMail
    <3>6. Attested(network', awaiting', attested')
      <4> SUFFICES ASSUME NEW y \in network' \cup awaiting'
                   PROVE  /\ y.kind = "ack" => <<y.id, Mirror(y.view)>> \in attested'[Other(y.to)]
                          /\ y.kind = "cosign" => <<y.id, Mirror(y.view)>> \in attested'[y.to]
        BY DEF Attested
      <4>1. CASE y = x
        BY <3>2, <3>3, <3>4, <4>1
      <4>2. CASE y \in network \cup awaiting
        BY <3>4, <3>5, <4>2 DEF ClosesInv, Attested
      <4> QED BY <2>1, <3>1, <4>1, <4>2
    <3>7. SettlementAttested'
      <4>1. \A p \in Pod : Other(p) \in Pod
        BY TwoPods
      <4> QED BY <2>1, <3>4, <4>1 DEF ClosesInv, SettlementAttested
    <3> QED BY <2>1, <3>4, <3>6, <3>7 DEF ClosesInv, OverPods, Attested
  <2>3. CASE ~ Mirrors(m)
    <3>1. awaiting' = awaiting \ {m} /\ UNCHANGED attested
      BY <1>5, <2>3 DEF CheckClaim
    <3> QED BY <2>1, <3>1, NothingCosigned
  <2> QED BY <2>2, <2>3
<1>6. ASSUME NEW m \in awaiting, Cosigned(m) PROVE ClosesInv'
  <2> DEFINE x == Closing("ack", Other(m.to), m.id, m.view)
  <2>1. /\ m.kind = "cosign" /\ network' = network \cup {x} /\ awaiting' = awaiting \ {m}
        /\ UNCHANGED <<attested, settled>>
    BY <1>6 DEF Cosigned
  <2>2. m.to \in Pod /\ Other(Other(m.to)) = m.to
    BY TwoPods DEF ViewsInv, Known, Mail, IsMail
  <2>3. x.kind = "ack" /\ x.to = Other(m.to) /\ x.id = m.id /\ x.view = m.view
    BY DEF Closing
  <2> HIDE DEF x
  <2>4. <<x.id, Mirror(x.view)>> \in attested[Other(x.to)]
    BY <2>1, <2>2, <2>3 DEF ClosesInv, Attested
  <2>5. Attested(network', awaiting', attested')
    BY <2>1, <2>3, <2>4 DEF ClosesInv, Attested
  <2> QED BY <2>1, <2>5 DEF ClosesInv, Attested, OverPods, SettlementAttested
<1>7. ASSUME NEW m \in awaiting, Finalize(m) PROVE ClosesInv'
  <2>1. m.kind = "ack" /\ network' = network /\ awaiting' = awaiting \ {m} /\ UNCHANGED attested
    BY <1>7 DEF Finalize
  <2>2. CASE Repeats(m)
    <3> DEFINE v == channel[m.to]
               s == <<m.id, Balances(v)>>
    <3>1. settled' = [settled EXCEPT ![m.to] = @ \cup {s}]
      BY <1>7, <2>2 DEF Finalize
    <3>2. m.to \in Pod /\ v.local + v.remote = Deposit
      BY DEF ViewsInv, Known, Mail, IsMail, Whole
    <3>3. s[1] = m.id /\ <<s[2][2], s[2][1]>> = Mirror(m.view) /\ s[2][1] + s[2][2] = Deposit
      BY <2>2, <3>2 DEF Repeats, Balances, Mirror
    <3>4. <<s[1], <<s[2][2], s[2][1]>>>> \in attested[Other(m.to)]
      BY <2>1, <3>3 DEF ClosesInv, Attested
    <3> HIDE DEF s, v
    <3>5. OverPods(settled') /\ \A p \in Pod : \A y \in settled'[p] : y \in settled[p] \/ (y = s /\ p = m.to)
      BY <3>1, <3>2 DEF ClosesInv, OverPods
    <3>6. SettlementAttested'
      BY <2>1, <3>3, <3>4, <3>5 DEF ClosesInv, SettlementAttested
    <3>7. Attested(network', awaiting', attested')
      BY <2>1 DEF ClosesInv, Attested
    <3> QED BY <2>1, <3>5, <3>6, <3>7 DEF ClosesInv, OverPods, Attested
  <2>3. CASE ~ Repeats(m)
    <3>1. UNCHANGED settled
      BY <1>7, <2>3 DEF Finalize
    <3> QED BY <2>1, <3>1, NothingCosigned
  <2> QED BY <2>2, <2>3
<1>8. CASE UNCHANGED vars
  BY <1>8, NothingCosigned DEF vars
<1> QED BY <1>1, <1>2, <1>3, <1>4, <1>5, <1>6, <1>7, <1>8 DEF Next

PayInv == ViewsInv /\ ClosesInv

LEMMA PayStep ==
  ASSUME PayInv, [Next]_vars
  PROVE  PayInv'
<1>1. PayBounds /\ ViewsInv /\ ClosesInv
  BY DEF PayInv, ViewsInv, Known
<1>2. Known(channel', network', awaiting', opens', pays')
  <2>1. CASE UNCHANGED vars
    BY <1>1, <2>1 DEF vars, ViewsInv
  <2>2. CASE Next
    BY <1>1, <2>2, OpeningStep, PayingStep, ClosingStep, OpenedStep, UpdatedStep, ClosingHandled, VerifiedStep, ResumedStep
       DEF Next
  <2> QED BY <2>1, <2>2
<1>3. ViewsInv'
  BY <1>2 DEF ViewsInv, Known, Whole, Mail, Solvent, Worth, Share, Live, Pending, IsMail
<1> QED BY <1>1, <1>3, ClosesStep DEF PayInv

LEMMA PayInitially == PayBounds /\ Init => PayInv
<1> SUFFICES ASSUME PayBounds, Init PROVE PayInv
  OBVIOUS
<1> DEFINE v == View("closed", 0, FALSE, 0, 0)
<1>1. v \in Account /\ v.id = 0 /\ v.local = 0 /\ v.remote = 0 /\ v.state = "closed" /\ v.signs = FALSE
  BY DEF View, Account
<1> HIDE DEF v
<1>2. channel = [p \in Pod |-> v] /\ network = {} /\ awaiting = {} /\ opens = 0 /\ pays = 0
  BY DEF Init, v
<1>3. Whole(channel, opens)
  BY <1>1, <1>2 DEF Whole
<1>4. IsFiniteSet(network) /\ IsFiniteSet(awaiting)
  BY <1>2, FS_EmptySet, Zenon
<1>5. Mail(channel, network, awaiting, opens, pays)
  BY <1>1, <1>2, <1>4 DEF Mail
<1>6. Solvent(channel, network, awaiting)
  <2> SUFFICES ASSUME NEW p \in Pod, NEW i \in Nat PROVE Worth(p, i, channel, network, awaiting) =< Deposit
    BY DEF Solvent
  <2>1. Other(p) \in Pod
    BY TwoPods
  <2>2. Share(channel[p], i) = 0 /\ Share(channel[Other(p)], i) = 0
    BY <1>1, <1>2, <2>1 DEF Share
  <2>3. Coins(Live(i, channel, network, awaiting)) = {}
    BY <1>2 DEF Live, Coins
  <2>4. Cardinality(Coins(Live(i, channel, network, awaiting))) = 0
    BY <2>3, FS_EmptySet, Zenon
  <2>5. 0 + 0 + 0 =< Deposit
    BY DEF PayBounds
  <2> QED BY <2>2, <2>4, <2>5 DEF Worth
<1>7. ClosesInv
  BY <1>2 DEF Init, ClosesInv, OverPods, Attested, SettlementAttested
<1> QED BY <1>3, <1>5, <1>6, <1>7 DEF PayInv, ViewsInv, Known

LEMMA PaySafe ==
  ASSUME PayInv
  PROVE  NoCreditCreated /\ SettlementAttested
<1>1. PayBounds /\ Whole(channel, opens) /\ Mail(channel, network, awaiting, opens, pays) /\ Deposit \in Nat
  BY DEF PayInv, ViewsInv, Known, PayBounds
<1>2. ASSUME NEW p \in Pod
      PROVE  /\ channel[p].local \in Nat /\ channel[p].remote \in Nat
             /\ \A q \in Pod : p # q /\ channel[p].id = channel[q].id => channel[p].local + channel[q].local =< Deposit
  <2> DEFINE i == channel[p].id
             o == Other(p)
             N == Cardinality(Coins(Live(i, channel, network, awaiting)))
  <2>1. o \in Pod /\ o # p /\ \A q \in Pod : q = p \/ q = o
    BY <1>1, TwoPods
  <2>2. /\ i \in Nat /\ channel[p].local \in Nat /\ channel[p].remote \in Int /\ channel[o].local \in Nat
        /\ channel[p].local + channel[p].remote = (IF i = 0 THEN 0 ELSE Deposit) /\ (i = 0 => channel[p].local = 0)
    BY <1>1, <2>1 DEF Whole, Account
  <2>3. Share(channel[p], i) + Share(channel[o], i) + N =< Deposit
    BY <2>2 DEF PayInv, ViewsInv, Known, Solvent, Worth
  <2>4. N \in Nat
    BY <1>1, <2>2, LiveIs, CoinsFinite DEF PayInv, ViewsInv
  <2>5. Share(channel[p], i) = channel[p].local /\ Share(channel[o], i) \in Nat
    BY <1>1, <2>1, ShareIs DEF Share
  <2> HIDE DEF N
  <2>6. channel[p].local =< Deposit
    BY <1>1, <2>2, <2>3, <2>4, <2>5
  <2>7. channel[o].id = i => channel[p].local + channel[o].local =< Deposit
    BY <1>1, <2>2, <2>3, <2>4, <2>5 DEF Share
  <2>8. channel[p].remote >= 0
    BY <1>1, <2>2, <2>6
  <2> QED BY <2>1, <2>2, <2>7, <2>8
<1>3. NoCreditCreated
  BY <1>2 DEF NoCreditCreated
<1> QED BY <1>3 DEF PayInv, ClosesInv
==============================================================================
