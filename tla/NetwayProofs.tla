----------------------------- MODULE NetwayProofs -----------------------------
(***************************************************************************)
(* Proofs about connections.  Any number of operations, of which          *)
(* overlapping drains replay those that were queued, get the answers the   *)
(* gateway gave them; and the tables, accept queues and socket pairs of a  *)
(* loopback network hold what is open and waits.                           *)
(***************************************************************************)
EXTENDS MCNetway, SequencesExt, SequenceTheorems, TLAPS

-----------------------------------------------------------------------------
(* The gateway *)

Operation == Gateway!Op

Started == {"sending", "pending", "ok", "failed", "timedout"}

Kept == <<queue, drains, enqueued, replayed>>

GatewayTypeOK ==
  /\ online \in BOOLEAN
  /\ queue \in Seq(Operation) /\ drains \in Seq(Seq(Operation))
  /\ phase \in [Operation -> {"idle", "refused", "queued"} \cup Started]
  /\ result \in [Operation -> {"none", "waiting", "ok", "error"}]
  /\ channel \in [Operation -> {"none", "asked", "open", "shut"}]
  /\ inbox \in Seq({"ok", "fail", "close", "inbound"} \X Operation)
  /\ inbound \in 0..MaxInbound
  /\ listeners \subseteq Listen
  /\ answered \subseteq {"ok", "fail"} \X Operation
  /\ enqueued \in Seq(Operation) /\ replayed \in Seq(Seq(Operation))
  /\ Len(replayed) = Len(drains)

(* An answer decides, or came too early, or granted a UDP channel whose     *)
(* datagram is sent before the operation settles.                           *)
Decided(a) ==
  \/ phase[a[2]] \in {"ok", "failed"}
  \/ a[2] \in early
  \/ a[1] = "ok" /\ a[2] \in Udp /\ phase[a[2]] \in {"pending", "timedout"}

(* Success has an answer behind it, an answer decides, and there is one     *)
(* only for a request that was sent.                                        *)
AnswersInv ==
  /\ \A o \in Operation : phase[o] = "ok" \/ result[o] = "ok" => <<"ok", o>> \in answered
  /\ \A a \in answered : Decided(a)
  /\ \A i \in 1..Len(inbox) : inbox[i][1] \in {"ok", "fail"} => phase[inbox[i][2]] \in Started
  /\ \A o \in datagrams : o \in Udp /\ <<"ok", o>> \in answered
  /\ \A o \in Operation : channel[o] = "asked" => phase[o] \in Started
  /\ \A o \in listeners : phase[o] = "ok"
  /\ Gateway!SocketsHaveOwner

(* What a drain() replayed, r, and what it has left behind the operation it *)
(* waits for, all but the first of row, stand one behind the other in e.    *)
InSegment(r, row, e) ==
  \E k \in 0..Len(e) :
    /\ k + Len(r) =< Len(e)
    /\ row # <<>> => k + Len(r) + Len(row) - 1 =< Len(e)
    /\ \A i \in 1..Len(r) : r[i] = e[k + i]
    /\ \A i \in 2..Len(row) : row[i] = e[k + Len(r) + i - 1]

(* Operations that wait do so in one place.                                 *)
PlacesInv ==
  /\ \A i \in 1..Len(queue) : phase[queue[i]] = "queued"
  /\ \A i, j \in 1..Len(queue) : queue[i] = queue[j] => i = j
  /\ \A d \in 1..Len(drains) : \A i \in 2..Len(drains[d]) : phase[drains[d][i]] = "queued"
  /\ \A d \in 1..Len(drains) : \A i \in 2..Len(drains[d]) : \A j \in 1..Len(queue) : queue[j] # drains[d][i]
  /\ \A c, d \in 1..Len(drains) : \A i \in 2..Len(drains[c]) : \A j \in 2..Len(drains[d]) :
       drains[c][i] = drains[d][j] => c = d /\ i = j

(* Those that were replayed have started, each in one drain().              *)
ReplayedInv ==
  /\ \A d \in 1..Len(drains) : drains[d] # <<>> => phase[drains[d][1]] \in Started
  /\ \A d \in 1..Len(drains) : \A i \in 1..Len(replayed[d]) : phase[replayed[d][i]] \in Started
  /\ \A c, d \in 1..Len(drains) : c # d =>
       \A i \in 1..Len(replayed[c]) : \A j \in 1..Len(replayed[d]) : replayed[c][i] # replayed[d][j]

(* Those in the queue are the last that were enqueued.                      *)
FifoInv ==
  /\ Len(queue) =< Len(enqueued)
  /\ \A i \in 1..Len(queue) : queue[i] = enqueued[Len(enqueued) - Len(queue) + i]
  /\ \A d \in 1..Len(drains) : InSegment(replayed[d], drains[d], enqueued)

LinesInv == PlacesInv /\ ReplayedInv /\ FifoInv

GatewayInv == GatewayTypeOK /\ AnswersInv /\ LinesInv

LEMMA GatewayInitially == Gateway!Init => GatewayInv
<1> SUFFICES ASSUME Gateway!Init PROVE GatewayInv
  OBVIOUS
<1>1. GatewayTypeOK
  <2>1. /\ phase \in [Operation -> {"idle", "refused", "queued"} \cup Started]
        /\ result \in [Operation -> {"none", "waiting", "ok", "error"}]
        /\ channel \in [Operation -> {"none", "asked", "open", "shut"}]
    BY DEF Gateway!Init, Operation
  <2>2. /\ online \in BOOLEAN
        /\ listeners \subseteq Listen /\ answered \subseteq {"ok", "fail"} \X Operation
    BY DEF Gateway!Init
  <2>4. inbound \in 0..MaxInbound
    <3>1. MaxInbound \in Nat
      BY NetwayAssumption
    <3> QED BY <3>1 DEF Gateway!Init
  <2>3. /\ queue \in Seq(Operation) /\ drains \in Seq(Seq(Operation))
        /\ inbox \in Seq({"ok", "fail", "close", "inbound"} \X Operation)
        /\ enqueued \in Seq(Operation) /\ replayed \in Seq(Seq(Operation))
        /\ Len(replayed) = Len(drains)
    BY DEF Gateway!Init
  <2> QED BY <2>1, <2>2, <2>3, <2>4 DEF GatewayTypeOK
<1>2. AnswersInv
  BY DEF Gateway!Init, AnswersInv, Operation, Gateway!SocketsHaveOwner
<1>3. LinesInv
  BY DEF Gateway!Init, LinesInv, PlacesInv, ReplayedInv, FifoInv
<1> QED BY <1>1, <1>2, <1>3 DEF GatewayInv

LEMMA SegmentGrows ==
  ASSUME NEW r \in Seq(Operation), NEW row \in Seq(Operation), NEW e \in Seq(Operation),
         NEW o \in Operation, InSegment(r, row, e)
  PROVE  InSegment(r, row, Append(e, o))
<1> DEFINE f == Append(e, o)
<1>1. Len(f) = Len(e) + 1 /\ Len(e) \in Nat /\ \A i \in 1..Len(e) : f[i] = e[i]
  OBVIOUS
<1>2. Len(r) \in Nat /\ Len(row) \in Nat
  OBVIOUS
<1>3. PICK k \in 0..Len(e) :
        /\ k + Len(r) =< Len(e)
        /\ row # <<>> => k + Len(r) + Len(row) - 1 =< Len(e)
        /\ \A i \in 1..Len(r) : r[i] = e[k + i]
        /\ \A i \in 2..Len(row) : row[i] = e[k + Len(r) + i - 1]
  BY DEF InSegment
<1> HIDE DEF f
<1>4. \A i \in 1..Len(r) : r[i] = f[k + i]
  <2> TAKE i \in 1..Len(r)
  <2>1. k + i \in 1..Len(e)
    BY <1>1, <1>2, <1>3
  <2>2. r[i] = e[k + i] /\ e[k + i] = f[k + i]
    BY <1>1, <1>3, <2>1
  <2> QED BY <2>2
<1>5. \A i \in 2..Len(row) : row[i] = f[k + Len(r) + i - 1]
  <2> TAKE i \in 2..Len(row)
  <2>1. row # <<>>
    BY <1>2, EmptySeq
  <2>2. k + Len(r) + i - 1 \in 1..Len(e)
    BY <1>1, <1>2, <1>3, <2>1
  <2> QED BY <1>1, <1>3, <2>2
<1>6. /\ k \in 0..Len(f) /\ k + Len(r) =< Len(f)
      /\ row # <<>> => k + Len(r) + Len(row) - 1 =< Len(f)
  BY <1>1, <1>2, <1>3
<1>7. InSegment(r, row, f)
  BY <1>4, <1>5, <1>6 DEF InSegment
<1> QED BY <1>7 DEF f

(* drain() takes the queue and runs the first of it. *)
LEMMA SegmentStarts ==
  ASSUME NEW q \in Seq(Operation), NEW e \in Seq(Operation), q # <<>>, Len(q) =< Len(e),
         \A i \in 1..Len(q) : q[i] = e[Len(e) - Len(q) + i]
  PROVE  InSegment(<<Head(q)>>, q, e)
<1> DEFINE k == Len(e) - Len(q)
<1>1. k \in 0..Len(e) /\ Len(q) \in Nat \ {0} /\ Len(e) \in Nat
  BY EmptySeq
<1>2. Len(<<Head(q)>>) = 1 /\ <<Head(q)>>[1] = q[1]
  OBVIOUS
<1>3. \A i \in 2..Len(q) : q[i] = e[k + 1 + i - 1]
  BY <1>1
<1>4. <<Head(q)>>[1] = e[k + 1]
  BY <1>1, <1>2
<1> DEFINE r == <<Head(q)>>
<1>5. Len(r) = 1 /\ \A i \in 1..Len(r) : r[i] = e[k + i]
  BY <1>2, <1>4
<1>6. k + Len(r) =< Len(e) /\ k + Len(r) + Len(q) - 1 =< Len(e)
  BY <1>1, <1>5
<1>7. \A i \in 2..Len(q) : q[i] = e[k + Len(r) + i - 1]
  BY <1>3, <1>5
<1> HIDE DEF k, r
<1>8. InSegment(r, q, e)
  BY <1>1, <1>5, <1>6, <1>7 DEF InSegment
<1> QED BY <1>8 DEF r

(* A drain() goes on to the next operation, if there is one. *)
LEMMA SegmentGoesOn ==
  ASSUME NEW r \in Seq(Operation), NEW row \in Seq(Operation), NEW e \in Seq(Operation),
         InSegment(r, row, e), row # <<>>
  PROVE  InSegment(IF Len(row) > 1 THEN Append(r, row[2]) ELSE r, Tail(row), e)
<1> DEFINE n == IF Len(row) > 1 THEN Append(r, row[2]) ELSE r
           t == Tail(row)
<1>1. PICK k \in 0..Len(e) :
        /\ k + Len(r) =< Len(e) /\ k + Len(r) + Len(row) - 1 =< Len(e)
        /\ \A i \in 1..Len(r) : r[i] = e[k + i]
        /\ \A i \in 2..Len(row) : row[i] = e[k + Len(r) + i - 1]
  BY DEF InSegment
<1>2. /\ Len(row) \in Nat \ {0} /\ Len(r) \in Nat /\ Len(e) \in Nat
      /\ t \in Seq(Operation) /\ Len(t) = Len(row) - 1 /\ \A i \in 1..Len(t) : t[i] = row[i + 1]
  BY EmptySeq, HeadTailProperties
<1>3. CASE Len(row) > 1
  <2>1. n = Append(r, row[2]) /\ row[2] \in Operation
    BY <1>3
  <2>2. Len(n) = Len(r) + 1 /\ \A i \in 1..Len(n) : n[i] = e[k + i]
    BY <1>1, <1>2, <1>3, <2>1
  <2>3. \A i \in 2..Len(t) : t[i] = e[k + Len(n) + i - 1]
    BY <1>1, <1>2, <2>2
  <2>4. k + Len(n) =< Len(e) /\ k + Len(n) + Len(t) - 1 =< Len(e)
    BY <1>1, <1>2, <1>3, <2>2
  <2> HIDE DEF n, t
  <2> QED BY <2>2, <2>3, <2>4 DEF InSegment, n, t
<1>4. CASE ~ (Len(row) > 1)
  <2>1. n = r /\ Len(t) = 0
    BY <1>2, <1>4
  <2>2. t = <<>>
    BY <1>2, <2>1, EmptySeq
  <2> HIDE DEF n, t
  <2>3. /\ k + Len(n) =< Len(e) /\ \A i \in 1..Len(n) : n[i] = e[k + i]
        /\ \A i \in 2..Len(t) : FALSE
    <3>1. k + Len(r) =< Len(e) /\ \A i \in 1..Len(r) : r[i] = e[k + i]
      BY <1>1
    <3>2. \A i \in 2..Len(t) : FALSE
      BY <2>1
    <3> QED BY <2>1, <3>1, <3>2
  <2>4. InSegment(n, t, e)
    BY <2>2, <2>3 DEF InSegment
  <2> QED BY <2>4 DEF n, t
<1> QED BY <1>3, <1>4

-----------------------------------------------------------------------------
(* The steps of the gateway *)

(* The steps that leave queue, drains and their histories alone. *)
QuietStep ==
  \/ \E o \in Operation : \/ Gateway!CallDirect(o) \/ Gateway!SendResolves(o) \/ Gateway!SendFails(o)
                          \/ Gateway!DatagramSent(o) \/ Gateway!DatagramFails(o)
                          \/ Gateway!Timeout(o) \/ Gateway!GatewayCloses(o) \/ Gateway!GatewayInbound(o)
                          \/ Gateway!GatewayAnswers(o, TRUE) \/ Gateway!GatewayAnswers(o, FALSE)
  \/ \E o \in sockets : Gateway!PumpEnds(o) \/ Gateway!PumpFails(o)
  \/ Gateway!SetOnline \/ Gateway!HandleGatewayMessage \/ Gateway!FinishClose

LEMMA GatewaySteps ==
  ASSUME Gateway!Next
  PROVE  \/ QuietStep
         \/ \E o \in Operation : Gateway!Enqueue(o)
         \/ Gateway!StartDrain \/ Gateway!StartClose
         \/ \E d \in DOMAIN drains : Gateway!ReplaySettled(d) \/ Gateway!DrainTimeout(d)
<1>1. CASE Gateway!Client
  BY <1>1 DEF Gateway!Client, QuietStep, Operation
<1>2. ASSUME NEW o \in Operation, NEW good \in BOOLEAN, Gateway!GatewayAnswers(o, good) PROVE QuietStep
  <2>1. good = TRUE \/ good = FALSE
    OBVIOUS
  <2> QED BY <1>2, <2>1 DEF QuietStep
<1>3. CASE ~ Gateway!Client /\ ~ \E o \in Operation, good \in BOOLEAN : Gateway!GatewayAnswers(o, good)
  BY <1>3 DEF Gateway!Next, QuietStep, Operation
<1> QED BY <1>1, <1>2, <1>3

(* An answer is handled. *)
LEMMA HandleTypes ==
  ASSUME GatewayTypeOK, Gateway!HandleGatewayMessage
  PROVE  GatewayTypeOK'
<1>1. /\ inbox # <<>> /\ inbox' = Tail(inbox)
      /\ UNCHANGED <<online, queue, drains, direct, inbound, closing, enqueued, replayed>>
  BY DEF Gateway!HandleGatewayMessage
<1> DEFINE m == Head(inbox)
           o == m[2]
<1>2. m \in {"ok", "fail", "close", "inbound"} \X Operation /\ o \in Operation
      /\ inbox' \in Seq({"ok", "fail", "close", "inbound"} \X Operation)
  BY <1>1, HeadTailProperties DEF GatewayTypeOK
<1>3. \/ m[1] = "ok" /\ Gateway!HandleOk(o)
      \/ m[1] = "fail" /\ Gateway!HandleFail(o)
      \/ m[1] = "close" /\ Gateway!HandleClose(o)
      \/ m[1] = "inbound" /\ Gateway!HandleInbound(o)
  BY DEF Gateway!HandleGatewayMessage
<1> HIDE DEF m, o
<1>4. /\ phase' \in [Operation -> {"idle", "refused", "queued"} \cup Started]
      /\ result' \in [Operation -> {"none", "waiting", "ok", "error"}]
  <2>0. ASSUME NEW new \in {"ok", "failed"}, Gateway!Settle(o, new)
        PROVE  /\ phase' \in [Operation -> {"idle", "refused", "queued"} \cup Started]
               /\ result' \in [Operation -> {"none", "waiting", "ok", "error"}]
    BY <1>2, <2>0 DEF GatewayTypeOK, Gateway!Settle, Started
  <2>1. CASE Gateway!HandleOk(o)
    <3>1. (phase' = phase /\ result' = result) \/ \E new \in {"ok", "failed"} : Gateway!Settle(o, new)
      BY <2>1 DEF Gateway!HandleOk, Gateway!ops
    <3> QED BY <2>0, <3>1 DEF GatewayTypeOK
  <2>2. CASE Gateway!HandleFail(o)
    <3>1. (phase' = phase /\ result' = result) \/ Gateway!Settle(o, "failed")
      BY <2>2 DEF Gateway!HandleFail, Gateway!ops
    <3> QED BY <2>0, <3>1 DEF GatewayTypeOK
  <2>3. CASE Gateway!HandleClose(o)
    BY <1>2, <2>3 DEF GatewayTypeOK, Gateway!HandleClose, Gateway!Settle, Gateway!ops, Started
  <2>4. CASE Gateway!HandleInbound(o)
    BY <1>2, <2>4 DEF GatewayTypeOK, Gateway!HandleInbound, Gateway!Settle, Gateway!ops, Started
  <2> QED BY <1>3, <2>1, <2>2, <2>3, <2>4
<1>5. channel' \in [Operation -> {"none", "asked", "open", "shut"}]
  BY <1>2, <1>3 DEF GatewayTypeOK, Gateway!HandleOk, Gateway!HandleFail, Gateway!HandleClose,
     Gateway!HandleInbound
<1>6. listeners' \subseteq Listen
  BY <1>2, <1>3 DEF GatewayTypeOK, Gateway!HandleOk, Gateway!HandleFail, Gateway!HandleClose,
     Gateway!HandleInbound
<1>7. answered' \subseteq {"ok", "fail"} \X Operation
  BY <1>2, <1>3 DEF GatewayTypeOK, Gateway!HandleOk, Gateway!HandleFail, Gateway!HandleClose,
     Gateway!HandleInbound, Gateway!Answered, Gateway!answers
<1> QED BY <1>1, <1>2, <1>4, <1>5, <1>6, <1>7 DEF GatewayTypeOK

LEMMA QuietTypes ==
  ASSUME GatewayTypeOK, QuietStep
  PROVE  GatewayTypeOK'
<1>1. ASSUME NEW o \in Operation, Gateway!CallDirect(o) PROVE GatewayTypeOK'
  BY <1>1 DEF GatewayTypeOK, Gateway!CallDirect, Gateway!hist, Gateway!answers, Started
<1>2. ASSUME NEW o \in Operation, NEW new \in {"ok", "failed", "timedout"}, Gateway!Settle(o, new),
             UNCHANGED <<online, queue, drains, channel, inbox, inbound, listeners, enqueued, replayed, answered>>
      PROVE  GatewayTypeOK'
  BY <1>2 DEF GatewayTypeOK, Gateway!Settle, Started
<1>3. ASSUME NEW o \in Operation, Gateway!SendResolves(o) PROVE GatewayTypeOK'
  BY <1>3 DEF GatewayTypeOK, Gateway!SendResolves, Gateway!gateway, Gateway!hist, Gateway!answers, Started
<1>4. ASSUME NEW o \in Operation, Gateway!SendFails(o) \/ Gateway!Timeout(o) PROVE GatewayTypeOK'
  BY <1>2, <1>4 DEF Gateway!SendFails, Gateway!Timeout, Gateway!gateway, Gateway!hist, Gateway!answers
<1>12. ASSUME NEW o \in Operation, Gateway!DatagramSent(o) \/ Gateway!DatagramFails(o) PROVE GatewayTypeOK'
  <2>1. /\ phase' \in [Operation -> {"idle", "refused", "queued"} \cup Started]
        /\ result' \in [Operation -> {"none", "waiting", "ok", "error"}]
        /\ channel' \in [Operation -> {"none", "asked", "open", "shut"}]
    BY <1>12 DEF GatewayTypeOK, Gateway!DatagramSent, Gateway!DatagramFails, Gateway!Settle, Gateway!ops,
       Gateway!gateway, Started
  <2>2. UNCHANGED <<online, queue, drains, inbox, inbound, listeners, enqueued, replayed, answered>>
    BY <1>12 DEF Gateway!DatagramSent, Gateway!DatagramFails, Gateway!gateway, Gateway!hist, Gateway!answers
  <2> QED BY <2>1, <2>2 DEF GatewayTypeOK
<1>5. ASSUME NEW o \in Operation, NEW kind \in {"ok", "fail", "close", "inbound"}, NEW c \in {"open", "shut"},
             channel' = [channel EXCEPT ![o] = c] \/ channel' = channel,
             inbox' = Append(inbox, <<kind, o>>), inbound' \in 0..MaxInbound,
             UNCHANGED <<online, queue, drains, phase, result, listeners, enqueued, replayed, answered>>
      PROVE  GatewayTypeOK'
  <2>1. <<kind, o>> \in {"ok", "fail", "close", "inbound"} \X Operation
    OBVIOUS
  <2>2. inbox' \in Seq({"ok", "fail", "close", "inbound"} \X Operation)
    BY <1>5, <2>1 DEF GatewayTypeOK
  <2>3. channel' \in [Operation -> {"none", "asked", "open", "shut"}]
    BY <1>5 DEF GatewayTypeOK
  <2> QED BY <1>5, <2>2, <2>3 DEF GatewayTypeOK
<1>6. ASSUME NEW o \in Operation, Gateway!GatewayAnswers(o, TRUE) \/ Gateway!GatewayAnswers(o, FALSE)
      PROVE  GatewayTypeOK'
  BY <1>5, <1>6 DEF Gateway!GatewayAnswers, Gateway!ops, Gateway!hist, Gateway!answers, GatewayTypeOK
<1>7. ASSUME NEW o \in Operation, Gateway!GatewayCloses(o) PROVE GatewayTypeOK'
  BY <1>5, <1>7 DEF Gateway!GatewayCloses, Gateway!ops, Gateway!hist, Gateway!answers, GatewayTypeOK
<1>8. ASSUME NEW o \in Operation, Gateway!GatewayInbound(o) PROVE GatewayTypeOK'
  <2>1. inbound' \in 0..MaxInbound
    <3>1. MaxInbound \in Nat
      BY NetwayAssumption
    <3> QED BY <1>8, <3>1 DEF Gateway!GatewayInbound, GatewayTypeOK
  <2>2. /\ inbox' = Append(inbox, <<"inbound", o>>) /\ channel' = channel
        /\ UNCHANGED <<online, queue, drains, phase, result, listeners, enqueued, replayed, answered>>
    BY <1>8 DEF Gateway!GatewayInbound, Gateway!ops, Gateway!hist, Gateway!answers
  <2> QED BY <1>5, <2>1, <2>2
<1>9. ASSUME NEW o \in sockets, Gateway!PumpEnds(o) \/ Gateway!PumpFails(o) PROVE GatewayTypeOK'
  <2>1. channel' \in [Operation -> {"none", "asked", "open", "shut"}]
    BY <1>9 DEF GatewayTypeOK, Gateway!PumpEnds, Gateway!PumpFails, Gateway!gateway
  <2>2. UNCHANGED <<online, queue, drains, phase, result, inbox, inbound, listeners, enqueued, replayed, answered>>
    BY <1>9 DEF Gateway!PumpEnds, Gateway!PumpFails, Gateway!gateway, Gateway!ops, Gateway!hist, Gateway!answers
  <2> QED BY <2>1, <2>2 DEF GatewayTypeOK
<1>10. CASE Gateway!SetOnline
  BY <1>10 DEF GatewayTypeOK, Gateway!SetOnline, Gateway!ops, Gateway!gateway, Gateway!hist, Gateway!answers
<1>11. CASE Gateway!FinishClose
  BY <1>11 DEF GatewayTypeOK, Gateway!FinishClose, Gateway!gateway, Gateway!hist, Gateway!answers, Operation, Started
<1> QED BY <1>1, <1>3, <1>4, <1>6, <1>7, <1>8, <1>9, <1>10, <1>11, <1>12, HandleTypes DEF QuietStep

(* What a drain() sends next. *)
LEMMA ExecuteTypes ==
  ASSUME GatewayTypeOK, NEW rest \in Seq(Operation), Gateway!Execute(rest)
  PROVE  /\ phase' \in [Operation -> {"idle", "refused", "queued"} \cup Started]
         /\ channel' \in [Operation -> {"none", "asked", "open", "shut"}]
<1>1. CASE rest = <<>>
  BY <1>1 DEF GatewayTypeOK, Gateway!Execute
<1>2. CASE rest # <<>>
  <2>1. Head(rest) \in Operation
    BY <1>2, HeadTailProperties
  <2> QED BY <1>2, <2>1 DEF GatewayTypeOK, Gateway!Execute, Started
<1> QED BY <1>1, <1>2

LEMMA StartDrainTypes ==
  ASSUME GatewayTypeOK, Gateway!StartDrain
  PROVE  GatewayTypeOK'
<1>1. /\ queue # <<>> /\ drains' = Append(drains, queue) /\ queue' = <<>>
      /\ Gateway!Execute(queue) /\ replayed' = Append(replayed, <<Head(queue)>>)
      /\ UNCHANGED <<online, result, inbox, inbound, listeners, answered, enqueued>>
  BY DEF Gateway!StartDrain, Gateway!answers
<1>2. queue \in Seq(Operation)
  BY DEF GatewayTypeOK
<1>3. Head(queue) \in Operation
  BY <1>1, <1>2, HeadTailProperties
<1>4. <<Head(queue)>> \in Seq(Operation)
  BY <1>3
<1>5. /\ drains' \in Seq(Seq(Operation)) /\ replayed' \in Seq(Seq(Operation))
      /\ Len(replayed') = Len(drains') /\ queue' \in Seq(Operation)
  BY <1>1, <1>2, <1>4 DEF GatewayTypeOK
<1>6. /\ phase' \in [Operation -> {"idle", "refused", "queued"} \cup Started]
      /\ channel' \in [Operation -> {"none", "asked", "open", "shut"}]
  BY <1>1, <1>2, ExecuteTypes
<1> QED BY <1>1, <1>5, <1>6 DEF GatewayTypeOK

(* The next operation of a drain(), if there is one. *)
LEMMA RestOfDrain ==
  ASSUME GatewayTypeOK, NEW d \in DOMAIN drains, drains[d] # <<>>
  PROVE  /\ d \in 1..Len(drains) /\ drains[d] \in Seq(Operation) /\ replayed[d] \in Seq(Operation)
         /\ Tail(drains[d]) \in Seq(Operation) /\ Len(Tail(drains[d])) = Len(drains[d]) - 1
         /\ Len(drains[d]) \in Nat \ {0} /\ drains[d][1] \in Operation /\ Head(drains[d]) = drains[d][1]
         /\ \A i \in 1..(Len(drains[d]) - 1) : Tail(drains[d])[i] = drains[d][i + 1]
         /\ Len(drains[d]) > 1 => drains[d][2] \in Operation /\ Head(Tail(drains[d])) = drains[d][2]
         /\ Len(drains[d]) > 1 <=> Tail(drains[d]) # <<>>
<1>1. d \in 1..Len(drains) /\ drains[d] \in Seq(Operation) /\ replayed[d] \in Seq(Operation)
  BY DEF GatewayTypeOK
<1>2. Len(drains[d]) \in Nat \ {0}
  BY <1>1, EmptySeq
<1>3. /\ Tail(drains[d]) \in Seq(Operation) /\ Len(Tail(drains[d])) = Len(drains[d]) - 1
      /\ \A i \in 1..(Len(drains[d]) - 1) : Tail(drains[d])[i] = drains[d][i + 1]
  BY <1>1, HeadTailProperties
<1>4. Len(drains[d]) > 1 <=> Tail(drains[d]) # <<>>
  <2> DEFINE t == Tail(drains[d])
  <2>1. t \in Seq(Operation) /\ Len(t) = Len(drains[d]) - 1
    BY <1>3
  <2> HIDE DEF t
  <2>2. t # <<>> <=> Len(t) # 0
    BY <2>1, EmptySeq
  <2>3. Len(drains[d]) > 1 <=> t # <<>>
    BY <1>2, <2>1, <2>2
  <2> QED BY <2>3 DEF t
<1>5. Len(drains[d]) > 1 => drains[d][2] \in Operation /\ Head(Tail(drains[d])) = drains[d][2]
  <2> SUFFICES ASSUME Len(drains[d]) > 1
               PROVE  drains[d][2] \in Operation /\ Head(Tail(drains[d])) = drains[d][2]
    OBVIOUS
  <2>1. Head(Tail(drains[d])) = Tail(drains[d])[1]
    OBVIOUS
  <2> QED BY <1>1, <1>2, <1>3, <2>1
<1> QED BY <1>1, <1>2, <1>3, <1>4, <1>5

LEMMA NextOperationTypes ==
  ASSUME GatewayTypeOK, NEW d \in DOMAIN drains, drains[d] # <<>>,
         NEW outcome \in {"ok", "error"}, Gateway!NextOperation(d, outcome)
  PROVE  GatewayTypeOK'
<1>1. /\ result' = [result EXCEPT ![Head(drains[d])] = outcome]
      /\ drains' = [drains EXCEPT ![d] = Tail(drains[d])]
      /\ Gateway!Execute(Tail(drains[d]))
      /\ replayed' = [replayed EXCEPT ![d] = IF Len(drains[d]) > 1 THEN Append(replayed[d], drains[d][2])
                                             ELSE replayed[d]]
      /\ UNCHANGED <<online, queue, inbox, inbound, listeners, answered, enqueued>>
  BY DEF Gateway!NextOperation, Gateway!answers
<1>2. result' \in [Operation -> {"none", "waiting", "ok", "error"}]
  BY <1>1 DEF GatewayTypeOK
<1>3. drains' \in Seq(Seq(Operation)) /\ Len(drains') = Len(drains)
  BY <1>1, RestOfDrain, ExceptSeq DEF GatewayTypeOK
<1>4. replayed' \in Seq(Seq(Operation)) /\ Len(replayed') = Len(replayed)
  <2> DEFINE r == IF Len(drains[d]) > 1 THEN Append(replayed[d], drains[d][2]) ELSE replayed[d]
  <2>1. r \in Seq(Operation)
    BY RestOfDrain
  <2>2. d \in 1..Len(replayed) /\ replayed \in Seq(Seq(Operation))
    BY RestOfDrain DEF GatewayTypeOK
  <2> HIDE DEF r
  <2>3. replayed' = [replayed EXCEPT ![d] = r]
    BY <1>1 DEF r
  <2> QED BY <2>1, <2>2, <2>3, ExceptSeq
<1>5. /\ phase' \in [Operation -> {"idle", "refused", "queued"} \cup Started]
      /\ channel' \in [Operation -> {"none", "asked", "open", "shut"}]
  BY <1>1, RestOfDrain, ExecuteTypes
<1> QED BY <1>1, <1>2, <1>3, <1>4, <1>5 DEF GatewayTypeOK

LEMMA OtherTypes ==
  ASSUME GatewayTypeOK, Gateway!StartClose \/ \E o \in Operation : Gateway!Enqueue(o)
  PROVE  GatewayTypeOK'
<1>1. CASE Gateway!StartClose
  BY <1>1 DEF GatewayTypeOK, Gateway!StartClose, Gateway!gateway, Gateway!hist, Gateway!answers, Operation, Started
<1>2. ASSUME NEW o \in Operation, Gateway!Enqueue(o) PROVE GatewayTypeOK'
  <2>4. \/ queue' = Append(queue, o) /\ enqueued' = Append(enqueued, o)
        \/ queue' = queue /\ enqueued' = enqueued
    BY <1>2 DEF Gateway!Enqueue
  <2>1. queue' \in Seq(Operation) /\ enqueued' \in Seq(Operation)
    <3>1. \A q \in Seq(Operation) : Append(q, o) \in Seq(Operation)
      BY <1>2
    <3>2. queue \in Seq(Operation) /\ enqueued \in Seq(Operation)
      BY DEF GatewayTypeOK
    <3> QED BY <2>4, <3>1, <3>2
  <2>2. /\ phase' \in [Operation -> {"idle", "refused", "queued"} \cup Started]
        /\ result' \in [Operation -> {"none", "waiting", "ok", "error"}]
    BY <1>2 DEF GatewayTypeOK, Gateway!Enqueue
  <2>3. UNCHANGED <<online, drains, channel, inbox, inbound, listeners, answered, replayed>>
    BY <1>2 DEF Gateway!Enqueue, Gateway!gateway, Gateway!answers
  <2> QED BY <2>1, <2>2, <2>3 DEF GatewayTypeOK
<1> QED BY <1>1, <1>2

(* Steps that leave the lines alone: what waits in one goes on waiting, and *)
(* what has started never waits again.                                      *)
Quiet ==
  \A o \in Operation : /\ phase[o] = "queued" => phase'[o] = "queued"
                       /\ phase[o] \in Started => phase'[o] \in Started

LEMMA QuietKeepsLines ==
  ASSUME GatewayTypeOK, LinesInv, Quiet, UNCHANGED Kept
  PROVE  LinesInv'
<1>1. queue' = queue /\ drains' = drains /\ enqueued' = enqueued /\ replayed' = replayed
  BY DEF Kept
<1>2. \A d \in 1..Len(drains) : drains[d] \in Seq(Operation) /\ replayed[d] \in Seq(Operation)
  BY DEF GatewayTypeOK
<1>3. PlacesInv'
  <2>1. \A i \in 1..Len(queue) : phase'[queue[i]] = "queued"
    <3> TAKE i \in 1..Len(queue)
    <3>1. queue[i] \in Operation
      BY DEF GatewayTypeOK
    <3>2. phase[queue[i]] = "queued"
      BY DEF LinesInv, PlacesInv
    <3> QED BY <3>1, <3>2 DEF Quiet
  <2>2. \A d \in 1..Len(drains) : \A i \in 2..Len(drains[d]) : phase'[drains[d][i]] = "queued"
    <3> TAKE d \in 1..Len(drains)
    <3> TAKE i \in 2..Len(drains[d])
    <3>1. drains[d] \in Seq(Operation) /\ i \in 1..Len(drains[d])
      BY <1>2
    <3>2. drains[d][i] \in Operation
      BY <3>1
    <3>3. phase[drains[d][i]] = "queued"
      BY DEF LinesInv, PlacesInv
    <3> QED BY <3>2, <3>3 DEF Quiet
  <2>3. /\ \A i, j \in 1..Len(queue) : queue[i] = queue[j] => i = j
        /\ \A d \in 1..Len(drains) : \A i \in 2..Len(drains[d]) : \A j \in 1..Len(queue) : queue[j] # drains[d][i]
        /\ \A c, d \in 1..Len(drains) : \A i \in 2..Len(drains[c]) : \A j \in 2..Len(drains[d]) :
             drains[c][i] = drains[d][j] => c = d /\ i = j
    BY DEF LinesInv, PlacesInv
  <2> QED BY <1>1, <2>1, <2>2, <2>3 DEF PlacesInv
<1>4. ReplayedInv'
  <2>1. \A d \in 1..Len(drains) : drains[d] # <<>> => phase'[drains[d][1]] \in Started
    <3> SUFFICES ASSUME NEW d \in 1..Len(drains), drains[d] # <<>> PROVE phase'[drains[d][1]] \in Started
      OBVIOUS
    <3>1. drains[d][1] \in Operation
      BY <1>2, EmptySeq
    <3> QED BY <3>1 DEF LinesInv, ReplayedInv, Quiet
  <2>2. \A d \in 1..Len(drains) : \A i \in 1..Len(replayed[d]) : phase'[replayed[d][i]] \in Started
    BY <1>2 DEF LinesInv, ReplayedInv, Quiet
  <2> QED BY <1>1, <2>1, <2>2 DEF LinesInv, ReplayedInv
<1>5. FifoInv'
  BY <1>1 DEF LinesInv, FifoInv
<1> QED BY <1>3, <1>4, <1>5 DEF LinesInv

LEMMA QuietStepIsQuiet ==
  ASSUME GatewayTypeOK, QuietStep
  PROVE  Quiet /\ UNCHANGED Kept
<1>1. UNCHANGED Kept
  BY DEF QuietStep, Kept, Gateway!CallDirect, Gateway!SendResolves, Gateway!SendFails, Gateway!Timeout,
     Gateway!GatewayCloses, Gateway!GatewayInbound, Gateway!GatewayAnswers, Gateway!PumpEnds,
     Gateway!PumpFails, Gateway!SetOnline, Gateway!HandleGatewayMessage, Gateway!FinishClose,
     Gateway!DatagramSent, Gateway!DatagramFails,
     Gateway!hist, Gateway!answers, Gateway!gateway
<1>2. ASSUME NEW o \in Operation, phase[o] \notin {"queued"} \cup Started, NEW p, phase' = [phase EXCEPT ![o] = p]
      PROVE  Quiet
  BY <1>2 DEF Quiet, GatewayTypeOK
<1>3. ASSUME NEW o \in Operation, phase[o] # "queued", NEW p \in Started, phase' = [phase EXCEPT ![o] = p]
      PROVE  Quiet
  BY <1>3 DEF Quiet, GatewayTypeOK
<1>4. ASSUME phase' = phase PROVE Quiet
  BY <1>4 DEF Quiet
<1>5. ASSUME NEW o \in Operation, Gateway!CallDirect(o) PROVE Quiet
  BY <1>2, <1>5 DEF Gateway!CallDirect, Started
<1>6. ASSUME NEW o \in Operation, Gateway!SendResolves(o) \/ Gateway!SendFails(o) \/ Gateway!Timeout(o) PROVE Quiet
  BY <1>3, <1>6 DEF Gateway!SendResolves, Gateway!SendFails, Gateway!Timeout, Gateway!Settle, Started
<1>10. ASSUME NEW o \in Operation, Gateway!DatagramSent(o) \/ Gateway!DatagramFails(o) PROVE Quiet
  <2>1. \/ phase' = phase
        \/ phase[o] = "pending" /\ \E p \in Started : phase' = [phase EXCEPT ![o] = p]
    BY <1>10 DEF Gateway!DatagramSent, Gateway!DatagramFails, Gateway!Settle, Gateway!ops, Started
  <2> QED BY <1>3, <1>4, <2>1
<1>7. CASE Gateway!HandleGatewayMessage
  <2> DEFINE o == Head(inbox)[2]
  <2>1. o \in Operation
    <3>1. inbox # <<>>
      BY <1>7 DEF Gateway!HandleGatewayMessage
    <3> QED BY <3>1, HeadTailProperties DEF GatewayTypeOK
  <2>2. \/ phase' = phase
        \/ phase[o] = "pending" /\ \E p \in Started : phase' = [phase EXCEPT ![o] = p]
    BY <1>7 DEF Gateway!HandleGatewayMessage, Gateway!HandleOk, Gateway!HandleFail, Gateway!HandleClose,
       Gateway!HandleInbound, Gateway!Settle, Gateway!Registered, Gateway!ops, Started
  <2> HIDE DEF o
  <2> QED BY <1>1, <1>3, <1>4, <2>1, <2>2
<1>8. CASE Gateway!FinishClose
  <2>1. \A o \in Operation : phase'[o] = phase[o] \/ (phase[o] = "pending" /\ phase'[o] = "failed")
    BY <1>8 DEF Gateway!FinishClose, Gateway!Registered, Operation
  <2>2. \A o \in Operation : /\ phase[o] = "queued" => phase'[o] = "queued"
                             /\ phase[o] \in Started => phase'[o] \in Started
    BY <2>1 DEF Started
  <2>3. Quiet
    BY <2>2 DEF Quiet
  <2> QED BY <1>1, <2>3
<1>9. ASSUME NEW o, \/ Gateway!GatewayCloses(o) \/ Gateway!GatewayInbound(o) \/ Gateway!GatewayAnswers(o, TRUE)
                    \/ Gateway!GatewayAnswers(o, FALSE) \/ Gateway!PumpEnds(o) \/ Gateway!PumpFails(o)
                    \/ Gateway!SetOnline
      PROVE  Quiet
  BY <1>4, <1>9 DEF Gateway!GatewayCloses, Gateway!GatewayInbound, Gateway!GatewayAnswers, Gateway!PumpEnds,
     Gateway!PumpFails, Gateway!SetOnline, Gateway!ops
<1> QED BY <1>1, <1>5, <1>6, <1>7, <1>8, <1>9, <1>10 DEF QuietStep

(* enqueue() on a queue that has room. *)
LEMMA EnqueueKeepsLines ==
  ASSUME GatewayInv, NEW o \in Operation, Gateway!Enqueue(o)
  PROVE  LinesInv'
<1>1. /\ phase[o] = "idle" /\ drains' = drains /\ replayed' = replayed
      /\ queue \in Seq(Operation) /\ enqueued \in Seq(Operation)
      /\ phase \in [Operation -> {"idle", "refused", "queued"} \cup Started]
      /\ \A d \in 1..Len(drains) : drains[d] \in Seq(Operation) /\ replayed[d] \in Seq(Operation)
  BY DEF Gateway!Enqueue, GatewayInv, GatewayTypeOK
<1>2. CASE queue' = queue /\ enqueued' = enqueued /\ phase' = [phase EXCEPT ![o] = "refused"]
  <2>1. Quiet /\ UNCHANGED Kept
    BY <1>1, <1>2 DEF Quiet, Kept, Started
  <2> QED BY <2>1, QuietKeepsLines DEF GatewayInv
<1>3. CASE queue' = Append(queue, o) /\ enqueued' = Append(enqueued, o) /\ phase' = [phase EXCEPT ![o] = "queued"]
  <2>1. /\ Len(queue') = Len(queue) + 1 /\ Len(enqueued') = Len(enqueued) + 1
        /\ Len(queue) \in Nat /\ Len(enqueued) \in Nat
        /\ \A i \in 1..Len(queue) : queue'[i] = queue[i] /\ queue'[Len(queue) + 1] = o
        /\ queue'[Len(queue) + 1] = o
        /\ \A i \in 1..Len(enqueued) : enqueued'[i] = enqueued[i]
        /\ enqueued'[Len(enqueued) + 1] = o
    BY <1>1, <1>3
  <2>2. \A p \in Operation : phase[p] # "idle" => phase'[p] = phase[p] /\ p # o
    BY <1>1, <1>3
  <2>3. phase'[o] = "queued"
    BY <1>1, <1>3
  <2>4. /\ \A i \in 1..Len(queue) : phase'[queue[i]] = "queued" /\ queue[i] # o
        /\ \A d \in 1..Len(drains) : \A i \in 2..Len(drains[d]) :
             phase'[drains[d][i]] = "queued" /\ drains[d][i] # o
    BY <1>1, <2>2 DEF GatewayInv, LinesInv, PlacesInv
  <2>5. PlacesInv'
    <3>1. \A i \in 1..Len(queue') : \/ i \in 1..Len(queue) /\ queue'[i] = queue[i]
                                    \/ i = Len(queue) + 1 /\ queue'[i] = o
      BY <2>1
    <3>2. \A i \in 1..Len(queue') : phase'[queue'[i]] = "queued"
      BY <2>3, <2>4, <3>1
    <3>3. \A i, j \in 1..Len(queue') : queue'[i] = queue'[j] => i = j
      BY <2>4, <3>1 DEF GatewayInv, LinesInv, PlacesInv
    <3>4. \A d \in 1..Len(drains) : \A i \in 2..Len(drains[d]) : \A j \in 1..Len(queue') :
             queue'[j] # drains[d][i]
      BY <2>4, <3>1 DEF GatewayInv, LinesInv, PlacesInv
    <3> QED BY <1>1, <2>4, <3>2, <3>3, <3>4 DEF GatewayInv, LinesInv, PlacesInv
  <2>6. ReplayedInv'
    <3>1. \A p \in Operation : phase[p] \in Started => phase'[p] \in Started
      BY <2>2 DEF Started
    <3>2. \A d \in 1..Len(drains) : drains[d] # <<>> => drains[d][1] \in Operation
      BY <1>1, EmptySeq
    <3>3. \A d \in 1..Len(drains) : drains[d] # <<>> => phase'[drains[d][1]] \in Started
      BY <3>1, <3>2 DEF GatewayInv, LinesInv, ReplayedInv
    <3>4. \A d \in 1..Len(drains) : \A i \in 1..Len(replayed[d]) : phase'[replayed[d][i]] \in Started
      BY <1>1, <3>1 DEF GatewayInv, LinesInv, ReplayedInv
    <3>5. drains' = drains /\ replayed' = replayed
      BY <1>1
    <3>6. \A c, d \in 1..Len(drains) : c # d =>
            \A i \in 1..Len(replayed[c]) : \A j \in 1..Len(replayed[d]) : replayed[c][i] # replayed[d][j]
      BY DEF GatewayInv, LinesInv, ReplayedInv
    <3>7. \A d \in 1..Len(drains') : drains'[d] # <<>> => phase'[drains'[d][1]] \in Started
      BY <3>3, <3>5
    <3>8. \A d \in 1..Len(drains') : \A i \in 1..Len(replayed'[d]) : phase'[replayed'[d][i]] \in Started
      BY <3>4, <3>5
    <3>9. \A c, d \in 1..Len(drains') : c # d =>
            \A i \in 1..Len(replayed'[c]) : \A j \in 1..Len(replayed'[d]) : replayed'[c][i] # replayed'[d][j]
      BY <3>5, <3>6
    <3> QED BY <3>7, <3>8, <3>9 DEF ReplayedInv
  <2>7. FifoInv'
    <3>1. Len(queue') =< Len(enqueued') /\ Len(enqueued') - Len(queue') = Len(enqueued) - Len(queue)
      BY <2>1 DEF GatewayInv, LinesInv, FifoInv
    <3>2. \A i \in 1..Len(queue') : queue'[i] = enqueued'[Len(enqueued) - Len(queue) + i]
      <4> TAKE i \in 1..Len(queue')
      <4>1. CASE i \in 1..Len(queue)
        <5>1. Len(enqueued) - Len(queue) + i \in 1..Len(enqueued)
          BY <2>1, <4>1 DEF GatewayInv, LinesInv, FifoInv
        <5> QED BY <2>1, <4>1, <5>1 DEF GatewayInv, LinesInv, FifoInv
      <4>2. CASE i = Len(queue) + 1
        <5>1. Len(enqueued) - Len(queue) + i = Len(enqueued) + 1
          BY <2>1, <4>2
        <5> QED BY <2>1, <4>2, <5>1
      <4> QED BY <2>1, <4>1, <4>2
    <3>3. \A d \in 1..Len(drains) : InSegment(replayed[d], drains[d], enqueued')
      BY <1>1, <1>3, SegmentGrows DEF GatewayInv, LinesInv, FifoInv
    <3> QED BY <1>1, <3>1, <3>2, <3>3 DEF FifoInv
  <2> QED BY <2>5, <2>6, <2>7 DEF LinesInv
<1> QED BY <1>2, <1>3 DEF Gateway!Enqueue

(* close() drops what is in the queue. *)
LEMMA StartCloseKeepsLines ==
  ASSUME GatewayInv, Gateway!StartClose
  PROVE  LinesInv'
<1>1. /\ queue' = <<>> /\ drains' = drains /\ replayed' = replayed /\ enqueued' = enqueued
      /\ phase' = [o \in Operation |-> IF o \in Gateway!ToSet(queue) THEN "failed" ELSE phase[o]]
  BY DEF Gateway!StartClose, Gateway!hist, Gateway!answers, Operation
<1>2. /\ queue \in Seq(Operation) /\ enqueued \in Seq(Operation)
      /\ \A d \in 1..Len(drains) : drains[d] \in Seq(Operation) /\ replayed[d] \in Seq(Operation)
  BY DEF GatewayInv, GatewayTypeOK
<1>3. \A o \in Operation : o \in Gateway!ToSet(queue) <=> \E i \in 1..Len(queue) : queue[i] = o
  BY <1>2 DEF Gateway!ToSet
<1>4. \A o \in Operation : phase[o] \in Started => phase'[o] \in Started
  BY <1>1 DEF Started
<1>5. PlacesInv'
  <2>1. \A d \in 1..Len(drains) : \A i \in 2..Len(drains[d]) : phase'[drains[d][i]] = "queued"
    <3> TAKE d \in 1..Len(drains)
    <3> TAKE i \in 2..Len(drains[d])
    <3>1. drains[d][i] \in Operation /\ ~ \E j \in 1..Len(queue) : queue[j] = drains[d][i]
      BY <1>2 DEF GatewayInv, LinesInv, PlacesInv
    <3>2. phase'[drains[d][i]] = phase[drains[d][i]]
      BY <1>1, <1>3, <3>1
    <3> QED BY <3>2 DEF GatewayInv, LinesInv, PlacesInv
  <2>2. Len(queue') = 0
    BY <1>1
  <2> QED BY <1>1, <2>1, <2>2 DEF GatewayInv, LinesInv, PlacesInv
<1>6. ReplayedInv'
  <2>1. \A d \in 1..Len(drains) : drains[d] # <<>> => drains[d][1] \in Operation
    BY <1>2, EmptySeq
  <2> QED BY <1>1, <1>2, <1>4, <2>1 DEF GatewayInv, LinesInv, ReplayedInv
<1>7. FifoInv'
  <2>1. Len(queue') = 0 /\ Len(enqueued) \in Nat
    BY <1>1, <1>2
  <2> QED BY <1>1, <2>1 DEF GatewayInv, LinesInv, FifoInv
<1> QED BY <1>5, <1>6, <1>7 DEF LinesInv

(* The operation that a drain() sends leaves the lines it waited in. *)
LEMMA Executes ==
  ASSUME GatewayTypeOK, NEW rest \in Seq(Operation), Gateway!Execute(rest),
         NEW waits \in SUBSET Operation,
         \A o \in waits : phase[o] = "queued" /\ (rest # <<>> => o # rest[1])
  PROVE  /\ \A o \in waits : phase'[o] = "queued"
         /\ \A o \in Operation : phase[o] \in Started => phase'[o] \in Started
         /\ rest # <<>> => phase'[rest[1]] \in Started
<1>1. CASE rest = <<>>
  BY <1>1 DEF Gateway!Execute
<1>2. CASE rest # <<>>
  <2>1. Head(rest) = rest[1] /\ rest[1] \in Operation
    BY <1>2, EmptySeq
  <2>2. phase' = [phase EXCEPT ![rest[1]] = "sending"]
    BY <1>2, <2>1 DEF Gateway!Execute
  <2> QED BY <1>2, <2>1, <2>2 DEF GatewayTypeOK, Started
<1> QED BY <1>1, <1>2

(* drain() on a queue that is not empty. *)
LEMMA StartDrainKeepsLines ==
  ASSUME GatewayInv, Gateway!StartDrain
  PROVE  LinesInv'
<1> DEFINE n == Len(drains) + 1
<1>1. /\ queue # <<>> /\ drains' = Append(drains, queue) /\ queue' = <<>>
      /\ Gateway!Execute(queue) /\ replayed' = Append(replayed, <<Head(queue)>>)
      /\ enqueued' = enqueued
  BY DEF Gateway!StartDrain
<1>2. /\ queue \in Seq(Operation) /\ enqueued \in Seq(Operation)
      /\ drains \in Seq(Seq(Operation)) /\ replayed \in Seq(Seq(Operation)) /\ Len(replayed) = Len(drains)
      /\ Len(queue) \in Nat \ {0} /\ Len(drains) \in Nat
      /\ Head(queue) = queue[1] /\ queue[1] \in Operation
  BY <1>1, EmptySeq DEF GatewayInv, GatewayTypeOK
<1>3. /\ Len(drains') = n /\ drains'[n] = queue /\ replayed'[n] = <<queue[1]>>
      /\ \A d \in 1..Len(drains) : drains'[d] = drains[d] /\ replayed'[d] = replayed[d]
      /\ Len(queue') = 0
  BY <1>1, <1>2
<1>4. \A d \in 1..n : d \in 1..Len(drains) \/ d = n
  BY <1>2
<1>5. /\ n \notin 1..Len(drains) /\ \A d \in 1..Len(drains) : d # n
      /\ Len(replayed'[n]) = 1 /\ replayed'[n][1] = queue[1]
  BY <1>2, <1>3
<1> HIDE DEF n
<1>6. /\ \A i \in 2..Len(queue) : phase'[queue[i]] = "queued"
      /\ \A d \in 1..Len(drains) : \A i \in 2..Len(drains[d]) : phase'[drains[d][i]] = "queued"
      /\ \A o \in Operation : phase[o] \in Started => phase'[o] \in Started
      /\ phase'[queue[1]] \in Started
  <2> DEFINE waits == {queue[i] : i \in 2..Len(queue)}
                        \cup UNION {{drains[d][i] : i \in 2..Len(drains[d])} : d \in 1..Len(drains)}
  <2>1. waits \in SUBSET Operation
    <3>1. \A i \in 2..Len(queue) : queue[i] \in Operation
      BY <1>2
    <3>2. \A d \in 1..Len(drains) : drains[d] \in Seq(Operation)
      BY <1>2
    <3>3. ASSUME NEW d \in 1..Len(drains), NEW i \in 2..Len(drains[d]) PROVE drains[d][i] \in Operation
      <4>1. drains[d] \in Seq(Operation) /\ i \in 1..Len(drains[d])
        BY <3>2
      <4> QED BY <4>1
    <3> QED BY <3>1, <3>3
  <2>2. \A i \in 2..Len(queue) : phase[queue[i]] = "queued" /\ queue[i] # queue[1]
    BY <1>2 DEF GatewayInv, LinesInv, PlacesInv
  <2>3. \A d \in 1..Len(drains) : \A i \in 2..Len(drains[d]) :
          phase[drains[d][i]] = "queued" /\ drains[d][i] # queue[1]
    BY <1>2 DEF GatewayInv, LinesInv, PlacesInv
  <2>4. \A o \in waits : phase[o] = "queued" /\ o # queue[1]
    BY <2>2, <2>3
  <2>5. /\ \A i \in 2..Len(queue) : queue[i] \in waits
        /\ \A d \in 1..Len(drains) : \A i \in 2..Len(drains[d]) : drains[d][i] \in waits
    OBVIOUS
  <2> HIDE DEF waits
  <2>6. /\ \A o \in waits : phase'[o] = "queued"
        /\ \A o \in Operation : phase[o] \in Started => phase'[o] \in Started
        /\ phase'[queue[1]] \in Started
    BY <1>1, <1>2, <2>1, <2>4, Executes DEF GatewayInv
  <2> QED BY <2>5, <2>6
<1>7. PlacesInv'
  <2>1. \A d \in 1..n : \A i \in 2..Len(drains'[d]) : phase'[drains'[d][i]] = "queued"
    BY <1>3, <1>4, <1>6
  <2>2. \A c, d \in 1..n : \A i \in 2..Len(drains'[c]) : \A j \in 2..Len(drains'[d]) :
          drains'[c][i] = drains'[d][j] => c = d /\ i = j
    <3> TAKE c, d \in 1..n
    <3>1. \A i, j \in 2..Len(queue) : queue[i] = queue[j] => i = j
      BY <1>2 DEF GatewayInv, LinesInv, PlacesInv
    <3>2. \A b \in 1..Len(drains) : \A i \in 2..Len(drains[b]) : \A j \in 2..Len(queue) : queue[j] # drains[b][i]
      BY <1>2 DEF GatewayInv, LinesInv, PlacesInv
    <3>3. \A a, b \in 1..Len(drains) : \A i \in 2..Len(drains[a]) : \A j \in 2..Len(drains[b]) :
            drains[a][i] = drains[b][j] => a = b /\ i = j
      BY DEF GatewayInv, LinesInv, PlacesInv
    <3>4. CASE c = n /\ d = n
      BY <1>3, <3>1, <3>4
    <3>5. CASE c = n /\ d # n
      BY <1>3, <1>4, <3>2, <3>5
    <3>6. CASE c # n /\ d = n
      BY <1>3, <1>4, <3>2, <3>6
    <3>7. CASE c # n /\ d # n
      BY <1>3, <1>4, <3>3, <3>7
    <3> QED BY <3>4, <3>5, <3>6, <3>7
  <2> QED BY <1>3, <2>1, <2>2 DEF PlacesInv
<1>8. ReplayedInv'
  <2>1. \A d \in 1..n : drains'[d] # <<>> => phase'[drains'[d][1]] \in Started
    <3>1. \A d \in 1..Len(drains) : drains[d] # <<>> => drains[d][1] \in Operation /\ phase[drains[d][1]] \in Started
      BY <1>2, EmptySeq DEF GatewayInv, LinesInv, ReplayedInv
    <3> QED BY <1>3, <1>4, <1>6, <3>1, SMTT(60)
  <2>2. \A d \in 1..Len(drains) : \A i \in 1..Len(replayed[d]) :
          /\ replayed[d][i] \in Operation /\ phase[replayed[d][i]] \in Started
          /\ replayed[d][i] # queue[1]
    <3>1. \A d \in 1..Len(drains) : \A i \in 1..Len(replayed[d]) :
            replayed[d][i] \in Operation /\ phase[replayed[d][i]] \in Started
      BY <1>2 DEF GatewayInv, LinesInv, ReplayedInv
    <3>2. phase[queue[1]] = "queued"
      <4>1. 1 \in 1..Len(queue)
        BY <1>2
      <4> QED BY <4>1 DEF GatewayInv, LinesInv, PlacesInv
    <3> QED BY <3>1, <3>2 DEF Started
  <2>3. \A d \in 1..n : \A i \in 1..Len(replayed'[d]) : phase'[replayed'[d][i]] \in Started
    <3> TAKE d \in 1..n
    <3>1. CASE d = n
      BY <1>5, <1>6, <3>1
    <3>2. CASE d \in 1..Len(drains)
      <4>1. replayed'[d] = replayed[d]
        BY <1>3, <3>2
      <4> QED BY <1>6, <2>2, <3>2, <4>1
    <3> QED BY <1>4, <3>1, <3>2
  <2>4. \A c, d \in 1..n : c # d =>
          \A i \in 1..Len(replayed'[c]) : \A j \in 1..Len(replayed'[d]) : replayed'[c][i] # replayed'[d][j]
    <3> TAKE c, d \in 1..n
    <3>1. \A a, b \in 1..Len(drains) : a # b =>
            \A i \in 1..Len(replayed[a]) : \A j \in 1..Len(replayed[b]) : replayed[a][i] # replayed[b][j]
      BY DEF GatewayInv, LinesInv, ReplayedInv
    <3>2. CASE c \in 1..Len(drains) /\ d \in 1..Len(drains)
      <4>1. replayed'[c] = replayed[c] /\ replayed'[d] = replayed[d]
        BY <1>3, <3>2
      <4> QED BY <3>1, <3>2, <4>1
    <3>3. CASE c = n /\ d \in 1..Len(drains)
      BY <1>3, <1>5, <2>2, <3>3
    <3>4. CASE d = n /\ c \in 1..Len(drains)
      BY <1>3, <1>5, <2>2, <3>4
    <3> QED BY <1>4, <3>2, <3>3, <3>4
  <2> QED BY <1>3, <2>1, <2>3, <2>4 DEF ReplayedInv
<1>9. FifoInv'
  <2>1. InSegment(replayed'[n], queue, enqueued)
    <3>1. replayed'[n] = <<Head(queue)>>
      BY <1>2, <1>3
    <3>2. Len(queue) =< Len(enqueued) /\ \A i \in 1..Len(queue) : queue[i] = enqueued[Len(enqueued) - Len(queue) + i]
      BY DEF GatewayInv, LinesInv, FifoInv
    <3> QED BY <1>1, <1>2, <3>1, <3>2, SegmentStarts
  <2>2. \A d \in 1..n : InSegment(replayed'[d], drains'[d], enqueued)
    BY <1>3, <1>4, <2>1 DEF GatewayInv, LinesInv, FifoInv
  <2>3. Len(enqueued) \in Nat /\ enqueued' = enqueued
    BY <1>1, <1>2
  <2>4. \A d \in 1..Len(drains') : InSegment(replayed'[d], drains'[d], enqueued')
    BY <1>3, <2>2, <2>3
  <2> QED BY <1>3, <2>3, <2>4 DEF FifoInv
<1> QED BY <1>7, <1>8, <1>9 DEF LinesInv

LEMMA NextOperationKeepsLines ==
  ASSUME GatewayInv, NEW d \in DOMAIN drains, drains[d] # <<>>, NEW outcome,
         Gateway!NextOperation(d, outcome)
  PROVE  LinesInv'
<1> DEFINE row == drains[d]
           t == Tail(row)
           r == IF Len(row) > 1 THEN Append(replayed[d], row[2]) ELSE replayed[d]
<1>1. /\ drains' = [drains EXCEPT ![d] = t] /\ Gateway!Execute(t)
      /\ replayed' = [replayed EXCEPT ![d] = r] /\ queue' = queue /\ enqueued' = enqueued
  BY DEF Gateway!NextOperation
<1>2. /\ drains \in Seq(Seq(Operation)) /\ replayed \in Seq(Seq(Operation)) /\ Len(replayed) = Len(drains)
      /\ queue \in Seq(Operation) /\ enqueued \in Seq(Operation)
  BY DEF GatewayInv, GatewayTypeOK
<1>3. /\ d \in 1..Len(drains) /\ row \in Seq(Operation) /\ replayed[d] \in Seq(Operation)
      /\ t \in Seq(Operation) /\ Len(t) = Len(row) - 1 /\ Len(row) \in Nat \ {0} /\ row[1] \in Operation
      /\ \A i \in 1..(Len(row) - 1) : t[i] = row[i + 1]
      /\ Len(row) > 1 => row[2] \in Operation /\ t[1] = row[2]
      /\ Len(row) > 1 <=> t # <<>>
  BY RestOfDrain DEF GatewayInv
<1>4. /\ \/ Len(row) > 1 /\ r = Append(replayed[d], row[2])
         \/ ~ (Len(row) > 1) /\ r = replayed[d]
      /\ InSegment(r, t, enqueued)
  BY <1>2, <1>3, SegmentGoesOn DEF GatewayInv, LinesInv, FifoInv
<1> HIDE DEF t, r
<1>5. /\ Len(drains') = Len(drains) /\ drains'[d] = t /\ replayed'[d] = r
      /\ \A c \in 1..Len(drains) : c # d => drains'[c] = drains[c] /\ replayed'[c] = replayed[c]
  BY <1>1, <1>2, <1>3
<1>6. \A c \in 1..Len(drains) : \A i \in 2..Len(drains'[c]) :
        \/ c # d /\ i \in 2..Len(drains[c]) /\ drains'[c][i] = drains[c][i]
        \/ c = d /\ i + 1 \in 3..Len(drains[c]) /\ drains'[c][i] = drains[c][i + 1]
  <2> TAKE c \in 1..Len(drains)
  <2> TAKE i \in 2..Len(drains'[c])
  <2>1. CASE c # d
    BY <1>5, <2>1
  <2>2. CASE c = d
    <3>1. drains'[c] = t /\ drains[c] = row
      BY <1>5, <2>2
    <3>2. i \in 1..(Len(row) - 1) /\ i + 1 \in 3..Len(row)
      BY <1>3, <3>1
    <3> QED BY <1>3, <2>2, <3>1, <3>2
  <2> QED BY <2>1, <2>2
<1>7. \A c \in 1..Len(drains) : drains[c] \in Seq(Operation) /\ replayed[c] \in Seq(Operation)
  BY <1>2
<1>8. /\ \A c \in 1..Len(drains) : \A i \in 2..Len(drains'[c]) : phase'[drains'[c][i]] = "queued"
      /\ \A i \in 1..Len(queue) : phase'[queue[i]] = "queued"
      /\ \A o \in Operation : phase[o] \in Started => phase'[o] \in Started
      /\ Len(row) > 1 => phase'[row[2]] \in Started
  <2> DEFINE waits == {queue[i] : i \in 1..Len(queue)}
                        \cup UNION {{drains'[c][i] : i \in 2..Len(drains'[c])} : c \in 1..Len(drains)}
  <2>1. \A i \in 1..Len(queue) : queue[i] \in Operation /\ phase[queue[i]] = "queued" /\ (Len(row) > 1 => queue[i] # row[2])
    <3> TAKE i \in 1..Len(queue)
    <3>1. queue[i] \in Operation
      BY <1>2
    <3>2. phase[queue[i]] = "queued" /\ \A j \in 2..Len(row) : queue[i] # row[j]
      BY <1>3 DEF GatewayInv, LinesInv, PlacesInv
    <3>3. Len(row) > 1 => 2 \in 2..Len(row)
      BY <1>3
    <3> QED BY <3>1, <3>2, <3>3
  <2>2. \A c \in 1..Len(drains) : \A i \in 2..Len(drains'[c]) :
          /\ drains'[c][i] \in Operation /\ phase[drains'[c][i]] = "queued"
          /\ Len(row) > 1 => drains'[c][i] # row[2]
    <3> TAKE c \in 1..Len(drains)
    <3> TAKE i \in 2..Len(drains'[c])
    <3>1. PICK j \in 2..Len(drains[c]) : drains'[c][i] = drains[c][j] /\ (c = d => j # 2)
      <4>1. i + 1 # 2
        OBVIOUS
      <4>2. CASE c # d
        BY <1>6, <4>2
      <4>3. CASE c = d
        <5>1. i + 1 \in 2..Len(drains[c]) /\ drains'[c][i] = drains[c][i + 1]
          BY <1>6, <4>3
        <5> QED BY <4>1, <5>1
      <4> QED BY <4>2, <4>3
    <3>2. drains[c][j] \in Operation /\ phase[drains[c][j]] = "queued"
      BY <1>7 DEF GatewayInv, LinesInv, PlacesInv
    <3>3. Len(row) > 1 => drains[c][j] # row[2]
      <4> SUFFICES ASSUME Len(row) > 1 PROVE drains[c][j] # row[2]
        OBVIOUS
      <4>1. 2 \in 2..Len(drains[d])
        BY <1>3
      <4>2. drains[c][j] = drains[d][2] => c = d /\ j = 2
        BY <1>3, <4>1 DEF GatewayInv, LinesInv, PlacesInv
      <4> QED BY <3>1, <4>2
    <3> QED BY <3>1, <3>2, <3>3
  <2>3. waits \in SUBSET Operation
    <3>1. /\ \A i \in 1..Len(queue) : queue[i] \in Operation
          /\ \A c \in 1..Len(drains) : \A i \in 2..Len(drains'[c]) : drains'[c][i] \in Operation
      BY <2>1, <2>2
    <3>2. ASSUME NEW o \in waits PROVE o \in Operation
      <4>1. \/ \E i \in 1..Len(queue) : o = queue[i]
            \/ \E c \in 1..Len(drains) : \E i \in 2..Len(drains'[c]) : o = drains'[c][i]
        BY Zenon
      <4>2. CASE \E i \in 1..Len(queue) : o = queue[i]
        <5>1. PICK i \in 1..Len(queue) : o = queue[i]
          BY <4>2
        <5>2. queue[i] \in Operation
          BY <3>1
        <5> QED BY <5>1, <5>2
      <4>3. CASE \E c \in 1..Len(drains) : \E i \in 2..Len(drains'[c]) : o = drains'[c][i]
        <5>1. PICK c \in 1..Len(drains) : \E i \in 2..Len(drains'[c]) : o = drains'[c][i]
          BY <4>3
        <5>2. PICK i \in 2..Len(drains'[c]) : o = drains'[c][i]
          BY <5>1
        <5>3. drains'[c][i] \in Operation
          BY <3>1
        <5> QED BY <5>2, <5>3
      <4> QED BY <4>1, <4>2, <4>3
    <3> QED BY <3>2
  <2>4. \A o \in waits : phase[o] = "queued" /\ (t # <<>> => o # t[1])
    <3> TAKE o \in waits
    <3>1. t # <<>> => Len(row) > 1 /\ t[1] = row[2]
      BY <1>3
    <3>2. \/ \E i \in 1..Len(queue) : o = queue[i]
          \/ \E c \in 1..Len(drains) : \E i \in 2..Len(drains'[c]) : o = drains'[c][i]
      BY Zenon
    <3>3. CASE \E i \in 1..Len(queue) : o = queue[i]
      <4>1. PICK i \in 1..Len(queue) : o = queue[i]
        BY <3>3
      <4>2. phase[queue[i]] = "queued" /\ (Len(row) > 1 => queue[i] # row[2])
        BY <2>1
      <4> HIDE DEF waits
      <4> QED BY <3>1, <4>1, <4>2
    <3>4. CASE \E c \in 1..Len(drains) : \E i \in 2..Len(drains'[c]) : o = drains'[c][i]
      <4>1. PICK c \in 1..Len(drains) : \E i \in 2..Len(drains'[c]) : o = drains'[c][i]
        BY <3>4
      <4>2. PICK i \in 2..Len(drains'[c]) : o = drains'[c][i]
        BY <4>1
      <4>3. phase[drains'[c][i]] = "queued" /\ (Len(row) > 1 => drains'[c][i] # row[2])
        BY <2>2
      <4> HIDE DEF waits
      <4> QED BY <3>1, <4>2, <4>3
    <3> QED BY <3>2, <3>3, <3>4
  <2>5. /\ \A i \in 1..Len(queue) : queue[i] \in waits
        /\ \A c \in 1..Len(drains) : \A i \in 2..Len(drains'[c]) : drains'[c][i] \in waits
    OBVIOUS
  <2> HIDE DEF waits
  <2>6. /\ \A o \in waits : phase'[o] = "queued"
        /\ \A o \in Operation : phase[o] \in Started => phase'[o] \in Started
        /\ t # <<>> => phase'[t[1]] \in Started
    BY <1>1, <1>3, <2>3, <2>4, Executes DEF GatewayInv
  <2> QED BY <1>3, <2>5, <2>6
<1>9. PlacesInv'
  <2>1. \A c \in 1..Len(drains) : \A i \in 2..Len(drains'[c]) : \A j \in 1..Len(queue) : queue[j] # drains'[c][i]
    <3>1. \A c \in 1..Len(drains) : \A i \in 2..Len(drains[c]) : \A j \in 1..Len(queue) : queue[j] # drains[c][i]
      BY DEF GatewayInv, LinesInv, PlacesInv
    <3>2. \A c \in 1..Len(drains) : \A i \in 2..Len(drains'[c]) :
            \E j \in 2..Len(drains[c]) : drains'[c][i] = drains[c][j]
      BY <1>6
    <3> TAKE c \in 1..Len(drains)
    <3> TAKE i \in 2..Len(drains'[c])
    <3>3. PICK j \in 2..Len(drains[c]) : drains'[c][i] = drains[c][j]
      BY <3>2
    <3> QED BY <3>1, <3>3
  <2>2. \A b, c \in 1..Len(drains) : \A i \in 2..Len(drains'[b]) : \A j \in 2..Len(drains'[c]) :
          drains'[b][i] = drains'[c][j] => b = c /\ i = j
    <3> TAKE b, c \in 1..Len(drains)
    <3> TAKE i \in 2..Len(drains'[b])
    <3> TAKE j \in 2..Len(drains'[c])
    <3> DEFINE k == IF b = d THEN i + 1 ELSE i
               l == IF c = d THEN j + 1 ELSE j
    <3>1. k \in 2..Len(drains[b]) /\ drains'[b][i] = drains[b][k]
      <4>1. CASE b = d
        <5>1. i + 1 \in 2..Len(drains[b]) /\ drains'[b][i] = drains[b][i + 1]
          BY <1>6, <4>1
        <5> QED BY <4>1, <5>1
      <4>2. CASE b # d
        BY <1>6, <4>2
      <4> QED BY <4>1, <4>2
    <3>2. l \in 2..Len(drains[c]) /\ drains'[c][j] = drains[c][l]
      <4>1. CASE c = d
        <5>1. j + 1 \in 2..Len(drains[c]) /\ drains'[c][j] = drains[c][j + 1]
          BY <1>6, <4>1
        <5> QED BY <4>1, <5>1
      <4>2. CASE c # d
        BY <1>6, <4>2
      <4> QED BY <4>1, <4>2
    <3>3. b = c /\ k = l => i = j
      OBVIOUS
    <3> HIDE DEF k, l
    <3>4. drains[b][k] = drains[c][l] => b = c /\ k = l
      BY <3>1, <3>2 DEF GatewayInv, LinesInv, PlacesInv
    <3> QED BY <3>1, <3>2, <3>3, <3>4
  <2>3. \A i, j \in 1..Len(queue) : queue[i] = queue[j] => i = j
    BY DEF GatewayInv, LinesInv, PlacesInv
  <2>4. queue' = queue /\ Len(drains') = Len(drains)
    BY <1>1, <1>5
  <2>5. /\ \A c \in 1..Len(drains) : \A i \in 2..Len(drains'[c]) : phase'[drains'[c][i]] = "queued"
        /\ \A i \in 1..Len(queue) : phase'[queue[i]] = "queued"
    BY <1>8
  <2> QED BY <2>1, <2>2, <2>3, <2>4, <2>5 DEF PlacesInv
<1>10. ReplayedInv'
  <2>1. \A c \in 1..Len(drains) : drains'[c] # <<>> => phase'[drains'[c][1]] \in Started
    <3>1. \A c \in 1..Len(drains) : drains[c] # <<>> => drains[c][1] \in Operation /\ phase[drains[c][1]] \in Started
      BY <1>7, EmptySeq DEF GatewayInv, LinesInv, ReplayedInv
    <3> QED BY <1>3, <1>5, <1>8, <3>1
  <2>2. \A c \in 1..Len(drains) : \A i \in 1..Len(replayed[c]) :
          /\ replayed[c][i] \in Operation /\ phase[replayed[c][i]] \in Started
          /\ Len(row) > 1 => replayed[c][i] # row[2]
    <3>1. \A c \in 1..Len(drains) : \A i \in 1..Len(replayed[c]) :
            replayed[c][i] \in Operation /\ phase[replayed[c][i]] \in Started
      BY <1>7 DEF GatewayInv, LinesInv, ReplayedInv
    <3>2. Len(row) > 1 => phase[row[2]] = "queued"
      <4> SUFFICES ASSUME Len(row) > 1 PROVE phase[row[2]] = "queued"
        OBVIOUS
      <4>1. 2 \in 2..Len(drains[d])
        BY <1>3
      <4>2. \A c \in 1..Len(drains) : \A i \in 2..Len(drains[c]) : phase[drains[c][i]] = "queued"
        BY DEF GatewayInv, LinesInv, PlacesInv
      <4> QED BY <1>3, <4>1, <4>2
    <3> QED BY <3>1, <3>2 DEF Started
  <2>3. \A i \in 1..Len(r) : \/ i \in 1..Len(replayed[d]) /\ r[i] = replayed[d][i]
                             \/ Len(row) > 1 /\ r[i] = row[2]
    <3> TAKE i \in 1..Len(r)
    <3>1. CASE Len(row) > 1 /\ r = Append(replayed[d], row[2])
      <4>1. i \in 1..Len(replayed[d]) \/ i = Len(replayed[d]) + 1
        BY <1>3, <3>1
      <4> QED BY <1>3, <3>1, <4>1
    <3>2. CASE r = replayed[d]
      BY <3>2
    <3> QED BY <1>4, <3>1, <3>2
  <2>4. \A c \in 1..Len(drains) : \A i \in 1..Len(replayed'[c]) : phase'[replayed'[c][i]] \in Started
    <3> TAKE c \in 1..Len(drains)
    <3>1. CASE c = d
      <4>1. replayed'[c] = r
        BY <1>5, <3>1
      <4>2. \A i \in 1..Len(replayed[d]) : phase'[replayed[d][i]] \in Started
        BY <1>3, <1>8, <2>2
      <4> QED BY <1>8, <2>3, <4>1, <4>2
    <3>2. CASE c # d
      <4>1. replayed'[c] = replayed[c]
        BY <1>5, <3>2
      <4> QED BY <1>8, <2>2, <4>1
    <3> QED BY <3>1, <3>2
  <2>5. \A b, c \in 1..Len(drains) : b # c =>
          \A i \in 1..Len(replayed'[b]) : \A j \in 1..Len(replayed'[c]) : replayed'[b][i] # replayed'[c][j]
    <3> TAKE b, c \in 1..Len(drains)
    <3>1. \A x, y \in 1..Len(drains) : x # y =>
            \A i \in 1..Len(replayed[x]) : \A j \in 1..Len(replayed[y]) : replayed[x][i] # replayed[y][j]
      BY DEF GatewayInv, LinesInv, ReplayedInv
    <3>2. CASE b # d /\ c # d
      <4>1. replayed'[b] = replayed[b] /\ replayed'[c] = replayed[c]
        BY <1>5, <3>2
      <4> QED BY <3>1, <4>1
    <3>3. CASE b = d /\ c # d
      <4>1. replayed'[b] = r /\ replayed'[c] = replayed[c]
        BY <1>5, <3>3
      <4>2. \A j \in 1..Len(replayed[c]) : Len(row) > 1 => replayed[c][j] # row[2]
        BY <2>2
      <4>3. \A i \in 1..Len(replayed[d]) : \A j \in 1..Len(replayed[c]) : replayed[d][i] # replayed[c][j]
        BY <1>3, <3>1, <3>3
      <4> QED BY <2>3, <4>1, <4>2, <4>3
    <3>4. CASE b # d /\ c = d
      <4>1. replayed'[c] = r /\ replayed'[b] = replayed[b]
        BY <1>5, <3>4
      <4>2. \A j \in 1..Len(replayed[b]) : Len(row) > 1 => replayed[b][j] # row[2]
        BY <2>2
      <4>3. \A i \in 1..Len(replayed[d]) : \A j \in 1..Len(replayed[b]) : replayed[d][i] # replayed[b][j]
        BY <1>3, <3>1, <3>4
      <4> QED BY <2>3, <4>1, <4>2, <4>3
    <3> QED BY <3>2, <3>3, <3>4
  <2> QED BY <1>5, <2>1, <2>4, <2>5, SMTT(60) DEF ReplayedInv
<1>11. FifoInv'
  <2>1. \A c \in 1..Len(drains) : InSegment(replayed'[c], drains'[c], enqueued)
    BY <1>4, <1>5 DEF GatewayInv, LinesInv, FifoInv
  <2> QED BY <1>1, <1>5, <2>1 DEF GatewayInv, LinesInv, FifoInv
<1> QED BY <1>9, <1>10, <1>11 DEF LinesInv

-----------------------------------------------------------------------------
(* The answers *)

(* Steps that keep AnswersInv: an operation that succeeded or failed stays  *)
(* as it is, one that was sent never waits to be sent again, and what is    *)
(* new has its reason.                                                      *)
PhasesAdvance ==
  \A o \in Operation : /\ phase[o] \in {"ok", "failed"} => phase'[o] = phase[o]
                       /\ phase[o] \in Started => phase'[o] \in Started
                       /\ phase[o] \in Started \ {"sending"} => phase'[o] \in Started \ {"sending"}

NewAreReal ==
  /\ \A o \in Operation : phase'[o] = "ok" => phase[o] = "ok" \/ <<"ok", o>> \in answered'
  /\ \A o \in Operation : result'[o] = "ok" => result[o] = "ok" \/ phase[o] = "ok" \/ <<"ok", o>> \in answered'
  /\ answered \subseteq answered' /\ early \subseteq early'
  /\ \A a \in answered' : a \in answered \/ Decided(a)'
  /\ \A o \in datagrams' : o \in datagrams \/ (o \in Udp /\ <<"ok", o>> \in answered')
  /\ \A o \in Operation : channel'[o] = "asked" => channel[o] = "asked" \/ phase'[o] \in Started
  /\ \A o \in listeners' : o \in listeners \/ phase'[o] = "ok"

InboxGrows ==
  \A i \in 1..Len(inbox') :
    \/ \E j \in 1..Len(inbox) : inbox'[i] = inbox[j]
    \/ inbox'[i][1] \in {"ok", "fail"} => phase'[inbox'[i][2]] \in Started

SocketsGrow ==
  \A s \in sockets' : \/ s \in sockets
                      \/ s \in Tcp /\ phase'[s] = "ok"
                      \/ s \notin Tcp /\ \E l \in Listen : phase'[l] = "ok"

LEMMA AdvanceKeepsAnswers ==
  ASSUME GatewayTypeOK, AnswersInv, PhasesAdvance, NewAreReal, InboxGrows, SocketsGrow
  PROVE  AnswersInv'
<1>1. \A o \in Operation : phase'[o] = "ok" \/ result'[o] = "ok" => <<"ok", o>> \in answered'
  BY DEF AnswersInv, NewAreReal
<1>2. \A a \in answered' : Decided(a)'
  <2> TAKE a \in answered'
  <2>1. CASE a \in answered
    <3>1. a[2] \in Operation /\ Decided(a)
      BY <2>1 DEF GatewayTypeOK, AnswersInv
    <3>2. early \subseteq early'
      BY DEF NewAreReal
    <3> QED BY <3>1, <3>2 DEF PhasesAdvance, Decided, Started
  <2> QED BY <2>1 DEF NewAreReal
<1>3. \A i \in 1..Len(inbox') :
        inbox'[i][1] \in {"ok", "fail"} => phase'[inbox'[i][2]] \in Started
  <2> TAKE i \in 1..Len(inbox')
  <2>1. ASSUME NEW j \in 1..Len(inbox), inbox'[i] = inbox[j], inbox'[i][1] \in {"ok", "fail"}
        PROVE  phase'[inbox'[i][2]] \in Started
    <3>1. inbox[j][2] \in Operation
      BY DEF GatewayTypeOK
    <3>2. phase[inbox[j][2]] \in Started
      BY <2>1 DEF AnswersInv
    <3> QED BY <2>1, <3>1, <3>2 DEF PhasesAdvance
  <2> QED BY <2>1 DEF InboxGrows
<1>4. \A o \in Operation : channel'[o] = "asked" => phase'[o] \in Started
  BY DEF AnswersInv, NewAreReal, PhasesAdvance
<1>5. \A o \in listeners' : phase'[o] = "ok"
  <2>1. \A o \in listeners : phase'[o] = "ok"
    BY DEF AnswersInv, PhasesAdvance, GatewayTypeOK, Operation, Gateway!Op
  <2> QED BY <2>1 DEF NewAreReal
<1>6. Gateway!SocketsHaveOwner'
  <2> SUFFICES ASSUME NEW s \in sockets'
               PROVE  IF s \in Tcp THEN phase'[s] = "ok" ELSE \E l \in Listen : phase'[l] = "ok"
    BY DEF Gateway!SocketsHaveOwner
  <2>1. CASE s \in sockets
    <3>1. CASE s \in Tcp
      <4>1. phase[s] = "ok" /\ s \in Operation
        BY <2>1, <3>1 DEF AnswersInv, Gateway!SocketsHaveOwner, Operation, Gateway!Op
      <4> QED BY <3>1, <4>1 DEF PhasesAdvance
    <3>2. CASE s \notin Tcp
      <4>1. PICK l \in Listen : phase[l] = "ok"
        BY <2>1, <3>2 DEF AnswersInv, Gateway!SocketsHaveOwner
      <4>2. phase'[l] = "ok"
        BY <4>1 DEF PhasesAdvance, Operation, Gateway!Op
      <4> QED BY <3>2, <4>2
    <3> QED BY <3>1, <3>2
  <2> QED BY <2>1 DEF SocketsGrow
<1>7. \A o \in datagrams' : o \in Udp /\ <<"ok", o>> \in answered'
  BY DEF AnswersInv, NewAreReal
<1> QED BY <1>1, <1>2, <1>3, <1>4, <1>5, <1>6, <1>7 DEF AnswersInv

(* Steps in which no message moves and no socket is stored.                 *)
LEMMA OneAdvances ==
  ASSUME GatewayTypeOK, AnswersInv, answered' = answered, early' = early, datagrams' \subseteq datagrams,
         inbox' = inbox, listeners' \subseteq listeners, sockets' \subseteq sockets, PhasesAdvance,
         \A o \in Operation : phase'[o] = "ok" => phase[o] = "ok" \/ o \in datagrams,
         \A o \in Operation : result'[o] = "ok" => result[o] = "ok" \/ phase[o] = "ok" \/ o \in datagrams,
         \A o \in Operation : channel'[o] = "asked" => channel[o] = "asked" \/ phase'[o] \in Started
  PROVE  AnswersInv'
<1>1. NewAreReal
  BY DEF NewAreReal, AnswersInv
<1>2. InboxGrows /\ SocketsGrow
  BY DEF InboxGrows, SocketsGrow
<1> QED BY <1>1, <1>2, AdvanceKeepsAnswers

LEMMA HandleKeepsAnswers ==
  ASSUME GatewayTypeOK, AnswersInv, Gateway!HandleGatewayMessage
  PROVE  AnswersInv'
<1> DEFINE m == Head(inbox)
           o == m[2]
<1>1. /\ inbox # <<>> /\ inbox' = Tail(inbox) /\ inbound' = inbound
      /\ \/ m[1] = "ok" /\ Gateway!HandleOk(o)
         \/ m[1] = "fail" /\ Gateway!HandleFail(o)
         \/ m[1] = "close" /\ Gateway!HandleClose(o)
         \/ m[1] = "inbound" /\ Gateway!HandleInbound(o)
  BY DEF Gateway!HandleGatewayMessage
<1>2. inbox \in Seq({"ok", "fail", "close", "inbound"} \X Operation)
  BY DEF GatewayTypeOK
<1>3. m = inbox[1] /\ 1 \in 1..Len(inbox) /\ o \in Operation
  BY <1>1, <1>2, EmptySeq
<1>4. m[1] \in {"ok", "fail"} => phase[o] \in Started
  BY <1>3 DEF AnswersInv
<1>5. InboxGrows
  <2>1. \A i \in 1..Len(inbox') : i + 1 \in 1..Len(inbox) /\ inbox'[i] = inbox[i + 1]
    BY <1>1, <1>2
  <2> QED BY <2>1 DEF InboxGrows
<1> HIDE DEF m, o
<1>10. ASSUME NEW kind \in {"ok", "fail"}, Gateway!Answered(kind, o)
       PROVE  /\ answered \subseteq answered' /\ early \subseteq early'
              /\ Gateway!Registered(o) => answered' = answered \cup {<<kind, o>>}
              /\ \A a \in answered' : a \in answered \/ (a = <<kind, o>> /\ (o \in early' \/ Gateway!Registered(o)))
  BY <1>10 DEF Gateway!Answered
<1>11. Gateway!Registered(o) => phase[o] = "pending"
  BY DEF Gateway!Registered
<1>6. CASE m[1] = "ok" /\ Gateway!HandleOk(o)
  <2>0. /\ answered \subseteq answered' /\ early \subseteq early'
        /\ Gateway!Registered(o) => <<"ok", o>> \in answered'
        /\ \A a \in answered' : a \in answered \/ (a = <<"ok", o>> /\ (o \in early' \/ Gateway!Registered(o)))
    BY <1>6, <1>10 DEF Gateway!HandleOk
  <2>1. CASE Gateway!Registered(o) /\ (o \in Udp => ~online)
    <3> DEFINE p == IF o \in Udp THEN "failed" ELSE "ok"
    <3>1. /\ phase' = [phase EXCEPT ![o] = p]
          /\ \A q \in Operation : result'[q] = "ok" => result[q] = "ok" \/ q = o
          /\ channel' = channel /\ datagrams' = datagrams
      BY <1>3, <1>6, <2>1 DEF Gateway!HandleOk, Gateway!Settle, GatewayTypeOK
    <3>2. /\ sockets' = IF o \in Tcp THEN sockets \cup {o} ELSE sockets
          /\ listeners' = IF o \in Listen THEN listeners \cup {o} ELSE listeners
      BY <1>6, <2>1 DEF Gateway!HandleOk
    <3>3. o \in Tcp \/ o \in Listen => p = "ok"
      BY NetwayAssumption
    <3>4. p \in {"ok", "failed"}
      OBVIOUS
    <3> HIDE DEF p
    <3>5. phase'[o] = p /\ \A q \in Operation : q # o => phase'[q] = phase[q]
      BY <1>3, <3>1 DEF GatewayTypeOK
    <3>6. PhasesAdvance
      BY <1>11, <2>1, <3>4, <3>5 DEF PhasesAdvance, Started
    <3>7. NewAreReal
      <4>1. \A a \in answered' : a \in answered \/ Decided(a)'
        BY <2>0, <3>4, <3>5 DEF Decided
      <4>2. \A q \in listeners' : q \in listeners \/ phase'[q] = "ok"
        BY <3>2, <3>3, <3>5
      <4>3. \A q \in Operation : phase'[q] = "ok" => phase[q] = "ok" \/ <<"ok", q>> \in answered'
        BY <2>0, <2>1, <3>5
      <4>4. \A q \in Operation : result'[q] = "ok" => result[q] = "ok" \/ <<"ok", q>> \in answered'
        BY <2>0, <2>1, <3>1
      <4> QED BY <2>0, <3>1, <4>1, <4>2, <4>3, <4>4 DEF NewAreReal
    <3>8. SocketsGrow
      BY <3>2, <3>3, <3>5 DEF SocketsGrow
    <3> QED BY <1>5, <3>6, <3>7, <3>8, AdvanceKeepsAnswers
  <2>2. CASE ~ (Gateway!Registered(o) /\ (o \in Udp => ~online))
    <3>1. UNCHANGED <<phase, result, channel>>
      BY <1>6, <2>2 DEF Gateway!HandleOk, Gateway!ops
    <3>2. sockets' = sockets /\ listeners' = listeners
      BY <1>6, <2>2, NetwayAssumption DEF Gateway!HandleOk
    <3>3. \A a \in answered' : a \in answered \/ Decided(a)'
      BY <1>11, <2>0, <2>2, <3>1 DEF Decided
    <3>4. \A q \in datagrams' : q \in datagrams \/ (q \in Udp /\ <<"ok", q>> \in answered')
      BY <1>6, <2>0 DEF Gateway!HandleOk
    <3>5. PhasesAdvance /\ NewAreReal /\ SocketsGrow
      BY <2>0, <3>1, <3>2, <3>3, <3>4 DEF PhasesAdvance, NewAreReal, SocketsGrow
    <3> QED BY <1>5, <3>5, AdvanceKeepsAnswers
  <2> QED BY <2>1, <2>2
<1>7. CASE m[1] = "fail" /\ Gateway!HandleFail(o)
  <2>0. UNCHANGED <<sockets, listeners, channel, datagrams>>
    BY <1>7 DEF Gateway!HandleFail
  <2>3. /\ answered \subseteq answered' /\ early \subseteq early'
        /\ \A a \in answered' : a \in answered \/ (a = <<"fail", o>> /\ (o \in early' \/ Gateway!Registered(o)))
    BY <1>7, <1>10 DEF Gateway!HandleFail
  <2>1. CASE Gateway!Registered(o)
    <3>1. /\ phase'[o] = "failed" /\ \A q \in Operation : q # o => phase'[q] = phase[q]
          /\ \A q \in Operation : result'[q] = "ok" => result[q] = "ok"
      BY <1>3, <1>7, <2>1 DEF Gateway!HandleFail, Gateway!Settle, GatewayTypeOK
    <3>2. PhasesAdvance
      BY <1>11, <2>1, <3>1 DEF PhasesAdvance, Started
    <3>3. \A a \in answered' : a \in answered \/ Decided(a)'
      BY <2>3, <3>1 DEF Decided
    <3>4. NewAreReal
      BY <2>0, <2>3, <3>1, <3>3 DEF NewAreReal
    <3>5. SocketsGrow
      BY <2>0 DEF SocketsGrow
    <3> QED BY <1>5, <3>2, <3>4, <3>5, AdvanceKeepsAnswers
  <2>2. CASE ~ Gateway!Registered(o)
    <3>1. \A a \in answered' : a \in answered \/ Decided(a)'
      BY <2>2, <2>3 DEF Decided
    <3>2. UNCHANGED <<phase, result>>
      BY <1>7, <2>2 DEF Gateway!HandleFail, Gateway!ops
    <3>3. PhasesAdvance /\ NewAreReal /\ SocketsGrow
      BY <2>0, <2>3, <3>1, <3>2 DEF PhasesAdvance, NewAreReal, SocketsGrow
    <3> QED BY <1>5, <3>3, AdvanceKeepsAnswers
  <2> QED BY <2>1, <2>2
<1>8. CASE m[1] = "close" /\ Gateway!HandleClose(o)
  <2>1. PhasesAdvance /\ NewAreReal /\ SocketsGrow
    BY <1>8 DEF Gateway!HandleClose, Gateway!ops, Gateway!answers, PhasesAdvance, NewAreReal, SocketsGrow
  <2> QED BY <1>5, <2>1, AdvanceKeepsAnswers
<1>9. CASE m[1] = "inbound" /\ Gateway!HandleInbound(o)
  <2>1. UNCHANGED <<phase, result, listeners, channel, datagrams, answered, early>>
    BY <1>9 DEF Gateway!HandleInbound, Gateway!ops, Gateway!answers
  <2>2. \A s \in sockets' : \/ s \in sockets
                            \/ s = <<"inbound", inbound>> /\ o \in listeners
    BY <1>9 DEF Gateway!HandleInbound
  <2>3. <<"inbound", inbound>> \notin Tcp
    BY NetwayAssumption DEF GatewayTypeOK
  <2>4. o \in listeners => \E l \in Listen : phase'[l] = "ok"
    BY <2>1 DEF AnswersInv, GatewayTypeOK
  <2>5. SocketsGrow
    BY <2>2, <2>3, <2>4 DEF SocketsGrow
  <2>6. PhasesAdvance /\ NewAreReal
    BY <2>1 DEF PhasesAdvance, NewAreReal
  <2> QED BY <1>5, <2>5, <2>6, AdvanceKeepsAnswers
<1> QED BY <1>1, <1>6, <1>7, <1>8, <1>9

LEMMA QuietKeepsAnswers ==
  ASSUME GatewayTypeOK, AnswersInv, QuietStep
  PROVE  AnswersInv'
<1>1. ASSUME NEW o \in Operation, Gateway!CallDirect(o) PROVE AnswersInv'
  <2>1. /\ phase[o] = "idle" /\ phase'[o] = "sending" /\ \A q \in Operation : q # o => phase'[q] = phase[q]
        /\ \A q \in Operation : result'[q] = "ok" => result[q] = "ok"
        /\ \A q \in Operation : q # o => channel'[q] = channel[q]
    BY <1>1 DEF Gateway!CallDirect, GatewayTypeOK
  <2>2. PhasesAdvance
    BY <2>1 DEF PhasesAdvance, Started
  <2>3. \A q \in Operation : channel'[q] = "asked" => channel[q] = "asked" \/ phase'[q] \in Started
    BY <2>1 DEF Started
  <2>4. UNCHANGED <<answered, early, datagrams, inbox, listeners, sockets>>
    BY <1>1 DEF Gateway!CallDirect, Gateway!hist, Gateway!answers
  <2> QED BY <2>1, <2>2, <2>3, <2>4, OneAdvances
<1>2. ASSUME NEW o \in Operation, Gateway!SendResolves(o) \/ Gateway!SendFails(o) \/ Gateway!Timeout(o)
      PROVE  AnswersInv'
  <2>1. /\ phase[o] \in {"sending", "pending"} /\ phase'[o] \in {"pending", "failed", "timedout"}
        /\ \A q \in Operation : q # o => phase'[q] = phase[q]
    BY <1>2 DEF Gateway!SendResolves, Gateway!SendFails, Gateway!Timeout, Gateway!Settle, GatewayTypeOK
  <2>2. \A q \in Operation : result'[q] = "ok" => result[q] = "ok"
    BY <1>2 DEF Gateway!SendResolves, Gateway!SendFails, Gateway!Timeout, Gateway!Settle, GatewayTypeOK
  <2>3. PhasesAdvance
    BY <2>1 DEF PhasesAdvance, Started
  <2>4. UNCHANGED <<answered, early, datagrams, inbox, listeners, sockets, channel>>
    BY <1>2 DEF Gateway!SendResolves, Gateway!SendFails, Gateway!Timeout, Gateway!hist, Gateway!answers, Gateway!gateway
  <2> QED BY <2>1, <2>2, <2>3, <2>4, OneAdvances
<1>9. ASSUME NEW o \in Operation, Gateway!DatagramSent(o) \/ Gateway!DatagramFails(o) PROVE AnswersInv'
  <2>1. /\ o \in datagrams /\ datagrams' \subseteq datagrams
        /\ UNCHANGED <<answered, early, inbox, listeners, sockets>>
    BY <1>9 DEF Gateway!DatagramSent, Gateway!DatagramFails, Gateway!hist, Gateway!answers, Gateway!gateway
  <2>2. /\ \A q \in Operation : q # o => phase'[q] = phase[q]
        /\ phase'[o] = phase[o] \/ (phase[o] = "pending" /\ phase'[o] \in {"ok", "failed"})
        /\ \A q \in Operation : result'[q] = "ok" => result[q] = "ok" \/ q = o
    BY <1>9 DEF Gateway!DatagramSent, Gateway!DatagramFails, Gateway!Settle, Gateway!ops, GatewayTypeOK
  <2>3. PhasesAdvance
    BY <2>2 DEF PhasesAdvance, Started
  <2>4. \A q \in Operation : channel'[q] = "asked" => channel[q] = "asked"
    BY <1>9 DEF Gateway!DatagramSent, Gateway!DatagramFails, Gateway!gateway, GatewayTypeOK
  <2>5. /\ \A q \in Operation : phase'[q] = "ok" => phase[q] = "ok" \/ q \in datagrams
        /\ \A q \in Operation : result'[q] = "ok" => result[q] = "ok" \/ phase[q] = "ok" \/ q \in datagrams
    BY <2>1, <2>2
  <2> QED BY <2>1, <2>3, <2>4, <2>5, OneAdvances
<1>3. ASSUME NEW o \in Operation, NEW kind, inbox' = Append(inbox, <<kind, o>>),
             UNCHANGED <<phase, result, answered, early, datagrams, listeners, sockets>>,
             \A q \in Operation : channel'[q] = "asked" => channel[q] = "asked",
             kind \in {"ok", "fail"} => phase[o] \in Started
      PROVE  AnswersInv'
  <2>1. PhasesAdvance /\ NewAreReal /\ SocketsGrow
    BY <1>3 DEF PhasesAdvance, NewAreReal, SocketsGrow
  <2>2. InboxGrows
    <3>1. \A i \in 1..Len(inbox') : \/ i \in 1..Len(inbox) /\ inbox'[i] = inbox[i]
                                    \/ inbox'[i] = <<kind, o>>
      BY <1>3 DEF GatewayTypeOK
    <3> QED BY <1>3, <3>1 DEF InboxGrows
  <2> QED BY <2>1, <2>2, AdvanceKeepsAnswers
<1>4. ASSUME NEW o \in Operation, Gateway!GatewayAnswers(o, TRUE) \/ Gateway!GatewayAnswers(o, FALSE)
      PROVE  AnswersInv'
  <2>1. phase[o] \in Started
    BY <1>4 DEF Gateway!GatewayAnswers, AnswersInv
  <2>2. UNCHANGED <<phase, result, answered, early, datagrams, listeners, sockets>>
    BY <1>4 DEF Gateway!GatewayAnswers, Gateway!ops, Gateway!hist, Gateway!answers
  <2>3. \A q \in Operation : channel'[q] = "asked" => channel[q] = "asked"
    BY <1>4 DEF Gateway!GatewayAnswers, GatewayTypeOK
  <2>4. inbox' = Append(inbox, <<"ok", o>>) \/ inbox' = Append(inbox, <<"fail", o>>)
    BY <1>4 DEF Gateway!GatewayAnswers
  <2> QED BY <1>3, <2>1, <2>2, <2>3, <2>4
<1>5. ASSUME NEW o \in Operation, Gateway!GatewayCloses(o) \/ Gateway!GatewayInbound(o) PROVE AnswersInv'
  <2>1. UNCHANGED <<phase, result, answered, early, datagrams, listeners, sockets>>
    BY <1>5 DEF Gateway!GatewayCloses, Gateway!GatewayInbound, Gateway!ops, Gateway!hist, Gateway!answers
  <2>2. \A q \in Operation : channel'[q] = "asked" => channel[q] = "asked"
    BY <1>5 DEF Gateway!GatewayCloses, Gateway!GatewayInbound, GatewayTypeOK
  <2>3. inbox' = Append(inbox, <<"close", o>>) \/ inbox' = Append(inbox, <<"inbound", o>>)
    BY <1>5 DEF Gateway!GatewayCloses, Gateway!GatewayInbound
  <2> QED BY <1>3, <2>1, <2>2, <2>3
<1>6. ASSUME NEW o \in sockets, Gateway!PumpEnds(o) \/ Gateway!PumpFails(o) PROVE AnswersInv'
  <2>1. UNCHANGED <<phase, result, answered, early, datagrams, inbox, listeners>> /\ sockets' \subseteq sockets
    BY <1>6 DEF Gateway!PumpEnds, Gateway!PumpFails, Gateway!ops, Gateway!hist, Gateway!answers, Gateway!gateway
  <2>2. \A q \in Operation : channel'[q] = "asked" => channel[q] = "asked"
    BY <1>6 DEF Gateway!PumpEnds, Gateway!PumpFails, Gateway!gateway, GatewayTypeOK
  <2>3. PhasesAdvance
    BY <2>1 DEF PhasesAdvance
  <2> QED BY <2>1, <2>2, <2>3, OneAdvances
<1>7. CASE Gateway!SetOnline
  <2>1. UNCHANGED <<phase, result, channel, answered, early, datagrams, inbox, listeners, sockets>>
    BY <1>7 DEF Gateway!SetOnline, Gateway!ops, Gateway!hist, Gateway!answers, Gateway!gateway
  <2>2. PhasesAdvance
    BY <2>1 DEF PhasesAdvance
  <2> QED BY <2>1, <2>2, OneAdvances
<1>8. CASE Gateway!FinishClose
  <2>1. UNCHANGED <<channel, answered, early, datagrams, inbox>> /\ listeners' = {} /\ sockets' = {}
    BY <1>8 DEF Gateway!FinishClose, Gateway!hist, Gateway!answers, Gateway!gateway
  <2>2. /\ \A o \in Operation : phase'[o] = phase[o] \/ (phase[o] = "pending" /\ phase'[o] = "failed")
        /\ \A o \in Operation : result'[o] = "ok" => result[o] = "ok"
    BY <1>8 DEF Gateway!FinishClose, Gateway!Registered, Operation
  <2>3. PhasesAdvance
    BY <2>2 DEF PhasesAdvance, Started
  <2> QED BY <2>1, <2>2, <2>3, OneAdvances
<1> QED BY <1>1, <1>2, <1>4, <1>5, <1>6, <1>7, <1>8, <1>9, HandleKeepsAnswers DEF QuietStep

(* A drain() sends the next operation, which waited until now. *)
LEMMA ExecuteAdvances ==
  ASSUME GatewayTypeOK, NEW rest \in Seq(Operation), Gateway!Execute(rest),
         rest # <<>> => phase[rest[1]] = "queued"
  PROVE  /\ PhasesAdvance
         /\ \A o \in Operation : phase'[o] = "ok" => phase[o] = "ok"
         /\ \A o \in Operation : channel'[o] = "asked" => channel[o] = "asked" \/ phase'[o] \in Started
<1>1. CASE rest = <<>>
  BY <1>1 DEF Gateway!Execute, PhasesAdvance
<1>2. CASE rest # <<>>
  <2>1. Head(rest) = rest[1] /\ rest[1] \in Operation
    BY <1>2, EmptySeq
  <2>2. /\ phase'[rest[1]] = "sending" /\ \A o \in Operation : o # rest[1] => phase'[o] = phase[o]
        /\ \A o \in Operation : o # rest[1] => channel'[o] = channel[o]
    BY <1>2, <2>1 DEF Gateway!Execute, GatewayTypeOK
  <2> QED BY <1>2, <2>1, <2>2 DEF PhasesAdvance, Started
<1> QED BY <1>1, <1>2

LEMMA LinesKeepAnswers ==
  ASSUME GatewayInv, \/ \E o \in Operation : Gateway!Enqueue(o)
                     \/ Gateway!StartDrain \/ Gateway!StartClose
  PROVE  AnswersInv'
<1>1. ASSUME NEW o \in Operation, Gateway!Enqueue(o) PROVE AnswersInv'
  <2>1. /\ phase[o] = "idle" /\ phase'[o] \in {"queued", "refused"}
        /\ \A q \in Operation : q # o => phase'[q] = phase[q]
        /\ \A q \in Operation : result'[q] = "ok" => result[q] = "ok"
    BY <1>1 DEF Gateway!Enqueue, GatewayInv, GatewayTypeOK
  <2>2. PhasesAdvance
    BY <2>1 DEF PhasesAdvance, Started
  <2>3. UNCHANGED <<answered, early, datagrams, inbox, listeners, sockets, channel>>
    BY <1>1 DEF Gateway!Enqueue, Gateway!gateway, Gateway!answers
  <2> QED BY <2>1, <2>2, <2>3, OneAdvances DEF GatewayInv
<1>2. CASE Gateway!StartDrain
  <2>1. /\ queue # <<>> /\ Gateway!Execute(queue)
        /\ UNCHANGED <<result, answered, early, datagrams, inbox, listeners, sockets>>
    BY <1>2 DEF Gateway!StartDrain, Gateway!answers
  <2>2. queue \in Seq(Operation) /\ 1 \in 1..Len(queue)
    BY <2>1, EmptySeq DEF GatewayInv, GatewayTypeOK
  <2>3. phase[queue[1]] = "queued"
    BY <2>2 DEF GatewayInv, LinesInv, PlacesInv
  <2> QED BY <2>1, <2>2, <2>3, ExecuteAdvances, OneAdvances DEF GatewayInv
<1>3. CASE Gateway!StartClose
  <2>1. /\ phase' = [o \in Operation |-> IF o \in Gateway!ToSet(queue) THEN "failed" ELSE phase[o]]
        /\ result' = [o \in Operation |-> IF o \in Gateway!ToSet(queue) THEN "error" ELSE result[o]]
    BY <1>3 DEF Gateway!StartClose, Operation
  <2>2. \A o \in Gateway!ToSet(queue) : phase[o] = "queued"
    BY DEF Gateway!ToSet, GatewayInv, GatewayTypeOK, LinesInv, PlacesInv
  <2>3. PhasesAdvance
    BY <2>1, <2>2 DEF PhasesAdvance, Started
  <2>4. UNCHANGED <<answered, early, datagrams, inbox, listeners, sockets, channel>>
    BY <1>3 DEF Gateway!StartClose, Gateway!hist, Gateway!answers, Gateway!gateway
  <2> QED BY <2>1, <2>3, <2>4, OneAdvances DEF GatewayInv
<1> QED BY <1>1, <1>2, <1>3

LEMMA NextOperationKeepsAnswers ==
  ASSUME GatewayInv, NEW d \in DOMAIN drains, drains[d] # <<>>, NEW outcome \in {"ok", "error"},
         outcome = "ok" => phase[Head(drains[d])] = "ok", Gateway!NextOperation(d, outcome)
  PROVE  AnswersInv'
<1>1. /\ result' = [result EXCEPT ![Head(drains[d])] = outcome]
      /\ Gateway!Execute(Tail(drains[d]))
      /\ UNCHANGED <<answered, early, datagrams, inbox, listeners, sockets>>
  BY DEF Gateway!NextOperation, Gateway!answers
<1>2. Tail(drains[d]) # <<>> => phase[Tail(drains[d])[1]] = "queued"
  <2> SUFFICES ASSUME Tail(drains[d]) # <<>> PROVE phase[Tail(drains[d])[1]] = "queued"
    OBVIOUS
  <2>1. d \in 1..Len(drains) /\ 2 \in 2..Len(drains[d]) /\ Tail(drains[d])[1] = drains[d][2]
    BY RestOfDrain DEF GatewayInv
  <2> QED BY <2>1 DEF GatewayInv, LinesInv, PlacesInv
<1>3. \A o \in Operation : result'[o] = "ok" => result[o] = "ok" \/ phase[o] = "ok"
  BY <1>1 DEF GatewayInv, GatewayTypeOK
<1>4. Tail(drains[d]) \in Seq(Operation)
  BY RestOfDrain DEF GatewayInv
<1> QED BY <1>1, <1>2, <1>3, <1>4, ExecuteAdvances, OneAdvances DEF GatewayInv

LEMMA GatewayStep ==
  ASSUME GatewayInv, [Gateway!Next]_gateway
  PROVE  GatewayInv'
<1>1. CASE QuietStep
  BY <1>1, QuietTypes, QuietStepIsQuiet, QuietKeepsLines, QuietKeepsAnswers DEF GatewayInv
<1>2. ASSUME NEW o \in Operation, Gateway!Enqueue(o) PROVE GatewayInv'
  BY <1>2, OtherTypes, EnqueueKeepsLines, LinesKeepAnswers DEF GatewayInv
<1>3. CASE Gateway!StartDrain
  BY <1>3, StartDrainTypes, StartDrainKeepsLines, LinesKeepAnswers DEF GatewayInv
<1>4. CASE Gateway!StartClose
  BY <1>4, OtherTypes, StartCloseKeepsLines, LinesKeepAnswers DEF GatewayInv
<1>5. ASSUME NEW d \in DOMAIN drains, Gateway!ReplaySettled(d) \/ Gateway!DrainTimeout(d) PROVE GatewayInv'
  <2>1. PICK outcome \in {"ok", "error"} :
          /\ outcome = "ok" => phase[Head(drains[d])] = "ok"
          /\ Gateway!NextOperation(d, outcome)
    BY <1>5 DEF Gateway!ReplaySettled, Gateway!DrainTimeout
  <2>2. drains[d] # <<>>
    BY <1>5 DEF Gateway!ReplaySettled, Gateway!DrainTimeout
  <2>3. GatewayTypeOK'
    BY <2>1, <2>2, NextOperationTypes DEF GatewayInv
  <2>4. LinesInv'
    BY <2>1, <2>2, NextOperationKeepsLines
  <2>5. AnswersInv'
    BY <2>1, <2>2, NextOperationKeepsAnswers
  <2> QED BY <2>3, <2>4, <2>5 DEF GatewayInv
<1>6. CASE UNCHANGED gateway
  <2>1. GatewayTypeOK'
    BY <1>6 DEF gateway, GatewayInv, GatewayTypeOK
  <2>2. AnswersInv'
    <3>1. \A a \in answered : Decided(a) => Decided(a)'
      BY <1>6 DEF gateway, Decided
    <3>2. \A a \in answered' : Decided(a)'
      BY <1>6, <3>1 DEF gateway, GatewayInv, AnswersInv
    <3>3. Gateway!SocketsHaveOwner'
      BY <1>6 DEF gateway, GatewayInv, AnswersInv, Gateway!SocketsHaveOwner
    <3>4. UNCHANGED <<phase, result, channel, answered, inbox, listeners, datagrams>>
      BY <1>6 DEF gateway
    <3>5. /\ \A o \in Operation : phase'[o] = "ok" \/ result'[o] = "ok" => <<"ok", o>> \in answered'
          /\ \A i \in 1..Len(inbox') : inbox'[i][1] \in {"ok", "fail"} => phase'[inbox'[i][2]] \in Started
      BY <3>4 DEF GatewayInv, AnswersInv
    <3>6. /\ \A o \in datagrams' : o \in Udp /\ <<"ok", o>> \in answered'
          /\ \A o \in Operation : channel'[o] = "asked" => phase'[o] \in Started
          /\ \A o \in listeners' : phase'[o] = "ok"
      BY <3>4 DEF GatewayInv, AnswersInv
    <3> QED BY <3>2, <3>3, <3>5, <3>6 DEF AnswersInv
  <2>3. LinesInv'
    <3>1. Quiet /\ UNCHANGED Kept
      BY <1>6 DEF gateway, Kept, Quiet
    <3> QED BY <3>1, QuietKeepsLines DEF GatewayInv
  <2> QED BY <2>1, <2>2, <2>3 DEF GatewayInv
<1> QED BY <1>1, <1>2, <1>3, <1>4, <1>5, <1>6, GatewaySteps

LEMMA GatewayIsSafe == GatewayInv => GatewayAnswerDecides
<1> SUFFICES ASSUME GatewayInv PROVE GatewayAnswerDecides
  OBVIOUS
<1>1. Gateway!SuccessIsReal /\ Gateway!AnsweredInTime /\ Gateway!SocketsHaveOwner
  <2>1. Gateway!AnsweredInTime
    BY DEF GatewayInv, AnswersInv, Decided, Gateway!AnsweredInTime
  <2> QED BY <2>1 DEF GatewayInv, AnswersInv, Gateway!SuccessIsReal, Operation
<1>2. /\ enqueued \in Seq(Operation) /\ replayed \in Seq(Seq(Operation)) /\ Len(replayed) = Len(drains)
      /\ DOMAIN replayed = 1..Len(drains) /\ Len(enqueued) \in Nat
  BY DEF GatewayInv, GatewayTypeOK
<1>3. ASSUME NEW d \in DOMAIN replayed
      PROVE  \E k \in 0..Len(enqueued) : replayed[d] = SubSeq(enqueued, k + 1, k + Len(replayed[d]))
  <2> DEFINE r == replayed[d]
  <2>1. InSegment(r, drains[d], enqueued) /\ r \in Seq(Operation) /\ Len(r) \in Nat
    BY <1>2, <1>3 DEF GatewayInv, LinesInv, FifoInv
  <2> HIDE DEF r
  <2>2. PICK k \in 0..Len(enqueued) : k + Len(r) =< Len(enqueued) /\ \A i \in 1..Len(r) : r[i] = enqueued[k + i]
    BY <2>1 DEF InSegment
  <2> DEFINE s == SubSeq(enqueued, k + 1, k + Len(r))
  <2>3. s \in Seq(Operation) /\ Len(s) = Len(r) /\ \A i \in 1..Len(r) : s[i] = enqueued[k + i]
    <3>1. \A i \in (k + 1)..(k + Len(r)) : enqueued[i] \in Operation
      BY <1>2, <2>1, <2>2
    <3>2. /\ s \in Seq(Operation)
          /\ Len(s) = IF k + 1 =< k + Len(r) THEN (k + Len(r)) - (k + 1) + 1 ELSE 0
          /\ \A i \in 1..((k + Len(r)) - (k + 1) + 1) : s[i] = enqueued[(k + 1) + i - 1]
      BY <1>2, <2>1, <2>2, <3>1, SubSeqProperties
    <3> QED BY <1>2, <2>1, <2>2, <3>2
  <2> HIDE DEF s
  <2>4. r = s
    BY <2>1, <2>2, <2>3, SeqEqual
  <2> QED BY <2>2, <2>4 DEF r, s
<1>4. ASSUME NEW c \in DOMAIN replayed, NEW d \in DOMAIN replayed, c # d
      PROVE  Gateway!ToSet(replayed[c]) \cap Gateway!ToSet(replayed[d]) = {}
  <2>1. c \in 1..Len(drains) /\ d \in 1..Len(drains)
    BY <1>2
  <2>2. \A i \in 1..Len(replayed[c]) : \A j \in 1..Len(replayed[d]) : replayed[c][i] # replayed[d][j]
    BY <1>4, <2>1 DEF GatewayInv, LinesInv, ReplayedInv
  <2>3. DOMAIN replayed[c] = 1..Len(replayed[c]) /\ DOMAIN replayed[d] = 1..Len(replayed[d])
    BY <1>2, <1>4
  <2> QED BY <2>2, <2>3 DEF Gateway!ToSet
<1>5. Gateway!FifoReplay
  BY <1>3, <1>4 DEF Gateway!FifoReplay
<1> QED BY <1>1, <1>5 DEF GatewayAnswerDecides

-----------------------------------------------------------------------------
(* The loopback network *)

Binding == [kind : Loop!Kind, port : Loop!Port, closed : BOOLEAN, queue : Seq(Nat), waiters : Nat]
Buffered == [queue : Seq(Nat), closed : BOOLEAN, waiter : BOOLEAN]
SocketPair ==
  [listener : Nat, place : {"dropped", "queued", "accepted"}, closed : [Loop!Side -> BOOLEAN],
   inbound : [Loop!Side -> Buffered], written : [Loop!Side -> Nat],
   got : [Loop!Side -> Seq(Nat)], eof : [Loop!Side -> BOOLEAN]]

TablesInv ==
  /\ ports \in [Loop!Kind -> [Loop!Port -> Nat]] /\ binds \in Seq(Binding)
  /\ \A k \in Loop!Kind : \A p \in Loop!Port : ports[k][p] =< Len(binds)
  /\ Loop!TablesExact

(* Who stands in an accept queue waits there, once, for that listener; a    *)
(* closed listener has no queue.                                            *)
QueuesInv ==
  /\ conns \in Seq(SocketPair)
  /\ \A i \in 1..Len(binds) : \A n \in 1..Len(binds[i].queue) :
       /\ binds[i].queue[n] \in 1..Len(conns)
       /\ conns[binds[i].queue[n]].listener = i /\ conns[binds[i].queue[n]].place = "queued"
  /\ \A i \in 1..Len(binds) : \A m, n \in 1..Len(binds[i].queue) :
       binds[i].queue[m] = binds[i].queue[n] => m = n
  /\ \A i \in 1..Len(binds) : binds[i].closed => Len(binds[i].queue) = 0
  /\ \A c \in 1..Len(conns) : conns[c].place = "queued" =>
       \E i \in 1..Len(binds) : \E n \in 1..Len(binds[i].queue) : binds[i].queue[n] = c

(* What a reader has got, g, and what waits in its buffer, q, are the first *)
(* of the w chunks that were written, all of them while the buffer is open; *)
(* a reader waits at an empty open buffer.                                  *)
Flow(g, q, shut, waits, w) ==
  /\ \A n \in 1..Len(g) : g[n] = n
  /\ \A n \in 1..Len(q) : q[n] = Len(g) + n
  /\ Len(g) + Len(q) =< w
  /\ shut \/ Len(g) + Len(q) = w
  /\ waits => Len(q) = 0 /\ ~ shut

(* Once an end is closed, both buffers are.                                 *)
SideOK(k, s) ==
  /\ Flow(k.got[s], k.inbound[s].queue, k.inbound[s].closed, k.inbound[s].waiter, k.written[Loop!Other(s)])
  /\ \A t \in Loop!Side : k.closed[t] => k.inbound[s].closed

SocketsInv == \A c \in 1..Len(conns) : \A s \in Loop!Side : SideOK(conns[c], s)

LoopInv == TablesInv /\ QueuesInv /\ SocketsInv

LEMMA LoopInitially == Loop!Init => LoopInv
<1> SUFFICES ASSUME Loop!Init PROVE LoopInv
  OBVIOUS
<1>1. Len(binds) = 0 /\ Len(conns) = 0 /\ binds \in Seq(Binding) /\ conns \in Seq(SocketPair)
  BY DEF Loop!Init
<1>2. TablesInv
  BY <1>1 DEF Loop!Init, TablesInv, Loop!TablesExact
<1> QED BY <1>1, <1>2 DEF LoopInv, QueuesInv, SocketsInv

LEMMA Sides == /\ \A s \in Loop!Side : Loop!Other(s) \in Loop!Side /\ Loop!Other(Loop!Other(s)) = s /\ Loop!Other(s) # s
               /\ \A s, t \in Loop!Side : t = s \/ t = Loop!Other(s)
BY DEF Loop!Side, Loop!Other

(* What pushing, pulling and closing do to the chunks under way. *)
LEMMA FlowFacts ==
  ASSUME NEW g \in Seq(Nat), NEW q \in Seq(Nat), NEW shut \in BOOLEAN, NEW waits \in BOOLEAN, NEW w \in Nat,
         Flow(g, q, shut, waits, w)
  PROVE  /\ Len(g) \in Nat /\ Len(q) \in Nat
         /\ \A n \in 1..Len(g) : g[n] = n
         /\ \A n \in 1..Len(q) : q[n] = Len(g) + n
         /\ Len(g) + Len(q) =< w
         /\ shut \/ Len(g) + Len(q) = w
         /\ waits => Len(q) = 0 /\ ~ shut
BY DEF Flow

LEMMA Appended ==
  ASSUME NEW g \in Seq(Nat), NEW x \in Nat
  PROVE  /\ Append(g, x) \in Seq(Nat) /\ Len(Append(g, x)) = Len(g) + 1 /\ Append(g, x)[Len(g) + 1] = x
         /\ \A n \in 1..Len(g) : Append(g, x)[n] = g[n]
OBVIOUS

LEMMA FlowHandsOver ==
  ASSUME NEW g \in Seq(Nat), NEW q \in Seq(Nat), NEW shut \in BOOLEAN, NEW waits \in BOOLEAN, NEW w \in Nat,
         Flow(g, q, shut, waits, w), waits
  PROVE  Flow(Append(g, w + 1), q, shut, FALSE, w + 1)
<1> DEFINE h == Append(g, w + 1)
<1>1. Len(h) = Len(g) + 1 /\ h[Len(g) + 1] = w + 1 /\ \A n \in 1..Len(g) : h[n] = g[n]
  BY Appended
<1> HIDE DEF h
<1>2. Len(q) = 0 /\ ~ shut /\ Len(g) \in Nat /\ \A n \in 1..Len(g) : g[n] = n
  BY DEF Flow
<1>3. shut \/ Len(g) + Len(q) = w
  BY DEF Flow
<1>4. Len(g) = w
  BY <1>2, <1>3
<1>5. \A n \in 1..Len(h) : h[n] = n
  BY <1>1, <1>2, <1>4
<1>6. Flow(h, q, shut, FALSE, w + 1)
  BY <1>1, <1>2, <1>4, <1>5 DEF Flow
<1> QED BY <1>6 DEF h

LEMMA FlowQueues ==
  ASSUME NEW g \in Seq(Nat), NEW q \in Seq(Nat), NEW shut \in BOOLEAN, NEW waits \in BOOLEAN, NEW w \in Nat,
         Flow(g, q, shut, waits, w), ~ shut, NEW last \in BOOLEAN
  PROVE  Flow(g, Append(q, w + 1), last, FALSE, w + 1)
<1> DEFINE h == Append(q, w + 1)
<1>1. Len(h) = Len(q) + 1 /\ h[Len(q) + 1] = w + 1 /\ \A n \in 1..Len(q) : h[n] = q[n]
  BY Appended
<1> HIDE DEF h
<1>2. /\ Len(g) \in Nat /\ Len(q) \in Nat /\ Len(g) + Len(q) = w
      /\ \A n \in 1..Len(g) : g[n] = n
      /\ \A n \in 1..Len(q) : q[n] = Len(g) + n
  BY FlowFacts
<1>3. \A n \in 1..Len(h) : h[n] = Len(g) + n
  <2> TAKE n \in 1..Len(h)
  <2>1. CASE n \in 1..Len(q)
    BY <1>1, <1>2, <2>1
  <2>2. CASE n = Len(q) + 1
    <3>1. h[n] = w + 1 /\ n = Len(q) + 1
      BY <1>1, <2>2
    <3> QED BY <1>2, <3>1
  <2> QED BY <1>1, <1>2, <2>1, <2>2
<1>4. Flow(g, h, last, FALSE, w + 1)
  BY <1>1, <1>2, <1>3 DEF Flow
<1> QED BY <1>4 DEF h

LEMMA FlowTakes ==
  ASSUME NEW g \in Seq(Nat), NEW q \in Seq(Nat), NEW shut \in BOOLEAN, NEW waits \in BOOLEAN, NEW w \in Nat,
         Flow(g, q, shut, waits, w), q # <<>>
  PROVE  Flow(Append(g, Head(q)), Tail(q), shut, waits, w)
<1> DEFINE t == Tail(q)
           h == Append(g, Head(q))
<1>1. /\ Len(g) \in Nat /\ Len(q) \in Nat
      /\ \A n \in 1..Len(g) : g[n] = n
      /\ \A n \in 1..Len(q) : q[n] = Len(g) + n
      /\ Len(g) + Len(q) =< w
      /\ shut \/ Len(g) + Len(q) = w
      /\ waits => Len(q) = 0 /\ ~ shut
  BY FlowFacts
<1>2. /\ Head(q) = q[1] /\ q[1] \in Nat /\ t \in Seq(Nat) /\ Len(q) # 0 /\ Len(t) = Len(q) - 1
      /\ \A n \in 1..Len(t) : t[n] = q[n + 1]
  BY EmptySeq, HeadTailProperties
<1>3. q[1] = Len(g) + 1
  BY <1>1, <1>2
<1>4. Len(h) = Len(g) + 1 /\ h[Len(g) + 1] = Len(g) + 1 /\ \A n \in 1..Len(g) : h[n] = g[n]
  BY <1>2, <1>3, Appended
<1> HIDE DEF t, h
<1>5. \A n \in 1..Len(h) : h[n] = n
  <2> TAKE n \in 1..Len(h)
  <2>1. CASE n \in 1..Len(g)
    BY <1>1, <1>4, <2>1
  <2>2. CASE n = Len(g) + 1
    BY <1>4, <2>2
  <2> QED BY <1>1, <1>4, <2>1, <2>2
<1>6. \A n \in 1..Len(t) : t[n] = Len(h) + n
  BY <1>1, <1>2, <1>4
<1>7. Len(h) + Len(t) = Len(g) + Len(q) /\ ~ waits
  BY <1>1, <1>2, <1>4
<1>8. Flow(h, t, shut, waits, w)
  BY <1>1, <1>5, <1>6, <1>7 DEF Flow
<1> QED BY <1>8 DEF t, h

LEMMA FlowEnds ==
  ASSUME NEW g \in Seq(Nat), NEW q \in Seq(Nat), NEW shut \in BOOLEAN, NEW waits \in BOOLEAN, NEW w \in Nat,
         Flow(g, q, shut, waits, w)
  PROVE  Flow(g, <<>>, TRUE, FALSE, w)
<1>1. Len(<<>>) = 0 /\ Len(g) \in Nat /\ Len(g) =< w /\ \A n \in 1..Len(g) : g[n] = n
  BY FlowFacts
<1> QED BY <1>1 DEF Flow

LEMMA FlowWaits ==
  ASSUME NEW g \in Seq(Nat), NEW q \in Seq(Nat), NEW shut \in BOOLEAN, NEW waits \in BOOLEAN, NEW w \in Nat,
         Flow(g, q, shut, waits, w), q = <<>>, ~ shut
  PROVE  Flow(g, q, shut, TRUE, w)
<1>1. Len(q) = 0
  OBVIOUS
<1> QED BY <1>1 DEF Flow

(* The fields of buffers and of socket pairs. *)
LEMMA BufferWith ==
  ASSUME NEW b \in Buffered, NEW z
  PROVE  /\ [b EXCEPT !.waiter = z] = [queue |-> b.queue, closed |-> b.closed, waiter |-> z]
         /\ [b EXCEPT !.queue = z] = [queue |-> z, closed |-> b.closed, waiter |-> b.waiter]
         /\ [b EXCEPT !.closed = z] = [queue |-> b.queue, closed |-> z, waiter |-> b.waiter]
<1>1. b = [queue |-> b.queue, closed |-> b.closed, waiter |-> b.waiter]
  BY DEF Buffered
<1> DEFINE q == b.queue
           x == b.closed
           y == b.waiter
<1> HIDE DEF q, x, y
<1>2. b = [queue |-> q, closed |-> x, waiter |-> y]
  BY <1>1 DEF q, x, y
<1>3. /\ [b EXCEPT !.waiter = z] = [queue |-> q, closed |-> x, waiter |-> z]
      /\ [b EXCEPT !.queue = z] = [queue |-> z, closed |-> x, waiter |-> y]
      /\ [b EXCEPT !.closed = z] = [queue |-> q, closed |-> z, waiter |-> y]
  BY <1>2
<1> QED BY <1>3 DEF q, x, y

LEMMA PairFields ==
  ASSUME NEW k \in SocketPair
  PROVE  /\ k.listener \in Nat /\ k.place \in {"dropped", "queued", "accepted"}
         /\ k.closed \in [Loop!Side -> BOOLEAN] /\ k.eof \in [Loop!Side -> BOOLEAN]
         /\ k.written \in [Loop!Side -> Nat] /\ k.got \in [Loop!Side -> Seq(Nat)]
         /\ k.inbound \in [Loop!Side -> Buffered]
         /\ \A t \in Loop!Side : /\ k.written[t] \in Nat /\ k.got[t] \in Seq(Nat) /\ k.inbound[t] \in Buffered
                                 /\ k.inbound[t].queue \in Seq(Nat) /\ k.inbound[t].closed \in BOOLEAN
                                 /\ k.inbound[t].waiter \in BOOLEAN
<1>1. /\ k.listener \in Nat /\ k.place \in {"dropped", "queued", "accepted"}
      /\ k.closed \in [Loop!Side -> BOOLEAN] /\ k.eof \in [Loop!Side -> BOOLEAN]
      /\ k.written \in [Loop!Side -> Nat] /\ k.got \in [Loop!Side -> Seq(Nat)]
      /\ k.inbound \in [Loop!Side -> Buffered]
  BY DEF SocketPair
<1>2. \A t \in Loop!Side : k.written[t] \in Nat /\ k.got[t] \in Seq(Nat) /\ k.inbound[t] \in Buffered
  BY <1>1
<1>3. \A b \in Buffered : b.queue \in Seq(Nat) /\ b.closed \in BOOLEAN /\ b.waiter \in BOOLEAN
  BY DEF Buffered
<1> QED BY <1>1, <1>2, <1>3

LEMMA PairMade ==
  ASSUME NEW l \in Nat, NEW p \in {"dropped", "queued", "accepted"},
         NEW x \in [Loop!Side -> BOOLEAN], NEW f \in [Loop!Side -> Buffered],
         NEW w \in [Loop!Side -> Nat], NEW g \in [Loop!Side -> Seq(Nat)], NEW e \in [Loop!Side -> BOOLEAN]
  PROVE  [listener |-> l, place |-> p, closed |-> x, inbound |-> f, written |-> w, got |-> g, eof |-> e] \in SocketPair
BY DEF SocketPair

LEMMA SameSide ==
  ASSUME NEW k, NEW k1, NEW s, SideOK(k, s), k1.got[s] = k.got[s], k1.inbound[s] = k.inbound[s],
         k1.written[Loop!Other(s)] = k.written[Loop!Other(s)], k1.closed = k.closed
  PROVE  SideOK(k1, s)
BY DEF SideOK

(* Steps on one socket pair. *)
Pushed(k, s, last) ==
  LET o == Loop!Other(s)
      n == k.written[s] + 1
      grown == [k.inbound[o] EXCEPT !.queue = Append(@, n)]
  IN  IF k.inbound[o].waiter
      THEN [k EXCEPT !.written[s] = n, !.inbound[o].waiter = FALSE, !.got[o] = Append(@, n)]
      ELSE [k EXCEPT !.written[s] = n, !.inbound[o] = [grown EXCEPT !.closed = last]]

Pulled(k, s) ==
  IF k.inbound[s].queue # <<>>
  THEN [k EXCEPT !.inbound[s].queue = Tail(@), !.got[s] = Append(@, Head(k.inbound[s].queue))]
  ELSE IF k.inbound[s].closed THEN [k EXCEPT !.eof[s] = TRUE]
  ELSE [k EXCEPT !.inbound[s].waiter = TRUE]

Shut(k, s) ==
  [k EXCEPT !.closed[s] = TRUE,
            !.inbound = [t \in Loop!Side |-> Loop!ClosedBuffer],
            !.eof = [t \in Loop!Side |-> k.eof[t] \/ k.inbound[t].waiter]]

PairKept(k, k1) ==
  /\ k1 \in SocketPair /\ k1.listener = k.listener /\ k1.place = k.place
  /\ \A t \in Loop!Side : SideOK(k1, t)

LEMMA PushKeepsSide ==
  ASSUME NEW k \in SocketPair, NEW s \in Loop!Side, NEW last \in BOOLEAN,
         \A t \in Loop!Side : SideOK(k, t), ~ k.closed[s], ~ k.inbound[Loop!Other(s)].closed
  PROVE  PairKept(k, Pushed(k, s, last))
<1> DEFINE k1 == Pushed(k, s, last)
           o == Loop!Other(s)
           n == k.written[s] + 1
           b == k.inbound[o]
           b1 == IF b.waiter THEN [queue |-> b.queue, closed |-> b.closed, waiter |-> FALSE]
                 ELSE [queue |-> Append(b.queue, n), closed |-> last, waiter |-> b.waiter]
           x == k.closed
           f == [k.inbound EXCEPT ![o] = b1]
           w == [k.written EXCEPT ![s] = n]
           g == IF b.waiter THEN [k.got EXCEPT ![o] = Append(@, n)] ELSE k.got
           e == k.eof
<1> HIDE DEF k1
<1>1. o \in Loop!Side /\ Loop!Other(o) = s /\ o # s /\ \A t \in Loop!Side : t = s \/ t = o
  BY Sides
<1>2. n \in Nat /\ Append(k.got[o], n) \in Seq(Nat) /\ Append(b.queue, n) \in Seq(Nat)
  BY <1>1, PairFields
<1>3. b1 \in Buffered
  BY <1>1, <1>2, PairFields DEF Buffered
<1>4. k1 = [listener |-> k.listener, place |-> k.place, closed |-> x, inbound |-> f, written |-> w,
            got |-> g, eof |-> e]
  <2>1. CASE b.waiter
    <3>1. [b EXCEPT !.waiter = FALSE] = b1
      <4>1. b \in Buffered
        BY <1>1, PairFields
      <4> HIDE DEF b
      <4> QED BY <2>1, <4>1, BufferWith
    <3>2. k1 = [k EXCEPT !.written = w, !.inbound = [k.inbound EXCEPT ![o] = [b EXCEPT !.waiter = FALSE]],
                         !.got = [k.got EXCEPT ![o] = Append(@, n)]]
      BY <2>1 DEF k1, Pushed
    <3> HIDE DEF b1, w
    <3> QED BY <2>1, <3>1, <3>2 DEF SocketPair
  <2>2. CASE ~ b.waiter
    <3>1. [[b EXCEPT !.queue = Append(@, n)] EXCEPT !.closed = last] = b1
      <4> DEFINE q1 == Append(b.queue, n)
                 r == [queue |-> q1, closed |-> b.closed, waiter |-> b.waiter]
      <4>1. b \in Buffered /\ q1 \in Seq(Nat)
        BY <1>1, <1>2, PairFields
      <4>2. b1 = [queue |-> q1, closed |-> last, waiter |-> b.waiter]
        BY <2>2
      <4> HIDE DEF b, q1, b1
      <4>3. [b EXCEPT !.queue = q1] = r
        BY <4>1, BufferWith
      <4>4. r \in Buffered
        BY <4>1 DEF Buffered
      <4>5. [r EXCEPT !.closed = last] = [queue |-> q1, closed |-> last, waiter |-> b.waiter]
        OBVIOUS
      <4>6. [b EXCEPT !.queue = Append(@, n)] = r
        BY <4>3 DEF q1
      <4> HIDE DEF r
      <4> QED BY <4>2, <4>5, <4>6
    <3>2. k1 = [k EXCEPT !.written = w,
                         !.inbound = [k.inbound EXCEPT ![o] = [[b EXCEPT !.queue = Append(@, n)] EXCEPT !.closed = last]]]
      BY <2>2 DEF k1, Pushed
    <3> HIDE DEF b1, w
    <3> QED BY <2>2, <3>1, <3>2 DEF SocketPair
  <2> QED BY <2>1, <2>2
<1> HIDE DEF b1
<1>5. /\ f \in [Loop!Side -> Buffered] /\ w \in [Loop!Side -> Nat] /\ g \in [Loop!Side -> Seq(Nat)]
      /\ x \in [Loop!Side -> BOOLEAN] /\ e \in [Loop!Side -> BOOLEAN]
  BY <1>1, <1>2, <1>3, PairFields
<1>6. /\ f[o] = b1 /\ f[s] = k.inbound[s] /\ w[s] = n /\ w[o] = k.written[o] /\ g[s] = k.got[s]
      /\ g[o] = IF b.waiter THEN Append(k.got[o], n) ELSE k.got[o]
  BY <1>1, PairFields
<1> HIDE DEF f, g, w, x, e
<1>7. /\ k1 \in SocketPair /\ k1.listener = k.listener /\ k1.place = k.place
      /\ k1.closed = x /\ k1.inbound = f /\ k1.written = w /\ k1.got = g
  <2>1. k.listener \in Nat /\ k.place \in {"dropped", "queued", "accepted"}
    BY PairFields
  <2>2. k1 \in SocketPair
    BY <1>4, <1>5, <2>1, PairMade
  <2> QED BY <1>4, <2>2
<1>8. SideOK(k1, s)
  BY <1>1, <1>6, <1>7, SameSide DEF x
<1>9. SideOK(k1, o)
  <2>1. /\ Flow(k.got[o], b.queue, b.closed, b.waiter, k.written[s]) /\ ~ b.closed
        /\ \A t \in Loop!Side : k.closed[t] => b.closed
    BY <1>1 DEF SideOK
  <2>2. k.got[o] \in Seq(Nat) /\ b.queue \in Seq(Nat) /\ k.written[s] \in Nat
    BY <1>1, PairFields
  <2>3. /\ b.waiter => Flow(Append(k.got[o], n), b.queue, b.closed, FALSE, n)
        /\ Flow(k.got[o], Append(b.queue, n), last, FALSE, n)
    <3> DEFINE g0 == k.got[o]
               q0 == b.queue
               w0 == k.written[s]
               waits == b.waiter
               shut == b.closed
    <3>1. /\ Flow(g0, q0, shut, waits, w0) /\ g0 \in Seq(Nat) /\ q0 \in Seq(Nat) /\ w0 \in Nat
          /\ n = w0 + 1 /\ ~ shut /\ shut \in BOOLEAN /\ waits \in BOOLEAN
      BY <1>1, <2>1, <2>2, PairFields
    <3> HIDE DEF g0, q0, w0, waits, shut, n
    <3>2. waits => Flow(Append(g0, w0 + 1), q0, shut, FALSE, w0 + 1)
      BY <3>1, FlowHandsOver
    <3>3. Flow(g0, Append(q0, w0 + 1), last, FALSE, w0 + 1)
      BY <3>1, FlowQueues
    <3> QED BY <3>1, <3>2, <3>3 DEF g0, q0, w0, waits, shut
  <2>4. Flow(g[o], b1.queue, b1.closed, b1.waiter, n)
    <3>1. CASE b.waiter
      <4>1. b1.queue = b.queue /\ b1.closed = b.closed /\ b1.waiter = FALSE /\ g[o] = Append(k.got[o], n)
        BY <1>6, <3>1 DEF b1
      <4> QED BY <2>3, <3>1, <4>1
    <3>2. CASE ~ b.waiter
      <4>1. b1.queue = Append(b.queue, n) /\ b1.closed = last /\ b1.waiter = FALSE /\ g[o] = k.got[o]
        <5>1. b.waiter = FALSE
          BY <1>1, <3>2, PairFields
        <5> QED BY <1>6, <3>2, <5>1 DEF b1
      <4> QED BY <2>1, <2>3, <4>1
    <3> QED BY <3>1, <3>2
  <2>5. \A t \in Loop!Side : ~ k1.closed[t]
    BY <1>7, <2>1 DEF x
  <2> HIDE DEF o, n, b
  <2> QED BY <1>1, <1>6, <1>7, <2>4, <2>5 DEF SideOK
<1>10. PairKept(k, k1)
  BY <1>1, <1>7, <1>8, <1>9 DEF PairKept
<1> QED BY <1>10 DEF k1

PairWith(k, f, g, e) ==
  [listener |-> k.listener, place |-> k.place, closed |-> k.closed, inbound |-> f,
   written |-> k.written, got |-> g, eof |-> e]

LEMMA PairAfterRead ==
  ASSUME NEW k \in SocketPair, NEW s \in Loop!Side, \A t \in Loop!Side : SideOK(k, t),
         NEW f \in [Loop!Side -> Buffered], NEW g \in [Loop!Side -> Seq(Nat)], NEW e \in [Loop!Side -> BOOLEAN],
         \A t \in Loop!Side : t # s => f[t] = k.inbound[t] /\ g[t] = k.got[t],
         Flow(g[s], f[s].queue, f[s].closed, f[s].waiter, k.written[Loop!Other(s)]),
         f[s].closed = k.inbound[s].closed
  PROVE  PairKept(k, PairWith(k, f, g, e))
<1> DEFINE k1 == PairWith(k, f, g, e)
<1>1. /\ k.closed \in [Loop!Side -> BOOLEAN] /\ k.written \in [Loop!Side -> Nat]
      /\ k.listener \in Nat /\ k.place \in {"dropped", "queued", "accepted"}
  BY PairFields
<1>2. k1 \in SocketPair
  BY <1>1, PairMade DEF PairWith
<1>3. /\ k1.listener = k.listener /\ k1.place = k.place
      /\ k1.closed = k.closed /\ k1.inbound = f /\ k1.written = k.written /\ k1.got = g
  BY DEF PairWith
<1> HIDE DEF k1
<1>4. SideOK(k1, s)
  BY <1>3 DEF SideOK
<1>5. ASSUME NEW t \in Loop!Side, t # s PROVE SideOK(k1, t)
  <2>1. SideOK(k, t) /\ k1.got[t] = k.got[t] /\ k1.inbound[t] = k.inbound[t]
    BY <1>3, <1>5
  <2> QED BY <1>3, <2>1, SameSide
<1>6. PairKept(k, k1)
  BY <1>2, <1>3, <1>4, <1>5 DEF PairKept
<1> QED BY <1>6 DEF k1

LEMMA PullKeepsSide ==
  ASSUME NEW k \in SocketPair, NEW s \in Loop!Side, \A t \in Loop!Side : SideOK(k, t)
  PROVE  PairKept(k, Pulled(k, s))
<1> DEFINE k1 == Pulled(k, s)
           b == k.inbound[s]
<1> HIDE DEF k1
<1>1. /\ Flow(k.got[s], b.queue, b.closed, b.waiter, k.written[Loop!Other(s)])
      /\ \A t \in Loop!Side : k.closed[t] => b.closed
  BY DEF SideOK
<1>2. k.got[s] \in Seq(Nat) /\ b.queue \in Seq(Nat) /\ k.written[Loop!Other(s)] \in Nat /\ b \in Buffered
  BY Sides, PairFields
<1>4. CASE b.queue # <<>>
  <2> DEFINE b1 == [queue |-> Tail(b.queue), closed |-> b.closed, waiter |-> b.waiter]
             f == [k.inbound EXCEPT ![s] = b1]
             g == [k.got EXCEPT ![s] = Append(@, Head(b.queue))]
  <2>1. Tail(b.queue) \in Seq(Nat) /\ Head(b.queue) \in Nat
    BY <1>2, <1>4, HeadTailProperties
  <2>2. b1 \in Buffered /\ [b EXCEPT !.queue = Tail(@)] = b1
    <3>1. b1 \in Buffered
      BY <2>1, PairFields DEF Buffered
    <3> HIDE DEF b
    <3> QED BY <1>2, <3>1, BufferWith
  <2>3. Append(k.got[s], Head(b.queue)) \in Seq(Nat)
    BY <1>2, <2>1
  <2>4. k1 = [k EXCEPT !.inbound = [k.inbound EXCEPT ![s] = [b EXCEPT !.queue = Tail(@)]], !.got = g]
    BY <1>4 DEF k1, Pulled
  <2>5. Flow(Append(k.got[s], Head(b.queue)), b1.queue, b1.closed, b1.waiter, k.written[Loop!Other(s)])
    <3> DEFINE g0 == k.got[s]
               q0 == b.queue
               w0 == k.written[Loop!Other(s)]
               waits == b.waiter
               shut == b.closed
    <3>1. /\ Flow(g0, q0, shut, waits, w0) /\ g0 \in Seq(Nat) /\ q0 \in Seq(Nat) /\ w0 \in Nat /\ q0 # <<>>
          /\ b1.queue = Tail(q0) /\ b1.closed = shut /\ b1.waiter = waits
          /\ shut \in BOOLEAN /\ waits \in BOOLEAN
      BY <1>1, <1>2, <1>4, PairFields
    <3> HIDE DEF g0, q0, w0, waits, shut
    <3>2. Flow(Append(g0, Head(q0)), Tail(q0), shut, waits, w0)
      BY <3>1, FlowTakes
    <3>3. Flow(Append(g0, Head(q0)), b1.queue, b1.closed, b1.waiter, w0)
      BY <3>1, <3>2
    <3> QED BY <3>3 DEF g0, q0, w0
  <2>6. b1.closed = b.closed
    OBVIOUS
  <2> HIDE DEF b1
  <2>7. f \in [Loop!Side -> Buffered] /\ g \in [Loop!Side -> Seq(Nat)] /\ k.eof \in [Loop!Side -> BOOLEAN]
    BY <2>2, <2>3, PairFields
  <2>8. /\ f[s] = b1 /\ g[s] = Append(k.got[s], Head(b.queue))
        /\ \A t \in Loop!Side : t # s => f[t] = k.inbound[t] /\ g[t] = k.got[t]
    BY PairFields
  <2>9. k1 = [k EXCEPT !.inbound = f, !.got = g]
    BY <2>2, <2>4
  <2> HIDE DEF f, g
  <2>10. k1 = PairWith(k, f, g, k.eof)
    BY <2>9 DEF SocketPair, PairWith
  <2>11. /\ Flow(g[s], f[s].queue, f[s].closed, f[s].waiter, k.written[Loop!Other(s)])
         /\ f[s].closed = b.closed
    BY <2>5, <2>6, <2>8
  <2> QED BY <2>7, <2>8, <2>10, <2>11, PairAfterRead DEF k1
<1>5. CASE b.queue = <<>> /\ b.closed
  <2> DEFINE e == [k.eof EXCEPT ![s] = TRUE]
  <2>1. k1 = [k EXCEPT !.eof = e]
    BY <1>5 DEF k1, Pulled
  <2>2. e \in [Loop!Side -> BOOLEAN] /\ k.inbound \in [Loop!Side -> Buffered] /\ k.got \in [Loop!Side -> Seq(Nat)]
    BY PairFields
  <2> HIDE DEF e
  <2>3. k1 = PairWith(k, k.inbound, k.got, e)
    BY <2>1 DEF SocketPair, PairWith
  <2> QED BY <1>1, <2>2, <2>3, PairAfterRead DEF k1
<1>6. CASE b.queue = <<>> /\ ~ b.closed
  <2> DEFINE b1 == [queue |-> b.queue, closed |-> b.closed, waiter |-> TRUE]
             f == [k.inbound EXCEPT ![s] = b1]
  <2>1. b1 \in Buffered /\ [b EXCEPT !.waiter = TRUE] = b1
    <3>1. b1 \in Buffered
      BY PairFields DEF Buffered
    <3> HIDE DEF b
    <3> QED BY <1>2, <3>1, BufferWith
  <2>2. k1 = [k EXCEPT !.inbound = [k.inbound EXCEPT ![s] = [b EXCEPT !.waiter = TRUE]]]
    BY <1>6 DEF k1, Pulled
  <2>3. Flow(k.got[s], b1.queue, b1.closed, b1.waiter, k.written[Loop!Other(s)]) /\ b1.closed = b.closed
    <3> DEFINE g0 == k.got[s]
               q0 == b.queue
               w0 == k.written[Loop!Other(s)]
               waits == b.waiter
               shut == b.closed
    <3>1. /\ Flow(g0, q0, shut, waits, w0) /\ g0 \in Seq(Nat) /\ q0 \in Seq(Nat) /\ w0 \in Nat
          /\ q0 = <<>> /\ ~ shut /\ b1.queue = q0 /\ b1.closed = shut /\ b1.waiter = TRUE
          /\ shut \in BOOLEAN /\ waits \in BOOLEAN
      BY <1>1, <1>2, <1>6, PairFields
    <3> HIDE DEF g0, q0, w0, waits, shut, b1
    <3>2. Flow(g0, q0, shut, TRUE, w0)
      BY <3>1, FlowWaits
    <3>3. Flow(g0, b1.queue, b1.closed, b1.waiter, w0) /\ b1.closed = shut
      BY <3>1, <3>2
    <3> QED BY <3>3 DEF g0, w0, shut
  <2> HIDE DEF b1
  <2>4. /\ f \in [Loop!Side -> Buffered] /\ k.got \in [Loop!Side -> Seq(Nat)] /\ k.eof \in [Loop!Side -> BOOLEAN]
        /\ f[s] = b1 /\ \A t \in Loop!Side : t # s => f[t] = k.inbound[t]
    BY <2>1, PairFields
  <2>5. k1 = [k EXCEPT !.inbound = f]
    BY <2>1, <2>2
  <2> HIDE DEF f
  <2>6. k1 = PairWith(k, f, k.got, k.eof)
    BY <2>5 DEF SocketPair, PairWith
  <2>7. /\ Flow(k.got[s], f[s].queue, f[s].closed, f[s].waiter, k.written[Loop!Other(s)])
        /\ f[s].closed = b.closed
    BY <2>3, <2>4
  <2> QED BY <2>4, <2>6, <2>7, PairAfterRead DEF k1
<1>7. PairKept(k, k1)
  <2>1. b.queue # <<>> \/ (b.queue = <<>> /\ b.closed) \/ (b.queue = <<>> /\ ~ b.closed)
    OBVIOUS
  <2> QED BY <1>4, <1>5, <1>6, <2>1 DEF k1
<1> QED BY <1>7 DEF k1

LEMMA CloseKeepsSide ==
  ASSUME NEW k \in SocketPair, NEW s \in Loop!Side, \A t \in Loop!Side : SideOK(k, t)
  PROVE  PairKept(k, Shut(k, s))
<1> DEFINE k1 == Shut(k, s)
<1> HIDE DEF k1
<1> DEFINE x == [k.closed EXCEPT ![s] = TRUE]
           f == [t \in Loop!Side |-> Loop!ClosedBuffer]
           e == [t \in Loop!Side |-> k.eof[t] \/ k.inbound[t].waiter]
<1>1. /\ Loop!ClosedBuffer \in Buffered /\ Loop!ClosedBuffer.queue = <<>>
      /\ Loop!ClosedBuffer.closed = TRUE /\ Loop!ClosedBuffer.waiter = FALSE
  BY DEF Loop!ClosedBuffer, Buffered
<1>2. /\ x \in [Loop!Side -> BOOLEAN] /\ f \in [Loop!Side -> Buffered] /\ e \in [Loop!Side -> BOOLEAN]
      /\ k.written \in [Loop!Side -> Nat] /\ k.got \in [Loop!Side -> Seq(Nat)]
  BY <1>1, PairFields
<1>3. k1 = [k EXCEPT !.closed = x, !.inbound = f, !.eof = e] /\ \A t \in Loop!Side : f[t] = Loop!ClosedBuffer
  BY DEF k1, Shut
<1> HIDE DEF x, f, e
<1>4. k1 = [listener |-> k.listener, place |-> k.place, closed |-> x, inbound |-> f,
            written |-> k.written, got |-> k.got, eof |-> e]
  BY <1>3 DEF SocketPair
<1>5. /\ k1 \in SocketPair /\ k1.listener = k.listener /\ k1.place = k.place
      /\ k1.inbound = f /\ k1.written = k.written /\ k1.got = k.got
  <2>1. k.listener \in Nat /\ k.place \in {"dropped", "queued", "accepted"}
    BY PairFields
  <2>2. k1 \in SocketPair
    BY <1>2, <1>4, <2>1, PairMade
  <2> QED BY <1>4, <2>2
<1>6. ASSUME NEW t \in Loop!Side PROVE SideOK(k1, t)
  <2>1. k.got[t] \in Seq(Nat) /\ k.inbound[t].queue \in Seq(Nat) /\ k.written[Loop!Other(t)] \in Nat
    BY Sides, PairFields
  <2>2. Flow(k.got[t], k.inbound[t].queue, k.inbound[t].closed, k.inbound[t].waiter, k.written[Loop!Other(t)])
    BY DEF SideOK
  <2>3. Flow(k.got[t], <<>>, TRUE, FALSE, k.written[Loop!Other(t)])
    <3> DEFINE g0 == k.got[t]
               q0 == k.inbound[t].queue
               w0 == k.written[Loop!Other(t)]
               waits == k.inbound[t].waiter
               shut == k.inbound[t].closed
    <3>1. /\ Flow(g0, q0, shut, waits, w0) /\ g0 \in Seq(Nat) /\ q0 \in Seq(Nat) /\ w0 \in Nat
          /\ shut \in BOOLEAN /\ waits \in BOOLEAN
      BY <2>1, <2>2, PairFields
    <3> HIDE DEF g0, q0, w0, waits, shut
    <3>2. Flow(g0, <<>>, TRUE, FALSE, w0)
      BY <3>1, FlowEnds
    <3> QED BY <3>2 DEF g0, w0
  <2> QED BY <1>1, <1>3, <1>5, <2>3 DEF SideOK
<1>7. PairKept(k, k1)
  BY <1>5, <1>6 DEF PairKept
<1> QED BY <1>7 DEF k1

(* A step on one socket pair leaves the tables and queues as they are. *)
LEMMA SocketStepKeeps ==
  ASSUME LoopInv, NEW c \in DOMAIN conns, NEW k1, PairKept(conns[c], k1),
         conns' = [conns EXCEPT ![c] = k1], UNCHANGED <<ports, binds>>
  PROVE  LoopInv'
<1>1. /\ conns \in Seq(SocketPair) /\ c \in 1..Len(conns) /\ k1 \in SocketPair
      /\ k1.listener = conns[c].listener /\ k1.place = conns[c].place /\ \A t \in Loop!Side : SideOK(k1, t)
  BY DEF LoopInv, QueuesInv, PairKept
<1>2. conns' \in Seq(SocketPair) /\ Len(conns') = Len(conns)
  BY <1>1, ExceptSeq
<1>3. \A d \in 1..Len(conns) :
        conns'[d].listener = conns[d].listener /\ conns'[d].place = conns[d].place
        /\ (d # c => conns'[d] = conns[d]) /\ (d = c => conns'[d] = k1)
  BY <1>1
<1>4. TablesInv'
  BY DEF LoopInv, TablesInv, Loop!TablesExact
<1>5. QueuesInv'
  <2>1. \A i \in 1..Len(binds) : \A n \in 1..Len(binds[i].queue) :
           /\ binds[i].queue[n] \in 1..Len(conns)
           /\ conns'[binds[i].queue[n]].listener = i /\ conns'[binds[i].queue[n]].place = "queued"
    <3> TAKE i \in 1..Len(binds)
    <3> TAKE n \in 1..Len(binds[i].queue)
    <3>1. /\ binds[i].queue[n] \in 1..Len(conns)
          /\ conns[binds[i].queue[n]].listener = i /\ conns[binds[i].queue[n]].place = "queued"
      BY DEF LoopInv, QueuesInv
    <3> QED BY <1>3, <3>1
  <2>2. \A d \in 1..Len(conns) : conns'[d].place = "queued" =>
          \E i \in 1..Len(binds) : \E n \in 1..Len(binds[i].queue) : binds[i].queue[n] = d
    BY <1>3 DEF LoopInv, QueuesInv
  <2>3. binds' = binds
    OBVIOUS
  <2>4. /\ \A i \in 1..Len(binds) : \A m, n \in 1..Len(binds[i].queue) :
             binds[i].queue[m] = binds[i].queue[n] => m = n
        /\ \A i \in 1..Len(binds) : binds[i].closed => Len(binds[i].queue) = 0
    <3>1. QueuesInv
      BY DEF LoopInv
    <3> QED BY <3>1, Zenon DEF QueuesInv
  <2> QED BY <1>2, <2>1, <2>2, <2>3, <2>4, SMTT(20) DEF QueuesInv
<1>6. SocketsInv'
  <2>1. \A d \in 1..Len(conns) : \A s \in Loop!Side : SideOK(conns'[d], s)
    <3> TAKE d \in 1..Len(conns)
    <3> TAKE s \in Loop!Side
    <3>1. CASE d = c
      <4>1. conns'[d] = k1
        BY <1>3, <3>1
      <4> QED BY <1>1, <4>1
    <3>2. CASE d # c
      <4>1. conns'[d] = conns[d]
        BY <1>3, <3>2
      <4> QED BY <4>1 DEF LoopInv, SocketsInv
    <3> QED BY <3>1, <3>2
  <2> QED BY <1>2, <2>1 DEF SocketsInv
<1> QED BY <1>4, <1>5, <1>6 DEF LoopInv

LEMMA SocketsStep ==
  ASSUME LoopInv, NEW c \in DOMAIN conns, NEW s \in Loop!Side,
         Loop!Write(c, s) \/ Loop!Read(c, s) \/ Loop!CloseSocket(c, s)
  PROVE  LoopInv'
<1> DEFINE k == conns[c]
<1>1. /\ conns \in Seq(SocketPair) /\ c \in 1..Len(conns) /\ k \in SocketPair
      /\ \A t \in Loop!Side : SideOK(k, t)
  BY DEF LoopInv, QueuesInv, SocketsInv
<1>2. CASE Loop!Write(c, s)
  <2> DEFINE grown == [k.inbound[Loop!Other(s)] EXCEPT !.queue = Append(@, k.written[s] + 1)]
             last == Loop!Full(grown)
  <2>1. /\ ~ k.closed[s] /\ ~ k.inbound[Loop!Other(s)].closed
        /\ conns' = [conns EXCEPT ![c] = Pushed(k, s, last)] /\ UNCHANGED <<ports, binds>>
    BY <1>2 DEF Loop!Write, Pushed
  <2>2. last \in BOOLEAN
    BY DEF Loop!Full
  <2> HIDE DEF last, grown
  <2>3. PairKept(k, Pushed(k, s, last))
    BY <1>1, <2>1, <2>2, PushKeepsSide
  <2> QED BY <2>1, <2>3, SocketStepKeeps
<1>3. CASE Loop!Read(c, s)
  <2>1. conns' = [conns EXCEPT ![c] = Pulled(k, s)] /\ UNCHANGED <<ports, binds>>
    BY <1>3 DEF Loop!Read, Pulled
  <2> QED BY <1>1, <2>1, PullKeepsSide, SocketStepKeeps
<1>4. CASE Loop!CloseSocket(c, s)
  <2>1. conns' = [conns EXCEPT ![c] = Shut(k, s)] /\ UNCHANGED <<ports, binds>>
    BY <1>4 DEF Loop!CloseSocket, Shut
  <2> QED BY <1>1, <2>1, CloseKeepsSide, SocketStepKeeps
<1> QED BY <1>2, <1>3, <1>4

(* listen() and bindDatagram() *)
LEMMA RegisterKeeps ==
  ASSUME LoopInv, NEW kind \in Loop!Kind, NEW port \in Loop!Port, ports[kind][port] = 0,
         Loop!Register(kind, port)
  PROVE  LoopInv'
<1> DEFINE new == Loop!NewBind(kind, port)
           n == Len(binds) + 1
<1>1. /\ binds \in Seq(Binding) /\ binds' = Append(binds, new) /\ conns' = conns
      /\ ports' = [ports EXCEPT ![kind][port] = n]
  BY DEF LoopInv, TablesInv, Loop!Register
<1>2. new \in Binding /\ new.kind = kind /\ new.port = port /\ new.closed = FALSE /\ Len(new.queue) = 0
  BY DEF Binding, Loop!NewBind
<1> HIDE DEF new
<1>3. /\ binds' \in Seq(Binding) /\ Len(binds') = n /\ binds'[n] = new /\ Len(binds) \in Nat
      /\ \A i \in 1..Len(binds) : binds'[i] = binds[i]
      /\ \A i \in 1..n : i \in 1..Len(binds) \/ i = n
  BY <1>1, <1>2
<1>4. TablesInv'
  <2>1. /\ ports' \in [Loop!Kind -> [Loop!Port -> Nat]]
        /\ \A k \in Loop!Kind : \A p \in Loop!Port :
             ports'[k][p] = IF k = kind /\ p = port THEN n ELSE ports[k][p]
    BY <1>1, <1>3 DEF LoopInv, TablesInv
  <2>2. \A k \in Loop!Kind : \A p \in Loop!Port : ports[k][p] =< Len(binds) /\ ports[k][p] \in Nat
    BY DEF LoopInv, TablesInv
  <2>3. \A k \in Loop!Kind : \A p \in Loop!Port : \A i \in 1..Len(binds) :
          ports[k][p] = i <=> binds[i].kind = k /\ binds[i].port = p /\ ~binds[i].closed
    BY <1>3 DEF LoopInv, TablesInv, Loop!TablesExact
  <2>4. \A k \in Loop!Kind : \A p \in Loop!Port : \A i \in 1..n :
          ports'[k][p] = i <=> binds'[i].kind = k /\ binds'[i].port = p /\ ~binds'[i].closed
    <3> TAKE k \in Loop!Kind
    <3> TAKE p \in Loop!Port
    <3> TAKE i \in 1..n
    <3>1. CASE i = n
      <4>1. binds'[i].kind = kind /\ binds'[i].port = port /\ ~ binds'[i].closed
        BY <1>2, <1>3, <3>1
      <4>2. ports[k][p] # n
        BY <1>3, <2>2
      <4> QED BY <2>1, <3>1, <4>1, <4>2
    <3>2. CASE i \in 1..Len(binds)
      <4>1. binds'[i] = binds[i] /\ i # n
        BY <1>3, <3>2
      <4>2. CASE k = kind /\ p = port
        <5>1. ports'[k][p] # i /\ ports[k][p] # i
          BY <2>1, <3>2, <4>1, <4>2
        <5> QED BY <2>3, <3>2, <4>1, <5>1
      <4>3. CASE ~ (k = kind /\ p = port)
        <5>1. ports'[k][p] = ports[k][p]
          BY <2>1, <4>3
        <5> QED BY <2>3, <3>2, <4>1, <5>1
      <4> QED BY <4>2, <4>3
    <3> QED BY <1>3, <3>1, <3>2
  <2>5. DOMAIN binds' = 1..n
    BY <1>3
  <2>6. Loop!TablesExact'
    BY <2>4, <2>5 DEF Loop!TablesExact
  <2>7. \A k \in Loop!Kind : \A p \in Loop!Port : ports'[k][p] =< Len(binds')
    BY <1>3, <2>1, <2>2
  <2> QED BY <1>3, <2>1, <2>6, <2>7 DEF TablesInv
<1>5. QueuesInv'
  <2>1. \A i \in 1..n : \/ i \in 1..Len(binds) /\ binds'[i] = binds[i]
                        \/ Len(binds'[i].queue) = 0
    BY <1>2, <1>3
  <2>2. \A i \in 1..n : \A m \in 1..Len(binds'[i].queue) : i \in 1..Len(binds) /\ binds'[i] = binds[i]
    BY <2>1
  <2>3. ASSUME NEW c \in 1..Len(conns), conns[c].place = "queued"
        PROVE  \E i \in 1..n : \E m \in 1..Len(binds'[i].queue) : binds'[i].queue[m] = c
    <3>1. PICK i \in 1..Len(binds) : \E m \in 1..Len(binds[i].queue) : binds[i].queue[m] = c
      BY <2>3 DEF LoopInv, QueuesInv
    <3>2. binds'[i] = binds[i] /\ i \in 1..n
      BY <1>3, <3>1
    <3> QED BY <3>1, <3>2
  <2>4. ASSUME NEW i \in 1..n, NEW m \in 1..Len(binds'[i].queue)
        PROVE  /\ binds'[i].queue[m] \in 1..Len(conns)
               /\ conns[binds'[i].queue[m]].listener = i /\ conns[binds'[i].queue[m]].place = "queued"
    <3>1. i \in 1..Len(binds) /\ binds'[i] = binds[i]
      BY <2>2
    <3> QED BY <3>1 DEF LoopInv, QueuesInv
  <2>5. ASSUME NEW i \in 1..n, NEW l \in 1..Len(binds'[i].queue), NEW m \in 1..Len(binds'[i].queue),
               binds'[i].queue[l] = binds'[i].queue[m]
        PROVE  l = m
    <3>1. i \in 1..Len(binds) /\ binds'[i] = binds[i]
      BY <2>2
    <3> QED BY <2>5, <3>1 DEF LoopInv, QueuesInv
  <2>6. ASSUME NEW i \in 1..n, binds'[i].closed PROVE Len(binds'[i].queue) = 0
    <3>1. CASE i \in 1..Len(binds) /\ binds'[i] = binds[i]
      BY <2>6, <3>1 DEF LoopInv, QueuesInv
    <3> QED BY <2>1, <3>1
  <2>7. conns' = conns /\ Len(binds') = n /\ conns \in Seq(SocketPair)
    BY <1>1, <1>3 DEF LoopInv, QueuesInv
  <2> QED BY <2>3, <2>4, <2>5, <2>6, <2>7 DEF QueuesInv
<1>6. SocketsInv'
  BY <1>1 DEF LoopInv, SocketsInv
<1> QED BY <1>4, <1>5, <1>6 DEF LoopInv

(* Sockets that are moved from queue to server, or dropped, are used as before. *)
LEMMA PlaceKeepsSides ==
  ASSUME NEW k \in SocketPair, NEW place \in {"dropped", "queued", "accepted"}
  PROVE  /\ [k EXCEPT !.place = place] \in SocketPair
         /\ [k EXCEPT !.place = place].listener = k.listener /\ [k EXCEPT !.place = place].place = place
         /\ \A s \in Loop!Side : SideOK(k, s) => SideOK([k EXCEPT !.place = place], s)
BY DEF SocketPair, SideOK

LEMMA OrphanedPair ==
  ASSUME NEW k \in SocketPair
  PROVE  /\ Loop!Orphaned(k) \in SocketPair /\ Loop!Orphaned(k).listener = k.listener
         /\ Loop!Orphaned(k).place # "queued"
         /\ k.place # "queued" => Loop!Orphaned(k).place = k.place
         /\ \A s \in Loop!Side : SideOK(k, s) => SideOK(Loop!Orphaned(k), s)
<1> DEFINE place == IF k.place = "queued" THEN "dropped" ELSE k.place
<1>1. Loop!Orphaned(k) = [k EXCEPT !.place = place]
  BY DEF Loop!Orphaned
<1>2. place \in {"dropped", "queued", "accepted"} /\ place # "queued" /\ (k.place # "queued" => place = k.place)
  BY DEF SocketPair
<1> HIDE DEF place
<1> DEFINE k1 == [k EXCEPT !.place = place]
<1>3. /\ k1 \in SocketPair /\ k1.listener = k.listener /\ k1.place = place
      /\ \A s \in Loop!Side : SideOK(k, s) => SideOK(k1, s)
  BY <1>2, PlaceKeepsSides
<1> HIDE DEF k1
<1>4. Loop!Orphaned(k) = k1
  BY <1>1 DEF k1
<1> QED BY <1>2, <1>3, <1>4

(* The fields of listeners and datagram sockets. *)
LEMMA BindingFields ==
  ASSUME NEW b \in Binding
  PROVE  /\ b.kind \in Loop!Kind /\ b.port \in Loop!Port /\ b.closed \in BOOLEAN
         /\ b.queue \in Seq(Nat) /\ Len(b.queue) \in Nat /\ b.waiters \in Nat
<1>1. /\ b.kind \in Loop!Kind /\ b.port \in Loop!Port /\ b.closed \in BOOLEAN
      /\ b.queue \in Seq(Nat) /\ b.waiters \in Nat
  BY DEF Binding
<1> QED BY <1>1

BindingAs(b, x, q, w) == [kind |-> b.kind, port |-> b.port, closed |-> x, queue |-> q, waiters |-> w]

LEMMA BindingMade ==
  ASSUME NEW b \in Binding, NEW x \in BOOLEAN, NEW q \in Seq(Nat), NEW w \in Nat
  PROVE  /\ BindingAs(b, x, q, w) \in Binding
         /\ BindingAs(b, x, q, w).kind = b.kind /\ BindingAs(b, x, q, w).port = b.port
         /\ BindingAs(b, x, q, w).closed = x /\ BindingAs(b, x, q, w).queue = q
         /\ BindingAs(b, x, q, w).waiters = w
<1>1. b.kind \in Loop!Kind /\ b.port \in Loop!Port
  BY BindingFields
<1> QED BY <1>1 DEF Binding, BindingAs

LEMMA BindingWith ==
  ASSUME NEW b \in Binding, NEW z
  PROVE  /\ [b EXCEPT !.queue = z] = BindingAs(b, b.closed, z, b.waiters)
         /\ [b EXCEPT !.waiters = z] = BindingAs(b, b.closed, b.queue, z)
<1>1. [b EXCEPT !.queue = z] = BindingAs(b, b.closed, z, b.waiters)
  BY DEF Binding, BindingAs
<1>2. [b EXCEPT !.waiters = z] = BindingAs(b, b.closed, b.queue, z)
  BY DEF Binding, BindingAs
<1> QED BY <1>1, <1>2

LEMMA ClosedBinding ==
  ASSUME NEW b \in Binding
  PROVE  /\ Loop!Closed(b) \in Binding /\ Loop!Closed(b).kind = b.kind /\ Loop!Closed(b).port = b.port
         /\ Loop!Closed(b).closed = TRUE /\ Len(Loop!Closed(b).queue) = 0
<1> DEFINE k == b.kind
           p == b.port
           x == b.closed
           q == b.queue
           w == b.waiters
           none == <<>>
<1>1. b = [kind |-> k, port |-> p, closed |-> x, queue |-> q, waiters |-> w]
  BY DEF Binding
<1>2. Loop!Closed(b) = [b EXCEPT !.closed = TRUE, !.queue = none, !.waiters = 0]
  BY DEF Loop!Closed
<1>3. none \in Seq(Nat) /\ Len(none) = 0
  OBVIOUS
<1> DEFINE c == BindingAs(b, TRUE, none, 0)
<1>4. c = [kind |-> k, port |-> p, closed |-> TRUE, queue |-> none, waiters |-> 0]
  BY DEF BindingAs
<1> HIDE DEF k, p, x, q, w, none, c
<1>5. Loop!Closed(b) = c
  BY <1>1, <1>2, <1>4
<1>6. c \in Binding /\ c.kind = b.kind /\ c.port = b.port /\ c.closed = TRUE /\ c.queue = none
  <2>1. TRUE \in BOOLEAN /\ 0 \in Nat
    OBVIOUS
  <2>2. c \in Binding
    BY <1>3, <2>1, BindingMade DEF c
  <2>3. c.kind = k /\ c.port = p /\ c.closed = TRUE /\ c.queue = none
    BY <1>4
  <2> QED BY <2>2, <2>3 DEF k, p
<1> QED BY <1>3, <1>5, <1>6

LEMMA CloseBindKeeps ==
  ASSUME LoopInv, NEW i \in DOMAIN binds, Loop!CloseBind(i)
  PROVE  LoopInv'
<1>1. /\ binds \in Seq(Binding) /\ conns \in Seq(SocketPair) /\ i \in 1..Len(binds) /\ ~ binds[i].closed
      /\ binds' = [binds EXCEPT ![i] = Loop!Closed(binds[i])]
      /\ ports' = [ports EXCEPT ![binds[i].kind][binds[i].port] = 0]
      /\ conns' = [c \in DOMAIN conns |-> IF conns[c].listener = i THEN Loop!Orphaned(conns[c]) ELSE conns[c]]
  BY DEF LoopInv, TablesInv, QueuesInv, Loop!CloseBind
<1>2. /\ binds[i] \in Binding /\ binds[i].kind \in Loop!Kind /\ binds[i].port \in Loop!Port
      /\ Loop!Closed(binds[i]) \in Binding
  <2>1. binds[i] \in Binding
    BY <1>1
  <2> QED BY <2>1, BindingFields, ClosedBinding
<1>3. /\ binds' \in Seq(Binding) /\ Len(binds') = Len(binds) /\ Len(binds) \in Nat
      /\ \A j \in 1..Len(binds) : j # i => binds'[j] = binds[j]
      /\ binds'[i] = Loop!Closed(binds[i])
  BY <1>1, <1>2, ExceptSeq
<1>4. /\ binds'[i].kind = binds[i].kind /\ binds'[i].port = binds[i].port
      /\ binds'[i].closed /\ Len(binds'[i].queue) = 0
  BY <1>2, <1>3, ClosedBinding
<1>5. conns' \in Seq(SocketPair) /\ Len(conns') = Len(conns)
      /\ \A c \in 1..Len(conns) :
           /\ conns'[c] \in SocketPair /\ conns'[c].listener = conns[c].listener
           /\ conns[c].listener # i => conns'[c] = conns[c]
           /\ conns'[c].place = "queued" => conns[c].place = "queued" /\ conns[c].listener # i
           /\ \A s \in Loop!Side : SideOK(conns[c], s) => SideOK(conns'[c], s)
  <2>1. /\ DOMAIN conns = 1..Len(conns) /\ Len(conns) \in Nat
        /\ \A c \in 1..Len(conns) : conns[c] \in SocketPair
    BY <1>1
  <2>2. \A c \in 1..Len(conns) :
           /\ conns'[c] \in SocketPair /\ conns'[c].listener = conns[c].listener
           /\ conns[c].listener # i => conns'[c] = conns[c]
           /\ conns'[c].place = "queued" => conns[c].place = "queued" /\ conns[c].listener # i
           /\ \A s \in Loop!Side : SideOK(conns[c], s) => SideOK(conns'[c], s)
    <3> TAKE c \in 1..Len(conns)
    <3>1. CASE conns[c].listener = i
      <4>1. conns'[c] = Loop!Orphaned(conns[c])
        BY <1>1, <2>1, <3>1
      <4> QED BY <2>1, <3>1, <4>1, OrphanedPair
    <3>2. CASE conns[c].listener # i
      BY <1>1, <2>1, <3>2
    <3> QED BY <3>1, <3>2
  <2>3. conns' \in [1..Len(conns) -> SocketPair]
    BY <1>1, <2>1, <2>2
  <2>4. conns' \in Seq(SocketPair) /\ Len(conns') = Len(conns)
    BY <2>1, <2>3
  <2> QED BY <2>2, <2>4
<1>6. TablesInv'
  <2>1. /\ ports' \in [Loop!Kind -> [Loop!Port -> Nat]]
        /\ \A k \in Loop!Kind : \A p \in Loop!Port :
             ports'[k][p] = IF k = binds[i].kind /\ p = binds[i].port THEN 0 ELSE ports[k][p]
    BY <1>1, <1>2 DEF LoopInv, TablesInv
  <2>2. \A k \in Loop!Kind : \A p \in Loop!Port : ports'[k][p] =< Len(binds)
    <3> TAKE k \in Loop!Kind
    <3> TAKE p \in Loop!Port
    <3>1. ports[k][p] =< Len(binds)
      BY DEF LoopInv, TablesInv
    <3>2. ports'[k][p] = 0 \/ ports'[k][p] = ports[k][p]
      BY <2>1
    <3> QED BY <1>3, <3>1, <3>2
  <2>3. \A k \in Loop!Kind : \A p \in Loop!Port : \A j \in 1..Len(binds) :
          ports[k][p] = j <=> binds[j].kind = k /\ binds[j].port = p /\ ~binds[j].closed
    BY <1>1 DEF LoopInv, TablesInv, Loop!TablesExact
  <2>4. \A k \in Loop!Kind : \A p \in Loop!Port : \A j \in 1..Len(binds) :
          ports'[k][p] = j <=> binds'[j].kind = k /\ binds'[j].port = p /\ ~binds'[j].closed
    <3> TAKE k \in Loop!Kind
    <3> TAKE p \in Loop!Port
    <3> TAKE j \in 1..Len(binds)
    <3>1. CASE k = binds[i].kind /\ p = binds[i].port
      <4>1. ports'[k][p] = 0 /\ ports[k][p] = i
        BY <1>1, <2>1, <2>3, <3>1
      <4>2. j # i => ~ (binds[j].kind = k /\ binds[j].port = p /\ ~binds[j].closed)
        BY <2>3, <4>1
      <4> QED BY <1>3, <1>4, <4>1, <4>2
    <3>2. CASE ~ (k = binds[i].kind /\ p = binds[i].port)
      <4>1. ports'[k][p] = ports[k][p]
        BY <2>1, <3>2
      <4>2. CASE j = i
        BY <1>4, <2>3, <3>2, <4>1, <4>2
      <4>3. CASE j # i
        BY <1>3, <2>3, <4>1, <4>3
      <4> QED BY <4>2, <4>3
    <3> QED BY <3>1, <3>2
  <2>5. DOMAIN binds' = 1..Len(binds)
    BY <1>3
  <2>6. Loop!TablesExact'
    BY <2>4, <2>5 DEF Loop!TablesExact
  <2> QED BY <1>3, <2>1, <2>2, <2>6 DEF TablesInv
<1>7. QueuesInv'
  <2>1. \A j \in 1..Len(binds) : \A n \in 1..Len(binds'[j].queue) : j # i /\ binds'[j] = binds[j]
    BY <1>3, <1>4
  <2>2. \A j \in 1..Len(binds) : \A n \in 1..Len(binds'[j].queue) :
           /\ binds'[j].queue[n] \in 1..Len(conns)
           /\ conns'[binds'[j].queue[n]].listener = j /\ conns'[binds'[j].queue[n]].place = "queued"
    <3> TAKE j \in 1..Len(binds)
    <3> TAKE n \in 1..Len(binds'[j].queue)
    <3>1. /\ j # i /\ n \in 1..Len(binds[j].queue) /\ binds'[j].queue[n] = binds[j].queue[n]
          /\ binds[j].queue[n] \in 1..Len(conns)
          /\ conns[binds[j].queue[n]].listener = j /\ conns[binds[j].queue[n]].place = "queued"
      BY <2>1 DEF LoopInv, QueuesInv
    <3> QED BY <1>5, <3>1
  <2>3. \A j \in 1..Len(binds) : \A m, n \in 1..Len(binds'[j].queue) :
          binds'[j].queue[m] = binds'[j].queue[n] => m = n
    BY <2>1 DEF LoopInv, QueuesInv
  <2>4. \A j \in 1..Len(binds) : binds'[j].closed => Len(binds'[j].queue) = 0
    BY <1>3, <1>4 DEF LoopInv, QueuesInv
  <2>5. \A c \in 1..Len(conns) : conns'[c].place = "queued" =>
          \E j \in 1..Len(binds) : \E n \in 1..Len(binds'[j].queue) : binds'[j].queue[n] = c
    <3> SUFFICES ASSUME NEW c \in 1..Len(conns), conns'[c].place = "queued"
                 PROVE  \E j \in 1..Len(binds) : \E n \in 1..Len(binds'[j].queue) : binds'[j].queue[n] = c
      OBVIOUS
    <3>1. conns[c].place = "queued" /\ conns[c].listener # i
      BY <1>5
    <3>2. PICK j \in 1..Len(binds) : \E n \in 1..Len(binds[j].queue) : binds[j].queue[n] = c
      BY <3>1 DEF LoopInv, QueuesInv
    <3>3. j # i
      BY <3>1, <3>2 DEF LoopInv, QueuesInv
    <3> QED BY <1>3, <3>2, <3>3
  <2> QED BY <1>3, <1>5, <2>2, <2>3, <2>4, <2>5 DEF QueuesInv
<1>8. SocketsInv'
  BY <1>5 DEF LoopInv, SocketsInv
<1> QED BY <1>6, <1>7, <1>8 DEF LoopInv

LEMMA CloseBackendKeeps ==
  ASSUME LoopInv, Loop!CloseBackend
  PROVE  LoopInv'
<1>1. /\ binds \in Seq(Binding) /\ conns \in Seq(SocketPair)
      /\ binds' = [i \in DOMAIN binds |-> Loop!Closed(binds[i])]
      /\ ports' = [k \in Loop!Kind |-> [p \in Loop!Port |-> 0]]
      /\ conns' = [c \in DOMAIN conns |-> Loop!Orphaned(conns[c])]
  BY DEF LoopInv, TablesInv, QueuesInv, Loop!CloseBackend
<1>2. /\ Len(binds) \in Nat /\ DOMAIN binds = 1..Len(binds)
      /\ \A i \in 1..Len(binds) : binds[i] \in Binding
      /\ Len(conns) \in Nat /\ DOMAIN conns = 1..Len(conns)
      /\ \A c \in 1..Len(conns) : conns[c] \in SocketPair
  BY <1>1
<1>3. \A i \in 1..Len(binds) : binds'[i] \in Binding /\ binds'[i].closed = TRUE /\ Len(binds'[i].queue) = 0
  BY <1>1, <1>2, ClosedBinding
<1>4. binds' \in Seq(Binding) /\ Len(binds') = Len(binds)
  <2>1. binds' \in [1..Len(binds) -> Binding]
    BY <1>1, <1>2, <1>3
  <2> QED BY <1>2, <2>1
<1>5. \A c \in 1..Len(conns) : /\ conns'[c] \in SocketPair /\ conns'[c].place # "queued"
                               /\ \A s \in Loop!Side : SideOK(conns[c], s) => SideOK(conns'[c], s)
  BY <1>1, <1>2, OrphanedPair
<1>6. conns' \in Seq(SocketPair) /\ Len(conns') = Len(conns)
  <2>1. conns' \in [1..Len(conns) -> SocketPair]
    BY <1>1, <1>2, <1>5
  <2> QED BY <1>2, <2>1
<1>7. TablesInv'
  <2>1. /\ ports' \in [Loop!Kind -> [Loop!Port -> Nat]]
        /\ \A k \in Loop!Kind : \A p \in Loop!Port : ports'[k][p] = 0
    BY <1>1
  <2>2. \A k \in Loop!Kind : \A p \in Loop!Port : ports'[k][p] =< Len(binds')
    BY <1>2, <1>4, <2>1
  <2>3. DOMAIN binds' = 1..Len(binds)
    BY <1>4
  <2>4. Loop!TablesExact'
    BY <1>2, <1>3, <2>1, <2>3 DEF Loop!TablesExact
  <2> QED BY <1>4, <2>1, <2>2, <2>4 DEF TablesInv
<1>8. QueuesInv'
  BY <1>3, <1>4, <1>5, <1>6 DEF QueuesInv
<1>9. SocketsInv'
  BY <1>5, <1>6 DEF LoopInv, SocketsInv
<1> QED BY <1>7, <1>8, <1>9 DEF LoopInv

(* A binding whose queue or waiters change keeps its entry in the tables. *)
LEMMA BindingKeepsTables ==
  ASSUME TablesInv, NEW l \in 1..Len(binds), NEW b1 \in Binding,
         b1.kind = binds[l].kind, b1.port = binds[l].port, b1.closed = binds[l].closed,
         binds' = [binds EXCEPT ![l] = b1], ports' = ports
  PROVE  TablesInv'
<1>1. binds' \in Seq(Binding) /\ Len(binds') = Len(binds) /\ DOMAIN binds' = DOMAIN binds
  BY ExceptSeq DEF TablesInv
<1>2. \A i \in DOMAIN binds :
        binds'[i].kind = binds[i].kind /\ binds'[i].port = binds[i].port /\ binds'[i].closed = binds[i].closed
  BY DEF TablesInv
<1>3. Loop!TablesExact'
  BY <1>1, <1>2 DEF TablesInv, Loop!TablesExact
<1> QED BY <1>1, <1>3 DEF TablesInv

LEMMA NewPair ==
  ASSUME NEW l \in Nat, NEW place \in {"dropped", "queued", "accepted"}
  PROVE  /\ [Loop!NewConn(l) EXCEPT !.place = place] \in SocketPair
         /\ [Loop!NewConn(l) EXCEPT !.place = place].listener = l
         /\ [Loop!NewConn(l) EXCEPT !.place = place].place = place
         /\ \A s \in Loop!Side : SideOK([Loop!NewConn(l) EXCEPT !.place = place], s)
<1> DEFINE b == Loop!NewBuffer
           x == [s \in Loop!Side |-> FALSE]
           f == [s \in Loop!Side |-> b]
           w == [s \in Loop!Side |-> 0]
           q == <<>>
           g == [s \in Loop!Side |-> q]
           k == Loop!NewConn(l)
<1>1. b \in Buffered /\ b.queue = <<>> /\ b.closed = FALSE /\ b.waiter = FALSE
  BY DEF Loop!NewBuffer, Buffered
<1>2. k = [listener |-> l, place |-> "dropped", closed |-> x, inbound |-> f, written |-> w, got |-> g, eof |-> x]
  BY DEF Loop!NewConn
<1>3. q \in Seq(Nat) /\ Len(q) = 0 /\ b.queue = q
  BY <1>1
<1> HIDE DEF b, q, k
<1>4. /\ x \in [Loop!Side -> BOOLEAN] /\ f \in [Loop!Side -> Buffered] /\ w \in [Loop!Side -> Nat]
      /\ g \in [Loop!Side -> Seq(Nat)]
      /\ \A s \in Loop!Side : x[s] = FALSE /\ f[s] = b /\ w[s] = 0 /\ g[s] = q
  BY <1>1, <1>3
<1> HIDE DEF x, f, w, g
<1>5. k \in SocketPair
  BY <1>2, <1>4, PairMade
<1>6. k.listener = l /\ k.closed = x /\ k.inbound = f /\ k.written = w /\ k.got = g
  BY <1>2
<1>7. Flow(q, q, FALSE, FALSE, 0)
  BY <1>3 DEF Flow
<1>8. \A s \in Loop!Side : SideOK(k, s)
  BY <1>1, <1>3, <1>4, <1>6, <1>7, Sides DEF SideOK
<1> QED BY <1>5, <1>6, <1>8, PlaceKeepsSides DEF k

LEMMA NewPairDropped == \A l : Loop!NewConn(l) = [Loop!NewConn(l) EXCEPT !.place = "dropped"]
<1> TAKE l
<1> DEFINE x == [s \in Loop!Side |-> FALSE]
           f == [s \in Loop!Side |-> Loop!NewBuffer]
           w == [s \in Loop!Side |-> 0]
           g == [s \in Loop!Side |-> <<>>]
           k == Loop!NewConn(l)
<1>1. k = [listener |-> l, place |-> "dropped", closed |-> x, inbound |-> f, written |-> w, got |-> g, eof |-> x]
  BY DEF Loop!NewConn
<1> HIDE DEF x, f, w, g, k
<1>2. k = [k EXCEPT !.place = "dropped"]
  BY <1>1
<1> QED BY <1>2 DEF k

LEMMA ConnectKeeps ==
  ASSUME LoopInv, NEW p \in Loop!Port, Loop!Connect(p)
  PROVE  LoopInv'
<1> DEFINE l == ports["listener"][p]
           c == Len(conns) + 1
           b == binds[l]
<1>1. /\ binds \in Seq(Binding) /\ conns \in Seq(SocketPair) /\ l \in 1..Len(binds) /\ b \in Binding
      /\ ~ b.closed /\ l \in Nat /\ c \in Nat /\ Len(conns) \in Nat /\ Len(binds) \in Nat
      /\ b.queue \in Seq(Nat) /\ b.waiters \in Nat
  <2>1. /\ binds \in Seq(Binding) /\ conns \in Seq(SocketPair) /\ "listener" \in Loop!Kind
        /\ l \in Nat /\ l # 0 /\ l =< Len(binds)
    BY DEF LoopInv, TablesInv, QueuesInv, Loop!Connect, Loop!Kind
  <2>2. l \in 1..Len(binds) /\ l \in DOMAIN binds
    BY <2>1
  <2>3. b \in Binding /\ ~ b.closed
    BY <2>1, <2>2 DEF LoopInv, TablesInv, Loop!TablesExact
  <2> QED BY <2>1, <2>2, <2>3 DEF Binding
<1>2. PICK place \in {"dropped", "queued", "accepted"} :
        /\ conns' = Append(conns, [Loop!NewConn(l) EXCEPT !.place = place])
        /\ \/ place # "queued" /\ binds' = [binds EXCEPT ![l] = [b EXCEPT !.waiters = @ - 1]] /\ b.waiters > 0
           \/ place # "queued" /\ binds' = binds
           \/ place = "queued" /\ binds' = [binds EXCEPT ![l] = [b EXCEPT !.queue = Append(@, c)]]
  <2>1. Loop!NewConn(l) = [Loop!NewConn(l) EXCEPT !.place = "dropped"]
    BY <1>1, NewPairDropped
  <2>2. \/ /\ b.waiters > 0 /\ binds' = [binds EXCEPT ![l] = [b EXCEPT !.waiters = @ - 1]]
           /\ conns' = Append(conns, [Loop!NewConn(l) EXCEPT !.place = "accepted"])
        \/ /\ binds' = [binds EXCEPT ![l] = [b EXCEPT !.queue = Append(@, c)]]
           /\ conns' = Append(conns, [Loop!NewConn(l) EXCEPT !.place = "queued"])
        \/ /\ binds' = binds /\ conns' = Append(conns, Loop!NewConn(l))
    BY DEF Loop!Connect
  <2>3. CASE /\ b.waiters > 0 /\ binds' = [binds EXCEPT ![l] = [b EXCEPT !.waiters = @ - 1]]
             /\ conns' = Append(conns, [Loop!NewConn(l) EXCEPT !.place = "accepted"])
    <3> WITNESS "accepted" \in {"dropped", "queued", "accepted"}
    <3> QED BY <2>3
  <2>4. CASE /\ binds' = [binds EXCEPT ![l] = [b EXCEPT !.queue = Append(@, c)]]
             /\ conns' = Append(conns, [Loop!NewConn(l) EXCEPT !.place = "queued"])
    <3> WITNESS "queued" \in {"dropped", "queued", "accepted"}
    <3> QED BY <2>4
  <2>5. CASE binds' = binds /\ conns' = Append(conns, Loop!NewConn(l))
    <3> WITNESS "dropped" \in {"dropped", "queued", "accepted"}
    <3> QED BY <2>1, <2>5
  <2> QED BY <2>2, <2>3, <2>4, <2>5
<1> DEFINE k1 == [Loop!NewConn(l) EXCEPT !.place = place]
<1>3. k1 \in SocketPair /\ k1.listener = l /\ k1.place = place /\ \A s \in Loop!Side : SideOK(k1, s)
  <2>1. l \in Nat
    BY <1>1
  <2> HIDE DEF l
  <2> QED BY <2>1, NewPair
<1> HIDE DEF k1
<1>4. /\ conns' \in Seq(SocketPair) /\ Len(conns') = c /\ conns'[c] = k1
      /\ \A d \in 1..Len(conns) : conns'[d] = conns[d]
      /\ \A d \in 1..c : d \in 1..Len(conns) \/ d = c
  <2>1. conns' = Append(conns, k1)
    BY <1>2 DEF k1
  <2> QED BY <1>1, <1>3, <2>1
<1>5. SocketsInv'
  BY <1>3, <1>4 DEF LoopInv, SocketsInv
<1>6. PICK b1 \in Binding :
        /\ b1.kind = b.kind /\ b1.port = b.port /\ b1.closed = b.closed
        /\ binds' = [binds EXCEPT ![l] = b1]
        /\ b1.queue = IF place = "queued" THEN Append(b.queue, c) ELSE b.queue
  <2>1. CASE place # "queued" /\ b.waiters > 0 /\ binds' = [binds EXCEPT ![l] = [b EXCEPT !.waiters = @ - 1]]
    <3> DEFINE w == b.waiters - 1
               x == b.closed
               q == b.queue
               b1 == BindingAs(b, x, q, w)
    <3>1. w \in Nat /\ x \in BOOLEAN /\ q \in Seq(Nat) /\ b \in Binding
      BY <1>1, <2>1, BindingFields
    <3>2. [b EXCEPT !.waiters = w] = b1
      BY <1>1, BindingWith
    <3>3. binds' = [binds EXCEPT ![l] = b1]
      BY <2>1, <3>2
    <3> HIDE DEF b, w, x, q
    <3>4. b1 \in Binding /\ b1.kind = b.kind /\ b1.port = b.port /\ b1.closed = x /\ b1.queue = q
      BY <3>1, BindingMade
    <3> HIDE DEF b1
    <3> QED BY <2>1, <3>3, <3>4 DEF q, x, b
  <2>2. CASE place # "queued" /\ binds' = binds
    <3>1. binds = [binds EXCEPT ![l] = b]
      BY <1>1
    <3> QED BY <1>1, <2>2, <3>1
  <2>3. CASE place = "queued" /\ binds' = [binds EXCEPT ![l] = [b EXCEPT !.queue = Append(@, c)]]
    <3> DEFINE w == b.waiters
               x == b.closed
               q == Append(b.queue, c)
               b1 == BindingAs(b, x, q, w)
    <3>1. w \in Nat /\ x \in BOOLEAN /\ q \in Seq(Nat) /\ b \in Binding
      BY <1>1, BindingFields
    <3>2. [b EXCEPT !.queue = q] = b1
      BY <1>1, BindingWith
    <3>3. binds' = [binds EXCEPT ![l] = b1]
      BY <2>3, <3>2
    <3> HIDE DEF b, w, x, q
    <3>4. b1 \in Binding /\ b1.kind = b.kind /\ b1.port = b.port /\ b1.closed = x /\ b1.queue = q
      BY <3>1, BindingMade
    <3> HIDE DEF b1
    <3> QED BY <2>3, <3>3, <3>4 DEF q, x, b
  <2> QED BY <1>2, <2>1, <2>2, <2>3
<1>7. TablesInv'
  BY <1>1, <1>6, BindingKeepsTables DEF LoopInv, Loop!Connect
<1>8. /\ Len(binds') = Len(binds) /\ binds'[l] = b1
      /\ \A i \in 1..Len(binds) : i # l => binds'[i] = binds[i]
  BY <1>1, <1>6
<1> DEFINE full == Append(b.queue, c)
<1>9. /\ Len(full) = Len(b.queue) + 1 /\ full[Len(b.queue) + 1] = c /\ Len(b.queue) \in Nat
      /\ \A n \in 1..Len(b.queue) : full[n] = b.queue[n]
  <2> DEFINE q == b.queue
  <2>1. q \in Seq(Nat) /\ c \in Nat
    BY <1>1
  <2> HIDE DEF q, c
  <2>2. /\ Len(Append(q, c)) = Len(q) + 1 /\ Append(q, c)[Len(q) + 1] = c /\ Len(q) \in Nat
        /\ \A n \in 1..Len(q) : Append(q, c)[n] = q[n]
    BY <2>1, Appended
  <2> QED BY <2>2 DEF q
<1> HIDE DEF full
<1>10. b1.queue = IF place = "queued" THEN full ELSE b.queue
  BY <1>6 DEF full
<1>11. \A i \in 1..Len(binds) : \A n \in 1..Len(binds'[i].queue) :
        \/ n \in 1..Len(binds[i].queue) /\ binds'[i].queue[n] = binds[i].queue[n]
        \/ i = l /\ place = "queued" /\ n = Len(b.queue) + 1 /\ binds'[i].queue[n] = c
  <2> TAKE i \in 1..Len(binds)
  <2> TAKE n \in 1..Len(binds'[i].queue)
  <2>1. CASE i # l
    BY <1>8, <2>1
  <2>2. CASE i = l /\ place # "queued"
    <3>1. binds'[i].queue = binds[i].queue
      BY <1>8, <1>10, <2>2
    <3> QED BY <3>1
  <2>3. CASE i = l /\ place = "queued"
    <3>1. binds'[i].queue = full /\ binds[i].queue = b.queue
      BY <1>8, <1>10, <2>3
    <3>2. n \in 1..Len(b.queue) \/ n = Len(b.queue) + 1
      BY <1>9, <3>1
    <3> QED BY <1>9, <2>3, <3>1, <3>2
  <2> QED BY <2>1, <2>2, <2>3
<1>12. \A i \in 1..Len(binds) : \A n \in 1..Len(binds[i].queue) :
        n \in 1..Len(binds'[i].queue) /\ binds'[i].queue[n] = binds[i].queue[n]
  <2> TAKE i \in 1..Len(binds)
  <2> TAKE n \in 1..Len(binds[i].queue)
  <2>1. CASE i # l
    BY <1>8, <2>1
  <2>2. CASE i = l /\ place # "queued"
    <3>1. binds'[i].queue = binds[i].queue
      BY <1>8, <1>10, <2>2
    <3> QED BY <3>1
  <2>3. CASE i = l /\ place = "queued"
    <3>1. binds'[i].queue = full /\ binds[i].queue = b.queue
      BY <1>8, <1>10, <2>3
    <3> QED BY <1>9, <3>1
  <2> QED BY <2>1, <2>2, <2>3
<1>13. \A i \in 1..Len(binds) : \A n \in 1..Len(binds[i].queue) :
         /\ binds[i].queue[n] \in 1..Len(conns) /\ binds[i].queue[n] # c
         /\ conns[binds[i].queue[n]].listener = i /\ conns[binds[i].queue[n]].place = "queued"
  <2> TAKE i \in 1..Len(binds)
  <2> TAKE n \in 1..Len(binds[i].queue)
  <2>1. /\ binds[i].queue[n] \in 1..Len(conns)
        /\ conns[binds[i].queue[n]].listener = i /\ conns[binds[i].queue[n]].place = "queued"
    BY DEF LoopInv, QueuesInv
  <2>2. \A x \in 1..Len(conns) : x # c
    BY <1>1
  <2> QED BY <2>1, <2>2
<1>14. QueuesInv'
  <2>1. \A i \in 1..Len(binds) : \A n \in 1..Len(binds'[i].queue) :
           /\ binds'[i].queue[n] \in 1..c
           /\ conns'[binds'[i].queue[n]].listener = i /\ conns'[binds'[i].queue[n]].place = "queued"
    <3> TAKE i \in 1..Len(binds)
    <3> TAKE n \in 1..Len(binds'[i].queue)
    <3>1. CASE n \in 1..Len(binds[i].queue) /\ binds'[i].queue[n] = binds[i].queue[n]
      <4> DEFINE d == binds[i].queue[n]
      <4>1. d \in 1..Len(conns) /\ conns[d].listener = i /\ conns[d].place = "queued"
        BY <1>13, <3>1
      <4>2. binds'[i].queue[n] = d
        BY <3>1
      <4> HIDE DEF d
      <4>3. conns'[d] = conns[d] /\ d \in 1..c
        BY <1>1, <1>4, <4>1
      <4> QED BY <4>1, <4>2, <4>3
    <3>2. CASE i = l /\ place = "queued" /\ binds'[i].queue[n] = c
      BY <1>1, <1>3, <1>4, <3>2
    <3> QED BY <1>11, <3>1, <3>2
  <2>2. \A i \in 1..Len(binds) : \A m, n \in 1..Len(binds'[i].queue) :
          binds'[i].queue[m] = binds'[i].queue[n] => m = n
    <3> TAKE i \in 1..Len(binds)
    <3> TAKE m, n \in 1..Len(binds'[i].queue)
    <3>1. CASE m \in 1..Len(binds[i].queue) /\ n \in 1..Len(binds[i].queue)
      BY <1>12, <3>1 DEF LoopInv, QueuesInv
    <3>2. CASE m \in 1..Len(binds[i].queue) /\ n \notin 1..Len(binds[i].queue)
      BY <1>11, <1>12, <1>13, <3>2
    <3>3. CASE m \notin 1..Len(binds[i].queue) /\ n \in 1..Len(binds[i].queue)
      BY <1>11, <1>12, <1>13, <3>3
    <3>4. CASE m \notin 1..Len(binds[i].queue) /\ n \notin 1..Len(binds[i].queue)
      BY <1>11, <3>4
    <3> QED BY <3>1, <3>2, <3>3, <3>4
  <2>3. \A i \in 1..Len(binds) : binds'[i].closed => Len(binds'[i].queue) = 0
    BY <1>1, <1>6, <1>8 DEF LoopInv, QueuesInv
  <2>4. \A d \in 1..c : conns'[d].place = "queued" =>
          \E i \in 1..Len(binds) : \E n \in 1..Len(binds'[i].queue) : binds'[i].queue[n] = d
    <3> SUFFICES ASSUME NEW d \in 1..c, conns'[d].place = "queued"
                 PROVE  \E i \in 1..Len(binds) : \E n \in 1..Len(binds'[i].queue) : binds'[i].queue[n] = d
      OBVIOUS
    <3>1. CASE d \in 1..Len(conns)
      <4>1. conns[d].place = "queued"
        BY <1>4, <3>1
      <4>2. PICK i \in 1..Len(binds) : \E n \in 1..Len(binds[i].queue) : binds[i].queue[n] = d
        BY <3>1, <4>1 DEF LoopInv, QueuesInv
      <4> QED BY <1>12, <4>2
    <3>2. CASE d = c
      <4>1. place = "queued"
        BY <1>3, <1>4, <3>2
      <4>2. b1.queue = full
        BY <1>10, <4>1
      <4>3. Len(b1.queue) \in 1..Len(b1.queue) /\ b1.queue[Len(b1.queue)] = c
        <5> DEFINE m == Len(b.queue)
        <5>1. m \in Nat /\ Len(full) = m + 1 /\ full[m + 1] = c
          BY <1>9
        <5> HIDE DEF m, c
        <5> QED BY <4>2, <5>1
      <4> QED BY <1>1, <1>8, <3>2, <4>3
    <3> QED BY <1>4, <3>1, <3>2
  <2> QED BY <1>4, <1>8, <2>1, <2>2, <2>3, <2>4 DEF QueuesInv
<1> QED BY <1>5, <1>7, <1>14 DEF LoopInv

LEMMA AcceptKeeps ==
  ASSUME LoopInv, NEW l \in DOMAIN binds, Loop!Accept(l)
  PROVE  LoopInv'
<1> DEFINE b == binds[l]
<1>1. /\ binds \in Seq(Binding) /\ conns \in Seq(SocketPair) /\ l \in 1..Len(binds) /\ b \in Binding
      /\ ~ b.closed /\ b.queue \in Seq(Nat) /\ b.waiters \in Nat /\ ports' = ports /\ Len(binds) \in Nat
  <2>1. /\ binds \in Seq(Binding) /\ conns \in Seq(SocketPair) /\ l \in 1..Len(binds) /\ Len(binds) \in Nat
        /\ ~ b.closed /\ ports' = ports
    BY DEF LoopInv, TablesInv, QueuesInv, Loop!Accept
  <2>2. b \in Binding
    BY <2>1
  <2> QED BY <2>1, <2>2, BindingFields
<1>2. CASE b.queue = <<>>
  <2> DEFINE b1 == [b EXCEPT !.waiters = @ + 1]
  <2>1. binds' = [binds EXCEPT ![l] = b1] /\ conns' = conns
    BY <1>2 DEF Loop!Accept
  <2>2. b1 \in Binding /\ b1.kind = b.kind /\ b1.port = b.port /\ b1.closed = b.closed /\ b1.queue = b.queue
    <3> DEFINE w == b.waiters + 1
               x == b.closed
               q == b.queue
               r == BindingAs(b, x, q, w)
    <3>1. w \in Nat /\ x \in BOOLEAN /\ q \in Seq(Nat) /\ b \in Binding
      BY <1>1, BindingFields
    <3>2. b1 = r
      BY <1>1, BindingWith
    <3> HIDE DEF b, w, x, q, b1
    <3>3. r \in Binding /\ r.kind = b.kind /\ r.port = b.port /\ r.closed = x /\ r.queue = q
      BY <3>1, BindingMade
    <3> QED BY <3>2, <3>3 DEF q, x
  <2> HIDE DEF b1
  <2>3. TablesInv'
    BY <1>1, <2>1, <2>2, BindingKeepsTables DEF LoopInv
  <2>4. /\ Len(binds') = Len(binds)
        /\ \A i \in 1..Len(binds) : binds'[i].queue = binds[i].queue /\ binds'[i].closed = binds[i].closed
    BY <1>1, <2>1, <2>2
  <2>5. QueuesInv'
    <3>2. ASSUME NEW i \in 1..Len(binds), NEW m \in 1..Len(binds'[i].queue), NEW n \in 1..Len(binds'[i].queue),
                 binds'[i].queue[m] = binds'[i].queue[n]
          PROVE  m = n
      <4>1. \A x, y \in 1..Len(binds[i].queue) : binds[i].queue[x] = binds[i].queue[y] => x = y
        BY DEF LoopInv, QueuesInv
      <4>2. binds'[i].queue = binds[i].queue
        BY <2>4
      <4> QED BY <3>2, <4>1, <4>2
    <3>3. \A i \in 1..Len(binds) : binds'[i].closed => Len(binds'[i].queue) = 0
      BY <2>4 DEF LoopInv, QueuesInv
    <3>4. ASSUME NEW d \in 1..Len(conns), conns[d].place = "queued"
          PROVE  \E i \in 1..Len(binds) : \E n \in 1..Len(binds'[i].queue) : binds'[i].queue[n] = d
      <4>1. PICK i \in 1..Len(binds) : \E n \in 1..Len(binds[i].queue) : binds[i].queue[n] = d
        BY <3>4 DEF LoopInv, QueuesInv
      <4>2. binds'[i].queue = binds[i].queue
        BY <2>4
      <4> QED BY <4>1, <4>2
    <3>5. /\ conns' = conns /\ conns \in Seq(SocketPair) /\ Len(binds') = Len(binds)
      BY <1>1, <2>1, <2>4
    <3>6. \A i \in 1..Len(binds) : \A n \in 1..Len(binds'[i].queue) :
             /\ binds'[i].queue[n] \in 1..Len(conns)
             /\ conns[binds'[i].queue[n]].listener = i /\ conns[binds'[i].queue[n]].place = "queued"
      <4> TAKE i \in 1..Len(binds)
      <4> TAKE n \in 1..Len(binds'[i].queue)
      <4> DEFINE c == binds[i].queue[n]
      <4>1. binds'[i].queue = binds[i].queue
        BY <2>4
      <4>2. n \in 1..Len(binds[i].queue) /\ binds'[i].queue[n] = c
        BY <4>1
      <4>3. c \in 1..Len(conns) /\ conns[c].listener = i /\ conns[c].place = "queued"
        BY <4>2 DEF LoopInv, QueuesInv
      <4> HIDE DEF c
      <4> QED BY <4>2, <4>3
    <3> QED BY <3>2, <3>3, <3>4, <3>5, <3>6 DEF QueuesInv
  <2> QED BY <2>1, <2>3, <2>5 DEF LoopInv, SocketsInv
<1>3. CASE b.queue # <<>>
  <2> DEFINE h == b.queue[1]
             b1 == [b EXCEPT !.queue = Tail(b.queue)]
  <2>1. /\ Head(b.queue) = h /\ Len(b.queue) \in Nat \ {0} /\ Tail(b.queue) \in Seq(Nat)
        /\ Len(Tail(b.queue)) = Len(b.queue) - 1
        /\ \A n \in 1..Len(Tail(b.queue)) : Tail(b.queue)[n] = b.queue[n + 1]
    BY <1>1, <1>3, EmptySeq, HeadTailProperties
  <2>2. binds' = [binds EXCEPT ![l] = b1] /\ conns' = [conns EXCEPT ![h] = [conns[h] EXCEPT !.place = "accepted"]]
    BY <1>3, <2>1 DEF Loop!Accept
  <2>3. b1 \in Binding /\ b1.kind = b.kind /\ b1.port = b.port /\ b1.closed = b.closed /\ b1.queue = Tail(b.queue)
    BY <1>1, <2>1 DEF Binding
  <2> HIDE DEF b1
  <2>4. TablesInv'
    BY <1>1, <2>2, <2>3, BindingKeepsTables DEF LoopInv
  <2>5. h \in 1..Len(conns) /\ conns[h] \in SocketPair /\ 1 \in 1..Len(b.queue)
    BY <1>1, <2>1 DEF LoopInv, QueuesInv
  <2>6. /\ [conns[h] EXCEPT !.place = "accepted"] \in SocketPair
        /\ [conns[h] EXCEPT !.place = "accepted"].listener = conns[h].listener
        /\ [conns[h] EXCEPT !.place = "accepted"].place = "accepted"
        /\ \A s \in Loop!Side : SideOK(conns[h], s) => SideOK([conns[h] EXCEPT !.place = "accepted"], s)
    BY <2>5, PlaceKeepsSides
  <2> DEFINE k1 == [conns[h] EXCEPT !.place = "accepted"]
  <2> HIDE DEF k1
  <2>7. /\ conns' \in Seq(SocketPair) /\ Len(conns') = Len(conns) /\ conns'[h] = k1
        /\ \A d \in 1..Len(conns) : d # h => conns'[d] = conns[d]
    <3>1. conns' = [conns EXCEPT ![h] = k1] /\ k1 \in SocketPair
      BY <2>2, <2>6 DEF k1
    <3> QED BY <1>1, <2>5, <3>1, ExceptSeq
  <2>8. SocketsInv'
    <3>1. \A s \in Loop!Side : SideOK(conns'[h], s)
      BY <2>5, <2>6, <2>7 DEF k1, LoopInv, SocketsInv
    <3> QED BY <2>7, <3>1 DEF LoopInv, SocketsInv
  <2>9. /\ Len(binds') = Len(binds) /\ binds'[l] = b1
        /\ \A i \in 1..Len(binds) : i # l => binds'[i] = binds[i]
    BY <1>1, <2>2
  <2>10. \A i \in 1..Len(binds) : \A n \in 1..Len(binds'[i].queue) :
           \/ i # l /\ n \in 1..Len(binds[i].queue) /\ binds'[i].queue[n] = binds[i].queue[n]
           \/ i = l /\ n + 1 \in 2..Len(b.queue) /\ binds'[i].queue[n] = b.queue[n + 1]
    <3> TAKE i \in 1..Len(binds)
    <3> TAKE n \in 1..Len(binds'[i].queue)
    <3>1. CASE i # l
      BY <2>9, <3>1
    <3>2. CASE i = l
      <4>1. binds'[i].queue = Tail(b.queue)
        BY <2>3, <2>9, <3>2
      <4>2. n \in 1..Len(Tail(b.queue)) /\ Tail(b.queue)[n] = b.queue[n + 1]
        BY <2>1, <4>1
      <4>3. n + 1 \in 2..Len(b.queue)
        BY <2>1, <4>2
      <4> QED BY <3>2, <4>1, <4>2, <4>3
    <3> QED BY <3>1, <3>2
  <2>11. QueuesInv'
    <3>1. \A i \in 1..Len(binds) : \A n \in 1..Len(binds'[i].queue) :
            \E m \in 1..Len(binds[i].queue) : binds'[i].queue[n] = binds[i].queue[m] /\ binds[i].queue[m] # h
      <4> TAKE i \in 1..Len(binds)
      <4> TAKE n \in 1..Len(binds'[i].queue)
      <4>1. conns[h].listener = l
        BY <1>1, <2>5 DEF LoopInv, QueuesInv
      <4>2. CASE i # l /\ n \in 1..Len(binds[i].queue) /\ binds'[i].queue[n] = binds[i].queue[n]
        BY <4>1, <4>2 DEF LoopInv, QueuesInv
      <4>3. CASE i = l /\ n + 1 \in 2..Len(b.queue) /\ binds'[i].queue[n] = b.queue[n + 1]
        <5>1. n + 1 # 1 /\ n + 1 \in 1..Len(b.queue)
          BY <4>3
        <5>2. b.queue[n + 1] # h
          BY <1>1, <2>5, <5>1 DEF LoopInv, QueuesInv
        <5> QED BY <4>3, <5>1, <5>2
      <4> QED BY <2>10, <4>2, <4>3
    <3>2. \A i \in 1..Len(binds) : \A n \in 1..Len(binds'[i].queue) :
             /\ binds'[i].queue[n] \in 1..Len(conns)
             /\ conns'[binds'[i].queue[n]].listener = i /\ conns'[binds'[i].queue[n]].place = "queued"
      <4> TAKE i \in 1..Len(binds)
      <4> TAKE n \in 1..Len(binds'[i].queue)
      <4>1. PICK m \in 1..Len(binds[i].queue) : binds'[i].queue[n] = binds[i].queue[m] /\ binds[i].queue[m] # h
        BY <3>1
      <4>2. /\ binds[i].queue[m] \in 1..Len(conns)
            /\ conns[binds[i].queue[m]].listener = i /\ conns[binds[i].queue[m]].place = "queued"
        BY DEF LoopInv, QueuesInv
      <4> QED BY <2>7, <4>1, <4>2
    <3>3. \A i \in 1..Len(binds) : \A m, n \in 1..Len(binds'[i].queue) :
            binds'[i].queue[m] = binds'[i].queue[n] => m = n
      <4> TAKE i \in 1..Len(binds)
      <4> TAKE m, n \in 1..Len(binds'[i].queue)
      <4>0. \A x, y \in 1..Len(binds[i].queue) : binds[i].queue[x] = binds[i].queue[y] => x = y
        BY DEF LoopInv, QueuesInv
      <4>1. CASE i # l
        BY <2>9, <4>0, <4>1
      <4>2. CASE i = l
        <5>1. /\ m + 1 \in 1..Len(b.queue) /\ binds'[i].queue[m] = b.queue[m + 1]
              /\ n + 1 \in 1..Len(b.queue) /\ binds'[i].queue[n] = b.queue[n + 1]
          BY <2>10, <4>2
        <5>2. binds'[i].queue[m] = binds'[i].queue[n] => m + 1 = n + 1
          BY <4>0, <4>2, <5>1
        <5> QED BY <5>2
      <4> QED BY <4>1, <4>2
    <3>4. \A i \in 1..Len(binds) : binds'[i].closed => Len(binds'[i].queue) = 0
      <4> TAKE i \in 1..Len(binds)
      <4>1. CASE i = l
        BY <1>1, <2>3, <2>9, <4>1
      <4>2. CASE i # l
        <5>1. binds[i].closed => Len(binds[i].queue) = 0
          BY DEF LoopInv, QueuesInv
        <5> QED BY <2>9, <4>2, <5>1
      <4> QED BY <4>1, <4>2
    <3>5. \A d \in 1..Len(conns) : conns'[d].place = "queued" =>
            \E i \in 1..Len(binds) : \E n \in 1..Len(binds'[i].queue) : binds'[i].queue[n] = d
      <4> SUFFICES ASSUME NEW d \in 1..Len(conns), conns'[d].place = "queued"
                   PROVE  \E i \in 1..Len(binds) : \E n \in 1..Len(binds'[i].queue) : binds'[i].queue[n] = d
        OBVIOUS
      <4>1. d # h /\ conns[d].place = "queued"
        BY <2>6, <2>7 DEF k1
      <4>2. PICK i \in 1..Len(binds) : \E n \in 1..Len(binds[i].queue) : binds[i].queue[n] = d
        BY <4>1 DEF LoopInv, QueuesInv
      <4>3. PICK n \in 1..Len(binds[i].queue) : binds[i].queue[n] = d
        BY <4>2
      <4>4. CASE i # l
        BY <2>9, <4>3, <4>4
      <4>5. CASE i = l
        <5>1. n # 1 /\ n - 1 \in 1..Len(Tail(b.queue)) /\ Tail(b.queue)[n - 1] = b.queue[n]
          BY <2>1, <4>1, <4>3, <4>5
        <5>2. binds'[i].queue = Tail(b.queue)
          BY <2>3, <2>9, <4>5
        <5> QED BY <4>3, <4>5, <5>1, <5>2
      <4> QED BY <4>4, <4>5
    <3> QED BY <2>7, <2>9, <3>2, <3>3, <3>4, <3>5 DEF QueuesInv
  <2> QED BY <2>4, <2>8, <2>11 DEF LoopInv
<1> QED BY <1>2, <1>3

LEMMA LoopStep ==
  ASSUME LoopInv, [Loop!Next]_loopback
  PROVE  LoopInv'
<1>1. ASSUME NEW kind \in Loop!Kind, Loop!BindEphemeral(kind) PROVE LoopInv'
  <2>1. PICK p \in Loop!Ephemeral : Loop!Allocated(kind, p) /\ Loop!Register(kind, p)
    BY <1>1 DEF Loop!BindEphemeral
  <2>2. p \in Loop!Port
    BY NetwayAssumption DEF Loop!Ephemeral, Loop!Port
  <2> QED BY <2>1, <2>2, RegisterKeeps DEF Loop!Allocated
<1>2. ASSUME NEW kind \in Loop!Kind, NEW p \in Loop!Port, Loop!Bind(kind, p) PROVE LoopInv'
  BY <1>2, RegisterKeeps DEF Loop!Bind
<1>3. ASSUME NEW i \in DOMAIN binds, Loop!CloseBind(i) \/ Loop!Accept(i) PROVE LoopInv'
  BY <1>3, CloseBindKeeps, AcceptKeeps
<1>4. ASSUME NEW c \in DOMAIN conns, NEW s \in Loop!Side,
             Loop!Write(c, s) \/ Loop!Read(c, s) \/ Loop!CloseSocket(c, s)
      PROVE  LoopInv'
  BY <1>4, SocketsStep
<1>5. CASE UNCHANGED loopback
  BY <1>5 DEF loopback, LoopInv, TablesInv, QueuesInv, SocketsInv, Loop!TablesExact
<1> QED BY <1>1, <1>2, <1>3, <1>4, <1>5, CloseBackendKeeps, ConnectKeeps DEF Loop!Next

LEMMA LoopIsSafe == LoopInv => LoopbackExact /\ Loop!InOrder
<1> SUFFICES ASSUME LoopInv PROVE LoopbackExact /\ Loop!InOrder
  OBVIOUS
<1>1. /\ binds \in Seq(Binding) /\ conns \in Seq(SocketPair)
      /\ DOMAIN binds = 1..Len(binds) /\ DOMAIN conns = 1..Len(conns)
      /\ \A i \in 1..Len(binds) : binds[i].queue \in Seq(Nat)
      /\ \A c \in 1..Len(conns) : conns[c] \in SocketPair
  <2>1. binds \in Seq(Binding) /\ conns \in Seq(SocketPair)
    BY DEF LoopInv, TablesInv, QueuesInv
  <2>2. \A i \in 1..Len(binds) : binds[i] \in Binding
    BY <2>1
  <2> QED BY <2>1, <2>2, BindingFields
<1>2. Loop!QueuesExact
  <2>1. \A i \in 1..Len(binds) : \A c : Loop!Contains(binds[i].queue, c) <=>
          \E n \in 1..Len(binds[i].queue) : binds[i].queue[n] = c
    <3> TAKE i \in 1..Len(binds)
    <3> TAKE c
    <3> DEFINE q == binds[i].queue
    <3>1. q \in Seq(Nat)
      BY <1>1
    <3> HIDE DEF q
    <3>2. Loop!Contains(q, c) <=> \E n \in 1..Len(q) : q[n] = c
      BY <3>1 DEF Loop!Contains
    <3> QED BY <3>2 DEF q
  <2>2. ASSUME NEW c \in 1..Len(conns)
        PROVE  conns[c].place = "queued" <=>
                 \E i \in 1..Len(binds) : \E n \in 1..Len(binds[i].queue) : binds[i].queue[n] = c
    BY DEF LoopInv, QueuesInv
  <2>3. ASSUME NEW c \in 1..Len(conns)
        PROVE  conns[c].place = "queued" <=> \E i \in 1..Len(binds) : Loop!Contains(binds[i].queue, c)
    BY <2>1, <2>2
  <2> QED BY <1>1, <2>3 DEF Loop!QueuesExact
<1>3. Loop!NoDanglingReader
  BY <1>1 DEF LoopInv, SocketsInv, SideOK, Flow, Loop!NoDanglingReader
<1>4. Loop!InOrder
  <2> SUFFICES ASSUME NEW c \in 1..Len(conns), NEW s \in Loop!Side
               PROVE  /\ Len(conns[c].got[s]) =< conns[c].written[Loop!Other(s)]
                      /\ \A n \in DOMAIN conns[c].got[s] : conns[c].got[s][n] = n
    BY <1>1 DEF Loop!InOrder
  <2>1. SideOK(conns[c], s)
    BY DEF LoopInv, SocketsInv
  <2>2. /\ conns[c].got[s] \in Seq(Nat) /\ conns[c].inbound[s].queue \in Seq(Nat)
        /\ conns[c].written[Loop!Other(s)] \in Nat
    BY <1>1, Sides, PairFields
  <2>3. /\ \A n \in 1..Len(conns[c].got[s]) : conns[c].got[s][n] = n
        /\ Len(conns[c].got[s]) + Len(conns[c].inbound[s].queue) =< conns[c].written[Loop!Other(s)]
    BY <2>1 DEF SideOK, Flow
  <2>4. Len(conns[c].got[s]) \in Nat /\ Len(conns[c].inbound[s].queue) \in Nat
        /\ DOMAIN conns[c].got[s] = 1..Len(conns[c].got[s])
    BY <2>2
  <2> DEFINE g == conns[c].got[s]
             a == Len(conns[c].got[s])
             m == Len(conns[c].inbound[s].queue)
             w == conns[c].written[Loop!Other(s)]
  <2>5. a + m =< w /\ a \in Nat /\ m \in Nat /\ w \in Nat /\ DOMAIN g = 1..a /\ \A n \in 1..a : g[n] = n
    BY <2>2, <2>3, <2>4
  <2> HIDE DEF g, a, m, w
  <2>6. a =< w /\ \A n \in DOMAIN g : g[n] = n
    BY <2>5
  <2> QED BY <2>6 DEF g, a, w
<1> QED BY <1>2, <1>3, <1>4 DEF LoopInv, TablesInv, LoopbackExact

-----------------------------------------------------------------------------
(* All of it *)

NetwayInv == GatewayInv /\ LoopInv

LEMMA NetwayInitially == Init => NetwayInv
BY GatewayInitially, LoopInitially DEF Init, NetwayInv

LEMMA NetwayKeeps == NetwayInv /\ [Next]_vars => NetwayInv'
<1> SUFFICES ASSUME NetwayInv, [Next]_vars PROVE NetwayInv'
  OBVIOUS
<1>1. [Gateway!Next]_gateway /\ [Loop!Next]_loopback
  BY DEF Next, vars, gateway, loopback, relay, websocket, kernel
<1> QED BY <1>1, GatewayStep, LoopStep DEF NetwayInv

LEMMA NetwayHolds == Spec => []NetwayInv
BY NetwayInitially, NetwayKeeps, PTL DEF Spec

(* For any operations and any numbers of overlapping drain() calls and of   *)
(* inbound connections: success is told only where the gateway granted it   *)
(* in time, every stored socket has a successful call behind it, and the    *)
(* operations that were queued are replayed in the order of their enqueue() *)
(* calls, none of them twice.                                               *)
THEOREM GatewayAnswers == Spec => []GatewayAnswerDecides
<1>1. NetwayInv => GatewayAnswerDecides
  BY GatewayIsSafe DEF NetwayInv
<1> QED BY <1>1, NetwayHolds, PTL

(* For any numbers of ports, listeners, sockets and accept() calls: the     *)
(* tables of the loopback network hold what is open, a socket waits for its *)
(* server in the queue of its listener or nowhere, no reader is left        *)
(* waiting at a socket pair of which one end is closed, and what is read    *)
(* from a socket pair is what was written to it, in order, without gaps.    *)
THEOREM LoopbackTrue == Spec => [](LoopbackExact /\ Loop!InOrder)
<1>1. NetwayInv => LoopbackExact /\ Loop!InOrder
  BY LoopIsSafe DEF NetwayInv
<1> QED BY <1>1, NetwayHolds, PTL
=============================================================================
