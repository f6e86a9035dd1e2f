------------------------------ MODULE AppsProofs ------------------------------
(***************************************************************************)
(* Proofs about the scheduler, the remote calls, the migrations, the       *)
(* store, the payment channels and the votes of browsermesh-apps, for      *)
(* every value of the bounds: which tasks a step starts; what a caller is  *)
(* told and what the server's tables hold; what a completed plan has done; *)
(* what the pods store; how credits and votes add up.                      *)
(***************************************************************************)
EXTENDS MCApps, FiniteSetTheorems, SequenceTheorems, WellFoundedInduction, TLAPS

-----------------------------------------------------------------------------
(* Counting. *)

LEMMA LeastNat ==
  ASSUME NEW T \in SUBSET Nat, T # {}
  PROVE  \E x \in T : \A y \in T : x =< y
<1>1. \E x \in T : \A y \in T : ~ (<<y, x>> \in OpToRel(<, Nat))
  BY WFMin, NatLessThanWellFounded, Zenon
<1>2. PICK x \in T : \A y \in T : ~ (<<y, x>> \in OpToRel(<, Nat))
  BY <1>1
<1>3. ASSUME NEW y \in T PROVE x =< y
  <2>1. x \in Nat /\ y \in Nat
    OBVIOUS
  <2>2. ~ (y < x)
    BY <1>2, <2>1 DEF OpToRel
  <2> QED BY <2>1, <2>2
<1> QED BY <1>2, <1>3

(* A finite set of numbers has a greatest one: the one that the fewest      *)
(* exceed.                                                                  *)
LEMMA GreatestOf ==
  ASSUME NEW C \in SUBSET Nat, IsFiniteSet(C), C # {}
  PROVE  \E m \in C : \A t \in C : t =< m
<1> DEFINE Over(t) == {u \in C : u > t}
           D == {Cardinality(Over(t)) : t \in C}
<1>1. ASSUME NEW t \in C PROVE IsFiniteSet(Over(t)) /\ Cardinality(Over(t)) \in Nat
  BY FS_Subset, FS_CardinalityType
<1>2. D \subseteq Nat /\ D # {}
  BY <1>1
<1>3. PICK d \in D : \A e \in D : d =< e
  BY <1>2, LeastNat
<1>4. PICK m \in C : d = Cardinality(Over(m))
  OBVIOUS
<1>5. ASSUME NEW t \in C, t > m PROVE FALSE
  <2>1. Over(t) \in SUBSET Over(m) /\ t \in Over(m) /\ t \notin Over(t)
    <3>1. t \in Nat /\ m \in Nat /\ \A u \in C : u \in Nat
      OBVIOUS
    <3>2. \A u \in C : u > t => u > m
      BY <1>5, <3>1
    <3>3. Over(t) \in SUBSET Over(m)
      BY <3>2
    <3>4. t \in Over(m) /\ ~ (t > t)
      BY <1>5, <3>1
    <3> QED BY <3>3, <3>4
  <2>2. Cardinality(Over(t)) =< Cardinality(Over(m)) /\ Cardinality(Over(m)) # Cardinality(Over(t))
    <3> HIDE DEF Over
    <3> QED BY <1>1, <2>1, FS_Subset
  <2>3. d =< Cardinality(Over(t))
    BY <1>3
  <2> QED BY <1>1, <1>4, <2>2, <2>3
<1>6. \A t \in C : t \in Nat /\ m \in Nat
  OBVIOUS
<1> QED BY <1>5, <1>6

(* At most n elements of a set have fewer than n below them. *)
LEMMA FirstFew ==
  ASSUME NEW S \in SUBSET Nat, IsFiniteSet(S), NEW n \in Nat,
         NEW C, C = {t \in S : Cardinality({u \in S : u < t}) + 1 =< n}
  PROVE  IsFiniteSet(C) /\ Cardinality(C) =< n
<1>1. C \in SUBSET S /\ C \in SUBSET Nat /\ IsFiniteSet(C) /\ Cardinality(C) \in Nat
  <2>1. C \in SUBSET S
    OBVIOUS
  <2> QED BY <2>1, FS_Subset, FS_CardinalityType
<1>2. CASE C = {}
  <2>1. Cardinality(C) = 0
    BY <1>2, FS_EmptySet
  <2> QED BY <1>1, <2>1
<1>3. CASE C # {}
  <2>1. PICK m \in C : \A t \in C : t =< m
    BY <1>1, <1>3, GreatestOf
  <2> DEFINE L == {u \in S : u < m}
  <2>2. IsFiniteSet(L) /\ Cardinality(L) \in Nat /\ Cardinality(L) + 1 =< n
    <3>1. L \in SUBSET S
      OBVIOUS
    <3> QED BY <3>1, FS_Subset, FS_CardinalityType
  <2>3. C \ {m} \in SUBSET L
    BY <1>1, <2>1
  <2>4. Cardinality(C \ {m}) = Cardinality(C) - 1
    BY <1>1, FS_RemoveElement
  <2>5. Cardinality(C \ {m}) =< Cardinality(L)
    <3> HIDE DEF L
    <3> QED BY <2>2, <2>3, FS_Subset
  <2> HIDE DEF L
  <2> QED BY <1>1, <2>2, <2>4, <2>5
<1> QED BY <1>1, <1>2, <1>3

-----------------------------------------------------------------------------
(* The scheduler. *)
TaskStates == {"none", "queued", "assigned", "completed", "failed", "cancelled"}

(* Whatever reports came, the queue holds what is queued. *)
TasksInv ==
  /\ status \in [TaskSet -> TaskStates]
  /\ copies \in [TaskSet -> Nat]
  /\ \A t \in TaskSet : status[t] = "queued" => copies[t] > 0

LEMMA TasksStep == TasksInv /\ [Tasks!Next]_scheduler => TasksInv'
<1> SUFFICES ASSUME TasksInv, [Tasks!Next]_scheduler PROVE TasksInv'
  OBVIOUS
<1>1. ASSUME NEW t \in TaskSet, Tasks!Submit(t) PROVE TasksInv'
  BY <1>1 DEF Tasks!Submit, TasksInv, TaskStates
<1>2. ASSUME NEW t \in TaskSet, Tasks!Cancel(t) PROVE TasksInv'
  BY <1>2 DEF Tasks!Cancel, Tasks!Without, TasksInv, TaskStates
<1>3. ASSUME NEW t \in TaskSet, Tasks!Complete(t) PROVE TasksInv'
  BY <1>3 DEF Tasks!Complete, Tasks!Without, TasksInv, TaskStates
<1>4. ASSUME NEW t \in TaskSet, Tasks!Fail(t) PROVE TasksInv'
  BY <1>4 DEF Tasks!Fail, TasksInv, TaskStates
<1>5. CASE Tasks!Schedule
  <2>1. /\ status' = [t \in TaskSet |-> IF t \in Tasks!Chosen THEN "assigned" ELSE status[t]]
        /\ copies' = [t \in TaskSet |-> IF t \notin Tasks!Chosen THEN copies[t]
                                        ELSE IF Tasks!Place(t) = Tasks!Room THEN copies[t] - 1 ELSE 0]
    BY <1>5 DEF Tasks!Schedule
  <2>2. \A t \in Tasks!Chosen : copies[t] > 0
    BY DEF Tasks!Chosen, Tasks!Waiting
  <2> QED BY <2>1, <2>2 DEF TasksInv, TaskStates
<1>6. CASE Tasks!Restore
  BY <1>6 DEF Tasks!Restore, TasksInv, TaskStates
<1>7. CASE (\E n \in NodeSet : Tasks!RegisterNode(n) \/ Tasks!UnregisterNode(n)) \/ UNCHANGED scheduler
  BY <1>7 DEF Tasks!RegisterNode, Tasks!UnregisterNode, Tasks!task, scheduler, TasksInv
<1> QED BY <1>1, <1>2, <1>3, <1>4, <1>5, <1>6, <1>7 DEF Tasks!Next

(* Only schedule() starts tasks. *)
LEMMA OnlyScheduleStarts ==
  ASSUME TasksInv, [Tasks!Next]_scheduler, ~ Tasks!Schedule, NEW t \in TaskSet, status[t] = "queued"
  PROVE  status'[t] # "assigned"
BY DEF TasksInv, Tasks!Next, scheduler, Tasks!Submit, Tasks!Cancel, Tasks!Complete, Tasks!Fail,
       Tasks!RegisterNode, Tasks!UnregisterNode, Tasks!task, Tasks!Restore

LEMMA TasksCardinality == \A S : Tasks!Cardinality(S) = Cardinality(S)
BY DEF Tasks!Cardinality, Cardinality

LEMMA ScheduleWithin ==
  ASSUME TasksInv, Tasks!Schedule
  PROVE  Tasks!WithinLimits
<1> DEFINE W == Tasks!Waiting
           C == Tasks!Chosen
           R == Tasks!Running
<1>1. /\ W \in SUBSET Nat /\ W \in SUBSET TaskSet /\ IsFiniteSet(W)
      /\ R \in SUBSET TaskSet /\ IsFiniteSet(R) /\ Cardinality(R) \in Nat /\ MaxTasks \in Nat
  <2>1. W \in SUBSET TaskSet /\ R \in SUBSET TaskSet
    BY DEF Tasks!Waiting, Tasks!Running
  <2> HIDE DEF W, R
  <2> QED BY <2>1, TasksAssumption, FS_Subset, FS_CardinalityType
<1>2. /\ Tasks!Room = IF Cardinality(R) >= MaxTasks THEN 0 ELSE MaxTasks - Cardinality(R)
      /\ Tasks!Room \in Nat
  <2>1. Tasks!Room = IF Cardinality(R) >= MaxTasks THEN 0 ELSE MaxTasks - Cardinality(R)
    BY TasksCardinality, Zenon DEF Tasks!Room
  <2> QED BY <1>1, <2>1
<1>3. C = {t \in W : Cardinality({u \in W : u < t}) + 1 =< Tasks!Room}
  BY TasksCardinality DEF Tasks!Chosen, Tasks!Place, Tasks!Before
<1> HIDE DEF W, C, R
<1>4. IsFiniteSet(C) /\ Cardinality(C) =< Tasks!Room
  BY <1>1, <1>2, <1>3, FirstFew
<1>5. C \in SUBSET W /\ C # {} /\ Cardinality(C) \in Nat /\ Cardinality(C) # 0
  <2>1. C # {}
    BY DEF Tasks!Schedule, C
  <2> QED BY <1>3, <1>4, <2>1, FS_CardinalityType, FS_EmptySet
<1>6. Cardinality(R \cup C) =< MaxTasks
  <2>1. IsFiniteSet(R \cap C) /\ Cardinality(R \cap C) \in Nat
    BY <1>1, FS_Intersection, FS_CardinalityType
  <2>2. Cardinality(R \cup C) = Cardinality(R) + Cardinality(C) - Cardinality(R \cap C)
    BY <1>1, <1>4, FS_Union
  <2> QED BY <1>1, <1>2, <1>4, <1>5, <2>1, <2>2
<1>7. status' = [t \in TaskSet |-> IF t \in C THEN "assigned" ELSE status[t]]
  BY DEF Tasks!Schedule, C
<1>8. {t \in TaskSet : status'[t] = "assigned"} = R \cup C
  BY <1>1, <1>5, <1>7 DEF R, Tasks!Running
<1>9. ASSUME NEW t \in TaskSet, status[t] = "queued", status'[t] = "assigned",
             NEW u \in TaskSet, u < t, status'[u] = "queued"
      PROVE  FitsOf[u] \cap nodes = {}
  <2>1. t \in C
    BY <1>7, <1>9
  <2>2. u \notin C /\ status[u] = "queued"
    BY <1>7, <1>9
  <2>3. CASE u \in W
    <3> DEFINE Lu == {v \in W : v < u}
               Lt == {v \in W : v < t}
    <3>1. Lu \in SUBSET Lt /\ Lt \in SUBSET W
      <4>1. u \in Nat /\ t \in Nat /\ \A v \in W : v \in Nat
        BY <1>1, <1>5, <2>1, <2>3
      <4>2. \A v \in W : v < u => v < t
        BY <1>9, <4>1
      <4> QED BY <4>2
    <3>2. Cardinality(Lu) \in Nat /\ Cardinality(Lt) \in Nat /\ Cardinality(Lu) =< Cardinality(Lt)
      <4> HIDE DEF Lu, Lt
      <4>1. IsFiniteSet(Lt)
        BY <1>1, <3>1, FS_Subset
      <4> QED BY <3>1, <4>1, FS_Subset, FS_CardinalityType
    <3>3. Cardinality(Lt) + 1 =< Tasks!Room
      BY <1>3, <2>1
    <3>4. ~ (Cardinality(Lu) + 1 =< Tasks!Room)
      BY <1>3, <2>2, <2>3
    <3> HIDE DEF Lu, Lt
    <3> QED BY <1>2, <3>2, <3>3, <3>4
  <2>4. CASE u \notin W
    BY <2>2, <2>4 DEF W, Tasks!Waiting, TasksInv
  <2> QED BY <2>3, <2>4
<1> QED BY <1>6, <1>8, <1>9, TasksCardinality DEF Tasks!WithinLimits, Tasks!Before

(* schedule() takes no more tasks than there is room for, and none that     *)
(* another one that could run comes before, for any tasks, nodes, reports   *)
(* and restarts.                                                            *)
THEOREM LimitsHold == Spec => TasksWithinLimits
<1>1. Init => TasksInv
  BY DEF Init, Tasks!Init, TasksInv, TaskStates
<1>2. [Next]_vars => [Tasks!Next]_scheduler
  BY DEF Next, vars, scheduler, payments, migration, kv, rpc, votes
<1>3. TasksInv /\ [Next]_vars => TasksInv'
  BY <1>2, TasksStep
<1>4. TasksInv /\ [Next]_vars => [run = "tasks" => Tasks!WithinLimits]_vars
  <2> SUFFICES ASSUME TasksInv, [Next]_vars PROVE Tasks!WithinLimits
    OBVIOUS
  <2>1. CASE Tasks!Schedule
    BY <2>1, ScheduleWithin
  <2>2. CASE ~ Tasks!Schedule
    <3>1. \A t \in TaskSet : ~ (status[t] = "queued" /\ status'[t] = "assigned")
      BY <1>2, <2>2, OnlyScheduleStarts
    <3> QED BY <3>1 DEF Tasks!WithinLimits
  <2> QED BY <2>1, <2>2
<1> QED BY <1>1, <1>3, <1>4, PTL DEF Spec, TasksWithinLimits

-----------------------------------------------------------------------------
(* The remote calls. *)
CallStates == {"none", "unsent", "sent", "answered", "refused", "failed"}
HandlerStates == {"none", "running", "aborted", "ended"}
Envelope == [kind : {"rpc-request", "rpc-cancel"}, id : CallSet]
Response == [id : CallSet, status : {"answered", "refused"}]

RpcTypeOK ==
  /\ call \in [CallSet -> CallStates]
  /\ handler \in [CallSet -> HandlerStates]
  /\ served \subseteq CallSet
  /\ counts \in [CallerSet -> Nat]
  /\ toServer \in [CallerSet -> Seq(Envelope)]
  /\ toCaller \in [CallerSet -> Seq(Response)]

(* The requests that handlers work on, by caller, for given handlers. *)
Working(h) == {i \in CallSet : h[i] \in {"running", "aborted"}}
Of(S, k) == {i \in S : i[1] = k}

CountsHold(h, n) ==
  /\ Cardinality(Working(h)) =< MaxIncoming
  /\ \A k \in CallerSet : n[k] = Cardinality(Of(Working(h), k)) /\ n[k] =< MaxIncomingPerPeer

(* An answer under way is that of a handler that ran. *)
AnswersServed(t, s) ==
  \A k \in CallerSet : \A n \in 1..Len(t[k]) : t[k][n].status = "answered" => t[k][n].id \in s

RpcInv ==
  /\ RpcTypeOK
  /\ CountsHold(handler, counts)
  /\ AnswersServed(toCaller, served)
  /\ \A i \in CallSet : call[i] = "answered" => i \in served

LEMMA CallSetFacts ==
  /\ IsFiniteSet(CallSet)
  /\ \A i \in CallSet : i[1] \in CallerSet
<1>1. IsFiniteSet({1, 2})
  <2>1. IsFiniteSet({1})
    BY FS_Singleton
  <2>2. IsFiniteSet({1} \cup {2})
    BY <2>1, FS_AddElement
  <2>3. {1, 2} = {1} \cup {2}
    OBVIOUS
  <2> QED BY <2>2, <2>3
<1>2. IsFiniteSet(CallerSet \X {1, 2})
  BY <1>1, FS_Product, CallersAssumption
<1>3. CallSet \in SUBSET (CallerSet \X {1, 2})
  BY DEF CallSet
<1> QED BY <1>2, <1>3, FS_Subset

LEMMA RpcCardinality == \A S : Rpc!Cardinality(S) = Cardinality(S)
BY DEF Rpc!Cardinality, Cardinality

LEMMA WorkingFinite ==
  ASSUME NEW h \in [CallSet -> HandlerStates]
  PROVE  /\ IsFiniteSet(Working(h)) /\ Cardinality(Working(h)) \in Nat
         /\ \A k : IsFiniteSet(Of(Working(h), k)) /\ Cardinality(Of(Working(h), k)) \in Nat
<1>1. Working(h) \in SUBSET CallSet
  BY DEF Working
<1>2. \A k : Of(Working(h), k) \in SUBSET CallSet
  BY <1>1 DEF Of
<1> QED BY <1>1, <1>2, CallSetFacts, FS_Subset, FS_CardinalityType

(* A handler starts, ends, or goes on otherwise. *)
LEMMA HandlerStarts ==
  ASSUME NEW h \in [CallSet -> HandlerStates], NEW n \in [CallerSet -> Nat], CountsHold(h, n),
         NEW i \in CallSet, i \notin Working(h),
         Cardinality(Working(h)) < MaxIncoming, n[i[1]] < MaxIncomingPerPeer
  PROVE  CountsHold([h EXCEPT ![i] = "running"], [n EXCEPT ![i[1]] = @ + 1])
<1> DEFINE g == [h EXCEPT ![i] = "running"]
           m == [n EXCEPT ![i[1]] = @ + 1]
           k == i[1]
<1>1. Working(g) = Working(h) \cup {i} /\ k \in CallerSet
  BY CallSetFacts DEF Working, HandlerStates
<1>2. Of(Working(g), k) = Of(Working(h), k) \cup {i} /\ i \notin Of(Working(h), k)
  BY <1>1 DEF Of
<1>3. \A l \in CallerSet : l # k => Of(Working(g), l) = Of(Working(h), l)
  BY <1>1 DEF Of
<1>4. m[k] = n[k] + 1 /\ \A l \in CallerSet : l # k => m[l] = n[l]
  BY <1>1
<1> HIDE DEF g, m, k
<1>5. Cardinality(Working(g)) = Cardinality(Working(h)) + 1
  BY <1>1, WorkingFinite, FS_AddElement
<1>6. Cardinality(Of(Working(g), k)) = Cardinality(Of(Working(h), k)) + 1
  BY <1>2, WorkingFinite, FS_AddElement
<1>7. Cardinality(Working(g)) =< MaxIncoming
  BY <1>5, WorkingFinite, CallersAssumption
<1>8. ASSUME NEW l \in CallerSet
      PROVE  m[l] = Cardinality(Of(Working(g), l)) /\ m[l] =< MaxIncomingPerPeer
  <2>1. n[l] = Cardinality(Of(Working(h), l)) /\ n[l] =< MaxIncomingPerPeer
    BY DEF CountsHold
  <2>2. CASE l = k
    <3>1. n[k] < MaxIncomingPerPeer /\ n[k] \in Nat
      BY <1>1 DEF k
    <3> QED BY <1>4, <1>6, <2>1, <2>2, <3>1, CallersAssumption
  <2>3. CASE l # k
    BY <1>3, <1>4, <2>1, <2>3
  <2> QED BY <2>2, <2>3
<1>9. CountsHold(g, m)
  BY <1>7, <1>8 DEF CountsHold
<1> QED BY <1>9 DEF g, m

LEMMA HandlerStops ==
  ASSUME NEW h \in [CallSet -> HandlerStates], NEW n \in [CallerSet -> Nat], CountsHold(h, n),
         NEW i \in CallSet, i \in Working(h)
  PROVE  /\ CountsHold([h EXCEPT ![i] = "ended"], [n EXCEPT ![i[1]] = @ - 1])
         /\ n[i[1]] - 1 \in Nat
<1> DEFINE g == [h EXCEPT ![i] = "ended"]
           m == [n EXCEPT ![i[1]] = @ - 1]
           k == i[1]
<1>1. Working(g) = Working(h) \ {i} /\ k \in CallerSet
  BY CallSetFacts DEF Working, HandlerStates
<1>2. Of(Working(g), k) = Of(Working(h), k) \ {i} /\ i \in Of(Working(h), k)
  BY <1>1 DEF Of
<1>3. \A l \in CallerSet : l # k => Of(Working(g), l) = Of(Working(h), l)
  BY <1>1 DEF Of
<1>4. m[k] = n[k] - 1 /\ \A l \in CallerSet : l # k => m[l] = n[l]
  BY <1>1
<1>0. n[k] \in Nat /\ \A l \in CallerSet : n[l] \in Nat
  BY <1>1
<1> HIDE DEF g, m, k
<1>5. Cardinality(Working(g)) = Cardinality(Working(h)) - 1
  BY <1>1, WorkingFinite, FS_RemoveElement
<1>6. Cardinality(Of(Working(g), k)) = Cardinality(Of(Working(h), k)) - 1
  <2>1. IsFiniteSet(Of(Working(h), k))
    BY WorkingFinite
  <2>2. \A S, j : IsFiniteSet(S) /\ j \in S => Cardinality(S \ {j}) = Cardinality(S) - 1
    BY FS_RemoveElement
  <2> QED BY <1>2, <2>1, <2>2
<1>7. Cardinality(Working(h)) =< MaxIncoming
  BY DEF CountsHold
<1>8. Cardinality(Working(g)) =< MaxIncoming
  BY <1>5, <1>7, WorkingFinite, CallersAssumption
<1>9. ASSUME NEW l \in CallerSet
      PROVE  m[l] = Cardinality(Of(Working(g), l)) /\ m[l] =< MaxIncomingPerPeer
  <2>1. n[l] = Cardinality(Of(Working(h), l)) /\ n[l] =< MaxIncomingPerPeer
    BY DEF CountsHold
  <2>2. CASE l = k
    BY <1>0, <1>4, <1>6, <2>1, <2>2, CallersAssumption
  <2>3. CASE l # k
    BY <1>3, <1>4, <2>1, <2>3
  <2> QED BY <2>2, <2>3
<1>10. n[k] - 1 \in Nat
  <2>1. n[k] = Cardinality(Of(Working(h), k)) /\ Cardinality(Of(Working(h), k)) # 0
    BY <1>1, <1>2, WorkingFinite, FS_EmptySet DEF CountsHold
  <2> QED BY <1>0, <2>1
<1>11. CountsHold(g, m)
  BY <1>8, <1>9 DEF CountsHold
<1> QED BY <1>10, <1>11 DEF g, m, k

LEMMA HandlersSame ==
  ASSUME NEW h, NEW g, NEW n, CountsHold(h, n),
         \A i \in CallSet : g[i] \in {"running", "aborted"} <=> h[i] \in {"running", "aborted"}
  PROVE  CountsHold(g, n)
<1>1. Working(g) = Working(h)
  BY DEF Working
<1> QED BY <1>1 DEF CountsHold

(* Responses under way. *)
LEMMA ResponseGoes ==
  ASSUME NEW t \in [CallerSet -> Seq(Response)], NEW s, NEW z, s \subseteq z, AnswersServed(t, s),
         NEW k \in CallerSet, NEW r \in Response, r.status = "answered" => r.id \in z
  PROVE  /\ [t EXCEPT ![k] = Append(@, r)] \in [CallerSet -> Seq(Response)]
         /\ AnswersServed([t EXCEPT ![k] = Append(@, r)], z)
<1> DEFINE u == Append(t[k], r)
<1>1. /\ t[k] \in Seq(Response) /\ u \in Seq(Response) /\ Len(u) = Len(t[k]) + 1 /\ u[Len(t[k]) + 1] = r
      /\ \A n \in 1..Len(t[k]) : u[n] = t[k][n]
  BY AppendProperties
<1>2. Len(t[k]) \in Nat
  BY <1>1
<1>3. \A n \in 1..Len(u) : u[n].status = "answered" => u[n].id \in z
  BY <1>1, <1>2 DEF AnswersServed
<1> HIDE DEF u
<1>4. [t EXCEPT ![k] = u] \in [CallerSet -> Seq(Response)]
  BY <1>1
<1>5. AnswersServed([t EXCEPT ![k] = u], z)
  BY <1>3 DEF AnswersServed
<1> QED BY <1>4, <1>5 DEF u

LEMMA ResponseArrives ==
  ASSUME NEW t \in [CallerSet -> Seq(Response)], NEW s, AnswersServed(t, s),
         NEW k \in CallerSet, t[k] # <<>>
  PROVE  /\ [t EXCEPT ![k] = Tail(@)] \in [CallerSet -> Seq(Response)]
         /\ AnswersServed([t EXCEPT ![k] = Tail(@)], s)
         /\ Head(t[k]) \in Response /\ (Head(t[k]).status = "answered" => Head(t[k]).id \in s)
<1> DEFINE u == Tail(t[k])
<1>1. t[k] \in Seq(Response) /\ Len(t[k]) \in Nat /\ Len(t[k]) > 0
  BY EmptySeq
<1>2. /\ u \in Seq(Response) /\ Len(u) = Len(t[k]) - 1
      /\ \A n \in 1..Len(u) : u[n] = t[k][n + 1]
      /\ Head(t[k]) \in Response /\ Head(t[k]) = t[k][1]
  BY <1>1, HeadTailProperties
<1>3. \A n \in 1..Len(u) : u[n].status = "answered" => u[n].id \in s
  BY <1>1, <1>2 DEF AnswersServed
<1>4. Head(t[k]).status = "answered" => Head(t[k]).id \in s
  BY <1>1, <1>2 DEF AnswersServed
<1> HIDE DEF u
<1>5. [t EXCEPT ![k] = u] \in [CallerSet -> Seq(Response)]
  BY <1>2
<1>6. AnswersServed([t EXCEPT ![k] = u], s)
  BY <1>3 DEF AnswersServed
<1> QED BY <1>2, <1>4, <1>5, <1>6 DEF u

LEMMA EnvelopeArrives ==
  ASSUME NEW t \in [CallerSet -> Seq(Envelope)], NEW k \in CallerSet, t[k] # <<>>
  PROVE  [t EXCEPT ![k] = Tail(@)] \in [CallerSet -> Seq(Envelope)] /\ Head(t[k]) \in Envelope
BY HeadTailProperties, EmptySeq

LEMMA EnvelopeGoes ==
  ASSUME NEW t \in [CallerSet -> Seq(Envelope)], NEW k \in CallerSet, NEW e \in Envelope
  PROVE  [t EXCEPT ![k] = Append(@, e)] \in [CallerSet -> Seq(Envelope)]
BY AppendProperties

LEMMA RpcStep == RpcInv /\ [Rpc!Next]_rpc => RpcInv' /\ Rpc!SettledOnce
<1> SUFFICES ASSUME RpcInv, [Rpc!Next]_rpc PROVE RpcInv' /\ Rpc!SettledOnce
  OBVIOUS
<1>0. /\ RpcTypeOK /\ CountsHold(handler, counts) /\ AnswersServed(toCaller, served)
      /\ \A i \in CallSet : call[i] = "answered" => i \in served
  BY DEF RpcInv
<1>1. ASSUME NEW i \in CallSet, Rpc!Request(i) PROVE RpcInv' /\ Rpc!SettledOnce
  <2>1. /\ call' = [call EXCEPT ![i] = "unsent"] /\ call[i] = "none"
        /\ UNCHANGED <<counts, handler, served, toServer, toCaller>>
    BY <1>1 DEF Rpc!Request
  <2>2. RpcTypeOK'
    BY <1>0, <2>1 DEF RpcTypeOK, CallStates
  <2>3. \A j \in CallSet : call'[j] = "answered" => j \in served'
    BY <1>0, <2>1 DEF RpcTypeOK
  <2>4. Rpc!SettledOnce
    BY <1>0, <2>1 DEF RpcTypeOK, Rpc!SettledOnce, Rpc!Outcomes
  <2> QED BY <1>0, <2>1, <2>2, <2>3, <2>4 DEF RpcInv
<1>2. ASSUME NEW i \in CallSet, Rpc!SendRequest(i) \/ Rpc!Cancel(i) PROVE RpcInv' /\ Rpc!SettledOnce
  <2>1. /\ call[i] \in {"unsent", "sent"} /\ UNCHANGED <<counts, handler, served, toCaller>>
        /\ \E to \in {"sent", "failed"} : call' = [call EXCEPT ![i] = to]
        /\ \/ toServer' = toServer
           \/ \E e \in Envelope : toServer' = [toServer EXCEPT ![i[1]] = Append(@, e)]
    BY <1>2 DEF Rpc!SendRequest, Rpc!Cancel, Rpc!Pending, Envelope
  <2>2. PICK to \in {"sent", "failed"} : call' = [call EXCEPT ![i] = to]
    BY <2>1
  <2>3. toServer' \in [CallerSet -> Seq(Envelope)]
    <3>1. CASE toServer' = toServer
      BY <1>0, <3>1 DEF RpcTypeOK
    <3>2. ASSUME NEW e \in Envelope, toServer' = [toServer EXCEPT ![i[1]] = Append(@, e)]
          PROVE  toServer' \in [CallerSet -> Seq(Envelope)]
      <4>1. toServer \in [CallerSet -> Seq(Envelope)] /\ i[1] \in CallerSet
        BY <1>0, CallSetFacts DEF RpcTypeOK
      <4> QED BY <3>2, <4>1, EnvelopeGoes
    <3> QED BY <2>1, <3>1, <3>2
  <2>4. RpcTypeOK'
    BY <1>0, <2>1, <2>2, <2>3 DEF RpcTypeOK, CallStates
  <2>5. \A j \in CallSet : call'[j] = "answered" => j \in served'
    BY <1>0, <2>1, <2>2 DEF RpcTypeOK
  <2>6. Rpc!SettledOnce
    BY <1>0, <2>1, <2>2 DEF RpcTypeOK, Rpc!SettledOnce, Rpc!Outcomes
  <2> QED BY <1>0, <2>1, <2>4, <2>5, <2>6 DEF RpcInv
<1>3. ASSUME NEW k \in CallerSet, Rpc!ReceiveResponse(k) PROVE RpcInv' /\ Rpc!SettledOnce
  <2> DEFINE m == Head(toCaller[k])
  <2>1. /\ toCaller[k] # <<>> /\ toCaller' = [toCaller EXCEPT ![k] = Tail(@)]
        /\ UNCHANGED <<counts, handler, served, toServer>>
        /\ \/ call' = call
           \/ Rpc!Pending(m.id) /\ call' = [call EXCEPT ![m.id] = m.status]
    BY <1>3 DEF Rpc!ReceiveResponse
  <2>2. /\ toCaller' \in [CallerSet -> Seq(Response)] /\ AnswersServed(toCaller', served')
        /\ m \in Response /\ (m.status = "answered" => m.id \in served)
    BY <1>0, <2>1, ResponseArrives DEF RpcTypeOK
  <2>3. m.id \in CallSet /\ m.status \in {"answered", "refused"}
    BY <2>2 DEF Response
  <2>4. PICK i \in CallSet, to \in {"answered", "refused"} : i = m.id /\ to = m.status
    BY <2>3
  <2> HIDE DEF m
  <2>5. \/ call' = call
        \/ call[i] \in {"unsent", "sent"} /\ call' = [call EXCEPT ![i] = to]
    BY <2>1, <2>4 DEF Rpc!Pending
  <2>6. to = "answered" => i \in served
    BY <2>2, <2>4
  <2>7. RpcTypeOK'
    BY <1>0, <2>1, <2>2, <2>5 DEF RpcTypeOK, CallStates
  <2>8. \A j \in CallSet : call'[j] = "answered" => j \in served'
    BY <1>0, <2>1, <2>5, <2>6 DEF RpcTypeOK
  <2>9. Rpc!SettledOnce
    BY <1>0, <2>1, <2>5 DEF RpcTypeOK, Rpc!SettledOnce, Rpc!Outcomes
  <2> QED BY <1>0, <2>1, <2>2, <2>7, <2>8, <2>9 DEF RpcInv
<1>4. ASSUME NEW k \in CallerSet, Rpc!ReceiveAtServer(k) PROVE RpcInv' /\ Rpc!SettledOnce
  <2> DEFINE m == Head(toServer[k])
  <2>1. /\ toServer[k] # <<>> /\ toServer' = [toServer EXCEPT ![k] = Tail(@)] /\ UNCHANGED <<call, served>>
        /\ \/ UNCHANGED <<handler, counts, toCaller>>
           \/ Rpc!HandleRequest(m.id)
           \/ /\ handler' = IF handler[m.id] = "running" THEN [handler EXCEPT ![m.id] = "aborted"] ELSE handler
              /\ UNCHANGED <<counts, toCaller>>
    BY <1>4 DEF Rpc!ReceiveAtServer
  <2>2. toServer' \in [CallerSet -> Seq(Envelope)] /\ m \in Envelope
    BY <1>0, <2>1, EnvelopeArrives DEF RpcTypeOK
  <2>3. PICK i \in CallSet : i = m.id
    BY <2>2 DEF Envelope
  <2>4. /\ handler' \in [CallSet -> HandlerStates] /\ counts' \in [CallerSet -> Nat] /\ CountsHold(handler', counts')
        /\ toCaller' \in [CallerSet -> Seq(Response)] /\ AnswersServed(toCaller', served)
    <3>1. CASE UNCHANGED <<handler, counts, toCaller>>
      BY <1>0, <3>1 DEF RpcTypeOK
    <3>2. CASE Rpc!HandleRequest(i)
      <4>1. /\ handler \in [CallSet -> HandlerStates] /\ counts \in [CallerSet -> Nat]
            /\ toCaller \in [CallerSet -> Seq(Response)] /\ i[1] \in CallerSet /\ served \subseteq served
        BY <1>0, CallSetFacts DEF RpcTypeOK
      <4>2. CASE UNCHANGED <<handler, counts, toCaller>>
        BY <1>0, <4>1, <4>2
      <4>3. CASE Rpc!Respond(i, "refused") /\ UNCHANGED <<handler, counts>>
        <5>1. PICK r \in Response : r.status = "refused"
                /\ toCaller' = [toCaller EXCEPT ![i[1]] = Append(@, r)]
          BY <4>3 DEF Rpc!Respond, Response
        <5>2. r.status = "answered" => r.id \in served
          BY <5>1
        <5> QED BY <1>0, <4>1, <4>3, <5>1, <5>2, ResponseGoes
      <4>4. CASE /\ i \notin Rpc!Incoming
                 /\ Rpc!Cardinality(Rpc!Incoming) < MaxIncoming /\ counts[i[1]] < MaxIncomingPerPeer
                 /\ handler' = [handler EXCEPT ![i] = "running"]
                 /\ counts' = [counts EXCEPT ![i[1]] = @ + 1] /\ UNCHANGED toCaller
        <5>1. Rpc!Incoming = Working(handler)
          BY DEF Rpc!Incoming, Working
        <5>2. i \notin Working(handler) /\ Cardinality(Working(handler)) < MaxIncoming
          BY <4>4, <5>1, RpcCardinality
        <5>3. CountsHold(handler', counts')
          BY <1>0, <4>1, <4>4, <5>2, HandlerStarts
        <5>4. handler' \in [CallSet -> HandlerStates] /\ counts' \in [CallerSet -> Nat]
          BY <4>1, <4>4 DEF HandlerStates
        <5> QED BY <1>0, <4>1, <4>4, <5>3, <5>4
      <4> QED BY <3>2, <4>2, <4>3, <4>4 DEF Rpc!HandleRequest
    <3>3. CASE /\ handler' = IF handler[i] = "running" THEN [handler EXCEPT ![i] = "aborted"] ELSE handler
               /\ UNCHANGED <<counts, toCaller>>
      <4>1. /\ handler' \in [CallSet -> HandlerStates]
            /\ \A j \in CallSet : handler'[j] \in {"running", "aborted"} <=> handler[j] \in {"running", "aborted"}
        BY <1>0, <3>3 DEF RpcTypeOK, HandlerStates
      <4>2. CountsHold(handler', counts)
        BY <1>0, <4>1, HandlersSame
      <4> QED BY <1>0, <3>3, <4>1, <4>2 DEF RpcTypeOK
    <3> QED BY <2>1, <2>3, <3>1, <3>2, <3>3
  <2>5. Rpc!SettledOnce
    BY <2>1 DEF Rpc!SettledOnce
  <2> QED BY <1>0, <2>1, <2>2, <2>4, <2>5 DEF RpcInv, RpcTypeOK
<1>5. ASSUME NEW i \in CallSet, Rpc!Deadline(i) PROVE RpcInv' /\ Rpc!SettledOnce
  <2>1. /\ handler[i] = "running" /\ handler' = [handler EXCEPT ![i] = "aborted"]
        /\ UNCHANGED <<call, counts, served, toServer, toCaller>>
    BY <1>5 DEF Rpc!Deadline
  <2>2. /\ handler' \in [CallSet -> HandlerStates]
        /\ \A j \in CallSet : handler'[j] \in {"running", "aborted"} <=> handler[j] \in {"running", "aborted"}
    BY <1>0, <2>1 DEF RpcTypeOK, HandlerStates
  <2>3. CountsHold(handler', counts)
    BY <1>0, <2>2, HandlersSame
  <2>4. Rpc!SettledOnce
    BY <2>1 DEF Rpc!SettledOnce
  <2> QED BY <1>0, <2>1, <2>2, <2>3, <2>4 DEF RpcInv, RpcTypeOK
<1>6. ASSUME NEW i \in CallSet, Rpc!HandlerEnds(i) PROVE RpcInv' /\ Rpc!SettledOnce
  <2>1. /\ i \in Working(handler)
        /\ handler' = [handler EXCEPT ![i] = "ended"] /\ counts' = [counts EXCEPT ![i[1]] = @ - 1]
        /\ UNCHANGED <<call, toServer>>
    BY <1>6 DEF Rpc!HandlerEnds, Rpc!Incoming, Working, Rpc!Forget
  <2>2. \/ /\ handler[i] = "running" /\ served' = served \cup {i}
           /\ toCaller' = [toCaller EXCEPT ![i[1]] = Append(@, [id |-> i, status |-> "answered"])]
        \/ UNCHANGED <<toCaller, served>>
    BY <1>6 DEF Rpc!HandlerEnds, Rpc!Answers, Rpc!Respond
  <2>3. CountsHold(handler', counts') /\ counts[i[1]] - 1 \in Nat /\ i[1] \in CallerSet
    BY <1>0, <2>1, HandlerStops, CallSetFacts DEF RpcTypeOK
  <2>4. handler' \in [CallSet -> HandlerStates] /\ counts' \in [CallerSet -> Nat]
    BY <1>0, <2>1, <2>3 DEF RpcTypeOK, HandlerStates
  <2>5. /\ toCaller' \in [CallerSet -> Seq(Response)] /\ AnswersServed(toCaller', served')
        /\ served' \subseteq CallSet /\ served \subseteq served'
    <3>1. [id |-> i, status |-> "answered"] \in Response
      BY DEF Response
    <3> DEFINE r == [id |-> i, status |-> "answered"]
    <3>2. r.id = i /\ r \in Response
      BY <3>1
    <3> HIDE DEF r
    <3>3. CASE served' = served \cup {i} /\ toCaller' = [toCaller EXCEPT ![i[1]] = Append(@, r)]
      BY <1>0, <2>3, <3>2, <3>3, ResponseGoes DEF RpcTypeOK
    <3>4. CASE UNCHANGED <<toCaller, served>>
      BY <1>0, <3>4 DEF RpcTypeOK
    <3> QED BY <2>2, <3>3, <3>4 DEF r
  <2>6. Rpc!SettledOnce
    BY <2>1, <2>2 DEF Rpc!SettledOnce
  <2> QED BY <1>0, <2>1, <2>3, <2>4, <2>5, <2>6 DEF RpcInv, RpcTypeOK
<1>7. ASSUME NEW p \in CallerSet \cup {"server"}, Rpc!Teardown(p) PROVE RpcInv' /\ Rpc!SettledOnce
  <2>1. /\ call' = [i \in CallSet |-> IF i[1] = p /\ call[i] \in {"unsent", "sent"} THEN "failed" ELSE call[i]]
        /\ handler' = [i \in CallSet |-> IF p = "server" /\ handler[i] = "running" THEN "aborted" ELSE handler[i]]
        /\ UNCHANGED <<counts, served, toServer, toCaller>>
    BY <1>7 DEF Rpc!Teardown, Rpc!Pending
  <2>2. /\ handler' \in [CallSet -> HandlerStates] /\ call' \in [CallSet -> CallStates]
        /\ \A j \in CallSet : handler'[j] \in {"running", "aborted"} <=> handler[j] \in {"running", "aborted"}
        /\ \A j \in CallSet : call'[j] = "answered" => call[j] = "answered"
    BY <1>0, <2>1 DEF RpcTypeOK, HandlerStates, CallStates
  <2>3. CountsHold(handler', counts)
    BY <1>0, <2>2, HandlersSame
  <2>4. Rpc!SettledOnce
    BY <2>1 DEF Rpc!SettledOnce, Rpc!Outcomes
  <2> QED BY <1>0, <2>1, <2>2, <2>3, <2>4 DEF RpcInv, RpcTypeOK
<1>8. ASSUME NEW k \in CallerSet, Rpc!Disconnect(k) PROVE RpcInv' /\ Rpc!SettledOnce
  <2>1. /\ toServer' = [toServer EXCEPT ![k] = <<>>] /\ toCaller' = [toCaller EXCEPT ![k] = <<>>]
        /\ UNCHANGED <<call, counts, handler, served>>
    BY <1>8 DEF Rpc!Disconnect
  <2>2. toServer' \in [CallerSet -> Seq(Envelope)] /\ toCaller' \in [CallerSet -> Seq(Response)]
    BY <1>0, <2>1, EmptySeq DEF RpcTypeOK
  <2>3. AnswersServed(toCaller', served)
    BY <1>0, <2>1, EmptySeq DEF RpcTypeOK, AnswersServed
  <2>4. Rpc!SettledOnce
    BY <2>1 DEF Rpc!SettledOnce
  <2> QED BY <1>0, <2>1, <2>2, <2>3, <2>4 DEF RpcInv, RpcTypeOK
<1>9. CASE UNCHANGED rpc
  <2>1. UNCHANGED <<call, counts, handler, served, toServer, toCaller>>
    BY <1>9 DEF rpc
  <2>2. Rpc!SettledOnce
    BY <2>1 DEF Rpc!SettledOnce
  <2> QED BY <1>0, <2>1, <2>2 DEF RpcInv, RpcTypeOK
<1> QED BY <1>1, <1>2, <1>3, <1>4, <1>5, <1>6, <1>7, <1>8, <1>9 DEF Rpc!Next, Rpc!Timers

LEMMA RpcSafe == RpcInv => Rpc!AnswersAndTablesAreTrue
<1> SUFFICES ASSUME RpcInv PROVE Rpc!AnswersAndTablesAreTrue
  OBVIOUS
<1>1. Rpc!Incoming = Working(handler)
  BY DEF Rpc!Incoming, Working
<1>2. \A k : {i \in Rpc!Incoming : i[1] = k} = Of(Working(handler), k)
  BY <1>1 DEF Of
<1> QED BY <1>1, <1>2, RpcCardinality DEF RpcInv, CountsHold, Rpc!AnswersAndTablesAreTrue

LEMMA RpcInit == Rpc!Init => RpcInv
<1> SUFFICES ASSUME Rpc!Init PROVE RpcInv
  OBVIOUS
<1>1. RpcTypeOK
  BY EmptySeq DEF Rpc!Init, RpcTypeOK, CallStates, HandlerStates
<1>2. Working(handler) = {} /\ \A k : Of(Working(handler), k) = {}
  BY DEF Rpc!Init, Working, Of
<1>3. CountsHold(handler, counts)
  <2>1. \A k \in CallerSet : counts[k] = 0
    BY DEF Rpc!Init
  <2>2. Cardinality({}) = 0
    BY FS_EmptySet
  <2>3. MaxIncoming >= 0 /\ MaxIncomingPerPeer >= 0
    BY CallersAssumption
  <2>4. Cardinality(Working(handler)) =< MaxIncoming
    BY <1>2, <2>2, <2>3
  <2>5. ASSUME NEW k \in CallerSet
        PROVE  counts[k] = Cardinality(Of(Working(handler), k)) /\ counts[k] =< MaxIncomingPerPeer
    <3>1. Of(Working(handler), k) = {}
      BY <1>2
    <3> QED BY <2>1, <2>2, <2>3, <3>1
  <2> QED BY <2>4, <2>5 DEF CountsHold
<1>4. AnswersServed(toCaller, served) /\ \A i \in CallSet : call[i] # "answered"
  BY EmptySeq DEF Rpc!Init, AnswersServed
<1> QED BY <1>1, <1>3, <1>4 DEF RpcInv

(* A caller is answered by a handler that ran for it, its first outcome     *)
(* stays, and the server's counts and limits are exact, for any callers and *)
(* limits.                                                                  *)
THEOREM CallsHold == Spec => CallsAreExact
<1>1. Init => RpcInv
  BY RpcInit DEF Init
<1>2. [Next]_vars => [Rpc!Next]_rpc
  BY DEF Next, vars, scheduler, payments, migration, kv, rpc, votes
<1>3. RpcInv /\ [Next]_vars => RpcInv' /\ Rpc!SettledOnce
  BY <1>2, RpcStep
<1>4. RpcInv' => Rpc!AnswersAndTablesAreTrue'
  BY RpcSafe, PTL
<1>5. RpcInv /\ [Next]_vars => [run = "rpc" => Rpc!SettledOnce /\ Rpc!AnswersAndTablesAreTrue']_vars
  BY <1>3, <1>4
<1> QED BY <1>1, <1>3, <1>5, PTL DEF Spec, CallsAreExact

-----------------------------------------------------------------------------
(* Setting the status of one step of one plan. *)
LEMMA StepSet ==
  ASSUME NEW f \in [PlanSet -> [Plans!Step -> {"pending", "running", "completed", "failed", "skipped"}]],
         NEW p \in PlanSet, NEW s \in Plans!Step, NEW v \in {"pending", "running", "completed", "failed", "skipped"}
  PROVE  /\ [f EXCEPT ![p][s] = v] \in [PlanSet -> [Plans!Step -> {"pending", "running", "completed", "failed", "skipped"}]]
         /\ [f EXCEPT ![p][s] = v][p][s] = v
         /\ \A t \in Plans!Step : t # s => [f EXCEPT ![p][s] = v][p][t] = f[p][t]
         /\ \A q \in PlanSet : q # p => [f EXCEPT ![p][s] = v][q] = f[q]
OBVIOUS

(* One step of a plan that is waiting before it. *)
LEMMA TakeStepKeeps ==
  ASSUME Plans!MigrationInv, NEW p \in PlanSet, Plans!StepTransfer(p) \/ Plans!StepVerify(p) \/ Plans!StepActivate(p)
  PROVE  Plans!MigrationInv'
<1>1. CASE Plans!StepTransfer(p)
  BY <1>1, StepSet DEF Plans!StepTransfer, Plans!TakeStep, Plans!MigrationInv, Plans!TypeOK, Plans!PlanInv, Plans!Ran, Plans!Fails, Plans!Step, Plans!Terminal
<1>2. CASE Plans!StepVerify(p)
  BY <1>2, StepSet DEF Plans!StepVerify, Plans!TakeStep, Plans!MigrationInv, Plans!TypeOK, Plans!PlanInv, Plans!Ran, Plans!Fails, Plans!Step, Plans!Terminal
<1>3. CASE Plans!StepActivate(p)
  BY <1>3, StepSet DEF Plans!StepActivate, Plans!TakeStep, Plans!MigrationInv, Plans!TypeOK, Plans!PlanInv, Plans!Ran, Plans!Fails, Plans!Step, Plans!Terminal
<1> QED BY <1>1, <1>2, <1>3

(* Every action keeps it, also a cancellation between two steps. *)
LEMMA MigrationStep == Plans!MigrationInv /\ [Plans!Next]_(Plans!vars) => Plans!MigrationInv'
<1> SUFFICES ASSUME Plans!MigrationInv, [Plans!Next]_(Plans!vars) PROVE Plans!MigrationInv'
  OBVIOUS
<1>1. ASSUME NEW p \in PlanSet, Plans!InitiateMigration(p) PROVE Plans!MigrationInv'
  BY <1>1 DEF Plans!InitiateMigration, Plans!MigrationInv, Plans!TypeOK, Plans!PlanInv, Plans!Ran, Plans!Fails, Plans!Terminal
<1>2. ASSUME NEW p \in PlanSet, Plans!AlterData(p) \/ Plans!ReceiveCheckpoint(p) PROVE Plans!MigrationInv'
  <2>1. Plans!TypeOK'
    <3>1. CASE Plans!AlterData(p)
      BY <3>1 DEF Plans!AlterData, Plans!MigrationInv, Plans!TypeOK
    <3>2. CASE Plans!ReceiveCheckpoint(p)
      BY <3>2 DEF Plans!ReceiveCheckpoint, Plans!MigrationInv, Plans!TypeOK
    <3> QED BY <1>2, <3>1, <3>2
  <2>2. UNCHANGED <<state, step, pc, hashOk>>
    BY <1>2 DEF Plans!AlterData, Plans!ReceiveCheckpoint
  <2> QED BY <2>1, <2>2 DEF Plans!MigrationInv, Plans!PlanInv, Plans!Ran, Plans!Fails
<1>3. ASSUME NEW p \in PlanSet, Plans!ExecutePlan(p) PROVE Plans!MigrationInv'
  BY <1>3, StepSet DEF Plans!ExecutePlan, Plans!DataMatchesHash, Plans!MigrationInv, Plans!TypeOK, Plans!PlanInv, Plans!Ran, Plans!Fails, Plans!Terminal, Plans!Step
<1>4. ASSUME NEW p \in PlanSet, Plans!VerifiedCheckpoint(p) PROVE Plans!MigrationInv'
  <2>1. CASE hashOk[p]
    <3>1. /\ Plans!TypeOK /\ step' = [step EXCEPT ![p]["checkpoint"] = "completed"] /\ pc[p] = "hashing"
          /\ pc' = [pc EXCEPT ![p] = "transfer"] /\ UNCHANGED <<state, altered, received, hashOk, cancelled>>
      BY <1>4, <2>1 DEF Plans!VerifiedCheckpoint, Plans!MigrationInv
    <3>2. Plans!TypeOK'
      BY <3>1, StepSet DEF Plans!TypeOK, Plans!Step, Plans!Terminal
    <3>3. /\ step'[p]["checkpoint"] = "completed"
          /\ \A q \in PlanSet : q # p => UNCHANGED <<state[q], step[q], pc[q], hashOk[q]>>
      BY <3>1, StepSet DEF Plans!TypeOK, Plans!Step
    <3>4. state[p] # "completed"
      BY <3>1 DEF Plans!MigrationInv, Plans!PlanInv
    <3>5. Plans!PlanInv(p)'
      BY <2>1, <3>1, <3>3, <3>4 DEF Plans!PlanInv, Plans!Ran, Plans!TypeOK
    <3>6. \A q \in PlanSet : q # p => Plans!PlanInv(q)'
      BY <3>3 DEF Plans!MigrationInv, Plans!PlanInv, Plans!Fails, Plans!Ran
    <3> QED BY <3>2, <3>5, <3>6 DEF Plans!MigrationInv
  <2>2. CASE ~hashOk[p]
    <3>1. /\ Plans!TypeOK /\ step' = [step EXCEPT ![p]["checkpoint"] = "failed"] /\ state' = [state EXCEPT ![p] = "failed"]
          /\ pc' = [pc EXCEPT ![p] = "transfer"] /\ UNCHANGED <<altered, received, hashOk, cancelled>>
      BY <1>4, <2>2 DEF Plans!VerifiedCheckpoint, Plans!MigrationInv
    <3>2. Plans!TypeOK'
      BY <3>1, StepSet DEF Plans!TypeOK, Plans!Step, Plans!Terminal
    <3>3. Plans!Fails(p)' /\ \A q \in PlanSet : q # p => UNCHANGED <<state[q], step[q], pc[q], hashOk[q]>>
      BY <3>1, StepSet DEF Plans!TypeOK, Plans!Fails, Plans!Step
    <3>4. Plans!PlanInv(p)'
      BY <3>1, <3>3 DEF Plans!PlanInv, Plans!Fails, Plans!TypeOK
    <3>5. \A q \in PlanSet : q # p => Plans!PlanInv(q)'
      BY <3>3 DEF Plans!MigrationInv, Plans!PlanInv, Plans!Fails, Plans!Ran
    <3> QED BY <3>2, <3>4, <3>5 DEF Plans!MigrationInv
  <2> QED BY <2>1, <2>2
<1>5. ASSUME NEW p \in PlanSet, Plans!ReturnFailed(p) PROVE Plans!MigrationInv'
  BY <1>5 DEF Plans!ReturnFailed, Plans!MigrationInv, Plans!TypeOK, Plans!PlanInv, Plans!Ran, Plans!Fails, Plans!Terminal, Plans!Step
<1>6. ASSUME NEW p \in PlanSet, Plans!CancelPlan(p) PROVE Plans!MigrationInv'
  BY <1>6 DEF Plans!CancelPlan, Plans!Rollback, Plans!MigrationInv, Plans!TypeOK, Plans!PlanInv, Plans!Ran, Plans!Fails, Plans!Terminal, Plans!Step
<1>7. CASE UNCHANGED Plans!vars
  BY <1>7 DEF Plans!vars, Plans!MigrationInv, Plans!TypeOK, Plans!PlanInv, Plans!Ran, Plans!Fails
<1> QED BY <1>1, <1>2, <1>3, <1>4, <1>5, <1>6, <1>7, TakeStepKeeps DEF Plans!Next, Plans!Execution

(* What executePlan() reports completed was verified: the plans of this      *)
(* composition are those of Migration, whose invariant every step keeps.     *)
THEOREM PlansHold == Spec => []CompletedWasVerified
<1>1. Init => Plans!MigrationInv
  BY DEF Init, Plans!Init, Plans!MigrationInv, Plans!TypeOK, Plans!PlanInv, Plans!Ran, Plans!Fails,
         Plans!Terminal, Plans!Step
<1>2. [Next]_vars => [Plans!Next]_(Plans!vars)
  BY DEF Next, vars, migration, kv, payments, scheduler, rpc, votes, Plans!vars
<1>3. Plans!MigrationInv /\ [Next]_vars => Plans!MigrationInv'
  BY <1>2, MigrationStep
<1>4. Plans!MigrationInv => CompletedWasVerified
  BY DEF Plans!MigrationInv, Plans!PlanInv, Plans!CompletedWasVerified, Plans!Ran, CompletedWasVerified
<1> QED BY <1>1, <1>3, <1>4, PTL DEF Spec

-----------------------------------------------------------------------------
(* The replicated store: a composition of MeshKv runs one of its instances, *)
(* which keeps the invariant of MeshKv.                                     *)
StoreInv == (run = "trust" => Trust!KvInv) /\ (run = "grants" => Grants!KvInv)

LEMMA StoreBounds == Trust!KvBounds /\ Grants!KvBounds
BY StoreAssumption DEF Trust!KvBounds, Grants!KvBounds, Trust!Pod, Grants!Pod

LEMMA StoreInit == Init => StoreInv
<1> SUFFICES ASSUME Init PROVE StoreInv
  OBVIOUS
<1>1. CASE run = "trust"
  <2>1. Trust!Init
    BY <1>1 DEF Init
  <2>2. Trust!KvInv
    BY <2>1, StoreBounds, Trust!KvInitially
  <2> QED BY <1>1, <2>2 DEF StoreInv
<1>2. CASE run # "trust"
  <2>1. Grants!Init
    BY <1>2 DEF Init
  <2>2. Grants!KvInv
    BY <2>1, StoreBounds, Grants!KvInitially
  <2> QED BY <1>2, <2>2 DEF StoreInv
<1> QED BY <1>1, <1>2

(* What a step of the composition is to the store. *)
LEMMA StoreSteps ==
  ASSUME [Next]_vars
  PROVE  /\ run' = run
         /\ run = "trust" => [Trust!Next]_(Trust!vars)
         /\ run = "grants" => [Grants!Next]_(Grants!vars)
BY DEF Next, vars, kv, Trust!vars, Grants!vars

LEMMA StoreStep ==
  ASSUME StoreInv, [Next]_vars
  PROVE  /\ StoreInv'
         /\ run = "trust" => Trust!EntriesAdvance
         /\ run = "grants" => Grants!EntriesAdvance /\ Grants!OnlyGrantedWrites
<1>1. CASE run = "trust"
  <2>1. Trust!KvInv /\ [Trust!Next]_(Trust!vars) /\ Trust!KvBounds
    BY <1>1, StoreSteps, StoreBounds DEF StoreInv
  <2>2. Trust!KvInv' /\ Trust!EntriesAdvance
    BY <2>1, Trust!KvStep
  <2> QED BY <1>1, <2>2, StoreSteps DEF StoreInv
<1>2. CASE run = "grants"
  <2>1. Grants!KvInv /\ [Grants!Next]_(Grants!vars) /\ Grants!KvBounds
    BY <1>2, StoreSteps, StoreBounds DEF StoreInv
  <2>2. Grants!KvInv' /\ Grants!EntriesAdvance /\ Grants!OnlyGrantedWrites
    BY <2>1, Grants!KvStep
  <2> QED BY <1>2, <2>2, StoreSteps DEF StoreInv
<1>3. CASE run \notin {"trust", "grants"}
  BY <1>3, StoreSteps DEF StoreInv
<1> QED BY <1>1, <1>2, <1>3

(* For any pods, keys and bounds: pods that trust and watch one another     *)
(* agree on every key once nothing is under way; neither the filter of      *)
(* handleIncoming() nor a suppressed notification of merge() loses an       *)
(* update.                                                                  *)
THEOREM StoresAgree == Spec => []KvConvergence
<1>1. StoreInv /\ [Next]_vars => StoreInv'
  BY StoreStep
<1>2. StoreInv => KvConvergence
  <2> SUFFICES ASSUME StoreInv, run = "trust" PROVE Trust!Convergence
    BY DEF KvConvergence
  <2> QED BY StoreBounds, Trust!KvConverges DEF StoreInv
<1> QED BY StoreInit, <1>1, <1>2, PTL DEF Spec

(* Whatever arrives late, and whatever is granted and revoked in between, a *)
(* register only moves to newer entries, and only to entries of writers     *)
(* that handleIncoming() lets in.                                           *)
THEOREM StoresAdvance == Spec => KvWritesGrantedAndNewer
<1>1. StoreInv /\ [Next]_vars => StoreInv'
  BY StoreStep
<1>2. StoreInv /\ [Next]_vars =>
        [/\ run = "trust" => Trust!EntriesAdvance
         /\ run = "grants" => Grants!EntriesAdvance /\ Grants!OnlyGrantedWrites]_vars
  BY StoreStep
<1> QED BY StoreInit, <1>1, <1>2, PTL DEF Spec, KvWritesGrantedAndNewer
-----------------------------------------------------------------------------
(* The votes.                                                              *)

(* Ballots for two options are those of different voters.                   *)
LEMMA SupportersApart ==
  ASSUME NEW b, NEW c, NEW o, NEW n, o # n,
         \A x \in b \cup c : x[1] \in VoterSet,
         \A x, y \in b \cup c : x[1] = y[1] => x = y
  PROVE  /\ Cardinality(Voters!For(b, o)) \in Nat /\ Cardinality(Voters!For(c, n)) \in Nat
         /\ Cardinality(b) \in Nat /\ Cardinality(c) \in Nat
         /\ Cardinality(Voters!For(b, o)) + Cardinality(Voters!For(c, n)) =< Cardinality(VoterSet)
<1> DEFINE F == Voters!For(b, o)
           G == Voters!For(c, n)
<1>1. F \subseteq b /\ G \subseteq c /\ (\A x \in F : x[2] = o) /\ (\A x \in G : x[2] = n)
  BY DEF Voters!For
<1> HIDE DEF F, G
<1>2. ASSUME NEW S \in SUBSET (b \cup c)
      PROVE  IsFiniteSet(S) /\ Cardinality(S) \in Nat /\ Cardinality(S) =< Cardinality(VoterSet)
  <2> DEFINE f == [x \in S |-> x[1]]
  <2>1. f \in Injection(S, VoterSet)
    BY DEF Injection, IsInjective
  <2> HIDE DEF f
  <2> QED BY <2>1, VotersAssumption, FS_Injection, FS_CardinalityType
<1>3. IsFiniteSet(F) /\ IsFiniteSet(G) /\ Cardinality(F) \in Nat /\ Cardinality(G) \in Nat
  BY <1>1, <1>2
<1>4. Cardinality(b) \in Nat /\ Cardinality(c) \in Nat
  BY <1>2
<1>5. F \cap G = {}
  BY <1>1
<1>6. Cardinality(F \cup G) =< Cardinality(VoterSet)
  BY <1>1, <1>2
<1>7. Cardinality(F \cup G) = Cardinality(F) + Cardinality(G) - Cardinality(F \cap G)
  BY <1>3, FS_Union
<1>8. Cardinality(F \cap G) = 0
  BY <1>5, FS_EmptySet, Zenon
<1>9. Cardinality(F) + Cardinality(G) =< Cardinality(VoterSet)
  <2>1. Cardinality(VoterSet) \in Nat
    BY VotersAssumption, FS_CardinalityType
  <2> QED BY <1>3, <1>6, <1>7, <1>8, <2>1
<1> QED BY <1>3, <1>4, <1>9 DEF F, G

(* A ballot is counted once per voter, and as its voter counted it.         *)
VotesInv ==
  /\ quorum \in Nat \ {0}
  /\ ballots \in [VoterSet -> SUBSET (VoterSet \X (1..Choices))]
  /\ \A p \in VoterSet : \A x, y \in ballots[p] : x[1] = y[1] => x = y
  /\ \A p \in VoterSet : \A x \in ballots[p] : x \in ballots[x[1]]
  /\ \A m \in sent : m.type = "vote" => m.voter \in VoterSet /\ <<m.voter, m.choice>> \in ballots[m.voter]

LEMMA VotesStep == VotesInv /\ [Voters!Next]_votes => VotesInv'
<1> SUFFICES ASSUME VotesInv, [Voters!Next]_votes PROVE VotesInv'
  OBVIOUS
<1>1. ASSUME NEW p \in VoterSet, NEW v \in VoterSet, NEW o \in 1..Choices,
             Voters!Accepts(p, v), Voters!Count(p, v, o), p # v => <<v, o>> \in ballots[v]
      PROVE  /\ ballots' \in [VoterSet -> SUBSET (VoterSet \X (1..Choices))]
             /\ \A q \in VoterSet : \A x, y \in ballots'[q] : x[1] = y[1] => x = y
             /\ \A q \in VoterSet : \A x \in ballots'[q] : x \in ballots'[x[1]]
             /\ \A q \in VoterSet : ballots[q] \subseteq ballots'[q]
             /\ <<v, o>> \in ballots'[p]
  <2>1. ballots' = [ballots EXCEPT ![p] = @ \cup {<<v, o>>}] /\ \A x \in ballots[p] : x[1] # v
    BY <1>1 DEF Voters!Count, Voters!Accepts
  <2>2. \A q \in VoterSet : ballots'[q] = IF q = p THEN ballots[p] \cup {<<v, o>>} ELSE ballots[q]
    BY <2>1 DEF VotesInv
  <2>3. ballots' \in [VoterSet -> SUBSET (VoterSet \X (1..Choices))]
    BY <2>1 DEF VotesInv
  <2>4. ASSUME NEW q \in VoterSet, NEW x \in ballots'[q], NEW y \in ballots'[q], x[1] = y[1] PROVE x = y
    BY <2>1, <2>2, <2>4 DEF VotesInv
  <2>5. \A q \in VoterSet : ballots[q] \subseteq ballots'[q]
    BY <2>2
  <2>6. ASSUME NEW q \in VoterSet, NEW x \in ballots'[q] PROVE x \in ballots'[x[1]]
    <3>1. CASE x \in ballots[q]
      <4>1. x \in ballots[x[1]] /\ x[1] \in VoterSet
        BY <3>1 DEF VotesInv
      <4> QED BY <2>5, <4>1
    <3>2. CASE x = <<v, o>>
      BY <1>1, <2>2, <2>5, <3>2
    <3> QED BY <2>2, <2>6, <3>1, <3>2
  <2> QED BY <2>2, <2>3, <2>4, <2>5, <2>6
<1>2. ASSUME NEW p \in VoterSet, NEW o \in 1..Choices, Voters!CastVote(p, o) PROVE VotesInv'
  <2>1. /\ Voters!Accepts(p, p) /\ Voters!Count(p, p, o)
        /\ sent' = sent \cup {Voters!Vote(p, o)} /\ quorum' = quorum
    BY <1>2 DEF Voters!CastVote
  <2>2. \A m \in sent' : m.type = "vote" => m \in sent \/ (m.voter = p /\ m.choice = o)
    BY <2>1 DEF Voters!Vote
  <2>3. /\ \A q \in VoterSet : ballots[q] \subseteq ballots'[q]
        /\ <<p, o>> \in ballots'[p]
    BY <1>1, <2>1
  <2>4. \A m \in sent' : m.type = "vote" => m.voter \in VoterSet /\ <<m.voter, m.choice>> \in ballots'[m.voter]
    BY <2>2, <2>3 DEF VotesInv
  <2> QED BY <1>1, <2>1, <2>4 DEF VotesInv
<1>3. ASSUME NEW p \in VoterSet, NEW m \in sent, Voters!ReceiveVote(p, m) PROVE VotesInv'
  <2>1. /\ m.type = "vote" /\ Voters!Accepts(p, m.voter) /\ Voters!Count(p, m.voter, m.choice)
        /\ sent' = sent /\ quorum' = quorum
    BY <1>3 DEF Voters!ReceiveVote
  <2>2. m.voter \in VoterSet /\ <<m.voter, m.choice>> \in ballots[m.voter] /\ m.choice \in 1..Choices
    BY <2>1 DEF VotesInv
  <2> QED BY <1>1, <2>1, <2>2 DEF VotesInv
<1>4. ASSUME UNCHANGED ballots, quorum' \in Nat \ {0}, sent' = sent \/ sent' = sent \cup {Voters!Close} PROVE VotesInv'
  BY <1>4 DEF VotesInv, Voters!Close
<1>5. ASSUME NEW p \in VoterSet,
             \/ Voters!ReceiveProposal(p) \/ Voters!CloseProposal(p)
             \/ Voters!ExpireAll(p) \/ Voters!Deadline(p)
             \/ \E q \in VoterSet : Voters!ChangeValidators(p, q)
             \/ \E m \in sent : Voters!ReceiveClose(p, m)
      PROVE  VotesInv'
  <2>1. quorum' \in Nat \ {0}
    <3>1. quorum' = quorum
      BY <1>5 DEF Voters!ReceiveProposal, Voters!CloseProposal, Voters!ExpireAll, Voters!Deadline,
         Voters!ChangeValidators, Voters!ReceiveClose
    <3> QED BY <3>1 DEF VotesInv
  <2> QED BY <1>4, <1>5, <2>1 DEF Voters!ReceiveProposal, Voters!CloseProposal, Voters!ExpireAll,
         Voters!Deadline, Voters!ChangeValidators, Voters!ReceiveClose
<1>6. CASE Voters!Propose \/ UNCHANGED votes
  <2>1. quorum' \in Nat \ {0}
    <3>1. quorum' \in Quorums \cup {1} \/ quorum' = quorum
      BY <1>6 DEF votes, Voters!Propose
    <3>2. quorum \in Nat \ {0}
      BY DEF VotesInv
    <3>3. Quorums \subseteq Nat \ {0} /\ 1 \in Nat \ {0}
      BY VotersAssumption
    <3> QED BY <3>1, <3>2, <3>3
  <2>2. ballots' = ballots /\ sent' = sent
    BY <1>6 DEF Voters!Propose, votes
  <2> QED BY <1>4, <2>1, <2>2
<1>7. ASSUME NEW p \in VoterSet, NEW i \in 1..Len([j \in 1..Choices |-> j]),
             Voters!CastVote(p, [j \in 1..Choices |-> j][i])
      PROVE  VotesInv'
  <2>1. [j \in 1..Choices |-> j] \in Seq(Nat) /\ Len([j \in 1..Choices |-> j]) = Choices
    BY VotersAssumption, LenProperties
  <2> QED BY <1>2, <1>7, <2>1
<1> QED BY <1>3, <1>5, <1>6, <1>7 DEF Voters!Next

LEMMA VotersCardinality == \A S : Voters!Cardinality(S) = Cardinality(S)
BY DEF Voters!Cardinality, Cardinality

(* Where votes count equally, a decision is that of a majority of a quorum. *)
LEMMA DecidedIsMajority ==
  ASSUME VotesInv, NEW p \in VoterSet, NEW kind \in {"simple", "super", "unanimous"},
         Voters!Decided(kind, p)
  PROVE  /\ Cardinality(ballots[p]) >= quorum
         /\ 2 * Cardinality(Voters!For(ballots[p], Voters!Best(ballots[p]))) > Cardinality(ballots[p])
<1> DEFINE b == ballots[p]
           B == Voters!Best(b)
           F == Voters!For(b, B)
<1>1. Cardinality(b) >= quorum /\ Voters!Passes(kind, b)
  BY VotersCardinality DEF Voters!Decided
<1>2. IsFiniteSet(b)
  <2>1. b \subseteq VoterSet \X (1..Choices)
    BY DEF VotesInv
  <2>2. IsFiniteSet(VoterSet \X (1..Choices))
    <3>1. IsFiniteSet(1..Choices)
      BY VotersAssumption, FS_Interval
    <3> QED BY <3>1, VotersAssumption, FS_Product
  <2> QED BY <2>1, <2>2, FS_Subset
<1>3. F \subseteq b
  BY DEF Voters!For
<1>4. Cardinality(b) \in Nat /\ Cardinality(F) \in Nat
  BY <1>2, <1>3, FS_Subset, FS_CardinalityType
<1>5. \/ 2 * Cardinality(F) > Cardinality(b)
      \/ 3 * Cardinality(F) > 2 * Cardinality(b)
      \/ Cardinality(F) = Cardinality(b)
  BY <1>1, VotersCardinality DEF Voters!Passes
<1> HIDE DEF b, F
<1>6. 2 * Cardinality(F) > Cardinality(b)
  BY <1>1, <1>4, <1>5 DEF VotesInv
<1> QED BY <1>1, <1>6 DEF b, F

LEMMA VotesAgree == VotesInv => Voters!DecisionsAgree
<1> SUFFICES ASSUME VotesInv PROVE Voters!DecisionsAgree
  OBVIOUS
<1>1. ASSUME NEW kind \in {"simple", "super", "unanimous"},
             NEW p \in VoterSet, NEW q \in VoterSet, Voters!Decided(kind, p), Voters!Decided(kind, q),
             Voters!Best(ballots[p]) # Voters!Best(ballots[q])
      PROVE  /\ Cardinality(Voters!For(ballots[p], Voters!Best(ballots[p])))
                + Cardinality(Voters!For(ballots[q], Voters!Best(ballots[q]))) =< Cardinality(VoterSet)
             /\ 2 * (quorum \div 2 + 1) =< Cardinality(VoterSet)
  <2> DEFINE m == Cardinality(Voters!For(ballots[p], Voters!Best(ballots[p])))
             n == Cardinality(Voters!For(ballots[q], Voters!Best(ballots[q])))
  <2>1. \A x \in ballots[p] \cup ballots[q] : x[1] \in VoterSet /\ x \in ballots[x[1]]
    BY DEF VotesInv
  <2>2. \A x, y \in ballots[p] \cup ballots[q] : x[1] = y[1] => x = y
    BY <2>1 DEF VotesInv
  <2>3. /\ m \in Nat /\ n \in Nat /\ m + n =< Cardinality(VoterSet)
        /\ Cardinality(ballots[p]) \in Nat /\ Cardinality(ballots[q]) \in Nat
    BY <1>1, <2>1, <2>2, SupportersApart
  <2>4. /\ Cardinality(ballots[p]) >= quorum /\ Cardinality(ballots[q]) >= quorum
        /\ 2 * m > Cardinality(ballots[p]) /\ 2 * n > Cardinality(ballots[q])
    BY <1>1, DecidedIsMajority
  <2> HIDE DEF m, n
  <2>5. quorum \in Nat /\ Cardinality(VoterSet) \in Nat
    BY VotersAssumption, FS_CardinalityType DEF VotesInv
  <2>6. PICK h \in Nat : h = quorum \div 2 /\ quorum >= 2 * h
    BY <2>5
  <2>7. m >= h + 1 /\ n >= h + 1
    BY <2>3, <2>4, <2>5, <2>6
  <2>8. 2 * (quorum \div 2 + 1) =< Cardinality(VoterSet)
    BY <2>3, <2>5, <2>6, <2>7
  <2> QED BY <2>3, <2>8 DEF m, n
<1> QED BY <1>1, VotersCardinality DEF Voters!DecisionsAgree, VotesInv

-----------------------------------------------------------------------------
(* The payments: a composition of Payments runs one of its instances.       *)
AddInv ==
  /\ run = "unsigned" => Unsigned!PayInv
  /\ run = "signed" => Signed!PayInv
  /\ VotesInv

LEMMA PaymentsBounds == Unsigned!PayBounds /\ Signed!PayBounds
BY PaymentsAssumption DEF Unsigned!PayBounds, Signed!PayBounds

LEMMA VotesInit == Voters!Init => VotesInv
BY DEF Voters!Init, VotesInv

LEMMA AddInit == Init => AddInv
<1> SUFFICES ASSUME Init PROVE AddInv
  OBVIOUS
<1>1. Signed!Init /\ Voters!Init
  BY DEF Init
<1>2. Unsigned!Init
  BY <1>1 DEF Signed!Init, Unsigned!Init, Signed!View, Unsigned!View
<1>3. Signed!PayInv
  BY <1>1, PaymentsBounds, Signed!PayInitially
<1>4. Unsigned!PayInv
  BY <1>2, PaymentsBounds, Unsigned!PayInitially
<1> QED BY <1>1, <1>3, <1>4, VotesInit DEF AddInv

LEMMA AddStep == AddInv /\ [Next]_vars => AddInv'
<1> SUFFICES ASSUME AddInv, [Next]_vars PROVE AddInv'
  OBVIOUS
<1>1. run' = run /\ [Voters!Next]_votes
  BY DEF Next, vars, votes
<1>2. ASSUME run = "unsigned" PROVE Unsigned!PayInv'
  <2>1. [Unsigned!Next]_(Unsigned!vars)
    BY <1>2 DEF Next, vars, payments, Unsigned!vars
  <2> QED BY <1>2, <2>1, Unsigned!PayStep DEF AddInv
<1>3. ASSUME run = "signed" PROVE Signed!PayInv'
  <2>1. [Signed!Next]_(Signed!vars)
    BY <1>3 DEF Next, vars, payments, Signed!vars
  <2> QED BY <1>3, <2>1, Signed!PayStep DEF AddInv
<1>4. VotesInv'
  BY <1>1, VotesStep DEF AddInv
<1> QED BY <1>1, <1>2, <1>3, <1>4 DEF AddInv

(* Credits and votes add up, for any two parties, any deposit and numbers   *)
(* of channels and payments, and for any voters, quorum, votes and changes: *)
(* two views of one channel never hold more than its deposit, a settlement  *)
(* was co-signed, and pods that decide for different options have different *)
(* supporters and a quorum of which a majority is no majority of the pods.  *)
THEOREM PaymentsAndVotesHold == Spec => []PaymentsAndVotesAddUp
<1>1. AddInv => PaymentsAndVotesAddUp
  <2> SUFFICES ASSUME AddInv PROVE PaymentsAndVotesAddUp
    OBVIOUS
  <2>1. run = "signed" => Signed!NoCreditCreated /\ Signed!SettlementAttested
    BY Signed!PaySafe DEF AddInv
  <2>2. run = "unsigned" => Unsigned!NoCreditCreated /\ Unsigned!SettlementAttested
    BY Unsigned!PaySafe DEF AddInv
  <2>3. run = "unsigned" => Signed!NoCreditCreated /\ Signed!SettlementAttested
    BY <2>2 DEF Signed!NoCreditCreated, Signed!SettlementAttested, Unsigned!NoCreditCreated,
                Unsigned!SettlementAttested, Signed!Other, Unsigned!Other
  <2> QED BY <2>1, <2>3, VotesAgree DEF AddInv, PaymentsAndVotesAddUp
<1> QED BY <1>1, AddInit, AddStep, PTL DEF Spec
==============================================================================
