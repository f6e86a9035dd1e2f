---------------------------------- MODULE Rga ----------------------------------
(***************************************************************************)
(* The replicated growable array of browsermesh-primitives (crdt.mjs) at   *)
(* replicas that insert, delete, serialise their copy and merge copies of  *)
(* others, in any order and any number of times.  A node is its id, the    *)
(* inserting replica and its clock; values ride along and are left out.    *)
(***************************************************************************)
EXTENDS Naturals, FiniteSets, Sequences, SequencesExt

CONSTANTS
  Replica,    \* node ids: numbers, ordered as their strings are
  MaxOps      \* bound: insertAt() and deleteAt() calls

VARIABLES
  nodes,     \* nodes[r]: ids of #nodes, in physical order
  deleted,   \* deleted[r]: those flagged deleted
  vclock,    \* vclock[r]: #vclock
  wire,      \* serialised copies under way
  history    \* history[r]: the calls that reached r: inserts and deletes of ids

vars == <<nodes, deleted, vclock, wire, history>>

Id == Replica \X (1..MaxOps)
Elems(s) == {s[i] : i \in DOMAIN s}
Calls == UNION {history[r] : r \in Replica}

Init ==
  /\ nodes = [r \in Replica |-> <<>>]
  /\ deleted = [r \in Replica |-> {}]
  /\ vclock = [r \in Replica |-> [s \in Replica |-> 0]]
  /\ wire = {}
  /\ history = [r \in Replica |-> {}]

-----------------------------------------------------------------------------
(* Physical positions of the visible elements, in order. *)
Visible(r) == {i \in DOMAIN nodes[r] : nodes[r][i] \notin deleted[r]}
Rank(r, i) == Len(SelectSeq(SubSeq(nodes[r], 1, i), LAMBDA id : id \notin deleted[r]))

(* _visibleToPhysical(): after the n-th visible element, at the end if there are fewer. *)
VisibleToPhysical(r, n) ==
  IF n = 0 THEN 0
  ELSE IF \E i \in Visible(r) : Rank(r, i) = n
       THEN CHOOSE i \in Visible(r) : Rank(r, i) = n
       ELSE Len(nodes[r])

(* insertAt() *)
Insert(r, n) ==
  LET id == <<r, vclock[r][r] + 1>> IN
  /\ nodes' = [nodes EXCEPT ![r] = InsertAt(@, VisibleToPhysical(r, n) + 1, id)]
  /\ vclock' = [vclock EXCEPT ![r][r] = @ + 1]
  /\ history' = [history EXCEPT ![r] = @ \cup {<<"insert", id>>}]
  /\ UNCHANGED <<deleted, wire>>

(* deleteAt(): flags the element with n visible ones before it. *)
Delete(r, n) ==
  \E i \in Visible(r) :
    /\ Rank(r, i) = n + 1
    /\ deleted' = [deleted EXCEPT ![r] = @ \cup {nodes[r][i]}]
    /\ history' = [history EXCEPT ![r] = @ \cup {<<"delete", nodes[r][i]>>}]
    /\ UNCHANGED <<nodes, vclock, wire>>

(* toJSON() *)
Send(r) ==
  /\ wire' = wire \cup {[nodes |-> nodes[r], deleted |-> deleted[r], vclock |-> vclock[r],
                         history |-> history[r]]}
  /\ UNCHANGED <<nodes, deleted, vclock, history>>

(* Order of ids as strings. *)
Before(x, y) == x[1] < y[1] \/ (x[1] = y[1] /\ x[2] < y[2])

(* _mergeSequences(): whose head goes first when the heads differ. *)
LeftFirstById(a, b) == Before(Head(a), Head(b))

LeftFirst(a, b) ==
  LET aInB == Contains(b, Head(a))
      bInA == Contains(a, Head(b))
  IN  IF aInB # bInA THEN bInA ELSE Before(Head(a), Head(b))

(* _mergeSequences(): a node that was output already is skipped. *)
RECURSIVE MergeSequences(_, _, _)
MergeSequences(a, b, out) ==
  CASE a # <<>> /\ Contains(out, Head(a)) -> MergeSequences(Tail(a), b, out)
    [] b # <<>> /\ Contains(out, Head(b)) -> MergeSequences(a, Tail(b), out)
    [] a = <<>> -> out \o SelectSeq(b, LAMBDA id : ~Contains(out, id))
    [] b = <<>> -> out \o SelectSeq(a, LAMBDA id : ~Contains(out, id))
    [] OTHER -> IF Head(a) = Head(b) \/ LeftFirst(a, b)
                THEN MergeSequences(Tail(a), b, Append(out, Head(a)))
                ELSE MergeSequences(a, Tail(b), Append(out, Head(b)))

MergeClock(c, d) == [s \in Replica |-> IF c[s] > d[s] THEN c[s] ELSE d[s]]

MergeAppends(r, m) ==
  /\ nodes' = [nodes EXCEPT ![r] = @ \o SelectSeq(m.nodes, LAMBDA id : ~Contains(nodes[r], id))]
  /\ deleted' = [deleted EXCEPT ![r] = @ \cup m.deleted]
  /\ vclock' = [vclock EXCEPT ![r] = MergeClock(@, m.vclock)]
  /\ history' = [history EXCEPT ![r] = @ \cup m.history]
  /\ UNCHANGED wire

(* fromJSON() and merge() *)
Merge(r, m) ==
  /\ nodes' = [nodes EXCEPT ![r] = MergeSequences(@, m.nodes, <<>>)]
  /\ deleted' = [deleted EXCEPT ![r] = @ \cup m.deleted]
  /\ vclock' = [vclock EXCEPT ![r] = MergeClock(@, m.vclock)]
  /\ history' = [history EXCEPT ![r] = @ \cup m.history]
  /\ UNCHANGED wire

Next == \E r \in Replica :
  \/ /\ Cardinality(Calls) < MaxOps
     /\ \E n \in 0..Len(nodes[r]) : Insert(r, n) \/ Delete(r, n)
  \/ Send(r)
  \/ \E m \in wire : Merge(r, m)

Spec == Init /\ [][Next]_vars

-----------------------------------------------------------------------------
(* The types of the replicas' fields. *)
TypeOK ==
  /\ \A r \in Replica : nodes[r] \in Seq(Id) /\ deleted[r] \subseteq Elems(nodes[r])
  /\ vclock \in [Replica -> [Replica -> 0..MaxOps]]

(* A copy holds every node it knows of exactly once, and those deleted by a *)
(* known call are hidden for good.                                          *)
HoldsItsCalls ==
  \A r \in Replica :
    /\ IsInjective(nodes[r])
    /\ Elems(nodes[r]) = {c[2] : c \in {d \in history[r] : d[1] = "insert"}}
    /\ deleted[r] = {c[2] : c \in {d \in history[r] : d[1] = "delete"}}

(* "CRDTs that merge deterministically across peers": replicas that know of *)
(* the same calls show the same array.                                      *)
Convergence ==
  \A r, s \in Replica : history[r] = history[s] => nodes[r] = nodes[s]

(* "preserving local order": a merge never swaps two nodes of the replica's *)
(* own sequence.                                                            *)
LocalOrderKept ==
  \A r \in Replica : IsInjective(nodes[r]) =>
    SelectSeq(nodes'[r], LAMBDA id : Contains(nodes[r], id)) = nodes[r]
================================================================================
