-------------------------------- MODULE ORSet --------------------------------
(***************************************************************************)
(* The observed-remove set of browsermesh-primitives (crdt.mjs), as sync   *)
(* uses it: replicas change their copy, serialise it with toJSON(), and    *)
(* merge what arrives, in any order and any number of times.  A tag is the *)
(* adding node and the replica's counter; merge() and fromJSON() recompute *)
(* the counter from the tags they see.                                     *)
(***************************************************************************)
EXTENDS Naturals, TLAPS

CONSTANTS
  Replica, Element,
  MaxOps      \* bound: add() and remove() calls

ASSUME MaxOpsAssumption == MaxOps \in Nat

Tag == Replica \X Nat
Add == [id : Nat, elem : Element, tag : Tag]   \* an add() that was called

VARIABLES
  elements,    \* elements[r]: the pairs <<element, tag>> of #elements
  tombstones,  \* tombstones[r]: #tombstones
  counter,     \* counter[r]: #counter
  wire,        \* serialised states under way
  adds,        \* history: the add() calls so far
  knownAdds,   \* history: adds that reached r, by call or by merge
  knownRems,   \* history: for each remove() that reached r, the adds it observed
  calls        \* history: number of calls

vars == <<elements, tombstones, counter, wire, adds, knownAdds, knownRems, calls>>

Init ==
  /\ elements = [r \in Replica |-> {}]
  /\ tombstones = [r \in Replica |-> {}]
  /\ counter = [r \in Replica |-> 0]
  /\ wire = {}
  /\ adds = {}
  /\ knownAdds = [r \in Replica |-> {}]
  /\ knownRems = [r \in Replica |-> {}]
  /\ calls = 0

-----------------------------------------------------------------------------
(* The value getter. *)
ValueAllTags(r) == {e \in Element : \E x \in elements[r] :
                      x[1] = e /\ \A y \in elements[r] : y[1] = e => y[2] \notin tombstones[r]}

Value(r) == {e \in Element : \E x \in elements[r] : x[1] = e /\ x[2] \notin tombstones[r]}

(* add(): a fresh tag for the element. *)
AddElement(r, e) ==
  /\ calls < MaxOps
  /\ LET t == <<r, counter[r]>>
         a == [id |-> calls, elem |-> e, tag |-> t]
     IN /\ elements' = [elements EXCEPT ![r] = @ \cup {<<e, t>>}]
        /\ adds' = adds \cup {a}
        /\ knownAdds' = [knownAdds EXCEPT ![r] = @ \cup {a}]
  /\ counter' = [counter EXCEPT ![r] = @ + 1]
  /\ calls' = calls + 1
  /\ UNCHANGED <<tombstones, wire, knownRems>>

(* remove(): all tags the replica has for the element are tombstoned. *)
RemoveElement(r, e) ==
  /\ calls < MaxOps
  /\ tombstones' = [tombstones EXCEPT ![r] = @ \cup {x[2] : x \in {y \in elements[r] : y[1] = e}}]
  /\ knownRems' = [knownRems EXCEPT ![r] = @ \cup {{a \in knownAdds[r] : a.elem = e}}]
  /\ calls' = calls + 1
  /\ UNCHANGED <<elements, counter, wire, adds, knownAdds>>

(* toJSON() of a replica, sent to the others. *)
Send(r) ==
  /\ wire' = wire \cup {[elements |-> elements[r], tombstones |-> tombstones[r],
                         adds |-> knownAdds[r], rems |-> knownRems[r]]}
  /\ UNCHANGED <<elements, tombstones, counter, adds, knownAdds, knownRems, calls>>

(* _setInternal(): the counter becomes the least number above those of all tags. *)
NextCounterOwn(n, r, pairs) ==
  /\ \A x \in pairs : x[2][1] # r => x[2][2] < n
  /\ n = 0 \/ \E x \in pairs : x[2][2] = n - 1 /\ x[2][1] # r

NextCounter(n, r, pairs) ==
  /\ \A x \in pairs : x[2][2] < n
  /\ n = 0 \/ \E x \in pairs : x[2][2] = n - 1

MergeKeepsTombstones(r, m) ==
  /\ m \in wire
  /\ elements' = [elements EXCEPT ![r] = @ \cup m.elements]
  /\ \E n \in 0..MaxOps :
       NextCounter(n, r, elements[r] \cup m.elements) /\ counter' = [counter EXCEPT ![r] = n]
  /\ knownAdds' = [knownAdds EXCEPT ![r] = @ \cup m.adds]
  /\ knownRems' = [knownRems EXCEPT ![r] = @ \cup m.rems]
  /\ UNCHANGED <<tombstones, wire, adds, calls>>

(* fromJSON() and merge() *)
Merge(r, m) ==
  /\ m \in wire
  /\ elements' = [elements EXCEPT ![r] = @ \cup m.elements]
  /\ tombstones' = [tombstones EXCEPT ![r] = @ \cup m.tombstones]
  /\ \E n \in 0..MaxOps :
       NextCounter(n, r, elements[r] \cup m.elements) /\ counter' = [counter EXCEPT ![r] = n]
  /\ knownAdds' = [knownAdds EXCEPT ![r] = @ \cup m.adds]
  /\ knownRems' = [knownRems EXCEPT ![r] = @ \cup m.rems]
  /\ UNCHANGED <<wire, adds, calls>>

(* toJSON() and fromJSON() of the own copy, as load() does after save(). *)
Reload(r) ==
  /\ \E n \in 0..MaxOps :
       NextCounter(n, r, elements[r]) /\ counter' = [counter EXCEPT ![r] = n]
  /\ UNCHANGED <<elements, tombstones, wire, adds, knownAdds, knownRems, calls>>

Next == \E r \in Replica :
  \/ \E e \in Element : AddElement(r, e) \/ RemoveElement(r, e)
  \/ \E m \in wire : Merge(r, m)
  \/ Send(r) \/ Reload(r)

Spec == Init /\ [][Next]_vars

-----------------------------------------------------------------------------
TagsOf(A) == {a.tag : a \in A}
PairsOf(A) == {<<a.elem, a.tag>> : a \in A}

(* The types of the replicas' fields and of the history. *)
TypeOK ==
  /\ elements \in [Replica -> SUBSET (Element \X Tag)]
  /\ tombstones \in [Replica -> SUBSET Tag]
  /\ counter \in [Replica -> Nat]
  /\ wire \subseteq [elements : SUBSET (Element \X Tag), tombstones : SUBSET Tag,
                     adds : SUBSET Add, rems : SUBSET (SUBSET Add)]
  /\ adds \subseteq Add
  /\ knownAdds \in [Replica -> SUBSET Add]
  /\ knownRems \in [Replica -> SUBSET (SUBSET Add)]
  /\ calls \in Nat

(* "Each add generates a unique tag", also after merge() and fromJSON()     *)
(* recomputed the counter from whatever tags had arrived.                   *)
UniqueTags == \A a, b \in adds : a.tag = b.tag => a = b

(* Replicas that know of the same calls hold the same set, whatever order,  *)
(* duplication and batching the merges had.                                 *)
Convergence ==
  \A r, s \in Replica : knownAdds[r] = knownAdds[s] /\ knownRems[r] = knownRems[s]
    => elements[r] = elements[s] /\ tombstones[r] = tombstones[s]

(* "Concurrent add + remove results in the element being present (add       *)
(* wins)": an element is present exactly when some add of it is known that  *)
(* no known remove had observed.                                            *)
ObservedRemove ==
  \A r \in Replica, e \in Element :
    e \in Value(r) <=> \E a \in knownAdds[r] : a.elem = e /\ \A seen \in knownRems[r] : a \notin seen

-----------------------------------------------------------------------------
(* What makes these inductive: a copy, a replica's or one under way, is     *)
(* exactly what its known calls produce, and a replica knows all its own    *)
(* adds, with tags below its counter.                                       *)
Observed(A, R) == {a \in A : \E seen \in R : a \in seen}

CopyOf(E, T, A, R) ==
  /\ A \subseteq adds
  /\ \A seen \in R : seen \subseteq A
  /\ E = PairsOf(A)
  /\ T = TagsOf(Observed(A, R))

IInv ==
  /\ TypeOK
  /\ \A r \in Replica : CopyOf(elements[r], tombstones[r], knownAdds[r], knownRems[r])
  /\ \A m \in wire : CopyOf(m.elements, m.tombstones, m.adds, m.rems)
  /\ \A a \in adds : a \in knownAdds[a.tag[1]] /\ a.tag[2] < counter[a.tag[1]] /\ a.id < calls
  /\ UniqueTags

-----------------------------------------------------------------------------
(* Proofs for any set of replicas and elements.  IInv says that every copy  *)
(* of the set, at a replica or under way, is exactly what the calls it      *)
(* knows of produce; the rest is bookkeeping on tags.                       *)

(* Two copies of known calls, merged, are a copy of the union of the calls. *)
LEMMA CopyUnion ==
  ASSUME NEW E1, NEW T1, NEW A1, NEW R1, NEW E2, NEW T2, NEW A2, NEW R2,
         CopyOf(E1, T1, A1, R1), CopyOf(E2, T2, A2, R2)
  PROVE  CopyOf(E1 \cup E2, T1 \cup T2, A1 \cup A2, R1 \cup R2)
<1>1. A1 \cup A2 \subseteq adds
  BY DEF CopyOf
<1>2. \A seen \in R1 \cup R2 : seen \subseteq A1 \cup A2
  BY DEF CopyOf
<1>3. E1 \cup E2 = PairsOf(A1 \cup A2)
  BY DEF CopyOf, PairsOf
<1>4. T1 \cup T2 = TagsOf(Observed(A1 \cup A2, R1 \cup R2))
  <2>1. Observed(A1 \cup A2, R1 \cup R2) = Observed(A1, R1) \cup Observed(A2, R2)
    BY DEF CopyOf, Observed
  <2> QED BY <2>1 DEF CopyOf, TagsOf
<1> QED BY <1>1, <1>2, <1>3, <1>4 DEF CopyOf

(* One more add gives one more pair. *)
LEMMA PairsAdd ==
  ASSUME NEW A, NEW a
  PROVE  PairsOf(A \cup {a}) = PairsOf(A) \cup {<<a.elem, a.tag>>}
BY DEF PairsOf

(* The initial state satisfies the invariant. *)
LEMMA InitIInv == Init => IInv
<1> SUFFICES ASSUME Init PROVE IInv
  OBVIOUS
<1>1. TypeOK
  BY DEF Init, TypeOK
<1>2. ASSUME NEW r \in Replica
      PROVE  CopyOf(elements[r], tombstones[r], knownAdds[r], knownRems[r])
  <2>1. elements[r] = {} /\ tombstones[r] = {} /\ knownAdds[r] = {} /\ knownRems[r] = {}
    BY DEF Init
  <2>2. Observed({}, {}) = {}
    BY DEF Observed
  <2>3. TagsOf({}) = {} /\ PairsOf({}) = {}
    BY DEF TagsOf, PairsOf
  <2> QED BY <2>1, <2>2, <2>3 DEF CopyOf
<1> QED BY <1>1, <1>2 DEF Init, IInv, UniqueTags

(* add() preserves the invariant: its tag is above all own tags. *)
LEMMA AddIInv ==
  ASSUME IInv, NEW r \in Replica, NEW e \in Element, AddElement(r, e)
  PROVE  IInv'
<1> DEFINE t == <<r, counter[r]>>
           a == [id |-> calls, elem |-> e, tag |-> t]
<1>0. TypeOK
  BY DEF IInv
<1>1. counter[r] \in Nat /\ calls \in Nat
  BY <1>0 DEF TypeOK
<1>2. a \in Add /\ t \in Tag
  BY <1>1 DEF Add, Tag
<1>3. /\ elements' = [elements EXCEPT ![r] = elements[r] \cup {<<e, t>>}]
      /\ adds' = adds \cup {a}
      /\ knownAdds' = [knownAdds EXCEPT ![r] = knownAdds[r] \cup {a}]
      /\ counter' = [counter EXCEPT ![r] = counter[r] + 1]
      /\ calls' = calls + 1
      /\ tombstones' = tombstones /\ wire' = wire /\ knownRems' = knownRems
  BY DEF AddElement
<1>4. TypeOK'
  BY <1>0, <1>1, <1>2, <1>3 DEF TypeOK
<1>5. ASSUME NEW s \in Replica
      PROVE CopyOf(elements[s], tombstones[s], knownAdds[s], knownRems[s])'
  <2>1. CopyOf(elements[s], tombstones[s], knownAdds[s], knownRems[s])
    BY DEF IInv
  <2>2. tombstones'[s] = tombstones[s] /\ knownRems'[s] = knownRems[s]
    BY <1>3
  <2>3. CASE s = r
    <3>1. elements'[s] = elements[s] \cup {<<e, t>>} /\ knownAdds'[s] = knownAdds[s] \cup {a}
      BY <1>0, <1>3, <2>3 DEF TypeOK
    <3>2. elements'[s] = PairsOf(knownAdds[s] \cup {a})
      <4>1. PairsOf(knownAdds[s] \cup {a}) = PairsOf(knownAdds[s]) \cup {<<a.elem, a.tag>>}
        BY PairsAdd
      <4> QED BY <2>1, <3>1, <4>1 DEF CopyOf
    <3> QED BY <1>3, <2>1, <2>2, <3>1, <3>2 DEF CopyOf, PairsOf, TagsOf, Observed
  <2>4. CASE s # r
    <3>1. elements'[s] = elements[s] /\ knownAdds'[s] = knownAdds[s]
      BY <1>0, <1>3, <2>4 DEF TypeOK
    <3> QED BY <1>3, <2>1, <2>2, <3>1 DEF CopyOf, PairsOf, TagsOf, Observed
  <2> QED BY <2>3, <2>4
<1>6. ASSUME NEW m \in wire'
      PROVE CopyOf(m.elements, m.tombstones, m.adds, m.rems)'
  <2>1. CopyOf(m.elements, m.tombstones, m.adds, m.rems)
    BY <1>3 DEF IInv
  <2> QED BY <1>3, <2>1 DEF CopyOf, PairsOf, TagsOf, Observed
<1>7. ASSUME NEW b \in adds'
      PROVE (b \in knownAdds[b.tag[1]] /\ b.tag[2] < counter[b.tag[1]] /\ b.id < calls)'
  <2>1. CASE b \in adds
    <3>1. b \in Add /\ b.tag[1] \in Replica /\ b.tag[2] \in Nat /\ b.id \in Nat
      BY <1>0, <2>1 DEF TypeOK, Add, Tag
    <3>2. b \in knownAdds[b.tag[1]] /\ b.tag[2] < counter[b.tag[1]] /\ b.id < calls
      BY <2>1 DEF IInv
    <3>3. counter[b.tag[1]] \in Nat
      BY <1>0, <3>1 DEF TypeOK
    <3> QED BY <1>0, <1>1, <1>3, <3>1, <3>2, <3>3 DEF TypeOK
  <2>2. CASE b = a
    BY <1>0, <1>1, <1>3, <2>2 DEF TypeOK
  <2> QED BY <1>3, <2>1, <2>2
<1>8. UniqueTags'
  <2>1. ASSUME NEW b \in adds PROVE b.tag # t
    <3>1. b.tag[1] \in Replica /\ b.tag[2] \in Nat /\ b.tag[2] < counter[b.tag[1]]
      BY <1>0 DEF TypeOK, Add, Tag, IInv
    <3> QED BY <1>1, <3>1
  <2>2. UniqueTags
    BY DEF IInv
  <2> QED BY <1>3, <2>1, <2>2 DEF UniqueTags
<1> QED BY <1>4, <1>5, <1>6, <1>7, <1>8 DEF IInv

(* remove() preserves the invariant: it tombstones the tags of the adds it observed. *)
LEMMA RemoveIInv ==
  ASSUME IInv, NEW r \in Replica, NEW e \in Element, RemoveElement(r, e)
  PROVE  IInv'
<1> DEFINE gone == {x[2] : x \in {y \in elements[r] : y[1] = e}}
           seen == {a \in knownAdds[r] : a.elem = e}
<1>0. TypeOK /\ CopyOf(elements[r], tombstones[r], knownAdds[r], knownRems[r])
  BY DEF IInv
<1>1. /\ tombstones' = [tombstones EXCEPT ![r] = tombstones[r] \cup gone]
      /\ knownRems' = [knownRems EXCEPT ![r] = knownRems[r] \cup {seen}]
      /\ calls' = calls + 1
      /\ elements' = elements /\ counter' = counter /\ wire' = wire
      /\ adds' = adds /\ knownAdds' = knownAdds
  BY DEF RemoveElement
<1>2. gone = TagsOf(seen)
  <2>1. elements[r] = PairsOf(knownAdds[r])
    BY <1>0 DEF CopyOf
  <2>2. ASSUME NEW a \in seen PROVE a.tag \in gone
    <3>1. <<a.elem, a.tag>> \in {y \in elements[r] : y[1] = e}
      BY <2>1 DEF PairsOf
    <3>2. <<a.elem, a.tag>>[2] = a.tag
      OBVIOUS
    <3> QED BY <3>1, <3>2
  <2>3. ASSUME NEW x \in elements[r], x[1] = e PROVE x[2] \in TagsOf(seen)
    <3>1. PICK a \in knownAdds[r] : x = <<a.elem, a.tag>>
      BY <2>1 DEF PairsOf
    <3>2. a \in seen /\ x[2] = a.tag
      BY <2>3, <3>1
    <3> QED BY <3>2 DEF TagsOf
  <2> QED BY <2>2, <2>3 DEF TagsOf
<1>3. gone \subseteq Tag /\ seen \subseteq Add /\ calls \in Nat
  BY <1>0 DEF TypeOK
<1>4. TypeOK'
  BY <1>0, <1>1, <1>3 DEF TypeOK
<1>5. ASSUME NEW s \in Replica
      PROVE CopyOf(elements[s], tombstones[s], knownAdds[s], knownRems[s])'
  <2>1. CopyOf(elements[s], tombstones[s], knownAdds[s], knownRems[s])
    BY DEF IInv
  <2>2. CASE s = r
    <3>1. tombstones'[s] = tombstones[s] \cup gone /\ knownRems'[s] = knownRems[s] \cup {seen}
      BY <1>0, <1>1, <2>2 DEF TypeOK
    <3>2. tombstones'[s] = TagsOf(Observed(knownAdds[s], knownRems'[s]))
      <4>1. tombstones[s] = TagsOf(Observed(knownAdds[s], knownRems[s]))
        BY <2>1 DEF CopyOf
      <4>2. TagsOf(Observed(knownAdds[s], knownRems[s] \cup {seen}))
              = TagsOf(Observed(knownAdds[s], knownRems[s])) \cup TagsOf(seen)
        <5>1. seen \subseteq knownAdds[s]
          BY <2>2
        <5> HIDE DEF seen
        <5>2. Observed(knownAdds[s], knownRems[s] \cup {seen}) = Observed(knownAdds[s], knownRems[s]) \cup seen
          BY <5>1 DEF Observed
        <5> QED BY <5>2 DEF TagsOf
      <4> HIDE DEF gone, seen
      <4> QED BY <1>2, <3>1, <4>1, <4>2
    <3>3. \A x \in knownRems'[s] : x \subseteq knownAdds[s]
      BY <2>1, <2>2, <3>1 DEF CopyOf
    <3> QED BY <1>1, <2>1, <3>2, <3>3 DEF CopyOf, PairsOf, TagsOf, Observed
  <2>3. CASE s # r
    <3>1. tombstones'[s] = tombstones[s] /\ knownRems'[s] = knownRems[s]
      BY <1>0, <1>1, <2>3 DEF TypeOK
    <3> QED BY <1>1, <2>1, <3>1 DEF CopyOf, PairsOf, TagsOf, Observed
  <2> QED BY <2>2, <2>3
<1>6. ASSUME NEW m \in wire'
      PROVE CopyOf(m.elements, m.tombstones, m.adds, m.rems)'
  <2>1. CopyOf(m.elements, m.tombstones, m.adds, m.rems)
    BY <1>1 DEF IInv
  <2> QED BY <1>1, <2>1 DEF CopyOf, PairsOf, TagsOf, Observed
<1>7. ASSUME NEW b \in adds'
      PROVE (b \in knownAdds[b.tag[1]] /\ b.tag[2] < counter[b.tag[1]] /\ b.id < calls)'
  <2>1. b \in knownAdds[b.tag[1]] /\ b.tag[2] < counter[b.tag[1]] /\ b.id < calls /\ b.id \in Nat
    BY <1>0, <1>1 DEF IInv, TypeOK, Add
  <2> QED BY <1>1, <1>3, <2>1
<1> QED BY <1>1, <1>4, <1>5, <1>6, <1>7 DEF IInv, UniqueTags

(* Sending a copy preserves the invariant. *)
LEMMA SendIInv ==
  ASSUME IInv, NEW r \in Replica, Send(r)
  PROVE  IInv'
<1> DEFINE c == [elements |-> elements[r], tombstones |-> tombstones[r],
                 adds |-> knownAdds[r], rems |-> knownRems[r]]
<1>0. TypeOK
  BY DEF IInv
<1>1. /\ wire' = wire \cup {c}
      /\ elements' = elements /\ tombstones' = tombstones /\ counter' = counter
      /\ adds' = adds /\ knownAdds' = knownAdds /\ knownRems' = knownRems /\ calls' = calls
  BY DEF Send
<1>2. TypeOK'
  BY <1>0, <1>1 DEF TypeOK
<1>3. ASSUME NEW m \in wire'
      PROVE CopyOf(m.elements, m.tombstones, m.adds, m.rems)'
  <2>1. CopyOf(m.elements, m.tombstones, m.adds, m.rems)
    BY <1>1 DEF IInv
  <2> QED BY <1>1, <2>1 DEF CopyOf, PairsOf, TagsOf, Observed
<1>4. ASSUME NEW s \in Replica
      PROVE CopyOf(elements[s], tombstones[s], knownAdds[s], knownRems[s])'
  <2>1. CopyOf(elements[s], tombstones[s], knownAdds[s], knownRems[s])
    BY DEF IInv
  <2> QED BY <1>1, <2>1 DEF CopyOf, PairsOf, TagsOf, Observed
<1>5. ASSUME NEW b \in adds'
      PROVE (b \in knownAdds[b.tag[1]] /\ b.tag[2] < counter[b.tag[1]] /\ b.id < calls)'
  BY <1>1 DEF IInv
<1> QED BY <1>1, <1>2, <1>3, <1>4, <1>5 DEF IInv, UniqueTags

(* The recomputed counter is above the replica's own tags, which are among those it has. *)
LEMMA NextCounterAbove ==
  ASSUME IInv, NEW r \in Replica, NEW n \in Nat, NEW E,
         elements[r] \subseteq E, NextCounter(n, r, E)
  PROVE  \A b \in adds : b.tag[1] = r => b.tag[2] < n
<1> SUFFICES ASSUME NEW b \in adds, b.tag[1] = r PROVE b.tag[2] < n
  OBVIOUS
<1>1. b \in knownAdds[r]
  BY DEF IInv
<1>2. <<b.elem, b.tag>> \in elements[r]
  BY <1>1 DEF IInv, CopyOf, PairsOf
<1> QED BY <1>2 DEF NextCounter

(* merge() preserves the invariant. *)
LEMMA MergeIInv ==
  ASSUME IInv, NEW r \in Replica, NEW m \in wire, Merge(r, m)
  PROVE  IInv'
<1>0. TypeOK
  BY DEF IInv
<1>1. PICK n \in 0..MaxOps :
        NextCounter(n, r, elements[r] \cup m.elements) /\ counter' = [counter EXCEPT ![r] = n]
  BY DEF Merge
<1>2. /\ elements' = [elements EXCEPT ![r] = elements[r] \cup m.elements]
      /\ tombstones' = [tombstones EXCEPT ![r] = tombstones[r] \cup m.tombstones]
      /\ knownAdds' = [knownAdds EXCEPT ![r] = knownAdds[r] \cup m.adds]
      /\ knownRems' = [knownRems EXCEPT ![r] = knownRems[r] \cup m.rems]
      /\ wire' = wire /\ adds' = adds /\ calls' = calls
  BY DEF Merge
<1>3. n \in Nat
  BY <1>1, MaxOpsAssumption
<1>4. /\ m.elements \subseteq Element \X Tag /\ m.tombstones \subseteq Tag
      /\ m.adds \subseteq Add /\ m.rems \subseteq SUBSET Add
  BY <1>0 DEF TypeOK
<1>5. TypeOK'
  BY <1>0, <1>1, <1>2, <1>3, <1>4 DEF TypeOK
<1>6. ASSUME NEW s \in Replica
      PROVE CopyOf(elements[s], tombstones[s], knownAdds[s], knownRems[s])'
  <2>1. CopyOf(elements[s], tombstones[s], knownAdds[s], knownRems[s])
    BY DEF IInv
  <2>2. CASE s = r
    <3>1. CopyOf(m.elements, m.tombstones, m.adds, m.rems)
      BY DEF IInv
    <3>2. CopyOf(elements[s] \cup m.elements, tombstones[s] \cup m.tombstones,
                 knownAdds[s] \cup m.adds, knownRems[s] \cup m.rems)
      BY <2>1, <3>1, CopyUnion
    <3>3. /\ elements'[s] = elements[s] \cup m.elements
          /\ tombstones'[s] = tombstones[s] \cup m.tombstones
          /\ knownAdds'[s] = knownAdds[s] \cup m.adds
          /\ knownRems'[s] = knownRems[s] \cup m.rems
      BY <1>0, <1>2, <2>2 DEF TypeOK
    <3> QED BY <1>2, <3>2, <3>3 DEF CopyOf, PairsOf, TagsOf, Observed
  <2>3. CASE s # r
    <3>1. /\ elements'[s] = elements[s] /\ tombstones'[s] = tombstones[s]
          /\ knownAdds'[s] = knownAdds[s] /\ knownRems'[s] = knownRems[s]
      BY <1>0, <1>2, <2>3 DEF TypeOK
    <3> QED BY <1>2, <2>1, <3>1 DEF CopyOf, PairsOf, TagsOf, Observed
  <2> QED BY <2>2, <2>3
<1>7. ASSUME NEW c \in wire'
      PROVE CopyOf(c.elements, c.tombstones, c.adds, c.rems)'
  <2>1. CopyOf(c.elements, c.tombstones, c.adds, c.rems)
    BY <1>2 DEF IInv
  <2> QED BY <1>2, <2>1 DEF CopyOf, PairsOf, TagsOf, Observed
<1>8. ASSUME NEW b \in adds'
      PROVE (b \in knownAdds[b.tag[1]] /\ b.tag[2] < counter[b.tag[1]] /\ b.id < calls)'
  <2>1. b \in knownAdds[b.tag[1]] /\ b.tag[2] < counter[b.tag[1]] /\ b.id < calls
    BY <1>2 DEF IInv
  <2>2. b.tag[1] \in Replica
    BY <1>0, <1>2 DEF TypeOK, Add, Tag
  <2>3. b.tag[1] = r => b.tag[2] < n
    BY <1>1, <1>2, <1>3, NextCounterAbove
  <2> QED BY <1>0, <1>1, <1>2, <2>1, <2>2, <2>3 DEF TypeOK
<1> QED BY <1>2, <1>5, <1>6, <1>7, <1>8 DEF IInv, UniqueTags

(* Reloading the own copy preserves the invariant. *)
LEMMA ReloadIInv ==
  ASSUME IInv, NEW r \in Replica, Reload(r)
  PROVE  IInv'
<1>0. TypeOK
  BY DEF IInv
<1>1. PICK n \in 0..MaxOps :
        NextCounter(n, r, elements[r]) /\ counter' = [counter EXCEPT ![r] = n]
  BY DEF Reload
<1>2. /\ elements' = elements /\ tombstones' = tombstones /\ wire' = wire /\ adds' = adds
      /\ knownAdds' = knownAdds /\ knownRems' = knownRems /\ calls' = calls
  BY DEF Reload
<1>3. n \in Nat
  BY <1>1, MaxOpsAssumption
<1>4. TypeOK'
  BY <1>0, <1>1, <1>2, <1>3 DEF TypeOK
<1>5. ASSUME NEW s \in Replica
      PROVE CopyOf(elements[s], tombstones[s], knownAdds[s], knownRems[s])'
  <2>1. CopyOf(elements[s], tombstones[s], knownAdds[s], knownRems[s])
    BY DEF IInv
  <2> QED BY <1>2, <2>1 DEF CopyOf, PairsOf, TagsOf, Observed
<1>6. ASSUME NEW c \in wire'
      PROVE CopyOf(c.elements, c.tombstones, c.adds, c.rems)'
  <2>1. CopyOf(c.elements, c.tombstones, c.adds, c.rems)
    BY <1>2 DEF IInv
  <2> QED BY <1>2, <2>1 DEF CopyOf, PairsOf, TagsOf, Observed
<1>7. ASSUME NEW b \in adds'
      PROVE (b \in knownAdds[b.tag[1]] /\ b.tag[2] < counter[b.tag[1]] /\ b.id < calls)'
  <2>1. b \in knownAdds[b.tag[1]] /\ b.tag[2] < counter[b.tag[1]] /\ b.id < calls
    BY <1>2 DEF IInv
  <2>2. b.tag[1] \in Replica
    BY <1>0, <1>2 DEF TypeOK, Add, Tag
  <2>3. b.tag[1] = r => b.tag[2] < n
    BY <1>1, <1>2, <1>3, NextCounterAbove
  <2> QED BY <1>0, <1>1, <1>2, <2>1, <2>2, <2>3 DEF TypeOK
<1> QED BY <1>2, <1>4, <1>5, <1>6, <1>7 DEF IInv, UniqueTags

(* Every step preserves the invariant. *)
LEMMA StepIInv == IInv /\ [Next]_vars => IInv'
<1> SUFFICES ASSUME IInv, [Next]_vars PROVE IInv'
  OBVIOUS
<1>1. ASSUME NEW r \in Replica, NEW e \in Element, AddElement(r, e) PROVE IInv'
  BY <1>1, AddIInv
<1>2. ASSUME NEW r \in Replica, NEW e \in Element, RemoveElement(r, e) PROVE IInv'
  BY <1>2, RemoveIInv
<1>3. ASSUME NEW r \in Replica, NEW m \in wire, Merge(r, m) PROVE IInv'
  BY <1>3, MergeIInv
<1>4. ASSUME NEW r \in Replica, Send(r) PROVE IInv'
  BY <1>4, SendIInv
<1>5. ASSUME NEW r \in Replica, Reload(r) PROVE IInv'
  BY <1>5, ReloadIInv
<1>6. CASE UNCHANGED vars
  BY <1>6 DEF vars, IInv, TypeOK, CopyOf, PairsOf, TagsOf, Observed, UniqueTags
<1> QED BY <1>1, <1>2, <1>3, <1>4, <1>5, <1>6 DEF Next

(* The invariant holds in every reachable state. *)
LEMMA Invariance == Spec => []IInv
BY InitIInv, StepIInv, PTL DEF Spec

(* add() never gives out a tag twice, whatever was merged or reloaded       *)
(* between two calls.                                                       *)
THEOREM TagsAreUnique == Spec => []UniqueTags
<1>1. IInv => UniqueTags
  BY DEF IInv
<1> QED BY <1>1, Invariance, PTL

(* Replicas that know of the same calls hold the same set.                  *)
THEOREM ReplicasConverge == Spec => []Convergence
<1>1. IInv => Convergence
  BY DEF IInv, Convergence, CopyOf
<1> QED BY <1>1, Invariance, PTL

(* An element is in the set exactly when a known add of it was observed by  *)
(* no known remove: a concurrent add wins.                                  *)
THEOREM AddWins == Spec => []ObservedRemove
<1>1. ASSUME IInv, NEW r \in Replica, NEW e \in Element
      PROVE e \in Value(r) <=> \E a \in knownAdds[r] : a.elem = e /\ \A seen \in knownRems[r] : a \notin seen
  <2>1. CopyOf(elements[r], tombstones[r], knownAdds[r], knownRems[r]) /\ UniqueTags
    BY <1>1 DEF IInv
  <2>2. ASSUME NEW a \in knownAdds[r]
        PROVE a.tag \in tombstones[r] <=> \E seen \in knownRems[r] : a \in seen
    <3>1. a.tag \in tombstones[r] <=> \E seen \in knownRems[r] : \E b \in seen : b.tag = a.tag
      BY <2>1 DEF CopyOf, TagsOf, Observed
    <3>2. \A seen \in knownRems[r] : \A b \in seen : b.tag = a.tag => b = a
      BY <2>1 DEF CopyOf, UniqueTags
    <3> QED BY <3>1, <3>2
  <2>3. e \in Value(r) <=> \E a \in knownAdds[r] : a.elem = e /\ a.tag \notin tombstones[r]
    <3>1. elements[r] = PairsOf(knownAdds[r])
      BY <2>1 DEF CopyOf
    <3>2. ASSUME NEW a \in knownAdds[r], a.elem = e, a.tag \notin tombstones[r]
          PROVE  e \in Value(r)
      <4>1. <<a.elem, a.tag>> \in elements[r]
        BY <3>1 DEF PairsOf
      <4> QED BY <3>2, <4>1 DEF Value
    <3>3. ASSUME e \in Value(r)
          PROVE  \E a \in knownAdds[r] : a.elem = e /\ a.tag \notin tombstones[r]
      <4>1. PICK x \in elements[r] : x[1] = e /\ x[2] \notin tombstones[r]
        BY <3>3 DEF Value
      <4>2. PICK a \in knownAdds[r] : x = <<a.elem, a.tag>>
        BY <3>1, <4>1 DEF PairsOf
      <4> QED BY <4>1, <4>2
    <3> QED BY <3>2, <3>3
  <2> QED BY <2>2, <2>3
<1>2. IInv => ObservedRemove
  BY <1>1 DEF ObservedRemove
<1> QED BY <1>2, Invariance, PTL
==============================================================================
