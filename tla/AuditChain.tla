------------------------------ MODULE AuditChain ------------------------------
(***************************************************************************)
(* AuditChain, detectFork() and the Merkle proofs of                       *)
(* browsermesh-apps/src/audit.mjs.  Pods hold copies of one chain, append  *)
(* to them and load each other's.  append() fixes the sequence number and  *)
(* the previous hash before it awaits the signature and the entry is       *)
(* pushed after, so calls may overlap.  A hash is the value it was taken   *)
(* of.                                                                     *)
(***************************************************************************)
EXTENDS Integers, Sequences, FiniteSets, SequencesExt

CONSTANTS Pods, MaxAppends  \* bound on append() calls

VARIABLES
  chain,      \* per pod: #entries
  signing,    \* per pod: the entries whose append() awaits the signature
  appends,    \* number of calls, which tells entries apart
  overlapped  \* pods with a copy to which appends overlapped

vars == <<chain, signing, appends, overlapped>>

Genesis == <<"genesis">>
Entry(seq, prev, data) == <<"entry", seq, prev, data>>
SequenceOf(e) == e[2]
PreviousHash(e) == e[3]

Init ==
  /\ chain = [p \in Pods |-> <<>>] /\ signing = [p \in Pods |-> {}]
  /\ appends = 0 /\ overlapped = {}

(* append() up to the signature. *)
Append1(p) ==
  /\ appends < MaxAppends
  /\ appends' = appends + 1
  /\ LET n == Len(chain[p]) IN
     signing' = [signing EXCEPT ![p] =
       @ \cup {Entry(n, IF n = 0 THEN Genesis ELSE chain[p][n], appends)}]
  /\ UNCHANGED <<chain, overlapped>>

Push(p, e) ==
  /\ e \in signing[p]
  /\ signing' = [signing EXCEPT ![p] = @ \ {e}]
  /\ chain' = [chain EXCEPT ![p] = Append(@, e)]
  /\ overlapped' = IF Len(chain[p]) = SequenceOf(e) THEN overlapped ELSE overlapped \cup {p}
  /\ UNCHANGED appends

(* fromJSON(toJSON()) of another pod's copy, taken over between appends. *)
Load(p, q) ==
  /\ chain[p] # chain[q] /\ signing[p] = {}
  /\ chain' = [chain EXCEPT ![p] = chain[q]]
  /\ overlapped' = IF q \in overlapped THEN overlapped \cup {p} ELSE overlapped \ {p}
  /\ UNCHANGED <<signing, appends>>

Next ==
  \/ \E p \in Pods : Append1(p) \/ \E e \in signing[p] : Push(p, e)
  \/ \E p, q \in Pods : Load(p, q)

Spec == Init /\ [][Next]_vars
-----------------------------------------------------------------------------
(* verify(), for entries whose signatures are right. *)
Verify(c) ==
  \A i \in 1..Len(c) :
    /\ SequenceOf(c[i]) = i - 1
    /\ PreviousHash(c[i]) = IF i = 1 THEN Genesis ELSE c[i - 1]

(* detectFork(): the sequence numbers with different entries. *)
Forked(entries) ==
  {SequenceOf(e) : e \in {x \in ToSet(entries) :
     \E y \in ToSet(entries) : y # x /\ SequenceOf(y) = SequenceOf(x)}}

(* buildMerkleRoot(), buildMerkleProof() and verifyMerkleProof(). *)
Sibling(layer, i) == IF i + 1 =< Len(layer) THEN layer[i + 1] ELSE layer[i]
Up(layer) == [i \in 1..((Len(layer) + 1) \div 2) |->
                <<"node", layer[2 * i - 1], Sibling(layer, 2 * i - 1)>>]

Layers(leaves) ==
  LET L[n \in 0..Len(leaves)] == IF n = 0 THEN leaves ELSE Up(L[n - 1]) IN L

Height(leaves) ==
  CHOOSE n \in 0..Len(leaves) :
    Len(Layers(leaves)[n]) = 1 /\ \A m \in 0..(n - 1) : Len(Layers(leaves)[m]) > 1

MerkleRoot(leaves) == Layers(leaves)[Height(leaves)][1]

(* One sibling per layer below the root, with the side it is on. *)
Indices(leaves, i) ==
  LET at[n \in 0..Len(leaves)] == IF n = 0 THEN i ELSE (at[n - 1] + 1) \div 2 IN at

MerkleProof(leaves, i) ==
  [n \in 1..Height(leaves) |->
     LET layer == Layers(leaves)[n - 1]
         at == Indices(leaves, i)[n - 1]
     IN  IF at % 2 = 1 THEN <<"right", Sibling(layer, at)>> ELSE <<"left", layer[at - 1]>>]

Join(h, s) == IF s[1] = "right" THEN <<"node", h, s[2]>> ELSE <<"node", s[2], h>>
Climb(leaf, proof) ==
  LET h[n \in 0..Len(proof)] == IF n = 0 THEN leaf ELSE Join(h[n - 1], proof[n]) IN h

ProofHolds(leaf, proof, root) == root = Climb(leaf, proof)[Len(proof)]
-----------------------------------------------------------------------------
(* verify() accepts a copy exactly when no two of its append() calls        *)
(* overlapped, wherever the copy was loaded from.                           *)
VerifyIsExact == \A p \in Pods : Verify(chain[p]) <=> p \notin overlapped

(* Two copies that verify have forked exactly when neither extends the      *)
(* other, and they agree up to the number before the one detectFork()       *)
(* names.                                                                   *)
ForksAreFound ==
  \A p, q \in Pods \ overlapped :
    LET forks == Forked(chain[p] \o chain[q])
        agree == {i \in 0..Len(chain[p]) : i =< Len(chain[q])
                    /\ SubSeq(chain[p], 1, i) = SubSeq(chain[q], 1, i)}
    IN  IF forks = {} THEN IsPrefix(chain[p], chain[q]) \/ IsPrefix(chain[q], chain[p])
        ELSE \A i \in agree : i =< (CHOOSE s \in forks : \A t \in forks : s =< t)

(* The Merkle proof of an entry holds for that entry and for no other.      *)
ProofsAreExact ==
  \A p \in Pods : \A i, j \in 1..Len(chain[p]) :
    ProofHolds(chain[p][j], MerkleProof(chain[p], i), MerkleRoot(chain[p])) <=> i = j

AuditIsTrue == VerifyIsExact /\ ForksAreFound /\ ProofsAreExact

(* The inductive invariant.  An entry that awaits its signature names what  *)
(* stands before the place it was made for, and no two entries are of one   *)
(* call.                                                                    *)
DataOf(e) == e[4]

AuditTypeOK ==
  /\ DOMAIN chain = Pods /\ DOMAIN signing = Pods
  /\ \A p \in Pods : chain[p] \in Seq(ToSet(chain[p]))
  /\ appends \in Nat /\ overlapped \subseteq Pods

SigningFollows ==
  \A p \in Pods : \A e \in signing[p] :
    /\ SequenceOf(e) \in 0..Len(chain[p])
    /\ PreviousHash(e) = IF SequenceOf(e) = 0 THEN Genesis ELSE chain[p][SequenceOf(e)]

CallsDiffer ==
  /\ \A p \in Pods : \A e \in signing[p] : DataOf(e) \in 0..(appends - 1)
  /\ \A p \in Pods : \A i \in DOMAIN chain[p] : DataOf(chain[p][i]) \in 0..(appends - 1)
  /\ \A p \in Pods : \A i, j \in DOMAIN chain[p] :
       DataOf(chain[p][i]) = DataOf(chain[p][j]) => i = j
  /\ \A p, q \in Pods : \A e \in signing[p] :
       /\ \A i \in DOMAIN chain[q] : DataOf(chain[q][i]) # DataOf(e)
       /\ \A f \in signing[q] : DataOf(f) = DataOf(e) => p = q /\ f = e

AuditInv == AuditTypeOK /\ SigningFollows /\ CallsDiffer /\ VerifyIsExact
==============================================================================
