------------------------------ MODULE Consensus -----------------------------
(***************************************************************************)
(* ConsensusManager of browsermesh-apps/src/consensus.mjs at several pods: *)
(* one proposal, the ballots each pod has counted, its status, and the     *)
(* pods it admits as voters.  Proposals, votes and closes are broadcast; a *)
(* message is lost or late, and votes and closes also arrive again.  A     *)
(* pod votes in its own name and broadcasts the ballot that vote() has     *)
(* accepted.                                                               *)
(***************************************************************************)
EXTENDS Integers, FiniteSetsExt, Sequences

CONSTANTS
  Pods, Author,
  Options,     \* the choices, in the order of the proposal
  WeightOf,    \* the weight each pod votes with
  Quorums,     \* the quorums a proposal may ask for
  Changing,    \* the pods whose clock passes the deadline or whose voters change
  MaxChanges   \* bound on how often that happens

VARIABLES
  known,       \* the pods with a tally
  quorum,      \* of the proposal: 1 unless propose() is given another
  status,      \* per pod
  ballots,     \* per pod: the <<voter, choice>> it has counted
  validators,  \* per pod: #validators
  past,        \* the pods whose clock has passed the deadline
  sent,        \* the votes and closes that were broadcast
  changes

vars == <<known, quorum, status, ballots, validators, past, sent, changes>>

Vote(v, c) == [type |-> "vote", voter |-> v, choice |-> c]
Close == [type |-> "close"]

IsValidator(p, q) == validators[p] = {} \/ q \in validators[p]
-----------------------------------------------------------------------------
For(b, o) == {x \in b : x[2] = o}

WeightIn(b) == MapThenSumSet(LAMBDA x : WeightOf[x[1]], b)

(* getWinner(): by votes, then by weight, then the earlier option. *)
Beats(b, i, j) ==
  LET V(k) == Cardinality(For(b, Options[k]))
      W(k) == WeightIn(For(b, Options[k]))
  IN  i = j \/ V(i) > V(j) \/ (V(i) = V(j) /\ (W(i) > W(j) \/ (W(i) = W(j) /\ i < j)))

Best(b) == Options[CHOOSE i \in 1..Len(Options) : \A j \in 1..Len(Options) : Beats(b, i, j)]

(* Nothing else depends on the proposal's voteType, so one count serves all. *)
Passes(kind, b) ==
  LET votes == Cardinality(For(b, Best(b))) IN
  CASE kind = "simple" -> 2 * votes > Cardinality(b)
    [] kind = "super" -> 3 * votes > 2 * Cardinality(b)
    [] kind = "unanimous" -> votes = Cardinality(b)
    [] kind = "weighted" -> 2 * WeightIn(For(b, Best(b))) > WeightIn(b)

Decided(kind, p) == Cardinality(ballots[p]) >= quorum /\ Passes(kind, ballots[p])
-----------------------------------------------------------------------------
Init ==
  /\ known = {} /\ quorum = 1 /\ past = {} /\ sent = {} /\ changes = 0
  /\ status = [p \in Pods |-> "open"]
  /\ ballots = [p \in Pods |-> {}]
  /\ validators = [p \in Pods |-> Pods]

Propose ==
  /\ known = {} /\ IsValidator(Author, Author)
  /\ known' = {Author} /\ quorum' \in Quorums \cup {1}
  /\ UNCHANGED <<status, ballots, validators, past, sent, changes>>

(* The CONSENSUS_PROPOSE handler; the proposal arrives once at most.        *)
ReceiveProposal(p) ==
  /\ Author \in known /\ p \notin known /\ IsValidator(p, Author)
  /\ known' = known \cup {p}
  /\ UNCHANGED <<quorum, status, ballots, validators, past, sent, changes>>

(* vote(): isValidator() and the checks of Tally.cast().                    *)
Accepts(p, v) ==
  /\ p \in known /\ IsValidator(p, v)
  /\ status[p] = "open" /\ p \notin past
  /\ \A x \in ballots[p] : x[1] # v

Count(p, v, c) == ballots' = [ballots EXCEPT ![p] = @ \cup {<<v, c>>}]

CastVote(p, c) ==
  /\ Accepts(p, p)
  /\ Count(p, p, c)
  /\ sent' = sent \cup {Vote(p, c)}
  /\ UNCHANGED <<known, quorum, status, validators, past, changes>>

ReceiveVote(p, m) ==
  /\ m.type = "vote" /\ m.voter # p
  /\ Accepts(p, m.voter)
  /\ Count(p, m.voter, m.choice)
  /\ UNCHANGED <<known, quorum, status, validators, past, sent, changes>>

CloseProposal(p) ==
  /\ p \in known /\ status[p] # "closed"
  /\ status' = [status EXCEPT ![p] = "closed"]
  /\ sent' = sent \cup {Close}
  /\ UNCHANGED <<known, quorum, ballots, validators, past, changes>>

ReceiveClose(p, m) ==
  /\ m.type = "close" /\ p \in known /\ status[p] # "closed"
  /\ status' = [status EXCEPT ![p] = "closed"]
  /\ UNCHANGED <<known, quorum, ballots, validators, past, sent, changes>>

ExpireAll(p) ==
  /\ p \in known \cap past /\ status[p] = "open"
  /\ status' = [status EXCEPT ![p] = "expired"]
  /\ UNCHANGED <<known, quorum, ballots, validators, past, sent, changes>>

Deadline(p) ==
  /\ p \in Changing \ past /\ changes < MaxChanges
  /\ past' = past \cup {p}
  /\ changes' = changes + 1
  /\ UNCHANGED <<known, quorum, status, ballots, validators, sent>>

(* addValidator(), removeValidator(). *)
ChangeValidators(p, q) ==
  /\ p \in Changing /\ changes < MaxChanges
  /\ validators' = [validators EXCEPT ![p] = IF q \in @ THEN @ \ {q} ELSE @ \cup {q}]
  /\ changes' = changes + 1
  /\ UNCHANGED <<known, quorum, status, ballots, past, sent>>

Next ==
  \/ Propose
  \/ \E p \in Pods : ReceiveProposal(p) \/ CloseProposal(p) \/ ExpireAll(p) \/ Deadline(p)
  \/ \E p, q \in Pods : ChangeValidators(p, q)
  \/ \E p \in Pods, i \in 1..Len(Options) : CastVote(p, Options[i])
  \/ \E p \in Pods, m \in sent : ReceiveVote(p, m) \/ ReceiveClose(p, m)

Spec == Init /\ [][Next]_vars
-----------------------------------------------------------------------------
(* Whatever votes are late or lost, whoever closes first and whatever each  *)
(* pod's clock says, what a pod counts in the name of another is what that  *)
(* pod counted itself.  Where votes count equally, two pods decide for      *)
(* different options only with supporters of their own each, and only under *)
(* a quorum of which a majority is no majority of the pods.                 *)
DecisionsAgree ==
  /\ \A p, q \in Pods : \A x \in ballots[p] : x[1] = q => x \in ballots[q]
  /\ \A kind \in {"simple", "super", "unanimous"} : \A p, q \in {r \in Pods : Decided(kind, r)} :
       LET B == Best(ballots[p])
           C == Best(ballots[q])
       IN  B # C =>
             /\ Cardinality(For(ballots[p], B)) + Cardinality(For(ballots[q], C)) =< Cardinality(Pods)
             /\ 2 * (quorum \div 2 + 1) =< Cardinality(Pods)
==============================================================================
