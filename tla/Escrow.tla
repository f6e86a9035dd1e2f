-------------------------------- MODULE Escrow --------------------------------
(***************************************************************************)
(* The escrow manager and its mesh service (apps/peer-escrow.mjs) on a     *)
(* ledger with a balance per pod.  Every call changes the ledger first and *)
(* the contract's status after the await of that change, which another     *)
(* call may use.  The ledger may refuse a change.                          *)
(***************************************************************************)
EXTENDS Naturals, FiniteSets, FiniteSetsExt

CONSTANTS Contracts, Payer, Payee, Amount,
  Funds      \* the payer's balance at first

VARIABLES
  status,    \* contract -> "none", "debited" (before its create() ends) or its status
  balance,   \* pod -> credits
  proven,    \* contracts for which a caller has a proof that meets the conditions
  expired,   \* contracts whose timeout has passed
  awaiting,  \* <<contract, operation>>: calls that await the ledger
  paid,      \* history: contracts whose credits the ledger paid out
  raced      \* history: contracts paid by a call while another one paid them

history == <<paid, raced>>
vars == <<status, balance, proven, expired, awaiting, history>>

Parties == {Payer, Payee}
Operations == {"release", "refund", "checkExpired"}
Outcome(op) == CASE op = "release" -> "released"
                 [] op = "refund" -> "refunded"
                 [] op = "checkExpired" -> "expired"

Init ==
  /\ status = [c \in Contracts |-> "none"]
  /\ balance = [p \in Parties |-> IF p = Payer THEN Funds ELSE 0]
  /\ proven = {} /\ expired = {} /\ awaiting = {}
  /\ paid = {} /\ raced = {}

(* create(): the payer is charged, or the call throws; then the contract is *)
(* stored, and payer and payee get the capabilities for it.                 *)
Charge(c) ==
  /\ status[c] = "none" /\ balance[Payer] >= Amount
  /\ balance' = [balance EXCEPT ![Payer] = @ - Amount]
  /\ status' = [status EXCEPT ![c] = "debited"]
  /\ UNCHANGED <<proven, expired, awaiting, history>>

Create(c) ==
  /\ status[c] = "debited" /\ status' = [status EXCEPT ![c] = "funded"]
  /\ UNCHANGED <<balance, proven, expired, awaiting, history>>

(* Work is delivered, and the contract's timeout passes. *)
Prove(c) ==
  proven' = proven \cup {c} /\ proven' # proven
  /\ UNCHANGED <<status, balance, expired, awaiting, history>>
Expire(c) ==
  expired' = expired \cup {c} /\ expired' # expired
  /\ UNCHANGED <<status, balance, proven, awaiting, history>>

(* The guards of release(), refund() and checkExpired(). *)
Due(c, op) ==
  /\ status[c] = "funded"
  /\ CASE op = "release" -> c \notin expired /\ c \in proven
       [] op = "refund" -> TRUE
       [] op = "checkExpired" -> c \in expired

Busy(c) == \E op \in Operations : <<c, op>> \in awaiting

(* The ledger credits the payee of a release, and the payer otherwise. *)
Credit(c, op) ==
  /\ Due(c, op) /\ <<c, op>> \notin awaiting
  /\ balance' = [balance EXCEPT ![IF op = "release" THEN Payee ELSE Payer] = @ + Amount]
  /\ awaiting' = awaiting \cup {<<c, op>>}
  /\ paid' = paid \cup {c}
  /\ raced' = IF Busy(c) THEN raced \cup {c} ELSE raced
  /\ UNCHANGED <<status, proven, expired>>

CreditFailsMarked(c, op) ==
  /\ Due(c, op) /\ status' = [status EXCEPT ![c] = Outcome(op)]
  /\ UNCHANGED <<balance, proven, expired, awaiting, history>>

(* The ledger refuses: the call throws, and the contract stays as it is. *)
CreditFails(c, op) ==
  /\ Due(c, op) /\ UNCHANGED vars

Settle(c, op) ==
  /\ <<c, op>> \in awaiting
  /\ awaiting' = awaiting \ {<<c, op>>}
  /\ status' = [status EXCEPT ![c] = Outcome(op)]
  /\ UNCHANGED <<balance, proven, expired, history>>

(* dispute() looks at no status. *)
Dispute(c) ==
  /\ status[c] \notin {"none", "debited"}
  /\ status' = [status EXCEPT ![c] = "disputed"]
  /\ UNCHANGED <<balance, proven, expired, awaiting, history>>

Next == \E c \in Contracts :
  \/ Charge(c) \/ Create(c) \/ Prove(c) \/ Expire(c) \/ Dispute(c)
  \/ \E op \in Operations : Credit(c, op) \/ CreditFails(c, op) \/ Settle(c, op)

Spec == Init /\ [][Next]_vars

-----------------------------------------------------------------------------
Total == balance[Payer] + balance[Payee]
Open == {c \in Contracts : status[c] # "none" /\ c \notin paid}

(* Double entry: the balances and the contracts charged and not yet paid    *)
(* out hold at least all the credits there were, and exactly those as long  *)
(* as no call paid a contract while another one did.  A contract that is    *)
(* not paid out can still be paid or is in dispute; one that is paid out,   *)
(* with no call about it under way, cannot be paid again.                   *)
CreditsBalance ==
  /\ Total + Amount * Cardinality(Open) >= Funds
  /\ raced = {} => Total + Amount * Cardinality(Open) = Funds
  /\ \A c \in Contracts :
       IF c \in paid THEN status[c] = "funded" => Busy(c)
       ELSE status[c] \in {"none", "debited", "funded", "disputed"}

(* "Return escrowed funds to the payer": a contract holds the funds it was  *)
(* charged and pays them out once, so that no credits come into being.  It  *)
(* is violated: release(), refund() and checkExpired() look at a status     *)
(* that is set after the await of the ledger.                               *)
NothingCreated == Total + Amount * Cardinality(Open) <= Funds
==============================================================================
