------------------------------- MODULE MCStreams -------------------------------
(***************************************************************************)
(* The stream multiplexer and file transfers, model-checked: one stream    *)
(* with writes, credits and every way to close it; two streams that        *)
(* compete for one place, so that one end refuses what the other has       *)
(* opened; and a file of two chunks.  A behaviour runs one of the three.   *)
(* The properties of StreamMux speak of the first stream, which is one of  *)
(* the two that compete; the two are interchangeable.                      *)
(***************************************************************************)
EXTENDS StreamMux

CONSTANTS
  TwoStreams,   \* the identifiers of the second
  Total,        \* chunks of the file
  MaxArrivals,  \* bound on receiveChunk() calls
  MaxAccepts    \* bound on acceptOffer() calls

ASSUME StreamsAssumption ==
  /\ Stream \subseteq TwoStreams /\ IsFiniteSet(TwoStreams)
  /\ Total \in Nat /\ MaxAccepts \in Nat

VARIABLES
  run,
  status, offers, counted, stored, pos, yielded, verifying, arrivals, mail, reported, accepts
                                                             \* FileTransfer

file == <<status, offers, counted, stored, pos, yielded, verifying, arrivals, mail, reported,
          accepts>>

Two == INSTANCE StreamMux WITH
  Stream <- TwoStreams, InitialCredits <- 1, MaxCredits <- 1, MaxSize <- 1, MaxWrites <- 0

File == INSTANCE FileTransfer

MCInit ==
  /\ File!Init
  /\ \/ run \in {"one", "file"} /\ Init
     \/ run = "two" /\ Two!Init

MCNext ==
  \/ run = "one" /\ Next /\ UNCHANGED <<run, file>>
  \/ run = "two" /\ Two!Next /\ UNCHANGED <<run, file>>
  \/ run = "file" /\ File!Next /\ UNCHANGED <<run, vars>>

(* The wires deliver what they carry. *)
MCFairness ==
  \A p \in Peer : /\ WF_vars(run = "one" /\ Deliver(p))
                  /\ WF_vars(run = "two" /\ Two!Deliver(p))

MCSpec == MCInit /\ [][MCNext]_<<run, vars, file>> /\ MCFairness

-----------------------------------------------------------------------------
(* The payloads of a stream come out in the order they were written and     *)
(* none twice; those in a queue that Reload or a cancel drops are missing.  *)
(* A file is announced only when each of its chunks was verified and        *)
(* stored, whatever arrived twice or corrupted and whoever cancelled or     *)
(* accepted anew.                                                           *)
DeliveredInOrderAndWhole == DeliveredInOrder /\ (run = "file" => File!ReportsAreTrue)

(* The inductive invariant.  The two streams that compete carry no payload. *)
NothingWritten ==
  /\ tracked \in [Peer -> SUBSET TwoStreams]
  /\ sendCredits \in [Peer -> [TwoStreams -> Nat]]
  /\ recvCredits \in [Peer -> [TwoStreams -> Nat]]
  /\ sendQueue = [p \in Peer |-> [s \in TwoStreams |-> <<>>]]
  /\ delivered = [p \in Peer |-> [s \in TwoStreams |-> <<>>]]
  /\ written = [p \in Peer |-> [s \in TwoStreams |-> 0]]
  /\ chan \in [Peer -> Seq({m \in Two!Message : m.t # "DATA"})]

StreamsInv ==
  /\ run \in {"one", "two", "file"}
  /\ IF run = "two" THEN NothingWritten ELSE IInv /\ OrderInv
  /\ File!ReportsInv
==============================================================================
