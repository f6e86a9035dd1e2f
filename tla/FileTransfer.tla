----------------------------- MODULE FileTransfer -----------------------------
(***************************************************************************)
(* MeshFileTransfer of browsermesh-sync/src/files.mjs: one transfer of a   *)
(* file whose chunks differ, between the pod that offers it and the pod    *)
(* that takes it.  sendChunks() and receiveChunk() await a hash for every  *)
(* chunk, and control messages, repeated or corrupted chunks and the       *)
(* users' calls come in between.  The wires reorder, and what they lose is *)
(* never dispatched.                                                       *)
(***************************************************************************)
EXTENDS Integers, Sequences

CONSTANTS
  Total,        \* number of chunks
  MaxArrivals,  \* bound on receiveChunk() calls
  MaxAccepts    \* bound on acceptOffer() calls

VARIABLES
  status,     \* of each TransferState; "none" before it is made
  offers,     \* the ends that hold the offer in #offers
  counted,    \* per TransferState: what addChunk() has counted
  stored,     \* the taker's ChunkStore
  pos,        \* chunks yielded by the sendChunks() in progress; -1 when there is none
  yielded,    \* the chunks it has handed out so far
  verifying,  \* receiveChunk() calls at the hash: <<TransferState, chunk>> -> number
  arrivals,   \* receiveChunk() calls so far
  mail,       \* control messages under way: <<to, type>>
  reported,   \* receiveChunk() has announced that the file is complete
  accepts

transfer == <<status, offers, counted>>
receiving == <<stored, verifying, arrivals, reported>>
vars == <<transfer, receiving, pos, yielded, mail, accepts>>

Chunk == 1..Total
End == {"sender", "taker"}
Other(e) == IF e = "sender" THEN "taker" ELSE "sender"

(* The TransferStates: the sender's, none, and one for each accepted offer. *)
States == 0..(MaxAccepts + 1)
Current(e) == IF e = "sender" THEN 0 ELSE accepts + 1

Emit(e, type) == mail' = mail \cup {<<Other(e), type>>}
Becomes(e, s) == status' = [status EXCEPT ![Current(e)] = s]

Init ==
  /\ status = [t \in States |-> "none"]
  /\ offers = {} /\ stored = {} /\ yielded = {} /\ mail = {}
  /\ counted = [t \in States |-> <<>>]
  /\ pos = -1
  /\ verifying = [x \in States \X Chunk |-> 0] /\ arrivals = 0
  /\ reported = FALSE /\ accepts = 0
-----------------------------------------------------------------------------
CreateOffer ==
  /\ status[0] = "none"
  /\ Becomes("sender", "offered")
  /\ offers' = offers \cup {"sender"}
  /\ Emit("sender", "offer")
  /\ UNCHANGED <<counted, receiving, pos, yielded, accepts>>

(* acceptOffer() makes a new TransferState, also for an offer accepted      *)
(* before; the offer is one the taker has received and not refused.         *)
AcceptOffer ==
  /\ "taker" \in offers /\ accepts < MaxAccepts
  /\ accepts' = accepts + 1
  /\ status' = [status EXCEPT ![Current("taker") + 1] = "accepted"]
  /\ Emit("taker", "accept")
  /\ UNCHANGED <<offers, counted, receiving, pos, yielded>>

RejectOffer ==
  /\ "taker" \in offers
  /\ offers' = offers \ {"taker"}
  /\ IF accepts = 0 THEN UNCHANGED status ELSE Becomes("taker", "cancelled")
  /\ Emit("taker", "reject")
  /\ UNCHANGED <<counted, receiving, pos, yielded, accepts>>

(* The message goes out also when the transfer has ended.                   *)
CancelTransfer(e) ==
  /\ status[Current(e)] # "none"
  /\ IF status[Current(e)] \in {"completed", "cancelled"} THEN UNCHANGED status
     ELSE Becomes(e, "cancelled")
  /\ Emit(e, "cancel")
  /\ UNCHANGED <<offers, counted, receiving, pos, yielded, accepts>>
-----------------------------------------------------------------------------
(* TransferState.addChunk(): a chunk counts once.                           *)
AddChunk(seq, c) == IF \E i \in DOMAIN seq : seq[i] = c THEN seq ELSE Append(seq, c)

StartSending ==
  /\ "sender" \in offers /\ pos = -1 /\ yielded = {}
  /\ Becomes("sender", "transferring")
  /\ pos' = 0
  /\ UNCHANGED <<offers, counted, receiving, yielded, mail, accepts>>

(* The hash of the next chunk is there: addChunk() sets "transferring",     *)
(* whatever was set meanwhile.                                              *)
SendChunk ==
  /\ pos \in 0..(Total - 1)
  /\ Becomes("sender", "transferring")
  /\ counted' = [counted EXCEPT ![0] = AddChunk(@, pos + 1)]
  /\ pos' = pos + 1
  /\ yielded' = yielded \cup {pos + 1}
  /\ UNCHANGED <<offers, receiving, mail, accepts>>

EndSending ==
  /\ pos = Total
  /\ pos' = -1
  /\ IF Len(counted[0]) >= Total
       THEN Becomes("sender", "completed") /\ Emit("sender", "complete")
       ELSE UNCHANGED <<status, mail>>
  /\ UNCHANGED <<offers, counted, receiving, yielded, accepts>>

(* receiveChunk() looks the TransferState up before it verifies the chunk.  *)
ChunkArrives(c) ==
  /\ c \in yielded /\ arrivals < MaxArrivals /\ accepts > 0
  /\ arrivals' = arrivals + 1
  /\ verifying' = [verifying EXCEPT ![<<Current("taker"), c>>] = @ + 1]
  /\ UNCHANGED <<transfer, stored, reported, pos, yielded, mail, accepts>>

ChunkCorrupted(t, c) ==
  /\ verifying[t, c] > 0
  /\ verifying' = [verifying EXCEPT ![<<t, c>>] = @ - 1]
  /\ UNCHANGED <<transfer, stored, arrivals, reported, pos, yielded, mail, accepts>>

ChunkVerified(t, c) ==
  LET got == AddChunk(counted[t], c) IN
  /\ verifying[t, c] > 0
  /\ verifying' = [verifying EXCEPT ![<<t, c>>] = @ - 1]
  /\ stored' = stored \cup {c}
  /\ counted' = [counted EXCEPT ![t] = got]
  /\ IF Len(got) >= Total
       THEN /\ status' = [status EXCEPT ![t] = "completed"]
            /\ reported' = TRUE
            /\ Emit("taker", "complete")
       ELSE status' = [status EXCEPT ![t] = "transferring"] /\ UNCHANGED <<reported, mail>>
  /\ UNCHANGED <<offers, arrivals, pos, yielded, accepts>>
-----------------------------------------------------------------------------
(* dispatch(): what a control message does to the end it reaches.           *)
AfterMessage(s, type) ==
  IF s = "none" THEN s
  ELSE CASE type = "accept" -> "accepted"
         [] type = "reject" -> "cancelled"
         [] type = "complete" -> "completed"
         [] type = "cancel" -> IF s = "completed" THEN s ELSE "cancelled"
         [] type = "offer" -> s

Dispatch(m) ==
  /\ mail' = mail \ {m}
  /\ Becomes(m[1], AfterMessage(status[Current(m[1])], m[2]))
  /\ offers' = CASE m[2] = "offer" -> offers \cup {m[1]}
                 [] m[2] = "reject" -> offers \ {m[1]}
                 [] OTHER -> offers
  /\ UNCHANGED <<counted, receiving, pos, yielded, accepts>>

Next ==
  \/ CreateOffer \/ AcceptOffer \/ RejectOffer \/ StartSending \/ SendChunk \/ EndSending
  \/ \E e \in End : CancelTransfer(e)
  \/ \E c \in Chunk : ChunkArrives(c)
  \/ \E t \in States, c \in Chunk : ChunkCorrupted(t, c) \/ ChunkVerified(t, c)
  \/ \E m \in mail : Dispatch(m)

Spec == Init /\ [][Next]_vars
-----------------------------------------------------------------------------
(* receiveChunk() announces a file only when the store holds each of its    *)
(* chunks, verified, whatever arrived twice, corrupted or after the offer   *)
(* was accepted anew; and sendChunks() says so only of chunks it handed out.*)
ReportsAreTrue ==
  /\ reported => stored = Chunk
  /\ <<"taker", "complete">> \in mail => yielded = Chunk

(* Why the reports are true: each TransferState counts a chunk once, the    *)
(* taker's ones only chunks it has stored and the sender's only chunks it   *)
(* has handed out, and no arriving chunk is counted for the sender.         *)
CountsAreTrue ==
  /\ accepts \in Nat /\ yielded \subseteq Chunk /\ stored \subseteq Chunk
  /\ verifying \in [States \X Chunk -> Int]
  /\ \A c \in Chunk : verifying[0, c] = 0
  /\ counted \in [States -> Seq(Chunk)]
  /\ \A t \in States : \A i, j \in DOMAIN counted[t] :
       /\ counted[t][i] \in (IF t = 0 THEN yielded ELSE stored)
       /\ counted[t][i] = counted[t][j] => i = j

ReportsInv == CountsAreTrue /\ ReportsAreTrue
==============================================================================
