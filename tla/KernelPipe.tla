------------------------------ MODULE KernelPipe ------------------------------
(***************************************************************************)
(* The in-memory pipes of browsermesh-kernel (byte-stream.mjs): a producer *)
(* writes into pipe 1, pipe() copies from it into pipe 2, a consumer reads *)
(* pipe 2.  A pipe is an AsyncBuffer between a writer end and a reader end *)
(* that close on their own.  Chunks are numbered by the producer.  The     *)
(* buffer's #paused flag, which neither end reads, is left out.            *)
(***************************************************************************)
EXTENDS Naturals, Sequences, SequencesExt

CONSTANTS
  HighWaterMark,   \* the length at which push() reports failure
  MaxChunks,       \* bound on the producer's writes
  MaxReads         \* bound on the reads the consumer has pending

VARIABLES
  buffer,         \* per pipe: queue, number of waiters, writeClosed, readClosed
  readerClosed,   \* per pipe: the flags of createPipe()'s two ends
  writerClosed,
  written,        \* number of chunks the first pipe took
  copier,         \* pipe(): what it does, and the chunk it holds
  got, ended      \* what the consumer read, and whether it read EOF

vars == <<buffer, readerClosed, writerClosed, written, copier, got, ended>>

Pipes == {1, 2}

TypeOK ==
  /\ buffer \in [Pipes -> [queue : Seq(1..MaxChunks), waiters : 0..MaxReads,
                           writeClosed : BOOLEAN, readClosed : BOOLEAN]]
  /\ readerClosed \in [Pipes -> BOOLEAN] /\ writerClosed \in [Pipes -> BOOLEAN]
  /\ written \in 0..MaxChunks
  /\ copier.pc \in {"read", "waiting", "write", "done", "failed"}
  /\ got \in Seq(1..MaxChunks) /\ ended \in BOOLEAN

Init ==
  /\ buffer = [p \in Pipes |-> [queue |-> <<>>, waiters |-> 0,
                                writeClosed |-> FALSE, readClosed |-> FALSE]]
  /\ readerClosed = [p \in Pipes |-> FALSE] /\ writerClosed = [p \in Pipes |-> FALSE]
  /\ written = 0 /\ copier = [pc |-> "read", chunk |-> <<>>] /\ got = <<>> /\ ended = FALSE

-----------------------------------------------------------------------------
(* AsyncBuffer *)

Open(b) == ~ b.writeClosed /\ ~ b.readClosed

(* push(): to the first waiter, or into the queue; the chunk that reaches   *)
(* the high-water mark is queued, and push() returns false all the same.    *)
Pushed(b, x) ==
  CASE ~ Open(b)     -> b
    [] b.waiters > 0 -> [b EXCEPT !.waiters = @ - 1]
    [] OTHER         -> [b EXCEPT !.queue = Append(@, x)]

PushFails(b) ==
  ~ Open(b) \/ (b.waiters = 0 /\ HighWaterMark > 0 /\ Len(b.queue) + 1 >= HighWaterMark)

(* closeWrite() and closeRead() answer all waiters with null. *)
ClosedWrite(b) == [b EXCEPT !.writeClosed = TRUE, !.waiters = 0]

ClosedRead(b) == [queue |-> <<>>, waiters |-> 0, writeClosed |-> TRUE, readClosed |-> TRUE]

(* What a read of pipe p resolves with goes to the copier or the consumer. *)
Resolve1(x) == copier' = [pc |-> "write", chunk |-> <<x>>]
Resolve2(x) == got' = Append(got, x)
Eof1 == copier' = [pc |-> "done", chunk |-> <<>>]
Eof2 == ended' = TRUE

-----------------------------------------------------------------------------
(* The ends of the pipes *)

(* writer.write() of the producer. *)
Write ==
  /\ written < MaxChunks /\ ~ writerClosed[1]
  /\ buffer' = [buffer EXCEPT ![1] = Pushed(@, written + 1)]
  /\ written' = IF Open(buffer[1]) THEN written + 1 ELSE written
  /\ writerClosed' = [writerClosed EXCEPT ![1] = PushFails(buffer[1])]
  /\ IF Open(buffer[1]) /\ buffer[1].waiters > 0 THEN Resolve1(written + 1) ELSE UNCHANGED copier
  /\ UNCHANGED <<readerClosed, got, ended>>

(* writer.close() *)
CloseWriter(p) ==
  /\ ~ writerClosed[p]
  /\ writerClosed' = [writerClosed EXCEPT ![p] = TRUE]
  /\ buffer' = [buffer EXCEPT ![p] = ClosedWrite(@)]
  /\ IF p = 1 /\ buffer[1].waiters > 0 THEN Eof1 ELSE UNCHANGED copier
  /\ IF p = 2 /\ buffer[2].waiters > 0 THEN Eof2 ELSE UNCHANGED ended
  /\ UNCHANGED <<readerClosed, written, got>>

(* reader.close() *)
CloseReader(p) ==
  /\ ~ readerClosed[p]
  /\ readerClosed' = [readerClosed EXCEPT ![p] = TRUE]
  /\ buffer' = [buffer EXCEPT ![p] = ClosedRead(@)]
  /\ IF p = 1 /\ buffer[1].waiters > 0 THEN Eof1 ELSE UNCHANGED copier
  /\ IF p = 2 /\ buffer[2].waiters > 0 THEN Eof2 ELSE UNCHANGED ended
  /\ UNCHANGED <<writerClosed, written, got>>

(* reader.read(), by the consumer: pull() from the queue, or null, or wait. *)
Read ==
  /\ buffer[2].waiters < MaxReads /\ ~ ended
  /\ \/ /\ ~ readerClosed[2] /\ buffer[2].queue # <<>>
        /\ Resolve2(Head(buffer[2].queue))
        /\ buffer' = [buffer EXCEPT ![2].queue = Tail(@)]
        /\ UNCHANGED ended
     \/ /\ readerClosed[2] \/ (buffer[2].queue = <<>> /\ ~ Open(buffer[2]))
        /\ Eof2 /\ UNCHANGED <<buffer, got>>
     \/ /\ ~ readerClosed[2] /\ buffer[2].queue = <<>> /\ Open(buffer[2])
        /\ buffer' = [buffer EXCEPT ![2].waiters = @ + 1]
        /\ UNCHANGED <<got, ended>>
  /\ UNCHANGED <<readerClosed, writerClosed, written, copier>>

-----------------------------------------------------------------------------
(* pipe(): reads and writes in turn *)

CopierRead ==
  /\ copier.pc = "read"
  /\ \/ /\ ~ readerClosed[1] /\ buffer[1].queue # <<>>
        /\ Resolve1(Head(buffer[1].queue))
        /\ buffer' = [buffer EXCEPT ![1].queue = Tail(@)]
     \/ /\ readerClosed[1] \/ (buffer[1].queue = <<>> /\ ~ Open(buffer[1]))
        /\ Eof1 /\ UNCHANGED buffer
     \/ /\ ~ readerClosed[1] /\ buffer[1].queue = <<>> /\ Open(buffer[1])
        /\ buffer' = [buffer EXCEPT ![1].waiters = 1]
        /\ copier' = [pc |-> "waiting", chunk |-> <<>>]
  /\ UNCHANGED <<readerClosed, writerClosed, written, got, ended>>

(* dst.write(chunk); when it throws, src.close() and dst.close(), of which  *)
(* the second finds the writer end closed already and does nothing.         *)
CopierWrite ==
  /\ copier.pc = "write"
  /\ LET x == copier.chunk[1]
         throws == writerClosed[2] \/ PushFails(buffer[2])
         dst == IF writerClosed[2] THEN buffer[2] ELSE Pushed(buffer[2], x)
     IN /\ writerClosed' = [writerClosed EXCEPT ![2] = throws]
        /\ IF ~ writerClosed[2] /\ Open(buffer[2]) /\ buffer[2].waiters > 0
           THEN Resolve2(x) ELSE UNCHANGED got
        /\ \/ /\ throws
              /\ readerClosed' = [readerClosed EXCEPT ![1] = TRUE]
              /\ buffer' = [buffer EXCEPT ![1] = IF readerClosed[1] THEN @ ELSE ClosedRead(@), ![2] = dst]
              /\ copier' = [pc |-> "failed", chunk |-> <<>>]
           \/ /\ ~ throws
              /\ buffer' = [buffer EXCEPT ![2] = dst]
              /\ copier' = [pc |-> "read", chunk |-> <<>>]
              /\ UNCHANGED readerClosed
  /\ UNCHANGED <<written, ended>>

Next ==
  \/ Write \/ Read \/ CopierRead \/ CopierWrite
  \/ \E p \in Pipes : CloseWriter(p) \/ CloseReader(p)

(* pipe() goes on when its promises settle, and the consumer keeps reading. *)
Fairness == WF_vars(CopierRead) /\ WF_vars(CopierWrite) /\ WF_vars(Read)

Spec == Init /\ [][Next]_vars /\ Fairness

-----------------------------------------------------------------------------
(* The chunks the consumer read, those in the second pipe, the one pipe()   *)
(* holds and those in the first pipe are what was written, in that order,   *)
(* without gaps; only a closed reader or a pipe() that gave up loses any,   *)
(* and then the last ones.                                                  *)
(* And no reader waits while there is something to read or after EOF.       *)
InOrderNoneWaitsInVain ==
  LET way == got \o buffer[2].queue \o copier.chunk \o buffer[1].queue
      all == [i \in 1..written |-> i]
  IN /\ IsPrefix(IF readerClosed[2] THEN got ELSE way, all)
     /\ ~ readerClosed[1] /\ ~ readerClosed[2] /\ copier.pc # "failed" => way = all
     /\ \A p \in Pipes : buffer[p].waiters > 0 => buffer[p].queue = <<>> /\ Open(buffer[p])

(* "Closing either endpoint propagates EOF to the other": when the writer   *)
(* end of the second pipe is closed, a consumer that keeps reading gets to  *)
(* EOF (or closes its end).  Not so after a write that met the high-water   *)
(* mark: the end counts as closed, the buffer does not, and close() does    *)
(* nothing.                                                                 *)
EofReachesReader == writerClosed[2] ~> (ended \/ readerClosed[2])
==============================================================================
