---------------------------- MODULE MeterWriter ----------------------------
(***************************************************************************)
(* The gateway's metering writer (internal/meter/writer.go): request       *)
(* records are buffered in memory and inserted into the database by the    *)
(* goroutine whose Record fills a batch, or by the flush loop.             *)
(*                                                                         *)
(* The rows are independent of each other, so the buffer and the batches   *)
(* are sets: their order is left out.  A flush holds the lock only while   *)
(* it takes the buffer; its inserts interleave with everything else, and   *)
(* several flushes can be under way at once.                               *)
(***************************************************************************)
EXTENDS Integers, FiniteSets

CONSTANTS Records,     \* the request records, each recorded once at most
          Callers,     \* goroutines that call Record
          Loop,        \* the goroutine of flushLoop
          BatchSize

ASSUME WriterAssumption == BatchSize \in Nat /\ Loop \notin Callers

VARIABLES recorded,    \* records ever passed to Record
          buffer,
          pc,          \* per goroutine: "idle", "flush" (about to), "write", "stopped"
          batch,       \* per goroutine: what its Flush has yet to insert
          late,        \* per goroutine: the 10 s of its Flush are over
          stored,      \* rows of the requests table
          failed,      \* records whose insert returned an error
          closed,      \* Close was called
          leaving,     \* flushLoop has received from done
          remaining,   \* what was not yet written when Close was called
          life         \* the process: "up", "exited" (after Close), "crashed"

vars == <<recorded, buffer, pc, batch, late, stored, failed, closed, leaving,
          remaining, life>>

Flushers == Callers \cup {Loop}
Up       == life = "up"
Written  == stored \cup failed

Init ==
  /\ recorded = {} /\ buffer = {}
  /\ pc = [p \in Flushers |-> "idle"]
  /\ batch = [p \in Flushers |-> {}]
  /\ late = [p \in Flushers |-> FALSE]
  /\ stored = {} /\ failed = {}
  /\ closed = FALSE /\ leaving = FALSE /\ remaining = {}
  /\ life = "up"

\* Where a goroutine is after its Flush: flushLoop returns once it has seen done.
Rest(p) == IF p = Loop /\ leaving THEN "stopped" ELSE "idle"

\* Mutant: a full batch is recognised one record too late.
FullTooLate(b) == Cardinality(b) > BatchSize

Full(b) == Cardinality(b) >= BatchSize

Record(c, r) ==
  /\ Up /\ pc[c] = "idle" /\ r \notin recorded
  /\ recorded' = recorded \cup {r}
  /\ buffer' = buffer \cup {r}
  /\ pc' = [pc EXCEPT ![c] = IF Full(buffer') THEN "flush" ELSE "idle"]
  /\ UNCHANGED <<batch, late, stored, failed, closed, leaving, remaining, life>>

\* Mutant: the buffer is copied but not replaced.
TakeKeepsBuffer(p) ==
  /\ Up /\ pc[p] = "flush"
  /\ batch' = [batch EXCEPT ![p] = buffer]
  /\ pc' = [pc EXCEPT ![p] = IF buffer = {} THEN Rest(p) ELSE "write"]
  /\ UNCHANGED <<recorded, buffer, late, stored, failed, closed, leaving, remaining, life>>

\* Flush under the lock: an empty buffer is left alone, any other is taken whole.
Take(p) ==
  /\ Up /\ pc[p] = "flush"
  /\ batch' = [batch EXCEPT ![p] = buffer]
  /\ buffer' = {}
  /\ pc' = [pc EXCEPT ![p] = IF buffer = {} THEN Rest(p) ELSE "write"]
  /\ UNCHANGED <<recorded, late, stored, failed, closed, leaving, remaining, life>>

\* The timeout is for the whole batch: from here on every insert fails.
Deadline(p) ==
  /\ Up /\ pc[p] = "write" /\ ~late[p]
  /\ late' = [late EXCEPT ![p] = TRUE]
  /\ UNCHANGED <<recorded, buffer, pc, batch, stored, failed, closed, leaving,
                 remaining, life>>

(***************************************************************************)
(* One Exec of the loop over the batch.  An error is logged and the record *)
(* dropped; an error that comes from the connection or the deadline does   *)
(* not say whether the row was committed.                                  *)
(***************************************************************************)
Insert(p, r) ==
  /\ Up /\ pc[p] = "write" /\ r \in batch[p]
  /\ \/ /\ ~late[p]
        /\ stored' = stored \cup {r}
        /\ UNCHANGED failed
     \/ /\ failed' = failed \cup {r}
        /\ stored' \in {stored, IF late[p] THEN stored ELSE stored \cup {r}}
  /\ batch' = [batch EXCEPT ![p] = @ \ {r}]
  /\ pc' = [pc EXCEPT ![p] = IF batch'[p] = {} THEN Rest(p) ELSE "write"]
  /\ late' = [late EXCEPT ![p] = @ /\ batch'[p] # {}]
  /\ UNCHANGED <<recorded, buffer, closed, leaving, remaining, life>>

\* flushLoop's select: the ticker and done may both be ready, and either is chosen.
TickerFires ==
  /\ Up /\ pc[Loop] = "idle"
  /\ pc' = [pc EXCEPT ![Loop] = "flush"]
  /\ UNCHANGED <<recorded, buffer, batch, late, stored, failed, closed, leaving,
                 remaining, life>>

\* Mutant: flushLoop returns at once when it receives from done.
DoneReceivedStops ==
  /\ Up /\ pc[Loop] = "idle" /\ closed
  /\ leaving' = TRUE
  /\ pc' = [pc EXCEPT ![Loop] = "stopped"]
  /\ UNCHANGED <<recorded, buffer, batch, late, stored, failed, closed, remaining, life>>

DoneReceived ==
  /\ Up /\ pc[Loop] = "idle" /\ closed
  /\ leaving' = TRUE
  /\ pc' = [pc EXCEPT ![Loop] = "flush"]
  /\ UNCHANGED <<recorded, buffer, batch, late, stored, failed, closed, remaining, life>>

\* Close only closes done: it waits for nobody.
Close ==
  /\ Up /\ ~closed
  /\ closed' = TRUE
  /\ remaining' = recorded \ Written
  /\ UNCHANGED <<recorded, buffer, pc, batch, late, stored, failed, leaving, life>>

\* The process ends: main returns after Close, or it is killed at any time.
End ==
  /\ Up
  /\ life' = IF closed THEN "exited" ELSE "crashed"
  /\ UNCHANGED <<recorded, buffer, pc, batch, late, stored, failed, closed, leaving,
                 remaining>>

Flush(p) == Take(p) \/ Deadline(p) \/ \E r \in Records : Insert(p, r)

Next ==
  \/ \E c \in Callers, r \in Records : Record(c, r)
  \/ \E p \in Flushers : Flush(p)
  \/ TickerFires
  \/ DoneReceived
  \/ Close
  \/ End

Spec == Init /\ [][Next]_vars

(***************************************************************************)
(* A goroutine that can run does; the ticker keeps firing; and select, which *)
(* chooses at random among what is ready, does not pass over done forever. *)
(***************************************************************************)
FairSpec ==
  /\ Spec
  /\ \A p \in Flushers : WF_vars(Take(p)) /\ WF_vars(\E r \in Records : Insert(p, r))
  /\ WF_vars(TickerFires)
  /\ SF_vars(DoneReceived)

-----------------------------------------------------------------------------
\* Types, and what each goroutine has in hand where it is: a flush that took
\* something is writing it, and only the loop stops, after Close.
TypeOK ==
  /\ recorded \subseteq Records /\ buffer \subseteq Records
  /\ pc \in [Flushers -> {"idle", "flush", "write", "stopped"}]
  /\ batch \in [Flushers -> SUBSET Records]
  /\ late \in [Flushers -> BOOLEAN]
  /\ stored \subseteq Records /\ failed \subseteq Records
  /\ closed \in BOOLEAN /\ leaving \in BOOLEAN
  /\ remaining \subseteq Records
  /\ life \in {"up", "exited", "crashed"}
  /\ leaving => closed
  /\ \A p \in Flushers : /\ batch[p] # {} <=> pc[p] = "write"
                         /\ late[p] => pc[p] = "write"
                         /\ pc[p] = "stopped" => p = Loop /\ closed

(***************************************************************************)
(* A record passed to Record is in the buffer, in the batch of one flush,  *)
(* or tried: never in two of these, so that no request is billed twice,    *)
(* and never nowhere.                                                      *)
(***************************************************************************)
InFlight == UNION {batch[p] : p \in Flushers}

OnePlace ==
  /\ recorded = buffer \cup InFlight \cup Written
  /\ buffer \cap InFlight = {}
  /\ (buffer \cup InFlight) \cap Written = {}
  /\ \A p, q \in Flushers : p # q => batch[p] \cap batch[q] = {}

(***************************************************************************)
(* The buffer holds less than a batch, but for one record of each caller   *)
(* that is about to flush: no full buffer is left to wait for the ticker,  *)
(* even when the caller that filled it finds another's flush in its way.   *)
(***************************************************************************)
Flushing == {c \in Callers : pc[c] = "flush"}
LessThanBatch == IF BatchSize = 0 THEN 0 ELSE BatchSize - 1

BufferBound == Cardinality(buffer) <= LessThanBatch + Cardinality(Flushing)

(***************************************************************************)
(* A record taken before Close does not stay in memory: its insert is      *)
(* tried, unless the process ends first.                                   *)
(***************************************************************************)
RecordsLeaveMemory ==
  \A r \in Records : (r \in recorded /\ ~closed) ~> (r \in Written \/ ~Up)

(***************************************************************************)
(* "Close stops the flush loop and writes remaining records" (writer.go,   *)
(* 109): a process that ends after Close has written what was recorded     *)
(* before it.                                                              *)
(***************************************************************************)
CloseWritesRemaining == life = "exited" => remaining \subseteq Written
=============================================================================
