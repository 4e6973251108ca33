-------------------------- MODULE OperationJournal --------------------------
(***************************************************************************)
(* The journal of target operations (target_agent/operation.rs): one        *)
(* compare-and-append log, shared by every Host of the profile, that holds  *)
(* snapshots of operation records, the fences of the Hosts and the claims   *)
(* of local executors.  It is kept as what its replay yields; poisoned says *)
(* that it ends in an event that apply_operation_event refuses, and that    *)
(* every later synchronisation stops at.                                    *)
(*                                                                         *)
(* A Host is named by the term of its owner lease: the owner id is a fresh  *)
(* uuid of every Host process.  An execution id is named by what minted it: *)
(* the term of the Host that claimed, or the epoch of the agent that        *)
(* accepted.  0 stands for none.  A revision identifies a record among the  *)
(* records that an operation ever had, and no two of these are equal, so an *)
(* event carries the record it replaces where the code compares revisions.  *)
(***************************************************************************)
EXTENDS Naturals

CONSTANTS
  Operations,  \* operation ids, numbered in the order they are created
  Keys,        \* (target, Installation, idempotency key) of the requests
  None

VARIABLES
  record,      \* TargetOperationRecord, of every operation
  fence,       \* owner of the current TargetOperationHostFence
  claim,       \* TargetOperationExecutorClaim, of every operation
  length,      \* events in the journal
  poisoned     \* it ends in an event that the replay refuses

journal == <<record, fence, claim, length, poisoned>>

Terminal == {"succeeded", "failed", "unknown", "expired"}
Statuses == {"none", "requested", "accepted", "running"} \cup Terminal

NoRecord == [status |-> "none", exec |-> 0, key |-> None, epoch |-> 0]
NoClaim == [owner |-> 0, exec |-> 0]

IsTerminal(o) == record[o].status \in Terminal
Created == {o \in Operations : record[o].status # "none"}

JournalInit ==
  /\ record = [o \in Operations |-> NoRecord]
  /\ fence = 0
  /\ claim = [o \in Operations |-> NoClaim]
  /\ length = 0
  /\ poisoned = FALSE

-----------------------------------------------------------------------------
(* Events, as the writer builds them from what it last read.               *)

NoEvent == [kind |-> "none", op |-> 0, was |-> NoRecord, new |-> NoRecord]
FenceEvent(t) == [kind |-> "fence", op |-> 0, was |-> fence, new |-> t]
ClaimEvent(o, t, x) ==
  [kind |-> "claim", op |-> o, was |-> claim[o], new |-> [owner |-> t, exec |-> x]]
RecordEvent(o, r) == [kind |-> "record", op |-> o, was |-> record[o], new |-> r]

\* valid_status_transition and valid_execution_owner_transition
ValidTransition(r, n) ==
  \/ /\ r.status = "requested" /\ r.exec = 0
     /\ \/ n.status = "accepted" /\ n.exec # 0
        \/ n.status = "expired" /\ n.exec = 0
  \/ /\ r.status = "accepted" /\ r.exec # 0 /\ n.exec = r.exec
     /\ n.status \in {"running", "succeeded", "failed", "unknown"}
  \/ /\ r.status = "running" /\ r.exec # 0 /\ n.exec = r.exec
     /\ n.status \in {"succeeded", "failed", "unknown"}

\* A generation is one more than the one before: it replaces what was read.
FenceReplays(e) == e.was = fence /\ e.new # fence

ClaimReplays(e) ==
  LET o == e.op
  IN  /\ record[o].status \in Statuses \ (Terminal \cup {"none"})
      /\ e.new.owner = fence
      /\ e.was = claim[o]
      /\ claim[o] # NoClaim =>
           /\ e.new.owner # claim[o].owner
           /\ record[o].exec \in {0, e.new.exec}

RecordReplays(e) ==
  LET o == e.op
  IN  /\ e.was = record[o]
      /\ IF record[o].status = "none"
         THEN /\ e.new.status = "requested" /\ e.new.exec = 0
              /\ \A p \in Created : record[p].key # e.new.key
         ELSE ValidTransition(record[o], e.new)

\* apply_operation_event
Replays(e) ==
  CASE e.kind = "fence" -> FenceReplays(e)
    [] e.kind = "claim" -> ClaimReplays(e)
    [] e.kind = "record" -> RecordReplays(e)

\* append_with_sequence_if_next, when the expected sequence is the next one.
AppendEvent(e) ==
  /\ length' = length + 1
  /\ IF ~poisoned /\ Replays(e)
     THEN /\ fence' = IF e.kind = "fence" THEN e.new ELSE fence
          /\ claim' = IF e.kind = "claim" THEN [claim EXCEPT ![e.op] = e.new] ELSE claim
          /\ record' = IF e.kind = "record" THEN [record EXCEPT ![e.op] = e.new] ELSE record
          /\ UNCHANGED poisoned
     ELSE poisoned' = TRUE /\ UNCHANGED <<record, fence, claim>>

=============================================================================
