-------------------------- MODULE InstallationLedger --------------------------
(***************************************************************************)
(* What the Installation registry promises to its callers, without Hosts,  *)
(* locks, staging, rollback or recovery: an Installation has a revision, a *)
(* status and a state tree, a mutation changes all of them in one step     *)
(* together with the idempotency claim that stands for it, and only a Run  *)
(* writes the state tree otherwise.  A mutation and a Run of one           *)
(* Installation exclude each other.                                        *)
(***************************************************************************)
EXTENDS Naturals

CONSTANTS Installations, Keys, Contents, Empty, None

\* installed: Installation -> view or None;  state: Installation -> its state
\* tree;  claimed: idempotency key -> the result committed under it or None;
\* running: the Installations a Run or a secret store holds a guard on.
VARIABLES installed, state, claimed, running

ledgerVars == <<installed, state, claimed, running>>

Idle(i) == i \notin running /\ UNCHANGED running

\* The result v of a mutation of i is claimed under a key that was free.
Claim(i, v) ==
  \E k \in Keys : /\ claimed[k] = None
                  /\ claimed' = [claimed EXCEPT ![k] = [inst |-> i, view |-> v]]

Create(i) ==
  LET v == [status |-> "ready", rev |-> 1, snap |-> None]
  IN  /\ Idle(i)
      /\ installed[i] = None
      /\ installed' = [installed EXCEPT ![i] = v]
      /\ Claim(i, v)
      /\ UNCHANGED state

\* An update keeps the state tree or replaces it; what it replaces is the
\* snapshot of its rollback pointer.
Update(i) ==
  \E snap \in {None, state[i]}, c \in Contents :
    LET v == [status |-> "ready", rev |-> installed[i].rev + 1, snap |-> snap]
    IN  /\ Idle(i)
        /\ installed[i] # None /\ installed[i].status = "ready"
        /\ c # state[i] => snap = state[i]
        /\ installed' = [installed EXCEPT ![i] = v]
        /\ state' = [state EXCEPT ![i] = c]
        /\ Claim(i, v)

\* A removal keeps the state tree or deletes it.
Remove(i) ==
  LET v == [installed[i] EXCEPT !.status = "removed", !.rev = @ + 1]
  IN  /\ Idle(i)
      /\ installed[i] # None /\ installed[i].status = "ready"
      /\ installed' = [installed EXCEPT ![i] = v]
      /\ \E c \in {state[i], Empty} : state' = [state EXCEPT ![i] = c]
      /\ Claim(i, v)

\* A mutation that changes nothing is claimed too.
Keep(i) ==
  /\ Idle(i)
  /\ installed[i] # None
  /\ Claim(i, installed[i])
  /\ UNCHANGED <<installed, state>>

RunWrite(i) ==
  /\ i \in running
  /\ \E c \in Contents : state' = [state EXCEPT ![i] = c]
  /\ UNCHANGED <<installed, claimed, running>>

BeginRun(i) ==
  /\ installed[i] # None /\ installed[i].status = "ready"
  /\ running' = running \cup {i}
  /\ UNCHANGED <<installed, state, claimed>>

\* Runs end one by one, or together with their Host.
EndRuns ==
  /\ running' \in SUBSET running
  /\ UNCHANGED <<installed, state, claimed>>

LedgerInit ==
  /\ installed = [i \in Installations |-> None]
  /\ state = [i \in Installations |-> Empty]
  /\ claimed = [k \in Keys |-> None]
  /\ running = {}

LedgerNext ==
  \/ \E i \in Installations :
       Create(i) \/ Update(i) \/ Remove(i) \/ Keep(i) \/ RunWrite(i) \/ BeginRun(i)
  \/ EndRuns

LedgerSpec == LedgerInit /\ [][LedgerNext]_ledgerVars

=============================================================================
