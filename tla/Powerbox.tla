------------------------------ MODULE Powerbox ------------------------------
(***************************************************************************)
(* The Powerbox of one Host: the durable registry of Exposures and Bindings *)
(* (plurora-service/src/powerbox.rs) together with the Runtime's broker of  *)
(* transient binding generations (plurora-runtime/src/binding_runtime.rs).  *)
(*                                                                         *)
(* An Exposure or a Binding ends in two durable steps: a private closing    *)
(* intent, then the public terminal event.  Between the two the broker      *)
(* closes the generations of the Bindings concerned and waits until every   *)
(* invocation they admitted has settled (close_binding_barrier).            *)
(*                                                                         *)
(* The journal is kept as what its replay yields: status, of, closing and   *)
(* claims; poisoned says that it ends in an event that the replay refuses.  *)
(* The Host's projection is that same state, because every operation syncs  *)
(* under the mutation lock.  One Run provides all Exposures and all         *)
(* Bindings share one import Port, hence one activation per Binding.        *)
(***************************************************************************)
EXTENDS Naturals, FiniteSets, Sequences

CONSTANTS
  Exposures, Bindings, \* the objects; each stands for the request that opens it
  Keys,                \* idempotency keys of revocations
  Expiring,            \* the objects that have an expiry of their own
  Workers,             \* concurrent requests, background tasks and invocations
  None,
  Capacity,            \* the import Port's multiplicity.max
  MaxGenerations,      \* bound: generations minted in the life of one Host
  MaxFaults            \* bound: store errors and crashes

ASSUME PowerboxAssumption ==
  /\ Capacity \in Nat /\ MaxGenerations \in Nat /\ MaxFaults \in Nat
  /\ Exposures \cap Bindings = {} /\ Expiring \subseteq Exposures \cup Bindings
  /\ None \notin Exposures \cup Bindings \cup Workers

VARIABLES
  status,       \* journal: "none", "open" (active, selected), "revoked", "expired"
  of,           \* journal: the Exposure of a Binding
  closing,      \* journal: the closing intent of an object
  claims,       \* journal: the object a key was used to revoke
  poisoned,     \* the journal ends in an event apply_event refuses
  public,       \* how often an object's events are in the public journal
  phase,        \* "down", "booting", "up"
  mutation,     \* holder of PowerboxRegistry.mutation, and of the projection
  closeSerial,  \* holder of RunBindingBroker.close_serial
  attachSerial, \* holder of RunBindingBroker.attach_serial
  attached,     \* Projection.attachments
  generation,   \* by_handle: the open generation of a Binding, or 0
  minted,       \* BrokerState.next_generation
  cleanup,      \* BrokerState.pending_cleanup
  task,         \* what each worker is doing
  expired,      \* objects whose expiry has passed
  faults        \* faults left

journal == <<status, of, closing, claims, poisoned>>
locks == <<mutation, closeSerial, attachSerial>>
broker == <<attached, generation, minted, cleanup>>
vars == <<journal, public, phase, locks, broker, task, expired, faults>>

Objects == Exposures \cup Bindings
Terminal == {"revoked", "expired"}

\* An intent: terminal_status, what asked for it, and the Bindings it names.
\* reason_code is told apart by the terminal status and the claim.
Intents == [status : Terminal, claim : Keys \cup {None}, affected : SUBSET Bindings]

ASSUME IntentAssumption == None \notin Intents

IdleTask ==
  [pc |-> "idle", op |-> "none", obj |-> None, key |-> None,
   then |-> <<>>, todo |-> {}, why |-> "revoked", cur |-> None, intent |-> None,
   affected |-> {}, barriered |-> {}, at |-> None, shut |-> 0, gen |-> 0]

-----------------------------------------------------------------------------
(* Steps of a task.                                                        *)

At(w, pc) == task[w].pc = pc
SetTask(w, t) == task' = [task EXCEPT ![w] = t]

\* The step after the last closing of the list, or the next closing.
Proceed(t) ==
  IF t.todo # {} THEN [t EXCEPT !.pc = "begin"]
  ELSE IF t.then = <<>> THEN IdleTask
  ELSE [t EXCEPT !.pc = Head(t.then), !.then = Tail(t.then), !.why = "revoked"]

\* close_binding: the barrier alone, whatever it returns.
BarrierOnly(b, g) ==
  [IdleTask EXCEPT !.pc = "barrier", !.op = "close", !.affected = {b}, !.shut = g]

\* An error return.  Every failure of validate_permit once the generation is
\* read closes the Binding's generations; a hydrate that fails ends the Host.
FailTask(t) == IF t.op = "invoke" THEN BarrierOnly(t.obj, 0) ELSE IdleTask

Release(w) ==
  /\ mutation' = IF mutation = w THEN None ELSE mutation
  /\ closeSerial' = IF closeSerial = w THEN None ELSE closeSerial
  /\ attachSerial' = IF attachSerial = w THEN None ELSE attachSerial

Fails(w) ==
  /\ SetTask(w, FailTask(task[w]))
  /\ Release(w)
  /\ phase' = IF task[w].op = "hydrate" THEN "down" ELSE phase

Continues(w, t) == SetTask(w, t) /\ UNCHANGED phase

Fault == faults > 0 /\ faults' = faults - 1
NoFault == UNCHANGED faults

Opened == {o \in Objects : status[o] = "open"}
Selected(e) == {b \in Bindings : status[b] = "open" /\ of[b] = e}

\* prepare, attach and validate_binding_current agree on what is current.
Current(b) ==
  /\ status[b] = "open" /\ closing[b] = None
  /\ status[of[b]] = "open" /\ closing[of[b]] = None

\* complete_binding_closing or complete_exposure_closing of an intent.
Complete(t, o, i) ==
  LET names == IF o \in Bindings THEN {o} ELSE i.affected
  IN  [t EXCEPT !.cur = o, !.intent = i, !.affected = names, !.barriered = {},
                !.pc = IF names = {} THEN "commit" ELSE "barrier"]

JobDone(t) == Proceed([t EXCEPT !.todo = @ \ {t.cur}, !.cur = None, !.intent = None,
                                !.affected = {}, !.barriered = {}, !.at = None])

-----------------------------------------------------------------------------
(* The registry.                                                           *)

\* sweep_expired lists under the lock what has expired, and closes it.
SweepExpired(w, t) ==
  /\ mutation = None
  /\ \/ /\ ~poisoned /\ NoFault
        /\ Continues(w, Proceed([t EXCEPT !.why = "expired", !.todo = expired \cap Opened]))
        /\ UNCHANGED locks
     \/ poisoned /\ NoFault /\ Fails(w)
     \/ Fault /\ Fails(w)
  /\ UNCHANGED <<journal, public, broker, expired>>

Sweep(w) == At(w, "sweep") /\ SweepExpired(w, task[w])

\* An append of the private intent, that may land although it reports an error.
AppendIntent(o, i) ==
  /\ closing' = [closing EXCEPT ![o] = i]
  /\ claims' = [k \in Keys |-> IF k = i.claim THEN o ELSE claims[k]]
  /\ UNCHANGED <<status, of, poisoned>>

\* begin_binding_closing, begin_exposure_closing
BeginClosing(w) ==
  /\ At(w, "begin") /\ mutation = None
  /\ \E o \in task[w].todo :
       LET t == task[w]
           i == [status |-> t.why, claim |-> None,
                 affected |-> IF o \in Bindings THEN {} ELSE Selected(o)]
       IN  \/ /\ ~poisoned /\ status[o] # "open" /\ NoFault
              /\ Continues(w, JobDone([t EXCEPT !.cur = o]))
              /\ UNCHANGED <<journal, locks>>
           \/ /\ ~poisoned /\ status[o] = "open" /\ closing[o] # None /\ NoFault
              /\ Continues(w, Complete(t, o, closing[o]))
              /\ UNCHANGED <<journal, locks>>
           \/ /\ ~poisoned /\ status[o] = "open" /\ closing[o] = None /\ NoFault
              /\ AppendIntent(o, i)
              /\ Continues(w, Complete(t, o, i))
              /\ UNCHANGED locks
           \/ /\ ~poisoned /\ status[o] = "open" /\ closing[o] = None /\ Fault
              /\ AppendIntent(o, i) \/ UNCHANGED journal
              /\ Fails(w)
           \/ poisoned /\ NoFault /\ Fails(w) /\ UNCHANGED journal
  /\ UNCHANGED <<public, broker, expired>>

\* complete_binding_closing and complete_exposure_closing after the barriers:
\* under the lock the object must still be closing by this very intent, and a
\* Binding the intent does not name sends the Exposure back to the barrier.
Commit(w) ==
  /\ At(w, "commit") /\ mutation = None
  /\ LET t == task[w]
         new == IF t.cur \in Exposures THEN Selected(t.cur) \ t.affected ELSE {}
     IN  \/ /\ ~poisoned /\ status[t.cur] # "open"
            /\ IF t.cur \in Exposures /\ status[t.cur] # t.intent.status
                 THEN Fails(w)
                 ELSE Continues(w, JobDone(t)) /\ UNCHANGED locks
         \/ /\ ~poisoned /\ status[t.cur] = "open"
            /\ IF closing[t.cur] # t.intent THEN Fails(w)
               ELSE IF new # {}
                 THEN /\ Continues(w, [t EXCEPT !.affected = @ \cup new, !.pc = "barrier"])
                      /\ UNCHANGED locks
                 ELSE /\ mutation' = w
                      /\ Continues(w, [t EXCEPT !.pc = "write"])
                      /\ UNCHANGED <<closeSerial, attachSerial>>
         \/ poisoned /\ Fails(w)
  /\ UNCHANGED <<journal, public, broker, expired, faults>>

\* The objects whose terminal event may be next: the Bindings before the Exposure.
NextTerminal(t) ==
  LET open == {b \in t.affected : status[b] = "open"}
  IN  IF open = {} THEN {t.cur} ELSE open

AppendTerminal(x, s) ==
  /\ status' = [status EXCEPT ![x] = s]
  /\ closing' = [closing EXCEPT ![x] = None]
  /\ UNCHANGED <<of, claims, poisoned>>

\* One terminal event, appended with the lock held.
WriteTerminal(w) ==
  /\ At(w, "write")
  /\ \E x \in NextTerminal(task[w]) :
       LET t == task[w]
       IN  \/ /\ NoFault /\ AppendTerminal(x, t.intent.status)
              /\ Continues(w, [t EXCEPT !.pc = "relay", !.at = x])
              /\ UNCHANGED locks
           \/ /\ Fault /\ (AppendTerminal(x, t.intent.status) \/ UNCHANGED journal)
              /\ Fails(w)
  /\ UNCHANGED <<public, broker, expired>>

-----------------------------------------------------------------------------
(* The relay to the Runtime's public journal.                              *)

EventOf(o) == IF status[o] = "open" THEN "opened" ELSE "closed"

\* relay_source_event publishes an event unless its source id is there.
Publish(o, e) ==
  public' = [public EXCEPT ![o][e] = IF @ = 0 THEN 1 ELSE @]

Relay(w) ==
  /\ At(w, "relay")
  /\ LET t == task[w]
         x == IF t.intent = None THEN t.obj ELSE t.at
         last == t.intent # None /\ x = t.cur
     IN  \/ /\ NoFault
            /\ Publish(x, EventOf(x))
            /\ mutation' = IF t.intent = None \/ last THEN None ELSE w
            /\ Continues(w, IF t.intent = None THEN [t EXCEPT !.pc = "validate"]
                            ELSE IF last THEN JobDone(t)
                            ELSE [t EXCEPT !.pc = "write", !.at = None])
            /\ UNCHANGED <<closeSerial, attachSerial>>
         \/ Fault /\ Fails(w) /\ UNCHANGED public
  /\ UNCHANGED <<journal, broker, expired>>

\* The public events of the journal that relay_pending_public_events finds.
Unpublished ==
  {p \in Objects \X {"opened", "closed"} :
     /\ status[p[1]] # "none" /\ public[p[1]][p[2]] = 0
     /\ p[2] = "closed" => status[p[1]] \in Terminal}

PublishAll(S) ==
  public' = [o \in Objects |-> [e \in {"opened", "closed"} |->
               IF <<o, e>> \in S THEN public[o][e] + 1 ELSE public[o][e]]]

\* ensure_public_relay_caught_up; a failing one has published some of it.
RelayPending(w, t) ==
  /\ \/ /\ NoFault /\ PublishAll(Unpublished)
        /\ Continues(w, IF t.op = "hydrate" THEN Proceed(t) ELSE [t EXCEPT !.pc = "apply"])
        /\ UNCHANGED locks
     \/ /\ Fault /\ \E S \in SUBSET Unpublished : PublishAll(S)
        /\ Fails(w)
  /\ UNCHANGED <<journal, broker, expired>>

CatchUp(w) == At(w, "relayAll") /\ RelayPending(w, task[w])

-----------------------------------------------------------------------------
(* Requests and background tasks, each with the first step it takes.        *)

Ready(w) == phase = "up" /\ At(w, "idle")

\* host.exposure.create
StartCreate(w, e) ==
  /\ Ready(w)
  /\ RelayPending(w, [IdleTask EXCEPT !.op = "create", !.obj = e])

\* host.exposure.revoke and host.binding.revoke of an object the client sees, or
\* a revocation it repeats.
StartRevoke(w, k, o) ==
  /\ Ready(w) /\ (status[o] = "open" \/ claims[k] = o)
  /\ RelayPending(w, [IdleTask EXCEPT !.op = "revoke", !.key = k, !.obj = o])

\* host.binding.select of a candidate, or one that is repeated.
StartSelect(w, b, e) ==
  /\ Ready(w) /\ (status[e] = "open" \/ status[b] # "none")
  /\ SweepExpired(w, [IdleTask EXCEPT !.op = "select", !.obj = b, !.key = e,
                                      !.then = <<"relayAll">>])

\* A stopped Run, a changed Installation, a lost authority or a drifted Binding:
\* each terminalizes what it found, one after the other.
StartInvalidate(w, S) ==
  /\ Ready(w) /\ S # {} /\ S \in {{o} : o \in Opened} \cup {Opened}
  /\ SetTask(w, [IdleTask EXCEPT !.op = "invalidate", !.todo = S, !.pc = "begin"])
  /\ UNCHANGED <<journal, public, phase, locks, broker, expired, faults>>

\* The expiry supervisor; listing and preparing bindings sweep too.
StartSweep(w) ==
  /\ Ready(w) /\ expired \cap Opened # {}
  /\ SweepExpired(w, [IdleTask EXCEPT !.op = "sweep"])

\* RunBindingBroker::attach validates the Binding first, and with that sweeps.
StartAttach(w, b) ==
  /\ Ready(w) /\ status[b] = "open" /\ minted < MaxGenerations
  /\ SweepExpired(w, [IdleTask EXCEPT !.op = "attach", !.obj = b, !.then = <<"attach">>])

\* validate_permit reads the generation; an expired handle closes it.
StartInvoke(w, b) ==
  /\ Ready(w) /\ generation[b] # 0
  /\ IF b \in expired
       THEN /\ SetTask(w, BarrierOnly(b, 0))
            /\ UNCHANGED <<journal, public, phase, locks, broker, expired, faults>>
       ELSE SweepExpired(w, [IdleTask EXCEPT !.op = "invoke", !.obj = b,
                                             !.gen = generation[b], !.then = <<"permit">>])

\* A generation's expiry timer, a stopping consumer Run or a lost provider.
StartClose(w, b) ==
  /\ Ready(w) /\ generation[b] # 0
  /\ SetTask(w, BarrierOnly(b, generation[b]))
  /\ UNCHANGED <<journal, public, phase, locks, broker, expired, faults>>

-----------------------------------------------------------------------------
(* Mutations under an idempotency key.                                     *)

\* The request is in the journal under its key: what it opened, or what it revokes.
Repeated(t) ==
  IF t.op = "revoke" THEN claims[t.key] # None ELSE status[t.obj] # "none"

\* ... and it was this very request.
SameRequest(t) ==
  CASE t.op = "create" -> TRUE
    [] t.op = "select" -> of[t.obj] = t.key
    [] t.op = "revoke" -> claims[t.key] = t.obj

PendingIgnored(t) == None

\* The object whose closing a repeated request completes before it answers.
PendingFor(t) ==
  CASE t.op = "create" -> None
    [] t.op = "revoke" -> IF closing[t.obj] # None THEN t.obj ELSE None
    [] t.op = "select" -> IF closing[t.obj] # None THEN t.obj
                          ELSE IF closing[of[t.obj]] # None THEN of[t.obj] ELSE None

\* What is left to do once nothing is closing: a revocation answers.
Answering(t) == IF t.op = "revoke" THEN [t EXCEPT !.then = <<"answer">>] ELSE t

Repeat(w) ==
  LET t == task[w]
      o == PendingFor(t)
  IN  IF ~SameRequest(t) THEN Fails(w)
      ELSE /\ Continues(w, IF o = None THEN Proceed(Answering(t))
                           ELSE Complete([Answering(t) EXCEPT !.todo = {o}], o, closing[o]))
           /\ UNCHANGED locks

CapacityOffByOne == Cardinality({b \in Bindings : status[b] = "open"}) <= Capacity

\* What binding_select rechecks under the lock.
HasCapacity == Cardinality({b \in Bindings : status[b] = "open"}) < Capacity

Admissible(e) == status[e] = "open" /\ e \notin expired /\ closing[e] = None /\ HasCapacity

AppendOpenedUnlinked(o, e) ==
  /\ status' = [status EXCEPT ![o] = "open"]
  /\ UNCHANGED <<of, closing, claims, poisoned>>

AppendOpened(o, e) ==
  /\ status' = [status EXCEPT ![o] = "open"]
  /\ of' = [of EXCEPT ![o] = e]
  /\ UNCHANGED <<closing, claims, poisoned>>

\* exposure_create and binding_select append the new object and keep the lock
\* for the relay.
Open(w, t) ==
  \/ /\ NoFault /\ AppendOpened(t.obj, t.key)
     /\ mutation' = w
     /\ Continues(w, [t EXCEPT !.pc = "relay"])
     /\ UNCHANGED <<closeSerial, attachSerial>>
  \/ /\ Fault /\ (AppendOpened(t.obj, t.key) \/ UNCHANGED journal)
     /\ Fails(w)

\* exposure_revoke and binding_revoke append their own intent; the replay
\* refuses it when the object is closing by another one.
RevokeIntent(t) ==
  [status |-> "revoked", claim |-> t.key,
   affected |-> IF t.obj \in Bindings THEN {} ELSE Selected(t.obj)]

Poison(w) ==
  /\ poisoned' = TRUE
  /\ UNCHANGED <<status, of, closing, claims>>
  /\ Fails(w)

Revoke(w, t) ==
  LET i == RevokeIntent(t)
  IN  IF closing[t.obj] \notin {None, i} THEN NoFault /\ Poison(w)
      ELSE \/ /\ NoFault /\ AppendIntent(t.obj, i)
              /\ Continues(w, Complete([Answering(t) EXCEPT !.todo = {t.obj}], t.obj, i))
              /\ UNCHANGED locks
           \/ /\ Fault /\ (AppendIntent(t.obj, i) \/ UNCHANGED journal)
              /\ Fails(w)

\* The locked part of the four mutations.
Apply(w) ==
  /\ At(w, "apply") /\ mutation = None
  /\ LET t == task[w]
     IN  \/ poisoned /\ NoFault /\ Fails(w) /\ UNCHANGED journal
         \/ ~poisoned /\ Repeated(t) /\ NoFault /\ Repeat(w) /\ UNCHANGED journal
         \/ /\ ~poisoned /\ ~Repeated(t)
            /\ \/ t.op = "create" /\ Open(w, t)
               \/ t.op = "select" /\ Admissible(t.key) /\ Open(w, t)
               \/ t.op = "select" /\ ~Admissible(t.key) /\ NoFault /\ Fails(w) /\ UNCHANGED journal
               \/ t.op = "revoke" /\ status[t.obj] = "open" /\ Revoke(w, t)
               \/ t.op = "revoke" /\ status[t.obj] # "open" /\ NoFault /\ Fails(w) /\ UNCHANGED journal
  /\ UNCHANGED <<public, broker, expired>>

\* The client is told that the object is revoked.
Answer(w) ==
  /\ At(w, "answer")
  /\ Continues(w, IdleTask)
  /\ UNCHANGED <<journal, public, locks, broker, expired, faults>>

\* validate_exposure_snapshot and validate_binding_snapshot after the append: an
\* object that is no longer current is terminalized and the request fails.  A
\* Binding is only when the drift is definite.
Validate(w) ==
  /\ At(w, "validate") /\ mutation = None
  /\ LET t == task[w]
         current == IF t.obj \in Bindings THEN Current(t.obj)
                    ELSE status[t.obj] = "open" /\ closing[t.obj] = None
     IN  \/ current /\ Continues(w, IdleTask)
         \/ Continues(w, [t EXCEPT !.todo = {t.obj}, !.why = "revoked", !.pc = "begin"])
  /\ UNCHANGED <<journal, public, locks, broker, expired, faults>>

-----------------------------------------------------------------------------
(* The broker.                                                             *)

AfterBarrier(t) ==
  IF t.cur = None THEN IdleTask
  ELSE [t EXCEPT !.pc = IF t.affected = t.barriered THEN "commit" ELSE "barrier",
                 !.at = None, !.shut = 0]

\* close_binding_barrier takes close_serial, then attach_serial ...
TakeClose(w) ==
  /\ At(w, "barrier") /\ closeSerial = None
  /\ closeSerial' = w
  /\ \E b \in task[w].affected \ task[w].barriered :
       Continues(w, [task[w] EXCEPT !.pc = "generation", !.at = b])
  /\ UNCHANGED <<journal, public, mutation, attachSerial, broker, expired, faults>>

\* ... closes the Binding's generation, or the one it was asked for ...
TakeGeneration(w) ==
  /\ At(w, "generation") /\ attachSerial = None
  /\ attachSerial' = w
  /\ LET t == task[w]
         b == t.at
         g == IF t.shut \in {0, generation[b]} THEN generation[b] ELSE 0
     IN  /\ generation' = [generation EXCEPT ![b] = IF g = 0 THEN @ ELSE 0]
         /\ Continues(w, [t EXCEPT !.pc = "settle", !.shut = g])
  /\ UNCHANGED <<journal, public, mutation, closeSerial, attached, minted, cleanup, expired, faults>>

InFlight(b, g) == \E v \in Workers : At(v, "running") /\ task[v].obj = b /\ task[v].gen = g

\* ... waits for the invocations it admitted, and has the registry detach it.
Settle(w) ==
  /\ At(w, "settle")
  /\ LET t == task[w]
         b == t.at
         detach == t.shut # 0 \/ b \in cleanup
         settled == [t EXCEPT !.barriered = @ \cup {b}]
     IN  /\ ~InFlight(b, t.shut)
         /\ detach => mutation = None
         /\ \/ /\ NoFault
               /\ attached' = IF detach THEN attached \ {b} ELSE attached
               /\ cleanup' = IF detach THEN cleanup \ {b} ELSE cleanup
               /\ Continues(w, AfterBarrier(settled))
               /\ closeSerial' = None /\ attachSerial' = None
               /\ UNCHANGED mutation
            \/ /\ detach /\ Fault
               /\ cleanup' = cleanup \cup {b}
               /\ Fails(w)
               /\ UNCHANGED attached
  /\ UNCHANGED <<journal, public, generation, minted, expired>>

\* The cleanup supervisor repeats a detach that failed.
RetryCleanup(b) ==
  /\ phase = "up" /\ b \in cleanup /\ mutation = None
  /\ cleanup' = cleanup \ {b}
  /\ attached' = attached \ {b}
  /\ UNCHANGED <<journal, public, phase, locks, generation, minted, task, expired, faults>>

\* attach: a current Binding waits for attach_serial, and is validated again.
Attach(w) ==
  /\ At(w, "attach") /\ mutation = None
  /\ \/ /\ Current(task[w].obj) /\ attachSerial = None
        /\ attachSerial' = w
        /\ Continues(w, [task[w] EXCEPT !.pc = "sweep", !.then = <<"mint">>])
        /\ UNCHANGED <<mutation, closeSerial>>
     \/ ~Current(task[w].obj) /\ Fails(w)
  /\ UNCHANGED <<journal, public, broker, expired, faults>>

\* The validation repeated under attach_serial, then the new generation.
Mint(w) ==
  /\ At(w, "mint") /\ mutation = None
  /\ LET b == task[w].obj
     IN  \/ /\ Current(b) /\ generation[b] = 0 /\ minted < MaxGenerations
            /\ minted' = minted + 1
            /\ generation' = [generation EXCEPT ![b] = minted + 1]
            /\ Continues(w, [task[w] EXCEPT !.pc = "attached", !.gen = minted + 1])
            /\ UNCHANGED locks
         \/ /\ ~(Current(b) /\ generation[b] = 0 /\ minted < MaxGenerations)
            /\ Fails(w)
            /\ UNCHANGED <<minted, generation>>
  /\ UNCHANGED <<journal, public, attached, cleanup, expired, faults>>

\* An attach that fails gives attach_serial back before it closes its generation.
AttachFails(w) ==
  /\ Continues(w, BarrierOnly(task[w].obj, task[w].gen))
  /\ attachSerial' = None
  /\ UNCHANGED <<mutation, closeSerial>>

\* binding_attached
Attached(w) ==
  /\ At(w, "attached") /\ mutation = None
  /\ \/ /\ Current(task[w].obj) /\ NoFault
        /\ attached' = attached \cup {task[w].obj}
        /\ Continues(w, [task[w] EXCEPT !.pc = "confirm"])
        /\ UNCHANGED locks
     \/ ~Current(task[w].obj) /\ NoFault /\ AttachFails(w) /\ UNCHANGED attached
     \/ Fault /\ AttachFails(w) /\ UNCHANGED attached
  /\ UNCHANGED <<journal, public, generation, minted, cleanup, expired>>

\* The snapshot is validated again, then the provider's registration.
Confirm(w) ==
  /\ At(w, "confirm") /\ mutation = None
  /\ \/ /\ Current(task[w].obj)
        /\ Continues(w, IdleTask)
        /\ attachSerial' = None
        /\ UNCHANGED <<mutation, closeSerial>>
     \/ AttachFails(w)
  /\ UNCHANGED <<journal, public, broker, expired, faults>>

\* validate_permit: a Binding that is not current and attached is terminalized;
\* binding_drifted ends with the barrier that the close_binding after it repeats.
Permit(w) ==
  /\ At(w, "permit") /\ mutation = None
  /\ LET t == task[w]
     IN  \/ /\ Current(t.obj) /\ t.obj \in attached
            /\ Continues(w, [t EXCEPT !.pc = "admit"])
         \/ Continues(w, [t EXCEPT !.todo = {t.obj}, !.why = "revoked", !.pc = "begin"])
  /\ UNCHANGED <<journal, public, locks, broker, expired, faults>>

AdmitStale(w) ==
  /\ At(w, "admit")
  /\ Continues(w, [task[w] EXCEPT !.pc = "running"])
  /\ UNCHANGED <<journal, public, locks, broker, expired, faults>>

\* The gate admits the invocation while its generation is open.
Admit(w) ==
  /\ At(w, "admit")
  /\ Continues(w, IF generation[task[w].obj] = task[w].gen
                    THEN [task[w] EXCEPT !.pc = "running"] ELSE IdleTask)
  /\ UNCHANGED <<journal, public, locks, broker, expired, faults>>

\* The permit is dropped with the invocation.
Finish(w) ==
  /\ At(w, "running")
  /\ Continues(w, IdleTask)
  /\ UNCHANGED <<journal, public, locks, broker, expired, faults>>

-----------------------------------------------------------------------------
(* The Host and its clock.                                                 *)

\* The expiry of an Exposure bounds that of its Bindings.
Expire(o) ==
  /\ o \in Expiring /\ status[o] = "open" /\ o \notin expired
  /\ expired' = expired \cup {o} \cup {b \in Bindings : of[b] = o}
  /\ UNCHANGED <<journal, public, phase, locks, broker, task, faults>>

Crash ==
  /\ phase # "down" /\ Fault
  /\ phase' = "down"
  /\ mutation' = None /\ closeSerial' = None /\ attachSerial' = None
  /\ attached' = {} /\ cleanup' = {} /\ minted' = 0
  /\ generation' = [b \in Bindings |-> 0]
  /\ task' = [w \in Workers |-> IdleTask]
  /\ UNCHANGED <<journal, public, expired>>

\* hydrate: replay, relay what is not public, resume the closings, sweep; then
\* reconcile_runs, and the Host serves.
Hydrate(w) ==
  /\ phase = "down" /\ ~poisoned
  /\ phase' = "booting"
  /\ SetTask(w, [IdleTask EXCEPT !.op = "hydrate", !.pc = "relayAll",
                   !.todo = {o \in Objects : closing[o] # None},
                   !.then = <<"sweep", "reconcile", "serve">>])
  /\ UNCHANGED <<journal, public, locks, broker, expired, faults>>

ReconcileNothing(w) ==
  /\ At(w, "reconcile") /\ mutation = None
  /\ Continues(w, Proceed(task[w]))
  /\ UNCHANGED <<journal, public, locks, broker, expired, faults>>

\* Every Run was interrupted by the restart, so no pin is current.
Reconcile(w) ==
  /\ At(w, "reconcile") /\ mutation = None
  /\ \E S \in SUBSET {b \in Bindings : status[b] = "open"} :
       Continues(w, Proceed([task[w] EXCEPT !.why = "revoked",
                               !.todo = {e \in Exposures : status[e] = "open"} \cup S]))
  /\ UNCHANGED <<journal, public, locks, broker, expired, faults>>

Serve(w) ==
  /\ At(w, "serve")
  /\ phase' = "up"
  /\ SetTask(w, IdleTask)
  /\ UNCHANGED <<journal, public, locks, broker, expired, faults>>

-----------------------------------------------------------------------------
Init ==
  /\ status = [o \in Objects |-> "none"]
  /\ of = [o \in Objects |-> None]
  /\ closing = [o \in Objects |-> None]
  /\ claims = [k \in Keys |-> None]
  /\ poisoned = FALSE
  /\ public = [o \in Objects |-> [opened |-> 0, closed |-> 0]]
  /\ phase = "down"
  /\ mutation = None /\ closeSerial = None /\ attachSerial = None
  /\ attached = {} /\ cleanup = {} /\ minted = 0
  /\ generation = [b \in Bindings |-> 0]
  /\ task = [w \in Workers |-> IdleTask]
  /\ expired = {}
  /\ faults = MaxFaults

RegistryStep(w) ==
  \/ Sweep(w) \/ BeginClosing(w) \/ Commit(w) \/ WriteTerminal(w) \/ Relay(w)
  \/ CatchUp(w) \/ Apply(w) \/ Answer(w) \/ Validate(w) \/ Reconcile(w) \/ Serve(w) \/ Hydrate(w)

BrokerStep(w) ==
  \/ TakeClose(w) \/ TakeGeneration(w) \/ Settle(w) \/ Attach(w)
  \/ Mint(w) \/ Attached(w) \/ Confirm(w) \/ Permit(w) \/ Admit(w) \/ Finish(w)

Start(w) ==
  \/ \E e \in Exposures : StartCreate(w, e)
  \/ \E k \in Keys, o \in Objects : StartRevoke(w, k, o)
  \/ \E b \in Bindings, e \in Exposures : StartSelect(w, b, e)
  \/ \E S \in SUBSET Opened : StartInvalidate(w, S)
  \/ StartSweep(w)
  \/ \E b \in Bindings : StartAttach(w, b) \/ StartInvoke(w, b) \/ StartClose(w, b)

Next ==
  \/ \E w \in Workers : RegistryStep(w) \/ BrokerStep(w) \/ Start(w)
  \/ \E b \in Bindings : RetryCleanup(b)
  \/ \E o \in Objects : Expire(o)
  \/ Crash

Spec == Init /\ [][Next]_vars

\* Tasks run on and the locks are handed over in turn (tokio's Mutex is fair);
\* an invocation ends, and a Host that is down is started again.
FairSpec == Spec /\ \A w \in Workers : SF_vars(RegistryStep(w) \/ BrokerStep(w))

-----------------------------------------------------------------------------
(* Properties.                                                             *)

TypeOK ==
  /\ status \in [Objects -> {"none", "open"} \cup Terminal]
  /\ \A b \in Bindings : (of[b] = None) = (status[b] = "none")
  /\ \A o \in Objects : closing[o] \in Intents \cup {None}
  /\ phase \in {"down", "booting", "up"}
  /\ {mutation, closeSerial, attachSerial} \subseteq Workers \cup {None}
  /\ attached \cup cleanup \subseteq Bindings
  /\ generation \in [Bindings -> 0..MaxGenerations] /\ minted \in 0..MaxGenerations
  /\ expired \subseteq Objects
  /\ faults \in 0..MaxFaults

\* Close precedes the terminal commit: once a Binding is revoked or expired in
\* the journal no generation of it is open and no invocation it admitted is still
\* running (complete_binding_closing, complete_exposure_closing, finish_close).
TerminalIsQuiet ==
  \A b \in Bindings : status[b] \in Terminal =>
    /\ generation[b] = 0
    /\ \A w \in Workers : ~(At(w, "running") /\ task[w].obj = b)

\* However selections race with each other and with a closing Exposure, the
\* import Port never has more selected Bindings than its multiplicity, and none on
\* an Exposure that has ended (binding_select, active_bindings_for_exposure).
SelectedIsServed ==
  /\ Cardinality({b \in Bindings : status[b] = "open"}) <= Capacity
  /\ \A b \in Bindings : status[b] = "open" => status[of[b]] = "open"

\* A client that is told of a revocation finds the object terminal, and every
\* Binding of a revoked Exposure with it, whatever repeated or completed the
\* request (exposure_revoke, binding_revoke).
RevokedIsTerminal ==
  \A w \in Workers : At(w, "answer") /\ task[w].op = "revoke" =>
    /\ status[task[w].obj] \in Terminal
    /\ task[w].obj \in Exposures => Selected(task[w].obj) = {}

\* The public journal has every event at most once, although an append relays its
\* own event while another request or a restart catches up (relay_source_event).
PublicOnce == \A o \in Objects : public[o].opened <= 1 /\ public[o].closed <= 1

\* An object ends only under a durable intent of its own or of its Exposure,
\* with the status that intent names, and terminal history is never rewritten.
EndsAsIntended ==
  [][\A o \in Objects :
       /\ status[o] \in Terminal => status'[o] = status[o]
       /\ status[o] = "open" /\ status'[o] \in Terminal =>
            \E x \in {o, of[o]} \cap Objects :
              closing[x] # None /\ closing[x].status = status'[o]]_vars

\* A Host serves after a restart only when nothing that was open before is: no
\* Exposure, no Binding and no half-done closing (hydrate, resume_closings,
\* reconcile_runs), and everything that happened is public.
RestartCloses ==
  [][phase = "booting" /\ phase' = "up" =>
       /\ \A o \in Objects : status'[o] # "open" /\ closing'[o] = None
       /\ Unpublished' = {}]_vars

\* A closing that is durable is completed: active, closing, revoked or expired
\* (complete_binding_closing, complete_exposure_closing, close_binding_barrier).
ClosingEnds == \A o \in Objects : closing[o] # None ~> closing[o] = None

\* No operation appends an event that the replay of the journal refuses
\* (apply_event): one such event stops every later operation and every restart.
PowerboxReplays == ~poisoned

=============================================================================
