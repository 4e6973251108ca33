-------------------------- MODULE InstallationProofs --------------------------
(***************************************************************************)
(* What the Installation registry guarantees for any number of Hosts,      *)
(* tasks, Installations, keys and failures.                                *)
(*                                                                         *)
(* RegistryInv needs no hypothesis: what a task knows of the journal stays *)
(* true while others append, a mutation's id is the sequence of its start, *)
(* and a decision holds for as long as the compare-and-append can succeed. *)
(* ReplayInv adds, for requests that do not share a key and a clock that   *)
(* does not step back, that every event replays and every answer is        *)
(* claimed.  HostInv adds, for one Host, that a mutation and the Runs of   *)
(* an Installation exclude each other and what the state tree holds.       *)
(***************************************************************************)
EXTENDS InstallationRegistry, FiniteSetTheorems, TLAPS

-----------------------------------------------------------------------------
(* The inductive invariant.                                                *)

Undo == {"restore", "restoreEffect", "rollback", "block"}
Forward == {"check", "effect", "terminal"}
Started == Forward \cup Undo
Asked == {"prepare", "commit", "start", "publish"} \cup Forward
Boots == {"recover", "materialize"}

\* The task is about an Installation.
Located(t) ==
  \/ t.pc \in Started \cup {"commit", "start", "publish", "guard"}
  \/ t.pc = "prepare" /\ t.req.op # "create"

\* The keys that are claimed by mutations of i.
ClaimedFor(i) == {k \in Keys : claims[k] # None /\ claims[k].inst = i}

\* The pending mutation of the task's Installation is the task's own.
Mine(t) == pending[t.inst] # None /\ pending[t.inst].id = t.id

\* What the points of the code say about the request.
PlaceInv(t) ==
  /\ t.hydrate => t.pc \in Boots \cup Undo
  /\ t.pc \in Boots => t.hydrate
  /\ Located(t) => t.inst \in Installations
  /\ t.pc \in Asked \/ (t.pc \in Undo /\ ~t.hydrate) =>
       t.key \in Keys /\ (t.req.op # "create" => t.inst = t.req.inst)
  /\ t.pc \in Asked /\ t.req.op = "create" =>
       t.prev = None /\ t.pc \in {"prepare", "commit", "publish"}
  /\ t.pc = "prepare" /\ t.req.op # "create" => t.prev \in Views /\ t.prev.status = "ready"
  /\ t.pc \in {"commit", "publish"} /\ t.req.op # "create" =>
       /\ t.prev \in Views
       /\ \/ t.prev.status = "ready" /\ (t.pc = "commit" => t.req.op \notin Staged)
          \/ t.prev.status = "removed" /\ t.req.op \in Removals /\ t.pc = "commit"
  /\ t.pc \in Started \cup {"start"} =>
       /\ t.prev \in Views /\ t.prev.status = "ready" /\ t.snap \in Contents
       /\ ~t.hydrate => t.req.op \in Staged
  /\ t.pc = "guard" => t.prev \in Views /\ t.prev.status = "ready"
  /\ t.base # None => t.pc \in AppendPoints

\* What the task has read of the journal, and may still rely on.
ReadInv(t) ==
  /\ t.base # None => t.base <= len
  /\ t.base # None /\ t.pc = "start" => t.id = t.base
  /\ t.pc \in Started => t.id < len
  /\ t.pc \in Started /\ Mine(t) =>
       /\ pending[t.inst].prev = t.prev /\ pending[t.inst].snap = t.snap
       /\ ~t.hydrate => pending[t.inst].kind = Kind(t)
  /\ t.base # None /\ t.base = len => Stands(t) /\ ~Resolved(t) /\ ~Claimed(t)
  /\ t.pc \in Forward /\ Mine(t) => t.key \notin ClaimedFor(t.inst)
  /\ t.pc = "publish" => Candidate(t) \in Views

TasksInv == \A h \in Hosts, w \in Workers : PlaceInv(task[h][w]) /\ ReadInv(task[h][w])

\* What the replay of the journal yields.
JournalInv ==
  \A i \in Installations :
    /\ pending[i] # None =>
         /\ pending[i].id < len /\ pending[i].prev.status = "ready"
         /\ views[i] # None /\ views[i].status \in {pending[i].kind, "blocked"}
         /\ views[i].rev = pending[i].prev.rev
    /\ pending[i] = None /\ views[i] # None => views[i].status \in {"ready", "removed"}
    /\ views[i] # None => views[i].rev <= Cardinality(ClaimedFor(i))

RegistryInv == TypeOK /\ TasksInv /\ JournalInv

\* Requests in progress under a key are the same, and the clock goes forward.
ClientsAgree == KeyReuse = FALSE /\ ClockStepsBack = FALSE

OneKeyOneRequest ==
  \A g, h \in Hosts, v, w \in Workers :
    task[g][v].key = task[h][w].key /\ task[h][w].key # None
    => task[g][v].req = task[h][w].req

\* A mutation under way has not been claimed, a committed one has.
ClaimInv(t) ==
  /\ ~t.stale
  /\ t.pc \in Forward /\ Mine(t) => claims[t.key] = None
  /\ t.pc = "publish" => claims[t.key] = ClaimOf(t)

ReplayInv ==
  /\ OneKeyOneRequest /\ (\A h \in Hosts, w \in Workers : ClaimInv(task[h][w]))
  /\ ~poisoned /\ AnswersAreClaims

OneHost == \A g, h \in Hosts : g = h

\* The lifecycle lock: exactly the task that is to change an Installation has
\* it for writing, and then nobody reads.
Writing(t) == Located(t) /\ t.pc # "guard"

LockInv ==
  /\ \A h \in Hosts, w \in Workers, i \in Installations :
       lifecycle[h][i] = w <=> Writing(task[h][w]) /\ task[h][w].inst = i
  /\ \A h \in Hosts, i \in Installations : lifecycle[h][i] # None => Unread(h, i)

\* A Host recovers alone.
RecoveryInv ==
  \A h \in Hosts, w \in Workers :
    /\ phase[h] # "up" => /\ \A i \in Installations : guard[h][i] = None
                          /\ task[h][w].hydrate \/ task[h][w].pc = "idle"
    /\ task[h][w].hydrate => /\ phase[h] = "hydrating"
                             /\ \A v \in Workers \ {w} : task[h][v].pc = "idle"
    /\ task[h][w].pc = "materialize" => \A i \in Installations : pending[i] = None

\* What the state tree holds while a mutation is staged.
TreeInv(t) ==
  /\ t.pc = "commit" => t.snap \in {None, disk[t.inst]}
  /\ t.pc \in {"start", "check", "effect", "rollback"} => disk[t.inst] = t.snap
  /\ t.pc = "terminal" => disk[t.inst] = Target(t)
  /\ t.pc \in Started => Mine(t)

HostInv ==
  /\ LockInv /\ RecoveryInv /\ (\A h \in Hosts, w \in Workers : TreeInv(task[h][w]))
  /\ GuardPinsInstallation
-----------------------------------------------------------------------------
(* Records.                                                                *)

LEMMA CreateFields ==
  /\ CreateRequest.op = "create" /\ CreateRequest.inst = None
  /\ CreateRequest.rev = 0 /\ CreateRequest.content = Empty
BY DEF CreateRequest

LEMMA RequestFields ==
  ASSUME NEW r \in Requests
  PROVE  /\ r.op = "create" => r.inst = None
         /\ r.op # "create" => r.inst \in Installations /\ r.content \in Contents
         /\ r.op \in {"create"} \cup Updates \cup Removals
BY CreateFields DEF Requests, Updates, Removals

LEMMA IdleFields ==
  /\ IdleTask.pc = "idle" /\ IdleTask.hydrate = FALSE /\ IdleTask.key = None
  /\ IdleTask.req = CreateRequest /\ IdleTask.inst = None /\ IdleTask.prev = None
  /\ IdleTask.snap = None /\ IdleTask.id = 0 /\ IdleTask.base = None /\ IdleTask.tries = 0
  /\ IdleTask.stale = FALSE
BY DEF IdleTask

LEMMA IdleType == IdleTask \in TaskStates
<1>1. CreateRequest \in Requests
  BY DEF Requests
<1>2. 0 \in 0..CasAttempts
  BY InstallationAssumptions
<1> QED
  BY <1>1, <1>2 DEF IdleTask, TaskStates, Points

LEMMA TaskFields ==
  ASSUME NEW t \in TaskStates
  PROVE  /\ t.pc \in Points /\ t.hydrate \in BOOLEAN /\ t.key \in Keys \cup {None}
         /\ t.req \in Requests /\ t.inst \in Installations \cup {None}
         /\ t.prev \in Views \cup {None} /\ t.snap \in Contents \cup {None}
         /\ t.id \in Nat /\ t.base \in Nat \cup {None} /\ t.tries \in 0..CasAttempts
         /\ t.stale \in BOOLEAN
BY DEF TaskStates

LEMMA ViewFields ==
  ASSUME NEW v \in Views
  PROVE  /\ v.status \in {"ready", "updating", "removing", "removed", "blocked"}
         /\ v.rev \in Revs /\ v.rev \in Nat /\ v.snap \in Contents \cup {None}
         /\ v # None
<1>1. Cardinality(Keys) \in Nat
  BY InstallationAssumptions, FS_CardinalityType
<1> QED
  BY <1>1, NoneAssumption DEF Views, Revs

LEMMA PendingFields ==
  ASSUME NEW p \in PendingMutations
  PROVE  /\ p.id \in Nat /\ p.kind \in {"updating", "removing"} /\ p.prev \in Views
         /\ p.snap \in Contents /\ p # None
BY NoneAssumption DEF PendingMutations

\* Another status is another view of the same revision.
LEMMA StatusView ==
  ASSUME NEW v \in Views, NEW s \in {"ready", "updating", "removing", "removed", "blocked"}
  PROVE  /\ [v EXCEPT !.status = s] \in Views
         /\ [v EXCEPT !.status = s].status = s /\ [v EXCEPT !.status = s].rev = v.rev
         /\ [v EXCEPT !.status = s].snap = v.snap
BY DEF Views

-----------------------------------------------------------------------------
(* Counting claims.                                                        *)

LEMMA ClaimedFinite ==
  ASSUME NEW i
  PROVE  /\ IsFiniteSet(ClaimedFor(i)) /\ Cardinality(ClaimedFor(i)) \in Nat
         /\ Cardinality(ClaimedFor(i)) <= Cardinality(Keys)
<1>1. ClaimedFor(i) \subseteq Keys
  BY DEF ClaimedFor
<1> QED
  BY <1>1, InstallationAssumptions, FS_Subset, FS_CardinalityType

\* A key that is not claimed for i leaves room for one more revision.
LEMMA RevisionLeft ==
  ASSUME NEW i, NEW k \in Keys, k \notin ClaimedFor(i)
  PROVE  Cardinality(ClaimedFor(i)) + 1 <= Cardinality(Keys)
<1>1. ClaimedFor(i) \cup {k} \subseteq Keys
  BY DEF ClaimedFor
<1>2. Cardinality(ClaimedFor(i) \cup {k}) = Cardinality(ClaimedFor(i)) + 1
  BY ClaimedFinite, FS_AddElement
<1> QED
  BY <1>1, <1>2, InstallationAssumptions, FS_Subset

LEMMA ClaimCounts ==
  ASSUME NEW i, NEW k \in Keys, k \notin ClaimedFor(i),
         ClaimedFor(i)' = ClaimedFor(i) \cup {k}
  PROVE  Cardinality(ClaimedFor(i))' = Cardinality(ClaimedFor(i)) + 1
BY ClaimedFinite, FS_AddElement

-----------------------------------------------------------------------------
(* What a mutation commits.                                                *)

LEMMA CandidateFields ==
  ASSUME NEW t \in TaskStates, PlaceInv(t), t.pc \in {"commit", "terminal", "publish"}
  PROVE  /\ t.req.op = "create" => Candidate(t) = NewView
         /\ t.req.op # "create" =>
              t.prev \in Views /\ (Candidate(t) = t.prev \/ Candidate(t).rev = t.prev.rev + 1)
         /\ t.req.op \in {"keep", "delete"} /\ t.prev.status = "ready" =>
              Candidate(t) = [t.prev EXCEPT !.status = "removed", !.rev = @ + 1]
         /\ t.req.op \in {"preserve", "backup", "replace"} =>
              Candidate(t) = [status |-> "ready", rev |-> t.prev.rev + 1, snap |-> t.snap]
         /\ t.req.op = "noop" => Candidate(t) = t.prev
         /\ t.req.op \in Removals /\ t.prev.status = "removed" => Candidate(t) = t.prev
<1>1. t.req.op \in {"create", "noop", "preserve", "backup", "replace", "keep", "delete"}
  BY TaskFields, RequestFields DEF Updates, Removals
<1>2. t.req.op # "create" => t.prev \in Views
  BY DEF PlaceInv, Started, Forward
<1>3. t.req.op \in {"keep", "delete"} /\ t.prev.status = "ready" =>
        Candidate(t) = [t.prev EXCEPT !.status = "removed", !.rev = @ + 1]
  BY DEF Candidate, Removals
<1>4. t.req.op # "create" =>
        [t.prev EXCEPT !.status = "removed", !.rev = @ + 1].rev = t.prev.rev + 1
  BY <1>2 DEF Views
<1>5. t.req.op \in {"preserve", "backup", "replace"} =>
        Candidate(t) = [status |-> "ready", rev |-> t.prev.rev + 1, snap |-> t.snap]
  BY DEF Candidate, Removals
<1>6. t.req.op = "noop" => Candidate(t) = t.prev
  BY DEF Candidate, Removals
<1>7. t.req.op \in Removals /\ t.prev.status # "ready" => Candidate(t) = t.prev
  BY DEF Candidate, Removals
<1>8. t.req.op = "create" => Candidate(t) = NewView
  BY DEF Candidate, Removals
<1>9. t.req.op # "create" => Candidate(t) = t.prev \/ Candidate(t).rev = t.prev.rev + 1
  <2>1. CASE t.req.op \in {"keep", "delete"}
    BY <1>3, <1>4, <1>7, <2>1 DEF Removals
  <2>2. CASE t.req.op \in {"preserve", "backup", "replace"}
    BY <1>5, <2>2
  <2>3. CASE t.req.op = "noop"
    BY <1>6, <2>3
  <2> QED
    BY <1>1, <2>1, <2>2, <2>3
<1>10. t.req.op \in Removals /\ t.prev.status = "removed" => Candidate(t) = t.prev
  BY <1>7
<1> QED
  BY <1>2, <1>3, <1>5, <1>6, <1>8, <1>9, <1>10

LEMMA CandidateType ==
  ASSUME NEW t \in TaskStates, PlaceInv(t), t.pc \in {"commit", "terminal", "publish"},
         t.req.op # "create" => t.prev.rev + 1 <= Cardinality(Keys)
  PROVE  Candidate(t) \in Views
<1>1. t.key \in Keys
  BY DEF PlaceInv, Asked, Forward
<1>2. Cardinality(Keys) \in Nat /\ Cardinality(Keys) # 0
  BY <1>1, InstallationAssumptions, FS_CardinalityType, FS_EmptySet
<1>3. 1 \in Revs
  BY <1>2 DEF Revs
<1>4. t.req.op # "create" => t.prev \in Views /\ t.prev.rev + 1 \in Revs
  <2> SUFFICES ASSUME t.req.op # "create"
               PROVE  t.prev \in Views /\ t.prev.rev + 1 \in Revs
    OBVIOUS
  <2>1. t.prev \in Views
    BY CandidateFields
  <2>2. t.prev.rev \in Nat
    BY <2>1, ViewFields
  <2> QED
    BY <1>2, <2>1, <2>2 DEF Revs
<1>5. CASE t.req.op = "create"
  <2>1. Candidate(t) = NewView
    BY <1>5, CandidateFields
  <2> QED
    BY <1>3, <2>1 DEF NewView, Views
<1>6. CASE t.req.op \in {"keep", "delete"} /\ t.prev.status = "ready"
  <2>1. Candidate(t) = [t.prev EXCEPT !.status = "removed", !.rev = @ + 1]
    BY <1>6, CandidateFields
  <2> QED
    BY <1>4, <1>6, <2>1 DEF Views
<1>7. CASE t.req.op \in {"preserve", "backup", "replace"}
  <2>1. Candidate(t) = [status |-> "ready", rev |-> t.prev.rev + 1, snap |-> t.snap]
    BY <1>7, CandidateFields
  <2>2. t.snap \in Contents \cup {None}
    BY TaskFields
  <2> QED
    BY <1>4, <1>7, <2>1, <2>2 DEF Views
<1>8. CASE t.req.op # "create" /\ Candidate(t) = t.prev
  BY <1>4, <1>8
<1>9. t.req.op \in {"keep", "delete"} => t.prev.status \in {"ready", "removed"}
  BY DEF PlaceInv, Started, Forward
<1>10. t.req.op \in {"create", "noop", "preserve", "backup", "replace", "keep", "delete"}
  BY TaskFields, RequestFields DEF Updates, Removals
<1> QED
  BY <1>5, <1>6, <1>7, <1>8, <1>9, <1>10, CandidateFields DEF Removals

-----------------------------------------------------------------------------
(* An append.                                                              *)

JournalType ==
  /\ len \in Nat
  /\ views \in [Installations -> Views \cup {None}]
  /\ pending \in [Installations -> PendingMutations \cup {None}]
  /\ claims \in [Keys -> Claims \cup {None}]

\* The compare-and-append of t's event succeeds.
Landing(t) ==
  /\ t.base # None /\ t.base = len /\ len' = len + 1
  /\ \/ Replays(t) /\ Replay(t)
     \/ UNCHANGED <<views, pending, claims>>

JournalMoves(t) == UNCHANGED <<len, views, pending, claims>> \/ Landing(t)

\* What the task decided on still stands when its append succeeds.
LEMMA LandingFacts ==
  ASSUME JournalType, JournalInv, NEW t \in TaskStates, PlaceInv(t), ReadInv(t),
         t.base # None, t.base = len
  PROVE  /\ t.inst \in Installations /\ t.pc \in AppendPoints
         /\ t.pc \in {"commit", "start"} =>
              views[t.inst] = t.prev /\ pending[t.inst] = None /\ claims[t.key] = None
         /\ t.pc \in {"commit", "terminal"} =>
              /\ t.key \in Keys /\ t.key \notin ClaimedFor(t.inst) /\ Candidate(t) \in Views
         /\ t.pc = "start" => t.id = len /\ t.prev \in Views /\ t.prev.status = "ready"
         /\ t.pc \in {"terminal", "rollback", "block"} =>
              /\ Mine(t) /\ pending[t.inst].prev = t.prev /\ pending[t.inst].snap = t.snap
              /\ t.prev \in Views /\ t.prev.status = "ready" /\ views[t.inst].rev = t.prev.rev
         /\ t.pc = "terminal" => views[t.inst] = Transitional(pending[t.inst])
<1>1. t.pc \in AppendPoints /\ t.inst \in Installations
  BY DEF PlaceInv, AppendPoints, Located, Started, Undo, Forward
<1>2. Stands(t) /\ ~Resolved(t) /\ ~Claimed(t)
  BY DEF ReadInv
<1>3. t.pc \in {"commit", "start"} =>
        views[t.inst] = t.prev /\ pending[t.inst] = None /\ claims[t.key] = None
  BY <1>2 DEF Stands, Claimed
<1>4. t.pc \in {"terminal", "rollback", "block"} =>
        /\ Mine(t) /\ pending[t.inst].prev = t.prev /\ pending[t.inst].snap = t.snap
        /\ t.prev \in Views /\ t.prev.status = "ready" /\ views[t.inst].rev = t.prev.rev
  <2> SUFFICES ASSUME t.pc \in {"terminal", "rollback", "block"}
               PROVE  /\ Mine(t) /\ pending[t.inst].prev = t.prev /\ pending[t.inst].snap = t.snap
                      /\ t.prev \in Views /\ t.prev.status = "ready"
                      /\ views[t.inst].rev = t.prev.rev
    OBVIOUS
  <2>1. Mine(t)
    BY <1>2 DEF Stands, Resolved, Mine
  <2>2. t.prev \in Views /\ t.prev.status = "ready"
    BY DEF PlaceInv, Started, Undo, Forward
  <2>3. pending[t.inst].prev = t.prev /\ pending[t.inst].snap = t.snap
    BY <2>1 DEF ReadInv, Started, Undo, Forward
  <2> QED
    BY <1>1, <2>1, <2>2, <2>3 DEF JournalInv, Mine
<1>5. t.pc = "terminal" => views[t.inst] = Transitional(pending[t.inst])
  BY <1>2 DEF Stands
<1>6. t.pc \in {"commit", "terminal"} => t.key \in Keys /\ t.key \notin ClaimedFor(t.inst)
  <2>1. t.pc \in {"commit", "terminal"} => t.key \in Keys
    BY DEF PlaceInv, Asked, Forward
  <2>2. t.pc = "commit" => t.key \notin ClaimedFor(t.inst)
    BY <1>3 DEF ClaimedFor
  <2>3. t.pc = "terminal" => t.key \notin ClaimedFor(t.inst)
    BY <1>4 DEF ReadInv, Forward
  <2> QED
    BY <2>1, <2>2, <2>3
<1>7. t.pc \in {"commit", "terminal"} => Candidate(t) \in Views
  <2> SUFFICES ASSUME t.pc \in {"commit", "terminal"} PROVE Candidate(t) \in Views
    OBVIOUS
  <2>1. t.req.op # "create" => t.prev \in Views
    BY CandidateFields
  <2>2. t.req.op # "create" => views[t.inst] # None /\ views[t.inst].rev = t.prev.rev
    BY <1>1, <1>3, <1>4, <2>1, ViewFields DEF JournalInv, Mine
  <2>3. t.req.op # "create" => t.prev.rev <= Cardinality(ClaimedFor(t.inst))
    BY <1>1, <2>2 DEF JournalInv
  <2>4. Cardinality(ClaimedFor(t.inst)) + 1 <= Cardinality(Keys)
    BY <1>6, RevisionLeft
  <2>5. Cardinality(ClaimedFor(t.inst)) \in Nat /\ Cardinality(Keys) \in Nat
    BY ClaimedFinite, InstallationAssumptions, FS_CardinalityType
  <2>6. t.req.op # "create" => t.prev.rev \in Nat
    BY <2>1, ViewFields
  <2>7. t.req.op # "create" => t.prev.rev + 1 <= Cardinality(Keys)
    BY <2>3, <2>4, <2>5, <2>6
  <2> QED
    BY <2>7, CandidateType
<1>8. t.pc = "start" => t.id = len /\ t.prev \in Views /\ t.prev.status = "ready"
  BY DEF ReadInv, PlaceInv
<1> QED
  BY <1>1, <1>3, <1>4, <1>5, <1>6, <1>7, <1>8

LEMMA ReplayFields ==
  ASSUME JournalType, NEW t \in TaskStates, t.inst \in Installations, t.pc \in AppendPoints,
         t.pc \in {"commit", "terminal"} => t.key \in Keys, Replay(t)
  PROVE  /\ \A j \in Installations : j # t.inst => views'[j] = views[j] /\ pending'[j] = pending[j]
         /\ t.pc \in {"commit", "terminal"} =>
              /\ views'[t.inst] = Candidate(t) /\ pending'[t.inst] = None
              /\ claims' = [claims EXCEPT ![t.key] = ClaimOf(t)]
         /\ t.pc \in {"start", "rollback", "block"} => claims' = claims
         /\ t.pc = "start" =>
              /\ views'[t.inst] = [views[t.inst] EXCEPT !.status = Kind(t)]
              /\ pending'[t.inst] =
                   [id |-> t.id, kind |-> Kind(t), prev |-> t.prev, snap |-> t.snap]
         /\ t.pc = "rollback" => views'[t.inst] = t.prev /\ pending'[t.inst] = None
         /\ t.pc = "block" => /\ views'[t.inst] = [pending[t.inst].prev EXCEPT !.status = "blocked"]
                              /\ pending'[t.inst] = pending[t.inst]
         /\ views' = [views EXCEPT ![t.inst] = views'[t.inst]]
         /\ pending' = [pending EXCEPT ![t.inst] = pending'[t.inst]]
<1>1. DOMAIN views = Installations /\ DOMAIN pending = Installations
  BY DEF JournalType
<1>2. t.pc \in {"commit", "start", "terminal", "rollback", "block"}
  BY DEF AppendPoints
<1>3. CASE t.pc \in {"commit", "terminal"}
  BY <1>1, <1>3 DEF Replay
<1>4. CASE t.pc = "start"
  BY <1>1, <1>4 DEF Replay
<1>5. CASE t.pc = "rollback"
  BY <1>1, <1>5 DEF Replay
<1>6. CASE t.pc = "block"
  BY <1>1, <1>6 DEF Replay
<1> QED
  BY <1>2, <1>3, <1>4, <1>5, <1>6

LEMMA KindType ==
  ASSUME NEW t
  PROVE  Kind(t) \in {"updating", "removing"}
BY DEF Kind

LEMMA LandingKeepsType ==
  ASSUME JournalType, JournalInv, NEW t \in TaskStates, PlaceInv(t), ReadInv(t), Landing(t)
  PROVE  JournalType'
<1>1. t.base # None /\ t.base = len /\ len' = len + 1 /\ len' \in Nat
  BY DEF Landing, JournalType
<1>2. CASE UNCHANGED <<views, pending, claims>>
  BY <1>1, <1>2 DEF JournalType
<1>3. CASE Replay(t)
  <2>1. t.inst \in Installations /\ t.pc \in AppendPoints
    BY <1>1, LandingFacts
  <2>2. views'[t.inst] \in Views \cup {None}
    <3>1. CASE t.pc \in {"commit", "terminal"}
      BY <1>1, <1>3, <2>1, <3>1, LandingFacts, ReplayFields
    <3>2. CASE t.pc = "start"
      <4>1. views[t.inst] \in Views
        BY <1>1, <3>2, LandingFacts
      <4>2. views'[t.inst] = [views[t.inst] EXCEPT !.status = Kind(t)]
        BY <1>3, <2>1, <3>2, ReplayFields
      <4>3. Kind(t) \in {"ready", "updating", "removing", "removed", "blocked"}
        BY KindType
      <4>4. \A v \in Views : [v EXCEPT !.status = Kind(t)] \in Views
        BY <4>3, StatusView
      <4> QED
        BY <4>1, <4>2, <4>4
    <3>3. CASE t.pc = "rollback"
      BY <1>1, <1>3, <2>1, <3>3, LandingFacts, ReplayFields
    <3>4. CASE t.pc = "block"
      <4>1. pending[t.inst].prev \in Views
        BY <1>1, <3>4, LandingFacts
      <4>2. views'[t.inst] = [pending[t.inst].prev EXCEPT !.status = "blocked"]
        BY <1>3, <2>1, <3>4, ReplayFields
      <4> QED
        BY <4>1, <4>2, StatusView
    <3> QED
      BY <2>1, <3>1, <3>2, <3>3, <3>4 DEF AppendPoints
  <2>3. pending'[t.inst] \in PendingMutations \cup {None}
    <3>1. CASE t.pc = "start"
      <4>1. /\ pending'[t.inst] = [id |-> t.id, kind |-> Kind(t), prev |-> t.prev, snap |-> t.snap]
            /\ t.prev \in Views
        BY <1>1, <1>3, <2>1, <3>1, LandingFacts, ReplayFields
      <4>2. t.snap \in Contents /\ t.id \in Nat
        BY <3>1, TaskFields DEF PlaceInv
      <4> QED
        BY <4>1, <4>2, KindType DEF PendingMutations
    <3>2. CASE t.pc \in {"commit", "terminal", "rollback", "block"}
      <4>1. pending'[t.inst] \in {None, pending[t.inst]}
        BY <1>1, <1>3, <2>1, <3>2, LandingFacts, ReplayFields
      <4> QED
        BY <2>1, <4>1 DEF JournalType
    <3> QED
      BY <2>1, <3>1, <3>2 DEF AppendPoints
  <2>4. /\ views' = [views EXCEPT ![t.inst] = views'[t.inst]]
        /\ pending' = [pending EXCEPT ![t.inst] = pending'[t.inst]]
    BY <1>1, <1>3, <2>1, LandingFacts, ReplayFields
  <2>5. claims' \in [Keys -> Claims \cup {None}]
    <3>1. CASE t.pc \in {"commit", "terminal"}
      <4>1. Candidate(t) \in Views /\ t.key \in Keys
        BY <1>1, <3>1, LandingFacts
      <4>2. ClaimOf(t) \in Claims
        BY <2>1, <4>1, TaskFields DEF ClaimOf, Claims
      <4>3. claims' = [claims EXCEPT ![t.key] = ClaimOf(t)]
        BY <1>3, <2>1, <3>1, <4>1, ReplayFields
      <4> QED
        BY <4>2, <4>3 DEF JournalType
    <3>2. CASE t.pc \in {"start", "rollback", "block"}
      BY <1>1, <1>3, <2>1, <3>2, LandingFacts, ReplayFields DEF JournalType
    <3> QED
      BY <2>1, <3>1, <3>2 DEF AppendPoints
  <2> QED
    BY <1>1, <2>1, <2>2, <2>3, <2>4, <2>5 DEF JournalType
<1> QED
  BY <1>2, <1>3 DEF Landing

\* A commit installs a claim where there was none, and changes no other.
LEMMA LandingClaims ==
  ASSUME JournalType, JournalInv, NEW t \in TaskStates, PlaceInv(t), ReadInv(t),
         t.base # None, t.base = len, Replays(t), Replay(t)
  PROVE  /\ t.pc \in {"commit", "terminal"} =>
              /\ t.key \in Keys /\ claims[t.key] = None /\ claims'[t.key] = ClaimOf(t)
              /\ \A k \in Keys \ {t.key} : claims'[k] = claims[k]
              /\ ClaimedFor(t.inst)' = ClaimedFor(t.inst) \cup {t.key}
              /\ \A j \in Installations \ {t.inst} : ClaimedFor(j)' = ClaimedFor(j)
         /\ t.pc \notin {"commit", "terminal"} =>
              claims' = claims /\ \A j : ClaimedFor(j)' = ClaimedFor(j)
<1>1. t.inst \in Installations /\ t.pc \in AppendPoints
  BY LandingFacts
<1>2. CASE t.pc \in {"commit", "terminal"}
  <2>1. t.key \in Keys /\ t.key \notin ClaimedFor(t.inst) /\ Candidate(t) \in Views
    BY <1>2, LandingFacts
  <2>2. claims' = [claims EXCEPT ![t.key] = ClaimOf(t)]
    BY <1>1, <1>2, <2>1, ReplayFields
  <2>3. ClaimOf(t).inst = t.inst /\ ClaimOf(t) \in Claims
    BY <1>1, <2>1, TaskFields DEF ClaimOf, Claims
  <2>4. claims[t.key] = None
    <3>1. CASE t.pc = "commit"
      BY <3>1, LandingFacts
    <3>2. CASE t.pc = "terminal"
      <4>1. claims[t.key] \in {None, ClaimOf(t)}
        BY <3>2 DEF Replays, ClaimInstalls
      <4> QED
        BY <2>1, <2>3, <4>1 DEF ClaimedFor
    <3> QED
      BY <1>2, <3>1, <3>2
  <2>5. claims'[t.key] = ClaimOf(t) /\ \A k \in Keys \ {t.key} : claims'[k] = claims[k]
    BY <2>1, <2>2 DEF JournalType
  <2>6. ClaimOf(t) # None
    BY <2>3, NoneAssumption
  <2>7. ClaimedFor(t.inst)' = ClaimedFor(t.inst) \cup {t.key}
    BY <2>1, <2>3, <2>5, <2>6 DEF ClaimedFor
  <2>8. \A j \in Installations \ {t.inst} : ClaimedFor(j)' = ClaimedFor(j)
    BY <2>1, <2>3, <2>4, <2>5, <2>6 DEF ClaimedFor
  <2> QED
    BY <1>2, <2>1, <2>4, <2>5, <2>7, <2>8
<1>3. CASE t.pc \notin {"commit", "terminal"}
  <2>1. claims' = claims
    BY <1>1, <1>3, ReplayFields DEF AppendPoints
  <2> QED
    BY <1>3, <2>1 DEF ClaimedFor
<1> QED
  BY <1>2, <1>3

LEMMA LandingKeepsJournal ==
  ASSUME JournalType, JournalInv, NEW t \in TaskStates, PlaceInv(t), ReadInv(t), Landing(t)
  PROVE  JournalInv'
<1>1. t.base # None /\ t.base = len /\ len' = len + 1 /\ len \in Nat
  BY DEF Landing, JournalType
<1>t. JournalType' /\ \A i \in Installations : pending[i] # None => pending[i].id \in Nat
  BY LandingKeepsType, PendingFields DEF JournalType
<1>2. CASE UNCHANGED <<views, pending, claims>>
  <2>1. \A i \in Installations : ClaimedFor(i)' = ClaimedFor(i)
    BY <1>2 DEF ClaimedFor
  <2> QED
    BY <1>1, <1>2, <1>t, <2>1 DEF JournalInv
<1>3. CASE Replays(t) /\ Replay(t)
  <2>1. t.inst \in Installations /\ t.pc \in AppendPoints
    BY <1>1, LandingFacts
  <2>2. t.pc \in {"commit", "terminal"} => t.key \in Keys
    BY <1>1, LandingFacts
  <2> DEFINE i == t.inst
             Good(j) ==
               /\ pending[j] # None =>
                    /\ pending[j].id < len /\ pending[j].prev.status = "ready"
                    /\ views[j] # None /\ views[j].status \in {pending[j].kind, "blocked"}
                    /\ views[j].rev = pending[j].prev.rev
               /\ pending[j] = None /\ views[j] # None => views[j].status \in {"ready", "removed"}
               /\ views[j] # None => views[j].rev <= Cardinality(ClaimedFor(j))
  <2>3. \A j \in Installations : Good(j)
    BY DEF JournalInv
  <2>4. \A j \in Installations \ {i} : Good(j)'
    <3> SUFFICES ASSUME NEW j \in Installations \ {i} PROVE Good(j)'
      OBVIOUS
    <3>1. ClaimedFor(j)' = ClaimedFor(j)
      BY <1>1, <1>3, LandingClaims
    <3>2. views'[j] = views[j] /\ pending'[j] = pending[j]
      BY ZenonT(60), <1>3, <2>1, <2>2, ReplayFields
    <3> QED
      BY <1>1, <1>t, <2>3, <3>1, <3>2
  <2>5. Good(i)'
    <3>1. CASE t.pc \in {"commit", "terminal"}
      <4>1. /\ views'[i] = Candidate(t) /\ pending'[i] = None /\ Candidate(t) \in Views
            /\ t.key \in Keys /\ t.key \notin ClaimedFor(i)
        BY <1>1, <1>3, <2>1, <2>2, <3>1, LandingFacts, ReplayFields
      <4>2. Cardinality(ClaimedFor(i))' = Cardinality(ClaimedFor(i)) + 1
        BY <1>1, <1>3, <3>1, <4>1, LandingClaims, ClaimCounts
      <4>3. Cardinality(ClaimedFor(i)) \in Nat
        BY ClaimedFinite
      <4>4. CASE t.req.op = "create"
        <5>1. Candidate(t).status = "ready" /\ Candidate(t).rev = 1
          <6>1. Candidate(t) = NewView
            BY <3>1, <4>4, CandidateFields
          <6> QED
            BY <6>1 DEF NewView
        <5> QED
          BY <4>1, <4>2, <4>3, <5>1
      <4>5. CASE t.req.op # "create"
        <5>1. /\ t.prev \in Views /\ (Candidate(t) = t.prev \/ Candidate(t).rev = t.prev.rev + 1)
              /\ t.prev.rev \in Nat /\ t.prev # None
          BY <3>1, <4>5, CandidateFields, ViewFields
        <5>2. t.prev.rev <= Cardinality(ClaimedFor(i))
          BY <1>1, <2>1, <2>3, <3>1, <5>1, LandingFacts DEF Mine
        <5>3. Candidate(t).rev <= Cardinality(ClaimedFor(i))'
          BY <4>2, <4>3, <5>1, <5>2
        <5>4. Candidate(t).status \in {"ready", "removed"}
          <6>1. t.prev.status \in {"ready", "removed"}
            BY <3>1, <4>5 DEF PlaceInv, Started, Forward
          <6>2. t.req.op \in {"noop", "preserve", "backup", "replace", "keep", "delete"}
            BY <4>5, TaskFields, RequestFields DEF Updates, Removals
          <6>3. CASE t.req.op \in {"keep", "delete"} /\ t.prev.status = "ready"
            <7>1. Candidate(t) = [t.prev EXCEPT !.status = "removed", !.rev = @ + 1]
              BY <3>1, <6>3, CandidateFields
            <7> QED
              BY <5>1, <7>1 DEF Views
          <6>4. CASE t.req.op \in {"preserve", "backup", "replace"}
            <7>1. Candidate(t) = [status |-> "ready", rev |-> t.prev.rev + 1, snap |-> t.snap]
              BY <3>1, <6>4, CandidateFields
            <7> QED
              BY <7>1
          <6>5. CASE Candidate(t) = t.prev
            BY <6>1, <6>5
          <6> QED
            BY <3>1, <6>1, <6>2, <6>3, <6>4, <6>5, CandidateFields DEF Removals
        <5> QED
          BY <4>1, <5>3, <5>4
      <4> QED
        BY <4>4, <4>5
    <3>2. CASE t.pc = "start"
      <4>1. /\ views[i] = t.prev /\ pending[i] = None /\ t.id = len
            /\ t.prev \in Views /\ t.prev.status = "ready"
        BY <1>1, <3>2, LandingFacts
      <4>2. /\ views'[i] = [views[i] EXCEPT !.status = Kind(t)]
            /\ pending'[i] = [id |-> t.id, kind |-> Kind(t), prev |-> t.prev, snap |-> t.snap]
        BY <1>3, <2>1, <2>2, <3>2, ReplayFields
      <4>3. /\ views'[i] # None /\ views'[i].status = Kind(t) /\ views'[i].rev = t.prev.rev
        BY <4>1, <4>2, KindType, NoneAssumption DEF Views
      <4>4. pending'[i].id = len /\ pending'[i].prev = t.prev /\ pending'[i].kind = Kind(t)
        BY <4>1, <4>2
      <4>5. pending'[i] # None
        <5>1. t.snap \in Contents
          BY <3>2 DEF PlaceInv
        <5> QED
          BY <1>1, <4>1, <4>2, <5>1, KindType, NoneAssumption DEF PendingMutations
      <4>6. ClaimedFor(i)' = ClaimedFor(i)
        BY <1>1, <1>3, <3>2, LandingClaims
      <4>7. t.prev.rev <= Cardinality(ClaimedFor(i))
        BY <2>1, <2>3, <4>1, ViewFields
      <4> QED
        BY <1>1, <4>1, <4>3, <4>4, <4>5, <4>6, <4>7
    <3>3. CASE t.pc \in {"rollback", "block"}
      <4>1. /\ Mine(t) /\ pending[i].prev = t.prev
            /\ t.prev \in Views /\ t.prev.status = "ready" /\ views[i].rev = t.prev.rev
        BY <1>1, <3>3, LandingFacts
      <4>2. ClaimedFor(i)' = ClaimedFor(i)
        BY <1>1, <1>3, <3>3, LandingClaims
      <4>3. t.prev.rev <= Cardinality(ClaimedFor(i))
        BY <2>1, <2>3, <4>1 DEF Mine
      <4>4. CASE t.pc = "rollback"
        <5>1. views'[i] = t.prev /\ pending'[i] = None
          BY <1>3, <2>1, <2>2, <4>4, ReplayFields
        <5> QED
          BY <4>1, <4>2, <4>3, <5>1
      <4>5. CASE t.pc = "block"
        <5>1. views'[i] = [t.prev EXCEPT !.status = "blocked"] /\ pending'[i] = pending[i]
          BY <1>3, <2>1, <2>2, <4>1, <4>5, ReplayFields
        <5>2. views'[i].status = "blocked" /\ views'[i].rev = t.prev.rev /\ views'[i] # None
          BY <4>1, <5>1, NoneAssumption DEF Views
        <5> QED
          BY <1>1, <1>t, <2>1, <2>3, <4>1, <4>2, <4>3, <5>1, <5>2 DEF Mine
      <4> QED
        BY <3>3, <4>4, <4>5
    <3> QED
      BY <2>1, <3>1, <3>2, <3>3 DEF AppendPoints
  <2> QED
    BY <2>4, <2>5 DEF JournalInv
<1> QED
  BY <1>2, <1>3 DEF Landing

\* A mutation that is pending after another's append was so before, and was not
\* claimed by it.
LEMMA LandingKeepsMine ==
  ASSUME JournalType, JournalInv, NEW t \in TaskStates, PlaceInv(t), ReadInv(t), Landing(t),
         NEW s \in TaskStates, s.inst \in Installations, s.id < len, Mine(s)'
  PROVE  /\ Mine(s) /\ pending'[s.inst] = pending[s.inst]
         /\ ClaimedFor(s.inst)' = ClaimedFor(s.inst)
<1>1. t.base # None /\ t.base = len /\ len' = len + 1 /\ len \in Nat /\ s.id \in Nat
  BY TaskFields DEF Landing, JournalType
<1>2. CASE UNCHANGED <<views, pending, claims>>
  BY <1>2 DEF Mine, ClaimedFor
<1>3. CASE Replays(t) /\ Replay(t)
  <2>1. t.inst \in Installations /\ t.pc \in AppendPoints
    BY <1>1, LandingFacts
  <2>2. t.pc \in {"commit", "terminal"} => t.key \in Keys
    BY <1>1, LandingFacts
  <2>3. CASE s.inst # t.inst
    <3>1. pending'[s.inst] = pending[s.inst]
      BY <1>3, <2>1, <2>2, <2>3, ReplayFields
    <3>2. ClaimedFor(s.inst)' = ClaimedFor(s.inst)
      BY <1>1, <1>3, <2>3, LandingClaims
    <3> QED
      BY <3>1, <3>2 DEF Mine
  <2>4. CASE s.inst = t.inst
    <3>1. t.pc # "start"
      <4> SUFFICES ASSUME t.pc = "start" PROVE FALSE
        OBVIOUS
      <4>1. pending'[t.inst].id = len
        <5>1. t.id = len
          BY <1>1, LandingFacts
        <5>2. pending'[t.inst] = [id |-> t.id, kind |-> Kind(t), prev |-> t.prev, snap |-> t.snap]
          BY <1>3, <2>1, <2>2, ReplayFields
        <5> QED
          BY <5>1, <5>2
      <4> QED
        BY <1>1, <2>4, <4>1 DEF Mine
    <3>2. t.pc = "block"
      BY <1>3, <2>1, <2>2, <2>4, <3>1, ReplayFields DEF Mine, AppendPoints
    <3>3. pending'[t.inst] = pending[t.inst]
      BY <1>3, <2>1, <2>2, <3>2, ReplayFields
    <3> QED
      BY <1>1, <1>3, <2>4, <3>2, <3>3, LandingClaims DEF Mine
  <2> QED
    BY <2>3, <2>4
<1> QED
  BY <1>2, <1>3 DEF Landing

\* What a task has read stays true when an event lands.
LEMMA LandingKeepsReads ==
  ASSUME JournalType, JournalInv, NEW t \in TaskStates, PlaceInv(t), ReadInv(t), Landing(t),
         NEW s \in TaskStates, PlaceInv(s), ReadInv(s)
  PROVE  ReadInv(s)'
<1>1. len' = len + 1 /\ len \in Nat /\ s.id \in Nat /\ s.base \in Nat \cup {None}
  BY TaskFields DEF Landing, JournalType
<1>2. s.base # None => s.base <= len /\ s.base # len + 1
  BY <1>1 DEF ReadInv
<1>3. s.pc \in Started => s.id < len /\ s.inst \in Installations
  BY DEF ReadInv, PlaceInv, Located
<1>4. s.pc \in Forward => s.pc \in Started
  BY DEF Started
<1>5. s.pc \in Started /\ Mine(s)' =>
        /\ Mine(s) /\ pending'[s.inst] = pending[s.inst]
        /\ ClaimedFor(s.inst)' = ClaimedFor(s.inst)
  BY <1>3, LandingKeepsMine
<1>6. s.pc \in Started /\ Mine(s)' =>
       /\ pending'[s.inst].prev = s.prev /\ pending'[s.inst].snap = s.snap
       /\ ~s.hydrate => pending'[s.inst].kind = Kind(s)
  BY <1>5 DEF ReadInv
<1>7. s.pc \in Forward /\ Mine(s)' => s.key \notin ClaimedFor(s.inst)'
  BY <1>4, <1>5 DEF ReadInv
<1>8. /\ s.base # None => s.base <= len'
      /\ s.base # None /\ s.pc = "start" => s.id = s.base
      /\ s.pc \in Started => s.id < len'
      /\ ~(s.base # None /\ s.base = len')
      /\ s.pc = "publish" => Candidate(s) \in Views
  BY <1>1, <1>2, <1>3 DEF ReadInv
<1> QED
  BY <1>6, <1>7, <1>8 DEF ReadInv

LEMMA MovesKeep ==
  ASSUME JournalType, JournalInv, NEW t \in TaskStates, PlaceInv(t), ReadInv(t),
         JournalMoves(t)
  PROVE  /\ JournalType' /\ JournalInv'
         /\ \A s \in TaskStates : PlaceInv(s) /\ ReadInv(s) => ReadInv(s)'
<1>1. CASE Landing(t)
  BY <1>1, LandingKeepsType, LandingKeepsJournal, LandingKeepsReads
<1>2. CASE UNCHANGED <<len, views, pending, claims>>
  <2>1. JournalType'
    BY <1>2 DEF JournalType
  <2>2. \A i : ClaimedFor(i)' = ClaimedFor(i)
    BY <1>2 DEF ClaimedFor
  <2>3. JournalInv'
    BY <1>2, <2>2 DEF JournalInv
  <2>4. ASSUME NEW s \in TaskStates, ReadInv(s) PROVE ReadInv(s)'
    <3>1. Mine(s)' <=> Mine(s)
      BY <1>2 DEF Mine
    <3>2. Stands(s)' <=> Stands(s)
      BY <1>2 DEF Stands, Transitional
    <3>3. (Resolved(s)' <=> Resolved(s)) /\ (Claimed(s)' <=> Claimed(s))
      BY <1>2 DEF Resolved, Claimed
    <3> QED
      BY <1>2, <2>2, <2>4, <3>1, <3>2, <3>3 DEF ReadInv
  <2> QED
    BY <2>1, <2>3, <2>4
<1> QED
  BY <1>1, <1>2 DEF JournalMoves

-----------------------------------------------------------------------------
(* A step of a task.                                                       *)

FileType ==
  /\ poisoned \in BOOLEAN
  /\ disk \in [Installations -> Contents]
  /\ projected \in [Installations -> Revs \cup {0}]
  /\ owner \in Hosts \cup {None}
  /\ apply \in [Hosts -> Workers \cup {None}]
  /\ guard \in [Hosts -> [Installations -> Views \cup {None}]]
  /\ faults \in 0..MaxFaults

CallType ==
  /\ phase \in [Hosts -> {"down", "hydrating", "up"}]
  /\ lifecycle \in [Hosts -> [Installations -> Workers \cup {None}]]
  /\ answer \in [Keys -> Claims \cup {None}]

TaskType == task \in [Hosts -> [Workers -> TaskStates]]

LEMMA TypeParts == TypeOK <=> JournalType /\ FileType /\ CallType /\ TaskType
BY DEF TypeOK, JournalType, FileType, CallType, TaskType

LEMMA TypePartsNext == TypeOK' <=> JournalType' /\ FileType' /\ CallType' /\ TaskType'
BY DEF TypeOK, JournalType, FileType, CallType, TaskType

LEMMA KnownTask ==
  ASSUME RegistryInv, NEW h \in Hosts, NEW w \in Workers
  PROVE  /\ task[h][w] \in TaskStates /\ PlaceInv(task[h][w]) /\ ReadInv(task[h][w])
         /\ JournalType /\ JournalInv /\ FileType /\ CallType /\ TaskType
BY TypeParts DEF RegistryInv, TasksInv, TaskType

LEMMA SetTaskFields ==
  ASSUME TaskType, NEW h \in Hosts, NEW w \in Workers, NEW u, SetTask(h, w, u)
  PROVE  /\ task'[h][w] = u
         /\ \A g \in Hosts, v \in Workers : ~(g = h /\ v = w) => task'[g][v] = task[g][v]
         /\ u \in TaskStates => TaskType'
BY DEF TaskType, SetTask

LEMMA RegistryStep ==
  ASSUME RegistryInv, NEW h \in Hosts, NEW w \in Workers, JournalMoves(task[h][w]),
         NEW u \in TaskStates, SetTask(h, w, u), PlaceInv(u), ReadInv(u)',
         FileType', CallType'
  PROVE  RegistryInv'
<1>1. /\ task[h][w] \in TaskStates /\ PlaceInv(task[h][w]) /\ ReadInv(task[h][w])
      /\ JournalType /\ JournalInv /\ TaskType
  BY KnownTask
<1>2. /\ JournalType' /\ JournalInv'
      /\ \A s \in TaskStates : PlaceInv(s) /\ ReadInv(s) => ReadInv(s)'
  BY <1>1, MovesKeep
<1>3. /\ task'[h][w] = u /\ TaskType'
      /\ \A g \in Hosts, v \in Workers : ~(g = h /\ v = w) => task'[g][v] = task[g][v]
  BY <1>1, SetTaskFields
<1>4. TypeOK'
  BY <1>2, <1>3, TypePartsNext
<1>5. ASSUME NEW g \in Hosts, NEW v \in Workers
      PROVE  PlaceInv(task[g][v])' /\ ReadInv(task[g][v])'
  <2>1. CASE g = h /\ v = w
    BY <1>3, <2>1
  <2>2. CASE ~(g = h /\ v = w)
    <3>1. \A s : s = task[g][v] => s \in TaskStates /\ PlaceInv(s) /\ ReadInv(s)
      BY KnownTask
    <3>2. \A s : s = task[g][v] => ReadInv(s)' /\ PlaceInv(s)
      BY <1>2, <3>1
    <3>3. task'[g][v] = task[g][v]
      BY <1>3, <2>2
    <3> QED
      BY <3>2, <3>3
  <2> QED
    BY <2>1, <2>2
<1> QED
  BY <1>2, <1>4, <1>5 DEF RegistryInv, TasksInv

LEMMA FaultType ==
  ASSUME faults \in 0..MaxFaults, Fault \/ NoFault
  PROVE  faults' \in 0..MaxFaults
BY InstallationAssumptions DEF Fault, NoFault

RecoverTask == [IdleTask EXCEPT !.pc = "recover", !.hydrate = TRUE]

LEMMA RecoverFields ==
  /\ RecoverTask.pc = "recover" /\ RecoverTask.hydrate = TRUE /\ RecoverTask.key = None
  /\ RecoverTask.req = CreateRequest /\ RecoverTask.inst = None /\ RecoverTask.prev = None
  /\ RecoverTask.snap = None /\ RecoverTask.id = 0 /\ RecoverTask.base = None
  /\ RecoverTask.tries = 0 /\ RecoverTask.stale = FALSE
BY DEF RecoverTask, IdleTask

LEMMA RecoverType == RecoverTask \in TaskStates
<1>1. CreateRequest \in Requests
  BY DEF Requests
<1>2. 0 \in 0..CasAttempts
  BY InstallationAssumptions
<1> QED
  BY <1>1, <1>2 DEF RecoverTask, IdleTask, TaskStates, Points

\* A task between two requests or two recoveries relies on nothing.
LEMMA RestingInv ==
  ASSUME NEW u, u.pc \in {"idle"} \cup Boots, u.base = None, u.hydrate <=> u.pc \in Boots
  PROVE  PlaceInv(u) /\ ReadInv(u)'
<1>1. u.pc \in {"idle", "recover", "materialize"}
  BY DEF Boots
<1>2. PlaceInv(u)
  BY <1>1 DEF PlaceInv, Boots, Undo, Located, Started, Forward, Asked
<1>3. ReadInv(u)'
  BY <1>1 DEF ReadInv, Started, Forward, Undo
<1> QED
  BY <1>2, <1>3

LEMMA IdleInv == PlaceInv(IdleTask) /\ ReadInv(IdleTask)' /\ IdleTask \in TaskStates
<1>1. IdleTask.pc \notin Boots
  BY IdleFields DEF Boots
<1> QED
  BY <1>1, IdleFields, RestingInv, IdleType

LEMMA RecoverInv == PlaceInv(RecoverTask) /\ ReadInv(RecoverTask)' /\ RecoverTask \in TaskStates
<1>1. RecoverTask.pc \in Boots
  BY RecoverFields DEF Boots
<1> QED
  BY <1>1, RecoverFields, RestingInv, RecoverType

LEMMA UnlockedFields ==
  ASSUME CallType, NEW h \in Hosts, NEW w \in Workers, Unlocked(h, w)
  PROVE  /\ lifecycle' \in [Hosts -> [Installations -> Workers \cup {None}]]
         /\ \A i \in Installations :
              lifecycle'[h][i] = IF lifecycle[h][i] = w THEN None ELSE lifecycle[h][i]
         /\ \A g \in Hosts \ {h} : lifecycle'[g] = lifecycle[g]
<1> DEFINE L == [i \in Installations |-> IF lifecycle[h][i] = w THEN None ELSE lifecycle[h][i]]
<1>1. lifecycle' = [lifecycle EXCEPT ![h] = L]
  BY DEF Unlocked
<1>2. lifecycle \in [Hosts -> [Installations -> Workers \cup {None}]]
  BY DEF CallType
<1>3. L \in [Installations -> Workers \cup {None}]
  BY <1>2
<1>4. \A i \in Installations : L[i] = IF lifecycle[h][i] = w THEN None ELSE lifecycle[h][i]
  OBVIOUS
<1> HIDE DEF L
<1> QED
  BY <1>1, <1>2, <1>3, <1>4

\* The task ends: a refusal, a failed startup, the next recovery.
Quits(h, w) == Refused(h, w) \/ BootFails(h, w) \/ RecoverNext(h, w)

LEMMA QuitFields ==
  ASSUME CallType, NEW h \in Hosts, NEW w \in Workers, Quits(h, w)
  PROVE  /\ \E u \in {IdleTask, RecoverTask} : SetTask(h, w, u)
         /\ Unlocked(h, w) /\ CallType' /\ answer' = answer
         /\ Refused(h, w) => SetTask(h, w, IdleTask) /\ phase' = phase
         /\ BootFails(h, w) => SetTask(h, w, IdleTask) /\ phase' = [phase EXCEPT ![h] = "down"]
         /\ RecoverNext(h, w) => SetTask(h, w, RecoverTask) /\ phase' = phase
<1>1. Unlocked(h, w) /\ answer' = answer
  BY DEF Quits, Refused, BootFails, RecoverNext
<1>2. lifecycle' \in [Hosts -> [Installations -> Workers \cup {None}]]
  BY <1>1, UnlockedFields
<1>3. /\ Refused(h, w) => SetTask(h, w, IdleTask) /\ phase' = phase
      /\ BootFails(h, w) => SetTask(h, w, IdleTask) /\ phase' = [phase EXCEPT ![h] = "down"]
      /\ RecoverNext(h, w) => SetTask(h, w, RecoverTask) /\ phase' = phase
  BY DEF Refused, BootFails, RecoverNext, RecoverTask
<1>4. phase' \in [Hosts -> {"down", "hydrating", "up"}]
  BY <1>3 DEF CallType, Quits
<1> QED
  BY <1>1, <1>2, <1>3, <1>4 DEF CallType, Quits

LEMMA QuitsKeeps ==
  ASSUME RegistryInv, NEW h \in Hosts, NEW w \in Workers, JournalMoves(task[h][w]),
         Quits(h, w), FileType'
  PROVE  RegistryInv'
<1>1. CallType
  BY KnownTask
<1>2. CallType' /\ \E u \in {IdleTask, RecoverTask} : SetTask(h, w, u)
  BY <1>1, QuitFields
<1> QED
  BY <1>2, IdleInv, RecoverInv, RegistryStep

LEMMA ErrorQuits ==
  ASSUME NEW h, NEW w, Error(h, w)
  PROVE  Quits(h, w)
BY DEF Error, Quits

LEMMA RolledBackQuits ==
  ASSUME NEW h, NEW w, RolledBack(h, w)
  PROVE  Quits(h, w)
BY DEF RolledBack, Quits

\* The task ends with an answer.
LEMMA TellKeeps ==
  ASSUME RegistryInv, NEW h \in Hosts, NEW w \in Workers, JournalMoves(task[h][w]),
         SetTask(h, w, IdleTask), Unlocked(h, w), phase' = phase,
         answer' \in [Keys -> Claims \cup {None}], FileType'
  PROVE  RegistryInv'
<1>1. CallType
  BY KnownTask
<1>2. CallType'
  BY <1>1, UnlockedFields DEF CallType
<1> QED
  BY <1>2, IdleInv, RegistryStep

LEMMA ReplayClaimKeeps ==
  ASSUME RegistryInv, NEW h \in Hosts, NEW w \in Workers, JournalMoves(task[h][w]),
         NEW key \in Keys, claims[key] # None, NEW r \in Requests, ReplayClaim(h, w, key, r),
         FileType'
  PROVE  RegistryInv'
<1>1. CallType /\ JournalType
  BY KnownTask
<1>2. claims[key] \in Claims
  BY <1>1 DEF JournalType
<1>3. [claims[key] EXCEPT !.req = r] \in Claims
  BY <1>2 DEF Claims
<1>4. answer' \in [Keys -> Claims \cup {None}]
  BY <1>1, <1>3 DEF ReplayClaim, CallType
<1> QED
  BY <1>4, TellKeeps DEF ReplayClaim

LEMMA AnsweredKeeps ==
  ASSUME RegistryInv, NEW h \in Hosts, NEW w \in Workers, JournalMoves(task[h][w]),
         task[h][w].key \in Keys, task[h][w].inst \in Installations, NEW v \in Views,
         Answered(h, w, v), FileType'
  PROVE  RegistryInv'
<1>1. CallType /\ task[h][w].req \in Requests
  BY KnownTask, TaskFields
<1>2. [req |-> task[h][w].req, inst |-> task[h][w].inst, view |-> v] \in Claims
  BY <1>1 DEF Claims
<1>3. answer' \in [Keys -> Claims \cup {None}]
  BY <1>1, <1>2 DEF Answered, CallType
<1> QED
  BY <1>3, TellKeeps DEF Answered

\* A staged mutation goes on, forward or back.
Follows(u, t) ==
  /\ u.hydrate = t.hydrate /\ u.key = t.key /\ u.req = t.req /\ u.inst = t.inst
  /\ u.prev = t.prev /\ u.snap = t.snap /\ u.id = t.id /\ u.stale = t.stale

LEMMA StagedInv ==
  ASSUME NEW t \in TaskStates, NEW u \in TaskStates, Follows(u, t), u.base = None,
         t.pc \in Started, u.pc \in Started, u.pc \in Forward => t.pc \in Forward,
         PlaceInv(t), ReadInv(t)'
  PROVE  PlaceInv(u) /\ ReadInv(u)'
<1>1. Mine(u)' <=> Mine(t)'
  BY DEF Mine, Follows
<1>2. Kind(u) = Kind(t)
  BY DEF Kind, Follows
<1>3. ReadInv(u)'
  BY <1>1, <1>2 DEF ReadInv, Follows, Started, Forward, Undo
<1>4. /\ Located(t) /\ Located(u) /\ u.pc \notin Boots /\ u.pc \notin {"guard", "commit"}
      /\ u.pc \notin {"prepare", "publish"}
  BY DEF Located, Started, Forward, Undo, Boots
<1>5. u.hydrate => u.pc \in Undo
  BY <1>4 DEF PlaceInv, Follows, Boots, Undo, Started, Forward
<1>6. u.pc \in Asked \/ (u.pc \in Undo /\ ~u.hydrate) => t.key \in Keys /\ ~t.hydrate
  BY <1>5 DEF PlaceInv, Follows, Undo, Started, Forward, Asked
<1>7. ~t.hydrate => /\ t.req.op \in Staged /\ t.req.op # "create"
                    /\ (t.req.op # "create" => t.inst = t.req.inst)
  BY DEF PlaceInv, Started, Staged, Asked
<1> QED
  BY <1>3, <1>4, <1>5, <1>6, <1>7 DEF PlaceInv, Follows

LEMMA StagedKeeps ==
  ASSUME RegistryInv, NEW h \in Hosts, NEW w \in Workers, JournalMoves(task[h][w]),
         NEW u \in TaskStates, SetTask(h, w, u), Follows(u, task[h][w]), u.base = None,
         task[h][w].pc \in Started, u.pc \in Started,
         u.pc \in Forward => task[h][w].pc \in Forward, FileType', CallType'
  PROVE  RegistryInv'
<1>1. \A t : t = task[h][w] => t \in TaskStates /\ PlaceInv(t) /\ ReadInv(t)'
  BY KnownTask, MovesKeep
<1> QED
  BY <1>1, StagedInv, RegistryStep

LEMMA GotoFields ==
  ASSUME NEW t \in TaskStates, NEW p \in Points
  PROVE  /\ [t EXCEPT !.pc = p, !.tries = 0] \in TaskStates
         /\ Follows([t EXCEPT !.pc = p, !.tries = 0], t)
         /\ [t EXCEPT !.pc = p, !.tries = 0].pc = p
         /\ [t EXCEPT !.pc = p, !.tries = 0].base = t.base
<1>1. 0 \in 0..CasAttempts
  BY InstallationAssumptions
<1> QED
  BY <1>1 DEF TaskStates, Follows

LEMMA ContinueKeeps ==
  ASSUME RegistryInv, NEW h \in Hosts, NEW w \in Workers, JournalMoves(task[h][w]),
         task[h][w].base = None, task[h][w].pc \in Started, NEW p \in Started,
         p \in Forward => task[h][w].pc \in Forward, Continue(h, w, p), FileType'
  PROVE  RegistryInv'
<1> DEFINE t == task[h][w]
           u == [t EXCEPT !.pc = p, !.tries = 0]
<1>1. SetTask(h, w, u) /\ CallType /\ t \in TaskStates
  BY KnownTask DEF Continue, Goto
<1>2. CallType'
  BY <1>1 DEF Continue, CallType
<1>3. p \in Points
  BY DEF Started, Forward, Undo, Points
<1>4. u \in TaskStates /\ Follows(u, t) /\ u.pc = p /\ u.base = None
  BY <1>1, <1>3, GotoFields
<1> HIDE DEF u
<1> QED
  BY <1>1, <1>2, <1>4, StagedKeeps

LEMMA AppendErrorKeeps ==
  ASSUME RegistryInv, NEW h \in Hosts, NEW w \in Workers, JournalMoves(task[h][w]),
         task[h][w].base = None, AppendError(h, w), FileType'
  PROVE  RegistryInv'
<1>1. CASE task[h][w].pc = "terminal"
  <2>1. "restore" \in Started /\ "terminal" \in Started /\ "restore" \notin Forward
    BY DEF Started, Forward, Undo
  <2>2. Continue(h, w, "restore")
    BY <1>1 DEF AppendError
  <2> QED
    BY <1>1, <2>1, <2>2, ContinueKeeps
<1>2. CASE task[h][w].pc # "terminal"
  BY <1>2, ErrorQuits, QuitsKeeps DEF AppendError
<1> QED
  BY <1>1, <1>2

-----------------------------------------------------------------------------
(* RegistryInv, action by action.                                          *)

LEMMA FilesKept ==
  ASSUME FileType, UNCHANGED <<poisoned, disk, projected, owner, guard>>,
         apply' \in [Hosts -> Workers \cup {None}], faults' \in 0..MaxFaults
  PROVE  FileType'
BY DEF FileType

LEMMA SameJournal ==
  ASSUME NEW t, UNCHANGED journal
  PROVE  JournalMoves(t) /\ poisoned' = poisoned
BY DEF journal, JournalMoves

LEMMA SubmitKeeps ==
  ASSUME RegistryInv, NEW h \in Hosts, NEW w \in Workers, NEW key \in Keys, NEW r \in Requests,
         Submit(h, w, key, r)
  PROVE  RegistryInv'
<1>1. JournalMoves(task[h][w]) /\ poisoned' = poisoned
  BY SameJournal DEF Submit
<1>k. FileType /\ CallType /\ JournalType /\ JournalInv
  BY KnownTask
<1>2. FileType'
  BY <1>1, <1>k DEF Submit, FileType, files
<1>3. CASE claims[key] # None
  BY <1>1, <1>2, <1>3, ReplayClaimKeeps DEF Submit
<1>4. CASE claims[key] = None
  <2> DEFINE prev == IF r.op = "create" THEN None ELSE views[r.inst]
             t == [IdleTask EXCEPT !.pc = "prepare", !.key = key, !.req = r, !.inst = r.inst,
                                   !.prev = prev]
             u == IF t.prev # None /\ t.prev.status = "removed" THEN [t EXCEPT !.pc = "commit"] ELSE t
  <2>1. /\ SetTask(h, w, u) /\ Accepts(r)
        /\ lifecycle' = IF r.op = "create" THEN lifecycle ELSE [lifecycle EXCEPT ![h][r.inst] = w]
        /\ UNCHANGED <<phase, answer>>
    BY <1>4 DEF Submit
  <2>2. /\ r.op = "create" => r.inst = None /\ prev = None
        /\ r.op # "create" =>
             /\ r.inst \in Installations /\ prev = views[r.inst] /\ prev \in Views
             /\ \/ prev.status = "ready"
                \/ prev.status = "removed" /\ r.op \in Removals
    BY <1>k, <2>1, RequestFields DEF Accepts, JournalType
  <2>3. CallType'
    BY <1>k, <2>1, <2>2 DEF CallType
  <2>4. /\ u.pc \in {"prepare", "commit"} /\ u.key = key /\ u.req = r /\ u.inst = r.inst
        /\ u.prev = prev /\ u.base = None /\ u.hydrate = FALSE
        /\ u.pc = "commit" <=> prev # None /\ prev.status = "removed"
    BY DEF IdleTask
  <2>5. u \in TaskStates
    <3>1. 0 \in 0..CasAttempts /\ prev \in Views \cup {None} /\ r.inst \in Installations \cup {None}
      BY <2>2, InstallationAssumptions
    <3>2. t \in TaskStates /\ [t EXCEPT !.pc = "commit"] \in TaskStates
      BY <3>1 DEF IdleTask, TaskStates, Points
    <3> QED
      BY <3>2
  <2> HIDE DEF u, t, prev
  <2>6. PlaceInv(u)
    <3>1. CASE r.op = "create"
      <4>1. u.pc = "prepare" /\ u.inst = None /\ u.prev = None
        BY <2>2, <2>4, <3>1
      <4> QED
        BY <2>4, <3>1, <4>1 DEF PlaceInv, Located, Asked, Boots, Undo, Started, Forward
    <3>2. CASE r.op # "create"
      <4>1. /\ u.inst = u.req.inst /\ u.inst \in Installations /\ u.prev \in Views
            /\ u.pc = "prepare" => u.prev.status = "ready"
            /\ u.pc = "commit" => u.prev.status = "removed" /\ u.req.op \in Removals
        BY <2>2, <2>4, <3>2, ViewFields
      <4> QED
        BY <2>4, <3>2, <4>1 DEF PlaceInv, Located, Asked, Boots, Undo, Started, Forward
    <3> QED
      BY <3>1, <3>2
  <2>7. \A x : x = u => ReadInv(x)'
    BY <2>4 DEF ReadInv, Started, Forward, Undo
  <2> QED
    BY <1>1, <1>2, <2>1, <2>3, <2>5, <2>6, <2>7, RegistryStep
<1> QED
  BY <1>3, <1>4

LEMMA PrepareKeeps ==
  ASSUME RegistryInv, NEW h \in Hosts, NEW w \in Workers, Prepare(h, w)
  PROVE  RegistryInv'
<1> DEFINE t == task[h][w]
<1>1. JournalMoves(t) /\ poisoned' = poisoned
  BY SameJournal DEF Prepare
<1>k. /\ FileType /\ CallType /\ JournalType /\ JournalInv
      /\ t \in TaskStates /\ PlaceInv(t) /\ ReadInv(t)
  BY KnownTask
<1>f. faults' \in 0..MaxFaults
  BY <1>k, FaultType DEF Prepare, FileType
<1>2. FileType'
  BY <1>1, <1>k, <1>f DEF Prepare, FileType, files
<1>3. CASE Refused(h, w)
  BY <1>1, <1>2, <1>3, QuitsKeeps DEF Quits
<1>4. ASSUME NEW i \in Installations, NEW old \in BOOLEAN, NEW s,
             s = IF t.inst = None THEN None ELSE Snapshot(t),
             t.req.op # "create" => i = t.inst,
             SetTask(h, w, [t EXCEPT !.pc = IF t.req.op \in Staged THEN "start" ELSE "commit",
                                     !.inst = i, !.stale = old, !.snap = s]),
             lifecycle' \in {lifecycle, [lifecycle EXCEPT ![h][i] = w]},
             UNCHANGED <<phase, answer>>
      PROVE  RegistryInv'
  <2> DEFINE u == [t EXCEPT !.pc = IF t.req.op \in Staged THEN "start" ELSE "commit",
                            !.inst = i, !.stale = old, !.snap = s]
  <2>1. t.pc = "prepare" /\ t.base = None
    BY DEF Prepare, At
  <2>2. /\ t.key \in Keys /\ t.hydrate = FALSE
        /\ t.req.op # "create" => t.inst = t.req.inst /\ t.inst \in Installations
        /\ t.req.op = "create" => t.prev = None
        /\ t.req.op # "create" => t.prev \in Views /\ t.prev.status = "ready"
    BY <1>k, <2>1, TaskFields DEF PlaceInv, Asked, Boots, Undo, Located
  <2>3. /\ s \in Contents \cup {None}
        /\ t.req.op \in Staged => s \in Contents
    <3>1. t.inst # None => t.inst \in Installations
      BY <1>k, TaskFields
    <3>2. t.inst # None => disk[t.inst] \in Contents
      BY <1>k, <3>1 DEF FileType
    <3>3. t.req.op \in Staged => t.inst \in Installations /\ t.inst # None
      BY <2>2, NoneAssumption DEF Staged
    <3> QED
      BY <1>4, <3>2, <3>3 DEF Snapshot, Staged
  <2>4. /\ u.pc = IF t.req.op \in Staged THEN "start" ELSE "commit"
        /\ u.inst = i /\ u.snap = s /\ u.hydrate = FALSE /\ u.key = t.key /\ u.req = t.req
        /\ u.prev = t.prev /\ u.base = None
    BY <1>k, <2>1, <2>2 DEF TaskStates
  <2>5. u \in TaskStates
    BY ZenonT(60), <1>k, <2>3 DEF TaskStates, Points
  <2>6. SetTask(h, w, u)
    BY <1>4
  <2> HIDE DEF u
  <2>7. PlaceInv(u)
    <3>1. CASE t.req.op = "create"
      <4>1. u.pc = "commit"
        BY <2>4, <3>1 DEF Staged
      <4> QED
        BY <2>2, <2>4, <3>1, <4>1 DEF PlaceInv, Located, Asked, Boots, Undo, Started, Forward
    <3>2. CASE t.req.op \in Staged
      <4>1. u.pc = "start" /\ u.req.op # "create"
        BY <2>4, <3>2 DEF Staged
      <4> QED
        BY <1>4, <2>2, <2>3, <2>4, <3>2, <4>1
        DEF PlaceInv, Located, Asked, Boots, Undo, Started, Forward
    <3>3. CASE t.req.op # "create" /\ t.req.op \notin Staged
      <4>1. u.pc = "commit"
        BY <2>4, <3>3
      <4> QED
        BY <1>4, <2>2, <2>4, <3>3, <4>1
        DEF PlaceInv, Located, Asked, Boots, Undo, Started, Forward
    <3> QED
      BY <3>1, <3>2, <3>3
  <2>8. \A x : x = u => ReadInv(x)'
    BY <2>4 DEF ReadInv, Started, Forward, Undo
  <2>9. CallType'
    BY <1>k, <1>4 DEF CallType
  <2> QED
    BY <1>1, <1>2, <2>5, <2>6, <2>7, <2>8, <2>9, RegistryStep
<1>5. CASE t.req.op = "create" /\ ~Refused(h, w)
  BY <1>4, <1>5 DEF Prepare
<1>6. CASE t.req.op # "create" /\ ~Refused(h, w)
  <2>1. t.inst \in Installations
    BY <1>6, <1>k DEF Prepare, At, PlaceInv, Located
  <2> QED
    BY <1>4, <1>6, <2>1 DEF Prepare
<1> QED
  BY <1>3, <1>5, <1>6

\* What a decision rests on.
LEMMA DecideKeeps ==
  ASSUME RegistryInv, NEW h \in Hosts, NEW w \in Workers, Decide(h, w)
  PROVE  RegistryInv'
<1> DEFINE t == task[h][w]
<1>1. JournalMoves(t) /\ poisoned' = poisoned
  BY SameJournal DEF Decide
<1>k. /\ FileType /\ CallType /\ JournalType /\ JournalInv
      /\ t \in TaskStates /\ PlaceInv(t) /\ ReadInv(t)
  BY KnownTask
<1>p. t.pc \in AppendPoints /\ t.base = None
  BY DEF Decide
<1>f. apply' \in [Hosts -> Workers \cup {None}] => FileType'
  BY <1>1, <1>k DEF Decide, FileType, files
<1>s. apply' = apply => FileType'
  BY <1>k, <1>f DEF FileType
<1>2. CASE Claimed(t)
  <2>1. FileType'
    BY <1>2, <1>s DEF Decide
  <2>2. t.key \in Keys /\ claims[t.key] # None /\ t.req \in Requests
    BY <1>2, <1>k, TaskFields DEF Claimed, PlaceInv, Asked
  <2>3. Refused(h, w) \/ ReplayClaim(h, w, t.key, t.req)
    BY <1>2 DEF Decide
  <2> QED
    BY <1>1, <2>1, <2>2, <2>3, QuitsKeeps, ReplayClaimKeeps DEF Quits
<1>3. CASE ~Claimed(t) /\ Resolved(t)
  <2>1. FileType'
    BY <1>3, <1>s DEF Decide
  <2>2. Quits(h, w)
    BY <1>3, ErrorQuits, RolledBackQuits DEF Decide
  <2> QED
    BY <1>1, <2>1, <2>2, QuitsKeeps
<1>4. CASE ~Claimed(t) /\ ~Resolved(t) /\ (~Stands(t) \/ owner # h)
  BY <1>1, <1>4, <1>s, <1>p, AppendErrorKeeps DEF Decide
<1>5. CASE ~Claimed(t) /\ ~Resolved(t) /\ Stands(t) /\ owner = h
  <2> DEFINE u == [t EXCEPT !.base = len, !.id = IF t.pc = "start" THEN len ELSE t.id]
  <2>1. /\ SetTask(h, w, u) /\ UNCHANGED <<phase, lifecycle, answer>>
        /\ apply' = [apply EXCEPT ![h] = w]
    BY <1>5 DEF Decide
  <2>2. CallType'
    BY <1>k, <2>1 DEF CallType
  <2>3. FileType'
    BY <1>k, <1>f, <2>1 DEF FileType
  <2>4. /\ u.pc = t.pc /\ u.hydrate = t.hydrate /\ u.key = t.key /\ u.req = t.req
        /\ u.inst = t.inst /\ u.prev = t.prev /\ u.snap = t.snap /\ u.base = len
        /\ u.id = (IF t.pc = "start" THEN len ELSE t.id) /\ u.stale = t.stale
    BY <1>k DEF TaskStates
  <2>5. u \in TaskStates
    BY <1>k DEF TaskStates, JournalType
  <2> HIDE DEF u
  <2>6. PlaceInv(u)
    <3>1. Located(u) <=> Located(t)
      BY <2>4 DEF Located
    <3> QED
      BY <1>k, <1>p, <2>4, <3>1 DEF PlaceInv
  <2>7. \A x : x = u => ReadInv(x)'
    <3> TAKE x
    <3> HAVE x = u
    <3>1. UNCHANGED <<len, views, pending, claims>>
      BY DEF Decide, journal
    <3>2. t.pc # "start" => x.id = t.id
      BY <2>4
    <3>3. (Stands(x) <=> Stands(t)) /\ (Resolved(x) <=> Resolved(t)) /\ (Claimed(x) <=> Claimed(t))
      <4>1. t.pc \in {"commit", "start", "terminal", "rollback", "block"}
        BY <1>p DEF AppendPoints
      <4>2. Stands(x) <=> Stands(t)
        BY <2>4, <3>2, <4>1 DEF Stands
      <4> QED
        BY <2>4, <4>2 DEF Resolved, Claimed
    <3>4. /\ Stands(x)' <=> Stands(x) 
          /\ Resolved(x)' <=> Resolved(x)
          /\ Claimed(x)' <=> Claimed(x)
      BY <3>1 DEF Stands, Resolved, Claimed, Transitional
    <3>5. t.pc \in Started => ((Mine(x)' <=> Mine(t)) /\ Kind(x) = Kind(t) /\ x.id = t.id)
      BY <2>4, <3>1, <3>2 DEF Mine, Kind, Started, Forward, Undo
    <3>6. ClaimedFor(x.inst)' = ClaimedFor(x.inst)
      BY <3>1 DEF ClaimedFor
    <3>7. len \in Nat /\ x.pc # "publish"
      BY <1>k, <1>p, <2>4 DEF JournalType, AppendPoints
    <3>8. x.pc \in Started => x.id < len
      BY <1>k, <2>4, <3>5 DEF ReadInv
    <3>9. x.pc \in Started /\ Mine(x)' =>
            /\ pending'[x.inst].prev = x.prev /\ pending'[x.inst].snap = x.snap
            /\ ~x.hydrate => pending'[x.inst].kind = Kind(x)
      BY <1>k, <2>4, <3>1, <3>5 DEF ReadInv
    <3>10. x.pc \in Forward /\ Mine(x)' => x.key \notin ClaimedFor(x.inst)'
      BY <1>k, <2>4, <3>5, <3>6 DEF ReadInv, Started
    <3>11. x.base = len /\ len' = len /\ (x.pc = "start" => x.id = len)
      BY <2>4, <3>1
    <3> QED
      BY <1>5, <3>3, <3>4, <3>7, <3>8, <3>9, <3>10, <3>11 DEF ReadInv
  <2> QED
    BY <1>1, <2>1, <2>2, <2>3, <2>5, <2>6, <2>7, RegistryStep
<1> QED
  BY <1>2, <1>3, <1>4, <1>5

LEMMA AppendKeeps ==
  ASSUME RegistryInv, NEW h \in Hosts, NEW w \in Workers, Append(h, w)
  PROVE  RegistryInv'
<1> DEFINE t == task[h][w]
<1>k. /\ FileType /\ CallType /\ JournalType /\ JournalInv
      /\ t \in TaskStates /\ PlaceInv(t) /\ ReadInv(t)
  BY KnownTask
<1>p. t.base # None /\ t.pc \in AppendPoints
  BY <1>k DEF Append, PlaceInv
<1>f. /\ apply' \in [Hosts -> Workers \cup {None}]
      /\ UNCHANGED <<disk, projected, owner, guard, faults>>
  BY <1>k DEF Append, FileType, files
<1>r. "restore" \in Started /\ "terminal" \in Started /\ "restore" \notin Forward
  BY DEF Started, Forward, Undo
<1>1. CASE ~LandsAt(t)
  <2>1. UNCHANGED journal
    BY <1>1 DEF Append
  <2>2. JournalMoves(t) /\ poisoned' = poisoned
    BY <2>1, SameJournal
  <2>3. FileType'
    BY <1>k, <1>f, <2>2 DEF FileType
  <2> DEFINE retry == [t EXCEPT !.base = None, !.tries = t.tries + 1]
             back == [t EXCEPT !.pc = "restore", !.base = None, !.tries = 0]
  <2>4. /\ Follows(retry, t) /\ retry.pc = t.pc /\ retry.base = None /\ retry.tries = t.tries + 1
        /\ Follows(back, t) /\ back.pc = "restore" /\ back.base = None
    BY <1>k DEF TaskStates, Follows
  <2>5. /\ t.tries + 1 < CasAttempts => retry \in TaskStates
        /\ back \in TaskStates
    <3>1. t.tries \in Nat /\ 0 \in 0..CasAttempts /\ CasAttempts \in Nat
      BY <1>k, TaskFields, InstallationAssumptions
    <3>2. t.tries + 1 < CasAttempts => t.tries + 1 \in 0..CasAttempts
      BY <3>1
    <3>3. back \in TaskStates
      BY <1>k, <3>1 DEF TaskStates, Points
    <3> QED
      BY <1>k, <3>2, <3>3 DEF TaskStates
  <2>6. CASE t.tries + 1 < CasAttempts
    <3>1. SetTask(h, w, retry) /\ UNCHANGED <<phase, lifecycle, answer>>
      BY <1>1, <2>4, <2>6 DEF Append
    <3>2. CallType'
      BY <1>k, <3>1 DEF CallType
    <3> HIDE DEF retry
    <3>3. PlaceInv(retry)
      <4>1. Located(retry) <=> Located(t)
        BY <2>4 DEF Located, Follows
      <4> QED
        BY <1>k, <2>4, <4>1 DEF PlaceInv, Follows
    <3>4. \A x : x = retry => ReadInv(x)'
      <4> TAKE x
      <4> HAVE x = retry
      <4>1. UNCHANGED <<len, views, pending, claims>>
        BY <2>1 DEF journal
      <4>2. (Mine(x)' <=> Mine(t)) /\ Kind(x) = Kind(t)
        BY <2>4, <4>1 DEF Mine, Kind, Follows
      <4>3. ClaimedFor(x.inst)' = ClaimedFor(x.inst)
        BY <4>1 DEF ClaimedFor
      <4>4. x.pc # "publish"
        BY <1>p, <2>4 DEF AppendPoints
      <4> QED
        BY <1>k, <2>4, <4>1, <4>2, <4>3, <4>4 DEF ReadInv, Follows
    <3> QED
      BY <2>2, <2>3, <2>5, <2>6, <3>1, <3>2, <3>3, <3>4, RegistryStep
  <2>7. CASE ~(t.tries + 1 < CasAttempts) /\ t.pc = "terminal"
    <3>1. SetTask(h, w, back) /\ UNCHANGED <<phase, lifecycle, answer>>
      BY <1>1, <2>4, <2>7 DEF Append
    <3>2. CallType'
      BY <1>k, <3>1 DEF CallType
    <3> HIDE DEF back
    <3> QED
      BY <1>r, <2>2, <2>3, <2>4, <2>5, <2>7, <3>1, <3>2, StagedKeeps
  <2>8. CASE ~(t.tries + 1 < CasAttempts) /\ t.pc # "terminal"
    <3>1. Error(h, w)
      BY <1>1, <2>4, <2>8 DEF Append
    <3> QED
      BY <2>2, <2>3, <3>1, ErrorQuits, QuitsKeeps
  <2> QED
    BY <2>6, <2>7, <2>8
<1>2. CASE LandsAt(t)
  <2>1. /\ t.base = len /\ len' = len + 1 /\ poisoned' = ~Replays(t) /\ Landed(h, w)
        /\ Landing(t)
    BY <1>p, <1>2 DEF Append, LandsAt, Landing
  <2>2. JournalMoves(t)
    BY <2>1 DEF JournalMoves
  <2>3. FileType'
    BY <1>k, <1>f, <2>1 DEF FileType
  <2>4. /\ t.inst \in Installations
        /\ t.pc \in {"commit", "terminal"} => t.key \in Keys /\ Candidate(t) \in Views
    BY <1>k, <1>p, <2>1, LandingFacts
  <2>5. \A x : x = t => ReadInv(x)'
    BY <1>k, <2>2, MovesKeep
  <2> DEFINE on(p) == [t EXCEPT !.base = None, !.tries = 0, !.pc = p]
  <2>6. \A p \in Points : /\ on(p) \in TaskStates /\ Follows(on(p), t)
                          /\ on(p).pc = p /\ on(p).base = None
    <3>1. 0 \in 0..CasAttempts
      BY InstallationAssumptions
    <3> QED
      BY <1>k, <3>1 DEF TaskStates, Follows
  <2>7. CASE t.pc = "start"
    <3> DEFINE u == on("check")
    <3>1. SetTask(h, w, u) /\ UNCHANGED <<phase, lifecycle, answer>>
      BY <2>1, <2>7, <1>k DEF Landed, IsNoop, TaskStates
    <3>2. CallType'
      BY <1>k, <3>1 DEF CallType
    <3>3. u \in TaskStates /\ Follows(u, t) /\ u.pc = "check" /\ u.base = None
      BY <2>6 DEF Points
    <3> HIDE DEF u
    <3>4. ~t.hydrate /\ t.req.op # "create"
      BY <1>k, <2>7 DEF PlaceInv, Boots, Undo, Staged, Asked
    <3>5. PlaceInv(u)
      BY <1>k, <2>7, <3>3, <3>4
      DEF PlaceInv, Follows, Located, Started, Forward, Undo, Asked, Boots
    <3>6. \A x : x = u => ReadInv(x)'
      <4> TAKE x
      <4> HAVE x = u
      <4>1. t.id = len /\ len \in Nat /\ pending[t.inst] = None /\ claims[t.key] = None
        BY <1>k, <1>p, <2>1, <2>7, LandingFacts DEF JournalType
      <4>2. CASE Replay(t)
        <5>1. /\ pending'[t.inst] = [id |-> t.id, kind |-> Kind(t), prev |-> t.prev, snap |-> t.snap]
              /\ claims' = claims
          BY <1>k, <1>p, <2>4, <2>7, <4>2, ReplayFields
        <5>2. x.key \notin ClaimedFor(x.inst)'
          BY <3>3, <4>1, <5>1 DEF ClaimedFor, Follows
        <5>3. Kind(x) = Kind(t)
          BY <3>3 DEF Kind, Follows
        <5> QED
          BY <2>1, <3>3, <4>1, <5>1, <5>2, <5>3 DEF ReadInv, Follows, Started, Forward, Undo
      <4>3. CASE UNCHANGED <<views, pending, claims>>
        <5>1. ~Mine(x)'
          BY <3>3, <4>1, <4>3 DEF Mine, Follows
        <5> QED
          BY <2>1, <3>3, <4>1, <5>1 DEF ReadInv, Follows, Started, Forward, Undo
      <4> QED
        BY <2>1, <4>2, <4>3 DEF Landing
    <3> QED
      BY <2>2, <2>3, <3>1, <3>2, <3>3, <3>5, <3>6, RegistryStep
  <2>8. CASE t.pc = "commit" /\ IsNoop(t)
    <3>1. t.prev \in Views
      BY <2>4, <2>8 DEF IsNoop
    <3>2. Answered(h, w, t.prev)
      BY <2>1, <2>8 DEF Landed
    <3> QED
      BY <2>2, <2>3, <2>4, <2>8, <3>1, <3>2, AnsweredKeeps
  <2>9. CASE t.pc \in {"commit", "terminal"} /\ ~IsNoop(t)
    <3> DEFINE u == on("publish")
    <3>1. SetTask(h, w, u) /\ UNCHANGED <<phase, lifecycle, answer>>
      BY <2>1, <2>9, <1>k DEF Landed, TaskStates
    <3>2. CallType'
      BY <1>k, <3>1 DEF CallType
    <3>3. u \in TaskStates /\ Follows(u, t) /\ u.pc = "publish" /\ u.base = None
      BY <2>6 DEF Points
    <3> HIDE DEF u
    <3>4. ~t.hydrate
      BY <1>k, <2>9 DEF PlaceInv, Boots, Undo
    <3>5. t.req.op # "create" => t.prev \in Views /\ t.prev.status = "ready"
      <4>1. t.pc = "commit" /\ t.prev.status = "removed" /\ t.req.op \in Removals
            => Candidate(t) = t.prev
        BY <1>k, CandidateFields
      <4>2. t.pc = "commit" => ~(t.prev.status = "removed" /\ t.req.op \in Removals)
        BY <2>9, <4>1 DEF IsNoop
      <4> QED
        BY <1>k, <2>9, <4>2 DEF PlaceInv, Started, Forward
    <3>6. PlaceInv(u)
      BY <1>k, <2>4, <2>9, <3>3, <3>4, <3>5
      DEF PlaceInv, Follows, Located, Started, Forward, Undo, Asked, Boots
    <3>7. Candidate(u) = Candidate(t)
      BY <3>3 DEF Candidate, Follows
    <3>8. \A x : x = u => ReadInv(x)'
      BY <2>4, <2>9, <3>3, <3>7 DEF ReadInv, Started, Forward, Undo
    <3> QED
      BY <2>2, <2>3, <3>1, <3>2, <3>3, <3>6, <3>8, RegistryStep
  <2>10. CASE t.pc \in {"rollback", "block"}
    <3>1. ~IsNoop(t)
      BY <2>10 DEF IsNoop
    <3>2. Quits(h, w)
      BY <2>1, <2>10, <3>1, ErrorQuits, RolledBackQuits DEF Landed
    <3> QED
      BY <2>2, <2>3, <3>2, QuitsKeeps
  <2>11. t.pc = "terminal" => ~IsNoop(t)
    BY DEF IsNoop
  <2> QED
    BY <1>p, <2>7, <2>8, <2>9, <2>10, <2>11 DEF AppendPoints
<1> QED
  BY <1>1, <1>2

LEMMA AppendFailsKeeps ==
  ASSUME RegistryInv, NEW h \in Hosts, NEW w \in Workers, AppendFails(h, w)
  PROVE  RegistryInv'
<1>1. JournalMoves(task[h][w]) /\ poisoned' = poisoned
  BY SameJournal DEF AppendFails
<1>2. FileType'
  BY <1>1, KnownTask, FaultType DEF AppendFails, FileType, files
<1> QED
  BY <1>1, <1>2, AppendErrorKeeps DEF AppendFails, At

LEMMA DisconnectKeeps ==
  ASSUME RegistryInv, NEW h \in Hosts, NEW w \in Workers, Disconnect(h, w)
  PROVE  RegistryInv'
<1> DEFINE t == task[h][w]
<1>k. FileType /\ JournalType /\ t \in TaskStates
  BY KnownTask
<1>1. JournalMoves(t) /\ poisoned' = poisoned
  <2>1. CASE UNCHANGED journal
    BY <2>1, SameJournal
  <2>2. CASE t.base = len /\ Replays(t) /\ len' = len + 1 /\ Replay(t) /\ UNCHANGED poisoned
    BY <1>k, <2>2, NoneAssumption DEF JournalMoves, Landing, JournalType
  <2> QED
    BY <2>1, <2>2 DEF Disconnect
<1>2. apply' \in [Hosts -> Workers \cup {None}]
  BY <1>k DEF Disconnect, FileType
<1>3. FileType'
  BY <1>1, <1>2, <1>k, FaultType DEF Disconnect, FileType, files
<1> QED
  BY <1>1, <1>3, QuitsKeeps DEF Disconnect, Quits

LEMMA CheckEffectKeeps ==
  ASSUME RegistryInv, NEW h \in Hosts, NEW w \in Workers, CheckEffect(h, w)
  PROVE  RegistryInv'
<1>1. JournalMoves(task[h][w]) /\ poisoned' = poisoned
  BY SameJournal DEF CheckEffect
<1>2. FileType'
  BY <1>1, KnownTask, FaultType DEF CheckEffect, FileType, files
<1>3. /\ {"check", "rollback", "effect"} \subseteq Started /\ {"check", "effect"} \subseteq Forward
      /\ "rollback" \notin Forward
  BY DEF Started, Forward, Undo
<1>4. CASE Refused(h, w)
  BY <1>1, <1>2, <1>4, QuitsKeeps DEF Quits
<1>5. CASE Continue(h, w, "rollback")
  BY <1>1, <1>2, <1>3, <1>5, ContinueKeeps DEF CheckEffect, At
<1>6. CASE Continue(h, w, "effect")
  BY <1>1, <1>2, <1>3, <1>6, ContinueKeeps DEF CheckEffect, At
<1> QED
  BY <1>4, <1>5, <1>6 DEF CheckEffect

LEMMA TargetType ==
  ASSUME NEW t \in TaskStates, PlaceInv(t), t.pc \in {"effect", "restoreEffect", "terminal"}
  PROVE  Target(t) \in Contents
<1>1. t.snap \in Contents
  BY DEF PlaceInv, Started, Forward, Undo
<1>2. t.pc # "restoreEffect" => t.req.op \in Staged /\ t.req \in Requests
  BY TaskFields DEF PlaceInv, Started, Forward, Undo, Boots
<1>3. t.pc # "restoreEffect" => t.req.content \in Contents
  BY <1>2, RequestFields DEF Staged
<1> QED
  BY <1>1, <1>3, InstallationAssumptions DEF Target

LEMMA EffectKeeps ==
  ASSUME RegistryInv, NEW h \in Hosts, NEW w \in Workers, Effect(h, w)
  PROVE  RegistryInv'
<1> DEFINE t == task[h][w]
<1>k. FileType /\ t \in TaskStates /\ PlaceInv(t)
  BY KnownTask
<1>p. t.pc \in {"effect", "restoreEffect"} /\ t.base = None
  BY DEF Effect, At
<1>1. JournalMoves(t) /\ poisoned' = poisoned
  BY SameJournal DEF Effect
<1>2. disk' \in [Installations -> Contents]
  <2>1. Target(t) \in Contents /\ t.inst \in Installations
    BY <1>k, <1>p, TargetType DEF PlaceInv, Located, Started, Forward, Undo
  <2>2. TornTree(t) \subseteq Contents
    BY <1>k, <2>1, InstallationAssumptions DEF TornTree, FileType
  <2> QED
    BY <1>k, <2>1, <2>2 DEF Effect, FileType
<1>3. FileType'
  BY <1>1, <1>2, <1>k, FaultType DEF Effect, FileType
<1>4. /\ {"effect", "terminal", "rollback", "restoreEffect", "restore", "block"} \subseteq Started
      /\ {"effect", "terminal"} \subseteq Forward
      /\ {"rollback", "restore", "block"} \cap Forward = {}
  BY DEF Started, Forward, Undo
<1>5. \/ t.pc = "effect" /\ Continue(h, w, "terminal")
      \/ Continue(h, w, "rollback") \/ Continue(h, w, "restore") \/ Continue(h, w, "block")
  BY <1>p DEF Effect
<1> QED
  BY <1>1, <1>3, <1>4, <1>5, <1>p, ContinueKeeps

LEMMA RestoreKeeps ==
  ASSUME RegistryInv, NEW h \in Hosts, NEW w \in Workers, Restore(h, w)
  PROVE  RegistryInv'
<1>1. JournalMoves(task[h][w]) /\ poisoned' = poisoned
  BY SameJournal DEF Restore
<1>2. FileType'
  BY <1>1, KnownTask, FaultType DEF Restore, FileType, files
<1>3. {"restore", "block", "restoreEffect"} \subseteq Started /\ {"block", "restoreEffect"} \cap Forward = {}
  BY DEF Started, Forward, Undo
<1>4. Continue(h, w, "block") \/ Continue(h, w, "restoreEffect")
  BY DEF Restore
<1> QED
  BY <1>1, <1>2, <1>3, <1>4, ContinueKeeps DEF Restore, At

LEMMA PublishKeeps ==
  ASSUME RegistryInv, NEW h \in Hosts, NEW w \in Workers, Publish(h, w)
  PROVE  RegistryInv'
<1> DEFINE t == task[h][w]
<1>k. FileType /\ t \in TaskStates /\ PlaceInv(t) /\ ReadInv(t)
  BY KnownTask
<1>p. t.pc = "publish"
  BY DEF Publish, At
<1>1. JournalMoves(t) /\ poisoned' = poisoned
  BY SameJournal DEF Publish
<1>2. t.inst \in Installations /\ t.key \in Keys /\ Candidate(t) \in Views
  BY <1>k, <1>p DEF PlaceInv, ReadInv, Located, Asked
<1>3. projected' \in [Installations -> Revs \cup {0}]
  BY <1>k, <1>2, ViewFields DEF Publish, FileType
<1>4. FileType'
  BY <1>1, <1>3, <1>k, FaultType DEF Publish, FileType
<1> QED
  BY <1>1, <1>2, <1>4, AnsweredKeeps DEF Publish

LEMMA GuardBeginKeeps ==
  ASSUME RegistryInv, NEW h \in Hosts, NEW w \in Workers, NEW i \in Installations,
         GuardBegin(h, w, i)
  PROVE  RegistryInv'
<1> DEFINE u == [IdleTask EXCEPT !.pc = "guard", !.inst = i, !.prev = views[i]]
<1>k. FileType /\ CallType /\ JournalType
  BY KnownTask
<1>1. JournalMoves(task[h][w]) /\ poisoned' = poisoned
  BY SameJournal DEF GuardBegin
<1>2. FileType' /\ CallType'
  BY <1>1, <1>k DEF GuardBegin, FileType, CallType, files
<1>3. SetTask(h, w, u) /\ views[i] \in Views /\ views[i].status = "ready"
  BY <1>k DEF GuardBegin, JournalType
<1>4. /\ u.pc = "guard" /\ u.inst = i /\ u.prev = views[i] /\ u.base = None
      /\ u.hydrate = FALSE
  BY DEF IdleTask
<1>5. u \in TaskStates
  BY <1>3, IdleType DEF TaskStates, Points
<1> HIDE DEF u
<1>6. PlaceInv(u)
  BY <1>3, <1>4 DEF PlaceInv, Located, Asked, Started, Forward, Undo, Boots
<1>7. \A x : x = u => ReadInv(x)'
  BY <1>4 DEF ReadInv, Started, Forward, Undo
<1> QED
  BY <1>1, <1>2, <1>3, <1>5, <1>6, <1>7, RegistryStep

LEMMA GuardHeldKeeps ==
  ASSUME RegistryInv, NEW h \in Hosts, NEW w \in Workers, GuardHeld(h, w)
  PROVE  RegistryInv'
<1> DEFINE t == task[h][w]
<1>k. FileType /\ CallType /\ t \in TaskStates /\ PlaceInv(t)
  BY KnownTask
<1>1. JournalMoves(t) /\ poisoned' = poisoned
  BY SameJournal DEF GuardHeld
<1>2. t.inst \in Installations /\ t.prev \in Views
  BY <1>k DEF GuardHeld, At, PlaceInv, Located
<1>3. guard' \in [Hosts -> [Installations -> Views \cup {None}]]
  BY <1>k, <1>2 DEF GuardHeld, FileType
<1>4. FileType' /\ CallType'
  BY <1>1, <1>3, <1>k DEF GuardHeld, FileType, CallType, files
<1>5. SetTask(h, w, IdleTask)
  BY DEF GuardHeld
<1> QED
  BY <1>1, <1>4, <1>5, IdleInv, RegistryStep

LEMMA BootKeeps ==
  ASSUME RegistryInv, NEW h \in Hosts, NEW w \in Workers, Boot(h, w)
  PROVE  RegistryInv'
<1>k. FileType /\ CallType
  BY KnownTask
<1>1. JournalMoves(task[h][w]) /\ poisoned' = poisoned
  BY SameJournal DEF Boot
<1>2. FileType'
  BY <1>1, <1>k, FaultType DEF Boot, FileType, files
<1>3. CallType'
  BY <1>k DEF Boot, CallType
<1>4. SetTask(h, w, RecoverTask)
  BY DEF Boot, RecoverTask
<1> QED
  BY <1>1, <1>2, <1>3, <1>4, RecoverInv, RegistryStep

LEMMA RecoverKeeps ==
  ASSUME RegistryInv, NEW h \in Hosts, NEW w \in Workers, Recover(h, w)
  PROVE  RegistryInv'
<1> DEFINE t == task[h][w]
<1>k. /\ FileType /\ CallType /\ JournalType /\ JournalInv
      /\ t \in TaskStates /\ PlaceInv(t) /\ t.pc = "recover" /\ t.base = None
  BY KnownTask DEF Recover, At
<1>1. JournalMoves(t) /\ poisoned' = poisoned /\ UNCHANGED <<len, views, pending, claims>>
  BY SameJournal DEF Recover, journal
<1>2. FileType'
  BY <1>1, <1>k DEF Recover, FileType, files
<1>3. ASSUME NEW i \in Installations, pending[i] # None,
             SetTask(h, w, [IdleTask EXCEPT !.pc = "restore", !.hydrate = TRUE, !.inst = i,
                               !.prev = pending[i].prev, !.snap = pending[i].snap,
                               !.id = pending[i].id]),
             lifecycle' = [lifecycle EXCEPT ![h][i] = w]
      PROVE  RegistryInv'
  <2> DEFINE p == pending[i]
             u == [IdleTask EXCEPT !.pc = "restore", !.hydrate = TRUE, !.inst = i,
                                   !.prev = p.prev, !.snap = p.snap, !.id = p.id]
  <2>1. p \in PendingMutations /\ p.id < len /\ p.prev.status = "ready"
    BY <1>k, <1>3 DEF JournalType, JournalInv
  <2>2. p.id \in Nat /\ p.prev \in Views /\ p.snap \in Contents
    BY <2>1, PendingFields
  <2>3. /\ u.pc = "restore" /\ u.hydrate = TRUE /\ u.inst = i /\ u.prev = p.prev
        /\ u.snap = p.snap /\ u.id = p.id /\ u.base = None
    BY DEF IdleTask
  <2>4. u \in TaskStates
    BY <2>2, IdleType DEF TaskStates, Points
  <2>5. SetTask(h, w, u)
    BY <1>3
  <2>6. CallType'
    BY <1>k, <1>3 DEF Recover, CallType
  <2> HIDE DEF u
  <2>7. PlaceInv(u)
    BY <2>1, <2>2, <2>3 DEF PlaceInv, Located, Asked, Started, Forward, Undo, Boots
  <2>8. \A x : x = u => ReadInv(x)'
    <3> TAKE x
    <3> HAVE x = u
    <3>1. x.pc \in Started /\ x.pc \notin Forward
      BY <2>3 DEF Started, Forward, Undo
    <3>2. pending'[x.inst] = p /\ x.id < len'
      BY <1>1, <2>1, <2>3
    <3> HIDE DEF p
    <3> QED
      BY <2>3, <3>1, <3>2 DEF ReadInv
  <2> QED
    BY <1>1, <1>2, <2>4, <2>5, <2>6, <2>7, <2>8, RegistryStep
<1>4. ASSUME Goto(h, w, "materialize"), UNCHANGED lifecycle PROVE RegistryInv'
  <2> DEFINE u == [t EXCEPT !.pc = "materialize", !.tries = 0]
  <2>1. /\ u \in TaskStates /\ Follows(u, t) /\ u.pc = "materialize" /\ u.base = None
        /\ SetTask(h, w, u)
    BY <1>k, <1>4, GotoFields DEF Points, Goto
  <2>2. u.hydrate /\ u.pc \in Boots
    BY <1>k, <2>1 DEF PlaceInv, Follows, Boots
  <2>3. CallType'
    BY <1>k, <1>4 DEF Recover, CallType
  <2> HIDE DEF u
  <2>4. \A x : x = u => PlaceInv(x) /\ ReadInv(x)'
    BY <2>1, <2>2, RestingInv
  <2> QED
    BY <1>1, <1>2, <2>1, <2>3, <2>4, RegistryStep
<1> QED
  BY <1>3, <1>4 DEF Recover

LEMMA MaterializeKeeps ==
  ASSUME RegistryInv, NEW h \in Hosts, NEW w \in Workers, Materialize(h, w)
  PROVE  RegistryInv'
<1>k. FileType /\ CallType /\ JournalType
  BY KnownTask
<1>1. JournalMoves(task[h][w]) /\ poisoned' = poisoned
  BY SameJournal DEF Materialize
<1>2. projected' \in [Installations -> Revs \cup {0}]
  <2>1. \A i \in Installations : views[i] # None => views[i].rev \in Revs
    BY <1>k, ViewFields DEF JournalType
  <2>2. projected \in [Installations -> Revs \cup {0}]
    BY <1>k DEF FileType
  <2>3. CASE projected' = [i \in Installations |->
                             IF views[i] = None THEN projected[i] ELSE views[i].rev]
    BY <2>1, <2>2, <2>3
  <2> QED
    BY <2>2, <2>3 DEF Materialize
<1>3. FileType'
  BY <1>1, <1>2, <1>k, FaultType DEF Materialize, FileType
<1>4. CASE BootFails(h, w)
  BY <1>1, <1>3, <1>4, QuitsKeeps DEF Quits
<1>5. CASE /\ phase' = [phase EXCEPT ![h] = "up"] /\ SetTask(h, w, IdleTask)
           /\ UNCHANGED <<lifecycle, answer>>
  <2>1. CallType'
    BY <1>k, <1>5 DEF CallType
  <2> QED
    BY <1>1, <1>3, <1>5, <2>1, IdleInv, RegistryStep
<1> QED
  BY <1>4, <1>5 DEF Materialize

\* Steps that leave the journal and most tasks alone.
LEMMA QuietKeeps ==
  ASSUME RegistryInv, UNCHANGED <<len, views, pending, claims>>, FileType', CallType', TaskType',
         \A h \in Hosts, w \in Workers : task'[h][w] \in {task[h][w], IdleTask}
  PROVE  RegistryInv'
<1>1. JournalType /\ JournalInv
  BY TypeParts DEF RegistryInv
<1>2. JournalType' /\ JournalInv' /\ \A s \in TaskStates : PlaceInv(s) /\ ReadInv(s) => ReadInv(s)'
  <2>1. IdleTask \in TaskStates /\ PlaceInv(IdleTask)
    BY IdleInv
  <2>2. ReadInv(IdleTask)
    BY IdleFields DEF ReadInv, Started, Forward, Undo
  <2> QED
    BY <1>1, <2>1, <2>2, MovesKeep DEF JournalMoves
<1>3. ASSUME NEW h \in Hosts, NEW w \in Workers
      PROVE  PlaceInv(task[h][w])' /\ ReadInv(task[h][w])'
  <2>1. \A s : s = task[h][w] => s \in TaskStates /\ PlaceInv(s) /\ ReadInv(s)
    BY KnownTask
  <2>2. \A s : s = task[h][w] => PlaceInv(s) /\ ReadInv(s)'
    BY <1>2, <2>1
  <2>3. CASE task'[h][w] = task[h][w]
    BY <2>2, <2>3
  <2>4. CASE task'[h][w] = IdleTask
    <3>1. \A s : s = IdleTask => PlaceInv(s) /\ ReadInv(s)'
      BY IdleInv
    <3> QED
      BY <2>4, <3>1
  <2> QED
    BY <2>3, <2>4
<1> QED
  BY <1>2, <1>3, TypePartsNext DEF RegistryInv, TasksInv

LEMMA GuardReleaseKeeps ==
  ASSUME RegistryInv, NEW h \in Hosts, NEW i \in Installations, GuardRelease(h, i)
  PROVE  RegistryInv'
<1>k. FileType /\ CallType /\ TaskType
  BY TypeParts DEF RegistryInv
<1>1. UNCHANGED <<len, views, pending, claims>> /\ task' = task /\ poisoned' = poisoned
  BY DEF GuardRelease, journal
<1>2. FileType' /\ CallType' /\ TaskType'
  BY <1>1, <1>k DEF GuardRelease, FileType, CallType, TaskType, files
<1> QED
  BY <1>1, <1>2, QuietKeeps

LEMMA RunWritesKeeps ==
  ASSUME RegistryInv, NEW h \in Hosts, NEW i \in Installations, RunWrites(h, i)
  PROVE  RegistryInv'
<1>k. FileType /\ CallType /\ TaskType
  BY TypeParts DEF RegistryInv
<1>1. /\ UNCHANGED <<len, views, pending, claims>> /\ poisoned' = poisoned
      /\ UNCHANGED <<projected, owner, phase, apply, lifecycle, guard, task, answer, faults>>
  BY DEF RunWrites, journal, memory
<1>2. FileType' /\ CallType' /\ TaskType'
  BY <1>1, <1>k DEF RunWrites, FileType, CallType, TaskType
<1> QED
  BY <1>1, <1>2, QuietKeeps

LEMMA CrashKeeps ==
  ASSUME RegistryInv, NEW h \in Hosts, Crash(h)
  PROVE  RegistryInv'
<1>k. FileType /\ CallType /\ TaskType
  BY TypeParts DEF RegistryInv
<1>1. UNCHANGED <<len, views, pending, claims>> /\ poisoned' = poisoned
  BY DEF Crash, journal
<1>2. [w \in Workers |-> IdleTask] \in [Workers -> TaskStates]
  BY IdleType
<1>3. TaskType' /\ \A g \in Hosts, w \in Workers : task'[g][w] \in {task[g][w], IdleTask}
  BY <1>k, <1>2 DEF Crash, TaskType
<1>4. CallType'
  BY <1>k DEF Crash, CallType
<1>5. FileType'
  BY <1>1, <1>k, FaultType DEF Crash, FileType
<1> QED
  BY <1>1, <1>3, <1>4, <1>5, QuietKeeps

LEMMA RegistryInit == Init => RegistryInv
<1> SUFFICES ASSUME Init PROVE RegistryInv
  OBVIOUS
<1>1. TypeOK
  <2>1. JournalType
    BY DEF Init, JournalType
  <2>2. MaxFaults \in 0..MaxFaults /\ Empty \in Contents
    BY InstallationAssumptions
  <2>3. FileType
    BY <2>2 DEF Init, FileType
  <2>4. CallType
    BY DEF Init, CallType
  <2>5. TaskType
    BY IdleType DEF Init, TaskType
  <2> QED
    BY <2>1, <2>3, <2>4, <2>5, TypeParts
<1>2. \A h \in Hosts, w \in Workers : task[h][w] = IdleTask
  BY DEF Init
<1>3. PlaceInv(IdleTask) /\ ReadInv(IdleTask)
  BY IdleInv, IdleFields DEF ReadInv, Started, Forward, Undo
<1>4. JournalInv
  BY DEF Init, JournalInv
<1> QED
  BY <1>1, <1>2, <1>3, <1>4 DEF RegistryInv, TasksInv

LEMMA RegistryNext == RegistryInv /\ [Next]_vars => RegistryInv'
<1> SUFFICES ASSUME RegistryInv, [Next]_vars PROVE RegistryInv'
  OBVIOUS
<1>1. CASE UNCHANGED vars
  <2>1. FileType /\ CallType /\ TaskType
    BY TypeParts DEF RegistryInv
  <2> QED
    BY <1>1, <2>1, QuietKeeps DEF vars, FileType, CallType, TaskType
<1>2. ASSUME NEW h \in Hosts, NEW w \in Workers,
             \/ Step(h, w) \/ AppendFails(h, w) \/ Disconnect(h, w) \/ Boot(h, w)
             \/ \E key \in Keys, r \in Requests : Submit(h, w, key, r)
             \/ \E i \in Installations : GuardBegin(h, w, i)
      PROVE  RegistryInv'
  BY <1>2, PrepareKeeps, DecideKeeps, AppendKeeps, CheckEffectKeeps, EffectKeeps, RestoreKeeps,
     PublishKeeps, GuardHeldKeeps, RecoverKeeps, MaterializeKeeps, AppendFailsKeeps,
     DisconnectKeeps, BootKeeps, SubmitKeeps, GuardBeginKeeps DEF Step
<1>3. ASSUME NEW h \in Hosts,
             Crash(h) \/ \E i \in Installations : GuardRelease(h, i) \/ RunWrites(h, i)
      PROVE  RegistryInv'
  BY <1>3, CrashKeeps, GuardReleaseKeeps, RunWritesKeeps
<1> QED
  BY <1>1, <1>2, <1>3 DEF Next

\* Every variable of the registry keeps its type.  That revisions stay within
\* the number of keys says that a revision is never counted up without a claim
\* of its own, whatever requests share a key and whatever the clock does.
THEOREM InstallationsTypeCorrect == Spec => []TypeOK
<1>1. RegistryInv => TypeOK
  BY DEF RegistryInv
<1> QED
  BY <1>1, RegistryInit, RegistryNext, PTL DEF Spec

-----------------------------------------------------------------------------
(* ReplayInv: requests that do not share a key, a clock that goes forward. *)

\* What lands replays: the claim of a mutation under way is still free.
LEMMA LandingReplays ==
  ASSUME JournalType, JournalInv, NEW t \in TaskStates, PlaceInv(t), ReadInv(t), ClaimInv(t),
         t.base # None, t.base = len
  PROVE  Replays(t)
<1>1. /\ t.pc \in AppendPoints /\ ~t.stale
      /\ t.pc \in {"commit", "start"} =>
           views[t.inst] = t.prev /\ pending[t.inst] = None /\ claims[t.key] = None
      /\ t.pc \in {"terminal", "rollback", "block"} =>
              /\ Mine(t) /\ pending[t.inst].snap = t.snap /\ views[t.inst].rev = t.prev.rev
  BY LandingFacts DEF ClaimInv
<1>2. t.pc = "terminal" => claims[t.key] = None
  BY <1>1 DEF ClaimInv, Forward
<1>3. CASE t.pc = "commit"
  BY <1>1, <1>3 DEF Replays, ClaimInstalls
<1>4. CASE t.pc = "start"
  BY <1>1, <1>4 DEF Replays
<1>5. CASE t.pc = "terminal"
  BY <1>1, <1>2, <1>5 DEF Replays, ClaimInstalls, Mine
<1>6. CASE t.pc \in {"rollback", "block"}
  BY <1>1, <1>6 DEF Replays, Mine
<1> QED
  BY <1>1, <1>3, <1>4, <1>5, <1>6 DEF AppendPoints

\* A claim is never changed.
LEMMA ClaimsStay ==
  ASSUME JournalType, JournalInv, NEW t \in TaskStates, PlaceInv(t), ReadInv(t), JournalMoves(t)
  PROVE  \A k \in Keys : claims[k] # None => claims'[k] = claims[k]
<1>1. CASE claims' = claims
  BY <1>1
<1>2. CASE t.base # None /\ t.base = len /\ Replays(t) /\ Replay(t)
  BY <1>2, LandingClaims
<1> QED
  BY <1>1, <1>2 DEF JournalMoves, Landing

LEMMA ClaimOfType ==
  ASSUME NEW s \in TaskStates, PlaceInv(s), s.pc \in {"commit", "terminal", "publish"},
         Candidate(s) \in Views
  PROVE  ClaimOf(s) \in Claims /\ ClaimOf(s) # None /\ s.key \in Keys
<1>1. s.inst \in Installations /\ s.key \in Keys
  BY DEF PlaceInv, Located, Started, Forward, Asked
<1>2. ClaimOf(s) \in Claims
  BY <1>1, TaskFields DEF ClaimOf, Claims
<1> QED
  BY <1>1, <1>2, NoneAssumption

LEMMA MovesKeepClaims ==
  ASSUME JournalType, JournalInv, NEW t \in TaskStates, PlaceInv(t), ReadInv(t), JournalMoves(t),
         NEW s \in TaskStates, PlaceInv(s), ReadInv(s), ClaimInv(s),
         s.key = t.key /\ s.key # None => s.req = t.req
  PROVE  ClaimInv(s)'
<1>1. s.pc = "publish" => claims'[s.key] = ClaimOf(s)
  BY ClaimOfType, ClaimsStay DEF ClaimInv, ReadInv
<1>2. ASSUME s.pc \in Forward, Mine(s)' PROVE claims'[s.key] = None
  <2>1. /\ s.inst \in Installations /\ s.id < len /\ s.key \in Keys /\ ~s.hydrate
        /\ s.req.op \in Staged /\ s.req.op # "create" /\ s.inst = s.req.inst
    BY <1>2 DEF PlaceInv, ReadInv, Located, Started, Forward, Undo, Boots, Asked, Staged
  <2>2. CASE UNCHANGED <<len, views, pending, claims>>
    BY <1>2, <2>2 DEF ClaimInv, Mine
  <2>3. CASE Landing(t)
    <3>1. Mine(s) /\ claims[s.key] = None
      BY <1>2, <2>1, <2>3, LandingKeepsMine DEF ClaimInv
    <3>2. CASE UNCHANGED <<views, pending, claims>>
      BY <3>1, <3>2
    <3>3. CASE Replays(t) /\ Replay(t)
      <4>1. t.base # None /\ t.base = len
        BY <2>3 DEF Landing
      <4>2. CASE t.pc \in {"commit", "terminal"} /\ s.key = t.key
        <5>1. t.req = s.req /\ t.key \in Keys
          BY <2>1, <4>2, NoneAssumption
        <5>2. t.inst = s.inst
          BY <2>1, <4>2, <5>1 DEF PlaceInv, Asked, Forward
        <5>3. pending'[t.inst] = None
          BY <2>1, <3>3, <4>1, <4>2, <5>1, <5>2, ReplayFields DEF AppendPoints
        <5> QED
          BY <1>2, <5>2, <5>3 DEF Mine
      <4>3. CASE t.pc \in {"commit", "terminal"} /\ s.key # t.key
        BY <2>1, <3>1, <3>3, <4>1, <4>3, LandingClaims
      <4>4. CASE t.pc \notin {"commit", "terminal"}
        BY <3>1, <3>3, <4>1, <4>4, LandingClaims
      <4> QED
        BY <4>2, <4>3, <4>4
    <3> QED
      BY <2>3, <3>2, <3>3 DEF Landing
  <2> QED
    BY <2>2, <2>3 DEF JournalMoves
<1> QED
  BY <1>1, <1>2 DEF ClaimInv

LEMMA ReplayStep ==
  ASSUME RegistryInv, ReplayInv, NEW h \in Hosts, NEW w \in Workers,
         JournalMoves(task[h][w]), ~poisoned', NEW u, SetTask(h, w, u), ClaimInv(u)',
         u.key # None => \/ u.key = task[h][w].key /\ u.req = task[h][w].req
                         \/ \A g \in Hosts, v \in Workers :
                              task[g][v].key = u.key => task[g][v].req = u.req,
         \A k \in Keys : answer'[k] \in {answer[k], claims'[k]}
  PROVE  ReplayInv'
<1>1. /\ \A t : t = task[h][w] => t \in TaskStates /\ PlaceInv(t) /\ ReadInv(t) /\ ClaimInv(t)
      /\ JournalType /\ JournalInv /\ TaskType
  BY KnownTask DEF ReplayInv
<1>2. /\ task'[h][w] = u
      /\ \A g \in Hosts, v \in Workers : ~(g = h /\ v = w) => task'[g][v] = task[g][v]
  BY <1>1, SetTaskFields
<1>3. OneKeyOneRequest'
  <2> SUFFICES ASSUME NEW f \in Hosts, NEW g \in Hosts, NEW v \in Workers, NEW x \in Workers,
                      task'[f][v].key = task'[g][x].key, task'[g][x].key # None
               PROVE  task'[f][v].req = task'[g][x].req
    BY DEF OneKeyOneRequest
  <2>1. ASSUME NEW a \in Hosts, NEW b \in Workers, ~(a = h /\ b = w), u.key # None,
               task[a][b].key = u.key
        PROVE  task[a][b].req = u.req
    BY <2>1 DEF ReplayInv, OneKeyOneRequest
  <2>2. CASE f = h /\ v = w
    BY <1>2, <2>1, <2>2
  <2>3. CASE g = h /\ x = w
    BY <1>2, <2>1, <2>3
  <2>4. CASE ~(f = h /\ v = w) /\ ~(g = h /\ x = w)
    BY <1>2, <2>4 DEF ReplayInv, OneKeyOneRequest
  <2> QED
    BY <2>2, <2>3, <2>4
<1>4. ASSUME NEW g \in Hosts, NEW v \in Workers PROVE ClaimInv(task[g][v])'
  <2>1. CASE g = h /\ v = w
    BY <1>2, <2>1
  <2>2. CASE ~(g = h /\ v = w)
    <3>1. \A s : s = task[g][v] =>
            /\ s \in TaskStates /\ PlaceInv(s) /\ ReadInv(s) /\ ClaimInv(s)
            /\ s.key = task[h][w].key /\ s.key # None => s.req = task[h][w].req
      BY KnownTask DEF ReplayInv, OneKeyOneRequest
    <3>2. \A s : s = task[g][v] => ClaimInv(s)'
      BY <1>1, <3>1, MovesKeepClaims
    <3> QED
      BY <1>2, <2>2, <3>2
  <2> QED
    BY <2>1, <2>2
<1>5. AnswersAreClaims'
  <2>1. \A k \in Keys : claims[k] # None => claims'[k] = claims[k]
    BY <1>1, ClaimsStay
  <2> QED
    BY <2>1 DEF ReplayInv, AnswersAreClaims
<1> QED
  BY <1>3, <1>4, <1>5 DEF ReplayInv

LEMMA RestingClaims ==
  ASSUME NEW u, u.pc \notin Forward \cup {"publish"}, ~u.stale
  PROVE  ClaimInv(u)'
BY DEF ClaimInv

LEMMA IdleClaims ==
  /\ ClaimInv(IdleTask)' /\ IdleTask.key = None
  /\ ClaimInv(RecoverTask)' /\ RecoverTask.key = None
<1>1. /\ IdleTask.pc \notin Forward \cup {"publish"} /\ ~IdleTask.stale
      /\ RecoverTask.pc \notin Forward \cup {"publish"} /\ ~RecoverTask.stale
  BY IdleFields, RecoverFields DEF Forward
<1> QED
  BY <1>1, IdleFields, RecoverFields, RestingClaims

LEMMA QuitsReplay ==
  ASSUME RegistryInv, ReplayInv, NEW h \in Hosts, NEW w \in Workers,
         JournalMoves(task[h][w]), ~poisoned', Quits(h, w)
  PROVE  ReplayInv'
<1>1. CallType
  BY KnownTask
<1>2. answer' = answer /\ \E u \in {IdleTask, RecoverTask} : SetTask(h, w, u)
  BY <1>1, QuitFields
<1> QED
  BY <1>2, IdleClaims, ReplayStep

LEMMA ReplayClaimReplay ==
  ASSUME RegistryInv, ReplayInv, NEW h \in Hosts, NEW w \in Workers, UNCHANGED journal,
         NEW key \in Keys, claims[key] # None, NEW r \in Requests, ReplayClaim(h, w, key, r)
  PROVE  ReplayInv'
<1>1. JournalMoves(task[h][w]) /\ ~poisoned' /\ claims' = claims
  BY SameJournal DEF ReplayInv, journal
<1>2. SetTask(h, w, IdleTask)
  BY DEF ReplayClaim
<1>3. claims[key] \in Claims /\ answer \in [Keys -> Claims \cup {None}]
  BY KnownTask DEF JournalType, CallType
<1>4. claims[key].req = r => [claims[key] EXCEPT !.req = r] = claims[key]
  BY <1>3 DEF Claims
<1>5. \A k \in Keys : answer'[k] \in {answer[k], claims'[k]}
  BY <1>1, <1>3, <1>4 DEF ReplayClaim, SameRequest
<1> QED
  BY <1>1, <1>2, <1>5, IdleClaims, ReplayStep

LEMMA AnsweredReplay ==
  ASSUME RegistryInv, ReplayInv, NEW h \in Hosts, NEW w \in Workers,
         JournalMoves(task[h][w]), ~poisoned', task[h][w].key \in Keys,
         Answered(h, w, Candidate(task[h][w])), claims'[task[h][w].key] = ClaimOf(task[h][w])
  PROVE  ReplayInv'
<1>1. SetTask(h, w, IdleTask)
  BY DEF Answered
<1>2. answer \in [Keys -> Claims \cup {None}]
  BY KnownTask DEF CallType
<1>3. \A k \in Keys : answer'[k] \in {answer[k], claims'[k]}
  BY <1>2 DEF Answered, ClaimOf
<1> QED
  BY <1>1, <1>3, IdleClaims, ReplayStep

LEMMA StagedReplay ==
  ASSUME RegistryInv, ReplayInv, NEW h \in Hosts, NEW w \in Workers,
         JournalMoves(task[h][w]), ~poisoned', answer' = answer,
         NEW u, SetTask(h, w, u), Follows(u, task[h][w]), u.pc # "publish",
         u.pc \in Forward => task[h][w].pc \in Forward
  PROVE  ReplayInv'
<1>1. \A t : t = task[h][w] => t \in TaskStates /\ PlaceInv(t) /\ ReadInv(t) /\ ClaimInv(t)
  BY KnownTask DEF ReplayInv
<1>2. \A t : t = task[h][w] => ClaimInv(t)'
  BY <1>1, KnownTask, MovesKeepClaims
<1>3. ClaimInv(u)'
  <2>1. Mine(u)' => \A t : t = task[h][w] => Mine(t)'
    BY DEF Mine, Follows
  <2> QED
    BY <1>2, <2>1 DEF ClaimInv, Follows
<1> QED
  BY <1>3, ReplayStep DEF Follows

LEMMA ContinueReplay ==
  ASSUME RegistryInv, ReplayInv, NEW h \in Hosts, NEW w \in Workers, UNCHANGED journal,
         NEW p \in Started, p \in Forward => task[h][w].pc \in Forward, Continue(h, w, p)
  PROVE  ReplayInv'
<1> DEFINE t == task[h][w]
           u == [t EXCEPT !.pc = p, !.tries = 0]
<1>1. SetTask(h, w, u) /\ answer' = answer /\ t \in TaskStates
  BY KnownTask DEF Continue, Goto
<1>2. p \in Points /\ p # "publish"
  BY DEF Started, Forward, Undo, Points
<1>3. Follows(u, t) /\ u.pc = p
  BY <1>1, <1>2, GotoFields
<1>4. JournalMoves(t) /\ ~poisoned'
  BY SameJournal DEF ReplayInv
<1> HIDE DEF u
<1> QED
  BY <1>1, <1>2, <1>3, <1>4, StagedReplay

LEMMA AppendErrorReplay ==
  ASSUME RegistryInv, ReplayInv, NEW h \in Hosts, NEW w \in Workers, UNCHANGED journal,
         AppendError(h, w)
  PROVE  ReplayInv'
<1>1. CASE task[h][w].pc = "terminal"
  <2>1. "restore" \in Started /\ "restore" \notin Forward
    BY DEF Started, Forward, Undo
  <2> QED
    BY <1>1, <2>1, ContinueReplay DEF AppendError
<1>2. CASE task[h][w].pc # "terminal"
  <2>1. JournalMoves(task[h][w]) /\ ~poisoned'
    BY SameJournal DEF ReplayInv
  <2> QED
    BY <1>2, <2>1, ErrorQuits, QuitsReplay DEF AppendError
<1> QED
  BY <1>1, <1>2

LEMMA SubmitReplay ==
  ASSUME ClientsAgree, RegistryInv, ReplayInv, NEW h \in Hosts, NEW w \in Workers,
         NEW key \in Keys, NEW r \in Requests, Submit(h, w, key, r)
  PROVE  ReplayInv'
<1>1. JournalMoves(task[h][w]) /\ ~poisoned' /\ UNCHANGED journal
  BY SameJournal DEF Submit, ReplayInv
<1>2. CASE claims[key] # None
  BY <1>1, <1>2, ReplayClaimReplay DEF Submit
<1>3. CASE claims[key] = None
  <2> DEFINE t == [IdleTask EXCEPT !.pc = "prepare", !.key = key, !.req = r, !.inst = r.inst,
                            !.prev = IF r.op = "create" THEN None ELSE views[r.inst]]
             u == IF t.prev # None /\ t.prev.status = "removed" THEN [t EXCEPT !.pc = "commit"] ELSE t
  <2>1. SetTask(h, w, u) /\ answer' = answer
    BY <1>3 DEF Submit
  <2>2. u.key = key /\ u.req = r /\ u.pc \in {"prepare", "commit"} /\ ~u.stale
    BY DEF IdleTask
  <2>3. \A g \in Hosts, v \in Workers : task[g][v].key = key => task[g][v].req = r
    BY DEF Submit, SendsOnce, ClientsAgree
  <2> HIDE DEF u
  <2>4. \A x : x = u => ClaimInv(x)'
    BY <2>2, RestingClaims DEF Forward
  <2> QED
    BY <1>1, <2>1, <2>2, <2>3, <2>4, ReplayStep
<1> QED
  BY <1>2, <1>3

LEMMA PrepareReplay ==
  ASSUME ClientsAgree, RegistryInv, ReplayInv, NEW h \in Hosts, NEW w \in Workers, Prepare(h, w)
  PROVE  ReplayInv'
<1> DEFINE t == task[h][w]
<1>1. JournalMoves(t) /\ ~poisoned'
  BY SameJournal DEF Prepare, ReplayInv
<1>2. CASE Refused(h, w)
  BY <1>1, <1>2, QuitsReplay DEF Quits
<1>3. ASSUME NEW i, NEW s,
             SetTask(h, w, [t EXCEPT !.pc = IF t.req.op \in Staged THEN "start" ELSE "commit",
                                     !.inst = i, !.stale = FALSE, !.snap = s]),
             answer' = answer
      PROVE  ReplayInv'
  <2> DEFINE u == [t EXCEPT !.pc = IF t.req.op \in Staged THEN "start" ELSE "commit",
                            !.inst = i, !.stale = FALSE, !.snap = s]
  <2>1. u.key = t.key /\ u.req = t.req /\ u.pc \in {"start", "commit"} /\ ~u.stale
    BY KnownTask DEF TaskStates
  <2>2. SetTask(h, w, u)
    BY <1>3
  <2> HIDE DEF u
  <2>3. \A x : x = u => ClaimInv(x)'
    BY <2>1, RestingClaims DEF Forward
  <2> QED
    BY <1>1, <1>3, <2>1, <2>2, <2>3, ReplayStep
<1>4. CASE ~Refused(h, w)
  BY <1>3, <1>4 DEF Prepare, ClientsAgree
<1> QED
  BY <1>2, <1>4

LEMMA DecideReplay ==
  ASSUME RegistryInv, ReplayInv, NEW h \in Hosts, NEW w \in Workers, Decide(h, w)
  PROVE  ReplayInv'
<1> DEFINE t == task[h][w]
<1>1. JournalMoves(t) /\ ~poisoned' /\ UNCHANGED journal
  BY SameJournal DEF Decide, ReplayInv
<1>k. t \in TaskStates /\ PlaceInv(t)
  BY KnownTask
<1>2. CASE Claimed(t)
  <2>1. t.key \in Keys /\ claims[t.key] # None /\ t.req \in Requests
    BY <1>2, <1>k, TaskFields DEF Claimed, PlaceInv, Asked
  <2>2. Refused(h, w) \/ ReplayClaim(h, w, t.key, t.req)
    BY <1>2 DEF Decide
  <2> QED
    BY <1>1, <2>1, <2>2, QuitsReplay, ReplayClaimReplay DEF Quits
<1>3. CASE ~Claimed(t) /\ Resolved(t)
  <2>1. Quits(h, w)
    BY <1>3, ErrorQuits, RolledBackQuits DEF Decide
  <2> QED
    BY <1>1, <2>1, QuitsReplay
<1>4. CASE ~Claimed(t) /\ ~Resolved(t) /\ (~Stands(t) \/ owner # h)
  BY <1>1, <1>4, AppendErrorReplay DEF Decide
<1>5. CASE ~Claimed(t) /\ ~Resolved(t) /\ Stands(t) /\ owner = h
  <2> DEFINE u == [t EXCEPT !.base = len, !.id = IF t.pc = "start" THEN len ELSE t.id]
  <2>1. SetTask(h, w, u) /\ answer' = answer
    BY <1>5 DEF Decide
  <2>2. /\ u.pc = t.pc /\ u.key = t.key /\ u.req = t.req /\ u.inst = t.inst
        /\ (t.pc # "start" => u.id = t.id) /\ u.stale = t.stale
    BY <1>k DEF TaskStates
  <2> HIDE DEF u
  <2>3. \A x : x = u => ClaimInv(x)'
    <3> TAKE x
    <3> HAVE x = u
    <3>1. ClaimInv(t) /\ pending' = pending /\ claims' = claims
      BY <1>1 DEF ReplayInv, journal
    <3>2. x.pc # "publish" /\ (x.pc \in Forward => t.pc # "start")
      BY <2>2 DEF Decide, AppendPoints, Forward
    <3>3. x.pc \in Forward /\ Mine(x)' => Mine(t)
      BY <2>2, <3>1, <3>2 DEF Mine
    <3> QED
      BY <2>2, <3>1, <3>2, <3>3 DEF ClaimInv
  <2> QED
    BY <1>1, <2>1, <2>2, <2>3, ReplayStep
<1> QED
  BY <1>2, <1>3, <1>4, <1>5

LEMMA AppendReplay ==
  ASSUME RegistryInv, ReplayInv, NEW h \in Hosts, NEW w \in Workers, Append(h, w)
  PROVE  ReplayInv'
<1> DEFINE t == task[h][w]
<1>k. /\ JournalType /\ JournalInv /\ t \in TaskStates /\ PlaceInv(t) /\ ReadInv(t) /\ ClaimInv(t)
  BY KnownTask DEF ReplayInv
<1>p. t.base # None /\ t.pc \in AppendPoints
  BY <1>k DEF Append, PlaceInv
<1>r. t.pc # "publish" /\ "restore" \notin Forward
  BY <1>p DEF Forward, AppendPoints
<1>1. CASE ~LandsAt(t)
  <2>1. UNCHANGED journal
    BY <1>1 DEF Append
  <2>2. JournalMoves(t) /\ ~poisoned'
    BY <2>1, SameJournal DEF ReplayInv
  <2> DEFINE retry == [t EXCEPT !.base = None, !.tries = t.tries + 1]
             back == [t EXCEPT !.pc = "restore", !.base = None, !.tries = 0]
  <2>4. /\ Follows(retry, t) /\ retry.pc = t.pc /\ retry.tries = t.tries + 1
        /\ Follows(back, t) /\ back.pc = "restore"
    BY <1>k DEF TaskStates, Follows
  <2>5. \/ SetTask(h, w, retry) /\ answer' = answer
        \/ SetTask(h, w, back) /\ answer' = answer
        \/ Error(h, w)
    BY <1>1, <2>4 DEF Append
  <2> HIDE DEF retry, back
  <2>6. CASE SetTask(h, w, retry) /\ answer' = answer
    BY <1>r, <2>2, <2>4, <2>6, StagedReplay
  <2>7. CASE SetTask(h, w, back) /\ answer' = answer
    BY <1>r, <2>2, <2>4, <2>7, StagedReplay
  <2>8. CASE Error(h, w)
    BY <2>2, <2>8, ErrorQuits, QuitsReplay
  <2> QED
    BY <2>5, <2>6, <2>7, <2>8
<1>2. CASE LandsAt(t)
  <2>1. /\ t.base = len /\ len' = len + 1 /\ poisoned' = ~Replays(t) /\ Landed(h, w)
        /\ Landing(t)
    BY <1>p, <1>2 DEF Append, LandsAt, Landing
  <2>2. Replays(t)
    BY <1>k, <1>p, <2>1, LandingReplays
  <2>3. JournalMoves(t) /\ ~poisoned' /\ Replay(t)
    BY <1>2, <2>1, <2>2 DEF JournalMoves, Append
  <2>4. /\ t.inst \in Installations
        /\ t.pc \in {"commit", "terminal"} => t.key \in Keys /\ claims'[t.key] = ClaimOf(t)
    BY <1>k, <1>p, <2>1, <2>2, <2>3, LandingFacts, LandingClaims
  <2> DEFINE on(p) == [t EXCEPT !.base = None, !.tries = 0, !.pc = p]
  <2>6. \A p : Follows(on(p), t) /\ on(p).pc = p
    BY <1>k DEF TaskStates, Follows
  <2>7. CASE t.pc = "start"
    <3> DEFINE u == on("check")
    <3>1. SetTask(h, w, u) /\ answer' = answer
      BY <2>1, <2>7, <1>k DEF Landed, IsNoop, TaskStates
    <3>3. Follows(u, t) /\ u.pc = "check"
      BY <2>6
    <3> HIDE DEF u
    <3>4. claims[t.key] = None /\ claims' = claims
      BY <1>k, <1>p, <2>1, <2>2, <2>3, <2>7, LandingFacts, LandingClaims
    <3>5. \A x : x = u => ClaimInv(x)'
      BY <1>k, <3>3, <3>4 DEF ClaimInv, Follows
    <3> QED
      BY <2>3, <3>1, <3>3, <3>5, ReplayStep DEF Follows
  <2>8. CASE t.pc = "commit" /\ IsNoop(t)
    <3>1. Answered(h, w, t.prev) /\ Candidate(t) = t.prev
      BY <2>1, <2>8 DEF Landed, IsNoop
    <3> QED
      BY <2>3, <2>4, <2>8, <3>1, AnsweredReplay
  <2>9. CASE t.pc \in {"commit", "terminal"} /\ ~IsNoop(t)
    <3> DEFINE u == on("publish")
    <3>1. SetTask(h, w, u) /\ answer' = answer
      BY <2>1, <2>9, <1>k DEF Landed, TaskStates
    <3>3. Follows(u, t) /\ u.pc = "publish"
      BY <2>6
    <3> HIDE DEF u
    <3>4. ClaimOf(u) = ClaimOf(t)
      BY <3>3 DEF Follows, ClaimOf, Candidate
    <3>5. \A x : x = u => ClaimInv(x)'
      BY <1>k, <2>4, <2>9, <3>3, <3>4 DEF ClaimInv, Follows, Forward
    <3> QED
      BY <2>3, <3>1, <3>3, <3>5, ReplayStep DEF Follows
  <2>10. CASE t.pc \in {"rollback", "block"}
    <3>1. ~IsNoop(t)
      BY <2>10 DEF IsNoop
    <3>2. Quits(h, w)
      BY <2>1, <2>10, <3>1, ErrorQuits, RolledBackQuits DEF Landed
    <3> QED
      BY <2>3, <3>2, QuitsReplay
  <2>11. t.pc = "terminal" => ~IsNoop(t)
    BY DEF IsNoop
  <2> QED
    BY <1>p, <2>7, <2>8, <2>9, <2>10, <2>11 DEF AppendPoints
<1> QED
  BY <1>1, <1>2

LEMMA DisconnectReplay ==
  ASSUME RegistryInv, ReplayInv, NEW h \in Hosts, NEW w \in Workers, Disconnect(h, w)
  PROVE  ReplayInv'
<1> DEFINE t == task[h][w]
<1>1. JournalMoves(t) /\ ~poisoned'
  <2>1. CASE UNCHANGED journal
    BY <2>1, SameJournal DEF ReplayInv
  <2>2. CASE t.base = len /\ Replays(t) /\ len' = len + 1 /\ Replay(t) /\ UNCHANGED poisoned
    <3>1. len \in Nat
      BY KnownTask DEF JournalType
    <3> QED
      BY <2>2, <3>1, NoneAssumption DEF JournalMoves, Landing, ReplayInv
  <2> QED
    BY <2>1, <2>2 DEF Disconnect
<1> QED
  BY <1>1, QuitsReplay DEF Disconnect, Quits

\* The steps on files continue or quit.
LEMMA FileStepReplay ==
  ASSUME RegistryInv, ReplayInv, NEW h \in Hosts, NEW w \in Workers,
         CheckEffect(h, w) \/ Effect(h, w) \/ Restore(h, w)
  PROVE  ReplayInv'
<1> DEFINE t == task[h][w]
<1>1. UNCHANGED journal /\ JournalMoves(t) /\ ~poisoned'
  BY SameJournal DEF CheckEffect, Effect, Restore, ReplayInv
<1>2. \/ Refused(h, w)
      \/ t.pc = "check" /\ Continue(h, w, "effect")
      \/ t.pc = "effect" /\ Continue(h, w, "terminal")
      \/ \E p \in Undo : Continue(h, w, p)
  BY DEF CheckEffect, Effect, Restore, Undo, At
<1>3. /\ {"effect", "terminal"} \cup Undo \subseteq Started /\ {"check", "effect"} \subseteq Forward
      /\ Undo \cap Forward = {}
  BY DEF Started, Forward, Undo
<1> QED
  BY <1>1, <1>2, <1>3, QuitsReplay, ContinueReplay DEF Quits

LEMMA PublishReplay ==
  ASSUME RegistryInv, ReplayInv, NEW h \in Hosts, NEW w \in Workers, Publish(h, w)
  PROVE  ReplayInv'
<1> DEFINE t == task[h][w]
<1>1. JournalMoves(t) /\ ~poisoned' /\ claims' = claims
  BY SameJournal DEF Publish, ReplayInv, journal
<1>2. t.key \in Keys /\ claims[t.key] = ClaimOf(t)
  BY KnownTask DEF Publish, At, ReplayInv, ClaimInv, PlaceInv, Asked
<1> QED
  BY <1>1, <1>2, AnsweredReplay DEF Publish

\* A task rests, waits for a guard, or recovers: it has no claim.
LEMMA UnclaimedReplay ==
  ASSUME RegistryInv, ReplayInv, NEW h \in Hosts, NEW w \in Workers, UNCHANGED journal,
         NEW u, SetTask(h, w, u), u.key = None, ~u.stale, u.pc \notin Forward \cup {"publish"},
         answer' = answer
  PROVE  ReplayInv'
<1>1. JournalMoves(task[h][w]) /\ ~poisoned'
  BY SameJournal DEF ReplayInv
<1> QED
  BY <1>1, RestingClaims, ReplayStep

LEMMA StartupReplay ==
  ASSUME RegistryInv, ReplayInv, NEW h \in Hosts, NEW w \in Workers,
         Boot(h, w) \/ Recover(h, w) \/ Materialize(h, w)
  PROVE  ReplayInv'
<1> DEFINE t == task[h][w]
<1>1. UNCHANGED journal /\ JournalMoves(t) /\ ~poisoned'
  BY SameJournal DEF Boot, Recover, Materialize, ReplayInv
<1>2. CASE Boot(h, w)
  <2>1. SetTask(h, w, RecoverTask) /\ answer' = answer
    BY <1>2 DEF Boot, RecoverTask
  <2> QED
    BY <1>1, <2>1, IdleClaims, ReplayStep
<1>3. CASE Materialize(h, w)
  <2>1. BootFails(h, w) \/ (SetTask(h, w, IdleTask) /\ answer' = answer)
    BY <1>3 DEF Materialize
  <2> QED
    BY <1>1, <2>1, IdleClaims, ReplayStep, QuitsReplay DEF Quits
<1>4. CASE Recover(h, w)
  <2>1. answer' = answer
    BY <1>4 DEF Recover
  <2>2. ASSUME NEW i,
               SetTask(h, w, [IdleTask EXCEPT !.pc = "restore", !.hydrate = TRUE, !.inst = i,
                               !.prev = pending[i].prev, !.snap = pending[i].snap,
                               !.id = pending[i].id])
        PROVE  ReplayInv'
    <3> DEFINE u == [IdleTask EXCEPT !.pc = "restore", !.hydrate = TRUE, !.inst = i,
                               !.prev = pending[i].prev, !.snap = pending[i].snap,
                               !.id = pending[i].id]
    <3>1. u.key = None /\ ~u.stale /\ u.pc \notin Forward \cup {"publish"} /\ SetTask(h, w, u)
      BY <2>2 DEF IdleTask, Forward
    <3> HIDE DEF u
    <3> QED
      BY <1>1, <2>1, <3>1, UnclaimedReplay
  <2>3. ASSUME Goto(h, w, "materialize") PROVE ReplayInv'
    <3> DEFINE u == [t EXCEPT !.pc = "materialize", !.tries = 0]
    <3>1. SetTask(h, w, u) /\ Follows(u, t) /\ u.pc = "materialize"
      BY <2>3, KnownTask, GotoFields DEF Goto, Points
    <3> HIDE DEF u
    <3> QED
      BY <1>1, <2>1, <3>1, StagedReplay DEF Forward
  <2> QED
    BY <1>4, <2>2, <2>3 DEF Recover
<1> QED
  BY <1>2, <1>3, <1>4

LEMMA GuardReplay ==
  ASSUME RegistryInv, ReplayInv, NEW h \in Hosts, NEW w \in Workers,
         GuardHeld(h, w) \/ \E i \in Installations : GuardBegin(h, w, i)
  PROVE  ReplayInv'
<1>1. UNCHANGED journal /\ JournalMoves(task[h][w]) /\ ~poisoned' /\ answer' = answer
  BY SameJournal DEF GuardHeld, GuardBegin, ReplayInv
<1>2. CASE GuardHeld(h, w)
  BY <1>1, <1>2, IdleClaims, ReplayStep DEF GuardHeld
<1>3. ASSUME NEW i \in Installations, GuardBegin(h, w, i) PROVE ReplayInv'
  <2> DEFINE u == [IdleTask EXCEPT !.pc = "guard", !.inst = i, !.prev = views[i]]
  <2>1. u.key = None /\ ~u.stale /\ u.pc \notin Forward \cup {"publish"} /\ SetTask(h, w, u)
    BY <1>3 DEF GuardBegin, IdleTask, Forward
  <2> HIDE DEF u
  <2> QED
    BY <1>1, <2>1, UnclaimedReplay
<1> QED
  BY <1>2, <1>3

LEMMA QuietReplay ==
  ASSUME RegistryInv, ReplayInv, UNCHANGED <<pending, claims, answer, poisoned>>,
         \A h \in Hosts, w \in Workers : task'[h][w] \in {task[h][w], IdleTask}
  PROVE  ReplayInv'
<1>1. OneKeyOneRequest'
  BY IdleFields DEF ReplayInv, OneKeyOneRequest
<1>2. ASSUME NEW h \in Hosts, NEW w \in Workers PROVE ClaimInv(task[h][w])'
  <2>1. CASE task'[h][w] = IdleTask
    <3>1. \A s : s = IdleTask => ClaimInv(s)'
      BY IdleClaims
    <3> QED
      BY <2>1, <3>1
  <2>2. CASE task'[h][w] = task[h][w]
    BY <2>2 DEF ReplayInv, ClaimInv, Mine
  <2> QED
    BY <2>1, <2>2
<1> QED
  BY <1>1, <1>2 DEF ReplayInv, AnswersAreClaims

LEMMA ReplayInit == Init => ReplayInv
<1> SUFFICES ASSUME Init PROVE ReplayInv
  OBVIOUS
<1>1. \A h \in Hosts, w \in Workers : task[h][w] = IdleTask
  BY DEF Init
<1>2. ClaimInv(IdleTask)
  BY IdleFields DEF ClaimInv, Forward
<1>3. ~poisoned /\ AnswersAreClaims
  BY DEF Init, AnswersAreClaims
<1> QED
  BY <1>1, <1>2, <1>3 DEF ReplayInv, OneKeyOneRequest

LEMMA ReplayNext ==
  ASSUME ClientsAgree
  PROVE  RegistryInv /\ ReplayInv /\ [Next]_vars => ReplayInv'
<1> SUFFICES ASSUME RegistryInv, ReplayInv, [Next]_vars PROVE ReplayInv'
  OBVIOUS
<1>1. CASE UNCHANGED vars
  BY <1>1, QuietReplay DEF vars
<1>2. ASSUME NEW h \in Hosts, NEW w \in Workers,
             \/ Step(h, w) \/ AppendFails(h, w) \/ Disconnect(h, w) \/ Boot(h, w)
             \/ \E key \in Keys, r \in Requests : Submit(h, w, key, r)
             \/ \E i \in Installations : GuardBegin(h, w, i)
      PROVE  ReplayInv'
  <2>1. CASE AppendFails(h, w)
    BY <2>1, AppendErrorReplay DEF AppendFails
  <2> QED
    BY <1>2, <2>1, PrepareReplay, DecideReplay, AppendReplay, FileStepReplay, PublishReplay,
       GuardReplay, StartupReplay, DisconnectReplay, SubmitReplay DEF Step
<1>3. ASSUME NEW h \in Hosts, NEW i \in Installations, GuardRelease(h, i) \/ RunWrites(h, i)
      PROVE  ReplayInv'
  BY <1>3, QuietReplay DEF GuardRelease, RunWrites, journal, memory
<1>4. ASSUME NEW h \in Hosts, Crash(h) PROVE ReplayInv'
  <2>1. TaskType
    BY TypeParts DEF RegistryInv
  <2>2. \A g \in Hosts, w \in Workers : task'[g][w] \in {task[g][w], IdleTask}
    BY <1>4, <2>1 DEF Crash, TaskType
  <2> QED
    BY <1>4, <2>2, QuietReplay DEF Crash, journal
<1> QED
  BY <1>1, <1>2, <1>3, <1>4 DEF Next

\* No operation appends an event that the replay of the journal refuses, for any
\* number of Hosts that race, take over and fail.  Requests in progress do not
\* share a key and the clock does not step back; without either the journal can
\* be poisoned (Installations_KeyReuse.cfg, Installations_ClockStepsBack.cfg).
THEOREM InstallationsAlwaysReplay ==
  ASSUME ClientsAgree
  PROVE  Spec => []InstallationsReplay
<1>1. ReplayInv => InstallationsReplay
  BY DEF ReplayInv, InstallationsReplay
<1> QED
  BY <1>1, RegistryInit, RegistryNext, ReplayInit, ReplayNext, PTL DEF Spec

\* Every answer that a client was given is what the journal holds under its
\* key, for ever after and on every Host.
THEOREM AnswersAreDurable ==
  ASSUME ClientsAgree
  PROVE  Spec => []AnswersAreClaims
<1>1. ReplayInv => AnswersAreClaims
  BY DEF ReplayInv
<1> QED
  BY <1>1, RegistryInit, RegistryNext, ReplayInit, ReplayNext, PTL DEF Spec

-----------------------------------------------------------------------------
(* HostInv: one Host.                                                      *)

\* The journal of other Installations is left alone, and the event is that of
\* the task that has the lifecycle lock.
LEMMA MovesAreLocal ==
  ASSUME JournalType, JournalInv, NEW t \in TaskStates, PlaceInv(t), ReadInv(t), JournalMoves(t)
  PROVE  \A i \in Installations :
           \/ views'[i] = views[i] /\ pending'[i] = pending[i]
           \/ Writing(t) /\ i = t.inst /\ Landing(t)
<1>1. CASE UNCHANGED <<views, pending, claims>>
  BY <1>1
<1>2. CASE Landing(t) /\ Replays(t) /\ Replay(t)
  <2>1. t.inst \in Installations /\ t.pc \in AppendPoints
    BY <1>2, LandingFacts DEF Landing
  <2>2. t.pc \in {"commit", "terminal"} => t.key \in Keys
    BY <1>2, LandingFacts DEF Landing
  <2>3. Writing(t)
    BY <2>1 DEF Writing, Located, AppendPoints, Started, Forward, Undo
  <2> QED
    BY <1>2, <2>1, <2>2, <2>3, ReplayFields
<1> QED
  BY <1>1, <1>2 DEF JournalMoves, Landing

\* Two tasks of a Host never change one Installation.
LEMMA WritersDiffer ==
  ASSUME HostInv, NEW h \in Hosts, NEW v \in Workers, NEW w \in Workers, v # w,
         Writing(task[h][v]), Writing(task[h][w]), task[h][w].inst \in Installations
  PROVE  task[h][v].inst # task[h][w].inst
BY DEF HostInv, LockInv

\* Nor does one while a Run holds a guard.
LEMMA GuardedUnwritten ==
  ASSUME HostInv, NEW h \in Hosts, NEW w \in Workers, NEW i \in Installations,
         guard[h][i] # None \/ (task[h][w].pc = "guard" /\ task[h][w].inst = i)
  PROVE  /\ lifecycle[h][i] = None
         /\ \A v \in Workers : Writing(task[h][v]) => task[h][v].inst # i
BY NoneAssumption DEF HostInv, LockInv, Unread

\* What a staged task says of the tree concerns its own Installation.
LEMMA TreeInvDepends ==
  ASSUME NEW s, PlaceInv(s), TreeInv(s),
         Writing(s) => disk'[s.inst] = disk[s.inst] /\ pending'[s.inst] = pending[s.inst]
  PROVE  TreeInv(s)'
<1>1. s.pc \in Started \cup {"commit", "start"} => Writing(s)
  BY DEF Writing, Located, Started, Forward, Undo
<1>2. s.pc \in {"check", "effect", "rollback", "terminal"} => s.pc \in Started
  BY DEF Started, Forward, Undo
<1>3. Target(s)' = Target(s)
  BY DEF Target
<1> QED
  BY <1>1, <1>2, <1>3 DEF TreeInv, Mine

DiskMoves(t) ==
  \A i \in Installations : disk'[i] = disk[i] \/ (Writing(t) /\ i = t.inst)

LEMMA TreeStep ==
  ASSUME OneHost, RegistryInv, HostInv, NEW h \in Hosts, NEW w \in Workers,
         JournalMoves(task[h][w]), DiskMoves(task[h][w]), NEW u, SetTask(h, w, u), TreeInv(u)'
  PROVE  \A g \in Hosts, v \in Workers : TreeInv(task[g][v])'
<1> SUFFICES ASSUME NEW g \in Hosts, NEW v \in Workers PROVE TreeInv(task[g][v])'
  OBVIOUS
<1>1. g = h
  BY DEF OneHost
<1>2. /\ task'[h][w] = u
      /\ \A x \in Workers : x # w => task'[h][x] = task[h][x]
  BY KnownTask, SetTaskFields
<1>3. CASE v = w
  BY <1>1, <1>2, <1>3
<1>4. CASE v # w
  <2>1. \A i \in Installations : \/ views'[i] = views[i] /\ pending'[i] = pending[i]
                                 \/ Writing(task[h][w]) /\ i = task[h][w].inst
    BY KnownTask, MovesAreLocal
  <2>2. \A s : s = task[h][v] => /\ PlaceInv(s) /\ TreeInv(s)
                                 /\ (Writing(s) => s.inst \in Installations)
    BY KnownTask DEF HostInv, PlaceInv, Writing
  <2>3. Writing(task[h][v]) /\ Writing(task[h][w]) => task[h][v].inst # task[h][w].inst
    BY <1>4, KnownTask, WritersDiffer DEF PlaceInv, Writing
  <2>4. \A s : s = task[h][v] =>
          (Writing(s) => disk'[s.inst] = disk[s.inst] /\ pending'[s.inst] = pending[s.inst])
    BY <2>1, <2>2, <2>3 DEF DiskMoves
  <2>5. \A s : s = task[h][v] => TreeInv(s)'
    BY <2>2, <2>4, TreeInvDepends
  <2> QED
    BY <1>1, <1>2, <1>4, <2>5
<1> QED
  BY <1>3, <1>4

\* A guard is new only where it pins the view, and no guarded view changes.
LEMMA PinStep ==
  ASSUME OneHost, RegistryInv, HostInv, NEW h \in Hosts, NEW w \in Workers,
         JournalMoves(task[h][w]),
         \A i \in Installations : guard'[h][i] \in {guard[h][i], None, views'[i]}
  PROVE  GuardPinsInstallation'
<1> SUFFICES ASSUME NEW g \in Hosts, NEW i \in Installations, guard'[g][i] # None,
                    guard'[g][i] # views'[i]
             PROVE  FALSE
  BY DEF GuardPinsInstallation
<1>1. g = h /\ guard[h][i] = guard'[g][i] /\ guard[h][i] # None
  BY DEF OneHost
<1>2. guard[h][i] = views[i]
  BY <1>1 DEF HostInv, GuardPinsInstallation
<1>3. Writing(task[h][w]) => task[h][w].inst # i
  BY <1>1, GuardedUnwritten
<1>4. views'[i] = views[i]
  BY <1>3, KnownTask, MovesAreLocal
<1> QED
  BY <1>1, <1>2, <1>4

LEMMA LockStep ==
  ASSUME OneHost, RegistryInv, HostInv, NEW h \in Hosts, NEW w \in Workers,
         NEW u, SetTask(h, w, u),
         \A i \in Installations : /\ lifecycle'[h][i] = w <=> Writing(u) /\ u.inst = i
                                  /\ lifecycle'[h][i] \in Workers \cup {None},
         \A v \in Workers \ {w}, i \in Installations :
           lifecycle'[h][i] = v <=> lifecycle[h][i] = v,
         \* whoever reads after the step read before it, or finds no writer
         \A i \in Installations :
           /\ guard'[h][i] # None => guard[h][i] # None \/ lifecycle'[h][i] = None
           /\ u.pc = "guard" /\ u.inst = i => lifecycle'[h][i] = None
           /\ lifecycle'[h][i] = w /\ lifecycle[h][i] # w => Unread(h, i)
  PROVE  LockInv'
<1>0. /\ task'[h][w] = u
      /\ \A x \in Workers : x # w => task'[h][x] = task[h][x]
  BY KnownTask, SetTaskFields
<1>1. ASSUME NEW g \in Hosts, NEW v \in Workers, NEW i \in Installations
      PROVE  lifecycle'[g][i] = v <=> Writing(task'[g][v]) /\ task'[g][v].inst = i
  <2>1. g = h
    BY DEF OneHost
  <2>2. CASE v = w
    BY <1>0, <2>1, <2>2
  <2>3. CASE v # w
    BY <1>0, <2>1, <2>3 DEF HostInv, LockInv
  <2> QED
    BY <2>2, <2>3
<1>2. ASSUME NEW g \in Hosts, NEW i \in Installations, lifecycle'[g][i] # None
      PROVE  Unread(g, i)'
  <2>1. g = h /\ lifecycle'[h][i] \in Workers
    BY <1>2 DEF OneHost
  <2>2. Unread(h, i)
    <3>1. CASE lifecycle'[h][i] = w
      BY <3>1, NoneAssumption DEF HostInv, LockInv
    <3>2. CASE lifecycle'[h][i] # w
      <4>1. lifecycle[h][i] = lifecycle'[h][i]
        BY <2>1, <3>2
      <4> QED
        BY <1>2, <2>1, <4>1 DEF HostInv, LockInv
    <3> QED
      BY <3>1, <3>2
  <2>3. guard'[h][i] = None
    BY <1>2, <2>1, <2>2 DEF Unread
  <2>4. ASSUME NEW v \in Workers PROVE ~(task'[h][v].pc = "guard" /\ task'[h][v].inst = i)
    BY <1>0, <1>2, <2>1, <2>2 DEF Unread
  <2> QED
    BY <2>1, <2>3, <2>4 DEF Unread
<1> QED
  BY <1>1, <1>2 DEF LockInv
\* Recovery runs alone before a step of a task and after it.
LEMMA RecoveryStep ==
  ASSUME OneHost, RegistryInv, HostInv, NEW h \in Hosts, NEW w \in Workers,
         JournalMoves(task[h][w]), NEW u, SetTask(h, w, u),
         phase'[h] # "up" => /\ u.hydrate \/ u.pc = "idle"
                             /\ \A i \in Installations : guard'[h][i] = None,
         u.hydrate => phase'[h] = "hydrating",
         u.pc = "materialize" => \A i \in Installations : pending'[i] = None,
         \/ phase'[h] = phase[h] /\ (u.hydrate => task[h][w].hydrate)
         \/ \A v \in Workers \ {w} : task[h][v].pc = "idle"
  PROVE  RecoveryInv'
<1>0. /\ task'[h][w] = u
      /\ \A x \in Workers : x # w => task'[h][x] = task[h][x]
  BY KnownTask, SetTaskFields
<1>1. \A v \in Workers : task[h][v].hydrate => task[h][v].pc # "idle"
  BY KnownTask DEF PlaceInv, Boots, Undo
<1>2. \A v \in Workers : task[h][v].pc = "materialize" => task[h][v].hydrate
  BY KnownTask DEF PlaceInv, Boots
<1>3. \A v \in Workers \ {w} : task[h][v].hydrate =>
        /\ phase'[h] = "hydrating" /\ phase[h] = "hydrating"
        /\ task[h][w].pc = "idle" /\ u.pc = "idle"
        /\ \A x \in Workers \ {v} : task[h][x].pc = "idle"
  <2> SUFFICES ASSUME NEW v \in Workers, v # w, task[h][v].hydrate
               PROVE  /\ phase'[h] = "hydrating" /\ phase[h] = "hydrating"
                      /\ task[h][w].pc = "idle" /\ u.pc = "idle"
                      /\ \A x \in Workers \ {v} : task[h][x].pc = "idle"
    OBVIOUS
  <2>1. phase[h] = "hydrating" /\ \A x \in Workers \ {v} : task[h][x].pc = "idle"
    BY DEF HostInv, RecoveryInv
  <2>2. phase'[h] = phase[h] /\ ~u.hydrate
    BY <1>1, <2>1
  <2> QED
    BY <2>1, <2>2
<1>4. \A v \in Workers \ {w} : phase'[h] # "up" => task[h][v].hydrate \/ task[h][v].pc = "idle"
  BY DEF HostInv, RecoveryInv
<1>5. \A v \in Workers \ {w} : u.hydrate => task[h][v].pc = "idle"
  BY DEF HostInv, RecoveryInv
<1>6. \A v \in Workers \ {w} : task[h][v].pc = "materialize" =>
        \A i \in Installations : pending'[i] = None
  <2> SUFFICES ASSUME NEW v \in Workers, v # w, task[h][v].pc = "materialize",
                      NEW i \in Installations
               PROVE  pending'[i] = None
    OBVIOUS
  <2>1. task[h][w].pc = "idle" /\ pending[i] = None
    BY <1>2, <1>3 DEF HostInv, RecoveryInv
  <2>2. ~Writing(task[h][w])
    BY <2>1 DEF Writing, Located, Started, Forward, Undo
  <2> QED
    BY <2>1, <2>2, KnownTask, MovesAreLocal
<1> SUFFICES ASSUME NEW g \in Hosts, NEW v \in Workers
    PROVE /\ phase'[g] # "up" => /\ \A i \in Installations : guard'[g][i] = None
                                 /\ task'[g][v].hydrate \/ task'[g][v].pc = "idle"
          /\ task'[g][v].hydrate => /\ phase'[g] = "hydrating"
                                    /\ \A x \in Workers \ {v} : task'[g][x].pc = "idle"
          /\ task'[g][v].pc = "materialize" => \A i \in Installations : pending'[i] = None
  BY DEF RecoveryInv
<1>7. g = h
  BY DEF OneHost
<1>8. CASE v = w
  BY <1>0, <1>5, <1>7, <1>8
<1>9. CASE v # w
  BY <1>0, <1>3, <1>4, <1>6, <1>7, <1>9
<1> QED
  BY <1>8, <1>9

\* A task goes on with its mutation.
LEMMA GoesOnHost ==
  ASSUME OneHost, RegistryInv, HostInv, NEW h \in Hosts, NEW w \in Workers,
         JournalMoves(task[h][w]), DiskMoves(task[h][w]),
         NEW u, SetTask(h, w, u), TreeInv(u)', UNCHANGED <<phase, lifecycle, guard>>,
         u.hydrate = task[h][w].hydrate, Writing(u) <=> Writing(task[h][w]),
         Writing(u) => u.inst = task[h][w].inst,
         u.pc = "guard" => lifecycle[h][u.inst] = None,
         u.pc = "materialize" => \A i \in Installations : pending'[i] = None,
         task[h][w].pc # "idle" \/ phase[h] = "up"
  PROVE  HostInv'
<1>1. CallType /\ FileType
  BY KnownTask
<1>2. \A i \in Installations : /\ lifecycle'[h][i] = w <=> Writing(u) /\ u.inst = i
                               /\ lifecycle'[h][i] \in Workers \cup {None}
  BY <1>1 DEF HostInv, LockInv, CallType
<1>3. LockInv'
  BY <1>2, LockStep
<1>4. RecoveryInv'
  <2>1. phase[h] # "up" => u.hydrate /\ \A i \in Installations : guard[h][i] = None
    BY DEF HostInv, RecoveryInv
  <2>2. u.hydrate => phase[h] = "hydrating"
    BY DEF HostInv, RecoveryInv
  <2> QED
    BY <2>1, <2>2, RecoveryStep
<1>5. GuardPinsInstallation'
  BY PinStep
<1>6. \A g \in Hosts, v \in Workers : TreeInv(task[g][v])'
  BY TreeStep
<1> QED
  BY <1>3, <1>4, <1>5, <1>6 DEF HostInv

LEMMA RestingTree ==
  ASSUME NEW u, u.pc \in {"idle", "prepare", "publish", "guard"} \cup Boots
  PROVE  TreeInv(u)'
<1>1. u.pc \in {"idle", "prepare", "publish", "guard", "recover", "materialize"}
  BY DEF Boots
<1> QED
  BY <1>1 DEF TreeInv, Started, Forward, Undo

\* A task ends, with or without an answer.
LEMMA EndsHost ==
  ASSUME OneHost, RegistryInv, HostInv, NEW h \in Hosts, NEW w \in Workers,
         JournalMoves(task[h][w]), UNCHANGED <<disk, guard>>,
         NEW u \in {IdleTask, RecoverTask}, SetTask(h, w, u), Unlocked(h, w),
         u = RecoverTask => task[h][w].hydrate,
         \/ phase' = phase
         \/ task[h][w].hydrate /\ phase' = [phase EXCEPT ![h] = "down"] /\ u = IdleTask
  PROVE  HostInv'
<1>1. CallType /\ FileType
  BY KnownTask
<1>2. /\ u.pc = "idle" \/ u.pc = "recover"
      /\ u.pc = "idle" => ~u.hydrate
      /\ u = IdleTask => u.pc = "idle"
      /\ u.pc = "recover" => u = RecoverTask
  BY IdleFields, RecoverFields
<1>3. ~Writing(u) /\ TreeInv(u)'
  BY <1>2, RestingTree DEF Writing, Located, Started, Forward, Undo, Boots
<1>4. \A i \in Installations :
        lifecycle'[h][i] = IF lifecycle[h][i] = w THEN None ELSE lifecycle[h][i]
  BY <1>1, UnlockedFields
<1>5. \A i \in Installations : lifecycle[h][i] \in Workers \cup {None}
  BY <1>1 DEF CallType
<1>6. LockInv'
  BY <1>2, <1>3, <1>4, <1>5, NoneAssumption, LockStep
<1>7. RecoveryInv'
  <2>1. task[h][w].hydrate => /\ phase[h] = "hydrating"
                              /\ \A v \in Workers \ {w} : task[h][v].pc = "idle"
                              /\ \A i \in Installations : guard[h][i] = None
    BY DEF HostInv, RecoveryInv
  <2>2. phase[h] # "up" => \A i \in Installations : guard[h][i] = None
    BY DEF HostInv, RecoveryInv
  <2>3. phase' = phase \/ phase'[h] = "down"
    BY <1>1 DEF CallType
  <2>4. phase'[h] # "up" => /\ u.hydrate \/ u.pc = "idle"
                            /\ \A i \in Installations : guard'[h][i] = None
    BY <1>2, <2>1, <2>2, RecoverFields
  <2>5. u.hydrate => phase'[h] = "hydrating"
    BY <1>2, <2>1
  <2>6. \/ phase'[h] = phase[h] /\ (u.hydrate => task[h][w].hydrate)
        \/ \A v \in Workers \ {w} : task[h][v].pc = "idle"
    BY <1>2, <2>1
  <2> QED
    BY <1>2, <2>4, <2>5, <2>6, RecoveryStep
<1>8. GuardPinsInstallation'
  BY PinStep
<1>9. \A g \in Hosts, v \in Workers : TreeInv(task[g][v])'
  BY <1>3, TreeStep DEF DiskMoves
<1> QED
  BY <1>6, <1>7, <1>8, <1>9 DEF HostInv

LEMMA QuitsHost ==
  ASSUME OneHost, RegistryInv, HostInv, NEW h \in Hosts, NEW w \in Workers,
         JournalMoves(task[h][w]), UNCHANGED <<disk, guard>>,
         Refused(h, w) \/ (task[h][w].hydrate /\ Quits(h, w))
  PROVE  HostInv'
<1>1. CallType
  BY KnownTask
<1>2. CASE Refused(h, w)
  BY <1>2, IdleFields, RecoverFields, EndsHost DEF Refused
<1>3. CASE task[h][w].hydrate /\ BootFails(h, w)
  BY <1>3, EndsHost DEF BootFails
<1>4. CASE task[h][w].hydrate /\ RecoverNext(h, w)
  BY <1>4, EndsHost DEF RecoverNext, RecoverTask
<1> QED
  BY <1>2, <1>3, <1>4 DEF Quits

LEMMA ErrorHost ==
  ASSUME NEW h, NEW w, Error(h, w) \/ RolledBack(h, w), task[h][w].hydrate \in BOOLEAN
  PROVE  Refused(h, w) \/ (task[h][w].hydrate /\ Quits(h, w))
BY DEF Error, RolledBack, Quits

\* A staged mutation goes on, forward or back.
LEMMA ContinueHost ==
  ASSUME OneHost, RegistryInv, HostInv, NEW h \in Hosts, NEW w \in Workers,
         UNCHANGED journal, DiskMoves(task[h][w]), UNCHANGED guard,
         task[h][w].pc \in Started, NEW p \in Started, Continue(h, w, p),
         p \in {"check", "effect", "rollback"} => disk'[task[h][w].inst] = task[h][w].snap,
         p = "terminal" => disk'[task[h][w].inst] = IF task[h][w].req.op = "delete" THEN Empty
                                                    ELSE task[h][w].req.content
  PROVE  HostInv'
<1> DEFINE t == task[h][w]
           u == [t EXCEPT !.pc = p, !.tries = 0]
<1>1. SetTask(h, w, u) /\ t \in TaskStates /\ UNCHANGED <<phase, lifecycle, guard>>
  BY KnownTask DEF Continue, Goto
<1>2. p \in Points
  BY DEF Started, Forward, Undo, Points
<1>3. u \in TaskStates /\ Follows(u, t) /\ u.pc = p
  BY <1>1, <1>2, GotoFields
<1> HIDE DEF u
<1>4. p \notin {"idle", "guard", "materialize", "commit", "start"} /\ t.pc \notin {"idle", "guard"}
  BY DEF Started, Forward, Undo
<1>5. Writing(u) /\ Writing(t)
  BY <1>3, <1>4 DEF Writing, Located
<1>6. JournalMoves(task[h][w]) /\ pending' = pending
  BY SameJournal DEF journal
<1>7. Mine(t)
  BY DEF HostInv, TreeInv
<1>8. \A x : x = u => TreeInv(x)'
  <2> SUFFICES ASSUME NEW x, x = u PROVE TreeInv(x)'
    OBVIOUS
  <2>1. Mine(x)'
    BY <1>3, <1>6, <1>7 DEF Mine, Follows
  <2>2. p = "terminal" => Target(x)' = IF t.req.op = "delete" THEN Empty ELSE t.req.content
    BY <1>3 DEF Target, Follows
  <2> QED
    BY <1>3, <1>4, <2>1, <2>2 DEF TreeInv, Follows
<1> QED
  BY <1>1, <1>3, <1>4, <1>5, <1>6, <1>8, GoesOnHost DEF Follows

LEMMA AppendErrorHost ==
  ASSUME OneHost, RegistryInv, HostInv, NEW h \in Hosts, NEW w \in Workers,
         UNCHANGED journal, UNCHANGED <<disk, guard>>, AppendError(h, w)
  PROVE  HostInv'
<1>1. CASE task[h][w].pc = "terminal"
  <2>1. "restore" \in Started /\ "terminal" \in Started
    BY DEF Started, Forward, Undo
  <2>2. Continue(h, w, "restore")
    BY <1>1 DEF AppendError
  <2> QED
    BY <1>1, <2>1, <2>2, ContinueHost DEF DiskMoves
<1>2. CASE task[h][w].pc # "terminal"
  BY <1>2, SameJournal, KnownTask, TaskFields, ErrorHost, QuitsHost DEF AppendError
<1> QED
  BY <1>1, <1>2

LEMMA TellHost ==
  ASSUME OneHost, RegistryInv, HostInv, NEW h \in Hosts, NEW w \in Workers,
         JournalMoves(task[h][w]), UNCHANGED <<disk, guard, phase>>,
         SetTask(h, w, IdleTask), Unlocked(h, w)
  PROVE  HostInv'
BY IdleFields, RecoverFields, EndsHost

-----------------------------------------------------------------------------
(* HostInv, action by action.                                              *)

LEMMA CheckEffectHost ==
  ASSUME OneHost, RegistryInv, HostInv, NEW h \in Hosts, NEW w \in Workers, CheckEffect(h, w)
  PROVE  HostInv'
<1>1. UNCHANGED journal /\ UNCHANGED <<disk, guard>> /\ task[h][w].pc = "check"
  BY DEF CheckEffect, files, At
<1>2. task[h][w].pc \in Started /\ "rollback" \in Started /\ "effect" \in Started
  BY <1>1 DEF Started, Forward, Undo
<1>3. disk[task[h][w].inst] = task[h][w].snap
  BY <1>1 DEF HostInv, TreeInv
<1>4. CASE Refused(h, w)
  BY <1>1, <1>4, SameJournal, QuitsHost
<1>5. CASE Continue(h, w, "rollback")
  BY <1>1, <1>2, <1>3, <1>5, ContinueHost DEF DiskMoves
<1>6. CASE Continue(h, w, "effect")
  BY <1>1, <1>2, <1>3, <1>6, ContinueHost DEF DiskMoves
<1> QED
  BY <1>4, <1>5, <1>6 DEF CheckEffect

LEMMA EffectHost ==
  ASSUME OneHost, RegistryInv, HostInv, NEW h \in Hosts, NEW w \in Workers, Effect(h, w)
  PROVE  HostInv'
<1> DEFINE t == task[h][w]
<1>1. /\ UNCHANGED journal /\ UNCHANGED guard
      /\ t.pc \in {"effect", "restoreEffect"} /\ PlaceInv(t) /\ FileType
  BY KnownTask DEF Effect, At
<1>2. t.pc \in Started /\ {"terminal", "rollback", "restore", "block"} \subseteq Started
  BY <1>1 DEF Started, Forward, Undo
<1>3. t.inst \in Installations /\ Writing(t)
  BY <1>1, <1>2 DEF PlaceInv, Located, Writing
<1>4. \E c : disk' = [disk EXCEPT ![t.inst] = c]
  BY DEF Effect
<1>5. DiskMoves(t)
  BY <1>1, <1>3, <1>4 DEF DiskMoves, FileType
<1>6. CASE disk' = [disk EXCEPT ![t.inst] = Target(t)]
           /\ Continue(h, w, IF t.pc = "effect" THEN "terminal" ELSE "rollback")
  <2>1. disk'[t.inst] = Target(t)
    BY <1>1, <1>3, <1>6 DEF FileType
  <2>2. CASE t.pc = "effect"
    BY <1>1, <1>2, <1>5, <1>6, <2>1, <2>2, ContinueHost DEF Target
  <2>3. CASE t.pc = "restoreEffect"
    BY <1>1, <1>2, <1>5, <1>6, <2>1, <2>3, ContinueHost DEF Target
  <2> QED
    BY <1>1, <2>2, <2>3
<1>7. CASE Continue(h, w, IF t.pc = "effect" THEN "restore" ELSE "block")
  BY <1>1, <1>2, <1>5, <1>7, ContinueHost
<1> QED
  BY <1>6, <1>7 DEF Effect

LEMMA RestoreHost ==
  ASSUME OneHost, RegistryInv, HostInv, NEW h \in Hosts, NEW w \in Workers, Restore(h, w)
  PROVE  HostInv'
<1>1. UNCHANGED journal /\ UNCHANGED <<disk, guard>> /\ task[h][w].pc = "restore"
  BY DEF Restore, files, At
<1>2. task[h][w].pc \in Started /\ "block" \in Started /\ "restoreEffect" \in Started
  BY <1>1 DEF Started, Forward, Undo
<1>3. Continue(h, w, "block") \/ Continue(h, w, "restoreEffect")
  BY DEF Restore
<1> QED
  BY <1>1, <1>2, <1>3, ContinueHost DEF DiskMoves

LEMMA PublishHost ==
  ASSUME OneHost, RegistryInv, HostInv, NEW h \in Hosts, NEW w \in Workers, Publish(h, w)
  PROVE  HostInv'
BY SameJournal, TellHost DEF Publish, Answered

LEMMA AppendFailsHost ==
  ASSUME OneHost, RegistryInv, HostInv, NEW h \in Hosts, NEW w \in Workers, AppendFails(h, w)
  PROVE  HostInv'
BY AppendErrorHost DEF AppendFails, files

LEMMA DisconnectHost ==
  ASSUME OneHost, RegistryInv, HostInv, NEW h \in Hosts, NEW w \in Workers, Disconnect(h, w)
  PROVE  HostInv'
<1>1. Refused(h, w) /\ UNCHANGED <<disk, guard>>
  BY DEF Disconnect, files
<1>2. JournalMoves(task[h][w])
  BY SameJournal, NoneAssumption, KnownTask DEF Disconnect, JournalMoves, Landing, JournalType
<1> QED
  BY <1>1, <1>2, QuitsHost

LEMMA DecideHost ==
  ASSUME OneHost, RegistryInv, HostInv, NEW h \in Hosts, NEW w \in Workers, Decide(h, w)
  PROVE  HostInv'
<1> DEFINE t == task[h][w]
           u == [t EXCEPT !.base = len, !.id = IF t.pc = "start" THEN len ELSE @]
<1>1. /\ UNCHANGED journal /\ UNCHANGED <<disk, guard>> /\ t.pc \in AppendPoints
      /\ t \in TaskStates /\ PlaceInv(t) /\ t.hydrate \in BOOLEAN
  BY KnownTask, TaskFields DEF Decide, files
<1>2. JournalMoves(task[h][w])
  BY <1>1, SameJournal
<1>3. CASE Refused(h, w) \/ Error(h, w) \/ RolledBack(h, w)
  BY <1>1, <1>2, <1>3, ErrorHost, QuitsHost
<1>4. CASE ReplayClaim(h, w, t.key, t.req)
  BY <1>1, <1>2, <1>4, TellHost DEF ReplayClaim
<1>5. CASE AppendError(h, w)
  BY <1>1, <1>5, AppendErrorHost
<1>6. CASE SetTask(h, w, u) /\ UNCHANGED <<phase, lifecycle, answer>>
  <2>1. /\ u.pc = t.pc /\ u.hydrate = t.hydrate /\ u.inst = t.inst /\ u.req = t.req
        /\ u.snap = t.snap /\ (t.pc # "start" => u.id = t.id)
    BY <1>1 DEF TaskStates
  <2> HIDE DEF u
  <2>2. t.pc \notin {"idle", "guard", "materialize"} /\ "start" \notin Started
    BY <1>1 DEF AppendPoints, Started, Forward, Undo
  <2>3. (Writing(u) <=> Writing(t)) /\ DiskMoves(t)
    BY <1>1, <2>1 DEF Writing, Located, DiskMoves
  <2>4. TreeInv(t)
    BY DEF HostInv
  <2>5. \A x : x = u => TreeInv(x)'
    <3> SUFFICES ASSUME NEW x, x = u PROVE TreeInv(x)'
      OBVIOUS
    <3>1. t.pc \in Started => Mine(x)'
      BY <1>1, <2>1, <2>2, <2>4 DEF TreeInv, Mine, journal
    <3>2. Target(x)' = Target(t)
      BY <2>1 DEF Target
    <3> QED
      BY <1>1, <2>1, <2>4, <3>1, <3>2 DEF TreeInv
  <2> QED
    BY <1>1, <1>2, <1>6, <2>1, <2>2, <2>3, <2>5, GoesOnHost
<1> QED
  BY <1>3, <1>4, <1>5, <1>6 DEF Decide

LEMMA AppendHost ==
  ASSUME OneHost, RegistryInv, HostInv, NEW h \in Hosts, NEW w \in Workers, Append(h, w)
  PROVE  HostInv'
<1> DEFINE t == task[h][w]
<1>k. /\ JournalType /\ JournalInv /\ t \in TaskStates /\ PlaceInv(t) /\ ReadInv(t)
      /\ t.hydrate \in BOOLEAN
  BY KnownTask, TaskFields
<1>p. t.base # None /\ t.pc \in AppendPoints
  BY <1>k DEF Append, PlaceInv
<1>f. UNCHANGED <<disk, guard>> /\ DiskMoves(t)
  BY DEF Append, files, DiskMoves
<1>t. TreeInv(t) /\ Writing(t) /\ t.pc \notin {"idle", "guard", "materialize"}
  BY <1>p DEF HostInv, Writing, Located, AppendPoints, Started, Forward, Undo
<1>1. CASE ~LandsAt(t)
  <2>1. UNCHANGED journal
    BY <1>1 DEF Append
  <2>2. JournalMoves(t) /\ pending' = pending
    BY <2>1, SameJournal DEF journal
  <2> DEFINE retry == [t EXCEPT !.base = None, !.tries = t.tries + 1]
             back == [t EXCEPT !.pc = "restore", !.base = None, !.tries = 0]
  <2>3. /\ Follows(retry, t) /\ retry.pc = t.pc /\ retry.tries = t.tries + 1
        /\ Follows(back, t) /\ back.pc = "restore"
    BY <1>k DEF TaskStates, Follows
  <2>4. CASE SetTask(h, w, retry) /\ UNCHANGED <<phase, lifecycle, answer>>
    <3> HIDE DEF retry
    <3>1. Writing(retry)
      BY <1>t, <2>3 DEF Writing, Located, Follows
    <3>2. \A x : x = retry => TreeInv(x)'
      <4> SUFFICES ASSUME NEW x, x = retry PROVE TreeInv(x)'
        OBVIOUS
      <4>1. Mine(x)' <=> Mine(t)
        BY <2>2, <2>3 DEF Mine, Follows
      <4>2. Target(x)' = Target(t)
        BY <2>3 DEF Target, Follows
      <4> QED
        BY <1>f, <1>t, <2>3, <4>1, <4>2 DEF TreeInv, Follows
    <3> QED
      BY <1>f, <1>t, <2>2, <2>3, <2>4, <3>1, <3>2, GoesOnHost DEF Follows
  <2>5. CASE SetTask(h, w, back) /\ UNCHANGED <<phase, lifecycle, answer>> /\ t.pc = "terminal"
    <3> HIDE DEF back
    <3>1. Writing(back)
      BY <2>3 DEF Writing, Located, Started, Undo
    <3>2. Mine(t)
      BY <1>t, <2>5 DEF TreeInv, Started, Forward
    <3>3. \A x : x = back => TreeInv(x)'
      BY <2>2, <2>3, <3>2 DEF TreeInv, Mine, Follows
    <3> QED
      BY <1>f, <1>t, <2>2, <2>3, <2>5, <3>1, <3>3, GoesOnHost DEF Follows
  <2>6. CASE Error(h, w)
    BY <1>k, <1>f, <2>2, <2>6, ErrorHost, QuitsHost
  <2> QED
    BY <1>1, <2>4, <2>5, <2>6 DEF Append
<1>2. CASE LandsAt(t)
  <2>1. t.base = len /\ Landed(h, w) /\ Landing(t)
    BY <1>p, <1>2 DEF Append, LandsAt, Landing
  <2>2. JournalMoves(t)
    BY <2>1 DEF JournalMoves
  <2> DEFINE on(p) == [t EXCEPT !.base = None, !.tries = 0, !.pc = p]
  <2>3. \A p \in Points : Follows(on(p), t) /\ on(p).pc = p
    BY <1>k DEF TaskStates, Follows
  <2>4. CASE t.pc = "start"
    <3> DEFINE u == on("check")
    <3>1. SetTask(h, w, u) /\ UNCHANGED <<phase, lifecycle, answer>>
      BY <2>1, <2>4, <1>k DEF Landed, IsNoop, TaskStates
    <3>2. Follows(u, t) /\ u.pc = "check"
      BY <2>3 DEF Points
    <3> HIDE DEF u
    <3>3. Writing(u)
      BY <3>2 DEF Writing, Located, Started, Forward
    <3>4. t.inst \in Installations /\ t.id \in Nat
      BY <1>k, <2>4, TaskFields DEF PlaceInv, Located
    <3>5. Replays(t)
      BY <1>k, <1>p, <2>1, <2>4, LandingFacts DEF Replays
    <3>6. Replay(t)
      BY <1>2, <3>5 DEF Append
    <3>7. pending'[t.inst] = [id |-> t.id, kind |-> Kind(t), prev |-> t.prev, snap |-> t.snap]
      BY <1>k, <1>p, <2>4, <3>4, <3>6, ReplayFields
    <3>8. pending'[t.inst].id = t.id /\ pending'[t.inst] # None
      <4>1. Kind(t) \in {"updating", "removing"}
        BY KindType
      <4>2. t.prev \in Views /\ t.snap \in Contents
        BY <1>k, <2>4 DEF PlaceInv
      <4>3. pending'[t.inst] \in PendingMutations
        BY <3>4, <3>7, <4>1, <4>2 DEF PendingMutations
      <4> QED
        BY <3>7, <4>3, NoneAssumption
    <3>9. \A x : x = u => TreeInv(x)'
      <4> SUFFICES ASSUME NEW x, x = u PROVE TreeInv(x)'
        OBVIOUS
      <4>1. pending'[x.inst] # None /\ pending'[x.inst].id = x.id
        BY <3>2, <3>8 DEF Follows
      <4>2. Mine(x)'
        BY <4>1 DEF Mine
      <4>3. disk'[x.inst] = x.snap
        BY <1>f, <1>t, <2>4, <3>2 DEF TreeInv, Follows
      <4> QED
        BY <3>2, <4>2, <4>3 DEF TreeInv
    <3> QED
      BY <1>f, <1>t, <2>2, <3>1, <3>2, <3>3, <3>9, GoesOnHost DEF Follows
  <2>5. CASE Answered(h, w, t.prev)
    BY <1>f, <2>2, <2>5, TellHost DEF Answered
  <2>6. CASE SetTask(h, w, on("publish")) /\ UNCHANGED <<phase, lifecycle, answer>>
    <3> DEFINE u == on("publish")
    <3>1. Follows(u, t) /\ u.pc = "publish"
      BY <2>3 DEF Points
    <3>2. SetTask(h, w, u)
      BY <2>6
    <3> HIDE DEF u
    <3>3. Writing(u)
      BY <3>1 DEF Writing, Located
    <3>4. \A x : x = u => TreeInv(x)'
      BY <3>1, RestingTree
    <3> QED
      BY <1>f, <1>t, <2>2, <2>6, <3>1, <3>2, <3>3, <3>4, GoesOnHost DEF Follows
  <2>7. CASE Error(h, w) \/ RolledBack(h, w)
    BY <1>k, <1>f, <2>2, <2>7, ErrorHost, QuitsHost
  <2>8. t.pc \in {"commit", "start", "terminal", "rollback", "block"}
    BY <1>p DEF AppendPoints
  <2>9. CASE t.pc \in {"commit", "terminal"}
    BY <1>k, <2>1, <2>5, <2>6, <2>9 DEF Landed, TaskStates
  <2>10. CASE t.pc \in {"rollback", "block"}
    BY <2>1, <2>7, <2>10 DEF Landed, IsNoop
  <2> QED
    BY <2>4, <2>8, <2>9, <2>10
<1> QED
  BY <1>1, <1>2

\* A task takes the lifecycle lock of an Installation that nobody has.
LEMMA LocksHost ==
  ASSUME OneHost, RegistryInv, HostInv, NEW h \in Hosts, NEW w \in Workers,
         UNCHANGED journal, UNCHANGED <<disk, guard, phase>>, ~Writing(task[h][w]),
         NEW i \in Installations, lifecycle[h][i] = None, Unread(h, i),
         lifecycle' = [lifecycle EXCEPT ![h][i] = w],
         NEW u, SetTask(h, w, u), Writing(u), u.inst = i, u.pc # "materialize", TreeInv(u)',
         u.hydrate = task[h][w].hydrate, phase[h] # "up" => u.hydrate
  PROVE  HostInv'
<1>1. CallType /\ FileType /\ JournalMoves(task[h][w]) /\ DiskMoves(task[h][w])
  BY KnownTask, SameJournal DEF DiskMoves
<1>2. /\ lifecycle'[h][i] = w
      /\ \A j \in Installations : j # i => lifecycle'[h][j] = lifecycle[h][j]
      /\ \A j \in Installations : lifecycle'[h][j] \in Workers \cup {None}
  BY <1>1 DEF CallType
<1>3. \A j \in Installations : lifecycle[h][j] # w
  BY DEF HostInv, LockInv
<1>4. LockInv'
  <2>1. \A j \in Installations : /\ lifecycle'[h][j] = w <=> Writing(u) /\ u.inst = j
                                 /\ lifecycle'[h][j] \in Workers \cup {None}
    BY <1>2, <1>3
  <2>2. \A v \in Workers \ {w}, j \in Installations :
           lifecycle'[h][j] = v <=> lifecycle[h][j] = v
    BY <1>2, NoneAssumption
  <2>3. \A j \in Installations : lifecycle'[h][j] = w => Unread(h, j)
    BY <1>2, <1>3
  <2>4. u.pc # "guard"
    BY DEF Writing
  <2> QED
    BY <2>1, <2>2, <2>3, <2>4, LockStep
<1>5. RecoveryInv'
  <2>1. phase[h] # "up" => \A j \in Installations : guard[h][j] = None
    BY DEF HostInv, RecoveryInv
  <2>2. u.hydrate => phase[h] = "hydrating"
    BY DEF HostInv, RecoveryInv
  <2> QED
    BY <1>1, <2>1, <2>2, RecoveryStep
<1>6. GuardPinsInstallation'
  BY <1>1, PinStep
<1>7. \A g \in Hosts, v \in Workers : TreeInv(task[g][v])'
  BY <1>1, TreeStep
<1> QED
  BY <1>4, <1>5, <1>6, <1>7 DEF HostInv

LEMMA SubmitHost ==
  ASSUME OneHost, RegistryInv, HostInv, NEW h \in Hosts, NEW w \in Workers, NEW key \in Keys,
         NEW r \in Requests, Submit(h, w, key, r)
  PROVE  HostInv'
<1>1. /\ JournalMoves(task[h][w]) /\ UNCHANGED journal /\ UNCHANGED <<disk, guard>>
      /\ DiskMoves(task[h][w])
  BY SameJournal DEF Submit, files, DiskMoves
<1>2. phase[h] = "up" /\ task[h][w].pc = "idle" /\ ~Writing(task[h][w])
  BY DEF Submit, At, Writing, Located, Started, Forward, Undo
<1>3. task[h][w].hydrate = FALSE
  BY <1>2, KnownTask, TaskFields DEF PlaceInv, Boots, Undo
<1>4. CASE claims[key] # None
  BY <1>1, <1>4, TellHost DEF Submit, ReplayClaim
<1>5. CASE claims[key] = None
  <2> DEFINE prev == IF r.op = "create" THEN None ELSE views[r.inst]
             t == [IdleTask EXCEPT !.pc = "prepare", !.key = key, !.req = r, !.inst = r.inst,
                                   !.prev = prev]
             u == IF t.prev # None /\ t.prev.status = "removed" THEN [t EXCEPT !.pc = "commit"] ELSE t
  <2>1. /\ SetTask(h, w, u) /\ Accepts(r)
        /\ lifecycle' = IF r.op = "create" THEN lifecycle ELSE [lifecycle EXCEPT ![h][r.inst] = w]
        /\ UNCHANGED <<phase, answer>>
    BY <1>5 DEF Submit
  <2>2. /\ u.pc \in {"prepare", "commit"} /\ u.req = r /\ u.inst = r.inst
        /\ u.hydrate = FALSE /\ u.snap = None
        /\ r.op = "create" => u.pc = "prepare"
    BY DEF IdleTask
  <2>3. r.op # "create" => r.inst \in Installations
    BY RequestFields
  <2>4. r.op # "create" => lifecycle[h][r.inst] = None /\ Unread(h, r.inst)
    BY DEF Submit, Unwritten
  <2> HIDE DEF u, t, prev
  <2>5. \A x : x = u => TreeInv(x)'
    BY <2>2 DEF TreeInv, Started, Forward, Undo
  <2>6. CASE r.op = "create"
    <3>1. ~Writing(u)
      BY <2>2, <2>6 DEF Writing, Located, Started, Forward, Undo
    <3> QED
      BY <1>1, <1>2, <1>3, <2>1, <2>2, <2>5, <2>6, <3>1, GoesOnHost
  <2>7. CASE r.op # "create"
    <3>1. Writing(u)
      BY <2>2, <2>7 DEF Writing, Located
    <3> QED
      BY <1>1, <1>2, <1>3, <2>1, <2>2, <2>3, <2>4, <2>5, <2>7, <3>1, LocksHost
  <2> QED
    BY <2>6, <2>7
<1> QED
  BY <1>4, <1>5

\* Nobody has a lock on, or a guard of, an identity that is being allocated.
LEMMA FreshIsFree ==
  ASSUME RegistryInv, HostInv, NEW h \in Hosts, NEW i \in Installations, Fresh(i)
  PROVE  lifecycle[h][i] = None /\ Unread(h, i)
<1>1. \A w \in Workers : lifecycle[h][i] # w
  BY DEF HostInv, LockInv, Fresh
<1>2. lifecycle[h][i] \in Workers \cup {None}
  BY TypeParts DEF RegistryInv, CallType
<1>3. guard[h][i] = None
  BY DEF HostInv, GuardPinsInstallation, Fresh
<1> QED
  BY <1>1, <1>2, <1>3 DEF Unread, Fresh

LEMMA PrepareHost ==
  ASSUME OneHost, RegistryInv, HostInv, NEW h \in Hosts, NEW w \in Workers, Prepare(h, w)
  PROVE  HostInv'
<1> DEFINE t == task[h][w]
<1>1. /\ JournalMoves(t) /\ UNCHANGED journal /\ UNCHANGED <<disk, guard>> /\ DiskMoves(t)
      /\ t.pc = "prepare" /\ t.base = None
  BY SameJournal DEF Prepare, files, DiskMoves, At
<1>2. t \in TaskStates /\ PlaceInv(t) /\ t.hydrate = FALSE
  BY <1>1, KnownTask, TaskFields DEF PlaceInv, Boots, Undo
<1>3. phase[h] = "up"
  BY <1>1, <1>2 DEF HostInv, RecoveryInv
<1>4. CASE Refused(h, w)
  BY <1>1, <1>4, QuitsHost
<1>5. ASSUME NEW i \in Installations, NEW old \in BOOLEAN, NEW s,
             s = IF t.inst = None THEN None ELSE Snapshot(t),
             t.req.op # "create" => i = t.inst,
             SetTask(h, w, [t EXCEPT !.pc = IF t.req.op \in Staged THEN "start" ELSE "commit",
                                     !.inst = i, !.stale = old, !.snap = s]),
             \/ t.req.op = "create" /\ Fresh(i) /\ lifecycle' = [lifecycle EXCEPT ![h][i] = w]
             \/ t.req.op # "create" /\ lifecycle' = lifecycle,
             UNCHANGED <<phase, answer>>
      PROVE  HostInv'
  <2> DEFINE u == [t EXCEPT !.pc = IF t.req.op \in Staged THEN "start" ELSE "commit",
                            !.inst = i, !.stale = old, !.snap = s]
  <2>1. /\ u.pc = IF t.req.op \in Staged THEN "start" ELSE "commit"
        /\ u.inst = i /\ u.snap = s /\ u.hydrate = FALSE /\ u.req = t.req
    BY <1>2 DEF TaskStates
  <2>2. SetTask(h, w, u)
    BY <1>5
  <2> HIDE DEF u
  <2>3. Writing(u) /\ u.pc \in {"start", "commit"}
    BY <2>1 DEF Writing, Located
  <2>4. \A x : x = u => TreeInv(x)'
    <3>1. s \in {None, disk[i]} /\ (t.req.op \in Staged => s = disk[i])
      <4>1. t.req.op \in Staged => t.req.op # "create" /\ t.inst # None
        BY <1>1, <1>2, NoneAssumption DEF PlaceInv, Located, Staged
      <4>2. t.req.op = "create" => s = None
        BY <1>5 DEF Snapshot
      <4> QED
        BY <1>5, <4>1, <4>2 DEF Snapshot, Staged
    <3> QED
      BY <1>1, <2>1, <2>3, <3>1 DEF TreeInv, Started, Forward, Undo
  <2>5. CASE t.req.op = "create"
    <3>1. ~Writing(t)
      BY <1>1, <2>5 DEF Writing, Located, Started, Forward, Undo
    <3>2. lifecycle[h][i] = None /\ Unread(h, i)
      BY <1>5, <2>5, FreshIsFree
    <3> QED
      BY <1>1, <1>2, <1>3, <1>5, <2>1, <2>2, <2>3, <2>4, <2>5, <3>1, <3>2, LocksHost
  <2>6. CASE t.req.op # "create"
    <3>1. Writing(t)
      BY <1>1, <2>6 DEF Writing, Located
    <3> QED
      BY <1>1, <1>2, <1>5, <2>1, <2>2, <2>3, <2>4, <2>6, <3>1, GoesOnHost
  <2> QED
    BY <2>5, <2>6
<1>6. CASE t.req.op = "create" /\ ~Refused(h, w)
  BY <1>5, <1>6 DEF Prepare
<1>7. CASE t.req.op # "create" /\ ~Refused(h, w)
  <2>1. t.inst \in Installations
    BY <1>1, <1>2, <1>7 DEF PlaceInv, Located
  <2> QED
    BY <1>5, <1>7, <2>1 DEF Prepare
<1> QED
  BY <1>4, <1>6, <1>7

LEMMA RecoverHost ==
  ASSUME OneHost, RegistryInv, HostInv, NEW h \in Hosts, NEW w \in Workers, Recover(h, w)
  PROVE  HostInv'
<1> DEFINE t == task[h][w]
<1>1. /\ UNCHANGED journal /\ UNCHANGED <<disk, guard, phase>> /\ DiskMoves(t) /\ JournalMoves(t)
      /\ t.pc = "recover"
  BY SameJournal DEF Recover, files, DiskMoves, At
<1>2. t \in TaskStates /\ t.hydrate = TRUE
  BY <1>1, KnownTask, TaskFields DEF PlaceInv, Boots
<1>3. ~Writing(t)
  BY <1>1 DEF Writing, Located, Started, Forward, Undo
<1>4. ASSUME NEW i \in Installations, pending[i] # None,
             SetTask(h, w, [IdleTask EXCEPT !.pc = "restore", !.hydrate = TRUE, !.inst = i,
                               !.prev = pending[i].prev, !.snap = pending[i].snap,
                               !.id = pending[i].id]),
             lifecycle' = [lifecycle EXCEPT ![h][i] = w]
      PROVE  HostInv'
  <2> DEFINE u == [IdleTask EXCEPT !.pc = "restore", !.hydrate = TRUE, !.inst = i,
                               !.prev = pending[i].prev, !.snap = pending[i].snap,
                               !.id = pending[i].id]
  <2>1. u.pc = "restore" /\ u.hydrate = TRUE /\ u.inst = i /\ u.id = pending[i].id
    BY DEF IdleTask
  <2>2. SetTask(h, w, u)
    BY <1>4
  <2> HIDE DEF u
  <2>3. Writing(u)
    BY <2>1 DEF Writing, Located, Started, Undo
  <2>4. \A x : x = u => TreeInv(x)'
    BY <1>1, <1>4, <2>1 DEF TreeInv, Mine, journal
  <2>5. /\ \A v \in Workers : v # w => task[h][v].pc = "idle"
        /\ guard[h][i] = None
    BY <1>2 DEF HostInv, RecoveryInv
  <2>6. Unread(h, i)
    BY <1>1, <2>5 DEF Unread
  <2>7. lifecycle[h][i] = None
    <3>1. lifecycle[h][i] \in Workers \cup {None}
      BY TypeParts DEF RegistryInv, CallType
    <3>2. \A v \in Workers : ~Writing(task[h][v])
      BY <1>3, <2>5 DEF Writing, Located, Started, Forward, Undo
    <3> QED
      BY <3>1, <3>2 DEF HostInv, LockInv
  <2> QED
    BY <1>1, <1>2, <1>3, <1>4, <2>1, <2>2, <2>3, <2>4, <2>6, <2>7, LocksHost
<1>5. CASE (\A i \in Installations : pending[i] = None) /\ Goto(h, w, "materialize")
           /\ UNCHANGED lifecycle
  <2> DEFINE u == [t EXCEPT !.pc = "materialize", !.tries = 0]
  <2>1. Follows(u, t) /\ u.pc = "materialize"
    BY <1>2, GotoFields DEF Points
  <2>2. SetTask(h, w, u)
    BY <1>5 DEF Goto
  <2> HIDE DEF u
  <2>3. ~Writing(u)
    BY <2>1 DEF Writing, Located, Started, Forward, Undo
  <2>4. \A x : x = u => TreeInv(x)'
    BY <2>1, RestingTree DEF Boots
  <2>5. \A i \in Installations : pending'[i] = None
    BY <1>1, <1>5 DEF journal
  <2> QED
    BY <1>1, <1>3, <1>5, <2>1, <2>2, <2>3, <2>4, <2>5, GoesOnHost DEF Follows
<1> QED
  BY <1>4, <1>5 DEF Recover

LEMMA MaterializeHost ==
  ASSUME OneHost, RegistryInv, HostInv, NEW h \in Hosts, NEW w \in Workers, Materialize(h, w)
  PROVE  HostInv'
<1>1. /\ JournalMoves(task[h][w]) /\ UNCHANGED <<disk, guard>> /\ task[h][w].pc = "materialize"
      /\ DiskMoves(task[h][w])
  BY SameJournal DEF Materialize, At, DiskMoves
<1>2. task[h][w].hydrate /\ CallType /\ ~Writing(task[h][w])
  BY <1>1, KnownTask DEF PlaceInv, Boots, Writing, Located, Started, Forward, Undo
<1>3. CASE BootFails(h, w)
  BY <1>1, <1>2, <1>3, QuitsHost DEF Quits
<1>4. CASE phase' = [phase EXCEPT ![h] = "up"] /\ SetTask(h, w, IdleTask) /\ lifecycle' = lifecycle
  <2>1. ~Writing(IdleTask) /\ TreeInv(IdleTask)' /\ IdleTask.pc = "idle" /\ ~IdleTask.hydrate
    BY IdleFields, RestingTree DEF Writing, Located, Started, Forward, Undo
  <2>2. LockInv'
    <3>1. \A i \in Installations : /\ lifecycle'[h][i] = w <=> Writing(IdleTask) /\ IdleTask.inst = i
                                   /\ lifecycle'[h][i] \in Workers \cup {None}
      BY <1>2, <1>4, <2>1 DEF HostInv, LockInv, CallType
    <3> QED
      BY <1>1, <1>4, <2>1, <3>1, LockStep
  <2>3. RecoveryInv'
    <3>1. \A v \in Workers \ {w} : task[h][v].pc = "idle"
      BY <1>2 DEF HostInv, RecoveryInv
    <3>2. phase'[h] = "up"
      BY <1>2, <1>4 DEF CallType
    <3> QED
      BY <1>1, <1>4, <2>1, <3>1, <3>2, RecoveryStep
  <2>4. GuardPinsInstallation'
    BY <1>1, PinStep
  <2>5. \A g \in Hosts, v \in Workers : TreeInv(task[g][v])'
    BY <1>1, <1>4, <2>1, TreeStep
  <2> QED
    BY <2>2, <2>3, <2>4, <2>5 DEF HostInv
<1> QED
  BY <1>3, <1>4 DEF Materialize

LEMMA BootHost ==
  ASSUME OneHost, RegistryInv, HostInv, NEW h \in Hosts, NEW w \in Workers, Boot(h, w)
  PROVE  HostInv'
<1>1. /\ JournalMoves(task[h][w]) /\ UNCHANGED <<disk, guard, lifecycle>> /\ task[h][w].pc = "idle"
      /\ DiskMoves(task[h][w]) /\ SetTask(h, w, RecoverTask) /\ phase[h] = "down"
      /\ phase' = [phase EXCEPT ![h] = "hydrating"]
      /\ \A v \in Workers : task[h][v].pc = "idle"
  BY SameJournal DEF Boot, At, files, DiskMoves, RecoverTask
<1>2. CallType /\ ~Writing(task[h][w])
  BY <1>1, KnownTask DEF Writing, Located, Started, Forward, Undo
<1>3. /\ ~Writing(RecoverTask) /\ TreeInv(RecoverTask)'
      /\ RecoverTask.pc = "recover" /\ RecoverTask.hydrate
  BY RecoverFields, RestingTree DEF Writing, Located, Started, Forward, Undo, Boots
<1>4. LockInv'
  <2>1. \A i \in Installations : /\ lifecycle'[h][i] = w <=> Writing(RecoverTask) /\ RecoverTask.inst = i
                                 /\ lifecycle'[h][i] \in Workers \cup {None}
    BY <1>1, <1>2, <1>3 DEF HostInv, LockInv, CallType
  <2> QED
    BY <1>1, <1>3, <2>1, LockStep
<1>5. RecoveryInv'
  <2>1. phase'[h] = "hydrating" /\ \A i \in Installations : guard'[h][i] = None
    BY <1>1, <1>2 DEF CallType, HostInv, RecoveryInv
  <2> QED
    BY <1>1, <1>3, <2>1, RecoveryStep
<1>6. GuardPinsInstallation'
  BY <1>1, PinStep
<1>7. \A g \in Hosts, v \in Workers : TreeInv(task[g][v])'
  BY <1>1, <1>3, TreeStep
<1> QED
  BY <1>4, <1>5, <1>6, <1>7 DEF HostInv

LEMMA GuardBeginHost ==
  ASSUME OneHost, RegistryInv, HostInv, NEW h \in Hosts, NEW w \in Workers,
         NEW i \in Installations, GuardBegin(h, w, i)
  PROVE  HostInv'
<1> DEFINE u == [IdleTask EXCEPT !.pc = "guard", !.inst = i, !.prev = views[i]]
<1>1. /\ JournalMoves(task[h][w]) /\ UNCHANGED <<disk, phase, lifecycle, guard>>
      /\ DiskMoves(task[h][w]) /\ task[h][w].pc = "idle" /\ phase[h] = "up"
      /\ lifecycle[h][i] = None /\ SetTask(h, w, u)
  BY SameJournal DEF GuardBegin, At, files, DiskMoves, Unwritten
<1>2. u.pc = "guard" /\ u.inst = i /\ u.hydrate = FALSE
  BY DEF IdleTask
<1> HIDE DEF u
<1>3. task[h][w].hydrate = FALSE
  BY <1>1, KnownTask, TaskFields DEF PlaceInv, Boots, Undo
<1>4. ~Writing(u) /\ ~Writing(task[h][w])
  BY <1>1, <1>2 DEF Writing, Located, Started, Forward, Undo
<1>5. \A x : x = u => TreeInv(x)'
  BY <1>2, RestingTree
<1> QED
  BY <1>1, <1>2, <1>3, <1>4, <1>5, GoesOnHost

\* The guard is taken after the last look at the view.
LEMMA GuardHeldHost ==
  ASSUME OneHost, RegistryInv, HostInv, NEW h \in Hosts, NEW w \in Workers, GuardHeld(h, w)
  PROVE  HostInv'
<1> DEFINE t == task[h][w]
<1>1. /\ JournalMoves(t) /\ UNCHANGED <<disk, phase, lifecycle, views>> /\ DiskMoves(t)
      /\ t.pc = "guard" /\ SetTask(h, w, IdleTask)
      /\ guard' = IF owner = h /\ views[t.inst] = t.prev
                  THEN [guard EXCEPT ![h][t.inst] = t.prev] ELSE guard
  BY SameJournal DEF GuardHeld, At, files, DiskMoves, journal
<1>2. t.inst \in Installations /\ ~t.hydrate /\ FileType /\ CallType
  BY <1>1, KnownTask DEF PlaceInv, Located, Boots, Undo
<1>3. phase[h] = "up" /\ lifecycle[h][t.inst] = None
  BY <1>1, <1>2, GuardedUnwritten DEF HostInv, RecoveryInv
<1>4. \A i \in Installations : /\ guard'[h][i] \in {guard[h][i], views[i]}
                               /\ guard'[h][i] # guard[h][i] => i = t.inst
  BY <1>1, <1>2 DEF FileType
<1>5. /\ ~Writing(t) /\ ~Writing(IdleTask) /\ TreeInv(IdleTask)' /\ IdleTask.pc = "idle"
      /\ ~IdleTask.hydrate
  BY <1>1, IdleFields, RestingTree DEF Writing, Located, Started, Forward, Undo
<1>6. LockInv'
  <2>1. \A i \in Installations : /\ lifecycle'[h][i] = w <=> Writing(IdleTask) /\ IdleTask.inst = i
                                 /\ lifecycle'[h][i] \in Workers \cup {None}
    BY <1>1, <1>2, <1>5 DEF HostInv, LockInv, CallType
  <2>2. \A i \in Installations : guard'[h][i] # None => guard[h][i] # None \/ lifecycle'[h][i] = None
    BY <1>1, <1>3, <1>4
  <2> QED
    BY <1>1, <1>5, <2>1, <2>2, LockStep
<1>7. RecoveryInv'
  BY <1>1, <1>3, <1>5, RecoveryStep
<1>8. GuardPinsInstallation'
  BY <1>1, <1>4, PinStep
<1>9. \A g \in Hosts, v \in Workers : TreeInv(task[g][v])'
  BY <1>1, <1>5, TreeStep
<1> QED
  BY <1>6, <1>7, <1>8, <1>9 DEF HostInv

LEMMA GuardReleaseHost ==
  ASSUME RegistryInv, HostInv, NEW h \in Hosts, NEW i \in Installations, GuardRelease(h, i)
  PROVE  HostInv'
<1>1. /\ UNCHANGED <<views, pending, disk, phase, lifecycle, task>> /\ FileType
      /\ guard' = [guard EXCEPT ![h][i] = None]
  BY TypeParts DEF GuardRelease, journal, files, RegistryInv
<1>2. \A g \in Hosts, j \in Installations : guard'[g][j] \in {guard[g][j], None}
  BY <1>1 DEF FileType
<1>3. \A g \in Hosts, j \in Installations : Unread(g, j) => Unread(g, j)'
  BY <1>1, <1>2 DEF Unread
<1>4. LockInv'
  BY <1>1, <1>3 DEF HostInv, LockInv, Writing, Located
<1>5. RecoveryInv'
  BY <1>1, <1>2 DEF HostInv, RecoveryInv
<1>6. GuardPinsInstallation'
  BY <1>1, <1>2 DEF HostInv, GuardPinsInstallation
<1>7. \A g \in Hosts, v \in Workers : TreeInv(task[g][v])'
  BY <1>1 DEF HostInv, TreeInv, Mine, Target
<1> QED
  BY <1>4, <1>5, <1>6, <1>7 DEF HostInv

\* A Run writes the tree of no Installation that a mutation is staged on.
LEMMA RunWritesHost ==
  ASSUME OneHost, RegistryInv, HostInv, NEW h \in Hosts, NEW i \in Installations, RunWrites(h, i)
  PROVE  HostInv'
<1>1. /\ UNCHANGED <<views, pending, phase, lifecycle, guard, task>> /\ FileType
      /\ \A j \in Installations : j # i => disk'[j] = disk[j]
      /\ guard[h][i] # None
  BY TypeParts DEF RunWrites, journal, memory, RegistryInv, FileType
<1>2. LockInv'
  BY <1>1 DEF HostInv, LockInv, Writing, Located, Unread
<1>3. RecoveryInv'
  BY <1>1 DEF HostInv, RecoveryInv
<1>4. GuardPinsInstallation'
  BY <1>1 DEF HostInv, GuardPinsInstallation
<1>5. ASSUME NEW g \in Hosts, NEW v \in Workers PROVE TreeInv(task[g][v])'
  <2>1. \A s : s = task[g][v] => /\ PlaceInv(s) /\ TreeInv(s)
                                 /\ (Writing(s) => s.inst \in Installations)
    BY KnownTask DEF HostInv, PlaceInv, Writing
  <2>2. Writing(task[g][v]) => task[g][v].inst # i
    BY <1>1, GuardedUnwritten DEF OneHost
  <2>3. \A s : s = task[g][v] => TreeInv(s)'
    BY <1>1, <2>1, <2>2, TreeInvDepends
  <2> QED
    BY <1>1, <2>3
<1> QED
  BY <1>2, <1>3, <1>4, <1>5 DEF HostInv

LEMMA CrashHost ==
  ASSUME OneHost, RegistryInv, HostInv, NEW h \in Hosts, Crash(h)
  PROVE  HostInv'
<1>1. /\ FileType /\ CallType /\ TaskType
      /\ phase' = [phase EXCEPT ![h] = "down"]
      /\ lifecycle' = [lifecycle EXCEPT ![h] = [i \in Installations |-> None]]
      /\ guard' = [guard EXCEPT ![h] = [i \in Installations |-> None]]
      /\ task' = [task EXCEPT ![h] = [w \in Workers |-> IdleTask]]
  BY TypeParts DEF Crash, RegistryInv
<1>2. \A g \in Hosts : g = h
  BY DEF OneHost
<1>3. /\ phase'[h] = "down"
      /\ \A i \in Installations : lifecycle'[h][i] = None /\ guard'[h][i] = None
      /\ \A w \in Workers : task'[h][w] = IdleTask
  BY <1>1 DEF FileType, CallType, TaskType
<1>4. /\ ~Writing(IdleTask) /\ TreeInv(IdleTask)' /\ IdleTask.pc = "idle" /\ ~IdleTask.hydrate
  BY IdleFields, RestingTree DEF Writing, Located, Started, Forward, Undo
<1>5. LockInv'
  BY <1>2, <1>3, <1>4, NoneAssumption DEF LockInv
<1>6. RecoveryInv'
  BY <1>2, <1>3, <1>4 DEF RecoveryInv
<1>7. GuardPinsInstallation'
  BY <1>2, <1>3 DEF GuardPinsInstallation
<1>8. \A g \in Hosts, v \in Workers : TreeInv(task[g][v])'
  BY <1>2, <1>3, <1>4
<1> QED
  BY <1>5, <1>6, <1>7, <1>8 DEF HostInv

LEMMA HostInit == Init => HostInv
<1> SUFFICES ASSUME Init PROVE HostInv
  OBVIOUS
<1>1. \A h \in Hosts, i \in Installations :
        guard[h][i] = None /\ lifecycle[h][i] = None /\ phase[h] = "down"
  BY DEF Init
<1>2. \A h \in Hosts, w \in Workers :
        task[h][w] = IdleTask /\ task[h][w].pc = "idle" /\ ~task[h][w].hydrate
  BY IdleFields DEF Init
<1>3. LockInv
  BY <1>1, <1>2, NoneAssumption
  DEF LockInv, Unread, Writing, Located, Started, Forward, Undo
<1>4. RecoveryInv /\ GuardPinsInstallation
  BY <1>1, <1>2 DEF RecoveryInv, GuardPinsInstallation
<1>5. \A h \in Hosts, w \in Workers : TreeInv(task[h][w])
  BY <1>2 DEF TreeInv, Started, Forward, Undo
<1> QED
  BY <1>3, <1>4, <1>5 DEF HostInv

LEMMA HostNext ==
  ASSUME OneHost
  PROVE  RegistryInv /\ HostInv /\ [Next]_vars => HostInv'
<1> SUFFICES ASSUME RegistryInv, HostInv, [Next]_vars PROVE HostInv'
  OBVIOUS
<1>1. CASE UNCHANGED vars
  BY <1>1 DEF vars, HostInv, LockInv, RecoveryInv, GuardPinsInstallation, TreeInv, Unread,
              Writing, Located, Mine, Target
<1>2. ASSUME NEW h \in Hosts, NEW w \in Workers,
             \/ Step(h, w) \/ AppendFails(h, w) \/ Disconnect(h, w) \/ Boot(h, w)
      PROVE  HostInv'
  BY <1>2, PrepareHost, DecideHost, AppendHost, CheckEffectHost, EffectHost, RestoreHost,
     PublishHost, GuardHeldHost, RecoverHost, MaterializeHost, AppendFailsHost, DisconnectHost,
     BootHost DEF Step
<1>3. ASSUME NEW h \in Hosts, NEW w \in Workers, NEW key \in Keys, NEW r \in Requests,
             Submit(h, w, key, r)
      PROVE  HostInv'
  BY <1>3, SubmitHost
<1>4. ASSUME NEW h \in Hosts, NEW w \in Workers, NEW i \in Installations,
             GuardBegin(h, w, i) \/ GuardRelease(h, i) \/ RunWrites(h, i)
      PROVE  HostInv'
  BY <1>4, GuardBeginHost, GuardReleaseHost, RunWritesHost
<1>5. ASSUME NEW h \in Hosts, NEW i \in Installations, GuardRelease(h, i) \/ RunWrites(h, i)
      PROVE  HostInv'
  BY <1>5, GuardReleaseHost, RunWritesHost
<1>6. ASSUME NEW h \in Hosts, Crash(h) PROVE HostInv'
  BY <1>6, CrashHost
<1> QED
  BY <1>1, <1>2, <1>3, <1>4, <1>5, <1>6 DEF Next

\* Under one Host, while a Run or a secret store holds its guard the Installation
\* stays at the revision it was verified for: no create, update, remove, rollback
\* or recovery gets between the last look at the view and the release
\* (acquire_ready_for_run_inner, the lifecycle lock).
THEOREM GuardsPinInstallations ==
  ASSUME OneHost
  PROVE  Spec => []GuardPinsInstallation
<1>1. HostInv => GuardPinsInstallation
  BY DEF HostInv
<1> QED
  BY <1>1, RegistryInit, RegistryNext, HostInit, HostNext, PTL DEF Spec

-----------------------------------------------------------------------------
(* What a hydrated Host serves.                                            *)

\* Only the end of hydrate makes a Host serve.
LEMMA OnlyMaterializeServes ==
  ASSUME RegistryInv, [Next]_vars, NEW g \in Hosts, phase[g] = "hydrating", phase'[g] = "up"
  PROVE  \E w \in Workers : Materialize(g, w) /\ ~BootFails(g, w)
<1>1. CallType
  BY TypeParts DEF RegistryInv
<1>2. \A h \in Hosts, w \in Workers : ~Quits(h, w)
  <2> SUFFICES ASSUME NEW h \in Hosts, NEW w \in Workers, Quits(h, w) PROVE FALSE
    OBVIOUS
  <2>1. phase' = phase \/ phase' = [phase EXCEPT ![h] = "down"]
    BY DEF Quits, Refused, BootFails, RecoverNext
  <2> QED
    BY <1>1, <2>1 DEF CallType
<1>3. \A h \in Hosts, w \in Workers : /\ ~Refused(h, w) /\ ~Error(h, w) /\ ~RolledBack(h, w)
                                      /\ ~BootFails(h, w)
  BY <1>2, ErrorQuits, RolledBackQuits DEF Quits
<1>4. /\ \A h, w, p : ~Continue(h, w, p)
      /\ \A h, w, k, r : ~ReplayClaim(h, w, k, r)
      /\ \A h, w, v : ~Answered(h, w, v)
  BY DEF Continue, ReplayClaim, Answered
<1>5. \A h \in Hosts, w \in Workers : ~AppendError(h, w)
  BY <1>3, <1>4 DEF AppendError
<1>6. ASSUME NEW h \in Hosts, NEW w \in Workers PROVE ~Prepare(h, w) /\ ~Decide(h, w)
  BY <1>3, <1>4, <1>5 DEF Prepare, Decide
<1>7. ASSUME NEW h \in Hosts, NEW w \in Workers PROVE ~Append(h, w)
  <2> SUFFICES ASSUME Append(h, w) PROVE FALSE
    OBVIOUS
  <2>1. LandsAt(task[h][w]) => Landed(h, w)
    BY DEF Append
  <2>2. ~Landed(h, w)
    <3>1. task[h][w].base # None /\ task[h][w].pc \in AppendPoints
      BY KnownTask DEF Append, PlaceInv
    <3> QED
      BY <1>3, <1>4, <3>1 DEF Landed, AppendPoints
  <2> QED
    BY <1>3, <2>1, <2>2 DEF Append
<1>8. ASSUME NEW h \in Hosts, NEW w \in Workers
      PROVE  ~CheckEffect(h, w) /\ ~Effect(h, w) /\ ~Restore(h, w) /\ ~Publish(h, w)
  BY <1>3, <1>4 DEF CheckEffect, Effect, Restore, Publish
<1>9. ASSUME NEW h \in Hosts, NEW w \in Workers
      PROVE  ~GuardHeld(h, w) /\ ~Recover(h, w) /\ ~AppendFails(h, w) /\ ~Disconnect(h, w)
  BY <1>3, <1>5 DEF GuardHeld, Recover, AppendFails, Disconnect
<1>10. ASSUME NEW h \in Hosts, NEW w \in Workers PROVE ~Boot(h, w)
  BY <1>1 DEF Boot, CallType
<1>11. \A h, w, k, r : ~Submit(h, w, k, r)
  BY <1>4 DEF Submit
<1>12. /\ \A h, w, i : ~GuardBegin(h, w, i)
       /\ \A h, i : ~GuardRelease(h, i) /\ ~RunWrites(h, i)
  BY DEF GuardBegin, GuardRelease, RunWrites, memory
<1>13. \A h \in Hosts : ~Crash(h)
  BY <1>1 DEF Crash, CallType
<1>14. PICK h \in Hosts, w \in Workers : Materialize(h, w)
  <2>1. ~UNCHANGED vars
    BY DEF vars
  <2>2. Next
    BY <2>1
  <2> QED
    BY <2>2, <1>6, <1>7, <1>8, <1>9, <1>10, <1>11, <1>12, <1>13 DEF Next, Step
<1>15. phase' = [phase EXCEPT ![h] = "up"]
  BY <1>3, <1>14 DEF Materialize
<1>16. h = g
  BY <1>1, <1>15 DEF CallType
<1> QED
  BY <1>3, <1>14, <1>16

\* Under one Host, a Host that has hydrated serves no half-done mutation, and
\* every installation.json it leaves behind is that of the committed revision:
\* recover_pending has resolved every pending mutation before the projections
\* are rewritten, and no other task of the Host runs in between (hydrate).
THEOREM HydrationRepairs ==
  ASSUME OneHost
  PROVE  Spec => HydratedIsRepaired
<1>1. RegistryInv /\ HostInv /\ [Next]_vars =>
        [\A h \in Hosts : phase[h] = "hydrating" /\ phase'[h] = "up" =>
           \A i \in Installations :
             /\ pending'[i] = None
             /\ views'[i] # None => projected'[i] = views'[i].rev]_vars
  <2> SUFFICES ASSUME RegistryInv, HostInv, [Next]_vars, NEW h \in Hosts,
                      phase[h] = "hydrating", phase'[h] = "up", NEW i \in Installations
               PROVE  /\ pending'[i] = None
                      /\ views'[i] # None => projected'[i] = views'[i].rev
    OBVIOUS
  <2>1. PICK w \in Workers : Materialize(h, w) /\ ~BootFails(h, w)
    BY OnlyMaterializeServes
  <2>2. /\ task[h][w].pc = "materialize" /\ UNCHANGED <<views, pending>>
        /\ projected' = [j \in Installations |->
                           IF views[j] = None THEN projected[j] ELSE views[j].rev]
    BY <2>1 DEF Materialize, At, journal
  <2>3. pending[i] = None
    BY <2>2 DEF HostInv, RecoveryInv
  <2> QED
    BY <2>2, <2>3
<1> QED
  BY <1>1, RegistryInit, RegistryNext, HostInit, HostNext, PTL DEF Spec, HydratedIsRepaired

-----------------------------------------------------------------------------
(* The registry implements the ledger.                                     *)

LEMMA LedgerStutters ==
  ASSUME UNCHANGED <<claims, guard>>,
         \A i \in Installations :
           /\ Installed'[i] = Installed[i] /\ StateTree'[i] = StateTree[i]
  PROVE  UNCHANGED Ledger!ledgerVars
<1>1. Installed' = Installed
  BY DEF Installed
<1>2. StateTree' = StateTree
  BY DEF StateTree
<1>3. ClaimMap' = ClaimMap /\ Running' = Running
  BY DEF ClaimMap, Running
<1> QED
  BY <1>1, <1>2, <1>3 DEF Ledger!ledgerVars

\* Files of an Installation under a staged mutation are not yet its state.
LEMMA HiddenStutters ==
  ASSUME UNCHANGED <<views, pending, claims, guard>>,
         \A i \in Installations : disk'[i] = disk[i] \/ pending[i] # None
  PROVE  UNCHANGED Ledger!ledgerVars
<1>1. \A i \in Installations : Installed'[i] = Installed[i]
  BY DEF Installed
<1>2. \A i \in Installations : StateTree'[i] = StateTree[i]
  BY DEF StateTree
<1> QED
  BY <1>1, <1>2, LedgerStutters

\* A claim of the journal is one of the ledger.
LEMMA LedgerClaims ==
  ASSUME JournalType, NEW k \in Keys, claims[k] = None, NEW c \in Claims,
         claims' = [claims EXCEPT ![k] = c]
  PROVE  Ledger!Claim(c.inst, c.view)
<1>1. claims'[k] = c /\ c # None /\ \A j \in Keys : j # k => claims'[j] = claims[j]
  BY NoneAssumption DEF JournalType
<1>2. ClaimMap' = [ClaimMap EXCEPT ![k] = [inst |-> c.inst, view |-> c.view]]
  <2>1. ClaimMap'[k] = [inst |-> c.inst, view |-> c.view]
    BY <1>1 DEF ClaimMap
  <2>2. \A j \in Keys : j # k => ClaimMap'[j] = ClaimMap[j]
    BY <1>1 DEF ClaimMap
  <2>3. /\ ClaimMap = [j \in Keys |-> ClaimMap[j]]
        /\ ClaimMap' = [j \in Keys |-> ClaimMap'[j]]
    BY DEF ClaimMap
  <2> HIDE DEF ClaimMap
  <2> QED
    BY <2>1, <2>2, <2>3
<1>3. ClaimMap[k] = None
  BY DEF ClaimMap
<1> QED
  BY <1>2, <1>3 DEF Ledger!Claim

\* A mutation takes view p and state tree s to v and c: it creates, updates,
\* removes or changes nothing.
Mutation(p, s, v, c) ==
  \/ p = None /\ v = NewView /\ c = s
  \/ /\ p # None /\ p.status = "ready" /\ c \in Contents
     /\ \E snap \in {None, s} : /\ v = [status |-> "ready", rev |-> p.rev + 1, snap |-> snap]
                                /\ c # s => snap = s
  \/ /\ p # None /\ p.status = "ready" /\ c \in {s, Empty}
     /\ v = [p EXCEPT !.status = "removed", !.rev = @ + 1]
  \/ p # None /\ v = p /\ c = s

\* The mutation of an Installation without Runs, as the ledger sees it.
LEMMA LedgerMutates ==
  ASSUME NEW i \in Installations, i \notin Running, Running' = Running,
         NEW v, Installed' = [Installed EXCEPT ![i] = v],
         NEW c, StateTree' = [StateTree EXCEPT ![i] = c], Ledger!Claim(i, v),
         Mutation(Installed[i], StateTree[i], v, c)
  PROVE  Ledger!LedgerNext
<1>1. Ledger!Idle(i)
  BY DEF Ledger!Idle
<1>2. /\ Installed = [j \in Installations |-> Installed[j]]
      /\ StateTree = [j \in Installations |-> StateTree[j]]
  BY DEF Installed, StateTree
<1>3. CASE Installed[i] = None /\ v = NewView /\ c = StateTree[i]
  <2>1. StateTree' = StateTree
    BY <1>2, <1>3
  <2>2. Ledger!Create(i)
    BY <1>1, <1>3, <2>1 DEF Ledger!Create, NewView
  <2> QED
    BY <2>2 DEF Ledger!LedgerNext
<1>4. ASSUME Installed[i] # None, Installed[i].status = "ready", c \in Contents,
             NEW snap \in {None, StateTree[i]},
             v = [status |-> "ready", rev |-> Installed[i].rev + 1, snap |-> snap],
             c # StateTree[i] => snap = StateTree[i]
      PROVE  Ledger!LedgerNext
  <2>1. Ledger!Update(i)
    BY <1>1, <1>4 DEF Ledger!Update
  <2> QED
    BY <2>1 DEF Ledger!LedgerNext
<1>5. ASSUME Installed[i] # None, Installed[i].status = "ready",
             v = [Installed[i] EXCEPT !.status = "removed", !.rev = @ + 1],
             c \in {StateTree[i], Empty}
      PROVE  Ledger!LedgerNext
  <2>1. Ledger!Remove(i)
    BY <1>1, <1>5 DEF Ledger!Remove
  <2> QED
    BY <2>1 DEF Ledger!LedgerNext
<1>6. CASE Installed[i] # None /\ v = Installed[i] /\ c = StateTree[i]
  <2>1. StateTree' = StateTree /\ Installed' = Installed
    BY <1>2, <1>6
  <2>2. Ledger!Keep(i)
    BY <1>1, <1>6, <2>1 DEF Ledger!Keep
  <2> QED
    BY <2>2 DEF Ledger!LedgerNext
<1> QED
  BY <1>3, <1>4, <1>5, <1>6 DEF Mutation

\* An event lands: the mutation commits, or nothing has happened yet.
LEMMA LandingLedger ==
  ASSUME OneHost, RegistryInv, HostInv, NEW h \in Hosts, NEW w \in Workers,
         Landing(task[h][w]), UNCHANGED <<disk, guard>>
  PROVE  Ledger!LedgerNext \/ UNCHANGED Ledger!ledgerVars
<1> DEFINE t == task[h][w]
           i == t.inst
<1>k. /\ JournalType /\ JournalInv /\ FileType /\ t \in TaskStates /\ PlaceInv(t) /\ ReadInv(t)
      /\ JournalType'
  BY KnownTask, MovesKeep DEF JournalMoves
<1>l. t.base # None /\ t.base = len
  BY DEF Landing
<1>1. CASE UNCHANGED <<views, pending, claims>>
  BY <1>1, HiddenStutters
<1>2. CASE Replays(t) /\ Replay(t)
  <2>1. i \in Installations /\ t.pc \in AppendPoints
    BY <1>k, <1>l, LandingFacts
  <2>2. t.pc \in {"commit", "terminal"} => t.key \in Keys /\ Candidate(t) \in Views
    BY <1>k, <1>l, LandingFacts
  <2>3. Writing(t) /\ TreeInv(t)
    BY <2>1 DEF HostInv, Writing, Located, AppendPoints, Started, Forward, Undo
  <2>4. i \notin Running /\ Running' = Running
    <3>1. \A g \in Hosts : g = h
      BY DEF OneHost
    <3>2. guard[h][i] = None
      BY <2>1, <2>3, GuardedUnwritten
    <3> QED
      BY <3>1, <3>2 DEF Running
  <2>5. \A j \in Installations : j # i => views'[j] = views[j] /\ pending'[j] = pending[j]
    BY <1>k, <1>2, <2>1, <2>2, ReplayFields
  <2>6. \A j \in Installations : j # i =>
          Installed'[j] = Installed[j] /\ StateTree'[j] = StateTree[j]
    BY <2>5 DEF Installed, StateTree
  <2>7. /\ Installed = [j \in Installations |-> Installed[j]]
        /\ Installed' = [j \in Installations |-> Installed'[j]]
        /\ StateTree = [j \in Installations |-> StateTree[j]]
        /\ StateTree' = [j \in Installations |-> StateTree'[j]]
    BY DEF Installed, StateTree
  <2>8. /\ Installed' = [Installed EXCEPT ![i] = Installed'[i]]
        /\ StateTree' = [StateTree EXCEPT ![i] = StateTree'[i]]
    BY <2>1, <2>6, <2>7
  <2>9. disk'[i] = disk[i] /\ disk[i] \in Contents
    BY <1>k, <2>1 DEF FileType
  <2>10. CASE t.pc \in {"start", "rollback", "block"}
    <3>1. claims' = claims
      BY <1>k, <1>2, <2>1, <2>2, <2>10, ReplayFields
    <3>2. Installed'[i] = Installed[i] /\ StateTree'[i] = StateTree[i]
      <4>1. CASE t.pc = "start"
        <5>1. views[i] = t.prev /\ pending[i] = None
          BY <1>k, <1>l, <4>1, LandingFacts
        <5>2. pending'[i] = [id |-> t.id, kind |-> Kind(t), prev |-> t.prev, snap |-> t.snap]
          BY <1>k, <1>2, <2>1, <4>1, ReplayFields
        <5>3. pending'[i].prev = t.prev /\ pending'[i].snap = t.snap
          BY <5>2
        <5>4. pending'[i] # None
          <6>1. t.id \in Nat /\ t.prev \in Views /\ t.snap \in Contents
            BY <1>k, <4>1, TaskFields DEF PlaceInv
          <6>2. pending'[i] \in PendingMutations
            BY <5>2, <6>1, KindType DEF PendingMutations
          <6> QED
            BY <6>2, NoneAssumption
        <5>5. disk[i] = t.snap
          BY <2>3, <4>1 DEF TreeInv
        <5> QED
          BY <2>1, <5>1, <5>3, <5>4, <5>5 DEF Installed, StateTree
      <4>2. CASE t.pc = "rollback"
        <5>1. pending[i] # None /\ pending[i].prev = t.prev /\ pending[i].snap = t.snap
          BY <1>k, <1>l, <4>2, LandingFacts DEF Mine
        <5>2. views'[i] = t.prev /\ pending'[i] = None
          BY <1>k, <1>2, <2>1, <4>2, ReplayFields
        <5>3. disk[i] = t.snap
          BY <2>3, <4>2 DEF TreeInv
        <5> QED
          BY <2>1, <2>9, <5>1, <5>2, <5>3 DEF Installed, StateTree
      <4>3. CASE t.pc = "block"
        <5>1. pending[i] # None
          BY <1>k, <1>l, <4>3, LandingFacts DEF Mine
        <5>2. pending'[i] = pending[i]
          BY <1>k, <1>2, <2>1, <4>3, ReplayFields
        <5> QED
          BY <2>1, <5>1, <5>2 DEF Installed, StateTree
      <4> QED
        BY <2>10, <4>1, <4>2, <4>3
    <3> QED
      BY <2>6, <3>1, <3>2, LedgerStutters
  <2>11. CASE t.pc \in {"commit", "terminal"}
    <3>1. /\ views'[i] = Candidate(t) /\ pending'[i] = None
          /\ claims' = [claims EXCEPT ![t.key] = ClaimOf(t)]
      BY <1>k, <1>2, <2>1, <2>2, <2>11, ReplayFields
    <3>2. Installed'[i] = Candidate(t) /\ StateTree'[i] = disk[i]
      BY <2>1, <2>9, <3>1 DEF Installed, StateTree
    <3>3. ClaimOf(t) \in Claims /\ ClaimOf(t).inst = i /\ ClaimOf(t).view = Candidate(t)
      BY <1>k, <2>1, <2>2, <2>11, TaskFields DEF ClaimOf, Claims
    <3>4. claims[t.key] = None
      <4>1. claims[t.key] \in {None, ClaimOf(t)}
        BY <1>2, <2>11 DEF Replays, ClaimInstalls
      <4>2. t.key \notin ClaimedFor(i) /\ t.key \in Keys
        BY <1>k, <1>l, <2>11, LandingFacts
      <4> QED
        BY <3>3, <4>1, <4>2 DEF ClaimedFor
    <3>5. Ledger!Claim(i, Candidate(t))
      BY <1>k, <2>2, <2>11, <3>1, <3>3, <3>4, LedgerClaims
    <3>m. Mutation(Installed[i], StateTree[i], Candidate(t), disk[i]) => Ledger!LedgerNext
      <4>1. Installed' = [Installed EXCEPT ![i] = Candidate(t)]
        BY <2>8, <3>2
      <4>2. StateTree' = [StateTree EXCEPT ![i] = disk[i]]
        BY <2>8, <3>2
      <4> QED
        BY <2>1, <2>4, <3>5, <4>1, <4>2, LedgerMutates
    <3>6. t.req.op \in {"create", "noop", "preserve", "backup", "replace", "keep", "delete"}
      BY <1>k, TaskFields, RequestFields DEF Updates, Removals
    <3>7. CASE t.pc = "commit"
      <4>1. Installed[i] = t.prev /\ StateTree[i] = disk[i]
        <5>1. views[i] = t.prev /\ pending[i] = None
          BY <1>k, <1>l, <3>7, LandingFacts
        <5> QED
          BY <2>1, <5>1 DEF Installed, StateTree
      <4>2. t.snap \in {None, disk[i]}
        BY <2>3, <3>7 DEF TreeInv
      <4>3. /\ t.req.op = "create" => t.prev = None
            /\ t.req.op # "create" =>
                 /\ t.prev \in Views /\ t.prev # None
                 /\ \/ t.prev.status = "ready" /\ t.req.op \notin Staged
                    \/ t.prev.status = "removed" /\ t.req.op \in Removals
        BY <1>k, <3>7, NoneAssumption DEF PlaceInv, Asked
      <4>4. CASE t.req.op = "create"
        <5>1. Candidate(t) = NewView
          BY <1>k, <3>7, <4>4, CandidateFields
        <5> QED
          BY <3>m, <4>1, <4>3, <4>4, <5>1 DEF Mutation
      <4>5. CASE t.req.op = "noop" \/ (t.req.op # "create" /\ t.prev.status = "removed")
        <5>1. Candidate(t) = t.prev
          BY <1>k, <3>7, <4>3, <4>5, CandidateFields
        <5>2. Installed[i] # None
          BY <4>1, <4>3, <4>5
        <5> QED
          BY <3>m, <4>1, <5>1, <5>2 DEF Mutation
      <4>6. CASE t.req.op = "keep" /\ t.prev.status = "ready"
        <5>1. Candidate(t) = [t.prev EXCEPT !.status = "removed", !.rev = @ + 1]
          BY <1>k, <3>7, <4>6, CandidateFields
        <5>2. Installed[i] # None /\ Installed[i].status = "ready"
          BY <4>1, <4>3, <4>6
        <5> QED
          BY <3>m, <4>1, <5>1, <5>2 DEF Mutation
      <4>7. CASE t.req.op \in {"preserve", "backup"} /\ t.prev.status = "ready"
        <5>1. Candidate(t) = [status |-> "ready", rev |-> t.prev.rev + 1, snap |-> t.snap]
          BY <1>k, <3>7, <4>7, CandidateFields
        <5>2. Installed[i] # None /\ Installed[i].status = "ready"
          BY <4>1, <4>3, <4>7
        <5> QED
          BY <2>9, <3>m, <4>1, <4>2, <5>1, <5>2 DEF Mutation
      <4> QED
        BY <3>6, <4>3, <4>4, <4>5, <4>6, <4>7 DEF Staged, Removals
    <3>8. CASE t.pc = "terminal"
      <4>1. /\ pending[i] # None /\ pending[i].prev = t.prev /\ pending[i].snap = t.snap
            /\ t.prev \in Views /\ t.prev.status = "ready" /\ t.prev # None
        BY <1>k, <1>l, <3>8, NoneAssumption, LandingFacts DEF Mine
      <4>2. Installed[i] = t.prev /\ StateTree[i] = t.snap
        BY <2>1, <4>1 DEF Installed, StateTree
      <4>3. disk[i] = Target(t)
        BY <2>3, <3>8 DEF TreeInv
      <4>4. t.req.op \in {"replace", "delete"}
        BY <1>k, <3>8 DEF PlaceInv, Boots, Undo, Started, Forward, Staged
      <4>5. CASE t.req.op = "replace"
        <5>1. Candidate(t) = [status |-> "ready", rev |-> t.prev.rev + 1, snap |-> t.snap]
          BY <1>k, <3>8, <4>5, CandidateFields
        <5> QED
          BY <2>9, <3>m, <4>1, <4>2, <5>1 DEF Mutation
      <4>6. CASE t.req.op = "delete"
        <5>1. Candidate(t) = [t.prev EXCEPT !.status = "removed", !.rev = @ + 1]
          BY <1>k, <3>8, <4>1, <4>6, CandidateFields
        <5>2. disk[i] = Empty
          BY <3>8, <4>3, <4>6 DEF Target
        <5> QED
          BY <3>m, <4>1, <4>2, <5>1, <5>2 DEF Mutation
      <4> QED
        BY <4>4, <4>5, <4>6
    <3> QED
      BY <2>11, <3>7, <3>8
  <2> QED
    BY <2>1, <2>10, <2>11 DEF AppendPoints
<1> QED
  BY <1>1, <1>2 DEF Landing

\* Runs begin on ready Installations.
LEMMA GuardHeldLedger ==
  ASSUME OneHost, RegistryInv, HostInv, NEW h \in Hosts, NEW w \in Workers, GuardHeld(h, w)
  PROVE  Ledger!LedgerNext \/ UNCHANGED Ledger!ledgerVars
<1> DEFINE t == task[h][w]
<1>1. /\ UNCHANGED <<views, pending, claims, disk>> /\ t.pc = "guard"
      /\ guard' = IF owner = h /\ views[t.inst] = t.prev
                  THEN [guard EXCEPT ![h][t.inst] = t.prev] ELSE guard
  BY DEF GuardHeld, At, files, journal
<1>2. /\ t.inst \in Installations /\ t.prev \in Views /\ t.prev.status = "ready" /\ t.prev # None
      /\ FileType /\ JournalInv /\ JournalType
  BY <1>1, KnownTask, NoneAssumption DEF PlaceInv, Located
<1>3. CASE guard' = guard
  BY <1>1, <1>3, HiddenStutters
<1>4. CASE views[t.inst] = t.prev /\ guard' = [guard EXCEPT ![h][t.inst] = t.prev]
  <2>1. pending[t.inst] = None
    <3>1. pending[t.inst] \in PendingMutations \cup {None}
      BY <1>2 DEF JournalType
    <3> QED
      BY <1>2, <1>4, <3>1, PendingFields DEF JournalInv
  <2>2. Installed[t.inst] = t.prev
    BY <1>2, <1>4, <2>1 DEF Installed
  <2>3. /\ guard'[h][t.inst] # None
        /\ \A j \in Installations : j # t.inst => guard'[h][j] = guard[h][j]
    BY <1>2, <1>4 DEF FileType
  <2>4. Running' = Running \cup {t.inst}
    <3>1. \A g \in Hosts : g = h
      BY DEF OneHost
    <3> QED
      BY <1>2, <2>3, <3>1 DEF Running
  <2>5. Installed' = Installed /\ StateTree' = StateTree /\ ClaimMap' = ClaimMap
    BY <1>1 DEF Installed, StateTree, ClaimMap
  <2>6. Ledger!BeginRun(t.inst)
    BY <1>2, <2>2, <2>4, <2>5 DEF Ledger!BeginRun
  <2> QED
    BY <1>2, <2>6 DEF Ledger!LedgerNext
<1> QED
  BY <1>1, <1>3, <1>4

LEMMA RunWritesLedger ==
  ASSUME RegistryInv, HostInv, NEW h \in Hosts, NEW i \in Installations, RunWrites(h, i)
  PROVE  Ledger!LedgerNext \/ UNCHANGED Ledger!ledgerVars
<1>1. PICK c \in Contents : disk' = [disk EXCEPT ![i] = c]
  BY DEF RunWrites
<1>2. UNCHANGED <<views, pending, claims, guard>> /\ guard[h][i] # None /\ FileType
  BY TypeParts DEF RunWrites, journal, memory, RegistryInv
<1>3. disk'[i] = c /\ \A j \in Installations : j # i => disk'[j] = disk[j]
  BY <1>1, <1>2 DEF FileType
<1>4. CASE pending[i] # None
  BY <1>2, <1>3, <1>4, HiddenStutters
<1>5. CASE pending[i] = None
  <2>1. Installed' = Installed /\ ClaimMap' = ClaimMap /\ Running' = Running /\ i \in Running
    BY <1>2 DEF Installed, ClaimMap, Running
  <2>2. StateTree'[i] = c /\ \A j \in Installations : j # i => StateTree'[j] = StateTree[j]
    BY <1>2, <1>3, <1>5 DEF StateTree
  <2>3. StateTree = [j \in Installations |-> StateTree[j]]
        /\ StateTree' = [j \in Installations |-> StateTree'[j]]
    BY DEF StateTree
  <2>4. StateTree' = [StateTree EXCEPT ![i] = c]
    BY <2>2, <2>3
  <2>5. Ledger!RunWrite(i)
    BY <2>1, <2>4 DEF Ledger!RunWrite
  <2> QED
    BY <2>5 DEF Ledger!LedgerNext
<1> QED
  BY <1>4, <1>5

LEMMA EndRunsLedger ==
  ASSUME UNCHANGED <<views, pending, claims>>,
         \A i \in Installations : disk'[i] = disk[i] \/ pending[i] # None,
         \A h \in Hosts, i \in Installations : guard'[h][i] \in {guard[h][i], None}
  PROVE  Ledger!LedgerNext
<1>1. Installed' = Installed /\ ClaimMap' = ClaimMap
  BY DEF Installed, ClaimMap
<1>2. StateTree' = StateTree
  BY DEF StateTree
<1>3. Running' \in SUBSET Running
  BY DEF Running
<1>4. Ledger!EndRuns
  BY <1>1, <1>2, <1>3 DEF Ledger!EndRuns
<1> QED
  BY <1>4 DEF Ledger!LedgerNext

\* A crash in the middle of a replacement tears only what is staged.
LEMMA CrashLedger ==
  ASSUME OneHost, RegistryInv, HostInv, NEW h \in Hosts, Crash(h)
  PROVE  Ledger!LedgerNext
<1>1. /\ UNCHANGED <<views, pending, claims>> /\ FileType
      /\ guard' = [guard EXCEPT ![h] = [i \in Installations |-> None]]
  BY TypeParts DEF Crash, journal, RegistryInv
<1>2. \A g \in Hosts, i \in Installations : guard'[g][i] \in {guard[g][i], None}
  BY <1>1 DEF FileType
<1>3. \A i \in Installations :
        \/ disk'[i] = disk[i]
        \/ \E w \in Workers : task[h][w].pc \in {"effect", "restoreEffect"} /\ task[h][w].inst = i
  BY DEF Crash
<1>4. \A w \in Workers : task[h][w].pc \in {"effect", "restoreEffect"} =>
        pending[task[h][w].inst] # None
  BY DEF HostInv, TreeInv, Mine, Started, Forward, Undo
<1>5. \A i \in Installations : disk'[i] = disk[i] \/ pending[i] # None
  BY <1>3, <1>4
<1> QED
  BY <1>1, <1>2, <1>5, EndRunsLedger

LEMMA EffectLedger ==
  ASSUME OneHost, RegistryInv, HostInv, NEW h \in Hosts, NEW w \in Workers, Effect(h, w)
  PROVE  UNCHANGED Ledger!ledgerVars
<1> DEFINE t == task[h][w]
<1>1. UNCHANGED <<views, pending, claims, guard>> /\ t.pc \in {"effect", "restoreEffect"} /\ FileType
  BY KnownTask DEF Effect, At, journal
<1>2. \E c : disk' = [disk EXCEPT ![t.inst] = c]
  BY DEF Effect
<1>3. pending[t.inst] # None
  BY <1>1 DEF HostInv, TreeInv, Mine, Started, Forward, Undo
<1>4. \A i \in Installations : disk'[i] = disk[i] \/ pending[i] # None
  BY <1>1, <1>2, <1>3 DEF FileType
<1> QED
  BY <1>1, <1>4, HiddenStutters

LEMMA LedgerStep ==
  ASSUME OneHost
  PROVE  RegistryInv /\ HostInv /\ [Next]_vars => [Ledger!LedgerNext]_(Ledger!ledgerVars)
<1> SUFFICES ASSUME RegistryInv, HostInv, [Next]_vars
             PROVE  Ledger!LedgerNext \/ UNCHANGED Ledger!ledgerVars
  OBVIOUS
<1>1. CASE UNCHANGED <<views, pending, claims, guard, disk>>
  BY <1>1, HiddenStutters
<1>2. ASSUME NEW h \in Hosts, NEW w \in Workers,
             \/ Prepare(h, w) \/ Decide(h, w) \/ CheckEffect(h, w) \/ Restore(h, w)
             \/ Publish(h, w) \/ Recover(h, w) \/ Materialize(h, w) \/ AppendFails(h, w)
             \/ Boot(h, w)
             \/ \E key \in Keys, r \in Requests : Submit(h, w, key, r)
             \/ \E i \in Installations : GuardBegin(h, w, i)
      PROVE  UNCHANGED <<views, pending, claims, guard, disk>>
  BY <1>2 DEF Prepare, Decide, CheckEffect, Restore, Publish, Recover, Materialize, AppendFails,
              Boot, Submit, GuardBegin, journal, files
<1>3. ASSUME NEW h \in Hosts, NEW w \in Workers, Append(h, w)
      PROVE  Ledger!LedgerNext \/ UNCHANGED Ledger!ledgerVars
  <2>1. UNCHANGED <<guard, disk>> /\ (LandsAt(task[h][w]) \/ UNCHANGED journal)
    BY <1>3 DEF Append, files
  <2>2. CASE LandsAt(task[h][w])
    BY <1>3, <2>1, <2>2, LandingLedger DEF Append, LandsAt, Landing
  <2>3. CASE UNCHANGED journal
    BY <1>1, <2>1, <2>3 DEF journal
  <2> QED
    BY <2>1, <2>2, <2>3
<1>4. ASSUME NEW h \in Hosts, NEW w \in Workers, Disconnect(h, w)
      PROVE  Ledger!LedgerNext \/ UNCHANGED Ledger!ledgerVars
  <2>1. UNCHANGED <<guard, disk>>
    BY <1>4 DEF Disconnect, files
  <2>2. CASE UNCHANGED journal
    BY <1>1, <2>1, <2>2 DEF journal
  <2>3. CASE Landing(task[h][w])
    BY <2>1, <2>3, LandingLedger
  <2> QED
    BY <1>4, <2>2, <2>3, KnownTask, NoneAssumption DEF Disconnect, Landing, JournalType
<1>5. ASSUME NEW h \in Hosts, NEW i \in Installations, GuardRelease(h, i)
      PROVE  Ledger!LedgerNext
  <2>1. FileType /\ UNCHANGED <<views, pending, claims, disk>>
    BY <1>5, TypeParts DEF GuardRelease, journal, files, RegistryInv
  <2>2. \A g \in Hosts, j \in Installations : guard'[g][j] \in {guard[g][j], None}
    BY <1>5, <2>1 DEF GuardRelease, FileType
  <2> QED
    BY <2>1, <2>2, EndRunsLedger
<1>6. CASE UNCHANGED vars
  BY <1>1, <1>6 DEF vars
<1> QED
  BY <1>1, <1>2, <1>3, <1>4, <1>5, <1>6, EffectLedger, GuardHeldLedger, RunWritesLedger,
     CrashLedger DEF Next, Step

\* Under one Host the registry implements the ledger: however a mutation is
\* staged, rolled back, recovered, denied, cut short or disconnected, its
\* revision, its state tree and its claim change in one step or not at all, only
\* a Run with a guard writes the tree otherwise, and no mutation commits under a
\* guard (update, remove, rollback_started, recover_pending).
THEOREM RegistryImplementsLedger ==
  ASSUME OneHost
  PROVE  Spec => ImplementsLedger
<1>1. Init => Ledger!LedgerInit
  <2> SUFFICES ASSUME Init PROVE Ledger!LedgerInit
    OBVIOUS
  <2>1. Installed = [i \in Installations |-> None] /\ StateTree = [i \in Installations |-> Empty]
    BY DEF Init, Installed, StateTree
  <2>2. ClaimMap = [k \in Keys |-> None]
    BY DEF Init, ClaimMap
  <2>3. Running = {}
    BY DEF Init, Running
  <2> QED
    BY <2>1, <2>2, <2>3 DEF Ledger!LedgerInit
<1> QED
  BY <1>1, RegistryInit, RegistryNext, HostInit, HostNext, LedgerStep, PTL
  DEF Spec, ImplementsLedger, Ledger!LedgerSpec

=============================================================================
