--------------------------- MODULE RunSafetyProofs ---------------------------
(***************************************************************************)
(* The durable guarantees of the Run registry, for any number of Hosts,    *)
(* tasks, Runs and failures.                                               *)
(*                                                                         *)
(* The argument: every step of every Host leaves the journal alone or      *)
(* appends one event that is valid after the whole journal (JournalStep),  *)
(* because compare-and-append succeeds only at the sequence up to which    *)
(* the Host has replayed.  Appending a valid event keeps every guarantee   *)
(* (the lemmas about the journal, which hold for journals of any length).  *)
(***************************************************************************)
EXTENDS RunRegistryProofs, WellFoundedInduction

-----------------------------------------------------------------------------
(* Appending a valid event to a journal.                                   *)

\* A nonempty set of naturals has a least element.
LEMMA Least ==
  ASSUME NEW T \in SUBSET Nat, NEW n \in T
  PROVE  \E x \in T : \A y \in T : x <= y
<1>1. PICK x \in T : \A y \in T : ~ (<<y, x>> \in OpToRel(<, Nat))
  BY NatLessThanWellFounded, WFMin
<1>2. \A y \in T : ~ (y < x)
  BY <1>1 DEF OpToRel
<1> QED
  BY <1>2

\* A nonempty set of positions has a greatest element.
LEMMA Greatest ==
  ASSUME NEW n \in Nat, NEW T \in SUBSET (1..n), NEW m \in T
  PROVE  \E x \in T : \A y \in T : y <= x
<1> DEFINE U == {n - x : x \in T}
<1>1. U \in SUBSET Nat /\ n - m \in U
  OBVIOUS
<1>2. PICK u \in U : \A y \in U : u <= y
  BY <1>1, Least
<1>3. PICK x \in T : u = n - x
  OBVIOUS
<1>4. ASSUME NEW y \in T PROVE y <= x
  <2>1. n - y \in U /\ u <= n - y
    BY <1>2
  <2> QED
    BY <1>3, <2>1
<1> QED
  BY <1>4

-----------------------------------------------------------------------------
(* The last event of a Run.                                                *)

LEMMA LatestWhen ==
  ASSUME NEW j, NEW n \in Nat, NEW r, NEW k \in 1..n, IsLast(j, n, r, k)
  PROVE  Latest(j, n, r) = j[k]
<1> DEFINE c == CHOOSE l \in 1..n : IsLast(j, n, r, l)
<1>1. c \in 1..n /\ IsLast(j, n, r, c)
  OBVIOUS
<1> HIDE DEF c
<1>2. c = k
  <2>1. ~ (c < k) /\ ~ (k < c)
    BY <1>1 DEF IsLast
  <2> QED
    BY <1>1, <2>1
<1> QED
  BY <1>2 DEF Latest, c

LEMMA LatestNone ==
  ASSUME NEW j, NEW n \in Nat, NEW r, \A k \in 1..n : j[k].run # r
  PROVE  Latest(j, n, r) = NoView
BY DEF Latest, IsLast

\* A Run with an event has a last one.
LEMMA LastExists ==
  ASSUME NEW j, NEW n \in Nat, NEW r, NEW m \in 1..n, j[m].run = r
  PROVE  \E k \in 1..n : IsLast(j, n, r, k)
<1> DEFINE T == {k \in 1..n : j[k].run = r}
<1>1. PICK k \in T : \A y \in T : y <= k
  BY Greatest
<1>2. IsLast(j, n, r, k)
  BY <1>1 DEF IsLast
<1> QED
  BY <1>2

\* The latest view is the last event or, without one, NoView.
LEMMA LatestCases ==
  ASSUME NEW j, NEW n \in Nat, NEW r
  PROVE  \/ \E k \in 1..n : IsLast(j, n, r, k) /\ Latest(j, n, r) = j[k]
         \/ (\A k \in 1..n : j[k].run # r) /\ Latest(j, n, r) = NoView
<1>1. CASE \A k \in 1..n : j[k].run # r
  BY <1>1, LatestNone
<1>2. CASE \E k \in 1..n : j[k].run = r
  <2>1. PICK k \in 1..n : IsLast(j, n, r, k)
    BY <1>2, LastExists
  <2> QED
    BY <2>1, LatestWhen
<1> QED
  BY <1>1, <1>2

LEMMA AppendIndex ==
  ASSUME NEW j \in Seq(Events), NEW e \in Events
  PROVE  /\ Append(j, e) \in Seq(Events)
         /\ Len(Append(j, e)) = Len(j) + 1
         /\ DOMAIN Append(j, e) = 1 .. Len(j) + 1
         /\ \A k \in 1 .. Len(j) : Append(j, e)[k] = j[k]
         /\ Append(j, e)[Len(j) + 1] = e
OBVIOUS

\* An append leaves every earlier projection alone.
LEMMA LatestPrefix ==
  ASSUME NEW j \in Seq(Events), NEW e \in Events, NEW n \in 0 .. Len(j), NEW r
  PROVE  Latest(Append(j, e), n, r) = Latest(j, n, r)
<1> DEFINE a == Append(j, e)
<1>1. \A k \in 1..n : a[k] = j[k]
  BY AppendIndex
<1>2. n \in Nat
  OBVIOUS
<1> HIDE DEF a
<1>3. CASE \E k \in 1..n : IsLast(j, n, r, k) /\ Latest(j, n, r) = j[k]
  <2>1. PICK k \in 1..n : IsLast(j, n, r, k) /\ Latest(j, n, r) = j[k]
    BY <1>3
  <2>2. IsLast(a, n, r, k)
    BY <1>1, <1>2, <2>1 DEF IsLast
  <2> QED
    BY <1>1, <1>2, <2>1, <2>2, LatestWhen DEF a
<1>4. CASE (\A k \in 1..n : j[k].run # r) /\ Latest(j, n, r) = NoView
  BY <1>1, <1>2, <1>4, LatestNone DEF a
<1> QED
  BY <1>2, <1>3, <1>4, LatestCases

\* The projection after an append: the event's Run has the new view.
LEMMA LatestAppend ==
  ASSUME NEW j \in Seq(Events), NEW e \in Events, NEW r
  PROVE  Latest(Append(j, e), Len(j) + 1, r) = IF e.run = r THEN e ELSE Latest(j, Len(j), r)
<1> DEFINE a == Append(j, e)
           n == Len(j)
<1>1. /\ \A k \in 1..n : a[k] = j[k]
      /\ a[n + 1] = e
      /\ n \in Nat /\ n + 1 \in Nat
  BY AppendIndex
<1> HIDE DEF a, n
<1>2. CASE e.run = r
  <2>1. IsLast(a, n + 1, r, n + 1) /\ n + 1 \in 1 .. n + 1
    BY <1>1, <1>2 DEF IsLast
  <2> QED
    BY <1>1, <1>2, <2>1, LatestWhen DEF a, n
<1>3. CASE e.run # r
  <2>1. CASE \E k \in 1..n : IsLast(j, n, r, k) /\ Latest(j, n, r) = j[k]
    <3>1. PICK k \in 1..n : IsLast(j, n, r, k) /\ Latest(j, n, r) = j[k]
      BY <2>1
    <3>2. IsLast(a, n + 1, r, k) /\ k \in 1 .. n + 1
      BY <1>1, <1>3, <3>1 DEF IsLast
    <3> QED
      BY <1>1, <1>3, <3>1, <3>2, LatestWhen DEF a, n
  <2>2. CASE (\A k \in 1..n : j[k].run # r) /\ Latest(j, n, r) = NoView
    <3>1. \A k \in 1 .. n + 1 : a[k].run # r
      BY <1>1, <1>3, <2>2
    <3> QED
      BY <1>1, <1>3, <2>2, <3>1, LatestNone DEF a, n
  <2> QED
    BY <1>1, <2>1, <2>2, LatestCases
<1> QED
  BY <1>2, <1>3

-----------------------------------------------------------------------------
(* The first claim on a key.                                               *)

LEMMA ClaimedWhen ==
  ASSUME NEW j, NEW n \in Nat, NEW i, NEW op, NEW key, NEW k \in 1..n,
         IsFirstClaim(j, n, i, op, key, k)
  PROVE  ClaimedBy(j, n, i, op, key) = j[k]
<1> DEFINE c == CHOOSE l \in 1..n : IsFirstClaim(j, n, i, op, key, l)
<1>1. c \in 1..n /\ IsFirstClaim(j, n, i, op, key, c)
  OBVIOUS
<1> HIDE DEF c
<1>2. c = k
  <2>1. ~ (c < k) /\ ~ (k < c)
    BY <1>1 DEF IsFirstClaim
  <2> QED
    BY <1>1, <2>1
<1> QED
  BY <1>2 DEF ClaimedBy, c

LEMMA ClaimedNone ==
  ASSUME NEW j, NEW n \in Nat, NEW i, NEW op, NEW key,
         \A k \in 1..n : ~Claiming(j[k], i, op, key)
  PROVE  ClaimedBy(j, n, i, op, key) = NoView
BY DEF ClaimedBy, IsFirstClaim

LEMMA ClaimedCases ==
  ASSUME NEW j, NEW n \in Nat, NEW i, NEW op, NEW key
  PROVE  \/ \E k \in 1..n : /\ IsFirstClaim(j, n, i, op, key, k)
                            /\ ClaimedBy(j, n, i, op, key) = j[k]
         \/ /\ \A k \in 1..n : ~Claiming(j[k], i, op, key)
            /\ ClaimedBy(j, n, i, op, key) = NoView
<1>1. CASE \A k \in 1..n : ~Claiming(j[k], i, op, key)
  BY <1>1, ClaimedNone
<1>2. CASE \E k \in 1..n : Claiming(j[k], i, op, key)
  <2> DEFINE T == {k \in 1..n : Claiming(j[k], i, op, key)}
  <2>1. T \in SUBSET Nat /\ \E k \in T : TRUE
    BY <1>2
  <2>2. PICK k \in T : \A y \in T : k <= y
    BY <2>1, Least
  <2>3. IsFirstClaim(j, n, i, op, key, k)
    BY <2>2 DEF IsFirstClaim
  <2> QED
    BY <2>3, ClaimedWhen
<1> QED
  BY <1>1, <1>2

LEMMA ClaimedPrefix ==
  ASSUME NEW j \in Seq(Events), NEW e \in Events, NEW n \in 0 .. Len(j),
         NEW i, NEW op, NEW key
  PROVE  ClaimedBy(Append(j, e), n, i, op, key) = ClaimedBy(j, n, i, op, key)
<1> DEFINE a == Append(j, e)
<1>1. \A k \in 1..n : a[k] = j[k]
  BY AppendIndex
<1>2. n \in Nat
  OBVIOUS
<1> HIDE DEF a
<1>3. CASE \E k \in 1..n : /\ IsFirstClaim(j, n, i, op, key, k)
                           /\ ClaimedBy(j, n, i, op, key) = j[k]
  <2>1. PICK k \in 1..n : /\ IsFirstClaim(j, n, i, op, key, k)
                          /\ ClaimedBy(j, n, i, op, key) = j[k]
    BY <1>3
  <2>2. \A m \in 1 .. k - 1 : a[m] = j[m]
    BY <1>1, <1>2
  <2>3. IsFirstClaim(a, n, i, op, key, k)
    BY <1>1, <2>1, <2>2 DEF IsFirstClaim, Claiming
  <2>4. ClaimedBy(a, n, i, op, key) = a[k]
    BY <1>2, <2>3, ClaimedWhen, Zenon
  <2> QED
    BY <1>1, <2>1, <2>4 DEF a
<1>4. CASE /\ \A k \in 1..n : ~Claiming(j[k], i, op, key)
           /\ ClaimedBy(j, n, i, op, key) = NoView
  BY <1>1, <1>2, <1>4, ClaimedNone DEF a
<1> QED
  BY <1>2, <1>3, <1>4, ClaimedCases

\* A claim that stands is kept by every append.
LEMMA ClaimedKept ==
  ASSUME NEW j \in Seq(Events), NEW e \in Events, NEW i, NEW op, NEW key,
         ClaimedBy(j, Len(j), i, op, key) # NoView
  PROVE  ClaimedBy(Append(j, e), Len(j) + 1, i, op, key) = ClaimedBy(j, Len(j), i, op, key)
<1> DEFINE a == Append(j, e)
           n == Len(j)
<1>1. /\ \A k \in 1..n : a[k] = j[k]
      /\ n \in Nat /\ n + 1 \in Nat
  BY AppendIndex
<1> HIDE DEF a, n
<1>2. PICK k \in 1..n : /\ IsFirstClaim(j, n, i, op, key, k)
                        /\ ClaimedBy(j, n, i, op, key) = j[k]
  BY <1>1, ClaimedCases DEF n
<1>3. \A m \in 1 .. k - 1 : a[m] = j[m]
  BY <1>1
<1>4. IsFirstClaim(a, n + 1, i, op, key, k) /\ k \in 1 .. n + 1
  BY <1>1, <1>2, <1>3 DEF IsFirstClaim, Claiming
<1>5. ClaimedBy(a, n + 1, i, op, key) = a[k]
  <2> DEFINE m == n + 1
  <2>1. m \in Nat /\ k \in 1..m /\ IsFirstClaim(a, m, i, op, key, k)
    BY <1>1, <1>4
  <2> HIDE DEF m
  <2>2. ClaimedBy(a, m, i, op, key) = a[k]
    BY <2>1, ClaimedWhen, Zenon
  <2> QED
    BY <2>2 DEF m
<1> QED
  BY <1>1, <1>2, <1>5 DEF a, n

-----------------------------------------------------------------------------
(* Valid histories.                                                        *)

LEMMA ValidPrefix ==
  ASSUME NEW j \in Seq(Events), NEW e \in Events, NEW n \in 0 .. Len(j), NEW x
  PROVE  ValidEvent(Append(j, e), n, x) <=> ValidEvent(j, n, x)
<1>1. \A r : Latest(Append(j, e), n, r) = Latest(j, n, r)
  BY LatestPrefix
<1>2. \A i, op, key :
        ClaimedBy(Append(j, e), n, i, op, key) = ClaimedBy(j, n, i, op, key)
  BY ClaimedPrefix
<1>3. ValidMutation(Append(j, e), n, x) <=> ValidMutation(j, n, x)
  BY <1>1 DEF ValidMutation
<1>4. ValidIntroduction(Append(j, e), n, x) <=> ValidIntroduction(j, n, x)
  BY <1>1 DEF ValidIntroduction, IsActive
<1>5. ValidClaim(Append(j, e), n, x) <=> ValidClaim(j, n, x)
  BY <1>2 DEF ValidClaim
<1>6. Known(Append(j, e), n, x.run) <=> Known(j, n, x.run)
  BY <1>1 DEF Known
<1> QED
  BY <1>3, <1>4, <1>5, <1>6 DEF ValidEvent

Replays(j) == \A k \in DOMAIN j : ValidEvent(j, k - 1, j[k])

LEMMA ReplaysAppend ==
  ASSUME NEW j \in Seq(Events), NEW e \in Events, Replays(j), ValidEvent(j, Len(j), e)
  PROVE  Replays(Append(j, e))
<1> DEFINE a == Append(j, e)
<1> SUFFICES ASSUME NEW k \in 1 .. Len(j) + 1 PROVE ValidEvent(a, k - 1, a[k])
  BY AppendIndex DEF Replays
<1>1. k - 1 \in 0 .. Len(j)
  OBVIOUS
<1>2. ValidEvent(a, k - 1, a[k]) <=> ValidEvent(j, k - 1, a[k])
  BY <1>1, ValidPrefix
<1>3. CASE k \in 1 .. Len(j)
  BY <1>2, <1>3, AppendIndex DEF Replays
<1>4. CASE k = Len(j) + 1
  BY <1>2, <1>4, AppendIndex
<1> QED
  BY <1>3, <1>4

\* At most one active Run per Installation, and agreeing claims, as facts of
\* a journal.
OneActiveIn(j) ==
  \A r, s \in Runs :
    /\ Latest(j, Len(j), r).status \in ActiveStatuses
    /\ Latest(j, Len(j), s).status \in ActiveStatuses
    /\ Latest(j, Len(j), r).inst = Latest(j, Len(j), s).inst
    => r = s

\* A valid event moves a Run that was active, or introduces one where no Run
\* of the Installation is active.
LEMMA ValidFrom ==
  ASSUME NEW j, NEW n, NEW e \in Events, ValidEvent(j, n, e)
  PROVE  \/ /\ Latest(j, n, e.run).status \in ActiveStatuses
            /\ Latest(j, n, e.run).inst = e.inst
         \/ /\ Latest(j, n, e.run).status = "none"
            /\ e.status = "starting"
            /\ \A s \in Runs : Latest(j, n, s).status \in ActiveStatuses =>
                                 Latest(j, n, s).inst # e.inst
BY DEF ValidEvent, Known, ValidMutation, ValidIntroduction, IsActive, Transitions,
       ActiveStatuses

LEMMA OneActiveAppend ==
  ASSUME NEW j \in Seq(Events), NEW e \in Events, OneActiveIn(j), ValidEvent(j, Len(j), e)
  PROVE  OneActiveIn(Append(j, e))
<1> DEFINE a == Append(j, e)
           L(r) == Latest(j, Len(j), r)
           A(r) == Latest(a, Len(a), r)
<1>1. e.run \in Runs
  BY DEF Events
<1>2. ASSUME NEW r PROVE A(r) = IF e.run = r THEN e ELSE L(r)
  <2>1. Len(a) = Len(j) + 1
    BY AppendIndex
  <2>2. Latest(a, Len(j) + 1, r) = IF e.run = r THEN e ELSE L(r)
    BY LatestAppend
  <2> QED
    BY <2>1, <2>2
<1>3. \/ L(e.run).status \in ActiveStatuses /\ L(e.run).inst = e.inst
      \/ \A s \in Runs : L(s).status \in ActiveStatuses => L(s).inst # e.inst
  BY ValidFrom
<1>4. \A r, s \in Runs : /\ L(r).status \in ActiveStatuses /\ L(s).status \in ActiveStatuses
                         /\ L(r).inst = L(s).inst
                         => r = s
  BY DEF OneActiveIn
<1> HIDE DEF L, A, a
<1>5. ASSUME NEW r \in Runs, NEW s \in Runs, A(r).status \in ActiveStatuses,
             A(s).status \in ActiveStatuses, A(r).inst = A(s).inst
      PROVE  r = s
  BY <1>1, <1>2, <1>3, <1>4, <1>5
<1> QED
  BY <1>5 DEF OneActiveIn, A, a

ClaimsAgreeIn(j) ==
  \A k, l \in DOMAIN j :
    /\ j[k].claim # NoClaim
    /\ Claiming(j[l], j[k].inst, j[k].claim.op, j[k].claim.key)
    => j[k].claim.fp = j[l].claim.fp /\ j[k].run = j[l].run

\* A valid claim agrees with every earlier claim on its key.
LEMMA ValidClaimAgrees ==
  ASSUME NEW j \in Seq(Events), NEW e \in Events, ClaimsAgreeIn(j),
         ValidEvent(j, Len(j), e), e.claim # NoClaim, NEW l \in 1 .. Len(j),
         Claiming(j[l], e.inst, e.claim.op, e.claim.key)
  PROVE  j[l].claim.fp = e.claim.fp /\ j[l].run = e.run
<1> DEFINE c == ClaimedBy(j, Len(j), e.inst, e.claim.op, e.claim.key)
<1>1. PICK k \in 1 .. Len(j) :
        /\ IsFirstClaim(j, Len(j), e.inst, e.claim.op, e.claim.key, k) /\ c = j[k]
  BY ClaimedCases
<1>2. Claiming(j[k], e.inst, e.claim.op, e.claim.key)
  BY <1>1 DEF IsFirstClaim
<1>3. j[k] \in Events /\ j[k] # NoView
  <2>0. j[k] \in Events
    OBVIOUS
  <2>1. j[k].run \in Runs
    BY <2>0 DEF Events
  <2>2. NoView.run = None
    BY DEF NoView
  <2> QED
    BY <2>0, <2>1, <2>2, NoneIsNoElement
<1>4. c.claim.fp = e.claim.fp /\ c.run = e.run
  BY <1>1, <1>3 DEF ValidEvent, ValidClaim
<1>5. e.claim.op \in {"start", "stop"}
  BY DEF Events, Claims
<1>6. j[l].claim # NoClaim
  BY <1>5 DEF Claiming, NoClaim
<1>7. Claiming(j[k], j[l].inst, j[l].claim.op, j[l].claim.key)
  BY <1>2 DEF Claiming
<1>8. j[l].claim.fp = j[k].claim.fp /\ j[l].run = j[k].run
  BY <1>6, <1>7 DEF ClaimsAgreeIn
<1> QED
  BY <1>1, <1>4, <1>8

LEMMA ClaimsAgreeAppend ==
  ASSUME NEW j \in Seq(Events), NEW e \in Events, ClaimsAgreeIn(j), ValidEvent(j, Len(j), e)
  PROVE  ClaimsAgreeIn(Append(j, e))
<1> DEFINE a == Append(j, e)
           n == Len(j)
<1>1. /\ DOMAIN a = 1 .. n + 1 /\ a[n + 1] = e /\ n \in Nat
      /\ \A k \in 1..n : a[k] = j[k]
  BY AppendIndex
<1> HIDE DEF a
<1> SUFFICES ASSUME NEW k \in 1 .. n + 1, NEW l \in 1 .. n + 1, a[k].claim # NoClaim,
                    Claiming(a[l], a[k].inst, a[k].claim.op, a[k].claim.key)
             PROVE  a[k].claim.fp = a[l].claim.fp /\ a[k].run = a[l].run
  BY <1>1 DEF ClaimsAgreeIn, a
<1>2. CASE k \in 1..n /\ l \in 1..n
  BY <1>1, <1>2 DEF ClaimsAgreeIn
<1>3. CASE k = n + 1 /\ l \in 1..n
  BY <1>1, <1>3, ValidClaimAgrees
<1>4. CASE k \in 1..n /\ l = n + 1
  <2>1. j[k] \in Events /\ j[k].claim \in Claims /\ e.claim.op \in {"start", "stop"}
    <3>1. j[k] \in Events /\ a[k] = j[k] /\ a[l] = e
      BY <1>1, <1>4
    <3>2. j[k].claim \in Claims
      BY <3>1 DEF Events
    <3>3. j[k].claim.op \in {"start", "stop"} /\ e.claim.op = j[k].claim.op
      BY <3>1, <3>2 DEF Claims, Claiming
    <3> QED
      BY <3>1, <3>2, <3>3
  <2>2. e.claim # NoClaim /\ Claiming(j[k], e.inst, e.claim.op, e.claim.key)
    BY <1>1, <1>4, <2>1 DEF Claiming, NoClaim
  <2> QED
    BY <1>1, <1>4, <2>2, ValidClaimAgrees
<1>5. CASE k = n + 1 /\ l = n + 1
  BY <1>5
<1> QED
  BY <1>1, <1>2, <1>3, <1>4, <1>5

-----------------------------------------------------------------------------
(* The journal of the registry.                                            *)

\* The journal after one step.
Grows == \/ journal' = journal
         \/ \E e \in Events : /\ ValidEvent(journal, Len(journal), e)
                              /\ journal' = Append(journal, e)

\* What lands is valid at the end of the journal: the compare-and-append
\* succeeds only where the Host has replayed everything.
LEMMA LandGrows ==
  ASSUME TypeInv, NEW h \in Hosts, NEW w \in Tasks, task[h][w].ev # NoView, Land(h, w)
  PROVE  Grows
<1>1. task[h][w].ev \in Events
  BY LandType DEF TypeInv
<1> QED
  BY <1>1 DEF Grows, Land, CasWins

LEMMA CommittedGrows ==
  ASSUME TypeInv, NEW h \in Hosts, NEW w \in Tasks,
         \/ StartingCommitted(h, w) \/ FailedCommitted(h, w) \/ RunningCommitted(h, w)
         \/ ResumeCommitted(h, w) \/ StoppingCommitted(h, w) \/ TerminalCommitted(h, w)
         \/ RestartCommitted(h, w) \/ DisconnectCommitted(h, w)
  PROVE  Grows
<1>1. task[h][w].ev # NoView /\ Land(h, w)
  BY DEF Appending, Commit, StartingCommitted, FailedCommitted, RunningCommitted,
         ResumeCommitted, StoppingCommitted, TerminalCommitted, RestartCommitted,
         DisconnectCommitted
<1> QED
  BY <1>1, LandGrows

LEMMA StepGrows ==
  ASSUME TypeInv, NEW h \in Hosts, NEW w \in Tasks, Step(h, w)
  PROVE  Grows
<1> USE DEF Grows, durable
<1>1. CASE ClaimStart(h, w) \/ Activate(h, w) \/ FailStart(h, w) \/ CommitStart(h, w)
  BY <1>1 DEF ClaimStart, Activate, FailStart, CommitStart
<1>2. CASE StopHeldActivation(h, w) \/ ResumeStart(h, w) \/ Loss(h, w) \/ Complete(h, w)
  BY <1>2 DEF StopHeldActivation, ResumeStart, Loss, Complete
<1>3. CASE Cleanup(h, w) \/ DriverStop(h, w) \/ Finish(h, w) \/ CasLost(h, w)
  BY <1>3 DEF Cleanup, DriverStop, Finish, CasLost
<1>4. CASE Hydrate(h, w) \/ NextRun(h, w) \/ PassEnds(h, w)
  BY <1>4 DEF Hydrate, NextRun, PassEnds
<1> QED
  BY <1>1, <1>2, <1>3, <1>4, CommittedGrows DEF Step

LEMMA JournalStep == TypeInv /\ [Next]_vars => Grows
<1> SUFFICES ASSUME TypeInv, [Next]_vars PROVE Grows
  OBVIOUS
<1>1. CASE UNCHANGED vars
  BY <1>1 DEF vars, Grows
<1>2. ASSUME NEW h \in Hosts, NEW w \in Tasks, Failure(h, w) PROVE Grows
  BY <1>2, CommittedGrows
          DEF Failure, PrepareFails, AppendFails, SyncFails, HydrateFails, Halt,
              Disconnect, durable, Grows
<1>3. ASSUME NEW h \in Hosts, NEW w \in Tasks, Requests(h, w) PROVE Grows
  BY ZenonT(60), <1>3 DEF Requests, Start, Stop, PackageActivationLost, durable, Grows
<1>4. ASSUME NEW h \in Hosts,
             \/ \E w \in Workers : Boot(h, w)
             \/ Crash(h) \/ Observe(h) \/ Wake(h) \/ Scan(h) \/ ScanTerminal(h)
      PROVE  Grows
  BY <1>4 DEF Boot, Crash, Halt, Observe, Wake, Scan, ScanTerminal, durable, Grows
<1> QED
  BY <1>1, <1>2, <1>3, <1>4, StepGrows DEF Next

-----------------------------------------------------------------------------
(* Invariants of the journal.                                              *)

JournalInv == JournalReplays /\ OneActiveRun /\ ClaimsAgree

LEMMA JournalInvMeaning ==
  JournalInv <=> Replays(journal) /\ OneActiveIn(journal) /\ ClaimsAgreeIn(journal)
BY DEF JournalInv, JournalReplays, OneActiveRun, ClaimsAgree, Replays, OneActiveIn,
       ClaimsAgreeIn, Now

LEMMA JournalInvMeaningNext ==
  JournalInv' <=> Replays(journal') /\ OneActiveIn(journal') /\ ClaimsAgreeIn(journal')
BY DEF JournalInv, JournalReplays, OneActiveRun, ClaimsAgree, Replays, OneActiveIn,
       ClaimsAgreeIn, Now

LEMMA JournalInvInit == Init => JournalInv
<1> SUFFICES ASSUME Init PROVE JournalInv
  OBVIOUS
<1>1. journal = <<>> /\ Len(journal) = 0 /\ DOMAIN journal = {}
  BY DEF Init
<1>2. \A r : Latest(journal, 0, r) = NoView
  BY LatestNone
<1>3. NoView.status \notin ActiveStatuses
  BY DEF NoView, ActiveStatuses
<1> QED
  BY <1>1, <1>2, <1>3 DEF JournalInv, JournalReplays, OneActiveRun, ClaimsAgree, Now

LEMMA JournalInvNext == TypeInv /\ JournalInv /\ [Next]_vars => JournalInv'
<1> SUFFICES ASSUME TypeInv, JournalInv, [Next]_vars PROVE JournalInv'
  OBVIOUS
<1>1. Grows
  BY JournalStep
<1>2. CASE journal' = journal
  BY <1>2, JournalInvMeaning, JournalInvMeaningNext
<1>3. CASE \E e \in Events : /\ ValidEvent(journal, Len(journal), e)
                             /\ journal' = Append(journal, e)
  <2>1. PICK e \in Events : /\ ValidEvent(journal, Len(journal), e)
                            /\ journal' = Append(journal, e)
    BY <1>3
  <2>2. journal \in Seq(Events)
    BY DEF TypeInv, TypeOK, JournalType
  <2>3. Replays(journal) /\ OneActiveIn(journal) /\ ClaimsAgreeIn(journal)
    BY JournalInvMeaning
  <2>4. /\ Replays(Append(journal, e)) /\ OneActiveIn(Append(journal, e))
        /\ ClaimsAgreeIn(Append(journal, e))
    BY <2>1, <2>2, <2>3, ReplaysAppend, OneActiveAppend, ClaimsAgreeAppend
  <2> QED
    BY <2>1, <2>4, JournalInvMeaningNext
<1> QED
  BY <1>1, <1>2, <1>3 DEF Grows

\* No Host ever appends an event that replay rejects.
THEOREM JournalAlwaysReplays == Spec => []JournalReplays
<1>1. JournalInv => JournalReplays
  BY DEF JournalInv
<1> QED
  BY <1>1, TypeInit, TypeNext, JournalInvInit, JournalInvNext, PTL DEF Spec

\* At most one Run of an Installation is active.
THEOREM AtMostOneActiveRun == Spec => []OneActiveRun
<1>1. JournalInv => OneActiveRun
  BY DEF JournalInv
<1> QED
  BY <1>1, TypeInit, TypeNext, JournalInvInit, JournalInvNext, PTL DEF Spec

\* An idempotency key stands for one request and one Run.
THEOREM ClaimsAlwaysAgree == Spec => []ClaimsAgree
<1>1. JournalInv => ClaimsAgree
  BY DEF JournalInv
<1> QED
  BY <1>1, TypeInit, TypeNext, JournalInvInit, JournalInvNext, PTL DEF Spec

-----------------------------------------------------------------------------
(* Terminal Runs.                                                          *)

LEMMA NowAppend ==
  ASSUME TypeInv, NEW e \in Events, journal' = Append(journal, e), NEW r
  PROVE  Now(r)' = IF e.run = r THEN e ELSE Now(r)
<1>1. journal \in Seq(Events)
  BY DEF TypeInv, TypeOK, JournalType
<1>2. Len(journal') = Len(journal) + 1
  BY <1>1, AppendIndex
<1>3. Latest(Append(journal, e), Len(journal) + 1, r)
        = IF e.run = r THEN e ELSE Latest(journal, Len(journal), r)
  BY <1>1, LatestAppend
<1> QED
  BY <1>2, <1>3 DEF Now

TerminalKept == \A r \in Runs : Now(r).status \in TerminalStatuses => Now(r)' = Now(r)

LEMMA TerminalStep == TypeInv /\ [Next]_vars => TerminalKept
<1> SUFFICES ASSUME TypeInv, [Next]_vars, NEW r \in Runs,
                    Now(r).status \in TerminalStatuses
             PROVE  Now(r)' = Now(r)
  BY DEF TerminalKept
<1>1. CASE journal' = journal
  BY <1>1 DEF Now
<1>2. ASSUME NEW e \in Events, ValidEvent(journal, Len(journal), e),
             journal' = Append(journal, e)
      PROVE  Now(r)' = Now(r)
  <2>1. Now(e.run).status \in ActiveStatuses \cup {"none"}
    BY <1>2, ValidFrom DEF Now
  <2>2. e.run # r
    BY <2>1 DEF ActiveStatuses, TerminalStatuses
  <2> QED
    BY <1>2, <2>2, NowAppend
<1> QED
  BY <1>1, <1>2, JournalStep DEF Grows

\* A Run that has ended keeps its view forever.
THEOREM TerminalRunsAreFinal == Spec => TerminalIsFinal
<1>1. TypeInv /\ [Next]_vars =>
        [\A r \in Runs : Now(r).status \in TerminalStatuses => Now(r)' = Now(r)]_vars
  BY TerminalStep DEF TerminalKept
<1> QED
  BY <1>1, TypeInit, TypeNext, PTL DEF Spec, TerminalIsFinal

-----------------------------------------------------------------------------
(* The ledger.                                                             *)

View == [r \in Runs |-> [inst |-> Now(r).inst, status |-> Now(r).status]]
Bound == {<<journal[k].inst, journal[k].claim, journal[k].run>> :
            k \in {l \in DOMAIN journal : journal[l].claim # NoClaim}}

\* The claims after an append.
LEMMA BoundAppend ==
  ASSUME TypeInv, NEW e \in Events, journal' = Append(journal, e)
  PROVE  Bound' = IF e.claim = NoClaim THEN Bound
                  ELSE Bound \cup {<<e.inst, e.claim, e.run>>}
<1>1. journal \in Seq(Events)
  BY DEF TypeInv, TypeOK, JournalType
<1>2. /\ DOMAIN journal' = 1 .. Len(journal) + 1
      /\ DOMAIN journal = 1 .. Len(journal) /\ Len(journal) \in Nat
      /\ \A k \in 1 .. Len(journal) : journal'[k] = journal[k]
      /\ journal'[Len(journal) + 1] = e
  BY <1>1, AppendIndex
<1>3. ASSUME NEW b
      PROVE  b \in Bound' <=> b \in Bound \/ (e.claim # NoClaim /\ b = <<e.inst, e.claim, e.run>>)
  <2>1. b \in Bound' <=>
          \E k \in 1 .. Len(journal) + 1 :
            journal'[k].claim # NoClaim
              /\ b = <<journal'[k].inst, journal'[k].claim, journal'[k].run>>
    BY <1>2 DEF Bound
  <2>2. b \in Bound <=>
          \E k \in 1 .. Len(journal) :
            journal[k].claim # NoClaim
              /\ b = <<journal[k].inst, journal[k].claim, journal[k].run>>
    BY <1>2 DEF Bound
  <2> QED
    BY <1>2, <2>1, <2>2
<1> QED
  BY <1>3

\* The views after an append.
LEMMA ViewAppend ==
  ASSUME TypeInv, NEW e \in Events, journal' = Append(journal, e)
  PROVE  View' = [View EXCEPT ![e.run] = [inst |-> e.inst, status |-> e.status]]
<1>1. e.run \in Runs
  BY DEF Events
<1>2. \A r \in Runs : Now(r)' = IF e.run = r THEN e ELSE Now(r)
  BY NowAppend
<1> QED
  BY <1>1, <1>2 DEF View

\* A valid claim binds an unbound key or repeats a binding.
LEMMA ClaimStep ==
  ASSUME TypeInv, JournalInv, NEW e \in Events, ValidEvent(journal, Len(journal), e),
         journal' = Append(journal, e)
  PROVE  Ledger!Claim(e.inst, e.run)
<1>1. CASE e.claim = NoClaim
  <2>1. Bound' = Bound
    BY <1>1, BoundAppend
  <2> QED
    BY <2>1 DEF Ledger!Claim, Bound
<1>2. CASE e.claim # NoClaim
  <2> DEFINE b == <<e.inst, e.claim, e.run>>
  <2>1. Bound' = Bound \cup {b}
    BY <1>2, BoundAppend
  <2>2. b \in Bound' /\ b[1] = e.inst /\ b[2] = e.claim /\ b[3] = e.run /\ b[2] \in Claims
    BY <1>2, <2>1 DEF Events
  <2>3. ASSUME NEW d \in Bound, d[1] = e.inst, d[2].op = e.claim.op, d[2].key = e.claim.key
        PROVE  d = b
    <3>1. journal \in Seq(Events) /\ ClaimsAgreeIn(journal)
      BY JournalInvMeaning DEF TypeInv, TypeOK, JournalType
    <3>2. PICK k \in 1 .. Len(journal) :
            /\ journal[k].claim # NoClaim
            /\ d = <<journal[k].inst, journal[k].claim, journal[k].run>>
      BY <3>1 DEF Bound
    <3>3. journal[k] \in Events
      BY <3>1
    <3>4. Claiming(journal[k], e.inst, e.claim.op, e.claim.key)
      BY <2>3, <3>2 DEF Claiming
    <3>5. journal[k].claim.fp = e.claim.fp /\ journal[k].run = e.run
      BY <1>2, <3>1, <3>4, ValidClaimAgrees
    <3>6. journal[k].claim \in Claims /\ e.claim \in Claims
      BY <1>2, <3>2, <3>3 DEF Events
    <3>7. journal[k].claim = e.claim
      BY <3>4, <3>5, <3>6 DEF Claims, Claiming
    <3> QED
      BY <2>3, <3>2, <3>5, <3>7
  <2> QED
    BY <2>1, <2>2, <2>3 DEF Ledger!Claim, Bound
<1> QED
  BY <1>1, <1>2

LEMMA LedgerStep ==
  ASSUME TypeInv, JournalInv, NEW e \in Events, ValidEvent(journal, Len(journal), e),
         journal' = Append(journal, e)
  PROVE  Ledger!LedgerNext
<1>1. e.run \in Runs /\ e.inst \in Installations /\ e.status \in ActiveStatuses \cup TerminalStatuses
  BY DEF Events
<1>2. View' = [View EXCEPT ![e.run] = [inst |-> e.inst, status |-> e.status]]
  BY ViewAppend
<1>3. Ledger!Claim(e.inst, e.run)
  BY ClaimStep
<1>4. \A r \in Runs : View[r].inst = Now(r).inst /\ View[r].status = Now(r).status
  BY DEF View
<1>5. CASE Known(journal, Len(journal), e.run)
  <2>1. /\ Now(e.run).inst = e.inst
        /\ <<Now(e.run).status, e.status>> \in Transitions
    BY <1>5 DEF ValidEvent, ValidMutation, Now
  <2>2. e.status \in Ledger!After(View[e.run].status)
    BY <1>1, <1>4, <2>1 DEF Transitions, Ledger!After, Ledger!Terminal
  <2>3. View' = [View EXCEPT ![e.run].status = e.status]
    BY <1>1, <1>2, <1>4, <2>1 DEF View
  <2>4. Ledger!Advance(e.run, e.status)
    BY <1>1, <1>3, <1>4, <2>1, <2>2, <2>3 DEF Ledger!Advance, View
  <2> QED
    BY <1>1, <2>4
       DEF Ledger!LedgerNext, Ledger!Active, Ledger!Terminal, ActiveStatuses, TerminalStatuses
<1>6. CASE ~Known(journal, Len(journal), e.run)
  <2>1. /\ Now(e.run).status = "none" /\ e.status = "starting"
        /\ \A s \in Runs : Now(s).status \in ActiveStatuses => Now(s).inst # e.inst
    BY <1>6 DEF ValidEvent, ValidIntroduction, Known, IsActive, Now
  <2>2. Ledger!Begin(e.run, e.inst)
    BY <1>1, <1>2, <1>3, <1>4, <2>1 DEF Ledger!Begin, Ledger!Active, ActiveStatuses, View
  <2> QED
    BY <1>1, <2>2 DEF Ledger!LedgerNext
<1> QED
  BY <1>5, <1>6

\* The registry implements the ledger.
THEOREM ImplementsLedger == Spec => LedgerRefinement
<1>1. Init => Ledger!LedgerInit
  <2> SUFFICES ASSUME Init PROVE Ledger!LedgerInit
    OBVIOUS
  <2>1. journal = <<>> /\ Len(journal) = 0 /\ DOMAIN journal = {}
    BY DEF Init
  <2>2. \A r \in Runs : Now(r) = NoView
    BY <2>1, LatestNone DEF Now
  <2>3. NoView.inst = None /\ NoView.status = "none"
    BY DEF NoView
  <2> QED
    BY <2>1, <2>2, <2>3 DEF Ledger!LedgerInit
<1>2. TypeInv /\ JournalInv /\ [Next]_vars => [Ledger!LedgerNext]_(Ledger!ledgerVars)
  <2> SUFFICES ASSUME TypeInv, JournalInv, [Next]_vars
               PROVE  Ledger!LedgerNext \/ UNCHANGED Ledger!ledgerVars
    OBVIOUS
  <2>1. CASE journal' = journal
    BY <2>1 DEF Ledger!ledgerVars, Now
  <2>2. ASSUME NEW e \in Events, ValidEvent(journal, Len(journal), e),
               journal' = Append(journal, e)
        PROVE  Ledger!LedgerNext
    BY <2>2, LedgerStep
  <2> QED
    BY <2>1, <2>2, JournalStep DEF Grows
<1> QED
  BY <1>1, <1>2, TypeInit, TypeNext, JournalInvInit, JournalInvNext, PTL
     DEF Spec, LedgerRefinement, Ledger!LedgerSpec

-----------------------------------------------------------------------------
(* Repeated starts.                                                        *)

\* The start request (i, key, fp) is the one that made Run r.
Made(j, i, key, fp, r) ==
  LET c == ClaimedBy(j, Len(j), i, "start", key)
  IN  c.run = r /\ c.claim.fp = fp

\* A start request that works on a Run works on the Run of its claim, and the
\* event with which it is about to claim a Run is its own.
Traced(j, t) ==
  t.role = "request" /\ t.fp \in StartRequests =>
    /\ t.pc = "claim" /\ t.ev # NoView =>
         /\ t.ev.inst = t.inst /\ t.ev.run = t.run
         /\ t.ev.claim = [op |-> "start", key |-> t.key, fp |-> t.fp]
    /\ t.pc \in RunPoints => Made(j, t.inst, t.key, t.fp, t.run)

\* Only recovery and the supervisor work off a list.
ListIsNoRequest(t) == t.pc \in {"loop", "hydrate"} => t.role # "request"

TraceInv ==
  /\ StartReplays
  /\ \A h \in Hosts, w \in Tasks :
       Traced(journal, task[h][w]) /\ ListIsNoRequest(task[h][w])

LEMMA MadeStays ==
  ASSUME TypeInv, Grows, NEW i, NEW key, NEW fp, NEW r \in Runs,
         Made(journal, i, key, fp, r)
  PROVE  Made(journal', i, key, fp, r)
<1> DEFINE c == ClaimedBy(journal, Len(journal), i, "start", key)
<1>1. CASE journal' = journal
  BY <1>1 DEF Made
<1>2. ASSUME NEW e \in Events, journal' = Append(journal, e)
      PROVE  Made(journal', i, key, fp, r)
  <2>1. journal \in Seq(Events)
    BY DEF TypeInv, TypeOK, JournalType
  <2>2. c.run = r /\ c.claim.fp = fp
    BY DEF Made
  <2>3. c # NoView
    <3>1. NoView.run = None
      BY DEF NoView
    <3> QED
      BY <2>2, <3>1, NoneIsNoElement
  <2>4. ClaimedBy(journal', Len(journal) + 1, i, "start", key) = c
    BY <1>2, <2>1, <2>3, ClaimedKept
  <2>5. Len(journal') = Len(journal) + 1
    BY <1>2, <2>1
  <2> QED
    BY <2>2, <2>4, <2>5 DEF Made
<1> QED
  BY <1>1, <1>2 DEF Grows

\* What a task and the answers say of a claim stays true while the journal grows.
LEMMA TraceStays ==
  ASSUME TypeInv, TraceInv, Grows
  PROVE  /\ \A h \in Hosts, w \in Tasks : Traced(journal', task[h][w])
         /\ \A a \in answered :
              a.fp \in StartRequests => Made(journal', a.inst, a.key, a.fp, a.run)
<1>1. ASSUME NEW h \in Hosts, NEW w \in Tasks PROVE Traced(journal', task[h][w])
  <2>1. Traced(journal, task[h][w]) /\ TaskKnows(task[h][w])
    BY DEF TraceInv, TypeInv, TasksKnow
  <2>2. task[h][w].pc \in RunPoints => task[h][w].run \in Runs
    BY <2>1 DEF TaskKnows
  <2> QED
    BY <2>1, <2>2, MadeStays DEF Traced
<1>2. ASSUME NEW a \in answered, a.fp \in StartRequests
      PROVE  Made(journal', a.inst, a.key, a.fp, a.run)
  <2>1. a.run \in Runs
    BY DEF TypeInv, TypeOK, Answers
  <2>2. Made(journal, a.inst, a.key, a.fp, a.run)
    BY <1>2 DEF TraceInv, StartReplays, Made
  <2> QED
    BY <2>1, <2>2, MadeStays
<1> QED
  BY <1>1, <1>2

\* One task moves, and at most one answer is given.
LEMMA MoveTraced ==
  ASSUME TypeInv, TraceInv, Grows, NEW h \in Hosts, NEW w \in Tasks, NEW u, SetTask(h, w, u),
         Traced(journal', u), ListIsNoRequest(u),
         \A a \in answered' \ answered :
           a.fp \in StartRequests => Made(journal', a.inst, a.key, a.fp, a.run)
  PROVE  TraceInv'
<1>1. /\ \A g \in Hosts, v \in Tasks : Traced(journal', task[g][v])
      /\ \A a \in answered :
           a.fp \in StartRequests => Made(journal', a.inst, a.key, a.fp, a.run)
  BY TraceStays
<1>2. StartReplays'
  BY <1>1 DEF StartReplays, Made
<1>3. ASSUME NEW g \in Hosts, NEW v \in Tasks
      PROVE  Traced(journal', task'[g][v]) /\ ListIsNoRequest(task'[g][v])
  <2>1. task'[g][v] = IF g = h /\ v = w THEN u ELSE task[g][v]
    BY DEF SetTask, TypeInv, TypeOK
  <2> QED
    BY <1>1, <2>1 DEF TraceInv
<1> QED
  BY <1>2, <1>3 DEF TraceInv

\* A task that is no request, or whose start has claimed nothing yet.
LEMMA OtherTraced ==
  ASSUME TypeInv, TraceInv, Grows, NEW h \in Hosts, NEW w \in Tasks, NEW u, SetTask(h, w, u),
         answered' = answered,
         \/ u.role # "request"
         \/ u.pc \notin RunPoints \cup {"loop", "hydrate"} /\ u.ev = NoView
         \/ u.pc \notin {"loop", "hydrate"} /\ u.fp \notin StartRequests
  PROVE  TraceInv'
<1>1. Traced(journal', u) /\ ListIsNoRequest(u)
  BY DEF Traced, ListIsNoRequest
<1> QED
  BY <1>1, MoveTraced

SameStart(t, u) ==
  /\ u.role = t.role /\ u.inst = t.inst /\ u.key = t.key /\ u.fp = t.fp /\ u.run = t.run

\* A task goes on with its Run.
LEMMA GoOnTraced ==
  ASSUME TypeInv, TraceInv, Grows, NEW h \in Hosts, NEW w \in Tasks, NEW u, SetTask(h, w, u),
         answered' = answered, task[h][w].pc \in RunPoints, u.pc \in RunPoints,
         SameStart(task[h][w], u)
  PROVE  TraceInv'
<1>1. Traced(journal', task[h][w])
  BY TraceStays
<1>2. "claim" \notin RunPoints /\ "loop" \notin RunPoints /\ "hydrate" \notin RunPoints
  BY DEF RunPoints
<1>3. Traced(journal', u) /\ ListIsNoRequest(u)
  BY <1>1, <1>2 DEF Traced, ListIsNoRequest, SameStart
<1> QED
  BY <1>3, MoveTraced

\* A task returns; a request that returns with an answer worked on its Run.
LEMMA ReturnTraced ==
  ASSUME TypeInv, TraceInv, Grows, NEW h \in Hosts, NEW w \in Tasks, NEW ok \in BOOLEAN,
         Return(h, w, ok), ok => task[h][w].pc \in RunPoints
  PROVE  TraceInv'
<1> DEFINE t == task[h][w]
<1>1. SetTask(h, w, AfterTask(t, ok))
  BY DEF Return
<1>2. AfterTask(t, ok).role # "request"
  BY DEF AfterTask, IdleTask
<1>3. Traced(journal', AfterTask(t, ok)) /\ ListIsNoRequest(AfterTask(t, ok))
  BY <1>2 DEF Traced, ListIsNoRequest
<1>4. Traced(journal', t)
  BY TraceStays
<1>5. \A a \in answered' \ answered :
        a.fp \in StartRequests => Made(journal', a.inst, a.key, a.fp, a.run)
  <2>1. CASE ok /\ t.role = "request"
    <3>1. answered' = answered \cup {Answer(t, t.run)}
      BY <2>1 DEF Return
    <3>2. t.fp \in StartRequests => Made(journal', t.inst, t.key, t.fp, t.run)
      BY <1>4, <2>1 DEF Traced
    <3> QED
      BY <3>1, <3>2 DEF Answer
  <2>2. CASE ~(ok /\ t.role = "request")
    BY <2>2 DEF Return
  <2> QED
    BY <2>1, <2>2
<1> QED
  BY <1>1, <1>3, <1>5, MoveTraced

\* The process ends.
LEMMA HaltTraced ==
  ASSUME TypeInv, TraceInv, NEW h \in Hosts, Halt(h)
  PROVE  TraceInv'
<1>1. journal' = journal /\ answered' = answered
  BY DEF Halt, durable
<1>2. StartReplays'
  BY <1>1 DEF TraceInv, StartReplays
<1>3. Traced(journal, IdleTask) /\ ListIsNoRequest(IdleTask)
  BY DEF Traced, ListIsNoRequest, IdleTask
<1>4. ASSUME NEW g \in Hosts, NEW v \in Tasks
      PROVE  task'[g][v] = IdleTask \/ task'[g][v] = task[g][v]
  BY DEF Halt, TypeInv, TypeOK
<1> QED
  BY <1>1, <1>2, <1>3, <1>4 DEF TraceInv

\* A start finds its claim: it resumes the Run of the claim or answers with it.
LEMMA ReplayTraced ==
  ASSUME TypeInv, TraceInv, journal' = journal, NEW h \in Hosts, NEW w \in Tasks,
         NEW t \in TaskStates, t.pc = "claim", t.role = "request",
         NEW c, c = ClaimedBy(journal, Len(journal), t.inst, "start", t.key),
         ReplayStart(h, w, t, c)
  PROVE  TraceInv'
<1> DEFINE u == [t EXCEPT !.run = c.run, !.pc = "resume"]
<1>0. Grows
  BY DEF Grows
<1>1. SameRequest(c, t.fp) => Made(journal', t.inst, t.key, t.fp, c.run)
  BY DEF Made, SameRequest
<1>2. CASE ~SameRequest(c, t.fp)
  <2>1. SetTask(h, w, IdleTask) /\ answered' = answered
    BY <1>2 DEF ReplayStart
  <2>2. IdleTask.role # "request"
    BY DEF IdleTask
  <2> QED
    BY <1>0, <2>1, <2>2, OtherTraced
<1>3. CASE SameRequest(c, t.fp) /\ Now(c.run).status = "starting"
  <2>1. SetTask(h, w, u) /\ answered' = answered
    BY <1>3 DEF ReplayStart
  <2>2. /\ u.pc = "resume" /\ u.role = "request" /\ u.inst = t.inst /\ u.key = t.key
        /\ u.fp = t.fp /\ u.run = c.run
    BY DEF TaskStates
  <2> HIDE DEF u
  <2>3. Traced(journal', u) /\ ListIsNoRequest(u)
    BY <1>1, <1>3, <2>2 DEF Traced, ListIsNoRequest
  <2> QED
    BY <1>0, <2>1, <2>3, MoveTraced
<1>4. CASE SameRequest(c, t.fp) /\ Now(c.run).status # "starting"
  <2>1. SetTask(h, w, IdleTask) /\ answered' = answered \cup {Answer(t, c.run)}
    BY <1>4 DEF ReplayStart
  <2>2. Traced(journal', IdleTask) /\ ListIsNoRequest(IdleTask)
    BY DEF Traced, ListIsNoRequest, IdleTask
  <2>3. \A a \in answered' \ answered :
          a.fp \in StartRequests => Made(journal', a.inst, a.key, a.fp, a.run)
    BY <1>1, <1>4, <2>1 DEF Answer
  <2> QED
    BY <1>0, <2>1, <2>2, <2>3, MoveTraced
<1> QED
  BY <1>2, <1>3, <1>4

LEMMA StartTraced ==
  ASSUME TypeInv, TraceInv, NEW h \in Hosts, NEW w \in Tasks, NEW i \in Installations,
         NEW key \in Keys, NEW fp \in StartRequests, Start(h, w, i, key, fp)
  PROVE  TraceInv'
<1> DEFINE t == [IdleTask EXCEPT !.pc = "claim", !.role = "request", !.inst = i,
                                 !.key = key, !.fp = fp]
           c == ClaimedBy(journal, Len(journal), i, "start", key)
<1>1. /\ t \in TaskStates /\ t.pc = "claim" /\ t.role = "request" /\ t.inst = i
      /\ t.key = key /\ t.ev = NoView
  BY DEF IdleTask, TaskStates, Points, Roles, Reasons, Fingerprints
<1>2. journal' = journal
  BY DEF Start, durable
<1>3. CASE c = NoView
  <2>1. SetTask(h, w, t) /\ answered' = answered
    BY <1>3 DEF Start
  <2>2. t.pc \notin RunPoints \cup {"loop", "hydrate"}
    BY <1>1 DEF RunPoints
  <2> HIDE DEF t
  <2> QED
    BY <1>1, <1>2, <2>1, <2>2, OtherTraced DEF Grows
<1>4. CASE c # NoView
  <2>1. ReplayStart(h, w, t, c)
    BY <1>4 DEF Start
  <2> HIDE DEF t
  <2> QED
    BY <1>1, <1>2, <2>1, ReplayTraced
<1> QED
  BY <1>3, <1>4

LEMMA ClaimStartTraced ==
  ASSUME TypeInv, TraceInv, NEW h \in Hosts, NEW w \in Tasks, ClaimStart(h, w)
  PROVE  TraceInv'
<1> DEFINE t == task[h][w]
           c == ClaimedBy(journal, Len(journal), t.inst, "start", t.key)
<1>1. /\ t \in TaskStates /\ t.pc = "claim" /\ t.role = "request" /\ t.ev = NoView
  BY DEF ClaimStart, At, TypeInv, TypeOK, TasksKnow, TaskKnows
<1>2. journal' = journal
  BY DEF ClaimStart, durable
<1>3. Grows
  BY <1>2 DEF Grows
<1>4. CASE ReplayStart(h, w, t, c)
  BY <1>1, <1>2, <1>4, ReplayTraced
<1>5. CASE Return(h, w, FALSE)
  BY <1>3, <1>5, ReturnTraced
<1>6. ASSUME NEW r \in Runs, answered' = answered,
             Propose(h, w, [t EXCEPT !.run = r], StartingRun(r, t.inst, t.key, t.fp))
      PROVE  TraceInv'
  <2> DEFINE e == StartingRun(r, t.inst, t.key, t.fp)
             u == [[t EXCEPT !.run = r] EXCEPT !.ev = e]
  <2>1. SetTask(h, w, u)
    BY <1>6 DEF Propose
  <2>2. /\ u.pc = "claim" /\ u.role = "request" /\ u.inst = t.inst /\ u.key = t.key
        /\ u.fp = t.fp /\ u.run = r /\ u.ev = e
    BY <1>1 DEF TaskStates
  <2>3. e.inst = t.inst /\ e.run = r /\ e.claim = [op |-> "start", key |-> t.key, fp |-> t.fp]
    BY DEF StartingRun
  <2>4. "claim" \notin RunPoints
    BY DEF RunPoints
  <2> HIDE DEF u, e
  <2>5. Traced(journal', u) /\ ListIsNoRequest(u)
    BY <2>2, <2>3, <2>4 DEF Traced, ListIsNoRequest
  <2> QED
    BY <1>3, <1>6, <2>1, <2>5, MoveTraced
<1> QED
  BY <1>4, <1>5, <1>6 DEF ClaimStart

\* The claim lands: the Run of the start is the one that its key now stands for.
LEMMA StartingTraced ==
  ASSUME TypeInv, TraceInv, JournalInv, NEW h \in Hosts, NEW w \in Tasks,
         StartingCommitted(h, w)
  PROVE  TraceInv'
<1> DEFINE t == task[h][w]
           e == t.ev
           u == Resumed(h, w, "activate")
           n == Len(journal)
<1>1. Grows
  BY CommittedGrows
<1>2. /\ t.pc = "claim" /\ e # NoView /\ Land(h, w) /\ SetTask(h, w, u)
      /\ answered' = answered
  BY DEF StartingCommitted, Appending, Commit, Goto
<1>3. e \in Events /\ journal \in Seq(Events) /\ t \in TaskStates
  BY <1>2, LandType DEF TypeInv, TypeOK, JournalType
<1>4. /\ u.pc = "activate" /\ u.role = t.role /\ u.inst = t.inst /\ u.key = t.key
      /\ u.fp = t.fp /\ u.run = t.run
  BY <1>3 DEF Resumed, TaskStates
<1>5. ValidEvent(journal, n, e) /\ journal' = Append(journal, e) /\ n \in Nat
  BY <1>2, <1>3 DEF Land, CasWins
<1> HIDE DEF u, n
<1>6. ASSUME t.role = "request", t.fp \in StartRequests
      PROVE  Made(journal', t.inst, t.key, t.fp, t.run)
  <2> DEFINE c == ClaimedBy(journal', n + 1, t.inst, "start", t.key)
  <2>1. /\ e.inst = t.inst /\ e.run = t.run
        /\ e.claim = [op |-> "start", key |-> t.key, fp |-> t.fp]
    BY <1>2, <1>6 DEF TraceInv, Traced
  <2>2. n + 1 \in Nat /\ Len(journal') = n + 1 /\ journal'[n + 1] = e
        /\ \A k \in 1..n : journal'[k] = journal[k]
    BY <1>3, <1>5, AppendIndex DEF n
  <2>3. Claiming(e, t.inst, "start", t.key) /\ e.claim # NoClaim
    BY <2>1 DEF Claiming, NoClaim
  <2>4. PICK k \in 1 .. n + 1 : c = journal'[k] /\ Claiming(journal'[k], t.inst, "start", t.key)
    <3>1. n + 1 \in 1 .. n + 1
      BY <1>5
    <3> QED
      BY <2>2, <2>3, <3>1, ClaimedCases DEF IsFirstClaim
  <2>5. CASE k = n + 1
    BY <2>1, <2>2, <2>4, <2>5 DEF Made
  <2>6. CASE k \in 1..n
    <3>1. ClaimsAgreeIn(journal)
      BY JournalInvMeaning
    <3>2. Claiming(journal[k], e.inst, e.claim.op, e.claim.key)
      BY <2>1, <2>2, <2>4, <2>6
    <3>3. journal[k].claim.fp = e.claim.fp /\ journal[k].run = e.run
      BY <1>3, <1>5, <2>3, <2>6, <3>1, <3>2, ValidClaimAgrees DEF n
    <3> QED
      BY <2>1, <2>2, <2>4, <2>6, <3>3 DEF Made
  <2> QED
    BY <1>5, <2>4, <2>5, <2>6
<1>7. Traced(journal', u) /\ ListIsNoRequest(u)
  BY <1>4, <1>6 DEF Traced, ListIsNoRequest
<1> QED
  BY <1>1, <1>2, <1>7, MoveTraced

\* The ways in which a task goes on with its Run.
GoesTo(h, w, pc) ==
  LET t == task[h][w]
  IN  /\ answered' = answered
      /\ \/ SetTask(h, w, [t EXCEPT !.pc = pc])
         \/ \E q : SetTask(h, w, [t EXCEPT !.pc = pc, !.reason = q])
         \/ \E q : SetTask(h, w, [t EXCEPT !.pc = pc, !.owned = q])
         \/ SetTask(h, w, Resumed(h, w, pc))

Proposes(h, w) ==
  answered' = answered /\ \E e : SetTask(h, w, [task[h][w] EXCEPT !.ev = e])

Ends(h, w) == \E ok \in BOOLEAN : Return(h, w, ok)

LEMMA GoesTraced ==
  ASSUME TypeInv, TraceInv, Grows, NEW h \in Hosts, NEW w \in Tasks,
         task[h][w].pc \in RunPoints,
         Ends(h, w) \/ Proposes(h, w) \/ \E pc \in RunPoints : GoesTo(h, w, pc)
  PROVE  TraceInv'
<1> DEFINE t == task[h][w]
<1>1. t \in TaskStates
  BY DEF TypeInv, TypeOK
<1>2. CASE Ends(h, w)
  BY <1>2, ReturnTraced DEF Ends
<1>3. CASE Proposes(h, w)
  <2>1. PICK e : SetTask(h, w, [t EXCEPT !.ev = e]) /\ answered' = answered
    BY <1>3 DEF Proposes
  <2> DEFINE u == [t EXCEPT !.ev = e]
  <2>2. u.pc = t.pc /\ SameStart(t, u)
    BY <1>1 DEF TaskStates, SameStart
  <2> HIDE DEF u
  <2>3. SetTask(h, w, u)
    BY <2>1 DEF u
  <2> QED
    BY <2>1, <2>2, <2>3, GoOnTraced
<1>4. ASSUME NEW pc \in RunPoints, GoesTo(h, w, pc) PROVE TraceInv'
  <2>1. \A q : /\ [t EXCEPT !.pc = pc].pc = pc /\ SameStart(t, [t EXCEPT !.pc = pc])
               /\ [t EXCEPT !.pc = pc, !.reason = q].pc = pc
               /\ SameStart(t, [t EXCEPT !.pc = pc, !.reason = q])
               /\ [t EXCEPT !.pc = pc, !.owned = q].pc = pc
               /\ SameStart(t, [t EXCEPT !.pc = pc, !.owned = q])
               /\ Resumed(h, w, pc).pc = pc /\ SameStart(t, Resumed(h, w, pc))
    BY <1>1 DEF TaskStates, SameStart, Resumed
  <2>2. \E u : SetTask(h, w, u) /\ u.pc = pc /\ SameStart(t, u)
    BY <1>4, <2>1, Zenon DEF GoesTo
  <2> QED
    BY <1>4, <2>2, GoOnTraced DEF GoesTo
<1> QED
  BY <1>2, <1>3, <1>4

\* Every step of a task after the claim of its start.
LEMMA RunStepTraced ==
  ASSUME TypeInv, TraceInv, NEW h \in Hosts, NEW w \in Tasks,
         \/ Activate(h, w) \/ FailStart(h, w) \/ CommitStart(h, w)
         \/ StopHeldActivation(h, w) \/ ResumeStart(h, w) \/ Loss(h, w)
         \/ Complete(h, w) \/ Cleanup(h, w) \/ DriverStop(h, w) \/ Finish(h, w)
  PROVE  TraceInv'
<1>1. Grows
  BY DEF Grows, durable, Activate, FailStart, CommitStart, StopHeldActivation, ResumeStart,
         Loss, Complete, Cleanup, DriverStop, Finish
<1>2. task[h][w].pc \in RunPoints
  BY DEF At, RunPoints, Points, Activate, FailStart, CommitStart, StopHeldActivation,
         ResumeStart, Loss, Complete, Cleanup, DriverStop, Finish
<1>3. /\ "failStart" \in RunPoints /\ "commit" \in RunPoints /\ "lostStop" \in RunPoints
      /\ "failedStop" \in RunPoints /\ "cleanup" \in RunPoints /\ "complete" \in RunPoints
      /\ "driverStop" \in RunPoints /\ "finish" \in RunPoints
  BY DEF RunPoints, Points
<1> USE DEF Goto, Propose, Ends, Proposes, GoesTo
<1>4. CASE Activate(h, w)
  <2>1. Ends(h, w) \/ GoesTo(h, w, "failStart") \/ GoesTo(h, w, "commit")
    BY <1>4 DEF Activate
  <2> QED
    BY <1>1, <1>2, <1>3, <2>1, GoesTraced
<1>5. CASE FailStart(h, w)
  <2>1. Ends(h, w) \/ Proposes(h, w)
    BY <1>5 DEF FailStart
  <2> QED
    BY <1>1, <1>2, <1>3, <2>1, GoesTraced
<1>6. CASE CommitStart(h, w)
  <2>1. Proposes(h, w) \/ GoesTo(h, w, "lostStop") \/ GoesTo(h, w, "failedStop")
    BY <1>6 DEF CommitStart
  <2> QED
    BY <1>1, <1>2, <1>3, <2>1, GoesTraced
<1>7. CASE StopHeldActivation(h, w)
  <2>1. Ends(h, w) \/ GoesTo(h, w, "failStart")
    BY <1>7 DEF StopHeldActivation
  <2> QED
    BY <1>1, <1>2, <1>3, <2>1, GoesTraced
<1>8. CASE ResumeStart(h, w)
  <2>1. Ends(h, w) \/ Proposes(h, w) \/ GoesTo(h, w, "cleanup")
    BY <1>8 DEF ResumeStart
  <2> QED
    BY <1>1, <1>2, <1>3, <2>1, GoesTraced
<1>9. CASE Loss(h, w)
  <2>1. Ends(h, w) \/ Proposes(h, w) \/ GoesTo(h, w, "cleanup") \/ GoesTo(h, w, "complete")
    BY <1>9 DEF Loss
  <2> QED
    BY <1>1, <1>2, <1>3, <2>1, GoesTraced
<1>10. CASE Complete(h, w)
  <2>1. Ends(h, w) \/ GoesTo(h, w, "cleanup")
    BY <1>10 DEF Complete
  <2> QED
    BY <1>1, <1>2, <1>3, <2>1, GoesTraced
<1>11. CASE Cleanup(h, w)
  <2>1. Ends(h, w) \/ GoesTo(h, w, "finish") \/ GoesTo(h, w, "driverStop")
    BY <1>11 DEF Cleanup
  <2> QED
    BY <1>1, <1>2, <1>3, <2>1, GoesTraced
<1>12. CASE DriverStop(h, w)
  <2>1. Ends(h, w) \/ GoesTo(h, w, "finish")
    BY <1>12 DEF DriverStop
  <2> QED
    BY <1>1, <1>2, <1>3, <2>1, GoesTraced
<1>13. CASE Finish(h, w)
  <2>1. Ends(h, w) \/ Proposes(h, w)
    BY <1>13 DEF Finish
  <2> QED
    BY <1>1, <1>2, <1>3, <2>1, GoesTraced
<1> QED
  BY <1>4, <1>5, <1>6, <1>7, <1>8, <1>9, <1>10, <1>11, <1>12, <1>13

\* The other answers of the store.
LEMMA AppendedTraced ==
  ASSUME TypeInv, TraceInv, NEW h \in Hosts, NEW w \in Tasks,
         \/ FailedCommitted(h, w) \/ RunningCommitted(h, w) \/ ResumeCommitted(h, w)
         \/ StoppingCommitted(h, w) \/ TerminalCommitted(h, w) \/ RestartCommitted(h, w)
         \/ CasLost(h, w) \/ AppendFails(h, w) \/ DisconnectCommitted(h, w)
  PROVE  TraceInv'
<1> DEFINE t == task[h][w]
<1>0. t \in TaskStates
  BY DEF TypeInv, TypeOK
<1>1. Grows
  BY CommittedGrows DEF Grows, durable, CasLost, AppendFails
<1>2. /\ "failStart" \in RunPoints /\ "commit" \in RunPoints /\ "resume" \in RunPoints
      /\ "stop" \in RunPoints /\ "loss" \in RunPoints /\ "finish" \in RunPoints
      /\ "cleanup" \in RunPoints /\ "complete" \in RunPoints /\ "failedStop" \in RunPoints
      /\ "claim" \notin RunPoints
  BY DEF RunPoints, Points
<1>3. ListIsNoRequest(t)
  BY DEF TraceInv
<1>4. t.ev # NoView => t.pc \in RunPoints \cup {"claim", "hydrate"}
  BY DEF TypeInv, TasksKnow, TaskKnows
<1>5. CASE \/ FailedCommitted(h, w) \/ RunningCommitted(h, w) \/ TerminalCommitted(h, w)
           \/ DisconnectCommitted(h, w)
  <2>1. Ends(h, w) /\ t.pc \in RunPoints
    BY <1>2, <1>5 DEF FailedCommitted, RunningCommitted, TerminalCommitted,
                      DisconnectCommitted, Appending, Ends
  <2> QED
    BY <1>1, <2>1, GoesTraced
<1>6. CASE ResumeCommitted(h, w) \/ StoppingCommitted(h, w)
  <2>1. t.pc \in RunPoints
    BY <1>2, <1>6 DEF ResumeCommitted, StoppingCommitted, Appending
  <2>2. Ends(h, w) \/ GoesTo(h, w, "cleanup") \/ GoesTo(h, w, "complete")
    BY <1>6 DEF ResumeCommitted, StoppingCommitted, Goto, Ends, GoesTo
  <2> QED
    BY <1>1, <1>2, <2>1, <2>2, GoesTraced
<1>7. CASE RestartCommitted(h, w)
  <2>1. t.pc = "hydrate" /\ SetTask(h, w, Resumed(h, w, "hydrate")) /\ answered' = answered
    BY <1>7 DEF RestartCommitted, Appending, Goto
  <2>2. Resumed(h, w, "hydrate").role = t.role
    BY <1>0 DEF Resumed, TaskStates
  <2>3. Resumed(h, w, "hydrate").role # "request"
    BY <1>3, <2>1, <2>2 DEF ListIsNoRequest
  <2> QED
    BY <1>1, <2>1, <2>3, OtherTraced
<1>8. CASE CasLost(h, w)
  <2>1. \/ Return(h, w, FALSE)
        \/ SetTask(h, w, Resumed(h, w, t.pc)) /\ answered' = answered
    BY <1>8 DEF CasLost, Goto
  <2>2. t.pc \in RunPoints \cup {"claim"}
    BY <1>4, <1>8 DEF CasLost
  <2>3. CASE t.pc = "claim" /\ SetTask(h, w, Resumed(h, w, t.pc)) /\ answered' = answered
    <3>1. Resumed(h, w, t.pc).pc = "claim" /\ Resumed(h, w, t.pc).ev = NoView
      BY <1>0, <2>3 DEF Resumed, TaskStates
    <3> QED
      BY <1>1, <1>2, <2>3, <3>1, OtherTraced
  <2>4. CASE t.pc \in RunPoints /\ SetTask(h, w, Resumed(h, w, t.pc)) /\ answered' = answered
    BY <1>1, <2>4, GoesTraced DEF GoesTo
  <2> QED
    BY <1>1, <2>1, <2>2, <2>3, <2>4, ReturnTraced
<1>9. CASE AppendFails(h, w)
  <2>1. Return(h, w, FALSE) \/ (t.pc = "commit" /\ GoesTo(h, w, "failedStop"))
    BY <1>9 DEF AppendFails, Goto, GoesTo
  <2> QED
    BY <1>1, <1>2, <2>1, GoesTraced, ReturnTraced
<1> QED
  BY <1>5, <1>6, <1>7, <1>8, <1>9

\* Nothing that is said of starts changes.
LEMMA UnchangedTraced ==
  ASSUME TraceInv, UNCHANGED <<journal, task, answered>>
  PROVE  TraceInv'
BY DEF TraceInv, StartReplays

\* Recovery and the list of Runs.
LEMMA PassTraced ==
  ASSUME TypeInv, TraceInv, NEW h \in Hosts, NEW w \in Tasks,
         Hydrate(h, w) \/ NextRun(h, w) \/ PassEnds(h, w)
  PROVE  TraceInv'
<1> DEFINE t == task[h][w]
<1>1. Grows /\ answered' = answered
  BY DEF Grows, durable, Hydrate, NextRun, PassEnds
<1>2. t \in TaskStates /\ t.role # "request"
  BY DEF TypeInv, TypeOK, TraceInv, ListIsNoRequest, At, Hydrate, NextRun, PassEnds
<1>3. \E u : SetTask(h, w, u) /\ u.role # "request"
  <2>1. CASE Hydrate(h, w)
    <3>1. \/ \E x : SetTask(h, w, [t EXCEPT !.pc = "loop", !.todo = x])
          \/ \E e : SetTask(h, w, [t EXCEPT !.ev = e])
      BY <2>1 DEF Hydrate, Propose
    <3>2. \A x : /\ [t EXCEPT !.pc = "loop", !.todo = x].role # "request"
                 /\ [t EXCEPT !.ev = x].role # "request"
      BY <1>2 DEF TaskStates
    <3> QED
      BY <3>1, <3>2, Zenon
  <2>2. CASE NextRun(h, w)
    <3>1. PICK x : SetTask(h, w, [t EXCEPT !.pc = x[2], !.run = x[1], !.todo = @ \ {x}])
      BY <2>2 DEF NextRun
    <3>2. [t EXCEPT !.pc = x[2], !.run = x[1], !.todo = @ \ {x}].role = t.role
      BY <1>2 DEF TaskStates
    <3> QED
      BY <1>2, <3>1, <3>2, Zenon
  <2>3. CASE PassEnds(h, w)
    <3>1. \/ SetTask(h, w, [IdleTask EXCEPT !.pc = "scan", !.role = "supervise"])
          \/ SetTask(h, w, IdleTask)
      BY <2>3 DEF PassEnds
    <3>2. /\ [IdleTask EXCEPT !.pc = "scan", !.role = "supervise"].role # "request"
          /\ IdleTask.role # "request"
      BY DEF IdleTask
    <3> QED
      BY <3>1, <3>2, Zenon
  <2> QED
    BY <2>1, <2>2, <2>3
<1> QED
  BY <1>1, <1>3, OtherTraced

\* A stop is no start: its fingerprint is a Run and a revision.
LEMMA StopTraced ==
  ASSUME StartRequests \cap (Runs \X Nat) = {}, TypeInv, TraceInv,
         NEW h \in Hosts, NEW w \in Tasks, NEW r \in Runs, NEW key \in Keys, NEW rev \in Nat,
         Stop(h, w, r, key, rev)
  PROVE  TraceInv'
<1> DEFINE t == [IdleTask EXCEPT !.pc = "complete", !.role = "request", !.inst = Now(r).inst,
                                 !.run = r, !.key = key, !.fp = <<r, rev>>]
<1>1. Grows /\ answered' = answered
  BY DEF Grows, durable, Stop
<1>2. \/ UNCHANGED task
      \/ \E x : SetTask(h, w, [t EXCEPT !.claim = x])
      \/ \E e : SetTask(h, w, [[t EXCEPT !.pc = "stop"] EXCEPT !.ev = e])
  BY DEF Stop, Propose
<1>3. \A x : /\ [t EXCEPT !.claim = x].pc = "complete"
             /\ [t EXCEPT !.claim = x].fp = <<r, rev>>
             /\ [[t EXCEPT !.pc = "stop"] EXCEPT !.ev = x].pc = "stop"
             /\ [[t EXCEPT !.pc = "stop"] EXCEPT !.ev = x].fp = <<r, rev>>
  BY DEF IdleTask
<1>4. <<r, rev>> \notin StartRequests
  OBVIOUS
<1> HIDE DEF t
<1>5. CASE UNCHANGED task
  BY <1>1, <1>5, UnchangedTraced DEF Stop, durable
<1>6. CASE \E u : SetTask(h, w, u) /\ u.pc \in {"complete", "stop"} /\ u.fp = <<r, rev>>
  BY <1>1, <1>4, <1>6, OtherTraced
<1> QED
  <2>1. "complete" \in {"complete", "stop"} /\ "stop" \in {"complete", "stop"}
    OBVIOUS
  <2> QED
    BY <1>2, <1>3, <1>5, <1>6, <2>1, Zenon

\* Failures, and what is neither a start nor a stop.
LEMMA FailureTraced ==
  ASSUME TypeInv, TraceInv, NEW h \in Hosts, NEW w \in Tasks, Failure(h, w)
  PROVE  TraceInv'
<1>1. CASE PrepareFails(h, w) \/ SyncFails(h, w) \/ Disconnect(h, w)
  <2>1. Return(h, w, FALSE) /\ Grows
    BY <1>1 DEF PrepareFails, SyncFails, Disconnect, durable, Grows
  <2> QED
    BY <2>1, ReturnTraced
<1>2. CASE HydrateFails(h, w)
  BY <1>2, HaltTraced DEF HydrateFails
<1> QED
  BY <1>1, <1>2, AppendedTraced DEF Failure

LEMMA EnvironmentTraced ==
  ASSUME TypeInv, TraceInv, NEW h \in Hosts,
         \/ \E w \in Workers : Boot(h, w)
         \/ \E w \in Tasks, r \in Runs : PackageActivationLost(h, w, r)
         \/ Crash(h) \/ Observe(h) \/ Wake(h) \/ Scan(h) \/ ScanTerminal(h)
  PROVE  TraceInv'
<1>1. IdleTask.role # "request"
  BY DEF IdleTask
<1>2. \A pc, role, x : /\ [IdleTask EXCEPT !.pc = pc, !.role = role].role = role
                       /\ [IdleTask EXCEPT !.pc = pc, !.role = role, !.run = x].role = role
                       /\ [IdleTask EXCEPT !.pc = pc, !.role = role, !.todo = x].role = role
  BY DEF IdleTask
<1>3. Workers \subseteq Tasks /\ Supervisor \in Tasks
  BY DEF Tasks
<1>4. CASE Crash(h)
  BY <1>4, HaltTraced DEF Crash
<1>5. CASE Observe(h)
  BY <1>5, UnchangedTraced DEF Observe, durable
<1>6. ASSUME NEW w \in Workers, Boot(h, w) PROVE TraceInv'
  <2>1. SetTask(h, w, [IdleTask EXCEPT !.pc = "hydrate", !.role = "hydrate"])
        /\ answered' = answered /\ Grows
    BY <1>6 DEF Boot, Grows
  <2>2. [IdleTask EXCEPT !.pc = "hydrate", !.role = "hydrate"].role # "request"
    BY <1>2
  <2> QED
    BY <1>3, <2>1, <2>2, OtherTraced
<1>7. ASSUME NEW w \in Tasks, NEW r \in Runs, PackageActivationLost(h, w, r) PROVE TraceInv'
  <2>1. SetTask(h, w, [IdleTask EXCEPT !.pc = "loss", !.role = "loss", !.run = r])
        /\ answered' = answered /\ Grows
    BY <1>7 DEF PackageActivationLost, durable, Grows
  <2>2. [IdleTask EXCEPT !.pc = "loss", !.role = "loss", !.run = r].role # "request"
    BY <1>2
  <2> QED
    BY <2>1, <2>2, OtherTraced
<1>8. CASE Wake(h) \/ Scan(h) \/ ScanTerminal(h)
  <2>1. answered' = answered /\ Grows
    BY <1>8 DEF Wake, Scan, ScanTerminal, durable, Grows
  <2>2. \/ SetTask(h, Supervisor, IdleTask)
        \/ \E pc, x : \/ SetTask(h, Supervisor, [IdleTask EXCEPT !.pc = pc, !.role = "supervise"])
                      \/ SetTask(h, Supervisor, [IdleTask EXCEPT !.pc = pc, !.role = "supervise",
                                                                 !.todo = x])
    BY <1>8 DEF Wake, Scan, ScanTerminal
  <2>3. \A pc, x : /\ [IdleTask EXCEPT !.pc = pc, !.role = "supervise"].role # "request"
                   /\ [IdleTask EXCEPT !.pc = pc, !.role = "supervise",
                                       !.todo = x].role # "request"
    BY <1>2
  <2>4. \E u : SetTask(h, Supervisor, u) /\ u.role # "request"
    BY <1>1, <2>2, <2>3, Zenon
  <2> QED
    BY <1>3, <2>1, <2>4, OtherTraced
<1> QED
  BY <1>4, <1>5, <1>6, <1>7, <1>8

LEMMA TraceInit == Init => TraceInv
BY DEF Init, TraceInv, StartReplays, Traced, ListIsNoRequest, IdleTask

LEMMA TraceNext ==
  ASSUME StartRequests \cap (Runs \X Nat) = {}
  PROVE  TypeInv /\ JournalInv /\ TraceInv /\ [Next]_vars => TraceInv'
<1> SUFFICES ASSUME TypeInv, JournalInv, TraceInv, [Next]_vars PROVE TraceInv'
  OBVIOUS
<1>1. CASE UNCHANGED vars
  BY <1>1, UnchangedTraced DEF vars
<1>2. ASSUME NEW h \in Hosts, NEW w \in Tasks, Step(h, w) PROVE TraceInv'
  BY <1>2, ClaimStartTraced, StartingTraced, RunStepTraced, AppendedTraced, PassTraced
     DEF Step
<1>3. ASSUME NEW h \in Hosts, NEW w \in Tasks, Requests(h, w) PROVE TraceInv'
  <2>1. 1..3 \subseteq Nat
    OBVIOUS
  <2> QED
    BY <1>3, <2>1, StartTraced, StopTraced, EnvironmentTraced DEF Requests
<1> QED
  BY <1>1, <1>2, <1>3, FailureTraced, EnvironmentTraced DEF Next

\* A start that was answered is answered with the same Run whenever it is
\* repeated, on every Host and after crashes, failures and lost requests: the
\* key stands for that request and that Run for good.
THEOREM StartsAlwaysReplay ==
  ASSUME StartRequests \cap (Runs \X Nat) = {}
  PROVE  Spec => []StartReplays
<1>1. TraceInv => StartReplays
  BY DEF TraceInv
<1> QED
  BY <1>1, TypeInit, TypeNext, JournalInvInit, JournalInvNext, TraceInit, TraceNext, PTL
     DEF Spec

=============================================================================
