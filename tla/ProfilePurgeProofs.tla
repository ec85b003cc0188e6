------------------------ MODULE ProfilePurgeProofs ------------------------
(***************************************************************************)
(* What a purge leaves behind, for every valid plan, every set of rows in  *)
(* any two orders, and any number of late rows, failures and upgrades.     *)
(***************************************************************************)
EXTENDS ProfilePurge, WellFoundedInduction, TLAPS

\* A unit that r, which the profile itself scopes, would make verification fail at.
Finds(s, k, r) ==
    /\ LooksFor(Plan[k], r)
    /\ \/ Plan[k].kind = "delete"
       \/ Plan[k].kind = "revoke" /\ r \notin s.revoked
       \/ Plan[k].kind = "revoked" /\ r \in s.revoked

\* What is stored of one job is well formed.
Shape(j, s) ==
    /\ s \in JobRecord(j)
    /\ s.unit <= N => s.verify = 0 /\ s.missed = {}
    /\ s.verify = N <=> s.state = "gone"
    /\ s.revoked \subseteq s.rows

\* While it verifies, a row that it has not missed is ahead of it, or hangs on
\* such a row; a row that it has missed is behind it.
Pending(s) ==
    /\ \A r \in s.rows \ s.missed :
          IF r.parent = NoTable THEN \E k \in s.verify + 1 .. N : Finds(s, k, r)
          ELSE \E p \in Parent(s.rows, r) : p \notin s.missed
    /\ \A r \in s.missed : Passed(s, r)

\* The inductive invariant, for one job.
Good(j, s) ==
    /\ Shape(j, s)
    /\ Owned(s.rows)
    /\ s.unit > N /\ s.state # "gone" => Pending(s)
    /\ s.state = "gone" => s.rows \subseteq s.missed

PurgeInv ==
    /\ DOMAIN job = Job
    /\ \A j \in Job : Good(j, job[j])
    /\ digest \in [Job -> Digest]
    /\ budget \in BudgetRecord

----------------------------------------------------------------------------

LEMMA PlanFacts ==
    /\ N \in Nat /\ N > 0
    /\ \A i \in 1 .. N : Plan[i] \in UnitRecord
BY PlanAssumption DEF PlanIsValid, N

LEMMA UniverseFacts ==
    ASSUME NEW j \in Job
    PROVE  /\ \A r \in Universe[j] : r \in RowRecord
           /\ GuardsAreComplete(Universe[j]) /\ PlanCovers(Universe[j])
BY PurgeAssumption, PlanAssumption

\* A job that is not told anything new: only its state and its backoff change.
LEMMA SameJob ==
    ASSUME NEW j \in Job, NEW s, NEW t, Good(j, s), t \in JobRecord(j),
           t.rows = s.rows, t.revoked = s.revoked, t.unit = s.unit, t.verify = s.verify,
           t.missed = s.missed, s.state # "gone", t.state # "gone"
    PROVE  Good(j, t)
BY PlanFacts DEF Good, Shape, Pending, Finds, Passed

LEMMA RestartTyped ==
    ASSUME NEW j \in Job, NEW s \in JobRecord(j), NEW k \in 1 .. N
    PROVE  Restart(s, k) \in JobRecord(j)
<1> DEFINE a == [s EXCEPT !.unit = k]
           b == [a EXCEPT !.verify = 0]
<1>1. Restart(s, k) = [b EXCEPT !.missed = {}]
    BY DEF Restart
<1>2. a \in JobRecord(j)
    BY PlanFacts DEF JobRecord
<1> HIDE DEF a
<1>3. b \in JobRecord(j)
    BY <1>2, PlanFacts DEF JobRecord
<1> HIDE DEF b
<1> QED BY <1>1, <1>3 DEF JobRecord

\* A cursor that goes back to a unit forgets what it had verified.
LEMMA RestartGood ==
    ASSUME NEW j \in Job, NEW s, Good(j, s), s.state # "gone", NEW k \in 1 .. N
    PROVE  Good(j, Restart(s, k)) /\ Restart(s, k).state = s.state
<1>1. s \in JobRecord(j)
    BY DEF Good, Shape
<1>2. Restart(s, k) \in JobRecord(j) /\ Restart(s, k).state = s.state
    BY <1>1, RestartTyped DEF Restart, JobRecord
<1>3. Shape(j, Restart(s, k))
    BY <1>1, <1>2, PlanFacts DEF Good, Shape, Restart, JobRecord
<1>4. Owned(Restart(s, k).rows)
    BY <1>1 DEF Good, Restart, JobRecord
<1>5. Restart(s, k).unit = k
    BY <1>1 DEF Restart, JobRecord
<1> QED BY <1>2, <1>3, <1>4, <1>5, PlanFacts DEF Good

\* The cursor behind the last unit, with nothing verified: every row is ahead.
LEMMA MoveGood ==
    ASSUME NEW j \in Job, NEW s, Good(j, s), s.state # "gone", s.unit <= N,
           NEW k \in 1 .. N + 1
    PROVE  Good(j, [s EXCEPT !.unit = k])
<1> DEFINE t == [s EXCEPT !.unit = k]
<1>1. s \in JobRecord(j) /\ s.verify = 0 /\ s.missed = {} /\ Owned(s.rows)
    BY DEF Good, Shape
<1>2. /\ t \in JobRecord(j) /\ t.unit = k /\ t.verify = 0 /\ t.missed = {}
      /\ t.rows = s.rows /\ t.revoked = s.revoked /\ t.state = s.state
    BY <1>1, PlanFacts DEF JobRecord
<1>3. Shape(j, t)
    BY <1>2, PlanFacts DEF Good, Shape
<1>4. Pending(t)
  <2>1. ASSUME NEW r \in s.rows, r.parent = NoTable
        PROVE  \E i \in 1 .. N : Finds(t, i, r)
    BY <2>1, <1>1, UniverseFacts DEF PlanCovers, Finds, LooksFor, JobRecord
  <2>2. ASSUME NEW r \in s.rows, r.parent # NoTable
        PROVE  \E p \in Parent(s.rows, r) : p \notin t.missed
    BY <2>2, <1>1, <1>2 DEF Owned
  <2> HIDE DEF t
  <2> QED BY <2>1, <2>2, <1>2 DEF Pending
<1> HIDE DEF t
<1>5. Good(j, t)
    BY <1>1, <1>2, <1>3, <1>4 DEF Good
<1> QED BY <1>5 DEF t

\* Revoking a row leaves every row its parent; deleting one does so because no
\* guard found a child of it.
LEMMA ChangedGood ==
    ASSUME NEW j \in Job, NEW s, Good(j, s), s.state # "gone", s.unit <= N,
           NEW k \in 1 .. N, NEW head \in Candidates(s, Plan[k]),
           Outcome(s, Plan[k], head) = "changed"
    PROVE  Good(j, [Changed(s, Plan[k], head) EXCEPT !.unit = k])
<1> DEFINE t == [Changed(s, Plan[k], head) EXCEPT !.unit = k]
<1>1. s \in JobRecord(j) /\ s.verify = 0 /\ s.missed = {} /\ Owned(s.rows)
      /\ s.revoked \subseteq s.rows
    BY DEF Good, Shape
<1>2. head \in s.rows /\ head.table = Plan[k].table
    BY DEF Candidates
<1>3. CASE Plan[k].kind = "revoke"
  <2>1. /\ t \in JobRecord(j) /\ t.unit = k /\ t.verify = 0 /\ t.missed = {}
        /\ t.rows = s.rows /\ t.revoked = s.revoked \cup {head} /\ t.state = s.state
    <3> DEFINE a == [s EXCEPT !.revoked = s.revoked \cup {head}]
    <3>1. t = [a EXCEPT !.unit = k]
      BY <1>3 DEF Changed
    <3>2. a \in JobRecord(j)
      BY <1>1, <1>2 DEF JobRecord
    <3> HIDE DEF a
    <3>3. [a EXCEPT !.unit = k] \in JobRecord(j)
      BY <3>2, PlanFacts DEF JobRecord
    <3> QED BY <1>1, <3>1, <3>2, <3>3 DEF a, JobRecord
  <2> HIDE DEF t
  <2>2. Good(j, t)
    BY <2>1, <1>1, <1>2, PlanFacts DEF Good, Shape
  <2> QED BY <2>2 DEF t
<1>4. CASE Plan[k].kind # "revoke"
  <2>1. /\ t \in JobRecord(j) /\ t.unit = k /\ t.verify = 0 /\ t.missed = {}
        /\ t.rows = s.rows \ {head} /\ t.revoked = s.revoked \ {head} /\ t.state = s.state
    <3> DEFINE a == [s EXCEPT !.rows = s.rows \ {head}]
               b == [a EXCEPT !.revoked = s.revoked \ {head}]
    <3>1. t = [b EXCEPT !.unit = k]
      BY <1>1, <1>4 DEF Changed, JobRecord
    <3>2. a \in JobRecord(j)
      BY <1>1 DEF JobRecord
    <3> HIDE DEF a
    <3>3. b \in JobRecord(j)
      BY <1>1, <3>2 DEF JobRecord
    <3> HIDE DEF b
    <3>4. [b EXCEPT !.unit = k] \in JobRecord(j)
      BY <3>3, PlanFacts DEF JobRecord
    <3> QED BY <1>1, <3>1, <3>2, <3>3, <3>4 DEF a, b, JobRecord
  <2>2. ~Blocked(s, Plan[k], head)
    BY <1>4 DEF Outcome
  <2>3. ASSUME NEW r \in s.rows \ {head}, r.parent # NoTable
        PROVE  Parent(s.rows \ {head}, r) # {}
    <3>1. PICK p \in s.rows : p.table = r.parent /\ p.id = r.of
      BY <2>3, <1>1 DEF Owned, Parent
    <3>2. r \in Universe[j]
      BY <1>1 DEF JobRecord
    <3>3. p # head
      BY <1>2, <1>4, <2>2, <3>1, <3>2, UniverseFacts DEF Blocked, GuardsAreComplete
    <3> QED BY <3>1, <3>3 DEF Parent
  <2>4. Owned(s.rows \ {head})
    BY <2>3 DEF Owned
  <2> HIDE DEF t
  <2>5. Good(j, t)
    BY <2>1, <2>4, <1>1, PlanFacts DEF Good, Shape
  <2> QED BY <2>5 DEF t
<1> QED BY <1>3, <1>4

\* Verification moves on: it has found nothing, so what it has not missed is
\* still ahead; at the end there is nothing ahead.
LEMMA VerifiedGood ==
    ASSUME NEW j \in Job, NEW s, Good(j, s), s.state # "gone", s.unit > N,
           NEW last \in s.verify + 1 .. N,
           \A m \in s.verify + 1 .. last : Candidates(s, Plan[m]) = {}
    PROVE  /\ last < N => Good(j, [s EXCEPT !.verify = last])
           /\ last = N => Good(j, [s EXCEPT !.state = "gone", !.verify = N])
<1>1. s \in JobRecord(j) /\ Owned(s.rows) /\ Pending(s) /\ s.revoked \subseteq s.rows
    BY DEF Good, Shape
<1>2. ASSUME NEW r \in s.rows \ s.missed, r.parent = NoTable
      PROVE  \E k \in last + 1 .. N : Finds(s, k, r)
  <2>1. PICK k \in s.verify + 1 .. N : Finds(s, k, r)
    BY <1>1, <1>2 DEF Pending
  <2>2. r \in Candidates(s, Plan[k])
    BY <1>2, <2>1 DEF Candidates, Finds, LooksFor
  <2>3. k \in last + 1 .. N
    BY <2>1, <2>2, <1>1, PlanFacts DEF JobRecord
  <2> QED BY <2>1, <2>3
<1>3. ASSUME NEW r \in s.rows \ s.missed, r.parent # NoTable
      PROVE  \E p \in Parent(s.rows, r) : p \notin s.missed
    BY <1>1, <1>3 DEF Pending
<1>4. CASE last < N
  <2> DEFINE t == [s EXCEPT !.verify = last]
  <2>1. /\ t \in JobRecord(j) /\ t.unit = s.unit /\ t.verify = last /\ t.missed = s.missed
        /\ t.rows = s.rows /\ t.revoked = s.revoked /\ t.state = s.state
    BY <1>1, PlanFacts DEF JobRecord
  <2> HIDE DEF t
  <2>2. \A r \in t.rows \ t.missed :
          IF r.parent = NoTable THEN \E k \in t.verify + 1 .. N : Finds(t, k, r)
          ELSE \E p \in Parent(t.rows, r) : p \notin t.missed
    BY <2>1, <1>2, <1>3 DEF Finds
  <2>3. \A r \in t.missed : Passed(t, r)
    BY <2>1, <1>1, PlanFacts DEF Pending, Passed, JobRecord
  <2>4. Good(j, t)
    BY <2>1, <2>2, <2>3, <1>1, <1>4, PlanFacts DEF Good, Shape, Pending, JobRecord
  <2> QED BY <2>4, <1>4 DEF t
<1>5. CASE last = N
  <2> DEFINE t == [s EXCEPT !.state = "gone", !.verify = N]
  <2>1. /\ t \in JobRecord(j) /\ t.unit = s.unit /\ t.verify = N /\ t.missed = s.missed
        /\ t.rows = s.rows /\ t.revoked = s.revoked /\ t.state = "gone"
    <3> DEFINE a == [s EXCEPT !.state = "gone"]
    <3>1. t = [a EXCEPT !.verify = N]
      OBVIOUS
    <3>2. a \in JobRecord(j)
      BY <1>1 DEF JobRecord
    <3> HIDE DEF a
    <3>3. [a EXCEPT !.verify = N] \in JobRecord(j)
      BY <3>2, PlanFacts DEF JobRecord
    <3> QED BY <1>1, <3>1, <3>2, <3>3 DEF a, JobRecord
  <2>2. \A r \in s.rows \ s.missed : r.parent # NoTable
    BY <1>2, <1>5, PlanFacts
  <2>3. ASSUME NEW r \in s.rows \ s.missed
        PROVE  FALSE
    <3>1. PICK p \in Parent(s.rows, r) : p \notin s.missed
      BY <2>2, <1>3
    <3>2. p \in s.rows \ s.missed /\ p.table = r.parent
      BY <3>1 DEF Parent
    <3>3. p \in Universe[j] /\ r \in Universe[j]
      BY <3>2, <1>1 DEF JobRecord
    <3>4. p.parent = NoTable
      BY <3>2, <3>3, <2>2, UniverseFacts DEF PlanCovers
    <3> QED BY <3>2, <3>4, <2>2
  <2> HIDE DEF t
  <2>4. t.unit > N
    BY <2>1
  <2>5. Shape(j, t)
    BY <2>1, <2>4, <1>1, PlanFacts DEF Shape, JobRecord
  <2>6. Good(j, t)
    BY <2>1, <2>3, <2>5, <1>1 DEF Good
  <2> QED BY <2>6, <1>5, PlanFacts DEF t
<1> QED BY <1>4, <1>5, PlanFacts

\* A late row is behind the verification, or ahead of it, or its parent is.
LEMMA LateGood ==
    ASSUME NEW j \in Job, NEW s, Good(j, s), s.state # "gone",
           NEW r \in Universe[j], r \notin s.rows, Owned(s.rows \cup {r}),
           NEW t \in JobRecord(j),
           t.rows = s.rows \cup {r}, t.revoked = s.revoked, t.unit = s.unit,
           t.verify = s.verify, t.state = s.state,
           t.missed = IF Passed(s, r) THEN s.missed \cup {r} ELSE s.missed
    PROVE  Good(j, t)
<1>1. /\ s \in JobRecord(j)
      /\ s.unit <= N => s.verify = 0 /\ s.missed = {}
      /\ s.verify = N <=> s.state = "gone"
      /\ s.revoked \subseteq s.rows
      /\ s.unit > N => Pending(s)
    BY DEF Good, Shape
<1>2. Shape(j, t)
    BY <1>1, PlanFacts DEF Shape, Passed, JobRecord
<1>3. CASE s.unit <= N
    BY <1>2, <1>3, PlanFacts DEF Good, JobRecord
<1>4. CASE s.unit > N
  <2>1. \A q : Passed(t, q) <=> Passed(s, q)
    BY DEF Passed
  <2>2. \A q \in t.missed : Passed(t, q)
    BY <1>1, <1>4, <2>1 DEF Pending
  <2>3. ASSUME NEW q \in s.rows \ s.missed
        PROVE  IF q.parent = NoTable THEN \E k \in t.verify + 1 .. N : Finds(t, k, q)
               ELSE \E p \in Parent(t.rows, q) : p \notin t.missed
    <3>1. CASE q.parent = NoTable
      BY <3>1, <1>1, <1>4 DEF Pending, Finds
    <3>2. CASE q.parent # NoTable
      <4>1. PICK p \in Parent(s.rows, q) : p \notin s.missed
        BY <3>2, <1>1, <1>4 DEF Pending
      <4>2. p \in Parent(t.rows, q) /\ p # r
        BY <4>1 DEF Parent
      <4> QED BY <3>2, <4>1, <4>2
    <3> QED BY <3>1, <3>2
  <2>4. ASSUME ~Passed(s, r), r.parent = NoTable
        PROVE  \E k \in t.verify + 1 .. N : Finds(t, k, r)
    <3>1. PICK k \in s.verify + 1 .. N : LooksFor(Plan[k], r) /\ Plan[k].kind # "revoked"
      BY <1>4, <2>4 DEF Passed
    <3>2. k \in 1 .. N
      BY <1>1, <3>1, PlanFacts DEF JobRecord
    <3>3. Plan[k] \in UnitRecord /\ Plan[k].kind # "tokens"
      BY <2>4, <3>1, <3>2, PlanFacts, UniverseFacts DEF PlanCovers, LooksFor
    <3>4. Finds(t, k, r)
      BY <1>1, <3>1, <3>3 DEF Finds, UnitRecord
    <3> QED BY <3>1, <3>4
  <2>5. ASSUME ~Passed(s, r), r.parent # NoTable
        PROVE  \E p \in Parent(t.rows, r) : p \notin t.missed
    <3>1. PICK p \in Parent(t.rows, r) : TRUE
      BY <2>5 DEF Owned
    <3>2. p \in Universe[j] /\ p.table = r.parent
      BY <3>1 DEF Parent, JobRecord
    <3>3. p.parent = NoTable
      BY <2>5, <3>2, UniverseFacts DEF PlanCovers
    <3>4. PICK i \in s.verify + 1 .. N : LooksFor(Plan[i], r)
      BY <1>4, <2>5 DEF Passed
    <3>5. i \in 1 .. N /\ s.verify \in Nat
      BY <1>1, <3>4, PlanFacts DEF JobRecord
    <3>6. PICK k \in i .. N : /\ Plan[k].table = Plan[i].of /\ Plan[k].of = NoTable
                              /\ Plan[k].kind # "revoked"
      BY <2>5, <3>4, <3>5, UniverseFacts DEF GuardsAreComplete, LooksFor
    <3>7. k \in s.verify + 1 .. N /\ LooksFor(Plan[k], p)
      BY <3>2, <3>3, <3>4, <3>5, <3>6, PlanFacts DEF LooksFor
    <3>8. ~Passed(s, p)
      BY <3>6, <3>7 DEF Passed
    <3>9. p \notin t.missed
      BY <2>1, <2>2, <3>8
    <3> QED BY <3>1, <3>9
  <2>6. r \in t.rows \ t.missed => ~Passed(s, r)
    OBVIOUS
  <2>7. Pending(t)
    BY <2>2, <2>3, <2>4, <2>5, <2>6 DEF Pending
  <2> QED BY <1>2, <2>7 DEF Good
<1> QED BY <1>3, <1>4, <1>1, PlanFacts DEF JobRecord

----------------------------------------------------------------------------
(* The steps.  Each replaces one job by a good one.                         *)

\* job' differs from job in j only, where it is good.
Replaces(j) == \E t : job' = [job EXCEPT ![j] = t] /\ Good(j, t)

LEMMA SaveReplaces ==
    ASSUME NEW j \in Job, NEW s, Good(j, s), s.state # "gone", Save(j, s)
    PROVE  Replaces(j)
<1> DEFINE a == [s EXCEPT !.state = "pending"]
           t == [a EXCEPT !.due = TRUE]
<1>1. s \in JobRecord(j)
    BY DEF Good, Shape
<1>2. a \in JobRecord(j)
    BY <1>1 DEF JobRecord
<1>3. t \in JobRecord(j)
  <2> HIDE DEF a
  <2> QED BY <1>2 DEF JobRecord
<1>4. /\ t.rows = s.rows /\ t.revoked = s.revoked /\ t.unit = s.unit
      /\ t.verify = s.verify /\ t.missed = s.missed /\ t.state = "pending"
    BY <1>1 DEF JobRecord
<1>5. job' = [job EXCEPT ![j] = t]
    BY DEF Save
<1> HIDE DEF t
<1>6. Good(j, t)
    BY <1>3, <1>4, SameJob
<1> QED BY <1>5, <1>6 DEF Replaces

\* Only the state and the backoff of j change, and j has not ended.
LEMMA StateReplaces ==
    ASSUME NEW j \in Job, DOMAIN job = Job, Good(j, job[j]), job[j].state # "gone",
           NEW w \in {"pending", "blocked", "parked"}, NEW d \in BOOLEAN,
           job' = [job EXCEPT ![j].state = w, ![j].due = d]
    PROVE  Replaces(j)
<1> DEFINE s == job[j]
           a == [s EXCEPT !.state = w]
           t == [a EXCEPT !.due = d]
<1>1. s \in JobRecord(j)
    BY DEF Good, Shape
<1>2. a \in JobRecord(j)
    BY <1>1 DEF JobRecord
<1>3. t \in JobRecord(j)
  <2> HIDE DEF a
  <2> QED BY <1>2 DEF JobRecord
<1>4. /\ t.rows = s.rows /\ t.revoked = s.revoked /\ t.unit = s.unit
      /\ t.verify = s.verify /\ t.missed = s.missed /\ t.state = w
    BY <1>1 DEF JobRecord
<1>5. job' = [job EXCEPT ![j] = t]
    BY <1>1
<1> HIDE DEF t
<1>6. Good(j, t)
    BY <1>3, <1>4, SameJob
<1> QED BY <1>5, <1>6 DEF Replaces

LEMMA CleanReplaces ==
    ASSUME NEW j \in Job, DOMAIN job = Job, Good(j, job[j]),
           job[j].state \in {"pending", "blocked"}, job[j].unit <= N, Clean(j, job[j])
    PROVE  Replaces(j)
<1> DEFINE s == job[j]
<1>1. s \in JobRecord(j) /\ s.unit \in 1 .. N
    BY PlanFacts DEF Good, Shape, JobRecord
<1>2. PICK last \in Reach(s.unit, 4) : \E k \in Stop(s, s.unit, last) :
        \/ k > last /\ Save(j, [s EXCEPT !.unit = k])
        \/ /\ k <= last
           /\ \E head \in Lowest(Candidates(s, Plan[k])), start \in PhaseStart(k) :
                \/ /\ Outcome(s, Plan[k], head) = "changed"
                   /\ Save(j, [Changed(s, Plan[k], head) EXCEPT !.unit = k])
                \/ Save(j, Restart(s, start))
                \/ Park(j)
    BY ZenonT(40) DEF Clean
<1>3. PICK k \in Stop(s, s.unit, last) :
        \/ k > last /\ Save(j, [s EXCEPT !.unit = k])
        \/ /\ k <= last
           /\ \E head \in Lowest(Candidates(s, Plan[k])), start \in PhaseStart(k) :
                \/ /\ Outcome(s, Plan[k], head) = "changed"
                   /\ Save(j, [Changed(s, Plan[k], head) EXCEPT !.unit = k])
                \/ Save(j, Restart(s, start))
                \/ Park(j)
    BY <1>2
<1>4. last \in 1 .. N /\ k \in 1 .. N + 1
    BY <1>1, PlanFacts DEF Reach, Stop
<1>5. CASE k > last /\ Save(j, [s EXCEPT !.unit = k])
  <2>1. Good(j, [s EXCEPT !.unit = k]) /\ [s EXCEPT !.unit = k].state # "gone"
    BY <1>1, <1>4, MoveGood DEF JobRecord
  <2> QED BY <1>5, <2>1, SaveReplaces
<1>6. ASSUME k <= last,
             NEW head \in Lowest(Candidates(s, Plan[k])), Outcome(s, Plan[k], head) = "changed",
             Save(j, [Changed(s, Plan[k], head) EXCEPT !.unit = k])
      PROVE  Replaces(j)
  <2>1. head \in Candidates(s, Plan[k]) /\ k \in 1 .. N
    BY <1>4, <1>6, PlanFacts DEF Lowest
  <2>2. Good(j, [Changed(s, Plan[k], head) EXCEPT !.unit = k])
    BY <1>6, <2>1, ChangedGood
  <2>3. [Changed(s, Plan[k], head) EXCEPT !.unit = k].state = s.state
    BY <1>1 DEF Changed, JobRecord
  <2> QED BY <1>6, <2>2, <2>3, SaveReplaces
<1>7. ASSUME k <= last, NEW start \in PhaseStart(k), Save(j, Restart(s, start))
      PROVE  Replaces(j)
  <2>1. start \in 1 .. N
    BY <1>4, <1>7, PlanFacts DEF PhaseStart
  <2> QED BY <1>7, <2>1, RestartGood, SaveReplaces
<1>8. CASE Park(j)
    BY <1>8, StateReplaces DEF Park
<1> QED BY <1>3, <1>5, <1>6, <1>7, <1>8

LEMMA VerifyReplaces ==
    ASSUME NEW j \in Job, DOMAIN job = Job, Good(j, job[j]),
           job[j].state \in {"pending", "blocked"}, job[j].unit > N, Verify(j, job[j])
    PROVE  Replaces(j)
<1> DEFINE s == job[j]
<1>1. s \in JobRecord(j) /\ s.verify \in 0 .. N
    BY PlanFacts DEF Good, Shape, JobRecord
<1>2. PICK last \in Reach(s.verify + 1, 8) : \E k \in Stop(s, s.verify + 1, last) :
        \/ k <= last /\ \E start \in PhaseStart(k) : Save(j, Restart(s, start))
        \/ k > last /\ last < N /\ Save(j, [s EXCEPT !.verify = last])
        \/ k > last /\ last = N /\ job' = [job EXCEPT ![j].state = "gone", ![j].verify = N]
    BY Zenon DEF Verify
<1>3. PICK k \in Stop(s, s.verify + 1, last) :
        \/ k <= last /\ \E start \in PhaseStart(k) : Save(j, Restart(s, start))
        \/ k > last /\ last < N /\ Save(j, [s EXCEPT !.verify = last])
        \/ k > last /\ last = N /\ job' = [job EXCEPT ![j].state = "gone", ![j].verify = N]
    BY <1>2
<1>4. last \in s.verify + 1 .. N /\ k \in 1 .. N + 1 /\ k \in s.verify + 1 .. last + 1
    BY <1>1, PlanFacts DEF Reach, Stop
<1>5. k > last => \A m \in s.verify + 1 .. last : Candidates(s, Plan[m]) = {}
    BY <1>1, <1>4, PlanFacts DEF Stop
<1>6. ASSUME k <= last, NEW start \in PhaseStart(k), Save(j, Restart(s, start))
      PROVE  Replaces(j)
  <2>1. start \in 1 .. N
    BY <1>1, <1>4, <1>6, PlanFacts DEF PhaseStart
  <2> QED BY <1>6, <2>1, RestartGood, SaveReplaces
<1>7. CASE k > last /\ last < N /\ Save(j, [s EXCEPT !.verify = last])
  <2>1. Good(j, [s EXCEPT !.verify = last])
    BY <1>4, <1>5, <1>7, VerifiedGood
  <2>2. [s EXCEPT !.verify = last].state = s.state
    BY <1>1 DEF JobRecord
  <2> QED BY <1>7, <2>1, <2>2, SaveReplaces
<1>8. CASE k > last /\ last = N /\ job' = [job EXCEPT ![j].state = "gone", ![j].verify = N]
  <2>1. Good(j, [s EXCEPT !.state = "gone", !.verify = N])
    BY <1>4, <1>5, <1>8, VerifiedGood
  <2>2. job' = [job EXCEPT ![j] = [s EXCEPT !.state = "gone", !.verify = N]]
    BY <1>8
  <2> QED BY <2>1, <2>2 DEF Replaces
<1> QED BY <1>3, <1>6, <1>7, <1>8

LEMMA LateReplaces ==
    ASSUME NEW j \in Job, DOMAIN job = Job, Good(j, job[j]),
           NEW r \in Universe[j], LateRow(j, r)
    PROVE  Replaces(j)
<1> DEFINE s == job[j]
           d == s.disturbed \/ r.table = "playback_sessions"
           m == IF Passed(s, r) THEN s.missed \cup {r} ELSE s.missed
           a == [s EXCEPT !.rows = s.rows \cup {r}]
           b == [a EXCEPT !.disturbed = d]
           t == [b EXCEPT !.missed = m]
<1>1. s \in JobRecord(j)
    BY DEF Good, Shape
<1>2. d \in BOOLEAN /\ m \in SUBSET Universe[j]
    BY <1>1 DEF JobRecord
<1>3. job' = [job EXCEPT ![j] = t]
    BY <1>1 DEF LateRow, JobRecord
<1> HIDE DEF d, m
<1>4. a \in JobRecord(j)
    BY <1>1 DEF JobRecord
<1>5. b \in JobRecord(j)
  <2> HIDE DEF a
  <2> QED BY <1>2, <1>4 DEF JobRecord
<1>6. t \in JobRecord(j)
  <2> HIDE DEF b
  <2> QED BY <1>2, <1>5 DEF JobRecord
<1>7. /\ t.rows = s.rows \cup {r} /\ t.revoked = s.revoked /\ t.unit = s.unit
      /\ t.verify = s.verify /\ t.state = s.state /\ t.missed = m
    BY <1>1 DEF JobRecord
<1>8. s.state # "gone" /\ r \notin s.rows /\ Owned(s.rows \cup {r})
    BY DEF LateRow
<1> HIDE DEF t
<1>9. Good(j, t)
    BY <1>6, <1>7, <1>8, LateGood DEF m
<1> QED BY <1>3, <1>9 DEF Replaces

----------------------------------------------------------------------------

LEMMA InitInv == Init => PurgeInv
<1> SUFFICES ASSUME Init PROVE PurgeInv
    OBVIOUS
<1>1. DOMAIN job = Job
    BY DEF Init
<1>2. budget \in BudgetRecord /\ digest \in [Job -> Digest]
    BY PurgeAssumption DEF Init, Digest
<1>3. ASSUME NEW j \in Job PROVE Good(j, job[j])
  <2> DEFINE s == job[j]
  <2>1. /\ s \in [rows : SUBSET UNION {Universe[i] : i \in Job}, revoked : {{}},
                  unit : {1}, verify : {0}, state : {"live"}, due : {TRUE},
                  disturbed : {FALSE}, missed : {{}}]
        /\ s.rows \subseteq Universe[j] /\ Owned(s.rows)
    BY DEF Init
  <2> HIDE DEF s
  <2>2. s = [rows |-> s.rows, revoked |-> {}, unit |-> 1, verify |-> 0, state |-> "live",
             due |-> TRUE, disturbed |-> FALSE, missed |-> {}]
    BY <2>1
  <2>3. ASSUME NEW R \in SUBSET Universe[j], NEW S \in SUBSET Universe[j],
               NEW u \in 1 .. N + 1, NEW v \in 0 .. N
        PROVE  [rows |-> R, revoked |-> S, unit |-> u, verify |-> v, state |-> "live",
                due |-> TRUE, disturbed |-> FALSE, missed |-> S] \in JobRecord(j)
    BY DEF JobRecord
  <2>4. /\ s.rows \in SUBSET Universe[j] /\ {} \in SUBSET Universe[j]
        /\ 1 \in 1 .. N + 1 /\ 0 \in 0 .. N
    BY <2>1, PlanFacts
  <2>5. s \in JobRecord(j)
    <3> DEFINE R == s.rows
    <3>1. [rows |-> R, revoked |-> {}, unit |-> 1, verify |-> 0, state |-> "live",
           due |-> TRUE, disturbed |-> FALSE, missed |-> {}] \in JobRecord(j)
      BY <2>3, <2>4
    <3> QED BY <2>2, <3>1
  <2>6. /\ s.unit = 1 /\ s.verify = 0 /\ s.missed = {} /\ s.revoked = {}
        /\ s.state = "live"
    BY <2>1
  <2>7. Good(j, s)
    BY <2>1, <2>5, <2>6, PlanFacts DEF Good, Shape
  <2> QED BY <2>7 DEF s
<1> QED BY <1>1, <1>2, <1>3 DEF PurgeInv

\* A step that replaces one job by a good one leaves the other jobs alone.
LEMMA ReplacedInv ==
    ASSUME PurgeInv, NEW j \in Job, Replaces(j),
           digest' \in [Job -> Digest], budget' \in BudgetRecord
    PROVE  PurgeInv'
<1>1. PICK t : job' = [job EXCEPT ![j] = t] /\ Good(j, t)
    BY DEF Replaces
<1>2. DOMAIN job' = Job /\ \A i \in Job : job'[i] = IF i = j THEN t ELSE job[i]
    BY <1>1 DEF PurgeInv
<1>3. ASSUME NEW i \in Job PROVE Good(i, job'[i])
    BY <1>1, <1>2 DEF PurgeInv
<1>4. ASSUME NEW i \in Job PROVE Good(i, job[i])'
    BY <1>3 DEF Good, Shape, Pending, Finds, JobRecord, Owned, Parent, Passed, LooksFor
<1> QED BY <1>2, <1>4 DEF PurgeInv

LEMMA StepInv == PurgeInv /\ [Next]_vars => PurgeInv'
<1> SUFFICES ASSUME PurgeInv, [Next]_vars PROVE PurgeInv'
    OBVIOUS
<1>1. CASE UNCHANGED vars
    BY <1>1 DEF vars, PurgeInv, Good, Shape, Pending, Finds, Owned, Parent, Passed, LooksFor
<1>2. ASSUME NEW j \in Job, Retire(j) PROVE PurgeInv'
  <2> DEFINE s == job[j]
             t == [s EXCEPT !.state = "pending"]
  <2>1. Good(j, s) /\ s \in JobRecord(j) /\ s.state = "live"
    BY <1>2 DEF PurgeInv, Good, Shape, Retire
  <2>2. /\ t \in JobRecord(j) /\ t.rows = s.rows /\ t.revoked = s.revoked
        /\ t.unit = s.unit /\ t.verify = s.verify /\ t.missed = s.missed
        /\ t.state = "pending"
    BY <2>1 DEF JobRecord
  <2>3. job' = [job EXCEPT ![j] = t]
    BY <1>2 DEF Retire
  <2> HIDE DEF t
  <2>4. Good(j, t)
    BY <2>1, <2>2, SameJob
  <2>5. Replaces(j)
    BY <2>3, <2>4 DEF Replaces
  <2>6. digest' = digest /\ budget' = budget
    BY <1>2 DEF Retire
  <2> QED BY <2>5, <2>6, ReplacedInv DEF PurgeInv
<1>3. ASSUME NEW j \in Job, Turn(j) PROVE PurgeInv'
  <2>1. Good(j, job[j]) /\ DOMAIN job = Job /\ job[j].state \in {"pending", "blocked"}
    BY <1>3 DEF PurgeInv, Turn, Chosen, Ready
  <2>2. Park(j) => Replaces(j)
    BY <2>1, StateReplaces DEF Park
  <2>3. Replaces(j)
    BY <1>3, <2>1, <2>2, CleanReplaces, VerifyReplaces DEF Turn
  <2>4. digest' = digest \/ digest' = [digest EXCEPT ![j] = "this"]
    BY <1>3, ZenonT(40) DEF Turn, Clean, Verify, Save, Park
  <2>5. digest' \in [Job -> Digest] /\ budget' \in BudgetRecord
    BY <1>3, <2>4 DEF PurgeInv, Digest, Turn
  <2> QED BY <2>3, <2>5, ReplacedInv
<1>4. ASSUME NEW j \in Job, Fail(j) PROVE PurgeInv'
  <2>1. Good(j, job[j]) /\ DOMAIN job = Job /\ job[j].state # "gone"
    BY <1>4 DEF PurgeInv, Fail, Chosen, Ready
  <2>2. Replaces(j)
    BY <1>4, <2>1, StateReplaces DEF Fail
  <2>3. budget' \in BudgetRecord /\ digest' \in [Job -> Digest]
    BY <1>4 DEF Fail, PurgeInv, BudgetRecord
  <2> QED BY <2>2, <2>3, ReplacedInv
<1>5. ASSUME NEW j \in Job, BackoffEnds(j) PROVE PurgeInv'
  <2> DEFINE s == job[j]
             t == [s EXCEPT !.due = TRUE]
  <2>1. Good(j, s) /\ s \in JobRecord(j) /\ s.state = "blocked"
    BY <1>5 DEF PurgeInv, Good, Shape, BackoffEnds
  <2>2. /\ t \in JobRecord(j) /\ t.rows = s.rows /\ t.revoked = s.revoked
        /\ t.unit = s.unit /\ t.verify = s.verify /\ t.missed = s.missed
        /\ t.state = "blocked"
    BY <2>1 DEF JobRecord
  <2>3. job' = [job EXCEPT ![j] = t]
    BY <1>5 DEF BackoffEnds
  <2> HIDE DEF t
  <2>4. Good(j, t)
    BY <2>1, <2>2, SameJob
  <2>5. Replaces(j)
    BY <2>3, <2>4 DEF Replaces
  <2>6. digest' = digest /\ budget' = budget
    BY <1>5 DEF BackoffEnds
  <2> QED BY <2>5, <2>6, ReplacedInv DEF PurgeInv
<1>6. ASSUME NEW j \in Job, NEW r \in Universe[j], LateRow(j, r) PROVE PurgeInv'
  <2>1. Good(j, job[j]) /\ DOMAIN job = Job
    BY DEF PurgeInv
  <2>2. Replaces(j)
    BY <1>6, <2>1, LateReplaces
  <2>3. budget' \in BudgetRecord /\ digest' \in [Job -> Digest]
    BY <1>6 DEF LateRow, PurgeInv, BudgetRecord
  <2> QED BY <2>2, <2>3, ReplacedInv
<1>7. CASE Upgrade
  <2>1. job' = job
    BY <1>7 DEF Upgrade
  <2>2. budget' \in BudgetRecord /\ digest' \in [Job -> Digest]
    BY <1>7 DEF Upgrade, PurgeInv, BudgetRecord, Digest
  <2>3. \A j \in Job : Good(j, job[j])'
    BY <2>1 DEF PurgeInv, Good, Shape, Pending, Finds, Owned, Parent, Passed, LooksFor
  <2> QED BY <2>1, <2>2, <2>3 DEF PurgeInv
<1> QED BY <1>1, <1>2, <1>3, <1>4, <1>5, <1>6, <1>7 DEF Next

LEMMA InvSound == PurgeInv => PurgeSound
<1> SUFFICES ASSUME PurgeInv PROVE PurgeSound
    OBVIOUS
<1>1. TypeOK
    BY DEF PurgeInv, Good, Shape, TypeOK
<1>2. CustodyKept /\ FinishedIsClean
    BY DEF PurgeInv, Good, CustodyKept, FinishedIsClean
<1> QED BY <1>1, <1>2 DEF PurgeSound

\* phasedpurge.Turn under identity/profile_purge.go, for every plan whose guards
\* are complete, any number of jobs, late rows and failed turns: the stored
\* cursor is always valid, no row ever loses the row it belongs to, and a job is
\* only deleted when nothing is left but rows that came in behind the
\* verification that ended it.
THEOREM PurgeIsSound == Spec => []PurgeSound
<1>1. Init => PurgeInv
    BY InitInv
<1>2. PurgeInv /\ [Next]_vars => PurgeInv'
    BY StepInv
<1>3. PurgeInv => PurgeSound
    BY InvSound
<1> QED BY <1>1, <1>2, <1>3, PTL DEF Spec

----------------------------------------------------------------------------
(* What parks a job.                                                        *)

HasSessions(s) == \E r \in s.rows : r.table = "playback_sessions"

\* Until a late session comes in none is left once the unit that removes them is
\* behind the cursor, and a parked job has one, or a cursor d of another plan.
Caused(s, d) ==
    /\ ~s.disturbed => \A i \in 1 .. N :
          i < s.unit /\ RemovesSessions(Plan[i]) => ~HasSessions(s)
    /\ s.state = "parked" => d = "other" \/ (s.disturbed /\ HasSessions(s))

CauseInv == \A j \in Job : Caused(job[j], digest[j])

\* The phases of a valid plan never go down: the units of one are together.
LEMMA PhasesRise ==
    ASSUME NEW m \in 1 .. N, NEW k \in 1 .. N, m < k
    PROVE  Plan[m].phase <= Plan[k - 1].phase
<1> DEFINE S == {i \in Nat : i \in m .. k - 1 /\ ~(Plan[m].phase <= Plan[i].phase)}
<1>1. \A i \in 1 .. N : Plan[i].phase \in Nat
  BY PlanFacts DEF UnitRecord
<1>2. SUFFICES ASSUME S # {} PROVE FALSE
  BY PlanFacts
<1>3. PICK i \in S : \A n \in S : i <= n
  <2> DEFINE R == OpToRel(<, Nat)
  <2>1. IsWellFoundedOn(R, Nat)
    BY NatLessThanWellFounded
  <2>2. \A x, y \in Nat : x < y => <<x, y>> \in R
    BY DEF OpToRel
  <2> HIDE DEF R
  <2>3. S \subseteq Nat
    OBVIOUS
  <2> HIDE DEF S
  <2>4. PICK i \in S : \A n \in S : ~(<<n, i>> \in R)
    BY <1>2, <2>1, <2>3, WFMin
  <2>5. \A n \in S : n \in Nat /\ i \in Nat /\ ~(n < i)
    BY <2>2, <2>3, <2>4
  <2>6. \A n \in S : i <= n
    BY <2>5
  <2> QED BY <2>6
<1>4. i > m /\ i - 1 \in m .. k - 1 /\ i \in 1 .. N /\ i - 1 \in 1 .. N /\ i - 1 \in Nat
  BY <1>1, <1>3, PlanFacts
<1>5. Plan[m].phase <= Plan[i - 1].phase
  BY <1>3, <1>4
<1>6. Plan[i - 1].phase <= Plan[i].phase
  BY <1>4, PlanAssumption DEF PlanIsValid
<1>7. Plan[m].phase <= Plan[i].phase
  BY <1>1, <1>4, <1>5, <1>6
<1> QED BY <1>3, <1>7

\* A unit whose guard found a child is not the first of its phase.
LEMMA RewindGoesBack ==
    ASSUME NEW s, NEW k \in 1 .. N, NEW head, Blocked(s, Plan[k], head)
    PROVE  k \notin PhaseStart(k)
<1>1. PICK c \in s.rows : c.table \in Plan[k].guards
  BY DEF Blocked
<1>2. PICK m \in 1 .. k - 1 : Plan[m].phase = Plan[k].phase
  BY <1>1, PlanAssumption DEF RewindsHaveRoom
<1>3. m \in 1 .. N /\ m < k /\ k > 1 /\ k - 1 \in 1 .. N
  BY <1>2, PlanFacts
<1>4. Plan[m].phase <= Plan[k - 1].phase /\ Plan[k - 1].phase <= Plan[k].phase
  BY <1>3, PhasesRise, PlanAssumption DEF PlanIsValid
<1>5. Plan[k].phase \in Nat /\ Plan[k - 1].phase \in Nat
  BY <1>3, PlanFacts DEF UnitRecord
<1>6. Plan[k - 1].phase = Plan[k].phase
  BY <1>2, <1>4, <1>5
<1> QED BY <1>3, <1>6 DEF PhaseStart

\* A job that goes back, or forward over units with nothing to do, and is not
\* parked.
LEMMA MoveCaused ==
    ASSUME NEW s, NEW t, NEW d, NEW e, Caused(s, d), t.state # "parked",
           t.rows \subseteq s.rows, t.disturbed = s.disturbed,
           \A i \in 1 .. N : i < t.unit => i < s.unit \/ Candidates(s, Plan[i]) = {}
    PROVE  Caused(t, e)
<1>1. \A i \in 1 .. N : RemovesSessions(Plan[i]) /\ Candidates(s, Plan[i]) = {}
                            => ~HasSessions(s)
  BY DEF RemovesSessions, Candidates, HasSessions
<1>2. HasSessions(t) => HasSessions(s)
  BY DEF HasSessions
<1> QED BY <1>1, <1>2 DEF Caused

\* What Save stores, a cursor in a row of its own.
LEMMA SaveCaused ==
    ASSUME NEW j \in Job, DOMAIN job = Job, NEW s, NEW d, Caused(s, d),
           NEW x, Save(j, x), x \in JobRecord(j),
           x.rows \subseteq s.rows, x.disturbed = s.disturbed,
           \A i \in 1 .. N : i < x.unit => i < s.unit \/ Candidates(s, Plan[i]) = {}
    PROVE  Caused(job'[j], digest'[j])
<1> DEFINE t == [x EXCEPT !.state = "pending", !.due = TRUE]
<1>1. job'[j] = t
  BY DEF Save
<1>2. /\ t.rows = x.rows /\ t.disturbed = x.disturbed /\ t.unit = x.unit
      /\ t.state = "pending"
  BY DEF JobRecord
<1> HIDE DEF t
<1>3. Caused(t, digest'[j])
  BY <1>2, MoveCaused
<1> QED BY <1>1, <1>3

LEMMA ParkCaused ==
    ASSUME NEW j \in Job, DOMAIN job = Job, job[j] \in JobRecord(j), Caused(job[j], digest[j]),
           Park(j), digest[j] = "other" \/ (job[j].disturbed /\ HasSessions(job[j]))
    PROVE  Caused(job'[j], digest'[j])
<1> DEFINE s == job[j]
           t == [s EXCEPT !.state = "parked", !.due = FALSE]
<1>1. job'[j] = t
  BY DEF Park
<1>2. t.rows = s.rows /\ t.disturbed = s.disturbed /\ t.unit = s.unit
  BY DEF JobRecord
<1> HIDE DEF t
<1>3. HasSessions(t) <=> HasSessions(s)
  BY <1>2 DEF HasSessions
<1>4. digest' = digest
  BY DEF Park
<1>5. Caused(t, digest[j])
  BY <1>2, <1>3 DEF Caused
<1> QED BY <1>1, <1>4, <1>5

LEMMA CleanCaused ==
    ASSUME NEW j \in Job, DOMAIN job = Job, Good(j, job[j]), Caused(job[j], digest[j]),
           job[j].unit <= N, Clean(j, job[j])
    PROVE  Caused(job'[j], digest'[j])
<1> DEFINE s == job[j]
           Ends(k, last) ==
             \/ k > last /\ Save(j, [s EXCEPT !.unit = k])
             \/ /\ k <= last
                /\ \E head \in Lowest(Candidates(s, Plan[k])), start \in PhaseStart(k) :
                     LET o == Outcome(s, Plan[k], head)
                     IN  \/ o = "changed" /\ Save(j, [Changed(s, Plan[k], head) EXCEPT !.unit = k])
                         \/ o = "rewind" /\ start < k /\ Save(j, Restart(s, start))
                         \/ o = "rewind" /\ start = k /\ Park(j)
                         \/ o = "stuck" /\ Park(j)
<1>1. s \in JobRecord(j) /\ s.unit \in 1 .. N
  BY PlanFacts DEF Good, Shape, JobRecord
<1>2. PICK last \in Reach(s.unit, 4) : \E k \in Stop(s, s.unit, last) : Ends(k, last)
  BY DEF Clean
<1>3. PICK k \in Stop(s, s.unit, last) : Ends(k, last)
  BY <1>2
<1>4. last \in 1 .. N /\ k \in 1 .. N + 1
  BY <1>1, PlanFacts DEF Reach, Stop
<1>5. \A i \in 1 .. N : i < k => i < s.unit \/ Candidates(s, Plan[i]) = {}
  BY <1>1, <1>4, PlanFacts DEF Stop
<1>6. CASE k > last /\ Save(j, [s EXCEPT !.unit = k])
  <2> DEFINE x == [s EXCEPT !.unit = k]
  <2>1. /\ x \in JobRecord(j) /\ x.rows = s.rows /\ x.disturbed = s.disturbed
        /\ x.unit = k
    BY <1>1, <1>4, PlanFacts DEF JobRecord
  <2> QED BY <1>5, <1>6, <2>1, SaveCaused
<1>7. CASE k <= last
  <2>1. k \in 1 .. N
    BY <1>4, <1>7, PlanFacts
  <2>2. PICK head \in Lowest(Candidates(s, Plan[k])), start \in PhaseStart(k) :
          \/ /\ Outcome(s, Plan[k], head) = "changed"
             /\ Save(j, [Changed(s, Plan[k], head) EXCEPT !.unit = k])
          \/ start < k /\ Save(j, Restart(s, start))
          \/ Outcome(s, Plan[k], head) = "rewind" /\ start = k /\ Park(j)
          \/ Outcome(s, Plan[k], head) = "stuck" /\ Park(j)
    <3>1. ~(k > last)
      BY <1>4, <1>7
    <3> QED BY <1>3, <3>1, Zenon
  <2>3. CASE /\ Outcome(s, Plan[k], head) = "changed"
             /\ Save(j, [Changed(s, Plan[k], head) EXCEPT !.unit = k])
    <3> DEFINE y == Changed(s, Plan[k], head)
               x == [y EXCEPT !.unit = k]
    <3>1. head \in Universe[j]
      BY <1>1, <2>2 DEF Lowest, Candidates, JobRecord
    <3>2. y \in JobRecord(j) /\ y.rows \subseteq s.rows /\ y.disturbed = s.disturbed
      <4>1. CASE Plan[k].kind = "revoke"
        <5>1. y = [s EXCEPT !.revoked = s.revoked \cup {head}]
          BY <1>1, <4>1 DEF Changed, JobRecord
        <5> HIDE DEF y
        <5> QED BY <1>1, <3>1, <5>1 DEF JobRecord
      <4>2. CASE Plan[k].kind # "revoke"
        <5> DEFINE a == [s EXCEPT !.rows = s.rows \ {head}]
        <5>1. y = [a EXCEPT !.revoked = s.revoked \ {head}]
          BY <1>1, <4>2 DEF Changed, JobRecord
        <5> HIDE DEF y
        <5>2. a \in JobRecord(j) /\ a.rows \subseteq s.rows /\ a.disturbed = s.disturbed
          BY <1>1 DEF JobRecord
        <5> HIDE DEF a
        <5> QED BY <1>1, <5>1, <5>2 DEF JobRecord
      <4> QED BY <4>1, <4>2
    <3> HIDE DEF y
    <3>3. /\ x \in JobRecord(j) /\ x.rows \subseteq s.rows /\ x.disturbed = s.disturbed
          /\ x.unit = k
      BY <2>1, <3>2, PlanFacts DEF JobRecord
    <3> HIDE DEF x
    <3>4. Save(j, x)
      BY <2>3 DEF x, y
    <3> QED BY <1>5, <3>3, <3>4, SaveCaused
  <2>4. CASE start < k /\ Save(j, Restart(s, start))
    <3>1. start \in 1 .. N
      BY <2>1, <2>2, PlanFacts DEF PhaseStart
    <3>2. Restart(s, start) \in JobRecord(j)
      BY <1>1, <3>1, RestartTyped
    <3>3. /\ Restart(s, start).rows = s.rows
          /\ Restart(s, start).disturbed = s.disturbed
          /\ Restart(s, start).unit = start
      BY <1>1 DEF Restart, JobRecord
    <3>4. \A i \in 1 .. N : i < start => i < k
      BY <2>1, <2>4, <3>1
    <3> QED BY <1>5, <2>4, <3>2, <3>3, <3>4, SaveCaused
  <2>5. CASE Outcome(s, Plan[k], head) = "rewind" /\ start = k /\ Park(j)
    <3>1. Blocked(s, Plan[k], head)
      BY <2>5 DEF Outcome
    <3> QED BY <2>1, <2>2, <2>5, <3>1, RewindGoesBack
  <2>6. CASE Outcome(s, Plan[k], head) = "stuck" /\ Park(j)
    <3>1. Plan[k].kind = "revoke" /\ HasSessions(s)
      BY <2>6 DEF Outcome, HasSessions
    <3>2. PICK m \in 1 .. k - 1 : RemovesSessions(Plan[m])
      BY <2>1, <3>1, PlanAssumption DEF RewindsHaveRoom
    <3>3. m \in 1 .. N /\ m < k
      BY <2>1, <3>2, PlanFacts
    <3>4. Candidates(s, Plan[m]) # {}
      BY <3>1, <3>2 DEF HasSessions, RemovesSessions, Candidates
    <3>5. m < s.unit
      BY <1>5, <3>3, <3>4
    <3>6. s.disturbed
      BY <3>1, <3>2, <3>3, <3>5 DEF Caused
    <3> QED BY <1>1, <2>6, <3>1, <3>6, ParkCaused
  <2> QED BY <2>2, <2>3, <2>4, <2>5, <2>6
<1> QED BY <1>3, <1>6, <1>7

LEMMA VerifyCaused ==
    ASSUME NEW j \in Job, DOMAIN job = Job, Good(j, job[j]), Caused(job[j], digest[j]),
           job[j].unit > N, Verify(j, job[j])
    PROVE  Caused(job'[j], digest'[j])
<1> DEFINE s == job[j]
<1>1. s \in JobRecord(j) /\ s.verify \in 0 .. N /\ \A i \in 1 .. N : i < s.unit
  BY PlanFacts DEF Good, Shape, JobRecord
<1>2. PICK last \in Reach(s.verify + 1, 8) : \E k \in Stop(s, s.verify + 1, last) :
        \/ k <= last /\ \E start \in PhaseStart(k) : Save(j, Restart(s, start))
        \/ k > last /\ last < N /\ Save(j, [s EXCEPT !.verify = last])
        \/ job' = [job EXCEPT ![j].state = "gone", ![j].verify = N]
  BY DEF Verify
<1>3. PICK k \in Stop(s, s.verify + 1, last) :
        \/ k <= last /\ \E start \in PhaseStart(k) : Save(j, Restart(s, start))
        \/ k > last /\ last < N /\ Save(j, [s EXCEPT !.verify = last])
        \/ job' = [job EXCEPT ![j].state = "gone", ![j].verify = N]
  BY <1>2
<1>4. last \in 1 .. N /\ k \in 1 .. N + 1
  BY <1>1, PlanFacts DEF Reach, Stop
<1>5. ASSUME k <= last, NEW start \in PhaseStart(k), Save(j, Restart(s, start))
      PROVE  Caused(job'[j], digest'[j])
  <2>1. start \in 1 .. N
    BY <1>4, <1>5, PlanFacts DEF PhaseStart
  <2>2. Restart(s, start) \in JobRecord(j)
    BY <1>1, <2>1, RestartTyped
  <2>3. /\ Restart(s, start).rows = s.rows
        /\ Restart(s, start).disturbed = s.disturbed
    BY <1>1 DEF Restart, JobRecord
  <2> QED BY <1>1, <1>5, <2>2, <2>3, SaveCaused
<1>6. CASE last < N /\ Save(j, [s EXCEPT !.verify = last])
  <2> DEFINE x == [s EXCEPT !.verify = last]
  <2>1. x \in JobRecord(j) /\ x.rows = s.rows /\ x.disturbed = s.disturbed
    BY <1>1, <1>4, PlanFacts DEF JobRecord
  <2> QED BY <1>1, <1>6, <2>1, SaveCaused
<1>7. CASE job' = [job EXCEPT ![j].state = "gone", ![j].verify = N]
  <2> DEFINE t == [s EXCEPT !.state = "gone", !.verify = N]
  <2>1. job'[j] = t /\ t.state = "gone" /\ t.rows = s.rows /\ t.disturbed = s.disturbed
    BY <1>1, <1>7 DEF JobRecord
  <2> HIDE DEF t
  <2>2. Caused(t, digest'[j])
    BY <1>1, <2>1, MoveCaused
  <2> QED BY <2>1, <2>2
<1> QED BY <1>3, <1>5, <1>6, <1>7

\* A late session is what `disturbed' records.
LEMMA LateCaused ==
    ASSUME NEW j \in Job, DOMAIN job = Job, Good(j, job[j]), Caused(job[j], digest[j]),
           NEW r \in Universe[j], LateRow(j, r)
    PROVE  Caused(job'[j], digest'[j])
<1> DEFINE s == job[j]
           d == s.disturbed \/ r.table = "playback_sessions"
           m == IF Passed(s, r) THEN s.missed \cup {r} ELSE s.missed
           t == [s EXCEPT !.rows = s.rows \cup {r}, !.disturbed = d, !.missed = m]
<1>1. s \in JobRecord(j)
  BY DEF Good, Shape
<1>2. job'[j] = t
  BY <1>1 DEF LateRow, JobRecord
<1> HIDE DEF d, m
<1>3. /\ t.rows = s.rows \cup {r} /\ t.disturbed = d /\ t.unit = s.unit
      /\ t.state = s.state
  BY <1>1 DEF JobRecord
<1> HIDE DEF t
<1>4. HasSessions(t) <=> HasSessions(s) \/ r.table = "playback_sessions"
  BY <1>3 DEF HasSessions
<1>5. Caused(t, digest[j])
  BY <1>3, <1>4 DEF Caused, d
<1>6. digest' = digest
  BY DEF LateRow
<1> QED BY <1>2, <1>5, <1>6

\* A step leaves the other jobs alone.
LEMMA OneJobChanges ==
    ASSUME CauseInv, NEW j \in Job,
           \A i \in Job : i # j => job'[i] = job[i] /\ digest'[i] = digest[i],
           Caused(job'[j], digest'[j])
    PROVE  CauseInv'
<1>1. \A i \in Job : Caused(job'[i], digest'[i])
  BY DEF CauseInv
<1> QED BY <1>1 DEF CauseInv, Caused, HasSessions

LEMMA CauseStep == PurgeInv /\ CauseInv /\ [Next]_vars => CauseInv'
<1> SUFFICES ASSUME PurgeInv, CauseInv, [Next]_vars PROVE CauseInv'
  OBVIOUS
<1>1. CASE UNCHANGED vars
  BY <1>1 DEF vars, CauseInv, Caused, HasSessions
<1>2. ASSUME NEW j \in Job,
             \/ Retire(j) \/ Turn(j) \/ Fail(j) \/ BackoffEnds(j)
             \/ \E r \in Universe[j] : LateRow(j, r)
      PROVE  CauseInv'
  <2> DEFINE s == job[j]
  <2>1. Good(j, s) /\ s \in JobRecord(j) /\ DOMAIN job = Job /\ Caused(s, digest[j])
    BY DEF PurgeInv, Good, Shape, CauseInv
  <2>2. CASE Retire(j) \/ Fail(j) \/ BackoffEnds(j)
    <3>1. /\ job'[j].rows = s.rows /\ job'[j].disturbed = s.disturbed
          /\ job'[j].unit = s.unit /\ job'[j].state # "parked"
          /\ \A i \in Job : i # j => job'[i] = job[i]
          /\ digest' = digest
      BY <2>1, <2>2 DEF Retire, Fail, BackoffEnds, JobRecord
    <3>2. Caused(job'[j], digest'[j])
      BY <2>1, <3>1, MoveCaused
    <3> QED BY <3>1, <3>2, OneJobChanges
  <2>3. CASE Turn(j)
    <3>1. \A i \in Job : i # j => job'[i] = job[i]
      BY <2>1, <2>3, ZenonT(40) DEF Turn, Clean, Verify, Save, Park
    <3>2. digest' = digest \/ digest' = [digest EXCEPT ![j] = "this"]
      BY <2>3, ZenonT(40) DEF Turn, Clean, Verify, Save, Park
    <3>3. \A i \in Job : i # j => digest'[i] = digest[i]
      BY <3>2 DEF PurgeInv
    <3>4. Caused(job'[j], digest'[j])
      BY <2>1, <2>3, ParkCaused, CleanCaused, VerifyCaused DEF Turn
    <3> QED BY <3>1, <3>3, <3>4, OneJobChanges
  <2>4. ASSUME NEW r \in Universe[j], LateRow(j, r)
        PROVE  CauseInv'
    <3>1. \A i \in Job : i # j => job'[i] = job[i] /\ digest'[i] = digest[i]
      BY <2>1, <2>4 DEF LateRow
    <3>2. Caused(job'[j], digest'[j])
      BY <2>1, <2>4, LateCaused
    <3> QED BY <3>1, <3>2, OneJobChanges
  <2> QED BY <1>2, <2>2, <2>3, <2>4
<1>3. CASE Upgrade
  <2>1. job' = job /\ \A j \in Job : digest[j] = "other" => digest'[j] = "other"
    BY <1>3 DEF Upgrade
  <2> QED BY <2>1 DEF CauseInv, Caused, HasSessions
<1> QED BY <1>1, <1>2, <1>3 DEF Next

\* identity/profile_purge.go:41-43, for every plan whose guarded children share
\* the phase of their parents and whose sessions go before the families are
\* revoked: a job is parked for good only for a cursor of another plan, or for
\* phasedpurge's ErrNoProgress, and that comes only from a playback session written
\* behind the denial, never from a rewind.
THEOREM ParkedForACause == Spec => []ParkedHasCause
<1>1. Init => PurgeInv /\ CauseInv
  <2> SUFFICES ASSUME Init PROVE CauseInv
    BY InitInv
  <2>1. \A j \in Job : job[j].unit = 1 /\ job[j].state = "live"
    BY DEF Init
  <2>2. \A i \in 1 .. N : ~(i < 1)
    BY PlanFacts
  <2> QED BY <2>1, <2>2 DEF CauseInv, Caused
<1>2. PurgeInv /\ CauseInv /\ [Next]_vars => PurgeInv' /\ CauseInv'
  BY StepInv, CauseStep
<1>3. CauseInv => ParkedHasCause
  BY DEF CauseInv, Caused, HasSessions, ParkedHasCause
<1> QED BY <1>1, <1>2, <1>3, PTL DEF Spec

=============================================================================
