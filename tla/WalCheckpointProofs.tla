------------------------ MODULE WalCheckpointProofs ------------------------
(***************************************************************************)
(* The safety properties of reader admission and of WAL checkpoints, for   *)
(* any set of readers, also an infinite one, any limits, and any number of *)
(* checkpointers and writers.                                              *)
(*                                                                         *)
(* The gap properties are inductive on their own.  The counters of the     *)
(* scope need three facts about the sets they count: they are finite, a    *)
(* reader is in one of them at a time, and only waiters are woken; those   *)
(* facts and the counts give the scope's type invariant.                   *)
(*                                                                         *)
(* NoTailUnderGate follows the frames.  A checkpointer whose fence found   *)
(* the slot quiet, and since whose fence nobody was counted, is watching a *)
(* log nobody can append to (Watching); so the pass it ran since then      *)
(* copied all of it (CopyIsCurrent), and the turn that takes the count     *)
(* from zero to one is its own (TurnIsCurrent).                            *)
(*                                                                         *)
(* RecoveryOwned is inductive with the slot facts above.  ResetInGap adds  *)
(* that the final gap stays drained until reopen, which only its owner     *)
(* calls, and takes what a drained gap means from GapStep.                 *)
(***************************************************************************)
EXTENDS WalCheckpoint, FiniteSetTheorems, TLAPS

----------------------------------------------------------------------------
(* Reader admission, on its own. *)

\* Every step of the scope, with any outcome given to reopen.
ScopeStep ==
    \/ ReaderNext
    \/ Pause \/ ResumePressureReaders \/ PausePressureReaders \/ BackoffEnds
    \/ \E how : Reopen(how)
    \/ UNCHANGED scopeVars

\* The scope on its own takes only those steps.
LEMMA ScopeNextIsStep == [ScopeNext]_scopeVars => ScopeStep
BY DEF ScopeNext, ScopeStep

----------------------------------------------------------------------------

GapInv == GapIsDrained /\ DrainHasCloser

\* admit, close and the reset's operations keep the drained channel truthful.
LEMMA GapStep == GapInv /\ ScopeStep => GapInv'
<1> SUFFICES ASSUME GapInv, ScopeStep PROVE GapInv'
    OBVIOUS
<1> USE DEF GapInv, GapIsDrained, DrainHasCloser
<1>1. ASSUME NEW r \in Reader, Admit(r) PROVE GapInv'
    BY <1>1 DEF Admit, MustWait
<1>2. ASSUME NEW r \in Reader, StartWait(r) \/ WaitAgain(r) PROVE GapInv'
    BY <1>2 DEF StartWait, WaitAgain
<1>3. ASSUME NEW r \in Reader, AdmitWaiter(r) PROVE GapInv'
    BY <1>3 DEF AdmitWaiter
<1>4. ASSUME NEW r \in Reader, GiveUp(r) PROVE GapInv'
    BY <1>4 DEF GiveUp
<1>5. ASSUME NEW r \in Reader, CloseReader(r) PROVE GapInv'
    BY <1>5 DEF CloseReader
<1>6. CASE Pause \/ PausePressureReaders
    BY <1>6 DEF Pause, PausePressureReaders, OpenGap
<1>7. CASE ResumePressureReaders
    BY <1>7 DEF ResumePressureReaders
<1>8. ASSUME NEW how, Reopen(how) PROVE GapInv'
    BY <1>8 DEF Reopen
<1>9. CASE BackoffEnds \/ UNCHANGED scopeVars
    BY <1>9 DEF BackoffEnds, scopeVars
<1> QED
    BY <1>1, <1>2, <1>3, <1>4, <1>5, <1>6, <1>7, <1>8, <1>9 DEF ScopeStep, ReaderNext

\* A drained gap holds security reads only, and an open drained channel has a
\* reader left to close it (readerLease.close, readerScope.pause).
THEOREM GapSound == ScopeSpec => []GapExact
<1>1. ScopeInit => GapInv
    BY DEF ScopeInit, GapInv, GapIsDrained, DrainHasCloser
<1>2. GapInv /\ [ScopeNext]_scopeVars => GapInv'
    BY GapStep, ScopeNextIsStep
<1> QED
    BY <1>1, <1>2, PTL DEF ScopeSpec, GapInv, GapExact

----------------------------------------------------------------------------

\* A reader is in one set at a time, finitely many are, and only waiters sleep.
SetsApart ==
    /\ reading \in SUBSET Reader /\ waiting \in SUBSET Reader /\ woken \subseteq waiting
    /\ IsFiniteSet(reading) /\ IsFiniteSet(waiting)
    /\ reading \cap waiting = {}
    /\ gap \in {"none", "paused", "copying"} /\ drained \in {"none", "open", "closed"}
    /\ backoff \in {"no", "yes"}

\* Only waiters are woken, each into a group that has room.
SleepInv == SetsApart /\ NoSleeperWhenOpen

\* Every step wakes the sleepers when it opens the gap.
LEMMA SleepStep == SleepInv /\ ScopeStep => SleepInv'
<1> SUFFICES ASSUME SleepInv, ScopeStep PROVE SleepInv'
    OBVIOUS
<1> USE DEF SleepInv, SetsApart, NoSleeperWhenOpen
<1>1. ASSUME NEW r \in Reader, Admit(r) PROVE SleepInv'
    BY <1>1, FS_AddElement DEF Admit
<1>2. ASSUME NEW r \in Reader, StartWait(r) PROVE SleepInv'
    BY <1>2, FS_AddElement DEF StartWait, MustWait
<1>3. ASSUME NEW r \in Reader, WaitAgain(r) PROVE SleepInv'
    BY <1>3 DEF WaitAgain
<1>4. ASSUME NEW r \in Reader, AdmitWaiter(r) PROVE SleepInv'
    BY <1>4, FS_AddElement, FS_RemoveElement DEF AdmitWaiter, StopWait
<1>5. ASSUME NEW r \in Reader, GiveUp(r) PROVE SleepInv'
    BY <1>5, FS_RemoveElement DEF GiveUp, StopWait
<1>6. ASSUME NEW r \in Reader, CloseReader(r) PROVE SleepInv'
    BY <1>6, FS_RemoveElement DEF CloseReader
<1>7. CASE Pause \/ PausePressureReaders
    BY <1>7 DEF Pause, PausePressureReaders, OpenGap
<1>8. CASE ResumePressureReaders
    BY <1>8 DEF ResumePressureReaders
<1>9. ASSUME NEW how, Reopen(how) PROVE SleepInv'
    BY <1>9 DEF Reopen
<1>10. CASE BackoffEnds \/ UNCHANGED scopeVars
    BY <1>10 DEF BackoffEnds, scopeVars
<1> QED
    BY <1>1, <1>2, <1>3, <1>4, <1>5, <1>6, <1>7, <1>8, <1>9, <1>10 DEF ScopeStep, ReaderNext

\* Nobody reads or waits at first.
LEMMA SleepInit == ScopeInit => SleepInv
BY FS_EmptySet DEF ScopeInit, SleepInv, SetsApart, NoSleeperWhenOpen

\* Every reopening wakes every reader that sleeps (readerScope.resume).
THEOREM NobodyOversleeps == ScopeSpec => []NoSleeperWhenOpen
<1>1. SleepInv /\ [ScopeNext]_scopeVars => SleepInv'
    BY SleepStep, ScopeNextIsStep
<1> QED
    BY <1>1, SleepInit, PTL DEF ScopeSpec, SleepInv

----------------------------------------------------------------------------

Groups == {"foreground", "background"}

CountInv ==
    /\ SleepInv
    /\ waitCount \in [Groups -> Nat]
    /\ WaitersCounted /\ DemandExact

\* The counted sets are finite, so their cardinalities are numbers.
LEMMA CountedSetsFinite ==
    ASSUME SetsApart
    PROVE  /\ IsFiniteSet(ForegroundWaiters) /\ IsFiniteSet(BackgroundWaiters)
           /\ IsFiniteSet(Demanding)
<1>1. IsFiniteSet(reading \cup waiting)
    BY FS_Union DEF SetsApart
<1> QED
    BY <1>1, FS_Subset DEF SetsApart, ForegroundWaiters, BackgroundWaiters, Demanding

\* A reader that begins to wait is counted into its group and no other.
LEMMA StartWaitCounts ==
    ASSUME CountInv, NEW r \in Reader, StartWait(r)
    PROVE  /\ waitCount' \in [Groups -> Nat]
           /\ WaitersCounted'
<1> USE DEF CountInv, SleepInv, Groups
<1>1. IsFiniteSet(ForegroundWaiters) /\ IsFiniteSet(BackgroundWaiters)
    BY CountedSetsFinite
<1>2. r \notin waiting /\ waiting' = waiting \cup {r}
      /\ waitCount' = [waitCount EXCEPT ![Group(r)] = @ + 1]
      /\ waitCount[Group(r)] < WaiterLimit(r)
    BY DEF StartWait
<1>3. CASE r \in BackgroundReader
  <2>1. ForegroundWaiters' = ForegroundWaiters /\ BackgroundWaiters' = BackgroundWaiters \cup {r}
    BY <1>2, <1>3 DEF ForegroundWaiters, BackgroundWaiters
  <2>2. Cardinality(BackgroundWaiters') = Cardinality(BackgroundWaiters) + 1
    BY <1>1, <1>2, <2>1, FS_AddElement DEF BackgroundWaiters
  <2> QED
    BY <1>2, <1>3, <2>1, <2>2, ReaderAssumption
       DEF WaitersCounted, Group, WaiterLimit, ReaderAssumption
<1>4. CASE r \notin BackgroundReader
  <2>1. BackgroundWaiters' = BackgroundWaiters /\ ForegroundWaiters' = ForegroundWaiters \cup {r}
    BY <1>2, <1>4 DEF ForegroundWaiters, BackgroundWaiters
  <2>2. Cardinality(ForegroundWaiters') = Cardinality(ForegroundWaiters) + 1
    BY <1>1, <1>2, <2>1, FS_AddElement DEF ForegroundWaiters
  <2> QED
    BY <1>2, <1>4, <2>1, <2>2, ReaderAssumption
       DEF WaitersCounted, Group, WaiterLimit, ReaderAssumption
<1> QED
    BY <1>3, <1>4

\* A reader that stops waiting, for whatever reason, is counted out of it.
LEMMA StopWaitCounts ==
    ASSUME CountInv, NEW r \in Reader, r \in waiting, StopWait(r)
    PROVE  /\ waitCount' \in [Groups -> Nat]
           /\ WaitersCounted'
<1> USE DEF CountInv, SleepInv, Groups
<1>1. IsFiniteSet(ForegroundWaiters) /\ IsFiniteSet(BackgroundWaiters)
    BY CountedSetsFinite
<1>2. waiting' = waiting \ {r} /\ waitCount' = [waitCount EXCEPT ![Group(r)] = @ - 1]
    BY DEF StopWait
<1>3. CASE r \in BackgroundReader
  <2>1. ForegroundWaiters' = ForegroundWaiters /\ BackgroundWaiters' = BackgroundWaiters \ {r}
        /\ r \in BackgroundWaiters
    BY <1>2, <1>3 DEF ForegroundWaiters, BackgroundWaiters
  <2>2. Cardinality(BackgroundWaiters') = Cardinality(BackgroundWaiters) - 1
        /\ Cardinality(BackgroundWaiters') \in Nat
    BY <1>1, <2>1, FS_RemoveElement, FS_CardinalityType
  <2> QED
    BY <1>2, <1>3, <2>1, <2>2, ReaderAssumption
       DEF WaitersCounted, Group, ReaderAssumption
<1>4. CASE r \notin BackgroundReader
  <2>1. BackgroundWaiters' = BackgroundWaiters /\ ForegroundWaiters' = ForegroundWaiters \ {r}
        /\ r \in ForegroundWaiters
    BY <1>2, <1>4 DEF ForegroundWaiters, BackgroundWaiters
  <2>2. Cardinality(ForegroundWaiters') = Cardinality(ForegroundWaiters) - 1
        /\ Cardinality(ForegroundWaiters') \in Nat
    BY <1>1, <2>1, FS_RemoveElement, FS_CardinalityType
  <2> QED
    BY <1>2, <1>4, <2>1, <2>2, ReaderAssumption
       DEF WaitersCounted, Group, ReaderAssumption
<1> QED
    BY <1>3, <1>4

\* A reader that begins or ends moves the demand by its share.
LEMMA DemandCounts ==
    ASSUME SetsApart, DemandExact, NEW r \in Reader,
           \/ r \notin reading \cup waiting /\ demand' = demand + Demand(r)
              /\ (reading \cup waiting)' = reading \cup waiting \cup {r}
           \/ r \in reading \cup waiting /\ demand' = demand - Demand(r)
              /\ (reading \cup waiting)' = (reading \cup waiting) \ {r}
    PROVE  DemandExact'
<1>1. IsFiniteSet(Demanding) /\ Cardinality(Demanding) \in Nat
    BY CountedSetsFinite, FS_CardinalityType
<1>2. CASE r \in MaintenanceReader
  <2>1. Demanding' = Demanding
    BY <1>2 DEF Demanding
  <2> QED
    BY <1>1, <1>2, <2>1 DEF DemandExact, Demand
<1>3. CASE r \notin MaintenanceReader /\ r \notin reading \cup waiting
  <2>1. Demanding' = Demanding \cup {r} /\ r \notin Demanding
    BY <1>3 DEF Demanding
  <2> QED
    BY <1>1, <1>3, <2>1, FS_AddElement DEF DemandExact, Demand
<1>4. CASE r \notin MaintenanceReader /\ r \in reading \cup waiting
  <2>1. Demanding' = Demanding \ {r} /\ r \in Demanding
    BY <1>4 DEF Demanding
  <2> QED
    BY <1>1, <1>4, <2>1, FS_RemoveElement DEF DemandExact, Demand
<1> QED
    BY <1>2, <1>3, <1>4

\* Every step keeps the counters exact.
LEMMA CountStep == CountInv /\ ScopeStep => CountInv'
<1> SUFFICES ASSUME CountInv, ScopeStep PROVE CountInv'
    OBVIOUS
<1>0. SleepInv'
    BY SleepStep DEF CountInv
<1>a. SetsApart /\ DemandExact
    BY DEF CountInv, SleepInv
<1>1. ASSUME NEW r \in Reader, Admit(r) PROVE CountInv'
  <2>1. DemandExact'
    BY <1>1, <1>a, DemandCounts DEF Admit
  <2> QED
    BY <1>0, <1>1, <2>1 DEF CountInv, WaitersCounted, ForegroundWaiters, BackgroundWaiters, Admit
<1>2. ASSUME NEW r \in Reader, StartWait(r) PROVE CountInv'
  <2>1. DemandExact'
    BY <1>2, <1>a, DemandCounts DEF StartWait
  <2> QED
    BY <1>0, <1>2, <2>1, StartWaitCounts DEF CountInv
<1>3. ASSUME NEW r \in Reader, WaitAgain(r) PROVE CountInv'
    BY <1>0, <1>3 DEF CountInv, WaitersCounted, ForegroundWaiters, BackgroundWaiters,
       DemandExact, Demanding, WaitAgain
<1>4. ASSUME NEW r \in Reader, AdmitWaiter(r) PROVE CountInv'
  <2>1. r \in waiting
    BY <1>4, <1>a DEF AdmitWaiter, SetsApart
  <2>2. (reading \cup waiting)' = reading \cup waiting /\ demand' = demand
    BY <1>4, <2>1 DEF AdmitWaiter, StopWait
  <2> QED
    BY <1>0, <1>4, <2>1, <2>2, StopWaitCounts DEF CountInv, DemandExact, Demanding, AdmitWaiter
<1>5. ASSUME NEW r \in Reader, GiveUp(r) PROVE CountInv'
  <2>1. (reading \cup waiting)' = (reading \cup waiting) \ {r}
    BY <1>5, <1>a DEF GiveUp, StopWait, SetsApart
  <2>2. DemandExact'
    BY <1>5, <1>a, <2>1, DemandCounts DEF GiveUp
  <2> QED
    BY <1>0, <1>5, <2>2, StopWaitCounts DEF CountInv, GiveUp
<1>6. ASSUME NEW r \in Reader, CloseReader(r) PROVE CountInv'
  <2>1. (reading \cup waiting)' = (reading \cup waiting) \ {r}
    BY <1>6, <1>a DEF CloseReader, SetsApart
  <2>2. DemandExact'
    BY <1>6, <1>a, <2>1, DemandCounts DEF CloseReader
  <2> QED
    BY <1>0, <1>6, <2>2 DEF CountInv, WaitersCounted, ForegroundWaiters, BackgroundWaiters,
       CloseReader
<1>7. CASE Pause \/ PausePressureReaders \/ ResumePressureReaders \/ BackoffEnds
    BY <1>0, <1>7 DEF CountInv, WaitersCounted, ForegroundWaiters, BackgroundWaiters,
       DemandExact, Demanding, Pause, PausePressureReaders,
       OpenGap, ResumePressureReaders, BackoffEnds
<1>8. ASSUME NEW how, Reopen(how) PROVE CountInv'
    BY <1>0, <1>8 DEF CountInv, WaitersCounted, ForegroundWaiters, BackgroundWaiters,
       DemandExact, Demanding, Reopen
<1>9. CASE UNCHANGED scopeVars
    BY <1>0, <1>9 DEF CountInv, WaitersCounted, ForegroundWaiters, BackgroundWaiters,
       DemandExact, Demanding, scopeVars
<1> QED
    BY <1>1, <1>2, <1>3, <1>4, <1>5, <1>6, <1>7, <1>8, <1>9 DEF ScopeStep, ReaderNext

\* The empty scope is counted exactly.
LEMMA CountInit == ScopeInit => CountInv
<1> SUFFICES ASSUME ScopeInit PROVE CountInv
    OBVIOUS
<1>1. Cardinality({}) = 0
    BY FS_EmptySet
<1>2. ForegroundWaiters = {} /\ BackgroundWaiters = {} /\ Demanding = {}
    BY DEF ScopeInit, ForegroundWaiters, BackgroundWaiters, Demanding
<1> QED
    BY <1>1, <1>2, SleepInit, ReaderAssumption
       DEF ScopeInit, CountInv, WaitersCounted, DemandExact, Groups, ReaderAssumption

\* Exact counters are natural numbers.
LEMMA CountInvTypes == CountInv => ScopeTypeOK
<1> SUFFICES ASSUME CountInv PROVE ScopeTypeOK
    OBVIOUS
<1>1. demand \in Nat
    BY CountedSetsFinite, FS_CardinalityType DEF CountInv, SleepInv, DemandExact, Demanding
<1> QED
    BY <1>1 DEF CountInv, SleepInv, SetsApart, Groups, ScopeTypeOK

\* The waiter groups and the cold-read demand are counted exactly, within their
\* limits, on every path of admit and close.
THEOREM CountersExact == ScopeSpec => []ScopeCounters
<1>1. CountInv /\ [ScopeNext]_scopeVars => CountInv'
    BY CountStep, ScopeNextIsStep
<1>2. CountInv => ScopeCounters
    BY DEF CountInv, ScopeCounters
<1> QED
    BY <1>1, <1>2, CountInit, PTL DEF ScopeSpec

\* Type correctness of the scope: in particular no counter is ever negative.
THEOREM ScopeTypeCorrect == ScopeSpec => []ScopeTypeOK
<1>1. CountInv /\ [ScopeNext]_scopeVars => CountInv'
    BY CountStep, ScopeNextIsStep
<1> QED
    BY <1>1, CountInit, CountInvTypes, PTL DEF ScopeSpec

----------------------------------------------------------------------------
(* Checkpoints. *)

\* The types of everything but the reader scope.
OwnerTypeOK ==
    /\ SlotTypeOK
    /\ at \in [Checkpointer -> Stages]
    /\ idle \in [Checkpointer -> {"yes", "no"}]
    /\ full \in [Checkpointer -> {"yes", "no"}]
    /\ outcome \in [Checkpointer -> {"failed", "deferred", "reset"}]
    /\ wal \in {"copied", "tail"} /\ grown \in {"yes", "no"}
    /\ copier \in Checkpointer \cup {Nobody}

\* Whoever is at its turn is behind the gate, alone.
TurnHoldsSlot ==
    \A c \in Checkpointer : at[c] \in TurnStages => slot \in {c, Turn}

OneTurn ==
    \A c, d \in Checkpointer : at[c] \in TurnStages /\ at[d] \in TurnStages => c = d

\* The fence of c was quiet and nobody that could append began since.
Watched(c) == idle[c] = "yes" /\ since[c] = 0

Watching == \A c \in Checkpointer : Watched(c) => QuietSlot

CopyInProgress ==
    \A c \in Checkpointer :
        copier = c => at[c] \in CopyStages /\ (Watched(c) => grown = "no")

\* The stages in which the last pass ran after the last fence.
FencedStages == {"decide", "asking", "proved", "finalDrain", "asked"}

CopyIsCurrent ==
    \A c \in Checkpointer :
        at[c] \in FencedStages /\ full[c] = "yes" /\ Watched(c) => wal = "copied"

CopyWasFull ==
    \A c \in Checkpointer :
        at[c] \in {"asking", "finalDrain", "asked"} => full[c] = "yes" /\ idle[c] = "yes"

TurnIsCurrent ==
    \A c \in Checkpointer :
        /\ at[c] = "turn" /\ since[c] = 1 => wal = "copied"
        /\ at[c] = "truncate" => wal = "copied"

\* The inductive invariant of the copy.
CopyInv ==
    /\ OwnerTypeOK /\ TurnHoldsSlot /\ OneTurn /\ Watching
    /\ CopyInProgress /\ CopyIsCurrent /\ CopyWasFull /\ TurnIsCurrent

----------------------------------------------------------------------------

\* A checkpoint that has not begun claims nothing.
LEMMA CopyInvInit == Init => CopyInv
<1> SUFFICES ASSUME Init PROVE CopyInv
    OBVIOUS
<1> USE SlotAssumption, CheckpointerAssumption DEF Init, SlotInit
<1>1. OwnerTypeOK
    BY DEF OwnerTypeOK, SlotTypeOK, SlotAssumption, CheckpointerAssumption, Stages, SoftStages
<1>2. TurnHoldsSlot /\ OneTurn /\ CopyIsCurrent /\ CopyWasFull /\ TurnIsCurrent
    BY DEF TurnHoldsSlot, OneTurn, CopyIsCurrent, CopyWasFull, TurnIsCurrent, TurnStages,
       FencedStages
<1>3. Watching /\ CopyInProgress
    BY DEF Watching, Watched, CopyInProgress, SlotAssumption, CheckpointerAssumption
<1> QED
    BY <1>1, <1>2, <1>3 DEF CopyInv

\* Frames are appended only when no checkpointer watches and none is at its turn.
LEMMA AppendIsSeen ==
    ASSUME CopyInv, Append
    PROVE  CopyInv'
<1>1. /\ slot \in OtherWriter \ Readiness
      /\ wal' = "tail" /\ grown' = "yes"
      /\ UNCHANGED <<slot, phase, fences, since, reserved, at, idle, full, outcome, copier>>
    BY DEF Append, slotVars, ownerVars
<1>2. slot # Nobody /\ slot \notin Checkpointer /\ slot # Turn
    BY <1>1, SlotAssumption DEF OtherWriter, SlotAssumption
<1>3. ASSUME NEW c \in Checkpointer PROVE ~Watched(c) /\ at[c] \notin TurnStages
    BY <1>1, <1>2, <1>3 DEF CopyInv, Watching, QuietSlot, TurnHoldsSlot
<1>4. OwnerTypeOK' /\ TurnHoldsSlot' /\ OneTurn' /\ CopyWasFull'
    BY <1>1 DEF CopyInv, OwnerTypeOK, SlotTypeOK, TurnHoldsSlot, OneTurn, CopyWasFull
<1>5. Watching' /\ CopyInProgress' /\ CopyIsCurrent'
    BY <1>1, <1>3 DEF CopyInv, Watching, QuietSlot, Watched, CopyInProgress, CopyIsCurrent
<1>6. TurnIsCurrent'
    BY <1>1, <1>3 DEF TurnIsCurrent, TurnStages
<1> QED
    BY <1>4, <1>5, <1>6 DEF CopyInv

\* A writer begins in an empty slot, so nobody is at its turn; if it may append,
\* every checkpointer's count moves and nobody watches any longer.
LEMMA WritersAreSeen ==
    ASSUME CopyInv, WriterNext
    PROVE  CopyInv'
<1>1. UNCHANGED <<at, idle, full, outcome, wal, copier, grown>>
    BY DEF WriterNext, ownerVars, logVars
<1>2. ASSUME NEW w \in OtherWriter, SlotBegin(w) PROVE CopyInv'
  <2>1. slot = Nobody /\ slot' = w /\ w \in Writer \ Checkpointer
    BY <1>2 DEF SlotBegin, OtherWriter
  <2>2. ASSUME NEW c \in Checkpointer PROVE at[c] \notin TurnStages
    BY <2>1, SlotAssumption, CheckpointerAssumption
       DEF CopyInv, TurnHoldsSlot, SlotAssumption, CheckpointerAssumption
  <2>3. OwnerTypeOK'
    BY <1>1, <1>2, <2>1, CheckpointerAssumption, SlotAssumption
       DEF CopyInv, OwnerTypeOK, SlotTypeOK, SlotBegin, Counted, CheckpointerAssumption,
           SlotAssumption
  <2>4. ASSUME NEW c \in Checkpointer, Watched(c)'
        PROVE  Watched(c) /\ slot' \in Readiness
    BY <1>1, <1>2, <2>4, CheckpointerAssumption
       DEF Watched, SlotBegin, Counted, CheckpointerAssumption
  <2>5. TurnHoldsSlot' /\ OneTurn' /\ CopyWasFull' /\ TurnIsCurrent'
    BY <1>1, <2>2 DEF CopyInv, TurnHoldsSlot, OneTurn, CopyWasFull, TurnIsCurrent, TurnStages
  <2>6. Watching' /\ CopyInProgress' /\ CopyIsCurrent'
    BY <1>1, <2>4 DEF CopyInv, Watching, QuietSlot, CopyInProgress, CopyIsCurrent
  <2> QED
    BY <2>3, <2>5, <2>6 DEF CopyInv
<1>3. ASSUME NEW w \in OtherWriter, SlotEnd(w) PROVE CopyInv'
  <2>1. slot = w /\ slot' = Nobody /\ UNCHANGED <<phase, fences, since, reserved>>
    BY <1>3 DEF SlotEnd
  <2>2. ASSUME NEW c \in Checkpointer PROVE at[c] \notin TurnStages
    BY <2>1, SlotAssumption DEF CopyInv, TurnHoldsSlot, OtherWriter, SlotAssumption
  <2>3. OwnerTypeOK' /\ TurnHoldsSlot' /\ OneTurn' /\ CopyWasFull'
    BY <1>1, <2>1, <2>2
       DEF CopyInv, OwnerTypeOK, SlotTypeOK, TurnHoldsSlot, OneTurn, CopyWasFull
  <2>4. Watching' /\ CopyInProgress' /\ CopyIsCurrent' /\ TurnIsCurrent'
    BY <1>1, <2>1
       DEF CopyInv, Watching, QuietSlot, Watched, CopyInProgress, CopyIsCurrent, TurnIsCurrent
  <2> QED
    BY <2>3, <2>4 DEF CopyInv
<1> QED
    BY <1>2, <1>3 DEF WriterNext

\* An acquisition by checkpointer c, as a soft turn or as the reserved one, ends
\* every other watch; c itself was watching if its count is one now.
LEMMA TurnIsItsOwn ==
    ASSUME CopyInv, NEW c \in Checkpointer, at[c] \in {"asking", "asked"},
           slot = Nobody, slot' \in {c, Turn}, since' = Counted, at' = [at EXCEPT ![c] = "turn"],
           SlotTypeOK', UNCHANGED <<idle, full, outcome, wal, copier, grown>>
    PROVE  CopyInv'
<1>1. ASSUME NEW d \in Checkpointer PROVE at[d] \notin TurnStages
    BY SlotAssumption, CheckpointerAssumption
       DEF CopyInv, TurnHoldsSlot, SlotAssumption, CheckpointerAssumption
<1>2. ASSUME NEW d \in Checkpointer PROVE since'[d] # 0 /\ (since'[d] = 1 => since[d] = 0)
    BY CheckpointerAssumption DEF Counted, CheckpointerAssumption
<1>3. OwnerTypeOK'
    BY DEF CopyInv, OwnerTypeOK, Stages, TurnStages
<1>4. TurnHoldsSlot' /\ OneTurn'
    BY <1>1 DEF CopyInv, OwnerTypeOK, TurnHoldsSlot, OneTurn
<1>5. Watching' /\ CopyIsCurrent'
    BY <1>2 DEF Watching, CopyIsCurrent, Watched
<1>6. CopyInProgress' /\ CopyWasFull'
    BY <1>2 DEF CopyInv, OwnerTypeOK, CopyInProgress, CopyWasFull, Watched, CopyStages
<1>7. TurnIsCurrent'
    BY <1>1, <1>2
       DEF CopyInv, OwnerTypeOK, TurnIsCurrent, CopyIsCurrent, CopyWasFull, Watched,
           FencedStages, TurnStages
<1> QED
    BY <1>3, <1>4, <1>5, <1>6, <1>7 DEF CopyInv

\* A pass that ends full under a watch has copied the whole log.
LEMMA CopyEnds ==
    ASSUME CopyInv, NEW c \in Checkpointer, EndCopy(c)
    PROVE  CopyInv'
<1>1. /\ copier = c /\ copier' = Nobody /\ at[c] \in CopyStages
      /\ UNCHANGED <<slot, phase, fences, since, reserved, idle, outcome, grown>>
    BY DEF EndCopy, CopyInv, CopyInProgress, slotVars
<1>2. PICK all \in {"yes", "no"} :
         /\ full' = [full EXCEPT ![c] = all]
         /\ wal' = IF all = "yes" /\ grown = "no" THEN "copied" ELSE wal
    BY DEF EndCopy
<1>3. PICK next \in {"decide", "pause", "proved"} : at' = [at EXCEPT ![c] = next]
    BY <1>1 DEF EndCopy, GoTo, AfterCopy, CopyStages
<1>4. wal = "copied" => wal' = "copied"
    BY <1>2
<1>5. OwnerTypeOK'
    BY <1>1, <1>2, <1>3
       DEF CopyInv, OwnerTypeOK, SlotTypeOK, Stages, SoftStages, GapStages
<1>6. TurnHoldsSlot' /\ OneTurn' /\ Watching' /\ CopyWasFull'
    BY <1>1, <1>2, <1>3
       DEF CopyInv, OwnerTypeOK, TurnHoldsSlot, OneTurn, Watching, QuietSlot, Watched,
           CopyWasFull, TurnStages
<1>7. CopyInProgress'
    BY <1>1, SlotAssumption, CheckpointerAssumption
       DEF CopyInProgress, SlotAssumption, CheckpointerAssumption
<1>8. CopyIsCurrent'
    BY <1>1, <1>2, <1>3, <1>4
       DEF CopyInv, OwnerTypeOK, CopyIsCurrent, CopyInProgress, Watched, FencedStages
<1>9. TurnIsCurrent'
    BY <1>1, <1>3, <1>4 DEF CopyInv, OwnerTypeOK, TurnIsCurrent
<1> QED
    BY <1>5, <1>6, <1>7, <1>8, <1>9 DEF CopyInv

\* Reading a fence starts a watch exactly when the slot is quiet.
LEMMA FenceStartsWatch ==
    ASSUME CopyInv, NEW c \in Checkpointer, ReadFence(c), at[c] \in {"idle", "settle"},
           NEW stage \in {"first", "proof"}, GoTo(c, stage),
           UNCHANGED <<full, outcome, wal, copier, grown>>
    PROVE  CopyInv'
<1>1. /\ since' = [since EXCEPT ![c] = 0] /\ UNCHANGED <<slot, phase, fences, reserved>>
      /\ idle' = [idle EXCEPT ![c] = IF QuietSlot THEN "yes" ELSE "no"]
      /\ at' = [at EXCEPT ![c] = stage]
    BY DEF ReadFence, SlotReadFence, GoTo
<1>2. OwnerTypeOK'
    BY <1>1, CheckpointerAssumption
       DEF CopyInv, OwnerTypeOK, SlotTypeOK, CheckpointerAssumption, Stages, SoftStages, GapStages
<1>3. TurnHoldsSlot' /\ OneTurn' /\ CopyWasFull' /\ TurnIsCurrent'
    BY <1>1, CheckpointerAssumption
       DEF CopyInv, OwnerTypeOK, SlotTypeOK, CheckpointerAssumption, TurnHoldsSlot, OneTurn,
           CopyWasFull, TurnIsCurrent, TurnStages
<1>4. Watching' /\ CopyInProgress' /\ CopyIsCurrent'
    BY <1>1, CheckpointerAssumption
       DEF CopyInv, OwnerTypeOK, SlotTypeOK, CheckpointerAssumption, Watching, QuietSlot, Watched,
           CopyInProgress, CopyIsCurrent, CopyStages, FencedStages
<1> QED
    BY <1>2, <1>3, <1>4 DEF CopyInv

\* A step to a stage off the turn that leaves the slot, the fence and the log
\* alone keeps the invariant, if it carries no claim the old stage did not have.
LEMMA StageMoves ==
    ASSUME CopyInv, NEW c \in Checkpointer, NEW stage \in Stages \ TurnStages, GoTo(c, stage),
           copier # c, at[c] \notin TurnStages,
           stage \in FencedStages => at[c] \in FencedStages,
           stage \in {"asking", "finalDrain", "asked"} => full[c] = "yes" /\ idle[c] = "yes",
           OwnerTypeOK', UNCHANGED <<slot, since, idle, full, wal, copier, grown>>
    PROVE  CopyInv'
<1>1. at' = [at EXCEPT ![c] = stage] /\ at \in [Checkpointer -> Stages]
    BY DEF GoTo, CopyInv, OwnerTypeOK
<1>2. TurnHoldsSlot' /\ OneTurn' /\ TurnIsCurrent'
    BY <1>1 DEF CopyInv, TurnHoldsSlot, OneTurn, TurnIsCurrent, TurnStages
<1>3. Watching' /\ CopyInProgress'
    BY <1>1 DEF CopyInv, Watching, QuietSlot, Watched, CopyInProgress
<1>4. CopyIsCurrent' /\ CopyWasFull'
    BY <1>1 DEF CopyInv, CopyIsCurrent, Watched, CopyWasFull
<1> QED
    BY <1>2, <1>3, <1>4 DEF CopyInv

\* The steps of a checkpoint before it has the gate, and after it gave it back.
LEMMA QuietSteps ==
    ASSUME CopyInv, NEW c \in Checkpointer,
           \/ StayPassive(c) \/ SoftAsk(c) \/ HardPressure(c) \/ EnterHold(c) \/ HolderDone(c)
           \/ PauseReaders(c) \/ Drained(c) \/ DrainLate(c) \/ BeginPause(c) \/ Proved(c)
           \/ AskTurn(c) \/ ReopenReaders(c) \/ EndRecovery(c)
    PROVE  CopyInv'
<1> DEFINE Left == {"decide", "enter", "hold", "gap", "drain", "finalDrain", "pause", "proved",
                    "reopen", "end"}
<1>1. at[c] \in Left
    BY DEF Left, StayPassive, SoftAsk, HardPressure, EnterHold, HolderDone, PauseReaders, Drained,
       DrainLate, DrainStages, BeginPause, Proved, AskTurn, ReopenReaders, EndRecovery
<1>2. copier # c /\ at[c] \notin TurnStages
    BY <1>1 DEF CopyInv, CopyInProgress, CopyStages, TurnStages
<1>3. UNCHANGED <<slot, since, idle, full, wal, copier, grown>>
    BY DEF StayPassive, SoftAsk, HardPressure, EnterHold, HolderDone, PauseReaders, Drained,
       DrainLate, BeginPause, Proved, AskTurn, ReopenReaders, EndRecovery, slotVars, logVars,
       SlotHold, SlotPause, SlotAskTurn, SlotResume, Unwind
<1>4. PICK stage \in Stages \ TurnStages :
         /\ GoTo(c, stage)
         /\ stage \in FencedStages => at[c] \in FencedStages
         /\ stage \in {"asking", "finalDrain", "asked"} => full[c] = "yes" /\ idle[c] = "yes"
  <2> USE DEF Stages, SoftStages, HoldStages, GapStages, TurnStages, FencedStages
  <2>1. CASE StayPassive(c) \/ SoftAsk(c) \/ HardPressure(c)
    BY <2>1 DEF StayPassive, SoftAsk, HardPressure
  <2>2. CASE EnterHold(c) \/ HolderDone(c) \/ PauseReaders(c) \/ Drained(c) \/ DrainLate(c)
    BY <2>2 DEF EnterHold, HolderDone, PauseReaders, Drained, DrainLate, Unwind
  <2>3. CASE BeginPause(c) \/ Proved(c) \/ AskTurn(c)
    BY <2>3 DEF BeginPause, Proved, AskTurn, Unwind, CopyInv, CopyWasFull
  <2>4. CASE ReopenReaders(c) \/ EndRecovery(c)
    BY <2>4 DEF ReopenReaders, EndRecovery
  <2> QED
    BY <2>1, <2>2, <2>3, <2>4
<1>5. phase' \in {"none", "hold", "pause"} /\ fences' \in Nat /\ reserved' \in {"free", "asked", "done"}
    BY DEF CopyInv, OwnerTypeOK, SlotTypeOK, StayPassive, SoftAsk, HardPressure, EnterHold,
       HolderDone, PauseReaders, Drained, DrainLate, BeginPause, Proved, AskTurn, ReopenReaders,
       EndRecovery, slotVars, SlotHold, SlotPause, SlotAskTurn, SlotResume, Unwind
<1>6. outcome' \in [Checkpointer -> {"failed", "deferred", "reset"}]
    BY DEF CopyInv, OwnerTypeOK, StayPassive, SoftAsk, HardPressure, EnterHold,
       HolderDone, PauseReaders, Drained, DrainLate, BeginPause, Proved, AskTurn, ReopenReaders,
       EndRecovery, Unwind
<1>7. OwnerTypeOK'
    BY <1>3, <1>4, <1>5, <1>6 DEF CopyInv, OwnerTypeOK, SlotTypeOK, GoTo
<1> QED
    BY <1>2, <1>3, <1>4, <1>7, StageMoves

\* A pass that begins sees the whole log; one that is refused or fails claims
\* nothing.
LEMMA CopySteps ==
    ASSUME CopyInv, NEW c \in Checkpointer, StartCopy(c) \/ CopyBusy(c) \/ CopyFails(c)
    PROVE  CopyInv'
<1> USE DEF CopyInv, OwnerTypeOK, TurnHoldsSlot, OneTurn, Watching, QuietSlot, Watched,
        CopyInProgress, CopyIsCurrent, CopyWasFull, TurnIsCurrent, SlotTypeOK, GoTo, slotVars,
        logVars, ownerVars, CopyStages, TurnStages, FencedStages
<1>1. CASE StartCopy(c)
    BY <1>1 DEF StartCopy
<1>2. CASE CopyBusy(c)
  <2>1. PICK next \in {"decide", "pause", "proved"} : at' = [at EXCEPT ![c] = next]
    BY <1>2 DEF CopyBusy, AfterCopy
  <2> QED
    BY <1>2, <2>1 DEF CopyBusy, Stages, SoftStages, GapStages
<1>3. CASE CopyFails(c)
    BY <1>3, SlotAssumption, CheckpointerAssumption
       DEF CopyFails, Stages, SoftStages, GapStages, SlotAssumption, CheckpointerAssumption
<1> QED
    BY <1>1, <1>2, <1>3

\* Behind the gate: check, TRUNCATE, release.
LEMMA TurnSteps ==
    ASSUME CopyInv, NEW c \in Checkpointer, CheckTurn(c) \/ Truncate(c) \/ Release(c)
    PROVE  CopyInv'
<1> USE SlotAssumption, CheckpointerAssumption
        DEF CopyInv, OwnerTypeOK, TurnHoldsSlot, OneTurn, Watching, QuietSlot, Watched,
        CopyInProgress, CopyIsCurrent, CopyWasFull, TurnIsCurrent, SlotTypeOK, GoTo, slotVars,
        logVars, Unwind, CopyStages, TurnStages, FencedStages, Stages, SoftStages, GapStages,
        SlotAssumption, CheckpointerAssumption
<1>1. CASE CheckTurn(c)
    BY <1>1 DEF CheckTurn
<1>2. CASE Truncate(c)
    BY <1>2 DEF Truncate
<1>3. CASE Release(c)
    BY <1>3 DEF Release, SlotEnd
<1> QED
    BY <1>1, <1>2, <1>3

\* Every step keeps the copy current for whoever relies on it.
LEMMA CopyInvNext == CopyInv /\ [Next]_vars => CopyInv'
<1> SUFFICES ASSUME CopyInv, [Next]_vars PROVE CopyInv'
    OBVIOUS
<1>1. CASE ReadersMove \/ UNCHANGED vars
  <2>1. UNCHANGED <<slotVars, ownerVars, logVars>>
    BY <1>1 DEF ReadersMove, vars
  <2> QED
    BY <2>1 DEF slotVars, ownerVars, logVars, CopyInv, OwnerTypeOK, SlotTypeOK, TurnHoldsSlot,
       OneTurn, Watching, QuietSlot, Watched, CopyInProgress, CopyIsCurrent, CopyWasFull,
       TurnIsCurrent
<1>2. ASSUME NEW c \in Checkpointer, Begin(c) PROVE CopyInv'
    BY <1>2, FenceStartsWatch DEF Begin, logVars
<1>3. ASSUME NEW c \in Checkpointer, ReadProofFence(c) PROVE CopyInv'
  <2>1. CASE ReadFence(c) /\ GoTo(c, "proof") /\ UNCHANGED <<full, outcome>>
    BY <1>3, <2>1, FenceStartsWatch DEF ReadProofFence, logVars
  <2>2. CASE Unwind(c, "reopen", "deferred") /\ UNCHANGED slotVars
    <3>1. copier # c /\ at[c] \notin TurnStages
      BY <1>3 DEF ReadProofFence, CopyInv, CopyInProgress, CopyStages, TurnStages
    <3>2. OwnerTypeOK'
      BY <1>3, <2>2 DEF ReadProofFence, CopyInv, OwnerTypeOK, SlotTypeOK, Unwind, GoTo,
         slotVars, logVars, Stages, GapStages
    <3> QED
      BY <1>3, <2>2, <3>1, <3>2, StageMoves DEF ReadProofFence, Unwind, slotVars, logVars, Stages,
         GapStages, TurnStages, FencedStages
  <2> QED
    BY <1>3, <2>1, <2>2 DEF ReadProofFence
<1>4. ASSUME NEW c \in Checkpointer, SoftTurn(c) PROVE CopyInv'
  <2>1. CASE SlotBegin(c) /\ GoTo(c, "turn")
    <3>1. slot = Nobody /\ slot' = c /\ since' = Counted
      BY <2>1, CheckpointerAssumption DEF SlotBegin, CheckpointerAssumption
    <3>2. SlotTypeOK'
      BY <2>1, CheckpointerAssumption
         DEF SlotBegin, CopyInv, OwnerTypeOK, SlotTypeOK, Counted, CheckpointerAssumption
    <3> QED
      BY <1>4, <2>1, <3>1, <3>2, TurnIsItsOwn DEF SoftTurn, GoTo, logVars
  <2>2. CASE GoTo(c, "idle") /\ UNCHANGED slotVars
    <3>1. copier # c /\ at[c] \notin TurnStages
      BY <1>4 DEF SoftTurn, CopyInv, CopyInProgress, CopyStages, TurnStages
    <3>2. OwnerTypeOK'
      BY <1>4, <2>2 DEF SoftTurn, CopyInv, OwnerTypeOK, SlotTypeOK, GoTo, slotVars, logVars,
         Stages, SoftStages
    <3> QED
      BY <1>4, <2>2, <3>1, <3>2, StageMoves DEF SoftTurn, slotVars, logVars, Stages,
         SoftStages, TurnStages, FencedStages
  <2> QED
    BY <1>4, <2>1, <2>2 DEF SoftTurn
<1>5. ASSUME NEW c \in Checkpointer, TakeTurn(c) PROVE CopyInv'
  <2>1. CASE SlotBeginTurn /\ GoTo(c, "turn") /\ UNCHANGED <<idle, full, outcome>>
    <3>1. slot = Nobody /\ slot' = Turn /\ since' = Counted
      BY <2>1 DEF SlotBeginTurn
    <3>2. SlotTypeOK'
      BY <2>1 DEF SlotBeginTurn, CopyInv, OwnerTypeOK, SlotTypeOK, Counted
    <3> QED
      BY <1>5, <2>1, <3>1, <3>2, TurnIsItsOwn DEF TakeTurn, GoTo, logVars
  <2>2. CASE SlotGiveUpTurn /\ Unwind(c, "reopen", "deferred")
    <3>1. copier # c /\ at[c] \notin TurnStages
      BY <1>5 DEF TakeTurn, CopyInv, CopyInProgress, CopyStages, TurnStages
    <3>2. OwnerTypeOK'
      BY <1>5, <2>2 DEF TakeTurn, CopyInv, OwnerTypeOK, SlotTypeOK, Unwind, GoTo,
         SlotGiveUpTurn, logVars, Stages, GapStages
    <3> QED
      BY <1>5, <2>2, <3>1, <3>2, StageMoves DEF TakeTurn, Unwind, SlotGiveUpTurn, logVars,
         Stages, GapStages, TurnStages, FencedStages
  <2> QED
    BY <1>5, <2>1, <2>2 DEF TakeTurn
<1> QED
    BY <1>1, <1>2, <1>3, <1>4, <1>5, AppendIsSeen, WritersAreSeen, CopyEnds, QuietSteps,
       CopySteps, TurnSteps
       DEF Next, CheckpointNext

\* wal.go:412-413: no checkpoint ever copies a tail under the gate, for any
\* number of checkpointers, writers, probes and readers.
THEOREM NeverTailUnderGate == Spec => []NoTailUnderGate
<1>1. CopyInv => NoTailUnderGate
    BY DEF CopyInv, TurnIsCurrent, TurnHoldsSlot, NoTailUnderGate, TurnStages
<1> QED
    BY <1>1, CopyInvInit, CopyInvNext, PTL DEF Spec

----------------------------------------------------------------------------
(* Who has to give the gate and the readers back.                           *)

\* A step of c between stages off the turn keeps the ownership if it takes the
\* hold from nobody and gives it back when it leaves, and so for the gap.
LEMMA OwnerMoves ==
    ASSUME CopyInv, RecoveryOwned, NEW c \in Checkpointer, NEW stage, GoTo(c, stage),
           at[c] \notin TurnStages, stage \notin TurnStages, slot' = slot,
           stage \in HoldStages \cup GapStages =>
               phase' # "none" /\ (at[c] \in HoldStages \cup GapStages \/ phase = "none"),
           stage \notin HoldStages \cup GapStages =>
               IF at[c] \in HoldStages \cup GapStages THEN phase' = "none" ELSE phase' = phase,
           stage \in GapStages => gap' # "none" /\ (at[c] \in GapStages \/ gap = "none"),
           stage \notin GapStages =>
               IF at[c] \in GapStages THEN gap' = "none" ELSE gap' = gap
    PROVE  RecoveryOwned'
<1>1. at' = [at EXCEPT ![c] = stage] /\ at \in [Checkpointer -> Stages]
    BY DEF GoTo, CopyInv, OwnerTypeOK
<1>2. ASSUME NEW d \in Checkpointer, d # c
      PROVE  (Recovering(d)' <=> Recovering(d)) /\ (InGap(d)' <=> InGap(d))
    BY <1>1, <1>2 DEF Recovering, InGap
<1>3. /\ Recovering(c) <=> at[c] \in HoldStages \cup GapStages
      /\ Recovering(c)' <=> stage \in HoldStages \cup GapStages
      /\ InGap(c) <=> at[c] \in GapStages
      /\ InGap(c)' <=> stage \in GapStages
    BY <1>1 DEF Recovering, InGap
<1>4. \A d \in Checkpointer : InGap(d) => Recovering(d)
    BY DEF Recovering
<1>5. (phase # "none" <=> \E d \in Checkpointer : Recovering(d))'
    BY <1>2, <1>3 DEF RecoveryOwned
<1>6. (\A d, e \in Checkpointer : Recovering(d) /\ Recovering(e) => d = e)'
    BY <1>2, <1>3 DEF RecoveryOwned
<1>7. (gap # "none" <=> \E d \in Checkpointer : InGap(d))'
    BY <1>2, <1>3, <1>4 DEF RecoveryOwned
<1>8. (slot \in Checkpointer => at[slot] \in TurnStages)'
    BY <1>1 DEF RecoveryOwned
<1>9. (slot = Turn => \E d \in Checkpointer : at[d] \in TurnStages)'
    BY <1>1 DEF RecoveryOwned
<1> QED
    BY <1>5, <1>6, <1>7, <1>8, <1>9 DEF RecoveryOwned

\* Writers, appends, readers and the pass itself own nothing.
LEMMA OthersOwnNothing ==
    ASSUME CopyInv, RecoveryOwned,
           \/ WriterNext \/ Append \/ ReadersMove \/ UNCHANGED vars
           \/ \E c \in Checkpointer : StartCopy(c)
    PROVE  RecoveryOwned'
<1>1. UNCHANGED <<at, phase, gap>>
    BY DEF WriterNext, Append, ReadersMove, StartCopy, vars, ownerVars, slotVars, scopeVars,
       SlotBegin, SlotEnd, ReaderNext, Admit, StartWait, WaitAgain, AdmitWaiter, GiveUp,
       CloseReader, BackoffEnds
<1>2. CASE WriterNext
  <2>1. slot # Turn /\ slot' # Turn /\ slot' \notin Checkpointer
    BY <1>2, SlotAssumption, CheckpointerAssumption
       DEF WriterNext, OtherWriter, SlotBegin, SlotEnd, SlotAssumption, CheckpointerAssumption
  <2> QED
    BY <1>1, <2>1 DEF RecoveryOwned, Recovering, InGap
<1>3. CASE UNCHANGED slot
    BY <1>1, <1>3 DEF RecoveryOwned, Recovering, InGap
<1> QED
    BY <1>2, <1>3 DEF Append, ReadersMove, StartCopy, vars, slotVars

\* The copy and the soft path: nothing is taken, and a failure keeps the gap.
LEMMA CopyOwns ==
    ASSUME CopyInv, RecoveryOwned, NEW c \in Checkpointer,
           \/ Begin(c) \/ EndCopy(c) \/ CopyBusy(c) \/ CopyFails(c)
           \/ StayPassive(c) \/ SoftAsk(c) \/ HardPressure(c)
    PROVE  RecoveryOwned'
<1> USE DEF CopyStages, TurnStages, HoldStages, GapStages
<1>1. UNCHANGED <<slot, phase, gap>>
    BY DEF Begin, ReadFence, SlotReadFence, EndCopy, CopyBusy, CopyFails, StayPassive, SoftAsk,
       HardPressure, slotVars, scopeVars
<1>2. at[c] \in GapStages => phase # "none" /\ gap # "none"
    BY DEF RecoveryOwned, Recovering, InGap
<1>3. CASE Begin(c) \/ StayPassive(c) \/ SoftAsk(c) \/ HardPressure(c)
    BY <1>1, <1>3, OwnerMoves DEF Begin, StayPassive, SoftAsk, HardPressure
<1>4. CASE EndCopy(c) \/ CopyBusy(c)
  <2>1. at[c] \in CopyStages /\ GoTo(c, AfterCopy(at[c]))
    BY <1>4 DEF EndCopy, CopyBusy, CopyInv, CopyInProgress
  <2>2. \/ at[c] = "first" /\ AfterCopy(at[c]) = "decide"
        \/ at[c] = "second" /\ AfterCopy(at[c]) = "pause"
        \/ at[c] = "proof" /\ AfterCopy(at[c]) = "proved"
    BY <2>1 DEF AfterCopy
  <2> QED
    BY <1>1, <1>2, <2>1, <2>2, OwnerMoves
<1>5. CASE CopyFails(c)
    BY <1>1, <1>2, <1>5, OwnerMoves DEF CopyFails
<1> QED
    BY <1>3, <1>4, <1>5

\* recoverWAL: hold, gap, the steps in it, and the two deferred calls.
LEMMA RecoveryOwns ==
    ASSUME CopyInv, RecoveryOwned, NEW c \in Checkpointer,
           \/ EnterHold(c) \/ HolderDone(c) \/ PauseReaders(c) \/ Drained(c) \/ DrainLate(c)
           \/ BeginPause(c) \/ ReadProofFence(c) \/ Proved(c) \/ AskTurn(c)
           \/ ReopenReaders(c) \/ EndRecovery(c)
    PROVE  RecoveryOwned'
<1> USE DEF TurnStages, HoldStages, GapStages
<1>0. /\ at[c] \in GapStages => phase # "none" /\ gap # "none"
      /\ at[c] \in HoldStages => phase # "none"
    BY DEF RecoveryOwned, Recovering, InGap
<1>1. CASE EnterHold(c)
    BY <1>1, OwnerMoves DEF EnterHold, SlotHold, slotVars, scopeVars
<1>2. CASE HolderDone(c)
    BY <1>0, <1>2, OwnerMoves DEF HolderDone, slotVars, scopeVars
<1>3. CASE PauseReaders(c)
    BY <1>0, <1>3, OwnerMoves DEF PauseReaders, Pause, OpenGap, slotVars, scopeVars
<1>4. CASE Drained(c)
    BY <1>0, <1>4, OwnerMoves DEF Drained, ResumePressureReaders, slotVars
<1>5. CASE DrainLate(c)
    BY <1>0, <1>5, OwnerMoves DEF DrainLate, DrainStages, Unwind, slotVars, scopeVars
<1>6. CASE BeginPause(c)
    BY <1>0, <1>6, OwnerMoves DEF BeginPause, SlotPause, scopeVars
<1>7. CASE ReadProofFence(c)
    BY <1>0, <1>7, OwnerMoves
       DEF ReadProofFence, ReadFence, SlotReadFence, Unwind, slotVars, scopeVars
<1>8. CASE Proved(c)
    BY <1>0, <1>8, OwnerMoves
       DEF Proved, PausePressureReaders, OpenGap, Unwind, slotVars, scopeVars
<1>9. CASE AskTurn(c)
    BY <1>0, <1>9, OwnerMoves DEF AskTurn, SlotAskTurn, scopeVars
<1>10. CASE ReopenReaders(c)
    BY <1>0, <1>10, OwnerMoves DEF ReopenReaders, Reopen, slotVars
<1>11. CASE EndRecovery(c)
    BY <1>0, <1>11, OwnerMoves DEF EndRecovery, SlotResume, scopeVars
<1> QED
    BY <1>1, <1>2, <1>3, <1>4, <1>5, <1>6, <1>7, <1>8, <1>9, <1>10, <1>11

\* A turn of either kind begins in an empty slot, stays, and ends: the reserved
\* one inside its owner's attempt, the ordinary one outside of any.
LEMMA TurnOwns ==
    ASSUME CopyInv, RecoveryOwned, NEW c \in Checkpointer,
           SoftTurn(c) \/ TakeTurn(c) \/ CheckTurn(c) \/ Truncate(c) \/ Release(c)
    PROVE  RecoveryOwned'
<1> USE DEF TurnStages, HoldStages, GapStages, GoTo
<1>0. at \in [Checkpointer -> Stages] /\ gap' = gap /\ phase' = phase
    BY CheckpointerAssumption
       DEF CopyInv, OwnerTypeOK, SoftTurn, TakeTurn, CheckTurn, Truncate, Release, SlotBegin,
       SlotBeginTurn, SlotGiveUpTurn, SlotEnd, slotVars, scopeVars
<1>a. c # Turn /\ c # Nobody /\ Turn # Nobody /\ Nobody \notin Checkpointer
    BY SlotAssumption, CheckpointerAssumption DEF SlotAssumption, CheckpointerAssumption
<1>b. slot = Nobody => \A d \in Checkpointer : at[d] \notin TurnStages
    BY <1>a DEF CopyInv, TurnHoldsSlot
<1>1. CASE SoftTurn(c)
  <2>1. CASE SlotBegin(c) /\ at' = [at EXCEPT ![c] = "turn"]
    BY <1>0, <1>1, <1>a, <1>b, <2>1 DEF SoftTurn, SlotBegin, RecoveryOwned, Recovering, InGap
  <2>2. CASE GoTo(c, "idle") /\ UNCHANGED slotVars
    BY <1>0, <1>1, <2>2, OwnerMoves DEF SoftTurn, slotVars
  <2> QED
    BY <1>1, <2>1, <2>2 DEF SoftTurn
<1>2. CASE TakeTurn(c)
  <2>1. CASE SlotBeginTurn /\ at' = [at EXCEPT ![c] = "turn"]
    <3>1. slot = Nobody /\ slot' = Turn /\ at[c] = "asked"
      BY <1>2, <2>1 DEF TakeTurn, SlotBeginTurn
    <3>2. \A d \in Checkpointer : (Recovering(d)' <=> Recovering(d)) /\ (InGap(d)' <=> InGap(d))
      BY <1>0, <1>a, <1>b, <2>1, <3>1 DEF Recovering, InGap
    <3>3. Turn \notin Checkpointer
      BY SlotAssumption, CheckpointerAssumption DEF SlotAssumption, CheckpointerAssumption
    <3> QED
      BY <1>0, <2>1, <3>1, <3>2, <3>3 DEF RecoveryOwned
  <2>2. CASE SlotGiveUpTurn /\ GoTo(c, "reopen")
    <3>1. at[c] = "asked" /\ slot' = slot /\ phase # "none" /\ gap # "none"
      BY <1>2, <2>2 DEF TakeTurn, SlotGiveUpTurn, RecoveryOwned, Recovering, InGap
    <3> QED
      BY <1>0, <2>2, <3>1, OwnerMoves
  <2> QED
    BY <1>2, <2>1, <2>2 DEF TakeTurn, Unwind
<1>3. CASE CheckTurn(c) \/ Truncate(c)
  <2>1. slot' = slot /\ at[c] \in TurnStages /\ \E s \in TurnStages : at' = [at EXCEPT ![c] = s]
    BY <1>3 DEF CheckTurn, Truncate, Unwind, slotVars
  <2>2. \A d \in Checkpointer : (Recovering(d)' <=> Recovering(d)) /\ (InGap(d)' <=> InGap(d))
    BY <1>0, <2>1 DEF Recovering, InGap
  <2> QED
    BY <1>0, <2>1, <2>2 DEF RecoveryOwned
<1>4. CASE Release(c)
  <2>0. \A d \in Checkpointer : d # c => at[d] \notin TurnStages
    BY <1>4 DEF Release, CopyInv, OneTurn
  <2>1. CASE slot = c /\ SlotEnd(c) /\ GoTo(c, "idle")
    <3>1. \A d \in Checkpointer : (Recovering(d)' <=> Recovering(d)) /\ (InGap(d)' <=> InGap(d))
      BY <1>0, <1>4, <1>a, <2>0, <2>1 DEF Release, SlotEnd, Recovering, InGap
    <3> QED
      BY <1>0, <1>a, <2>1, <3>1 DEF RecoveryOwned, SlotEnd
  <2>2. CASE slot = Turn /\ SlotEnd(Turn) /\ GoTo(c, "reopen")
    <3>1. \A d \in Checkpointer : (Recovering(d)' <=> Recovering(d)) /\ (InGap(d)' <=> InGap(d))
      BY <1>0, <1>4, <1>a, <2>0, <2>2 DEF Release, SlotEnd, Recovering, InGap
    <3> QED
      BY <1>0, <1>a, <2>2, <3>1 DEF RecoveryOwned, SlotEnd
  <2> QED
    BY <1>4, <2>1, <2>2 DEF Release
<1> QED
    BY <1>1, <1>2, <1>3, <1>4

\* The inductive invariant of the attempt.
OwnInv == CopyInv /\ RecoveryOwned

\* Nothing is held and nobody recovers at first.
LEMMA OwnInvInit == Init => OwnInv
<1> SUFFICES ASSUME Init PROVE RecoveryOwned
    BY CopyInvInit DEF OwnInv
<1> QED
    BY SlotAssumption, CheckpointerAssumption
       DEF Init, SlotInit, ScopeInit, RecoveryOwned, Recovering, InGap, HoldStages, GapStages,
       TurnStages, SlotAssumption, CheckpointerAssumption

\* Every step takes and gives back together with its stage.
LEMMA OwnInvNext == OwnInv /\ [Next]_vars => OwnInv'
BY CopyInvNext, OthersOwnNothing, CopyOwns, RecoveryOwns, TurnOwns
   DEF OwnInv, Next, CheckpointNext

\* recoverWAL's deferred calls give back what the attempt took: the hold, the
\* gap and the slot always have exactly one checkpoint that will end them.
THEOREM AttemptIsOwned == Spec => []RecoveryOwned
<1>1. OwnInv => RecoveryOwned
    BY DEF OwnInv
<1> QED
    BY <1>1, OwnInvInit, OwnInvNext, PTL DEF Spec

----------------------------------------------------------------------------
(* The gap of the reserved turn.                                            *)

\* Every step is a step of the reader scope, whose proofs then apply.
LEMMA NextIsScopeStep == [Next]_vars => ScopeStep
<1> SUFFICES ASSUME [Next]_vars PROVE ScopeStep
    OBVIOUS
<1>1. CASE WriterNext \/ Append \/ ReadersMove \/ UNCHANGED vars
    BY <1>1 DEF WriterNext, Append, ReadersMove, vars, ScopeStep
<1>2. ASSUME NEW c \in Checkpointer,
             \/ PauseReaders(c) \/ Drained(c) \/ Proved(c) \/ ReopenReaders(c)
      PROVE  ScopeStep
    BY <1>2 DEF PauseReaders, Drained, Proved, ReopenReaders, ScopeStep
<1>3. ASSUME NEW c \in Checkpointer, Begin(c) \/ CheckpointNext(c),
             ~(PauseReaders(c) \/ Drained(c) \/ Proved(c) \/ ReopenReaders(c))
      PROVE  UNCHANGED scopeVars
    BY <1>3 DEF Begin, CheckpointNext, StartCopy, EndCopy, CopyBusy, CopyFails, StayPassive,
       SoftAsk, SoftTurn, HardPressure, EnterHold, HolderDone, DrainLate, BeginPause,
       ReadProofFence, AskTurn, TakeTurn, CheckTurn, Truncate, Release, EndRecovery
<1> QED
    BY <1>1, <1>2, <1>3 DEF Next, ScopeStep

\* From the final pause of the readers to reopen.
ReservedTurn(c) == at[c] \in TurnStages /\ slot = Turn

FinalGap ==
    \A c \in Checkpointer :
        /\ at[c] = "finalDrain" => gap = "paused"
        /\ at[c] = "asked" \/ ReservedTurn(c) => gap = "paused" /\ drained = "closed"

\* A reader that ends closes the drained channel or leaves it as it is.
LEMMA ReadersKeepGap ==
    ASSUME ReaderNext \/ BackoffEnds \/ UNCHANGED scopeVars
    PROVE  gap' = gap /\ (drained = "closed" => drained' = "closed")
BY DEF ReaderNext, Admit, StartWait, WaitAgain, AdmitWaiter, GiveUp, CloseReader, BackoffEnds,
   scopeVars

\* Only the owner of the gap touches it, and not between its final pause and
\* its reopen.
LEMMA FinalGapNext ==
    ASSUME OwnInv, FinalGap, [Next]_vars
    PROVE  FinalGap'
<1> USE DEF OwnInv, CopyInv, OwnerTypeOK, TurnStages, GoTo
<1>a. Turn \notin Checkpointer /\ Turn # Nobody
    BY SlotAssumption, CheckpointerAssumption DEF SlotAssumption, CheckpointerAssumption
<1>b. \A c, d \in Checkpointer :
          (at[c] \in {"finalDrain", "asked"} \/ ReservedTurn(c)) /\ Recovering(d) => c = d
    BY DEF RecoveryOwned, Recovering, InGap, GapStages, ReservedTurn
<1>1. CASE WriterNext \/ Append \/ ReadersMove \/ UNCHANGED vars
  <2>1. at' = at /\ (slot' = Turn => slot = Turn)
    BY <1>1, <1>a, SlotAssumption
       DEF WriterNext, Append, ReadersMove, vars, slotVars, ownerVars, OtherWriter, SlotBegin,
       SlotEnd, SlotAssumption
  <2>2. gap' = gap /\ (drained = "closed" => drained' = "closed")
    BY <1>1, ReadersKeepGap DEF WriterNext, Append, ReadersMove, vars
  <2> QED
    BY <2>1, <2>2 DEF FinalGap, ReservedTurn
<1>2. ASSUME NEW c \in Checkpointer,
             \/ Begin(c) \/ StartCopy(c) \/ EndCopy(c) \/ CopyBusy(c) \/ CopyFails(c)
             \/ StayPassive(c) \/ SoftAsk(c) \/ HardPressure(c) \/ EnterHold(c)
             \/ HolderDone(c) \/ DrainLate(c) \/ BeginPause(c) \/ ReadProofFence(c)
             \/ EndRecovery(c)
      PROVE  FinalGap'
  <2>1. slot' = slot /\ gap' = gap /\ drained' = drained
    BY <1>2 DEF Begin, ReadFence, SlotReadFence, StartCopy, EndCopy, CopyBusy, CopyFails,
       StayPassive, SoftAsk, HardPressure, EnterHold, SlotHold, HolderDone, DrainLate,
       BeginPause, SlotPause, ReadProofFence, EndRecovery, SlotResume, slotVars, scopeVars
  <2>2. CASE at' = at
    BY <2>1, <2>2 DEF FinalGap, ReservedTurn
  <2>3. ASSUME NEW stage \in Stages \ (TurnStages \cup {"finalDrain", "asked"}),
               at' = [at EXCEPT ![c] = stage]
        PROVE  FinalGap'
    BY <2>1, <2>3 DEF FinalGap, ReservedTurn
  <2>4. ~(at' = at) => \E stage \in Stages \ (TurnStages \cup {"finalDrain", "asked"}) :
            at' = [at EXCEPT ![c] = stage]
    <3> USE DEF Stages, SoftStages, HoldStages, GapStages
    <3>1. CASE Begin(c) \/ StartCopy(c) \/ CopyFails(c)
      BY <3>1 DEF Begin, StartCopy, CopyFails, ownerVars
    <3>2. CASE EndCopy(c) \/ CopyBusy(c)
      BY <3>2 DEF EndCopy, CopyBusy, CopyInProgress, CopyStages, AfterCopy
    <3>3. CASE StayPassive(c) \/ SoftAsk(c) \/ HardPressure(c) \/ EnterHold(c)
      BY <3>3 DEF StayPassive, SoftAsk, HardPressure, EnterHold
    <3>4. CASE HolderDone(c) \/ DrainLate(c) \/ BeginPause(c) \/ ReadProofFence(c) \/ EndRecovery(c)
      BY <3>4 DEF HolderDone, DrainLate, BeginPause, ReadProofFence, EndRecovery, Unwind
    <3> QED
      BY <1>2, <3>1, <3>2, <3>3, <3>4
  <2> QED
    BY <2>2, <2>3, <2>4
<1>3. ASSUME NEW c \in Checkpointer,
             PauseReaders(c) \/ Drained(c) \/ Proved(c) \/ ReopenReaders(c)
      PROVE  FinalGap'
  <2>1. Recovering(c) /\ at[c] \in {"gap", "drain", "proved", "reopen"} /\ slot' = slot
    BY <1>3 DEF PauseReaders, Drained, Proved, ReopenReaders, Recovering, InGap, HoldStages,
       GapStages, slotVars
  <2>2. \A d \in Checkpointer : at[d] \notin {"finalDrain", "asked"} /\ ~ReservedTurn(d)
    BY <1>b, <2>1 DEF ReservedTurn
  <2>3. \/ gap' = "paused" /\ at' = [at EXCEPT ![c] = "finalDrain"]
        \/ \E stage \in {"drain", "end", "second", "reopen"} : at' = [at EXCEPT ![c] = stage]
    BY <1>3 DEF PauseReaders, Drained, Proved, ReopenReaders, PausePressureReaders, OpenGap, Unwind
  <2> QED
    BY <2>1, <2>2, <2>3 DEF FinalGap, ReservedTurn
<1>4. ASSUME NEW c \in Checkpointer, SoftTurn(c) PROVE FinalGap'
  <2>1. /\ gap' = gap /\ drained' = drained /\ (slot' = Turn => slot' = slot)
        /\ \/ slot' = c /\ at' = [at EXCEPT ![c] = "turn"]
           \/ slot' = slot /\ at' = [at EXCEPT ![c] = "idle"]
    BY <1>4, <1>a DEF SoftTurn, SlotBegin, slotVars, scopeVars
  <2> QED
    BY <1>a, <2>1 DEF FinalGap, ReservedTurn
<1>5. ASSUME NEW c \in Checkpointer, AskTurn(c) \/ TakeTurn(c) PROVE FinalGap'
  <2>1. /\ gap = "paused" /\ drained = "closed" /\ gap' = gap /\ drained' = drained
    BY <1>5 DEF AskTurn, TakeTurn, FinalGap, scopeVars
  <2> QED
    BY <2>1 DEF FinalGap
<1>6. ASSUME NEW c \in Checkpointer, CheckTurn(c) \/ Truncate(c) \/ Release(c) PROVE FinalGap'
  <2>1. gap' = gap /\ drained' = drained /\ (slot' = Turn => slot = Turn)
    BY <1>6, <1>a DEF CheckTurn, Truncate, Release, SlotEnd, slotVars, scopeVars
  <2>2. /\ at[c] \in TurnStages
        /\ \E stage \in TurnStages \cup {"idle", "reopen"} : at' = [at EXCEPT ![c] = stage]
    BY <1>6 DEF CheckTurn, Truncate, Release, Unwind
  <2> QED
    BY <2>1, <2>2 DEF FinalGap, ReservedTurn
<1> QED
    BY <1>1, <1>2, <1>3, <1>4, <1>5, <1>6 DEF Next, CheckpointNext

\* reader_pressure.go:9-14: the reserved turn truncates in a drained gap.
THEOREM TurnResetsInGap == Spec => []ResetInGap
<1> DEFINE Inv == OwnInv /\ FinalGap /\ GapInv
<1>1. Init => Inv
    BY OwnInvInit DEF Init, ScopeInit, FinalGap, ReservedTurn, TurnStages, GapInv, GapIsDrained,
       DrainHasCloser
<1>2. Inv /\ [Next]_vars => Inv'
    BY OwnInvNext, FinalGapNext, GapStep, NextIsScopeStep
<1>3. Inv => ResetInGap
    BY DEF FinalGap, ReservedTurn, TurnStages, GapInv, GapIsDrained, ResetInGap
<1> QED
    BY <1>1, <1>2, <1>3, PTL DEF Spec

\* Type correctness of the composition: of the owners from CopyInv, and of the
\* readers from the exact counters of their scope.
THEOREM TypeCorrectness == Spec => []TypeOK
<1> DEFINE Inv == CopyInv /\ CountInv
<1>1. Init => Inv
    BY CopyInvInit, CountInit DEF Init
<1>2. Inv /\ [Next]_vars => Inv'
    BY CopyInvNext, CountStep, NextIsScopeStep
<1>3. Inv => TypeOK
    BY CountInvTypes DEF CopyInv, OwnerTypeOK, TypeOK
<1> QED
    BY <1>1, <1>2, <1>3, PTL DEF Spec

=============================================================================
