--------------------------- MODULE WalCheckpoint ---------------------------
(***************************************************************************)
(* Checkpoints of the write-ahead log (internal/dbwork/wal.go): checkpoint *)
(* and recoverWAL, composed from the writer slot the gate implements       *)
(* (WriterSlot) and from reader admission (ReaderScope).                   *)
(*                                                                         *)
(* Several checkpointers may run at once: housekeeping's schedule and      *)
(* direct callers.  Each copies the log outside the gate with PASSIVE and  *)
(* may then reset it with TRUNCATE: below the hard threshold behind an     *)
(* ordinary acquisition, above it by recovery (hold the gate, drain the    *)
(* readers, copy, pause the gate, prove the copy, drain again, take the    *)
(* reserved turn).  Every wait has a deadline and every step may fail; the *)
(* deferred calls run as steps of their own, last one first.               *)
(*                                                                         *)
(* The log is kept as whether frames are left to copy.  SQLite's PASSIVE   *)
(* pass copies what was there when it began, or part of it, and its result *)
(* does not show frames appended meanwhile; one pass runs at a time.  The  *)
(* sizes that choose between staying passive, a soft and a hard reset are  *)
(* a free choice at each decision, and a scope is always present.          *)
(***************************************************************************)
EXTENDS WriterSlot, ReaderScope

CONSTANT Checkpointer  \* callers of checkpoint, writers of class maintenance

ASSUME CheckpointerAssumption ==
    /\ Checkpointer \subseteq Writer /\ Watcher = Checkpointer
    /\ Checkpointer \cap (Fence \cup Readiness) = {}

VARIABLES
    at,       \* where each checkpointer stands
    idle,     \* copyIdle: "yes" if no writer that may append ran at its fence
    full,     \* its last pass was not busy and copied all it saw: "yes", "no"
    outcome,  \* what reopen is told: "failed", "deferred", "reset"
    wal,      \* "copied", or "tail" when frames are left to copy
    copier,   \* whose PASSIVE pass is running
    grown     \* frames were appended since that pass began: "yes", "no"

ownerVars == <<at, idle, full, outcome>>
logVars == <<wal, copier, grown>>
vars == <<slotVars, scopeVars, ownerVars, logVars>>

\* The stages of checkpoint and of recoverWAL.  The last three are shared: an
\* ordinary acquisition, or the reserved turn, holds the slot in them.
CopyStages == {"first", "second", "proof"}
DrainStages == {"drain", "finalDrain"}
TurnStages == {"turn", "truncate", "release"}
SoftStages == {"idle", "first", "decide", "asking", "enter"}
HoldStages == {"hold", "gap", "end"}
GapStages == {"drain", "second", "pause", "settle", "proof", "proved", "finalDrain",
              "asked", "reopen"}
Stages == SoftStages \cup HoldStages \cup GapStages \cup TurnStages

Init ==
    /\ SlotInit /\ ScopeInit
    /\ at = [c \in Checkpointer |-> "idle"]
    /\ idle = [c \in Checkpointer |-> "no"]
    /\ full = [c \in Checkpointer |-> "no"]
    /\ outcome = [c \in Checkpointer |-> "failed"]
    /\ wal = "copied" /\ copier = Nobody /\ grown = "no"

GoTo(c, stage) == at' = [at EXCEPT ![c] = stage]

----------------------------------------------------------------------------
(* Writers and readers.                                                     *)

OtherWriter == Writer \ Checkpointer

WriterNext ==
    /\ \E w \in OtherWriter : SlotBegin(w) \/ SlotEnd(w)
    /\ UNCHANGED <<scopeVars, ownerVars, logVars>>

\* The holder commits frames; a readiness probe cannot.
Append ==
    /\ slot \in OtherWriter \ Readiness
    /\ wal' = "tail" /\ grown' = "yes"
    /\ UNCHANGED <<slotVars, scopeVars, ownerVars, copier>>

ReadersMove ==
    /\ ReaderNext \/ BackoffEnds
    /\ UNCHANGED <<slotVars, ownerVars, logVars>>

----------------------------------------------------------------------------
(* checkpoint: the copy fence, one PASSIVE pass, and the soft reset.        *)

QuietSlot == slot = Nobody \/ slot \in Readiness

ReadFence(c) ==
    /\ SlotReadFence(c)
    /\ idle' = [idle EXCEPT ![c] = IF QuietSlot THEN "yes" ELSE "no"]

Begin(c) ==
    /\ at[c] = "idle"
    /\ GoTo(c, "first") /\ ReadFence(c)
    /\ UNCHANGED <<scopeVars, full, outcome, logVars>>

StartCopy(c) ==
    /\ at[c] \in CopyStages /\ copier = Nobody
    /\ copier' = c /\ grown' = "no"
    /\ UNCHANGED <<slotVars, scopeVars, ownerVars, wal>>

AfterCopy(stage) == CASE stage = "first" -> "decide"
                      [] stage = "second" -> "pause"
                      [] stage = "proof" -> "proved"

\* The pass ends, with everything it saw copied or with a part.
EndCopy(c) ==
    /\ copier = c /\ copier' = Nobody
    /\ \E all \in {"yes", "no"} :
          /\ full' = [full EXCEPT ![c] = all]
          /\ wal' = IF all = "yes" /\ grown = "no" THEN "copied" ELSE wal
    /\ GoTo(c, AfterCopy(at[c]))
    /\ UNCHANGED <<slotVars, scopeVars, idle, outcome, grown>>

\* Another pass, of another checkpointer or from outside, holds SQLite's lock.
CopyBusy(c) ==
    /\ at[c] \in CopyStages /\ copier # c
    /\ full' = [full EXCEPT ![c] = "no"]
    /\ GoTo(c, AfterCopy(at[c]))
    /\ UNCHANGED <<slotVars, scopeVars, idle, outcome, logVars>>

\* An error or the deadline; past the first pass it is recovery that fails.
CopyFails(c) ==
    /\ at[c] \in CopyStages
    /\ copier' = IF copier = c THEN Nobody ELSE copier
    /\ IF at[c] = "first"
       THEN GoTo(c, "idle") /\ UNCHANGED outcome
       ELSE GoTo(c, "reopen") /\ outcome' = [outcome EXCEPT ![c] = "failed"]
    /\ UNCHANGED <<slotVars, scopeVars, idle, full, wal, grown>>

\* Too little to reset, a busy gate, requests in flight, a reader backoff.
StayPassive(c) ==
    /\ at[c] = "decide"
    /\ GoTo(c, "idle")
    /\ UNCHANGED <<slotVars, scopeVars, idle, full, outcome, logVars>>

\* Below the hard threshold: nothing wrote since the fence, everything copied.
SoftAsk(c) ==
    /\ at[c] = "decide" /\ full[c] = "yes"
    /\ idle[c] = "yes" /\ QuietSlot /\ since[c] = 0
    /\ GoTo(c, "asking")
    /\ UNCHANGED <<slotVars, scopeVars, idle, full, outcome, logVars>>

SoftTurn(c) ==
    /\ at[c] = "asking"
    /\ \/ SlotBegin(c) /\ GoTo(c, "turn")
       \/ GoTo(c, "idle") /\ UNCHANGED slotVars
    /\ UNCHANGED <<scopeVars, idle, full, outcome, logVars>>

----------------------------------------------------------------------------
(* recoverWAL.  Unwind: reopen and endRecovery are deferred calls.          *)

Unwind(c, stage, why) ==
    /\ GoTo(c, stage)
    /\ outcome' = [outcome EXCEPT ![c] = why]
    /\ UNCHANGED <<idle, full>>

HardPressure(c) ==
    /\ at[c] = "decide" /\ backoff = "no"
    /\ GoTo(c, "enter")
    /\ UNCHANGED <<slotVars, scopeVars, idle, full, outcome, logVars>>

\* Another checkpointer's attempt in force sends this one home.
EnterHold(c) ==
    /\ at[c] = "enter"
    /\ \/ SlotHold /\ GoTo(c, "hold")
       \/ phase # "none" /\ GoTo(c, "idle") /\ UNCHANGED slotVars
    /\ UNCHANGED <<scopeVars, idle, full, outcome, logVars>>

\* Mutant: a writer that outlasts the wait leaves the gate held.
HolderDoneLeaks(c) ==
    /\ at[c] = "hold"
    /\ \/ slot = Nobody /\ GoTo(c, "gap")
       \/ GoTo(c, "idle")
    /\ UNCHANGED <<slotVars, scopeVars, idle, full, outcome, logVars>>

\* waitIdle, bounded by RecoveryHolderWait.
HolderDone(c) ==
    /\ at[c] = "hold"
    /\ \/ slot = Nobody /\ GoTo(c, "gap")
       \/ GoTo(c, "end")
    /\ UNCHANGED <<slotVars, scopeVars, idle, full, outcome, logVars>>

\* Mutant: a refused gap returns without ending the hold.
PauseReadersLeaks(c) ==
    /\ at[c] = "gap"
    /\ \/ Pause /\ GoTo(c, "drain")
       \/ backoff = "yes" /\ GoTo(c, "idle") /\ UNCHANGED scopeVars
    /\ UNCHANGED <<slotVars, idle, full, outcome, logVars>>

\* pause, which a backoff set since HardPressure refuses.
PauseReaders(c) ==
    /\ at[c] = "gap"
    /\ \/ Pause /\ GoTo(c, "drain")
       \/ backoff = "yes" /\ GoTo(c, "end") /\ UNCHANGED scopeVars
    /\ UNCHANGED <<slotVars, idle, full, outcome, logVars>>

Drained(c) ==
    /\ at[c] = "drain" /\ drained = "closed"
    /\ ResumePressureReaders /\ GoTo(c, "second")
    /\ UNCHANGED <<slotVars, idle, full, outcome, logVars>>

DrainLate(c) ==
    /\ at[c] \in DrainStages
    /\ Unwind(c, "reopen", "failed")
    /\ UNCHANGED <<slotVars, scopeVars, logVars>>

BeginPause(c) ==
    /\ at[c] = "pause"
    /\ SlotPause /\ GoTo(c, "settle")
    /\ UNCHANGED <<scopeVars, idle, full, outcome, logVars>>

\* waitIdle again, then the copy fence of the proof.
ReadProofFence(c) ==
    /\ at[c] = "settle"
    /\ \/ slot = Nobody /\ ReadFence(c) /\ GoTo(c, "proof") /\ UNCHANGED <<full, outcome>>
       \/ Unwind(c, "reopen", "deferred") /\ UNCHANGED slotVars
    /\ UNCHANGED <<scopeVars, logVars>>

Proved(c) ==
    /\ at[c] = "proved"
    /\ \/ /\ idle[c] = "yes" /\ full[c] = "yes"
          /\ PausePressureReaders /\ GoTo(c, "finalDrain")
          /\ UNCHANGED <<idle, full, outcome>>
       \/ /\ idle[c] = "no" \/ full[c] = "no"
          /\ Unwind(c, "reopen", "failed") /\ UNCHANGED scopeVars
    /\ UNCHANGED <<slotVars, logVars>>

\* Mutant: the final gap is not waited for.
AskTurnUndrained(c) ==
    /\ at[c] = "finalDrain"
    /\ SlotAskTurn /\ GoTo(c, "asked")
    /\ UNCHANGED <<scopeVars, idle, full, outcome, logVars>>

AskTurn(c) ==
    /\ at[c] = "finalDrain" /\ drained = "closed"
    /\ SlotAskTurn /\ GoTo(c, "asked")
    /\ UNCHANGED <<scopeVars, idle, full, outcome, logVars>>

TakeTurn(c) ==
    /\ at[c] = "asked"
    /\ \/ SlotBeginTurn /\ GoTo(c, "turn") /\ UNCHANGED <<idle, full, outcome>>
       \/ SlotGiveUpTurn /\ Unwind(c, "reopen", "deferred")
    /\ UNCHANGED <<scopeVars, logVars>>

----------------------------------------------------------------------------
(* The turn of either kind: check the generation, TRUNCATE, release.        *)

\* Mutant: the generation is not compared again behind the gate.
CheckTurnUnfenced(c) ==
    /\ at[c] = "turn"
    /\ GoTo(c, "truncate")
    /\ UNCHANGED <<slotVars, scopeVars, idle, full, outcome, logVars>>

CheckTurn(c) ==
    /\ at[c] = "turn"
    /\ IF since[c] = 1
       THEN GoTo(c, "truncate") /\ UNCHANGED <<idle, full, outcome>>
       ELSE Unwind(c, "release", "deferred")
    /\ UNCHANGED <<slotVars, scopeVars, logVars>>

\* TRUNCATE copies what is left before it resets the log; a pass that is
\* running, a reader that needs frames, and errors stop it.
Truncate(c) ==
    /\ at[c] = "truncate"
    /\ \/ copier = Nobody /\ wal' = "copied" /\ Unwind(c, "release", "reset")
       \/ UNCHANGED wal /\ Unwind(c, "release", "failed")
    /\ UNCHANGED <<slotVars, scopeVars, copier, grown>>

Release(c) ==
    /\ at[c] = "release"
    /\ \/ slot = c /\ SlotEnd(c) /\ GoTo(c, "idle")
       \/ slot = Turn /\ SlotEnd(Turn) /\ GoTo(c, "reopen")
    /\ UNCHANGED <<scopeVars, idle, full, outcome, logVars>>

ReopenReaders(c) ==
    /\ at[c] = "reopen"
    /\ Reopen(outcome[c]) /\ GoTo(c, "end")
    /\ UNCHANGED <<slotVars, idle, full, outcome, logVars>>

EndRecovery(c) ==
    /\ at[c] = "end"
    /\ SlotResume /\ GoTo(c, "idle")
    /\ UNCHANGED <<scopeVars, idle, full, outcome, logVars>>

----------------------------------------------------------------------------

CheckpointNext(c) ==
    \/ StartCopy(c) \/ EndCopy(c) \/ CopyBusy(c) \/ CopyFails(c)
    \/ StayPassive(c) \/ SoftAsk(c) \/ SoftTurn(c)
    \/ HardPressure(c) \/ EnterHold(c) \/ HolderDone(c) \/ PauseReaders(c)
    \/ Drained(c) \/ DrainLate(c) \/ BeginPause(c) \/ ReadProofFence(c)
    \/ Proved(c) \/ AskTurn(c) \/ TakeTurn(c)
    \/ CheckTurn(c) \/ Truncate(c) \/ Release(c)
    \/ ReopenReaders(c) \/ EndRecovery(c)

Next ==
    \/ WriterNext \/ Append \/ ReadersMove
    \/ \E c \in Checkpointer : Begin(c) \/ CheckpointNext(c)

Spec == Init /\ [][Next]_vars

\* Every wait of a checkpoint has a deadline, so a checkpoint that began goes
\* on.  A woken reader is scheduled: strongly, because gaps are at least
\* CheckpointPollInterval apart.  Nothing makes a checkpoint begin, a writer
\* release, a reader end or its timer fire, or a copy work.
FairSpec ==
    /\ Spec
    /\ \A c \in Checkpointer : WF_vars(CheckpointNext(c))
    /\ \A r \in Reader \ SecurityReader : SF_scopeVars(AdmitWaiter(r))

----------------------------------------------------------------------------

\* The shape of the composition.
TypeOK ==
    /\ SlotTypeOK /\ ScopeTypeOK
    /\ at \in [Checkpointer -> Stages]
    /\ idle \in [Checkpointer -> {"yes", "no"}]
    /\ full \in [Checkpointer -> {"yes", "no"}]
    /\ outcome \in [Checkpointer -> {"failed", "deferred", "reset"}]
    /\ wal \in {"copied", "tail"} /\ grown \in {"yes", "no"}
    /\ copier \in Checkpointer \cup {Nobody}

\* wal.go:412-413, "it never copies a tail under the gate": whoever is about to
\* TRUNCATE holds the gate, and no frame is left to copy, whatever writers,
\* probes and other checkpoints did since its copy.
NoTailUnderGate ==
    \A c \in Checkpointer : at[c] = "truncate" => wal = "copied" /\ slot \in {c, Turn}

InGap(c) == at[c] \in GapStages \/ (at[c] \in TurnStages /\ slot = Turn)
Recovering(c) == at[c] \in HoldStages \/ InGap(c)

\* The hold or pause of the gate, the reader gap and the slot each belong to a
\* checkpoint that is about to give them back: no failure on the way leaks one,
\* and two attempts never overlap.
RecoveryOwned ==
    /\ phase # "none" <=> \E c \in Checkpointer : Recovering(c)
    /\ \A c, d \in Checkpointer : Recovering(c) /\ Recovering(d) => c = d
    /\ gap # "none" <=> \E c \in Checkpointer : InGap(c)
    /\ slot \in Checkpointer => at[slot] \in TurnStages
    /\ slot = Turn => \E c \in Checkpointer : at[c] \in TurnStages

\* reader_pressure.go:9-14: the reserved turn resets the log in a gap that only
\* security reads can be in, although readers were let in while it was copied.
ResetInGap ==
    \A c \in Checkpointer :
        at[c] = "truncate" /\ slot = Turn => gap = "paused" /\ reading \subseteq SecurityReader

\* wal.go:411-412, "Failure ends the attempt, reopens everything": the gate and
\* the readers are reopened after every attempt.
RecoveryEnds == phase # "none" ~> phase = "none" /\ gap = "none"

\* Nobody waits on everybody: attempts end, and a reader that waits for one of
\* them to end is let in although the next one pauses readers again.
NobodyStuck == RecoveryEnds /\ WaiterLeaves

=============================================================================
