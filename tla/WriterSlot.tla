----------------------------- MODULE WriterSlot -----------------------------
(***************************************************************************)
(* What the write gate of internal/dbwork promises its users, without its  *)
(* queues: one writer at a time; a pressure hold that passes a bounded     *)
(* number of security fences; a pause that passes nobody but the           *)
(* checkpoint owner's reserved turn; and a write generation that counts    *)
(* every writer that could append to the log.  WriteGate implements it and *)
(* WalCheckpoint is built on it.                                           *)
(*                                                                         *)
(* The generation is kept relative to the copy fence each checkpointer     *)
(* read last, and only 0, 1 and "more" are told apart: a checkpointer      *)
(* compares it for equality with its fence and with its fence plus one.    *)
(***************************************************************************)
EXTENDS Naturals

CONSTANTS
    Writer,   \* callers of Gate.Acquire
    Fence,    \* those of class ClassSecurityFence
    Readiness,\* those that hold the gate to probe it and cannot append frames
    Watcher,  \* checkpointers, each with a copy fence of its own
    Turn,     \* the reserved recovery turn
    Nobody,   \* no holder
    Reserve   \* RecoverySecurityReserve

ASSUME SlotAssumption ==
    /\ Fence \subseteq Writer /\ Readiness \subseteq Writer
    /\ Turn \notin Writer /\ Nobody \notin Writer \cup {Turn}
    /\ Reserve \in Nat

VARIABLES
    slot,     \* who holds the gate
    phase,    \* "none", "hold" or "pause"
    fences,   \* security fences begun since the hold
    since,    \* acquisitions since a watcher's copy fence: 0, 1, or 2 for more
    reserved  \* the pause's turn: "free", "asked", "done"

slotVars == <<slot, phase, fences, since, reserved>>

SlotInit ==
    /\ slot = Nobody /\ phase = "none" /\ fences = 0
    /\ since = [o \in Watcher |-> 0] /\ reserved = "free"

Counted == [o \in Watcher |-> IF since[o] = 0 THEN 1 ELSE 2]

\* A caller that was granted begins: any of them, or only fences in a hold.
SlotBegin(w) ==
    /\ slot = Nobody
    /\ \/ phase = "none" /\ UNCHANGED fences
       \/ phase = "hold" /\ w \in Fence /\ fences < Reserve /\ fences' = fences + 1
    /\ slot' = w
    /\ since' = IF w \in Readiness THEN since ELSE Counted
    /\ UNCHANGED <<phase, reserved>>

SlotEnd(w) ==
    /\ slot = w /\ w # Nobody
    /\ slot' = Nobody
    /\ UNCHANGED <<phase, fences, since, reserved>>

SlotHold ==
    /\ phase = "none"
    /\ phase' = "hold" /\ fences' = 0
    /\ UNCHANGED <<slot, since, reserved>>

SlotPause ==
    /\ phase = "hold"
    /\ phase' = "pause"
    /\ UNCHANGED <<slot, fences, since, reserved>>

\* checkpointCopyFence: the watcher remembers the generation as it is now.
SlotReadFence(o) ==
    /\ since' = [since EXCEPT ![o] = 0]
    /\ UNCHANGED <<slot, phase, fences, reserved>>

SlotAskTurn ==
    /\ phase = "pause" /\ reserved = "free"
    /\ reserved' = "asked"
    /\ UNCHANGED <<slot, phase, fences, since>>

SlotBeginTurn ==
    /\ reserved = "asked" /\ slot = Nobody
    /\ slot' = Turn /\ since' = Counted /\ reserved' = "done"
    /\ UNCHANGED <<phase, fences>>

SlotGiveUpTurn ==
    /\ reserved = "asked"
    /\ reserved' = "done"
    /\ UNCHANGED <<slot, phase, fences, since>>

SlotResume ==
    /\ phase # "none" /\ slot # Turn
    /\ phase' = "none" /\ fences' = 0 /\ reserved' = "free"
    /\ UNCHANGED <<slot, since>>

SlotNext ==
    \/ \E w \in Writer : SlotBegin(w) \/ SlotEnd(w)
    \/ SlotEnd(Turn)
    \/ \E o \in Watcher : SlotReadFence(o)
    \/ SlotHold \/ SlotPause \/ SlotAskTurn \/ SlotBeginTurn \/ SlotGiveUpTurn \/ SlotResume

SlotSpec == SlotInit /\ [][SlotNext]_slotVars

----------------------------------------------------------------------------

\* The shape of the slot.
SlotTypeOK ==
    /\ slot \in Writer \cup {Turn, Nobody}
    /\ phase \in {"none", "hold", "pause"}
    /\ fences \in Nat
    /\ since \in [Watcher -> 0 .. 2]
    /\ reserved \in {"free", "asked", "done"}

=============================================================================
