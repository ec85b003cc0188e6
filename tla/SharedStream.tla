---------------------------- MODULE SharedStream ----------------------------
(***************************************************************************)
(* client-core/event-feed.ts and playback-v1/events.ts: the windows of one *)
(* browser share one event stream.  The window that holds the lock opens   *)
(* the stream and posts each event on a channel; the others hear it there. *)
(*                                                                         *)
(* The lock is the one a secure page gets from the browser (Web Locks): it *)
(* cannot be lost while it is held.  The lease that stands in for it on a  *)
(* plain-HTTP page, which another window may take over from a frozen one,  *)
(* is left out, and with it the moments in which two windows lead.         *)
(*                                                                         *)
(* The server's side is the ring and a stream that may read a page at any  *)
(* time: EventFeed is about when it does.  Frames are read no earlier than *)
(* they can be received, for what is on its way when a stream breaks might *)
(* as well not have been read.                                             *)
(*                                                                         *)
(* Every window has connected before and stands somewhere in the past.  A  *)
(* window knows an event when it was delivered to it, or when a resync     *)
(* made it fetch the current state again after the event was committed.    *)
(***************************************************************************)
EXTENDS EventRing, Sequences, SequencesExt

CONSTANTS
    Tab,                       \* the windows
    NoTab,
    StreamFailuresBeforePoll,  \* failed streams after which a window polls
    Past,                      \* events there were before
    Budgets                    \* bounds on what may happen in one behaviour

ASSUME TabAssumption ==
    NoTab \notin Tab /\ StreamFailuresBeforePoll \in Nat /\ Past \in Nat

VARIABLES
    stream, \* the leader's stream: the handler's cursor, and frames on their way
    tab,    \* each window's feed and its call of the shared opener
    inbox,  \* what the channel has yet to bring to each window
    lock,   \* the window that holds the named lock
    known,  \* history: the events each window knows
    budget

tabVars == <<tab, inbox, lock, known>>
vars == <<ringVars, stream, tabVars, budget>>

Spend(what) == budget[what] > 0 /\ budget' = [budget EXCEPT ![what] = @ - 1]

NoStream == [pos |-> 0, out |-> <<>>, asked |-> FALSE]

\* mode: stopped; between calls; in a call that hears the channel; in one that
\* holds the lock; or closed for good.  cursor is status.cursor; begin, last and
\* greeted are the call's lastEventId, last and acknowledged.  The rest is history,
\* of what no resync followed: in this call the window heard an event beyond where
\* it began before it was greeted (early), or a later leader greeted it from
\* beyond what it had heard (passed); either happened in an earlier call (skipped).
NewTab(cursor) ==
    [mode |-> "stopped", cursor |-> cursor, begin |-> cursor, last |-> cursor,
     greeted |-> FALSE, fails |-> 0, early |-> FALSE, passed |-> FALSE, skipped |-> FALSE]

Init ==
    /\ top = Past /\ low = 1 /\ mine \in SUBSET (1..Past)
    /\ stream = NoStream /\ budget \in Budgets
    /\ \E at \in [Tab -> 0..Past] :
          /\ tab = [t \in Tab |-> NewTab(at[t])]
          /\ known = [t \in Tab |-> mine \cap 1..at[t]]
    /\ inbox = [t \in Tab |-> <<>>]
    /\ lock = NoTab

----------------------------------------------------------------------------
(* The server, as a stream or a poll sees it. *)

Frame(kind, id) == [kind |-> kind, id |-> id]

Resync == [frames |-> <<Frame("resync", top)>>, next |-> top]

\* The rows of S in their order: the one sequence in this set.
Ascending(S) ==
    {s \in [1..Cardinality(S) -> S] :
        ToSet(s) = S /\ \A i, j \in 1..Cardinality(S) : i < j => s[i] < s[j]}

\* A page that ends at a given row; at the newest one it tells its position when
\* its last event does not.
Page(rows, end) ==
    LET sent == [i \in DOMAIN rows |-> Frame("event", rows[i])]
    IN [frames |-> IF end = top /\ end \notin ToSet(rows)
                   THEN Append(sent, Frame("position", top)) ELSE sent,
        next |-> end]

PagesTo(pos, end) == {Page(rows, end) : rows \in Ascending({i \in Visible(pos) : i <= end})}

Pages(pos) ==
    IF Gap(pos) THEN {Resync} ELSE UNION {PagesTo(pos, end) : end \in PageEnds(pos)}

\* Transactions of the rest of the server.
Change ==
    /\ \/ Spend("events") /\ AppendEvent
       \/ Spend("prunes") /\ Trim
    /\ UNCHANGED <<stream, tabVars>>

\* The handler's first read, or one after a wake.  A cursor that cannot be
\* opened and an oversized row also make a resync.
Sends(page) ==
    /\ lock # NoTab /\ stream.out = <<>>
    /\ ~stream.asked \/ stream.pos < top
    /\ stream' = [pos |-> page.next, out |-> page.frames, asked |-> TRUE]
    /\ UNCHANGED <<ringVars, tabVars>>

SendPage ==
    \/ \E page \in Pages(stream.pos) : Sends(page) /\ UNCHANGED budget
    \/ Sends(Resync) /\ Spend("resyncs")

\* The end of the stream's life, which it announces.
CloseStream ==
    /\ lock # NoTab /\ stream.asked /\ stream.out = <<>>
    /\ Spend("closes")
    /\ stream' = [stream EXCEPT !.out = <<Frame("closed", 0)>>]
    /\ UNCHANGED <<ringVars, tabVars>>

----------------------------------------------------------------------------
(* What a call hears. *)

Listens(t) == tab[t].mode \in {"follow", "lead"}
Streams(t) == tab[t].fails < StreamFailuresBeforePoll

\* Post from t to every other window that listens.
Posted(box, t, m) == [u \in Tab |-> IF u # t /\ Listens(u) THEN Append(box[u], m) ELSE box[u]]

Message(kind, id) == [kind |-> kind, id |-> id, of |-> "none"]
Relayed(f) == [kind |-> "event", id |-> f.id, of |-> f.kind]

\* What becomes of a window's feed by a frame: EventsClient.deliver, with heard.
Delivered(r, f) == [r EXCEPT !.cursor = f.id, !.last = f.id,
                             !.fails = IF f.kind = "event" THEN 0 ELSE @,
                             !.early = /\ f.kind # "resync"
                                       /\ @ \/ (r.mode = "follow" /\ ~r.greeted /\ f.id > r.begin),
                             !.passed = f.kind # "resync" /\ @,
                             !.skipped = f.kind # "resync" /\ @]

Learns(t, f) == CASE f.kind = "event" -> known[t] \cup {f.id}
                  [] f.kind = "resync" -> known[t] \cup 1..top
                  [] OTHER -> known[t]

\* What a call leaves behind of its history.
Left(r) == [r EXCEPT !.skipped = @ \/ r.early \/ r.passed, !.early = FALSE, !.passed = FALSE]

Ended(r) == [Left(r) EXCEPT !.mode = "idle"]

\* The call ends.  A leader gives the lock back and says that the stream is lost.
EndCall(t, r, box) ==
    /\ tab' = [tab EXCEPT ![t] = r]
    /\ inbox' = [(IF lock = t THEN Posted(box, t, Message("lost", 0)) ELSE box) EXCEPT ![t] = <<>>]
    /\ lock' = IF lock = t THEN NoTab ELSE lock
    /\ stream' = IF lock = t THEN NoStream ELSE stream

----------------------------------------------------------------------------

\* EventsClient.start
Start(t) ==
    /\ tab[t].mode = "stopped"
    /\ Spend("starts")
    /\ tab' = [tab EXCEPT ![t].mode = "idle", ![t].fails = 0]
    /\ UNCHANGED <<ringVars, stream, inbox, lock, known>>

\* EventsClient.stop, as runEventFeed calls it when the window leaves the front.
Stop(t) ==
    /\ tab[t].mode \in {"idle", "follow", "lead"}
    /\ Spend("stops")
    /\ EndCall(t, [Ended(tab[t]) EXCEPT !.mode = "stopped"], inbox)
    /\ UNCHANGED <<ringVars, known>>

\* The window is closed: the browser frees its lock and nobody says so.
Close(t) ==
    /\ Listens(t)
    /\ Spend("kills")
    /\ tab' = [tab EXCEPT ![t] = [Ended(@) EXCEPT !.mode = "closed"]]
    /\ inbox' = [inbox EXCEPT ![t] = <<>>]
    /\ lock' = IF lock = t THEN NoTab ELSE lock
    /\ stream' = IF lock = t THEN NoStream ELSE stream
    /\ UNCHANGED <<ringVars, known>>

\* streamOnce calls the shared opener, which asks who holds the stream.
Join(t) ==
    /\ tab[t].mode = "idle" /\ Streams(t)
    /\ tab' = [tab EXCEPT ![t].mode = "follow", ![t].begin = tab[t].cursor,
                          ![t].last = tab[t].cursor,
                          ![t].greeted = FALSE]
    /\ inbox' = Posted(inbox, t, Message("who", 0))
    /\ UNCHANGED <<ringVars, stream, budget, lock, known>>

\* The lock is granted: open the real stream from the last event heard.
Lead(t) ==
    /\ tab[t].mode = "follow" /\ lock = NoTab
    /\ lock' = t
    /\ tab' = [tab EXCEPT ![t] = [Left(@) EXCEPT !.mode = "lead"]]
    /\ inbox' = Posted(inbox, t, Message("open", tab[t].last))
    /\ stream' = [NoStream EXCEPT !.pos = tab[t].last]
    /\ UNCHANGED <<ringVars, budget, known>>

\* A frame of the stream reaches the leader, which posts it and takes it itself.
\* stream.closed ends the call without a failure.
Receive(t) ==
    /\ lock = t /\ stream.out # <<>>
    /\ LET f == Head(stream.out) IN
       IF f.kind = "closed"
       THEN /\ EndCall(t, Ended(tab[t]), Posted(inbox, t, Relayed(f)))
            /\ UNCHANGED known
       ELSE /\ tab' = [tab EXCEPT ![t] = Delivered(@, f)]
            /\ known' = [known EXCEPT ![t] = Learns(t, f)]
            /\ inbox' = Posted(inbox, t, Relayed(f))
            /\ stream' = [stream EXCEPT !.out = Tail(@)]
            /\ UNCHANGED lock
    /\ UNCHANGED <<ringVars, budget>>

Failed(r) == [Ended(r) EXCEPT !.fails = IF @ < StreamFailuresBeforePoll THEN @ + 1 ELSE @]

\* The answer was 404 or 405: the server has no streams, and the window polls.
Unsupported(r) == [Ended(r) EXCEPT !.fails = StreamFailuresBeforePoll]

\* How a stream that ends without a word, by its watchdog or in an error counts.  A
\* request for one may also be refused: a conflict (409) is no failure.
Breaks(r) == {Failed(r)} \cup IF stream.asked THEN {} ELSE {Ended(r), Unsupported(r)}

Break(t) ==
    /\ lock = t
    /\ Spend("cuts")
    /\ \E r \in Breaks(tab[t]) : EndCall(t, r, inbox)
    /\ UNCHANGED <<ringVars, known>>

\* Mutant: the greeting is compared with the last event heard.
RefetchesUnheard(r, cursor) == ~r.greeted /\ cursor # r.last

\* The first acknowledgement of a call: what was missed cannot be replayed by
\* the leader, so the window fetches its state again.
Refetches(r, cursor) == ~r.greeted /\ cursor # r.begin

\* History: the first greeting of a call, from elsewhere than where the call began.
ShowsLoss(r, cursor) == ~r.greeted /\ cursor # r.begin

Greeted(r, cursor) ==
    [r EXCEPT !.greeted = TRUE,
              !.early = @ /\ ~ShowsLoss(r, cursor),
              !.passed = ~ShowsLoss(r, cursor) /\ (@ \/ (r.greeted /\ cursor > r.last)),
              !.skipped = @ /\ ~ShowsLoss(r, cursor)]

\* Mutant: the leader says where it is only when it opens.
AnsweredOnce(box, t, m) == box

\* The leader tells a newcomer where it is.
Answered(box, t, m) ==
    IF m.kind = "who" THEN Posted(box, t, Message("open", tab[t].last)) ELSE box

\* The channel brings a message.
Hear(t) ==
    /\ inbox[t] # <<>>
    /\ LET m == Head(inbox[t])
           rest == [inbox EXCEPT ![t] = Tail(@)]
           r == tab[t]
       IN
       \/ /\ r.mode = "lead"
          /\ inbox' = Answered(rest, t, m)
          /\ UNCHANGED <<tab, lock, known, stream>>
       \/ /\ r.mode = "follow" /\ m.kind = "event" /\ m.of # "closed"
          /\ tab' = [tab EXCEPT ![t] = Delivered(@, Frame(m.of, m.id))]
          /\ known' = [known EXCEPT ![t] = Learns(t, Frame(m.of, m.id))]
          /\ inbox' = rest
          /\ UNCHANGED <<lock, stream>>
       \/ /\ r.mode = "follow" /\ m.kind = "event" /\ m.of = "closed"
          /\ EndCall(t, Ended(r), rest)
          /\ UNCHANGED known
       \/ /\ r.mode = "follow" /\ m.kind = "open"
          /\ tab' = [tab EXCEPT ![t] = Greeted(@, m.id)]
          /\ known' = IF Refetches(r, m.id) THEN [known EXCEPT ![t] = @ \cup 1..top] ELSE known
          /\ inbox' = rest
          /\ UNCHANGED <<lock, stream>>
       \/ /\ r.mode = "follow" /\ m.kind = "lost"
          /\ EndCall(t, Failed(r), rest)
          /\ UNCHANGED known
       \/ /\ r.mode = "follow" /\ m.kind = "who"
          /\ inbox' = rest
          /\ UNCHANGED <<tab, lock, known, stream>>
    /\ UNCHANGED <<ringVars, budget>>

\* pollOnce: one page, read and taken at once.
Poll(t) ==
    /\ tab[t].mode = "idle" /\ ~Streams(t)
    /\ \E page \in Pages(tab[t].cursor) :
          /\ tab' = [tab EXCEPT ![t].cursor = page.next,
                                ![t].skipped = @ /\ \A f \in ToSet(page.frames) : f.kind # "resync"]
          /\ known' = [known EXCEPT ![t] = @ \cup UNION {Learns(t, f) : f \in ToSet(page.frames)}]
    /\ UNCHANGED <<ringVars, stream, inbox, lock, budget>>

Next ==
    \/ Change \/ SendPage \/ CloseStream
    \/ \E t \in Tab :
        \/ Start(t) \/ Stop(t) \/ Close(t) \/ Join(t) \/ Lead(t) \/ Receive(t) \/ Break(t)
        \/ Hear(t) \/ Poll(t)

Spec == Init /\ [][Next]_vars

\* A running window goes on with its loop, the lock is granted when it is free,
\* a stream is read when there is something to read, and frames and messages
\* arrive.
Fairness ==
    /\ WF_vars(SendPage)
    /\ \A t \in Tab : /\ WF_vars(Join(t)) /\ WF_vars(Lead(t)) /\ WF_vars(Receive(t))
                     /\ WF_vars(Hear(t)) /\ WF_vars(Poll(t))

FairSpec == Spec /\ Fairness

----------------------------------------------------------------------------

\* No position is beyond the ring, and only a call hears the channel.
TypeOK ==
    /\ top \in Nat /\ low \in 1..top + 1 /\ mine \subseteq 1..top
    /\ \A t \in Tab :
          /\ tab[t].mode \in {"stopped", "idle", "follow", "lead", "closed"}
          /\ tab[t].cursor \in 0..top /\ tab[t].last \in 0..top
          /\ known[t] \subseteq 1..top
          /\ ~Listens(t) => inbox[t] = <<>>

\* A window that resumes from its cursor, as the next leader or after a stop, has
\* got or fetched every event before it: `nothing in between is lost'.
NoSilentGap ==
    \A t \in Tab : \A e \in mine :
        tab[t].mode # "follow" /\ e <= tab[t].cursor => e \in known[t]

\* The two ways a window loses events: it heard one before a leader greeted it, or
\* its leader went away without a word and the next one was further on.
GapHasCause ==
    \A t \in Tab : \A e \in mine :
        e <= tab[t].cursor /\ e \notin known[t]
            => tab[t].early \/ tab[t].passed \/ tab[t].skipped

\* Events are lost in no other way.
WindowInv == TypeOK /\ GapHasCause

Running(t) == tab[t].mode \notin {"stopped", "closed"}

\* A running window comes to know every event that is new to it, through its own
\* stream, another window's or its polls, whichever windows stop, close or lose
\* the stream meanwhile.
CatchesUp ==
    \A t \in Tab :
        Running(t) ~> (~Running(t) \/ Visible(tab[t].cursor) \subseteq known[t])

=============================================================================
