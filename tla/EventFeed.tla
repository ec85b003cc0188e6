------------------------------ MODULE EventFeed ------------------------------
(***************************************************************************)
(* internal/eventfeed and the stream route over it: how a committed change *)
(* reaches the streams of one viewer on one installation.                  *)
(*                                                                         *)
(* A writer's commit, the count of changing commits and the wake of the    *)
(* loop are three steps of it (dbwork.notifyCommit runs after the commit). *)
(* The loop Run makes passes: publish pending hints, read the new rows,    *)
(* wake the readers they concern, and give back the wake its own flush     *)
(* caused.  A stream subscribes, reads a page from its cursor, takes the   *)
(* installation's place and then reads a page for every wake.              *)
(***************************************************************************)
EXTENDS EventRing

CONSTANTS
    LagWake,     \* rows after which every reader is woken
    FlushLimit,  \* most hints one pass publishes
    ReadLimit,   \* most rows one pass reads
    Writer,      \* transactions of the rest of the server, at one time
    Conn,        \* connections, at one time
    NoConn,
    Budgets      \* bounds on what may happen in one behaviour (see budget)

ASSUME FeedAssumption ==
    /\ LagWake \in Nat \ {0} /\ LagWake <= PageLimit
    /\ FlushLimit \in Nat \ {0} /\ ReadLimit \in Nat \ {0}
    /\ NoConn \notin Conn

VARIABLES
    hints,       \* rows of api_change_pending
    writer,      \* what each committed transaction has yet to announce
    since,       \* changing commits counted since the pass began
    signal,      \* the loop's wake
    pass,        \* where the loop is, and what its pass has found
    after,       \* the last row the loop has read
    everyone,    \* the row at which every reader was last woken
    started,     \* a pass has ended
    conn,        \* the stream handlers: how far each is, and its cursor
    woken,       \* handlers with a wake to take
    cut,         \* handlers that are to continue a page cut at its byte budget
    prior,       \* the stream each newcomer has replaced and is about to cancel
    retired,     \* handlers that a newcomer has cancelled
    holder,      \* Hub.streams of the installation
    missed,      \* history: rows read by passes that then failed
    budget       \* how many events of each kind are left

readVars == <<after, everyone, started>>
loopVars == <<since, signal, pass, readVars>>
streamVars == <<conn, woken, cut, prior, retired, holder>>
vars == <<ringVars, hints, writer, loopVars, streamVars, missed, budget>>

Spend(what) == budget[what] > 0 /\ budget' = [budget EXCEPT ![what] = @ - 1]

Idle == [at |-> "wait", count |-> 0, read |-> 0, found |-> {}]
Free == [stage |-> "free", pos |-> 0]

Init ==
    /\ RingInit /\ hints = 0
    /\ writer = [w \in Writer |-> "idle"]
    /\ since = 0 /\ signal = FALSE
    /\ pass = [Idle EXCEPT !.at = "begin"]
    /\ after = 0 /\ everyone = 0 /\ started = FALSE
    /\ conn = [c \in Conn |-> Free] /\ woken = {} /\ cut = {} /\ retired = {}
    /\ prior = [c \in Conn |-> NoConn] /\ holder = NoConn /\ missed = {}
    /\ budget \in Budgets

----------------------------------------------------------------------------
(* Commits of the rest of the server. *)

\* Transactions are interchangeable, and so are connections: a new one takes a
\* certain free place.
NextWriter == CHOOSE w \in Writer : writer[w] = "idle"
NextConn == CHOOSE c \in Conn : conn[c].stage = "free"

\* A transaction commits an event, a coalesced hint, or something else.
Commit(w) ==
    /\ writer[w] = "idle" /\ w = NextWriter
    /\ \/ /\ Spend("events")
          /\ AppendEvent
          /\ writer' = [writer EXCEPT ![w] = "watched"]
          /\ UNCHANGED hints
       \/ /\ Spend("hints")
          /\ hints' = hints + 1
          /\ writer' = [writer EXCEPT ![w] = "watched"]
          /\ UNCHANGED ringVars
       \/ /\ Spend("others")
          /\ writer' = [writer EXCEPT ![w] = "unwatched"]
          /\ UNCHANGED <<ringVars, hints>>
    /\ UNCHANGED <<loopVars, streamVars, missed>>

\* So does retention.
Retain(w) ==
    /\ writer[w] = "idle" /\ w = NextWriter
    /\ Spend("prunes")
    /\ Trim
    /\ writer' = [writer EXCEPT ![w] = "watched"]
    /\ UNCHANGED <<hints, loopVars, streamVars, missed>>

\* notifyCommit: count the commit ...
CountCommit(w) ==
    /\ writer[w] \in {"watched", "unwatched"}
    /\ since' = since + 1
    /\ writer' = [writer EXCEPT ![w] = IF @ = "watched" THEN "counted" ELSE "idle"]
    /\ UNCHANGED <<ringVars, hints, signal, pass, readVars, streamVars, missed, budget>>

\* ... and wake the loop.
WakeLoop(w) ==
    /\ writer[w] = "counted"
    /\ signal' = TRUE
    /\ writer' = [writer EXCEPT ![w] = "idle"]
    /\ UNCHANGED <<ringVars, hints, since, pass, readVars, streamVars, missed, budget>>

----------------------------------------------------------------------------
(* The loop. *)

Min2(a, b) == IF a < b THEN a ELSE b

\* Wait takes the wake; a pass that left work or failed begins again on its timer.
Wait ==
    /\ pass.at = "wait" /\ signal
    /\ signal' = FALSE
    /\ pass' = [Idle EXCEPT !.at = "begin"]
    /\ UNCHANGED <<ringVars, hints, writer, since, readVars, streamVars, missed, budget>>

Begin ==
    /\ pass.at \in {"begin", "sleep"}
    /\ since' = 0
    /\ pass' = [Idle EXCEPT !.at = "probe"]
    /\ UNCHANGED <<ringVars, hints, writer, signal, readVars, streamVars, missed, budget>>

\* flushPendingHints probes first: with nothing pending no transaction is made.
Probe ==
    /\ pass.at = "probe"
    /\ pass' = [pass EXCEPT !.at = IF hints > 0 THEN "flush" ELSE "read"]
    /\ UNCHANGED <<ringVars, hints, writer, since, signal, readVars, streamVars, missed, budget>>

\* The flush is a changing commit, which is counted and wakes the loop itself.
Flush ==
    /\ pass.at = "flush"
    /\ LET n == Min2(hints, FlushLimit) IN
       /\ top' = top + n
       /\ \E shown \in SUBSET (top + 1..top + n) : mine' = mine \cup shown
       /\ hints' = hints - n
       /\ pass' = [pass EXCEPT !.at = "read", !.count = n]
    /\ since' = since + 1
    /\ signal' = TRUE
    /\ UNCHANGED <<low, writer, readVars, streamVars, missed, budget>>

\* The rows the loop has not read: ids are given in order and retention removes
\* the oldest, so they are the ones from here to the top.
From == IF low > after THEN low ELSE after + 1
Unread == top + 1 - From

Read ==
    /\ pass.at = "read"
    /\ LET n == Min2(Unread, ReadLimit) IN
       /\ after' = IF n = 0 THEN after ELSE From + n - 1
       /\ pass' = [pass EXCEPT !.at = "wake", !.read = n,
                               !.found = mine \cap (From..From + n - 1)]
    /\ UNCHANGED <<ringVars, hints, writer, since, signal, everyone, started, streamVars, missed,
                   budget>>

\* A statement fails.  The pass is made again on its timer, and when the read
\* fails after some rows it goes on from the last of them.
ReadFails ==
    /\ pass.at \in {"probe", "flush", "read"}
    /\ Spend("errors")
    /\ pass' = [Idle EXCEPT !.at = "sleep"]
    /\ \/ UNCHANGED <<after, missed>>
       \/ /\ pass.at = "read"
          /\ \E n \in 1..Min2(Unread, ReadLimit) :
                after' = From + n - 1 /\ missed' = missed \cup (From..From + n - 1)
    /\ UNCHANGED <<ringVars, hints, writer, since, signal, everyone, started, streamVars>>

\* Mutant: the handler subscribes once its first page is read.
SubscribedOnceOpen(c) == conn[c].stage = "open"

\* Subscribed readers: from SubscribeFor to the end of the handler.
Subscribed(c) == conn[c].stage \in {"asked", "read", "open"}

WakeAll == woken' = woken \cup {c \in Conn : Subscribed(c)}

\* Mutant: readers that hear nothing are not brought along.
WakeReadersConcerned ==
    /\ pass.at = "wake"
    /\ started' = TRUE
    /\ UNCHANGED everyone
    /\ IF pass.found # {} THEN WakeAll ELSE UNCHANGED woken
    /\ pass' = IF pass.count = FlushLimit \/ pass.read = ReadLimit
               THEN [Idle EXCEPT !.at = "sleep"] ELSE [pass EXCEPT !.at = "retire"]
    /\ UNCHANGED <<ringVars, hints, writer, since, signal, after, conn, cut, prior, retired,
                   holder, missed, budget>>

\* Wake or wakeAudiences, then what is to follow the pass.
WakeReaders ==
    /\ pass.at = "wake"
    /\ IF ~started \/ after - everyone >= LagWake
       THEN started' = TRUE /\ everyone' = after /\ WakeAll
       ELSE /\ UNCHANGED <<started, everyone>>
            /\ IF pass.found # {} THEN WakeAll ELSE UNCHANGED woken
    /\ pass' = IF pass.count = FlushLimit \/ pass.read = ReadLimit
               THEN [Idle EXCEPT !.at = "sleep"] ELSE [pass EXCEPT !.at = "retire"]
    /\ UNCHANGED <<ringVars, hints, writer, since, signal, after, conn, cut, prior, retired,
                   holder, missed, budget>>

\* retireOwnFlushWake: take a wake, if there is one ...
TakeFlushWake ==
    /\ pass.at = "retire"
    /\ signal' = FALSE
    /\ pass' = IF signal THEN [pass EXCEPT !.at = "check"] ELSE Idle
    /\ UNCHANGED <<ringVars, hints, writer, since, readVars, streamVars, missed, budget>>

Own == IF pass.count > 0 THEN 1 ELSE 0

\* Mutant: one commit too many is taken for the pass's own.
KeepPeerWakeOffByOne ==
    /\ pass.at = "check"
    /\ signal' = (signal \/ since > Own + 1)
    /\ pass' = Idle
    /\ UNCHANGED <<ringVars, hints, writer, since, readVars, streamVars, missed, budget>>

\* ... and give it back unless the pass made every changing commit itself.
KeepPeerWake ==
    /\ pass.at = "check"
    /\ signal' = IF since = Own THEN signal ELSE TRUE
    /\ pass' = Idle
    /\ UNCHANGED <<ringVars, hints, writer, since, readVars, streamVars, missed, budget>>

----------------------------------------------------------------------------
(* The stream route. *)

\* Where Hub.Read from a cursor may end.  A resync (for a gap, an oversized row or
\* a cursor that cannot be opened) leaves the reader at the newest row.
ReadEnds(pos) == IF Gap(pos) THEN {top} ELSE PageEnds(pos)

\* The handler sends a page that ends there.
SendTo(c, stage, end) ==
    /\ conn' = [conn EXCEPT ![c] = [stage |-> stage, pos |-> end]]
    /\ cut' = IF end < top THEN cut \cup {c} ELSE cut \ {c}

\* A client comes with a cursor of an earlier stream; the handler subscribes
\* before anything else.
Open(c) ==
    /\ conn[c].stage = "free" /\ c = NextConn
    /\ Spend("opens")
    /\ \E pos \in 0..top : conn' = [conn EXCEPT ![c] = [stage |-> "asked", pos |-> pos]]
    /\ UNCHANGED <<ringVars, hints, writer, loopVars, woken, cut, prior, retired, holder,
                   missed>>

FirstRead(c) ==
    /\ conn[c].stage = "asked"
    /\ \E end \in ReadEnds(conn[c].pos) : SendTo(c, "read", end)
    /\ UNCHANGED <<ringVars, hints, writer, loopVars, woken, prior, retired, holder, missed,
                   budget>>

\* AdmitStream: under the hub's lock the newcomer takes the place ...
Admit(c) ==
    /\ conn[c].stage = "read"
    /\ conn' = [conn EXCEPT ![c].stage = "open"]
    /\ holder' = c
    /\ prior' = [prior EXCEPT ![c] = holder]
    /\ UNCHANGED <<ringVars, hints, writer, loopVars, woken, cut, retired, missed, budget>>

\* ... and after it cancels the stream that had it, before it goes on.
CancelPrior(c) ==
    /\ prior[c] # NoConn
    /\ retired' = retired \cup {prior[c]}
    /\ prior' = [prior EXCEPT ![c] = NoConn]
    /\ UNCHANGED <<ringVars, hints, writer, loopVars, conn, woken, cut, holder, missed, budget>>

\* Mutant: a page that was cut waits for the next wake.
ServeOnWake(c) ==
    /\ conn[c].stage = "open" /\ prior[c] = NoConn /\ c \in woken
    /\ \E end \in ReadEnds(conn[c].pos) : SendTo(c, "open", end)
    /\ woken' = woken \ {c}
    /\ UNCHANGED <<ringVars, hints, writer, loopVars, prior, retired, holder, missed, budget>>

\* A wake, or the continuation of a cut page.  While a continuation is due a
\* wake is only taken.
Serve(c) ==
    /\ conn[c].stage = "open" /\ prior[c] = NoConn
    /\ \/ /\ c \in woken \cup cut
          /\ \E end \in ReadEnds(conn[c].pos) : SendTo(c, "open", end)
          /\ woken' = IF c \in cut THEN woken ELSE woken \ {c}
       \/ /\ c \in woken \cap cut
          /\ woken' = woken \ {c}
          /\ UNCHANGED <<conn, cut>>
    /\ UNCHANGED <<ringVars, hints, writer, loopVars, prior, retired, holder, missed, budget>>

\* Mutant: the release removes whatever stream is registered.
ReleaseRegardless(c) == holder' = NoConn

\* The release AdmitStream returned.
Release(c) == holder' = IF holder = c THEN NoConn ELSE holder

\* The handler returns: cancelled by a newcomer, left by its client, refused by
\* the recheck of its authority, or at the end of the stream's life.  To cancel a
\* handler that has returned does nothing.
EndStream(c) ==
    /\ Subscribed(c) /\ prior[c] = NoConn
    /\ IF c \in retired THEN UNCHANGED budget ELSE Spend("ends")
    /\ IF conn[c].stage = "open" THEN Release(c) ELSE UNCHANGED holder
    /\ conn' = [conn EXCEPT ![c] = Free]
    /\ prior' = [d \in Conn |-> IF prior[d] = c THEN NoConn ELSE prior[d]]
    /\ woken' = woken \ {c} /\ cut' = cut \ {c} /\ retired' = retired \ {c}
    /\ UNCHANGED <<ringVars, hints, writer, loopVars, missed>>

Next ==
    \/ \E w \in Writer : Commit(w) \/ Retain(w) \/ CountCommit(w) \/ WakeLoop(w)
    \/ Wait \/ Begin \/ Probe \/ Flush \/ Read \/ ReadFails \/ WakeReaders
    \/ TakeFlushWake \/ KeepPeerWake
    \/ \E c \in Conn : \/ Open(c) \/ FirstRead(c) \/ Admit(c) \/ CancelPrior(c)
                       \/ Serve(c) \/ EndStream(c)

Spec == Init /\ [][Next]_vars

\* A committed transaction announces itself, the loop goes on until it sleeps, a
\* handler goes on until it waits, and one that is cancelled returns.
Fairness ==
    /\ \A w \in Writer : WF_vars(CountCommit(w)) /\ WF_vars(WakeLoop(w))
    /\ WF_vars(Wait \/ Begin \/ Probe \/ Flush \/ Read \/ WakeReaders
               \/ TakeFlushWake \/ KeepPeerWake)
    /\ \A c \in Conn : /\ WF_vars(FirstRead(c)) /\ WF_vars(Admit(c))
                      /\ WF_vars(CancelPrior(c)) /\ WF_vars(Serve(c))
                      /\ WF_vars(c \in retired /\ EndStream(c))

FairSpec == Spec /\ Fairness

----------------------------------------------------------------------------

\* The loop's counters and every reader's position stay within the table and the
\* limits of a pass.
TypeOK ==
    /\ top \in Nat /\ low \in 1..top + 1 /\ mine \subseteq 1..top
    /\ hints \in Nat /\ since \in Nat /\ signal \in BOOLEAN /\ started \in BOOLEAN
    /\ writer \in [Writer -> {"idle", "watched", "unwatched", "counted"}]
    /\ pass \in [at : {"begin", "probe", "flush", "read", "wake", "retire", "check",
                       "wait", "sleep"},
                 count : 0..FlushLimit, read : 0..ReadLimit, found : SUBSET (1..top)]
    /\ after \in 0..top /\ everyone \in 0..after
    /\ conn \in [Conn -> [stage : {"free", "asked", "read", "open"}, pos : 0..top]]
    /\ woken \subseteq Conn /\ cut \subseteq Conn /\ retired \subseteq Conn
    /\ prior \in [Conn -> Conn \cup {NoConn}]
    /\ \A c \in Conn : prior[c] # NoConn => conn[c].stage = "open"
    /\ holder \in Conn \cup {NoConn} /\ missed \subseteq 1..after

\* The loop sleeps and nothing that was committed has yet to wake it.
Quiet ==
    /\ pass.at = "wait" /\ ~signal
    /\ \A w \in Writer : writer[w] \notin {"watched", "counted"}

\* Streams whose place a newcomer has taken.
Replaced == retired \cup {prior[c] : c \in Conn}

\* A stream whose handler sleeps.
Asleep(c) == conn[c].stage = "open" /\ c \notin woken \cup cut \cup retired

\* When the loop sleeps, every hint has been published and every row looked at:
\* giving back its own wake (retireOwnFlushWake) never costs a peer's.
NothingLeftBehind == Quiet => hints = 0 /\ Unread = 0

\* When the loop sleeps, no stream sleeps on an event it has yet to send,
\* whatever was committed while it subscribed and read.  The exception is the
\* loop's own failure: a read that fails after some rows never wakes for them.
NoLostWake == \A c \in Conn : Quiet /\ Asleep(c) => Visible(conn[c].pos) \subseteq missed

\* A stream that only others' events pass by does not fall behind a page.
QuietStreamIsClose ==
    \A c \in Conn : Quiet /\ Asleep(c) => Cardinality(Behind(conn[c].pos)) < LagWake

\* A live stream sends every event it is to show, however its pages are cut and
\* whatever else is committed, unless it ends first.
EventsArrive ==
    \A c \in Conn :
        (conn[c].stage = "open" /\ Visible(conn[c].pos) \ missed # {})
            ~> (conn[c].stage # "open" \/ Visible(conn[c].pos) \subseteq missed)

\* The stream admitted last keeps the installation's place until it ends: the
\* late release of the one it retired does not take it away.
StreamKeepsPlace ==
    \A c \in Conn : conn[c].stage = "open" /\ c \notin Replaced => holder = c

=============================================================================
