-------------------------- MODULE EventFeedProofs --------------------------
(***************************************************************************)
(* EventFeed for any number of writers and connections, any limits and any *)
(* budgets: the loop never sleeps on a hint or a row, no stream sleeps on  *)
(* an event, and a retired stream leaves its successor's place alone.      *)
(***************************************************************************)
EXTENDS EventFeed, FiniteSetTheorems, TLAPS

Stages == {"begin", "probe", "flush", "read", "wake", "retire", "check", "wait", "sleep"}
Passes == [at : Stages, count : 0..FlushLimit, read : 0..ReadLimit, found : SUBSET (1..top)]
Handlers == [stage : {"free", "asked", "read", "open"}, pos : 0..top]

RingType == top \in Nat /\ low \in 1..top + 1 /\ mine \subseteq 1..top /\ hints \in Nat
LoopType == since \in Nat /\ after \in 0..top /\ everyone \in 0..after /\ missed \subseteq 1..after
FlagType == signal \in BOOLEAN /\ started \in BOOLEAN
WriterType == writer \in [Writer -> {"idle", "watched", "unwatched", "counted"}]
PassType == pass \in Passes
ConnType == conn \in [Conn -> Handlers]
SetsType == woken \subseteq Conn /\ cut \subseteq Conn /\ retired \subseteq Conn
            /\ holder \in Conn \cup {NoConn}
PriorType == /\ prior \in [Conn -> Conn \cup {NoConn}]
             /\ \A c \in Conn : prior[c] # NoConn => conn[c].stage = "open"

LEMMA TypeParts ==
    TypeOK <=> /\ RingType /\ LoopType /\ FlagType /\ WriterType /\ PassType
               /\ ConnType /\ SetsType /\ PriorType
BY DEF TypeOK, RingType, LoopType, FlagType, WriterType, PassType, ConnType, SetsType,
       PriorType, Stages, Passes, Handlers

\* The smaller of two numbers is one of them.
LEMMA Min2Fact ==
    ASSUME NEW a \in Int, NEW b \in Int
    PROVE  Min2(a, b) \in Int /\ Min2(a, b) <= a /\ Min2(a, b) <= b
           /\ (Min2(a, b) = a \/ Min2(a, b) = b)
BY DEF Min2

\* The rows the loop has not read are those from From to the top.
LEMMA UnreadFact ==
    ASSUME TypeOK
    PROVE  /\ From \in Nat /\ From >= 1 /\ From > after /\ From <= top + 1 /\ Unread \in Nat
           /\ \A i \in Ring : i > after => i >= From
BY DEF TypeOK, From, Unread, Ring

\* A page of a stream ends within the table.
LEMMA ReadEndsFact ==
    ASSUME TypeOK, NEW c \in Conn, NEW end \in ReadEnds(conn[c].pos)
    PROVE  end \in 0..top
<1>1. conn[c].pos \in 0..top /\ top \in Nat /\ low \in Nat
  BY DEF TypeOK
<1> QED
  BY <1>1 DEF ReadEnds, PageEnds, Visible, Behind, Ring

----------------------------------------------------------------------------
(* Types *)

LEMMA InitType == Init => TypeOK
<1> SUFFICES ASSUME Init PROVE TypeOK
  OBVIOUS
<1>1. RingType /\ LoopType
  BY DEF Init, RingInit, RingType, LoopType
<1>2. FlagType /\ SetsType /\ PriorType
  BY DEF Init, FlagType, SetsType, PriorType
<1>3. PassType
  BY FeedAssumption DEF Init, RingInit, Idle, PassType, Passes, Stages
<1>4. ConnType /\ WriterType
  BY DEF Init, RingInit, Free, ConnType, Handlers, WriterType
<1> QED
  BY <1>1, <1>2, <1>3, <1>4, TypeParts

\* A step that leaves a part of the state alone, while the table does not shrink,
\* leaves its type alone.
LEMMA Frame ==
    ASSUME TypeOK, top' \in Nat, top' >= top
    PROVE  /\ UNCHANGED <<ringVars, hints>> => RingType'
           /\ UNCHANGED <<since, after, everyone, missed>> => LoopType'
           /\ UNCHANGED <<signal, started>> => FlagType'
           /\ UNCHANGED writer => WriterType'
           /\ UNCHANGED pass => PassType'
           /\ UNCHANGED conn => ConnType'
           /\ UNCHANGED <<woken, cut, retired, holder>> => SetsType'
           /\ UNCHANGED <<conn, prior>> => PriorType'
<1>1. UNCHANGED <<ringVars, hints>> => RingType'
  BY DEF TypeOK, RingType, ringVars
<1>2. UNCHANGED <<since, after, everyone, missed>> => LoopType'
  BY DEF TypeOK, LoopType
<1>3. UNCHANGED <<signal, started>> => FlagType'
  BY DEF TypeOK, FlagType
<1>4. UNCHANGED writer => WriterType'
  BY DEF TypeOK, WriterType
<1>5. UNCHANGED pass => PassType'
  BY DEF TypeOK, PassType, Passes, Stages
<1>6. UNCHANGED conn => ConnType'
  BY DEF TypeOK, ConnType, Handlers
<1>7. UNCHANGED <<woken, cut, retired, holder>> => SetsType'
  BY DEF TypeOK, SetsType
<1>8. UNCHANGED <<conn, prior>> => PriorType'
  BY DEF TypeOK, PriorType
<1> QED
  BY <1>1, <1>2, <1>3, <1>4, <1>5, <1>6, <1>7, <1>8

LEMMA PartsNext ==
    (RingType' /\ LoopType' /\ FlagType' /\ WriterType' /\ PassType' /\ ConnType'
     /\ SetsType' /\ PriorType') => TypeOK'
BY DEF TypeOK, RingType, LoopType, FlagType, WriterType, PassType, ConnType, SetsType,
       PriorType, Stages, Passes, Handlers

\* What the loop leaves when it goes on, or ends its pass.
LEMMA PassMoves ==
    ASSUME TypeOK, top' \in Nat, top' >= top, NEW s \in Stages
    PROVE  /\ pass' = [pass EXCEPT !.at = s] => PassType'
           /\ pass' = [Idle EXCEPT !.at = s] => PassType'
           /\ pass' = Idle => PassType'
BY FeedAssumption DEF TypeOK, PassType, Passes, Stages, Idle

LEMMA NextType == TypeOK /\ [Next]_vars => TypeOK'
<1> SUFFICES ASSUME TypeOK, [Next]_vars PROVE TypeOK'
  OBVIOUS
<1> USE DEF ringVars, readVars, loopVars, streamVars
<1>0. top \in Nat /\ top >= top
  BY DEF TypeOK
<1>1. ASSUME NEW w \in Writer, Commit(w) PROVE TypeOK'
  <2>1. RingType' /\ top' >= top
    <3>1. CASE AppendEvent /\ UNCHANGED hints
      BY <3>1 DEF AppendEvent, TypeOK, RingType
    <3>2. CASE UNCHANGED ringVars /\ (hints' = hints + 1 \/ UNCHANGED hints)
      BY <3>2 DEF TypeOK, RingType
    <3> QED
      BY <1>1, <3>1, <3>2 DEF Commit
  <2>2. WriterType'
    BY <1>1 DEF Commit, TypeOK, WriterType
  <2>3. top' \in Nat
    BY <2>1 DEF RingType
  <2> QED
    BY <1>1, <2>1, <2>2, <2>3, Frame, PartsNext DEF Commit
<1>2. ASSUME NEW w \in Writer, Retain(w) PROVE TypeOK'
  <2>1. RingType' /\ top' = top
    BY <1>2 DEF Retain, Trim, TypeOK, RingType
  <2>2. WriterType'
    BY <1>2 DEF Retain, TypeOK, WriterType
  <2> QED
    BY <1>0, <1>2, <2>1, <2>2, Frame, PartsNext DEF Retain
<1>3. ASSUME NEW w \in Writer, CountCommit(w) PROVE TypeOK'
  <2>1. LoopType'
    BY <1>3 DEF CountCommit, TypeOK, LoopType
  <2>2. WriterType'
    BY <1>3 DEF CountCommit, TypeOK, WriterType
  <2> QED
    BY <1>0, <1>3, <2>1, <2>2, Frame, PartsNext DEF CountCommit
<1>4. ASSUME NEW w \in Writer, WakeLoop(w) PROVE TypeOK'
  <2>1. FlagType'
    BY <1>4 DEF WakeLoop, TypeOK, FlagType
  <2>2. WriterType'
    BY <1>4 DEF WakeLoop, TypeOK, WriterType
  <2> QED
    BY <1>0, <1>4, <2>1, <2>2, Frame, PartsNext DEF WakeLoop
<1>5. CASE Wait
  <2>1. FlagType' /\ PassType'
    BY <1>0, <1>5, PassMoves DEF Wait, TypeOK, FlagType, Stages
  <2> QED
    BY <1>0, <1>5, <2>1, Frame, PartsNext DEF Wait
<1>6. CASE Begin
  <2>1. LoopType' /\ PassType'
    BY <1>0, <1>6, PassMoves DEF Begin, TypeOK, LoopType, Stages
  <2> QED
    BY <1>0, <1>6, <2>1, Frame, PartsNext DEF Begin
<1>7. CASE Probe
  <2>1. PassType'
    BY <1>0, <1>7, PassMoves DEF Probe, Stages
  <2> QED
    BY <1>0, <1>7, <2>1, Frame, PartsNext DEF Probe
<1>8. CASE Flush
  <2> DEFINE n == Min2(hints, FlushLimit)
  <2>1. n \in 0..FlushLimit /\ n \in Nat /\ n <= hints
    BY FeedAssumption DEF TypeOK, Min2
  <2>2. /\ top' = top + n /\ \E shown \in SUBSET (top + 1..top + n) : mine' = mine \cup shown
        /\ hints' = hints - n /\ pass' = [pass EXCEPT !.at = "read", !.count = n]
        /\ since' = since + 1 /\ signal' = TRUE
        /\ UNCHANGED <<low, writer, readVars, streamVars, missed>>
    BY <1>8 DEF Flush
  <2> HIDE DEF n
  <2>3. RingType' /\ top' >= top
    BY <2>1, <2>2 DEF TypeOK, RingType
  <2>4. LoopType'
    BY <2>1, <2>2 DEF TypeOK, LoopType
  <2>5. PassType'
    <3>1. top \in Nat /\ pass.found \in SUBSET (1..top) /\ pass \in Passes
      BY DEF TypeOK, Passes, Stages
    <3>2. pass.found \in SUBSET (1..top')
      BY <2>1, <2>2, <3>1
    <3> QED
      BY <2>1, <2>2, <3>1, <3>2 DEF PassType, Passes, Stages
  <2>6. FlagType'
    BY <2>2 DEF TypeOK, FlagType
  <2>7. top' \in Nat
    BY <2>3 DEF RingType
  <2> QED
    BY <2>2, <2>3, <2>4, <2>5, <2>6, <2>7, Frame, PartsNext
<1>9. CASE Read
  <2> DEFINE n == Min2(Unread, ReadLimit)
  <2>1. n \in 0..ReadLimit /\ n <= Unread
    BY UnreadFact, FeedAssumption DEF Min2
  <2>2. LoopType'
    BY <1>9, <2>1, UnreadFact DEF Read, TypeOK, Unread, LoopType
  <2>3. pass' = [pass EXCEPT !.at = "wake", !.read = n, !.found = mine \cap (From..From + n - 1)]
    BY <1>9 DEF Read
  <2>4. top' = top
    BY <1>9 DEF Read
  <2> HIDE DEF n
  <2>5. PassType'
    BY <2>1, <2>3, <2>4 DEF TypeOK, PassType, Passes, Stages
  <2> QED
    BY <1>0, <1>9, <2>2, <2>5, Frame, PartsNext DEF Read
<1>10. CASE ReadFails
  <2>1. LoopType'
    <3>1. CASE UNCHANGED <<after, missed>>
      BY <1>10, <3>1 DEF TypeOK, ReadFails, LoopType
    <3>2. ASSUME NEW n \in 1..Min2(Unread, ReadLimit), after' = From + n - 1,
                 missed' = missed \cup (From..From + n - 1)
          PROVE  LoopType'
      <4>1. n \in Nat /\ n >= 1 /\ n <= Unread
        BY UnreadFact, FeedAssumption DEF Min2
      <4>2. after' \in 0..top /\ after' >= after
        BY <3>2, <4>1, UnreadFact DEF TypeOK, Unread
      <4> QED
        BY <1>10, <3>2, <4>1, <4>2, UnreadFact DEF ReadFails, TypeOK, LoopType
    <3> QED
      BY <1>10, <3>1, <3>2 DEF ReadFails
  <2>2. PassType'
    BY <1>0, <1>10, PassMoves DEF ReadFails, Stages
  <2> QED
    BY <1>0, <1>10, <2>1, <2>2, Frame, PartsNext DEF ReadFails
<1>11. CASE WakeReaders
  <2>1. SetsType'
    BY <1>11 DEF WakeReaders, WakeAll, TypeOK, SetsType
  <2>2. FlagType'
    BY <1>11 DEF WakeReaders, TypeOK, FlagType
  <2>3. everyone' = everyone \/ everyone' = after
    BY <1>11 DEF WakeReaders
  <2>4. LoopType'
    BY <1>11, <2>3 DEF WakeReaders, TypeOK, LoopType
  <2>5. PassType'
    BY <1>0, <1>11, PassMoves DEF WakeReaders, Stages
  <2> QED
    BY <1>0, <1>11, <2>1, <2>2, <2>4, <2>5, Frame, PartsNext DEF WakeReaders
<1>12. CASE TakeFlushWake
  <2>1. FlagType' /\ PassType'
    BY <1>0, <1>12, PassMoves DEF TakeFlushWake, TypeOK, FlagType, Stages
  <2> QED
    BY <1>0, <1>12, <2>1, Frame, PartsNext DEF TakeFlushWake
<1>13. CASE KeepPeerWake
  <2>1. FlagType' /\ PassType'
    BY <1>0, <1>13, PassMoves DEF KeepPeerWake, TypeOK, FlagType, Stages
  <2> QED
    BY <1>0, <1>13, <2>1, Frame, PartsNext DEF KeepPeerWake
<1>14. ASSUME NEW c \in Conn, Open(c) PROVE TypeOK'
  <2>1. ConnType'
    BY <1>14 DEF Open, TypeOK, ConnType, Handlers
  <2>2. PriorType'
    BY <1>14 DEF Open, TypeOK, PriorType
  <2> QED
    BY <1>0, <1>14, <2>1, <2>2, Frame, PartsNext DEF Open
<1>15. ASSUME NEW c \in Conn, FirstRead(c) PROVE TypeOK'
  <2>1. ConnType'
    BY <1>15, ReadEndsFact DEF FirstRead, SendTo, TypeOK, ConnType, Handlers
  <2>2. SetsType'
    BY <1>15 DEF FirstRead, SendTo, TypeOK, SetsType
  <2>3. PriorType'
    BY <1>15 DEF FirstRead, SendTo, TypeOK, PriorType
  <2> QED
    BY <1>0, <1>15, <2>1, <2>2, <2>3, Frame, PartsNext DEF FirstRead
<1>16. ASSUME NEW c \in Conn, Admit(c) PROVE TypeOK'
  <2>1. ConnType'
    BY <1>16 DEF Admit, TypeOK, ConnType, Handlers
  <2>2. SetsType'
    BY <1>16 DEF Admit, TypeOK, SetsType
  <2>3. PriorType'
    BY <1>16 DEF Admit, TypeOK, PriorType
  <2> QED
    BY <1>0, <1>16, <2>1, <2>2, <2>3, Frame, PartsNext DEF Admit
<1>20. ASSUME NEW c \in Conn, CancelPrior(c) PROVE TypeOK'
  <2>1. SetsType' /\ PriorType'
    BY <1>20 DEF CancelPrior, TypeOK, SetsType, PriorType
  <2> QED
    BY <1>0, <1>20, <2>1, Frame, PartsNext DEF CancelPrior
<1>17. ASSUME NEW c \in Conn, Serve(c) PROVE TypeOK'
  <2>1. ConnType'
    BY <1>17, ReadEndsFact DEF Serve, SendTo, TypeOK, ConnType, Handlers
  <2>2. SetsType'
    BY <1>17 DEF Serve, SendTo, TypeOK, SetsType
  <2>3. PriorType'
    BY <1>17 DEF Serve, SendTo, TypeOK, PriorType
  <2> QED
    BY <1>0, <1>17, <2>1, <2>2, <2>3, Frame, PartsNext DEF Serve
<1>18. ASSUME NEW c \in Conn, EndStream(c) PROVE TypeOK'
  <2>1. ConnType'
    BY <1>18 DEF EndStream, Free, TypeOK, ConnType, Handlers
  <2>2. SetsType'
    BY <1>18 DEF EndStream, Release, TypeOK, SetsType
  <2>3. PriorType'
    BY <1>18 DEF EndStream, TypeOK, PriorType
  <2> QED
    BY <1>0, <1>18, <2>1, <2>2, <2>3, Frame, PartsNext DEF EndStream
<1>19. CASE UNCHANGED vars
  BY <1>0, <1>19, Frame, PartsNext DEF vars
<1> QED
  BY <1>1, <1>2, <1>3, <1>4, <1>5, <1>6, <1>7, <1>8, <1>9, <1>10, <1>11, <1>12, <1>13,
     <1>14, <1>15, <1>16, <1>17, <1>18, <1>19, <1>20 DEF Next

\* Type correctness: the loop's counters and positions stay within api_events,
\* and every handler's cursor does.
THEOREM TypeCorrect == Spec => []TypeOK
BY InitType, NextType, PTL DEF Spec

----------------------------------------------------------------------------
(* The installation's place *)

LEMMA PlaceStep == TypeOK /\ StreamKeepsPlace /\ [Next]_vars => StreamKeepsPlace'
<1> SUFFICES ASSUME TypeOK, StreamKeepsPlace, [Next]_vars, NEW d \in Conn,
                    conn'[d].stage = "open", d \notin Replaced'
             PROVE  holder' = d
  BY DEF StreamKeepsPlace
<1> USE DEF StreamKeepsPlace, Replaced, streamVars
<1>1. CASE UNCHANGED <<conn, prior, retired, holder>>
  BY <1>1
<1>2. ASSUME NEW c \in Conn, Open(c) \/ FirstRead(c) \/ Serve(c) PROVE holder' = d
  <2>1. (c # d => conn'[d] = conn[d]) /\ (c = d => conn[d].stage = "open")
    BY <1>2 DEF Open, FirstRead, Serve, SendTo, TypeOK
  <2>2. UNCHANGED <<prior, retired, holder>>
    BY <1>2 DEF Open, FirstRead, Serve
  <2> QED
    BY <2>1, <2>2
<1>3. ASSUME NEW c \in Conn, Admit(c) PROVE holder' = d
  <2>1. c # d => conn'[d] = conn[d]
    BY <1>3 DEF Admit, TypeOK
  <2>2. CASE c = d
    BY <1>3, <2>2 DEF Admit
  <2>3. CASE c # d
    <3>1. prior[c] = NoConn /\ retired' = retired /\ prior' = [prior EXCEPT ![c] = holder]
      BY <1>3 DEF Admit, TypeOK
    <3>2. prior'[c] = holder /\ \A b \in Conn : b # c => prior'[b] = prior[b]
      BY <3>1 DEF TypeOK
    <3>3. d \notin Replaced /\ d # holder
      BY <3>1, <3>2, FeedAssumption
    <3> QED
      BY <2>1, <2>3, <3>3
  <2> QED
    BY <2>2, <2>3
<1>4. ASSUME NEW c \in Conn, EndStream(c) PROVE holder' = d
  <2>1. c # d /\ conn'[d] = conn[d] /\ d \notin retired
    BY <1>4 DEF EndStream, Free, TypeOK
  <2>2. \A b \in Conn : prior[b] = d => prior'[b] = d
    BY <1>4, <2>1 DEF EndStream, TypeOK
  <2>3. d \notin Replaced
    BY <2>1, <2>2
  <2> QED
    BY <1>4, <2>1, <2>3 DEF EndStream, Release
<1>5. ASSUME NEW c \in Conn, CancelPrior(c) PROVE holder' = d
  <2>1. \A b \in Conn : prior[b] = d => d \in retired' \/ prior'[b] = d
    BY <1>5 DEF CancelPrior, TypeOK
  <2>2. retired \subseteq retired' /\ UNCHANGED <<conn, holder>>
    BY <1>5 DEF CancelPrior
  <2> QED
    BY <2>1, <2>2
<1> QED
  BY <1>1, <1>2, <1>3, <1>4, <1>5 DEF Next, vars, Commit, Retain, CountCommit, WakeLoop, Wait, Begin,
     Probe, Flush, Read, ReadFails, WakeReaders, TakeFlushWake, KeepPeerWake, loopVars, readVars

\* The stream admitted last keeps the installation's place: AdmitStream's release
\* compares before it deletes.
THEOREM PlaceIsKept == Spec => []StreamKeepsPlace
<1>1. Init => StreamKeepsPlace
  BY DEF Init, Free, StreamKeepsPlace
<1> QED
  BY <1>1, PlaceStep, TypeCorrect, PTL DEF Spec

----------------------------------------------------------------------------
(* The loop *)

Dirty == hints > 0 \/ Unread > 0
Watched == \E w \in Writer : writer[w] = "watched"
Counted == \E w \in Writer : writer[w] = "counted"

\* A commit other than the pass's own has yet to be announced, or is counted and
\* has woken the loop or is about to.
Peer == Watched \/ (since > Own /\ (signal \/ Counted))

\* What each stage of the pass may leave behind it.
LoopInv ==
    /\ since >= Own
    /\ pass.at \in {"read", "wake"} /\ hints > 0 => Peer \/ pass.count = FlushLimit
    /\ pass.at = "wake" /\ Unread > 0 => Peer \/ pass.read = ReadLimit
    /\ pass.at = "retire" /\ Dirty => Peer
    /\ pass.at = "check" /\ Dirty => Watched \/ since > Own
    /\ pass.at = "wait" /\ Dirty => signal \/ Watched \/ Counted

LEMMA OwnFact == Own \in {0, 1} /\ (Own = 1 <=> pass.count > 0)
BY DEF Own

LEMMA LoopStep == TypeOK /\ LoopInv /\ [Next]_vars => LoopInv'
<1> SUFFICES ASSUME TypeOK, LoopInv, [Next]_vars PROVE LoopInv'
  OBVIOUS
<1> USE DEF ringVars, readVars, loopVars, streamVars
<1>0. /\ hints \in Nat /\ since \in Nat /\ Own \in {0, 1} /\ Unread \in Nat
      /\ since >= Own
  BY UnreadFact, OwnFact DEF TypeOK, LoopInv
<1>1. ASSUME NEW w \in Writer, Commit(w) \/ Retain(w) PROVE LoopInv'
  <2>1. Watched' \/ UNCHANGED <<ringVars, hints, signal, Watched, Counted>>
    <3>1. writer' = [writer EXCEPT ![w] = "watched"] => Watched'
      BY DEF Watched, TypeOK
    <3>2. writer' = [writer EXCEPT ![w] = "unwatched"] /\ writer[w] = "idle"
          => UNCHANGED <<Watched, Counted>>
      BY DEF Watched, Counted, TypeOK
    <3> QED
      BY <1>1, <3>1, <3>2 DEF Commit, Retain
  <2>2. UNCHANGED <<since, pass, after>> /\ Own' = Own
    BY <1>1 DEF Commit, Retain, Own
  <2>3. CASE Watched'
    BY <1>0, <2>2, <2>3 DEF LoopInv, Peer
  <2>4. CASE UNCHANGED <<ringVars, hints, signal, Watched, Counted>>
    <3>1. UNCHANGED <<Unread, Dirty, Peer>>
      BY <2>2, <2>4 DEF Unread, From, Dirty, Peer
    <3> QED
      BY <2>2, <2>4, <3>1 DEF LoopInv
  <2> QED
    BY <2>1, <2>3, <2>4
<1>2. ASSUME NEW w \in Writer, CountCommit(w) PROVE LoopInv'
  <2>1. UNCHANGED <<top, low, hints, after, pass, signal>> /\ since' = since + 1
    BY <1>2 DEF CountCommit
  <2>2. UNCHANGED <<Own, Unread, Dirty>>
    BY <2>1 DEF Own, Unread, From, Dirty
  <2>3. (Watched => Watched' \/ Counted') /\ (Counted => Counted')
    BY <1>2 DEF CountCommit, Watched, Counted, TypeOK
  <2> QED
    BY <1>0, <2>1, <2>2, <2>3 DEF LoopInv, Peer
<1>3. ASSUME NEW w \in Writer, WakeLoop(w) PROVE LoopInv'
  <2>1. UNCHANGED <<top, low, hints, after, pass, since>> /\ signal'
    BY <1>3 DEF WakeLoop
  <2>2. UNCHANGED <<Own, Unread, Dirty>>
    BY <2>1 DEF Own, Unread, From, Dirty
  <2>3. Watched => Watched'
    BY <1>3 DEF WakeLoop, Watched, TypeOK
  <2> QED
    BY <1>0, <2>1, <2>2, <2>3 DEF LoopInv, Peer
<1>4. CASE Wait \/ Begin \/ ReadFails
  <2>1. pass'.at \in {"begin", "probe", "sleep"} /\ pass'.count = 0 /\ since' \in Nat
    BY <1>0, <1>4 DEF Wait, Begin, ReadFails, Idle
  <2> QED
    BY <2>1 DEF LoopInv, Own
<1>5. CASE Probe
  <2>1. pass'.at = "flush" \/ (pass'.at = "read" /\ hints' = 0)
    BY <1>0, <1>5 DEF Probe, TypeOK
  <2>2. UNCHANGED <<since, Own>>
    BY <1>5 DEF Probe, Own, TypeOK
  <2> QED
    BY <1>0, <2>1, <2>2 DEF LoopInv
<1>6. CASE Flush
  <2>1. pass'.at = "read" /\ pass'.count = Min2(hints, FlushLimit)
        /\ hints' = hints - Min2(hints, FlushLimit) /\ since' = since + 1
    BY <1>6 DEF Flush, TypeOK
  <2>2. hints' > 0 => pass'.count = FlushLimit
    BY <1>0, <2>1, FeedAssumption DEF Min2
  <2>3. since' >= Own'
    BY <1>0, <2>1 DEF Own
  <2> QED
    BY <2>1, <2>2, <2>3 DEF LoopInv
<1>7. CASE Read
  <2> DEFINE n == Min2(Unread, ReadLimit)
  <2>1. n \in Nat /\ n <= Unread /\ n <= ReadLimit /\ (n = Unread \/ n = ReadLimit)
    BY <1>0, FeedAssumption DEF Min2
  <2>2. pass'.at = "wake" /\ pass'.read = n /\ pass'.count = pass.count /\ pass.at = "read"
        /\ after' = IF n = 0 THEN after ELSE From + n - 1
    BY <1>7 DEF Read, TypeOK
  <2>3. UNCHANGED <<top, low, hints, since, signal, writer>>
    BY <1>7 DEF Read
  <2> HIDE DEF n
  <2>4. Unread' = Unread - n
    BY <2>1, <2>2, <2>3, UnreadFact DEF Unread, From, TypeOK
  <2>5. Unread' > 0 => pass'.read = ReadLimit
    BY <1>0, <2>1, <2>2, <2>4
  <2>6. UNCHANGED <<Own, Peer>>
    BY <2>2, <2>3 DEF Own, Peer, Watched, Counted
  <2>7. hints' > 0 => Peer' \/ pass'.count = FlushLimit
    BY <2>2, <2>3, <2>6 DEF LoopInv
  <2> QED
    BY <1>0, <2>2, <2>3, <2>5, <2>6, <2>7 DEF LoopInv
<1>8. CASE WakeReaders
  <2>1. UNCHANGED <<top, low, hints, after, since, signal, writer>> /\ pass.at = "wake"
    BY <1>8 DEF WakeReaders
  <2>2. CASE pass' = [Idle EXCEPT !.at = "sleep"]
    BY <1>0, <2>1, <2>2 DEF LoopInv, Own, Idle
  <2>3. CASE pass.count # FlushLimit /\ pass.read # ReadLimit /\ pass' = [pass EXCEPT !.at = "retire"]
    <3>1. pass'.at = "retire" /\ pass'.count = pass.count
      BY <2>3 DEF TypeOK
    <3>2. UNCHANGED <<Own, Unread, Dirty, Peer>>
      BY <2>1, <3>1 DEF Own, Unread, From, Dirty, Peer, Watched, Counted
    <3> QED
      BY <1>0, <2>1, <2>3, <3>1, <3>2 DEF LoopInv, Dirty
  <2> QED
    BY <1>8, <2>2, <2>3 DEF WakeReaders
<1>9. CASE TakeFlushWake
  <2>1. UNCHANGED <<top, low, hints, after, since, writer>> /\ pass.at = "retire"
    BY <1>9 DEF TakeFlushWake
  <2>2. UNCHANGED <<Unread, Dirty, Watched, Counted>>
    BY <2>1 DEF Unread, From, Dirty, Watched, Counted
  <2>3. CASE signal
    <3>1. pass'.at = "check" /\ Own' = Own
      BY <1>9, <2>3 DEF TakeFlushWake, Own, TypeOK
    <3> QED
      BY <1>0, <2>1, <2>2, <3>1 DEF LoopInv, Peer
  <2>4. CASE ~signal
    <3>1. pass'.at = "wait" /\ pass'.count = 0
      BY <1>9, <2>4 DEF TakeFlushWake, Idle
    <3> QED
      BY <1>0, <2>1, <2>2, <2>4, <3>1 DEF LoopInv, Peer, Own
  <2> QED
    BY <2>3, <2>4
<1>10. CASE KeepPeerWake
  <2>1. UNCHANGED <<top, low, hints, after, since, writer>> /\ pass.at = "check"
    BY <1>10 DEF KeepPeerWake
  <2>2. UNCHANGED <<Unread, Dirty, Watched, Counted>>
    BY <2>1 DEF Unread, From, Dirty, Watched, Counted
  <2>3. pass'.at = "wait" /\ pass'.count = 0
    BY <1>10 DEF KeepPeerWake, Idle
  <2>4. since > Own => signal'
    BY <1>0, <1>10 DEF KeepPeerWake
  <2> QED
    BY <1>0, <2>1, <2>2, <2>3, <2>4 DEF LoopInv, Own
<1>11. CASE UNCHANGED <<ringVars, hints, writer, loopVars>>
  <2>1. UNCHANGED <<Own, Unread, Dirty, Peer, Watched, Counted>>
    BY <1>11 DEF Own, Unread, From, Dirty, Peer, Watched, Counted
  <2> QED
    BY <1>11, <2>1 DEF LoopInv
<1> QED
  BY <1>1, <1>2, <1>3, <1>4, <1>5, <1>6, <1>7, <1>8, <1>9, <1>10, <1>11
     DEF Next, vars, Open, FirstRead, Admit, CancelPrior, Serve, EndStream

LEMMA LoopAlways == Spec => []LoopInv
<1>1. Init => LoopInv
  BY DEF Init, LoopInv, Own, Idle
<1> QED
  BY <1>1, LoopStep, TypeCorrect, PTL DEF Spec

LEMMA LoopSound == TypeOK /\ LoopInv => NothingLeftBehind
<1> SUFFICES ASSUME TypeOK, LoopInv, Quiet PROVE hints = 0 /\ Unread = 0
  BY DEF NothingLeftBehind
<1>1. ~Dirty
  BY DEF LoopInv, Quiet, Watched, Counted
<1> QED
  BY <1>1, UnreadFact DEF Dirty, TypeOK

\* When the loop sleeps, every hint has been published and every row read: the
\* wake retireOwnFlushWake keeps for itself is never a peer's.
THEOREM LoopLeavesNothing == Spec => []NothingLeftBehind
BY LoopAlways, LoopSound, TypeCorrect, PTL

----------------------------------------------------------------------------
(* The streams *)

\* Every row the loop has read and a stream is to show: the stream will read
\* again, or the loop is about to wake it, or the pass that read the row failed.
Owed(c) ==
    \A e \in Visible(conn[c].pos) :
        e <= after => \/ e \in missed \/ c \in woken \cup cut \cup retired
                      \/ conn[c].stage = "asked"
                      \/ pass.at = "wake" /\ pass.found # {}

WakeInv == \A c \in Conn : Subscribed(c) => Owed(c)

LEMMA WakeStep == TypeOK /\ WakeInv /\ [Next]_vars => WakeInv'
<1> SUFFICES ASSUME TypeOK, WakeInv, [Next]_vars, NEW d \in Conn, Subscribed(d)',
                    NEW e \in Visible(conn[d].pos)', e <= after'
             PROVE  \/ e \in missed' \/ d \in woken' \cup cut' \cup retired'
                    \/ conn'[d].stage = "asked"
                    \/ pass'.at = "wake" /\ pass'.found # {}
  BY DEF WakeInv, Owed
<1> DEFINE Goal == \/ e \in missed' \/ d \in woken' \cup cut' \cup retired'
                   \/ conn'[d].stage = "asked"
                   \/ pass'.at = "wake" /\ pass'.found # {}
<1> USE DEF ringVars, readVars, loopVars, streamVars
<1>0. e \in mine' /\ e >= low' /\ e <= top' /\ e > conn'[d].pos /\ e \in Int
  BY NextType DEF Visible, Behind, Ring, TypeOK
<1>1. ASSUME UNCHANGED <<conn, woken, cut, retired, missed, after, pass>>,
             top' >= top, low' >= low, mine' \cap (1..top) \subseteq mine
      PROVE  Goal
  <2>1. top \in Nat /\ low \in Nat /\ low >= 1 /\ low' \in Nat /\ after \in Nat /\ after <= top
    BY NextType DEF TypeOK
  <2>2. e \in low..top /\ e \in 1..top
    BY <1>0, <1>1, <2>1
  <2>3. e \in mine /\ e > conn[d].pos
    BY <1>0, <1>1, <2>2
  <2>4. e \in Visible(conn[d].pos) /\ Subscribed(d)
    BY <1>1, <2>2, <2>3 DEF Visible, Behind, Ring, Subscribed
  <2> QED
    BY <1>1, <2>4 DEF WakeInv, Owed
<1>2. ASSUME NEW w \in Writer, Commit(w) \/ Retain(w) PROVE Goal
  BY <1>1, <1>2 DEF Commit, Retain, AppendEvent, Trim, TypeOK
<1>3. ASSUME NEW w \in Writer, CountCommit(w) \/ WakeLoop(w) PROVE Goal
  BY <1>1, <1>3 DEF CountCommit, WakeLoop, TypeOK
<1>4. ASSUME UNCHANGED <<ringVars, streamVars, missed, after>>,
             pass.at # "wake" \/ pass.found = {}
      PROVE  Goal
  <2>1. e \in Visible(conn[d].pos) /\ Subscribed(d)
    BY <1>0, <1>4 DEF Visible, Behind, Ring, TypeOK, Subscribed
  <2> QED
    BY <1>4, <2>1 DEF WakeInv, Owed
<1>5. CASE Wait \/ Begin \/ Probe \/ TakeFlushWake \/ KeepPeerWake
  BY <1>4, <1>5 DEF Wait, Begin, Probe, TakeFlushWake, KeepPeerWake
<1>6. CASE Flush
  <2>1. Min2(hints, FlushLimit) \in Nat
    BY FeedAssumption DEF TypeOK, Min2
  <2>2. e \in Visible(conn[d].pos) /\ Subscribed(d)
    <3>1. UNCHANGED <<low, conn, after>>
      BY <1>6 DEF Flush
    <3>2. e <= top
      BY <1>0, <3>1 DEF TypeOK
    <3>3. PICK shown \in SUBSET (top + 1..top + Min2(hints, FlushLimit)) : mine' = mine \cup shown
      BY <1>6 DEF Flush
    <3>4. e \in mine
      BY <1>0, <2>1, <3>2, <3>3 DEF TypeOK
    <3> QED
      BY <1>0, <3>1, <3>2, <3>4 DEF Visible, Behind, Ring, Subscribed
  <2> QED
    BY <1>6, <2>2 DEF Flush, WakeInv, Owed
<1>7. CASE Read
  <2> DEFINE n == Min2(Unread, ReadLimit)
  <2>1. n \in Nat
    BY UnreadFact, FeedAssumption DEF Min2
  <2>2. e \in Visible(conn[d].pos) /\ Subscribed(d)
    BY <1>0, <1>7 DEF Read, Visible, Behind, Ring, TypeOK, Subscribed
  <2>3. CASE e <= after
    BY <1>7, <2>2, <2>3 DEF Read, WakeInv, Owed
  <2>4. CASE e > after
    <3>1. e >= From /\ e <= From + n - 1
      BY <1>0, <1>7, <2>2, <2>4, UnreadFact DEF Read, Visible, Behind, Ring, TypeOK
    <3>2. pass'.at = "wake" /\ pass'.found = mine \cap (From..From + n - 1) /\ mine' = mine
      BY <1>7 DEF Read, TypeOK
    <3>3. From \in Int
      BY UnreadFact
    <3> HIDE DEF n
    <3> QED
      BY <1>0, <2>1, <3>1, <3>2, <3>3
  <2> QED
    BY <1>0, <2>3, <2>4 DEF TypeOK
<1>8. CASE ReadFails
  <2>1. e \in Visible(conn[d].pos) /\ Subscribed(d)
    BY <1>0, <1>8 DEF ReadFails, Visible, Behind, Ring, TypeOK, Subscribed
  <2>2. CASE e <= after
    BY <1>8, <2>1, <2>2 DEF ReadFails, WakeInv, Owed
  <2>3. CASE e > after
    <3>1. e >= From
      BY <1>0, <2>1, <2>3, UnreadFact DEF Visible, Behind
    <3>2. missed' = missed \cup (From..after')
      BY <1>0, <1>8, <2>3, UnreadFact, FeedAssumption DEF ReadFails, TypeOK, Min2
    <3>3. after' \in Int /\ From \in Int
      BY NextType, UnreadFact DEF TypeOK
    <3> QED
      BY <1>0, <3>1, <3>2, <3>3
  <2> QED
    BY <1>0, <2>2, <2>3 DEF TypeOK
<1>9. CASE WakeReaders
  <2>1. Subscribed(d)
    BY <1>9 DEF WakeReaders, Subscribed
  <2>2. CASE WakeAll
    BY <2>1, <2>2 DEF WakeAll
  <2>3. CASE pass.found = {} /\ UNCHANGED woken
    BY <1>4, <1>9, <2>3 DEF WakeReaders
  <2> QED
    BY <1>9, <2>2, <2>3 DEF WakeReaders
<1>10. ASSUME NEW c \in Conn, c # d,
              \/ Open(c) \/ FirstRead(c) \/ Admit(c) \/ Serve(c)
              \/ EndStream(c)
       PROVE  Goal
  <2>1. conn'[d] = conn[d] /\ UNCHANGED <<top, low, mine, after, missed, pass>>
    BY <1>10 DEF Open, FirstRead, Admit, Serve, EndStream, SendTo, TypeOK
  <2>2. d \in woken \cup cut \cup retired => d \in woken' \cup cut' \cup retired'
    BY <1>10 DEF Open, FirstRead, Admit, Serve, EndStream, SendTo
  <2>3. e \in Visible(conn[d].pos) /\ Subscribed(d)
    BY <1>0, <2>1 DEF Visible, Behind, Ring, TypeOK, Subscribed
  <2> QED
    BY <2>1, <2>2, <2>3 DEF WakeInv, Owed
<1>11. CASE Open(d) \/ EndStream(d)
  <2>1. CASE Open(d)
    BY <2>1 DEF Open, TypeOK
  <2>2. CASE EndStream(d)
    BY <2>2 DEF EndStream, Free, Subscribed, TypeOK
  <2> QED
    BY <1>11, <2>1, <2>2
<1>12. ASSUME NEW stage, NEW end \in ReadEnds(conn[d].pos), SendTo(d, stage, end),
              UNCHANGED ringVars
       PROVE  Goal
  <2>1. CASE end = top
    <3>1. conn'[d].pos = top
      BY <1>12, <2>1 DEF SendTo, TypeOK
    <3> QED
      BY <1>0, <1>12, <3>1 DEF TypeOK
  <2>2. CASE end # top
    <3>1. end \in 0..top /\ top \in Nat
      BY <1>12, ReadEndsFact DEF TypeOK
    <3>2. end < top
      BY <2>2, <3>1
    <3>3. d \in cut'
      BY <1>12, <3>2 DEF SendTo
    <3> QED
      BY <3>3
  <2> QED
    BY <2>1, <2>2
<1>13. CASE FirstRead(d)
  BY <1>12, <1>13 DEF FirstRead
<1>14. CASE Serve(d)
  <2>1. CASE d \in woken \cap cut /\ UNCHANGED cut
    BY <2>1
  <2>2. ASSUME NEW end \in ReadEnds(conn[d].pos), SendTo(d, "open", end) PROVE Goal
    BY <1>12, <1>14, <2>2 DEF Serve
  <2> QED
    BY <1>14, <2>1, <2>2 DEF Serve
<1>15. CASE Admit(d)
  <2>1. conn[d].stage = "read" /\ conn'[d].pos = conn[d].pos
        /\ UNCHANGED <<top, low, mine, after, missed, pass, woken, cut>> /\ retired \subseteq retired'
    BY <1>15 DEF Admit, TypeOK
  <2>2. e \in Visible(conn[d].pos) /\ Subscribed(d)
    BY <1>0, <2>1 DEF Visible, Behind, Ring, TypeOK, Subscribed
  <2> QED
    BY <2>1, <2>2 DEF WakeInv, Owed
<1>16. CASE UNCHANGED vars
  BY <1>1, <1>16 DEF vars, TypeOK
<1>17. ASSUME NEW c \in Conn, CancelPrior(c) PROVE Goal
  <2>1. UNCHANGED <<conn, top, low, mine, after, missed, pass, woken, cut>>
        /\ retired \subseteq retired'
    BY <1>17 DEF CancelPrior
  <2>2. e \in Visible(conn[d].pos) /\ Subscribed(d)
    BY <1>0, <2>1 DEF Visible, Behind, Ring, TypeOK, Subscribed
  <2> QED
    BY <2>1, <2>2 DEF WakeInv, Owed
<1> QED
  BY <1>2, <1>3, <1>5, <1>6, <1>7, <1>8, <1>9, <1>10, <1>11, <1>13, <1>14, <1>15, <1>16, <1>17
     DEF Next

LEMMA WakeAlways == Spec => []WakeInv
<1>1. Init => WakeInv
  BY DEF Init, WakeInv, Free, Subscribed
<1> QED
  BY <1>1, WakeStep, TypeCorrect, PTL DEF Spec

LEMMA WakeSound == TypeOK /\ NothingLeftBehind /\ WakeInv => NoLostWake
<1> SUFFICES ASSUME TypeOK, NothingLeftBehind, WakeInv, NEW c \in Conn, Quiet, Asleep(c),
                    NEW e \in Visible(conn[c].pos)
             PROVE  e \in missed
  BY DEF NoLostWake
<1>1. Unread = 0
  BY DEF NothingLeftBehind
<1>2. e <= after
  BY <1>1, UnreadFact DEF Visible, Behind, Ring, Unread, From, TypeOK
<1> QED
  BY <1>2 DEF WakeInv, Owed, Quiet, Asleep, Subscribed

\* No stream sleeps on an event it has yet to send, however commits, passes and
\* its own subscription and pages interleave, unless the loop's read of it failed.
THEOREM NoStreamOversleeps == Spec => []NoLostWake
BY WakeAlways, WakeSound, LoopLeavesNothing, TypeCorrect, PTL

----------------------------------------------------------------------------
(* The readers that only others' events pass by *)

\* A pass that ends has woken everyone within LagWake rows, and a stream with
\* nothing to do has read a page since.
CloseInv ==
    /\ pass.at \in {"retire", "check", "wait"} => started /\ after - everyone < LagWake
    /\ \A c \in Conn : conn[c].stage \in {"read", "open"} /\ c \notin woken \cup cut \cup retired
                           => conn[c].pos >= everyone

LEMMA CloseStep == TypeOK /\ CloseInv /\ [Next]_vars => CloseInv'
<1> SUFFICES ASSUME TypeOK, CloseInv, [Next]_vars PROVE CloseInv'
  OBVIOUS
<1> USE DEF ringVars, readVars, loopVars, streamVars
<1>1. (pass.at \in {"retire", "check", "wait"} => started /\ after - everyone < LagWake)'
  <2>1. CASE UNCHANGED <<pass, readVars>>
    BY <2>1 DEF CloseInv
  <2>2. CASE Wait \/ Begin \/ Probe \/ Flush \/ Read \/ ReadFails
    BY <2>2 DEF Wait, Begin, Probe, Flush, Read, ReadFails, Idle, TypeOK
  <2>3. CASE WakeReaders
    <3>1. CASE everyone' = after /\ started' = TRUE
      BY <2>3, <3>1, FeedAssumption DEF WakeReaders, TypeOK
    <3>2. CASE started /\ ~(after - everyone >= LagWake) /\ UNCHANGED <<started, everyone>>
      BY <2>3, <3>2, FeedAssumption DEF WakeReaders, TypeOK
    <3> QED
      BY <2>3, <3>1, <3>2 DEF WakeReaders
  <2>4. CASE TakeFlushWake \/ KeepPeerWake
    BY <2>4 DEF TakeFlushWake, KeepPeerWake, CloseInv
  <2> QED
    BY <2>1, <2>2, <2>3, <2>4 DEF Next, vars, Commit, Retain, CountCommit, WakeLoop,
       Open, FirstRead, Admit, CancelPrior, Serve, EndStream
<1>2. ASSUME NEW d \in Conn, conn'[d].stage \in {"read", "open"},
             d \notin woken' \cup cut' \cup retired'
      PROVE  conn'[d].pos >= everyone'
  <2>0. conn[d].stage \in {"read", "open"} /\ d \notin woken \cup cut \cup retired
        => conn[d].pos >= everyone
    BY DEF CloseInv
  <2>1. CASE UNCHANGED <<everyone, streamVars>>
    BY <1>2, <2>0, <2>1
  <2>2. CASE WakeReaders
    <3>1. CASE WakeAll
      BY <1>2, <2>2, <3>1 DEF WakeReaders, WakeAll, Subscribed
    <3>2. CASE UNCHANGED <<everyone, woken>>
      BY <1>2, <2>0, <2>2, <3>2 DEF WakeReaders
    <3> QED
      BY <2>2, <3>1, <3>2 DEF WakeReaders
  <2>3. ASSUME NEW stage, NEW end \in ReadEnds(conn[d].pos), SendTo(d, stage, end),
               UNCHANGED <<top, everyone>>
        PROVE  conn'[d].pos >= everyone'
    <3>1. end \in 0..top /\ top \in Nat /\ everyone \in Nat /\ everyone <= top
      BY ReadEndsFact DEF TypeOK
    <3>2. end = top
      BY <1>2, <2>3, <3>1 DEF SendTo
    <3> QED
      BY <2>3, <3>1, <3>2 DEF SendTo, TypeOK
  <2>4. CASE FirstRead(d)
    BY <2>3, <2>4 DEF FirstRead
  <2>5. CASE Serve(d)
    <3>1. CASE d \in woken \cap cut /\ UNCHANGED cut
      BY <1>2, <3>1
    <3>2. ASSUME NEW end \in ReadEnds(conn[d].pos), SendTo(d, "open", end)
          PROVE  conn'[d].pos >= everyone'
      BY <2>3, <2>5, <3>2 DEF Serve
    <3> QED
      BY <2>5, <3>1, <3>2 DEF Serve
  <2>6. CASE Open(d) \/ EndStream(d)
    BY <1>2, <2>6 DEF Open, EndStream, Free, TypeOK
  <2>7. CASE Admit(d)
    BY <1>2, <2>0, <2>7 DEF Admit, TypeOK
  <2>8. ASSUME NEW c \in Conn, c # d,
               Open(c) \/ FirstRead(c) \/ Admit(c) \/ Serve(c) \/ EndStream(c)
        PROVE  conn'[d].pos >= everyone'
    <3>1. conn'[d] = conn[d] /\ UNCHANGED everyone
      BY <2>8 DEF Open, FirstRead, Admit, Serve, EndStream, SendTo, TypeOK
    <3>2. d \in woken \cup cut \cup retired => d \in woken' \cup cut' \cup retired'
      BY <2>8 DEF Open, FirstRead, Admit, Serve, EndStream, SendTo
    <3> QED
      BY <1>2, <2>0, <3>1, <3>2
  <2>9. ASSUME NEW c \in Conn, CancelPrior(c) PROVE conn'[d].pos >= everyone'
    <3>1. UNCHANGED <<conn, woken, cut, everyone>> /\ retired \subseteq retired'
      BY <2>9 DEF CancelPrior
    <3> QED
      BY <1>2, <2>0, <3>1
  <2> QED
    BY <2>1, <2>2, <2>4, <2>5, <2>6, <2>7, <2>8, <2>9 DEF Next, vars, Commit, Retain, CountCommit,
       WakeLoop, Wait, Begin, Probe, Flush, Read, ReadFails, TakeFlushWake, KeepPeerWake
<1> QED
  BY <1>1, <1>2 DEF CloseInv

LEMMA CloseAlways == Spec => []CloseInv
<1>1. Init => CloseInv
  BY DEF Init, CloseInv, Free, Idle
<1> QED
  BY <1>1, CloseStep, TypeCorrect, PTL DEF Spec

LEMMA CloseSound == TypeOK /\ NothingLeftBehind /\ CloseInv => QuietStreamIsClose
<1> SUFFICES ASSUME TypeOK, NothingLeftBehind, CloseInv, NEW c \in Conn, Quiet, Asleep(c)
             PROVE  Cardinality(Behind(conn[c].pos)) < LagWake
  BY DEF QuietStreamIsClose
<1> DEFINE B == Behind(conn[c].pos)
           I == everyone + 1..after
<1>1. everyone \in Nat /\ after \in Nat /\ everyone <= after /\ conn[c].pos \in Nat
      /\ top \in Nat /\ low \in Nat /\ LagWake \in Nat
  BY FeedAssumption DEF TypeOK
<1>2. after - everyone < LagWake /\ conn[c].pos >= everyone
  BY DEF CloseInv, Quiet, Asleep
<1>3. B \subseteq I
  <2>1. Unread = 0
    BY DEF NothingLeftBehind
  <2> QED
    BY <1>1, <1>2, <2>1, UnreadFact DEF Behind, Ring, Unread, From
<1>4. IsFiniteSet(I) /\ Cardinality(I) = after - everyone
  <2>1. everyone + 1 \in Int /\ after \in Int
    BY <1>1
  <2>2. IsFiniteSet(I)
        /\ Cardinality(I) = IF everyone + 1 > after THEN 0 ELSE after - (everyone + 1) + 1
    BY <2>1, FS_Interval
  <2> QED
    BY <1>1, <2>2
<1>5. IsFiniteSet(B) /\ Cardinality(B) <= Cardinality(I)
  BY <1>3, <1>4, FS_Subset
<1>6. Cardinality(B) \in Nat
  BY <1>5, FS_CardinalityType
<1> QED
  BY <1>1, <1>2, <1>4, <1>5, <1>6

\* A stream that only others' events pass by stays within LagWake rows of the
\* newest, so its next page is never a resync for that reason.
THEOREM QuietStreamsStayClose == Spec => []QuietStreamIsClose
BY CloseAlways, CloseSound, LoopLeavesNothing, TypeCorrect, PTL

=============================================================================
