------------------------- MODULE SharedStreamProofs -------------------------
(***************************************************************************)
(* What the windows of a browser miss, for any number of windows, events   *)
(* and budgets.                                                            *)
(*                                                                         *)
(* The argument follows an event from the ring through the stream and the  *)
(* inboxes.  The frames on their way to the leader show everything between *)
(* where it stands and where the stream does (StreamOK).  What is in an    *)
(* inbox vouches for every event up to the position it brings, once a      *)
(* leader has greeted the window (Complete): the events are known, or come *)
(* earlier in the inbox, or lie before a greeting, which the window either *)
(* stands at, or answers by fetching its state, or is passed by.           *)
(***************************************************************************)
EXTENDS SharedStream, FiniteSetTheorems, TLAPS

Modes == {"stopped", "idle", "follow", "lead", "closed"}
FrameKinds == {"event", "position", "resync", "closed"}

TabRecord ==
    [mode : Modes, cursor : Nat, begin : Nat, last : Nat, greeted : BOOLEAN, fails : Nat,
     early : BOOLEAN, passed : BOOLEAN, skipped : BOOLEAN]
FrameRecord == {f \in [kind : FrameKinds, id : Nat] : f.kind = "event" => f.id # 0}
MessageRecord ==
    {m \in [kind : {"event", "open", "lost", "who"}, id : Nat, of : FrameKinds \cup {"none"}] :
        m.of = "event" => m.id # 0}
StreamRecord == [pos : Nat, out : Seq(FrameRecord), asked : BOOLEAN]

\* Nothing in an inbox or on the stream is from beyond the ring's newest row.
Types ==
    /\ top \in Nat /\ low \in 1..top + 1 /\ mine \subseteq 1..top
    /\ stream \in StreamRecord /\ stream.pos <= top
    /\ \A i \in DOMAIN stream.out : stream.out[i].id <= top
    /\ lock \in Tab \cup {NoTab}
    /\ tab \in [Tab -> TabRecord]
    /\ inbox \in [Tab -> Seq(MessageRecord)]
    /\ known \in [Tab -> SUBSET Nat]

\* A window within a ring of n rows; one that listens stands where it last heard.
Placed(r, K, box, n) ==
    /\ r.cursor <= n /\ r.begin <= n /\ r.last <= n /\ K \subseteq 1..n
    /\ \A i \in DOMAIN box : box[i].id <= n
    /\ IF r.mode \in {"follow", "lead"} THEN r.last = r.cursor ELSE box = <<>>

----------------------------------------------------------------------------

Clean(r) == ~r.early /\ ~r.passed /\ ~r.skipped

\* Every event of M up to n is in K.
Knows(K, M, n) == \A e \in M : e <= n => e \in K

\* A window that hears m knows e, or has been passed by.
VouchesFor(m, e) ==
    \/ m.kind = "event" /\ m.of = "event" /\ m.id = e
    \/ m.kind = "event" /\ m.of = "resync"
    \/ m.kind = "open" /\ m.id >= e

Vouched(K, box, n, e) == e \in K \/ \E j \in 1..n : VouchesFor(box[j], e)

\* A leader has greeted the window when it has heard the first n messages.
Told(greeted, box, n) == greeted \/ \E j \in 1..n : box[j].kind = "open"

\* The first n messages vouch for every event up to a position.
Complete(K, M, greeted, box, n, id) ==
    Told(greeted, box, n) => \A e \in M : e <= id => Vouched(K, box, n, e)

BoxOK(K, M, greeted, box) ==
    \A i \in 1..Len(box) : Complete(K, M, greeted, box, i, box[i].id)

\* `at' is where the leader stands, -1 when there is none.
FollowOK(r, K, M, box, at) ==
    /\ Knows(K, M, r.begin)
    /\ BoxOK(K, M, r.greeted, box)
    /\ Complete(K, M, r.greeted, box, Len(box), at)

WindowOK(r, K, M, box, at) ==
    Clean(r) => /\ Knows(K, M, r.cursor)
                /\ r.mode = "follow" => FollowOK(r, K, M, box, at)

LeaderAt == IF lock = NoTab THEN -1 ELSE tab[lock].last

Shows(f, e) == \/ f.kind = "event" /\ f.id = e
               \/ f.kind = "resync" /\ f.id >= e

\* The frames of a stream at `pos' that a leader at `last' has yet to receive: in
\* order, from beyond where it stands, and with every event in between.
StreamOK(last, M, pos, out) ==
    /\ last <= pos
    /\ \A i \in DOMAIN out :
          /\ out[i].kind \in {"closed", "resync"} => Len(out) = 1
          /\ out[i].kind = "closed" => out[i].id = 0
          /\ out[i].kind # "closed" => last <= out[i].id /\ out[i].id <= pos
    /\ \A i, j \in DOMAIN out : i < j => out[i].id < out[j].id
    /\ \A e \in M : last < e /\ e <= pos => \E j \in DOMAIN out : Shows(out[j], e)

FeedInv ==
    /\ Types
    /\ \A t \in Tab : /\ Placed(tab[t], known[t], inbox[t], top)
                      /\ tab[t].mode = "lead" <=> lock = t
                      /\ WindowOK(tab[t], known[t], mine, inbox[t], LeaderAt)
    /\ lock # NoTab => StreamOK(LeaderAt, mine, stream.pos, stream.out)

----------------------------------------------------------------------------
(* Inboxes.  K is what a window knows, M the events there are.              *)

\* What a greater part of an inbox vouches for.
LEMMA VouchedMore ==
    ASSUME NEW K, NEW L, K \subseteq L, NEW box \in Seq(MessageRecord), NEW m \in MessageRecord,
           NEW n \in 0..Len(box), NEW e, Vouched(K, box, n, e)
    PROVE  /\ Vouched(L, Append(box, m), n, e)
           /\ Vouched(L, Append(box, m), Len(box) + 1, e)
<1>1. Len(box) \in Nat /\ \A j \in 1..n : j \in 1..Len(box) + 1 /\ Append(box, m)[j] = box[j]
  OBVIOUS
<1> QED BY <1>1 DEF Vouched

\* An appended message greets nobody unless it is a greeting.
LEMMA ToldSame ==
    ASSUME NEW greeted \in BOOLEAN, NEW box \in Seq(MessageRecord), NEW m \in MessageRecord,
           NEW n \in 0..Len(box)
    PROVE  /\ Told(greeted, Append(box, m), n) <=> Told(greeted, box, n)
           /\ m.kind # "open" => (Told(greeted, Append(box, m), Len(box) + 1)
                                    <=> Told(greeted, box, Len(box)))
<1>1. Len(box) \in Nat /\ Append(box, m)[Len(box) + 1] = m
      /\ \A j \in 1..Len(box) : Append(box, m)[j] = box[j]
  OBVIOUS
<1>2. \A j \in 1..Len(box) + 1 : j = Len(box) + 1 \/ j \in 1..Len(box)
  BY <1>1
<1>3. \A j \in 1..Len(box) : j \in 1..Len(box) + 1
  BY <1>1
<1>4. \A j \in 1..n : j \in 1..Len(box)
  BY <1>1
<1>5. Told(greeted, Append(box, m), n) <=> Told(greeted, box, n)
  BY <1>1, <1>4 DEF Told
<1>6. m.kind # "open" => (Told(greeted, Append(box, m), Len(box) + 1)
                                    <=> Told(greeted, box, Len(box)))
  BY <1>1, <1>2, <1>3 DEF Told
<1> QED BY <1>5, <1>6

\* A message that brings no more than it vouches for leaves an inbox in order.
LEMMA BoxAppend ==
    ASSUME NEW K, NEW M, NEW greeted \in BOOLEAN, NEW box \in Seq(MessageRecord),
           NEW m \in MessageRecord, BoxOK(K, M, greeted, box),
           Complete(K, M, greeted, Append(box, m), Len(box) + 1, m.id)
    PROVE  BoxOK(K, M, greeted, Append(box, m))
<1> DEFINE new == Append(box, m)
<1>1. /\ Len(box) \in Nat /\ Len(new) = Len(box) + 1 /\ new[Len(box) + 1] = m
      /\ \A i \in 1..Len(box) : new[i] = box[i]
  OBVIOUS
<1>2. ASSUME NEW i \in 1..Len(box) PROVE Complete(K, M, greeted, new, i, new[i].id)
  <2>1. Complete(K, M, greeted, box, i, box[i].id) /\ i \in 0..Len(box) /\ new[i] = box[i]
    BY <1>1 DEF BoxOK
  <2>2. Told(greeted, new, i) <=> Told(greeted, box, i)
    BY <2>1, ToldSame
  <2>3. \A e : Vouched(K, box, i, e) => Vouched(K, new, i, e)
    BY <2>1, VouchedMore
  <2> QED BY <2>1, <2>2, <2>3 DEF Complete
<1>3. ASSUME NEW i \in 1..Len(new) PROVE Complete(K, M, greeted, new, i, new[i].id)
  <2>1. i = Len(box) + 1 \/ i \in 1..Len(box)
    BY <1>1
  <2> QED BY <1>1, <1>2, <2>1
<1> QED BY <1>3 DEF BoxOK

\* The leader posts something that is not a greeting, and stands at `new' after it.
LEMMA PostNews ==
    ASSUME NEW K, NEW M, NEW greeted \in BOOLEAN, NEW box \in Seq(MessageRecord),
           NEW m \in MessageRecord, m.kind # "open",
           NEW old \in Int, NEW new \in Int, M \subseteq Nat,
           Complete(K, M, greeted, box, Len(box), old),
           \A e \in M : old < e /\ e <= new => VouchesFor(m, e)
    PROVE  Complete(K, M, greeted, Append(box, m), Len(box) + 1, new)
<1>1. SUFFICES ASSUME Told(greeted, Append(box, m), Len(box) + 1), NEW e \in M, e <= new
               PROVE  Vouched(K, Append(box, m), Len(box) + 1, e)
  BY DEF Complete
<1>2. Len(box) \in 0..Len(box) /\ Len(box) \in Nat
  OBVIOUS
<1>3. Told(greeted, box, Len(box))
  BY <1>1, <1>2, ToldSame
<1>4. CASE e <= old
  <2>1. Vouched(K, box, Len(box), e)
    BY <1>1, <1>3, <1>4 DEF Complete
  <2> QED BY <1>2, <2>1, VouchedMore
<1>5. CASE old < e
  <2>1. VouchesFor(m, e)
    BY <1>1, <1>5
  <2>2. Append(box, m)[Len(box) + 1] = m /\ Len(box) + 1 \in 1..Len(box) + 1
    BY <1>2
  <2> QED BY <2>1, <2>2 DEF Vouched
<1>6. e \in Nat
  BY <1>1
<1> QED BY <1>4, <1>5, <1>6

\* A greeting vouches for everything before it.
LEMMA PostGreeting ==
    ASSUME NEW K, NEW M, NEW greeted \in BOOLEAN, NEW box \in Seq(MessageRecord),
           NEW m \in MessageRecord, m.kind = "open"
    PROVE  Complete(K, M, greeted, Append(box, m), Len(box) + 1, m.id)
<1>1. Len(box) \in Nat /\ Append(box, m)[Len(box) + 1] = m /\ Len(box) + 1 \in 1..Len(box) + 1
  OBVIOUS
<1>2. \A e \in M : e <= m.id => VouchesFor(m, e)
  BY DEF VouchesFor
<1>3. \A e \in M : e <= m.id => Vouched(K, Append(box, m), Len(box) + 1, e)
  BY <1>1, <1>2 DEF Vouched
<1> QED BY <1>3 DEF Complete

\* The window hears the first message and knows what that vouched for.
LEMMA HeadHeard ==
    ASSUME NEW K, NEW L, K \subseteq L, NEW M, NEW greeted \in BOOLEAN, NEW now \in BOOLEAN,
           NEW box \in Seq(MessageRecord), box # <<>>,
           now => greeted \/ Head(box).kind = "open",
           \A e \in M : VouchesFor(Head(box), e) => e \in L
    PROVE  /\ BoxOK(K, M, greeted, box) => BoxOK(L, M, now, Tail(box))
           /\ \A id : Complete(K, M, greeted, box, Len(box), id)
                        => Complete(L, M, now, Tail(box), Len(Tail(box)), id)
<1> DEFINE rest == Tail(box)
<1>1. /\ Len(box) \in Nat /\ Len(box) > 0 /\ Len(rest) \in Nat /\ Len(box) = Len(rest) + 1
      /\ Head(box) = box[1] /\ \A i \in 1..Len(rest) : rest[i] = box[i + 1]
  OBVIOUS
<1>2. ASSUME NEW n \in 0..Len(rest), NEW id,
             Complete(K, M, greeted, box, n + 1, id)
      PROVE  Complete(L, M, now, rest, n, id)
  <2>1. SUFFICES ASSUME Told(now, rest, n), NEW e \in M, e <= id
                 PROVE  Vouched(L, rest, n, e)
    BY DEF Complete
  <2>2. \A j \in 1..n : j \in 1..Len(rest) /\ j + 1 \in 1..n + 1
    BY <1>1
  <2>3. 1 \in 1..n + 1
    BY <1>1
  <2>4. Told(greeted, box, n + 1)
    BY <1>1, <2>1, <2>2, <2>3 DEF Told
  <2>5. Vouched(K, box, n + 1, e)
    BY <1>2, <2>1, <2>4 DEF Complete
  <2>6. ASSUME NEW j \in 1..n + 1, VouchesFor(box[j], e) PROVE Vouched(L, rest, n, e)
    <3>1. CASE j = 1
      BY <1>1, <2>1, <2>6, <3>1 DEF Vouched
    <3>2. CASE j # 1
      <4>1. j - 1 \in 1..n /\ j - 1 \in 1..Len(rest) /\ (j - 1) + 1 = j
        BY <1>1, <2>6, <3>2
      <4>2. rest[j - 1] = box[j]
        BY <1>1, <4>1
      <4> QED BY <2>6, <4>1, <4>2 DEF Vouched
    <3> QED BY <3>1, <3>2
  <2> QED BY <2>5, <2>6 DEF Vouched
<1>3. ASSUME BoxOK(K, M, greeted, box) PROVE BoxOK(L, M, now, rest)
  <2>1. SUFFICES ASSUME NEW i \in 1..Len(rest)
                 PROVE  Complete(L, M, now, rest, i, rest[i].id)
    BY DEF BoxOK
  <2>2. i \in 0..Len(rest) /\ i + 1 \in 1..Len(box) /\ rest[i] = box[i + 1]
    BY <1>1
  <2>3. Complete(K, M, greeted, box, i + 1, box[i + 1].id)
    BY <1>3, <2>2 DEF BoxOK
  <2> QED BY <1>2, <2>2, <2>3
<1>4. ASSUME NEW id, Complete(K, M, greeted, box, Len(box), id)
      PROVE  Complete(L, M, now, rest, Len(rest), id)
  <2>1. Len(rest) \in 0..Len(rest) /\ Len(rest) + 1 = Len(box)
    BY <1>1
  <2>2. Complete(K, M, greeted, box, Len(rest) + 1, id)
    BY <1>4, <2>1
  <2> QED BY <1>2, <2>1, <2>2
<1> QED BY <1>3, <1>4

----------------------------------------------------------------------------
(* The stream.                                                              *)

\* What the frames of a stream and the messages of an inbox are made of.
LEMMA FrameTyped ==
    ASSUME NEW out \in Seq(FrameRecord), NEW i \in DOMAIN out
    PROVE  /\ out[i].id \in Nat /\ out[i].kind \in FrameKinds
           /\ out[i].kind = "event" => out[i].id # 0
<1>1. out[i] \in FrameRecord
  OBVIOUS
<1> QED BY <1>1 DEF FrameRecord

\* A resync and a page of the ring are in order, wherever the stream stands.
LEMMA ResyncOK ==
    ASSUME Types, NEW pos \in 0..top
    PROVE  /\ Resync.frames \in Seq(FrameRecord) /\ Resync.next \in pos..top
           /\ \A i \in DOMAIN Resync.frames : Resync.frames[i].id <= top
           /\ StreamOK(pos, mine, Resync.next, Resync.frames)
<1> DEFINE f == Frame("resync", top)
<1>1. f \in FrameRecord /\ f.kind = "resync" /\ f.id = top
  BY DEF Frame, FrameRecord, FrameKinds, Types
<1>2. Resync.frames = <<f>> /\ Resync.next = top
  BY DEF Resync
<1> HIDE DEF f
<1>3. <<f>> \in Seq(FrameRecord) /\ DOMAIN <<f>> = {1} /\ Len(<<f>>) = 1 /\ <<f>>[1] = f
  BY <1>1
<1>4. top \in pos..top
  BY DEF Types
<1>5. StreamOK(pos, mine, top, <<f>>)
  BY <1>1, <1>3, <1>4 DEF StreamOK, Shows
<1> QED BY <1>1, <1>2, <1>3, <1>4, <1>5

\* A ring without a gap still has every event after the position.
LEMMA NoGapVisible ==
    ASSUME Types, NEW pos \in 0..top, ~Gap(pos)
    PROVE  /\ \A e \in mine : pos < e => e \in Visible(pos)
           /\ \A e \in Visible(pos) : e \in mine /\ pos < e /\ e \in 1..top
           /\ PageEnds(pos) \subseteq pos..top
<1>1. \A e \in mine : pos < e => e \in Visible(pos)
  BY DEF Types, Gap, Visible, Behind, Ring
<1>2. \A e \in Visible(pos) : e \in mine /\ pos < e /\ e \in 1..top
  BY DEF Types, Visible, Behind, Ring
<1>3. ASSUME NEW j \in Visible(pos), NEW k \in Visible(pos), k < j PROVE j - 1 \in pos..top
  BY <1>2, <1>3 DEF Types
<1>4. top \in pos..top
  BY DEF Types
<1>5. ASSUME NEW n \in PageEnds(pos) PROVE n \in pos..top
  BY <1>3, <1>4, <1>5 DEF PageEnds
<1> QED BY <1>1, <1>2, <1>5

\* The rows of a page: all of them, in their order.
LEMMA AscendingRows ==
    ASSUME NEW S \in SUBSET Nat, IsFiniteSet(S), NEW rows \in Ascending(S)
    PROVE  /\ rows \in Seq(S) /\ DOMAIN rows = 1..Len(rows) /\ Len(rows) \in Nat
           /\ \A e \in S : \E i \in DOMAIN rows : rows[i] = e
           /\ \A i, j \in DOMAIN rows : i < j => rows[i] < rows[j]
<1>1. Cardinality(S) \in Nat
  BY FS_CardinalityType
<1>2. rows \in [1..Cardinality(S) -> S] /\ ToSet(rows) = S
      /\ \A i, j \in 1..Cardinality(S) : i < j => rows[i] < rows[j]
  BY DEF Ascending
<1>3. DOMAIN rows = 1..Cardinality(S)
  BY <1>2
<1>4. rows \in Seq(S) /\ Len(rows) = Cardinality(S)
  BY <1>1, <1>2
<1>5. \A e \in S : \E i \in DOMAIN rows : rows[i] = e
  BY <1>2 DEF ToSet
<1> QED BY <1>1, <1>2, <1>3, <1>4, <1>5

\* A page shows every event up to where it ends.
LEMMA PageOK ==
    ASSUME Types, NEW pos \in 0..top, NEW page \in Pages(pos)
    PROVE  /\ page.frames \in Seq(FrameRecord) /\ page.next \in pos..top
           /\ \A i \in DOMAIN page.frames : page.frames[i].id <= top
           /\ StreamOK(pos, mine, page.next, page.frames)
<1>1. CASE Gap(pos)
  BY <1>1, ResyncOK DEF Pages
<1>2. CASE ~Gap(pos)
  <2>1. PICK end \in PageEnds(pos) : page \in PagesTo(pos, end)
    BY <1>2 DEF Pages
  <2> DEFINE S == {i \in Visible(pos) : i <= end}
  <2>2. PICK rows \in Ascending(S) : page = Page(rows, end)
    BY <2>1 DEF PagesTo
  <2>3. end \in pos..top /\ top \in Nat
    BY <1>2, NoGapVisible DEF Types
  <2>4. \A e \in S : e \in mine /\ pos < e /\ e <= end /\ e \in 1..top
    BY <1>2, NoGapVisible
  <2>5. \A e \in mine : pos < e /\ e <= end => e \in S
    BY <1>2, NoGapVisible
  <2>6. S \subseteq 1..top /\ S \subseteq Nat
    BY <2>4
  <2> HIDE DEF S
  <2>7. IsFiniteSet(S)
    <3>1. IsFiniteSet(1..top)
      BY <2>3, FS_Interval
    <3> QED BY <2>6, <3>1, FS_Subset
  <2>8. /\ rows \in Seq(S) /\ DOMAIN rows = 1..Len(rows) /\ Len(rows) \in Nat
        /\ \A e \in S : \E i \in DOMAIN rows : rows[i] = e
        /\ \A i, j \in DOMAIN rows : i < j => rows[i] < rows[j]
    BY <2>2, <2>6, <2>7, AscendingRows
  <2> DEFINE sent == [i \in DOMAIN rows |-> Frame("event", rows[i])]
  <2>9. \A i \in DOMAIN rows : rows[i] \in S
    BY <2>8
  <2>10. \A i \in DOMAIN rows : /\ Frame("event", rows[i]) \in FrameRecord
                                /\ Frame("event", rows[i]).kind = "event"
                                /\ Frame("event", rows[i]).id = rows[i]
    <3>0. 1..top \subseteq Nat \ {0}
      BY <2>3
    <3>1. \A i \in DOMAIN rows : rows[i] \in Nat \ {0}
      BY ONLY <2>6, <2>9, <3>0
    <3>2. \A id \in Nat \ {0} : /\ Frame("event", id) \in FrameRecord
                                /\ Frame("event", id).kind = "event"
                                /\ Frame("event", id).id = id
      BY DEF Frame, FrameRecord, FrameKinds
    <3> QED BY <3>1, <3>2
  <2>11. /\ sent \in Seq(FrameRecord) /\ DOMAIN sent = 1..Len(rows) /\ Len(sent) = Len(rows)
         /\ \A i \in 1..Len(rows) : sent[i].kind = "event" /\ sent[i].id = rows[i]
                                    /\ sent[i].id \in S
    BY <2>8, <2>9, <2>10
  <2> HIDE DEF sent
  <2>12. \A i, j \in 1..Len(rows) : i < j => sent[i].id < sent[j].id
    BY <2>8, <2>11
  <2>13. \A e \in mine : pos < e /\ e <= end => \E j \in 1..Len(rows) : Shows(sent[j], e)
    BY <2>5, <2>8, <2>11 DEF Shows
  <2>14. \A i \in 1..Len(rows) : pos <= sent[i].id /\ sent[i].id <= end /\ sent[i].id <= top
    <3>1. \A e \in S : pos <= e /\ e <= end /\ e <= top
      BY <2>3, <2>4, <2>6
    <3> QED BY <2>11, <3>1
  <2> DEFINE told == Frame("position", top)
  <2>15. told \in FrameRecord /\ told.kind = "position" /\ told.id = top
    BY <2>3 DEF Frame, FrameRecord, FrameKinds
  <2> HIDE DEF told
  <2>16. page.next = end
    BY <2>2 DEF Page
  <2>17. CASE end = top /\ end \notin ToSet(rows)
    <3> DEFINE all == Append(sent, told)
    <3>1. page.frames = all
      BY <2>2, <2>17 DEF Page, sent, told
    <3>2. /\ all \in Seq(FrameRecord) /\ DOMAIN all = 1..Len(rows) + 1
          /\ all[Len(rows) + 1] = told /\ \A i \in 1..Len(rows) : all[i] = sent[i]
      BY <2>8, <2>11, <2>15
    <3> HIDE DEF all
    <3>3. \A i \in DOMAIN all : i = Len(rows) + 1 \/ i \in 1..Len(rows)
      BY <2>8, <3>2
    <3>4. \A i \in 1..Len(rows) : sent[i].id < top
      <4>1. \A i \in 1..Len(rows) : rows[i] # top
        BY <2>8, <2>17 DEF ToSet
      <4>2. \A i \in 1..Len(rows) : sent[i].id # top /\ sent[i].id \in Nat
        BY <2>6, <2>11, <4>1
      <4> QED BY <2>3, <2>14, <4>2
    <3>5. \A i \in DOMAIN all : /\ all[i].kind \in {"event", "position"} /\ all[i].id <= top
                                /\ pos <= all[i].id /\ all[i].id <= end
      BY <2>3, <2>11, <2>14, <2>15, <2>17, <3>2, <3>3
    <3>6. \A i, j \in DOMAIN all : i < j => all[i].id < all[j].id
      <4>1. SUFFICES ASSUME NEW i \in DOMAIN all, NEW j \in DOMAIN all, i < j
                     PROVE  all[i].id < all[j].id
        OBVIOUS
      <4>2. i \in 1..Len(rows)
        BY <2>8, <3>2, <4>1
      <4> QED BY <2>12, <2>15, <3>2, <3>3, <3>4, <4>1, <4>2
    <3>7. \A e \in mine : pos < e /\ e <= end => \E j \in DOMAIN all : Shows(all[j], e)
      <4>1. \A j \in 1..Len(rows) : j \in DOMAIN all /\ all[j] = sent[j]
        BY <2>8, <3>2
      <4> QED BY <2>13, <4>1
    <3>8. StreamOK(pos, mine, end, all)
      BY <2>3, <3>5, <3>6, <3>7 DEF StreamOK
    <3> QED BY <2>3, <2>16, <3>1, <3>2, <3>5, <3>8
  <2>18. CASE ~(end = top /\ end \notin ToSet(rows))
    <3>1. page.frames = sent
      BY <2>2, <2>18 DEF Page, sent
    <3>2. StreamOK(pos, mine, end, sent)
      BY <2>3, <2>11, <2>12, <2>13, <2>14 DEF StreamOK
    <3> QED BY <2>3, <2>11, <2>14, <2>16, <3>1, <3>2
  <2> QED BY <2>17, <2>18
<1> QED BY <1>1, <1>2

\* A stream with nothing on its way reads on.
LEMMA StreamReads ==
    ASSUME NEW M \in SUBSET Nat, NEW last \in Nat, NEW pos \in Nat, NEW next \in Nat,
           NEW out \in Seq(FrameRecord),
           StreamOK(last, M, pos, <<>>), StreamOK(pos, M, next, out)
    PROVE  StreamOK(last, M, next, out)
<1>1. last <= pos /\ pos <= next
  BY DEF StreamOK
<1>2. \A e \in M : last < e /\ e <= next => pos < e
  BY DEF StreamOK
<1>3. \A i \in DOMAIN out : out[i].id \in Nat
  BY FrameTyped
<1>4. \A e \in M : last < e /\ e <= next => \E j \in DOMAIN out : Shows(out[j], e)
  BY <1>2 DEF StreamOK
<1>5. \A i \in DOMAIN out : out[i].kind # "closed" => last <= out[i].id /\ out[i].id <= next
  BY <1>1, <1>3 DEF StreamOK
<1>6. /\ \A i \in DOMAIN out : /\ out[i].kind \in {"closed", "resync"} => Len(out) = 1
                               /\ out[i].kind = "closed" => out[i].id = 0
      /\ \A i, j \in DOMAIN out : i < j => out[i].id < out[j].id
  BY DEF StreamOK
<1>7. last <= next
  BY <1>1
<1> QED BY <1>4, <1>5, <1>6, <1>7 DEF StreamOK

\* ... or announces its end.
LEMMA StreamEnds ==
    ASSUME NEW M, NEW last \in Nat, NEW pos \in Nat, StreamOK(last, M, pos, <<>>)
    PROVE  StreamOK(last, M, pos, <<Frame("closed", 0)>>)
<1> DEFINE f == Frame("closed", 0)
<1>1. f.kind = "closed" /\ f.id = 0
  BY DEF Frame
<1> HIDE DEF f
<1>2. DOMAIN <<f>> = {1} /\ Len(<<f>>) = 1 /\ <<f>>[1] = f
  OBVIOUS
<1>3. last <= pos /\ \A e \in M : ~(last < e /\ e <= pos)
  BY DEF StreamOK
<1>4. \A i \in DOMAIN <<f>> : <<f>>[i].kind = "closed" /\ <<f>>[i].id = 0
  BY <1>1, <1>2
<1>5. \A i, j \in DOMAIN <<f>> : ~(i < j)
  BY <1>2
<1>6. StreamOK(last, M, pos, <<f>>)
  BY <1>2, <1>3, <1>4, <1>5 DEF StreamOK
<1> QED BY <1>6 DEF f

\* The leader receives the first frame: it shows what lies up to its position.
LEMMA StreamHead ==
    ASSUME NEW M \in SUBSET Nat, NEW last \in Nat, NEW pos \in Nat,
           NEW out \in Seq(FrameRecord), out # <<>>, Head(out).kind # "closed",
           StreamOK(last, M, pos, out)
    PROVE  /\ last <= Head(out).id
           /\ \A e \in M : last < e /\ e <= Head(out).id => Shows(Head(out), e)
           /\ StreamOK(Head(out).id, M, pos, Tail(out))
<1> DEFINE f == Head(out)
           rest == Tail(out)
<1>1. /\ Len(out) \in Nat /\ Len(out) > 0 /\ Len(rest) \in Nat /\ Len(out) = Len(rest) + 1
      /\ DOMAIN out = 1..Len(out) /\ DOMAIN rest = 1..Len(rest)
      /\ f = out[1] /\ \A i \in 1..Len(rest) : rest[i] = out[i + 1]
  OBVIOUS
<1>2. \A i \in DOMAIN out : out[i].id \in Nat /\ out[i].kind \in FrameKinds
  BY FrameTyped
<1> HIDE DEF f, rest
<1>3. 1 \in DOMAIN out /\ last <= f.id /\ f.id <= pos /\ f.id \in Nat
  BY <1>1, <1>2 DEF StreamOK, f
<1>4. \A j \in DOMAIN out : j # 1 => f.id < out[j].id /\ out[j].kind # "resync"
                                      /\ out[j].kind # "closed"
  <2>1. \A j \in DOMAIN out : j # 1 => 1 < j /\ Len(out) # 1
    BY <1>1
  <2> QED BY <1>1, <1>3, <2>1 DEF StreamOK
<1>5. ASSUME NEW e \in M, last < e, e <= pos PROVE \E j \in DOMAIN out : Shows(out[j], e)
  BY <1>5 DEF StreamOK
<1>6. ASSUME NEW e \in M, last < e, e <= f.id PROVE Shows(f, e)
  <2>1. PICK j \in DOMAIN out : Shows(out[j], e)
    BY <1>3, <1>5, <1>6
  <2>2. j = 1
    BY <1>2, <1>3, <1>4, <1>6, <2>1 DEF Shows
  <2> QED BY <1>1, <2>1, <2>2
<1>7. ASSUME NEW e \in M, f.id < e, e <= pos PROVE \E j \in DOMAIN rest : Shows(rest[j], e)
  <2>1. PICK j \in DOMAIN out : Shows(out[j], e)
    BY <1>3, <1>5, <1>7
  <2>2. j # 1
    BY <1>1, <1>3, <1>7, <2>1 DEF Shows
  <2>3. j - 1 \in DOMAIN rest /\ rest[j - 1] = out[j]
    BY <1>1, <2>2
  <2> QED BY <2>1, <2>3
<1>8. \A i \in DOMAIN rest : i + 1 \in DOMAIN out /\ i + 1 # 1 /\ rest[i] = out[i + 1]
  BY <1>1
<1>9. \A i \in DOMAIN rest : /\ rest[i].kind # "closed" /\ rest[i].kind # "resync"
                             /\ f.id <= rest[i].id /\ rest[i].id <= pos
  BY <1>2, <1>3, <1>4, <1>8 DEF StreamOK
<1>10. \A i, j \in DOMAIN rest : i < j => rest[i].id < rest[j].id
  <2>1. \A i, j \in DOMAIN rest : i < j => i + 1 < j + 1
    BY <1>1
  <2> QED BY <1>8, <2>1 DEF StreamOK
<1>11. StreamOK(f.id, M, pos, rest)
  BY <1>3, <1>7, <1>9, <1>10 DEF StreamOK
<1> QED BY <1>3, <1>6, <1>11 DEF f, rest

----------------------------------------------------------------------------
(* One window.                                                              *)

\* A message of an inbox has its type.
LEMMA MessageTyped ==
    ASSUME NEW box \in Seq(MessageRecord), NEW i \in DOMAIN box
    PROVE  /\ box[i] \in MessageRecord /\ box[i].id \in Nat
           /\ box[i].kind \in {"event", "open", "lost", "who"}
           /\ box[i].of \in FrameKinds \cup {"none"} /\ (box[i].of = "event" => box[i].id # 0)
<1>1. box[i] \in MessageRecord
  OBVIOUS
<1> QED BY <1>1 DEF MessageRecord

\* A window that fetched its state misses nothing.
LEMMA AllKnown ==
    ASSUME NEW M, NEW K, M \subseteq K, NEW r, NEW box, NEW at
    PROVE  WindowOK(r, K, M, box, at)
<1>1. \A n : Knows(K, M, n)
  BY DEF Knows
<1>2. \A greeted, n, id : Complete(K, M, greeted, box, n, id)
  BY DEF Complete, Vouched
<1>3. FollowOK(r, K, M, box, at)
  BY <1>1, <1>2 DEF FollowOK, BoxOK
<1> QED BY <1>1, <1>3 DEF WindowOK

\* Outside of a call only the window's cursor matters.
LEMMA OutOfCall ==
    ASSUME NEW r, NEW rr, NEW K, NEW M, NEW box, NEW new, NEW at, NEW now,
           WindowOK(r, K, M, box, at), rr.mode # "follow", rr.cursor = r.cursor,
           Clean(rr) => Clean(r)
    PROVE  WindowOK(rr, K, M, new, now)
BY DEF WindowOK

\* A leader that goes away takes nothing back.
LEMMA LeaderGone ==
    ASSUME NEW r, NEW K, NEW M \in SUBSET Nat, NEW box, NEW at \in Int, NEW new \in Int,
           new <= at, WindowOK(r, K, M, box, at)
    PROVE  WindowOK(r, K, M, box, new)
<1>1. \A e \in M : e <= new => e <= at
  OBVIOUS
<1>2. Complete(K, M, r.greeted, box, Len(box), at)
      => Complete(K, M, r.greeted, box, Len(box), new)
  BY <1>1 DEF Complete
<1> QED BY <1>2 DEF WindowOK, FollowOK

\* What may be posted when the leader then stands at `new': a greeting, or what
\* shows the events from where it stood.
MayPost(m, M, at, new) ==
    \/ m.kind = "open" /\ new <= m.id
    \/ /\ m.kind # "open" /\ m.id \in {0, new}
       /\ \A e \in M : at < e /\ e <= new => VouchesFor(m, e)

\* What a leader may post keeps another window in order.
LEMMA PostOK ==
    ASSUME NEW r \in TabRecord, NEW K, NEW M \in SUBSET (Nat \ {0}),
           NEW box \in Seq(MessageRecord), NEW m \in MessageRecord,
           NEW at \in Int, NEW new \in Int, MayPost(m, M, at, new),
           WindowOK(r, K, M, box, at)
    PROVE  WindowOK(r, K, M, Append(box, m), new)
<1> DEFINE long == Append(box, m)
<1>1. SUFFICES ASSUME Clean(r), r.mode = "follow" PROVE FollowOK(r, K, M, long, new)
  BY DEF WindowOK
<1>2. FollowOK(r, K, M, box, at)
  BY <1>1 DEF WindowOK
<1>3. r.greeted \in BOOLEAN /\ m.id \in Nat
  BY DEF TabRecord, MessageRecord
<1>4. Len(long) = Len(box) + 1
  OBVIOUS
<1> HIDE DEF long
<1>5. CASE m.kind = "open" /\ new <= m.id
  <2>1. Complete(K, M, r.greeted, long, Len(box) + 1, m.id)
    BY <1>3, <1>5, PostGreeting DEF long
  <2>2. BoxOK(K, M, r.greeted, long)
    BY <1>2, <1>3, <2>1, BoxAppend DEF FollowOK, long
  <2>3. \A e \in M : e <= new => e <= m.id
    BY <1>3, <1>5
  <2>4. Complete(K, M, r.greeted, long, Len(box) + 1, new)
    BY <2>1, <2>3 DEF Complete
  <2> QED BY <1>2, <1>4, <2>2, <2>4 DEF FollowOK
<1>6. CASE /\ m.kind # "open" /\ m.id \in {0, new}
           /\ \A e \in M : at < e /\ e <= new => VouchesFor(m, e)
  <2>1. Complete(K, M, r.greeted, box, Len(box), at)
    BY <1>2 DEF FollowOK
  <2>2. Complete(K, M, r.greeted, long, Len(box) + 1, new)
    BY <1>3, <1>6, <2>1, PostNews DEF long
  <2>3. \A e \in M : ~(e <= 0)
    OBVIOUS
  <2>4. Complete(K, M, r.greeted, long, Len(box) + 1, 0)
    BY <2>3 DEF Complete
  <2>5. Complete(K, M, r.greeted, long, Len(box) + 1, m.id)
    BY <1>6, <2>2, <2>4
  <2>6. BoxOK(K, M, r.greeted, long)
    BY <1>2, <1>3, <2>5, BoxAppend DEF FollowOK, long
  <2> QED BY <1>2, <1>4, <2>2, <2>6 DEF FollowOK
<1> QED BY <1>5, <1>6 DEF MayPost

\* An event from beyond everything that was said so far disturbs no window.
LEMMA EventAppended ==
    ASSUME NEW n \in Nat, NEW r \in TabRecord, NEW K, NEW M, NEW L,
           NEW box \in Seq(MessageRecord), NEW at \in Int, at <= n, Placed(r, K, box, n),
           L \subseteq M \cup {n + 1}, WindowOK(r, K, M, box, at)
    PROVE  WindowOK(r, K, L, box, at)
<1>1. \A id \in Int : id <= n => \A e \in L : e <= id => e \in M
  OBVIOUS
<1>2. r.cursor \in Int /\ r.begin \in Int /\ r.cursor <= n /\ r.begin <= n
  BY DEF TabRecord, Placed
<1>3. ASSUME NEW id \in Int, id <= n PROVE Knows(K, M, id) => Knows(K, L, id)
  BY <1>1, <1>3 DEF Knows
<1>4. ASSUME NEW id \in Int, id <= n, NEW i
      PROVE  Complete(K, M, r.greeted, box, i, id) => Complete(K, L, r.greeted, box, i, id)
  BY <1>1, <1>4 DEF Complete
<1>5. ASSUME BoxOK(K, M, r.greeted, box) PROVE BoxOK(K, L, r.greeted, box)
  <2>1. SUFFICES ASSUME NEW i \in 1..Len(box) PROVE Complete(K, L, r.greeted, box, i, box[i].id)
    BY DEF BoxOK
  <2>2. i \in DOMAIN box
    OBVIOUS
  <2>3. box[i].id \in Int /\ box[i].id <= n
    BY <2>2, MessageTyped DEF Placed
  <2>4. Complete(K, M, r.greeted, box, i, box[i].id)
    BY <1>5 DEF BoxOK
  <2> QED BY <1>4, <2>3, <2>4
<1> QED BY <1>2, <1>3, <1>4, <1>5 DEF WindowOK, FollowOK

\* A call begins with nothing heard.
LEMMA CallBegins ==
    ASSUME NEW r, NEW rr, NEW K, NEW M, NEW box, NEW at, NEW now,
           WindowOK(r, K, M, box, at), Clean(rr) => Clean(r), rr.cursor = r.cursor,
           rr.begin = r.cursor, rr.greeted = FALSE
    PROVE  WindowOK(rr, K, M, <<>>, now)
<1>1. SUFFICES ASSUME Clean(rr) PROVE Knows(K, M, rr.cursor) /\ FollowOK(rr, K, M, <<>>, now)
  BY DEF WindowOK
<1>2. Knows(K, M, rr.cursor) /\ Knows(K, M, rr.begin)
  BY <1>1 DEF WindowOK
<1>3. Len(<<>>) = 0 /\ 1..0 = {}
  OBVIOUS
<1>4. ~Told(rr.greeted, <<>>, 0)
  BY <1>3 DEF Told
<1>5. BoxOK(K, M, rr.greeted, <<>>) /\ Complete(K, M, rr.greeted, <<>>, Len(<<>>), now)
  BY <1>3, <1>4 DEF BoxOK, Complete
<1> QED BY <1>2, <1>5 DEF FollowOK

\* The fields a record operator changes and keeps.
LEMMA DeliveredFields ==
    ASSUME NEW r \in TabRecord, NEW kind, NEW id \in Nat
    PROVE  LET rr == Delivered(r, Frame(kind, id)) IN
           /\ rr \in TabRecord /\ rr.mode = r.mode /\ rr.begin = r.begin
           /\ rr.greeted = r.greeted /\ rr.cursor = id /\ rr.last = id
           /\ Clean(rr) /\ kind # "resync"
                => Clean(r) /\ ~(r.mode = "follow" /\ ~r.greeted /\ id > r.begin)
<1> DEFINE f == Frame(kind, id)
           rr == Delivered(r, f)
<1>1. f.kind = kind /\ f.id = id
  BY DEF Frame
<1> HIDE DEF f
<1>2. rr \in TabRecord /\ rr.mode = r.mode /\ rr.begin = r.begin
      /\ rr.greeted = r.greeted /\ rr.cursor = id /\ rr.last = id
  BY <1>1, ZenonT(60) DEF Delivered, TabRecord
<1>3. ASSUME kind # "resync"
      PROVE  /\ rr.early = (r.early \/ (r.mode = "follow" /\ ~r.greeted /\ id > r.begin))
             /\ rr.passed = r.passed /\ rr.skipped = r.skipped
  BY <1>1, <1>3 DEF Delivered, TabRecord
<1> HIDE DEF rr
<1>4. Clean(rr) /\ kind # "resync"
        => Clean(r) /\ ~(r.mode = "follow" /\ ~r.greeted /\ id > r.begin)
  BY <1>3 DEF Clean
<1> QED BY <1>2, <1>4 DEF f, rr

\* A greeting moves no cursor, and hides a loss only with a refetch.
LEMMA GreetedFields ==
    ASSUME NEW r \in TabRecord, NEW cursor \in Nat
    PROVE  LET rr == Greeted(r, cursor) IN
           /\ rr \in TabRecord /\ rr.mode = r.mode /\ rr.begin = r.begin
           /\ rr.greeted = TRUE /\ rr.cursor = r.cursor /\ rr.last = r.last
           /\ Clean(rr) /\ ~Refetches(r, cursor)
                => Clean(r) /\ ~(r.greeted /\ cursor > r.last)
<1> DEFINE rr == Greeted(r, cursor)
<1>1. Refetches(r, cursor) = ShowsLoss(r, cursor) /\ ShowsLoss(r, cursor) \in BOOLEAN
  BY DEF Refetches, ShowsLoss
<1>2. rr \in TabRecord /\ rr.mode = r.mode /\ rr.begin = r.begin
      /\ rr.greeted = TRUE /\ rr.cursor = r.cursor /\ rr.last = r.last
  BY <1>1 DEF Greeted, TabRecord
<1>3. ASSUME ~Refetches(r, cursor)
      PROVE  /\ rr.early = r.early /\ rr.skipped = r.skipped
             /\ rr.passed = (r.passed \/ (r.greeted /\ cursor > r.last))
  BY <1>1, <1>3 DEF Greeted, TabRecord
<1> HIDE DEF rr
<1>4. Clean(rr) /\ ~Refetches(r, cursor) => Clean(r) /\ ~(r.greeted /\ cursor > r.last)
  BY <1>3 DEF Clean
<1> QED BY <1>2, <1>4 DEF rr

\* What a call leaves behind keeps the window where it is.
LEMMA LeftFields ==
    ASSUME NEW r \in TabRecord
    PROVE  /\ Left(r) \in TabRecord /\ Left(r).mode = r.mode /\ Left(r).cursor = r.cursor
           /\ Left(r).begin = r.begin /\ Left(r).last = r.last
           /\ Clean(Left(r)) => Clean(r)
<1>1. /\ Left(r) \in TabRecord /\ Left(r).mode = r.mode /\ Left(r).cursor = r.cursor
      /\ Left(r).begin = r.begin /\ Left(r).last = r.last
  BY DEF Left, TabRecord
<1>2. Left(r).skipped = (r.skipped \/ r.early \/ r.passed)
  BY DEF Left, TabRecord
<1> QED BY <1>1, <1>2 DEF Clean

\* A call that ended, with whatever mode and count of failures follow.
EndedFrom(r, rr) ==
    /\ rr \in TabRecord /\ rr.mode \notin {"follow", "lead"}
    /\ rr.cursor = r.cursor /\ rr.begin = r.begin /\ rr.last = r.last
    /\ Clean(rr) => Clean(r)

\* Each way a call ends keeps the window where it is.
LEMMA EndedFields ==
    ASSUME NEW r \in TabRecord
    PROVE  /\ EndedFrom(r, Ended(r)) /\ EndedFrom(r, Failed(r)) /\ EndedFrom(r, Unsupported(r))
           /\ EndedFrom(r, [Ended(r) EXCEPT !.mode = "stopped"])
           /\ EndedFrom(r, [Ended(r) EXCEPT !.mode = "closed"])
<1> DEFINE x == Left(r)
<1>1. /\ x \in TabRecord /\ x.cursor = r.cursor /\ x.begin = r.begin /\ x.last = r.last
      /\ Clean(x) => Clean(r)
  BY LeftFields
<1> HIDE DEF x
<1>2. ASSUME NEW mode \in {"stopped", "idle", "closed"}
      PROVE  /\ [x EXCEPT !.mode = mode] \in TabRecord
             /\ EndedFrom(r, [x EXCEPT !.mode = mode])
  <2> DEFINE y == [x EXCEPT !.mode = mode]
  <2>1. /\ y \in TabRecord /\ y.mode = mode /\ y.cursor = x.cursor /\ y.begin = x.begin
        /\ y.last = x.last /\ y.early = x.early /\ y.passed = x.passed /\ y.skipped = x.skipped
    BY <1>1 DEF TabRecord, Modes
  <2> HIDE DEF y
  <2>2. EndedFrom(r, y)
    BY <1>1, <2>1 DEF EndedFrom, Clean
  <2> QED BY <2>1, <2>2 DEF y
<1> DEFINE z == Ended(r)
<1>3. z = [x EXCEPT !.mode = "idle"]
  BY DEF Ended, x
<1>4. [z EXCEPT !.mode = "stopped"] = [x EXCEPT !.mode = "stopped"]
      /\ [z EXCEPT !.mode = "closed"] = [x EXCEPT !.mode = "closed"]
  BY <1>1, <1>3 DEF TabRecord
<1>5. EndedFrom(r, z) /\ z \in TabRecord
  BY <1>2, <1>3
<1> HIDE DEF z
<1> DEFINE w == [z EXCEPT !.fails = IF @ < StreamFailuresBeforePoll THEN @ + 1 ELSE @]
<1>6. /\ w \in TabRecord /\ w.mode = z.mode /\ w.cursor = z.cursor /\ w.begin = z.begin
      /\ w.last = z.last /\ w.early = z.early /\ w.passed = z.passed /\ w.skipped = z.skipped
  BY <1>5 DEF TabRecord
<1>7. Failed(r) = w
  BY DEF Failed, z
<1> HIDE DEF w
<1>8. EndedFrom(r, w)
  BY <1>5, <1>6 DEF EndedFrom, Clean
<1> DEFINE v == [z EXCEPT !.fails = StreamFailuresBeforePoll]
<1>9. /\ v \in TabRecord /\ v.mode = z.mode /\ v.cursor = z.cursor /\ v.begin = z.begin
      /\ v.last = z.last /\ v.early = z.early /\ v.passed = z.passed /\ v.skipped = z.skipped
  BY <1>5, TabAssumption DEF TabRecord
<1>10. Unsupported(r) = v
  BY DEF Unsupported, z
<1> HIDE DEF v
<1>11. EndedFrom(r, v)
  BY <1>5, <1>9 DEF EndedFrom, Clean
<1> QED BY <1>2, <1>4, <1>5, <1>7, <1>8, <1>10, <1>11 DEF z

\* A follower hears an event, a position or a resync.
LEMMA HearsEvent ==
    ASSUME NEW n \in Nat, NEW r \in TabRecord, NEW K, NEW L, NEW M \in SUBSET (1..n),
           NEW box \in Seq(MessageRecord), box # <<>>, NEW at,
           r.mode = "follow", Head(box).kind = "event", K \subseteq L,
           Head(box).of = "event" => Head(box).id \in L,
           Head(box).of = "resync" => 1..n \subseteq L,
           WindowOK(r, K, M, box, at)
    PROVE  WindowOK(Delivered(r, Frame(Head(box).of, Head(box).id)), L, M, Tail(box), at)
<1> DEFINE m == Head(box)
           rr == Delivered(r, Frame(m.of, m.id))
<1>1. /\ m = box[1] /\ 1 \in DOMAIN box /\ 1 \in 1..Len(box)
      /\ m.id \in Nat /\ m.of \in FrameKinds \cup {"none"}
  <2>1. m = box[1] /\ 1 \in DOMAIN box /\ 1 \in 1..Len(box)
    OBVIOUS
  <2> QED BY <2>1, MessageTyped
<1> HIDE DEF m
<1>2. /\ rr \in TabRecord /\ rr.mode = "follow" /\ rr.begin = r.begin
      /\ rr.greeted = r.greeted /\ rr.cursor = m.id
      /\ Clean(rr) /\ m.of # "resync" => Clean(r) /\ (r.greeted \/ ~(m.id > r.begin))
  BY <1>1, DeliveredFields
<1> HIDE DEF rr
<1>3. CASE m.of = "resync"
  BY <1>3, AllKnown DEF m, rr
<1>4. CASE m.of # "resync"
  <2>1. SUFFICES ASSUME Clean(rr)
                 PROVE  Knows(L, M, rr.cursor) /\ FollowOK(rr, L, M, Tail(box), at)
    BY DEF WindowOK, m, rr
  <2>2. Clean(r) /\ (r.greeted \/ ~(m.id > r.begin)) /\ FollowOK(r, K, M, box, at)
    BY <1>2, <1>4, <2>1 DEF WindowOK
  <2>3. \A e \in M : VouchesFor(m, e) => e \in L
    BY <1>4 DEF VouchesFor, m
  <2>4. r.greeted \in BOOLEAN /\ r.begin \in Nat
    BY DEF TabRecord
  <2>5. BoxOK(L, M, r.greeted, Tail(box))
        /\ Complete(L, M, r.greeted, Tail(box), Len(Tail(box)), at)
    BY <2>2, <2>3, <2>4, HeadHeard DEF FollowOK, m
  <2>6. Knows(L, M, r.begin)
    BY <2>2 DEF FollowOK, Knows
  <2>7. CASE r.greeted
    <3>1. Complete(K, M, r.greeted, box, 1, m.id)
      BY <1>1, <2>2 DEF FollowOK, BoxOK
    <3>2. \A e \in M : e <= m.id => Vouched(K, box, 1, e)
      BY <2>7, <3>1 DEF Complete, Told
    <3>3. \A j \in 1..1 : j = 1
      OBVIOUS
    <3>4. \A e \in M : e <= m.id => e \in L
      BY <1>1, <2>3, <3>2, <3>3 DEF Vouched
    <3> QED BY <1>2, <2>5, <2>6, <3>4 DEF Knows, FollowOK
  <2>8. CASE ~(m.id > r.begin)
    <3>1. \A e \in M : e <= m.id => e <= r.begin
      BY <1>1, <2>4, <2>8
    <3> QED BY <1>2, <2>5, <2>6, <3>1 DEF Knows, FollowOK
  <2> QED BY <2>2, <2>7, <2>8
<1> QED BY <1>3, <1>4

\* A follower hears where the leader is.
LEMMA HearsGreeting ==
    ASSUME NEW n \in Nat, NEW r \in TabRecord, NEW K, NEW L, NEW M \in SUBSET (1..n),
           NEW box \in Seq(MessageRecord), box # <<>>, NEW at,
           r.mode = "follow", Head(box).kind = "open", r.last = r.cursor, K \subseteq L,
           Refetches(r, Head(box).id) => 1..n \subseteq L,
           WindowOK(r, K, M, box, at)
    PROVE  WindowOK(Greeted(r, Head(box).id), L, M, Tail(box), at)
<1> DEFINE m == Head(box)
           rr == Greeted(r, m.id)
<1>1. m.id \in Nat
  <2>1. m = box[1] /\ 1 \in DOMAIN box
    OBVIOUS
  <2> QED BY <2>1, MessageTyped
<1> HIDE DEF m
<1>2. /\ rr \in TabRecord /\ rr.mode = "follow" /\ rr.begin = r.begin
      /\ rr.greeted = TRUE /\ rr.cursor = r.cursor
      /\ Clean(rr) /\ ~Refetches(r, m.id) => Clean(r) /\ ~(r.greeted /\ m.id > r.last)
  BY <1>1, GreetedFields
<1> HIDE DEF rr
<1>3. CASE Refetches(r, m.id)
  BY <1>3, AllKnown DEF m, rr
<1>4. CASE ~Refetches(r, m.id)
  <2>1. SUFFICES ASSUME Clean(rr)
                 PROVE  Knows(L, M, rr.cursor) /\ FollowOK(rr, L, M, Tail(box), at)
    BY DEF WindowOK, m, rr
  <2>2. Clean(r) /\ ~(r.greeted /\ m.id > r.last) /\ FollowOK(r, K, M, box, at)
        /\ Knows(K, M, r.cursor)
    BY <1>2, <1>4, <2>1 DEF WindowOK
  <2>3. Knows(L, M, r.begin) /\ Knows(L, M, r.cursor)
    BY <2>2 DEF FollowOK, Knows
  <2>4. r.greeted \in BOOLEAN /\ r.begin \in Nat /\ r.cursor \in Nat
    BY DEF TabRecord
  <2>5. Knows(L, M, m.id)
    <3>1. CASE r.greeted
      <4>1. \A e \in M : e <= m.id => e <= r.cursor
        BY <1>1, <2>2, <2>4, <3>1
      <4> QED BY <2>3, <4>1 DEF Knows
    <3>2. CASE ~r.greeted
      <4>1. m.id = r.begin
        BY <1>4, <3>2 DEF Refetches
      <4> QED BY <2>3, <4>1
    <3> QED BY <3>1, <3>2
  <2>6. m.kind = "open"
    BY DEF m
  <2>7. \A e \in M : m.id >= e => e <= m.id
    BY <1>1
  <2>8. \A e \in M : VouchesFor(m, e) => e \in L
    BY <2>5, <2>6, <2>7 DEF VouchesFor, Knows
  <2>9. BoxOK(L, M, TRUE, Tail(box)) /\ Complete(L, M, TRUE, Tail(box), Len(Tail(box)), at)
    BY <2>2, <2>4, <2>6, <2>8, HeadHeard DEF FollowOK, m
  <2> QED BY <1>2, <2>3, <2>9 DEF FollowOK
<1> QED BY <1>3, <1>4

\* A follower hears another window ask.
LEMMA HearsQuestion ==
    ASSUME NEW r \in TabRecord, NEW K, NEW M,
           NEW box \in Seq(MessageRecord), box # <<>>, NEW at,
           Head(box).kind = "who", WindowOK(r, K, M, box, at)
    PROVE  WindowOK(r, K, M, Tail(box), at)
<1>1. SUFFICES ASSUME Clean(r), r.mode = "follow" PROVE FollowOK(r, K, M, Tail(box), at)
  BY DEF WindowOK
<1>2. FollowOK(r, K, M, box, at)
  BY <1>1 DEF WindowOK
<1>3. \A e \in M : VouchesFor(Head(box), e) => e \in K
  BY DEF VouchesFor
<1>4. r.greeted \in BOOLEAN
  BY DEF TabRecord
<1> QED BY <1>2, <1>3, <1>4, HeadHeard DEF FollowOK

----------------------------------------------------------------------------
(* The windows together.                                                    *)

\* Positions are numbers.
LEMMA TabFields ==
    ASSUME NEW r \in TabRecord
    PROVE  r.cursor \in Nat /\ r.begin \in Nat /\ r.last \in Nat
BY DEF TabRecord

\* What the steps below need of the invariant.
LEMMA InvFacts ==
    ASSUME FeedInv
    PROVE  /\ \A t \in Tab : tab[t] \in TabRecord /\ inbox[t] \in Seq(MessageRecord)
           /\ LeaderAt \in Int /\ LeaderAt <= top /\ -1 <= LeaderAt
           /\ \A t \in Tab : lock = t => LeaderAt = tab[t].last /\ lock # NoTab
           /\ lock = NoTab => LeaderAt = -1
           /\ mine \in SUBSET (1..top) /\ mine \in SUBSET (Nat \ {0})
           /\ top \in Nat
<1>1. \A t \in Tab : tab[t] \in TabRecord /\ inbox[t] \in Seq(MessageRecord)
  BY DEF FeedInv, Types
<1>2. top \in Nat /\ mine \in SUBSET (1..top) /\ lock \in Tab \cup {NoTab}
  BY DEF FeedInv, Types
<1>3. mine \in SUBSET (Nat \ {0})
  BY <1>2
<1>4. CASE lock = NoTab
  BY <1>1, <1>2, <1>3, <1>4, TabAssumption DEF LeaderAt
<1>5. CASE lock \in Tab
  <2>1. lock # NoTab /\ LeaderAt = tab[lock].last
    BY <1>5, TabAssumption DEF LeaderAt
  <2>2. tab[lock].last \in Nat /\ tab[lock].last <= top
    BY <1>1, <1>5, TabFields DEF FeedInv, Placed
  <2> QED BY <1>1, <1>2, <1>3, <2>1, <2>2
<1> QED BY <1>2, <1>4, <1>5

\* What FeedInv says of a window with a given inbox and leader.
Good(u, box, at) ==
    /\ box \in Seq(MessageRecord)
    /\ Placed(tab[u], known[u], box, top)
    /\ WindowOK(tab[u], known[u], mine, box, at)

\* The invariant makes every window good.
LEMMA InvGood ==
    ASSUME FeedInv, NEW u \in Tab
    PROVE  Good(u, inbox[u], LeaderAt)
BY InvFacts DEF FeedInv, Good

\* A post leaves every other window good.
LEMMA PostedGood ==
    ASSUME FeedInv, NEW t \in Tab, NEW u \in Tab, u # t, NEW box, NEW m \in MessageRecord,
           m.id <= top, NEW at \in Int, NEW new \in Int, MayPost(m, mine, at, new),
           Good(u, box[u], at)
    PROVE  Good(u, Posted(box, t, m)[u], new)
<1>1. tab[u] \in TabRecord /\ mine \in SUBSET (Nat \ {0})
  BY InvFacts
<1>2. CASE Listens(u)
  <2> DEFINE b == box[u]
             long == Append(b, m)
  <2>1. Posted(box, t, m)[u] = long
    BY <1>2 DEF Posted
  <2>2. b \in Seq(MessageRecord) /\ Placed(tab[u], known[u], b, top)
        /\ WindowOK(tab[u], known[u], mine, b, at)
    BY DEF Good
  <2> HIDE DEF b
  <2>3. WindowOK(tab[u], known[u], mine, long, new)
    BY <1>1, <2>2, PostOK
  <2>4. long \in Seq(MessageRecord)
        /\ \A i \in DOMAIN long : long[i] = m \/ (i \in DOMAIN b /\ long[i] = b[i])
    BY <2>2
  <2> HIDE DEF long
  <2>5. Placed(tab[u], known[u], long, top)
    BY <1>2, <2>2, <2>4 DEF Placed, Listens
  <2> QED BY <2>1, <2>3, <2>4, <2>5 DEF Good
<1>3. CASE ~Listens(u)
  <2>1. Posted(box, t, m)[u] = box[u]
    BY <1>3 DEF Posted
  <2>2. tab[u].mode # "follow"
    BY <1>3 DEF Listens
  <2>3. WindowOK(tab[u], known[u], mine, box[u], new)
    BY <2>2 DEF Good, WindowOK
  <2> QED BY <2>1, <2>3 DEF Good
<1> QED BY <1>2, <1>3

\* So does a leader that goes away.
LEMMA GoneGood ==
    ASSUME FeedInv, NEW u \in Tab, NEW box, NEW at \in Int, NEW new \in Int, new <= at,
           Good(u, box, at)
    PROVE  Good(u, box, new)
<1>1. mine \in SUBSET Nat
  BY InvFacts
<1> QED BY <1>1, LeaderGone DEF Good

\* The invariant from what a step leaves of each window.
LEMMA InvFromWindows ==
    ASSUME Types',
           \A u \in Tab : /\ Placed(tab'[u], known'[u], inbox'[u], top')
                          /\ tab'[u].mode = "lead" <=> lock' = u
                          /\ WindowOK(tab'[u], known'[u], mine', inbox'[u], LeaderAt'),
           lock' # NoTab => StreamOK(LeaderAt', mine', stream'.pos, stream'.out)
    PROVE  FeedInv'
BY DEF FeedInv

\* Messages have their types.
LEMMA LostMessages ==
    /\ Message("lost", 0) \in MessageRecord /\ Message("lost", 0).kind = "lost"
    /\ Message("lost", 0).id = 0
    /\ Message("who", 0) \in MessageRecord /\ Message("who", 0).kind = "who"
    /\ Message("who", 0).id = 0
    /\ \A id \in Nat : /\ Message("open", id) \in MessageRecord
                       /\ Message("open", id).kind = "open" /\ Message("open", id).id = id
BY DEF Message, MessageRecord

\* A message that says nothing about events may always be posted.
LEMMA MayPostNothing ==
    ASSUME NEW m, m.kind # "open", m.id = 0, NEW M \in SUBSET Nat, NEW at \in Int,
           NEW new \in Int, new <= at
    PROVE  MayPost(m, M, at, new)
BY DEF MayPost

\* A call ends, and nobody else is worse off.
LEMMA EndCallStep ==
    ASSUME FeedInv, NEW t \in Tab, NEW rr, NEW box, EndCall(t, rr, box),
           UNCHANGED <<ringVars, known>>, EndedFrom(tab[t], rr),
           box \in [Tab -> Seq(MessageRecord)],
           \A u \in Tab : u # t => Good(u, box[u], LeaderAt)
    PROVE  FeedInv'
<1>1. /\ tab' = [tab EXCEPT ![t] = rr] /\ top' = top /\ low' = low /\ mine' = mine
      /\ known' = known /\ tab \in [Tab -> TabRecord] /\ rr \in TabRecord
  BY DEF EndCall, ringVars, FeedInv, Types, EndedFrom
<1>2. tab'[t] = rr /\ \A u \in Tab : u # t => tab'[u] = tab[u]
  BY <1>1
<1> DEFINE m == Message("lost", 0)
           last == IF lock = t THEN Posted(box, t, m) ELSE box
<1>3. inbox' = [last EXCEPT ![t] = <<>>]
  BY DEF EndCall
<1>4. m \in MessageRecord /\ m.kind = "lost" /\ m.id = 0
  BY LostMessages
<1> HIDE DEF m
<1>5. last \in [Tab -> Seq(MessageRecord)]
  <2>1. \A u \in Tab : Append(box[u], m) \in Seq(MessageRecord) /\ box[u] \in Seq(MessageRecord)
    BY <1>4
  <2>2. Posted(box, t, m) \in [Tab -> Seq(MessageRecord)]
    BY <2>1 DEF Posted
  <2> QED BY <2>2
<1>6. inbox' \in [Tab -> Seq(MessageRecord)] /\ inbox'[t] = <<>>
      /\ \A u \in Tab : u # t => inbox'[u] = last[u]
  BY <1>3, <1>5
<1>7. lock' = (IF lock = t THEN NoTab ELSE lock) /\ lock \in Tab \cup {NoTab}
      /\ stream' = (IF lock = t THEN NoStream ELSE stream)
  BY DEF EndCall, FeedInv, Types
<1>8. LeaderAt' = IF lock = t THEN -1 ELSE LeaderAt
  BY <1>2, <1>7, TabAssumption DEF LeaderAt
<1>9. LeaderAt \in Int /\ -1 <= LeaderAt /\ mine \in SUBSET Nat /\ top \in Nat
  BY InvFacts
<1>10. \A u \in Tab : u # t => Good(u, last[u], LeaderAt')
  <2>1. CASE lock = t
    <3>1. MayPost(m, mine, LeaderAt, -1)
      BY <1>4, <1>9, MayPostNothing
    <3>2. m.id <= top
      BY <1>4, <1>9
    <3>3. \A u \in Tab : u # t => Good(u, Posted(box, t, m)[u], -1)
      BY <1>4, <1>9, <3>1, <3>2, PostedGood
    <3> QED BY <1>8, <2>1, <3>3
  <2>2. CASE lock # t
    BY <1>8, <2>2
  <2> QED BY <2>1, <2>2
<1> HIDE DEF last
<1>11. stream' \in StreamRecord /\ stream'.pos <= top
       /\ \A i \in DOMAIN stream'.out : stream'.out[i].id <= top
  <2>1. NoStream \in StreamRecord /\ NoStream.pos = 0 /\ NoStream.out = <<>>
    BY DEF NoStream, StreamRecord
  <2>2. stream \in StreamRecord /\ stream.pos <= top
        /\ \A i \in DOMAIN stream.out : stream.out[i].id <= top
    BY DEF FeedInv, Types
  <2>3. CASE lock = t
    BY <1>7, <1>9, <2>1, <2>3
  <2>4. CASE lock # t
    BY <1>7, <2>2, <2>4
  <2> QED BY <2>3, <2>4
<1>12. tab' \in [Tab -> TabRecord]
  BY <1>1
<1>13. Types'
  BY <1>1, <1>6, <1>7, <1>11, <1>12 DEF Types, FeedInv
<1>14. ASSUME NEW u \in Tab
       PROVE  /\ Placed(tab'[u], known'[u], inbox'[u], top')
              /\ tab'[u].mode = "lead" <=> lock' = u
              /\ WindowOK(tab'[u], known'[u], mine', inbox'[u], LeaderAt')
  <2>0. Placed(tab[t], known[t], inbox[t], top) /\ (tab[u].mode = "lead" <=> lock = u)
        /\ WindowOK(tab[t], known[t], mine, inbox[t], LeaderAt)
    BY DEF FeedInv
  <2>1. CASE u = t
    <3>1. Placed(rr, known[t], <<>>, top)
      BY <2>0 DEF Placed, EndedFrom
    <3>2. rr.mode # "lead" /\ lock' # t
      BY <1>7, TabAssumption DEF EndedFrom
    <3>3. WindowOK(rr, known[t], mine, <<>>, LeaderAt')
      BY <2>0, OutOfCall DEF EndedFrom
    <3> QED BY <1>1, <1>2, <1>6, <2>1, <3>1, <3>2, <3>3
  <2>2. CASE u # t
    <3>1. Good(u, inbox'[u], LeaderAt')
      BY <1>6, <1>10, <2>2
    <3>2. tab[u].mode = "lead" <=> lock' = u
      BY <1>7, <2>0, <2>2, TabAssumption
    <3> QED BY <1>1, <1>2, <2>2, <3>1, <3>2 DEF Good
  <2> QED BY <2>1, <2>2
<1>15. ASSUME lock' # NoTab PROVE StreamOK(LeaderAt', mine', stream'.pos, stream'.out)
  BY <1>1, <1>7, <1>8, <1>15 DEF FeedInv
<1> QED BY <1>13, <1>14, <1>15, InvFromWindows

\* A step that changes one window, and perhaps what is in the inboxes of others.
LEMMA OneWindowStep ==
    ASSUME FeedInv, NEW t \in Tab, NEW rr \in TabRecord, NEW L,
           tab' = [tab EXCEPT ![t] = rr], known' = [known EXCEPT ![t] = L],
           UNCHANGED ringVars, inbox' \in [Tab -> Seq(MessageRecord)],
           lock' \in Tab \cup {NoTab}, rr.mode = "lead" <=> lock' = t,
           \A u \in Tab : u # t => (lock' = u <=> lock = u),
           Placed(rr, L, inbox'[t], top), WindowOK(rr, L, mine, inbox'[t], LeaderAt'),
           \A u \in Tab : u # t => Good(u, inbox'[u], LeaderAt'),
           stream' \in StreamRecord, stream'.pos <= top,
           \A i \in DOMAIN stream'.out : stream'.out[i].id <= top,
           lock' # NoTab => StreamOK(LeaderAt', mine, stream'.pos, stream'.out)
    PROVE  FeedInv'
<1>1. /\ top' = top /\ low' = low /\ mine' = mine /\ tab \in [Tab -> TabRecord]
      /\ known \in [Tab -> SUBSET Nat] /\ top \in Nat
  BY DEF ringVars, FeedInv, Types
<1>2. tab'[t] = rr /\ known'[t] = L
      /\ \A u \in Tab : u # t => tab'[u] = tab[u] /\ known'[u] = known[u]
  BY <1>1
<1>3. L \in SUBSET Nat
  BY <1>1 DEF Placed
<1>4. tab' \in [Tab -> TabRecord] /\ known' \in [Tab -> SUBSET Nat]
  BY <1>1, <1>3
<1>5. Types'
  BY <1>1, <1>4 DEF Types, FeedInv
<1>6. ASSUME NEW u \in Tab
      PROVE  /\ Placed(tab'[u], known'[u], inbox'[u], top')
             /\ tab'[u].mode = "lead" <=> lock' = u
             /\ WindowOK(tab'[u], known'[u], mine', inbox'[u], LeaderAt')
  <2>1. CASE u = t
    BY <1>1, <1>2, <2>1
  <2>2. CASE u # t
    <3>1. tab[u].mode = "lead" <=> lock = u
      BY DEF FeedInv
    <3>2. Good(u, inbox'[u], LeaderAt') /\ (lock' = u <=> lock = u)
      BY <2>2
    <3> QED BY <1>1, <1>2, <2>2, <3>1, <3>2 DEF Good
  <2> QED BY <2>1, <2>2
<1> QED BY <1>1, <1>5, <1>6, InvFromWindows

\* A window that does not lead, or stays where it is, moves no leader.
LEMMA SameLeader ==
    ASSUME FeedInv, NEW t \in Tab, NEW rr, tab' = [tab EXCEPT ![t] = rr], lock' = lock,
           lock = t => rr.last = tab[t].last
    PROVE  LeaderAt' = LeaderAt
<1>1. tab \in [Tab -> TabRecord] /\ lock \in Tab \cup {NoTab}
  BY DEF FeedInv, Types
<1>2. CASE lock = NoTab
  BY <1>2 DEF LeaderAt
<1>3. CASE lock # NoTab
  <2>1. lock \in Tab /\ LeaderAt = tab[lock].last /\ LeaderAt' = tab'[lock].last
    BY <1>1, <1>3 DEF LeaderAt
  <2> QED BY <1>1, <2>1
<1> QED BY <1>2, <1>3

\* A step that teaches a window nothing.
LEMMA SameKnown ==
    ASSUME FeedInv, NEW t \in Tab
    PROVE  known = [known EXCEPT ![t] = known[t]]
BY DEF FeedInv, Types

\* A step that moves a window and leaves the channel and the stream alone.
LEMMA QuietStep ==
    ASSUME FeedInv, NEW t \in Tab, NEW rr \in TabRecord, NEW L,
           tab' = [tab EXCEPT ![t] = rr], known' = [known EXCEPT ![t] = L],
           UNCHANGED <<ringVars, stream, lock>>, inbox' \in [Tab -> Seq(MessageRecord)],
           \A u \in Tab : u # t => inbox'[u] = inbox[u],
           rr.mode = "lead" <=> lock = t, lock = t => rr.last = tab[t].last,
           Placed(rr, L, inbox'[t], top), WindowOK(rr, L, mine, inbox'[t], LeaderAt)
    PROVE  FeedInv'
<1>1. LeaderAt' = LeaderAt /\ stream' = stream /\ lock' = lock /\ UNCHANGED ringVars
  BY SameLeader
<1>2. \A u \in Tab : u # t => Good(u, inbox'[u], LeaderAt')
  BY <1>1, InvGood
<1>3. /\ stream \in StreamRecord /\ stream.pos <= top /\ lock \in Tab \cup {NoTab}
      /\ \A i \in DOMAIN stream.out : stream.out[i].id <= top
      /\ lock # NoTab => StreamOK(LeaderAt, mine, stream.pos, stream.out)
  BY DEF FeedInv, Types
<1>4. lock' # NoTab => StreamOK(LeaderAt', mine, stream'.pos, stream'.out)
  BY <1>1, <1>3
<1>5. stream' \in StreamRecord /\ stream'.pos <= top /\ lock' \in Tab \cup {NoTab}
      /\ \A i \in DOMAIN stream'.out : stream'.out[i].id <= top
  BY <1>1, <1>3
<1>6. (rr.mode = "lead" <=> lock' = t) /\ \A u \in Tab : u # t => (lock' = u <=> lock = u)
  BY <1>1
<1>7. WindowOK(rr, L, mine, inbox'[t], LeaderAt')
  BY <1>1
<1> QED BY <1>1, <1>2, <1>4, <1>5, <1>6, <1>7, OneWindowStep

----------------------------------------------------------------------------
(* The steps.                                                               *)

\* Windows that begin where they left off know all up to there.
LEMMA InitInv ==
    ASSUME Init PROVE FeedInv
<1>1. top = Past /\ low = 1 /\ mine \in SUBSET (1..Past) /\ Past \in Nat /\ lock = NoTab
      /\ inbox = [t \in Tab |-> <<>>] /\ stream = NoStream
  BY TabAssumption DEF Init
<1>2. PICK at \in [Tab -> 0..Past] : /\ tab = [t \in Tab |-> NewTab(at[t])]
                                     /\ known = [t \in Tab |-> mine \cap 1..at[t]]
  BY DEF Init
<1>3. ASSUME NEW t \in Tab
      PROVE  /\ tab[t] \in TabRecord /\ tab[t].mode = "stopped" /\ tab[t].cursor = at[t]
             /\ tab[t].begin = at[t] /\ tab[t].last = at[t] /\ at[t] \in Nat /\ at[t] <= Past
             /\ known[t] = mine \cap 1..at[t] /\ inbox[t] = <<>>
  <2>1. at[t] \in 0..Past
    OBVIOUS
  <2>2. at[t] \in Nat /\ at[t] <= Past
    BY <1>1, <2>1
  <2>3. tab[t] = NewTab(at[t]) /\ known[t] = mine \cap 1..at[t] /\ inbox[t] = <<>>
    BY <1>1, <1>2
  <2>4. ASSUME NEW n \in Nat
        PROVE  /\ NewTab(n) \in TabRecord /\ NewTab(n).mode = "stopped"
               /\ NewTab(n).cursor = n /\ NewTab(n).begin = n /\ NewTab(n).last = n
    BY DEF NewTab, TabRecord, Modes
  <2> QED BY <2>2, <2>3, <2>4
<1>4. tab \in [Tab -> TabRecord]
  BY <1>2, <1>3
<1>5. known \in [Tab -> SUBSET Nat]
  BY <1>1, <1>2
<1>6. stream \in StreamRecord /\ stream.pos = 0 /\ stream.out = <<>>
  BY <1>1 DEF NoStream, StreamRecord
<1>7. inbox \in [Tab -> Seq(MessageRecord)]
  BY <1>1
<1>8. Types
  BY <1>1, <1>4, <1>5, <1>6, <1>7 DEF Types
<1>9. ASSUME NEW t \in Tab
      PROVE  /\ Placed(tab[t], known[t], inbox[t], top)
             /\ tab[t].mode = "lead" <=> lock = t
             /\ WindowOK(tab[t], known[t], mine, inbox[t], LeaderAt)
  <2>1. known[t] \subseteq 1..top
    BY <1>1, <1>3
  <2>2. Placed(tab[t], known[t], inbox[t], top)
    BY <1>1, <1>3, <2>1 DEF Placed
  <2>3. Knows(known[t], mine, tab[t].cursor)
    BY <1>1, <1>3 DEF Knows
  <2>4. tab[t].mode # "follow" /\ tab[t].mode # "lead" /\ lock # t
    BY <1>1, <1>3, TabAssumption
  <2> QED BY <2>2, <2>3, <2>4 DEF WindowOK
<1> QED BY <1>1, <1>8, <1>9 DEF FeedInv

\* An event is appended beyond all that was said; retention says nothing.
LEMMA ChangeStep ==
    ASSUME FeedInv, Change PROVE FeedInv'
<1>1. UNCHANGED <<stream, tab, inbox, lock, known>>
  BY DEF Change, tabVars
<1>2. /\ top \in Nat /\ top' \in Nat /\ top <= top' /\ low' \in 1..top' + 1
      /\ mine \subseteq mine' /\ mine' \subseteq 1..top' /\ mine' \subseteq mine \cup {top + 1}
  <2>1. top \in Nat /\ low \in 1..top + 1 /\ mine \subseteq 1..top
    BY DEF FeedInv, Types
  <2>2. CASE AppendEvent
    BY <2>1, <2>2 DEF AppendEvent
  <2>3. CASE Trim
    BY <2>1, <2>3 DEF Trim
  <2> QED BY <2>2, <2>3 DEF Change
<1>3. LeaderAt' = LeaderAt
  BY <1>1 DEF LeaderAt
<1>4. Types'
  <2>1. stream \in StreamRecord /\ stream.pos <= top
        /\ \A i \in DOMAIN stream.out : stream.out[i].id <= top /\ stream.out[i].id \in Nat
    <3>1. stream \in StreamRecord /\ stream.pos <= top
          /\ \A i \in DOMAIN stream.out : stream.out[i].id <= top
      BY DEF FeedInv, Types
    <3>2. stream.out \in Seq(FrameRecord)
      BY <3>1 DEF StreamRecord
    <3> QED BY <3>1, <3>2, FrameTyped
  <2>2. stream.pos <= top' /\ \A i \in DOMAIN stream.out : stream.out[i].id <= top'
    <3>1. stream.pos \in Nat
      BY <2>1 DEF StreamRecord
    <3> QED BY <1>2, <2>1, <3>1
  <2> QED BY <1>1, <1>2, <2>1, <2>2 DEF Types, FeedInv
<1>5. ASSUME NEW u \in Tab
      PROVE  /\ Placed(tab[u], known[u], inbox[u], top')
             /\ tab[u].mode = "lead" <=> lock = u
             /\ WindowOK(tab[u], known[u], mine', inbox[u], LeaderAt)
  <2>1. /\ Placed(tab[u], known[u], inbox[u], top) /\ (tab[u].mode = "lead" <=> lock = u)
        /\ WindowOK(tab[u], known[u], mine, inbox[u], LeaderAt)
    BY DEF FeedInv
  <2>2. tab[u] \in TabRecord /\ inbox[u] \in Seq(MessageRecord)
        /\ LeaderAt \in Int /\ LeaderAt <= top
    BY InvFacts
  <2>3. WindowOK(tab[u], known[u], mine', inbox[u], LeaderAt)
    BY <1>2, <2>1, <2>2, EventAppended
  <2>4. \A i \in DOMAIN inbox[u] : inbox[u][i].id \in Nat
    BY <2>2, MessageTyped
  <2>5. 1..top \subseteq 1..top' /\ \A n \in Nat : n <= top => n <= top'
    BY <1>2
  <2>6. Placed(tab[u], known[u], inbox[u], top')
    BY <2>1, <2>2, <2>4, <2>5, TabFields DEF Placed
  <2> QED BY <2>1, <2>3, <2>6
<1>6. ASSUME lock # NoTab PROVE StreamOK(LeaderAt, mine', stream.pos, stream.out)
  <2>1. StreamOK(LeaderAt, mine, stream.pos, stream.out)
    BY <1>6 DEF FeedInv
  <2>2. \A e \in mine' : e <= stream.pos => e \in mine
    BY <1>2 DEF FeedInv, Types, StreamRecord
  <2> QED BY <2>1, <2>2 DEF StreamOK
<1> QED BY <1>1, <1>3, <1>4, <1>5, <1>6, InvFromWindows

\* The server's side of the stream: only what is on its way changes.
LEMMA StreamStep ==
    ASSUME FeedInv, UNCHANGED <<ringVars, tabVars>>, stream' \in StreamRecord,
           stream'.pos <= top, \A i \in DOMAIN stream'.out : stream'.out[i].id <= top,
           StreamOK(LeaderAt, mine, stream'.pos, stream'.out)
    PROVE  FeedInv'
<1>1. UNCHANGED <<top, low, mine, tab, inbox, lock, known>>
  BY DEF ringVars, tabVars
<1>2. LeaderAt' = LeaderAt
  BY <1>1 DEF LeaderAt
<1>3. Types'
  BY <1>1 DEF Types, FeedInv
<1>4. \A u \in Tab : /\ Placed(tab[u], known[u], inbox[u], top)
                     /\ tab[u].mode = "lead" <=> lock = u
                     /\ WindowOK(tab[u], known[u], mine, inbox[u], LeaderAt)
  BY DEF FeedInv
<1> QED BY <1>1, <1>2, <1>3, <1>4, InvFromWindows

\* eventStream reads a page.
LEMMA SendPageStep ==
    ASSUME FeedInv, SendPage PROVE FeedInv'
<1>1. /\ stream \in StreamRecord /\ stream.pos \in 0..top /\ top \in Nat /\ mine \in SUBSET Nat
      /\ lock \in Tab \cup {NoTab} /\ Types
  BY DEF FeedInv, Types, StreamRecord
<1>2. ASSUME NEW page, Sends(page), page.frames \in Seq(FrameRecord),
             page.next \in stream.pos..top,
             \A i \in DOMAIN page.frames : page.frames[i].id <= top,
             StreamOK(stream.pos, mine, page.next, page.frames)
      PROVE  FeedInv'
  <2>1. lock # NoTab /\ stream.out = <<>> /\ UNCHANGED <<ringVars, tabVars>>
    BY <1>2 DEF Sends
  <2>2. stream' = [pos |-> page.next, out |-> page.frames, asked |-> TRUE]
    BY <1>2 DEF Sends
  <2>3. stream'.pos = page.next /\ stream'.out = page.frames
    BY <2>2
  <2>4. page.next \in Nat /\ page.next <= top
    BY <1>1, <1>2
  <2>5. stream' \in StreamRecord
    BY <1>2, <2>2, <2>4 DEF StreamRecord
  <2>6. StreamOK(LeaderAt, mine, stream.pos, <<>>)
    BY <2>1 DEF FeedInv
  <2>7. LeaderAt \in Nat
    BY <1>1, <2>1, InvFacts, TabFields
  <2>8. StreamOK(LeaderAt, mine, page.next, page.frames)
    <3>1. stream.pos \in Nat
      BY <1>1
    <3> QED BY <1>1, <1>2, <2>4, <2>6, <2>7, <3>1, StreamReads
  <2> QED BY <1>2, <2>1, <2>3, <2>4, <2>5, <2>8, StreamStep
<1>3. ASSUME NEW page \in Pages(stream.pos), Sends(page) PROVE FeedInv'
  BY <1>1, <1>2, <1>3, PageOK
<1>4. ASSUME Sends(Resync) PROVE FeedInv'
  BY <1>1, <1>2, <1>4, ResyncOK
<1> QED BY <1>3, <1>4 DEF SendPage

\* eventStream announces its end.
LEMMA CloseStreamStep ==
    ASSUME FeedInv, CloseStream PROVE FeedInv'
<1> DEFINE f == Frame("closed", 0)
<1>1. lock # NoTab /\ stream.out = <<>> /\ UNCHANGED <<ringVars, tabVars>>
      /\ stream' = [stream EXCEPT !.out = <<f>>]
  BY DEF CloseStream
<1>2. f \in FrameRecord /\ f.id = 0
  BY DEF Frame, FrameRecord, FrameKinds
<1>3. /\ stream \in StreamRecord /\ stream.pos \in Nat /\ stream.pos <= top /\ top \in Nat
      /\ lock \in Tab
  BY <1>1 DEF FeedInv, Types, StreamRecord
<1>4. LeaderAt \in Nat
  BY <1>3, InvFacts, TabFields
<1>5. StreamOK(LeaderAt, mine, stream.pos, <<f>>)
  BY <1>1, <1>3, <1>4, StreamEnds DEF FeedInv
<1> HIDE DEF f
<1>6. stream' \in StreamRecord /\ stream'.pos = stream.pos /\ stream'.out = <<f>>
  <2>1. <<f>> \in Seq(FrameRecord)
    BY <1>2
  <2>2. ASSUME NEW s \in Seq(FrameRecord)
        PROVE  /\ [stream EXCEPT !.out = s] \in StreamRecord
               /\ [stream EXCEPT !.out = s].pos = stream.pos
               /\ [stream EXCEPT !.out = s].out = s
    BY <1>3 DEF StreamRecord
  <2> QED BY <1>1, <2>1, <2>2
<1>7. \A i \in DOMAIN <<f>> : <<f>>[i].id <= top
  BY <1>2, <1>3
<1> QED BY <1>1, <1>3, <1>5, <1>6, <1>7, StreamStep

\* EventsClient.start.
LEMMA StartStep ==
    ASSUME FeedInv, NEW t \in Tab, Start(t) PROVE FeedInv'
<1> DEFINE r == tab[t]
           one == [r EXCEPT !.mode = "idle"]
           rr == [one EXCEPT !.fails = 0]
<1>1. /\ r \in TabRecord /\ tab \in [Tab -> TabRecord] /\ r.mode = "stopped"
      /\ UNCHANGED <<ringVars, stream, inbox, lock, known>>
      /\ inbox \in [Tab -> Seq(MessageRecord)]
  BY DEF Start, FeedInv, Types
<1>2. tab' = [tab EXCEPT ![t] = rr]
  BY <1>1 DEF Start, TabRecord
<1>3. /\ rr \in TabRecord /\ rr.mode = "idle" /\ rr.cursor = r.cursor /\ rr.begin = r.begin
      /\ rr.last = r.last /\ rr.early = r.early /\ rr.passed = r.passed /\ rr.skipped = r.skipped
  BY <1>1 DEF TabRecord, Modes
<1> HIDE DEF rr
<1>4. /\ Placed(r, known[t], inbox[t], top) /\ (r.mode = "lead" <=> lock = t)
      /\ WindowOK(r, known[t], mine, inbox[t], LeaderAt)
  BY DEF FeedInv
<1>5. Placed(rr, known[t], inbox[t], top)
  BY <1>1, <1>3, <1>4 DEF Placed
<1>6. WindowOK(rr, known[t], mine, inbox[t], LeaderAt)
  BY <1>3, <1>4, OutOfCall DEF Clean
<1>7. lock # t
  BY <1>1, <1>4
<1>8. known' = [known EXCEPT ![t] = known[t]]
  BY <1>1, SameKnown
<1> QED BY <1>1, <1>2, <1>3, <1>5, <1>6, <1>7, <1>8, QuietStep

\* EventsClient.stop.
LEMMA StopStep ==
    ASSUME FeedInv, NEW t \in Tab, Stop(t) PROVE FeedInv'
<1>1. EndCall(t, [Ended(tab[t]) EXCEPT !.mode = "stopped"], inbox)
      /\ UNCHANGED <<ringVars, known>>
  BY DEF Stop
<1>2. inbox \in [Tab -> Seq(MessageRecord)] /\ tab[t] \in TabRecord
  BY DEF FeedInv, Types
<1>3. EndedFrom(tab[t], [Ended(tab[t]) EXCEPT !.mode = "stopped"])
  BY <1>2, EndedFields
<1> QED BY <1>1, <1>2, <1>3, InvGood, EndCallStep

\* The stream ends without a word, or is refused.
LEMMA BreakStep ==
    ASSUME FeedInv, NEW t \in Tab, Break(t) PROVE FeedInv'
<1>1. PICK r \in Breaks(tab[t]) : EndCall(t, r, inbox) /\ UNCHANGED <<ringVars, known>>
  BY DEF Break
<1>2. inbox \in [Tab -> Seq(MessageRecord)] /\ tab[t] \in TabRecord
  BY DEF FeedInv, Types
<1>3. EndedFrom(tab[t], r)
  BY <1>1, <1>2, EndedFields DEF Breaks
<1> QED BY <1>1, <1>2, <1>3, InvGood, EndCallStep

\* A window is closed without a word.
LEMMA CloseStep ==
    ASSUME FeedInv, NEW t \in Tab, Close(t) PROVE FeedInv'
<1> DEFINE r == tab[t]
           rr == [Ended(r) EXCEPT !.mode = "closed"]
<1>1. /\ tab' = [tab EXCEPT ![t] = rr] /\ inbox' = [inbox EXCEPT ![t] = <<>>]
      /\ lock' = (IF lock = t THEN NoTab ELSE lock)
      /\ stream' = (IF lock = t THEN NoStream ELSE stream)
      /\ UNCHANGED ringVars /\ known' = known
  BY DEF Close
<1>2. /\ inbox \in [Tab -> Seq(MessageRecord)] /\ r \in TabRecord /\ tab \in [Tab -> TabRecord]
      /\ lock \in Tab \cup {NoTab}
  BY DEF FeedInv, Types
<1>3. EndedFrom(r, rr)
  BY <1>2, EndedFields
<1> HIDE DEF rr
<1>4. inbox' \in [Tab -> Seq(MessageRecord)] /\ inbox'[t] = <<>>
      /\ \A u \in Tab : u # t => inbox'[u] = inbox[u]
  BY <1>1, <1>2
<1>5. LeaderAt \in Int /\ -1 <= LeaderAt /\ top \in Nat
  BY InvFacts
<1>6. LeaderAt' = IF lock = t THEN -1 ELSE LeaderAt
  <2>1. \A u \in Tab : u # t => tab'[u] = tab[u]
    BY <1>1, <1>2
  <2> QED BY <1>1, <1>2, <2>1, TabAssumption DEF LeaderAt
<1>7. \A u \in Tab : u # t => Good(u, inbox'[u], LeaderAt')
  <2>1. LeaderAt' \in Int /\ LeaderAt' <= LeaderAt
    BY <1>5, <1>6
  <2> QED BY <1>4, <1>5, <2>1, InvGood, GoneGood
<1>8. /\ Placed(r, known[t], inbox[t], top)
      /\ WindowOK(r, known[t], mine, inbox[t], LeaderAt)
  BY DEF FeedInv
<1>9. Placed(rr, known[t], inbox'[t], top) /\ WindowOK(rr, known[t], mine, inbox'[t], LeaderAt')
  <2>1. Placed(rr, known[t], <<>>, top)
    BY <1>3, <1>8 DEF Placed, EndedFrom
  <2>2. WindowOK(rr, known[t], mine, <<>>, LeaderAt')
    BY <1>3, <1>8, OutOfCall DEF EndedFrom
  <2> QED BY <1>4, <2>1, <2>2
<1>10. /\ stream' \in StreamRecord /\ stream'.pos <= top
       /\ \A i \in DOMAIN stream'.out : stream'.out[i].id <= top
       /\ lock' # NoTab => StreamOK(LeaderAt', mine, stream'.pos, stream'.out)
  <2>1. CASE lock = t
    <3>1. NoStream \in StreamRecord /\ NoStream.pos = 0 /\ NoStream.out = <<>>
      BY DEF NoStream, StreamRecord
    <3> QED BY <1>1, <1>5, <2>1, <3>1
  <2>2. CASE lock # t
    <3>1. stream' = stream /\ lock' = lock /\ LeaderAt' = LeaderAt
      BY <1>1, <1>6, <2>2
    <3> QED BY <3>1 DEF FeedInv, Types
  <2> QED BY <2>1, <2>2
<1>11. /\ lock' \in Tab \cup {NoTab} /\ (rr.mode = "lead" <=> lock' = t)
       /\ \A u \in Tab : u # t => (lock' = u <=> lock = u)
  BY <1>1, <1>2, <1>3, TabAssumption DEF EndedFrom
<1>12. known' = [known EXCEPT ![t] = known[t]] /\ rr \in TabRecord
  BY <1>1, <1>3, SameKnown DEF EndedFrom
<1> QED BY <1>1, <1>4, <1>7, <1>9, <1>10, <1>11, <1>12, OneWindowStep

\* A post keeps inboxes inboxes, and leaves the sender's alone.
LEMMA PostedBoxes ==
    ASSUME NEW box \in [Tab -> Seq(MessageRecord)], NEW t \in Tab, NEW m \in MessageRecord
    PROVE  /\ Posted(box, t, m) \in [Tab -> Seq(MessageRecord)]
           /\ Posted(box, t, m)[t] = box[t]
<1>1. \A u \in Tab : Append(box[u], m) \in Seq(MessageRecord) /\ box[u] \in Seq(MessageRecord)
  OBVIOUS
<1> QED BY <1>1 DEF Posted

\* A window begins a call and asks who leads.
LEMMA JoinStep ==
    ASSUME FeedInv, NEW t \in Tab, Join(t) PROVE FeedInv'
<1> DEFINE r == tab[t]
           one == [r EXCEPT !.mode = "follow"]
           two == [one EXCEPT !.begin = r.cursor]
           three == [two EXCEPT !.last = r.cursor]
           rr == [three EXCEPT !.greeted = FALSE]
           m == Message("who", 0)
<1>1. /\ r \in TabRecord /\ tab \in [Tab -> TabRecord] /\ r.mode = "idle"
      /\ UNCHANGED <<ringVars, stream, lock, known>>
      /\ inbox \in [Tab -> Seq(MessageRecord)] /\ inbox' = Posted(inbox, t, m)
  BY DEF Join, FeedInv, Types
<1>2. tab' = [tab EXCEPT ![t] = rr]
  BY <1>1 DEF Join, TabRecord
<1>3. /\ rr \in TabRecord /\ rr.mode = "follow" /\ rr.cursor = r.cursor /\ rr.begin = r.cursor
      /\ rr.last = r.cursor /\ rr.early = r.early /\ rr.passed = r.passed
      /\ rr.skipped = r.skipped /\ rr.greeted = FALSE
  BY <1>1 DEF TabRecord, Modes
<1> HIDE DEF rr
<1>4. /\ Placed(r, known[t], inbox[t], top) /\ (r.mode = "lead" <=> lock = t)
      /\ WindowOK(r, known[t], mine, inbox[t], LeaderAt)
  BY DEF FeedInv
<1>5. m \in MessageRecord /\ m.kind = "who" /\ m.id = 0
  BY LostMessages
<1> HIDE DEF m
<1>6. inbox' \in [Tab -> Seq(MessageRecord)] /\ inbox'[t] = <<>>
  <2>1. inbox[t] = <<>>
    BY <1>1, <1>4 DEF Placed
  <2> QED BY <1>1, <1>5, <2>1, PostedBoxes
<1>7. lock # t /\ LeaderAt' = LeaderAt
  BY <1>1, <1>2, <1>4, SameLeader
<1>8. LeaderAt \in Int /\ mine \in SUBSET Nat /\ top \in Nat /\ lock \in Tab \cup {NoTab}
  BY InvFacts DEF FeedInv, Types
<1>9. \A u \in Tab : u # t => Good(u, inbox'[u], LeaderAt')
  <2>1. MayPost(m, mine, LeaderAt, LeaderAt)
    BY <1>5, <1>8, MayPostNothing
  <2>2. m.id <= top
    BY <1>5, <1>8
  <2> QED BY <1>1, <1>5, <1>7, <1>8, <2>1, <2>2, InvGood, PostedGood
<1>10. Placed(rr, known[t], inbox'[t], top)
  BY <1>3, <1>4, <1>6 DEF Placed
<1>11. WindowOK(rr, known[t], mine, inbox'[t], LeaderAt')
  <2>1. Clean(rr) => Clean(r)
    BY <1>3 DEF Clean
  <2>2. WindowOK(rr, known[t], mine, <<>>, LeaderAt')
    BY <1>3, <1>4, <2>1, CallBegins
  <2> QED BY <1>6, <2>2
<1>12. known' = [known EXCEPT ![t] = known[t]]
  BY <1>1, SameKnown
<1>13. /\ stream' \in StreamRecord /\ stream'.pos <= top
       /\ \A i \in DOMAIN stream'.out : stream'.out[i].id <= top
       /\ lock' # NoTab => StreamOK(LeaderAt', mine, stream'.pos, stream'.out)
  <2>1. stream' = stream /\ lock' = lock
    BY <1>1
  <2> QED BY <1>7, <2>1 DEF FeedInv, Types
<1>14. /\ lock' \in Tab \cup {NoTab} /\ (rr.mode = "lead" <=> lock' = t)
       /\ \A u \in Tab : u # t => (lock' = u <=> lock = u)
  BY <1>1, <1>3, <1>7, <1>8
<1>15. UNCHANGED ringVars
  BY <1>1
<1> QED BY <1>2, <1>3, <1>6, <1>9, <1>10, <1>11, <1>12, <1>13, <1>14, <1>15, OneWindowStep

\* A window is granted the lock and says where it is.
LEMMA LeadStep ==
    ASSUME FeedInv, NEW t \in Tab, Lead(t) PROVE FeedInv'
<1> DEFINE r == tab[t]
           x == Left(r)
           rr == [x EXCEPT !.mode = "lead"]
           m == Message("open", r.last)
<1>1. /\ r.mode = "follow" /\ lock = NoTab /\ lock' = t /\ tab' = [tab EXCEPT ![t] = rr]
      /\ inbox' = Posted(inbox, t, m) /\ stream' = [NoStream EXCEPT !.pos = r.last]
      /\ UNCHANGED ringVars /\ known' = known
  BY DEF Lead
<1>2. /\ r \in TabRecord /\ tab \in [Tab -> TabRecord] /\ inbox \in [Tab -> Seq(MessageRecord)]
      /\ Placed(r, known[t], inbox[t], top) /\ WindowOK(r, known[t], mine, inbox[t], LeaderAt)
  BY DEF FeedInv, Types
<1>3. /\ r.last \in Nat /\ r.last <= top /\ r.last = r.cursor /\ LeaderAt \in Int
  BY <1>1, <1>2, InvFacts, TabFields DEF Placed
<1>4. /\ x \in TabRecord /\ x.cursor = r.cursor /\ x.begin = r.begin /\ x.last = r.last
      /\ Clean(x) => Clean(r)
  BY <1>2, LeftFields
<1> HIDE DEF x
<1>5. /\ rr \in TabRecord /\ rr.mode = "lead" /\ rr.cursor = x.cursor /\ rr.begin = x.begin
      /\ rr.last = x.last /\ rr.early = x.early /\ rr.passed = x.passed
      /\ rr.skipped = x.skipped
  BY <1>4 DEF TabRecord, Modes
<1> HIDE DEF rr
<1>6. tab'[t] = rr
  BY <1>1, <1>2
<1>7. LeaderAt' = r.last
  BY <1>1, <1>4, <1>5, <1>6, TabAssumption DEF LeaderAt
<1>8. m \in MessageRecord /\ m.kind = "open" /\ m.id = r.last
  BY <1>3, LostMessages
<1> HIDE DEF m
<1>9. inbox' \in [Tab -> Seq(MessageRecord)] /\ inbox'[t] = inbox[t]
  BY <1>1, <1>2, <1>8, PostedBoxes
<1>10. \A u \in Tab : u # t => Good(u, inbox'[u], LeaderAt')
  <2>1. MayPost(m, mine, LeaderAt, r.last)
    BY <1>3, <1>8 DEF MayPost
  <2>2. m.id <= top /\ r.last \in Int
    BY <1>3, <1>8
  <2> QED BY <1>1, <1>3, <1>7, <1>8, <2>1, <2>2, InvGood, PostedGood
<1>11. Placed(rr, known[t], inbox'[t], top)
  BY <1>1, <1>2, <1>4, <1>5, <1>9 DEF Placed
<1>12. WindowOK(rr, known[t], mine, inbox'[t], LeaderAt')
  <2>1. Clean(rr) => Clean(r)
    BY <1>4, <1>5 DEF Clean
  <2> QED BY <1>2, <1>4, <1>5, <2>1, OutOfCall
<1>13. stream' \in StreamRecord /\ stream'.pos = r.last /\ stream'.out = <<>>
  <2>1. NoStream \in StreamRecord /\ NoStream.out = <<>>
    BY DEF NoStream, StreamRecord
  <2>2. ASSUME NEW s \in StreamRecord, NEW n \in Nat
        PROVE  /\ [s EXCEPT !.pos = n] \in StreamRecord /\ [s EXCEPT !.pos = n].pos = n
               /\ [s EXCEPT !.pos = n].out = s.out
    BY DEF StreamRecord
  <2> QED BY <1>1, <1>3, <2>1, <2>2
<1>14. StreamOK(LeaderAt', mine, stream'.pos, stream'.out)
  <2>1. \A e \in mine : ~(r.last < e /\ e <= r.last)
    BY <1>3, InvFacts
  <2>2. DOMAIN <<>> = {} /\ r.last <= r.last
    BY <1>3
  <2>3. StreamOK(r.last, mine, r.last, <<>>)
    BY <2>1, <2>2 DEF StreamOK
  <2> QED BY <1>7, <1>13, <2>3
<1>15. /\ lock' \in Tab \cup {NoTab} /\ (rr.mode = "lead" <=> lock' = t)
       /\ \A u \in Tab : u # t => (lock' = u <=> lock = u)
  BY <1>1, <1>5, TabAssumption
<1>16. known' = [known EXCEPT ![t] = known[t]]
  BY <1>1, SameKnown
<1>17. stream'.pos <= top /\ \A i \in DOMAIN stream'.out : stream'.out[i].id <= top
  BY <1>3, <1>13
<1> QED BY <1>1, <1>5, <1>9, <1>10, <1>11, <1>12, <1>13, <1>14, <1>15, <1>16, <1>17, OneWindowStep

\* What a window learns from a frame.
LEMMA LearnsFacts ==
    ASSUME FeedInv, NEW t \in Tab, NEW kind, NEW id \in Nat, id <= top,
           kind = "event" => id # 0
    PROVE  /\ known[t] \subseteq Learns(t, Frame(kind, id))
           /\ Learns(t, Frame(kind, id)) \subseteq 1..top
           /\ kind = "event" => id \in Learns(t, Frame(kind, id))
           /\ kind = "resync" => 1..top \subseteq Learns(t, Frame(kind, id))
<1> DEFINE f == Frame(kind, id)
<1>1. f.kind = kind /\ f.id = id
  BY DEF Frame
<1> HIDE DEF f
<1>2. known[t] \subseteq 1..top /\ top \in Nat
  BY InvFacts DEF FeedInv, Placed
<1>3. CASE kind = "event"
  <2>1. Learns(t, f) = known[t] \cup {id}
    BY <1>1, <1>3 DEF Learns
  <2>2. id \in 1..top
    BY <1>2, <1>3
  <2> QED BY <1>2, <1>3, <2>1, <2>2 DEF f
<1>4. CASE kind = "resync"
  <2>1. Learns(t, f) = known[t] \cup 1..top
    BY <1>1, <1>4 DEF Learns
  <2> QED BY <1>2, <1>4, <2>1 DEF f
<1>5. CASE kind # "event" /\ kind # "resync"
  <2>1. Learns(t, f) = known[t]
    BY <1>1, <1>5 DEF Learns
  <2> QED BY <1>2, <1>5, <2>1 DEF f
<1> QED BY <1>3, <1>4, <1>5

\* A relayed frame vouches for what the frame shows.
LEMMA RelayedFields ==
    ASSUME NEW f \in FrameRecord
    PROVE  /\ Relayed(f) \in MessageRecord /\ Relayed(f).kind = "event"
           /\ Relayed(f).id = f.id /\ Relayed(f).of = f.kind
           /\ f = Frame(f.kind, f.id)
           /\ \A e : Shows(f, e) => VouchesFor(Relayed(f), e)
<1>1. /\ Relayed(f) \in MessageRecord /\ Relayed(f).kind = "event"
      /\ Relayed(f).id = f.id /\ Relayed(f).of = f.kind
  BY DEF Relayed, MessageRecord, FrameRecord
<1>2. f = Frame(f.kind, f.id)
  BY DEF FrameRecord, Frame
<1>3. \A e : Shows(f, e) => VouchesFor(Relayed(f), e)
  BY <1>1 DEF Shows, VouchesFor
<1> QED BY <1>1, <1>2, <1>3

\* The leader takes a frame and posts it.
LEMMA ReceiveStep ==
    ASSUME FeedInv, NEW t \in Tab, Receive(t) PROVE FeedInv'
<1> DEFINE r == tab[t]
           out == stream.out
           f == Head(out)
           m == Relayed(f)
<1>1. lock = t /\ out # <<>> /\ UNCHANGED ringVars
  BY DEF Receive
<1>2. /\ r \in TabRecord /\ tab \in [Tab -> TabRecord] /\ inbox \in [Tab -> Seq(MessageRecord)]
      /\ Placed(r, known[t], inbox[t], top) /\ WindowOK(r, known[t], mine, inbox[t], LeaderAt)
      /\ r.mode = "lead" /\ stream \in StreamRecord /\ stream.pos <= top
  BY <1>1 DEF FeedInv, Types
<1>3. /\ LeaderAt = r.last /\ r.last = r.cursor /\ r.last \in Nat /\ top \in Nat /\ lock # NoTab
      /\ mine \in SUBSET (1..top) /\ mine \in SUBSET Nat
  BY <1>1, <1>2, InvFacts, TabFields DEF Placed
<1>4. out \in Seq(FrameRecord) /\ stream.pos \in Nat
  BY <1>2 DEF StreamRecord
<1>5. StreamOK(r.last, mine, stream.pos, out) /\ \A i \in DOMAIN out : out[i].id <= top
  BY <1>3 DEF FeedInv, Types
<1>6. f = out[1] /\ 1 \in DOMAIN out /\ f \in FrameRecord /\ Tail(out) \in Seq(FrameRecord)
      /\ \A i \in DOMAIN Tail(out) : i + 1 \in DOMAIN out /\ Tail(out)[i] = out[i + 1]
  BY <1>1, <1>4
<1>7. f.id \in Nat /\ f.kind \in FrameKinds /\ (f.kind = "event" => f.id # 0) /\ f.id <= top
  BY <1>4, <1>5, <1>6, FrameTyped
<1>8. /\ m \in MessageRecord /\ m.kind = "event" /\ m.id = f.id
      /\ f = Frame(f.kind, f.id) /\ \A e : Shows(f, e) => VouchesFor(m, e)
  BY <1>6, RelayedFields
<1>9. CASE f.kind = "closed"
  <2>1. EndCall(t, Ended(r), Posted(inbox, t, m)) /\ known' = known
    BY <1>9 DEF Receive
  <2>2. m.id = 0
    BY <1>5, <1>6, <1>8, <1>9 DEF StreamOK
  <2> HIDE DEF m
  <2>3. MayPost(m, mine, LeaderAt, LeaderAt) /\ LeaderAt \in Int /\ m.id <= top
    <3>1. LeaderAt \in Int /\ m.id <= top /\ m.kind # "open"
      BY <1>3, <1>8, <2>2
    <3>2. LeaderAt <= LeaderAt
      BY <3>1
    <3> QED BY <1>3, <2>2, <3>1, <3>2, MayPostNothing
  <2>4. \A u \in Tab : u # t => Good(u, Posted(inbox, t, m)[u], LeaderAt)
    BY <1>8, <2>3, InvGood, PostedGood
  <2>5. Posted(inbox, t, m) \in [Tab -> Seq(MessageRecord)]
    BY <1>2, <1>8, PostedBoxes
  <2>6. EndedFrom(r, Ended(r))
    BY <1>2, EndedFields
  <2> QED BY <1>1, <2>1, <2>4, <2>5, <2>6, EndCallStep
<1>10. CASE f.kind # "closed"
  <2> DEFINE rr == Delivered(r, f)
             L == Learns(t, f)
  <2>1. /\ tab' = [tab EXCEPT ![t] = rr] /\ known' = [known EXCEPT ![t] = L]
        /\ inbox' = Posted(inbox, t, m) /\ stream' = [stream EXCEPT !.out = Tail(out)]
        /\ lock' = lock
    BY <1>10 DEF Receive
  <2> HIDE DEF m
  <2>2. /\ r.last <= f.id
        /\ \A e \in mine : r.last < e /\ e <= f.id => Shows(f, e)
        /\ StreamOK(f.id, mine, stream.pos, Tail(out))
    BY <1>1, <1>3, <1>4, <1>5, <1>10, StreamHead
  <2>3. /\ rr \in TabRecord /\ rr.mode = r.mode /\ rr.begin = r.begin
        /\ rr.greeted = r.greeted /\ rr.cursor = f.id /\ rr.last = f.id
        /\ Clean(rr) /\ f.kind # "resync" => Clean(r)
    BY <1>2, <1>7, <1>8, DeliveredFields
  <2>4. /\ known[t] \subseteq L /\ L \subseteq 1..top /\ (f.kind = "event" => f.id \in L)
        /\ f.kind = "resync" => 1..top \subseteq L
    BY <1>7, <1>8, LearnsFacts
  <2> HIDE DEF f, rr, L, out
  <2>5. tab'[t] = rr
    BY <1>2, <2>1
  <2>6. LeaderAt' = f.id
    BY <1>1, <1>3, <2>1, <2>3, <2>5 DEF LeaderAt
  <2>7. inbox' \in [Tab -> Seq(MessageRecord)] /\ inbox'[t] = inbox[t]
    BY <1>2, <1>8, <2>1, PostedBoxes
  <2>8. \A u \in Tab : u # t => Good(u, inbox'[u], LeaderAt')
    <3>1. MayPost(m, mine, LeaderAt, f.id)
      BY <1>3, <1>8, <2>2 DEF MayPost
    <3>2. LeaderAt \in Int /\ f.id \in Int /\ m.id <= top
      BY <1>3, <1>7, <1>8
    <3> QED BY <1>8, <2>1, <2>6, <3>1, <3>2, InvGood, PostedGood
  <2>9. Placed(rr, L, inbox'[t], top)
    <3>1. rr.cursor <= top /\ rr.begin <= top /\ rr.last <= top /\ rr.last = rr.cursor
      BY <1>2, <1>7, <2>3 DEF Placed
    <3>2. \A i \in DOMAIN inbox'[t] : inbox'[t][i].id <= top
      BY <1>2, <2>7 DEF Placed
    <3> QED BY <1>2, <2>3, <2>4, <3>1, <3>2 DEF Placed
  <2>10. WindowOK(rr, L, mine, inbox'[t], LeaderAt')
    <3>1. CASE f.kind = "resync"
      <4>1. mine \subseteq L
        BY <1>3, <2>4, <3>1
      <4> QED BY <4>1, AllKnown
    <3>2. CASE f.kind # "resync"
      <4>1. SUFFICES ASSUME Clean(rr) PROVE Knows(L, mine, f.id)
        BY <1>2, <2>3 DEF WindowOK
      <4>2. Knows(known[t], mine, r.cursor)
        BY <1>2, <2>3, <3>2, <4>1 DEF WindowOK
      <4>3. ASSUME NEW e \in mine, e <= f.id PROVE e \in L
        <5>1. CASE e <= r.last
          BY <1>3, <2>4, <4>2, <5>1 DEF Knows
        <5>2. CASE r.last < e
          <6>1. Shows(f, e)
            BY <2>2, <4>3, <5>2
          <6> QED BY <2>4, <3>2, <6>1 DEF Shows
        <5>3. e \in Nat
          BY <1>3
        <5> QED BY <1>3, <5>1, <5>2, <5>3
      <4> QED BY <4>3 DEF Knows
    <3> QED BY <3>1, <3>2
  <2>11. stream' \in StreamRecord /\ stream'.pos = stream.pos /\ stream'.out = Tail(out)
    <3>1. ASSUME NEW s \in Seq(FrameRecord)
          PROVE  /\ [stream EXCEPT !.out = s] \in StreamRecord
                 /\ [stream EXCEPT !.out = s].pos = stream.pos
                 /\ [stream EXCEPT !.out = s].out = s
      BY <1>2 DEF StreamRecord
    <3> QED BY <1>6, <2>1, <3>1
  <2>12. \A i \in DOMAIN stream'.out : stream'.out[i].id <= top
    BY <1>5, <1>6, <2>11
  <2>13. StreamOK(LeaderAt', mine, stream'.pos, stream'.out)
    BY <2>2, <2>6, <2>11
  <2>14. /\ lock' \in Tab \cup {NoTab} /\ (rr.mode = "lead" <=> lock' = t)
         /\ \A u \in Tab : u # t => (lock' = u <=> lock = u)
    BY <1>1, <1>2, <2>1, <2>3
  <2>15. stream'.pos <= top
    BY <1>2, <2>11
  <2> QED BY <1>1, <2>1, <2>3, <2>7, <2>8, <2>9, <2>10, <2>11, <2>12, <2>13, <2>14, <2>15,
             OneWindowStep
<1> QED BY <1>9, <1>10

\* EventsClient.pollOnce.
LEMMA PollStep ==
    ASSUME FeedInv, NEW t \in Tab, Poll(t) PROVE FeedInv'
<1> DEFINE r == tab[t]
<1>1. /\ r.mode = "idle" /\ UNCHANGED <<ringVars, stream, inbox, lock>> /\ r \in TabRecord
      /\ tab \in [Tab -> TabRecord] /\ inbox \in [Tab -> Seq(MessageRecord)] /\ Types
      /\ known \in [Tab -> SUBSET Nat]
  BY DEF Poll, FeedInv, Types
<1>2. PICK page \in Pages(r.cursor) :
          /\ tab' = [tab EXCEPT ![t].cursor = page.next,
                       ![t].skipped = @ /\ \A f \in ToSet(page.frames) : f.kind # "resync"]
          /\ known' = [known EXCEPT ![t] = @ \cup UNION {Learns(t, f) : f \in ToSet(page.frames)}]
  BY DEF Poll
<1> DEFINE out == page.frames
           calm == \A f \in ToSet(page.frames) : f.kind # "resync"
           one == [r EXCEPT !.cursor = page.next]
           rr == [one EXCEPT !.skipped = @ /\ calm]
           L == known[t] \cup UNION {Learns(t, f) : f \in ToSet(out)}
<1>3. /\ Placed(r, known[t], inbox[t], top) /\ (r.mode = "lead" <=> lock = t)
      /\ WindowOK(r, known[t], mine, inbox[t], LeaderAt)
  BY DEF FeedInv
<1>4. r.cursor \in 0..top /\ top \in Nat /\ r.cursor \in Nat
  <2>1. r.cursor \in Nat /\ r.cursor <= top /\ top \in Nat
    BY <1>1, <1>3, TabFields DEF Placed, Types
  <2> QED BY <2>1
<1>5. /\ out \in Seq(FrameRecord) /\ page.next \in r.cursor..top
      /\ \A i \in DOMAIN out : out[i].id <= top
      /\ StreamOK(r.cursor, mine, page.next, out)
  BY <1>1, <1>2, <1>4, PageOK
<1>6. page.next \in Nat /\ page.next <= top
  BY <1>4, <1>5
<1>7. tab' = [tab EXCEPT ![t] = rr] /\ known' = [known EXCEPT ![t] = L]
  BY <1>1, <1>2 DEF TabRecord
<1> HIDE DEF calm
<1>8. /\ rr \in TabRecord /\ rr.mode = "idle" /\ rr.cursor = page.next /\ rr.begin = r.begin
      /\ rr.last = r.last /\ rr.early = r.early /\ rr.passed = r.passed
      /\ rr.skipped = (r.skipped /\ calm)
  <2>1. calm \in BOOLEAN
    BY DEF calm
  <2>2. /\ one \in TabRecord /\ one.mode = r.mode /\ one.cursor = page.next
        /\ one.begin = r.begin /\ one.last = r.last /\ one.early = r.early
        /\ one.passed = r.passed /\ one.skipped = r.skipped
    BY <1>1, <1>6 DEF TabRecord
  <2> HIDE DEF one
  <2>3. /\ rr \in TabRecord /\ rr.mode = one.mode /\ rr.cursor = one.cursor
        /\ rr.begin = one.begin /\ rr.last = one.last /\ rr.early = one.early
        /\ rr.passed = one.passed /\ rr.skipped = (one.skipped /\ calm)
    BY <2>1, <2>2 DEF TabRecord
  <2> QED BY <1>1, <2>2, <2>3
<1> HIDE DEF rr, L, out
<1>9. ASSUME NEW i \in DOMAIN out
      PROVE  /\ out[i] \in ToSet(out) /\ Learns(t, out[i]) \subseteq L
             /\ Learns(t, out[i]) \subseteq 1..top
             /\ out[i].kind = "event" => out[i].id \in L
             /\ out[i].kind = "resync" => 1..top \subseteq L
  <2>1. out[i] \in FrameRecord
    BY <1>5
  <2>2. /\ out[i].id \in Nat /\ (out[i].kind = "event" => out[i].id # 0)
        /\ out[i] = Frame(out[i].kind, out[i].id) /\ out[i].id <= top
    BY <1>5, <2>1, FrameTyped, RelayedFields
  <2>3. out[i] \in ToSet(out)
    BY DEF ToSet
  <2>4. Learns(t, out[i]) \subseteq L
    BY <2>3 DEF L
  <2>5. /\ Learns(t, out[i]) \subseteq 1..top
        /\ out[i].kind = "event" => out[i].id \in Learns(t, out[i])
        /\ out[i].kind = "resync" => 1..top \subseteq Learns(t, out[i])
    BY <2>2, LearnsFacts
  <2> QED BY <2>3, <2>4, <2>5
<1>10. \A f \in ToSet(out) : \E i \in DOMAIN out : f = out[i]
  BY DEF ToSet
<1>11. known[t] \subseteq L /\ L \subseteq 1..top
  <2>1. known[t] \subseteq 1..top
    BY <1>3 DEF Placed
  <2> QED BY <1>9, <1>10, <2>1 DEF L
<1>12. Placed(rr, L, inbox[t], top)
  BY <1>1, <1>3, <1>6, <1>8, <1>11 DEF Placed
<1>13. WindowOK(rr, L, mine, inbox[t], LeaderAt)
  <2>1. CASE \E i \in DOMAIN out : out[i].kind = "resync"
    <3>1. mine \subseteq L
      BY <1>1, <1>9, <2>1 DEF Types
    <3> QED BY <3>1, AllKnown
  <2>2. CASE \A i \in DOMAIN out : out[i].kind # "resync"
    <3>1. calm
      BY <1>10, <2>2 DEF calm, out
    <3>2. Clean(rr) => Clean(r)
      BY <1>8, <3>1 DEF Clean
    <3>3. SUFFICES ASSUME Clean(rr) PROVE Knows(L, mine, page.next)
      BY <1>8 DEF WindowOK
    <3>4. Knows(known[t], mine, r.cursor)
      BY <1>3, <3>2, <3>3 DEF WindowOK
    <3>5. ASSUME NEW e \in mine, e <= page.next PROVE e \in L
      <4>1. CASE e <= r.cursor
        BY <1>11, <3>4, <4>1 DEF Knows
      <4>2. CASE r.cursor < e
        <5>1. PICK i \in DOMAIN out : Shows(out[i], e)
          BY <1>5, <3>5, <4>2 DEF StreamOK
        <5> QED BY <1>9, <2>2, <5>1 DEF Shows
      <4>3. e \in Nat
        BY InvFacts
      <4> QED BY <1>4, <4>1, <4>2, <4>3
    <3> QED BY <3>5 DEF Knows
  <2> QED BY <2>1, <2>2
<1>14. lock # t
  BY <1>1, <1>3
<1> QED BY <1>1, <1>7, <1>8, <1>12, <1>13, <1>14, QuietStep

\* The leader hears another window, and answers when it is asked.
LEMMA LeaderHears ==
    ASSUME FeedInv, NEW t \in Tab, tab[t].mode = "lead", inbox[t] # <<>>,
           inbox' = Answered([inbox EXCEPT ![t] = Tail(@)], t, Head(inbox[t])),
           UNCHANGED <<ringVars, tab, lock, known, stream>>
    PROVE  FeedInv'
<1> DEFINE r == tab[t]
           m == Message("open", r.last)
           rest == [inbox EXCEPT ![t] = Tail(@)]
<1>1. /\ r \in TabRecord /\ tab \in [Tab -> TabRecord] /\ inbox \in [Tab -> Seq(MessageRecord)]
      /\ Placed(r, known[t], inbox[t], top) /\ WindowOK(r, known[t], mine, inbox[t], LeaderAt)
      /\ lock = t
  BY DEF FeedInv, Types
<1>2. LeaderAt = r.last /\ r.last \in Nat /\ r.last <= top
  BY <1>1, InvFacts, TabFields DEF Placed
<1>3. m \in MessageRecord /\ m.kind = "open" /\ m.id = r.last
  BY <1>2, LostMessages
<1>4. /\ rest \in [Tab -> Seq(MessageRecord)] /\ rest[t] = Tail(inbox[t])
      /\ \A u \in Tab : u # t => rest[u] = inbox[u]
  BY <1>1
<1>5. inbox' = IF Head(inbox[t]).kind = "who" THEN Posted(rest, t, m) ELSE rest
  BY DEF Answered
<1> HIDE DEF m, rest
<1>6. LeaderAt' = LeaderAt
  BY DEF LeaderAt
<1>7. /\ inbox' \in [Tab -> Seq(MessageRecord)] /\ inbox'[t] = Tail(inbox[t])
      /\ \A u \in Tab : u # t => Good(u, inbox'[u], LeaderAt')
  <2>1. \A u \in Tab : u # t => Good(u, rest[u], LeaderAt)
    BY <1>4, InvGood
  <2>2. CASE Head(inbox[t]).kind = "who"
    <3>1. MayPost(m, mine, LeaderAt, LeaderAt) /\ m.id <= top /\ LeaderAt \in Int
      BY <1>2, <1>3 DEF MayPost
    <3>2. \A u \in Tab : u # t => Good(u, Posted(rest, t, m)[u], LeaderAt)
      BY <1>3, <2>1, <3>1, PostedGood
    <3>3. inbox' = Posted(rest, t, m)
      BY <1>5, <2>2
    <3>4. Posted(rest, t, m) \in [Tab -> Seq(MessageRecord)] /\ Posted(rest, t, m)[t] = rest[t]
      BY <1>3, <1>4, PostedBoxes
    <3> QED BY ONLY <1>4, <1>6, <3>2, <3>3, <3>4
  <2>3. CASE Head(inbox[t]).kind # "who"
    BY <1>4, <1>5, <1>6, <2>1, <2>3
  <2> QED BY <2>2, <2>3
<1>8. Placed(r, known[t], inbox'[t], top)
  <2>1. \A i \in DOMAIN Tail(inbox[t]) :
            i + 1 \in DOMAIN inbox[t] /\ Tail(inbox[t])[i] = inbox[t][i + 1]
    BY <1>1
  <2> QED BY <1>1, <1>7, <2>1 DEF Placed
<1>9. WindowOK(r, known[t], mine, inbox'[t], LeaderAt')
  BY <1>1, OutOfCall
<1>10. tab' = [tab EXCEPT ![t] = r] /\ known' = [known EXCEPT ![t] = known[t]]
  BY <1>1, SameKnown
<1>11. /\ stream' \in StreamRecord /\ stream'.pos <= top
       /\ \A i \in DOMAIN stream'.out : stream'.out[i].id <= top
       /\ lock' # NoTab => StreamOK(LeaderAt', mine, stream'.pos, stream'.out)
  BY <1>6 DEF FeedInv, Types
<1>12. /\ lock' \in Tab \cup {NoTab} /\ (r.mode = "lead" <=> lock' = t)
       /\ \A u \in Tab : u # t => (lock' = u <=> lock = u)
  BY <1>1
<1>13. UNCHANGED ringVars
  OBVIOUS
<1> QED BY <1>1, <1>7, <1>8, <1>9, <1>10, <1>11, <1>12, <1>13, OneWindowStep

\* What is left of an inbox is from within the ring.
LEMMA TailPlaced ==
    ASSUME NEW box \in Seq(MessageRecord), box # <<>>, NEW n, \A i \in DOMAIN box : box[i].id <= n
    PROVE  \A i \in DOMAIN Tail(box) : Tail(box)[i].id <= n
<1>1. \A i \in DOMAIN Tail(box) : i + 1 \in DOMAIN box /\ Tail(box)[i] = box[i + 1]
  OBVIOUS
<1> QED BY <1>1

\* The listener of sharedStreamOpener, message by message.
LEMMA HearStep ==
    ASSUME FeedInv, NEW t \in Tab, Hear(t) PROVE FeedInv'
<1> DEFINE r == tab[t]
           box == inbox[t]
           m == Head(box)
           rest == [inbox EXCEPT ![t] = Tail(@)]
<1>1. box # <<>> /\ UNCHANGED ringVars
  BY DEF Hear
<1>2. /\ r \in TabRecord /\ tab \in [Tab -> TabRecord] /\ inbox \in [Tab -> Seq(MessageRecord)]
      /\ Placed(r, known[t], box, top) /\ WindowOK(r, known[t], mine, box, LeaderAt)
      /\ r.mode = "lead" <=> lock = t
  BY DEF FeedInv, Types
<1>3. box \in Seq(MessageRecord) /\ m = box[1] /\ 1 \in DOMAIN box
      /\ \A i \in DOMAIN box : box[i].id <= top
  BY <1>1, <1>2 DEF Placed
<1>4. m.id \in Nat /\ m.id <= top /\ (m.of = "event" => m.id # 0)
  BY <1>3, MessageTyped
<1>5. /\ rest \in [Tab -> Seq(MessageRecord)] /\ rest[t] = Tail(box)
      /\ \A u \in Tab : u # t => rest[u] = inbox[u]
  <2>1. Tail(box) \in Seq(MessageRecord)
    BY <1>1, <1>3
  <2> QED BY <1>2, <2>1
<1>6. \A i \in DOMAIN Tail(box) : Tail(box)[i].id <= top
  BY <1>1, <1>3, TailPlaced
<1>7. /\ top \in Nat /\ mine \in SUBSET (1..top) /\ known[t] \subseteq 1..top
      /\ r.begin <= top /\ r.cursor <= top /\ r.last <= top
  BY <1>2, InvFacts DEF Placed
<1>8. ASSUME r.mode = "follow" PROVE lock # t /\ r.last = r.cursor
  BY <1>2, <1>8 DEF Placed
<1>9. \A u \in Tab : u # t => Good(u, rest[u], LeaderAt)
  BY <1>5, InvGood
<1>10. ASSUME r.mode = "follow", inbox' = rest, UNCHANGED <<stream, lock>>,
              NEW rr \in TabRecord, NEW L, tab' = [tab EXCEPT ![t] = rr],
              known' = [known EXCEPT ![t] = L], rr.mode = "follow", rr.begin = r.begin,
              rr.cursor <= top, rr.last = rr.cursor, L \subseteq 1..top,
              WindowOK(rr, L, mine, Tail(box), LeaderAt)
       PROVE  FeedInv'
  <2>1. Placed(rr, L, Tail(box), top)
    BY <1>6, <1>7, <1>10 DEF Placed
  <2>2. Placed(rr, L, inbox'[t], top) /\ WindowOK(rr, L, mine, inbox'[t], LeaderAt)
        /\ inbox' \in [Tab -> Seq(MessageRecord)] /\ \A u \in Tab : u # t => inbox'[u] = inbox[u]
    BY <1>5, <1>10, <2>1
  <2>3. (rr.mode = "lead" <=> lock = t) /\ lock # t /\ UNCHANGED <<ringVars, stream, lock>>
    BY <1>1, <1>8, <1>10
  <2> QED BY <1>10, <2>2, <2>3, QuietStep
<1>11. CASE /\ r.mode = "lead" /\ inbox' = Answered(rest, t, m)
            /\ UNCHANGED <<tab, lock, known, stream>>
  BY <1>1, <1>11, LeaderHears
<1>12. CASE /\ r.mode = "follow" /\ m.kind = "event"
            /\ tab' = [tab EXCEPT ![t] = Delivered(r, Frame(m.of, m.id))]
            /\ known' = [known EXCEPT ![t] = Learns(t, Frame(m.of, m.id))]
            /\ inbox' = rest /\ UNCHANGED <<lock, stream>>
  <2> DEFINE rr == Delivered(r, Frame(m.of, m.id))
             L == Learns(t, Frame(m.of, m.id))
  <2>1. /\ rr \in TabRecord /\ rr.mode = r.mode /\ rr.begin = r.begin
        /\ rr.cursor = m.id /\ rr.last = m.id
    BY <1>2, <1>4, DeliveredFields
  <2>2. /\ known[t] \subseteq L /\ L \subseteq 1..top /\ (m.of = "event" => m.id \in L)
        /\ m.of = "resync" => 1..top \subseteq L
    BY <1>4, LearnsFacts
  <2>3. WindowOK(rr, L, mine, Tail(box), LeaderAt)
    BY <1>1, <1>2, <1>3, <1>7, <1>12, <2>2, HearsEvent
  <2> HIDE DEF rr, L
  <2>4. tab' = [tab EXCEPT ![t] = rr] /\ known' = [known EXCEPT ![t] = L]
    BY <1>12 DEF rr, L
  <2>5. rr.mode = "follow" /\ rr.cursor <= top /\ rr.last = rr.cursor
    BY <1>4, <1>12, <2>1
  <2>6. r.mode = "follow" /\ inbox' = rest /\ UNCHANGED <<stream, lock>>
    BY <1>12
  <2> QED BY <1>10, <2>1, <2>2, <2>3, <2>4, <2>5, <2>6
<1>13. CASE /\ r.mode = "follow" /\ EndCall(t, Ended(r), rest) /\ UNCHANGED known
  BY <1>1, <1>2, <1>5, <1>9, <1>13, EndedFields, EndCallStep
<1>14. CASE /\ r.mode = "follow" /\ m.kind = "open"
            /\ tab' = [tab EXCEPT ![t] = Greeted(r, m.id)]
            /\ known' = IF Refetches(r, m.id) THEN [known EXCEPT ![t] = @ \cup 1..top] ELSE known
            /\ inbox' = rest /\ UNCHANGED <<lock, stream>>
  <2> DEFINE rr == Greeted(r, m.id)
             L == IF Refetches(r, m.id) THEN known[t] \cup 1..top ELSE known[t]
  <2>1. /\ rr \in TabRecord /\ rr.mode = r.mode /\ rr.begin = r.begin
        /\ rr.cursor = r.cursor /\ rr.last = r.last
    BY <1>2, <1>4, GreetedFields
  <2>2. known[t] \subseteq L /\ L \subseteq 1..top /\ (Refetches(r, m.id) => 1..top \subseteq L)
    BY <1>7
  <2>3. known' = [known EXCEPT ![t] = L]
    BY <1>14, SameKnown
  <2> HIDE DEF L
  <2>4. WindowOK(rr, L, mine, Tail(box), LeaderAt)
    BY <1>1, <1>2, <1>3, <1>7, <1>8, <1>14, <2>2, HearsGreeting
  <2> HIDE DEF rr
  <2>5. tab' = [tab EXCEPT ![t] = rr]
    BY <1>14 DEF rr
  <2>6. rr.mode = "follow" /\ rr.cursor <= top /\ rr.last = rr.cursor
    BY <1>7, <1>8, <1>14, <2>1
  <2>7. r.mode = "follow" /\ inbox' = rest /\ UNCHANGED <<stream, lock>>
    BY <1>14
  <2> QED BY <1>10, <2>1, <2>2, <2>3, <2>4, <2>5, <2>6, <2>7
<1>15. CASE /\ r.mode = "follow" /\ EndCall(t, Failed(r), rest) /\ UNCHANGED known
  BY <1>1, <1>2, <1>5, <1>9, <1>15, EndedFields, EndCallStep
<1>16. CASE /\ r.mode = "follow" /\ m.kind = "who" /\ inbox' = rest
            /\ UNCHANGED <<tab, lock, known, stream>>
  <2>1. WindowOK(r, known[t], mine, Tail(box), LeaderAt)
    BY <1>1, <1>2, <1>3, <1>16, HearsQuestion
  <2>2. tab' = [tab EXCEPT ![t] = r] /\ known' = [known EXCEPT ![t] = known[t]]
    BY <1>2, <1>16, SameKnown
  <2> QED BY <1>2, <1>7, <1>8, <1>10, <1>16, <2>1, <2>2
<1> QED BY <1>11, <1>12, <1>13, <1>14, <1>15, <1>16 DEF Hear

\* Every step keeps the invariant.
LEMMA NextInv ==
    ASSUME FeedInv, [Next]_vars PROVE FeedInv'
<1>1. CASE Change
  BY <1>1, ChangeStep
<1>2. CASE SendPage
  BY <1>2, SendPageStep
<1>3. CASE CloseStream
  BY <1>3, CloseStreamStep
<1>4. ASSUME NEW t \in Tab,
             \/ Start(t) \/ Stop(t) \/ Close(t) \/ Join(t) \/ Lead(t) \/ Receive(t) \/ Break(t)
             \/ Hear(t) \/ Poll(t)
      PROVE  FeedInv'
  BY <1>4, StartStep, StopStep, CloseStep, JoinStep, LeadStep, ReceiveStep, BreakStep, HearStep,
     PollStep
<1>5. CASE UNCHANGED vars
  <2>1. UNCHANGED <<top, low, mine, stream, tab, inbox, lock, known>>
    BY <1>5 DEF vars, ringVars, tabVars
  <2>2. LeaderAt' = LeaderAt
    BY <2>1 DEF LeaderAt
  <2>3. Types'
    BY <2>1 DEF Types, FeedInv
  <2>4. \A u \in Tab : /\ Placed(tab[u], known[u], inbox[u], top)
                       /\ tab[u].mode = "lead" <=> lock = u
                       /\ WindowOK(tab[u], known[u], mine, inbox[u], LeaderAt)
    BY DEF FeedInv
  <2>5. lock # NoTab => StreamOK(LeaderAt, mine, stream.pos, stream.out)
    BY DEF FeedInv
  <2> QED BY <2>1, <2>2, <2>3, <2>4, <2>5, InvFromWindows
<1> QED BY <1>1, <1>2, <1>3, <1>4, <1>5 DEF Next

\* The invariant says what the runs check of the windows.
LEMMA InvWindow ==
    ASSUME FeedInv PROVE WindowInv
<1>1. top \in Nat /\ low \in 1..top + 1 /\ mine \subseteq 1..top
  BY DEF FeedInv, Types
<1>2. ASSUME NEW t \in Tab
      PROVE  /\ tab[t].mode \in Modes
             /\ tab[t].cursor \in 0..top /\ tab[t].last \in 0..top /\ known[t] \subseteq 1..top
             /\ ~Listens(t) => inbox[t] = <<>>
  <2>1. tab[t] \in TabRecord
    BY InvFacts
  <2>2. /\ tab[t].mode \in Modes /\ tab[t].cursor \in Nat /\ tab[t].last \in Nat
    BY <2>1 DEF TabRecord
  <2>3. Placed(tab[t], known[t], inbox[t], top)
    BY DEF FeedInv
  <2>4. tab[t].cursor <= top /\ tab[t].last <= top /\ known[t] \subseteq 1..top
    BY <2>3 DEF Placed
  <2>5. ~Listens(t) => inbox[t] = <<>>
    BY <2>3 DEF Placed, Listens
  <2> QED BY <1>1, <2>2, <2>3, <2>4, <2>5
<1>3. TypeOK
  BY <1>1, <1>2 DEF TypeOK, Modes
<1>4. ASSUME NEW t \in Tab, NEW e \in mine, e <= tab[t].cursor, e \notin known[t]
      PROVE  tab[t].early \/ tab[t].passed \/ tab[t].skipped
  <2>1. WindowOK(tab[t], known[t], mine, inbox[t], LeaderAt)
    BY DEF FeedInv
  <2>2. ~Knows(known[t], mine, tab[t].cursor)
    BY <1>4 DEF Knows
  <2>3. ~Clean(tab[t])
    BY <2>1, <2>2 DEF WindowOK
  <2> QED BY <2>3 DEF Clean
<1>5. GapHasCause
  BY <1>4 DEF GapHasCause
<1> QED BY <1>3, <1>5 DEF WindowInv

\* For any number of windows, events and budgets: what is in the inboxes and on the
\* stream accounts for every event up to the position it brings (event-feed.ts:
\* sharedStreamOpener).
THEOREM InboxesAccount == Spec => []FeedInv
<1>1. Init => FeedInv
  BY InitInv
<1>2. FeedInv /\ [Next]_vars => FeedInv'
  BY NextInv
<1> QED BY <1>1, <1>2, PTL DEF Spec

\* A window misses an event it has moved past only if it heard one before a leader
\* greeted it, or a later leader had passed it by (event-feed.ts: the listener of
\* sharedStreamOpener, on a page whose lock cannot be lost).
THEOREM GapsHaveACause == Spec => []WindowInv
<1>1. FeedInv => WindowInv
  BY InvWindow
<1> QED BY <1>1, InboxesAccount, PTL

=============================================================================
