-------------------------- MODULE WriteGateProofs --------------------------
(***************************************************************************)
(* WriteGate for any callers, capacities and reserves: one writer at a     *)
(* time, a pool whose queues, counters and limits agree with who waits,    *)
(* arrival order for every owner, grants that are legal when they are      *)
(* used, none lost, refusals only of whom the policy allows, and the       *)
(* abstract writer slot implemented step by step.                          *)
(***************************************************************************)
EXTENDS WriteGate, FiniteSetTheorems, WellFoundedInduction, TLAPS

Callers == Ticket \cup {RecoveryTurn}

PoolRecord == [order : Seq(Ticket), queues : [Class -> QueueRecord],
               deferred : [Class -> QueueRecord],
               userQueued : Nat, ownerQueued : [Owner \ {NoOwner} -> Nat]]

\* The tickets of W that count against the pool, and those of one owner.
Users(W) == {t \in W : ~Background(t)}
UsersOf(W, o) == {t \in W : ~Background(t) /\ t.owner = o}

\* The background tickets that were admitted.
Admitted(P) == UNION {Tickets(P.queues[c]) : c \in BackgroundClass}

\* One owner's line is in arrival order.
Sorted(order, s) == \A i, j \in DOMAIN s : i < j => Older(order, s[i], s[j])

\* What owner o has in class c: admitted tickets a and deferred ones d.
LineOK(order, W, c, o, a, d) ==
    /\ ToSet(a) \cup ToSet(d) = {t \in W : t.class = c /\ t.owner = o}
    /\ Sorted(order, a) /\ Sorted(order, d)
    /\ \A x \in ToSet(a), y \in ToSet(d) : Older(order, x, y)
    /\ c \in UserClass => d = <<>>

\* A rotation lists the owners that have tickets, once each.
RotationOK(q) ==
    /\ IsInjective(q.rotation)
    /\ ToSet(q.rotation) = {o \in Owner : q.tickets[o] # <<>>}

LinesOK(P, W) ==
    \A c \in Class, o \in Owner :
        LineOK(P.order, W, c, o, P.queues[c].tickets[o], P.deferred[c].tickets[o])

CountsOK(P, W) ==
    /\ P.userQueued = Cardinality(Users(W))
    /\ \A o \in Owner \ {NoOwner} : P.ownerQueued[o] = Cardinality(UsersOf(W, o))

\* The pool P holds exactly the tickets of W, each in one place.
PoolOK(P, W) ==
    /\ P \in PoolRecord
    /\ W \in SUBSET Ticket /\ IsFiniteSet(W)
    /\ IsInjective(P.order) /\ W \subseteq ToSet(P.order)
    /\ \A c \in Class : RotationOK(P.queues[c]) /\ RotationOK(P.deferred[c])
    /\ LinesOK(P, W)
    /\ CountsOK(P, W)

Bounded(P) == P.userQueued + Cardinality(Admitted(P)) <= WriterQueueCapacity

\* The place the holder h keeps of its supervisor's.
Held(h, c, o) == IF h \in Ticket /\ h.class = c /\ h.owner = o THEN 1 ELSE 0

Limited(P, h) ==
    \A c \in BackgroundClass, o \in Owner :
        Len(P.queues[c].tickets[o]) + Held(h, c, o) <= BackgroundTicketLimit(c)

\* The pool between two critical sections, W waiting and h inside.
PoolInv(P, W, h) == PoolOK(P, W) /\ ToSet(P.order) = W /\ Bounded(P) /\ Limited(P, h)

\* Whom a free gate may be granted to, and why it is granted to nobody.
LegalFor(P, W, r, g) ==
    /\ r.phase = "pause" => g = r.ticket
    /\ r.phase # "pause" =>
         /\ g \in W /\ g \in Tickets(P.queues[g.class])
         /\ Background(g) => P.userQueued = 0
         /\ r.phase = "hold" => g.class = SecurityFence /\ r.security < RecoverySecurityReserve

NobodyFor(W, r) ==
    IF r.phase = "pause" THEN r.ticket = NoTicket
    ELSE IF r.phase = "hold"
    THEN \/ r.security >= RecoverySecurityReserve
         \/ \A t \in W : t.class = SecurityFence => \E u \in W \cap blocked : u.class = SecurityFence
    ELSE /\ \A t \in W : ~Background(t) => \E u \in W \cap blocked : u.class = t.class
         /\ W # {} => W \cap blocked # {}

\* Everything but the pool has its type.
ControlTypes ==
    /\ active \in BOOLEAN /\ turn \in {"unread", "fenced", "asked"} /\ generation \in 0 .. 2
    /\ holder \in Callers \cup {NoTicket} /\ grant \in Callers \cup {NoTicket}
    /\ recovery \in RecoveryRecord
    /\ call \in [Callers -> CallStates]
    /\ aged \in SUBSET Ticket /\ blocked \in SUBSET Ticket
    /\ probed \in BOOLEAN /\ announced \in BOOLEAN

\* Who is inside.
HolderOK ==
    /\ \A t \in Callers : call[t] = "holding" <=> holder = t
    /\ active <=> holder # NoTicket
    /\ active => grant = NoTicket

\* A recovery: its turn is asked for in a pause, on an idle gate whose fence was
\* read, and nobody began since.
RecoveryOK ==
    /\ call[RecoveryTurn] = "waiting" <=> recovery.ticket = RecoveryTurn
    /\ turn # "unread" => recovery.phase = "pause"
    /\ turn = "fenced" => ~active /\ generation = 0
    /\ call[RecoveryTurn] = "waiting" => turn = "asked" /\ ~active /\ generation = 0
    /\ call[RecoveryTurn] = "holding" => turn = "asked" /\ generation = 1
    /\ recovery.phase = "none" => recovery.security = 0
    /\ recovery.security <= RecoverySecurityReserve

GrantOK ==
    /\ grant # NoTicket => announced /\ LegalFor(pool, Waiting, recovery, grant)
    /\ ~active /\ grant = NoTicket /\ ~probed => NobodyFor(Waiting, recovery)

GateInv ==
    /\ ControlTypes /\ PoolInv(pool, Waiting, holder)
    /\ HolderOK /\ RecoveryOK /\ GrantOK

----------------------------------------------------------------------------
(* Least and greatest members, and sequences without repetitions. *)

\* A set of naturals that is not empty has a least element.
LEMMA Least ==
    ASSUME NEW S \in SUBSET Nat, S # {}
    PROVE  \E m \in S : \A k \in S : m <= k
<1> DEFINE R == OpToRel(<, Nat)
<1>1. IsWellFoundedOn(R, Nat)
  BY NatLessThanWellFounded
<1>2. \A x, y \in Nat : x < y => <<x, y>> \in R
  BY DEF OpToRel
<1> HIDE DEF R
<1>3. PICK m \in S : \A y \in S : ~(<<y, m>> \in R)
  BY <1>1, WFMin
<1>4. ASSUME NEW k \in S PROVE m <= k
  <2>1. ~(k < m)
    BY <1>2, <1>3
  <2> QED BY <2>1
<1> QED BY <1>4

\* ... and a greatest one, when it is bounded.
LEMMA Greatest ==
    ASSUME NEW n \in Nat, NEW S \in SUBSET (0 .. n), S # {}
    PROVE  \E m \in S : \A k \in S : k <= m
<1> DEFINE U == {m \in Nat : \A k \in S : k <= m}
<1>1. n \in U
  OBVIOUS
<1>2. PICK m \in U : \A k \in U : m <= k
  BY <1>1, Least
<1>3. ASSUME m \notin S PROVE FALSE
  <2>1. \A k \in S : k <= m - 1 /\ m - 1 \in Nat
    BY <1>3
  <2>2. m - 1 \in U
    BY <2>1
  <2> QED BY <2>2, <1>2
<1> QED BY <1>3

\* The newest and the oldest ticket of a set that is somewhere in the order.
LEMMA NewestIs ==
    ASSUME NEW P, P.order \in Seq(Ticket), NEW S, S \cap ToSet(P.order) # {}
    PROVE  /\ Newest(P, S) \in S /\ Newest(P, S) \in ToSet(P.order)
           /\ \A t \in S \cap ToSet(P.order) : t = Newest(P, S) \/ Older(P.order, t, Newest(P, S))
<1> DEFINE n == Len(P.order)
           I == Ids(P, S)
<1>1. n \in Nat /\ DOMAIN P.order = 1 .. n
  OBVIOUS
<1>2. I \in SUBSET (0 .. n) /\ I # {} /\ I \subseteq DOMAIN P.order
  BY <1>1 DEF Ids, ToSet
<1>3. PICK m \in I : \A k \in I : k <= m
  BY <1>1, <1>2, Greatest
<1>4. \A k \in I : m >= k
  BY <1>2, <1>3
<1>5. Max(I) \in I /\ \A k \in I : Max(I) >= k
  BY <1>4 DEF Max
<1>6. PICK x \in I : x = Max(I) /\ \A k \in I : x >= k
  BY <1>5
<1>7. Newest(P, S) = P.order[x] /\ P.order[x] \in S /\ x \in DOMAIN P.order
  BY <1>2, <1>6 DEF Newest, Ids
<1>8. ASSUME NEW t \in S \cap ToSet(P.order)
      PROVE  t = P.order[x] \/ Older(P.order, t, P.order[x])
  <2>1. PICK i \in I : P.order[i] = t
    BY DEF ToSet, Ids
  <2>2. i <= x /\ i \in DOMAIN P.order
    BY <2>1, <1>6, <1>2
  <2> QED BY <2>1, <2>2, <1>1, <1>7 DEF Older
<1> QED BY <1>7, <1>8 DEF ToSet

LEMMA OldestIs ==
    ASSUME NEW P, P.order \in Seq(Ticket), NEW S, S \cap ToSet(P.order) # {}
    PROVE  Oldest(P, S) \in S /\ Oldest(P, S) \in ToSet(P.order)
<1> DEFINE n == Len(P.order)
           I == Ids(P, S)
<1>1. n \in Nat /\ DOMAIN P.order = 1 .. n
  OBVIOUS
<1>2. I \in SUBSET Nat /\ I # {} /\ I \subseteq DOMAIN P.order
  BY <1>1 DEF Ids, ToSet
<1>3. PICK m \in I : \A k \in I : m <= k
  BY <1>2, Least
<1>4. Min(I) \in I
  BY <1>3 DEF Min
<1>5. PICK x \in I : x = Min(I)
  BY <1>4
<1>6. Oldest(P, S) = P.order[x] /\ P.order[x] \in S /\ x \in DOMAIN P.order
  BY <1>2, <1>5 DEF Oldest, Ids
<1> QED BY <1>6 DEF ToSet

\* What joins a sequence, at its end or in front.
LEMMA Appended ==
    ASSUME NEW S, NEW s \in Seq(S), NEW x \in S
    PROVE  /\ Append(s, x) \in Seq(S) /\ Len(Append(s, x)) = Len(s) + 1
           /\ Append(s, x) # <<>> /\ ToSet(Append(s, x)) = ToSet(s) \cup {x}
           /\ \A i \in DOMAIN s : Append(s, x)[i] = s[i]
           /\ Append(s, x)[Len(s) + 1] = x
<1>1. PICK l \in Nat : l = Len(s) /\ DOMAIN s = 1 .. l
  OBVIOUS
<1>2. PICK u : u = Append(s, x)
  OBVIOUS
<1>3. u \in Seq(S) /\ Len(u) = l + 1 /\ u[l + 1] = x /\ \A i \in 1 .. l : u[i] = s[i]
  BY <1>1, <1>2
<1>4. DOMAIN u = 1 .. (l + 1)
  BY <1>3
<1>5. ToSet(u) = ToSet(s) \cup {x}
  <2>1. ASSUME NEW y \in ToSet(u) PROVE y \in ToSet(s) \cup {x}
    <3>1. PICK i \in 1 .. (l + 1) : u[i] = y
      BY <1>4 DEF ToSet
    <3>2. i = l + 1 \/ i \in 1 .. l
      BY <3>1
    <3> QED BY <3>1, <3>2, <1>1, <1>3 DEF ToSet
  <2>2. ASSUME NEW y \in ToSet(s) PROVE y \in ToSet(u)
    <3>1. PICK i \in 1 .. l : s[i] = y
      BY <1>1 DEF ToSet
    <3>2. i \in 1 .. (l + 1) /\ u[i] = y
      BY <3>1, <1>3
    <3> QED BY <3>2, <1>4 DEF ToSet
  <2>3. x \in ToSet(u)
    <3>1. l + 1 \in 1 .. (l + 1)
      OBVIOUS
    <3> QED BY <3>1, <1>3, <1>4 DEF ToSet
  <2> QED BY <2>1, <2>2, <2>3
<1>6. u # <<>>
  BY <1>3
<1> QED BY <1>1, <1>2, <1>3, <1>5, <1>6

LEMMA InFront ==
    ASSUME NEW S, NEW s \in Seq(S), NEW x \in S
    PROVE  /\ <<x>> \o s \in Seq(S) /\ Len(<<x>> \o s) = Len(s) + 1
           /\ <<x>> \o s # <<>> /\ ToSet(<<x>> \o s) = {x} \cup ToSet(s)
           /\ (<<x>> \o s)[1] = x
           /\ \A i \in DOMAIN s : (<<x>> \o s)[i + 1] = s[i]
<1>1. PICK l \in Nat : l = Len(s) /\ DOMAIN s = 1 .. l
  OBVIOUS
<1>0. <<x>> \in Seq(S) /\ Len(<<x>>) = 1 /\ <<x>>[1] = x
  OBVIOUS
<1>2. PICK w \in Seq(S) : w = <<x>> /\ Len(w) = 1 /\ w[1] = x
  BY <1>0
<1>3. PICK u : u = w \o s
  OBVIOUS
<1>4. /\ u \in Seq(S) /\ Len(u) = l + 1 /\ u[1] = x
      /\ \A i \in 1 .. l : u[i + 1] = s[i]
  BY <1>1, <1>2, <1>3
<1>5. DOMAIN u = 1 .. (l + 1)
  BY <1>4
<1>6. ToSet(u) = {x} \cup ToSet(s)
  <2>1. ASSUME NEW y \in ToSet(u) PROVE y \in {x} \cup ToSet(s)
    <3>1. PICK i \in 1 .. (l + 1) : u[i] = y
      BY <1>5 DEF ToSet
    <3>2. i = 1 \/ (i - 1 \in 1 .. l /\ u[(i - 1) + 1] = s[i - 1])
      BY <3>1, <1>4
    <3>3. CASE i = 1
      BY <3>1, <3>3, <1>4
    <3>4. CASE i # 1
      <4>1. i - 1 \in 1 .. l /\ (i - 1) + 1 = i /\ u[i] = s[i - 1]
        BY <3>1, <3>2, <3>4
      <4> QED BY <4>1, <3>1, <1>1 DEF ToSet
    <3> QED BY <3>3, <3>4
  <2>2. ASSUME NEW y \in ToSet(s) PROVE y \in ToSet(u)
    <3>1. PICK i \in 1 .. l : s[i] = y
      BY <1>1 DEF ToSet
    <3>2. i + 1 \in 1 .. (l + 1) /\ u[i + 1] = y
      BY <3>1, <1>4
    <3> QED BY <3>2, <1>5 DEF ToSet
  <2>3. x \in ToSet(u)
    <3>1. 1 \in 1 .. (l + 1)
      OBVIOUS
    <3> QED BY <3>1, <1>4, <1>5 DEF ToSet
  <2> QED BY <2>1, <2>2, <2>3
<1>7. u # <<>>
  BY <1>4
<1> QED BY <1>1, <1>2, <1>3, <1>4, <1>6, <1>7

\* A sequence with something in it has a first member.
LEMMA First ==
    ASSUME NEW S, NEW s \in Seq(S), s # <<>>
    PROVE  1 \in DOMAIN s /\ s[1] \in S /\ s[1] \in ToSet(s) /\ Len(s) > 0
<1>1. Len(s) \in Nat /\ Len(s) # 0 /\ DOMAIN s = 1 .. Len(s)
  OBVIOUS
<1>2. 1 \in DOMAIN s
  BY <1>1
<1> QED BY <1>1, <1>2 DEF ToSet

LEMMA MembersOf ==
    ASSUME NEW S, NEW s \in Seq(S)
    PROVE  /\ (ToSet(s) = {}) <=> (s = <<>>)
           /\ ToSet(s) \subseteq S
<1>1. ASSUME s # <<>> PROVE ToSet(s) # {}
  BY <1>1, First
<1>2. ToSet(s) \subseteq S
  BY DEF ToSet
<1>3. ASSUME s = <<>> PROVE ToSet(s) = {}
  <2>1. DOMAIN s = {}
    BY <1>3
  <2> QED BY <2>1 DEF ToSet
<1>4. (ToSet(s) = {}) <=> (s = <<>>)
  BY <1>1, <1>3
<1> QED BY <1>2, <1>4

\* Taking one place out of a sequence moves those behind it up by one.
LEMMA Removed ==
    ASSUME NEW S, NEW s \in Seq(S), NEW n \in 1..Len(s)
    PROVE  /\ RemoveAt(s, n) \in Seq(S) /\ Len(RemoveAt(s, n)) = Len(s) - 1
           /\ \A i \in 1..(Len(s) - 1) :
                 RemoveAt(s, n)[i] = IF i < n THEN s[i] ELSE s[i + 1]
<1>1. PICK l \in Nat : l = Len(s)
  OBVIOUS
<1>2. PICK a : a = SubSeq(s, 1, n - 1)
  OBVIOUS
<1>3. PICK b : b = SubSeq(s, n + 1, l)
  OBVIOUS
<1>4. a \in Seq(S) /\ Len(a) = n - 1 /\ \A i \in 1..(n - 1) : a[i] = s[i]
  BY <1>1, <1>2
<1>5. b \in Seq(S) /\ Len(b) = l - n /\ \A i \in 1..(l - n) : b[i] = s[n + i]
  BY <1>1, <1>3
<1>6. RemoveAt(s, n) = a \o b
  BY <1>1, <1>2, <1>3 DEF RemoveAt
<1>7. a \o b \in Seq(S) /\ Len(a \o b) = l - 1
  <2>0. \A x \in Seq(S), y \in Seq(S) : x \o y \in Seq(S) /\ Len(x \o y) = Len(x) + Len(y)
    OBVIOUS
  <2>1. a \o b \in Seq(S) /\ Len(a \o b) = Len(a) + Len(b)
    BY <1>4, <1>5, <2>0
  <2>2. n \in Int /\ Len(a) = n - 1 /\ Len(b) = l - n
    BY <1>1, <1>4, <1>5
  <2> QED
    BY <1>1, <2>1, <2>2
<1>8. ASSUME NEW i \in 1..(l - 1) PROVE (a \o b)[i] = IF i < n THEN s[i] ELSE s[i + 1]
  <2>0. i \in Int /\ n \in Int
    BY <1>1
  <2>1. ASSUME i < n PROVE (a \o b)[i] = s[i]
    BY <1>1, <1>4, <1>5, <2>1
  <2>2. ASSUME ~(i < n) PROVE (a \o b)[i] = s[i + 1]
    <3>1. (a \o b)[i] = b[i - (n - 1)]
      BY <1>1, <1>4, <1>5, <2>2
    <3>2. i - (n - 1) \in 1..(l - n) /\ n + (i - (n - 1)) = i + 1
      BY <1>1, <2>2
    <3>3. b[i - (n - 1)] = s[i + 1]
      BY <1>5, <3>2
    <3> QED
      BY <3>1, <3>3
  <2>3. PICK v : v = (a \o b)[i]
    OBVIOUS
  <2>4. v = IF i < n THEN s[i] ELSE s[i + 1]
    BY ONLY <2>1, <2>2, <2>3
  <2> QED
    BY ONLY <2>3, <2>4
<1> QED
  BY <1>1, <1>6, <1>7, <1>8

\* One member leaves a sequence without repetitions.
LEMMA Leaves ==
    ASSUME NEW S, NEW s \in Seq(S), IsInjective(s), NEW n \in DOMAIN s
    PROVE  /\ RemoveFirst(s, s[n]) \in Seq(S)
           /\ Len(RemoveFirst(s, s[n])) = Len(s) - 1
           /\ \A i \in 1 .. (Len(s) - 1) :
                 RemoveFirst(s, s[n])[i] = IF i < n THEN s[i] ELSE s[i + 1]
<1>1. DOMAIN s = 1 .. Len(s) /\ n \in 1 .. Len(s)
  OBVIOUS
<1>2. {i \in 1 .. Len(s) : s[i] = s[n]} = {n}
  BY <1>1 DEF IsInjective
<1>3. Min({n}) = n
  BY <1>1 DEF Min
<1>4. RemoveFirst(s, s[n]) = RemoveAt(s, n)
  <2>1. SelectInSeq(s, LAMBDA v : v = s[n]) = n
    BY <1>1, <1>2, <1>3 DEF SelectInSeq
  <2> QED BY <1>1, <2>1 DEF RemoveFirst
<1> QED BY <1>1, <1>4, Removed

LEMMA LeavesSet ==
    ASSUME NEW S, NEW s \in Seq(S), IsInjective(s), NEW x \in ToSet(s)
    PROVE  /\ RemoveFirst(s, x) \in Seq(S) /\ IsInjective(RemoveFirst(s, x))
           /\ Len(RemoveFirst(s, x)) = Len(s) - 1
           /\ ToSet(RemoveFirst(s, x)) = ToSet(s) \ {x}
           /\ \A i, j \in DOMAIN RemoveFirst(s, x) : i < j =>
                 \E k, m \in DOMAIN s : /\ k < m /\ RemoveFirst(s, x)[i] = s[k]
                                        /\ RemoveFirst(s, x)[j] = s[m]
           /\ \A k, m \in DOMAIN s : k < m /\ s[k] # x /\ s[m] # x =>
                 \E i, j \in DOMAIN RemoveFirst(s, x) :
                     /\ i < j /\ RemoveFirst(s, x)[i] = s[k] /\ RemoveFirst(s, x)[j] = s[m]
<1>1. PICK l \in Nat : l = Len(s) /\ DOMAIN s = 1 .. l
  OBVIOUS
<1>2. PICK n \in 1 .. l : s[n] = x
  BY <1>1 DEF ToSet
<1>3. PICK r : r = RemoveFirst(s, x)
  OBVIOUS
<1>4. r \in Seq(S) /\ Len(r) = l - 1
      /\ \A i \in 1 .. (l - 1) : r[i] = IF i < n THEN s[i] ELSE s[i + 1]
  BY <1>1, <1>2, <1>3, Leaves
<1>5. DOMAIN r = 1 .. (l - 1) /\ l \in Int /\ n \in Int
  BY <1>4
<1> DEFINE up(i) == IF i < n THEN i ELSE i + 1
           down(k) == IF k < n THEN k ELSE k - 1
<1>6. \A i \in 1 .. (l - 1) : up(i) \in 1 .. l /\ up(i) # n /\ r[i] = s[up(i)]
  <2>1. ASSUME NEW i \in 1 .. (l - 1) PROVE up(i) \in 1 .. l /\ up(i) # n
    BY <1>5
  <2>2. ASSUME NEW i \in 1 .. (l - 1) PROVE r[i] = s[up(i)]
    <3>1. CASE i < n
      BY <3>1, <1>4
    <3>2. CASE ~(i < n)
      BY <3>2, <1>4
    <3> QED BY <3>1, <3>2
  <2> QED BY <2>1, <2>2
<1>7. \A k \in 1 .. l : k # n => down(k) \in 1 .. (l - 1) /\ up(down(k)) = k
  BY <1>5
<1>8. \A i, j \in 1 .. (l - 1) : i < j => up(i) < up(j)
  BY <1>5
<1>9. \A k, m \in 1 .. l : k # n /\ m # n /\ k < m => down(k) < down(m)
  BY <1>5
<1> HIDE DEF up, down
<1>10. \A k \in 1 .. l : k # n => s[k] # x
  BY <1>1, <1>2 DEF IsInjective
<1>11. \A k \in 1 .. l : k # n => r[down(k)] = s[k]
  BY <1>6, <1>7
<1>12. ToSet(r) = ToSet(s) \ {x}
  <2>1. ASSUME NEW y \in ToSet(r) PROVE y \in ToSet(s) \ {x}
    <3>1. PICK i \in 1 .. (l - 1) : r[i] = y
      BY <1>5 DEF ToSet
    <3> QED BY <3>1, <1>1, <1>6, <1>10 DEF ToSet
  <2>2. ASSUME NEW y \in ToSet(s), y # x PROVE y \in ToSet(r)
    <3>1. PICK k \in 1 .. l : s[k] = y
      BY <1>1 DEF ToSet
    <3>2. k # n
      BY <3>1, <2>2, <1>2
    <3> QED BY <3>1, <3>2, <1>5, <1>7, <1>11 DEF ToSet
  <2> QED BY <2>1, <2>2
<1>13. ASSUME NEW i \in 1 .. (l - 1), NEW j \in 1 .. (l - 1), i < j
       PROVE  \E k, m \in DOMAIN s : k < m /\ r[i] = s[k] /\ r[j] = s[m]
  <2>1. up(i) \in 1 .. l /\ up(j) \in 1 .. l /\ up(i) < up(j)
        /\ r[i] = s[up(i)] /\ r[j] = s[up(j)]
    BY <1>6, <1>8, <1>13
  <2> QED BY <2>1, <1>1
<1>14. ASSUME NEW k \in 1 .. l, NEW m \in 1 .. l, k < m, s[k] # x, s[m] # x
       PROVE  \E i, j \in DOMAIN r : i < j /\ r[i] = s[k] /\ r[j] = s[m]
  <2>1. k # n /\ m # n
    BY <1>14, <1>2
  <2>2. down(k) \in 1 .. (l - 1) /\ down(m) \in 1 .. (l - 1) /\ down(k) < down(m)
        /\ r[down(k)] = s[k] /\ r[down(m)] = s[m]
    BY <2>1, <1>7, <1>9, <1>11, <1>14
  <2> QED BY <2>2, <1>5
<1>15. IsInjective(r)
  <2>1. ASSUME NEW i \in 1 .. (l - 1), NEW j \in 1 .. (l - 1), i < j PROVE r[i] # r[j]
    <3>1. up(i) \in DOMAIN s /\ up(j) \in DOMAIN s /\ up(i) < up(j) /\ up(i) \in Int
          /\ r[i] = s[up(i)] /\ r[j] = s[up(j)]
      BY <1>1, <1>6, <1>8, <2>1
    <3>2. up(i) # up(j)
      BY <3>1
    <3> QED BY <3>1, <3>2 DEF IsInjective
  <2>2. \A i, j \in 1 .. (l - 1) : i < j \/ j < i \/ i = j
    BY <1>5
  <2> QED BY <2>1, <2>2, <1>5 DEF IsInjective
<1>16. \A i, j \in DOMAIN r : i < j =>
          \E k, m \in DOMAIN s : k < m /\ r[i] = s[k] /\ r[j] = s[m]
  BY <1>5, <1>13
<1>17. \A k, m \in DOMAIN s : k < m /\ s[k] # x /\ s[m] # x =>
          \E i, j \in DOMAIN r : i < j /\ r[i] = s[k] /\ r[j] = s[m]
  BY <1>1, <1>14
<1> QED BY ONLY <1>1, <1>3, <1>4, <1>12, <1>15, <1>16, <1>17

----------------------------------------------------------------------------
(* Arrival order. *)

\* Nobody came before himself.
LEMMA NotOlder ==
    ASSUME NEW order \in Seq(Ticket), IsInjective(order), NEW t
    PROVE  ~Older(order, t, t)
  BY DEF Older, IsInjective

LEMMA SortedInjective ==
    ASSUME NEW order \in Seq(Ticket), IsInjective(order), NEW s \in Seq(Ticket),
           Sorted(order, s)
    PROVE  IsInjective(s)
<1>1. \A i, j \in DOMAIN s : i < j => s[i] # s[j]
  BY NotOlder DEF Sorted
<1>2. \A i, j \in DOMAIN s : i < j \/ j < i \/ i = j
  OBVIOUS
<1> QED BY <1>1, <1>2 DEF IsInjective

\* A new arrival comes after everybody, and changes nobody's order.
LEMMA OrderGrows ==
    ASSUME NEW order \in Seq(Ticket), IsInjective(order), NEW t \in Ticket,
           t \notin ToSet(order)
    PROVE  /\ Append(order, t) \in Seq(Ticket) /\ IsInjective(Append(order, t))
           /\ ToSet(Append(order, t)) = ToSet(order) \cup {t}
           /\ \A x, y : Older(order, x, y) => Older(Append(order, t), x, y)
           /\ \A x \in ToSet(order) : Older(Append(order, t), x, t)
<1>1. PICK l \in Nat : l = Len(order) /\ DOMAIN order = 1 .. l
  OBVIOUS
<1>2. PICK u : u = Append(order, t)
  OBVIOUS
<1>3. /\ u \in Seq(Ticket) /\ Len(u) = l + 1 /\ ToSet(u) = ToSet(order) \cup {t}
      /\ \A i \in 1 .. l : u[i] = order[i]
      /\ u[l + 1] = t
  BY <1>1, <1>2, Appended
<1>4. DOMAIN u = 1 .. (l + 1)
  BY <1>3
<1>5. IsInjective(u)
  <2>1. \A i \in 1 .. l : order[i] # t
    BY <1>1 DEF ToSet
  <2>2. \A i \in 1 .. (l + 1) : i \in 1 .. l \/ i = l + 1
    OBVIOUS
  <2> QED BY <2>1, <2>2, <1>1, <1>3, <1>4 DEF IsInjective
<1>6. ASSUME NEW x, NEW y, Older(order, x, y) PROVE Older(u, x, y)
  <2>1. PICK i, j \in 1 .. l : i < j /\ order[i] = x /\ order[j] = y
    BY <1>1, <1>6 DEF Older
  <2>2. i \in DOMAIN u /\ j \in DOMAIN u /\ u[i] = x /\ u[j] = y
    BY <2>1, <1>3, <1>4
  <2> QED BY <2>1, <2>2 DEF Older
<1>7. ASSUME NEW x \in ToSet(order) PROVE Older(u, x, t)
  <2>1. PICK i \in 1 .. l : order[i] = x
    BY <1>1 DEF ToSet
  <2>2. i \in DOMAIN u /\ l + 1 \in DOMAIN u /\ i < l + 1 /\ u[i] = x /\ u[l + 1] = t
    BY <2>1, <1>3, <1>4
  <2> QED BY <2>2 DEF Older
<1> QED BY <1>2, <1>3, <1>5, <1>6, <1>7

\* Who leaves changes nobody's order either.
LEMMA OrderShrinks ==
    ASSUME NEW order \in Seq(Ticket), IsInjective(order), NEW t \in ToSet(order)
    PROVE  /\ RemoveFirst(order, t) \in Seq(Ticket) /\ IsInjective(RemoveFirst(order, t))
           /\ ToSet(RemoveFirst(order, t)) = ToSet(order) \ {t}
           /\ \A x, y : x # t /\ y # t /\ Older(order, x, y)
                 => Older(RemoveFirst(order, t), x, y)
<1>1. \A k, m \in DOMAIN order : k < m /\ order[k] # t /\ order[m] # t =>
         \E i, j \in DOMAIN RemoveFirst(order, t) :
             /\ i < j /\ RemoveFirst(order, t)[i] = order[k]
             /\ RemoveFirst(order, t)[j] = order[m]
  BY LeavesSet
<1>2. ASSUME NEW x, NEW y, x # t, y # t, Older(order, x, y)
      PROVE  Older(RemoveFirst(order, t), x, y)
  <2>1. PICK k, m \in DOMAIN order : k < m /\ order[k] = x /\ order[m] = y
    BY <1>2 DEF Older
  <2> QED BY <1>1, <1>2, <2>1 DEF Older
<1> QED BY <1>2, LeavesSet

LEMMA SortedGrows ==
    ASSUME NEW order, NEW s \in Seq(Ticket), NEW t \in Ticket, Sorted(order, s),
           \A u \in ToSet(s) : Older(order, u, t)
    PROVE  Sorted(order, Append(s, t))
<1>1. PICK l \in Nat : l = Len(s) /\ DOMAIN s = 1 .. l
  OBVIOUS
<1>2. PICK u : u = Append(s, t)
  OBVIOUS
<1>3. u \in Seq(Ticket) /\ Len(u) = l + 1 /\ u[l + 1] = t /\ \A i \in 1 .. l : u[i] = s[i]
  BY <1>1, <1>2, Appended
<1>4. DOMAIN u = 1 .. (l + 1)
  BY <1>3
<1>5. ASSUME NEW i \in 1 .. (l + 1), NEW j \in 1 .. (l + 1), i < j
      PROVE  Older(order, u[i], u[j])
  <2>1. i \in 1 .. l /\ s[i] \in ToSet(s)
    BY <1>1, <1>5 DEF ToSet
  <2>2. CASE j = l + 1
    BY <2>1, <2>2, <1>3
  <2>3. CASE j # l + 1
    <3>1. j \in 1 .. l
      BY <2>3
    <3> QED BY <3>1, <2>1, <1>1, <1>3, <1>5 DEF Sorted
  <2> QED BY <2>2, <2>3
<1> QED BY <1>2, <1>4, <1>5 DEF Sorted

LEMMA SortedInFront ==
    ASSUME NEW order, NEW s \in Seq(Ticket), NEW t \in Ticket, Sorted(order, s),
           \A u \in ToSet(s) : Older(order, t, u)
    PROVE  Sorted(order, <<t>> \o s)
<1>1. PICK l \in Nat : l = Len(s) /\ DOMAIN s = 1 .. l
  OBVIOUS
<1>2. PICK u : u = <<t>> \o s
  OBVIOUS
<1>3. u \in Seq(Ticket) /\ Len(u) = l + 1 /\ u[1] = t /\ \A i \in 1 .. l : u[i + 1] = s[i]
  BY <1>1, <1>2, InFront
<1>4. DOMAIN u = 1 .. (l + 1)
  BY <1>3
<1>5. ASSUME NEW i \in 1 .. (l + 1), NEW j \in 1 .. (l + 1), i < j
      PROVE  Older(order, u[i], u[j])
  <2>1. PICK m \in 1 .. l : j = m + 1
    <3>1. j - 1 \in 1 .. l /\ j = (j - 1) + 1
      BY <1>5
    <3> QED BY <3>1
  <2>2. u[j] = s[m] /\ s[m] \in ToSet(s)
    BY <2>1, <1>1, <1>3 DEF ToSet
  <2>3. CASE i = 1
    BY <2>2, <2>3, <1>3
  <2>4. CASE i # 1
    <3>1. PICK k \in 1 .. l : i = k + 1
      <4>1. i - 1 \in 1 .. l /\ i = (i - 1) + 1
        BY <2>4
      <4> QED BY <4>1
    <3>2. k < m /\ u[i] = s[k]
      BY <3>1, <2>1, <1>3, <1>5
    <3> QED BY <3>2, <2>2, <1>1 DEF Sorted
  <2> QED BY <2>3, <2>4
<1> QED BY <1>2, <1>4, <1>5 DEF Sorted

LEMMA SortedShrinks ==
    ASSUME NEW order, NEW s \in Seq(Ticket), IsInjective(s), NEW t \in ToSet(s),
           Sorted(order, s)
    PROVE  Sorted(order, RemoveFirst(s, t))
<1>1. \A i, j \in DOMAIN RemoveFirst(s, t) : i < j =>
         \E k, m \in DOMAIN s : /\ k < m /\ RemoveFirst(s, t)[i] = s[k]
                                /\ RemoveFirst(s, t)[j] = s[m]
  BY LeavesSet
<1> QED BY <1>1 DEF Sorted

LEMMA SortedKept ==
    ASSUME NEW order, NEW later, NEW s, Sorted(order, s),
           \A x, y \in ToSet(s) : Older(order, x, y) => Older(later, x, y)
    PROVE  Sorted(later, s)
  BY DEF Sorted, ToSet


----------------------------------------------------------------------------
(* One class's queue. *)

LEMMA TicketFields ==
    ASSUME NEW t \in Ticket
    PROVE  /\ t \in TicketRecord /\ t.class \in Class /\ t.owner \in Owner
           /\ t.class \in Nat /\ t # NoTicket /\ t # RecoveryTurn
<1>1. t \in TicketRecord
  BY TicketAssumption
<1>2. t.class \in 1 .. 8 /\ t.owner \in Owner
  BY <1>1 DEF TicketRecord, Class
<1> QED BY <1>1, <1>2, TicketAssumption DEF Class

\* A background class is not a user's class.
LEMMA ClassKinds ==
    /\ Class = UserClass \cup BackgroundClass /\ UserClass \cap BackgroundClass = {}
    /\ SecurityFence \in UserClass /\ UserClass \subseteq Nat /\ Class \subseteq Nat
<1>1. \A c : c \in 1 .. 8 <=> c \in 1 .. 6 \/ c = 7 \/ c = 8
  OBVIOUS
<1> QED BY <1>1 DEF Class, UserClass, BackgroundClass, BackgroundMedia, Maintenance, SecurityFence

LEMMA KindOf ==
    ASSUME NEW t \in Ticket
    PROVE  /\ Background(t) <=> t.class \in BackgroundClass
           /\ ~Background(t) <=> t.class \in UserClass
  BY TicketFields, ClassKinds DEF Background

LEMMA QueueFields ==
    ASSUME NEW q \in QueueRecord
    PROVE  /\ q.rotation \in Seq(Owner) /\ q.tickets \in [Owner -> Seq(Ticket)]
           /\ \A o \in Owner : q.tickets[o] \in Seq(Ticket)
  BY DEF QueueRecord

LEMMA QueueIs ==
    ASSUME NEW r \in Seq(Owner), NEW f \in [Owner -> Seq(Ticket)]
    PROVE  /\ [rotation |-> r, tickets |-> f] \in QueueRecord
           /\ [rotation |-> r, tickets |-> f].rotation = r
           /\ [rotation |-> r, tickets |-> f].tickets = f
  BY DEF QueueRecord

\* A sequence of owners without repetitions that one more joins.
LEMMA JoinInjective ==
    ASSUME NEW S, NEW s \in Seq(S), IsInjective(s), NEW x \in S, x \notin ToSet(s)
    PROVE  IsInjective(Append(s, x))
<1>1. PICK l \in Nat : l = Len(s) /\ DOMAIN s = 1 .. l
  OBVIOUS
<1>2. PICK u : u = Append(s, x)
  OBVIOUS
<1>3. u \in Seq(S) /\ Len(u) = l + 1 /\ u[l + 1] = x /\ \A i \in 1 .. l : u[i] = s[i]
  BY <1>1, <1>2, Appended
<1>4. DOMAIN u = 1 .. (l + 1)
  BY <1>3
<1>5. \A i \in 1 .. l : s[i] # x
  BY <1>1 DEF ToSet
<1>6. \A i \in 1 .. (l + 1) : i \in 1 .. l \/ i = l + 1
  OBVIOUS
<1>7. \A i, j \in 1 .. (l + 1) : u[i] = u[j] => i = j
  BY <1>1, <1>3, <1>5, <1>6 DEF IsInjective
<1> QED BY <1>2, <1>4, <1>7 DEF IsInjective

\* An owner's line gets a ticket.
LEMMA OwnerJoins ==
    ASSUME NEW q \in QueueRecord, RotationOK(q), NEW o \in Owner,
           NEW f \in [Owner -> Seq(Ticket)], f[o] # <<>>,
           \A p \in Owner : p # o => f[p] = q.tickets[p],
           NEW r, r = [rotation |-> Joined(q, o), tickets |-> f]
    PROVE  r \in QueueRecord /\ r.tickets = f /\ RotationOK(r)
<1>3. Joined(q, o) \in Seq(Owner) /\ IsInjective(Joined(q, o))
      /\ ToSet(Joined(q, o)) = ToSet(q.rotation) \cup {o}
  <2>1. CASE q.tickets[o] = <<>>
    <3>1. o \notin ToSet(q.rotation) /\ IsInjective(q.rotation) /\ q.rotation \in Seq(Owner)
      BY <2>1, QueueFields DEF RotationOK
    <3> QED BY <2>1, <3>1, Appended, JoinInjective DEF Joined
  <2>2. CASE q.tickets[o] # <<>>
    <3>1. o \in ToSet(q.rotation) /\ IsInjective(q.rotation) /\ q.rotation \in Seq(Owner)
      BY <2>2, QueueFields DEF RotationOK
    <3> QED BY <2>2, <3>1 DEF Joined
  <2> QED BY <2>1, <2>2
<1>5. r \in QueueRecord /\ r.rotation = Joined(q, o) /\ r.tickets = f
  BY <1>3, QueueIs
<1>6. ToSet(r.rotation) = {p \in Owner : r.tickets[p] # <<>>}
  BY <1>3, <1>5 DEF RotationOK
<1> QED BY <1>3, <1>5, <1>6 DEF RotationOK

LEMMA PushIs ==
    ASSUME NEW q \in QueueRecord, RotationOK(q), NEW t \in Ticket
    PROVE  /\ Push(q, t) \in QueueRecord /\ RotationOK(Push(q, t))
           /\ Push(q, t).tickets[t.owner] = Append(q.tickets[t.owner], t)
           /\ \A p \in Owner : p # t.owner => Push(q, t).tickets[p] = q.tickets[p]
<1>1. PICK o \in Owner : o = t.owner
  BY TicketFields
<1>2. PICK s \in Seq(Ticket) : s = Append(q.tickets[o], t) /\ s # <<>>
  BY QueueFields, Appended
<1>3. PICK f \in [Owner -> Seq(Ticket)] : f = [q.tickets EXCEPT ![o] = s]
  BY QueueFields
<1>4. f[o] = s /\ \A p \in Owner : p # o => f[p] = q.tickets[p]
  BY <1>3, QueueFields
<1>5. Push(q, t) = [rotation |-> Joined(q, o), tickets |-> f]
  BY <1>1, <1>2, <1>3, QueueFields DEF Push
<1>6. PICK r : r = Push(q, t)
  OBVIOUS
<1>7. r = [rotation |-> Joined(q, o), tickets |-> f]
  BY <1>5, <1>6
<1>8. f[o] # <<>>
  BY <1>2, <1>4
<1>9. r \in QueueRecord /\ r.tickets = f /\ RotationOK(r)
  BY <1>4, <1>7, <1>8, OwnerJoins
<1> QED BY <1>1, <1>2, <1>4, <1>6, <1>9

LEMMA PushFrontIs ==
    ASSUME NEW q \in QueueRecord, RotationOK(q), NEW t \in Ticket
    PROVE  /\ PushFront(q, t) \in QueueRecord /\ RotationOK(PushFront(q, t))
           /\ PushFront(q, t).tickets[t.owner] = <<t>> \o q.tickets[t.owner]
           /\ \A p \in Owner : p # t.owner => PushFront(q, t).tickets[p] = q.tickets[p]
<1>1. PICK o \in Owner : o = t.owner
  BY TicketFields
<1>2. PICK s \in Seq(Ticket) : s = <<t>> \o q.tickets[o] /\ s # <<>>
  <2>1. q.tickets[o] \in Seq(Ticket)
    BY QueueFields
  <2>2. <<t>> \o q.tickets[o] \in Seq(Ticket) /\ <<t>> \o q.tickets[o] # <<>>
    BY <2>1, InFront
  <2> QED BY <2>2
<1>3. PICK f \in [Owner -> Seq(Ticket)] : f = [q.tickets EXCEPT ![o] = s]
  BY QueueFields
<1>4. f[o] = s /\ \A p \in Owner : p # o => f[p] = q.tickets[p]
  BY <1>3, QueueFields
<1>5. PushFront(q, t) = [rotation |-> Joined(q, o), tickets |-> f]
  BY <1>1, <1>2, <1>3, QueueFields DEF PushFront
<1>6. PICK r : r = PushFront(q, t)
  OBVIOUS
<1>7. r = [rotation |-> Joined(q, o), tickets |-> f]
  BY <1>5, <1>6
<1>8. f[o] # <<>>
  BY <1>2, <1>4
<1>9. r \in QueueRecord /\ r.tickets = f /\ RotationOK(r)
  BY <1>4, <1>7, <1>8, OwnerJoins
<1> QED BY <1>1, <1>2, <1>4, <1>6, <1>9

LEMMA DropIs ==
    ASSUME NEW q \in QueueRecord, RotationOK(q), NEW t \in Ticket,
           IsInjective(q.tickets[t.owner]), t \in ToSet(q.tickets[t.owner]),
           NEW served \in BOOLEAN
    PROVE  /\ Drop(q, t, served) \in QueueRecord /\ RotationOK(Drop(q, t, served))
           /\ Drop(q, t, served).tickets[t.owner] = RemoveFirst(q.tickets[t.owner], t)
           /\ \A p \in Owner : p # t.owner =>
                 Drop(q, t, served).tickets[p] = q.tickets[p]
<1>1. PICK o \in Owner : o = t.owner
  BY TicketFields
<1>2. PICK rest \in Seq(Ticket) : rest = RemoveFirst(q.tickets[o], t)
  BY <1>1, QueueFields, LeavesSet
<1>3. q.tickets[o] # <<>>
  BY <1>1, QueueFields, MembersOf
<1>4. q.rotation \in Seq(Owner) /\ IsInjective(q.rotation) /\ o \in ToSet(q.rotation)
      /\ ToSet(q.rotation) = {p \in Owner : q.tickets[p] # <<>>}
  BY <1>3, QueueFields DEF RotationOK
<1>5. PICK others \in Seq(Owner) : /\ others = RemoveFirst(q.rotation, o)
                                   /\ IsInjective(others)
                                   /\ ToSet(others) = ToSet(q.rotation) \ {o}
  BY <1>4, LeavesSet
<1>6. PICK rot : rot = IF rest = <<>> THEN others
                       ELSE IF served THEN Append(others, o) ELSE q.rotation
  OBVIOUS
<1>7. Append(others, o) \in Seq(Owner) /\ IsInjective(Append(others, o))
      /\ ToSet(Append(others, o)) = ToSet(q.rotation)
  BY <1>4, <1>5, Appended, JoinInjective
<1>8. /\ rot \in Seq(Owner) /\ IsInjective(rot)
      /\ ToSet(rot) = IF rest = <<>> THEN ToSet(q.rotation) \ {o} ELSE ToSet(q.rotation)
  BY <1>4, <1>5, <1>6, <1>7
<1>9. PICK f \in [Owner -> Seq(Ticket)] : f = [q.tickets EXCEPT ![o] = rest]
  BY QueueFields
<1>10. f[o] = rest /\ \A p \in Owner : p # o => f[p] = q.tickets[p]
  BY <1>9, QueueFields
<1>11. Drop(q, t, served) = [rotation |-> rot, tickets |-> f]
  BY <1>1, <1>2, <1>5, <1>6, <1>9 DEF Drop
<1>12. PICK r : r = Drop(q, t, served)
  OBVIOUS
<1>13. r \in QueueRecord /\ r.rotation = rot /\ r.tickets = f
  BY <1>8, <1>11, <1>12, QueueIs
<1>14. ToSet(r.rotation) = {p \in Owner : r.tickets[p] # <<>>}
  BY <1>3, <1>4, <1>8, <1>10, <1>13
<1>15. RotationOK(r)
  BY <1>8, <1>13, <1>14 DEF RotationOK
<1> QED BY <1>1, <1>2, <1>10, <1>12, <1>13, <1>15

\* What a queue would serve next is somebody who waits in it.
LEMMA FrontIs ==
    ASSUME NEW q \in QueueRecord, RotationOK(q)
    PROVE  /\ FrontTicket(q) = NoTicket <=> Tickets(q) = {}
           /\ FrontTicket(q) # NoTicket => FrontTicket(q) \in Tickets(q)
           /\ Tickets(q) \subseteq Ticket
<1>1. Tickets(q) \subseteq Ticket
  BY QueueFields, MembersOf DEF Tickets
<1>2. ASSUME q.rotation = <<>> PROVE FrontTicket(q) = NoTicket /\ Tickets(q) = {}
  <2>1. ToSet(q.rotation) = {}
    BY <1>2, QueueFields, MembersOf
  <2>2. \A o \in Owner : q.tickets[o] = <<>>
    BY <2>1 DEF RotationOK
  <2>3. \A o \in Owner : ToSet(q.tickets[o]) = {}
    BY <2>2, QueueFields, MembersOf
  <2>4. Tickets(q) = {}
    BY <2>3 DEF Tickets
  <2> QED BY <1>2, <2>4 DEF FrontTicket
<1>3. ASSUME q.rotation # <<>> PROVE FrontTicket(q) \in Tickets(q)
  <2>1. q.rotation[1] \in Owner /\ q.rotation[1] \in ToSet(q.rotation)
    BY <1>3, QueueFields, First
  <2>2. PICK o \in Owner : o = q.rotation[1] /\ q.tickets[o] # <<>>
    BY <2>1 DEF RotationOK
  <2>3. q.tickets[o][1] \in ToSet(q.tickets[o])
    BY <2>2, QueueFields, First
  <2>4. FrontTicket(q) = q.tickets[o][1]
    BY <1>3, <2>2 DEF FrontTicket
  <2> QED BY <2>2, <2>3, <2>4 DEF Tickets
<1>4. NoTicket \notin Ticket
  BY TicketAssumption
<1>5. CASE q.rotation = <<>>
  BY <1>1, <1>2, <1>5
<1>6. CASE q.rotation # <<>>
  BY <1>1, <1>3, <1>4, <1>6
<1> QED BY <1>5, <1>6


----------------------------------------------------------------------------
(* The pool. *)

LEMMA PoolFields ==
    ASSUME NEW P \in PoolRecord
    PROVE  /\ P.order \in Seq(Ticket)
           /\ P.queues \in [Class -> QueueRecord] /\ P.deferred \in [Class -> QueueRecord]
           /\ P.userQueued \in Nat /\ P.ownerQueued \in [Owner \ {NoOwner} -> Nat]
           /\ \A c \in Class : P.queues[c] \in QueueRecord /\ P.deferred[c] \in QueueRecord
           /\ \A c \in Class, o \in Owner :
                 P.queues[c].tickets[o] \in Seq(Ticket) /\ P.deferred[c].tickets[o] \in Seq(Ticket)
<1>1. /\ P.order \in Seq(Ticket)
      /\ P.queues \in [Class -> QueueRecord] /\ P.deferred \in [Class -> QueueRecord]
      /\ P.userQueued \in Nat /\ P.ownerQueued \in [Owner \ {NoOwner} -> Nat]
  BY DEF PoolRecord
<1>2. \A c \in Class : P.queues[c] \in QueueRecord /\ P.deferred[c] \in QueueRecord
  BY <1>1
<1> QED BY <1>1, <1>2, QueueFields

\* The lines of one owner in one class hold each of its waiters once.
LEMMA LineIs ==
    ASSUME NEW P, NEW W, PoolOK(P, W), NEW c \in Class, NEW o \in Owner
    PROVE  /\ P.queues[c].tickets[o] \in Seq(Ticket) /\ P.deferred[c].tickets[o] \in Seq(Ticket)
           /\ LineOK(P.order, W, c, o, P.queues[c].tickets[o], P.deferred[c].tickets[o])
           /\ IsInjective(P.queues[c].tickets[o]) /\ IsInjective(P.deferred[c].tickets[o])
           /\ ToSet(P.queues[c].tickets[o]) \cap ToSet(P.deferred[c].tickets[o]) = {}
<1>1. /\ P.queues[c].tickets[o] \in Seq(Ticket) /\ P.deferred[c].tickets[o] \in Seq(Ticket)
      /\ P.order \in Seq(Ticket) /\ IsInjective(P.order)
  BY PoolFields DEF PoolOK
<1>2. LineOK(P.order, W, c, o, P.queues[c].tickets[o], P.deferred[c].tickets[o])
  BY DEF PoolOK, LinesOK
<1>3. Sorted(P.order, P.queues[c].tickets[o]) /\ Sorted(P.order, P.deferred[c].tickets[o])
  BY <1>2 DEF LineOK
<1>4. IsInjective(P.queues[c].tickets[o]) /\ IsInjective(P.deferred[c].tickets[o])
  BY <1>1, <1>3, SortedInjective
<1>5. \A x \in ToSet(P.queues[c].tickets[o]), y \in ToSet(P.deferred[c].tickets[o]) : x # y
  BY <1>1, <1>2, NotOlder DEF LineOK
<1> QED BY <1>1, <1>2, <1>4, <1>5

\* A waiter is queued or deferred, in its owner's line.
LEMMA PlaceOf ==
    ASSUME NEW P, NEW W, PoolOK(P, W)
    PROVE  /\ \A c \in Class : \A t : t \in Tickets(P.queues[c]) <=>
                 t \in W /\ t.class = c /\ t \in ToSet(P.queues[c].tickets[t.owner])
           /\ \A c \in Class : \A t : t \in Tickets(P.deferred[c]) <=>
                 t \in W /\ t.class = c /\ t \in ToSet(P.deferred[c].tickets[t.owner])
           /\ \A t \in W : \/ t \in ToSet(P.queues[t.class].tickets[t.owner])
                           \/ t \in ToSet(P.deferred[t.class].tickets[t.owner])
           /\ \A t \in W : IsDeferred(P, t) <=> t \in ToSet(P.deferred[t.class].tickets[t.owner])
           /\ \A t : t \in Admitted(P) <=>
                 /\ t \in W /\ Background(t)
                 /\ t \in ToSet(P.queues[t.class].tickets[t.owner])
<1>1. \A c \in Class, o \in Owner :
         ToSet(P.queues[c].tickets[o]) \cup ToSet(P.deferred[c].tickets[o])
            = {t \in W : t.class = c /\ t.owner = o}
  BY DEF PoolOK, LinesOK, LineOK
<1>2. \A t \in W : t \in Ticket /\ t.class \in Class /\ t.owner \in Owner
  BY TicketFields DEF PoolOK
<1>3. \A c \in Class : \A t : t \in Tickets(P.queues[c]) <=>
         t \in W /\ t.class = c /\ t \in ToSet(P.queues[c].tickets[t.owner])
  BY <1>1, <1>2 DEF Tickets
<1>4. \A c \in Class : \A t : t \in Tickets(P.deferred[c]) <=>
         t \in W /\ t.class = c /\ t \in ToSet(P.deferred[c].tickets[t.owner])
  BY <1>1, <1>2 DEF Tickets
<1>5. \A t \in W : \/ t \in ToSet(P.queues[t.class].tickets[t.owner])
                   \/ t \in ToSet(P.deferred[t.class].tickets[t.owner])
  BY <1>1, <1>2
<1>6. \A t \in W : IsDeferred(P, t) <=> t \in ToSet(P.deferred[t.class].tickets[t.owner])
  BY <1>2, <1>4 DEF IsDeferred
<1>7. \A t : t \in Admitted(P) <=>
         t \in W /\ Background(t) /\ t \in ToSet(P.queues[t.class].tickets[t.owner])
  <2>1. BackgroundClass \subseteq Class
    BY ClassKinds
  <2> QED BY <1>2, <1>3, <2>1 DEF Admitted, Background
<1> QED BY <1>3, <1>4, <1>5, <1>6, <1>7

\* The lines of one owner in one class change.
LEMMA LineMoves ==
    ASSUME NEW P, NEW W, PoolOK(P, W), NEW Q \in PoolRecord, Q.order = P.order,
           NEW V \in SUBSET Ticket, IsFiniteSet(V), V \subseteq ToSet(P.order),
           NEW c \in Class, NEW o \in Owner,
           \A t \in Ticket : t.class # c \/ t.owner # o => (t \in V <=> t \in W),
           \A d \in Class : d # c => Q.queues[d] = P.queues[d] /\ Q.deferred[d] = P.deferred[d],
           RotationOK(Q.queues[c]), RotationOK(Q.deferred[c]),
           \A p \in Owner : p # o => /\ Q.queues[c].tickets[p] = P.queues[c].tickets[p]
                                     /\ Q.deferred[c].tickets[p] = P.deferred[c].tickets[p],
           LineOK(P.order, V, c, o, Q.queues[c].tickets[o], Q.deferred[c].tickets[o]),
           CountsOK(Q, V)
    PROVE  PoolOK(Q, V)
<1>1. \A d \in Class : RotationOK(Q.queues[d]) /\ RotationOK(Q.deferred[d])
  BY DEF PoolOK
<1>2. ASSUME NEW d \in Class, NEW p \in Owner
      PROVE  LineOK(P.order, V, d, p, Q.queues[d].tickets[p], Q.deferred[d].tickets[p])
  <2>1. CASE d = c /\ p = o
    BY <2>1, Zenon
  <2>2. CASE ~(d = c /\ p = o)
    <3>1. /\ Q.queues[d].tickets[p] = P.queues[d].tickets[p]
          /\ Q.deferred[d].tickets[p] = P.deferred[d].tickets[p]
      BY <2>2
    <3>2. W \subseteq Ticket
      BY DEF PoolOK
    <3>3. {t \in V : t.class = d /\ t.owner = p} = {t \in W : t.class = d /\ t.owner = p}
      BY <2>2, <3>2
    <3>4. LineOK(P.order, W, d, p, P.queues[d].tickets[p], P.deferred[d].tickets[p])
      BY DEF PoolOK, LinesOK
    <3> QED BY <3>1, <3>3, <3>4 DEF LineOK
  <2> QED BY <2>1, <2>2
<1>3. LinesOK(Q, V)
  BY <1>2 DEF LinesOK
<1> QED BY <1>1, <1>3 DEF PoolOK

WithOrder(P, order) == [P EXCEPT !.order = order]

\* The arrival order changes and leaves the waiters in the order they came.
LEMMA OrderMoves ==
    ASSUME NEW P, NEW W, PoolOK(P, W), NEW order \in Seq(Ticket), IsInjective(order),
           W \subseteq ToSet(order),
           \A x, y \in W : Older(P.order, x, y) => Older(order, x, y)
    PROVE  /\ PoolOK(WithOrder(P, order), W)
           /\ WithOrder(P, order).order = order
           /\ WithOrder(P, order).queues = P.queues
           /\ WithOrder(P, order).deferred = P.deferred
           /\ WithOrder(P, order).userQueued = P.userQueued
           /\ WithOrder(P, order).ownerQueued = P.ownerQueued
<1>0. P \in PoolRecord
  BY DEF PoolOK
<1>1. PICK Q : Q = WithOrder(P, order)
  OBVIOUS
<1>2. /\ Q \in PoolRecord /\ Q.order = order /\ Q.queues = P.queues /\ Q.deferred = P.deferred
      /\ Q.userQueued = P.userQueued /\ Q.ownerQueued = P.ownerQueued
  BY <1>0, <1>1 DEF PoolRecord, WithOrder
<1>3. ASSUME NEW c \in Class, NEW o \in Owner
      PROVE  LineOK(order, W, c, o, P.queues[c].tickets[o], P.deferred[c].tickets[o])
  <2>1. PICK a, d : a = P.queues[c].tickets[o] /\ d = P.deferred[c].tickets[o]
    OBVIOUS
  <2>2. LineOK(P.order, W, c, o, a, d)
    BY <2>1 DEF PoolOK, LinesOK
  <2>3. ToSet(a) \subseteq W /\ ToSet(d) \subseteq W
    BY <2>2 DEF LineOK
  <2>4. Sorted(order, a) /\ Sorted(order, d)
    BY <2>2, <2>3, SortedKept DEF LineOK
  <2>5. \A x \in ToSet(a), y \in ToSet(d) : Older(order, x, y)
    BY <2>2, <2>3 DEF LineOK
  <2> QED BY <2>1, <2>2, <2>4, <2>5 DEF LineOK
<1>4. LinesOK(Q, W)
  BY <1>2, <1>3 DEF LinesOK
<1>5. CountsOK(Q, W)
  BY <1>2 DEF PoolOK, CountsOK
<1>6. PoolOK(Q, W)
  BY <1>2, <1>4, <1>5 DEF PoolOK
<1> QED BY <1>1, <1>2, <1>6

\* Counting a ticket in and out.
LEMMA FewUsers ==
    ASSUME NEW W \in SUBSET Ticket, IsFiniteSet(W), NEW t \in Ticket
    PROVE  /\ IsFiniteSet(Users(W)) /\ Cardinality(Users(W)) \in Nat
           /\ \A o : IsFiniteSet(UsersOf(W, o)) /\ Cardinality(UsersOf(W, o)) \in Nat
           /\ Background(t) => Users(W \cup {t}) = Users(W) /\ Users(W \ {t}) = Users(W)
           /\ Background(t) => \A o : UsersOf(W \cup {t}, o) = UsersOf(W, o)
                                      /\ UsersOf(W \ {t}, o) = UsersOf(W, o)
           /\ \A o : o # t.owner => UsersOf(W \cup {t}, o) = UsersOf(W, o)
                                    /\ UsersOf(W \ {t}, o) = UsersOf(W, o)
           /\ ~Background(t) /\ t \notin W =>
                 /\ Cardinality(Users(W \cup {t})) = Cardinality(Users(W)) + 1
                 /\ Cardinality(UsersOf(W \cup {t}, t.owner)) = Cardinality(UsersOf(W, t.owner)) + 1
           /\ ~Background(t) /\ t \in W =>
                 /\ Cardinality(Users(W \ {t})) = Cardinality(Users(W)) - 1
                 /\ Cardinality(UsersOf(W \ {t}, t.owner)) = Cardinality(UsersOf(W, t.owner)) - 1
                 /\ Cardinality(Users(W)) > 0 /\ Cardinality(UsersOf(W, t.owner)) > 0
<1>1. IsFiniteSet(Users(W)) /\ Cardinality(Users(W)) \in Nat
  BY FS_Subset, FS_CardinalityType DEF Users
<1>2. \A o : IsFiniteSet(UsersOf(W, o)) /\ Cardinality(UsersOf(W, o)) \in Nat
  <2>1. \A o : UsersOf(W, o) \subseteq W
    BY DEF UsersOf
  <2> QED BY <2>1, FS_Subset, FS_CardinalityType
<1>3. Background(t) => Users(W \cup {t}) = Users(W) /\ Users(W \ {t}) = Users(W)
  BY DEF Users
<1>4. Background(t) => \A o : UsersOf(W \cup {t}, o) = UsersOf(W, o)
                              /\ UsersOf(W \ {t}, o) = UsersOf(W, o)
  BY DEF UsersOf
<1>5. \A o : o # t.owner => UsersOf(W \cup {t}, o) = UsersOf(W, o)
                            /\ UsersOf(W \ {t}, o) = UsersOf(W, o)
  BY DEF UsersOf
<1>6. ASSUME ~Background(t), t \notin W
      PROVE  /\ Cardinality(Users(W \cup {t})) = Cardinality(Users(W)) + 1
             /\ Cardinality(UsersOf(W \cup {t}, t.owner)) = Cardinality(UsersOf(W, t.owner)) + 1
  <2>1. Users(W \cup {t}) = Users(W) \cup {t} /\ t \notin Users(W)
    BY <1>6 DEF Users
  <2>2. UsersOf(W \cup {t}, t.owner) = UsersOf(W, t.owner) \cup {t} /\ t \notin UsersOf(W, t.owner)
    BY <1>6 DEF UsersOf
  <2> QED BY <2>1, <2>2, <1>1, <1>2, FS_AddElement
<1>7. ASSUME ~Background(t), t \in W
      PROVE  /\ Cardinality(Users(W \ {t})) = Cardinality(Users(W)) - 1
             /\ Cardinality(UsersOf(W \ {t}, t.owner)) = Cardinality(UsersOf(W, t.owner)) - 1
             /\ Cardinality(Users(W)) > 0 /\ Cardinality(UsersOf(W, t.owner)) > 0
  <2>1. Users(W \ {t}) = Users(W) \ {t} /\ t \in Users(W)
    BY <1>7 DEF Users
  <2>2. UsersOf(W \ {t}, t.owner) = UsersOf(W, t.owner) \ {t} /\ t \in UsersOf(W, t.owner)
    BY <1>7 DEF UsersOf
  <2>3. Cardinality(Users(W)) # 0 /\ Cardinality(UsersOf(W, t.owner)) # 0
    BY <2>1, <2>2, <1>1, <1>2, FS_EmptySet
  <2>4. Cardinality(Users(W) \ {t}) = Cardinality(Users(W)) - 1
    BY <2>1, <1>1, FS_RemoveElement
  <2>5. Cardinality(UsersOf(W, t.owner) \ {t}) = Cardinality(UsersOf(W, t.owner)) - 1
    BY <2>2, <1>2, FS_RemoveElement
  <2>6. Cardinality(Users(W)) \in Nat /\ Cardinality(UsersOf(W, t.owner)) \in Nat
    BY <1>1, <1>2
  <2>7. Cardinality(Users(W)) > 0 /\ Cardinality(UsersOf(W, t.owner)) > 0
    BY <2>3, <2>6
  <2>8. /\ Cardinality(Users(W \ {t})) = Cardinality(Users(W)) - 1
        /\ Cardinality(UsersOf(W \ {t}, t.owner)) = Cardinality(UsersOf(W, t.owner)) - 1
    BY ONLY <2>1, <2>2, <2>4, <2>5
  <2> QED BY ONLY <2>7, <2>8
<1> QED BY <1>1, <1>2, <1>3, <1>4, <1>5, <1>6, <1>7


LEMMA CountInIs ==
    ASSUME NEW P \in PoolRecord, NEW W \in SUBSET Ticket, IsFiniteSet(W), CountsOK(P, W),
           NEW t \in Ticket, t \notin W
    PROVE  /\ CountIn(P, t) \in PoolRecord /\ CountsOK(CountIn(P, t), W \cup {t})
           /\ CountIn(P, t).order = P.order
           /\ CountIn(P, t).queues = P.queues /\ CountIn(P, t).deferred = P.deferred
<1>1. CASE Background(t)
  <2>1. CountIn(P, t) = P
    BY <1>1 DEF CountIn
  <2>2. Users(W \cup {t}) = Users(W) /\ \A o : UsersOf(W \cup {t}, o) = UsersOf(W, o)
    BY <1>1, FewUsers
  <2> QED BY <2>1, <2>2 DEF CountsOK
<1>2. CASE ~Background(t)
  <2>1. PICK n \in Nat : n = P.userQueued + 1
    BY PoolFields
  <2>2. PICK f \in [Owner \ {NoOwner} -> Nat] :
           f = [o \in DOMAIN P.ownerQueued |->
                  IF o = t.owner THEN P.ownerQueued[o] + 1 ELSE P.ownerQueued[o]]
    <3>1. P.ownerQueued \in [Owner \ {NoOwner} -> Nat]
      BY PoolFields
    <3>2. \A o \in Owner \ {NoOwner} : o = t.owner => P.ownerQueued[o] + 1 \in Nat
      BY <3>1
    <3> QED BY <3>1, <3>2
  <2>9. \A o \in Owner \ {NoOwner} :
           f[o] = IF o = t.owner THEN P.ownerQueued[o] + 1 ELSE P.ownerQueued[o]
    BY <2>2, PoolFields
  <2>3. CountIn(P, t) = [P EXCEPT !.userQueued = n, !.ownerQueued = f]
    BY <1>2, <2>1, <2>2 DEF CountIn
  <2>4. PICK Q : Q = CountIn(P, t)
    OBVIOUS
  <2>5. /\ Q \in PoolRecord /\ Q.order = P.order /\ Q.queues = P.queues
        /\ Q.deferred = P.deferred /\ Q.userQueued = n /\ Q.ownerQueued = f
    BY <2>3, <2>4 DEF PoolRecord
  <2>6. Cardinality(Users(W \cup {t})) = n
    BY <1>2, <2>1, FewUsers DEF CountsOK
  <2>7. ASSUME NEW o \in Owner \ {NoOwner} PROVE f[o] = Cardinality(UsersOf(W \cup {t}, o))
    <3>1. P.ownerQueued[o] = Cardinality(UsersOf(W, o))
      BY DEF CountsOK
    <3>2. CASE o = t.owner
      BY <1>2, <2>9, <3>1, <3>2, FewUsers
    <3>3. CASE o # t.owner
      <4>1. UsersOf(W \cup {t}, o) = UsersOf(W, o)
        BY <3>3, FewUsers
      <4>2. f[o] = P.ownerQueued[o]
        BY <2>9, <3>3
      <4> QED BY <4>1, <4>2, <3>1
    <3> QED BY <3>2, <3>3
  <2>8. CountsOK(Q, W \cup {t})
    BY <2>5, <2>6, <2>7 DEF CountsOK
  <2> QED BY <2>4, <2>5, <2>8
<1> QED BY <1>1, <1>2

LEMMA CountOutIs ==
    ASSUME NEW P \in PoolRecord, NEW W \in SUBSET Ticket, IsFiniteSet(W), CountsOK(P, W),
           NEW t \in W
    PROVE  /\ CountOut(P, t) \in PoolRecord /\ CountsOK(CountOut(P, t), W \ {t})
           /\ CountOut(P, t).order = P.order
           /\ CountOut(P, t).queues = P.queues /\ CountOut(P, t).deferred = P.deferred
<1>0. t \in Ticket
  OBVIOUS
<1>1. CASE Background(t)
  <2>1. CountOut(P, t) = P
    BY <1>1 DEF CountOut
  <2>2. Users(W \ {t}) = Users(W) /\ \A o : UsersOf(W \ {t}, o) = UsersOf(W, o)
    BY <1>0, <1>1, FewUsers
  <2> QED BY <2>1, <2>2 DEF CountsOK
<1>2. CASE ~Background(t)
  <2>0. /\ P.userQueued = Cardinality(Users(W)) /\ Cardinality(Users(W)) > 0
        /\ Cardinality(UsersOf(W, t.owner)) > 0
        /\ Cardinality(Users(W \ {t})) = Cardinality(Users(W)) - 1
        /\ Cardinality(UsersOf(W \ {t}, t.owner)) = Cardinality(UsersOf(W, t.owner)) - 1
        /\ \A o : o # t.owner => UsersOf(W \ {t}, o) = UsersOf(W, o)
    BY <1>0, <1>2, FewUsers DEF CountsOK
  <2>1. PICK n \in Nat : n = P.userQueued - 1
    BY <2>0, PoolFields
  <2>2. PICK f \in [Owner \ {NoOwner} -> Nat] :
           f = [o \in DOMAIN P.ownerQueued |->
                  IF o = t.owner THEN P.ownerQueued[o] - 1 ELSE P.ownerQueued[o]]
    <3>1. P.ownerQueued \in [Owner \ {NoOwner} -> Nat]
      BY PoolFields
    <3>2. \A o \in Owner \ {NoOwner} : o = t.owner => P.ownerQueued[o] - 1 \in Nat
      BY <2>0, <3>1 DEF CountsOK
    <3> QED BY <3>1, <3>2
  <2>9. \A o \in Owner \ {NoOwner} :
           f[o] = IF o = t.owner THEN P.ownerQueued[o] - 1 ELSE P.ownerQueued[o]
    BY <2>2, PoolFields
  <2>3. CountOut(P, t) = [P EXCEPT !.userQueued = n, !.ownerQueued = f]
    BY <1>2, <2>1, <2>2 DEF CountOut
  <2>4. PICK Q : Q = CountOut(P, t)
    OBVIOUS
  <2>5. /\ Q \in PoolRecord /\ Q.order = P.order /\ Q.queues = P.queues
        /\ Q.deferred = P.deferred /\ Q.userQueued = n /\ Q.ownerQueued = f
    BY <2>3, <2>4 DEF PoolRecord
  <2>6. Cardinality(Users(W \ {t})) = n
    BY <2>0, <2>1
  <2>7. ASSUME NEW o \in Owner \ {NoOwner} PROVE f[o] = Cardinality(UsersOf(W \ {t}, o))
    <3>1. P.ownerQueued[o] = Cardinality(UsersOf(W, o))
      BY DEF CountsOK
    <3>2. CASE o = t.owner
      BY <2>0, <2>9, <3>1, <3>2
    <3>3. CASE o # t.owner
      BY <2>0, <2>9, <3>1, <3>3
    <3> QED BY <3>2, <3>3
  <2>8. CountsOK(Q, W \ {t})
    BY <2>5, <2>6, <2>7 DEF CountsOK
  <2> QED BY <2>4, <2>5, <2>8
<1> QED BY <1>1, <1>2


\* One class's queue is replaced.
WithQueue(P, c, x) == [P EXCEPT !.queues[c] = x]
WithDeferred(P, c, x) == [P EXCEPT !.deferred[c] = x]

LEMMA WithQueueIs ==
    ASSUME NEW P \in PoolRecord, NEW c \in Class, NEW x \in QueueRecord
    PROVE  /\ WithQueue(P, c, x) \in PoolRecord /\ WithQueue(P, c, x).order = P.order
           /\ WithQueue(P, c, x).deferred = P.deferred
           /\ WithQueue(P, c, x).userQueued = P.userQueued
           /\ WithQueue(P, c, x).ownerQueued = P.ownerQueued
           /\ WithQueue(P, c, x).queues[c] = x
           /\ \A d \in Class : d # c => WithQueue(P, c, x).queues[d] = P.queues[d]
<1>1. PICK f \in [Class -> QueueRecord] : f = [P.queues EXCEPT ![c] = x]
  BY PoolFields
<1>2. f[c] = x /\ \A d \in Class : d # c => f[d] = P.queues[d]
  BY <1>1, PoolFields
<1>3. PICK Q : Q = WithQueue(P, c, x)
  OBVIOUS
<1>4. Q = [P EXCEPT !.queues = f]
  BY <1>1, <1>3 DEF WithQueue
<1>5. /\ Q \in PoolRecord /\ Q.order = P.order /\ Q.deferred = P.deferred
      /\ Q.userQueued = P.userQueued /\ Q.ownerQueued = P.ownerQueued /\ Q.queues = f
  BY <1>4 DEF PoolRecord
<1> QED BY <1>2, <1>3, <1>5

LEMMA WithDeferredIs ==
    ASSUME NEW P \in PoolRecord, NEW c \in Class, NEW x \in QueueRecord
    PROVE  /\ WithDeferred(P, c, x) \in PoolRecord /\ WithDeferred(P, c, x).order = P.order
           /\ WithDeferred(P, c, x).queues = P.queues
           /\ WithDeferred(P, c, x).userQueued = P.userQueued
           /\ WithDeferred(P, c, x).ownerQueued = P.ownerQueued
           /\ WithDeferred(P, c, x).deferred[c] = x
           /\ \A d \in Class : d # c => WithDeferred(P, c, x).deferred[d] = P.deferred[d]
<1>1. PICK f \in [Class -> QueueRecord] : f = [P.deferred EXCEPT ![c] = x]
  BY PoolFields
<1>2. f[c] = x /\ \A d \in Class : d # c => f[d] = P.deferred[d]
  BY <1>1, PoolFields
<1>3. PICK Q : Q = WithDeferred(P, c, x)
  OBVIOUS
<1>4. Q = [P EXCEPT !.deferred = f]
  BY <1>1, <1>3 DEF WithDeferred
<1>5. /\ Q \in PoolRecord /\ Q.order = P.order /\ Q.queues = P.queues
      /\ Q.userQueued = P.userQueued /\ Q.ownerQueued = P.ownerQueued /\ Q.deferred = f
  BY <1>4 DEF PoolRecord
<1> QED BY <1>2, <1>3, <1>5

\* Who joins or leaves the waiting.
LEMMA WaitersMove ==
    ASSUME NEW W \in SUBSET Ticket, IsFiniteSet(W), NEW t \in Ticket
    PROVE  /\ W \cup {t} \in SUBSET Ticket /\ IsFiniteSet(W \cup {t})
           /\ W \ {t} \in SUBSET Ticket /\ IsFiniteSet(W \ {t})
           /\ \A u \in Ticket : u.class # t.class \/ u.owner # t.owner =>
                 (u \in W \cup {t} <=> u \in W) /\ (u \in W \ {t} <=> u \in W)
  BY FS_AddElement, FS_RemoveElement

\* All lines but those of class c and owner o are the same.
OtherLines(P, Q, c, o) ==
    /\ \A d \in Class, p \in Owner : d # c \/ p # o =>
          /\ Q.queues[d].tickets[p] = P.queues[d].tickets[p]
          /\ Q.deferred[d].tickets[p] = P.deferred[d].tickets[p]

\* Between the tickets queued before t and those deferred after it.
Fits(P, t) ==
    /\ \A u \in ToSet(P.queues[t.class].tickets[t.owner]) : Older(P.order, u, t)
    /\ \A u \in ToSet(P.deferred[t.class].tickets[t.owner]) : Older(P.order, t, u)

\* The line of t gains t, no other line changes.
LineGains(P, Q, t) ==
    /\ OtherLines(P, Q, t.class, t.owner)
    /\ ToSet(Q.queues[t.class].tickets[t.owner]) = ToSet(P.queues[t.class].tickets[t.owner]) \cup {t}
    /\ Len(Q.queues[t.class].tickets[t.owner]) = Len(P.queues[t.class].tickets[t.owner]) + 1

LEMMA Enqueued ==
    ASSUME NEW P, NEW W, PoolOK(P, W), NEW t \in Ticket, t \notin W, t \in ToSet(P.order),
           Fits(P, t)
    PROVE  /\ PoolOK(Enqueue(P, t), W \cup {t}) /\ Enqueue(P, t).order = P.order
           /\ LineGains(P, Enqueue(P, t), t)
<1>0. PICK c, o, Q : c = t.class /\ o = t.owner /\ Q = Enqueue(P, t)
  OBVIOUS
<1>14. /\ \A u \in ToSet(P.queues[c].tickets[o]) : Older(P.order, u, t)
       /\ \A u \in ToSet(P.deferred[c].tickets[o]) : Older(P.order, t, u)
  BY <1>0 DEF Fits
<1>1. /\ c \in Class /\ o \in Owner /\ P \in PoolRecord /\ W \in SUBSET Ticket /\ IsFiniteSet(W)
      /\ CountsOK(P, W)
  BY <1>0, TicketFields DEF PoolOK
<1>2. PICK P0 : P0 = CountIn(P, t)
  OBVIOUS
<1>3. /\ P0 \in PoolRecord /\ CountsOK(P0, W \cup {t}) /\ P0.order = P.order
      /\ P0.queues = P.queues /\ P0.deferred = P.deferred
  BY <1>1, <1>2, CountInIs
<1>4. P0.queues[c] \in QueueRecord /\ RotationOK(P0.queues[c])
  BY <1>1, <1>3, PoolFields DEF PoolOK
<1>5. PICK q, x : q = P0.queues[c] /\ x = Push(q, t)
  BY Zenon
<1>6. /\ x \in QueueRecord /\ RotationOK(x)
      /\ x.tickets[o] = Append(P.queues[c].tickets[o], t)
      /\ \A p \in Owner : p # o => x.tickets[p] = P.queues[c].tickets[p]
  <2>1. q \in QueueRecord /\ RotationOK(q) /\ q = P.queues[c]
    BY <1>3, <1>4, <1>5, Zenon
  <2>2. /\ Push(q, t) \in QueueRecord /\ RotationOK(Push(q, t))
        /\ Push(q, t).tickets[t.owner] = Append(q.tickets[t.owner], t)
        /\ \A p \in Owner : p # t.owner => Push(q, t).tickets[p] = q.tickets[p]
    BY <2>1, PushIs
  <2> QED BY <2>1, <2>2, <1>0, <1>5
<1>7. Q = WithQueue(P0, c, x)
  BY <1>0, <1>2, <1>5 DEF Enqueue, WithQueue
<1>8. /\ Q \in PoolRecord /\ Q.order = P.order /\ Q.deferred = P.deferred
      /\ Q.userQueued = P0.userQueued /\ Q.ownerQueued = P0.ownerQueued
      /\ Q.queues[c] = x /\ \A d \in Class : d # c => Q.queues[d] = P.queues[d]
  <2>1. /\ Q \in PoolRecord /\ Q.order = P0.order /\ Q.deferred = P0.deferred
        /\ Q.userQueued = P0.userQueued /\ Q.ownerQueued = P0.ownerQueued
        /\ Q.queues[c] = x /\ \A d \in Class : d # c => Q.queues[d] = P0.queues[d]
    BY <1>1, <1>3, <1>6, <1>7, WithQueueIs
  <2> QED BY <1>3, <2>1
<1>9. CountsOK(Q, W \cup {t})
  BY <1>3, <1>8 DEF CountsOK
<1>10. LineOK(P.order, W \cup {t}, c, o, x.tickets[o], P.deferred[c].tickets[o])
  <2>1. PICK a, d : a = P.queues[c].tickets[o] /\ d = P.deferred[c].tickets[o]
    OBVIOUS
  <2>2. a \in Seq(Ticket) /\ d \in Seq(Ticket) /\ LineOK(P.order, W, c, o, a, d)
    BY <1>1, <2>1, LineIs
  <2>3. ToSet(Append(a, t)) = ToSet(a) \cup {t}
    BY <2>2, Appended
  <2>4. Sorted(P.order, Append(a, t))
    BY <2>1, <2>2, <1>14, SortedGrows DEF LineOK
  <2>5. ToSet(Append(a, t)) \cup ToSet(d) = {u \in W \cup {t} : u.class = c /\ u.owner = o}
    BY <1>0, <2>2, <2>3 DEF LineOK
  <2>6. \A u \in ToSet(Append(a, t)), y \in ToSet(d) : Older(P.order, u, y)
    <3>1. \A u \in ToSet(a), y \in ToSet(d) : Older(P.order, u, y)
      BY <2>2 DEF LineOK
    <3>2. \A y \in ToSet(d) : Older(P.order, t, y)
      BY <2>1, <1>14
    <3> QED BY <2>3, <3>1, <3>2
  <2>7. LineOK(P.order, W \cup {t}, c, o, Append(a, t), d)
    BY <2>2, <2>4, <2>5, <2>6 DEF LineOK
  <2> QED BY <1>6, <2>1, <2>7
<1>11. PoolOK(Q, W \cup {t})
  <2>1. /\ \A d \in Class : d # c => Q.queues[d] = P.queues[d] /\ Q.deferred[d] = P.deferred[d]
        /\ RotationOK(Q.queues[c]) /\ RotationOK(Q.deferred[c])
        /\ \A p \in Owner : p # o => /\ Q.queues[c].tickets[p] = P.queues[c].tickets[p]
                                     /\ Q.deferred[c].tickets[p] = P.deferred[c].tickets[p]
    BY <1>1, <1>6, <1>8 DEF PoolOK
  <2>2. LineOK(P.order, W \cup {t}, c, o, Q.queues[c].tickets[o], Q.deferred[c].tickets[o])
    BY <1>8, <1>10
  <2>3. /\ W \cup {t} \in SUBSET Ticket /\ IsFiniteSet(W \cup {t}) /\ W \cup {t} \subseteq ToSet(P.order)
        /\ \A u \in Ticket : u.class # c \/ u.owner # o => (u \in W \cup {t} <=> u \in W)
    BY <1>0, <1>1, WaitersMove DEF PoolOK
  <2>4. PICK V : V = W \cup {t}
    OBVIOUS
  <2> QED BY <1>1, <1>8, <1>9, <2>1, <2>2, <2>3, <2>4, LineMoves
<1>12. OtherLines(P, Q, c, o)
  BY <1>6, <1>8, Zenon DEF OtherLines
<1>13. /\ ToSet(Q.queues[c].tickets[o]) = ToSet(P.queues[c].tickets[o]) \cup {t}
       /\ Len(Q.queues[c].tickets[o]) = Len(P.queues[c].tickets[o]) + 1
  <2>1. PICK a \in Seq(Ticket) : a = P.queues[c].tickets[o]
    BY <1>1, LineIs
  <2>2. Q.queues[c].tickets[o] = Append(a, t)
    BY <1>6, <1>8, <2>1
  <2>3. ToSet(Append(a, t)) = ToSet(a) \cup {t} /\ Len(Append(a, t)) = Len(a) + 1
    BY Appended
  <2> QED BY <2>1, <2>2, <2>3
<1> QED BY <1>0, <1>8, <1>11, <1>12, <1>13 DEF LineGains


\* A deferred line changes: that is never a user's.
LEMMA DeferredMoves ==
    ASSUME NEW P, NEW W, PoolOK(P, W), NEW t \in Ticket, Background(t),
           NEW V, V = W \cup {t} \/ V = W \ {t}, V \subseteq ToSet(P.order),
           NEW c, c = t.class, NEW o, o = t.owner,
           NEW x \in QueueRecord, RotationOK(x),
           \A p \in Owner : p # o => x.tickets[p] = P.deferred[c].tickets[p],
           LineOK(P.order, V, c, o, P.queues[c].tickets[o], x.tickets[o]),
           NEW Q, Q = WithDeferred(P, c, x)
    PROVE  /\ PoolOK(Q, V) /\ Q.order = P.order /\ OtherLines(P, Q, c, o)
           /\ Q.queues = P.queues /\ Q.deferred[c] = x
<1>1. /\ c \in Class /\ o \in Owner /\ P \in PoolRecord /\ W \in SUBSET Ticket /\ IsFiniteSet(W)
      /\ CountsOK(P, W)
  BY TicketFields DEF PoolOK
<1>2. /\ Q \in PoolRecord /\ Q.order = P.order /\ Q.queues = P.queues
      /\ Q.userQueued = P.userQueued /\ Q.ownerQueued = P.ownerQueued
      /\ Q.deferred[c] = x /\ \A d \in Class : d # c => Q.deferred[d] = P.deferred[d]
  BY <1>1, WithDeferredIs
<1>3. Users(V) = Users(W) /\ \A p : UsersOf(V, p) = UsersOf(W, p)
  BY DEF Users, UsersOf
<1>4. CountsOK(Q, V)
  BY <1>1, <1>2, <1>3 DEF CountsOK
<1>5. /\ V \in SUBSET Ticket /\ IsFiniteSet(V)
      /\ \A u \in Ticket : u.class # c \/ u.owner # o => (u \in V <=> u \in W)
  BY <1>1, WaitersMove
<1>6. /\ \A d \in Class : d # c => Q.queues[d] = P.queues[d] /\ Q.deferred[d] = P.deferred[d]
      /\ RotationOK(Q.queues[c]) /\ RotationOK(Q.deferred[c])
      /\ \A p \in Owner : p # o => /\ Q.queues[c].tickets[p] = P.queues[c].tickets[p]
                                   /\ Q.deferred[c].tickets[p] = P.deferred[c].tickets[p]
  BY <1>1, <1>2 DEF PoolOK
<1>7. LineOK(P.order, V, c, o, Q.queues[c].tickets[o], Q.deferred[c].tickets[o])
  BY <1>2, Zenon
<1>8. PoolOK(Q, V)
  BY <1>1, <1>2, <1>4, <1>5, <1>6, <1>7, LineMoves, SMTT(30)
<1>9. OtherLines(P, Q, c, o)
  BY <1>2 DEF OtherLines
<1> QED BY <1>2, <1>8, <1>9

\* t came after all of W.
ComesLast(P, W, t) == \A u \in W : Older(P.order, u, t)

\* Background work defers, behind all its owner has.
LEMMA DeferIs ==
    ASSUME NEW P, NEW W, PoolOK(P, W), NEW t \in Ticket, t \notin W, t \in ToSet(P.order),
           Background(t), ComesLast(P, W, t), NEW Q, Q = Defer(P, t)
    PROVE  PoolOK(Q, W \cup {t}) /\ Q.order = P.order /\ Q.queues = P.queues
<1>a. PICK c, o : c = t.class /\ o = t.owner
  OBVIOUS
<1>b. \A u \in W : Older(P.order, u, t)
  BY DEF ComesLast
<1> USE <1>a, <1>b
<1>1. c \in Class /\ o \in Owner
  BY TicketFields
<1>2. PICK q, x : q = P.deferred[c] /\ x = Push(q, t)
  OBVIOUS
<1>3. q \in QueueRecord /\ RotationOK(q)
  BY <1>1, <1>2, PoolFields DEF PoolOK
<1>4. /\ Push(q, t) \in QueueRecord /\ RotationOK(Push(q, t))
      /\ Push(q, t).tickets[t.owner] = Append(q.tickets[t.owner], t)
      /\ \A p \in Owner : p # t.owner => Push(q, t).tickets[p] = q.tickets[p]
  BY <1>3, PushIs
<1>5. Q = WithDeferred(P, c, x)
  BY <1>1, <1>2 DEF Defer, WithDeferred
<1>6. PICK a, d : a = P.queues[c].tickets[o] /\ d = P.deferred[c].tickets[o]
  OBVIOUS
<1>7. a \in Seq(Ticket) /\ d \in Seq(Ticket) /\ LineOK(P.order, W, c, o, a, d)
  BY <1>1, <1>6, LineIs
<1>0. PICK e : e = Append(d, t)
  OBVIOUS
<1>8. ToSet(e) = {t} \cup ToSet(d)
  BY <1>0, <1>7, Appended
<1>9. ToSet(a) \subseteq W /\ ToSet(d) \subseteq W
  BY <1>7 DEF LineOK
<1>10. Sorted(P.order, e)
  BY <1>0, <1>7, <1>9, SortedGrows DEF LineOK
<1>11. ToSet(a) \cup ToSet(e) = {u \in W \cup {t} : u.class = c /\ u.owner = o}
  BY <1>1, <1>7, <1>8 DEF LineOK
<1>12. \A u \in ToSet(a), y \in ToSet(e) : Older(P.order, u, y)
  <2>1. \A u \in ToSet(a), y \in ToSet(d) : Older(P.order, u, y)
    BY <1>7 DEF LineOK
  <2> QED BY <1>8, <1>9, <2>1
<1>13. c \notin UserClass
  BY <1>1, KindOf
<1>14. LineOK(P.order, W \cup {t}, c, o, a, e)
  BY <1>7, <1>10, <1>11, <1>12, <1>13, Zenon DEF LineOK
<1>15. /\ x \in QueueRecord /\ RotationOK(x) /\ x.tickets[o] = e
       /\ \A p \in Owner : p # o => x.tickets[p] = P.deferred[c].tickets[p]
  BY <1>0, <1>1, <1>2, <1>4, <1>6
<1>16. PICK V : V = W \cup {t}
  OBVIOUS
<1>17. V \subseteq ToSet(P.order)
  BY <1>16 DEF PoolOK
<1>18. LineOK(P.order, V, c, o, P.queues[c].tickets[o], x.tickets[o])
  BY <1>6, <1>14, <1>15, <1>16
<1>19. V = W \cup {t} \/ V = W \ {t}
  BY <1>16
<1>20. PoolOK(Q, V) /\ Q.order = P.order /\ Q.queues = P.queues
  <2>1. PoolOK(P, W) /\ t \in Ticket /\ Background(t) /\ c = t.class /\ o = t.owner
    OBVIOUS
  <2> QED BY ONLY <2>1, <1>5, <1>15, <1>17, <1>18, <1>19, DeferredMoves
<1> QED BY <1>16, <1>20

DeferFront(P, t) == WithDeferred(P, t.class, PushFront(P.deferred[t.class], t))

\* A waiter that is older than its owner's deferred work defers in front of it.
LEMMA DeferInFront ==
    ASSUME NEW P, NEW W, PoolOK(P, W), NEW t \in Ticket, t \notin W, t \in ToSet(P.order),
           Background(t), Fits(P, t), NEW Q, Q = DeferFront(P, t)
    PROVE  PoolOK(Q, W \cup {t}) /\ Q.order = P.order /\ Q.queues = P.queues
<1>a. PICK c, o : c = t.class /\ o = t.owner
  OBVIOUS
<1>b. /\ \A u \in ToSet(P.queues[c].tickets[o]) : Older(P.order, u, t)
      /\ \A u \in ToSet(P.deferred[c].tickets[o]) : Older(P.order, t, u)
  BY <1>a DEF Fits
<1> USE <1>a, <1>b
<1>1. c \in Class /\ o \in Owner
  BY TicketFields
<1>2. PICK q, x : q = P.deferred[c] /\ x = PushFront(q, t)
  OBVIOUS
<1>3. q \in QueueRecord /\ RotationOK(q)
  BY <1>1, <1>2, PoolFields DEF PoolOK
<1>4. /\ PushFront(q, t) \in QueueRecord /\ RotationOK(PushFront(q, t))
      /\ PushFront(q, t).tickets[t.owner] = <<t>> \o q.tickets[t.owner]
      /\ \A p \in Owner : p # t.owner => PushFront(q, t).tickets[p] = q.tickets[p]
  BY <1>3, PushFrontIs
<1>5. Q = WithDeferred(P, c, x)
  BY <1>2 DEF DeferFront
<1>6. PICK a, d : a = P.queues[c].tickets[o] /\ d = P.deferred[c].tickets[o]
  OBVIOUS
<1>7. a \in Seq(Ticket) /\ d \in Seq(Ticket) /\ LineOK(P.order, W, c, o, a, d)
  BY <1>1, <1>6, LineIs
<1>8. PICK e : e = <<t>> \o d
  OBVIOUS
<1>9. ToSet(e) = {t} \cup ToSet(d)
  BY <1>7, <1>8, InFront, Zenon
<1>10. Sorted(P.order, e)
  BY <1>6, <1>7, <1>8, SortedInFront DEF LineOK
<1>11. ToSet(a) \cup ToSet(e) = {u \in W \cup {t} : u.class = c /\ u.owner = o}
  BY <1>7, <1>9 DEF LineOK
<1>12. \A u \in ToSet(a), y \in ToSet(e) : Older(P.order, u, y)
  <2>1. \A u \in ToSet(a), y \in ToSet(d) : Older(P.order, u, y)
    BY <1>7 DEF LineOK
  <2>2. \A u \in ToSet(a) : Older(P.order, u, t)
    BY <1>6
  <2> QED BY <1>9, <2>1, <2>2
<1>13. c \notin UserClass
  BY KindOf
<1>14. LineOK(P.order, W \cup {t}, c, o, a, e)
  BY <1>7, <1>10, <1>11, <1>12, <1>13, Zenon DEF LineOK
<1>15. /\ x \in QueueRecord /\ RotationOK(x) /\ x.tickets[o] = e
       /\ \A p \in Owner : p # o => x.tickets[p] = P.deferred[c].tickets[p]
  BY <1>2, <1>4, <1>6, <1>8
<1>16. PICK V : V = W \cup {t}
  OBVIOUS
<1>17. V \subseteq ToSet(P.order)
  BY <1>16 DEF PoolOK
<1>18. LineOK(P.order, V, c, o, P.queues[c].tickets[o], x.tickets[o])
  BY <1>6, <1>14, <1>15, <1>16
<1>19. V = W \cup {t} \/ V = W \ {t}
  BY <1>16
<1>20. PoolOK(Q, V) /\ Q.order = P.order /\ Q.queues = P.queues
  BY <1>5, <1>15, <1>17, <1>18, <1>19, DeferredMoves, SMTT(30)
<1> QED BY <1>16, <1>20


\* A waiter leaves its line.
LEMMA RemoveDeferredIs ==
    ASSUME NEW P, NEW W, PoolOK(P, W), NEW t \in Ticket, t \in W, IsDeferred(P, t),
           NEW served \in BOOLEAN, NEW c, c = t.class, NEW o, o = t.owner,
           NEW Q, Q = RemoveWaiter(P, t, served)
    PROVE  /\ PoolOK(Q, W \ {t}) /\ Q.order = P.order /\ OtherLines(P, Q, c, o)
           /\ Q.queues = P.queues
           /\ Q.deferred[c].tickets[o] = RemoveFirst(P.deferred[c].tickets[o], t)
<1>1. c \in Class /\ o \in Owner
  BY TicketFields
<1>2. PICK a, d : a = P.queues[c].tickets[o] /\ d = P.deferred[c].tickets[o]
  OBVIOUS
<1>3. /\ a \in Seq(Ticket) /\ d \in Seq(Ticket) /\ LineOK(P.order, W, c, o, a, d)
      /\ IsInjective(d) /\ ToSet(a) \cap ToSet(d) = {}
  BY <1>1, <1>2, LineIs
<1>4. t \in ToSet(d)
  BY <1>2, PlaceOf
<1>5. Background(t)
  <2>1. d # <<>>
    BY <1>3, <1>4, MembersOf
  <2> QED BY <1>3, <2>1, KindOf DEF LineOK
<1>6. PICK q, x : q = P.deferred[c] /\ x = Drop(q, t, served)
  OBVIOUS
<1>7. q \in QueueRecord /\ RotationOK(q) /\ q.tickets[t.owner] = d
  BY <1>1, <1>2, <1>6, PoolFields DEF PoolOK
<1>8. /\ Drop(q, t, served) \in QueueRecord /\ RotationOK(Drop(q, t, served))
      /\ Drop(q, t, served).tickets[t.owner] = RemoveFirst(q.tickets[t.owner], t)
      /\ \A p \in Owner : p # t.owner => Drop(q, t, served).tickets[p] = q.tickets[p]
  BY <1>3, <1>4, <1>7, DropIs
<1>9. PICK e : e = RemoveFirst(d, t)
  OBVIOUS
<1>10. /\ x \in QueueRecord /\ RotationOK(x) /\ x.tickets[o] = e
       /\ \A p \in Owner : p # o => x.tickets[p] = P.deferred[c].tickets[p]
  BY <1>6, <1>7, <1>8, <1>9
<1>11. Q = WithDeferred(P, c, x)
  BY <1>6 DEF RemoveWaiter, WithDeferred
<1>12. ToSet(e) = ToSet(d) \ {t}
  BY <1>3, <1>4, <1>9, LeavesSet
<1>13. Sorted(P.order, e)
  BY <1>3, <1>4, <1>9, SortedShrinks DEF LineOK
<1>14. PICK V : V = W \ {t}
  OBVIOUS
<1>15. LineOK(P.order, V, c, o, a, e)
  <2>1. t \notin ToSet(a)
    BY <1>3, <1>4
  <2>2. ToSet(a) \cup ToSet(e) = {u \in V : u.class = c /\ u.owner = o}
    BY <1>3, <1>12, <1>14, <2>1 DEF LineOK
  <2>3. \A u \in ToSet(a), y \in ToSet(e) : Older(P.order, u, y)
    BY <1>3, <1>12 DEF LineOK
  <2>4. c \notin UserClass
    BY <1>5, KindOf
  <2> QED BY <1>3, <1>13, <2>2, <2>3, <2>4 DEF LineOK
<1>16. LineOK(P.order, V, c, o, P.queues[c].tickets[o], x.tickets[o])
  BY <1>2, <1>10, <1>15
<1>17. V \subseteq ToSet(P.order) /\ (V = W \cup {t} \/ V = W \ {t})
  BY <1>14 DEF PoolOK
<1>18. /\ PoolOK(Q, V) /\ Q.order = P.order /\ OtherLines(P, Q, c, o)
       /\ Q.queues = P.queues /\ Q.deferred[c] = x
  <2>1. PoolOK(P, W) /\ t \in Ticket /\ c = t.class /\ o = t.owner
    OBVIOUS
  <2> QED BY ONLY <2>1, <1>5, <1>10, <1>11, <1>16, <1>17, DeferredMoves
<1> QED BY <1>2, <1>9, <1>10, <1>14, <1>18

LEMMA RemoveQueuedIs ==
    ASSUME NEW P, NEW W, PoolOK(P, W), NEW t \in Ticket, t \in W, ~IsDeferred(P, t),
           NEW served \in BOOLEAN, NEW c, c = t.class, NEW o, o = t.owner,
           NEW Q, Q = RemoveWaiter(P, t, served)
    PROVE  /\ PoolOK(Q, W \ {t}) /\ Q.order = P.order /\ OtherLines(P, Q, c, o)
           /\ Q.deferred = P.deferred
           /\ Q.queues[c].tickets[o] = RemoveFirst(P.queues[c].tickets[o], t)
<1>1. /\ c \in Class /\ o \in Owner /\ P \in PoolRecord /\ W \in SUBSET Ticket /\ IsFiniteSet(W)
      /\ CountsOK(P, W)
  BY TicketFields DEF PoolOK
<1>2. PICK a, d : a = P.queues[c].tickets[o] /\ d = P.deferred[c].tickets[o]
  OBVIOUS
<1>3. /\ a \in Seq(Ticket) /\ d \in Seq(Ticket) /\ LineOK(P.order, W, c, o, a, d)
      /\ IsInjective(a) /\ ToSet(a) \cap ToSet(d) = {}
  BY <1>1, <1>2, LineIs
<1>4. t \in ToSet(a)
  BY <1>2, PlaceOf
<1>5. PICK P0 : P0 = CountOut(P, t)
  OBVIOUS
<1>6. /\ P0 \in PoolRecord /\ CountsOK(P0, W \ {t}) /\ P0.order = P.order
      /\ P0.queues = P.queues /\ P0.deferred = P.deferred
  BY <1>1, <1>5, CountOutIs
<1>7. PICK q, x : q = P0.queues[c] /\ x = Drop(q, t, served)
  OBVIOUS
<1>8. q \in QueueRecord /\ RotationOK(q) /\ q.tickets[t.owner] = a /\ q = P.queues[c]
  BY <1>1, <1>2, <1>6, <1>7, PoolFields DEF PoolOK
<1>9. /\ Drop(q, t, served) \in QueueRecord /\ RotationOK(Drop(q, t, served))
      /\ Drop(q, t, served).tickets[t.owner] = RemoveFirst(q.tickets[t.owner], t)
      /\ \A p \in Owner : p # t.owner => Drop(q, t, served).tickets[p] = q.tickets[p]
  BY <1>3, <1>4, <1>8, DropIs
<1>10. PICK e : e = RemoveFirst(a, t)
  OBVIOUS
<1>11. /\ x \in QueueRecord /\ RotationOK(x) /\ x.tickets[o] = e
       /\ \A p \in Owner : p # o => x.tickets[p] = P.queues[c].tickets[p]
  BY <1>7, <1>8, <1>9, <1>10
<1>12. Q = WithQueue(P0, c, x)
  BY <1>5, <1>7 DEF RemoveWaiter, WithQueue
<1>13. /\ Q \in PoolRecord /\ Q.order = P.order /\ Q.deferred = P.deferred
       /\ Q.userQueued = P0.userQueued /\ Q.ownerQueued = P0.ownerQueued
       /\ Q.queues[c] = x /\ \A k \in Class : k # c => Q.queues[k] = P.queues[k]
  <2>1. /\ Q \in PoolRecord /\ Q.order = P0.order /\ Q.deferred = P0.deferred
        /\ Q.userQueued = P0.userQueued /\ Q.ownerQueued = P0.ownerQueued
        /\ Q.queues[c] = x /\ \A k \in Class : k # c => Q.queues[k] = P0.queues[k]
    BY <1>1, <1>6, <1>11, <1>12, WithQueueIs
  <2> QED BY <1>6, <2>1
<1>14. PICK V : V = W \ {t}
  OBVIOUS
<1>15. CountsOK(Q, V)
  BY <1>6, <1>13, <1>14 DEF CountsOK
<1>16. ToSet(e) = ToSet(a) \ {t}
  BY <1>3, <1>4, <1>10, LeavesSet
<1>17. Sorted(P.order, e)
  BY <1>3, <1>4, <1>10, SortedShrinks DEF LineOK
<1>18. LineOK(P.order, V, c, o, e, d)
  <2>1. t \notin ToSet(d)
    BY <1>3, <1>4
  <2>2. ToSet(e) \cup ToSet(d) = {u \in V : u.class = c /\ u.owner = o}
    BY <1>3, <1>14, <1>16, <2>1 DEF LineOK
  <2>3. \A u \in ToSet(e), y \in ToSet(d) : Older(P.order, u, y)
    BY <1>3, <1>16 DEF LineOK
  <2> QED BY <1>3, <1>17, <2>2, <2>3 DEF LineOK
<1>19. LineOK(P.order, V, c, o, Q.queues[c].tickets[o], Q.deferred[c].tickets[o])
  BY <1>2, <1>11, <1>13, <1>18
<1>20. /\ V \in SUBSET Ticket /\ IsFiniteSet(V) /\ V \subseteq ToSet(P.order)
       /\ \A u \in Ticket : u.class # c \/ u.owner # o => (u \in V <=> u \in W)
  BY <1>1, <1>14, WaitersMove DEF PoolOK
<1>21. /\ \A k \in Class : k # c => Q.queues[k] = P.queues[k] /\ Q.deferred[k] = P.deferred[k]
       /\ RotationOK(Q.queues[c]) /\ RotationOK(Q.deferred[c])
       /\ \A p \in Owner : p # o => /\ Q.queues[c].tickets[p] = P.queues[c].tickets[p]
                                    /\ Q.deferred[c].tickets[p] = P.deferred[c].tickets[p]
  BY <1>1, <1>11, <1>13 DEF PoolOK
<1>22. PoolOK(Q, V)
  <2>1. PoolOK(P, W)
    OBVIOUS
  <2> QED BY ONLY <2>1, <1>1, <1>13, <1>15, <1>19, <1>20, <1>21, LineMoves
<1>23. OtherLines(P, Q, c, o)
  BY <1>11, <1>13 DEF OtherLines
<1> QED BY <1>2, <1>10, <1>11, <1>13, <1>14, <1>22, <1>23


----------------------------------------------------------------------------
(* Departures. *)

LEMMA AdmittedFinite ==
    ASSUME NEW P, NEW W, PoolOK(P, W)
    PROVE  /\ Admitted(P) \subseteq W /\ IsFiniteSet(Admitted(P))
           /\ Cardinality(Admitted(P)) \in Nat /\ BackgroundQueued(P) = Cardinality(Admitted(P))
<1>1. Admitted(P) \subseteq W
  BY PlaceOf
<1>2. IsFiniteSet(Admitted(P)) /\ Cardinality(Admitted(P)) \in Nat
  BY <1>1, FS_Subset, FS_CardinalityType DEF PoolOK
<1> QED BY <1>1, <1>2 DEF BackgroundQueued, Admitted

\* Each line of Q is as long as in P, without t.
LinesWithout(P, Q, t) ==
    \A c \in Class, o \in Owner :
        Len(Q.queues[c].tickets[o]) =
            IF t \in ToSet(P.queues[c].tickets[o]) THEN Len(P.queues[c].tickets[o]) - 1
            ELSE Len(P.queues[c].tickets[o])

\* What removing a waiter leaves queued.
LEMMA RemoveWaiterIs ==
    ASSUME NEW P, NEW W, PoolOK(P, W), NEW t \in W, NEW served \in BOOLEAN,
           NEW Q, Q = RemoveWaiter(P, t, served)
    PROVE  /\ PoolOK(Q, W \ {t}) /\ Q.order = P.order
           /\ Admitted(Q) = Admitted(P) \ {t}
           /\ LinesWithout(P, Q, t)
<1>1. t \in Ticket
  BY DEF PoolOK
<1>2. PICK c \in Class, o \in Owner : c = t.class /\ o = t.owner
  BY <1>1, TicketFields
<1>3. \A k \in Class, p \in Owner : t \in ToSet(P.queues[k].tickets[p]) => k = c /\ p = o
  BY <1>2 DEF PoolOK, LinesOK, LineOK
<1>4. ASSUME IsDeferred(P, t)
      PROVE  /\ PoolOK(Q, W \ {t}) /\ Q.order = P.order
             /\ \A k \in Class, p \in Owner :
                   /\ ToSet(Q.queues[k].tickets[p]) = ToSet(P.queues[k].tickets[p]) \ {t}
                   /\ Len(Q.queues[k].tickets[p]) =
                        IF t \in ToSet(P.queues[k].tickets[p]) THEN Len(P.queues[k].tickets[p]) - 1
                        ELSE Len(P.queues[k].tickets[p])
  <2>1. PoolOK(Q, W \ {t}) /\ Q.order = P.order /\ Q.queues = P.queues
    BY <1>1, <1>2, <1>4, RemoveDeferredIs
  <2>2. t \in ToSet(P.deferred[c].tickets[o])
    BY <1>2, <1>4, PlaceOf
  <2>3. t \notin ToSet(P.queues[c].tickets[o])
    BY <2>2, LineIs
  <2>4. \A k \in Class, p \in Owner : t \notin ToSet(P.queues[k].tickets[p])
    BY <1>3, <2>3
  <2> QED BY <2>1, <2>4
<1>5. ASSUME ~IsDeferred(P, t)
      PROVE  /\ PoolOK(Q, W \ {t}) /\ Q.order = P.order
             /\ \A k \in Class, p \in Owner :
                   /\ ToSet(Q.queues[k].tickets[p]) = ToSet(P.queues[k].tickets[p]) \ {t}
                   /\ Len(Q.queues[k].tickets[p]) =
                        IF t \in ToSet(P.queues[k].tickets[p]) THEN Len(P.queues[k].tickets[p]) - 1
                        ELSE Len(P.queues[k].tickets[p])
  <2>1. /\ PoolOK(Q, W \ {t}) /\ Q.order = P.order /\ OtherLines(P, Q, c, o)
        /\ Q.queues[c].tickets[o] = RemoveFirst(P.queues[c].tickets[o], t)
    BY <1>1, <1>2, <1>5, RemoveQueuedIs
  <2>2. t \in ToSet(P.queues[c].tickets[o])
    BY <1>2, <1>5, PlaceOf
  <2>3. /\ ToSet(Q.queues[c].tickets[o]) = ToSet(P.queues[c].tickets[o]) \ {t}
        /\ Len(Q.queues[c].tickets[o]) = Len(P.queues[c].tickets[o]) - 1
    BY <2>1, <2>2, LineIs, LeavesSet
  <2>4. ASSUME NEW k \in Class, NEW p \in Owner, k # c \/ p # o
        PROVE  /\ Q.queues[k].tickets[p] = P.queues[k].tickets[p]
               /\ t \notin ToSet(P.queues[k].tickets[p])
    BY <2>1, <2>4, <1>3 DEF OtherLines
  <2>5. ASSUME NEW k \in Class, NEW p \in Owner
        PROVE  /\ ToSet(Q.queues[k].tickets[p]) = ToSet(P.queues[k].tickets[p]) \ {t}
               /\ Len(Q.queues[k].tickets[p]) =
                    IF t \in ToSet(P.queues[k].tickets[p]) THEN Len(P.queues[k].tickets[p]) - 1
                    ELSE Len(P.queues[k].tickets[p])
    <3>1. CASE k = c /\ p = o
      BY <3>1, <2>2, <2>3
    <3>2. CASE k # c \/ p # o
      <4>1. /\ Q.queues[k].tickets[p] = P.queues[k].tickets[p]
            /\ t \notin ToSet(P.queues[k].tickets[p])
        BY <2>4, <3>2
      <4> QED BY <4>1
    <3> QED BY <3>1, <3>2
  <2> QED BY <2>1, <2>5
<1>6. /\ PoolOK(Q, W \ {t}) /\ Q.order = P.order
      /\ \A k \in Class, p \in Owner :
            /\ ToSet(Q.queues[k].tickets[p]) = ToSet(P.queues[k].tickets[p]) \ {t}
            /\ Len(Q.queues[k].tickets[p]) =
                 IF t \in ToSet(P.queues[k].tickets[p]) THEN Len(P.queues[k].tickets[p]) - 1
                 ELSE Len(P.queues[k].tickets[p])
  BY <1>4, <1>5
<1>7. \A u : u \in Admitted(Q) <=> u \in Admitted(P) \ {t}
  <2>1. \A k \in Class : Tickets(Q.queues[k]) = Tickets(P.queues[k]) \ {t}
    <3>1. \A k \in Class, p \in Owner :
             ToSet(Q.queues[k].tickets[p]) = ToSet(P.queues[k].tickets[p]) \ {t}
      BY <1>6
    <3> QED BY <3>1 DEF Tickets
  <2>2. BackgroundClass \subseteq Class
    BY ClassKinds
  <2> QED BY <2>1, <2>2 DEF Admitted
<1> QED BY <1>6, <1>7 DEF LinesWithout

\* Q is P without t.
Left(P, Q, W, t) ==
    /\ PoolOK(Q, W \ {t}) /\ ToSet(Q.order) = W \ {t}
    /\ Admitted(Q) = Admitted(P) \ {t} /\ LinesWithout(P, Q, t)

\* A ticket departs for good.
LEMMA DepartIs ==
    ASSUME NEW P, NEW W, PoolOK(P, W), ToSet(P.order) = W, NEW t \in W, NEW served \in BOOLEAN
    PROVE  Left(P, Depart(P, t, served), W, t)
<1>0. PICK Q : Q = Depart(P, t, served)
  OBVIOUS
<1>1. PICK R : R = RemoveWaiter(P, t, served)
  OBVIOUS
<1>2. /\ PoolOK(R, W \ {t}) /\ R.order = P.order
      /\ Admitted(R) = Admitted(P) \ {t}
      /\ LinesWithout(P, R, t)
  <2>1. PoolOK(P, W) /\ t \in W /\ served \in BOOLEAN
    OBVIOUS
  <2> QED BY ONLY <2>1, <1>1, RemoveWaiterIs
<1>3. P.order \in Seq(Ticket) /\ IsInjective(P.order)
  BY PoolFields DEF PoolOK
<1>4. PICK order \in Seq(Ticket) :
         /\ order = RemoveFirst(P.order, t) /\ IsInjective(order) /\ ToSet(order) = W \ {t}
         /\ \A x, y : x # t /\ y # t /\ Older(P.order, x, y) => Older(order, x, y)
  BY <1>3, OrderShrinks
<1>5. Q = WithOrder(R, order)
  BY <1>0, <1>1, <1>2, <1>4 DEF Depart, WithOrder
<1>6. \A x, y \in W \ {t} : Older(R.order, x, y) => Older(order, x, y)
  BY <1>2, <1>4
<1>7. PICK V : V = W \ {t}
  OBVIOUS
<1>8. PoolOK(R, V) /\ V \subseteq ToSet(order)
      /\ \A x, y \in V : Older(R.order, x, y) => Older(order, x, y)
  BY <1>2, <1>4, <1>6, <1>7
<1>9. PoolOK(WithOrder(R, order), V) /\ WithOrder(R, order).order = order
      /\ WithOrder(R, order).queues = R.queues
  BY <1>4, <1>8, OrderMoves
<1>10. Admitted(Q) = Admitted(R)
  BY <1>5, <1>9 DEF Admitted
<1>11. LinesWithout(P, Q, t)
  BY <1>2, <1>5, <1>9 DEF LinesWithout
<1> QED BY <1>0, <1>2, <1>4, <1>5, <1>7, <1>9, <1>10, <1>11 DEF Left


----------------------------------------------------------------------------
(* Admission of background work. *)

Fine(P, W, h) == PoolOK(P, W) /\ Bounded(P) /\ Limited(P, h)

\* The best rung has somebody on it.
LEMMA EarliestIs ==
    ASSUME NEW P, P.order \in Seq(Ticket), NEW S, S \subseteq ToSet(P.order), S # {}
    PROVE  Earliest(P, S) \in S
<1>1. ToSet(P.order) \subseteq Ticket
  BY MembersOf
<1>2. \A t \in S : Rung(t) \in Nat
  BY <1>1, TicketFields DEF Rung, BackgroundMedia
<1>3. PICK R \in SUBSET Nat : R = {Rung(t) : t \in S} /\ R # {}
  <2>1. {Rung(t) : t \in S} \in SUBSET Nat /\ {Rung(t) : t \in S} # {}
    BY <1>2
  <2> QED BY <2>1
<1>4. PICK m \in R : \A k \in R : m <= k
  BY <1>3, Least
<1>5. PICK B : B = {t \in S : \A u \in S : Rung(t) <= Rung(u)}
  OBVIOUS
<1>6. PICK t \in S : Rung(t) = m
  BY <1>3, <1>4
<1>7. t \in B /\ B \subseteq S
  BY <1>3, <1>4, <1>5, <1>6
<1>8. Oldest(P, B) \in B
  BY <1>7, OldestIs
<1> QED BY <1>5, <1>7, <1>8 DEF Earliest

\* An offer is the first deferred ticket of an owner under its limit.
LEMMA OfferIs ==
    ASSUME NEW P, NEW W, PoolOK(P, W), NEW h, NEW t \in Offers(P, h)
    PROVE  /\ t \in W /\ t \in Ticket /\ Background(t) /\ IsDeferred(P, t)
           /\ P.deferred[t.class].tickets[t.owner] # <<>>
           /\ t = P.deferred[t.class].tickets[t.owner][1]
           /\ Outstanding(P, h, t.class, t.owner) < BackgroundTicketLimit(t.class)
<1>1. PICK c \in BackgroundClass : t \in Tickets(P.deferred[c])
  BY DEF Offers
<1>2. c \in Class
  BY <1>1, ClassKinds
<1>3. t \in W /\ t.class = c /\ t \in ToSet(P.deferred[c].tickets[t.owner])
  BY <1>1, <1>2, PlaceOf
<1>4. t \in Ticket /\ t.owner \in Owner /\ Background(t)
  BY <1>3, <1>1, TicketFields, Zenon DEF PoolOK, Background
<1>5. PICK i \in 1 .. Len(P.deferred[c].rotation) :
         /\ Outstanding(P, h, c, P.deferred[c].rotation[i]) < BackgroundTicketLimit(c)
         /\ t = P.deferred[c].tickets[P.deferred[c].rotation[i]][1]
  BY <1>3 DEF Offers
<1>6. P.deferred[c] \in QueueRecord /\ RotationOK(P.deferred[c])
  BY <1>2, PoolFields DEF PoolOK
<1>7. PICK q : q = P.deferred[c]
  OBVIOUS
<1>8. q.rotation \in Seq(Owner) /\ i \in DOMAIN q.rotation
  BY <1>5, <1>6, <1>7, QueueFields
<1>9. PICK o \in Owner : o = q.rotation[i] /\ o \in ToSet(q.rotation)
  BY <1>8 DEF ToSet
<1>10. q.tickets[o] # <<>> /\ q.tickets[o] \in Seq(Ticket)
  BY <1>6, <1>7, <1>9, QueueFields, Zenon DEF RotationOK
<1>11. t = q.tickets[o][1] /\ t \in ToSet(q.tickets[o])
  BY <1>5, <1>7, <1>9, <1>10, First, Zenon
<1>12. t.owner = o
  BY <1>2, <1>7, <1>9, <1>11 DEF PoolOK, LinesOK, LineOK
<1>13. IsDeferred(P, t)
  BY <1>1, <1>3 DEF IsDeferred
<1> QED BY <1>3, <1>4, <1>5, <1>7, <1>9, <1>10, <1>11, <1>12, <1>13, ZenonT(40)

\* t is the first of its owner's deferred tickets.
Leads(P, t) ==
    \A u \in ToSet(P.deferred[t.class].tickets[t.owner]) : u # t => Older(P.order, t, u)

\* t is queued behind its owner's queue, no other queue changes.
QueueGains(P, Q, t) ==
    /\ Len(Q.queues[t.class].tickets[t.owner]) = Len(P.queues[t.class].tickets[t.owner]) + 1
    /\ \A k \in Class, p \in Owner : k # t.class \/ p # t.owner =>
          Q.queues[k].tickets[p] = P.queues[k].tickets[p]

\* The offer that was taken up.
Admit(P, t) == Enqueue(RemoveWaiter(P, t, TRUE), t)

\* Moving it to its queue changes nobody's place in line.
LEMMA AdmitTicket ==
    ASSUME NEW P, NEW W, PoolOK(P, W), NEW t \in Ticket, t \in W, Background(t), IsDeferred(P, t),
           Leads(P, t), NEW Q, Q = Admit(P, t)
    PROVE  /\ PoolOK(Q, W) /\ Q.order = P.order
           /\ Admitted(Q) = Admitted(P) \cup {t} /\ t \notin Admitted(P)
           /\ QueueGains(P, Q, t)
<1>b. PICK served \in BOOLEAN : served = TRUE
  OBVIOUS
<1>a. PICK R, c, o : R = RemoveWaiter(P, t, served) /\ c = t.class /\ o = t.owner
  OBVIOUS
<1>1. c \in Class /\ o \in Owner
  BY <1>a, TicketFields
<1>0. PICK a, d : a = P.queues[c].tickets[o] /\ d = P.deferred[c].tickets[o]
  OBVIOUS
<1>2. /\ a \in Seq(Ticket) /\ d \in Seq(Ticket) /\ LineOK(P.order, W, c, o, a, d)
      /\ IsInjective(d) /\ ToSet(a) \cap ToSet(d) = {}
  BY <1>0, <1>1, LineIs
<1>3. t \in ToSet(d)
  BY <1>0, <1>a, PlaceOf
<1>4. t \notin ToSet(a)
  BY <1>2, <1>3
<1>6. /\ PoolOK(R, W \ {t}) /\ R.order = P.order /\ OtherLines(P, R, c, o)
      /\ R.queues = P.queues
      /\ R.deferred[c].tickets[o] = RemoveFirst(P.deferred[c].tickets[o], t)
  <2>1. PoolOK(P, W) /\ t \in Ticket /\ t \in W /\ Background(t) /\ IsDeferred(P, t) /\ served \in BOOLEAN
    OBVIOUS
  <2> QED BY ONLY <1>a, <2>1, RemoveDeferredIs
<1>7. PICK e : e = R.deferred[c].tickets[o] /\ ToSet(e) = ToSet(d) \ {t}
  <2>1. ToSet(RemoveFirst(d, t)) = ToSet(d) \ {t}
    BY <1>2, <1>3, LeavesSet
  <2> QED BY <1>0, <1>6, <2>1
<1>8. \A u \in ToSet(a) : Older(R.order, u, t)
  BY <1>2, <1>3, <1>6, Zenon DEF LineOK
<1>9. \A u \in ToSet(e) : Older(R.order, t, u)
  BY <1>0, <1>a, <1>6, <1>7 DEF Leads
<1>10. PICK V : V = W \ {t}
  OBVIOUS
<1>11. PoolOK(R, V) /\ t \notin V /\ t \in ToSet(R.order)
  BY <1>6, <1>10 DEF PoolOK
<1>12. /\ PoolOK(Q, V \cup {t}) /\ Q.order = R.order /\ OtherLines(R, Q, c, o)
       /\ ToSet(Q.queues[c].tickets[o]) = ToSet(R.queues[c].tickets[o]) \cup {t}
       /\ Len(Q.queues[c].tickets[o]) = Len(R.queues[c].tickets[o]) + 1
  <2>1. Q = Enqueue(R, t) /\ t \in Ticket /\ c = t.class /\ o = t.owner
    BY <1>a, <1>b, Zenon DEF Admit
  <2>2. Fits(R, t)
    BY <1>0, <1>a, <1>6, <1>7, <1>8, <1>9 DEF Fits
  <2>3. PoolOK(Q, V \cup {t}) /\ Q.order = R.order /\ LineGains(R, Q, t)
    BY ONLY <2>1, <2>2, <1>11, Enqueued
  <2> QED BY ONLY <2>1, <2>3 DEF LineGains
<1>13. PoolOK(Q, W) /\ Q.order = P.order
  <2>1. V \cup {t} = W
    BY <1>10
  <2> QED BY <1>6, <1>12, <2>1
<1>16. PICK b : /\ b = Q.queues[c].tickets[o]
                /\ ToSet(b) = ToSet(a) \cup {t} /\ Len(b) = Len(a) + 1
  BY <1>0, <1>6, <1>12
<1>17. ASSUME NEW k \in Class, NEW p \in Owner, k # c \/ p # o
       PROVE  Q.queues[k].tickets[p] = P.queues[k].tickets[p]
  <2>1. R.queues = P.queues /\ OtherLines(R, Q, c, o)
    BY <1>6, <1>12
  <2> QED BY <2>1, <1>17 DEF OtherLines
<1>18. ASSUME NEW u \in W, u # t
       PROVE  u \in ToSet(Q.queues[u.class].tickets[u.owner])
                 <=> u \in ToSet(P.queues[u.class].tickets[u.owner])
  <2>1. u.class \in Class /\ u.owner \in Owner
    BY TicketFields DEF PoolOK
  <2>2. CASE u.class = c /\ u.owner = o
    BY <2>2, <1>0, <1>16, <1>18
  <2>3. CASE ~(u.class = c /\ u.owner = o)
    <3>1. Q.queues[u.class].tickets[u.owner] = P.queues[u.class].tickets[u.owner]
      BY <2>1, <2>3, <1>17
    <3> QED BY <3>1
  <2> QED BY <2>2, <2>3
<1>19. t \in ToSet(Q.queues[t.class].tickets[t.owner])
  BY <1>a, <1>16
<1>20. Admitted(Q) = Admitted(P) \cup {t}
  <2>1. \A u : u \in Admitted(Q) <=>
           u \in W /\ Background(u) /\ u \in ToSet(Q.queues[u.class].tickets[u.owner])
    BY ONLY <1>13, PlaceOf
  <2>2. \A u : u \in Admitted(P) <=>
           u \in W /\ Background(u) /\ u \in ToSet(P.queues[u.class].tickets[u.owner])
    BY PlaceOf
  <2>3. \A u : u \in Admitted(Q) <=> u \in Admitted(P) \cup {t}
    BY <2>1, <2>2, <1>18, <1>19
  <2> QED BY <2>3
<1>21. t \notin Admitted(P)
  BY <1>0, <1>a, <1>4, PlaceOf
<1>22. QueueGains(P, Q, t)
  BY <1>0, <1>a, <1>16, <1>17 DEF QueueGains
<1> QED BY <1>13, <1>20, <1>21, <1>22


\* How far background work gets into the pool depends on the users only.
LEMMA UsersCounted ==
    ASSUME NEW P, NEW Q, NEW W, PoolOK(P, W), PoolOK(Q, W)
    PROVE  Q.userQueued = P.userQueued
  BY DEF PoolOK, CountsOK

\* A free gate with background work waiting and none admitted has an offer.
LEMMA OfferExists ==
    ASSUME NEW P, NEW W, PoolOK(P, W), P.userQueued = 0, W # {}, Admitted(P) = {}
    PROVE  Offers(P, NoTicket) # {}
<1>1. PICK t \in W : TRUE
  OBVIOUS
<1>2. t \in Ticket /\ W \in SUBSET Ticket /\ IsFiniteSet(W) /\ P.userQueued = Cardinality(Users(W))
  BY <1>1 DEF PoolOK, CountsOK
<1>3. Background(t)
  <2>1. ASSUME ~Background(t) PROVE FALSE
    <3>1. Cardinality(Users(W)) > 0
      BY <1>1, <1>2, <2>1, FewUsers
    <3> QED BY <1>2, <3>1
  <2> QED BY <2>1
<1>4. PICK c : c = t.class
  OBVIOUS
<1>5. c \in BackgroundClass /\ c \in Class
  BY <1>2, <1>3, <1>4, KindOf, TicketFields
<1>6. t \in ToSet(P.deferred[c].tickets[t.owner]) /\ t.owner \in Owner
  BY <1>1, <1>2, <1>3, <1>4, PlaceOf, TicketFields
<1>7. PICK q : q = P.deferred[c] /\ q \in QueueRecord /\ RotationOK(q)
  BY <1>5, PoolFields DEF PoolOK
<1>8. q.rotation \in Seq(Owner) /\ q.rotation # <<>>
  <2>1. q.tickets[t.owner] # <<>>
    BY <1>6, <1>7, QueueFields, MembersOf
  <2>2. t.owner \in ToSet(q.rotation)
    BY <2>1, <1>6, <1>7 DEF RotationOK
  <2> QED BY <2>2, <1>7, QueueFields, MembersOf
<1>9. PICK o \in Owner : o = q.rotation[1] /\ o \in ToSet(q.rotation)
  BY <1>8, First
<1>10. 1 \in 1 .. Len(q.rotation)
  BY <1>8
<1>11. q.tickets[o] # <<>> /\ q.tickets[o] \in Seq(Ticket)
  BY <1>7, <1>9, QueueFields DEF RotationOK
<1>12. PICK u : u = q.tickets[o][1] /\ u \in ToSet(q.tickets[o])
  BY <1>11, First
<1>13. u \in Tickets(P.deferred[c])
  BY <1>7, <1>12 DEF Tickets
<1>14. u.class = c
  BY <1>5, <1>13, PlaceOf
<1>15. P.queues[c].tickets[o] = <<>>
  <2>1. P.queues[c].tickets[o] \in Seq(Ticket)
    BY <1>5, LineIs
  <2>2. ToSet(P.queues[c].tickets[o]) \subseteq Admitted(P)
    BY <1>5 DEF Admitted, Tickets
  <2> QED BY <2>1, <2>2, MembersOf
<1>16. Outstanding(P, NoTicket, c, o) < BackgroundTicketLimit(c)
  BY <1>15 DEF Outstanding, BackgroundTicketLimit
<1>17. u \in UNION {Tickets(P.deferred[k]) : k \in BackgroundClass}
  BY <1>5, <1>13, Zenon
<1>18. \E i \in 1 .. Len(P.deferred[u.class].rotation) :
          /\ Outstanding(P, NoTicket, u.class, P.deferred[u.class].rotation[i])
                < BackgroundTicketLimit(u.class)
          /\ \A j \in 1 .. i - 1 :
                ~(Outstanding(P, NoTicket, u.class, P.deferred[u.class].rotation[j])
                    < BackgroundTicketLimit(u.class))
          /\ u = P.deferred[u.class].tickets[P.deferred[u.class].rotation[i]][1]
  <2>1. \A j \in 1 .. 1 - 1 : FALSE
    OBVIOUS
  <2>2. P.deferred[u.class].rotation = q.rotation /\ P.deferred[u.class].tickets[o] = q.tickets[o]
    BY <1>7, <1>14
  <2> QED BY <1>9, <1>10, <1>12, <1>14, <1>16, <2>1, <2>2
<1>19. u \in Offers(P, NoTicket)
  BY <1>17, <1>18 DEF Offers
<1> QED BY <1>19

\* What a round, or several, may do to the pool.
Rounds(P, Q, W, h) ==
    /\ Fine(Q, W, h) /\ Q.order = P.order /\ Q.userQueued = 0
    /\ Admitted(P) \subseteq Admitted(Q)

LEMMA AdmitOneIs ==
    ASSUME NEW P, NEW W, NEW h, h = NoTicket \/ h \in Callers, Fine(P, W, h), P.userQueued = 0
    PROVE  /\ Rounds(P, AdmitOne(P, h), W, h)
           /\ W # {} /\ h = NoTicket => Admitted(AdmitOne(P, h)) # {}
<1>1. /\ PoolOK(P, W) /\ Limited(P, h) /\ Bounded(P) /\ WriterQueueCapacity \in Nat \ {0}
      /\ P.order \in Seq(Ticket) /\ W \subseteq ToSet(P.order)
  BY BoundsAssumption, PoolFields DEF Fine, PoolOK
<1>2. CASE BackgroundQueued(P) >= WriterQueueCapacity \/ Offers(P, h) = {}
  <2>1. AdmitOne(P, h) = P
    BY <1>2 DEF AdmitOne
  <2>2. ASSUME W # {}, h = NoTicket, Admitted(P) = {} PROVE FALSE
    <3>1. Offers(P, h) # {}
      BY <1>1, <2>2, OfferExists
    <3>2. BackgroundQueued(P) = 0
      BY <1>1, <2>2, AdmittedFinite, FS_EmptySet
    <3> QED BY <1>1, <1>2, <3>1, <3>2
  <2> QED BY <2>1, <2>2 DEF Rounds
<1>3. CASE ~(BackgroundQueued(P) >= WriterQueueCapacity \/ Offers(P, h) = {})
  <2>1. PICK t : t = Earliest(P, Offers(P, h))
    OBVIOUS
  <2>2. Offers(P, h) \subseteq ToSet(P.order)
    BY <1>1, OfferIs
  <2>3. t \in Offers(P, h)
    BY <1>1, <1>3, <2>1, <2>2, EarliestIs
  <2>4. PICK c, o : c = t.class /\ o = t.owner
    OBVIOUS
  <2>5. /\ t \in W /\ t \in Ticket /\ Background(t) /\ IsDeferred(P, t)
        /\ P.deferred[c].tickets[o] # <<>>
        /\ t = P.deferred[c].tickets[o][1]
        /\ Outstanding(P, h, c, o) < BackgroundTicketLimit(c)
    <3>1. PoolOK(P, W) /\ t \in Offers(P, h)
      BY <1>1, <2>3
    <3>2. /\ t \in W /\ t \in Ticket /\ Background(t) /\ IsDeferred(P, t)
          /\ P.deferred[t.class].tickets[t.owner] # <<>>
          /\ t = P.deferred[t.class].tickets[t.owner][1]
          /\ Outstanding(P, h, t.class, t.owner) < BackgroundTicketLimit(t.class)
      BY ONLY <3>1, OfferIs
    <3> QED BY ONLY <2>4, <3>2
  <2>6. c \in Class /\ o \in Owner
    BY <2>4, <2>5, TicketFields
  <2>7. \A u \in ToSet(P.deferred[c].tickets[o]) : u # t => Older(P.order, t, u)
    <3>1. PICK d \in Seq(Ticket) : d = P.deferred[c].tickets[o] /\ Sorted(P.order, d)
      BY <1>1, <2>6, LineIs, Zenon DEF LineOK
    <3>2. ASSUME NEW u \in ToSet(d), u # t PROVE Older(P.order, t, u)
      <4>1. PICK j \in DOMAIN d : u = d[j]
        BY <3>2, Zenon DEF ToSet
      <4>2. 1 \in DOMAIN d /\ 1 < j
        BY <3>1, <3>2, <4>1, <2>5
      <4>3. Older(P.order, d[1], d[j])
        BY <3>1, <4>1, <4>2 DEF Sorted
      <4> QED BY <4>1, <4>3, <3>1, <2>5
    <3> QED BY <3>1, <3>2
  <2>9. PICK Q : Q = Admit(P, t)
    OBVIOUS
  <2>10. AdmitOne(P, h) = Q
    BY <1>3, <2>1, <2>9 DEF AdmitOne, Admit
  <2>11. /\ PoolOK(Q, W) /\ Q.order = P.order
         /\ Admitted(Q) = Admitted(P) \cup {t} /\ t \notin Admitted(P)
         /\ Len(Q.queues[c].tickets[o]) = Len(P.queues[c].tickets[o]) + 1
         /\ \A k \in Class, p \in Owner : k # c \/ p # o =>
               Q.queues[k].tickets[p] = P.queues[k].tickets[p]
    <3>1. Leads(P, t)
      BY <2>4, <2>7 DEF Leads
    <3>2. PoolOK(P, W) /\ t \in Ticket /\ t \in W /\ Background(t) /\ IsDeferred(P, t)
      BY <1>1, <2>5
    <3>3. /\ PoolOK(Q, W) /\ Q.order = P.order
          /\ Admitted(Q) = Admitted(P) \cup {t} /\ t \notin Admitted(P)
          /\ QueueGains(P, Q, t)
      BY ONLY <3>1, <3>2, <2>9, AdmitTicket
    <3> QED BY <2>4, <3>3 DEF QueueGains
  <2>12. Q.userQueued = 0
    BY <1>1, <2>11, UsersCounted
  <2>13. Bounded(Q)
    <3>1. IsFiniteSet(Admitted(P)) /\ BackgroundQueued(P) = Cardinality(Admitted(P))
          /\ Cardinality(Admitted(P)) \in Nat
      BY <1>1, AdmittedFinite
    <3>2. Cardinality(Admitted(Q)) = Cardinality(Admitted(P)) + 1
      <4>1. PICK A : A = Admitted(P) /\ Admitted(Q) = A \cup {t} /\ t \notin A /\ IsFiniteSet(A)
        BY <2>11, <3>1, Zenon
      <4>2. t \notin A /\ IsFiniteSet(A)
        BY <4>1, Zenon
      <4>3. Cardinality(A \cup {t}) = Cardinality(A) + 1
        BY ONLY <4>2, FS_AddElement
      <4> QED BY ONLY <4>1, <4>3
    <3> QED BY <1>1, <1>3, <2>12, <3>1, <3>2 DEF Bounded
  <2>14. Limited(Q, h)
    <3>1. ASSUME NEW k \in BackgroundClass, NEW p \in Owner
          PROVE  Len(Q.queues[k].tickets[p]) + Held(h, k, p) <= BackgroundTicketLimit(k)
      <4>1. k \in Class
        BY ClassKinds
      <4>2. CASE k = c /\ p = o
        <5>1. PICK n \in Nat : n = Len(P.queues[c].tickets[o])
          BY <1>1, <2>6, LineIs
        <5>2. PICK m \in Nat : m = BackgroundTicketLimit(c)
          BY DEF BackgroundTicketLimit
        <5>3. h \in Ticket => h # NoTicket
          BY TicketAssumption
        <5>4. n + Held(h, c, o) < m
          <6>1. CASE h \in Ticket /\ h.class = c /\ h.owner = o
            <7>1. Outstanding(P, h, c, o) = n + 1 /\ Held(h, c, o) = 1
              BY <5>1, <5>3, <6>1, Zenon DEF Outstanding, Held
            <7> QED BY <7>1, <2>5, <5>2
          <6>2. CASE ~(h \in Ticket /\ h.class = c /\ h.owner = o)
            <7>1. Outstanding(P, h, c, o) \in {n, n + 1} /\ Held(h, c, o) = 0
              <8>1. Held(h, c, o) = 0
                BY <6>2 DEF Held
              <8>2. CASE h # NoTicket /\ h.class = c /\ h.owner = o
                BY <5>1, <8>1, <8>2 DEF Outstanding
              <8>3. CASE ~(h # NoTicket /\ h.class = c /\ h.owner = o)
                <9>1. (IF h # NoTicket /\ h.class = c /\ h.owner = o THEN 1 ELSE 0) = 0
                  BY <8>3
                <9>2. Outstanding(P, h, c, o) = n + 0
                  BY ONLY <9>1, <5>1 DEF Outstanding
                <9> QED BY <8>1, <9>2
              <8> QED BY <8>2, <8>3
            <7> QED BY <7>1, <2>5, <5>1, <5>2
          <6> QED BY <6>1, <6>2
        <5>5. Held(h, c, o) \in Nat
          BY DEF Held
        <5>6. Len(Q.queues[c].tickets[o]) = n + 1
          BY <2>11, <5>1
        <5>7. Len(Q.queues[c].tickets[o]) + Held(h, c, o) <= m
          BY ONLY <5>4, <5>5, <5>6, n \in Nat, m \in Nat
        <5> QED BY ONLY <4>2, <5>2, <5>7
      <4>3. CASE ~(k = c /\ p = o)
        <5>1. Q.queues[k].tickets[p] = P.queues[k].tickets[p]
          BY <4>1, <4>3, <2>11
        <5> QED BY <5>1, <1>1 DEF Limited
      <4> QED BY <4>2, <4>3
    <3> QED BY <3>1 DEF Limited
  <2> QED BY <2>10, <2>11, <2>12, <2>13, <2>14 DEF Rounds, Fine
<1> QED BY <1>2, <1>3


\* The rounds of admitBackgroundLocked, as a function of their number.
Chain(f, m, P, h) ==
    f = [n \in 0 .. m |-> IF n = 0 THEN P ELSE AdmitOne(f[n - 1], h)]

LEMMA ChainStarts ==
    ASSUME NEW P, NEW h
    PROVE  \E f : Chain(f, 0, P, h)
<1>1. PICK f : f = [n \in 0 .. 0 |-> P]
  OBVIOUS
<1>2. \A n \in 0 .. 0 : P = IF n = 0 THEN P ELSE AdmitOne(f[n - 1], h)
  OBVIOUS
<1>3. f = [n \in 0 .. 0 |-> IF n = 0 THEN P ELSE AdmitOne(f[n - 1], h)]
  BY ONLY <1>1, <1>2
<1> QED BY <1>3 DEF Chain

LEMMA ChainGrows ==
    ASSUME NEW P, NEW h, NEW m \in Nat, NEW g, Chain(g, m, P, h)
    PROVE  \E f : Chain(f, m + 1, P, h)
<1>1. PICK f : f = [n \in 0 .. m + 1 |-> IF n = 0 THEN P ELSE AdmitOne(g[n - 1], h)]
  OBVIOUS
<1>2. g = [n \in 0 .. m |-> IF n = 0 THEN P ELSE AdmitOne(g[n - 1], h)]
  BY DEF Chain
<1>3. ASSUME NEW n \in 0 .. m
      PROVE  f[n] = g[n]
  <2>1. n \in 0 .. m + 1
    OBVIOUS
  <2>2. f[n] = IF n = 0 THEN P ELSE AdmitOne(g[n - 1], h)
    BY ONLY <1>1, <2>1
  <2>3. g[n] = IF n = 0 THEN P ELSE AdmitOne(g[n - 1], h)
    <3>1. n \in 0 .. m
      OBVIOUS
    <3> QED BY ONLY <3>1, <1>2
  <2> QED BY ONLY <2>2, <2>3
<1>4. ASSUME NEW n \in 0 .. m + 1
      PROVE  (IF n = 0 THEN P ELSE AdmitOne(g[n - 1], h)) = (IF n = 0 THEN P ELSE AdmitOne(f[n - 1], h))
  <2>1. CASE n = 0
    BY <2>1
  <2>2. CASE n # 0
    <3>1. n - 1 \in 0 .. m
      BY <2>2
    <3>2. f[n - 1] = g[n - 1]
      BY ONLY <3>1, <1>3
    <3> QED BY ONLY <3>2
  <2> QED BY <2>1, <2>2
<1>5. f = [n \in 0 .. m + 1 |-> IF n = 0 THEN P ELSE AdmitOne(f[n - 1], h)]
  BY ONLY <1>1, <1>4
<1> QED BY <1>5 DEF Chain

LEMMA ChainExists ==
    ASSUME NEW P, NEW h, NEW m \in Nat
    PROVE  \E f : Chain(f, m, P, h)
<1>1. SUFFICES ASSUME ~\E f : Chain(f, m, P, h) PROVE FALSE
  OBVIOUS
<1>2. PICK S \in SUBSET Nat : S = {n \in Nat : ~\E f : Chain(f, n, P, h)}
  OBVIOUS
<1>3. S # {}
  BY <1>1, <1>2
<1>4. PICK n \in S : \A k \in S : n <= k
  BY <1>3, Least
<1>5. n # 0
  BY <1>2, <1>4, ChainStarts
<1>6. n - 1 \in Nat /\ n - 1 \notin S
  BY <1>2, <1>4, <1>5
<1>7. PICK g : Chain(g, n - 1, P, h)
  BY <1>2, <1>6
<1>8. \E f : Chain(f, (n - 1) + 1, P, h)
  BY <1>6, <1>7, ChainGrows
<1>9. (n - 1) + 1 = n
  BY <1>6
<1> QED BY <1>2, <1>4, <1>8, <1>9

\* Rounds add up.
LEMMA ChainIs ==
    ASSUME NEW P, NEW W, NEW h, h = NoTicket \/ h \in Callers, Fine(P, W, h), P.userQueued = 0,
           NEW m \in Nat \ {0}, NEW f, Chain(f, m, P, h)
    PROVE  /\ Rounds(P, f[m], W, h)
           /\ W # {} /\ h = NoTicket => Admitted(f[m]) # {}
<1>1. \A n \in 0 .. m : f[n] = IF n = 0 THEN P ELSE AdmitOne(f[n - 1], h)
  BY DEF Chain
<1>2. \A n \in 0 .. m : Rounds(P, f[n], W, h)
  <2>1. SUFFICES ASSUME NEW n \in 0 .. m, ~Rounds(P, f[n], W, h) PROVE FALSE
    OBVIOUS
  <2>0. 0 .. m \subseteq Nat
    OBVIOUS
  <2>2. PICK S : S = {k \in 0 .. m : ~Rounds(P, f[k], W, h)}
    OBVIOUS
  <2>a. S \in SUBSET Nat
    BY ONLY <2>0, <2>2
  <2>3. S # {}
    BY <2>1, <2>2
  <2>4. PICK k \in S : \A j \in S : k <= j
    BY ONLY <2>a, <2>3, Least
  <2>5. k \in 0 .. m /\ ~Rounds(P, f[k], W, h)
    BY <2>2, <2>4
  <2>6. k # 0
    <3>1. ASSUME k = 0 PROVE FALSE
      <4>1. f[k] = P
        BY <1>1, <3>1
      <4>2. Rounds(P, P, W, h)
        BY DEF Rounds
      <4> QED BY <4>1, <4>2, <2>5
    <3> QED BY <3>1
  <2>7. k - 1 \in 0 .. m /\ k - 1 \notin S
    BY <2>4, <2>5, <2>6
  <2>8. PICK R : R = f[k - 1] /\ Rounds(P, R, W, h)
    BY <2>2, <2>7
  <2>9. f[k] = AdmitOne(R, h)
    BY <1>1, <2>5, <2>6, <2>8
  <2>10. Rounds(R, AdmitOne(R, h), W, h)
    <3>1. (h = NoTicket \/ h \in Callers) /\ Fine(R, W, h) /\ R.userQueued = 0
      BY <2>8 DEF Rounds
    <3> QED BY ONLY <3>1, AdmitOneIs
  <2>11. Rounds(P, AdmitOne(R, h), W, h)
    BY <2>8, <2>10 DEF Rounds
  <2> QED BY <2>5, <2>9, <2>11
<1>3. m - 1 \in 0 .. m /\ m \in 0 .. m /\ m # 0
  OBVIOUS
<1>4. PICK R : R = f[m - 1] /\ Rounds(P, R, W, h)
  BY <1>2, <1>3
<1>5. f[m] = AdmitOne(R, h)
  BY <1>1, <1>3, <1>4
<1>6. W # {} /\ h = NoTicket => Admitted(AdmitOne(R, h)) # {}
  BY <1>4, AdmitOneIs DEF Rounds
<1> QED BY <1>2, <1>3, <1>5, <1>6

\* Admission leaves the pool fine and takes no ticket out of its queue.
Readied(P, Q, W, h) ==
    /\ Fine(Q, W, h) /\ Q.order = P.order /\ Q.userQueued = P.userQueued
    /\ Admitted(P) \subseteq Admitted(Q)

LEMMA AdmitBackgroundIs ==
    ASSUME NEW P, NEW W, NEW h, h = NoTicket \/ h \in Callers, Fine(P, W, h), NEW r
    PROVE  /\ Readied(P, AdmitBackground(P, h, r), W, h)
           /\ P.userQueued = 0 /\ r.phase = "none" /\ W # {} /\ h = NoTicket =>
                 Admitted(AdmitBackground(P, h, r)) # {}
<1>1. CASE P.userQueued # 0 \/ r.phase # "none"
  <2>1. AdmitBackground(P, h, r) = P
    BY <1>1 DEF AdmitBackground
  <2> QED BY <1>1, <2>1 DEF Readied
<1>2. CASE P.userQueued = 0 /\ r.phase = "none"
  <2>1. PICK m \in Nat \ {0} : m = WriterQueueCapacity
    BY BoundsAssumption
  <2>2. PICK f : Chain(f, m, P, h) /\ AdmitBackground(P, h, r) = f[m]
    <3>1. PICK g : Chain(g, m, P, h)
      BY <2>1, ChainExists
    <3>2. DEFINE c == CHOOSE f : f = [n \in 0 .. WriterQueueCapacity |->
                                       IF n = 0 THEN P ELSE AdmitOne(f[n - 1], h)]
    <3>3. g = [n \in 0 .. WriterQueueCapacity |-> IF n = 0 THEN P ELSE AdmitOne(g[n - 1], h)]
      BY <2>1, <3>1 DEF Chain
    <3>4. Chain(c, m, P, h)
      BY <2>1, <3>3 DEF Chain
    <3>5. AdmitBackground(P, h, r) = c[m]
      BY <1>2, <2>1 DEF AdmitBackground
    <3> QED BY <3>4, <3>5
  <2>3. /\ Rounds(P, f[m], W, h)
        /\ W # {} /\ h = NoTicket => Admitted(f[m]) # {}
    BY <1>2, <2>2, ChainIs
  <2> QED BY <1>2, <2>2, <2>3 DEF Rounds, Readied
<1> QED BY <1>1, <1>2


----------------------------------------------------------------------------
(* Arrivals. *)

\* The borrowed ticket is the newest of those admitted, so its owner's line stays
\* in order when it is deferred in front.
LEMMA ReturnIs ==
    ASSUME NEW P, NEW W, PoolOK(P, W), NEW t \in Admitted(P),
           \A u \in Admitted(P) : u = t \/ Older(P.order, u, t)
    PROVE  /\ PoolOK(ReturnToDeferred(P, t), W) /\ ReturnToDeferred(P, t).order = P.order
           /\ Admitted(ReturnToDeferred(P, t)) = Admitted(P) \ {t}
           /\ LinesWithout(P, ReturnToDeferred(P, t), t)
<1>1. /\ t \in W /\ t \in Ticket /\ Background(t)
      /\ t \in ToSet(P.queues[t.class].tickets[t.owner])
      /\ t.class \in Class /\ t.owner \in Owner
  BY PlaceOf, TicketFields DEF PoolOK
<1>2. PICK c, o : c = t.class /\ o = t.owner
  BY Zenon
<1>3. t \notin ToSet(P.deferred[c].tickets[o]) /\ ~IsDeferred(P, t)
  BY <1>1, <1>2, LineIs, PlaceOf
<1>4. PICK served \in BOOLEAN : served = FALSE
  OBVIOUS
<1>5. PICK R : R = RemoveWaiter(P, t, served)
  OBVIOUS
<1>6. /\ PoolOK(R, W \ {t}) /\ R.order = P.order /\ OtherLines(P, R, c, o)
      /\ R.deferred = P.deferred
      /\ R.queues[c].tickets[o] = RemoveFirst(P.queues[c].tickets[o], t)
  <2>1. PoolOK(P, W) /\ t \in Ticket /\ t \in W /\ ~IsDeferred(P, t) /\ served \in BOOLEAN
    BY <1>1, <1>3
  <2> QED BY ONLY <2>1, <1>2, <1>5, RemoveQueuedIs, SMTT(30)
<1>7. Admitted(R) = Admitted(P) \ {t} /\ LinesWithout(P, R, t)
  <2>1. PoolOK(P, W) /\ t \in W /\ served \in BOOLEAN
    BY <1>1
  <2> QED BY ONLY <2>1, <1>5, RemoveWaiterIs, ZenonT(40)
<1>8. Fits(R, t)
  <2>1. PICK a \in Seq(Ticket) : a = P.queues[c].tickets[o] /\ IsInjective(a)
    BY <1>1, <1>2, LineIs
  <2>2. ToSet(R.queues[c].tickets[o]) = ToSet(a) \ {t}
    <3>1. a \in Seq(Ticket) /\ IsInjective(a) /\ t \in ToSet(a)
      BY <1>1, <1>2, <2>1
    <3>2. ToSet(RemoveFirst(a, t)) = ToSet(a) \ {t}
      BY ONLY <3>1, LeavesSet
    <3> QED BY <1>6, <2>1, <3>2
  <2>3. ASSUME NEW u \in ToSet(a), u # t PROVE Older(P.order, u, t)
    <3>1. u \in Admitted(P)
      BY <1>1, <1>2, <2>1, <2>3, KindOf, SMTT(30) DEF Admitted, Tickets
    <3> QED BY <2>3, <3>1, Zenon
  <2>4. \A u \in ToSet(P.deferred[c].tickets[o]) : Older(P.order, t, u)
    BY <1>1, <1>2, LineIs DEF LineOK
  <2> QED BY <1>2, <1>6, <2>2, <2>3, <2>4 DEF Fits
<1>9. PICK Q, V : Q = DeferFront(R, t) /\ V = W \ {t}
  OBVIOUS
<1>10. PoolOK(Q, V \cup {t}) /\ Q.order = R.order /\ Q.queues = R.queues
  <2>1. PoolOK(R, V) /\ t \in Ticket /\ t \notin V /\ t \in ToSet(R.order) /\ Background(t)
    BY <1>1, <1>6, <1>9 DEF PoolOK
  <2> QED BY ONLY <2>1, <1>8, <1>9, DeferInFront
<1>11. V \cup {t} = W
  BY <1>1, <1>9
<1>12. ReturnToDeferred(P, t) = Q
  BY <1>4, <1>5, <1>9 DEF ReturnToDeferred, DeferFront, WithDeferred
<1>13. Admitted(Q) = Admitted(R)
  BY <1>10 DEF Admitted
<1>14. LinesWithout(P, Q, t)
  BY <1>7, <1>10 DEF LinesWithout
<1> QED BY <1>6, <1>7, <1>10, <1>11, <1>12, <1>13, <1>14

\* Shorter queues keep their limits.
LEMMA LimitedWithout ==
    ASSUME NEW P, NEW W, PoolOK(P, W), NEW Q, NEW t, LinesWithout(P, Q, t), NEW h, Limited(P, h)
    PROVE  Limited(Q, h)
<1>1. ASSUME NEW c \in BackgroundClass, NEW o \in Owner
      PROVE  Len(Q.queues[c].tickets[o]) + Held(h, c, o) <= BackgroundTicketLimit(c)
  <2>1. c \in Class
    BY ClassKinds
  <2>2. PICK n \in Nat : n = Len(P.queues[c].tickets[o])
    BY <2>1, LineIs
  <2>3. PICK k \in Nat, b \in Nat : k = Held(h, c, o) /\ b = BackgroundTicketLimit(c)
    BY DEF Held, BackgroundTicketLimit
  <2>4. Len(Q.queues[c].tickets[o]) = n - 1 \/ Len(Q.queues[c].tickets[o]) = n
    BY <2>1, <2>2 DEF LinesWithout
  <2>5. n + k <= b
    BY <2>2, <2>3 DEF Limited
  <2>6. PICK m : m = Len(Q.queues[c].tickets[o])
    OBVIOUS
  <2>8. n \in Nat /\ k \in Nat /\ b \in Nat /\ (m = n - 1 \/ m = n)
    BY <2>4, <2>6
  <2>7. m \in Int /\ m + k <= b
    BY ONLY <2>5, <2>8
  <2> QED BY <2>3, <2>6, <2>7
<1> QED BY <1>1 DEF Limited

\* Background work makes room: below capacity for users there is a place left.
LEMMA RoomIs ==
    ASSUME NEW P, NEW W, NEW h, Fine(P, W, h), P.userQueued < WriterQueueCapacity,
           NEW Q, Q = MakeBackgroundRoom(P)
    PROVE  /\ PoolOK(Q, W) /\ Q.order = P.order /\ Limited(Q, h)
           /\ Q.userQueued = P.userQueued
           /\ Q.userQueued + Cardinality(Admitted(Q)) < WriterQueueCapacity
<1>1. /\ PoolOK(P, W) /\ Bounded(P) /\ Limited(P, h) /\ P.order \in Seq(Ticket)
      /\ WriterQueueCapacity \in Nat /\ W \subseteq ToSet(P.order) /\ P.userQueued \in Nat
  BY BoundsAssumption, PoolFields DEF Fine, PoolOK
<1>2. /\ Admitted(P) \subseteq W /\ IsFiniteSet(Admitted(P)) /\ Cardinality(Admitted(P)) \in Nat
      /\ BackgroundQueued(P) = Cardinality(Admitted(P))
  BY <1>1, AdmittedFinite
<1>3. PICK b : b = Borrowed(P)
  OBVIOUS
<1>4. P.userQueued + BackgroundQueued(P) < WriterQueueCapacity \/ Admitted(P) = {} => b = NoTicket
  BY <1>3 DEF Borrowed, Admitted
<1>5. ~(P.userQueued + BackgroundQueued(P) < WriterQueueCapacity \/ Admitted(P) = {}) =>
         b = Newest(P, Admitted(P))
  BY <1>3 DEF Borrowed, Admitted
<1>6. CASE P.userQueued + BackgroundQueued(P) < WriterQueueCapacity \/ Admitted(P) = {}
  <2>1. Q = P
    BY <1>3, <1>4, <1>6 DEF MakeBackgroundRoom
  <2>2. Admitted(P) = {} => Cardinality(Admitted(P)) = 0
    BY FS_EmptySet
  <2>3. P.userQueued + Cardinality(Admitted(P)) < WriterQueueCapacity
    BY <1>1, <1>2, <1>6, <2>2
  <2> QED BY <1>1, <2>1, <2>3
<1>7. CASE ~(P.userQueued + BackgroundQueued(P) < WriterQueueCapacity \/ Admitted(P) = {})
  <2>1. Admitted(P) \cap ToSet(P.order) = Admitted(P) /\ Admitted(P) # {}
    BY <1>1, <1>2, <1>7
  <2>2. b \in Admitted(P) /\ \A u \in Admitted(P) : u = b \/ Older(P.order, u, b)
    <3>1. b = Newest(P, Admitted(P))
      BY <1>5, <1>7
    <3>2. PICK S : S = Admitted(P)
      OBVIOUS
    <3>3. S \cap ToSet(P.order) # {} /\ S \cap ToSet(P.order) = S
      BY <2>1, <3>2
    <3>4. /\ Newest(P, S) \in S
          /\ \A t \in S \cap ToSet(P.order) : t = Newest(P, S) \/ Older(P.order, t, Newest(P, S))
      BY ONLY <1>1, <3>3, NewestIs
    <3> QED BY <3>1, <3>2, <3>3, <3>4
  <2>3. b # NoTicket
    BY <1>1, <1>2, <2>2, TicketFields DEF PoolOK
  <2>4. Q = ReturnToDeferred(P, b)
    BY <1>3, <2>3 DEF MakeBackgroundRoom
  <2>5. PoolOK(Q, W) /\ Q.order = P.order /\ Admitted(Q) = Admitted(P) \ {b} /\ LinesWithout(P, Q, b)
    BY <1>1, <2>2, <2>4, ReturnIs
  <2>6. Limited(Q, h)
    BY <1>1, <2>5, LimitedWithout
  <2>7. Q.userQueued = P.userQueued
    BY <1>1, <2>5, UsersCounted
  <2>8. Cardinality(Admitted(Q)) = Cardinality(Admitted(P)) - 1
    BY <1>2, <2>2, <2>5, FS_RemoveElement
  <2>9. Q.userQueued + Cardinality(Admitted(Q)) < WriterQueueCapacity
    BY <1>1, <1>2, <2>7, <2>8 DEF Bounded
  <2> QED BY <2>5, <2>6, <2>7, <2>9
<1> QED BY <1>6, <1>7


\* A departure keeps the pool sound, and a user's makes room for a user.
LEMMA DepartInv ==
    ASSUME NEW P, NEW W, NEW h, PoolInv(P, W, h), NEW t \in W, NEW served \in BOOLEAN,
           NEW Q, Q = Depart(P, t, served)
    PROVE  /\ PoolInv(Q, W \ {t}, h) /\ LinesWithout(P, Q, t)
           /\ Background(t) => Q.userQueued = P.userQueued
           /\ ~Background(t) => Q.userQueued = P.userQueued - 1
<1>1. /\ PoolOK(P, W) /\ ToSet(P.order) = W /\ Bounded(P) /\ Limited(P, h)
      /\ WriterQueueCapacity \in Nat
  BY BoundsAssumption DEF PoolInv
<1>2. /\ PoolOK(Q, W \ {t}) /\ ToSet(Q.order) = W \ {t}
      /\ Admitted(Q) = Admitted(P) \ {t} /\ LinesWithout(P, Q, t)
  <2>1. /\ PoolOK(P, W) /\ ToSet(P.order) = W
        /\ t \in W /\ served \in BOOLEAN /\ Q = Depart(P, t, served)
    BY <1>1
  <2>2. Left(P, Depart(P, t, served), W, t)
    BY ONLY <2>1, DepartIs
  <2> QED BY <2>1, <2>2 DEF Left
<1>3. Limited(Q, h)
  BY <1>1, <1>2, LimitedWithout
<1>4. W \in SUBSET Ticket /\ IsFiniteSet(W) /\ t \in Ticket /\ P.userQueued = Cardinality(Users(W))
  BY <1>1 DEF PoolOK, CountsOK
<1>5. Q.userQueued = Cardinality(Users(W \ {t}))
  BY <1>2 DEF PoolOK, CountsOK
<1>6. Background(t) => Q.userQueued = P.userQueued
  BY <1>4, <1>5, FewUsers
<1>7. ~Background(t) => Q.userQueued = P.userQueued - 1
  BY <1>4, <1>5, FewUsers
<1>8. P.userQueued \in Nat /\ Q.userQueued \in Nat
  BY <1>1, <1>2, PoolFields DEF PoolOK
<1>9. Cardinality(Admitted(Q)) <= Cardinality(Admitted(P))
  <2>1. IsFiniteSet(Admitted(P)) /\ Admitted(Q) \subseteq Admitted(P)
    BY <1>1, <1>2, AdmittedFinite
  <2> QED BY <2>1, FS_Subset
<1>10. Cardinality(Admitted(P)) \in Nat /\ Cardinality(Admitted(Q)) \in Nat
  BY <1>1, <1>2, AdmittedFinite
<1>11. Bounded(Q)
  BY <1>1, <1>6, <1>7, <1>8, <1>9, <1>10 DEF Bounded
<1> QED BY <1>2, <1>3, <1>6, <1>7, <1>11 DEF PoolInv

\* The holder's own place is the one its ticket had in its supervisor's queue.
LEMMA TakenLimited ==
    ASSUME NEW P, NEW W, PoolOK(P, W), Limited(P, NoTicket), NEW t \in W, ~IsDeferred(P, t),
           NEW Q, LinesWithout(P, Q, t)
    PROVE  Limited(Q, t)
<1>1. ASSUME NEW c \in BackgroundClass, NEW o \in Owner
      PROVE  Len(Q.queues[c].tickets[o]) + Held(t, c, o) <= BackgroundTicketLimit(c)
  <2>1. c \in Class
    BY ClassKinds
  <2>2. PICK n \in Nat : n = Len(P.queues[c].tickets[o])
    BY <2>1, LineIs
  <2>3. PICK b \in Nat : b = BackgroundTicketLimit(c)
    BY DEF BackgroundTicketLimit
  <2>4. Held(NoTicket, c, o) = 0
    BY TicketAssumption DEF Held
  <2>5. n <= b
    BY <2>2, <2>3, <2>4 DEF Limited
  <2>6. PICK m : m = Len(Q.queues[c].tickets[o])
    OBVIOUS
  <2>7. m = IF t \in ToSet(P.queues[c].tickets[o]) THEN n - 1 ELSE n
    BY <2>1, <2>2, <2>6 DEF LinesWithout
  <2>8. CASE t.class = c /\ t.owner = o
    <3>1. t \in ToSet(P.queues[c].tickets[o])
      BY <2>8, PlaceOf
    <3>2. m = n - 1
      BY <2>7, <3>1
    <3>3. Held(t, c, o) = 1
      BY <2>8 DEF Held, PoolOK
    <3> QED BY <2>3, <2>5, <2>6, <3>2, <3>3
  <2>9. CASE ~(t.class = c /\ t.owner = o)
    <3>1. Held(t, c, o) = 0
      BY <2>9 DEF Held
    <3>2. m <= n /\ m \in Int
      BY <2>7
    <3>3. n \in Nat /\ b \in Nat
      OBVIOUS
    <3>4. m + 0 <= b
      BY ONLY <2>5, <3>2, <3>3
    <3> QED BY <2>3, <2>6, <3>1, <3>4
  <2> QED BY <2>8, <2>9
<1> QED BY <1>1 DEF Limited

\* A free gate limits nobody more than an occupied one.
LEMMA FreeLimited ==
    ASSUME NEW P, NEW W, PoolOK(P, W), NEW h, Limited(P, h)
    PROVE  Limited(P, NoTicket)
<1>1. ASSUME NEW c \in BackgroundClass, NEW o \in Owner
      PROVE  Len(P.queues[c].tickets[o]) + Held(NoTicket, c, o) <= BackgroundTicketLimit(c)
  <2>1. PICK n \in Nat : n = Len(P.queues[c].tickets[o])
    BY ClassKinds, LineIs
  <2>2. PICK b \in Nat, k \in Nat : b = BackgroundTicketLimit(c) /\ k = Held(h, c, o)
    BY DEF BackgroundTicketLimit, Held
  <2>3. Held(NoTicket, c, o) = 0
    BY TicketAssumption DEF Held
  <2>4. n + k <= b
    BY <2>1, <2>2 DEF Limited
  <2> QED BY <2>1, <2>2, <2>3, <2>4
<1> QED BY <1>1 DEF Limited

\* The arrival's number, and the pool once it has its place.
Numbered(P, t) == [P EXCEPT !.order = Append(@, t)]
Arrival(P, t) ==
    IF Background(t) THEN Defer(Numbered(P, t), t)
    ELSE Enqueue(MakeBackgroundRoom(Numbered(P, t)), t)

LEMMA NumberedIs ==
    ASSUME NEW P, NEW W, NEW h, PoolInv(P, W, h), NEW t \in Ticket, t \notin W
    PROVE  /\ Fine(Numbered(P, t), W, h) /\ Numbered(P, t).userQueued = P.userQueued
           /\ ToSet(Numbered(P, t).order) = W \cup {t}
           /\ ComesLast(Numbered(P, t), W, t)
<1>1. /\ PoolOK(P, W) /\ ToSet(P.order) = W /\ Bounded(P) /\ Limited(P, h)
      /\ P.order \in Seq(Ticket) /\ IsInjective(P.order)
  BY PoolFields DEF PoolInv, PoolOK
<1>2. PICK order : order = Append(P.order, t)
  OBVIOUS
<1>3. /\ order \in Seq(Ticket) /\ IsInjective(order) /\ ToSet(order) = W \cup {t}
      /\ \A x, y : Older(P.order, x, y) => Older(order, x, y)
      /\ \A x \in W : Older(order, x, t)
  BY <1>1, <1>2, OrderGrows
<1>4. Numbered(P, t) = WithOrder(P, order)
  BY <1>2 DEF Numbered, WithOrder
<1>5. PICK Q : Q = WithOrder(P, order)
  OBVIOUS
<1>6. /\ PoolOK(Q, W) /\ Q.order = order /\ Q.queues = P.queues
      /\ Q.userQueued = P.userQueued
  BY <1>1, <1>3, <1>5, OrderMoves
<1>7. Bounded(Q) /\ Limited(Q, h)
  BY <1>1, <1>6 DEF Bounded, Limited, Admitted
<1> QED BY <1>3, <1>4, <1>5, <1>6, <1>7 DEF Fine, ComesLast

LEMMA ArrivalIs ==
    ASSUME NEW P, NEW W, NEW h, PoolInv(P, W, h), NEW t \in Ticket, t \notin W,
           ~Background(t) => P.userQueued < WriterQueueCapacity
    PROVE  PoolInv(Arrival(P, t), W \cup {t}, h)
<1>1. PICK N, V : N = Numbered(P, t) /\ V = W \cup {t}
  OBVIOUS
<1>2. /\ Fine(N, W, h) /\ N.userQueued = P.userQueued /\ ToSet(N.order) = V
      /\ ComesLast(N, W, t)
  BY <1>1, NumberedIs
<1>3. PoolOK(N, W) /\ Bounded(N) /\ Limited(N, h) /\ t \in ToSet(N.order)
  BY <1>1, <1>2 DEF Fine
<1>4. CASE Background(t)
  <2>1. PICK Q : Q = Defer(N, t)
    OBVIOUS
  <2>2. PoolOK(Q, W \cup {t}) /\ Q.order = N.order /\ Q.queues = N.queues
    <3>1. t \in Ticket /\ t \notin W
      OBVIOUS
    <3> QED BY ONLY <3>1, <1>2, <1>3, <1>4, <2>1, DeferIs
  <2>3. Q.userQueued = N.userQueued
    <3>1. W \in SUBSET Ticket /\ IsFiniteSet(W) /\ N.userQueued = Cardinality(Users(W))
      BY <1>3 DEF PoolOK, CountsOK
    <3>2. Q.userQueued = Cardinality(Users(W \cup {t}))
      BY <2>2 DEF PoolOK, CountsOK
    <3> QED BY <1>4, <3>1, <3>2, FewUsers
  <2>4. Bounded(Q) /\ Limited(Q, h)
    BY <1>3, <2>2, <2>3 DEF Bounded, Limited, Admitted
  <2>5. Arrival(P, t) = Q
    BY <1>1, <1>4, <2>1 DEF Arrival
  <2> QED BY <1>1, <1>2, <2>2, <2>4, <2>5 DEF PoolInv
<1>5. CASE ~Background(t)
  <2>1. PICK R, Q : R = MakeBackgroundRoom(N) /\ Q = Enqueue(R, t)
    OBVIOUS
  <2>2. N.userQueued < WriterQueueCapacity
    BY <1>2, <1>5
  <2>3. /\ PoolOK(R, W) /\ R.order = N.order /\ Limited(R, h)
        /\ R.userQueued + Cardinality(Admitted(R)) < WriterQueueCapacity
    BY ONLY <1>2, <2>1, <2>2, RoomIs
  <2>4. PICK c, o : c = t.class /\ o = t.owner
    OBVIOUS
  <2>5. c \in Class /\ c \in UserClass /\ c \notin BackgroundClass /\ o \in Owner
    BY <1>5, <2>4, KindOf, TicketFields
  <2>6. Fits(R, t)
    <3>1. PICK a, d : a = R.queues[c].tickets[o] /\ d = R.deferred[c].tickets[o]
      OBVIOUS
    <3>2. d = <<>> /\ ToSet(a) \subseteq W
      BY <2>3, <2>5, <3>1, LineIs DEF LineOK
    <3>3. ToSet(d) = {}
      BY <3>2 DEF ToSet
    <3>4. \A u \in W : Older(R.order, u, t)
      BY <1>2, <2>3 DEF ComesLast
    <3> QED BY <2>4, <3>1, <3>2, <3>3, <3>4 DEF Fits
  <2>7. PoolOK(Q, W \cup {t}) /\ Q.order = R.order /\ LineGains(R, Q, t)
    <3>1. t \in Ticket /\ t \notin W /\ t \in ToSet(R.order)
      BY <1>3, <2>3
    <3> QED BY ONLY <3>1, <2>1, <2>3, <2>6, Enqueued
  <2>8. \A k \in BackgroundClass, p \in Owner : Q.queues[k].tickets[p] = R.queues[k].tickets[p]
    <3>1. OtherLines(R, Q, c, o)
      BY <2>4, <2>7 DEF LineGains
    <3>2. BackgroundClass \subseteq Class
      BY ClassKinds
    <3> QED BY <2>5, <3>1, <3>2 DEF OtherLines
  <2>9. Admitted(Q) = Admitted(R)
    BY <2>8 DEF Admitted, Tickets
  <2>10. Limited(Q, h)
    BY <2>3, <2>8 DEF Limited
  <2>11. Q.userQueued = R.userQueued + 1
    <3>1. W \in SUBSET Ticket /\ IsFiniteSet(W) /\ R.userQueued = Cardinality(Users(W))
      BY <2>3 DEF PoolOK, CountsOK
    <3>2. Q.userQueued = Cardinality(Users(W \cup {t}))
      BY <2>7 DEF PoolOK, CountsOK
    <3> QED BY <1>5, <3>1, <3>2, FewUsers
  <2>12. Bounded(Q)
    <3>1. R.userQueued \in Nat /\ Cardinality(Admitted(R)) \in Nat /\ WriterQueueCapacity \in Nat
      BY <2>3, AdmittedFinite, PoolFields, BoundsAssumption DEF PoolOK
    <3> QED BY <2>3, <2>9, <2>11, <3>1 DEF Bounded
  <2>13. Arrival(P, t) = Q
    BY <1>1, <1>5, <2>1 DEF Arrival
  <2> QED BY <1>1, <1>2, <2>3, <2>7, <2>10, <2>12, <2>13 DEF PoolInv
<1> QED BY <1>4, <1>5


----------------------------------------------------------------------------
(* Whom the gate picks, and who makes room. *)

\* Users are queued, so the front of a class's queue answers for its users.
LEMMA FrontAnswers ==
    ASSUME NEW P, NEW W, PoolOK(P, W), NEW c \in Class, NEW f, f = FrontTicket(P.queues[c])
    PROVE  /\ f # NoTicket => f \in W /\ f.class = c /\ f \in Tickets(P.queues[f.class])
           /\ f # NoTicket => f \in Ticket
           /\ f = NoTicket => Tickets(P.queues[c]) = {}
           /\ c \in UserClass /\ f = NoTicket => \A t \in W : t.class # c
<1>1. P.queues[c] \in QueueRecord /\ RotationOK(P.queues[c])
  BY PoolFields DEF PoolOK
<1>2. /\ f # NoTicket => f \in Tickets(P.queues[c])
      /\ f = NoTicket => Tickets(P.queues[c]) = {}
  BY <1>1, FrontIs
<1>3. f # NoTicket => f \in W /\ f.class = c /\ f \in Tickets(P.queues[f.class])
  BY <1>2, PlaceOf
<1>4. f # NoTicket => f \in Ticket
  BY <1>3 DEF PoolOK
<1>5. ASSUME c \in UserClass, f = NoTicket, NEW t \in W, t.class = c PROVE FALSE
  <2>1. t \in Ticket /\ t.owner \in Owner
    BY TicketFields DEF PoolOK
  <2>2. P.deferred[c].tickets[t.owner] = <<>>
    BY <1>5, <2>1, LineIs DEF LineOK
  <2>3. t \notin ToSet(P.deferred[c].tickets[t.owner])
    BY <2>2 DEF ToSet
  <2>4. t \in ToSet(P.queues[c].tickets[t.owner])
    BY <1>5, <2>3, PlaceOf
  <2>5. t \in Tickets(P.queues[c])
    BY <2>1, <2>4 DEF Tickets
  <2> QED BY <1>2, <1>5, <2>5
<1> QED BY <1>2, <1>3, <1>4, <1>5

\* A pick, and why there may be none.
Picked(Q, W, r, g) ==
    /\ g \in Callers \cup {NoTicket}
    /\ g # NoTicket => LegalFor(Q, W, r, g)
    /\ g = NoTicket => NobodyFor(W, r)

LEMMA PickInPause ==
    ASSUME NEW P, NEW W, NEW r \in RecoveryRecord, r.phase = "pause"
    PROVE  Picked(P, W, r, r.ticket)
<1>1. r.ticket \in {NoTicket, RecoveryTurn}
  BY DEF RecoveryRecord
<1>2. r.ticket \in Callers \cup {NoTicket}
  BY <1>1 DEF Callers
<1> QED BY <1>2 DEF Picked, LegalFor, NobodyFor

LEMMA PickInHold ==
    ASSUME NEW P, NEW W, PoolOK(P, W), NEW r \in RecoveryRecord, r.phase = "hold",
           NEW g, g = (IF r.security < RecoverySecurityReserve
                          /\ Ready(FrontTicket(P.queues[SecurityFence]))
                       THEN FrontTicket(P.queues[SecurityFence]) ELSE NoTicket)
    PROVE  Picked(P, W, r, g)
<1>1. PICK f : f = FrontTicket(P.queues[SecurityFence])
  OBVIOUS
<1>2. SecurityFence \in Class /\ SecurityFence \in UserClass /\ SecurityFence \notin BackgroundClass
  BY ClassKinds
<1>3. /\ f # NoTicket => f \in W /\ f.class = SecurityFence /\ f \in Tickets(P.queues[f.class])
      /\ f # NoTicket => f \in Ticket
      /\ f = NoTicket => \A t \in W : t.class # SecurityFence
  BY <1>1, <1>2, FrontAnswers
<1>4. r.security \in Nat /\ RecoverySecurityReserve \in Nat
  BY BoundsAssumption DEF RecoveryRecord
<1>5. CASE r.security < RecoverySecurityReserve /\ Ready(f)
  <2>1. g = f /\ f # NoTicket
    BY <1>1, <1>5 DEF Ready
  <2>2. ~Background(g)
    BY <1>2, <1>3, <2>1 DEF Background
  <2> QED BY <1>3, <1>5, <2>1, <2>2 DEF Picked, LegalFor, Callers
<1>6. CASE ~(r.security < RecoverySecurityReserve /\ Ready(f))
  <2>1. g = NoTicket
    BY <1>1, <1>6
  <2>2. CASE ~(r.security < RecoverySecurityReserve)
    <3>1. r.security >= RecoverySecurityReserve
      BY <1>4, <2>2
    <3> QED BY <2>1, <3>1 DEF Picked, NobodyFor
  <2>3. CASE ~Ready(f)
    <3>1. f = NoTicket \/ f \in W \cap blocked
      BY <1>3, <2>3 DEF Ready
    <3>2. \A t \in W : t.class = SecurityFence => \E u \in W \cap blocked : u.class = SecurityFence
      BY <1>3, <3>1
    <3> QED BY <2>1, <3>2 DEF Picked, NobodyFor
  <2> QED BY <1>6, <2>2, <2>3
<1> QED BY <1>5, <1>6

LEMMA PickUser ==
    ASSUME NEW P, NEW W, PoolOK(P, W), P.userQueued > 0, NEW r, r.phase = "none",
           NEW g, g = NextUser(P)
    PROVE  Picked(P, W, r, g)
<1>1. PICK fronts : fronts = {c \in UserClass : Ready(FrontTicket(P.queues[c]))}
  OBVIOUS
<1>2. UserClass \subseteq Class /\ UserClass \subseteq Nat /\ UserClass \cap BackgroundClass = {}
  BY ClassKinds
<1>3. CASE fronts # {}
  <2>1. fronts \in SUBSET Nat
    BY <1>1, <1>2
  <2>2. \E c \in fronts : \A d \in fronts : c <= d
    BY <1>3, <2>1, Least
  <2>3. PICK c \in fronts : g = FrontTicket(P.queues[c])
    BY <1>1, <1>3, <2>2 DEF NextUser
  <2>4. c \in UserClass /\ c \in Class /\ g # NoTicket
    BY <1>1, <1>2, <2>3 DEF Ready
  <2>5. g \in W /\ g.class = c /\ g \in Tickets(P.queues[g.class]) /\ g \in Ticket
    BY <2>3, <2>4, FrontAnswers
  <2>6. ~Background(g)
    BY <1>2, <2>4, <2>5 DEF Background
  <2> QED BY <2>4, <2>5, <2>6 DEF Picked, LegalFor, Callers
<1>4. CASE fronts = {}
  <2>1. g = NoTicket
    BY <1>1, <1>4 DEF NextUser
  <2>2. ASSUME NEW t \in W, ~Background(t)
        PROVE  \E u \in W \cap blocked : u.class = t.class
    <3>1. PICK c : c = t.class
      OBVIOUS
    <3>2. c \in UserClass /\ c \in Class
      BY <2>2, <3>1, KindOf, TicketFields DEF PoolOK
    <3>3. PICK f : f = FrontTicket(P.queues[c])
      OBVIOUS
    <3>4. /\ f # NoTicket => f \in W /\ f.class = c
          /\ f = NoTicket => \A u \in W : u.class # c
      BY <3>2, <3>3, FrontAnswers
    <3>5. f # NoTicket /\ ~Ready(f)
      BY <1>1, <1>4, <3>1, <3>2, <3>3, <3>4
    <3>6. f \in blocked
      BY <3>5 DEF Ready
    <3> QED BY <3>1, <3>4, <3>5, <3>6
  <2>3. \E t \in W : ~Background(t)
    <3>1. P.userQueued = Cardinality(Users(W))
      BY DEF PoolOK, CountsOK
    <3>2. Users(W) # {}
      BY <3>1, FS_EmptySet
    <3> QED BY <3>2 DEF Users
  <2>4. W \cap blocked # {}
    BY <2>2, <2>3
  <2> QED BY <2>1, <2>2, <2>4 DEF Picked, NobodyFor
<1> QED BY <1>3, <1>4

LEMMA PickBackground ==
    ASSUME NEW Q, NEW W, PoolOK(Q, W), Q.userQueued = 0, W # {} => Admitted(Q) # {},
           NEW r, r.phase = "none", NEW g, g = NextBackground(Q)
    PROVE  Picked(Q, W, r, g)
<1>1. PICK fronts : fronts = {t \in {FrontTicket(Q.queues[c]) : c \in BackgroundClass} : Ready(t)}
  OBVIOUS
<1>2. BackgroundClass \subseteq Class
  BY ClassKinds
<1>3. ASSUME NEW t \in fronts
      PROVE  t \in W /\ t \in Tickets(Q.queues[t.class]) /\ t \in Ticket /\ t # NoTicket
  <2>1. PICK c \in BackgroundClass : t = FrontTicket(Q.queues[c]) /\ t # NoTicket
    BY <1>1, <1>3 DEF Ready
  <2> QED BY <1>2, <2>1, FrontAnswers
<1>4. CASE fronts # {}
  <2>1. g = Earliest(Q, fronts)
    BY <1>1, <1>4 DEF NextBackground
  <2>2. Q.order \in Seq(Ticket) /\ fronts \subseteq ToSet(Q.order)
    BY <1>3, PoolFields DEF PoolOK
  <2>3. g \in fronts
    BY <1>4, <2>1, <2>2, EarliestIs
  <2>4. g \in W /\ g \in Tickets(Q.queues[g.class]) /\ g \in Ticket /\ g # NoTicket
    BY <1>3, <2>3
  <2> QED BY <2>4 DEF Picked, LegalFor, Callers
<1>5. CASE fronts = {}
  <2>1. g = NoTicket
    BY <1>1, <1>5 DEF NextBackground
  <2>2. \A t \in W : Background(t)
    <3>1. ASSUME NEW t \in W, ~Background(t) PROVE FALSE
      <4>1. W \in SUBSET Ticket /\ IsFiniteSet(W) /\ t \in Ticket /\ Q.userQueued = Cardinality(Users(W))
        BY DEF PoolOK, CountsOK
      <4>2. Cardinality(Users(W)) > 0
        BY <3>1, <4>1, FewUsers
      <4> QED BY <4>1, <4>2
    <3> QED BY <3>1
  <2>3. ASSUME W # {} PROVE W \cap blocked # {}
    <3>1. PICK c \in BackgroundClass : Tickets(Q.queues[c]) # {}
      BY <2>3 DEF Admitted
    <3>2. PICK f : f = FrontTicket(Q.queues[c])
      OBVIOUS
    <3>3. f # NoTicket /\ f \in W
      BY <1>2, <3>1, <3>2, FrontAnswers
    <3>4. f \in blocked
      BY <1>1, <1>5, <3>2, <3>3 DEF Ready
    <3> QED BY <3>3, <3>4
  <2> QED BY <2>1, <2>2, <2>3 DEF Picked, NobodyFor
<1> QED BY <1>4, <1>5

\* The one place that decides who is next decides rightly.
LEMMA PickIs ==
    ASSUME NEW P, NEW W, Fine(P, W, NoTicket), NEW r \in RecoveryRecord
    PROVE  Picked(AdmitBackground(P, NoTicket, r), W, r, PickWinner(P, NoTicket, r))
<1>1. PICK Q, g : Q = AdmitBackground(P, NoTicket, r) /\ g = PickWinner(P, NoTicket, r)
  OBVIOUS
<1>2. /\ PoolOK(P, W) /\ PoolOK(Q, W) /\ Q.userQueued = P.userQueued
      /\ P.userQueued = 0 /\ r.phase = "none" /\ W # {} => Admitted(Q) # {}
  <2>1. PICK h : h = NoTicket
    OBVIOUS
  <2>2. (h = NoTicket \/ h \in Callers) /\ Fine(P, W, h)
    BY <2>1
  <2>3. /\ Readied(P, AdmitBackground(P, h, r), W, h)
        /\ P.userQueued = 0 /\ r.phase = "none" /\ W # {} /\ h = NoTicket =>
              Admitted(AdmitBackground(P, h, r)) # {}
    BY ONLY <2>2, AdmitBackgroundIs
  <2> QED BY <1>1, <2>1, <2>2, <2>3 DEF Readied, Fine
<1>3. P.userQueued \in Nat
  BY <1>2, PoolFields DEF PoolOK
<1>4. r.phase \in {"none", "hold", "pause"}
  BY DEF RecoveryRecord
<1>5. CASE r.phase = "pause"
  BY <1>1, <1>5, PickInPause DEF PickWinner
<1>6. CASE r.phase = "hold"
  <2>1. Q = P
    BY <1>1, <1>6 DEF AdmitBackground
  <2>2. g = (IF r.security < RecoverySecurityReserve
                /\ Ready(FrontTicket(P.queues[SecurityFence]))
             THEN FrontTicket(P.queues[SecurityFence]) ELSE NoTicket)
    BY <1>1, <1>6 DEF PickWinner
  <2>3. Picked(P, W, r, g)
    BY <1>2, <1>6, <2>2, PickInHold
  <2> QED BY <1>1, <2>1, <2>3
<1>7. CASE r.phase = "none" /\ P.userQueued > 0
  <2>1. Q = P
    BY <1>1, <1>3, <1>7 DEF AdmitBackground
  <2>2. g = NextUser(P)
    BY <1>1, <1>7 DEF PickWinner
  <2>3. Picked(P, W, r, g)
    BY <1>2, <1>7, <2>2, PickUser
  <2> QED BY <1>1, <2>1, <2>3
<1>8. CASE r.phase = "none" /\ P.userQueued = 0
  <2>1. g = NextBackground(Q)
    BY <1>1, <1>8 DEF PickWinner
  <2>2. Picked(Q, W, r, g)
    BY <1>2, <1>8, <2>1, PickBackground
  <2> QED BY <1>1, <2>2
<1> QED BY <1>3, <1>4, <1>5, <1>6, <1>7, <1>8

\* What most critical sections end with.
LEMMA SettleIs ==
    ASSUME NEW P, NEW W, NEW h, h = NoTicket \/ h \in Callers, PoolInv(P, W, h),
           NEW r \in RecoveryRecord, Settle(P, h, r)
    PROVE  /\ PoolInv(pool', W, h) /\ announced' = TRUE
           /\ h # NoTicket => grant' = grant /\ pool' = P
           /\ h = NoTicket => Picked(pool', W, r, grant')
<1>1. announced' = TRUE /\ Fine(P, W, h) /\ ToSet(P.order) = W
  BY DEF Settle, PoolInv, Fine
<1>2. CASE h = NoTicket
  <2>1. pool' = AdmitBackground(P, h, r) /\ grant' = PickWinner(P, h, r)
    BY <1>2 DEF Settle
  <2>2. Readied(P, AdmitBackground(P, h, r), W, h)
    BY <1>1, AdmitBackgroundIs
  <2>3. Picked(AdmitBackground(P, NoTicket, r), W, r, PickWinner(P, NoTicket, r))
    BY <1>1, <1>2, PickIs
  <2> QED BY <1>1, <1>2, <2>1, <2>2, <2>3 DEF Readied, Fine, PoolInv
<1>3. CASE h # NoTicket
  BY <1>1, <1>3 DEF Settle
<1> QED BY <1>2, <1>3

\* Admission before the end of a critical section.
LEMMA AdmissionInv ==
    ASSUME NEW P, NEW W, NEW h, h = NoTicket \/ h \in Callers, PoolInv(P, W, h), NEW r
    PROVE  PoolInv(AdmitBackground(P, h, r), W, h)
<1>1. Fine(P, W, h) /\ ToSet(P.order) = W
  BY DEF PoolInv, Fine
<1>2. Readied(P, AdmitBackground(P, h, r), W, h)
  BY <1>1, AdmitBackgroundIs
<1> QED BY <1>1, <1>2 DEF Readied, Fine, PoolInv

\* Who makes room for an arrival: a user, not the pending grant, and either a
\* less important one or one whose owner is over a share the arrival's is under.
VictimOf(P, W, g, a, v) ==
    /\ v \in W /\ v \in Ticket /\ ~Background(v) /\ v # g /\ a.class <= v.class
    /\ \/ a.class < v.class
       \/ v.owner # NoOwner /\ v.owner # a.owner /\ P.ownerQueued[v.owner] > OwnerQueueShare

LEMMA VictimIs ==
    ASSUME NEW P, NEW W, PoolOK(P, W), NEW a \in Ticket, NEW g,
           NEW v, v = Victim(P, g, a), v # NoTicket
    PROVE  VictimOf(P, W, g, a, v)
<1>1. PICK users : users = UNION {Tickets(P.queues[c]) : c \in UserClass}
  OBVIOUS
<1>2. PICK overShare :
         overShare = {t \in users : /\ t # g /\ t.class >= a.class
                                    /\ t.owner # NoOwner /\ P.ownerQueued[t.owner] > OwnerQueueShare}
  OBVIOUS
<1>3. PICK below : below = {t \in users : t # g /\ t.class > a.class}
  OBVIOUS
<1>4. PICK least : least = {t \in below : \A u \in below : u.class <= t.class}
  OBVIOUS
<1>5. ASSUME NEW t \in users
      PROVE  /\ t \in W /\ t \in Ticket /\ ~Background(t) /\ t.class \in 0 .. 8
             /\ t \in ToSet(P.order)
  <2>1. PICK c \in UserClass : t \in Tickets(P.queues[c])
    BY <1>1, <1>5
  <2>2. t \in W /\ t.class = c /\ c \in 0 .. 8
    BY <2>1, ClassKinds, PlaceOf DEF UserClass
  <2> QED BY <2>2, KindOf DEF PoolOK
<1>6. P.order \in Seq(Ticket)
  BY PoolFields DEF PoolOK
<1>7. a.class \in Nat /\ \A t \in users : t.class \in Nat
  BY <1>5, TicketFields
<1>8. CASE /\ a.owner = NoOwner \/ P.ownerQueued[a.owner] < OwnerQueueShare
           /\ overShare # {}
  <2>1. v = Newest(P, overShare)
    BY <1>1, <1>2, <1>8 DEF Victim
  <2>2. v \in overShare
    <3>1. overShare \cap ToSet(P.order) # {}
      BY <1>2, <1>5, <1>8
    <3> QED BY <1>6, <2>1, <3>1, NewestIs
  <2>3. v \in users /\ v # g /\ v.class >= a.class /\ v.owner # NoOwner
        /\ P.ownerQueued[v.owner] > OwnerQueueShare
    BY <1>2, <2>2
  <2>4. v.owner # a.owner
    <3>1. ASSUME v.owner = a.owner PROVE FALSE
      <4>1. P.ownerQueued[v.owner] < OwnerQueueShare
        BY <1>8, <2>3, <3>1
      <4>2. v.owner \in Owner \ {NoOwner}
        BY <1>5, <2>3, TicketFields
      <4>3. P.ownerQueued[v.owner] \in Nat /\ OwnerQueueShare \in Nat
        BY <4>2, PoolFields, BoundsAssumption DEF PoolOK
      <4> QED BY <2>3, <4>1, <4>3
    <3> QED BY <3>1
  <2>5. a.class <= v.class
    BY <1>7, <2>3
  <2> QED BY <1>5, <2>3, <2>4, <2>5 DEF VictimOf
<1>9. CASE ~(/\ a.owner = NoOwner \/ P.ownerQueued[a.owner] < OwnerQueueShare
             /\ overShare # {})
  <2>1. v = IF below # {} THEN Newest(P, least) ELSE NoTicket
    BY <1>1, <1>2, <1>3, <1>4, <1>9 DEF Victim
  <2>2. below # {} /\ v = Newest(P, least)
    BY <2>1
  <2>3. least # {}
    <3>1. PICK S : S = {t.class : t \in below}
      OBVIOUS
    <3>2. S \in SUBSET (0 .. 8) /\ S # {}
      BY <1>3, <1>5, <2>2, <3>1
    <3>3. PICK m \in S : \A k \in S : k <= m
      BY <3>2, Greatest
    <3>4. PICK t \in below : m = t.class
      BY <3>1, <3>3
    <3>5. \A u \in below : u.class <= t.class
      BY <3>1, <3>3, <3>4
    <3> QED BY <1>4, <3>4, <3>5
  <2>4. v \in least
    <3>1. least \cap ToSet(P.order) # {}
      BY <1>3, <1>4, <1>5, <2>3
    <3> QED BY <1>6, <2>2, <3>1, NewestIs
  <2>5. v \in users /\ v # g /\ v.class > a.class
    BY <1>3, <1>4, <2>4
  <2>6. a.class < v.class /\ a.class <= v.class
    BY <1>7, <2>5
  <2> QED BY <1>5, <2>5, <2>6 DEF VictimOf
<1> QED BY <1>8, <1>9


----------------------------------------------------------------------------
(* The invariant, action by action. *)

LEMMA CallersAre ==
    /\ RecoveryTurn \in Callers /\ NoTicket \notin Callers /\ RecoveryTurn \notin Ticket
    /\ RecoveryTurn # NoTicket /\ Ticket \subseteq Callers
    /\ RecoveryTurn.class = Maintenance /\ RecoveryTurn.class # SecurityFence
    /\ RecoveryTurn.probe = FALSE
  BY TicketAssumption DEF Callers, RecoveryTurn, Maintenance, SecurityFence

\* One caller moves.
LEMMA CallMoves ==
    ASSUME call \in [Callers -> CallStates], NEW t \in Callers, NEW s \in CallStates,
           call' = [call EXCEPT ![t] = s]
    PROVE  /\ call' \in [Callers -> CallStates] /\ call'[t] = s
           /\ \A u \in Callers : u # t => call'[u] = call[u]
           /\ s # "waiting" => Waiting' = Waiting \ {t}
<1>1. /\ call' \in [Callers -> CallStates] /\ call'[t] = s
      /\ \A u \in Callers : u # t => call'[u] = call[u]
  OBVIOUS
<1>2. Ticket \subseteq Callers
  BY DEF Callers
<1> QED BY <1>1, <1>2 DEF Waiting

\* Who waits when the recovery turn moves.
LEMMA TurnMoves ==
    ASSUME \A u \in Callers : u # RecoveryTurn => call'[u] = call[u]
    PROVE  Waiting' = Waiting
  BY CallersAre DEF Waiting

\* A critical section that settles leaves the pool and the grant in order.
LEMMA Settled ==
    ASSUME NEW P, PoolInv(P, Waiting', holder'), Settle(P, holder', recovery'),
           holder' = NoTicket \/ holder' \in Callers, recovery' \in RecoveryRecord,
           blocked' = blocked, active' <=> holder' # NoTicket,
           holder' # NoTicket => grant = NoTicket
    PROVE  /\ PoolInv(pool, Waiting, holder)' /\ GrantOK'
           /\ grant' \in Callers \cup {NoTicket} /\ announced' \in BOOLEAN
           /\ active' => grant' = NoTicket
<1>1. PICK W, h, r : W = Waiting' /\ h = holder' /\ r = recovery'
  OBVIOUS
<1>2. /\ h = NoTicket \/ h \in Callers
      /\ PoolInv(P, W, h) /\ r \in RecoveryRecord /\ Settle(P, h, r)
  BY <1>1
<1>3. /\ PoolInv(pool', W, h) /\ announced' = TRUE
      /\ h # NoTicket => grant' = grant /\ pool' = P
      /\ h = NoTicket => Picked(pool', W, r, grant')
  BY ONLY <1>2, SettleIs
<1>4. PoolInv(pool, Waiting, holder)'
  BY <1>1, <1>3
<1>5. grant' \in Callers \cup {NoTicket} /\ (active' => grant' = NoTicket)
  BY <1>1, <1>3 DEF Picked
<1>6. grant' # NoTicket => LegalFor(pool', Waiting', recovery', grant')
  BY <1>1, <1>3 DEF Picked
<1>7. ~active' /\ grant' = NoTicket => NobodyFor(W, r)
  BY <1>1, <1>3 DEF Picked
<1>8. ~active' /\ grant' = NoTicket => NobodyFor(Waiting, recovery)'
  BY <1>1, <1>7 DEF NobodyFor
<1>9. GrantOK'
  BY <1>3, <1>6, <1>8 DEF GrantOK
<1> QED BY <1>3, <1>4, <1>5, <1>9

LEMMA HolderIs ==
    ASSUME ControlTypes, HolderOK
    PROVE  /\ holder = NoTicket \/ holder \in Callers
           /\ active <=> holder # NoTicket
           /\ holder # NoTicket => grant = NoTicket
           /\ recovery \in RecoveryRecord /\ call \in [Callers -> CallStates]
  BY DEF ControlTypes, HolderOK

\* acquire refuses the arrival.
LEMMA RefuseArrivalInv ==
    ASSUME GateInv, NEW t \in Ticket, RefuseArrival(t)
    PROVE  GateInv'
<1>1. /\ t \in Callers /\ call[t] \in {"idle", "refused"} /\ "refused" \in CallStates
      /\ t # RecoveryTurn
  BY CallersAre DEF RefuseArrival, Answered, CallStates
<1>2. call \in [Callers -> CallStates] /\ call' = [call EXCEPT ![t] = "refused"]
  BY DEF GateInv, ControlTypes, RefuseArrival
<1>3. /\ call' \in [Callers -> CallStates] /\ call'[t] = "refused"
      /\ \A u \in Callers : u # t => call'[u] = call[u]
      /\ Waiting' = Waiting \ {t}
  BY <1>1, <1>2, CallMoves
<1>4. Waiting' = Waiting
  BY <1>1, <1>3 DEF Waiting
<1>5. /\ pool' = pool /\ active' = active /\ holder' = holder /\ grant' = grant
      /\ announced' = announced /\ generation' = generation /\ recovery' = recovery
      /\ turn' = turn /\ aged' = aged /\ blocked' = blocked /\ probed' = probed
  BY DEF RefuseArrival, gateVars, ownerVars, walVars
<1>6. ControlTypes'
  BY <1>3, <1>5 DEF GateInv, ControlTypes
<1>7. PoolInv(pool, Waiting, holder)'
  BY <1>4, <1>5 DEF GateInv
<1>8. HolderOK'
  BY <1>1, <1>3, <1>5 DEF GateInv, HolderOK
<1>9. RecoveryOK'
  <2>1. call'[RecoveryTurn] = call[RecoveryTurn]
    BY <1>1, <1>3, CallersAre
  <2> QED BY <1>5, <2>1 DEF GateInv, RecoveryOK
<1>10. GrantOK'
  BY <1>4, <1>5 DEF GateInv, GrantOK, NobodyFor
<1> QED BY <1>6, <1>7, <1>8, <1>9, <1>10 DEF GateInv

\* release.
LEMMA ReleaseInv ==
    ASSUME GateInv, NEW t \in Callers, Release(t)
    PROVE  GateInv'
<1>1. /\ call[t] = "holding" /\ "idle" \in CallStates /\ call' = [call EXCEPT ![t] = "idle"]
      /\ active' = FALSE /\ holder' = NoTicket /\ Settle(pool, NoTicket, recovery)
      /\ generation' = generation /\ recovery' = recovery
      /\ turn' = turn /\ aged' = aged /\ blocked' = blocked /\ probed' = probed
  BY DEF Release, gateVars, ownerVars, walVars, CallStates
<1>2. /\ ControlTypes /\ HolderOK /\ call \in [Callers -> CallStates]
      /\ recovery \in RecoveryRecord
  BY DEF GateInv, ControlTypes
<1>3. /\ call' \in [Callers -> CallStates] /\ call'[t] = "idle"
      /\ \A u \in Callers : u # t => call'[u] = call[u]
      /\ Waiting' = Waiting \ {t}
  BY <1>1, <1>2, CallMoves
<1>4. Waiting' = Waiting
  BY <1>1, <1>3 DEF Waiting
<1>5. PoolInv(pool, Waiting', holder')
  BY <1>1, <1>4, FreeLimited DEF GateInv, PoolInv
<1>6. /\ PoolInv(pool, Waiting, holder)' /\ GrantOK'
      /\ grant' \in Callers \cup {NoTicket} /\ announced' \in BOOLEAN
      /\ active' => grant' = NoTicket
  <2>1. /\ Settle(pool, holder', recovery') /\ (holder' = NoTicket \/ holder' \in Callers)
        /\ recovery' \in RecoveryRecord /\ blocked' = blocked /\ (active' <=> holder' # NoTicket)
        /\ (holder' # NoTicket => grant = NoTicket)
    BY <1>1, <1>2
  <2> QED BY ONLY <1>5, <2>1, Settled
<1>7. ControlTypes'
  BY <1>1, <1>2, <1>3, <1>6 DEF ControlTypes
<1>8. HolderOK'
  <2>1. \A u \in Callers : call'[u] # "holding"
    BY <1>1, <1>2, <1>3 DEF HolderOK
  <2> QED BY <1>1, <1>6, <2>1, CallersAre DEF HolderOK
<1>9. RecoveryOK'
  <2>1. RecoveryOK /\ active /\ RecoveryTurn \in Callers
    BY <1>1, <1>2, CallersAre DEF GateInv, HolderOK
  <2>2. CASE t = RecoveryTurn
    BY <1>1, <1>3, <2>1, <2>2 DEF RecoveryOK
  <2>3. CASE t # RecoveryTurn
    BY <1>1, <1>3, <2>1, <2>3 DEF RecoveryOK
  <2> QED BY <2>2, <2>3
<1> QED BY <1>6, <1>7, <1>8, <1>9 DEF GateInv

\* The housekeeping loop wakes the waiters.
LEMMA WakeInv ==
    ASSUME GateInv, WakeWALWaiters
    PROVE  GateInv'
<1>1. /\ probed' = FALSE /\ Settle(pool, holder, recovery)
      /\ active' = active /\ holder' = holder /\ generation' = generation /\ recovery' = recovery
      /\ turn' = turn /\ call' = call /\ aged' = aged /\ blocked' = blocked
  BY DEF WakeWALWaiters, ownerVars
<1>2. ControlTypes /\ HolderOK /\ Waiting' = Waiting
  BY <1>1 DEF GateInv, Waiting
<1>3. PoolInv(pool, Waiting', holder')
  BY <1>1, <1>2 DEF GateInv
<1>4. /\ PoolInv(pool, Waiting, holder)' /\ GrantOK'
      /\ grant' \in Callers \cup {NoTicket} /\ announced' \in BOOLEAN
      /\ active' => grant' = NoTicket
  <2>1. /\ Settle(pool, holder', recovery') /\ (holder' = NoTicket \/ holder' \in Callers)
        /\ recovery' \in RecoveryRecord /\ blocked' = blocked /\ (active' <=> holder' # NoTicket)
        /\ (holder' # NoTicket => grant = NoTicket)
    BY <1>1, <1>2, HolderIs
  <2> QED BY ONLY <1>3, <2>1, Settled
<1>5. ControlTypes'
  BY <1>1, <1>2, <1>4 DEF ControlTypes
<1>6. HolderOK'
  BY <1>1, <1>2, <1>4 DEF HolderOK
<1>7. RecoveryOK'
  BY <1>1 DEF GateInv, RecoveryOK
<1> QED BY <1>4, <1>5, <1>6, <1>7 DEF GateInv

\* A recovery ends.
LEMMA EndRecoveryInv ==
    ASSUME GateInv, EndRecovery
    PROVE  GateInv'
<1>1. /\ call[RecoveryTurn] # "holding" /\ recovery' = NoRecovery /\ turn' = "unread"
      /\ call' = [call EXCEPT ![RecoveryTurn] = "idle"] /\ "idle" \in CallStates
      /\ Settle(pool, holder, NoRecovery)
      /\ active' = active /\ holder' = holder /\ generation' = generation
      /\ aged' = aged /\ blocked' = blocked /\ probed' = probed
  BY DEF EndRecovery, walVars, CallStates
<1>2. ControlTypes /\ HolderOK /\ call \in [Callers -> CallStates] /\ RecoveryTurn \in Callers
  BY CallersAre DEF GateInv, ControlTypes
<1>3. /\ call' \in [Callers -> CallStates] /\ call'[RecoveryTurn] = "idle"
      /\ \A u \in Callers : u # RecoveryTurn => call'[u] = call[u]
  BY <1>1, <1>2, CallMoves
<1>4. Waiting' = Waiting
  BY <1>3, TurnMoves
<1>5. PoolInv(pool, Waiting', holder')
  BY <1>1, <1>4 DEF GateInv
<1>6. /\ NoRecovery \in RecoveryRecord /\ NoRecovery.phase = "none" /\ NoRecovery.security = 0
      /\ NoRecovery.ticket = NoTicket
  BY DEF NoRecovery, RecoveryRecord
<1>7. /\ PoolInv(pool, Waiting, holder)' /\ GrantOK'
      /\ grant' \in Callers \cup {NoTicket} /\ announced' \in BOOLEAN
      /\ active' => grant' = NoTicket
  <2>1. /\ Settle(pool, holder', recovery') /\ (holder' = NoTicket \/ holder' \in Callers)
        /\ recovery' \in RecoveryRecord /\ blocked' = blocked /\ (active' <=> holder' # NoTicket)
        /\ (holder' # NoTicket => grant = NoTicket)
    BY <1>1, <1>2, <1>6, HolderIs
  <2> QED BY ONLY <1>5, <2>1, Settled
<1>8. ControlTypes'
  BY <1>1, <1>2, <1>3, <1>6, <1>7 DEF ControlTypes
<1>9. HolderOK'
  BY <1>1, <1>2, <1>3, <1>7 DEF HolderOK
<1>10. RecoveryOK'
  <2>1. RecoverySecurityReserve \in Nat
    BY BoundsAssumption
  <2> QED BY <1>1, <1>3, <1>6, <2>1, CallersAre DEF RecoveryOK
<1> QED BY <1>7, <1>8, <1>9, <1>10 DEF GateInv


\* A caller that gives up, or ran out of its capacity wait.
LEMMA AbandonInv ==
    ASSUME GateInv, NEW t \in Callers, call[t] = "waiting", NEW s \in {"idle", "refused"},
           call' = [call EXCEPT ![t] = s], Abandon(t)
    PROVE  GateInv'
<1>1. PICK P, r : /\ P = (IF t = RecoveryTurn THEN pool ELSE Depart(pool, t, FALSE))
                  /\ r = (IF t = RecoveryTurn THEN [recovery EXCEPT !.ticket = NoTicket] ELSE recovery)
  OBVIOUS
<1>2. /\ recovery' = r /\ Settle(AdmitBackground(P, holder, r), holder, r)
      /\ active' = active /\ holder' = holder /\ generation' = generation
      /\ turn' = turn /\ aged' = aged /\ blocked' = blocked /\ probed' = probed
  BY <1>1 DEF Abandon, walVars
<1>3. /\ ControlTypes /\ HolderOK /\ RecoveryOK /\ PoolInv(pool, Waiting, holder)
      /\ call \in [Callers -> CallStates] /\ recovery \in RecoveryRecord
      /\ s \in CallStates /\ s # "waiting" /\ s # "holding"
  BY DEF GateInv, ControlTypes, CallStates
<1>4. /\ call' \in [Callers -> CallStates] /\ call'[t] = s
      /\ \A u \in Callers : u # t => call'[u] = call[u]
      /\ Waiting' = Waiting \ {t}
  BY <1>3, CallMoves
<1>5. r \in RecoveryRecord /\ r.phase = recovery.phase /\ r.security = recovery.security
      /\ (t = RecoveryTurn => r.ticket = NoTicket) /\ (t # RecoveryTurn => r = recovery)
  BY <1>1, <1>3 DEF RecoveryRecord
<1>6. PoolInv(P, Waiting', holder)
  <2>1. CASE t = RecoveryTurn
    <3>1. P = pool /\ Waiting' = Waiting
      BY <1>1, <1>4, <2>1, TurnMoves
    <3> QED BY <1>3, <3>1
  <2>2. CASE t # RecoveryTurn
    <3>1. t \in Waiting
      BY <2>2 DEF Waiting, Callers
    <3>2. PICK served \in BOOLEAN : served = FALSE
      OBVIOUS
    <3>3. P = Depart(pool, t, served)
      BY <1>1, <2>2, <3>2
    <3>4. PICK P0, W, h : P0 = pool /\ W = Waiting /\ h = holder
      OBVIOUS
    <3>5. PoolInv(P0, W, h) /\ t \in W /\ served \in BOOLEAN /\ P = Depart(P0, t, served)
      BY <1>3, <3>1, <3>3, <3>4
    <3>6. PoolInv(P, W \ {t}, h)
      BY ONLY <3>5, DepartInv
    <3> QED BY <1>4, <3>4, <3>6
  <2> QED BY <2>1, <2>2
<1>7. PICK Q : Q = AdmitBackground(P, holder, r)
  OBVIOUS
<1>8. PoolInv(Q, Waiting', holder')
  <2>1. PICK W, h : W = Waiting' /\ h = holder
    OBVIOUS
  <2>2. PoolInv(P, W, h) /\ (h = NoTicket \/ h \in Callers)
    BY <1>3, <1>6, <2>1, HolderIs
  <2>3. PoolInv(AdmitBackground(P, h, r), W, h)
    BY ONLY <2>2, AdmissionInv
  <2> QED BY <1>2, <1>7, <2>1, <2>3
<1>9. /\ PoolInv(pool, Waiting, holder)' /\ GrantOK'
      /\ grant' \in Callers \cup {NoTicket} /\ announced' \in BOOLEAN
      /\ active' => grant' = NoTicket
  <2>1. /\ Settle(Q, holder', recovery') /\ (holder' = NoTicket \/ holder' \in Callers)
        /\ recovery' \in RecoveryRecord /\ blocked' = blocked /\ (active' <=> holder' # NoTicket)
        /\ (holder' # NoTicket => grant = NoTicket)
    BY <1>2, <1>3, <1>5, <1>7, HolderIs
  <2> QED BY ONLY <1>8, <2>1, Settled
<1>10. ControlTypes'
  BY <1>2, <1>3, <1>4, <1>5, <1>9 DEF ControlTypes
<1>11. HolderOK'
  BY <1>2, <1>3, <1>4, <1>9 DEF HolderOK
<1>12. RecoveryOK'
  <2>1. CASE t = RecoveryTurn
    BY <1>2, <1>3, <1>4, <1>5, <2>1, CallersAre DEF RecoveryOK
  <2>2. CASE t # RecoveryTurn
    <3>1. call'[RecoveryTurn] = call[RecoveryTurn] /\ recovery' = recovery
      BY <1>2, <1>4, <1>5, <2>2, CallersAre
    <3> QED BY <1>2, <1>3, <3>1 DEF RecoveryOK
  <2> QED BY <2>1, <2>2
<1> QED BY <1>9, <1>10, <1>11, <1>12 DEF GateInv

LEMMA CancelInv ==
    ASSUME GateInv, NEW t \in Callers, Cancel(t)
    PROVE  GateInv'
<1>1. PICK s \in {"idle", "refused"} : s = "idle"
  OBVIOUS
<1>2. call[t] = "waiting" /\ call' = [call EXCEPT ![t] = s] /\ Abandon(t)
  BY <1>1 DEF Cancel
<1> QED BY <1>2, AbandonInv

LEMMA CapacityTimeoutInv ==
    ASSUME GateInv, NEW t \in Ticket, CapacityTimeout(t)
    PROVE  GateInv'
<1>1. PICK s \in {"idle", "refused"} : s = "refused"
  OBVIOUS
<1>2. call[t] = "waiting" /\ call' = [call EXCEPT ![t] = s] /\ Abandon(t) /\ t \in Callers
  BY <1>1, CallersAre DEF CapacityTimeout
<1> QED BY <1>2, AbandonInv

\* A granted caller begins.
LEMMA TakeInv ==
    ASSUME GateInv, NEW t \in Callers, Take(t)
    PROVE  GateInv'
<1>1. /\ call[t] = "waiting" /\ ~active /\ grant = t
      /\ pool' = (IF t = RecoveryTurn THEN pool ELSE Depart(pool, t, TRUE))
      /\ grant' = NoTicket /\ active' = TRUE /\ holder' = t
      /\ generation' = (IF t.probe \/ generation = 2 THEN generation ELSE generation + 1)
      /\ call' = [call EXCEPT ![t] = "holding"] /\ "holding" \in CallStates
      /\ turn' = turn /\ aged' = aged /\ blocked' = blocked /\ probed' = probed
      /\ announced' = announced
  BY DEF Take, walVars, CallStates
<1>2. /\ ControlTypes /\ HolderOK /\ RecoveryOK /\ PoolInv(pool, Waiting, holder)
      /\ call \in [Callers -> CallStates] /\ recovery \in RecoveryRecord
      /\ t # NoTicket /\ holder = NoTicket /\ LegalFor(pool, Waiting, recovery, t)
  BY <1>1, CallersAre DEF GateInv, GrantOK, ControlTypes, HolderOK
<1>3. /\ call' \in [Callers -> CallStates] /\ call'[t] = "holding"
      /\ \A u \in Callers : u # t => call'[u] = call[u]
      /\ Waiting' = Waiting \ {t}
  BY <1>1, <1>2, CallMoves
<1>4. /\ recovery' \in RecoveryRecord /\ recovery'.phase = recovery.phase
      /\ recovery'.security = (IF recovery.phase # "none" /\ t.class = SecurityFence
                               THEN recovery.security + 1 ELSE recovery.security)
      /\ recovery'.ticket = (IF t = RecoveryTurn THEN NoTicket ELSE recovery.ticket)
  <2>1. PICK n \in Nat, k \in {NoTicket, RecoveryTurn} :
           /\ n = (IF recovery.phase # "none" /\ t.class = SecurityFence
                   THEN recovery.security + 1 ELSE recovery.security)
           /\ k = (IF t = RecoveryTurn THEN NoTicket ELSE recovery.ticket)
    BY <1>2 DEF RecoveryRecord
  <2>2. recovery' = [recovery EXCEPT !.security = n, !.ticket = k]
    BY <2>1 DEF Take
  <2> QED BY <1>2, <2>1, <2>2 DEF RecoveryRecord
<1>5. generation' \in 0 .. 2
  BY <1>1, <1>2 DEF ControlTypes
<1>6. ControlTypes'
  BY <1>1, <1>2, <1>3, <1>4, <1>5 DEF ControlTypes
<1>7. HolderOK'
  BY <1>1, <1>2, <1>3, CallersAre DEF HolderOK
<1>8. GrantOK'
  BY <1>1 DEF GrantOK
<1>9. PoolInv(pool', Waiting', t) /\ RecoveryOK'
  <2>1. CASE t = RecoveryTurn
    <3>1. Waiting' = Waiting /\ pool' = pool
      BY <1>1, <1>3, <2>1, TurnMoves
    <3>2. Limited(pool, t)
      <4>1. \A c, o : Held(t, c, o) = 0 /\ Held(NoTicket, c, o) = 0
        BY <2>1, CallersAre, TicketAssumption DEF Held
      <4> QED BY <1>2, <4>1 DEF PoolInv, Limited
    <3>3. PoolInv(pool', Waiting', t)
      BY <1>2, <3>1, <3>2 DEF PoolInv
    <3>4. turn = "asked" /\ generation = 0 /\ recovery.phase = "pause"
      BY <1>1, <1>2, <2>1 DEF RecoveryOK
    <3>5. generation' = 1 /\ recovery'.security = recovery.security /\ recovery'.ticket = NoTicket
      BY <1>1, <1>4, <2>1, <3>4, CallersAre
    <3>6. RecoveryOK'
      BY <1>1, <1>2, <1>3, <1>4, <2>1, <3>4, <3>5, CallersAre DEF RecoveryOK
    <3> QED BY <3>3, <3>6
  <2>2. CASE t # RecoveryTurn
    <3>1. t \in Waiting /\ t \in Ticket
      BY <1>1, <2>2 DEF Waiting, Callers
    <3>2. recovery.phase # "pause"
      <4>1. recovery.ticket \in {NoTicket, RecoveryTurn}
        BY <1>2 DEF RecoveryRecord
      <4> QED BY <1>2, <2>2, <4>1 DEF LegalFor
    <3>3. /\ t \in Tickets(pool.queues[t.class])
          /\ recovery.phase = "hold" =>
                t.class = SecurityFence /\ recovery.security < RecoverySecurityReserve
      BY <1>2, <3>2 DEF LegalFor
    <3>4. PICK served \in BOOLEAN : served = TRUE
      OBVIOUS
    <3>5. PICK P, W, Q : P = pool /\ W = Waiting /\ Q = pool'
      OBVIOUS
    <3>6. PoolInv(P, W, NoTicket) /\ t \in W /\ served \in BOOLEAN /\ Q = Depart(P, t, served)
      BY <1>1, <1>2, <2>2, <3>1, <3>4, <3>5
    <3>7. PICK h : h = NoTicket /\ PoolInv(P, W, h)
      BY <3>6
    <3>8. PoolInv(Q, W \ {t}, h) /\ LinesWithout(P, Q, t)
      BY ONLY <3>6, <3>7, DepartInv
    <3>9. ~IsDeferred(P, t)
      <4>1. PoolOK(P, W) /\ t.class \in Class /\ t.owner \in Owner
        BY <3>1, <3>6, TicketFields DEF PoolInv
      <4>2. t \in ToSet(P.queues[t.class].tickets[t.owner])
        BY <3>3, <3>5, <4>1, PlaceOf
      <4>3. t \notin ToSet(P.deferred[t.class].tickets[t.owner])
        BY <4>1, <4>2, LineIs
      <4> QED BY <3>6, <4>1, <4>3, PlaceOf
    <3>10. Limited(Q, t)
      BY <3>6, <3>8, <3>9, TakenLimited DEF PoolInv
    <3>11. PoolInv(pool', Waiting', t)
      BY <1>3, <3>5, <3>8, <3>10 DEF PoolInv
    <3>12. turn = "unread" /\ call[RecoveryTurn] \notin {"waiting", "holding"}
      BY <1>2, <3>2 DEF RecoveryOK, ControlTypes
    <3>13. call'[RecoveryTurn] = call[RecoveryTurn] /\ recovery'.ticket = recovery.ticket
      BY <1>3, <1>4, <2>2, CallersAre
    <3>14. /\ recovery'.phase = "none" => recovery'.security = 0
           /\ recovery'.security <= RecoverySecurityReserve
      <4>1. recovery.security \in Nat /\ RecoverySecurityReserve \in Nat
            /\ recovery.phase \in {"none", "hold", "pause"}
        BY <1>2, BoundsAssumption DEF RecoveryRecord
      <4> QED BY <1>2, <1>4, <3>2, <3>3, <4>1 DEF RecoveryOK
    <3>15. RecoveryOK'
      BY <1>1, <1>2, <3>12, <3>13, <3>14 DEF RecoveryOK
    <3> QED BY <3>11, <3>15
  <2> QED BY <2>1, <2>2
<1>10. PoolInv(pool, Waiting, holder)'
  BY <1>1, <1>9
<1> QED BY <1>6, <1>7, <1>8, <1>9, <1>10 DEF GateInv


\* An arrival: who makes room, who waits then, and the pool it leaves.
Arrived(t, v) ==
    /\ t \in Ticket /\ call[t] \in {"idle", "refused"} /\ v # t
    /\ \/ v = NoTicket
       \/ /\ ~Background(t) /\ pool.userQueued >= WriterQueueCapacity
          /\ VictimOf(pool, Waiting, grant, t, v)
    /\ call' \in [Callers -> CallStates] /\ call'[t] = "waiting"
    /\ \A u \in Callers : u # t /\ u # v => call'[u] = call[u]
    /\ v # NoTicket => call'[v] = "refused"
    /\ Waiting' = (Waiting \ {v}) \cup {t}
    /\ aged' \subseteq aged
    /\ active' = active /\ holder' = holder /\ generation' = generation
    /\ recovery' = recovery /\ turn' = turn /\ blocked' = blocked /\ probed' = probed

LEMMA AcquireIs ==
    ASSUME GateInv, NEW t \in Ticket, Acquire(t)
    PROVE  \E v, P : /\ Arrived(t, v) /\ PoolInv(P, Waiting', holder)
                     /\ Settle(AdmitBackground(P, holder, recovery), holder, recovery)
<1> DEFINE full == ~Background(t) /\ pool.userQueued >= WriterQueueCapacity
           v == IF full THEN Victim(pool, grant, t) ELSE NoTicket
           P1 == IF v = NoTicket THEN pool ELSE Depart(pool, v, FALSE)
           P == Arrival(P1, t)
<1>5. /\ call[t] \in {"idle", "refused"} /\ (full => v # NoTicket)
      /\ call' = [u \in DOMAIN call |-> CASE u = t -> "waiting"
                                          [] u = v -> "refused"
                                          [] OTHER -> call[u]]
      /\ aged' = aged \ {t}
      /\ Settle(AdmitBackground(P, holder, recovery), holder, recovery)
      /\ active' = active /\ holder' = holder /\ generation' = generation
      /\ recovery' = recovery /\ turn' = turn /\ blocked' = blocked /\ probed' = probed
  BY DEF Acquire, Answered, Arrival, Numbered, ownerVars, walVars
<1>1. full <=> ~Background(t) /\ pool.userQueued >= WriterQueueCapacity
  OBVIOUS
<1>2. v = IF full THEN Victim(pool, grant, t) ELSE NoTicket
  OBVIOUS
<1>3. P1 = IF v = NoTicket THEN pool ELSE Depart(pool, v, FALSE)
  OBVIOUS
<1>4. P = Arrival(P1, t)
  OBVIOUS
<1> HIDE DEF full, v, P1, P
<1>6. /\ call \in [Callers -> CallStates] /\ PoolInv(pool, Waiting, holder)
      /\ t \in Callers /\ t # NoTicket
  BY CallersAre DEF GateInv, ControlTypes
<1>7. t \notin Waiting
  BY <1>5 DEF Waiting
<1>8. v # NoTicket => /\ ~Background(t) /\ pool.userQueued >= WriterQueueCapacity
                      /\ VictimOf(pool, Waiting, grant, t, v)
  <2>1. SUFFICES ASSUME v # NoTicket
                 PROVE  /\ ~Background(t) /\ pool.userQueued >= WriterQueueCapacity
                        /\ VictimOf(pool, Waiting, grant, t, v)
    OBVIOUS
  <2>2. full /\ v = Victim(pool, grant, t)
    BY <1>2, <2>1
  <2>3. PICK P0, W, g : P0 = pool /\ W = Waiting /\ g = grant
    OBVIOUS
  <2>4. PoolOK(P0, W) /\ t \in Ticket /\ v = Victim(P0, g, t) /\ v # NoTicket
    BY <1>6, <2>1, <2>2, <2>3 DEF PoolInv
  <2>5. VictimOf(P0, W, g, t, v)
    BY ONLY <2>4, VictimIs
  <2> QED BY <1>1, <2>2, <2>3, <2>5
<1>9. v # NoTicket => v \in Waiting /\ v \in Ticket /\ v \in Callers
  BY <1>8, CallersAre DEF VictimOf
<1>10. v # t
  BY <1>6, <1>7, <1>9
<1>11. /\ call' \in [Callers -> CallStates] /\ call'[t] = "waiting"
       /\ \A u \in Callers : u # t /\ u # v => call'[u] = call[u]
       /\ v # NoTicket => call'[v] = "refused"
  <2>1. DOMAIN call = Callers /\ "waiting" \in CallStates /\ "refused" \in CallStates
    BY <1>6 DEF CallStates
  <2>2. call' = [u \in Callers |-> IF u = t THEN "waiting" ELSE IF u = v THEN "refused" ELSE call[u]]
    BY <1>5, <1>10, <2>1
  <2> QED BY <1>6, <1>9, <1>10, <2>1, <2>2
<1>12. Waiting' = (Waiting \ {v}) \cup {t}
  <2>1. Ticket \subseteq Callers
    BY CallersAre
  <2> QED BY <1>9, <1>10, <1>11, <2>1, TicketFields DEF Waiting
<1>13. PoolInv(P1, Waiting \ {v}, holder) /\ (~Background(t) => P1.userQueued < WriterQueueCapacity)
  <2>1. WriterQueueCapacity \in Nat /\ pool.userQueued \in Nat
    BY <1>6, PoolFields, BoundsAssumption DEF PoolInv, PoolOK
  <2>2. CASE v = NoTicket
    <3>1. P1 = pool /\ Waiting \ {v} = Waiting
      BY <1>3, <2>2, TicketFields DEF Waiting
    <3>2. ~full
      BY <1>5, <2>2
    <3> QED BY <1>1, <1>6, <2>1, <3>1, <3>2
  <2>3. CASE v # NoTicket
    <3>1. PICK served \in BOOLEAN : served = FALSE
      OBVIOUS
    <3>2. PICK P0, W, h : P0 = pool /\ W = Waiting /\ h = holder
      OBVIOUS
    <3>3. P1 = Depart(P0, v, served) /\ PoolInv(P0, W, h) /\ v \in W /\ served \in BOOLEAN
      BY <1>3, <1>6, <1>9, <2>3, <3>1, <3>2
    <3>4. PoolInv(P1, W \ {v}, h) /\ (~Background(v) => P1.userQueued = P0.userQueued - 1)
      BY ONLY <3>3, DepartInv
    <3>5. ~Background(v)
      BY <1>8, <2>3 DEF VictimOf
    <3>6. pool.userQueued <= WriterQueueCapacity
      <4>1. Cardinality(Admitted(P0)) \in Nat
        BY <3>3, AdmittedFinite DEF PoolInv
      <4>2. P0.userQueued + Cardinality(Admitted(P0)) <= WriterQueueCapacity
        BY <3>3 DEF PoolInv, Bounded
      <4> QED BY <2>1, <3>2, <4>1, <4>2
    <3> QED BY <2>1, <3>2, <3>4, <3>5, <3>6
  <2> QED BY <2>2, <2>3
<1>14. PoolInv(P, Waiting', holder)
  <2>1. PICK W, h : W = Waiting \ {v} /\ h = holder
    OBVIOUS
  <2>2. PoolInv(P1, W, h) /\ t \notin W /\ t \in Ticket
        /\ (~Background(t) => P1.userQueued < WriterQueueCapacity)
    BY <1>7, <1>13, <2>1
  <2>3. PoolInv(Arrival(P1, t), W \cup {t}, h)
    BY ONLY <2>2, ArrivalIs
  <2> QED BY <1>4, <1>12, <2>1, <2>3
<1>15. Arrived(t, v)
  BY <1>5, <1>8, <1>10, <1>11, <1>12 DEF Arrived
<1> QED BY <1>5, <1>14, <1>15

LEMMA AcquireInv ==
    ASSUME GateInv, NEW t \in Ticket, Acquire(t)
    PROVE  GateInv'
<1>1. PICK v, P : /\ Arrived(t, v) /\ PoolInv(P, Waiting', holder)
                  /\ Settle(AdmitBackground(P, holder, recovery), holder, recovery)
  BY AcquireIs
<1>2. /\ call[t] \in {"idle", "refused"} /\ call' \in [Callers -> CallStates]
      /\ call'[t] = "waiting"
      /\ \A u \in Callers : u # t /\ u # v => call'[u] = call[u]
      /\ v # NoTicket => call'[v] = "refused" /\ v \in Waiting /\ v \in Ticket
      /\ active' = active /\ holder' = holder /\ generation' = generation
      /\ recovery' = recovery /\ turn' = turn /\ blocked' = blocked /\ probed' = probed
      /\ aged' \subseteq aged
  BY <1>1 DEF Arrived, VictimOf
<1>3. ControlTypes /\ HolderOK /\ RecoveryOK
  BY DEF GateInv
<1>4. PICK Q : Q = AdmitBackground(P, holder, recovery)
  OBVIOUS
<1>5. PoolInv(Q, Waiting', holder')
  <2>1. PICK W, h, r : W = Waiting' /\ h = holder /\ r = recovery
    OBVIOUS
  <2>2. PoolInv(P, W, h) /\ (h = NoTicket \/ h \in Callers)
    BY <1>1, <1>3, <2>1, HolderIs
  <2>3. PoolInv(AdmitBackground(P, h, r), W, h)
    BY ONLY <2>2, AdmissionInv
  <2> QED BY <1>2, <1>4, <2>1, <2>3
<1>6. /\ PoolInv(pool, Waiting, holder)' /\ GrantOK'
      /\ grant' \in Callers \cup {NoTicket} /\ announced' \in BOOLEAN
      /\ active' => grant' = NoTicket
  <2>1. /\ Settle(Q, holder', recovery') /\ (holder' = NoTicket \/ holder' \in Callers)
        /\ recovery' \in RecoveryRecord /\ blocked' = blocked /\ (active' <=> holder' # NoTicket)
        /\ (holder' # NoTicket => grant = NoTicket)
    BY <1>1, <1>2, <1>3, <1>4, HolderIs
  <2> QED BY ONLY <1>5, <2>1, Settled
<1>7. ControlTypes'
  BY <1>2, <1>3, <1>6 DEF ControlTypes
<1>8. HolderOK'
  <2>1. \A u \in Callers : call'[u] = "holding" <=> call[u] = "holding"
    <3>1. ASSUME NEW u \in Callers
          PROVE  call'[u] = "holding" <=> call[u] = "holding"
      <4>1. CASE u = t
        BY <1>2, <4>1
      <4>2. CASE u = v
        BY <1>2, <4>2, CallersAre DEF Waiting
      <4>3. CASE u # t /\ u # v
        BY <1>2, <4>3
      <4> QED BY <4>1, <4>2, <4>3
    <3> QED BY <3>1
  <2> QED BY <1>2, <1>3, <1>6, <2>1 DEF HolderOK
<1>9. RecoveryOK'
  <2>1. call'[RecoveryTurn] = call[RecoveryTurn]
    BY <1>2, CallersAre
  <2> QED BY <1>2, <1>3, <2>1 DEF RecoveryOK
<1> QED BY <1>6, <1>7, <1>8, <1>9 DEF GateInv

\* What the WAL ledger and time do.
LEMMA LedgerInv ==
    ASSUME GateInv, Age \/ LedgerMoves \/ Probe
    PROVE  GateInv'
<1>1. /\ pool' = pool /\ active' = active /\ holder' = holder /\ grant' = grant
      /\ announced' = announced /\ generation' = generation /\ recovery' = recovery
      /\ turn' = turn /\ call' = call
  BY DEF Age, LedgerMoves, Probe, gateVars, ownerVars, walVars
<1>2. Waiting' = Waiting
  BY <1>1 DEF Waiting
<1>3. aged' \in SUBSET Ticket /\ blocked' \in SUBSET Ticket /\ probed' \in BOOLEAN
  <2>1. aged \in SUBSET Ticket /\ blocked \in SUBSET Ticket /\ probed \in BOOLEAN
    BY DEF GateInv, ControlTypes
  <2>2. CASE Age
    <3>1. PICK young : /\ young = {t \in Ticket \ aged : call[t] = "waiting" /\ t.class = Maintenance}
                       /\ young # {} /\ aged' = aged \cup {Oldest(pool, young)}
      BY <2>2 DEF Age
    <3>2. ToSet(pool.order) = Waiting /\ pool.order \in Seq(Ticket)
      BY PoolFields DEF GateInv, PoolInv, PoolOK
    <3>3. young \subseteq Waiting /\ young \subseteq Ticket
      BY <3>1 DEF Waiting
    <3>4. Oldest(pool, young) \in young
      BY <3>1, <3>2, <3>3, OldestIs
    <3>5. blocked' = blocked /\ probed' = probed
      BY <2>2 DEF Age, walVars
    <3> QED BY <2>1, <3>1, <3>3, <3>4, <3>5
  <2>3. CASE LedgerMoves \/ Probe
    BY <2>1, <2>3 DEF LedgerMoves, Probe, Reserving
  <2> QED BY <2>2, <2>3
<1>4. ControlTypes'
  BY <1>1, <1>3 DEF GateInv, ControlTypes
<1>5. PoolInv(pool, Waiting, holder)'
  BY <1>1, <1>2 DEF GateInv
<1>6. HolderOK'
  BY <1>1 DEF GateInv, HolderOK
<1>7. RecoveryOK'
  BY <1>1 DEF GateInv, RecoveryOK
<1>8. GrantOK'
  <2>1. grant' # NoTicket => announced' /\ LegalFor(pool', Waiting', recovery', grant')
    BY <1>1, <1>2 DEF GateInv, GrantOK
  <2>2. CASE Age
    <3>1. blocked' = blocked /\ probed' = probed
      BY <2>2 DEF Age, walVars
    <3> QED BY <1>1, <1>2, <2>1, <3>1 DEF GateInv, GrantOK, NobodyFor
  <2>3. CASE LedgerMoves \/ Probe
    <3>1. active' \/ probed'
      BY <1>1, <2>3 DEF LedgerMoves, Probe
    <3> QED BY <2>1, <3>1 DEF GrantOK
  <2> QED BY <2>2, <2>3
<1> QED BY <1>4, <1>5, <1>6, <1>7, <1>8 DEF GateInv


\* The checkpoint owner's side.
LEMMA EnterPressureHoldInv ==
    ASSUME GateInv, EnterPressureHold
    PROVE  GateInv'
<1>1. PICK r : r = [NoRecovery EXCEPT !.phase = "hold"]
  OBVIOUS
<1>2. PICK kept : kept = IF grant # NoTicket /\ grant.class = SecurityFence THEN grant ELSE NoTicket
  OBVIOUS
<1>3. /\ recovery.phase = "none" /\ recovery' = r
      /\ ~active /\ kept = NoTicket => grant' = PickWinner(pool, NoTicket, r) /\ announced'
      /\ ~(~active /\ kept = NoTicket) => grant' = kept /\ announced' = announced
      /\ announced' \in BOOLEAN
      /\ pool' = pool /\ active' = active /\ holder' = holder /\ generation' = generation
      /\ turn' = turn /\ call' = call /\ aged' = aged /\ blocked' = blocked /\ probed' = probed
  BY <1>1, <1>2 DEF EnterPressureHold, walVars, GateInv, ControlTypes
<1>4. r \in RecoveryRecord /\ r.phase = "hold" /\ r.security = 0 /\ r.ticket = NoTicket
  BY <1>1 DEF NoRecovery, RecoveryRecord
<1>5. /\ ControlTypes /\ HolderOK /\ RecoveryOK /\ GrantOK /\ PoolInv(pool, Waiting, holder)
      /\ Waiting' = Waiting /\ RecoverySecurityReserve \in Nat \ {0}
  BY <1>3, BoundsAssumption DEF GateInv, Waiting
<1>6. turn = "unread" /\ call[RecoveryTurn] # "waiting" /\ call[RecoveryTurn] # "holding"
  BY <1>3, <1>5 DEF RecoveryOK, ControlTypes
<1>7. RecoveryOK'
  BY <1>3, <1>4, <1>5, <1>6, CallersAre DEF RecoveryOK
<1>8. PoolInv(pool, Waiting, holder)'
  BY <1>3, <1>5
<1>9. CASE active
  <2>1. grant' = NoTicket
    BY <1>2, <1>3, <1>5, <1>9 DEF HolderOK
  <2>2. ControlTypes'
    BY <1>3, <1>4, <1>5, <2>1 DEF ControlTypes
  <2>3. HolderOK'
    BY <1>3, <1>5, <2>1 DEF HolderOK
  <2>4. GrantOK'
    BY <1>3, <1>9, <2>1 DEF GrantOK
  <2> QED BY <1>7, <1>8, <2>2, <2>3, <2>4 DEF GateInv
<1>10. CASE ~active /\ kept = NoTicket
  <2>1. grant' = PickWinner(pool, NoTicket, r) /\ announced'
    BY <1>3, <1>10
  <2>2. PICK P, W : P = pool /\ W = Waiting
    OBVIOUS
  <2>3. Fine(P, W, NoTicket) /\ r \in RecoveryRecord
    BY <1>4, <1>5, <1>10, <2>2 DEF HolderOK, PoolInv, Fine
  <2>4. Picked(AdmitBackground(P, NoTicket, r), W, r, PickWinner(P, NoTicket, r))
    BY ONLY <2>3, PickIs
  <2>5. AdmitBackground(P, NoTicket, r) = P
    BY <1>4 DEF AdmitBackground
  <2>6. Picked(P, W, r, grant')
    BY <2>1, <2>2, <2>4, <2>5
  <2>7. ControlTypes'
    BY <1>3, <1>4, <1>5, <2>6 DEF ControlTypes, Picked
  <2>8. HolderOK'
    BY <1>3, <1>5, <1>10 DEF HolderOK
  <2>9. grant' # NoTicket => announced' /\ LegalFor(pool', Waiting', recovery', grant')
    BY <1>3, <1>5, <2>1, <2>2, <2>6 DEF Picked
  <2>10. grant' = NoTicket => NobodyFor(Waiting, recovery)'
    BY <1>3, <1>5, <2>2, <2>6 DEF Picked, NobodyFor
  <2>11. GrantOK'
    BY <2>9, <2>10 DEF GrantOK
  <2> QED BY <1>7, <1>8, <2>7, <2>8, <2>11 DEF GateInv
<1>11. CASE ~active /\ kept # NoTicket
  <2>1. grant' = grant /\ grant # NoTicket /\ grant.class = SecurityFence /\ announced' = announced
    BY <1>2, <1>3, <1>11
  <2>2. ControlTypes'
    BY <1>3, <1>4, <1>5, <2>1 DEF ControlTypes
  <2>3. HolderOK'
    BY <1>3, <1>5, <2>1 DEF HolderOK
  <2>4. announced /\ LegalFor(pool, Waiting, recovery, grant)
    BY <1>5, <2>1 DEF GrantOK
  <2>5. 0 < RecoverySecurityReserve
    BY <1>5
  <2>6. LegalFor(pool', Waiting', recovery', grant')
    BY <1>3, <1>4, <1>5, <2>1, <2>4, <2>5 DEF LegalFor
  <2>7. GrantOK'
    BY <2>1, <2>4, <2>6 DEF GrantOK
  <2> QED BY <1>7, <1>8, <2>2, <2>3, <2>7 DEF GateInv
<1> QED BY <1>9, <1>10, <1>11

LEMMA EnterBeginPauseInv ==
    ASSUME GateInv, EnterBeginPause
    PROVE  GateInv'
<1>1. /\ recovery.phase = "hold" /\ recovery' = [recovery EXCEPT !.phase = "pause"]
      /\ grant' = (IF grant = RecoveryTurn THEN grant ELSE NoTicket)
      /\ announced' = announced
      /\ pool' = pool /\ active' = active /\ holder' = holder /\ generation' = generation
      /\ turn' = turn /\ call' = call /\ aged' = aged /\ blocked' = blocked /\ probed' = probed
  BY DEF EnterBeginPause, walVars
<1>2. /\ ControlTypes /\ HolderOK /\ RecoveryOK /\ GrantOK /\ PoolInv(pool, Waiting, holder)
      /\ Waiting' = Waiting /\ recovery \in RecoveryRecord
  BY <1>1 DEF GateInv, Waiting, ControlTypes
<1>3. /\ recovery' \in RecoveryRecord /\ recovery'.phase = "pause"
      /\ recovery'.security = recovery.security /\ recovery'.ticket = recovery.ticket
  BY <1>1, <1>2 DEF RecoveryRecord
<1>4. turn = "unread" /\ recovery.ticket = NoTicket
  BY <1>1, <1>2, CallersAre DEF RecoveryOK, RecoveryRecord, ControlTypes
<1>5. grant' = NoTicket
  <2>1. ASSUME grant = RecoveryTurn PROVE FALSE
    <3>1. LegalFor(pool, Waiting, recovery, grant)
      BY <1>2, <2>1, CallersAre DEF GrantOK
    <3> QED BY <1>1, <2>1, <3>1, CallersAre DEF LegalFor, Waiting
  <2> QED BY <1>1, <2>1
<1>6. ControlTypes'
  BY <1>1, <1>2, <1>3, <1>5 DEF ControlTypes
<1>7. HolderOK'
  BY <1>1, <1>2, <1>5 DEF HolderOK
<1>8. RecoveryOK'
  BY <1>1, <1>2, <1>3, <1>4 DEF RecoveryOK
<1>9. GrantOK'
  BY <1>3, <1>4, <1>5 DEF GrantOK, NobodyFor
<1>10. PoolInv(pool, Waiting, holder)'
  BY <1>1, <1>2
<1> QED BY <1>6, <1>7, <1>8, <1>9, <1>10 DEF GateInv

LEMMA CopyFenceInv ==
    ASSUME GateInv, CheckpointCopyFence
    PROVE  GateInv'
<1>1. /\ recovery.phase = "pause" /\ turn = "unread" /\ ~active
      /\ turn' = "fenced" /\ generation' = 0
      /\ recovery' = recovery /\ grant' = grant /\ announced' = announced
      /\ pool' = pool /\ active' = active /\ holder' = holder
      /\ call' = call /\ aged' = aged /\ blocked' = blocked /\ probed' = probed
  BY DEF CheckpointCopyFence, walVars, gateVars
<1>2. Waiting' = Waiting
  BY <1>1 DEF Waiting
<1>3. ControlTypes'
  BY <1>1 DEF GateInv, ControlTypes
<1>4. HolderOK'
  BY <1>1 DEF GateInv, HolderOK
<1>5. RecoveryOK'
  BY <1>1 DEF GateInv, RecoveryOK
<1>6. GrantOK'
  BY <1>1, <1>2 DEF GateInv, GrantOK, NobodyFor
<1>7. PoolInv(pool, Waiting, holder)'
  BY <1>1, <1>2 DEF GateInv
<1> QED BY <1>3, <1>4, <1>5, <1>6, <1>7 DEF GateInv

LEMMA RecoveryTurnInv ==
    ASSUME GateInv, AcquireRecoveryTurn
    PROVE  GateInv'
<1>1. /\ recovery.phase = "pause" /\ recovery.ticket = NoTicket /\ turn = "fenced"
      /\ turn' = "asked" /\ recovery' = [recovery EXCEPT !.ticket = RecoveryTurn]
      /\ call' = [call EXCEPT ![RecoveryTurn] = "waiting"] /\ "waiting" \in CallStates
      /\ ~active /\ grant = NoTicket => grant' = RecoveryTurn /\ announced' = TRUE
      /\ pool' = pool /\ active' = active /\ holder' = holder /\ generation' = generation
      /\ aged' = aged /\ blocked' = blocked /\ probed' = probed
  BY DEF AcquireRecoveryTurn, walVars, CallStates
<1>2. /\ ControlTypes /\ HolderOK /\ RecoveryOK /\ GrantOK /\ PoolInv(pool, Waiting, holder)
      /\ recovery \in RecoveryRecord /\ call \in [Callers -> CallStates]
      /\ RecoveryTurn \in Callers
  BY CallersAre DEF GateInv, ControlTypes
<1>3. /\ call' \in [Callers -> CallStates] /\ call'[RecoveryTurn] = "waiting"
      /\ \A u \in Callers : u # RecoveryTurn => call'[u] = call[u]
  BY <1>1, <1>2, CallMoves
<1>4. Waiting' = Waiting
  BY <1>3, TurnMoves
<1>5. /\ recovery' \in RecoveryRecord /\ recovery'.phase = "pause"
      /\ recovery'.security = recovery.security /\ recovery'.ticket = RecoveryTurn
  BY <1>1, <1>2 DEF RecoveryRecord
<1>6. ~active /\ generation = 0 /\ grant = NoTicket
  BY <1>1, <1>2 DEF RecoveryOK, GrantOK, LegalFor
<1>7. grant' = RecoveryTurn /\ announced' = TRUE
  BY <1>1, <1>6
<1>8. ControlTypes'
  BY <1>1, <1>2, <1>3, <1>5, <1>7 DEF ControlTypes
<1>9. HolderOK'
  BY <1>1, <1>2, <1>3, <1>6, CallersAre DEF HolderOK
<1>10. RecoveryOK'
  BY <1>1, <1>2, <1>3, <1>5, <1>6 DEF RecoveryOK
<1>11. GrantOK'
  <2>1. LegalFor(pool', Waiting', recovery', grant')
    BY <1>5, <1>7 DEF LegalFor
  <2> QED BY <1>7, <2>1, CallersAre DEF GrantOK
<1>12. PoolInv(pool, Waiting, holder)'
  BY <1>1, <1>2, <1>4
<1> QED BY <1>8, <1>9, <1>10, <1>11, <1>12 DEF GateInv

\* The gate starts empty.
LEMMA EmptyPoolIs == PoolInv(EmptyPool, {}, NoTicket)
<1>1. EmptyQueue \in QueueRecord /\ EmptyQueue.rotation = <<>> /\ \A o \in Owner : EmptyQueue.tickets[o] = <<>>
  BY DEF EmptyQueue, QueueRecord
<1>2. PICK P : P = EmptyPool
  OBVIOUS
<1>3. /\ P.order = <<>> /\ P.userQueued = 0
      /\ \A c \in Class : P.queues[c] = EmptyQueue /\ P.deferred[c] = EmptyQueue
      /\ \A o \in Owner \ {NoOwner} : P.ownerQueued[o] = 0
  BY <1>2 DEF EmptyPool
<1>4. P \in PoolRecord
  <2>1. [c \in Class |-> EmptyQueue] \in [Class -> QueueRecord]
    BY <1>1
  <2>2. [o \in Owner \ {NoOwner} |-> 0] \in [Owner \ {NoOwner} -> Nat] /\ <<>> \in Seq(Ticket)
    OBVIOUS
  <2> QED BY <1>2, <2>1, <2>2 DEF EmptyPool, PoolRecord
<1>5. IsInjective(<<>>) /\ ToSet(<<>>) = {}
  BY DEF IsInjective, ToSet
<1>6. \A c \in Class : RotationOK(P.queues[c]) /\ RotationOK(P.deferred[c])
  BY <1>1, <1>3, <1>5 DEF RotationOK
<1>7. \A order : Sorted(order, <<>>)
  BY DEF Sorted
<1>8. LinesOK(P, {})
  BY <1>1, <1>3, <1>5, <1>7 DEF LinesOK, LineOK
<1>9. IsFiniteSet({}) /\ Cardinality({}) = 0
  BY FS_EmptySet
<1>10. Users({}) = {} /\ \A o : UsersOf({}, o) = {}
  BY DEF Users, UsersOf
<1>11. CountsOK(P, {})
  BY <1>3, <1>9, <1>10 DEF CountsOK
<1>12. PoolOK(P, {})
  BY <1>3, <1>4, <1>5, <1>6, <1>8, <1>9, <1>11 DEF PoolOK
<1>13. Admitted(P) = {}
  <2>1. Admitted(P) \subseteq {}
    BY <1>12, AdmittedFinite
  <2> QED BY <2>1
<1>14. Bounded(P)
  BY <1>3, <1>9, <1>13, BoundsAssumption DEF Bounded
<1>15. Limited(P, NoTicket)
  <2>1. \A c \in BackgroundClass, o \in Owner : P.queues[c].tickets[o] = <<>>
    BY <1>1, <1>3, ClassKinds
  <2>2. \A c, o : Held(NoTicket, c, o) = 0
    BY TicketAssumption DEF Held
  <2> QED BY <2>1, <2>2 DEF Limited, BackgroundTicketLimit
<1> QED BY <1>2, <1>3, <1>5, <1>12, <1>14, <1>15 DEF PoolInv

LEMMA GateInit == Init => GateInv
<1>1. SUFFICES ASSUME Init PROVE GateInv
  OBVIOUS
<1>2. PICK mix \in Mixes : call = [t \in Callers |-> IF t \in mix THEN "idle" ELSE "never"]
  BY <1>1 DEF Init, Callers
<1>3. /\ call \in [Callers -> CallStates]
      /\ \A t \in Callers : call[t] # "waiting" /\ call[t] # "holding"
  BY <1>2 DEF CallStates
<1>4. Waiting = {}
  BY <1>3, CallersAre DEF Waiting
<1>5. NoRecovery \in RecoveryRecord /\ NoRecovery.phase = "none" /\ NoRecovery.security = 0
      /\ NoRecovery.ticket = NoTicket
  BY DEF NoRecovery, RecoveryRecord
<1>6. /\ pool = EmptyPool /\ active = FALSE /\ holder = NoTicket /\ grant = NoTicket
      /\ announced = TRUE /\ recovery = NoRecovery /\ turn = "unread" /\ generation = 0
      /\ aged = {} /\ blocked = {} /\ probed = FALSE
  BY <1>1 DEF Init
<1>7. ControlTypes
  <2>1. active \in BOOLEAN /\ probed \in BOOLEAN /\ announced \in BOOLEAN
    BY <1>6
  <2>2. turn \in {"unread", "fenced", "asked"} /\ generation \in 0 .. 2
    BY <1>6
  <2>3. /\ holder \in Callers \cup {NoTicket} /\ grant \in Callers \cup {NoTicket}
        /\ recovery \in RecoveryRecord /\ aged \in SUBSET Ticket /\ blocked \in SUBSET Ticket
    BY <1>5, <1>6
  <2> QED BY <1>3, <2>1, <2>2, <2>3 DEF ControlTypes
<1>8. PoolInv(pool, Waiting, holder)
  BY <1>4, <1>6, EmptyPoolIs
<1>9. HolderOK
  BY <1>3, <1>6, CallersAre DEF HolderOK
<1>10. RecoveryOK
  BY <1>3, <1>5, <1>6, CallersAre, BoundsAssumption DEF RecoveryOK
<1>11. GrantOK
  BY <1>4, <1>5, <1>6 DEF GrantOK, NobodyFor
<1> QED BY <1>7, <1>8, <1>9, <1>10, <1>11 DEF GateInv

LEMMA GateNext ==
    ASSUME GateInv, [Next]_vars
    PROVE  GateInv'
<1>1. CASE UNCHANGED vars
  <2>1. /\ pool' = pool /\ active' = active /\ holder' = holder /\ grant' = grant
        /\ announced' = announced /\ generation' = generation /\ recovery' = recovery
        /\ turn' = turn /\ call' = call /\ aged' = aged /\ blocked' = blocked /\ probed' = probed
    BY <1>1 DEF vars, gateVars, ownerVars, walVars
  <2> QED BY <2>1 DEF GateInv, ControlTypes, HolderOK, RecoveryOK, GrantOK, NobodyFor, Waiting
<1>2. CASE \E t \in Ticket : Acquire(t) \/ RefuseArrival(t) \/ CapacityTimeout(t)
  BY <1>2, AcquireInv, RefuseArrivalInv, CapacityTimeoutInv
<1>3. CASE \E t \in Callers : Take(t) \/ Release(t) \/ Cancel(t)
  BY <1>3, TakeInv, ReleaseInv, CancelInv
<1>4. CASE Age \/ LedgerMoves \/ Probe
  BY <1>4, LedgerInv
<1>5. CASE WakeWALWaiters
  BY <1>5, WakeInv
<1>6. CASE EnterPressureHold \/ EnterBeginPause
  BY <1>6, EnterPressureHoldInv, EnterBeginPauseInv
<1>7. CASE CheckpointCopyFence \/ AcquireRecoveryTurn \/ EndRecovery
  BY <1>7, CopyFenceInv, RecoveryTurnInv, EndRecoveryInv
<1> QED BY <1>1, <1>2, <1>3, <1>4, <1>5, <1>6, <1>7 DEF Next, Callers

\* The invariant of the gate: the pool holds exactly the callers that wait, in
\* order and within its limits, one caller is inside, the recovery turn and the
\* generation fit the phase, and the grant is legal or rightly absent.
THEOREM GateInvariant == Spec => []GateInv
<1>1. Init => GateInv
  BY GateInit
<1>2. GateInv /\ [Next]_vars => GateInv'
  BY GateNext
<1> QED BY <1>1, <1>2, PTL DEF Spec


----------------------------------------------------------------------------
(* What the invariant gives. *)

\* l is a, then d: each place of l is one of theirs.
Joint(l, a, d) ==
    /\ ToSet(l) = ToSet(a) \cup ToSet(d)
    /\ DOMAIN l = 1 .. Len(a) + Len(d)
    /\ \A i \in DOMAIN l : \/ i \in DOMAIN a /\ l[i] = a[i]
                           \/ i - Len(a) \in DOMAIN d /\ l[i] = d[i - Len(a)] /\ i > Len(a)

LEMMA Joins ==
    ASSUME NEW S, NEW a \in Seq(S), NEW d \in Seq(S)
    PROVE  a \o d \in Seq(S) /\ Joint(a \o d, a, d)
<1>0. PICK l : l = a \o d
  OBVIOUS
<1>1. PICK m \in Nat, n \in Nat : m = Len(a) /\ n = Len(d)
  OBVIOUS
<1>2. DOMAIN a = 1 .. m /\ DOMAIN d = 1 .. n
  BY <1>1
<1>3. l \in Seq(S) /\ Len(l) = m + n
  BY <1>0, <1>1
<1>4. DOMAIN l = 1 .. m + n
  BY <1>3
<1>5. \A i \in 1 .. m + n : l[i] = IF i <= m THEN a[i] ELSE d[i - m]
  BY <1>0, <1>1
<1>6. ASSUME NEW i \in DOMAIN l
      PROVE  \/ i \in DOMAIN a /\ l[i] = a[i]
             \/ i - m \in DOMAIN d /\ l[i] = d[i - m] /\ i > m
  <2>1. CASE i <= m
    <3>1. i \in 1 .. m /\ l[i] = a[i]
      BY <1>4, <1>5, <2>1
    <3> QED BY <1>2, <3>1
  <2>2. CASE ~(i <= m)
    <3>1. i - m \in 1 .. n /\ l[i] = d[i - m] /\ i > m
      BY <1>4, <1>5, <2>2
    <3> QED BY <1>2, <3>1
  <2> QED BY <2>1, <2>2
<1>7. ToSet(l) \subseteq ToSet(a) \cup ToSet(d)
  BY <1>6 DEF ToSet
<1>8. ASSUME NEW x \in ToSet(a) PROVE x \in ToSet(l)
  <2>1. PICK i \in 1 .. m : x = a[i]
    BY <1>2, <1>8 DEF ToSet
  <2>2. i \in 1 .. m + n /\ l[i] = a[i]
    <3>1. i \in 1 .. m + n /\ i <= m
      BY <2>1
    <3> QED BY <1>5, <3>1
  <2> QED BY <1>4, <2>1, <2>2 DEF ToSet
<1>9. ASSUME NEW x \in ToSet(d) PROVE x \in ToSet(l)
  <2>1. PICK i \in 1 .. n : x = d[i]
    BY <1>2, <1>9 DEF ToSet
  <2>2. i + m \in 1 .. m + n /\ l[i + m] = d[i]
    <3>1. i + m \in 1 .. m + n /\ ~(i + m <= m) /\ (i + m) - m = i
      BY <2>1
    <3> QED BY <1>5, <3>1
  <2> QED BY <1>4, <2>1, <2>2 DEF ToSet
<1>10. Joint(l, a, d)
  BY <1>1, <1>4, <1>6, <1>7, <1>8, <1>9 DEF Joint
<1> QED BY <1>0, <1>3, <1>10

\* The whole line of one owner is in arrival order and holds its waiters once.
LEMMA WholeLine ==
    ASSUME NEW P, NEW W, PoolOK(P, W), NEW c \in Class, NEW o \in Owner,
           NEW l, l = Line(P, c, o)
    PROVE  /\ Sorted(P.order, l) /\ IsInjective(l)
           /\ ToSet(l) = {t \in W : t.class = c /\ t.owner = o}
<1>1. PICK a \in Seq(Ticket), d \in Seq(Ticket) :
         /\ a = P.queues[c].tickets[o] /\ d = P.deferred[c].tickets[o]
         /\ LineOK(P.order, W, c, o, a, d)
  BY LineIs, Zenon
<1>2. l = a \o d
  BY <1>1 DEF Line
<1>3. PICK m \in Nat, n \in Nat : m = Len(a) /\ n = Len(d)
  OBVIOUS
<1>4. /\ l \in Seq(Ticket) /\ ToSet(l) = ToSet(a) \cup ToSet(d) /\ DOMAIN l = 1 .. m + n
      /\ \A i \in DOMAIN l : \/ i \in DOMAIN a /\ l[i] = a[i]
                             \/ i - m \in DOMAIN d /\ l[i] = d[i - m] /\ i > m
  <2>1. a \in Seq(Ticket) /\ d \in Seq(Ticket)
    OBVIOUS
  <2>2. a \o d \in Seq(Ticket) /\ Joint(a \o d, a, d)
    BY ONLY <2>1, Joins
  <2>3. l \in Seq(Ticket) /\ Joint(l, a, d)
    BY <1>2, <2>2
  <2> QED BY <1>3, <2>3 DEF Joint
<1>5. /\ Sorted(P.order, a) /\ Sorted(P.order, d)
      /\ \A x \in ToSet(a), y \in ToSet(d) : Older(P.order, x, y)
      /\ ToSet(a) \cup ToSet(d) = {t \in W : t.class = c /\ t.owner = o}
  BY <1>1 DEF LineOK
<1>6. DOMAIN a = 1 .. m /\ DOMAIN d = 1 .. n
  BY <1>3
<1>7. ASSUME NEW i \in DOMAIN l, NEW j \in DOMAIN l, i < j
      PROVE  Older(P.order, l[i], l[j])
  <2>1. CASE i \in DOMAIN a /\ l[i] = a[i] /\ j \in DOMAIN a /\ l[j] = a[j]
    BY <1>5, <1>7, <2>1 DEF Sorted
  <2>2. CASE i \in DOMAIN a /\ l[i] = a[i] /\ j - m \in DOMAIN d /\ l[j] = d[j - m]
    <3>1. a[i] \in ToSet(a) /\ d[j - m] \in ToSet(d)
      BY <2>2 DEF ToSet
    <3> QED BY <1>5, <2>2, <3>1
  <2>3. CASE i - m \in DOMAIN d /\ l[i] = d[i - m] /\ j - m \in DOMAIN d /\ l[j] = d[j - m]
    <3>1. i - m < j - m
      BY <1>4, <1>7
    <3> QED BY <1>5, <2>3, <3>1 DEF Sorted
  <2>4. ~(i > m /\ j \in DOMAIN a)
    BY <1>4, <1>6, <1>7
  <2> QED BY <1>4, <2>1, <2>2, <2>3, <2>4
<1>8. Sorted(P.order, l)
  BY <1>7 DEF Sorted
<1>9. P.order \in Seq(Ticket) /\ IsInjective(P.order)
  BY PoolFields DEF PoolOK
<1>10. IsInjective(l)
  BY <1>4, <1>8, <1>9, SortedInjective
<1> QED BY <1>4, <1>5, <1>8, <1>10

\* A sequence has no more members than places.
LEMMA FewMembers ==
    ASSUME NEW S, NEW s \in Seq(S)
    PROVE  IsFiniteSet(ToSet(s)) /\ Cardinality(ToSet(s)) \in Nat /\ Cardinality(ToSet(s)) <= Len(s)
<1>1. PICK n \in Nat : n = Len(s)
  OBVIOUS
<1>2. PICK T : T = ToSet(s)
  OBVIOUS
<1>0. IsFiniteSet(1 .. n) /\ Cardinality(1 .. n) = n
  <2>1. n \in Nat /\ n \in Int /\ 1 \in Int
    OBVIOUS
  <2>2. IsFiniteSet(1 .. n) /\ Cardinality(1 .. n) = IF 1 > n THEN 0 ELSE n - 1 + 1
    BY ONLY <2>1, FS_Interval
  <2> QED BY <2>1, <2>2
<1>4. PICK D : D = 1 .. n /\ IsFiniteSet(D) /\ Cardinality(D) = n
  BY <1>0
<1>3. s \in Surjection(D, T)
  <2>1. DOMAIN s = 1 .. n /\ T = {s[i] : i \in DOMAIN s}
    BY <1>1, <1>2 DEF ToSet
  <2>2. s = [i \in 1 .. n |-> s[i]]
    BY <2>1
  <2>3. s \in [1 .. n -> T]
    BY <2>1, <2>2
  <2>4. \A t \in T : \E i \in 1 .. n : s[i] = t
    BY <2>1
  <2>5. s \in [D -> T] /\ \A t \in T : \E i \in D : s[i] = t
    BY <1>4, <2>3, <2>4
  <2> QED BY ONLY <2>5, Zenon DEF Surjection
<1>5. IsFiniteSet(T) /\ Cardinality(T) <= Cardinality(D)
  BY <1>3, <1>4, FS_Surjection
<1>6. Cardinality(T) \in Nat
  BY <1>5, FS_CardinalityType
<1> QED BY <1>1, <1>2, <1>4, <1>5, <1>6

LEMMA PlacesHold ==
    ASSUME GateInv
    PROVE  EveryWaiterHasOnePlace
<1>1. PICK P, W : P = pool /\ W = Waiting /\ PoolOK(P, W)
  BY DEF GateInv, PoolInv
<1>2. \A c \in Class, o \in Owner :
         /\ IsInjective(Line(P, c, o))
         /\ ToSet(Line(P, c, o)) = {t \in W : t.class = c /\ t.owner = o}
  BY <1>1, WholeLine
<1>3. \A q \in {P.queues[c] : c \in Class} \cup {P.deferred[c] : c \in Class} :
         /\ IsInjective(q.rotation)
         /\ ToSet(q.rotation) = {o \in Owner : q.tickets[o] # <<>>}
  <2>1. \A c \in Class : RotationOK(P.queues[c]) /\ RotationOK(P.deferred[c])
    BY <1>1 DEF PoolOK
  <2>2. \A q \in {P.queues[c] : c \in Class} \cup {P.deferred[c] : c \in Class} : RotationOK(q)
    BY <2>1
  <2> QED BY <2>2 DEF RotationOK
<1>4. ASSUME NEW c \in UserClass PROVE Tickets(P.deferred[c]) = {}
  <2>1. c \in Class
    BY ClassKinds
  <2>2. \A o \in Owner : P.deferred[c].tickets[o] = <<>>
    BY <1>1, <2>1 DEF PoolOK, LinesOK, LineOK
  <2>3. ToSet(<<>>) = {}
    BY DEF ToSet
  <2> QED BY <2>2, <2>3 DEF Tickets
<1> QED BY <1>1, <1>2, <1>3, <1>4 DEF EveryWaiterHasOnePlace

LEMMA CountersHold ==
    ASSUME GateInv
    PROVE  CountersAgree /\ PoolBounded
<1>1. PICK P, W : P = pool /\ W = Waiting /\ PoolOK(P, W) /\ Bounded(P)
  BY DEF GateInv, PoolInv
<1>2. PICK users : users = UNION {Tickets(P.queues[c]) : c \in UserClass}
  OBVIOUS
<1>3. ASSUME NEW t PROVE t \in users <=> t \in Users(W)
  <2>1. ASSUME t \in users PROVE t \in Users(W)
    <3>1. PICK c \in UserClass : t \in Tickets(P.queues[c])
      BY <1>2, <2>1
    <3>2. t \in W /\ t.class = c
      BY <1>1, <3>1, ClassKinds, PlaceOf
    <3> QED BY <1>1, <3>2, KindOf DEF Users, PoolOK
  <2>2. ASSUME t \in Users(W) PROVE t \in users
    <3>1. t \in W /\ t \in Ticket /\ t.class \in UserClass /\ t.class \in Class /\ t.owner \in Owner
      BY <1>1, <2>2, KindOf, TicketFields DEF Users, PoolOK
    <3>2. P.deferred[t.class].tickets[t.owner] = <<>>
      BY <1>1, <3>1, LineIs DEF LineOK
    <3>3. t \notin ToSet(P.deferred[t.class].tickets[t.owner])
      BY <3>2 DEF ToSet
    <3>4. t \in Tickets(P.queues[t.class])
      BY <1>1, <3>1, <3>3, PlaceOf
    <3> QED BY <1>2, <3>1, <3>4
  <2> QED BY <2>1, <2>2
<1>4. users = Users(W)
  BY <1>3
<1>5. \A o : {t \in users : t.owner = o} = UsersOf(W, o)
  BY <1>4 DEF Users, UsersOf
<1>6. CountersAgree
  <2>1. P.userQueued = Cardinality(users)
    BY <1>1, <1>4 DEF PoolOK, CountsOK
  <2>2. ASSUME NEW o \in Owner \ {NoOwner}
        PROVE  P.ownerQueued[o] = Cardinality({t \in users : t.owner = o})
    <3>1. P.ownerQueued[o] = Cardinality(UsersOf(W, o))
      BY <1>1 DEF PoolOK, CountsOK
    <3>2. {t \in users : t.owner = o} = UsersOf(W, o)
      BY <1>5
    <3> QED BY ONLY <3>1, <3>2
  <2>3. /\ pool.userQueued = Cardinality(UNION {Tickets(pool.queues[c]) : c \in UserClass})
        /\ \A o \in Owner \ {NoOwner} : pool.ownerQueued[o] =
              Cardinality({t \in UNION {Tickets(pool.queues[c]) : c \in UserClass} : t.owner = o})
    BY ONLY <1>1, <1>2, <2>1, <2>2
  <2> QED BY <2>3 DEF CountersAgree
<1>7. PoolBounded
  BY <1>1, AdmittedFinite DEF PoolBounded, Bounded
<1> QED BY <1>6, <1>7

LEMMA LimitHolds ==
    ASSUME GateInv
    PROVE  SupervisorLimit
<1>1. PICK P, W, h : P = pool /\ W = Waiting /\ h = holder /\ PoolOK(P, W) /\ Limited(P, h)
  BY DEF GateInv, PoolInv
<1>2. SUFFICES ASSUME NEW c \in BackgroundClass, NEW o \in Owner
               PROVE  Cardinality({t \in Ticket : /\ t.class = c /\ t.owner = o
                                                  /\ t = h \/ t \in Tickets(P.queues[c])})
                         <= BackgroundTicketLimit(c)
  BY <1>1 DEF SupervisorLimit
<1>3. PICK S : S = {t \in Ticket : t.class = c /\ t.owner = o /\ (t = h \/ t \in Tickets(P.queues[c]))}
  OBVIOUS
<1>4. c \in Class
  BY ClassKinds
<1>5. PICK a \in Seq(Ticket) : a = P.queues[c].tickets[o]
  BY <1>1, <1>4, LineIs
<1>6. PICK n \in Nat, k \in Nat, b \in Nat :
         n = Len(a) /\ k = Held(h, c, o) /\ b = BackgroundTicketLimit(c)
  BY DEF Held, BackgroundTicketLimit
<1>7. n + k <= b
  BY <1>1, <1>5, <1>6 DEF Limited
<1>8. IsFiniteSet(ToSet(a)) /\ Cardinality(ToSet(a)) \in Nat /\ Cardinality(ToSet(a)) <= n
  BY <1>6, FewMembers
<1>9. ASSUME NEW t \in S PROVE t = h \/ t \in ToSet(a)
  BY <1>1, <1>3, <1>4, <1>5, PlaceOf
<1>10. CASE h \in S
  <2>1. S \in SUBSET (ToSet(a) \cup {h})
    BY <1>9
  <2>2. k = 1
    BY <1>3, <1>6, <1>10 DEF Held
  <2>3. IsFiniteSet(ToSet(a) \cup {h}) /\ Cardinality(ToSet(a) \cup {h}) <= n + 1
        /\ Cardinality(ToSet(a) \cup {h}) \in Nat
    <3>1. PICK m \in Nat : m = Cardinality(ToSet(a)) /\ m <= n
      BY <1>8
    <3>2. /\ IsFiniteSet(ToSet(a) \cup {h})
          /\ Cardinality(ToSet(a) \cup {h}) = IF h \in ToSet(a) THEN m ELSE m + 1
      BY <1>8, <3>1, FS_AddElement
    <3>3. \/ Cardinality(ToSet(a) \cup {h}) = m
          \/ Cardinality(ToSet(a) \cup {h}) = m + 1
      BY <3>2
    <3> QED BY <1>6, <3>1, <3>2, <3>3
  <2>4. Cardinality(S) <= Cardinality(ToSet(a) \cup {h}) /\ IsFiniteSet(S)
    BY <2>1, <2>3, FS_Subset
  <2>5. Cardinality(S) \in Nat
    BY <2>4, FS_CardinalityType
  <2>6. Cardinality(S) <= b
    BY <1>7, <2>2, <2>3, <2>4, <2>5
  <2> QED BY <1>3, <1>6, <2>6
<1>11. CASE h \notin S
  <2>1. S \in SUBSET ToSet(a)
    BY <1>9, <1>11
  <2>2. Cardinality(S) <= Cardinality(ToSet(a)) /\ IsFiniteSet(S)
    BY <1>8, <2>1, FS_Subset
  <2>3. Cardinality(S) \in Nat
    BY <2>2, FS_CardinalityType
  <2>4. Cardinality(S) <= b
    BY <1>7, <1>8, <2>2, <2>3
  <2> QED BY <1>3, <1>6, <2>4
<1> QED BY <1>10, <1>11

LEMMA TypesHold ==
    ASSUME GateInv
    PROVE  TypeOK
<1>1. ControlTypes /\ pool \in PoolRecord
  BY DEF GateInv, PoolInv, PoolOK
<1> QED BY <1>1 DEF ControlTypes, TypeOK, PoolRecord, Callers

\* Every path through the gate keeps the pool sound: one place for each waiter and
\* none for anybody else, exact counters, a bounded pool, supervisors within limits.
THEOREM PoolStaysSound == Spec => []PoolSound
<1>1. GateInv => PoolSound
  BY PlacesHold, CountersHold, LimitHolds, TypesHold DEF PoolSound
<1> QED BY <1>1, GateInvariant, PTL

\* One owner is served in the order it asked in, whatever was lent in between.
THEOREM OwnersKeepOrder == Spec => []OwnerFIFO
<1>1. ASSUME GateInv PROVE OwnerFIFO
  <2>1. PICK P, W : P = pool /\ W = Waiting /\ PoolOK(P, W)
    BY <1>1 DEF GateInv, PoolInv
  <2>2. \A c \in Class, o \in Owner : Sorted(P.order, Line(P, c, o))
    BY <2>1, WholeLine
  <2> QED BY <2>1, <2>2 DEF OwnerFIFO, Sorted
<1> QED BY <1>1, GateInvariant, PTL

\* SQLite's single writer: at most one caller is inside, active says so, and no
\* grant is pending meanwhile.
THEOREM OneWriterInside == Spec => []OneWriter
<1>1. ASSUME GateInv PROVE OneWriter
  <2>1. /\ HolderOK /\ DOMAIN call = Callers
        /\ holder = NoTicket \/ holder \in Callers
    BY <1>1, HolderIs DEF GateInv
  <2>2. \A t \in Callers : call[t] = "holding" <=> holder = t
    BY <2>1 DEF HolderOK
  <2>3. (active <=> holder # NoTicket) /\ (active => grant = NoTicket)
    BY <2>1 DEF HolderOK
  <2>4. NoTicket \notin Callers
    BY TicketAssumption DEF Callers
  <2>5. \A t, u \in DOMAIN call : call[t] = "holding" /\ call[u] = "holding" => t = u
    BY <2>1, <2>2
  <2>6. (holder # NoTicket) <=> \E t \in DOMAIN call : call[t] = "holding"
    BY <2>1, <2>2, <2>4
  <2> QED BY <2>3, <2>5, <2>6 DEF OneWriter
<1> QED BY <1>1, GateInvariant, PTL

\* A grant that was decided in an earlier step is still legal when it is used,
\* holds let no more fences begin than their reserve, and the reserved turn is
\* the first acquisition after the copy fence.
THEOREM GrantsAreSound == Spec => []GrantSound
<1>1. ASSUME GateInv PROVE GrantSound
  <2>1. /\ ControlTypes /\ HolderOK /\ RecoveryOK /\ GrantOK
    BY <1>1 DEF GateInv
  <2>2. SecurityReserve /\ ReservedTurnIsNext
    BY <2>1 DEF RecoveryOK, SecurityReserve, ReservedTurnIsNext
  <2>3. ASSUME grant # NoTicket
        PROVE  /\ call[grant] = "waiting"
               /\ recovery.phase = "pause" => grant = RecoveryTurn
               /\ grant = RecoveryTurn => recovery.phase = "pause"
               /\ grant \in Ticket =>
                    /\ grant \in Tickets(pool.queues[grant.class])
                    /\ Background(grant) => pool.userQueued = 0
                    /\ recovery.phase = "hold" => grant.class = SecurityFence
    <3>1. LegalFor(pool, Waiting, recovery, grant)
      BY <2>1, <2>3 DEF GrantOK
    <3>2. CASE recovery.phase = "pause"
      <4>1. grant = RecoveryTurn /\ recovery.ticket = RecoveryTurn
        BY <2>1, <2>3, <3>1, <3>2 DEF LegalFor, ControlTypes, RecoveryRecord
      <4> QED BY <2>1, <3>2, <4>1, CallersAre DEF RecoveryOK
    <3>3. CASE recovery.phase # "pause"
      BY <3>1, <3>3, CallersAre DEF LegalFor, Waiting
    <3> QED BY <3>2, <3>3
  <2>4. GrantIsLegal
    BY <2>3 DEF GrantIsLegal
  <2> QED BY <2>2, <2>4 DEF GrantSound
<1> QED BY <1>1, GateInvariant, PTL

\* A free gate is granted whenever somebody may have it, and the grant was announced.
THEOREM GrantsReachWaiters == Spec => []GrantReachesWaiter
<1>1. ASSUME GateInv PROVE GrantReachesWaiter
  BY <1>1 DEF GateInv, GrantOK, NobodyFor, GrantReachesWaiter, NoLostGrant, GrantAnnounced
<1> QED BY <1>1, GateInvariant, PTL


----------------------------------------------------------------------------
(* Refusals. *)

\* Only an arrival in a full pool takes a waiter's place, other than the timer.
LEMMA RefusedBy ==
    ASSUME GateInv, Next, NEW v \in Ticket,
           call[v] = "waiting", call'[v] = "refused", v \notin blocked
    PROVE  \E t \in Ticket : Arrived(t, v)
<1>1. /\ call \in [Callers -> CallStates] /\ v \in Callers /\ v # RecoveryTurn
      /\ {"waiting", "refused", "idle", "holding"} \subseteq CallStates
  BY CallersAre DEF GateInv, ControlTypes, CallStates
<1>2. CASE \E t \in Ticket : Acquire(t)
  <2>1. PICK t \in Ticket : Acquire(t)
    BY <1>2
  <2>2. PICK w : Arrived(t, w)
    BY <2>1, AcquireIs
  <2>3. v = w
    <3>1. call'[t] = "waiting" /\ \A u \in Callers : u # t /\ u # w => call'[u] = call[u]
      BY <2>2 DEF Arrived
    <3> QED BY <1>1, <3>1
  <2> QED BY <2>2, <2>3
<1>3. ASSUME NEW t \in Callers, NEW s \in CallStates, call' = [call EXCEPT ![t] = s]
      PROVE  t = v /\ s = "refused"
  BY <1>1, <1>3
<1>4. ASSUME NEW t \in Ticket, RefuseArrival(t) \/ CapacityTimeout(t) PROVE FALSE
  <2>1. t \in Callers /\ call' = [call EXCEPT ![t] = "refused"]
    BY <1>4, CallersAre DEF RefuseArrival, CapacityTimeout
  <2>2. t = v
    BY <1>1, <1>3, <2>1
  <2> QED BY <1>4, <2>2 DEF RefuseArrival, Answered, CapacityTimeout
<1>5. ASSUME NEW t \in Callers, Take(t) \/ Release(t) \/ Cancel(t) PROVE FALSE
  <2>1. call' = [call EXCEPT ![t] = "holding"] \/ call' = [call EXCEPT ![t] = "idle"]
    BY <1>5 DEF Take, Release, Cancel
  <2> QED BY <1>1, <1>3, <2>1
<1>6. ASSUME Age \/ LedgerMoves \/ Probe \/ WakeWALWaiters \/ EnterPressureHold
             \/ EnterBeginPause \/ CheckpointCopyFence
      PROVE  FALSE
  <2>1. call' = call
    BY <1>6 DEF Age, LedgerMoves, Probe, WakeWALWaiters, EnterPressureHold, EnterBeginPause,
                CheckpointCopyFence
  <2> QED BY <2>1
<1>7. ASSUME AcquireRecoveryTurn \/ EndRecovery PROVE FALSE
  <2>1. RecoveryTurn \in Callers
        /\ (call' = [call EXCEPT ![RecoveryTurn] = "waiting"]
            \/ call' = [call EXCEPT ![RecoveryTurn] = "idle"])
    BY <1>7, CallersAre DEF AcquireRecoveryTurn, EndRecovery
  <2> QED BY <1>1, <1>3, <2>1
<1> QED BY <1>2, <1>4, <1>5, <1>6, <1>7 DEF Next, Callers

\* What the owner of a refused caller keeps.
LEMMA ShareKept ==
    ASSUME GateInv, GateInv', NEW t \in Ticket, NEW v \in Ticket, Arrived(t, v),
           v \in Waiting, ~Background(v), v.owner # NoOwner, v.owner # t.owner,
           pool.ownerQueued[v.owner] > OwnerQueueShare
    PROVE  pool'.ownerQueued[v.owner] >= OwnerQueueShare
<1>1. PICK W, o : W = Waiting /\ o = v.owner
  OBVIOUS
<1>2. Waiting' = (W \ {v}) \cup {t}
  BY <1>1 DEF Arrived
<1>3. /\ W \in SUBSET Ticket /\ IsFiniteSet(W) /\ IsFiniteSet(W \ {v}) /\ W \ {v} \in SUBSET Ticket
      /\ CountsOK(pool, W)
  BY <1>1, FS_Subset DEF GateInv, PoolInv, PoolOK
<1>4. CountsOK(pool', Waiting')
  BY DEF GateInv, PoolInv, PoolOK
<1>5. o \in Owner \ {NoOwner} /\ o # t.owner /\ v \in W /\ ~Background(v)
  BY <1>1, TicketFields
<1>6. pool.ownerQueued[o] = Cardinality(UsersOf(W, o))
  BY <1>3, <1>5 DEF CountsOK
<1>7. pool'.ownerQueued[o] = Cardinality(UsersOf((W \ {v}) \cup {t}, o))
  BY <1>2, <1>4, <1>5 DEF CountsOK
<1>8. UsersOf((W \ {v}) \cup {t}, o) = UsersOf(W \ {v}, o)
  BY <1>5 DEF UsersOf
<1>9. Cardinality(UsersOf(W, o)) \in Nat
      /\ Cardinality(UsersOf(W \ {v}, o)) = Cardinality(UsersOf(W, o)) - 1
  BY <1>1, <1>3, <1>5, FewUsers
<1>10. PICK n \in Nat : n = Cardinality(UsersOf(W, o))
  BY <1>9
<1>11. pool'.ownerQueued[o] = n - 1 /\ pool.ownerQueued[o] = n
  BY <1>6, <1>7, <1>8, <1>9, <1>10
<1>12. n > OwnerQueueShare /\ OwnerQueueShare \in Nat
  BY <1>1, <1>11, BoundsAssumption
<1> QED BY <1>1, <1>11, <1>12

\* A waiter loses its place only to an arrival that is allowed to take it.
THEOREM RefusalsStayFair == Spec => RefusalsAreFair
<1> DEFINE Fair(v) ==
       /\ ~Background(v)
       /\ pool.userQueued >= WriterQueueCapacity
       /\ v # grant
       /\ \E a \in Ticket :
             /\ Answered(a) /\ call'[a] = "waiting"
             /\ a.class <= v.class
             /\ a.class < v.class \/ (v.owner # NoOwner /\ v.owner # a.owner
                                      /\ pool'.ownerQueued[v.owner] >= OwnerQueueShare)
<1>1. ASSUME GateInv, GateInv', Next, NEW v \in Ticket,
             call[v] = "waiting", call'[v] = "refused", v \notin blocked
      PROVE  Fair(v)
  <2>1. PICK t \in Ticket : Arrived(t, v)
    BY <1>1, RefusedBy
  <2>2. v # NoTicket
    BY TicketFields
  <2>3. /\ pool.userQueued >= WriterQueueCapacity /\ VictimOf(pool, Waiting, grant, t, v)
        /\ call[t] \in {"idle", "refused"} /\ call'[t] = "waiting"
    BY <2>1, <2>2 DEF Arrived
  <2>4. /\ v \in Waiting /\ ~Background(v) /\ v # grant /\ t.class <= v.class
        /\ \/ t.class < v.class
           \/ v.owner # NoOwner /\ v.owner # t.owner /\ pool.ownerQueued[v.owner] > OwnerQueueShare
    BY <2>3 DEF VictimOf
  <2>5. t.class < v.class \/ (v.owner # NoOwner /\ v.owner # t.owner
                              /\ pool'.ownerQueued[v.owner] >= OwnerQueueShare)
    BY <1>1, <2>1, <2>4, ShareKept
  <2> QED BY <2>3, <2>4, <2>5 DEF Answered
<1>2. ASSUME GateInv, GateInv', [Next]_vars
      PROVE  [\A v \in Ticket : (call[v] = "waiting" /\ call'[v] = "refused" /\ v \notin blocked)
                 => Fair(v)]_vars
  BY <1>1, <1>2
<1>3. GateInv /\ GateInv' /\ [Next]_vars =>
        [\A v \in Ticket : (call[v] = "waiting" /\ call'[v] = "refused" /\ v \notin blocked)
                 => Fair(v)]_vars
  BY <1>2
<1> QED BY <1>3, GateInvariant, PTL DEF Spec, RefusalsAreFair


----------------------------------------------------------------------------
(* The writer slot. *)

\* A caller that leaves its fields alone leaves the slot alone.
LEMMA SlotStutters ==
    ASSUME holder' = holder, generation' = generation, turn' = turn,
           recovery'.phase = recovery.phase, recovery'.security = recovery.security,
           call'[RecoveryTurn] = "waiting" <=> call[RecoveryTurn] = "waiting"
    PROVE  UNCHANGED Slot!slotVars
  BY DEF Slot!slotVars

LEMMA SlotTake ==
    ASSUME GateInv, NEW t \in Callers, Take(t)
    PROVE  Slot!SlotNext
<1>1. ControlTypes /\ HolderOK /\ RecoveryOK /\ GrantOK
  BY DEF GateInv
<1>2. /\ call[t] = "waiting" /\ ~active /\ grant = t /\ grant # NoTicket /\ holder' = t
      /\ holder = NoTicket /\ turn' = turn /\ call' = [call EXCEPT ![t] = "holding"]
  BY <1>1, CallersAre DEF Take, HolderOK
<1>3. /\ recovery'.phase = recovery.phase
      /\ recovery'.security = IF recovery.phase # "none" /\ t.class = SecurityFence
                              THEN recovery.security + 1 ELSE recovery.security
  BY <1>1 DEF Take, ControlTypes, RecoveryRecord
<1>4. LegalFor(pool, Waiting, recovery, t)
  BY <1>1, <1>2 DEF GrantOK
<1>5. call \in [Callers -> CallStates] /\ generation \in 0 .. 2
  BY <1>1 DEF ControlTypes
<1>6. ~t.probe => generation' = IF generation = 0 THEN 1 ELSE 2
  BY <1>5 DEF Take
<1>7. CASE t \in Ticket
  <2>1. call'[RecoveryTurn] = call[RecoveryTurn]
    BY <1>2, <1>5, <1>7, CallersAre
  <2>2. t.probe => generation' = generation
    BY DEF Take
  <2>3. \/ recovery.phase = "none" /\ recovery'.security = recovery.security
        \/ /\ recovery.phase = "hold" /\ t.class = SecurityFence
           /\ recovery.security < RecoverySecurityReserve
           /\ recovery'.security = recovery.security + 1
    <3>1. recovery.phase \in {"none", "hold", "pause"} /\ recovery.ticket \in {NoTicket, RecoveryTurn}
      BY <1>1 DEF ControlTypes, RecoveryRecord
    <3>2. recovery.phase # "pause"
      BY <1>4, <1>7, <3>1, CallersAre DEF LegalFor
    <3>3. recovery.phase = "hold" => t.class = SecurityFence
                                     /\ recovery.security < RecoverySecurityReserve
      BY <1>4 DEF LegalFor
    <3> QED BY <1>3, <3>1, <3>2, <3>3
  <2>4. Slot!SlotBegin(t)
    BY <1>2, <1>3, <1>6, <1>7, <2>1, <2>2, <2>3 DEF Slot!SlotBegin, Slot!Counted
  <2> QED BY <1>7, <2>4 DEF Slot!SlotNext
<1>8. CASE t = RecoveryTurn
  <2>1. turn = "asked" /\ call[RecoveryTurn] = "waiting" /\ call'[RecoveryTurn] = "holding"
    BY <1>1, <1>2, <1>5, <1>8 DEF RecoveryOK
  <2>2. recovery'.security = recovery.security
    BY <1>3, <1>8, CallersAre
  <2>3. generation' = IF generation = 0 THEN 1 ELSE 2
    BY <1>6, <1>8, CallersAre
  <2>4. Slot!SlotBeginTurn
    BY <1>2, <1>3, <1>8, <2>1, <2>2, <2>3 DEF Slot!SlotBeginTurn, Slot!Counted
  <2> QED BY <2>4 DEF Slot!SlotNext
<1> QED BY <1>7, <1>8 DEF Callers

LEMMA SlotRelease ==
    ASSUME GateInv, NEW t \in Callers, Release(t)
    PROVE  Slot!SlotNext
<1>1. ControlTypes /\ HolderOK
  BY DEF GateInv
<1>2. /\ holder = t /\ holder # NoTicket /\ holder' = NoTicket /\ generation' = generation
      /\ turn' = turn /\ recovery' = recovery /\ call' = [call EXCEPT ![t] = "idle"]
      /\ call[t] = "holding"
  BY <1>1, CallersAre DEF Release, HolderOK, ownerVars
<1>3. call'[RecoveryTurn] = "waiting" <=> call[RecoveryTurn] = "waiting"
  <2>1. call \in [Callers -> CallStates]
    BY <1>1 DEF ControlTypes
  <2> QED BY <1>2, <2>1, CallersAre
<1>4. Slot!SlotEnd(t)
  BY <1>2, <1>3 DEF Slot!SlotEnd
<1> QED BY <1>4 DEF Slot!SlotNext, Callers

LEMMA SlotCancel ==
    ASSUME GateInv, NEW t \in Callers, Cancel(t) \/ (t \in Ticket /\ CapacityTimeout(t))
    PROVE  [Slot!SlotNext]_(Slot!slotVars)
<1>1. ControlTypes /\ RecoveryOK
  BY DEF GateInv
<1>2. /\ call[t] = "waiting" /\ holder' = holder /\ generation' = generation /\ turn' = turn
      /\ recovery' = IF t = RecoveryTurn THEN [recovery EXCEPT !.ticket = NoTicket] ELSE recovery
  BY DEF Cancel, CapacityTimeout, Abandon
<1>3. recovery'.phase = recovery.phase /\ recovery'.security = recovery.security
  BY <1>1, <1>2 DEF ControlTypes, RecoveryRecord
<1>4. call \in [Callers -> CallStates]
      /\ (call' = [call EXCEPT ![t] = "idle"] \/ call' = [call EXCEPT ![t] = "refused"])
  BY <1>1 DEF Cancel, CapacityTimeout, ControlTypes
<1>5. CASE t \in Ticket
  <2>1. call'[RecoveryTurn] = call[RecoveryTurn]
    BY <1>4, <1>5, CallersAre
  <2> QED BY <1>2, <1>3, <2>1, SlotStutters
<1>6. CASE t = RecoveryTurn
  <2>1. turn = "asked" /\ call[RecoveryTurn] = "waiting" /\ call'[RecoveryTurn] # "waiting"
    BY <1>1, <1>2, <1>4, <1>6 DEF RecoveryOK
  <2>2. Slot!SlotGiveUpTurn
    BY <1>2, <1>3, <2>1 DEF Slot!SlotGiveUpTurn
  <2> QED BY <2>2 DEF Slot!SlotNext
<1> QED BY <1>5, <1>6 DEF Callers

LEMMA SlotRecovery ==
    ASSUME GateInv,
           EnterPressureHold \/ EnterBeginPause \/ CheckpointCopyFence
             \/ AcquireRecoveryTurn \/ EndRecovery
    PROVE  Slot!SlotNext
<1>1. ControlTypes /\ HolderOK /\ RecoveryOK
  BY DEF GateInv
<1>2. recovery \in RecoveryRecord /\ call \in [Callers -> CallStates] /\ RecoveryTurn \in Callers
  BY <1>1, CallersAre DEF ControlTypes
<1>3. CASE EnterPressureHold
  <2>1. /\ recovery.phase = "none" /\ recovery'.phase = "hold" /\ recovery'.security = 0
        /\ holder' = holder /\ generation' = generation /\ turn' = turn /\ call' = call
    BY <1>3 DEF EnterPressureHold, NoRecovery
  <2>2. Slot!SlotHold
    BY <2>1 DEF Slot!SlotHold
  <2> QED BY <2>2 DEF Slot!SlotNext
<1>4. CASE EnterBeginPause
  <2>1. /\ recovery.phase = "hold" /\ recovery'.phase = "pause"
        /\ recovery'.security = recovery.security
        /\ holder' = holder /\ generation' = generation /\ turn' = turn /\ call' = call
    BY <1>2, <1>4 DEF EnterBeginPause, RecoveryRecord
  <2>2. Slot!SlotPause
    BY <2>1 DEF Slot!SlotPause
  <2> QED BY <2>2 DEF Slot!SlotNext
<1>5. CASE CheckpointCopyFence
  <2>1. /\ turn = "unread" /\ turn' = "fenced" /\ generation' = 0
        /\ recovery' = recovery /\ holder' = holder /\ call' = call
    BY <1>5 DEF CheckpointCopyFence, gateVars
  <2>2. Slot!SlotReadFence(RecoveryTurn)
    BY <2>1 DEF Slot!SlotReadFence
  <2> QED BY <2>2 DEF Slot!SlotNext
<1>6. CASE AcquireRecoveryTurn
  <2>1. /\ recovery.phase = "pause" /\ recovery'.phase = "pause"
        /\ recovery'.security = recovery.security
        /\ turn = "fenced" /\ turn' = "asked" /\ call'[RecoveryTurn] = "waiting"
        /\ holder' = holder /\ generation' = generation
    BY <1>2, <1>6 DEF AcquireRecoveryTurn, RecoveryRecord
  <2>2. Slot!SlotAskTurn
    BY <2>1 DEF Slot!SlotAskTurn
  <2> QED BY <2>2 DEF Slot!SlotNext
<1>7. CASE EndRecovery
  <2>1. /\ recovery.phase # "none" /\ recovery'.phase = "none" /\ recovery'.security = 0
        /\ turn' = "unread" /\ holder' = holder /\ generation' = generation
    BY <1>7 DEF EndRecovery, NoRecovery
  <2>2. holder # RecoveryTurn
    BY <1>1, <1>2, <1>7 DEF EndRecovery, HolderOK
  <2>3. Slot!SlotResume
    BY <2>1, <2>2 DEF Slot!SlotResume
  <2> QED BY <2>3 DEF Slot!SlotNext
<1> QED BY <1>3, <1>4, <1>5, <1>6, <1>7

LEMMA SlotStep ==
    ASSUME GateInv, [Next]_vars
    PROVE  [Slot!SlotNext]_(Slot!slotVars)
<1>1. CASE UNCHANGED vars
  BY <1>1, SlotStutters DEF vars, gateVars, ownerVars
<1>2. CASE \E t \in Ticket : Acquire(t)
  <2>0. PICK t \in Ticket : \E v : Arrived(t, v)
    BY <1>2, AcquireIs
  <2>1. PICK v : Arrived(t, v)
    BY <2>0
  <2>2. /\ holder' = holder /\ generation' = generation /\ turn' = turn /\ recovery' = recovery
        /\ \A u \in Callers : u # t /\ u # v => call'[u] = call[u]
        /\ v = NoTicket \/ v \in Ticket
    BY <2>1 DEF Arrived, VictimOf
  <2>3. call'[RecoveryTurn] = call[RecoveryTurn]
    BY <2>2, CallersAre
  <2> QED BY <2>2, <2>3, SlotStutters
<1>3. CASE \E t \in Ticket : RefuseArrival(t)
  <2>1. PICK t \in Ticket : RefuseArrival(t)
    BY <1>3
  <2>2. /\ holder' = holder /\ generation' = generation /\ turn' = turn /\ recovery' = recovery
        /\ call' = [call EXCEPT ![t] = "refused"] /\ call \in [Callers -> CallStates]
    BY <2>1 DEF RefuseArrival, gateVars, ownerVars, GateInv, ControlTypes
  <2>3. call'[RecoveryTurn] = call[RecoveryTurn]
    BY <2>2, CallersAre
  <2> QED BY <2>2, <2>3, SlotStutters
<1>4. CASE \E t \in Ticket : CapacityTimeout(t)
  BY <1>4, SlotCancel, CallersAre
<1>5. CASE \E t \in Callers : Take(t) \/ Release(t) \/ Cancel(t)
  BY <1>5, SlotTake, SlotRelease, SlotCancel
<1>6. CASE Age \/ LedgerMoves \/ Probe \/ WakeWALWaiters
  <2>1. /\ holder' = holder /\ generation' = generation /\ turn' = turn /\ recovery' = recovery
        /\ call' = call
    BY <1>6 DEF Age, LedgerMoves, Probe, WakeWALWaiters, gateVars, ownerVars
  <2> QED BY <2>1, SlotStutters
<1>7. CASE EnterPressureHold \/ EnterBeginPause \/ CheckpointCopyFence
             \/ AcquireRecoveryTurn \/ EndRecovery
  BY <1>7, SlotRecovery
<1> QED BY <1>1, <1>2, <1>3, <1>4, <1>5, <1>6, <1>7 DEF Next, Callers

\* Queues, deferral, refusals, withdrawn grants and cancellations never make the
\* gate behave otherwise than the slot WalCheckpoint is built on.
THEOREM GateIsASlot == Spec => ImplementsSlot
<1>1. Init => Slot!SlotInit
  BY DEF Init, NoRecovery, Slot!SlotInit
<1>2. GateInv /\ [Next]_vars => [Slot!SlotNext]_(Slot!slotVars)
  BY SlotStep
<1> QED BY <1>1, <1>2, GateInvariant, PTL DEF Spec, ImplementsSlot, Slot!SlotSpec

=============================================================================
