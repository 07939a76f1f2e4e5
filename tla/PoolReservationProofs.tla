------------------------ MODULE PoolReservationProofs ------------------------
(***************************************************************************)
(* Theorems about PoolReservation for any number of clients, dispatcher    *)
(* executions and other transactions.                                      *)
(***************************************************************************)
EXTENDS PoolReservation, TLAPS, FiniteSetTheorems, SequenceTheorems

-----------------------------------------------------------------------------
(* The inductive invariant. Each part is about what one step has to know of  *)
(* another: who stands in which line, what a unit may hold where it is, and  *)
(* what is left of its reservation.                                          *)

\* The units that f puts in one of the places P.
In(f, P) == {u \in Units : f[u] \in P}

\* The line q holds the members of S, each once.
Lists(q, S) ==
  /\ q \in Seq(S)
  /\ \A u \in S : \E i \in 1..Len(q) : q[i] = u
  /\ \A i, j \in 1..Len(q) : q[i] = q[j] => i = j

Lines ==
  /\ Lists(queue, In(pc, Connecting))
  /\ Lists(waiters, In(pc, {"admission"}))
  /\ Lists(turnQueue, In(pc, {"turn"}))

\* Other transactions never go where the dispatcher's executions go.
PlainPc == {"idle", "begin", "locking", "fenced"}
PcByKind ==
  /\ \A u \in Plain : pc[u] \in PlainPc
  /\ \A u \in Dispatch : pc[u] # "begin"

TurnTaken == \A u \in Units : pc[u] = "acquire" <=> turn = u

\* Where a unit is decides what its clients can be checked out for.
InTransaction == {"locking", "fenced", "nested", "inner"}
MayHold(p) ==
  {"late"}
  \cup (IF p \in {"idle", "session", "begin"} THEN {} ELSE {"session"})
  \cup (IF p \in InTransaction \cup {"reading"} THEN {"own"} ELSE {})
  \cup (IF p \in {"acquire", "work", "locking", "fenced", "inner", "settle"} THEN {"parked"} ELSE {})
  \cup (IF p \in InTransaction THEN {"lent"} ELSE {})
  \cup (IF p \in {"inner", "settle"} THEN {"inner", "spare"} ELSE {})

OuterUse == {"lent", "own"}
InnerUse == {"inner", "spare"}

HeldByPc(u) ==
  \A c \in Clients : holder[c] = u =>
    use[c] \in MayHold(pc[u]) /\ (u \in Plain => use[c] = "own")

\* A unit has one session, one outer and one inner client at most, and in a
\* transaction it has the outer one.
SameKind(a, b) == \E K \in {{"session"}, OuterUse, InnerUse} : a \in K /\ b \in K
OneOfEach(u) ==
  \A c, d \in Clients :
    holder[c] = u /\ holder[d] = u /\ SameKind(use[c], use[d]) => c = d
HasOuter(u) ==
  pc[u] \in InTransaction => \E c \in Clients : holder[c] = u /\ use[c] \in OuterUse

UnitHolds(u) == HeldByPc(u) /\ OneOfEach(u) /\ HasOuter(u)
FreeAgrees == \A c \in Clients : holder[c] = None <=> use[c] = "free"

\* A reservation that lost nothing still has two clients, wherever they are lent;
\* one that is still being filled is short of one.
Reserving == InTransaction \cup {"work", "outer", "settle"}
ReservedUse == {"parked", "lent", "inner"}
Kept(u) ==
  u \in Dispatch \ lost /\ pc[u] \in Reserving =>
    \E c, d \in Clients :
      c # d /\ holder[c] = u /\ holder[d] = u /\ use[c] \in ReservedUse /\ use[d] \in ReservedUse
Short(u) == pc[u] = "acquire" => Cardinality(Parked(u)) < Reserve

\* Only a reservation that lost a client sends its unit back to the pool.
LostIfShort(u) == pc[u] \in {"nested", "outer"} => u \in lost

Reservation(u) == Kept(u) /\ Short(u) /\ LostIfShort(u)

FenceByPc == fence # None => pc[fence] \in {"fenced", "nested", "inner"}

-----------------------------------------------------------------------------
(* Lines of waiting units *)

LEMMA ListsNobody == Lists(<<>>, {})
BY EmptySeq DEF Lists

\* A sequence is one over whatever its elements are in.
LEMMA SeqOfElements ==
  ASSUME NEW S, NEW q \in Seq(S), NEW T, \A i \in 1..Len(q) : q[i] \in T
  PROVE  q \in Seq(T)
<1>1. q \in Seq(Range(q)) /\ Range(q) = {q[i] : i \in 1..Len(q)}
  BY SeqOfRange, RangeEquality
<1>2. Range(q) \subseteq T  BY <1>1
<1> QED  BY <1>1, <1>2, SeqMonotonic

LEMMA ListsAppend ==
  ASSUME NEW S, NEW q, Lists(q, S), NEW u, u \notin S
  PROVE  Lists(Append(q, u), S \cup {u})
<1> DEFINE T == S \cup {u}
<1>1. q \in Seq(S) /\ q \in Seq(T) /\ u \in T
  BY SeqMonotonic DEF Lists
<1>2. /\ Append(q, u) \in Seq(T) /\ Len(Append(q, u)) = Len(q) + 1
      /\ \A i \in 1..Len(q) : Append(q, u)[i] = q[i]
      /\ Append(q, u)[Len(q) + 1] = u
  BY <1>1, AppendProperties
<1>3. Len(q) \in Nat /\ \A i \in 1..Len(q) : q[i] \in S
  BY <1>1, LenProperties, ElementOfSeq
<1>4. ASSUME NEW v \in T  PROVE \E i \in 1..Len(q) + 1 : Append(q, u)[i] = v
  BY <1>2, <1>3 DEF Lists
<1>5. \A i, j \in 1..Len(q) + 1 : Append(q, u)[i] = Append(q, u)[j] => i = j
  BY <1>2, <1>3 DEF Lists
<1> QED  BY <1>2, <1>4, <1>5 DEF Lists

LEMMA ListsHead ==
  ASSUME NEW S, NEW q, Lists(q, S), q # <<>>
  PROVE  Head(q) \in S /\ Lists(Tail(q), S \ {Head(q)})
<1> DEFINE h == Head(q)
<1>1. q \in Seq(S)  BY DEF Lists
<1>2. /\ h \in S /\ h = q[1] /\ Tail(q) \in Seq(S) /\ Len(Tail(q)) = Len(q) - 1
      /\ \A i \in 1..Len(Tail(q)) : Tail(q)[i] = q[i + 1]
      /\ Len(q) \in Nat \ {0}
  BY <1>1, HeadTailProperties, EmptySeq
<1>3. \A i \in 1..Len(Tail(q)) : Tail(q)[i] \in S \ {h}
  BY <1>2, ElementOfSeq DEF Lists
<1>4. Tail(q) \in Seq(S \ {h})
  BY <1>2, <1>3, SeqOfElements
<1>5. ASSUME NEW v \in S \ {h}  PROVE \E i \in 1..Len(Tail(q)) : Tail(q)[i] = v
  <2>1. PICK i \in 1..Len(q) : q[i] = v  BY DEF Lists
  <2>2. i - 1 \in 1..Len(Tail(q)) /\ Tail(q)[i - 1] = v  BY <1>2, <2>1
  <2> QED  BY <2>2
<1>6. \A i, j \in 1..Len(Tail(q)) : Tail(q)[i] = Tail(q)[j] => i = j
  BY <1>2 DEF Lists
<1> QED  BY <1>2, <1>4, <1>5, <1>6 DEF Lists

LEMMA ListsWithout ==
  ASSUME NEW S, NEW q, Lists(q, S), NEW u \in S
  PROVE  Lists(Without(q, u), S \ {u})
<1> DEFINE k == CHOOSE i \in DOMAIN q : q[i] = u
           before == SubSeq(q, 1, k - 1)
           after == SubSeq(q, k + 1, Len(q))
           r == before \o after
<1>1. q \in Seq(S) /\ Len(q) \in Nat /\ DOMAIN q = 1..Len(q)
  BY LenProperties DEF Lists
<1>2. k \in 1..Len(q) /\ q[k] = u
  BY <1>1 DEF Lists
<1> HIDE DEF k
<1>3. \A i \in 1..Len(q) : q[i] \in S /\ (q[i] = u => i = k)
  BY <1>1, <1>2, ElementOfSeq DEF Lists
<1>4. /\ before \in Seq(S) /\ Len(before) = k - 1
      /\ \A i \in 1..k - 1 : before[i] = q[i]
  <2>1. 1 \in Int /\ k - 1 \in Int /\ \A i \in 1..k - 1 : q[i] \in S  BY <1>1, <1>2, <1>3
  <2> QED  BY <1>2, <2>1, SubSeqProperties
<1>5. /\ after \in Seq(S) /\ Len(after) = Len(q) - k
      /\ \A i \in 1..Len(q) - k : after[i] = q[k + i]
  <2>1. k + 1 \in Int /\ Len(q) \in Int /\ \A i \in k + 1..Len(q) : q[i] \in S  BY <1>1, <1>2, <1>3
  <2>2. /\ after \in Seq(S) /\ Len(after) = IF k + 1 <= Len(q) THEN Len(q) - (k + 1) + 1 ELSE 0
        /\ \A i \in 1..Len(q) - (k + 1) + 1 : after[i] = q[(k + 1) + i - 1]
    BY <2>1, SubSeqProperties
  <2> HIDE DEF after
  <2>3. Len(after) = Len(q) - k
    <3>1. k \in Int /\ Len(q) \in Int /\ k <= Len(q)  BY <1>1, <1>2
    <3>2. CASE k < Len(q)
      <4>1. k + 1 <= Len(q) /\ Len(q) - (k + 1) + 1 = Len(q) - k  BY <3>1, <3>2
      <4> QED  BY <2>2, <4>1
    <3>3. CASE k = Len(q)
      <4>1. ~(k + 1 <= Len(q)) /\ Len(q) - k = 0  BY <3>1, <3>3
      <4> QED  BY <2>2, <4>1
    <3> QED  BY <3>1, <3>2, <3>3
  <2>4. ASSUME NEW i \in 1..Len(q) - k  PROVE after[i] = q[k + i]
    <3>1. i \in 1..Len(q) - (k + 1) + 1 /\ (k + 1) + i - 1 = k + i  BY <1>1, <1>2
    <3>2. after[i] = q[(k + 1) + i - 1]  BY <2>2, <3>1
    <3> QED  BY <3>1, <3>2
  <2> QED  BY <2>2, <2>3, <2>4
<1> HIDE DEF before, after
<1>6. /\ r \in Seq(S) /\ Len(r) = Len(q) - 1
      /\ \A i \in 1..Len(q) - 1 : r[i] = IF i < k THEN q[i] ELSE q[i + 1]
  <2>1. /\ r \in Seq(S) /\ Len(r) = Len(before) + Len(after)
        /\ \A i \in 1..Len(before) + Len(after) :
             r[i] = IF i <= Len(before) THEN before[i] ELSE after[i - Len(before)]
    BY <1>4, <1>5, ConcatProperties
  <2> HIDE DEF r
  <2>2. Len(r) = Len(q) - 1  BY <1>1, <1>2, <1>4, <1>5, <2>1
  <2>3. ASSUME NEW i \in 1..Len(q) - 1
        PROVE  r[i] = IF i < k THEN q[i] ELSE q[i + 1]
    <3>1. i \in 1..Len(before) + Len(after)  BY <1>1, <1>2, <1>4, <1>5
    <3>2. CASE i < k  BY <1>2, <1>4, <2>1, <3>1, <3>2
    <3>3. CASE i >= k
      <4>1. ~(i <= Len(before)) /\ i - Len(before) \in 1..Len(q) - k /\ k + (i - Len(before)) = i + 1
        BY <1>1, <1>2, <1>4, <3>3
      <4>2. r[i] = after[i - Len(before)]  BY <2>1, <3>1, <4>1
      <4>3. after[i - Len(before)] = q[k + (i - Len(before))]  BY <1>5, <4>1
      <4> QED  BY <1>2, <3>3, <4>1, <4>2, <4>3
    <3> QED  BY <1>2, <3>2, <3>3
  <2> QED  BY <2>1, <2>2, <2>3
<1> HIDE DEF r
<1>7. r \in Seq(S \ {u})
  <2>1. \A i \in 1..Len(r) : r[i] \in S \ {u}  BY <1>1, <1>2, <1>3, <1>6
  <2> QED  BY <1>6, <2>1, SeqOfElements
<1>8. ASSUME NEW v \in S \ {u}  PROVE \E i \in 1..Len(r) : r[i] = v
  <2>1. PICK i \in 1..Len(q) : q[i] = v  BY DEF Lists
  <2>2. i # k  BY <1>2, <2>1
  <2>3. CASE i < k  BY <1>1, <1>2, <1>6, <2>1, <2>3
  <2>4. CASE i > k
    <3>1. i - 1 \in 1..Len(r) /\ r[i - 1] = v  BY <1>1, <1>2, <1>6, <2>1, <2>4
    <3> QED  BY <3>1
  <2> QED  BY <1>1, <1>2, <2>2, <2>3, <2>4
<1>9. ASSUME NEW i \in 1..Len(r), NEW j \in 1..Len(r), r[i] = r[j]  PROVE i = j
  <2> DEFINE at(n) == IF n < k THEN n ELSE n + 1
  <2>1. ASSUME NEW n \in 1..Len(r)  PROVE at(n) \in 1..Len(q) /\ r[n] = q[at(n)]
    BY <1>1, <1>2, <1>6
  <2>2. q[at(i)] = q[at(j)] /\ at(i) \in 1..Len(q) /\ at(j) \in 1..Len(q)  BY <1>9, <2>1
  <2>3. at(i) = at(j)  BY <2>2 DEF Lists
  <2> QED  BY <1>1, <1>2, <1>6, <2>3
<1>10. Without(q, u) = r  BY DEF Without, r, before, after, k
<1> QED  BY <1>7, <1>8, <1>9, <1>10 DEF Lists

-----------------------------------------------------------------------------
(* Where the units are *)

PcTypes == pc \in [Units -> Pc] /\ turn \in Dispatch \cup {None}
PcInv == PcTypes /\ Lines /\ PcByKind /\ TurnTaken

LEMMA UnitsDiffer == \A u \in Units : u # None /\ (u \in Dispatch <=> u \notin Plain)
BY PoolConstants DEF Units

\* The units that stand in no line.
LEMMA LinesAside ==
  ASSUME Lines, pc \in [Units -> Pc], NEW u \in Units, NEW next, Goto(u, next),
         pc[u] \notin Connecting \cup {"admission", "turn"},
         next \notin Connecting \cup {"admission", "turn"},
         UNCHANGED <<queue, waiters, turnQueue>>
  PROVE  Lines'
<1>1. /\ In(pc', Connecting) = In(pc, Connecting)
      /\ In(pc', {"admission"}) = In(pc, {"admission"})
      /\ In(pc', {"turn"}) = In(pc, {"turn"})
  BY DEF In, Goto
<1> QED  BY <1>1 DEF Lines

LEMMA LinesConnect ==
  ASSUME Lines, pc \in [Units -> Pc], NEW u \in Units, NEW for \in Connecting, Connect(u, for),
         pc[u] \notin Connecting \cup {"admission", "turn"},
         UNCHANGED <<waiters, turnQueue>>
  PROVE  Lines'
<1>1. Goto(u, for) /\ queue' = Append(queue, u) /\ for \notin {"admission", "turn"}
  BY DEF Connect, Connecting
<1>2. /\ In(pc', Connecting) = In(pc, Connecting) \cup {u}
      /\ In(pc', {"admission"}) = In(pc, {"admission"})
      /\ In(pc', {"turn"}) = In(pc, {"turn"})
  BY <1>1 DEF In, Goto
<1>3. u \notin In(pc, Connecting)  BY DEF In
<1>4. Lists(queue', In(pc', Connecting))  BY <1>1, <1>2, <1>3, ListsAppend DEF Lines
<1> QED  BY <1>2, <1>4 DEF Lines

LEMMA LinesLeave ==
  ASSUME Lines, pc \in [Units -> Pc], NEW u \in Units, pc[u] \notin {"admission", "turn"},
         Leave, GotoAndAdmit(u, "running")
  PROVE  /\ Lists(waiters', In(pc', {"admission"})) /\ Lists(turnQueue', In(pc', {"turn"}))
         /\ In(pc', Connecting) = In(pc, Connecting) \ {u}
<1> DEFINE w == Head(waiters)
<1>1. CASE waiters = <<>>
  <2>1. Goto(u, "running") /\ UNCHANGED <<waiters, turnQueue>>
    BY <1>1 DEF Leave, GotoAndAdmit, Goto
  <2>2. /\ In(pc', {"admission"}) = In(pc, {"admission"}) /\ In(pc', {"turn"}) = In(pc, {"turn"})
        /\ In(pc', Connecting) = In(pc, Connecting) \ {u}
    BY <2>1 DEF In, Goto, Connecting
  <2> QED  BY <2>1, <2>2 DEF Lines
<1>2. CASE waiters # <<>>
  <2>1. w \in In(pc, {"admission"}) /\ Lists(waiters', In(pc, {"admission"}) \ {w})
    BY <1>2, ListsHead DEF Lines, Leave
  <2>2. turnQueue' = Append(turnQueue, w) /\ w \notin In(pc, {"turn"})
    BY <1>2, <2>1 DEF Leave, In
  <2>3. Lists(turnQueue', In(pc, {"turn"}) \cup {w})
    BY <2>2, ListsAppend DEF Lines
  <2>4. pc' = [v \in Units |-> IF v = u THEN "running" ELSE IF v = w THEN "turn" ELSE pc[v]]
    BY <1>2 DEF GotoAndAdmit
  <2>5. w # u /\ w \in Units /\ pc[w] = "admission"  BY <2>1 DEF In
  <2> HIDE DEF w
  <2>6. /\ In(pc', {"admission"}) = In(pc, {"admission"}) \ {w}
        /\ In(pc', {"turn"}) = In(pc, {"turn"}) \cup {w}
        /\ In(pc', Connecting) = In(pc, Connecting) \ {u}
    BY <2>4, <2>5 DEF In, Connecting
  <2> QED  BY <2>1, <2>3, <2>6
<1> QED  BY <1>1, <1>2

LEMMA LinesServe ==
  ASSUME PcInv, NEW c \in Clients, Serve(c)
  PROVE  PcInv'
<1> DEFINE u == Head(queue)
<1>1. /\ u \in In(pc, Connecting) /\ Lists(Tail(queue), In(pc, Connecting) \ {u})
      /\ UNCHANGED <<waiters, turnQueue>>
  BY ListsHead DEF Serve, PcInv, Lines, admission
<1>2. u \in Units /\ pc[u] \in Connecting  BY <1>1 DEF In
<1>3. CASE \/ pc[u] # "acquire" /\ Goto(u, GoesOn(u)) /\ queue' = Tail(queue) /\ UNCHANGED turn
           \/ pc[u] = "acquire" /\ Goto(u, "work") /\ queue' = Tail(queue) /\ turn' = None
  <2> DEFINE next == IF pc[u] = "acquire" THEN "work" ELSE GoesOn(u)
  <2>1. /\ Goto(u, next) /\ queue' = Tail(queue)
        /\ next \in {"work", "running", "reading", "inner", "locking"}
        /\ turn' = IF pc[u] = "acquire" THEN None ELSE turn
    BY <1>3 DEF GoesOn
  <2>2. u \in Plain => pc[u] = "begin" /\ next = "locking"
    BY <1>2 DEF PcInv, PcByKind, PlainPc, Connecting, GoesOn
  <2> HIDE DEF u, next
  <2>3. /\ In(pc', Connecting) = In(pc, Connecting) \ {u}
        /\ In(pc', {"admission"}) = In(pc, {"admission"})
        /\ In(pc', {"turn"}) = In(pc, {"turn"})
    BY <1>2, <2>1 DEF In, Goto, PcInv, PcTypes, Connecting
  <2>4. Lines'  BY <1>1, <2>1, <2>3 DEF Lines, PcInv
  <2>5. PcTypes' /\ PcByKind' /\ TurnTaken'
    BY <1>2, <2>1, <2>2, UnitsDiffer
    DEF PcInv, PcTypes, PcByKind, PlainPc, TurnTaken, Goto, Pc, Units
  <2> QED  BY <2>4, <2>5 DEF PcInv
<1>4. CASE queue' = Append(Tail(queue), u) /\ UNCHANGED <<pc, turn>>
  <2>1. (In(pc, Connecting) \ {u}) \cup {u} = In(pc, Connecting)  BY <1>1
  <2>2. Lists(queue', In(pc, Connecting))  BY <1>1, <1>4, <2>1, ListsAppend
  <2> QED  BY <1>1, <1>4, <2>2 DEF PcInv, PcTypes, Lines, PcByKind, TurnTaken
<1> QED  BY <1>3, <1>4 DEF Serve

LEMMA LinesConnectFails ==
  ASSUME PcInv, NEW u \in Units, ConnectFails(u)
  PROVE  PcInv'
<1>1. /\ pc[u] \in Connecting /\ queue' = Without(queue, u)
      /\ Lists(queue', In(pc, Connecting) \ {u})
  BY ListsWithout DEF ConnectFails, PcInv, Lines, In
<1>2. CASE pc[u] = "acquire"
  <2>1. Leave /\ GotoAndAdmit(u, "running") /\ turn' = None
    BY <1>2 DEF ConnectFails
  <2>2. Lines'
    BY <1>1, <1>2, <2>1, LinesLeave DEF PcInv, PcTypes, Lines
  <2>3. PcTypes' /\ PcByKind' /\ TurnTaken'
    <3>1. waiters # <<>> => Head(waiters) \in Units /\ pc[Head(waiters)] = "admission"
      <4> SUFFICES ASSUME waiters # <<>>  PROVE Head(waiters) \in In(pc, {"admission"})
        BY DEF In
      <4> QED  BY ListsHead DEF PcInv, Lines
    <3>2. \A v \in Units : \/ pc'[v] = pc[v] /\ v # u
                           \/ v = u /\ pc'[v] = "running"
                           \/ v # u /\ pc[v] = "admission" /\ pc'[v] = "turn"
      BY <2>1, <3>1 DEF GotoAndAdmit
    <3>3. u \in Dispatch /\ \A v \in Units : pc[v] = "acquire" => v = u
      BY <1>2, UnitsDiffer DEF PcInv, PcByKind, PlainPc, TurnTaken
    <3>4. pc' \in [Units -> Pc]
      BY <2>1, <3>2 DEF GotoAndAdmit, PcInv, PcTypes, Pc
    <3>5. PcByKind'
      BY <3>2, <3>3, UnitsDiffer DEF PcInv, PcByKind, PlainPc, Units
    <3>6. TurnTaken'
      BY <2>1, <3>2, <3>3, UnitsDiffer DEF TurnTaken
    <3> QED  BY <2>1, <3>4, <3>5, <3>6 DEF PcTypes
  <2> QED  BY <2>2, <2>3 DEF PcInv
<1>3. CASE pc[u] # "acquire"
  <2>1. PICK next \in {"idle", "running", "settle", "fenced"} :
          /\ Goto(u, next) /\ UNCHANGED <<turn, waiters, turnQueue>>
          /\ pc[u] = "begin" => next = "idle"
    BY <1>1, <1>3 DEF ConnectFails, BacksOff, turns, admission, Connecting
  <2>2. u \in Plain => next = "idle"
    BY <1>1, <2>1 DEF PcInv, PcByKind, PlainPc, Connecting
  <2>3. /\ In(pc', Connecting) = In(pc, Connecting) \ {u}
        /\ In(pc', {"admission"}) = In(pc, {"admission"})
        /\ In(pc', {"turn"}) = In(pc, {"turn"})
    BY <1>1, <2>1 DEF In, Goto, PcInv, PcTypes, Connecting
  <2>4. Lines'  BY <1>1, <2>1, <2>3 DEF Lines, PcInv
  <2>5. PcTypes' /\ PcByKind' /\ TurnTaken'
    BY <1>3, <2>1, <2>2, UnitsDiffer
    DEF PcInv, PcTypes, PcByKind, PlainPc, TurnTaken, Goto, Pc, Units
  <2> QED  BY <2>4, <2>5 DEF PcInv
<1> QED  BY <1>2, <1>3

\* The steps that only move one unit, from outside every line.
LEMMA LinesMove ==
  ASSUME PcInv, NEW u \in Units, UNCHANGED <<turn, waiters, turnQueue>>,
         pc[u] \notin Connecting \cup {"admission", "turn"},
         \/ /\ UNCHANGED queue
            /\ \E next \in Pc \ (Connecting \cup {"admission", "turn"}) :
                 Goto(u, next) /\ (u \in Plain => next \in PlainPc)
         \/ \E for \in Connecting \ {"acquire"} :
              Connect(u, for) /\ (IF u \in Plain THEN for = "begin" ELSE for # "begin")
  PROVE  PcInv'
<1>1. PICK next \in Pc : /\ Goto(u, next) /\ next # "acquire"
                         /\ IF u \in Plain THEN next \in PlainPc ELSE next # "begin"
  BY DEF Connect, Connecting, Pc, PlainPc
<1>2. Lines'  BY LinesAside, LinesConnect DEF PcInv, PcTypes
<1>3. PcTypes' /\ PcByKind' /\ TurnTaken'
  BY <1>1, UnitsDiffer DEF PcInv, PcTypes, PcByKind, TurnTaken, Goto, Units, Connecting
<1> QED  BY <1>2, <1>3 DEF PcInv

LEMMA LinesTakeTurn == ASSUME PcInv, TakeTurn  PROVE PcInv'
<1> DEFINE u == Head(turnQueue)
<1>1. /\ u \in In(pc, {"turn"}) /\ Lists(turnQueue', In(pc, {"turn"}) \ {u})
      /\ Goto(u, "acquire") /\ queue' = Append(queue, u)
      /\ turn' = u /\ turn = None /\ UNCHANGED waiters
  BY ListsHead DEF TakeTurn, TurnFree, Connect, PcInv, Lines, admission
<1>2. u \in Dispatch /\ pc[u] = "turn" /\ u \in Units
  BY <1>1, UnitsDiffer DEF In, PcInv, PcByKind, PlainPc
<1> HIDE DEF u
<1>3. /\ In(pc', {"turn"}) = In(pc, {"turn"}) \ {u}
      /\ In(pc', {"admission"}) = In(pc, {"admission"})
      /\ In(pc', Connecting) = In(pc, Connecting) \cup {u}
  BY <1>1, <1>2 DEF In, Goto, PcInv, PcTypes, Connecting
<1>4. u \notin In(pc, Connecting)  BY <1>2 DEF In, Connecting
<1>5. Lists(queue', In(pc', Connecting))  BY <1>1, <1>3, <1>4, ListsAppend DEF PcInv, Lines
<1>6. Lines'  BY <1>1, <1>3, <1>5 DEF PcInv, Lines
<1>7. PcTypes' /\ PcByKind' /\ TurnTaken'
  BY <1>1, <1>2, UnitsDiffer DEF PcInv, PcTypes, PcByKind, TurnTaken, Goto, Units, Pc, Connecting
<1> QED  BY <1>6, <1>7 DEF PcInv

LEMMA LinesApply == ASSUME PcInv, NEW u \in Dispatch, Apply(u)  PROVE PcInv'
<1>1. u \in Units /\ pc[u] = "running" /\ UNCHANGED <<queue, turn>>  BY DEF Apply, Units
<1>2. u \notin In(pc, {"turn"}) /\ u \notin In(pc, {"admission"})  BY <1>1 DEF In
<1>3. PICK next \in {"turn", "admission"} :
        /\ Goto(u, next)
        /\ next = "turn" => turnQueue' = Append(turnQueue, u) /\ UNCHANGED waiters
        /\ next = "admission" => waiters' = Append(waiters, u) /\ UNCHANGED turnQueue
  BY DEF Apply
<1>4. In(pc', Connecting) = In(pc, Connecting)
  BY <1>1, <1>3 DEF In, Goto, PcInv, PcTypes, Connecting
<1>5. Lines'
  <2>1. CASE next = "turn"
    <3>1. /\ In(pc', {"turn"}) = In(pc, {"turn"}) \cup {u}
          /\ In(pc', {"admission"}) = In(pc, {"admission"})
      BY <1>1, <1>3, <2>1 DEF In, Goto, PcInv, PcTypes
    <3>2. Lists(Append(turnQueue, u), In(pc, {"turn"}) \cup {u})
      BY <1>2, ListsAppend DEF PcInv, Lines
    <3> QED  BY <1>1, <1>3, <1>4, <2>1, <3>1, <3>2 DEF PcInv, Lines
  <2>2. CASE next = "admission"
    <3>1. /\ In(pc', {"admission"}) = In(pc, {"admission"}) \cup {u}
          /\ In(pc', {"turn"}) = In(pc, {"turn"})
      BY <1>1, <1>3, <2>2 DEF In, Goto, PcInv, PcTypes
    <3>2. Lists(Append(waiters, u), In(pc, {"admission"}) \cup {u})
      BY <1>2, ListsAppend DEF PcInv, Lines
    <3> QED  BY <1>1, <1>3, <1>4, <2>2, <3>1, <3>2 DEF PcInv, Lines
  <2> QED  BY <2>1, <2>2
<1>6. PcTypes' /\ PcByKind' /\ TurnTaken'
  BY <1>1, <1>3, UnitsDiffer DEF PcInv, PcTypes, PcByKind, TurnTaken, Goto, Units, Pc, Connecting
<1> QED  BY <1>5, <1>6 DEF PcInv

LEMMA LinesSettle == ASSUME PcInv, NEW u \in Units, Settle(u)  PROVE PcInv'
<1>1. /\ pc[u] = "settle" /\ Leave /\ GotoAndAdmit(u, "running") /\ UNCHANGED <<queue, turn>>
  BY DEF Settle
<1>2. In(pc, Connecting) \ {u} = In(pc, Connecting)  BY <1>1 DEF In, Connecting
<1>3. Lines'  BY <1>1, <1>2, LinesLeave DEF PcInv, PcTypes, Lines
<1>4. waiters # <<>> => Head(waiters) \in Units /\ pc[Head(waiters)] = "admission"
  <2> SUFFICES ASSUME waiters # <<>>  PROVE Head(waiters) \in In(pc, {"admission"})
    BY DEF In
  <2> QED  BY ListsHead DEF PcInv, Lines
<1>5. \A v \in Units : \/ pc'[v] = pc[v] /\ v # u
                       \/ v = u /\ pc'[v] = "running"
                       \/ v # u /\ pc[v] = "admission" /\ pc'[v] = "turn"
  BY <1>1, <1>4 DEF GotoAndAdmit
<1>6. u \in Dispatch  BY <1>1, UnitsDiffer DEF PcInv, PcByKind, PlainPc
<1>7. pc' \in [Units -> Pc]  BY <1>1, <1>5 DEF GotoAndAdmit, PcInv, PcTypes, Pc
<1>8. PcByKind'  BY <1>5, <1>6, UnitsDiffer DEF PcInv, PcByKind, PlainPc, Units
<1>9. TurnTaken'  BY <1>1, <1>5 DEF PcInv, TurnTaken
<1> QED  BY <1>1, <1>3, <1>7, <1>8, <1>9 DEF PcInv, PcTypes

LEMMA LinesStep == PcInv /\ [Next]_vars => PcInv'
<1> SUFFICES ASSUME PcInv, [Next]_vars  PROVE PcInv'
  OBVIOUS
<1> USE DEF clients, admission, turns
<1>1. ASSUME NEW c \in Clients, Dropped(c) \/ LateRelease(c)  PROVE PcInv'
  BY <1>1 DEF Dropped, LateRelease, PcInv, PcTypes, Lines, PcByKind, TurnTaken
<1>2. ASSUME NEW u \in Units,
             Start(u) \/ Open(u) \/ Lock(u) \/ Nest(u) \/ Unnest(u) \/ EndTransaction(u)
      PROVE  PcInv'
  <2>1. u \in Plain => pc[u] \in PlainPc  BY DEF PcInv, PcByKind
  <2>2. (u \in Plain <=> u \notin Dispatch)  BY UnitsDiffer
  <2>3. CASE Start(u)
    BY <2>2, <2>3, LinesMove DEF Start, Connecting
  <2>4. CASE Open(u)
    <3>1. /\ pc[u] = "work" /\ UNCHANGED <<turn, waiters, turnQueue>>
          /\ \/ UNCHANGED queue /\ \E next \in {"locking", "settle"} : Goto(u, next)
             \/ Connect(u, "outer")
      BY <2>4 DEF Open, CheckOut
    <3> QED  BY <2>1, <3>1, LinesMove DEF Connecting, Pc, PlainPc
  <2>5. CASE Lock(u)
    BY <2>5, LinesMove DEF Lock, Connecting, Pc, PlainPc
  <2>6. CASE Nest(u)
    <3>1. /\ pc[u] = "fenced" /\ u \in Dispatch /\ UNCHANGED <<turn, waiters, turnQueue>>
          /\ \/ UNCHANGED queue /\ Goto(u, "inner")
             \/ Connect(u, "nested")
      BY <2>6 DEF Nest, CheckOut
    <3> QED  BY <2>2, <3>1, LinesMove DEF Connecting, Pc
  <2>7. CASE Unnest(u)
    BY <2>1, <2>7, LinesMove DEF Unnest, Connecting, Pc, PlainPc
  <2>8. CASE EndTransaction(u)
    BY <2>2, <2>8, LinesMove DEF EndTransaction, Connecting, Pc, PlainPc
  <2> QED  BY <1>2, <2>3, <2>4, <2>5, <2>6, <2>7, <2>8
<1>3. ASSUME NEW u \in Dispatch, Query(u) \/ QueryEnds(u) \/ End(u)  PROVE PcInv'
  <2>1. u \in Units /\ u \notin Plain  BY UnitsDiffer DEF Units
  <2> QED  BY <1>3, <2>1, LinesMove DEF Query, QueryEnds, End, Connecting, Pc
<1>4. CASE UNCHANGED vars
  BY <1>4 DEF vars, PcInv, PcTypes, Lines, PcByKind, TurnTaken
<1> QED
  BY <1>1, <1>2, <1>3, <1>4, LinesServe, LinesConnectFails, LinesTakeTurn, LinesApply, LinesSettle
  DEF Next

-----------------------------------------------------------------------------
(* Who holds what *)

ClientTypes == holder \in [Clients -> Units \cup {None}] /\ use \in [Clients -> Use]
ClientInv == ClientTypes /\ FreeAgrees /\ \A u \in Units : UnitHolds(u)

\* What a unit holds is its own affair, as long as clients go only from the
\* pool to it and back, and the others stay where they may hold the same.
OnlyItsClients(u) ==
  \A c \in Clients :
    /\ holder'[c] = u => holder[c] \in {u, None}
    /\ holder[c] = u => holder'[c] \in {u, None}
    /\ holder[c] # u /\ holder'[c] # u => holder'[c] = holder[c] /\ use'[c] = use[c]
OthersStay(u) ==
  \A v \in Units \ {u} : pc'[v] = pc[v] \/ (pc[v] = "admission" /\ pc'[v] = "turn")

LEMMA ClientMove ==
  ASSUME ClientInv, NEW u \in Units, OnlyItsClients(u), OthersStay(u),
         ClientTypes', FreeAgrees', UnitHolds(u)'
  PROVE  ClientInv'
<1> SUFFICES ASSUME NEW v \in Units, v # u  PROVE UnitHolds(v)'
  BY DEF ClientInv
<1>1. \A c \in Clients : /\ holder'[c] = v <=> holder[c] = v
                         /\ holder[c] = v => use'[c] = use[c]
  BY UnitsDiffer DEF OnlyItsClients
<1>2. /\ MayHold(pc'[v]) = MayHold(pc[v])
      /\ pc'[v] \in InTransaction <=> pc[v] \in InTransaction
  <2>1. CASE pc'[v] = pc[v]  BY <2>1
  <2>2. CASE pc[v] = "admission" /\ pc'[v] = "turn"
    BY <2>2 DEF MayHold, InTransaction
  <2> QED  BY <2>1, <2>2 DEF OthersStay
<1>3. HeldByPc(v)'  BY <1>1, <1>2 DEF ClientInv, UnitHolds, HeldByPc
<1>4. OneOfEach(v)'  BY <1>1 DEF ClientInv, UnitHolds, OneOfEach
<1>5. HasOuter(v)'  BY <1>1, <1>2 DEF ClientInv, UnitHolds, HasOuter
<1> QED  BY <1>3, <1>4, <1>5 DEF UnitHolds

LEMMA CheckedOut ==
  ASSUME ClientInv, NEW u \in Units, NEW S \in SUBSET Clients, NEW as \in Use \ {"free"},
         \A c \in S : holder[c] \in {u, None}, Becomes(S, u, as)
  PROVE  OnlyItsClients(u) /\ ClientTypes' /\ FreeAgrees'
BY UnitsDiffer DEF ClientInv, ClientTypes, Becomes, OnlyItsClients, FreeAgrees

LEMMA Returned ==
  ASSUME ClientInv, NEW u \in Units, NEW S \in SUBSET Clients,
         \A c \in S : holder[c] = u, ToPool(S)
  PROVE  OnlyItsClients(u) /\ ClientTypes' /\ FreeAgrees'
BY UnitsDiffer DEF ClientInv, ClientTypes, ToPool, Becomes, OnlyItsClients, FreeAgrees, Use

LEMMA Untouched ==
  ASSUME ClientInv, NEW u \in Units, UNCHANGED clients
  PROVE  OnlyItsClients(u) /\ ClientTypes' /\ FreeAgrees'
BY DEF ClientInv, ClientTypes, clients, OnlyItsClients, FreeAgrees

\* The three ways a step treats the clients of its unit: it leaves them, it
\* returns some, or it puts one to a new use.
LEMMA UnitStays ==
  ASSUME ClientInv, NEW u \in Units, UNCHANGED clients,
         \A c \in Clients : holder[c] = u => use[c] \in MayHold(pc'[u]),
         pc'[u] \in InTransaction => pc[u] \in InTransaction
  PROVE  UnitHolds(u)'
BY DEF ClientInv, clients, UnitHolds, HeldByPc, OneOfEach, HasOuter

LEMMA UnitReturns ==
  ASSUME ClientInv, NEW u \in Units, NEW S \in SUBSET Clients, ToPool(S),
         \A c \in Clients \ S : holder[c] = u => use[c] \in MayHold(pc'[u]),
         pc'[u] \in InTransaction =>
           pc[u] \in InTransaction /\ \A c \in S : use[c] \notin OuterUse
  PROVE  UnitHolds(u)'
<1>1. \A c \in Clients : holder'[c] = u => holder[c] = u /\ c \notin S /\ use'[c] = use[c]
  BY UnitsDiffer DEF ToPool, Becomes, ClientInv, ClientTypes
<1>2. HeldByPc(u)'  BY <1>1 DEF ClientInv, UnitHolds, HeldByPc
<1>3. OneOfEach(u)'  BY <1>1 DEF ClientInv, UnitHolds, OneOfEach
<1>4. HasOuter(u)'
  BY DEF ClientInv, ClientTypes, UnitHolds, HasOuter, ToPool, Becomes
<1> QED  BY <1>2, <1>3, <1>4 DEF UnitHolds

LEMMA UnitTakes ==
  ASSUME ClientInv, NEW u \in Units, NEW c \in Clients, NEW as, Becomes({c}, u, as),
         as \in MayHold(pc'[u]), u \in Plain => as = "own",
         \A d \in Clients \ {c} : holder[d] = u =>
           use[d] \in MayHold(pc'[u]) /\ ~SameKind(use[d], as),
         pc'[u] \in InTransaction =>
           \/ as \in OuterUse
           \/ \E d \in Clients \ {c} : holder[d] = u /\ use[d] \in OuterUse
  PROVE  UnitHolds(u)'
<1>1. \A d \in Clients : IF d = c THEN holder'[d] = u /\ use'[d] = as
                                  ELSE holder'[d] = holder[d] /\ use'[d] = use[d]
  BY DEF Becomes, ClientInv, ClientTypes
<1>2. HeldByPc(u)'  BY <1>1 DEF ClientInv, UnitHolds, HeldByPc
<1>3. OneOfEach(u)'
  <2> SUFFICES ASSUME NEW d \in Clients, NEW e \in Clients, holder'[d] = u, holder'[e] = u,
                      SameKind(use'[d], use'[e])
               PROVE  d = e
    BY DEF OneOfEach
  <2>1. SameKind(use'[e], use'[d])  BY DEF SameKind
  <2>2. CASE d = c \/ e = c  BY <1>1, <2>1, <2>2
  <2>3. CASE d # c /\ e # c
    <3>1. holder[d] = u /\ holder[e] = u /\ SameKind(use[d], use[e])  BY <1>1, <2>3
    <3> QED  BY <3>1 DEF ClientInv, UnitHolds, OneOfEach
  <2> QED  BY <2>2, <2>3
<1>4. HasOuter(u)'  BY <1>1 DEF HasOuter
<1> QED  BY <1>2, <1>3, <1>4 DEF UnitHolds

\* What is known of a unit's clients from where it is.
LEMMA Held ==
  ASSUME ClientInv, NEW u \in Units, NEW c \in Clients, holder[c] = u
  PROVE  use[c] \in MayHold(pc[u]) /\ use[c] \in Use \ {"free"} /\ (u \in Plain => use[c] = "own")
BY UnitsDiffer DEF ClientInv, ClientTypes, FreeAgrees, UnitHolds, HeldByPc

LEMMA Kinds ==
  \A a, b : SameKind(a, b) <=> \/ a = "session" /\ b = "session"
                               \/ a \in {"lent", "own"} /\ b \in {"lent", "own"}
                               \/ a \in {"inner", "spare"} /\ b \in {"inner", "spare"}
BY DEF SameKind, OuterUse, InnerUse

LEMMA ClientsServe ==
  ASSUME PcInv, ClientInv, NEW c \in Clients, Serve(c)
  PROVE  ClientInv'
<1>0. Head(queue) \in In(pc, Connecting)
  BY ListsHead DEF Serve, PcInv, Lines
<1>1. PICK u \in Units : u = Head(queue) /\ pc[u] \in Connecting
  BY <1>0 DEF In
<1>2. /\ Becomes({c}, u, ServedAs(u)) /\ holder[c] = None
      /\ \/ pc[u] # "acquire" /\ Goto(u, GoesOn(u))
         \/ pc[u] = "acquire" /\ Goto(u, "work")
         \/ pc[u] = "acquire" /\ UNCHANGED pc
  BY <1>1 DEF Serve, Free
<1>3. u \in Plain => pc[u] = "begin"
  BY <1>1 DEF PcInv, PcByKind, PlainPc, Connecting
<1>4. pc'[u] = pc[u] \/ Goto(u, pc'[u])  BY <1>1, <1>2 DEF Goto, PcInv, PcTypes
<1>5. OthersStay(u)  BY <1>2 DEF OthersStay, Goto, PcInv, PcTypes
<1>6. ServedAs(u) \in Use \ {"free"}  BY DEF ServedAs, Use
<1>7. OnlyItsClients(u) /\ ClientTypes' /\ FreeAgrees'
  BY <1>1, <1>2, <1>6, CheckedOut
<1>8. /\ pc[u] = "acquire" => pc'[u] \in {"acquire", "work"}
      /\ pc[u] # "acquire" => pc'[u] = GoesOn(u)
  BY <1>1, <1>2 DEF Goto, PcInv, PcTypes
<1>9. ASSUME NEW d \in Clients \ {c}, holder[d] = u
      PROVE  use[d] \in MayHold(pc'[u]) /\ ~SameKind(use[d], ServedAs(u))
  BY <1>1, <1>8, <1>9, Held, Kinds DEF MayHold, InTransaction, Connecting, ServedAs, GoesOn
<1>10. /\ ServedAs(u) \in MayHold(pc'[u])
       /\ u \in Plain => ServedAs(u) = "own"
  BY <1>1, <1>3, <1>8 DEF MayHold, InTransaction, Connecting, ServedAs, GoesOn
<1>11. pc'[u] \in InTransaction =>
         \/ ServedAs(u) \in OuterUse
         \/ \E d \in Clients \ {c} : holder[d] = u /\ use[d] \in OuterUse
  <2>1. CASE pc[u] = "nested"
    <3>1. PICK d \in Clients : holder[d] = u /\ use[d] \in OuterUse
      BY <1>1, <2>1 DEF ClientInv, UnitHolds, HasOuter, InTransaction
    <3> QED  BY <1>1, <1>2, <3>1, UnitsDiffer
  <2>2. CASE pc[u] # "nested"
    BY <1>1, <1>8, <2>2 DEF InTransaction, Connecting, ServedAs, GoesOn, OuterUse
  <2> QED  BY <2>1, <2>2
<1>12. UnitHolds(u)'
  BY <1>1, <1>2, <1>9, <1>10, <1>11, UnitTakes
<1> QED  BY <1>1, <1>5, <1>7, <1>12, ClientMove

LEMMA ClientsConnectFails ==
  ASSUME PcInv, ClientInv, NEW u \in Units, ConnectFails(u)
  PROVE  ClientInv'
<1>1. CASE pc[u] = "acquire"
  <2>1. ToPool(Parked(u)) /\ GotoAndAdmit(u, "running")
    BY <1>1 DEF ConnectFails, ReturnPartial
  <2>2. pc'[u] = "running" /\ OthersStay(u)
    <3>1. waiters # <<>> => Head(waiters) \in In(pc, {"admission"})
      BY ListsHead DEF PcInv, Lines
    <3> QED  BY <2>1, <3>1 DEF GotoAndAdmit, OthersStay, In
  <2>3. Parked(u) \subseteq Clients /\ \A c \in Parked(u) : holder[c] = u
    BY DEF Parked, Of
  <2>4. OnlyItsClients(u) /\ ClientTypes' /\ FreeAgrees'  BY <2>1, <2>3, Returned
  <2>5. \A c \in Clients \ Parked(u) : holder[c] = u => use[c] \in MayHold(pc'[u])
    BY <1>1, <2>2, Held DEF Parked, Of, MayHold, InTransaction
  <2>6. pc'[u] \notin InTransaction  BY <2>2 DEF InTransaction
  <2>7. UnitHolds(u)'  BY <2>1, <2>3, <2>5, <2>6, UnitReturns
  <2> QED  BY <2>2, <2>4, <2>7, ClientMove
<1>2. CASE pc[u] # "acquire"
  <2>1. pc[u] \in Connecting /\ Goto(u, BacksOff(u)) /\ UNCHANGED clients
    BY <1>2 DEF ConnectFails
  <2>2. pc'[u] = BacksOff(u) /\ OthersStay(u)
    BY <2>1 DEF Goto, OthersStay, PcInv, PcTypes
  <2>3. OnlyItsClients(u) /\ ClientTypes' /\ FreeAgrees'  BY <2>1, Untouched
  <2>4. \A c \in Clients : holder[c] = u => use[c] \in MayHold(pc'[u])
    BY <1>2, <2>1, <2>2, Held DEF MayHold, InTransaction, Connecting, BacksOff
  <2>5. pc'[u] \in InTransaction => pc[u] \in InTransaction
    BY <1>2, <2>1, <2>2 DEF InTransaction, Connecting, BacksOff
  <2>6. UnitHolds(u)'  BY <2>1, <2>4, <2>5, UnitStays
  <2> QED  BY <2>2, <2>3, <2>6, ClientMove
<1> QED  BY <1>1, <1>2

\* A checkout of a unit that may also find nothing of its reservation left.
LEMMA ClientsCheckOut ==
  ASSUME PcInv, ClientInv, NEW u \in Dispatch,
         \/ pc[u] = "work" /\ CheckOut(u, "lent", "locking", "outer")
         \/ pc[u] = "fenced" /\ CheckOut(u, "inner", "inner", "nested")
  PROVE  ClientInv'
<1>1. u \in Units /\ u \notin Plain  BY UnitsDiffer DEF Units
<1>2. PICK as \in {"lent", "inner"}, next \in {"locking", "inner"}, waits \in {"outer", "nested"} :
        /\ \/ pc[u] = "work" /\ as = "lent" /\ next = "locking" /\ waits = "outer"
           \/ pc[u] = "fenced" /\ as = "inner" /\ next = "inner" /\ waits = "nested"
        /\ CheckOut(u, as, next, waits)
  OBVIOUS
<1>3. CASE Parked(u) = {} /\ Connect(u, waits) /\ UNCHANGED clients
  <2>1. pc'[u] = waits /\ OthersStay(u)
    BY <1>1, <1>3 DEF Connect, Goto, OthersStay, PcInv, PcTypes
  <2>2. OnlyItsClients(u) /\ ClientTypes' /\ FreeAgrees'  BY <1>1, <1>3, Untouched
  <2>3. \A c \in Clients : holder[c] = u => use[c] \in MayHold(pc'[u])
    BY <1>1, <1>2, <1>3, <2>1, Held DEF Parked, Of, MayHold, InTransaction
  <2>4. pc'[u] \in InTransaction => pc[u] \in InTransaction
    BY <1>2, <2>1 DEF InTransaction
  <2>5. UnitHolds(u)'  BY <1>1, <1>3, <2>3, <2>4, UnitStays
  <2> QED  BY <1>1, <2>1, <2>2, <2>5, ClientMove
<1>4. ASSUME NEW c \in Parked(u), Becomes({c}, u, as), Goto(u, next)
      PROVE  ClientInv'
  <2>1. pc'[u] = next /\ OthersStay(u)
    BY <1>1, <1>4 DEF Goto, OthersStay, PcInv, PcTypes
  <2>2. c \in Clients /\ holder[c] = u /\ use[c] = "parked" /\ as \in Use \ {"free"}
    BY <1>2 DEF Parked, Of, Use
  <2>3. OnlyItsClients(u) /\ ClientTypes' /\ FreeAgrees'
    <3>1. {c} \in SUBSET Clients /\ \A d \in {c} : holder[d] \in {u, None}  BY <2>2
    <3>2. as \in Use \ {"free"}  BY <2>2
    <3> QED  BY <1>1, <1>4, <3>1, <3>2, CheckedOut
  <2>4. as \in MayHold(pc'[u])  BY <1>2, <2>1 DEF MayHold, InTransaction
  <2>5. ASSUME NEW d \in Clients \ {c}, holder[d] = u
        PROVE  use[d] \in MayHold(pc'[u]) /\ ~SameKind(use[d], as)
    BY <1>1, <1>2, <2>1, <2>5, Held, Kinds DEF MayHold, InTransaction
  <2>6. \/ as \in OuterUse
        \/ \E d \in Clients \ {c} : holder[d] = u /\ use[d] \in OuterUse
    <3>1. CASE pc[u] = "work"  BY <1>2, <3>1 DEF OuterUse
    <3>2. CASE pc[u] = "fenced"
      <4>1. PICK d \in Clients : holder[d] = u /\ use[d] \in OuterUse
        BY <1>1, <3>2 DEF ClientInv, UnitHolds, HasOuter, InTransaction
      <4> QED  BY <2>2, <4>1 DEF OuterUse
    <3> QED  BY <1>2, <3>1, <3>2
  <2>7. UnitHolds(u)'
    BY <1>1, <1>4, <2>2, <2>4, <2>5, <2>6, UnitTakes
  <2> QED  BY <1>1, <2>1, <2>3, <2>7, ClientMove
<1> QED  BY <1>2, <1>3, <1>4 DEF CheckOut

\* The return of an outer or inner client: the unit has no other of its kind.
LEMMA ClientsCheckIn ==
  ASSUME PcInv, ClientInv, NEW u \in Units, NEW c \in Clients, NEW next,
         \/ pc[u] = "inner" /\ c \in Inner(u) /\ next = "fenced"
         \/ /\ pc[u] \in {"locking", "fenced", "inner"} /\ c \in Outer(u)
            /\ next = IF u \in Dispatch THEN "settle" ELSE "idle",
         CheckIn(u, c), Goto(u, next)
  PROVE  ClientInv'
<1>1. pc'[u] = next /\ OthersStay(u)
  BY DEF Goto, OthersStay, PcInv, PcTypes
<1>2. /\ holder[c] = u /\ use[c] \in OuterUse \cup InnerUse
      /\ pc[u] = "inner" /\ next = "fenced" => use[c] \in InnerUse
      /\ ~(pc[u] = "inner" /\ next = "fenced") => use[c] \in OuterUse
      /\ u \in Plain => use[c] = "own" /\ next = "idle"
  <2>1. u \in Plain => use[c] = "own" /\ pc[u] # "inner"
    BY Held DEF PcInv, PcByKind, PlainPc, Inner, Outer, Of
  <2> QED  BY <2>1, UnitsDiffer DEF Inner, Outer, Of, InnerUse, OuterUse
<1>3. ASSUME NEW d \in Clients \ {c}, holder[d] = u
      PROVE  use[d] \in MayHold(pc'[u])
  <2>1. ~SameKind(use[c], use[d])
    BY <1>2, <1>3 DEF ClientInv, UnitHolds, OneOfEach
  <2>2. use[d] \in MayHold(pc[u]) /\ (u \in Plain => use[d] = "own")
    BY <1>3, Held
  <2> QED  BY <1>1, <1>2, <2>1, <2>2, Kinds, UnitsDiffer DEF MayHold, InTransaction, OuterUse, InnerUse
<1>4. pc'[u] \in InTransaction => use[c] \in InnerUse /\ pc[u] = "inner"
  BY <1>1, <1>2, UnitsDiffer DEF InTransaction
<1>5. CASE ToPool({c})
  <2>1. OnlyItsClients(u) /\ ClientTypes' /\ FreeAgrees'  BY <1>2, <1>5, Returned
  <2>2. pc'[u] \in InTransaction => pc[u] \in InTransaction /\ use[c] \notin OuterUse
    BY <1>4 DEF InTransaction, InnerUse, OuterUse
  <2>3. UnitHolds(u)'  BY <1>3, <1>5, <2>2, UnitReturns
  <2> QED  BY <1>1, <2>1, <2>3, ClientMove
<1>6. CASE Becomes({c}, u, "parked") /\ use[c] \in {"lent", "inner"}
  <2>1. OnlyItsClients(u) /\ ClientTypes' /\ FreeAgrees'
    BY <1>2, <1>6, CheckedOut DEF Use
  <2>2. u \notin Plain  BY <1>2, <1>6
  <2>3. "parked" \in MayHold(pc'[u])
    BY <1>1, <2>2, UnitsDiffer DEF MayHold, InTransaction
  <2>4. \A a : ~SameKind(a, "parked")  BY Kinds
  <2>5. pc'[u] \in InTransaction =>
          \E d \in Clients \ {c} : holder[d] = u /\ use[d] \in OuterUse
    <3> SUFFICES ASSUME pc'[u] \in InTransaction
                 PROVE  \E d \in Clients \ {c} : holder[d] = u /\ use[d] \in OuterUse
      OBVIOUS
    <3>1. PICK d \in Clients : holder[d] = u /\ use[d] \in OuterUse
      BY <1>4 DEF ClientInv, UnitHolds, HasOuter, InTransaction
    <3> QED  BY <1>4, <3>1 DEF InnerUse, OuterUse
  <2>6. UnitHolds(u)'
    BY <1>3, <1>6, <2>2, <2>3, <2>4, <2>5, UnitTakes
  <2> QED  BY <1>1, <2>1, <2>6, ClientMove
<1> QED  BY <1>5, <1>6 DEF CheckIn

LEMMA ClientsSettle == ASSUME PcInv, ClientInv, NEW u \in Units, Settle(u)  PROVE ClientInv'
<1>1. pc[u] = "settle" /\ GotoAndAdmit(u, "running")  BY DEF Settle
<1>2. pc'[u] = "running" /\ OthersStay(u)
  <2>1. waiters # <<>> => Head(waiters) \in In(pc, {"admission"})
    BY ListsHead DEF PcInv, Lines
  <2> QED  BY <1>1, <2>1 DEF GotoAndAdmit, OthersStay, In
<1>3. ASSUME NEW c \in Clients
      PROVE  /\ holder'[c] = IF holder[c] = u /\ use[c] = "parked" THEN None ELSE holder[c]
             /\ holder[c] # u => use'[c] = use[c]
             /\ holder[c] = u => use'[c] = IF use[c] = "parked" THEN "free"
                                           ELSE IF use[c] \in InnerUse THEN "late" ELSE use[c]
  BY DEF Settle, Parked, Inner, Of, InnerUse
<1>4. ClientTypes'
  <2>1. holder' \in [Clients -> Units \cup {None}]
    BY DEF Settle, Parked, Of, ClientInv, ClientTypes
  <2>2. use' \in [Clients -> Use]
    BY DEF Settle, ClientInv, ClientTypes, Use
  <2> QED  BY <2>1, <2>2 DEF ClientTypes
<1>5. FreeAgrees'
  BY <1>3, UnitsDiffer DEF ClientInv, FreeAgrees, InnerUse
<1>6. OnlyItsClients(u)  BY <1>3, UnitsDiffer DEF OnlyItsClients
<1>7. ASSUME NEW c \in Clients, holder'[c] = u
      PROVE  /\ holder[c] = u /\ use'[c] \in {"session", "late"}
             /\ use'[c] = "session" => use[c] = "session"
  <2>1. holder[c] = u /\ use[c] # "parked"  BY <1>3, <1>7, UnitsDiffer
  <2>2. use[c] \in {"late", "session", "inner", "spare"}
    BY <1>1, <2>1, Held DEF MayHold, InTransaction
  <2> QED  BY <1>3, <2>1, <2>2 DEF InnerUse
<1>8. u \notin Plain  BY <1>1 DEF PcInv, PcByKind, PlainPc
<1>9. HeldByPc(u)'  BY <1>2, <1>7, <1>8 DEF HeldByPc, MayHold, InTransaction
<1>10. OneOfEach(u)'
  <2> SUFFICES ASSUME NEW c \in Clients, NEW d \in Clients, holder'[c] = u, holder'[d] = u,
                      SameKind(use'[c], use'[d])
               PROVE  c = d
    BY DEF OneOfEach
  <2>1. use[c] = "session" /\ use[d] = "session" /\ holder[c] = u /\ holder[d] = u
    BY <1>7, Kinds
  <2>2. SameKind(use[c], use[d])  BY <2>1, Kinds
  <2> QED  BY <2>1, <2>2 DEF ClientInv, UnitHolds, OneOfEach
<1>11. HasOuter(u)'  BY <1>2 DEF HasOuter, InTransaction
<1> QED  BY <1>2, <1>4, <1>5, <1>6, <1>9, <1>10, <1>11, ClientMove DEF UnitHolds

\* A client of u goes back to the pool while u stays where it is.
LEMMA ClientsGone ==
  ASSUME PcInv, ClientInv, NEW c \in Clients, use[c] \in {"parked", "late"}, ToPool({c}), UNCHANGED pc
  PROVE  ClientInv'
<1>1. PICK u \in Units : u = holder[c]
  BY DEF ClientInv, ClientTypes, FreeAgrees
<1>2. OthersStay(u)  BY DEF OthersStay
<1>3. {c} \in SUBSET Clients /\ \A d \in {c} : holder[d] = u  BY <1>1
<1>4. OnlyItsClients(u) /\ ClientTypes' /\ FreeAgrees'  BY <1>3, Returned
<1>5. \A d \in Clients \ {c} : holder[d] = u => use[d] \in MayHold(pc'[u])  BY Held
<1>6. use[c] \notin OuterUse  BY DEF OuterUse
<1>7. UnitHolds(u)'  BY <1>3, <1>5, <1>6, UnitReturns
<1> QED  BY <1>2, <1>4, <1>7, ClientMove

\* A unit that leaves its clients alone.
LEMMA ClientsStay ==
  ASSUME PcInv, ClientInv, NEW u \in Units, NEW next, Goto(u, next), UNCHANGED clients,
         \/ pc[u] = "idle" /\ next \in {"session", "begin"} /\ (u \in Plain <=> next = "begin")
         \/ pc[u] = "running" /\ next \in {"query", "turn", "admission"}
         \/ pc[u] = "turn" /\ next = "acquire"
         \/ pc[u] = "work" /\ next = "settle"
         \/ pc[u] = "locking" /\ next = "fenced"
  PROVE  ClientInv'
<1>1. pc'[u] = next /\ OthersStay(u)  BY DEF Goto, OthersStay, PcInv, PcTypes
<1>2. OnlyItsClients(u) /\ ClientTypes' /\ FreeAgrees'  BY Untouched
<1>3. \A c \in Clients : holder[c] = u => use[c] \in MayHold(pc'[u])
  BY <1>1, Held DEF MayHold, InTransaction
<1>4. pc'[u] \in InTransaction => pc[u] \in InTransaction  BY <1>1 DEF InTransaction
<1>5. UnitHolds(u)'  BY <1>3, <1>4, UnitStays
<1> QED  BY <1>1, <1>2, <1>5, ClientMove

\* The ends of a read and of a run return the one client they had.
LEMMA ClientsEnd ==
  ASSUME PcInv, ClientInv, NEW u \in Dispatch, QueryEnds(u) \/ End(u)
  PROVE  ClientInv'
<1>1. PICK as \in {"own", "session"} :
        /\ IF as = "own" THEN pc[u] = "reading" /\ Goto(u, "running")
                         ELSE pc[u] = "running" /\ Goto(u, "idle")
        /\ ToPool(Of(u, as))
  BY DEF QueryEnds, End
<1>2. u \in Units /\ u \notin Plain  BY UnitsDiffer DEF Units
<1>3. /\ OthersStay(u)
      /\ pc'[u] = IF as = "own" THEN "running" ELSE "idle"
  BY <1>1, <1>2 DEF Goto, OthersStay, PcInv, PcTypes
<1>4. Of(u, as) \in SUBSET Clients /\ \A c \in Of(u, as) : holder[c] = u  BY DEF Of
<1>5. OnlyItsClients(u) /\ ClientTypes' /\ FreeAgrees'  BY <1>1, <1>2, <1>4, Returned
<1>6. \A c \in Clients \ Of(u, as) : holder[c] = u => use[c] \in MayHold(pc'[u])
  BY <1>1, <1>2, <1>3, Held DEF Of, MayHold, InTransaction
<1>7. pc'[u] \notin InTransaction  BY <1>1, <1>3 DEF InTransaction
<1>8. UnitHolds(u)'  BY <1>1, <1>2, <1>4, <1>6, <1>7, UnitReturns
<1> QED  BY <1>2, <1>3, <1>5, <1>8, ClientMove

LEMMA ClientsStep == PcInv /\ ClientInv /\ [Next]_vars => ClientInv'
<1> SUFFICES ASSUME PcInv, ClientInv, [Next]_vars  PROVE ClientInv'
  OBVIOUS
<1>0. \A u \in Units : u \in Dispatch <=> u \notin Plain  BY UnitsDiffer
<1>1. ASSUME NEW c \in Clients, Dropped(c) \/ LateRelease(c)  PROVE ClientInv'
  BY <1>1, ClientsGone DEF Dropped, LateRelease
<1>2. ASSUME NEW u \in Units,
             Start(u) \/ Open(u) \/ Lock(u) \/ Nest(u) \/ Unnest(u) \/ EndTransaction(u)
      PROVE  ClientInv'
  <2>1. CASE Start(u)
    BY <1>0, <2>1, ClientsStay DEF Start, Connect
  <2>2. CASE Open(u)
    <3>1. u \in Dispatch  BY <1>0, <2>2 DEF Open, PcInv, PcByKind, PlainPc
    <3>2. CASE CheckOut(u, "lent", "locking", "outer")
      BY <2>2, <3>1, <3>2, ClientsCheckOut DEF Open
    <3>3. CASE Goto(u, "settle") /\ UNCHANGED clients
      BY <2>2, <3>3, ClientsStay DEF Open
    <3> QED  BY <2>2, <3>2, <3>3 DEF Open
  <2>3. CASE Lock(u)
    BY <2>3, ClientsStay DEF Lock
  <2>4. CASE Nest(u)
    BY <2>4, ClientsCheckOut DEF Nest
  <2>5. CASE Unnest(u)
    <3>1. PICK c \in Inner(u) : CheckIn(u, c)  BY <2>5 DEF Unnest
    <3>2. c \in Clients  BY DEF Inner, Of
    <3> QED  BY <2>5, <3>1, <3>2, ClientsCheckIn DEF Unnest
  <2>6. CASE EndTransaction(u)
    <3>1. PICK c \in Outer(u) : CheckIn(u, c)  BY <2>6 DEF EndTransaction
    <3>2. c \in Clients  BY DEF Outer, Of
    <3>3. PICK next : next = (IF u \in Dispatch THEN "settle" ELSE "idle") /\ Goto(u, next)
      BY <2>6 DEF EndTransaction
    <3> QED  BY <2>6, <3>1, <3>2, <3>3, ClientsCheckIn DEF EndTransaction
  <2> QED  BY <1>2, <2>1, <2>2, <2>3, <2>4, <2>5, <2>6
<1>3. ASSUME NEW u \in Dispatch, Query(u) \/ Apply(u)  PROVE ClientInv'
  <2>1. u \in Units  BY DEF Units
  <2> QED  BY <1>3, <2>1, ClientsStay DEF Query, Apply, Connect
<1>4. CASE TakeTurn
  <2>1. Head(turnQueue) \in In(pc, {"turn"})
    BY <1>4, ListsHead DEF TakeTurn, PcInv, Lines
  <2>2. PICK u \in Units : u = Head(turnQueue) /\ pc[u] = "turn"  BY <2>1 DEF In
  <2>3. Goto(u, "acquire") /\ UNCHANGED clients  BY <1>4, <2>2 DEF TakeTurn, Connect
  <2> QED  BY <2>2, <2>3, ClientsStay
<1>5. CASE UNCHANGED vars
  BY <1>5 DEF vars, ClientInv, ClientTypes, FreeAgrees, UnitHolds, HeldByPc, OneOfEach, HasOuter
<1> QED
  BY <1>1, <1>2, <1>3, <1>4, <1>5, ClientsServe, ClientsConnectFails, ClientsSettle, ClientsEnd
  DEF Next

-----------------------------------------------------------------------------
(* What is left of a reservation *)

ReserveInv == lost \in SUBSET Dispatch /\ \A u \in Units : Reservation(u)

LEMMA ReserveMove ==
  ASSUME ReserveInv, NEW u \in Units, OnlyItsClients(u), OthersStay(u),
         lost \ {u} \subseteq lost', lost' \in SUBSET Dispatch, Reservation(u)'
  PROVE  ReserveInv'
<1> SUFFICES ASSUME NEW v \in Units, v # u  PROVE Reservation(v)'
  BY DEF ReserveInv
<1>1. \A c \in Clients : /\ holder'[c] = v <=> holder[c] = v
                         /\ holder[c] = v => use'[c] = use[c]
  BY UnitsDiffer DEF OnlyItsClients
<1>2. pc'[v] = pc[v] \/ (pc[v] = "admission" /\ pc'[v] = "turn")
  BY DEF OthersStay
<1>3. v \in lost => v \in lost'  OBVIOUS
<1>4. Kept(v)'
  BY <1>1, <1>2, <1>3 DEF ReserveInv, Reservation, Kept, Reserving, InTransaction
<1>5. Short(v)'
  <2>1. Parked(v)' = Parked(v)  BY <1>1 DEF Parked, Of
  <2> QED  BY <1>2, <2>1 DEF ReserveInv, Reservation, Short
<1>6. LostIfShort(v)'  BY <1>2, <1>3 DEF ReserveInv, Reservation, LostIfShort
<1> QED  BY <1>4, <1>5, <1>6 DEF Reservation

\* A unit that is not where a reservation matters.
LEMMA NoReservation ==
  ASSUME NEW u \in Units, pc'[u] \notin Reserving \cup {"acquire"} \/ u \in Plain, pc'[u] # "acquire",
         pc'[u] \notin {"nested", "outer"}
  PROVE  Reservation(u)'
BY UnitsDiffer DEF Reservation, Kept, Short, LostIfShort, Reserving, InTransaction

\* A unit whose reservation is intact where it needs one has a client parked.
LEMMA KeptIsParked ==
  ASSUME ClientInv, ReserveInv, NEW u \in Dispatch, pc[u] \in {"work", "fenced"}, u \notin lost
  PROVE  Parked(u) # {}
<1>1. u \in Units  BY DEF Units
<1>2. PICK c, d \in Clients :
        c # d /\ holder[c] = u /\ holder[d] = u /\ use[c] \in ReservedUse /\ use[d] \in ReservedUse
  BY <1>1 DEF ReserveInv, Reservation, Kept, Reserving, InTransaction
<1>3. ~SameKind(use[c], use[d])
  BY <1>1, <1>2 DEF ClientInv, UnitHolds, OneOfEach
<1>4. use[c] \in MayHold(pc[u]) /\ use[d] \in MayHold(pc[u])  BY <1>1, <1>2, Held
<1>5. use[c] = "parked" \/ use[d] = "parked"
  BY <1>2, <1>3, <1>4, Kinds DEF MayHold, InTransaction, ReservedUse
<1> QED  BY <1>2, <1>5 DEF Parked, Of

\* A unit whose clients, as far as they are reserved, stay so.
LEMMA KeptStays ==
  ASSUME ReserveInv, NEW u \in Units,
         \A c \in Clients : holder[c] = u /\ use[c] \in ReservedUse =>
                              holder'[c] = u /\ use'[c] \in ReservedUse,
         lost \subseteq lost',
         pc[u] \in Reserving \/ pc'[u] \notin Reserving,
         pc'[u] # "acquire",
         pc'[u] \in {"nested", "outer"} => u \in lost
  PROVE  Reservation(u)'
<1>1. Kept(u)'  BY DEF ReserveInv, Reservation, Kept
<1> QED  BY <1>1 DEF Reservation, Short, LostIfShort

LEMMA ReserveServe ==
  ASSUME PcInv, ClientInv, ReserveInv, NEW c \in Clients, Serve(c)
  PROVE  ReserveInv'
<1>0. Head(queue) \in In(pc, Connecting)
  BY ListsHead DEF Serve, PcInv, Lines
<1>1. PICK u \in Units : u = Head(queue) /\ pc[u] \in Connecting
  BY <1>0 DEF In
<1>2. /\ Becomes({c}, u, ServedAs(u)) /\ holder[c] = None /\ lost' = lost
      /\ \/ pc[u] # "acquire" /\ Goto(u, GoesOn(u))
         \/ pc[u] = "acquire" /\ Complete(u) /\ Goto(u, "work")
         \/ pc[u] = "acquire" /\ ~Complete(u) /\ UNCHANGED pc
  BY <1>1 DEF Serve, Free
<1>3. OthersStay(u)  BY <1>2 DEF OthersStay, Goto, PcInv, PcTypes
<1>4. ServedAs(u) \in Use \ {"free"}  BY DEF ServedAs, Use
<1>5. OnlyItsClients(u)  BY <1>1, <1>2, <1>4, CheckedOut
<1>6. \A d \in Clients : IF d = c THEN holder'[d] = u /\ use'[d] = ServedAs(u)
                                  ELSE holder'[d] = holder[d] /\ use'[d] = use[d]
  BY <1>2 DEF Becomes, ClientInv, ClientTypes
<1>7. IsFiniteSet(Parked(u))
  <2>1. Parked(u) \in SUBSET Clients  BY DEF Parked, Of
  <2> QED  BY <2>1, PoolConstants, FS_Subset
<1>8. Cardinality(Parked(u)) \in Nat /\ c \notin Parked(u)
  BY <1>2, <1>7, FS_CardinalityType, UnitsDiffer DEF Parked, Of
<1>9. CASE pc[u] # "acquire"
  <2>1. pc'[u] = GoesOn(u)  BY <1>2, <1>9 DEF Goto, PcInv, PcTypes
  <2>2. u \in Plain <=> pc[u] = "begin"
    BY <1>1, UnitsDiffer DEF PcInv, PcByKind, PlainPc, Connecting
  <2>3. CASE pc[u] \in {"outer", "nested"}
    <3>1. u \in lost /\ pc'[u] \notin {"nested", "outer", "acquire"}
      BY <2>1, <2>3 DEF ReserveInv, Reservation, LostIfShort, GoesOn
    <3> QED  BY <1>2, <1>3, <1>5, <3>1, ReserveMove DEF ReserveInv, Reservation, Kept, Short, LostIfShort
  <2>4. CASE pc[u] \notin {"outer", "nested"}
    <3>1. /\ pc'[u] \notin Reserving \cup {"acquire"} \/ u \in Plain
          /\ pc'[u] \notin {"acquire", "nested", "outer"}
      BY <1>1, <1>9, <2>1, <2>2, <2>4 DEF Connecting, GoesOn, Reserving, InTransaction
    <3>2. Reservation(u)'  BY <3>1, NoReservation
    <3> QED  BY <1>2, <1>3, <1>5, <3>2, ReserveMove DEF ReserveInv
  <2> QED  BY <2>3, <2>4
<1>10. CASE pc[u] = "acquire" /\ Complete(u) /\ Goto(u, "work")
  <2>1. pc'[u] = "work"  BY <1>10 DEF Goto, PcInv, PcTypes
  <2>2. Parked(u) # {}
    BY <1>8, <1>10, PoolConstants, FS_EmptySet DEF Complete
  <2>3. PICK d \in Clients : holder[d] = u /\ use[d] = "parked"
    BY <2>2 DEF Parked, Of
  <2>4. d # c  BY <1>2, <2>3, UnitsDiffer
  <2>5. Kept(u)'
    BY <1>6, <1>10, <2>3, <2>4 DEF Kept, ServedAs, ReservedUse
  <2>6. Reservation(u)'  BY <2>1, <2>5 DEF Reservation, Short, LostIfShort
  <2> QED  BY <1>2, <1>3, <1>5, <2>6, ReserveMove DEF ReserveInv
<1>11. CASE pc[u] = "acquire" /\ ~Complete(u) /\ UNCHANGED pc
  <2>1. Parked(u)' = Parked(u) \cup {c}
    BY <1>2, <1>6, <1>11, UnitsDiffer DEF Parked, Of, ServedAs
  <2>2. Cardinality(Parked(u)') = Cardinality(Parked(u)) + 1
    BY <1>7, <1>8, <2>1, FS_AddElement
  <2>3. Cardinality(Parked(u)) < Reserve
    BY <1>11 DEF ReserveInv, Reservation, Short
  <2>4. Short(u)'
    BY <1>8, <1>11, <2>2, <2>3, PoolConstants DEF Short, Complete
  <2>5. Reservation(u)'
    BY <1>11, <2>4 DEF Reservation, Kept, LostIfShort, Reserving, InTransaction
  <2> QED  BY <1>2, <1>3, <1>5, <2>5, ReserveMove DEF ReserveInv
<1> QED  BY <1>2, <1>9, <1>10, <1>11

LEMMA ReserveConnectFails ==
  ASSUME PcInv, ClientInv, ReserveInv, NEW u \in Units, ConnectFails(u)
  PROVE  ReserveInv'
<1>1. pc[u] \in Connecting /\ lost' = lost  BY DEF ConnectFails
<1>2. CASE pc[u] = "acquire"
  <2>1. ToPool(Parked(u)) /\ GotoAndAdmit(u, "running")
    BY <1>2 DEF ConnectFails, ReturnPartial
  <2>2. pc'[u] = "running" /\ OthersStay(u)
    <3>1. waiters # <<>> => Head(waiters) \in In(pc, {"admission"})
      BY ListsHead DEF PcInv, Lines
    <3> QED  BY <2>1, <3>1 DEF GotoAndAdmit, OthersStay, In
  <2>3. OnlyItsClients(u)
    <3>1. Parked(u) \subseteq Clients /\ \A c \in Parked(u) : holder[c] = u
      BY DEF Parked, Of
    <3> QED  BY <2>1, <3>1, Returned
  <2>4. Reservation(u)'
    BY <2>2 DEF Reservation, Kept, Short, LostIfShort, Reserving, InTransaction
  <2> QED  BY <1>1, <2>2, <2>3, <2>4, ReserveMove DEF ReserveInv
<1>3. CASE pc[u] # "acquire"
  <2>1. Goto(u, BacksOff(u)) /\ UNCHANGED clients
    BY <1>3 DEF ConnectFails
  <2>2. pc'[u] = BacksOff(u) /\ OthersStay(u)
    BY <2>1 DEF Goto, OthersStay, PcInv, PcTypes
  <2>3. OnlyItsClients(u)  BY <2>1, Untouched
  <2>4. Reservation(u)'
    <3>1. /\ pc[u] \in Reserving \/ pc'[u] \notin Reserving
          /\ pc'[u] \notin {"acquire", "nested", "outer"}
      BY <1>1, <1>3, <2>2 DEF Connecting, BacksOff, Reserving, InTransaction
    <3> QED  BY <1>1, <2>1, <3>1, KeptStays DEF clients
  <2> QED  BY <1>1, <2>2, <2>3, <2>4, ReserveMove DEF ReserveInv
<1> QED  BY <1>2, <1>3

LEMMA ReserveSettle ==
  ASSUME PcInv, ClientInv, ReserveInv, NEW u \in Units, Settle(u)
  PROVE  ReserveInv'
<1>1. pc[u] = "settle" /\ GotoAndAdmit(u, "running") /\ lost' = lost \ {u}  BY DEF Settle
<1>2. pc'[u] = "running" /\ OthersStay(u)
  <2>1. waiters # <<>> => Head(waiters) \in In(pc, {"admission"})
    BY ListsHead DEF PcInv, Lines
  <2> QED  BY <1>1, <2>1 DEF GotoAndAdmit, OthersStay, In
<1>3. OnlyItsClients(u)
  BY UnitsDiffer DEF Settle, OnlyItsClients, Parked, Inner, Of
<1>4. Reservation(u)'
  BY <1>2 DEF Reservation, Kept, Short, LostIfShort, Reserving, InTransaction
<1> QED  BY <1>1, <1>2, <1>3, <1>4, ReserveMove DEF ReserveInv

LEMMA ReserveCheckOut ==
  ASSUME PcInv, ClientInv, ReserveInv, NEW u \in Dispatch, lost' = lost,
         \/ pc[u] = "work" /\ CheckOut(u, "lent", "locking", "outer")
         \/ pc[u] = "fenced" /\ CheckOut(u, "inner", "inner", "nested")
  PROVE  ReserveInv'
<1>1. u \in Units  BY DEF Units
<1>2. PICK as \in {"lent", "inner"}, next \in {"locking", "inner"}, waits \in {"outer", "nested"} :
        CheckOut(u, as, next, waits)
  OBVIOUS
<1>3. pc[u] \in Reserving  BY DEF Reserving, InTransaction
<1>4. CASE Parked(u) = {} /\ Connect(u, waits) /\ UNCHANGED clients
  <2>1. pc'[u] = waits /\ OthersStay(u)
    BY <1>1, <1>4 DEF Connect, Goto, OthersStay, PcInv, PcTypes
  <2>2. OnlyItsClients(u)  BY <1>1, <1>4, Untouched
  <2>3. u \in lost  BY <1>4, KeptIsParked
  <2>4. Reservation(u)'  BY <1>1, <1>3, <1>4, <2>1, <2>3, KeptStays DEF clients
  <2> QED  BY <1>1, <2>1, <2>2, <2>4, ReserveMove DEF ReserveInv
<1>5. ASSUME NEW c \in Parked(u), Becomes({c}, u, as), Goto(u, next)
      PROVE  ReserveInv'
  <2>1. pc'[u] = next /\ OthersStay(u)
    BY <1>1, <1>5 DEF Goto, OthersStay, PcInv, PcTypes
  <2>2. c \in Clients /\ holder[c] = u /\ as \in Use \ {"free"} /\ as \in ReservedUse
    BY DEF Parked, Of, Use, ReservedUse
  <2>3. OnlyItsClients(u)
    <3>1. {c} \in SUBSET Clients /\ \A d \in {c} : holder[d] \in {u, None}  BY <2>2
    <3>2. as \in Use \ {"free"}  BY <2>2
    <3> QED  BY <1>1, <1>5, <3>1, <3>2, CheckedOut
  <2>4. \A d \in Clients : holder[d] = u /\ use[d] \in ReservedUse =>
                             holder'[d] = u /\ use'[d] \in ReservedUse
    BY <1>5, <2>2 DEF Becomes
  <2>5. Reservation(u)'  BY <1>1, <1>3, <2>1, <2>4, KeptStays
  <2> QED  BY <1>1, <2>1, <2>3, <2>5, ReserveMove DEF ReserveInv
<1> QED  BY <1>2, <1>4, <1>5 DEF CheckOut

LEMMA ReserveCheckIn ==
  ASSUME PcInv, ClientInv, ReserveInv, NEW u \in Units, NEW c \in Inner(u) \cup Outer(u),
         NEW next \in {"fenced", "settle", "idle"},
         pc[u] \in InTransaction, next = "idle" => u \in Plain,
         CheckIn(u, c), Goto(u, next)
  PROVE  ReserveInv'
<1>1. pc'[u] = next /\ OthersStay(u)
  BY DEF Goto, OthersStay, PcInv, PcTypes
<1>2. c \in Clients /\ holder[c] = u  BY DEF Inner, Outer, Of
<1>3. {c} \in SUBSET Clients /\ \A d \in {c} : holder[d] = u  BY <1>2
<1>4. OnlyItsClients(u)
  <2>1. CASE ToPool({c})  BY <1>3, <2>1, Returned
  <2>2. CASE Becomes({c}, u, "parked")
    <3>1. "parked" \in Use \ {"free"} /\ \A d \in {c} : holder[d] \in {u, None}  BY <1>3 DEF Use
    <3> QED  BY <1>3, <2>2, <3>1, CheckedOut
  <2> QED  BY <2>1, <2>2 DEF CheckIn
<1>5. lost \subseteq lost' /\ lost' \in SUBSET Dispatch
  <2>1. CASE u \in Plain
    BY <1>2, <2>1, Held DEF CheckIn, ReserveInv
  <2>2. CASE u \in Dispatch
    BY <2>2 DEF CheckIn, ReserveInv
  <2> QED  BY <2>1, <2>2, UnitsDiffer
<1>6. Reservation(u)'
  <2>1. CASE u \in lost' \/ u \in Plain
    BY <1>1, <2>1, UnitsDiffer DEF Reservation, Kept, Short, LostIfShort
  <2>2. CASE u \notin lost' /\ u \notin Plain
    <3>1. \/ Becomes({c}, u, "parked")
          \/ use[c] \notin ReservedUse /\ ToPool({c})
      BY <2>2 DEF CheckIn, ReservedUse
    <3>2. \A d \in Clients : holder[d] = u /\ use[d] \in ReservedUse =>
                               holder'[d] = u /\ use'[d] \in ReservedUse
      BY <3>1 DEF Becomes, ToPool, ReservedUse
    <3>3. pc[u] \in Reserving  BY DEF Reserving
    <3> QED  BY <1>1, <1>5, <3>2, <3>3, KeptStays
  <2> QED  BY <2>1, <2>2
<1> QED  BY <1>1, <1>4, <1>5, <1>6, ReserveMove

LEMMA ReserveGone ==
  ASSUME PcInv, ClientInv, ReserveInv, NEW c \in Clients, Dropped(c) \/ LateRelease(c)
  PROVE  ReserveInv'
<1>0. ToPool({c}) /\ UNCHANGED pc /\ use[c] \in {"parked", "late"}
  BY DEF Dropped, LateRelease
<1>1. PICK u \in Units : u = holder[c]
  BY <1>0 DEF ClientInv, ClientTypes, FreeAgrees
<1>2. {c} \in SUBSET Clients /\ \A d \in {c} : holder[d] = u  BY <1>1
<1>3. OnlyItsClients(u) /\ OthersStay(u)  BY <1>0, <1>2, Returned DEF OthersStay
<1>4. \A d \in Clients \ {c} : holder'[d] = holder[d] /\ use'[d] = use[d]
  BY <1>0 DEF ToPool, Becomes
<1>5. CASE Dropped(c)
  <2>1. lost' = lost \cup {u} /\ pc[u] # "acquire"  BY <1>1, <1>5 DEF Dropped
  <2>2. u \in Dispatch
    BY <1>1, <1>5, Held, UnitsDiffer DEF Dropped
  <2>3. Reservation(u)'
    BY <1>0, <2>1 DEF Reservation, Kept, Short, LostIfShort
  <2> QED  BY <1>3, <2>1, <2>2, <2>3, ReserveMove DEF ReserveInv
<1>6. CASE LateRelease(c)
  <2>1. lost' = lost /\ use[c] = "late"  BY <1>6 DEF LateRelease
  <2>2. Kept(u)'
    BY <1>0, <1>1, <1>4, <2>1 DEF ReserveInv, Reservation, Kept, ReservedUse
  <2>3. Short(u)'
    <3>1. Parked(u)' = Parked(u)
      <4>1. c \notin Parked(u) /\ holder'[c] # u
        BY <1>0, <2>1, UnitsDiffer DEF Parked, Of, ToPool, Becomes, ClientInv, ClientTypes
      <4> QED  BY <1>4, <4>1 DEF Parked, Of
    <3> QED  BY <1>0, <3>1 DEF ReserveInv, Reservation, Short
  <2>4. LostIfShort(u)'  BY <1>0, <2>1 DEF ReserveInv, Reservation, LostIfShort
  <2> QED  BY <1>3, <2>1, <2>2, <2>3, <2>4, ReserveMove DEF ReserveInv, Reservation
<1> QED  BY <1>5, <1>6

\* A unit that begins, runs on or settles without touching its clients; and one
\* whose turn it is, which has nothing parked yet.
LEMMA ReserveStay ==
  ASSUME PcInv, ClientInv, ReserveInv, NEW u \in Units, NEW next, Goto(u, next),
         UNCHANGED clients, lost' = lost,
         \/ next \in {"session", "begin", "query", "turn", "admission"}
         \/ pc[u] = "turn" /\ next = "acquire"
         \/ pc[u] = "work" /\ next = "settle"
         \/ pc[u] = "locking" /\ next = "fenced"
  PROVE  ReserveInv'
<1>1. pc'[u] = next /\ OthersStay(u)  BY DEF Goto, OthersStay, PcInv, PcTypes
<1>2. OnlyItsClients(u)  BY Untouched
<1>3. CASE next # "acquire"
  <2>1. Reservation(u)'
    BY <1>1, <1>3, KeptStays DEF clients, Reserving, InTransaction
  <2> QED  BY <1>1, <1>2, <2>1, ReserveMove DEF ReserveInv
<1>4. CASE pc[u] = "turn" /\ next = "acquire"
  <2>1. Parked(u)' = {}
    BY <1>4, Held DEF clients, Parked, Of, MayHold, InTransaction
  <2>2. Short(u)'  BY <2>1, FS_EmptySet, PoolConstants DEF Short
  <2>3. Reservation(u)'
    BY <1>1, <1>4, <2>2 DEF Reservation, Kept, LostIfShort, Reserving, InTransaction
  <2> QED  BY <1>1, <1>2, <2>3, ReserveMove DEF ReserveInv
<1> QED  BY <1>3, <1>4

LEMMA ReserveEnds ==
  ASSUME PcInv, ClientInv, ReserveInv, NEW u \in Dispatch, QueryEnds(u) \/ End(u)
  PROVE  ReserveInv'
<1>1. PICK as \in {"own", "session"}, next \in {"running", "idle"} :
        Goto(u, next) /\ ToPool(Of(u, as))
  BY DEF QueryEnds, End
<1>2. u \in Units /\ lost' = lost  BY DEF Units, QueryEnds, End
<1>3. OthersStay(u) /\ pc'[u] = next
  BY <1>1, <1>2 DEF Goto, OthersStay, PcInv, PcTypes
<1>4. Of(u, as) \in SUBSET Clients /\ \A c \in Of(u, as) : holder[c] = u  BY DEF Of
<1>5. OnlyItsClients(u)  BY <1>1, <1>2, <1>4, Returned
<1>6. Reservation(u)'
  BY <1>2, <1>3, NoReservation DEF Reserving, InTransaction
<1> QED  BY <1>2, <1>3, <1>5, <1>6, ReserveMove DEF ReserveInv

LEMMA ReserveStep == PcInv /\ ClientInv /\ ReserveInv /\ [Next]_vars => ReserveInv'
<1> SUFFICES ASSUME PcInv, ClientInv, ReserveInv, [Next]_vars  PROVE ReserveInv'
  OBVIOUS
<1>1. ASSUME NEW u \in Units,
             Start(u) \/ Open(u) \/ Lock(u) \/ Nest(u) \/ Unnest(u) \/ EndTransaction(u)
      PROVE  ReserveInv'
  <2>1. CASE Start(u)
    BY <2>1, ReserveStay DEF Start, Connect
  <2>2. CASE Open(u)
    <3>1. u \in Dispatch  BY <2>2, UnitsDiffer DEF Open, PcInv, PcByKind, PlainPc
    <3>2. CASE CheckOut(u, "lent", "locking", "outer")
      BY <2>2, <3>1, <3>2, ReserveCheckOut DEF Open
    <3>3. CASE Goto(u, "settle") /\ UNCHANGED clients
      BY <2>2, <3>3, ReserveStay DEF Open
    <3> QED  BY <2>2, <3>2, <3>3 DEF Open
  <2>3. CASE Lock(u)
    BY <2>3, ReserveStay DEF Lock
  <2>4. CASE Nest(u)
    BY <2>4, ReserveCheckOut DEF Nest
  <2>5. CASE Unnest(u)
    <3>1. PICK c \in Inner(u) : CheckIn(u, c)  BY <2>5 DEF Unnest
    <3> QED  BY <2>5, <3>1, ReserveCheckIn DEF Unnest, InTransaction
  <2>6. CASE EndTransaction(u)
    <3>1. PICK c \in Outer(u) : CheckIn(u, c)  BY <2>6 DEF EndTransaction
    <3>2. PICK next \in {"settle", "idle"} : Goto(u, next) /\ (next = "idle" => u \in Plain)
      BY <2>6, UnitsDiffer DEF EndTransaction
    <3>3. pc[u] \in InTransaction  BY <2>6 DEF EndTransaction, InTransaction
    <3> QED  BY <3>1, <3>2, <3>3, ReserveCheckIn
  <2> QED  BY <1>1, <2>1, <2>2, <2>3, <2>4, <2>5, <2>6
<1>2. ASSUME NEW u \in Dispatch, Query(u) \/ Apply(u)  PROVE ReserveInv'
  <2>1. u \in Units  BY DEF Units
  <2> QED  BY <1>2, <2>1, ReserveStay DEF Query, Apply, Connect
<1>3. CASE TakeTurn
  <2>1. Head(turnQueue) \in In(pc, {"turn"})
    BY <1>3, ListsHead DEF TakeTurn, PcInv, Lines
  <2>2. PICK u \in Units : u = Head(turnQueue) /\ pc[u] = "turn"  BY <2>1 DEF In
  <2>3. Goto(u, "acquire") /\ UNCHANGED clients /\ lost' = lost
    BY <1>3, <2>2 DEF TakeTurn, Connect
  <2> QED  BY <2>2, <2>3, ReserveStay
<1>4. CASE UNCHANGED vars
  BY <1>4 DEF vars, ReserveInv, Reservation, Kept, Short, LostIfShort, Parked, Of
<1> QED
  BY <1>1, <1>2, <1>3, <1>4, ReserveServe, ReserveConnectFails, ReserveSettle, ReserveGone, ReserveEnds
  DEF Next

-----------------------------------------------------------------------------
(* The fence and the admission *)

FenceInv == fence \in Units \cup {None} /\ FenceByPc

LEMMA FenceStep == PcInv /\ FenceInv /\ [Next]_vars => FenceInv'
<1> SUFFICES ASSUME PcInv, FenceInv, [Next]_vars  PROVE FenceInv'
  OBVIOUS
<1> DEFINE Fenced == {"fenced", "nested", "inner"}
<1>0. pc \in [Units -> Pc]  BY DEF PcInv, PcTypes
\* A step that leaves the fence, and leaves its holder where it may be.
<1>a. ASSUME fence' = fence, \A v \in Units : pc[v] \in Fenced => pc'[v] \in Fenced
      PROVE  FenceInv'
  BY <1>a DEF FenceInv, FenceByPc
<1>b. ASSUME NEW u \in Units, NEW next, Goto(u, next), fence' = fence,
             pc[u] \in Fenced => next \in Fenced
      PROVE  FenceInv'
  BY <1>0, <1>a, <1>b DEF Goto
<1>c. ASSUME NEW u \in Units, pc[u] \notin Fenced, GotoAndAdmit(u, "running"), fence' = fence
      PROVE  FenceInv'
  <2>1. waiters # <<>> => Head(waiters) \in In(pc, {"admission"})
    BY ListsHead DEF PcInv, Lines
  <2>2. \A v \in Units : pc[v] \in Fenced => pc'[v] = pc[v]
    BY <1>c, <2>1 DEF GotoAndAdmit, In
  <2> QED  BY <1>a, <1>c, <2>2
<1>1. ASSUME NEW c \in Clients, Serve(c)  PROVE FenceInv'
  <2>1. Head(queue) \in In(pc, Connecting)
    BY <1>1, ListsHead DEF Serve, PcInv, Lines
  <2>2. PICK u \in Units : u = Head(queue) /\ pc[u] \in Connecting  BY <2>1 DEF In
  <2>3. CASE UNCHANGED pc  BY <1>1, <1>a, <2>3 DEF Serve
  <2>4. CASE Goto(u, "work") /\ pc[u] = "acquire"  BY <1>1, <1>b, <2>4 DEF Serve
  <2>5. CASE Goto(u, GoesOn(u))  BY <1>1, <1>b, <2>2, <2>5 DEF Serve, GoesOn, Connecting
  <2> QED  BY <1>1, <2>2, <2>3, <2>4, <2>5 DEF Serve
<1>2. ASSUME NEW c \in Clients, Dropped(c) \/ LateRelease(c)  PROVE FenceInv'
  BY <1>2, <1>a DEF Dropped, LateRelease
<1>3. ASSUME NEW u \in Units, ConnectFails(u)  PROVE FenceInv'
  <2>1. CASE pc[u] = "acquire"  BY <1>3, <1>c, <2>1 DEF ConnectFails
  <2>2. CASE pc[u] # "acquire"
    <3>1. Goto(u, BacksOff(u)) /\ fence' = fence /\ pc[u] \in Connecting
      BY <1>3, <2>2 DEF ConnectFails
    <3>2. pc[u] \in Fenced => BacksOff(u) \in Fenced  BY <3>1 DEF BacksOff, Connecting
    <3> QED  BY <1>b, <3>1, <3>2
  <2> QED  BY <2>1, <2>2
<1>4. ASSUME NEW u \in Units, Start(u) \/ Open(u) \/ Nest(u) \/ Unnest(u)  PROVE FenceInv'
  <2>1. PICK next : Goto(u, next) /\ fence' = fence /\ (pc[u] \in Fenced => next \in Fenced)
    BY <1>4 DEF Start, Open, Nest, Unnest, CheckOut, Connect
  <2> QED  BY <1>b, <2>1
<1>5. ASSUME NEW u \in Units, Lock(u)  PROVE FenceInv'
  BY <1>0, <1>5 DEF Lock, Goto, FenceInv, FenceByPc
<1>6. ASSUME NEW u \in Units, EndTransaction(u)  PROVE FenceInv'
  BY <1>0, <1>6, UnitsDiffer DEF EndTransaction, Goto, FenceInv, FenceByPc
<1>7. ASSUME NEW u \in Units, Settle(u)  PROVE FenceInv'
  BY <1>7, <1>c DEF Settle
<1>8. ASSUME NEW u \in Dispatch, Query(u) \/ QueryEnds(u) \/ End(u) \/ Apply(u)  PROVE FenceInv'
  <2>1. u \in Units /\ pc[u] \in {"running", "reading"} /\ fence' = fence /\ \E next : Goto(u, next)
    BY <1>8 DEF Units, Query, QueryEnds, End, Apply, Connect
  <2> QED  BY <1>b, <2>1
<1>9. CASE TakeTurn
  <2>1. Head(turnQueue) \in In(pc, {"turn"})
    BY <1>9, ListsHead DEF TakeTurn, PcInv, Lines
  <2>2. PICK u \in Units : u = Head(turnQueue) /\ pc[u] = "turn"  BY <2>1 DEF In
  <2>3. Goto(u, "acquire") /\ fence' = fence  BY <1>9, <2>2 DEF TakeTurn, Connect
  <2> QED  BY <1>b, <2>2, <2>3
<1>10. CASE UNCHANGED vars  BY <1>10 DEF vars, FenceInv, FenceByPc
<1> QED
  BY <1>1, <1>2, <1>3, <1>4, <1>5, <1>6, <1>7, <1>8, <1>9, <1>10 DEF Next

AdmittedPc == Reserving \cup {"turn", "acquire"}

LEMMA AdmittedIn ==
  /\ Admitted = {u \in Dispatch : pc[u] \in AdmittedPc}
  /\ IsFiniteSet(Admitted) /\ Cardinality(Admitted) \in Nat
<1>1. Admitted = {u \in Dispatch : pc[u] \in AdmittedPc}
  BY DEF Admitted, AdmittedPc, Reserving, InTransaction
<1>2. Admitted \in SUBSET Dispatch  BY <1>1
<1> QED  BY <1>1, <1>2, PoolConstants, FS_Subset, FS_CardinalityType

\* A step that admits nobody and lets nobody leave.
LEMMA AdmittedStay ==
  ASSUME AdmissionExact, UNCHANGED admission,
         \A v \in Dispatch : pc'[v] \in AdmittedPc <=> pc[v] \in AdmittedPc
  PROVE  AdmissionExact'
<1>1. Admitted' = Admitted
  BY DEF Admitted, AdmittedPc, Reserving, InTransaction
<1> QED  BY <1>1 DEF AdmissionExact, admission

LEMMA AdmittedMove ==
  ASSUME AdmissionExact, pc \in [Units -> Pc], UNCHANGED admission,
         NEW u \in Units, NEW next, Goto(u, next),
         u \in Plain \/ (next \in AdmittedPc <=> pc[u] \in AdmittedPc)
  PROVE  AdmissionExact'
BY AdmittedStay, UnitsDiffer DEF Goto, Units

LEMMA AdmittedLeave ==
  ASSUME AdmissionExact, PcInv, NEW u \in Dispatch, pc[u] \in AdmittedPc,
         Leave, GotoAndAdmit(u, "running")
  PROVE  AdmissionExact'
<1>1. u \in Admitted  BY AdmittedIn
<1>2. u \in Units /\ active \in Nat \ {0} /\ Limit \in Nat
  BY <1>1, AdmittedIn, FS_EmptySet, PoolConstants DEF AdmissionExact, Units
<1>3. /\ IsFiniteSet(Admitted \ {u})
      /\ Cardinality(Admitted \ {u}) = active - 1
  BY <1>1, AdmittedIn, FS_RemoveElement DEF AdmissionExact
<1>4. "running" \notin AdmittedPc /\ "admission" \notin AdmittedPc /\ "turn" \in AdmittedPc
  BY DEF AdmittedPc, Reserving, InTransaction
<1>5. Admitted' = {v \in Dispatch : pc'[v] \in AdmittedPc}
  BY DEF Admitted, AdmittedPc, Reserving, InTransaction
<1>6. CASE waiters = <<>>
  <2>1. Admitted' = Admitted \ {u}
    BY <1>4, <1>5, <1>6, AdmittedIn DEF GotoAndAdmit, Units
  <2> QED  BY <1>2, <1>3, <1>6, <2>1 DEF Leave, AdmissionExact
<1>7. CASE waiters # <<>>
  <2>1. Head(waiters) \in In(pc, {"admission"})
    BY <1>7, ListsHead DEF PcInv, Lines
  <2>2. PICK w \in Dispatch : w = Head(waiters) /\ pc[w] = "admission"
    BY <2>1, UnitsDiffer DEF In, PcInv, PcByKind, PlainPc
  <2>3. w # u /\ w \notin Admitted  BY <1>4, <2>2, AdmittedIn
  <2>4. Admitted' = (Admitted \ {u}) \cup {w}
    BY <1>4, <1>5, <1>7, <2>2, <2>3, AdmittedIn DEF GotoAndAdmit, Units
  <2>5. Cardinality(Admitted') = active
    BY <1>2, <1>3, <2>3, <2>4, FS_AddElement
  <2>6. active' = active /\ active = Limit  BY <1>2, <1>7 DEF Leave, AdmissionExact
  <2> QED  BY <1>2, <2>5, <2>6 DEF AdmissionExact
<1> QED  BY <1>6, <1>7

LEMMA AdmittedApply ==
  ASSUME AdmissionExact, PcInv, NEW u \in Dispatch, Apply(u)
  PROVE  AdmissionExact'
<1>1. u \in Units /\ pc[u] = "running" /\ pc \in [Units -> Pc]
  BY DEF Apply, Units, PcInv, PcTypes
<1>2. /\ active \in Nat /\ Limit \in Nat /\ u \notin Admitted
      /\ "running" \notin AdmittedPc /\ "admission" \notin AdmittedPc /\ "turn" \in AdmittedPc
  BY <1>1, AdmittedIn, PoolConstants DEF AdmissionExact, AdmittedPc, Reserving, InTransaction
<1>3. Admitted' = {v \in Dispatch : pc'[v] \in AdmittedPc}
  BY DEF Admitted, AdmittedPc, Reserving, InTransaction
<1>4. CASE Room /\ active' = active + 1 /\ Goto(u, "turn") /\ UNCHANGED waiters
  <2>1. Admitted' = Admitted \cup {u}
    BY <1>1, <1>2, <1>3, <1>4, AdmittedIn DEF Goto, Units
  <2>2. Cardinality(Admitted') = active + 1
    BY <1>2, <2>1, AdmittedIn, FS_AddElement DEF AdmissionExact
  <2> QED  BY <1>2, <1>4, <2>2 DEF Room, AdmissionExact
<1>5. CASE ~Room /\ Goto(u, "admission") /\ UNCHANGED active
  <2>1. Admitted' = Admitted
    BY <1>1, <1>2, <1>3, <1>5, AdmittedIn DEF Goto, Units
  <2> QED  BY <1>2, <1>5, <2>1 DEF Room, AdmissionExact
<1> QED  BY <1>4, <1>5 DEF Apply

LEMMA AdmissionStep == PcInv /\ AdmissionExact /\ [Next]_vars => AdmissionExact'
<1> SUFFICES ASSUME PcInv, AdmissionExact, [Next]_vars  PROVE AdmissionExact'
  OBVIOUS
<1>0. pc \in [Units -> Pc]  BY DEF PcInv, PcTypes
<1>a. \A p : p \in AdmittedPc <=>
        p \in {"turn", "acquire", "work", "outer", "locking", "fenced", "inner", "nested", "settle"}
  BY DEF AdmittedPc, Reserving, InTransaction
<1>1. ASSUME NEW c \in Clients, Serve(c)  PROVE AdmissionExact'
  <2>1. Head(queue) \in In(pc, Connecting)
    BY <1>1, ListsHead DEF Serve, PcInv, Lines
  <2>2. PICK u \in Units : u = Head(queue) /\ pc[u] \in Connecting  BY <2>1 DEF In
  <2>3. UNCHANGED admission  BY <1>1 DEF Serve
  <2>4. CASE UNCHANGED pc  BY <2>3, <2>4, AdmittedStay
  <2>5. CASE Goto(u, "work") /\ pc[u] = "acquire"
    BY <1>0, <1>a, <2>3, <2>5, AdmittedMove
  <2>6. CASE Goto(u, GoesOn(u)) /\ pc[u] # "acquire"
    <3>1. u \in Plain \/ pc[u] # "begin"  BY UnitsDiffer DEF PcInv, PcByKind
    <3>2. u \in Plain \/ (GoesOn(u) \in AdmittedPc <=> pc[u] \in AdmittedPc)
      BY <1>a, <2>2, <2>6, <3>1 DEF GoesOn, Connecting
    <3> QED  BY <1>0, <2>3, <2>6, <3>2, AdmittedMove
  <2> QED  BY <1>1, <2>2, <2>4, <2>5, <2>6 DEF Serve
<1>2. ASSUME NEW c \in Clients, Dropped(c) \/ LateRelease(c)  PROVE AdmissionExact'
  BY <1>2, AdmittedStay DEF Dropped, LateRelease
<1>3. ASSUME NEW u \in Units, ConnectFails(u)  PROVE AdmissionExact'
  <2>1. CASE pc[u] = "acquire"
    <3>1. u \in Dispatch  BY <2>1, UnitsDiffer DEF PcInv, PcByKind, PlainPc
    <3> QED  BY <1>3, <1>a, <2>1, <3>1, AdmittedLeave DEF ConnectFails
  <2>2. CASE pc[u] # "acquire"
    <3>1. Goto(u, BacksOff(u)) /\ UNCHANGED admission /\ pc[u] \in Connecting
      BY <1>3, <2>2 DEF ConnectFails
    <3>2. BacksOff(u) \in AdmittedPc <=> pc[u] \in AdmittedPc
      BY <1>a, <2>2, <3>1 DEF BacksOff, Connecting
    <3> QED  BY <1>0, <3>1, <3>2, AdmittedMove
  <2> QED  BY <2>1, <2>2
<1>4. ASSUME NEW u \in Units,
             Start(u) \/ Open(u) \/ Lock(u) \/ Nest(u) \/ Unnest(u) \/ EndTransaction(u)
      PROVE  AdmissionExact'
  <2>1. PICK from, next : /\ pc[u] = from /\ Goto(u, next) /\ UNCHANGED admission
                          /\ \/ from = "idle" /\ next \in {"session", "begin"}
                             \/ /\ from \in {"work", "locking", "fenced", "inner"}
                                /\ next \in {"locking", "outer", "fenced", "inner", "nested", "settle"}
                             \/ u \in Plain
    <3>1. CASE Start(u)  BY <3>1 DEF Start, Connect
    <3>2. CASE Open(u)  BY <3>2 DEF Open, CheckOut, Connect
    <3>3. CASE Lock(u)  BY <3>3 DEF Lock
    <3>4. CASE Nest(u)  BY <3>4 DEF Nest, CheckOut, Connect
    <3>5. CASE Unnest(u)  BY <3>5 DEF Unnest
    <3>6. CASE EndTransaction(u)
      <4>1. CASE u \in Dispatch  BY <3>6, <4>1 DEF EndTransaction
      <4>2. CASE u \in Plain  BY <3>6, <4>2 DEF EndTransaction
      <4> QED  BY <4>1, <4>2, UnitsDiffer
    <3> QED  BY <1>4, <3>1, <3>2, <3>3, <3>4, <3>5, <3>6
  <2>2. u \in Plain \/ (next \in AdmittedPc <=> pc[u] \in AdmittedPc)  BY <1>a, <2>1
  <2> QED  BY <1>0, <2>1, <2>2, AdmittedMove
<1>5. ASSUME NEW u \in Units, Settle(u)  PROVE AdmissionExact'
  <2>1. u \in Dispatch  BY <1>5, UnitsDiffer DEF Settle, PcInv, PcByKind, PlainPc
  <2> QED  BY <1>5, <1>a, <2>1, AdmittedLeave DEF Settle
<1>6. ASSUME NEW u \in Dispatch, Query(u) \/ QueryEnds(u) \/ End(u)  PROVE AdmissionExact'
  <2>1. PICK next \in {"query", "running", "idle"} :
          Goto(u, next) /\ UNCHANGED admission /\ pc[u] \in {"running", "reading"}
    BY <1>6 DEF Query, QueryEnds, End, Connect
  <2>2. u \in Units /\ next \notin AdmittedPc /\ pc[u] \notin AdmittedPc
    BY <1>a, <2>1 DEF Units
  <2> QED  BY <1>0, <2>1, <2>2, AdmittedMove
<1>7. CASE TakeTurn
  <2>1. Head(turnQueue) \in In(pc, {"turn"})
    BY <1>7, ListsHead DEF TakeTurn, PcInv, Lines
  <2>2. PICK u \in Units : u = Head(turnQueue) /\ pc[u] = "turn"  BY <2>1 DEF In
  <2>3. Goto(u, "acquire") /\ UNCHANGED admission  BY <1>7, <2>2 DEF TakeTurn, Connect
  <2> QED  BY <1>0, <1>a, <2>2, <2>3, AdmittedMove
<1>8. CASE UNCHANGED vars
  BY <1>8, AdmittedStay DEF vars, admission
<1> QED
  BY <1>1, <1>2, <1>3, <1>4, <1>5, <1>6, <1>7, <1>8, AdmittedApply DEF Next

-----------------------------------------------------------------------------
(* The theorems *)

PoolInv == PcInv /\ ClientInv /\ ReserveInv /\ FenceInv /\ AdmissionExact

LEMMA PoolInit == Init => PoolInv
<1> SUFFICES ASSUME Init  PROVE PoolInv
  OBVIOUS
<1>1. PcInv
  <2>1. In(pc, Connecting) = {} /\ In(pc, {"admission"}) = {} /\ In(pc, {"turn"}) = {}
    BY DEF Init, In, Connecting
  <2>2. Lines  BY <2>1, ListsNobody DEF Init, Lines
  <2> QED  BY <2>2, UnitsDiffer DEF Init, PcInv, PcTypes, PcByKind, PlainPc, TurnTaken, Pc, Units
<1>2. ClientInv
  BY UnitsDiffer
  DEF Init, ClientInv, ClientTypes, FreeAgrees, UnitHolds, HeldByPc, OneOfEach, HasOuter,
      InTransaction, Use
<1>3. ReserveInv
  BY DEF Init, ReserveInv, Reservation, Kept, Short, LostIfShort, Reserving, InTransaction
<1>4. FenceInv  BY DEF Init, FenceInv, FenceByPc
<1>5. AdmissionExact
  <2>1. Admitted = {}  BY DEF Init, Admitted, Units
  <2> QED  BY <2>1, FS_EmptySet, PoolConstants DEF Init, AdmissionExact
<1> QED  BY <1>1, <1>2, <1>3, <1>4, <1>5 DEF PoolInv

LEMMA PoolInvariant == Spec => []PoolInv
<1>1. PoolInv /\ [Next]_vars => PoolInv'
  BY LinesStep, ClientsStep, ReserveStep, FenceStep, AdmissionStep DEF PoolInv
<1> QED  BY PoolInit, <1>1, PTL DEF Spec

\* Type correctness of the pool, the reservation and the admission.
THEOREM PoolTyped == Spec => []PoolTypeOK
<1>1. PoolInv => PoolTypeOK
  <2> SUFFICES ASSUME PoolInv  PROVE PoolTypeOK
    OBVIOUS
  <2>1. In(pc, Connecting) \subseteq Units  BY DEF In
  <2>2. /\ In(pc, {"admission"}) \subseteq Dispatch
        /\ In(pc, {"turn"}) \subseteq Dispatch
    BY UnitsDiffer DEF In, PoolInv, PcInv, PcByKind, PlainPc
  <2>3. queue \in Seq(Units) /\ waiters \in Seq(Dispatch) /\ turnQueue \in Seq(Dispatch)
    BY <2>1, <2>2, SeqMonotonic DEF PoolInv, PcInv, Lines, Lists
  <2>4. active \in Nat  BY AdmittedIn DEF PoolInv, AdmissionExact
  <2> QED
    BY <2>3, <2>4
    DEF PoolTypeOK, PoolInv, PcInv, PcTypes, ClientInv, ClientTypes, ReserveInv, FenceInv
<1> QED  BY PoolInvariant, <1>1, PTL

\* The admission counter counts the applies between admission and settlement,
\* and none waits while there is room, through failures and handed-over places.
THEOREM AdmissionCounts == Spec => []AdmissionExact
<1>1. PoolInv => AdmissionExact  BY DEF PoolInv
<1> QED  BY PoolInvariant, <1>1, PTL

\* Nobody keeps a reserved client past its run, and an idle unit keeps nothing
\* but what a late user still has.
THEOREM ClientsReturn == Spec => []NoClientLeaks
<1>1. PoolInv => NoClientLeaks
  <2> SUFFICES ASSUME PoolInv, NEW c \in Clients, holder[c] # None
               PROVE  /\ use[c] \in {"parked", "lent", "inner"} => holder[c] \in Admitted
                      /\ pc[holder[c]] = "idle" => use[c] = "late"
    BY DEF NoClientLeaks
  <2>1. holder[c] \in Units  BY DEF PoolInv, ClientInv, ClientTypes
  <2>2. /\ use[c] \in MayHold(pc[holder[c]])
        /\ holder[c] \in Plain => use[c] = "own"
    BY <2>1, Held DEF PoolInv
  <2> QED  BY <2>1, <2>2, UnitsDiffer DEF MayHold, InTransaction, Admitted
<1> QED  BY PoolInvariant, <1>1, PTL

\* The holder of the fence waits on the pool only if its reservation lost a
\* client: what the reservation is for, with any number of units and clients.
THEOREM HolderIsServed == Spec => []HolderNeverWaits
<1>1. PoolInv => HolderNeverWaits
  <2> SUFFICES ASSUME PoolInv, NEW u \in Units, fence = u, pc[u] \in Connecting
               PROVE  u \in lost
    BY DEF HolderNeverWaits
  <2>1. pc[u] = "nested"
    BY UnitsDiffer DEF PoolInv, FenceInv, FenceByPc, Connecting
  <2> QED  BY <2>1 DEF PoolInv, ReserveInv, Reservation, LostIfShort
<1> QED  BY PoolInvariant, <1>1, PTL

\* The budget: the clients that waiting units hold are their sessions and one
\* reservation that is still short, which is less than the pool has.
LEMMA WaitersCannotHoldAll ==
  ASSUME PoolInv,
         \A c \in Clients : /\ holder[c] \in Dispatch
                            /\ use[c] = "session" \/ (use[c] = "parked" /\ pc[holder[c]] = "acquire")
  PROVE  FALSE
<1> DEFINE Sessions == {c \in Clients : use[c] = "session"}
           Rest == Clients \ Sessions
           by == [c \in Sessions |-> holder[c]]
<1>1. IsFiniteSet(Sessions) /\ Sessions \in SUBSET Clients
  <2>1. Sessions \in SUBSET Clients  OBVIOUS
  <2> QED  BY <2>1, PoolConstants, FS_Subset
<1>2. Cardinality(Sessions) <= Cardinality(Dispatch)
  <2>1. \A c, d \in Sessions : holder[c] = holder[d] => c = d
    <3> SUFFICES ASSUME NEW c \in Sessions, NEW d \in Sessions, holder[c] = holder[d]  PROVE c = d
      OBVIOUS
    <3>1. PICK u \in Units : u = holder[c] /\ u = holder[d]  BY DEF Units
    <3>2. SameKind(use[c], use[d])  BY Kinds
    <3> QED  BY <3>1, <3>2 DEF PoolInv, ClientInv, UnitHolds, OneOfEach
  <2>2. by \in Injection(Sessions, Dispatch)
    BY <2>1 DEF Injection, IsInjective
  <2> HIDE DEF by
  <2> QED  BY <2>2, PoolConstants, FS_Injection
<1>3. Cardinality(Rest) < Reserve
  <2>1. CASE Rest = {}  BY <2>1, FS_EmptySet, PoolConstants
  <2>2. CASE Rest # {}
    <3>1. PICK c \in Rest : TRUE  BY <2>2
    <3>2. PICK u \in Units : u = holder[c] /\ pc[u] = "acquire"  BY <3>1 DEF Units
    <3>3. \A d \in Rest : holder[d] = u
      <4> SUFFICES ASSUME NEW d \in Rest  PROVE holder[d] = u
        OBVIOUS
      <4>1. holder[d] \in Units /\ pc[holder[d]] = "acquire"  BY DEF Units
      <4> QED  BY <3>2, <4>1 DEF PoolInv, PcInv, TurnTaken
    <3>4. Rest \in SUBSET Parked(u)  BY <3>3 DEF Parked, Of
    <3>5. IsFiniteSet(Parked(u))
      <4>1. Parked(u) \in SUBSET Clients  BY DEF Parked, Of
      <4> QED  BY <4>1, PoolConstants, FS_Subset
    <3>6. Cardinality(Rest) <= Cardinality(Parked(u)) /\ IsFiniteSet(Rest)  BY <3>4, <3>5, FS_Subset
    <3>7. Cardinality(Parked(u)) < Reserve
      BY <3>2 DEF PoolInv, ReserveInv, Reservation, Short
    <3>8. Cardinality(Rest) \in Nat /\ Cardinality(Parked(u)) \in Nat
      BY <3>5, <3>6, FS_CardinalityType
    <3> QED  BY <3>6, <3>7, <3>8, PoolConstants
  <2> QED  BY <2>1, <2>2
<1>4. IsFiniteSet(Rest)
  <2>1. Rest \in SUBSET Clients  OBVIOUS
  <2> QED  BY <2>1, PoolConstants, FS_Subset
<1>5. /\ Cardinality(Sessions) \in Nat /\ Cardinality(Rest) \in Nat
      /\ Cardinality(Dispatch) \in Nat /\ Cardinality(Clients) \in Nat
  BY <1>1, <1>4, PoolConstants, FS_CardinalityType
<1>6. Cardinality(Clients) = Cardinality(Sessions) + Cardinality(Rest)
  <2>1. Sessions \cup Rest = Clients /\ Sessions \cap Rest = {}  OBVIOUS
  <2>2. Cardinality(Sessions \cup Rest)
          = Cardinality(Sessions) + Cardinality(Rest) - Cardinality(Sessions \cap Rest)
    BY <1>1, <1>4, FS_Union
  <2>3. Cardinality(Sessions \cap Rest) = 0  BY <2>1, FS_EmptySet
  <2>4. Cardinality(Clients) = Cardinality(Sessions) + Cardinality(Rest) - 0
    BY <2>1, <2>2, <2>3
  <2> HIDE DEF Sessions, Rest
  <2> QED  BY <1>5, <2>4
<1> HIDE DEF Sessions, Rest
<1> QED  BY <1>2, <1>3, <1>5, <1>6, PoolConstants

\* The exhausted pool always has a client whose user is at work, so no circle
\* of waits closes over the pool, the fence, the turn and the admission: the
\* budget of a session each and one reservation is enough for any number.
THEOREM NobodyStandsStill == Spec => []NoStandstill
<1>1. PoolInv => NoStandstill
  <2> SUFFICES ASSUME PoolInv, \A u \in Units : pc[u] # "nested",
                      \A c \in Clients : holder[c] # None /\ use[c] # "late" /\ Waits(holder[c])
               PROVE  FALSE
    BY DEF NoStandstill
  <2>1. CASE fence # None
    <3>1. PICK f \in Units : f = fence /\ pc[f] \in {"fenced", "inner"}
      BY <2>1 DEF PoolInv, FenceInv, FenceByPc
    <3>2. PICK c \in Clients : holder[c] = f
      BY <3>1 DEF PoolInv, ClientInv, UnitHolds, HasOuter, InTransaction
    <3>3. ~Waits(f)  BY <3>1 DEF Waits, Connecting
    <3> QED  BY <3>2, <3>3
  <2>2. CASE fence = None
    <3>1. ASSUME NEW c \in Clients
          PROVE  /\ holder[c] \in Dispatch
                 /\ use[c] = "session" \/ (use[c] = "parked" /\ pc[holder[c]] = "acquire")
      <4>1. PICK u \in Units : u = holder[c]
        BY DEF PoolInv, ClientInv, ClientTypes
      <4>2. pc[u] \in {"session", "query", "acquire", "outer", "begin", "admission", "turn"}
        BY <2>2, <4>1 DEF Waits, Connecting
      <4>3. use[c] \in MayHold(pc[u]) /\ (u \in Plain => use[c] = "own") /\ use[c] # "late"
        BY <4>1, Held DEF PoolInv
      <4> QED  BY <4>1, <4>2, <4>3, UnitsDiffer DEF MayHold, InTransaction
    <3> QED  BY <3>1, WaitersCannotHoldAll
  <2> QED  BY <2>1, <2>2
<1> QED  BY PoolInvariant, <1>1, PTL
=============================================================================
