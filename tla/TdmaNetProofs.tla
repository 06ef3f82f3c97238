--------------------------- MODULE TdmaNetProofs ---------------------------
(***************************************************************************)
(* The safety properties of TdmaNet, proved for any number of robots, any  *)
(* frame, ring and radio mode and any number of restarts within the        *)
(* assumptions.                                                            *)
(*                                                                         *)
(* IInv is the inductive invariant.  Its parts are the shape of the table  *)
(* (gateway slots at the multiples of GatewayEvery and nowhere else, one   *)
(* slot per client, and as many entries as clients and gateway slots need, *)
(* which is what bounds the table), the queue and the answers about known  *)
(* clients only, and the timers of the clients that received the last sync *)
(* frame: each fires in the client's slot or past the announced frame.     *)
(*                                                                         *)
(* A later section is what Settles rests on: the answers and sync frames   *)
(* of a gateway that knows a client put the client in step with it, and    *)
(* nothing but a restart or a longer frame takes it out of step.           *)
(***************************************************************************)
EXTENDS TdmaNet, FiniteSetTheorems, SequenceTheorems, TLAPS

Owners == Clients \cup {Gateway}

Registered(t) == {c \in Clients : Known(t, c)}

TableShape(t) ==
  \A i \in 1 .. Len(t) : t[i] = Gateway <=> (i - 1) % GatewayEvery = 0

OneEntry(t) ==
  \A i, j \in 1 .. Len(t) : t[i] = t[j] /\ t[i] \in Clients => i = j

\* k gateway slots are as many as the clients need: the last one was added
\* together with a client.
Counted(t) ==
  \E k \in Nat \ {0} :
    /\ Len(t) = Cardinality(Registered(t)) + k
    /\ Len(t) <= GatewayEvery * k
    /\ k > 1 => Len(t) > GatewayEvery * (k - 1) + 1

GoodTable(t) ==
  /\ t \in Seq(Owners) /\ Len(t) >= 1
  /\ TableShape(t) /\ OneEntry(t) /\ Counted(t)

GoodQueue(q, t) ==
  /\ q \in Seq(Clients) /\ Len(q) <= RingSize
  /\ \A i \in 1 .. Len(q) : Known(t, q[i])

GoodServer(s) ==
  /\ s \in [table : Seq(Owners), active : Nat, queue : Seq(Clients)]
  /\ GoodTable(s.table) /\ GoodQueue(s.queue, s.table)
  /\ s.active < Frame(s.table)

GoodAir ==
  /\ air \in Air
  /\ \A c \in air.answers : Known(server.table, c)
  /\ air.answers # {} => server.active < air.frame
  /\ air.sync => server.active = 0
  /\ announced \in Nat
  /\ announced <= air.frame /\ announced <= Frame(server.table)

ClientRecord == [registered : BOOLEAN, slot : Nat, frame : Nat, timer : Nat]

GoodClients ==
  /\ clients \in [Clients -> ClientRecord]
  /\ \A c \in Clients :
       IF clients[c].registered THEN clients[c].slot # 0
       ELSE clients[c] = Unregistered

GoodSynced ==
  /\ synced \in SUBSET Clients
  /\ \A c \in synced :
       /\ clients[c].registered
       /\ clients[c].frame >= announced
       /\ \/ clients[c].timer + server.active = clients[c].slot
          \/ clients[c].timer + server.active >= announced

IInv ==
  /\ GoodServer(server) /\ GoodAir /\ GoodClients /\ GoodSynced
  /\ spoke \in SUBSET Clients
  /\ busy \in Nat /\ busy < SlotTime - DeadTime
  /\ since = server.active % GatewayEvery
  /\ restarts \in 0 .. MaxRestarts
-----------------------------------------------------------------------------
\* Arithmetic

LEMMA Constants ==
  /\ Gateway \notin Clients /\ Nobody \notin Clients /\ Nobody # Gateway
  /\ DefaultSlots \in Nat \ {0} /\ GatewayEvery \in Nat \ {0, 1}
  /\ DefaultSlots <= GatewayEvery /\ RingSize \in Nat \ {0}
  /\ IsFiniteSet(Clients) /\ MaxEntries \in Nat /\ MaxRestarts \in Nat
BY ServerAssumption, NetAssumption DEF ServerAssumption, NetAssumption

LEMMA Divided ==
  ASSUME NEW n \in Nat \ {0}, NEW a \in Nat
  PROVE  /\ a % n \in 0 .. n - 1 /\ a \div n \in Int
         /\ a = n * (a \div n) + (a % n)
OBVIOUS

LEMMA AtLeastOnce ==
  ASSUME NEW n \in Nat \ {0}, NEW d \in Int, d >= 1
  PROVE  n * d >= n
OBVIOUS

\* The remainder is what is left of any multiple that leaves less than n
LEMMA Remainder ==
  ASSUME NEW n \in Nat \ {0}, NEW q \in Int, NEW r \in 0 .. n - 1,
         NEW a \in Nat, a = n * q + r
  PROVE  a % n = r
<1> DEFINE d == (a \div n) - q
<1>1. /\ a = n * (a \div n) + (a % n) /\ a % n \in 0 .. n - 1
      /\ a \div n \in Int
  BY Divided
<1>2. n * d = r - (a % n) BY <1>1
<1>3. CASE d >= 1 BY <1>1, <1>2, <1>3, AtLeastOnce
<1>4. CASE d <= -1
  <2>1. n * (-d) >= n BY <1>1, <1>4, AtLeastOnce
  <2> QED BY <1>1, <1>2, <1>4, <2>1
<1>5. CASE d = 0 BY <1>1, <1>2, <1>5
<1> QED BY <1>1, <1>3, <1>4, <1>5

LEMMA Below ==
  ASSUME NEW n \in Nat \ {0}, NEW k \in 0 .. n - 1
  PROVE  k % n = k
<1> DEFINE q == 0
<1>1. k = n * q + k /\ q \in Int /\ k \in Nat OBVIOUS
<1> HIDE DEF q
<1> QED BY <1>1, Remainder

\* Past a multiple of n of at least two comes no multiple
LEMMA NextRemainder ==
  ASSUME NEW n \in Nat \ {0, 1}, NEW a \in Nat
  PROVE  /\ (a % n) + 1 < n => (a + 1) % n = (a % n) + 1
         /\ a % n = 0 => (a + 1) % n # 0
         /\ (a + 1) % n # 0 => (a + 1) % n = (a % n) + 1
<1>1. /\ a = n * (a \div n) + (a % n) /\ a % n \in 0 .. n - 1
      /\ a \div n \in Int
  BY Divided
<1>2. CASE (a % n) + 1 < n
  <2>1. (a + 1) % n = (a % n) + 1
    <3> DEFINE b == a + 1
               r == (a % n) + 1
               q == a \div n
    <3>1. b = n * q + r /\ q \in Int BY <1>1
    <3>2. r \in 0 .. n - 1 /\ b \in Nat BY <1>1, <1>2
    <3> HIDE DEF b, r, q
    <3>3. b % n = r BY <3>1, <3>2, Remainder
    <3> QED BY <3>3 DEF b, r
  <2> QED BY <1>1, <2>1
<1>3. CASE (a % n) + 1 = n
  <2> DEFINE b == a + 1
             q == (a \div n) + 1
  <2>1. b = n * q + 0 /\ b \in Nat /\ q \in Int BY <1>1, <1>3
  <2>2. 0 \in 0 .. n - 1 OBVIOUS
  <2> HIDE DEF b, q
  <2>3. b % n = 0 BY <2>1, <2>2, Remainder
  <2>4. (a + 1) % n = 0 BY <2>3 DEF b
  <2> QED BY <1>1, <1>3, <2>4
<1> QED BY <1>1, <1>2, <1>3

\* Of the numbers up to a multiple and more than n less only the multiple
\* itself is divided.
LEMMA OnlyMultiple ==
  ASSUME NEW n \in Nat \ {0, 1}, NEW k \in Nat \ {0}, NEW a \in Nat,
         n * (k - 1) < a, a <= n * k
  PROVE  a % n = 0 <=> a = n * k
<1>1. CASE a = n * k
  <2>1. a = n * k + 0 BY <1>1
  <2>2. 0 \in 0 .. n - 1 OBVIOUS
  <2>3. a % n = 0 BY <2>1, <2>2, Remainder
  <2> QED BY <1>1, <2>3
<1>2. CASE a < n * k
  <2> DEFINE r == a - n * (k - 1)
  <2>1. n * k = n * (k - 1) + n OBVIOUS
  <2>2. r \in 0 .. n - 1 /\ r # 0 /\ n * (k - 1) \in Int
    BY <1>2, <2>1
  <2>3. a = n * (k - 1) + r BY <2>2
  <2>4. k - 1 \in Int OBVIOUS
  <2> HIDE DEF r
  <2>5. a % n = r BY <2>2, <2>3, <2>4, Remainder
  <2> QED BY <1>2, <2>2, <2>5
<1> QED BY <1>1, <1>2

\* What the gateway sends in a slot
Spent(n, passed) == passed + Answered(n, passed) * AnswerTime

LEMMA Budgets ==
  ASSUME NEW n \in Nat, NEW passed \in {0, SyncTime}
  PROVE  /\ passed \in Nat /\ passed < 1549
         /\ Answered(n, passed) \in 0 .. n
         /\ Spent(n, passed) \in Nat /\ Spent(n, passed) < 1549
<1> DEFINE budget == AnswerBudget(passed)
           most == IF budget > passed
                   THEN (budget - passed - 1) \div AnswerTime ELSE 0
<1>1. ByteTime \in {4, 8, 16, 64}
  BY ServerAssumption DEF ServerAssumption
<1>2. /\ passed \in Nat /\ passed <= 1548
      /\ budget \in Nat /\ budget <= 1150
  BY <1>1 DEF AnswerBudget, SlotTime, DeadTime, SyncTime, RampUp
<1>3. AnswerTime \in Nat /\ AnswerTime >= 292
  BY <1>1 DEF AnswerTime, RampUp
<1>4. most \in Nat /\ passed + most * AnswerTime <= 1548
  <2> HIDE DEF budget
  <2>1. CASE budget > passed
    <3> DEFINE left == budget - passed - 1
    <3>1. left \in Nat /\ passed + left <= 1548 BY <1>2, <2>1
    <3> HIDE DEF left
    <3>2. /\ left = AnswerTime * (left \div AnswerTime)
                    + (left % AnswerTime)
          /\ left % AnswerTime \in 0 .. AnswerTime - 1
          /\ left \div AnswerTime \in Int
      BY <1>3, <3>1, Divided
    <3>3. left \div AnswerTime >= 0
      BY <1>3, <3>1
    <3>4. most = left \div AnswerTime BY <2>1 DEF left
    <3> HIDE DEF most
    <3> QED BY <1>2, <1>3, <3>1, <3>2, <3>3, <3>4
  <2>2. CASE ~ (budget > passed) BY <1>2, <1>3, <2>2
  <2> QED BY <2>1, <2>2
<1>5. Answered(n, passed) = IF most < n THEN most ELSE n BY DEF Answered
<1> HIDE DEF most, budget
<1>6. Answered(n, passed) \in 0 .. n /\ Answered(n, passed) <= most
  BY <1>4, <1>5
<1> DEFINE took == Answered(n, passed) * AnswerTime
           atMost == most * AnswerTime
<1>7. took <= atMost BY <1>3, <1>4, <1>6
<1>8. took \in Nat /\ atMost \in Nat BY <1>3, <1>4, <1>6
<1>9. passed + atMost <= 1548 BY <1>4
<1> HIDE DEF took, atMost
<1>10. passed + took \in Nat /\ passed + took < 1549
  BY <1>2, <1>7, <1>8, <1>9
<1> QED BY <1>2, <1>6, <1>10 DEF took, Spent

LEMMA LastPacketFits ==
  ASSUME NEW rest \in Nat, rest < 1549
  PROVE  LastPacket(rest) \in Nat /\ LastPacket(rest) < SlotTime - DeadTime
BY DEF LastPacket, PacketBudget, SlotTime, DeadTime
-----------------------------------------------------------------------------
\* The table

LEMMA TableMembers ==
  ASSUME NEW t \in Seq(Owners), NEW c
  PROVE  Known(t, c) <=> \E i \in 1 .. Len(t) : t[i] = c
BY DEF Known, Members

LEMMA FrameBounds ==
  ASSUME NEW t \in Seq(Owners)
  PROVE  /\ Frame(t) \in Nat \ {0} /\ Len(t) <= Frame(t)
         /\ DefaultSlots <= Frame(t)
         /\ Frame(t) > Len(t) => Frame(t) = DefaultSlots
BY Constants DEF Frame

\* The slot of a client is the place of its one entry, which is never the
\* first.
LEMMA SlotIs ==
  ASSUME NEW t, GoodTable(t), NEW c \in Clients, NEW i \in 0 .. Len(t) - 1,
         t[i + 1] = c
  PROVE  SlotOf(t, c) = i
<1> DEFINE P(k) == t[k + 1] = c /\ \A j \in 1 .. k : t[j] # c
<1>1. Len(t) \in Nat BY DEF GoodTable
<1>2. P(i)
  <2>1. ASSUME NEW j \in 1 .. i, t[j] = c PROVE FALSE
    <3>1. j \in 1 .. Len(t) /\ i + 1 \in 1 .. Len(t) /\ j # i + 1
      BY <1>1
    <3> QED BY <2>1, <3>1 DEF GoodTable, OneEntry
  <2> QED BY <2>1
<1>3. ASSUME NEW k \in 0 .. Len(t) - 1, P(k) PROVE k = i
  <2>1. k + 1 \in 1 .. Len(t) /\ i + 1 \in 1 .. Len(t) BY <1>1
  <2>2. k + 1 = i + 1 BY <1>3, <2>1 DEF GoodTable, OneEntry
  <2> QED BY <1>1, <2>2
<1>4. SlotOf(t, c) = CHOOSE k \in 0 .. Len(t) - 1 : P(k) BY DEF SlotOf
<1> HIDE DEF P
<1> QED BY <1>2, <1>3, <1>4

LEMMA SlotKnown ==
  ASSUME NEW t, GoodTable(t), NEW c \in Clients, Known(t, c)
  PROVE  /\ SlotOf(t, c) \in 1 .. Len(t) - 1
         /\ t[SlotOf(t, c) + 1] = c
<1>1. t \in Seq(Owners) /\ Len(t) \in Nat BY DEF GoodTable
<1>2. PICK i \in 1 .. Len(t) : t[i] = c BY <1>1, TableMembers
<1>3. i # 1
  <2>1. 1 \in 1 .. Len(t) /\ (1 - 1) % GatewayEvery = 0
    <3>1. 0 \in 0 .. GatewayEvery - 1 BY Constants
    <3>2. 0 % GatewayEvery = 0 BY <3>1, Constants, Below
    <3> QED BY <1>1, <3>2 DEF GoodTable
  <2>2. t[1] = Gateway BY <2>1 DEF GoodTable, TableShape
  <2> QED BY <1>2, <2>2, Constants
<1> DEFINE s == i - 1
<1>4. s \in 1 .. Len(t) - 1 /\ s \in 0 .. Len(t) - 1 /\ t[s + 1] = c
  BY <1>1, <1>2, <1>3
<1> HIDE DEF s
<1>5. SlotOf(t, c) = s BY <1>4, SlotIs
<1> QED BY <1>4, <1>5

\* The clients and the gateway slots they need fit the table.
LEMMA TableFits ==
  ASSUME NEW t, GoodTable(t)
  PROVE  Len(t) \in 1 .. MaxEntries
<1> DEFINE n == Cardinality(Registered(t))
           N == Cardinality(Clients)
<1>1. n \in Nat /\ N \in Nat /\ n <= N
  <2>1. Registered(t) \subseteq Clients BY DEF Registered
  <2> QED BY <2>1, Constants, FS_Subset, FS_CardinalityType
<1>2. PICK k \in Nat \ {0} :
        /\ Len(t) = n + k /\ Len(t) <= GatewayEvery * k
        /\ k > 1 => Len(t) > GatewayEvery * (k - 1) + 1
  BY DEF GoodTable, Counted
<1>3. PICK g \in 1 .. MaxEntries :
        N <= (GatewayEvery - 1) * g /\ N + g <= MaxEntries
  BY NetAssumption DEF NetAssumption
<1> HIDE DEF n, N
<1>4. k <= g
  <2>1. CASE k = 1 BY <2>1
  <2>2. CASE k > 1
    <3> DEFINE e == GatewayEvery - 1
    <3>1. n > e * (k - 1)
      <4>1. GatewayEvery * (k - 1) = e * (k - 1) + (k - 1) BY Constants
      <4>2. e * (k - 1) \in Int BY Constants
      <4> HIDE DEF e
      <4> QED BY <1>1, <1>2, <2>2, <4>1, <4>2
    <3>2. e \in Nat \ {0} BY Constants
    <3>3. e * (k - 1) < e * g BY <1>1, <1>3, <3>1, <3>2
    <3> HIDE DEF e
    <3>4. ASSUME k - 1 >= g PROVE FALSE
      <4>1. e * (k - 1) >= e * g BY <1>3, <3>2, <3>4
      <4>2. e * (k - 1) \in Int /\ e * g \in Int BY <1>3, <3>2
      <4> QED BY <3>3, <4>1, <4>2
    <3> QED BY <1>3, <3>4
  <2> QED BY <2>1, <2>2
<1> QED BY <1>1, <1>2, <1>3, <1>4, Constants DEF GoodTable

\* What registering a client appends
LEMMA Appended ==
  ASSUME NEW t \in Seq(Owners), NEW c \in Clients
  PROVE  /\ Register(t, c) \in Seq(Owners)
         /\ IF Len(t) % GatewayEvery = 0
            THEN /\ Len(Register(t, c)) = Len(t) + 2
                 /\ Register(t, c)[Len(t) + 1] = Gateway
                 /\ Register(t, c)[Len(t) + 2] = c
            ELSE /\ Len(Register(t, c)) = Len(t) + 1
                 /\ Register(t, c)[Len(t) + 1] = c
         /\ \A i \in 1 .. Len(t) : Register(t, c)[i] = t[i]
<1>1. c \in Owners /\ Gateway \in Owners /\ Len(t) \in Nat BY DEF Owners
<1>2. CASE Len(t) % GatewayEvery = 0
  <2> DEFINE g == Append(t, Gateway)
             r == Append(g, c)
  <2>1. Register(t, c) = r BY <1>2 DEF Register
  <2>2. /\ g \in Seq(Owners) /\ Len(g) = Len(t) + 1
        /\ g[Len(t) + 1] = Gateway /\ \A i \in 1 .. Len(t) : g[i] = t[i]
    BY <1>1, AppendProperties
  <2> HIDE DEF g
  <2>3. /\ r \in Seq(Owners) /\ Len(r) = Len(g) + 1
        /\ r[Len(g) + 1] = c /\ \A i \in 1 .. Len(g) : r[i] = g[i]
    BY <1>1, <2>2, AppendProperties
  <2> HIDE DEF r
  <2>4. /\ Len(r) = Len(t) + 2 /\ r[Len(t) + 2] = c
        /\ r[Len(t) + 1] = Gateway
    BY <1>1, <2>2, <2>3
  <2>5. \A i \in 1 .. Len(t) : r[i] = t[i] BY <1>1, <2>2, <2>3
  <2> QED BY <1>2, <2>1, <2>3, <2>4, <2>5
<1>3. CASE Len(t) % GatewayEvery # 0
  <2>1. Register(t, c) = Append(t, c) BY <1>3 DEF Register
  <2>2. /\ Append(t, c) \in Seq(Owners) /\ Len(Append(t, c)) = Len(t) + 1
        /\ Append(t, c)[Len(t) + 1] = c
        /\ \A i \in 1 .. Len(t) : Append(t, c)[i] = t[i]
    BY <1>1, AppendProperties
  <2> QED BY <1>3, <2>1, <2>2
<1> QED BY <1>2, <1>3

\* A table extended by the gateway, where it is its turn, and a new client
\* is a good table of one client more, with every slot where it was.
LEMMA Registering ==
  ASSUME NEW t, GoodTable(t), NEW c \in Clients, ~Known(t, c)
  PROVE  /\ GoodTable(Register(t, c))
         /\ Len(t) < Len(Register(t, c))
         /\ \A i \in 1 .. Len(t) : Register(t, c)[i] = t[i]
         /\ Known(Register(t, c), c)
         /\ \A d \in Clients : Known(Register(t, c), d) <=> Known(t, d) \/ d = c
<1> DEFINE r == Register(t, c)
           L == Len(t)
           m == Len(r)
<1>1. t \in Seq(Owners) /\ L \in Nat /\ L >= 1 BY DEF GoodTable
<1>2. /\ r \in Seq(Owners) /\ m \in Nat
      /\ IF L % GatewayEvery = 0
         THEN m = L + 2 /\ r[L + 1] = Gateway /\ r[L + 2] = c
         ELSE m = L + 1 /\ r[L + 1] = c
      /\ \A i \in 1 .. L : r[i] = t[i]
  BY <1>1, Appended
<1> HIDE DEF r
<1>3. r[m] = c /\ m > L /\ m \in 1 .. m BY <1>1, <1>2
<1>4. \A i \in 1 .. m : i # m => r[i] # c /\ (i > L => r[i] = Gateway)
  <2>1. TAKE i \in 1 .. m
  <2>2. CASE i \in 1 .. L BY <1>1, <1>2, <2>2, TableMembers
  <2>3. CASE i > L BY <1>1, <1>2, <2>3, Constants
  <2> QED BY <1>1, <1>2, <2>2, <2>3
<1>5. TableShape(r)
  <2>1. SUFFICES ASSUME NEW i \in 1 .. m
                 PROVE  r[i] = Gateway <=> (i - 1) % GatewayEvery = 0
    BY DEF TableShape
  <2>2. CASE i \in 1 .. L BY <1>2, <2>2 DEF GoodTable, TableShape
  <2>3. CASE i = L + 1
    <3>1. i - 1 = L BY <1>1, <2>3
    <3> QED BY <1>2, <2>3, <3>1, Constants
  <2>4. CASE i = L + 2
    <3>1. i - 1 = L + 1 /\ L % GatewayEvery = 0 /\ r[i] = c
      BY <1>1, <1>2, <2>4
    <3>2. (L + 1) % GatewayEvery # 0
      BY <1>1, <3>1, Constants, NextRemainder
    <3> QED BY <3>1, <3>2, Constants
  <2> QED BY <1>1, <1>2, <2>2, <2>3, <2>4
<1>6. OneEntry(r)
  <2>1. SUFFICES ASSUME NEW i \in 1 .. m, NEW j \in 1 .. m,
                        r[i] = r[j], r[i] \in Clients
                 PROVE  i = j
    BY DEF OneEntry
  <2>2. \A k \in 1 .. m : k = m \/ k \in 1 .. L \/ r[k] = Gateway
    BY <1>1, <1>2, <1>4
  <2>3. CASE i = m BY <1>3, <1>4, <2>1, <2>3
  <2>4. CASE j = m BY <1>3, <1>4, <2>1, <2>4
  <2>5. CASE i \in 1 .. L /\ j \in 1 .. L
    BY <1>2, <2>1, <2>5 DEF GoodTable, OneEntry
  <2> QED BY <2>1, <2>2, <2>3, <2>4, <2>5, Constants
<1>7. \A d \in Clients : Known(r, d) <=> Known(t, d) \/ d = c
  <2>1. TAKE d \in Clients
  <2>2. ASSUME Known(t, d) PROVE Known(r, d)
    <3>1. PICK i \in 1 .. L : t[i] = d BY <1>1, <2>2, TableMembers
    <3>2. i \in 1 .. m /\ r[i] = d BY <1>1, <1>2, <1>3, <3>1
    <3> QED BY <1>2, <3>2, TableMembers
  <2>3. ASSUME d = c PROVE Known(r, d) BY <1>2, <1>3, <2>3, TableMembers
  <2>4. ASSUME Known(r, d), d # c PROVE Known(t, d)
    <3>1. PICK i \in 1 .. m : r[i] = d BY <1>2, <2>4, TableMembers
    <3>2. i # m BY <1>3, <2>4, <3>1
    <3>3. ~ (i > L)
      BY <1>4, <3>1, <3>2, Constants
    <3>4. i \in 1 .. L /\ t[i] = d BY <1>1, <1>2, <3>1, <3>3
    <3> QED BY <1>1, <3>4, TableMembers
  <2> QED BY <2>2, <2>3, <2>4
<1>8. Counted(r)
  <2> DEFINE n == Cardinality(Registered(t))
  <2>1. n \in Nat /\ Cardinality(Registered(r)) = n + 1
    <3>1. Registered(r) = Registered(t) \cup {c}
      BY <1>7 DEF Registered
    <3>2. c \notin Registered(t) BY DEF Registered
    <3>3. IsFiniteSet(Registered(t))
      BY Constants, FS_Subset DEF Registered
    <3> QED BY <3>1, <3>2, <3>3, FS_AddElement, FS_CardinalityType
  <2>2. PICK k \in Nat \ {0} :
          /\ L = n + k /\ L <= GatewayEvery * k
          /\ k > 1 => L > GatewayEvery * (k - 1) + 1
    BY DEF GoodTable, Counted
  <2> HIDE DEF n
  <2>3. GatewayEvery * (k - 1) < L
    <3>1. CASE k = 1
      <4>1. GatewayEvery * (k - 1) = 0 BY <3>1, Constants
      <4> QED BY <1>1, <4>1
    <3>2. CASE k > 1 BY <1>1, <2>2, <3>2, Constants
    <3> QED BY <3>1, <3>2
  <2>4. L % GatewayEvery = 0 <=> L = GatewayEvery * k
    BY <1>1, <2>2, <2>3, Constants, OnlyMultiple
  <2>5. GatewayEvery * k \in Int /\ k + 1 \in Nat \ {0}
    BY Constants
  <2>6. CASE L % GatewayEvery = 0
    <3>1. m = (n + 1) + (k + 1) BY <1>1, <1>2, <2>1, <2>2, <2>6
    <3>2. GatewayEvery * (k + 1) = GatewayEvery * k + GatewayEvery
      BY Constants
    <3>3. m <= GatewayEvery * (k + 1)
      BY <1>1, <1>2, <2>4, <2>5, <2>6, <3>2, Constants
    <3>4. (k + 1) - 1 = k BY <2>2
    <3>5. m > GatewayEvery * ((k + 1) - 1) + 1
      BY <1>1, <1>2, <2>4, <2>5, <2>6, <3>4
    <3> QED BY <2>1, <2>5, <3>1, <3>3, <3>5 DEF Counted
  <2>7. CASE L % GatewayEvery # 0
    <3>1. m = (n + 1) + k BY <1>1, <1>2, <2>1, <2>2, <2>7
    <3>2. m <= GatewayEvery * k
      BY <1>1, <1>2, <2>2, <2>4, <2>5, <2>7
    <3>3. k > 1 => m > GatewayEvery * (k - 1) + 1
      <4>1. GatewayEvery * (k - 1) \in Int BY Constants
      <4> QED BY <1>1, <1>2, <2>2, <2>7, <4>1
    <3> QED BY <2>1, <3>1, <3>2, <3>3 DEF Counted
  <2> QED BY <2>6, <2>7
<1>9. GoodTable(r) BY <1>1, <1>2, <1>3, <1>5, <1>6, <1>8 DEF GoodTable
<1> QED BY <1>1, <1>2, <1>3, <1>7, <1>9 DEF r
-----------------------------------------------------------------------------
\* The queue

LEMMA Enqueued ==
  ASSUME NEW t, NEW q, GoodQueue(q, t), NEW c \in Clients, Known(t, c)
  PROVE  GoodQueue(Enqueue(q, c), t)
<1> DEFINE p == IF Len(q) < RingSize THEN q ELSE Tail(q)
<1>1. q \in Seq(Clients) /\ Len(q) \in Nat /\ Len(q) <= RingSize
  BY DEF GoodQueue
<1>2. /\ p \in Seq(Clients) /\ Len(p) < RingSize
      /\ \A i \in 1 .. Len(p) : Known(t, p[i])
  <2>1. CASE Len(q) < RingSize BY <1>1, <2>1 DEF GoodQueue
  <2>2. CASE ~ (Len(q) < RingSize)
    <3>1. q # <<>> /\ p = Tail(q) BY <1>1, <2>2, Constants
    <3>2. /\ Tail(q) \in Seq(Clients) /\ Len(Tail(q)) = Len(q) - 1
          /\ \A i \in 1 .. Len(Tail(q)) : Tail(q)[i] = q[i + 1]
      BY <1>1, <3>1, HeadTailProperties
    <3>3. \A i \in 1 .. Len(q) - 1 : i + 1 \in 1 .. Len(q) BY <1>1
    <3>4. \A i \in 1 .. Len(q) - 1 : Known(t, q[i + 1])
      BY <3>3 DEF GoodQueue
    <3> HIDE DEF p
    <3>5. p \in Seq(Clients) /\ Len(p) = Len(q) - 1 BY <3>1, <3>2
    <3>6. \A i \in 1 .. Len(p) : p[i] = q[i + 1] BY <3>1, <3>2
    <3>7. \A i \in 1 .. Len(p) : Known(t, p[i]) BY <3>4, <3>5, <3>6
    <3> QED BY <1>1, <3>5, <3>7, Constants
  <2> QED BY <2>1, <2>2
<1>3. Enqueue(q, c) = Append(p, c) BY DEF Enqueue
<1> HIDE DEF p
<1>4. /\ Append(p, c) \in Seq(Clients) /\ Len(Append(p, c)) = Len(p) + 1
      /\ \A i \in 1 .. Len(p) : Append(p, c)[i] = p[i]
      /\ Append(p, c)[Len(p) + 1] = c
  BY <1>2, AppendProperties
<1>5. \A i \in 1 .. Len(p) + 1 : i \in 1 .. Len(p) \/ i = Len(p) + 1
  BY <1>2
<1>6. \A i \in 1 .. Len(p) + 1 : Known(t, Append(p, c)[i])
  BY <1>2, <1>4, <1>5
<1>7. Len(p) + 1 <= RingSize BY <1>2, Constants
<1> QED BY <1>3, <1>4, <1>6, <1>7 DEF GoodQueue

LEMMA LeftUnanswered ==
  ASSUME NEW t, NEW q, GoodQueue(q, t), NEW k \in 0 .. Len(q)
  PROVE  GoodQueue(Unanswered(q, k), t)
<1>1. q \in Seq(Clients) /\ Len(q) \in Nat /\ Len(q) <= RingSize
  BY DEF GoodQueue
<1>2. CASE k = Len(q)
  <2>1. <<>> \in Seq(Clients) /\ Len(<<>>) = 0 OBVIOUS
  <2> QED BY <1>2, <2>1, Constants DEF GoodQueue, Unanswered
<1>3. CASE k # Len(q)
  <2> DEFINE s == SubSeq(q, k + 2, Len(q))
             c == q[k + 1]
  <2>1. k + 1 \in 1 .. Len(q) /\ c \in Clients /\ k \in Nat BY <1>1, <1>3
  <2>2. \A i \in k + 2 .. Len(q) : q[i] \in Clients BY <1>1
  <2>3. /\ s \in Seq(Clients)
        /\ Len(s) = IF k + 2 <= Len(q) THEN Len(q) - (k + 2) + 1 ELSE 0
        /\ \A i \in 1 .. Len(q) - (k + 2) + 1 : s[i] = q[k + 2 + i - 1]
    BY <1>1, <2>1, <2>2, SubSeqProperties
  <2>4. Unanswered(q, k) = Append(s, c) BY <1>3 DEF Unanswered
  <2> HIDE DEF s, c
  <2>5. Len(s) < RingSize /\ Len(s) \in Nat BY <1>1, <2>1, <2>3, Constants
  <2>6. \A i \in 1 .. Len(s) : Known(t, s[i])
    <3>1. TAKE i \in 1 .. Len(s)
    <3>2. i \in 1 .. Len(q) - (k + 2) + 1 /\ k + 2 + i - 1 \in 1 .. Len(q)
      BY <1>1, <2>1, <2>3
    <3>3. s[i] = q[k + 2 + i - 1] BY <2>3, <3>2
    <3> QED BY <3>2, <3>3 DEF GoodQueue
  <2>7. /\ Append(s, c) \in Seq(Clients) /\ Len(Append(s, c)) = Len(s) + 1
        /\ \A i \in 1 .. Len(s) : Append(s, c)[i] = s[i]
        /\ Append(s, c)[Len(s) + 1] = c
    BY <2>1, <2>3, AppendProperties
  <2>8. Known(t, c) BY <2>1 DEF GoodQueue, c
  <2>9. \A i \in 1 .. Len(s) + 1 : i \in 1 .. Len(s) \/ i = Len(s) + 1
    BY <2>5
  <2>10. \A i \in 1 .. Len(s) + 1 : Known(t, Append(s, c)[i])
    BY <2>6, <2>7, <2>8, <2>9
  <2>11. Len(s) + 1 <= RingSize BY <2>5, Constants
  <2> QED BY <2>4, <2>7, <2>10, <2>11 DEF GoodQueue
<1> QED BY <1>2, <1>3
-----------------------------------------------------------------------------
\* The gateway

ServerRecord == [table : Seq(Owners), active : Nat, queue : Seq(Clients)]

LEMMA FirstGood == GoodServer(FirstServer)
<1> DEFINE t == <<Gateway>>
<1>1. t \in Seq(Owners) /\ Len(t) = 1 /\ t[1] = Gateway BY DEF Owners
<1>2. \A c \in Clients : ~Known(t, c)
  BY <1>1, Constants DEF Known, Members
<1> HIDE DEF t
<1>3. TableShape(t)
  <2>1. 0 \in 0 .. GatewayEvery - 1 BY Constants
  <2>2. 0 % GatewayEvery = 0 BY <2>1, Constants, Below
  <2>3. \A i \in 1 .. Len(t) : i = 1 /\ i - 1 = 0 BY <1>1
  <2> QED BY <1>1, <2>2, <2>3 DEF TableShape
<1>4. OneEntry(t) BY <1>1 DEF OneEntry
<1>5. Counted(t)
  <2>1. Registered(t) = {} BY <1>2 DEF Registered
  <2>2. Cardinality(Registered(t)) = 0 BY <2>1, FS_EmptySet
  <2>3. Len(t) = Cardinality(Registered(t)) + 1 BY <1>1, <2>2
  <2>4. Len(t) <= GatewayEvery * 1 /\ 1 \in Nat \ {0} BY <1>1, Constants
  <2>5. ~ (1 > 1) OBVIOUS
  <2> QED BY <2>3, <2>4, <2>5 DEF Counted
<1>6. GoodTable(t) BY <1>1, <1>3, <1>4, <1>5 DEF GoodTable
<1>7. <<>> \in Seq(Clients) /\ Len(<<>>) = 0 OBVIOUS
<1>8. GoodQueue(<<>>, t) BY <1>7, Constants DEF GoodQueue
<1>9. 0 < Frame(t) BY <1>1, FrameBounds
<1>10. FirstServer = [table |-> t, active |-> 0, queue |-> <<>>]
  BY DEF FirstServer, t
<1> QED BY <1>1, <1>6, <1>7, <1>8, <1>9, <1>10 DEF GoodServer

\* Hearing a client keeps every slot and every known client.
LEMMA HeardGood ==
  ASSUME NEW s, GoodServer(s), NEW c \in Clients
  PROVE  /\ GoodServer(Heard(s, c)) /\ Heard(s, c).active = s.active
         /\ Frame(s.table) <= Frame(Heard(s, c).table)
         /\ \A d \in Clients : Known(s.table, d) => Known(Heard(s, c).table, d)
<1>1. /\ s \in ServerRecord /\ GoodTable(s.table)
      /\ GoodQueue(s.queue, s.table) /\ s.active < Frame(s.table)
      /\ s.table \in Seq(Owners)
  BY DEF GoodServer, ServerRecord
<1>2. CASE ~Known(s.table, c)
  <2> DEFINE t == Register(s.table, c)
             q == Enqueue(s.queue, c)
  <2>1. /\ GoodTable(t) /\ Len(s.table) < Len(t) /\ Known(t, c)
        /\ \A d \in Clients : Known(t, d) <=> Known(s.table, d) \/ d = c
    BY <1>1, <1>2, Registering
  <2>2. GoodQueue(s.queue, t)
    <3>1. \A i \in 1 .. Len(s.queue) : s.queue[i] \in Clients
      BY <1>1 DEF GoodQueue
    <3>2. \A i \in 1 .. Len(s.queue) : Known(s.table, s.queue[i])
      BY <1>1 DEF GoodQueue
    <3> HIDE DEF t
    <3>3. \A i \in 1 .. Len(s.queue) : Known(t, s.queue[i])
      BY <2>1, <3>1, <3>2
    <3> QED BY <1>1, <3>3 DEF GoodQueue
  <2>3. Heard(s, c) = [s EXCEPT !.table = t, !.queue = q]
    BY <1>2 DEF Heard
  <2> HIDE DEF t
  <2>4. GoodQueue(q, t) BY <2>1, <2>2, Enqueued
  <2> HIDE DEF q
  <2>5. Heard(s, c) = [table |-> t, active |-> s.active, queue |-> q]
    BY <1>1, <2>3 DEF ServerRecord
  <2>6. t \in Seq(Owners) /\ q \in Seq(Clients) /\ s.active \in Nat
    BY <1>1, <2>1, <2>4 DEF GoodTable, GoodQueue, ServerRecord
  <2>7. Frame(s.table) <= Frame(t) /\ s.active < Frame(t)
    <3>1. Len(t) \in Nat /\ Len(s.table) \in Nat BY <1>1, <2>6
    <3> QED BY <1>1, <2>1, <2>6, <3>1, Constants DEF Frame
  <2> QED BY <2>1, <2>4, <2>5, <2>6, <2>7 DEF GoodServer
<1>3. CASE Known(s.table, c)
  <2>1. CASE Owner(s) # c /\ ~Waits(s.queue, c)
    <3> DEFINE q == Enqueue(s.queue, c)
    <3>1. Heard(s, c) = [s EXCEPT !.queue = q] BY <1>3, <2>1 DEF Heard
    <3>2. GoodQueue(q, s.table) BY <1>1, <1>3, Enqueued
    <3> HIDE DEF q
    <3>3. Heard(s, c) = [table |-> s.table, active |-> s.active, queue |-> q]
      BY <1>1, <3>1 DEF ServerRecord
    <3>4. q \in Seq(Clients) BY <3>2 DEF GoodQueue
    <3>5. Frame(s.table) \in Nat BY <1>1, FrameBounds
    <3> QED BY <1>1, <3>2, <3>3, <3>4, <3>5 DEF GoodServer, ServerRecord
  <2>2. CASE ~ (Owner(s) # c /\ ~Waits(s.queue, c))
    <3>1. Heard(s, c) = s BY <1>3, <2>2 DEF Heard
    <3>2. Frame(s.table) \in Nat BY <1>1, FrameBounds
    <3> QED BY <3>1, <3>2
  <2> QED BY <2>1, <2>2
<1> QED BY <1>2, <1>3

\* The next slot: it is the gateway's where it should be.
LEMMA AdvancedGood ==
  ASSUME NEW s, GoodServer(s)
  PROVE  LET n == Advanced(s) IN
         /\ GoodServer(n) /\ n.table = s.table /\ n.queue = s.queue
         /\ n.active = 0 \/ n.active = s.active + 1
         /\ n.active = 0 => Owner(n) = Gateway
         /\ n.active % GatewayEvery
              = IF Owner(n) = Gateway THEN 0
                ELSE (s.active % GatewayEvery) + 1
<1> DEFINE n == Advanced(s)
           F == Frame(s.table)
           a == s.active
<1>1. /\ s \in ServerRecord /\ GoodTable(s.table)
      /\ GoodQueue(s.queue, s.table) /\ a < F /\ a \in Nat
      /\ s.table \in Seq(Owners) /\ Len(s.table) \in Nat
      /\ Len(s.table) >= 1
  BY DEF GoodServer, ServerRecord, GoodTable
<1>2. F \in Nat \ {0} /\ Len(s.table) <= F /\ DefaultSlots <= F
      /\ (F > Len(s.table) => F = DefaultSlots)
  BY <1>1, FrameBounds
<1>3. n = [table |-> s.table, active |-> (a + 1) % F, queue |-> s.queue]
  BY <1>1 DEF Advanced, ServerRecord
<1>4. IF a + 1 < F THEN n.active = a + 1 ELSE n.active = 0
  <2> HIDE DEF F, n, a
  <2>1. CASE a + 1 < F
    <3> DEFINE b == a + 1
    <3>1. b \in 0 .. F - 1 BY <1>1, <1>2, <2>1
    <3>2. n.active = b % F BY <1>3
    <3> HIDE DEF b
    <3>3. b % F = b BY <1>2, <3>1, Below
    <3>4. n.active = b BY <3>2, <3>3
    <3> QED BY <2>1, <3>4 DEF b
  <2>2. CASE ~ (a + 1 < F)
    <3> DEFINE b == a + 1
    <3>1. b = F * 1 + 0 /\ 0 \in 0 .. F - 1 /\ b \in Nat
      BY <1>1, <1>2, <2>2
    <3> HIDE DEF b
    <3>2. b % F = 0 BY <1>2, <3>1, Remainder
    <3> QED BY <1>3, <2>2, <3>2 DEF b
  <2> QED BY <2>1, <2>2
<1>5. n.active \in Nat /\ n.active < F BY <1>1, <1>2, <1>4
<1>6. n.table = s.table /\ n.queue = s.queue BY <1>3
<1>7. GoodServer(n)
  <2> n \in ServerRecord BY <1>1, <1>3, <1>5 DEF ServerRecord
  <2> QED BY <1>1, <1>5, <1>6 DEF GoodServer, ServerRecord
<1>8. \A k \in 0 .. GatewayEvery - 1 : k % GatewayEvery = k
  BY Constants, Below
<1> HIDE DEF n
<1>9. CASE a + 1 < F /\ a + 1 < Len(s.table)
  <2>1. n.active = a + 1 /\ Owner(n) = s.table[a + 2]
    <3>1. n.active + 1 = a + 2 BY <1>1, <1>4, <1>9
    <3> QED BY <1>4, <1>6, <1>9, <3>1 DEF Owner
  <2>2. a + 2 \in 1 .. Len(s.table) /\ (a + 2) - 1 = a + 1
    BY <1>1, <1>9
  <2>3. Owner(n) = Gateway <=> (a + 1) % GatewayEvery = 0
    BY <1>1, <2>1, <2>2 DEF GoodTable, TableShape
  <2>4. (a + 1) % GatewayEvery # 0
          => (a + 1) % GatewayEvery = (a % GatewayEvery) + 1
    BY <1>1, Constants, NextRemainder
  <2>5. n.active # 0 BY <1>1, <2>1
  <2> QED BY <1>6, <1>7, <2>1, <2>3, <2>4, <2>5 DEF n
<1>10. CASE a + 1 < F /\ ~ (a + 1 < Len(s.table))
  <2>1. n.active = a + 1 /\ Owner(n) = Nobody
    BY <1>4, <1>6, <1>10 DEF Owner
  <2>2. a + 1 \in 0 .. GatewayEvery - 1 /\ a \in 0 .. GatewayEvery - 1
    BY <1>1, <1>2, <1>10, Constants
  <2>3. (a + 1) % GatewayEvery = a + 1 /\ a % GatewayEvery = a
    BY <1>8, <2>2
  <2>4. n.active # 0 BY <1>1, <2>1
  <2> QED BY <1>6, <1>7, <2>1, <2>3, <2>4, Constants DEF n
<1>11. CASE ~ (a + 1 < F)
  <2>1. n.active = 0 BY <1>4, <1>11
  <2>2. 0 % GatewayEvery = 0 BY <1>8, Constants
  <2>3. Owner(n) = Gateway
    <3>1. 1 \in 1 .. Len(s.table) /\ 1 - 1 = 0 BY <1>1
    <3>2. s.table[1] = Gateway
      BY <1>1, <2>2, <3>1 DEF GoodTable, TableShape
    <3>3. 0 < Len(s.table) /\ 0 + 1 = 1 BY <1>1
    <3> QED BY <1>6, <2>1, <3>2, <3>3 DEF Owner
  <2> QED BY <1>6, <1>7, <2>1, <2>2, <2>3 DEF n
<1> QED BY <1>9, <1>10, <1>11
-----------------------------------------------------------------------------
\* The inductive invariant

LEMMA InitInv == Init => IInv
<1> SUFFICES ASSUME Init PROVE IInv OBVIOUS
<1>1. GoodServer(server) BY FirstGood DEF Init
<1>2. GoodAir
  <2>1. Frame(server.table) \in Nat
    BY <1>1, FrameBounds DEF GoodServer, GoodTable
  <2>2. air \in Air BY DEF Init, Silence, Air
  <2>3. air.answers = {} /\ ~air.sync /\ air.frame = 0 /\ announced = 0
    BY DEF Init, Silence
  <2> QED BY <2>1, <2>2, <2>3 DEF GoodAir
<1>3. GoodClients
  BY DEF Init, GoodClients, Unregistered, ClientRecord
<1>4. GoodSynced BY DEF Init, GoodSynced
<1>5. since = server.active % GatewayEvery
  <2>1. 0 \in 0 .. GatewayEvery - 1 BY Constants
  <2>2. 0 % GatewayEvery = 0 BY <2>1, Constants, Below
  <2> QED BY <2>2 DEF Init, FirstServer
<1> QED BY <1>1, <1>2, <1>3, <1>4, <1>5, Constants
        DEF Init, IInv, SlotTime, DeadTime

LEMMA SlotTimerInv ==
  ASSUME IInv, NEW lost \in SUBSET Clients, SlotTimer(lost)
  PROVE  IInv'
<1> DEFINE next   == Advanced(server)
           start  == next.active = 0
           mine   == Owner(next) = Gateway
           passed == IF start THEN SyncTime ELSE 0
           served == IF mine THEN Answered(Len(next.queue), passed) ELSE 0
           rest   == passed + served * AnswerTime
<1>1. /\ GoodServer(next) /\ next.table = server.table
      /\ next.queue = server.queue
      /\ next.active = 0 \/ next.active = server.active + 1
      /\ start => mine
      /\ next.active % GatewayEvery
           = IF mine THEN 0 ELSE (server.active % GatewayEvery) + 1
  BY AdvancedGood DEF IInv
<1>2. /\ server' = IF mine
                   THEN [next EXCEPT !.queue = Unanswered(@, served)]
                   ELSE next
      /\ air' = [frame   |-> Frame(next.table),
                 sync    |-> start,
                 answers |-> {next.queue[i] : i \in 1 .. served} \ lost,
                 packets |-> {}]
      /\ busy' = IF mine THEN LastPacket(rest) ELSE rest
      /\ since' = IF mine THEN 0 ELSE since + 1
      /\ announced' = IF start THEN Frame(next.table) ELSE announced
      /\ synced' = IF start THEN {} ELSE synced
  BY DEF SlotTimer
<1>3. /\ next \in ServerRecord /\ GoodTable(next.table)
      /\ GoodQueue(next.queue, next.table)
      /\ next.active \in Nat /\ next.active < Frame(next.table)
      /\ Frame(next.table) \in Nat /\ Len(next.queue) \in Nat
  <2>1. /\ next \in ServerRecord /\ GoodTable(next.table)
        /\ GoodQueue(next.queue, next.table)
        /\ next.active < Frame(next.table)
    BY <1>1 DEF GoodServer, ServerRecord
  <2>2. next.table \in Seq(Owners) /\ next.queue \in Seq(Clients)
    BY <2>1 DEF GoodTable, GoodQueue
  <2> HIDE DEF next
  <2>3. Len(next.queue) \in Nat BY <2>2
  <2> QED BY <2>1, <2>2, <2>3, FrameBounds DEF ServerRecord
<1>4. /\ served \in 0 .. Len(next.queue)
      /\ rest \in Nat /\ rest < 1549
  <2> HIDE DEF next
  <2>1. passed \in {0, SyncTime} OBVIOUS
  <2>2. AnswerTime \in Nat
    BY ServerAssumption DEF ServerAssumption, AnswerTime, RampUp
  <2> DEFINE len == Len(next.queue)
             most == Answered(len, passed)
  <2>3. len \in Nat BY <1>3
  <2>4. served = IF mine THEN most ELSE 0 OBVIOUS
  <2> HIDE DEF passed, len, served, mine
  <2>5. /\ passed \in Nat /\ passed < 1549 /\ most \in 0 .. len
        /\ Spent(len, passed) \in Nat /\ Spent(len, passed) < 1549
    BY <2>1, <2>3, Budgets
  <2>6. CASE mine
    <3>1. served = most BY <2>4, <2>6
    <3>2. rest = Spent(len, passed) BY <3>1 DEF Spent
    <3> QED BY <2>5, <3>1, <3>2 DEF len
  <2>7. CASE ~mine
    <3>1. served = 0 /\ 0 * AnswerTime = 0 BY <2>2, <2>4, <2>7
    <3>2. rest = passed BY <2>5, <3>1
    <3>3. 0 \in 0 .. len BY <2>3
    <3> QED BY <2>5, <3>1, <3>2, <3>3 DEF len
  <2> QED BY <2>6, <2>7
<1> HIDE DEF rest, passed, served
<1>5. GoodServer(server') /\ server'.table = next.table
      /\ server'.active = next.active
  <2>1. CASE mine
    <3> DEFINE q == Unanswered(next.queue, served)
    <3>1. GoodQueue(q, next.table) BY <1>3, <1>4, LeftUnanswered
    <3>2. q \in Seq(Clients) BY <3>1 DEF GoodQueue
    <3>3. server' = [next EXCEPT !.queue = q] BY <1>2, <2>1
    <3> HIDE DEF next, q
    <3>4. server' = [table |-> next.table, active |-> next.active,
                     queue |-> q]
      BY <1>3, <3>3 DEF ServerRecord
    <3> QED BY <1>3, <3>1, <3>2, <3>4 DEF GoodServer, ServerRecord
  <2>2. CASE ~mine BY <1>1, <1>2, <2>2
  <2> QED BY <2>1, <2>2
<1>6. GoodAir'
  <2>1. announced \in Nat /\ announced <= Frame(server.table)
    BY DEF IInv, GoodAir
  <2>2. announced' \in Nat /\ announced' <= Frame(next.table)
    BY <1>1, <1>2, <1>3, <2>1
  <2>3. air'.answers \subseteq {next.queue[i] : i \in 1 .. served}
    BY <1>2
  <2>4. \A c \in air'.answers : c \in Clients /\ Known(next.table, c)
    <3>1. TAKE c \in air'.answers
    <3>2. PICK i \in 1 .. served : c = next.queue[i] BY <2>3
    <3>3. i \in 1 .. Len(next.queue) BY <1>3, <1>4, <3>2
    <3> HIDE DEF next
    <3> QED BY <1>3, <3>2, <3>3 DEF GoodQueue
  <2>5. air' \in Air
    <3>1. air'.answers \in SUBSET Clients BY <2>4
    <3> HIDE DEF next
    <3> QED BY <1>2, <1>3, <3>1 DEF Air
  <2>6. air'.frame = Frame(next.table) /\ air'.sync = start BY <1>2
  <2> HIDE DEF next
  <2> QED BY <1>3, <1>5, <2>2, <2>4, <2>5, <2>6 DEF GoodAir
<1>7. /\ GoodClients'
      /\ \A c \in Clients : clients[c].registered =>
           /\ clients'[c].registered
           /\ clients'[c].slot = clients[c].slot
           /\ clients'[c].frame = clients[c].frame
           /\ clients'[c].timer = clients[c].timer - 1
  <2>1. clients' = [c \in Clients |->
          IF clients[c].registered
          THEN [clients[c] EXCEPT !.timer = @ - 1] ELSE clients[c]]
    BY DEF SlotTimer
  <2>2. \A c \in Clients : clients[c].registered => clients[c].timer # 0
    BY DEF SlotTimer, SlotOver, Due
  <2>3. clients \in [Clients -> ClientRecord] /\ GoodClients
    BY DEF IInv, GoodClients
  <2>4. \A c \in Clients : clients[c].registered =>
          /\ clients'[c] \in ClientRecord
          /\ clients'[c].registered
          /\ clients'[c].slot = clients[c].slot
          /\ clients'[c].frame = clients[c].frame
          /\ clients'[c].timer = clients[c].timer - 1
    <3>1. SUFFICES ASSUME NEW c \in Clients, clients[c].registered
                   PROVE  /\ clients'[c] \in ClientRecord
                          /\ clients'[c].registered
                          /\ clients'[c].slot = clients[c].slot
                          /\ clients'[c].frame = clients[c].frame
                          /\ clients'[c].timer = clients[c].timer - 1
      OBVIOUS
    <3> DEFINE old == clients[c]
               new == clients'[c]
    <3>2. new = [old EXCEPT !.timer = old.timer - 1] BY <2>1, <3>1
    <3>3. old \in ClientRecord /\ old.registered /\ old.timer # 0
      BY <2>2, <2>3, <3>1
    <3> HIDE DEF old, new
    <3>4. new = [registered |-> old.registered, slot |-> old.slot,
                 frame |-> old.frame, timer |-> old.timer - 1]
      BY <3>2, <3>3 DEF ClientRecord
    <3>5. old.timer \in Nat \ {0} BY <3>3 DEF ClientRecord
    <3>6. /\ new \in ClientRecord /\ new.registered
          /\ new.slot = old.slot /\ new.frame = old.frame
          /\ new.timer = old.timer - 1
      BY <3>3, <3>4, <3>5 DEF ClientRecord
    <3> QED BY <3>6 DEF old, new
  <2>5. \A c \in Clients : ~clients[c].registered =>
          clients'[c] = clients[c]
    BY <2>1
  <2>6. \A c \in Clients : clients'[c] \in ClientRecord
    BY <2>3, <2>4, <2>5
  <2>7. clients' \in [Clients -> ClientRecord] BY <2>1, <2>6
  <2>8. \A c \in Clients :
          IF clients'[c].registered THEN clients'[c].slot # 0
          ELSE clients'[c] = Unregistered
    BY <2>3, <2>4, <2>5 DEF GoodClients
  <2> QED BY <2>4, <2>7, <2>8 DEF GoodClients
<1>8. GoodSynced'
  <2>1. CASE start
    <3>1. synced' = {} BY <1>2, <2>1
    <3> QED BY <3>1 DEF GoodSynced
  <2>2. CASE ~start
    <3>1. /\ synced' = synced /\ announced' = announced
          /\ server'.active = server.active + 1
      BY <1>1, <1>2, <1>5, <2>2
    <3>2. synced \in SUBSET Clients /\ GoodSynced BY DEF IInv, GoodSynced
    <3>3. ASSUME NEW c \in synced
          PROVE  /\ clients'[c].registered
                 /\ clients'[c].frame >= announced'
                 /\ \/ clients'[c].timer + server'.active = clients'[c].slot
                    \/ clients'[c].timer + server'.active >= announced'
      <4>1. /\ c \in Clients /\ clients[c].registered
            /\ clients[c].frame >= announced
            /\ \/ clients[c].timer + server.active = clients[c].slot
               \/ clients[c].timer + server.active >= announced
        BY <3>2 DEF GoodSynced
      <4>2. clients[c].timer \in Nat /\ server.active \in Nat
        BY <4>1 DEF IInv, GoodClients, ClientRecord, GoodServer
      <4>3. clients'[c].timer + server'.active
              = clients[c].timer + server.active
        BY <1>7, <3>1, <4>1, <4>2
      <4> QED BY <1>7, <3>1, <4>1, <4>3
    <3> QED BY <3>1, <3>2, <3>3 DEF GoodSynced
  <2> QED BY <2>1, <2>2
<1>9. busy' \in Nat /\ busy' < SlotTime - DeadTime
  <2>1. busy' = LastPacket(rest) \/ busy' = rest BY <1>2
  <2>2. rest \in Nat /\ rest < 1549 BY <1>4
  <2> HIDE DEF next
  <2>3. LastPacket(rest) \in Nat /\ LastPacket(rest) < SlotTime - DeadTime
    BY <2>2, LastPacketFits
  <2>4. rest \in Nat /\ rest < SlotTime - DeadTime
    BY <2>2 DEF SlotTime, DeadTime
  <2> QED BY <2>1, <2>3, <2>4
<1>10. since' = server'.active % GatewayEvery
  BY <1>1, <1>2, <1>5 DEF IInv
<1>11. spoke' \in SUBSET Clients /\ restarts' \in 0 .. MaxRestarts
  BY DEF SlotTimer, IInv
<1> QED BY <1>5, <1>6, <1>7, <1>8, <1>9, <1>10, <1>11 DEF IInv

LEMMA HearSyncInv ==
  ASSUME IInv, NEW lost \in SUBSET Clients, HearSync(lost)
  PROVE  IInv'
<1> DEFINE heard == {c \in Clients \ lost : clients[c].registered}
<1>1. /\ air.sync /\ air' = [air EXCEPT !.sync = FALSE]
      /\ clients' = [c \in Clients |->
           IF c \in heard
           THEN [clients[c] EXCEPT !.timer = clients[c].slot,
                                   !.frame = air.frame]
           ELSE clients[c]]
      /\ synced' = heard
      /\ UNCHANGED <<server, spoke, busy, since, announced, restarts>>
  BY DEF HearSync, history
<1>2. /\ GoodServer(server) /\ GoodAir /\ GoodClients
      /\ server.active = 0 /\ announced <= air.frame /\ air \in Air
      /\ clients \in [Clients -> ClientRecord]
  BY <1>1 DEF IInv, GoodAir, GoodClients
<1>3. GoodAir'
  <2>1. air' = [frame |-> air.frame, sync |-> FALSE,
                answers |-> air.answers, packets |-> air.packets]
    BY <1>1, <1>2 DEF Air
  <2>2. air' \in Air BY <1>2, <2>1 DEF Air
  <2> QED BY <1>1, <1>2, <2>1, <2>2 DEF GoodAir
<1>4. ASSUME NEW c \in heard
      PROVE  /\ clients'[c] \in ClientRecord
             /\ clients'[c].registered
             /\ clients'[c].slot = clients[c].slot
             /\ clients'[c].frame = air.frame
             /\ clients'[c].timer = clients[c].slot
  <2> DEFINE old == clients[c]
             new == clients'[c]
  <2>1. c \in Clients /\ old \in ClientRecord /\ old.registered BY <1>2
  <2>2. new = [old EXCEPT !.timer = old.slot, !.frame = air.frame]
    BY <1>1, <2>1
  <2>3. air.frame \in Nat BY <1>2 DEF Air
  <2> HIDE DEF old, new
  <2>4. new = [registered |-> old.registered, slot |-> old.slot,
               frame |-> air.frame, timer |-> old.slot]
    BY <2>1, <2>2 DEF ClientRecord
  <2>5. /\ new \in ClientRecord /\ new.registered /\ new.slot = old.slot
        /\ new.frame = air.frame /\ new.timer = old.slot
    BY <2>1, <2>3, <2>4 DEF ClientRecord
  <2> QED BY <2>5 DEF old, new
<1>5. ASSUME NEW c \in Clients, c \notin heard
      PROVE  clients'[c] = clients[c]
  BY <1>1, <1>5
<1>6. GoodClients'
  <2>1. \A c \in Clients : clients'[c] \in ClientRecord
    BY <1>2, <1>4, <1>5
  <2>2. clients' \in [Clients -> ClientRecord] BY <1>1, <2>1
  <2>3. ASSUME NEW c \in Clients
        PROVE  IF clients'[c].registered THEN clients'[c].slot # 0
               ELSE clients'[c] = Unregistered
    <3>1. CASE c \in heard
      <4>1. clients[c].registered BY <3>1
      <4> QED BY <1>2, <1>4, <3>1, <4>1 DEF GoodClients
    <3>2. CASE c \notin heard BY <1>2, <1>5, <3>2 DEF GoodClients
    <3> QED BY <3>1, <3>2
  <2> QED BY <2>2, <2>3 DEF GoodClients
<1>7. GoodSynced'
  <2>1. ASSUME NEW c \in heard
        PROVE  /\ clients'[c].registered
               /\ clients'[c].frame >= announced'
               /\ clients'[c].timer + server'.active = clients'[c].slot
    <3>1. clients[c].slot \in Nat BY <1>2 DEF ClientRecord
    <3>2. server'.active = 0 /\ announced' = announced BY <1>1, <1>2
    <3>3. air.frame \in Nat /\ announced \in Nat
      BY <1>2 DEF Air, GoodAir
    <3> QED BY <1>2, <1>4, <3>1, <3>2, <3>3
  <2>2. synced' \in SUBSET Clients BY <1>1
  <2> QED BY <1>1, <2>1, <2>2 DEF GoodSynced
<1> QED BY <1>1, <1>3, <1>6, <1>7 DEF IInv

LEMMA HearAnswerInv ==
  ASSUME IInv, NEW c \in Clients, HearAnswer(c)
  PROVE  /\ IInv' /\ Known(server.table, c)
         /\ clients' = [clients EXCEPT ![c] = ByAnswer(c)]
         /\ ByAnswer(c).slot = SlotOf(server.table, c)
<1> DEFINE slot == SlotOf(server.table, c)
           new  == ByAnswer(c)
<1>1. /\ c \in air.answers /\ ~air.sync
      /\ air' = [air EXCEPT !.answers = @ \ {c}]
      /\ clients' = [clients EXCEPT ![c] = new]
      /\ UNCHANGED <<server, spoke, busy, since, announced, synced, restarts>>
  BY DEF HearAnswer, history
<1>2. /\ GoodServer(server) /\ GoodAir /\ GoodClients /\ GoodSynced
      /\ Known(server.table, c) /\ server.active < air.frame
      /\ server.active \in Nat /\ announced \in Nat
      /\ announced <= air.frame /\ air \in Air /\ air.frame \in Nat
      /\ clients \in [Clients -> ClientRecord]
  BY <1>1 DEF IInv, GoodAir, GoodClients, GoodServer, Air
<1>3. slot \in Nat \ {0}
  <2>1. GoodTable(server.table) BY <1>2 DEF GoodServer
  <2>2. slot \in 1 .. Len(server.table) - 1
    BY <1>2, <2>1, SlotKnown
  <2> QED BY <2>2
<1>4. new = [registered |-> TRUE, slot |-> slot, frame |-> air.frame,
             timer |-> air.frame - server.active + slot]
  BY DEF ByAnswer
<1> HIDE DEF slot, new
<1>5. /\ new \in ClientRecord /\ new.registered /\ new.slot = slot
      /\ new.frame = air.frame
      /\ new.timer + server.active = air.frame + slot
  <2>1. air.frame - server.active + slot \in Nat BY <1>2, <1>3
  <2>2. air.frame - server.active + slot + server.active = air.frame + slot
    BY <1>2, <1>3
  <2> QED BY <1>2, <1>3, <1>4, <2>1, <2>2 DEF ClientRecord
<1>6. /\ clients'[c] = new
      /\ \A d \in Clients : d # c => clients'[d] = clients[d]
      /\ clients' \in [Clients -> ClientRecord]
  BY <1>1, <1>2, <1>5
<1>7. GoodAir'
  <2>1. air' = [frame |-> air.frame, sync |-> air.sync,
                answers |-> air.answers \ {c}, packets |-> air.packets]
    BY <1>1, <1>2 DEF Air
  <2>2. air' \in Air BY <1>2, <2>1 DEF Air
  <2> QED BY <1>1, <1>2, <2>1, <2>2 DEF GoodAir
<1>8. GoodClients'
  BY <1>2, <1>3, <1>5, <1>6 DEF GoodClients
<1>9. GoodSynced'
  <2>1. ASSUME NEW d \in synced
        PROVE  /\ clients'[d].registered
               /\ clients'[d].frame >= announced
               /\ \/ clients'[d].timer + server.active = clients'[d].slot
                  \/ clients'[d].timer + server.active >= announced
    <3>1. d \in Clients BY <1>2 DEF GoodSynced
    <3>2. CASE d = c
      <4>1. new.frame >= announced /\ new.timer + server.active >= announced
        BY <1>2, <1>3, <1>5
      <4> QED BY <1>5, <1>6, <3>2, <4>1
    <3>3. CASE d # c BY <1>2, <1>6, <3>1, <3>3 DEF GoodSynced
    <3> QED BY <3>2, <3>3
  <2> QED BY <1>1, <1>2, <2>1 DEF GoodSynced
<1> QED BY <1>1, <1>2, <1>5, <1>7, <1>8, <1>9 DEF IInv, slot, new

LEMMA HearPacketInv ==
  ASSUME IInv, NEW c \in Clients, HearPacket(c)
  PROVE  IInv'
<1>1. /\ air' = [air EXCEPT !.packets = @ \ {c}] /\ air.answers = {}
      /\ ~air.sync
      /\ server' = Heard(server, c)
      /\ UNCHANGED <<clients, spoke, busy, since, announced, synced, restarts>>
  BY DEF HearPacket, history
<1>2. /\ GoodServer(server') /\ server'.active = server.active
      /\ Frame(server.table) <= Frame(server'.table)
      /\ \A d \in Clients : Known(server.table, d) => Known(server'.table, d)
  BY <1>1, HeardGood DEF IInv
<1>3. GoodAir'
  <2>1. air \in Air /\ announced <= Frame(server.table) /\ announced \in Nat
        /\ announced <= air.frame
    BY DEF IInv, GoodAir
  <2>2. air' = [frame |-> air.frame, sync |-> air.sync,
                answers |-> air.answers, packets |-> air.packets \ {c}]
    BY <1>1, <2>1 DEF Air
  <2>3. air' \in Air BY <2>1, <2>2 DEF Air
  <2>4. Frame(server.table) \in Nat /\ Frame(server'.table) \in Nat
    BY <1>2, FrameBounds DEF IInv, GoodServer, GoodTable
  <2> QED BY <1>1, <1>2, <2>1, <2>2, <2>3, <2>4 DEF GoodAir
<1> QED BY <1>1, <1>2, <1>3 DEF IInv, GoodClients, GoodSynced

LEMMA TransmitAir ==
  ASSUME GoodAir, NEW c \in Clients,
         air' = [air EXCEPT !.packets = @ \cup {c}],
         UNCHANGED <<server, announced>>
  PROVE  GoodAir'
<1>1. air \in Air BY DEF GoodAir
<1>2. air' = [frame |-> air.frame, sync |-> air.sync,
              answers |-> air.answers, packets |-> air.packets \cup {c}]
  BY <1>1 DEF Air
<1>3. air' \in Air BY <1>1, <1>2 DEF Air
<1> QED BY <1>2, <1>3 DEF GoodAir

LEMMA ClientTimerInv ==
  ASSUME IInv, NEW c \in Clients, ClientTimer(c)
  PROVE  IInv'
<1> DEFINE old == clients[c]
           new == clients'[c]
<1>1. /\ old.registered /\ old.timer = 0
      /\ clients' = [clients EXCEPT ![c].timer = old.frame]
      /\ Transmit(c) \/ UNCHANGED <<spoke, air>>
      /\ UNCHANGED <<server, busy, since, announced, synced, restarts>>
  BY DEF ClientTimer, Due, history
<1>2. /\ GoodServer(server) /\ GoodAir /\ GoodClients /\ GoodSynced
      /\ server.active \in Nat /\ announced \in Nat
      /\ clients \in [Clients -> ClientRecord]
  BY DEF IInv, GoodServer, GoodAir, GoodClients
<1>3. /\ new = [old EXCEPT !.timer = old.frame]
      /\ \A d \in Clients : d # c => clients'[d] = clients[d]
      /\ old \in ClientRecord /\ clients' \in [Clients -> ClientRecord]
  <2>1. old \in ClientRecord BY <1>2
  <2>2. new = [old EXCEPT !.timer = old.frame] BY <1>1, <1>2
  <2>3. \A d \in Clients : d # c => clients'[d] = clients[d] BY <1>1, <1>2
  <2>4. [old EXCEPT !.timer = old.frame] \in ClientRecord
    BY <2>1 DEF ClientRecord
  <2>5. clients' = [clients EXCEPT ![c] = new]
    <3>1. clients' = [clients EXCEPT ![c] = [old EXCEPT !.timer = old.frame]]
      BY <1>1
    <3> QED BY <2>2, <3>1
  <2> HIDE DEF new, old
  <2> QED BY <1>2, <2>1, <2>2, <2>3, <2>4, <2>5
<1> HIDE DEF old, new
<1>4. /\ new.registered = old.registered /\ new.slot = old.slot
      /\ new.frame = old.frame /\ new.timer = old.frame
      /\ old.frame \in Nat
  BY <1>3 DEF ClientRecord
<1>5. GoodAir' /\ spoke' \in SUBSET Clients
  <2>1. CASE Transmit(c)
    BY <1>1, <1>2, <2>1, TransmitAir DEF Transmit, IInv
  <2>2. CASE UNCHANGED <<spoke, air>>
    BY <1>1, <1>2, <2>2 DEF GoodAir, IInv
  <2> QED BY <1>1, <2>1, <2>2
<1>6. GoodClients'
  <2>1. old.slot # 0 BY <1>1, <1>2 DEF GoodClients, old
  <2>2. new = clients'[c] BY DEF new
  <2> QED BY <1>1, <1>2, <1>3, <1>4, <2>1, <2>2 DEF GoodClients
<1>7. GoodSynced'
  <2>1. ASSUME NEW d \in synced
        PROVE  /\ clients'[d].registered
               /\ clients'[d].frame >= announced
               /\ \/ clients'[d].timer + server.active = clients'[d].slot
                  \/ clients'[d].timer + server.active >= announced
    <3>1. d \in Clients BY <1>2 DEF GoodSynced
    <3>2. CASE d = c
      <4>1. old.frame >= announced BY <1>2, <3>2 DEF GoodSynced, old
      <4>2. new.timer + server.active >= announced
        BY <1>2, <1>4, <4>1
      <4>3. new = clients'[d] BY <3>2 DEF new
      <4> QED BY <1>1, <1>4, <4>1, <4>2, <4>3
    <3>3. CASE d # c BY <1>2, <1>3, <3>1, <3>3 DEF GoodSynced
    <3> QED BY <3>2, <3>3
  <2> QED BY <1>1, <1>2, <2>1 DEF GoodSynced
<1> QED BY <1>1, <1>2, <1>5, <1>6, <1>7 DEF IInv

LEMMA AskInv ==
  ASSUME IInv, NEW c \in Clients, Ask(c)
  PROVE  IInv'
<1>1. /\ Transmit(c)
      /\ UNCHANGED <<server, clients, busy, since, announced, synced, restarts>>
  BY DEF Ask, history
<1>2. GoodAir' BY <1>1, TransmitAir DEF Transmit, IInv
<1> QED BY <1>1, <1>2 DEF IInv, GoodClients, GoodSynced, Transmit

LEMMA RestartClientInv ==
  ASSUME IInv, NEW c \in Clients, RestartClient(c)
  PROVE  IInv'
<1>1. /\ restarts < MaxRestarts /\ restarts' = restarts + 1
      /\ clients' = [clients EXCEPT ![c] = Unregistered]
      /\ synced' = synced \ {c}
      /\ UNCHANGED <<server, air, spoke, busy, since, announced>>
  BY DEF RestartClient, history
<1>2. Unregistered \in ClientRecord /\ ~Unregistered.registered
  BY DEF Unregistered, ClientRecord
<1>3. GoodClients' BY <1>1, <1>2 DEF IInv, GoodClients
<1>4. GoodSynced' BY <1>1 DEF IInv, GoodSynced, GoodClients
<1>5. restarts' \in 0 .. MaxRestarts BY <1>1, Constants DEF IInv
<1> QED BY <1>1, <1>3, <1>4, <1>5 DEF IInv, GoodAir

LEMMA RestartServerInv ==
  ASSUME IInv, RestartServer
  PROVE  IInv'
<1>1. /\ ~air.sync /\ air.answers = {}
      /\ restarts < MaxRestarts /\ restarts' = restarts + 1
      /\ server' = FirstServer
      /\ busy' = 0 /\ since' = 0 /\ announced' = 0 /\ synced' = {}
      /\ UNCHANGED <<clients, air, spoke>>
  BY DEF RestartServer, SlotOver
<1>2. GoodServer(server') BY <1>1, FirstGood
<1>3. GoodAir'
  <2>1. Frame(server'.table) \in Nat
    BY <1>2, FrameBounds DEF GoodServer, GoodTable
  <2>2. air \in Air /\ air.frame \in Nat BY DEF IInv, GoodAir, Air
  <2> QED BY <1>1, <2>1, <2>2 DEF GoodAir
<1>4. since' = server'.active % GatewayEvery
  <2>1. 0 \in 0 .. GatewayEvery - 1 BY Constants
  <2>2. 0 % GatewayEvery = 0 BY <2>1, Constants, Below
  <2> QED BY <1>1, <2>2 DEF FirstServer
<1>5. busy' \in Nat /\ busy' < SlotTime - DeadTime
  BY <1>1 DEF SlotTime, DeadTime
<1>6. restarts' \in 0 .. MaxRestarts BY <1>1, Constants DEF IInv
<1>7. GoodClients' /\ GoodSynced' /\ spoke' \in SUBSET Clients
  BY <1>1 DEF IInv, GoodClients, GoodSynced
<1> QED BY <1>2, <1>3, <1>4, <1>5, <1>6, <1>7 DEF IInv

LEMMA NextInv == IInv /\ [Next]_vars => IInv'
<1> SUFFICES ASSUME IInv, [Next]_vars PROVE IInv' OBVIOUS
<1>1. ASSUME NEW lost \in SUBSET Clients, SlotTimer(lost) PROVE IInv'
  BY <1>1, SlotTimerInv
<1>2. ASSUME NEW lost \in SUBSET Clients, HearSync(lost) PROVE IInv'
  BY <1>2, HearSyncInv
<1>3. ASSUME NEW c \in Clients, HearAnswer(c) PROVE IInv'
  BY <1>3, HearAnswerInv
<1>4. ASSUME NEW c \in Clients, HearPacket(c) PROVE IInv'
  BY <1>4, HearPacketInv
<1>5. ASSUME NEW c \in Clients, ClientTimer(c) PROVE IInv'
  BY <1>5, ClientTimerInv
<1>6. ASSUME NEW c \in Clients, Ask(c) PROVE IInv'
  BY <1>6, AskInv
<1>7. ASSUME NEW c \in Clients, RestartClient(c) PROVE IInv'
  BY <1>7, RestartClientInv
<1>8. CASE RestartServer BY <1>8, RestartServerInv
<1>9. CASE UNCHANGED vars
  BY <1>9 DEF vars, history, IInv, GoodAir, GoodClients, GoodSynced
<1>10. {} \in SUBSET Clients OBVIOUS
<1> QED BY <1>1, <1>2, <1>3, <1>4, <1>5, <1>6, <1>7, <1>8, <1>9, <1>10
        DEF Next, Reliable, Faulty
-----------------------------------------------------------------------------
\* The theorems

\* Shape of the table, queue, answers and timers hold in every reachable
\* state, through every loss and restart.
THEOREM Invariant == Spec => []IInv
<1>1. Init => IInv BY InitInv
<1>2. IInv /\ [Next]_vars => IInv' BY NextInv
<1> QED BY <1>1, <1>2, PTL DEF Spec

\* Every variable keeps its type; the gateway's table never grows past its
\* room and the queue of clients to answer never past its ring.
THEOREM TypeCorrect == Spec => []TypeOK
<1>1. IInv => TypeOK
  <2> SUFFICES ASSUME IInv PROVE TypeOK OBVIOUS
  <2>1. /\ server.table \in Seq(Clients \cup {Gateway})
        /\ Len(server.table) \in 1 .. MaxEntries
        /\ server.active \in 0 .. Frame(server.table) - 1
    <3>1. GoodTable(server.table) /\ server.active \in Nat
          /\ server.active < Frame(server.table)
      BY DEF IInv, GoodServer
    <3>2. server.table \in Seq(Owners) BY <3>1 DEF GoodTable
    <3>3. Frame(server.table) \in Nat BY <3>2, FrameBounds
    <3> QED BY <3>1, <3>2, <3>3, TableFits DEF Owners
  <2>2. server.queue \in Seq(Clients) /\ Len(server.queue) <= RingSize
    BY DEF IInv, GoodServer, GoodQueue
  <2>3. since \in Nat
    <3>1. server.active \in Nat BY DEF IInv, GoodServer
    <3>2. server.active % GatewayEvery \in 0 .. GatewayEvery - 1
      BY <3>1, Constants, Divided
    <3> QED BY <3>2, Constants DEF IInv
  <2>4. ASSUME NEW c \in Clients
        PROVE  \/ clients[c] = Unregistered
               \/ /\ clients[c].registered
                  /\ clients[c].slot \in Nat \ {0}
                  /\ clients[c].frame \in Nat /\ clients[c].timer \in Nat
    <3>1. clients[c] \in ClientRecord BY DEF IInv, GoodClients
    <3>2. IF clients[c].registered THEN clients[c].slot # 0
          ELSE clients[c] = Unregistered
      BY DEF IInv, GoodClients
    <3> QED BY <3>1, <3>2 DEF ClientRecord
  <2> QED BY <2>1, <2>2, <2>3, <2>4
          DEF IInv, GoodAir, GoodSynced, TypeOK
<1> QED BY <1>1, Invariant, PTL

\* No client waits for an answer, or is about to get one, that has no slot.
THEOREM QueuedCorrect == Spec => []QueuedKnown
<1>1. IInv => QueuedKnown
  BY DEF IInv, GoodServer, GoodQueue, GoodAir, QueuedKnown, Members
<1> QED BY <1>1, Invariant, PTL

\* The gateway's slots are at most GatewayEvery apart, for every length the
\* frame grows to and wherever in it the gateway is when it grows.
THEOREM GatewayTurnsCorrect == Spec => []GatewayTurns
<1>1. IInv => GatewayTurns
  <2> SUFFICES ASSUME IInv PROVE GatewayTurns OBVIOUS
  <2>1. server.active \in Nat BY DEF IInv, GoodServer
  <2>2. server.active % GatewayEvery \in 0 .. GatewayEvery - 1
    BY <2>1, Constants, Divided
  <2> QED BY <2>2, Constants DEF IInv, GatewayTurns
<1> QED BY <1>1, Invariant, PTL

\* The gateway never sends into the dead time of its slot, for every radio
\* mode, number of clients that wait and packets that are queued.
THEOREM SlotKeptCorrect == Spec => []SlotKept
<1>1. IInv => SlotKept BY DEF IInv, SlotKept
<1> QED BY <1>1, Invariant, PTL

\* A client that received the last sync frame and has the slot the gateway
\* has talks in it or past the announced frame.
THEOREM OwnSlotCorrect == Spec => TalksInOwnSlot
<1> DEFINE Own ==
      \A c \in (spoke' \ spoke) \cap synced :
        Agreed(c) => \/ Owner(server) = c
                     \/ server.active >= announced
<1>1. IInv /\ [Next]_vars => [Own]_vars
  <2> SUFFICES ASSUME IInv, Next,
                      NEW c \in (spoke' \ spoke) \cap synced, Agreed(c)
               PROVE  Owner(server) = c \/ server.active >= announced
    OBVIOUS
  <2>1. /\ c \in Clients /\ clients[c].registered
        /\ \/ clients[c].timer + server.active = clients[c].slot
           \/ clients[c].timer + server.active >= announced
    BY DEF IInv, GoodSynced
  <2>2. PICK d \in Clients : ClientTimer(d) \/ Ask(d)
    BY DEF Next, Reliable, Faulty, SlotTimer, HearSync, HearAnswer,
           HearPacket, RestartClient, RestartServer, history
  <2>3. d = c BY <2>2 DEF ClientTimer, Ask, Transmit
  <2>4. clients[c].timer = 0 BY <2>1, <2>2, <2>3 DEF ClientTimer, Ask, Due
  <2>5. server.active \in Nat BY DEF IInv, GoodServer
  <2>6. CASE server.active = clients[c].slot
    <3>1. GoodTable(server.table) BY DEF IInv, GoodServer
    <3>2. /\ server.active \in 1 .. Len(server.table) - 1
          /\ server.table[server.active + 1] = c
      BY <2>1, <2>6, <3>1, SlotKnown DEF Agreed
    <3>3. Len(server.table) \in Nat BY <3>1 DEF GoodTable
    <3> QED BY <3>2, <3>3 DEF Owner
  <2> QED BY <2>1, <2>4, <2>5, <2>6
<1>2. Spec => [][Own]_vars BY <1>1, Invariant, PTL DEF Spec
<1> QED BY <1>2 DEF TalksInOwnSlot
-----------------------------------------------------------------------------
\* The grants

\* A client that registers gets a slot that no other client has, and the
\* others keep theirs.
LEMMA RegisterGrants ==
  ASSUME NEW t, GoodTable(t), NEW c \in Clients, ~Known(t, c)
  PROVE  /\ Known(Register(t, c), c)
         /\ SlotOf(Register(t, c), c) \in Nat \ {0}
         /\ \A d \in Clients : d # c =>
              (Known(Register(t, c), d) <=> Known(t, d))
         /\ \A d \in Clients : Known(t, d) =>
              /\ SlotOf(Register(t, c), d) = SlotOf(t, d)
              /\ SlotOf(t, d) # SlotOf(Register(t, c), c)
<1> DEFINE r == Register(t, c)
<1>1. /\ GoodTable(r) /\ Known(r, c) /\ Len(t) < Len(r)
      /\ \A i \in 1 .. Len(t) : r[i] = t[i]
      /\ \A d \in Clients : Known(r, d) <=> Known(t, d) \/ d = c
  BY Registering
<1> HIDE DEF r
<1>2. Len(t) \in Nat /\ Len(r) \in Nat BY <1>1 DEF GoodTable
<1>3. SlotOf(r, c) \in 1 .. Len(r) - 1 /\ r[SlotOf(r, c) + 1] = c
  BY <1>1, SlotKnown
<1>4. ASSUME NEW d \in Clients, Known(t, d)
      PROVE  SlotOf(r, d) = SlotOf(t, d) /\ SlotOf(t, d) # SlotOf(r, c)
  <2>1. SlotOf(t, d) \in 1 .. Len(t) - 1 /\ t[SlotOf(t, d) + 1] = d
    BY <1>4, SlotKnown
  <2>2. SlotOf(t, d) \in 0 .. Len(r) - 1 /\ r[SlotOf(t, d) + 1] = d
    BY <1>1, <1>2, <2>1
  <2>3. SlotOf(r, d) = SlotOf(t, d) BY <1>1, <2>2, SlotIs
  <2>4. d # c BY <1>4
  <2> QED BY <1>3, <2>2, <2>3, <2>4
<1> QED BY <1>1, <1>2, <1>3, <1>4 DEF r

LEMMA GrantStep ==
  ASSUME IInv, [Next]_vars
  PROVE  [Grants!Next]_(Grants!vars)
<1> DEFINE Slots == [c \in Clients |->
             IF Known(server.table, c) THEN SlotOf(server.table, c) ELSE 0]
           Held == [c \in Clients |-> clients[c].slot]
<1>1. GoodTable(server.table) /\ clients \in [Clients -> ClientRecord]
  BY DEF IInv, GoodServer, GoodClients
<1>2. ASSUME NEW c \in Clients, HearPacket(c)
      PROVE  Grants!Grant(c) \/ UNCHANGED <<Slots, Held>>
  <2>1. server' = Heard(server, c) /\ clients' = clients
    BY <1>2 DEF HearPacket
  <2>2. Held' = Held BY <2>1
  <2>3. CASE Known(server.table, c)
    <3>1. server'.table = server.table
      <4>1. server \in [table : Seq(Owners), active : Nat, queue : Seq(Clients)]
        BY DEF IInv, GoodServer
      <4> QED BY <2>1, <2>3, <4>1 DEF Heard
    <3> QED BY <2>2, <3>1
  <2>4. CASE ~Known(server.table, c)
    <3> DEFINE t == server.table
               r == Register(t, c)
    <3>1. server'.table = r
      <4>1. server \in [table : Seq(Owners), active : Nat, queue : Seq(Clients)]
        BY DEF IInv, GoodServer
      <4> QED BY <2>1, <2>4, <4>1 DEF Heard
    <3>2. /\ Known(r, c) /\ SlotOf(r, c) \in Nat \ {0}
          /\ \A d \in Clients : d # c => (Known(r, d) <=> Known(t, d))
          /\ \A d \in Clients : Known(t, d) =>
               SlotOf(r, d) = SlotOf(t, d) /\ SlotOf(t, d) # SlotOf(r, c)
      BY <1>1, <2>4, RegisterGrants
    <3>3. Slots' = [d \in Clients |->
                      IF Known(r, d) THEN SlotOf(r, d) ELSE 0]
      BY <3>1
    <3>4. Slots'[c] = SlotOf(r, c) BY <3>2, <3>3
    <3>5. Slots[c] = 0 BY <2>4
    <3>6. \A d \in Clients : Slots[d] # Slots'[c]
      BY <3>2, <3>4
    <3>7. \A d \in Clients : d # c => Slots'[d] = Slots[d]
      BY <2>4, <3>2, <3>3
    <3>8. Slots' = [Slots EXCEPT ![c] = Slots'[c]]
      BY <3>3, <3>7
    <3> QED BY <2>2, <3>2, <3>4, <3>5, <3>6, <3>8 DEF Grants!Grant
  <2> QED BY <2>3, <2>4
<1>3. ASSUME NEW c \in Clients, HearAnswer(c) PROVE Grants!Take(c)
  <2>1. /\ Known(server.table, c) /\ clients' = [clients EXCEPT ![c] = ByAnswer(c)]
        /\ ByAnswer(c).slot = SlotOf(server.table, c)
    BY <1>3, HearAnswerInv
  <2>2. server' = server BY <1>3 DEF HearAnswer
  <2>3. SlotOf(server.table, c) \in Nat \ {0} BY <1>1, <2>1, SlotKnown
  <2>4. Slots' = Slots BY <2>2
  <2>5. Slots[c] = SlotOf(server.table, c) BY <2>1
  <2>6. Held' = [Held EXCEPT ![c] = Slots[c]] BY <1>1, <2>1, <2>5
  <2> QED BY <2>3, <2>4, <2>5, <2>6 DEF Grants!Take
<1>4. ASSUME NEW c \in Clients, RestartClient(c) PROVE Grants!Forget(c)
  <2>1. clients' = [clients EXCEPT ![c] = Unregistered] /\ server' = server
    BY <1>4 DEF RestartClient
  <2>2. Unregistered.slot = 0 BY DEF Unregistered
  <2>3. Held' = [Held EXCEPT ![c] = 0] BY <1>1, <2>1, <2>2
  <2> QED BY <2>1, <2>3 DEF Grants!Forget
<1>5. CASE RestartServer
  <2>1. server'.table = <<Gateway>> /\ clients' = clients
    BY <1>5 DEF RestartServer, FirstServer
  <2>2. ASSUME NEW c \in Clients PROVE ~Known(server'.table, c)
    BY <2>1, Constants DEF Known, Members
  <2>3. Slots' = [c \in Clients |-> 0] BY <2>2
  <2> QED BY <2>1, <2>3 DEF Grants!Next, Grants!Reset, Grants!None
<1>6. ASSUME NEW lost \in SUBSET Clients, SlotTimer(lost)
      PROVE  UNCHANGED <<Slots, Held>>
  <2>1. server'.table = server.table
    <3>1. server \in [table : Seq(Owners), active : Nat, queue : Seq(Clients)]
      BY DEF IInv, GoodServer
    <3>2. \E q : server' = Advanced(server)
                 \/ server' = [Advanced(server) EXCEPT !.queue = q]
      BY <1>6 DEF SlotTimer
    <3> QED BY <3>1, <3>2 DEF Advanced
  <2>2. clients' = [c \in Clients |->
          IF clients[c].registered
          THEN [clients[c] EXCEPT !.timer = @ - 1] ELSE clients[c]]
    BY <1>6 DEF SlotTimer
  <2>3. ASSUME NEW c \in Clients PROVE clients'[c].slot = clients[c].slot
    <3>1. clients[c] \in ClientRecord BY <1>1
    <3> QED BY <2>2, <3>1 DEF ClientRecord
  <2> QED BY <2>1, <2>3
<1>7. ASSUME NEW lost \in SUBSET Clients, HearSync(lost)
      PROVE  UNCHANGED <<Slots, Held>>
  <2>1. server' = server BY <1>7 DEF HearSync
  <2>2. ASSUME NEW c \in Clients PROVE clients'[c].slot = clients[c].slot
    <3>1. clients[c] \in ClientRecord BY <1>1
    <3>2. \/ clients'[c] = clients[c]
          \/ clients'[c] = [clients[c] EXCEPT !.timer = clients[c].slot,
                                              !.frame = air.frame]
      BY <1>7 DEF HearSync
    <3> QED BY <3>1, <3>2 DEF ClientRecord
  <2> QED BY <2>1, <2>2
<1>8. ASSUME NEW c \in Clients, ClientTimer(c) PROVE UNCHANGED <<Slots, Held>>
  <2>1. server' = server BY <1>8 DEF ClientTimer
  <2>2. clients' = [clients EXCEPT ![c].timer = clients[c].frame]
    BY <1>8 DEF ClientTimer
  <2>3. ASSUME NEW d \in Clients PROVE clients'[d].slot = clients[d].slot
    <3>1. clients[d] \in ClientRecord BY <1>1
    <3> QED BY <1>1, <2>2, <3>1 DEF ClientRecord
  <2> QED BY <2>1, <2>3
<1>9. ASSUME NEW c \in Clients, Ask(c) PROVE UNCHANGED <<Slots, Held>>
  BY <1>9 DEF Ask
<1>10. UNCHANGED vars => UNCHANGED <<Slots, Held>> BY DEF vars
<1>11. {} \in SUBSET Clients OBVIOUS
<1>12. UNCHANGED <<Slots, Held>> => UNCHANGED Grants!vars BY DEF Grants!vars
<1> HIDE DEF Slots, Held
<1> QED BY <1>2, <1>3, <1>4, <1>5, <1>6, <1>7, <1>8, <1>9, <1>10, <1>11, <1>12
        DEF Next, Reliable, Faulty, Grants!Next

\* Table and clients implement the abstract grants through every loss and
\* restart: what an answer tells a client is the one slot it was granted.
THEOREM GrantsImplemented == Spec => ImplementsSlotGrants
<1>1. Init => Grants!Init
  <2> SUFFICES ASSUME Init PROVE Grants!Init OBVIOUS
  <2>1. ASSUME NEW c \in Clients PROVE ~Known(server.table, c)
    BY Constants DEF Init, FirstServer, Known, Members
  <2>2. ASSUME NEW c \in Clients PROVE clients[c].slot = 0
    BY DEF Init, Unregistered
  <2> QED BY <2>1, <2>2 DEF Grants!Init, Grants!None
<1>2. IInv /\ [Next]_vars => [Grants!Next]_(Grants!vars) BY GrantStep
<1> QED BY <1>1, <1>2, Invariant, PTL
        DEF Spec, ImplementsSlotGrants, Grants!Spec
-----------------------------------------------------------------------------
\* Why the network settles.  Settles itself needs fairness and stays with
\* TLC; what it rests on is how a client falls in step with the gateway, and
\* that it then stays.

\* The frames at the start of a slot announce the frame of the table as it
\* is: no client registers before they have arrived.
AirCurrent == air.sync \/ air.answers # {} => air.frame = Frame(server.table)

\* The client has the slot and the frame the gateway has for it, and its
\* timer fires in that slot, of this frame or of the next
InStep(c) ==
  /\ clients[c].registered /\ Agreed(c)
  /\ clients[c].frame = Frame(server.table)
  /\ \/ clients[c].timer + server.active = clients[c].slot
     \/ clients[c].timer + server.active
          = clients[c].slot + Frame(server.table)

\* What a client hears from the gateway brings it in step, whatever it
\* believed before: an answer always, a sync frame if it has the slot.
FallsInStep ==
  [][\A c \in Clients :
       \/ HearAnswer(c)
       \/ /\ Agreed(c) /\ c \in synced'
          /\ \E lost \in SUBSET Clients : HearSync(lost)
       => InStep(c)']_vars

\* A client in step talks in its own slot only, and as long as nobody
\* restarts it stays in step until the frame grows: whatever sync frames,
\* answers and packets are lost, and whoever registers in a slot between.
StaysInStep ==
  [][\A c \in Clients :
       InStep(c) /\ Reliable
       => /\ Frame(server'.table) = Frame(server.table) => InStep(c)'
          /\ c \in spoke' \ spoke => Owner(server) = c]_vars

\* The slot timer leaves the table, and counts on in the frame
LEMMA SlotTimerTable ==
  ASSUME IInv, NEW lost \in SUBSET Clients, SlotTimer(lost)
  PROVE  /\ server'.table = server.table
         /\ \/ server'.active = server.active + 1
            \/ server'.active = 0 /\ server.active + 1 = Frame(server.table)
         /\ air'.frame = Frame(server.table)
<1> DEFINE next == Advanced(server)
           a == server.active
           F == Frame(server.table)
<1>1. /\ server \in ServerRecord /\ a \in Nat /\ a < F
      /\ F \in Nat \ {0}
  BY FrameBounds DEF IInv, GoodServer, GoodTable, ServerRecord
<1>2. /\ next \in ServerRecord /\ next.table = server.table
      /\ next.active = (a + 1) % F
  <2>1. next.table = server.table /\ next.active = (a + 1) % F
    BY <1>1 DEF Advanced, ServerRecord
  <2>2. GoodServer(next) BY AdvancedGood DEF IInv
  <2> QED BY <2>1, <2>2 DEF GoodServer, ServerRecord
<1>3. /\ \E q : server' = next \/ server' = [next EXCEPT !.queue = q]
      /\ air'.frame = Frame(next.table)
  BY DEF SlotTimer
<1> HIDE DEF next
<1>4. server'.table = server.table /\ server'.active = (a + 1) % F
  BY <1>2, <1>3 DEF ServerRecord
<1> HIDE DEF a, F
<1>5. CASE a + 1 < F
  <2>1. a + 1 \in 0 .. F - 1 BY <1>1, <1>5
  <2>2. (a + 1) % F = a + 1
    <3> DEFINE b == a + 1
    <3>1. b \in 0 .. F - 1 BY <2>1
    <3> HIDE DEF b
    <3>2. b % F = b BY <1>1, <3>1, Below
    <3> QED BY <3>2 DEF b
  <2> QED BY <1>2, <1>3, <1>4, <2>2 DEF a
<1>6. CASE ~(a + 1 < F)
  <2>1. a + 1 = F BY <1>1, <1>6
  <2>2. F % F = 0 BY <1>1
  <2> QED BY <1>2, <1>3, <1>4, <2>1, <2>2 DEF a, F
<1> QED BY <1>5, <1>6

\* A packet changes nothing for a client that is in the table
LEMMA HearPacketTable ==
  ASSUME IInv, NEW c \in Clients, HearPacket(c)
  PROVE  /\ server'.active = server.active
         /\ \A d \in Clients : Known(server.table, d)
              => /\ Known(server'.table, d)
                 /\ SlotOf(server'.table, d) = SlotOf(server.table, d)
<1>1. server' = Heard(server, c) BY DEF HearPacket
<1>2. GoodServer(server) /\ GoodTable(server.table) /\ server \in ServerRecord
  BY DEF IInv, GoodServer, ServerRecord
<1>3. server'.active = server.active BY <1>1, <1>2, HeardGood
<1>4. CASE Known(server.table, c)
  <2>1. server'.table = server.table
    BY <1>1, <1>2, <1>4 DEF Heard, ServerRecord
  <2> QED BY <1>3, <2>1
<1>5. CASE ~Known(server.table, c)
  <2>1. server'.table = Register(server.table, c)
    BY <1>1, <1>2, <1>5 DEF Heard, ServerRecord
  <2> QED BY <1>2, <1>3, <1>5, <2>1, RegisterGrants
<1> QED BY <1>4, <1>5

LEMMA AirCurrentInv ==
  ASSUME IInv, AirCurrent, [Next]_vars
  PROVE  AirCurrent'
<1>0. air \in Air BY DEF IInv, GoodAir
<1>1. ASSUME NEW lost \in SUBSET Clients, SlotTimer(lost) PROVE AirCurrent'
  BY <1>1, SlotTimerTable DEF AirCurrent
<1>2. ASSUME NEW lost \in SUBSET Clients, HearSync(lost) PROVE AirCurrent'
  <2>1. /\ air'.frame = air.frame /\ air'.answers = air.answers
        /\ air.sync /\ server' = server
    BY <1>0, <1>2 DEF HearSync, Air
  <2> QED BY <2>1 DEF AirCurrent
<1>3. ASSUME NEW c \in Clients, HearAnswer(c) PROVE AirCurrent'
  <2>1. air'.frame = air.frame /\ air.answers # {} /\ server' = server
    BY <1>0, <1>3 DEF HearAnswer, Air
  <2> QED BY <2>1 DEF AirCurrent
<1>4. ASSUME NEW c \in Clients, HearPacket(c) PROVE AirCurrent'
  <2>1. ~air'.sync /\ air'.answers = {} BY <1>0, <1>4 DEF HearPacket, Air
  <2> QED BY <2>1 DEF AirCurrent
<1>5. ASSUME NEW c \in Clients, ClientTimer(c) \/ Ask(c) PROVE AirCurrent'
  <2>1. /\ air'.frame = air.frame /\ air'.answers = air.answers
        /\ air'.sync = air.sync /\ server' = server
    BY <1>0, <1>5 DEF ClientTimer, Ask, Transmit, Air
  <2> QED BY <2>1 DEF AirCurrent
<1>6. ASSUME NEW c \in Clients, RestartClient(c) PROVE AirCurrent'
  BY <1>6 DEF RestartClient, AirCurrent
<1>7. CASE RestartServer BY <1>7 DEF RestartServer, SlotOver, AirCurrent
<1>8. CASE UNCHANGED vars BY <1>8 DEF vars, AirCurrent
<1> QED BY <1>1, <1>2, <1>3, <1>4, <1>5, <1>6, <1>7, <1>8
        DEF Next, Reliable, Faulty

\* Every frame on air announces the frame the gateway has
THEOREM AirCurrentCorrect == Spec => []AirCurrent
<1>1. Init => AirCurrent BY DEF Init, Silence, AirCurrent
<1>2. IInv /\ AirCurrent /\ [Next]_vars => AirCurrent' BY AirCurrentInv
<1> QED BY <1>1, <1>2, Invariant, PTL DEF Spec

LEMMA HearAnswerInStep ==
  ASSUME IInv, AirCurrent, NEW c \in Clients, HearAnswer(c)
  PROVE  InStep(c)'
<1> DEFINE slot == SlotOf(server.table, c)
<1>1. /\ Known(server.table, c) /\ clients' = [clients EXCEPT ![c] = ByAnswer(c)]
      /\ server' = server /\ air.frame = Frame(server.table)
      /\ clients \in [Clients -> ClientRecord]
      /\ server.active \in Nat /\ air.frame \in Nat
  BY HearAnswerInv
     DEF HearAnswer, AirCurrent, IInv, GoodClients, GoodAir, Air, GoodServer
<1>2. slot \in Nat
  BY <1>1, SlotKnown DEF IInv, GoodServer
<1>3. /\ clients'[c].registered /\ clients'[c].slot = slot
      /\ clients'[c].frame = air.frame
      /\ clients'[c].timer = air.frame - server.active + slot
  BY <1>1 DEF ByAnswer
<1> HIDE DEF slot
<1>4. clients'[c].timer + server.active = slot + air.frame
  BY <1>1, <1>2, <1>3
<1> QED BY <1>1, <1>3, <1>4 DEF InStep, Agreed, slot

LEMMA HearSyncInStep ==
  ASSUME IInv, AirCurrent, NEW lost \in SUBSET Clients, HearSync(lost),
         NEW c \in Clients, Agreed(c)
  PROVE  /\ c \in synced' => InStep(c)'
         /\ InStep(c) => InStep(c)'
<1>1. /\ air.sync /\ server' = server /\ air.frame = Frame(server.table)
      /\ server.active = 0 /\ clients \in [Clients -> ClientRecord]
      /\ clients[c] \in ClientRecord
  BY DEF HearSync, AirCurrent, IInv, GoodAir, GoodClients
<1>2. CASE c \in synced'
  <2>1. /\ clients[c].registered
        /\ clients'[c] = [clients[c] EXCEPT !.timer = clients[c].slot,
                                            !.frame = air.frame]
    BY <1>2 DEF HearSync
  <2>2. /\ clients'[c].registered /\ clients'[c].slot = clients[c].slot
        /\ clients'[c].frame = air.frame
        /\ clients'[c].timer = clients[c].slot
    BY <1>1, <2>1 DEF ClientRecord
  <2>3. clients'[c].timer + server.active = clients[c].slot
    BY <1>1, <2>2 DEF ClientRecord
  <2> QED BY <1>1, <2>2, <2>3 DEF InStep, Agreed
<1>3. CASE c \notin synced'
  <2>1. clients'[c] = clients[c] BY <1>3 DEF HearSync
  <2> QED BY <1>1, <1>3, <2>1 DEF InStep, Agreed
<1> QED BY <1>2, <1>3

LEMMA SlotTimerInStep ==
  ASSUME IInv, NEW lost \in SUBSET Clients, SlotTimer(lost),
         NEW c \in Clients, InStep(c)
  PROVE  InStep(c)'
<1> DEFINE F == Frame(server.table)
<1>1. /\ server'.table = server.table
      /\ \/ server'.active = server.active + 1
         \/ server'.active = 0 /\ server.active + 1 = F
  BY SlotTimerTable
<1>2. /\ clients[c] \in ClientRecord /\ clients[c].registered
      /\ clients[c].timer # 0
      /\ clients'[c] = [clients[c] EXCEPT !.timer = @ - 1]
  BY DEF SlotTimer, SlotOver, Due, InStep, IInv, GoodClients
<1>3. /\ clients'[c].registered /\ clients'[c].slot = clients[c].slot
      /\ clients'[c].frame = clients[c].frame
      /\ clients'[c].timer = clients[c].timer - 1
  BY <1>2 DEF ClientRecord
<1>4. /\ F \in Nat /\ server.active \in Nat /\ clients[c].timer \in Nat
      /\ clients[c].slot \in Nat /\ clients[c].slot < F
  <2>1. GoodTable(server.table) BY DEF IInv, GoodServer
  <2>2. clients[c].slot \in 1 .. Len(server.table) - 1
    BY <2>1, SlotKnown DEF InStep, Agreed
  <2>3. F \in Nat /\ Len(server.table) <= F /\ Len(server.table) \in Nat
    BY <2>1, FrameBounds DEF GoodTable
  <2>4. server.active \in Nat BY DEF IInv, GoodServer
  <2> HIDE DEF F
  <2> QED BY <1>2, <2>2, <2>3, <2>4 DEF ClientRecord
<1>5. \/ clients[c].timer + server.active = clients[c].slot
      \/ clients[c].timer + server.active = clients[c].slot + F
  BY DEF InStep
<1>6. \/ clients'[c].timer + server'.active = clients[c].slot
      \/ clients'[c].timer + server'.active = clients[c].slot + F
  <2> HIDE DEF F
  <2> DEFINE a == server.active
             b == server'.active
             t == clients[c].timer
             u == clients'[c].timer
             s == clients[c].slot
  <2>1. /\ b = a + 1 \/ (b = 0 /\ a + 1 = F)
        /\ u = t - 1 /\ t # 0 /\ a \in Nat /\ t \in Nat /\ s \in Nat /\ s < F
        /\ F \in Nat /\ (t + a = s \/ t + a = s + F)
    BY <1>1, <1>2, <1>3, <1>4, <1>5
  <2> HIDE DEF a, b, t, u, s
  <2>2. u + b = s \/ u + b = s + F BY <2>1
  <2> QED BY <2>2 DEF a, b, t, u, s
<1> QED BY <1>1, <1>3, <1>6 DEF InStep, Agreed

LEMMA ClientTimerInStep ==
  ASSUME IInv, NEW d \in Clients, ClientTimer(d), NEW c \in Clients, InStep(c)
  PROVE  /\ InStep(c)'
         /\ c \in spoke' \ spoke => Owner(server) = c
<1>1. /\ Due(d) /\ clients' = [clients EXCEPT ![d].timer = clients[d].frame]
      /\ server' = server /\ spoke' \subseteq spoke \cup {d}
      /\ clients \in [Clients -> ClientRecord]
  BY DEF ClientTimer, Transmit, IInv, GoodClients
<1>2. CASE d # c
  <2>1. clients'[c] = clients[c] BY <1>1, <1>2
  <2> QED BY <1>1, <1>2, <2>1 DEF InStep, Agreed
<1>3. CASE d = c
  <2>1. /\ clients[c] \in ClientRecord /\ clients[c].timer = 0
        /\ clients'[c] = [clients[c] EXCEPT !.timer = clients[c].frame]
    BY <1>1, <1>3 DEF Due
  <2>2. /\ clients'[c].registered = clients[c].registered
        /\ clients'[c].slot = clients[c].slot
        /\ clients'[c].frame = clients[c].frame
        /\ clients'[c].timer = clients[c].frame
    BY <2>1 DEF ClientRecord
  <2>3. GoodTable(server.table) /\ server.active \in Nat
        /\ server.active < Frame(server.table)
    BY DEF IInv, GoodServer
  <2>4. /\ clients[c].slot \in 1 .. Len(server.table) - 1
        /\ server.table[clients[c].slot + 1] = c
    BY <2>3, SlotKnown DEF InStep, Agreed
  <2>5. Len(server.table) \in Nat /\ Frame(server.table) \in Nat
    BY <2>3, FrameBounds DEF GoodTable
  <2>6. server.active = clients[c].slot
    BY <2>1, <2>3, <2>4, <2>5 DEF InStep
  <2>7. Owner(server) = c BY <2>4, <2>5, <2>6 DEF Owner
  <2>8. clients'[c].timer + server.active = clients[c].slot + Frame(server.table)
    BY <2>2, <2>4, <2>5, <2>6 DEF InStep
  <2> QED BY <1>1, <2>2, <2>7, <2>8 DEF InStep, Agreed
<1> QED BY <1>2, <1>3

\* Hearing from the gateway brings a client in step
THEOREM FallsInStepCorrect == Spec => FallsInStep
<1> DEFINE Falls ==
      \A c \in Clients :
        \/ HearAnswer(c)
        \/ /\ Agreed(c) /\ c \in synced'
           /\ \E lost \in SUBSET Clients : HearSync(lost)
        => InStep(c)'
<1>1. IInv /\ AirCurrent /\ [Next]_vars => [Falls]_vars
  BY HearAnswerInStep, HearSyncInStep
<1> HIDE DEF Falls
<1>2. Spec => [][Falls]_vars
  BY <1>1, Invariant, AirCurrentCorrect, PTL DEF Spec
<1> QED BY <1>2 DEF FallsInStep, Falls

\* In step a client talks in its own slot, and stays in step
THEOREM StaysInStepCorrect == Spec => StaysInStep
<1> DEFINE Stays ==
      \A c \in Clients :
        InStep(c) /\ Reliable
        => /\ Frame(server'.table) = Frame(server.table) => InStep(c)'
           /\ c \in spoke' \ spoke => Owner(server) = c
<1>1. ASSUME IInv, AirCurrent, NEW c \in Clients, InStep(c), Reliable
      PROVE  /\ Frame(server'.table) = Frame(server.table) => InStep(c)'
             /\ c \in spoke' \ spoke => Owner(server) = c
  <2>0. Agreed(c) /\ clients[c].registered BY <1>1 DEF InStep
  <2>1. CASE SlotTimer({})
    <3>1. {} \in SUBSET Clients OBVIOUS
    <3>2. spoke' = {} BY <2>1 DEF SlotTimer
    <3> QED BY <1>1, <2>1, <3>1, <3>2, SlotTimerInStep
  <2>2. ASSUME NEW lost \in SUBSET Clients, HearSync(lost)
        PROVE  InStep(c)' /\ spoke' = spoke
    BY <1>1, <2>0, <2>2, HearSyncInStep DEF HearSync
  <2>3. ASSUME NEW d \in Clients, HearAnswer(d)
        PROVE  InStep(c)' /\ spoke' = spoke
    <3>1. CASE d = c BY <1>1, <2>3, <3>1, HearAnswerInStep DEF HearAnswer
    <3>2. CASE d # c
      <4>1. /\ clients' = [clients EXCEPT ![d] = ByAnswer(d)]
            /\ server' = server /\ spoke' = spoke
            /\ clients \in [Clients -> ClientRecord]
        BY <1>1, <2>3 DEF HearAnswer, IInv, GoodClients
      <4>2. clients'[c] = clients[c] BY <3>2, <4>1
      <4> QED BY <1>1, <4>1, <4>2 DEF InStep, Agreed
    <3> QED BY <3>1, <3>2
  <2>4. ASSUME NEW d \in Clients, HearPacket(d),
               Frame(server'.table) = Frame(server.table)
        PROVE  InStep(c)'
    <3>1. /\ server'.active = server.active /\ clients' = clients
          /\ Known(server'.table, c)
          /\ SlotOf(server'.table, c) = SlotOf(server.table, c)
      BY <1>1, <2>0, <2>4, HearPacketTable DEF HearPacket, Agreed
    <3> QED BY <1>1, <2>4, <3>1 DEF InStep, Agreed
  <2>5. ASSUME NEW d \in Clients, HearPacket(d) PROVE spoke' = spoke
    BY <2>5 DEF HearPacket
  <2>6. ASSUME NEW d \in Clients, ClientTimer(d)
        PROVE  InStep(c)' /\ (c \in spoke' \ spoke => Owner(server) = c)
    BY <1>1, <2>6, ClientTimerInStep
  <2>7. ASSUME NEW d \in Clients, Ask(d)
        PROVE  InStep(c)' /\ c \notin spoke' \ spoke
    <3>1. /\ d # c /\ clients' = clients /\ server' = server
          /\ spoke' = spoke \cup {d}
      BY <2>0, <2>7 DEF Ask, Transmit
    <3> QED BY <1>1, <3>1 DEF InStep, Agreed
  <2> QED BY <1>1, <2>1, <2>2, <2>3, <2>4, <2>5, <2>6, <2>7 DEF Reliable
<1>2. IInv /\ AirCurrent /\ [Next]_vars => [Stays]_vars BY <1>1
<1> HIDE DEF Stays
<1>3. Spec => [][Stays]_vars
  BY <1>2, Invariant, AirCurrentCorrect, PTL DEF Spec
<1> QED BY <1>3 DEF StaysInStep, Stays
-----------------------------------------------------------------------------
\* What the radio modes allow

\* In the 1 and 2 Mbit modes every slot of the gateway has room for an
\* answer, the slot that starts with the sync frame included.
THEOREM AnswersFit ==
  ASSUME ByteTime \in {4, 8}, NEW n \in Nat \ {0},
         NEW passed \in {0, SyncTime}
  PROVE  Answered(n, passed) >= 1
<1> DEFINE budget == AnswerBudget(passed)
           most   == (budget - passed - 1) \div AnswerTime
<1>1. CASE ByteTime = 4
  <2>1. SyncTime = 228 /\ AnswerTime = 292
    BY <1>1 DEF SyncTime, AnswerTime, RampUp
  <2>2. CASE passed = 0
    <3>1. budget = 1150 BY <2>2 DEF AnswerBudget, SlotTime, DeadTime
    <3>2. most = 3 BY <2>1, <2>2, <3>1
    <3> QED BY <2>2, <3>1, <3>2 DEF Answered
  <2>3. CASE passed = 228
    <3>1. budget = 1036 BY <2>3 DEF AnswerBudget, SlotTime, DeadTime
    <3>2. most = 2 BY <2>1, <2>3, <3>1
    <3> QED BY <2>3, <3>1, <3>2 DEF Answered
  <2> QED BY <2>1, <2>2, <2>3
<1>2. CASE ByteTime = 8
  <2>1. SyncTime = 316 /\ AnswerTime = 444
    BY <1>2 DEF SyncTime, AnswerTime, RampUp
  <2>2. CASE passed = 0
    <3>1. budget = 1150 BY <2>2 DEF AnswerBudget, SlotTime, DeadTime
    <3>2. most = 2 BY <2>1, <2>2, <3>1
    <3> QED BY <2>2, <3>1, <3>2 DEF Answered
  <2>3. CASE passed = 316
    <3>1. budget = 992 BY <2>3 DEF AnswerBudget, SlotTime, DeadTime
    <3>2. most = 1 BY <2>1, <2>3, <3>1
    <3> QED BY <2>3, <3>1, <3>2 DEF Answered
  <2> QED BY <2>1, <2>2, <2>3
<1> QED BY <1>1, <1>2

\* The modes in which the gateway has no room for an answer in any slot it
\* reaches: 125 kbit always, 500 kbit as long as all clients and one slot of
\* the gateway make up the table, as that slot starts with the sync frame.
MuteMode ==
  \/ ByteTime = 64
  \/ ByteTime = 16 /\ Cardinality(Clients) < GatewayEvery

LEMMA NoRoom ==
  ASSUME NEW n \in Nat, NEW passed \in {0, SyncTime},
         ByteTime = 64 \/ (ByteTime = 16 /\ passed = SyncTime)
  PROVE  Answered(n, passed) = 0
<1> DEFINE budget == AnswerBudget(passed)
           most   == (budget - passed - 1) \div AnswerTime
<1>1. CASE ByteTime = 64
  <2>1. SyncTime = 1548 /\ AnswerTime = 2572
    BY <1>1 DEF SyncTime, AnswerTime, RampUp
  <2>2. CASE passed = 0
    <3>1. budget = 1150 BY <2>2 DEF AnswerBudget, SlotTime, DeadTime
    <3>2. most = 0 BY <2>1, <2>2, <3>1
    <3> QED BY <2>2, <3>1, <3>2 DEF Answered
  <2>3. CASE passed = 1548
    <3>1. budget = 376 BY <2>3 DEF AnswerBudget, SlotTime, DeadTime
    <3> QED BY <2>3, <3>1 DEF Answered
  <2> QED BY <2>1, <2>2, <2>3
<1>2. CASE ByteTime = 16 /\ passed = SyncTime
  <2>1. passed = 492 /\ AnswerTime = 748
    BY <1>2 DEF SyncTime, AnswerTime, RampUp
  <2>2. budget = 904 BY <2>1 DEF AnswerBudget, SlotTime, DeadTime
  <2>3. most = 0 BY <2>1, <2>2
  <2> QED BY <2>1, <2>2, <2>3 DEF Answered
<1> QED BY <1>1, <1>2

\* With fewer clients than slots between two of the gateway's, the gateway
\* has no second slot.
LEMMA ShortTable ==
  ASSUME NEW t, GoodTable(t), Cardinality(Clients) < GatewayEvery
  PROVE  Len(t) <= GatewayEvery
<1> DEFINE n == Cardinality(Registered(t))
           N == Cardinality(Clients)
<1>1. n \in Nat /\ N \in Nat /\ n <= N
  <2>1. Registered(t) \subseteq Clients BY DEF Registered
  <2> QED BY <2>1, Constants, FS_Subset, FS_CardinalityType
<1>2. PICK k \in Nat \ {0} :
        /\ Len(t) = n + k /\ Len(t) <= GatewayEvery * k
        /\ k > 1 => Len(t) > GatewayEvery * (k - 1) + 1
  BY DEF GoodTable, Counted
<1> HIDE DEF n, N
<1>3. CASE k = 1 BY <1>2, <1>3, Constants
<1>4. CASE k > 1
  <2> DEFINE j == k - 1
             m == (GatewayEvery - 1) * j
  <2>1. j \in Nat /\ j >= 1 /\ GatewayEvery - 1 \in Nat \ {0}
    BY <1>2, <1>4, Constants
  <2>2. m >= GatewayEvery - 1 BY <2>1, AtLeastOnce
  <2>3. GatewayEvery * j = m + j BY <2>1, Constants
  <2>4. m \in Int BY <2>1
  <2>5. n + k > GatewayEvery * j + 1 BY <1>2, <1>4
  <2> HIDE DEF m
  <2>6. n > m BY <1>1, <1>2, <2>1, <2>3, <2>4, <2>5
  <2> QED BY <1>1, <2>2, <2>4, <2>6, Constants DEF N
<1> QED BY <1>2, <1>3, <1>4

Unheard == air.answers = {} /\ \A c \in Clients : ~clients[c].registered

LEMMA MuteTimer ==
  ASSUME MuteMode, IInv, Unheard, NEW lost \in SUBSET Clients, SlotTimer(lost)
  PROVE  Unheard'
<1> DEFINE next   == Advanced(server)
           start  == next.active = 0
           mine   == Owner(next) = Gateway
           passed == IF start THEN SyncTime ELSE 0
           served == IF mine THEN Answered(Len(next.queue), passed) ELSE 0
<1>1. air'.answers = {next.queue[i] : i \in 1 .. served} \ lost
  BY DEF SlotTimer
<1>2. \A c \in Clients : ~clients'[c].registered BY DEF SlotTimer, Unheard
<1>3. /\ server \in [table : Seq(Owners), active : Nat, queue : Seq(Clients)]
      /\ GoodTable(server.table)
  BY DEF IInv, GoodServer
<1>4. /\ next.table = server.table /\ next.queue = server.queue
      /\ next.active = (server.active + 1) % Frame(server.table)
  BY <1>3 DEF Advanced
<1>5. Len(next.queue) \in Nat BY <1>3, <1>4
<1>6. CASE mine
  <2>1. ByteTime = 64 \/ (ByteTime = 16 /\ start)
    <3>1. SUFFICES ASSUME ByteTime = 16, Cardinality(Clients) < GatewayEvery
                   PROVE  start
      BY DEF MuteMode
    <3>2. Len(server.table) <= GatewayEvery BY <1>3, <3>1, ShortTable
    <3>3. Len(server.table) \in Nat /\ Frame(server.table) \in Nat \ {0}
      BY <1>3, FrameBounds DEF GoodTable
    <3>4. next.active \in 0 .. Frame(server.table) - 1
      <4>1. server.active + 1 \in Nat BY <1>3
      <4> QED BY <1>4, <3>3, <4>1, Divided
    <3>5. /\ next.active < Len(server.table)
          /\ server.table[next.active + 1] = Gateway
      BY <1>4, <1>6, Constants DEF Owner
    <3>6. /\ next.active \in Nat /\ next.active + 1 \in 1 .. Len(server.table)
          /\ (next.active + 1) - 1 = next.active
      BY <3>3, <3>4, <3>5
    <3>7. next.active % GatewayEvery = 0
      BY <1>3, <3>5, <3>6 DEF GoodTable, TableShape
    <3>8. next.active \in 0 .. GatewayEvery - 1
      BY <3>2, <3>3, <3>5, <3>6, Constants
    <3>9. next.active % GatewayEvery = next.active BY <3>8, Constants, Below
    <3> QED BY <3>7, <3>9
  <2>2. Answered(Len(next.queue), passed) = 0
    <3> HIDE DEF next
    <3>1. passed \in {0, SyncTime} OBVIOUS
    <3>2. ByteTime = 64 \/ (ByteTime = 16 /\ passed = SyncTime) BY <2>1
    <3> HIDE DEF passed
    <3> QED BY <1>5, <3>1, <3>2, NoRoom
  <2>3. served = 0 BY <1>6, <2>2
  <2> HIDE DEF served
  <2>4. {next.queue[i] : i \in 1 .. served} = {} BY <2>3
  <2> QED BY <1>1, <1>2, <2>4 DEF Unheard
<1>7. CASE ~mine
  <2>1. served = 0 BY <1>7
  <2> HIDE DEF served
  <2>2. {next.queue[i] : i \in 1 .. served} = {} BY <2>1
  <2> QED BY <1>1, <1>2, <2>2 DEF Unheard
<1> QED BY <1>6, <1>7

\* In the long range modes no client is ever registered: what the header
\* offers as db_radio_mode_t is a network that never starts, as the gateway
\* queues the answers and never has the time to send one.
THEOREM LongRangeMute ==
  ASSUME MuteMode
  PROVE  Spec => [](\A c \in Clients : ~clients[c].registered)
<1>1. Init => Unheard BY DEF Init, Silence, Unheard, Unregistered
<1>2. IInv /\ Unheard /\ [Next]_vars => Unheard'
  <2> SUFFICES ASSUME IInv, Unheard, [Next]_vars PROVE Unheard' OBVIOUS
  <2>1. ASSUME NEW lost \in SUBSET Clients, SlotTimer(lost) PROVE Unheard'
    BY <2>1, MuteTimer
  <2>2. air \in Air BY DEF IInv, GoodAir
  <2>3. ASSUME NEW lost \in SUBSET Clients, HearSync(lost) PROVE Unheard'
    <3>1. /\ clients' = clients
          /\ air' = [air EXCEPT !.sync = FALSE]
      <4>1. clients \in [Clients -> ClientRecord] BY DEF IInv, GoodClients
      <4> QED BY <2>3, <4>1 DEF HearSync, Unheard
    <3> QED BY <2>2, <3>1 DEF Unheard, Air
  <2>4. ASSUME NEW c \in Clients, HearAnswer(c) PROVE FALSE
    BY <2>4 DEF HearAnswer, Unheard
  <2>5. ASSUME NEW c \in Clients, HearPacket(c) PROVE Unheard'
    BY <2>2, <2>5 DEF HearPacket, Unheard, Air
  <2>6. ASSUME NEW c \in Clients, ClientTimer(c) PROVE FALSE
    BY <2>6 DEF ClientTimer, Due, Unheard
  <2>7. ASSUME NEW c \in Clients, Ask(c) PROVE Unheard'
    BY <2>2, <2>7 DEF Ask, Transmit, Unheard, Air
  <2>8. ASSUME NEW c \in Clients, RestartClient(c) PROVE Unheard'
    <3>1. clients \in [Clients -> ClientRecord] BY DEF IInv, GoodClients
    <3> QED BY <2>8, <3>1 DEF RestartClient, Unheard, Unregistered
  <2>9. CASE RestartServer BY <2>9 DEF RestartServer, Unheard
  <2>10. CASE UNCHANGED vars BY <2>10 DEF vars, Unheard
  <2>11. {} \in SUBSET Clients OBVIOUS
  <2> QED BY <2>1, <2>3, <2>4, <2>5, <2>6, <2>7, <2>8, <2>9, <2>10, <2>11
          DEF Next, Reliable, Faulty
<1>3. Unheard => \A c \in Clients : ~clients[c].registered BY DEF Unheard
<1> QED BY <1>1, <1>2, <1>3, Invariant, PTL DEF Spec
=============================================================================
