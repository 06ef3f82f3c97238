----------------------------- MODULE TdmaServer -----------------------------
(***************************************************************************)
(* The gateway's side of the time-division network,                        *)
(* drv/tdma_server/tdma_server_default.c, as operators on one record.      *)
(* Time on air is in microseconds, the table and the frame in slots.       *)
(***************************************************************************)
EXTENDS Integers, Sequences

CONSTANTS
  Clients,       \* the robots
  Gateway,       \* the owner of the gateway's slots
  Nobody,        \* the owner of a slot past the table
  DefaultSlots,  \* slots of the shortest frame
  GatewayEvery,  \* a gateway slot at every multiple of this index
  RingSize,      \* clients that can wait for an answer
  ByteTime       \* microseconds on air per byte, by the radio's mode

\* The radio's modes are 2 and 1 Mbit, and 500 and 125 kbit long range.
ServerAssumption ==
  /\ Gateway \notin Clients /\ Nobody \notin Clients /\ Nobody # Gateway
  /\ DefaultSlots \in Nat \ {0} /\ GatewayEvery \in Nat \ {0, 1}
  /\ DefaultSlots <= GatewayEvery
  /\ RingSize \in Nat \ {0}
  /\ ByteTime \in {4, 8, 16, 64}
ASSUME ServerAssumption

SlotTime == 2500
DeadTime == 100
RampUp   == 140

\* The sync frame has 4 bytes after its header of 18, an answer has 20.
SyncTime   == RampUp + 22 * ByteTime
AnswerTime == RampUp + 38 * ByteTime

(***************************************************************************)
(* The table: slot i belongs to table[i + 1].                              *)
(***************************************************************************)
FirstServer == [table |-> <<Gateway>>, active |-> 0, queue |-> <<>>]

Members(seq) == {seq[i] : i \in 1 .. Len(seq)}

Frame(table) == IF Len(table) > DefaultSlots THEN Len(table) ELSE DefaultSlots

Known(table, c) == c \in Members(table)

SlotOf(table, c) ==
  CHOOSE i \in 0 .. Len(table) - 1 :
    table[i + 1] = c /\ \A j \in 1 .. i : table[j] # c

Register_NoGatewaySlot(table, c) == Append(table, c)
Register(table, c) ==
  IF Len(table) % GatewayEvery = 0
  THEN Append(Append(table, Gateway), c) ELSE Append(table, c)

Owner(server) ==
  IF server.active < Len(server.table)
  THEN server.table[server.active + 1] ELSE Nobody

(***************************************************************************)
(* The clients to answer.  A full ring has its indices equal, as an empty  *)
(* one has, and the scan for a client finds nothing in either; adding to a *)
(* full ring overwrites its oldest client.                                 *)
(***************************************************************************)
Waits(queue, c) == Len(queue) < RingSize /\ c \in Members(queue)

Enqueue_Unbounded(queue, c) == Append(queue, c)
Enqueue(queue, c) ==
  Append(IF Len(queue) < RingSize THEN queue ELSE Tail(queue), c)

\* A packet of client c was received: a new client gets a slot, one that
\* talks out of its slot is to be reminded of it.
Heard_Unregistered(server, c) ==
  IF Known(server.table, c) /\ Owner(server) = c THEN server
  ELSE [server EXCEPT !.queue = Enqueue(@, c)]
Heard_NoReminder(server, c) ==
  IF Known(server.table, c) THEN server
  ELSE [server EXCEPT !.table = Register(@, c), !.queue = Enqueue(@, c)]
Heard(server, c) ==
  IF ~Known(server.table, c)
  THEN [server EXCEPT !.table = Register(@, c), !.queue = Enqueue(@, c)]
  ELSE IF Owner(server) # c /\ ~Waits(server.queue, c)
  THEN [server EXCEPT !.queue = Enqueue(@, c)]
  ELSE server

(***************************************************************************)
(* The slot timer.                                                         *)
(***************************************************************************)
Advanced(server) ==
  [server EXCEPT !.active = (@ + 1) % Frame(server.table)]

\* How far into a slot the answers, and then the packets, may go, when part
\* of it has passed.  Both wrap in the 16 bits of the queue's argument.
AnswerBudget(passed) == ((SlotTime - passed) \div 2 - DeadTime) % 65536
PacketBudget_Whole(passed) == SlotTime % 65536
PacketBudget(passed) == (SlotTime - passed - DeadTime) % 65536

\* How many of n clients are answered: those whose answer ends in time
Answered(n, passed) ==
  LET budget == AnswerBudget(passed)
      most   == IF budget > passed
                THEN (budget - passed - 1) \div AnswerTime ELSE 0
  IN  IF most < n THEN most ELSE n

\* The first client that is not answered in time was taken off the queue
\* and is put back at its end.
Unanswered(queue, k) ==
  IF k = Len(queue) THEN <<>>
  ELSE Append(SubSeq(queue, k + 2, Len(queue)), queue[k + 1])

\* When the last packet may end: each is sent if it ends in time.
LastPacket(passed) ==
  IF passed < PacketBudget(passed) THEN PacketBudget(passed) - 1 ELSE passed
=============================================================================
