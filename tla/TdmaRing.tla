------------------------------ MODULE TdmaRing ------------------------------
(***************************************************************************)
(* The ring of packets to send of drv/tdma_server/tdma_server_default.c    *)
(* (tdma_client_default.c has the same), at the grain of its loads and     *)
(* stores: the application adds to it (db_tdma_server_tx), sends it all    *)
(* (flush) or erases it (empty), the interrupt of the slot timer takes     *)
(* from it, and nothing keeps them apart.                                  *)
(***************************************************************************)
EXTENDS Integers

CONSTANT RingSize  \* TDMA_RING_BUFFER_SIZE

CountRange == 256  \* count is a uint8_t

VARIABLES
  write_index, read_index, count,
  step,          \* how far the application is in its call
  index, number  \* the index and the count it has loaded

fields == <<write_index, read_index, count>>
vars == <<fields, step, index, number>>

After(i) == (i + 1) % RingSize

Init ==
  /\ write_index = 0 /\ read_index = 0 /\ count = 0
  /\ step = "idle" /\ index = 0 /\ number = 0

\* The compiler may load a field again instead of keeping it.
Reload ==
  /\ index' = CASE step = "copied"                -> write_index
                [] step \in {"dropping", "taken"} -> read_index
                [] OTHER                          -> index
  /\ number' = IF step \in {"counting", "lowering"} THEN count ELSE number
  /\ UNCHANGED <<fields, step>>

(***************************************************************************)
(* _message_rb_add, called by db_tdma_server_tx, and by flush for a packet *)
(* that does not end in time, after which the flush is over                *)
(***************************************************************************)
Copy ==
  /\ step \in {"idle", "sending"}
  /\ index' = write_index /\ step' = "copied"
  /\ UNCHANGED <<fields, number>>

MoveWrite ==
  /\ step = "copied"
  /\ write_index' = After(index) /\ step' = "moved"
  /\ UNCHANGED <<read_index, count, index, number>>

LoadCount ==
  /\ step = "moved"
  /\ number' = count
  /\ step' = IF count < RingSize THEN "counting" ELSE "full"
  /\ UNCHANGED <<fields, index>>

StoreCount ==
  /\ step = "counting"
  /\ count' = (number + 1) % CountRange /\ step' = "idle"
  /\ UNCHANGED <<write_index, read_index, index, number>>

\* A full ring gives up its oldest packet.
LoadRead ==
  /\ step = "full"
  /\ index' = read_index /\ step' = "dropping"
  /\ UNCHANGED <<fields, number>>

MoveRead ==
  /\ step = "dropping"
  /\ read_index' = After(index) /\ step' = "idle"
  /\ UNCHANGED <<write_index, count, index, number>>

Add == Reload \/ Copy \/ MoveWrite \/ LoadCount \/ StoreCount
         \/ LoadRead \/ MoveRead

(***************************************************************************)
(* _message_rb_tx_queue and _message_rb_get, called by                     *)
(* db_tdma_server_flush: packet after packet, as long as there are any     *)
(***************************************************************************)
TakeNext ==
  /\ step \in {"idle", "sending"}
  /\ count > 0
  /\ number' = count /\ index' = read_index /\ step' = "taken"
  /\ UNCHANGED fields

MoveTaken ==
  /\ step = "taken"
  /\ read_index' = After(index) /\ step' = "lowering"
  /\ UNCHANGED <<write_index, count, index, number>>

LowerCount ==
  /\ step = "lowering"
  /\ count' = (number - 1) % CountRange /\ step' = "sending"
  /\ UNCHANGED <<write_index, read_index, index, number>>

FlushEnds ==
  /\ step = "sending"
  /\ count = 0
  /\ step' = "idle"
  /\ UNCHANGED <<fields, index, number>>

Flush == TakeNext \/ MoveTaken \/ LowerCount \/ FlushEnds

(***************************************************************************)
(* _message_rb_init, called by db_tdma_server_empty                        *)
(***************************************************************************)
ClearWrite ==
  /\ step = "idle"
  /\ write_index' = 0 /\ step' = "clearing"
  /\ UNCHANGED <<read_index, count, index, number>>

ClearRead ==
  /\ step = "clearing"
  /\ read_index' = 0 /\ step' = "emptying"
  /\ UNCHANGED <<write_index, count, index, number>>

ClearCount ==
  /\ step = "emptying"
  /\ count' = 0 /\ step' = "idle"
  /\ UNCHANGED <<write_index, read_index, index, number>>

Empty == ClearWrite \/ ClearRead \/ ClearCount

(***************************************************************************)
(* The slot timer sends packets as long as there are any and they end in   *)
(* time.  The application does not interrupt it.                           *)
(***************************************************************************)
SendAll ==
  /\ count > 0
  /\ read_index' = (read_index + count) % RingSize /\ count' = 0
  /\ UNCHANGED <<write_index, step, index, number>>

\* After sent packets the next one does not end in time: it was taken from
\* the ring and is put back at its end.
SendSome(sent) ==
  LET left == count - sent - 1
      full == left >= RingSize
  IN
  /\ left >= 0
  /\ read_index' = (read_index + sent + IF full THEN 2 ELSE 1) % RingSize
  /\ write_index' = After(write_index)
  /\ count' = IF full THEN left ELSE left + 1
  /\ UNCHANGED <<step, index, number>>

Timer == SendAll \/ \E sent \in 0 .. CountRange - 1 : SendSome(sent)

Next == Add \/ Flush \/ Empty \/ Timer

Spec == Init /\ [][Next]_vars

\* An application that only adds
AddSpec == Init /\ [][Add \/ Timer]_vars
-----------------------------------------------------------------------------
\* The indices stay in the ring: no packet is read or written outside the
\* buffer, whatever the interrupt comes between.
IndicesInRing ==
  /\ write_index \in 0 .. RingSize - 1 /\ read_index \in 0 .. RingSize - 1

\* The ring never counts more packets than it has room for.  (With an
\* application that flushes, this fails: the timer empties the ring after
\* the flush has seen a packet in it, and the count wraps below zero.)
CountInRing == count \in 0 .. RingSize

\* While no call of the application is under way, the count is the number of
\* packets between read and write index.  (This is what the comment of the
\* field says; the run that checks it shows that it does not hold.)
CountsPackets ==
  step = "idle" => count % RingSize = (write_index - read_index) % RingSize
=============================================================================
