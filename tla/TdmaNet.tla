------------------------------ MODULE TdmaNet ------------------------------
(***************************************************************************)
(* The gateway and its robots on one radio channel.  Each slot starts with *)
(* the gateway's slot timer; then the clients whose timers are due         *)
(* transmit, and every frame on air is received or lost before the next    *)
(* slot.  Clients and gateway may restart.                                 *)
(***************************************************************************)
EXTENDS TdmaServer, FiniteSets

CONSTANTS
  MaxEntries,   \* length of the gateway's table
  MaxRestarts   \* bound on the restarts of gateway and clients together

\* The table has room for the clients and the gateway's slots among them.
NetAssumption ==
  /\ MaxEntries \in Nat /\ MaxRestarts \in Nat
  /\ IsFiniteSet(Clients)
  /\ \E g \in 1 .. MaxEntries :
       /\ Cardinality(Clients) <= (GatewayEvery - 1) * g
       /\ Cardinality(Clients) + g <= MaxEntries
ASSUME NetAssumption

VARIABLES
  server,     \* the gateway: its table, the active slot, who waits
  clients,    \* per client, what tdma_client_default.c keeps
  air,        \* the frames of this slot that will be received
  spoke,      \* history: the clients that transmitted in this slot
  busy,       \* history: how far into this slot the gateway may transmit
  since,      \* history: slots since the gateway's last one
  announced,  \* history: the frame the last sync frame announced
  synced,     \* history: the clients that received the last sync frame
  restarts

history == <<busy, since, announced>>
vars == <<server, clients, air, spoke, history, synced, restarts>>

\* Whether a sync frame is on air, the clients an answer is under way to
\* and those a packet is under way from; both kinds of gateway frames
\* announce the frame.
Air ==
  [frame : Nat, sync : BOOLEAN, answers : SUBSET Clients,
   packets : SUBSET Clients]
Silence ==
  [frame |-> 0, sync |-> FALSE, answers |-> {}, packets |-> {}]

\* A client's timer is the number of slots until it fires.  Unregistered
\* clients wait for a random time instead.
Unregistered == [registered |-> FALSE, slot |-> 0, frame |-> 0, timer |-> 0]

Init ==
  /\ server = FirstServer
  /\ clients = [c \in Clients |-> Unregistered]
  /\ air = Silence
  /\ spoke = {}
  /\ busy = 0 /\ since = 0 /\ announced = 0
  /\ synced = {}
  /\ restarts = 0

Due(c) == clients[c].registered /\ clients[c].timer = 0

SlotOver ==
  /\ ~air.sync /\ air.answers = {} /\ air.packets = {}
  /\ \A c \in Clients : ~Due(c)

\* The gateway's slot timer; the answers to the clients of lost are lost.
SlotTimer(lost) ==
  /\ SlotOver
  /\ LET next   == Advanced(server)
         start  == next.active = 0
         mine   == Owner(next) = Gateway
         passed == IF start THEN SyncTime ELSE 0
         served == IF mine THEN Answered(Len(next.queue), passed) ELSE 0
         rest   == passed + served * AnswerTime
     IN  /\ server' = IF mine
                      THEN [next EXCEPT !.queue = Unanswered(@, served)]
                      ELSE next
         /\ air' = [frame   |-> Frame(next.table),
                    sync    |-> start,
                    answers |-> {next.queue[i] : i \in 1 .. served} \ lost,
                    packets |-> {}]
         /\ busy' = IF mine THEN LastPacket(rest) ELSE rest
         /\ since' = IF mine THEN 0 ELSE since + 1
         /\ announced' = IF start THEN Frame(next.table) ELSE announced
         /\ synced' = IF start THEN {} ELSE synced
  /\ clients' = [c \in Clients |->
       IF clients[c].registered
       THEN [clients[c] EXCEPT !.timer = @ - 1] ELSE clients[c]]
  /\ spoke' = {}
  /\ UNCHANGED restarts

\* The sync frame arrives, where it is not lost.
HearSync(lost) ==
  LET heard == {c \in Clients \ lost : clients[c].registered} IN
  /\ air.sync
  /\ air' = [air EXCEPT !.sync = FALSE]
  /\ clients' = [c \in Clients |->
       IF c \in heard
       THEN [clients[c] EXCEPT !.timer = clients[c].slot, !.frame = air.frame]
       ELSE clients[c]]
  /\ synced' = heard
  /\ UNCHANGED <<server, spoke, history, restarts>>

\* The answer carries the client's slot, the frame and the time to the next.
ByAnswer_FromNow(c) ==
  [registered |-> TRUE, slot |-> SlotOf(server.table, c),
   frame |-> air.frame, timer |-> SlotOf(server.table, c)]
ByAnswer_Newest(c) ==
  [registered |-> TRUE, slot |-> Len(server.table) - 1, frame |-> air.frame,
   timer |-> air.frame - server.active + Len(server.table) - 1]
ByAnswer(c) ==
  LET slot == SlotOf(server.table, c)
  IN  [registered |-> TRUE, slot |-> slot, frame |-> air.frame,
       timer |-> air.frame - server.active + slot]

HearAnswer(c) ==
  /\ c \in air.answers /\ ~air.sync
  /\ air' = [air EXCEPT !.answers = @ \ {c}]
  /\ clients' = [clients EXCEPT ![c] = ByAnswer(c)]
  /\ UNCHANGED <<server, spoke, history, synced, restarts>>

\* A packet is received when it ends, after the frames of the slot's start.
HearPacket(c) ==
  /\ ~air.sync /\ air.answers = {} /\ \A d \in Clients : ~Due(d)
  /\ c \in air.packets
  /\ air' = [air EXCEPT !.packets = @ \ {c}]
  /\ server' = Heard(server, c)
  /\ UNCHANGED <<clients, spoke, history, synced, restarts>>

Transmit(c) ==
  /\ spoke' = spoke \cup {c}
  /\ air' = [air EXCEPT !.packets = @ \cup {c}]

\* A client in its slot sets its timer, then transmits what it has, or a
\* sign of life if one is due.  A packet that is lost changes no more than
\* one that is not sent.
ClientTimer(c) ==
  /\ Due(c)
  /\ clients' = [clients EXCEPT ![c].timer = clients[c].frame]
  /\ Transmit(c) \/ UNCHANGED <<spoke, air>>
  /\ UNCHANGED <<server, history, synced, restarts>>

\* An unregistered client asks to be registered at random times.
Ask(c) ==
  /\ ~clients[c].registered /\ c \notin spoke
  /\ Transmit(c)
  /\ UNCHANGED <<server, clients, history, synced, restarts>>

\* A restart in the course of a slot loses what could be lost anyway.
RestartClient(c) ==
  /\ SlotOver /\ restarts < MaxRestarts
  /\ clients' = [clients EXCEPT ![c] = Unregistered]
  /\ synced' = synced \ {c}
  /\ restarts' = restarts + 1
  /\ UNCHANGED <<server, air, spoke, history>>

RestartServer ==
  /\ SlotOver /\ restarts < MaxRestarts
  /\ server' = FirstServer
  /\ busy' = 0 /\ since' = 0 /\ announced' = 0 /\ synced' = {}
  /\ restarts' = restarts + 1
  /\ UNCHANGED <<clients, air, spoke>>

\* What happens when nobody restarts and every answer arrives; sync frames
\* and packets may still be lost.
Reliable ==
  \/ SlotTimer({})
  \/ \E lost \in SUBSET Clients : HearSync(lost)
  \/ \E c \in Clients :
       HearAnswer(c) \/ HearPacket(c) \/ ClientTimer(c) \/ Ask(c)

Faulty ==
  \/ \E lost \in SUBSET Clients \ {{}} : SlotTimer(lost)
  \/ \E c \in Clients : RestartClient(c)
  \/ RestartServer

Next == Reliable \/ Faulty

Spec == Init /\ [][Next]_vars

\* A client whose timer fires again and again has something to send, or a
\* sign of life, again and again.
LiveSpec ==
  /\ Spec /\ WF_vars(Next)
  /\ \A c \in Clients : SF_vars(ClientTimer(c) /\ Transmit(c))
-----------------------------------------------------------------------------
TypeOK ==
  /\ server.table \in Seq(Clients \cup {Gateway})
  /\ Len(server.table) \in 1 .. MaxEntries
  /\ server.active \in 0 .. Frame(server.table) - 1
  /\ server.queue \in Seq(Clients) /\ Len(server.queue) <= RingSize
  /\ air \in Air
  /\ spoke \in SUBSET Clients /\ synced \in SUBSET Clients
  /\ busy \in Nat /\ since \in Nat /\ announced \in Nat
  /\ restarts \in 0 .. MaxRestarts
  /\ \A c \in Clients :
       \/ clients[c] = Unregistered
       \/ /\ clients[c].registered
          /\ clients[c].slot \in Nat \ {0} /\ clients[c].frame \in Nat
          /\ clients[c].timer \in Nat

\* A client that waits for an answer, or that an answer is under way to, is
\* in the table: the answer reads the table at the client's index and does
\* not look whether the search found one.
QueuedKnown ==
  \A c \in Members(server.queue) \cup air.answers : Known(server.table, c)

\* The gateway speaks once in GatewayEvery slots whatever the number of
\* clients that registered, in the middle of a frame or not: the promise of
\* TDMA_SERVER_MAX_GATEWAY_TX_DELAY_US.
GatewayTurns == since < GatewayEvery

\* The sync frame, the answers and the packets of the gateway together end
\* before the dead time at the end of its slot: no budget wraps, and what
\* the answers take is not given to the packets a second time.
SlotKept == busy < SlotTime - DeadTime

\* The client and the gateway have the same slot for the client
Agreed(c) ==
  Known(server.table, c) /\ clients[c].slot = SlotOf(server.table, c)

\* A client that received the last sync frame, and has the slot the gateway
\* has, talks in that slot or past the frame that was announced: whatever
\* answers, sync frames and own timers set its timer before, two clients
\* never talk in the same slot of the frame.
TalksInOwnSlot ==
  [][\A c \in (spoke' \ spoke) \cap synced :
       Agreed(c) => \/ Owner(server) = c
                    \/ server.active >= announced]_vars

\* Table, queue and frames on air implement the abstract grants: a client is
\* told the slot it has at the gateway, that no other client has, and the
\* gateway never changes it, through any loss and restart.
Grants == INSTANCE SlotGrants WITH
  granted <- [c \in Clients |->
                IF Known(server.table, c) THEN SlotOf(server.table, c) ELSE 0],
  held <- [c \in Clients |-> clients[c].slot]

ImplementsSlotGrants == Grants!Spec

\* Once nobody restarts and answers arrive, the network settles: from some
\* time on every client talks in its own slot only, whatever sync frames
\* and packets are lost, the clients a restarted gateway forgot included.
Settles ==
  <>[][Reliable]_vars => <>[](\A c \in spoke : Owner(server) = c)

\* A registered client is never silent for good: its sign of life keeps up
\* the connection.  (This is what the client's comments say; the run that
\* checks it shows where it fails.)
KeepsTalking ==
  \A c \in Clients : []<>(~clients[c].registered \/ c \in spoke)
=============================================================================
