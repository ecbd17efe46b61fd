----------------------------- MODULE HolePunch -----------------------------
(***************************************************************************)
(* UDP hole punching between two peers whose addresses are known           *)
(* (src/src/connections/discovery/hole_punch.rs, hole_punch_peer).         *)
(*                                                                         *)
(* Each side sends initial packets until it hears the other, from then on  *)
(* acknowledgements, and succeeds once it has sent one and received one.   *)
(* A NAT lets packets in only after its side has sent one out.             *)
(*                                                                         *)
(* The body of the loop is a select between sending, which hands a packet  *)
(* to the task that owns the socket and waits for its answer, and          *)
(* receiving.  A packet received while the answer is awaited drops the     *)
(* wait: the packet handed over goes out, but the side does not know.      *)
(*                                                                         *)
(* The network loses, duplicates and reorders packets.                     *)
(***************************************************************************)
EXTENDS Naturals, Sequences

CONSTANTS
    Side,         \* the two peers
    Other,        \* Other[s]: the side opposite to s
    MaxAttempts,  \* MAX_HOLEPUNCH_ATTEMPTS
    Capacity,     \* PACKET_CHANNEL_CAPACITY
    MaxLost,      \* bound: packets lost, and packets the socket fails to send
    MaxStray      \* bound: duplicated packets, and packets of other punches

ASSUME HolePunchAssumption ==
    /\ Other \in [Side -> Side]
    /\ \A s \in Side : Other[s] # s /\ Other[Other[s]] = s
    /\ MaxAttempts \in Nat \ {0}
    /\ Capacity \in Nat \ {0}
    /\ MaxLost \in Nat /\ MaxStray \in Nat

VARIABLES
    phase,        \* where the task of a side is, or how it ended
    packet,       \* the packet it sends
    sentAck, receivedAck, attempts,
    outbox,       \* packets handed to the task that owns the socket
    inbox,        \* packets forwarded to the hole puncher
    opened,       \* the side has sent a packet, so its NAT lets packets in
    net,          \* the packets on their way to a side; equal ones are one
    lost, strays  \* counters behind the bounds

taskVars == <<phase, packet, sentAck, receivedAck, attempts>>
boundVars == <<lost, strays>>
vars == <<taskVars, outbox, inbox, opened, net, boundVars>>

Packet == {"init", "ack"}

\* Selecting: at the select, nothing handed over yet.  Sending: the answer of
\* the socket's task is awaited.  Waiting: asleep before the next round.
Selecting == {"select", "sending"}
Active == Selecting \cup {"waiting"}
Failed == {"exhausted", "timedOut", "error"}

TypeOK ==
    /\ phase \in [Side -> {"idle", "ok"} \cup Active \cup Failed]
    /\ packet \in [Side -> Packet]
    /\ sentAck \in [Side -> BOOLEAN]
    /\ receivedAck \in [Side -> BOOLEAN]
    /\ attempts \in [Side -> 0..MaxAttempts]
    /\ outbox \in [Side -> Seq(Packet)]
    /\ inbox \in [Side -> Seq(Packet)]
    /\ opened \in [Side -> BOOLEAN]
    /\ net \in [Side -> SUBSET Packet]
    /\ lost \in 0..MaxLost
    /\ strays \in 0..MaxStray
    /\ \A s \in Side : phase[s] \in Active \cup {"idle"} => attempts[s] < MaxAttempts

Init ==
    /\ phase = [s \in Side |-> "idle"]
    /\ packet = [s \in Side |-> "init"]
    /\ sentAck = [s \in Side |-> FALSE]
    /\ receivedAck = [s \in Side |-> FALSE]
    /\ attempts = [s \in Side |-> 0]
    /\ outbox = [s \in Side |-> <<>>]
    /\ inbox = [s \in Side |-> <<>>]
    /\ opened = [s \in Side |-> FALSE]
    /\ net = [s \in Side |-> {}]
    /\ lost = 0
    /\ strays = 0

Goto(s, p) == phase' = [phase EXCEPT ![s] = p]

\* The task of a side moves on and nothing else changes.
Move(s, from, to) ==
    /\ phase[s] \in from
    /\ Goto(s, to)
    /\ UNCHANGED <<packet, sentAck, receivedAck, attempts, outbox, inbox, opened, net,
                   boundVars>>

-----------------------------------------------------------------------------
(* hole_punch_peer *)

Start(s) == Move(s, {"idle"}, "select")

Wake(s) == Move(s, {"waiting"}, "select")

\* The whole punch is under one timeout.
Timeout(s) == Move(s, Active, "timedOut")

HandOver(s) ==
    /\ phase[s] = "select"
    /\ Len(outbox[s]) < Capacity
    /\ outbox' = [outbox EXCEPT ![s] = Append(@, packet[s])]
    /\ Goto(s, "sending")
    /\ UNCHANGED <<packet, sentAck, receivedAck, attempts, inbox, opened, net, boundVars>>

\* Mutant: the acknowledgement counts as sent before the answer has come.
NotAwaited(s) == phase[s] = "sending"

Answered(s) == phase[s] = "sending" /\ outbox[s] = <<>>

\* Mutant: one attempt too many.
LimitPassed(s) == attempts[s] + 1 > MaxAttempts

LimitReached(s) == attempts[s] + 1 >= MaxAttempts

\* The initial packet was sent: only these count as attempts.
InitSent(s) ==
    /\ Answered(s)
    /\ packet[s] = "init"
    /\ attempts' = [attempts EXCEPT ![s] = @ + 1]
    /\ Goto(s, IF LimitReached(s) THEN "exhausted" ELSE "waiting")
    /\ UNCHANGED <<packet, sentAck, receivedAck, outbox, inbox, opened, net, boundVars>>

AckSent(s) ==
    /\ Answered(s)
    /\ packet[s] = "ack"
    /\ sentAck' = [sentAck EXCEPT ![s] = TRUE]
    /\ Goto(s, IF receivedAck[s] THEN "ok" ELSE "waiting")
    /\ UNCHANGED <<packet, receivedAck, attempts, outbox, inbox, opened, net, boundVars>>

\* Mutant: any packet counts as an acknowledgement.
AnyPacket(d) == TRUE

IsAck(d) == d = "ack"

\* Mutant: an acknowledgement that comes before ours was sent is forgotten.
AckInTurn(s, d) == receivedAck[s] \/ (IsAck(d) /\ sentAck[s])

HasAck(s, d) == receivedAck[s] \/ IsAck(d)

Receive(s) ==
    /\ phase[s] \in Selecting
    /\ inbox[s] # <<>>
    /\ inbox' = [inbox EXCEPT ![s] = Tail(@)]
    /\ packet' = [packet EXCEPT ![s] = "ack"]
    /\ receivedAck' = [receivedAck EXCEPT ![s] = HasAck(s, Head(inbox[s]))]
    /\ Goto(s, IF IsAck(Head(inbox[s])) /\ sentAck[s] THEN "ok" ELSE "select")
    /\ UNCHANGED <<sentAck, attempts, outbox, opened, net, boundVars>>

\* A packet from another address only ends the round.
ReceiveStray(s) ==
    /\ phase[s] = "sending"
    /\ strays < MaxStray
    /\ strays' = strays + 1
    /\ Goto(s, "select")
    /\ UNCHANGED <<packet, sentAck, receivedAck, attempts, outbox, inbox, opened, net, lost>>

-----------------------------------------------------------------------------
(* The task that owns the socket, and what the socket receives *)

Transmit(s) ==
    /\ outbox[s] # <<>>
    /\ outbox' = [outbox EXCEPT ![s] = Tail(@)]
    /\ opened' = [opened EXCEPT ![s] = TRUE]
    /\ net' = [net EXCEPT ![Other[s]] = @ \cup {Head(outbox[s])}]
    /\ UNCHANGED <<taskVars, inbox, boundVars>>

\* The error ends the punch, if its answer is still awaited.
SendFails(s) ==
    /\ outbox[s] # <<>>
    /\ lost < MaxLost
    /\ lost' = lost + 1
    /\ outbox' = [outbox EXCEPT ![s] = Tail(@)]
    /\ phase' = [phase EXCEPT ![s] = IF @ = "sending" /\ Len(outbox[s]) = 1
                                     THEN "error" ELSE @]
    /\ UNCHANGED <<packet, sentAck, receivedAck, attempts, inbox, opened, net, strays>>

\* The NAT drops what comes before the hole is open; nobody receives what comes
\* before the punch or after it.  A receiver that lags loses the oldest packet of
\* the full channel.
Deliver(s, d) ==
    IF opened[s] /\ phase[s] \in Active
    THEN \/ /\ Len(inbox[s]) < Capacity
            /\ inbox' = [inbox EXCEPT ![s] = Append(@, d)]
            /\ UNCHANGED lost
         \/ /\ Len(inbox[s]) >= Capacity
            /\ lost < MaxLost
            /\ inbox' = [inbox EXCEPT ![s] = Append(Tail(@), d)]
            /\ lost' = lost + 1
    ELSE UNCHANGED <<inbox, lost>>

Arrive(s, d) ==
    /\ d \in net[s]
    /\ net' = [net EXCEPT ![s] = @ \ {d}]
    /\ Deliver(s, d)
    /\ UNCHANGED <<taskVars, outbox, opened, strays>>

\* A packet arrives and another like it is still on its way.
ArriveAgain(s, d) ==
    /\ d \in net[s]
    /\ strays < MaxStray
    /\ strays' = strays + 1
    /\ Deliver(s, d)
    /\ UNCHANGED <<taskVars, outbox, opened, net>>

Lose(s, d) ==
    /\ d \in net[s]
    /\ net' = [net EXCEPT ![s] = @ \ {d}]
    /\ lost < MaxLost
    /\ lost' = lost + 1
    /\ UNCHANGED <<taskVars, outbox, inbox, opened, strays>>

-----------------------------------------------------------------------------
PunchStep(s) ==
    \/ Start(s) \/ Wake(s) \/ Timeout(s) \/ HandOver(s)
    \/ InitSent(s) \/ AckSent(s) \/ Receive(s) \/ ReceiveStray(s)

NetworkStep(s) ==
    \/ Transmit(s) \/ SendFails(s)
    \/ \E d \in Packet : Arrive(s, d) \/ ArriveAgain(s, d) \/ Lose(s, d)

Next == \E s \in Side : PunchStep(s) \/ NetworkStep(s)

Spec == Init /\ [][Next]_vars

\* The steps of a side that no other step delays.
Proceed(s) == Wake(s) \/ HandOver(s)
Answer(s) == InitSent(s) \/ AckSent(s)

\* The tasks are polled and what is not lost arrives.  Neither branch of the
\* select starves the other: a packet that waits is received, for the answer of
\* the socket cannot be there yet when both are first polled; and that answer
\* takes microseconds, while the packets of a sleeping side are two seconds
\* apart.
FairSpec ==
    /\ Spec
    /\ \A s \in Side :
         /\ WF_vars(Proceed(s))
         /\ SF_vars(Receive(s))
         /\ WF_vars(Transmit(s))
         /\ \A n \in 1..Capacity :
              SF_vars(phase[s] = "sending" /\ Len(outbox[s]) = n /\ Transmit(s))
         /\ SF_vars(Answer(s))
         /\ WF_vars(\E d \in Packet : Arrive(s, d))

-----------------------------------------------------------------------------
(* Properties *)

\* A side succeeds only when the hole is open in both directions and the other
\* side has heard it; so the other may still time out, but it does not give up
\* for the number of its attempts.
SuccessIsMutual ==
    \A s \in Side : phase[s] = "ok" =>
        /\ opened[s] /\ opened[Other[s]]
        /\ packet[Other[s]] = "ack"
        /\ phase[Other[s]] # "exhausted"

AckIn(queue) == \E i \in DOMAIN queue : queue[i] = "ack"

\* A side that has succeeded sends nothing more, so the acknowledgement that the
\* other still needs has left before, unless it was lost: also when a send was
\* dropped by the select and made again.
AckNotForgotten ==
    \A s \in Side : phase[s] = "ok" /\ lost = 0 /\ phase[Other[s]] \in Active =>
        \/ receivedAck[Other[s]]
        \/ "ack" \in net[Other[s]]
        \/ AckIn(inbox[Other[s]])

\* When both sides have started, no packet is lost and neither runs out of time
\* or attempts, both succeed, whatever is duplicated, reordered or dropped by a
\* NAT that is not open yet.
BothSucceed ==
    /\ [](lost = 0 /\ \A s \in Side : phase[s] \notin Failed)
    /\ <>(\A s \in Side : phase[s] # "idle")
    => <>(\A s \in Side : phase[s] = "ok")
=============================================================================
