-------------------------- MODULE HolePunchProofs --------------------------
(***************************************************************************)
(* Proofs about HolePunch, for any limits and capacities.                  *)
(***************************************************************************)
EXTENDS HolePunch, SequenceTheorems, TLAPS

USE HolePunchAssumption DEF HolePunchAssumption

-----------------------------------------------------------------------------
(* Queues of packets *)

LEMMA TailAcks ==
    ASSUME NEW queue \in Seq(Packet), queue # <<>>
    PROVE  /\ Tail(queue) \in Seq(Packet)
           /\ AckIn(queue) <=> Head(queue) = "ack" \/ AckIn(Tail(queue))
<1>1. /\ Tail(queue) \in Seq(Packet)
      /\ Len(Tail(queue)) = Len(queue) - 1 /\ Len(queue) \in Nat \ {0}
      /\ DOMAIN Tail(queue) = 1..Len(Tail(queue))
      /\ \A i \in 1..Len(Tail(queue)) : Tail(queue)[i] = queue[i + 1]
      OBVIOUS
<1>2. ASSUME AckIn(queue) PROVE Head(queue) = "ack" \/ AckIn(Tail(queue))
  <2>1. PICK i \in 1..Len(queue) : queue[i] = "ack"
        BY <1>2 DEF AckIn
  <2>2. CASE i = 1
        BY <2>1, <2>2
  <2>3. CASE i # 1
    <3>1. i - 1 \in 1..Len(Tail(queue)) /\ Tail(queue)[i - 1] = "ack"
          BY <1>1, <2>1, <2>3
    <3> QED BY <1>1, <3>1 DEF AckIn
  <2> QED BY <2>2, <2>3
<1>3. ASSUME Head(queue) = "ack" \/ AckIn(Tail(queue)) PROVE AckIn(queue)
  <2>1. CASE Head(queue) = "ack"
        BY <1>1, <2>1 DEF AckIn
  <2>2. CASE AckIn(Tail(queue))
    <3>1. PICK i \in 1..Len(Tail(queue)) : Tail(queue)[i] = "ack"
          BY <1>1, <2>2 DEF AckIn
    <3>2. i + 1 \in 1..Len(queue) /\ queue[i + 1] = "ack"
          BY <1>1, <3>1
    <3> QED BY <3>2 DEF AckIn
  <2> QED BY <1>3, <2>1, <2>2
<1> QED BY <1>1, <1>2, <1>3

\* The packet last handed over stays the last until it leaves.
LEMMA TailLast ==
    ASSUME NEW queue \in Seq(Packet), queue # <<>>
    PROVE  /\ Tail(queue) # <<>> => Tail(queue)[Len(Tail(queue))] = queue[Len(queue)]
           /\ Tail(queue) = <<>> => Head(queue) = queue[Len(queue)]
<1>1. /\ Tail(queue) \in Seq(Packet)
      /\ Len(Tail(queue)) = Len(queue) - 1 /\ Len(queue) \in Nat \ {0}
      /\ \A i \in 1..Len(Tail(queue)) : Tail(queue)[i] = queue[i + 1]
      OBVIOUS
<1>2. CASE Len(queue) = 1
  <2>1. Len(Tail(queue)) = 0
        BY <1>1, <1>2
  <2>2. Tail(queue) = <<>>
        BY <1>1, <2>1, EmptySeq
  <2> QED BY <1>2, <2>2
<1>3. CASE Len(queue) # 1
  <2>1. Len(queue) - 1 \in 1..Len(Tail(queue))
        BY <1>1, <1>3
  <2>2. Len(Tail(queue)) # 0
        BY <1>1, <1>3
  <2>3. Tail(queue) # <<>>
        BY <2>2, EmptySeq
  <2> QED BY <1>1, <2>1, <2>3
<1> QED BY <1>2, <1>3

LEMMA AppendAcks ==
    ASSUME NEW queue \in Seq(Packet), NEW d \in Packet
    PROVE  /\ Append(queue, d) \in Seq(Packet)
           /\ Append(queue, d) # <<>>
           /\ Append(queue, d)[Len(Append(queue, d))] = d
           /\ AckIn(Append(queue, d)) <=> AckIn(queue) \/ d = "ack"
<1>1. /\ Append(queue, d) \in Seq(Packet)
      /\ Len(Append(queue, d)) = Len(queue) + 1 /\ Len(queue) \in Nat
      /\ \A i \in 1..Len(queue) : Append(queue, d)[i] = queue[i]
      /\ Append(queue, d)[Len(queue) + 1] = d
      OBVIOUS
<1>2. ASSUME AckIn(Append(queue, d)) PROVE AckIn(queue) \/ d = "ack"
  <2>1. PICK i \in 1..(Len(queue) + 1) : Append(queue, d)[i] = "ack"
        BY <1>1, <1>2 DEF AckIn
  <2>2. i \in 1..Len(queue) \/ i = Len(queue) + 1
        BY <1>1
  <2> QED BY <1>1, <2>1, <2>2 DEF AckIn
<1>3. ASSUME AckIn(queue) PROVE AckIn(Append(queue, d))
  <2>1. PICK i \in 1..Len(queue) : queue[i] = "ack"
        BY <1>3 DEF AckIn
  <2>2. i \in 1..Len(Append(queue, d)) /\ Append(queue, d)[i] = "ack"
        BY <1>1, <2>1
  <2> QED BY <2>2, <1>1 DEF AckIn
<1>4. ASSUME d = "ack" PROVE AckIn(Append(queue, d))
  <2>1. Len(queue) + 1 \in 1..Len(Append(queue, d))
        BY <1>1
  <2> QED BY <1>1, <1>4, <2>1 DEF AckIn
<1> QED BY <1>1, <1>2, <1>3, <1>4

LEMMA NoAcks == ~AckIn(<<>>)
BY DEF AckIn

-----------------------------------------------------------------------------
(* Types *)

LEMMA InitTypes == Init => TypeOK
BY DEF Init, TypeOK, Packet, Active, Selecting, Failed

LEMMA StepTypes ==
    ASSUME TypeOK, [Next]_vars
    PROVE  TypeOK'
<1> USE DEF TypeOK
<1>1. CASE UNCHANGED vars
      BY <1>1 DEF vars, taskVars, boundVars
<1>2. ASSUME NEW s \in Side, PunchStep(s)
      PROVE  TypeOK'
  <2> USE DEF Goto, Active, Selecting, Failed, boundVars
  <2>1. CASE Start(s) \/ Wake(s) \/ Timeout(s)
    <3>1. CASE Start(s)
          BY <3>1 DEF Start, Move
    <3>2. CASE Wake(s)
          BY <3>2 DEF Wake, Move
    <3>3. CASE Timeout(s)
          BY <3>3 DEF Timeout, Move
    <3> QED BY <2>1, <3>1, <3>2, <3>3
  <2>2. CASE HandOver(s)
    <3>1. Append(outbox[s], packet[s]) \in Seq(Packet)
          BY AppendAcks
    <3> QED BY <2>2, <3>1 DEF HandOver
  <2>3. CASE InitSent(s)
        BY <2>3 DEF InitSent, Answered, LimitReached
  <2>4. CASE AckSent(s)
        BY <2>4 DEF AckSent, Answered
  <2>5. CASE Receive(s)
    <3>1. Tail(inbox[s]) \in Seq(Packet)
          BY <2>5, TailAcks DEF Receive
    <3> QED BY <2>5, <3>1 DEF Receive, HasAck, IsAck, Packet
  <2>6. CASE ReceiveStray(s)
        BY <2>6 DEF ReceiveStray
  <2> QED BY <1>2, <2>1, <2>2, <2>3, <2>4, <2>5, <2>6 DEF PunchStep
<1>3. ASSUME NEW s \in Side, NetworkStep(s)
      PROVE  TypeOK'
  <2> USE DEF taskVars, boundVars
  <2>1. outbox[s] # <<>> => Tail(outbox[s]) \in Seq(Packet) /\ Head(outbox[s]) \in Packet
        BY TailAcks
  <2>2. CASE Transmit(s)
        BY <2>1, <2>2 DEF Transmit
  <2>3. CASE SendFails(s)
        BY <2>1, <2>3 DEF SendFails, Active, Selecting, Failed
  <2>4. ASSUME NEW d \in Packet, Deliver(s, d)
        PROVE  inbox' \in [Side -> Seq(Packet)] /\ lost' \in 0..MaxLost
    <3>1. Append(inbox[s], d) \in Seq(Packet)
          BY AppendAcks
    <3>2. Len(inbox[s]) >= Capacity => Append(Tail(inbox[s]), d) \in Seq(Packet)
      <4>1. Len(inbox[s]) >= Capacity => inbox[s] # <<>>
            OBVIOUS
      <4> QED BY <4>1, TailAcks, AppendAcks
    <3>3. CASE UNCHANGED <<inbox, lost>>
          BY <3>3
    <3>4. CASE inbox' = [inbox EXCEPT ![s] = Append(@, d)] /\ UNCHANGED lost
          BY <3>1, <3>4
    <3>5. CASE /\ Len(inbox[s]) >= Capacity /\ lost < MaxLost
               /\ inbox' = [inbox EXCEPT ![s] = Append(Tail(@), d)]
               /\ lost' = lost + 1
          BY <3>2, <3>5
    <3> QED BY <2>4, <3>3, <3>4, <3>5 DEF Deliver
  <2>5. ASSUME NEW d \in Packet, Arrive(s, d) \/ ArriveAgain(s, d) \/ Lose(s, d)
        PROVE  TypeOK'
    <3>1. CASE Arrive(s, d)
          BY <2>4, <3>1 DEF Arrive
    <3>2. CASE ArriveAgain(s, d)
          BY <2>4, <3>2 DEF ArriveAgain
    <3>3. CASE Lose(s, d)
          BY <3>3 DEF Lose
    <3> QED BY <2>5, <3>1, <3>2, <3>3
  <2> QED BY <1>3, <2>2, <2>3, <2>5 DEF NetworkStep
<1> QED BY <1>1, <1>2, <1>3 DEF Next

\* Every reachable state has its types, and a side that has used up its attempts
\* is not active any more (hole_punch_peer).
THEOREM TypeCorrect == Spec => []TypeOK
BY InitTypes, StepTypes, PTL DEF Spec

-----------------------------------------------------------------------------
(* What a side has heard *)

\* The other side has sent an acknowledgement, wherever it is now.
AckMade(s) == \/ AckIn(outbox[s]) \/ "ack" \in net[Other[s]] \/ AckIn(inbox[Other[s]])
              \/ receivedAck[Other[s]] \/ sentAck[s]

\* Only a side that has heard the other acknowledges.
AckHeard == \A s \in Side : AckMade(s) => packet[s] = "ack"

\* What a side hears was sent through the other's NAT.
HeardOpened == \A s \in Side :
    packet[s] = "ack" \/ net[s] # {} \/ inbox[s] # <<>> => opened[Other[s]]

\* How the tasks end, and that those not started have sent nothing.
EndsOK == \A s \in Side :
    /\ phase[s] = "ok" => sentAck[s] /\ receivedAck[s]
    /\ phase[s] = "exhausted" => packet[s] = "init"
    /\ phase[s] = "idle" => ~opened[s] /\ outbox[s] = <<>>

HeardInv == AckHeard /\ HeardOpened /\ EndsOK

LEMMA HeardInit == Init => HeardInv
BY NoAcks DEF Init, HeardInv, AckHeard, AckMade, HeardOpened, EndsOK

LEMMA HeardImplies == HeardInv => SuccessIsMutual
<1> SUFFICES ASSUME HeardInv, NEW s \in Side, phase[s] = "ok"
             PROVE  /\ opened[s] /\ opened[Other[s]]
                    /\ packet[Other[s]] = "ack"
                    /\ phase[Other[s]] # "exhausted"
    BY DEF SuccessIsMutual
<1>1. sentAck[s] /\ receivedAck[s]
      BY DEF HeardInv, EndsOK
<1>2. packet[s] = "ack" /\ packet[Other[s]] = "ack"
      BY <1>1 DEF HeardInv, AckHeard, AckMade
<1>3. opened[s] /\ opened[Other[s]]
      BY <1>2 DEF HeardInv, HeardOpened
<1>4. phase[Other[s]] # "exhausted"
      BY <1>2 DEF HeardInv, EndsOK
<1> QED BY <1>2, <1>3, <1>4

LEMMA HeardTask ==
    ASSUME TypeOK, HeardInv, NEW s \in Side, PunchStep(s)
    PROVE  HeardInv'
<1> USE DEF HeardInv, TypeOK
<1>1. UNCHANGED <<opened, net>>
      BY DEF PunchStep, Start, Wake, Timeout, Move, HandOver, InitSent, AckSent, Receive,
             ReceiveStray
<1>2. AckHeard'
  <2> USE DEF AckHeard, AckMade
  <2>1. CASE Start(s) \/ Wake(s) \/ Timeout(s) \/ InitSent(s) \/ ReceiveStray(s)
        BY <2>1 DEF Start, Wake, Timeout, Move, InitSent, ReceiveStray
  <2>2. CASE HandOver(s)
        BY <2>2, AppendAcks DEF HandOver
  <2>3. CASE AckSent(s)
        BY <2>3 DEF AckSent
  <2>4. CASE Receive(s)
    <3>1. AckIn(inbox'[s]) \/ receivedAck'[s] => AckIn(inbox[s]) \/ receivedAck[s]
          BY <2>4, TailAcks DEF Receive, HasAck, IsAck
    <3>2. UNCHANGED <<outbox, net, sentAck>>
          BY <2>4 DEF Receive
    <3>3. \A o \in Side : o # s => inbox'[o] = inbox[o] /\ receivedAck'[o] = receivedAck[o]
          BY <2>4 DEF Receive
    <3>4. \A o \in Side : AckMade(o)' => AckMade(o)
          BY <3>1, <3>2, <3>3
    <3>5. \A o \in Side : packet[o] = "ack" => packet'[o] = "ack"
          BY <2>4 DEF Receive
    <3> QED BY <3>4, <3>5
  <2> QED BY <2>1, <2>2, <2>3, <2>4 DEF PunchStep
<1>3. HeardOpened'
  <2> USE DEF HeardOpened
  <2>1. CASE Receive(s)
        BY <2>1 DEF Receive
  <2>2. CASE ~Receive(s)
        BY <1>1, <2>2 DEF PunchStep, Start, Wake, Timeout, Move, HandOver, InitSent, AckSent,
                          ReceiveStray
  <2> QED BY <2>1, <2>2
<1>4. EndsOK'
  <2> USE DEF EndsOK, Goto
  <2>1. CASE Start(s) \/ Wake(s) \/ Timeout(s)
        BY <2>1 DEF Start, Wake, Timeout, Move, Active, Selecting
  <2>2. CASE HandOver(s)
        BY <2>2 DEF HandOver
  <2>3. CASE InitSent(s)
        BY <2>3 DEF InitSent, Answered
  <2>4. CASE AckSent(s)
        BY <2>4 DEF AckSent, Answered
  <2>5. CASE Receive(s)
        BY <2>5 DEF Receive, Selecting, HasAck, IsAck
  <2>6. CASE ReceiveStray(s)
        BY <2>6 DEF ReceiveStray
  <2> QED BY <2>1, <2>2, <2>3, <2>4, <2>5, <2>6 DEF PunchStep
<1> QED BY <1>2, <1>3, <1>4

\* What comes into the hole puncher was on its way.
LEMMA Delivered ==
    ASSUME TypeOK, NEW s \in Side, NEW d \in Packet, Deliver(s, d)
    PROVE  /\ inbox' \in [Side -> Seq(Packet)]
           /\ \A o \in Side : o # s => inbox'[o] = inbox[o]
           /\ AckIn(inbox'[s]) => AckIn(inbox[s]) \/ d = "ack"
           /\ lost \in Nat /\ lost' \in Nat /\ lost <= lost'
           /\ opened[s] /\ phase[s] \in Active /\ lost' = 0
                => (AckIn(inbox'[s]) <=> AckIn(inbox[s]) \/ d = "ack")
<1> USE DEF TypeOK
<1>1. CASE UNCHANGED <<inbox, lost>> /\ ~(opened[s] /\ phase[s] \in Active)
      BY <1>1
<1>2. CASE inbox' = [inbox EXCEPT ![s] = Append(@, d)] /\ UNCHANGED lost
      BY <1>2, AppendAcks
<1>3. CASE /\ Len(inbox[s]) >= Capacity
           /\ inbox' = [inbox EXCEPT ![s] = Append(Tail(@), d)]
           /\ lost' = lost + 1
  <2>1. inbox[s] # <<>>
        BY <1>3
  <2>2. /\ Tail(inbox[s]) \in Seq(Packet)
        /\ AckIn(Tail(inbox[s])) => AckIn(inbox[s])
        BY <2>1, TailAcks
  <2>3. /\ Append(Tail(inbox[s]), d) \in Seq(Packet)
        /\ AckIn(Append(Tail(inbox[s]), d)) => AckIn(inbox[s]) \/ d = "ack"
        BY <2>2, AppendAcks
  <2> QED BY <1>3, <2>3
<1> QED BY <1>1, <1>2, <1>3 DEF Deliver

LEMMA HeardNetwork ==
    ASSUME TypeOK, HeardInv, NEW s \in Side, NetworkStep(s)
    PROVE  HeardInv'
<1> USE DEF HeardInv, TypeOK, taskVars, boundVars
<1>1. CASE Transmit(s)
  <2>1. /\ AckIn(outbox'[s]) => AckIn(outbox[s])
        /\ Head(outbox[s]) = "ack" => AckIn(outbox[s])
        /\ \A o \in Side : o # s => outbox'[o] = outbox[o]
        BY <1>1, TailAcks DEF Transmit
  <2>2. \A o \in Side : AckMade(o)' => AckMade(o)
        BY <1>1, <2>1 DEF Transmit, AckMade
  <2>3. AckHeard'
        BY <1>1, <2>2 DEF Transmit, AckHeard
  <2>4. HeardOpened'
        BY <1>1 DEF Transmit, HeardOpened
  <2>5. EndsOK'
        BY <1>1 DEF Transmit, EndsOK
  <2> QED BY <2>3, <2>4, <2>5
<1>2. CASE SendFails(s)
  <2>1. /\ AckIn(outbox'[s]) => AckIn(outbox[s])
        /\ \A o \in Side : o # s => outbox'[o] = outbox[o]
        BY <1>2, TailAcks DEF SendFails
  <2>2. AckHeard' /\ HeardOpened'
        BY <1>2, <2>1 DEF SendFails, AckHeard, AckMade, HeardOpened
  <2>3. EndsOK'
        BY <1>2 DEF SendFails, EndsOK
  <2> QED BY <2>2, <2>3
<1>3. ASSUME NEW d \in Packet, Arrive(s, d) \/ ArriveAgain(s, d)
      PROVE  HeardInv'
  <2>1. /\ d \in net[s] /\ net'[s] \subseteq net[s] /\ Deliver(s, d)
        /\ \A o \in Side : o # s => net'[o] = net[o]
        /\ UNCHANGED <<taskVars, outbox, opened>>
        BY <1>3 DEF Arrive, ArriveAgain
  <2>2. /\ \A o \in Side : o # s => inbox'[o] = inbox[o]
        /\ AckIn(inbox'[s]) => AckIn(inbox[s]) \/ d = "ack"
        BY <2>1, Delivered
  <2>3. \A o \in Side : AckMade(o)' => AckMade(o)
        BY <2>1, <2>2 DEF AckMade
  <2>4. AckHeard' /\ EndsOK'
        BY <2>1, <2>3 DEF AckHeard, EndsOK
  <2>5. HeardOpened'
        BY <2>1, <2>2 DEF HeardOpened
  <2> QED BY <2>4, <2>5
<1>4. ASSUME NEW d \in Packet, Lose(s, d)
      PROVE  HeardInv'
      BY <1>4 DEF Lose, AckHeard, AckMade, HeardOpened, EndsOK
<1> QED BY <1>1, <1>2, <1>3, <1>4 DEF NetworkStep

LEMMA HeardStep == TypeOK /\ HeardInv /\ [Next]_vars => HeardInv'
<1> SUFFICES ASSUME TypeOK, HeardInv, [Next]_vars PROVE HeardInv'
    OBVIOUS
<1>1. CASE UNCHANGED vars
      BY <1>1 DEF vars, taskVars, HeardInv, AckHeard, AckMade, HeardOpened, EndsOK
<1>2. CASE Next
      BY <1>2, HeardTask, HeardNetwork DEF Next
<1> QED BY <1>1, <1>2

\* Success of a side means that the hole is open both ways and that the other has
\* heard it and does not run out of attempts (hole_punch_peer).
THEOREM SuccessMutual == Spec => []SuccessIsMutual
BY InitTypes, StepTypes, HeardInit, HeardStep, HeardImplies, PTL DEF Spec

-----------------------------------------------------------------------------
(* The acknowledgement the other side needs *)

AckOut(s) == \/ receivedAck[Other[s]] \/ "ack" \in net[Other[s]]
             \/ AckIn(inbox[Other[s]])

\* While the answer is awaited the packet last handed over is the current one.
LastIsCurrent == \A s \in Side :
    phase[s] = "sending" /\ outbox[s] # <<>> => outbox[s][Len(outbox[s])] = packet[s]

Settled(s) == sentAck[s] \/ (Answered(s) /\ packet[s] = "ack")

AckArrives == \A s \in Side :
    lost = 0 /\ Settled(s) /\ phase[Other[s]] \in Active => AckOut(s)

OutInv == LastIsCurrent /\ AckArrives

LEMMA OutInit == Init => OutInv
BY DEF Init, OutInv, LastIsCurrent, AckArrives, Settled, Answered

LEMMA OutImplies == HeardInv /\ OutInv => AckNotForgotten
BY DEF HeardInv, EndsOK, OutInv, AckArrives, Settled, AckOut, AckNotForgotten

LEMMA OutTask ==
    ASSUME TypeOK, HeardInv, OutInv, NEW s \in Side, PunchStep(s)
    PROVE  OutInv'
<1> USE DEF OutInv, TypeOK, Goto
<1>1. UNCHANGED <<opened, net>>
      BY DEF PunchStep, Start, Wake, Timeout, Move, HandOver, InitSent, AckSent, Receive,
             ReceiveStray
<1>2. LastIsCurrent'
  <2> USE DEF LastIsCurrent
  <2>1. CASE Start(s) \/ Wake(s) \/ Timeout(s) \/ InitSent(s) \/ AckSent(s) \/ ReceiveStray(s)
        BY <2>1 DEF Start, Wake, Timeout, Move, InitSent, AckSent, ReceiveStray
  <2>2. CASE HandOver(s)
    <3>1. outbox'[s][Len(outbox'[s])] = packet'[s]
          BY <2>2, AppendAcks DEF HandOver
    <3> QED BY <2>2, <3>1 DEF HandOver
  <2>3. CASE Receive(s)
        BY <2>3 DEF Receive
  <2> QED BY <2>1, <2>2, <2>3 DEF PunchStep
<1>3. AckArrives'
  <2>0. \A o \in Side : Settled(o) => packet[o] = "ack"
        BY DEF Settled, HeardInv, AckHeard, AckMade
  <2>1. CASE Start(s)
    <3>1. ~Settled(Other[s])
          BY <2>0, <2>1 DEF Start, Move, HeardInv, EndsOK, HeardOpened
    <3>2. UNCHANGED <<packet, sentAck, receivedAck, inbox, outbox, lost>>
          BY <2>1 DEF Start, Move, boundVars
    <3>3. \A o \in Side : Settled(o)' => Settled(o)
          BY <2>1, <3>2 DEF Settled, Answered, Start, Move
    <3>4. \A o \in Side : AckOut(o) => AckOut(o)'
          BY <1>1, <3>2 DEF AckOut
    <3>5. \A o \in Side : o # s => phase'[o] = phase[o]
          BY <2>1 DEF Start, Move
    <3>6. ASSUME NEW o \in Side, lost' = 0, Settled(o)', phase'[Other[o]] \in Active
          PROVE  AckOut(o)'
      <4>1. Settled(o) /\ lost = 0
            BY <3>2, <3>3, <3>6
      <4>2. Other[o] # s
            BY <3>1, <4>1
      <4>3. phase[Other[o]] \in Active
            BY <3>5, <3>6, <4>2
      <4> QED BY <3>4, <4>1, <4>3 DEF AckArrives
    <3> QED BY <3>6 DEF AckArrives
  <2>2. CASE Wake(s) \/ Timeout(s) \/ HandOver(s) \/ InitSent(s) \/ AckSent(s) \/ ReceiveStray(s)
    <3>1. UNCHANGED <<receivedAck, inbox, lost>>
          BY <2>2 DEF Wake, Timeout, Move, HandOver, InitSent, AckSent, ReceiveStray, boundVars
    <3>2. \A o \in Side : AckOut(o) => AckOut(o)'
          BY <1>1, <3>1 DEF AckOut
    <3>3. \A o \in Side : phase'[o] \in Active => phase[o] \in Active
          BY <2>2 DEF Wake, Timeout, Move, HandOver, InitSent, AckSent, Answered, ReceiveStray,
                      Active, Selecting
    <3>4. \A o \in Side : Settled(o)' => Settled(o)
      <4>1. CASE HandOver(s)
        <5>1. outbox'[s] # <<>>
              BY <4>1, AppendAcks DEF HandOver
        <5> QED BY <4>1, <5>1 DEF HandOver, Settled, Answered
      <4>2. CASE Wake(s) \/ Timeout(s) \/ InitSent(s) \/ AckSent(s) \/ ReceiveStray(s)
            BY <4>2 DEF Wake, Timeout, Move, InitSent, AckSent, ReceiveStray, Settled, Answered
      <4> QED BY <2>2, <4>1, <4>2
    <3> QED BY <3>1, <3>2, <3>3, <3>4 DEF AckArrives
  <2>3. CASE Receive(s)
    <3>1. AckIn(inbox[s]) \/ receivedAck[s] => AckIn(inbox'[s]) \/ receivedAck'[s]
      <4>1. /\ inbox[s] \in Seq(Packet) /\ inbox[s] # <<>> /\ inbox'[s] = Tail(inbox[s])
            /\ receivedAck'[s] = (receivedAck[s] \/ Head(inbox[s]) = "ack")
            BY <2>3 DEF Receive, HasAck, IsAck
      <4>2. AckIn(inbox[s]) <=> Head(inbox[s]) = "ack" \/ AckIn(inbox'[s])
            BY <4>1, TailAcks
      <4> QED BY <4>1, <4>2
    <3>2. \A o \in Side : AckOut(o) => AckOut(o)'
      <4>1. \A o \in Side : o # s => inbox'[o] = inbox[o] /\ receivedAck'[o] = receivedAck[o]
            BY <2>3 DEF Receive
      <4> QED BY <1>1, <3>1, <4>1 DEF AckOut
    <3>3. \A o \in Side : Settled(o)' => Settled(o)
          BY <2>3 DEF Receive, Settled, Answered
    <3>4. \A o \in Side : phase'[o] \in Active => phase[o] \in Active
          BY <2>3 DEF Receive, Active
    <3>5. UNCHANGED lost
          BY <2>3 DEF Receive, boundVars
    <3> QED BY <3>2, <3>3, <3>4, <3>5 DEF AckArrives
  <2> QED BY <2>1, <2>2, <2>3 DEF PunchStep
<1> QED BY <1>2, <1>3

LEMMA OutNetwork ==
    ASSUME TypeOK, HeardInv, OutInv, NEW s \in Side, NetworkStep(s)
    PROVE  OutInv'
<1> USE DEF OutInv, TypeOK, taskVars, boundVars
<1>1. CASE Transmit(s)
  <2>1. UNCHANGED <<taskVars, inbox, lost>>
        BY <1>1 DEF Transmit
  <2>2. /\ outbox'[s] = Tail(outbox[s]) /\ outbox[s] # <<>>
        /\ \A o \in Side : o # s => outbox'[o] = outbox[o]
        /\ Head(outbox[s]) \in net'[Other[s]]
        /\ \A o \in Side : net[o] \subseteq net'[o]
        BY <1>1 DEF Transmit
  <2>3. /\ outbox'[s] # <<>> => outbox'[s][Len(outbox'[s])] = outbox[s][Len(outbox[s])]
        /\ outbox'[s] = <<>> => Head(outbox[s]) = outbox[s][Len(outbox[s])]
        BY <2>2, TailLast
  <2>4. LastIsCurrent'
        BY <2>1, <2>2, <2>3 DEF LastIsCurrent
  <2>5. \A o \in Side : AckOut(o) => AckOut(o)'
        BY <2>1, <2>2 DEF AckOut
  <2>6. \A o \in Side : o # s => (Settled(o)' <=> Settled(o))
        BY <2>1, <2>2 DEF Settled, Answered
  <2>7. Settled(s)' => Settled(s) \/ AckOut(s)'
    <3>1. SUFFICES ASSUME Settled(s)', ~sentAck[s] PROVE AckOut(s)'
          BY DEF Settled
    <3>2. phase[s] = "sending" /\ packet[s] = "ack" /\ outbox'[s] = <<>>
          BY <2>1, <3>1 DEF Settled, Answered
    <3>3. Head(outbox[s]) = "ack"
          BY <2>2, <2>3, <3>2 DEF LastIsCurrent
    <3> QED BY <2>2, <3>3 DEF AckOut
  <2>8. AckArrives'
        BY <2>1, <2>5, <2>6, <2>7 DEF AckArrives
  <2> QED BY <2>4, <2>8
<1>2. CASE SendFails(s)
  <2>1. lost' # 0
        BY <1>2 DEF SendFails
  <2>2. outbox'[s] = Tail(outbox[s]) /\ outbox[s] # <<>>
        BY <1>2 DEF SendFails
  <2>3. outbox'[s] # <<>> => outbox'[s][Len(outbox'[s])] = outbox[s][Len(outbox[s])]
        BY <2>2, TailLast
  <2>4. LastIsCurrent'
        BY <1>2, <2>3 DEF SendFails, LastIsCurrent
  <2> QED BY <2>1, <2>4 DEF AckArrives
<1>3. ASSUME NEW d \in Packet, Arrive(s, d) \/ ArriveAgain(s, d)
      PROVE  OutInv'
  <2>1. /\ d \in net[s] /\ net'[s] \cup {d} = net[s] \cup {d} /\ Deliver(s, d)
        /\ \A o \in Side : o # s => net'[o] = net[o]
        /\ UNCHANGED <<taskVars, outbox, opened>>
        BY <1>3 DEF Arrive, ArriveAgain
  <2>2. LastIsCurrent'
        BY <2>1 DEF LastIsCurrent
  <2>3. \A o \in Side : (Settled(o)' <=> Settled(o)) /\ phase'[o] = phase[o]
        BY <2>1 DEF Settled, Answered
  <2>4. lost' = 0 => lost = 0
        BY <2>1, Delivered
  <2>5. ASSUME NEW o \in Side, lost' = 0, Settled(o), phase[Other[o]] \in Active
        PROVE  AckOut(o)'
    <3>1. AckOut(o)
          BY <2>4, <2>5 DEF AckArrives
    <3>2. CASE Other[o] # s
          BY <2>1, <3>1, <3>2, Delivered DEF AckOut
    <3>3. CASE Other[o] = s
      <4>1. packet[o] = "ack"
            BY <2>5 DEF Settled, HeardInv, AckHeard, AckMade
      <4>2. opened[s]
            BY <3>3, <4>1 DEF HeardInv, HeardOpened
      <4>3. AckIn(inbox'[s]) <=> AckIn(inbox[s]) \/ d = "ack"
            BY <2>1, <2>5, <3>3, <4>2, Delivered
      <4> QED BY <2>1, <3>1, <3>3, <4>3 DEF AckOut
    <3> QED BY <3>2, <3>3
  <2>6. AckArrives'
        BY <2>3, <2>5 DEF AckArrives
  <2> QED BY <2>2, <2>6
<1>4. ASSUME NEW d \in Packet, Lose(s, d)
      PROVE  OutInv'
      BY <1>4 DEF Lose, LastIsCurrent, AckArrives
<1> QED BY <1>1, <1>2, <1>3, <1>4 DEF NetworkStep

LEMMA OutStep == TypeOK /\ HeardInv /\ OutInv /\ [Next]_vars => OutInv'
<1> SUFFICES ASSUME TypeOK, HeardInv, OutInv, [Next]_vars PROVE OutInv'
    OBVIOUS
<1>1. CASE UNCHANGED vars
      BY <1>1 DEF vars, taskVars, boundVars, OutInv, LastIsCurrent, AckArrives, Settled,
                  Answered, AckOut
<1>2. CASE Next
      BY <1>2, OutTask, OutNetwork DEF Next
<1> QED BY <1>1, <1>2

\* The acknowledgement that the other side still needs was sent before a side
\* stops, and is under way unless it was lost (hole_punch_peer).
THEOREM AckKept == Spec => []AckNotForgotten
BY InitTypes, StepTypes, HeardInit, HeardStep, OutInit, OutStep, OutImplies, PTL DEF Spec
=============================================================================
