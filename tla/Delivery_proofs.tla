--------------------------- MODULE Delivery_proofs ---------------------------
(***************************************************************************)
(* What an SSE client and a webhook receive, and what a restart makes of   *)
(* the webhooks, for every number of runs, clients and hooks, every        *)
(* capacity of the ring, the batch, the output channel and the table of    *)
(* hooks, and any number of crashes, reconnections and failed writes.      *)
(* The streams come first; the webhooks rest on what is known of the       *)
(* timeline there, and the last part on what is known of the webhooks.     *)
(***************************************************************************)
EXTENDS Delivery, SequenceTheorems, FiniteSetTheorems, WellFoundedInduction, TLAPS

(* Sequences of record numbers *)
InOrder(q) == \A i, j \in 1..Len(q) : i < j => q[i] < q[j]
Elements(q) == {q[i] : i \in 1..Len(q)}

(* The records of the run. *)
OfRun == {n \in 1..Len(log) : Shown(n)}

StreamPCs == {"off", "replay", "batch", "push", "recv", "pushLive"}
Connections == [pc : StreamPCs, cursor : Nat, pos : Nat, to : Nat, full : BOOLEAN,
                out : Seq(Nat)]

TimelineInv ==
  /\ log \in Seq(Records)
  /\ published \in Nat /\ sent \in Nat
  /\ sent <= published /\ published <= Len(log)

StreamTypes ==
  /\ stream \in [Streams -> Connections]
  /\ received \in [Streams -> Seq(Nat)]

(* What the client has is everything up to the last one. *)
ReceivedInv(s) ==
  /\ InOrder(received[s])
  /\ Elements(received[s]) = OfRun \cap (1..LastReceived(s))
  /\ LastReceived(s) <= published

Pushing(s) == stream[s].pc \in {"push", "pushLive"}
InHand(s) == IF Pushing(s) THEN {stream[s].cursor} ELSE {}

(* What is on its way is everything between that and the cursor, but for   *)
(* the record in the producer's hand.  The producer may wait for the       *)
(* broadcast only behind the position it subscribed or lagged at.          *)
OnItsWay(s) ==
  LET st == stream[s]
  IN /\ InOrder(st.out)
     /\ Elements(st.out) = (OfRun \cap (LastReceived(s) + 1 .. st.cursor)) \ InHand(s)
     /\ LastReceived(s) <= st.cursor /\ st.cursor <= published
     /\ st.pos <= sent
     /\ Pushing(s) => LastReceived(s) < st.cursor /\ st.cursor \in OfRun
     /\ st.pc \in {"batch", "push"} => /\ st.cursor <= st.to /\ st.to <= published
                                       /\ st.full \/ st.pos <= st.to
     /\ st.pc \in {"recv", "pushLive"} => st.pos <= st.cursor

StreamInv(s) ==
  /\ ReceivedInv(s)
  /\ IF stream[s].pc = "off" THEN stream[s].out = <<>> ELSE OnItsWay(s)

IInv == TimelineInv /\ StreamTypes /\ \A s \in Streams : StreamInv(s)

USE HookRunAssumption, CapsAssumption

---------------------------------------------------------------------------
(* Sequences of record numbers *)

(* A later number behind an ordered sequence keeps the order. *)
LEMMA AppendInOrder ==
  ASSUME NEW q \in Seq(Nat), InOrder(q), NEW n \in Nat, \A m \in Elements(q) : m < n
  PROVE  /\ Append(q, n) \in Seq(Nat)
         /\ InOrder(Append(q, n))
         /\ Elements(Append(q, n)) = Elements(q) \cup {n}
         /\ Append(q, n) # <<>> /\ Append(q, n)[Len(Append(q, n))] = n
<1> DEFINE t == Append(q, n)
<1>1. /\ t \in Seq(Nat) /\ Len(t) = Len(q) + 1 /\ t[Len(q) + 1] = n
      /\ \A i \in 1..Len(q) : t[i] = q[i]
      /\ Len(q) \in Nat
  BY AppendProperties, LenProperties
<1> HIDE DEF t
<1>2. \A i \in 1..Len(q) : q[i] < n
  BY DEF Elements
<1>3. InOrder(t)
  <2> SUFFICES ASSUME NEW i \in 1..Len(t), NEW j \in 1..Len(t), i < j PROVE t[i] < t[j]
    BY DEF InOrder
  <2>1. i \in 1..Len(q)
    BY <1>1
  <2>2. CASE j = Len(q) + 1
    BY <2>1, <2>2, <1>1, <1>2
  <2>3. CASE j \in 1..Len(q)
    BY <2>1, <2>3, <1>1 DEF InOrder
  <2> QED BY <2>2, <2>3, <1>1, SMTT(30)
<1>4. Elements(t) = Elements(q) \cup {n}
  <2>1. \A i \in 1..Len(t) : t[i] \in Elements(q) \cup {n}
    <3> TAKE i \in 1..Len(t)
    <3>1. CASE i \in 1..Len(q)
      BY <3>1, <1>1 DEF Elements
    <3>2. CASE i = Len(q) + 1
      BY <3>2, <1>1
    <3> QED BY <3>1, <3>2, <1>1
  <2>2. \A i \in 1..Len(q) : i \in 1..Len(t) /\ q[i] = t[i]
    BY <1>1
  <2>3. Len(q) + 1 \in 1..Len(t)
    BY <1>1
  <2>4. Elements(q) \subseteq Elements(t) /\ n \in Elements(t)
    BY <2>2, <2>3, <1>1 DEF Elements
  <2>5. Elements(t) \subseteq Elements(q) \cup {n}
    BY <2>1 DEF Elements
  <2> QED BY <2>4, <2>5
<1>5. t # <<>>
  BY <1>1, EmptySeq
<1>6. t[Len(t)] = n
  BY <1>1
<1> QED BY <1>1, <1>3, <1>4, <1>5, <1>6 DEF t

(* The head of an ordered sequence is its least number. *)
LEMMA HeadIsLeast ==
  ASSUME NEW q \in Seq(Nat), InOrder(q), q # <<>>
  PROVE  /\ Head(q) \in Elements(q) /\ Head(q) \in Nat
         /\ \A n \in Elements(q) : Head(q) <= n
         /\ Tail(q) \in Seq(Nat) /\ InOrder(Tail(q))
         /\ Elements(Tail(q)) = Elements(q) \ {Head(q)}
<1> DEFINE t == Tail(q)
<1>1. /\ t \in Seq(Nat) /\ Len(t) = Len(q) - 1
      /\ \A i \in 1..Len(t) : t[i] = q[i + 1]
      /\ Len(q) \in Nat \ {0} /\ Head(q) = q[1]
      /\ \A i \in 1..Len(q) : q[i] \in Nat
  BY HeadTailProperties, EmptySeq, ElementOfSeq
<1> HIDE DEF t
<1>2. 1 \in 1..Len(q) /\ \A i \in 1..Len(q) : i # 1 => q[1] < q[i]
  BY <1>1 DEF InOrder
<1>3. Head(q) \in Elements(q) /\ Head(q) \in Nat
  BY <1>1, <1>2 DEF Elements
<1>4. \A n \in Elements(q) : Head(q) <= n
  BY <1>1, <1>2, SMTT(30) DEF Elements
<1>5. InOrder(t)
  <2> SUFFICES ASSUME NEW i \in 1..Len(t), NEW j \in 1..Len(t), i < j PROVE t[i] < t[j]
    BY DEF InOrder
  <2>1. i + 1 \in 1..Len(q) /\ j + 1 \in 1..Len(q) /\ i + 1 < j + 1
    BY <1>1
  <2> QED BY <2>1, <1>1 DEF InOrder
<1>6. Elements(t) \subseteq Elements(q) \ {Head(q)}
  <2> SUFFICES ASSUME NEW i \in 1..Len(t) PROVE t[i] \in Elements(q) /\ t[i] # Head(q)
    BY DEF Elements
  <2>1. i + 1 \in 1..Len(q) /\ i + 1 # 1 /\ t[i] = q[i + 1]
    BY <1>1
  <2> QED BY <2>1, <1>1, <1>2, SMTT(30) DEF Elements
<1>7. Elements(q) \ {Head(q)} \subseteq Elements(t)
  <2> SUFFICES ASSUME NEW i \in 1..Len(q), q[i] # Head(q) PROVE q[i] \in Elements(t)
    BY DEF Elements
  <2>1. i - 1 \in 1..Len(t) /\ t[i - 1] = q[i]
    BY <1>1, SMTT(30)
  <2> QED BY <2>1 DEF Elements
<1> QED BY <1>1, <1>3, <1>4, <1>5, <1>6, <1>7 DEF t

---------------------------------------------------------------------------
(* The invariant is inductive *)

(* An empty log and no connection. *)
LEMMA InitIInv == Init => IInv
<1> SUFFICES ASSUME Init PROVE IInv
  OBVIOUS
<1>1. log = <<>> /\ <<>> \in Seq(Records) /\ <<>> \in Seq(Nat) /\ Len(<<>>) = 0
  BY EmptySeq DEF Init
<1>2. TimelineInv
  BY <1>1 DEF Init, TimelineInv
<1>3. StreamTypes
  BY <1>1 DEF Init, StreamTypes, NoStream, Connections, StreamPCs
<1>4. ASSUME NEW s \in Streams PROVE StreamInv(s)
  <2>1. received[s] = <<>> /\ stream[s] = NoStream
    BY DEF Init
  <2>2. LastReceived(s) = 0
    BY <2>1 DEF LastReceived
  <2>3. InOrder(received[s]) /\ Elements(received[s]) = {}
    BY <2>1, <1>1 DEF InOrder, Elements
  <2>4. published = 0
    BY DEF Init
  <2>6. OfRun \cap (1..0) = {}
    OBVIOUS
  <2>7. ReceivedInv(s)
    BY <2>2, <2>3, <2>4, <2>6 DEF ReceivedInv
  <2>5. stream[s].pc = "off" /\ stream[s].out = <<>>
    BY <2>1 DEF NoStream
  <2> QED BY <2>5, <2>7 DEF StreamInv
<1> QED BY <1>2, <1>3, <1>4 DEF IInv

(* The last event id of a client is a number. *)
LEMMA LastIsNat == ASSUME NEW s, received[s] \in Seq(Nat) PROVE LastReceived(s) \in Nat
<1>1. CASE received[s] = <<>>
  BY <1>1 DEF LastReceived
<1>2. CASE received[s] # <<>>
  <2>1. Len(received[s]) \in 1..Len(received[s])
    BY <1>2, EmptySeq
  <2> QED BY <2>1, <1>2, ElementOfSeq DEF LastReceived
<1> QED BY <1>1, <1>2

(* Steps of the others only add to the timeline: a reader's past stays.    *)
Grows ==
  /\ published <= published' /\ sent <= sent'
  /\ \A i \in 1..published : log'[i] = log[i]

LEMMA OthersKeepStreams ==
  ASSUME IInv, Grows, TimelineInv', UNCHANGED streams
  PROVE  IInv'
<1>1. StreamTypes'
  BY DEF IInv, StreamTypes, streams
<1>2. ASSUME NEW s \in Streams PROVE StreamInv(s)'
  <2>1. /\ stream' = stream /\ received' = received
        /\ LastReceived(s)' = LastReceived(s) /\ InHand(s)' = InHand(s) /\ Pushing(s)' = Pushing(s)
    BY DEF streams, LastReceived, InHand, Pushing
  <2>2. \A n \in 1..published : n \in OfRun' <=> n \in OfRun
    BY DEF Grows, Shown, OfRun, IInv, TimelineInv
  <2>3. stream[s] \in Connections /\ received[s] \in Seq(Nat) /\ StreamInv(s) /\ published \in Nat
    BY DEF IInv, StreamTypes, TimelineInv
  <2>4. LastReceived(s) \in Nat
    BY <2>3, LastIsNat
  <2>5. ReceivedInv(s)'
    <3>1. LastReceived(s) <= published
      BY <2>3 DEF StreamInv, ReceivedInv
    <3>2. (OfRun \cap (1..LastReceived(s)))' = OfRun \cap (1..LastReceived(s))
      BY <2>1, <2>2, <2>3, <2>4, <3>1
    <3> QED BY <2>1, <2>3, <2>4, <3>1, <3>2
            DEF StreamInv, ReceivedInv, Grows, IInv, TimelineInv
  <2>6. CASE stream[s].pc = "off"
    BY <2>1, <2>3, <2>5, <2>6 DEF StreamInv
  <2>7. CASE stream[s].pc # "off"
    <3> DEFINE a == LastReceived(s) + 1
               b == stream[s].cursor
    <3>1. OnItsWay(s) /\ b \in Nat /\ b <= published /\ a \in Nat \ {0}
      BY <2>3, <2>4, <2>7 DEF StreamInv, Connections, OnItsWay
    <3> HIDE DEF a, b
    <3>2. OfRun' \cap (a..b) = OfRun \cap (a..b)
      <4>1. \A n \in a..b : n \in 1..published
        BY <2>3, <3>1
      <4> QED BY <2>2, <4>1
    <3>3. b \in OfRun => b \in OfRun'
      <4>1. b \in OfRun => b \in 1..published
        BY <2>3, <3>1 DEF OfRun
      <4> QED BY <2>2, <4>1
    <3>4. InOrder(stream[s].out)' /\ Elements(stream[s].out)' = Elements(stream[s].out)
      BY <2>1, <3>1 DEF OnItsWay
    <3>5. Elements(stream[s].out)' = ((OfRun \cap (LastReceived(s) + 1 .. stream[s].cursor)) \ InHand(s))'
      BY <2>1, <3>1, <3>2, <3>4 DEF OnItsWay, a, b
    <3>6. OnItsWay(s)'
      <4>1. /\ stream' = stream /\ LastReceived(s)' = LastReceived(s)
            /\ Pushing(s)' = Pushing(s)
        BY <2>1
      <4>2. /\ published \in Nat /\ published' \in Nat /\ sent \in Nat /\ sent' \in Nat
            /\ published <= published' /\ sent <= sent'
        BY DEF Grows, IInv, TimelineInv
      <4>3. /\ stream[s].cursor \in Nat /\ stream[s].pos \in Nat /\ stream[s].to \in Nat
        BY <2>3 DEF Connections
      <4>4. stream[s].cursor <= published /\ stream[s].pos <= sent
        BY <3>1 DEF OnItsWay
      <4>5. stream[s].cursor <= published' /\ stream[s].pos <= sent'
        BY <4>2, <4>3, <4>4
      <4>6. Pushing(s) => LastReceived(s) < stream[s].cursor /\ stream[s].cursor \in OfRun'
        BY <3>1, <3>3 DEF OnItsWay, b
      <4>7. stream[s].pc \in {"batch", "push"} =>
              /\ stream[s].cursor <= stream[s].to /\ stream[s].to <= published'
              /\ stream[s].full \/ stream[s].pos <= stream[s].to
        <5>1. stream[s].pc \in {"batch", "push"} =>
                /\ stream[s].cursor <= stream[s].to /\ stream[s].to <= published
                /\ stream[s].full \/ stream[s].pos <= stream[s].to
          BY <3>1 DEF OnItsWay
        <5>2. stream[s].to <= published => stream[s].to <= published'
          BY <4>2, <4>3
        <5> QED BY <5>1, <5>2
      <4>8. /\ InOrder(stream[s].out)' /\ LastReceived(s) <= stream[s].cursor
            /\ stream[s].pc \in {"recv", "pushLive"} => stream[s].pos <= stream[s].cursor
        BY <3>1, <3>4 DEF OnItsWay
      <4> QED BY <3>5, <4>1, <4>5, <4>6, <4>7, <4>8 DEF OnItsWay
    <3> QED BY <2>1, <2>5, <2>7, <3>6 DEF StreamInv
  <2> QED BY <2>6, <2>7
<1> QED BY <1>1, <1>2 DEF IInv

(* A step of one connection leaves the others alone. *)
LEMMA OneStreamSuffices ==
  ASSUME IInv, UNCHANGED timeline, NEW s \in Streams, NEW c \in Connections,
         stream' = [stream EXCEPT ![s] = c],
         NEW q \in Seq(Nat), received' = [received EXCEPT ![s] = q],
         StreamInv(s)'
  PROVE  IInv'
<1>1. TimelineInv'
  BY DEF IInv, TimelineInv, timeline
<1>2. StreamTypes'
  BY DEF IInv, StreamTypes
<1>3. ASSUME NEW t \in Streams, t # s PROVE StreamInv(t)'
  <2>1. stream'[t] = stream[t] /\ received'[t] = received[t]
    BY <1>3 DEF IInv, StreamTypes
  <2>2. StreamInv(t)
    BY DEF IInv
  <2>3. LastReceived(t)' = LastReceived(t)
    BY <2>1 DEF LastReceived
  <2>4. published' = published /\ sent' = sent /\ OfRun' = OfRun
    BY DEF timeline, OfRun, Shown
  <2>7. Pushing(t)' <=> Pushing(t)
    BY <2>1 DEF Pushing
  <2>8. InHand(t)' = InHand(t)
    BY <2>1, <2>7 DEF InHand
  <2>5. ReceivedInv(t)'
    BY <2>1, <2>2, <2>3, <2>4 DEF StreamInv, ReceivedInv
  <2>6. OnItsWay(t) => OnItsWay(t)'
    BY <2>1, <2>3, <2>4, <2>7, <2>8 DEF OnItsWay
  <2> QED BY <2>1, <2>2, <2>5, <2>6 DEF StreamInv
<1> QED BY <1>1, <1>2, <1>3 DEF IInv

(* The connection ends, with what was on its way. *)
LEMMA ClientLeavesKeepsIInv == ASSUME IInv, NEW s \in Streams, ClientLeaves(s) PROVE IInv'
<1>1. /\ stream' = [stream EXCEPT ![s] = NoStream]
      /\ received' = [received EXCEPT ![s] = received[s]]
      /\ UNCHANGED timeline /\ received' = received
  BY DEF ClientLeaves, StreamStep, IInv, StreamTypes
<1>2. NoStream \in Connections /\ received[s] \in Seq(Nat)
  BY EmptySeq DEF NoStream, Connections, StreamPCs, IInv, StreamTypes
<1>3. stream'[s] = NoStream
  BY <1>1 DEF IInv, StreamTypes
<1>4. ReceivedInv(s)'
  BY <1>1 DEF IInv, StreamInv, ReceivedInv, LastReceived, OfRun, Shown, timeline
<1>5. StreamInv(s)'
  BY <1>3, <1>4 DEF StreamInv, NoStream
<1> QED BY <1>1, <1>2, <1>5, OneStreamSuffices

(* stream_events subscribes before it replays behind the last event id.    *)
LEMMA ConnectKeepsIInv == ASSUME IInv, NEW s \in Streams, Connect(s) PROVE IInv'
<1> DEFINE c == [NoStream EXCEPT !.pc = "replay", !.cursor = LastReceived(s), !.pos = sent]
<1>1. /\ stream' = [stream EXCEPT ![s] = c]
      /\ received' = [received EXCEPT ![s] = received[s]]
      /\ UNCHANGED timeline /\ received' = received
  BY DEF Connect, StreamStep, IInv, StreamTypes
<1>2. received[s] \in Seq(Nat) /\ LastReceived(s) \in Nat /\ published \in Nat /\ sent \in Nat
  BY LastIsNat DEF IInv, StreamTypes, TimelineInv
<1>3. /\ c \in Connections /\ c.pc = "replay" /\ c.cursor = LastReceived(s)
      /\ c.pos = sent /\ c.out = <<>>
  BY <1>2, EmptySeq DEF NoStream, Connections, StreamPCs
<1> HIDE DEF c
<1>4. stream'[s] = c
  BY <1>1 DEF IInv, StreamTypes
<1>5. ReceivedInv(s)' /\ LastReceived(s)' = LastReceived(s) /\ LastReceived(s) <= published
  BY <1>1 DEF IInv, StreamInv, ReceivedInv, LastReceived, OfRun, Shown, timeline
<1>6. OnItsWay(s)'
  <2>1. ~Pushing(s)' /\ InHand(s)' = {}
    BY <1>3, <1>4 DEF Pushing, InHand
  <2>2. OfRun' \cap (LastReceived(s)' + 1 .. LastReceived(s)') = {}
    BY <1>2, <1>5
  <2>3. InOrder(<<>>) /\ Elements(<<>>) = {}
    BY EmptySeq DEF InOrder, Elements
  <2> QED BY <1>1, <1>2, <1>3, <1>4, <1>5, <2>1, <2>2, <2>3 DEF OnItsWay, timeline
<1>7. StreamInv(s)'
  BY <1>3, <1>4, <1>5, <1>6 DEF StreamInv
<1> QED BY <1>1, <1>2, <1>3, <1>7, OneStreamSuffices

(* The producer moves, and the client has received nothing more.           *)
LEMMA ProducerSuffices ==
  ASSUME IInv, NEW s \in Streams, NEW c \in Connections, c.pc # "off",
         UNCHANGED timeline, received' = received, stream' = [stream EXCEPT ![s] = c],
         OnItsWay(s)'
  PROVE  IInv'
<1>1. received[s] \in Seq(Nat) /\ received' = [received EXCEPT ![s] = received[s]]
  BY DEF IInv, StreamTypes
<1>2. stream'[s] = c
  BY DEF IInv, StreamTypes
<1>3. ReceivedInv(s)'
  BY DEF IInv, StreamInv, ReceivedInv, LastReceived, OfRun, Shown, timeline
<1>4. StreamInv(s)'
  BY <1>2, <1>3 DEF StreamInv
<1> QED BY <1>1, <1>4, OneStreamSuffices

(* What every step of a connected producer starts from. *)
LEMMA ProducerFacts ==
  ASSUME IInv, NEW s \in Streams, stream[s].pc # "off",
         UNCHANGED timeline, received' = received
  PROVE  /\ OnItsWay(s)
         /\ stream[s] \in Connections
         /\ LastReceived(s) \in Nat /\ LastReceived(s)' = LastReceived(s)
         /\ published \in Nat /\ sent \in Nat /\ sent <= published /\ published <= Len(log)
         /\ published' = published /\ sent' = sent /\ log' = log /\ OfRun' = OfRun
         /\ \A n : n \in OfRun <=> n \in 1..Len(log) /\ Shown(n)
<1>1. received[s] \in Seq(Nat) /\ stream[s] \in Connections /\ OnItsWay(s)
  BY DEF IInv, StreamTypes, StreamInv
<1>2. LastReceived(s) \in Nat
  BY <1>1, LastIsNat
<1>3. LastReceived(s)' = LastReceived(s)
  BY DEF LastReceived
<1>4. published' = published /\ sent' = sent /\ log' = log /\ OfRun' = OfRun
  BY DEF timeline, OfRun, Shown
<1>5. \A n : n \in OfRun <=> n \in 1..Len(log) /\ Shown(n)
  BY DEF OfRun
<1> QED BY <1>1, <1>2, <1>3, <1>4, <1>5 DEF IInv, TimelineInv

(* replay_to_sse reads up to the published end: a batch that is not full   *)
(* reaches past everything announced before the subscription.              *)
LEMMA ReplayKeepsIInv == ASSUME IInv, NEW s \in Streams, Replay(s) PROVE IInv'
<1> DEFINE st == stream[s]
           to == Sooner(published, st.cursor + ReplayBatch)
           c1 == [st EXCEPT !.pc = "recv"]
           c2 == [st EXCEPT !.pc = "batch", !.to = to, !.full = (to - st.cursor = ReplayBatch)]
<1>1. /\ st.pc = "replay" /\ received' = received /\ UNCHANGED timeline
      /\ stream' = IF st.cursor >= published
                   THEN [stream EXCEPT ![s].pc = "recv"]
                   ELSE [stream EXCEPT ![s].pc = "batch", ![s].to = to,
                                       ![s].full = (to - st.cursor = ReplayBatch)]
  BY DEF Replay, Goes, StreamStep
<1>2. /\ st \in Connections /\ published \in Nat /\ sent \in Nat /\ sent <= published
      /\ OnItsWay(s) /\ LastReceived(s) \in Nat /\ LastReceived(s)' = LastReceived(s)
      /\ published' = published /\ sent' = sent /\ OfRun' = OfRun
  BY <1>1, ProducerFacts
<1>3. st.cursor \in Nat /\ st.pos \in Nat /\ st.to \in Nat /\ st.out \in Seq(Nat) /\ ~Pushing(s)
  BY <1>1, <1>2 DEF Connections, Pushing
<1>4. InHand(s) = {}
  BY <1>3 DEF InHand
<1>5. CASE st.cursor >= published
  <2>1. stream' = [stream EXCEPT ![s] = c1]
    BY <1>1, <1>5
  <2>2. c1 \in Connections /\ c1.pc = "recv" /\ c1.cursor = st.cursor /\ c1.pos = st.pos /\ c1.out = st.out
    BY <1>2 DEF Connections, StreamPCs
  <2> HIDE DEF c1
  <2>3. stream'[s] = c1
    BY <2>1 DEF IInv, StreamTypes
  <2>4. ~Pushing(s)' /\ InHand(s)' = {}
    BY <2>2, <2>3 DEF Pushing, InHand
  <2>5. OnItsWay(s)'
    BY <1>2, <1>3, <1>4, <1>5, <2>2, <2>3, <2>4, SMTT(30) DEF OnItsWay
  <2> QED BY <1>1, <2>1, <2>2, <2>5, ProducerSuffices
<1>6. CASE ~(st.cursor >= published)
  <2>1. /\ to \in Nat /\ to <= published /\ st.cursor <= to
        /\ to - st.cursor = ReplayBatch \/ to = published
    <3>1. ReplayBatch \in Nat \ {0}
      OBVIOUS
    <3>2. published < st.cursor + ReplayBatch \/ st.cursor + ReplayBatch <= published
      BY <1>2, <1>3, <3>1
    <3> QED BY <1>2, <1>3, <1>6, <3>1, <3>2, SMTT(30) DEF Sooner
  <2>2. stream' = [stream EXCEPT ![s] = c2]
    BY <1>1, <1>6
  <2> HIDE DEF to
  <2>3. /\ c2 \in Connections /\ c2.pc = "batch" /\ c2.cursor = st.cursor /\ c2.pos = st.pos
        /\ c2.out = st.out /\ c2.to = to /\ (c2.full <=> to - st.cursor = ReplayBatch)
    BY <1>2, <2>1 DEF Connections, StreamPCs
  <2> HIDE DEF c2
  <2>4. stream'[s] = c2
    BY <2>2 DEF IInv, StreamTypes
  <2>5. ~Pushing(s)' /\ InHand(s)' = {}
    BY <2>3, <2>4 DEF Pushing, InHand
  <2>6. c2.full \/ c2.pos <= to
    <3>1. st.pos <= published
      BY <1>2, <1>3 DEF OnItsWay
    <3> QED BY <2>1, <2>3, <3>1
  <2>7. OnItsWay(s)'
    BY <1>2, <1>3, <1>4, <1>6, <2>1, <2>3, <2>4, <2>5, <2>6 DEF OnItsWay
  <2> QED BY <1>1, <2>2, <2>3, <2>7, ProducerSuffices
<1> QED BY <1>5, <1>6

(* A range of records that grows by one. *)
LEMMA RangeGrows ==
  ASSUME NEW S, NEW a \in Nat, NEW b \in Nat, a <= b + 1
  PROVE  /\ b + 1 \in S => (S \cap (a .. b + 1)) \ {b + 1} = S \cap (a..b)
         /\ b + 1 \notin S => S \cap (a .. b + 1) = S \cap (a..b)
  OBVIOUS

(* A connection with another cursor and program counter. *)
LEMMA CursorMoves ==
  ASSUME NEW c \in Connections, NEW n \in Nat, NEW l \in StreamPCs
  PROVE  /\ [c EXCEPT !.cursor = n, !.pc = l] \in Connections
         /\ [c EXCEPT !.cursor = n, !.pc = l].cursor = n
         /\ [c EXCEPT !.cursor = n, !.pc = l].pc = l
         /\ [c EXCEPT !.cursor = n, !.pc = l].pos = c.pos
         /\ [c EXCEPT !.cursor = n, !.pc = l].to = c.to
         /\ [c EXCEPT !.cursor = n, !.pc = l].out = c.out
         /\ [c EXCEPT !.cursor = n, !.pc = l].full <=> c.full
  BY DEF Connections

(* Within a batch the cursor passes every record, and behind it the        *)
(* producer reads on, or waits if it has seen all that was announced.      *)
LEMMA BatchRecordKeepsIInv == ASSUME IInv, NEW s \in Streams, BatchRecord(s) PROVE IInv'
<1> DEFINE st == stream[s]
           c1 == [st EXCEPT !.pc = IF st.full THEN "replay" ELSE "recv"]
           next == IF Shown(st.cursor + 1) THEN "push" ELSE "batch"
           c2 == [st EXCEPT !.cursor = st.cursor + 1, !.pc = next]
<1>1. /\ st.pc = "batch" /\ received' = received /\ UNCHANGED timeline
      /\ stream' = IF st.cursor = st.to THEN [stream EXCEPT ![s] = c1]
                                        ELSE [stream EXCEPT ![s] = c2]
  BY DEF BatchRecord, Goes, StreamStep
<1>2. /\ st \in Connections /\ published \in Nat /\ sent \in Nat /\ sent <= published
      /\ OnItsWay(s) /\ LastReceived(s) \in Nat /\ LastReceived(s)' = LastReceived(s)
      /\ published' = published /\ sent' = sent /\ OfRun' = OfRun
      /\ published <= Len(log) /\ \A n : n \in OfRun <=> n \in 1..Len(log) /\ Shown(n)
  BY <1>1, ProducerFacts
<1>3. st.cursor \in Nat /\ st.pos \in Nat /\ st.to \in Nat /\ st.out \in Seq(Nat) /\ ~Pushing(s)
  BY <1>1, <1>2 DEF Connections, Pushing
<1>4. InHand(s) = {}
  BY <1>3 DEF InHand
<1>5. st.cursor <= st.to /\ st.to <= published /\ (st.full \/ st.pos <= st.to)
  BY <1>1, <1>2 DEF OnItsWay
<1>6. CASE st.cursor = st.to
  <2>1. stream' = [stream EXCEPT ![s] = c1]
    BY <1>1, <1>6
  <2>2. /\ c1 \in Connections /\ c1.pc \in {"replay", "recv"} /\ c1.cursor = st.cursor
        /\ c1.pos = st.pos /\ c1.out = st.out /\ (c1.pc = "recv" => ~st.full)
    BY <1>2 DEF Connections, StreamPCs
  <2> HIDE DEF c1
  <2>3. stream'[s] = c1
    BY <2>1 DEF IInv, StreamTypes
  <2>4. ~Pushing(s)' /\ InHand(s)' = {}
    BY <2>2, <2>3 DEF Pushing, InHand
  <2>5. OnItsWay(s)'
    BY <1>2, <1>3, <1>4, <1>5, <1>6, <2>2, <2>3, <2>4 DEF OnItsWay
  <2> QED BY <1>1, <2>1, <2>2, <2>5, ProducerSuffices
<1>7. CASE st.cursor # st.to
  <2>1. stream' = [stream EXCEPT ![s] = c2]
    BY <1>1, <1>7
  <2>0. /\ next \in {"push", "batch"}
        /\ Shown(st.cursor + 1) => next = "push"
        /\ ~Shown(st.cursor + 1) => next = "batch"
    OBVIOUS
  <2> HIDE DEF next
  <2>2. /\ c2 \in Connections /\ c2.cursor = st.cursor + 1 /\ c2.to = st.to
        /\ c2.pos = st.pos /\ c2.out = st.out /\ (c2.full <=> st.full)
        /\ c2.pc = next
    <3>1. st.cursor + 1 \in Nat /\ next \in StreamPCs
      BY <1>2, <1>3, <2>0, SMTT(30) DEF StreamPCs
    <3>2. st \in Connections
      BY <1>2
    <3> DEFINE m == st.cursor + 1
    <3> HIDE DEF m, st
    <3>3. LET d == [st EXCEPT !.cursor = m, !.pc = next]
          IN /\ d \in Connections /\ d.cursor = m /\ d.to = st.to
             /\ d.pos = st.pos /\ d.out = st.out /\ (d.full <=> st.full)
             /\ d.pc = next
      <4>1. m \in Nat
        BY <3>1 DEF m
      <4> QED BY <3>1, <3>2, <4>1 DEF Connections
    <3> QED BY <3>3 DEF m
  <2> HIDE DEF c2
  <2>3. stream'[s] = c2
    BY <2>1 DEF IInv, StreamTypes
  <2>4. st.cursor + 1 <= st.to /\ st.cursor + 1 <= published
    BY <1>3, <1>5, <1>7, <1>2, SMTT(30)
  <2>5. st.cursor + 1 \in OfRun <=> Shown(st.cursor + 1)
    <3>1. Len(log) \in Nat
      BY LenProperties DEF IInv, TimelineInv
    <3>2. st.cursor + 1 \in 1..Len(log)
      BY <1>2, <1>3, <2>4, <3>1, SMTT(30)
    <3> QED BY <1>2, <3>2
  <2>6. /\ InOrder(st.out) /\ LastReceived(s) <= st.cursor
        /\ Elements(st.out) = OfRun \cap (LastReceived(s) + 1 .. st.cursor)
    BY <1>2, <1>4 DEF OnItsWay
  <2>7. Elements(st.out) = (OfRun \cap (LastReceived(s) + 1 .. st.cursor + 1)) \ InHand(s)'
    <3>1. CASE Shown(st.cursor + 1)
      <4>1. InHand(s)' = {st.cursor + 1}
        BY <2>0, <2>2, <2>3, <3>1 DEF InHand, Pushing
      <4> QED BY <1>2, <1>3, <2>5, <2>6, <3>1, <4>1, RangeGrows, SMTT(30)
    <3>2. CASE ~Shown(st.cursor + 1)
      <4>1. InHand(s)' = {}
        BY <2>0, <2>2, <2>3, <3>2 DEF InHand, Pushing
      <4>2. OfRun \cap (LastReceived(s) + 1 .. st.cursor + 1)
              = OfRun \cap (LastReceived(s) + 1 .. st.cursor)
        BY <1>2, <1>3, <2>5, <2>6, <3>2, RangeGrows, SMTT(30)
      <4> QED BY <2>6, <4>1, <4>2
    <3> QED BY <3>1, <3>2
  <2>8. Pushing(s)' => stream'[s].cursor \in OfRun'
    BY <1>2, <2>0, <2>2, <2>3, <2>5 DEF Pushing
  <2>9. stream'[s].pc \in {"batch", "push"} /\ stream'[s].pc # "off"
    BY <2>0, <2>2, <2>3
  <2>11. stream'[s].full \/ stream'[s].pos <= stream'[s].to
    BY <1>5, <2>2, <2>3, Zenon
  <2>10. OnItsWay(s)'
    <3>1. /\ stream'[s].out = st.out /\ stream'[s].pos = st.pos /\ stream'[s].to = st.to
          /\ stream'[s].cursor = st.cursor + 1
      BY <2>2, <2>3
    <3>2. st.pos <= sent
      BY <1>2 DEF OnItsWay
    <3>3. LastReceived(s) < st.cursor + 1 /\ LastReceived(s) <= st.cursor + 1
      BY <1>2, <1>3, <2>6
    <3> QED BY <1>2, <1>5, <2>4, <2>6, <2>7, <2>8, <2>9, <2>11, <3>1, <3>2, <3>3 DEF OnItsWay
  <2> QED BY <1>1, <2>1, <2>2, <2>3, <2>9, <2>10, ProducerSuffices
<1> QED BY <1>6, <1>7

(* The record in hand is behind those in the channel, and joins them.      *)
LEMMA PushKeepsIInv == ASSUME IInv, NEW s \in Streams, Push(s) PROVE IInv'
<1> DEFINE st == stream[s]
           next == IF st.pc = "push" THEN "batch" ELSE "recv"
           q == Append(st.out, st.cursor)
           c == [st EXCEPT !.out = q, !.pc = next]
<1>1. /\ st.pc \in {"push", "pushLive"} /\ received' = received /\ UNCHANGED timeline
      /\ stream' = [stream EXCEPT ![s] = c]
  BY DEF Push, StreamStep
<1>2. /\ st \in Connections /\ published \in Nat /\ sent \in Nat /\ sent <= published
      /\ OnItsWay(s) /\ LastReceived(s) \in Nat /\ LastReceived(s)' = LastReceived(s)
      /\ published' = published /\ sent' = sent /\ OfRun' = OfRun
  BY <1>1, ProducerFacts
<1>3. st.cursor \in Nat /\ st.pos \in Nat /\ st.to \in Nat /\ st.out \in Seq(Nat) /\ Pushing(s)
  BY <1>1, <1>2 DEF Connections, Pushing
<1>4. /\ InHand(s) = {st.cursor} /\ st.cursor \in OfRun /\ LastReceived(s) < st.cursor
      /\ InOrder(st.out)
      /\ Elements(st.out) = (OfRun \cap (LastReceived(s) + 1 .. st.cursor)) \ {st.cursor}
  BY <1>2, <1>3 DEF InHand, OnItsWay
<1>5. \A m \in Elements(st.out) : m < st.cursor
  BY <1>2, <1>3, <1>4
<1>6. /\ q \in Seq(Nat) /\ InOrder(q)
      /\ Elements(q) = OfRun \cap (LastReceived(s) + 1 .. st.cursor)
  <2>1. q \in Seq(Nat) /\ InOrder(q) /\ Elements(q) = Elements(st.out) \cup {st.cursor}
    BY <1>3, <1>4, <1>5, AppendInOrder
  <2>2. st.cursor \in OfRun \cap (LastReceived(s) + 1 .. st.cursor)
    BY <1>2, <1>3, <1>4
  <2> QED BY <1>4, <2>1, <2>2
<1> HIDE DEF q
<1>7. next \in {"batch", "recv"} /\ (st.pc = "push" <=> next = "batch")
  OBVIOUS
<1> HIDE DEF next
<1>8. /\ c \in Connections /\ c.pc = next /\ c.cursor = st.cursor /\ c.pos = st.pos
      /\ c.to = st.to /\ (c.full <=> st.full) /\ c.out = q
  <2>1. next \in StreamPCs
    BY <1>7 DEF StreamPCs
  <2> QED BY <1>2, <1>6, <2>1 DEF Connections
<1> HIDE DEF c
<1>9. stream'[s] = c
  BY <1>1 DEF IInv, StreamTypes
<1>10. ~Pushing(s)' /\ InHand(s)' = {}
  BY <1>7, <1>8, <1>9 DEF Pushing, InHand
<1>11. OnItsWay(s)'
  <2>1. st.pc = "push" => st.cursor <= st.to /\ st.to <= published
                            /\ (st.full \/ st.pos <= st.to)
    BY <1>2 DEF OnItsWay
  <2>2. st.pc # "push" => st.pos <= st.cursor
    BY <1>1, <1>2 DEF OnItsWay
  <2>3. st.cursor <= published /\ st.pos <= sent
    BY <1>2 DEF OnItsWay
  <2>4. c.pc = "batch" => c.cursor <= c.to /\ c.to <= published /\ (c.full \/ c.pos <= c.to)
    BY <1>7, <1>8, <2>1, Zenon
  <2>5. c.pc = "recv" => c.pos <= c.cursor
    BY <1>7, <1>8, <2>2
  <2> QED BY <1>2, <1>3, <1>4, <1>6, <1>7, <1>8, <1>9, <1>10, <2>3, <2>4, <2>5 DEF OnItsWay
<1>12. c.pc # "off"
  BY <1>7, <1>8
<1> QED BY <1>1, <1>8, <1>11, <1>12, ProducerSuffices

(* A notification is dropped when its record was replayed, and is the next *)
(* record of the file when it was not; after an overrun the file is read.  *)
LEMMA ReceiveKeepsIInv == ASSUME IInv, NEW s \in Streams, Receive(s) PROVE IInv'
<1> DEFINE st == stream[s]
           seq == st.pos + 1
           next == IF Shown(seq) THEN "pushLive" ELSE "recv"
           lag == sent - RingCap
           c1 == [st EXCEPT !.pos = lag, !.pc = "replay"]
           c2 == [st EXCEPT !.pos = seq]
           c3 == [st EXCEPT !.pos = seq, !.cursor = seq, !.pc = next]
<1>1. /\ st.pc = "recv" /\ st.pos < sent /\ received' = received /\ UNCHANGED timeline
      /\ stream' = [stream EXCEPT ![s] = IF sent - st.pos > RingCap THEN c1
                                         ELSE IF seq <= st.cursor THEN c2 ELSE c3]
  BY DEF Receive, StreamStep
<1>2. /\ st \in Connections /\ published \in Nat /\ sent \in Nat /\ sent <= published
      /\ OnItsWay(s) /\ LastReceived(s) \in Nat /\ LastReceived(s)' = LastReceived(s)
      /\ published' = published /\ sent' = sent /\ OfRun' = OfRun
      /\ published <= Len(log) /\ \A n : n \in OfRun <=> n \in 1..Len(log) /\ Shown(n)
  BY <1>1, ProducerFacts
<1>3. st.cursor \in Nat /\ st.pos \in Nat /\ st.to \in Nat /\ st.out \in Seq(Nat) /\ ~Pushing(s)
  BY <1>1, <1>2 DEF Connections, Pushing
<1>4. /\ st.pos <= st.cursor /\ st.cursor <= published
      /\ InOrder(st.out) /\ LastReceived(s) <= st.cursor
      /\ Elements(st.out) = OfRun \cap (LastReceived(s) + 1 .. st.cursor)
  BY <1>1, <1>2, <1>3 DEF OnItsWay, InHand
<1>5. CASE sent - st.pos > RingCap
  <2>1. stream' = [stream EXCEPT ![s] = c1]
    BY <1>1, <1>5
  <2>2. lag \in Nat /\ lag <= sent
    <3>1. RingCap \in Nat
      OBVIOUS
    <3> QED BY <1>2, <1>3, <1>5, <3>1
  <2> HIDE DEF lag
  <2>3. /\ c1 \in Connections /\ c1.pc = "replay" /\ c1.cursor = st.cursor /\ c1.pos = lag
        /\ c1.out = st.out
    BY <1>2, <2>2 DEF Connections, StreamPCs
  <2> HIDE DEF c1
  <2>4. stream'[s] = c1
    BY <2>1 DEF IInv, StreamTypes
  <2>5. ~Pushing(s)' /\ InHand(s)' = {}
    BY <2>3, <2>4 DEF Pushing, InHand
  <2>6. OnItsWay(s)'
    BY <1>2, <1>3, <1>4, <2>2, <2>3, <2>4, <2>5 DEF OnItsWay
  <2> QED BY <1>1, <2>1, <2>3, <2>6, ProducerSuffices
<1>6. CASE ~(sent - st.pos > RingCap) /\ seq <= st.cursor
  <2>1. stream' = [stream EXCEPT ![s] = c2]
    BY <1>1, <1>6
  <2>2. seq \in Nat /\ seq <= sent
    <3>1. st.pos < sent
      BY <1>1
    <3> QED BY <1>2, <1>3, <3>1, SMTT(30)
  <2> HIDE DEF seq
  <2>3. /\ c2 \in Connections /\ c2.pc = "recv" /\ c2.cursor = st.cursor /\ c2.pos = seq
        /\ c2.out = st.out
    BY <1>1, <1>2, <2>2 DEF Connections, StreamPCs
  <2> HIDE DEF c2
  <2>4. stream'[s] = c2
    BY <2>1 DEF IInv, StreamTypes
  <2>5. ~Pushing(s)' /\ InHand(s)' = {}
    BY <2>3, <2>4 DEF Pushing, InHand
  <2>6. OnItsWay(s)'
    BY <1>2, <1>3, <1>4, <1>6, <2>2, <2>3, <2>4, <2>5 DEF OnItsWay
  <2> QED BY <1>1, <2>1, <2>3, <2>6, ProducerSuffices
<1>7. CASE ~(sent - st.pos > RingCap) /\ ~(seq <= st.cursor)
  <2>1. stream' = [stream EXCEPT ![s] = c3]
    BY <1>1, <1>7
  <2>2. /\ seq \in Nat /\ seq <= sent /\ seq <= published
        /\ seq = st.cursor + 1
    <3>1. st.pos < sent /\ st.pos <= st.cursor
      BY <1>1, <1>4
    <3>2. seq \in Nat /\ seq <= sent
      BY <1>2, <1>3, <3>1, SMTT(30)
    <3>3. seq <= published
      BY <1>2, <3>2
    <3>4. seq = st.cursor + 1
      BY <1>3, <1>7, <3>1, <3>2, SMTT(30)
    <3> QED BY <3>2, <3>3, <3>4
  <2>3. seq \in OfRun <=> Shown(seq)
    <3>1. Len(log) \in Nat
      BY LenProperties DEF IInv, TimelineInv
    <3>2. seq \in 1..Len(log)
      BY <1>2, <1>3, <2>2, <3>1, SMTT(30)
    <3> QED BY <1>2, <3>2
  <2>4. /\ next \in {"pushLive", "recv"}
        /\ Shown(seq) => next = "pushLive"
        /\ ~Shown(seq) => next = "recv"
    OBVIOUS
  <2> HIDE DEF next, seq
  <2>5. /\ c3 \in Connections /\ c3.pc = next /\ c3.cursor = seq /\ c3.pos = seq
        /\ c3.out = st.out
    <3>1. next \in StreamPCs
      BY <2>4 DEF StreamPCs
    <3> QED BY <1>2, <2>2, <3>1 DEF Connections
  <2> HIDE DEF c3
  <2>6. stream'[s] = c3
    BY <2>1 DEF IInv, StreamTypes
  <2>7. Elements(st.out) = (OfRun \cap (LastReceived(s) + 1 .. seq)) \ InHand(s)'
    <3>1. CASE Shown(seq)
      <4>1. InHand(s)' = {seq}
        BY <2>4, <2>5, <2>6, <3>1 DEF InHand, Pushing
      <4> QED BY <1>2, <1>3, <1>4, <2>2, <2>3, <3>1, <4>1, RangeGrows, SMTT(30)
    <3>2. CASE ~Shown(seq)
      <4>1. InHand(s)' = {}
        BY <2>4, <2>5, <2>6, <3>2 DEF InHand, Pushing
      <4>2. OfRun \cap (LastReceived(s) + 1 .. seq) = OfRun \cap (LastReceived(s) + 1 .. st.cursor)
        <5>1. st.cursor + 1 \notin OfRun /\ LastReceived(s) + 1 <= st.cursor + 1
          BY <1>2, <1>3, <1>4, <2>2, <2>3, <3>2
        <5>2. OfRun \cap (LastReceived(s) + 1 .. st.cursor + 1)
                = OfRun \cap (LastReceived(s) + 1 .. st.cursor)
          BY <1>2, <1>3, <5>1, RangeGrows, SMTT(30)
        <5> QED BY <2>2, <5>2
      <4> QED BY <1>4, <4>1, <4>2
    <3> QED BY <3>1, <3>2
  <2>8. Pushing(s)' => stream'[s].cursor \in OfRun'
    BY <1>2, <2>3, <2>4, <2>5, <2>6 DEF Pushing
  <2>9. LastReceived(s) < seq /\ LastReceived(s) <= seq
    BY <1>2, <1>3, <1>4, <2>2
  <2>10. stream'[s].pc \in {"pushLive", "recv"} /\ c3.pc # "off"
    BY <2>4, <2>5, <2>6
  <2>11. OnItsWay(s)'
    BY <1>2, <1>4, <2>2, <2>5, <2>6, <2>7, <2>8, <2>9, <2>10 DEF OnItsWay
  <2> QED BY <1>1, <2>1, <2>5, <2>10, <2>11, ProducerSuffices
<1> QED BY <1>5, <1>6, <1>7

(* The client reads the least record that is on its way. *)
LEMMA ClientReadsKeepsIInv == ASSUME IInv, NEW s \in Streams, ClientReads(s) PROVE IInv'
<1> DEFINE st == stream[s]
           h == Head(st.out)
           got == received[s]
           L == LastReceived(s)
           q == Append(got, h)
           c == [st EXCEPT !.out = Tail(st.out)]
<1>1. /\ st.out # <<>> /\ UNCHANGED timeline
      /\ received' = [received EXCEPT ![s] = q] /\ stream' = [stream EXCEPT ![s] = c]
  BY DEF ClientReads, StreamStep
<1>2. /\ st \in Connections /\ got \in Seq(Nat) /\ published \in Nat /\ sent \in Nat
      /\ StreamInv(s) /\ L \in Nat
      /\ published' = published /\ sent' = sent /\ OfRun' = OfRun
  <2>1. st \in Connections /\ got \in Seq(Nat) /\ published \in Nat /\ sent \in Nat /\ StreamInv(s)
    BY DEF IInv, StreamTypes, TimelineInv
  <2> QED BY <1>1, <2>1, LastIsNat DEF timeline, OfRun, Shown
<1>3. st.pc # "off" /\ OnItsWay(s) /\ ReceivedInv(s)
  BY <1>1, <1>2 DEF StreamInv
<1>4. st.cursor \in Nat /\ st.pos \in Nat /\ st.to \in Nat /\ st.out \in Seq(Nat)
  BY <1>2 DEF Connections
<1>5. /\ InOrder(st.out)
      /\ Elements(st.out) = (OfRun \cap (L + 1 .. st.cursor)) \ InHand(s)
      /\ InHand(s) \subseteq {st.cursor}
      /\ Pushing(s) => InHand(s) = {st.cursor}
  BY <1>3 DEF OnItsWay, InHand
<1>6. /\ h \in Elements(st.out) /\ h \in Nat /\ \A n \in Elements(st.out) : h <= n
      /\ Tail(st.out) \in Seq(Nat) /\ InOrder(Tail(st.out))
      /\ Elements(Tail(st.out)) = Elements(st.out) \ {h}
  BY <1>1, <1>4, <1>5, HeadIsLeast
<1>7. h \in OfRun /\ L < h /\ h <= st.cursor /\ (Pushing(s) => h < st.cursor)
  BY <1>2, <1>4, <1>5, <1>6, SMTT(30)
<1> HIDE DEF h
<1>8. \A n \in OfRun : n \in L + 1 .. st.cursor => h <= n
  BY <1>2, <1>4, <1>5, <1>6, <1>7
<1>9. InOrder(got) /\ Elements(got) = OfRun \cap (1..L) /\ \A m \in Elements(got) : m < h
  BY <1>2, <1>3, <1>6, <1>7 DEF ReceivedInv
<1>10. /\ q \in Seq(Nat) /\ InOrder(q) /\ Elements(q) = Elements(got) \cup {h}
       /\ q # <<>> /\ q[Len(q)] = h
  BY <1>2, <1>6, <1>9, AppendInOrder
<1> HIDE DEF q
<1>11. c \in Connections /\ c.pc = st.pc /\ c.cursor = st.cursor /\ c.pos = st.pos
       /\ c.to = st.to /\ (c.full <=> st.full) /\ c.out = Tail(st.out)
  BY <1>2, <1>6 DEF Connections
<1> HIDE DEF c
<1>12. stream'[s] = c /\ received'[s] = q
  BY <1>1 DEF IInv, StreamTypes
<1>13. LastReceived(s)' = h
  BY <1>10, <1>12 DEF LastReceived
<1>14. ReceivedInv(s)'
  <2>1. Elements(q) = OfRun \cap (1..h)
    <3>1. \A n \in OfRun : n \in 1..h <=> n \in 1..L \/ n = h
      <4> TAKE n \in OfRun
      <4>1. n \in Nat
        <5>1. OfRun \subseteq Nat
          BY DEF OfRun
        <5> QED BY <5>1
      <4> QED BY <1>2, <1>4, <1>6, <1>7, <1>8, <4>1, SMTT(30)
    <3> QED BY <1>7, <1>9, <1>10, <3>1
  <2>2. st.cursor <= published
    BY <1>3 DEF OnItsWay
  <2> QED BY <1>2, <1>4, <1>6, <1>7, <1>10, <1>12, <1>13, <2>1, <2>2 DEF ReceivedInv
<1>15. OnItsWay(s)'
  <2>1. (Pushing(s)' <=> Pushing(s)) /\ InHand(s)' = InHand(s)
    BY <1>11, <1>12 DEF Pushing, InHand
  <2>2. Elements(c.out) = (OfRun \cap (h + 1 .. st.cursor)) \ InHand(s)
    <3>1. \A n \in OfRun : n \in h + 1 .. st.cursor <=> n \in L + 1 .. st.cursor /\ n # h
      <4> TAKE n \in OfRun
      <4>1. n \in Nat
        <5>1. OfRun \subseteq Nat
          BY DEF OfRun
        <5> QED BY <5>1
      <4> QED BY <1>2, <1>4, <1>6, <1>7, <1>8, <4>1, SMTT(30)
    <3> QED BY <1>5, <1>6, <1>11, <3>1
  <2>3. InOrder(c.out)
    BY <1>6, <1>11
  <2>4. st.cursor <= published /\ st.pos <= sent /\ (Pushing(s) => st.cursor \in OfRun)
    BY <1>3 DEF OnItsWay
  <2>5. c.pc \in {"batch", "push"} => /\ c.cursor <= c.to /\ c.to <= published
                                      /\ c.full \/ c.pos <= c.to
    <3>1. st.pc \in {"batch", "push"} => /\ st.cursor <= st.to /\ st.to <= published
                                         /\ st.full \/ st.pos <= st.to
      BY <1>3 DEF OnItsWay
    <3> QED BY <1>11, <3>1, Zenon
  <2>6. c.pc \in {"recv", "pushLive"} => c.pos <= c.cursor
    BY <1>3, <1>11 DEF OnItsWay
  <2> QED BY <1>2, <1>7, <1>11, <1>12, <1>13, <2>1, <2>2, <2>3, <2>4, <2>5, <2>6 DEF OnItsWay
<1>16. StreamInv(s)'
  BY <1>3, <1>11, <1>12, <1>14, <1>15 DEF StreamInv
<1> QED BY <1>1, <1>10, <1>11, <1>16, OneStreamSuffices

(* The steps of the timeline: a record is staged, a batch is published and *)
(* announced; none of it changes what was published before.                *)
LEMMA TimelineStepKeepsIInv ==
  ASSUME IInv,
         \/ \E r \in Runs : AppendEvent(r)
         \/ SyncBatch \/ SyncFails \/ Notify
         \/ \E h \in Hooks : StageBookkeeping(h)
         \/ Restart
  PROVE  IInv'
<1>1. /\ log \in Seq(Records) /\ published \in Nat /\ sent \in Nat /\ Len(log) \in Nat
      /\ sent <= published /\ published <= Len(log)
  BY LenProperties DEF IInv, TimelineInv
<1>2. ASSUME NEW r \in Records, log' = Append(log, r), UNCHANGED <<published, sent, streams>>
      PROVE  IInv'
  <2>1. /\ log' \in Seq(Records) /\ Len(log') = Len(log) + 1
        /\ \A i \in 1..Len(log) : log'[i] = log[i]
    BY <1>1, <1>2, AppendProperties
  <2>2. Grows
    BY <1>1, <1>2, <2>1 DEF Grows
  <2>3. TimelineInv'
    BY <1>1, <1>2, <2>1 DEF TimelineInv
  <2> QED BY <1>2, <2>2, <2>3, OthersKeepStreams
<1>3. CASE \E r \in Runs : AppendEvent(r)
  <2>1. PICK r \in Runs : AppendEvent(r)
    BY <1>3
  <2>2. Event(r) \in Records /\ log' = Append(log, Event(r))
        /\ UNCHANGED <<published, sent, streams>>
    BY <2>1 DEF AppendEvent, Event, Records
  <2> QED BY <1>2, <2>2
<1>4. CASE SyncBatch
  <2>1. log' = log /\ published' = Len(log) /\ sent' = sent /\ UNCHANGED streams
    BY <1>4 DEF SyncBatch
  <2>2. Grows /\ TimelineInv'
    BY <1>1, <2>1 DEF Grows, TimelineInv
  <2> QED BY <2>1, <2>2, OthersKeepStreams
<1>5. CASE SyncFails
  <2>1. UNCHANGED <<log, published, sent, streams>>
    BY <1>5 DEF SyncFails
  <2>2. Grows /\ TimelineInv'
    BY <1>1, <2>1 DEF Grows, TimelineInv
  <2> QED BY <2>1, <2>2, OthersKeepStreams
<1>6. CASE Notify
  <2>1. UNCHANGED <<log, published, streams>> /\ sent' = sent + 1 /\ sent < published
    BY <1>6 DEF Notify
  <2>2. Grows /\ TimelineInv'
    BY <1>1, <2>1 DEF Grows, TimelineInv
  <2> QED BY <2>1, <2>2, OthersKeepStreams
<1>7. CASE \E h \in Hooks : StageBookkeeping(h)
  <2>1. PICK h \in Hooks : StageBookkeeping(h)
    BY <1>7
  <2>2. /\ Bookkeeping("webhook_registered", h) \in Records
        /\ Bookkeeping("webhook_deleted", h) \in Records
    BY DEF Bookkeeping, Records
  <2>3. /\ \/ log' = Append(log, Bookkeeping("webhook_registered", h))
           \/ log' = Append(log, Bookkeeping("webhook_deleted", h))
        /\ UNCHANGED <<published, sent, streams>>
    BY <2>1 DEF StageBookkeeping
  <2> QED BY <1>2, <2>2, <2>3
<1>8. CASE Restart
  <2>1. log' = log /\ published' = Len(log) /\ sent' = Len(log) /\ UNCHANGED streams
    BY <1>8 DEF Restart
  <2>2. Grows /\ TimelineInv'
    BY <1>1, <2>1 DEF Grows, TimelineInv
  <2> QED BY <2>1, <2>2, OthersKeepStreams
<1> QED BY <1>3, <1>4, <1>5, <1>6, <1>7, <1>8

(* The file loses what was not published, the connections all they had,    *)
(* the clients nothing.                                                    *)
LEMMA CrashKeepsIInv == ASSUME IInv, Crash PROVE IInv'
<1>1. /\ log \in Seq(Records) /\ published \in Nat /\ sent \in Nat /\ Len(log) \in Nat
      /\ sent <= published /\ published <= Len(log)
  BY LenProperties DEF IInv, TimelineInv
<1>2. /\ stream' = [s \in Streams |-> NoStream]
      /\ UNCHANGED <<published, sent, received>>
  BY DEF Crash
<1>3. PICK k \in published..Len(log) : log' = SubSeq(log, 1, k)
  BY DEF Crash
<1>4. /\ log' \in Seq(Records) /\ Len(log') = k
      /\ \A i \in 1..k : log'[i] = log[i]
  <2>1. k \in Nat /\ k <= Len(log)
    BY <1>1
  <2> QED BY <1>1, <1>3, <2>1, SubSeqProperties
<1>5. TimelineInv'
  BY <1>1, <1>2, <1>4 DEF TimelineInv
<1>6. StreamTypes'
  <2>1. NoStream \in Connections
    BY EmptySeq DEF NoStream, Connections, StreamPCs
  <2> QED BY <1>2, <2>1 DEF IInv, StreamTypes
<1>7. ASSUME NEW s \in Streams PROVE StreamInv(s)'
  <2>1. stream'[s].pc = "off" /\ stream'[s].out = <<>>
    BY <1>2 DEF NoStream
  <2>2. /\ received[s] \in Seq(Nat) /\ LastReceived(s) \in Nat /\ ReceivedInv(s)
        /\ received' = received /\ LastReceived(s)' = LastReceived(s)
    BY <1>2, LastIsNat DEF IInv, StreamTypes, StreamInv, LastReceived
  <2>3. \A n \in 1..published : n \in OfRun' <=> n \in OfRun
    BY <1>1, <1>4 DEF OfRun, Shown
  <2>4. LastReceived(s) <= published
    BY <2>2 DEF ReceivedInv
  <2>5. (OfRun \cap (1..LastReceived(s)))' = OfRun \cap (1..LastReceived(s))
    BY <1>1, <2>2, <2>3, <2>4
  <2>6. ReceivedInv(s)'
    BY <1>2, <2>2, <2>4, <2>5 DEF ReceivedInv
  <2> QED BY <2>1, <2>6 DEF StreamInv
<1> QED BY <1>5, <1>6, <1>7 DEF IInv

(* Requests, the coordinator and the workers touch neither the timeline    *)
(* nor a stream.                                                           *)
LEMMA HookStepKeepsIInv ==
  ASSUME IInv, UNCHANGED <<timeline, streams>>
  PROVE  IInv'
<1>1. Grows /\ TimelineInv'
  BY DEF Grows, TimelineInv, IInv, timeline
<1> QED BY <1>1, OthersKeepStreams

LEMMA NextKeepsIInv == ASSUME IInv, [Next]_vars PROVE IInv'
<1>1. CASE \/ \E r \in Runs : AppendEvent(r)
           \/ SyncBatch \/ SyncFails \/ Notify
           \/ \E h \in Hooks : StageBookkeeping(h)
           \/ Restart
  BY <1>1, TimelineStepKeepsIInv
<1>2. CASE Crash
  BY <1>2, CrashKeepsIInv
<1>3. CASE CoordinatorStep
  <2>1. UNCHANGED <<timeline, streams>>
    BY <1>3 DEF CoordinatorStep, HandleCommand, HandleNotification
  <2> QED BY <2>1, HookStepKeepsIInv
<1>4. ASSUME NEW h \in Hooks,
             \/ CreateReserve(h) \/ DeleteList(h) \/ AppendRefused(h)
             \/ AppendAnswered(h) \/ Disconnect(h)
      PROVE  IInv'
  <2>1. UNCHANGED <<timeline, streams>>
    BY <1>4 DEF CreateReserve, DeleteList, AppendRefused, AppendAnswered, Disconnect
  <2> QED BY <2>1, HookStepKeepsIInv
<1>5. ASSUME NEW h \in Hooks, WorkerStep(h) PROVE IInv'
  <2>1. UNCHANGED <<timeline, streams>>
    BY <1>5 DEF WorkerStep, Load, PostOk, PostRetried, PostGivenUp, RecordOutcome,
                Checkpoint, Resume, Exit
  <2> QED BY <2>1, HookStepKeepsIInv
<1>6. ASSUME NEW s \in Streams,
             Connect(s) \/ ProducerStep(s) \/ ClientReads(s) \/ ClientLeaves(s)
      PROVE  IInv'
  BY <1>6, ConnectKeepsIInv, ReplayKeepsIInv, BatchRecordKeepsIInv, PushKeepsIInv,
     ReceiveKeepsIInv, ClientReadsKeepsIInv, ClientLeavesKeepsIInv DEF ProducerStep
<1>7. CASE UNCHANGED vars
  <2>1. UNCHANGED <<timeline, streams>>
    BY <1>7 DEF vars
  <2> QED BY <2>1, HookStepKeepsIInv
<1> QED BY <1>1, <1>2, <1>3, <1>4, <1>5, <1>6, <1>7 DEF Next

---------------------------------------------------------------------------
(* Theorems *)

(* In every reachable state what a client has and what is on its way to it *)
(* make up a prefix of its run's records (delivery.rs stream_events).      *)
THEOREM Invariance == Spec => []IInv
<1>1. Init => IInv
  BY InitIInv
<1>2. IInv /\ [Next]_vars => IInv'
  BY NextKeepsIInv
<1> QED BY <1>1, <1>2, PTL DEF Spec

(* What the client received is what the property asks for. *)
LEMMA ReceivedIsAll == ASSUME IInv PROVE StreamMissesNothing
<1> SUFFICES ASSUME NEW s \in Streams
             PROVE  /\ \A i, j \in DOMAIN received[s] : i < j => received[s][i] < received[s][j]
                    /\ {received[s][i] : i \in DOMAIN received[s]}
                         = {seq \in 1..LastReceived(s) : seq <= published /\ Shown(seq)}
  BY DEF StreamMissesNothing
<1>1. received[s] \in Seq(Nat) /\ ReceivedInv(s) /\ published \in Nat /\ published <= Len(log)
  BY DEF IInv, StreamTypes, StreamInv, TimelineInv
<1>2. DOMAIN received[s] = 1..Len(received[s]) /\ LastReceived(s) \in Nat
  BY <1>1, LenProperties, LastIsNat
<1>3. LastReceived(s) <= published /\ Len(log) \in Nat
  BY <1>1, LenProperties DEF ReceivedInv, IInv, TimelineInv
<1>4. OfRun \cap (1..LastReceived(s))
        = {seq \in 1..LastReceived(s) : seq <= published /\ Shown(seq)}
  BY <1>1, <1>2, <1>3 DEF OfRun
<1> QED BY <1>1, <1>2, <1>4 DEF ReceivedInv, InOrder, Elements

(* An SSE client that reconnects with its last event id receives every     *)
(* event of the run once and in order, and only what is on stable storage, *)
(* however often the ring laps its producer or the process restarts.       *)
THEOREM NoEventMissed == Spec => []StreamMissesNothing
<1>1. IInv => StreamMissesNothing
  BY ReceivedIsAll
<1> QED BY <1>1, Invariance, PTL

USE HooksAssumption, BoundsAssumption

---------------------------------------------------------------------------
(* Webhooks.  What a worker knows, what the requests and the coordinator   *)
(* know of each other, and the places in the coordinator.                  *)

Places(k, h) == {i \in 1..Len(log) : log[i] = Bookkeeping(k, h)}
Registered(h) == Places("webhook_registered", h)
Deleted(h) == Places("webhook_deleted", h)
InReach(S) == \E i \in S : i <= published

Commands == [op : {"reserve", "activate", "remove"}, hook : Hooks, seq : 0..MaxLog]
At(o, h) == {i \in 1..Len(commands) : commands[i].op = o /\ commands[i].hook = h}
Queued(o, h) == At(o, h) # {}

Present == {h \in Hooks : hooks[h] # "absent"}

TimelineTypes ==
  /\ Len(log) <= MaxLog /\ cpos \in 0..sent
  /\ poisoned \in BOOLEAN /\ up \in BOOLEAN

CoordinatorTypes ==
  /\ commands \in Seq(Commands)
  /\ hooks \in [Hooks -> {"absent", "pending", "active"}]
  /\ IsFiniteSet(Present) /\ Cardinality(Present) <= MaxHooks
  /\ regseq \in [Hooks -> 0..MaxLog]

WorkerTypes ==
  /\ torn \in BOOLEAN
  /\ worker \in [Hooks -> Workers]
  /\ saved \in [Hooks -> SUBSET (1..MaxLog)]
  /\ settled \in [Hooks -> SUBSET (1..MaxLog)]

RequestTypes == create \in [Hooks -> Requests] /\ delete \in [Hooks -> Requests]

ChannelTypes == \A s \in Streams : Len(stream[s].out) <= OutCap

(* Nothing of the coordinator and of the requests survives the process. *)
Stopped ==
  ~up => /\ commands = <<>>
         /\ \A h \in Hooks : /\ hooks[h] = "absent"
                             /\ ~InProgress(create[h]) /\ ~InProgress(delete[h])

TypesInv ==
  /\ TimelineTypes /\ CoordinatorTypes /\ WorkerTypes /\ RequestTypes /\ ChannelTypes
  /\ Stopped

---------------------------------------------------------------------------
(* Numbers *)

(* A set of numbers has a least one. *)
LEMMA LeastNatural ==
  ASSUME NEW T \in SUBSET Nat, T # {}
  PROVE  \E n \in T : \A m \in T : n <= m
<1>1. PICK n \in T : \A m \in T : ~ (<<m, n>> \in OpToRel(<, Nat))
  BY NatLessThanWellFounded, WFMin
<1>2. \A m \in T : ~(m < n)
  BY <1>1 DEF OpToRel
<1> QED BY <1>2

(* Least is what it says. *)
LEMMA LeastFacts ==
  ASSUME NEW S \in SUBSET Nat, S # {}
  PROVE  Least(S) \in S /\ \A s \in S : Least(S) <= s
<1>1. \E x : x \in S /\ \A y \in S : x <= y
  BY LeastNatural
<1>2. Least(S) = CHOOSE x : x \in S /\ \A y \in S : x <= y
  BY Zenon DEF Least
<1> QED BY <1>1, <1>2, Zenon

(* So is Greatest. *)
LEMMA GreatestFacts ==
  ASSUME NEW n \in Nat, NEW S \in SUBSET (0..n), S # {}
  PROVE  Greatest(S) \in S /\ \A s \in S : s <= Greatest(S)
<1>1. \A s \in S : s \in Nat /\ s <= n
  OBVIOUS
<1>2. \E x : x \in S /\ \A y \in S : y <= x
  <2> DEFINE T == {n - s : s \in S}
  <2>1. T \in SUBSET Nat /\ T # {}
    <3>1. \A s \in S : n - s \in Nat
      BY <1>1
    <3>2. PICK s \in S : TRUE
      OBVIOUS
    <3>3. n - s \in T
      OBVIOUS
    <3> QED BY <3>1, <3>3
  <2>2. PICK t \in T : \A u \in T : t <= u
    BY <2>1, LeastNatural
  <2>3. PICK m \in S : t = n - m
    BY <2>2
  <2>4. \A s \in S : n - m <= n - s
    BY <2>2, <2>3
  <2> QED BY <1>1, <2>4
<1>3. Greatest(S) = CHOOSE x : x \in S /\ \A y \in S : y <= x
  BY Zenon DEF Greatest
<1> QED BY <1>2, <1>3, Zenon

(* What every part of the argument uses of the timeline. *)
LEMMA TimelineFacts ==
  ASSUME IInv, TypesInv
  PROVE  /\ log \in Seq(Records) /\ Len(log) \in Nat /\ DOMAIN log = 1..Len(log)
         /\ published \in Nat /\ sent \in Nat /\ cpos \in Nat
         /\ cpos <= sent /\ sent <= published /\ published <= Len(log) /\ Len(log) <= MaxLog
         /\ published \in 0..MaxLog /\ sent \in 0..MaxLog /\ Len(log) \in 0..MaxLog
         /\ MaxLog \in Nat
         /\ \A i \in 1..Len(log) : log[i] \in Records
<1>1. /\ log \in Seq(Records) /\ published \in Nat /\ sent \in Nat
      /\ sent <= published /\ published <= Len(log)
      /\ Len(log) <= MaxLog /\ cpos \in 0..sent
  BY DEF IInv, TimelineInv, TypesInv, TimelineTypes
<1>2. Len(log) \in Nat /\ DOMAIN log = 1..Len(log) /\ \A i \in 1..Len(log) : log[i] \in Records
  BY <1>1, LenProperties, ElementOfSeq
<1> QED BY <1>1, <1>2

---------------------------------------------------------------------------
(* Requests and the command channel *)

(* A request that moves keeps its sequence, and the others stay. *)
LEMMA GotoFacts ==
  ASSUME NEW r \in [Hooks -> Requests], NEW h \in Hooks, NEW l \in RequestPCs
  PROVE  /\ Goto(r, h, l) \in [Hooks -> Requests]
         /\ Goto(r, h, l)[h].pc = l /\ Goto(r, h, l)[h].seq = r[h].seq
         /\ \A g \in Hooks : g # h => Goto(r, h, l)[g] = r[g]
<1>1. r[h] = [pc |-> r[h].pc, seq |-> r[h].seq] /\ r[h].seq \in 0..MaxLog
  BY DEF Requests
<1>2. [r[h] EXCEPT !.pc = l] \in Requests
  BY <1>1 DEF Requests
<1> QED BY <1>1, <1>2 DEF Goto

(* A command at the end of the channel. *)
LEMMA SendFacts ==
  ASSUME commands \in Seq(Commands), NEW c \in Commands, commands' = Append(commands, c)
  PROVE  /\ commands' \in Seq(Commands)
         /\ Len(commands') = Len(commands) + 1 /\ Len(commands) \in Nat
         /\ commands'[Len(commands) + 1] = c
         /\ \A i \in 1..Len(commands) : commands'[i] = commands[i]
         /\ \A o, g : At(o, g)' = IF c.op = o /\ c.hook = g
                                  THEN At(o, g) \cup {Len(commands) + 1} ELSE At(o, g)
         /\ \A o, g : Queued(o, g)' <=> Queued(o, g) \/ (c.op = o /\ c.hook = g)
<1>1. /\ commands' \in Seq(Commands) /\ Len(commands) \in Nat
      /\ Len(commands') = Len(commands) + 1
      /\ commands'[Len(commands) + 1] = c
      /\ \A i \in 1..Len(commands) : commands'[i] = commands[i]
  BY AppendProperties, LenProperties
<1>2. ASSUME NEW o, NEW g
      PROVE  At(o, g)' = IF c.op = o /\ c.hook = g
                         THEN At(o, g) \cup {Len(commands) + 1} ELSE At(o, g)
  <2> DEFINE n == Len(commands)
  <2>1. At(o, g)' = {i \in 1..n + 1 : commands'[i].op = o /\ commands'[i].hook = g}
    BY <1>1 DEF At
  <2>2. At(o, g) = {i \in 1..n : commands'[i].op = o /\ commands'[i].hook = g}
    BY <1>1 DEF At
  <2>3. 1..n + 1 = (1..n) \cup {n + 1}
    BY <1>1
  <2> QED BY <1>1, <2>1, <2>2, <2>3
<1>3. \A o, g : Queued(o, g)' <=> Queued(o, g) \/ (c.op = o /\ c.hook = g)
  BY <1>2, Zenon DEF Queued
<1> QED BY <1>1, <1>2, <1>3

(* The channel hands out its first command. *)
LEMMA TakeFacts ==
  ASSUME commands \in Seq(Commands), commands # <<>>, commands' = Tail(commands)
  PROVE  /\ commands' \in Seq(Commands) /\ Head(commands) \in Commands
         /\ 1 \in At(Head(commands).op, Head(commands).hook) /\ commands[1] = Head(commands)
         /\ \A o, g, i : i \in At(o, g)' => i + 1 \in At(o, g) /\ i + 1 # 1 /\ commands'[i] = commands[i + 1]
         /\ \A o, g : Queued(o, g)' => Queued(o, g)
         /\ \A o, g : ~(Head(commands).op = o /\ Head(commands).hook = g) =>
              (Queued(o, g)' <=> Queued(o, g))
<1>1. /\ commands' \in Seq(Commands) /\ Len(commands) \in Nat \ {0}
      /\ Len(commands') = Len(commands) - 1
      /\ \A i \in 1..Len(commands') : commands'[i] = commands[i + 1]
      /\ Head(commands) = commands[1]
  BY HeadTailProperties, LenProperties, EmptySeq
<1>2. 1 \in 1..Len(commands)
  BY <1>1
<1>3. Head(commands) \in Commands
  BY <1>1, <1>2, ElementOfSeq
<1>4. 1 \in At(Head(commands).op, Head(commands).hook)
  BY <1>1, <1>2 DEF At
<1>5. ASSUME NEW o, NEW g, NEW i, i \in At(o, g)'
      PROVE  i + 1 \in At(o, g) /\ i + 1 # 1 /\ commands'[i] = commands[i + 1]
  <2>1. i \in 1..Len(commands') /\ commands'[i].op = o /\ commands'[i].hook = g
    BY <1>5 DEF At
  <2>2. i + 1 \in 1..Len(commands) /\ commands'[i] = commands[i + 1] /\ i + 1 # 1
    BY <1>1, <2>1
  <2> QED BY <2>1, <2>2 DEF At
<1>6. ASSUME NEW o, NEW g, Queued(o, g), ~(Head(commands).op = o /\ Head(commands).hook = g)
      PROVE  Queued(o, g)'
  <2>1. PICK j \in 1..Len(commands) : commands[j].op = o /\ commands[j].hook = g
    BY <1>6 DEF Queued, At
  <2>2. j # 1
    BY <1>1, <1>6, <2>1
  <2>3. j - 1 \in 1..Len(commands') /\ commands'[j - 1] = commands[j]
    BY <1>1, <2>1, <2>2
  <2>4. j - 1 \in At(o, g)'
    BY <2>1, <2>3 DEF At
  <2> QED BY <2>4 DEF Queued
<1>7. \A o, g : Queued(o, g)' => Queued(o, g)
  BY <1>5 DEF Queued
<1> QED BY <1>1, <1>3, <1>4, <1>5, <1>6, <1>7

(* The events up to n that hook h was registered for. *)
DueTo(h, n) == {s \in 1..n : Matches(s) /\ \E i \in Registered(h) : i < s}

(* Nothing of them is missing in S. *)
Covered(h, n, S) == n \in 0..published /\ DueTo(h, n) \subseteq S

(* How far hook h is, in memory, in its delivery log, and with its receiver. *)
Reached(h) == {regseq[h], worker[h].last, worker[h].offset} \cup saved[h] \cup settled[h]

(* The batch of a worker lacks nothing, and goes out in order. *)
BatchInv(h) ==
  LET w == worker[h]
  IN /\ w.pc \in {"post", "record", "checkpoint"} =>
          /\ w.to \in 1..published
          /\ \A s \in w.todo : s \in 1..w.to /\ Matches(s)
          /\ DueTo(h, w.to) \subseteq settled[h] \cup w.todo
     /\ w.pc \in {"post", "record"} => w.todo # {}
     /\ w.pc = "checkpoint" => w.todo = {}

WorkerInv(h) ==
  /\ \A s \in settled[h] : Matches(s)
  /\ \A n \in Reached(h) : Covered(h, n, settled[h])
  /\ BatchInv(h)

---------------------------------------------------------------------------
(* Types *)

(* The capacities are positive numbers. *)
LEMMA Caps ==
  /\ RingCap \in Nat \ {0} /\ ReplayBatch \in Nat \ {0} /\ OutCap \in Nat \ {0}
  /\ MaxHooks \in Nat \ {0} /\ MaxAttempts \in Nat \ {0} /\ MaxLog \in Nat
  /\ 0 \in 0..MaxLog /\ 0 \in 0..MaxAttempts /\ 1 \in 0..MaxAttempts
<1>1. /\ RingCap \in Nat \ {0} /\ ReplayBatch \in Nat \ {0} /\ OutCap \in Nat \ {0}
      /\ MaxHooks \in Nat \ {0} /\ MaxAttempts \in Nat \ {0} /\ MaxLog \in Nat
  BY Zenon, CapsAssumption, BoundsAssumption
<1> QED BY <1>1

(* The fields of a worker. *)
LEMMA WorkerFacts ==
  ASSUME worker \in [Hooks -> Workers], NEW h \in Hooks
  PROVE  LET w == worker[h]
         IN /\ w = [pc |-> w.pc, wake |-> w.wake, last |-> w.last, offset |-> w.offset,
                    to |-> w.to, full |-> w.full, todo |-> w.todo, attempt |-> w.attempt]
            /\ w.pc \in WorkerPCs /\ w.wake \in BOOLEAN /\ w.full \in BOOLEAN
            /\ w.last \in 0..MaxLog /\ w.offset \in 0..MaxLog /\ w.to \in 0..MaxLog
            /\ w.todo \in SUBSET (1..MaxLog) /\ w.attempt \in 0..MaxAttempts
<1>1. worker[h] \in Workers
  OBVIOUS
<1> QED BY <1>1 DEF Workers

(* A spawned worker has its type. *)
LEMMA SpawnedType == \A n \in 0..MaxLog : Spawned(n) \in Workers /\ NoWorker \in Workers
<1>1. NoWorker \in Workers
  BY Caps DEF NoWorker, Workers, WorkerPCs
<1>2. ASSUME NEW n \in 0..MaxLog PROVE Spawned(n) \in Workers
  <2>1. [NoWorker EXCEPT !.pc = "load", !.last = n] \in Workers
    BY <1>1 DEF Workers, WorkerPCs
  <2> QED BY <2>1 DEF Spawned
<1> QED BY <1>1, <1>2

(* The steps of a worker. *)
LEMMA LoadTypes ==
  ASSUME IInv, TypesInv, NEW h \in Hooks, Load(h)
  PROVE  WorkerTypes'
<1> DEFINE w == worker[h]
           from == Later(Cursor(h), w.offset)
           to == Sooner(published, from + ReplayBatch)
           matching == {s \in from + 1 .. to : Matches(s)}
           v == IF from >= published THEN [w EXCEPT !.pc = "wait", !.offset = published]
                ELSE [w EXCEPT !.pc = IF matching = {} THEN "checkpoint" ELSE "post",
                               !.to = to, !.full = to - from = ReplayBatch,
                               !.todo = matching, !.attempt = 1]
<1>1. worker' = [worker EXCEPT ![h] = v] /\ UNCHANGED <<saved, torn, settled>>
  BY DEF Load
<1>2. /\ worker \in [Hooks -> Workers] /\ published \in 0..MaxLog /\ w \in Workers
      /\ regseq[h] \in 0..MaxLog /\ w.last \in 0..MaxLog /\ w.offset \in 0..MaxLog
      /\ MaxLog \in Nat /\ ReplayBatch \in Nat /\ 1 \in 0..MaxAttempts
  <2>1. worker \in [Hooks -> Workers] /\ regseq[h] \in 0..MaxLog
    BY DEF TypesInv, WorkerTypes, CoordinatorTypes
  <2> QED BY <2>1, TimelineFacts, WorkerFacts, Caps
<1>3. from \in 0..MaxLog /\ to \in 0..MaxLog
  <2>1. Cursor(h) \in 0..MaxLog
    BY <1>2 DEF Cursor, Later
  <2>2. from \in 0..MaxLog
    BY <1>2, <2>1 DEF Later
  <2> HIDE DEF from
  <2> QED BY <1>2, <2>2 DEF Sooner
<1>4. matching \in SUBSET (1..MaxLog)
  <2> HIDE DEF from, to
  <2> QED BY <1>2, <1>3
<1> HIDE DEF from, to, matching
<1>5. v \in Workers
  BY <1>2, <1>3, <1>4 DEF Workers, WorkerPCs
<1> HIDE DEF v
<1> QED BY <1>1, <1>2, <1>5 DEF TypesInv, WorkerTypes

(* So has one that backs off. *)
LEMMA BackoffType ==
  ASSUME worker \in [Hooks -> Workers], NEW h \in Hooks
  PROVE  Backoff(h) \in [Hooks -> Workers]
<1> DEFINE v == [worker[h] EXCEPT !.pc = "backoff", !.to = 0, !.full = FALSE,
                                  !.todo = {}, !.attempt = 0]
<1>1. worker[h] \in Workers
  OBVIOUS
<1>2. v \in Workers
  BY <1>1, Caps DEF Workers, WorkerPCs
<1> HIDE DEF v
<1>3. [worker EXCEPT ![h] = v] \in [Hooks -> Workers]
  BY <1>2
<1> QED BY <1>3 DEF Backoff, v

(* The least event of a batch. *)
LEMMA TodoFacts ==
  ASSUME IInv, TypesInv, NEW h \in Hooks, BatchInv(h), worker[h].pc \in {"post", "record"}
  PROVE  LET seq == Least(worker[h].todo)
         IN  /\ seq \in worker[h].todo /\ seq \in 1..worker[h].to /\ seq \in 1..published
             /\ seq \in 1..MaxLog /\ seq \in Nat /\ Matches(seq)
             /\ \A s \in worker[h].todo : seq <= s
<1> DEFINE T == worker[h].todo
           seq == Least(T)
<1>1. /\ T # {} /\ worker[h].to \in 1..published
      /\ \A s \in T : s \in 1..worker[h].to /\ Matches(s)
  BY DEF BatchInv
<1>2. published \in Nat /\ published <= MaxLog /\ MaxLog \in Nat
  BY TimelineFacts
<1>3. T \in SUBSET Nat
  BY <1>1, <1>2
<1>4. seq \in T /\ \A s \in T : seq <= s
  BY <1>1, <1>3, LeastFacts
<1> HIDE DEF seq, T
<1>5. seq \in 1..worker[h].to /\ Matches(seq)
  BY <1>1, <1>4
<1>6. seq \in 1..published /\ seq \in 1..MaxLog /\ seq \in Nat
  BY <1>1, <1>2, <1>5
<1> QED BY <1>4, <1>5, <1>6 DEF seq, T

(* Every step of a worker keeps the types of the delivery log. *)
LEMMA WorkerStepTypes ==
  ASSUME IInv, TypesInv, NEW h \in Hooks, BatchInv(h), WorkerStep(h)
  PROVE  WorkerTypes'
<1> DEFINE w == worker[h]
<1>1. /\ worker \in [Hooks -> Workers] /\ w \in Workers /\ torn \in BOOLEAN
      /\ saved \in [Hooks -> SUBSET (1..MaxLog)] /\ settled \in [Hooks -> SUBSET (1..MaxLog)]
  BY DEF TypesInv, WorkerTypes
<1>2. /\ w.pc \in WorkerPCs /\ w.last \in 0..MaxLog /\ w.offset \in 0..MaxLog
      /\ w.to \in 0..MaxLog /\ w.full \in BOOLEAN
      /\ w.todo \in SUBSET (1..MaxLog) /\ w.attempt \in 0..MaxAttempts
      /\ MaxAttempts \in Nat \ {0} /\ MaxLog \in Nat
  <2>1. worker \in [Hooks -> Workers]
    BY <1>1
  <2> QED BY <2>1, WorkerFacts, Caps, Zenon
<1>3. CASE Load(h)
  BY <1>3, LoadTypes
<1>4. CASE PostOk(h)
  <2>1. Least(w.todo) \in 1..MaxLog
    BY <1>4, TodoFacts DEF PostOk
  <2>2. [w EXCEPT !.pc = "record"] \in Workers
    BY <1>1 DEF Workers, WorkerPCs
  <2>3. /\ worker' = [worker EXCEPT ![h] = [w EXCEPT !.pc = "record"]]
        /\ settled' = [settled EXCEPT ![h] = settled[h] \cup {Least(w.todo)}]
        /\ UNCHANGED <<saved, torn>>
    BY <1>4 DEF PostOk
  <2> QED BY <1>1, <2>1, <2>2, <2>3 DEF WorkerTypes
<1>5. CASE PostRetried(h)
  <2>1. /\ torn' \in BOOLEAN /\ UNCHANGED <<saved, settled>>
        /\ \/ worker' = [worker EXCEPT ![h] = [w EXCEPT !.attempt = w.attempt + 1]]
           \/ worker' = Backoff(h)
        /\ w.attempt < MaxAttempts
    BY <1>1, <1>5 DEF PostRetried, WriteLine, WriteFails
  <2>2. w.attempt + 1 \in 0..MaxAttempts
    BY <1>2, <2>1
  <2>3. [w EXCEPT !.attempt = w.attempt + 1] \in Workers
    BY <1>1, <2>2 DEF Workers
  <2> QED BY <1>1, <2>1, <2>3, BackoffType DEF WorkerTypes
<1>6. CASE PostGivenUp(h)
  <2>1. [w EXCEPT !.pc = "record"] \in Workers
    BY <1>1 DEF Workers, WorkerPCs
  <2>2. /\ worker' = [worker EXCEPT ![h] = [w EXCEPT !.pc = "record"]]
        /\ UNCHANGED <<saved, torn, settled>>
    BY <1>6 DEF PostGivenUp
  <2> QED BY <1>1, <2>1, <2>2 DEF WorkerTypes
<1>7. CASE RecordOutcome(h)
  <2> DEFINE seq == Least(w.todo)
             rest == w.todo \ {seq}
             v == [w EXCEPT !.pc = IF rest = {} THEN "checkpoint" ELSE "post",
                            !.last = seq, !.todo = rest, !.attempt = 1]
  <2>1. seq \in 1..MaxLog /\ rest \in SUBSET (1..MaxLog)
    BY <1>2, <1>7, TodoFacts DEF RecordOutcome
  <2>2. /\ torn' \in BOOLEAN
        /\ \/ /\ saved' = SavedWith(h, seq) /\ worker' = [worker EXCEPT ![h] = v]
              /\ settled' = [settled EXCEPT ![h] = settled[h] \cup {seq}]
           \/ worker' = Backoff(h) /\ UNCHANGED <<saved, settled>>
    BY <1>1, <1>7 DEF RecordOutcome, WriteLine, WriteFails
  <2> HIDE DEF seq, rest
  <2>3. seq \in 0..MaxLog /\ 1 \in 0..MaxAttempts
    BY <1>2, <2>1
  <2>4. v \in Workers
    BY <1>1, <2>1, <2>3 DEF Workers, WorkerPCs
  <2> HIDE DEF v
  <2>5. SavedWith(h, seq) \in [Hooks -> SUBSET (1..MaxLog)]
    BY <1>1, <2>1 DEF SavedWith
  <2> QED BY <1>1, <2>1, <2>2, <2>4, <2>5, BackoffType DEF WorkerTypes
<1>8. CASE Checkpoint(h)
  <2> DEFINE v == [w EXCEPT !.pc = IF w.full THEN "load" ELSE "wait", !.last = w.to,
                            !.offset = w.to, !.to = 0, !.full = FALSE,
                            !.todo = {}, !.attempt = 0]
  <2>1. /\ torn' \in BOOLEAN /\ settled' = settled
        /\ \/ saved' = SavedWith(h, w.to) /\ worker' = [worker EXCEPT ![h] = v]
           \/ worker' = Backoff(h) /\ saved' = saved
    BY <1>1, <1>8 DEF Checkpoint, WriteLine, WriteFails
  <2>2. w.to \in 1..MaxLog
    <3>1. w.to \in 1..published
      BY <1>8 DEF Checkpoint, BatchInv
    <3> QED BY <3>1, TimelineFacts
  <2>3. v \in Workers
    <3>1. w \in Workers /\ w.to \in 0..MaxLog /\ 0 \in 0..MaxLog /\ 0 \in 0..MaxAttempts
      BY <1>1, <1>2, Caps
    <3> HIDE DEF w
    <3> QED BY <3>1 DEF Workers, WorkerPCs
  <2> HIDE DEF v
  <2>4. SavedWith(h, w.to) \in [Hooks -> SUBSET (1..MaxLog)]
    BY <1>1, <2>2 DEF SavedWith
  <2> QED BY <1>1, <2>1, <2>3, <2>4, BackoffType DEF WorkerTypes
<1>9. CASE Resume(h)
  <2>1. [w EXCEPT !.pc = "load", !.wake = FALSE] \in Workers
    BY <1>1 DEF Workers, WorkerPCs
  <2>2. /\ worker' = [worker EXCEPT ![h] = [w EXCEPT !.pc = "load", !.wake = FALSE]]
        /\ UNCHANGED <<saved, torn, settled>>
    BY <1>9 DEF Resume
  <2> QED BY <1>1, <2>1, <2>2 DEF WorkerTypes
<1>10. CASE Exit(h)
  <2>1. worker' = [worker EXCEPT ![h] = NoWorker] /\ UNCHANGED <<saved, torn, settled>>
    BY <1>10 DEF Exit
  <2>2. NoWorker \in Workers
    BY <1>2, SpawnedType
  <2> QED BY <1>1, <2>1, <2>2 DEF WorkerTypes
<1> QED BY <1>3, <1>4, <1>5, <1>6, <1>7, <1>8, <1>9, <1>10 DEF WorkerStep

(* The steps of the timeline. *)
LEMMA TimelineStepTypes ==
  ASSUME IInv, IInv', TypesInv,
         \/ \E r \in Runs : AppendEvent(r)
         \/ SyncBatch \/ SyncFails \/ Notify
  PROVE  TypesInv'
<1>1. UNCHANGED <<delivery, coordinator, requests, streams>>
  BY DEF AppendEvent, SyncBatch, SyncFails, Notify
<1>2. TimelineTypes' /\ up' = up
  <2>1. /\ Len(log) \in Nat /\ Len(log) <= MaxLog /\ MaxLog \in Nat
        /\ cpos \in Nat /\ cpos <= sent /\ sent \in Nat
        /\ poisoned \in BOOLEAN /\ up \in BOOLEAN /\ log \in Seq(Records)
    BY TimelineFacts DEF TypesInv, TimelineTypes
  <2>2. cpos' = cpos
    BY <1>1 DEF coordinator
  <2>3. CASE \E r \in Runs : AppendEvent(r)
    <3>1. PICK r \in Runs : AppendEvent(r)
      BY <2>3
    <3>2. /\ Len(log) < MaxLog /\ log' = Append(log, Event(r))
          /\ sent' = sent /\ poisoned' = poisoned /\ up' = up
      BY <3>1 DEF AppendEvent, CanStage
    <3>3. Len(log') = Len(log) + 1
      BY <2>1, <3>2, AppendProperties DEF Event, Records
    <3> QED BY <2>1, <2>2, <3>2, <3>3 DEF TimelineTypes
  <2>4. CASE SyncBatch \/ SyncFails
    <3>1. log' = log /\ sent' = sent /\ poisoned' \in BOOLEAN /\ up' = up
      BY <2>1, <2>4 DEF SyncBatch, SyncFails
    <3> QED BY <2>1, <2>2, <3>1 DEF TimelineTypes
  <2>5. CASE Notify
    <3>1. log' = log /\ sent' = sent + 1 /\ poisoned' = poisoned /\ up' = up
      BY <2>5 DEF Notify
    <3> QED BY <2>1, <2>2, <3>1 DEF TimelineTypes
  <2> QED BY <2>3, <2>4, <2>5
<1>3. /\ CoordinatorTypes' /\ WorkerTypes' /\ RequestTypes' /\ ChannelTypes' /\ Stopped'
  BY <1>1, <1>2 DEF TypesInv, CoordinatorTypes, Present, WorkerTypes, RequestTypes, ChannelTypes,
     Stopped, delivery, coordinator, requests, streams
<1> QED BY <1>2, <1>3 DEF TypesInv

(* The workers touch only their own state. *)
LEMMA WorkerStepTypesInv ==
  ASSUME IInv, TypesInv, NEW h \in Hooks, BatchInv(h), WorkerStep(h)
  PROVE  TypesInv'
<1>1. UNCHANGED <<timeline, coordinator, requests, streams>>
  BY DEF WorkerStep, Load, PostOk, PostRetried, PostGivenUp, RecordOutcome,
         Checkpoint, Resume, Exit
<1>2. WorkerTypes'
  BY WorkerStepTypes
<1>3. /\ TimelineTypes' /\ CoordinatorTypes' /\ RequestTypes' /\ ChannelTypes' /\ Stopped'
  BY <1>1 DEF TypesInv, TimelineTypes, CoordinatorTypes, Present, RequestTypes, ChannelTypes,
     Stopped, timeline, coordinator, requests, streams
<1> QED BY <1>2, <1>3 DEF TypesInv

(* The streams touch only theirs. *)
LEMMA StreamStepTypes ==
  ASSUME IInv, TypesInv, NEW s \in Streams,
         Connect(s) \/ ProducerStep(s) \/ ClientReads(s) \/ ClientLeaves(s)
  PROVE  TypesInv'
<1>1. UNCHANGED <<timeline, delivery, coordinator, requests>>
  BY DEF Connect, ProducerStep, Replay, BatchRecord, Push, Receive, ClientReads, ClientLeaves,
         StreamStep
<1>2. \A t \in Streams : t # s => stream'[t] = stream[t]
  BY DEF Connect, ProducerStep, Replay, BatchRecord, Push, Receive, ClientReads, ClientLeaves,
         Goes, IInv, StreamTypes
<1>3. /\ stream \in [Streams -> Connections] /\ stream[s].out \in Seq(Nat)
      /\ Len(stream[s].out) \in Nat /\ Len(stream[s].out) <= OutCap /\ OutCap \in Nat
  <2>1. stream \in [Streams -> Connections] /\ stream[s].out \in Seq(Nat)
    BY DEF IInv, StreamTypes, Connections
  <2> QED BY <2>1, LenProperties, Caps DEF TypesInv, ChannelTypes
<1>4. Len(stream'[s].out) <= OutCap
  <2> DEFINE q == stream[s].out
  <2>1. CASE stream'[s].out = q
    BY <1>3, <2>1
  <2>2. CASE Push(s)
    <3>1. stream'[s].out = Append(q, stream[s].cursor) /\ Len(q) < OutCap
      BY <1>3, <2>2 DEF Push, HasRoom
    <3>2. stream[s].cursor \in Nat
      BY <1>3 DEF Connections
    <3>3. Len(Append(q, stream[s].cursor)) = Len(q) + 1
      BY <1>3, <3>2, AppendProperties
    <3> QED BY <1>3, <3>1, <3>3
  <2>3. CASE ClientReads(s)
    <3>1. stream'[s].out = Tail(q) /\ q # <<>>
      BY <1>3, <2>3 DEF ClientReads
    <3>2. Len(Tail(q)) = Len(q) - 1
      BY <1>3, <3>1, HeadTailProperties
    <3> QED BY <1>3, <3>1, <3>2
  <2>4. CASE Connect(s) \/ ClientLeaves(s)
    <3>1. stream'[s].out = <<>>
      <4>1. NoStream.out = <<>>
        BY DEF NoStream
      <4>2. CASE ClientLeaves(s)
        <5>1. stream'[s] = NoStream
          BY <1>3, <4>2 DEF ClientLeaves
        <5> QED BY <4>1, <5>1
      <4>3. CASE Connect(s)
        <5> DEFINE c == [NoStream EXCEPT !.pc = "replay", !.cursor = LastReceived(s), !.pos = sent]
        <5>1. stream' = [stream EXCEPT ![s] = c]
          BY <4>3 DEF Connect
        <5>2. c.out = <<>>
          BY DEF NoStream
        <5> HIDE DEF c
        <5> QED BY <1>3, <5>1, <5>2
      <4> QED BY <2>4, <4>2, <4>3
    <3>2. Len(<<>>) = 0
      OBVIOUS
    <3> QED BY <1>3, <3>1, <3>2
  <2>5. CASE Replay(s) \/ BatchRecord(s) \/ Receive(s)
    <3>1. stream'[s].out = q
      <4> DEFINE c == stream[s]
      <4>4. c = [pc |-> c.pc, cursor |-> c.cursor, pos |-> c.pos, to |-> c.to,
                 full |-> c.full, out |-> q]
        BY <1>3 DEF Connections
      <4>1. CASE Replay(s)
        <5> DEFINE to == Sooner(published, c.cursor + ReplayBatch)
                   full == to - c.cursor = ReplayBatch
                   read == [c EXCEPT !.pc = "batch", !.to = to, !.full = full]
                   done == [c EXCEPT !.pc = "recv"]
        <5>1. \/ stream' = [stream EXCEPT ![s] = read]
              \/ stream' = [stream EXCEPT ![s] = done]
          BY <4>1 DEF Replay, Goes
        <5> HIDE DEF to, full
        <5>2. read.out = q /\ done.out = q
          BY <4>4
        <5> HIDE DEF read, done
        <5> QED BY <1>3, <5>1, <5>2
      <4>2. CASE BatchRecord(s)
        <5> DEFINE to(l) == [c EXCEPT !.pc = l]
                   next(l) == [c EXCEPT !.cursor = c.cursor + 1, !.pc = l]
        <5>1. \E l \in StreamPCs : \/ stream' = [stream EXCEPT ![s] = to(l)]
                                   \/ stream' = [stream EXCEPT ![s] = next(l)]
          BY <4>2 DEF BatchRecord, Goes, StreamPCs
        <5>2. \A l \in StreamPCs : to(l).out = q /\ next(l).out = q
          BY <4>4
        <5> HIDE DEF to, next
        <5> QED BY <1>3, <5>1, <5>2
      <4>3. CASE Receive(s)
        <5> DEFINE seq == stream[s].pos + 1
        <5> DEFINE st == stream[s]
                   lag == [st EXCEPT !.pos = sent - RingCap, !.pc = "replay"]
                   old == [st EXCEPT !.pos = seq]
                   new(l) == [st EXCEPT !.pos = seq, !.cursor = seq, !.pc = l]
        <5>1. st = [pc |-> st.pc, cursor |-> st.cursor, pos |-> st.pos, to |-> st.to,
                    full |-> st.full, out |-> q]
          BY <1>3 DEF Connections
        <5>2. \/ stream' = [stream EXCEPT ![s] = lag]
              \/ stream' = [stream EXCEPT ![s] = old]
              \/ stream' = [stream EXCEPT ![s] = new("pushLive")]
              \/ stream' = [stream EXCEPT ![s] = new("recv")]
          BY <4>3 DEF Receive
        <5>3. lag.out = q /\ old.out = q /\ new("pushLive").out = q /\ new("recv").out = q
          BY <5>1
        <5> HIDE DEF lag, old, new
        <5> QED BY <1>3, <5>2, <5>3
      <4> QED BY <2>5, <4>1, <4>2, <4>3
    <3> QED BY <2>1, <3>1
  <2> QED BY <2>2, <2>3, <2>4, <2>5 DEF ProducerStep
<1>5. ChannelTypes'
  <2>1. \A t \in Streams : Len(stream[t].out) <= OutCap
    BY DEF TypesInv, ChannelTypes
  <2> QED BY <1>2, <1>4, <2>1 DEF ChannelTypes
<1>6. /\ TimelineTypes' /\ CoordinatorTypes' /\ RequestTypes' /\ WorkerTypes' /\ Stopped'
  BY <1>1 DEF TypesInv, TimelineTypes, CoordinatorTypes, Present, RequestTypes, WorkerTypes,
     Stopped, timeline, coordinator, requests, delivery
<1> QED BY <1>5, <1>6 DEF TypesInv

(* The requests. *)
LEMMA RequestStepTypes ==
  ASSUME IInv, IInv', TypesInv, NEW h \in Hooks,
         \/ CreateReserve(h) \/ DeleteList(h) \/ StageBookkeeping(h)
         \/ AppendRefused(h) \/ AppendAnswered(h) \/ Disconnect(h)
  PROVE  TypesInv'
<1>1. /\ UNCHANGED <<delivery, streams, cpos, hooks, regseq, sent, published, poisoned, up>> /\ up
  BY DEF CreateReserve, DeleteList, StageBookkeeping, AppendRefused, AppendAnswered, Disconnect,
         timeline, coordinator, CanStage, Refused
<1>2. /\ create \in [Hooks -> Requests] /\ delete \in [Hooks -> Requests]
      /\ commands \in Seq(Commands) /\ Len(log) \in Nat /\ Len(log) <= MaxLog
      /\ log \in Seq(Records) /\ MaxLog \in Nat /\ 0 \in 0..MaxLog
  BY TimelineFacts, Caps DEF TypesInv, RequestTypes, CoordinatorTypes
<1>3. \A l \in RequestPCs : /\ Goto(create, h, l) \in [Hooks -> Requests]
                            /\ Goto(delete, h, l) \in [Hooks -> Requests]
  BY <1>2, GotoFacts
<1>4. /\ \A o \in {"reserve", "activate", "remove"}, n \in 0..MaxLog : Command(o, h, n) \in Commands
      /\ \A c \in Commands : Append(commands, c) \in Seq(Commands)
  BY <1>2, AppendProperties DEF Command, Commands
<1>5. create[h].seq \in 0..MaxLog
  BY <1>2 DEF Requests
<1>6. /\ RequestTypes' /\ commands' \in Seq(Commands) /\ Len(log') <= MaxLog
  <2>1. CASE CreateReserve(h)
    <3>1. /\ create' = Goto(create, h, "reserve") /\ delete' = delete /\ log' = log
          /\ commands' = Append(commands, Command("reserve", h, 0))
      BY <2>1 DEF CreateReserve, timeline
    <3>2. create' \in [Hooks -> Requests]
      BY <1>3, <3>1 DEF RequestPCs
    <3>3. commands' \in Seq(Commands)
      BY <1>2, <1>4, <3>1
    <3> QED BY <1>2, <3>1, <3>2, <3>3 DEF RequestTypes
  <2>2. CASE DeleteList(h) \/ Disconnect(h)
    <3>1. /\ create' = create \/ create' = Goto(create, h, "gone")
          /\ delete' = delete \/ delete' = Goto(delete, h, "append") \/ delete' = Goto(delete, h, "gone")
          /\ commands' = commands /\ log' = log
      BY <2>2 DEF DeleteList, Disconnect, timeline, coordinator
    <3> QED BY <1>2, <1>3, <3>1 DEF RequestTypes, RequestPCs
  <2>3. CASE StageBookkeeping(h)
    <3> DEFINE v == [pc |-> "wait", seq |-> Len(log) + 1]
    <3>1. /\ Len(log) < MaxLog /\ commands' = commands
          /\ \/ create' = [create EXCEPT ![h] = v] /\ delete' = delete
                /\ log' = Append(log, Bookkeeping("webhook_registered", h))
             \/ delete' = [delete EXCEPT ![h] = v] /\ create' = create
                /\ log' = Append(log, Bookkeeping("webhook_deleted", h))
      BY <2>3 DEF StageBookkeeping, CanStage, coordinator
    <3>2. Len(log') = Len(log) + 1
      <4>1. /\ Bookkeeping("webhook_registered", h) \in Records
            /\ Bookkeeping("webhook_deleted", h) \in Records
        BY DEF Bookkeeping, Records
      <4> QED BY <1>2, <3>1, <4>1, AppendProperties
    <3>3. v \in Requests
      <4>1. Len(log) + 1 \in 0..MaxLog
        BY <1>2, <3>1
      <4> QED BY <4>1 DEF Requests, RequestPCs
    <3> HIDE DEF v
    <3>4. RequestTypes'
      BY <1>2, <3>1, <3>3 DEF RequestTypes
    <3>5. Len(log') <= MaxLog
      BY <1>2, <3>1, <3>2
    <3> QED BY <1>2, <3>1, <3>4, <3>5
  <2>4. CASE AppendRefused(h)
    <3>1. /\ create' = create \/ create' = Goto(create, h, "failed")
          /\ delete' = delete \/ delete' = Goto(delete, h, "failed")
          /\ commands' = commands \/ commands' = Append(commands, Command("remove", h, 0))
          /\ log' = log
      BY <2>4 DEF AppendRefused, timeline
    <3>2. commands' \in Seq(Commands)
      BY <1>2, <1>4, <3>1
    <3> QED BY <1>2, <1>3, <3>1, <3>2 DEF RequestTypes, RequestPCs
  <2>5. CASE AppendAnswered(h)
    <3>1. /\ create' = create \/ create' = Goto(create, h, "activate")
          /\ delete' = delete \/ delete' = Goto(delete, h, "done")
          /\ \/ commands' = Append(commands, Command("activate", h, create[h].seq))
             \/ commands' = Append(commands, Command("remove", h, 0))
          /\ log' = log
      BY <2>5 DEF AppendAnswered, timeline
    <3>2. commands' \in Seq(Commands)
      BY <1>2, <1>4, <1>5, <3>1
    <3> QED BY <1>2, <1>3, <3>1, <3>2 DEF RequestTypes, RequestPCs
  <2> QED BY <2>1, <2>2, <2>3, <2>4, <2>5
<1>7. TimelineTypes' /\ CoordinatorTypes' /\ WorkerTypes' /\ ChannelTypes' /\ Stopped'
  BY <1>1, <1>6 DEF TypesInv, TimelineTypes, CoordinatorTypes, Present, WorkerTypes, ChannelTypes,
     Stopped, delivery, streams
<1> QED BY <1>6, <1>7 DEF TypesInv

(* A registration is in the log, and there are as many at most as records. *)
LEMMA ConfiguredFacts ==
  ASSUME IInv, TypesInv, NEW n \in 0..Len(log)
  PROVE  /\ IsFiniteSet(Configured(n)) /\ Cardinality(Configured(n)) \in Nat
         /\ \A h \in Configured(n) : h \in Hooks /\ \E i \in Registered(h) : i <= n
<1> DEFINE found == {log[i].hook : i \in 1..n}
<1>1. Len(log) \in Nat /\ n \in Nat
  BY TimelineFacts
<1>2. IsFiniteSet(1..n)
  BY <1>1, FS_Interval
<1>3. IsFiniteSet(found)
  <2> DEFINE f == [i \in 1..n |-> log[i].hook]
  <2>1. f \in Surjection(1..n, found)
    BY Zenon DEF Surjection
  <2> HIDE DEF f, found
  <2> QED BY <1>2, <2>1, FS_Surjection
<1>4. \A h \in Configured(n) : h \in Hooks /\ \E i \in 1..n : log[i] = Bookkeeping("webhook_registered", h)
  BY Zenon DEF Configured
<1>5. \A h : Bookkeeping("webhook_registered", h).hook = h
  BY DEF Bookkeeping
<1>6. Configured(n) \subseteq found
  BY <1>4, <1>5
<1>7. IsFiniteSet(Configured(n)) /\ Cardinality(Configured(n)) \in Nat
  BY <1>3, <1>6, FS_Subset, FS_CardinalityType
<1>8. \A h \in Configured(n) : \E i \in Registered(h) : i <= n
  BY <1>1, <1>4 DEF Registered, Places
<1> QED BY <1>4, <1>7, <1>8

(* Nothing of the coordinator and of the requests survives a crash. *)
LEMMA CrashTypes == ASSUME IInv, IInv', TypesInv, Crash PROVE TypesInv'
<1>1. /\ log \in Seq(Records) /\ Len(log) \in Nat /\ published \in Nat /\ Len(log) <= MaxLog
      /\ sent \in Nat /\ MaxLog \in Nat /\ MaxHooks \in Nat /\ 0 \in 0..MaxLog
      /\ create \in [Hooks -> Requests] /\ delete \in [Hooks -> Requests]
      /\ saved \in [Hooks -> SUBSET (1..MaxLog)]
  BY TimelineFacts, Caps DEF TypesInv, RequestTypes, WorkerTypes
<1>2. /\ up' = FALSE /\ commands' = <<>>
      /\ hooks' = [h \in Hooks |-> "absent"] /\ worker' = [h \in Hooks |-> NoWorker]
      /\ stream' = [s \in Streams |-> NoStream]
      /\ torn' \in {torn, TRUE}
      /\ UNCHANGED <<published, sent, poisoned, cpos, regseq, settled>>
  BY DEF Crash
<1>3. TimelineTypes'
  <2>1. PICK k \in published..Len(log) : log' = SubSeq(log, 1, k)
    BY DEF Crash
  <2>2. k \in Nat /\ k <= Len(log)
    BY <1>1
  <2>3. Len(log') = k
    BY <1>1, <2>1, <2>2, SubSeqProperties
  <2>4. Len(log') <= MaxLog
    BY <1>1, <2>2, <2>3
  <2>5. poisoned' \in BOOLEAN /\ cpos' \in 0..sent'
    BY <1>2 DEF TypesInv, TimelineTypes
  <2> QED BY <1>2, <2>4, <2>5 DEF TimelineTypes
<1>4. CoordinatorTypes'
  <2>1. Present' = {}
    BY <1>2 DEF Present
  <2>2. commands' \in Seq(Commands)
    BY <1>2, EmptySeq
  <2> QED BY <1>1, <1>2, <2>1, <2>2, FS_EmptySet DEF TypesInv, CoordinatorTypes
<1>5. WorkerTypes'
  <2>1. PICK keep \in [Hooks -> 0..MaxLog] :
          saved' = [h \in Hooks |-> {v \in saved[h] : v <= keep[h]}]
    BY DEF Crash
  <2>2. saved' \in [Hooks -> SUBSET (1..MaxLog)]
    BY <1>1, <2>1
  <2>3. worker' \in [Hooks -> Workers]
    <3>1. NoWorker \in Workers
      BY <1>1, SpawnedType
    <3> QED BY <1>2, <3>1
  <2> QED BY <1>2, <2>2, <2>3 DEF TypesInv, WorkerTypes
<1>6. ASSUME NEW r \in [Hooks -> Requests]
      PROVE  LET q == [h \in Hooks |-> IF InProgress(r[h]) THEN [r[h] EXCEPT !.pc = "failed"] ELSE r[h]]
             IN  /\ q \in [Hooks -> Requests]
                 /\ \A h \in Hooks : ~InProgress(q[h])
  <2> SUFFICES ASSUME NEW h \in Hooks
               PROVE  LET v == IF InProgress(r[h]) THEN [r[h] EXCEPT !.pc = "failed"] ELSE r[h]
                      IN  v \in Requests /\ ~InProgress(v)
    OBVIOUS
  <2>1. r[h] \in Requests
    OBVIOUS
  <2>2. [r[h] EXCEPT !.pc = "failed"] \in Requests /\ [r[h] EXCEPT !.pc = "failed"].pc = "failed"
    BY <2>1 DEF Requests, RequestPCs
  <2> QED BY <2>1, <2>2 DEF InProgress
<1>7. RequestTypes' /\ \A h \in Hooks : ~InProgress(create'[h]) /\ ~InProgress(delete'[h])
  BY <1>1, <1>6 DEF Crash, RequestTypes
<1>8. ChannelTypes'
  <2>1. Len(NoStream.out) = 0
    BY DEF NoStream
  <2> QED BY <1>2, <2>1, Caps DEF ChannelTypes
<1>9. Stopped'
  BY <1>2, <1>7 DEF Stopped
<1> QED BY <1>3, <1>4, <1>5, <1>7, <1>8, <1>9 DEF TypesInv

(* At most MAX_WEBHOOKS hooks come back, each with a sequence of the log. *)
LEMMA RestartTypes == ASSUME IInv, IInv', TypesInv, Restart PROVE TypesInv'
<1>1. /\ Len(log) \in 0..MaxLog /\ MaxLog \in Nat /\ MaxHooks \in Nat
      /\ saved \in [Hooks -> SUBSET (1..MaxLog)] /\ regseq \in [Hooks -> 0..MaxLog]
      /\ 0 \in 0..MaxLog /\ DOMAIN log = 1..Len(log) /\ Len(log) \in Nat
      /\ Len(log) \in 0..Len(log)
  BY TimelineFacts, Caps DEF TypesInv, WorkerTypes, CoordinatorTypes
<1>2. /\ up' = TRUE /\ cpos' = Len(log) /\ sent' = Len(log) /\ poisoned' = FALSE
      /\ UNCHANGED <<log, commands, saved, torn, settled, requests, streams>>
  BY DEF Restart
<1> DEFINE conf == Configured(Len(log))
<1>3. PICK chosen \in SUBSET conf :
        /\ Cardinality(chosen) = Sooner(MaxHooks, Cardinality(conf))
        /\ hooks' = [h \in Hooks |-> IF h \in chosen THEN "active" ELSE "absent"]
        /\ regseq' = [h \in Hooks |-> IF h \in chosen THEN RegisteredSeq(h) ELSE regseq[h]]
        /\ worker' = [h \in Hooks |-> IF h \in chosen
                                      THEN Spawned(Restored(h, saved)) ELSE NoWorker]
  BY DEF Restart
<1>4. /\ IsFiniteSet(conf) /\ Cardinality(conf) \in Nat
      /\ \A h \in conf : h \in Hooks /\ \E i \in Registered(h) : i <= Len(log)
  BY <1>1, ConfiguredFacts
<1> HIDE DEF conf
<1>5. TimelineTypes'
  BY <1>1, <1>2 DEF TypesInv, TimelineTypes
<1>6. CoordinatorTypes'
  <2>1. Present' = chosen
    BY <1>3, <1>4 DEF Present
  <2>2. IsFiniteSet(chosen)
    BY <1>4, FS_Subset
  <2>3. Cardinality(chosen) <= MaxHooks
    BY <1>1, <1>3, <1>4 DEF Sooner
  <2>4. \A h \in chosen : RegisteredSeq(h) \in 0..MaxLog
    <3> TAKE h \in chosen
    <3> DEFINE S == {i \in DOMAIN log : log[i] = Bookkeeping("webhook_registered", h)}
    <3>1. S \in SUBSET (0..MaxLog)
      BY <1>1
    <3>2. S # {}
      BY <1>1, <1>4 DEF Registered, Places
    <3> HIDE DEF S
    <3>3. Greatest(S) \in S
      BY <1>1, <3>1, <3>2, GreatestFacts
    <3> QED BY <3>1, <3>3 DEF RegisteredSeq, S
  <2> QED BY <1>1, <1>2, <1>3, <2>1, <2>2, <2>3, <2>4 DEF TypesInv, CoordinatorTypes
<1>7. WorkerTypes'
  <2>1. \A h \in Hooks : Restored(h, saved) \in 0..MaxLog
    <3> TAKE h \in Hooks
    <3>1. saved[h] \in SUBSET (0..MaxLog)
      BY <1>1
    <3>2. saved[h] # {} => Greatest(saved[h]) \in 0..MaxLog
      BY <1>1, <3>1, GreatestFacts
    <3> QED BY <1>1, <3>2 DEF Restored
  <2>2. \A h \in Hooks : Spawned(Restored(h, saved)) \in Workers /\ NoWorker \in Workers
    BY <1>1, <2>1, SpawnedType
  <2>3. worker' \in [Hooks -> Workers]
    BY <1>3, <2>2
  <2> QED BY <1>2, <2>3 DEF TypesInv, WorkerTypes
<1>8. RequestTypes' /\ ChannelTypes' /\ Stopped'
  BY <1>2 DEF TypesInv, RequestTypes, ChannelTypes, Stopped, requests, streams
<1> QED BY <1>5, <1>6, <1>7, <1>8 DEF TypesInv

(* A command puts at most one hook in a place that was free. *)
LEMMA CommandTypes == ASSUME IInv, IInv', TypesInv, HandleCommand PROVE TypesInv'
<1> DEFINE c == Head(commands)
           h == c.hook
<1>1. /\ UNCHANGED <<timeline, cpos, saved, torn, settled, delete, streams>>
      /\ up /\ commands # <<>> /\ commands' = Tail(commands)
  BY DEF HandleCommand
<1>2. /\ commands \in Seq(Commands) /\ hooks \in [Hooks -> {"absent", "pending", "active"}]
      /\ IsFiniteSet(Present) /\ Cardinality(Present) <= MaxHooks
      /\ regseq \in [Hooks -> 0..MaxLog]
      /\ create \in [Hooks -> Requests] /\ worker \in [Hooks -> Workers]
  BY DEF TypesInv, CoordinatorTypes, RequestTypes, WorkerTypes
<1>3. /\ commands' \in Seq(Commands) /\ c \in Commands
      /\ h \in Hooks /\ c.seq \in 0..MaxLog
  <2>1. commands' \in Seq(Commands) /\ c \in Commands
    BY <1>1, <1>2, TakeFacts
  <2> QED BY <2>1 DEF Commands
<1>4. Cardinality(Present) \in Nat /\ MaxHooks \in Nat
  BY <1>2, Caps, FS_CardinalityType
<1>5. \A l, m \in RequestPCs : Reply(h, l, m) \in [Hooks -> Requests]
  BY <1>2, <1>3, GotoFacts DEF Reply
<1>6. \A n \in 0..MaxLog : Spawned(n) \in Workers
  BY SpawnedType
<1> HIDE DEF c, h
<1>7. CASE HandleReserve
  <2>1. /\ UNCHANGED <<regseq, worker>>
        /\ create' = Reply(h, "reserve", "append") \/ create' = Reply(h, "reserve", "failed")
        /\ \/ hooks' = hooks
           \/ hooks' = [hooks EXCEPT ![h] = "pending"] /\ Cardinality(Present) < MaxHooks
    BY <1>7 DEF HandleReserve, Present, h, c
  <2>2. create' \in [Hooks -> Requests]
    BY <1>5, <2>1 DEF RequestPCs
  <2>3. hooks' \in [Hooks -> {"absent", "pending", "active"}]
    BY <1>2, <2>1
  <2>4. IsFiniteSet(Present') /\ Cardinality(Present') <= MaxHooks
    <3>1. CASE hooks' = hooks
      <4>1. Present' = Present
        BY <3>1 DEF Present
      <4> QED BY <1>2, <4>1
    <3>2. CASE hooks' = [hooks EXCEPT ![h] = "pending"] /\ Cardinality(Present) < MaxHooks
      <4>1. Present' = Present \cup {h}
        BY <1>2, <1>3, <3>2 DEF Present
      <4>2. IsFiniteSet(Present \cup {h}) /\ Cardinality(Present \cup {h}) <= Cardinality(Present) + 1
        <5> DEFINE P == Present
        <5>1. IsFiniteSet(P) /\ Cardinality(P) \in Nat
          BY <1>2, <1>4
        <5> HIDE DEF P
        <5>2. /\ IsFiniteSet(P \cup {h})
              /\ Cardinality(P \cup {h}) = IF h \in P THEN Cardinality(P) ELSE Cardinality(P) + 1
          BY <5>1, FS_AddElement
        <5> QED BY <5>1, <5>2 DEF P
      <4>3. Cardinality(Present \cup {h}) \in Nat
        BY <4>2, FS_CardinalityType
      <4> QED BY <1>4, <3>2, <4>1, <4>2, <4>3
    <3> QED BY <2>1, <3>1, <3>2
  <2> QED BY <1>1, <1>2, <1>3, <2>1, <2>2, <2>3, <2>4
          DEF TypesInv, TimelineTypes, CoordinatorTypes, WorkerTypes, RequestTypes, ChannelTypes,
              Stopped, timeline, streams
<1>8. CASE HandleActivate
  <2>1. /\ hooks' = [hooks EXCEPT ![h] = IF hooks[h] = "pending" THEN "active" ELSE hooks[h]]
        /\ regseq' = regseq \/ regseq' = [regseq EXCEPT ![h] = c.seq]
        /\ worker' = worker \/ worker' = [worker EXCEPT ![h] = Spawned(c.seq)]
        /\ create' = Reply(h, "activate", "done") \/ create' = Reply(h, "activate", "failed")
    BY <1>8 DEF HandleActivate, h, c
  <2>2. create' \in [Hooks -> Requests]
    BY <1>5, <2>1 DEF RequestPCs
  <2>3. hooks' \in [Hooks -> {"absent", "pending", "active"}] /\ Present' = Present
    BY <1>2, <1>3, <2>1 DEF Present
  <2>4. regseq' \in [Hooks -> 0..MaxLog] /\ worker' \in [Hooks -> Workers]
    BY <1>2, <1>3, <1>6, <2>1
  <2> QED BY <1>1, <1>2, <1>3, <2>2, <2>3, <2>4
          DEF TypesInv, TimelineTypes, CoordinatorTypes, WorkerTypes, RequestTypes, ChannelTypes,
              Stopped, timeline, streams
<1>9. CASE HandleRemove
  <2>1. hooks' = [hooks EXCEPT ![h] = "absent"] /\ UNCHANGED <<regseq, worker, create>>
    BY <1>9 DEF HandleRemove, h, c
  <2>2. hooks' \in [Hooks -> {"absent", "pending", "active"}] /\ Present' \in SUBSET Present
    BY <1>2, <1>3, <2>1 DEF Present
  <2>3. IsFiniteSet(Present') /\ Cardinality(Present') <= Cardinality(Present)
    BY <1>2, <2>2, FS_Subset
  <2>4. Cardinality(Present') <= MaxHooks
    <3>1. Cardinality(Present') \in Nat
      BY <2>3, FS_CardinalityType
    <3> QED BY <1>2, <1>4, <2>3, <3>1
  <2> QED BY <1>1, <1>2, <1>3, <2>1, <2>2, <2>3, <2>4
          DEF TypesInv, TimelineTypes, CoordinatorTypes, WorkerTypes, RequestTypes, ChannelTypes,
              Stopped, timeline, streams
<1> QED BY <1>7, <1>8, <1>9 DEF HandleCommand

(* A notification moves the coordinator's position and wakes workers. *)
LEMMA NotificationTypes == ASSUME IInv, IInv', TypesInv, HandleNotification PROVE TypesInv'
<1>1. /\ UNCHANGED <<timeline, commands, hooks, regseq, saved, torn, settled, requests, streams>>
      /\ up /\ cpos < sent
      /\ cpos' = IF sent - cpos > RingCap THEN sent - RingCap ELSE cpos + 1
      /\ \E S : worker' = WakeHooks(S)
  BY DEF HandleNotification
<1>2. worker \in [Hooks -> Workers] /\ sent \in Nat /\ cpos \in Nat /\ RingCap \in Nat
  BY TimelineFacts, Caps DEF TypesInv, WorkerTypes
<1>3. cpos' \in 0..sent
  BY <1>1, <1>2
<1>4. worker' \in [Hooks -> Workers]
  <2>1. ASSUME NEW h \in Hooks PROVE [worker[h] EXCEPT !.wake = TRUE] \in Workers
    <3>1. worker[h] \in Workers
      BY <1>2
    <3> QED BY <3>1 DEF Workers
  <2> QED BY <1>1, <1>2, <2>1 DEF WakeHooks
<1>5. TimelineTypes'
  BY <1>1, <1>3 DEF TypesInv, TimelineTypes, timeline
<1> QED BY <1>1, <1>4, <1>5
        DEF TypesInv, CoordinatorTypes, Present, WorkerTypes, RequestTypes, ChannelTypes,
            Stopped, requests, streams, timeline

---------------------------------------------------------------------------
(* Records *)

BookkeepingKinds == {"webhook_registered", "webhook_deleted"}

(* A record is of one kind, about one hook. *)
LEMMA BookkeepingFacts ==
  /\ \A k \in BookkeepingKinds, h \in Hooks : Bookkeeping(k, h) \in Records
  /\ \A k, l, g, h : Bookkeeping(k, g) = Bookkeeping(l, h) => k = l /\ g = h
  /\ \A r \in Runs : Event(r) \in Records
  /\ \A r, k, h : h \in Hooks => Event(r) # Bookkeeping(k, h)
<1>1. \A k \in BookkeepingKinds, h \in Hooks : Bookkeeping(k, h) \in Records
  BY DEF BookkeepingKinds, Bookkeeping, Records
<1>2. \A k, h : Bookkeeping(k, h).kind = k /\ Bookkeeping(k, h).hook = h
  BY DEF Bookkeeping
<1>3. \A r \in Runs : Event(r) \in Records
  BY DEF Event, Records
<1>4. \A r : Event(r).hook = "none"
  BY Zenon DEF Event
<1>5. \A k, l, g, h : Bookkeeping(k, g) = Bookkeeping(l, h) => k = l /\ g = h
  BY <1>2
<1>6. \A r, k, h : h \in Hooks => Event(r) # Bookkeeping(k, h)
  <2> SUFFICES ASSUME NEW r, NEW k, NEW h \in Hooks, Event(r) = Bookkeeping(k, h) PROVE FALSE
    OBVIOUS
  <2>1. Bookkeeping(k, h).hook = h /\ Event(r).hook = "none"
    BY <1>2, <1>4, Zenon
  <2>2. h = "none"
    BY <2>1
  <2> QED BY <2>2, HooksAssumption
<1> QED BY <1>1, <1>3, <1>5, <1>6

(* An appended record takes the next place. *)
LEMMA AppendedPlaces ==
  ASSUME IInv, TypesInv, NEW r \in Records, log' = Append(log, r)
  PROVE  /\ Len(log') = Len(log) + 1 /\ \A i \in 1..Len(log) : log'[i] = log[i]
         /\ \A k, h : Places(k, h)' = IF r = Bookkeeping(k, h) THEN Places(k, h) \cup {Len(log) + 1}
                                      ELSE Places(k, h)
<1>1. log \in Seq(Records) /\ Len(log) \in Nat
  BY TimelineFacts
<1>2. /\ Len(log') = Len(log) + 1 /\ log'[Len(log) + 1] = r
      /\ \A i \in 1..Len(log) : log'[i] = log[i]
  BY <1>1, AppendProperties
<1>3. ASSUME NEW k, NEW h
      PROVE  Places(k, h)' = IF r = Bookkeeping(k, h) THEN Places(k, h) \cup {Len(log) + 1}
                             ELSE Places(k, h)
  <2> DEFINE b == Bookkeeping(k, h)
             n == Len(log)
  <2>1. Places(k, h)' = {i \in 1..n + 1 : log'[i] = b}
    BY <1>2 DEF Places
  <2>2. Places(k, h) = {i \in 1..n : log'[i] = b}
    BY <1>2 DEF Places
  <2>3. 1..n + 1 = (1..n) \cup {n + 1}
    BY <1>1
  <2> HIDE DEF b
  <2> QED BY <1>2, <2>1, <2>2, <2>3 DEF b
<1> QED BY <1>2, <1>3

(* A crash cuts the file behind its published part. *)
LEMMA CutPlaces ==
  ASSUME IInv, TypesInv, Crash
  PROVE  \E n \in published..Len(log) :
           /\ Len(log') = n /\ \A i \in 1..n : log'[i] = log[i]
           /\ \A k, h : Places(k, h)' = Places(k, h) \cap (1..n)
<1>1. log \in Seq(Records) /\ Len(log) \in Nat /\ published \in Nat
  BY TimelineFacts
<1>2. PICK n \in published..Len(log) : log' = SubSeq(log, 1, n)
  BY DEF Crash
<1>3. n \in Nat /\ n <= Len(log)
  BY <1>1
<1>4. Len(log') = n /\ \A i \in 1..n : log'[i] = log[i]
  BY <1>1, <1>2, <1>3, SubSeqProperties
<1>5. ASSUME NEW k, NEW h PROVE Places(k, h)' = Places(k, h) \cap (1..n)
  <2> DEFINE b == Bookkeeping(k, h)
  <2>1. Places(k, h)' = {i \in 1..n : log[i] = b}
    BY <1>4 DEF Places
  <2>2. \A i \in 1..n : i \in 1..Len(log)
    BY <1>1, <1>3
  <2> QED BY <2>1, <2>2 DEF Places
<1> QED BY <1>4, <1>5

(* Published records stay where they are. *)
LEMMA StepGrows == ASSUME IInv, TypesInv, [Next]_vars PROVE Grows
<1>1. /\ log \in Seq(Records) /\ Len(log) \in Nat /\ published \in Nat /\ sent \in Nat
      /\ sent <= published /\ published <= Len(log)
  BY TimelineFacts
<1>2. ASSUME NEW r \in Records, log' = Append(log, r), UNCHANGED <<published, sent>>
      PROVE  Grows
  <2>1. \A i \in 1..Len(log) : log'[i] = log[i]
    BY <1>2, AppendedPlaces
  <2> QED BY <1>1, <1>2, <2>1 DEF Grows
<1>3. ASSUME UNCHANGED log, published' = published \/ published' = Len(log),
             sent' = sent \/ sent' = sent + 1 \/ sent' = Len(log)
      PROVE  Grows
  BY <1>1, <1>3 DEF Grows
<1>4. CASE \E r \in Runs : AppendEvent(r)
  <2>1. \E r \in Records : log' = Append(log, r) /\ UNCHANGED <<published, sent>>
    BY <1>4, BookkeepingFacts DEF AppendEvent
  <2> QED BY <1>2, <2>1
<1>5. CASE \E h \in Hooks : StageBookkeeping(h)
  <2>1. \E r \in Records : log' = Append(log, r) /\ UNCHANGED <<published, sent>>
    <3>1. PICK h \in Hooks : StageBookkeeping(h)
      BY <1>5
    <3>2. /\ Bookkeeping("webhook_registered", h) \in Records
          /\ Bookkeeping("webhook_deleted", h) \in Records
      BY BookkeepingFacts DEF BookkeepingKinds
    <3>3. /\ \/ log' = Append(log, Bookkeeping("webhook_registered", h))
             \/ log' = Append(log, Bookkeeping("webhook_deleted", h))
          /\ UNCHANGED <<published, sent>>
      BY <3>1 DEF StageBookkeeping
    <3> QED BY <3>2, <3>3
  <2> QED BY <1>2, <2>1
<1>6. CASE SyncBatch \/ SyncFails \/ Notify \/ Restart
  BY <1>3, <1>6 DEF SyncBatch, SyncFails, Notify, Restart
<1>7. CASE Crash
  <2>1. UNCHANGED <<published, sent>>
    BY <1>7 DEF Crash
  <2>2. PICK n \in published..Len(log) : \A i \in 1..n : log'[i] = log[i]
    BY <1>7, CutPlaces
  <2> QED BY <1>1, <2>1, <2>2 DEF Grows
<1>8. CASE UNCHANGED timeline
  BY <1>3, <1>8 DEF timeline
<1>9. CASE CoordinatorStep
  BY <1>8, <1>9 DEF CoordinatorStep, HandleCommand, HandleNotification
<1>10. ASSUME NEW h \in Hooks,
              \/ CreateReserve(h) \/ DeleteList(h) \/ AppendRefused(h)
              \/ AppendAnswered(h) \/ Disconnect(h) \/ WorkerStep(h)
       PROVE  Grows
  BY <1>8, <1>10 DEF CreateReserve, DeleteList, AppendRefused, AppendAnswered, Disconnect, WorkerStep,
     Load, PostOk, PostRetried, PostGivenUp, RecordOutcome, Checkpoint, Resume, Exit
<1>11. ASSUME NEW s \in Streams,
              Connect(s) \/ ProducerStep(s) \/ ClientReads(s) \/ ClientLeaves(s)
       PROVE  Grows
  BY <1>8, <1>11 DEF Connect, ProducerStep, Replay, BatchRecord, Push, Receive, ClientReads,
     ClientLeaves, StreamStep
<1>12. CASE UNCHANGED vars
  BY <1>8, <1>12 DEF vars
<1> QED BY <1>4, <1>5, <1>6, <1>7, <1>9, <1>10, <1>11, <1>12 DEF Next

---------------------------------------------------------------------------
(* A hook is registered once at most, and activated with the sequence of   *)
(* its registration.                                                       *)

RegistrationInv(h) ==
  /\ \A i, j \in Registered(h) : i = j
  /\ create[h].pc \in {"idle", "reserve", "append"} => Registered(h) = {}
  /\ create[h].pc \in {"wait", "activate"} => create[h].seq \in Registered(h)
  /\ create[h].pc = "activate" => create[h].seq <= published
  /\ \A i \in At("activate", h) : commands[i].seq \in Registered(h) /\ commands[i].seq <= published

(* Everything but the append and the answer of the registration. *)
Proceeds(h) ==
  \/ create'[h] = create[h]
  \/ create'[h].pc \in {"done", "failed", "gone"}
  \/ create[h].pc \in {"idle", "reserve"} /\ create'[h].pc \in {"reserve", "append"}

(* Steps that make no registration and activate no hook. *)
LEMMA RegistrationFrame ==
  ASSUME IInv, IInv', TypesInv, Grows, NEW h \in Hooks, RegistrationInv(h),
         Registered(h)' = Registered(h), Proceeds(h),
         \A i \in At("activate", h)' :
           \E j \in At("activate", h) : commands'[i].seq = commands[j].seq
  PROVE  RegistrationInv(h)'
<1>1. /\ published \in Nat /\ published <= published' /\ published' \in Nat
      /\ \A n \in Registered(h) : n \in Nat
  <2>1. published \in Nat /\ Len(log) \in Nat /\ published' \in Nat
    BY TimelineFacts DEF IInv, TimelineInv
  <2> QED BY <2>1 DEF Grows, Registered, Places
<1>2. \A n \in Registered(h) : n <= published => n <= published'
  BY <1>1
<1>3. \A i \in At("activate", h)' : commands'[i].seq \in Registered(h) /\ commands'[i].seq <= published'
  BY <1>2 DEF RegistrationInv
<1>4. /\ create'[h].pc \in {"idle", "reserve", "append"} => Registered(h) = {}
      /\ create'[h].pc \in {"wait", "activate"} => create'[h].seq \in Registered(h)
      /\ create'[h].pc = "activate" => create'[h].seq <= published'
  BY <1>2 DEF RegistrationInv, Proceeds
<1>5. \A i, j \in Registered(h) : i = j
  BY DEF RegistrationInv
<1> HIDE DEF Registered, At
<1> QED BY <1>3, <1>4, <1>5 DEF RegistrationInv

(* Steps that neither make a request nor take a command. *)
Bystanders ==
  \/ \E r \in Runs : AppendEvent(r)
  \/ SyncBatch \/ SyncFails \/ Notify \/ HandleNotification
  \/ \E h \in Hooks : WorkerStep(h)
  \/ \E s \in Streams : Connect(s) \/ ProducerStep(s) \/ ClientReads(s) \/ ClientLeaves(s)
  \/ UNCHANGED vars

(* They leave requests, commands and bookkeeping records alone. *)
LEMMA BystanderFacts ==
  ASSUME IInv, TypesInv, Bystanders
  PROVE  /\ UNCHANGED <<commands, hooks, create, delete, up>>
         /\ \A k \in BookkeepingKinds, h \in Hooks : Places(k, h)' = Places(k, h)
<1>1. CASE \E r \in Runs : AppendEvent(r)
  <2>1. PICK r \in Runs : AppendEvent(r)
    BY <1>1
  <2>2. UNCHANGED <<commands, hooks, create, delete, up>> /\ log' = Append(log, Event(r))
    BY <2>1 DEF AppendEvent, coordinator, requests
  <2>3. Event(r) \in Records /\ \A k, h : h \in Hooks => Event(r) # Bookkeeping(k, h)
    BY BookkeepingFacts
  <2>4. \A k, h : h \in Hooks => Places(k, h)' = Places(k, h)
    BY <2>2, <2>3, AppendedPlaces
  <2> QED BY <2>2, <2>4
<1>2. ASSUME UNCHANGED <<log, commands, hooks, create, delete, up>>
      PROVE  /\ UNCHANGED <<commands, hooks, create, delete, up>>
             /\ \A k \in BookkeepingKinds, h \in Hooks : Places(k, h)' = Places(k, h)
  BY <1>2 DEF Places
<1>3. CASE SyncBatch \/ SyncFails \/ Notify \/ HandleNotification \/ UNCHANGED vars
  BY <1>2, <1>3 DEF SyncBatch, SyncFails, Notify, HandleNotification, vars, timeline, coordinator,
     requests
<1>4. ASSUME NEW h \in Hooks, WorkerStep(h)
      PROVE UNCHANGED <<log, commands, hooks, create, delete, up>>
  BY <1>4 DEF WorkerStep, Load, PostOk, PostRetried, PostGivenUp, RecordOutcome, Checkpoint, Resume,
     Exit, timeline, coordinator, requests
<1>5. ASSUME NEW s \in Streams,
             Connect(s) \/ ProducerStep(s) \/ ClientReads(s) \/ ClientLeaves(s)
      PROVE UNCHANGED <<log, commands, hooks, create, delete, up>>
  BY <1>5 DEF Connect, ProducerStep, Replay, BatchRecord, Push, Receive, ClientReads,
     ClientLeaves, StreamStep, timeline, coordinator, requests
<1> QED BY <1>1, <1>2, <1>3, <1>4, <1>5 DEF Bystanders

(* Every step keeps the registrations. *)
LEMMA RegistrationKept ==
  ASSUME IInv, IInv', TypesInv, TypesInv', [Next]_vars,
         \A h \in Hooks : RegistrationInv(h)
  PROVE  \A h \in Hooks : RegistrationInv(h)'
<1>1. Grows
  BY StepGrows
<1>2. /\ commands \in Seq(Commands) /\ create \in [Hooks -> Requests] /\ delete \in [Hooks -> Requests]
      /\ create' \in [Hooks -> Requests] /\ Len(log) \in Nat /\ published \in Nat /\ sent \in Nat
      /\ sent <= published /\ published <= Len(log)
  BY TimelineFacts DEF TypesInv, CoordinatorTypes, RequestTypes
<1>3. ASSUME UNCHANGED <<commands, create>>, \A h \in Hooks : Registered(h)' = Registered(h)
      PROVE  \A h \in Hooks : RegistrationInv(h)'
  <2> TAKE h \in Hooks
  <2>1. Proceeds(h) /\ At("activate", h)' = At("activate", h)
    BY <1>3 DEF Proceeds, At
  <2> QED BY <1>1, <1>3, <2>1, RegistrationFrame
<1>4. CASE Bystanders
  <2>1. \A h \in Hooks : Registered(h)' = Registered(h)
    BY <1>4, BystanderFacts DEF Registered, BookkeepingKinds
  <2>2. UNCHANGED <<commands, create>>
    BY <1>4, BystanderFacts
  <2> QED BY <1>3, <2>1, <2>2
<1>5. CASE Restart
  <2>1. UNCHANGED <<commands, create, log>>
    BY <1>5 DEF Restart, requests
  <2>2. \A h \in Hooks : Registered(h)' = Registered(h)
    BY <2>1 DEF Registered, Places
  <2> QED BY <1>3, <2>1, <2>2
<1>6. CASE Crash
  <2> TAKE h \in Hooks
  <2>1. PICK n \in published..Len(log) :
          \A k, g : Places(k, g)' = Places(k, g) \cap (1..n)
    BY <1>6, CutPlaces
  <2>2. Registered(h)' = Registered(h) \cap (1..n)
    BY <2>1 DEF Registered
  <2>3. commands' = <<>>
    BY <1>6 DEF Crash
  <2>4. At("activate", h)' = {}
    BY <2>3 DEF At
  <2>5. IF InProgress(create[h]) THEN create'[h].pc = "failed" ELSE create'[h] = create[h]
    <3>1. create' = [g \in Hooks |-> IF InProgress(create[g])
                                    THEN [create[g] EXCEPT !.pc = "failed"] ELSE create[g]]
      BY <1>6 DEF Crash
    <3>2. create[h] = [pc |-> create[h].pc, seq |-> create[h].seq]
      BY <1>2 DEF Requests
    <3> QED BY <3>1, <3>2
  <2>6. RegistrationInv(h)
    OBVIOUS
  <2> HIDE DEF Registered, At
  <2> QED BY <2>2, <2>4, <2>5, <2>6 DEF RegistrationInv, InProgress
<1>7. ASSUME NEW h \in Hooks, CreateReserve(h) \/ DeleteList(h) \/ AppendRefused(h) \/ Disconnect(h)
      PROVE  \A g \in Hooks : RegistrationInv(g)'
  <2> TAKE g \in Hooks
  <2>1. /\ log' = log
        /\ \/ create' = create
           \/ create[h].pc = "idle" /\ create' = Goto(create, h, "reserve")
           \/ create' = Goto(create, h, "failed") \/ create' = Goto(create, h, "gone")
        /\ \/ commands' = commands
           \/ commands' = Append(commands, Command("reserve", h, 0))
           \/ commands' = Append(commands, Command("remove", h, 0))
    BY <1>7 DEF CreateReserve, DeleteList, AppendRefused, Disconnect, timeline, coordinator
  <2>2. Registered(g)' = Registered(g)
    BY <2>1 DEF Registered, Places
  <2>3. Proceeds(g)
    <3>1. CASE create' = create
      BY <3>1 DEF Proceeds
    <3>2. ASSUME NEW l \in RequestPCs, create' = Goto(create, h, l)
          PROVE  IF g = h THEN create'[g].pc = l ELSE create'[g] = create[g]
      BY <1>2, <3>2, GotoFacts
    <3>3. {"reserve", "failed", "gone"} \subseteq RequestPCs
      BY DEF RequestPCs
    <3> QED BY <2>1, <3>1, <3>2, <3>3 DEF Proceeds
  <2>4. \A i \in At("activate", g)' :
           \E j \in At("activate", g) : commands'[i].seq = commands[j].seq
    <3>1. CASE commands' = commands
      BY <3>1 DEF At
    <3>2. ASSUME NEW o \in {"reserve", "remove"}, commands' = Append(commands, Command(o, h, 0))
          PROVE \A i \in At("activate", g)' :
                  \E j \in At("activate", g) : commands'[i].seq = commands[j].seq
      <4>1. Command(o, h, 0) \in Commands /\ Command(o, h, 0).op # "activate"
        BY Caps DEF Command, Commands
      <4>2. /\ At("activate", g)' = At("activate", g)
            /\ \A i \in 1..Len(commands) : commands'[i] = commands[i]
        BY <1>2, <3>2, <4>1, SendFacts
      <4> QED BY <4>2 DEF At
    <3> QED BY <2>1, <3>1, <3>2
  <2> QED BY <1>1, <2>2, <2>3, <2>4, RegistrationFrame
<1>8. ASSUME NEW h \in Hooks, AppendAnswered(h)
      PROVE  \A g \in Hooks : RegistrationInv(g)'
  <2> TAKE g \in Hooks
  <2>1. UNCHANGED <<log, published>>
    BY <1>8 DEF AppendAnswered, timeline
  <2>2. Registered(g)' = Registered(g)
    BY <2>1 DEF Registered, Places
  <2>3. CASE /\ create[h].pc = "wait" /\ create[h].seq <= sent
             /\ create' = Goto(create, h, "activate")
             /\ commands' = Append(commands, Command("activate", h, create[h].seq))
    <3> DEFINE c == Command("activate", h, create[h].seq)
    <3>1. c \in Commands /\ c.op = "activate" /\ c.hook = h /\ c.seq = create[h].seq
      BY <1>2 DEF Command, Commands, Requests
    <3>2. /\ \A i \in 1..Len(commands) : commands'[i] = commands[i]
          /\ commands'[Len(commands) + 1] = c
          /\ At("activate", g)' = IF h = g THEN At("activate", g) \cup {Len(commands) + 1}
                                  ELSE At("activate", g)
      BY <1>2, <2>3, <3>1, SendFacts
    <3> HIDE DEF c
    <3>3. CASE g # h
      <4>1. \A i \in At("activate", g)' :
              \E j \in At("activate", g) : commands'[i].seq = commands[j].seq
        BY <3>2, <3>3 DEF At
      <4>2. Proceeds(g)
        BY <1>2, <2>3, <3>3, GotoFacts DEF Proceeds, RequestPCs
      <4> QED BY <1>1, <2>2, <4>1, <4>2, RegistrationFrame
    <3>4. CASE g = h
      <4>1. create'[h].pc = "activate" /\ create'[h].seq = create[h].seq
        <5>1. "activate" \in RequestPCs
          BY DEF RequestPCs
        <5>2. /\ Goto(create, h, "activate")[h].pc = "activate"
              /\ Goto(create, h, "activate")[h].seq = create[h].seq
          BY ONLY <1>2, <5>1, GotoFacts, h \in Hooks
        <5> QED BY <2>3, <5>2
      <4>2. create[h].seq \in Registered(h) /\ create[h].seq <= published
        <5>1. create[h].seq \in Registered(h)
          BY <2>3 DEF RegistrationInv
        <5>2. create[h].seq \in Nat
          BY <1>2, <5>1 DEF Registered, Places
        <5> QED BY <1>2, <2>3, <5>1, <5>2
      <4>3. \A i \in At("activate", h)' : commands'[i].seq \in Registered(h) /\ commands'[i].seq <= published
        <5> TAKE i \in At("activate", h)'
        <5>1. CASE i = Len(commands) + 1
          BY <3>1, <3>2, <4>2, <5>1
        <5>2. CASE i \in At("activate", h)
          BY <3>2, <5>2 DEF RegistrationInv, At
        <5> QED BY <3>2, <3>4, <5>1, <5>2
      <4>4. \A i, j \in Registered(h) : i = j
        BY DEF RegistrationInv
      <4> HIDE DEF Registered, At
      <4> QED BY <2>1, <2>2, <3>4, <4>1, <4>2, <4>3, <4>4 DEF RegistrationInv
    <3> QED BY <3>3, <3>4
  <2>4. CASE create' = create /\ commands' = Append(commands, Command("remove", h, 0))
    <3>1. Command("remove", h, 0) \in Commands /\ Command("remove", h, 0).op # "activate"
      BY Caps DEF Command, Commands
    <3>2. /\ At("activate", g)' = At("activate", g)
          /\ \A i \in 1..Len(commands) : commands'[i] = commands[i]
      BY <1>2, <2>4, <3>1, SendFacts
    <3>3. \A i \in At("activate", g)' :
            \E j \in At("activate", g) : commands'[i].seq = commands[j].seq
      BY <3>2 DEF At
    <3>4. Proceeds(g)
      BY <2>4 DEF Proceeds
    <3> QED BY <1>1, <2>2, <3>3, <3>4, RegistrationFrame
  <2> QED BY <1>8, <2>3, <2>4 DEF AppendAnswered
<1>9. ASSUME NEW h \in Hooks, StageBookkeeping(h)
      PROVE  \A g \in Hooks : RegistrationInv(g)'
  <2> DEFINE n == Len(log) + 1
             v == [pc |-> "wait", seq |-> n]
  <2>1. commands' = commands
    BY <1>9 DEF StageBookkeeping, coordinator
  <2>2. CASE /\ create[h].pc = "append" /\ create' = [create EXCEPT ![h] = v]
             /\ log' = Append(log, Bookkeeping("webhook_registered", h))
    <3> TAKE g \in Hooks
    <3>1. \A k, f : Places(k, f)' = IF Bookkeeping("webhook_registered", h) = Bookkeeping(k, f)
                                    THEN Places(k, f) \cup {n} ELSE Places(k, f)
      BY <2>2, AppendedPlaces, BookkeepingFacts DEF BookkeepingKinds
    <3>2. CASE g # h
      <4>1. Registered(g)' = Registered(g)
        BY <3>1, <3>2, BookkeepingFacts DEF Registered
      <4>2. Proceeds(g) /\ At("activate", g)' = At("activate", g)
        BY <1>2, <2>1, <2>2, <3>2 DEF Proceeds, At
      <4> QED BY <1>1, <2>1, <4>1, <4>2, RegistrationFrame
    <3>3. CASE g = h
      <4>1. Registered(h) = {} /\ At("activate", h) = {}
        BY <2>2 DEF RegistrationInv
      <4>2. Registered(h)' = {n}
        BY <3>1, <4>1 DEF Registered
      <4>3. At("activate", h)' = {}
        BY <2>1, <4>1 DEF At
      <4>4. create'[h].pc = "wait" /\ create'[h].seq = n
        BY <1>2, <2>2
      <4> HIDE DEF Registered, At, n
      <4> QED BY <3>3, <4>2, <4>3, <4>4 DEF RegistrationInv
    <3> QED BY <3>2, <3>3
  <2>3. CASE create' = create /\ log' = Append(log, Bookkeeping("webhook_deleted", h))
    <3>1. \A k, f : Places(k, f)' = IF Bookkeeping("webhook_deleted", h) = Bookkeeping(k, f)
                                    THEN Places(k, f) \cup {n} ELSE Places(k, f)
      BY <2>3, AppendedPlaces, BookkeepingFacts DEF BookkeepingKinds
    <3>2. \A g \in Hooks : Registered(g)' = Registered(g)
      BY <3>1, BookkeepingFacts DEF Registered
    <3> QED BY <1>3, <2>1, <2>3, <3>2
  <2> QED BY <1>9, <2>2, <2>3 DEF StageBookkeeping
<1>10. CASE HandleCommand
  <2> TAKE g \in Hooks
  <2> DEFINE h == Head(commands).hook
  <2>1. log' = log /\ commands # <<>> /\ commands' = Tail(commands)
    BY <1>10 DEF HandleCommand, timeline
  <2>2. Registered(g)' = Registered(g)
    BY <2>1 DEF Registered, Places
  <2>3. h \in Hooks
    <3>1. Head(commands) \in Commands
      BY <1>2, <2>1, TakeFacts
    <3> QED BY <3>1 DEF Commands
  <2>4. Proceeds(g)
    <3>1. \/ create' = create
          \/ create[h].pc = "reserve" /\ create' = Goto(create, h, "append")
          \/ create' = Goto(create, h, "failed") \/ create' = Goto(create, h, "done")
      BY <1>10 DEF HandleCommand, HandleReserve, HandleActivate, HandleRemove, Reply
    <3> HIDE DEF h
    <3>2. ASSUME NEW l \in RequestPCs, create' = Goto(create, h, l)
          PROVE  IF g = h THEN create'[g].pc = l ELSE create'[g] = create[g]
      BY <1>2, <2>3, <3>2, GotoFacts
    <3>3. {"append", "failed", "done"} \subseteq RequestPCs
      BY DEF RequestPCs
    <3>4. CASE create' = create
      BY <3>4 DEF Proceeds
    <3> QED BY <3>1, <3>2, <3>3, <3>4 DEF Proceeds
  <2>5. \A i \in At("activate", g)' :
           \E j \in At("activate", g) : commands'[i].seq = commands[j].seq
    BY <1>2, <2>1, TakeFacts
  <2> QED BY <1>1, <2>2, <2>4, <2>5, RegistrationFrame
<1> QED BY <1>4, <1>5, <1>6, <1>7, <1>8, <1>9, <1>10 DEF Next, Bystanders, CoordinatorStep

---------------------------------------------------------------------------
(* The workers *)

(* What is due up to a published record does not change. *)
LEMMA DueIsStable ==
  ASSUME IInv, IInv', TypesInv, TypesInv', Grows, NEW h \in Hooks
  PROVE  /\ \A s \in 1..published : Matches(s)' <=> Matches(s)
         /\ \A n \in 0..published : n \in 0..published' /\ DueTo(h, n)' = DueTo(h, n)
<1>1. /\ Len(log) \in Nat /\ Len(log') \in Nat /\ published \in Nat /\ published' \in Nat
      /\ published <= Len(log) /\ published' <= Len(log') /\ published <= published'
      /\ \A i \in 1..published : log'[i] = log[i]
  <2>1. Len(log') \in Nat /\ published' \in Nat /\ published' <= Len(log')
    BY LenProperties DEF IInv, TimelineInv
  <2> QED BY <2>1, TimelineFacts DEF Grows
<1>2. \A s \in 1..published : Matches(s)' <=> Matches(s)
  BY <1>1 DEF Matches
<1>3. \A i \in 1..published : i \in Registered(h)' <=> i \in Registered(h)
  BY <1>1 DEF Registered, Places
<1>4. Registered(h) \subseteq Nat \ {0} /\ Registered(h)' \subseteq Nat \ {0}
  BY <1>1 DEF Registered, Places
<1>5. ASSUME NEW n \in 0..published PROVE DueTo(h, n)' = DueTo(h, n)
  <2>1. \A s \in 1..n : s \in 1..published /\ s \in Nat
    BY <1>1
  <2>2. \A s \in 1..n, i \in Nat \ {0} : i < s => i \in 1..published
    BY <1>1
  <2>3. ASSUME NEW s \in 1..n
        PROVE  (\E i \in Registered(h)' : i < s) <=> (\E i \in Registered(h) : i < s)
    BY <1>3, <1>4, <2>2
  <2> QED BY <1>2, <2>1, <2>3 DEF DueTo
<1>6. \A n \in 0..published : n \in 0..published'
  BY <1>1
<1> QED BY <1>2, <1>5, <1>6

(* A step that settles nothing wrong and reaches nothing it has not covered. *)
LEMMA WorkerRule ==
  ASSUME IInv, IInv', TypesInv, TypesInv', Grows, NEW h \in Hooks, WorkerInv(h),
         settled[h] \subseteq settled'[h],
         \A s \in settled'[h] : s \in settled[h] \/ Matches(s)',
         \A n \in Reached(h)' : n \in Reached(h) \/ Covered(h, n, settled[h])',
         BatchInv(h)'
  PROVE  WorkerInv(h)'
<1>1. \A s \in settled'[h] : Matches(s)'
  <2>1. \A s \in settled[h] : s \in 1..published /\ Matches(s)
    <3>1. settled[h] \subseteq 1..MaxLog
      BY DEF TypesInv, WorkerTypes
    <3>2. \A s \in settled[h] : Matches(s) /\ s \in 0..published
      BY DEF WorkerInv, Covered, Reached
    <3> QED BY <3>1, <3>2, BoundsAssumption
  <2> QED BY <2>1, DueIsStable
<1>2. \A n \in Reached(h)' : Covered(h, n, settled[h])'
  <2> TAKE n \in Reached(h)'
  <2>1. CASE n \in Reached(h)
    <3>1. n \in 0..published /\ DueTo(h, n) \subseteq settled[h]
      BY <2>1 DEF WorkerInv, Covered
    <3>2. n \in 0..published' /\ DueTo(h, n)' = DueTo(h, n)
      BY <3>1, DueIsStable
    <3>3. DueTo(h, n)' \subseteq settled'[h]
      BY <3>1, <3>2
    <3> QED BY <3>2, <3>3 DEF Covered
  <2> QED BY <2>1
<1> QED BY <1>1, <1>2 DEF WorkerInv

(* A batch is kept while its worker keeps it. *)
LEMMA BatchFrame ==
  ASSUME IInv, IInv', TypesInv, TypesInv', Grows, NEW h \in Hooks, BatchInv(h),
         settled[h] \subseteq settled'[h],
         worker'[h].to = worker[h].to, worker'[h].todo = worker[h].todo,
         \/ worker'[h].pc = worker[h].pc
         \/ worker[h].pc = "post" /\ worker'[h].pc = "record"
  PROVE  BatchInv(h)'
<1> DEFINE w == worker[h]
<1>1. CASE w.pc \in {"post", "record", "checkpoint"}
  <2>1. w.to \in 1..published /\ (\A s \in w.todo : s \in 1..w.to /\ Matches(s))
        /\ DueTo(h, w.to) \subseteq settled[h] \cup w.todo
    BY <1>1 DEF BatchInv
  <2>2. published \in Nat /\ published' \in Nat
    BY DEF IInv, TimelineInv
  <2>3. w.to \in 0..published /\ \A s \in w.todo : s \in 1..published
    BY <2>1, <2>2
  <2>4. PICK n \in 0..published : n = w.to
    BY <2>3
  <2>5. /\ DueTo(h, n)' = DueTo(h, n) /\ n \in 1..published'
        /\ \A s \in w.todo : Matches(s)'
    BY <2>1, <2>2, <2>3, <2>4, DueIsStable
  <2>6. DueTo(h, n)' \subseteq settled'[h] \cup w.todo
    BY <2>1, <2>4, <2>5
  <2>7. /\ worker'[h].to = n /\ worker'[h].todo = w.todo
        /\ \A s \in w.todo : s \in 1..n
        /\ worker'[h].pc \in {"post", "record"} => w.todo # {}
        /\ worker'[h].pc = "checkpoint" => w.todo = {}
    BY <1>1, <2>1, <2>4 DEF BatchInv
  <2> HIDE DEF w
  <2> QED BY <2>5, <2>6, <2>7 DEF BatchInv, DueTo
<1>2. CASE w.pc \notin {"post", "record", "checkpoint"}
  BY <1>2 DEF BatchInv
<1> QED BY <1>1, <1>2

(* A step that leaves the batch of a worker, and what it reached, alone. *)
LEMMA WorkerFrame ==
  ASSUME IInv, IInv', TypesInv, TypesInv', Grows, NEW h \in Hooks, WorkerInv(h),
         settled'[h] = settled[h], saved'[h] \subseteq saved[h], regseq'[h] = regseq[h],
         worker'[h].to = worker[h].to, worker'[h].todo = worker[h].todo,
         worker'[h].last = worker[h].last, worker'[h].offset = worker[h].offset,
         \/ worker'[h].pc = worker[h].pc
         \/ worker[h].pc = "post" /\ worker'[h].pc = "record"
         \/ worker'[h].pc = "load"
  PROVE  WorkerInv(h)'
<1>1. BatchInv(h)'
  <2>1. BatchInv(h)
    BY DEF WorkerInv
  <2>2. CASE worker'[h].pc = "load"
    BY <2>2 DEF BatchInv
  <2> QED BY <2>1, <2>2, BatchFrame
<1>2. \A n \in Reached(h)' : n \in Reached(h)
  BY DEF Reached
<1> QED BY <1>1, <1>2, WorkerRule

(* Nothing is due before the first record, nor up to the registration. *)
LEMMA NothingDue ==
  ASSUME IInv, TypesInv, NEW h \in Hooks
  PROVE  /\ \A S : Covered(h, 0, S)
         /\ \A n : (\A i, j \in Registered(h) : i = j) /\ n \in Registered(h) /\ n <= published
                     => \A S : Covered(h, n, S)
<1>1. published \in Nat /\ Len(log) \in Nat
  BY TimelineFacts
<1>2. DueTo(h, 0) = {} /\ 0 \in 0..published
  BY <1>1 DEF DueTo
<1>3. ASSUME NEW n \in Registered(h), \A i, j \in Registered(h) : i = j, n <= published
      PROVE  DueTo(h, n) = {} /\ n \in 0..published
  <2>1. n \in Nat \ {0}
    BY <1>1 DEF Registered, Places
  <2>2. \A s \in 1..n, i \in Registered(h) : ~(i < s)
    BY <1>3, <2>1
  <2> QED BY <1>1, <1>3, <2>1, <2>2 DEF DueTo
<1> QED BY <1>2, <1>3 DEF Covered

(* Load takes every due event of its stretch into the batch. *)
LEMMA WorkerLoads ==
  ASSUME IInv, IInv', TypesInv, TypesInv', Grows, NEW h \in Hooks, WorkerInv(h), Load(h)
  PROVE  WorkerInv(h)'
<1> DEFINE w == worker[h]
           from == Later(Cursor(h), w.offset)
           to == Sooner(published, from + ReplayBatch)
           matching == {s \in from + 1 .. to : Matches(s)}
           v == IF from >= published THEN [w EXCEPT !.pc = "wait", !.offset = published]
                ELSE [w EXCEPT !.pc = IF matching = {} THEN "checkpoint" ELSE "post",
                               !.to = to, !.full = to - from = ReplayBatch,
                               !.todo = matching, !.attempt = 1]
<1>1. worker' = [worker EXCEPT ![h] = v] /\ UNCHANGED <<log, published, saved, settled, regseq>>
  BY DEF Load, timeline, coordinator
<1>2. /\ worker \in [Hooks -> Workers] /\ published \in Nat /\ regseq[h] \in Nat
      /\ w.last \in Nat /\ w.offset \in Nat /\ ReplayBatch \in Nat \ {0} /\ w \in Workers
  <2>1. worker \in [Hooks -> Workers] /\ regseq[h] \in 0..MaxLog /\ MaxLog \in Nat
    BY Caps DEF TypesInv, WorkerTypes, CoordinatorTypes
  <2>2. w.last \in 0..MaxLog /\ w.offset \in 0..MaxLog
    BY <2>1, WorkerFacts
  <2> QED BY <2>1, <2>2, TimelineFacts, Caps
<1>3. w = [pc |-> w.pc, wake |-> w.wake, last |-> w.last, offset |-> w.offset,
           to |-> w.to, full |-> w.full, todo |-> w.todo, attempt |-> w.attempt]
  BY <1>2, WorkerFacts
<1>4. from \in Reached(h) /\ from \in Nat
  BY <1>2 DEF Reached, Later, Cursor
<1>5. from \in 0..published /\ DueTo(h, from) \subseteq settled[h]
  BY <1>4 DEF WorkerInv, Covered
<1>6. worker'[h] = v
  BY <1>1, <1>2
<1>7. CASE from >= published
  <2>1. from = published
    BY <1>2, <1>5, <1>7
  <2> HIDE DEF from, to, matching
  <2>2. v.pc = "wait" /\ v.last = w.last /\ v.offset = published
    BY <1>3, <1>7
  <2> HIDE DEF v
  <2>3. BatchInv(h)'
    BY <1>6, <2>2 DEF BatchInv
  <2>4. \A n \in Reached(h)' : n \in Reached(h)
    BY <1>1, <1>4, <1>6, <2>1, <2>2 DEF Reached
  <2> QED BY <1>1, <2>3, <2>4, WorkerRule
<1>8. CASE ~(from >= published)
  <2>1. from < published /\ to \in 1..published /\ from < to
    <3> HIDE DEF from
    <3> QED BY <1>2, <1>4, <1>8 DEF Sooner
  <2>2. \A s \in matching : s \in 1..to /\ Matches(s)
    <3> HIDE DEF from, to
    <3> QED BY <1>2, <1>4, <2>1
  <2>3. DueTo(h, to) \subseteq settled[h] \cup matching
    <3> HIDE DEF from, to
    <3>1. ASSUME NEW s \in DueTo(h, to), s \notin matching PROVE s \in DueTo(h, from)
      <4>1. s \in 1..to /\ Matches(s)
        BY DEF DueTo
      <4>2. s \in 1..from
        BY <1>2, <1>4, <2>1, <3>1, <4>1
      <4> QED BY <3>1, <4>2 DEF DueTo
    <3> QED BY <1>5, <3>1
  <2> HIDE DEF from, to, matching
  <2>4. /\ v.pc = (IF matching = {} THEN "checkpoint" ELSE "post")
        /\ v.last = w.last /\ v.offset = w.offset /\ v.to = to /\ v.todo = matching
    BY <1>3, <1>8
  <2> HIDE DEF v
  <2>5. BatchInv(h)'
    <3>1. PICK n \in 0..published : n = to
      BY <1>2, <2>1
    <3>2. DueTo(h, n)' = DueTo(h, n)
      BY <3>1, DueIsStable
    <3>3. \A s \in matching : Matches(s)'
      BY <1>1, <2>2 DEF Matches
    <3>4. DueTo(h, n)' \subseteq settled'[h] \cup matching
      BY <1>1, <2>3, <3>1, <3>2
    <3>5. /\ worker'[h].to = n /\ worker'[h].todo = matching /\ n \in 1..published'
          /\ \A s \in matching : s \in 1..n
      BY <1>1, <1>6, <2>1, <2>2, <2>4, <3>1
    <3>6. /\ worker'[h].pc \in {"post", "record"} => matching # {}
          /\ worker'[h].pc = "checkpoint" => matching = {}
      BY <1>6, <2>4
    <3> QED BY <3>3, <3>4, <3>5, <3>6 DEF BatchInv, DueTo
  <2>6. \A n \in Reached(h)' : n \in Reached(h)
    BY <1>1, <1>6, <2>4 DEF Reached
  <2> QED BY <1>1, <2>5, <2>6, WorkerRule
<1> QED BY <1>7, <1>8

(* An outcome settles the least event of the batch. *)
LEMMA LeastSettles ==
  ASSUME IInv, IInv', TypesInv, TypesInv', Grows, NEW h \in Hooks, WorkerInv(h),
         worker[h].pc \in {"post", "record"}, UNCHANGED <<log, published>>,
         NEW seq, seq = Least(worker[h].todo), settled'[h] = settled[h] \cup {seq}
  PROVE  Covered(h, seq, settled[h])' /\ Matches(seq)'
<1> DEFINE w == worker[h]
<1>1. BatchInv(h)
  BY DEF WorkerInv
<1>2. /\ seq \in w.todo /\ seq \in 1..w.to /\ seq \in 1..published /\ Matches(seq)
      /\ \A s \in w.todo : seq <= s
  BY <1>1, TodoFacts
<1>3. w.to \in 1..published /\ published \in Nat /\ DueTo(h, w.to) \subseteq settled[h] \cup w.todo
      /\ \A s \in w.todo : s \in 1..w.to
  <2>1. published \in Nat
    BY TimelineFacts
  <2> QED BY <1>1, <2>1 DEF BatchInv
<1> HIDE DEF w
<1>4. ASSUME NEW s \in DueTo(h, seq) PROVE s \in settled'[h]
  <2>1. s \in 1..seq /\ s <= seq /\ s \in Nat
    BY <1>2, <1>3 DEF DueTo
  <2>2. s \in DueTo(h, w.to)
    <3>1. s \in 1..w.to
      BY <1>2, <1>3, <2>1
    <3> QED BY <3>1 DEF DueTo
  <2>3. CASE s \in settled[h]
    BY <2>3
  <2>4. CASE s \in w.todo
    <3>1. seq <= s /\ s \in Nat /\ seq \in Nat
      BY <1>2, <1>3, <2>1, <2>4
    <3>2. s = seq
      BY <2>1, <3>1
    <3> QED BY <3>2
  <2> QED BY <1>3, <2>2, <2>3, <2>4
<1>5. seq \in 0..published' /\ Matches(seq)'
  BY <1>2, <1>3 DEF Matches
<1>6. DueTo(h, seq)' \subseteq settled'[h]
  <2>1. DueTo(h, seq)' = DueTo(h, seq)
    BY <1>2, <1>3, DueIsStable
  <2> QED BY <1>4, <2>1
<1> QED BY <1>5, <1>6 DEF Covered

(* A delivery settles the least event of the batch. *)
LEMMA WorkerPosts ==
  ASSUME IInv, IInv', TypesInv, TypesInv', Grows, NEW h \in Hooks, WorkerInv(h), PostOk(h)
  PROVE  WorkerInv(h)'
<1> DEFINE w == worker[h]
           v == [w EXCEPT !.pc = "record"]
<1>0. PICK seq : seq = Least(w.todo)
  OBVIOUS
<1>1. /\ w.pc = "post" /\ worker' = [worker EXCEPT ![h] = v]
      /\ settled' = [settled EXCEPT ![h] = settled[h] \cup {seq}]
      /\ UNCHANGED <<log, published, saved, regseq>>
  BY <1>0 DEF PostOk, timeline, coordinator
<1>2. worker \in [Hooks -> Workers] /\ settled \in [Hooks -> SUBSET (1..MaxLog)]
  BY DEF TypesInv, WorkerTypes
<1>3. w = [pc |-> w.pc, wake |-> w.wake, last |-> w.last, offset |-> w.offset,
           to |-> w.to, full |-> w.full, todo |-> w.todo, attempt |-> w.attempt]
  BY <1>2, WorkerFacts
<1>4. v.pc = "record" /\ v.last = w.last /\ v.offset = w.offset /\ v.to = w.to /\ v.todo = w.todo
  BY <1>3
<1> HIDE DEF v
<1>5. worker'[h] = v /\ settled'[h] = settled[h] \cup {seq}
  BY <1>1, <1>2
<1>6. Covered(h, seq, settled[h])' /\ Matches(seq)'
  BY <1>0, <1>1, <1>5, LeastSettles
<1>7. BatchInv(h)'
  <2>1. BatchInv(h)
    BY DEF WorkerInv
  <2> QED BY <1>1, <1>4, <1>5, <2>1, BatchFrame
<1>8. \A n \in Reached(h)' : n \in Reached(h) \/ n = seq
  BY <1>1, <1>4, <1>5 DEF Reached
<1>9. \A n \in Reached(h)' : n \in Reached(h) \/ Covered(h, n, settled[h])'
  BY <1>6, <1>8 DEF Covered, DueTo
<1>10. \A s \in settled'[h] : s \in settled[h] \/ Matches(s)'
  BY <1>5, <1>6 DEF Matches
<1>11. settled[h] \subseteq settled'[h]
  BY <1>5
<1> QED BY <1>7, <1>9, <1>10, <1>11, WorkerRule

(* A line of the delivery log adds its own sequence at most. *)
LEMMA SavedFacts ==
  ASSUME TypesInv, NEW h \in Hooks, NEW seq, saved' = SavedWith(h, seq)
  PROVE  /\ saved'[h] \subseteq saved[h] \cup {seq}
         /\ \A g \in Hooks : g # h => saved'[g] = saved[g]
<1>1. saved \in [Hooks -> SUBSET (1..MaxLog)]
  BY DEF TypesInv, WorkerTypes
<1> QED BY <1>1 DEF SavedWith

(* An error forgets the batch. *)
LEMMA BackoffFacts ==
  ASSUME TypesInv, NEW h \in Hooks, worker' = Backoff(h)
  PROVE  /\ worker'[h].pc = "backoff" /\ worker'[h].todo = {}
         /\ worker'[h].last = worker[h].last /\ worker'[h].offset = worker[h].offset
<1> DEFINE w == worker[h]
           v == [w EXCEPT !.pc = "backoff", !.to = 0, !.full = FALSE, !.todo = {}, !.attempt = 0]
<1>1. worker \in [Hooks -> Workers]
  BY DEF TypesInv, WorkerTypes
<1>2. w = [pc |-> w.pc, wake |-> w.wake, last |-> w.last, offset |-> w.offset,
           to |-> w.to, full |-> w.full, todo |-> w.todo, attempt |-> w.attempt]
  BY <1>1, WorkerFacts
<1>3. v.pc = "backoff" /\ v.todo = {} /\ v.last = w.last /\ v.offset = w.offset
  BY <1>2
<1>4. worker' = [worker EXCEPT ![h] = v]
  BY DEF Backoff
<1> HIDE DEF v
<1>5. worker'[h] = v
  BY <1>1, <1>4
<1> QED BY <1>3, <1>5

(* What a worker reached is kept when it backs off. *)
LEMMA WorkerBacksOff ==
  ASSUME IInv, IInv', TypesInv, TypesInv', Grows, NEW h \in Hooks, WorkerInv(h),
         worker' = Backoff(h), UNCHANGED <<saved, settled, regseq>>
  PROVE  WorkerInv(h)'
<1>1. /\ worker'[h].pc = "backoff"
      /\ worker'[h].last = worker[h].last /\ worker'[h].offset = worker[h].offset
  BY BackoffFacts
<1>2. BatchInv(h)'
  BY <1>1 DEF BatchInv
<1>3. \A n \in Reached(h)' : n \in Reached(h)
  BY <1>1 DEF Reached
<1> QED BY <1>2, <1>3, WorkerRule

(* RecordOutcome moves the worker to the event it settled. *)
LEMMA WorkerRecords ==
  ASSUME IInv, IInv', TypesInv, TypesInv', Grows, NEW h \in Hooks, WorkerInv(h), RecordOutcome(h)
  PROVE  WorkerInv(h)'
<1> DEFINE w == worker[h]
           rest(n) == w.todo \ {n}
           v(n) == [w EXCEPT !.pc = IF rest(n) = {} THEN "checkpoint" ELSE "post",
                             !.last = n, !.todo = rest(n), !.attempt = 1]
<1>0. PICK seq : seq = Least(w.todo)
  OBVIOUS
<1>1. /\ w.pc = "record" /\ UNCHANGED <<log, published, regseq>>
      /\ \/ /\ saved' = SavedWith(h, seq)
            /\ settled' = [settled EXCEPT ![h] = settled[h] \cup {seq}]
            /\ worker' = [worker EXCEPT ![h] = v(seq)]
         \/ worker' = Backoff(h) /\ UNCHANGED <<saved, settled>>
  BY <1>0 DEF RecordOutcome, timeline, coordinator
<1>2. worker \in [Hooks -> Workers] /\ settled \in [Hooks -> SUBSET (1..MaxLog)]
  BY DEF TypesInv, WorkerTypes
<1>3. CASE worker' = Backoff(h) /\ UNCHANGED <<saved, settled>>
  BY <1>1, <1>3, WorkerBacksOff
<1>4. CASE /\ saved' = SavedWith(h, seq)
           /\ settled' = [settled EXCEPT ![h] = settled[h] \cup {seq}]
           /\ worker' = [worker EXCEPT ![h] = v(seq)]
  <2>1. w = [pc |-> w.pc, wake |-> w.wake, last |-> w.last, offset |-> w.offset,
             to |-> w.to, full |-> w.full, todo |-> w.todo, attempt |-> w.attempt]
    BY <1>2, WorkerFacts
  <2> DEFINE r == rest(seq)
             c == v(seq)
  <2>2. /\ c.pc = (IF r = {} THEN "checkpoint" ELSE "post")
        /\ c.last = seq /\ c.offset = w.offset /\ c.to = w.to /\ c.todo = r
    BY <2>1
  <2> HIDE DEF v
  <2>3. worker'[h] = c /\ settled'[h] = settled[h] \cup {seq}
    BY <1>2, <1>4
  <2> HIDE DEF c
  <2>4. Covered(h, seq, settled[h])' /\ Matches(seq)'
    BY <1>0, <1>1, <2>3, LeastSettles
  <2>5. BatchInv(h)'
    <3>1. /\ w.to \in 1..published /\ (\A s \in w.todo : s \in 1..w.to /\ Matches(s))
          /\ DueTo(h, w.to) \subseteq settled[h] \cup w.todo
      BY <1>1 DEF WorkerInv, BatchInv
    <3>2. published \in Nat
      BY TimelineFacts
    <3>3. PICK n \in 0..published : n = w.to
      BY <3>1, <3>2
    <3>4. DueTo(h, n)' = DueTo(h, n)
      BY DueIsStable
    <3>5. DueTo(h, n)' \subseteq settled'[h] \cup r
      BY <2>3, <3>1, <3>3, <3>4
    <3>6. \A s \in r : Matches(s)' /\ s \in 1..n
      BY <1>1, <3>1, <3>3 DEF Matches
    <3>7. worker'[h].to = n /\ worker'[h].todo = r /\ n \in 1..published'
          /\ worker'[h].pc = (IF r = {} THEN "checkpoint" ELSE "post")
      BY <1>1, <2>2, <2>3, <3>1, <3>3
    <3> HIDE DEF r
    <3> QED BY <3>5, <3>6, <3>7 DEF BatchInv, DueTo
  <2>6. \A n \in Reached(h)' : n \in Reached(h) \/ n = seq
    <3>1. saved'[h] \subseteq saved[h] \cup {seq}
      BY <1>4, SavedFacts
    <3> QED BY <1>1, <2>2, <2>3, <3>1 DEF Reached
  <2>7. \A n \in Reached(h)' : n \in Reached(h) \/ Covered(h, n, settled[h])'
    BY <2>4, <2>6 DEF Covered, DueTo
  <2>8. \A s \in settled'[h] : s \in settled[h] \/ Matches(s)'
    BY <2>3, <2>4 DEF Matches
  <2>9. settled[h] \subseteq settled'[h]
    BY <2>3
  <2> QED BY <2>5, <2>7, <2>8, <2>9, WorkerRule
<1> QED BY <1>1, <1>3, <1>4

(* Checkpoint moves it to the end of a batch that is settled. *)
LEMMA WorkerCheckpoints ==
  ASSUME IInv, IInv', TypesInv, TypesInv', Grows, NEW h \in Hooks, WorkerInv(h), Checkpoint(h)
  PROVE  WorkerInv(h)'
<1> DEFINE w == worker[h]
           v == [w EXCEPT !.pc = IF w.full THEN "load" ELSE "wait", !.last = w.to,
                          !.offset = w.to, !.to = 0, !.full = FALSE,
                          !.todo = {}, !.attempt = 0]
<1>1. /\ w.pc = "checkpoint" /\ UNCHANGED <<log, published, regseq, settled>>
      /\ \/ saved' = SavedWith(h, w.to) /\ worker' = [worker EXCEPT ![h] = v]
         \/ worker' = Backoff(h) /\ saved' = saved
  BY DEF Checkpoint, timeline, coordinator
<1>2. worker \in [Hooks -> Workers] /\ settled \in [Hooks -> SUBSET (1..MaxLog)]
  BY DEF TypesInv, WorkerTypes
<1>3. CASE worker' = Backoff(h) /\ saved' = saved
  BY <1>1, <1>3, WorkerBacksOff
<1>4. CASE saved' = SavedWith(h, w.to) /\ worker' = [worker EXCEPT ![h] = v]
  <2>1. w = [pc |-> w.pc, wake |-> w.wake, last |-> w.last, offset |-> w.offset,
             to |-> w.to, full |-> w.full, todo |-> w.todo, attempt |-> w.attempt]
    BY <1>2, WorkerFacts
  <2>2. v.pc \in {"load", "wait"} /\ v.last = w.to /\ v.offset = w.to
    BY <2>1
  <2> HIDE DEF v
  <2>3. worker'[h] = v
    BY <1>2, <1>4
  <2>4. BatchInv(h)'
    BY <2>2, <2>3 DEF BatchInv
  <2>5. w.to \in 1..published /\ DueTo(h, w.to) \subseteq settled[h]
    BY <1>1 DEF WorkerInv, BatchInv
  <2>6. published \in Nat
    BY TimelineFacts
  <2>7. PICK n \in 0..published : n = w.to
    BY <2>5, <2>6
  <2>8. Covered(h, n, settled[h])'
    <3>1. DueTo(h, n)' = DueTo(h, n) /\ n \in 0..published'
      BY <2>7, DueIsStable
    <3>2. DueTo(h, n)' \subseteq settled'[h]
      BY <1>1, <2>5, <2>7, <3>1
    <3> QED BY <3>1, <3>2 DEF Covered
  <2>9. \A m \in Reached(h)' : m \in Reached(h) \/ m = n
    <3>1. saved'[h] \subseteq saved[h] \cup {n}
      BY <1>4, <2>7, SavedFacts
    <3> QED BY <1>1, <2>2, <2>3, <2>7, <3>1 DEF Reached
  <2>10. \A m \in Reached(h)' : m \in Reached(h) \/ Covered(h, m, settled[h])'
    BY <2>8, <2>9 DEF Covered, DueTo
  <2> QED BY <1>1, <2>4, <2>10, WorkerRule
<1> QED BY <1>1, <1>3, <1>4

(* Without a worker there is what was reached. *)
LEMMA NoWorkerKeeps ==
  ASSUME IInv, IInv', TypesInv, TypesInv', Grows, NEW h \in Hooks, WorkerInv(h),
         worker'[h] = NoWorker, settled'[h] = settled[h], saved'[h] \subseteq saved[h],
         regseq'[h] = regseq[h]
  PROVE  WorkerInv(h)'
<1>1. NoWorker.pc = "none" /\ NoWorker.last = 0 /\ NoWorker.offset = 0
  BY DEF NoWorker
<1>2. BatchInv(h)'
  BY <1>1 DEF BatchInv
<1>3. \A n \in Reached(h)' : n \in Reached(h) \/ n = 0
  BY <1>1 DEF Reached
<1>4. Covered(h, 0, settled[h])'
  <2>1. published' \in Nat
    BY DEF IInv, TimelineInv
  <2> QED BY <2>1 DEF Covered, DueTo
<1>5. \A n \in Reached(h)' : n \in Reached(h) \/ Covered(h, n, settled[h])'
  BY <1>3, <1>4 DEF Covered, DueTo
<1> QED BY <1>2, <1>5, WorkerRule

(* Every step of the worker of h. *)
LEMMA WorkerStepKeepsItsInv ==
  ASSUME IInv, IInv', TypesInv, TypesInv', Grows, NEW h \in Hooks, WorkerInv(h), WorkerStep(h)
  PROVE  WorkerInv(h)'
<1> DEFINE w == worker[h]
<1>1. worker \in [Hooks -> Workers]
  BY DEF TypesInv, WorkerTypes
<1>2. w = [pc |-> w.pc, wake |-> w.wake, last |-> w.last, offset |-> w.offset,
           to |-> w.to, full |-> w.full, todo |-> w.todo, attempt |-> w.attempt]
  BY <1>1, WorkerFacts
<1>3. CASE Load(h) \/ PostOk(h) \/ RecordOutcome(h) \/ Checkpoint(h)
  BY <1>3, WorkerLoads, WorkerPosts, WorkerRecords, WorkerCheckpoints
<1>4. CASE PostRetried(h) \/ PostGivenUp(h) \/ Resume(h)
  <2> DEFINE again == [w EXCEPT !.attempt = w.attempt + 1]
             given == [w EXCEPT !.pc = "record"]
             load == [w EXCEPT !.pc = "load", !.wake = FALSE]
             v == worker'[h]
  <2>1. UNCHANGED <<saved, settled, regseq>>
    BY <1>4 DEF PostRetried, PostGivenUp, Resume, coordinator
  <2>2. \/ worker' = Backoff(h)
        \/ worker' = [worker EXCEPT ![h] = again]
        \/ w.pc = "post" /\ worker' = [worker EXCEPT ![h] = given]
        \/ worker' = [worker EXCEPT ![h] = load]
    BY <1>4 DEF PostRetried, PostGivenUp, Resume
  <2>3. /\ again.pc = w.pc /\ given.pc = "record" /\ load.pc = "load"
        /\ again.last = w.last /\ given.last = w.last /\ load.last = w.last
        /\ again.offset = w.offset /\ given.offset = w.offset /\ load.offset = w.offset
        /\ again.to = w.to /\ given.to = w.to /\ load.to = w.to
        /\ again.todo = w.todo /\ given.todo = w.todo /\ load.todo = w.todo
    BY <1>2
  <2> HIDE DEF again, given, load
  <2>4. CASE worker' = Backoff(h)
    BY <2>1, <2>4, WorkerBacksOff
  <2>5. CASE worker' # Backoff(h)
    <3>1. v = again \/ (w.pc = "post" /\ v = given) \/ v = load
      BY <1>1, <2>2, <2>5
    <3>2. /\ v.last = w.last /\ v.offset = w.offset /\ v.to = w.to /\ v.todo = w.todo
          /\ v.pc = w.pc \/ (w.pc = "post" /\ v.pc = "record") \/ v.pc = "load"
      BY <2>3, <3>1
    <3> QED BY <2>1, <3>2, WorkerFrame
  <2> QED BY <2>4, <2>5
<1>5. CASE Exit(h)
  <2>1. worker'[h] = NoWorker /\ UNCHANGED <<saved, settled, regseq>>
    BY <1>1, <1>5 DEF Exit, coordinator
  <2> QED BY <2>1, NoWorkerKeeps
<1> QED BY <1>3, <1>4, <1>5 DEF WorkerStep

(* The workers of other hooks. *)
LEMMA OthersUntouched ==
  ASSUME TypesInv, NEW h \in Hooks, WorkerStep(h), NEW g \in Hooks, g # h
  PROVE  worker'[g] = worker[g] /\ saved'[g] = saved[g] /\ settled'[g] = settled[g]
<1>1. /\ worker \in [Hooks -> Workers] /\ saved \in [Hooks -> SUBSET (1..MaxLog)]
      /\ settled \in [Hooks -> SUBSET (1..MaxLog)]
  BY DEF TypesInv, WorkerTypes
<1>2. worker'[g] = worker[g]
  <2>1. ASSUME NEW v, worker' = [worker EXCEPT ![h] = v] PROVE worker'[g] = worker[g]
    BY <1>1, <2>1
  <2>2. worker' = Backoff(h) => worker'[g] = worker[g]
    BY <1>1 DEF Backoff
  <2>3. \/ worker' = Backoff(h)
        \/ \E v : worker' = [worker EXCEPT ![h] = v]
    <3>1. CASE Load(h)
      BY <3>1, Zenon DEF Load
    <3>2. CASE PostOk(h) \/ PostRetried(h) \/ PostGivenUp(h) \/ Resume(h) \/ Exit(h)
      BY <3>2, Zenon DEF PostOk, PostRetried, PostGivenUp, Resume, Exit
    <3>3. CASE RecordOutcome(h)
      BY <3>3, Zenon DEF RecordOutcome
    <3>4. CASE Checkpoint(h)
      BY <3>4, Zenon DEF Checkpoint
    <3> QED BY <3>1, <3>2, <3>3, <3>4 DEF WorkerStep
  <2> QED BY <2>1, <2>2, <2>3
<1>3. \/ saved' = saved
      \/ \E n : saved' = SavedWith(h, n)
  BY Zenon DEF WorkerStep, Load, PostOk, PostRetried, PostGivenUp, RecordOutcome, Checkpoint, Resume, Exit
<1>4. \/ settled' = settled
      \/ \E n : settled' = [settled EXCEPT ![h] = settled[h] \cup {n}]
  BY Zenon DEF WorkerStep, Load, PostOk, PostRetried, PostGivenUp, RecordOutcome, Checkpoint, Resume, Exit
<1>5. saved'[g] = saved[g]
  BY <1>3, SavedFacts
<1>6. settled'[g] = settled[g]
  BY <1>1, <1>4
<1> QED BY <1>2, <1>5, <1>6

(* An activated hook starts at its registration. *)
LEMMA ActivationKeepsWorker ==
  ASSUME IInv, IInv', TypesInv, TypesInv', Grows, HandleCommand, HandleActivate,
         NEW g \in Hooks, WorkerInv(g), RegistrationInv(g)
  PROVE  WorkerInv(g)'
<1> DEFINE c == Head(commands)
           h == c.hook
<1>1. /\ UNCHANGED <<log, published, saved, settled>> /\ c.op = "activate" /\ commands # <<>>
      /\ regseq' = IF hooks[h] = "pending" THEN [regseq EXCEPT ![h] = c.seq] ELSE regseq
      /\ worker' = IF hooks[h] = "pending" THEN [worker EXCEPT ![h] = Spawned(c.seq)] ELSE worker
  BY DEF HandleCommand, HandleActivate, timeline
<1>2. /\ commands \in Seq(Commands) /\ worker \in [Hooks -> Workers] /\ regseq \in [Hooks -> 0..MaxLog]
      /\ commands' = Tail(commands)
  BY DEF TypesInv, CoordinatorTypes, WorkerTypes, HandleCommand
<1>3. 1 \in At("activate", h) /\ commands[1] = c
  BY <1>1, <1>2, TakeFacts
<1>4. CASE worker'[g] = worker[g] /\ regseq'[g] = regseq[g]
  BY <1>1, <1>4, WorkerFrame
<1>5. CASE g = h /\ hooks[h] = "pending"
  <2>1. PICK n : n = c.seq
    OBVIOUS
  <2>2. n \in Registered(g) /\ n <= published
    BY <1>3, <1>5, <2>1 DEF RegistrationInv
  <2>3. Covered(g, n, settled[g])
    BY <2>2, NothingDue DEF RegistrationInv
  <2>4. Covered(g, 0, settled[g])
    BY NothingDue
  <2>5. Covered(g, n, settled[g])' /\ Covered(g, 0, settled[g])'
    BY <1>1, <2>3, <2>4 DEF Covered, DueTo, Registered, Places, Matches
  <2>6. worker'[g] = Spawned(n) /\ regseq'[g] = n
    BY <1>1, <1>2, <1>5, <2>1
  <2>7. Spawned(n).pc = "load" /\ Spawned(n).last = n /\ Spawned(n).offset = 0
    BY DEF Spawned, NoWorker
  <2>8. BatchInv(g)'
    BY <2>6, <2>7 DEF BatchInv
  <2>9. \A m \in Reached(g)' : m \in Reached(g) \/ m = n \/ m = 0
    BY <1>1, <2>6, <2>7 DEF Reached
  <2>10. \A m \in Reached(g)' : m \in Reached(g) \/ Covered(g, m, settled[g])'
    BY <2>5, <2>9 DEF Covered, DueTo
  <2> QED BY <1>1, <2>8, <2>10, WorkerRule
<1> QED BY <1>1, <1>2, <1>4, <1>5

(* A crash leaves less in the delivery log, all of it covered. *)
LEMMA CrashKeepsWorker ==
  ASSUME IInv, IInv', TypesInv, TypesInv', Grows, Crash, NEW h \in Hooks, WorkerInv(h)
  PROVE  WorkerInv(h)'
<1>1. worker'[h] = NoWorker /\ UNCHANGED <<settled, regseq>>
  BY DEF Crash
<1>2. saved'[h] \subseteq saved[h]
  BY DEF Crash
<1> QED BY <1>1, <1>2, NoWorkerKeeps

(* A restart starts behind the registration and the saved progress. *)
LEMMA RestartKeepsWorker ==
  ASSUME IInv, IInv', TypesInv, TypesInv', Grows, Restart,
         NEW h \in Hooks, WorkerInv(h), RegistrationInv(h)'
  PROVE  WorkerInv(h)'
<1>1. UNCHANGED <<log, settled, saved>> /\ published' = Len(log)
  BY DEF Restart
<1>2. PICK chosen \in SUBSET Configured(Len(log)) :
        /\ regseq' = [g \in Hooks |-> IF g \in chosen THEN RegisteredSeq(g) ELSE regseq[g]]
        /\ worker' = [g \in Hooks |-> IF g \in chosen
                                      THEN Spawned(Restored(g, saved)) ELSE NoWorker]
  BY DEF Restart
<1>3. CASE h \notin chosen
  BY <1>1, <1>2, <1>3, NoWorkerKeeps
<1>4. CASE h \in chosen
  <2>1. Len(log) \in Nat /\ DOMAIN log = 1..Len(log) /\ MaxLog \in Nat
    BY TimelineFacts
  <2>2. Registered(h) # {}
    <3>1. Len(log) \in 0..Len(log)
      BY <2>1
    <3> QED BY <1>4, <3>1, ConfiguredFacts
  <2>3. PICK n : n = RegisteredSeq(h)
    OBVIOUS
  <2>4. n \in Registered(h)
    <3>1. n = Greatest(Registered(h))
      BY <2>1, <2>3 DEF RegisteredSeq, Registered, Places
    <3>2. Registered(h) \in SUBSET (0..Len(log))
      BY <2>1 DEF Registered, Places
    <3> QED BY <2>1, <2>2, <3>1, <3>2, GreatestFacts
  <2>5. Covered(h, n, settled[h])'
    <3>1. Registered(h)' = Registered(h)
      BY <1>1 DEF Registered, Places
    <3>2. n \in Registered(h)' /\ n \in Nat /\ n <= published' /\ (\A i, j \in Registered(h)' : i = j)
      BY <1>1, <2>1, <2>4, <3>1 DEF RegistrationInv, Registered, Places
    <3>3. \A s \in 1..n, i \in Registered(h)' : ~(i < s)
      BY <3>2
    <3>4. DueTo(h, n)' = {} /\ n \in 0..published'
      BY <1>1, <2>1, <3>2, <3>3 DEF DueTo
    <3> QED BY <3>4 DEF Covered
  <2>6. PICK m : m = Restored(h, saved)
    OBVIOUS
  <2>7. m = 0 \/ m \in Reached(h)
    <3>1. saved[h] \in SUBSET (0..MaxLog)
      BY <2>1 DEF TypesInv, WorkerTypes
    <3>2. saved[h] # {} => Greatest(saved[h]) \in saved[h]
      BY <2>1, <3>1, GreatestFacts
    <3> QED BY <2>6, <3>2 DEF Restored, Reached
  <2>8. Covered(h, 0, settled[h])'
    BY <1>1, <2>1 DEF Covered, DueTo
  <2>9. worker'[h] = Spawned(m) /\ regseq'[h] = n
    BY <1>2, <1>4, <2>3, <2>6
  <2>10. Spawned(m).pc = "load" /\ Spawned(m).last = m /\ Spawned(m).offset = 0
    BY DEF Spawned, NoWorker
  <2>11. BatchInv(h)'
    BY <2>9, <2>10 DEF BatchInv
  <2>12. \A k \in Reached(h)' : k \in Reached(h) \/ k = n \/ k = 0
    BY <1>1, <2>7, <2>9, <2>10 DEF Reached
  <2>13. \A k \in Reached(h)' : k \in Reached(h) \/ Covered(h, k, settled[h])'
    BY <2>5, <2>8, <2>12 DEF Covered, DueTo
  <2> QED BY <1>1, <2>11, <2>13, WorkerRule
<1> QED BY <1>3, <1>4

(* Every step keeps what the workers know. *)
LEMMA WorkersKept ==
  ASSUME IInv, IInv', TypesInv, TypesInv', [Next]_vars,
         \A h \in Hooks : RegistrationInv(h) /\ RegistrationInv(h)',
         \A h \in Hooks : WorkerInv(h)
  PROVE  \A h \in Hooks : WorkerInv(h)'
<1>1. Grows
  BY StepGrows
<1> TAKE h \in Hooks
<1>2. WorkerInv(h) /\ RegistrationInv(h) /\ RegistrationInv(h)'
  OBVIOUS
<1>3. ASSUME UNCHANGED <<worker, saved, settled, regseq>> PROVE WorkerInv(h)'
  BY <1>1, <1>2, <1>3, WorkerFrame
<1>4. CASE \/ \E r \in Runs : AppendEvent(r)
           \/ SyncBatch \/ SyncFails \/ Notify
           \/ \E g \in Hooks : \/ CreateReserve(g) \/ DeleteList(g) \/ StageBookkeeping(g)
                               \/ AppendRefused(g) \/ AppendAnswered(g) \/ Disconnect(g)
           \/ UNCHANGED vars
  BY <1>3, <1>4 DEF AppendEvent, SyncBatch, SyncFails, Notify, CreateReserve, DeleteList,
     StageBookkeeping, AppendRefused, AppendAnswered, Disconnect, vars, delivery, coordinator
<1>5. ASSUME NEW s \in Streams, Connect(s) \/ ProducerStep(s) \/ ClientReads(s) \/ ClientLeaves(s)
      PROVE  WorkerInv(h)'
  BY <1>3, <1>5 DEF Connect, ProducerStep, Replay, BatchRecord, Push, Receive, ClientReads,
     ClientLeaves, StreamStep, delivery, coordinator
<1>6. CASE HandleCommand
  <2>1. CASE HandleReserve \/ HandleRemove
    BY <1>3, <1>6, <2>1 DEF HandleCommand, HandleReserve, HandleRemove
  <2>2. CASE HandleActivate
    BY <1>1, <1>2, <1>6, <2>2, ActivationKeepsWorker
  <2> QED BY <1>6, <2>1, <2>2 DEF HandleCommand
<1>7. CASE HandleNotification
  <2>1. UNCHANGED <<saved, settled, regseq>> /\ \E S : worker' = WakeHooks(S)
    BY <1>7 DEF HandleNotification
  <2> DEFINE w == worker[h]
             v == [w EXCEPT !.wake = TRUE]
  <2>2. worker'[h] = w \/ worker'[h] = v
    BY <2>1 DEF WakeHooks
  <2>3. w = [pc |-> w.pc, wake |-> w.wake, last |-> w.last, offset |-> w.offset,
             to |-> w.to, full |-> w.full, todo |-> w.todo, attempt |-> w.attempt]
    BY WorkerFacts DEF TypesInv, WorkerTypes
  <2>4. v.pc = w.pc /\ v.last = w.last /\ v.offset = w.offset /\ v.to = w.to /\ v.todo = w.todo
    BY <2>3
  <2> HIDE DEF v
  <2> QED BY <1>1, <1>2, <2>1, <2>2, <2>4, WorkerFrame
<1>8. ASSUME NEW g \in Hooks, WorkerStep(g) PROVE WorkerInv(h)'
  <2>1. CASE g = h
    BY <1>1, <1>2, <1>8, <2>1, WorkerStepKeepsItsInv
  <2>2. CASE g # h
    <3>1. worker'[h] = worker[h] /\ saved'[h] = saved[h] /\ settled'[h] = settled[h]
      BY <1>8, <2>2, OthersUntouched
    <3>2. regseq' = regseq
      BY <1>8 DEF WorkerStep, Load, PostOk, PostRetried, PostGivenUp, RecordOutcome, Checkpoint,
         Resume, Exit, coordinator
    <3> QED BY <1>1, <1>2, <3>1, <3>2, WorkerFrame
  <2> QED BY <2>1, <2>2
<1>9. CASE Crash
  BY <1>1, <1>2, <1>9, CrashKeepsWorker
<1>10. CASE Restart
  BY <1>1, <1>2, <1>10, RestartKeepsWorker
<1> QED BY <1>4, <1>5, <1>6, <1>7, <1>8, <1>9, <1>10 DEF Next, CoordinatorStep

WebhookInv ==
  /\ TypesInv
  /\ \A h \in Hooks : RegistrationInv(h) /\ WorkerInv(h)

(* The initial states. *)
LEMMA InitWebhookInv == Init => WebhookInv
<1> SUFFICES ASSUME Init PROVE WebhookInv
  OBVIOUS
<1>1. /\ log = <<>> /\ published = 0 /\ sent = 0 /\ poisoned = FALSE /\ up = TRUE
      /\ commands = <<>> /\ cpos = 0
      /\ hooks = [h \in Hooks |-> "absent"] /\ regseq = [h \in Hooks |-> 0]
      /\ worker = [h \in Hooks |-> NoWorker] /\ saved = [h \in Hooks |-> {}] /\ torn = FALSE
      /\ settled = [h \in Hooks |-> {}]
      /\ create = [h \in Hooks |-> NoRequest] /\ delete = [h \in Hooks |-> NoRequest]
      /\ stream = [s \in Streams |-> NoStream]
  BY DEF Init
<1>2. MaxLog \in Nat /\ MaxHooks \in Nat /\ OutCap \in Nat /\ 0 \in 0..MaxLog
  BY Caps
<1>3. TimelineTypes
  <2>1. Len(log) <= MaxLog /\ cpos \in 0..sent
    BY <1>1, <1>2
  <2>2. poisoned \in BOOLEAN /\ up \in BOOLEAN
    BY <1>1, Zenon
  <2> QED BY <2>1, <2>2 DEF TimelineTypes
<1>4. CoordinatorTypes
  <2>1. Present = {}
    BY <1>1 DEF Present
  <2>2. commands \in Seq(Commands)
    BY <1>1, EmptySeq
  <2> QED BY <1>1, <1>2, <2>1, <2>2, FS_EmptySet DEF CoordinatorTypes
<1>5. WorkerTypes
  <2>1. NoWorker \in Workers
    BY <1>2, SpawnedType
  <2> QED BY <1>1, <2>1 DEF WorkerTypes
<1>6. RequestTypes
  <2>1. NoRequest \in Requests
    BY <1>2 DEF NoRequest, Requests, RequestPCs
  <2> QED BY <1>1, <2>1 DEF RequestTypes
<1>7. ChannelTypes
  <2>1. Len(NoStream.out) = 0
    BY DEF NoStream
  <2> QED BY <1>1, <1>2, <2>1 DEF ChannelTypes
<1>8. Stopped
  BY <1>1 DEF Stopped
<1>9. ASSUME NEW h \in Hooks PROVE RegistrationInv(h) /\ WorkerInv(h)
  <2>1. Registered(h) = {} /\ At("activate", h) = {}
    BY <1>1 DEF Registered, Places, At
  <2>2. create[h].pc = "idle" /\ worker[h].pc = "none" /\ worker[h].last = 0 /\ worker[h].offset = 0
    BY <1>1 DEF NoRequest, NoWorker
  <2>3. RegistrationInv(h)
    <3> HIDE DEF Registered, At
    <3> QED BY <2>1, <2>2 DEF RegistrationInv
  <2>4. \A n \in Reached(h) : n = 0
    BY <1>1, <2>2 DEF Reached
  <2>5. DueTo(h, 0) = {} /\ 0 \in 0..published
    BY <1>1 DEF DueTo
  <2>6. BatchInv(h)
    BY <2>2 DEF BatchInv
  <2> QED BY <1>1, <2>3, <2>4, <2>5, <2>6 DEF WorkerInv, Covered
<1> QED BY <1>3, <1>4, <1>5, <1>6, <1>7, <1>8, <1>9 DEF WebhookInv, TypesInv

(* Every step keeps the types. *)
LEMMA TypesKept ==
  ASSUME IInv, IInv', TypesInv, \A h \in Hooks : WorkerInv(h), [Next]_vars
  PROVE  TypesInv'
<1>1. \A h \in Hooks : BatchInv(h)
  BY DEF WorkerInv
<1>2. CASE UNCHANGED vars
  BY <1>2 DEF vars, timeline, delivery, coordinator, requests, streams, TypesInv, TimelineTypes,
     CoordinatorTypes, Present, WorkerTypes, RequestTypes, ChannelTypes, Stopped
<1>3. CASE Next
  BY <1>1, <1>3, TimelineStepTypes, WorkerStepTypesInv, StreamStepTypes, RequestStepTypes,
     CommandTypes, NotificationTypes, CrashTypes, RestartTypes DEF Next, CoordinatorStep
<1> QED BY <1>2, <1>3

(* In every reachable state a hook has one registration at most, is        *)
(* activated with its sequence, and whatever place its worker has reached, *)
(* in memory or in the delivery log, every event that was due up to there  *)
(* is settled (delivery.rs create_webhook, run_coordinator, replay_hook).  *)
THEOREM WebhooksInvariance == Spec => [](IInv /\ WebhookInv)
<1>1. Init => IInv /\ WebhookInv
  BY InitIInv, InitWebhookInv
<1>2. ASSUME IInv, WebhookInv, [Next]_vars PROVE IInv' /\ WebhookInv'
  <2>1. IInv'
    BY <1>2, NextKeepsIInv
  <2>2. TypesInv'
    BY <1>2, <2>1, TypesKept DEF WebhookInv
  <2>3. \A h \in Hooks : RegistrationInv(h)'
    BY <1>2, <2>1, <2>2, RegistrationKept DEF WebhookInv
  <2>4. \A h \in Hooks : WorkerInv(h)'
    BY <1>2, <2>1, <2>2, <2>3, WorkersKept DEF WebhookInv
  <2> QED BY <2>1, <2>2, <2>3, <2>4 DEF WebhookInv
<1>3. IInv /\ WebhookInv /\ [Next]_vars => IInv' /\ WebhookInv'
  BY <1>2
<1> QED BY <1>1, <1>3, PTL DEF Spec

(* The parts of TypeOK. *)
LEMMA TypesAreOK == ASSUME IInv, WebhookInv PROVE TypeOK
<1>1. TypesInv /\ \A h \in Hooks : WorkerInv(h)
  BY DEF WebhookInv
<1>2. log \in Seq(Records) /\ cpos <= sent /\ sent <= published /\ published <= MaxLog
  BY <1>1, TimelineFacts
<1>3. /\ commands \in Seq([op : {"reserve", "activate", "remove"}, hook : Hooks, seq : 0..MaxLog])
      /\ hooks \in [Hooks -> {"absent", "pending", "active"}]
      /\ Cardinality({h \in Hooks : hooks[h] # "absent"}) <= MaxHooks
      /\ regseq \in [Hooks -> 0..MaxLog]
  BY <1>1 DEF TypesInv, CoordinatorTypes, Commands, Present
<1>4. \A h \in Hooks : worker[h].pc \in {"post", "record"} => worker[h].todo # {}
  BY <1>1 DEF WorkerInv, BatchInv
<1>5. /\ poisoned \in BOOLEAN /\ up \in BOOLEAN /\ torn \in BOOLEAN
      /\ worker \in [Hooks -> Workers]
      /\ saved \in [Hooks -> SUBSET (1..MaxLog)] /\ settled \in [Hooks -> SUBSET (1..MaxLog)]
      /\ create \in [Hooks -> Requests] /\ delete \in [Hooks -> Requests]
      /\ \A s \in Streams : Len(stream[s].out) <= OutCap
  BY <1>1 DEF TypesInv, TimelineTypes, WorkerTypes, RequestTypes, ChannelTypes
<1> QED BY <1>2, <1>3, <1>4, <1>5 DEF TypeOK

(* What the workers know is what the property asks for. *)
LEMMA DeliveredFaithfully == ASSUME IInv, WebhookInv PROVE DeliveriesAreFaithful
<1>1. TypesInv /\ \A h \in Hooks : WorkerInv(h)
  BY DEF WebhookInv
<1>2. published \in Nat /\ Len(log) \in Nat /\ published <= Len(log) /\ MaxLog \in Nat
  BY <1>1, TimelineFacts
<1>3. DeliveredIsStable
  <2> SUFFICES ASSUME NEW h \in Hooks, NEW s \in settled[h] PROVE s <= published /\ Matches(s)
    BY DEF DeliveredIsStable
  <2>1. s \in 0..published /\ Matches(s)
    BY <1>1 DEF WorkerInv, Covered, Reached
  <2> QED BY <1>2, <2>1
<1>4. NothingSkipped
  <2> SUFFICES ASSUME NEW h \in Hooks, NEW i \in 1..published, NEW seq \in 1..published,
                      i < seq, log[i] = Bookkeeping("webhook_registered", h),
                      Matches(seq), seq \notin settled[h]
               PROVE  Progress(h) < seq /\ \A t \in settled[h] : t < seq
    BY DEF NothingSkipped
  <2>1. i \in Registered(h)
    BY <1>2 DEF Registered, Places
  <2>2. ASSUME NEW n \in Reached(h) PROVE n \in 0..published /\ n < seq
    <3>1. n \in 0..published /\ DueTo(h, n) \subseteq settled[h]
      BY <1>1 DEF WorkerInv, Covered
    <3>2. seq <= n => seq \in DueTo(h, n)
      BY <1>2, <2>1, <3>1 DEF DueTo
    <3> QED BY <1>2, <3>1, <3>2
  <2>3. Progress(h) < seq
    <3> DEFINE S == {regseq[h], worker[h].last, Restored(h, saved)}
    <3>1. saved[h] \in SUBSET (0..MaxLog)
      BY <1>1, <1>2 DEF TypesInv, WorkerTypes
    <3>2. saved[h] # {} => Greatest(saved[h]) \in saved[h]
      BY <1>2, <3>1, GreatestFacts
    <3>3. Restored(h, saved) = 0 \/ Restored(h, saved) \in Reached(h)
      BY <3>2 DEF Restored, Reached
    <3>4. \A n \in S : n = 0 \/ n \in Reached(h)
      BY <3>3 DEF Reached
    <3>5. \A n \in S : n \in 0..published /\ n < seq
      BY <1>2, <2>2, <3>4
    <3>6. S \in SUBSET (0..published) /\ S # {}
      BY <3>5
    <3> HIDE DEF S
    <3>7. Greatest(S) \in S
      BY <1>2, <3>6, GreatestFacts
    <3> QED BY <3>5, <3>7 DEF Progress, S
  <2>4. \A t \in settled[h] : t < seq
    BY <2>2 DEF Reached
  <2> QED BY <2>3, <2>4
<1> QED BY <1>3, <1>4 DEF DeliveriesAreFaithful

(* The state of the delivery runtime has its type: the coordinator never   *)
(* has more than MAX_WEBHOOKS entries, a worker that posts has something   *)
(* to post, an output channel never holds more than SSE_OUTPUT_CAP, and a  *)
(* receiver of the broadcast is never ahead of its sender.                 *)
THEOREM DeliveryTypeOK == Spec => []TypeOK
<1>1. IInv /\ WebhookInv => TypeOK
  BY TypesAreOK
<1> QED BY <1>1, WebhooksInvariance, PTL

(* A delivered event is on stable storage and keeps its number for good,   *)
(* and no hook is ever past an event that was neither delivered nor        *)
(* recorded as a dead letter (replay_hook), however many writes to the     *)
(* delivery log fail and however often the process crashes.                *)
THEOREM HooksFaithful == Spec => []DeliveriesAreFaithful
<1>1. IInv /\ WebhookInv => DeliveriesAreFaithful
  BY DeliveredFaithfully
<1> QED BY <1>1, WebhooksInvariance, PTL

---------------------------------------------------------------------------
(* The requests about a hook, the commands on their way to the coordinator *)
(* and its entry, against the records of the hook.                         *)

RegPublished(h) == \E i \in Registered(h) : i <= published
DelPublished(h) == \E i \in Deleted(h) : i <= published
Early(h) == \E i \in Deleted(h), j \in Registered(h) : i < j
Orderly == \A h \in Hooks : ~Early(h)
Once(o, h) == \A i, j \in At(o, h) : i = j

DeletionInv(h) ==
  /\ \A i, j \in Deleted(h) : i = j
  /\ delete[h].pc \in {"idle", "append"} => Deleted(h) = {}
  /\ delete[h].pc = "wait" => delete[h].seq \in Deleted(h)

(* A record that is not published is on its way, or never will be. *)
OnTheWay(l) == l \in {"wait", "gone"} \/ (l = "failed" /\ poisoned)
UnpublishedInv(h) ==
  up => /\ \A i \in Registered(h) : i <= published \/ OnTheWay(create[h].pc)
        /\ \A i \in Deleted(h) : i <= published \/ OnTheWay(delete[h].pc)

(* A queued command fits the request it came from. *)
ChannelInv(h) ==
  /\ create[h].pc = "idle" => /\ hooks[h] = "absent" /\ delete[h].pc = "idle"
                              /\ \A o \in {"reserve", "activate", "remove"} : ~Queued(o, h)
  /\ Queued("reserve", h) =>
       /\ create[h].pc \in {"reserve", "gone"} /\ delete[h].pc = "idle"
       /\ hooks[h] = "absent" /\ Registered(h) = {}
       /\ ~Queued("activate", h) /\ ~Queued("remove", h)
  /\ Queued("activate", h) => create[h].pc \in {"activate", "gone"}
  /\ Queued("remove", h) =>
       \/ DelPublished(h)
       \/ /\ create[h].pc = "failed" /\ ~RegPublished(h)
          /\ Registered(h) = {} \/ poisoned
  /\ Once("reserve", h) /\ Once("activate", h)

(* The entry of the coordinator fits the records. *)
EntryInv(h) ==
  up =>
  /\ hooks[h] = "active" => RegPublished(h)
  /\ create[h].pc \in {"append", "wait", "activate"} \/ Queued("activate", h) =>
       hooks[h] = "pending" \/ DelPublished(h)
  /\ hooks[h] # "absent" /\ DelPublished(h) =>
       Early(h) \/ delete[h].pc \in {"wait", "gone"} \/ Queued("remove", h)
  /\ create[h].pc \in {"done", "failed"} /\ Orderly /\ RegPublished(h) /\ ~DelPublished(h) =>
       hooks[h] = "active"

ProtocolInv(h) == DeletionInv(h) /\ UnpublishedInv(h) /\ ChannelInv(h) /\ EntryInv(h)

(* What a restart would find up to record n has a place. *)
TooEarly(h, n) == \E i \in Deleted(h), j \in Registered(h) : i < j /\ j <= n
RoomInv ==
  \A n \in published..Len(log) : (\A h \in Hooks : ~TooEarly(h, n)) =>
     /\ Cardinality(Configured(n)) <= MaxHooks
     /\ up /\ ~poisoned => Configured(n) \subseteq Present

(* A hook is configured when its last record is a registration. *)
LEMMA ConfiguredView ==
  IInv /\ TypesInv => \A n \in 0..Len(log), h \in Hooks :
    h \in Configured(n) <=>
      \E i \in Registered(h) : i <= n /\ \A j \in Registered(h) \cup Deleted(h) : j <= n => j <= i
<1> SUFFICES ASSUME IInv, TypesInv, NEW n \in 0..Len(log), NEW h \in Hooks
             PROVE  h \in Configured(n) <=>
                      \E i \in Registered(h) :
                        i <= n /\ \A j \in Registered(h) \cup Deleted(h) : j <= n => j <= i
  OBVIOUS
<1>1. Len(log) \in Nat /\ n \in Nat /\ n <= Len(log) /\ \A i \in 1..Len(log) : log[i] \in Records
  BY TimelineFacts
<1>2. ASSUME NEW j \in 1..Len(log)
      PROVE  log[j].hook = h <=> j \in Registered(h) \cup Deleted(h)
  <2>1. \A k : Bookkeeping(k, h).hook = h
    BY DEF Bookkeeping
  <2>2. j \in Registered(h) \cup Deleted(h) => log[j].hook = h
    BY <2>1 DEF Registered, Deleted, Places
  <2>3. ASSUME log[j].hook = h PROVE j \in Registered(h) \cup Deleted(h)
    <3>1. log[j].hook # "none"
      BY <2>3, HooksAssumption
    <3>2. log[j] \in [run : {HookRun}, kind : {"webhook_registered", "webhook_deleted"}, hook : Hooks]
      BY <1>1, <3>1 DEF Records
    <3>3. log[j] = [run |-> HookRun, kind |-> log[j].kind, hook |-> log[j].hook]
          /\ log[j].kind \in {"webhook_registered", "webhook_deleted"}
      BY <3>2
    <3>4. log[j] = Bookkeeping("webhook_registered", h) \/ log[j] = Bookkeeping("webhook_deleted", h)
      BY <2>3, <3>3 DEF Bookkeeping
    <3> QED BY <3>4 DEF Registered, Deleted, Places
  <2> QED BY <2>2, <2>3
<1>3. h \in Configured(n) <=> \E i \in 1..n : i \in Registered(h) /\ \A j \in i + 1 .. n : log[j].hook # h
  <2>1. h \in Configured(n) <=>
          \E i \in 1..n : /\ log[i] = Bookkeeping("webhook_registered", h)
                          /\ \A j \in i + 1 .. n : log[j].hook # h
    BY Zenon DEF Configured
  <2>2. \A i \in 1..n : i \in Registered(h) <=> log[i] = Bookkeeping("webhook_registered", h)
    BY <1>1 DEF Registered, Places
  <2> QED BY <2>1, <2>2, Zenon
<1>4. Registered(h) \subseteq 1..Len(log) /\ Deleted(h) \subseteq 1..Len(log)
  BY DEF Registered, Deleted, Places
<1>5. ASSUME NEW i \in 1..n
      PROVE  (\A j \in i + 1 .. n : log[j].hook # h)
               <=> (\A j \in Registered(h) \cup Deleted(h) : j <= n => j <= i)
  <2> DEFINE E == Registered(h) \cup Deleted(h)
  <2>1. E \subseteq 1..Len(log) /\ \A j \in 1..Len(log) : log[j].hook = h <=> j \in E
    BY <1>2, <1>4
  <2> HIDE DEF E
  <2>2. ASSUME \A j \in i + 1 .. n : log[j].hook # h, NEW j \in E, j <= n PROVE j <= i
    BY <1>1, <2>1, <2>2
  <2>3. ASSUME \A j \in E : j <= n => j <= i, NEW j \in i + 1 .. n PROVE log[j].hook # h
    <3>1. j \in 1..Len(log) /\ j <= n /\ ~(j <= i)
      BY <1>1
    <3> QED BY <2>1, <2>3, <3>1
  <2> QED BY <2>2, <2>3 DEF E
<1>6. \A i \in Registered(h) : i <= n => i \in 1..n
  BY <1>1, <1>4
<1>7. \A i \in 1..n : i <= n
  BY <1>1
<1> QED BY <1>3, <1>5, <1>6, <1>7

(* The same of the next state. *)
LEMMA ConfiguredViewNext ==
  (IInv /\ TypesInv)' => (\A n \in 0..Len(log), h \in Hooks :
    h \in Configured(n) <=>
      \E i \in Registered(h) : i <= n /\ \A j \in Registered(h) \cup Deleted(h) : j <= n => j <= i)'
BY ConfiguredView, PTL

Ops == {"reserve", "activate", "remove"}

(* What a step leaves of the requests, the commands and the entry of h. *)
LEMMA ProtocolFrame ==
  ASSUME NEW h \in Hooks, ProtocolInv(h), up' = up, published' = published, poisoned => poisoned',
         create'[h] = create[h], delete'[h] = delete[h], hooks'[h] = hooks[h],
         Registered(h)' = Registered(h), Deleted(h)' = Deleted(h),
         \A o \in Ops : (Queued(o, h)' <=> Queued(o, h)) /\ (Once(o, h) => Once(o, h)'),
         Orderly' => Orderly
  PROVE  ProtocolInv(h)'
<1>1. /\ RegPublished(h)' <=> RegPublished(h)
      /\ DelPublished(h)' <=> DelPublished(h)
      /\ Early(h)' <=> Early(h)
  BY DEF RegPublished, DelPublished, Early
<1>2. \A l : OnTheWay(l) => OnTheWay(l)'
  BY DEF OnTheWay
<1>3. DeletionInv(h)'
  BY DEF ProtocolInv, DeletionInv
<1>4. UnpublishedInv(h)'
  <2>1. UnpublishedInv(h)
    BY DEF ProtocolInv
  <2> QED BY <2>1 DEF UnpublishedInv, OnTheWay
<1>5. ChannelInv(h)'
  <2>1. ChannelInv(h)
    BY DEF ProtocolInv
  <2> HIDE DEF Registered, Deleted
  <2> QED BY <1>1, <2>1 DEF ChannelInv, Ops
<1>6. EntryInv(h)'
  <2>1. EntryInv(h)
    BY DEF ProtocolInv
  <2> QED BY <1>1, <2>1 DEF EntryInv, Ops
<1> QED BY <1>3, <1>4, <1>5, <1>6 DEF ProtocolInv

(* Steps that touch neither requests nor commands, and publish nothing. *)
LEMMA OrderlyBefore ==
  ASSUME \A h \in Hooks : Registered(h) \subseteq Registered(h)' /\ Deleted(h) \subseteq Deleted(h)'
  PROVE  Orderly' => Orderly
BY DEF Orderly, Early

(* Commands that nobody touches. *)
LEMMA SameCommands ==
  ASSUME commands' = commands
  PROVE  \A o, h : At(o, h)' = At(o, h) /\ (Queued(o, h)' <=> Queued(o, h)) /\ (Once(o, h)' <=> Once(o, h))
BY DEF Queued, Once, At

(* Steps of others that publish nothing. *)
LEMMA BystandersKeepProtocol ==
  ASSUME IInv, TypesInv, Bystanders, published' = published, poisoned => poisoned',
         \A h \in Hooks : ProtocolInv(h)
  PROVE  \A h \in Hooks : ProtocolInv(h)'
<1>1. UNCHANGED <<commands, hooks, create, delete, up>>
  BY BystanderFacts
<1>2. \A h \in Hooks : Registered(h)' = Registered(h) /\ Deleted(h)' = Deleted(h)
  BY BystanderFacts DEF Registered, Deleted, BookkeepingKinds
<1>3. Orderly' => Orderly
  BY <1>2, OrderlyBefore
<1> TAKE h \in Hooks
<1>4. \A o \in Ops : (Queued(o, h)' <=> Queued(o, h)) /\ (Once(o, h) => Once(o, h)')
  BY <1>1, SameCommands
<1> QED BY <1>1, <1>2, <1>3, <1>4, ProtocolFrame

(* A sync that succeeds leaves nothing on the way to fail. *)
LEMMA SyncKeepsProtocol ==
  ASSUME IInv, TypesInv, SyncBatch, NEW h \in Hooks, ProtocolInv(h), RegistrationInv(h)
  PROVE  ProtocolInv(h)'
<1>1. /\ up /\ ~poisoned /\ published' = Len(log)
      /\ UNCHANGED <<log, poisoned, up, commands, hooks, create, delete>>
  BY DEF SyncBatch, coordinator, requests
<1>2. /\ Registered(h)' = Registered(h) /\ Deleted(h)' = Deleted(h)
      /\ \A f \in Hooks : Registered(f)' = Registered(f) /\ Deleted(f)' = Deleted(f)
  BY <1>1 DEF Registered, Deleted, Places
<1>3. \A o : (Queued(o, h)' <=> Queued(o, h)) /\ (Once(o, h)' <=> Once(o, h))
  BY <1>1, SameCommands
<1>4. Orderly' => Orderly
  BY <1>2, OrderlyBefore
<1>5. /\ \A i \in Registered(h) : i \in Nat /\ i <= published'
      /\ \A i \in Deleted(h) : i \in Nat /\ i <= published'
      /\ published \in Nat
  <2>1. Len(log) \in Nat /\ published \in Nat
    BY TimelineFacts
  <2> QED BY <1>1, <2>1 DEF Registered, Deleted, Places
<1>6. /\ RegPublished(h)' <=> Registered(h) # {}
      /\ DelPublished(h)' <=> Deleted(h) # {}
      /\ Early(h)' <=> Early(h)
  BY <1>2, <1>5 DEF RegPublished, DelPublished, Early
<1>7. /\ Registered(h) # {} => RegPublished(h) \/ create[h].pc \in {"wait", "gone"}
      /\ Deleted(h) # {} => DelPublished(h) \/ delete[h].pc \in {"wait", "gone"}
      /\ RegPublished(h) => Registered(h) # {}
      /\ DelPublished(h) => Deleted(h) # {}
  BY <1>1 DEF ProtocolInv, UnpublishedInv, OnTheWay, RegPublished, DelPublished
<1> HIDE DEF Registered, Deleted
<1>8. DeletionInv(h)'
  BY <1>1, <1>2 DEF ProtocolInv, DeletionInv
<1>9. UnpublishedInv(h)'
  BY <1>2, <1>5 DEF UnpublishedInv
<1>10. ChannelInv(h)'
  <2>1. ChannelInv(h)
    BY DEF ProtocolInv
  <2> QED BY <1>1, <1>2, <1>3, <1>6, <1>7, <2>1 DEF ChannelInv
<1>11. EntryInv(h)'
  <2>1. EntryInv(h)
    BY DEF ProtocolInv
  <2> QED BY <1>1, <1>3, <1>4, <1>6, <1>7, <2>1 DEF EntryInv
<1> QED BY <1>8, <1>9, <1>10, <1>11 DEF ProtocolInv

(* What a sent command adds to the queue. *)
LEMMA SentFacts ==
  ASSUME TypesInv, NEW h \in Hooks, NEW o \in Ops, NEW n \in 0..MaxLog,
         commands' = Append(commands, Command(o, h, n))
  PROVE  /\ \A p, g : Queued(p, g)' <=> Queued(p, g) \/ (p = o /\ g = h)
         /\ \A p, g : p # o \/ g # h => (Once(p, g)' <=> Once(p, g))
         /\ ~Queued(o, h) => Once(o, h)'
<1> DEFINE c == Command(o, h, n)
<1>1. c \in Commands /\ c.op = o /\ c.hook = h
  BY DEF Command, Commands, Ops
<1>2. commands \in Seq(Commands) /\ commands' = Append(commands, c)
  BY DEF TypesInv, CoordinatorTypes
<1> HIDE DEF c
<1>3. /\ \A p, g : At(p, g)' = IF c.op = p /\ c.hook = g
                               THEN At(p, g) \cup {Len(commands) + 1} ELSE At(p, g)
      /\ \A p, g : Queued(p, g)' <=> Queued(p, g) \/ (c.op = p /\ c.hook = g)
  BY <1>1, <1>2, SendFacts
<1>4. \A p, g : p # o \/ g # h => At(p, g)' = At(p, g)
  BY <1>1, <1>3
<1>5. \A p, g : p # o \/ g # h => (Once(p, g)' <=> Once(p, g))
  BY <1>4 DEF Once
<1>6. ~Queued(o, h) => At(o, h)' = {Len(commands) + 1}
  BY <1>1, <1>3 DEF Queued
<1>7. ~Queued(o, h) => Once(o, h)'
  BY <1>6 DEF Once
<1>8. \A p, g : Queued(p, g)' <=> Queued(p, g) \/ (p = o /\ g = h)
  BY <1>1, <1>3
<1> QED BY <1>5, <1>7, <1>8

(* The requests about one hook leave the others alone. *)
Requesting(h) ==
  \/ CreateReserve(h) \/ DeleteList(h) \/ StageBookkeeping(h)
  \/ AppendRefused(h) \/ AppendAnswered(h) \/ Disconnect(h)

(* They do. *)
LEMMA OtherRequests ==
  ASSUME IInv, TypesInv, NEW h \in Hooks, Requesting(h), NEW g \in Hooks, g # h, ProtocolInv(g)
  PROVE  ProtocolInv(g)'
<1>1. UNCHANGED <<hooks, published, poisoned, up>>
  BY DEF Requesting, CreateReserve, DeleteList, StageBookkeeping, AppendRefused, AppendAnswered,
         Disconnect, timeline, coordinator
<1>2. create \in [Hooks -> Requests] /\ delete \in [Hooks -> Requests]
  BY DEF TypesInv, RequestTypes
<1>3. create'[g] = create[g] /\ delete'[g] = delete[g]
  <2>1. ASSUME NEW r \in [Hooks -> Requests], NEW l PROVE Goto(r, h, l)[g] = r[g]
    BY DEF Goto
  <2>2. /\ create' = create \/ (\E v : create' = [create EXCEPT ![h] = v]) \/ (\E l : create' = Goto(create, h, l))
        /\ delete' = delete \/ (\E v : delete' = [delete EXCEPT ![h] = v]) \/ (\E l : delete' = Goto(delete, h, l))
    <3>1. CASE StageBookkeeping(h)
      BY <3>1, Zenon DEF StageBookkeeping
    <3>2. CASE CreateReserve(h) \/ DeleteList(h) \/ AppendRefused(h) \/ AppendAnswered(h) \/ Disconnect(h)
      BY <3>2, Zenon DEF CreateReserve, DeleteList, AppendRefused, AppendAnswered, Disconnect
    <3> QED BY <3>1, <3>2 DEF Requesting
  <2> QED BY <1>2, <2>1, <2>2
<1>4. \A o \in Ops : (Queued(o, g)' <=> Queued(o, g)) /\ (Once(o, g) => Once(o, g)')
  <2>1. \/ commands' = commands
        \/ \E o \in Ops, n \in 0..MaxLog : commands' = Append(commands, Command(o, h, n))
    <3>1. create[h].seq \in 0..MaxLog /\ 0 \in 0..MaxLog
      BY <1>2, Caps DEF Requests
    <3> QED BY <3>1 DEF Requesting, CreateReserve, DeleteList, StageBookkeeping, AppendRefused,
            AppendAnswered, Disconnect, coordinator, Ops
  <2>2. CASE commands' = commands
    BY <2>2, SameCommands
  <2>3. ASSUME NEW o \in Ops, NEW n \in 0..MaxLog, commands' = Append(commands, Command(o, h, n))
        PROVE  \A p \in Ops : (Queued(p, g)' <=> Queued(p, g)) /\ (Once(p, g) => Once(p, g)')
    BY <2>3, SentFacts
  <2> QED BY <2>1, <2>2, <2>3
<1>5. /\ \A f \in Hooks : Registered(f) \subseteq Registered(f)' /\ Deleted(f) \subseteq Deleted(f)'
      /\ Registered(g)' = Registered(g) /\ Deleted(g)' = Deleted(g)
  <2>1. CASE log' = log
    BY <2>1 DEF Registered, Deleted, Places
  <2>2. ASSUME NEW k \in BookkeepingKinds, log' = Append(log, Bookkeeping(k, h))
        PROVE /\ \A f \in Hooks : Registered(f) \subseteq Registered(f)' /\ Deleted(f) \subseteq Deleted(f)'
              /\ Registered(g)' = Registered(g) /\ Deleted(g)' = Deleted(g)
    <3>1. Bookkeeping(k, h) \in Records /\ \A l : Bookkeeping(k, h) # Bookkeeping(l, g)
      BY BookkeepingFacts
    <3>2. /\ \A l : Places(l, g)' = Places(l, g)
          /\ \A l, f : Places(l, f) \subseteq Places(l, f)'
      BY <2>2, <3>1, AppendedPlaces
    <3> QED BY <3>2 DEF Registered, Deleted
  <2>3. log' = log \/ \E k \in BookkeepingKinds : log' = Append(log, Bookkeeping(k, h))
    BY DEF Requesting, CreateReserve, DeleteList, StageBookkeeping, AppendRefused, AppendAnswered,
           Disconnect, timeline, BookkeepingKinds
  <2> QED BY <2>1, <2>2, <2>3
<1>6. Orderly' => Orderly
  BY <1>5, OrderlyBefore
<1> QED BY <1>1, <1>3, <1>4, <1>5, <1>6, ProtocolFrame

(* A request that moves on. *)
LEMMA MovesOn ==
  ASSUME TypesInv, NEW h \in Hooks
  PROVE  /\ \A l \in RequestPCs : create' = Goto(create, h, l) =>
              create'[h].pc = l /\ create'[h].seq = create[h].seq
         /\ \A l \in RequestPCs : delete' = Goto(delete, h, l) =>
              delete'[h].pc = l /\ delete'[h].seq = delete[h].seq
<1>1. create \in [Hooks -> Requests] /\ delete \in [Hooks -> Requests]
  BY DEF TypesInv, RequestTypes
<1>2. ASSUME NEW r \in [Hooks -> Requests], NEW l \in RequestPCs
      PROVE  Goto(r, h, l)[h].pc = l /\ Goto(r, h, l)[h].seq = r[h].seq
  BY GotoFacts
<1> QED BY <1>1, <1>2

(* The log as it was. *)
LEMMA SameRecords ==
  ASSUME NEW h \in Hooks, UNCHANGED <<log, published>>
  PROVE  /\ Registered(h)' = Registered(h) /\ Deleted(h)' = Deleted(h)
         /\ RegPublished(h)' <=> RegPublished(h)
         /\ DelPublished(h)' <=> DelPublished(h)
         /\ Early(h)' <=> Early(h)
         /\ Orderly' <=> Orderly
<1>1. \A g : Registered(g)' = Registered(g) /\ Deleted(g)' = Deleted(g)
  BY DEF Registered, Deleted, Places
<1> QED BY <1>1 DEF RegPublished, DelPublished, Early, Orderly

(* A request to register is the first anybody makes of its hook. *)
LEMMA ReserveKeepsProtocol ==
  ASSUME IInv, TypesInv, NEW h \in Hooks, CreateReserve(h), ProtocolInv(h), RegistrationInv(h)
  PROVE  ProtocolInv(h)'
<1>1. /\ up /\ create[h].pc = "idle" /\ create' = Goto(create, h, "reserve")
      /\ commands' = Append(commands, Command("reserve", h, 0))
      /\ UNCHANGED <<log, published, poisoned, up, hooks, delete>>
  BY DEF CreateReserve, timeline
<1>2. create'[h].pc = "reserve"
  BY <1>1, MovesOn DEF RequestPCs
<1>3. /\ hooks[h] = "absent" /\ delete[h].pc = "idle" /\ Registered(h) = {}
      /\ ~Queued("reserve", h) /\ ~Queued("activate", h) /\ ~Queued("remove", h)
      /\ Deleted(h) = {}
  BY <1>1 DEF ProtocolInv, ChannelInv, RegistrationInv, DeletionInv
<1>4. /\ Queued("reserve", h)' /\ ~Queued("activate", h)' /\ ~Queued("remove", h)'
      /\ Once("reserve", h)'
      /\ Once("activate", h)' <=> Once("activate", h)
  BY <1>1, <1>3, SentFacts, Caps DEF Ops
<1>5. /\ Registered(h)' = {} /\ Deleted(h)' = {} /\ ~RegPublished(h)' /\ ~DelPublished(h)'
  <2>1. Registered(h)' = {} /\ Deleted(h)' = {}
    BY <1>1, <1>3, SameRecords
  <2> QED BY <2>1 DEF RegPublished, DelPublished
<1> HIDE DEF Registered, Deleted
<1>6. Once("activate", h)
  BY DEF ProtocolInv, ChannelInv
<1>7. DeletionInv(h)'
  BY <1>1, <1>3, <1>5 DEF DeletionInv
<1>8. UnpublishedInv(h)'
  BY <1>5 DEF UnpublishedInv
<1>9. ChannelInv(h)'
  BY <1>1, <1>2, <1>3, <1>4, <1>5, <1>6 DEF ChannelInv
<1>10. EntryInv(h)'
  BY <1>1, <1>2, <1>3, <1>4, <1>5 DEF EntryInv
<1> QED BY <1>7, <1>8, <1>9, <1>10 DEF ProtocolInv

(* DELETE found the hook; it has not been deleted before. *)
LEMMA ListKeepsProtocol ==
  ASSUME IInv, TypesInv, NEW h \in Hooks, DeleteList(h), ProtocolInv(h)
  PROVE  ProtocolInv(h)'
<1>1. /\ up /\ delete[h].pc = "idle" /\ hooks[h] # "absent" /\ delete' = Goto(delete, h, "append")
      /\ UNCHANGED <<log, published, poisoned, up, hooks, commands, create>>
  BY DEF DeleteList, timeline, coordinator
<1>2. delete'[h].pc = "append"
  BY <1>1, MovesOn DEF RequestPCs
<1>3. /\ Registered(h)' = Registered(h) /\ Deleted(h)' = Deleted(h)
      /\ RegPublished(h)' <=> RegPublished(h)
      /\ DelPublished(h)' <=> DelPublished(h)
      /\ Orderly' <=> Orderly
  BY <1>1, SameRecords
<1>4. \A o : (Queued(o, h)' <=> Queued(o, h)) /\ (Once(o, h)' <=> Once(o, h))
  BY <1>1, SameCommands
<1>5. Deleted(h) = {} /\ ~DelPublished(h)
  BY <1>1 DEF ProtocolInv, DeletionInv, DelPublished
<1> HIDE DEF Registered, Deleted
<1>6. DeletionInv(h)'
  BY <1>2, <1>3, <1>5 DEF DeletionInv
<1>7. UnpublishedInv(h)'
  <2>1. UnpublishedInv(h)
    BY DEF ProtocolInv
  <2> QED BY <1>1, <1>3, <1>5, <2>1 DEF UnpublishedInv, OnTheWay
<1>8. ChannelInv(h)'
  <2>1. ChannelInv(h)
    BY DEF ProtocolInv
  <2> QED BY <1>1, <1>2, <1>3, <1>4, <2>1 DEF ChannelInv
<1>9. EntryInv(h)'
  <2>1. EntryInv(h)
    BY DEF ProtocolInv
  <2> QED BY <1>1, <1>3, <1>4, <1>5, <2>1 DEF EntryInv
<1> QED BY <1>6, <1>7, <1>8, <1>9 DEF ProtocolInv

(* A dropped request leaves its append and its command on their way. *)
LEMMA DisconnectKeepsProtocol ==
  ASSUME IInv, TypesInv, NEW h \in Hooks, Disconnect(h), ProtocolInv(h)
  PROVE  ProtocolInv(h)'
<1>1. /\ up
      /\ UNCHANGED <<log, published, poisoned, up, hooks, commands>>
      /\ \/ InProgress(create[h]) /\ create' = Goto(create, h, "gone") /\ delete' = delete
         \/ InProgress(delete[h]) /\ delete' = Goto(delete, h, "gone") /\ create' = create
  BY DEF Disconnect, timeline, coordinator
<1>2. \/ /\ create[h].pc \in {"reserve", "append", "wait", "activate"}
         /\ create'[h].pc = "gone" /\ delete'[h] = delete[h]
      \/ /\ delete[h].pc \in {"reserve", "append", "wait", "activate"}
         /\ delete'[h].pc = "gone" /\ create'[h] = create[h]
  BY <1>1, MovesOn DEF RequestPCs, InProgress
<1>3. /\ Registered(h)' = Registered(h) /\ Deleted(h)' = Deleted(h)
      /\ RegPublished(h)' <=> RegPublished(h)
      /\ DelPublished(h)' <=> DelPublished(h)
      /\ Early(h)' <=> Early(h)
      /\ Orderly' <=> Orderly
  BY <1>1, SameRecords
<1>4. \A o : (Queued(o, h)' <=> Queued(o, h)) /\ (Once(o, h)' <=> Once(o, h))
  BY <1>1, SameCommands
<1> HIDE DEF Registered, Deleted
<1>5. DeletionInv(h)'
  BY <1>2, <1>3 DEF ProtocolInv, DeletionInv
<1>6. UnpublishedInv(h)'
  <2>1. UnpublishedInv(h)
    BY DEF ProtocolInv
  <2> QED BY <1>1, <1>2, <1>3, <2>1 DEF UnpublishedInv, OnTheWay
<1>7. ChannelInv(h)'
  <2>1. ChannelInv(h)
    BY DEF ProtocolInv
  <2> QED BY <1>1, <1>2, <1>3, <1>4, <2>1 DEF ChannelInv
<1>8. EntryInv(h)'
  <2>1. EntryInv(h)
    BY DEF ProtocolInv
  <2> QED BY <1>1, <1>2, <1>3, <1>4, <2>1 DEF EntryInv
<1> QED BY <1>5, <1>6, <1>7, <1>8 DEF ProtocolInv

(* A refused registration is removed; it never gets into the log. *)
LEMMA RefusedKeepsProtocol ==
  ASSUME IInv, TypesInv, NEW h \in Hooks, AppendRefused(h), ProtocolInv(h), RegistrationInv(h)
  PROVE  ProtocolInv(h)'
<1>1. UNCHANGED <<log, published, poisoned, up, hooks>> /\ up
  BY DEF AppendRefused, timeline, Refused
<1>2. /\ Registered(h)' = Registered(h) /\ Deleted(h)' = Deleted(h)
      /\ RegPublished(h)' <=> RegPublished(h)
      /\ DelPublished(h)' <=> DelPublished(h)
      /\ Early(h)' <=> Early(h)
      /\ Orderly' <=> Orderly
  BY <1>1, SameRecords
<1>3. published \in Nat /\ Registered(h) \subseteq Nat /\ Deleted(h) \subseteq Nat
  <2>1. Len(log) \in Nat /\ published \in Nat
    BY TimelineFacts
  <2> QED BY <2>1 DEF Registered, Deleted, Places
<1>4. DeletionInv(h) /\ UnpublishedInv(h) /\ ChannelInv(h) /\ EntryInv(h)
  BY DEF ProtocolInv
<1>5. CASE /\ Refused(create[h]) /\ create' = Goto(create, h, "failed") /\ delete' = delete
           /\ commands' = Append(commands, Command("remove", h, 0))
  <2>1. create'[h].pc = "failed"
    BY <1>5, MovesOn DEF RequestPCs
  <2>2. /\ create[h].pc \in {"append", "wait"}
        /\ Registered(h) = {} \/ poisoned
        /\ ~RegPublished(h)
    <3>1. CASE create[h].pc = "append"
      BY <3>1 DEF RegistrationInv, RegPublished
    <3>2. CASE create[h].pc = "wait" /\ poisoned /\ create[h].seq > published
      <4>1. create[h].seq \in Registered(h) /\ \A i \in Registered(h) : i = create[h].seq
        BY <3>2 DEF RegistrationInv
      <4>2. \A i \in Registered(h) : ~(i <= published)
        BY <1>3, <3>2, <4>1
      <4> QED BY <3>2, <4>2 DEF RegPublished
    <3> QED BY <1>5, <3>1, <3>2 DEF Refused
  <2>3. /\ Queued("remove", h)'
        /\ Queued("reserve", h)' <=> Queued("reserve", h)
        /\ Queued("activate", h)' <=> Queued("activate", h)
        /\ Once("reserve", h)' <=> Once("reserve", h)
        /\ Once("activate", h)' <=> Once("activate", h)
    BY <1>5, SentFacts, Caps DEF Ops
  <2> HIDE DEF Registered, Deleted
  <2>4. DeletionInv(h)'
    BY <1>2, <1>4, <1>5 DEF DeletionInv
  <2>5. UnpublishedInv(h)'
    BY <1>1, <1>2, <1>4, <1>5, <2>1, <2>2 DEF UnpublishedInv, OnTheWay
  <2>6. ChannelInv(h)'
    BY <1>1, <1>2, <1>4, <1>5, <2>1, <2>2, <2>3 DEF ChannelInv
  <2>7. EntryInv(h)'
    <3>1. ~Queued("activate", h)
      BY <1>4, <2>2 DEF ChannelInv
    <3> QED BY <1>1, <1>2, <1>4, <1>5, <2>1, <2>2, <2>3, <3>1 DEF EntryInv
  <2> QED BY <2>4, <2>5, <2>6, <2>7 DEF ProtocolInv
<1>6. CASE /\ Refused(delete[h]) /\ delete' = Goto(delete, h, "failed")
           /\ create' = create /\ commands' = commands
  <2>1. delete'[h].pc = "failed"
    BY <1>6, MovesOn DEF RequestPCs
  <2>2. /\ delete[h].pc \in {"append", "wait"}
        /\ Deleted(h) = {} \/ poisoned
        /\ ~DelPublished(h)
    <3>1. CASE delete[h].pc = "append"
      BY <1>4, <3>1 DEF DeletionInv, DelPublished
    <3>2. CASE delete[h].pc = "wait" /\ poisoned /\ delete[h].seq > published
      <4>1. delete[h].seq \in Deleted(h) /\ \A i \in Deleted(h) : i = delete[h].seq
        BY <1>4, <3>2 DEF DeletionInv
      <4>2. \A i \in Deleted(h) : ~(i <= published)
        BY <1>3, <3>2, <4>1
      <4> QED BY <3>2, <4>2 DEF DelPublished
    <3> QED BY <1>6, <3>1, <3>2 DEF Refused
  <2>3. \A o : (Queued(o, h)' <=> Queued(o, h)) /\ (Once(o, h)' <=> Once(o, h))
    BY <1>6, SameCommands
  <2> HIDE DEF Registered, Deleted
  <2>4. DeletionInv(h)'
    BY <1>2, <1>4, <2>1 DEF DeletionInv
  <2>5. UnpublishedInv(h)'
    BY <1>1, <1>2, <1>4, <1>6, <2>1, <2>2 DEF UnpublishedInv, OnTheWay
  <2>6. ChannelInv(h)'
    BY <1>1, <1>2, <1>4, <1>6, <2>1, <2>2, <2>3 DEF ChannelInv
  <2>7. EntryInv(h)'
    BY <1>1, <1>2, <1>4, <1>6, <2>1, <2>2, <2>3 DEF EntryInv
  <2> QED BY <2>4, <2>5, <2>6, <2>7 DEF ProtocolInv
<1> QED BY <1>5, <1>6 DEF AppendRefused

(* An answered append is published, and its command is sent. *)
LEMMA AnswerKeepsProtocol ==
  ASSUME IInv, TypesInv, NEW h \in Hooks, AppendAnswered(h), ProtocolInv(h), RegistrationInv(h)
  PROVE  ProtocolInv(h)'
<1>1. UNCHANGED <<log, published, poisoned, up, hooks>> /\ up
  BY DEF AppendAnswered, timeline
<1>2. /\ Registered(h)' = Registered(h) /\ Deleted(h)' = Deleted(h)
      /\ RegPublished(h)' <=> RegPublished(h)
      /\ DelPublished(h)' <=> DelPublished(h)
      /\ Early(h)' <=> Early(h)
      /\ Orderly' <=> Orderly
  BY <1>1, SameRecords
<1>3. /\ published \in Nat /\ sent \in Nat /\ sent <= published
      /\ Registered(h) \subseteq Nat /\ Deleted(h) \subseteq Nat
  <2>1. Len(log) \in Nat /\ published \in Nat /\ sent \in Nat /\ sent <= published
    BY TimelineFacts
  <2> QED BY <2>1 DEF Registered, Deleted, Places
<1>4. DeletionInv(h) /\ UnpublishedInv(h) /\ ChannelInv(h) /\ EntryInv(h)
  BY DEF ProtocolInv
<1>5. CASE /\ create[h].pc = "wait" /\ create[h].seq <= sent
           /\ create' = Goto(create, h, "activate") /\ delete' = delete
           /\ commands' = Append(commands, Command("activate", h, create[h].seq))
  <2>1. create'[h].pc = "activate"
    BY <1>5, MovesOn DEF RequestPCs
  <2>2. \A i \in Registered(h) : i <= published
    <3>1. create[h].seq \in Registered(h) /\ \A i \in Registered(h) : i = create[h].seq
      BY <1>5 DEF RegistrationInv
    <3> QED BY <1>3, <1>5, <3>1
  <2>3. ~Queued("activate", h)
    BY <1>4, <1>5 DEF ChannelInv
  <2>4. create[h].seq \in 0..MaxLog
    BY DEF TypesInv, RequestTypes, Requests
  <2>5. /\ Queued("activate", h)'
        /\ Queued("reserve", h)' <=> Queued("reserve", h)
        /\ Queued("remove", h)' <=> Queued("remove", h)
        /\ Once("reserve", h)' <=> Once("reserve", h)
        /\ Once("activate", h)'
    BY <1>5, <2>3, <2>4, SentFacts DEF Ops
  <2> HIDE DEF Registered, Deleted
  <2>6. DeletionInv(h)'
    BY <1>2, <1>4, <1>5 DEF DeletionInv
  <2>7. UnpublishedInv(h)'
    BY <1>1, <1>2, <1>4, <1>5, <2>2 DEF UnpublishedInv, OnTheWay
  <2>8. ChannelInv(h)'
    BY <1>1, <1>2, <1>4, <1>5, <2>1, <2>5 DEF ChannelInv
  <2>9. EntryInv(h)'
    BY <1>1, <1>2, <1>4, <1>5, <2>1, <2>5 DEF EntryInv
  <2> QED BY <2>6, <2>7, <2>8, <2>9 DEF ProtocolInv
<1>6. CASE /\ delete[h].pc = "wait" /\ delete[h].seq <= sent
           /\ delete' = Goto(delete, h, "done") /\ create' = create
           /\ commands' = Append(commands, Command("remove", h, 0))
  <2>1. delete'[h].pc = "done"
    BY <1>6, MovesOn DEF RequestPCs
  <2>2. DelPublished(h) /\ \A i \in Deleted(h) : i <= published
    <3>1. delete[h].seq \in Deleted(h) /\ \A i \in Deleted(h) : i = delete[h].seq
      BY <1>4, <1>6 DEF DeletionInv
    <3> QED BY <1>3, <1>6, <3>1 DEF DelPublished
  <2>3. /\ Queued("remove", h)'
        /\ Queued("reserve", h)' <=> Queued("reserve", h)
        /\ Queued("activate", h)' <=> Queued("activate", h)
        /\ Once("reserve", h)' <=> Once("reserve", h)
        /\ Once("activate", h)' <=> Once("activate", h)
    BY <1>6, SentFacts, Caps DEF Ops
  <2> HIDE DEF Registered, Deleted
  <2>4. DeletionInv(h)'
    BY <1>2, <1>4, <2>1 DEF DeletionInv
  <2>5. UnpublishedInv(h)'
    BY <1>1, <1>2, <1>4, <1>6, <2>2 DEF UnpublishedInv, OnTheWay
  <2>6. ChannelInv(h)'
    BY <1>1, <1>2, <1>4, <1>6, <2>1, <2>2, <2>3 DEF ChannelInv
  <2>7. EntryInv(h)'
    BY <1>1, <1>2, <1>4, <1>6, <2>1, <2>3 DEF EntryInv
  <2> QED BY <2>4, <2>5, <2>6, <2>7 DEF ProtocolInv
<1> QED BY <1>5, <1>6 DEF AppendAnswered

(* A staged record is on its way. *)
LEMMA StagingKeepsProtocol ==
  ASSUME IInv, TypesInv, NEW h \in Hooks, StageBookkeeping(h), ProtocolInv(h), RegistrationInv(h)
  PROVE  ProtocolInv(h)'
<1> DEFINE n == Len(log) + 1
           v == [pc |-> "wait", seq |-> n]
<1>1. UNCHANGED <<published, poisoned, up, hooks, commands>> /\ up
  BY DEF StageBookkeeping, CanStage, coordinator
<1>2. \A o : (Queued(o, h)' <=> Queued(o, h)) /\ (Once(o, h)' <=> Once(o, h))
  BY <1>1, SameCommands
<1>3. /\ published \in Nat /\ n \in Nat /\ ~(n <= published)
      /\ \A i \in Registered(h) \cup Deleted(h) : i \in Nat /\ i < n
  <2>1. Len(log) \in Nat /\ published \in Nat /\ published <= Len(log)
    BY TimelineFacts
  <2> QED BY <2>1 DEF Registered, Deleted, Places
<1>4. DeletionInv(h) /\ UnpublishedInv(h) /\ ChannelInv(h) /\ EntryInv(h)
  BY DEF ProtocolInv
<1>5. create \in [Hooks -> Requests] /\ delete \in [Hooks -> Requests]
  BY DEF TypesInv, RequestTypes
<1>6. ASSUME NEW k \in BookkeepingKinds, log' = Append(log, Bookkeeping(k, h))
      PROVE  /\ \A l \in BookkeepingKinds : Places(l, h)' = IF k = l THEN Places(l, h) \cup {n} ELSE Places(l, h)
             /\ Orderly' => Orderly
  <2>1. Bookkeeping(k, h) \in Records /\ \A l : (Bookkeeping(k, h) = Bookkeeping(l, h)) <=> k = l
    BY BookkeepingFacts
  <2>2. \A l, f : Places(l, f)' = IF Bookkeeping(k, h) = Bookkeeping(l, f)
                                  THEN Places(l, f) \cup {n} ELSE Places(l, f)
    BY <1>6, <2>1, AppendedPlaces
  <2>3. \A f \in Hooks : Registered(f) \subseteq Registered(f)' /\ Deleted(f) \subseteq Deleted(f)'
    BY <2>2 DEF Registered, Deleted
  <2> QED BY <2>1, <2>2, <2>3, OrderlyBefore
<1>7. CASE /\ create[h].pc = "append" /\ create' = [create EXCEPT ![h] = v] /\ delete' = delete
           /\ log' = Append(log, Bookkeeping("webhook_registered", h))
  <2>1. create'[h].pc = "wait"
    BY <1>5, <1>7
  <2>2. Registered(h) = {} /\ ~RegPublished(h)
    BY <1>7 DEF RegistrationInv, RegPublished
  <2>3. Registered(h)' = {n} /\ Deleted(h)' = Deleted(h) /\ (Orderly' => Orderly)
    BY <1>6, <1>7, <2>2 DEF Registered, Deleted, BookkeepingKinds
  <2>4. ~RegPublished(h)' /\ (DelPublished(h)' <=> DelPublished(h)) /\ (Early(h) => Early(h)')
    BY <1>1, <1>3, <2>2, <2>3 DEF RegPublished, DelPublished, Early
  <2> HIDE DEF Registered, Deleted, n
  <2>5. DeletionInv(h)'
    BY <1>4, <1>7, <2>3 DEF DeletionInv
  <2>6. UnpublishedInv(h)'
    BY <1>1, <1>4, <1>7, <2>1, <2>3 DEF UnpublishedInv, OnTheWay
  <2>7. ChannelInv(h)'
    BY <1>1, <1>2, <1>4, <1>7, <2>1, <2>4 DEF ChannelInv
  <2>8. EntryInv(h)'
    BY <1>1, <1>2, <1>4, <1>7, <2>1, <2>2, <2>4 DEF EntryInv
  <2> QED BY <2>5, <2>6, <2>7, <2>8 DEF ProtocolInv
<1>8. CASE /\ delete[h].pc = "append" /\ delete' = [delete EXCEPT ![h] = v] /\ create' = create
           /\ log' = Append(log, Bookkeeping("webhook_deleted", h))
  <2>1. delete'[h].pc = "wait" /\ delete'[h].seq = n
    BY <1>5, <1>8
  <2>2. Deleted(h) = {} /\ ~DelPublished(h)
    BY <1>4, <1>8 DEF DeletionInv, DelPublished
  <2>3. Deleted(h)' = {n} /\ Registered(h)' = Registered(h) /\ (Orderly' => Orderly)
    BY <1>6, <1>8, <2>2 DEF Registered, Deleted, BookkeepingKinds
  <2>4. ~DelPublished(h)' /\ (RegPublished(h)' <=> RegPublished(h))
    BY <1>1, <1>3, <2>2, <2>3 DEF RegPublished, DelPublished
  <2> HIDE DEF Registered, Deleted, n
  <2>5. DeletionInv(h)'
    BY <2>1, <2>3 DEF DeletionInv
  <2>6. UnpublishedInv(h)'
    BY <1>1, <1>4, <1>8, <2>1, <2>3 DEF UnpublishedInv, OnTheWay
  <2>7. ChannelInv(h)'
    BY <1>1, <1>2, <1>4, <1>8, <2>1, <2>2, <2>3, <2>4 DEF ChannelInv
  <2>8. EntryInv(h)'
    BY <1>1, <1>2, <1>4, <1>8, <2>1, <2>2, <2>3, <2>4 DEF EntryInv
  <2> QED BY <2>5, <2>6, <2>7, <2>8 DEF ProtocolInv
<1> QED BY <1>7, <1>8 DEF StageBookkeeping

(* What a taken command leaves of the queue. *)
LEMMA TakenFacts ==
  ASSUME TypesInv, commands # <<>>, commands' = Tail(commands)
  PROVE  /\ Head(commands).op \in Ops /\ Head(commands).hook \in Hooks
         /\ Queued(Head(commands).op, Head(commands).hook)
         /\ \A o, g : Queued(o, g)' => Queued(o, g)
         /\ \A o, g : ~(Head(commands).op = o /\ Head(commands).hook = g) =>
              (Queued(o, g)' <=> Queued(o, g))
         /\ \A o, g : Once(o, g) => Once(o, g)'
         /\ \A o, g : o = Head(commands).op /\ g = Head(commands).hook /\ Once(o, g)
              => ~Queued(o, g)'
<1> DEFINE c == Head(commands)
<1>1. commands \in Seq(Commands)
  BY DEF TypesInv, CoordinatorTypes
<1>2. /\ c \in Commands /\ 1 \in At(c.op, c.hook)
      /\ \A o, g, i : i \in At(o, g)' => i + 1 \in At(o, g) /\ i + 1 # 1
      /\ \A o, g : Queued(o, g)' => Queued(o, g)
      /\ \A o, g : ~(c.op = o /\ c.hook = g) => (Queued(o, g)' <=> Queued(o, g))
  BY <1>1, TakeFacts
<1> HIDE DEF c
<1>3. c.op \in Ops /\ c.hook \in Hooks /\ Queued(c.op, c.hook)
  BY <1>2 DEF Commands, Ops, Queued
<1>4. \A o, g : At(o, g)' \subseteq Int
  BY DEF At
<1>5. \A o, g : Once(o, g) => Once(o, g)'
  <2> SUFFICES ASSUME NEW o, NEW g, Once(o, g), NEW i \in At(o, g)', NEW j \in At(o, g)' PROVE i = j
    BY DEF Once
  <2>1. i + 1 \in At(o, g) /\ j + 1 \in At(o, g)
    BY <1>2
  <2>2. i + 1 = j + 1
    BY <2>1 DEF Once
  <2> QED BY <1>4, <2>2
<1>6. ASSUME NEW o, o = c.op, NEW g, g = c.hook, Once(o, g), Queued(o, g)' PROVE FALSE
  <2>1. PICK i \in At(o, g)' : TRUE
    BY <1>6 DEF Queued
  <2>2. i + 1 \in At(o, g) /\ i + 1 # 1 /\ 1 \in At(o, g)
    BY <1>2, <1>6, <2>1
  <2> QED BY <1>6, <2>2 DEF Once
<1>7. \A o, g : o = c.op /\ g = c.hook /\ Once(o, g) => ~Queued(o, g)'
  BY <1>6
<1> QED BY <1>2, <1>3, <1>5, <1>7 DEF c

(* The commands about one hook leave the others alone. *)
LEMMA OtherCommands ==
  ASSUME IInv, TypesInv, HandleCommand, NEW g \in Hooks, g # Head(commands).hook, ProtocolInv(g)
  PROVE  ProtocolInv(g)'
<1> DEFINE h == Head(commands).hook
<1>1. /\ UNCHANGED <<log, published, poisoned, up, delete>> /\ commands # <<>> /\ commands' = Tail(commands)
  BY DEF HandleCommand, timeline
<1>2. h \in Hooks /\ g # h
  BY <1>1, TakenFacts
<1>3. create'[g] = create[g] /\ hooks'[g] = hooks[g]
  <2>1. create \in [Hooks -> Requests] /\ hooks \in [Hooks -> {"absent", "pending", "active"}]
    BY DEF TypesInv, RequestTypes, CoordinatorTypes
  <2>2. \A l, m : Reply(h, l, m)[g] = create[g]
    BY <1>2, <2>1 DEF Reply, Goto
  <2>3. create' = create \/ \E l, m : create' = Reply(h, l, m)
    BY Zenon DEF HandleCommand, HandleReserve, HandleActivate, HandleRemove
  <2>4. hooks' = hooks \/ \E v : hooks' = [hooks EXCEPT ![h] = v]
    BY Zenon DEF HandleCommand, HandleReserve, HandleActivate, HandleRemove
  <2> HIDE DEF h
  <2> QED BY <1>2, <2>1, <2>2, <2>3, <2>4
<1>4. \A o \in Ops : (Queued(o, g)' <=> Queued(o, g)) /\ (Once(o, g) => Once(o, g)')
  BY <1>1, <1>2, TakenFacts
<1>5. /\ Registered(g)' = Registered(g) /\ Deleted(g)' = Deleted(g)
      /\ Orderly' <=> Orderly
  BY <1>1, SameRecords
<1> QED BY <1>1, <1>3, <1>4, <1>5, ProtocolFrame

(* The coordinator takes a command about h. *)
LEMMA CommandKeepsProtocol ==
  ASSUME IInv, TypesInv, HandleCommand, NEW h \in Hooks, h = Head(commands).hook,
         ProtocolInv(h), RegistrationInv(h)
  PROVE  ProtocolInv(h)'
<1>1. /\ UNCHANGED <<log, published, poisoned, up, delete>> /\ up
      /\ commands # <<>> /\ commands' = Tail(commands)
  BY DEF HandleCommand, timeline
<1>2. /\ Registered(h)' = Registered(h) /\ Deleted(h)' = Deleted(h)
      /\ RegPublished(h)' <=> RegPublished(h)
      /\ DelPublished(h)' <=> DelPublished(h)
      /\ Early(h)' <=> Early(h)
      /\ Orderly' <=> Orderly
  BY <1>1, SameRecords
<1>3. DeletionInv(h) /\ UnpublishedInv(h) /\ ChannelInv(h) /\ EntryInv(h)
  BY DEF ProtocolInv
<1>4. \A o : Once(o, h) => Once(o, h)'
  BY <1>1, TakenFacts
<1>5. /\ create \in [Hooks -> Requests] /\ hooks \in [Hooks -> {"absent", "pending", "active"}]
  BY DEF TypesInv, RequestTypes, CoordinatorTypes
<1>6. \A m : \A l \in RequestPCs :
        /\ create[h].pc = m /\ create' = Reply(h, m, l) => create'[h].pc = l
        /\ create[h].pc # m /\ create' = Reply(h, m, l) => create'[h].pc = create[h].pc
  BY MovesOn DEF Reply
<1>7. CASE HandleReserve
  <2>1. /\ Queued("reserve", h)
        /\ ~Queued("reserve", h)'
        /\ Queued("activate", h)' <=> Queued("activate", h)
        /\ Queued("remove", h)' <=> Queued("remove", h)
    <3>1. Head(commands).op = "reserve" /\ Once("reserve", h)
      BY <1>3, <1>7 DEF HandleReserve, ChannelInv
    <3> QED BY <1>1, <3>1, TakenFacts
  <2>2. /\ create[h].pc \in {"reserve", "gone"} /\ delete[h].pc = "idle"
        /\ hooks[h] = "absent" /\ Registered(h) = {}
        /\ ~Queued("activate", h) /\ ~Queued("remove", h)
    BY <1>3, <2>1 DEF ChannelInv
  <2>3. \/ hooks'[h] = "pending" /\ create' = Reply(h, "reserve", "append")
        \/ hooks'[h] = "absent" /\ create' = Reply(h, "reserve", "failed")
    BY <1>5, <1>7, <2>2 DEF HandleReserve
  <2>4. \/ hooks'[h] = "pending" /\ create'[h].pc \in {"append", "gone"}
        \/ hooks'[h] = "absent" /\ create'[h].pc \in {"failed", "gone"}
    BY <1>6, <2>2, <2>3 DEF RequestPCs
  <2>5. ~RegPublished(h) /\ Deleted(h) = {} /\ ~DelPublished(h)
    BY <1>3, <2>2 DEF RegPublished, DelPublished, DeletionInv
  <2> HIDE DEF Registered, Deleted
  <2>6. DeletionInv(h)'
    BY <1>1, <1>2, <1>3 DEF DeletionInv
  <2>7. UnpublishedInv(h)'
    BY <1>2, <2>2, <2>5 DEF UnpublishedInv
  <2>8. ChannelInv(h)'
    BY <1>3, <1>4, <2>1, <2>2, <2>4 DEF ChannelInv
  <2>9. EntryInv(h)'
    BY <1>2, <2>1, <2>2, <2>4, <2>5 DEF EntryInv
  <2> QED BY <2>6, <2>7, <2>8, <2>9 DEF ProtocolInv
<1>8. CASE HandleActivate
  <2>1. /\ Queued("activate", h)
        /\ ~Queued("activate", h)'
        /\ Queued("reserve", h)' <=> Queued("reserve", h)
        /\ Queued("remove", h)' <=> Queued("remove", h)
    <3>1. Head(commands).op = "activate" /\ Once("activate", h)
      BY <1>3, <1>8 DEF HandleActivate, ChannelInv
    <3> QED BY <1>1, <3>1, TakenFacts
  <2>2. create[h].pc \in {"activate", "gone"} /\ ~Queued("reserve", h)
    BY <1>3, <2>1 DEF ChannelInv
  <2>3. RegPublished(h)
    <3>1. PICK i \in At("activate", h) : TRUE
      BY <2>1 DEF Queued
    <3> QED BY <3>1 DEF RegistrationInv, RegPublished
  <2>4. \/ hooks[h] = "pending" /\ hooks'[h] = "active" /\ create' = Reply(h, "activate", "done")
        \/ hooks[h] # "pending" /\ hooks'[h] = hooks[h] /\ create' = Reply(h, "activate", "failed")
    BY <1>5, <1>8 DEF HandleActivate
  <2>5. \/ hooks[h] = "pending" /\ hooks'[h] = "active" /\ create'[h].pc \in {"done", "gone"}
        \/ hooks[h] # "pending" /\ hooks'[h] = hooks[h] /\ create'[h].pc \in {"failed", "gone"}
    BY <1>6, <2>2, <2>4 DEF RequestPCs
  <2>6. hooks[h] = "pending" \/ DelPublished(h)
    BY <1>1, <1>3, <2>1 DEF EntryInv
  <2> HIDE DEF Registered, Deleted
  <2>7. DeletionInv(h)'
    BY <1>1, <1>2, <1>3 DEF DeletionInv
  <2>8. UnpublishedInv(h)'
    <3>1. \A i \in Registered(h) : i <= published
      BY <2>3 DEF RegPublished, RegistrationInv
    <3> QED BY <1>1, <1>2, <1>3, <3>1 DEF UnpublishedInv, OnTheWay
  <2>9. ChannelInv(h)'
    BY <1>1, <1>2, <1>3, <1>4, <2>1, <2>2, <2>5 DEF ChannelInv
  <2>10. EntryInv(h)'
    BY <1>1, <1>2, <1>3, <2>1, <2>3, <2>5, <2>6 DEF EntryInv
  <2> QED BY <2>7, <2>8, <2>9, <2>10 DEF ProtocolInv
<1>9. CASE HandleRemove
  <2>1. /\ Queued("remove", h)
        /\ Queued("remove", h)' => Queued("remove", h)
        /\ Queued("reserve", h)' <=> Queued("reserve", h)
        /\ Queued("activate", h)' <=> Queued("activate", h)
    <3>1. Head(commands).op = "remove"
      BY <1>9 DEF HandleRemove
    <3> QED BY <1>1, <3>1, TakenFacts
  <2>2. create' = create /\ hooks'[h] = "absent"
    BY <1>5, <1>9 DEF HandleRemove
  <2> HIDE DEF Registered, Deleted
  <2>3. DeletionInv(h)'
    BY <1>1, <1>2, <1>3 DEF DeletionInv
  <2>4. UnpublishedInv(h)'
    BY <1>1, <1>2, <1>3, <2>2 DEF UnpublishedInv, OnTheWay
  <2>5. ChannelInv(h)'
    BY <1>1, <1>2, <1>3, <1>4, <2>1, <2>2 DEF ChannelInv, Ops
  <2>6. EntryInv(h)'
    <3>1. DelPublished(h) \/ (create[h].pc = "failed" /\ ~RegPublished(h))
      BY <1>3, <2>1 DEF ChannelInv
    <3>2. Queued("activate", h) => create[h].pc \in {"activate", "gone"}
      BY <1>3 DEF ChannelInv
    <3> QED BY <1>1, <1>2, <2>1, <2>2, <3>1, <3>2 DEF EntryInv
  <2> QED BY <2>3, <2>4, <2>5, <2>6 DEF ProtocolInv
<1> QED BY <1>7, <1>8, <1>9 DEF HandleCommand

(* A crash answers what was in progress with its failure. *)
LEMMA CrashKeepsProtocol ==
  ASSUME IInv, TypesInv, Crash, NEW h \in Hooks, ProtocolInv(h)
  PROVE  ProtocolInv(h)'
<1>1. up' = FALSE /\ commands' = <<>> /\ hooks'[h] = "absent"
  BY DEF Crash
<1>2. PICK n \in published..Len(log) : \A k, g : Places(k, g)' = Places(k, g) \cap (1..n)
  BY CutPlaces
<1>3. Registered(h)' \subseteq Registered(h) /\ Deleted(h)' \subseteq Deleted(h)
  BY <1>2 DEF Registered, Deleted
<1>4. create[h] \in Requests /\ delete[h] \in Requests
  BY DEF TypesInv, RequestTypes
<1>5. IF InProgress(create[h]) THEN create'[h].pc = "failed" ELSE create'[h] = create[h]
  <2>1. create' = [g \in Hooks |-> IF InProgress(create[g])
                                   THEN [create[g] EXCEPT !.pc = "failed"] ELSE create[g]]
    BY DEF Crash
  <2>2. create[h] = [pc |-> create[h].pc, seq |-> create[h].seq]
    BY <1>4 DEF Requests
  <2> QED BY <2>1, <2>2
<1>6. IF InProgress(delete[h]) THEN delete'[h].pc = "failed" ELSE delete'[h] = delete[h]
  <2>1. delete' = [g \in Hooks |-> IF InProgress(delete[g])
                                   THEN [delete[g] EXCEPT !.pc = "failed"] ELSE delete[g]]
    BY DEF Crash
  <2>2. delete[h] = [pc |-> delete[h].pc, seq |-> delete[h].seq]
    BY <1>4 DEF Requests
  <2> QED BY <2>1, <2>2
<1>7. \A o, g : At(o, g)' = {}
  BY <1>1 DEF At
<1>8. \A o, g : ~Queued(o, g)' /\ Once(o, g)'
  BY <1>7 DEF Queued, Once
<1>9. DeletionInv(h) /\ ChannelInv(h)
  BY DEF ProtocolInv
<1> HIDE DEF Registered, Deleted
<1>10. DeletionInv(h)'
  BY <1>3, <1>6, <1>9 DEF DeletionInv, InProgress
<1>11. UnpublishedInv(h)' /\ EntryInv(h)'
  BY <1>1 DEF UnpublishedInv, EntryInv
<1>12. ChannelInv(h)'
  BY <1>1, <1>5, <1>6, <1>8, <1>9 DEF ChannelInv, InProgress
<1> QED BY <1>10, <1>11, <1>12 DEF ProtocolInv

(* The restart serves every hook it finds configured, when each was        *)
(* deleted after it was registered.                                        *)
LEMMA RestartFacts ==
  ASSUME IInv, TypesInv, RoomInv, Restart
  PROVE  \E chosen \in SUBSET Configured(Len(log)) :
           /\ hooks' = [h \in Hooks |-> IF h \in chosen THEN "active" ELSE "absent"]
           /\ IsFiniteSet(chosen)
           /\ (\A h \in Hooks : ~TooEarly(h, Len(log))) =>
                chosen = Configured(Len(log)) /\ Cardinality(chosen) <= MaxHooks
<1> DEFINE conf == Configured(Len(log))
<1>1. PICK chosen \in SUBSET conf :
        /\ Cardinality(chosen) = Sooner(MaxHooks, Cardinality(conf))
        /\ hooks' = [h \in Hooks |-> IF h \in chosen THEN "active" ELSE "absent"]
  BY DEF Restart
<1>2. Len(log) \in Nat /\ Len(log) \in published..Len(log) /\ Len(log) \in 0..Len(log)
  BY TimelineFacts
<1>3. IsFiniteSet(conf) /\ Cardinality(conf) \in Nat
  BY <1>2, ConfiguredFacts
<1>4. (\A h \in Hooks : ~TooEarly(h, Len(log))) => Cardinality(conf) <= MaxHooks
  BY <1>2 DEF RoomInv
<1> HIDE DEF conf
<1>5. IsFiniteSet(chosen) /\ (Cardinality(chosen) = Cardinality(conf) => chosen = conf)
  BY <1>3, FS_Subset
<1>6. Cardinality(conf) <= MaxHooks => Sooner(MaxHooks, Cardinality(conf)) = Cardinality(conf)
  BY <1>3, Caps DEF Sooner
<1>7. (\A h \in Hooks : ~TooEarly(h, Len(log))) => chosen = conf /\ Cardinality(chosen) <= MaxHooks
  BY <1>1, <1>4, <1>5, <1>6
<1> QED BY <1>1, <1>5, <1>7 DEF conf

(* A restart serves what is configured, and nobody waits for anything. *)
LEMMA RestartKeepsProtocol ==
  ASSUME IInv, TypesInv, RoomInv, Restart, NEW h \in Hooks, ProtocolInv(h), RegistrationInv(h)
  PROVE  ProtocolInv(h)'
<1> DEFINE n == Len(log)
<1>1. /\ ~up /\ up' /\ published' = n /\ UNCHANGED <<log, commands, create, delete>>
  BY DEF Restart, requests
<1>2. /\ commands = <<>> /\ ~InProgress(create[h]) /\ ~InProgress(delete[h])
  BY <1>1 DEF TypesInv, Stopped
<1>3. \A o : ~Queued(o, h)' /\ Once(o, h)'
  BY <1>1, <1>2 DEF Queued, Once, At
<1>4. /\ n \in Nat /\ n \in 0..n
      /\ Registered(h) \subseteq 1..n /\ Deleted(h) \subseteq 1..n
      /\ \A i \in Registered(h) : i \notin Deleted(h)
  <2>1. n \in Nat /\ n \in 0..n
    BY TimelineFacts
  <2>2. Bookkeeping("webhook_registered", h) # Bookkeeping("webhook_deleted", h)
    BY BookkeepingFacts
  <2> QED BY <2>1, <2>2 DEF Registered, Deleted, Places
<1>5. /\ Registered(h)' = Registered(h) /\ Deleted(h)' = Deleted(h)
      /\ \A g \in Hooks : Registered(g)' = Registered(g) /\ Deleted(g)' = Deleted(g)
  BY <1>1 DEF Registered, Deleted, Places
<1>6. h \in Configured(n) <=>
        \E i \in Registered(h) : i <= n /\ \A j \in Registered(h) \cup Deleted(h) : j <= n => j <= i
  BY <1>4, ConfiguredView
<1>7. PICK chosen \in SUBSET Configured(n) :
        /\ hooks' = [g \in Hooks |-> IF g \in chosen THEN "active" ELSE "absent"]
        /\ (\A g \in Hooks : ~TooEarly(g, n)) => chosen = Configured(n)
  BY RestartFacts
<1>8. hooks'[h] = IF h \in chosen THEN "active" ELSE "absent"
  BY <1>7
<1>9. DeletionInv(h) /\ UnpublishedInv(h) /\ ChannelInv(h) /\ EntryInv(h)
  BY DEF ProtocolInv
<1> HIDE DEF Registered, Deleted, n
<1>10. /\ RegPublished(h)' <=> Registered(h) # {}
       /\ DelPublished(h)' <=> Deleted(h) # {}
  BY <1>1, <1>4, <1>5 DEF RegPublished, DelPublished
<1>11. DeletionInv(h)'
  BY <1>1, <1>5, <1>9 DEF DeletionInv
<1>12. UnpublishedInv(h)'
  BY <1>1, <1>4, <1>5 DEF UnpublishedInv
<1>13. ChannelInv(h)'
  <2>1. create[h].pc = "idle" => hooks'[h] = "absent"
    BY <1>6, <1>7, <1>8 DEF RegistrationInv
  <2> QED BY <1>1, <1>3, <1>9, <2>1 DEF ChannelInv
<1>14. ASSUME h \in chosen, Deleted(h) # {} PROVE Early(h)'
  <2>1. PICK i \in Registered(h) : \A j \in Registered(h) \cup Deleted(h) : j <= n => j <= i
    BY <1>6, <1>14
  <2>2. PICK d \in Deleted(h) : TRUE
    BY <1>14
  <2>3. d < i
    BY <1>4, <2>1, <2>2
  <2> QED BY <1>5, <2>3 DEF Early
<1>15. ASSUME Orderly', Registered(h) # {}, Deleted(h) = {} PROVE h \in chosen
  <2>1. \A g \in Hooks : ~TooEarly(g, n)
    BY <1>5, <1>15 DEF Orderly, Early, TooEarly
  <2>2. PICK i \in Registered(h) : TRUE
    BY <1>15
  <2>3. i <= n /\ \A j \in Registered(h) \cup Deleted(h) : j <= n => j <= i
    BY <1>4, <1>15, <2>2 DEF RegistrationInv
  <2> QED BY <1>6, <1>7, <2>1, <2>3
<1>16. EntryInv(h)'
  BY <1>1, <1>2, <1>3, <1>6, <1>7, <1>8, <1>10, <1>14, <1>15 DEF EntryInv, InProgress
<1> QED BY <1>11, <1>12, <1>13, <1>16 DEF ProtocolInv

(* Configured and TooEarly look at the first n records only. *)
LEMMA SamePrefix ==
  ASSUME IInv, TypesInv, NEW n \in 0..Len(log), Len(log') \in Nat, n <= Len(log'),
         \A i \in 1..n : log'[i] = log[i]
  PROVE  /\ Configured(n)' = Configured(n)
         /\ \A h : TooEarly(h, n)' <=> TooEarly(h, n)
<1>1. Len(log) \in Nat /\ n \in Nat /\ n <= Len(log)
  BY TimelineFacts
<1>2. Configured(n)' = Configured(n)
  <2>1. ASSUME NEW i \in 1..n
        PROVE  /\ log'[i] = log[i]
               /\ \A j \in i + 1 .. n : log'[j] = log[j]
    BY <1>1
  <2> QED BY <2>1 DEF Configured
<1>3. ASSUME NEW h PROVE TooEarly(h, n)' <=> TooEarly(h, n)
  <2>1. \A k : \A i \in Nat : i <= n => (i \in Places(k, h)' <=> i \in Places(k, h))
    BY <1>1 DEF Places
  <2>2. \A i \in Nat : i <= n => /\ i \in Registered(h)' <=> i \in Registered(h)
                                 /\ i \in Deleted(h)' <=> i \in Deleted(h)
    BY <2>1 DEF Registered, Deleted
  <2>3. /\ Registered(h) \subseteq Nat /\ Deleted(h) \subseteq Nat
        /\ Registered(h)' \subseteq Nat /\ Deleted(h)' \subseteq Nat
    BY <1>1 DEF Registered, Deleted, Places
  <2> HIDE DEF Registered, Deleted
  <2>4. \A i, j \in Nat : i < j /\ j <= n => i <= n
    BY <1>1
  <2>5. ASSUME TooEarly(h, n) PROVE TooEarly(h, n)'
    <3>1. PICK i \in Deleted(h), j \in Registered(h) : i < j /\ j <= n
      BY <2>5 DEF TooEarly
    <3>2. i \in Deleted(h)' /\ j \in Registered(h)'
      BY <2>2, <2>3, <2>4, <3>1
    <3> QED BY <3>1, <3>2 DEF TooEarly
  <2>6. ASSUME TooEarly(h, n)' PROVE TooEarly(h, n)
    <3>1. PICK i \in Deleted(h)', j \in Registered(h)' : i < j /\ j <= n
      BY <2>6 DEF TooEarly
    <3>2. i \in Deleted(h) /\ j \in Registered(h)
      BY <2>2, <2>3, <2>4, <3>1
    <3> QED BY <3>1, <3>2 DEF TooEarly
  <2> QED BY <2>5, <2>6
<1> QED BY <1>2, <1>3

(* Steps that write nothing and free no place. *)
LEMMA RoomFrame ==
  ASSUME IInv, TypesInv, RoomInv, log' = log, published' \in published..Len(log),
         up' /\ ~poisoned' => up /\ ~poisoned /\ Present \subseteq Present'
  PROVE  RoomInv'
<1>1. published \in Nat /\ Len(log) \in Nat
  BY TimelineFacts
<1>2. SUFFICES ASSUME NEW n \in published'..Len(log'), \A h \in Hooks : ~TooEarly(h, n)'
               PROVE  /\ Cardinality(Configured(n)') <= MaxHooks
                      /\ up' /\ ~poisoned' => Configured(n)' \subseteq Present'
  BY DEF RoomInv
<1>3. n \in published..Len(log) /\ n \in 0..Len(log) /\ Len(log') \in Nat /\ n <= Len(log')
  BY <1>1
<1>4. /\ Configured(n)' = Configured(n)
      /\ \A h : TooEarly(h, n)' <=> TooEarly(h, n)
  BY <1>3, SamePrefix
<1>5. /\ Cardinality(Configured(n)) <= MaxHooks
      /\ up /\ ~poisoned => Configured(n) \subseteq Present
  BY <1>2, <1>3, <1>4 DEF RoomInv
<1> QED BY <1>4, <1>5

(* A record that is written registers a hook that has its place. *)
LEMMA AppendKeepsRoom ==
  ASSUME IInv, TypesInv, RoomInv, up, ~poisoned, NEW r \in Records, log' = Append(log, r),
         UNCHANGED <<published, poisoned, up, hooks>>,
         \A h \in Hooks : r = Bookkeeping("webhook_registered", h) => h \in Present \/ DelPublished(h)
  PROVE  RoomInv'
<1> DEFINE m == Len(log)
<1>1. published \in Nat /\ m \in Nat /\ published <= m /\ log \in Seq(Records)
  BY TimelineFacts
<1>2. /\ Len(log') = m + 1 /\ \A i \in 1..m : log'[i] = log[i]
      /\ \A k, h : Places(k, h)' = IF r = Bookkeeping(k, h) THEN Places(k, h) \cup {m + 1}
                                   ELSE Places(k, h)
  BY AppendedPlaces
<1>3. log'[m + 1] = r
  BY <1>1
<1>4. Present' = Present
  BY DEF Present
<1>5. IsFiniteSet(Present) /\ Cardinality(Present) \in Nat /\ Cardinality(Present) <= MaxHooks
  BY FS_CardinalityType DEF TypesInv, CoordinatorTypes
<1> HIDE DEF m
<1>6. SUFFICES ASSUME NEW n \in published'..Len(log'), \A h \in Hooks : ~TooEarly(h, n)'
               PROVE  /\ Cardinality(Configured(n)') <= MaxHooks
                      /\ up' /\ ~poisoned' => Configured(n)' \subseteq Present'
  BY DEF RoomInv
<1>7. CASE n <= m
  <2>1. /\ n \in published..Len(log) /\ n \in 0..Len(log) /\ Len(log') \in Nat /\ n <= Len(log')
        /\ \A i \in 1..n : log'[i] = log[i]
    BY <1>1, <1>2, <1>7 DEF m
  <2>2. /\ Configured(n)' = Configured(n)
        /\ \A h : TooEarly(h, n)' <=> TooEarly(h, n)
    BY <2>1, SamePrefix
  <2>3. /\ Cardinality(Configured(n)) <= MaxHooks
        /\ up /\ ~poisoned => Configured(n) \subseteq Present
    BY <1>6, <2>1, <2>2 DEF RoomInv
  <2> QED BY <1>4, <2>2, <2>3
<1>8. CASE ~(n <= m)
  <2>1. n = m + 1 /\ n \in Nat
    BY <1>1, <1>2, <1>8
  <2>2. /\ m \in published..Len(log) /\ m \in 0..Len(log) /\ Len(log') \in Nat /\ m <= Len(log')
        /\ \A i \in 1..m : log'[i] = log[i]
    BY <1>1, <1>2 DEF m
  <2>3. Configured(m) \subseteq Present
    <3>1. ASSUME NEW h \in Hooks PROVE ~TooEarly(h, m)
      <4> SUFFICES ASSUME TooEarly(h, m) PROVE FALSE
        OBVIOUS
      <4>1. PICK i \in Deleted(h), j \in Registered(h) : i < j /\ j <= m
        BY DEF TooEarly
      <4>2. i \in Deleted(h)' /\ j \in Registered(h)'
        BY <1>2, <4>1 DEF Registered, Deleted
      <4>3. j \in Nat
        BY <1>1, <4>1 DEF Registered, Places
      <4>4. j <= n
        BY <1>1, <2>1, <4>1, <4>3
      <4> QED BY <1>6, <4>1, <4>2, <4>4 DEF TooEarly
    <3> QED BY <2>2, <3>1 DEF RoomInv
  <2>4. ASSUME NEW h \in Configured(n)' PROVE h \in Present
    <3>1. /\ h \in Hooks
          /\ \E i \in 1..n : /\ log'[i] = Bookkeeping("webhook_registered", h)
                             /\ \A j \in i + 1 .. n : log'[j].hook # h
      BY <2>4, Zenon DEF Configured
    <3>2. PICK i \in 1..n : /\ log'[i] = Bookkeeping("webhook_registered", h)
                            /\ \A j \in i + 1 .. n : log'[j].hook # h
      BY <3>1
    <3>3. CASE i <= m
      <4>1. i \in 1..m /\ \A j \in i + 1 .. m : j \in i + 1 .. n /\ j \in 1..m
        BY <1>1, <2>1, <3>3
      <4>2. /\ log[i] = Bookkeeping("webhook_registered", h)
            /\ \A j \in i + 1 .. m : log[j].hook # h
        BY <1>2, <3>2, <4>1
      <4>3. h \in Configured(m)
        BY <3>1, <4>1, <4>2 DEF Configured
      <4> QED BY <2>3, <4>3
    <3>4. CASE ~(i <= m)
      <4>1. i = n
        BY <1>1, <2>1, <3>4
      <4>2. r = Bookkeeping("webhook_registered", h)
        BY <1>3, <2>1, <3>2, <4>1
      <4>3. ASSUME DelPublished(h) PROVE FALSE
        <5>1. PICK d \in Deleted(h) : d <= published
          BY <4>3 DEF DelPublished
        <5>2. d \in Deleted(h)' /\ n \in Registered(h)'
          BY <1>2, <2>1, <4>2, <5>1 DEF Registered, Deleted
        <5>3. d \in Nat
          BY <1>1, <5>1 DEF Deleted, Places
        <5>4. d < n /\ n <= n
          BY <1>1, <2>1, <5>1, <5>3
        <5> QED BY <1>6, <3>1, <5>2, <5>4 DEF TooEarly
      <4> QED BY <3>1, <4>2, <4>3
    <3> QED BY <3>3, <3>4
  <2>5. PICK C : C = Configured(n)'
    OBVIOUS
  <2>6. C \in SUBSET Present
    BY <2>4, <2>5
  <2>7. Cardinality(C) <= Cardinality(Present) /\ Cardinality(C) \in Nat
    BY <1>5, <2>6, FS_Subset, FS_CardinalityType
  <2>8. Cardinality(C) <= MaxHooks
    BY <1>5, <2>7, Caps
  <2> QED BY <1>4, <2>5, <2>6, <2>8
<1> QED BY <1>7, <1>8

(* A crash leaves less to configure. *)
LEMMA CrashKeepsRoom == ASSUME IInv, TypesInv, RoomInv, Crash PROVE RoomInv'
<1>1. published \in Nat /\ Len(log) \in Nat
  BY TimelineFacts
<1>2. PICK k \in published..Len(log) : Len(log') = k /\ \A i \in 1..k : log'[i] = log[i]
  BY CutPlaces
<1>3. up' = FALSE /\ published' = published
  BY DEF Crash
<1>4. SUFFICES ASSUME NEW n \in published'..Len(log'), \A h \in Hooks : ~TooEarly(h, n)'
               PROVE  Cardinality(Configured(n)') <= MaxHooks
  BY <1>3 DEF RoomInv
<1>5. /\ n \in published..Len(log) /\ n \in 0..Len(log) /\ Len(log') \in Nat /\ n <= Len(log')
      /\ \A i \in 1..n : log'[i] = log[i]
  BY <1>1, <1>2, <1>3
<1>6. /\ Configured(n)' = Configured(n)
      /\ \A h : TooEarly(h, n)' <=> TooEarly(h, n)
  BY <1>5, SamePrefix
<1>7. Cardinality(Configured(n)) <= MaxHooks
  BY <1>4, <1>5, <1>6 DEF RoomInv
<1> QED BY <1>6, <1>7

(* A restart has every configured hook in its place. *)
LEMMA RestartKeepsRoom == ASSUME IInv, TypesInv, RoomInv, Restart PROVE RoomInv'
<1> DEFINE m == Len(log)
<1>1. m \in Nat /\ m \in 0..m /\ m \in m..m
  BY TimelineFacts
<1>2. log' = log /\ published' = m
  BY DEF Restart
<1>3. PICK chosen \in SUBSET Configured(m) :
        /\ hooks' = [h \in Hooks |-> IF h \in chosen THEN "active" ELSE "absent"]
        /\ (\A h \in Hooks : ~TooEarly(h, m)) => chosen = Configured(m) /\ Cardinality(chosen) <= MaxHooks
  BY RestartFacts
<1>4. SUFFICES ASSUME NEW n \in published'..Len(log'), \A h \in Hooks : ~TooEarly(h, n)'
               PROVE  /\ Cardinality(Configured(n)') <= MaxHooks
                      /\ Configured(n)' \subseteq Present'
  BY DEF RoomInv
<1>5. n = m /\ n \in 0..Len(log) /\ Len(log') \in Nat /\ n <= Len(log')
  BY <1>1, <1>2
<1>6. /\ Configured(n)' = Configured(n)
      /\ \A h : TooEarly(h, n)' <=> TooEarly(h, n)
  BY <1>2, <1>5, SamePrefix
<1>7. chosen = Configured(n) /\ Cardinality(chosen) <= MaxHooks
  BY <1>3, <1>4, <1>5, <1>6
<1>8. chosen \subseteq Hooks
  BY <1>7 DEF Configured
<1>9. chosen \subseteq Present'
  BY <1>3, <1>8 DEF Present
<1> QED BY <1>6, <1>7, <1>9

(* A removed hook is one that a restart would not configure. *)
LEMMA CommandKeepsRoom ==
  ASSUME IInv, TypesInv, RoomInv, HandleCommand, \A h \in Hooks : ProtocolInv(h)
  PROVE  RoomInv'
<1> DEFINE h == Head(commands).hook
<1>1. /\ UNCHANGED <<log, published, poisoned, up>> /\ up /\ commands # <<>>
      /\ commands' = Tail(commands)
  BY DEF HandleCommand, timeline
<1>2. published \in Nat /\ Len(log) \in Nat /\ published <= Len(log)
      /\ hooks \in [Hooks -> {"absent", "pending", "active"}]
  BY TimelineFacts DEF TypesInv, CoordinatorTypes
<1>3. h \in Hooks /\ Queued(Head(commands).op, h)
  BY <1>1, TakenFacts
<1>4. published' \in published..Len(log)
  BY <1>1, <1>2
<1>5. CASE HandleReserve \/ HandleActivate
  <2>1. Present \subseteq Present'
    <3>1. \/ hooks' = hooks
          \/ hooks' = [hooks EXCEPT ![h] = "pending"]
          \/ hooks' = [hooks EXCEPT ![h] = IF hooks[h] = "pending" THEN "active" ELSE hooks[h]]
      BY <1>5 DEF HandleReserve, HandleActivate
    <3> HIDE DEF h
    <3> QED BY <1>2, <1>3, <3>1 DEF Present
  <2> QED BY <1>1, <1>4, <2>1, RoomFrame
<1>6. CASE HandleRemove
  <2>1. hooks' = [hooks EXCEPT ![h] = "absent"] /\ Head(commands).op = "remove"
    BY <1>6 DEF HandleRemove
  <2>2. Queued("remove", h)
    BY <1>3, <2>1
  <2>3. \/ DelPublished(h)
        \/ ~RegPublished(h) /\ (Registered(h) = {} \/ poisoned)
    BY <1>3, <2>2 DEF ProtocolInv, ChannelInv
  <2> HIDE DEF h
  <2>4. Present \ {h} \subseteq Present'
    BY <1>2, <1>3, <2>1 DEF Present
  <2>5. SUFFICES ASSUME NEW n \in published'..Len(log'), \A g \in Hooks : ~TooEarly(g, n)'
                 PROVE  /\ Cardinality(Configured(n)') <= MaxHooks
                        /\ up' /\ ~poisoned' => Configured(n)' \subseteq Present'
    BY DEF RoomInv
  <2>6. n \in published..Len(log) /\ n \in 0..Len(log) /\ Len(log') \in Nat /\ n <= Len(log')
        /\ n \in Nat
    BY <1>1, <1>2
  <2>7. /\ Configured(n)' = Configured(n)
        /\ \A g : TooEarly(g, n)' <=> TooEarly(g, n)
    BY <1>1, <2>6, SamePrefix
  <2>8. /\ Cardinality(Configured(n)) <= MaxHooks
        /\ up /\ ~poisoned => Configured(n) \subseteq Present
    BY <2>5, <2>6, <2>7 DEF RoomInv
  <2>9. ASSUME ~poisoned, h \in Configured(n) PROVE FALSE
    <3>1. PICK i \in Registered(h) : i <= n /\ \A j \in Registered(h) \cup Deleted(h) : j <= n => j <= i
      BY <1>3, <2>6, <2>9, ConfiguredView
    <3>2. PICK d \in Deleted(h) : d <= published
      BY <2>3, <2>9, <3>1 DEF DelPublished
    <3>3. d \in Nat /\ i \in Nat /\ d # i
      <4>1. Bookkeeping("webhook_registered", h) # Bookkeeping("webhook_deleted", h)
        BY BookkeepingFacts
      <4> QED BY <1>2, <3>1, <3>2, <4>1 DEF Registered, Deleted, Places
    <3>4. d <= n
      BY <1>2, <2>6, <3>2, <3>3
    <3>5. d <= i
      BY <3>1, <3>2, <3>4
    <3>6. d < i
      BY <3>3, <3>5
    <3>7. TooEarly(h, n)
      BY <3>1, <3>2, <3>6 DEF TooEarly
    <3> QED BY <1>3, <2>5, <2>7, <3>7
  <2> QED BY <1>1, <2>4, <2>7, <2>8, <2>9
<1> QED BY <1>5, <1>6 DEF HandleCommand

RestartInv == RoomInv /\ \A h \in Hooks : ProtocolInv(h)

(* The initial states. *)
LEMMA InitRestartInv == Init => RestartInv
<1> SUFFICES ASSUME Init PROVE RestartInv
  OBVIOUS
<1>1. /\ log = <<>> /\ published = 0 /\ commands = <<>>
      /\ hooks = [h \in Hooks |-> "absent"]
      /\ create = [h \in Hooks |-> NoRequest] /\ delete = [h \in Hooks |-> NoRequest]
  BY Zenon DEF Init
<1>2. Len(log) = 0
  BY <1>1
<1>3. RoomInv
  <2>1. \A i \in 1..0 : FALSE
    OBVIOUS
  <2>2. Configured(0) = {} /\ Cardinality(Configured(0)) = 0
    BY <2>1, FS_EmptySet DEF Configured
  <2>3. \A n \in published..Len(log) : n = 0
    BY <1>1, <1>2
  <2> HIDE DEF Configured
  <2> QED BY <2>2, <2>3, Caps DEF RoomInv
<1>4. ASSUME NEW h \in Hooks PROVE ProtocolInv(h)
  <2>1. Registered(h) = {} /\ Deleted(h) = {} /\ \A o : At(o, h) = {}
    BY <1>1, <1>2 DEF Registered, Deleted, Places, At
  <2>2. hooks[h] = "absent" /\ create[h].pc = "idle" /\ delete[h].pc = "idle"
    BY <1>1 DEF NoRequest
  <2>3. /\ \A o : ~Queued(o, h) /\ Once(o, h)
        /\ ~RegPublished(h) /\ ~DelPublished(h)
    BY <2>1 DEF Queued, Once, RegPublished, DelPublished
  <2> HIDE DEF Registered, Deleted
  <2>4. DeletionInv(h) /\ UnpublishedInv(h)
    BY <2>1, <2>2 DEF DeletionInv, UnpublishedInv
  <2>5. ChannelInv(h) /\ EntryInv(h)
    BY <2>1, <2>2, <2>3 DEF ChannelInv, EntryInv
  <2> QED BY <2>4, <2>5 DEF ProtocolInv
<1> QED BY <1>3, <1>4 DEF RestartInv

(* Every step keeps the requests, the commands and the entries in line. *)
LEMMA ProtocolKept ==
  ASSUME IInv, TypesInv, RoomInv, [Next]_vars,
         \A h \in Hooks : RegistrationInv(h) /\ ProtocolInv(h)
  PROVE  \A h \in Hooks : ProtocolInv(h)'
<1>1. CASE SyncBatch
  BY <1>1, SyncKeepsProtocol
<1>2. CASE Bystanders /\ ~SyncBatch
  <2>1. published' = published /\ (poisoned => poisoned')
    <3>1. ASSUME NEW h \in Hooks, WorkerStep(h) PROVE UNCHANGED timeline
      BY <3>1 DEF WorkerStep, Load, PostOk, PostRetried, PostGivenUp, RecordOutcome, Checkpoint,
         Resume, Exit
    <3>2. ASSUME NEW s \in Streams,
                 Connect(s) \/ ProducerStep(s) \/ ClientReads(s) \/ ClientLeaves(s)
          PROVE  UNCHANGED timeline
      BY <3>2 DEF Connect, ProducerStep, Replay, BatchRecord, Push, Receive, ClientReads,
         ClientLeaves, StreamStep
    <3> QED BY <1>2, <3>1, <3>2 DEF Bystanders, AppendEvent, SyncFails, Notify,
            HandleNotification, vars, timeline
  <2> QED BY <1>2, <2>1, BystandersKeepProtocol
<1>3. ASSUME NEW h \in Hooks, Requesting(h) PROVE \A g \in Hooks : ProtocolInv(g)'
  <2>1. ProtocolInv(h)'
    BY <1>3, ReserveKeepsProtocol, ListKeepsProtocol, StagingKeepsProtocol, RefusedKeepsProtocol,
       AnswerKeepsProtocol, DisconnectKeepsProtocol DEF Requesting
  <2>2. \A g \in Hooks : g # h => ProtocolInv(g)'
    BY <1>3, OtherRequests
  <2> QED BY <2>1, <2>2
<1>4. CASE HandleCommand
  BY <1>4, CommandKeepsProtocol, OtherCommands
<1>5. CASE Crash
  BY <1>5, CrashKeepsProtocol
<1>6. CASE Restart
  BY <1>6, RestartKeepsProtocol
<1> QED BY <1>1, <1>2, <1>3, <1>4, <1>5, <1>6 DEF Next, Bystanders, Requesting, CoordinatorStep

(* Every step keeps a place for what a restart would configure. *)
LEMMA RoomKept ==
  ASSUME IInv, TypesInv, RoomInv, [Next]_vars, \A h \in Hooks : ProtocolInv(h)
  PROVE  RoomInv'
<1>1. published \in Nat /\ Len(log) \in Nat /\ published <= Len(log)
  BY TimelineFacts
<1>2. published \in published..Len(log) /\ Len(log) \in published..Len(log)
  BY <1>1
<1>3. ASSUME UNCHANGED <<log, published, hooks>>, up' /\ ~poisoned' => up /\ ~poisoned
      PROVE  RoomInv'
  <2>1. Present' = Present
    BY <1>3 DEF Present
  <2> QED BY <1>2, <1>3, <2>1, RoomFrame
<1>4. CASE \E r \in Runs : AppendEvent(r)
  <2>1. PICK r \in Runs : AppendEvent(r)
    BY <1>4
  <2>2. /\ up /\ ~poisoned /\ log' = Append(log, Event(r))
        /\ UNCHANGED <<published, poisoned, up, hooks>>
    BY <2>1 DEF AppendEvent, CanStage, coordinator
  <2>3. Event(r) \in Records /\ \A k, h : h \in Hooks => Event(r) # Bookkeeping(k, h)
    BY BookkeepingFacts
  <2> QED BY <2>2, <2>3, AppendKeepsRoom
<1>5. CASE SyncBatch
  <2>1. UNCHANGED <<log, poisoned, up, hooks>> /\ published' = Len(log)
    BY <1>5 DEF SyncBatch, coordinator
  <2>2. Present' = Present
    BY <2>1 DEF Present
  <2> QED BY <1>2, <2>1, <2>2, RoomFrame
<1>6. CASE SyncFails \/ Notify \/ HandleNotification \/ UNCHANGED vars
  BY <1>3, <1>6 DEF SyncFails, Notify, HandleNotification, coordinator, timeline, vars
<1>7. ASSUME NEW h \in Hooks, StageBookkeeping(h) PROVE RoomInv'
  <2>1. /\ up /\ ~poisoned /\ UNCHANGED <<published, poisoned, up, hooks>>
        /\ \/ /\ create[h].pc = "append"
              /\ log' = Append(log, Bookkeeping("webhook_registered", h))
           \/ log' = Append(log, Bookkeeping("webhook_deleted", h))
    BY <1>7 DEF StageBookkeeping, CanStage, coordinator
  <2>2. /\ \A k \in BookkeepingKinds, g \in Hooks : Bookkeeping(k, g) \in Records
        /\ \A k, l, f, g : Bookkeeping(k, f) = Bookkeeping(l, g) => k = l /\ f = g
    BY BookkeepingFacts
  <2>3. create[h].pc = "append" => h \in Present \/ DelPublished(h)
    BY <2>1 DEF ProtocolInv, EntryInv, Present
  <2>4. CASE create[h].pc = "append" /\ log' = Append(log, Bookkeeping("webhook_registered", h))
    BY <2>1, <2>2, <2>3, <2>4, AppendKeepsRoom DEF BookkeepingKinds
  <2>5. CASE log' = Append(log, Bookkeeping("webhook_deleted", h))
    BY <2>1, <2>2, <2>5, AppendKeepsRoom DEF BookkeepingKinds
  <2> QED BY <2>1, <2>4, <2>5
<1>8. ASSUME NEW h \in Hooks,
             \/ CreateReserve(h) \/ DeleteList(h) \/ AppendRefused(h) \/ AppendAnswered(h)
             \/ Disconnect(h) \/ WorkerStep(h)
      PROVE  RoomInv'
  <2>1. UNCHANGED <<log, published, poisoned, up, hooks>>
    BY <1>8 DEF CreateReserve, DeleteList, AppendRefused, AppendAnswered, Disconnect, WorkerStep,
       Load, PostOk, PostRetried, PostGivenUp, RecordOutcome, Checkpoint, Resume, Exit,
       timeline, coordinator
  <2> QED BY <1>3, <2>1
<1>9. ASSUME NEW s \in Streams,
             Connect(s) \/ ProducerStep(s) \/ ClientReads(s) \/ ClientLeaves(s)
      PROVE  RoomInv'
  <2>1. UNCHANGED <<log, published, poisoned, up, hooks>>
    BY <1>9 DEF Connect, ProducerStep, Replay, BatchRecord, Push, Receive, ClientReads,
       ClientLeaves, StreamStep, timeline, coordinator
  <2> QED BY <1>3, <2>1
<1>10. CASE HandleCommand
  BY <1>10, CommandKeepsRoom
<1>11. CASE Crash
  BY <1>11, CrashKeepsRoom
<1>12. CASE Restart
  BY <1>12, RestartKeepsRoom
<1> QED BY <1>4, <1>5, <1>6, <1>7, <1>8, <1>9, <1>10, <1>11, <1>12 DEF Next, CoordinatorStep

(* In every reachable state the requests about a hook, the commands on     *)
(* their way and the entry of the coordinator fit the records of the hook, *)
(* and unless a hook was deleted before it was registered the hooks a      *)
(* restart would configure fit into MAX_WEBHOOKS (create_webhook,          *)
(* delete_webhook, run_coordinator, restore_webhook_configs).              *)
THEOREM RestartInvariance == Spec => [](IInv /\ WebhookInv /\ RestartInv)
<1>1. Init => RestartInv
  BY InitRestartInv
<1>2. ASSUME IInv, WebhookInv, RestartInv, [Next]_vars PROVE RestartInv'
  <2>1. TypesInv /\ RoomInv /\ \A h \in Hooks : RegistrationInv(h) /\ ProtocolInv(h)
    BY <1>2 DEF WebhookInv, RestartInv
  <2>2. \A h \in Hooks : ProtocolInv(h)'
    BY <1>2, <2>1, ProtocolKept
  <2>3. RoomInv'
    BY <1>2, <2>1, RoomKept
  <2> QED BY <2>2, <2>3 DEF RestartInv
<1>3. IInv /\ WebhookInv /\ RestartInv /\ [Next]_vars => RestartInv'
  BY <1>2
<1> QED BY <1>1, <1>3, WebhooksInvariance, PTL DEF Spec

(* Answered requests leave nothing on its way. *)
LEMMA RestartAgrees == ASSUME IInv, WebhookInv, RestartInv PROVE RestartChangesNoHook
<1>1. TypesInv /\ \A h \in Hooks : RegistrationInv(h) /\ ProtocolInv(h)
  BY DEF WebhookInv, RestartInv
<1>2. /\ published \in Nat /\ Len(log) \in Nat /\ published \in 0..Len(log)
      /\ DOMAIN log = 1..Len(log)
  BY <1>1, TimelineFacts
<1>3. SUFFICES ASSUME up, \A h \in Hooks : ~DeletedTooEarly(h), NEW h \in Hooks, Answered(h)
               PROVE  hooks[h] = "active" <=> h \in Configured(published)
  BY DEF RestartChangesNoHook
<1>4. \A g \in Hooks : ~Early(g)
  BY <1>2, <1>3 DEF Early, DeletedTooEarly, Registered, Deleted, Places
<1>5. Orderly
  BY <1>4 DEF Orderly
<1>6. /\ create[h].pc \in {"idle", "done", "failed"} /\ delete[h].pc \in {"idle", "done", "failed"}
      /\ \A o : ~Queued(o, h)
  <2>1. create[h].pc \in RequestPCs /\ delete[h].pc \in RequestPCs
    BY <1>1 DEF TypesInv, RequestTypes, Requests
  <2>2. \A i \in 1..Len(commands) : commands[i].hook # h
    BY <1>1, <1>3, LenProperties DEF Answered, TypesInv, CoordinatorTypes
  <2> QED BY <1>3, <2>1, <2>2 DEF Answered, InProgress, RequestPCs, Queued, At
<1>7. h \in Configured(published) <=>
        \E i \in Registered(h) :
          i <= published /\ \A j \in Registered(h) \cup Deleted(h) : j <= published => j <= i
  BY <1>1, <1>2, ConfiguredView
<1>8. /\ RegistrationInv(h) /\ EntryInv(h)
      /\ Registered(h) \subseteq Nat /\ Deleted(h) \subseteq Nat
      /\ \A i \in Registered(h) : i \notin Deleted(h)
  <2>1. Bookkeeping("webhook_registered", h) # Bookkeeping("webhook_deleted", h)
    BY BookkeepingFacts
  <2>2. RegistrationInv(h) /\ EntryInv(h)
    BY <1>1 DEF ProtocolInv
  <2> QED BY <1>2, <2>1, <2>2 DEF Registered, Deleted, Places
<1> HIDE DEF Registered, Deleted
<1>9. ASSUME hooks[h] = "active" PROVE h \in Configured(published)
  <2>1. RegPublished(h) /\ ~DelPublished(h)
    BY <1>3, <1>4, <1>6, <1>8, <1>9 DEF EntryInv
  <2>2. PICK i \in Registered(h) : i <= published
    BY <2>1 DEF RegPublished
  <2>3. \A j \in Registered(h) \cup Deleted(h) : j <= published => j <= i
    BY <1>8, <2>1, <2>2 DEF RegistrationInv, DelPublished
  <2> QED BY <1>7, <2>2, <2>3
<1>10. ASSUME h \in Configured(published) PROVE hooks[h] = "active"
  <2>1. PICK i \in Registered(h) :
          i <= published /\ \A j \in Registered(h) \cup Deleted(h) : j <= published => j <= i
    BY <1>7, <1>10
  <2>2. RegPublished(h)
    BY <2>1 DEF RegPublished
  <2>3. ASSUME DelPublished(h) PROVE FALSE
    <3>1. PICK d \in Deleted(h) : d <= published
      BY <2>3 DEF DelPublished
    <3>2. d <= i /\ d # i
      BY <1>8, <2>1, <3>1
    <3>3. d < i
      BY <1>8, <3>2
    <3> QED BY <1>4, <3>3 DEF Early
  <2>4. create[h].pc # "idle"
    BY <1>8, <2>1 DEF RegistrationInv
  <2> QED BY <1>3, <1>5, <1>6, <1>8, <2>2, <2>3, <2>4 DEF EntryInv
<1> QED BY <1>9, <1>10

(* Once its requests are answered, a hook is served exactly when a restart *)
(* would configure it, unless some hook was deleted before it was          *)
(* registered: no interleaving of the two requests, a failed or unanswered *)
(* append, a dropped connection, the limit on hooks, or a crash makes the  *)
(* coordinator and the log disagree (delivery.rs run_coordinator,          *)
(* restore_webhook_configs).                                               *)
THEOREM RestartKeepsHooks == Spec => []RestartChangesNoHook
<1>1. IInv /\ WebhookInv /\ RestartInv => RestartChangesNoHook
  BY RestartAgrees
<1> QED BY <1>1, RestartInvariance, PTL
=============================================================================
