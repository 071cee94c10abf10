-------------------------- MODULE ListenStream_proofs --------------------------
(***************************************************************************)
(* What a subscriptions/listen stream keeps to, for every filter, every    *)
(* server and any number of frames, lost, repeated or another stream's.    *)
(***************************************************************************)
EXTENDS ListenStream, TLAPS

(* The frames sent: the acknowledgement, then what it allows.              *)
WireInOrder ==
  /\ granted = NoFilter <=> Len(wire) = 0
  /\ \A i \in 1..Len(wire) :
       \/ i = 1 /\ wire[i] = [method |-> "acknowledged", id |-> "s1",
                              filter |-> granted]
       \/ /\ i > 1 /\ wire[i] \in Notification
          /\ wire[i].method \in StreamMethods \cap HonouredMethods(granted)
          /\ wire[i].method = "updated" => wire[i].hint <= revision

(* What was received was received under the agreement.                     *)
ReceivedAgreed ==
  /\ stream.acknowledged => stream.honoured \in Filter
  /\ \A i \in 1..Len(stream.received) :
       /\ stream.acknowledged
       /\ stream.received[i].method \in HonouredMethods(stream.honoured)

(* Frames in order leave the client where the server thinks it is.         *)
InStep ==
  ~disturbed =>
    /\ stream.acknowledged <=> taken >= 1
    /\ stream.acknowledged => stream.honoured = granted
    /\ ~erred

(* A refetch is for the changes heard of when it was asked for, and brings *)
(* them, and nothing older than what is held.                              *)
FetchInOrder ==
  /\ held <= revision
  /\ fetch # Idle => fetch.owed <= revision
  /\ fetch.phase = "answered" =>
       held <= fetch.doc /\ fetch.owed <= fetch.doc /\ fetch.doc <= revision

(* A change heard of is in a hint that will ask for it, if not yet dealt   *)
(* with, and never is one to come.                                         *)
HeardIsWaiting ==
  /\ heard <= revision
  /\ \/ heard <= held
     \/ pending
     \/ \E h \in Hints(stream) : h = 0 \/ h >= heard
     \/ fetch # Idle /\ heard <= fetch.owed
     \/ heard <= missed

IInv ==
  TypeOK /\ WireInOrder /\ ReceivedAgreed /\ InStep /\ FetchInOrder
    /\ HeardIsWaiting

-----------------------------------------------------------------------------
(* A frame is an acknowledgement or a notification, and shows it.          *)
LEMMA FrameKinds ==
  ASSUME NEW f \in Frame
  PROVE  /\ f.method = "acknowledged" <=> f \in Acknowledgement
         /\ f.method # "acknowledged" <=> f \in Notification
  BY DEF Frame, Acknowledgement, Notification, StreamMethods, ListTypes

(* The larger of two numbers.                                              *)
LEMMA MaxOfTwo ==
  ASSUME NEW m \in Nat, NEW n \in Nat
  PROVE  Max({m, n}) = IF m >= n THEN m ELSE n
<1> DEFINE larger == IF m >= n THEN m ELSE n
<1>1. larger \in {m, n} /\ \A y \in {m, n} : larger >= y
  OBVIOUS
<1>2. \A x \in {m, n} : (\A y \in {m, n} : x >= y) => x = larger
  OBVIOUS
<1> HIDE DEF larger
<1>3. (CHOOSE x \in {m, n} : \A y \in {m, n} : x >= y) = larger
  BY <1>1, <1>2
<1> QED BY <1>3 DEF Max, larger

(* Appending a frame adds its hint to those that wait.                     *)
LEMMA HintsGrow ==
  ASSUME NEW s, NEW t, NEW f,
         s.received \in Seq(Notification), f \in Notification,
         t.received = Append(s.received, f)
  PROVE  /\ Hints(s) \subseteq Hints(t)
         /\ f.method = "updated" /\ f.uri = Mine => f.hint \in Hints(t)
<1>1. Range(t.received) = Range(s.received) \cup {f}
  <2>1. DOMAIN t.received = 1..(Len(s.received) + 1)
    OBVIOUS
  <2>2. DOMAIN s.received = 1..Len(s.received) /\ Len(s.received) \in Nat
    OBVIOUS
  <2>3. \A i \in 1..Len(s.received) : t.received[i] = s.received[i]
    OBVIOUS
  <2>4. t.received[Len(s.received) + 1] = f
    OBVIOUS
  <2> QED BY <2>1, <2>2, <2>3, <2>4 DEF Range
<1> QED BY <1>1 DEF Hints

(* Frames that can be offered are frames, and about no revision to come.   *)
LEMMA OfferedIsFrame ==
  ASSUME IInv, NEW f \in Range(wire) \cup Foreign
  PROVE  /\ f \in Frame
         /\ f.method = "updated" /\ f.uri = Mine => f.hint <= revision
<1>1. CASE f \in Foreign
  <2>1. f \in Frame
    BY <1>1, ListenAssumption
  <2>2. f.method = "updated" => f \in Notification
    BY <2>1, FrameKinds
  <2>3. f.method = "updated" => f.hint \in Nat
    BY <2>2, ListenAssumption DEF Notification, ListTypes
  <2> QED
    BY <1>1, <2>1, <2>3, ListenAssumption DEF IInv, TypeOK
<1>2. CASE f \in Range(wire)
  <2>1. PICK i \in 1..Len(wire) : f = wire[i]
    BY <1>2 DEF Range, IInv, TypeOK
  <2> QED BY <2>1 DEF IInv, TypeOK, WireInOrder
<1> QED BY <1>1, <1>2
-----------------------------------------------------------------------------
(* The initial state.                                                      *)
LEMMA InitHolds == Init => IInv
<1> SUFFICES ASSUME Init PROVE IInv
  OBVIOUS
<1>1. TypeOK
  <2>1. wire \in Seq(Frame) /\ taken \in 0..Len(wire)
    BY DEF Init
  <2>2. stream \in [acknowledged : BOOLEAN, id : {"s1", "s2", NoId},
                   honoured : Filter \cup {NoFilter}, received : Seq(Notification)]
    BY DEF Init
  <2>3. MaxRevision \in Nat \ {0}
    BY ListenAssumption
  <2>4. /\ revision \in 1..MaxRevision
        /\ {held, heard, missed} \subseteq 0..MaxRevision
    BY <2>3 DEF Init
  <2>5. {pending, disturbed, erred} \subseteq BOOLEAN
    BY DEF Init
  <2>6. granted \in Filter \cup {NoFilter} /\ fetch \in Fetch
    BY DEF Init, Fetch
  <2> QED BY <2>1, <2>2, <2>4, <2>5, <2>6 DEF TypeOK
<1>2. WireInOrder
  BY DEF Init, WireInOrder
<1>3. ReceivedAgreed /\ InStep
  BY DEF Init, ReceivedAgreed, InStep
<1>4. FetchInOrder /\ HeardIsWaiting
  BY DEF Init, Idle, FetchInOrder, HeardIsWaiting
<1> QED BY <1>1, <1>2, <1>3, <1>4 DEF IInv

(* accept(): what one frame does to the stream, the errors and what was    *)
(* heard, whether it is refused or not.                                    *)
LEMMA OfferKeeps ==
  ASSUME IInv, NEW f \in Frame, Offer(f),
         f.method = "updated" /\ f.uri = Mine => f.hint <= revision,
         UNCHANGED <<revision, consumer>>
  PROVE  /\ FetchInOrder'
         /\ stream' \in [acknowledged : BOOLEAN, id : {"s1", "s2", NoId},
                          honoured : Filter \cup {NoFilter},
                          received : Seq(Notification)]
         /\ erred' \in BOOLEAN
         /\ heard' \in 0..MaxRevision
         /\ ReceivedAgreed'
         /\ HeardIsWaiting'
         /\ stream.acknowledged =>
              /\ stream'.acknowledged
              /\ stream'.id = stream.id
              /\ stream'.honoured = stream.honoured
<1>1. /\ stream \in [acknowledged : BOOLEAN, id : {"s1", "s2", NoId},
                     honoured : Filter \cup {NoFilter},
                     received : Seq(Notification)]
      /\ heard \in 0..MaxRevision /\ held \in 0..MaxRevision
      /\ revision \in 1..MaxRevision /\ erred \in BOOLEAN
      /\ MaxRevision \in Nat
  BY ListenAssumption DEF IInv, TypeOK
<1>2. erred' \in BOOLEAN
  BY <1>1 DEF Offer, Refused
<1>6. FetchInOrder' /\ UNCHANGED <<revision, held, pending, fetch, missed>>
  BY DEF consumer, IInv, FetchInOrder
<1>3. CASE Refused(stream, f)
  <2>1. stream' = stream /\ heard' = heard
    BY <1>3 DEF Offer
  <2> QED BY <1>1, <1>2, <1>6, <2>1 DEF IInv, ReceivedAgreed, HeardIsWaiting, Hints
<1>4. CASE ~Refused(stream, f) /\ f.method = "acknowledged"
  <2>1. f \in Acknowledgement
    BY <1>4, FrameKinds
  <2>2. /\ ~stream.acknowledged
        /\ f.id # NoId
        /\ stream' = Acknowledged(stream, f)
        /\ heard' = heard
    BY <1>4 DEF Offer, Refused, Accept
  <2>3. /\ stream'.acknowledged = TRUE
        /\ stream'.id = f.id
        /\ stream'.honoured = IF f.filter = NoFilter THEN Asked ELSE f.filter
        /\ stream'.received = stream.received
        /\ stream' \in [acknowledged : BOOLEAN, id : {"s1", "s2", NoId},
                        honoured : Filter \cup {NoFilter},
                        received : Seq(Notification)]
    BY <1>1, <2>1, <2>2, ListenAssumption DEF Acknowledged, Acknowledgement
  <2>4. stream'.honoured \in Filter
    BY <2>1, <2>3, ListenAssumption DEF Acknowledgement
  <2>5. Len(stream.received) = 0
    BY <1>1, <2>2 DEF IInv, ReceivedAgreed
  <2>6. ReceivedAgreed'
    BY <2>3, <2>4, <2>5 DEF ReceivedAgreed
  <2>7. HeardIsWaiting'
    BY <1>6, <2>2, <2>3 DEF IInv, HeardIsWaiting, Hints
  <2> QED BY <1>1, <1>2, <1>6, <2>2, <2>3, <2>6, <2>7
<1>5. CASE ~Refused(stream, f) /\ f.method # "acknowledged"
  <2>1. f \in Notification
    BY <1>5, FrameKinds
  <2>2. /\ stream.acknowledged
        /\ f.method \in HonouredMethods(stream.honoured)
        /\ stream' = [stream EXCEPT !.received = Append(@, f)]
    BY <1>5 DEF Offer, Refused, Accept
  <2>3. /\ stream'.acknowledged = stream.acknowledged
        /\ stream'.id = stream.id
        /\ stream'.honoured = stream.honoured
        /\ stream'.received = Append(stream.received, f)
        /\ stream' \in [acknowledged : BOOLEAN, id : {"s1", "s2", NoId},
                        honoured : Filter \cup {NoFilter},
                        received : Seq(Notification)]
    <3>1. Append(stream.received, f) \in Seq(Notification)
      BY <1>1, <2>1
    <3> QED BY <1>1, <2>2, <3>1
  <2>4. ReceivedAgreed'
    BY <1>1, <2>2, <2>3 DEF IInv, ReceivedAgreed
  <2>5. /\ Hints(stream) \subseteq Hints(stream')
        /\ f.method = "updated" /\ f.uri = Mine => f.hint \in Hints(stream')
    BY <1>1, <2>1, <2>3, HintsGrow
  <2>6. f.method = "updated" => f.hint \in 0..MaxRevision
    BY <2>1 DEF Notification, ListTypes
  <2>7. CASE f.method = "updated" /\ f.uri = Mine
    <3> DEFINE told == IF f.hint = 0 THEN revision ELSE f.hint
    <3>1. told \in 0..MaxRevision /\ told <= revision
      BY <1>1, <2>6, <2>7
    <3>2. heard' = Max({heard, told})
      BY <1>5, <2>7 DEF Offer
    <3>3. heard' = IF heard >= told THEN heard ELSE told
      BY <1>1, <3>1, <3>2, MaxOfTwo
    <3>4. heard' \in 0..MaxRevision
      BY <1>1, <3>1, <3>3
    <3>5. HeardIsWaiting'
      <4>1. heard' <= revision
        BY <1>1, <1>6, <3>1, <3>3 DEF IInv, HeardIsWaiting
      <4>2. f.hint \in Hints(stream')
        BY <2>5, <2>7
      <4>3. CASE heard' = heard
        BY <1>6, <2>5, <4>1, <4>3 DEF IInv, HeardIsWaiting
      <4>4. CASE heard' = told
        <5>1. f.hint = 0 \/ f.hint >= heard'
          BY <1>1, <2>6, <2>7, <4>4
        <5> QED BY <4>1, <4>2, <5>1 DEF HeardIsWaiting
      <4> QED BY <3>3, <4>3, <4>4
    <3> QED BY <1>2, <1>6, <2>3, <2>4, <3>4, <3>5
  <2>8. CASE ~(f.method = "updated" /\ f.uri = Mine)
    <3>1. heard' = heard
      BY <2>8 DEF Offer
    <3>2. HeardIsWaiting'
      BY <1>6, <2>5, <3>1 DEF IInv, HeardIsWaiting, Hints
    <3> QED BY <1>1, <1>2, <1>6, <2>3, <2>4, <3>1, <3>2
  <2> QED BY <2>7, <2>8
<1> QED BY <1>3, <1>4, <1>5

(* What the server sends keeps the wire in order, and nothing else moves   *)
(* but the wire, the agreement it states and the revision it announces.    *)
LEMMA ServerKeeps ==
  ASSUME IInv,
         \/ \E f \in Grants : Acknowledge(f)
         \/ \E f \in Notification : Notify(f)
         \/ Publish
  PROVE  IInv'
<1>0. /\ revision \in 1..MaxRevision /\ MaxRevision \in Nat
      /\ wire \in Seq(Frame) /\ Len(wire) \in Nat
      /\ taken \in 0..Len(wire)
      /\ {held, heard} \subseteq 0..MaxRevision
  BY ListenAssumption DEF IInv, TypeOK
<1>1. CASE \E f \in Grants : Acknowledge(f)
  <2>1. PICK f \in Grants : Acknowledge(f)
    BY <1>1
  <2> DEFINE ack == [method |-> "acknowledged", id |-> "s1", filter |-> f]
  <2>2. ack \in Frame /\ f \in Filter
    BY ListenAssumption DEF Frame, Acknowledgement
  <2>3. /\ granted = NoFilter /\ Len(wire) = 0 /\ taken = 0
        /\ granted' = f /\ f # NoFilter
        /\ wire' = Append(wire, ack)
        /\ UNCHANGED <<revision, taken, stream, consumer, disturbed, erred, heard>>
    BY <1>0, <2>1, <2>2, ListenAssumption DEF Acknowledge, Send, IInv, WireInOrder
  <2> HIDE DEF ack
  <2>4. wire' \in Seq(Frame) /\ Len(wire') = 1 /\ wire'[1] = ack
    BY <1>0, <2>2, <2>3
  <2>5. TypeOK'
    BY <2>2, <2>3, <2>4 DEF IInv, TypeOK, consumer
  <2>6. WireInOrder'
    BY <2>3, <2>4 DEF WireInOrder, ack
  <2>7. ReceivedAgreed' /\ InStep' /\ FetchInOrder' /\ HeardIsWaiting'
    BY <2>3 DEF IInv, ReceivedAgreed, InStep, FetchInOrder, HeardIsWaiting, Hints,
                consumer
  <2> QED BY <2>5, <2>6, <2>7 DEF IInv
<1>2. CASE \E f \in Notification : Notify(f)
  <2>1. PICK f \in Notification : Notify(f)
    BY <1>2
  <2>2. /\ granted # NoFilter
        /\ wire' = Append(wire, f)
        /\ UNCHANGED <<revision, granted, taken, stream, consumer, disturbed,
                       erred, heard>>
    BY <2>1 DEF Notify, Send, server
  <2>3. /\ granted \in Filter
        /\ f.method \in StreamMethods \cap HonouredMethods(granted)
        /\ f.method = "updated" => f.hint <= revision
    <3>1. granted \in Filter
      BY <2>2 DEF IInv, TypeOK
    <3>2. f.method \in HonouredMethods(granted)
      BY <2>1 DEF Notify, HonouredMethods
    <3>3. f.method \in StreamMethods
      BY <2>1, <3>1 DEF Notify, Filter, StreamMethods
    <3>4. f.method = "updated" => f.hint <= revision
      BY <1>0, <2>1, <3>1 DEF Notify, Filter, ListTypes
    <3> QED BY <3>1, <3>2, <3>3, <3>4
  <2>4. /\ wire' \in Seq(Frame)
        /\ Len(wire') = Len(wire) + 1
        /\ wire'[Len(wire) + 1] = f
        /\ \A i \in 1..Len(wire) : wire'[i] = wire[i]
    BY <1>0, <2>2 DEF Frame
  <2>5. Len(wire) > 0
    BY <1>0, <2>2 DEF IInv, WireInOrder
  <2>6. TypeOK'
    BY <1>0, <2>2, <2>4 DEF IInv, TypeOK, consumer
  <2>7. WireInOrder'
    <3>1. granted' # NoFilter /\ Len(wire') # 0
      BY <1>0, <2>2, <2>4
    <3>2. ASSUME NEW i \in 1..Len(wire')
          PROVE  \/ i = 1 /\ wire'[i] = [method |-> "acknowledged", id |-> "s1",
                                         filter |-> granted']
                 \/ /\ i > 1 /\ wire'[i] \in Notification
                    /\ wire'[i].method \in StreamMethods \cap HonouredMethods(granted')
                    /\ wire'[i].method = "updated" => wire'[i].hint <= revision'
      <4>1. CASE i \in 1..Len(wire)
        BY <2>2, <2>4, <4>1 DEF IInv, WireInOrder
      <4>2. CASE i = Len(wire) + 1
        BY <1>0, <2>1, <2>2, <2>3, <2>4, <2>5, <4>2
      <4> QED BY <1>0, <2>4, <4>1, <4>2
    <3> QED BY <3>1, <3>2 DEF WireInOrder
  <2>8. ReceivedAgreed' /\ InStep' /\ FetchInOrder' /\ HeardIsWaiting'
    BY <2>2 DEF IInv, ReceivedAgreed, InStep, FetchInOrder, HeardIsWaiting, Hints,
                consumer
  <2> QED BY <2>6, <2>7, <2>8 DEF IInv
<1>3. CASE Publish
  <2>1. /\ revision' = revision + 1 /\ revision' \in 1..MaxRevision
        /\ UNCHANGED <<granted, wire, taken, stream, consumer, disturbed, erred,
                       heard>>
    BY <1>0, <1>3 DEF Publish
  <2>2. TypeOK'
    BY <2>1 DEF IInv, TypeOK, consumer
  <2>3. \A n \in Int : n <= revision => n <= revision'
    BY <1>0, <2>1
  <2>4. WireInOrder'
    <3>1. \A i \in 1..Len(wire) :
            wire[i] \in Notification /\ wire[i].method = "updated" =>
              wire[i].hint \in Int
      BY ListenAssumption DEF Notification, ListTypes
    <3> QED BY <2>1, <2>3, <3>1 DEF IInv, WireInOrder
  <2>5. ReceivedAgreed' /\ InStep' /\ HeardIsWaiting'
    BY <1>0, <2>1, <2>3
    DEF IInv, ReceivedAgreed, InStep, HeardIsWaiting, Hints, consumer
  <2>6. FetchInOrder'
    BY <1>0, <2>1, <2>3 DEF IInv, TypeOK, Fetch, Idle, FetchInOrder, consumer
  <2> QED BY <2>2, <2>4, <2>5, <2>6 DEF IInv
<1> QED BY <1>1, <1>2, <1>3

(* A frame in order is the acknowledgement on a stream that has none, or a *)
(* notification the client accepts.                                        *)
LEMMA InOrderAccepted ==
  ASSUME IInv, ~disturbed, taken < Len(wire), Offer(wire[taken + 1])
  PROVE  /\ ~erred'
         /\ stream'.acknowledged
         /\ stream'.honoured = granted
<1> DEFINE f == wire[taken + 1]
<1>0. /\ taken \in Nat /\ Len(wire) \in Nat
      /\ taken + 1 \in 1..Len(wire) /\ f \in Frame
      /\ stream \in [acknowledged : BOOLEAN, id : {"s1", "s2", NoId},
                     honoured : Filter \cup {NoFilter},
                     received : Seq(Notification)]
  BY DEF IInv, TypeOK
<1>1. /\ ~erred
      /\ stream.acknowledged <=> taken >= 1
      /\ stream.acknowledged => stream.honoured = granted
  BY DEF IInv, InStep
<1>2. CASE taken = 0
  <2>1. f = [method |-> "acknowledged", id |-> "s1", filter |-> granted]
        /\ granted # NoFilter
    BY <1>0, <1>2 DEF IInv, WireInOrder
  <2>2. ~Refused(stream, f)
    BY <1>1, <1>2, <2>1, ListenAssumption DEF Refused
  <2>3. stream' = Acknowledged(stream, f)
    BY <2>1, <2>2 DEF Offer, Accept
  <2>4. granted \in Filter
    BY <2>1 DEF IInv, TypeOK
  <2>5. stream'.acknowledged /\ stream'.honoured = granted
    BY <1>0, <2>1, <2>3 DEF Acknowledged
  <2>6. ~erred'
    BY <1>1, <2>2 DEF Offer
  <2> QED BY <2>5, <2>6
<1>3. CASE taken >= 1
  <2>1. f \in Notification /\ f.method \in StreamMethods \cap HonouredMethods(granted)
    BY <1>0, <1>3 DEF IInv, WireInOrder
  <2>2. f.method # "acknowledged"
    BY <2>1 DEF StreamMethods, ListTypes
  <2>3. ~Refused(stream, f)
    BY <1>1, <1>3, <2>1, <2>2 DEF Refused
  <2>4. stream' = [stream EXCEPT !.received = Append(@, f)]
    BY <2>2, <2>3 DEF Offer, Accept
  <2> QED BY <1>0, <1>1, <1>3, <2>3, <2>4 DEF Offer
<1> QED BY <1>0, <1>2, <1>3

(* The consumer's read: what was heard of is owed, then asked for, then    *)
(* held or missed.                                                         *)
LEMMA ReadKeeps ==
  ASSUME IInv, Ask \/ Answer \/ AskedInVain \/ Admitted
  PROVE  IInv'
<1>0. /\ revision \in 1..MaxRevision /\ MaxRevision \in Nat
      /\ held \in 0..MaxRevision /\ heard \in 0..MaxRevision
      /\ missed \in 0..MaxRevision
      /\ fetch \in Fetch /\ pending \in BOOLEAN
      /\ UNCHANGED <<revision, granted, wire, taken, stream, disturbed, erred,
                     heard>>
  BY ListenAssumption
  DEF IInv, TypeOK, server, Ask, Answer, AskedInVain, Admitted
<1>1. WireInOrder' /\ ReceivedAgreed' /\ InStep' /\ Hints(stream') = Hints(stream)
  BY <1>0 DEF IInv, WireInOrder, ReceivedAgreed, InStep
<1>2. /\ held' \in 0..MaxRevision /\ missed' \in 0..MaxRevision
      /\ fetch' \in Fetch /\ pending' \in BOOLEAN
      /\ FetchInOrder' /\ HeardIsWaiting'
  <2>1. CASE Ask
    <3>1. /\ fetch' = [phase |-> "asked", owed |-> heard] /\ fetch' # Idle
          /\ pending' = FALSE
          /\ UNCHANGED <<held, missed>>
      BY <2>1 DEF Ask, Idle
    <3>2. fetch' \in Fetch
      BY <1>0, <3>1 DEF Fetch
    <3>3. fetch'.phase = "asked" /\ fetch'.owed = heard /\ heard <= heard
      BY <1>0, <3>1
    <3>4. held' <= revision /\ fetch'.owed <= revision'
      BY <1>0, <3>1, <3>3 DEF IInv, FetchInOrder, HeardIsWaiting
    <3>5. FetchInOrder'
      BY <1>0, <3>3, <3>4 DEF FetchInOrder
    <3>6. HeardIsWaiting'
      BY <1>0, <3>1, <3>3 DEF IInv, HeardIsWaiting
    <3> QED BY <1>0, <3>1, <3>2, <3>5, <3>6
  <2>2. CASE Answer
    <3>1. /\ fetch # Idle /\ fetch.owed \in 0..MaxRevision
          /\ fetch' = [phase |-> "answered", owed |-> fetch.owed, doc |-> revision]
          /\ fetch' # Idle
          /\ UNCHANGED <<held, pending, missed>>
      BY <1>0, <2>2 DEF Answer, Idle, Fetch
    <3>2. fetch' \in Fetch
      BY <1>0, <3>1 DEF Fetch
    <3>3. FetchInOrder'
      BY <1>0, <3>1 DEF IInv, FetchInOrder
    <3> QED BY <1>0, <1>1, <3>1, <3>2, <3>3 DEF IInv, HeardIsWaiting
  <2>3. CASE AskedInVain
    <3>1. /\ fetch # Idle /\ fetch.owed \in 0..MaxRevision
          /\ fetch' = Idle /\ fetch'.phase = "idle"
          /\ missed' = Max({missed, fetch.owed})
          /\ UNCHANGED <<held, pending>>
      BY <1>0, <2>3 DEF AskedInVain, Idle, Fetch
    <3>2. missed' = IF missed >= fetch.owed THEN missed ELSE fetch.owed
      BY <1>0, <3>1, MaxOfTwo
    <3>3. missed' \in 0..MaxRevision /\ missed <= missed' /\ fetch.owed <= missed'
      BY <1>0, <3>1, <3>2
    <3>4. HeardIsWaiting'
      <4>1. heard <= missed \/ heard <= fetch.owed => heard <= missed'
        BY <1>0, <3>1, <3>3
      <4> QED BY <1>0, <1>1, <3>1, <4>1 DEF IInv, HeardIsWaiting
    <3> QED BY <1>0, <3>1, <3>3, <3>4 DEF IInv, Fetch, FetchInOrder
  <2>4. CASE Admitted
    <3>1. /\ fetch.phase = "answered"
          /\ fetch.doc \in 1..MaxRevision /\ fetch.owed \in 0..MaxRevision
          /\ fetch' = Idle /\ fetch'.phase = "idle"
          /\ held' = fetch.doc
          /\ UNCHANGED <<pending, missed>>
      BY <1>0, <2>4 DEF Admitted, Idle, Fetch
    <3>2. held <= held' /\ fetch.owed <= held' /\ held' <= revision
      BY <3>1 DEF IInv, FetchInOrder
    <3>3. HeardIsWaiting'
      <4>1. heard <= held \/ heard <= fetch.owed => heard <= held'
        BY <1>0, <3>1, <3>2
      <4> QED BY <1>0, <1>1, <3>1, <4>1 DEF IInv, HeardIsWaiting
    <3> QED BY <1>0, <3>1, <3>2, <3>3 DEF Fetch, FetchInOrder
  <2> QED BY <2>1, <2>2, <2>3, <2>4
<1>3. TypeOK'
  BY <1>0, <1>2 DEF IInv, TypeOK
<1> QED BY <1>1, <1>2, <1>3 DEF IInv

(* Every step preserves the invariant: what the transport hands over goes  *)
(* through accept(), the rest leaves the stream's agreement alone.         *)
LEMMA StepKeeps == IInv /\ [Next]_vars => IInv'
<1> SUFFICES ASSUME IInv, [Next]_vars PROVE IInv'
  OBVIOUS
<1>0. /\ revision \in 1..MaxRevision /\ MaxRevision \in Nat
      /\ {held, heard} \subseteq 0..MaxRevision
      /\ wire \in Seq(Frame) /\ Len(wire) \in Nat /\ taken \in 0..Len(wire)
      /\ stream \in [acknowledged : BOOLEAN, id : {"s1", "s2", NoId},
                     honoured : Filter \cup {NoFilter},
                     received : Seq(Notification)]
  BY ListenAssumption DEF IInv, TypeOK
<1>1. CASE \/ \E f \in Grants : Acknowledge(f)
           \/ \E f \in Notification : Notify(f)
           \/ Publish
  BY <1>1, ServerKeeps
<1>2. CASE Deliver
  <2> DEFINE f == wire[taken + 1]
  <2>1. /\ taken < Len(wire) /\ taken' = taken + 1 /\ Offer(f)
        /\ UNCHANGED <<revision, granted, wire, consumer, disturbed>>
    BY <1>2 DEF Deliver, server
  <2>2. f \in Range(wire)
    BY <1>0, <2>1 DEF Range
  <2>3. f \in Frame /\ (f.method = "updated" /\ f.uri = Mine => f.hint <= revision)
    BY <2>2, OfferedIsFrame
  <2> HIDE DEF f
  <2>4. /\ stream' \in [acknowledged : BOOLEAN, id : {"s1", "s2", NoId},
                        honoured : Filter \cup {NoFilter},
                        received : Seq(Notification)]
        /\ erred' \in BOOLEAN /\ heard' \in 0..MaxRevision
        /\ ReceivedAgreed' /\ FetchInOrder' /\ HeardIsWaiting'
    BY <2>1, <2>3, OfferKeeps
  <2>5. TypeOK'
    BY <1>0, <2>1, <2>4 DEF IInv, TypeOK, consumer
  <2>6. WireInOrder'
    BY <2>1 DEF IInv, WireInOrder
  <2>7. InStep'
    <3> SUFFICES ASSUME ~disturbed'
                 PROVE  /\ stream'.acknowledged <=> taken' >= 1
                        /\ stream'.acknowledged => stream'.honoured = granted'
                        /\ ~erred'
      BY DEF InStep
    <3>1. ~erred' /\ stream'.acknowledged /\ stream'.honoured = granted
      BY <2>1, InOrderAccepted DEF f
    <3>2. taken' >= 1
      BY <1>0, <2>1
    <3> QED BY <2>1, <3>1, <3>2
  <2> QED BY <2>4, <2>5, <2>6, <2>7 DEF IInv
<1>3. CASE \E f \in Range(wire) \cup Foreign : Misdeliver(f)
  <2>1. PICK f \in Range(wire) \cup Foreign : Misdeliver(f)
    BY <1>3
  <2>2. /\ Offer(f) /\ disturbed' = TRUE
        /\ UNCHANGED <<revision, granted, wire, taken, consumer>>
    BY <2>1 DEF Misdeliver, server
  <2>3. f \in Frame /\ (f.method = "updated" /\ f.uri = Mine => f.hint <= revision)
    BY OfferedIsFrame
  <2>4. /\ stream' \in [acknowledged : BOOLEAN, id : {"s1", "s2", NoId},
                        honoured : Filter \cup {NoFilter},
                        received : Seq(Notification)]
        /\ erred' \in BOOLEAN /\ heard' \in 0..MaxRevision
        /\ ReceivedAgreed' /\ FetchInOrder' /\ HeardIsWaiting'
    BY <2>2, <2>3, OfferKeeps
  <2>5. TypeOK'
    BY <2>2, <2>4 DEF IInv, TypeOK, consumer
  <2>6. WireInOrder' /\ InStep'
    BY <2>2 DEF IInv, WireInOrder, InStep
  <2> QED BY <2>4, <2>5, <2>6 DEF IInv
<1>4. CASE Lose
  <2>1. /\ taken' = taken + 1 /\ taken < Len(wire) /\ disturbed' = TRUE
        /\ UNCHANGED <<revision, granted, wire, stream, consumer, erred, heard>>
    BY <1>4 DEF Lose, server
  <2>2. TypeOK'
    BY <1>0, <2>1 DEF IInv, TypeOK, consumer
  <2> QED
    BY <2>1, <2>2
    DEF IInv, WireInOrder, ReceivedAgreed, InStep, FetchInOrder, HeardIsWaiting,
        Hints, consumer
<1>5. CASE Drain
  <2>1. /\ stream' = [stream EXCEPT !.received = <<>>]
        /\ pending' = (pending \/ \E h \in Hints(stream) : h = 0 \/ h # held)
        /\ UNCHANGED <<revision, granted, wire, taken, held, fetch, missed,
                       disturbed, erred, heard>>
    BY <1>5 DEF Drain, server
  <2>2. /\ stream'.acknowledged = stream.acknowledged
        /\ stream'.honoured = stream.honoured
        /\ stream'.received = <<>>
        /\ stream' \in [acknowledged : BOOLEAN, id : {"s1", "s2", NoId},
                        honoured : Filter \cup {NoFilter},
                        received : Seq(Notification)]
    <3>1. <<>> \in Seq(Notification)
      OBVIOUS
    <3> QED BY <1>0, <2>1, <3>1
  <2>3. pending' \in BOOLEAN
    BY <2>1 DEF IInv, TypeOK
  <2>4. TypeOK'
    BY <2>1, <2>2, <2>3 DEF IInv, TypeOK
  <2>5. ReceivedAgreed' /\ FetchInOrder'
    BY <2>1, <2>2 DEF IInv, ReceivedAgreed, FetchInOrder
  <2>6. HeardIsWaiting'
    <3>1. \A h \in Hints(stream) : h >= heard => heard <= held \/ h # held
      BY <1>0
    <3> QED BY <2>1, <3>1 DEF IInv, HeardIsWaiting
  <2>7. WireInOrder' /\ InStep'
    BY <2>1, <2>2 DEF IInv, WireInOrder, InStep
  <2> QED BY <2>4, <2>5, <2>6, <2>7 DEF IInv
<1>6. CASE Ask \/ Answer \/ AskedInVain \/ Admitted
  BY <1>6, ReadKeeps
<1>7. CASE UNCHANGED vars
  <2>1. TypeOK'
    BY <1>7 DEF vars, server, consumer, IInv, TypeOK
  <2> QED
    BY <1>7, <2>1 DEF vars, server, consumer, IInv, WireInOrder, ReceivedAgreed,
                      InStep, FetchInOrder, HeardIsWaiting, Hints
<1> QED BY <1>1, <1>2, <1>3, <1>4, <1>5, <1>6, <1>7 DEF Next

(* The invariant of every stream.                                          *)
THEOREM StreamInvariant == Spec => []IInv
<1>1. Init => IInv
  BY InitHolds
<1>2. IInv /\ [Next]_vars => IInv'
  BY StepKeeps
<1> QED BY <1>1, <1>2, PTL DEF Spec

-----------------------------------------------------------------------------
(* A stream whose frames come in order is never refused one, whatever part *)
(* of the filter the server acknowledged (subscriptions.py, accept).       *)
THEOREM NeverRefusedInOrder == Spec => []OrderedStreamAccepted
<1>1. IInv => OrderedStreamAccepted
  BY DEF IInv, InStep, OrderedStreamAccepted
<1> QED BY <1>1, StreamInvariant, PTL

(* A change that was accepted waits in the stream, or a refetch is owed or *)
(* under way for it, or it is held, or a read for it was made in vain,     *)
(* whatever the transport does to the frames and however the read ends.    *)
THEOREM AcceptedChangeNoticed == Spec => []AcceptedIsNoticed
<1>1. IInv => AcceptedIsNoticed
  BY DEF IInv, HeardIsWaiting, AcceptedIsNoticed
<1> QED BY <1>1, StreamInvariant, PTL

(* No later frame changes what a stream has agreed to carry.               *)
THEOREM AgreementNeverChanges == Spec => AgreementStands
<1> DEFINE Stands == stream.acknowledged =>
                       stream'.id = stream.id /\ stream'.honoured = stream.honoured
<1>1. ASSUME IInv, [Next]_vars PROVE [Stands]_vars
  <2> SUFFICES ASSUME stream.acknowledged, stream' # stream
               PROVE  stream'.id = stream.id /\ stream'.honoured = stream.honoured
    OBVIOUS
  <2>1. CASE Deliver
    <3>1. wire[taken + 1] \in Range(wire)
      BY <1>1, <2>1 DEF Deliver, Range, IInv, TypeOK
    <3>2. Offer(wire[taken + 1]) /\ UNCHANGED <<revision, consumer>>
      BY <2>1 DEF Deliver, server
    <3> QED BY <1>1, <3>1, <3>2, OfferedIsFrame, OfferKeeps
  <2>2. CASE \E f \in Range(wire) \cup Foreign : Misdeliver(f)
    <3>1. PICK f \in Range(wire) \cup Foreign : Misdeliver(f)
      BY <2>2
    <3>2. Offer(f) /\ UNCHANGED <<revision, consumer>>
      BY <3>1 DEF Misdeliver, server
    <3> QED BY <1>1, <3>1, <3>2, OfferedIsFrame, OfferKeeps
  <2>3. CASE Drain
    BY <1>1, <2>3 DEF Drain, IInv, TypeOK
  <2>4. CASE UNCHANGED stream
    BY <2>4
  <2> QED
    BY <1>1, <2>1, <2>2, <2>3, <2>4
    DEF Next, vars, Acknowledge, Notify, Publish, Lose, Ask, Answer, AskedInVain,
        Admitted
<1> QED BY <1>1, StreamInvariant, PTL DEF Spec, AgreementStands

(* Nothing is taken before the acknowledgement, and nothing that it does   *)
(* not name, whatever is repeated, reordered, lost or another stream's; so *)
(* nothing beyond the request, unless the peer acknowledged more           *)
(* (subscriptions.py, invariants 1 and 2).                                 *)
THEOREM OnlyAgreedReceived == Spec => []OnlyAgreedTypes
<1>1. IInv => OnlyAgreedTypes
  <2> SUFFICES ASSUME IInv, NEW i \in DOMAIN stream.received
               PROVE  /\ stream.acknowledged
                      /\ stream.received[i].method \in HonouredMethods(stream.honoured)
                      /\ stream.received[i].method \in HonouredMethods(Asked)
                           \/ ~Narrower(stream.honoured)
    BY DEF OnlyAgreedTypes
  <2>1. /\ stream.acknowledged
        /\ stream.received[i].method \in HonouredMethods(stream.honoured)
    BY DEF IInv, TypeOK, ReceivedAgreed
  <2>2. Narrower(stream.honoured) =>
          HonouredMethods(stream.honoured) \subseteq HonouredMethods(Asked)
    BY DEF Narrower, HonouredMethods
  <2> QED BY <2>1, <2>2
<1> QED BY <1>1, StreamInvariant, PTL
=============================================================================
