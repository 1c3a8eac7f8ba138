-------------------------- MODULE BootstrapProofs --------------------------
(***************************************************************************)
(* Theorems about Bootstrap and the MQTT client under it.                  *)
(***************************************************************************)
EXTENDS Bootstrap, TLAPS

\* A client that was just made, or made again.
LEMMA FreshTyped ==
  ASSUME MqttInit
  PROVE  MqttTypeOK
<1>1. queue \in Seq(Packet) /\ Len(queue) <= QueueLen
  <2>1. queue = <<>>
    BY DEF MqttInit
  <2> QED
    BY <2>1, MqttAssumption
<1>2. blobs \in 0 .. HeapBlobs
  BY MqttAssumption DEF MqttInit
<1> QED
  BY <1>1, <1>2 DEF MqttInit, MqttTypeOK

LEMMA StartTyped == Init => TypeOK
<1> SUFFICES ASSUME Init PROVE TypeOK
  OBVIOUS
<1>1. MqttTypeOK
  BY FreshTyped DEF Init
<1>2. cmd \in Packet
  BY MqttAssumption DEF Init, NoCmd, Packet, CmdType, Size
<1> QED
  BY <1>1, <1>2 DEF Init, TypeOK

LEMMA NoCmdTyped == NoCmd \in Packet
BY MqttAssumption DEF NoCmd, Packet, CmdType, Size

\* What a command leaves behind, whatever its outcome.
LEMMA ReturnTyped ==
  ASSUME Return
  PROVE  at' = "recv" /\ cmd' \in Packet /\ faulty' \in BOOLEAN
BY NoCmdTyped DEF Return

LEMMA AllocateTyped ==
  ASSUME blobs \in 0 .. HeapBlobs, NEW size, Allocate(size)
  PROVE  blobs' \in 0 .. HeapBlobs
BY MqttAssumption DEF Allocate

LEMMA CarriedTyped ==
  ASSUME NEW size \in Size, NEW body \in Bodies
  PROVE  Carried(size, body) \in Bodies
BY MqttAssumption DEF Carried

\* The steps of the connection leave the queue and the blobs alone.
LEMMA ConnectionTyped ==
  ASSUME MqttTypeOK, Connection
  PROVE  MqttTypeOK'
<1>1. CASE connect
  BY <1>1 DEF connect, MqttTypeOK, initVars
<1>2. CASE disconnect
  BY <1>2 DEF disconnect, Down, MqttTypeOK, initVars, linkVars
<1>3. CASE BeforeConnect
  BY <1>3 DEF BeforeConnect, MqttTypeOK, initVars
<1>4. CASE Accepted
  BY <1>4 DEF Accepted, MqttTypeOK, initVars
<1>5. CASE LinkLost
  BY <1>5 DEF LinkLost, Down, MqttTypeOK, initVars
<1>6. CASE subscribe_on_connect
  BY <1>6 DEF subscribe_on_connect, Heard, MqttTypeOK, initVars
<1>7. CASE subscribe_fails
  BY <1>7 DEF subscribe_fails, Down, MqttTypeOK, initVars
<1>8. CASE Suback
  BY <1>8 DEF Suback, MqttTypeOK, initVars
<1>9. CASE Disconnected
  BY <1>9 DEF Disconnected, MqttTypeOK, initVars
<1> QED
  BY <1>1, <1>2, <1>3, <1>4, <1>5, <1>6, <1>7, <1>8, <1>9 DEF Connection

LEMMA DecodeTyped ==
  ASSUME MqttTypeOK, NEW type \in CmdType, NEW size \in Size, NEW body \in Bodies,
         decode_cmd_msg(type, size, body)
  PROVE  MqttTypeOK'
<1>1. CASE NotDecoded(type, size)
  BY <1>1 DEF NotDecoded, MqttTypeOK, mqttVars, initVars, linkVars
<1>2. CASE Queued(type, size, body)
  <2> DEFINE packet == [type |-> type, size |-> size, body |-> Carried(size, body)]
  <2>1. packet \in Packet
    BY CarriedTyped DEF Packet
  <2>2. queue' \in Seq(Packet) /\ Len(queue') <= QueueLen
    <3> HIDE DEF packet
    <3>1. queue \in Seq(Packet) /\ Len(queue) < QueueLen
      BY <1>2 DEF Queued, MqttTypeOK
    <3>2. queue' = Append(queue, packet)
      BY <1>2 DEF Queued, packet
    <3> QED
      BY <3>1, <3>2, <2>1, MqttAssumption
  <2>3. blobs' \in 0 .. HeapBlobs
    BY <1>2, AllocateTyped DEF Queued, MqttTypeOK
  <2> QED
    BY <1>2, <2>2, <2>3 DEF Queued, MqttTypeOK, initVars, linkVars
<1>3. CASE QueueFull(type, size)
  <2>1. blobs' \in 0 .. HeapBlobs
    BY <1>3, AllocateTyped DEF QueueFull, MqttTypeOK
  <2> QED
    BY <1>3, <2>1 DEF QueueFull, MqttTypeOK, initVars, linkVars
<1> QED
  BY <1>1, <1>2, <1>3 DEF decode_cmd_msg

LEMMA ReceiveTyped ==
  ASSUME queue \in Seq(Packet), Len(queue) <= QueueLen, Receive
  PROVE  queue' \in Seq(Packet) /\ Len(queue') <= QueueLen /\ Head(queue) \in Packet
BY MqttAssumption DEF Receive

\* A packet that is announced carries a body.
LEMMA PayloadTyped ==
  ASSUME published \in Versions, NEW type \in CmdType
  PROVE  Payload(type) \subseteq Bodies
<1> DEFINE plain     == [hash |-> "none", url |-> FALSE]
           announced == [hash : {published}, url : BOOLEAN]
<1>1. plain \in Bodies
  BY BootAssumption
<1>2. announced \subseteq [hash : Versions \cup {"none"}, url : BOOLEAN]
  OBVIOUS
<1>3. Payload(type) \subseteq {plain} \cup announced
  BY BootAssumption, Zenon DEF Payload
<1> QED
  BY <1>1, <1>2, <1>3, BootAssumption, Zenon

\* What a download may leave is a file.
LEMMA LeftTyped ==
  ASSUME assets \in [Kind -> Files], Left
  PROVE  assets' \in [Kind -> Files]
BY DEF Left

LEMMA RestartTyped ==
  ASSUME TypeOK, PowerLost
  PROVE  TypeOK'
<1>1. MqttTypeOK'
  <2>1. queue' \in Seq(Packet) /\ Len(queue') <= QueueLen
    <3>1. queue' = <<>>
      BY DEF PowerLost, Restart
    <3> QED
      BY <3>1, MqttAssumption
  <2>2. blobs' \in 0 .. HeapBlobs
    BY MqttAssumption DEF PowerLost, Restart
  <2> QED
    BY <2>1, <2>2 DEF PowerLost, Restart, MqttTypeOK
<1>2. assets' \in [Kind -> Files]
  BY LeftTyped DEF PowerLost, TypeOK
<1> QED
  BY <1>1, <1>2, NoCmdTyped DEF PowerLost, Restart, TypeOK

LEMMA TaskTyped ==
  ASSUME TypeOK, Task
  PROVE  TypeOK'
<1> USE DEF TypeOK
<1>1. CASE handle_mqtt_cmd
  <2>1. queue' \in Seq(Packet) /\ Len(queue') <= QueueLen /\ Head(queue) \in Packet
    BY <1>1, ReceiveTyped DEF handle_mqtt_cmd, MqttTypeOK
  <2>2. MqttTypeOK'
    BY <1>1, <2>1 DEF handle_mqtt_cmd, MqttTypeOK, initVars, linkVars
  <2>3. CASE HasHash(Head(queue))
    <3>1. at' = "check" /\ cmd' = Head(queue) /\ faulty' = faulty /\ UNCHANGED fileVars
      BY <1>1, <2>3 DEF handle_mqtt_cmd
    <3>2. HasHash(cmd')
      BY <3>1, <2>3
    <3> QED
      BY <3>1, <3>2, <2>1, <2>2 DEF fileVars, HasHash
  <2>4. CASE ~HasHash(Head(queue))
    <3>1. Return /\ UNCHANGED fileVars
      BY <1>1, <2>4 DEF handle_mqtt_cmd
    <3> QED
      BY <3>1, <2>2, ReturnTyped DEF fileVars
  <2> QED
    BY <2>3, <2>4
<1>2. CASE NoDocument
  <2>1. MqttTypeOK'
    BY <1>2, ReceiveTyped DEF NoDocument, MqttTypeOK, initVars, linkVars
  <2> QED
    BY <1>2, <2>1, ReturnTyped DEF NoDocument, fileVars
<1>3. CASE decode_mqtt_cmd_meta_same
  BY <1>3, ReturnTyped
  DEF decode_mqtt_cmd_meta_same, fileVars, MqttTypeOK, mqttVars, initVars, linkVars
<1>0. ASSUME Open, UNCHANGED <<mqttVars, cmd, published>>, faulty' \in BOOLEAN,
             at = "check"
      PROVE  TypeOK'
  <2>1. MqttTypeOK'
    BY <1>0 DEF MqttTypeOK, mqttVars, initVars, linkVars
  <2>2. cmd' \in Packet /\ HasHash(cmd')
    BY <1>0
  <2>3. assets' \in [Kind -> Files] /\ at' = "download" /\ published' \in Versions
    BY <1>0 DEF Open, Files
  <2> QED
    BY <1>0, <2>1, <2>2, <2>3
<1>4. CASE decode_mqtt_cmd_meta_other
  BY <1>0, <1>4 DEF decode_mqtt_cmd_meta_other
<1>5. CASE CheckFails
  BY <1>0, <1>5 DEF CheckFails
<1>6. CASE OpenFails
  BY <1>6, ReturnTyped DEF OpenFails, fileVars, MqttTypeOK, mqttVars, initVars, linkVars
<1>7. CASE Downloaded
  BY <1>7, ReturnTyped DEF Downloaded, Files, MqttTypeOK, mqttVars, initVars, linkVars
<1>8. CASE DownloadFails
  BY <1>8, ReturnTyped, LeftTyped DEF DownloadFails, MqttTypeOK, mqttVars, initVars, linkVars
<1> QED
  BY <1>1, <1>2, <1>3, <1>4, <1>5, <1>6, <1>7, <1>8 DEF Task

LEMMA StepTyped == TypeOK /\ [Next]_vars => TypeOK'
<1> SUFFICES ASSUME TypeOK, [Next]_vars PROVE TypeOK'
  OBVIOUS
<1>1. CASE init
  BY <1>1 DEF init, mq_init, TypeOK, MqttTypeOK, linkVars, fileVars, HasHash
<1>2. CASE PowerLost
  BY <1>2, RestartTyped
<1>3. CASE NoQueue
  BY <1>3, RestartTyped DEF NoQueue
<1>4. CASE Connection /\ UNCHANGED <<taskVars, fileVars>>
  BY <1>4, ConnectionTyped DEF TypeOK, taskVars, fileVars, HasHash
<1>5. ASSUME NEW type \in Sent, NEW size \in Size, NEW body \in Payload(type),
             Command(type, size, body)
      PROVE  TypeOK'
  <2>1. type \in CmdType /\ body \in Bodies
    BY PayloadTyped, BootAssumption DEF TypeOK
  <2>2. MqttTypeOK'
    BY <1>5, <2>1, DecodeTyped DEF Command, TypeOK
  <2> QED
    BY <1>5, <2>2 DEF Command, TypeOK, taskVars, fileVars, HasHash
<1>6. CASE Task
  BY <1>6, TaskTyped
<1>7. CASE Publish
  BY <1>7, BootAssumption
  DEF Publish, TypeOK, MqttTypeOK, mqttVars, initVars, linkVars, taskVars, HasHash
<1>8. CASE UNCHANGED vars
  BY <1>8 DEF vars, TypeOK, MqttTypeOK, mqttVars, initVars, linkVars, taskVars, fileVars, HasHash
<1> QED
  BY <1>1, <1>2, <1>3, <1>4, <1>5, <1>6, <1>7, <1>8 DEF Next

\* TypeOK: the members of bootstrap_fsm and mqtt_client keep their types, for any
\* lengths, versions and commands.
THEOREM BootTypeCorrect == Spec => []TypeOK
BY StartTyped, StepTyped, PTL DEF Spec

-----------------------------------------------------------------------------
(* The connection *)

\* Only the handler's case on CONNECTED sets the bit, when it asks for the subscriptions;
\* a connection that is given up takes them with it, and the next one does not come up
\* before BEFORE_CONNECT has been handled.  A client without a handler has neither.
SubscribedInv ==
  /\ RegisteredIsOfThisLink
  /\ link = "connecting" => "REGISTERED" \notin bits
  /\ event = "CONNECTED" => link = "up"
  /\ "REGISTERED" \in bits => made = "handler"
  /\ handle = "none" => made = "nothing"

LEMMA SubscribedKept == TypeOK /\ SubscribedInv /\ [Next]_vars => SubscribedInv'
<1> SUFFICES ASSUME TypeOK, SubscribedInv, [Next]_vars PROVE SubscribedInv'
  OBVIOUS
<1> USE DEF SubscribedInv, RegisteredIsOfThisLink
<1>1. CASE init
  BY <1>1 DEF init, mq_init, linkVars
<1>2. CASE PowerLost \/ NoQueue
  BY <1>2 DEF PowerLost, NoQueue, Restart
<1>3. CASE Connection
  <2>1. CASE connect
    BY <2>1 DEF connect, initVars
  <2>2. CASE disconnect
    BY <2>2 DEF disconnect, Down, initVars, linkVars
  <2>3. CASE BeforeConnect
    BY <2>3 DEF BeforeConnect, Heard, initVars
  <2>4. CASE Accepted
    BY <2>4 DEF Accepted, initVars
  <2>5. CASE LinkLost
    BY <2>5 DEF LinkLost, Down, initVars
  <2>6. CASE subscribe_on_connect
    BY <2>6 DEF subscribe_on_connect, Heard, initVars
  <2>7. CASE subscribe_fails
    BY <2>7 DEF subscribe_fails, Down, initVars
  <2>8. CASE Suback
    BY <2>8 DEF Suback, initVars
  <2>9. CASE Disconnected
    BY <2>9 DEF Disconnected, initVars
  <2> QED
    BY <1>3, <2>1, <2>2, <2>3, <2>4, <2>5, <2>6, <2>7, <2>8, <2>9 DEF Connection
<1>4. CASE UNCHANGED <<initVars, bits, linkVars>>
  BY <1>4 DEF initVars, linkVars
<1>5. ASSUME NEW type \in Sent, NEW size \in Size, NEW body \in Payload(type),
             Command(type, size, body)
      PROVE  UNCHANGED <<initVars, bits, linkVars>>
  BY <1>5 DEF Command, decode_cmd_msg, NotDecoded, Queued, QueueFull, mqttVars
<1>6. ASSUME Task PROVE UNCHANGED <<initVars, bits, linkVars>>
  BY <1>6 DEF Task, handle_mqtt_cmd, NoDocument, decode_mqtt_cmd_meta_same,
              decode_mqtt_cmd_meta_other, CheckFails, OpenFails, Downloaded, DownloadFails,
              mqttVars
<1>7. CASE Publish \/ UNCHANGED vars
  BY <1>7, <1>4 DEF Publish, vars, mqttVars
<1> QED
  BY <1>1, <1>2, <1>3, <1>4, <1>5, <1>6, <1>7 DEF Next

\* RegisteredIsOfThisLink: on a connection REGISTERED is never left over from an earlier
\* one, but says that this one has asked for its subscriptions.
THEOREM RegisteredIsFresh == Spec => []RegisteredIsOfThisLink
<1>1. Init => SubscribedInv
  BY DEF Init, MqttInit, SubscribedInv, RegisteredIsOfThisLink
<1>2. SubscribedInv => RegisteredIsOfThisLink
  BY DEF SubscribedInv
<1> QED
  BY <1>1, <1>2, SubscribedKept, BootTypeCorrect, PTL DEF Spec

-----------------------------------------------------------------------------
(* The files *)

\* The file that is being downloaded is not a good one yet.
OpenIsBroken == at = "download" => assets[InHand] = "broken"

LEMMA OpenKept == TypeOK /\ OpenIsBroken /\ [Next]_vars => OpenIsBroken'
<1> SUFFICES ASSUME TypeOK, OpenIsBroken, [Next]_vars PROVE OpenIsBroken'
  OBVIOUS
<1> USE DEF OpenIsBroken, InHand
<1>1. CASE decode_mqtt_cmd_meta_other \/ CheckFails
  <2>1. /\ cmd' = cmd /\ assets' = [assets EXCEPT ![InHand] = "broken"]
        /\ cmd \in Packet /\ HasHash(cmd) /\ assets \in [Kind -> Files]
    BY <1>1 DEF decode_mqtt_cmd_meta_other, CheckFails, Open, TypeOK
  <2>2. KindOf[cmd.type] \in Kind
    BY <2>1 DEF HasHash, KindOf, Kind
  <2> QED
    BY <2>1, <2>2
<1>2. ASSUME at' # "download" PROVE OpenIsBroken'
  BY <1>2
<1>3. ASSUME UNCHANGED <<at, cmd, assets>> PROVE OpenIsBroken'
  BY <1>3
<1>4. CASE init \/ PowerLost \/ NoQueue
  BY <1>2, <1>4 DEF init, PowerLost, NoQueue, Restart
<1>5. CASE handle_mqtt_cmd \/ NoDocument \/ decode_mqtt_cmd_meta_same \/ OpenFails
           \/ Downloaded \/ DownloadFails
  BY <1>2, <1>5 DEF handle_mqtt_cmd, NoDocument, decode_mqtt_cmd_meta_same, OpenFails,
                    Downloaded, DownloadFails, Return
<1>6. CASE (Connection /\ UNCHANGED <<taskVars, fileVars>>) \/ Publish \/ UNCHANGED vars
  BY <1>3, <1>6 DEF Publish, vars, taskVars, fileVars
<1>7. ASSUME NEW type \in Sent, NEW size \in Size, NEW body \in Payload(type),
             Command(type, size, body)
      PROVE  OpenIsBroken'
  BY <1>3, <1>7 DEF Command, taskVars, fileVars
<1> QED
  BY <1>1, <1>4, <1>5, <1>6, <1>7 DEF Next, Task

LEMMA GoodStays ==
  ASSUME TypeOK, OpenIsBroken, [Next]_vars, NEW kind \in Kind,
         assets[kind] = published, published \notin Odd, assets'[kind] # published
  PROVE  faulty' \/ cmd.body.hash # published
<1> USE DEF TypeOK
<1>0. ASSUME at = "download", Left PROVE UNCHANGED assets[kind]
  BY <1>0, BootAssumption DEF OpenIsBroken, Left
<1>1. CASE decode_mqtt_cmd_meta_other
  BY <1>1 DEF decode_mqtt_cmd_meta_other, Open, Judged
<1>2. CASE CheckFails
  BY <1>2 DEF CheckFails
<1>3. CASE Downloaded
  BY <1>3 DEF Downloaded
<1>4. CASE UNCHANGED assets
  BY <1>4
<1>5. ASSUME init \/ Publish \/ UNCHANGED vars
      PROVE  UNCHANGED assets
  BY <1>5 DEF init, Publish, vars, fileVars
<1>6. ASSUME Connection /\ UNCHANGED <<taskVars, fileVars>> PROVE UNCHANGED assets
  BY <1>6 DEF fileVars
<1>7. ASSUME NEW type \in Sent, NEW size \in Size, NEW body \in Payload(type),
             Command(type, size, body)
      PROVE  UNCHANGED assets
  BY <1>7 DEF Command, fileVars
<1>8. ASSUME handle_mqtt_cmd \/ NoDocument \/ decode_mqtt_cmd_meta_same \/ OpenFails
      PROVE  UNCHANGED assets
  BY <1>8 DEF handle_mqtt_cmd, NoDocument, decode_mqtt_cmd_meta_same, OpenFails, fileVars
<1>9. CASE PowerLost \/ NoQueue \/ DownloadFails
  <2>1. (at = "download" /\ Left) \/ UNCHANGED assets
    BY <1>9 DEF PowerLost, NoQueue, DownloadFails
  <2> QED
    BY <1>0, <2>1
<1> QED
  BY <1>1, <1>2, <1>3, <1>4, <1>5, <1>6, <1>7, <1>8, <1>9 DEF Next, Task

\* GoodAssetStays: no announcement of what is published costs the file that is.
THEOREM GoodAssetsStay == Spec => GoodAssetStays
<1>1. TypeOK /\ OpenIsBroken /\ [Next]_vars =>
        [\A kind \in Kind :
           /\ assets[kind] = published /\ published \notin Odd
           /\ assets'[kind] # published
           => faulty' \/ cmd.body.hash # published]_vars
  BY GoodStays
<1>2. Init => OpenIsBroken
  BY DEF Init, OpenIsBroken
<1> QED
  BY <1>1, <1>2, OpenKept, BootTypeCorrect, PTL DEF Spec, GoodAssetStays

-----------------------------------------------------------------------------
(* The code as it is *)

LEMMA NotFound ==
  ASSUME ~WholeTopic, NEW type \in Subscribed
  PROVE  ~Recognised(type)
<1>1. SubLen[type] \in Nat
  BY DEF Subscribed, SubLen
<1>2. SubPos = 39
  BY DEF SubPos, BaseLen
<1> HIDE DEF SubPos, SubLen
<1> QED
  BY <1>1, <1>2 DEF Recognised, Window

SilentInv ==
  /\ GoesOnWith = "null" => made # "handler" /\ subs = "none"
  /\ queue = <<>>

LEMMA SilenceKept ==
  ASSUME GoesOnWith = "null" \/ ~WholeTopic, SilentInv, [Next]_vars
  PROVE  SilentInv'
<1> USE DEF SilentInv
<1>1. CASE init
  BY <1>1 DEF init, mq_init, linkVars
<1>2. CASE PowerLost \/ NoQueue
  BY <1>2 DEF PowerLost, NoQueue, Restart
<1>3. CASE Connection
  <2>1. CASE subscribe_on_connect
    BY <2>1 DEF subscribe_on_connect, Heard, initVars
  <2>2. CASE disconnect \/ LinkLost \/ subscribe_fails
    BY <2>2 DEF disconnect, LinkLost, subscribe_fails, Down, initVars, linkVars
  <2>3. CASE connect \/ BeforeConnect \/ Accepted \/ Suback \/ Disconnected
    BY <2>3 DEF connect, BeforeConnect, Accepted, Suback, Disconnected, initVars
  <2> QED
    BY <1>3, <2>1, <2>2, <2>3 DEF Connection
<1>4. ASSUME NEW type \in Sent, NEW size \in Size, NEW body \in Payload(type),
             Command(type, size, body)
      PROVE  SilentInv'
  <2>1. ~(subs = "granted" /\ type \in Subscribed /\ Recognised(type))
    BY NotFound
  <2>2. NotDecoded(type, size)
    BY <1>4, <2>1 DEF Command, decode_cmd_msg, Queued, QueueFull, Arrives
  <2> QED
    BY <2>2 DEF NotDecoded, mqttVars, initVars, linkVars
<1>5. CASE Task
  <2>1. ~handle_mqtt_cmd /\ ~NoDocument
    BY DEF handle_mqtt_cmd, NoDocument, Receive
  <2> QED
    BY <1>5, <2>1 DEF Task, decode_mqtt_cmd_meta_same, decode_mqtt_cmd_meta_other, CheckFails,
                      OpenFails, Downloaded, DownloadFails, mqttVars, initVars, linkVars
<1>6. CASE Publish \/ UNCHANGED vars
  BY <1>6 DEF Publish, vars, mqttVars, initVars, linkVars
<1> QED
  BY <1>1, <1>2, <1>3, <1>4, <1>5, <1>6 DEF Next

\* As the code stands, with init leaving a client alone that it got, or with the
\* subtopic looked for at the start of the topic, no command ever gets to the task:
\* either of the two places is enough.
THEOREM NothingIsHeard ==
  ASSUME GoesOnWith = "null" \/ ~WholeTopic
  PROVE  Spec => [](queue = <<>>)
<1>1. Init => SilentInv
  BY DEF Init, MqttInit, SilentInv
<1>2. SilentInv /\ [Next]_vars => SilentInv'
  BY SilenceKept
<1>3. SilentInv => queue = <<>>
  BY DEF SilentInv
<1> QED
  BY <1>1, <1>2, <1>3, PTL DEF Spec
=============================================================================
