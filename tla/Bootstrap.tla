----------------------------- MODULE Bootstrap -----------------------------
(***************************************************************************)
(* bootstrap_fsm over the MQTT client: the start-up, and the task that     *)
(* takes one command after the other and keeps the firmware and the flash  *)
(* algorithm at the version that is announced.  The hash check and the     *)
(* download appear with the outcomes FileHash and HttpDownloader give      *)
(* them.  The host and the server are external: the server serves what is  *)
(* published, an announcement is of what is published when it is made, and *)
(* waits in the queue while something else may be published.               *)
(***************************************************************************)
EXTENDS MqttClient

CONSTANTS
  Versions,    \* files there may be, by their hash
  Odd,         \* those whose hash check misses their end
  Tailed,      \* <<file, version>>: the file is the version's blocks and such an end
  Latest,      \* the version published last
  Sent         \* the commands the host sends

ASSUME BootAssumption ==
  /\ Odd \subseteq Versions /\ Tailed \subseteq Odd \X (Versions \ Odd)
  /\ Latest \in Versions /\ Sent \subseteq CmdType
  /\ "broken" \notin Versions /\ "none" \notin Versions
  /\ Bodies = [hash : Versions \cup {"none"}, url : BOOLEAN]
  /\ Zeros = [hash |-> "none", url |-> FALSE]

VARIABLES
  at,        \* where the task is
  cmd,       \* the command in hand
  faulty,    \* its hash check could not read the file
  assets,    \* the files on the storage
  published

taskVars == <<at, cmd, faulty>>
fileVars == <<assets, published>>
vars == <<mqttVars, taskVars, fileVars>>

Files  == Versions \cup {"broken"}
Kind   == {"fw", "algo"}
KindOf == [META_FW |-> "fw", META_ALGO |-> "algo"]
NoCmd  == [type |-> "SET_STATE", size |-> "empty", body |-> Zeros]

\* Of the packets, these get as far as the files.
HasHash(packet) ==
  packet.size # "empty" /\ packet.type \in DOMAIN KindOf /\ packet.body.hash # "none"

TypeOK ==
  /\ MqttTypeOK
  /\ at \in {"off", "recv", "check", "download"}
  /\ cmd \in Packet /\ (at \in {"check", "download"} => HasHash(cmd))
  /\ faulty \in BOOLEAN
  /\ assets \in [Kind -> Files]
  /\ published \in Versions

Init ==
  /\ MqttInit
  /\ at = "off" /\ cmd = NoCmd /\ faulty = FALSE
  /\ assets \in [Kind -> Files]
  /\ published \in Versions

-----------------------------------------------------------------------------
(* Start-up *)

\* The configuration, Wi-Fi and the client are set up; what fails is logged, and the
\* task starts all the same, if it can be created.
init ==
  /\ at = "off" /\ handle = "none"
  /\ mq_init /\ at' \in {"off", "recv"}
  /\ UNCHANGED <<cmd, faulty, fileVars>>

\* Everything but the files is gone.
Restart ==
  /\ handle' = "none" /\ made' = "nothing" /\ bits' = {}
  /\ link' = "off" /\ event' = "none" /\ subs' = "none"
  /\ queue' = <<>> /\ blobs' = 0
  /\ at' = "off" /\ cmd' = NoCmd /\ faulty' = FALSE

InHand == KindOf[cmd.type]

\* A download that ends early leaves a part of what was published, or all of it, or
\* its parts with a chunk missing: any file.
Left == \E file \in Files : assets' = [assets EXCEPT ![InHand] = file]

PowerLost ==
  /\ Restart
  /\ IF at = "download" THEN Left ELSE UNCHANGED assets
  /\ UNCHANGED published

\* xQueueReceive is handed a queue that was never made: FreeRTOS's assertion fails.
NoQueue == at = "recv" /\ made \notin {"cmd_queue", "handler"} /\ PowerLost

-----------------------------------------------------------------------------
(* One command *)

\* handle_mqtt_cmd returns, with whatever; the blob of a large payload is not freed.
Return == at' = "recv" /\ cmd' = NoCmd /\ faulty' = FALSE

\* slip: the command stays in the queue
Peek == queue # <<>> /\ UNCHANGED queue

\* recv_cmd_packet
Receive == queue # <<>> /\ queue' = Tail(queue)

handle_mqtt_cmd ==
  /\ at = "recv" /\ Receive
  /\ IF HasHash(Head(queue))
       THEN at' = "check" /\ cmd' = Head(queue) /\ UNCHANGED faulty
       ELSE Return
  /\ UNCHANGED <<initVars, bits, linkVars, blobs, fileVars>>

\* The document did not fit the heap.
NoDocument ==
  /\ at = "recv" /\ Receive /\ Head(queue).size # "empty" /\ Return
  /\ UNCHANGED <<initVars, bits, linkVars, blobs, fileVars>>

\* What check_fw_bin_hash and check_algo_bin_hash answer when nothing fails: the end of
\* a file that is no whole number of blocks is not looked at.
Judged ==
  \/ assets[InHand] = cmd.body.hash /\ assets[InHand] \notin Odd
  \/ <<assets[InHand], cmd.body.hash>> \in Tailed

\* "Same firmware", "Same algo": also said of a command without a url.
decode_mqtt_cmd_meta_same ==
  /\ at = "check" /\ (cmd.body.url => Judged) /\ Return
  /\ UNCHANGED <<mqttVars, fileVars>>

\* The downloader opens the file, which empties it.
Open == at' = "download" /\ assets' = [assets EXCEPT ![InHand] = "broken"]

\* slip: the file is fetched whenever there is a url
FetchAlways ==
  /\ at = "check" /\ cmd.body.url /\ Open
  /\ UNCHANGED <<mqttVars, cmd, faulty, published>>

decode_mqtt_cmd_meta_other ==
  /\ at = "check" /\ cmd.body.url /\ ~Judged /\ Open
  /\ UNCHANGED <<mqttVars, cmd, faulty, published>>

CheckFails ==
  /\ at = "check" /\ cmd.body.url /\ Open /\ faulty' = TRUE
  /\ UNCHANGED <<mqttVars, cmd, published>>

\* The file cannot be opened.
OpenFails ==
  /\ at = "check" /\ cmd.body.url /\ Return
  /\ UNCHANGED <<mqttVars, fileVars>>

\* Nothing compares the file with the hash that was announced.
Downloaded ==
  /\ at = "download" /\ assets' = [assets EXCEPT ![InHand] = published] /\ Return
  /\ UNCHANGED <<mqttVars, published>>

\* Also with ESP_OK for a file with a part missing, or with an error for one that is
\* there: see HttpDownloader.
DownloadFails ==
  /\ at = "download" /\ Left /\ Return
  /\ UNCHANGED <<mqttVars, published>>

Task ==
  \/ handle_mqtt_cmd \/ NoDocument
  \/ decode_mqtt_cmd_meta_same \/ decode_mqtt_cmd_meta_other \/ CheckFails \/ OpenFails
  \/ Downloaded \/ DownloadFails

-----------------------------------------------------------------------------
(* Host and server *)

Publish ==
  /\ published' = Latest /\ published # Latest
  /\ UNCHANGED <<mqttVars, taskVars, assets>>

Payload(type) ==
  {Zeros} \cup IF type \in DOMAIN KindOf THEN [hash : {published}, url : BOOLEAN] ELSE {}

Command(type, size, body) ==
  decode_cmd_msg(type, size, body) /\ UNCHANGED <<taskVars, fileVars>>

Next ==
  \/ init \/ PowerLost \/ NoQueue
  \/ Connection /\ UNCHANGED <<taskVars, fileVars>>
  \/ \E type \in Sent, size \in Size :
       \E body \in Payload(type) : Command(type, size, body)
  \/ Task
  \/ Publish

Spec == Init /\ [][Next]_vars

\* The announcement of a version to be downloaded, of the kind that type announces.
Announce(type) ==
  Queued(type, "small", [hash |-> published, url |-> TRUE]) /\ UNCHANGED <<taskVars, fileVars>>

Taken(type) ==
  handle_mqtt_cmd /\ Head(queue).type = type /\ HasHash(Head(queue)) /\ Head(queue).body.url

\* The library and the task go on; a connection, a subscription, an announcement, its
\* reading and its download succeed if they are tried for ever.  Nobody need call
\* connect.
FairSpec ==
  /\ Spec
  /\ LET Own(A) == A /\ UNCHANGED <<taskVars, fileVars>>
     IN  /\ WF_vars(Own(BeforeConnect)) /\ WF_vars(Own(Disconnected))
         /\ SF_vars(Own(Accepted)) /\ SF_vars(Own(subscribe_on_connect))
         /\ SF_vars(Own(Suback /\ subs' = "granted"))
  /\ WF_vars(Task)
  /\ \A type \in Sent \cap DOMAIN KindOf :
       /\ SF_vars(Announce(type)) /\ SF_vars(Taken(type))
       /\ SF_vars(decode_mqtt_cmd_meta_other /\ cmd.type = type)
       /\ SF_vars(Downloaded /\ cmd.type = type)

-----------------------------------------------------------------------------
(* Properties.  They say something of the code with the two lines repaired that        *)
(* GoesOnWith and WholeTopic name: as it is, nothing is ever asked of the task.        *)

\* Announcements that repeat themselves, wait in the queue or come with a broken
\* connection cost no good file: what is emptied is not what is published, unless the
\* check could not read it or the announcement in hand has become stale.
GoodAssetStays ==
  [][\A kind \in Kind :
       /\ assets[kind] = published /\ published \notin Odd
       /\ assets'[kind] # published
       => faulty' \/ cmd.body.hash # published]_vars

\* A station that was started completely and that somebody called connect for gets the
\* published files, or has one that the hash check takes for them, whatever fails in
\* between, with any other commands in the queue and no room for large ones, as long
\* as it is not switched off and no broker refuses the subscriptions: after that nothing
\* is asked again on the connection.
AssetArrives ==
  \A type \in Sent \cap DOMAIN KindOf :
    (made = "handler" /\ link # "off" /\ at # "off" /\ published = Latest)
      ~> \/ assets[KindOf[type]] = Latest \/ <<assets[KindOf[type]], Latest>> \in Tailed
         \/ at = "off" \/ subs = "refused"
=============================================================================
