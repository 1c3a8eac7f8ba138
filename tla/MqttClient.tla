----------------------------- MODULE MqttClient -----------------------------
(***************************************************************************)
(* mqtt_client: the connection as its event handler sees it, and the way   *)
(* of a command from the broker to the queue the bootstrap task reads.     *)
(* The MQTT library is external: it calls the handler from its own task,   *)
(* one event after the other, and retries by itself after a disconnection, *)
(* as it does with the configuration it is given here.  Reports, which     *)
(* nobody waits for, are left out.                                         *)
(*                                                                         *)
(* The code stops in two places.  GoesOnWith and WholeTopic name them;     *)
(* with "null" and FALSE the module is the code.                           *)
(***************************************************************************)
EXTENDS Naturals, Sequences

CONSTANTS
  GoesOnWith,  \* the handle that init goes on with: "null" in the code
  WholeTopic,  \* the whole topic is searched for the subtopic: FALSE in the code
  Bodies,      \* what a command may carry
  Zeros,       \* what a blob carries
  QueueLen,    \* length of cmd_queue, 32 in the code
  HeapBlobs    \* payloads the heap has room for

ASSUME MqttAssumption ==
  /\ GoesOnWith \in {"null", "ok"} /\ WholeTopic \in BOOLEAN
  /\ Zeros \in Bodies
  /\ QueueLen \in Nat \ {0} /\ HeapBlobs \in Nat

VARIABLES
  handle,  \* mqtt_handle
  made,    \* how far init came
  bits,    \* mqtt_state
  link,    \* the library's connection
  event,   \* an event the handler has not been called for
  subs,    \* what became of the subscriptions on this connection
  queue,   \* cmd_queue
  blobs    \* payloads on the heap

linkVars == <<link, event, subs>>
initVars == <<handle, made>>
mqttVars == <<initVars, bits, linkVars, queue, blobs>>

CmdType == {"META_FW", "META_ALGO", "BIN_FW", "BIN_ALGO", "READ_MEM", "SET_STATE"}
Size    == {"empty", "small", "large"}
Packet  == [type : CmdType, size : Size, body : Bodies]

MqttTypeOK ==
  /\ handle \in {"none", "null", "ok"}
  /\ made \in {"nothing", "mqtt_state", "cmd_queue", "handler"}
  /\ bits \subseteq {"FORCE_DISCONNECT", "REGISTERED"}
  /\ link \in {"off", "down", "connecting", "up"}
  /\ event \in {"none", "CONNECTED", "DISCONNECTED"}
  /\ subs \in {"none", "asked", "granted", "refused"}
  /\ queue \in Seq(Packet) /\ Len(queue) <= QueueLen
  /\ blobs \in 0 .. HeapBlobs

MqttInit ==
  /\ handle = "none" /\ made = "nothing" /\ bits = {}
  /\ link = "off" /\ event = "none" /\ subs = "none"
  /\ queue = <<>> /\ blobs = 0

-----------------------------------------------------------------------------
(* init, connect, disconnect *)

\* init makes the event group, reads the MAC address, makes the queue and registers
\* the handler, which the library refuses without a client; it stops at what fails.
mq_init ==
  /\ handle' \in {"null", "ok"}
  /\ made' \in {"nothing", "mqtt_state", "cmd_queue", "handler"}
  /\ handle' # GoesOnWith => made' = "nothing"
  /\ handle' = "null" => made' # "handler"
  /\ UNCHANGED <<bits, linkVars, queue, blobs>>

\* The library takes a client once.
connect ==
  /\ handle # "none"
  /\ bits' = IF made = "nothing" THEN bits ELSE bits \ {"FORCE_DISCONNECT"}
  /\ link' = IF handle = "ok" /\ link = "off" THEN "down" ELSE link
  /\ UNCHANGED <<initVars, event, subs, queue, blobs>>

\* The library ends a connection.
Down == link' = "down" /\ event' = "DISCONNECTED" /\ subs' = "none"

disconnect ==
  /\ handle # "none" /\ event = "none"
  /\ bits' = IF made = "nothing" THEN bits ELSE bits \cup {"FORCE_DISCONNECT"}
  /\ IF link = "up" THEN Down ELSE UNCHANGED linkVars
  /\ UNCHANGED <<initVars, queue, blobs>>

-----------------------------------------------------------------------------
(* The connection: the library's steps, and the handler on the event of each *)

Heard == made = "handler"

\* slip: BEFORE_CONNECT is not handled
KeepRegistered ==
  /\ link = "down" /\ event = "none" /\ link' = "connecting"
  /\ UNCHANGED <<initVars, bits, event, subs, queue, blobs>>

BeforeConnect ==
  /\ link = "down" /\ event = "none" /\ link' = "connecting"
  /\ bits' = IF Heard THEN bits \ {"REGISTERED"} ELSE bits
  /\ UNCHANGED <<initVars, event, subs, queue, blobs>>

Accepted ==
  /\ link = "connecting" /\ link' = "up" /\ event' = "CONNECTED"
  /\ UNCHANGED <<initVars, bits, subs, queue, blobs>>

\* A connection attempt fails, or the connection is lost.
LinkLost ==
  /\ link = "connecting" \/ (link = "up" /\ event = "none")
  /\ Down
  /\ UNCHANGED <<initVars, bits, queue, blobs>>

\* REGISTERED is set as soon as SUBSCRIBE is on its way.
subscribe_on_connect ==
  /\ event = "CONNECTED" /\ event' = "none"
  /\ subs' = IF Heard THEN "asked" ELSE subs
  /\ bits' = IF Heard THEN bits \cup {"REGISTERED"} ELSE bits
  /\ UNCHANGED <<initVars, link, queue, blobs>>

\* The handler disconnects itself.
subscribe_fails ==
  /\ event = "CONNECTED" /\ Heard
  /\ bits' = bits \ {"REGISTERED"} /\ Down
  /\ UNCHANGED <<initVars, queue, blobs>>

\* The broker's SUBACK, which may refuse; the handler passes over the event.
Suback ==
  /\ subs = "asked" /\ event = "none" /\ subs' \in {"granted", "refused"}
  /\ UNCHANGED <<initVars, bits, link, event, queue, blobs>>

\* MQTT_EVENT_DISCONNECTED: unless the disconnection was asked for, the library is
\* asked to retry at once instead of later.
Disconnected ==
  /\ event = "DISCONNECTED" /\ event' = "none"
  /\ UNCHANGED <<initVars, bits, link, subs, queue, blobs>>

-----------------------------------------------------------------------------
(* decode_cmd_msg *)

\* A topic is TOPIC_CMD_BASE, the MAC address and the subtopic, separated by "/".
BaseLen == 20
SubLen  == [META_FW |-> 7, META_ALGO |-> 9, BIN_FW |-> 6, BIN_ALGO |-> 8,
            SET_STATE |-> 5, READ_MEM |-> 8]
SubPos  == BaseLen + 1 + 17 + 1

\* The part of the topic that strnstr searches.
Window(type) == IF WholeTopic THEN SubPos + SubLen[type] ELSE SubLen[type] + 1

Recognised(type) == SubPos + SubLen[type] <= Window(type)

\* subscribe_on_connect asks for these.
Subscribed == {"META_FW", "META_ALGO", "READ_MEM", "SET_STATE"}

\* slip: what calloc returned is not looked at
AllocateAnyway(size) == blobs' = IF size = "large" THEN blobs + 1 ELSE blobs

\* A payload of more than 128 bytes gets a blob, which is never filled.
Allocate(size)      == IF size = "large" THEN blobs < HeapBlobs /\ blobs' = blobs + 1
                                         ELSE UNCHANGED blobs
Carried(size, body) == IF size = "small" THEN body ELSE Zeros

Arrives(type, size) ==
  link = "up" /\ event = "none" /\ subs = "granted" /\ type \in Subscribed

\* The topic is not recognised, or there is no room for a blob.
NotDecoded(type, size) ==
  /\ Arrives(type, size) /\ (Recognised(type) => size = "large")
  /\ UNCHANGED mqttVars

Queued(type, size, body) ==
  /\ Arrives(type, size) /\ Recognised(type) /\ Len(queue) < QueueLen /\ Allocate(size)
  /\ queue' = Append(queue, [type |-> type, size |-> size, body |-> Carried(size, body)])
  /\ UNCHANGED <<initVars, bits, linkVars>>

\* The queue was full for CONFIG_SI_MQ_RECV_TIMEOUT.  The blob stays allocated.
QueueFull(type, size) ==
  /\ Arrives(type, size) /\ Recognised(type) /\ Len(queue) = QueueLen /\ Allocate(size)
  /\ UNCHANGED <<initVars, bits, linkVars, queue>>

decode_cmd_msg(type, size, body) ==
  NotDecoded(type, size) \/ Queued(type, size, body) \/ QueueFull(type, size)

Connection ==
  \/ connect \/ disconnect
  \/ BeforeConnect \/ Accepted \/ LinkLost \/ subscribe_on_connect \/ subscribe_fails
  \/ Suback \/ Disconnected

-----------------------------------------------------------------------------
(* Properties *)

\* REGISTERED survives a disconnection; on a connection it is never left over from an
\* earlier one: this connection has asked for its subscriptions, also while CONNECTED
\* has not been handled.  It does not say that the broker granted them.
RegisteredIsOfThisLink == link = "up" /\ "REGISTERED" \in bits => subs # "none"
=============================================================================
