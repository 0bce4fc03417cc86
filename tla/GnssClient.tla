----------------------------- MODULE GnssClient -----------------------------
(***************************************************************************)
(* The table of event handlers of modem_serial.h, and the client that      *)
(* fills and empties it while the modem is talking: clients/gnss.h, whose  *)
(* NMEA stream registers one handler for each kind of sentence.  The       *)
(* clients for MQTT and SMS register theirs when they are constructed.     *)
(*                                                                         *)
(* Sentences come whenever the library reads: in listen() and inside the   *)
(* commands of the client itself.                                          *)
(***************************************************************************)
EXTENDS Integers, Sequences, FiniteSets, Functions

CONSTANTS Port,           \* "Arduino" or "ESP"
          NmeaHandlers,   \* _nmea_handlers, in their order
          ClientHandlers, \* handlers the constructors of other clients register
          Unset,          \* what a slot nobody has written holds
          Capacity,       \* A76XX_MAX_EVENT_HANDLERS
          QueueSize,      \* GNSS_NMEA_QUEUE_SIZE
          MaxSentences    \* bound: sentences the modem sends

Handler == Range(NmeaHandlers) \cup ClientHandlers

ASSUME TableAssumption == /\ Port \in {"Arduino", "ESP"}
                          /\ Capacity \in Nat \ {0} /\ QueueSize \in Nat \ {0}
                          /\ MaxSentences \in Nat
                          /\ NmeaHandlers \in Seq(Handler) \ {<<>>}
                          /\ Unset \notin Handler

\* _nmea_handlers are different objects, none of them another client's, and
\* the array has room for every handler there is, once.
ASSUME HandlersAssumption ==
  /\ \A i, j \in DOMAIN NmeaHandlers : NmeaHandlers[i] = NmeaHandlers[j] => i = j
  /\ Range(NmeaHandlers) \cap ClientHandlers = {}
  /\ IsFiniteSet(Handler) /\ Cardinality(Handler) <= Capacity

VARIABLES slots,      \* _event_handlers
          num,        \* _num_event_handlers
          intact,     \* every handler was stored inside the array
          built,      \* the other clients constructed, by their handlers
          pc, next,   \* where enable- or disableNMEAStream is; index of its loop
          stream,     \* "off", or what the application knows of its last call
          again,      \* it has enabled the stream when that was not "off"
          streaming,  \* the modem's NMEA output is on
          reading,    \* process() calls still to come for a string once found
          arrived,    \* sentences sent
          queue, out  \* _nmea_queue, and what was last read from it

table == <<slots, num, intact>>
client == <<built, pc, next, stream, again>>
sentences == <<reading, arrived, queue, out>>
vars == <<table, client, streaming, sentences>>

Slot == 0 .. Capacity - 1

\* An entry of the queue: whose match string it starts with, and the sentence
\* its text is from.
Message == [by : Range(NmeaHandlers), head : Range(NmeaHandlers), no : 1 .. MaxSentences]

Q == INSTANCE OverwritingQueue
       WITH Capacity <- QueueSize, Value <- Message,
            Writes <- {<<m>> : m \in Message}, items <- queue

Init == /\ slots = [k \in Slot |-> Unset] /\ num = 0 /\ intact = TRUE
        /\ built = {}
        /\ pc = "idle" /\ next = 1 /\ stream = "off" /\ again = FALSE
        /\ streaming = FALSE /\ reading = <<>> /\ arrived = 0
        /\ Q!Init

-----------------------------------------------------------------------------
(* The table *)

\* There is no check: one handler too many is written behind the array.
registerEventHandler(h) ==
  /\ slots' = [k \in Slot |-> IF k = num THEN h ELSE slots[k]]
  /\ num' = num + 1
  /\ intact' = (intact /\ num < Capacity)

Entries == 0 .. num - 1

\* What the loop of deRegisterEventHandler moves into slot k: the slot behind
\* the last is outside the array.
Behind(k) == IF k + 1 \in Slot THEN slots[k + 1] ELSE Unset

\* Slips: the loop shifts the entries from the start of the table; the last
\* entry is moved into the gap; the count goes down though nothing was found.
deRegisterEventHandler_ShiftsFromStart(h) ==
  \/ /\ \E i \in Entries : slots[i] = h
     /\ slots' = [k \in Slot |-> IF k \in Entries THEN Behind(k) ELSE slots[k]]
     /\ num' = num - 1
     /\ UNCHANGED intact
  \/ /\ \A i \in Entries : slots[i] # h
     /\ UNCHANGED table

deRegisterEventHandler_MovesLast(h) ==
  \/ /\ \E i \in Entries :
          /\ slots[i] = h /\ \A k \in 0 .. i - 1 : slots[k] # h
          /\ slots' = [slots EXCEPT ![i] = slots[num - 1]]
     /\ num' = num - 1
     /\ UNCHANGED intact
  \/ /\ \A i \in Entries : slots[i] # h
     /\ UNCHANGED table

deRegisterEventHandler_CountsAlways(h) ==
  /\ \/ \E i \in Entries :
          /\ slots[i] = h /\ \A k \in 0 .. i - 1 : slots[k] # h
          /\ slots' = [k \in Slot |-> IF k \in i .. num - 1 THEN Behind(k) ELSE slots[k]]
     \/ (\A i \in Entries : slots[i] # h) /\ UNCHANGED slots
  /\ num' = num - 1
  /\ UNCHANGED intact

\* The first copy of h goes, and the entries after it move up.
deRegisterEventHandler(h) ==
  \/ /\ \E i \in Entries :
          /\ slots[i] = h /\ \A k \in 0 .. i - 1 : slots[k] # h
          /\ slots' = [k \in Slot |-> IF k \in i .. num - 1 THEN Behind(k) ELSE slots[k]]
     /\ num' = num - 1
     /\ UNCHANGED intact
  \/ /\ \A i \in Entries : slots[i] # h
     /\ UNCHANGED table

-----------------------------------------------------------------------------
(* The application and the client.  A thread that is inside process() does  *)
(* nothing else.                                                            *)

Free == reading = <<>> /\ intact

\* The constructor of A76XXMQTTClient or A76XXSMSClient.
construct(h) == /\ Free /\ pc = "idle"
                /\ h \notin built
                /\ built' = built \cup {h}
                /\ registerEventHandler(h)
                /\ UNCHANGED <<pc, next, stream, again, streaming, sentences>>

enableNMEAStream == /\ Free /\ pc = "idle"
                    /\ pc' = "port" /\ next' = 1 /\ stream' = "failed"
                    /\ again' = (again \/ stream # "off")
                    /\ UNCHANGED <<table, built, streaming, sentences>>

\* A command of the client that leaves the stream as it is, and its result.
Command(here, there) ==
  /\ Free /\ pc = here
  /\ pc' \in {there, "idle"}
  /\ UNCHANGED <<table, built, next, again, streaming, sentences>>

selectOutputPort == Command("port", "register") /\ UNCHANGED stream
setNMEASentence  == Command("sentence", "rate") /\ UNCHANGED stream

\* The last one: true is returned when it succeeds.
setNMEARate == /\ Command("rate", "idle")
               /\ stream' \in {"failed", "on"}

\* A slip: the loop over _nmea_handlers ends one early.
RegisterNext_EndsEarly ==
  /\ Free /\ pc = "register"
  /\ registerEventHandler(NmeaHandlers[next])
  /\ next' = next + 1
  /\ pc' = IF next + 1 = Len(NmeaHandlers) THEN "output" ELSE pc
  /\ UNCHANGED <<built, stream, again, streaming, sentences>>

\* The loop over _nmea_handlers.
RegisterNext ==
  /\ Free /\ pc = "register"
  /\ registerEventHandler(NmeaHandlers[next])
  /\ next' = next + 1
  /\ pc' = IF next = Len(NmeaHandlers) THEN "output" ELSE pc
  /\ UNCHANGED <<built, stream, again, streaming, sentences>>

\* The modem may have done as told though the answer was not OK or was late.
enableNMEAOutput ==
  /\ Free /\ pc = "output"
  /\ \/ pc' = "sentence" /\ streaming' = TRUE
     \/ pc' = "idle" /\ streaming' \in {streaming, TRUE}
  /\ UNCHANGED <<table, built, next, stream, again, sentences>>

disableNMEAStream == /\ Free /\ pc = "idle"
                     /\ pc' = "quiet" /\ next' = 1
                     /\ UNCHANGED <<table, built, stream, again, streaming, sentences>>

disableNMEAOutput ==
  /\ Free /\ pc = "quiet"
  /\ \/ pc' = "deregister" /\ streaming' = FALSE
     \/ pc' = "idle" /\ streaming' \in {streaming, FALSE}
  /\ UNCHANGED <<table, built, next, stream, again, sentences>>

\* A slip: the first handler is passed over.
DeRegisterNext_FromSecond ==
  /\ Free /\ pc = "deregister" /\ next <= Len(NmeaHandlers)
  /\ IF next = 1 THEN UNCHANGED table ELSE deRegisterEventHandler(NmeaHandlers[next])
  /\ next' = next + 1
  /\ UNCHANGED <<built, pc, stream, again, streaming, sentences>>

DeRegisterNext ==
  /\ Free /\ pc = "deregister" /\ next <= Len(NmeaHandlers)
  /\ deRegisterEventHandler(NmeaHandlers[next])
  /\ next' = next + 1
  /\ UNCHANGED <<built, pc, stream, again, streaming, sentences>>

\* disableNMEAStream(exhaust)
Disabled(exhaust) ==
  /\ Free /\ pc = "deregister" /\ next > Len(NmeaHandlers)
  /\ IF exhaust THEN Q!Drop(Len(queue)) ELSE UNCHANGED <<queue, out>>
  /\ pc' = "idle" /\ stream' = "off"
  /\ UNCHANGED <<table, built, next, again, streaming, reading, arrived>>

\* nmeaAvailable() is looked at first.
getNMEAMessage == /\ Free /\ pc = "idle"
                  /\ queue # <<>>
                  /\ Q!Take(1)
                  /\ UNCHANGED <<table, client, streaming, reading, arrived>>

-----------------------------------------------------------------------------
(* Sentences *)

\* How often process() runs for a string: the Arduino port goes on through the
\* table, the ESP port stops at the first handler.
Copies(h) == {k \in Entries : slots[k] = h}
Runs(h) == IF Port = "ESP" /\ Copies(h) # {} THEN {0} ELSE Copies(h)

Sentence(h) == [by |-> h, head |-> h, no |-> arrived + 1]

\* A sentence nobody is registered for is passed over.  Of several copies of
\* its handler the first reads it; the others wait for what comes next.
Arrive(h) ==
  /\ streaming /\ Free /\ arrived < MaxSentences
  /\ arrived' = arrived + 1
  /\ IF Runs(h) = {} THEN UNCHANGED <<queue, out, reading>>
     ELSE /\ Q!Put(<<Sentence(h)>>)
          /\ reading' = [k \in 1 .. Cardinality(Runs(h)) - 1 |-> h]
  /\ UNCHANGED <<table, client, streaming>>

\* process() puts its own match string in front of what comes next, whatever
\* that is, and has no timeout.
ReadNext(h) ==
  /\ streaming /\ reading # <<>> /\ arrived < MaxSentences
  /\ arrived' = arrived + 1
  /\ Q!Put(<<[Sentence(h) EXCEPT !.by = Head(reading)]>>)
  /\ reading' = Tail(reading)
  /\ UNCHANGED <<table, client, streaming>>

-----------------------------------------------------------------------------
Application == \/ \E h \in ClientHandlers : construct(h)
               \/ enableNMEAStream \/ disableNMEAStream \/ getNMEAMessage

Client == \/ selectOutputPort \/ RegisterNext \/ enableNMEAOutput
          \/ setNMEASentence \/ setNMEARate
          \/ disableNMEAOutput \/ DeRegisterNext
          \/ \E exhaust \in BOOLEAN : Disabled(exhaust)

Next == \/ Application \/ Client
        \/ \E h \in Range(NmeaHandlers) : Arrive(h) \/ ReadNext(h)

Spec == Init /\ [][Next]_vars

-----------------------------------------------------------------------------
TypeOK == /\ slots \in [Slot -> Handler \cup {Unset}]
          /\ num \in Nat /\ intact \in BOOLEAN
          /\ built \subseteq ClientHandlers
          /\ pc \in {"idle", "port", "register", "output", "sentence", "rate",
                     "quiet", "deregister"}
          /\ next \in 1 .. Len(NmeaHandlers) + 1
          /\ stream \in {"off", "failed", "on"}
          /\ again \in BOOLEAN /\ streaming \in BOOLEAN
          /\ reading \in Seq(Range(NmeaHandlers))
          /\ arrived \in 0 .. MaxSentences
          /\ Q!TypeOK

\* "the maximum number of event handlers that are stored": nothing is written
\* behind the array, through any sequence of enabling, failing and disabling.
WithinTable == intact

\* No handler is in the table twice, and the array is large enough, while the
\* application enables the stream only when disabling it has succeeded.
OnceInTable ==
  ~again => intact /\ \A j, k \in Entries : slots[j] = slots[k] => j = k

\* What deregistration shifts is never another client's handler out of the
\* table: a constructed MQTT or SMS client keeps hearing its events, however
\* often the stream is enabled.
ClientsHeard == intact => \A h \in built : \E k \in Entries : slots[k] = h

\* While the stream is on, all its handlers are registered; when it is off,
\* none is, whichever of its commands failed before.
StreamMatchesTable ==
  ~again /\ pc = "idle" =>
    /\ stream = "on" => \A h \in Range(NmeaHandlers) : Copies(h) # {}
    /\ stream = "off" => \A h \in Range(NmeaHandlers) : Copies(h) = {}

\* The head of every message in the queue is the head of its own sentence.
WholeSentences == ~again => \A j \in DOMAIN queue : queue[j].by = queue[j].head

\* The table is served in the order of registration, and deregistration does
\* not change the order of those that stay.
OrderKept ==
  [][~again => \A j, k \in Entries : \A l, m \in Entries' :
       /\ j < k /\ slots[j] = slots'[l] /\ slots[k] = slots'[m]
       => l < m]_vars
=============================================================================
