# A76XX: a verification project

A76XX is an Arduino and ESP-IDF library that drives SIMCOM cellular modems with
AT commands over a UART. This directory holds TLA+ modules that model it, TLC
configurations that check them on small instances, and proofs for TLAPS. File
names below are relative to `src/src/`.

## The system

One thread calls the library. A call sends a command line, then reads the
modem's answer from the UART with timeouts. The modem answers in its own time
and reports *events* (unsolicited result codes: a message has come, a position
sentence) at any moment, in the same stream. That is where the difficulty is:
three parties, the thread, the modem and the clock, share one stream of
characters, and the library recognises what belongs to whom by matching strings.

| Component | State | Operations | Correct when |
|---|---|---|---|
| ring buffers `utils/CircularBuffer.hpp`, `utils/byteringbuf.cpp` | array, head, tail, count | push/shift/index, block write/read/peek/match | a FIFO queue that drops the oldest, wherever it wraps |
| serial driver `modem_serial*.h`, `event_handlers.h` | receive ring (ESP), match window (Arduino), table of event handlers | `sendCMD`, `waitResponse`, `find`, `parseInt`, `readBytes`, `readBytesUntil`, `listen`, register, deregister | every response belongs to its command, every event reaches its handler, every wait ends |
| event handlers `clients/mqtt.cpp`, `sms.cpp`, `gnss.h` | a queue (GNSS) or a callback | `process()`, called inside `waitResponse` | takes its event and nothing else from the stream |
| commands `commands/*.h` | none | one function per AT command: send, wait, switch over the response | success reported exactly when the modem did it; the answer read to its end |
| clients `clients/*` | client and session index, last error, last HTTP status, NMEA queue | sequences of commands | as its commands; a failure leaves a state from which the call can be made again |
| SMS client `clients/sms.cpp` | reference number | cut a text into segments, build and decode PDUs | what one phone sends the other reads, in order and whole |
| modem object `modem.cpp` | last error | init, reset, power, registration polls | does not report a reset that has not happened; every poll ends |
| coding `utils/smsCoding.cpp`, `utils/base64.cpp` | none | packing, BCD, UCS2, Base64 | decode inverts encode |

Interaction: clients and the modem object call commands; commands call the
driver; the driver calls back event handlers, which call the driver again.
Handlers are registered by the constructors of the MQTT and SMS clients and by
`enableNMEAStream()`.

What is hard: events that interrupt any wait; answers that come after their
timeout; functions that return before the end of their answer; a second copy
of the received characters in the ESP ring; handlers that are registered again
by a retry; rings and buffers at their limits; a module that restarts under
clients which remember what it has forgotten. `PROJECT.json` lists the hazards one by one,
each with its line and the properties that watch it.

## Modules

| Module | Models |
|---|---|
| `OverwritingQueue` | the abstract specification of both rings: a bounded FIFO queue that drops the oldest |
| `CircularBuffer`, `MCCircularBuffer`, `CircularBuffer_proofs` | `CircularBuffer.hpp` with two pointers and a count; `endsWith()` of the Arduino port; the proofs |
| `ByteRingBuf`, `MCByteRingBuf`, `ByteRingBuf_proofs` | `byteringbuf.cpp` with its two-piece block copies; the proofs |
| `AtScript` | the vocabulary: responses, codes, instructions, answers |
| `ModemSerial`, `ModemSerial_proofs` | the driver: the stream, the stack of functions being executed, the modem, timeouts; the proofs |
| `MqttCommands`, `HttpCommands` (with SSL), `SmsCommands`, `ModemCommands` (with GNSS) | the functions of `commands/` as scripts, and the modem's answers |
| `EventHandlers` | the three `process()` functions as scripts, and their events |
| `ClientCalls` | the client functions as sequences of commands |
| `MCSerial` | all of the above in one instance |
| `AnswerOutline`, `MCOutline` | what each function and each handler must do alone, with its answer or its event complete in front of it; the outline of this library |
| `ModemAnswers_proofs` | the proof that it then goes right in the driver |
| `GnssClient`, `GnssClient_proofs`, `MCGnssClient` | the handler table, the NMEA stream and its queue |
| `CharStream`, `CharStream_proofs`, `MCCharStream` | positions and MQTT messages read character by character, with `peek()`, `parseInt()`, `parseFloat()` and the memory they go to, on both ports; the proofs |
| `SmsCoding` | `smsCoding.cpp`: the GSM alphabet, seven-bit packing, half-octets, hexadecimal |
| `SmsClient`, `SmsClient_proofs`, `MCSmsClient` | `sms.cpp`: segments, PDUs, the network, `read()`; the proofs |
| `ModemPower` | the functions of `modem.cpp` that start, stop and wait for the module; the clock; the module going down and booting |
| `ModemSessions`, `MCModemSessions` | `ModemPower` with the MQTT, HTTP and secure clients, and what the module keeps for them from call to call |
| `ModemSessions_proofs` | proofs of `ModemSessions`: types and clocks; what *true* means |

### The driver and its scripts

A function of `commands/` is a *script*: labels and instructions, entered at
`"go"`. An instruction is one call of the driver (`sendCMD`, `waitResponse`
with its match strings and flags, `find`, ...), and says for every way the call
can end where the function goes on, or which code it returns. A `switch` over
the response is a function from responses to labels (`Switch`), with the
default of the code. So the control of the code is in the script and the
behaviour of the driver is in the actions of `ModemSerial`, one per driver
operation: `SendCommand`, `WriteData`, `Respond` and `Dispatch` (the two ways a
`waitResponse` finds something), `findChar`, `parseInt`, `readBytes`,
`readLine`, `WaitTimesOut`, `ReadTimesOut`, call and return. Event handlers are
scripts too; `Dispatch` pushes them on the stack, as `process()` is called
inside `waitResponse`.

The stream is a sequence of *lexemes*: the strings the library matches, numbers,
commas, line breaks, data. `OK` and `ERROR` stand for `OK\r\n` and `ERROR\r\n`
and therefore end a line for `find('\n')`. A lexeme carries the number of the
command it answers, or 0 for an event; no reader looks at that number, the
properties do. Blocks of lexemes arrive whole. A match string that arrives in
two halves across two waits is the action `WaitTimesOutInEvent`.

Which port is built is a constant. On the Arduino port the stream is the UART
and every handler of a string runs, one after
the other in the order of the table (`place` in a frame is where the loop over
`_event_handlers` has got to). On the ESP port reads take the ring `ring`
first, the ring is cleared only when a wait ends or `process()` has returned,
and only the first handler runs.

Comparisons with an argument of the caller make two scripts of one function,
one for each outcome (`readHeader`, `readHeaderTooLong`). Of a loop over data
the script keeps the calls of the driver.

The answers of the modem (`MqttReplies` and so on) are external: for each
command, success, the refusals that the code tells apart, `ERROR`, and no
answer. `done` says whether the modem then has done what it was asked.

### Outlines

`AnswerOutline` separates what is particular to a function from what the driver
does to all of them. A *point* says how far a function has read the answer to
its last command line, what it has got from it, and whether the modem did all it
was asked to; an *outline* attaches to every label of a script the points at
which the function may be there. It is a constant, and closed
(`OutlineAssumption`): it has the points where functions start; every
instruction leads from a point to a point of its next label, through every match
string that can come next, the timeout, and every answer to what it sends; and
where a function returns nothing awaited is left and its code says what the
modem did. Time, pieces and interleaving do not occur in it. `MCOutline`
computes the outline of this library by following all its careful functions and
all handlers through all answers and events, and TLC evaluates the assumptions
of `AnswerOutline` for it in the run `serial_hostile`. They speak of scripts,
answers and events only, so it does not matter that this run is of the other port.

### The handler table

`GnssClient` has the array `_event_handlers` with its count as it is in memory:
registration without a check, deregistration by shifting, including the read of
the slot behind the last. `enable-` and `disableNMEAStream()` are sequences of
actions, one per command or loop iteration, because sentences arrive in
between. The queue is an instance of `OverwritingQueue`, which `CircularBuffer`
is proved to implement.

`again` says that the application called `enableNMEAStream()` when the stream
was not known to be off: after a success, or after a failure without a
successful `disableNMEAStream()` in between. `HandlersAssumption` says what the
declarations of the handlers give: different objects, and an array in which
each of them fits once (6 + 2 in 10).

### Characters

`CharStream` is the driver one level below `ModemSerial`: one function, one
character at a time. A function is a sequence of reads, of which `Peek` has two
ways to go on. What is searched for as a whole (`OK`, `+CMQTTRXTOPIC: `) is one
character. Characters arrive while the function reads, never after the time out
of a read, so that the ESP port's deadline for a number as a whole does not strike
either; but `peek()` and `read()` do not wait, and `early` says that one of
them came before the next character. `got` has what each read gave, and
`memory` the bytes of `struct MQTTMessage_t` with the one behind it.

### Messages

`SmsClient` sends a message as `sms.cpp` does: `send` or `sendWithComment` sets
the locals, `sendSingle` builds one PDU, hands it to the network and learns
whether it was taken, which may be wrong. The network makes what a receiver
gets of it (`Deliver`), and `read` decodes that, or a PDU of another phone
(`FromPhone`). Such a message is a record: the fields of the PDU, and the sender and the
text they stand for. `AsSpecified` says which octets stand for which text as GSM 03.40
does, place by place (`CharIn`, `Spells`, `IsNumber`) and not by the loops of the
code; the run builds its messages bit by bit, and TLC finds that they are as specified. Sizes
are derived from `MaxOctets`; for the 140 octets of an SMS they are the numbers
in the code, which `MCSmsClient` asserts. Octets and characters are their codes;
`pack7Bit` and `unpack7Bit` are the code's loops over a buffer of bits.

### The module and the calls

A function of class A76XX, or of a client in `ModemSessions`, is a sequence of
*stages*: a command, or a loop that polls until its `TimeoutCalc` has expired.
The first that fails ends the function with false. Between any two steps the
module may go down, boot or wake. A command is carried out or not and answered
or not, in any combination that the code cannot tell apart; `owed` counts the
OKs that will come after their wait. `millis` counts modulo `ClockSize`; the
timer has the start time that the code has, and the real time besides, which no
guard looks at. `since` collects what happened in the call that a property
excuses: `"down"`, `"booted"`, `"late"`, `"unanswered"`.

The variables of `ModemSessions` are of the module (`session`, `file`) or of
the client objects (`lastStatus`, `lastLength`); no action of the module changes
the latter, which is the point.

## Runs

| Run | Question | Bounds |
|---|---|---|
| `circular_buffer` | Is the ring a queue, in every rotation? | 3 slots, 2 values |
| `byte_ring` | Is the block ring a queue? | 4 slots, blocks up to 5, 2 values |
| `serial_calls` | Arduino port, every careful function: do responses, results and events go where they belong? | 1 call, 1 event of 2 kinds |
| `serial_hostile` | Is the outline of all careful functions and all handlers closed? ESP port: what is left when answers are late or mixed with events, and events are cut? Does every call return? | 1 call of 8 functions, 1 event of 3 kinds, 1 early timeout, 1 cut |
| `gnss_table` | Is the table what the application was told of the stream, through failures and retries? (The modem's own output of sentences is free.) | 2 + 2 handlers, 6 slots, queue of 2, 2 sentences |
| `char_stream` | Is what the module sends what the application gets, character by character, on both ports? | positions with every field, with one field empty or too long, and without a fix, on the ESP port without the numbers that are peeked at; numbers of up to 5 characters; topics up to 5 for 3 bytes, payloads up to 11 for 6 |
| `sms_parts` | Does a text arrive as it was written, through segments, PDUs and failures? | SMS of 14 octets: texts of 0 to 28 characters in up to 3 segments, both alphabets; 3 calls, 2 reference numbers |
| `modem_sessions` | Does what the functions return agree with the module, whatever restarts, sleeps or does not answer? | 3 calls out of 24, a SIM with a PIN and one without, a clock of 6 ticks, loops of 2, 1 (the `init()` of `restart()`) and 0, waits of 1 or 2, 1 late answer |
| `esp_position_cut`, `esp_message_garbled`, `sentence_cut`, `gnss_overflow` | disagreements of the code with its documentation, below | one call; `gnss_overflow` has the real sizes, 10 slots and 6 + 2 handlers |

Why the bounds are enough:

- *Rings.* Three slots have all the relations of head, tail and count that more
  have (apart, adjacent, equal when empty and when full), and every rotation is
  reached. The proofs remove the bound for both rings. Blocks of 0 to
  `Size + 1` bytes are below, at and above the free space and wrap at every place.
- *One call.* A call reaches a later one only through what it leaves in the
  UART or on its way. `AnswerReadOut`, an invariant of the same run, says that
  it leaves nothing of its answer that any wait of any function would take for
  a response; and each function begins by sending a command and waiting, which
  throws away what comes before the match. The exceptions are those of the next
  section.
- *One event.* A handler runs to its end before another event is dispatched.
  The event may come before, between and after all blocks of every answer. For
  `serial_calls` the proofs remove both bounds.
- *`serial_hostile`* has a function for each kind of read instead of all of
  them, since what it checks is about the driver.
- *Characters.* Of a buffer the lengths 0, 1, one less than it, its size, and
  up to one less than twice its size are all sent; from there on the code
  writes the characters that do not fit over each other from the start, in a
  way the model does not follow. The texts hold commas, line breaks, digits and
  `OK`, since those are what the reads look for.
- *Messages.* 14 octets hold 16 characters, or 9 behind a header: the same
  remainders modulo 8 and the same fill bits as 140 octets, with 160 and 153.
  Texts end below, at and above every boundary of a segment, and the comment
  ends inside each segment. With two reference numbers the counter goes round.
- *Sessions.* Three calls are begin, whatever comes between, and the call that
  meets what is left; a longer past is a member of `Left`, a service that an
  earlier run of the program has started. The clock begins at 0 and goes round
  during the second loop. A late OK meets the commands of class A76XX only,
  where `OK` is all that is asked for; its effect on the others is the subject
  of `serial_hostile`.
- *Table.* With `Capacity` 6 a second registration of the two handlers just
  fits and a third does not, so both sides of the limit are reached. The proofs
  remove the bound.

`serial_calls` and `serial_hostile` check deadlock: the only state in which
nothing happens is `Quiet`, all calls returned and the modem silent.
`CHECK_DEADLOCK FALSE` is set where the system may really stop: `sentence_cut`
waits for ever, and in the runs of `GnssClient` a handler may wait for a
sentence that does not come, or memory behind the array has been written; in
`char_stream`, `esp_position_cut`, `sms_parts` and `modem_sessions` the calls are
bounded.

### What the code does otherwise

Four runs find a property violated that the repository states; `PROJECT.json`
quotes the statements under `findings`.

| Run | Shows |
|---|---|
| `esp_position_cut` | on the ESP port `getGPSInfo()` reports success with an altitude of -4.1 read as 4.1, a speed of 0.5 as .5 and a course of 25 as 5: `peek()` takes a character into the ring, and `parseFloat()` begins by emptying it. With the position of `getGNSSInfo()` in the same run the fix mode goes, each field is taken for the one before, and the call ends in an error |
| `esp_message_garbled` | the ESP ring gives a handler what came before its event |
| `sentence_cut` | a sentence that breaks off keeps `listen()` for ever |
| `gnss_overflow` | a retried `enableNMEAStream()` writes behind the array |

`serial_calls` leaves out, by name, the functions known to break its
properties. Each reason was seen as a counterexample with the function put back:

| Left out (`MCSerial`) | Because |
|---|---|
| `Unanswered` | `start()` and `stop()` read a code after a timeout; no number is 0, success: `end()` of the MQTT client then returns true with a service nobody has stopped, where `clients/mqtt.h:117` promises to "terminate the MQTT service" (`SuccessIsReal`) |
| `Truncating` | `readHeader()`, `read()` of an SMS and `readResponseBody()` return early when the caller's memory is short or the text is cut; the rest of the answer is there for the next command (`AnswerReadOut`, `NoStaleAnswer`) |
| `Greedy` | `send()` and `modelIdentification()` look for a prompt or a line with `find()`, which reads an event away (`NoEventLost`) |
| `Built` | client functions on top of those; and `request()`, which ignores the result of `addHeader()` for the user agent (`SuccessIsReal`) |
| `MaxEarly = 0` | an answer after its timeout is taken for the answer to the next command |
| `MaxCuts = 0` | an event whose head is split between two waits matches in neither |
| `Port = "Arduino"` | on the ESP port also an NMEA sentence is delivered with its head twice, when the head is still in the ring |

`serial_hostile` has all of these in it (`MixedTasks`, early timeouts, cuts and
the ESP port) and checks what still holds. In `gnss_table` the guard `~again`
has the same part: an application that enables the stream twice has each
handler twice in the table, each sentence then starts two `process()`, and the
second takes the next sentence for its own. `ClientsHeard` has no such guard.

`char_stream` leaves out some inputs, and otherwise it and `modem_sessions` have
their exceptions in the properties. Each was seen as a counterexample without it:

| Exception | Because |
|---|---|
| `Legible`, of the inputs of `char_stream` | on the ESP port a number that is peeked at loses its first character, which `esp_position_cut` finds: `PositionIsRead` expects what was sent on either port. `getAGPSData()` reads an error code of one digit this way as 0, success. On either port an empty number shifts `getGNSSInfo()` by one field, as `parseInt()` goes on to the next number |
| `early` | `peek()` and `read()` return at once. When the answer comes slowly `getGNSSInfo()` takes "no fix" for a fix |
| last byte in `MessageKept` | a topic or payload that does not fit is kept without its beginning, and its NUL goes one byte behind the buffer: for the topic into the payload, for the payload behind the structure |
| `"late"` | one slow answer is, for `waitATUnresponsive()`, a module that is gone, and the OK that comes then a module that is back: `reset()` returns true though nothing has restarted |
| `"unanswered"` in `SessionsAgree` | `start()` and `stop()` succeed unanswered; and `certExists()` takes silence for a certificate that is not there |
| `OrphanStays` | states what happens after `begin()` failed at `acquireClient` or `end()` failed at `stop`: no `begin()` or `end()` returns true until the module restarts |
| `copied.number >= lastStatus` | after a `request()` that failed, status and length are those of the one before, and `getResponseBody()` may copy from the response of the failed one |

In the source, and without a run: `messageQueue` of the MQTT client is never
filled, so `messageAvailable()` stays 0; `restart()` gives `init()` no PIN, so that it never succeeds with a SIM that asks for one;
`certExists()` finds a name in a longer one; `getResponseBody()` computes
`max_len - 1` also for a `max_len` of 0.

### Properties

| Property | Says |
|---|---|
| `Implements` | the rings implement `OverwritingQueue` |
| `PushesPut`, `WritesPut` | what a push or a write stores is its argument, behind the rest: the abstract queue allows any value, this binds it; and `push()` returns false exactly when it dropped an element |
| `EndsWithIsSuffix`, `CompareIsPrefix` | string matching across the wrap equals matching on the sequence |
| `NoStaleAnswer` | every response or number a function goes by answers its own last command |
| `AnswerReadOut` | a function returns with its answer read to the end |
| `HandlersReadEvents` | an event handler never takes part of an answer |
| `SuccessIsReal`, `DoneIsReported` | success is reported exactly when the modem did all of it |
| `NoEventLost`, `DeliveredIntact`, `EventsAccounted` | no event is read away, handlers deliver what the event said, and none is counted twice |
| `HandlersRunInWaits` | handlers interrupt waits, never another read |
| `CallsReturn` | every call returns |
| `OnceInTable`, `StreamMatchesTable`, `WholeSentences`, `OrderKept`, `ClientsHeard` | the table through failures and retries |
| `PositionIsRead` | a position is read field by field as it was sent |
| `MessageKept` | topic and payload are kept as sent, or their ends, and the stream is left right behind the message |
| `SegmentsInOrder`, `SegmentsCover` | a failed message leaves a beginning with the network, never a hole; every segment has text and none is left over |
| `ReferencesApart` | an aborted message and its retry do not join at the receiver |
| `PduFits` | a PDU fits its buffer and its user data one SMS |
| `ReadIsSent`, `IncomingIsRead` | `read()` inverts `send()`, and decodes any header and sender |
| `PollsEndInTime` | a loop gives up when its time is up, not before, and at most one answer and one pause later |
| `TrueMeansDone` | `reset()`, `restart()`, `powerOff()` and `init()` return true when it has happened |
| `SessionsAgree` | what the clients were told holds in the module until it goes down |

### Timeouts

`ModemPower` has a clock, for the loops that poll. `ModemSerial` has none. A read times out when what it waits for has not arrived and
nothing more is coming (`Starved`), or, against the budget `MaxEarly`, while an
answer is still owed. That an answer is in the UART already when the time is up
is the same as that it is still owed: the wait did not see it.

### Fairness

`FairSpec` assumes that the thread runs when it can and that time passes
(`WF_vars(Read \/ Control \/ Expire)`: the loops of `waitResponse` and of the
reads poll a clock), and that the modem sends what it has begun to send. It
does not assume that the modem answers at all (`Mute` is an answer), that the
application calls, or that events happen. `CallsReturn` is checked under it.
`ReadLine`, the NMEA handler's loop, has no timeout in the code and none here.

## Proofs

The proofs hold for every value of the constants that satisfies the named
assumptions of the modules.

`CircularBuffer_proofs` (`SizeAssumption`: at least one slot). The inductive
invariant is `TypeOK /\ EndsAgree`: that the ends stay together depends on both
being in range, and that `items` are the elements pushed depends on both. From
it follow `RingEndsAgree`; `RingImplementsQueue`, that each operation maps to a step of
`OverwritingQueue` under `items`, the elements read from head on (the lemmas
compute `items` after each operation, by cases on whether an index wraps);
the action property `RingPushesPut`; and `RingEndsWithIsSuffix`, by comparing places
counted from the back.

`ByteRingBuf_proofs` (`SizeAssumption`: at least two slots). Here `TypeOK` is
inductive by itself: the bytes used are computed from head and tail. A place is
named by its distance from the head where it is written and by its distance from
the tail where it is read, and `SameSlot` says which are one slot. With it `Copied`
says of the two `memcpy` of `write()` what is at each place afterwards, `WriteFits`
and `WriteDrops` what readers then see, `CopiedOut` what the two `memcpy` of `read()`
return, `Consumed` what is left. From these follow `ByteRingTypeOK`,
`ByteRingImplementsQueue`, `ByteRingWritesPut`, `ByteRingEndsWithIsSuffix` and
`ByteRingCompareIsPrefix`.

`GnssClient_proofs` (`TableAssumption`, `HandlersAssumption`). The inductive
invariant `IInv` adds to `TypeOK`

- `TableOK` and `LoopOK`: entries are handlers, loop indices are where the
  program counter says;
- `Heard`: handlers of constructed clients are in the table, also for a
  careless application;
- `Tidy`: for a careful application the table is free of repetitions and
  nothing was written behind it, which is why no `process()` runs twice;
- `Stages`: handler *i* of the stream is in the table or not, depending on how
  far the loops have got. Without it `StreamMatchesTable` speaks of the ends of
  the loops only and is not inductive.

That the table does not overflow is the pigeonhole principle (`Room`): a table
of distinct handlers that lacks one has a free slot. `Register` and
`Deregister` say what the two operations do to membership, order and
repetitions; the steps of the client follow from these. The theorems are
`GnssTypeOK`, `ClientsStayHeard`, `HandlersOnce`, `StreamAgrees`,
`SentencesWhole` and the action property `OrderStays`.

`ModemSerial_proofs` (`ScriptAssumption`: scripts go on with, call and send what
exists, and call no handler; `BlocksAssumption`, `RestAssumption`,
`BoundsAssumption`). The proofs know nothing of the particular scripts, answers
or events, so they hold for commands not written yet and for either port. The
inductive invariant `IInv` adds to `TypeOK` the discipline of the stack
(`StackIn`): whatever lies under a handler is at a wait, whatever lies under
another function at a call, and the bottom is no handler. From it follow
`SerialTypeOK` and `HandlersInWaits`. `EventsNeverMiscounted` is a balance over
sequences: each step moves heads of events from one place to another (`Moved`
lists the six ways), and `Heads` of a concatenation is the sum (`HeadsConcat`, by
a bijection of index sets). It needs more than the balance to be inductive
(`AInv`): that no answer owed holds a head, and that an event holds none behind
the block that comes next. Both come from `AnnouncedOnce`, a hypothesis on the
events and answers that `MCSerial` asserts for the events with handlers.

`ModemAnswers_proofs` (in addition the assumptions of `AnswerOutline`) proves
the seven properties of `serial_calls`: `NeverStale`, `AlwaysReadOut`,
`HandlersReadOnlyEvents`, `SuccessIsAlwaysReal`, `DoneIsAlwaysReported`,
`NeverLost` and `AlwaysDeliveredIntact`. Each has the hypothesis `Careful`, which
is the configuration of that run: the Arduino port, no early timeouts, no cut
events, no answers between the blocks of an event, and only functions with a
closed outline. But where the run has one call and one event of two kinds, the
theorems have any number of calls, in any order, any events one after the other
between the pieces of any answer, and any library whose outline is closed. The
argument has two parts.

*The line.* `OnLine` says what a function is reading. There is a history of all
the modem ever sent, of which the UART is what is not read. In it every event
stands in one piece (`History`, `OnTheWay`: the last one may still be coming),
and everything else is an answer; the blocks of the answer to the last command
line stand in it in order, each in one piece (`Answering`), an event stands
between two of them or elsewhere (`CutBetween`), and no other part of an answer that
is unread has anything in it that a function would wait for. `Where` says that a
function is outside all events, and a handler in its own. The lemmas of that part
of the module say what is on the line after
each thing that may happen to it: a block of an answer or an event arrives, a wait
finds the next match string of its answer, or the head of an event in front
of it, a handler reads on and returns, a line goes out. The places in the history are
what makes it provable: they never move, while the UART shrinks at one end and
grows at the other.

*The outline.* `OInv` puts every function on the stack at a point of its
outline. The point of the one that reads is `OnLine`, a handler being at a point
in its event and the function under it at one in its answer; `done` is that of all
points together. Each action keeps it, by the instruction's part of
`OutlineAssumption` (one lemma for each action, `FindOn` to `InitOn`). None of
the seven properties is inductive. `AnswerReadOut` and `NoEventLost` are part of
`OInv`; the others speak of what was last answered, returned or delivered, and
each is established by one action from the `OInv` before it (`GhostsOn`).

`ModemSessions_proofs` (`ClockAssumption`: no timeout is as long as a round of
the clock, less one answer and one pause; `SessionAssumption`). For every clock,
waits and pauses, and any calls. The inductive invariant `IInv` adds to the
types

- `ClockRight`: a timer that runs is of the stage it was started in, and the
  difference of clock and start, modulo the clock, is the real time. It is the
  reason that a loop ends in time, and it holds only because the time that can
  pass before the next test is less than what is left of the round (`Elapsed`,
  the arithmetic of the wrap);
- `EndsWell`: `certExists()` is never the last stage, because it goes on
  whatever it finds.

From it follow `SessionsTypeOK` and `LoopsEndInTime`.

The second half of the module (the same assumptions, which ask for a
`room` of at least one character, see `getResponseBody()` above) is about the
results. Neither
`TrueMeansDone` nor `SessionsAgree` is inductive: both speak of the end of a call.
The invariant `KInv` says what holds on the way there. `Plan` is the sequence of
stages a call began with, `Pos` the place of the stage to come, behind the last one
when the call returned true. `PlanOK` ties them to `todo` (a stage may be replaced:
the search for the certificate by its deletion, the question for the PIN by the
PIN); and one conjunct for each function says what has been done by each place:

- `ResetFacts`: the module is on its way down, has been down, or is back up, and
  from the time it was down no session is left. A poll that times out shows that it
  is down only because no late answer was taken for it;
- `OffFacts`, `InitFacts`: the same for `powerOff()` and for each setting of `init()`.
  In `restart()` `init()` needs `ResetFacts`: a module that is back up does not go down
  again by itself, so that no setting is lost;
- `BeginFacts`, `EndFacts` with `OrphanFacts`, `RequestFacts`, `CertFacts`;
- `BodyNew` and `CopyFacts`: the module never has an older response than the client has
  the status of.

The theorems are `TrueIsDone` and `SessionsStayAgreed`.

`SmsClient_proofs` (`SizesAssumption`, the sizes of segments and the rounds of
the reference counter; `CallsAssumption`: the calls are records of texts). For
any calls, segment sizes and answers of the network. The inductive invariant
`IInv` consists of

- `LogOK` and `LocalsOK`, the types, and that only the last call of the log is
  still running;
- `Cut`: before part *n* of a message *n* - 1 full segments have been taken from
  comment and text, and there are at most three parts. The number of parts is
  computed once, by a division that rounds up, and the cutting never looks at it;
  lemma `Division` is what ties the two together;
- `AirOK`: of each call the segments 1 to some *n* are in the air, each once.
  `SegmentsInOrder` alone says nothing of calls that stopped in between;
- `RefsOK`: 123, the first reference, plus the number of multipart messages
  before a message is its reference plus whole rounds of the counter. Two messages
  with one reference are therefore a round apart (`OneRound`).

From it follow `SmsTypeOK`, `PartsInOrder`, `PartsCover` and `PartsApart`.

The second half of the module is about the octets (in addition `OctetsAssumption`:
characters and digits are such, whole characters of UCS2 in an SMS, a
fill bit in a segment). The loops of `pack7Bit` and `unpack7Bit` are recursive
functions over a buffer of bits. The library's induction theorems cannot be used
(see below), so the induction is done on sets: `LeastOf`, that a set of numbers has a
least one, from the well-foundedness of the numbers, and from it `Induction`, that a set
which has 0 and with each number the next has them all. The prover can instantiate both.
With it each loop has an invariant of its rounds, as one has by hand:

- `Packing`: `PackRound` is the state of the loop after *k* octets: the octets out, each
  put together of parts of two characters, and in the buffer what is left of the last
  character taken. It begins so (`PackBegins`), a round leads to the next (`PackGoesOn`),
  and the loop ends when no character is left, and not before (`PackEnds`, `PackHasMore`);
- `Unpacking`: the same with `UnpackRound` after *k* characters (`UnpackBegins`,
  `UnpackGoesOn`). `RoundsExist` is that the recursive function of the rounds exists;
- `PackedAndBack`, their composition: each character is put together of the bits it was
  cut into, over one or two octets (`LowBits`, `HighBits`).

`SegmentIsText` says that the segment `sendSingle()` puts together from comment and data,
wherever the comment ends, is a part of the whole text (`EncodedPlaces`). `PduInv`, which
is inductive together with `IInv`, says that the comment is used up before the data
(`CommentFirst`), that a PDU in the air is `Submit` of a part of its call (`AirHas`), and
that the message read is `DecodePdu` of the PDU in the inbox (`InboxOK`). From it follow

- `PdusFit`: for numbers of up to `SenderSize` digits, by the lengths (`CodedFits`, `UserFits`);
- `SentIsRead`, with the hypothesis `Legible` that `MCSmsClient` asserts for its texts:
  with the GSM alphabet the caller's data are seven-bit characters, with UCS2 the comment is
  ASCII, and `char` is unsigned. `DeliveredBack` follows
  the octets through the network and finds them where `read()` looks for them, `UserBack`
  undoes the packing behind a header or without one, `GsmText` and `Ucs2Text` compare the
  characters with what the caller wrote, `DigitsAndBack` the half-octets of the number;
- `IncomingIsUnderstood`, for all messages of other phones that are as specified
  (`IncomingAssumption`). `PhonePlaced` is where their fields lie, `PhoneDecoded` that
  `read()` looks there. `CharInOctets` compares a character of the specification with
  what a round of `unpack7Bit()` takes out, and with `Unpacking` the whole text follows
  (`Spelled`). That the fill bits behind a header are those of the specification, whatever
  its length, is `Filled`, and that the length is then counted right modulo 256 `CharsRead`.
  `GsmRead` and `WideRead` are about the two alphabets, `NameRead`, `NumberRead` and
  `AbroadRead` about the three kinds of sender. What is not read is refused: octets for
  characters, no SMS-DELIVER, or a sender too long for its buffer.

`CharStream_proofs` (`LengthsAssumption`; `InputsAssumption`, which says what the
module sends: a message is two texts of up to one character less than twice their
buffers, without a NUL). The inductive invariant is a table of the reads
of `process()`: before each of them, what is still to be read. That is the end of the
text the module sends, received or not, so that no pause can change it (`Ahead`), and
the numbers and the bytes kept so far. The lemmas about one read are for any text: what a
`find()`, a `waitResponse()`, a `parseInt()` takes from a text whose next piece is known,
however much of it has arrived, and what it leaves in front (`FindAhead`,
`WaitAhead`, `LengthAhead`). Where a read waits for a whole piece the
topic may contain anything, the texts and line ends that the other reads look for
included. That a length is read back as it was written is `DecimalNumber`.
`MessageIsKept` follows for every size of the buffers.

For a position the same is known between two reads (`OnPosition`), by the field that comes
next and the stage it is at: to be peeked at, to be read, between the characters of a
latitude and the number behind them, read, returned. What the ring holds is
part of the stage: one character behind a `peek()` of the ESP port that a
number then does not get back (`Lost`), at most the character that ended the number before
(`AtEnd`), nothing between. `FieldContent` says how the fields of `gnss.h` are read, one
kind after the other, whatever their characters; that a number, cut or not, is taken up to the
comma and no further is `NumeralAhead` and `ParseField`. The invariant is about
positions with a fix and numbers the code can read (`Sound`); without a fix
`OnNothing` says that the answer begins with what `peek()` looks for and has an OK behind
it. A step of `peek()` or `read()` that came early (`early`) leaves the invariant for
good, as `PositionIsRead` has it. From the last stage follows `PositionIsReceived`, what is
read of any input that `InputsAssumption` allows, the characters lost on the ESP port and
all. An input that is `Legible` loses none and comes out sound (`LegibleRead`), and it stays
the input of the call; so `PositionsAreRead` follows, for any inputs all of which are
legible (`AllLegible`, which `MCCharStream` asserts for those of `char_stream`).

Only model-checked: that the outline of this library is closed, which is about
its particular scripts and answers; and `CallsReturn`, since liveness and `ENABLED` are beyond the prover. The library's theorems
of induction take an operator as a parameter, which the provers cannot instantiate.

## Not modelled

- A signed `char`. `encodeGSM()` compares a `char` with code points above 127;
  where it is signed (AVR) every plain character comes out as 255. The model has
  `CharIsSigned`, and the run the unsigned one of the ESP32 and ARM.
- MQTT texts of twice their buffer or more; the 64 and 200 characters of the
  windows of the driver, which `CircularBuffer` and `ByteRingBuf` have as sizes.
- `base64.cpp`, a table-driven encoder without state. Its caller
  `addBasicAuthentication()` relies on the terminator it does not write.
- Checks of an argument before anything is sent, which return at once: a null
  pointer or no length (`read()` and `send()` of an SMS), text shorter than 20
  characters in the buffer given to `getDateTime()`. The driver has no part in them.
- In `readLine`, the bound `NMEA_MESSAGE_SIZE` of the NMEA handler, since sentences are
  shorter, and that it reads the LF without waiting, since blocks arrive whole.
- Formatting of numbers (`printItem()`), and the arithmetic of dates in
  `getUnixTime()`.
- The PWRKEY pin: it is the application's, and `Boot` from `"off"` stands for it.
- Examples and the base class of the clients, which hold no behaviour.

## Plan

- `getUnixTime()` against a reference definition of the calendar.
