------------------------------ MODULE CharStream ------------------------------
(***************************************************************************)
(* Functions that read the stream character by character: the positions of *)
(* commands/gnss.h and the message of clients/mqtt.cpp, on the Arduino     *)
(* port (a Stream, with peek()) and on the ESP port (a UART that has none, *)
(* and the ring _buf before it).  A function is a sequence of reads; the   *)
(* characters arrive while it runs, with pauses shorter than a time out.   *)
(***************************************************************************)
EXTENDS Integers, Sequences, SequencesExt

CONSTANTS NumberLen,     \* characters of numberBuf in parseInt() and parseFloat(); 20
          TopicLen,      \* MQTT_TOPIC_BUFFER_LEN; 32
          PayloadLen,    \* MQTT_PAYLOAD_BUFFER_LEN; 64
          Inputs         \* what the module sends and to what: [port, fn, sent]; see Text

\* A length in decimal has three digits at most.
ASSUME LengthsAssumption == /\ NumberLen \in Nat /\ NumberLen > 3
                            /\ TopicLen \in Nat \ {0} /\ PayloadLen \in Nat \ {0}

VARIABLES
  input,     \* the member of Inputs
  coming,    \* characters the module has still to send
  uart,      \* characters received and not read
  ring,      \* _buf; empty on the Arduino port
  todo,      \* reads still to come
  got,       \* what was read, field by field
  hasfix,    \* what the first peek() of a position was taken for
  early,     \* did a read that does not wait come before the next character?
  memory,    \* struct MQTTMessage_t and the byte behind it
  result     \* "running", "ok", "error"

vars == <<input, coming, uart, ring, todo, got, hasfix, early, memory, result>>

\* Characters, and texts that are searched for as a whole.
Comma == ","
Blank == " "
RxStart == "+CMQTTRXSTART: "
RxTopic == "+CMQTTRXTOPIC: "
RxPayload == "+CMQTTRXPAYLOAD: "
RxEnd == "+CMQTTRXEND: "

Numerals == <<"0", "1", "2", "3", "4", "5", "6", "7", "8", "9">>
Digits == {"0", "1", "2", "3", "4", "5", "6", "7", "8", "9"}
Digit == [d \in Digits |-> CHOOSE n \in 0 .. 9 : Numerals[n + 1] = d]

Number(s) == LET value[k \in 0 .. Len(s)] ==
                   IF k = 0 THEN 0 ELSE 10 * value[k - 1] + Digit[s[k]]
             IN value[Len(s)]

-----------------------------------------------------------------------------
(* Reads.  A text that is searched for as a whole is one character here. *)

Read(op, arg) == [op |-> op, arg |-> arg, yes |-> <<>>, no |-> <<>>]
Peek(c, yes, no) == [op |-> "peek", arg |-> c, yes |-> yes, no |-> no]

parseInt == Read("parse", "int")
parseFloat == Read("parse", "float")
find(c) == Read("find", c)
readChar == Read("read", 1)
readBytes(n) == Read("bytes", n)
waitResponse(text) == Read("wait", text)
\* A waitResponse() of which the result is dropped.
clear(text) == Read("clear", text)
Fix(b) == Read("fix", b)

\* Between two fields, find(',').
Separated(fields) ==
  [k \in 1 .. 2 * Len(fields) - 1 |-> IF k % 2 = 0 THEN find(Comma) ELSE fields[(k + 1) \div 2]]

gnssFields == <<parseInt, parseInt, parseInt, parseInt, parseFloat, readChar, parseFloat,
                readChar, readBytes(6), readBytes(9), parseFloat, parseFloat, parseFloat,
                parseFloat, parseFloat, parseFloat>>

getGNSSInfo ==
  <<Peek(Blank, <<Fix(FALSE)>>, <<Fix(TRUE)>> \o Separated(gnssFields)), waitResponse("OK")>>

gpsFields == << <<readBytes(2), parseFloat>>, <<readChar>>, <<readBytes(3), parseFloat>>,
                <<readChar>>, <<readBytes(6)>>, <<readBytes(9)>>,
                <<parseFloat>>, <<parseFloat>>, <<parseFloat>> >>

Unless(i) == Peek(IF i = 9 THEN "\r" ELSE Comma, <<>>, gpsFields[i])

getGPSInfo ==
  <<Peek(Comma, <<Fix(FALSE)>>, <<Fix(TRUE)>> \o Separated([i \in 1 .. 9 |-> Unless(i)])),
    waitResponse("OK")>>

getAGPSData == <<Peek("s", <<>>, <<parseInt>>), clear("OK")>>

process == <<find(Comma), parseInt, find(Comma), parseInt,
             clear(RxTopic), find("\n"), Read("store", "topic"),
             clear(RxPayload), find("\n"), Read("store", "payload"),
             clear(RxEnd), find("\n")>>

Reads(fn) == CASE fn = "getGNSSInfo" -> getGNSSInfo
               [] fn = "getGPSInfo"  -> getGPSInfo
               [] fn = "getAGPSData" -> getAGPSData
               [] fn = "process"     -> process

-----------------------------------------------------------------------------
(* What the module sends behind the text that was waited for, in pieces *)

NoGNSSFix == << <<Blank>> >> \o [i \in 1 .. 15 |-> <<>>]
NoGPSFix == [i \in 1 .. 9 |-> <<>>]

\* A length is below 1000.
Figure(n) == Numerals[(n % 10) + 1]
Decimal(n) == IF n < 10 THEN <<Figure(n)>>
              ELSE IF n < 100 THEN <<Figure(n \div 10), Figure(n)>>
              ELSE <<Figure(n \div 100), Figure(n \div 10), Figure(n)>>

Line == <<"0", Comma, "9", "\r", "\n">>
EndOfLine(text) == <<"\r", "\n", text>>

Message(topic, payload) ==
  << <<"0", Comma>>, Decimal(Len(topic)), <<Comma>>, Decimal(Len(payload)),
     EndOfLine(RxTopic), Line, topic,
     EndOfLine(RxPayload), Line, payload,
     EndOfLine(RxEnd), <<"0", "\r", "\n">> >>

\* Fields, a comma between two of them.
Position(fields) ==
  [k \in 1 .. 2 * Len(fields) |-> IF k % 2 = 1 THEN fields[(k + 1) \div 2]
                                  ELSE IF k < 2 * Len(fields) THEN <<Comma>>
                                  ELSE <<"\r", "\n", "\r", "\n", "OK">>]

Pieces(i) == IF i.fn = "process" THEN Message(i.sent.topic, i.sent.payload) ELSE Position(i.sent)

Text(i) == FlattenSeq(Pieces(i))

-----------------------------------------------------------------------------
(* Inputs: fields as commands/gnss.h describes them, each what it is read  *)
(* with takes, and messages less than twice as long as their buffers.      *)

Behind(s, i) == SubSeq(s, i + 1, Len(s))

Numeral(s, kind) ==
  /\ s # <<>>
  /\ \A k \in DOMAIN s : \/ s[k] \in Digits
                         \/ s[k] = "-" /\ k = 1
                         \/ s[k] = "." /\ kind = "float" /\ \A j \in 1 .. k - 1 : s[j] # "."

\* How many characters are read before the number, or in its place.
Before(reads) == CASE Head(reads).op = "bytes" -> Head(reads).arg
                   [] Head(reads).op = "read"  -> 1
                   [] Head(reads).op = "parse" -> 0

IsField(s, reads) ==
  /\ s # <<>> /\ s[1] # Comma /\ Len(s) >= Before(reads)
  /\ IF Last(reads).op = "parse" THEN Numeral(Behind(s, Before(reads)), Last(reads).arg)
                                 ELSE Len(s) = Before(reads)

FieldReads(fn) == CASE fn = "getGNSSInfo" -> [i \in 1 .. 16 |-> <<gnssFields[i]>>]
                    [] fn = "getGPSInfo"  -> gpsFields
                    [] fn = "getAGPSData" -> << <<parseInt>> >>

\* Fields that may be empty: those of AT+CGPSINFO that are peeked at once more, and
\* the numbers of AT+CGNSSINFO.
MayBeEmpty(fn, i) == \/ fn = "getGPSInfo" /\ i > 1
                     \/ fn = "getGNSSInfo" /\ gnssFields[i].op = "parse"

\* getAGPSData() is answered by a number, or by a word that begins with s.
IsStatus(s) == s # <<>> /\ s[1] = "s" /\ \A k \in DOMAIN s : s[k] # "OK"

IsPosition(fn, sent) ==
  /\ sent \in Seq(Seq(STRING)) /\ Len(sent) = Len(FieldReads(fn))
  /\ \/ sent \in {NoGNSSFix, NoGPSFix}
     \/ fn = "getAGPSData" /\ IsStatus(sent[1])
     \/ \A k \in DOMAIN sent : \/ IsField(sent[k], FieldReads(fn)[k])
                               \/ MayBeEmpty(fn, k) /\ sent[k] = <<>>

IsText(s, size) == /\ s \in Seq(STRING) /\ Len(s) < 2 * size /\ Len(s) < 1000
                   /\ \A k \in DOMAIN s : s[k] # "NUL"

IsInput(i) ==
  IF i.fn = "process" THEN IsText(i.sent.topic, TopicLen) /\ IsText(i.sent.payload, PayloadLen)
  ELSE i.fn \in {"getGNSSInfo", "getGPSInfo", "getAGPSData"} /\ IsPosition(i.fn, i.sent)

ASSUME InputsAssumption == \A i \in Inputs : IsInput(i)

-----------------------------------------------------------------------------
(* One read *)

Esp == input.port = "esp"
Stage == Head(todo)
Running == result = "running"
At(op) == Running /\ todo # <<>> /\ Stage.op = op

\* All that is there to read, and whether to wait for more.
Stream == ring \o uart
NoMore == coming = <<>>

Has(s, c) == \E i \in DOMAIN s : s[i] = c
Place(s, c) == CHOOSE i \in DOMAIN s : s[i] = c /\ \A j \in 1 .. i - 1 : s[j] # c

\* The first n characters of the stream have been read: the ring's come first.
Consume(n) == /\ ring' = Behind(ring, n)
              /\ uart' = IF n > Len(ring) THEN Behind(uart, n - Len(ring)) ELSE uart

Keep(s) == got' = [got EXCEPT ![Len(got)] = @ \o s]

Continue == todo' = Tail(todo)
Alone == UNCHANGED <<input, coming, hasfix, early, memory, result>>

\* peek() on the ESP port takes the character from the UART into the ring.
PeekAt ==
  /\ At("peek")
  /\ LET c == IF Stream = <<>> THEN "none" ELSE Head(Stream)
     IN todo' = (IF c = Stage.arg THEN Stage.yes ELSE Stage.no) \o Tail(todo)
  /\ IF Esp /\ ring = <<>> /\ uart # <<>>
     THEN ring' = <<Head(uart)>> /\ uart' = Tail(uart)
     ELSE UNCHANGED <<ring, uart>>
  /\ early' = (early \/ (Stream = <<>> /\ ~NoMore))
  /\ UNCHANGED <<input, coming, got, hasfix, memory, result>>

ReadChar == /\ At("read")
            /\ IF Stream = <<>> THEN UNCHANGED <<ring, uart, got>>
                                ELSE Consume(1) /\ Keep(<<Head(Stream)>>)
            /\ early' = (early \/ (Stream = <<>> /\ ~NoMore))
            /\ Continue
            /\ UNCHANGED <<input, coming, hasfix, memory, result>>

\* Every read is kept in a field, and find(',') is where the next one begins.
Find == /\ At("find")
        /\ \/ Has(Stream, Stage.arg) /\ Consume(Place(Stream, Stage.arg))
           \/ ~Has(Stream, Stage.arg) /\ NoMore /\ Consume(Len(Stream))
        /\ got' = Append(got, <<>>)
        /\ Continue /\ Alone

ReadBytes == /\ At("bytes")
             /\ Len(Stream) >= Stage.arg \/ NoMore
             /\ LET n == Min({Len(Stream), Stage.arg})
                IN Consume(n) /\ Keep(SubSeq(Stream, 1, n))
             /\ Continue /\ Alone

\* waitResponse() reads from the UART; what the ring held is cleared with the match.
Wait == /\ At("wait") \/ At("clear")
        /\ ring' = <<>>
        /\ \/ /\ Has(uart, Stage.arg)
              /\ uart' = Behind(uart, Place(uart, Stage.arg))
              /\ Continue /\ UNCHANGED result
           \/ /\ ~Has(uart, Stage.arg) /\ NoMore
              /\ uart' = <<>>
              /\ IF Stage.op = "clear" THEN Continue /\ UNCHANGED result
                                       ELSE todo' = <<>> /\ result' = "error"
        /\ UNCHANGED <<input, coming, got, hasfix, early, memory>>

SetFix == /\ At("fix")
          /\ hasfix' = Stage.arg
          /\ Continue
          /\ UNCHANGED <<input, coming, uart, ring, got, early, memory, result>>

-----------------------------------------------------------------------------
(* Numbers *)

Starters == IF Stage.arg = "float" THEN Digits \cup {"-", "."} ELSE Digits \cup {"-"}

\* Does the number that begins at i of the UART go on at j?
GoesOn(i, j) == \/ uart[j] \in Digits
                \/ Stage.arg = "float" /\ uart[j] = "." /\ \A k \in i .. j - 1 : uart[k] # "."

Begins(i) == uart[i] \in Starters /\ \A j \in 1 .. i - 1 : uart[j] \notin Starters

\* [i, j): the number in the UART.  Whether it has ended is known from what comes behind.
IsNumber(i, j) == /\ Begins(i) /\ i < j
                  /\ \A k \in i + 1 .. j - 1 : GoesOn(i, k)
                  /\ j <= Len(uart) => ~GoesOn(i, j)

\* A slip: the character that ends the number is dropped.
Ender_Dropped(j) == <<>>

\* ... the ESP port has read it, and puts it into the ring.
Ender(j) == SubSeq(uart, j, j)

Parse ==
  /\ At("parse")
  /\ \/ \E i \in 1 .. Len(uart), j \in 2 .. Len(uart) + 1 :
          /\ IsNumber(i, j) /\ (j <= Len(uart) \/ NoMore)
          /\ Keep(IF Esp /\ j - i >= NumberLen THEN <<>> ELSE SubSeq(uart, i, j - 1))
          /\ IF Esp THEN ring' = Ender(j) /\ uart' = Behind(uart, j)
                    ELSE uart' = Behind(uart, j - 1) /\ UNCHANGED ring
     \/ /\ NoMore /\ \A i \in DOMAIN uart : uart[i] \notin Starters
        /\ ring' = <<>> /\ uart' = <<>>
        /\ UNCHANGED got
  /\ Continue /\ Alone

-----------------------------------------------------------------------------
(* The message *)

Size(part) == IF part = "topic" THEN TopicLen ELSE PayloadLen
Address(part) == IF part = "topic" THEN 0 ELSE TopicLen
Announced(part) == Number(got[IF part = "topic" THEN 2 ELSE 3])

Put(mem, at, s) == [a \in DOMAIN mem |-> IF a - at + 1 \in DOMAIN s THEN s[a - at + 1] ELSE mem[a]]

\* A slip: what there is no room for is counted without the terminator.
TooMuch_ForgetsEnd(part) == Announced(part) - Size(part)

TooMuch(part) == Announced(part) - Size(part) + 1

\* Read what cannot be kept, then what can over it, then terminate: one byte too far
\* when the text did not fit.
Store ==
  /\ At("store")
  /\ LET part  == Stage.arg
         at    == Address(part)
         fits  == Announced(part) < Size(part)
         skip  == IF fits THEN 0 ELSE TooMuch(part)
         n     == IF fits THEN Announced(part) ELSE skip + Size(part) - 1
         over  == Put(memory, at, SubSeq(Stream, 1, skip))
         kept  == Put(over, at, SubSeq(Stream, skip + 1, n))
     IN /\ Len(Stream) >= n
        /\ Consume(n)
        /\ memory' = Put(kept, at + (IF fits THEN n ELSE Size(part)), <<"NUL">>)
  /\ Continue
  /\ UNCHANGED <<input, coming, got, hasfix, early, result>>

-----------------------------------------------------------------------------
(* A call *)

Init == /\ input \in Inputs
        /\ coming = Text(input)
        /\ uart = <<>>
        /\ ring = IF Esp /\ input.fn = "process" THEN <<RxStart>> ELSE <<>>
        /\ todo = Reads(input.fn)
        /\ got = << <<>> >>
        /\ hasfix = FALSE /\ early = FALSE
        /\ memory = [a \in 0 .. TopicLen + PayloadLen |-> "junk"]
        /\ result = "running"

Arrive == /\ coming # <<>>
          /\ uart' = Append(uart, Head(coming))
          /\ coming' = Tail(coming)
          /\ UNCHANGED <<input, ring, todo, got, hasfix, early, memory, result>>

Return == /\ Running /\ todo = <<>>
          /\ result' = "ok"
          /\ UNCHANGED <<input, coming, uart, ring, todo, got, hasfix, early, memory>>

Next == \/ Arrive \/ PeekAt \/ ReadChar \/ Find \/ ReadBytes \/ Wait \/ SetFix
        \/ Parse \/ Store \/ Return

Spec == Init /\ [][Next]_vars

-----------------------------------------------------------------------------
(***************************************************************************)
(* A position is read field by field as it was sent, empty fields of       *)
(* AT+CGPSINFO included, with success, and with a fix exactly when there   *)
(* was one.  It holds unless peek() or read(), which do not wait, came     *)
(* early, and for answers that the code can read: Legible, of the inputs.  *)
(* (getGNSSInfo, getGPSInfo, getAGPSData; parseInt and parseFloat.)        *)
(***************************************************************************)
\* Without a fix, and with success, there is nothing to read.
NothingIn(i) == \/ i.sent = NoGNSSFix \/ i.sent = NoGPSFix
                \/ i.fn = "getAGPSData" /\ Head(Head(i.sent)) = "s"

PositionIsRead ==
  input.fn # "process" /\ result # "running" /\ ~early =>
    /\ result = "ok"
    /\ IF NothingIn(input) THEN ~hasfix /\ got = << <<>> >>
       ELSE hasfix = (input.fn # "getAGPSData") /\ got = input.sent

Numbers(fn) == CASE fn = "getGNSSInfo" -> 1 .. 16 \ {6, 8, 9, 10}
                 [] fn = "getGPSInfo"  -> {1, 3, 7, 8, 9}
                 [] fn = "getAGPSData" -> {1}

\* The numbers that parseInt() or parseFloat() reads right behind peek().
Peeked(fn) == CASE fn = "getGNSSInfo" -> {1}
                [] fn = "getGPSInfo"  -> {7, 8, 9}
                [] fn = "getAGPSData" -> {1}

HasDigit(s) == \E i \in DOMAIN s : s[i] \in Digits

\* Every number has a digit, or its read is skipped; and on the ESP port it fits
\* numberBuf and was not peeked at.
Legible(i) ==
  \/ i.fn = "process"
  \/ NothingIn(i)
  \/ \A k \in Numbers(i.fn) :
       \/ i.fn = "getGPSInfo" /\ i.sent[k] = <<>>
       \/ /\ HasDigit(i.sent[k])
          /\ i.port = "esp" => Len(i.sent[k]) < NumberLen /\ k \notin Peeked(i.fn)

(***************************************************************************)
(* The message handler gives the callback the topic and the payload that   *)
(* were sent, if they fit, or the end of them, and leaves the stream right *)
(* behind the message, whatever characters the two are made of.  A topic   *)
(* or payload that does not fit has no terminator of its own: its last     *)
(* byte is what it was, and the NUL is one byte further.                   *)
(* (MQTTOnMessageRx::process, with the reads of both ports.)               *)
(***************************************************************************)
Buffer(part) == [i \in 1 .. Size(part) |-> memory[Address(part) + i - 1]]

Kept(part, text) ==
  IF Len(text) < Size(part)
  THEN SubSeq(Buffer(part), 1, Len(text) + 1) = Append(text, "NUL")
  ELSE /\ SubSeq(Buffer(part), 1, Size(part) - 1) = Behind(text, Len(text) - Size(part) + 1)
       /\ Buffer(part)[Size(part)] # "NUL"

MessageKept ==
  input.fn = "process" /\ result # "running" =>
    /\ result = "ok" /\ Stream \o coming = <<>>
    /\ Kept("topic", input.sent.topic)
    /\ Kept("payload", input.sent.payload)
=============================================================================
