------------------------------ MODULE SmsClient ------------------------------
(***************************************************************************)
(* clients/sms.cpp: send() and sendWithComment() cut a message into        *)
(* segments and send each as a PDU; read() decodes the PDU of a message    *)
(* that has come.  Between a sender and a reader are the phones' network   *)
(* and the hexadecimal digits of AT+CMGS and AT+CMGR.                      *)
(***************************************************************************)
EXTENDS SmsCoding, FiniteSets

CONSTANTS MaxOctets,    \* user data of one SMS, in octets; 140
          SenderSize,   \* SMS_SENDER_BUFFER_LEN; 20
          References,   \* values of _messageReference, an uint8_t; 256
          Calls,        \* what the application may send
          Again,        \* bound: those of them it sends after its first call
          Incoming,     \* what other phones send; see AsSpecified
          MaxCalls      \* bound: calls of the application

ASSUME SizesAssumption == /\ MaxOctets \in Nat /\ MaxOctets >= 14
                          /\ SenderSize \in Nat
                          /\ References \in Nat \ {0}
                          /\ MaxCalls \in Nat
                          /\ Again \subseteq Calls

\* send() has no user data of the caller, and one alphabet.
ASSUME CallsAssumption ==
  \A c \in Calls :
    /\ c.fn \in {"send", "sendWithComment"} /\ c.encoding \in {"GSM", "UCS2", "8BIT"}
    /\ c.comment \in Seq(Nat) /\ c.data \in Seq(Nat)
    /\ c.fn = "send" => c.encoding = "GSM" /\ c.data = <<>>

VARIABLES messageReference,
          log,          \* the calls made, the last one perhaps still running
          part,         \* locals of the running call
          commentIdx,
          messageIdx,
          air,          \* the PDUs the network has taken
          inbox         \* the message the last read() filled in

locals == <<part, commentIdx, messageIdx>>
vars == <<messageReference, log, locals, air, inbox>>

Least(a, b) == IF a < b THEN a ELSE b

-----------------------------------------------------------------------------
(* Sizes: the code writes 160, 153, 459 and 140, 134, 402, which these are  *)
(* when MaxOctets is 140.                                                   *)

CharsIn(octets) == (8 * octets) \div 7

\* The octets of the header of a segment: its length, and the multipart element.
HeaderLen == 6

Single(c) == IF c.encoding = "GSM" THEN CharsIn(MaxOctets) ELSE MaxOctets
PartSize(c) == IF c.encoding = "GSM" THEN CharsIn(MaxOctets - HeaderLen) ELSE MaxOctets - HeaderLen

\* The sizes are those of octets: pduBuf[] is for numbers of SMS_SENDER_BUFFER_LEN digits,
\* an SMS has whole characters of UCS2, and a segment has room for a fill bit, 134 % 7 = 1.
ASSUME OctetsAssumption ==
  /\ MaxOctets % 2 = 0 /\ (MaxOctets - HeaderLen) % 7 # 0
  /\ CharsIn(MaxOctets) <= 255 /\ SenderSize <= 255 /\ References <= 256
  /\ \A c \in Calls :
       /\ c.comment \in Seq(0 .. 255) /\ c.data \in Seq(0 .. 255)
       /\ c.to.digits \in Seq(0 .. 9) /\ Len(c.to.digits) <= SenderSize

CommentLen(c) == IF c.encoding = "UCS2" THEN 2 * Len(c.comment) ELSE Len(c.comment)
Length(c) == CommentLen(c) + Len(c.data)

Multipart(c) == Length(c) > Single(c)

\* A slip: rounded down.
TotalParts_Down(c) == IF Multipart(c) THEN Length(c) \div PartSize(c) ELSE 1

TotalParts(c) == IF Multipart(c) THEN (Length(c) + PartSize(c) - 1) \div PartSize(c) ELSE 1

\* A slip: a segment is as long as a message without header.
MaxBytes_NoHeader(c) == Single(c)

MaxBytes(c) == IF Multipart(c) THEN PartSize(c) ELSE Single(c)

Refused(c) == c.encoding = "8BIT" \/ Length(c) > 3 * PartSize(c)

-----------------------------------------------------------------------------
(* The text of one segment *)

Running == log # <<>> /\ log[Len(log)].result = "running"
Current == log[Len(log)].call

FromComment(c) == Least(CommentLen(c) - commentIdx, MaxBytes(c))
FromData(c) == Least(Len(c.data) - messageIdx, MaxBytes(c) - FromComment(c))

\* n units of the comment, n characters or 2n octets, encoded here and not before.
EncodedComment(c, from, n) ==
  IF c.encoding = "UCS2"
  THEN [i \in 1 .. n |-> IF i % 2 = 1 THEN 0 ELSE c.comment[(from + i) \div 2]]
  ELSE encodeGSM(SubSeq(c.comment, from + 1, from + n))

Segment(c) == EncodedComment(c, commentIdx, FromComment(c))
              \o SubSeq(c.data, messageIdx + 1, messageIdx + FromData(c))

-----------------------------------------------------------------------------
(* The PDU of one segment, SMS-SUBMIT *)

\* A slip: no fill bit behind the header.
FillBits_None(multipart) == 0

FillBits(multipart) == IF multipart THEN 1 ELSE 0

UserDataHeader(reference, total, sequence) == <<5, 0, 3, reference, total, sequence>>

UserDataLength(c, n) ==
  IF ~Multipart(c) THEN n ELSE IF c.encoding = "GSM" THEN n + 7 ELSE n + HeaderLen

Submit(c, reference, sequence, text) ==
     <<0, IF Multipart(c) THEN 65 ELSE 1, 0, Len(c.to.digits), IF c.to.plus THEN 145 ELSE 129>>
  \o storeBcdDigits(c.to.digits)
  \o <<0, IF c.encoding = "UCS2" THEN 8 ELSE 0, UserDataLength(c, Len(text))>>
  \o (IF Multipart(c) THEN UserDataHeader(reference, TotalParts(c), sequence) ELSE <<>>)
  \o (IF c.encoding = "GSM" THEN pack7Bit(text, FillBits(Multipart(c))) ELSE text)

-----------------------------------------------------------------------------
(* The network makes an SMS-DELIVER of it for the phone of the receiver *)

FirstUserOctet(submit) == 6 + (submit[4] + 1) \div 2

Deliver(submit, smsc, sender) ==
     <<Len(smsc)>> \o smsc
  \o <<IF submit[2] >= 64 THEN 64 ELSE 0>> \o sender
  \o <<0, submit[FirstUserOctet(submit) + 1]>>
  \o <<81, 1, 1, 0, 0, 0, 0>>
  \o SubSeq(submit, FirstUserOctet(submit) + 2, Len(submit))

-----------------------------------------------------------------------------
(* Messages of other phones, as GSM 03.40 has them: an SMS-DELIVER.  Digits *)
(* or the characters of a name make the address, of size half-octets; seven *)
(* bits a character, from the lowest bit on, begin where one would begin    *)
(* if the header were packed as well; in UCS2 two octets make a unit.       *)

Fill(h) == CHOOSE f \in 0 .. 6 : (8 * h + f) % 7 = 0

UserLength(m) == IF m.dcs = 0 THEN (8 * Len(m.header) + Fill(Len(m.header))) \div 7 + Len(m.text)
                 ELSE Len(m.header) + Len(m.data)

FromPhone(m) ==
     <<Len(m.smsc)>> \o m.smsc \o <<m.flags, m.size, m.type>> \o m.address
  \o <<0, m.dcs, 81, 1, 1, 0, 0, 0, 0, UserLength(m)>> \o m.header \o m.data

\* Character k, counted from 0, lies in one octet or in two.
CharIn(octets, fill, k) ==
  LET j   == (fill + 7 * k) \div 8 + 1
      bit == (fill + 7 * k) % 8
  IN  (octets[j] \div 2^bit + (IF bit > 1 THEN octets[j + 1] * 2^(8 - bit) ELSE 0)) % 128

Spells(octets, fill, text) ==
  /\ fill + 7 * Len(text) <= 8 * Len(octets)
  /\ \A k \in 1 .. Len(text) : text[k] = DecodeChar(CharIn(octets, fill, k - 1))

SpellsWide(octets, text) ==
  /\ Len(octets) = 2 * Len(text)
  /\ \A k \in 1 .. Len(text) : LET unit == 256 * octets[2*k - 1] + octets[2*k]
                               IN  text[k] = IF unit < 128 THEN unit ELSE 63

\* A text of digits, behind a plus in an international number.
IsNumber(address, size, plus, text) ==
  /\ Len(text) = plus + size /\ (plus = 1 => text[1] = 43)
  /\ LET digits == [i \in 1 .. size |-> text[plus + i] - 48]
     IN  digits \in Seq(0 .. 9) /\ address = storeBcdDigits(digits)

AddressType(m) == (m.type \div 16) % 8

AsSpecified(m) ==
  /\ \A octets \in {m.smsc, m.address, m.header, m.data, <<m.flags, m.type, m.dcs>>} :
       octets \in Seq(0 .. 255)
  /\ Len(m.smsc) <= 11 /\ m.size \in 0 .. 20 /\ Len(m.address) = (m.size + 1) \div 2
  /\ Len(m.header) + Len(m.data) <= MaxOctets
  /\ IF (m.flags \div 64) % 2 = 1 THEN m.header # <<>> /\ m.header[1] = Len(m.header) - 1
                                  ELSE m.header = <<>>
  /\ m.sender \in Seq(Nat) /\ m.text \in Seq(Nat)
  /\ CASE AddressType(m) = 5 -> Len(m.sender) = (m.size * 4) \div 7 /\ Spells(m.address, 0, m.sender)
       [] AddressType(m) = 1 -> IsNumber(m.address, m.size, 1, m.sender)
       [] OTHER              -> IsNumber(m.address, m.size, 0, m.sender)
  /\ m.dcs = 0 => Spells(m.data, Fill(Len(m.header)), m.text)
  /\ m.dcs = 8 => SpellsWide(m.data, m.text)

ASSUME IncomingAssumption == \A m \in Incoming : AsSpecified(m)

-----------------------------------------------------------------------------
(* read(): what is made of a PDU.  Indices count from 0, as in the code. *)

Bad == [ok |-> FALSE]

\* pduBuf[200]; what is longer AT+CMGR gives up with A76XX_OUT_OF_MEMORY.
PduBuffer == MaxOctets + 60

AddressOctets(addrLen) == (addrLen + 1) \div 2

SenderText(type, addrLen, octets) ==
  LET digits == extractBcdDigits(octets, addrLen) IN
  CASE type = "alphanumeric"  -> decodeGSM(unpack7Bit(octets, (addrLen * 4) \div 7, 0))
    [] type = "international" -> <<43>> \o [i \in 1 .. addrLen |-> digits[i] + 48]
    [] OTHER                  -> [i \in 1 .. addrLen |-> digits[i] + 48]

SenderFits(type, addrLen) ==
  LET chars == CASE type = "alphanumeric"  -> (addrLen * 4) \div 7
                 [] type = "international" -> addrLen + 1
                 [] OTHER                  -> addrLen
  IN  chars <= SenderSize - 1

\* A slip: a header of a multiple of seven octets is given seven fill bits.
HeaderFill_Seven(headerLen) == 7 - (headerLen % 7)

HeaderFill(headerLen) == (7 - (headerLen % 7)) % 7

\* udl is an uint8_t: what remains behind the header, modulo 256.
CharsBehind(udl, headerLen) ==
  IF headerLen = 0 THEN udl
  ELSE (udl - (8 * headerLen + HeaderFill(headerLen)) \div 7) % 256

UserData(dcs, udl, headerLen, octets) ==
  LET text == SubSeq(octets, headerLen + 1, Len(octets))
      chars == CharsBehind(udl, headerLen)
      bytes == (udl - headerLen) % 256
  IN  CASE dcs = 0 /\ chars <= CharsIn(MaxOctets) ->
             [ok |-> TRUE,
              raw |-> unpack7Bit(text, chars, IF headerLen = 0 THEN 0 ELSE HeaderFill(headerLen))]
        [] dcs = 8 /\ bytes <= CharsIn(MaxOctets) -> [ok |-> TRUE, raw |-> SubSeq(text, 1, bytes)]
        [] OTHER -> Bad

DecodePdu(pdu) ==
  LET At(i) == pdu[i + 1]
      first == 1 + At(0)
      addrLen == At(first + 1)
      type == CASE (At(first + 2) \div 16) % 8 = 5 -> "alphanumeric"
                [] (At(first + 2) \div 16) % 8 = 1 -> "international"
                [] OTHER -> "number"
      pid == first + 3 + AddressOctets(addrLen)
      dcs == At(pid + 1)
      udl == At(pid + 9)
      user == SubSeq(pdu, pid + 11, Len(pdu))
      headerLen == IF (At(first) \div 64) % 2 = 1 THEN user[1] + 1 ELSE 0
      data == UserData(dcs, udl, headerLen, user)
  IN  IF Len(pdu) > PduBuffer \/ At(first) % 4 # 0 \/ ~SenderFits(type, addrLen) \/ ~data.ok
      THEN Bad
      ELSE [ok |-> TRUE,
            sender |-> SenderText(type, addrLen, SubSeq(pdu, first + 4, pid)),
            raw |-> data.raw,
            decoded |-> IF dcs = 0 THEN decodeGSM(data.raw)
                        ELSE decodeUCS2(data.raw, Len(data.raw) \div 2)]

-----------------------------------------------------------------------------
(* The functions of the client *)

Nothing == [pdu |-> <<>>, msg |-> Bad]

Init == /\ messageReference = 123 % References
        /\ log = <<>>
        /\ part = 0 /\ commentIdx = 0 /\ messageIdx = 0
        /\ air = {}
        /\ inbox = Nothing

Entry(c, result) == [call |-> c, reference |-> messageReference, result |-> result]

\* Slips: segments are counted from 0; a message keeps the reference of the last.
Begin_FromZero(c) ==
  /\ log' = Append(log, Entry(c, "running"))
  /\ part' = 0 /\ commentIdx' = 0 /\ messageIdx' = 0
  /\ messageReference' = IF Multipart(c) THEN (messageReference + 1) % References
                                         ELSE messageReference
  /\ UNCHANGED air
  /\ inbox' = Nothing

Begin_KeepsReference(c) ==
  /\ log' = Append(log, Entry(c, "running"))
  /\ part' = 1 /\ commentIdx' = 0 /\ messageIdx' = 0
  /\ UNCHANGED <<messageReference, air>>
  /\ inbox' = Nothing

Begin(c) ==
  /\ log' = Append(log, Entry(c, "running"))
  /\ part' = 1 /\ commentIdx' = 0 /\ messageIdx' = 0
  /\ messageReference' = IF Multipart(c) THEN (messageReference + 1) % References
                                         ELSE messageReference
  /\ UNCHANGED air
  /\ inbox' = Nothing

Refuse(c) == /\ log' = Append(log, Entry(c, "false"))
             /\ UNCHANGED <<messageReference, locals, air>>
             /\ inbox' = Nothing

May(c) == /\ ~Running /\ Len(log) < MaxCalls
          /\ log # <<>> => c \in Again

send == \E c \in Calls : /\ May(c) /\ c.fn = "send"
                         /\ IF Refused(c) THEN Refuse(c) ELSE Begin(c)

sendWithComment == \E c \in Calls : /\ May(c) /\ c.fn = "sendWithComment"
                                    /\ IF Refused(c) THEN Refuse(c) ELSE Begin(c)

Return(result) == log' = [log EXCEPT ![Len(log)].result = result]

\* "This shouldn't happen": send() has nothing left for this segment.
NothingLeft == Running /\ Current.fn = "send" /\ commentIdx >= Len(Current.comment)

GiveUp == /\ NothingLeft
          /\ Return("false")
          /\ UNCHANGED <<messageReference, locals, air, inbox>>

\* After AT+CMGS: acknowledged; refused or unanswered, but perhaps sent all the same.
Outcomes == {[ok |-> TRUE,  sent |-> TRUE],
             [ok |-> FALSE, sent |-> TRUE],
             [ok |-> FALSE, sent |-> FALSE]}

\* A slip: the loop goes on when a segment has failed.
Proceed_Always(c, ok) ==
  IF part < TotalParts(c)
  THEN /\ part' = part + 1
       /\ commentIdx' = commentIdx + FromComment(c)
       /\ messageIdx' = messageIdx + FromData(c)
       /\ UNCHANGED log
  ELSE Return(IF ok THEN "true" ELSE "false") /\ UNCHANGED locals

Proceed(c, ok) ==
  IF ok /\ part < TotalParts(c)
  THEN /\ part' = part + 1
       /\ commentIdx' = commentIdx + FromComment(c)
       /\ messageIdx' = messageIdx + FromData(c)
       /\ UNCHANGED log
  ELSE Return(IF ok THEN "true" ELSE "false") /\ UNCHANGED locals

sendSingle ==
  /\ Running /\ ~NothingLeft
  /\ \E outcome \in Outcomes :
       LET reference == log[Len(log)].reference IN
       /\ air' = IF outcome.sent
                 THEN air \cup {[id |-> Len(log), sequence |-> part,
                                 pdu |-> FromHex(HexOf(Submit(Current, reference, part, Segment(Current))))]}
                 ELSE air
       /\ Proceed(Current, outcome.ok)
       /\ UNCHANGED <<messageReference, inbox>>

\* The number of the sending phone, which the network adds.
Own == <<1, 2, 3>>
OwnAddress == <<3, 145>> \o storeBcdDigits(Own)

\* Messages from elsewhere are read before the first call only: read() keeps no state.
read == /\ ~Running
        /\ \E pdu \in IF log = <<>> THEN {FromPhone(m) : m \in Incoming}
                     ELSE {Deliver(a.pdu, <<145, 51>>, OwnAddress) : a \in air} :
             inbox' = [pdu |-> pdu, msg |-> DecodePdu(FromHex(HexOf(pdu)))]
        /\ UNCHANGED <<messageReference, log, locals, air>>

Next == send \/ sendWithComment \/ GiveUp \/ sendSingle \/ read

Spec == Init /\ [][Next]_vars

-----------------------------------------------------------------------------
(* Type invariant: of the locals, the log and what identifies a PDU. *)

TypeOK == /\ messageReference \in 0 .. References - 1
          /\ log \in Seq([call : Calls, reference : 0 .. References - 1,
                          result : {"running", "true", "false"}])
          /\ part \in Nat /\ commentIdx \in Nat /\ messageIdx \in Nat
          /\ \A a \in air : a.id \in 1 .. Len(log) /\ a.sequence \in Nat \ {0}

(***************************************************************************)
(* What the network has of a call is its first segments, one PDU for each; *)
(* and it has all of them when the call returned true.  A failure in the   *)
(* middle therefore leaves a beginning, never a hole.                      *)
(* (send(), sendWithComment(): the loop over parts, and its early return.) *)
(***************************************************************************)
SentOf(id) == {a \in air : a.id = id}

SegmentsInOrder ==
  \A id \in 1 .. Len(log) :
    LET sequences == {a.sequence : a \in SentOf(id)} IN
    /\ sequences = 1 .. Cardinality(SentOf(id))
    /\ log[id].result = "true" => sequences = 1 .. TotalParts(log[id].call)

(***************************************************************************)
(* Every segment has text, unless the message has none: the loop of send() *)
(* never comes to the return that "shouldn't happen", and no segment is    *)
(* left over when the loop ends.                                           *)
(***************************************************************************)
SegmentsCover ==
  Running =>
    /\ Length(Current) > 0 => commentIdx + messageIdx < Length(Current)
    /\ FromComment(Current) + FromData(Current) <= MaxBytes(Current)
    /\ part = TotalParts(Current) =>
         commentIdx + messageIdx + FromComment(Current) + FromData(Current) = Length(Current)

(***************************************************************************)
(* Segments of different messages never carry the same reference, unless   *)
(* the counter has gone round in between: so a receiver that collects by   *)
(* reference does not mix an aborted message with its retry.               *)
(* (_messageReference++ in send() and sendWithComment().)                  *)
(***************************************************************************)
Multiparts(i, j) == {k \in i .. j : Multipart(log[k].call) /\ ~Refused(log[k].call)}

ReferencesApart ==
  \A i, j \in 1 .. Len(log) :
    /\ i < j /\ {i, j} \subseteq Multiparts(1, Len(log))
    /\ log[i].reference = log[j].reference
    => Cardinality(Multiparts(i, j - 1)) >= References

(***************************************************************************)
(* A PDU fits: in pduBuf[SMS_PDU_LEN] of sendSingle(), for numbers of up   *)
(* to SMS_SENDER_BUFFER_LEN digits, and its user data in one SMS.          *)
(***************************************************************************)
PduLen == SenderSize \div 2 + MaxOctets + 10

PduFits ==
  \A a \in air :
    /\ Len(a.pdu) <= PduLen
    /\ Len(a.pdu) - (FirstUserOctet(a.pdu) + 2) <= MaxOctets
    /\ \A i \in 1 .. Len(a.pdu) : a.pdu[i] \in 0 .. 255

(***************************************************************************)
(* End to end: what read() makes of a segment that was sent is the text of *)
(* that segment and the number it came from, and the segment went to the   *)
(* number asked for.  (encodeGSM, pack7Bit, sendSingle, the hexadecimal    *)
(* digits of the commands, read, unpack7Bit, decodeGSM, the BCD digits.)   *)
(***************************************************************************)
Visible(char) == IF char \in SameInBoth \cup {36, 64, 95} THEN char ELSE 63

Ascii(c) == IF c.encoding = "GSM"
            THEN [i \in 1 .. Len(c.comment) |-> Visible(c.comment[i])] \o decodeGSM(c.data)
            ELSE c.comment \o decodeUCS2(c.data, Len(c.data) \div 2)

SegmentText(c, sequence) ==
  LET size == IF c.encoding = "GSM" THEN MaxBytes(c) ELSE MaxBytes(c) \div 2 IN
  SubSeq(Ascii(c), (sequence - 1) * size + 1, Least(sequence * size, Len(Ascii(c))))

ReadIsSent ==
  \A a \in air :
    LET c == log[a.id].call IN
    /\ a.pdu[4] = Len(c.to.digits)
    /\ extractBcdDigits(SubSeq(a.pdu, 6, Len(a.pdu)), a.pdu[4]) = c.to.digits
    /\ inbox.pdu = Deliver(a.pdu, <<145, 51>>, OwnAddress) =>
         /\ inbox.msg.ok
         /\ inbox.msg.sender = <<43, 49, 50, 51>>
         /\ inbox.msg.decoded = SegmentText(c, a.sequence)

\* The texts that read() can give back: the caller's data of seven-bit characters, a comment of
\* ASCII, where `char` is unsigned (EncodeChar); and room for "+123".
Legible ==
  /\ ~CharIsSigned /\ SenderSize >= 5
  /\ \A c \in Calls : /\ c.encoding = "GSM"  => c.data \in Seq(0 .. 127)
                      /\ c.encoding = "UCS2" => c.comment \in Seq(0 .. 127)

(***************************************************************************)
(* read() understands messages of other phones: any header, any of the     *)
(* kinds of sender, up to what fits in its buffers; and it refuses what is *)
(* no SMS-DELIVER, or has octets for characters.  (SMSClient::read)        *)
(***************************************************************************)
Readable(m) == m.flags % 4 = 0 /\ m.dcs \in {0, 8} /\ Len(m.sender) < SenderSize

IncomingIsRead ==
  log = <<>> => \A m \in Incoming :
    inbox.pdu = FromPhone(m) => IF Readable(m)
                                THEN /\ inbox.msg.ok
                                     /\ inbox.msg.sender = m.sender
                                     /\ inbox.msg.decoded = m.text
                                ELSE ~inbox.msg.ok
=============================================================================
