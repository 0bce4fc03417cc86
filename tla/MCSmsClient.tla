----------------------------- MODULE MCSmsClient -----------------------------
(***************************************************************************)
(* An SMS of 14 octets: 16 characters, or 9 in a segment, as 160 and 153   *)
(* in 140.  Texts below, at and above each limit, with characters of every *)
(* kind; foreign messages packed bit by bit as GSM 03.40 has it.           *)
(***************************************************************************)
EXTENDS SmsClient

ASSUME /\ CharsIn(140) = 160 /\ CharsIn(140 - HeaderLen) = 153
       /\ 3 * CharsIn(140 - HeaderLen) = 459 /\ 3 * (140 - HeaderLen) = 402

\* The texts below are such texts.
ASSUME Legible

\* "A $ b @ _ [" and a line break, from the k-th on
Text(n, k) == [i \in 1 .. n |-> <<65, 36, 98, 64, 95, 91, 10>>[((i + k) % 7) + 1]]

Number(n) == [i \in 1 .. n |-> i % 10]
Home == [plus |-> TRUE, digits |-> Number(3)]
Far == [plus |-> FALSE, digits |-> Number(SenderSize)]

Plain(n, to) == [fn |-> "send", to |-> to, encoding |-> "GSM", comment |-> Text(n, n), data |-> <<>>]

Commented(n, m) == [fn |-> "sendWithComment", to |-> Home, encoding |-> "GSM",
                    comment |-> Text(n, 0), data |-> encodeGSM(Text(m, 3))]

\* m characters of UCS2, the third beyond ASCII
Wide(n, m) == [fn |-> "sendWithComment", to |-> Home, encoding |-> "UCS2",
               comment |-> Text(n, 1),
               data |-> [i \in 1 .. 2 * m |-> IF i = 5 THEN 32 ELSE IF i % 2 = 1 THEN 0 ELSE 96 + i]]

SomeCalls ==
  {Plain(0, Home), Plain(7, Home), Plain(8, Far), Plain(16, Far), Plain(17, Far),
   Plain(19, Home), Plain(27, Home), Plain(28, Home),
   Commented(3, 5), Commented(10, 8), Commented(4, 15), Commented(20, 7), Commented(14, 14),
   Wide(2, 5), Wide(1, 7), Wide(5, 6), Wide(12, 0), Wide(6, 7),
   [Wide(1, 1) EXCEPT !.encoding = "8BIT"]}

FewCalls == {Plain(16, Far), Plain(17, Far), Commented(4, 15)}

-----------------------------------------------------------------------------
(* The standard, bit by bit *)

Bit(chars, fill, k) ==
  LET i == (k - fill) \div 7 + 1 IN
  IF k < fill \/ i > Len(chars) THEN 0 ELSE (chars[i] \div 2^((k - fill) % 7)) % 2

Packed(chars, fill) ==
  [j \in 1 .. (fill + 7 * Len(chars) + 7) \div 8 |->
     LET b(n) == Bit(chars, fill, 8 * (j - 1) + n) * 2^n
     IN  b(0) + b(1) + b(2) + b(3) + b(4) + b(5) + b(6) + b(7)]

Header(h) == [i \in 1 .. h |-> IF i = 1 THEN h - 1 ELSE 200 + i]

\* first octet, sender, DCS, user data
Phone(first, from, dcs, header, data, text) ==
  [smsc |-> <<>>, flags |-> first, type |-> from.type, size |-> from.size, address |-> from.octets,
   sender |-> from.text, dcs |-> dcs, header |-> header, data |-> data, text |-> text]

Digits(n) == [i \in 1 .. n |-> Number(n)[i] + 48]

Known(n) == [type |-> 129, size |-> n, octets |-> storeBcdDigits(Number(n)), text |-> Digits(n)]
Abroad(n) == [Known(n) EXCEPT !.type = 145, !.text = <<43>> \o @]

Seen(n, k) == [i \in 1 .. n |-> Visible(Text(n, k)[i])]

\* A name of n characters counts in half-octets.
Name(n) == [type |-> 208, size |-> (7 * n + 3) \div 4,
            octets |-> Packed(encodeGSM(Text(n, 0)), 0), text |-> Seen(n, 0)]

Gsm(h, n, from) == Phone(IF h > 0 THEN 68 ELSE 4, from, 0, Header(h),
                         Packed(encodeGSM(Text(n, h)), Fill(h)), Seen(n, h))

SomeIncoming ==
       {Gsm(h, n, Known(4)) : h \in {0, 4, 6, 7, 8}, n \in 0 .. 6}
  \cup {Gsm(0, n, Name(n % 12)) : n \in 1 .. 16}
  \cup {Gsm(0, 3, Abroad(n)) : n \in {5, 18, 19, 20}}
  \cup {Gsm(0, 3, Known(n)) : n \in {19, 20}}
  \cup {[Gsm(6, 3, Abroad(5)) EXCEPT !.smsc = <<145>> \o storeBcdDigits(Number(n))] : n \in {11, 12}}
  \cup {Phone(IF h > 0 THEN 68 ELSE 4, Known(3), 8, Header(h), <<0, 65, 32, 172>>, <<65, 63>>) :
          h \in {0, 6, 7}}
  \cup {Phone(first, Known(3), dcs, <<>>, <<1, 2, 3, 4>>, <<>>) :
          first \in {4, 6}, dcs \in {4, 245}}

\* Some are refused.
ASSUME \E m, n \in SomeIncoming : Readable(m) /\ ~Readable(n)
=============================================================================
