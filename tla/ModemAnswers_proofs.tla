------------------------- MODULE ModemAnswers_proofs -------------------------
(***************************************************************************)
(* Proofs about the answers and events the serial driver's functions read. *)
(*                                                                         *)
(* All the modem ever sent is a history, in which every event stands in    *)
(* one piece.  Everything else in it is an answer, and of what is not read *)
(* yet only the answer to the last command line has anything in it that a  *)
(* function would wait for (OnLine).  Each function on the stack is at a   *)
(* point of its outline, and the innermost tells how far into its answer,  *)
(* or its event, the history has been read (OInv).                         *)
(***************************************************************************)
EXTENDS ModemSerial_proofs, AnswerOutline

Letter == [s : STRING, n : Nat, of : Nat]
AllBlocks == AnswerBlocks \cup EventBlocks

\* Lexeme q of a text, as the modem sends it.
Said(bs, q, c) == [s |-> Text(bs)[q].s, n |-> Text(bs)[q].n, of |-> c]

\* The blocks after the m-th.
Unsent(bs, m, c) == [i \in 1 .. Len(bs) - m |-> Tag(bs[m + i], c)]

-----------------------------------------------------------------------------
(* Texts *)

LEMMA BlocksType ==
  ASSUME NEW bs \in AllBlocks
  PROVE  bs \in Seq(Block) /\ Len(bs) \in Nat
<1>1. CASE bs \in EventBlocks
  BY <1>1, BlocksAssumption DEF EventBlocks
<1>2. CASE bs \in AnswerBlocks
  <2>1. CASE bs = <<>>
    BY <2>1
  <2>2. CASE bs # <<>>
    <3>1. PICK c \in DOMAIN Replies : bs \in {r.blocks : r \in Replies[c]}
      BY <1>2, <2>2 DEF AnswerBlocks
    <3> QED BY <3>1, BlocksAssumption
  <2> QED BY <2>1, <2>2
<1> QED BY <1>1, <1>2 DEF AllBlocks

LEMMA TextType ==
  ASSUME NEW bs \in AllBlocks
  PROVE  /\ Text(bs) \in Seq([s : STRING, n : Nat]) /\ Len(Text(bs)) \in Nat
         /\ \A b \in 0 .. Len(bs) : Ends(bs)[b] \in Nat /\ Ends(bs)[b] <= Len(Text(bs))
         /\ Ends(bs)[0] = 0 /\ Ends(bs)[Len(bs)] = Len(Text(bs))
         /\ \A b, d \in 0 .. Len(bs) : b < d => Ends(bs)[b] < Ends(bs)[d]
<1>1. /\ Text(bs) \in Seq([s : STRING, n : Nat])
      /\ Ends(bs) \in [0 .. Len(bs) -> 0 .. Len(Text(bs))]
  BY SpellingAssumption DEF AllBlocks, Block
<1>2. Len(Text(bs)) \in Nat
  BY <1>1
<1>3. \A b \in 0 .. Len(bs) : Ends(bs)[b] \in 0 .. Len(Text(bs))
  BY <1>1
<1>4. /\ Ends(bs)[0] = 0 /\ Ends(bs)[Len(bs)] = Len(Text(bs))
      /\ \A b, d \in 0 .. Len(bs) : b < d => Ends(bs)[b] < Ends(bs)[d]
  BY SpellingAssumption DEF AllBlocks
<1> QED BY <1>1, <1>2, <1>3, <1>4

LEMMA EndsOrder ==
  ASSUME NEW bs \in AllBlocks, NEW b \in 0 .. Len(bs), NEW d \in 0 .. Len(bs)
  PROVE  b <= d => Ends(bs)[b] <= Ends(bs)[d]
<1>1. Len(bs) \in Nat
  BY BlocksType
<1>2. CASE b < d
  BY <1>2, <1>1, TextType
<1>3. CASE b = d
  BY <1>3, <1>1, TextType
<1> QED BY <1>1, <1>2, <1>3

LEMMA SaidType ==
  ASSUME NEW bs \in AllBlocks, NEW q \in 1 .. Len(Text(bs)), NEW c \in Nat
  PROVE  /\ Said(bs, q, c) \in Letter
         /\ Said(bs, q, c).s = Text(bs)[q].s /\ Said(bs, q, c).n = Text(bs)[q].n
         /\ Said(bs, q, c).of = c
<1>1. Text(bs)[q] \in [s : STRING, n : Nat]
  BY TextType, ElementOfSeq
<1> QED BY <1>1 DEF Said, Letter

\* A block is a stretch of the text.
LEMMA BlockText ==
  ASSUME NEW bs \in AllBlocks, NEW b \in 1 .. Len(bs), NEW c
  PROVE  /\ b - 1 \in 0 .. Len(bs) /\ b \in 0 .. Len(bs)
         /\ Ends(bs)[b - 1] < Ends(bs)[b]
         /\ Len(Tag(bs[b], c)) = Ends(bs)[b] - Ends(bs)[b - 1]
         /\ DOMAIN Tag(bs[b], c) = 1 .. Ends(bs)[b] - Ends(bs)[b - 1]
         /\ \A i \in 1 .. Ends(bs)[b] - Ends(bs)[b - 1] :
              Tag(bs[b], c)[i] = Said(bs, Ends(bs)[b - 1] + i, c)
<1> DEFINE lo == Ends(bs)[b - 1]
           hi == Ends(bs)[b]
<1>1. Len(bs) \in Nat /\ b - 1 \in 0 .. Len(bs) /\ b \in 0 .. Len(bs) /\ b - 1 < b
  BY BlocksType
<1>2. lo \in Nat /\ hi \in Nat /\ lo < hi /\ hi <= Len(Text(bs))
  BY <1>1, TextType
<1>3. bs[b] = SubSeq(Text(bs), lo + 1, hi)
  BY SpellingAssumption DEF AllBlocks
<1>4. Text(bs) \in Seq([s : STRING, n : Nat])
  BY TextType
<1> HIDE DEF lo, hi
<1>5. /\ Len(bs[b]) = hi - lo /\ DOMAIN bs[b] = 1 .. hi - lo
      /\ \A i \in 1 .. hi - lo : bs[b][i] = Text(bs)[lo + i]
  <2>1. lo + 1 \in 1 .. Len(Text(bs)) /\ hi \in lo + 1 .. Len(Text(bs)) /\ hi - (lo + 1) + 1 = hi - lo
    BY <1>2, <1>4
  <2>2. \A i \in 1 .. hi - lo : lo + 1 + i - 1 = lo + i
    BY <1>2
  <2> QED BY <1>2, <1>3, <1>4, <2>1, <2>2
<1>6. /\ DOMAIN Tag(bs[b], c) = 1 .. hi - lo
      /\ \A i \in 1 .. hi - lo : Tag(bs[b], c)[i] = Said(bs, lo + i, c)
  BY <1>5 DEF Tag, Said
<1>7. Len(Tag(bs[b], c)) = hi - lo
  <2>1. hi - lo \in Nat
    BY <1>2
  <2>2. Tag(bs[b], c) = [i \in 1 .. hi - lo |-> Tag(bs[b], c)[i]]
    BY <1>5 DEF Tag
  <2> QED BY <1>6, <2>1, <2>2
<1> QED BY <1>1, <1>2, <1>6, <1>7 DEF lo, hi

LEMMA FromFunction ==
  ASSUME NEW S, NEW k \in Nat, NEW f \in [1 .. k -> S]
  PROVE  f \in Seq(S) /\ Len(f) = k /\ DOMAIN f = 1 .. k
<1>1. f \in Seq(S)
  BY SeqDef
<1>2. DOMAIN f = 1 .. k
  OBVIOUS
<1> QED BY <1>1, <1>2, LenProperties

LEMMA BlockType ==
  ASSUME NEW bs \in AllBlocks, NEW b \in 1 .. Len(bs), NEW c \in Nat
  PROVE  Tag(bs[b], c) \in Seq(Letter)
<1> DEFINE lo == Ends(bs)[b - 1]
           hi == Ends(bs)[b]
           t  == Tag(bs[b], c)
<1>1. /\ lo \in Nat /\ hi \in Nat /\ lo < hi /\ hi <= Len(Text(bs)) /\ Len(Text(bs)) \in Nat
      /\ DOMAIN t = 1 .. hi - lo /\ \A i \in 1 .. hi - lo : t[i] = Said(bs, lo + i, c)
  BY BlockText, TextType
<1>2. \A i \in 1 .. hi - lo : lo + i \in 1 .. Len(Text(bs))
  <2> HIDE DEF lo, hi
  <2> QED BY <1>1
<1>3. \A i \in 1 .. hi - lo : t[i] \in Letter
  BY <1>1, <1>2, SaidType
<1>4. t \in [1 .. hi - lo -> Letter]
  <2>1. t = [i \in DOMAIN t |-> t[i]]
    BY DEF Tag
  <2> HIDE DEF t, lo, hi
  <2> QED BY <1>1, <1>3, <2>1
<1>5. hi - lo \in Nat
  <2> HIDE DEF lo, hi
  <2> QED BY <1>1
<1> HIDE DEF t, lo, hi
<1>6. t \in Seq(Letter)
  BY <1>4, <1>5, FromFunction
<1> QED BY <1>6 DEF t

LEMMA UnsentType ==
  ASSUME NEW bs \in AllBlocks, NEW m \in 0 .. Len(bs), NEW c \in Nat
  PROVE  /\ Unsent(bs, m, c) \in Seq(Seq(Letter)) /\ Len(Unsent(bs, m, c)) = Len(bs) - m
         /\ \A i \in 1 .. Len(bs) - m : Unsent(bs, m, c)[i] = Tag(bs[m + i], c)
<1>1. Len(bs) \in Nat /\ Len(bs) - m \in Nat
  BY BlocksType
<1>2. \A i \in 1 .. Len(bs) - m : m + i \in 1 .. Len(bs)
  BY <1>1
<1>3. Unsent(bs, m, c) \in [1 .. Len(bs) - m -> Seq(Letter)]
  BY <1>2, BlockType DEF Unsent
<1>4. \A i \in 1 .. Len(bs) - m : Unsent(bs, m, c)[i] = Tag(bs[m + i], c)
  BY DEF Unsent
<1> QED BY <1>1, <1>3, <1>4, FromFunction

LEMMA UnsentParts ==
  ASSUME NEW bs \in AllBlocks, NEW m \in 0 .. Len(bs), NEW c \in Nat
  PROVE  /\ Unsent(bs, m, c) = <<>> <=> m = Len(bs)
         /\ m < Len(bs) => /\ m + 1 \in 1 .. Len(bs) /\ m + 1 \in 0 .. Len(bs)
                           /\ Head(Unsent(bs, m, c)) = Tag(bs[m + 1], c)
                           /\ Tail(Unsent(bs, m, c)) = Unsent(bs, m + 1, c)
<1> DEFINE w == Unsent(bs, m, c)
           v == Unsent(bs, m + 1, c)
           k == Len(bs) - m
<1>1. Len(bs) \in Nat /\ k \in Nat /\ m \in Nat
  BY BlocksType
<1>2. w \in Seq(Seq(Letter)) /\ Len(w) = k /\ \A i \in 1 .. k : w[i] = Tag(bs[m + i], c)
  BY UnsentType
<1>3. w = <<>> <=> k = 0
  <2> HIDE DEF w
  <2> QED BY <1>1, <1>2
<1>4. ASSUME m < Len(bs)
      PROVE  /\ m + 1 \in 1 .. Len(bs) /\ m + 1 \in 0 .. Len(bs)
             /\ Head(w) = Tag(bs[m + 1], c) /\ Tail(w) = v
  <2>1. /\ k \in Nat \ {0} /\ 1 \in 1 .. k /\ m + 1 \in 0 .. Len(bs) /\ m + 1 \in 1 .. Len(bs)
        /\ Len(bs) - (m + 1) = k - 1
        /\ \A i \in 1 .. k - 1 : i + 1 \in 1 .. k /\ m + 1 + i = m + (i + 1)
    BY <1>1, <1>4
  <2>2. v \in Seq(Seq(Letter)) /\ Len(v) = k - 1 /\ \A i \in 1 .. k - 1 : v[i] = Tag(bs[m + 1 + i], c)
    <3>1. /\ v \in Seq(Seq(Letter)) /\ Len(v) = Len(bs) - (m + 1)
          /\ \A i \in 1 .. Len(bs) - (m + 1) : v[i] = Tag(bs[m + 1 + i], c)
      BY <2>1, UnsentType
    <3> HIDE DEF v, k
    <3> QED BY <2>1, <3>1
  <2> HIDE DEF w, v, k
  <2>3. w # <<>>
    BY <1>3, <2>1
  <2>4. Head(w) = w[1]
    BY <1>2, <2>3
  <2>5. /\ Tail(w) \in Seq(Seq(Letter)) /\ Len(Tail(w)) = k - 1
        /\ \A i \in 1 .. k - 1 : Tail(w)[i] = w[i + 1]
    BY <1>2, <2>3, HeadTailProperties
  <2>6. \A i \in 1 .. k - 1 : Tail(w)[i] = v[i]
    BY <1>2, <2>1, <2>2, <2>5
  <2>7. Tail(w) = v
    BY <2>2, <2>5, <2>6, SeqEqual
  <2> QED BY <1>2, <2>1, <2>4, <2>7
<1> QED BY <1>1, <1>3, <1>4

LEMMA AllUnsent ==
  ASSUME NEW bs \in AllBlocks, NEW c
  PROVE  TagAll(bs, c) = Unsent(bs, 0, c)
<1>1. DOMAIN bs = 1 .. Len(bs) - 0 /\ \A i \in DOMAIN bs : 0 + i = i
  BY BlocksType
<1> QED BY <1>1 DEF TagAll, Unsent

-----------------------------------------------------------------------------
(* The line to the modem *)

\* The place behind the k-th event.
Past(a, eb, k) == a[k] + Len(Text(eb[k]))

\* H is all the modem ever sent.  Event k stands in it from place a[k] on, in
\* one piece, and everything else is an answer.
History(H, n, a, eb) ==
  /\ H \in Seq(Letter) /\ n \in Nat
  /\ \A k \in 1 .. n : a[k] \in Nat \ {0} /\ eb[k] \in EventBlocks /\ a[k] <= Len(H) + 1
  /\ \A k, l \in 1 .. n : k < l => Past(a, eb, k) <= a[l]
  /\ \A k \in 1 .. n : \A i \in a[k] .. Past(a, eb, k) - 1 :
       i <= Len(H) => H[i] = Said(eb[k], i - a[k] + 1, 0)
  /\ \A i \in 1 .. Len(H) : H[i].of = 0 => \E k \in 1 .. n : i \in a[k] .. Past(a, eb, k) - 1

\* What is pending is what is missing of the last event.
OnTheWay(H, n, a, eb, pe) ==
  \/ pe = <<>> /\ \A k \in 1 .. n : Past(a, eb, k) <= Len(H) + 1
  \/ /\ n >= 1 /\ \A k \in 1 .. n - 1 : Past(a, eb, k) <= Len(H) + 1
     /\ \E b \in 0 .. Len(eb[n]) - 1 : /\ pe = Unsent(eb[n], b, 0)
                                       /\ Len(H) + 1 = a[n] + Ends(eb[n])[b]

\* The first m blocks of the answer bs have been sent, lexeme q of it to place
\* loc[q]; it is read as far as at, and the history as far as z.  What else is
\* unread means nothing to any wait.
Answering(H, z, ow, c, bs, at, m, loc) ==
  /\ m \in 0 .. Len(bs) /\ ow = Unsent(bs, m, c) /\ at \in 0 .. Ends(bs)[m]
  /\ c \in Nat /\ (bs # <<>> => c # 0)
  /\ \A q \in 1 .. Ends(bs)[m] : /\ loc[q] \in 1 .. Len(H) /\ H[loc[q]] = Said(bs, q, c)
                                 /\ loc[q] <= z <=> q <= at
  /\ \A q, r \in 1 .. Ends(bs)[m] : q < r => loc[q] < loc[r]
  /\ \A b \in 1 .. m : \A q, r \in Ends(bs)[b - 1] + 1 .. Ends(bs)[b] : loc[r] = loc[q] + (r - q)
  /\ \A i \in z + 1 .. Len(H) : H[i].of # 0 =>
       H[i].s \notin Awaited \cup EventHeads \/ \E q \in 1 .. Ends(bs)[m] : loc[q] = i

\* An event not read yet cuts the answer between two blocks.
CutBetween(z, n, a, bs, m, loc, cut) ==
  \A k \in 1 .. n : a[k] > z =>
    /\ cut[k] \in 0 .. Ends(bs)[m] /\ Cut(bs, cut[k])
    /\ \A q \in 1 .. Ends(bs)[m] : loc[q] < a[k] <=> q <= cut[k]

\* A function is reading outside all events, a handler is in its own.
Where(z, n, a, eb, own) ==
  IF own = <<>> THEN \A k \in 1 .. n : a[k] > z \/ Past(a, eb, k) <= z + 1
  ELSE \E k \in 1 .. n : /\ eb[k] = own[1].blocks
                         /\ z = a[k] - 1 + own[1].at /\ own[1].at \in 1 .. Len(Text(eb[k]))

\* u is the history from place z on.
Reads(u, H, z) == /\ u \in Seq(Letter) /\ H \in Seq(Letter)
                  /\ z \in Nat /\ Len(H) = z + Len(u) /\ \A i \in 1 .. Len(u) : u[i] = H[z + i]

\* The UART, what is owed and pending, and how far the answer of the innermost
\* function is read, and the event of the handler inside it, if there is one.
OnLine(u, ow, pe, c, bs, at, own) ==
  /\ bs \in AnswerBlocks
  /\ \E H, z, n, a, eb, cut, m, loc :
       /\ Reads(u, H, z) /\ History(H, n, a, eb) /\ OnTheWay(H, n, a, eb, pe)
       /\ Answering(H, z, ow, c, bs, at, m, loc)
       /\ CutBetween(z, n, a, bs, m, loc, cut) /\ Where(z, n, a, eb, own)

-----------------------------------------------------------------------------
(* The modem sends *)

LEMMA EventFacts ==
  ASSUME NEW H, NEW n, NEW a, NEW eb, History(H, n, a, eb), NEW k \in 1 .. n
  PROVE  /\ eb[k] \in EventBlocks /\ eb[k] \in AllBlocks
         /\ a[k] \in Nat \ {0} /\ a[k] <= Len(H) + 1
         /\ Len(Text(eb[k])) \in Nat \ {0} /\ Past(a, eb, k) = a[k] + Len(Text(eb[k]))
         /\ Past(a, eb, k) \in Nat /\ Len(eb[k]) \in Nat \ {0}
         /\ Ends(eb[k])[0] = 0 /\ Ends(eb[k])[Len(eb[k])] = Len(Text(eb[k]))
<1>1. /\ eb[k] \in EventBlocks /\ eb[k] \in AllBlocks /\ a[k] \in Nat \ {0} /\ a[k] <= Len(H) + 1
  BY DEF History, AllBlocks
<1>2. eb[k] \in Seq(Block) \ {<<>>}
  BY <1>1, BlocksAssumption DEF EventBlocks
<1>3. Len(eb[k]) \in Nat \ {0}
  BY <1>2, LenProperties
<1>4. Ends(eb[k])[0] = 0 /\ Ends(eb[k])[Len(eb[k])] = Len(Text(eb[k])) /\ Len(Text(eb[k])) \in Nat
  BY <1>1, TextType
<1>5. Ends(eb[k])[0] < Ends(eb[k])[Len(eb[k])]
  BY <1>1, <1>3, TextType
<1> QED BY <1>1, <1>3, <1>4, <1>5 DEF Past

\* More is sent: what was there stays where it is.
LEMMA MoreReads ==
  ASSUME NEW u, NEW H, NEW z, Reads(u, H, z), NEW w \in Seq(Letter)
  PROVE  /\ Reads(u \o w, H \o w, z)
         /\ Len(H \o w) = Len(H) + Len(w) /\ Len(H) \in Nat /\ Len(w) \in Nat
         /\ \A i \in 1 .. Len(H) : (H \o w)[i] = H[i]
         /\ \A i \in 1 .. Len(w) : (H \o w)[Len(H) + i] = w[i]
<1>1. /\ u \in Seq(Letter) /\ H \in Seq(Letter) /\ z \in Nat /\ Len(H) = z + Len(u)
      /\ \A i \in 1 .. Len(u) : u[i] = H[z + i]
  BY DEF Reads
<1> DEFINE x == u \o w
           y == H \o w
<1>2. /\ Len(u) \in Nat /\ Len(H) \in Nat /\ Len(w) \in Nat
      /\ x \in Seq(Letter) /\ Len(x) = Len(u) + Len(w)
      /\ y \in Seq(Letter) /\ Len(y) = Len(H) + Len(w)
  BY <1>1, ConcatProperties, LenProperties
<1>3. \A i \in 1 .. Len(H) + Len(w) : y[i] = IF i <= Len(H) THEN H[i] ELSE w[i - Len(H)]
  BY <1>1, ConcatProperties
<1>4. \A i \in 1 .. Len(u) + Len(w) : x[i] = IF i <= Len(u) THEN u[i] ELSE w[i - Len(u)]
  BY <1>1, ConcatProperties
<1> HIDE DEF x, y
<1>5. \A i \in 1 .. Len(u) + Len(w) : x[i] = y[z + i]
  <2> SUFFICES ASSUME NEW i \in 1 .. Len(u) + Len(w) PROVE x[i] = y[z + i]
    OBVIOUS
  <2>1. /\ z + i \in 1 .. Len(H) + Len(w)
        /\ i <= Len(u) <=> z + i <= Len(H)
        /\ i <= Len(u) => i \in 1 .. Len(u)
        /\ z + i - Len(H) = i - Len(u)
    BY <1>1, <1>2
  <2>2. x[i] = IF i <= Len(u) THEN u[i] ELSE w[i - Len(u)]
    BY <1>4
  <2>3. y[z + i] = IF z + i <= Len(H) THEN H[z + i] ELSE w[z + i - Len(H)]
    BY <1>1, <1>2, <1>3, <2>1
  <2> QED BY <1>1, <2>1, <2>2, <2>3
<1>6. Len(y) = z + Len(x) /\ Len(x) = Len(u) + Len(w)
  BY <1>1, <1>2
<1>7. Reads(x, y, z)
  BY <1>1, <1>2, <1>5, <1>6 DEF Reads
<1>8. \A i \in 1 .. Len(H) : y[i] = H[i]
  BY <1>2, <1>3
<1>9. \A i \in 1 .. Len(w) : y[Len(H) + i] = w[i]
  <2> SUFFICES ASSUME NEW i \in 1 .. Len(w) PROVE y[Len(H) + i] = w[i]
    OBVIOUS
  <2>1. Len(H) + i \in 1 .. Len(H) + Len(w) /\ ~(Len(H) + i <= Len(H)) /\ Len(H) + i - Len(H) = i
    BY <1>2
  <2> QED BY <1>3, <2>1
<1> QED BY <1>2, <1>7, <1>8, <1>9 DEF x, y

\* How much of an event has come: whole blocks, all of them if nothing is
\* pending.
ComeTo(H, n, a, eb, pe, k, b) ==
  /\ a[k] + Ends(eb[k])[b] <= Len(H) + 1
  /\ b < Len(eb[k]) => /\ k = n /\ pe = Unsent(eb[k], b, 0) /\ pe # <<>>
                       /\ Len(H) + 1 = a[k] + Ends(eb[k])[b]

LEMMA Arrived ==
  ASSUME NEW H \in Seq(Letter), NEW n, NEW a, NEW eb, NEW pe, History(H, n, a, eb),
         OnTheWay(H, n, a, eb, pe), NEW k \in 1 .. n
  PROVE  \E b \in 0 .. Len(eb[k]) : ComeTo(H, n, a, eb, pe, k, b)
<1>1. /\ n \in Nat /\ Len(eb[k]) \in Nat /\ eb[k] \in AllBlocks
      /\ Past(a, eb, k) = a[k] + Ends(eb[k])[Len(eb[k])]
  <2>1. n \in Nat
    BY DEF History
  <2>2. Len(eb[k]) \in Nat /\ eb[k] \in AllBlocks
    BY EventFacts
  <2>3. Ends(eb[k])[Len(eb[k])] = Len(Text(eb[k]))
    BY EventFacts
  <2> QED BY <2>1, <2>2, <2>3 DEF Past
<1>2. CASE Past(a, eb, k) <= Len(H) + 1
  <2>1. Len(eb[k]) \in 0 .. Len(eb[k]) /\ ~(Len(eb[k]) < Len(eb[k]))
    BY <1>1
  <2> QED BY <1>1, <1>2, <2>1 DEF ComeTo
<1>3. CASE ~(Past(a, eb, k) <= Len(H) + 1)
  <2>1. /\ n >= 1 /\ \A i \in 1 .. n - 1 : Past(a, eb, i) <= Len(H) + 1
        /\ \E b \in 0 .. Len(eb[n]) - 1 : /\ pe = Unsent(eb[n], b, 0)
                                          /\ Len(H) + 1 = a[n] + Ends(eb[n])[b]
    BY <1>3 DEF OnTheWay
  <2>2. k = n
    BY <1>1, <1>3, <2>1
  <2>3. PICK b \in 0 .. Len(eb[k]) - 1 : /\ pe = Unsent(eb[k], b, 0)
                                         /\ Len(H) + 1 = a[k] + Ends(eb[k])[b]
    BY <2>1, <2>2
  <2>4. b \in 0 .. Len(eb[k]) /\ b # Len(eb[k]) /\ b < Len(eb[k])
    BY <1>1
  <2>5. pe # <<>>
    BY <1>1, <2>3, <2>4, UnsentParts
  <2>6. a[k] + Ends(eb[k])[b] <= Len(H) + 1
    <3>1. Len(H) \in Nat
      BY LenProperties
    <3> QED BY <2>3, <3>1
  <2> QED BY <2>2, <2>3, <2>4, <2>5, <2>6 DEF ComeTo
<1> QED BY <1>2, <1>3

LEMMA AllArrived ==
  ASSUME NEW H \in Seq(Letter), NEW n, NEW a, NEW eb, History(H, n, a, eb),
         OnTheWay(H, n, a, eb, <<>>), NEW k \in 1 .. n
  PROVE  Past(a, eb, k) <= Len(H) + 1 /\ a[k] <= Len(H)
<1>1. PICK b \in 0 .. Len(eb[k]) : a[k] + Ends(eb[k])[b] <= Len(H) + 1 /\ ~(b < Len(eb[k]))
  <2>1. PICK b \in 0 .. Len(eb[k]) : ComeTo(H, n, a, eb, <<>>, k, b)
    BY Arrived
  <2> QED BY <2>1 DEF ComeTo
<1>2. /\ Len(eb[k]) \in Nat /\ Ends(eb[k])[Len(eb[k])] = Len(Text(eb[k]))
      /\ a[k] \in Nat /\ Len(Text(eb[k])) \in Nat \ {0}
  BY EventFacts
<1>3. b = Len(eb[k])
  BY <1>1, <1>2
<1>4. Past(a, eb, k) <= Len(H) + 1
  BY <1>1, <1>2, <1>3 DEF Past
<1>5. Len(H) \in Nat
  BY LenProperties
<1> QED BY <1>2, <1>4, <1>5 DEF Past

\* An answer goes behind the events that have come.
LEMMA AnswerInHistory ==
  ASSUME NEW u, NEW H, NEW z, Reads(u, H, z), NEW n, NEW a, NEW eb, History(H, n, a, eb),
         OnTheWay(H, n, a, eb, <<>>), NEW w \in Seq(Letter), \A i \in 1 .. Len(w) : w[i].of # 0
  PROVE  History(H \o w, n, a, eb) /\ OnTheWay(H \o w, n, a, eb, <<>>)
<1> DEFINE y == H \o w
<1>1. /\ y \in Seq(Letter) /\ Len(y) = Len(H) + Len(w) /\ Len(H) \in Nat /\ Len(w) \in Nat
      /\ \A i \in 1 .. Len(H) : y[i] = H[i]
      /\ \A i \in 1 .. Len(w) : y[Len(H) + i] = w[i]
  <2>1. y \in Seq(Letter)
    BY ConcatProperties DEF Reads
  <2> QED BY <2>1, MoreReads
<1> HIDE DEF y
<1>2. \A k \in 1 .. n : Past(a, eb, k) <= Len(H) + 1
  BY AllArrived DEF Reads
<1>3. \A k \in 1 .. n : Past(a, eb, k) <= Len(y) + 1 /\ a[k] <= Len(y) + 1
  BY <1>1, <1>2, EventFacts
<1>4. ASSUME NEW k \in 1 .. n, NEW i \in a[k] .. Past(a, eb, k) - 1
      PROVE  y[i] = Said(eb[k], i - a[k] + 1, 0)
  <2>1. i \in 1 .. Len(H)
    BY <1>1, <1>2, <1>4, EventFacts
  <2>2. H[i] = Said(eb[k], i - a[k] + 1, 0)
    BY <1>4, <2>1 DEF History
  <2> QED BY <1>1, <2>1, <2>2
<1>5. ASSUME NEW i \in 1 .. Len(y), y[i].of = 0
      PROVE  \E k \in 1 .. n : i \in a[k] .. Past(a, eb, k) - 1
  <2>1. CASE i <= Len(H)
    <3>1. i \in 1 .. Len(H) /\ H[i].of = 0
      BY <1>1, <1>5, <2>1
    <3> QED BY <3>1 DEF History
  <2>2. CASE i > Len(H)
    <3>1. i - Len(H) \in 1 .. Len(w) /\ Len(H) + (i - Len(H)) = i
      BY <1>1, <2>2
    <3>2. y[i] = w[i - Len(H)]
      BY <1>1, <3>1
    <3>3. w[i - Len(H)].of # 0
      BY <3>1
    <3> QED BY <1>5, <3>2, <3>3
  <2> QED BY <1>1, <1>5, <2>1, <2>2
<1>6. History(y, n, a, eb)
  BY <1>1, <1>3, <1>4, <1>5 DEF History
<1>7. OnTheWay(y, n, a, eb, <<>>)
  BY <1>3 DEF OnTheWay
<1> QED BY <1>6, <1>7 DEF y

\* The next block of the answer.
LEMMA NextBlock ==
  ASSUME NEW bs \in AllBlocks, NEW m \in 0 .. Len(bs), NEW c \in Nat, Unsent(bs, m, c) # <<>>
  PROVE  LET w == Head(Unsent(bs, m, c))
             lo == Ends(bs)[m]
             hi == Ends(bs)[m + 1]
         IN  /\ m + 1 \in 0 .. Len(bs) /\ Tail(Unsent(bs, m, c)) = Unsent(bs, m + 1, c)
             /\ w \in Seq(Letter) /\ lo \in Nat /\ hi \in Nat /\ lo < hi /\ Len(w) = hi - lo
             /\ \A i \in 1 .. Len(w) : w[i] = Said(bs, lo + i, c) /\ lo + i \in 1 .. Len(Text(bs))
<1> DEFINE lo == Ends(bs)[m]
           hi == Ends(bs)[m + 1]
           w == Head(Unsent(bs, m, c))
<1>1. /\ m + 1 \in 1 .. Len(bs) /\ m + 1 \in 0 .. Len(bs) /\ m < Len(bs)
      /\ w = Tag(bs[m + 1], c) /\ Tail(Unsent(bs, m, c)) = Unsent(bs, m + 1, c)
  BY UnsentParts, BlocksType
<1>2. m + 1 - 1 = m
  BY BlocksType
<1>3. w \in Seq(Letter)
  BY <1>1, BlockType
<1>4. /\ Len(w) = hi - lo /\ \A i \in 1 .. hi - lo : w[i] = Said(bs, lo + i, c)
  <2> DEFINE b == m + 1
  <2>1. b \in 1 .. Len(bs) /\ b - 1 = m /\ w = Tag(bs[b], c)
    BY <1>1, <1>2
  <2> HIDE DEF b, w
  <2>2. /\ Len(Tag(bs[b], c)) = Ends(bs)[b] - Ends(bs)[b - 1]
        /\ \A i \in 1 .. Ends(bs)[b] - Ends(bs)[b - 1] :
             Tag(bs[b], c)[i] = Said(bs, Ends(bs)[b - 1] + i, c)
    BY <2>1, BlockText
  <2> QED BY <2>1, <2>2 DEF b
<1>5. lo \in Nat /\ hi \in Nat /\ lo < hi /\ hi <= Len(Text(bs)) /\ Len(Text(bs)) \in Nat
  BY <1>1, <1>2, TextType, BlockText
<1> HIDE DEF w, lo, hi
<1>6. \A i \in 1 .. Len(w) : w[i] = Said(bs, lo + i, c) /\ lo + i \in 1 .. Len(Text(bs))
  BY <1>4, <1>5
<1> QED BY <1>1, <1>3, <1>4, <1>5, <1>6 DEF w, lo, hi

LEMMA AnswerBounds ==
  ASSUME NEW H \in Seq(Letter), NEW z \in Nat, NEW ow, NEW c, NEW bs \in AnswerBlocks, NEW at,
         NEW m, NEW loc, Answering(H, z, ow, c, bs, at, m, loc)
  PROVE  /\ bs \in AllBlocks /\ m \in 0 .. Len(bs) /\ m \in Nat /\ c \in Nat /\ Len(bs) \in Nat
         /\ Ends(bs)[m] \in Nat /\ Ends(bs)[m] <= Len(Text(bs)) /\ Len(Text(bs)) \in Nat
         /\ at \in Nat /\ at <= Ends(bs)[m] /\ ow = Unsent(bs, m, c) /\ Len(H) \in Nat
<1>1. bs \in AllBlocks /\ m \in 0 .. Len(bs) /\ c \in Nat /\ Len(bs) \in Nat /\ Len(H) \in Nat
  BY BlocksType DEF Answering, AllBlocks
<1>2. Ends(bs)[m] \in Nat /\ Ends(bs)[m] <= Len(Text(bs)) /\ Len(Text(bs)) \in Nat
  BY <1>1, TextType
<1>3. at \in Nat /\ at <= Ends(bs)[m] /\ ow = Unsent(bs, m, c)
  BY <1>1, <1>2 DEF Answering
<1>4. m \in Nat
  BY <1>1
<1> QED BY <1>1, <1>2, <1>3, <1>4

\* Lexeme q of the answer, in its place.
LexemeAt(H, z, c, bs, at, loc, q) ==
  /\ q \in 1 .. Len(Text(bs)) /\ loc[q] \in 1 .. Len(H) /\ H[loc[q]] = Said(bs, q, c)
  /\ H[loc[q]].of = c /\ c # 0 /\ H[loc[q]].s = Text(bs)[q].s
  /\ H[loc[q]].s \notin EventHeads
  /\ loc[q] <= z <=> q <= at

LEMMA AnswerFacts ==
  ASSUME NEW H \in Seq(Letter), NEW z \in Nat, NEW ow, NEW c, NEW bs \in AnswerBlocks, NEW at,
         NEW m, NEW loc, Answering(H, z, ow, c, bs, at, m, loc), NEW q \in 1 .. Ends(bs)[m]
  PROVE  LexemeAt(H, z, c, bs, at, loc, q)
<1>1. bs \in AllBlocks /\ m \in 0 .. Len(bs) /\ c \in Nat /\ Len(bs) \in Nat
  BY AnswerBounds
<1>2. Ends(bs)[m] \in Nat /\ Ends(bs)[m] <= Len(Text(bs)) /\ Len(Text(bs)) \in Nat
  BY AnswerBounds
<1>3. q \in 1 .. Len(Text(bs))
  BY <1>2
<1>4. loc[q] \in 1 .. Len(H) /\ H[loc[q]] = Said(bs, q, c) /\ (loc[q] <= z <=> q <= at)
  BY DEF Answering
<1>5. Said(bs, q, c).of = c /\ Said(bs, q, c).s = Text(bs)[q].s
  BY <1>1, <1>3, SaidType
<1>6. Text(bs)[q].s \notin EventHeads
  BY <1>3, HeadsAssumption
<1>7. bs # <<>>
  <2>1. ASSUME bs = <<>> PROVE FALSE
    <3>1. Len(bs) = 0 /\ m = 0
      BY <1>1, <2>1
    <3>2. Ends(bs)[m] = 0
      BY <1>1, <3>1, TextType
    <3> QED BY <3>2
  <2> QED BY <2>1
<1>8. c # 0
  BY <1>7 DEF Answering
<1> QED BY <1>3, <1>4, <1>5, <1>6, <1>8 DEF LexemeAt

\* Where the answer's lexemes are when its next block has come behind H.
NextLoc(H, bs, m, loc) ==
  [q \in 1 .. Ends(bs)[m + 1] |->
     IF q <= Ends(bs)[m] THEN loc[q] ELSE Len(H) + (q - Ends(bs)[m])]

\* From lo to hi: new places behind l, and the old ones as they were.
Grows(lo, hi, l, old, new) ==
  /\ lo < hi /\ lo \in Nat /\ hi \in Nat
  /\ \A q \in 1 .. lo : new[q] = old[q]
  /\ \A q \in 1 .. hi : q > lo => new[q] > l /\ new[q] \in Nat

LEMMA AnswerGoesOn ==
  ASSUME NEW u, NEW H, NEW z, Reads(u, H, z), NEW ow, NEW c, NEW bs \in AnswerBlocks, NEW at,
         NEW m \in Nat, NEW loc, Answering(H, z, ow, c, bs, at, m, loc), ow # <<>>
  PROVE  LET w == Head(ow)
             loc2 == NextLoc(H, bs, m, loc)
         IN  /\ w \in Seq(Letter) /\ \A i \in 1 .. Len(w) : w[i].of # 0
             /\ Answering(H \o w, z, Tail(ow), c, bs, at, m + 1, loc2)
             /\ Grows(Ends(bs)[m], Ends(bs)[m + 1], Len(H), loc, loc2)
<1> DEFINE w == Head(ow)
           lo == Ends(bs)[m]
           hi == Ends(bs)[m + 1]
           loc2 == NextLoc(H, bs, m, loc)
           y == H \o w
<1>1. /\ H \in Seq(Letter) /\ z \in Nat /\ z <= Len(H)
  BY LenProperties DEF Reads
<1>2. /\ bs \in AllBlocks /\ m \in 0 .. Len(bs) /\ m \in Nat /\ c \in Nat /\ Len(bs) \in Nat
      /\ lo <= Len(Text(bs)) /\ Len(Text(bs)) \in Nat
      /\ at \in Nat /\ at <= lo /\ ow = Unsent(bs, m, c) /\ Len(H) \in Nat
  BY <1>1, AnswerBounds
<1>3. /\ m + 1 \in 0 .. Len(bs) /\ Tail(ow) = Unsent(bs, m + 1, c)
      /\ w \in Seq(Letter) /\ lo \in Nat /\ hi \in Nat /\ lo < hi /\ Len(w) = hi - lo
      /\ \A i \in 1 .. Len(w) : w[i] = Said(bs, lo + i, c) /\ lo + i \in 1 .. Len(Text(bs))
  BY <1>2, NextBlock
<1>4. /\ Len(y) = Len(H) + Len(w) /\ Len(w) \in Nat
      /\ \A i \in 1 .. Len(H) : y[i] = H[i]
      /\ \A i \in 1 .. Len(w) : y[Len(H) + i] = w[i]
  <2>1. w \in Seq(Letter)
    BY <1>3
  <2> HIDE DEF w
  <2> QED BY <2>1, MoreReads
<1>5. bs # <<>> /\ c # 0
  <2>1. bs # <<>>
    BY <1>2, <1>3
  <2> QED BY <2>1 DEF Answering
<1>6. \A q \in 1 .. lo : loc[q] \in 1 .. Len(H) /\ H[loc[q]] = Said(bs, q, c) /\ (loc[q] <= z <=> q <= at)
  <2> HIDE DEF lo
  <2> SUFFICES ASSUME NEW q \in 1 .. lo PROVE LexemeAt(H, z, c, bs, at, loc, q)
    BY DEF LexemeAt
  <2> QED BY <1>1, AnswerFacts DEF lo
<1>7. \A q, r \in 1 .. lo : q < r => loc[q] < loc[r]
  BY DEF Answering
<1>8. /\ \A q \in 1 .. lo : q \in 1 .. hi /\ loc2[q] = loc[q]
      /\ \A q \in 1 .. hi : q > lo => /\ loc2[q] = Len(H) + (q - lo)
                                      /\ q - lo \in 1 .. Len(w) /\ lo + (q - lo) = q
                                      /\ Len(H) + (q - lo) \in Nat /\ Len(H) + (q - lo) > Len(H)
                                      /\ Len(H) + (q - lo) <= Len(H) + Len(w)
  <2>0. loc2 = [q \in 1 .. hi |-> IF q <= lo THEN loc[q] ELSE Len(H) + (q - lo)]
    BY DEF NextLoc
  <2> HIDE DEF lo, hi, w, loc2
  <2>1. \A q \in 1 .. lo : q \in 1 .. hi /\ q <= lo
    BY <1>3
  <2>2. ASSUME NEW q \in 1 .. hi, q > lo
        PROVE  /\ ~(q <= lo) /\ q - lo \in 1 .. Len(w) /\ lo + (q - lo) = q
               /\ Len(H) + (q - lo) \in Nat /\ Len(H) + (q - lo) > Len(H)
               /\ Len(H) + (q - lo) <= Len(H) + Len(w)
    <3>1. q \in Nat /\ q <= hi /\ lo \in Nat /\ hi \in Nat /\ Len(w) = hi - lo /\ Len(H) \in Nat
      BY <1>2, <1>3, <2>2
    <3> QED BY <2>2, <3>1
  <2> QED BY <2>0, <2>1, <2>2
<1>9. \A i \in 1 .. Len(w) : w[i].of # 0
  <2> HIDE DEF lo, w
  <2> SUFFICES ASSUME NEW i \in 1 .. Len(w) PROVE w[i].of # 0
    OBVIOUS
  <2> DEFINE q == lo + i
  <2>1. q \in 1 .. Len(Text(bs)) /\ w[i] = Said(bs, q, c)
    BY <1>3
  <2> HIDE DEF q
  <2>2. Said(bs, q, c).of = c
    BY <1>2, <2>1, SaidType
  <2> QED BY <1>5, <2>1, <2>2
<1> HIDE DEF w, lo, hi, loc2, y
<1>0. /\ lo \in Nat /\ hi \in Nat /\ lo < hi /\ Len(w) = hi - lo /\ Len(w) \in Nat
      /\ Len(H) \in Nat /\ Len(y) = Len(H) + Len(w) /\ z \in Nat /\ z <= Len(H)
      /\ at \in Nat /\ at <= lo
  BY <1>1, <1>2, <1>3, <1>4
<1>10. ASSUME NEW q \in 1 .. hi
       PROVE  loc2[q] \in 1 .. Len(y) /\ y[loc2[q]] = Said(bs, q, c) /\ (loc2[q] <= z <=> q <= at)
  <2>1. CASE q <= lo
    <3>1. q \in 1 .. lo
      BY <1>3, <2>1
    <3>2. loc2[q] = loc[q] /\ loc[q] \in 1 .. Len(H)
      BY <1>6, <1>8, <3>1
    <3>3. y[loc[q]] = H[loc[q]]
      BY <1>4, <3>2
    <3>4. loc[q] \in 1 .. Len(y)
      BY <1>2, <1>4, <3>2
    <3> QED BY <1>6, <3>1, <3>2, <3>3, <3>4
  <2>2. CASE q > lo
    <3> DEFINE i == q - lo
    <3>1. loc2[q] = Len(H) + i /\ i \in 1 .. Len(w) /\ lo + i = q /\ Len(H) + i > Len(H)
          /\ Len(H) + i <= Len(H) + Len(w) /\ Len(H) + i \in Nat
      BY <1>8, <2>2
    <3> HIDE DEF i
    <3>2. y[Len(H) + i] = Said(bs, q, c)
      BY <1>3, <1>4, <3>1
    <3>3. loc2[q] \in 1 .. Len(y) /\ ~(loc2[q] <= z) /\ ~(q <= at)
      BY <1>0, <2>2, <3>1
    <3> QED BY <3>1, <3>2, <3>3
  <2> QED BY <1>3, <2>1, <2>2
<1>11. ASSUME NEW q \in 1 .. hi, NEW r \in 1 .. hi, q < r PROVE loc2[q] < loc2[r]
  <2>1. CASE r <= lo
    <3>1. q \in 1 .. lo /\ r \in 1 .. lo
      BY <1>3, <1>11, <2>1
    <3> QED BY <1>7, <1>8, <1>11, <3>1
  <2>2. CASE q <= lo /\ r > lo
    <3>1. q \in 1 .. lo
      BY <1>3, <2>2
    <3>2. loc2[q] \in 1 .. Len(H) /\ loc2[r] > Len(H) /\ loc2[r] \in Nat
      BY <1>6, <1>8, <2>2, <3>1
    <3> QED BY <1>2, <3>2
  <2>3. CASE q > lo
    <3>1. r > lo
      BY <1>3, <1>11, <2>3
    <3>2. loc2[q] = Len(H) + (q - lo) /\ loc2[r] = Len(H) + (r - lo)
      BY <1>8, <2>3, <3>1
    <3> QED BY <1>2, <1>3, <1>11, <3>2
  <2> QED BY <1>3, <2>1, <2>2, <2>3
<1>12. ASSUME NEW b \in 1 .. m + 1, NEW q \in Ends(bs)[b - 1] + 1 .. Ends(bs)[b],
              NEW r \in Ends(bs)[b - 1] + 1 .. Ends(bs)[b]
       PROVE  loc2[r] = loc2[q] + (r - q)
  <2>0. b - 1 \in 0 .. Len(bs) /\ b \in 0 .. Len(bs)
    BY <1>2, <1>3, <1>12
  <2>1. Ends(bs)[b - 1] \in Nat /\ Ends(bs)[b] \in Nat
    BY <1>2, <2>0, TextType
  <2>2. CASE b = m + 1
    <3>1. Ends(bs)[b - 1] = lo /\ Ends(bs)[b] = hi
      <4>1. b - 1 = m
        BY <1>2, <2>2
      <4> QED BY <2>2, <4>1 DEF lo, hi
    <3>2. q \in 1 .. hi /\ q > lo /\ r \in 1 .. hi /\ r > lo
      BY <1>3, <1>12, <3>1
    <3>3. loc2[q] = Len(H) + (q - lo) /\ loc2[r] = Len(H) + (r - lo)
      BY <1>8, <3>2
    <3> QED BY <1>2, <1>3, <3>2, <3>3
  <2>3. CASE b <= m
    <3>1. b \in 1 .. m /\ b \in 0 .. Len(bs)
      BY <1>2, <1>12, <2>3
    <3>2. Ends(bs)[b] <= lo
      BY <1>2, <2>3, <3>1, EndsOrder DEF lo
    <3> DEFINE x == Ends(bs)[b - 1]
               v == Ends(bs)[b]
    <3>6. x \in Nat /\ v \in Nat /\ v <= lo /\ q \in x + 1 .. v /\ r \in x + 1 .. v
      BY <1>12, <2>1, <3>2
    <3> HIDE DEF x, v
    <3>3. q \in 1 .. lo /\ r \in 1 .. lo
      BY <1>0, <3>6
    <3>4. loc[r] = loc[q] + (r - q)
      BY <1>12, <3>1 DEF Answering
    <3>5. loc2[r] = loc[r] /\ loc2[q] = loc[q]
      BY <1>8, <3>3
    <3> QED BY <3>4, <3>5
  <2> QED BY <1>2, <1>12, <2>2, <2>3
<1>13. ASSUME NEW i \in z + 1 .. Len(y), y[i].of # 0
       PROVE  y[i].s \notin Awaited \cup EventHeads \/ \E q \in 1 .. hi : loc2[q] = i
  <2>1. CASE i <= Len(H)
    <3>1. i \in z + 1 .. Len(H) /\ i \in 1 .. Len(H)
      BY <1>1, <1>2, <1>13, <2>1
    <3>2. y[i] = H[i]
      BY <1>4, <3>1
    <3>3. H[i].s \notin Awaited \cup EventHeads \/ \E q \in 1 .. lo : loc[q] = i
      BY <1>13, <3>1, <3>2 DEF Answering, lo
    <3> QED BY <1>8, <3>2, <3>3
  <2>2. CASE i > Len(H)
    <3> DEFINE q == lo + (i - Len(H))
    <3>0. i \in Nat /\ i <= Len(y)
      BY <1>0, <1>13
    <3>1. q \in 1 .. hi /\ q > lo /\ Len(H) + (q - lo) = i
      BY <1>0, <2>2, <3>0
    <3>2. loc2[q] = i
      BY <1>8, <3>1
    <3> QED BY <3>1, <3>2
  <2> QED BY <1>1, <1>2, <1>13, <2>1, <2>2
<1>14. at \in 0 .. hi
  BY <1>2, <1>3
<1>15. Answering(y, z, Tail(ow), c, bs, at, m + 1, loc2)
  BY <1>2, <1>3, <1>5, <1>10, <1>11, <1>12, <1>13, <1>14 DEF Answering, hi
<1>16. Grows(lo, hi, Len(H), loc, loc2)
  BY <1>0, <1>8 DEF Grows
<1>17. w \in Seq(Letter) /\ \A i \in 1 .. Len(w) : w[i].of # 0
  BY <1>3, <1>9
<1> QED BY <1>15, <1>16, <1>17 DEF w, lo, hi, loc2, y

\* The next block of an answer comes: never inside an event.
LEMMA LineAnswer ==
  ASSUME NEW u, NEW ow, NEW c, NEW bs, NEW at, NEW own,
         OnLine(u, ow, <<>>, c, bs, at, own), ow # <<>>
  PROVE  OnLine(u \o Head(ow), Tail(ow), <<>>, c, bs, at, own)
<1>1. PICK H, z, n, a, eb, cut, m, loc :
        /\ Reads(u, H, z) /\ History(H, n, a, eb) /\ OnTheWay(H, n, a, eb, <<>>)
        /\ Answering(H, z, ow, c, bs, at, m, loc)
        /\ CutBetween(z, n, a, bs, m, loc, cut) /\ Where(z, n, a, eb, own)
  BY DEF OnLine
<1>2. bs \in AnswerBlocks
  BY DEF OnLine
<1> DEFINE w == Head(ow)
           lo == Ends(bs)[m]
           hi == Ends(bs)[m + 1]
           loc2 == NextLoc(H, bs, m, loc)
<1>3. /\ w \in Seq(Letter) /\ \A i \in 1 .. Len(w) : w[i].of # 0
      /\ Answering(H \o w, z, Tail(ow), c, bs, at, m + 1, loc2)
      /\ lo < hi /\ lo \in Nat /\ hi \in Nat
      /\ \A q \in 1 .. lo : loc2[q] = loc[q]
      /\ \A q \in 1 .. hi : q > lo => loc2[q] > Len(H) /\ loc2[q] \in Nat
  <2>1. Reads(u, H, z) /\ Answering(H, z, ow, c, bs, at, m, loc) /\ ow # <<>> /\ m \in Nat
    BY <1>1, <1>2, AnswerBounds DEF Reads
  <2>2. /\ w \in Seq(Letter) /\ \A i \in 1 .. Len(w) : w[i].of # 0
        /\ Answering(H \o w, z, Tail(ow), c, bs, at, m + 1, loc2)
        /\ Grows(lo, hi, Len(H), loc, loc2)
    BY <2>1, <1>2, AnswerGoesOn
  <2> HIDE DEF w, lo, hi, loc2
  <2> QED BY <2>2 DEF Grows
<1> HIDE DEF w, lo, hi, loc2
<1>4. History(H \o w, n, a, eb) /\ OnTheWay(H \o w, n, a, eb, <<>>)
  BY <1>1, <1>3, AnswerInHistory
<1>5. Reads(u \o w, H \o w, z)
  BY <1>1, <1>3, MoreReads
<1>6. CutBetween(z, n, a, bs, m + 1, loc2, cut)
  <2> SUFFICES ASSUME NEW k \in 1 .. n, a[k] > z
               PROVE  /\ cut[k] \in 0 .. hi /\ Cut(bs, cut[k])
                      /\ \A q \in 1 .. hi : loc2[q] < a[k] <=> q <= cut[k]
    BY DEF CutBetween, hi
  <2>1. /\ cut[k] \in 0 .. lo /\ Cut(bs, cut[k])
        /\ \A q \in 1 .. lo : loc[q] < a[k] <=> q <= cut[k]
    BY <1>1 DEF CutBetween, lo
  <2>2. a[k] \in Nat /\ a[k] <= Len(H) /\ Len(H) \in Nat
    <3>1. a[k] \in Nat /\ a[k] <= Len(H)
      BY <1>1, EventFacts, AllArrived DEF Reads
    <3> QED BY <1>1, <3>1, LenProperties DEF Reads
  <2>3. cut[k] \in 0 .. hi
    BY <1>3, <2>1
  <2>4. ASSUME NEW q \in 1 .. hi PROVE loc2[q] < a[k] <=> q <= cut[k]
    <3>1. CASE q <= lo
      <4>1. q \in 1 .. lo
        BY <1>3, <3>1
      <4> QED BY <1>3, <2>1, <4>1
    <3>2. CASE q > lo
      <4>1. loc2[q] > Len(H) /\ loc2[q] \in Nat
        BY <1>3, <3>2
      <4>2. ~(loc2[q] < a[k]) /\ ~(q <= cut[k])
        BY <1>3, <2>1, <2>2, <3>2, <4>1
      <4> QED BY <4>2
    <3> QED BY <1>3, <3>1, <3>2
  <2> QED BY <2>1, <2>3, <2>4
<1> QED BY <1>1, <1>2, <1>3, <1>4, <1>5, <1>6 DEF OnLine, w

\* An event happens: it will come behind all that was sent.
LEMMA LineEvent ==
  ASSUME NEW u, NEW ow, NEW c, NEW bs, NEW at, NEW own, NEW e \in EventBlocks,
         OnLine(u, ow, <<>>, c, bs, at, own)
  PROVE  OnLine(u, ow, Unsent(e, 0, 0), c, bs, at, own)
<1>1. PICK H, z, n, a, eb, cut, m, loc :
        /\ Reads(u, H, z) /\ History(H, n, a, eb) /\ OnTheWay(H, n, a, eb, <<>>)
        /\ Answering(H, z, ow, c, bs, at, m, loc)
        /\ CutBetween(z, n, a, bs, m, loc, cut) /\ Where(z, n, a, eb, own)
  BY DEF OnLine
<1>2. bs \in AnswerBlocks
  BY DEF OnLine
<1> DEFINE h == Len(H) + 1
           a2 == [k \in 1 .. n + 1 |-> IF k <= n THEN a[k] ELSE h]
           eb2 == [k \in 1 .. n + 1 |-> IF k <= n THEN eb[k] ELSE e]
           cut2 == [k \in 1 .. n + 1 |-> IF k <= n THEN cut[k] ELSE Ends(bs)[m]]
<1>3. /\ n \in Nat /\ H \in Seq(Letter) /\ Len(H) \in Nat /\ z \in Nat /\ z <= Len(H)
      /\ h \in Nat \ {0} /\ h = Len(H) + 1
  BY <1>1, LenProperties DEF Reads, History
<1>4. /\ n + 1 \in 1 .. n + 1 /\ a2[n + 1] = h /\ eb2[n + 1] = e /\ cut2[n + 1] = Ends(bs)[m]
      /\ \A k \in 1 .. n : k \in 1 .. n + 1 /\ a2[k] = a[k] /\ eb2[k] = eb[k] /\ cut2[k] = cut[k]
      /\ \A k \in 1 .. n + 1 : k \in 1 .. n \/ k = n + 1
  <2> HIDE DEF h
  <2>1. n + 1 \in 1 .. n + 1 /\ ~(n + 1 <= n)
    BY <1>3
  <2>2. \A k \in 1 .. n : k \in 1 .. n + 1 /\ k <= n
    BY <1>3
  <2>3. \A k \in 1 .. n + 1 : k \in 1 .. n \/ k = n + 1
    BY <1>3
  <2> QED BY <2>1, <2>2, <2>3
<1> HIDE DEF h, a2, eb2, cut2
<1>5. /\ \A k \in 1 .. n : Past(a2, eb2, k) = Past(a, eb, k) /\ Past(a, eb, k) <= Len(H) + 1
      /\ Past(a2, eb2, n + 1) = h + Len(Text(e))
  BY <1>1, <1>3, <1>4, AllArrived DEF Past
<1>6. History(H, n + 1, a2, eb2)
  <2>1. \A k \in 1 .. n + 1 : a2[k] \in Nat \ {0} /\ eb2[k] \in EventBlocks /\ a2[k] <= Len(H) + 1
    <3>1. a2[n + 1] \in Nat \ {0} /\ eb2[n + 1] \in EventBlocks /\ a2[n + 1] <= Len(H) + 1
      BY <1>3, <1>4
    <3>2. \A k \in 1 .. n : a2[k] \in Nat \ {0} /\ eb2[k] \in EventBlocks /\ a2[k] <= Len(H) + 1
      BY <1>1, <1>4, EventFacts
    <3> QED BY <1>4, <3>1, <3>2
  <2>2. ASSUME NEW k \in 1 .. n + 1, NEW l \in 1 .. n + 1, k < l
        PROVE  Past(a2, eb2, k) <= a2[l]
    <3>1. k \in 1 .. n
      BY <1>3, <2>2
    <3>2. CASE l = n + 1
      BY <1>3, <1>4, <1>5, <3>1, <3>2
    <3>3. CASE l \in 1 .. n
      <4>1. Past(a, eb, k) <= a[l]
        BY <1>1, <2>2, <3>1, <3>3 DEF History
      <4> QED BY <1>4, <1>5, <3>1, <3>3, <4>1
    <3> QED BY <1>4, <3>2, <3>3
  <2>3. ASSUME NEW k \in 1 .. n + 1, NEW i \in a2[k] .. Past(a2, eb2, k) - 1, i <= Len(H)
        PROVE  H[i] = Said(eb2[k], i - a2[k] + 1, 0)
    <3>1. CASE k = n + 1
      <4>1. i >= h
        BY <1>4, <2>3, <3>1
      <4> QED BY <1>3, <2>3, <4>1
    <3>2. CASE k \in 1 .. n
      <4>1. a2[k] = a[k] /\ eb2[k] = eb[k] /\ Past(a2, eb2, k) = Past(a, eb, k)
        BY <1>4, <1>5, <3>2
      <4>2. i \in a[k] .. Past(a, eb, k) - 1
        BY <2>3, <4>1
      <4>3. H[i] = Said(eb[k], i - a[k] + 1, 0)
        BY <1>1, <2>3, <3>2, <4>2 DEF History
      <4> QED BY <4>1, <4>3
    <3> QED BY <1>4, <3>1, <3>2
  <2>4. ASSUME NEW i \in 1 .. Len(H), H[i].of = 0
        PROVE  \E k \in 1 .. n + 1 : i \in a2[k] .. Past(a2, eb2, k) - 1
    <3>1. PICK k \in 1 .. n : i \in a[k] .. Past(a, eb, k) - 1
      BY <1>1, <2>4 DEF History
    <3>2. k \in 1 .. n + 1 /\ a2[k] = a[k] /\ Past(a2, eb2, k) = Past(a, eb, k)
      BY <1>4, <1>5
    <3> QED BY <3>1, <3>2
  <2>5. n + 1 \in Nat
    BY <1>3
  <2> QED BY <1>3, <2>1, <2>2, <2>3, <2>4, <2>5 DEF History
<1>7. OnTheWay(H, n + 1, a2, eb2, Unsent(e, 0, 0))
  <2>1. e \in AllBlocks /\ Len(e) \in Nat \ {0} /\ Ends(e)[0] = 0
    <3>1. e \in Seq(Block) \ {<<>>}
      BY BlocksAssumption DEF EventBlocks
    <3>2. Len(e) \in Nat \ {0}
      BY <3>1, LenProperties
    <3>3. e \in AllBlocks
      BY DEF AllBlocks
    <3> QED BY <3>2, <3>3, TextType
  <2>2. 0 \in 0 .. Len(e) - 1 /\ n + 1 >= 1 /\ n + 1 - 1 = n /\ h + 0 = Len(H) + 1
    BY <1>3, <2>1
  <2>3. \A k \in 1 .. n : Past(a2, eb2, k) <= Len(H) + 1
    BY <1>5
  <2>4. Len(H) + 1 = a2[n + 1] + Ends(eb2[n + 1])[0]
    BY <1>4, <2>1, <2>2
  <2> QED BY <1>4, <2>2, <2>3, <2>4 DEF OnTheWay
<1>8. CutBetween(z, n + 1, a2, bs, m, loc, cut2)
  <2> SUFFICES ASSUME NEW k \in 1 .. n + 1, a2[k] > z
               PROVE  /\ cut2[k] \in 0 .. Ends(bs)[m] /\ Cut(bs, cut2[k])
                      /\ \A q \in 1 .. Ends(bs)[m] : loc[q] < a2[k] <=> q <= cut2[k]
    BY DEF CutBetween
  <2>1. CASE k \in 1 .. n
    <3>1. a2[k] = a[k] /\ cut2[k] = cut[k]
      BY <1>4, <2>1
    <3> QED BY <1>1, <2>1, <3>1 DEF CutBetween
  <2>2. CASE k = n + 1
    <3>1. a2[k] = h /\ cut2[k] = Ends(bs)[m]
      BY <1>4, <2>2
    <3>2. Ends(bs)[m] \in Nat /\ m \in 0 .. Len(bs)
      BY <1>1, <1>2, <1>3, AnswerBounds
    <3>3. Cut(bs, Ends(bs)[m])
      BY <3>2 DEF Cut
    <3>4. \A q \in 1 .. Ends(bs)[m] : loc[q] \in 1 .. Len(H)
      BY <1>1 DEF Answering
    <3>5. \A q \in 1 .. Ends(bs)[m] : loc[q] < h /\ q <= Ends(bs)[m]
      BY <1>3, <3>2, <3>4
    <3> QED BY <3>1, <3>2, <3>3, <3>5
  <2> QED BY <1>4, <2>1, <2>2
<1>9. Where(z, n + 1, a2, eb2, own)
  <2>1. CASE own = <<>>
    <3>1. \A k \in 1 .. n : a2[k] > z \/ Past(a2, eb2, k) <= z + 1
      BY <1>1, <1>4, <1>5, <2>1 DEF Where
    <3>2. a2[n + 1] > z
      BY <1>3, <1>4
    <3> QED BY <1>4, <2>1, <3>1, <3>2 DEF Where
  <2>2. CASE own # <<>>
    <3>1. PICK k \in 1 .. n : /\ eb[k] = own[1].blocks /\ z = a[k] - 1 + own[1].at
                              /\ own[1].at \in 1 .. Len(Text(eb[k]))
      BY <1>1, <2>2 DEF Where
    <3>2. k \in 1 .. n + 1 /\ a2[k] = a[k] /\ eb2[k] = eb[k]
      BY <1>4
    <3> QED BY <2>2, <3>1, <3>2 DEF Where
  <2> QED BY <2>1, <2>2
<1> QED BY <1>1, <1>2, <1>6, <1>7, <1>8, <1>9 DEF OnLine

\* The next block of an event comes, behind those that have come.
LEMMA LineSendEvent ==
  ASSUME NEW u, NEW ow, NEW pe, NEW c, NEW bs, NEW at, NEW own,
         OnLine(u, ow, pe, c, bs, at, own), pe # <<>>
  PROVE  OnLine(u \o Head(pe), ow, Tail(pe), c, bs, at, own)
<1>1. PICK H, z, n, a, eb, cut, m, loc :
        /\ Reads(u, H, z) /\ History(H, n, a, eb) /\ OnTheWay(H, n, a, eb, pe)
        /\ Answering(H, z, ow, c, bs, at, m, loc)
        /\ CutBetween(z, n, a, bs, m, loc, cut) /\ Where(z, n, a, eb, own)
  BY DEF OnLine
<1>2. bs \in AnswerBlocks
  BY DEF OnLine
<1>3. /\ n \in Nat /\ n >= 1 /\ \A k \in 1 .. n - 1 : Past(a, eb, k) <= Len(H) + 1
      /\ \E b \in 0 .. Len(eb[n]) - 1 : pe = Unsent(eb[n], b, 0) /\ Len(H) + 1 = a[n] + Ends(eb[n])[b]
  BY <1>1 DEF OnTheWay, History
<1>4. n \in 1 .. n
  BY <1>3
<1>5. /\ eb[n] \in AllBlocks /\ a[n] \in Nat \ {0} /\ Len(eb[n]) \in Nat
      /\ Past(a, eb, n) = a[n] + Len(Text(eb[n])) /\ Len(Text(eb[n])) \in Nat
      /\ Ends(eb[n])[Len(eb[n])] = Len(Text(eb[n]))
  BY <1>1, <1>4, EventFacts
<1>6. PICK b \in 0 .. Len(eb[n]) - 1 :
        pe = Unsent(eb[n], b, 0) /\ Len(H) + 1 = a[n] + Ends(eb[n])[b]
  BY <1>3
<1>7. b \in 0 .. Len(eb[n])
  BY <1>5
<1> DEFINE w == Head(pe)
           y == H \o w
           lo == Ends(eb[n])[b]
           hi == Ends(eb[n])[b + 1]
<1>8. /\ b + 1 \in 0 .. Len(eb[n]) /\ Tail(pe) = Unsent(eb[n], b + 1, 0)
      /\ w \in Seq(Letter) /\ lo \in Nat /\ hi \in Nat /\ lo < hi /\ Len(w) = hi - lo
      /\ \A i \in 1 .. Len(w) : w[i] = Said(eb[n], lo + i, 0) /\ lo + i \in 1 .. Len(Text(eb[n]))
  <2> DEFINE e == eb[n]
  <2>1. e \in AllBlocks /\ b \in 0 .. Len(e) /\ 0 \in Nat /\ pe = Unsent(e, b, 0)
    BY <1>5, <1>6, <1>7
  <2> HIDE DEF e
  <2>2. /\ b + 1 \in 0 .. Len(e) /\ Tail(pe) = Unsent(e, b + 1, 0)
        /\ w \in Seq(Letter) /\ Ends(e)[b] \in Nat /\ Ends(e)[b + 1] \in Nat
        /\ Ends(e)[b] < Ends(e)[b + 1] /\ Len(w) = Ends(e)[b + 1] - Ends(e)[b]
        /\ \A i \in 1 .. Len(w) : w[i] = Said(e, Ends(e)[b] + i, 0)
                                   /\ Ends(e)[b] + i \in 1 .. Len(Text(e))
    BY <2>1, NextBlock
  <2> QED BY <2>2 DEF e
<1>9. hi <= Len(Text(eb[n]))
  BY <1>5, <1>8, TextType
<1> HIDE DEF w, lo, hi
<1>10. /\ Reads(u \o w, y, z) /\ Len(y) = Len(H) + Len(w)
       /\ \A i \in 1 .. Len(H) : y[i] = H[i]
       /\ \A i \in 1 .. Len(w) : y[Len(H) + i] = w[i]
  <2>1. Reads(u, H, z) /\ w \in Seq(Letter)
    BY <1>1, <1>8
  <2> QED BY <2>1, MoreReads
<1>11. /\ y \in Seq(Letter) /\ H \in Seq(Letter) /\ z \in Nat /\ z <= Len(H) /\ Len(H) \in Nat
  BY <1>1, <1>10, LenProperties DEF Reads
<1> HIDE DEF y
<1>0. /\ lo \in Nat /\ hi \in Nat /\ lo < hi /\ Len(w) = hi - lo /\ hi <= Len(Text(eb[n]))
      /\ Len(H) \in Nat /\ Len(y) = Len(H) + (hi - lo) /\ z \in Nat /\ z <= Len(H)
      /\ a[n] \in Nat \ {0} /\ Len(H) + 1 = a[n] + lo /\ Len(y) + 1 = a[n] + hi
      /\ Past(a, eb, n) = a[n] + Len(Text(eb[n])) /\ Len(Text(eb[n])) \in Nat
  <2>1. /\ lo \in Nat /\ hi \in Nat /\ lo < hi /\ Len(w) = hi - lo /\ hi <= Len(Text(eb[n]))
        /\ Len(H) \in Nat /\ Len(y) = Len(H) + Len(w) /\ z \in Nat /\ z <= Len(H)
        /\ a[n] \in Nat \ {0} /\ Len(H) + 1 = a[n] + lo
    BY <1>5, <1>6, <1>8, <1>9, <1>10, <1>11 DEF lo
  <2>2. Len(y) = Len(H) + (hi - lo) /\ Len(y) + 1 = a[n] + hi
    <3> DEFINE p == a[n]
               h == Len(H)
               v == Len(w)
               x == Len(y)
    <3>1. /\ lo \in Nat /\ hi \in Nat /\ v = hi - lo /\ h \in Nat /\ x = h + v
          /\ p \in Nat /\ h + 1 = p + lo
      BY <2>1
    <3> HIDE DEF p, h, v, x
    <3>2. x = h + (hi - lo) /\ x + 1 = p + hi
      BY <3>1
    <3> QED BY <3>2 DEF p, h, x
  <2> QED BY <1>5, <2>1, <2>2
<1>12. History(y, n, a, eb)
  <2>1. \A k \in 1 .. n : a[k] \in Nat \ {0} /\ eb[k] \in EventBlocks /\ a[k] <= Len(y) + 1
    <3> SUFFICES ASSUME NEW k \in 1 .. n
                 PROVE  a[k] \in Nat \ {0} /\ eb[k] \in EventBlocks /\ a[k] <= Len(y) + 1
      OBVIOUS
    <3>1. a[k] \in Nat \ {0} /\ eb[k] \in EventBlocks /\ a[k] <= Len(H) + 1
      BY <1>1, EventFacts
    <3> QED BY <1>0, <3>1
  <2>2. ASSUME NEW k \in 1 .. n, NEW i \in a[k] .. Past(a, eb, k) - 1, i <= Len(y)
        PROVE  y[i] = Said(eb[k], i - a[k] + 1, 0)
    <3>1. a[k] \in Nat \ {0} /\ Past(a, eb, k) \in Nat
      BY <1>1, EventFacts
    <3>2. CASE i <= Len(H)
      <4>1. H[i] = Said(eb[k], i - a[k] + 1, 0)
        BY <1>1, <2>2, <3>2 DEF History
      <4>2. i \in 1 .. Len(H)
        BY <1>0, <2>2, <3>1, <3>2
      <4> QED BY <1>10, <4>1, <4>2
    <3>3. CASE i > Len(H)
      <4>1. k = n
        <5>1. CASE k \in 1 .. n - 1
          <6>1. Past(a, eb, k) <= Len(H) + 1
            BY <1>3, <5>1
          <6> QED BY <1>0, <2>2, <3>1, <3>3, <6>1
        <5> QED BY <1>3, <5>1
      <4> DEFINE j == i - Len(H)
      <4>4. i \in Int /\ i <= Len(y) /\ i > Len(H)
        BY <2>2, <3>1, <3>3
      <4>5. /\ lo \in Nat /\ hi \in Nat /\ Len(H) \in Nat /\ Len(y) = Len(H) + (hi - lo)
            /\ Len(w) = hi - lo /\ a[n] \in Nat /\ Len(H) + 1 = a[n] + lo
        BY <1>0
      <4>2. j \in 1 .. Len(w) /\ Len(H) + j = i /\ lo + j = i - a[n] + 1
        <5> DEFINE p == a[n]
                   h == Len(H)
                   v == Len(w)
                   x == Len(y)
        <5>1. /\ lo \in Nat /\ hi \in Nat /\ v = hi - lo /\ h \in Nat /\ x = h + (hi - lo)
              /\ p \in Nat /\ h + 1 = p + lo /\ i \in Int /\ i <= x /\ i > h
          BY <4>4, <4>5
        <5> HIDE DEF p, h, v, x
        <5>2. i - h \in 1 .. v /\ h + (i - h) = i /\ lo + (i - h) = i - p + 1
          BY <5>1
        <5> QED BY <5>2 DEF p, h, v
      <4> HIDE DEF j
      <4>3. y[Len(H) + j] = Said(eb[n], lo + j, 0)
        BY <1>8, <1>10, <4>2 DEF lo
      <4> QED BY <4>1, <4>2, <4>3
    <3> QED BY <1>0, <2>2, <3>1, <3>2, <3>3
  <2>3. ASSUME NEW i \in 1 .. Len(y), y[i].of = 0
        PROVE  \E k \in 1 .. n : i \in a[k] .. Past(a, eb, k) - 1
    <3>1. CASE i <= Len(H)
      <4>1. i \in Nat \ {0} /\ Len(H) \in Nat
        BY <1>0, <2>3
      <4>2. i \in 1 .. Len(H)
        BY <3>1, <4>1
      <4>3. H[i].of = 0
        BY <1>10, <2>3, <4>2
      <4> QED BY <1>1, <4>2, <4>3 DEF History
    <3>2. CASE i > Len(H)
      <4> DEFINE p == a[n]
                 h == Len(H)
                 t == Len(Text(eb[n]))
      <4>2. /\ i \in Int /\ i <= Len(y) /\ i > h /\ Len(y) + 1 = p + hi /\ h + 1 = p + lo
            /\ lo \in Nat /\ hi \in Nat /\ hi <= t /\ t \in Nat /\ p \in Nat /\ h \in Nat
            /\ Past(a, eb, n) = p + t
        BY <1>0, <2>3, <3>2
      <4> HIDE DEF p, h, t
      <4>3. i \in p .. p + t - 1
        BY <4>2
      <4>1. i \in a[n] .. Past(a, eb, n) - 1
        BY <4>2, <4>3 DEF p
      <4> QED BY <1>4, <4>1
    <3> QED BY <1>0, <2>3, <3>1, <3>2
  <2>4. \A k, l \in 1 .. n : k < l => Past(a, eb, k) <= a[l]
    BY <1>1 DEF History
  <2> QED BY <1>3, <1>11, <2>1, <2>2, <2>3, <2>4 DEF History
<1>13. OnTheWay(y, n, a, eb, Tail(pe))
  <2>1. \A k \in 1 .. n - 1 : Past(a, eb, k) <= Len(y) + 1
    <3> SUFFICES ASSUME NEW k \in 1 .. n - 1 PROVE Past(a, eb, k) <= Len(y) + 1
      OBVIOUS
    <3>1. k \in 1 .. n /\ Past(a, eb, k) <= Len(H) + 1
      BY <1>3
    <3>2. Past(a, eb, k) \in Nat
      BY <1>1, <3>1, EventFacts
    <3> QED BY <1>0, <3>1, <3>2
  <2>2. Len(y) + 1 = a[n] + hi
    BY <1>0
  <2>3. CASE b + 1 = Len(eb[n])
    <3>1. Tail(pe) = <<>>
      <4> DEFINE d == b + 1
      <4>1. d \in 0 .. Len(eb[n]) /\ d = Len(eb[n]) /\ Tail(pe) = Unsent(eb[n], d, 0) /\ 0 \in Nat
        BY <1>8, <2>3
      <4> HIDE DEF d
      <4> QED BY <1>5, <4>1, UnsentParts
    <3>2. hi = Len(Text(eb[n]))
      BY <1>5, <2>3 DEF hi
    <3>3. Past(a, eb, n) <= Len(y) + 1
      BY <1>0, <2>2, <3>2
    <3>4. \A k \in 1 .. n : k \in 1 .. n - 1 \/ k = n
      BY <1>3
    <3> QED BY <2>1, <3>1, <3>3, <3>4 DEF OnTheWay
  <2>4. CASE b + 1 # Len(eb[n])
    <3>1. b + 1 \in 0 .. Len(eb[n]) - 1
      BY <1>5, <2>4
    <3> QED BY <1>3, <1>8, <2>1, <2>2, <3>1 DEF OnTheWay, hi
  <2> QED BY <2>3, <2>4
<1>14. Answering(y, z, ow, c, bs, at, m, loc)
  <2>1. \A q \in 1 .. Ends(bs)[m] : /\ loc[q] \in 1 .. Len(y) /\ y[loc[q]] = Said(bs, q, c)
                                    /\ loc[q] <= z <=> q <= at
    <3> SUFFICES ASSUME NEW q \in 1 .. Ends(bs)[m]
                 PROVE  loc[q] \in 1 .. Len(y) /\ y[loc[q]] = Said(bs, q, c) /\ (loc[q] <= z <=> q <= at)
      OBVIOUS
    <3>1. loc[q] \in 1 .. Len(H) /\ H[loc[q]] = Said(bs, q, c) /\ (loc[q] <= z <=> q <= at)
      BY <1>1 DEF Answering
    <3>2. y[loc[q]] = H[loc[q]]
      BY <1>10, <3>1
    <3>3. loc[q] \in 1 .. Len(y)
      BY <1>0, <3>1
    <3> QED BY <3>1, <3>2, <3>3
  <2>2. ASSUME NEW i \in z + 1 .. Len(y), y[i].of # 0
        PROVE  y[i].s \notin Awaited \cup EventHeads \/ \E q \in 1 .. Ends(bs)[m] : loc[q] = i
    <3>1. CASE i <= Len(H)
      <4>1. i \in 1 .. Len(H) /\ i \in z + 1 .. Len(H)
        BY <1>0, <2>2, <3>1
      <4>2. y[i] = H[i]
        BY <1>10, <4>1
      <4> QED BY <1>1, <2>2, <4>1, <4>2 DEF Answering
    <3>2. CASE i > Len(H)
      <4> DEFINE j == i - Len(H)
                 q == lo + j
      <4>1. j \in 1 .. Len(w) /\ Len(H) + j = i
        <5> DEFINE h == Len(H)
                   v == Len(w)
                   x == Len(y)
        <5>1. h \in Nat /\ v \in Nat /\ x = h + v /\ z \in Nat
          BY <1>0
        <5>2. i \in z + 1 .. x /\ i > h
          BY <2>2, <3>2
        <5> HIDE DEF h, v, x
        <5>3. i - h \in 1 .. v /\ h + (i - h) = i
          BY <5>1, <5>2
        <5> QED BY <5>3 DEF h, v
      <4> HIDE DEF j
      <4>2. y[Len(H) + j] = Said(eb[n], q, 0) /\ q \in 1 .. Len(Text(eb[n]))
        BY <1>8, <1>10, <4>1 DEF lo
      <4> HIDE DEF q
      <4>3. Said(eb[n], q, 0).of = 0
        BY <1>5, <4>2, SaidType
      <4> QED BY <2>2, <4>1, <4>2, <4>3
    <3> QED BY <1>0, <2>2, <3>1, <3>2
  <2> QED BY <1>1, <2>1, <2>2 DEF Answering
<1> QED BY <1>1, <1>2, <1>10, <1>12, <1>13, <1>14 DEF OnLine, w

-----------------------------------------------------------------------------
(* One answer after the other *)

LEMMA EmptyAnswer ==
  /\ <<>> \in AnswerBlocks /\ <<>> \in AllBlocks /\ Len(<<>>) = 0
  /\ \A c : Unsent(<<>>, 0, c) = <<>>
<1>1. <<>> \in AnswerBlocks /\ <<>> \in AllBlocks
  BY DEF AnswerBlocks, AllBlocks
<1>2. Len(<<>>) = 0 /\ 1 .. 0 - 0 = {}
  OBVIOUS
<1>3. ASSUME NEW c PROVE Unsent(<<>>, 0, c) = <<>>
  BY <1>2 DEF Unsent
<1> QED BY <1>1, <1>2, <1>3

\* Nothing has been sent and nothing is to come.
LEMMA LineStart == OnLine(<<>>, <<>>, <<>>, 0, <<>>, 0, <<>>)
<1> DEFINE H == <<>>
<1>1. Reads(<<>>, H, 0)
  BY DEF Reads
<1>2. History(H, 0, <<>>, <<>>)
  BY DEF History
<1>3. OnTheWay(H, 0, <<>>, <<>>, <<>>)
  BY DEF OnTheWay
<1>4. Ends(<<>>)[0] = 0
  BY EmptyAnswer, TextType
<1>5. Answering(H, 0, <<>>, 0, <<>>, 0, 0, <<>>)
  <2>1. 0 \in 0 .. Len(<<>>) /\ 1 .. Len(H) = {} /\ 0 + 1 .. Len(H) = {}
    OBVIOUS
  <2>2. 1 .. Ends(<<>>)[0] = {} /\ 0 \in 0 .. Ends(<<>>)[0]
    BY <1>4
  <2>3. <<>> = Unsent(<<>>, 0, 0)
    BY EmptyAnswer
  <2> QED BY <2>1, <2>2, <2>3 DEF Answering
<1>6. CutBetween(0, 0, <<>>, <<>>, 0, <<>>, <<>>)
  BY DEF CutBetween
<1>7. Where(0, 0, <<>>, <<>>, <<>>)
  BY DEF Where
<1> QED BY <1>1, <1>2, <1>3, <1>5, <1>6, <1>7, EmptyAnswer DEF OnLine

\* A function that has read into the last block of its answer has all of it.
LEMMA SpentIsSent ==
  ASSUME NEW H \in Seq(Letter), NEW z \in Nat, NEW ow, NEW c, NEW p, p.blocks \in AnswerBlocks,
         NEW m, NEW loc, Answering(H, z, ow, c, p.blocks, p.at, m, loc), Spent(p)
  PROVE  m = Len(p.blocks) /\ Ends(p.blocks)[m] = Whole(p) /\ ow = <<>>
<1> DEFINE bs == p.blocks
           at == p.at
<1>1. /\ \A b \in 0 .. Len(bs) - 1 : Ends(bs)[b] < at
  BY DEF Spent
<1>2. /\ bs \in AnswerBlocks /\ Answering(H, z, ow, c, bs, at, m, loc)
  OBVIOUS
<1> HIDE DEF bs, at
<1>3. /\ bs \in AllBlocks /\ m \in 0 .. Len(bs) /\ Len(bs) \in Nat /\ c \in Nat
      /\ Ends(bs)[m] \in Nat /\ at \in Nat /\ at <= Ends(bs)[m] /\ ow = Unsent(bs, m, c)
  BY <1>2, AnswerBounds
<1>4. m = Len(bs)
  <2>1. ASSUME m # Len(bs) PROVE FALSE
    <3>1. m \in 0 .. Len(bs) - 1
      BY <1>3, <2>1
    <3>2. Ends(bs)[m] < at
      BY <1>1, <3>1
    <3> QED BY <1>3, <3>2
  <2> QED BY <2>1
<1>5. Ends(bs)[m] = Len(Text(bs))
  BY <1>3, <1>4, TextType
<1>6. ow = <<>>
  BY <1>3, <1>4, UnsentParts
<1> QED BY <1>4, <1>5, <1>6 DEF Whole, bs

\* Answer bs to command d is to come.
AnswerToCome(u, pe, d, bs) == OnLine(u, Unsent(bs, 0, d), pe, d, bs, 0, <<>>)

\* Between two answers, what is left of the old one means nothing.
LEMMA LineReset ==
  ASSUME NEW u, NEW ow, NEW pe, NEW c, NEW p, NEW bs \in AnswerBlocks, NEW d \in Nat,
         OnLine(u, ow, pe, c, p.blocks, p.at, <<>>), Spent(p), bs # <<>> => d # 0
  PROVE  ow = <<>> /\ AnswerToCome(u, pe, d, bs)
<1>1. PICK H, z, n, a, eb, cut, m, loc :
        /\ Reads(u, H, z) /\ History(H, n, a, eb) /\ OnTheWay(H, n, a, eb, pe)
        /\ Answering(H, z, ow, c, p.blocks, p.at, m, loc)
        /\ CutBetween(z, n, a, p.blocks, m, loc, cut) /\ Where(z, n, a, eb, <<>>)
  BY DEF OnLine
<1>2. p.blocks \in AnswerBlocks
  BY DEF OnLine
<1>3. H \in Seq(Letter) /\ z \in Nat
  BY <1>1 DEF Reads
<1>4. m = Len(p.blocks) /\ Ends(p.blocks)[m] = Whole(p) /\ ow = <<>>
  BY <1>1, <1>2, <1>3, SpentIsSent
<1>5. bs \in AllBlocks /\ Len(bs) \in Nat
  BY BlocksType DEF AllBlocks
<1>6. Ends(bs)[0] = 0 /\ 1 .. Ends(bs)[0] = {} /\ 0 \in 0 .. Ends(bs)[0]
  <2>1. Ends(bs)[0] = 0
    BY <1>5, TextType
  <2> QED BY <2>1
<1>7. ASSUME NEW i \in z + 1 .. Len(H), H[i].of # 0 PROVE H[i].s \notin Awaited \cup EventHeads
  <2>1. \/ H[i].s \notin Awaited \cup EventHeads
        \/ \E q \in 1 .. Ends(p.blocks)[m] : loc[q] = i
    BY <1>1, <1>7 DEF Answering
  <2>2. ASSUME NEW q \in 1 .. Ends(p.blocks)[m], loc[q] = i
        PROVE  H[i].s \notin Awaited \cup EventHeads
    <3>1. /\ H[i].s = Text(p.blocks)[q].s /\ H[i].s \notin EventHeads
          /\ loc[q] <= z <=> q <= p.at
      <4>1. /\ H[loc[q]].s = Text(p.blocks)[q].s /\ H[loc[q]].s \notin EventHeads
            /\ loc[q] <= z <=> q <= p.at
        <5>1. LexemeAt(H, z, c, p.blocks, p.at, loc, q)
          BY <1>1, <1>2, <1>3, <2>2, AnswerFacts
        <5> QED BY <5>1 DEF LexemeAt
      <4> QED BY <2>2, <4>1
    <3>2. p.at \in Nat /\ Ends(p.blocks)[m] \in Nat
      BY <1>1, <1>2, <1>3, AnswerBounds
    <3>3. ~(loc[q] <= z)
      BY <1>3, <1>7, <2>2
    <3>4. q \in p.at + 1 .. Whole(p)
      BY <1>4, <3>1, <3>2, <3>3
    <3>5. Text(p.blocks)[q].s \notin Awaited
      BY <3>4 DEF Spent
    <3> QED BY <3>1, <3>5
  <2> QED BY <2>1, <2>2
<1>8. Answering(H, z, Unsent(bs, 0, d), d, bs, 0, 0, loc)
  <2>1. 0 \in 0 .. Len(bs) /\ 1 .. 0 = {}
    BY <1>5
  <2> QED BY <1>6, <1>7, <2>1 DEF Answering
<1> DEFINE cut2 == [k \in 1 .. n |-> 0]
<1>9. CutBetween(z, n, a, bs, 0, loc, cut2)
  <2>1. Cut(bs, 0)
    <3>1. 0 \in 0 .. Len(bs)
      BY <1>5
    <3> QED BY <1>6, <3>1 DEF Cut
  <2> QED BY <1>6, <2>1 DEF CutBetween
<1>10. OnLine(u, Unsent(bs, 0, d), pe, d, bs, 0, <<>>)
  BY <1>1, <1>4, <1>8, <1>9 DEF OnLine
<1> QED BY <1>4, <1>10 DEF AnswerToCome

-----------------------------------------------------------------------------
(* What a function finds in the UART *)

\* j lexemes are read.
LEMMA ReadsOn ==
  ASSUME NEW u, NEW H, NEW z, Reads(u, H, z), NEW j \in 0 .. Len(u)
  PROVE  /\ Reads(From(u, j + 1), H, z + j) /\ z + j \in Nat /\ z <= z + j /\ z + j <= Len(H)
         /\ Len(u) \in Nat /\ Len(H) = z + Len(u) /\ z \in Nat /\ H \in Seq(Letter)
         /\ \A i \in 1 .. Len(u) : u[i] = H[z + i] /\ z + i \in z + 1 .. Len(H)
<1>1. /\ u \in Seq(Letter) /\ H \in Seq(Letter) /\ z \in Nat /\ Len(H) = z + Len(u)
      /\ \A i \in 1 .. Len(u) : u[i] = H[z + i]
  BY DEF Reads
<1>2. Len(u) \in Nat /\ Len(H) \in Nat
  BY <1>1
<1> DEFINE v == From(u, j + 1)
<1>3. v \in Seq(Letter) /\ Len(v) = Len(u) - j
  BY <1>1, HeadsSplit
<1>4. \A i \in 1 .. Len(u) - j : v[i] = u[j + i]
  <2>1. \A i \in j + 1 .. Len(u) : u[i] \in Letter
    BY <1>1, <1>2, ElementOfSeq
  <2>2. \A i \in 1 .. Len(u) - (j + 1) + 1 : v[i] = u[j + 1 + i - 1]
    BY <1>2, <2>1, SubSeqProperties DEF From
  <2>3. Len(u) - (j + 1) + 1 = Len(u) - j /\ \A i \in 1 .. Len(u) - j : j + 1 + i - 1 = j + i
    BY <1>2
  <2> HIDE DEF v
  <2> QED BY <2>2, <2>3
<1> HIDE DEF v
<1>5. ASSUME NEW i \in 1 .. Len(v) PROVE v[i] = H[z + j + i]
  <2>1. i \in 1 .. Len(u) - j /\ j + i \in 1 .. Len(u) /\ z + (j + i) = z + j + i
    BY <1>1, <1>2, <1>3
  <2>2. v[i] = u[j + i] /\ u[j + i] = H[z + (j + i)]
    BY <1>1, <1>4, <2>1
  <2> QED BY <2>1, <2>2
<1>6. z + j \in Nat /\ z <= z + j /\ z + j <= Len(H) /\ Len(H) = z + j + Len(v)
  BY <1>1, <1>2, <1>3
<1>7. Reads(v, H, z + j)
  BY <1>1, <1>3, <1>5, <1>6 DEF Reads
<1>8. \A i \in 1 .. Len(u) : z + i \in z + 1 .. Len(H)
  BY <1>1, <1>2
<1> QED BY <1>1, <1>2, <1>6, <1>7, <1>8 DEF v

\* The answer is read on, and what comes after it stays as it is.
LEMMA AnswerReadOn ==
  ASSUME NEW H \in Seq(Letter), NEW z \in Nat, NEW ow, NEW c, NEW bs \in AnswerBlocks, NEW at,
         NEW m, NEW loc, Answering(H, z, ow, c, bs, at, m, loc),
         NEW y \in Nat, z <= y, NEW r \in Nat, r <= Ends(bs)[m],
         \A q \in 1 .. Ends(bs)[m] : loc[q] <= y <=> q <= r
  PROVE  Answering(H, y, ow, c, bs, r, m, loc)
<1>1. r \in 0 .. Ends(bs)[m]
  BY AnswerBounds
<1>2. \A i \in y + 1 .. Len(H) : i \in z + 1 .. Len(H)
  BY LenProperties
<1>3. \A i \in y + 1 .. Len(H) : H[i].of # 0 =>
         H[i].s \notin Awaited \cup EventHeads \/ \E q \in 1 .. Ends(bs)[m] : loc[q] = i
  BY <1>2 DEF Answering
<1> QED BY <1>1, <1>3 DEF Answering

LEMMA CutReadOn ==
  ASSUME NEW z \in Nat, NEW n \in Nat, NEW a, \A k \in 1 .. n : a[k] \in Nat, NEW bs, NEW m, NEW loc,
         NEW cut, CutBetween(z, n, a, bs, m, loc, cut), NEW y \in Nat, z <= y
  PROVE  CutBetween(y, n, a, bs, m, loc, cut)
<1>1. ASSUME NEW k \in 1 .. n, a[k] > y PROVE a[k] > z
  BY <1>1
<1> QED BY <1>1 DEF CutBetween

\* A lexeme of an event, in its place.
EventLexeme(H, a, eb, k, i) ==
  /\ i - a[k] + 1 \in 1 .. Len(Text(eb[k])) /\ H[i].of = 0
  /\ H[i] = Said(eb[k], i - a[k] + 1, 0) /\ H[i].s = Text(eb[k])[i - a[k] + 1].s
  /\ a[k] + (i - a[k] + 1) = i + 1

LEMMA EventAt ==
  ASSUME NEW H, NEW n, NEW a, NEW eb, History(H, n, a, eb), NEW k \in 1 .. n,
         NEW i \in a[k] .. Past(a, eb, k) - 1, i <= Len(H)
  PROVE  EventLexeme(H, a, eb, k, i)
<1>1. /\ eb[k] \in AllBlocks /\ a[k] \in Nat \ {0}
      /\ Past(a, eb, k) = a[k] + Len(Text(eb[k])) /\ Len(Text(eb[k])) \in Nat
  BY EventFacts
<1> DEFINE q == i - a[k] + 1
<1>2. q \in 1 .. Len(Text(eb[k])) /\ a[k] + q = i + 1
  BY <1>1
<1>3. H[i] = Said(eb[k], q, 0)
  BY DEF History
<1> HIDE DEF q
<1>4. Said(eb[k], q, 0).of = 0 /\ Said(eb[k], q, 0).s = Text(eb[k])[q].s
  BY <1>1, <1>2, SaidType
<1>5. /\ q \in 1 .. Len(Text(eb[k])) /\ H[i].of = 0 /\ H[i] = Said(eb[k], q, 0)
      /\ H[i].s = Text(eb[k])[q].s /\ a[k] + q = i + 1
  BY <1>2, <1>3, <1>4
<1> QED BY <1>5 DEF EventLexeme, q

\* What a wait may stop at is a lexeme of the answer or in an event to come.
LEMMA Unread ==
  ASSUME NEW H \in Seq(Letter), NEW z \in Nat, NEW n, NEW a, NEW eb, History(H, n, a, eb),
         NEW ow, NEW c, NEW bs \in AnswerBlocks, NEW at, NEW m, NEW loc,
         Answering(H, z, ow, c, bs, at, m, loc), Where(z, n, a, eb, <<>>),
         NEW i \in z + 1 .. Len(H), H[i].s \in Awaited \cup EventHeads
  PROVE  \/ \E q \in 1 .. Ends(bs)[m] : loc[q] = i /\ q > at
         \/ \E k \in 1 .. n : a[k] > z /\ i \in a[k] .. Past(a, eb, k) - 1
<1>0. Len(H) \in Nat /\ i \in 1 .. Len(H) /\ i > z
  <2>1. Len(H) \in Nat
    BY LenProperties
  <2> QED BY <2>1
<1>1. CASE H[i].of = 0
  <2>1. PICK k \in 1 .. n : i \in a[k] .. Past(a, eb, k) - 1
    BY <1>0, <1>1 DEF History
  <2>2. a[k] > z \/ Past(a, eb, k) <= z + 1
    BY DEF Where
  <2>3. a[k] \in Nat /\ Past(a, eb, k) \in Nat
    BY EventFacts
  <2>4. a[k] > z
    BY <1>0, <2>1, <2>2, <2>3
  <2> QED BY <2>1, <2>4
<1>2. CASE H[i].of # 0
  <2>1. PICK q \in 1 .. Ends(bs)[m] : loc[q] = i
    BY <1>2 DEF Answering
  <2>2. LexemeAt(H, z, c, bs, at, loc, q)
    BY AnswerFacts
  <2>3. ~(loc[q] <= z)
    BY <1>0, <2>1
  <2>4. at \in Nat /\ Ends(bs)[m] \in Nat
    BY AnswerBounds
  <2>5. q > at
    BY <2>2, <2>3, <2>4 DEF LexemeAt
  <2> QED BY <2>1, <2>5
<1> QED BY <1>1, <1>2

\* A function that has read lexeme q of its answer has passed the events
\* before it, and reached none after it.
LEMMA LineReadTo ==
  ASSUME NEW u, NEW ow, NEW pe, NEW c, NEW bs \in AnswerBlocks, NEW at,
         NEW H, NEW z, NEW n, NEW a, NEW eb, NEW cut, NEW m, NEW loc,
         Reads(u, H, z), History(H, n, a, eb), OnTheWay(H, n, a, eb, pe),
         Answering(H, z, ow, c, bs, at, m, loc),
         CutBetween(z, n, a, bs, m, loc, cut), Where(z, n, a, eb, <<>>),
         NEW j \in 1 .. Len(u), NEW q \in 1 .. Ends(bs)[m], loc[q] = z + j
  PROVE  OnLine(From(u, j + 1), ow, pe, c, bs, q, <<>>)
<1>1. /\ Reads(From(u, j + 1), H, z + j) /\ z + j \in Nat /\ z <= z + j /\ z + j <= Len(H)
      /\ H \in Seq(Letter) /\ z \in Nat
  <2>1. Len(u) \in Nat
    BY LenProperties DEF Reads
  <2>2. j \in 0 .. Len(u)
    BY <2>1
  <2> QED BY <2>2, ReadsOn
<1> DEFINE y == z + j
<1> HIDE DEF y
<1>2. y \in Nat /\ z <= y /\ loc[q] = y /\ y <= Len(H)
  BY <1>1 DEF y
<1>3. Ends(bs)[m] \in Nat
  BY <1>1, AnswerBounds
<1>4. q \in Nat /\ q <= Ends(bs)[m]
  BY <1>3
<1>5. ASSUME NEW k \in 1 .. Ends(bs)[m] PROVE loc[k] <= y <=> k <= q
  <2>1. loc[k] \in 1 .. Len(H)
    BY DEF Answering
  <2>2. k < q => loc[k] < loc[q]
    BY DEF Answering
  <2>3. q < k => loc[q] < loc[k]
    BY DEF Answering
  <2>4. k \in Nat /\ q \in Nat /\ loc[k] \in Nat
    BY <1>3, <2>1
  <2>5. CASE k < q
    BY <1>2, <2>2, <2>4, <2>5
  <2>6. CASE k = q
    BY <1>2, <2>4, <2>6
  <2>7. CASE q < k
    BY <1>2, <2>3, <2>4, <2>7
  <2> QED BY <2>4, <2>5, <2>6, <2>7
<1>6. Answering(H, y, ow, c, bs, q, m, loc)
  BY <1>1, <1>2, <1>4, <1>5, AnswerReadOn
<1>7. n \in Nat /\ \A k \in 1 .. n : a[k] \in Nat /\ Past(a, eb, k) \in Nat
  <2>1. n \in Nat
    BY DEF History
  <2> QED BY <2>1, EventFacts
<1>8. CutBetween(y, n, a, bs, m, loc, cut)
  BY <1>1, <1>2, <1>7, CutReadOn
<1>9. Where(y, n, a, eb, <<>>)
  <2> SUFFICES ASSUME NEW k \in 1 .. n PROVE a[k] > y \/ Past(a, eb, k) <= y + 1
    BY DEF Where
  <2>1. a[k] > z \/ Past(a, eb, k) <= z + 1
    BY DEF Where
  <2>2. ASSUME ~(a[k] > y), ~(Past(a, eb, k) <= y + 1) PROVE FALSE
    <3>1. y \in a[k] .. Past(a, eb, k) - 1
      BY <1>2, <1>7, <2>2
    <3>2. EventLexeme(H, a, eb, k, y)
      BY <1>2, <3>1, EventAt
    <3>3. LexemeAt(H, z, c, bs, at, loc, q)
      BY <1>1, AnswerFacts
    <3> QED BY <1>2, <3>2, <3>3 DEF EventLexeme, LexemeAt
  <2> QED BY <2>2
<1> QED BY <1>1, <1>6, <1>8, <1>9 DEF OnLine, y

\* The strings of a wait: heads of events and responses, and none of them is
\* in an event in front of its head.
WaitsFor(S) ==
  /\ EventHeads \subseteq S /\ S \subseteq EventHeads \cup Awaited
  /\ \A e \in EventBlocks : \A k \in 1 .. Len(Text(e)) :
       (\A n \in 1 .. k : Text(e)[n].s \notin EventHeads) => Text(e)[k].s \notin S

\* Up to j, place z + j of the history is the first of these strings.
LEMMA FirstInHistory ==
  ASSUME NEW u, NEW H, NEW z, Reads(u, H, z), NEW S, NEW j \in First(u, S)
  PROVE  /\ j \in 1 .. Len(u) /\ z + j \in z + 1 .. Len(H) /\ u[j] = H[z + j] /\ u[j].s \in S
         /\ z \in Nat /\ z + j \in Nat
         /\ \A i \in z + 1 .. Len(H) : i < z + j => H[i].s \notin S
<1>1. /\ j \in DOMAIN u /\ u[j].s \in S /\ \A i \in 1 .. j - 1 : u[i].s \notin S
  BY DEF First
<1>2. DOMAIN u = 1 .. Len(u) /\ Len(u) \in Nat
  BY LenProperties DEF Reads
<1>3. /\ z \in Nat /\ Len(H) = z + Len(u) /\ \A i \in 1 .. Len(u) : u[i] = H[z + i]
  BY DEF Reads
<1>4. j \in 1 .. Len(u)
  BY <1>1, <1>2
<1>5. u[j] = H[z + j] /\ z + j \in z + 1 .. Len(H) /\ z + j \in Nat
  BY <1>2, <1>3, <1>4
<1>6. ASSUME NEW i \in z + 1 .. Len(H), i < z + j PROVE H[i].s \notin S
  <2> DEFINE k == i - z
  <2>1. k \in 1 .. j - 1 /\ k \in 1 .. Len(u) /\ z + k = i
    BY <1>2, <1>3, <1>4, <1>6
  <2> HIDE DEF k
  <2>2. u[k] = H[z + k]
    BY <1>3, <2>1
  <2>3. u[k].s \notin S
    BY <1>1, <2>1
  <2> QED BY <2>1, <2>2, <2>3
<1> QED BY <1>1, <1>3, <1>4, <1>5, <1>6

\* A response that a function finds is that of its own answer, the first in
\* what it has not read: no older answer, and nothing in an event.
LEMMA LineRespond ==
  ASSUME NEW u, NEW ow, NEW pe, NEW c, NEW bs, NEW at, OnLine(u, ow, pe, c, bs, at, <<>>),
         NEW S, WaitsFor(S), NEW j \in First(u, S), u[j].s \notin EventHeads
  PROVE  \E q \in FirstAfter(bs, at, S) :
           /\ u[j].s = Text(bs)[q].s /\ u[j].of = c
           /\ OnLine(From(u, j + 1), ow, pe, c, bs, q, <<>>)
<1>1. PICK H, z, n, a, eb, cut, m, loc :
        /\ Reads(u, H, z) /\ History(H, n, a, eb) /\ OnTheWay(H, n, a, eb, pe)
        /\ Answering(H, z, ow, c, bs, at, m, loc)
        /\ CutBetween(z, n, a, bs, m, loc, cut) /\ Where(z, n, a, eb, <<>>)
  BY DEF OnLine
<1>2. bs \in AnswerBlocks
  BY DEF OnLine
<1>3. H \in Seq(Letter) /\ z \in Nat /\ Len(H) \in Nat
  BY <1>1, LenProperties DEF Reads
<1>4. /\ j \in 1 .. Len(u) /\ z + j \in z + 1 .. Len(H) /\ u[j] = H[z + j] /\ u[j].s \in S
      /\ \A i \in z + 1 .. Len(H) : i < z + j => H[i].s \notin S
  BY <1>1, FirstInHistory
<1> DEFINE y == z + j
<1> HIDE DEF y
<1>5. /\ y \in z + 1 .. Len(H) /\ u[j] = H[y] /\ H[y].s \in S /\ H[y].s \notin EventHeads
      /\ H[y].s \in Awaited \cup EventHeads
      /\ \A i \in z + 1 .. Len(H) : i < y => H[i].s \notin S
  BY <1>4 DEF WaitsFor, y
<1>6. CASE \E q \in 1 .. Ends(bs)[m] : loc[q] = y /\ q > at
  <2>1. PICK q \in 1 .. Ends(bs)[m] : loc[q] = y /\ q > at
    BY <1>6
  <2>2. LexemeAt(H, z, c, bs, at, loc, q)
    BY <1>1, <1>2, <1>3, AnswerFacts
  <2>3. OnLine(From(u, j + 1), ow, pe, c, bs, q, <<>>)
    BY <1>1, <1>2, <1>4, <2>1, LineReadTo DEF y
  <2>4. at \in Nat /\ Ends(bs)[m] \in Nat /\ Len(Text(bs)) \in Nat /\ Ends(bs)[m] <= Len(Text(bs))
    BY <1>1, <1>2, <1>3, AnswerBounds
  <2>5. ASSUME NEW k \in at + 1 .. q - 1 PROVE Text(bs)[k].s \notin S
    <3>1. k \in 1 .. Ends(bs)[m] /\ k < q /\ ~(k <= at)
      BY <2>1, <2>4
    <3>2. LexemeAt(H, z, c, bs, at, loc, k)
      BY <1>1, <1>2, <1>3, <3>1, AnswerFacts
    <3>3. loc[k] < loc[q]
      BY <1>1, <3>1 DEF Answering
    <3>4. loc[k] \in z + 1 .. Len(H) /\ loc[k] < y
      BY <1>3, <2>1, <3>1, <3>2, <3>3 DEF LexemeAt
    <3> QED BY <1>5, <3>2, <3>4 DEF LexemeAt
  <2>6. q \in at + 1 .. Len(Text(bs)) /\ Text(bs)[q].s \in S
    <3>1. q \in at + 1 .. Len(Text(bs))
      BY <2>1, <2>4
    <3> QED BY <1>5, <2>1, <2>2, <3>1 DEF LexemeAt
  <2>7. q \in FirstAfter(bs, at, S)
    BY <2>5, <2>6 DEF FirstAfter
  <2>8. u[j].s = Text(bs)[q].s /\ u[j].of = c
    BY <1>5, <2>1, <2>2 DEF LexemeAt
  <2> QED BY <2>3, <2>7, <2>8
<1>7. CASE \E k \in 1 .. n : a[k] > z /\ y \in a[k] .. Past(a, eb, k) - 1
  <2>1. PICK k \in 1 .. n : a[k] > z /\ y \in a[k] .. Past(a, eb, k) - 1
    BY <1>7
  <2>2. EventLexeme(H, a, eb, k, y)
    <3>1. y <= Len(H)
      BY <1>3, <1>5
    <3> QED BY <1>1, <2>1, <3>1, EventAt
  <2>3. eb[k] \in EventBlocks /\ a[k] \in Nat
    BY <1>1, EventFacts
  <2> DEFINE q == y - a[k] + 1
  <2>4. q \in 1 .. Len(Text(eb[k])) /\ Text(eb[k])[q].s \in S /\ a[k] + q = y + 1
    BY <1>5, <2>2 DEF EventLexeme
  <2> HIDE DEF q
  <2>5. PICK r \in 1 .. q : Text(eb[k])[r].s \in EventHeads
    BY <2>3, <2>4 DEF WaitsFor
  <2> DEFINE i == a[k] + r - 1
  <2>6. q \in Nat /\ Past(a, eb, k) \in Nat /\ y \in Nat
    <3>1. Len(Text(eb[k])) \in Nat /\ Past(a, eb, k) \in Nat
      BY <1>1, EventFacts
    <3> QED BY <1>3, <1>5, <2>4, <3>1
  <2>7. i \in a[k] .. Past(a, eb, k) - 1 /\ i <= y /\ i - a[k] + 1 = r /\ i \in z + 1 .. Len(H)
    <3> DEFINE p == a[k]
               e == Past(a, eb, k)
               h == Len(H)
    <3>1. /\ p \in Nat /\ e \in Nat /\ h \in Nat /\ z \in Nat /\ y \in Nat /\ q \in Nat /\ r \in Nat
          /\ p > z /\ y < e /\ y <= h /\ p + q = y + 1 /\ 1 <= r /\ r <= q
      BY <1>3, <1>5, <2>1, <2>3, <2>4, <2>5, <2>6
    <3> HIDE DEF p, e, h
    <3>2. LET x == p + r - 1
          IN  x \in p .. e - 1 /\ x <= y /\ x - p + 1 = r /\ x \in z + 1 .. h
      BY <3>1
    <3> QED BY <3>2 DEF p, e, h
  <2> HIDE DEF i
  <2>8. EventLexeme(H, a, eb, k, i)
    <3>1. i <= Len(H)
      BY <1>3, <2>7
    <3> QED BY <1>1, <2>7, <3>1, EventAt
  <2>9. H[i].s \in EventHeads
    BY <2>5, <2>7, <2>8 DEF EventLexeme
  <2>10. i # y
    BY <1>5, <2>9
  <2>11. i < y
    BY <1>3, <2>6, <2>7, <2>10
  <2>12. H[i].s \in S
    BY <2>9 DEF WaitsFor
  <2> QED BY <1>5, <2>7, <2>11, <2>12
<1> QED BY <1>1, <1>2, <1>3, <1>5, <1>6, <1>7, Unread

\* The head of an event that a function finds belongs to an event it has not
\* read, and what it has read of its answer until then are whole blocks in
\* which it had nothing to stop at.
LEMMA LineDispatch ==
  ASSUME NEW u, NEW ow, NEW pe, NEW c, NEW bs, NEW at, OnLine(u, ow, pe, c, bs, at, <<>>),
         NEW S, WaitsFor(S), NEW j \in First(u, S), u[j].s \in EventHeads
  PROVE  \E e \in EventBlocks : \E h \in 1 .. Len(Text(e)) : \E q \in at .. Len(Text(bs)) :
           /\ Text(e)[h].s = u[j].s /\ Cut(bs, q)
           /\ \A k \in at + 1 .. q : Text(bs)[k].s \notin S
           /\ \A x : x.blocks = e /\ x.at = h => OnLine(From(u, j + 1), ow, pe, c, bs, q, <<x>>)
<1>1. PICK H, z, n, a, eb, cut, m, loc :
        /\ Reads(u, H, z) /\ History(H, n, a, eb) /\ OnTheWay(H, n, a, eb, pe)
        /\ Answering(H, z, ow, c, bs, at, m, loc)
        /\ CutBetween(z, n, a, bs, m, loc, cut) /\ Where(z, n, a, eb, <<>>)
  BY DEF OnLine
<1>2. bs \in AnswerBlocks
  BY DEF OnLine
<1>3. H \in Seq(Letter) /\ z \in Nat /\ Len(H) \in Nat /\ n \in Nat
  BY <1>1, LenProperties DEF Reads, History
<1>4. /\ j \in 1 .. Len(u) /\ z + j \in z + 1 .. Len(H) /\ u[j] = H[z + j] /\ u[j].s \in S
      /\ \A i \in z + 1 .. Len(H) : i < z + j => H[i].s \notin S
  BY <1>1, FirstInHistory
<1> DEFINE y == z + j
<1>5. Reads(From(u, j + 1), H, y) /\ y \in Nat /\ z <= y
  <2>1. Len(u) \in Nat
    BY <1>1, LenProperties DEF Reads
  <2>2. j \in 0 .. Len(u)
    BY <1>4, <2>1
  <2> QED BY <1>1, <2>2, ReadsOn
<1> HIDE DEF y
<1>6. /\ y \in z + 1 .. Len(H) /\ u[j] = H[y] /\ H[y].s \in S /\ H[y].s \in EventHeads
      /\ H[y].s \in Awaited \cup EventHeads /\ y <= Len(H)
      /\ \A i \in z + 1 .. Len(H) : i < y => H[i].s \notin S
  <2>1. y <= Len(H)
    BY <1>3, <1>4 DEF y
  <2> QED BY <1>4, <2>1 DEF y
<1>7. /\ at \in Nat /\ Ends(bs)[m] \in Nat /\ Len(Text(bs)) \in Nat
      /\ Ends(bs)[m] <= Len(Text(bs)) /\ at <= Ends(bs)[m]
  BY <1>1, <1>2, <1>3, AnswerBounds
<1>8. PICK k \in 1 .. n : a[k] > z /\ y \in a[k] .. Past(a, eb, k) - 1
  <2>1. ASSUME NEW q \in 1 .. Ends(bs)[m], loc[q] = y PROVE FALSE
    <3>1. LexemeAt(H, z, c, bs, at, loc, q)
      BY <1>1, <1>2, <1>3, AnswerFacts
    <3> QED BY <1>6, <2>1, <3>1 DEF LexemeAt
  <2>2. \/ \E q \in 1 .. Ends(bs)[m] : loc[q] = y /\ q > at
        \/ \E k \in 1 .. n : a[k] > z /\ y \in a[k] .. Past(a, eb, k) - 1
    BY <1>1, <1>2, <1>3, <1>6, Unread
  <2> QED BY <2>1, <2>2
<1>9. EventLexeme(H, a, eb, k, y)
  BY <1>1, <1>6, <1>8, EventAt
<1>10. eb[k] \in EventBlocks /\ a[k] \in Nat /\ Past(a, eb, k) \in Nat
  BY <1>1, EventFacts
<1> DEFINE h == y - a[k] + 1
           q == cut[k]
<1>11. h \in 1 .. Len(Text(eb[k])) /\ Text(eb[k])[h].s = u[j].s
  BY <1>6, <1>9 DEF EventLexeme
<1>12. y = a[k] - 1 + h /\ a[k] <= y
  BY <1>5, <1>8, <1>10
<1> HIDE DEF h, q
<1>13. /\ q \in 0 .. Ends(bs)[m] /\ Cut(bs, q)
       /\ \A i \in 1 .. Ends(bs)[m] : loc[i] < a[k] <=> i <= q
  BY <1>1, <1>8 DEF CutBetween, q
<1>14. q \in at .. Len(Text(bs))
  <2>1. q \in Nat /\ q <= Len(Text(bs))
    BY <1>7, <1>13
  <2>2. CASE at = 0
    BY <1>7, <2>1, <2>2
  <2>3. CASE at # 0
    <3>1. at \in 1 .. Ends(bs)[m]
      BY <1>7, <2>3
    <3>2. LexemeAt(H, z, c, bs, at, loc, at)
      BY <1>1, <1>2, <1>3, <3>1, AnswerFacts
    <3>3. loc[at] < a[k]
      BY <1>3, <1>7, <1>8, <1>10, <3>2 DEF LexemeAt
    <3>4. at <= q
      BY <1>13, <3>1, <3>3
    <3> QED BY <1>7, <2>1, <3>4
  <2> QED BY <2>2, <2>3
<1>15. ASSUME NEW i \in at + 1 .. q PROVE Text(bs)[i].s \notin S
  <2>1. i \in 1 .. Ends(bs)[m] /\ i <= q /\ ~(i <= at)
    BY <1>7, <1>13
  <2>2. LexemeAt(H, z, c, bs, at, loc, i)
    BY <1>1, <1>2, <1>3, <2>1, AnswerFacts
  <2>3. loc[i] < a[k]
    BY <1>13, <2>1
  <2>4. loc[i] \in z + 1 .. Len(H) /\ loc[i] < y
    BY <1>3, <1>5, <1>10, <1>12, <2>1, <2>2, <2>3 DEF LexemeAt
  <2> QED BY <1>6, <2>2, <2>4 DEF LexemeAt
<1>16. ASSUME NEW i \in 1 .. Ends(bs)[m] PROVE loc[i] <= y <=> i <= q
  <2>1. LexemeAt(H, z, c, bs, at, loc, i)
    BY <1>1, <1>2, <1>3, AnswerFacts
  <2>2. loc[i] \in Nat /\ loc[i] <= Len(H)
    BY <1>3, <2>1 DEF LexemeAt
  <2>3. CASE i <= q
    <3>1. loc[i] < a[k]
      BY <1>13, <2>3
    <3> QED BY <1>5, <1>10, <1>12, <2>2, <2>3, <3>1
  <2>4. CASE ~(i <= q)
    <3>1. ~(loc[i] < a[k])
      BY <1>13, <2>4
    <3>2. ASSUME loc[i] <= y PROVE FALSE
      <4>1. loc[i] \in a[k] .. Past(a, eb, k) - 1
        BY <1>5, <1>8, <1>10, <2>2, <3>1, <3>2
      <4>2. EventLexeme(H, a, eb, k, loc[i])
        BY <1>1, <2>2, <4>1, EventAt
      <4> QED BY <2>1, <4>2 DEF EventLexeme, LexemeAt
    <3> QED BY <2>4, <3>2
  <2> QED BY <2>3, <2>4
<1>17. Answering(H, y, ow, c, bs, q, m, loc)
  <2>1. q \in Nat /\ q <= Ends(bs)[m]
    BY <1>7, <1>13
  <2> QED BY <1>1, <1>2, <1>3, <1>5, <1>16, <2>1, AnswerReadOn
<1>18. CutBetween(y, n, a, bs, m, loc, cut)
  <2>1. \A l \in 1 .. n : a[l] \in Nat
    BY <1>1, EventFacts
  <2> QED BY <1>1, <1>3, <1>5, <2>1, CutReadOn
<1>19. ASSUME NEW x, x.blocks = eb[k], x.at = h
       PROVE  OnLine(From(u, j + 1), ow, pe, c, bs, q, <<x>>)
  <2>1. Where(y, n, a, eb, <<x>>)
    <3>1. <<x>> # <<>> /\ <<x>>[1] = x
      OBVIOUS
    <3> QED BY <1>11, <1>12, <1>19, <3>1 DEF Where
  <2> QED BY <1>1, <1>2, <1>5, <1>17, <1>18, <2>1 DEF OnLine
<1> QED BY <1>10, <1>11, <1>13, <1>14, <1>15, <1>19

\* A function that runs out of time when its whole answer has come had nothing
\* to wait for; an event that has begun to come has not shown its head.
LEMMA LineStarved ==
  ASSUME NEW u, NEW pe, NEW c, NEW bs, NEW at, OnLine(u, <<>>, pe, c, bs, at, <<>>),
         NEW S, WaitsFor(S), Lacks(u, S)
  PROVE  FirstAfter(bs, at, S) = {} /\ OnLine(<<>>, <<>>, pe, c, bs, Len(Text(bs)), <<>>)
<1>1. PICK H, z, n, a, eb, cut, m, loc :
        /\ Reads(u, H, z) /\ History(H, n, a, eb) /\ OnTheWay(H, n, a, eb, pe)
        /\ Answering(H, z, <<>>, c, bs, at, m, loc)
        /\ CutBetween(z, n, a, bs, m, loc, cut) /\ Where(z, n, a, eb, <<>>)
  BY DEF OnLine
<1>2. bs \in AnswerBlocks
  BY DEF OnLine
<1>3. /\ u \in Seq(Letter) /\ H \in Seq(Letter) /\ z \in Nat /\ Len(H) \in Nat /\ n \in Nat
      /\ Len(u) \in Nat /\ Len(H) = z + Len(u) /\ DOMAIN u = 1 .. Len(u)
      /\ \A i \in 1 .. Len(u) : u[i] = H[z + i]
  BY <1>1, LenProperties DEF Reads, History
<1>4. /\ at \in Nat /\ m \in 0 .. Len(bs) /\ Len(bs) \in Nat /\ bs \in AllBlocks /\ c \in Nat
      /\ at <= Ends(bs)[m] /\ Len(Text(bs)) \in Nat /\ <<>> = Unsent(bs, m, c)
  BY <1>1, <1>2, <1>3, AnswerBounds
<1>5. m = Len(bs) /\ Ends(bs)[m] = Len(Text(bs))
  <2>1. m = Len(bs)
    BY <1>4, UnsentParts
  <2> QED BY <1>4, <2>1, TextType
<1>6. ASSUME NEW i \in z + 1 .. Len(H) PROVE H[i].s \notin S
  <2> DEFINE k == i - z
  <2>1. k \in 1 .. Len(u) /\ z + k = i
    BY <1>3
  <2> HIDE DEF k
  <2>2. u[k] = H[i] /\ u[k].s \notin S
    BY <1>3, <2>1 DEF Lacks
  <2> QED BY <2>2
<1>7. FirstAfter(bs, at, S) = {}
  <2> SUFFICES ASSUME NEW q \in FirstAfter(bs, at, S) PROVE FALSE
    OBVIOUS
  <2>1. q \in at + 1 .. Len(Text(bs)) /\ Text(bs)[q].s \in S
    BY DEF FirstAfter
  <2>2. q \in 1 .. Ends(bs)[m] /\ ~(q <= at)
    BY <1>4, <1>5, <2>1
  <2>3. LexemeAt(H, z, c, bs, at, loc, q)
    BY <1>1, <1>2, <1>3, <2>2, AnswerFacts
  <2>4. loc[q] \in z + 1 .. Len(H) /\ H[loc[q]].s \in S
    <3>1. loc[q] \in 1 .. Len(H) /\ ~(loc[q] <= z) /\ H[loc[q]].s = Text(bs)[q].s
      BY <2>2, <2>3 DEF LexemeAt
    <3> QED BY <1>3, <2>1, <3>1
  <2> QED BY <1>6, <2>4
<1> DEFINE y == Len(H)
<1>8. Reads(<<>>, H, y)
  BY <1>3 DEF Reads
<1>9. z <= y /\ y \in Nat
  BY <1>3
<1>10. Answering(H, y, <<>>, c, bs, Len(Text(bs)), m, loc)
  <2>1. ASSUME NEW q \in 1 .. Ends(bs)[m] PROVE loc[q] <= y /\ q <= Len(Text(bs))
    <3>1. loc[q] \in 1 .. Len(H)
      BY <1>1 DEF Answering
    <3> QED BY <1>3, <1>4, <1>5, <3>1
  <2>2. Len(Text(bs)) \in Nat /\ Len(Text(bs)) <= Ends(bs)[m]
    BY <1>4, <1>5
  <2> HIDE DEF y
  <2> QED BY <1>1, <1>2, <1>3, <1>9, <2>1, <2>2, AnswerReadOn
<1>11. CutBetween(y, n, a, bs, m, loc, cut)
  <2>1. \A l \in 1 .. n : a[l] \in Nat
    BY <1>1, EventFacts
  <2> HIDE DEF y
  <2> QED BY <1>1, <1>3, <1>9, <2>1, CutReadOn
<1>12. ASSUME NEW k \in 1 .. n PROVE a[k] > y \/ Past(a, eb, k) <= y + 1
  <2>1. PICK b \in 0 .. Len(eb[k]) :
          /\ a[k] + Ends(eb[k])[b] <= Len(H) + 1
          /\ b < Len(eb[k]) => Len(H) + 1 = a[k] + Ends(eb[k])[b]
    <3>1. PICK b \in 0 .. Len(eb[k]) : ComeTo(H, n, a, eb, pe, k, b)
      BY <1>1, <1>3, Arrived
    <3> QED BY <3>1 DEF ComeTo
  <2>2. /\ eb[k] \in EventBlocks /\ eb[k] \in AllBlocks /\ a[k] \in Nat \ {0}
        /\ Len(eb[k]) \in Nat \ {0}
        /\ Past(a, eb, k) = a[k] + Len(Text(eb[k])) /\ Len(Text(eb[k])) \in Nat
        /\ Ends(eb[k])[0] = 0 /\ Ends(eb[k])[Len(eb[k])] = Len(Text(eb[k]))
    BY <1>1, EventFacts
  <2>3. CASE b = Len(eb[k])
    BY <2>1, <2>2, <2>3
  <2>4. CASE b = 0
    <3>1. Len(H) + 1 = a[k] + 0
      BY <2>1, <2>2, <2>4
    <3> QED BY <1>3, <2>2, <3>1
  <2>5. CASE b # 0 /\ b # Len(eb[k])
    <3>1. PICK h \in 1 .. Ends(eb[k])[1] :
            \A l \in 1 .. Len(Text(eb[k])) : Text(eb[k])[l].s \in EventHeads <=> l = h
      BY <2>2, HeadsAssumption
    <3>2. 1 \in 0 .. Len(eb[k]) /\ b \in 0 .. Len(eb[k]) /\ 1 <= b /\ b < Len(eb[k])
      BY <2>2, <2>5
    <3>3. Ends(eb[k])[1] <= Ends(eb[k])[b] /\ Ends(eb[k])[b] <= Len(Text(eb[k]))
          /\ Ends(eb[k])[b] \in Nat /\ Ends(eb[k])[1] \in Nat
      BY <2>2, <3>2, EndsOrder, TextType
    <3> DEFINE i == a[k] + h - 1
    <3>4. /\ h \in 1 .. Len(Text(eb[k])) /\ i \in a[k] .. Past(a, eb, k) - 1
          /\ i <= Len(H) /\ i - a[k] + 1 = h
      <4> DEFINE p == a[k]
                 l == Len(H)
                 t == Len(Text(eb[k]))
                 v == Ends(eb[k])[b]
                 w == Ends(eb[k])[1]
      <4>1. /\ p \in Nat /\ l \in Nat /\ t \in Nat /\ v \in Nat /\ w \in Nat /\ h \in 1 .. w
            /\ w <= v /\ v <= t /\ l + 1 = p + v /\ Past(a, eb, k) = p + t
        BY <1>3, <2>1, <2>2, <3>2, <3>3
      <4> HIDE DEF p, l, t, v, w
      <4>2. h \in 1 .. t /\ p + h - 1 \in p .. p + t - 1 /\ p + h - 1 <= l /\ p + h - 1 - p + 1 = h
        BY <4>1
      <4> QED BY <4>1, <4>2 DEF p, l, t
    <3> HIDE DEF i
    <3>5. EventLexeme(H, a, eb, k, i)
      BY <1>1, <3>4, EventAt
    <3>6. H[i].s \in EventHeads
      BY <3>1, <3>4, <3>5 DEF EventLexeme
    <3>7. ~(i \in z + 1 .. Len(H))
      BY <1>6, <3>6 DEF WaitsFor
    <3>8. a[k] > z \/ Past(a, eb, k) <= z + 1
      BY <1>1 DEF Where
    <3>9. ~(a[k] > z)
      BY <1>3, <2>2, <3>4, <3>7
    <3> QED BY <1>3, <1>9, <2>2, <3>8, <3>9
  <2> QED BY <2>3, <2>4, <2>5
<1>13. Where(y, n, a, eb, <<>>)
  BY <1>12 DEF Where
<1> QED BY <1>1, <1>2, <1>7, <1>8, <1>10, <1>11, <1>13 DEF OnLine

\* The next lexemes of the text bs, up to q, are the next in the UART.
InFront(u, bs, at, c, q) ==
  /\ q - at \in 0 .. Len(u) /\ q \in Nat /\ at \in Nat /\ q <= Len(Text(bs))
  /\ \A i \in 1 .. q - at : u[i] = Said(bs, at + i, c)

\* Inside a block nothing comes between: what is left of it is in front.
LEMMA LineInBlock ==
  ASSUME NEW u, NEW ow, NEW pe, NEW c, NEW bs, NEW at, OnLine(u, ow, pe, c, bs, at, <<>>),
         NEW q, InBlock(bs, at, q), q \in Nat
  PROVE  /\ InFront(u, bs, at, c, q) /\ c \in Nat
         /\ OnLine(From(u, q - at + 1), ow, pe, c, bs, q, <<>>)
<1>1. PICK H, z, n, a, eb, cut, m, loc :
        /\ Reads(u, H, z) /\ History(H, n, a, eb) /\ OnTheWay(H, n, a, eb, pe)
        /\ Answering(H, z, ow, c, bs, at, m, loc)
        /\ CutBetween(z, n, a, bs, m, loc, cut) /\ Where(z, n, a, eb, <<>>)
  BY DEF OnLine
<1>2. bs \in AnswerBlocks
  BY DEF OnLine
<1>3. /\ H \in Seq(Letter) /\ z \in Nat /\ Len(H) \in Nat /\ Len(u) \in Nat /\ Len(H) = z + Len(u)
      /\ \A i \in 1 .. Len(u) : u[i] = H[z + i]
  BY <1>1, LenProperties DEF Reads
<1> DEFINE e == Ends(bs)[m]
<1>4. /\ at \in Nat /\ m \in 0 .. Len(bs) /\ Len(bs) \in Nat /\ bs \in AllBlocks /\ c \in Nat
      /\ at <= e /\ e \in Nat /\ e <= Len(Text(bs)) /\ Len(Text(bs)) \in Nat
  BY <1>1, <1>2, <1>3, AnswerBounds
<1>5. PICK b \in 1 .. Len(bs) : Ends(bs)[b - 1] < at /\ at <= q /\ q <= Ends(bs)[b]
  BY DEF InBlock
<1>6. b - 1 \in 0 .. Len(bs) /\ b \in 0 .. Len(bs)
  BY <1>4
<1> DEFINE lo == Ends(bs)[b - 1]
           hi == Ends(bs)[b]
<1>7. lo \in Nat /\ hi \in Nat
  BY <1>4, <1>6, TextType
<1>8. b \in 1 .. m /\ hi <= e
  <2>1. ASSUME ~(b <= m) PROVE FALSE
    <3>1. m <= b - 1
      BY <1>4, <2>1
    <3>2. e <= lo
      BY <1>4, <1>6, <3>1, EndsOrder
    <3> HIDE DEF e, lo
    <3>3. lo < at
      BY <1>5 DEF lo
    <3> QED BY <1>4, <1>7, <3>2, <3>3
  <2>2. b <= m /\ b \in 1 .. m
    BY <1>4, <2>1
  <2> QED BY <1>4, <1>6, <2>2, EndsOrder
<1>9. /\ lo < at /\ at <= q /\ q <= hi /\ hi <= e
      /\ \A r, s \in lo + 1 .. hi : loc[s] = loc[r] + (s - r)
  BY <1>1, <1>5, <1>8 DEF Answering
<1>10. \A r \in 1 .. e : LexemeAt(H, z, c, bs, at, loc, r)
  BY <1>1, <1>2, <1>3, AnswerFacts
<1> HIDE DEF e, lo, hi
<1>11. CASE q = at
  <2>1. q - at = 0 /\ q - at + 1 = 0 + 1 /\ z + 0 = z /\ 0 \in 0 .. Len(u)
    BY <1>3, <1>4, <1>11
  <2>2. Reads(From(u, 0 + 1), H, z + 0)
    BY <1>1, <2>1, ReadsOn
  <2>3. OnLine(From(u, 0 + 1), ow, pe, c, bs, at, <<>>)
    BY <1>1, <1>2, <2>1, <2>2 DEF OnLine
  <2>4. InFront(u, bs, at, c, q)
    <3>1. q <= Len(Text(bs)) /\ 1 .. 0 = {}
      BY <1>4, <1>11
    <3> QED BY <1>4, <2>1, <3>1 DEF InFront
  <2> QED BY <1>4, <1>11, <2>1, <2>3, <2>4
<1>12. CASE q # at
  <2>0. at \in lo + 1 .. hi /\ at \in 1 .. e /\ q \in lo + 1 .. hi /\ q \in 1 .. e
        /\ at + 1 \in lo + 1 .. hi /\ at + 1 \in 1 .. e
    BY <1>4, <1>7, <1>9, <1>12
  <2>1. z = loc[at]
    <3>1. loc[at] \in Nat /\ loc[at] <= z
      <4>1. LexemeAt(H, z, c, bs, at, loc, at)
        BY <1>10, <2>0
      <4> QED BY <1>4, <4>1 DEF LexemeAt
    <3>2. loc[at + 1] = loc[at] + 1
      <4>1. at + 1 - at = 1
        BY <1>4
      <4> QED BY <1>9, <2>0, <4>1
    <3>3. ~(loc[at + 1] <= z)
      <4>1. LexemeAt(H, z, c, bs, at, loc, at + 1)
        BY <1>10, <2>0
      <4>2. ~(at + 1 <= at)
        BY <1>4
      <4> QED BY <4>1, <4>2 DEF LexemeAt
    <3> QED BY <1>3, <3>1, <3>2, <3>3
  <2> DEFINE j == q - at
  <2>2. j \in Nat /\ j >= 1 /\ at + j = q
    BY <1>4, <1>9, <1>12
  <2> HIDE DEF j
  <2>3. ASSUME NEW i \in 1 .. j
        PROVE  z + i \in 1 .. Len(H) /\ H[z + i] = Said(bs, at + i, c)
    <3>1. at + i \in lo + 1 .. hi /\ at + i \in 1 .. e /\ at + i - at = i
      BY <1>4, <1>7, <1>9, <2>2
    <3>2. loc[at + i] = loc[at] + i
      BY <1>9, <2>0, <3>1
    <3>3. LexemeAt(H, z, c, bs, at, loc, at + i)
      BY <1>10, <3>1
    <3> QED BY <2>1, <3>2, <3>3 DEF LexemeAt
  <2>4. loc[q] = z + j
    BY <1>9, <2>0, <2>1 DEF j
  <2>5. j \in 1 .. Len(u) /\ j \in 0 .. Len(u)
    <3>1. z + j \in 1 .. Len(H)
      BY <2>2, <2>3
    <3> QED BY <1>3, <2>2, <3>1
  <2>6. \A i \in 1 .. j : u[i] = Said(bs, at + i, c)
    <3> SUFFICES ASSUME NEW i \in 1 .. j PROVE u[i] = Said(bs, at + i, c)
      OBVIOUS
    <3>1. i \in 1 .. Len(u)
      BY <1>3, <2>5
    <3> QED BY <1>3, <2>3, <3>1
  <2>7. OnLine(From(u, j + 1), ow, pe, c, bs, q, <<>>)
    BY <1>1, <1>2, <2>0, <2>4, <2>5, LineReadTo DEF e
  <2>8. q <= Len(Text(bs))
    BY <1>4, <1>7, <1>9
  <2>9. InFront(u, bs, at, c, q)
    BY <1>4, <2>5, <2>6, <2>8 DEF InFront, j
  <2> QED BY <1>4, <2>7, <2>9 DEF j
<1> QED BY <1>11, <1>12

-----------------------------------------------------------------------------
(* What a handler finds in the UART *)

\* Event k says e, and it is read as far as t: the history as far as z.
OwnAt(z, n, a, eb, k, e, t, p, l) ==
  /\ k \in 1 .. n /\ eb[k] = e /\ e \in EventBlocks /\ e \in AllBlocks
  /\ l = Len(Text(e)) /\ l \in Nat /\ t \in Nat /\ 1 <= t /\ t <= l
  /\ p = a[k] /\ p \in Nat \ {0} /\ z + 1 = p + t
  /\ Past(a, eb, k) = p + l

\* A handler has read j lexemes more of its event.
LEMMA LineEventRead ==
  ASSUME NEW u, NEW ow, NEW pe, NEW c, NEW bs \in AnswerBlocks, NEW at,
         NEW H, NEW z, NEW n, NEW a, NEW eb, NEW cut, NEW m, NEW loc,
         Reads(u, H, z), History(H, n, a, eb), OnTheWay(H, n, a, eb, pe),
         Answering(H, z, ow, c, bs, at, m, loc), CutBetween(z, n, a, bs, m, loc, cut),
         NEW k, NEW e, NEW t, NEW p, NEW l, OwnAt(z, n, a, eb, k, e, t, p, l),
         NEW j \in 0 .. Len(u), NEW r \in Nat, r = t + j, r <= l,
         NEW x, x.blocks = e, x.at = r
  PROVE  OnLine(From(u, j + 1), ow, pe, c, bs, at, <<x>>)
<1>1. /\ Reads(From(u, j + 1), H, z + j) /\ z + j \in Nat /\ z <= z + j /\ z + j <= Len(H)
      /\ H \in Seq(Letter) /\ z \in Nat
  BY ReadsOn
<1>2. k \in 1 .. n /\ eb[k] = e /\ l = Len(Text(e)) /\ p = a[k] /\ Past(a, eb, k) = p + l
  BY DEF OwnAt
<1>0. l \in Nat /\ t \in Nat /\ 1 <= t /\ t <= l /\ p \in Nat /\ 1 <= p /\ z + 1 = p + t
  BY DEF OwnAt
<1>3. n \in Nat
  BY DEF History
<1> DEFINE y == z + j
           h == Len(H)
<1>4. j \in Nat /\ h \in Nat
  <2>1. Len(u) \in Nat
    BY LenProperties DEF Reads
  <2> QED BY <1>1, <2>1, LenProperties
<1>5. y + 1 = p + r /\ y = p - 1 + r /\ y < p + l /\ p <= z + 1 /\ 1 <= r
  BY <1>0, <1>1, <1>4
<1>6. y \in Nat /\ z <= y /\ y <= h
  BY <1>1
<1> HIDE DEF y, h
<1>7. at \in Nat /\ Ends(bs)[m] \in Nat /\ at <= Ends(bs)[m]
  BY <1>1, AnswerBounds
<1>8. ASSUME NEW q \in 1 .. Ends(bs)[m] PROVE loc[q] <= y <=> q <= at
  <2> DEFINE v == loc[q]
  <2>1. LexemeAt(H, z, c, bs, at, loc, q)
    BY <1>1, AnswerFacts
  <2>2. v \in Nat /\ v <= h /\ (v <= z <=> q <= at)
    <3>1. v \in 1 .. h /\ (v <= z <=> q <= at)
      BY <2>1 DEF LexemeAt, h
    <3> QED BY <1>4, <3>1
  <2>3. ASSUME v <= y, ~(v <= z) PROVE FALSE
    <3>1. v \in p .. p + l - 1
      <4> HIDE DEF v
      <4>1. z \in Nat
        BY <1>1
      <4> QED BY <1>0, <1>5, <1>6, <2>2, <2>3, <4>1
    <3>2. EventLexeme(H, a, eb, k, v)
      <4>1. v \in a[k] .. Past(a, eb, k) - 1
        <5> DEFINE b == a[k]
                   d == Past(a, eb, k)
        <5>1. b = p /\ d = p + l
          BY <1>2
        <5> HIDE DEF b, d, v
        <5>2. v \in b .. d - 1
          BY <1>0, <2>2, <3>1, <5>1
        <5> QED BY <5>2 DEF b, d
      <4>2. v <= Len(H)
        BY <2>2 DEF h
      <4> HIDE DEF v
      <4> QED BY <1>2, <4>1, <4>2, EventAt
    <3> QED BY <2>1, <3>2 DEF EventLexeme, LexemeAt
  <2> HIDE DEF v
  <2>4. v <= z => v <= y
    BY <1>1, <1>6, <2>2
  <2>5. v <= y <=> q <= at
    BY <2>2, <2>3, <2>4
  <2> QED BY <2>5 DEF v
<1>9. Answering(H, y, ow, c, bs, at, m, loc)
  <2>1. y <= Len(H)
    BY <1>6 DEF h
  <2> QED BY <1>1, <1>6, <1>7, <1>8, <2>1, AnswerReadOn
<1>10. CutBetween(y, n, a, bs, m, loc, cut)
  <2>1. \A i \in 1 .. n : a[i] \in Nat
    BY EventFacts
  <2> QED BY <1>1, <1>3, <1>6, <2>1, CutReadOn
<1>11. Where(y, n, a, eb, <<x>>)
  <2>1. <<x>> # <<>> /\ <<x>>[1] = x
    OBVIOUS
  <2>2. r \in 1 .. l
    BY <1>0, <1>5
  <2> QED BY <1>2, <1>5, <2>1, <2>2 DEF Where
<1> QED BY <1>1, <1>9, <1>10, <1>11 DEF OnLine, y

\* Where its own event stands, and how much of it has come.
LEMMA OwnEvent ==
  ASSUME NEW H, NEW z, NEW n, NEW a, NEW eb, History(H, n, a, eb),
         NEW x, Where(z, n, a, eb, <<x>>)
  PROVE  \E k : OwnAt(z, n, a, eb, k, x.blocks, x.at, a[k], Len(Text(x.blocks)))
<1>1. <<x>> # <<>> /\ <<x>>[1] = x
  OBVIOUS
<1>2. PICK k \in 1 .. n : /\ eb[k] = x.blocks /\ z = a[k] - 1 + x.at
                          /\ x.at \in 1 .. Len(Text(eb[k]))
  BY <1>1 DEF Where
<1>3. /\ eb[k] \in EventBlocks /\ eb[k] \in AllBlocks /\ a[k] \in Nat \ {0}
      /\ Past(a, eb, k) = a[k] + Len(Text(eb[k])) /\ Len(Text(eb[k])) \in Nat
  BY EventFacts
<1> DEFINE t == x.at
           p == a[k]
           l == Len(Text(eb[k]))
<1>4. z = p - 1 + t /\ t \in 1 .. l /\ l \in Nat /\ p \in Nat \ {0}
  BY <1>2, <1>3
<1> HIDE DEF t, p, l
<1>5. z + 1 = p + t /\ t \in Nat /\ 1 <= t /\ t <= l
  BY <1>4
<1>6. OwnAt(z, n, a, eb, k, x.blocks, t, p, l)
  BY <1>2, <1>3, <1>4, <1>5 DEF OwnAt, p, l
<1> QED BY <1>2, <1>6 DEF t, p, l

\* What has come of a handler's event stands there.
LEMMA OwnLexeme ==
  ASSUME NEW H \in Seq(Letter), NEW z \in Nat, NEW n, NEW a, NEW eb, History(H, n, a, eb),
         NEW k, NEW e, NEW t, NEW p, NEW l, OwnAt(z, n, a, eb, k, e, t, p, l),
         NEW i \in 1 .. l, NEW y \in 1 .. Len(H), y + 1 = p + i
  PROVE  H[y] = Said(e, i, 0)
<1>1. k \in 1 .. n /\ eb[k] = e /\ l = Len(Text(e)) /\ p = a[k] /\ Past(a, eb, k) = p + l
  BY DEF OwnAt
<1>0. l \in Nat /\ p \in Nat /\ 1 <= p
  BY DEF OwnAt
<1> DEFINE h == Len(H)
<1>2. h \in Nat
  BY LenProperties
<1>3. y \in 1 .. h
  OBVIOUS
<1> HIDE DEF h
<1>4. y \in p .. p + l - 1 /\ y - p + 1 = i /\ y <= h
  BY <1>0, <1>2, <1>3
<1>5. y \in a[k] .. Past(a, eb, k) - 1
  <2> DEFINE b == a[k]
             d == Past(a, eb, k)
  <2>1. b = p /\ d = p + l
    BY <1>1
  <2> HIDE DEF b, d
  <2>2. y \in b .. d - 1
    BY <1>0, <1>4, <2>1
  <2> QED BY <2>2 DEF b, d
<1>6. EventLexeme(H, a, eb, k, y)
  <2>1. y <= Len(H)
    BY <1>4 DEF h
  <2> QED BY <1>1, <1>5, <2>1, EventAt
<1>7. H[y] = Said(eb[k], y - a[k] + 1, 0)
  <2>1. \A v \in a[k] .. Past(a, eb, k) - 1 : v <= Len(H) => H[v] = Said(eb[k], v - a[k] + 1, 0)
    BY <1>1 DEF History
  <2>2. y <= Len(H)
    BY <1>4 DEF h
  <2> QED BY <1>5, <2>1, <2>2
<1> QED BY <1>1, <1>4, <1>7

\* What a handler waits for and its event has is found there, before anything
\* that comes after the event.
LEMMA LineHandlerFinds ==
  ASSUME NEW u, NEW ow, NEW pe, NEW c, NEW bs, NEW at, NEW x, NEW S, NEW q, NEW j,
         OnLine(u, ow, pe, c, bs, at, <<x>>),
         q \in FirstAfter(x.blocks, x.at, S), j \in First(u, S)
  PROVE  /\ u[j].s = Text(x.blocks)[q].s /\ u[j].of = 0
         /\ \A y : y.blocks = x.blocks /\ y.at = q => OnLine(From(u, j + 1), ow, pe, c, bs, at, <<y>>)
<1>1. PICK H, z, n, a, eb, cut, m, loc :
        /\ Reads(u, H, z) /\ History(H, n, a, eb) /\ OnTheWay(H, n, a, eb, pe)
        /\ Answering(H, z, ow, c, bs, at, m, loc)
        /\ CutBetween(z, n, a, bs, m, loc, cut) /\ Where(z, n, a, eb, <<x>>)
  BY DEF OnLine
<1>2. bs \in AnswerBlocks
  BY DEF OnLine
<1> DEFINE h == Len(H)
           v == Len(u)
           e == x.blocks
           t == x.at
           l == Len(Text(e))
<1>3. H \in Seq(Letter) /\ z \in Nat /\ h \in Nat /\ v \in Nat /\ h = z + v
  BY <1>1, LenProperties DEF Reads
<1>4. PICK k : OwnAt(z, n, a, eb, k, e, t, a[k], l)
  BY <1>1, OwnEvent
<1> DEFINE p == a[k]
<1>5. OwnAt(z, n, a, eb, k, e, t, p, l)
  BY <1>4
<1>6. e \in EventBlocks /\ e \in AllBlocks /\ p \in Nat \ {0} /\ z + 1 = p + t
  BY <1>5 DEF OwnAt
<1>7. l \in Nat /\ t \in Nat /\ 1 <= t /\ t <= l
  BY <1>5 DEF OwnAt
<1>8. /\ q \in t + 1 .. l /\ Text(e)[q].s \in S
      /\ \A i \in t + 1 .. q - 1 : Text(e)[i].s \notin S
  BY DEF FirstAfter
<1>9. /\ j \in 1 .. v /\ z + j \in z + 1 .. h /\ u[j] = H[z + j] /\ u[j].s \in S
      /\ \A i \in z + 1 .. h : i < z + j => H[i].s \notin S
  BY <1>1, FirstInHistory
<1> HIDE DEF h, v, e, t, l, p
<1>10. ASSUME NEW i \in 1 .. l, NEW y \in 1 .. h, y + 1 = p + i
       PROVE  H[y] = Said(e, i, 0) /\ H[y].s = Text(e)[i].s /\ H[y].of = 0
  <2>1. y \in 1 .. Len(H) /\ i \in 1 .. Len(Text(e))
    BY DEF h, l
  <2>2. H[y] = Said(e, i, 0)
    BY <1>1, <1>3, <1>5, <1>10, <2>1, OwnLexeme
  <2> QED BY <1>6, <2>1, <2>2, SaidType
<1>11. j <= q - t
  <2>1. ASSUME ~(j <= q - t) PROVE FALSE
    <3> DEFINE y == p + q - 1
    <3>1. y \in 1 .. h /\ y + 1 = p + q /\ q \in 1 .. l /\ y \in z + 1 .. h /\ y < z + j
      BY <1>3, <1>6, <1>7, <1>8, <1>9, <2>1
    <3> HIDE DEF y
    <3>2. H[y].s \in S
      BY <1>8, <1>10, <3>1
    <3> QED BY <1>9, <3>1, <3>2
  <2> QED BY <2>1
<1> DEFINE r == t + j
           y == z + j
<1>12. /\ r \in 1 .. l /\ r \in t + 1 .. l /\ r <= q /\ y + 1 = p + r /\ y \in 1 .. h
       /\ j \in 0 .. v /\ r \in Nat /\ r <= l /\ (r # q => r \in t + 1 .. q - 1)
  BY <1>3, <1>6, <1>7, <1>8, <1>9, <1>11
<1>13. r = t + j /\ u[j] = H[y] /\ u[j].s \in S
  BY <1>9
<1> HIDE DEF r, y
<1>14. H[y].s = Text(e)[r].s /\ H[y].of = 0
  BY <1>10, <1>12
<1>15. r = q
  BY <1>8, <1>12, <1>13, <1>14
<1>16. ASSUME NEW w, w.blocks = x.blocks, w.at = q
       PROVE  OnLine(From(u, j + 1), ow, pe, c, bs, at, <<w>>)
  <2>1. w.blocks = e /\ w.at = r /\ j \in 0 .. Len(u)
    BY <1>12, <1>15, <1>16 DEF e, v
  <2> QED BY <1>1, <1>2, <1>5, <1>12, <1>13, <2>1, LineEventRead
<1> QED BY <1>13, <1>14, <1>15, <1>16 DEF e

\* A handler whose event has come and has what it waits for does not run out
\* of time.
LEMMA LineHandlerStarved ==
  ASSUME NEW u, NEW ow, NEW c, NEW bs, NEW at, NEW x, OnLine(u, ow, <<>>, c, bs, at, <<x>>),
         NEW S, NEW q \in FirstAfter(x.blocks, x.at, S), Lacks(u, S)
  PROVE  FALSE
<1>1. PICK H, z, n, a, eb :
        Reads(u, H, z) /\ History(H, n, a, eb) /\ OnTheWay(H, n, a, eb, <<>>)
        /\ Where(z, n, a, eb, <<x>>)
  BY DEF OnLine
<1> DEFINE h == Len(H)
           v == Len(u)
           e == x.blocks
           t == x.at
           l == Len(Text(e))
<1>2. H \in Seq(Letter) /\ z \in Nat /\ h \in Nat /\ v \in Nat /\ h = z + v /\ DOMAIN u = 1 .. v
  BY <1>1, LenProperties DEF Reads
<1>3. PICK k : OwnAt(z, n, a, eb, k, e, t, a[k], l)
  BY <1>1, OwnEvent
<1> DEFINE p == a[k]
<1>4. OwnAt(z, n, a, eb, k, e, t, p, l)
  BY <1>3
<1>5. p \in Nat /\ 1 <= p /\ z + 1 = p + t /\ l \in Nat /\ t \in Nat /\ 1 <= t /\ t <= l
  BY <1>4 DEF OwnAt
<1>6. q \in t + 1 .. l /\ Text(e)[q].s \in S
  BY DEF FirstAfter
<1> DEFINE d == Past(a, eb, k)
<1>7. d <= h + 1 /\ d = p + l
  <2>1. k \in 1 .. n /\ Past(a, eb, k) = a[k] + l
    BY <1>4 DEF OwnAt
  <2> QED BY <1>1, <1>2, <2>1, AllArrived
<1>8. e \in AllBlocks
  BY <1>4 DEF OwnAt
<1> HIDE DEF h, v, e, t, l, p, d
<1> DEFINE y == p + q - 1
           i == y - z
<1>9. y \in 1 .. h /\ y + 1 = p + q /\ q \in 1 .. l /\ i \in 1 .. v /\ z + i = y
  BY <1>2, <1>5, <1>6, <1>7
<1> HIDE DEF y, i
<1>10. H[y] = Said(e, q, 0)
  BY <1>1, <1>2, <1>4, <1>9, OwnLexeme DEF h
<1>11. H[y].s = Text(e)[q].s
  BY <1>8, <1>9, <1>10, SaidType DEF l
<1>12. u[i] = H[y]
  <2>1. \A r \in 1 .. Len(u) : u[r] = H[z + r]
    BY <1>1 DEF Reads
  <2> QED BY <1>9, <2>1 DEF v
<1> QED BY <1>2, <1>6, <1>9, <1>11, <1>12 DEF Lacks

\* Nothing comes between inside a block of an event either.
LEMMA LineHandlerInBlock ==
  ASSUME NEW u, NEW ow, NEW pe, NEW c, NEW bs, NEW at, NEW x, OnLine(u, ow, pe, c, bs, at, <<x>>),
         NEW q, InBlock(x.blocks, x.at, q), q \in Nat
  PROVE  /\ InFront(u, x.blocks, x.at, 0, q)
         /\ \A y : y.blocks = x.blocks /\ y.at = q =>
              OnLine(From(u, q - x.at + 1), ow, pe, c, bs, at, <<y>>)
<1>1. PICK H, z, n, a, eb, cut, m, loc :
        /\ Reads(u, H, z) /\ History(H, n, a, eb) /\ OnTheWay(H, n, a, eb, pe)
        /\ Answering(H, z, ow, c, bs, at, m, loc)
        /\ CutBetween(z, n, a, bs, m, loc, cut) /\ Where(z, n, a, eb, <<x>>)
  BY DEF OnLine
<1>2. bs \in AnswerBlocks
  BY DEF OnLine
<1> DEFINE h == Len(H)
           v == Len(u)
           e == x.blocks
           t == x.at
           l == Len(Text(e))
<1>3. H \in Seq(Letter) /\ z \in Nat /\ h \in Nat /\ v \in Nat /\ h = z + v
  BY <1>1, LenProperties DEF Reads
<1>4. PICK k : OwnAt(z, n, a, eb, k, e, t, a[k], l)
  BY <1>1, OwnEvent
<1> DEFINE p == a[k]
<1>5. OwnAt(z, n, a, eb, k, e, t, p, l)
  BY <1>4
<1>6. p \in Nat /\ 1 <= p /\ z + 1 = p + t /\ l \in Nat /\ t \in Nat /\ 1 <= t /\ t <= l
  BY <1>5 DEF OwnAt
<1>7. k \in 1 .. n /\ eb[k] = e /\ e \in AllBlocks /\ l = Len(Text(e))
  BY <1>5 DEF OwnAt
<1>8. PICK b \in 1 .. Len(e) : Ends(e)[b - 1] < t /\ t <= q /\ q <= Ends(e)[b]
  BY DEF InBlock
<1>9. PICK d \in 0 .. Len(eb[k]) : ComeTo(H, n, a, eb, pe, k, d)
  BY <1>1, <1>3, <1>7, Arrived
<1> DEFINE lo == Ends(e)[b - 1]
           hi == Ends(e)[b]
           to == Ends(e)[d]
<1>10. d \in 0 .. Len(e) /\ p + to <= h + 1 /\ (d < Len(e) => h + 1 = p + to)
  BY <1>7, <1>9 DEF ComeTo
<1>11. Len(e) \in Nat /\ b - 1 \in 0 .. Len(e) /\ b \in 0 .. Len(e)
  BY <1>7, BlocksType
<1>12. /\ lo \in Nat /\ hi \in Nat /\ to \in Nat /\ hi <= l /\ to <= l
       /\ (d = Len(e) => to = l) /\ (b <= d => hi <= to) /\ (d <= b - 1 => to <= lo)
  BY <1>7, <1>10, <1>11, EndsOrder, TextType
<1>13. lo < t /\ t <= q /\ q <= hi
  BY <1>8
<1> HIDE DEF h, v, e, t, l, p, lo, hi, to
<1>14. t <= to
  <2>1. CASE d = Len(e)
    BY <1>6, <1>12, <2>1
  <2>2. CASE d < Len(e)
    BY <1>3, <1>6, <1>10, <1>12, <2>2
  <2> QED BY <1>10, <1>11, <2>1, <2>2
<1>15. q <= to
  <2>1. ~(d <= b - 1)
    BY <1>6, <1>12, <1>13, <1>14
  <2>2. b <= d
    BY <1>10, <1>11, <2>1
  <2> QED BY <1>12, <1>13, <2>2
<1> DEFINE j == q - t
<1>16. j \in 0 .. v /\ q = t + j /\ q <= l /\ j \in Nat /\ z + j <= h
  BY <1>3, <1>6, <1>10, <1>12, <1>13, <1>15
<1> HIDE DEF j
<1>17. ASSUME NEW i \in 1 .. j PROVE u[i] = Said(e, t + i, 0)
  <2> DEFINE y == z + i
             r == t + i
  <2>1. y \in 1 .. h /\ y + 1 = p + r /\ r \in 1 .. l /\ i \in 1 .. v
    BY <1>3, <1>6, <1>16
  <2>2. u[i] = H[y]
    <3>1. \A s \in 1 .. Len(u) : u[s] = H[z + s]
      BY <1>1 DEF Reads
    <3> QED BY <2>1, <3>1 DEF v
  <2> HIDE DEF y, r
  <2>3. H[y] = Said(e, r, 0)
    BY <1>1, <1>3, <1>5, <2>1, OwnLexeme DEF h
  <2> QED BY <2>2, <2>3 DEF r
<1>18. InFront(u, e, t, 0, q)
  <2>1. q - t \in 0 .. Len(u) /\ q <= Len(Text(e))
    BY <1>7, <1>16 DEF v, j
  <2>2. \A i \in 1 .. q - t : u[i] = Said(e, t + i, 0)
    BY <1>17 DEF j
  <2> QED BY <1>6, <2>1, <2>2 DEF InFront
<1>19. ASSUME NEW y, y.blocks = e, y.at = q
       PROVE  OnLine(From(u, j + 1), ow, pe, c, bs, at, <<y>>)
  <2>1. j \in 0 .. Len(u)
    BY <1>16 DEF v
  <2> QED BY <1>1, <1>2, <1>5, <1>16, <1>19, <2>1, LineEventRead
<1> QED BY <1>18, <1>19 DEF e, t, j

\* A handler that has read its event to the end leaves the line to the
\* function it has interrupted.
LEMMA LineHandlerReturns ==
  ASSUME NEW u, NEW ow, NEW pe, NEW c, NEW bs, NEW at, NEW x, OnLine(u, ow, pe, c, bs, at, <<x>>),
         x.at = Len(Text(x.blocks))
  PROVE  OnLine(u, ow, pe, c, bs, at, <<>>)
<1>1. PICK H, z, n, a, eb, cut, m, loc :
        /\ Reads(u, H, z) /\ History(H, n, a, eb) /\ OnTheWay(H, n, a, eb, pe)
        /\ Answering(H, z, ow, c, bs, at, m, loc)
        /\ CutBetween(z, n, a, bs, m, loc, cut) /\ Where(z, n, a, eb, <<x>>)
  BY DEF OnLine
<1>2. PICK k : OwnAt(z, n, a, eb, k, x.blocks, x.at, a[k], Len(Text(x.blocks)))
  BY <1>1, OwnEvent
<1> DEFINE p == a[k]
           l == Len(Text(x.blocks))
           d == Past(a, eb, k)
<1>3. k \in 1 .. n /\ d = p + l /\ p \in Nat /\ l \in Nat /\ 1 <= l /\ z + 1 = p + l
  BY <1>2 DEF OwnAt
<1>4. z \in Nat /\ n \in Nat
  BY <1>1 DEF Reads, History
<1>5. Where(z, n, a, eb, <<>>)
  <2> SUFFICES ASSUME NEW i \in 1 .. n PROVE a[i] > z \/ Past(a, eb, i) <= z + 1
    BY DEF Where
  <2> DEFINE r == a[i]
             s == Past(a, eb, i)
  <2>1. r \in Nat /\ s \in Nat
    BY <1>1, EventFacts
  <2>2. (i < k => s <= p) /\ (k < i => d <= r)
    BY <1>1, <1>3 DEF History
  <2>3. i = k => s = d
    OBVIOUS
  <2> HIDE DEF p, l, d, r, s
  <2>4. r > z \/ s <= z + 1
    BY <1>3, <1>4, <2>1, <2>2, <2>3
  <2> QED BY <2>4 DEF r, s
<1>6. bs \in AnswerBlocks
  BY DEF OnLine
<1> QED BY <1>1, <1>5, <1>6 DEF OnLine

-----------------------------------------------------------------------------
(* Points of the functions on the stack *)

\* The runs of which the outline says what happens.
Careful == /\ Port = "Arduino" /\ ~Interleaved /\ MaxEarly = 0 /\ MaxCuts = 0
           /\ Tasks \subseteq Outlined /\ HandlerTasks \subseteq Outlined

\* Frame f is at point p of its outline.
FrameAt(f, p) ==
  /\ f.task \in Outlined /\ p \in Points(f.task, f.pc)
  /\ p.nums = f.nums /\ p.got = f.got /\ p.ret = f.ret

Handling(f) == f.task \in HandlerTasks

\* A handler is innermost, and every other function is the one called below.
Placed(st, pts) ==
  /\ DOMAIN pts = 1 .. Len(st)
  /\ \A i \in 1 .. Len(st) : FrameAt(st[i], pts[i])
  /\ \A i \in 1 .. Len(st) : Handling(st[i]) =>
       /\ i = Len(st)
       /\ st[i].place \in DOMAIN Handlers /\ Handlers[st[i].place] = st[i].task
  /\ \A i \in 2 .. Len(st) : ~Handling(st[i]) =>
       Script[st[i - 1].task][st[i - 1].pc].arg[1] = st[i].task

AllDone(pts, n) == \A i \in 1 .. n : pts[i].done

\* What is on the line for a function at point p, and its handler.
Carries(u, ow, pe, s, p, own) ==
  \E c : OnLine(u, ow, pe, c, p.blocks, p.at, own) /\ (p.blocks # <<>> => c = s)

\* The function that reads is at point p.
Reading(st, pts, u, ow, pe, s, p) ==
  LET n == Len(st)
  IN  IF Handling(st[n]) THEN p = pts[n - 1] /\ Carries(u, ow, pe, s, p, <<pts[n]>>)
                         ELSE p = pts[n] /\ Carries(u, ow, pe, s, p, <<>>)

\* A function that is at rest between two calls of the application.
Rested == Start(FALSE)

Outlining(st, pts, u, ow, pe, s, pr, dn) ==
  /\ Placed(st, pts)
  /\ dn = AllDone(pts, Len(st))
  /\ \E p : Reading(st, pts, u, ow, pe, s, p) /\ pr = p.prompted

OInv ==
  /\ ring = <<>> /\ lost = 0
  /\ prompted => sent # 0
  /\ stack = <<>> => Carries(uart, owed, pending, sent, Rested, <<>>)
  /\ stack # <<>> => \E pts : Outlining(stack, pts, uart, owed, pending, sent, prompted, done)

LEMMA OutlineFacts ==
  ASSUME NEW f, NEW p, FrameAt(f, p), f.pc \in Label(f.task)
  PROVE  /\ f.task \in Outlined /\ f.task \in DOMAIN Script
         /\ p \in Point /\ p.at \in Nat /\ p.at <= Whole(p) /\ Belongs(f.task, p)
         /\ f.pc \in DOMAIN Script[f.task] => Leads(f.task, f.pc, p)
         /\ f.pc \notin DOMAIN Script[f.task] => f.pc \in Exits /\ Finishes(f.task, f.pc, p)
<1>1. f.task \in Outlined /\ p \in Points(f.task, f.pc)
  BY DEF FrameAt
<1>2. /\ f.task \in DOMAIN Script
      /\ \A l \in Label(f.task) : \A x \in Points(f.task, l) :
           x \in Point /\ x.at <= Whole(x) /\ Belongs(f.task, x)
      /\ \A l \in DOMAIN Script[f.task] : \A x \in Points(f.task, l) : Leads(f.task, l, x)
      /\ \A l \in Exits : \A x \in Points(f.task, l) : Finishes(f.task, l, x)
  BY <1>1, OutlineAssumption
<1>3. f.pc \notin DOMAIN Script[f.task] => f.pc \in Exits
  BY DEF Label, Exits
<1>4. p \in Point => p.at \in Nat
  BY DEF Point
<1> QED BY <1>1, <1>2, <1>3, <1>4

\* A frame that is not in a handler is in an answer, a handler in an event.
LEMMA PointBlocks ==
  ASSUME NEW f, NEW p, FrameAt(f, p), f.pc \in Label(f.task)
  PROVE  /\ p.blocks \in AllBlocks
         /\ Handling(f) => p.blocks \in EventBlocks /\ p.done
         /\ ~Handling(f) => p.blocks \in AnswerBlocks
<1>1. Belongs(f.task, p)
  BY OutlineFacts
<1> QED BY <1>1 DEF Belongs, Handling, AllBlocks

\* The innermost function goes on to another point.
LEMMA PlacedOn ==
  ASSUME NEW st, NEW pts, NEW f, NEW p, Placed(st, pts), StackIn(st), st # <<>>,
         FrameAt(f, p), f.task = st[Len(st)].task, f.place = st[Len(st)].place
  PROVE  LET n == Len(st)
             s == [st EXCEPT ![n] = f]
             x == [pts EXCEPT ![n] = p]
         IN  /\ Placed(s, x) /\ Len(s) = n /\ s # <<>> /\ s[n] = f /\ x[n] = p
             /\ \A i \in 1 .. n - 1 : s[i] = st[i] /\ x[i] = pts[i]
             /\ \A d \in BOOLEAN : p.done = (pts[n].done /\ d) =>
                                     AllDone(x, n) = (AllDone(pts, n) /\ d)
<1> DEFINE n == Len(st)
           s == [st EXCEPT ![n] = f]
           x == [pts EXCEPT ![n] = p]
<1>1. st \in Seq(Frames) /\ n \in Nat \ {0} /\ DOMAIN st = 1 .. n /\ DOMAIN pts = 1 .. n
  BY DEF StackIn, Placed
<1>2. n \in 1 .. n
  <2> HIDE DEF n
  <2> QED BY <1>1
<1>3. DOMAIN s = 1 .. n /\ DOMAIN x = 1 .. n
  BY <1>1
<1>4. s[n] = f /\ x[n] = p
  BY <1>1, <1>2
<1>5. \A i \in 1 .. n : i # n => s[i] = st[i] /\ x[i] = pts[i]
  BY <1>1
<1>6. Len(s) = n /\ s # <<>>
  <2>1. Len(s) = n
    BY <1>1, <1>3, LenProperties
  <2> QED BY <1>1, <2>1
<1>7. \A i \in 1 .. n : s[i].task = st[i].task /\ s[i].place = st[i].place
  BY <1>4, <1>5
<1>8. f.task = st[n].task /\ f.place = st[n].place
  OBVIOUS
<1> HIDE DEF n, s, x
<1>9. \A i \in 2 .. n : i - 1 \in 1 .. n /\ i - 1 # n /\ i \in 1 .. n
  BY <1>1
<1>10. \A i \in 1 .. n - 1 : i \in 1 .. n /\ i # n
  BY <1>1
<1>11. /\ \A i \in 1 .. n : FrameAt(st[i], pts[i])
       /\ \A i \in 1 .. n : Handling(st[i]) =>
            i = n /\ st[i].place \in DOMAIN Handlers /\ Handlers[st[i].place] = st[i].task
       /\ \A i \in 2 .. n : ~Handling(st[i]) =>
            Script[st[i - 1].task][st[i - 1].pc].arg[1] = st[i].task
  BY DEF Placed, n
<1>12. \A i \in 1 .. n : FrameAt(s[i], x[i])
  BY <1>4, <1>5, <1>11
<1>13. \A i \in 1 .. n : Handling(s[i]) =>
            i = n /\ s[i].place \in DOMAIN Handlers /\ Handlers[s[i].place] = s[i].task
  BY <1>7, <1>11 DEF Handling
<1>14. \A i \in 2 .. n : ~Handling(s[i]) =>
            Script[s[i - 1].task][s[i - 1].pc].arg[1] = s[i].task
  BY <1>5, <1>7, <1>9, <1>11 DEF Handling
<1>15. Placed(s, x)
  BY <1>3, <1>6, <1>12, <1>13, <1>14 DEF Placed
<1>16. ASSUME NEW d \in BOOLEAN, p.done = (pts[n].done /\ d)
       PROVE  AllDone(x, n) = (AllDone(pts, n) /\ d)
  <2>1. \A i \in 1 .. n : i # n => x[i].done = pts[i].done
    BY <1>5
  <2>2. x[n].done = (pts[n].done /\ d) /\ n \in 1 .. n
    BY <1>1, <1>4, <1>16
  <2> QED BY <2>1, <2>2 DEF AllDone
<1> QED BY <1>4, <1>5, <1>6, <1>10, <1>15, <1>16 DEF n, s, x

\* It is at another point of the same label.
LEMMA PlacedAgain ==
  ASSUME NEW st, NEW pts, NEW p, Placed(st, pts), StackIn(st), st # <<>>,
         FrameAt(st[Len(st)], p), p.done = pts[Len(st)].done
  PROVE  \E x : /\ Placed(st, x) /\ x[Len(st)] = p
                /\ AllDone(x, Len(st)) = AllDone(pts, Len(st))
<1> DEFINE n == Len(st)
           x == [pts EXCEPT ![n] = p]
<1>1. DOMAIN pts = 1 .. n /\ n \in Nat \ {0}
  BY DEF StackIn, Placed
<1>2. n \in 1 .. n
  <2> HIDE DEF n
  <2> QED BY <1>1
<1>3. DOMAIN x = 1 .. n /\ x[n] = p /\ \A i \in 1 .. n : i # n => x[i] = pts[i]
  BY <1>1, <1>2
<1> HIDE DEF x
<1>4. Placed(st, x)
  BY <1>3 DEF Placed
<1>5. AllDone(x, n) = AllDone(pts, n)
  BY <1>3 DEF AllDone
<1> QED BY <1>3, <1>4, <1>5

\* Another function starts on top of it.
LEMMA PlacedPush ==
  ASSUME NEW st, NEW pts, Placed(st, pts), StackIn(st), st # <<>>, ~Handling(st[Len(st)]),
         NEW f \in Frames, NEW p, FrameAt(f, p),
         Handling(f) => f.place \in DOMAIN Handlers /\ Handlers[f.place] = f.task,
         ~Handling(f) => Script[st[Len(st)].task][st[Len(st)].pc].arg[1] = f.task
  PROVE  LET n == Len(st)
             s == Append(st, f)
         IN  \E x : /\ Placed(s, x) /\ Len(s) = n + 1 /\ s # <<>> /\ s[n + 1] = f /\ x[n + 1] = p
                    /\ \A i \in 1 .. n : s[i] = st[i] /\ x[i] = pts[i]
                    /\ AllDone(x, n + 1) = (AllDone(pts, n) /\ p.done)
<1> DEFINE n == Len(st)
           s == Append(st, f)
           x == [i \in 1 .. n + 1 |-> IF i = n + 1 THEN p ELSE pts[i]]
<1>1. st \in Seq(Frames) /\ n \in Nat \ {0} /\ DOMAIN pts = 1 .. n
  BY DEF StackIn, Placed
<1>2. s \in Seq(Frames) /\ Len(s) = n + 1 /\ s[n + 1] = f /\ \A i \in 1 .. n : s[i] = st[i]
  BY <1>1, AppendProperties
<1>3. /\ n + 1 \in 1 .. n + 1 /\ \A i \in 1 .. n : i \in 1 .. n + 1 /\ i # n + 1
      /\ \A i \in 1 .. n + 1 : i = n + 1 \/ i \in 1 .. n
      /\ \A i \in 2 .. n + 1 : i - 1 \in 1 .. n /\ (i = n + 1 => i - 1 = n) /\ (i # n + 1 => i \in 2 .. n)
  <2> HIDE DEF n
  <2> QED BY <1>1
<1>4. s # <<>>
  <2> HIDE DEF s, n
  <2> QED BY <1>1, <1>2
<1>5. x[n + 1] = p /\ \A i \in 1 .. n : x[i] = pts[i]
  BY <1>3
<1>6. DOMAIN x = 1 .. n + 1
  OBVIOUS
<1>7. /\ \A i \in 1 .. n : FrameAt(st[i], pts[i])
      /\ \A i \in 1 .. n : ~Handling(st[i]) \/ i = n
      /\ \A i \in 2 .. n : ~Handling(st[i]) =>
           Script[st[i - 1].task][st[i - 1].pc].arg[1] = st[i].task
  BY DEF Placed
<1>8. ~Handling(st[n]) /\ (~Handling(f) => Script[st[n].task][st[n].pc].arg[1] = f.task)
  OBVIOUS
<1> HIDE DEF n, s, x
<1>9. \A i \in 1 .. n + 1 : FrameAt(s[i], x[i])
  BY <1>2, <1>3, <1>5, <1>7
<1>10. \A i \in 1 .. n + 1 : Handling(s[i]) =>
            i = n + 1 /\ s[i].place \in DOMAIN Handlers /\ Handlers[s[i].place] = s[i].task
  BY <1>2, <1>3, <1>7, <1>8
<1>11. \A i \in 2 .. n + 1 : ~Handling(s[i]) =>
            Script[s[i - 1].task][s[i - 1].pc].arg[1] = s[i].task
  <2> SUFFICES ASSUME NEW i \in 2 .. n + 1, ~Handling(s[i])
               PROVE Script[s[i - 1].task][s[i - 1].pc].arg[1] = s[i].task
    OBVIOUS
  <2>1. s[i - 1] = st[i - 1] /\ i \in 1 .. n + 1
    <3>1. i \in 1 .. n + 1
      BY <1>1
    <3> QED BY <1>2, <1>3, <3>1
  <2>2. CASE i = n + 1
    BY <1>2, <1>3, <1>8, <2>1, <2>2
  <2>3. CASE i # n + 1
    <3>1. i \in 2 .. n /\ i \in 1 .. n
      BY <1>3, <2>1, <2>3
    <3> QED BY <1>2, <1>7, <2>1, <3>1
  <2> QED BY <2>2, <2>3
<1>12. Placed(s, x)
  BY <1>2, <1>6, <1>9, <1>10, <1>11 DEF Placed
<1>13. AllDone(x, n + 1) = (AllDone(pts, n) /\ p.done)
  BY <1>3, <1>5 DEF AllDone
<1>14. \A i \in 1 .. n : s[i] = st[i] /\ x[i] = pts[i]
  BY <1>2, <1>5
<1> QED BY <1>2, <1>4, <1>5, <1>12, <1>13, <1>14 DEF n, s

\* The innermost function has returned.
LEMMA PlacedPop ==
  ASSUME NEW st, NEW pts, Placed(st, pts), StackIn(st), Len(st) > 1
  PROVE  LET n == Len(st)
             s == SubSeq(st, 1, n - 1)
         IN  \E x : /\ Placed(s, x) /\ Len(s) = n - 1 /\ s # <<>> /\ StackIn(s)
                    /\ \A i \in 1 .. n - 1 : s[i] = st[i] /\ x[i] = pts[i]
                    /\ ~Handling(s[n - 1])
                    /\ AllDone(pts, n) = (AllDone(x, n - 1) /\ pts[n].done)
<1> DEFINE n == Len(st)
           s == SubSeq(st, 1, n - 1)
           x == [i \in 1 .. n - 1 |-> pts[i]]
<1>1. st \in Seq(Frames) /\ n \in Nat /\ n > 1
  BY DEF StackIn
<1>2. st # <<>>
  BY <1>1
<1>3. StackIn(s) /\ Len(s) = n - 1 /\ \A i \in 1 .. n - 1 : s[i] = st[i]
  BY <1>2, Pop
<1>4. /\ n - 1 \in 1 .. n - 1 /\ n \in 1 .. n /\ n - 1 # n /\ n - 1 \in Nat /\ n - 1 # 0
      /\ \A i \in 1 .. n - 1 : i \in 1 .. n /\ i # n
      /\ \A i \in 1 .. n : i \in 1 .. n - 1 \/ i = n
      /\ \A i \in 2 .. n - 1 : i \in 2 .. n /\ i - 1 \in 1 .. n - 1 /\ i \in 1 .. n - 1
  <2> HIDE DEF n
  <2> QED BY <1>1
<1>5. DOMAIN x = 1 .. n - 1 /\ \A i \in 1 .. n - 1 : x[i] = pts[i]
  OBVIOUS
<1>6. /\ \A i \in 1 .. n : FrameAt(st[i], pts[i])
      /\ \A i \in 1 .. n : ~Handling(st[i]) \/ i = n
      /\ \A i \in 2 .. n : ~Handling(st[i]) =>
           Script[st[i - 1].task][st[i - 1].pc].arg[1] = st[i].task
  BY DEF Placed
<1> HIDE DEF n, s, x
<1>7. \A i \in 1 .. n - 1 : FrameAt(s[i], x[i]) /\ ~Handling(s[i])
  BY <1>3, <1>4, <1>5, <1>6
<1>8. \A i \in 2 .. n - 1 : Script[s[i - 1].task][s[i - 1].pc].arg[1] = s[i].task
  <2> SUFFICES ASSUME NEW i \in 2 .. n - 1
               PROVE Script[s[i - 1].task][s[i - 1].pc].arg[1] = s[i].task
    OBVIOUS
  <2>1. i \in 2 .. n /\ i \in 1 .. n - 1 /\ s[i - 1] = st[i - 1] /\ s[i] = st[i]
    BY <1>3, <1>4
  <2> QED BY <1>6, <1>7, <2>1
<1>9. Placed(s, x)
  BY <1>3, <1>5, <1>7, <1>8 DEF Placed
<1>10. AllDone(pts, n) = (AllDone(x, n - 1) /\ pts[n].done)
  BY <1>4, <1>5 DEF AllDone
<1>11. s # <<>>
  BY <1>3, <1>4
<1> QED BY <1>3, <1>4, <1>5, <1>7, <1>9, <1>10, <1>11 DEF n, s

-----------------------------------------------------------------------------
(* What is read inside a block *)

\* A read that stops at the first of some strings stops where the outline has it.
LEMMA FirstInFront ==
  ASSUME NEW u \in Seq(Letter), NEW bs \in AllBlocks, NEW at \in Nat, NEW c \in Nat, NEW S,
         NEW q \in Nat, q \in FirstAfter(bs, at, S),
         InFront(u, bs, at, c, q)
  PROVE  /\ q - at \in 1 .. Len(u) /\ u[q - at].s \in S /\ u[q - at] = Said(bs, q, c)
         /\ u[q - at].s = Text(bs)[q].s /\ u[q - at].n = Text(bs)[q].n /\ u[q - at].of = c
         /\ \A j \in DOMAIN u : j \in First(u, S) => j = q - at
<1> DEFINE t == Len(Text(bs))
           v == Len(u)
           k == q - at
<1>1. k \in 0 .. v /\ q \in Nat /\ at \in Nat /\ \A i \in 1 .. k : u[i] = Said(bs, at + i, c)
  BY DEF InFront
<1>2. /\ q \in at + 1 .. t /\ Text(bs)[q].s \in S
      /\ \A i \in at + 1 .. q - 1 : Text(bs)[i].s \notin S
  BY DEF FirstAfter
<1>3. t \in Nat
  BY TextType
<1>4. k \in Nat /\ at + k = q /\ k >= 1
  <2> HIDE DEF t, v
  <2> QED BY <1>1, <1>2
<1> HIDE DEF k
<1>5. k \in 1 .. v /\ k \in 1 .. k
  <2> HIDE DEF v
  <2> QED BY <1>1, <1>4
<1>6. u[k] = Said(bs, q, c)
  BY <1>1, <1>4, <1>5
<1>7. q \in 1 .. Len(Text(bs))
  <2>1. q \in 1 .. t
    <3> HIDE DEF t
    <3> QED BY <1>1, <1>2
  <2> QED BY <2>1
<1>8. u[k].s = Text(bs)[q].s /\ u[k].n = Text(bs)[q].n /\ u[k].of = c
  BY <1>6, <1>7, SaidType
<1>9. ASSUME NEW j \in DOMAIN u, j \in First(u, S) PROVE j = k
  <2>1. u[j].s \in S /\ \A i \in 1 .. j - 1 : u[i].s \notin S
    BY <1>9 DEF First
  <2>2. ASSUME j < k, j >= 1, j \in Nat PROVE FALSE
    <3> DEFINE i == at + j
    <3>1. j \in 1 .. k /\ i \in at + 1 .. q - 1 /\ i \in 1 .. t
      <4>1. q <= t /\ q \in Nat /\ at \in Nat
        BY <1>1, <1>2, <1>3
      <4> HIDE DEF t
      <4> QED BY <1>3, <1>4, <2>2, <4>1
    <3>2. u[j] = Said(bs, i, c)
      BY <1>1, <3>1
    <3> HIDE DEF i
    <3>3. u[j].s = Text(bs)[i].s
      BY <3>1, <3>2, SaidType
    <3> QED BY <1>2, <2>1, <3>1, <3>3
  <2>3. ASSUME j > k, j \in Nat PROVE FALSE
    <3>1. k \in 1 .. j - 1
      BY <1>4, <2>3
    <3> QED BY <1>2, <1>8, <2>1, <3>1
  <2>4. j \in 1 .. v
    <3>1. DOMAIN u = 1 .. v
      BY LenProperties
    <3> QED BY <1>9, <3>1
  <2> QED BY <1>4, <2>2, <2>3, <2>4
<1> QED BY <1>2, <1>5, <1>6, <1>8, <1>9 DEF k, v

\* A stretch of a sequence.
LEMMA Stretch ==
  ASSUME NEW S, NEW s \in Seq(S), NEW at \in Nat, NEW q \in Nat, at <= q, q <= Len(s)
  PROVE  /\ SubSeq(s, at + 1, q) \in Seq(S)
         /\ Len(SubSeq(s, at + 1, q)) = q - at /\ DOMAIN SubSeq(s, at + 1, q) = 1 .. q - at
         /\ \A i \in 1 .. q - at : SubSeq(s, at + 1, q)[i] = s[at + i] /\ at + i \in 1 .. Len(s)
<1> DEFINE w == SubSeq(s, at + 1, q)
           h == Len(s)
<1>1. h \in Nat
  BY LenProperties
<1>2. at + 1 \in Int /\ q \in Int /\ \A i \in at + 1 .. q : i \in 1 .. h
  <2>1. q <= h
    OBVIOUS
  <2> HIDE DEF h
  <2> QED BY <1>1, <2>1
<1>3. \A i \in at + 1 .. q : s[i] \in S
  BY <1>2, ElementOfSeq
<1>4. /\ w \in Seq(S) /\ Len(w) = (IF at + 1 <= q THEN q - (at + 1) + 1 ELSE 0)
      /\ \A i \in 1 .. q - (at + 1) + 1 : w[i] = s[at + 1 + i - 1]
  BY <1>2, <1>3, SubSeqProperties
<1> HIDE DEF w
<1>5. Len(w) = q - at
  BY <1>4
<1>6. DOMAIN w = 1 .. q - at
  BY <1>4, <1>5, LenProperties
<1>7. ASSUME NEW i \in 1 .. q - at PROVE w[i] = s[at + i] /\ at + i \in 1 .. Len(s)
  <2>1. i \in 1 .. q - (at + 1) + 1 /\ at + 1 + i - 1 = at + i /\ at + i \in at + 1 .. q
    OBVIOUS
  <2> QED BY <1>2, <1>4, <2>1
<1> QED BY <1>4, <1>5, <1>6, <1>7 DEF w

\* What is in front is what the outline reads.
LEMMA FrontText ==
  ASSUME NEW u \in Seq(Letter), NEW bs \in AllBlocks, NEW at \in Nat, NEW c \in Nat,
         NEW q \in Nat, InFront(u, bs, at, c, q)
  PROVE  /\ Texts(SubSeq(u, 1, q - at)) = Between(bs, at, q)
         /\ (\A i \in at + 1 .. q : Text(bs)[i].s \notin EventHeads)
              => Heads(SubSeq(u, 1, q - at)) = 0
<1> DEFINE k == q - at
           v == Len(u)
           t == Len(Text(bs))
<1>1. k \in 0 .. v /\ q \in Nat /\ at \in Nat /\ q <= t /\ \A i \in 1 .. k : u[i] = Said(bs, at + i, c)
  BY DEF InFront
<1>2. v \in Nat
  BY LenProperties
<1>3. k \in Nat /\ k <= v /\ at <= q /\ 0 + 1 = 1 /\ k - 0 = k /\ \A i \in 1 .. k : 0 + i = i
  <2> HIDE DEF v, t
  <2> QED BY <1>1, <1>2
<1>4. Text(bs) \in Seq([s : STRING, n : Nat])
  BY TextType
<1> DEFINE a == SubSeq(Text(bs), at + 1, q)
           b == SubSeq(u, 1, k)
<1>5. DOMAIN a = 1 .. k /\ \A i \in 1 .. k : a[i] = Text(bs)[at + i] /\ at + i \in 1 .. t
  BY <1>1, <1>3, <1>4, Stretch
<1>6. DOMAIN b = 1 .. k /\ \A i \in 1 .. k : b[i] = u[i]
  <2>1. SubSeq(u, 0 + 1, k) = b
    BY <1>3
  <2>2. DOMAIN SubSeq(u, 0 + 1, k) = 1 .. k - 0
        /\ \A i \in 1 .. k - 0 : SubSeq(u, 0 + 1, k)[i] = u[0 + i]
    <3> HIDE DEF k, v
    <3>1. k <= Len(u)
      BY <1>3 DEF v
    <3> QED BY <1>3, <3>1, Stretch
  <2> HIDE DEF b, k
  <2> QED BY <1>3, <2>1, <2>2
<1>7. \A i \in 1 .. k : b[i].s = a[i].s
  <2> SUFFICES ASSUME NEW i \in 1 .. k PROVE b[i].s = a[i].s
    OBVIOUS
  <2>1. b[i] = Said(bs, at + i, c) /\ a[i] = Text(bs)[at + i] /\ at + i \in 1 .. Len(Text(bs))
    BY <1>1, <1>5, <1>6
  <2> QED BY <2>1, SaidType
<1> HIDE DEF a, b
<1>8. Texts(b) = Texts(a)
  BY <1>5, <1>6, <1>7 DEF Texts
<1>9. ASSUME \A i \in at + 1 .. q : Text(bs)[i].s \notin EventHeads PROVE Heads(b) = 0
  <2>1. ASSUME NEW i \in DOMAIN b PROVE b[i].s \notin EventHeads
    <3>1. i \in 1 .. k
      BY <1>6
    <3>2. at + i \in at + 1 .. q
      BY <1>1, <1>3, <3>1
    <3> QED BY <1>5, <1>7, <1>9, <3>1, <3>2
  <2>2. Lacks(b, EventHeads)
    BY <2>1 DEF Lacks
  <2> QED BY <2>2, NoHeads
<1> QED BY <1>8, <1>9 DEF Between, a, b, k

\* Nothing of an answer is a head, and nothing of an event behind its own.
LEMMA NoHeadAhead ==
  ASSUME NEW f, NEW p, FrameAt(f, p), f.pc \in Label(f.task), NEW q, q <= Whole(p), q \in Nat
  PROVE  \A i \in p.at + 1 .. q : Text(p.blocks)[i].s \notin EventHeads
<1>1. Belongs(f.task, p) /\ p.at \in Nat
  BY OutlineFacts
<1>2. Whole(p) \in Nat
  BY PointBlocks, TextType DEF Whole
<1>3. \A i \in p.at + 1 .. q : i \in p.at + 1 .. Whole(p) /\ i \in 1 .. Len(Text(p.blocks))
  <2> DEFINE w == Whole(p)
             a == p.at
  <2>1. w \in Nat /\ a \in Nat /\ q <= w
    BY <1>1, <1>2
  <2> HIDE DEF w, a
  <2>2. \A i \in a + 1 .. q : i \in a + 1 .. w /\ i \in 1 .. w
    BY <2>1
  <2> QED BY <2>2 DEF w, a, Whole
<1>4. CASE Handling(f)
  BY <1>1, <1>3, <1>4 DEF Handling, Belongs
<1>5. CASE ~Handling(f)
  BY <1>3, <1>5, PointBlocks, HeadsAssumption
<1> QED BY <1>4, <1>5

-----------------------------------------------------------------------------
(* The innermost function goes on *)

\* What was asked for in d is done as well.
DoneToo(a, b, d) == b = (a /\ d)

\* A function goes on as f, at point p, and has what it asked for if d.
LEMMA PlacedNext ==
  ASSUME NEW st, NEW pts, NEW f, NEW p, NEW d \in BOOLEAN,
         Placed(st, pts), StackIn(st), st # <<>>, FrameAt(f, p),
         f.task = st[Len(st)].task, f.place = st[Len(st)].place,
         DoneToo(pts[Len(st)].done, p.done, d)
  PROVE  LET n == Len(st)
             s == [st EXCEPT ![n] = f]
         IN  \E x : /\ Placed(s, x) /\ Len(s) = n /\ s # <<>> /\ s[n] = f /\ x[n] = p
                    /\ DoneToo(AllDone(pts, n), AllDone(x, n), d)
<1> DEFINE n == Len(st)
           s == [st EXCEPT ![n] = f]
           x == [pts EXCEPT ![n] = p]
<1>1. /\ Placed(s, x) /\ Len(s) = n /\ s # <<>> /\ s[n] = f /\ x[n] = p
      /\ AllDone(x, n) = (AllDone(pts, n) /\ d)
  <2>1. p.done = (pts[n].done /\ d)
    BY DEF DoneToo
  <2> QED BY <2>1, PlacedOn
<1> HIDE DEF x
<1> QED BY <1>1 DEF DoneToo

\* The line for the function that reads, when the innermost is at point y.
ReadsAt(st, pts, y, u, ow, pe, s, pr, pr2) ==
  IF Handling(st[Len(st)]) THEN Carries(u, ow, pe, s, pts[Len(st) - 1], <<y>>) /\ pr2 = pr
                           ELSE Carries(u, ow, pe, s, y, <<>>) /\ pr2 = y.prompted

LEMMA OutlineOn ==
  ASSUME NEW st, NEW pts, NEW u, NEW ow, NEW pe, NEW s, NEW pr, NEW dn,
         NEW f, NEW y, NEW u2, NEW ow2, NEW pe2, NEW s2, NEW pr2, NEW d \in BOOLEAN, NEW dn2,
         Outlining(st, pts, u, ow, pe, s, pr, dn), StackIn(st), st # <<>>,
         FrameAt(f, y), f.task = st[Len(st)].task, f.place = st[Len(st)].place,
         DoneToo(pts[Len(st)].done, y.done, d), DoneToo(dn, dn2, d),
         ReadsAt(st, pts, y, u2, ow2, pe2, s2, pr, pr2)
  PROVE  \E x : Outlining([st EXCEPT ![Len(st)] = f], x, u2, ow2, pe2, s2, pr2, dn2)
<1> DEFINE n == Len(st)
           t == [st EXCEPT ![n] = f]
           x == [pts EXCEPT ![n] = y]
<1>1. Placed(st, pts) /\ dn = AllDone(pts, n)
  BY DEF Outlining
<1>2. /\ Placed(t, x) /\ Len(t) = n /\ t[n] = f /\ x[n] = y
      /\ \A i \in 1 .. n - 1 : t[i] = st[i] /\ x[i] = pts[i]
      /\ dn2 = AllDone(x, n)
  <2>1. y.done = (pts[n].done /\ d) /\ dn2 = (dn /\ d)
    BY DEF DoneToo
  <2> QED BY <1>1, <2>1, PlacedOn
<1>3. n \in Nat /\ n # 0 /\ (n >= 2 => n - 1 \in 1 .. n - 1)
  BY DEF StackIn
<1>4. Handling(f) = Handling(st[n])
  BY DEF Handling
<1>5. ASSUME Handling(st[n]) PROVE n >= 2
  <2>1. n # 1
    BY <1>5 DEF StackIn, Handling
  <2> HIDE DEF n
  <2> QED BY <1>3, <2>1
<1>6. \E p : Reading(t, x, u2, ow2, pe2, s2, p) /\ pr2 = p.prompted
  <2>1. CASE Handling(st[n])
    <3>1. \E p : Reading(st, pts, u, ow, pe, s, p) /\ pr = p.prompted
      BY DEF Outlining
    <3>2. pr = pts[n - 1].prompted
      BY <2>1, <3>1 DEF Reading
    <3>3. x[n - 1] = pts[n - 1]
      BY <1>2, <1>3, <1>5, <2>1
    <3>4. Carries(u2, ow2, pe2, s2, pts[n - 1], <<y>>) /\ pr2 = pr
      BY <2>1 DEF ReadsAt
    <3> HIDE DEF t, x, n
    <3>5. Reading(t, x, u2, ow2, pe2, s2, pts[n - 1])
      BY <1>2, <1>4, <2>1, <3>3, <3>4 DEF Reading
    <3> QED BY <3>2, <3>4, <3>5
  <2>2. CASE ~Handling(st[n])
    <3>1. Carries(u2, ow2, pe2, s2, y, <<>>) /\ pr2 = y.prompted
      BY <2>2 DEF ReadsAt
    <3> HIDE DEF t, x, n
    <3> QED BY <1>2, <1>4, <2>2, <3>1 DEF Reading
  <2> QED BY <2>1, <2>2
<1> HIDE DEF t, x
<1>7. Outlining(t, x, u2, ow2, pe2, s2, pr2, dn2)
  BY <1>1, <1>2, <1>6 DEF Outlining
<1> QED BY <1>7 DEF t

\* What every step starts from.
LEMMA InnerFacts ==
  ASSUME NEW st, NEW pts, NEW u, NEW ow, NEW pe, NEW s, NEW pr, NEW dn,
         Outlining(st, pts, u, ow, pe, s, pr, dn), StackIn(st), st # <<>>
  PROVE  LET n == Len(st)
         IN  /\ n \in Nat \ {0} /\ FrameAt(st[n], pts[n]) /\ st[n].pc \in Label(st[n].task)
             /\ st[n] \in Frames /\ Placed(st, pts) /\ dn = AllDone(pts, n)
             /\ pts[n].done \in BOOLEAN
             /\ Handling(st[n]) => /\ n >= 2 /\ n - 1 \in 1 .. n
                                   /\ ~Handling(st[n - 1])
                                   /\ pr = pts[n - 1].prompted
                                   /\ Carries(u, ow, pe, s, pts[n - 1], <<pts[n]>>)
             /\ ~Handling(st[n]) => /\ pr = pts[n].prompted
                                    /\ Carries(u, ow, pe, s, pts[n], <<>>)
<1> DEFINE n == Len(st)
<1>1. st \in Seq(Frames) /\ n \in Nat \ {0} /\ DOMAIN st = 1 .. n
  BY DEF StackIn
<1>2. n \in 1 .. n
  <2> HIDE DEF n
  <2> QED BY <1>1
<1>3. st[n] \in Frames /\ st[n].pc \in Label(st[n].task)
  BY <1>1, <1>2 DEF StackIn
<1>4. Placed(st, pts) /\ dn = AllDone(pts, n)
  BY DEF Outlining
<1>5. FrameAt(st[n], pts[n])
  BY <1>2, <1>4 DEF Placed
<1>6. pts[n].done \in BOOLEAN
  BY <1>3, <1>5, OutlineFacts DEF Point
<1>7. PICK p : Reading(st, pts, u, ow, pe, s, p) /\ pr = p.prompted
  BY DEF Outlining
<1>8. ASSUME Handling(st[n])
      PROVE  /\ n >= 2 /\ n - 1 \in 1 .. n /\ ~Handling(st[n - 1])
             /\ pr = pts[n - 1].prompted /\ Carries(u, ow, pe, s, pts[n - 1], <<pts[n]>>)
  <2>1. n # 1
    BY <1>8 DEF StackIn, Handling
  <2>2. n >= 2 /\ n - 1 \in 1 .. n /\ n - 1 # n
    <3> HIDE DEF n
    <3> QED BY <1>1, <2>1
  <2>3. ~Handling(st[n - 1])
    BY <1>4, <2>2 DEF Placed
  <2> QED BY <1>7, <1>8, <2>2, <2>3 DEF Reading
<1>9. ASSUME ~Handling(st[n])
      PROVE  pr = pts[n].prompted /\ Carries(u, ow, pe, s, pts[n], <<>>)
  BY <1>7, <1>9 DEF Reading
<1> QED BY <1>1, <1>3, <1>4, <1>5, <1>6, <1>8, <1>9

\* A read inside a block finds in front what the outline reads, and goes on
\* behind it.
LEMMA InBlockOn ==
  ASSUME NEW st, NEW pts, NEW u, NEW ow, NEW pe, NEW s, NEW pr, NEW dn,
         Outlining(st, pts, u, ow, pe, s, pr, dn), StackIn(st), st # <<>>,
         NEW x, x = pts[Len(st)], NEW q \in Nat, InBlock(x.blocks, x.at, q),
         u \in Seq(Letter)
  PROVE  /\ \E c \in Nat : /\ InFront(u, x.blocks, x.at, c, q)
                           /\ c = IF Handling(st[Len(st)]) THEN 0 ELSE s
         /\ q \in Nat /\ q <= Whole(x)
         /\ \A f, y : /\ FrameAt(f, y) /\ f.task = st[Len(st)].task /\ f.place = st[Len(st)].place
                      /\ y.blocks = x.blocks /\ y.at = q
                      /\ y.done = x.done /\ y.prompted = x.prompted
                => \E z : Outlining([st EXCEPT ![Len(st)] = f], z,
                                    From(u, q - x.at + 1), ow, pe, s, pr, dn)
<1> DEFINE n == Len(st)
           w == From(u, q - x.at + 1)
<1>1. /\ n \in Nat \ {0} /\ FrameAt(st[n], x) /\ st[n].pc \in Label(st[n].task)
      /\ st[n] \in Frames /\ Placed(st, pts) /\ dn = AllDone(pts, n)
      /\ x.done \in BOOLEAN
      /\ Handling(st[n]) => /\ n >= 2 /\ n - 1 \in 1 .. n
                            /\ ~Handling(st[n - 1])
                            /\ pr = pts[n - 1].prompted
                            /\ Carries(u, ow, pe, s, pts[n - 1], <<x>>)
      /\ ~Handling(st[n]) => pr = x.prompted /\ Carries(u, ow, pe, s, x, <<>>)
  BY InnerFacts
<1>2. x.blocks # <<>>
  <2>1. PICK b \in 1 .. Len(x.blocks) : TRUE
    BY DEF InBlock
  <2>2. CASE x.blocks = <<>>
    BY <2>1, <2>2, EmptyAnswer
  <2> QED BY <2>2
<1> HIDE DEF w, n
<1>3. ASSUME Handling(st[n])
      PROVE  /\ InFront(u, x.blocks, x.at, 0, q)
             /\ \A y : y.blocks = x.blocks /\ y.at = q => Carries(w, ow, pe, s, pts[n - 1], <<y>>)
  <2>1. PICK c : /\ OnLine(u, ow, pe, c, pts[n - 1].blocks, pts[n - 1].at, <<x>>)
                 /\ pts[n - 1].blocks # <<>> => c = s
    BY <1>1, <1>3 DEF Carries
  <2>2. /\ InFront(u, x.blocks, x.at, 0, q)
        /\ \A y : y.blocks = x.blocks /\ y.at = q =>
             OnLine(w, ow, pe, c, pts[n - 1].blocks, pts[n - 1].at, <<y>>)
    BY <2>1, LineHandlerInBlock DEF w
  <2> QED BY <2>1, <2>2 DEF Carries
<1>4. ASSUME ~Handling(st[n])
      PROVE  /\ InFront(u, x.blocks, x.at, s, q) /\ s \in Nat
             /\ \A y : y.blocks = x.blocks /\ y.at = q => Carries(w, ow, pe, s, y, <<>>)
  <2>1. PICK c : OnLine(u, ow, pe, c, x.blocks, x.at, <<>>) /\ c = s
    BY <1>1, <1>2, <1>4 DEF Carries
  <2>2. /\ InFront(u, x.blocks, x.at, c, q) /\ c \in Nat
        /\ OnLine(w, ow, pe, c, x.blocks, q, <<>>)
    BY <2>1, LineInBlock DEF w
  <2> QED BY <2>1, <2>2 DEF Carries
<1>5. \E c \in Nat : InFront(u, x.blocks, x.at, c, q) /\ c = IF Handling(st[n]) THEN 0 ELSE s
  BY <1>3, <1>4
<1>6. q <= Whole(x)
  BY <1>5 DEF InFront, Whole
<1>7. ASSUME NEW f, NEW y, FrameAt(f, y), f.task = st[n].task, f.place = st[n].place,
             y.blocks = x.blocks, y.at = q, y.done = x.done, y.prompted = x.prompted
      PROVE  \E z : Outlining([st EXCEPT ![n] = f], z, w, ow, pe, s, pr, dn)
  <2>1. DoneToo(pts[n].done, y.done, TRUE) /\ DoneToo(dn, dn, TRUE) /\ TRUE \in BOOLEAN
    BY <1>1, <1>7 DEF n, AllDone, DoneToo
  <2>2. ReadsAt(st, pts, y, w, ow, pe, s, pr, pr)
    BY <1>1, <1>3, <1>4, <1>7 DEF ReadsAt, n
  <2> QED BY <1>7, <2>1, <2>2, OutlineOn DEF n
<1> QED BY <1>5, <1>6, <1>7 DEF n, w

-----------------------------------------------------------------------------
(* Reads inside a block *)

\* The points of the functions, the innermost at x.
PointsNow(pts, x) ==
  /\ x = pts[Len(stack)]
  /\ Outlining(stack, pts, uart, owed, pending, sent, prompted, done)

LEMMA UartType == ASSUME IInv PROVE uart \in Seq(Letter)
<1>1. uart \in Seq(LexemeUpTo(sent)) /\ sent \in Nat
  BY Typed
<1>2. LexemeUpTo(sent) \subseteq Letter
  BY <1>1 DEF LexemeUpTo, Letter
<1> QED BY <1>1, <1>2, SeqMonotonic

LEMMA Working ==
  ASSUME IInv, OInv, NEW ops, Runs(ops)
  PROVE  /\ stack # <<>> /\ StackIn(stack) /\ top = stack[Len(stack)] /\ top \in Frames
         /\ top.task \in DOMAIN Script /\ top.pc \in DOMAIN Script[top.task]
         /\ instr = Script[top.task][top.pc] /\ instr.op \in ops
         /\ \E pts, x : /\ PointsNow(pts, x) /\ FrameAt(top, x) /\ top.pc \in Label(top.task)
                        /\ x \in Point /\ x.at \in Nat /\ x.at <= Whole(x)
                        /\ x.blocks \in AllBlocks /\ Leads(top.task, top.pc, x)
<1>1. /\ stack # <<>> /\ StackIn(stack) /\ top = stack[Len(stack)] /\ top \in Frames
      /\ top.task \in DOMAIN Script /\ top.pc \in DOMAIN Script[top.task]
      /\ instr = Script[top.task][top.pc] /\ instr.op \in ops
  BY AtWork DEF IInv
<1>2. PICK pts : Outlining(stack, pts, uart, owed, pending, sent, prompted, done)
  BY <1>1 DEF OInv
<1> DEFINE x == pts[Len(stack)]
<1>3. FrameAt(top, x) /\ top.pc \in Label(top.task)
  BY <1>1, <1>2, InnerFacts
<1>4. /\ x \in Point /\ x.at \in Nat /\ x.at <= Whole(x) /\ x.blocks \in AllBlocks
      /\ Leads(top.task, top.pc, x)
  BY <1>1, <1>3, OutlineFacts, PointBlocks
<1>5. PointsNow(pts, x)
  BY <1>2 DEF PointsNow
<1> HIDE DEF x
<1> QED BY <1>1, <1>3, <1>4, <1>5

\* The frame that a function goes on as is at the next point.
LEMMA FrameOn ==
  ASSUME IInv, NEW ops, Runs(ops), NEW x, FrameAt(top, x), NEW g, g.task = top.task,
         g.place = top.place, g \in Frames, NEW l, NEW y, y \in Points(top.task, l),
         y.nums = g.nums, y.got = g.got, y.ret = g.ret
  PROVE  LET f == [g EXCEPT !.pc = l]
         IN  FrameAt(f, y) /\ f.task = top.task /\ f.place = top.place
<1> DEFINE f == [g EXCEPT !.pc = l]
<1>1. /\ f.task = g.task /\ f.place = g.place /\ f.pc = l
      /\ f.nums = g.nums /\ f.got = g.got /\ f.ret = g.ret
  BY DEF Frames
<1> HIDE DEF f
<1>2. FrameAt(f, y)
  BY <1>1 DEF FrameAt
<1> QED BY <1>1, <1>2 DEF f

\* A read of j lexemes that ends where the outline says.
LEMMA ReadStep ==
  ASSUME IInv, OInv, NEW ops, Runs(ops), NEW pts, NEW x, PointsNow(pts, x), FrameAt(top, x),
         top.pc \in Label(top.task),
         NEW q \in Nat, InBlock(x.blocks, x.at, q),
         NEW g \in Frames, g.task = top.task, g.place = top.place,
         NEW r \in Response, Resume(g, r),
         NEW y, y \in Points(top.task, instr.goto[r]),
         y.nums = g.nums, y.got = g.got, y.ret = g.ret,
         y.blocks = x.blocks, y.at = q, y.done = x.done, y.prompted = x.prompted,
         ReadAway(q - x.at), ring' = <<>>, UNCHANGED <<owed, pending, command, done>>
  PROVE  OInv'
<1> DEFINE f == [g EXCEPT !.pc = instr.goto[r]]
           w == From(uart, q - x.at + 1)
<1>1. stack # <<>> /\ StackIn(stack) /\ top = stack[Len(stack)]
  BY AtWork DEF IInv
<1>2. FrameAt(f, y) /\ f.task = top.task /\ f.place = top.place
  BY FrameOn
<1>3. stack' = [stack EXCEPT ![Len(stack)] = f]
  BY DEF Resume
<1>4. uart' = w /\ lost' = lost + Heads(SubSeq(uart, 1, q - x.at))
  BY DEF ReadAway
<1>5. uart \in Seq(Letter)
  BY UartType
<1> HIDE DEF f, w
<1>6. /\ \E c \in Nat : InFront(uart, x.blocks, x.at, c, q)
      /\ q <= Whole(x)
      /\ \A e, v : /\ FrameAt(e, v) /\ e.task = top.task /\ e.place = top.place
                   /\ v.blocks = x.blocks /\ v.at = q /\ v.done = x.done /\ v.prompted = x.prompted
             => \E z : Outlining([stack EXCEPT ![Len(stack)] = e], z, w, owed, pending,
                                 sent, prompted, done)
  BY <1>1, <1>5, InBlockOn DEF PointsNow, w
<1>7. Heads(SubSeq(uart, 1, q - x.at)) = 0
  <2>1. \A i \in x.at + 1 .. q : Text(x.blocks)[i].s \notin EventHeads
    BY <1>6, NoHeadAhead
  <2>2. x.blocks \in AllBlocks
    BY PointBlocks
  <2> DEFINE a == x.at
             bs == x.blocks
  <2>3. a \in Nat /\ bs \in AllBlocks /\ (\A i \in a + 1 .. q : Text(bs)[i].s \notin EventHeads)
        /\ \E c \in Nat : InFront(uart, bs, a, c, q)
    <3>1. x.at \in Nat
      BY OutlineFacts
    <3> QED BY <1>6, <2>1, <2>2, <3>1
  <2> HIDE DEF a, bs
  <2>4. Heads(SubSeq(uart, 1, q - a)) = 0
    BY <1>5, <2>3, FrontText
  <2> QED BY <2>4 DEF a
<1>8. \E z : Outlining(stack', z, uart', owed', pending', sent', prompted', done')
  <2>1. \E z : Outlining(stack', z, w, owed, pending, sent, prompted, done)
    BY <1>2, <1>3, <1>6
  <2> QED BY <1>4, <2>1 DEF command
<1>9. lost' = 0
  BY <1>4, <1>7 DEF OInv
<1>10. stack' # <<>>
  <2>1. stack \in Seq(Frames) /\ Len(stack) # 0 /\ Len(stack) \in Nat
    BY <1>1 DEF StackIn
  <2>2. DOMAIN stack' = DOMAIN stack /\ DOMAIN stack = 1 .. Len(stack)
    BY <1>3, <2>1
  <2>3. 1 \in DOMAIN stack'
    BY <2>1, <2>2
  <2> QED BY <2>3
<1> QED BY <1>8, <1>9, <1>10 DEF OInv, command

LEMMA EmptyRing ==
  ASSUME IInv, OInv
  PROVE  /\ Stream = uart
         /\ \A j \in Nat : Consume(j) => ReadAway(j) /\ ring' = <<>>
<1>1. ring = <<>> /\ uart \in Seq(Letter)
  BY UartType DEF OInv
<1>2. Stream = uart
  BY <1>1 DEF Stream
<1>3. ASSUME NEW j \in Nat, Consume(j) PROVE ReadAway(j) /\ ring' = <<>>
  <2>1. Len(ring) = 0 /\ j - 0 = j /\ (j <= 0 => j = 0)
    BY <1>1
  <2>2. ReadAway(j)
    BY <1>3, <2>1 DEF Consume
  <2>3. ring' = SubSeq(<<>>, j + 1, 0)
    BY <1>1, <1>3, <2>1 DEF Consume, From
  <2>4. SubSeq(<<>>, j + 1, 0) = <<>>
    BY SubSeqEmpty
  <2> QED BY <2>2, <2>3, <2>4
<1> QED BY <1>2, <1>3

\* A point that the outline finds inside the block is where a read stops.
LEMMA NearestIsFirst ==
  ASSUME IInv, OInv, NEW ops, Runs(ops), NEW pts, NEW x, PointsNow(pts, x), FrameAt(top, x),
         top.pc \in Label(top.task), NEW S, NEW q \in Nearest(x, S)
  PROVE  /\ q \in Nat /\ InBlock(x.blocks, x.at, q) /\ x.at \in Nat
         /\ q - x.at \in Nat /\ q - x.at >= 1
         /\ q - x.at \in 1 .. Len(uart) /\ uart[q - x.at].s \in S
         /\ uart[q - x.at].n = Text(x.blocks)[q].n
         /\ uart[q - x.at].of = IF top.task \in HandlerTasks THEN 0 ELSE sent
         /\ \A j \in First(uart, S) : j = q - x.at
         /\ InFront(uart, x.blocks, x.at, uart[q - x.at].of, q)
         /\ uart[q - x.at].of \in Nat
<1>1. stack # <<>> /\ StackIn(stack) /\ top = stack[Len(stack)]
  BY AtWork DEF IInv
<1>2. uart \in Seq(Letter)
  BY UartType
<1>3. x.at \in Nat /\ x.blocks \in AllBlocks /\ Len(Text(x.blocks)) \in Nat
  BY OutlineFacts, PointBlocks, TextType
<1>4. q \in FirstAfter(x.blocks, x.at, S) /\ InBlock(x.blocks, x.at, q)
  BY DEF Nearest
<1>5. q \in x.at + 1 .. Len(Text(x.blocks))
  BY <1>4 DEF FirstAfter
<1>6. q \in Nat /\ q - x.at \in Nat /\ q - x.at >= 1
  <2> DEFINE a == x.at
             t == Len(Text(x.blocks))
  <2>1. a \in Nat /\ t \in Nat /\ q \in a + 1 .. t
    BY <1>3, <1>5
  <2> HIDE DEF a, t
  <2>2. q \in Nat /\ q - a \in Nat /\ q - a >= 1
    BY <2>1
  <2> QED BY <2>2 DEF a
<1>7. PICK c \in Nat : /\ InFront(uart, x.blocks, x.at, c, q)
                       /\ c = IF top.task \in HandlerTasks THEN 0 ELSE sent
  BY <1>1, <1>2, <1>4, <1>6, InBlockOn DEF PointsNow, Handling
<1>8. /\ q - x.at \in 1 .. Len(uart) /\ uart[q - x.at].s \in S
      /\ uart[q - x.at].n = Text(x.blocks)[q].n /\ uart[q - x.at].of = c
      /\ \A j \in DOMAIN uart : j \in First(uart, S) => j = q - x.at
  <2> DEFINE a == x.at
             bs == x.blocks
  <2>1. a \in Nat /\ bs \in AllBlocks /\ q \in Nat /\ q \in FirstAfter(bs, a, S)
        /\ InFront(uart, bs, a, c, q)
    BY <1>3, <1>4, <1>6, <1>7
  <2> HIDE DEF a, bs
  <2>2. /\ q - a \in 1 .. Len(uart) /\ uart[q - a].s \in S
        /\ uart[q - a].n = Text(bs)[q].n /\ uart[q - a].of = c
        /\ \A j \in DOMAIN uart : j \in First(uart, S) => j = q - a
    BY <1>2, <2>1, FirstInFront
  <2> QED BY <2>2 DEF a, bs
<1>9. \A j \in First(uart, S) : j = q - x.at
  BY <1>8 DEF First
<1> QED BY <1>3, <1>4, <1>6, <1>7, <1>8, <1>9

\* A read leaves these to the caller of sendCMD().
LEMMA SameCommand ==
  ASSUME UNCHANGED <<modem, command, done>>
  PROVE  UNCHANGED <<owed, pending, command, done>> /\ UNCHANGED <<owed, pending, sent, prompted, done>>
BY DEF modem, command

LEMMA FindOn == ASSUME IInv, OInv, findChar PROVE OInv'
<1>1. /\ Runs({"find"}) /\ Resume(top, "OK")
      /\ UNCHANGED <<modem, command, done>>
  BY DEF findChar
<1>2. PICK j \in First(Stream, Having(instr.arg[1])) : Consume(j)
  BY DEF findChar
<1>3. /\ instr = Script[top.task][top.pc] /\ instr.op \in {"find"} /\ top \in Frames
  BY <1>1, Working
<1>4. PICK pts, x : /\ PointsNow(pts, x) /\ FrameAt(top, x) /\ top.pc \in Label(top.task)
                    /\ top.pc \in DOMAIN Script[top.task] /\ Leads(top.task, top.pc, x) /\ x \in Point
  BY <1>1, Working
<1>5. FindLeads(top.task, x, instr)
  BY <1>3, <1>4 DEF Leads
<1>6. PICK q \in Nearest(x, Having(instr.arg[1])) : ReadTo(x, q) \in Points(top.task, instr.goto["OK"])
  BY <1>5 DEF FindLeads
<1>7. j = q - x.at /\ q - x.at \in Nat /\ q \in Nat /\ InBlock(x.blocks, x.at, q)
  BY <1>1, <1>2, <1>4, EmptyRing, NearestIsFirst
<1>8. ReadAway(q - x.at) /\ ring' = <<>>
  BY <1>2, <1>7, EmptyRing
<1> DEFINE y == ReadTo(x, q)
<1>9. /\ y.blocks = x.blocks /\ y.at = q /\ y.nums = x.nums /\ y.got = x.got /\ y.ret = x.ret
      /\ y.done = x.done /\ y.prompted = x.prompted
  BY <1>4 DEF ReadTo, Point
<1>10. y.nums = top.nums /\ y.got = top.got /\ y.ret = top.ret
  BY <1>4, <1>9 DEF FrameAt
<1> HIDE DEF y
<1>11. y \in Points(top.task, instr.goto["OK"]) /\ "OK" \in Response
  BY <1>6 DEF y, Response
<1> QED BY <1>1, <1>3, <1>4, <1>7, <1>8, <1>9, <1>10, <1>11, SameCommand, ReadStep

LEMMA BetweenType ==
  ASSUME NEW bs \in AllBlocks, NEW at \in Nat, NEW q \in Nat, at <= q, q <= Len(Text(bs))
  PROVE  Between(bs, at, q) \in Seq(STRING)
<1> DEFINE w == SubSeq(Text(bs), at + 1, q)
<1>1. Text(bs) \in Seq([s : STRING, n : Nat])
  BY TextType
<1>2. w \in Seq([s : STRING, n : Nat])
  BY <1>1, Stretch
<1> HIDE DEF w
<1>3. Len(w) \in Nat /\ DOMAIN w = 1 .. Len(w)
  BY <1>2, LenProperties
<1>4. \A i \in DOMAIN w : w[i].s \in STRING
  <2> SUFFICES ASSUME NEW i \in 1 .. Len(w) PROVE w[i].s \in STRING
    BY <1>3
  <2>1. w[i] \in [s : STRING, n : Nat]
    BY <1>2, ElementOfSeq
  <2> QED BY <2>1
<1>5. Texts(w) \in [1 .. Len(w) -> STRING]
  BY <1>3, <1>4 DEF Texts
<1>6. Texts(w) \in Seq(STRING)
  BY <1>3, <1>5, SeqDef
<1> QED BY <1>6 DEF Between, w

LEMMA LineReadOn == ASSUME IInv, OInv, readLine PROVE OInv'
<1>1. /\ Runs({"until", "line"})
      /\ UNCHANGED <<modem, command, done>>
  BY DEF readLine
<1> DEFINE head == IF instr.op = "line" THEN <<MatchString[top.task]>> ELSE <<>>
           text(j) == Texts(SubSeq(Stream, 1, IF Stream[j].s = "NL" THEN j - 1 ELSE j))
<1>2. PICK j \in First(Stream, Having("NL")) :
        /\ Consume(j)
        /\ Resume([top EXCEPT !.got = @ \o head \o text(j)],
                  IF text(j) = <<>> THEN "TIMEOUT" ELSE "OK")
  BY DEF readLine
<1>3. /\ instr = Script[top.task][top.pc] /\ instr.op \in {"until", "line"} /\ top \in Frames
  BY <1>1, Working
<1>4. PICK pts, x : /\ PointsNow(pts, x) /\ FrameAt(top, x) /\ top.pc \in Label(top.task)
                    /\ top.pc \in DOMAIN Script[top.task] /\ Leads(top.task, top.pc, x)
                    /\ x \in Point /\ x.at \in Nat /\ x.blocks \in AllBlocks
  BY <1>1, Working
<1>5. LineLeads(top.task, x, instr)
  BY <1>3, <1>4 DEF Leads
<1> DEFINE upto(q) == IF Text(x.blocks)[q].s = "NL" THEN q - 1 ELSE q
<1>6. PICK q \in Nearest(x, Having("NL")) :
        Took(x, q, head \o Between(x.blocks, x.at, upto(q)))
          \in Points(top.task,
                     instr.goto[IF Between(x.blocks, x.at, upto(q)) = <<>> THEN "TIMEOUT" ELSE "OK"])
  BY <1>5 DEF LineLeads
<1>7. /\ q - x.at \in Nat /\ q \in Nat /\ InBlock(x.blocks, x.at, q) /\ q - x.at >= 1
      /\ InFront(uart, x.blocks, x.at, uart[q - x.at].of, q) /\ uart[q - x.at].of \in Nat
  BY <1>1, <1>4, NearestIsFirst
<1>8. j = q - x.at
  BY <1>1, <1>2, <1>4, EmptyRing, NearestIsFirst
<1>9. ReadAway(q - x.at) /\ ring' = <<>>
  BY <1>2, <1>7, <1>8, EmptyRing
<1>10. PICK k : k = upto(q)
  OBVIOUS
<1>11. k \in {q - 1, q} /\ k \in Nat
  <2>1. q \in Nat /\ x.at \in Nat /\ q - x.at >= 1
    BY <1>4, <1>7
  <2>2. q - 1 \in Nat
    BY <2>1
  <2> QED BY <1>10, <2>1, <2>2
<1>12. text(j) = Between(x.blocks, x.at, k)
  <2>1. InFront(uart, x.blocks, x.at, uart[q - x.at].of, k)
    <3> DEFINE a == x.at
               v == Len(uart)
               t == Len(Text(x.blocks))
    <3>1. a \in Nat /\ v \in Nat /\ t \in Nat
      BY <1>4, UartType, LenProperties, TextType
    <3>2. q - a \in 0 .. v /\ q <= t /\ \A i \in 1 .. q - a : uart[i] = Said(x.blocks, a + i, uart[q - a].of)
      BY <1>7 DEF InFront
    <3>3. q - a >= 1 /\ q \in Nat
      BY <1>7
    <3> HIDE DEF a, v, t, upto
    <3>4. k - a \in 0 .. v /\ k <= t /\ \A i \in 1 .. k - a : i \in 1 .. q - a
      BY <1>11, <3>1, <3>2, <3>3
    <3> QED BY <1>11, <3>1, <3>2, <3>4 DEF InFront, a, v, t
  <2>2. uart[q - x.at].s = Text(x.blocks)[q].s
    <3> DEFINE i == q - x.at
    <3>1. i \in 1 .. i /\ x.at + i = q
      BY <1>4, <1>7
    <3>2. uart[i] = Said(x.blocks, x.at + i, uart[i].of)
      BY <1>7, <3>1 DEF InFront
    <3> QED BY <3>1, <3>2 DEF Said
  <2>3. k - x.at = IF uart[q - x.at].s = "NL" THEN q - x.at - 1 ELSE q - x.at
    BY <1>4, <1>7, <1>10, <2>2
  <2>4. Texts(SubSeq(uart, 1, k - x.at)) = Between(x.blocks, x.at, k)
    <3> DEFINE a == x.at
               bs == x.blocks
               c == uart[q - x.at].of
    <3>1. /\ a \in Nat /\ bs \in AllBlocks /\ k \in Nat /\ c \in Nat
          /\ InFront(uart, bs, a, c, k)
      BY <1>4, <1>7, <1>11, <2>1
    <3> HIDE DEF a, bs, c
    <3>2. Texts(SubSeq(uart, 1, k - a)) = Between(bs, a, k)
      BY <3>1, UartType, FrontText
    <3> QED BY <3>2 DEF a, bs
  <2> QED BY <1>8, <2>3, <2>4, EmptyRing
<1> DEFINE b == Between(x.blocks, x.at, k)
           y == Took(x, q, head \o b)
           g == [top EXCEPT !.got = @ \o head \o b]
           r == IF b = <<>> THEN "TIMEOUT" ELSE "OK"
<1>13. /\ y.blocks = x.blocks /\ y.at = q /\ y.nums = x.nums /\ y.got = x.got \o (head \o b)
       /\ y.ret = x.ret /\ y.done = x.done /\ y.prompted = x.prompted
  <2> HIDE DEF head, b
  <2> QED BY <1>4 DEF Took, Point
<1>14. b \in Seq(STRING)
  <2> DEFINE a == x.at
             t == Len(Text(x.blocks))
  <2>1. a \in Nat /\ q \in Nat /\ q - a >= 1 /\ q <= t
    BY <1>4, <1>7 DEF InFront
  <2> HIDE DEF a, t
  <2>2. a <= k /\ k <= t
    <3>1. t \in Nat
      BY <1>4, TextType DEF t
    <3> QED BY <1>11, <2>1, <3>1
  <2> QED BY <1>4, <1>11, <2>2, BetweenType DEF a, t
<1>15. head \in Seq(STRING)
  <2>1. instr.op = "line" => MatchString[top.task] \in STRING
    <3>1. top.task \in DOMAIN Script /\ top.pc \in DOMAIN Script[top.task]
          /\ instr = Script[top.task][top.pc]
      BY <1>1, AtWork
    <3> QED BY <3>1, Instructions
  <2>2. CASE instr.op = "line"
    <3>1. head = <<MatchString[top.task]>>
      BY <2>2
    <3> QED BY <2>1, <2>2, <3>1
  <2>3. CASE instr.op # "line"
    <3>1. head = <<>> /\ <<>> \in Seq(STRING)
      BY <2>3
    <3> HIDE DEF head
    <3> QED BY <3>1
  <2> QED BY <2>2, <2>3
<1>16. r \in Response
  BY DEF Response
<1>17. y \in Points(top.task, instr.goto[r])
  BY <1>6, <1>10
<1>18. Resume(g, r)
  BY <1>2, <1>12
<1> HIDE DEF head, b, r, text
<1>19. g \in Frames /\ g.task = top.task /\ g.place = top.place
       /\ g.got = (top.got \o head) \o b /\ g.nums = top.nums /\ g.ret = top.ret
  <2>1. top.got \in Seq(STRING)
    BY <1>3 DEF Frames
  <2>2. (top.got \o head) \o b \in Seq(STRING)
    BY <1>14, <1>15, <2>1
  <2> QED BY <1>3, <2>2 DEF Frames
<1>20. g.got = top.got \o (head \o b)
  <2>1. top.got \in Seq(STRING)
    BY <1>3 DEF Frames
  <2>2. (top.got \o head) \o b = top.got \o (head \o b)
    <3> DEFINE t == top.got
    <3> HIDE DEF g, y, t
    <3>1. t \in Seq(STRING)
      BY <2>1 DEF t
    <3>2. (t \o head) \o b = t \o (head \o b)
      BY <1>14, <1>15, <3>1, ConcatAssociative
    <3> QED BY <3>2 DEF t
  <2> HIDE DEF g
  <2> QED BY <1>19, <2>2
<1> HIDE DEF y, g
<1>21. y.nums = g.nums /\ y.got = g.got /\ y.ret = g.ret
  BY <1>4, <1>13, <1>19, <1>20 DEF FrameAt
<1> QED BY <1>1, <1>4, <1>7, <1>9, <1>13, <1>16, <1>17, <1>18, <1>19, <1>21, SameCommand, ReadStep

LEMMA BytesOn == ASSUME IInv, OInv, readBytes PROVE OInv'
<1> DEFINE n == Amount
           b(k) == Texts(SubSeq(Stream, 1, k))
<1>1. /\ Runs({"bytes"}) /\ UNCHANGED <<modem, command, done>>
      /\ n \in 0 .. Len(Stream) /\ Consume(n)
      /\ Resume([top EXCEPT !.got = @ \o b(n)], "OK")
  BY DEF readBytes
<1>2. /\ instr = Script[top.task][top.pc] /\ instr.op \in {"bytes"} /\ top \in Frames
  BY <1>1, Working
<1>3. PICK pts, x : /\ PointsNow(pts, x) /\ FrameAt(top, x) /\ top.pc \in Label(top.task)
                    /\ top.pc \in DOMAIN Script[top.task] /\ Leads(top.task, top.pc, x)
                    /\ x \in Point /\ x.at \in Nat /\ x.blocks \in AllBlocks
  BY <1>1, Working
<1>4. BytesLeads(top.task, x, instr)
  BY <1>2, <1>3 DEF Leads
<1>5. x.nums = top.nums
  BY <1>3 DEF FrameAt
<1> DEFINE q == x.at + n
<1>6. InBlock(x.blocks, x.at, q) /\ Took(x, q, Between(x.blocks, x.at, q)) \in Points(top.task, instr.goto["OK"])
  BY <1>4, <1>5 DEF BytesLeads, Amount
<1>7. n \in Nat /\ q \in Nat /\ q - x.at = n
  <2>1. n \in Nat
    BY <1>1, UartType, LenProperties, EmptyRing
  <2> HIDE DEF n
  <2> QED BY <1>3, <2>1
<1> HIDE DEF n, q
<1>8. PICK c \in Nat : InFront(uart, x.blocks, x.at, c, q)
  <2>1. stack # <<>> /\ StackIn(stack)
    BY <1>1, Working
  <2> QED BY <1>3, <1>6, <1>7, <2>1, UartType, InBlockOn DEF PointsNow
<1>9. b(n) = Between(x.blocks, x.at, q)
  <2>1. Texts(SubSeq(uart, 1, q - x.at)) = Between(x.blocks, x.at, q)
    <3> DEFINE a == x.at
               bs == x.blocks
    <3>1. a \in Nat /\ bs \in AllBlocks /\ InFront(uart, bs, a, c, q)
      BY <1>3, <1>8
    <3> HIDE DEF a, bs
    <3>2. Texts(SubSeq(uart, 1, q - a)) = Between(bs, a, q)
      BY <1>7, <3>1, UartType, FrontText
    <3> QED BY <3>2 DEF a, bs
  <2> QED BY <1>7, <2>1, EmptyRing
<1>10. ReadAway(q - x.at) /\ ring' = <<>>
  BY <1>1, <1>7, EmptyRing
<1> DEFINE t == Between(x.blocks, x.at, q)
           y == Took(x, q, t)
           g == [top EXCEPT !.got = @ \o t]
<1>11. t \in Seq(STRING)
  <2>1. q <= Len(Text(x.blocks)) /\ x.at <= q
    <3>1. q <= Len(Text(x.blocks))
      BY <1>8 DEF InFront
    <3>2. x.at <= q
      BY <1>3, <1>7
    <3> QED BY <3>1, <3>2
  <2> QED BY <1>3, <1>7, <2>1, BetweenType
<1>12. y \in Points(top.task, instr.goto["OK"]) /\ Resume(g, "OK") /\ "OK" \in Response
  BY <1>1, <1>6, <1>9 DEF Response
<1> HIDE DEF t, b
<1>13. /\ y.blocks = x.blocks /\ y.at = q /\ y.nums = x.nums /\ y.got = x.got \o t
       /\ y.ret = x.ret /\ y.done = x.done /\ y.prompted = x.prompted
  BY <1>3 DEF Took, Point
<1>14. g \in Frames /\ g.task = top.task /\ g.place = top.place
       /\ g.got = top.got \o t /\ g.nums = top.nums /\ g.ret = top.ret
  <2>1. top.got \o t \in Seq(STRING)
    BY <1>2, <1>11 DEF Frames
  <2> QED BY <1>2, <2>1 DEF Frames
<1> HIDE DEF y, g
<1>15. y.nums = g.nums /\ y.got = g.got /\ y.ret = g.ret
  BY <1>3, <1>13, <1>14 DEF FrameAt
<1> QED BY <1>1, <1>3, <1>6, <1>7, <1>10, <1>12, <1>13, <1>14, <1>15, SameCommand, ReadStep

\* What a function goes by is in the answer to its last command line, what a
\* handler goes by in its event.
Answers == [by |-> top.task, of |-> IF top.task \in HandlerTasks THEN 0 ELSE sent, cmd |-> sent]

LEMMA IntOn == ASSUME Careful, IInv, OInv, parseInt PROVE OInv' /\ answer' = Answers
<1>1. /\ Runs({"int"}) /\ UNCHANGED <<modem, command, done>>
  BY DEF parseInt
<1>2. PICK j \in First(uart, {"int"}) :
        /\ ring' = <<>> /\ ReadAway(j + 0)
        /\ answer' = [by |-> top.task, of |-> uart[j].of, cmd |-> sent]
        /\ Resume([top EXCEPT !.nums = Append(@, uart[j].n), !.ret = Retcode(uart[j].n)], "OK")
  <2>1. Port # "ESP" /\ Len(<<>>) = 0
    BY DEF Careful
  <2> QED BY <2>1 DEF parseInt
<1>3. /\ instr = Script[top.task][top.pc] /\ instr.op \in {"int"} /\ top \in Frames
  BY <1>1, Working
<1>4. PICK pts, x : /\ PointsNow(pts, x) /\ FrameAt(top, x) /\ top.pc \in Label(top.task)
                    /\ top.pc \in DOMAIN Script[top.task] /\ Leads(top.task, top.pc, x)
                    /\ x \in Point
  BY <1>1, Working
<1>5. IntLeads(top.task, x, instr)
  BY <1>3, <1>4 DEF Leads
<1>6. PICK q \in Nearest(x, {"int"}) : Number(x, q) \in Points(top.task, instr.goto["OK"])
  BY <1>5 DEF IntLeads
<1>7. /\ q - x.at \in Nat /\ q \in Nat /\ InBlock(x.blocks, x.at, q)
      /\ uart[q - x.at].n = Text(x.blocks)[q].n
      /\ uart[q - x.at].of = IF top.task \in HandlerTasks THEN 0 ELSE sent
      /\ q - x.at \in 1 .. Len(uart)
  BY <1>1, <1>4, NearestIsFirst
<1>8. j = q - x.at
  BY <1>1, <1>2, <1>4, NearestIsFirst
<1>9. ReadAway(q - x.at)
  <2>1. j + 0 = j
    BY <1>7, <1>8
  <2> QED BY <1>2, <1>8, <2>1
<1>10. answer' = Answers
  BY <1>2, <1>7, <1>8 DEF Answers
<1> DEFINE k == Text(x.blocks)[q].n
           y == Number(x, q)
           g == [top EXCEPT !.nums = Append(@, k), !.ret = Retcode(k)]
<1>11. k \in Nat
  <2>1. uart[q - x.at] \in Letter
    BY <1>7, UartType, ElementOfSeq
  <2> QED BY <1>7, <2>1 DEF Letter
<1>12. y \in Points(top.task, instr.goto["OK"]) /\ Resume(g, "OK") /\ "OK" \in Response
  BY <1>2, <1>6, <1>7, <1>8 DEF Response
<1> HIDE DEF k
<1>13. /\ y.blocks = x.blocks /\ y.at = q /\ y.nums = Append(x.nums, k) /\ y.got = x.got
       /\ y.ret = Retcode(k) /\ y.done = x.done /\ y.prompted = x.prompted
  BY <1>4 DEF Number, Point, k
<1>14. g \in Frames /\ g.task = top.task /\ g.place = top.place
       /\ g.got = top.got /\ g.nums = Append(top.nums, k) /\ g.ret = Retcode(k)
  <2>1. Append(top.nums, k) \in Seq(Nat) /\ Retcode(k) \in Code
    BY <1>3, <1>11, AppendProperties DEF Frames, Retcode, Code
  <2> QED BY <1>3, <2>1 DEF Frames
<1> HIDE DEF y, g
<1>15. y.nums = g.nums /\ y.got = g.got /\ y.ret = g.ret
  BY <1>4, <1>13, <1>14 DEF FrameAt
<1> QED BY <1>1, <1>2, <1>4, <1>7, <1>9, <1>10, <1>12, <1>13, <1>14, <1>15, SameCommand, ReadStep

\* No read inside a block runs out of time.
LEMMA ReadsInTime == ASSUME IInv, OInv, ReadTimesOut PROVE FALSE
<1>1. Runs({"find", "int", "bytes", "until"}) /\ Starved
  BY DEF ReadTimesOut, TimeIsUp
<1>2. /\ instr = Script[top.task][top.pc] /\ instr.op \in {"find", "int", "bytes", "until"}
      /\ stack # <<>> /\ StackIn(stack)
  BY <1>1, Working
<1>3. PICK pts, x : /\ PointsNow(pts, x) /\ FrameAt(top, x) /\ top.pc \in Label(top.task)
                    /\ top.pc \in DOMAIN Script[top.task] /\ Leads(top.task, top.pc, x)
                    /\ x.at \in Nat /\ x.blocks \in AllBlocks
  BY <1>1, Working
<1>4. ASSUME NEW S, Nearest(x, S) # {}, Lacks(uart, S) PROVE FALSE
  <2>1. PICK q \in Nearest(x, S) : TRUE
    BY <1>4
  <2>2. q - x.at \in 1 .. Len(uart) /\ uart[q - x.at].s \in S
    BY <1>1, <1>3, NearestIsFirst
  <2>3. DOMAIN uart = 1 .. Len(uart)
    BY UartType, LenProperties
  <2> QED BY <1>4, <2>2, <2>3 DEF Lacks
<1>5. CASE instr.op = "find"
  <2>1. Nearest(x, Having(instr.arg[1])) # {} /\ Lacks(uart, Having(instr.arg[1]))
    BY <1>1, <1>2, <1>3, <1>5, EmptyRing DEF Leads, FindLeads, Starved
  <2> QED BY <1>4, <2>1
<1>6. CASE instr.op = "int"
  <2>1. Nearest(x, {"int"}) # {} /\ Lacks(uart, {"int"})
    BY <1>1, <1>2, <1>3, <1>6, EmptyRing DEF Leads, IntLeads, Starved
  <2> QED BY <1>4, <2>1
<1>7. CASE instr.op = "until"
  <2>1. Nearest(x, Having("NL")) # {} /\ Lacks(uart, Having("NL"))
    BY <1>1, <1>2, <1>3, <1>7, EmptyRing DEF Leads, LineLeads, Starved
  <2> QED BY <1>4, <2>1
<1>8. CASE instr.op = "bytes"
  <2> DEFINE k == Amount
             q == x.at + k
  <2>1. BytesLeads(top.task, x, instr) /\ Len(uart) < k
    BY <1>1, <1>2, <1>3, <1>8, EmptyRing DEF Leads, Starved
  <2>2. x.nums = top.nums /\ top \in Frames
    BY <1>1, <1>3, Working DEF FrameAt
  <2>3. InBlock(x.blocks, x.at, q)
    BY <2>1, <2>2 DEF BytesLeads, Amount
  <2>4. k \in Nat
    <3>1. CASE instr.k = 0
      BY <3>1 DEF Amount
    <3>2. CASE instr.k # 0
      <4>1. instr.k \in DOMAIN top.nums /\ top.nums \in Seq(Nat)
        BY <2>1, <2>2, <3>2 DEF BytesLeads, Frames
      <4> QED BY <3>2, <4>1, ElementOfSeq DEF Amount
    <3> QED BY <3>1, <3>2
  <2> DEFINE a == x.at
             v == Len(uart)
  <2> HIDE DEF k
  <2>5. q \in Nat /\ q - x.at = k
    BY <1>3, <2>4
  <2> HIDE DEF q
  <2>6. \E c \in Nat : InFront(uart, x.blocks, x.at, c, q)
    BY <1>2, <1>3, <2>3, <2>5, UartType, InBlockOn DEF PointsNow
  <2>7. k \in 0 .. v /\ v \in Nat
    BY <2>5, <2>6, UartType, LenProperties DEF InFront
  <2>8. v < k
    BY <2>1
  <2> HIDE DEF v
  <2> QED BY <2>7, <2>8
<1> QED BY <1>2, <1>5, <1>6, <1>7, <1>8

-----------------------------------------------------------------------------
(* Waits, and commands *)

\* The innermost function goes on as frame g with response r, at point y.
LEMMA GoesOn ==
  ASSUME IInv, OInv, NEW ops, Runs(ops), NEW pts, NEW x, PointsNow(pts, x),
         NEW g \in Frames, g.task = top.task, g.place = top.place,
         NEW r, Resume(g, r), NEW y, y \in Points(top.task, instr.goto[r]),
         y.nums = g.nums, y.got = g.got, y.ret = g.ret,
         NEW d \in BOOLEAN, DoneToo(x.done, y.done, d), DoneToo(done, done', d),
         ring' = <<>>, lost' = lost, prompted' => sent' # 0,
         IF top.task \in HandlerTasks
         THEN Carries(uart', owed', pending', sent', pts[Len(stack) - 1], <<y>>) /\ prompted' = prompted
         ELSE Carries(uart', owed', pending', sent', y, <<>>) /\ prompted' = y.prompted
  PROVE  OInv'
<1> DEFINE f == [g EXCEPT !.pc = instr.goto[r]]
<1>1. stack # <<>> /\ StackIn(stack) /\ top = stack[Len(stack)]
  BY AtWork DEF IInv
<1>2. FrameAt(f, y) /\ f.task = top.task /\ f.place = top.place
  <2>1. FrameAt(top, x)
    BY <1>1, InnerFacts DEF PointsNow
  <2> QED BY <2>1, FrameOn
<1>3. stack' = [stack EXCEPT ![Len(stack)] = f]
  BY DEF Resume
<1> HIDE DEF f
<1>4. Outlining(stack, pts, uart, owed, pending, sent, prompted, done) /\ x = pts[Len(stack)]
  BY DEF PointsNow
<1>5. \E z : Outlining([stack EXCEPT ![Len(stack)] = f], z, uart', owed', pending', sent',
                       prompted', done')
  <2>1. DoneToo(pts[Len(stack)].done, y.done, d)
    BY <1>4
  <2>2. f.task = stack[Len(stack)].task /\ f.place = stack[Len(stack)].place
    BY <1>1, <1>2
  <2>3. ReadsAt(stack, pts, y, uart', owed', pending', sent', prompted, prompted')
    BY <1>1 DEF Handling, ReadsAt
  <2> QED BY <1>1, <1>2, <1>4, <2>1, <2>2, <2>3, OutlineOn
<1>6. stack' # <<>>
  <2>1. stack \in Seq(Frames) /\ Len(stack) # 0 /\ Len(stack) \in Nat
    BY <1>1 DEF StackIn
  <2>2. DOMAIN stack' = DOMAIN stack /\ DOMAIN stack = 1 .. Len(stack)
    BY <1>3, <2>1
  <2>3. 1 \in DOMAIN stack'
    BY <2>1, <2>2
  <2> QED BY <2>3
<1>7. lost' = 0
  BY DEF OInv
<1> QED BY <1>3, <1>5, <1>6, <1>7 DEF OInv

\* What the function that reads has in front of it.
LEMMA InFrontNow ==
  ASSUME IInv, OInv, NEW ops, Runs(ops), NEW pts, NEW x, PointsNow(pts, x)
  PROVE  /\ top.task \in HandlerTasks =>
              /\ prompted = pts[Len(stack) - 1].prompted
              /\ Carries(uart, owed, pending, sent, pts[Len(stack) - 1], <<x>>)
         /\ top.task \notin HandlerTasks =>
              prompted = x.prompted /\ Carries(uart, owed, pending, sent, x, <<>>)
<1>1. stack # <<>> /\ StackIn(stack) /\ top = stack[Len(stack)]
  BY AtWork DEF IInv
<1> QED BY <1>1, InnerFacts DEF PointsNow, Handling

\* What is waited for is in the outline.
LEMMA Waited ==
  ASSUME IInv, OInv, Waiting, NEW x, Leads(top.task, top.pc, x)
  PROVE  /\ Stops = StopStrings(instr)
         /\ \A s, r : Responds(s, r) => RespondsTo(instr, s, r)
         /\ WaitLeads(top.task, top.pc, x, instr) /\ PollLeads(x, instr)
         /\ top.task \notin HandlerTasks => WaitsFor(Stops)
<1>1. /\ instr = Script[top.task][top.pc] /\ instr.op \in {"wait", "clear", "listen"}
  BY Working DEF Waiting
<1>2. WaitLeads(top.task, top.pc, x, instr) /\ PollLeads(x, instr)
  BY <1>1 DEF Leads
<1>3. Stops = StopStrings(instr)
  BY DEF Stops, StopStrings
<1>4. \A s, r : Responds(s, r) => RespondsTo(instr, s, r)
  BY DEF Responds, RespondsTo
<1>5. EventHeads \subseteq Stops
  BY DEF Stops
<1>6. top.task \notin HandlerTasks => WaitsFor(Stops)
  BY <1>2, <1>3, <1>5 DEF WaitsFor, WaitLeads, PollLeads
<1> QED BY <1>2, <1>3, <1>4, <1>6

\* There is something to find in an answer only if there is one.
LEMMA FoundInText ==
  ASSUME NEW bs \in AllBlocks, NEW at \in Nat, NEW S, NEW q \in FirstAfter(bs, at, S)
  PROVE  bs # <<>> /\ q \in Nat
<1>1. q \in at + 1 .. Len(Text(bs))
  BY DEF FirstAfter
<1>2. Len(Text(bs)) \in Nat
  BY TextType
<1>3. q \in Nat /\ Len(Text(bs)) # 0
  BY <1>1, <1>2
<1>4. bs = <<>> => Len(Text(bs)) = 0
  BY EmptyAnswer, TextType
<1> QED BY <1>3, <1>4

LEMMA RespondOn ==
  ASSUME IInv, OInv, Respond
  PROVE  OInv' /\ answer' \in {answer, Answers}
<1>1. /\ Waiting /\ Runs(Waits) /\ ring' = <<>>
      /\ UNCHANGED <<owed, pending, sent, prompted, done, lost>>
  BY DEF Respond, Waiting, Waits, modem, command
<1>2. PICK j \in First(uart, Stops) :
        /\ uart[j].s \notin EventHeads
        /\ \E r \in Response : Responds(uart[j].s, r) /\ Resume(top, r)
        /\ uart' = From(uart, j + 1)
        /\ answer' = IF instr.op = "wait"
                     THEN [by |-> top.task, of |-> uart[j].of, cmd |-> sent] ELSE answer
  BY DEF Respond
<1>3. PICK r \in Response : Responds(uart[j].s, r) /\ Resume(top, r)
  BY <1>2
<1>4. PICK pts, x : /\ PointsNow(pts, x) /\ FrameAt(top, x) /\ Leads(top.task, top.pc, x)
                    /\ x \in Point /\ x.at \in Nat /\ x.blocks \in AllBlocks
  BY <1>1, Working
<1>5. /\ Stops = StopStrings(instr)
      /\ RespondsTo(instr, uart[j].s, r)
      /\ WaitLeads(top.task, top.pc, x, instr)
      /\ top.task \notin HandlerTasks => WaitsFor(Stops)
  BY <1>1, <1>3, <1>4, Waited
<1>6. ASSUME NEW q \in FirstAfter(x.blocks, x.at, Stops), uart[j].s = Text(x.blocks)[q].s
      PROVE  ReadTo(x, q) \in Points(top.task, instr.goto[r])
  BY <1>5, <1>6 DEF WaitLeads
<1>7. \E q \in FirstAfter(x.blocks, x.at, Stops) :
        /\ uart[j].s = Text(x.blocks)[q].s
        /\ uart[j].of = IF top.task \in HandlerTasks THEN 0 ELSE sent
        /\ \A y : y.blocks = x.blocks /\ y.at = q =>
             IF top.task \in HandlerTasks
             THEN Carries(uart', owed, pending, sent, pts[Len(stack) - 1], <<y>>)
             ELSE Carries(uart', owed, pending, sent, y, <<>>)
  <2>1. CASE top.task \in HandlerTasks
    <3>1. PICK q \in FirstAfter(x.blocks, x.at, Stops) : TRUE
      BY <1>5, <2>1 DEF WaitLeads
    <3> DEFINE p == pts[Len(stack) - 1]
    <3>2. Carries(uart, owed, pending, sent, p, <<x>>)
      BY <1>1, <1>4, <2>1, InFrontNow
    <3> HIDE DEF p
    <3>3. PICK c : /\ OnLine(uart, owed, pending, c, p.blocks, p.at, <<x>>)
                   /\ p.blocks # <<>> => c = sent
      BY <3>2 DEF Carries
    <3>4. /\ uart[j].s = Text(x.blocks)[q].s /\ uart[j].of = 0
          /\ \A y : y.blocks = x.blocks /\ y.at = q =>
               OnLine(uart', owed, pending, c, p.blocks, p.at, <<y>>)
      <4>1. /\ uart[j].s = Text(x.blocks)[q].s /\ uart[j].of = 0
            /\ \A y : y.blocks = x.blocks /\ y.at = q =>
                 OnLine(From(uart, j + 1), owed, pending, c, p.blocks, p.at, <<y>>)
        <5>1. j \in Nat
          <6>1. j \in 1 .. Len(uart)
            BY UartType, LenProperties DEF First
          <6> QED BY <6>1
        <5> QED BY <3>1, <3>3, <5>1, LineHandlerFinds
      <4> QED BY <1>2, <4>1
    <3>5. \A y : y.blocks = x.blocks /\ y.at = q => Carries(uart', owed, pending, sent, p, <<y>>)
      BY <3>3, <3>4 DEF Carries
    <3> QED BY <2>1, <3>1, <3>4, <3>5 DEF p
  <2>2. CASE top.task \notin HandlerTasks
    <3>1. Carries(uart, owed, pending, sent, x, <<>>)
      BY <1>1, <1>4, <2>2, InFrontNow
    <3>2. PICK c : OnLine(uart, owed, pending, c, x.blocks, x.at, <<>>) /\ (x.blocks # <<>> => c = sent)
      BY <3>1 DEF Carries
    <3>3. PICK q \in FirstAfter(x.blocks, x.at, Stops) :
            /\ uart[j].s = Text(x.blocks)[q].s /\ uart[j].of = c
            /\ OnLine(uart', owed, pending, c, x.blocks, q, <<>>)
      BY <1>2, <1>5, <2>2, <3>2, LineRespond
    <3>4. x.blocks # <<>>
      BY <1>4, <3>3, FoundInText
    <3>5. \A y : y.blocks = x.blocks /\ y.at = q => Carries(uart', owed, pending, sent, y, <<>>)
      BY <3>2, <3>3 DEF Carries
    <3> QED BY <2>2, <3>2, <3>3, <3>4, <3>5
  <2> QED BY <2>1, <2>2
<1>8. PICK q \in FirstAfter(x.blocks, x.at, Stops) :
        /\ uart[j].s = Text(x.blocks)[q].s
        /\ uart[j].of = IF top.task \in HandlerTasks THEN 0 ELSE sent
        /\ \A y : y.blocks = x.blocks /\ y.at = q =>
             IF top.task \in HandlerTasks
             THEN Carries(uart', owed, pending, sent, pts[Len(stack) - 1], <<y>>)
             ELSE Carries(uart', owed, pending, sent, y, <<>>)
  BY <1>7
<1>9. answer' \in {answer, Answers}
  BY <1>2, <1>8 DEF Answers
<1> DEFINE y == ReadTo(x, q)
<1>10. /\ y.blocks = x.blocks /\ y.at = q /\ y.nums = x.nums /\ y.got = x.got /\ y.ret = x.ret
       /\ y.done = x.done /\ y.prompted = x.prompted
  BY <1>4 DEF ReadTo, Point
<1>11. y \in Points(top.task, instr.goto[r])
  BY <1>6, <1>8
<1> HIDE DEF y
<1>12. y.nums = top.nums /\ y.got = top.got /\ y.ret = top.ret /\ top \in Frames
  BY <1>1, <1>4, <1>10, Working DEF FrameAt
<1>13. IF top.task \in HandlerTasks
       THEN Carries(uart', owed', pending', sent', pts[Len(stack) - 1], <<y>>) /\ prompted' = prompted
       ELSE Carries(uart', owed', pending', sent', y, <<>>) /\ prompted' = y.prompted
  BY <1>1, <1>4, <1>8, <1>10, InFrontNow
<1>14. DoneToo(x.done, y.done, TRUE) /\ DoneToo(done, done', TRUE) /\ TRUE \in BOOLEAN
  <2>1. x.done \in BOOLEAN /\ done \in BOOLEAN
    BY <1>4, Typed DEF Point
  <2> QED BY <1>1, <1>10, <2>1 DEF DoneToo
<1>15. prompted' => sent' # 0
  BY <1>1 DEF OInv
<1> QED BY <1>1, <1>3, <1>4, <1>9, <1>11, <1>12, <1>13, <1>14, <1>15, GoesOn

LEMMA WaitTimesOutOn == ASSUME Careful, IInv, OInv, WaitTimesOut PROVE OInv'
<1>1. /\ Waiting /\ Runs(Waits) /\ ring' = <<>> /\ uart' = <<>> /\ Resume(top, "TIMEOUT")
      /\ UNCHANGED <<owed, pending, sent, prompted, done, lost>>
  BY DEF WaitTimesOut, Waiting, Waits, modem, command, ghost
<1>2. /\ instr = Script[top.task][top.pc] /\ instr.op \in {"wait", "clear", "listen"} /\ top \in Frames
  BY <1>1, Working DEF Waiting
<1>3. Lacks(uart, Stops)
  BY <1>2 DEF WaitTimesOut, TimeIsUp, Starved
<1>4. instr.op = "listen" \/ (owed = <<>> /\ pending = <<>>)
  <2>1. early \in 0 .. 0
    BY Typed DEF Careful
  <2>2. ~(early < MaxEarly)
    BY <2>1 DEF Careful
  <2> QED BY <2>2 DEF WaitTimesOut, TimeIsUp
<1>5. PICK pts, x : /\ PointsNow(pts, x) /\ FrameAt(top, x) /\ Leads(top.task, top.pc, x)
                    /\ top.pc \in Label(top.task)
                    /\ x \in Point /\ x.at \in Nat /\ x.blocks \in AllBlocks /\ x.at <= Whole(x)
  BY <1>1, Working
<1>6. /\ Stops = StopStrings(instr)
      /\ WaitLeads(top.task, top.pc, x, instr) /\ PollLeads(x, instr)
      /\ top.task \notin HandlerTasks => WaitsFor(Stops)
  BY <1>1, <1>5, Waited
<1>7. ASSUME top.task \in HandlerTasks PROVE FALSE
  <2>1. PICK q \in FirstAfter(x.blocks, x.at, Stops) : TRUE
    BY <1>6, <1>7 DEF WaitLeads
  <2>2. ASSUME instr.op = "listen" PROVE FALSE
    <3>1. /\ q \in x.at + 1 .. Whole(x) /\ Text(x.blocks)[q].s \in EventHeads \cup Awaited
      BY <1>6, <2>1 DEF FirstAfter, Whole, PollLeads
    <3>2. Text(x.blocks)[q].s \notin Awaited
      BY <1>6, <2>2, <3>1 DEF PollLeads, Spent
    <3>3. Whole(x) \in Nat
      BY <1>5, TextType DEF Whole
    <3>4. \A i \in x.at + 1 .. Whole(x) : Text(x.blocks)[i].s \notin EventHeads
      BY <1>5, <3>3, NoHeadAhead
    <3> QED BY <3>1, <3>2, <3>4
  <2>3. ASSUME pending = <<>> PROVE FALSE
    <3> DEFINE p == pts[Len(stack) - 1]
    <3>1. Carries(uart, owed, <<>>, sent, p, <<x>>)
      BY <1>1, <1>5, <1>7, <2>3, InFrontNow
    <3> HIDE DEF p
    <3>2. PICK c : OnLine(uart, owed, <<>>, c, p.blocks, p.at, <<x>>)
      BY <3>1 DEF Carries
    <3> QED BY <1>3, <2>1, <3>2, LineHandlerStarved
  <2> QED BY <1>4, <2>2, <2>3
<1>8. PICK c : /\ OnLine(uart, owed, pending, c, x.blocks, x.at, <<>>)
               /\ x.blocks # <<>> => c = sent
  BY <1>1, <1>5, <1>7, InFrontNow DEF Carries
<1>9. owed = <<>>
  <2>1. ASSUME instr.op = "listen" PROVE owed = <<>>
    <3>1. Spent(x)
      BY <1>6, <2>1 DEF PollLeads
    <3>2. <<>> \in AnswerBlocks /\ (<<>> # <<>> => 0 # 0)
      BY EmptyAnswer
    <3>3. 0 \in Nat
      OBVIOUS
    <3>4. owed = <<>> /\ AnswerToCome(uart, pending, 0, <<>>)
      BY <1>8, <3>1, <3>2, <3>3, LineReset
    <3> QED BY <3>4
  <2> QED BY <1>4, <2>1
<1>10. /\ FirstAfter(x.blocks, x.at, Stops) = {}
       /\ OnLine(<<>>, <<>>, pending, c, x.blocks, Whole(x), <<>>)
  BY <1>3, <1>6, <1>7, <1>8, <1>9, LineStarved DEF Whole
<1> DEFINE q == Whole(x)
           y == ReadTo(x, q)
<1>11. y \in Points(top.task, instr.goto["TIMEOUT"])
  BY <1>6, <1>7, <1>10 DEF WaitLeads
<1> HIDE DEF q
<1>12. /\ y.blocks = x.blocks /\ y.at = q /\ y.nums = x.nums /\ y.got = x.got /\ y.ret = x.ret
       /\ y.done = x.done /\ y.prompted = x.prompted
  BY <1>5 DEF ReadTo, Point
<1> HIDE DEF y
<1>13. Carries(<<>>, <<>>, pending, sent, y, <<>>)
  BY <1>8, <1>10, <1>12 DEF Carries, q
<1>14. prompted' = y.prompted
  BY <1>1, <1>5, <1>7, <1>12, InFrontNow
<1>15. DoneToo(x.done, y.done, TRUE) /\ DoneToo(done, done', TRUE) /\ TRUE \in BOOLEAN
  <2>1. x.done \in BOOLEAN /\ done \in BOOLEAN
    BY <1>5, Typed DEF Point
  <2> QED BY <1>1, <1>12, <2>1 DEF DoneToo
<1>16. prompted' => sent' # 0
  BY <1>1 DEF OInv
<1>17. y.nums = top.nums /\ y.got = top.got /\ y.ret = top.ret
  BY <1>5, <1>12 DEF FrameAt
<1>18. Carries(uart', owed', pending', sent', y, <<>>)
  BY <1>1, <1>9, <1>13
<1> QED BY <1>1, <1>2, <1>5, <1>7, <1>11, <1>14, <1>15, <1>16, <1>17, <1>18, GoesOn

\* The next answer is put on its way.
LEMMA LineAsk ==
  ASSUME NEW u, NEW ow, NEW pe, NEW s, NEW p, NEW bs \in AnswerBlocks, NEW d \in Nat, NEW y,
         Carries(u, ow, pe, s, p, <<>>), Spent(p), bs # <<>> => d # 0, y.blocks = bs, y.at = 0
  PROVE  Carries(u, ow \o TagAll(bs, d), pe, d, y, <<>>)
<1>1. PICK c : OnLine(u, ow, pe, c, p.blocks, p.at, <<>>) /\ (p.blocks # <<>> => c = s)
  BY DEF Carries
<1>2. ow = <<>> /\ OnLine(u, Unsent(bs, 0, d), pe, d, bs, 0, <<>>)
  <2>1. ow = <<>> /\ AnswerToCome(u, pe, d, bs)
    <3>1. OnLine(u, ow, pe, c, p.blocks, p.at, <<>>) /\ Spent(p) /\ (bs # <<>> => d # 0)
      BY <1>1
    <3> QED BY ONLY <3>1, LineReset
  <2> QED BY <2>1 DEF AnswerToCome
<1>3. bs \in AllBlocks /\ Len(bs) \in Nat
  <2>1. bs \in AllBlocks
    BY DEF AllBlocks
  <2> QED BY <2>1, BlocksType
<1>4. 0 \in 0 .. Len(bs)
  BY <1>3
<1>5. Unsent(bs, 0, d) \in Seq(Seq(Letter)) /\ TagAll(bs, d) = Unsent(bs, 0, d)
  BY <1>3, <1>4, UnsentType, AllUnsent
<1>6. <<>> \o Unsent(bs, 0, d) = Unsent(bs, 0, d)
  <2> DEFINE w == Unsent(bs, 0, d)
  <2>1. w \in Seq(Seq(Letter))
    BY <1>5
  <2> HIDE DEF w
  <2>2. <<>> \o w = w
    BY <2>1, ConcatEmptySeq
  <2> QED BY <2>2 DEF w
<1>7. OnLine(u, ow \o TagAll(bs, d), pe, d, y.blocks, y.at, <<>>)
  BY <1>2, <1>5, <1>6
<1> QED BY <1>7 DEF Carries

LEMMA SendOn == ASSUME IInv, OInv, SendCommand PROVE OInv'
<1>1. /\ Runs({"send"}) /\ Resume(top, "OK") /\ sent' = sent + 1
      /\ UNCHANGED <<uart, ring, pending, lost>>
  BY DEF SendCommand, wire
<1>2. PICK z \in Replies[instr.arg[1]] :
        /\ owed' = owed \o TagAll(z.blocks, sent + 1) /\ prompted' = z.done
        /\ done' = (done /\ z.done)
  BY DEF SendCommand
<1>3. /\ instr = Script[top.task][top.pc] /\ instr.op = "send" /\ top \in Frames
      /\ top.task \in DOMAIN Script /\ top.pc \in DOMAIN Script[top.task]
  BY <1>1, Working
<1>4. PICK pts, x : /\ PointsNow(pts, x) /\ FrameAt(top, x) /\ Leads(top.task, top.pc, x)
                    /\ x \in Point
  BY <1>1, Working
<1>5. SendLeads(top.task, x, instr)
  BY <1>3, <1>4 DEF Leads
<1>6. /\ top.task \notin HandlerTasks /\ Spent(x)
      /\ Told(x, z) \in Points(top.task, instr.goto["OK"])
  BY <1>2, <1>3, <1>5 DEF SendLeads
<1>7. instr.arg[1] \in DOMAIN Replies
  BY <1>3, Instructions
<1>8. z.blocks \in AnswerBlocks /\ z.done \in BOOLEAN
  BY <1>2, <1>7, BlocksAssumption DEF AnswerBlocks
<1> DEFINE y == Told(x, z)
           d == sent + 1
<1>9. /\ y.blocks = z.blocks /\ y.at = 0 /\ y.nums = x.nums /\ y.got = x.got /\ y.ret = x.ret
      /\ y.done = (x.done /\ z.done) /\ y.prompted = z.done
  BY <1>4 DEF Told, Point
<1>10. d \in Nat /\ d # 0
  BY Typed
<1> HIDE DEF y, d
<1>11. Carries(uart, owed, pending, sent, x, <<>>)
  BY <1>1, <1>4, <1>6, InFrontNow
<1>12. Carries(uart, owed \o TagAll(z.blocks, d), pending, d, y, <<>>)
  BY <1>6, <1>8, <1>9, <1>10, <1>11, LineAsk
<1>13. /\ Carries(uart', owed', pending', sent', y, <<>>) /\ prompted' = y.prompted
       /\ (prompted' => sent' # 0)
  BY <1>1, <1>2, <1>9, <1>10, <1>12 DEF d
<1>14. DoneToo(x.done, y.done, z.done) /\ DoneToo(done, done', z.done)
  BY <1>2, <1>9 DEF DoneToo
<1>15. y.nums = top.nums /\ y.got = top.got /\ y.ret = top.ret
  BY <1>4, <1>9 DEF FrameAt
<1>16. y \in Points(top.task, instr.goto["OK"])
  BY <1>6 DEF y
<1>17. ring' = <<>> /\ lost' = lost
  BY <1>1 DEF OInv
<1> QED BY <1>1, <1>3, <1>4, <1>6, <1>8, <1>13, <1>14, <1>15, <1>16, <1>17, GoesOn

LEMMA WriteOn == ASSUME IInv, OInv, WriteData PROVE OInv'
<1>1. /\ Runs({"put"}) /\ Resume(top, "OK")
      /\ UNCHANGED <<uart, ring, pending, lost, sent, prompted>>
  BY DEF WriteData, wire, command
<1>2. PICK z \in IF prompted THEN Replies[instr.arg[1]] ELSE {Mute} :
        owed' = owed \o TagAll(z.blocks, sent) /\ done' = (done /\ z.done)
  BY DEF WriteData
<1>3. /\ instr = Script[top.task][top.pc] /\ instr.op = "put" /\ top \in Frames
      /\ top.task \in DOMAIN Script /\ top.pc \in DOMAIN Script[top.task]
  BY <1>1, Working
<1>4. PICK pts, x : /\ PointsNow(pts, x) /\ FrameAt(top, x) /\ Leads(top.task, top.pc, x)
                    /\ x \in Point
  BY <1>1, Working
<1>5. SendLeads(top.task, x, instr)
  BY <1>3, <1>4 DEF Leads
<1>6. top.task \notin HandlerTasks /\ Spent(x)
  BY <1>5 DEF SendLeads
<1>7. prompted = x.prompted /\ Carries(uart, owed, pending, sent, x, <<>>)
  BY <1>1, <1>4, <1>6, InFrontNow
<1>8. Fed(x, z) \in Points(top.task, instr.goto["OK"])
  BY <1>2, <1>3, <1>5, <1>7 DEF SendLeads
<1>9. instr.arg[1] \in DOMAIN Replies
  BY <1>3, Instructions
<1>10. z.blocks \in AnswerBlocks /\ z.done \in BOOLEAN /\ (z.blocks # <<>> => sent # 0)
  <2>1. CASE prompted
    <3>1. z \in Replies[instr.arg[1]]
      BY <1>2, <2>1
    <3>2. z.blocks \in AnswerBlocks /\ z.done \in BOOLEAN
      BY <1>9, <3>1, BlocksAssumption DEF AnswerBlocks
    <3> QED BY <2>1, <3>2 DEF OInv
  <2>2. CASE ~prompted
    <3>1. z = Mute
      BY <1>2, <2>2
    <3> QED BY <3>1, EmptyAnswer DEF Mute, Refused
  <2> QED BY <2>1, <2>2
<1> DEFINE y == Fed(x, z)
<1>11. /\ y.blocks = z.blocks /\ y.at = 0 /\ y.nums = x.nums /\ y.got = x.got /\ y.ret = x.ret
       /\ y.done = (x.done /\ z.done) /\ y.prompted = x.prompted
  BY <1>4 DEF Fed, Point
<1> HIDE DEF y
<1>12. sent \in Nat
  BY Typed
<1>13. Carries(uart, owed \o TagAll(z.blocks, sent), pending, sent, y, <<>>)
  BY <1>6, <1>7, <1>10, <1>11, <1>12, LineAsk
<1>14. /\ Carries(uart', owed', pending', sent', y, <<>>) /\ prompted' = y.prompted
       /\ (prompted' => sent' # 0)
  BY <1>1, <1>2, <1>7, <1>11, <1>13 DEF OInv
<1>15. DoneToo(x.done, y.done, z.done) /\ DoneToo(done, done', z.done)
  BY <1>2, <1>11 DEF DoneToo
<1>16. y.nums = top.nums /\ y.got = top.got /\ y.ret = top.ret
  BY <1>4, <1>11 DEF FrameAt
<1>17. y \in Points(top.task, instr.goto["OK"])
  BY <1>8 DEF y
<1>18. ring' = <<>> /\ lost' = lost
  BY <1>1 DEF OInv
<1> QED BY <1>1, <1>3, <1>4, <1>6, <1>10, <1>14, <1>15, <1>16, <1>17, <1>18, GoesOn

\* A handler starts behind the head of its event.
LEMMA DispatchOn == ASSUME Careful, IInv, OInv, Dispatch PROVE OInv'
<1>1. /\ Waiting /\ Runs(Waits)
      /\ UNCHANGED <<owed, pending, sent, prompted, done, lost>>
  BY DEF Dispatch, Waiting, Waits, modem, command, ghost
<1>2. PICK j \in First(uart, Stops) :
        /\ uart[j].s \in EventHeads
        /\ \E k \in NextFor(uart[j].s, 0) : stack' = Append(stack, Frame(Handlers[k], k))
        /\ uart' = From(uart, j + 1)
        /\ ring' = <<>>
  BY DEF Dispatch, Careful
<1>3. PICK k \in NextFor(uart[j].s, 0) : stack' = Append(stack, Frame(Handlers[k], k))
  BY <1>2
<1>4. /\ k \in DOMAIN Handlers /\ MatchString[Handlers[k]] = uart[j].s /\ k \in Nat
      /\ Handlers[k] \in HandlerTasks /\ Handlers[k] \in DOMAIN Script /\ Handlers[k] \in Outlined
  <2>1. k \in DOMAIN Handlers /\ MatchString[Handlers[k]] = uart[j].s
    BY <1>3 DEF NextFor
  <2> QED BY <2>1, HandlerFacts DEF Careful
<1>5. PICK pts, x : /\ PointsNow(pts, x) /\ FrameAt(top, x) /\ Leads(top.task, top.pc, x)
                    /\ x \in Point /\ x.at \in Nat /\ x.blocks \in AllBlocks
  BY <1>1, Working
<1>6. /\ Stops = StopStrings(instr)
      /\ WaitLeads(top.task, top.pc, x, instr)
      /\ top.task \notin HandlerTasks => WaitsFor(Stops)
  BY <1>1, <1>5, Waited
<1>7. j \in Nat
  <2>1. j \in 1 .. Len(uart)
    BY UartType, LenProperties DEF First
  <2> QED BY <2>1
<1>8. ASSUME top.task \in HandlerTasks PROVE FALSE
  <2>1. PICK q \in FirstAfter(x.blocks, x.at, Stops) : Text(x.blocks)[q].s \notin EventHeads
    BY <1>6, <1>8 DEF WaitLeads
  <2> DEFINE p == pts[Len(stack) - 1]
  <2>2. Carries(uart, owed, pending, sent, p, <<x>>)
    BY <1>1, <1>5, <1>8, InFrontNow
  <2> HIDE DEF p
  <2>3. PICK c : OnLine(uart, owed, pending, c, p.blocks, p.at, <<x>>)
    BY <2>2 DEF Carries
  <2>4. uart[j].s = Text(x.blocks)[q].s
    BY <2>1, <2>3, LineHandlerFinds
  <2> QED BY <1>2, <2>1, <2>4
<1>9. PICK c : /\ OnLine(uart, owed, pending, c, x.blocks, x.at, <<>>)
               /\ x.blocks # <<>> => c = sent
  BY <1>1, <1>5, <1>8, InFrontNow DEF Carries
<1>10. PICK e \in EventBlocks :
         \E h \in 1 .. Len(Text(e)) : \E q \in x.at .. Len(Text(x.blocks)) :
           /\ Text(e)[h].s = uart[j].s /\ Cut(x.blocks, q)
           /\ \A i \in x.at + 1 .. q : Text(x.blocks)[i].s \notin Stops
           /\ \A z : z.blocks = e /\ z.at = h =>
                OnLine(From(uart, j + 1), owed, pending, c, x.blocks, q, <<z>>)
  BY <1>2, <1>6, <1>8, <1>9, LineDispatch
<1>0. PICK h \in 1 .. Len(Text(e)), q \in x.at .. Len(Text(x.blocks)) :
         /\ Text(e)[h].s = uart[j].s /\ Cut(x.blocks, q)
         /\ \A i \in x.at + 1 .. q : Text(x.blocks)[i].s \notin Stops
         /\ \A z : z.blocks = e /\ z.at = h =>
              OnLine(From(uart, j + 1), owed, pending, c, x.blocks, q, <<z>>)
  BY <1>10
<1> DEFINE y == ReadTo(x, q)
           v == Heard(e, h)
           f == Frame(Handlers[k], k)
<1>11. y \in Points(top.task, top.pc)
  BY <1>6, <1>8, <1>0 DEF WaitLeads, Whole
<1>12. /\ y.blocks = x.blocks /\ y.at = q /\ y.nums = x.nums /\ y.got = x.got /\ y.ret = x.ret
       /\ y.done = x.done /\ y.prompted = x.prompted
  BY <1>5 DEF ReadTo, Point
<1>13. v \in Points(Handlers[k], "go")
  <2>1. Starts(Handlers[k])
    BY <1>4, OutlineAssumption
  <2> QED BY <1>4, <1>0, <2>1 DEF Starts
<1>14. /\ v.blocks = e /\ v.at = h /\ v.nums = <<>> /\ v.got = <<>> /\ v.ret = "SUCCEEDED"
       /\ v.done = TRUE
  BY DEF Heard, Start
<1>15. /\ f.task = Handlers[k] /\ f.place = k /\ f.pc = "go" /\ f.nums = <<>> /\ f.got = <<>>
       /\ f.ret = "SUCCEEDED" /\ f \in Frames
  BY <1>4, NewFrame DEF Frame
<1> HIDE DEF y, v, f
<1>16. FrameAt(top, y) /\ FrameAt(f, v)
  BY <1>4, <1>5, <1>11, <1>12, <1>13, <1>14, <1>15 DEF FrameAt
<1> DEFINE n == Len(stack)
<1>17. /\ stack # <<>> /\ StackIn(stack) /\ top = stack[n] /\ Placed(stack, pts)
       /\ done = AllDone(pts, n) /\ ~Handling(stack[n]) /\ stack \in Seq(Frames)
       /\ n \in Nat /\ n \in DOMAIN stack
  <2>1. stack # <<>> /\ StackIn(stack) /\ top = stack[n] /\ stack \in Seq(Frames)
    BY <1>1, Working DEF StackIn
  <2>2. n \in Nat /\ n \in DOMAIN stack
    <3>1. n \in Nat /\ n # 0 /\ DOMAIN stack = 1 .. n
      BY <2>1
    <3> HIDE DEF n
    <3> QED BY <3>1
  <2> QED BY <1>5, <1>8, <2>1, <2>2, InnerFacts DEF PointsNow, Handling
<1>18. \E x1 : /\ Placed(stack, x1) /\ x1[n] = y /\ AllDone(x1, n) = AllDone(pts, n)
  <2>1. x = pts[n] /\ y.done = pts[n].done
    BY <1>5, <1>12 DEF PointsNow
  <2>2. FrameAt(stack[n], y)
    BY <1>16, <1>17
  <2> QED BY <1>17, <2>1, <2>2, PlacedAgain
<1>19. PICK x1 : /\ Placed(stack, x1) /\ x1[n] = y /\ AllDone(x1, n) = done
  BY <1>17, <1>18
<1>20. \E x2 : /\ Placed(stack', x2) /\ Len(stack') = n + 1 /\ stack' # <<>> /\ stack'[n + 1] = f
               /\ x2[n + 1] = v /\ (\A i \in 1 .. n : stack'[i] = stack[i] /\ x2[i] = x1[i])
               /\ AllDone(x2, n + 1) = (AllDone(x1, n) /\ v.done)
  <2>1. stack' = Append(stack, f)
    BY <1>3 DEF f
  <2>2. Handling(f) => f.place \in DOMAIN Handlers /\ Handlers[f.place] = f.task
    BY <1>4, <1>15
  <2>3. Handling(f)
    BY <1>4, <1>15 DEF Handling
  <2> QED BY <1>15, <1>16, <1>17, <1>19, <2>1, <2>2, <2>3, PlacedPush
<1>21. PICK x2 : /\ Placed(stack', x2) /\ Len(stack') = n + 1 /\ stack' # <<>> /\ stack'[n + 1] = f
                 /\ x2[n + 1] = v /\ (\A i \in 1 .. n : stack'[i] = stack[i] /\ x2[i] = x1[i])
                 /\ AllDone(x2, n + 1) = (AllDone(x1, n) /\ v.done)
  BY <1>20
<1>22. x2[n] = y /\ n + 1 - 1 = n
  <2>1. n \in 1 .. n
    <3>1. n \in Nat /\ n # 0
      BY <1>17
    <3> HIDE DEF n
    <3> QED BY <3>1
  <2> QED BY <1>17, <1>19, <1>21, <2>1
<1>23. AllDone(x2, Len(stack')) = done'
  <2>1. AllDone(x1, n) \in BOOLEAN
    BY DEF AllDone
  <2>2. AllDone(x2, n + 1) = AllDone(x1, n)
    BY <1>14, <1>21, <2>1
  <2> QED BY <1>1, <1>19, <1>21, <2>2
<1>24. Carries(uart', owed', pending', sent', y, <<v>>)
  <2>1. OnLine(uart', owed', pending', c, y.blocks, y.at, <<v>>)
    BY <1>1, <1>2, <1>0, <1>12, <1>14
  <2> QED BY <1>1, <1>9, <1>12, <2>1 DEF Carries
<1>25. Reading(stack', x2, uart', owed', pending', sent', y)
  <2>1. Handling(stack'[Len(stack')]) /\ y = x2[Len(stack') - 1] /\ x2[Len(stack')] = v
    BY <1>4, <1>15, <1>21, <1>22 DEF Handling
  <2> QED BY <1>24, <2>1 DEF Reading
<1>26. prompted' = y.prompted
  BY <1>1, <1>5, <1>8, <1>12, InFrontNow
<1>27. Outlining(stack', x2, uart', owed', pending', sent', prompted', done')
  BY <1>21, <1>23, <1>25, <1>26 DEF Outlining
<1>28. lost' = 0 /\ (prompted' => sent' # 0)
  BY <1>1 DEF OInv
<1> QED BY <1>2, <1>21, <1>27, <1>28 DEF OInv

-----------------------------------------------------------------------------
(* Calls and returns *)

\* A function that has read its answer leaves the line to the next.
LEMMA LineRests ==
  ASSUME NEW u, NEW ow, NEW pe, NEW s, NEW p, NEW y,
         Carries(u, ow, pe, s, p, <<>>), Spent(p), y.blocks = <<>>, y.at = 0
  PROVE  ow = <<>> /\ Carries(u, ow, pe, s, y, <<>>)
<1>1. PICK c : OnLine(u, ow, pe, c, p.blocks, p.at, <<>>) /\ (p.blocks # <<>> => c = s)
  BY DEF Carries
<1>2. ow = <<>> /\ AnswerToCome(u, pe, 0, <<>>)
  <2>1. OnLine(u, ow, pe, c, p.blocks, p.at, <<>>) /\ Spent(p)
    BY <1>1
  <2>2. <<>> \in AnswerBlocks /\ 0 \in Nat /\ (<<>> # <<>> => 0 # 0)
    BY EmptyAnswer
  <2> QED BY ONLY <2>1, <2>2, LineReset
<1>3. OnLine(u, <<>>, pe, 0, <<>>, 0, <<>>)
  BY <1>2, EmptyAnswer DEF AnswerToCome
<1>4. OnLine(u, ow, pe, 0, y.blocks, y.at, <<>>)
  BY <1>2, <1>3
<1> QED BY <1>2, <1>4 DEF Carries

\* The innermost function starts, at point v, on what is left of the answers
\* read before.
LEMMA StartsOn ==
  ASSUME NEW t \in DOMAIN Script, t \in Outlined, t \notin HandlerTasks, NEW pr \in BOOLEAN
  PROVE  LET f == Frame(t, 0)
             v == Start(pr)
         IN  /\ FrameAt(f, v) /\ ~Handling(f) /\ f \in Frames /\ f.task = t
             /\ v.blocks = <<>> /\ v.at = 0 /\ v.done = TRUE /\ v.prompted = pr
<1> DEFINE f == Frame(t, 0)
           v == Start(pr)
<1>1. v \in Points(t, "go")
  BY OutlineAssumption DEF Starts
<1>2. /\ v.blocks = <<>> /\ v.at = 0 /\ v.nums = <<>> /\ v.got = <<>> /\ v.ret = "SUCCEEDED"
      /\ v.done = TRUE /\ v.prompted = pr
  BY DEF Start
<1>3. /\ f.task = t /\ f.pc = "go" /\ f.nums = <<>> /\ f.got = <<>> /\ f.ret = "SUCCEEDED"
      /\ f \in Frames
  BY NewFrame DEF Frame
<1> HIDE DEF f, v
<1>4. FrameAt(f, v) /\ ~Handling(f)
  BY <1>1, <1>2, <1>3 DEF FrameAt, Handling
<1> QED BY <1>2, <1>3, <1>4 DEF f, v

LEMMA CallFunctionOn == ASSUME Careful, IInv, OInv, CallFunction PROVE OInv'
<1>1. /\ Runs({"call"}) /\ stack' = Append(stack, Frame(instr.arg[1], 0))
      /\ UNCHANGED <<uart, ring, owed, pending, sent, prompted, done, lost>>
  BY DEF CallFunction, wire, modem, command, ghost
<1>2. /\ instr = Script[top.task][top.pc] /\ instr.op = "call" /\ top \in Frames
      /\ top.task \in DOMAIN Script /\ top.pc \in DOMAIN Script[top.task]
      /\ stack # <<>> /\ StackIn(stack) /\ top = stack[Len(stack)]
  BY <1>1, Working
<1>3. PICK pts, x : /\ PointsNow(pts, x) /\ FrameAt(top, x) /\ Leads(top.task, top.pc, x)
                    /\ x \in Point
  BY <1>1, Working
<1>4. /\ top.task \notin HandlerTasks /\ Spent(x) /\ instr.arg[1] \in Outlined
  BY <1>2, <1>3 DEF Leads, CallLeads
<1>5. prompted = x.prompted /\ Carries(uart, owed, pending, sent, x, <<>>)
  BY <1>1, <1>3, <1>4, InFrontNow
<1> DEFINE t == instr.arg[1]
           f == Frame(t, 0)
           v == Start(prompted)
           n == Len(stack)
<1>6. t \in DOMAIN Script \ HandlerTasks /\ prompted \in BOOLEAN
  BY <1>2, Instructions, Typed
<1>7. /\ FrameAt(f, v) /\ ~Handling(f) /\ f \in Frames /\ f.task = t
      /\ v.blocks = <<>> /\ v.at = 0 /\ v.done = TRUE /\ v.prompted = prompted
  BY <1>4, <1>6, StartsOn
<1>8. stack' = Append(stack, f)
  BY <1>1
<1> HIDE DEF f, v
<1>9. Placed(stack, pts) /\ done = AllDone(pts, n) /\ ~Handling(stack[n])
  BY <1>2, <1>3, <1>4, InnerFacts DEF PointsNow, Handling
<1>10. Script[stack[n].task][stack[n].pc].arg[1] = f.task
  BY <1>2, <1>7
<1>11. PICK z : /\ Placed(stack', z) /\ Len(stack') = n + 1 /\ stack' # <<>> /\ stack'[n + 1] = f
                /\ z[n + 1] = v /\ AllDone(z, n + 1) = (AllDone(pts, n) /\ v.done)
  <2>1. Handling(f) => f.place \in DOMAIN Handlers /\ Handlers[f.place] = f.task
    BY <1>7
  <2>2. /\ Placed(stack, pts) /\ StackIn(stack) /\ stack # <<>> /\ ~Handling(stack[Len(stack)])
        /\ f \in Frames /\ FrameAt(f, v)
        /\ ~Handling(f) => Script[stack[Len(stack)].task][stack[Len(stack)].pc].arg[1] = f.task
    BY <1>2, <1>7, <1>9, <1>10
  <2>3. \E z : /\ Placed(Append(stack, f), z) /\ Len(Append(stack, f)) = Len(stack) + 1
               /\ Append(stack, f) # <<>> /\ Append(stack, f)[Len(stack) + 1] = f
               /\ z[Len(stack) + 1] = v
               /\ \A i \in 1 .. Len(stack) : Append(stack, f)[i] = stack[i] /\ z[i] = pts[i]
               /\ AllDone(z, Len(stack) + 1) = (AllDone(pts, Len(stack)) /\ v.done)
    BY ONLY <2>1, <2>2, PlacedPush
  <2> QED BY <1>8, <2>3
<1>12. Carries(uart', owed', pending', sent', v, <<>>)
  BY <1>1, <1>4, <1>5, <1>7, LineRests
<1>13. Reading(stack', z, uart', owed', pending', sent', v)
  BY <1>7, <1>11, <1>12 DEF Reading
<1>14. done' = AllDone(z, Len(stack'))
  <2>1. AllDone(pts, n) \in BOOLEAN
    BY DEF AllDone
  <2> QED BY <1>1, <1>7, <1>9, <1>11, <2>1
<1>15. Outlining(stack', z, uart', owed', pending', sent', prompted', done')
  BY <1>1, <1>7, <1>11, <1>13, <1>14 DEF Outlining
<1> QED BY <1>1, <1>11, <1>15 DEF OInv

\* What every return starts from.
LEMMA Returning ==
  ASSUME IInv, OInv, Returns
  PROVE  /\ stack # <<>> /\ StackIn(stack) /\ top = stack[Len(stack)] /\ top \in Frames
         /\ Len(stack) \in Nat \ {0}
         /\ \E pts, x : /\ PointsNow(pts, x) /\ FrameAt(top, x) /\ x \in Point
                        /\ x \in Points(top.task, top.pc) /\ top.pc \in Exits
                        /\ Finishes(top.task, top.pc, x) /\ Returned = CodeAt(top.pc, x)
                        /\ Belongs(top.task, x)
<1>1. stack # <<>> /\ StackIn(stack) /\ top.pc \notin DOMAIN Script[top.task]
      /\ top = stack[Len(stack)]
  BY DEF Returns, IInv, top
<1>2. PICK pts : Outlining(stack, pts, uart, owed, pending, sent, prompted, done)
  BY <1>1 DEF OInv
<1> DEFINE x == pts[Len(stack)]
<1>3. /\ FrameAt(top, x) /\ top.pc \in Label(top.task) /\ top \in Frames
      /\ Len(stack) \in Nat \ {0}
  BY <1>1, <1>2, InnerFacts
<1>4. PointsNow(pts, x)
  BY <1>2 DEF PointsNow
<1> HIDE DEF x
<1>5. x \in Point /\ top.pc \in Exits /\ Finishes(top.task, top.pc, x) /\ Belongs(top.task, x)
  BY <1>1, <1>3, OutlineFacts
<1>6. x \in Points(top.task, top.pc) /\ x.ret = top.ret
  BY <1>3 DEF FrameAt
<1>7. Returned = CodeAt(top.pc, x)
  BY <1>6 DEF Returned, CodeAt
<1> QED BY <1>1, <1>3, <1>4, <1>5, <1>6, <1>7

\* The function below goes on behind its call.
LEMMA ToCallerOn == ASSUME IInv, OInv, ReturnToCaller PROVE OInv'
<1> DEFINE n == Len(stack)
           f == stack[n - 1]
           call == Script[f.task][f.pc]
           r == IF Returned \in {"SUCCEEDED", "TRUE"} THEN "OK" ELSE "ERROR"
           g == [f EXCEPT !.ret = Returned, !.pc = call.goto[r]]
<1>1. /\ Returns /\ n > 1 /\ top.task \notin HandlerTasks
      /\ stack' = Append(SubSeq(stack, 1, n - 2), g)
      /\ UNCHANGED <<uart, ring, owed, pending, sent, prompted, done, lost>>
  BY DEF ReturnToCaller, InHandler, wire, modem, command, ghost
<1>2. /\ stack # <<>> /\ StackIn(stack) /\ top = stack[n] /\ top \in Frames /\ n \in Nat \ {0}
      /\ stack \in Seq(Frames)
  BY <1>1, Returning DEF StackIn
<1>3. PICK pts, x : /\ PointsNow(pts, x) /\ FrameAt(top, x) /\ x \in Point
                    /\ x \in Points(top.task, top.pc) /\ top.pc \in Exits
                    /\ Finishes(top.task, top.pc, x) /\ Returned = CodeAt(top.pc, x)
  BY <1>1, Returning
<1>4. /\ Placed(stack, pts) /\ x = pts[n] /\ done = AllDone(pts, n)
      /\ prompted = x.prompted /\ Carries(uart, owed, pending, sent, x, <<>>)
  BY <1>1, <1>2, <1>3, InnerFacts DEF PointsNow, Handling
<1>5. Spent(x)
  BY <1>1, <1>3 DEF Finishes
<1>6. n \in 2 .. n /\ n \in DOMAIN stack \ {1} /\ n - 1 \in DOMAIN stack /\ n - 1 \in 1 .. n - 1
  <2>1. n \in Nat /\ n > 1 /\ DOMAIN stack = 1 .. n
    BY <1>1, <1>2
  <2> HIDE DEF n
  <2> QED BY <2>1
<1>7. /\ IsAt(f, {"call"}) /\ f \in Frames /\ f.pc \in Label(f.task)
  BY <1>1, <1>2, <1>6 DEF StackIn
<1>8. /\ f.pc \in DOMAIN Script[f.task] /\ call.op = "call" /\ call.arg[1] = top.task
  BY <1>1, <1>2, <1>4, <1>6, <1>7 DEF Placed, Handling, IsAt
<1> DEFINE p == pts[n - 1]
<1>9. FrameAt(f, p)
  <2>1. n - 1 \in 1 .. n
    <3>1. n \in Nat /\ n > 1
      BY <1>1, <1>2
    <3> HIDE DEF n
    <3> QED BY <3>1
  <2> QED BY <1>4, <2>1 DEF Placed
<1>10. CallLeads(f.task, p, call) /\ p \in Point
  <2>1. Leads(f.task, f.pc, p) /\ p \in Point
    BY <1>7, <1>8, <1>9, OutlineFacts
  <2> QED BY <1>8, <2>1 DEF Leads
<1> HIDE DEF f, p, g, n
<1> DEFINE y == Back(p, x, Returned)
<1>11. y \in Points(f.task, call.goto[r]) /\ r \in {"OK", "ERROR"}
  BY <1>3, <1>8, <1>10 DEF CallLeads
<1>12. /\ y.blocks = <<>> /\ y.at = 0 /\ y.nums = p.nums /\ y.got = p.got /\ y.ret = Returned
       /\ y.done = (p.done /\ x.done) /\ y.prompted = x.prompted
  BY <1>10 DEF Back, Point
<1> HIDE DEF y, r
<1>13. /\ g.task = f.task /\ g.place = f.place /\ g.pc = call.goto[r] /\ g.nums = f.nums
       /\ g.got = f.got /\ g.ret = Returned
  BY <1>7 DEF g, Frames
<1>14. FrameAt(g, y)
  BY <1>9, <1>11, <1>12, <1>13 DEF FrameAt
<1> DEFINE s == SubSeq(stack, 1, n - 1)
<1>15. PICK z : /\ Placed(s, z) /\ Len(s) = n - 1 /\ s # <<>> /\ StackIn(s)
                /\ \A i \in 1 .. n - 1 : s[i] = stack[i] /\ z[i] = pts[i]
                /\ ~Handling(s[n - 1])
                /\ AllDone(pts, n) = (AllDone(z, n - 1) /\ pts[n].done)
  BY <1>1, <1>2, <1>4, PlacedPop DEF n
<1> DEFINE k == n - 1
<1> HIDE DEF s
<1>16. Placed(s, z) /\ StackIn(s) /\ s # <<>> /\ Len(s) = k /\ s[k] = f /\ z[k] = p
       /\ ~Handling(f) /\ AllDone(pts, n) = (AllDone(z, k) /\ x.done)
  BY <1>4, <1>6, <1>15 DEF f, p
<1>17. stack' = [s EXCEPT ![k] = g]
  <2>1. Returned \in Code
    <3>1. top.ret \in Code /\ top.pc \in Exits
      BY <1>2, <1>3 DEF Frames
    <3> QED BY <3>1 DEF Returned, Exits
  <2>2. g.pc \in UNION {Label(t) : t \in DOMAIN Script}
    <3>1. f.task \in DOMAIN Script /\ r \in Response
      BY <1>7, <1>11 DEF Frames, Response
    <3>2. call.goto[r] \in Label(f.task)
      BY <1>8, <3>1, Instructions
    <3> QED BY <1>13, <3>1, <3>2
  <2>3. g \in Frames
    BY <1>7, <2>1, <2>2, <1>13 DEF Frames, g
  <2>4. Append(SubSeq(stack, 1, n - 2), g) = [SubSeq(stack, 1, n - 1) EXCEPT ![n - 1] = g]
    <3>1. Len(stack) > 1
      BY <1>1 DEF n
    <3> QED BY <1>2, <2>3, <3>1, ReplaceLast DEF n
  <2> QED BY <1>1, <2>4 DEF s, g
<1> HIDE DEF k
<1> DEFINE t == [s EXCEPT ![k] = g]
<1>18. \E w : /\ Placed(t, w) /\ Len(t) = k /\ t # <<>> /\ t[k] = g /\ w[k] = y
              /\ DoneToo(AllDone(z, k), AllDone(w, k), x.done)
  <2>1. g.task = s[Len(s)].task /\ g.place = s[Len(s)].place
    BY <1>13, <1>16
  <2>2. DoneToo(z[Len(s)].done, y.done, x.done) /\ x.done \in BOOLEAN
    BY <1>3, <1>12, <1>16 DEF Point, DoneToo
  <2>3. \E v : /\ Placed([s EXCEPT ![Len(s)] = g], v) /\ Len([s EXCEPT ![Len(s)] = g]) = Len(s)
               /\ [s EXCEPT ![Len(s)] = g] # <<>> /\ [s EXCEPT ![Len(s)] = g][Len(s)] = g
               /\ v[Len(s)] = y
               /\ DoneToo(AllDone(z, Len(s)), AllDone(v, Len(s)), x.done)
    <3>1. Placed(s, z) /\ StackIn(s) /\ s # <<>>
      BY <1>16
    <3> QED BY ONLY <1>14, <2>1, <2>2, <3>1, PlacedNext
  <2> QED BY <1>16, <2>3
<1>19. PICK w : /\ Placed(t, w) /\ Len(t) = k /\ t # <<>> /\ t[k] = g /\ w[k] = y
                /\ DoneToo(AllDone(z, k), AllDone(w, k), x.done)
  BY <1>18
<1> HIDE DEF t
<1>20. done' = AllDone(w, k)
  BY <1>1, <1>4, <1>16, <1>19 DEF DoneToo
<1>21. stack' = t
  BY <1>17 DEF t
<1>22. Carries(uart', owed', pending', sent', y, <<>>)
  BY <1>1, <1>4, <1>5, <1>12, LineRests
<1>23. ~Handling(g)
  BY <1>13, <1>16 DEF Handling
<1>24. Reading(t, w, uart', owed', pending', sent', y)
  BY <1>19, <1>22, <1>23 DEF Reading
<1>25. prompted' = y.prompted
  BY <1>1, <1>4, <1>12
<1>26. Outlining(t, w, uart', owed', pending', sent', prompted', done')
  BY <1>19, <1>20, <1>24, <1>25 DEF Outlining
<1>27. Outlining(stack', w, uart', owed', pending', sent', prompted', done') /\ stack' # <<>>
  BY <1>19, <1>21, <1>26
<1> QED BY <1>1, <1>27 DEF OInv

\* A handler has read its event, and nothing else comes for it.
LEMMA FromHandlerOn ==
  ASSUME Careful, IInv, OInv, ReturnFromHandler
  PROVE  OInv' /\ Intact[delivered'.task] = [nums |-> delivered'.nums, got |-> delivered'.got]
<1> DEFINE n == Len(stack)
           more == NextFor(MatchString[top.task], top.place)
<1>1. /\ Returns /\ n > 1 /\ top.task \in HandlerTasks /\ ring' = <<>>
      /\ delivered' = [task |-> top.task, nums |-> top.nums, got |-> top.got]
      /\ UNCHANGED <<uart, owed, pending, sent, prompted, done, lost>>
      /\ more = {} => stack' = SubSeq(stack, 1, n - 1)
  BY DEF ReturnFromHandler, InHandler, modem, command, Careful
<1>2. /\ stack # <<>> /\ StackIn(stack) /\ top = stack[n] /\ top \in Frames /\ n \in Nat \ {0}
  BY <1>1, Returning
<1>3. PICK pts, x : /\ PointsNow(pts, x) /\ FrameAt(top, x) /\ x \in Point
                    /\ Finishes(top.task, top.pc, x) /\ Belongs(top.task, x)
  BY <1>1, Returning
<1>4. /\ x.at = Whole(x) /\ Intact[top.task] = [nums |-> x.nums, got |-> x.got] /\ x.done
  BY <1>1, <1>3 DEF Finishes, Belongs
<1>5. Intact[delivered'.task] = [nums |-> delivered'.nums, got |-> delivered'.got]
  BY <1>1, <1>3, <1>4 DEF FrameAt
<1>6. /\ Placed(stack, pts) /\ x = pts[n] /\ done = AllDone(pts, n)
      /\ prompted = pts[n - 1].prompted /\ Carries(uart, owed, pending, sent, pts[n - 1], <<x>>)
  BY <1>1, <1>2, <1>3, InnerFacts DEF PointsNow, Handling
<1>7. more = {}
  <2>1. n \in 1 .. n
    <3>1. n \in Nat /\ n > 1
      BY <1>1, <1>2
    <3> HIDE DEF n
    <3> QED BY <3>1
  <2>2. top.place \in DOMAIN Handlers /\ Handlers[top.place] = top.task
    BY <1>1, <1>2, <1>6, <2>1 DEF Placed, Handling
  <2> SUFFICES ASSUME NEW k \in more PROVE FALSE
    OBVIOUS
  <2>3. k \in DOMAIN Handlers /\ k > top.place /\ MatchString[Handlers[k]] = MatchString[top.task]
    BY DEF NextFor
  <2>4. k = top.place
    BY <2>2, <2>3, HeadsAssumption
  <2>5. top.place \in Nat
    BY <1>2 DEF Frames
  <2> QED BY <2>3, <2>4, <2>5
<1> DEFINE p == pts[n - 1]
           s == SubSeq(stack, 1, n - 1)
           k == n - 1
<1>8. Carries(uart, owed, pending, sent, p, <<>>)
  <2>1. Carries(uart, owed, pending, sent, p, <<x>>)
    BY <1>6
  <2> HIDE DEF p
  <2>2. PICK c : /\ OnLine(uart, owed, pending, c, p.blocks, p.at, <<x>>)
                 /\ p.blocks # <<>> => c = sent
    BY <2>1 DEF Carries
  <2>3. x.at = Len(Text(x.blocks))
    BY <1>4 DEF Whole
  <2>4. OnLine(uart, owed, pending, c, p.blocks, p.at, <<>>)
    BY <2>2, <2>3, LineHandlerReturns
  <2> QED BY <2>2, <2>4 DEF Carries
<1>9. PICK z : /\ Placed(s, z) /\ Len(s) = n - 1 /\ s # <<>>
               /\ \A i \in 1 .. n - 1 : s[i] = stack[i] /\ z[i] = pts[i]
               /\ ~Handling(s[n - 1])
               /\ AllDone(pts, n) = (AllDone(z, n - 1) /\ pts[n].done)
  BY <1>1, <1>2, <1>6, PlacedPop
<1>10. n - 1 \in 1 .. n - 1
  <2>1. n \in Nat /\ n > 1
    BY <1>1, <1>2
  <2> HIDE DEF n
  <2> QED BY <2>1
<1>11. /\ Placed(s, z) /\ Len(s) = k /\ s # <<>> /\ z[k] = p /\ ~Handling(s[k])
       /\ AllDone(pts, n) = (AllDone(z, k) /\ x.done) /\ prompted = p.prompted
       /\ stack' = s
  BY <1>1, <1>6, <1>7, <1>9, <1>10
<1> HIDE DEF s, p, k
<1>12. done' = AllDone(z, k)
  <2>1. AllDone(z, k) \in BOOLEAN
    BY DEF AllDone
  <2> QED BY <1>1, <1>4, <1>6, <1>11, <2>1
<1>13. Reading(s, z, uart', owed', pending', sent', p)
  BY <1>1, <1>8, <1>11 DEF Reading
<1>14. Outlining(s, z, uart', owed', pending', sent', prompted', done')
  BY <1>1, <1>11, <1>12, <1>13 DEF Outlining
<1>15. Outlining(stack', z, uart', owed', pending', sent', prompted', done') /\ stack' # <<>>
  BY <1>11, <1>14
<1> QED BY <1>1, <1>5, <1>15 DEF OInv

\* A call of the application is over.
LEMMA ToApplicationOn ==
  ASSUME Careful, IInv, OInv, ReturnToApplication
  PROVE  OInv' /\ SuccessIsReal' /\ DoneIsReported'
<1>1. /\ Returns /\ Len(stack) = 1 /\ stack' = <<>>
      /\ result' = [task |-> top.task, code |-> Returned, done |-> done]
      /\ UNCHANGED <<uart, ring, owed, pending, sent, prompted, done, lost>>
  BY DEF ReturnToApplication, wire, modem, command
<1>2. stack # <<>> /\ StackIn(stack) /\ top = stack[1]
  BY <1>1, Returning
<1>3. PICK pts, x : /\ PointsNow(pts, x) /\ FrameAt(top, x) /\ x \in Point
                    /\ Finishes(top.task, top.pc, x) /\ Returned = CodeAt(top.pc, x)
  BY <1>1, Returning
<1>4. top.task \notin HandlerTasks
  BY <1>2 DEF StackIn
<1>5. /\ x = pts[1] /\ done = AllDone(pts, 1) /\ Carries(uart, owed, pending, sent, x, <<>>)
  BY <1>1, <1>2, <1>3, <1>4, InnerFacts DEF PointsNow, Handling
<1>6. done = x.done
  <2>1. x.done \in BOOLEAN /\ done \in BOOLEAN
    BY <1>3, Typed DEF Point
  <2>2. AllDone(pts, 1) <=> x.done
    BY <1>5 DEF AllDone
  <2> QED BY <1>5, <2>1, <2>2
<1>7. Rested.blocks = <<>> /\ Rested.at = 0
  BY DEF Rested, Start
<1>8. Spent(x)
  BY <1>3, <1>4 DEF Finishes
<1>9. Carries(uart', owed', pending', sent', Rested, <<>>)
  <2>1. Carries(uart, owed, pending, sent, Rested, <<>>)
    BY <1>5, <1>7, <1>8, LineRests
  <2> QED BY <1>1, <2>1
<1>10. OInv'
  BY <1>1, <1>9 DEF OInv
<1>11. SuccessIsReal' /\ DoneIsReported'
  <2>1. result'.code = CodeAt(top.pc, x) /\ result'.done = x.done
    BY <1>1, <1>3, <1>6
  <2> QED BY <1>3, <1>4, <2>1 DEF Finishes, SuccessIsReal, DoneIsReported
<1> QED BY <1>10, <1>11

\* The application calls a function.
LEMMA CallOn == ASSUME Careful, IInv, OInv, NEW task \in Tasks, Call(task) PROVE OInv'
<1> DEFINE f == Frame(task, 0)
           v == Start(prompted)
           z == [i \in 1 .. 1 |-> v]
<1>1. /\ stack = <<>> /\ stack' = <<f>> /\ done' = TRUE
      /\ UNCHANGED <<uart, ring, owed, pending, sent, prompted, lost>>
  BY DEF Call, wire, modem, command
<1>2. /\ task \in DOMAIN Script /\ task \in Outlined /\ task \notin HandlerTasks
      /\ prompted \in BOOLEAN
  BY ScriptAssumption, Typed DEF Careful
<1>3. /\ FrameAt(f, v) /\ ~Handling(f) /\ f \in Frames /\ f.task = task
      /\ v.blocks = <<>> /\ v.at = 0 /\ v.done = TRUE /\ v.prompted = prompted
  BY <1>2, StartsOn
<1>4. z[1] = v /\ DOMAIN z = 1 .. 1
  OBVIOUS
<1> HIDE DEF f, v, z
<1>5. Len(stack') = 1 /\ stack'[1] = f /\ stack' # <<>> /\ 1 .. 1 = {1} /\ 2 .. 1 = {}
  BY <1>1
<1>6. Placed(stack', z)
  BY <1>3, <1>4, <1>5 DEF Placed
<1>7. done' = AllDone(z, 1)
  BY <1>1, <1>3, <1>4, <1>5 DEF AllDone
<1>8. Carries(uart', owed', pending', sent', v, <<>>)
  <2>1. Carries(uart, owed, pending, sent, Rested, <<>>)
    BY <1>1 DEF OInv
  <2>2. PICK c : OnLine(uart, owed, pending, c, <<>>, 0, <<>>)
    BY <2>1 DEF Carries, Rested, Start
  <2> QED BY <1>1, <1>3, <2>2 DEF Carries
<1>9. Reading(stack', z, uart', owed', pending', sent', v)
  BY <1>3, <1>4, <1>5, <1>8 DEF Reading
<1>10. Outlining(stack', z, uart', owed', pending', sent', prompted', done')
  BY <1>1, <1>3, <1>5, <1>6, <1>7, <1>9 DEF Outlining
<1> QED BY <1>1, <1>5, <1>10 DEF OInv

-----------------------------------------------------------------------------
(* The modem *)

\* The line goes on, whatever is being read from it.
LineGoesOn ==
  \A c, bs, at, own : OnLine(uart, owed, pending, c, bs, at, own)
                        => OnLine(uart', owed', pending', c, bs, at, own)

LEMMA ModemOn ==
  ASSUME OInv, LineGoesOn, UNCHANGED <<ring, stack, sent, prompted, done, lost>>
  PROVE  OInv'
<1>1. \A p, own : Carries(uart, owed, pending, sent, p, own)
                    => Carries(uart', owed', pending', sent', p, own)
  BY DEF LineGoesOn, Carries
<1>2. ASSUME stack # <<>>
      PROVE  \E pts : Outlining(stack', pts, uart', owed', pending', sent', prompted', done')
  <2>1. PICK pts : Outlining(stack, pts, uart, owed, pending, sent, prompted, done)
    BY <1>2 DEF OInv
  <2>2. PICK p : Reading(stack, pts, uart, owed, pending, sent, p) /\ prompted = p.prompted
    BY <2>1 DEF Outlining
  <2>3. Reading(stack, pts, uart', owed', pending', sent', p)
    BY <1>1, <2>2 DEF Reading
  <2>4. Placed(stack, pts) /\ done = AllDone(pts, Len(stack))
    BY <2>1 DEF Outlining
  <2>5. Outlining(stack, pts, uart', owed', pending', sent', prompted', done')
    BY <2>2, <2>3, <2>4 DEF Outlining
  <2> QED BY <2>5
<1> QED BY <1>1, <1>2 DEF OInv

LEMMA SendAnswerOn == ASSUME Careful, OInv, SendAnswer PROVE OInv'
<1>1. /\ owed # <<>> /\ pending = <<>> /\ pending' = <<>>
      /\ uart' = uart \o Head(owed) /\ owed' = Tail(owed)
      /\ UNCHANGED <<ring, stack, sent, prompted, done, lost>>
  BY DEF SendAnswer, Careful, command, ghost
<1>2. LineGoesOn
  <2> SUFFICES ASSUME NEW c, NEW bs, NEW at, NEW own,
                      OnLine(uart, owed, pending, c, bs, at, own)
               PROVE  OnLine(uart', owed', pending', c, bs, at, own)
    BY DEF LineGoesOn
  <2>1. OnLine(uart, owed, <<>>, c, bs, at, own)
    BY <1>1
  <2>2. OnLine(uart \o Head(owed), Tail(owed), <<>>, c, bs, at, own)
    BY <1>1, <2>1, LineAnswer
  <2> QED BY <1>1, <2>2
<1> QED BY <1>1, <1>2, ModemOn

LEMMA EventOn == ASSUME OInv, NEW e \in DOMAIN Events, Event(e) PROVE OInv'
<1>1. /\ pending = <<>> /\ pending' = TagAll(Events[e], 0)
      /\ UNCHANGED <<uart, ring, stack, owed, sent, prompted, done, lost>>
  BY DEF Event, wire, command, ghost
<1>2. Events[e] \in EventBlocks /\ Events[e] \in AllBlocks
  BY DEF EventBlocks, AllBlocks
<1> DEFINE bs == Events[e]
<1> HIDE DEF bs
<1>3. pending' = Unsent(bs, 0, 0)
  BY <1>1, <1>2, AllUnsent DEF bs
<1>4. LineGoesOn
  <2> SUFFICES ASSUME NEW c, NEW as, NEW at, NEW own,
                      OnLine(uart, owed, pending, c, as, at, own)
               PROVE  OnLine(uart', owed', pending', c, as, at, own)
    BY DEF LineGoesOn
  <2>1. OnLine(uart, owed, <<>>, c, as, at, own)
    BY <1>1
  <2>2. OnLine(uart, owed, Unsent(bs, 0, 0), c, as, at, own)
    BY <1>2, <2>1, LineEvent DEF bs
  <2> QED BY <1>1, <1>3, <2>2
<1> QED BY <1>1, <1>4, ModemOn

LEMMA SendEventOn == ASSUME OInv, SendEvent PROVE OInv'
<1>1. /\ pending # <<>> /\ uart' = uart \o Head(pending) /\ pending' = Tail(pending)
      /\ UNCHANGED <<ring, stack, owed, sent, prompted, done, lost>>
  BY DEF SendEvent, command, ghost
<1>2. LineGoesOn
  <2> SUFFICES ASSUME NEW c, NEW bs, NEW at, NEW own,
                      OnLine(uart, owed, pending, c, bs, at, own)
               PROVE  OnLine(uart', owed', pending', c, bs, at, own)
    BY DEF LineGoesOn
  <2>1. OnLine(uart \o Head(pending), owed, Tail(pending), c, bs, at, own)
    BY <1>1, LineSendEvent
  <2> QED BY <1>1, <2>1
<1> QED BY <1>1, <1>2, ModemOn

LEMMA InitOn == ASSUME Init PROVE OInv
<1>1. /\ uart = <<>> /\ ring = <<>> /\ stack = <<>> /\ owed = <<>> /\ pending = <<>>
      /\ sent = 0 /\ prompted = FALSE /\ lost = 0
  BY DEF Init
<1>2. Rested.blocks = <<>> /\ Rested.at = 0
  BY DEF Rested, Start
<1>3. OnLine(<<>>, <<>>, <<>>, 0, Rested.blocks, Rested.at, <<>>)
  BY <1>2, LineStart
<1>4. Carries(uart, owed, pending, sent, Rested, <<>>)
  BY <1>1, <1>2, <1>3 DEF Carries
<1> QED BY <1>1, <1>4 DEF OInv

-----------------------------------------------------------------------------
(* Every answer goes to its command, and every event to its handler *)

\* The line stays in its outline, and what has come of it is right.
CInv == /\ OInv
        /\ NoStaleAnswer /\ HandlersReadEvents
        /\ SuccessIsReal /\ DoneIsReported /\ DeliveredIntact

LEMMA InitCInv == ASSUME Init PROVE CInv
<1>1. /\ answer = [by |-> "none", of |-> 0, cmd |-> 0] /\ result = None
      /\ delivered.task = "none"
  BY DEF Init
<1>2. NoStaleAnswer /\ HandlersReadEvents
  BY <1>1 DEF NoStaleAnswer, HandlersReadEvents
<1>3. SuccessIsReal /\ DoneIsReported
  BY <1>1 DEF SuccessIsReal, DoneIsReported, None
<1>4. DeliveredIntact
  BY <1>1, NothingAssumption DEF DeliveredIntact
<1> QED BY <1>2, <1>3, <1>4, InitOn DEF CInv

\* A step that leaves what has come of the line, or adds to it.
LEMMA GhostsOn ==
  ASSUME CInv, answer' \in {answer, Answers}, UNCHANGED <<result, delivered>>
  PROVE  /\ NoStaleAnswer' /\ HandlersReadEvents'
         /\ SuccessIsReal' /\ DoneIsReported' /\ DeliveredIntact'
<1>1. CASE answer' = Answers
  <2>1. /\ answer'.by = top.task /\ answer'.cmd = sent
        /\ answer'.of = IF top.task \in HandlerTasks THEN 0 ELSE sent
    BY <1>1 DEF Answers
  <2> QED BY <2>1 DEF CInv, NoStaleAnswer, HandlersReadEvents, SuccessIsReal, DoneIsReported,
                       DeliveredIntact
<1>2. CASE answer' = answer
  BY <1>2 DEF CInv, NoStaleAnswer, HandlersReadEvents, SuccessIsReal, DoneIsReported, DeliveredIntact
<1> QED BY <1>1, <1>2

\* The steps that take nothing of an answer, end no call and no handler.
LEMMA QuietlyOn == ASSUME CInv, OInv', UNCHANGED <<answer, result, delivered>> PROVE CInv'
BY GhostsOn DEF CInv

LEMMA CalmlyOn == ASSUME Careful, IInv, CInv, Calmly PROVE CInv'
<1> USE DEF ghost
<1>1. OInv
  BY DEF CInv
<1>2. ASSUME NEW task \in Tasks, Call(task) PROVE CInv'
  <2>1. OInv' /\ UNCHANGED <<answer, result, delivered>>
    BY <1>1, <1>2, CallOn DEF Call
  <2> QED BY <2>1, QuietlyOn
<1>3. CASE Respond
  <2>1. OInv' /\ answer' \in {answer, Answers} /\ UNCHANGED <<result, delivered>>
    BY <1>1, <1>3, RespondOn DEF Respond
  <2> QED BY <2>1, GhostsOn DEF CInv
<1>4. CASE findChar
  <2>1. OInv' /\ UNCHANGED <<answer, result, delivered>>
    BY <1>1, <1>4, FindOn DEF findChar
  <2> QED BY <2>1, QuietlyOn
<1>5. CASE parseInt
  <2>1. OInv' /\ answer' \in {answer, Answers} /\ UNCHANGED <<result, delivered>>
    BY <1>1, <1>5, IntOn DEF parseInt
  <2> QED BY <2>1, GhostsOn DEF CInv
<1>6. CASE readBytes
  <2>1. OInv' /\ UNCHANGED <<answer, result, delivered>>
    BY <1>1, <1>6, BytesOn DEF readBytes
  <2> QED BY <2>1, QuietlyOn
<1>7. CASE readLine
  <2>1. OInv' /\ UNCHANGED <<answer, result, delivered>>
    BY <1>1, <1>7, LineReadOn DEF readLine
  <2> QED BY <2>1, QuietlyOn
<1>8. CASE CallFunction
  <2>1. OInv' /\ UNCHANGED <<answer, result, delivered>>
    BY <1>1, <1>8, CallFunctionOn DEF CallFunction
  <2> QED BY <2>1, QuietlyOn
<1>9. CASE ReturnToApplication
  <2>1. /\ OInv' /\ SuccessIsReal' /\ DoneIsReported' /\ UNCHANGED <<answer, delivered>>
    BY <1>1, <1>9, ToApplicationOn DEF ReturnToApplication
  <2> QED BY <2>1 DEF CInv, NoStaleAnswer, HandlersReadEvents, DeliveredIntact
<1>10. CASE ReturnToCaller
  <2>1. OInv' /\ UNCHANGED <<answer, result, delivered>>
    BY <1>1, <1>10, ToCallerOn DEF ReturnToCaller
  <2> QED BY <2>1, QuietlyOn
<1>11. CASE WaitTimesOut
  <2>1. OInv' /\ UNCHANGED <<answer, result, delivered>>
    BY <1>1, <1>11, WaitTimesOutOn DEF WaitTimesOut
  <2> QED BY <2>1, QuietlyOn
<1>12. CASE ReadTimesOut
  BY <1>1, <1>12, ReadsInTime
<1>13. CASE UNCHANGED vars
  <2>1. UNCHANGED <<uart, ring, stack, owed, pending, sent, prompted, done, lost,
                    answer, result, delivered>>
    BY <1>13 DEF vars, wire, modem, command
  <2>2. LineGoesOn
    BY <2>1 DEF LineGoesOn
  <2>3. OInv'
    BY <1>1, <2>1, <2>2, ModemOn
  <2> QED BY <2>1, <2>3, QuietlyOn
<1> QED BY <1>2, <1>3, <1>4, <1>5, <1>6, <1>7, <1>8, <1>9, <1>10, <1>11, <1>12, <1>13 DEF Calmly

LEMMA NextCInv == ASSUME Careful, IInv, CInv, [Next]_vars PROVE CInv'
<1> USE DEF ghost
<1>1. OInv
  BY DEF CInv
<1>2. CASE Calmly
  BY <1>2, CalmlyOn
<1>3. CASE SendCommand
  <2>1. OInv' /\ UNCHANGED <<answer, result, delivered>>
    BY <1>1, <1>3, SendOn DEF SendCommand
  <2> QED BY <2>1, QuietlyOn
<1>4. CASE WriteData
  <2>1. OInv' /\ UNCHANGED <<answer, result, delivered>>
    BY <1>1, <1>4, WriteOn DEF WriteData
  <2> QED BY <2>1, QuietlyOn
<1>5. CASE SendAnswer
  <2>1. OInv' /\ UNCHANGED <<answer, result, delivered>>
    BY <1>1, <1>5, SendAnswerOn DEF SendAnswer
  <2> QED BY <2>1, QuietlyOn
<1>6. ASSUME NEW e \in DOMAIN Events, Event(e) PROVE CInv'
  <2>1. OInv' /\ UNCHANGED <<answer, result, delivered>>
    BY <1>1, <1>6, EventOn DEF Event
  <2> QED BY <2>1, QuietlyOn
<1>7. CASE SendEvent
  <2>1. OInv' /\ UNCHANGED <<answer, result, delivered>>
    BY <1>1, <1>7, SendEventOn DEF SendEvent
  <2> QED BY <2>1, QuietlyOn
<1>8. CASE Dispatch
  <2>1. OInv' /\ UNCHANGED <<answer, result, delivered>>
    BY <1>1, <1>8, DispatchOn DEF Dispatch
  <2> QED BY <2>1, QuietlyOn
<1>9. CASE ReturnFromHandler
  <2>1. /\ OInv' /\ UNCHANGED <<answer, result>>
        /\ Intact[delivered'.task] = [nums |-> delivered'.nums, got |-> delivered'.got]
    BY <1>1, <1>9, FromHandlerOn DEF ReturnFromHandler
  <2> QED BY <2>1 DEF CInv, NoStaleAnswer, HandlersReadEvents, SuccessIsReal, DoneIsReported,
                       DeliveredIntact
<1>10. ASSUME NEW e \in DOMAIN Events, WaitTimesOutInEvent(e) PROVE FALSE
  <2>1. cuts \in 0 .. 0 /\ cuts < 0
    BY <1>10, Typed DEF WaitTimesOutInEvent, Careful
  <2> QED BY <2>1
<1> QED BY <1>2, <1>3, <1>4, <1>5, <1>6, <1>7, <1>8, <1>9, <1>10, Steps

LEMMA Outlines == Careful => (Spec => []CInv)
<1> SUFFICES ASSUME Careful PROVE Spec => []CInv
  OBVIOUS
<1>1. Init => CInv
  BY InitCInv
<1>2. IInv /\ CInv /\ [Next]_vars => CInv'
  BY NextCInv
<1> QED BY <1>1, <1>2, Invariance, PTL DEF Spec

-----------------------------------------------------------------------------
(* Theorems *)

\* Of an answer of no blocks there is nothing left.
LEMMA LineRested ==
  ASSUME NEW u, NEW ow, NEW pe, NEW c, OnLine(u, ow, pe, c, <<>>, 0, <<>>)
  PROVE  ow = <<>> /\ \A i \in DOMAIN u : u[i].of # 0 => u[i].s \notin Awaited
<1>1. PICK H, z, m, loc : Reads(u, H, z) /\ Answering(H, z, ow, c, <<>>, 0, m, loc)
  BY DEF OnLine
<1>2. m = 0
  BY <1>1, EmptyAnswer DEF Answering
<1>3. ow = <<>>
  BY <1>1, <1>2, EmptyAnswer DEF Answering
<1>4. 1 .. Ends(<<>>)[m] = {}
  <2>1. Ends(<<>>)[0] = 0
    BY EmptyAnswer, TextType
  <2> QED BY <1>2, <2>1
<1>5. \A i \in z + 1 .. Len(H) : H[i].of # 0 => H[i].s \notin Awaited
  BY <1>1, <1>4 DEF Answering
<1>6. ASSUME NEW i \in DOMAIN u, u[i].of # 0
      PROVE  u[i].s \notin Awaited
  <2>1. /\ u \in Seq(Letter) /\ z \in Nat /\ Len(H) = z + Len(u)
        /\ \A j \in 1 .. Len(u) : u[j] = H[z + j]
    BY <1>1 DEF Reads
  <2>2. i \in 1 .. Len(u) /\ Len(u) \in Nat
    BY <2>1
  <2>3. u[i] = H[z + i] /\ z + i \in z + 1 .. Len(H)
    BY <2>1, <2>2
  <2> QED BY <1>5, <1>6, <2>3
<1> QED BY <1>3, <1>6

LEMMA ReadOut == ASSUME OInv PROVE AnswerReadOut
<1>1. SUFFICES ASSUME stack = <<>>
               PROVE  /\ owed = <<>>
                      /\ \A i \in DOMAIN uart : uart[i].of # 0 => uart[i].s \notin Awaited
  BY DEF AnswerReadOut
<1>2. Carries(uart, owed, pending, sent, Rested, <<>>)
  BY <1>1 DEF OInv
<1>3. PICK c : OnLine(uart, owed, pending, c, Rested.blocks, Rested.at, <<>>)
  BY <1>2 DEF Carries
<1>4. Rested.blocks = <<>> /\ Rested.at = 0
  BY DEF Rested, Start
<1>5. OnLine(uart, owed, pending, c, <<>>, 0, <<>>)
  BY <1>3, <1>4
<1> QED BY <1>5, LineRested

\* What a command function goes by, in a waitResponse(), a parseInt() or a
\* readBytes(), was sent for the command line it sent last, although sendCMD()
\* does not empty the UART: for any calls in any order, with answers in pieces
\* and events anywhere between the pieces.
THEOREM NeverStale == Careful => (Spec => []NoStaleAnswer)
<1>1. CInv => NoStaleAnswer
  BY DEF CInv
<1> QED BY <1>1, Outlines, PTL

\* When a function of src/commands has returned, the modem has nothing of its
\* answer still to send and the UART holds nothing of it that waitResponse()
\* would take for the response of the next function.
THEOREM AlwaysReadOut == Careful => (Spec => []AnswerReadOut)
<1>1. CInv => AnswerReadOut
  BY ReadOut DEF CInv
<1> QED BY <1>1, Outlines, PTL

\* What an event handler goes by belongs to an event, never to the answer of
\* the function that waitResponse() took time from to call it.
THEOREM HandlersReadOnlyEvents == Careful => (Spec => []HandlersReadEvents)
<1>1. CInv => HandlersReadEvents
  BY DEF CInv
<1> QED BY <1>1, Outlines, PTL

\* A function returns A76XX_OPERATION_SUCCEEDED, or true, only when the modem
\* did all that the function asked of it.
THEOREM SuccessIsAlwaysReal == Careful => (Spec => []SuccessIsReal)
<1>1. CInv => SuccessIsReal
  BY DEF CInv
<1> QED BY <1>1, Outlines, PTL

\* When the modem did all it was asked to, the caller is told so, or is told
\* that its buffer is too small or that what it looks for is absent.
THEOREM DoneIsAlwaysReported == Careful => (Spec => []DoneIsReported)
<1>1. CInv => DoneIsReported
  BY DEF CInv
<1> QED BY <1>1, Outlines, PTL

\* No read of any function takes the head of an event out of the UART without
\* a handler being called for it.
THEOREM NeverLost == Careful => (Spec => []NoEventLost)
<1>1. CInv => NoEventLost
  BY DEF CInv, OInv, NoEventLost
<1> QED BY <1>1, Outlines, PTL

\* A handler delivers to the application the numbers and the text of its event,
\* all of them and nothing else.
THEOREM AlwaysDeliveredIntact == Careful => (Spec => []DeliveredIntact)
<1>1. CInv => DeliveredIntact
  BY DEF CInv
<1> QED BY <1>1, Outlines, PTL
=============================================================================
