--------------------------- MODULE FramingProofs ----------------------------
(***************************************************************************)
(* The control connection implements its channel, for any messages, sizes, *)
(* writers and buffers.                                                    *)
(***************************************************************************)
EXTENDS FramingProps, TLAPS, SequenceTheorems, WellFoundedInduction

Cells == {Cell(m, i) : m \in Messages, i \in Nat \ {0}}

Total(m) == HeaderSize + Size[m]

Places == DOMAIN sent

FramingType ==
    /\ out \in [Writers -> Seq(Cells)]
    /\ wire \in Seq(Cells) /\ got \in Seq(Cells)
    /\ sent \in Seq(Messages) /\ delivered \in Seq(Nat)
    /\ need \in Nat
    /\ pc \in {"peek", "header", "payload"}
    /\ closed \in BOOLEAN /\ running \in BOOLEAN /\ told \in BOOLEAN
    /\ broken \in BOOLEAN /\ lost \in Seq(Cells)
    /\ damage \subseteq {"missed", "cut", "mixed"}
    /\ broken => closed
    /\ ~broken => lost = << >>

\* What a call of sendMsg still has to send is the end of a frame; the frame is
\* begun when a part of it was sent.  No message is sent twice.
OutInv ==
    /\ \A w \in Writers : out[w] # << >> =>
          LET c == out[w][1] IN
          /\ Len(out[w]) = Total(c.msg) - c.at + 1
          /\ \A i \in 1..Len(out[w]) : out[w][i] = Cell(c.msg, c.at + i - 1)
          /\ c.at = 1 <=> c.msg \notin ToSet(sent)
    /\ \A v, w \in Writers :
          v # w /\ out[v] # << >> /\ out[w] # << >> => out[v][1].msg # out[w][1].msg
    /\ \A i, j \in Places : sent[i] = sent[j] => i = j

\* c is behind what is still to be sent of its message.
Passed(c) ==
    /\ c.msg \in ToSet(sent)
    /\ \A w \in Writers :
          out[w] # << >> /\ out[w][1].msg = c.msg => c.at < out[w][1].at

\* A byte is in one place.
OnceInv ==
    /\ \A i \in 1..Len(wire) : Passed(wire[i])
    /\ \A i, j \in 1..Len(wire) : wire[i] = wire[j] => i = j
    /\ got # << >> => /\ Passed(got[1])
                      /\ \A i \in 1..Len(wire) : wire[i] # got[1]

\* The first byte after the header, which each delivery needs.
First(m) == Cell(m, HeaderSize + 1)

\* The reader cannot begin a payload with c any more.
Gone(c) ==
    /\ Passed(c)
    /\ \A i \in 1..Len(wire) : wire[i] # c
    /\ got # << >> => got[1] # c

\* A message that was delivered cannot be delivered again.
DeliveredInv ==
    \A d \in DOMAIN delivered :
        delivered[d] \in Places /\ Gone(First(sent[delivered[d]]))

\* What the reader has still to be sent, or what it would have got: the rest of
\* the frame that was begun, or what a broken connection has lost.
Begun == {w \in Writers : MidFrame(w)}
Tails == IF Begun = {} THEN {lost} ELSE {out[w] : w \in Begun}

\* Frames follow each other in s as their messages do in order, to the end of
\* the last.
Chain(s, order) ==
    \A i \in 1..Len(s) : \E k \in DOMAIN order :
        LET m == order[k]
            end == i + Total(m) - s[i].at
        IN  /\ s[i].msg = m /\ s[i].at <= Total(m)
            /\ end <= Len(s)
            /\ \A j \in i..end : s[j] = Cell(m, s[i].at + (j - i))
            /\ IF end = Len(s) THEN k = Len(order)
               ELSE k < Len(order) /\ s[end + 1] = Cell(order[k + 1], 1)

\* The byte that the reader waits for.
Awaited ==
    CASE pc = "peek" -> 1
      [] pc = "header" -> Len(got) + 1
      [] pc = "payload" -> HeaderSize + Len(got) + 1

\* What s begins with when byte r of message p of order comes next.
Starts(s, order, p, r) ==
    IF s = << >> THEN p = Len(order) + 1 /\ r = 1
    ELSE p \in DOMAIN order /\ s[1] = Cell(order[p], r)

\* The message that comes next.
Due == Len(delivered) + 1

\* One frame at a time is begun, and none is when the socket is closed.
OneBegun ==
    /\ \A v, w \in Writers : MidFrame(v) /\ MidFrame(w) => v = w
    /\ closed => Begun = {}

InPlace == \A i \in 1..Len(delivered) : delivered[i] = i

\* The reader has all that a broken connection has not lost.
Ended == broken /\ wire = << >>

\* What was lost begins within the message that comes next, all of which is lost
\* to a reader that gave up in the middle of it.
Misses(t) ==
    IF t = << >> THEN Due = Len(sent) + 1 /\ Awaited = 1
    ELSE Due \in Places /\ t[1].msg = sent[Due]

\* Frames follow each other on the way to the reader, from the byte it awaits.
Follows ==
    \A t \in Tails :
        /\ Chain(wire \o t, sent)
        /\ IF Ended THEN Misses(t) ELSE Starts(wire \o t, sent, Due, Awaited)

\* What the reader has is the part of the frame it takes it for.
Reads ==
    /\ pc = "peek" => got = << >>
    /\ pc = "header" =>
          /\ Len(got) < HeaderSize
          /\ \A i \in 1..Len(got) : got[i] = Cell(sent[Due], i)
    /\ pc = "payload" =>
          /\ need = Size[sent[Due]] /\ Len(got) < need
          /\ \A i \in 1..Len(got) : got[i] = Cell(sent[Due], HeaderSize + i)

Sound == OneBegun /\ InPlace /\ Follows /\ Reads

SoundInv == damage = {} => Sound

\* Each message was handed over, or the broken connection has lost a part of it.
AllAccounted ==
    \A i \in Places :
        i \in ToSet(delivered) \/ \E c \in ToSet(lost) : c.msg = sent[i]

\* Who was told of the end reads no more, and nothing is sent any more.
ToldInv ==
    told => closed /\ ~running /\ wire = << >> /\ (damage = {} => AllAccounted)

StreamInv == OutInv /\ OnceInv /\ DeliveredInv /\ SoundInv /\ ToldInv

---------------------------------------------------------------------------
(* Sequences and frames *)

LEMMA CellFacts ==
    ASSUME NEW m \in Messages, NEW i \in Nat \ {0}
    PROVE  Cell(m, i) \in Cells /\ Cell(m, i).msg = m /\ Cell(m, i).at = i
BY DEF Cell, Cells

LEMMA CellsAreCells ==
    ASSUME NEW c \in Cells
    PROVE  c.msg \in Messages /\ c.at \in Nat \ {0} /\ c = Cell(c.msg, c.at)
BY DEF Cell, Cells

LEMMA FrameFacts ==
    ASSUME NEW m \in Messages
    PROVE  /\ Size[m] \in Nat \ {0} /\ HeaderSize \in Nat /\ HeaderSize >= 2
           /\ Total(m) \in Nat /\ Total(m) > HeaderSize
           /\ Frame(m) \in Seq(Cells) /\ Len(Frame(m)) = Total(m)
           /\ \A i \in 1..Total(m) : Frame(m)[i] = Cell(m, i)
<1>1. /\ Size[m] \in Nat \ {0} /\ HeaderSize \in Nat /\ HeaderSize >= 2
      /\ Total(m) \in Nat /\ Total(m) > HeaderSize
  BY FramingAssumption DEF Total
<1>2. \A i \in 1..Total(m) : Cell(m, i) \in Cells
  BY <1>1, CellFacts
<1>3. Frame(m) = [i \in 1..Total(m) |-> Cell(m, i)]
  BY DEF Frame, Total
<1> QED
  BY <1>1, <1>2, <1>3

LEMMA TakeFacts ==
    ASSUME NEW S, NEW s \in Seq(S), NEW n \in 0..Len(s)
    PROVE  /\ SubSeq(s, 1, n) \in Seq(S) /\ Len(SubSeq(s, 1, n)) = n
           /\ \A i \in 1..n : SubSeq(s, 1, n)[i] = s[i]
OBVIOUS

LEMMA DropFacts ==
    ASSUME NEW S, NEW s \in Seq(S), NEW n \in 0..Len(s)
    PROVE  /\ SubSeq(s, n + 1, Len(s)) \in Seq(S)
           /\ Len(SubSeq(s, n + 1, Len(s))) = Len(s) - n
           /\ \A i \in 1..(Len(s) - n) : SubSeq(s, n + 1, Len(s))[i] = s[n + i]
OBVIOUS

LEMMA DropConcat ==
    ASSUME NEW S, NEW s \in Seq(S), NEW t \in Seq(S), NEW n \in 0..Len(s)
    PROVE  SubSeq(s, n + 1, Len(s)) \o t = SubSeq(s \o t, n + 1, Len(s \o t))
<1> DEFINE d == SubSeq(s, n + 1, Len(s))
           u == s \o t
           e == SubSeq(u, n + 1, Len(u))
<1>1. d \in Seq(S) /\ Len(d) = Len(s) - n
      /\ \A i \in 1..(Len(s) - n) : d[i] = s[n + i]
  BY DropFacts
<1>2. u \in Seq(S) /\ Len(u) = Len(s) + Len(t)
      /\ \A i \in 1..(Len(s) + Len(t)) :
            u[i] = IF i <= Len(s) THEN s[i] ELSE t[i - Len(s)]
  BY ConcatProperties
<1>3. n \in 0..Len(u) /\ Len(s) \in Nat /\ Len(t) \in Nat
  BY <1>2
<1>4. e \in Seq(S) /\ Len(e) = Len(u) - n
      /\ \A i \in 1..(Len(u) - n) : e[i] = u[n + i]
  BY <1>2, <1>3, DropFacts
<1> HIDE DEF d, u, e
<1>5. d \o t \in Seq(S) /\ Len(d \o t) = Len(d) + Len(t)
      /\ \A i \in 1..(Len(d) + Len(t)) :
            (d \o t)[i] = IF i <= Len(d) THEN d[i] ELSE t[i - Len(d)]
  BY <1>1, ConcatProperties
<1>6. Len(d \o t) = Len(e)
  BY <1>1, <1>2, <1>3, <1>4, <1>5
<1>7. ASSUME NEW i \in 1..Len(d \o t)
      PROVE  (d \o t)[i] = e[i]
  <2>1. i \in 1..(Len(d) + Len(t)) /\ i \in 1..(Len(u) - n) /\ n + i \in 1..Len(u)
    BY <1>1, <1>2, <1>3, <1>5
  <2>2. e[i] = u[n + i]
    BY <1>4, <2>1
  <2>3. CASE i <= Len(s) - n
    BY <1>1, <1>2, <1>3, <1>5, <2>1, <2>2, <2>3
  <2>4. CASE i > Len(s) - n
    <3>1. (d \o t)[i] = t[i - (Len(s) - n)]
      BY <1>1, <1>3, <1>5, <2>1, <2>4
    <3>2. u[n + i] = t[(n + i) - Len(s)]
      BY <1>2, <1>3, <2>1, <2>4
    <3>3. i - (Len(s) - n) = (n + i) - Len(s)
      BY <1>3, <2>1
    <3> QED
      BY <2>2, <3>1, <3>2, <3>3
  <2> QED
    BY <1>3, <2>1, <2>3, <2>4
<1>8. d \o t = e
  BY <1>4, <1>5, <1>6, <1>7, SeqEqual
<1> QED
  BY <1>8 DEF d, e, u

LEMMA TakeDrop ==
    ASSUME NEW S, NEW s \in Seq(S), NEW t \in Seq(S), NEW n \in 0..Len(t)
    PROVE  (s \o SubSeq(t, 1, n)) \o SubSeq(t, n + 1, Len(t)) = s \o t
<1> DEFINE a == SubSeq(t, 1, n)
           b == SubSeq(t, n + 1, Len(t))
<1>1. a \in Seq(S) /\ Len(a) = n /\ \A i \in 1..n : a[i] = t[i]
  BY TakeFacts
<1>2. b \in Seq(S) /\ Len(b) = Len(t) - n
      /\ \A i \in 1..(Len(t) - n) : b[i] = t[n + i]
  BY DropFacts
<1> HIDE DEF a, b
<1>3. a \o b \in Seq(S) /\ Len(a \o b) = Len(a) + Len(b)
      /\ \A i \in 1..(Len(a) + Len(b)) :
            (a \o b)[i] = IF i <= Len(a) THEN a[i] ELSE b[i - Len(a)]
  BY <1>1, <1>2, ConcatProperties
<1>4. ASSUME NEW i \in 1..Len(t)
      PROVE  (a \o b)[i] = t[i]
  <2>1. CASE i <= n
    BY <1>1, <1>2, <1>3, <2>1
  <2>2. CASE i > n
    <3>1. i - n \in 1..(Len(t) - n) /\ n + (i - n) = i
      BY <2>2
    <3>2. b[i - n] = t[i]
      BY <1>2, <3>1
    <3>3. Len(a) = n /\ i \in 1..(Len(a) + Len(b)) /\ ~(i <= Len(a))
      BY <1>1, <1>2, <2>2
    <3> QED
      BY <1>3, <3>2, <3>3
  <2>3. i <= n \/ i > n
    <3>1. Len(t) \in Nat
      OBVIOUS
    <3> QED
      BY <3>1
  <2> QED
    BY <2>1, <2>2, <2>3
<1>5. a \o b = t
  <2>1. Len(a) + Len(b) = Len(t)
    BY <1>1, <1>2
  <2>2. Len(a \o b) = Len(t) /\ a \o b \in Seq(S)
    BY <1>3, <2>1
  <2> QED
    BY <1>4, <2>2, SeqEqual
<1>6. (s \o a) \o b = s \o (a \o b)
  BY <1>1, <1>2, ConcatAssociative
<1> QED
  BY <1>5, <1>6 DEF a, b

---------------------------------------------------------------------------
(* Chains *)

LEMMA ChainDrop ==
    ASSUME NEW s \in Seq(Cells), NEW order \in Seq(Messages), Chain(s, order),
           NEW n \in 0..Len(s)
    PROVE  Chain(SubSeq(s, n + 1, Len(s)), order)
<1> DEFINE d == SubSeq(s, n + 1, Len(s))
<1>1. d \in Seq(Cells) /\ Len(d) = Len(s) - n /\ Len(s) \in Nat
      /\ \A i \in 1..(Len(s) - n) : d[i] = s[n + i]
  BY DropFacts
<1> HIDE DEF d
<1>2. ASSUME NEW i \in 1..Len(d)
      PROVE  \E k \in DOMAIN order :
                LET m == order[k]
                    end == i + Total(m) - d[i].at
                IN  /\ d[i].msg = m /\ d[i].at <= Total(m)
                    /\ end <= Len(d)
                    /\ \A j \in i..end : d[j] = Cell(m, d[i].at + (j - i))
                    /\ IF end = Len(d) THEN k = Len(order)
                       ELSE k < Len(order) /\ d[end + 1] = Cell(order[k + 1], 1)
  <2>1. n + i \in 1..Len(s) /\ d[i] = s[n + i]
    BY <1>1
  <2>2. PICK k \in DOMAIN order :
           LET m == order[k]
               end == (n + i) + Total(m) - s[n + i].at
           IN  /\ s[n + i].msg = m /\ s[n + i].at <= Total(m)
               /\ end <= Len(s)
               /\ \A j \in (n + i)..end : s[j] = Cell(m, s[n + i].at + (j - (n + i)))
               /\ IF end = Len(s) THEN k = Len(order)
                  ELSE k < Len(order) /\ s[end + 1] = Cell(order[k + 1], 1)
    BY <2>1 DEF Chain
  <2> DEFINE at == s[n + i].at
             size == Total(order[k])
  <2>0. /\ s[n + i].msg = order[k]
        /\ (n + i) + size - at = Len(s) => k = Len(order)
        /\ (n + i) + size - at # Len(s) =>
              k < Len(order) /\ s[(n + i) + size - at + 1] = Cell(order[k + 1], 1)
    BY <2>2
  <2>3. order[k] \in Messages /\ at \in Nat \ {0} /\ size \in Nat
    BY <2>1, CellsAreCells, FrameFacts
  <2> HIDE DEF at, size
  <2>9. /\ n \in Nat /\ i \in Nat \ {0} /\ Len(s) \in Nat /\ Len(d) = Len(s) - n
        /\ at <= size /\ (n + i) + size - at <= Len(s)
    <3>1. at <= size /\ (n + i) + size - at <= Len(s)
      BY <2>2 DEF at, size
    <3>2. n \in Nat /\ i \in Nat \ {0} /\ Len(s) \in Nat /\ Len(d) = Len(s) - n
      BY <1>1
    <3> QED
      BY <3>1, <3>2
  <2>10.
        /\ i + size - at = Len(d) <=> (n + i) + size - at = Len(s)
        /\ i + size - at <= Len(d)
        /\ i + size - at # Len(d) => i + size - at + 1 \in 1..(Len(s) - n)
    BY <2>3, <2>9
  <2>4. at <= size /\ n + i + size - at <= Len(s)
        /\ \A j \in (n + i)..(n + i + size - at) :
              s[j] = Cell(order[k], at + (j - (n + i)))
    BY <2>2, <2>3 DEF at, size
  <2>5. \A j \in i..(i + size - at) : d[j] = Cell(order[k], at + (j - i))
    <3> SUFFICES ASSUME NEW j \in i..(i + size - at)
                 PROVE  d[j] = Cell(order[k], at + (j - i))
      OBVIOUS
    <3>1. d[j] = s[n + j] /\ n + j \in (n + i)..(n + i + size - at)
      BY <1>1, <2>3, <2>4
    <3>2. (n + j) - (n + i) = j - i
      BY <2>3
    <3> QED
      BY <2>4, <3>1, <3>2
  <2>6. i + size - at = Len(d) => k = Len(order)
    BY <2>0, <2>10
  <2>7. i + size - at # Len(d) =>
           k < Len(order) /\ d[i + size - at + 1] = Cell(order[k + 1], 1)
    <3> SUFFICES ASSUME i + size - at # Len(d)
                 PROVE  k < Len(order) /\ d[i + size - at + 1] = Cell(order[k + 1], 1)
      OBVIOUS
    <3>1. (n + i) + size - at # Len(s)
      BY <2>10
    <3>2. i + size - at + 1 \in 1..(Len(s) - n)
      BY <2>10
    <3>3. n + (i + size - at + 1) = (n + i) + size - at + 1
      BY <2>3
    <3> QED
      BY <1>1, <2>0, <3>1, <3>2, <3>3
  <2>8. i + size - at <= Len(d) /\ d[i].msg = order[k] /\ d[i].at = at
    BY <2>0, <2>1, <2>10 DEF at
  <2> QED
    BY <2>4, <2>5, <2>6, <2>7, <2>8 DEF size
<1> QED
  BY <1>2 DEF Chain, d

LEMMA ChainAppend ==
    ASSUME NEW s \in Seq(Cells), NEW order \in Seq(Messages), Chain(s, order),
           NEW m \in Messages
    PROVE  Chain(s \o Frame(m), Append(order, m))
<1> DEFINE f == Frame(m)
           u == s \o f
           new == Append(order, m)
<1>1. f \in Seq(Cells) /\ Len(f) = Total(m) /\ Total(m) \in Nat \ {0}
      /\ \A i \in 1..Total(m) : f[i] = Cell(m, i)
  BY FrameFacts
<1>2. /\ new \in Seq(Messages) /\ Len(new) = Len(order) + 1 /\ Len(order) \in Nat
      /\ new[Len(order) + 1] = m
      /\ \A k \in 1..Len(order) : new[k] = order[k]
      /\ DOMAIN new = 1..(Len(order) + 1) /\ DOMAIN order = 1..Len(order)
  OBVIOUS
<1> HIDE DEF f, new
<1>3. /\ u \in Seq(Cells) /\ Len(u) = Len(s) + Total(m) /\ Len(s) \in Nat
      /\ \A i \in 1..Len(s) : u[i] = s[i]
      /\ \A i \in 1..Total(m) : u[Len(s) + i] = Cell(m, i)
  <2>1. /\ u \in Seq(Cells) /\ Len(u) = Len(s) + Len(f)
        /\ Len(s) \in Nat /\ Len(f) \in Nat
        /\ \A i \in 1..(Len(s) + Len(f)) :
              u[i] = IF i <= Len(s) THEN s[i] ELSE f[i - Len(s)]
    <3>1. Len(s) \in Nat
      OBVIOUS
    <3> QED
      BY <1>1, <3>1, ConcatProperties
  <2>2. ASSUME NEW i \in 1..Total(m)
        PROVE  u[Len(s) + i] = Cell(m, i)
    <3>1. /\ Len(s) + i \in 1..(Len(s) + Len(f)) /\ ~(Len(s) + i <= Len(s))
          /\ (Len(s) + i) - Len(s) = i
      BY <1>1, <2>1
    <3> QED
      BY <1>1, <2>1, <3>1
  <2>3. ASSUME NEW i \in 1..Len(s)
        PROVE  u[i] = s[i]
    BY <1>1, <2>1
  <2> QED
    BY <1>1, <2>1, <2>2, <2>3
<1> HIDE DEF u
<1> DEFINE Good(i, k) ==
        LET end == i + Total(new[k]) - u[i].at
        IN  /\ u[i].msg = new[k] /\ u[i].at <= Total(new[k])
            /\ end <= Len(u)
            /\ \A j \in i..end : u[j] = Cell(new[k], u[i].at + (j - i))
            /\ IF end = Len(u) THEN k = Len(new)
               ELSE k < Len(new) /\ u[end + 1] = Cell(new[k + 1], 1)
<1>4. ASSUME NEW i \in 1..Len(s)
      PROVE  \E k \in DOMAIN new : Good(i, k)
  <2>1. PICK k \in DOMAIN order :
           LET end == i + Total(order[k]) - s[i].at
           IN  /\ s[i].msg = order[k] /\ s[i].at <= Total(order[k])
               /\ end <= Len(s)
               /\ \A j \in i..end : s[j] = Cell(order[k], s[i].at + (j - i))
               /\ IF end = Len(s) THEN k = Len(order)
                  ELSE k < Len(order) /\ s[end + 1] = Cell(order[k + 1], 1)
    BY DEF Chain
  <2> DEFINE at == s[i].at
             size == Total(order[k])
             end == i + size - at
  <2>2. /\ at \in Nat \ {0} /\ size \in Nat /\ k \in 1..Len(order)
        /\ k \in DOMAIN new /\ new[k] = order[k] /\ u[i] = s[i]
    <3>1. s[i] \in Cells /\ order[k] \in Messages
      BY <1>3
    <3>2. at \in Nat \ {0} /\ size \in Nat
      BY <3>1, CellsAreCells, FrameFacts
    <3> QED
      BY <1>2, <1>3, <3>2
  <2>3. /\ s[i].msg = order[k] /\ at <= size /\ end <= Len(s)
        /\ \A j \in i..end : s[j] = Cell(order[k], at + (j - i))
        /\ end = Len(s) => k = Len(order)
        /\ end # Len(s) => k < Len(order) /\ s[end + 1] = Cell(order[k + 1], 1)
    BY <2>1
  <2> HIDE DEF at, size
  <2>4. end \in Nat \ {0} /\ end >= i /\ end < Len(u)
    BY <1>1, <1>3, <2>2, <2>3
  <2>5. ASSUME NEW j \in i..end
        PROVE  u[j] = Cell(new[k], at + (j - i))
    <3>1. j \in 1..Len(s)
      BY <1>3, <2>3, <2>4
    <3> QED
      BY <1>3, <2>2, <2>3, <3>1
  <2>6. k < Len(new) /\ u[end + 1] = Cell(new[k + 1], 1)
    <3>1. CASE end = Len(s)
      <4>1. k = Len(order) /\ new[k + 1] = m
        BY <1>2, <2>3, <3>1
      <4>2. u[Len(s) + 1] = Cell(m, 1)
        <5>1. 1 \in 1..Total(m)
          BY <1>1
        <5> QED
          BY <1>3, <5>1
      <4> QED
        BY <1>2, <3>1, <4>1, <4>2
    <3>2. CASE end # Len(s)
      <4>1. k < Len(order) /\ s[end + 1] = Cell(order[k + 1], 1)
        BY <2>3, <3>2
      <4>2. end + 1 \in 1..Len(s)
        <5>1. end <= Len(s) /\ Len(s) \in Nat
          BY <1>3, <2>3
        <5> HIDE DEF end
        <5> QED
          BY <2>4, <3>2, <5>1
      <4>3. k + 1 \in 1..Len(order)
        <5>1. k \in 1..Len(order) /\ Len(order) \in Nat
          BY <1>2, <2>2
        <5> QED
          BY <4>1, <5>1
      <4> QED
        BY <1>2, <1>3, <4>1, <4>2, <4>3
    <3> QED
      BY <3>1, <3>2
  <2>7. u[i].at = at /\ u[i].msg = new[k] /\ Total(new[k]) = size
    BY <2>2, <2>3 DEF at, size
  <2>8. at <= size /\ end <= Len(u) /\ end # Len(u)
    BY <1>3, <2>3, <2>4
  <2>9. Good(i, k)
    BY <2>5, <2>6, <2>7, <2>8
  <2> QED
    BY <2>2, <2>9
<1>5. ASSUME NEW i \in (Len(s) + 1)..Len(u)
      PROVE  \E k \in DOMAIN new : Good(i, k)
  <2> DEFINE k == Len(order) + 1
             at == i - Len(s)
  <2>1. at \in 1..Total(m) /\ i = Len(s) + at
    BY <1>1, <1>3
  <2>2. u[i] = Cell(m, at) /\ u[i].msg = m /\ u[i].at = at
    <3>1. u[Len(s) + at] = Cell(m, at)
      BY <1>3, <2>1
    <3>2. at \in Nat \ {0}
      BY <1>1, <2>1
    <3> HIDE DEF at
    <3> QED
      BY <2>1, <3>1, <3>2, CellFacts
  <2>3. k \in DOMAIN new /\ new[k] = m /\ k = Len(new)
    BY <1>2
  <2>4. i + Total(m) - at = Len(u)
    BY <1>1, <1>3, <2>1
  <2>5. ASSUME NEW j \in i..Len(u)
        PROVE  u[j] = Cell(m, at + (j - i))
    <3>1. j - Len(s) \in 1..Total(m) /\ j = Len(s) + (j - Len(s))
          /\ at + (j - i) = j - Len(s)
      BY <1>1, <1>3, <2>1
    <3> QED
      BY <1>3, <3>1
  <2> HIDE DEF at, k
  <2>6. Good(i, k)
    BY <1>1, <1>3, <2>1, <2>2, <2>3, <2>4, <2>5
  <2> QED
    BY <2>3, <2>6
<1>6. \A i \in 1..Len(u) : i \in 1..Len(s) \/ i \in (Len(s) + 1)..Len(u)
  BY <1>3
<1>7. \A i \in 1..Len(u) : \E k \in DOMAIN new : Good(i, k)
  BY <1>4, <1>5, <1>6
<1>8. Chain(u, new)
  BY <1>7 DEF Chain
<1> QED
  BY <1>8 DEF f, u, new

Injective(order) == \A i, j \in DOMAIN order : order[i] = order[j] => i = j

\* A chain that starts with byte r of message p holds the rest of its frame.
LEMMA ChainHead ==
    ASSUME NEW s \in Seq(Cells), NEW order \in Seq(Messages), Chain(s, order),
           Injective(order), NEW p \in Nat, NEW r \in Nat \ {0},
           Starts(s, order, p, r), s # << >>,
           NEW m, m = order[p]
    PROVE  /\ p \in DOMAIN order /\ m \in Messages /\ s[1] = Cell(m, r)
           /\ r <= Total(m) /\ Total(m) - r + 1 <= Len(s)
           /\ \A j \in 1..(Total(m) - r + 1) : s[j] = Cell(m, r + j - 1)
           /\ Total(m) - r + 1 = Len(s) => p = Len(order)
           /\ Total(m) - r + 1 # Len(s) =>
                 p < Len(order) /\ s[Total(m) - r + 2] = Cell(order[p + 1], 1)
<1>1. p \in DOMAIN order /\ m \in Messages /\ s[1] = Cell(m, r)
  BY DEF Starts
<1>2. 1 \in 1..Len(s) /\ s[1].msg = m /\ s[1].at = r /\ Len(s) \in Nat
  <2>1. Len(s) \in Nat \ {0}
    BY EmptySeq
  <2> QED
    BY <1>1, <2>1, CellFacts
<1>3. PICK k \in DOMAIN order :
         LET end == 1 + Total(order[k]) - s[1].at
         IN  /\ s[1].msg = order[k] /\ s[1].at <= Total(order[k])
             /\ end <= Len(s)
             /\ \A j \in 1..end : s[j] = Cell(order[k], s[1].at + (j - 1))
             /\ IF end = Len(s) THEN k = Len(order)
                ELSE k < Len(order) /\ s[end + 1] = Cell(order[k + 1], 1)
  BY <1>2 DEF Chain
<1>4. k = p
  BY <1>1, <1>2, <1>3 DEF Injective
<1> DEFINE size == Total(m)
<1>5. size \in Nat
  BY <1>1, FrameFacts
<1>6. /\ r <= size /\ 1 + size - r <= Len(s)
      /\ \A j \in 1..(1 + size - r) : s[j] = Cell(m, r + (j - 1))
      /\ 1 + size - r = Len(s) => p = Len(order)
      /\ 1 + size - r # Len(s) =>
            p < Len(order) /\ s[1 + size - r + 1] = Cell(order[p + 1], 1)
  BY <1>2, <1>3, <1>4
<1> HIDE DEF size
<1>7. 1 + size - r = size - r + 1 /\ 1 + size - r + 1 = size - r + 2
  BY <1>5
<1>8. \A j \in 1..(size - r + 1) : r + (j - 1) = r + j - 1
  BY <1>5
<1>9. \A j \in 1..(size - r + 1) : s[j] = Cell(m, r + j - 1)
  BY <1>6, <1>7, <1>8
<1> QED
  BY <1>1, <1>6, <1>7, <1>9 DEF size

LEMMA StartsAppend ==
    ASSUME NEW s \in Seq(Cells), NEW order \in Seq(Messages), NEW m \in Messages,
           NEW p \in Nat, NEW r \in Nat, Starts(s, order, p, r)
    PROVE  Starts(s \o Frame(m), Append(order, m), p, r)
<1> DEFINE u == s \o Frame(m)
           new == Append(order, m)
<1>1. /\ u \in Seq(Cells) /\ Len(u) = Len(s) + Total(m) /\ Len(s) \in Nat
      /\ Total(m) \in Nat \ {0}
      /\ s # << >> => u[1] = s[1]
      /\ s = << >> => u[1] = Cell(m, 1)
  <2>1. /\ Frame(m) \in Seq(Cells) /\ Len(Frame(m)) = Total(m)
        /\ Total(m) \in Nat \ {0} /\ Frame(m)[1] = Cell(m, 1)
    BY FrameFacts
  <2>2. Len(s) \in Nat /\ (s # << >> => Len(s) > 0) /\ (s = << >> => Len(s) = 0)
    BY EmptySeq
  <2>3. /\ u \in Seq(Cells) /\ Len(u) = Len(s) + Len(Frame(m))
        /\ \A i \in 1..(Len(s) + Len(Frame(m))) :
              u[i] = IF i <= Len(s) THEN s[i] ELSE Frame(m)[i - Len(s)]
    BY <2>1, ConcatProperties
  <2>4. 1 \in 1..(Len(s) + Len(Frame(m)))
    BY <2>1, <2>2
  <2>5. s = << >> => u[1] = Frame(m)[1 - Len(s)] /\ 1 - Len(s) = 1
    BY <2>2, <2>3, <2>4
  <2> QED
    BY <2>1, <2>2, <2>3, <2>4, <2>5
<1>2. /\ DOMAIN new = 1..(Len(order) + 1) /\ new[Len(order) + 1] = m
      /\ DOMAIN order = 1..Len(order) /\ Len(order) \in Nat
      /\ \A k \in 1..Len(order) : new[k] = order[k]
  OBVIOUS
<1>3. u # << >>
  BY <1>1, EmptySeq
<1> HIDE DEF u, new
<1>4. CASE s = << >>
  BY <1>1, <1>2, <1>3, <1>4 DEF Starts, u, new
<1>5. CASE s # << >>
  BY <1>1, <1>2, <1>3, <1>5 DEF Starts, u, new
<1> QED
  BY <1>4, <1>5

\* After n bytes of a frame comes the next one of it ...
LEMMA StartsWithin ==
    ASSUME NEW s \in Seq(Cells), NEW order \in Seq(Messages), Chain(s, order),
           Injective(order), NEW p \in Nat, NEW r \in Nat \ {0},
           Starts(s, order, p, r), NEW n \in 1..Len(s),
           r + n <= Total(order[p])
    PROVE  Starts(SubSeq(s, n + 1, Len(s)), order, p, r + n)
<1> DEFINE m == order[p]
           size == Total(m)
           d == SubSeq(s, n + 1, Len(s))
<1>1. s # << >>
  BY EmptySeq
<1>2. /\ p \in DOMAIN order /\ m \in Messages
      /\ r <= size /\ size - r + 1 <= Len(s)
      /\ \A j \in 1..(size - r + 1) : s[j] = Cell(m, r + j - 1)
  BY <1>1, ChainHead
<1>3. size \in Nat /\ Len(s) \in Nat
  BY <1>2, FrameFacts
<1>4. n \in 0..Len(s) /\ n + 1 \in 1..(size - r + 1) /\ 1 \in 1..(Len(s) - n)
      /\ r + (n + 1) - 1 = r + n
  <2> HIDE DEF size
  <2>1. r + n <= size
    BY DEF size
  <2> QED
    BY <1>2, <1>3, <2>1
<1>5. d \in Seq(Cells) /\ Len(d) = Len(s) - n /\ d[1] = s[n + 1]
  BY <1>4, DropFacts
<1> HIDE DEF d, m, size
<1>6. d # << >>
  BY <1>3, <1>4, <1>5, EmptySeq
<1>7. d[1] = Cell(m, r + n)
  BY <1>2, <1>4, <1>5
<1> QED
  BY <1>2, <1>6, <1>7 DEF Starts, d, m

\* ... and after its last the next frame.
LEMMA StartsAfter ==
    ASSUME NEW s \in Seq(Cells), NEW order \in Seq(Messages), Chain(s, order),
           Injective(order), NEW p \in Nat, NEW r \in Nat \ {0},
           Starts(s, order, p, r), NEW n \in 1..Len(s),
           r + n = Total(order[p]) + 1
    PROVE  Starts(SubSeq(s, n + 1, Len(s)), order, p + 1, 1)
<1> DEFINE m == order[p]
           size == Total(m)
           d == SubSeq(s, n + 1, Len(s))
<1>1. s # << >>
  BY EmptySeq
<1>2. /\ p \in DOMAIN order /\ m \in Messages
      /\ r <= size /\ size - r + 1 <= Len(s)
      /\ size - r + 1 = Len(s) => p = Len(order)
      /\ size - r + 1 # Len(s) =>
            p < Len(order) /\ s[size - r + 2] = Cell(order[p + 1], 1)
  BY <1>1, ChainHead
<1>3. size \in Nat /\ Len(s) \in Nat /\ Len(order) \in Nat
  <2>1. size \in Nat
    BY <1>2, FrameFacts
  <2> QED
    BY <2>1
<1>4. r + n = size + 1
  BY DEF size
<1> HIDE DEF d, m, size
<1>5. n \in 0..Len(s) /\ size - r + 1 = n /\ size - r + 2 = n + 1
  BY <1>3, <1>4
<1>6. d \in Seq(Cells) /\ Len(d) = Len(s) - n
      /\ \A i \in 1..(Len(s) - n) : d[i] = s[n + i]
  BY <1>5, DropFacts DEF d
<1>7. CASE n = Len(s)
  <2>1. d = << >> /\ p = Len(order)
    BY <1>2, <1>3, <1>5, <1>6, <1>7, EmptySeq
  <2> QED
    BY <2>1 DEF Starts, d
<1>8. CASE n # Len(s)
  <2>1. 1 \in 1..(Len(s) - n)
    BY <1>3, <1>5, <1>8
  <2>2. d # << >> /\ d[1] = s[n + 1]
    BY <1>3, <1>6, <2>1, EmptySeq
  <2>3. p < Len(order) /\ s[n + 1] = Cell(order[p + 1], 1)
    BY <1>2, <1>5, <1>8
  <2>4. p + 1 \in DOMAIN order
    BY <1>3, <2>3
  <2> QED
    BY <2>2, <2>3, <2>4 DEF Starts, d
<1> QED
  BY <1>7, <1>8

---------------------------------------------------------------------------
(* Types *)

LEMMA LengthIsNat ==
    ASSUME NEW header \in Seq(Cells), NEW length \in LengthIn(header)
    PROVE  length \in Nat
<1>1. CASE \E m \in Messages : header = SubSeq(Frame(m), 1, HeaderSize)
  <2>1. PICK m \in Messages : header = SubSeq(Frame(m), 1, HeaderSize)
    BY <1>1
  <2>2. HeaderSize \in 0..Len(Frame(m)) /\ 1 \in 1..HeaderSize /\ 1 \in 1..Total(m)
    BY FrameFacts
  <2>3. header[1] = Cell(m, 1)
    BY <2>1, <2>2, FrameFacts, TakeFacts
  <2>4. length = Size[m]
    <3>1. LengthIn(header) = {Size[header[1].msg]}
      BY <1>1 DEF LengthIn
    <3>2. header[1].msg = m
      BY <2>3, CellFacts
    <3> QED
      BY <3>1, <3>2
  <2> QED
    BY <2>4, FrameFacts
<1>2. CASE ~ \E m \in Messages : header = SubSeq(Frame(m), 1, HeaderSize)
  BY <1>2, FramingAssumption DEF LengthIn
<1> QED
  BY <1>1, <1>2

\* A piece that is read leaves wire and joins what was got.
LEMMA ReadPiece ==
    ASSUME FramingType, NEW n \in Nat \ {0}, n <= Len(wire)
    PROVE  /\ n \in 0..Len(wire) /\ Len(wire) \in Nat /\ Len(got) \in Nat
           /\ SubSeq(wire, n + 1, Len(wire)) \in Seq(Cells)
           /\ Len(SubSeq(wire, n + 1, Len(wire))) = Len(wire) - n
           /\ \A i \in 1..(Len(wire) - n) :
                 SubSeq(wire, n + 1, Len(wire))[i] = wire[n + i]
           /\ got \o SubSeq(wire, 1, n) \in Seq(Cells)
           /\ Len(got \o SubSeq(wire, 1, n)) = Len(got) + n
           /\ \A i \in 1..Len(got) : (got \o SubSeq(wire, 1, n))[i] = got[i]
           /\ \A i \in 1..n : (got \o SubSeq(wire, 1, n))[Len(got) + i] = wire[i]
<1>1. wire \in Seq(Cells) /\ got \in Seq(Cells) /\ Len(wire) \in Nat
      /\ Len(got) \in Nat
  BY DEF FramingType
<1>2. n \in 0..Len(wire)
  BY <1>1
<1> DEFINE a == SubSeq(wire, 1, n)
           g == got \o a
<1>3. a \in Seq(Cells) /\ Len(a) = n /\ \A i \in 1..n : a[i] = wire[i]
  BY <1>1, <1>2, TakeFacts
<1> HIDE DEF a
<1>4. g \in Seq(Cells) /\ Len(g) = Len(got) + Len(a)
      /\ \A i \in 1..(Len(got) + Len(a)) :
            g[i] = IF i <= Len(got) THEN got[i] ELSE a[i - Len(got)]
  BY <1>1, <1>3, ConcatProperties
<1>5. ASSUME NEW i \in 1..n
      PROVE  g[Len(got) + i] = wire[i]
  <2>1. /\ Len(got) + i \in 1..(Len(got) + Len(a)) /\ ~(Len(got) + i <= Len(got))
        /\ (Len(got) + i) - Len(got) = i
    BY <1>1, <1>3
  <2> QED
    BY <1>3, <1>4, <2>1
<1>6. ASSUME NEW i \in 1..Len(got)
      PROVE  g[i] = got[i]
  BY <1>1, <1>3, <1>4
<1> QED
  BY <1>1, <1>2, <1>3, <1>4, <1>5, <1>6, DropFacts DEF a

LEMMA LeastFacts ==
    ASSUME NEW a \in Int, NEW b \in Int, NEW n \in 1..Least(a, b)
    PROVE  n \in Nat \ {0} /\ n <= a /\ n <= b
BY DEF Least

\* What a call of sendMsg still has to send, cut after n bytes.
LEMMA SendPiece ==
    ASSUME FramingType, NEW w \in Writers, SendPart(w)
    PROVE  \E n \in Nat \ {0} :
              /\ n \in 1..Len(out[w]) /\ out[w] \in Seq(Cells)
              /\ wire' = wire \o SubSeq(out[w], 1, n)
              /\ out' = [out EXCEPT ![w] = SubSeq(@, n + 1, Len(@))]
<1> DEFINE room == BufferSize - Len(wire)
           n == Least(room, Len(out[w]))
<1>1. wire \in Seq(Cells) /\ out[w] \in Seq(Cells) /\ BufferSize \in Nat
      /\ Len(wire) \in Nat /\ Len(out[w]) \in Nat
  BY FramingAssumption DEF FramingType
<1>2. room \in Int /\ room > 0 /\ Len(out[w]) # 0
  BY <1>1, EmptySeq DEF SendPart
<1>3. n \in Nat \ {0} /\ n \in 1..Len(out[w])
  BY <1>1, <1>2 DEF Least
<1> QED
  BY <1>1, <1>3 DEF SendPart

\* What comes after the header.
Payload(m) == SubSeq(Frame(m), HeaderSize + 1, Len(Frame(m)))

LEMMA PayloadFacts ==
    ASSUME NEW m \in Messages
    PROVE  /\ Payload(m) \in Seq(Cells) /\ Len(Payload(m)) = Size[m]
           /\ \A j \in 1..Size[m] : Payload(m)[j] = Cell(m, HeaderSize + j)
           /\ Payload(m)[1] = First(m) /\ First(m) \in Cells /\ First(m).msg = m
           /\ First(m).at = HeaderSize + 1
<1> DEFINE f == Frame(m)
<1>1. /\ Size[m] \in Nat \ {0} /\ HeaderSize \in Nat /\ f \in Seq(Cells)
      /\ Len(f) = HeaderSize + Size[m]
      /\ \A j \in 1..Len(f) : f[j] = Cell(m, j)
  BY FrameFacts DEF Total
<1> HIDE DEF f
<1>2. HeaderSize \in 0..Len(f) /\ Len(f) - HeaderSize = Size[m]
  BY <1>1
<1>3. /\ SubSeq(f, HeaderSize + 1, Len(f)) \in Seq(Cells)
      /\ Len(SubSeq(f, HeaderSize + 1, Len(f))) = Size[m]
      /\ \A j \in 1..Size[m] : SubSeq(f, HeaderSize + 1, Len(f))[j] = f[HeaderSize + j]
  BY <1>1, <1>2, DropFacts
<1>4. ASSUME NEW j \in 1..Size[m]
      PROVE  SubSeq(f, HeaderSize + 1, Len(f))[j] = Cell(m, HeaderSize + j)
  <2>1. HeaderSize + j \in 1..Len(f)
    BY <1>1
  <2> QED
    BY <1>1, <1>3, <2>1
<1>5. 1 \in 1..Size[m] /\ HeaderSize + 1 \in Nat \ {0}
  BY <1>1
<1> QED
  BY <1>3, <1>4, <1>5, CellFacts DEF Payload, First, f

LEMMA HandOverFacts ==
    ASSUME FramingType, NEW payload, HandOver(payload)
    PROVE  IF \E i \in Places : payload = Payload(sent[i])
           THEN \E p \in Places : /\ delivered' = Append(delivered, p)
                                  /\ payload[1] = First(sent[p])
           ELSE UNCHANGED delivered
<1>1. /\ sent \in Seq(Messages) /\ Places = 1..Len(sent) /\ Len(sent) \in Nat
      /\ \A i \in Places : sent[i] \in Messages
  BY DEF FramingType, Places
<1>2. CASE \E i \in Places : payload = Payload(sent[i])
  <2>1. PICK i \in Places : payload = Payload(sent[i])
    BY <1>2
  <2>2. payload[1] = First(sent[i]) /\ payload[1].msg = sent[i]
    BY <1>1, <2>1, PayloadFacts
  <2> DEFINE p == CHOOSE k \in Places : sent[k] = payload[1].msg
  <2>3. p \in Places /\ sent[p] = sent[i]
    BY <2>2
  <2>4. delivered' = Append(delivered, p)
    BY <2>1 DEF HandOver, Payload, Places
  <2> QED
    BY <1>2, <2>2, <2>3, <2>4
<1>3. CASE ~ \E i \in Places : payload = Payload(sent[i])
  BY <1>3 DEF HandOver, Payload, Places
<1> QED
  BY <1>2, <1>3

LEMMA HandOverType ==
    ASSUME FramingType, NEW payload, HandOver(payload)
    PROVE  delivered' \in Seq(Nat)
<1>1. delivered \in Seq(Nat) /\ Places \subseteq Nat
  BY DEF FramingType, Places
<1>2. UNCHANGED delivered \/ \E p \in Places : delivered' = Append(delivered, p)
  BY HandOverFacts
<1> QED
  BY <1>1, <1>2

LEMMA TypeStep == FramingType /\ [Next]_vars => FramingType'
<1> SUFFICES ASSUME FramingType, [Next]_vars
             PROVE  FramingType'
  OBVIOUS
<1>0. /\ out \in [Writers -> Seq(Cells)]
      /\ wire \in Seq(Cells) /\ got \in Seq(Cells)
      /\ sent \in Seq(Messages) /\ delivered \in Seq(Nat)
      /\ need \in Nat
      /\ pc \in {"peek", "header", "payload"}
      /\ closed \in BOOLEAN /\ running \in BOOLEAN /\ told \in BOOLEAN
      /\ broken \in BOOLEAN /\ lost \in Seq(Cells)
      /\ damage \subseteq {"missed", "cut", "mixed"}
      /\ broken => closed
      /\ ~broken => lost = << >>
  BY DEF FramingType
<1> USE DEF writerVars, readerVars
<1>1. ASSUME NEW w \in Writers, NEW m \in Messages, SendMsg(w, m)
      PROVE  FramingType'
  BY <1>0, <1>1, FrameFacts DEF FramingType, SendMsg
<1>2. ASSUME NEW w \in Writers, SendPart(w)
      PROVE  FramingType'
  <2>1. PICK n \in Nat \ {0} :
              /\ n \in 1..Len(out[w]) /\ out[w] \in Seq(Cells)
              /\ wire' = wire \o SubSeq(out[w], 1, n)
              /\ out' = [out EXCEPT ![w] = SubSeq(@, n + 1, Len(@))]
    BY <1>2, SendPiece
  <2>2. n \in 0..Len(out[w]) /\ 1 \in 1..Len(out[w])
    BY <2>1
  <2>3. SubSeq(out[w], 1, n) \in Seq(Cells)
        /\ SubSeq(out[w], n + 1, Len(out[w])) \in Seq(Cells)
    BY <2>1, <2>2, TakeFacts, DropFacts
  <2>4. wire' \in Seq(Cells)
    BY <1>0, <2>1, <2>3, ConcatProperties
  <2>5. out' \in [Writers -> Seq(Cells)]
    BY <1>0, <2>1, <2>3
  <2>6. out[w][1].msg \in Messages
    BY <2>1, <2>2, CellsAreCells
  <2>7. sent' \in Seq(Messages)
    BY <1>0, <1>2, <2>6 DEF SendPart
  <2> QED
    BY <1>0, <1>2, <2>4, <2>5, <2>7 DEF FramingType, SendPart
<1>3. ASSUME NEW w \in Writers, SendFails(w)
      PROVE  FramingType'
  BY <1>0, <1>3 DEF FramingType, SendFails
<1>4. CASE Close
  BY <1>0, <1>4 DEF FramingType, Close
<1>5. CASE PeekHeader
  BY <1>0, <1>5 DEF FramingType, PeekHeader
<1>6. CASE Dump
  <2>1. PICK n \in 1..Least(DumpSize, Len(wire)) :
           Receive(n) /\ damage' \in {damage, damage \cup {"missed"}}
    BY <1>6 DEF Dump
  <2>2. n \in Nat \ {0} /\ n <= Len(wire)
    BY <1>0, LeastFacts, FramingAssumption
  <2>3. wire' \in Seq(Cells)
    BY <2>1, <2>2, ReadPiece DEF Receive
  <2> QED
    BY <1>0, <1>6, <2>1, <2>3 DEF FramingType, Dump
<1>7. CASE ReadHeader
  <2>1. PICK n \in 1..Least(HeaderSize - Len(got), Len(wire)) :
           LET header == got \o SubSeq(wire, 1, n) IN
          /\ Receive(n)
          /\ IF Len(header) < HeaderSize
             THEN got' = header /\ UNCHANGED <<pc, need>>
             ELSE \E length \in LengthIn(header) :
                     /\ got' = << >> /\ need' = length
                     /\ pc' = IF length = 0 THEN "peek" ELSE "payload"
    BY <1>7 DEF ReadHeader
  <2>2. n \in Nat \ {0} /\ n <= Len(wire)
    BY <1>0, LeastFacts, FramingAssumption
  <2>3. wire' \in Seq(Cells) /\ got \o SubSeq(wire, 1, n) \in Seq(Cells)
    BY <2>1, <2>2, ReadPiece DEF Receive
  <2>4. got' \in Seq(Cells) /\ need' \in Nat /\ pc' \in {"peek", "header", "payload"}
    <3>1. CASE got' = got \o SubSeq(wire, 1, n) /\ UNCHANGED <<pc, need>>
      BY <1>0, <2>3, <3>1
    <3>2. ASSUME NEW length \in LengthIn(got \o SubSeq(wire, 1, n)),
                 got' = << >>, need' = length,
                 pc' = IF length = 0 THEN "peek" ELSE "payload"
          PROVE  /\ got' \in Seq(Cells) /\ need' \in Nat
                 /\ pc' \in {"peek", "header", "payload"}
      <4>1. length \in Nat
        BY <2>3, LengthIsNat
      <4>2. << >> \in Seq(Cells)
        OBVIOUS
      <4> QED
        BY <3>2, <4>1, <4>2
    <3> QED
      BY <2>1, <3>1, <3>2
  <2> QED
    BY <1>0, <1>7, <2>3, <2>4 DEF FramingType, ReadHeader
<1>8. CASE ReadPayload
  <2>1. PICK n \in 1..Least(need - Len(got), Len(wire)) :
           LET payload == got \o SubSeq(wire, 1, n) IN
          /\ Receive(n)
          /\ IF Len(payload) < need
             THEN got' = payload /\ UNCHANGED <<pc, need, delivered>>
             ELSE /\ HandOver(payload)
                  /\ pc' = "peek" /\ got' = << >> /\ need' = 0
    BY <1>8 DEF ReadPayload
  <2>2. n \in Nat \ {0} /\ n <= Len(wire)
    BY <1>0, LeastFacts
  <2>3. wire' \in Seq(Cells) /\ got \o SubSeq(wire, 1, n) \in Seq(Cells)
    BY <2>1, <2>2, ReadPiece DEF Receive
  <2>4. /\ got' \in Seq(Cells) /\ need' \in Nat
        /\ pc' \in {"peek", "header", "payload"} /\ delivered' \in Seq(Nat)
    <3>1. CASE got' = got \o SubSeq(wire, 1, n) /\ UNCHANGED <<pc, need, delivered>>
      BY <1>0, <2>3, <3>1
    <3>2. CASE /\ HandOver(got \o SubSeq(wire, 1, n))
               /\ pc' = "peek" /\ got' = << >> /\ need' = 0
      BY <3>2, HandOverType
    <3> QED
      BY <2>1, <3>1, <3>2
  <2> QED
    BY <1>0, <1>8, <2>3, <2>4 DEF FramingType, ReadPayload
<1>9. CASE EndOfStream \/ Stop
  <2>1. told' \in BOOLEAN /\ running' \in BOOLEAN
    BY <1>0, <1>9 DEF EndOfStream, Stop
  <2>2. UNCHANGED <<out, wire, closed, broken, pc, got, need, sent, delivered, damage,
                    lost>>
    BY <1>9 DEF EndOfStream, Stop
  <2> QED
    BY <1>0, <2>1, <2>2 DEF FramingType
<1>10. CASE UNCHANGED vars
  BY <1>0, <1>10 DEF FramingType, vars
<1>11. CASE Break
  <2>1. PICK n \in 0..Len(wire) :
           wire' = SubSeq(wire, 1, n) /\ lost' = SubSeq(wire, n + 1, Len(wire))
    BY <1>11 DEF Break
  <2>2. wire' \in Seq(Cells) /\ lost' \in Seq(Cells)
    BY <1>0, <2>1, TakeFacts, DropFacts
  <2> QED
    BY <1>0, <1>11, <2>2 DEF FramingType, Break
<1>12. CASE RecvFails
  <2>1. << >> \in Seq(Cells)
    OBVIOUS
  <2>2. told' \in BOOLEAN /\ running' \in BOOLEAN
    BY <1>0, <1>12 DEF RecvFails
  <2>3. \/ got' = got /\ need' = need /\ pc' = pc
        \/ got' = << >> /\ need' = 0 /\ pc' = "peek"
    BY <1>12 DEF RecvFails
  <2>4. got' \in Seq(Cells) /\ need' \in Nat /\ pc' \in {"peek", "header", "payload"}
    <3>1. got \in Seq(Cells) /\ need \in Nat /\ pc \in {"peek", "header", "payload"}
      BY <1>0
    <3>2. CASE got' = got /\ need' = need /\ pc' = pc
      BY <3>1, <3>2
    <3>3. CASE got' = << >> /\ need' = 0 /\ pc' = "peek"
      BY <2>1, <3>3
    <3> QED
      BY <2>3, <3>2, <3>3
  <2>5. UNCHANGED <<out, wire, closed, broken, sent, delivered, damage, lost>>
    BY <1>12 DEF RecvFails
  <2>6. UNCHANGED broken /\ UNCHANGED closed /\ UNCHANGED lost
    BY <2>5
  <2>7. (broken => closed)' /\ (~broken => lost = << >>)'
    BY <1>0, <2>6, Zenon
  <2> QED
    BY <1>0, <2>2, <2>4, <2>5, <2>7 DEF FramingType
<1> QED
  BY <1>1, <1>2, <1>3, <1>4, <1>5, <1>6, <1>7, <1>8, <1>9, <1>10, <1>11, <1>12
     DEF Next, Send, Read

---------------------------------------------------------------------------
(* What is still to be sent *)

LEMMA AppendSet ==
    ASSUME NEW order \in Seq(Messages), NEW m \in Messages
    PROVE  /\ ToSet(Append(order, m)) = ToSet(order) \cup {m}
           /\ Append(order, m) \in Seq(Messages)
           /\ Len(Append(order, m)) = Len(order) + 1
           /\ Append(order, m)[Len(order) + 1] = m
           /\ DOMAIN order = 1..Len(order) /\ Len(order) \in Nat
           /\ DOMAIN Append(order, m) = 1..(Len(order) + 1)
           /\ \A k \in 1..Len(order) : Append(order, m)[k] = order[k]
<1> DEFINE new == Append(order, m)
<1>1. /\ new \in Seq(Messages) /\ Len(new) = Len(order) + 1
      /\ new[Len(order) + 1] = m
      /\ DOMAIN order = 1..Len(order) /\ Len(order) \in Nat
      /\ DOMAIN new = 1..(Len(order) + 1)
      /\ \A k \in 1..Len(order) : new[k] = order[k]
  OBVIOUS
<1> HIDE DEF new
<1>2. \A k \in 1..(Len(order) + 1) : k \in 1..Len(order) \/ k = Len(order) + 1
  BY <1>1
<1>3. \A k \in 1..Len(order) : k \in 1..(Len(order) + 1)
  BY <1>1
<1>4. Len(order) + 1 \in 1..(Len(order) + 1)
  BY <1>1
<1>5. ToSet(new) = ToSet(order) \cup {m}
  BY <1>1, <1>2, <1>3, <1>4 DEF ToSet
<1> QED
  BY <1>1, <1>5 DEF new

\* The first cell that a call of sendMsg still has to send.
NextOut(w) == out[w][1]

\* SendPart, cell by cell.
LEMMA SendPartFacts ==
    ASSUME FramingType, OutInv, NEW w \in Writers, SendPart(w)
    PROVE  /\ NextOut(w) \in Cells /\ out[w] # << >>
           /\ \A v \in Writers \ {w} : out'[v] = out[v]
           /\ ToSet(sent') = ToSet(sent) \cup {NextOut(w).msg}
           /\ \A k \in Places : k \in DOMAIN sent' /\ sent'[k] = sent[k]
           /\ NextOut(w).at = 1 => /\ sent' = Append(sent, NextOut(w).msg)
                                 /\ NextOut(w).msg \notin ToSet(sent)
           /\ NextOut(w).at # 1 => sent' = sent /\ NextOut(w).msg \in ToSet(sent)
           /\ \E n \in 1..Len(out[w]) :
                 /\ wire' \in Seq(Cells) /\ Len(wire') = Len(wire) + n
                 /\ \A i \in 1..Len(wire) : wire'[i] = wire[i]
                 /\ \A i \in 1..n :
                       wire'[Len(wire) + i] = Cell(NextOut(w).msg, NextOut(w).at + i - 1)
                 /\ Len(out'[w]) = Len(out[w]) - n
                 /\ \A i \in 1..(Len(out[w]) - n) :
                       out'[w][i] = Cell(NextOut(w).msg, NextOut(w).at + n + i - 1)
<1> DEFINE c == NextOut(w)
<1>1. PICK n \in Nat \ {0} :
         /\ n \in 1..Len(out[w]) /\ out[w] \in Seq(Cells)
         /\ wire' = wire \o SubSeq(out[w], 1, n)
         /\ out' = [out EXCEPT ![w] = SubSeq(@, n + 1, Len(@))]
  BY SendPiece
<1>2. /\ out \in [Writers -> Seq(Cells)] /\ wire \in Seq(Cells)
      /\ Len(wire) \in Nat /\ sent \in Seq(Messages)
  BY DEF FramingType
<1>3. /\ n \in 0..Len(out[w]) /\ 1 \in 1..Len(out[w]) /\ Len(out[w]) \in Nat
      /\ out[w] # << >> /\ c \in Cells
  BY <1>1, EmptySeq DEF NextOut
<1>4. /\ c.msg \in Messages /\ c.at \in Nat \ {0}
      /\ \A i \in 1..Len(out[w]) : out[w][i] = Cell(c.msg, c.at + i - 1)
      /\ c.at = 1 <=> c.msg \notin ToSet(sent)
  BY <1>3, CellsAreCells DEF OutInv, NextOut
<1>5. sent' = IF c.at > 1 THEN sent ELSE Append(sent, c.msg)
  BY <1>3 DEF SendPart, MidFrame, NextOut
<1>6. /\ c.at = 1 => sent' = Append(sent, c.msg) /\ c.msg \notin ToSet(sent)
      /\ c.at # 1 => sent' = sent /\ c.msg \in ToSet(sent)
  BY <1>4, <1>5
<1>7. /\ ToSet(sent') = ToSet(sent) \cup {c.msg}
      /\ \A k \in Places : k \in DOMAIN sent' /\ sent'[k] = sent[k]
  <2>1. CASE c.at = 1
    <3>1. sent' = Append(sent, c.msg)
      BY <1>6, <2>1
    <3>2. /\ ToSet(sent') = ToSet(sent) \cup {c.msg}
          /\ DOMAIN sent = 1..Len(sent) /\ Len(sent) \in Nat
          /\ DOMAIN sent' = 1..(Len(sent) + 1)
          /\ \A k \in 1..Len(sent) : sent'[k] = sent[k]
      BY <1>2, <1>4, <3>1, AppendSet
    <3> QED
      BY <3>2 DEF Places
  <2>2. CASE c.at # 1
    BY <1>6, <2>2 DEF Places
  <2> QED
    BY <2>1, <2>2
<1> DEFINE a == SubSeq(out[w], 1, n)
           b == SubSeq(out[w], n + 1, Len(out[w]))
<1>8. a \in Seq(Cells) /\ Len(a) = n /\ \A i \in 1..n : a[i] = out[w][i]
  BY <1>1, <1>3, TakeFacts
<1>9. /\ b \in Seq(Cells) /\ Len(b) = Len(out[w]) - n
      /\ \A i \in 1..(Len(out[w]) - n) : b[i] = out[w][n + i]
  BY <1>1, <1>3, DropFacts
<1>10. wire' = wire \o a /\ out'[w] = b /\ \A v \in Writers \ {w} : out'[v] = out[v]
  BY <1>1, <1>2
<1> HIDE DEF a, b
<1>11. /\ wire' \in Seq(Cells) /\ Len(wire') = Len(wire) + n
       /\ \A i \in 1..(Len(wire) + n) :
             wire'[i] = IF i <= Len(wire) THEN wire[i] ELSE a[i - Len(wire)]
  BY <1>2, <1>8, <1>10, ConcatProperties
<1>12. ASSUME NEW i \in 1..Len(wire)
       PROVE  wire'[i] = wire[i]
  BY <1>1, <1>2, <1>11
<1>13. ASSUME NEW i \in 1..n
       PROVE  wire'[Len(wire) + i] = Cell(c.msg, c.at + i - 1)
  <2>1. /\ Len(wire) + i \in 1..(Len(wire) + n) /\ ~(Len(wire) + i <= Len(wire))
        /\ (Len(wire) + i) - Len(wire) = i /\ i \in 1..Len(out[w])
    BY <1>1, <1>2, <1>3
  <2> QED
    BY <1>4, <1>8, <1>11, <2>1
<1>14. ASSUME NEW i \in 1..(Len(out[w]) - n)
       PROVE  out'[w][i] = Cell(c.msg, c.at + n + i - 1)
  <2>1. n + i \in 1..Len(out[w])
    BY <1>1, <1>3
  <2>2. c.at + (n + i) - 1 = c.at + n + i - 1
    <3>1. c.at \in Nat /\ i \in Nat
      BY <1>4
    <3> QED
      BY <3>1
  <2> QED
    BY <1>4, <1>9, <1>10, <2>1, <2>2
<1> QED
  BY <1>1, <1>3, <1>6, <1>7, <1>9, <1>10, <1>11, <1>12, <1>13, <1>14

\* The conjuncts of OutInv about one writer.
Ends(w) ==
    out[w] # << >> =>
        LET c == out[w][1] IN
        /\ Len(out[w]) = Total(c.msg) - c.at + 1
        /\ \A i \in 1..Len(out[w]) : out[w][i] = Cell(c.msg, c.at + i - 1)
        /\ c.at = 1 <=> c.msg \notin ToSet(sent)

LEMMA OutStep == FramingType /\ OutInv /\ [Next]_vars => OutInv'
<1> SUFFICES ASSUME FramingType, OutInv, [Next]_vars
             PROVE  OutInv'
  OBVIOUS
<1>0. /\ out \in [Writers -> Seq(Cells)] /\ sent \in Seq(Messages)
      /\ \A w \in Writers : Ends(w)
      /\ \A v, w \in Writers :
            v # w /\ out[v] # << >> /\ out[w] # << >> => out[v][1].msg # out[w][1].msg
      /\ \A i, j \in Places : sent[i] = sent[j] => i = j
  BY DEF FramingType, OutInv, Ends
<1> USE DEF writerVars, readerVars
<1>1. ASSUME NEW w \in Writers, NEW m \in Messages, SendMsg(w, m)
      PROVE  OutInv'
  <2> DEFINE f == Frame(m)
  <2>1. /\ Total(m) \in Nat \ {0} /\ f \in Seq(Cells) /\ Len(f) = Total(m)
        /\ \A i \in 1..Total(m) : f[i] = Cell(m, i)
        /\ f # << >> /\ f[1] = Cell(m, 1) /\ f[1].msg = m /\ f[1].at = 1
    <3>1. /\ Total(m) \in Nat \ {0} /\ f \in Seq(Cells) /\ Len(f) = Total(m)
          /\ \A i \in 1..Total(m) : f[i] = Cell(m, i)
      BY FrameFacts
    <3>2. f # << >>
      BY <3>1, EmptySeq
    <3> QED
      BY <3>1, <3>2, CellFacts
  <2> HIDE DEF f
  <2>2. /\ out' = [out EXCEPT ![w] = f] /\ UNCHANGED sent
        /\ m \notin ToSet(sent) /\ \A v \in Writers : out[v] # f
    BY <1>1 DEF SendMsg, f
  <2>3. Ends(w)'
    <3>1. out'[w] = f
      BY <1>0, <2>2
    <3>2. \A i \in 1..Len(f) : f[i] = Cell(m, 1 + i - 1)
      BY <2>1
    <3> QED
      BY <2>1, <2>2, <3>1, <3>2 DEF Ends
  <2>4. ASSUME NEW v \in Writers \ {w}
        PROVE  Ends(v)' /\ (out'[v] # << >> => out'[v][1].msg # m)
    <3>1. out'[v] = out[v] /\ Ends(v)
      BY <1>0, <2>2
    <3>2. ASSUME out[v] # << >>, out[v][1].msg = m
          PROVE  FALSE
      <4>1. /\ out[v][1].at = 1 /\ Len(out[v]) = Total(m) /\ out[v] \in Seq(Cells)
            /\ \A i \in 1..Len(out[v]) : out[v][i] = Cell(m, i)
        BY <1>0, <2>1, <2>2, <3>1, <3>2 DEF Ends
      <4>2. out[v] = f
        BY <2>1, <4>1, SeqEqual
      <4> QED
        BY <2>2, <4>2
    <3> QED
      BY <2>2, <3>1, <3>2 DEF Ends
  <2>5. out'[w][1].msg = m
    BY <1>0, <2>1, <2>2
  <2> QED
    <3>1. \A v \in Writers : Ends(v)'
      BY <2>3, <2>4
    <3>2. \A u, v \in Writers :
             u # v /\ out'[u] # << >> /\ out'[v] # << >> =>
                out'[u][1].msg # out'[v][1].msg
      <4>1. \A v \in Writers \ {w} : out'[v] = out[v]
        BY <1>0, <2>2
      <4> QED
        <5> SUFFICES ASSUME NEW u \in Writers, NEW v \in Writers, u # v,
                            out'[u] # << >>, out'[v] # << >>
                     PROVE  out'[u][1].msg # out'[v][1].msg
          OBVIOUS
        <5>1. CASE u = w
          BY <2>4, <2>5, <5>1
        <5>2. CASE v = w
          BY <2>4, <2>5, <5>2
        <5>3. CASE u # w /\ v # w
          <6>1. out'[u] = out[u] /\ out'[v] = out[v]
            BY <4>1, <5>3
          <6> QED
            BY <1>0, <6>1
        <5> QED
          BY <5>1, <5>2, <5>3
    <3> QED
      BY <1>0, <2>2, <3>1, <3>2 DEF OutInv, Ends, Places
<1>2. ASSUME NEW w \in Writers, SendPart(w)
      PROVE  OutInv'
  <2> DEFINE c == NextOut(w)
  <2>1. /\ c \in Cells /\ out[w] # << >>
        /\ \A v \in Writers \ {w} : out'[v] = out[v]
        /\ ToSet(sent') = ToSet(sent) \cup {c.msg}
        /\ c.at = 1 => sent' = Append(sent, c.msg) /\ c.msg \notin ToSet(sent)
        /\ c.at # 1 => sent' = sent /\ c.msg \in ToSet(sent)
    BY <1>2, SendPartFacts
  <2>2. PICK n \in 1..Len(out[w]) :
           /\ wire' \in Seq(Cells) /\ Len(wire') = Len(wire) + n
           /\ \A i \in 1..Len(wire) : wire'[i] = wire[i]
           /\ \A i \in 1..n : wire'[Len(wire) + i] = Cell(c.msg, c.at + i - 1)
           /\ Len(out'[w]) = Len(out[w]) - n
           /\ \A i \in 1..(Len(out[w]) - n) :
                 out'[w][i] = Cell(c.msg, c.at + n + i - 1)
    BY <1>2, SendPartFacts
  <2>3. /\ c.msg \in Messages /\ c.at \in Nat \ {0} /\ Total(c.msg) \in Nat
        /\ Len(out[w]) = Total(c.msg) - c.at + 1 /\ Len(out[w]) \in Nat
        /\ n \in Nat \ {0}
    BY <1>0, <2>1, CellsAreCells, FrameFacts DEF Ends, NextOut
  <2>4. out'[w] # << >> => /\ out'[w][1] = Cell(c.msg, c.at + n)
                         /\ out'[w][1].msg = c.msg /\ out'[w][1].at = c.at + n
    <3> SUFFICES ASSUME out'[w] # << >>
                 PROVE  /\ out'[w][1] = Cell(c.msg, c.at + n)
                        /\ out'[w][1].msg = c.msg /\ out'[w][1].at = c.at + n
      OBVIOUS
    <3>1. out'[w] \in Seq(Cells)
      <4>1. FramingType'
        BY TypeStep
      <4> QED
        BY <4>1 DEF FramingType
    <3>2. Len(out'[w]) \in Nat \ {0}
      BY <3>1, EmptySeq
    <3>3. 1 \in 1..(Len(out[w]) - n) /\ c.at + n + 1 - 1 = c.at + n
      <4>1. Len(out[w]) - n \in Nat \ {0}
        BY <2>2, <3>2
      <4>2. c.at + n \in Nat
        BY <2>3
      <4> HIDE DEF c
      <4> QED
        BY <4>1, <4>2
    <3>4. c.at + n \in Nat \ {0}
      BY <2>3
    <3>5. out'[w][1] = Cell(c.msg, c.at + n)
      BY <2>2, <3>3
    <3> QED
      BY <2>3, <3>4, <3>5, CellFacts
  <2> HIDE DEF c
  <2>5. Ends(w)'
    <3>1. Len(out'[w]) = Total(c.msg) - (c.at + n) + 1 /\ c.at + n # 1
      <4>1. Len(out'[w]) = Len(out[w]) - n
        BY <2>2
      <4> QED
        BY <2>3, <4>1
    <3>2. c.msg \in ToSet(sent')
      BY <2>1
    <3> QED
      BY <2>2, <2>4, <3>1, <3>2 DEF Ends
  <2>6. ASSUME NEW v \in Writers \ {w}
        PROVE  Ends(v)' /\ (out'[v] # << >> => out'[v][1].msg # c.msg)
    <3>1. out'[v] = out[v] /\ Ends(v)
      BY <1>0, <2>1
    <3>2. out[v] # << >> => out[v][1].msg # c.msg
      BY <1>0, <2>1 DEF c, NextOut
    <3> QED
      BY <2>1, <3>1, <3>2 DEF Ends
  <2>7. \A i, j \in DOMAIN sent' : sent'[i] = sent'[j] => i = j
    <3>1. CASE c.at # 1
      BY <1>0, <2>1, <3>1 DEF Places
    <3>2. CASE c.at = 1
      <4>1. sent' = Append(sent, c.msg) /\ c.msg \notin ToSet(sent)
        BY <2>1, <3>2
      <4>2. /\ DOMAIN sent = 1..Len(sent) /\ Len(sent) \in Nat
            /\ DOMAIN sent' = 1..(Len(sent) + 1)
            /\ sent'[Len(sent) + 1] = c.msg
            /\ \A k \in 1..Len(sent) : sent'[k] = sent[k]
        BY <1>0, <2>3, <4>1, AppendSet
      <4>3. \A k \in 1..Len(sent) : sent[k] # c.msg
        BY <4>1, <4>2 DEF ToSet
      <4>4. \A k \in DOMAIN sent' : k \in 1..Len(sent) \/ k = Len(sent) + 1
        BY <4>2
      <4> QED
        BY <1>0, <4>2, <4>3, <4>4 DEF Places
    <3> QED
      BY <3>1, <3>2
  <2>8. ASSUME NEW u \in Writers, NEW v \in Writers, u # v,
               out'[u] # << >>, out'[v] # << >>
        PROVE  out'[u][1].msg # out'[v][1].msg
    <3>1. CASE u = w
      BY <2>4, <2>6, <2>8, <3>1
    <3>2. CASE v = w
      BY <2>4, <2>6, <2>8, <3>2
    <3>3. CASE u # w /\ v # w
      BY <1>0, <2>1, <2>8, <3>3
    <3> QED
      BY <3>1, <3>2, <3>3
  <2> QED
    <3>1. \A v \in Writers : Ends(v)'
      BY <2>5, <2>6
    <3> QED
      BY <2>7, <2>8, <3>1 DEF OutInv, Ends, Places
<1>3. ASSUME NEW w \in Writers, SendFails(w)
      PROVE  OutInv'
  <2>1. \A v \in Writers : out'[v] = IF v = w THEN << >> ELSE out[v]
    BY <1>0, <1>3 DEF SendFails
  <2>2. sent' = sent
    BY <1>3 DEF SendFails
  <2> QED
    BY <1>0, <2>1, <2>2 DEF OutInv, Ends, Places
<1>4. CASE UNCHANGED <<out, sent>>
  BY <1>0, <1>4 DEF OutInv, Ends, Places
<1>5. Close \/ Break \/ Read \/ Stop \/ UNCHANGED vars => UNCHANGED <<out, sent>>
  BY DEF Close, Break, Read, PeekHeader, Dump, ReadHeader, ReadPayload, EndOfStream,
         RecvFails, Stop, vars
<1> QED
  BY <1>1, <1>2, <1>3, <1>4, <1>5 DEF Next, Send

---------------------------------------------------------------------------
(* A byte is in one place, and no message is delivered twice *)

\* Passed, in the next state.
PassedNext(c) ==
    /\ c.msg \in ToSet(sent')
    /\ \A w \in Writers :
          out'[w] # << >> /\ out'[w][1].msg = c.msg => c.at < out'[w][1].at

\* What is behind stays behind.
LEMMA PassedStep ==
    ASSUME FramingType, OutInv, [Next]_vars, NEW c \in Cells, Passed(c)
    PROVE  PassedNext(c)
<1>0. out \in [Writers -> Seq(Cells)] /\ c.msg \in ToSet(sent) /\ c.at \in Nat
  BY CellsAreCells DEF FramingType, Passed
<1>1. ASSUME NEW w \in Writers, NEW m \in Messages, SendMsg(w, m)
      PROVE  PassedNext(c)
  <2>1. out' = [out EXCEPT ![w] = Frame(m)] /\ sent' = sent /\ m \notin ToSet(sent)
    BY <1>1 DEF SendMsg, readerVars
  <2>2. Frame(m)[1].msg = m
    BY FrameFacts, CellFacts
  <2>3. m # c.msg
    BY <1>0, <2>1
  <2>4. out'[w] = Frame(m) /\ \A v \in Writers \ {w} : out'[v] = out[v]
    BY <1>0, <2>1
  <2> QED
    BY <1>0, <2>1, <2>2, <2>3, <2>4 DEF Passed, PassedNext
<1>2. ASSUME NEW w \in Writers, SendPart(w)
      PROVE  PassedNext(c)
  <2> DEFINE x == NextOut(w)
  <2>1. /\ x \in Cells /\ out[w] # << >>
        /\ \A v \in Writers \ {w} : out'[v] = out[v]
        /\ ToSet(sent') = ToSet(sent) \cup {x.msg}
    BY <1>2, SendPartFacts
  <2>2. PICK n \in 1..Len(out[w]) :
           /\ wire' \in Seq(Cells) /\ Len(wire') = Len(wire) + n
           /\ \A i \in 1..Len(wire) : wire'[i] = wire[i]
           /\ \A i \in 1..n : wire'[Len(wire) + i] = Cell(x.msg, x.at + i - 1)
           /\ Len(out'[w]) = Len(out[w]) - n
           /\ \A i \in 1..(Len(out[w]) - n) :
                 out'[w][i] = Cell(x.msg, x.at + n + i - 1)
    BY <1>2, SendPartFacts
  <2>3. x.msg \in Messages /\ x.at \in Nat \ {0} /\ n \in Nat \ {0}
    <3>1. Len(out[w]) \in Nat
      BY <1>0
    <3> QED
      BY <2>1, <3>1, CellsAreCells
  <2> HIDE DEF x
  <2>4. ASSUME out'[w] # << >>
        PROVE  out'[w][1].msg = x.msg /\ out'[w][1].at = x.at + n
    <3>1. FramingType'
      BY TypeStep
    <3>2. Len(out'[w]) \in Nat \ {0}
      BY <2>4, <3>1, EmptySeq DEF FramingType
    <3>3. 1 \in 1..(Len(out[w]) - n)
      BY <2>2, <3>2
    <3>4. out'[w][1] = Cell(x.msg, x.at + n + 1 - 1)
      BY <2>2, <3>3
    <3>5. x.at + n + 1 - 1 = x.at + n /\ x.at + n \in Nat \ {0}
      BY <2>3
    <3> QED
      BY <2>3, <3>4, <3>5, CellFacts
  <2>5. x.msg = c.msg => c.at < x.at
    BY <2>1 DEF Passed, x, NextOut
  <2>6. x.msg = c.msg => c.at < x.at + n
    BY <1>0, <2>3, <2>5
  <2> QED
    BY <1>0, <2>1, <2>4, <2>6 DEF Passed, PassedNext
<1>3. ASSUME NEW w \in Writers, SendFails(w)
      PROVE  PassedNext(c)
  <2>1. \A v \in Writers : out'[v] = IF v = w THEN << >> ELSE out[v]
    BY <1>0, <1>3 DEF SendFails
  <2>2. sent' = sent
    BY <1>3 DEF SendFails
  <2> QED
    BY <2>1, <2>2 DEF Passed, PassedNext
<1>4. CASE UNCHANGED <<out, sent>>
  BY <1>4 DEF Passed, PassedNext
<1>5. Close \/ Break \/ Read \/ Stop \/ UNCHANGED vars => UNCHANGED <<out, sent>>
  BY DEF Close, Break, Read, PeekHeader, Dump, ReadHeader, ReadPayload, EndOfStream,
         RecvFails, Stop, vars, writerVars, readerVars
<1> QED
  BY <1>1, <1>2, <1>3, <1>4, <1>5 DEF Next, Send

\* A step that takes n cells from wire, keeps got, adds them to it or clears it.
Takes(n) ==
    /\ n \in Nat \ {0} /\ n <= Len(wire)
    /\ Receive(n)
    /\ got' \in {got, got \o SubSeq(wire, 1, n), << >>}

\* The cell that is the first in got, once it has all that was taken.
LEMMA FirstTaken ==
    ASSUME FramingType, NEW n \in Nat \ {0}, n <= Len(wire)
    PROVE  /\ got \o SubSeq(wire, 1, n) # << >>
           /\ (got \o SubSeq(wire, 1, n))[1] = IF got = << >> THEN wire[1] ELSE got[1]
<1> DEFINE g == got \o SubSeq(wire, 1, n)
<1>1. /\ g \in Seq(Cells) /\ Len(g) = Len(got) + n /\ Len(got) \in Nat
      /\ \A i \in 1..Len(got) : g[i] = got[i]
      /\ \A i \in 1..n : g[Len(got) + i] = wire[i]
  BY ReadPiece
<1> HIDE DEF g
<1>2. g # << >>
  BY <1>1, EmptySeq
<1>3. CASE got = << >>
  <2>1. Len(got) = 0 /\ 1 \in 1..n
    BY <1>3, EmptySeq
  <2>2. g[Len(got) + 1] = wire[1] /\ Len(got) + 1 = 1
    BY <1>1, <2>1
  <2> QED
    BY <1>2, <1>3, <2>2
<1>4. CASE got # << >>
  <2>1. got \in Seq(Cells)
    BY DEF FramingType
  <2>2. 1 \in 1..Len(got)
    BY <1>1, <1>4, <2>1, EmptySeq
  <2> QED
    BY <1>1, <1>2, <1>4, <2>2
<1> QED
  BY <1>3, <1>4 DEF g

LEMMA TakeOnce ==
    ASSUME FramingType, OutInv, [Next]_vars, OnceInv, NEW n, Takes(n)
    PROVE  OnceInv'
<1>1. n \in Nat \ {0} /\ n <= Len(wire) /\ Len(wire) \in Nat
      /\ wire \in Seq(Cells) /\ got \in Seq(Cells)
  BY DEF Takes, FramingType
<1>2. /\ Len(wire') = Len(wire) - n
      /\ \A i \in 1..(Len(wire) - n) : wire'[i] = wire[n + i]
  BY <1>1, ReadPiece DEF Takes, Receive
<1>3. \A i \in 1..Len(wire') :
         n + i \in 1..Len(wire) /\ n + i # 1 /\ wire'[i] = wire[n + i]
  BY <1>1, <1>2
<1>4. \A i \in 1..Len(wire') : PassedNext(wire'[i])
  BY <1>1, <1>3, PassedStep DEF OnceInv
<1>5. ASSUME NEW i \in 1..Len(wire'), NEW j \in 1..Len(wire'), wire'[i] = wire'[j]
      PROVE  i = j
  <2>1. n + i = n + j
    BY <1>3, <1>5 DEF OnceInv
  <2>2. i \in Nat /\ j \in Nat
    BY <1>1, <1>2
  <2> QED
    BY <1>1, <2>1, <2>2
<1>6. ASSUME got' # << >>
      PROVE  PassedNext(got'[1]) /\ \A i \in 1..Len(wire') : wire'[i] # got'[1]
  <2>1. got' = got \/ got' = got \o SubSeq(wire, 1, n)
    BY <1>6 DEF Takes
  <2>2. CASE got # << >>
    <3>1. got'[1] = got[1]
      BY <1>1, <2>1, <2>2, FirstTaken
    <3>2. 1 \in 1..Len(got)
      BY <1>1, <2>2, EmptySeq
    <3>3. got[1] \in Cells
      BY <1>1, <3>2
    <3>4. PassedNext(got[1])
      BY <2>2, <3>3, PassedStep DEF OnceInv
    <3> QED
      BY <1>3, <2>2, <3>1, <3>4 DEF OnceInv
  <2>3. CASE got = << >>
    <3>1. got'[1] = wire[1] /\ 1 \in 1..Len(wire)
      BY <1>1, <1>6, <2>1, <2>3, FirstTaken
    <3>2. wire[1] \in Cells /\ Passed(wire[1])
      BY <1>1, <3>1 DEF OnceInv
    <3>3. PassedNext(wire[1])
      BY <3>2, PassedStep
    <3>4. \A i \in 1..Len(wire') : wire'[i] # wire[1]
      BY <1>3, <3>1 DEF OnceInv
    <3> QED
      BY <3>1, <3>3, <3>4
  <2> QED
    BY <2>2, <2>3
<1> QED
  BY <1>4, <1>5, <1>6 DEF OnceInv, Passed, PassedNext

\* The receiver's steps that take something.
LEMMA ReadTakes ==
    ASSUME FramingType, Dump \/ ReadHeader \/ ReadPayload
    PROVE  \E n : Takes(n)
<1>0. Len(wire) \in Nat /\ Len(got) \in Nat /\ need \in Nat
  BY DEF FramingType
<1>1. CASE Dump
  <2>1. PICK n \in 1..Least(DumpSize, Len(wire)) : Receive(n)
    BY <1>1 DEF Dump
  <2>2. n \in Nat \ {0} /\ n <= Len(wire)
    BY <1>0, <2>1, FramingAssumption, LeastFacts
  <2>3. got' = got
    BY <1>1 DEF Dump, readerVars
  <2> QED
    BY <2>1, <2>2, <2>3 DEF Takes
<1>2. CASE ReadHeader
  <2>1. PICK n \in 1..Least(HeaderSize - Len(got), Len(wire)) :
           /\ Receive(n)
           /\ got' \in {got \o SubSeq(wire, 1, n), << >>}
    BY <1>2 DEF ReadHeader
  <2>2. n \in Nat \ {0} /\ n <= Len(wire)
    BY <1>0, <2>1, FramingAssumption, LeastFacts
  <2> QED
    BY <2>1, <2>2 DEF Takes
<1>3. CASE ReadPayload
  <2>1. PICK n \in 1..Least(need - Len(got), Len(wire)) :
           /\ Receive(n)
           /\ got' \in {got \o SubSeq(wire, 1, n), << >>}
    BY <1>3 DEF ReadPayload
  <2>2. n \in Nat \ {0} /\ n <= Len(wire)
    BY <1>0, <2>1, FramingAssumption, LeastFacts
  <2> QED
    BY <2>1, <2>2 DEF Takes
<1> QED
  BY <1>1, <1>2, <1>3

\* What SendPart adds to wire is behind the sender after it and was not before.
LEMMA SendCells ==
    ASSUME FramingType, OutInv, [Next]_vars, NEW w \in Writers, SendPart(w)
    PROVE  \E n \in Nat \ {0} :
              /\ Len(wire') = Len(wire) + n
              /\ \A i \in 1..Len(wire) : wire'[i] = wire[i]
              /\ \A i \in 1..n :
                    /\ PassedNext(wire'[Len(wire) + i])
                    /\ ~Passed(wire'[Len(wire) + i])
                    /\ wire'[Len(wire) + i].at = NextOut(w).at + i - 1
              /\ NextOut(w).at \in Nat
<1> DEFINE x == NextOut(w)
<1>1. /\ x \in Cells /\ out[w] # << >>
      /\ \A v \in Writers \ {w} : out'[v] = out[v]
      /\ ToSet(sent') = ToSet(sent) \cup {x.msg}
  BY SendPartFacts
<1>2. PICK n \in 1..Len(out[w]) :
         /\ wire' \in Seq(Cells) /\ Len(wire') = Len(wire) + n
         /\ \A i \in 1..Len(wire) : wire'[i] = wire[i]
         /\ \A i \in 1..n : wire'[Len(wire) + i] = Cell(x.msg, x.at + i - 1)
         /\ Len(out'[w]) = Len(out[w]) - n
         /\ \A i \in 1..(Len(out[w]) - n) :
               out'[w][i] = Cell(x.msg, x.at + n + i - 1)
  BY SendPartFacts
<1>3. x.msg \in Messages /\ x.at \in Nat \ {0} /\ n \in Nat \ {0}
  <2>1. Len(out[w]) \in Nat
    BY DEF FramingType
  <2> QED
    BY <1>1, <2>1, CellsAreCells
<1>4. \A v \in Writers \ {w} : out[v] # << >> => out[v][1].msg # x.msg
  BY <1>1 DEF OutInv, NextOut
<1>5. out[w][1] = x
  BY DEF NextOut
<1> HIDE DEF x
<1>6. ASSUME out'[w] # << >>
      PROVE  out'[w][1].at = x.at + n
  <2>1. FramingType'
    BY TypeStep
  <2>2. Len(out'[w]) \in Nat \ {0}
    BY <1>6, <2>1, EmptySeq DEF FramingType
  <2>3. 1 \in 1..(Len(out[w]) - n)
    BY <1>2, <2>2
  <2>4. out'[w][1] = Cell(x.msg, x.at + n + 1 - 1)
    BY <1>2, <2>3
  <2>5. x.at + n + 1 - 1 = x.at + n /\ x.at + n \in Nat \ {0}
    BY <1>3
  <2> QED
    BY <1>3, <2>4, <2>5, CellFacts
<1>7. ASSUME NEW i \in 1..n
      PROVE  /\ PassedNext(wire'[Len(wire) + i])
             /\ ~Passed(wire'[Len(wire) + i])
             /\ wire'[Len(wire) + i].at = x.at + i - 1
  <2> DEFINE c == wire'[Len(wire) + i]
  <2>1. c = Cell(x.msg, x.at + i - 1) /\ x.at + i - 1 \in Nat \ {0}
    <3>1. c = Cell(x.msg, x.at + i - 1)
      BY <1>2
    <3>2. x.at + i - 1 \in Nat \ {0}
      BY <1>3
    <3> QED
      BY <3>1, <3>2
  <2>2. c.msg = x.msg /\ c.at = x.at + i - 1
    BY <1>3, <2>1, CellFacts
  <2> HIDE DEF c
  <2>3. c.at < x.at + n /\ ~(c.at < x.at)
    BY <1>3, <2>2
  <2>4. PassedNext(c)
    BY <1>1, <1>4, <1>6, <2>2, <2>3 DEF PassedNext
  <2>5. ~Passed(c)
    BY <1>1, <1>5, <2>2, <2>3 DEF Passed
  <2> QED
    BY <2>2, <2>4, <2>5 DEF c
<1> QED
  BY <1>2, <1>3, <1>7 DEF x

\* What a broken connection still brings was on its way.
LEMMA BreakKeeps ==
    ASSUME FramingType, Break
    PROVE  /\ got' = got
           /\ \A i \in 1..Len(wire') : i \in 1..Len(wire) /\ wire'[i] = wire[i]
<1>1. PICK n \in 0..Len(wire) : wire' = SubSeq(wire, 1, n)
  BY DEF Break
<1>2. wire \in Seq(Cells) /\ Len(wire) \in Nat
  BY DEF FramingType
<1>3. Len(wire') = n /\ \A i \in 1..n : wire'[i] = wire[i]
  BY <1>1, <1>2, TakeFacts
<1>4. got' = got
  BY DEF Break, readerVars
<1> QED
  BY <1>2, <1>3, <1>4

LEMMA OnceStep == FramingType /\ OutInv /\ OnceInv /\ [Next]_vars => OnceInv'
<1> SUFFICES ASSUME FramingType, OutInv, OnceInv, [Next]_vars
             PROVE  OnceInv'
  OBVIOUS
<1>0. wire \in Seq(Cells) /\ got \in Seq(Cells) /\ Len(wire) \in Nat
      /\ \A i \in 1..Len(wire) : wire[i] \in Cells
      /\ got # << >> => got[1] \in Cells
  <2>1. wire \in Seq(Cells) /\ got \in Seq(Cells) /\ Len(wire) \in Nat
    BY DEF FramingType
  <2>2. got # << >> => 1 \in 1..Len(got)
    BY <2>1, EmptySeq
  <2> QED
    BY <2>1, <2>2
<1>1. CASE UNCHANGED wire /\ got' \in {got, << >>}
  BY <1>0, <1>1, PassedStep DEF OnceInv, Passed, PassedNext
<1>2. ASSUME NEW w \in Writers, SendPart(w)
      PROVE  OnceInv'
  <2>1. PICK n \in Nat \ {0} :
           /\ Len(wire') = Len(wire) + n
           /\ \A i \in 1..Len(wire) : wire'[i] = wire[i]
           /\ \A i \in 1..n :
                 /\ PassedNext(wire'[Len(wire) + i])
                 /\ ~Passed(wire'[Len(wire) + i])
                 /\ wire'[Len(wire) + i].at = NextOut(w).at + i - 1
           /\ NextOut(w).at \in Nat
    BY <1>2, SendCells
  <2>2. ASSUME NEW i \in 1..Len(wire'), i \notin 1..Len(wire)
        PROVE  /\ i - Len(wire) \in 1..n
               /\ PassedNext(wire'[i]) /\ ~Passed(wire'[i])
               /\ wire'[i].at = NextOut(w).at + (i - Len(wire)) - 1
    <3>1. i - Len(wire) \in 1..n /\ Len(wire) + (i - Len(wire)) = i
      BY <1>0, <2>1, <2>2
    <3> QED
      BY <2>1, <3>1
  <2>3. ASSUME NEW i \in 1..Len(wire')
        PROVE  PassedNext(wire'[i])
    <3>1. CASE i \in 1..Len(wire)
      BY <1>0, <2>1, <3>1, PassedStep DEF OnceInv
    <3> QED
      BY <2>2, <3>1
  <2>4. ASSUME NEW i \in 1..Len(wire'), NEW j \in 1..Len(wire'), wire'[i] = wire'[j]
        PROVE  i = j
    <3>1. CASE i \in 1..Len(wire) /\ j \in 1..Len(wire)
      BY <2>1, <2>4, <3>1 DEF OnceInv
    <3>2. CASE i \notin 1..Len(wire) /\ j \notin 1..Len(wire)
      <4>1. NextOut(w).at + (i - Len(wire)) - 1 = NextOut(w).at + (j - Len(wire)) - 1
        BY <2>2, <2>4, <3>2
      <4>2. NextOut(w).at \in Nat /\ Len(wire) \in Nat /\ i \in Int /\ j \in Int
        BY <1>0, <2>1
      <4> QED
        BY <4>1, <4>2
    <3>3. (i \in 1..Len(wire)) # (j \in 1..Len(wire)) => FALSE
      BY <2>1, <2>2, <2>4 DEF OnceInv
    <3> QED
      BY <3>1, <3>2, <3>3
  <2>5. got' = got
    BY <1>2 DEF SendPart, readerVars
  <2>6. ASSUME got # << >>
        PROVE  PassedNext(got[1]) /\ \A i \in 1..Len(wire') : wire'[i] # got[1]
    <3>1. Passed(got[1]) /\ got[1] \in Cells /\ PassedNext(got[1])
      BY <1>0, <2>6, PassedStep DEF OnceInv
    <3>2. ASSUME NEW i \in 1..Len(wire')
          PROVE  wire'[i] # got[1]
      BY <2>1, <2>2, <2>6, <3>1 DEF OnceInv
    <3> QED
      BY <3>1, <3>2
  <2> QED
    BY <2>3, <2>4, <2>5, <2>6 DEF OnceInv, Passed, PassedNext
<1>3. CASE Dump \/ ReadHeader \/ ReadPayload
  BY <1>3, ReadTakes, TakeOnce
<1>4. (\E w \in Writers : (\E m \in Messages : SendMsg(w, m)) \/ SendFails(w))
      \/ Close \/ PeekHeader \/ EndOfStream \/ RecvFails \/ Stop \/ UNCHANGED vars
      => UNCHANGED wire /\ got' \in {got, << >>}
  BY DEF SendMsg, SendFails, Close, PeekHeader, EndOfStream, RecvFails, Stop, vars,
         writerVars, readerVars
<1>5. CASE Break
  <2>1. /\ got' = got
        /\ \A i \in 1..Len(wire') : i \in 1..Len(wire) /\ wire'[i] = wire[i]
    BY <1>5, BreakKeeps
  <2>2. \A i \in 1..Len(wire') : PassedNext(wire'[i])
    BY <1>0, <2>1, PassedStep DEF OnceInv
  <2>3. \A i, j \in 1..Len(wire') : wire'[i] = wire'[j] => i = j
    BY <2>1 DEF OnceInv
  <2>4. got' # << >> =>
           PassedNext(got'[1]) /\ \A i \in 1..Len(wire') : wire'[i] # got'[1]
    BY <1>0, <2>1, PassedStep DEF OnceInv
  <2> QED
    BY <2>2, <2>3, <2>4 DEF OnceInv, Passed, PassedNext
<1> QED
  BY <1>1, <1>2, <1>3, <1>4, <1>5 DEF Next, Send, Read

GoneNext(c) ==
    /\ PassedNext(c)
    /\ \A i \in 1..Len(wire') : wire'[i] # c
    /\ got' # << >> => got'[1] # c

\* What a taking step leaves in wire is not the first cell it took, or has.
LEMMA TakeLeaves ==
    ASSUME FramingType, OnceInv, NEW n, Takes(n)
    PROVE  /\ 1 \in 1..Len(wire) /\ wire[1] \in Cells
           /\ got # << >> => got[1] \in Cells
           /\ \A i \in 1..Len(wire') : \E j \in 1..Len(wire) : wire'[i] = wire[j]
           /\ \A i \in 1..Len(wire') : /\ wire'[i] # wire[1]
                                       /\ got # << >> => wire'[i] # got[1]
           /\ got' # << >> => got'[1] = IF got = << >> THEN wire[1] ELSE got[1]
<1>1. n \in Nat \ {0} /\ n <= Len(wire) /\ Len(wire) \in Nat
      /\ wire \in Seq(Cells) /\ got \in Seq(Cells)
  BY DEF Takes, FramingType
<1>2. /\ Len(wire') = Len(wire) - n
      /\ \A i \in 1..(Len(wire) - n) : wire'[i] = wire[n + i]
  BY <1>1, ReadPiece DEF Takes, Receive
<1>3. \A i \in 1..Len(wire') :
         n + i \in 1..Len(wire) /\ n + i # 1 /\ wire'[i] = wire[n + i]
  BY <1>1, <1>2
<1>4. 1 \in 1..Len(wire) /\ wire[1] \in Cells
  BY <1>1
<1>5. got # << >> => got[1] \in Cells
  <2>1. got # << >> => 1 \in 1..Len(got)
    BY <1>1, EmptySeq
  <2> QED
    BY <1>1, <2>1
<1>6. \A i \in 1..Len(wire') : wire'[i] # wire[1]
  BY <1>3, <1>4 DEF OnceInv
<1>7. ASSUME got' # << >>
      PROVE  got'[1] = IF got = << >> THEN wire[1] ELSE got[1]
  <2>1. CASE got' = got
    BY <1>7, <2>1
  <2>2. CASE got' = got \o SubSeq(wire, 1, n)
    BY <1>1, <2>2, FirstTaken
  <2> QED
    BY <1>7, <2>1, <2>2 DEF Takes
<1> QED
  BY <1>3, <1>4, <1>5, <1>6, <1>7 DEF OnceInv

LEMMA GoneStep ==
    ASSUME FramingType, OutInv, OnceInv, [Next]_vars, NEW c \in Cells, Gone(c)
    PROVE  GoneNext(c)
<1>0. PassedNext(c) /\ Len(wire) \in Nat
  BY PassedStep DEF Gone, FramingType
<1>1. CASE UNCHANGED wire /\ got' \in {got, << >>}
  BY <1>0, <1>1 DEF Gone, GoneNext
<1>2. ASSUME NEW w \in Writers, SendPart(w)
      PROVE  GoneNext(c)
  <2>1. PICK n \in Nat \ {0} :
           /\ Len(wire') = Len(wire) + n
           /\ \A i \in 1..Len(wire) : wire'[i] = wire[i]
           /\ \A i \in 1..n : ~Passed(wire'[Len(wire) + i])
    BY <1>2, SendCells
  <2>2. ASSUME NEW i \in 1..Len(wire')
        PROVE  wire'[i] # c
    <3>1. CASE i \in 1..Len(wire)
      BY <2>1, <3>1 DEF Gone
    <3>2. CASE i \notin 1..Len(wire)
      <4>1. i - Len(wire) \in 1..n /\ Len(wire) + (i - Len(wire)) = i
        BY <1>0, <2>1, <3>2
      <4> QED
        BY <2>1, <4>1 DEF Gone
    <3> QED
      BY <3>1, <3>2
  <2>3. got' = got
    BY <1>2 DEF SendPart, readerVars
  <2> QED
    BY <1>0, <2>2, <2>3 DEF Gone, GoneNext
<1>3. CASE Dump \/ ReadHeader \/ ReadPayload
  <2>1. PICK n : Takes(n)
    BY <1>3, ReadTakes
  <2>2. /\ 1 \in 1..Len(wire)
        /\ \A i \in 1..Len(wire') : \E j \in 1..Len(wire) : wire'[i] = wire[j]
        /\ got' # << >> => got'[1] = IF got = << >> THEN wire[1] ELSE got[1]
    BY <2>1, TakeLeaves
  <2> QED
    BY <1>0, <2>2 DEF Gone, GoneNext
<1>4. (\E w \in Writers : (\E m \in Messages : SendMsg(w, m)) \/ SendFails(w))
      \/ Close \/ PeekHeader \/ EndOfStream \/ RecvFails \/ Stop \/ UNCHANGED vars
      => UNCHANGED wire /\ got' \in {got, << >>}
  BY DEF SendMsg, SendFails, Close, PeekHeader, EndOfStream, RecvFails, Stop, vars,
         writerVars, readerVars
<1>5. CASE Break
  <2>1. /\ got' = got
        /\ \A i \in 1..Len(wire') : i \in 1..Len(wire) /\ wire'[i] = wire[i]
    BY <1>5, BreakKeeps
  <2> QED
    BY <1>0, <2>1 DEF Gone, GoneNext
<1> QED
  BY <1>1, <1>2, <1>3, <1>4, <1>5 DEF Next, Send, Read

LEMMA SentGrows ==
    ASSUME FramingType, OutInv, [Next]_vars
    PROVE  /\ UNCHANGED sent \/ \E m \in Messages : sent' = Append(sent, m)
           /\ \A k \in Places : k \in DOMAIN sent' /\ sent'[k] = sent[k]
<1>1. ASSUME NEW w \in Writers, SendPart(w)
      PROVE  /\ UNCHANGED sent \/ \E m \in Messages : sent' = Append(sent, m)
             /\ \A k \in Places : k \in DOMAIN sent' /\ sent'[k] = sent[k]
  BY <1>1, SendPartFacts, CellsAreCells
<1>2. CASE UNCHANGED sent
  BY <1>2 DEF Places
<1>3. [Next]_vars => UNCHANGED sent \/ \E w \in Writers : SendPart(w)
  BY DEF Next, Send, Read, SendMsg, SendFails, Close, Break, PeekHeader, Dump,
         ReadHeader, ReadPayload, EndOfStream, RecvFails, Stop, vars, writerVars,
         readerVars
<1> QED
  BY <1>1, <1>2, <1>3

\* A message is handed over when the first cell of its payload is taken for good.
LEMMA HandedOver ==
    ASSUME FramingType, OutInv, OnceInv, [Next]_vars
    PROVE  \/ UNCHANGED delivered
           \/ \E p \in Places :
                 /\ ReadPayload /\ delivered' = Append(delivered, p)
                 /\ ~Gone(First(sent[p])) /\ GoneNext(First(sent[p]))
<1>1. CASE ReadPayload
  <2>1. PICK n \in 1..Least(need - Len(got), Len(wire)) :
           /\ Receive(n)
           /\ \/ UNCHANGED delivered
              \/ HandOver(got \o SubSeq(wire, 1, n)) /\ got' = << >>
    BY <1>1 DEF ReadPayload
  <2>2. n \in Nat \ {0} /\ n <= Len(wire)
    <3>1. Len(wire) \in Nat /\ Len(got) \in Nat /\ need \in Nat
      BY DEF FramingType
    <3> QED
      BY <2>1, <3>1, LeastFacts
  <2>3. CASE HandOver(got \o SubSeq(wire, 1, n)) /\ got' = << >>
    <3> DEFINE payload == got \o SubSeq(wire, 1, n)
               first == IF got = << >> THEN wire[1] ELSE got[1]
    <3>1. payload[1] = first
      BY <2>2, FirstTaken
    <3>2. \/ UNCHANGED delivered
          \/ \E p \in Places : delivered' = Append(delivered, p)
                               /\ payload[1] = First(sent[p])
      BY <2>3, HandOverFacts
    <3>3. Takes(n)
      BY <2>1, <2>2, <2>3 DEF Takes
    <3>4. /\ 1 \in 1..Len(wire) /\ first \in Cells /\ Passed(first)
          /\ \A i \in 1..Len(wire') : wire'[i] # first
      BY <3>3, TakeLeaves DEF OnceInv
    <3>5. PassedNext(first)
      BY <3>4, PassedStep
    <3>6. ~Gone(first) /\ GoneNext(first)
      BY <2>3, <3>4, <3>5 DEF Gone, GoneNext
    <3> HIDE DEF payload, first
    <3> QED
      BY <1>1, <3>1, <3>2, <3>6
  <2> QED
    BY <2>1, <2>3
<1>2. [Next]_vars => UNCHANGED delivered \/ ReadPayload
  BY DEF Next, Send, Read, SendMsg, SendPart, SendFails, Close, Break, PeekHeader,
         Dump, ReadHeader, EndOfStream, RecvFails, Stop, vars, writerVars, readerVars
<1> QED
  BY <1>1, <1>2

LEMMA DeliveredStep ==
    FramingType /\ OutInv /\ OnceInv /\ DeliveredInv /\ [Next]_vars => DeliveredInv'
<1> SUFFICES ASSUME FramingType, OutInv, OnceInv, DeliveredInv, [Next]_vars
             PROVE  DeliveredInv'
  OBVIOUS
<1>1. sent \in Seq(Messages) /\ delivered \in Seq(Nat)
      /\ \A k \in Places : sent[k] \in Messages /\ First(sent[k]) \in Cells
  BY PayloadFacts DEF FramingType, Places
<1>2. \A k \in Places : k \in DOMAIN sent' /\ sent'[k] = sent[k]
  BY SentGrows
<1>3. ASSUME NEW k \in Places, GoneNext(First(sent[k]))
      PROVE  (k \in Places /\ Gone(First(sent[k])))'
  BY <1>2, <1>3 DEF Places, First, Gone, GoneNext, Passed, PassedNext, Cell
<1>4. ASSUME NEW d \in DOMAIN delivered
      PROVE  (delivered[d] \in Places) /\ GoneNext(First(sent[delivered[d]]))
  BY <1>1, GoneStep DEF DeliveredInv
<1>5. CASE UNCHANGED delivered
  <2>1. ASSUME NEW d \in DOMAIN delivered'
        PROVE  (delivered[d] \in Places /\ Gone(First(sent[delivered[d]])))'
    <3>1. d \in DOMAIN delivered /\ delivered'[d] = delivered[d]
      BY <1>5
    <3> DEFINE k == delivered[d]
    <3>2. k \in Places /\ GoneNext(First(sent[k])) /\ k' = k
      BY <1>4, <3>1
    <3> QED
      BY <1>2, <3>2 DEF Places, First, Gone, GoneNext, Passed, PassedNext, Cell
  <2> QED
    BY <2>1 DEF DeliveredInv
<1>6. ASSUME NEW p \in Places, delivered' = Append(delivered, p),
             GoneNext(First(sent[p]))
      PROVE  DeliveredInv'
  <2>1. ASSUME NEW d \in DOMAIN delivered'
        PROVE  (delivered[d] \in Places /\ Gone(First(sent[delivered[d]])))'
    <3> DEFINE k == delivered[d]
    <3>1. k' \in Places /\ GoneNext(First(sent[k']))
      <4>1. CASE d \in DOMAIN delivered
        BY <1>1, <1>4, <1>6, <4>1
      <4>2. CASE d \notin DOMAIN delivered
        <5>1. k' = p
          BY <1>1, <1>6, <4>2
        <5> QED
          BY <1>6, <5>1
      <4> QED
        BY <4>1, <4>2
    <3> QED
      BY <1>2, <3>1 DEF Places, First, Gone, GoneNext, Passed, PassedNext, Cell
  <2> QED
    BY <2>1 DEF DeliveredInv
<1> QED
  BY <1>5, <1>6, HandedOver

---------------------------------------------------------------------------
(* The sound stream *)

LEMMA TailFacts ==
    ASSUME FramingType
    PROVE  /\ \A t \in Tails : t \in Seq(Cells) /\ wire \o t \in Seq(Cells)
           /\ \E t \in Tails : TRUE
           /\ Begun = {} => Tails = {lost}
<1>1. out \in [Writers -> Seq(Cells)] /\ wire \in Seq(Cells)
  BY DEF FramingType
<1>2. \A w \in Begun : out[w] \in Seq(Cells)
  BY <1>1 DEF Begun
<1>3. lost \in Seq(Cells)
  BY DEF FramingType
<1>4. \A t \in Tails : t \in Seq(Cells)
  BY <1>2, <1>3 DEF Tails
<1>5. \A t \in Tails : wire \o t \in Seq(Cells)
  BY <1>1, <1>4, ConcatProperties
<1> QED
  BY <1>4, <1>5 DEF Tails

\* A writer that begins no frame and goes on with none changes no tail.
LEMMA SameTails ==
    ASSUME lost' = lost,
           \A w \in Writers : /\ MidFrame(w)' = MidFrame(w)
                              /\ MidFrame(w) => out'[w] = out[w]
    PROVE  Begun' = Begun /\ Tails' = Tails
<1>1. Begun' = Begun
  BY DEF Begun
<1>2. \A w \in Begun : out'[w] = out[w]
  BY DEF Begun
<1> QED
  BY <1>1, <1>2 DEF Tails

\* While the reader is within a frame, that frame was sent.
LEMMA DueSent ==
    ASSUME FramingType, Follows, \/ pc = "header" /\ got # << >>
                                 \/ pc = "payload"
    PROVE  Due \in Places
<1>1. PICK t \in Tails : TRUE
  BY TailFacts
<1>2. Misses(t) \/ Starts(wire \o t, sent, Due, Awaited)
  BY <1>1 DEF Follows
<1>3. got \in Seq(Cells) /\ Len(got) \in Nat /\ HeaderSize \in Nat /\ HeaderSize >= 2
  BY FramingAssumption DEF FramingType
<1>4. got # << >> => Len(got) # 0
  BY <1>3, EmptySeq
<1>5. Awaited # 1
  BY <1>3, <1>4 DEF Awaited
<1> QED
  BY <1>2, <1>5 DEF Starts, Misses, Places

\* A step of the writers is none of the reader's.
LEMMA ReaderKept ==
    ASSUME FramingType, Sound, UNCHANGED <<pc, got, need, delivered>>,
           \A k \in Places : sent'[k] = sent[k]
    PROVE  Reads' /\ InPlace' /\ Awaited' = Awaited /\ Due' = Due
<1>1. Due' = Due /\ Awaited' = Awaited /\ InPlace'
  BY DEF Due, Awaited, Sound, InPlace
<1>0. pc' = pc /\ got' = got /\ need' = need /\ Reads
  BY DEF Sound
<1>2. CASE pc = "peek"
  BY <1>0, <1>1, <1>2 DEF Reads
<1>3. CASE pc = "header"
  <2>1. CASE got = << >>
    <3>1. Len(got') = 0
      BY <1>0, <2>1
    <3>2. \A i \in 1..Len(got') : FALSE
      BY <3>1
    <3>3. Len(got') < HeaderSize
      BY <3>1, FramingAssumption
    <3> QED
      BY <1>0, <1>1, <1>3, <3>2, <3>3 DEF Reads
  <2>2. CASE got # << >>
    <3>1. sent'[Due] = sent[Due]
      BY <1>3, <2>2, DueSent DEF Sound
    <3> QED
      BY <1>0, <1>1, <1>3, <3>1 DEF Reads
  <2> QED
    BY <2>1, <2>2
<1>4. CASE pc = "payload"
  <2>1. sent'[Due] = sent[Due]
    BY <1>4, DueSent DEF Sound
  <2> QED
    BY <1>0, <1>1, <1>4, <2>1 DEF Reads
<1> QED
  BY <1>1, <1>2, <1>3, <1>4 DEF FramingType

\* A step that touches neither frames that were begun nor the reader.
LEMMA StillSound ==
    ASSUME FramingType, Sound,
           UNCHANGED <<pc, got, need, delivered, wire, sent, broken, lost>>,
           \A w \in Writers : /\ MidFrame(w)' = MidFrame(w)
                              /\ MidFrame(w) => out'[w] = out[w],
           closed' => closed \/ Begun = {}
    PROVE  Sound'
<1>1. Reads' /\ InPlace' /\ Awaited' = Awaited /\ Due' = Due
  BY ReaderKept
<1>2. Begun' = Begun /\ Tails' = Tails
  BY SameTails
<1>3. Follows'
  BY <1>1, <1>2 DEF Sound, Follows, Ended, Misses, Places
<1>4. OneBegun'
  BY <1>2 DEF Sound, OneBegun
<1> QED
  BY <1>1, <1>3, <1>4 DEF Sound

\* The reader that awaits what comes next misses it when it is lost.
LEMMA FollowsNext ==
    ASSUME \A t \in Tails' : /\ t \in Seq(Cells)
                             /\ Chain(wire' \o t, sent')
                             /\ Starts(wire' \o t, sent', Due', Awaited')
    PROVE  Follows'
<1>1. ASSUME NEW t \in Tails', Ended'
      PROVE  Misses(t)'
  <2>1. wire' \o t = t
    BY <1>1, ConcatEmptySeq DEF Ended
  <2>2. Starts(t, sent', Due', Awaited')
    BY <1>1, <2>1
  <2>3. CASE t = << >>
    BY <2>2, <2>3 DEF Starts, Misses
  <2>4. CASE t # << >>
    BY <2>2, <2>4 DEF Starts, Misses, Places, Cell
  <2> QED
    BY <2>3, <2>4
<1> QED
  BY <1>1 DEF Follows

\* The connection breaks: what has not come is lost, and still follows.
LEMMA BreakSound ==
    ASSUME FramingType, Sound, Break, damage' = {}
    PROVE  Sound'
<1>1. PICK n \in 0..Len(wire) :
         wire' = SubSeq(wire, 1, n) /\ lost' = SubSeq(wire, n + 1, Len(wire))
  BY DEF Break
<1>2. /\ UNCHANGED <<pc, got, need, delivered, sent, out>>
      /\ Begun = {} /\ lost = << >> /\ wire \in Seq(Cells)
  BY DEF Break, readerVars, Begun, FramingType
<1>3. Reads' /\ InPlace' /\ Awaited' = Awaited /\ Due' = Due
  BY <1>2, ReaderKept
<1>4. Begun' = {}
  BY <1>2 DEF Begun, MidFrame
<1>5. Tails' = {lost'}
  BY <1>4 DEF Tails
<1>6. lost' \in Seq(Cells) /\ wire' \in Seq(Cells)
  BY <1>1, <1>2, TakeFacts, DropFacts
<1>7. wire' \o lost' = wire
  <2>1. << >> \in Seq(Cells)
    OBVIOUS
  <2>2. (<< >> \o wire') \o lost' = << >> \o wire
    BY <1>1, <1>2, <2>1, TakeDrop
  <2> QED
    BY <1>2, <1>6, <2>2, ConcatEmptySeq
<1>8. Chain(wire, sent) /\ Starts(wire, sent, Due, Awaited)
  <2>1. Tails = {<< >>} /\ wire \o << >> = wire
    BY <1>2, TailFacts, ConcatEmptySeq
  <2>2. ~Ended
    BY DEF Ended, Break
  <2> QED
    BY <2>1, <2>2 DEF Sound, Follows
<1>9. Follows'
  BY <1>2, <1>3, <1>5, <1>6, <1>7, <1>8, FollowsNext
<1>10. OneBegun'
  BY <1>4 DEF OneBegun, Begun
<1> QED
  BY <1>3, <1>9, <1>10 DEF Sound

\* A reader whose recv fails gives up the frame it is in.
LEMMA FailsSound ==
    ASSUME FramingType, Sound, RecvFails
    PROVE  Sound'
<1>1. UNCHANGED <<wire, out, sent, delivered, closed, broken, lost>>
  BY DEF RecvFails, writerVars
<1>2. \A v \in Writers : /\ MidFrame(v)' = MidFrame(v)
                         /\ MidFrame(v) => out'[v] = out[v]
  BY <1>1 DEF MidFrame
<1>3. CASE UNCHANGED <<pc, got, need>>
  BY <1>1, <1>2, <1>3, StillSound
<1>4. CASE pc' = "peek" /\ got' = << >>
  <2>1. Begun' = Begun /\ Tails' = Tails
    BY <1>1, <1>2, SameTails
  <2>2. Due' = Due /\ InPlace' /\ OneBegun'
    BY <1>1, <1>2, <2>1 DEF Due, InPlace, OneBegun, Sound
  <2>3. Awaited' = 1 /\ Reads'
    BY <1>4 DEF Awaited, Reads
  <2>4. Ended /\ Ended'
    BY <1>1 DEF RecvFails, Ended
  <2>5. \A t \in Tails : Chain(wire \o t, sent) /\ Misses(t)
    BY <2>4 DEF Sound, Follows
  <2>6. \A t \in Tails : Misses(t)'
    BY <1>1, <2>2, <2>3, <2>5 DEF Misses, Places
  <2> QED
    BY <1>1, <2>1, <2>2, <2>3, <2>4, <2>5, <2>6 DEF Sound, Follows
<1> QED
  BY <1>3, <1>4 DEF RecvFails

\* SendPart keeps what follows, or appends the frame it begins.
LEMMA SendSound ==
    ASSUME FramingType, OutInv, [Next]_vars, NEW w \in Writers, SendPart(w), Sound,
           damage' = {}
    PROVE  Sound'
<1> DEFINE x == NextOut(w)
<1>1. /\ x \in Cells /\ out[w] # << >>
      /\ \A v \in Writers \ {w} : out'[v] = out[v]
      /\ \A k \in Places : k \in DOMAIN sent' /\ sent'[k] = sent[k]
      /\ x.at = 1 => sent' = Append(sent, x.msg) /\ x.msg \notin ToSet(sent)
      /\ x.at # 1 => sent' = sent /\ x.msg \in ToSet(sent)
  BY SendPartFacts
<1>2. PICK n \in Nat \ {0} :
         /\ n \in 1..Len(out[w]) /\ out[w] \in Seq(Cells)
         /\ wire' = wire \o SubSeq(out[w], 1, n)
         /\ out' = [out EXCEPT ![w] = SubSeq(@, n + 1, Len(@))]
  BY SendPiece
<1>3. /\ wire \in Seq(Cells) /\ out \in [Writers -> Seq(Cells)]
      /\ sent \in Seq(Messages) /\ n \in 0..Len(out[w])
  BY <1>2 DEF FramingType
<1> DEFINE rest == SubSeq(out[w], n + 1, Len(out[w]))
<1>4. out'[w] = rest
  BY <1>2, <1>3
<1>5. wire' \o rest = wire \o out[w]
  BY <1>2, <1>3, TakeDrop
<1> HIDE DEF rest
<1>6. \A v \in Writers \ {w} : ~MidFrame(v) /\ ~MidFrame(v)'
  <2>1. \A v \in Writers \ {w} : ~MidFrame(v)
    BY DEF SendPart
  <2> QED
    BY <1>1, <2>1 DEF MidFrame
<1>7. rest # << >> => MidFrame(w)'
  <2>1. PICK k \in 1..Len(out[w]) :
           /\ Len(out'[w]) = Len(out[w]) - k
           /\ \A i \in 1..(Len(out[w]) - k) :
                 out'[w][i] = Cell(NextOut(w).msg, NextOut(w).at + k + i - 1)
    BY SendPartFacts
  <2>2. ASSUME rest # << >>
        PROVE  MidFrame(w)'
    <3>1. FramingType'
      BY TypeStep
    <3>2. Len(out'[w]) \in Nat \ {0} /\ Len(out[w]) \in Nat
      BY <1>3, <1>4, <2>2, <3>1, EmptySeq DEF FramingType
    <3>3. 1 \in 1..(Len(out[w]) - k) /\ k \in Nat \ {0}
      BY <2>1, <3>2
    <3>4. x.msg \in Messages /\ x.at \in Nat \ {0}
      BY <1>1, CellsAreCells
    <3> HIDE DEF x
    <3>5. out'[w][1] = Cell(x.msg, x.at + k + 1 - 1)
      BY <2>1, <3>3 DEF x
    <3>6. x.at + k + 1 - 1 = x.at + k /\ x.at + k \in Nat \ {0} /\ x.at + k > 1
      BY <3>3, <3>4
    <3>7. out'[w][1].at > 1
      BY <3>4, <3>5, <3>6, CellFacts
    <3> QED
      BY <1>4, <2>2, <3>7 DEF MidFrame
  <2> QED
    BY <2>2
<1>8. rest = << >> => ~MidFrame(w)'
  BY <1>4 DEF MidFrame
<1>9. Tails' = {rest}
  <2>0. lost' = << >>
    BY DEF SendPart, FramingType
  <2>1. CASE rest = << >>
    <3>1. Begun' = {}
      BY <1>6, <1>8, <2>1 DEF Begun
    <3> QED
      BY <2>0, <2>1, <3>1 DEF Tails
  <2>2. CASE rest # << >>
    <3>1. Begun' = {w}
      BY <1>6, <1>7, <2>2 DEF Begun
    <3> QED
      BY <1>4, <3>1 DEF Tails
  <2> QED
    BY <2>1, <2>2
<1>10. /\ UNCHANGED <<pc, got, need, delivered, closed, broken>> /\ ~closed
       /\ lost = << >> /\ ~Ended /\ ~Ended'
  BY DEF SendPart, readerVars, FramingType, Ended
<1>11. Reads' /\ InPlace' /\ Awaited' = Awaited /\ Due' = Due
  BY <1>1, <1>10, ReaderKept
<1>12. OneBegun'
  BY <1>6, <1>10 DEF OneBegun
<1>13. Chain(wire \o out[w], sent') /\ Starts(wire \o out[w], sent', Due, Awaited)
  <2>1. CASE MidFrame(w)
    <3>1. Begun = {w} /\ x.at # 1
      BY <1>6, <2>1 DEF Begun, MidFrame, NextOut
    <3>2. Tails = {out[w]}
      BY <3>1 DEF Tails
    <3> QED
      BY <1>1, <1>10, <3>1, <3>2 DEF Sound, Follows
  <2>2. CASE ~MidFrame(w)
    <3>1. Begun = {}
      BY <1>6, <2>2 DEF Begun
    <3>2. wire \o << >> = wire /\ Tails = {<< >>}
      BY <1>3, <1>10, <3>1, TailFacts, ConcatEmptySeq
    <3>3. Chain(wire, sent) /\ Starts(wire, sent, Due, Awaited)
      BY <1>10, <3>2 DEF Sound, Follows
    <3>4. x.at = 1 /\ x.msg \in Messages
      BY <1>1, <2>2, CellsAreCells DEF MidFrame, NextOut
    <3>5. out[w] = Frame(x.msg)
      <4>1. /\ Len(out[w]) = Total(x.msg) - 1 + 1
            /\ \A i \in 1..Len(out[w]) : out[w][i] = Cell(x.msg, 1 + i - 1)
        BY <1>1, <3>4 DEF OutInv, NextOut
      <4>2. /\ Frame(x.msg) \in Seq(Cells) /\ Len(Frame(x.msg)) = Total(x.msg)
            /\ \A i \in 1..Total(x.msg) : Frame(x.msg)[i] = Cell(x.msg, i)
            /\ Total(x.msg) \in Nat
        BY <3>4, FrameFacts
      <4>3. Len(out[w]) = Total(x.msg)
        BY <4>1, <4>2
      <4>4. ASSUME NEW i \in 1..Len(out[w])
            PROVE  out[w][i] = Frame(x.msg)[i]
        <5>1. 1 + i - 1 = i
          OBVIOUS
        <5> QED
          BY <4>1, <4>2, <4>3, <5>1
      <4> QED
        BY <1>2, <4>2, <4>3, <4>4, SeqEqual
    <3>6. sent' = Append(sent, x.msg)
      BY <1>1, <3>4
    <3>7. Due \in Nat /\ Awaited \in Nat
      <4>1. /\ delivered \in Seq(Nat) /\ got \in Seq(Cells)
            /\ pc \in {"peek", "header", "payload"} /\ HeaderSize \in Nat
        BY FramingAssumption DEF FramingType
      <4>2. Len(got) \in Nat /\ Len(delivered) \in Nat
        BY <4>1
      <4> QED
        BY <4>1, <4>2 DEF Due, Awaited
    <3> QED
      BY <1>3, <3>3, <3>4, <3>5, <3>6, <3>7, ChainAppend, StartsAppend
  <2> QED
    BY <2>1, <2>2
<1>14. Follows'
  BY <1>5, <1>9, <1>10, <1>11, <1>13 DEF Follows
<1> QED
  BY <1>11, <1>12, <1>14 DEF Sound

LEMMA DueFacts ==
    ASSUME FramingType
    PROVE  /\ Due \in Nat \ {0} /\ Awaited \in Nat \ {0}
           /\ Len(wire) \in Nat /\ Len(got) \in Nat /\ Len(delivered) \in Nat
           /\ wire \in Seq(Cells) /\ got \in Seq(Cells) /\ sent \in Seq(Messages)
           /\ Places = 1..Len(sent) /\ Places = DOMAIN sent
<1>1. /\ delivered \in Seq(Nat) /\ got \in Seq(Cells) /\ wire \in Seq(Cells)
      /\ sent \in Seq(Messages)
      /\ pc \in {"peek", "header", "payload"} /\ HeaderSize \in Nat
  BY FramingAssumption DEF FramingType
<1>2. Len(got) \in Nat /\ Len(delivered) \in Nat /\ Len(wire) \in Nat
  BY <1>1
<1> QED
  BY <1>1, <1>2 DEF Due, Awaited, Places

\* The stream after n of its cells were taken.
LEMMA TakenFollows ==
    ASSUME FramingType, OutInv, Sound, NEW n \in Nat \ {0}, n <= Len(wire),
           Receive(n), UNCHANGED <<out, sent, lost>>,
           NEW m, m = sent[Due]
    PROVE  /\ Due \in Places /\ m \in Messages
           /\ \A t \in Tails' : t \in Seq(Cells)
           /\ \A j \in 1..n : Awaited + j - 1 <= Total(m) =>
                 wire[j] = Cell(m, Awaited + j - 1)
           /\ Awaited + n <= Total(m) =>
                 \A t \in Tails' : /\ Chain(wire' \o t, sent')
                                   /\ Starts(wire' \o t, sent', Due, Awaited + n)
           /\ Awaited + n = Total(m) + 1 =>
                 \A t \in Tails' : /\ Chain(wire' \o t, sent')
                                   /\ Starts(wire' \o t, sent', Due + 1, 1)
<1> DEFINE r == Awaited
           p == Due
<1>1. /\ p \in Nat \ {0} /\ r \in Nat \ {0} /\ Len(wire) \in Nat
      /\ wire \in Seq(Cells) /\ sent \in Seq(Messages) /\ Places = DOMAIN sent
  BY DueFacts
<1>2. Injective(sent)
  BY DEF OutInv, Injective, Places
<1>3. Tails' = Tails
  BY DEF Tails, Begun, MidFrame
<1>4. ASSUME NEW t \in Tails
      PROVE  /\ wire \o t \in Seq(Cells) /\ t \in Seq(Cells)
             /\ n \in 1..Len(wire \o t) /\ wire \o t # << >>
             /\ \A j \in 1..n : (wire \o t)[j] = wire[j]
             /\ Chain(wire \o t, sent) /\ Starts(wire \o t, sent, p, r)
             /\ wire' \o t = SubSeq(wire \o t, n + 1, Len(wire \o t))
  <2>1. t \in Seq(Cells) /\ wire \o t \in Seq(Cells)
    BY TailFacts
  <2>2. /\ Len(wire \o t) = Len(wire) + Len(t) /\ Len(t) \in Nat
        /\ \A i \in 1..(Len(wire) + Len(t)) :
              (wire \o t)[i] = IF i <= Len(wire) THEN wire[i] ELSE t[i - Len(wire)]
    BY <1>1, <2>1, ConcatProperties
  <2>3. n \in 1..Len(wire \o t) /\ \A j \in 1..n : (wire \o t)[j] = wire[j]
    BY <1>1, <2>2
  <2>4. wire \o t # << >>
    BY <2>1, <2>3, EmptySeq
  <2>5. Chain(wire \o t, sent) /\ Starts(wire \o t, sent, p, r)
    <3>1. wire # << >>
      BY <1>1
    <3> QED
      BY <3>1 DEF Sound, Follows, Ended
  <2>6. n \in 0..Len(wire)
    BY <1>1
  <2>7. wire' \o t = SubSeq(wire \o t, n + 1, Len(wire \o t))
    BY <1>1, <2>1, <2>6, DropConcat DEF Receive
  <2> QED
    BY <2>1, <2>3, <2>4, <2>5, <2>7
<1>0. m = sent[p]
  OBVIOUS
<1> HIDE DEF p, r
<1>5. PICK t \in Tails : TRUE
  BY TailFacts
<1>6. /\ p \in Places /\ m \in Messages /\ r <= Total(m)
      /\ Total(m) - r + 1 <= Len(wire \o t)
      /\ \A j \in 1..(Total(m) - r + 1) : (wire \o t)[j] = Cell(m, r + j - 1)
  <2> DEFINE s == wire \o t
  <2>1. s \in Seq(Cells) /\ s # << >> /\ Chain(s, sent) /\ Starts(s, sent, p, r)
    BY <1>4, <1>5
  <2> HIDE DEF s
  <2>2. /\ p \in DOMAIN sent /\ m \in Messages
        /\ r <= Total(m) /\ Total(m) - r + 1 <= Len(s)
        /\ \A j \in 1..(Total(m) - r + 1) : s[j] = Cell(m, r + j - 1)
    BY <1>0, <1>1, <1>2, <2>1, ChainHead
  <2> QED
    BY <1>1, <2>2 DEF s
<1>7. ASSUME NEW j \in 1..n, r + j - 1 <= Total(m)
      PROVE  wire[j] = Cell(m, r + j - 1)
  <2>1. Total(m) \in Nat
    BY <1>6, FrameFacts
  <2>2. j \in 1..(Total(m) - r + 1)
    BY <1>1, <1>7, <2>1
  <2> QED
    BY <1>4, <1>5, <1>6, <2>2
<1>8. ASSUME r + n <= Total(m), NEW u \in Tails
      PROVE  Chain(wire' \o u, sent) /\ Starts(wire' \o u, sent, p, r + n)
  <2>1. n \in 0..Len(wire \o u)
    BY <1>4
  <2>2. Chain(wire' \o u, sent)
    BY <1>1, <1>4, <2>1, ChainDrop
  <2>3. Starts(wire' \o u, sent, p, r + n)
    BY <1>0, <1>1, <1>2, <1>4, <1>8, StartsWithin
  <2> QED
    BY <2>2, <2>3
<1>9. ASSUME r + n = Total(m) + 1, NEW u \in Tails
      PROVE  Chain(wire' \o u, sent) /\ Starts(wire' \o u, sent, p + 1, 1)
  <2>1. n \in 0..Len(wire \o u)
    BY <1>4
  <2>2. Chain(wire' \o u, sent)
    BY <1>1, <1>4, <2>1, ChainDrop
  <2>3. Starts(wire' \o u, sent, p + 1, 1)
    BY <1>0, <1>1, <1>2, <1>4, <1>9, StartsAfter
  <2> QED
    BY <2>2, <2>3
<1> QED
  BY <1>3, <1>4, <1>6, <1>7, <1>8, <1>9 DEF p, r

\* No frame of a sound stream is dumped.
LEMMA NoDump ==
    ASSUME FramingType, OutInv, Sound, Dump, damage' = {}
    PROVE  FALSE
<1>1. PICK n \in 1..Least(DumpSize, Len(wire)) :
         /\ Receive(n)
         /\ damage' = IF \E i \in 1..n : wire[i].at = 1
                      THEN damage \cup {"missed"} ELSE damage
  BY DEF Dump
<1>2. n \in Nat \ {0} /\ n <= Len(wire)
  <2>1. DumpSize \in Int /\ Len(wire) \in Int
    BY DueFacts, FramingAssumption
  <2> QED
    BY <1>1, <2>1, LeastFacts
<1>3. UNCHANGED <<out, sent, lost>> /\ Awaited = 1
  BY DEF Dump, writerVars, Awaited
<1> DEFINE m == sent[Due]
<1>4. /\ m \in Messages
      /\ \A j \in 1..n : 1 + j - 1 <= Total(m) => wire[j] = Cell(m, 1 + j - 1)
  BY <1>1, <1>2, <1>3, TakenFollows
<1>5. 1 \in 1..n /\ 1 <= Total(m)
  BY <1>2, <1>4, FrameFacts
<1>6. wire[1] = Cell(m, 1)
  BY <1>4, <1>5
<1>7. wire[1].at = 1
  BY <1>4, <1>6, CellFacts
<1> QED
  BY <1>1, <1>5, <1>7

LEMMA PeekSound ==
    ASSUME FramingType, Sound, PeekHeader
    PROVE  Sound'
<1>1. /\ UNCHANGED <<out, sent, wire, closed, broken, lost, delivered>>
      /\ pc = "peek" /\ pc' = "header" /\ got' = << >>
  BY DEF PeekHeader, writerVars
<1>2. Len(got') = 0
  BY <1>1
<1>3. Awaited = 1 /\ Awaited' = 1 /\ Due' = Due
  BY <1>1, <1>2 DEF Awaited, Due
<1>4. Tails' = Tails /\ Begun' = Begun
  BY <1>1 DEF Tails, Begun, MidFrame
<1>5. Follows'
  BY <1>1, <1>3, <1>4 DEF Sound, Follows, Ended, Misses, Places
<1>6. OneBegun' /\ InPlace'
  BY <1>1, <1>4 DEF Sound, OneBegun, InPlace, MidFrame
<1>7. Reads'
  <2>1. \A i \in 1..Len(got') : FALSE
    BY <1>2
  <2>2. Len(got') < HeaderSize
    BY <1>2, FramingAssumption
  <2> QED
    BY <1>1, <2>1, <2>2 DEF Reads
<1> QED
  BY <1>5, <1>6, <1>7 DEF Sound

LEMMA HeaderSound ==
    ASSUME FramingType, OutInv, Sound, ReadHeader
    PROVE  Sound'
<1>1. /\ UNCHANGED <<out, sent, closed, lost, delivered>> /\ pc = "header"
      /\ Len(got) < HeaderSize /\ \A i \in 1..Len(got) : got[i] = Cell(sent[Due], i)
  BY DEF ReadHeader, writerVars, Sound, Reads
<1>2. PICK n \in 1..Least(HeaderSize - Len(got), Len(wire)) :
         LET header == got \o SubSeq(wire, 1, n) IN
         /\ Receive(n)
         /\ IF Len(header) < HeaderSize
            THEN got' = header /\ UNCHANGED <<pc, need>>
            ELSE \E length \in LengthIn(header) :
                    /\ got' = << >> /\ need' = length
                    /\ pc' = IF length = 0 THEN "peek" ELSE "payload"
  BY DEF ReadHeader
<1>3. /\ n \in Nat \ {0} /\ n <= HeaderSize - Len(got) /\ n <= Len(wire)
      /\ Len(got) \in Nat /\ HeaderSize \in Nat /\ HeaderSize >= 2
  <2>1. /\ HeaderSize \in Nat /\ HeaderSize >= 2 /\ Len(wire) \in Nat
        /\ Len(got) \in Nat
    BY DueFacts, FramingAssumption
  <2>2. HeaderSize - Len(got) \in Int /\ Len(wire) \in Int
    BY <2>1
  <2>3. n \in Nat \ {0} /\ n <= HeaderSize - Len(got) /\ n <= Len(wire)
    BY <1>2, <2>2, LeastFacts
  <2> QED
    BY <2>1, <2>3
<1> DEFINE g == got \o SubSeq(wire, 1, n)
           m == sent[Due]
<1>4. Awaited = Len(got) + 1
  BY <1>1 DEF Awaited
<1>5. /\ m \in Messages /\ \A t \in Tails' : t \in Seq(Cells)
      /\ \A j \in 1..n :
            Awaited + j - 1 <= Total(m) => wire[j] = Cell(m, Awaited + j - 1)
      /\ Awaited + n <= Total(m) =>
            \A t \in Tails' : /\ Chain(wire' \o t, sent')
                              /\ Starts(wire' \o t, sent', Due, Awaited + n)
  BY <1>1, <1>2, <1>3, TakenFollows
<1>6. /\ Size[m] \in Nat \ {0} /\ Total(m) \in Nat /\ Total(m) > HeaderSize
      /\ Frame(m) \in Seq(Cells) /\ Len(Frame(m)) = Total(m)
      /\ \A i \in 1..Total(m) : Frame(m)[i] = Cell(m, i)
  BY <1>5, FrameFacts
<1>7. /\ g \in Seq(Cells) /\ Len(g) = Len(got) + n
      /\ \A i \in 1..Len(got) : g[i] = got[i]
      /\ \A i \in 1..n : g[Len(got) + i] = wire[i]
  BY <1>3, ReadPiece
<1>8. m = sent[Due]
  OBVIOUS
<1>9. /\ Receive(n)
      /\ IF Len(g) < HeaderSize
         THEN got' = g /\ UNCHANGED <<pc, need>>
         ELSE \E length \in LengthIn(g) :
                 /\ got' = << >> /\ need' = length
                 /\ pc' = IF length = 0 THEN "peek" ELSE "payload"
  BY <1>2
<1> HIDE DEF g, m
<1>10. Awaited + n <= Total(m)
  BY <1>3, <1>4, <1>6
<1>11. ASSUME NEW i \in 1..Len(g)
       PROVE  g[i] = Cell(m, i)
  <2>1. CASE i <= Len(got)
    BY <1>1, <1>3, <1>7, <1>8, <2>1
  <2>2. CASE ~(i <= Len(got))
    <3> DEFINE j == i - Len(got)
    <3>0. i \in 1..(Len(got) + n)
      BY <1>7
    <3>1. j \in 1..n /\ Len(got) + j = i /\ Awaited + j - 1 = i /\ i <= Total(m)
      BY <1>3, <1>4, <1>6, <2>2, <3>0
    <3> HIDE DEF j
    <3> QED
      BY <1>5, <1>7, <3>1
  <2> QED
    BY <2>1, <2>2
<1>12. Tails' = Tails /\ Begun' = Begun
  BY <1>1 DEF Tails, Begun, MidFrame
<1>13. OneBegun' /\ InPlace' /\ Due' = Due
  BY <1>1, <1>12 DEF Sound, OneBegun, InPlace, MidFrame, Due
<1>14. sent'[Due'] = m
  BY <1>1, <1>8, <1>13
<1>15. CASE Len(g) < HeaderSize
  <2>1. got' = g /\ pc' = "header"
    BY <1>1, <1>9, <1>15
  <2>2. Awaited' = Awaited + n
    <3>1. Awaited' = Len(got') + 1
      BY <2>1 DEF Awaited
    <3> QED
      BY <1>3, <1>4, <1>7, <2>1, <3>1
  <2>3. Follows'
    BY <1>5, <1>10, <1>13, <2>2, FollowsNext
  <2>4. Reads'
    BY <1>11, <1>14, <1>15, <2>1 DEF Reads
  <2> QED
    BY <1>13, <2>3, <2>4 DEF Sound
<1>16. CASE ~(Len(g) < HeaderSize)
  <2>1. Len(g) = HeaderSize
    BY <1>3, <1>7, <1>16
  <2>2. g = SubSeq(Frame(m), 1, HeaderSize)
    <3>1. HeaderSize \in 0..Len(Frame(m))
      BY <1>3, <1>6
    <3>2. /\ SubSeq(Frame(m), 1, HeaderSize) \in Seq(Cells)
          /\ Len(SubSeq(Frame(m), 1, HeaderSize)) = HeaderSize
          /\ \A i \in 1..HeaderSize : SubSeq(Frame(m), 1, HeaderSize)[i] = Frame(m)[i]
      BY <1>6, <3>1, TakeFacts
    <3>3. \A i \in 1..HeaderSize : Frame(m)[i] = Cell(m, i) /\ g[i] = Cell(m, i)
      BY <1>3, <1>6, <1>11, <2>1
    <3> DEFINE h == SubSeq(Frame(m), 1, HeaderSize)
    <3>4. h \in Seq(Cells) /\ Len(h) = Len(g) /\ \A i \in 1..Len(g) : g[i] = h[i]
      BY <2>1, <3>2, <3>3
    <3> HIDE DEF h
    <3>5. g = h
      BY <1>7, <3>4, SeqEqual
    <3> QED
      BY <3>5 DEF h
  <2>3. g[1].msg = m
    <3>1. g[1] = Cell(m, 1)
      BY <1>3, <1>11, <2>1
    <3> QED
      BY <1>5, <3>1, CellFacts
  <2>4. LengthIn(g) = {Size[m]}
    BY <1>5, <2>2, <2>3 DEF LengthIn
  <2>5. got' = << >> /\ need' = Size[m] /\ pc' = "payload"
    BY <1>6, <1>9, <1>16, <2>4
  <2>6. Len(got') = 0
    BY <2>5
  <2>7. Awaited' = Awaited + n
    <3>1. Awaited' = HeaderSize + Len(got') + 1
      BY <2>5 DEF Awaited
    <3> QED
      BY <1>3, <1>4, <1>7, <2>1, <2>6, <3>1
  <2>8. Follows'
    BY <1>5, <1>10, <1>13, <2>7, FollowsNext
  <2>9. \A i \in 1..Len(got') : FALSE
    BY <2>6
  <2>10. need' = Size'[sent'[Due']] /\ Len(got') < need'
    BY <1>6, <1>14, <2>5, <2>6
  <2>11. Reads'
    BY <2>5, <2>9, <2>10 DEF Reads
  <2> QED
    BY <1>13, <2>8, <2>11 DEF Sound
<1> QED
  BY <1>15, <1>16

LEMMA PayloadSound ==
    ASSUME FramingType, OutInv, Sound, ReadPayload
    PROVE  Sound'
<1>1. /\ UNCHANGED <<out, sent, closed, lost>> /\ pc = "payload"
      /\ need = Size[sent[Due]] /\ Len(got) < need
      /\ \A i \in 1..Len(got) : got[i] = Cell(sent[Due], HeaderSize + i)
  BY DEF ReadPayload, writerVars, Sound, Reads
<1>2. PICK n \in 1..Least(need - Len(got), Len(wire)) :
         LET payload == got \o SubSeq(wire, 1, n) IN
         /\ Receive(n)
         /\ IF Len(payload) < need
            THEN got' = payload /\ UNCHANGED <<pc, need, delivered>>
            ELSE /\ HandOver(payload)
                 /\ pc' = "peek" /\ got' = << >> /\ need' = 0
  BY DEF ReadPayload
<1>3. /\ n \in Nat \ {0} /\ n <= need - Len(got) /\ n <= Len(wire)
      /\ Len(got) \in Nat /\ HeaderSize \in Nat /\ need \in Nat
  <2>1. /\ HeaderSize \in Nat /\ Len(wire) \in Nat /\ Len(got) \in Nat /\ need \in Nat
    BY DueFacts, FramingAssumption DEF FramingType
  <2>2. need - Len(got) \in Int /\ Len(wire) \in Int
    BY <2>1
  <2>3. n \in Nat \ {0} /\ n <= need - Len(got) /\ n <= Len(wire)
    BY <1>2, <2>2, LeastFacts
  <2> QED
    BY <2>1, <2>3
<1> DEFINE g == got \o SubSeq(wire, 1, n)
           m == sent[Due]
<1>4. Awaited = HeaderSize + Len(got) + 1
  BY <1>1 DEF Awaited
<1>5. /\ m \in Messages /\ Due \in Places /\ \A t \in Tails' : t \in Seq(Cells)
      /\ \A j \in 1..n :
            Awaited + j - 1 <= Total(m) => wire[j] = Cell(m, Awaited + j - 1)
      /\ Awaited + n <= Total(m) =>
            \A t \in Tails' : /\ Chain(wire' \o t, sent')
                              /\ Starts(wire' \o t, sent', Due, Awaited + n)
      /\ Awaited + n = Total(m) + 1 =>
            \A t \in Tails' : /\ Chain(wire' \o t, sent')
                              /\ Starts(wire' \o t, sent', Due + 1, 1)
  BY <1>1, <1>2, <1>3, TakenFollows
<1>6. Total(m) = HeaderSize + need /\ Size[m] = need
  BY <1>1 DEF Total
<1>7. /\ g \in Seq(Cells) /\ Len(g) = Len(got) + n
      /\ \A i \in 1..Len(got) : g[i] = got[i]
      /\ \A i \in 1..n : g[Len(got) + i] = wire[i]
  BY <1>3, ReadPiece
<1>8. m = sent[Due]
  OBVIOUS
<1>9. /\ Receive(n)
      /\ IF Len(g) < need
         THEN got' = g /\ UNCHANGED <<pc, need, delivered>>
         ELSE /\ HandOver(g)
              /\ pc' = "peek" /\ got' = << >> /\ need' = 0
  BY <1>2
<1> HIDE DEF g, m
<1>10. ASSUME NEW i \in 1..Len(g)
       PROVE  g[i] = Cell(m, HeaderSize + i)
  <2>1. CASE i <= Len(got)
    BY <1>1, <1>3, <1>7, <1>8, <2>1
  <2>2. CASE ~(i <= Len(got))
    <3> DEFINE j == i - Len(got)
    <3>0. i \in 1..(Len(got) + n)
      BY <1>7
    <3>1. /\ j \in 1..n /\ Len(got) + j = i /\ Awaited + j - 1 = HeaderSize + i
          /\ HeaderSize + i <= Total(m)
      BY <1>3, <1>4, <1>6, <2>2, <3>0
    <3> HIDE DEF j
    <3> QED
      BY <1>5, <1>7, <3>1
  <2> QED
    BY <2>1, <2>2
<1>11. Tails' = Tails /\ Begun' = Begun
  BY <1>1 DEF Tails, Begun, MidFrame
<1>12. OneBegun'
  BY <1>1, <1>11 DEF Sound, OneBegun, MidFrame
<1>13. CASE Len(g) < need
  <2>1. got' = g /\ pc' = "payload" /\ need' = need /\ delivered' = delivered
    BY <1>1, <1>9, <1>13
  <2>2. Awaited' = Awaited + n /\ Due' = Due
    <3>1. Awaited' = HeaderSize + Len(got') + 1 /\ Due' = Due
      BY <2>1 DEF Awaited, Due
    <3> QED
      BY <1>3, <1>4, <1>7, <2>1, <3>1
  <2>3. Awaited + n <= Total(m)
    BY <1>3, <1>4, <1>6, <1>7, <1>13
  <2>4. Follows'
    BY <1>5, <2>2, <2>3, FollowsNext
  <2>5. sent'[Due'] = m
    BY <1>1, <1>8, <2>2
  <2>6. Reads'
    BY <1>6, <1>10, <1>13, <2>1, <2>5 DEF Reads
  <2>7. InPlace'
    BY <2>1 DEF Sound, InPlace
  <2> QED
    BY <1>12, <2>4, <2>6, <2>7 DEF Sound
<1>14. CASE ~(Len(g) < need)
  <2>1. Len(g) = need
    BY <1>3, <1>7, <1>14
  <2>2. HandOver(g) /\ pc' = "peek" /\ got' = << >>
    BY <1>9, <1>14
  <2>3. /\ Payload(m) \in Seq(Cells) /\ Len(Payload(m)) = need
        /\ \A j \in 1..need : Payload(m)[j] = Cell(m, HeaderSize + j)
        /\ Payload(m)[1] = First(m) /\ First(m).msg = m
    BY <1>5, <1>6, PayloadFacts
  <2>4. g = Payload(m)
    <3>1. \A i \in 1..Len(g) : g[i] = Payload(m)[i]
      BY <1>10, <2>1, <2>3
    <3> QED
      BY <1>7, <2>1, <2>3, <3>1, SeqEqual
  <2>5. PICK q \in Places : delivered' = Append(delivered, q) /\ g[1] = First(sent[q])
    <3>1. \E i \in Places : g = Payload(sent[i])
      BY <1>5, <1>8, <2>4
    <3> QED
      BY <2>2, <3>1, HandOverFacts
  <2>6. sent[q] \in Messages
    BY DueFacts
  <2>7. First(sent[q]) = First(m) /\ First(sent[q]).msg = sent[q]
    BY <2>3, <2>4, <2>5, <2>6, PayloadFacts
  <2>8. q = Due
    <3>1. sent[q] = sent[Due] /\ q \in Places /\ Due \in Places
      BY <1>5, <1>8, <2>3, <2>5, <2>7
    <3> QED
      BY <3>1 DEF OutInv
  <2>9. /\ Len(delivered') = Len(delivered) + 1 /\ Len(delivered) \in Nat
        /\ \A i \in 1..Len(delivered) : delivered'[i] = delivered[i]
        /\ delivered'[Len(delivered) + 1] = Len(delivered) + 1
    BY <2>5, <2>8 DEF FramingType, Due
  <2>10. InPlace'
    BY <2>9 DEF Sound, InPlace
  <2>11. Due' = Due + 1 /\ Awaited' = 1
    BY <2>2, <2>9 DEF Due, Awaited
  <2>12. Awaited + n = Total(m) + 1
    <3>1. Len(got) + n = need
      BY <1>7, <2>1
    <3>2. HeaderSize + Len(got) + 1 + n = HeaderSize + need + 1
      BY <1>3, <3>1
    <3> QED
      BY <1>4, <1>6, <3>2
  <2>13. Follows'
    BY <1>5, <2>11, <2>12, FollowsNext
  <2>14. Reads'
    BY <2>2 DEF Reads
  <2> QED
    BY <1>12, <2>10, <2>13, <2>14 DEF Sound
<1> QED
  BY <1>13, <1>14

LEMMA DamageStays == [Next]_vars /\ damage' = {} => damage = {}
BY DEF Next, Send, Read, SendMsg, SendPart, SendFails, Close, Break, PeekHeader,
       Dump, ReadHeader, ReadPayload, EndOfStream, RecvFails, Stop, vars, writerVars,
       readerVars

LEMMA SoundStep ==
    FramingType /\ OutInv /\ SoundInv /\ [Next]_vars => SoundInv'
<1> SUFFICES ASSUME FramingType, OutInv, [Next]_vars, SoundInv, damage' = {}
             PROVE  Sound'
  BY DEF SoundInv
<1>0. Sound
  BY DamageStays DEF SoundInv
<1>1. ASSUME NEW w \in Writers, NEW m \in Messages, SendMsg(w, m)
      PROVE  Sound'
  <2>1. /\ UNCHANGED <<pc, got, need, delivered, wire, sent, closed>>
        /\ UNCHANGED <<broken, lost>>
        /\ out[w] = << >> /\ out' = [out EXCEPT ![w] = Frame(m)]
    BY <1>1 DEF SendMsg, readerVars
  <2>2. out' = [v \in Writers |-> IF v = w THEN Frame(m) ELSE out[v]]
    BY <2>1 DEF FramingType
  <2>3. Frame(m)[1].at = 1
    BY FrameFacts, CellFacts
  <2>4. \A v \in Writers : /\ MidFrame(v)' = MidFrame(v)
                           /\ MidFrame(v) => out'[v] = out[v]
    <3>1. ~MidFrame(w) /\ ~MidFrame(w)'
      BY <2>1, <2>2, <2>3 DEF MidFrame
    <3>2. ASSUME NEW v \in Writers, v # w
          PROVE  MidFrame(v)' = MidFrame(v) /\ out'[v] = out[v]
      BY <2>2, <3>2 DEF MidFrame
    <3>3. MidFrame(w)' = MidFrame(w)
      BY <3>1 DEF MidFrame
    <3> QED
      BY <3>1, <3>2, <3>3
  <2> QED
    BY <1>0, <2>1, <2>4, StillSound
<1>2. ASSUME NEW w \in Writers, SendPart(w)
      PROVE  Sound'
  BY <1>0, <1>2, SendSound
<1>3. ASSUME NEW w \in Writers, SendFails(w)
      PROVE  Sound'
  <2>1. /\ UNCHANGED <<pc, got, need, delivered, wire, sent, closed>>
        /\ UNCHANGED <<broken, lost>>
        /\ out' = [out EXCEPT ![w] = << >>] /\ ~MidFrame(w)
    BY <1>3 DEF SendFails, readerVars
  <2>2. out' = [v \in Writers |-> IF v = w THEN << >> ELSE out[v]]
    BY <2>1 DEF FramingType
  <2>3. \A v \in Writers : /\ MidFrame(v)' = MidFrame(v)
                           /\ MidFrame(v) => out'[v] = out[v]
    <3>1. ~MidFrame(w)'
      BY <2>2 DEF MidFrame
    <3>2. ASSUME NEW v \in Writers, v # w
          PROVE  MidFrame(v)' = MidFrame(v) /\ out'[v] = out[v]
      BY <2>2, <3>2 DEF MidFrame
    <3>3. MidFrame(w)' = MidFrame(w)
      BY <2>1, <3>1 DEF MidFrame
    <3> QED
      BY <2>1, <3>2, <3>3
  <2> QED
    BY <1>0, <2>1, <2>3, StillSound
<1>4. CASE Close
  <2>1. UNCHANGED <<pc, got, need, delivered, wire, sent, out, broken, lost>> /\ Begun = {}
    BY <1>4 DEF Close, readerVars, Begun
  <2>2. \A v \in Writers : /\ MidFrame(v)' = MidFrame(v)
                           /\ MidFrame(v) => out'[v] = out[v]
    BY <2>1 DEF MidFrame
  <2> QED
    BY <1>0, <2>1, <2>2, StillSound
<1>5. CASE PeekHeader
  BY <1>0, <1>5, PeekSound
<1>6. CASE Dump
  BY <1>0, <1>6, NoDump
<1>7. CASE ReadHeader
  BY <1>0, <1>7, HeaderSound
<1>8. CASE ReadPayload
  BY <1>0, <1>8, PayloadSound
<1>9. CASE EndOfStream \/ Stop \/ UNCHANGED vars
  <2>1. UNCHANGED <<pc, got, need, delivered, wire, sent, out, closed, broken, lost>>
    BY <1>9 DEF EndOfStream, Stop, vars, writerVars, readerVars
  <2>2. \A v \in Writers : /\ MidFrame(v)' = MidFrame(v)
                           /\ MidFrame(v) => out'[v] = out[v]
    BY <2>1 DEF MidFrame
  <2> QED
    BY <1>0, <2>1, <2>2, StillSound
<1>10. CASE Break
  BY <1>0, <1>10, BreakSound
<1>11. CASE RecvFails
  BY <1>0, <1>11, FailsSound
<1> QED
  BY <1>1, <1>2, <1>3, <1>4, <1>5, <1>6, <1>7, <1>8, <1>9, <1>10, <1>11
     DEF Next, Send, Read

\* A non-empty set of numbers has a least element.
LEMMA LeastPlace ==
    ASSUME NEW T \in SUBSET Nat, T # {}
    PROVE  \E k \in T : \A j \in T : k <= j
<1> DEFINE below == {pair \in Nat \X Nat : pair[1] < pair[2]}
<1>1. IsWellFoundedOn(below, Nat)
  BY NatLessThanWellFounded DEF OpToRel
<1>2. PICK k \in T : \A j \in T : <<j, k>> \notin below
  <2> HIDE DEF below
  <2> QED
    BY <1>1, WFMin
<1>3. \A i \in Nat, j \in Nat : <<i, j>> \notin below => j <= i
  OBVIOUS
<1> QED
  BY <1>2, <1>3

\* From a message of which it has a cell on, frames that follow each other have one
\* of each message.
LEMMA ChainCovers ==
    ASSUME NEW order \in Seq(Messages), Injective(order),
           NEW s \in Seq(Cells), s # << >>, Chain(s, order),
           NEW p \in DOMAIN order, s[1].msg = order[p]
    PROVE  \A k \in p..Len(order) : \E i \in 1..Len(s) : s[i].msg = order[k]
<1> DEFINE T == {k \in p..Len(order) : \A i \in 1..Len(s) : s[i].msg # order[k]}
<1>1. Len(order) \in Nat /\ DOMAIN order = 1..Len(order) /\ Len(s) \in Nat \ {0}
      /\ p \in Nat \ {0}
  BY EmptySeq
<1>2. ASSUME T # {}
      PROVE  FALSE
  <2>1. T \in SUBSET Nat
    BY <1>1
  <2>2. PICK k \in T : \A j \in T : k <= j
    <3> HIDE DEF T
    <3> QED
      BY <1>2, <2>1, LeastPlace
  <2>3. k \in p..Len(order) /\ \A i \in 1..Len(s) : s[i].msg # order[k]
    OBVIOUS
  <2>4. k # p
    BY <1>1, <2>3
  <2>5. k - 1 \in p..Len(order) /\ k - 1 \notin T
    BY <1>1, <2>1, <2>2, <2>3, <2>4
  <2>6. PICK i \in 1..Len(s) : s[i].msg = order[k - 1]
    BY <2>5
  <2> HIDE DEF T
  <2>7. PICK q \in DOMAIN order :
           LET m == order[q]
               end == i + Total(m) - s[i].at
           IN  /\ s[i].msg = m /\ s[i].at <= Total(m)
               /\ end <= Len(s)
               /\ IF end = Len(s) THEN q = Len(order)
                  ELSE q < Len(order) /\ s[end + 1] = Cell(order[q + 1], 1)
    BY DEF Chain
  <2>8. q = k - 1
    <3>1. k - 1 \in DOMAIN order
      BY <1>1, <2>5
    <3> QED
      BY <2>6, <2>7, <3>1 DEF Injective
  <2> DEFINE end == i + Total(order[q]) - s[i].at
  <2>9. /\ end <= Len(s) /\ end \in Nat
        /\ IF end = Len(s) THEN q = Len(order)
           ELSE s[end + 1] = Cell(order[q + 1], 1)
    <3>1. Total(order[q]) \in Nat /\ s[i].at \in Nat
      BY FrameFacts, CellsAreCells
    <3>2. s[i].at <= Total(order[q])
      BY <2>7
    <3>3. end \in Nat
      BY <3>1, <3>2
    <3> QED
      BY <2>7, <3>3
  <2> HIDE DEF end
  <2>10. end # Len(s) /\ q + 1 = k
    BY <1>1, <2>3, <2>8, <2>9
  <2>11. end + 1 \in 1..Len(s) /\ s[end + 1].msg = order[k]
    <3>1. s[end + 1] = Cell(order[k], 1)
      BY <2>9, <2>10
    <3> QED
      BY <1>1, <2>9, <2>10, <3>1 DEF Cell
  <2> QED
    BY <2>3, <2>11
<1> QED
  BY <1>2

\* A sound stream that has ended was read to its end, or to where it was lost.
LEMMA EndReached ==
    ASSUME FramingType, OutInv, Sound, closed, wire = << >>
    PROVE  AllAccounted
<1>1. Begun = {}
  BY DEF Sound, OneBegun
<1>2. Tails = {lost} /\ lost \in Seq(Cells)
  BY <1>1, TailFacts DEF FramingType
<1>3. wire \o lost = lost
  BY <1>2, ConcatEmptySeq
<1>4. /\ Due = Len(delivered) + 1 /\ Len(delivered) \in Nat /\ sent \in Seq(Messages)
      /\ Places = 1..Len(sent) /\ Len(sent) \in Nat /\ delivered \in Seq(Nat)
  BY DueFacts DEF Due, FramingType
<1>5. \A i \in 1..Len(delivered) : i \in ToSet(delivered)
  BY <1>4 DEF Sound, InPlace, ToSet
<1>6. CASE lost = << >>
  <2>1. Due = Len(sent) + 1
    BY <1>2, <1>3, <1>6 DEF Sound, Follows, Starts, Misses
  <2>2. Len(delivered) = Len(sent)
    BY <1>4, <2>1
  <2> QED
    BY <1>4, <1>5, <2>2 DEF AllAccounted
<1>7. CASE lost # << >>
  <2>1. Ended
    BY <1>7 DEF FramingType, Ended
  <2>2. Chain(lost, sent) /\ Due \in Places /\ lost[1].msg = sent[Due]
    BY <1>2, <1>3, <1>7, <2>1 DEF Sound, Follows, Misses
  <2>3. Injective(sent)
    BY DEF OutInv, Injective, Places
  <2>4. \A k \in Due..Len(sent) : \E i \in 1..Len(lost) : lost[i].msg = sent[k]
    BY <1>2, <1>4, <1>7, <2>2, <2>3, ChainCovers DEF Places
  <2>5. \A i \in 1..Len(lost) : lost[i] \in ToSet(lost)
    BY <1>2 DEF ToSet
  <2>6. ASSUME NEW k \in Places
        PROVE  k \in ToSet(delivered) \/ \E c \in ToSet(lost) : c.msg = sent[k]
    <3>1. k \in 1..Len(delivered) \/ k \in Due..Len(sent)
      BY <1>4
    <3> QED
      BY <1>5, <2>4, <2>5, <3>1
  <2> QED
    BY <2>6 DEF AllAccounted
<1> QED
  BY <1>6, <1>7

LEMMA ToldStep ==
    FramingType /\ OutInv /\ SoundInv /\ ToldInv /\ [Next]_vars => ToldInv'
<1> SUFFICES ASSUME FramingType, OutInv, SoundInv, ToldInv, [Next]_vars, told'
             PROVE  /\ closed' /\ ~running' /\ wire' = << >>
                    /\ damage' = {} => AllAccounted'
  BY DEF ToldInv
<1>1. CASE told
  <2>1. closed /\ ~running /\ wire = << >> /\ (damage = {} => AllAccounted)
    BY <1>1 DEF ToldInv
  <2>2. (\E w \in Writers : SendFails(w)) \/ Break \/ UNCHANGED vars
    BY <2>1 DEF Next, Send, Read, SendMsg, SendPart, Close, PeekHeader, Dump,
                ReadHeader, ReadPayload, EndOfStream, RecvFails, Stop
  <2>3. CASE (\E w \in Writers : SendFails(w)) \/ UNCHANGED vars
    <3>1. UNCHANGED <<closed, running, wire, delivered, sent, lost>>
      BY <2>3 DEF SendFails, vars, writerVars, readerVars
    <3>2. AllAccounted' = AllAccounted
      BY <3>1 DEF AllAccounted, Places
    <3> QED
      BY <2>1, <3>1, <3>2, DamageStays
  <2>4. CASE Break
    <3>1. /\ UNCHANGED <<running, delivered, sent>> /\ closed' /\ lost = << >>
          /\ \E n \in 0..Len(wire) :
                wire' = SubSeq(wire, 1, n) /\ lost' = SubSeq(wire, n + 1, Len(wire))
      BY <2>4 DEF Break, readerVars, FramingType
    <3>2. wire' = << >> /\ lost' = << >>
      BY <2>1, <3>1
    <3>3. AllAccounted' = AllAccounted
      BY <3>1, <3>2 DEF AllAccounted, Places
    <3> QED
      BY <2>1, <3>1, <3>2, <3>3, DamageStays
  <2> QED
    BY <2>2, <2>3, <2>4
<1>2. CASE ~told
  <2>1. EndOfStream \/ RecvFails
    BY <1>2 DEF Next, Send, Read, SendMsg, SendPart, SendFails, Close, Break,
                PeekHeader, Dump, ReadHeader, ReadPayload, Stop, vars, writerVars,
                readerVars
  <2>2. /\ closed /\ wire = << >> /\ ~running'
        /\ UNCHANGED <<wire, closed, damage, delivered, sent, lost>>
    BY <1>2, <2>1 DEF EndOfStream, RecvFails, writerVars, FramingType
  <2>3. damage = {} => AllAccounted
    BY <2>2, EndReached DEF SoundInv
  <2>4. AllAccounted' = AllAccounted
    BY <2>2 DEF AllAccounted, Places
  <2> QED
    BY <2>2, <2>3, <2>4
<1> QED
  BY <1>1, <1>2

---------------------------------------------------------------------------
(* The theorems *)

LEMMA StreamInit == Init => FramingType /\ StreamInv
<1> SUFFICES ASSUME Init
             PROVE  FramingType /\ StreamInv
  OBVIOUS
<1>1. /\ out = [w \in Writers |-> << >>]
      /\ wire = << >> /\ got = << >> /\ sent = << >> /\ delivered = << >>
      /\ need = 0 /\ pc = "peek" /\ closed = FALSE /\ running = TRUE /\ told = FALSE
      /\ damage = {} /\ broken = FALSE /\ lost = << >>
  BY DEF Init
<1>2. /\ Len(wire) = 0 /\ Len(got) = 0 /\ Len(delivered) = 0 /\ Len(sent) = 0
      /\ DOMAIN delivered = {} /\ DOMAIN sent = {}
  BY <1>1
<1>3. FramingType
  <2>1. /\ wire \in Seq(Cells) /\ got \in Seq(Cells) /\ lost \in Seq(Cells)
        /\ sent \in Seq(Messages) /\ delivered \in Seq(Nat)
    BY <1>1
  <2>2. out \in [Writers -> Seq(Cells)]
    BY <1>1
  <2>3. damage \subseteq {"missed", "cut", "mixed"}
    BY <1>1
  <2> QED
    BY <1>1, <2>1, <2>2, <2>3 DEF FramingType
<1>4. \A w \in Writers : out[w] = << >>
  BY <1>1
<1>5. OutInv
  BY <1>2, <1>4 DEF OutInv, Places
<1>6. OnceInv /\ DeliveredInv /\ ToldInv
  <2>1. \A i \in 1..Len(wire) : FALSE
    BY <1>2
  <2> QED
    BY <1>1, <1>2, <2>1 DEF OnceInv, DeliveredInv, ToldInv
<1>7. Begun = {}
  BY <1>4 DEF Begun, MidFrame
<1>8. Sound
  <2>1. Tails = {<< >>} /\ ~Ended
    BY <1>1, <1>7 DEF Tails, Ended
  <2>2. wire \o << >> = << >>
    BY <1>1
  <2>3. Due = 1 /\ Awaited = 1
    BY <1>1, <1>2 DEF Due, Awaited
  <2>4. Chain(<< >>, sent)
    <3>1. \A i \in 1..Len(<< >>) : FALSE
      OBVIOUS
    <3> QED
      BY <3>1 DEF Chain
  <2>5. Starts(<< >>, sent, 1, 1)
    BY <1>2 DEF Starts
  <2>6. Follows
    BY <2>1, <2>2, <2>3, <2>4, <2>5 DEF Follows
  <2>7. OneBegun
    BY <1>4, <1>7 DEF OneBegun, MidFrame
  <2>8. InPlace
    <3>1. \A i \in 1..Len(delivered) : FALSE
      BY <1>2
    <3> QED
      BY <3>1 DEF InPlace
  <2>9. Reads
    BY <1>1 DEF Reads
  <2> QED
    BY <2>6, <2>7, <2>8, <2>9 DEF Sound
<1> QED
  BY <1>3, <1>5, <1>6, <1>8 DEF StreamInv, SoundInv

LEMMA StreamStep ==
    FramingType /\ StreamInv /\ [Next]_vars => (FramingType /\ StreamInv)'
BY TypeStep, OutStep, OnceStep, DeliveredStep, SoundStep, ToldStep DEF StreamInv

\* The inductive invariant: what is unsent is the end of a frame, a byte is in one
\* place, what was delivered cannot be delivered again, and in a sound stream the
\* frames follow each other from the byte the reader awaits (sendMsg,
\* delegateRecv), for any messages, sizes, writers and buffers.
THEOREM StreamInvariant == Spec => [](FramingType /\ StreamInv)
BY StreamInit, StreamStep, PTL DEF Spec

LEMMA ToldGives == StreamInv => ToldAfterAll
BY DEF StreamInv, ToldInv, ToldAfterAll, AllAccounted, Places

\* dcc_cb comes after the last message of an undamaged stream, wherever recv cuts
\* it into pieces; of a connection that broke, after the last message of which it
\* has lost nothing (delegateRecv, dealRecvError).
THEOREM ToldAfterAllAlways == Spec => []ToldAfterAll
BY StreamInvariant, ToldGives, PTL

LEMMA ChannelInit == Init => Channel!Init
BY DEF Init, Channel!Init

\* Each step is one of the channel's, or leaves it alone.
LEMMA ChannelStep ==
    FramingType /\ StreamInv /\ [Next]_vars => [Channel!Next]_(Channel!channel)
<1> SUFFICES ASSUME FramingType, StreamInv, [Next]_vars
             PROVE  [Channel!Next]_(Channel!channel)
  OBVIOUS
<1> DEFINE sound == damage = {}
<1>1. OutInv /\ OnceInv /\ DeliveredInv /\ SoundInv /\ SoundInv'
  BY StreamStep DEF StreamInv
<1>2. sound' = sound \/ sound' = FALSE
  BY DamageStays
<1>3. CASE UNCHANGED delivered
  <2>1. CASE UNCHANGED sent
    <3>1. CASE sound' = sound
      BY <1>3, <2>1, <3>1 DEF Channel!channel
    <3>2. CASE sound' = FALSE
      BY <1>3, <2>1, <3>2 DEF Channel!Next, Channel!Fail
    <3> QED
      BY <1>2, <3>1, <3>2
  <2>2. ASSUME NEW m \in Messages, sent' = Append(sent, m)
        PROVE  Channel!Next
    <3>1. CASE sound' = sound
      BY <1>3, <2>2, <3>1 DEF Channel!Next, Channel!Accept
    <3>2. CASE sound' = FALSE
      BY <1>3, <2>2, <3>2 DEF Channel!Next, Channel!AcceptAndFail
    <3> QED
      BY <1>2, <3>1, <3>2
  <2> QED
    BY <1>1, <2>1, <2>2, SentGrows
<1>4. ASSUME NEW p \in Places, ReadPayload, delivered' = Append(delivered, p),
             ~Gone(First(sent[p]))
      PROVE  Channel!Next
  <2>1. UNCHANGED <<sent, damage>>
    BY <1>4 DEF ReadPayload, writerVars
  <2>2. \A i \in DOMAIN delivered : delivered[i] # p
    BY <1>1, <1>4 DEF DeliveredInv
  <2>3. ASSUME damage = {}
        PROVE  p = Len(delivered) + 1
    <3>1. InPlace'
      BY <1>1, <2>1, <2>3 DEF SoundInv, Sound
    <3>2. delivered \in Seq(Nat) /\ p \in Nat
      BY DEF FramingType, Places
    <3>3. /\ Len(delivered) + 1 \in 1..Len(delivered')
          /\ delivered'[Len(delivered) + 1] = p
      BY <1>4, <3>2
    <3> QED
      BY <3>1, <3>3 DEF InPlace
  <2>4. p \in 1..Len(sent)
    BY DueFacts
  <2> QED
    BY <1>4, <2>1, <2>2, <2>3, <2>4 DEF Channel!Next, Channel!Deliver
<1> QED
  BY <1>1, <1>3, <1>4, HandedOver

\* Frames, partial sends and the reader's three loops implement the channel: no
\* message is altered or delivered twice, whatever is sent by however many threads
\* at once, and none is skipped or overtaken before the stream is damaged
\* (OuterMsgBuilder::build, sendMsg, delegateRecv).
THEOREM FramingImplementsChannel == Spec => ImplementsChannel
BY ChannelInit, StreamInvariant, ChannelStep, PTL
   DEF Spec, ImplementsChannel, Channel!Spec

=============================================================================
