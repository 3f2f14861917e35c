-------------------------- MODULE EventStreamProofs --------------------------
(***************************************************************************)
(* That the lines of the journal stay in order, for any number of events,  *)
(* failed writes, crashes and torn lines.                                  *)
(*                                                                         *)
(* The lines of a journal are in three places: on disk, in the write under *)
(* way, in the queue.  The invariant relates the three; what a method does *)
(* to them is a lemma about a file f, a journal j and the number n of      *)
(* epochs made so far.                                                     *)
(*                                                                         *)
(* And that a client which has been answered has every event of the log    *)
(* that comes after the position it asked from, whatever reconnections     *)
(* there are besides.  That invariant, in the second half, says where each *)
(* such event is while the answer is on its way: behind a question that is *)
(* still open, behind a resync_required, in a frame, in a replay that      *)
(* waits for the file, or with the client.  It rests on the order of the   *)
(* journal and on the memory tail being the end of the log.                *)
(***************************************************************************)
EXTENDS EventStream, TLAPS, SequenceTheorems, NaturalsInduction, WellFoundedInduction

Lines == [kind : {"header", "event"}, epoch : Nat, seq : Nat, ev : Nat]

Files    == [lines : Seq(Lines), torn : BOOLEAN]
Journals == [ready : BOOLEAN, epoch : Nat, seq : Nat, headerPending : BOOLEAN,
             pendingLines : Seq(Lines), writing : Seq(Lines)]

Elems(s) == {s[i] : i \in 1..Len(s)}

(* Events of one epoch, each before each.                                  *)
Before(l, m) == l.kind = "event" /\ m.kind = "event" /\ l.epoch = m.epoch => l.seq < m.seq
Below(S, T)  == \A l \in S, m \in T : Before(l, m)
Rising(s)    == \A i, j \in 1..Len(s) : i < j => Before(s[i], s[j])

InOrder(f, j) ==
  /\ Rising(f.lines) /\ Rising(j.writing) /\ Rising(j.pendingLines)
  /\ Below(Elems(f.lines), Elems(j.writing)) /\ Below(Elems(f.lines), Elems(j.pendingLines))
  /\ Below(Elems(j.writing), Elems(j.pendingLines))

(* No line is of an epoch not made yet, and none of an open journal's is   *)
(* ahead of its seq.                                                       *)
Numbered(f, j, n) ==
  /\ j.epoch <= n
  /\ \A l \in Elems(f.lines) \cup Elems(j.writing) \cup Elems(j.pendingLines) :
        /\ l.epoch <= n
        /\ j.ready /\ l.kind = "event" /\ l.epoch = j.epoch => l.seq <= j.seq

Sound(f, j, n) ==
  /\ f \in Files /\ j \in Journals /\ n \in Nat
  /\ InOrder(f, j) /\ Numbered(f, j, n)
  /\ ~ j.ready => j.writing = <<>> /\ j.pendingLines = <<>>

JournalInv ==
  /\ Sound(disk, journal, epochs)
  /\ published \in Nat /\ waiting \in Seq(Nat)

-----------------------------------------------------------------------------
(* Sequences.                                                              *)

LEMMA LeastElement ==
  ASSUME NEW S, S \subseteq Nat, S # {}
  PROVE  \E m \in S : \A n \in S : m =< n
<1> DEFINE R == OpToRel(<, Nat)
<1>1. IsWellFoundedOn(R, Nat) BY NatLessThanWellFounded
<1> HIDE DEF R
<1>2. PICK m \in S : \A n \in S : ~ (<<n, m>> \in R) BY <1>1, WFMin
<1>3. \A n \in S : <<n, m>> \in R <=> n < m BY DEF R, OpToRel
<1>4. \A n \in S : m =< n
  <2> TAKE n \in S
  <2>1. ~ (n < m) BY <1>2, <1>3
  <2>2. m \in Nat /\ n \in Nat OBVIOUS
  <2> QED BY <2>1, <2>2
<1> QED BY <1>4

(* Finitely many numbers have a bound.                                     *)
LEMMA Bounded ==
  ASSUME NEW m \in Nat, NEW f, \A i \in 1..m : f[i] \in Nat
  PROVE  \E b \in Nat : \A i \in 1..m : f[i] =< b
<1> DEFINE T == {k \in 0..m : ~ \E b \in Nat : \A i \in 1..k : f[i] =< b}
<1>1. SUFFICES ASSUME T # {} PROVE FALSE
  <2>1. m \in 0..m OBVIOUS
  <2> QED BY <2>1
<1>2. PICK k \in T : \A n \in T : k =< n
  <2>1. T \subseteq Nat OBVIOUS
  <2> HIDE DEF T
  <2> QED BY <1>1, <2>1, LeastElement
<1>3. k \in 0..m /\ ~ \E b \in Nat : \A i \in 1..k : f[i] =< b OBVIOUS
<1>4. k # 0
  <2>1. ASSUME k = 0 PROVE \A i \in 1..k : f[i] =< 0 BY <2>1
  <2> QED BY <1>3, <2>1
<1>5. k - 1 \in 0..m /\ k - 1 < k /\ k \in 1..m BY <1>3, <1>4
<1>6. k - 1 \notin T
  <2> HIDE DEF T
  <2> QED BY <1>2, <1>3, <1>5
<1>7. PICK b \in Nat : \A i \in 1..(k - 1) : f[i] =< b BY <1>5, <1>6
<1> DEFINE c == IF b =< f[k] THEN f[k] ELSE b
<1>8. f[k] \in Nat BY <1>5
<1>9. c \in Nat /\ b =< c /\ f[k] =< c BY <1>8
<1>10. \A i \in 1..k : f[i] =< c
  <2> TAKE i \in 1..k
  <2>1. CASE i = k BY <1>9, <2>1
  <2>2. CASE i # k
    <3>1. i \in 1..(k - 1) /\ i \in 1..m BY <1>3, <2>2
    <3>2. f[i] =< b /\ f[i] \in Nat BY <1>7, <3>1
    <3> HIDE DEF c
    <3> QED BY <1>9, <3>2
  <2> QED BY <2>1, <2>2
<1> QED BY <1>3, <1>9, <1>10

(* The greatest of a set of numbers that has a bound.                      *)
LEMMA Greatest ==
  ASSUME NEW S, S \subseteq Nat, S # {}, NEW b \in Nat, \A n \in S : n =< b
  PROVE  Max(S) \in S /\ \A n \in S : n =< Max(S)
<1> DEFINE U == {c \in Nat : \A n \in S : n =< c}
<1>1. PICK m \in U : \A c \in U : m =< c
  <2>1. U \subseteq Nat /\ b \in U OBVIOUS
  <2> HIDE DEF U
  <2> QED BY <2>1, LeastElement
<1>2. m \in Nat /\ \A n \in S : n =< m OBVIOUS
<1>3. m \in S
  <2>1. SUFFICES ASSUME m \notin S PROVE FALSE OBVIOUS
  <2>2. \A n \in S : n \in Nat /\ n =< m /\ n # m BY <1>2, <2>1
  <2>3. PICK x \in S : TRUE OBVIOUS
  <2>4. m - 1 \in Nat /\ m - 1 < m BY <1>2, <2>2, <2>3
  <2>5. \A n \in S : n =< m - 1 BY <1>2, <2>2
  <2>6. m - 1 \in U BY <2>4, <2>5
  <2> HIDE DEF U
  <2>7. m =< m - 1 BY <1>1, <2>6
  <2> QED BY <1>2, <2>4, <2>7
<1> QED BY <1>2, <1>3 DEF Max

LEMMA ElemsAreRange ==
  ASSUME NEW s \in Seq(Lines)
  PROVE  /\ Range(s) = Elems(s) /\ DOMAIN s = 1..Len(s) /\ Len(s) \in Nat
         /\ \A i \in 1..Len(s) : s[i] \in Elems(s)
         /\ Elems(s) \subseteq Lines
BY DEF Range, Elems

LEMMA NothingInOrder ==
  Elems(<<>>) = {} /\ Rising(<<>>) /\ <<>> \in Seq(Lines)
BY DEF Elems, Rising

LEMMA ConcatRises ==
  ASSUME NEW s \in Seq(Lines), NEW t \in Seq(Lines)
  PROVE  /\ s \o t \in Seq(Lines) /\ Elems(s \o t) = Elems(s) \cup Elems(t)
         /\ Rising(s) /\ Rising(t) /\ Below(Elems(s), Elems(t)) => Rising(s \o t)
<1> DEFINE m == Len(s)
           n == Len(t)
           c == s \o t
<1>1. /\ c \in Seq(Lines) /\ Len(c) = m + n /\ m \in Nat /\ n \in Nat
      /\ \A i \in 1..(m + n) : c[i] = IF i <= m THEN s[i] ELSE t[i - m]
  BY ConcatProperties
<1> HIDE DEF m, n, c
<1>2. \A i \in 1..m : i \in 1..(m + n) /\ c[i] = s[i] BY <1>1
<1>3. \A i \in (m + 1)..(m + n) : i \in 1..(m + n) /\ i - m \in 1..n /\ c[i] = t[i - m] BY <1>1
<1>4. \A i \in 1..n : m + i \in (m + 1)..(m + n) /\ (m + i) - m = i BY <1>1
<1>5. \A i \in 1..(m + n) : i \in 1..m \/ i \in (m + 1)..(m + n) BY <1>1
<1>6. Elems(c) = {c[i] : i \in 1..(m + n)} BY <1>1 DEF Elems
<1>7. Elems(s) = {s[i] : i \in 1..m} /\ Elems(t) = {t[i] : i \in 1..n} BY DEF Elems, m, n
<1>8. Elems(c) = Elems(s) \cup Elems(t)
  <2>1. \A x \in Elems(c) : x \in Elems(s) \cup Elems(t) BY <1>2, <1>3, <1>5, <1>6, <1>7
  <2>2. \A x \in Elems(s) : x \in Elems(c) BY <1>2, <1>6, <1>7
  <2>3. \A x \in Elems(t) : x \in Elems(c) BY <1>3, <1>4, <1>6, <1>7
  <2> QED BY <2>1, <2>2, <2>3
<1>9. ASSUME Rising(s), Rising(t), Below(Elems(s), Elems(t)),
             NEW i \in 1..(m + n), NEW j \in 1..(m + n), i < j
      PROVE  Before(c[i], c[j])
  <2>1. CASE j \in 1..m
    <3>1. i \in 1..m BY <1>1, <1>9, <2>1
    <3> QED BY <1>2, <1>9, <2>1, <3>1 DEF Rising, m
  <2>2. CASE i \in 1..m /\ j \in (m + 1)..(m + n)
    <3>1. c[i] \in Elems(s) BY <1>2, <1>7, <2>2
    <3>2. c[j] \in Elems(t) BY <1>3, <1>7, <2>2
    <3> QED BY <1>9, <3>1, <3>2 DEF Below
  <2>3. CASE i \in (m + 1)..(m + n)
    <3>1. j \in (m + 1)..(m + n) /\ i - m < j - m BY <1>1, <1>9, <2>3
    <3>2. i - m \in 1..n /\ j - m \in 1..n /\ c[i] = t[i - m] /\ c[j] = t[j - m]
      BY <1>3, <2>3, <3>1
    <3> QED BY <1>9, <3>1, <3>2 DEF Rising, n
  <2> QED BY <1>5, <2>1, <2>2, <2>3
<1>10. Rising(s) /\ Rising(t) /\ Below(Elems(s), Elems(t)) => Rising(c)
  BY <1>1, <1>9 DEF Rising
<1> QED BY <1>1, <1>8, <1>10 DEF c

LEMMA PartRises ==
  ASSUME NEW s \in Seq(Lines)
  PROVE  /\ \A k \in 0..Len(s) : /\ SubSeq(s, 1, k) \in Seq(Lines)
                                 /\ Elems(SubSeq(s, 1, k)) \subseteq Elems(s)
                                 /\ Rising(s) => Rising(SubSeq(s, 1, k))
         /\ s # <<>> => /\ Tail(s) \in Seq(Lines) /\ Elems(Tail(s)) \subseteq Elems(s)
                        /\ Rising(s) => Rising(Tail(s))
<1>1. Len(s) \in Nat /\ \A i \in 1..Len(s) : s[i] \in Lines OBVIOUS
<1>2. ASSUME NEW k \in 0..Len(s)
      PROVE  /\ SubSeq(s, 1, k) \in Seq(Lines)
             /\ Elems(SubSeq(s, 1, k)) \subseteq Elems(s)
             /\ Rising(s) => Rising(SubSeq(s, 1, k))
  <2> DEFINE a == SubSeq(s, 1, k)
  <2>1. \A i \in 1..k : s[i] \in Lines BY <1>1
  <2>2. /\ a \in Seq(Lines) /\ Len(a) = IF 1 <= k THEN k - 1 + 1 ELSE 0
        /\ \A i \in 1..(k - 1 + 1) : a[i] = s[1 + i - 1]
    BY <2>1, SubSeqProperties
  <2>3. Len(a) = k /\ \A i \in 1..k : a[i] = s[i] /\ i \in 1..Len(s) BY <1>1, <2>2
  <2> HIDE DEF a
  <2>4. Elems(a) \subseteq Elems(s) BY <2>3 DEF Elems
  <2>5. Rising(s) => Rising(a) BY <2>3 DEF Rising
  <2> QED BY <2>2, <2>4, <2>5 DEF a
<1>3. ASSUME s # <<>>
      PROVE  /\ Tail(s) \in Seq(Lines) /\ Elems(Tail(s)) \subseteq Elems(s)
             /\ Rising(s) => Rising(Tail(s))
  <2> DEFINE a == Tail(s)
  <2>1. /\ a \in Seq(Lines) /\ Len(a) = Len(s) - 1
        /\ \A i \in 1..Len(a) : a[i] = s[i + 1]
    BY <1>3, HeadTailProperties
  <2>2. \A i \in 1..Len(a) : i + 1 \in 1..Len(s) BY <1>1, <2>1
  <2> HIDE DEF a
  <2>3. Elems(a) \subseteq Elems(s) BY <2>1, <2>2 DEF Elems
  <2>4. ASSUME Rising(s), NEW i \in 1..Len(a), NEW j \in 1..Len(a), i < j
        PROVE  Before(a[i], a[j])
    <3>1. i + 1 < j + 1 BY <2>4
    <3> QED BY <2>1, <2>2, <2>4, <3>1 DEF Rising
  <2> QED BY <2>1, <2>3, <2>4 DEF a, Rising
<1> QED BY <1>2, <1>3
-----------------------------------------------------------------------------
(* The methods of the journal.                                             *)

JournalFields == {"ready", "epoch", "seq", "headerPending", "pendingLines", "writing"}

LEMMA OneLine ==
  ASSUME NEW l \in Lines
  PROVE  <<l>> \in Seq(Lines) /\ Elems(<<l>>) = {l} /\ Rising(<<l>>)
<1>1. Len(<<l>>) = 1 /\ <<l>>[1] = l /\ <<l>> \in Seq(Lines) OBVIOUS
<1> DEFINE s == <<l>>
<1> HIDE DEF s
<1>2. s \in Seq(Lines) /\ Len(s) = 1 /\ s[1] = l BY <1>1 DEF s
<1>3. Elems(s) = {l} /\ Rising(s) BY <1>2 DEF Elems, Rising
<1> QED BY <1>2, <1>3 DEF s

(* What a batch of lines that goes on where the file and the other lines   *)
(* end does to the file.                                                   *)
LEMMA AppendFileRises ==
  ASSUME NEW f \in Files, NEW batch \in Seq(Lines),
         Rising(f.lines), Rising(batch), Below(Elems(f.lines), Elems(batch))
  PROVE  /\ appendFile(f, batch) \in Files /\ Rising(appendFile(f, batch).lines)
         /\ Elems(appendFile(f, batch).lines) \subseteq Elems(f.lines) \cup Elems(batch)
<1>1. CASE batch = <<>> BY <1>1 DEF appendFile
<1>2. CASE batch # <<>>
  <2> DEFINE rest == IF f.torn THEN Tail(batch) ELSE batch
             lines == f.lines \o rest
  <2>1. rest \in Seq(Lines) /\ Elems(rest) \subseteq Elems(batch) /\ Rising(rest)
    BY <1>2, PartRises
  <2>2. appendFile(f, batch) = [lines |-> lines, torn |-> FALSE] BY <1>2 DEF appendFile
  <2> HIDE DEF rest
  <2>3. f.lines \in Seq(Lines) BY DEF Files
  <2>4. Below(Elems(f.lines), Elems(rest)) BY <2>1 DEF Below
  <2>5. lines \in Seq(Lines) /\ Elems(lines) = Elems(f.lines) \cup Elems(rest) /\ Rising(lines)
    BY <2>1, <2>3, <2>4, ConcatRises
  <2> HIDE DEF lines
  <2> QED BY <2>1, <2>2, <2>5 DEF Files
<1> QED BY <1>1, <1>2

LEMMA FlushIsSound ==
  ASSUME NEW f, NEW j, NEW n, Sound(f, j, n), j.ready
  PROVE  /\ Sound(f, flushOnce(j), n)
         /\ flushOnce(j).ready /\ flushOnce(j).epoch = j.epoch /\ flushOnce(j).seq = j.seq
<1>1. /\ j \in Journals /\ DOMAIN j = JournalFields /\ j.epoch \in Nat
      /\ j.pendingLines \in Seq(Lines) /\ j.writing \in Seq(Lines)
  BY DEF Sound, Journals, JournalFields
<1>2. CASE j.writing # <<>> BY <1>2 DEF flushOnce
<1>3. CASE j.writing = <<>>
  <2> DEFINE head == IF j.headerPending THEN <<Header(j.epoch)>> ELSE <<>>
             lines == head \o j.pendingLines
             k == [j EXCEPT !.writing = lines, !.headerPending = FALSE, !.pendingLines = <<>>]
  <2>1. flushOnce(j) = k BY <1>3 DEF flushOnce
  <2>2. /\ head \in Seq(Lines) /\ Rising(head)
        /\ \A l \in Elems(head) : l.kind = "header" /\ l.epoch = j.epoch
    <3>1. Header(j.epoch) \in Lines /\ Header(j.epoch).kind = "header"
          /\ Header(j.epoch).epoch = j.epoch
      BY <1>1 DEF Header, Lines
    <3> DEFINE h == Header(j.epoch)
    <3> HIDE DEF h
    <3>2. <<h>> \in Seq(Lines) /\ Elems(<<h>>) = {h} /\ Rising(<<h>>) BY <3>1, OneLine DEF h
    <3> QED BY <3>1, <3>2, NothingInOrder DEF h
  <2> HIDE DEF head
  <2>3. Below(Elems(head), Elems(j.pendingLines)) BY <2>2 DEF Below, Before
  <2>4. /\ lines \in Seq(Lines) /\ Elems(lines) = Elems(head) \cup Elems(j.pendingLines)
        /\ Rising(lines)
    BY <1>1, <2>2, <2>3, ConcatRises DEF Sound, InOrder
  <2> HIDE DEF lines
  <2>5. /\ k.ready = j.ready /\ k.epoch = j.epoch /\ k.seq = j.seq /\ k.writing = lines
        /\ k.pendingLines = <<>> /\ k \in Journals
    BY <1>1, <2>4, NothingInOrder DEF Journals, JournalFields
  <2> HIDE DEF k
  <2>6. Elems(k.pendingLines) = {} /\ Rising(k.pendingLines) BY <2>5, NothingInOrder
  <2>7. Below(Elems(f.lines), Elems(lines))
    BY <2>2, <2>4 DEF Sound, InOrder, Below, Before
  <2>8. InOrder(f, k) BY <2>4, <2>5, <2>6, <2>7 DEF Sound, InOrder, Below
  <2>9. Numbered(f, k, n)
    <3>1. j.epoch <= n BY DEF Sound, Numbered
    <3>2. ASSUME NEW l \in Elems(f.lines) \cup Elems(k.writing) \cup Elems(k.pendingLines)
          PROVE  l.epoch <= n /\ (l.kind = "event" /\ l.epoch = j.epoch => l.seq <= j.seq)
      <4>1. l \in Elems(head) \/ l \in Elems(f.lines) \cup Elems(j.writing) \cup Elems(j.pendingLines)
        BY <2>4, <2>5, <2>6, <3>2
      <4> QED BY <2>2, <3>1, <4>1 DEF Sound, Numbered
    <3> QED BY <2>5, <3>1, <3>2 DEF Numbered
  <2> QED BY <2>1, <2>5, <2>8, <2>9 DEF Sound
<1> QED BY <1>2, <1>3

(* Lines queued behind the others, numbered from the journal's seq on.     *)
LEMMA QueueIsSound ==
  ASSUME NEW f, NEW j, NEW n, Sound(f, j, n), j.ready,
         NEW more \in Seq(Lines), Rising(more), NEW seq \in Nat, j.seq <= seq,
         \A l \in Elems(more) : l.epoch = j.epoch /\ j.seq < l.seq /\ l.seq <= seq
  PROVE  Sound(f, [j EXCEPT !.seq = seq, !.pendingLines = @ \o more], n)
<1> DEFINE lines == j.pendingLines \o more
           k == [j EXCEPT !.seq = seq, !.pendingLines = lines]
<1>1. /\ j \in Journals /\ DOMAIN j = JournalFields /\ j.epoch \in Nat /\ j.seq \in Nat
      /\ j.pendingLines \in Seq(Lines) /\ j.writing \in Seq(Lines)
      /\ f.lines \in Seq(Lines)
  BY DEF Sound, Journals, JournalFields, Files
<1>2. \A l \in Elems(f.lines) \cup Elems(j.writing) \cup Elems(j.pendingLines) :
        l \in Lines /\ l.epoch <= n /\ (l.kind = "event" /\ l.epoch = j.epoch => l.seq <= j.seq)
  <2>1. Elems(f.lines) \cup Elems(j.writing) \cup Elems(j.pendingLines) \subseteq Lines
    BY <1>1, ElemsAreRange
  <2> QED BY <2>1 DEF Sound, Numbered
<1>3. \A l \in Lines : l.seq \in Nat BY DEF Lines
<1>4. Elems(more) \subseteq Lines BY ElemsAreRange
<1>5. Below(Elems(f.lines) \cup Elems(j.writing) \cup Elems(j.pendingLines), Elems(more))
  <2> SUFFICES ASSUME NEW l \in Elems(f.lines) \cup Elems(j.writing) \cup Elems(j.pendingLines),
                      NEW m \in Elems(more), l.kind = "event", l.epoch = m.epoch
               PROVE  l.seq < m.seq
    BY DEF Below, Before
  <2>1. l.seq <= j.seq /\ j.seq < m.seq /\ l.seq \in Nat /\ m.seq \in Nat
    BY <1>2, <1>3, <1>4
  <2> QED BY <1>1, <2>1
<1>6. lines \in Seq(Lines) /\ Elems(lines) = Elems(j.pendingLines) \cup Elems(more)
      /\ Rising(lines)
  <2>1. Below(Elems(j.pendingLines), Elems(more)) BY <1>5 DEF Below
  <2> QED BY <1>1, <2>1, ConcatRises DEF Sound, InOrder
<1> HIDE DEF lines
<1>7. /\ k.ready = j.ready /\ k.epoch = j.epoch /\ k.seq = seq /\ k.writing = j.writing
      /\ k.pendingLines = lines /\ k \in Journals
  BY <1>1, <1>6 DEF Journals, JournalFields
<1>8. k = [j EXCEPT !.seq = seq, !.pendingLines = @ \o more] BY DEF lines
<1> HIDE DEF k
<1>9. InOrder(f, k) BY <1>5, <1>6, <1>7 DEF Sound, InOrder, Below
<1>10. Numbered(f, k, n)
  <2>1. j.epoch <= n BY DEF Sound, Numbered
  <2>2. ASSUME NEW l \in Elems(f.lines) \cup Elems(k.writing) \cup Elems(k.pendingLines)
        PROVE  l.epoch <= n /\ (l.kind = "event" /\ l.epoch = j.epoch => l.seq <= seq)
    <3>1. CASE l \in Elems(more) BY <2>1, <3>1
    <3>2. CASE l \notin Elems(more)
      <4>1. l \in Elems(f.lines) \cup Elems(j.writing) \cup Elems(j.pendingLines)
        BY <1>6, <1>7, <2>2, <3>2
      <4>2. l.seq \in Nat BY <1>2, <1>3, <4>1
      <4> QED BY <1>1, <1>2, <4>1, <4>2
    <3> QED BY <3>1, <3>2
  <2> QED BY <1>7, <2>1, <2>2 DEF Numbered
<1> QED BY <1>7, <1>8, <1>9, <1>10 DEF Sound

LEMMA AppendIsSound ==
  ASSUME NEW f, NEW j, NEW n, Sound(f, j, n), j.ready, NEW v \in Nat
  PROVE  /\ Sound(f, append(j, v), n)
         /\ append(j, v).ready /\ append(j, v).epoch = j.epoch /\ append(j, v).seq = j.seq + 1
<1> DEFINE l == Line(j.seq + 1, j.epoch, v)
           more == <<l>>
           k == [j EXCEPT !.seq = j.seq + 1, !.pendingLines = @ \o more]
<1>1. j \in Journals /\ DOMAIN j = JournalFields /\ j.epoch \in Nat /\ j.seq \in Nat
      /\ j.pendingLines \in Seq(Lines)
  BY DEF Sound, Journals, JournalFields
<1>2. l \in Lines /\ l.epoch = j.epoch /\ l.seq = j.seq + 1 BY <1>1 DEF Line, Lines
<1> HIDE DEF l
<1>3. more \in Seq(Lines) /\ Elems(more) = {l} /\ Rising(more) BY <1>2, OneLine
<1>4. Append(j.pendingLines, l) = j.pendingLines \o more
  <2>1. \A s \in Seq(Lines) : \A m \in Lines : Append(s, m) = s \o <<m>> OBVIOUS
  <2>2. j.pendingLines \in Seq(Lines) BY <1>1
  <2> HIDE DEF k
  <2> QED BY <1>2, <2>1, <2>2
<1> HIDE DEF more
<1>5. Sound(f, k, n)
  <2>1. j.seq + 1 \in Nat /\ j.seq <= j.seq + 1 /\ j.seq < j.seq + 1 BY <1>1
  <2>2. \A m \in Elems(more) : m.epoch = j.epoch /\ j.seq < m.seq /\ m.seq <= j.seq + 1
    BY <1>1, <1>2, <1>3
  <2> QED BY <1>3, <2>1, <2>2, QueueIsSound
<1>6. append(j, v) = flushOnce(k) BY <1>1, <1>4 DEF append, l
<1>7. k.ready /\ k.epoch = j.epoch /\ k.seq = j.seq + 1 BY <1>1 DEF JournalFields
<1> HIDE DEF k
<1> QED BY <1>5, <1>6, <1>7, FlushIsSound

LEMMA LinesOfAreNumbered ==
  ASSUME NEW j, j.epoch \in Nat, j.seq \in Nat, NEW evs \in Seq(Nat)
  PROVE  /\ LinesOf(j, evs) \in Seq(Lines) /\ Rising(LinesOf(j, evs))
         /\ \A l \in Elems(LinesOf(j, evs)) :
               l.epoch = j.epoch /\ j.seq < l.seq /\ l.seq <= j.seq + Len(evs)
<1> DEFINE lines == [i \in 1..Len(evs) |-> Line(j.seq + i, j.epoch, evs[i])]
<1>1. LinesOf(j, evs) = lines BY DEF LinesOf
<1>2. Len(evs) \in Nat /\ \A i \in 1..Len(evs) : evs[i] \in Nat OBVIOUS
<1>3. \A i \in 1..Len(evs) : /\ Line(j.seq + i, j.epoch, evs[i]) \in Lines
                             /\ Line(j.seq + i, j.epoch, evs[i]).epoch = j.epoch
                             /\ Line(j.seq + i, j.epoch, evs[i]).seq = j.seq + i
  BY <1>2 DEF Line, Lines
<1>4. lines \in Seq(Lines) /\ Len(lines) = Len(evs) BY <1>2, <1>3
<1>5. \A i \in 1..Len(evs) : lines[i].epoch = j.epoch /\ lines[i].seq = j.seq + i BY <1>3
<1> HIDE DEF lines
<1>6. Rising(lines) BY <1>2, <1>4, <1>5 DEF Rising, Before
<1>7. Elems(lines) = {lines[i] : i \in 1..Len(evs)} BY <1>4 DEF Elems
<1>8. \A l \in Elems(lines) : l.epoch = j.epoch /\ j.seq < l.seq /\ l.seq <= j.seq + Len(evs)
  BY <1>2, <1>5, <1>7
<1> QED BY <1>1, <1>4, <1>6, <1>8

LEMMA DispatchIsSound ==
  ASSUME NEW f, NEW j, NEW n, Sound(f, j, n), j.ready, NEW evs \in Seq(Nat)
  PROVE  Sound(f, dispatchAll(j, evs), n) /\ dispatchAll(j, evs).ready
<1>1. CASE evs = <<>> BY <1>1 DEF dispatchAll
<1>2. CASE evs # <<>>
  <2> DEFINE first == append(j, evs[1])
             more == LinesOf(first, Tail(evs))
             seq == j.seq + Len(evs)
             k == [first EXCEPT !.seq = seq, !.pendingLines = @ \o more]
  <2>1. dispatchAll(j, evs) = k BY <1>2 DEF dispatchAll
  <2>2. j.seq \in Nat BY DEF Sound, Journals
  <2>3. /\ Len(evs) \in Nat /\ Len(evs) >= 1 /\ evs[1] \in Nat /\ Tail(evs) \in Seq(Nat)
        /\ Len(Tail(evs)) = Len(evs) - 1
    BY <1>2
  <2>4. Sound(f, first, n) /\ first.ready /\ first.epoch = j.epoch /\ first.seq = j.seq + 1
    BY <2>3, AppendIsSound
  <2> HIDE DEF first
  <2>5. first.epoch \in Nat /\ first.seq \in Nat /\ DOMAIN first = JournalFields
    BY <2>4 DEF Sound, Journals, JournalFields
  <2>6. /\ more \in Seq(Lines) /\ Rising(more)
        /\ \A l \in Elems(more) : /\ l.epoch = first.epoch /\ first.seq < l.seq
                                  /\ l.seq <= first.seq + Len(Tail(evs))
    BY <2>3, <2>5, LinesOfAreNumbered
  <2> HIDE DEF more
  <2>7. seq \in Nat /\ first.seq <= seq /\ first.seq + Len(Tail(evs)) = seq
    <3> DEFINE m == Len(evs)
               s == j.seq
    <3>1. m \in Nat /\ m >= 1 /\ s \in Nat BY <2>2, <2>3
    <3>2. first.seq = s + 1 /\ Len(Tail(evs)) = m - 1 /\ seq = s + m BY <2>3, <2>4
    <3> HIDE DEF m, s, seq
    <3>3. (s + 1) + (m - 1) = s + m /\ s + 1 <= s + m /\ s + m \in Nat BY <3>1
    <3> QED BY <3>2, <3>3
  <2> HIDE DEF seq
  <2>8. Sound(f, k, n) BY <2>4, <2>6, <2>7, QueueIsSound
  <2>9. k.ready BY <2>4, <2>5 DEF JournalFields
  <2> QED BY <2>1, <2>8, <2>9
<1> QED BY <1>1, <1>2

Opened(e, s, p) == [ready |-> TRUE, epoch |-> e, seq |-> s, headerPending |-> p,
                    pendingLines |-> <<>>, writing |-> <<>>]

(* Opening takes the seq from the greatest number in the file, of whatever *)
(* epoch.                                                                  *)
LEMMA OpenIsSound ==
  ASSUME NEW f, NEW j, NEW n, Sound(f, j, n)
  PROVE  LET k == open(f, n + 1)
         IN  Sound(f, k, Higher(n, k.epoch)) /\ k.ready
<1> DEFINE h == FirstHeader(f)
           seqs == {0} \cup {l.seq : l \in EventLines(f)}
           fresh == [Unopened EXCEPT !.ready = TRUE, !.epoch = n + 1, !.headerPending = TRUE]
           old == [Unopened EXCEPT !.ready = TRUE, !.epoch = f.lines[h].epoch, !.seq = Max(seqs)]
           k == open(f, n + 1)
<1>1. k = IF h = 0 THEN fresh ELSE old BY DEF open
<1>2. f \in Files /\ n \in Nat /\ f.lines \in Seq(Lines) /\ Len(f.lines) \in Nat
  BY DEF Sound, Files
<1>3. \A l \in Elems(f.lines) : l \in Lines /\ l.epoch \in Nat /\ l.epoch <= n
  BY <1>2, ElemsAreRange DEF Sound, Numbered, Lines
<1>4. ASSUME NEW e \in Nat, NEW s \in Nat, NEW p \in BOOLEAN, e <= Higher(n, e),
             \A l \in Elems(f.lines) : l.kind = "event" /\ l.epoch = e => l.seq <= s
      PROVE  Sound(f, Opened(e, s, p), Higher(n, e))
  <2> DEFINE o == Opened(e, s, p)
  <2>1. /\ o.ready /\ o.epoch = e /\ o.seq = s /\ o.writing = <<>> /\ o.pendingLines = <<>>
        /\ o \in Journals
    BY NothingInOrder DEF Opened, Journals
  <2> HIDE DEF o
  <2>2. InOrder(f, o) BY <2>1, NothingInOrder DEF Sound, InOrder, Below
  <2>3. Higher(n, e) \in Nat /\ n <= Higher(n, e) BY <1>2 DEF Higher
  <2>4. \A l \in Elems(f.lines) : l.epoch <= Higher(n, e)
    <3> TAKE l \in Elems(f.lines)
    <3>1. l.epoch \in Nat /\ l.epoch <= n BY <1>3
    <3> HIDE DEF Higher
    <3> QED BY <1>2, <2>3, <3>1
  <2>5. Numbered(f, o, Higher(n, e)) BY <1>4, <2>1, <2>4, NothingInOrder DEF Numbered
  <2> QED BY <1>2, <2>1, <2>2, <2>3, <2>5 DEF Sound, o
<1>5. CASE h = 0
  <2>1. fresh = Opened(n + 1, 0, TRUE) /\ fresh.epoch = n + 1 /\ fresh.ready
    <3> DEFINE e == n + 1
    <3>1. fresh = [Unopened EXCEPT !.ready = TRUE, !.epoch = e, !.headerPending = TRUE]
      OBVIOUS
    <3> HIDE DEF fresh
    <3>2. e = n + 1 OBVIOUS
    <3> HIDE DEF e
    <3>3. fresh = Opened(e, 0, TRUE) /\ fresh.epoch = e /\ fresh.ready
      BY <3>1 DEF Unopened, Opened
    <3> QED BY <3>2, <3>3
  <2> HIDE DEF fresh
  <2>2. n + 1 \in Nat /\ 0 \in Nat /\ n + 1 <= Higher(n, n + 1) BY <1>2 DEF Higher
  <2>3. \A l \in Elems(f.lines) : l.epoch # n + 1 BY <1>2, <1>3
  <2>4. Sound(f, fresh, Higher(n, n + 1)) BY <1>4, <2>1, <2>2, <2>3
  <2> QED BY <1>1, <1>5, <2>1, <2>4
<1>6. CASE h # 0
  <2> DEFINE e == f.lines[h].epoch
             s == Max(seqs)
  <2>1. h \in 1..Len(f.lines)
    <3> DEFINE I == {i \in 1..Len(f.lines) : f.lines[i].kind = "header"}
    <3>1. h = IF I # {} THEN SelectInSeq(f.lines, LAMBDA l : l.kind = "header") ELSE 0
      BY <1>6 DEF FirstHeader, SelectInSeq
    <3>2. h = IF I # {} THEN Min(I) ELSE 0 BY DEF FirstHeader, SelectInSeq
    <3>3. I # {} BY <1>6, <3>2
    <3>4. I \subseteq Nat OBVIOUS
    <3>5. PICK m \in I : \A i \in I : m =< i
      <4> HIDE DEF I
      <4> QED BY <3>3, <3>4, LeastElement
    <3>6. Min(I) \in I BY <3>5 DEF Min
    <3> HIDE DEF h
    <3> QED BY <3>2, <3>3, <3>6
  <2> HIDE DEF h
  <2>2. e \in Nat /\ e <= n BY <1>2, <1>3, <2>1, ElemsAreRange
  <2>3. /\ EventLines(f) \subseteq Elems(f.lines)
        /\ \A l \in Elems(f.lines) : l.kind = "event" => l \in EventLines(f)
    BY <1>2, ElemsAreRange DEF EventLines
  <2>4. s \in Nat /\ \A x \in seqs : x =< s
    <3> DEFINE q == [i \in 1..Len(f.lines) |-> f.lines[i].seq]
    <3>1. \A l \in Elems(f.lines) : l.seq \in Nat BY <1>3 DEF Lines
    <3>2. \A i \in 1..Len(f.lines) : q[i] \in Nat BY <1>2, <3>1, ElemsAreRange
    <3>3. PICK b \in Nat : \A i \in 1..Len(f.lines) : q[i] =< b
      <4> HIDE DEF q
      <4> QED BY <1>2, <3>2, Bounded
    <3>4. \A l \in Elems(f.lines) : l.seq =< b BY <3>3 DEF Elems
    <3>5. seqs \subseteq Nat /\ seqs # {} /\ \A x \in seqs : x =< b BY <2>3, <3>1, <3>4
    <3> HIDE DEF seqs
    <3>6. Max(seqs) \in seqs /\ \A x \in seqs : x =< Max(seqs) BY <3>5, Greatest
    <3> QED BY <3>5, <3>6
  <2>5. \A l \in Elems(f.lines) : l.kind = "event" /\ l.epoch = e => l.seq <= s
    BY <2>3, <2>4
  <2>6. old = Opened(e, s, FALSE) /\ old.epoch = e /\ old.ready
    <3> HIDE DEF e, s
    <3>1. old = [Unopened EXCEPT !.ready = TRUE, !.epoch = e, !.seq = s] BY DEF e, s
    <3> HIDE DEF old
    <3> QED BY <3>1 DEF Unopened, Opened
  <2>7. e <= Higher(n, e) BY <1>2, <2>2 DEF Higher
  <2> HIDE DEF e, s, old
  <2>8. Sound(f, old, Higher(n, e)) BY <1>4, <2>2, <2>4, <2>5, <2>6, <2>7
  <2> QED BY <1>1, <1>6, <2>6, <2>8
<1> QED BY <1>5, <1>6

-----------------------------------------------------------------------------
(* What happens to the journal.                                            *)

(* The file takes lines that were on their way; the journal keeps those    *)
(* that are still.                                                         *)
LEMMA WriteIsSound ==
  ASSUME NEW f, NEW j, NEW n, Sound(f, j, n), NEW k \in Journals, NEW batch \in Seq(Lines),
         Rising(batch), Below(Elems(f.lines), Elems(batch)),
         Elems(batch) \subseteq Elems(j.writing) \cup Elems(j.pendingLines),
         k.writing = <<>> /\ Rising(k.pendingLines),
         Elems(k.pendingLines) \subseteq Elems(j.pendingLines),
         Below(Elems(batch), Elems(k.pendingLines)),
         ~ k.ready => k.pendingLines = <<>>,
         k.ready => j.ready /\ k.seq = j.seq /\ k.epoch = j.epoch,
         k.epoch <= n,
         NEW torn \in BOOLEAN
  PROVE  /\ Sound(appendFile(f, batch), k, n)
         /\ Sound([appendFile(f, batch) EXCEPT !.torn = torn], k, n)
         /\ Sound(f, k, n)
<1> DEFINE g == appendFile(f, batch)
<1>1. f \in Files /\ n \in Nat /\ j \in Journals /\ InOrder(f, j) /\ Numbered(f, j, n) BY DEF Sound
<1>2. /\ g \in Files /\ Rising(g.lines)
      /\ Elems(g.lines) \subseteq Elems(f.lines) \cup Elems(batch)
  BY <1>1, AppendFileRises DEF InOrder
<1> HIDE DEF g
<1>3. ASSUME NEW e \in Files, Rising(e.lines),
             Elems(e.lines) \subseteq Elems(f.lines) \cup Elems(batch)
      PROVE  Sound(e, k, n)
  <2>1. Elems(k.writing) = {} /\ Rising(k.writing) BY NothingInOrder
  <2>2. Below(Elems(e.lines), Elems(k.pendingLines)) BY <1>1, <1>3 DEF InOrder, Below
  <2>3. InOrder(e, k) BY <1>3, <2>1, <2>2 DEF InOrder, Below
  <2>4. Elems(e.lines) \cup Elems(k.writing) \cup Elems(k.pendingLines) \subseteq
          Elems(f.lines) \cup Elems(j.writing) \cup Elems(j.pendingLines)
    BY <1>3, <2>1
  <2>5. Numbered(e, k, n) BY <1>1, <2>4 DEF Numbered
  <2> QED BY <1>1, <1>3, <2>3, <2>5 DEF Sound
<1>4. Sound(g, k, n) BY <1>2, <1>3
<1>5. Sound([g EXCEPT !.torn = torn], k, n)
  <2> DEFINE e == [g EXCEPT !.torn = torn]
  <2>1. e \in Files /\ e.lines = g.lines BY <1>2 DEF Files
  <2> HIDE DEF e
  <2> QED BY <1>2, <1>3, <2>1 DEF e
<1>6. Sound(f, k, n) BY <1>1, <1>3 DEF InOrder
<1> QED BY <1>4, <1>5, <1>6 DEF g

LEMMA UnopenedIsJournal ==
  /\ Unopened \in Journals /\ ~ Unopened.ready /\ Unopened.epoch = 0
  /\ Unopened.writing = <<>> /\ Unopened.pendingLines = <<>>
BY NothingInOrder DEF Unopened, Journals

LEMMA InitJournal == Init => JournalInv
<1> SUFFICES ASSUME Init PROVE JournalInv OBVIOUS
<1>1. disk = [lines |-> <<>>, torn |-> FALSE] /\ journal = Unopened /\ epochs = 0
      /\ published = 0 /\ waiting = <<>>
  BY DEF Init
<1>2. disk \in Files /\ disk.lines = <<>> BY <1>1, NothingInOrder DEF Files
<1>3. InOrder(disk, journal)
  BY <1>1, <1>2, NothingInOrder, UnopenedIsJournal DEF InOrder, Below
<1>4. Numbered(disk, journal, epochs)
  BY <1>1, <1>2, NothingInOrder, UnopenedIsJournal DEF Numbered
<1> QED BY <1>1, <1>2, <1>3, <1>4, UnopenedIsJournal DEF JournalInv, Sound

LEMMA NextJournal == JournalInv /\ [Next]_vars => JournalInv'
<1> SUFFICES ASSUME JournalInv, [Next]_vars PROVE JournalInv' OBVIOUS
<1>1. Sound(disk, journal, epochs) /\ published \in Nat /\ waiting \in Seq(Nat)
  BY DEF JournalInv
<1>2. (JournalInv' <=> Sound(disk', journal', epochs') /\ published' \in Nat
                       /\ waiting' \in Seq(Nat))
  BY DEF JournalInv, Sound, InOrder, Numbered, Below, Rising, Elems
<1>3. CASE UNCHANGED <<published, waiting, disk, journal, epochs>>
  <2>1. disk' = disk /\ journal' = journal /\ epochs' = epochs
        /\ published' = published /\ waiting' = waiting
    BY <1>3
  <2> QED BY <1>1, <1>2, <2>1
<1>4. CASE _onEvent
  <2>1. disk' = disk /\ epochs' = epochs /\ published' = published + 1 /\ published' \in Nat
    BY <1>1, <1>4 DEF _onEvent
  <2>2. CASE journal.ready
    <3>1. journal' = dispatchAll(journal, <<published + 1>>) /\ waiting' = waiting
      BY <1>4, <2>2 DEF _onEvent, _dispatch
    <3>2. <<published + 1>> \in Seq(Nat) BY <1>1
    <3>3. Sound(disk, dispatchAll(journal, <<published + 1>>), epochs)
      BY <1>1, <2>2, <3>2, DispatchIsSound
    <3> QED BY <1>1, <1>2, <2>1, <3>1, <3>3
  <2>3. CASE ~ journal.ready
    <3>1. journal' = journal /\ waiting' = Append(waiting, published + 1)
      BY <1>4, <2>3 DEF _onEvent
    <3>2. waiting' \in Seq(Nat) BY <1>1, <3>1
    <3> QED BY <1>1, <1>2, <2>1, <3>1, <3>2
  <2> QED BY <2>2, <2>3
<1>5. CASE _getOrCreateSession
  <2> DEFINE j == open(disk, epochs + 1)
  <2>1. /\ journal' = dispatchAll(j, waiting) /\ epochs' = Higher(epochs, j.epoch)
        /\ waiting' = <<>> /\ disk' = disk /\ published' = published
    BY <1>5 DEF _getOrCreateSession, _dispatch
  <2>2. Sound(disk, j, Higher(epochs, j.epoch)) /\ j.ready BY <1>1, OpenIsSound
  <2> HIDE DEF j
  <2>3. Sound(disk, dispatchAll(j, waiting), Higher(epochs, j.epoch))
    BY <1>1, <2>2, DispatchIsSound
  <2>4. waiting' \in Seq(Nat) BY <2>1
  <2> QED BY <1>1, <1>2, <2>1, <2>3, <2>4
<1>6. CASE Written
  <2> DEFINE k == [journal EXCEPT !.writing = <<>>]
  <2>1. /\ journal' = k /\ epochs' = epochs /\ published' = published /\ waiting' = waiting
        /\ disk' = appendFile(disk, journal.writing) \/ disk' = disk
        /\ journal.writing # <<>>
    BY <1>6 DEF Written
  <2>2. /\ journal \in Journals /\ DOMAIN journal = JournalFields
        /\ journal.writing \in Seq(Lines) /\ journal.ready /\ journal.epoch <= epochs
    BY <1>1, <2>1 DEF Sound, Journals, JournalFields, Numbered
  <2>3. /\ k \in Journals /\ k.writing = <<>> /\ k.pendingLines = journal.pendingLines
        /\ k.ready = journal.ready /\ k.seq = journal.seq /\ k.epoch = journal.epoch
    BY <2>2, NothingInOrder DEF Journals, JournalFields
  <2> HIDE DEF k
  <2>4. InOrder(disk, journal) BY <1>1 DEF Sound
  <2>5. Sound(appendFile(disk, journal.writing), k, epochs) /\ Sound(disk, k, epochs)
    BY <1>1, <2>2, <2>3, <2>4, WriteIsSound DEF InOrder
  <2> QED BY <1>1, <1>2, <2>1, <2>5
<1>7. ASSUME NEW i \in DOMAIN syncs, readJournal(i) PROVE JournalInv'
  <2>1. /\ journal' = flushOnce(journal) \/ journal' = journal
        /\ journal.pendingLines # <<>> \/ journal' = journal
        /\ disk' = disk /\ epochs' = epochs /\ published' = published /\ waiting' = waiting
    BY <1>7 DEF readJournal
  <2>2. CASE journal' = journal BY <1>1, <1>2, <2>1, <2>2
  <2>3. CASE journal' = flushOnce(journal) /\ journal.pendingLines # <<>>
    <3>1. journal.ready BY <1>1, <2>3 DEF Sound
    <3>2. Sound(disk, flushOnce(journal), epochs) BY <1>1, <3>1, FlushIsSound
    <3> QED BY <1>1, <1>2, <2>1, <2>3, <3>2
  <2> QED BY <2>1, <2>2, <2>3
<1>8. CASE restart
  <2>1. /\ journal' = Unopened /\ epochs' = epochs /\ published' = published /\ waiting' = <<>>
        /\ \/ disk' = appendFile(disk, journal.writing \o journal.pendingLines)
           \/ \E k \in 0..Len(journal.writing) :
                disk' = appendFile(disk, SubSeq(journal.writing, 1, k))
           \/ \E k \in 0..Len(journal.writing) - 1 :
                disk' = [appendFile(disk, SubSeq(journal.writing, 1, k)) EXCEPT !.torn = TRUE]
    BY <1>8 DEF restart
  <2>2. /\ journal \in Journals /\ journal.writing \in Seq(Lines)
        /\ journal.pendingLines \in Seq(Lines) /\ InOrder(disk, journal)
        /\ epochs \in Nat /\ Len(journal.writing) \in Nat
    BY <1>1 DEF Sound, Journals
  <2>3. ASSUME NEW batch \in Seq(Lines), Rising(batch),
               Below(Elems(disk.lines), Elems(batch)),
               Elems(batch) \subseteq Elems(journal.writing) \cup Elems(journal.pendingLines)
        PROVE  /\ Sound(appendFile(disk, batch), Unopened, epochs)
               /\ Sound([appendFile(disk, batch) EXCEPT !.torn = TRUE], Unopened, epochs)
    <3>1. /\ Elems(Unopened.pendingLines) = {} /\ Rising(Unopened.pendingLines)
          /\ Unopened.epoch <= epochs
      BY <2>2, UnopenedIsJournal, NothingInOrder
    <3>2. Below(Elems(batch), Elems(Unopened.pendingLines)) BY <3>1 DEF Below
    <3> QED BY <1>1, <2>3, <3>1, <3>2, UnopenedIsJournal, WriteIsSound
  <2>4. \A k \in 0..Len(journal.writing) :
          /\ Sound(appendFile(disk, SubSeq(journal.writing, 1, k)), Unopened, epochs)
          /\ Sound([appendFile(disk, SubSeq(journal.writing, 1, k)) EXCEPT !.torn = TRUE],
                   Unopened, epochs)
    <3> TAKE k \in 0..Len(journal.writing)
    <3> DEFINE batch == SubSeq(journal.writing, 1, k)
    <3>1. batch \in Seq(Lines) /\ Elems(batch) \subseteq Elems(journal.writing) /\ Rising(batch)
      BY <2>2, PartRises DEF InOrder
    <3> HIDE DEF batch
    <3>2. Below(Elems(disk.lines), Elems(batch)) BY <2>2, <3>1 DEF InOrder, Below
    <3>3. /\ Sound(appendFile(disk, batch), Unopened, epochs)
          /\ Sound([appendFile(disk, batch) EXCEPT !.torn = TRUE], Unopened, epochs)
      BY <2>3, <3>1, <3>2
    <3> QED BY <3>3 DEF batch
  <2>5. Sound(appendFile(disk, journal.writing \o journal.pendingLines), Unopened, epochs)
    <3> DEFINE batch == journal.writing \o journal.pendingLines
    <3>1. /\ batch \in Seq(Lines) /\ Rising(batch)
          /\ Elems(batch) = Elems(journal.writing) \cup Elems(journal.pendingLines)
      BY <2>2, ConcatRises DEF InOrder
    <3> HIDE DEF batch
    <3>2. Below(Elems(disk.lines), Elems(batch)) BY <2>2, <3>1 DEF InOrder, Below
    <3>3. Sound(appendFile(disk, batch), Unopened, epochs) BY <2>3, <3>1, <3>2
    <3> QED BY <3>3 DEF batch
  <2>6. \A k \in 0..Len(journal.writing) - 1 : k \in 0..Len(journal.writing) BY <2>2
  <2>7. Sound(disk', Unopened, epochs) BY <2>1, <2>4, <2>5, <2>6
  <2>8. waiting' \in Seq(Nat) BY <2>1
  <2> QED BY <1>1, <1>2, <2>1, <2>7, <2>8
<1>9. CASE UNCHANGED vars BY <1>3, <1>9 DEF vars, server
<1>10. ASSUME NEW i \in DOMAIN syncs, getBufferedSince(i) PROVE JournalInv'
  BY <1>3, <1>10 DEF getBufferedSince, server
<1>11. CASE _onVolatile \/ syncSessions \/ ClientStep \/ fetchFails \/ selectSession \/ drop
  BY <1>3, <1>11 DEF _onVolatile, syncSessions, ClientStep, handleFrame, onServerHello,
     getSnapshotState, syncSessionFromSnapshot, fetchFails, selectSession, drop, server
<1> QED BY <1>4, <1>5, <1>6, <1>7, <1>8, <1>9, <1>10, <1>11 DEF Next, ServerStep

-----------------------------------------------------------------------------
(* The lines on disk, being written and queued are in order, none is ahead *)
(* of an open journal's seq and none is of an epoch to come: the inductive *)
(* invariant, kept by append, flush, open and by what a crash leaves       *)
(* (sessionEventJournal.ts:82-199).                                        *)
THEOREM JournalIsSound == Spec => []JournalInv
<1>1. Init => JournalInv BY InitJournal
<1>2. JournalInv /\ [Next]_vars => JournalInv' BY NextJournal
<1> QED BY <1>1, <1>2, PTL DEF Spec

(* Within an epoch the numbers in the file only grow, so that a client can *)
(* ask for what comes after a number, whatever crashes, failed writes and  *)
(* torn lines leave (sessionEventJournal.ts:82-117).                       *)
THEOREM FileStaysOrdered == Spec => []FileIsOrdered
<1>1. JournalInv => FileIsOrdered
  <2> SUFFICES ASSUME JournalInv PROVE FileIsOrdered OBVIOUS
  <2>1. disk.lines \in Seq(Lines) /\ Rising(disk.lines)
    BY DEF JournalInv, Sound, InOrder, Files
  <2>2. DOMAIN disk.lines = 1..Len(disk.lines) BY <2>1
  <2> QED BY <2>1, <2>2 DEF FileIsOrdered, Rising, Before
<1> QED BY <1>1, JournalIsSound, PTL

-----------------------------------------------------------------------------
Frames  == [kind : {"header", "event", "resync_required", "volatile"},
            epoch : Nat, seq : Nat, ev : Nat]
Cursors == [seq : Nat, epoch : Nat]
Syncs   == [cursor : Cursors, at : {"queue", "disk"}]
Clients == [loaded : BOOLEAN, cursor : Cursors, lastSeq : Nat, epoch : Nat,
            has : SUBSET Nat, base : Cursors]
Snaps   == [phase : {"idle", "asked", "answered"}, at : Cursors, has : SUBSET Nat,
            again : BOOLEAN]

(* The events of the journal's epoch, on disk and on their way.            *)
LogOf(f, j) ==
  {l \in Elems(f.lines) \cup Elems(j.writing) \cup Elems(j.pendingLines) :
     l.kind = "event" /\ l.epoch = j.epoch}

SeqsRise(t) == \A i, j \in 1..Len(t) : i < j => t[i].seq < t[j].seq

(* The tail t holds the end of the log of journal j.                       *)
EndOf(log, j, t) ==
  /\ \A l \in Elems(t) : l.kind = "event" /\ l.epoch = j.epoch /\ l.seq <= j.seq
  /\ SeqsRise(t)
  /\ \A l \in log : t # <<>> /\ t[1].seq <= l.seq => l \in Elems(t)

(* The frame of an event comes after the k-th.                             *)
Sent(ev, frames, k) ==
  \E i \in 1..Len(frames) : k < i /\ frames[i].kind = "event" /\ frames[i].ev = ev

(* What is not in a resync's position follows it.                          *)
Followed(log, frames) ==
  \A k \in 1..Len(frames) : frames[k].kind = "resync_required" =>
    \A l \in log : frames[k].seq < l.seq => Sent(l.ev, frames, k)

Reset(frames) == \E f \in Elems(frames) : f.kind = "resync_required"

(* A question from a seq that is no later is not answered yet.             *)
Asking(asked, calls, seq) ==
  \/ \E c \in Elems(asked) : c.seq <= seq
  \/ \E s \in Elems(calls) : s.at = "queue" /\ s.cursor.seq <= seq

Replays(s, l) == s.at = "disk" /\ s.cursor.seq < l.seq /\ l.seq <= s.cursor.seq + MaxBuffer

Reaches(log, seq, has, frames, calls) ==
  \A l \in log : seq < l.seq =>
    \/ l.ev \in has
    \/ Sent(l.ev, frames, 0)
    \/ \E s \in Elems(calls) : Replays(s, l)

WireTypes ==
  /\ link \in BOOLEAN /\ live \in BOOLEAN
  /\ syncs \in Seq(Syncs) /\ toServer \in Seq(Cursors) /\ toClient \in Seq(Frames)
  /\ client \in Clients /\ snap \in Snaps
  /\ tail \in Seq(Lines)

WireIsLive ==
  /\ toClient # <<>> => journal.ready /\ live
  /\ \A s \in Elems(syncs) : live /\ (s.at = "disk" => journal.ready)

TailIsEnd ==
  /\ ~ journal.ready => tail = <<>>
  /\ EndOf(LogOf(disk, journal), journal, tail)

ResyncsFollowed == Followed(LogOf(disk, journal), toClient)

NoEventLost ==
  link /\ client.loaded =>
    \/ Asking(toServer, syncs, client.base.seq)
    \/ /\ journal.ready /\ live
       /\ \/ Reset(toClient)
          \/ OneEpochOnDisk =>
               Reaches(LogOf(disk, journal), client.base.seq, client.has, toClient, syncs)

SyncInv == WireTypes /\ WireIsLive /\ TailIsEnd /\ ResyncsFollowed /\ NoEventLost

-----------------------------------------------------------------------------
(* Sequences.                                                              *)

LEMMA ElemsOf ==
  ASSUME NEW X, NEW s \in Seq(X)
  PROVE  /\ Len(s) \in Nat /\ Elems(s) \subseteq X
         /\ \A i \in 1..Len(s) : s[i] \in Elems(s) /\ s[i] \in X
         /\ s = <<>> <=> Elems(s) = {}
         /\ s = <<>> <=> Len(s) = 0
<1>1. Len(s) \in Nat /\ (s = <<>> <=> Len(s) = 0) /\ \A i \in 1..Len(s) : s[i] \in X
  BY EmptySeq
<1>2. /\ Elems(s) \subseteq X /\ \A i \in 1..Len(s) : s[i] \in Elems(s) BY <1>1 DEF Elems
<1>3. Len(s) # 0 => 1 \in 1..Len(s) BY <1>1
<1>4. Len(s) = 0 => Elems(s) = {} BY DEF Elems
<1> QED BY <1>1, <1>2, <1>3, <1>4

LEMMA ConcatElems ==
  ASSUME NEW X, NEW s \in Seq(X), NEW t \in Seq(X)
  PROVE  /\ s \o t \in Seq(X) /\ Elems(s \o t) = Elems(s) \cup Elems(t)
         /\ Len(s \o t) = Len(s) + Len(t)
         /\ \A i \in 1..Len(s) : i \in 1..Len(s \o t) /\ (s \o t)[i] = s[i]
         /\ \A i \in 1..Len(t) : /\ Len(s) + i \in 1..Len(s \o t)
                                 /\ (s \o t)[Len(s) + i] = t[i]
<1> DEFINE m == Len(s)
           n == Len(t)
           c == s \o t
<1>1. /\ c \in Seq(X) /\ Len(c) = m + n /\ m \in Nat /\ n \in Nat
      /\ \A i \in 1..(m + n) : c[i] = IF i <= m THEN s[i] ELSE t[i - m]
  BY ConcatProperties
<1> HIDE DEF m, n, c
<1>2. \A i \in 1..m : i \in 1..(m + n) /\ c[i] = s[i] BY <1>1
<1>3. ASSUME NEW i \in 1..n PROVE m + i \in 1..(m + n) /\ c[m + i] = t[i]
  <2>1. m + i \in 1..(m + n) /\ ~ (m + i <= m) /\ (m + i) - m = i BY <1>1
  <2> QED BY <1>1, <2>1
<1>4. ASSUME NEW i \in 1..(m + n)
      PROVE  (\E k \in 1..m : c[i] = s[k]) \/ (\E k \in 1..n : c[i] = t[k])
  <2>1. CASE i <= m
    <3>1. i \in 1..m BY <1>1, <2>1
    <3> QED BY <1>2, <3>1
  <2>2. CASE ~ (i <= m)
    <3>1. i - m \in 1..n BY <1>1, <2>2
    <3> QED BY <1>1, <2>2, <3>1
  <2> QED BY <2>1, <2>2
<1>5. Elems(c) = {c[i] : i \in 1..(m + n)} BY <1>1 DEF Elems
<1>6. Elems(s) = {s[i] : i \in 1..m} /\ Elems(t) = {t[i] : i \in 1..n} BY DEF Elems, m, n
<1>7. \A x \in Elems(c) : x \in Elems(s) \cup Elems(t) BY <1>4, <1>5, <1>6
<1>8. \A x \in Elems(s) \cup Elems(t) : x \in Elems(c) BY <1>2, <1>3, <1>5, <1>6
<1>9. Elems(c) = Elems(s) \cup Elems(t) BY <1>7, <1>8
<1> QED BY <1>1, <1>2, <1>3, <1>9 DEF m, n, c

LEMMA OneElem ==
  ASSUME NEW X, NEW x \in X
  PROVE  <<x>> \in Seq(X) /\ Len(<<x>>) = 1 /\ <<x>>[1] = x /\ Elems(<<x>>) = {x}
<1>1. Len(<<x>>) = 1 /\ <<x>>[1] = x /\ <<x>> \in Seq(X) OBVIOUS
<1> DEFINE s == <<x>>
<1> HIDE DEF s
<1>2. s \in Seq(X) /\ Len(s) = 1 /\ s[1] = x BY <1>1 DEF s
<1>3. Elems(s) = {x} BY <1>2 DEF Elems
<1> QED BY <1>2, <1>3 DEF s

LEMMA TailElems ==
  ASSUME NEW X, NEW s \in Seq(X), s # <<>>
  PROVE  /\ Tail(s) \in Seq(X) /\ Len(Tail(s)) = Len(s) - 1 /\ Len(s) >= 1
         /\ Head(s) = s[1] /\ Head(s) \in X /\ Elems(s) = {Head(s)} \cup Elems(Tail(s))
         /\ \A i \in 1..Len(Tail(s)) : Tail(s)[i] = s[i + 1] /\ i + 1 \in 1..Len(s)
<1> DEFINE t == Tail(s)
<1>1. /\ Len(s) \in Nat /\ Len(s) >= 1 /\ Head(s) = s[1] /\ s[1] \in X
      /\ t \in Seq(X) /\ Len(t) = Len(s) - 1
  OBVIOUS
<1>2. \A i \in 1..Len(t) : t[i] = s[i + 1] BY HeadTailProperties
<1> HIDE DEF t
<1>3. \A i \in 1..Len(t) : i + 1 \in 1..Len(s) BY <1>1
<1>4. \A i \in 1..Len(s) : i = 1 \/ (i - 1 \in 1..Len(t) /\ (i - 1) + 1 = i) BY <1>1
<1>5. \A x \in Elems(s) : x = s[1] \/ x \in Elems(t)
  <2> SUFFICES ASSUME NEW i \in 1..Len(s) PROVE s[i] = s[1] \/ s[i] \in Elems(t)
    BY DEF Elems
  <2>1. CASE i # 1
    <3>1. s[i] = t[i - 1] /\ i - 1 \in 1..Len(t) BY <1>2, <1>4, <2>1
    <3> QED BY <3>1 DEF Elems
  <2> QED BY <2>1
<1>6. \A x \in Elems(t) : x \in Elems(s) BY <1>2, <1>3 DEF Elems
<1>7. 1 \in 1..Len(s) /\ s[1] \in Elems(s)
  <2>1. 1 \in 1..Len(s) BY <1>1
  <2> QED BY <2>1 DEF Elems
<1>8. Elems(s) = {s[1]} \cup Elems(t) BY <1>5, <1>6, <1>7
<1> QED BY <1>1, <1>2, <1>3, <1>8 DEF t

(* A call that has ended is not under way any more, the others are.        *)
LEMMA RemoveKeeps ==
  ASSUME NEW X, NEW s \in Seq(X), NEW i \in 1..Len(s)
  PROVE  /\ RemoveAt(s, i) \in Seq(X) /\ Elems(RemoveAt(s, i)) \subseteq Elems(s)
         /\ \A x \in Elems(s) : x # s[i] => x \in Elems(RemoveAt(s, i))
<1> DEFINE a == SubSeq(s, 1, i - 1)
           b == SubSeq(s, i + 1, Len(s))
           m == Len(s)
<1>1. m \in Nat /\ i \in Nat /\ 1 <= i /\ i <= m /\ \A k \in 1..m : s[k] \in X OBVIOUS
<1>2. RemoveAt(s, i) = a \o b BY DEF RemoveAt
<1>3. a \in Seq(X) /\ Len(a) = i - 1 /\ \A k \in 1..(i - 1) : a[k] = s[k]
  <2>1. \A k \in 1..(i - 1) : s[k] \in X BY <1>1
  <2>2. /\ a \in Seq(X) /\ Len(a) = IF 1 <= i - 1 THEN (i - 1) - 1 + 1 ELSE 0
        /\ \A k \in 1..((i - 1) - 1 + 1) : a[k] = s[1 + k - 1]
    BY <2>1, SubSeqProperties
  <2> HIDE DEF a
  <2>3. Len(a) = i - 1 BY <1>1, <2>2
  <2>4. \A k \in 1..(i - 1) : k \in 1..((i - 1) - 1 + 1) /\ 1 + k - 1 = k BY <1>1
  <2> QED BY <2>2, <2>3, <2>4
<1>4. b \in Seq(X) /\ Len(b) = m - i /\ \A k \in 1..(m - i) : b[k] = s[i + k]
  <2>1. \A k \in (i + 1)..m : s[k] \in X BY <1>1
  <2>2. /\ b \in Seq(X) /\ Len(b) = IF i + 1 <= m THEN m - (i + 1) + 1 ELSE 0
        /\ \A k \in 1..(m - (i + 1) + 1) : b[k] = s[(i + 1) + k - 1]
    BY <2>1, SubSeqProperties
  <2> HIDE DEF b, m
  <2>3. Len(b) = m - i BY <1>1, <2>2
  <2>4. \A k \in 1..(m - i) : k \in 1..(m - (i + 1) + 1) /\ (i + 1) + k - 1 = i + k
    BY <1>1
  <2> QED BY <2>2, <2>3, <2>4
<1> HIDE DEF a, b, m
<1>5. a \o b \in Seq(X) /\ Elems(a \o b) = Elems(a) \cup Elems(b) BY <1>3, <1>4, ConcatElems
<1>6. Elems(s) = {s[k] : k \in 1..m} BY DEF Elems, m
<1>7. Elems(a) \subseteq Elems(s)
  <2>1. \A k \in 1..(i - 1) : k \in 1..m BY <1>1
  <2> QED BY <1>3, <1>6, <2>1 DEF Elems
<1>8. Elems(b) \subseteq Elems(s)
  <2>1. \A k \in 1..(m - i) : i + k \in 1..m BY <1>1
  <2> QED BY <1>4, <1>6, <2>1 DEF Elems
<1>9. ASSUME NEW k \in 1..m, k # i PROVE s[k] \in Elems(a) \cup Elems(b)
  <2>1. CASE k < i
    <3>1. k \in 1..(i - 1) BY <1>1, <2>1
    <3> QED BY <1>3, <3>1 DEF Elems
  <2>2. CASE ~ (k < i)
    <3>1. k - i \in 1..(m - i) /\ i + (k - i) = k BY <1>1, <1>9, <2>2
    <3>2. b[k - i] = s[k] BY <1>4, <3>1
    <3> QED BY <1>4, <3>1, <3>2 DEF Elems
  <2> QED BY <2>1, <2>2
<1>10. \A x \in Elems(s) : x # s[i] => x \in Elems(a) \cup Elems(b) BY <1>6, <1>9
<1> QED BY <1>2, <1>5, <1>7, <1>8, <1>10

(* A function on 0..n may be defined by its value at 0 and the step from   *)
(* each number to the next.                                                *)
Definable(n, S, a, step) ==
  \E g \in [0..n -> S] : g[0] = a /\ \A i \in 1..n : g[i] = step[i][g[i - 1]]

LEMMA Recursion ==
  ASSUME NEW n \in Nat, NEW S, NEW a \in S, NEW step \in [1..n -> [S -> S]]
  PROVE  Definable(n, S, a, step)
<1> DEFINE Upto(k, g) == g \in [0..k -> S] /\ g[0] = a
                         /\ \A i \in 1..k : g[i] = step[i][g[i - 1]]
           T == {k \in 0..n : ~ \E g : Upto(k, g)}
<1>1. SUFFICES ASSUME T # {} PROVE FALSE
  <2>1. n \in 0..n OBVIOUS
  <2>2. n \notin T OBVIOUS
  <2>3. \E g : Upto(n, g) BY <2>1, <2>2
  <2> QED BY <2>3 DEF Definable
<1>2. PICK m \in T : \A k \in T : m =< k
  <2>1. T \subseteq Nat OBVIOUS
  <2> HIDE DEF T
  <2> QED BY <1>1, <2>1, LeastElement
<1>3. m \in 0..n /\ ~ \E g : Upto(m, g) OBVIOUS
<1>4. CASE m = 0
  <2> DEFINE g == [i \in 0..0 |-> a]
  <2>1. Upto(0, g) OBVIOUS
  <2> QED BY <1>3, <1>4, <2>1
<1>5. CASE m # 0
  <2> DEFINE k == m - 1
  <2>1. k \in 0..n /\ k + 1 = m /\ k < m /\ m \in 1..n BY <1>3, <1>5
  <2>2. k \notin T
    <3>1. ASSUME k \in T PROVE FALSE
      <4>1. m =< k BY <1>2, <3>1
      <4> QED BY <1>3, <2>1, <4>1
    <3> QED BY <3>1
  <2>3. PICK g : Upto(k, g) BY <2>1, <2>2
  <2> HIDE DEF k
  <2>4. g \in [0..k -> S] /\ g[0] = a /\ \A i \in 1..k : g[i] = step[i][g[i - 1]] BY <2>3
  <2> DEFINE e == [i \in 0..m |-> IF i = m THEN step[m][g[k]] ELSE g[i]]
  <2>5. k \in 0..k /\ g[k] \in S BY <2>1, <2>4
  <2>6. step[m] \in [S -> S] BY <2>1
  <2>7. step[m][g[k]] \in S BY <2>5, <2>6
  <2>8. \A i \in 0..m : i # m => i \in 0..k BY <1>3, <2>1
  <2>9. e \in [0..m -> S] BY <2>4, <2>7, <2>8
  <2>10. e[0] = a BY <1>3, <1>5, <2>4
  <2>11. ASSUME NEW i \in 1..m PROVE e[i] = step[i][e[i - 1]]
    <3>1. i \in 0..m /\ i - 1 \in 0..m /\ i - 1 # m BY <1>3
    <3>2. e[i - 1] = g[i - 1] BY <3>1
    <3>3. CASE i = m
      <4>1. i - 1 = k BY <2>1, <3>3
      <4> QED BY <3>1, <3>2, <3>3, <4>1
    <3>4. CASE i # m
      <4>1. i \in 1..k BY <1>3, <2>1, <3>4
      <4> QED BY <2>4, <3>1, <3>2, <3>4, <4>1
    <3> QED BY <3>3, <3>4
  <2>12. Upto(m, e)
    <3> HIDE DEF e
    <3> QED BY <2>9, <2>10, <2>11
  <2> QED BY <1>3, <2>12
<1> QED BY <1>4, <1>5

-----------------------------------------------------------------------------
(* Frames.                                                                 *)

LEMMA SentElems ==
  ASSUME NEW s \in Seq(Frames), NEW ev
  PROVE  Sent(ev, s, 0) <=> \E x \in Elems(s) : x.kind = "event" /\ x.ev = ev
<1>1. \A i \in 1..Len(s) : 0 < i OBVIOUS
<1> QED BY <1>1 DEF Sent, Elems

(* Frames that go out after others: what follows a resync still does, and  *)
(* what is new in the log has a frame.                                     *)
LEMMA FramesGoOut ==
  ASSUME NEW s \in Seq(Frames), NEW t \in Seq(Frames), NEW log, NEW more,
         Followed(log, s), Followed(more, t),
         \A l \in more : l \in log \/ Sent(l.ev, t, 0)
  PROVE  /\ s \o t \in Seq(Frames)
         /\ Followed(more, s \o t)
         /\ \A ev : Sent(ev, s, 0) \/ Sent(ev, t, 0) => Sent(ev, s \o t, 0)
         /\ Reset(s) \/ Reset(t) => Reset(s \o t)
<1> DEFINE c == s \o t
           m == Len(s)
           n == Len(t)
<1>1. /\ c \in Seq(Frames) /\ Elems(c) = Elems(s) \cup Elems(t)
      /\ Len(c) = m + n /\ m \in Nat /\ n \in Nat
      /\ \A i \in 1..m : i \in 1..Len(c) /\ c[i] = s[i]
      /\ \A i \in 1..n : m + i \in 1..Len(c) /\ c[m + i] = t[i]
  BY ConcatElems, ElemsOf
<1> HIDE DEF c
<1>2. ASSUME NEW k \in Nat, NEW ev, Sent(ev, s, k) PROVE Sent(ev, c, k)
  BY <1>1, <1>2 DEF Sent, m
<1>3. ASSUME NEW k \in Nat, NEW ev, Sent(ev, t, k) PROVE Sent(ev, c, m + k)
  <2>1. PICK i \in 1..n : k < i /\ t[i].kind = "event" /\ t[i].ev = ev
    BY <1>3 DEF Sent, n
  <2>2. m + i \in 1..Len(c) /\ c[m + i] = t[i] BY <1>1
  <2> HIDE DEF m, n
  <2>3. m + k < m + i BY <1>1, <2>1
  <2> QED BY <2>1, <2>2, <2>3 DEF Sent
<1> HIDE DEF m, n
<1>4. ASSUME NEW k \in 0..m, NEW ev, Sent(ev, t, 0) PROVE Sent(ev, c, k)
  <2>1. Sent(ev, c, m + 0) BY <1>3, <1>4
  <2>2. PICK i \in 1..Len(c) : m + 0 < i /\ c[i].kind = "event" /\ c[i].ev = ev
    BY <2>1 DEF Sent
  <2>3. Len(c) \in Nat BY <1>1
  <2>4. k < i BY <1>1, <2>2, <2>3
  <2> QED BY <2>2, <2>4 DEF Sent
<1>5. Followed(more, c)
  <2> SUFFICES ASSUME NEW k \in 1..Len(c), c[k].kind = "resync_required",
                      NEW l \in more, c[k].seq < l.seq
               PROVE  Sent(l.ev, c, k)
    BY DEF Followed
  <2>1. CASE k <= m
    <3>1. k \in 1..m /\ k \in 0..m /\ k \in Nat BY <1>1, <2>1
    <3>2. c[k] = s[k] BY <1>1, <3>1
    <3>3. CASE l \in log
      <4>1. Sent(l.ev, s, k) BY <3>1, <3>2, <3>3 DEF Followed, m
      <4> QED BY <1>2, <3>1, <4>1
    <3>4. CASE Sent(l.ev, t, 0) BY <1>4, <3>1, <3>4
    <3> QED BY <3>3, <3>4
  <2>2. CASE ~ (k <= m)
    <3> DEFINE i == k - m
    <3>1. i \in 1..n /\ m + i = k /\ i \in Nat BY <1>1, <2>2
    <3> HIDE DEF i
    <3>2. c[k] = t[i] BY <1>1, <3>1
    <3>3. Sent(l.ev, t, i) BY <3>1, <3>2 DEF Followed, n
    <3>4. Sent(l.ev, c, m + i) BY <1>3, <3>1, <3>3
    <3> QED BY <3>1, <3>4
  <2> QED BY <2>1, <2>2
<1>6. ASSUME NEW ev, Sent(ev, s, 0) \/ Sent(ev, t, 0) PROVE Sent(ev, c, 0)
  <2>1. 0 \in Nat /\ 0 \in 0..m BY <1>1
  <2> QED BY <1>2, <1>4, <1>6, <2>1
<1>7. Reset(s) \/ Reset(t) => Reset(c) BY <1>1 DEF Reset
<1> QED BY <1>1, <1>5, <1>6, <1>7 DEF c

(* Frames that are not a resync: nothing need follow them.                 *)
LEMMA NothingFollows ==
  ASSUME NEW t \in Seq(Frames), \A x \in Elems(t) : x.kind # "resync_required", NEW log
  PROVE  Followed(log, t)
BY ElemsOf DEF Followed

LEMMA FollowsLess ==
  ASSUME NEW s, NEW log, NEW less, Followed(log, s), less \subseteq log
  PROVE  Followed(less, s)
BY DEF Followed

(* The first frame is taken.                                               *)
LEMMA FrameTaken ==
  ASSUME NEW s \in Seq(Frames), s # <<>>, NEW log, Followed(log, s)
  PROVE  /\ Followed(log, Tail(s))
         /\ Head(s).kind = "resync_required" =>
              \A l \in log : Head(s).seq < l.seq => Sent(l.ev, Tail(s), 0)
         /\ \A ev : Sent(ev, s, 0) =>
              Sent(ev, Tail(s), 0) \/ (Head(s).kind = "event" /\ Head(s).ev = ev)
         /\ Head(s).kind # "resync_required" /\ Reset(s) => Reset(Tail(s))
<1> DEFINE t == Tail(s)
<1>1. /\ t \in Seq(Frames) /\ Len(t) = Len(s) - 1 /\ Len(s) >= 1 /\ Head(s) = s[1]
      /\ Elems(s) = {Head(s)} \cup Elems(t) /\ Len(s) \in Nat
      /\ \A i \in 1..Len(t) : t[i] = s[i + 1] /\ i + 1 \in 1..Len(s)
  BY TailElems, ElemsOf
<1> HIDE DEF t
<1>2. ASSUME NEW k \in Nat, NEW ev, Sent(ev, s, k + 1) PROVE Sent(ev, t, k)
  <2>1. PICK i \in 1..Len(s) : k + 1 < i /\ s[i].kind = "event" /\ s[i].ev = ev
    BY <1>2 DEF Sent
  <2> DEFINE h == i - 1
  <2>2. h \in 1..Len(t) /\ h + 1 = i /\ k < h BY <1>1, <2>1
  <2> HIDE DEF h
  <2>3. t[h] = s[i] BY <1>1, <2>2
  <2> QED BY <2>1, <2>2, <2>3 DEF Sent
<1>3. Followed(log, t)
  <2> SUFFICES ASSUME NEW k \in 1..Len(t), t[k].kind = "resync_required",
                      NEW l \in log, t[k].seq < l.seq
               PROVE  Sent(l.ev, t, k)
    BY DEF Followed
  <2>1. s[k + 1] = t[k] /\ k + 1 \in 1..Len(s) /\ k \in Nat BY <1>1
  <2>2. Sent(l.ev, s, k + 1) BY <2>1 DEF Followed
  <2> QED BY <1>2, <2>1, <2>2
<1>4. ASSUME Head(s).kind = "resync_required", NEW l \in log, Head(s).seq < l.seq
      PROVE  Sent(l.ev, t, 0)
  <2>1. 1 \in 1..Len(s) /\ 0 \in Nat /\ 0 + 1 = 1 BY <1>1
  <2>2. Sent(l.ev, s, 1) BY <1>1, <1>4, <2>1 DEF Followed
  <2> QED BY <1>2, <2>1, <2>2
<1>5. ASSUME NEW ev, Sent(ev, s, 0)
      PROVE  Sent(ev, t, 0) \/ (Head(s).kind = "event" /\ Head(s).ev = ev)
  BY <1>1, <1>5, SentElems
<1>6. Head(s).kind # "resync_required" /\ Reset(s) => Reset(t) BY <1>1 DEF Reset
<1> QED BY <1>3, <1>4, <1>5, <1>6 DEF t

-----------------------------------------------------------------------------
(* The events after a seq.                                                 *)

IsAfter(l, from) == l.kind = "event" /\ from < l.seq

Chooses(lines, from, f) ==
  /\ f \in [0..Len(lines) -> Seq(Lines)]
  /\ f[0] = <<>>
  /\ \A n \in 1..Len(lines) :
       f[n] = IF IsAfter(lines[n], from) THEN Append(f[n - 1], lines[n]) ELSE f[n - 1]

LEMMA LinesSinceExist ==
  ASSUME NEW lines \in Seq(Lines), NEW from \in Nat
  PROVE  \E f : Chooses(lines, from, f) /\ LinesSince(lines, from) = f[Len(lines)]
<1> DEFINE len == Len(lines)
           M == Seq(Lines)
           Step(n, s) == IF lines[n].kind = "event" /\ lines[n].seq > from
                         THEN Append(s, lines[n]) ELSE s
           Sums(f) == f = [n \in 0..len |-> IF n = 0 THEN <<>> ELSE Step(n, f[n - 1])]
           f == CHOOSE g : Sums(g)
<1>1. len \in Nat OBVIOUS
<1>2. /\ \A n \in 1..len, s \in M : Step(n, s) \in M
      /\ \A n \in 1..len, s \in M :
           Step(n, s) = IF IsAfter(lines[n], from) THEN Append(s, lines[n]) ELSE s
  <2>1. \A n \in 1..len : lines[n] \in Lines OBVIOUS
  <2>2. \A l \in Lines : l.seq > from <=> from < l.seq BY DEF Lines
  <2>3. \A n \in 1..len :
          (lines[n].kind = "event" /\ lines[n].seq > from) <=> IsAfter(lines[n], from)
    BY <2>1, <2>2 DEF IsAfter
  <2>4. \A n \in 1..len, s \in M : Append(s, lines[n]) \in M BY <2>1
  <2> QED BY <2>3, <2>4
<1>3. LinesSince(lines, from) = f[len] BY DEF LinesSince
<1>4. <<>> \in M OBVIOUS
<1> HIDE DEF len, M, Step
<1>5. PICK g \in [0..len -> M] : Sums(g)
  <2> DEFINE step == [n \in 1..len |-> [s \in M |-> Step(n, s)]]
             nil == <<>>
  <2>1. step \in [1..len -> [M -> M]] BY <1>2
  <2>2. \A n \in 1..len, s \in M : step[n][s] = Step(n, s) OBVIOUS
  <2>3. nil \in M BY <1>4
  <2> HIDE DEF step, Sums, nil
  <2>4. Definable(len, M, nil, step) BY <1>1, <2>1, <2>3, Recursion
  <2>5. PICK g \in [0..len -> M] : g[0] = nil /\ \A n \in 1..len : g[n] = step[n][g[n - 1]]
    BY <2>4 DEF Definable
  <2>6. ASSUME NEW n \in 0..len PROVE g[n] = IF n = 0 THEN nil ELSE Step(n, g[n - 1])
    <3>1. CASE n = 0 BY <2>5, <3>1
    <3>2. CASE n # 0
      <4>1. n \in 1..len /\ n - 1 \in 0..len BY <1>1, <3>2
      <4>2. g[n - 1] \in M BY <4>1
      <4> QED BY <2>2, <2>5, <3>2, <4>1, <4>2
    <3> QED BY <3>1, <3>2
  <2>7. g = [n \in 0..len |-> IF n = 0 THEN nil ELSE Step(n, g[n - 1])] BY <2>6
  <2>8. Sums(g) BY <2>7 DEF Sums, nil
  <2> QED BY <2>8
<1>6. Sums(f)
  <2> HIDE DEF Sums
  <2> QED BY <1>5
<1> HIDE DEF f
<1>7. DOMAIN f = 0..len BY <1>6
<1>8. \A n \in 0..len : f[n] = IF n = 0 THEN <<>> ELSE Step(n, f[n - 1]) BY <1>6
<1>9. f = [n \in 0..len |-> f[n]] BY <1>6, <1>7
<1> HIDE DEF Sums
<1>10. f[0] = <<>> /\ \A n \in 1..len : f[n] = Step(n, f[n - 1])
  <2>1. 0 \in 0..len /\ \A n \in 1..len : n \in 0..len /\ n # 0 BY <1>1
  <2> QED BY <1>8, <2>1
<1>11. \A n \in 0..len : f[n] \in M
  <2> DEFINE T == {n \in 0..len : f[n] \notin M}
  <2>1. SUFFICES ASSUME T # {} PROVE FALSE OBVIOUS
  <2>2. PICK n \in T : \A k \in T : n =< k
    <3>1. T \subseteq Nat OBVIOUS
    <3> HIDE DEF T
    <3> QED BY <2>1, <3>1, LeastElement
  <2>3. n \in 0..len /\ f[n] \notin M OBVIOUS
  <2>4. n # 0 BY <1>4, <1>10, <2>3
  <2>5. n \in 1..len /\ n - 1 \in 0..len /\ ~ (n =< n - 1) BY <1>1, <2>3, <2>4
  <2>6. n - 1 \notin T
    <3> HIDE DEF T
    <3> QED BY <2>2, <2>5
  <2>7. f[n - 1] \in M BY <2>5, <2>6
  <2> HIDE DEF T
  <2> QED BY <1>2, <1>10, <2>3, <2>5, <2>7
<1>12. \A n \in 1..len : f[n] = IF IsAfter(lines[n], from) THEN Append(f[n - 1], lines[n])
                                ELSE f[n - 1]
  <2> TAKE n \in 1..len
  <2>1. n - 1 \in 0..len BY <1>1
  <2>2. f[n - 1] \in M BY <1>11, <2>1
  <2> QED BY <1>2, <1>10, <2>2
<1>13. Chooses(lines, from, f)
  BY <1>9, <1>10, <1>11, <1>12 DEF Chooses, len, M
<1> QED BY <1>3, <1>13 DEF len

(* They are the lines after it and, when the lines rise, the p-th of them  *)
(* is at least p further on.                                               *)
LEMMA LinesSinceAre ==
  ASSUME NEW lines \in Seq(Lines), NEW from \in Nat
  PROVE  /\ LinesSince(lines, from) \in Seq(Lines)
         /\ Elems(LinesSince(lines, from)) = {l \in Elems(lines) : IsAfter(l, from)}
         /\ (\A i, j \in 1..Len(lines) : i < j /\ lines[i].kind = "event"
               /\ lines[j].kind = "event" => lines[i].seq < lines[j].seq) =>
            \A p \in 1..Len(LinesSince(lines, from)) :
               LinesSince(lines, from)[p].seq >= from + p
<1> DEFINE len == Len(lines)
           Rise == \A i, j \in 1..len : i < j /\ lines[i].kind = "event"
                      /\ lines[j].kind = "event" => lines[i].seq < lines[j].seq
<1>1. PICK f : Chooses(lines, from, f) /\ LinesSince(lines, from) = f[len]
  BY LinesSinceExist
<1>2. /\ len \in Nat /\ f[0] = <<>> /\ \A n \in 0..len : f[n] \in Seq(Lines)
      /\ \A n \in 1..len :
           f[n] = IF IsAfter(lines[n], from) THEN Append(f[n - 1], lines[n]) ELSE f[n - 1]
      /\ \A n \in 1..len : lines[n] \in Lines
  <2>1. len \in Nat /\ \A n \in 1..len : lines[n] \in Lines OBVIOUS
  <2> QED BY <1>1, <2>1 DEF Chooses
<1> HIDE DEF len
<1> DEFINE Found(n) == {lines[i] : i \in {k \in 1..n : IsAfter(lines[k], from)}}
           Good(n) == /\ Elems(f[n]) = Found(n)
                      /\ Rise => \A p \in 1..Len(f[n]) : f[n][p].seq >= from + p
           T == {n \in 0..len : ~ Good(n)}
<1>3. Good(0)
  <2>1. Elems(<<>>) = {} BY NothingInOrder
  <2>2. Found(0) = {} OBVIOUS
  <2>3. Len(<<>>) = 0 OBVIOUS
  <2> QED BY <1>2, <2>1, <2>2, <2>3
<1>4. ASSUME NEW n \in 1..len, Good(n - 1) PROVE Good(n)
  <2> DEFINE m == n - 1
             s == f[m]
             x == lines[n]
  <2>1. m \in 0..len /\ m \in Nat /\ n = m + 1 /\ x \in Lines /\ s \in Seq(Lines)
    BY <1>2
  <2>2. f[n] = IF IsAfter(x, from) THEN Append(s, x) ELSE s BY <1>2
  <2>3. Good(m) BY <1>4
  <2>4. Elems(s) = Found(m) /\ (Rise => \A p \in 1..Len(s) : s[p].seq >= from + p)
    BY <2>3
  <2>5. \A i : i \in 1..n <=> i \in 1..m \/ i = n BY <2>1
  <2> HIDE DEF m, s, x
  <2>6. CASE ~ IsAfter(x, from)
    <3>1. Found(n) = Found(m) BY <2>5, <2>6 DEF x
    <3>2. f[n] = s BY <2>2, <2>6
    <3> HIDE DEF Found, Rise
    <3> QED BY <2>4, <3>1, <3>2
  <2>7. CASE IsAfter(x, from)
    <3>1. Found(n) = Found(m) \cup {x} BY <2>5, <2>7 DEF x
    <3>2. f[n] = Append(s, x) BY <2>2, <2>7
    <3>3. Elems(Append(s, x)) = Elems(s) \cup {x}
      <4>1. s \in Seq(Lines) /\ x \in Lines BY <2>1
      <4> DEFINE t == <<x>>
      <4>2. t \in Seq(Lines) /\ Elems(t) = {x} BY <4>1, OneElem
      <4>3. Append(s, x) = s \o t BY <4>1
      <4> HIDE DEF t
      <4>4. Elems(s \o t) = Elems(s) \cup Elems(t) BY <4>1, <4>2, ConcatElems
      <4> QED BY <4>2, <4>3, <4>4
    <3>4. /\ Len(s) \in Nat /\ Len(Append(s, x)) = Len(s) + 1
          /\ \A p \in 1..Len(s) : Append(s, x)[p] = s[p]
          /\ Append(s, x)[Len(s) + 1] = x
      BY <2>1
    <3>5. ASSUME Rise PROVE x.seq >= from + (Len(s) + 1)
      <4>1. CASE Len(s) = 0
        <5>1. x.seq \in Nat BY <2>1 DEF Lines
        <5> QED BY <2>7, <4>1, <5>1 DEF IsAfter
      <4>2. CASE Len(s) # 0
        <5> DEFINE y == s[Len(s)]
                   k == Len(s)
        <5>1. k \in Nat /\ k \in 1..k BY <3>4, <4>2
        <5>2. y \in Elems(s) /\ y.seq >= from + k BY <2>4, <3>5, <5>1 DEF Elems
        <5> HIDE DEF y, k
        <5>3. PICK i \in 1..m : y = lines[i] /\ IsAfter(lines[i], from) BY <2>4, <5>2
        <5>4. i \in 1..len /\ i < n /\ n \in 1..len BY <1>2, <2>1, <5>3
        <5>5. lines[i].seq < lines[n].seq
          BY <2>7, <3>5, <5>3, <5>4 DEF IsAfter, x
        <5>6. y.seq \in Nat /\ x.seq \in Nat /\ y.seq < x.seq
          BY <1>2, <2>1, <5>3, <5>4, <5>5 DEF Lines, x
        <5>7. x.seq >= from + (k + 1) BY <5>1, <5>2, <5>6
        <5> QED BY <5>7 DEF k
      <4> QED BY <4>1, <4>2
    <3>6. ASSUME Rise, NEW p \in 1..(Len(s) + 1) PROVE Append(s, x)[p].seq >= from + p
      <4>1. CASE p = Len(s) + 1
        <5>1. Append(s, x)[p] = x BY <3>4, <4>1
        <5>2. x.seq >= from + p BY <3>5, <3>6, <4>1
        <5> QED BY <5>1, <5>2
      <4>2. CASE p # Len(s) + 1
        <5>1. p \in 1..Len(s) BY <3>4, <4>2
        <5>2. Append(s, x)[p] = s[p] /\ s[p].seq >= from + p BY <2>4, <3>4, <3>6, <5>1
        <5> QED BY <5>2
      <4> QED BY <4>1, <4>2
    <3> HIDE DEF Found, Rise
    <3> QED BY <2>4, <3>1, <3>2, <3>3, <3>4, <3>6
  <2> QED BY <2>6, <2>7
<1>5. Good(len)
  <2>1. SUFFICES ASSUME T # {} PROVE FALSE
    <3>1. len \in 0..len BY <1>2
    <3> HIDE DEF Good
    <3> QED BY <3>1
  <2>2. PICK n \in T : \A k \in T : n =< k
    <3> HIDE DEF Good
    <3>1. T \subseteq Nat OBVIOUS
    <3> HIDE DEF T
    <3> QED BY <2>1, <3>1, LeastElement
  <2> HIDE DEF Good
  <2>3. n \in 0..len /\ ~ Good(n) OBVIOUS
  <2>4. n # 0 BY <1>3, <2>3
  <2>5. n \in 1..len /\ n - 1 \in 0..len /\ ~ (n =< n - 1) BY <1>2, <2>3, <2>4
  <2>6. n - 1 \notin T
    <3> HIDE DEF T
    <3> QED BY <2>2, <2>5
  <2>7. Good(n - 1) BY <2>5, <2>6
  <2> QED BY <1>4, <2>3, <2>5, <2>7
<1>6. Found(len) = {l \in Elems(lines) : IsAfter(l, from)} BY DEF Elems, len
<1>7. f[len] \in Seq(Lines) BY <1>2
<1>8. Elems(f[len]) = {l \in Elems(lines) : IsAfter(l, from)}
      /\ (Rise => \A p \in 1..Len(f[len]) : f[len][p].seq >= from + p)
  BY <1>5, <1>6
<1> QED BY <1>1, <1>7, <1>8 DEF len

-----------------------------------------------------------------------------
(* The log and its end.                                                    *)

LEMMA JournalShape ==
  ASSUME NEW f, NEW j, NEW n, Sound(f, j, n)
  PROVE  /\ f.lines \in Seq(Lines) /\ j.writing \in Seq(Lines) /\ j.pendingLines \in Seq(Lines)
         /\ j.ready \in BOOLEAN /\ j.epoch \in Nat /\ j.seq \in Nat
         /\ j \in Journals /\ f \in Files /\ DOMAIN j = JournalFields
BY DEF Sound, Files, Journals, JournalFields

LEMMA LogIsLogOf ==
  ASSUME Sound(disk, journal, epochs)
  PROVE  Log = LogOf(disk, journal)
<1> DEFINE a == disk.lines
           b == journal.writing
           c == journal.pendingLines
           lines == (a \o b) \o c
<1>1. a \in Seq(Lines) /\ b \in Seq(Lines) /\ c \in Seq(Lines) BY JournalShape
<1> DEFINE ab == a \o b
<1> HIDE DEF a, b, c
<1>2. ab \in Seq(Lines) /\ Elems(ab) = Elems(a) \cup Elems(b) BY <1>1, ConcatElems
<1> HIDE DEF ab
<1>3. ab \o c \in Seq(Lines) /\ Elems(ab \o c) = Elems(ab) \cup Elems(c)
  BY <1>1, <1>2, ConcatElems
<1>6. lines = ab \o c BY DEF ab
<1> HIDE DEF lines
<1>4. Range(lines) = Elems(a) \cup Elems(b) \cup Elems(c) BY <1>2, <1>3, <1>6, ElemsAreRange
<1>5. Log = {l \in Range(lines) : l.kind = "event" /\ l.epoch = journal.epoch}
  BY DEF Log, lines, a, b, c
<1> QED BY <1>4, <1>5 DEF LogOf, a, b, c

LEMMA LogNumbered ==
  ASSUME NEW f, NEW j, NEW n, Sound(f, j, n)
  PROVE  \A l \in LogOf(f, j) : /\ l \in Lines /\ l.seq \in Nat /\ l.ev \in Nat
                                /\ l.kind = "event" /\ l.epoch = j.epoch
                                /\ j.ready => l.seq <= j.seq
<1> TAKE l \in LogOf(f, j)
<1>1. l \in Elems(f.lines) \cup Elems(j.writing) \cup Elems(j.pendingLines) BY DEF LogOf
<1>2. l \in Lines BY <1>1, JournalShape, ElemsOf
<1>3. l.kind = "event" /\ l.epoch = j.epoch BY DEF LogOf
<1>4. j.ready => l.seq <= j.seq BY <1>1, <1>3 DEF Sound, Numbered
<1> QED BY <1>2, <1>3, <1>4 DEF Lines

LEMMA FlushKeepsLog ==
  ASSUME NEW f, NEW j \in Journals
  PROVE  LogOf(f, flushOnce(j)) \subseteq LogOf(f, j)
<1>1. /\ DOMAIN j = JournalFields /\ j.epoch \in Nat
      /\ j.pendingLines \in Seq(Lines) /\ j.writing \in Seq(Lines)
  BY DEF Journals, JournalFields
<1>2. CASE j.writing # <<>> BY <1>2 DEF flushOnce
<1>3. CASE j.writing = <<>>
  <2> DEFINE head == IF j.headerPending THEN <<Header(j.epoch)>> ELSE <<>>
             lines == head \o j.pendingLines
             k == [j EXCEPT !.writing = lines, !.headerPending = FALSE, !.pendingLines = <<>>]
  <2>1. flushOnce(j) = k BY <1>3 DEF flushOnce
  <2>2. head \in Seq(Lines) /\ \A l \in Elems(head) : l.kind = "header"
    <3>1. Header(j.epoch) \in Lines /\ Header(j.epoch).kind = "header"
      BY <1>1 DEF Header, Lines
    <3> DEFINE h == Header(j.epoch)
    <3> HIDE DEF h
    <3>2. <<h>> \in Seq(Lines) /\ Elems(<<h>>) = {h} BY <3>1, OneElem DEF h
    <3> QED BY <3>1, <3>2, NothingInOrder DEF h
  <2> HIDE DEF head
  <2>3. Elems(lines) = Elems(head) \cup Elems(j.pendingLines) BY <1>1, <2>2, ConcatElems
  <2> HIDE DEF lines
  <2>4. k.epoch = j.epoch /\ k.writing = lines /\ k.pendingLines = <<>>
    BY <1>1 DEF JournalFields
  <2> HIDE DEF k
  <2>5. Elems(k.pendingLines) = {} BY <2>4, NothingInOrder
  <2>6. LogOf(f, k) \subseteq LogOf(f, j) BY <2>2, <2>3, <2>4, <2>5 DEF LogOf
  <2> QED BY <2>1, <2>6
<1> QED BY <1>2, <1>3

LEMMA LinesOfAreEvents ==
  ASSUME NEW j, j.epoch \in Nat, j.seq \in Nat, NEW evs \in Seq(Nat)
  PROVE  /\ Len(LinesOf(j, evs)) = Len(evs)
         /\ \A i \in 1..Len(evs) :
              /\ LinesOf(j, evs)[i] = Line(j.seq + i, j.epoch, evs[i])
              /\ Line(j.seq + i, j.epoch, evs[i]) \in Elems(LinesOf(j, evs))
         /\ \A l \in Elems(LinesOf(j, evs)) : l.kind = "event" /\ l \in Lines
         /\ SeqsRise(LinesOf(j, evs))
<1> DEFINE lines == LinesOf(j, evs)
           n == Len(evs)
<1>1. n \in Nat /\ DOMAIN evs = 1..n /\ \A i \in 1..n : evs[i] \in Nat OBVIOUS
<1>2. lines = [i \in 1..n |-> Line(j.seq + i, j.epoch, evs[i])] BY <1>1 DEF LinesOf
<1>3. /\ lines \in Seq(Lines) /\ Rising(lines)
      /\ \A l \in Elems(lines) : l.epoch = j.epoch
  BY LinesOfAreNumbered
<1> HIDE DEF n
<1>4. \A i \in 1..n : lines[i] = Line(j.seq + i, j.epoch, evs[i]) BY <1>2
<1>5. Len(lines) = n BY <1>1, <1>2
<1> HIDE DEF lines
<1>6. \A i \in 1..n : lines[i].kind = "event"
  <2>1. \A i \in 1..n : Line(j.seq + i, j.epoch, evs[i]).kind = "event" BY DEF Line
  <2> QED BY <1>4, <2>1
<1>7. \A l \in Elems(lines) : l.kind = "event" BY <1>5, <1>6 DEF Elems
<1>8. \A i \in 1..n : lines[i] \in Elems(lines) BY <1>5 DEF Elems
<1>9. SeqsRise(lines) BY <1>3, <1>5, <1>6, <1>8 DEF Rising, Before, SeqsRise
<1> QED BY <1>3, <1>4, <1>5, <1>7, <1>8, <1>9, ElemsOf DEF lines, n

(* Lines behind the queue, of the journal's epoch.                         *)
Queued(k, j, seq, more) == k = [j EXCEPT !.seq = seq, !.pendingLines = @ \o more]

LEMMA QueueLog ==
  ASSUME NEW f, NEW j \in Journals, NEW seq \in Nat, NEW more \in Seq(Lines),
         \A l \in Elems(more) : l.kind = "event" /\ l.epoch = j.epoch,
         NEW k, Queued(k, j, seq, more)
  PROVE  /\ k \in Journals /\ k.epoch = j.epoch /\ k.seq = seq
         /\ \A l \in LogOf(f, k) : l \in LogOf(f, j) \cup Elems(more)
<1> DEFINE lines == j.pendingLines \o more
<1>1. DOMAIN j = JournalFields /\ j.pendingLines \in Seq(Lines)
  BY DEF Journals, JournalFields
<1>2. lines \in Seq(Lines) /\ Elems(lines) = Elems(j.pendingLines) \cup Elems(more)
  BY <1>1, ConcatElems
<1>3. k = [j EXCEPT !.seq = seq, !.pendingLines = lines] BY DEF lines, Queued
<1> HIDE DEF lines
<1>4. /\ k.epoch = j.epoch /\ k.seq = seq /\ k.writing = j.writing
      /\ k.pendingLines = lines /\ k \in Journals
  BY <1>1, <1>2, <1>3 DEF Journals, JournalFields
<1>5. \A l \in LogOf(f, k) : l \in LogOf(f, j) \cup Elems(more) BY <1>2, <1>4 DEF LogOf
<1> QED BY <1>4, <1>5

(* What is dispatched is all that joins the log.                           *)
LEMMA DispatchLog ==
  ASSUME NEW f, NEW j, NEW n, Sound(f, j, n), j.ready, NEW evs \in Seq(Nat)
  PROVE  /\ LogOf(f, dispatchAll(j, evs)) \subseteq LogOf(f, j) \cup Elems(LinesOf(j, evs))
         /\ dispatchAll(j, evs).epoch = j.epoch
         /\ dispatchAll(j, evs).seq = j.seq + Len(evs)
<1>1. j \in Journals /\ j.epoch \in Nat /\ j.seq \in Nat /\ DOMAIN j = JournalFields
      /\ j.pendingLines \in Seq(Lines)
  BY JournalShape
<1>2. CASE evs = <<>> BY <1>1, <1>2 DEF dispatchAll
<1>3. CASE evs # <<>>
  <2> DEFINE v == evs[1]
             l == Line(j.seq + 1, j.epoch, v)
             one == <<l>>
             q == j.seq + 1
             k == [j EXCEPT !.seq = q, !.pendingLines = @ \o one]
             first == append(j, v)
             rest == Tail(evs)
             more == LinesOf(first, rest)
             seq == j.seq + Len(evs)
             d == [first EXCEPT !.seq = seq, !.pendingLines = @ \o more]
             lines == LinesOf(j, evs)
  <2>1. dispatchAll(j, evs) = d BY <1>3 DEF dispatchAll
  <2>2. /\ Len(evs) \in Nat /\ v \in Nat /\ rest \in Seq(Nat) /\ 1 \in 1..Len(evs)
        /\ Len(rest) = Len(evs) - 1 /\ \A i \in 1..Len(rest) : rest[i] = evs[i + 1]
    <3>1. Len(evs) \in Nat /\ Len(evs) >= 1 /\ v \in Nat /\ rest \in Seq(Nat)
          /\ Len(rest) = Len(evs) - 1
      BY <1>3
    <3>2. \A i \in 1..Len(rest) : rest[i] = evs[i + 1] BY <1>3, HeadTailProperties
    <3> QED BY <3>1, <3>2
  <2>3. /\ l \in Elems(lines) /\ l \in Lines /\ l.kind = "event" /\ l.epoch = j.epoch
        /\ \A i \in 1..Len(evs) : Line(j.seq + i, j.epoch, evs[i]) \in Elems(lines)
    <3>1. /\ \A i \in 1..Len(evs) : Line(j.seq + i, j.epoch, evs[i]) \in Elems(lines)
          /\ \A x \in Elems(lines) : x.kind = "event" /\ x \in Lines
      BY <1>1, LinesOfAreEvents
    <3>2. l.epoch = j.epoch BY DEF Line
    <3> QED BY <2>2, <3>1, <3>2
  <2> HIDE DEF v, rest, lines
  <2>4. /\ Sound(f, first, n) /\ first.ready /\ first.epoch = j.epoch
        /\ first.seq = j.seq + 1
    BY <2>2, AppendIsSound
  <2>5. first = flushOnce(k)
    <3>1. Append(j.pendingLines, l) = j.pendingLines \o one
      <4>1. \A s \in Seq(Lines) : \A m \in Lines : Append(s, m) = s \o <<m>> OBVIOUS
      <4> QED BY <1>1, <2>3, <4>1
    <3> QED BY <1>1, <3>1 DEF append
  <2> HIDE DEF l
  <2>6. one \in Seq(Lines) /\ Elems(one) = {l} BY <2>3, OneElem
  <2> HIDE DEF one
  <2>7. k \in Journals /\ \A x \in LogOf(f, k) : x \in LogOf(f, j) \cup {l}
    <3>1. q \in Nat BY <1>1
    <3>2. Queued(k, j, q, one) BY DEF Queued
    <3>3. \A x \in Elems(one) : x.kind = "event" /\ x.epoch = j.epoch BY <2>3, <2>6
    <3> HIDE DEF q, k, first, more, seq, d
    <3>4. k \in Journals /\ \A x \in LogOf(f, k) : x \in LogOf(f, j) \cup Elems(one)
      BY <1>1, <2>6, <3>1, <3>2, <3>3, QueueLog
    <3> QED BY <2>6, <3>4
  <2> HIDE DEF k
  <2>8. LogOf(f, first) \subseteq LogOf(f, j) \cup {l} BY <2>5, <2>7, FlushKeepsLog
  <2> HIDE DEF first
  <2>9. first \in Journals /\ first.epoch \in Nat /\ first.seq \in Nat BY <2>4, JournalShape
  <2>10. /\ more \in Seq(Lines) /\ Len(more) = Len(rest)
         /\ \A i \in 1..Len(rest) : more[i] = Line(first.seq + i, first.epoch, rest[i])
         /\ \A x \in Elems(more) : x.kind = "event" /\ x.epoch = first.epoch
    BY <2>2, <2>9, LinesOfAreEvents, LinesOfAreNumbered
  <2>11. \A x \in Elems(more) : x \in Elems(lines)
    <3> SUFFICES ASSUME NEW i \in 1..Len(rest) PROVE more[i] \in Elems(lines)
      BY <2>10 DEF Elems
    <3>1. i + 1 \in 1..Len(evs) /\ rest[i] = evs[i + 1] BY <2>2
    <3>2. first.seq + i = j.seq + (i + 1)
      <4>1. \A a, b \in Nat : (a + 1) + b = a + (b + 1) OBVIOUS
      <4>2. i \in Nat OBVIOUS
      <4> QED BY <1>1, <2>4, <4>1, <4>2
    <3>3. more[i] = Line(j.seq + (i + 1), j.epoch, evs[i + 1]) BY <2>4, <2>10, <3>1, <3>2
    <3> QED BY <2>3, <3>1, <3>3
  <2> HIDE DEF more
  <2>12. seq \in Nat BY <1>1, <2>2
  <2> HIDE DEF seq
  <2>13. /\ \A x \in LogOf(f, d) : x \in LogOf(f, first) \cup Elems(more)
         /\ d.epoch = first.epoch /\ d.seq = seq
    <3>1. Queued(d, first, seq, more) BY DEF Queued
    <3>2. /\ more \in Seq(Lines)
          /\ \A x \in Elems(more) : x.kind = "event" /\ x.epoch = first.epoch
      BY <2>10
    <3> HIDE DEF d, q, k, one
    <3>3. d.epoch = first.epoch /\ d.seq = seq BY <2>9, <2>12, <3>1, <3>2, QueueLog
    <3>4. \A x \in LogOf(f, d) : x \in LogOf(f, first) \cup Elems(more)
      BY <2>9, <2>12, <3>1, <3>2, QueueLog
    <3> QED BY <3>3, <3>4
  <2> HIDE DEF d
  <2>14. LogOf(f, d) \subseteq LogOf(f, j) \cup Elems(lines)
    BY <2>3, <2>8, <2>11, <2>13
  <2> QED BY <2>1, <2>4, <2>13, <2>14 DEF lines, seq
<1> QED BY <1>2, <1>3

(* The end of lines that rise holds all from its first one on.             *)
LEMMA EndOfRising ==
  ASSUME NEW c \in Seq(Lines), NEW a \in 1..(Len(c) + 1)
  PROVE  /\ SubSeq(c, a, Len(c)) \in Seq(Lines)
         /\ Elems(SubSeq(c, a, Len(c))) \subseteq Elems(c)
         /\ SubSeq(c, a, Len(c)) # <<>> =>
              a \in 1..Len(c) /\ SubSeq(c, a, Len(c))[1] = c[a]
         /\ SeqsRise(c) => SeqsRise(SubSeq(c, a, Len(c)))
         /\ SeqsRise(c) => \A x \in Elems(c) :
              SubSeq(c, a, Len(c)) # <<>> /\ SubSeq(c, a, Len(c))[1].seq <= x.seq =>
                x \in Elems(SubSeq(c, a, Len(c)))
<1> DEFINE m == Len(c)
           s == SubSeq(c, a, m)
<1>1. m \in Nat /\ a \in Nat /\ 1 <= a /\ a <= m + 1
      /\ \A i \in 1..m : c[i] \in Lines /\ c[i].seq \in Nat
  <2>1. \A i \in 1..m : c[i] \in Lines OBVIOUS
  <2> QED BY <2>1 DEF Lines
<1>2. /\ s \in Seq(Lines) /\ Len(s) = (m + 1) - a
      /\ \A i \in 1..((m + 1) - a) : s[i] = c[a + i - 1]
  <2>1. \A i \in a..m : c[i] \in Lines BY <1>1
  <2>2. /\ s \in Seq(Lines) /\ Len(s) = IF a <= m THEN m - a + 1 ELSE 0
        /\ \A i \in 1..(m - a + 1) : s[i] = c[a + i - 1]
    BY <2>1, SubSeqProperties
  <2> HIDE DEF s, m
  <2>3. Len(s) = (m + 1) - a /\ m - a + 1 = (m + 1) - a BY <1>1, <2>2
  <2> QED BY <2>2, <2>3
<1>3. s = <<>> \/ Len(s) >= 1
  <2> HIDE DEF s
  <2> QED BY <1>2, ElemsOf
<1> HIDE DEF s, m
<1>4. \A i \in 1..((m + 1) - a) : a + i - 1 \in 1..m BY <1>1
<1>5. Elems(c) = {c[i] : i \in 1..m} /\ Elems(s) = {s[i] : i \in 1..((m + 1) - a)}
  BY <1>2 DEF Elems, m
<1>6. Elems(s) \subseteq Elems(c) BY <1>2, <1>4, <1>5
<1>7. s # <<>> => a \in 1..m /\ s[1] = c[a]
  <2>1. s # <<>> => 1 \in 1..((m + 1) - a) /\ a \in 1..m BY <1>1, <1>2, <1>3
  <2>2. a + 1 - 1 = a BY <1>1
  <2> QED BY <1>2, <2>1, <2>2
<1>8. ASSUME SeqsRise(c) PROVE SeqsRise(s)
  <2> SUFFICES ASSUME NEW i \in 1..Len(s), NEW k \in 1..Len(s), i < k PROVE s[i].seq < s[k].seq
    BY DEF SeqsRise
  <2>1. i \in 1..((m + 1) - a) /\ k \in 1..((m + 1) - a) BY <1>2
  <2>2. a + i - 1 < a + k - 1 BY <1>1, <2>1
  <2>3. a + i - 1 \in 1..m /\ a + k - 1 \in 1..m BY <1>4, <2>1
  <2> QED BY <1>2, <1>8, <2>1, <2>2, <2>3 DEF SeqsRise, m
<1>9. ASSUME SeqsRise(c), NEW x \in Elems(c), s # <<>>, s[1].seq <= x.seq
      PROVE  x \in Elems(s)
  <2>1. PICK i \in 1..m : x = c[i] BY <1>5
  <2>2. a <= i
    <3>1. SUFFICES ASSUME i < a PROVE FALSE BY <1>1, <2>1
    <3>2. c[i].seq < c[a].seq BY <1>7, <1>9, <3>1 DEF SeqsRise, m
    <3>3. c[i].seq \in Nat /\ c[a].seq \in Nat /\ c[a].seq <= c[i].seq
      BY <1>1, <1>7, <1>9, <2>1
    <3> QED BY <3>2, <3>3
  <2> DEFINE k == (i + 1) - a
  <2>3. k \in 1..((m + 1) - a) /\ a + k - 1 = i BY <1>1, <2>1, <2>2
  <2> HIDE DEF k
  <2>4. s[k] = x BY <1>2, <2>1, <2>3
  <2> QED BY <1>5, <2>3, <2>4
<1> QED BY <1>2, <1>6, <1>7, <1>8, <1>9 DEF s, m

(* The memory tail stays the end of the log when events are dispatched.    *)
LEMMA DispatchKeepsEnd ==
  ASSUME NEW f, NEW j, NEW n, Sound(f, j, n), j.ready, NEW evs \in Seq(Nat),
         NEW t \in Seq(Lines), EndOf(LogOf(f, j), j, t)
  PROVE  /\ LastOf(t \o LinesOf(j, evs)) \in Seq(Lines)
         /\ EndOf(LogOf(f, dispatchAll(j, evs)), dispatchAll(j, evs),
                  LastOf(t \o LinesOf(j, evs)))
<1> DEFINE new == LinesOf(j, evs)
           c == t \o new
           m == Len(c)
           a == Higher(1, m - MaxBuffer + 1)
           s == SubSeq(c, a, m)
           k == dispatchAll(j, evs)
           log == LogOf(f, j)
           log2 == LogOf(f, k)
           e == j.seq + Len(evs)
<1>1. j.epoch \in Nat /\ j.seq \in Nat /\ Len(evs) \in Nat BY JournalShape
<1>2. /\ new \in Seq(Lines) /\ SeqsRise(new)
      /\ \A l \in Elems(new) : /\ l \in Lines /\ l.kind = "event" /\ l.epoch = j.epoch
                               /\ j.seq < l.seq /\ l.seq <= e
  BY <1>1, LinesOfAreEvents, LinesOfAreNumbered
<1>3. log2 \subseteq log \cup Elems(new) /\ k.epoch = j.epoch /\ k.seq = e BY DispatchLog
<1>4. \A l \in log : l.seq \in Nat /\ l.seq <= j.seq BY LogNumbered
<1> HIDE DEF new, k, log, log2
<1>5. /\ c \in Seq(Lines) /\ Elems(c) = Elems(t) \cup Elems(new)
      /\ Len(c) = Len(t) + Len(new) /\ Len(t) \in Nat /\ Len(new) \in Nat
      /\ \A i \in 1..Len(t) : i \in 1..Len(c) /\ c[i] = t[i]
      /\ \A i \in 1..Len(new) : Len(t) + i \in 1..Len(c) /\ c[Len(t) + i] = new[i]
  BY <1>2, ConcatElems, ElemsOf
<1>6. LastOf(c) = s BY DEF LastOf
<1> HIDE DEF c
<1>7. \A l \in Elems(t) : l \in Lines /\ l.kind = "event" /\ l.epoch = j.epoch /\ l.seq <= j.seq
                          /\ l.seq \in Nat
  <2>1. \A l \in Elems(t) : l \in Lines BY ElemsOf
  <2> QED BY <2>1 DEF EndOf, Lines
<1>8. \A l \in Elems(new) : l.seq \in Nat BY <1>2 DEF Lines
<1> HIDE DEF e
<1>9. e \in Nat /\ j.seq <= e BY <1>1 DEF e
<1>10. SeqsRise(c)
  <2> SUFFICES ASSUME NEW i \in 1..Len(c), NEW h \in 1..Len(c), i < h
               PROVE  c[i].seq < c[h].seq
    BY DEF SeqsRise
  <2>1. CASE h <= Len(t)
    <3>1. i \in 1..Len(t) /\ h \in 1..Len(t) BY <1>5, <2>1
    <3>2. SeqsRise(t) BY DEF EndOf
    <3>3. t[i].seq < t[h].seq BY <3>1, <3>2 DEF SeqsRise
    <3> QED BY <1>5, <3>1, <3>3
  <2>2. CASE i <= Len(t) /\ ~ (h <= Len(t))
    <3> DEFINE g == h - Len(t)
    <3>1. i \in 1..Len(t) /\ g \in 1..Len(new) /\ Len(t) + g = h BY <1>5, <2>2
    <3> HIDE DEF g
    <3>2. c[i] = t[i] /\ c[h] = new[g] BY <1>5, <3>1
    <3>3. t[i] \in Elems(t) /\ new[g] \in Elems(new) BY <3>1 DEF Elems
    <3>4. t[i].seq <= j.seq /\ j.seq < new[g].seq /\ t[i].seq \in Nat /\ new[g].seq \in Nat
      BY <1>2, <1>7, <1>8, <3>3
    <3> QED BY <1>1, <3>2, <3>4
  <2>3. CASE ~ (i <= Len(t))
    <3> DEFINE b == i - Len(t)
               g == h - Len(t)
    <3>1. /\ b \in 1..Len(new) /\ Len(t) + b = i /\ g \in 1..Len(new) /\ Len(t) + g = h
          /\ b < g
      BY <1>5, <2>3
    <3> HIDE DEF b, g
    <3>2. new[b].seq < new[g].seq BY <1>2, <3>1 DEF SeqsRise
    <3>3. c[i] = new[b] /\ c[h] = new[g] BY <1>5, <3>1
    <3> QED BY <3>2, <3>3
  <2> QED BY <2>1, <2>2, <2>3
<1>11. m \in Nat /\ a \in 1..(m + 1)
  <2>1. m \in Nat BY <1>5
  <2> HIDE DEF m
  <2>2. MaxBuffer \in Nat BY StreamConstants
  <2> QED BY <2>1, <2>2 DEF Higher
<1> HIDE DEF a
<1>12. /\ s \in Seq(Lines) /\ Elems(s) \subseteq Elems(c) /\ SeqsRise(s)
       /\ s # <<>> => a \in 1..m /\ s[1] = c[a]
       /\ \A x \in Elems(c) : s # <<>> /\ s[1].seq <= x.seq => x \in Elems(s)
  BY <1>5, <1>10, <1>11, EndOfRising
<1> HIDE DEF s
<1>13. \A l \in Elems(s) : l.kind = "event" /\ l.epoch = k.epoch /\ l.seq <= k.seq
  <2> TAKE l \in Elems(s)
  <2>1. CASE l \in Elems(new) BY <1>2, <1>3, <2>1
  <2>2. CASE l \in Elems(t)
    <3>1. l.seq <= e BY <1>1, <1>7, <1>9, <2>2
    <3> QED BY <1>3, <1>7, <2>2, <3>1
  <2> QED BY <1>5, <1>12, <2>1, <2>2
<1>14. ASSUME NEW l \in log2, s # <<>>, s[1].seq <= l.seq PROVE l \in Elems(s)
  <2>1. a \in 1..m /\ s[1] = c[a] BY <1>12, <1>14
  <2>2. c[a] \in Elems(c) BY <2>1 DEF Elems, m
  <2>3. c[a].seq \in Nat BY <1>5, <1>7, <1>8, <2>2
  <2>4. CASE l \in Elems(new) BY <1>5, <1>12, <1>14, <2>4
  <2>5. CASE l \in log
    <3>1. l.seq \in Nat /\ l.seq <= j.seq BY <1>4, <2>5
    <3>2. c[a] \in Elems(t)
      <4>1. c[a] \notin Elems(new)
        <5>1. ASSUME c[a] \in Elems(new) PROVE FALSE
          <6>1. j.seq < c[a].seq BY <1>2, <5>1
          <6>2. c[a].seq <= l.seq BY <1>14, <2>1
          <6> QED BY <1>1, <2>3, <3>1, <6>1, <6>2
        <5> QED BY <5>1
      <4> QED BY <1>5, <2>2, <4>1
    <3>3. t # <<>> /\ 1 \in 1..Len(t) /\ c[1] = t[1]
      <4>1. t # <<>> /\ Len(t) # 0 BY <3>2, ElemsOf
      <4>2. 1 \in 1..Len(t) BY <1>5, <4>1
      <4> QED BY <1>5, <4>1, <4>2
    <3>4. t[1].seq <= c[a].seq
      <4>1. CASE a = 1 BY <2>3, <3>3, <4>1
      <4>2. CASE a # 1
        <5>1. 1 \in 1..Len(c) /\ a \in 1..Len(c) /\ 1 < a BY <1>11, <2>1, <4>2 DEF m
        <5>2. c[1].seq < c[a].seq BY <1>10, <5>1 DEF SeqsRise
        <5>3. t[1] \in Elems(t) BY <3>3 DEF Elems
        <5>4. t[1].seq \in Nat BY <1>7, <5>3
        <5> QED BY <2>3, <3>3, <5>2, <5>4
      <4> QED BY <4>1, <4>2
    <3>5. t[1].seq <= l.seq
      <4>1. t[1] \in Elems(t) BY <3>3 DEF Elems
      <4>2. t[1].seq \in Nat BY <1>7, <4>1
      <4> QED BY <1>14, <2>1, <2>3, <3>1, <3>4, <4>2
    <3>6. l \in Elems(t) BY <2>5, <3>3, <3>5 DEF EndOf, log
    <3> QED BY <1>5, <1>12, <1>14, <3>6
  <2> QED BY <1>3, <2>4, <2>5
<1>15. EndOf(log2, k, s) BY <1>12, <1>13, <1>14 DEF EndOf
<1> QED BY <1>6, <1>12, <1>15 DEF c, k, new, log2

-----------------------------------------------------------------------------
(* What is sent.                                                           *)

LEMMA LinesAreFrames ==
  /\ Lines \subseteq Frames
  /\ \A t : t \in Seq(Lines) => t \in Seq(Frames)
  /\ \A s \in Nat, e \in Nat : Resync(s, e) \in Frames /\ Volatile(s, e) \in Frames
<1>1. Lines \subseteq Frames BY DEF Lines, Frames
<1>2. ASSUME NEW t \in Seq(Lines) PROVE t \in Seq(Frames)
  <2>1. Len(t) \in Nat /\ t \in [1..Len(t) -> Lines] OBVIOUS
  <2>2. \A i \in 1..Len(t) : t[i] \in Frames BY <1>1, <2>1
  <2>3. t \in [1..Len(t) -> Frames] BY <2>1, <2>2
  <2> QED BY <2>1, <2>3
<1>3. \A s \in Nat, e \in Nat : Resync(s, e) \in Frames /\ Volatile(s, e) \in Frames
  BY DEF Resync, Volatile, Frames
<1> QED BY <1>1, <1>2, <1>3

(* Events to send: each has its frame, and none is a resync.               *)
LEMMA EventsToSend ==
  ASSUME NEW t \in Seq(Lines), \A l \in Elems(t) : l.kind = "event", NEW log
  PROVE  /\ t \in Seq(Frames) /\ Followed(log, t)
         /\ \A l \in Elems(t) : Sent(l.ev, t, 0)
<1>1. t \in Seq(Frames) BY LinesAreFrames
<1>2. \A l \in Elems(t) : l.kind # "resync_required" OBVIOUS
<1>3. Followed(log, t) BY <1>1, <1>2, NothingFollows
<1>4. \A l \in Elems(t) : Sent(l.ev, t, 0) BY <1>1, SentElems
<1> QED BY <1>1, <1>3, <1>4

(* What dispatching events does to the tail and to the frames.             *)
LEMMA DispatchSends ==
  ASSUME NEW f, NEW j, NEW n, Sound(f, j, n), j.ready, NEW evs \in Seq(Nat),
         NEW frames \in Seq(Frames), Followed(LogOf(f, j), frames)
  PROVE  LET new == LinesOf(j, evs)
             log == LogOf(f, dispatchAll(j, evs))
         IN  /\ frames \o new \in Seq(Frames) /\ Followed(log, frames \o new)
             /\ \A l \in log : l \in LogOf(f, j) \/ Sent(l.ev, frames \o new, 0)
             /\ \A ev : Sent(ev, frames, 0) => Sent(ev, frames \o new, 0)
             /\ Reset(frames) => Reset(frames \o new)
<1> DEFINE new == LinesOf(j, evs)
           log == LogOf(f, dispatchAll(j, evs))
           old == LogOf(f, j)
<1>1. j.epoch \in Nat /\ j.seq \in Nat BY JournalShape
<1>2. new \in Seq(Lines) /\ \A l \in Elems(new) : l.kind = "event"
  BY <1>1, LinesOfAreEvents, LinesOfAreNumbered
<1>3. log \subseteq old \cup Elems(new) BY DispatchLog
<1> HIDE DEF new, log, old
<1>4. new \in Seq(Frames) /\ Followed(log, new) /\ \A l \in Elems(new) : Sent(l.ev, new, 0)
  BY <1>2, EventsToSend
<1>5. \A l \in log : l \in old \/ Sent(l.ev, new, 0) BY <1>3, <1>4
<1>6. Followed(old, frames) BY DEF old
<1>7. /\ frames \o new \in Seq(Frames) /\ Followed(log, frames \o new)
      /\ \A ev : Sent(ev, frames, 0) \/ Sent(ev, new, 0) => Sent(ev, frames \o new, 0)
      /\ Reset(frames) \/ Reset(new) => Reset(frames \o new)
  BY <1>4, <1>5, <1>6, FramesGoOut
<1>8. \A l \in log : l \in old \/ Sent(l.ev, frames \o new, 0) BY <1>5, <1>7
<1> QED BY <1>7, <1>8 DEF new, log, old

OneEpoch(f, j) == \A l \in Elems(f.lines) : l.kind = "event" => l.epoch = j.epoch

(* Of what is read from a file of one epoch, nothing within the limit is   *)
(* left out.                                                               *)
LEMMA ReplayIsWhole ==
  ASSUME NEW f, NEW j, NEW n, Sound(f, j, n), NEW from \in Nat
  PROVE  /\ readSince(f, from) \in Seq(Lines)
         /\ \A l \in Elems(readSince(f, from)) : l.kind = "event"
         /\ OneEpoch(f, j) => \A l \in Elems(f.lines) :
              l.kind = "event" /\ from < l.seq /\ l.seq <= from + MaxBuffer =>
                l \in Elems(readSince(f, from))
<1> DEFINE lines == f.lines
           found == LinesSince(lines, from)
           cut == IF Len(found) < MaxBuffer THEN Len(found) ELSE MaxBuffer
           s == SubSeq(found, 1, cut)
           Rise == \A i, k \in 1..Len(lines) : i < k /\ lines[i].kind = "event"
                      /\ lines[k].kind = "event" => lines[i].seq < lines[k].seq
<1>1. readSince(f, from) = s BY DEF readSince
<1>2. lines \in Seq(Lines) /\ Rising(lines) BY JournalShape DEF Sound, InOrder
<1>3. MaxBuffer \in Nat BY StreamConstants
<1>4. OneEpoch(f, j) => Rise
  <2> SUFFICES ASSUME OneEpoch(f, j), NEW i \in 1..Len(lines), NEW k \in 1..Len(lines), i < k,
                      lines[i].kind = "event", lines[k].kind = "event"
               PROVE  lines[i].seq < lines[k].seq
    OBVIOUS
  <2>1. lines[i] \in Elems(lines) /\ lines[k] \in Elems(lines) BY DEF Elems
  <2>2. lines[i].epoch = lines[k].epoch BY <2>1 DEF OneEpoch
  <2> QED BY <1>2, <2>2 DEF Rising, Before
<1> HIDE DEF lines
<1>5. /\ found \in Seq(Lines) /\ Elems(found) = {l \in Elems(lines) : IsAfter(l, from)}
      /\ Rise => \A p \in 1..Len(found) : found[p].seq >= from + p
  BY <1>2, LinesSinceAre
<1> HIDE DEF found, Rise
<1>6. Len(found) \in Nat /\ \A p \in 1..Len(found) : found[p] \in Lines BY <1>5
<1>7. cut \in 0..Len(found) /\ (cut = Len(found) \/ cut = MaxBuffer) BY <1>3, <1>6
<1> HIDE DEF cut
<1>8. s \in Seq(Lines) /\ Elems(s) \subseteq Elems(found) BY <1>5, <1>7, PartRises
<1>9. \A p \in 1..cut : s[p] = found[p] /\ p \in 1..Len(s)
  <2>1. \A p \in 1..cut : found[p] \in Lines BY <1>6, <1>7
  <2>2. /\ Len(s) = IF 1 <= cut THEN cut - 1 + 1 ELSE 0
        /\ \A p \in 1..(cut - 1 + 1) : s[p] = found[1 + p - 1]
    BY <1>6, <1>7, <2>1, SubSeqProperties
  <2> HIDE DEF s
  <2>3. Len(s) = cut /\ \A p \in 1..cut : p \in 1..(cut - 1 + 1) /\ 1 + p - 1 = p
    BY <1>6, <1>7, <2>2
  <2> QED BY <2>2, <2>3
<1> HIDE DEF s
<1>10. \A l \in Elems(s) : l.kind = "event" BY <1>5, <1>8 DEF IsAfter
<1>11. ASSUME OneEpoch(f, j), NEW l \in Elems(lines), l.kind = "event", from < l.seq,
              l.seq <= from + MaxBuffer
       PROVE  l \in Elems(s)
  <2>1. l \in Elems(found) BY <1>5, <1>11 DEF IsAfter
  <2>2. PICK p \in 1..Len(found) : l = found[p] BY <2>1 DEF Elems
  <2>3. l.seq >= from + p BY <1>4, <1>5, <1>11, <2>2
  <2>4. l.seq \in Nat BY <1>6, <2>2 DEF Lines
  <2>5. p \in 1..cut BY <1>3, <1>6, <1>7, <1>11, <2>3, <2>4
  <2>6. s[p] = l /\ p \in 1..Len(s) BY <1>9, <2>2, <2>5
  <2> QED BY <2>6 DEF Elems
<1> QED BY <1>1, <1>8, <1>10, <1>11 DEF lines

(* What reached the client still does when the log has taken only what is  *)
(* sent, and no replay was given up.                                       *)
LEMMA ReachesStill ==
  ASSUME NEW log, NEW seq, NEW has, NEW frames, NEW calls,
         Reaches(log, seq, has, frames, calls),
         NEW log2, NEW has2, NEW frames2, NEW calls2,
         \A l \in log2 : l \in log \/ Sent(l.ev, frames2, 0),
         \A ev : ev \in has \/ Sent(ev, frames, 0) => ev \in has2 \/ Sent(ev, frames2, 0),
         \A s \in Elems(calls) : s.at = "disk" => s \in Elems(calls2)
  PROVE  Reaches(log2, seq, has2, frames2, calls2)
<1> SUFFICES ASSUME NEW l \in log2, seq < l.seq
             PROVE  \/ l.ev \in has2
                    \/ Sent(l.ev, frames2, 0)
                    \/ \E s \in Elems(calls2) : Replays(s, l)
  BY DEF Reaches
<1>1. CASE l \notin log BY <1>1
<1>2. CASE l \in log
  <2>1. CASE l.ev \in has \/ Sent(l.ev, frames, 0) BY <2>1
  <2>2. CASE \E s \in Elems(calls) : Replays(s, l) BY <2>2 DEF Replays
  <2> QED BY <1>2, <2>1, <2>2 DEF Reaches
<1> QED BY <1>1, <1>2

-----------------------------------------------------------------------------
(* The invariant after a step.                                             *)

LEMMA SyncAfter ==
  /\ WireTypes' <=> /\ link' \in BOOLEAN /\ live' \in BOOLEAN
                    /\ syncs' \in Seq(Syncs) /\ toServer' \in Seq(Cursors)
                    /\ toClient' \in Seq(Frames) /\ client' \in Clients /\ snap' \in Snaps
                    /\ tail' \in Seq(Lines)
  /\ WireIsLive' <=> /\ toClient' # <<>> => journal'.ready /\ live'
                     /\ \A s \in Elems(syncs') : live' /\ (s.at = "disk" => journal'.ready)
  /\ TailIsEnd' <=> /\ ~ journal'.ready => tail' = <<>>
                    /\ EndOf(LogOf(disk', journal'), journal', tail')
  /\ ResyncsFollowed' <=> Followed(LogOf(disk', journal'), toClient')
  /\ NoEventLost' <=>
       (link' /\ client'.loaded =>
          \/ Asking(toServer', syncs', client'.base.seq)
          \/ /\ journal'.ready /\ live'
             /\ \/ Reset(toClient')
                \/ OneEpochOnDisk' =>
                     Reaches(LogOf(disk', journal'), client'.base.seq, client'.has, toClient',
                             syncs'))
  /\ SyncInv' <=> WireTypes' /\ WireIsLive' /\ TailIsEnd' /\ ResyncsFollowed' /\ NoEventLost'
<1>1. WireTypes' <=> /\ link' \in BOOLEAN /\ live' \in BOOLEAN
                    /\ syncs' \in Seq(Syncs) /\ toServer' \in Seq(Cursors)
                    /\ toClient' \in Seq(Frames) /\ client' \in Clients /\ snap' \in Snaps
                    /\ tail' \in Seq(Lines)
  BY DEF WireTypes
<1>2. WireIsLive' <=> /\ toClient' # <<>> => journal'.ready /\ live'
                     /\ \A s \in Elems(syncs') : live' /\ (s.at = "disk" => journal'.ready)
  BY DEF WireIsLive, Elems
<1>3. TailIsEnd' <=> /\ ~ journal'.ready => tail' = <<>>
                    /\ EndOf(LogOf(disk', journal'), journal', tail')
  BY DEF TailIsEnd, EndOf, LogOf, Elems, SeqsRise
<1>4. ResyncsFollowed' <=> Followed(LogOf(disk', journal'), toClient')
  BY DEF ResyncsFollowed, Followed, LogOf, Elems, Sent
<1>5. NoEventLost' <=>
       (link' /\ client'.loaded =>
          \/ Asking(toServer', syncs', client'.base.seq)
          \/ /\ journal'.ready /\ live'
             /\ \/ Reset(toClient')
                \/ OneEpochOnDisk' =>
                     Reaches(LogOf(disk', journal'), client'.base.seq, client'.has, toClient',
                             syncs'))
  BY DEF NoEventLost, Asking, Reset, Reaches, LogOf, Elems, Sent, Replays
<1>6. SyncInv' <=> WireTypes' /\ WireIsLive' /\ TailIsEnd' /\ ResyncsFollowed' /\ NoEventLost'
  BY DEF SyncInv
<1> QED BY <1>1, <1>2, <1>3, <1>4, <1>5, <1>6

LEMMA SyncNow ==
  ASSUME SyncInv
  PROVE  /\ link \in BOOLEAN /\ live \in BOOLEAN
         /\ syncs \in Seq(Syncs) /\ toServer \in Seq(Cursors) /\ toClient \in Seq(Frames)
         /\ client \in Clients /\ snap \in Snaps /\ tail \in Seq(Lines)
         /\ toClient # <<>> => journal.ready /\ live
         /\ \A s \in Elems(syncs) : live /\ (s.at = "disk" => journal.ready)
         /\ ~ journal.ready => tail = <<>>
         /\ EndOf(LogOf(disk, journal), journal, tail)
         /\ Followed(LogOf(disk, journal), toClient)
         /\ (link /\ client.loaded =>
               \/ Asking(toServer, syncs, client.base.seq)
               \/ /\ journal.ready /\ live
                  /\ \/ Reset(toClient)
                     \/ OneEpochOnDisk =>
                          Reaches(LogOf(disk, journal), client.base.seq, client.has, toClient,
                                  syncs))
BY DEF SyncInv, WireTypes, WireIsLive, TailIsEnd, ResyncsFollowed, NoEventLost

LEMMA EpochOfDisk ==
  ASSUME NEW f \in Files, NEW j
  PROVE  OneEpoch(f, j) <=> \A l \in EventLines(f) : l.epoch = j.epoch
<1>1. f.lines \in Seq(Lines) BY DEF Files
<1>2. Range(f.lines) = Elems(f.lines) BY <1>1, ElemsAreRange
<1> QED BY <1>2 DEF OneEpoch, EventLines

-----------------------------------------------------------------------------
(* Types.                                                                  *)

LEMMA ClientTypes ==
  ASSUME NEW c \in Clients, NEW f \in Frames, NEW at \in Cursors
  PROVE  /\ applyEvent(c, f) \in Clients
         /\ applyEvent(c, f).base = c.base /\ applyEvent(c, f).loaded = c.loaded
         /\ applyEvent(c, f).has = IF f.kind = "event" THEN c.has \cup {f.ev} ELSE c.has
         /\ onResync(c, f) \in Clients /\ onResync(c, f).base.seq = f.seq
         /\ onResync(c, f).loaded = c.loaded
         /\ [c EXCEPT !.base = c.cursor] \in Clients
         /\ [c EXCEPT !.base = c.cursor].base = c.cursor
         /\ [c EXCEPT !.base = c.cursor].loaded = c.loaded
         /\ [c EXCEPT !.cursor = at] \in Clients
         /\ [c EXCEPT !.cursor = at].base = c.base
         /\ [c EXCEPT !.cursor = at].loaded = c.loaded
         /\ [c EXCEPT !.cursor = at].has = c.has
<1>1. /\ DOMAIN c = {"loaded", "cursor", "lastSeq", "epoch", "has", "base"}
      /\ c.cursor \in Cursors /\ c.base \in Cursors /\ c.has \in SUBSET Nat
      /\ c.lastSeq \in Nat /\ c.epoch \in Nat /\ c.loaded \in BOOLEAN
      /\ f.seq \in Nat /\ f.epoch \in Nat /\ f.ev \in Nat
  BY DEF Clients, Frames
<1>2. \A a, b \in Nat : Higher(a, b) \in Nat BY DEF Higher
<1>3. trackCursor(c.cursor, f) \in Cursors
  <2>1. c.cursor.seq \in Nat BY <1>1 DEF Cursors
  <2>2. Higher(f.seq, c.cursor.seq) \in Nat BY <1>1, <1>2, <2>1
  <2>3. Cursor(Higher(f.seq, c.cursor.seq), f.epoch) \in Cursors
    BY <1>1, <2>2 DEF Cursor, Cursors
  <2> QED BY <1>1, <2>3 DEF trackCursor
<1>4. /\ applyEvent(c, f) \in Clients
      /\ applyEvent(c, f).base = c.base /\ applyEvent(c, f).loaded = c.loaded
      /\ applyEvent(c, f).has = IF f.kind = "event" THEN c.has \cup {f.ev} ELSE c.has
  <2> DEFINE has == IF f.kind = "event" THEN c.has \cup {f.ev} ELSE c.has
             to == trackCursor(c.cursor, f)
             last == Higher(c.lastSeq, f.seq)
             k == [c EXCEPT !.cursor = to, !.lastSeq = last, !.has = has]
  <2>1. has \in SUBSET Nat BY <1>1
  <2>2. last \in Nat BY <1>1, <1>2
  <2>3. to \in Cursors BY <1>3
  <2>4. applyEvent(c, f) = k BY DEF applyEvent
  <2> HIDE DEF has, to, last
  <2>5. k \in Clients /\ k.base = c.base /\ k.loaded = c.loaded /\ k.has = has
    BY <1>1, <2>1, <2>2, <2>3 DEF Clients
  <2> QED BY <2>4, <2>5 DEF has
<1>5. onResync(c, f) \in Clients /\ onResync(c, f).base.seq = f.seq
      /\ onResync(c, f).loaded = c.loaded
  <2> DEFINE to == Cursor(f.seq, f.epoch)
             k == [c EXCEPT !.cursor = to, !.base = to, !.epoch = f.epoch]
  <2>1. to \in Cursors /\ to.seq = f.seq BY <1>1 DEF Cursor, Cursors
  <2>2. onResync(c, f) = k BY DEF onResync
  <2> HIDE DEF to
  <2>3. k \in Clients /\ k.base = to /\ k.loaded = c.loaded BY <1>1, <2>1 DEF Clients
  <2> QED BY <2>1, <2>2, <2>3
<1>6. /\ [c EXCEPT !.base = c.cursor] \in Clients
      /\ [c EXCEPT !.base = c.cursor].base = c.cursor
      /\ [c EXCEPT !.base = c.cursor].loaded = c.loaded
  BY <1>1 DEF Clients
<1>7. /\ [c EXCEPT !.cursor = at] \in Clients
      /\ [c EXCEPT !.cursor = at].base = c.base
      /\ [c EXCEPT !.cursor = at].loaded = c.loaded
      /\ [c EXCEPT !.cursor = at].has = c.has
  BY <1>1 DEF Clients
<1> QED BY <1>4, <1>5, <1>6, <1>7

LEMMA SnapTypes ==
  ASSUME NEW s \in Snaps
  PROVE  /\ request(s) \in Snaps /\ settled(s) \in Snaps
         /\ s.at \in Cursors /\ s.has \in SUBSET Nat
         /\ \A at \in Cursors, has \in SUBSET Nat :
              [s EXCEPT !.phase = "answered", !.at = at, !.has = has] \in Snaps
<1>1. NoCursor \in Cursors BY DEF NoCursor, Cursor, Cursors
<1>2. NoRequest \in Snaps /\ [NoRequest EXCEPT !.phase = "asked"] \in Snaps
  BY <1>1 DEF NoRequest, Snaps
<1>3. [s EXCEPT !.again = TRUE] \in Snaps BY DEF Snaps
<1>4. \A at \in Cursors, has \in SUBSET Nat :
        [s EXCEPT !.phase = "answered", !.at = at, !.has = has] \in Snaps
  BY DEF Snaps
<1>5. s.at \in Cursors /\ s.has \in SUBSET Nat BY DEF Snaps
<1> QED BY <1>2, <1>3, <1>4, <1>5 DEF request, settled

LEMMA NothingSent ==
  /\ \A X : <<>> \in Seq(X)
  /\ Elems(<<>>) = {} /\ SeqsRise(<<>>)
  /\ \A log : Followed(log, <<>>)
  /\ \A log, j : EndOf(log, j, <<>>)
<1>1. Elems(<<>>) = {} BY NothingInOrder
<1>2. \A X : <<>> \in Seq(X) BY EmptySeq
<1>3. Len(<<>>) = 0 OBVIOUS
<1>4. SeqsRise(<<>>) BY <1>3 DEF SeqsRise
<1>5. \A log : Followed(log, <<>>) BY <1>3 DEF Followed
<1>6. \A log, j : EndOf(log, j, <<>>) BY <1>1, <1>4 DEF EndOf
<1> QED BY <1>1, <1>2, <1>4, <1>5, <1>6

LEMMA InitSync == Init => SyncInv
<1> SUFFICES ASSUME Init PROVE SyncInv OBVIOUS
<1>1. /\ tail = <<>> /\ link = FALSE /\ live = FALSE /\ syncs = <<>> /\ toServer = <<>>
      /\ toClient = <<>> /\ snap = [NoRequest EXCEPT !.phase = "asked"]
      /\ client = [loaded |-> FALSE, cursor |-> NoCursor, lastSeq |-> 0, epoch |-> 0,
                   has |-> {}, base |-> NoCursor]
  BY DEF Init
<1>2. NoCursor \in Cursors BY DEF NoCursor, Cursor, Cursors
<1>3. client \in Clients BY <1>1, <1>2 DEF Clients
<1>4. snap \in Snaps BY <1>1, <1>2 DEF NoRequest, Snaps
<1>5. WireTypes BY <1>1, <1>3, <1>4, NothingSent DEF WireTypes
<1>6. WireIsLive BY <1>1, NothingSent DEF WireIsLive
<1>7. TailIsEnd BY <1>1, NothingSent DEF TailIsEnd
<1>8. ResyncsFollowed BY <1>1, NothingSent DEF ResyncsFollowed
<1>9. NoEventLost BY <1>1 DEF NoEventLost
<1> QED BY <1>5, <1>6, <1>7, <1>8, <1>9 DEF SyncInv

-----------------------------------------------------------------------------
(* Events, and what happens to the journal.                                *)

LEMMA IdleKeeps ==
  ASSUME SyncInv, UNCHANGED <<disk, journal, tail, wire, client, snap>>
  PROVE  SyncInv'
<1>1. /\ disk' = disk /\ journal' = journal /\ tail' = tail /\ link' = link /\ live' = live
      /\ syncs' = syncs /\ toServer' = toServer /\ toClient' = toClient
      /\ client' = client /\ snap' = snap
  BY DEF wire
<1>2. OneEpochOnDisk' <=> OneEpochOnDisk BY <1>1 DEF OneEpochOnDisk, EventLines, Range
<1> QED BY <1>1, <1>2, SyncNow, SyncAfter

(* Dispatching events from an opened journal j, with what it makes of the  *)
(* log of j: shared by an event that arrives and by the opening.           *)
LEMMA DispatchKeeps ==
  ASSUME SyncInv, NEW j, NEW n, Sound(disk, j, n), j.ready, NEW evs \in Seq(Nat),
         _dispatch(j, evs), EndOf(LogOf(disk, j), j, tail),
         toClient # <<>> => j = journal,
         journal.ready => j = journal,
         UNCHANGED <<disk, link, live, syncs, toServer, client, snap>>
  PROVE  SyncInv'
<1> DEFINE k == dispatchAll(j, evs)
           new == LinesOf(j, evs)
           log == LogOf(disk, j)
           log2 == LogOf(disk, k)
           to == toClient \o new
<1>1. /\ journal' = k /\ tail' = LastOf(tail \o new)
      /\ toClient' = IF live THEN to ELSE toClient
      /\ disk' = disk /\ link' = link /\ live' = live /\ syncs' = syncs
      /\ toServer' = toServer /\ client' = client /\ snap' = snap
  BY DEF _dispatch
<1>2. /\ link \in BOOLEAN /\ live \in BOOLEAN
      /\ syncs \in Seq(Syncs) /\ toServer \in Seq(Cursors) /\ toClient \in Seq(Frames)
      /\ client \in Clients /\ snap \in Snaps /\ tail \in Seq(Lines)
      /\ toClient # <<>> => journal.ready /\ live
      /\ \A s \in Elems(syncs) : live /\ (s.at = "disk" => journal.ready)
      /\ Followed(LogOf(disk, journal), toClient)
  BY SyncNow
<1>3. Followed(log, toClient)
  <2>1. CASE toClient = <<>> BY <2>1, NothingSent
  <2>2. CASE toClient # <<>> BY <1>2, <2>2
  <2> QED BY <2>1, <2>2
<1>4. k.ready /\ k.epoch = j.epoch BY DispatchIsSound, DispatchLog
<1>5. tail' \in Seq(Lines) /\ EndOf(log2, k, tail') BY <1>1, <1>2, DispatchKeepsEnd
<1>6. /\ to \in Seq(Frames) /\ Followed(log2, to)
      /\ \A l \in log2 : l \in log \/ Sent(l.ev, to, 0)
      /\ \A ev : Sent(ev, toClient, 0) => Sent(ev, to, 0)
      /\ Reset(toClient) => Reset(to)
  BY <1>2, <1>3, DispatchSends
<1> HIDE DEF k, log, log2, to
<1>7. WireTypes' BY <1>1, <1>2, <1>5, <1>6, SyncAfter
<1>8. WireIsLive' BY <1>1, <1>2, <1>4, SyncAfter
<1>9. TailIsEnd' BY <1>1, <1>4, <1>5, SyncAfter DEF log2
<1>10. ResyncsFollowed'
  <2>1. CASE live BY <1>1, <1>6, <2>1, SyncAfter DEF log2
  <2>2. CASE ~ live
    <3>1. toClient' = <<>> BY <1>1, <1>2, <2>2
    <3> QED BY <3>1, NothingSent, SyncAfter
  <2> QED BY <2>1, <2>2
<1>11. NoEventLost'
  <2> SUFFICES ASSUME link, client.loaded, ~ Asking(toServer, syncs, client.base.seq)
               PROVE  /\ journal'.ready /\ live'
                      /\ \/ Reset(toClient')
                         \/ OneEpochOnDisk' =>
                              Reaches(LogOf(disk', journal'), client.base.seq, client.has,
                                      toClient', syncs')
    BY <1>1, SyncAfter
  <2>1. /\ journal.ready /\ live
        /\ \/ Reset(toClient)
           \/ OneEpochOnDisk =>
                Reaches(LogOf(disk, journal), client.base.seq, client.has, toClient, syncs)
    BY SyncNow
  <2>2. j = journal /\ toClient' = to BY <1>1, <2>1
  <2>3. OneEpochOnDisk' <=> OneEpochOnDisk
    <3>1. journal'.epoch = journal.epoch BY <1>1, <1>4, <2>2
    <3> QED BY <1>1, <3>1 DEF OneEpochOnDisk, EventLines, Range
  <2>4. CASE Reset(toClient) BY <1>1, <1>4, <1>6, <2>1, <2>2, <2>4
  <2>5. CASE Reaches(LogOf(disk, journal), client.base.seq, client.has, toClient, syncs)
    <3>1. Reaches(log, client.base.seq, client.has, toClient, syncs) BY <2>2, <2>5 DEF log
    <3>2. Reaches(log2, client.base.seq, client.has, to, syncs)
      BY <1>6, <3>1, ReachesStill
    <3> QED BY <1>1, <1>4, <2>1, <2>2, <3>2 DEF log2
  <2>6. CASE ~ OneEpochOnDisk BY <1>1, <1>4, <2>1, <2>3, <2>6
  <2> QED BY <2>1, <2>4, <2>5, <2>6
<1> QED BY <1>7, <1>8, <1>9, <1>10, <1>11, SyncAfter

LEMMA EventKeeps ==
  ASSUME JournalInv, SyncInv, _onEvent
  PROVE  SyncInv'
<1>1. /\ UNCHANGED <<disk, link, live, syncs, toServer, client, snap>>
      /\ Sound(disk, journal, epochs) /\ published \in Nat
  BY DEF _onEvent, JournalInv
<1>2. CASE journal.ready
  <2>1. _dispatch(journal, <<published + 1>>) BY <1>2 DEF _onEvent
  <2>2. <<published + 1>> \in Seq(Nat) BY <1>1
  <2>3. EndOf(LogOf(disk, journal), journal, tail) BY SyncNow
  <2> QED BY <1>1, <1>2, <2>1, <2>2, <2>3, DispatchKeeps
<1>3. CASE ~ journal.ready
  <2>1. UNCHANGED <<journal, tail, toClient>> BY <1>3 DEF _onEvent
  <2>2. UNCHANGED <<disk, journal, tail, wire, client, snap>> BY <1>1, <2>1 DEF wire
  <2> QED BY <2>2, IdleKeeps
<1> QED BY <1>2, <1>3

LEMMA OpeningKeeps ==
  ASSUME JournalInv, SyncInv, _getOrCreateSession
  PROVE  SyncInv'
<1> DEFINE j == open(disk, epochs + 1)
<1>1. /\ ~ journal.ready /\ _dispatch(j, waiting)
      /\ UNCHANGED <<disk, link, live, syncs, toServer, client, snap>>
      /\ Sound(disk, journal, epochs) /\ waiting \in Seq(Nat)
  BY DEF _getOrCreateSession, JournalInv
<1>2. Sound(disk, j, Higher(epochs, j.epoch)) /\ j.ready BY <1>1, OpenIsSound
<1> HIDE DEF j
<1>3. tail = <<>> /\ toClient = <<>> BY <1>1, SyncNow
<1>4. EndOf(LogOf(disk, j), j, tail) BY <1>3, NothingSent
<1>5. (toClient # <<>> => j = journal) /\ (journal.ready => j = journal) BY <1>1, <1>3
<1> QED BY <1>1, <1>2, <1>4, <1>5, DispatchKeeps

LEMMA AppendFileKeeps ==
  ASSUME NEW f \in Files, NEW batch \in Seq(Lines)
  PROVE  Elems(f.lines) \subseteq Elems(appendFile(f, batch).lines)
<1>1. CASE batch = <<>> BY <1>1 DEF appendFile
<1>2. CASE batch # <<>>
  <2> DEFINE rest == IF f.torn THEN Tail(batch) ELSE batch
  <2>1. rest \in Seq(Lines) BY <1>2, PartRises
  <2>2. appendFile(f, batch).lines = f.lines \o rest BY <1>2 DEF appendFile
  <2> HIDE DEF rest
  <2>3. f.lines \in Seq(Lines) BY DEF Files
  <2>4. Elems(f.lines \o rest) = Elems(f.lines) \cup Elems(rest) BY <2>1, <2>3, ConcatElems
  <2> QED BY <2>2, <2>4
<1> QED BY <1>1, <1>2

(* A step that leaves the client and the connection alone, opens nothing   *)
(* and adds nothing to the log.                                            *)
LEMMA JournalStepKeeps ==
  ASSUME SyncInv, UNCHANGED <<tail, wire, client, snap>>,
         journal'.ready = journal.ready, journal'.epoch = journal.epoch,
         journal'.seq = journal.seq,
         \A l \in LogOf(disk', journal') : l \in LogOf(disk, journal),
         OneEpochOnDisk' => OneEpochOnDisk
  PROVE  SyncInv'
<1>1. /\ tail' = tail /\ link' = link /\ live' = live
      /\ syncs' = syncs /\ toServer' = toServer /\ toClient' = toClient
      /\ client' = client /\ snap' = snap
  BY DEF wire
<1> DEFINE log == LogOf(disk, journal)
           log2 == LogOf(disk', journal')
<1>2. log2 \subseteq log OBVIOUS
<1>3. /\ EndOf(log, journal, tail) /\ Followed(log, toClient) BY SyncNow
<1> HIDE DEF log, log2
<1>4. EndOf(log2, journal', tail) BY <1>2, <1>3 DEF EndOf
<1>5. Followed(log2, toClient) BY <1>2, <1>3, FollowsLess
<1>6. Reaches(log, client.base.seq, client.has, toClient, syncs) =>
        Reaches(log2, client.base.seq, client.has, toClient, syncs)
  BY <1>2 DEF Reaches
<1>7. WireTypes' BY <1>1, SyncNow, SyncAfter
<1>8. WireIsLive' BY <1>1, SyncNow, SyncAfter
<1>9. TailIsEnd' BY <1>1, <1>4, SyncNow, SyncAfter DEF log2
<1>10. ResyncsFollowed' BY <1>1, <1>5, SyncAfter DEF log2
<1>11. NoEventLost' BY <1>1, <1>6, SyncNow, SyncAfter DEF log, log2
<1> QED BY <1>7, <1>8, <1>9, <1>10, <1>11, SyncAfter

LEMMA WrittenKeeps ==
  ASSUME JournalInv, SyncInv, Written
  PROVE  SyncInv'
<1> DEFINE k == [journal EXCEPT !.writing = <<>>]
<1>1. /\ journal' = k
      /\ disk' = appendFile(disk, journal.writing) \/ disk' = disk
      /\ UNCHANGED <<tail, wire, client, snap>>
      /\ Sound(disk, journal, epochs)
  BY DEF Written, JournalInv
<1>2. /\ disk \in Files /\ journal \in Journals /\ journal.writing \in Seq(Lines)
      /\ DOMAIN journal = JournalFields /\ InOrder(disk, journal)
  BY <1>1, JournalShape DEF Sound
<1>3. /\ k.writing = <<>> /\ k.pendingLines = journal.pendingLines
      /\ k.ready = journal.ready /\ k.seq = journal.seq /\ k.epoch = journal.epoch
  BY <1>2 DEF JournalFields
<1> HIDE DEF k
<1>4. /\ appendFile(disk, journal.writing) \in Files
      /\ Elems(appendFile(disk, journal.writing).lines)
           \subseteq Elems(disk.lines) \cup Elems(journal.writing)
  BY <1>2, AppendFileRises DEF InOrder
<1>5. /\ disk' \in Files
      /\ Elems(disk'.lines) \subseteq Elems(disk.lines) \cup Elems(journal.writing)
  BY <1>1, <1>2, <1>4
<1>6. \A l \in LogOf(disk', journal') : l \in LogOf(disk, journal)
  <2>1. Elems(k.writing) = {} BY <1>3, NothingInOrder
  <2> QED BY <1>1, <1>3, <1>5, <2>1 DEF LogOf
<1>7. EventLines(disk) \subseteq EventLines(disk')
  <2>1. CASE disk' = disk BY <2>1
  <2>2. CASE disk' = appendFile(disk, journal.writing)
    <3>1. Elems(disk.lines) \subseteq Elems(disk'.lines)
      BY <1>2, <2>2, AppendFileKeeps
    <3>2. Range(disk.lines) = Elems(disk.lines) /\ Range(disk'.lines) = Elems(disk'.lines)
      <4>1. disk.lines \in Seq(Lines) /\ disk'.lines \in Seq(Lines) BY <1>2, <1>5 DEF Files
      <4> QED BY <4>1, ElemsAreRange
    <3> QED BY <3>1, <3>2 DEF EventLines
  <2> QED BY <1>1, <2>1, <2>2
<1>8. OneEpochOnDisk' => OneEpochOnDisk
  <2>1. OneEpochOnDisk' <=> \A l \in EventLines(disk') : l.epoch = journal'.epoch
    BY DEF OneEpochOnDisk, EventLines, Range
  <2> QED BY <1>1, <1>3, <1>7, <2>1 DEF OneEpochOnDisk
<1> QED BY <1>1, <1>3, <1>6, <1>8, JournalStepKeeps

-----------------------------------------------------------------------------
(* The server's end of the connection.                                     *)

LEMMA VolatileKeeps ==
  ASSUME JournalInv, SyncInv, _onVolatile
  PROVE  SyncInv'
<1> DEFINE v == Volatile(journal.seq, journal.epoch)
           one == <<v>>
           to == toClient \o one
           log == LogOf(disk, journal)
<1>1. /\ journal.ready /\ live /\ toClient' = Append(toClient, v)
      /\ disk' = disk /\ journal' = journal /\ tail' = tail
      /\ link' = link /\ live' = live /\ syncs' = syncs
      /\ toServer' = toServer /\ client' = client /\ snap' = snap
      /\ Sound(disk, journal, epochs)
  BY DEF _onVolatile, server, JournalInv
<1>2. toClient \in Seq(Frames) /\ Followed(log, toClient) BY SyncNow
<1>3. v \in Frames /\ v.kind # "resync_required"
  <2>1. v \in Frames BY <1>1, JournalShape, LinesAreFrames
  <2>2. v.kind # "resync_required" BY DEF Volatile
  <2> QED BY <2>1, <2>2
<1> HIDE DEF v, log
<1>4. Append(toClient, v) = to BY <1>2, <1>3
<1>5. one \in Seq(Frames) /\ Elems(one) = {v} BY <1>3, OneElem
<1> HIDE DEF one
<1>6. Followed(log, one) BY <1>3, <1>5, NothingFollows
<1>7. /\ to \in Seq(Frames) /\ Followed(log, to)
      /\ \A ev : Sent(ev, toClient, 0) => Sent(ev, to, 0)
      /\ Reset(toClient) => Reset(to)
  BY <1>2, <1>5, <1>6, FramesGoOut
<1> HIDE DEF to
<1>8. Reaches(log, client.base.seq, client.has, toClient, syncs) =>
        Reaches(log, client.base.seq, client.has, to, syncs)
  BY <1>7, ReachesStill
<1>9. OneEpochOnDisk' <=> OneEpochOnDisk BY <1>1 DEF OneEpochOnDisk, EventLines, Range
<1>10. WireTypes' BY <1>1, <1>4, <1>7, SyncNow, SyncAfter
<1>11. WireIsLive' BY <1>1, SyncNow, SyncAfter
<1>12. TailIsEnd' BY <1>1, SyncNow, SyncAfter
<1>13. ResyncsFollowed' BY <1>1, <1>4, <1>7, SyncAfter DEF log
<1>14. NoEventLost' BY <1>1, <1>4, <1>7, <1>8, <1>9, SyncNow, SyncAfter DEF log
<1> QED BY <1>10, <1>11, <1>12, <1>13, <1>14, SyncAfter

(* The question moves from the socket into the queue.                      *)
LEMMA SyncSessionsKeeps ==
  ASSUME SyncInv, syncSessions
  PROVE  SyncInv'
<1> DEFINE c == Head(toServer)
           r == [cursor |-> c, at |-> "queue"]
           one == <<r>>
           calls == syncs \o one
<1>1. /\ toServer # <<>> /\ toServer' = Tail(toServer) /\ live' = TRUE
      /\ syncs' = Append(syncs, r)
      /\ disk' = disk /\ journal' = journal /\ tail' = tail
      /\ link' = link /\ toClient' = toClient /\ client' = client /\ snap' = snap
  BY DEF syncSessions, server
<1>2. syncs \in Seq(Syncs) /\ toServer \in Seq(Cursors) BY SyncNow
<1>3. /\ c \in Cursors /\ Tail(toServer) \in Seq(Cursors)
      /\ Elems(toServer) = {c} \cup Elems(Tail(toServer))
  BY <1>1, <1>2, TailElems
<1> HIDE DEF c
<1>4. r \in Syncs /\ r.at = "queue" /\ r.cursor = c BY <1>3 DEF Syncs
<1> HIDE DEF r
<1>5. Append(syncs, r) = calls BY <1>2, <1>4
<1>6. one \in Seq(Syncs) /\ Elems(one) = {r} BY <1>4, OneElem
<1> HIDE DEF one
<1>7. calls \in Seq(Syncs) /\ Elems(calls) = Elems(syncs) \cup {r} BY <1>2, <1>6, ConcatElems
<1> HIDE DEF calls
<1>8. Asking(toServer, syncs, client.base.seq) =>
        Asking(Tail(toServer), calls, client.base.seq)
  BY <1>3, <1>4, <1>7 DEF Asking
<1>9. Reaches(LogOf(disk, journal), client.base.seq, client.has, toClient, syncs) =>
        Reaches(LogOf(disk, journal), client.base.seq, client.has, toClient, calls)
  BY <1>7, ReachesStill
<1>10. OneEpochOnDisk' <=> OneEpochOnDisk BY <1>1 DEF OneEpochOnDisk, EventLines, Range
<1>11. WireTypes' BY <1>1, <1>3, <1>5, <1>7, SyncNow, SyncAfter
<1>12. WireIsLive' BY <1>1, <1>4, <1>5, <1>7, SyncNow, SyncAfter
<1>13. TailIsEnd' BY <1>1, SyncNow, SyncAfter
<1>14. ResyncsFollowed' BY <1>1, SyncNow, SyncAfter
<1>15. NoEventLost' BY <1>1, <1>5, <1>8, <1>9, <1>10, SyncNow, SyncAfter
<1> QED BY <1>11, <1>12, <1>13, <1>14, <1>15, SyncAfter

(* The i-th call ends; what it sends is an answer to its question.         *)
LEMMA AnswerKeeps ==
  ASSUME JournalInv, SyncInv, NEW i \in DOMAIN syncs, NEW t \in Seq(Frames),
         journal.ready, UNCHANGED <<disk, journal, tail, link, live, toServer, client, snap>>,
         toClient' = toClient \o t, syncs' = RemoveAt(syncs, i),
         Followed(LogOf(disk, journal), t),
         \/ Reset(t)
         \/ OneEpochOnDisk => \A l \in LogOf(disk, journal) :
              (IF syncs[i].at = "queue" THEN syncs[i].cursor.seq < l.seq
               ELSE Replays(syncs[i], l)) => Sent(l.ev, t, 0)
  PROVE  SyncInv'
<1> DEFINE r == syncs[i]
           calls == RemoveAt(syncs, i)
           to == toClient \o t
           log == LogOf(disk, journal)
           seq == client.base.seq
<1>1. /\ syncs \in Seq(Syncs) /\ toClient \in Seq(Frames) /\ Followed(log, toClient)
      /\ toServer \in Seq(Cursors) /\ client \in Clients
  BY SyncNow
<1>2. i \in 1..Len(syncs) /\ r \in Elems(syncs) /\ r \in Syncs
  <2>1. i \in 1..Len(syncs) BY <1>1
  <2> QED BY <1>1, <2>1, ElemsOf
<1>3. /\ calls \in Seq(Syncs) /\ Elems(calls) \subseteq Elems(syncs)
      /\ \A s \in Elems(syncs) : s # r => s \in Elems(calls)
  BY <1>1, <1>2, RemoveKeeps
<1>4. live BY <1>2, SyncNow
<1> HIDE DEF calls, log, r
<1>5. /\ to \in Seq(Frames) /\ Followed(log, to)
      /\ \A ev : Sent(ev, toClient, 0) \/ Sent(ev, t, 0) => Sent(ev, to, 0)
      /\ Reset(toClient) \/ Reset(t) => Reset(to)
  BY <1>1, FramesGoOut DEF log
<1> HIDE DEF to
<1>6. OneEpochOnDisk' <=> OneEpochOnDisk BY DEF OneEpochOnDisk, EventLines, Range
<1>7. WireTypes' BY <1>3, <1>5, SyncNow, SyncAfter DEF to, calls
<1>8. WireIsLive' BY <1>3, <1>4, SyncNow, SyncAfter DEF calls
<1>9. TailIsEnd' BY SyncNow, SyncAfter
<1>10. ResyncsFollowed' BY <1>5, SyncAfter DEF to, log
<1>11. NoEventLost'
  <2> SUFFICES ASSUME link, client.loaded, ~ Asking(toServer, calls, seq), ~ Reset(to),
                      OneEpochOnDisk
               PROVE  Reaches(log, seq, client.has, to, calls)
    BY <1>4, <1>6, SyncAfter DEF calls, to, log
  <2>1. ASSUME NEW l \in log,
               IF r.at = "queue" THEN r.cursor.seq < l.seq ELSE Replays(r, l)
        PROVE  Sent(l.ev, to, 0)
    BY <1>5, <2>1 DEF r, log
  <2>2. CASE Asking(toServer, syncs, seq)
    <3>1. PICK s \in Elems(syncs) : s.at = "queue" /\ s.cursor.seq <= seq
      BY <2>2 DEF Asking
    <3>2. s = r BY <1>3, <3>1 DEF Asking
    <3>3. r.cursor.seq \in Nat /\ seq \in Nat
      BY <1>1, <1>2 DEF Syncs, Cursors, Clients
    <3>4. ASSUME NEW l \in log, seq < l.seq PROVE Sent(l.ev, to, 0)
      <4>1. l.seq \in Nat BY <3>4, LogNumbered DEF log, JournalInv
      <4>2. r.cursor.seq < l.seq BY <3>1, <3>2, <3>3, <3>4, <4>1
      <4> QED BY <2>1, <3>1, <3>2, <4>2
    <3> QED BY <3>4 DEF Reaches
  <2>3. CASE ~ Asking(toServer, syncs, seq)
    <3>1. Reaches(log, seq, client.has, toClient, syncs)
      BY <1>5, <2>3, SyncNow DEF log
    <3>2. ASSUME NEW l \in log, seq < l.seq
          PROVE  \/ l.ev \in client.has
                 \/ Sent(l.ev, to, 0)
                 \/ \E s \in Elems(calls) : Replays(s, l)
      <4>1. CASE l.ev \in client.has \/ Sent(l.ev, toClient, 0) BY <1>5, <4>1
      <4>2. CASE \E s \in Elems(syncs) : Replays(s, l)
        <5>1. PICK s \in Elems(syncs) : Replays(s, l) BY <4>2
        <5>2. CASE s = r
          <6>1. r.at # "queue" BY <5>1, <5>2 DEF Replays
          <6> QED BY <2>1, <5>1, <5>2, <6>1
        <5>3. CASE s # r BY <1>3, <5>1, <5>3
        <5> QED BY <5>2, <5>3
      <4> QED BY <3>1, <3>2, <4>1, <4>2 DEF Reaches
    <3> QED BY <3>2 DEF Reaches
  <2> QED BY <2>2, <2>3
<1> QED BY <1>7, <1>8, <1>9, <1>10, <1>11, SyncAfter

(* The cursor of a call is compared with the journal's position.           *)
LEMMA CallAt ==
  ASSUME JournalInv, SyncInv, NEW i \in DOMAIN syncs
  PROVE  /\ i \in 1..Len(syncs) /\ syncs[i] \in Elems(syncs) /\ syncs[i] \in Syncs
         /\ syncs[i].cursor.seq \in Nat
         /\ journal.seq \in Nat /\ journal.epoch \in Nat
         /\ syncs[i].at = "disk" => journal.ready
<1>1. syncs \in Seq(Syncs) BY SyncNow
<1>2. i \in 1..Len(syncs) BY <1>1
<1>3. syncs[i] \in Elems(syncs) /\ syncs[i] \in Syncs BY <1>1, <1>2, ElemsOf
<1>4. syncs[i].cursor.seq \in Nat BY <1>3 DEF Syncs, Cursors
<1>5. journal.seq \in Nat /\ journal.epoch \in Nat BY JournalShape DEF JournalInv
<1>6. syncs[i].at = "disk" => journal.ready BY <1>3, SyncNow
<1> QED BY <1>2, <1>3, <1>4, <1>5, <1>6

LEMMA BufferedKeeps ==
  ASSUME JournalInv, SyncInv, NEW i \in DOMAIN syncs, getBufferedSince(i)
  PROVE  SyncInv'
<1> DEFINE c == syncs[i].cursor
           log == LogOf(disk, journal)
           found == LinesSince(tail, c.seq)
           reply == Resync(journal.seq, journal.epoch)
           one == <<reply>>
           moved == [syncs EXCEPT ![i].at = "disk"]
<1>1. /\ syncs[i].at = "queue" /\ journal.ready
      /\ UNCHANGED <<disk, journal, tail, link, live, toServer, client, snap>>
      /\ \/ /\ toClient' = Append(toClient, reply)
            /\ syncs' = RemoveAt(syncs, i)
         \/ /\ c.seq = journal.seq \/ InTail(c)
            /\ toClient' = toClient \o found
            /\ syncs' = RemoveAt(syncs, i)
         \/ /\ ~ Overflow(c) /\ c.seq # journal.seq
            /\ syncs' = moved /\ toClient' = toClient
  BY DEF getBufferedSince, server
<1>2. /\ i \in 1..Len(syncs) /\ syncs[i] \in Elems(syncs) /\ syncs[i] \in Syncs
      /\ c.seq \in Nat /\ journal.seq \in Nat /\ journal.epoch \in Nat
  BY CallAt
<1>3. \A l \in log : l.seq \in Nat /\ l.seq <= journal.seq
  BY <1>1, LogNumbered DEF JournalInv
<1>4. /\ syncs \in Seq(Syncs) /\ toClient \in Seq(Frames) /\ tail \in Seq(Lines)
      /\ EndOf(log, journal, tail) /\ client \in Clients
  BY SyncNow
<1>5. CASE toClient' = Append(toClient, reply) /\ syncs' = RemoveAt(syncs, i)
  <2>1. reply \in Frames /\ reply.kind = "resync_required" /\ reply.seq = journal.seq
    <3>1. reply \in Frames BY <1>2, LinesAreFrames
    <3>2. reply.kind = "resync_required" /\ reply.seq = journal.seq BY DEF Resync
    <3> QED BY <3>1, <3>2
  <2> HIDE DEF reply
  <2>2. one \in Seq(Frames) /\ Elems(one) = {reply} /\ Len(one) = 1 /\ one[1] = reply
    BY <2>1, OneElem
  <2>3. toClient' = toClient \o one BY <1>4, <1>5, <2>1
  <2> HIDE DEF one
  <2>4. Reset(one) BY <2>1, <2>2 DEF Reset
  <2>5. Followed(log, one)
    <3> SUFFICES ASSUME NEW k \in 1..Len(one), NEW l \in log, one[k].seq < l.seq PROVE FALSE
      BY DEF Followed
    <3>1. one[k] = reply BY <2>2
    <3>2. journal.seq < l.seq BY <2>1, <3>1
    <3> QED BY <1>2, <1>3, <3>2
  <2> QED BY <1>1, <1>5, <2>2, <2>3, <2>4, <2>5, AnswerKeeps DEF log
<1>6. CASE /\ c.seq = journal.seq \/ InTail(c)
           /\ toClient' = toClient \o found /\ syncs' = RemoveAt(syncs, i)
  <2>1. /\ found \in Seq(Lines) /\ Elems(found) = {l \in Elems(tail) : IsAfter(l, c.seq)}
    BY <1>2, <1>4, LinesSinceAre
  <2> HIDE DEF found
  <2>2. \A l \in Elems(found) : l.kind = "event" BY <2>1 DEF IsAfter
  <2>3. /\ found \in Seq(Frames) /\ Followed(log, found)
        /\ \A l \in Elems(found) : Sent(l.ev, found, 0)
    BY <2>1, <2>2, EventsToSend
  <2>4. ASSUME NEW l \in log, c.seq < l.seq PROVE Sent(l.ev, found, 0)
    <3>1. l.seq \in Nat /\ l.seq <= journal.seq BY <1>3, <2>4
    <3>2. InTail(c)
      <4>1. c.seq # journal.seq BY <1>2, <2>4, <3>1
      <4> QED BY <1>6, <4>1
    <3>3. tail # <<>> /\ tail[1].seq <= c.seq + 1 BY <3>2 DEF InTail
    <3>4. tail[1].seq \in Nat
      <4>1. Len(tail) \in Nat /\ Len(tail) # 0 BY <1>4, <3>3, ElemsOf
      <4>2. 1 \in 1..Len(tail) BY <4>1
      <4>3. tail[1] \in Lines BY <1>4, <4>2
      <4> QED BY <4>3 DEF Lines
    <3>5. tail[1].seq <= l.seq BY <1>2, <2>4, <3>1, <3>3, <3>4
    <3>6. l \in Elems(tail) BY <1>4, <2>4, <3>3, <3>5 DEF EndOf
    <3>7. l.kind = "event" BY <2>4 DEF log, LogOf
    <3>8. l \in Elems(found) BY <2>1, <2>4, <3>6, <3>7 DEF IsAfter
    <3> QED BY <2>3, <3>8
  <2> QED BY <1>1, <1>6, <2>3, <2>4, AnswerKeeps DEF log
<1>7. CASE ~ Overflow(c) /\ syncs' = moved /\ toClient' = toClient
  <2> DEFINE r == [syncs[i] EXCEPT !.at = "disk"]
             seq == client.base.seq
  <2>1. r \in Syncs /\ r.at = "disk" /\ r.cursor = c BY <1>2 DEF Syncs
  <2>2. moved = [syncs EXCEPT ![i] = r] OBVIOUS
  <2> HIDE DEF r, moved
  <2>3. /\ moved \in Seq(Syncs) /\ Len(moved) = Len(syncs) /\ moved[i] = r
        /\ \A k \in 1..Len(syncs) : k # i => moved[k] = syncs[k]
    BY <1>2, <1>4, <2>1, <2>2
  <2>4. r \in Elems(moved) BY <1>2, <2>3 DEF Elems
  <2>5. \A s \in Elems(syncs) : s # syncs[i] => s \in Elems(moved) BY <2>3 DEF Elems
  <2>6. \A s \in Elems(moved) : s = r \/ s \in Elems(syncs) BY <2>3 DEF Elems
  <2>7. \A l \in log : c.seq < l.seq => Replays(r, l)
    <3> SUFFICES ASSUME NEW l \in log, c.seq < l.seq PROVE l.seq <= c.seq + MaxBuffer
      BY <2>1 DEF Replays
    <3>1. l.seq \in Nat /\ l.seq <= journal.seq /\ MaxBuffer \in Nat BY <1>3, StreamConstants
    <3>2. ~ (journal.seq - c.seq > MaxBuffer) BY <1>7 DEF Overflow
    <3> QED BY <1>2, <3>1, <3>2
  <2>8. live BY <1>2, SyncNow
  <2>9. OneEpochOnDisk' <=> OneEpochOnDisk BY <1>1 DEF OneEpochOnDisk, EventLines, Range
  <2>10. WireTypes' BY <1>1, <1>7, <2>3, SyncNow, SyncAfter
  <2>11. WireIsLive' BY <1>1, <1>7, <2>6, <2>8, SyncNow, SyncAfter
  <2>12. TailIsEnd' BY <1>1, SyncNow, SyncAfter
  <2>13. ResyncsFollowed' BY <1>1, <1>7, SyncNow, SyncAfter
  <2>14. NoEventLost'
    <3> SUFFICES ASSUME link, client.loaded, ~ Asking(toServer, moved, seq), ~ Reset(toClient),
                        OneEpochOnDisk
                 PROVE  Reaches(log, seq, client.has, toClient, moved)
      BY <1>1, <1>7, <2>8, <2>9, SyncAfter DEF log
    <3>1. CASE Asking(toServer, syncs, seq)
      <4>1. PICK s \in Elems(syncs) : s.at = "queue" /\ s.cursor.seq <= seq
        BY <3>1 DEF Asking
      <4>2. s = syncs[i] BY <2>5, <4>1 DEF Asking
      <4>3. c.seq <= seq /\ seq \in Nat BY <1>4, <4>1, <4>2 DEF Clients, Cursors
      <4>4. ASSUME NEW l \in log, seq < l.seq PROVE Replays(r, l)
        <5>1. l.seq \in Nat BY <1>3
        <5>2. c.seq < l.seq BY <1>2, <4>3, <4>4, <5>1
        <5> QED BY <2>7, <5>2
      <4> QED BY <2>4, <4>4 DEF Reaches
    <3>2. CASE ~ Asking(toServer, syncs, seq)
      <4>1. Reaches(log, seq, client.has, toClient, syncs) BY <3>2, SyncNow DEF log
      <4>2. \A s \in Elems(syncs) : s.at = "disk" => s \in Elems(moved) BY <1>1, <2>5
      <4> QED BY <4>1, <4>2, ReachesStill
    <3> QED BY <3>1, <3>2
  <2> QED BY <2>10, <2>11, <2>12, <2>13, <2>14, SyncAfter
<1> QED BY <1>1, <1>5, <1>6, <1>7

LEMMA ReadKeeps ==
  ASSUME JournalInv, SyncInv, NEW i \in DOMAIN syncs, readJournal(i)
  PROVE  SyncInv'
<1> DEFINE from == syncs[i].cursor.seq
           read == readSince(disk, from)
           log == LogOf(disk, journal)
<1>1. /\ syncs[i].at = "disk" /\ journal.writing = <<>>
      /\ UNCHANGED <<disk, tail, link, live, toServer, client, snap>>
      /\ \/ journal.pendingLines # <<>> /\ journal' = flushOnce(journal)
            /\ UNCHANGED <<syncs, toClient>>
         \/ /\ journal.pendingLines = <<>> /\ journal' = journal
            /\ toClient' = toClient \o read /\ syncs' = RemoveAt(syncs, i)
  BY DEF readJournal
<1>2. from \in Nat /\ journal.ready BY <1>1, CallAt
<1>3. Sound(disk, journal, epochs) /\ disk \in Files /\ journal \in Journals
  BY JournalShape DEF JournalInv
<1>4. CASE journal' = flushOnce(journal) /\ UNCHANGED <<syncs, toClient>>
  <2>1. journal'.ready = journal.ready /\ journal'.epoch = journal.epoch
        /\ journal'.seq = journal.seq
    BY <1>2, <1>3, <1>4, FlushIsSound
  <2>2. \A l \in LogOf(disk', journal') : l \in LogOf(disk, journal)
    BY <1>1, <1>3, <1>4, FlushKeepsLog
  <2>3. OneEpochOnDisk' => OneEpochOnDisk
    BY <1>1, <2>1 DEF OneEpochOnDisk, EventLines, Range
  <2>4. UNCHANGED <<tail, wire, client, snap>> BY <1>1, <1>4 DEF wire
  <2> QED BY <2>1, <2>2, <2>3, <2>4, JournalStepKeeps
<1>5. CASE /\ journal.pendingLines = <<>> /\ journal' = journal
           /\ toClient' = toClient \o read /\ syncs' = RemoveAt(syncs, i)
  <2>1. /\ read \in Seq(Lines) /\ \A l \in Elems(read) : l.kind = "event"
        /\ OneEpoch(disk, journal) => \A l \in Elems(disk.lines) :
             l.kind = "event" /\ from < l.seq /\ l.seq <= from + MaxBuffer => l \in Elems(read)
    BY <1>2, <1>3, ReplayIsWhole
  <2> HIDE DEF read
  <2>2. /\ read \in Seq(Frames) /\ Followed(log, read)
        /\ \A l \in Elems(read) : Sent(l.ev, read, 0)
    BY <2>1, EventsToSend
  <2>3. OneEpochOnDisk <=> OneEpoch(disk, journal)
    BY <1>3, EpochOfDisk DEF OneEpochOnDisk
  <2>4. ASSUME OneEpochOnDisk, NEW l \in log, Replays(syncs[i], l) PROVE Sent(l.ev, read, 0)
    <3>1. Elems(journal.writing) = {} /\ Elems(journal.pendingLines) = {}
      BY <1>1, <1>5, NothingInOrder
    <3>2. l \in Elems(disk.lines) /\ l.kind = "event" BY <2>4, <3>1 DEF log, LogOf
    <3>3. from < l.seq /\ l.seq <= from + MaxBuffer BY <2>4 DEF Replays
    <3> QED BY <2>1, <2>2, <2>3, <2>4, <3>2, <3>3
  <2> QED BY <1>1, <1>2, <1>5, <2>2, <2>4, AnswerKeeps DEF log
<1> QED BY <1>1, <1>4, <1>5

-----------------------------------------------------------------------------
(* The client.                                                             *)

(* A resync_required sets the client's base, and the frames behind it hold *)
(* what comes after; an event is the client's from then on.                *)
LEMMA FrameKeeps ==
  ASSUME JournalInv, SyncInv, handleFrame
  PROVE  SyncInv'
<1> DEFINE f == Head(toClient)
           rest == Tail(toClient)
           log == LogOf(disk, journal)
           seq == client.base.seq
           e == applyEvent(client, f)
           r == onResync(client, f)
<1>1. /\ toClient # <<>> /\ toClient' = rest
      /\ disk' = disk /\ journal' = journal /\ tail' = tail
      /\ link' = link /\ live' = live /\ syncs' = syncs /\ toServer' = toServer
      /\ \/ f.kind = "resync_required" /\ client' = r /\ snap' = request(snap)
         \/ f.kind # "resync_required" /\ client' = e /\ snap' = snap
  BY DEF handleFrame, server
<1>2. /\ toClient \in Seq(Frames) /\ Followed(log, toClient) /\ client \in Clients
      /\ snap \in Snaps /\ journal.ready /\ live
  BY <1>1, SyncNow
<1>3. f \in Frames /\ rest \in Seq(Frames) BY <1>1, <1>2, TailElems
<1>4. /\ Followed(log, rest)
      /\ f.kind = "resync_required" => \A l \in log : f.seq < l.seq => Sent(l.ev, rest, 0)
      /\ \A ev : Sent(ev, toClient, 0) =>
           Sent(ev, rest, 0) \/ (f.kind = "event" /\ f.ev = ev)
      /\ f.kind # "resync_required" /\ Reset(toClient) => Reset(rest)
  BY <1>1, <1>2, FrameTaken
<1> HIDE DEF f, rest, log
<1>5. NoCursor \in Cursors BY DEF NoCursor, Cursor, Cursors
<1>6. /\ e \in Clients /\ e.base = client.base /\ e.loaded = client.loaded
      /\ e.has = IF f.kind = "event" THEN client.has \cup {f.ev} ELSE client.has
      /\ r \in Clients /\ r.base.seq = f.seq /\ r.loaded = client.loaded
  BY <1>2, <1>3, <1>5, ClientTypes
<1> HIDE DEF e, r
<1>7. OneEpochOnDisk' <=> OneEpochOnDisk BY <1>1 DEF OneEpochOnDisk, EventLines, Range
<1>8. client' \in Clients /\ snap' \in Snaps BY <1>1, <1>2, <1>6, SnapTypes
<1>9. WireTypes' BY <1>1, <1>3, <1>8, SyncNow, SyncAfter
<1>10. WireIsLive' BY <1>1, <1>2, SyncNow, SyncAfter
<1>11. TailIsEnd' BY <1>1, SyncNow, SyncAfter
<1>12. ResyncsFollowed' BY <1>1, <1>4, SyncAfter DEF log
<1>13. NoEventLost'
  <2>1. CASE f.kind = "resync_required"
    <3>1. client'.base.seq = f.seq BY <1>1, <1>6, <2>1
    <3>2. Reaches(log, f.seq, client'.has, rest, syncs) BY <1>4, <2>1 DEF Reaches
    <3> QED BY <1>1, <1>2, <3>1, <3>2, SyncAfter DEF log
  <2>2. CASE f.kind # "resync_required"
    <3>1. client'.base.seq = seq /\ client'.loaded = client.loaded BY <1>1, <1>6, <2>2
    <3>2. \A ev : ev \in client.has \/ Sent(ev, toClient, 0) =>
                    ev \in client'.has \/ Sent(ev, rest, 0)
      BY <1>1, <1>4, <1>6, <2>2
    <3>3. Reaches(log, seq, client.has, toClient, syncs) =>
            Reaches(log, seq, client'.has, rest, syncs)
      BY <3>2, ReachesStill
    <3> QED BY <1>1, <1>2, <1>4, <1>7, <2>2, <3>1, <3>3, SyncNow, SyncAfter DEF log
  <2> QED BY <2>1, <2>2
<1> QED BY <1>9, <1>10, <1>11, <1>12, <1>13, SyncAfter

(* A step in which the client asks, or changes nothing that matters here.  *)
LEMMA AskingKeeps ==
  ASSUME SyncInv, UNCHANGED <<disk, journal, tail, live, syncs, toClient>>,
         link' \in BOOLEAN, toServer' \in Seq(Cursors), client' \in Clients, snap' \in Snaps,
         \/ link' /\ client'.loaded => Asking(toServer', syncs, client'.base.seq)
         \/ /\ link' = link /\ client'.loaded = client.loaded /\ client'.has = client.has
            /\ client'.base = client.base /\ Elems(toServer) \subseteq Elems(toServer')
  PROVE  SyncInv'
<1>1. OneEpochOnDisk' <=> OneEpochOnDisk BY DEF OneEpochOnDisk, EventLines, Range
<1>2. WireTypes' BY SyncNow, SyncAfter
<1>3. WireIsLive' BY SyncNow, SyncAfter
<1>4. TailIsEnd' BY SyncNow, SyncAfter
<1>5. ResyncsFollowed' BY SyncNow, SyncAfter
<1>6. NoEventLost'
  <2>1. CASE link' /\ client'.loaded => Asking(toServer', syncs, client'.base.seq)
    BY <2>1, SyncAfter
  <2>2. CASE /\ link' = link /\ client'.loaded = client.loaded /\ client'.has = client.has
             /\ client'.base = client.base /\ Elems(toServer) \subseteq Elems(toServer')
    <3>1. Asking(toServer, syncs, client.base.seq) =>
            Asking(toServer', syncs, client.base.seq)
      BY <2>2 DEF Asking
    <3> QED BY <1>1, <2>2, <3>1, SyncNow, SyncAfter
  <2> QED BY <2>1, <2>2
<1> QED BY <1>2, <1>3, <1>4, <1>5, <1>6, SyncAfter

LEMMA HelloKeeps ==
  ASSUME SyncInv, onServerHello
  PROVE  SyncInv'
<1> DEFINE c == client.cursor
           one == <<c>>
           k == [client EXCEPT !.base = client.cursor]
<1>1. /\ UNCHANGED <<disk, journal, tail, live, syncs, toClient, snap>>
      /\ link' = TRUE /\ client' = k
      /\ toServer' = IF client.loaded THEN one ELSE <<>>
  BY DEF onServerHello, server
<1>2. client \in Clients /\ snap \in Snaps BY SyncNow
<1>3. c \in Cursors /\ c.seq \in Nat BY <1>2 DEF Clients, Cursors
<1>4. k \in Clients /\ k.base = c /\ k.loaded = client.loaded BY <1>2 DEF Clients
<1> HIDE DEF c, k
<1>5. one \in Seq(Cursors) /\ Elems(one) = {c} BY <1>3, OneElem
<1> HIDE DEF one
<1>6. toServer' \in Seq(Cursors) BY <1>1, <1>5, NothingSent
<1>7. client'.loaded => Asking(toServer', syncs, client'.base.seq)
  <2> SUFFICES ASSUME client'.loaded PROVE Asking(toServer', syncs, client'.base.seq)
    OBVIOUS
  <2>1. toServer' = one /\ client'.base = c BY <1>1, <1>4
  <2>2. c \in Elems(toServer') /\ c.seq <= client'.base.seq BY <1>3, <1>5, <2>1
  <2> QED BY <2>2 DEF Asking
<1> QED BY <1>1, <1>2, <1>4, <1>6, <1>7, AskingKeeps

(* What subscribe sends.                                                   *)
LEMMA Subscribes ==
  ASSUME SyncInv, NEW at \in Cursors
  PROVE  LET sent == IF link THEN Append(toServer, at) ELSE toServer
         IN  /\ sent \in Seq(Cursors) /\ Elems(toServer) \subseteq Elems(sent)
             /\ link => at \in Elems(sent)
<1> DEFINE one == <<at>>
<1>1. toServer \in Seq(Cursors) BY SyncNow
<1>2. one \in Seq(Cursors) /\ Elems(one) = {at} BY OneElem
<1>3. Append(toServer, at) = toServer \o one BY <1>1
<1> HIDE DEF one
<1>4. toServer \o one \in Seq(Cursors) /\ Elems(toServer \o one) = Elems(toServer) \cup {at}
  BY <1>1, <1>2, ConcatElems
<1> QED BY <1>1, <1>3, <1>4

LEMMA SnapshotKeeps ==
  ASSUME SyncInv, syncSessionFromSnapshot
  PROVE  SyncInv'
<1> DEFINE at == snap.at
           sent == IF link THEN Append(toServer, at) ELSE toServer
           c == [client EXCEPT !.loaded = TRUE, !.has = snap.has, !.base = snap.at,
                               !.lastSeq = snap.at.seq, !.epoch = snap.at.epoch]
           k == [c EXCEPT !.cursor = at]
<1>1. /\ UNCHANGED <<disk, journal, tail, link, live, syncs, toClient>>
      /\ client' = k /\ toServer' = sent /\ snap' = settled(snap)
  BY DEF syncSessionFromSnapshot, subscribe, server
<1>2. client \in Clients /\ snap \in Snaps /\ link \in BOOLEAN BY SyncNow
<1>3. /\ at \in Cursors /\ snap.has \in SUBSET Nat /\ at.seq \in Nat /\ at.epoch \in Nat
      /\ settled(snap) \in Snaps
  BY <1>2, SnapTypes DEF Cursors
<1>4. c \in Clients /\ c.base = at BY <1>2, <1>3 DEF Clients
<1> HIDE DEF c
<1>5. k \in Clients /\ k.base = at BY <1>3, <1>4 DEF Clients
<1> HIDE DEF k, at
<1>6. /\ sent \in Seq(Cursors) /\ (link => at \in Elems(sent)) BY <1>3, Subscribes
<1> HIDE DEF sent
<1>7. link' => Asking(toServer', syncs, client'.base.seq)
  <2> SUFFICES ASSUME link PROVE Asking(sent, syncs, k.base.seq) BY <1>1
  <2>1. at \in Elems(sent) /\ at.seq <= k.base.seq BY <1>3, <1>5, <1>6
  <2> QED BY <2>1 DEF Asking
<1> QED BY <1>1, <1>2, <1>3, <1>5, <1>6, <1>7, AskingKeeps

LEMMA SelectKeeps ==
  ASSUME SyncInv, selectSession
  PROVE  SyncInv'
<1> DEFINE at == Cursor(client.lastSeq, client.epoch)
           sent == IF link THEN Append(toServer, at) ELSE toServer
           k == [client EXCEPT !.cursor = at]
<1>1. /\ UNCHANGED <<disk, journal, tail, link, live, syncs, toClient>>
      /\ \/ client' = k /\ toServer' = sent /\ snap' = snap
         \/ snap' = request(snap) /\ client' = client /\ toServer' = toServer
  BY DEF selectSession, subscribe, server
<1>2. client \in Clients /\ snap \in Snaps /\ link \in BOOLEAN /\ toServer \in Seq(Cursors)
  BY SyncNow
<1>3. at \in Cursors BY <1>2 DEF Clients, Cursor, Cursors
<1> HIDE DEF at
<1>4. sent \in Seq(Cursors) /\ Elems(toServer) \subseteq Elems(sent) BY <1>3, Subscribes
<1> HIDE DEF sent
<1>5. k \in Clients /\ k.base = client.base /\ k.loaded = client.loaded /\ k.has = client.has
  BY <1>2, <1>3 DEF Clients
<1> HIDE DEF k
<1>6. request(snap) \in Snaps BY <1>2, SnapTypes
<1>7. CASE client' = k /\ toServer' = sent /\ snap' = snap
  BY <1>1, <1>2, <1>4, <1>5, <1>7, AskingKeeps
<1>8. CASE snap' = request(snap) /\ client' = client /\ toServer' = toServer
  BY <1>1, <1>2, <1>6, <1>8, AskingKeeps
<1> QED BY <1>1, <1>7, <1>8

LEMMA RequestKeeps ==
  ASSUME JournalInv, SyncInv, getSnapshotState \/ fetchFails
  PROVE  SyncInv'
<1> DEFINE answered == [snap EXCEPT !.phase = "answered", !.at = Position, !.has = 1..published]
<1>1. /\ UNCHANGED <<disk, journal, tail, link, live, syncs, toServer, toClient, client>>
      /\ snap' = answered \/ snap' = settled(snap)
  BY DEF getSnapshotState, fetchFails, server, wire
<1>2. client \in Clients /\ snap \in Snaps /\ link \in BOOLEAN /\ toServer \in Seq(Cursors)
  BY SyncNow
<1>3. Position \in Cursors
  <2>1. journal.seq \in Nat /\ journal.epoch \in Nat BY JournalShape DEF JournalInv
  <2> QED BY <2>1 DEF Position, Cursor, Cursors
<1>4. 1..published \in SUBSET Nat BY DEF JournalInv
<1> DEFINE has == 1..published
           at == Position
<1> HIDE DEF has, at
<1>5. [snap EXCEPT !.phase = "answered", !.at = at, !.has = has] \in Snaps
  BY <1>2, <1>3, <1>4, SnapTypes DEF has, at
<1>6. snap' \in Snaps BY <1>1, <1>2, <1>5, SnapTypes DEF has, at
<1> QED BY <1>1, <1>2, <1>6, AskingKeeps

-----------------------------------------------------------------------------
(* What goes wrong.                                                        *)

LEMMA DisconnectedKeeps ==
  ASSUME SyncInv, Disconnected, client' = client, snap' \in Snaps,
         \/ UNCHANGED <<disk, journal, tail>>
         \/ tail' = <<>>
  PROVE  SyncInv'
<1>1. /\ link' = FALSE /\ live' = FALSE /\ syncs' = <<>> /\ toServer' = <<>>
      /\ toClient' = <<>>
  BY DEF Disconnected
<1>2. WireTypes' BY <1>1, NothingSent, SyncNow, SyncAfter
<1>3. WireIsLive' BY <1>1, NothingSent, SyncAfter
<1>4. TailIsEnd'
  <2>1. CASE UNCHANGED <<disk, journal, tail>> BY <2>1, SyncNow, SyncAfter
  <2>2. CASE tail' = <<>> BY <2>2, NothingSent, SyncAfter
  <2> QED BY <2>1, <2>2
<1>5. ResyncsFollowed' BY <1>1, NothingSent, SyncAfter
<1>6. NoEventLost' BY <1>1, SyncAfter
<1> QED BY <1>2, <1>3, <1>4, <1>5, <1>6, SyncAfter

LEMMA NextSync ==
  JournalInv /\ SyncInv /\ [Next]_vars => SyncInv'
<1> SUFFICES ASSUME JournalInv, SyncInv, [Next]_vars PROVE SyncInv' OBVIOUS
<1>1. CASE _onEvent BY <1>1, EventKeeps
<1>2. CASE _onVolatile BY <1>2, VolatileKeeps
<1>3. CASE _getOrCreateSession BY <1>3, OpeningKeeps
<1>4. CASE Written BY <1>4, WrittenKeeps
<1>5. CASE syncSessions BY <1>5, SyncSessionsKeeps
<1>6. ASSUME NEW i \in DOMAIN syncs, getBufferedSince(i) PROVE SyncInv'
  BY <1>6, BufferedKeeps
<1>7. ASSUME NEW i \in DOMAIN syncs, readJournal(i) PROVE SyncInv'
  BY <1>7, ReadKeeps
<1>8. CASE handleFrame BY <1>8, FrameKeeps
<1>9. CASE onServerHello BY <1>9, HelloKeeps
<1>10. CASE getSnapshotState \/ fetchFails BY <1>10, RequestKeeps
<1>11. CASE syncSessionFromSnapshot BY <1>11, SnapshotKeeps
<1>12. CASE selectSession BY <1>12, SelectKeeps
<1>13. CASE drop
  <2>1. Disconnected /\ client' = client /\ snap' = snap /\ UNCHANGED <<disk, journal, tail>>
    BY <1>13 DEF drop, server
  <2>2. snap' \in Snaps BY <2>1, SyncNow
  <2> QED BY <2>1, <2>2, DisconnectedKeeps
<1>14. CASE restart
  <2>1. /\ Disconnected /\ client' = client /\ tail' = <<>>
        /\ snap' = IF snap.phase = "asked" THEN settled(snap) ELSE snap
    BY <1>14 DEF restart
  <2>2. snap \in Snaps BY SyncNow
  <2>3. snap' \in Snaps BY <2>1, <2>2, SnapTypes
  <2> QED BY <2>1, <2>3, DisconnectedKeeps
<1>15. CASE UNCHANGED vars
  <2>1. UNCHANGED <<disk, journal, tail, wire, client, snap>> BY <1>15 DEF vars, server
  <2> QED BY <2>1, IdleKeeps
<1> QED
  BY <1>1, <1>2, <1>3, <1>4, <1>5, <1>6, <1>7, <1>8, <1>9, <1>10, <1>11, <1>12, <1>13,
     <1>14, <1>15
  DEF Next, ServerStep, ClientStep

-----------------------------------------------------------------------------
(* Wherever the events after the client's position are while an answer is  *)
(* on its way, none is lost between the tail, the file, the frames and     *)
(* another resync: the inductive invariant of the connection               *)
(* (wsBroadcastService.ts:81-156, connection.ts:292-350,                   *)
(* useKimiWebClient.ts:802-815).                                           *)
THEOREM SyncIsSound == Spec => []SyncInv
<1>1. Init => SyncInv BY InitSync
<1>2. JournalInv /\ SyncInv /\ [Next]_vars => SyncInv' BY NextSync
<1> QED BY <1>1, <1>2, JournalIsSound, PTL DEF Spec

(* When nothing is on its way any more, the client has every event of the  *)
(* log that comes after the position it was told or has asked from,        *)
(* whichever way the answer took and whatever dropped, crashed or was torn *)
(* before (wsBroadcastService.ts:120-156).                                 *)
THEOREM SyncsLeaveNoGap == Spec => []SyncLeavesNoGap
<1>1. JournalInv /\ SyncInv => SyncLeavesNoGap
  <2> SUFFICES ASSUME JournalInv, SyncInv, Quiet, OneEpochOnDisk,
                      NEW l \in Log, l.seq > client.base.seq
               PROVE  l.ev \in client.has
    BY DEF SyncLeavesNoGap
  <2>1. /\ link /\ client.loaded /\ toServer = <<>> /\ toClient = <<>> /\ syncs = <<>>
    BY DEF Quiet
  <2>2. l \in LogOf(disk, journal) BY LogIsLogOf DEF JournalInv
  <2>3. client.base.seq < l.seq
    <3>1. l.seq \in Nat BY <2>2, LogNumbered DEF JournalInv
    <3>2. client.base.seq \in Nat BY SyncNow DEF Clients, Cursors
    <3> QED BY <3>1, <3>2
  <2>4. ~ Asking(toServer, syncs, client.base.seq) BY <2>1, NothingSent DEF Asking
  <2>5. ~ Reset(toClient) BY <2>1, NothingSent DEF Reset
  <2>6. Reaches(LogOf(disk, journal), client.base.seq, client.has, toClient, syncs)
    BY <2>1, <2>4, <2>5, SyncNow
  <2>7. ~ Sent(l.ev, toClient, 0)
    <3>1. Len(<<>>) = 0 OBVIOUS
    <3> QED BY <2>1, <3>1 DEF Sent
  <2> QED BY <2>1, <2>2, <2>3, <2>6, <2>7, NothingSent DEF Reaches
<1> QED BY <1>1, JournalIsSound, SyncIsSound, PTL
=============================================================================
