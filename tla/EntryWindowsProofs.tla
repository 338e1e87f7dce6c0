---------------------------- MODULE EntryWindowsProofs ----------------------------
(****************************************************************************)
(* That a stable frame is an instant of the rings, for every ring size,     *)
(* every number of channels and every length of a launch, and that what an  *)
(* accepted window says of entries, and a verified case of its nodes, is    *)
(* true.                                                                    *)
(*                                                                          *)
(* A slot number is measured by its distance from the place where libcuda   *)
(* was when the frame was begun: as less than a ring of entries is added    *)
(* while a frame is read, a slot is written once at most, and the distance  *)
(* of PUT never goes back.                                                  *)
(*                                                                          *)
(* Of a window, the frame before the launch and the one that settles it are *)
(* read while libcuda does nothing, so that they are what is there.  Fewer  *)
(* entries than a ring holds are the interval of PUT; with more of them     *)
(* every slot has changed, which no interval of PUT is.                     *)
(****************************************************************************)
EXTENDS EntryWindows, FiniteSetTheorems, TLAPS

--------------------------------------------------------------------------------
(* Arithmetic modulo a ring size.                                           *)

LEMMA ModUnique ==
  ASSUME NEW n \in Nat \ {0}, NEW q \in Int, NEW d \in 0..(n - 1)
  PROVE  (n * q + d) % n = d
BY SMT

LEMMA Division ==
  ASSUME NEW n \in Nat \ {0}, NEW x \in Int
  PROVE  x \div n \in Int /\ x % n \in 0..(n - 1) /\ x = n * (x \div n) + (x % n)
BY SMT

LEMMA OffsetOfCount ==
  ASSUME NEW n \in Nat \ {0}, NEW b \in Nat, NEW p \in Nat, b <= p, p < b + n
  PROVE  ((p % n) - b) % n = p - b
<1> DEFINE q == -(p \div n)
           d == p - b
<1>1. q \in Int /\ d \in 0..(n - 1)
  BY Division
<1>2. p = n * (p \div n) + (p % n) /\ p % n \in Int /\ p \div n \in Int
  BY Division
<1>3. n * q = -(n * (p \div n))
  BY <1>2
<1>4. n * (p \div n) \in Int /\ n * q \in Int
  BY <1>2
<1>5. (p % n) - b = n * q + d
  <2> HIDE DEF q
  <2> DEFINE m == n * (p \div n)
             r == n * q
  <2>1. m \in Int /\ r = -m /\ p = m + (p % n)
    BY <1>2, <1>3, <1>4
  <2> HIDE DEF m
  <2> QED
    BY <2>1, <1>2 DEF d
<1>6. (n * q + d) % n = d
  <2> HIDE DEF q, d
  <2> QED BY <1>1, ModUnique
<1> QED BY <1>5, <1>6

LEMMA OffsetInjective ==
  ASSUME NEW n \in Nat \ {0}, NEW b \in Int, NEW x \in 0..(n - 1), NEW y \in 0..(n - 1),
         (x - b) % n = (y - b) % n
  PROVE  x = y
<1> DEFINE u == (x - b) \div n
           v == (y - b) \div n
           r == (x - b) % n
<1>1. u \in Int /\ v \in Int /\ r \in Int /\ x - b = n * u + r /\ y - b = n * v + r
  BY Division
<1>2. x - y = n * (u - v)
  <2> HIDE DEF u, v, r
  <2>1. n * u \in Int /\ n * v \in Int /\ n * (u - v) = n * u - n * v
    BY <1>1
  <2> QED BY <1>1, <2>1
<1>3. u - v = 0
  <2> HIDE DEF u, v, r
  <2>1. CASE u - v >= 1
    <3>1. n * (u - v) >= n
      BY <2>1, <1>1
    <3> QED BY <3>1, <1>2
  <2>2. CASE u - v <= -1
    <3>1. n * (u - v) <= -n
      BY <2>2, <1>1
    <3> QED BY <3>1, <1>2
  <2> QED BY <1>1, <2>1, <2>2
<1> QED
  <2> HIDE DEF u, v, r
  <2> QED BY <1>2, <1>3, <1>1

LEMMA ModOfSum ==
  ASSUME NEW n \in Nat \ {0}, NEW x \in Int, NEW j \in Int
  PROVE  ((x % n) + j) % n = (x + j) % n
<1> DEFINE q == x \div n
           r == x % n
           e == (r + j) \div n
           d == (r + j) % n
<1>1. q \in Int /\ r \in Int /\ x = n * q + r
  BY Division
<1>2. e \in Int /\ d \in 0..(n - 1) /\ r + j = n * e + d
  <2>1. r + j \in Int
    BY <1>1
  <2> HIDE DEF r
  <2> QED BY <2>1, Division
<1>3. x + j = n * (q + e) + d
  <2> HIDE DEF q, r, e, d
  <2>1. n * q \in Int /\ n * e \in Int /\ n * (q + e) = n * q + n * e
    BY <1>1, <1>2
  <2> QED BY <1>1, <1>2, <2>1
<1>4. (n * (q + e) + d) % n = d
  <2> HIDE DEF q, r, e, d
  <2>1. q + e \in Int
    BY <1>1, <1>2
  <2> QED BY <1>2, <2>1, ModUnique
<1> QED BY <1>3, <1>4

LEMMA ModOfDifference ==
  ASSUME NEW n \in Nat \ {0}, NEW x \in Int, NEW y \in Int
  PROVE  ((x % n) - (y % n)) % n = (x - y) % n
<1> DEFINE q == y \div n
           r == y % n
           d == (x - y) % n
           e == (x - y) \div n
<1>1. q \in Int /\ r \in Int /\ y = n * q + r
  BY Division
<1>2. x - y \in Int /\ e \in Int /\ d \in 0..(n - 1) /\ x - y = n * e + d
  <2>1. x - y \in Int
    OBVIOUS
  <2> QED BY <2>1, Division
<1>3. ((x % n) - r) % n = (x - r) % n
  <2>1. -r \in Int /\ x % n \in Int
    BY <1>1, Division
  <2>2. ((x % n) + (-r)) % n = (x + (-r)) % n
    BY <2>1, ModOfSum
  <2> HIDE DEF r
  <2>3. (x % n) + (-r) = (x % n) - r /\ x + (-r) = x - r
    BY <2>1, <1>1
  <2> QED BY <2>2, <2>3
<1>4. x - r = n * (q + e) + d
  <2> HIDE DEF q, r, e, d
  <2>1. n * q \in Int /\ n * e \in Int /\ n * (q + e) = n * q + n * e
    BY <1>1, <1>2
  <2> QED BY <1>1, <1>2, <2>1
<1>5. (n * (q + e) + d) % n = d
  <2> HIDE DEF q, r, e, d
  <2>1. q + e \in Int
    BY <1>1, <1>2
  <2> QED BY <1>2, <2>1, ModUnique
<1> QED BY <1>3, <1>4, <1>5

LEMMA SmallMod ==
  ASSUME NEW n \in Nat \ {0}, NEW d \in 0..(n - 1)
  PROVE  d % n = d
<1>1. (n * 0 + d) % n = d
  BY ModUnique
<1> QED BY <1>1

\* Steps of less than a ring from one place lead to different slots.
LEMMA StepInjective ==
  ASSUME NEW n \in Nat \ {0}, NEW p \in Int, NEW x \in 0..(n - 1), NEW y \in 0..(n - 1),
         (p + x) % n = (p + y) % n
  PROVE  x = y
<1>1. -p \in Int /\ x - (-p) = p + x /\ y - (-p) = p + y
  OBVIOUS
<1> QED BY <1>1, OffsetInjective

\* The numbers of a ring's worth of entries end in each slot.
LEMMA EverySlot ==
  ASSUME NEW n \in Nat \ {0}, NEW b \in Int, NEW s \in 0..(n - 1)
  PROVE  \E j \in 0..(n - 1) : (b + j) % n = s
<1> DEFINE j == (s - b) % n
<1>1. s - b \in Int /\ j \in 0..(n - 1)
  BY Division
<1>2. (((s - b) % n) + b) % n = ((s - b) + b) % n
  BY <1>1, ModOfSum
<1>3. (s - b) + b = s /\ ((s - b) % n) + b = b + j
  BY <1>1
<1> QED BY <1>1, <1>2, <1>3, SmallMod

--------------------------------------------------------------------------------
(* The invariant of a reading.                                              *)

\* How far around the ring x is from b.
Off(x, b) == (x - b) % entries

\* How far the reading of a ring, of a slot and of a PUT has got.
PastMid(c) ==
  \/ place \in {"after", "done"}
  \/ place \in {"first", "second"} /\ c < chan
  \/ place = "second" /\ c = chan

FirstRead(c, s) == PastMid(c) \/ (place = "first" /\ c = chan /\ s < at)

SecondRead(c, s) ==
  \/ place \in {"after", "done"}
  \/ place \in {"first", "second"} /\ c < chan
  \/ place = "second" /\ c = chan /\ s < at

BeforeRead(d) == place # "before" \/ d < chan
AfterRead(d) == place = "done" \/ (place = "after" /\ d < chan)

\* Less than a ring of entries has been added since the frame was begun.
Bounded ==
  Reading => \A c \in Channels :
    /\ begun.written[c] <= written[c] /\ written[c] < begun.written[c] + entries
    /\ begun.published[c] <= published[c] /\ published[c] < begun.published[c] + entries

\* The slot has been written since the frame was begun.
Dirty(c, s) == Off(s, begun.written[c]) < written[c] - begun.written[c]

SlotInv(c, s) ==
  /\ FirstRead(c, s) /\ ~PastMid(c) => frame.first[c][s] = ring[c][s] \/ Dirty(c, s)
  /\ PastMid(c) /\ ~SecondRead(c, s) =>
       \/ mid[c].ring[s] = frame.first[c][s]
       \/ mid[c].ring[s] = ring[c][s] /\ Dirty(c, s)
  /\ SecondRead(c, s) =>
       mid[c].ring[s] = frame.first[c][s] \/ mid[c].ring[s] = frame.second[c][s]

SlotsInv == \A c \in rings, s \in Slots : SlotInv(c, s)

PutBefore(d) == Off(frame.before[d], begun.published[d])
PutMid(c, d) == Off(mid[c].puts[d], begun.published[d])
PutAfter(d) == Off(frame.after[d], begun.published[d])
Reached(d) == published[d] - begun.published[d]

\* The PUTs of a frame are in the order in which they were read.
PutInv(d) ==
  /\ Reading /\ BeforeRead(d) => PutBefore(d) <= Reached(d)
  /\ \A c \in rings : PastMid(c) =>
       PutBefore(d) <= PutMid(c, d) /\ (Reading => PutMid(c, d) <= Reached(d))
  /\ AfterRead(d) => \A c \in rings : PutMid(c, d) <= PutAfter(d)

PutsInv == \A d \in Channels : PutInv(d)

\* Only inside a ring that is read is the next word not the first of something.
Placed == at # 0 => place \in {"first", "second"} /\ chan \in rings

ReadingInv == FramesTypeOK /\ Placed /\ Bounded /\ SlotsInv /\ PutsInv

FramesInv == ReadingInv /\ (Reading => pc \in Labels)

--------------------------------------------------------------------------------
(* The types are those of the data read.                                    *)

LEMMA SizeTypes ==
  ASSUME FramesTypeOK
  PROVE  /\ entries \in Nat \ {0} /\ 0 \in Slots /\ 0 \in Channels
         /\ Slots \subseteq Nat /\ Channels \subseteq Nat
         /\ \A x \in Int : x % entries \in Slots
<1>1. entries \in Nat \ {0}
  BY SizesAssumption DEF FramesTypeOK
<1>2. \A x \in Int : x % entries \in Slots
  BY <1>1, Division DEF Slots
<1> QED BY <1>1, <1>2, CountAssumption DEF Slots, Channels

LEMMA PutTypes ==
  ASSUME FramesTypeOK
  PROVE  Puts \in [Channels -> Slots]
BY SizeTypes DEF FramesTypeOK, Puts

\* What is measured is a natural number.
LEMMA OffTypes ==
  ASSUME FramesTypeOK, NEW x \in Slots, NEW b \in Nat
  PROVE  Off(x, b) \in Slots
<1>1. x - b \in Int
  BY SizeTypes
<1> QED BY <1>1, SizeTypes DEF Off

\* A count and its place in the ring.
LEMMA OffOfCount ==
  ASSUME FramesTypeOK, NEW b \in Nat, NEW p \in Nat, b <= p, p < b + entries
  PROVE  Off(p % entries, b) = p - b
BY SizeTypes, OffsetOfCount DEF Off

LEMMA OffUnique ==
  ASSUME FramesTypeOK, NEW x \in Slots, NEW y \in Slots, NEW b \in Nat, Off(x, b) = Off(y, b)
  PROVE  x = y
<1>1. entries \in Nat \ {0} /\ b \in Int
  BY SizeTypes
<1> QED BY <1>1, OffsetInjective DEF Off, Slots

--------------------------------------------------------------------------------
(* libcuda's steps.                                                         *)

LEMMA WriteEntryKeeps ==
  ASSUME ReadingInv, NEW c \in Channels, WriteEntry(c)
  PROVE  ReadingInv'
<1> USE DEF ReadingInv
<1>1. UNCHANGED <<entries, reuse, published, rings, place, chan, at, frame, begun, mid>>
  BY DEF WriteEntry, sampler
<1>2. PICK value \in Nat : ring' = [ring EXCEPT ![c][written[c] % entries] = value]
  <2>1. PICK value \in (IF reuse THEN {0, 1} ELSE {written[c] + 1}) :
          ring' = [ring EXCEPT ![c][written[c] % entries] = value]
    BY DEF WriteEntry
  <2>2. value \in Nat
    BY DEF FramesTypeOK
  <2> QED BY <2>1, <2>2
<1>3. written' = [written EXCEPT ![c] = @ + 1] /\ (Reading => written[c] + 1 < begun.written[c] + entries)
  BY DEF WriteEntry
<1>4. FramesTypeOK'
  <2>1. written' \in [Channels -> Nat]
    BY <1>3 DEF FramesTypeOK
  <2>2. ring' \in [Channels -> [Slots -> Nat]]
    <3>1. written[c] % entries \in Slots
      BY SizeTypes DEF FramesTypeOK
    <3> QED BY <1>2, <3>1 DEF FramesTypeOK
  <2> QED BY <1>1, <2>1, <2>2 DEF FramesTypeOK, Slots
<1>5. Bounded'
  <2> SUFFICES ASSUME Reading, NEW d \in Channels
               PROVE  /\ begun.written[d] <= written'[d] /\ written'[d] < begun.written[d] + entries
                      /\ begun.published[d] <= published'[d]
                      /\ published'[d] < begun.published[d] + entries
    BY <1>1 DEF Bounded, Reading
  <2>1. /\ entries \in Nat /\ written[d] \in Nat /\ published[d] \in Nat
        /\ begun.written[d] \in Nat /\ begun.published[d] \in Nat
        /\ written \in [Channels -> Nat] /\ published \in [Channels -> Nat]
    BY SizeTypes DEF FramesTypeOK
  <2>2. /\ begun.written[d] <= written[d] /\ written[d] < begun.written[d] + entries
        /\ begun.published[d] <= published[d] /\ published[d] < begun.published[d] + entries
    BY DEF Bounded
  <2>3. CASE d = c
    BY <2>1, <2>2, <2>3, <1>1, <1>3
  <2>4. CASE d # c
    BY <2>1, <2>2, <2>4, <1>1, <1>3
  <2> QED BY <2>3, <2>4
<1>6. PutsInv'
  BY <1>1 DEF PutsInv, PutInv, Reading, BeforeRead, AfterRead, PastMid, PutBefore, PutMid, PutAfter, Reached, Off
<1>7. SlotsInv'
  <2> SUFFICES ASSUME NEW e \in rings, NEW s \in Slots
               PROVE  SlotInv(e, s)'
    BY <1>1 DEF SlotsInv, Slots
  <2>1. SlotInv(e, s) /\ e \in Channels
    BY DEF SlotsInv, FramesTypeOK
  <2>2. /\ PastMid(e)' = PastMid(e) /\ FirstRead(e, s)' = FirstRead(e, s)
        /\ SecondRead(e, s)' = SecondRead(e, s)
    BY <1>1 DEF PastMid, FirstRead, SecondRead
  <2>3. Dirty(e, s) => Dirty(e, s)'
    <3>1. Off(s, begun.written[e])' = Off(s, begun.written[e])
      BY <1>1 DEF Off
    <3>2. Off(s, begun.written[e]) \in Nat
      BY <2>1, OffTypes, SizeTypes DEF FramesTypeOK
    <3>3. written'[e] >= written[e] /\ written'[e] \in Nat /\ written[e] \in Nat /\ begun.written[e] \in Nat
      BY <1>3, <2>1 DEF FramesTypeOK
    <3> QED BY <3>1, <3>2, <3>3, <1>1 DEF Dirty
  <2>4. CASE e = c /\ s = written[c] % entries /\ Reading
    <3>1. Off(s, begun.written[c]) = written[c] - begun.written[c]
      BY <2>4, OffOfCount DEF FramesTypeOK, Bounded
    <3>2. ~Dirty(e, s) /\ Dirty(e, s)'
      <4>1. written'[c] = written[c] + 1 /\ written[c] \in Nat /\ begun.written[c] \in Nat
        BY <1>3 DEF FramesTypeOK
      <4>2. Off(s, begun.written[c])' = Off(s, begun.written[c])
        BY <1>1 DEF Off
      <4> QED BY <3>1, <4>1, <4>2, <2>4, <1>1 DEF Dirty
    <3> QED BY <2>1, <2>2, <3>2, <1>1 DEF SlotInv
  <2>5. CASE ~Reading
    <3>1. SecondRead(e, s) /\ PastMid(e)
      BY <2>5 DEF SecondRead, PastMid, Reading
    <3> QED BY <2>1, <2>2, <3>1, <1>1 DEF SlotInv
  <2>6. CASE ~(e = c /\ s = written[c] % entries)
    <3>1. ring'[e][s] = ring[e][s]
      BY <2>6, <2>1, <1>2, SizeTypes DEF FramesTypeOK
    <3> QED BY <2>1, <2>2, <2>3, <3>1, <1>1 DEF SlotInv
  <2> QED BY <2>4, <2>5, <2>6
<1>8. Placed'
  BY <1>1 DEF Placed
<1> QED BY <1>4, <1>5, <1>6, <1>7, <1>8

LEMMA PublishPutKeeps ==
  ASSUME ReadingInv, NEW c \in Channels, PublishPut(c)
  PROVE  ReadingInv'
<1> USE DEF ReadingInv
<1>1. UNCHANGED <<entries, reuse, ring, written, rings, place, chan, at, frame, begun, mid>>
  BY DEF PublishPut, sampler
<1>2. /\ published[c] < written[c] /\ published' = [published EXCEPT ![c] = written[c]]
      /\ Reading => written[c] < begun.published[c] + entries
  BY DEF PublishPut
<1>3. FramesTypeOK'
  BY <1>1, <1>2 DEF FramesTypeOK, Slots
<1>4. Bounded'
  <2> SUFFICES ASSUME Reading, NEW d \in Channels
               PROVE  /\ begun.written[d] <= written'[d] /\ written'[d] < begun.written[d] + entries
                      /\ begun.published[d] <= published'[d]
                      /\ published'[d] < begun.published[d] + entries
    BY <1>1 DEF Bounded, Reading
  <2>1. /\ entries \in Nat /\ written[d] \in Nat /\ published[d] \in Nat
        /\ begun.written[d] \in Nat /\ begun.published[d] \in Nat
        /\ written \in [Channels -> Nat] /\ published \in [Channels -> Nat]
    BY SizeTypes DEF FramesTypeOK
  <2>2. /\ begun.written[d] <= written[d] /\ written[d] < begun.written[d] + entries
        /\ begun.published[d] <= published[d] /\ published[d] < begun.published[d] + entries
    BY DEF Bounded
  <2>3. CASE d = c
    BY <2>1, <2>2, <2>3, <1>1, <1>2
  <2>4. CASE d # c
    BY <2>1, <2>2, <2>4, <1>1, <1>2
  <2> QED BY <2>3, <2>4
<1>5. SlotsInv'
  BY <1>1 DEF SlotsInv, SlotInv, Slots, FirstRead, SecondRead, PastMid, Dirty, Off
<1>6. PutsInv'
  <2> SUFFICES ASSUME NEW d \in Channels
               PROVE  PutInv(d)'
    BY <1>1 DEF PutsInv
  <2>1. PutInv(d)
    BY DEF PutsInv
  <2>2. Reached(d)' >= Reached(d) /\ Reached(d)' \in Int /\ Reached(d) \in Int
    BY <1>1, <1>2 DEF Reached, FramesTypeOK
  <2>3. PutBefore(d)' = PutBefore(d) /\ PutAfter(d)' = PutAfter(d) /\ PutBefore(d) \in Nat
    BY <1>1, OffTypes, SizeTypes DEF PutBefore, PutAfter, Off, FramesTypeOK
  <2>4. ASSUME NEW e \in rings
        PROVE  PutMid(e, d)' = PutMid(e, d) /\ PutMid(e, d) \in Nat
    <3>1. mid[e].puts[d] \in Slots /\ begun.published[d] \in Nat
      BY DEF FramesTypeOK
    <3>2. PutMid(e, d) \in Slots
      BY <3>1, OffTypes DEF PutMid
    <3> QED BY <1>1, <3>2, SizeTypes DEF PutMid, Off
  <2>5. /\ BeforeRead(d)' = BeforeRead(d) /\ AfterRead(d)' = AfterRead(d) /\ Reading' = Reading
        /\ \A e \in rings : PastMid(e)' = PastMid(e)
    BY <1>1 DEF BeforeRead, AfterRead, Reading, PastMid
  <2> QED BY <2>1, <2>2, <2>3, <2>4, <2>5, <1>1 DEF PutInv
<1>7. Placed'
  BY <1>1 DEF Placed
<1> QED BY <1>3, <1>4, <1>5, <1>6, <1>7

--------------------------------------------------------------------------------
(* The observer's steps.                                                    *)

LEMMA BeginFrameKeeps ==
  ASSUME ReadingInv, BeginFrame
  PROVE  ReadingInv'
<1> USE DEF ReadingInv
<1>1. /\ UNCHANGED <<entries, reuse, ring, written, published, rings>>
      /\ place' = "before" /\ chan' = 0 /\ at' = 0
      /\ frame' = NoFrame(entries) /\ mid' = NoMid(entries)
      /\ begun' = [written |-> written, published |-> published]
  BY DEF BeginFrame, memory
<1>2. FramesTypeOK'
  <2>1. frame' \in [before : [Channels -> Slots], after : [Channels -> Slots],
                    first : [Channels -> [Slots -> Nat]], second : [Channels -> [Slots -> Nat]]]
    BY <1>1, SizeTypes DEF NoFrame, Slots
  <2>2. mid' \in [Channels -> [ring : [Slots -> Nat], puts : [Channels -> Slots]]]
    BY <1>1, SizeTypes DEF NoMid, Slots
  <2>3. begun' \in [written : [Channels -> Nat], published : [Channels -> Nat]]
    BY <1>1 DEF FramesTypeOK
  <2> QED BY <1>1, <2>1, <2>2, <2>3, SizeTypes DEF FramesTypeOK, Slots
<1>3. Bounded'
  <2> SUFFICES ASSUME NEW c \in Channels
               PROVE  /\ begun'.written[c] <= written[c] /\ written[c] < begun'.written[c] + entries
                      /\ begun'.published[c] <= published[c] /\ published[c] < begun'.published[c] + entries
    BY <1>1 DEF Bounded
  <2>1. begun'.written[c] = written[c] /\ begun'.published[c] = published[c]
    BY <1>1
  <2>2. written[c] \in Nat /\ published[c] \in Nat /\ entries \in Nat \ {0}
    BY SizeTypes DEF FramesTypeOK
  <2> QED BY <2>1, <2>2
<1>4. \A c \in Channels : ~PastMid(c)'
  BY <1>1 DEF PastMid
<1>5. SlotsInv'
  BY <1>1, <1>4 DEF SlotsInv, SlotInv, FirstRead, SecondRead, FramesTypeOK
<1>6. PutsInv'
  <2>1. \A d \in Channels : ~BeforeRead(d)' /\ ~AfterRead(d)'
    BY <1>1, SizeTypes DEF BeforeRead, AfterRead
  <2> QED BY <1>1, <1>4, <2>1 DEF PutsInv, PutInv, FramesTypeOK
<1>7. Placed'
  BY <1>1 DEF Placed
<1> QED BY <1>2, <1>3, <1>5, <1>6, <1>7

\* PUT is now where so many entries are public.
LEMMA PutIsReached ==
  ASSUME ReadingInv, Reading, NEW d \in Channels
  PROVE  Puts[d] \in Slots /\ Off(Puts[d], begun.published[d]) = Reached(d)
<1>1. Puts[d] = published[d] % entries /\ Puts[d] \in Slots
  BY PutTypes DEF ReadingInv, Puts
<1>2. /\ begun.published[d] \in Nat /\ published[d] \in Nat
      /\ begun.published[d] <= published[d] /\ published[d] < begun.published[d] + entries
  BY DEF ReadingInv, Bounded, FramesTypeOK
<1> QED BY <1>1, <1>2, OffOfCount DEF ReadingInv, Reached

LEMMA ReadPutKeeps ==
  ASSUME ReadingInv, ReadPut
  PROVE  ReadingInv'
<1> USE DEF ReadingInv
<1>1. /\ UNCHANGED <<entries, reuse, ring, written, published, rings, at, begun, mid>>
      /\ place \in {"before", "after"}
      /\ frame' = [frame EXCEPT ![place][chan] = Puts[chan]]
  BY DEF ReadPut, memory
<1>2. \/ chan + 1 < Count /\ chan' = chan + 1 /\ place' = place
      \/ /\ ~(chan + 1 < Count) /\ chan' = 0
         /\ place' = IF place = "before" THEN "first" ELSE "done"
  BY DEF ReadPut
<1>3. Reading /\ chan \in Channels /\ chan \in Nat /\ Puts[chan] \in Slots
  BY <1>1, PutTypes, SizeTypes DEF Reading, FramesTypeOK
<1>4. /\ frame'.first = frame.first /\ frame'.second = frame.second
      /\ place = "before" => /\ frame'.before = [frame.before EXCEPT ![chan] = Puts[chan]]
                             /\ frame'.after = frame.after
      /\ place = "after" => /\ frame'.after = [frame.after EXCEPT ![chan] = Puts[chan]]
                            /\ frame'.before = frame.before
      /\ frame' \in [before : [Channels -> Slots], after : [Channels -> Slots],
                     first : [Channels -> [Slots -> Nat]], second : [Channels -> [Slots -> Nat]]]
  <2>1. frame \in [before : [Channels -> Slots], after : [Channels -> Slots],
                   first : [Channels -> [Slots -> Nat]], second : [Channels -> [Slots -> Nat]]]
    BY DEF FramesTypeOK
  <2>2. CASE place = "before"
    BY <1>1, <1>3, <2>1, <2>2
  <2>3. CASE place = "after"
    BY <1>1, <1>3, <2>1, <2>3
  <2> QED BY <1>1, <2>2, <2>3
<1>5. FramesTypeOK'
  <2>1. chan' \in Channels
    BY <1>2, <1>3, CountAssumption DEF Channels
  <2>2. place' \in {"before", "first", "second", "after", "done"}
    BY <1>1, <1>2
  <2> QED BY <1>1, <1>4, <2>1, <2>2 DEF FramesTypeOK, Slots
<1>6. Bounded'
  BY <1>1, <1>3 DEF Bounded
<1>7. SlotsInv'
  <2> SUFFICES ASSUME NEW c \in rings, NEW s \in Slots
               PROVE  SlotInv(c, s)'
    BY <1>1 DEF SlotsInv, Slots
  <2>1. SlotInv(c, s) /\ c \in Channels /\ c \in Nat /\ s \in Nat
    BY SizeTypes DEF SlotsInv, FramesTypeOK
  <2>2. CASE place = "before"
    <3>1. ~FirstRead(c, s)' /\ ~PastMid(c)' /\ ~SecondRead(c, s)'
      <4>1. at' = 0
        BY <2>2, <1>1 DEF Placed
      <4> QED BY <4>1, <2>2, <1>1, <1>2, <2>1 DEF FirstRead, PastMid, SecondRead
    <3> QED BY <3>1 DEF SlotInv
  <2>3. CASE place = "after"
    <3>1. SecondRead(c, s) /\ PastMid(c) /\ SecondRead(c, s)' /\ PastMid(c)'
      BY <2>3, <1>1, <1>2 DEF SecondRead, PastMid
    <3> QED BY <2>1, <3>1, <1>1, <1>4 DEF SlotInv
  <2> QED BY <1>1, <2>2, <2>3
<1>8. PutsInv'
  <2> SUFFICES ASSUME NEW d \in Channels
               PROVE  PutInv(d)'
    BY <1>1 DEF PutsInv
  <2>1. PutInv(d) /\ d \in Nat /\ Off(Puts[d], begun.published[d]) = Reached(d)
    BY <1>3, PutIsReached, SizeTypes DEF PutsInv
  <2>2. Reached(d)' = Reached(d) /\ Reached(d) \in Int
    BY <1>1 DEF Reached, FramesTypeOK
  <2>3. \A c \in rings : PutMid(c, d)' = PutMid(c, d)
    BY <1>1 DEF PutMid, Off
  <2>4. CASE place = "before"
    <3>1. ASSUME NEW c \in rings
          PROVE  ~PastMid(c)'
      <4>1. c \in Nat
        BY SizeTypes DEF FramesTypeOK
      <4> QED BY <4>1, <2>4, <1>1, <1>2 DEF PastMid
    <3>2. ~AfterRead(d)'
      BY <2>4, <1>2 DEF AfterRead
    <3>3. CASE d = chan
      <4>1. PutBefore(d)' = Reached(d)
        BY <3>3, <2>4, <2>1, <1>1, <1>3, <1>4 DEF PutBefore, Off, FramesTypeOK
      <4> QED BY <4>1, <3>1, <3>2, <2>2, <1>1 DEF PutInv
    <3>4. CASE d # chan
      <4>1. PutBefore(d)' = PutBefore(d)
        BY <3>4, <2>4, <1>1, <1>3, <1>4 DEF PutBefore, Off, FramesTypeOK
      <4>2. BeforeRead(d)' => BeforeRead(d)
        BY <3>4, <2>4, <2>1, <1>2, <1>3, CountAssumption DEF BeforeRead, Channels
      <4> QED BY <4>1, <4>2, <3>1, <3>2, <2>1, <2>2, <1>1, <1>3 DEF PutInv
    <3> QED BY <3>3, <3>4
  <2>5. CASE place = "after"
    <3>1. PutBefore(d)' = PutBefore(d) /\ BeforeRead(d)
      BY <2>5, <1>1, <1>4 DEF PutBefore, Off, BeforeRead
    <3>2. \A c \in rings : PastMid(c) /\ PutMid(c, d) <= Reached(d) /\ PutBefore(d) <= PutMid(c, d)
      BY <2>5, <2>1, <1>3 DEF PastMid, PutInv
    <3>3. CASE d = chan
      <4>1. PutAfter(d)' = Reached(d)
        BY <3>3, <2>5, <2>1, <1>1, <1>3, <1>4 DEF PutAfter, Off, FramesTypeOK
      <4> QED BY <4>1, <3>1, <3>2, <2>1, <2>2, <2>3, <1>1, <1>3 DEF PutInv
    <3>4. CASE d # chan
      <4>1. PutAfter(d)' = PutAfter(d)
        BY <3>4, <2>5, <1>1, <1>3, <1>4 DEF PutAfter, Off, FramesTypeOK
      <4>2. AfterRead(d)' => AfterRead(d)
        BY <3>4, <2>5, <2>1, <1>2, <1>3, CountAssumption DEF AfterRead, Channels
      <4> QED BY <4>1, <4>2, <3>1, <3>2, <2>1, <2>2, <2>3, <1>1, <1>3 DEF PutInv
    <3> QED BY <3>3, <3>4
  <2> QED BY <1>1, <2>4, <2>5
<1>9. Placed'
  BY <1>1, <1>2 DEF Placed
<1> QED BY <1>5, <1>6, <1>7, <1>8, <1>9

LEMMA SkipRingKeeps ==
  ASSUME ReadingInv, SkipRing
  PROVE  ReadingInv'
<1> USE DEF ReadingInv
<1>1. /\ UNCHANGED <<entries, reuse, ring, written, published, rings, at, frame, begun, mid>>
      /\ place = "first" /\ chan \notin rings
  BY DEF SkipRing, memory
<1>2. \/ chan + 1 < Count /\ chan' = chan + 1 /\ place' = "first"
      \/ ~(chan + 1 < Count) /\ chan' = 0 /\ place' = "after"
  BY <1>1 DEF SkipRing
<1>3. chan \in Channels /\ chan \in Nat /\ at = 0
  BY <1>1, SizeTypes DEF Placed, FramesTypeOK
<1>4. FramesTypeOK'
  <2>1. chan' \in Channels
    BY <1>2, <1>3, CountAssumption DEF Channels
  <2> QED BY <1>1, <1>2, <2>1 DEF FramesTypeOK, Slots
<1>5. Placed' /\ Bounded'
  BY <1>1, <1>3 DEF Placed, Bounded, Reading
<1>6. ASSUME NEW c \in rings
      PROVE  PastMid(c)' = PastMid(c)
  <2>1. c \in Channels /\ c \in Nat /\ c # chan
    BY <1>1, SizeTypes DEF FramesTypeOK
  <2>2. ~(chan + 1 < Count) => c < chan
    BY <2>1, <1>3, CountAssumption DEF Channels
  <2> QED BY <2>1, <2>2, <1>1, <1>2, <1>3 DEF PastMid
<1>7. SlotsInv'
  <2> SUFFICES ASSUME NEW c \in rings, NEW s \in Slots
               PROVE  SlotInv(c, s)'
    BY <1>1 DEF SlotsInv, Slots
  <2>1. SlotInv(c, s) /\ s \in Nat /\ c # chan /\ ~(s < at)
    BY <1>1, <1>3, SizeTypes DEF SlotsInv
  <2>2. FirstRead(c, s)' = PastMid(c) /\ SecondRead(c, s)' = PastMid(c)
    BY <2>1, <1>1, <1>2, <1>6 DEF FirstRead, SecondRead, PastMid
  <2>3. SecondRead(c, s) = PastMid(c)
    BY <2>1, <1>1 DEF SecondRead, PastMid
  <2> QED BY <2>1, <2>2, <2>3, <1>1, <1>6 DEF SlotInv
<1>8. PutsInv'
  <2> SUFFICES ASSUME NEW d \in Channels
               PROVE  PutInv(d)'
    BY <1>1 DEF PutsInv
  <2>1. PutInv(d) /\ d \in Nat
    BY SizeTypes DEF PutsInv
  <2>2. ~AfterRead(d)' /\ BeforeRead(d) /\ Reading
    BY <2>1, <1>1, <1>2 DEF AfterRead, BeforeRead, Reading
  <2> QED
    BY <2>1, <2>2, <1>1, <1>6 DEF PutInv, PutBefore, PutMid, PutAfter, Reached, Off
<1> QED BY <1>4, <1>5, <1>7, <1>8

LEMMA ReadSlotKeeps ==
  ASSUME ReadingInv, ReadSlot
  PROVE  ReadingInv'
<1> USE DEF ReadingInv
<1>1. /\ UNCHANGED <<entries, reuse, ring, written, published, rings, begun>>
      /\ place \in {"first", "second"} /\ chan \in rings
      /\ frame' = [frame EXCEPT ![place][chan][at] = ring[chan][at]]
  BY DEF ReadSlot, memory
<1>2. \/ at + 1 < entries /\ at' = at + 1 /\ UNCHANGED <<place, chan, mid>>
      \/ /\ ~(at + 1 < entries) /\ at' = 0 /\ place = "first" /\ place' = "second" /\ chan' = chan
         /\ mid' = [mid EXCEPT ![chan] = [ring |-> ring[chan], puts |-> Puts]]
      \/ /\ ~(at + 1 < entries) /\ at' = 0 /\ place = "second" /\ mid' = mid
         /\ \/ chan + 1 < Count /\ chan' = chan + 1 /\ place' = "first"
            \/ ~(chan + 1 < Count) /\ chan' = 0 /\ place' = "after"
  BY <1>1 DEF ReadSlot
<1>3. /\ chan \in Channels /\ chan \in Nat /\ at \in Slots /\ at \in Nat /\ Reading
      /\ entries \in Nat /\ \A s \in Slots : s <= entries - 1
  <2>1. chan \in Channels /\ at \in Slots /\ Reading
    BY <1>1 DEF FramesTypeOK, Reading
  <2>2. entries \in Nat /\ \A s \in Slots : s \in Nat /\ s <= entries - 1
    BY SizeTypes DEF Slots
  <2> QED BY <2>1, <2>2, SizeTypes
<1>4. /\ frame'.before = frame.before /\ frame'.after = frame.after
      /\ place = "first" => /\ frame'.first = [frame.first EXCEPT ![chan][at] = ring[chan][at]]
                            /\ frame'.second = frame.second
      /\ place = "second" => /\ frame'.second = [frame.second EXCEPT ![chan][at] = ring[chan][at]]
                             /\ frame'.first = frame.first
      /\ frame' \in [before : [Channels -> Slots], after : [Channels -> Slots],
                     first : [Channels -> [Slots -> Nat]], second : [Channels -> [Slots -> Nat]]]
  <2>1. /\ frame \in [before : [Channels -> Slots], after : [Channels -> Slots],
                      first : [Channels -> [Slots -> Nat]], second : [Channels -> [Slots -> Nat]]]
        /\ ring[chan][at] \in Nat
    BY <1>3 DEF FramesTypeOK
  <2>2. CASE place = "first"
    BY <1>1, <1>3, <2>1, <2>2
  <2>3. CASE place = "second"
    BY <1>1, <1>3, <2>1, <2>3
  <2> QED BY <1>1, <2>2, <2>3
<1>5. \A c \in Channels, s \in Slots :
        /\ frame'.first[c][s] = IF place = "first" /\ c = chan /\ s = at THEN ring[c][s] ELSE frame.first[c][s]
        /\ frame'.second[c][s] = IF place = "second" /\ c = chan /\ s = at THEN ring[c][s] ELSE frame.second[c][s]
  <2>1. frame.first \in [Channels -> [Slots -> Nat]] /\ frame.second \in [Channels -> [Slots -> Nat]]
    BY DEF FramesTypeOK
  <2>2. CASE place = "first"
    BY <1>3, <1>4, <2>1, <2>2
  <2>3. CASE place = "second"
    BY <1>3, <1>4, <2>1, <2>3
  <2> QED BY <1>1, <2>2, <2>3
<1>6. FramesTypeOK'
  <2>1. chan' \in Channels /\ at' \in Slots
    BY <1>2, <1>3, CountAssumption DEF Channels, Slots
  <2>2. mid' \in [Channels -> [ring : [Slots -> Nat], puts : [Channels -> Slots]]]
    BY <1>2, <1>3, PutTypes DEF FramesTypeOK
  <2>3. place' \in {"before", "first", "second", "after", "done"}
    BY <1>1, <1>2
  <2> QED BY <1>1, <1>4, <2>1, <2>2, <2>3 DEF FramesTypeOK, Slots
<1>7. Placed' /\ Bounded'
  BY <1>1, <1>2, <1>3 DEF Placed, Bounded
<1>8. SlotsInv'
  <2> SUFFICES ASSUME NEW c \in rings, NEW s \in Slots
               PROVE  SlotInv(c, s)'
    BY <1>1 DEF SlotsInv, Slots
  <2>1. SlotInv(c, s) /\ c \in Channels /\ c \in Nat /\ s \in Nat /\ s <= entries - 1
    BY <1>3, SizeTypes DEF SlotsInv, FramesTypeOK
  <2>2. Dirty(c, s)' = Dirty(c, s)
    BY <1>1 DEF Dirty, Off
  <2>3. /\ frame'.first[c][s] = IF place = "first" /\ c = chan /\ s = at THEN ring[c][s] ELSE frame.first[c][s]
        /\ frame'.second[c][s] = IF place = "second" /\ c = chan /\ s = at THEN ring[c][s] ELSE frame.second[c][s]
    BY <1>5, <2>1
  <2>4. CASE c = chan /\ place = "first"
    <3>1. /\ ~PastMid(c) /\ (FirstRead(c, s) <=> s < at) /\ ~SecondRead(c, s)
      BY <2>4, <2>1 DEF PastMid, FirstRead, SecondRead
    <3>2. s <= at => frame'.first[c][s] = ring[c][s] \/ Dirty(c, s)
      BY <2>1, <2>3, <2>4, <3>1, <1>3 DEF SlotInv
    <3>3. CASE at + 1 < entries
      <4>1. place' = "first" /\ chan' = chan /\ at' = at + 1
        BY <3>3, <2>4, <1>2
      <4>2. ~PastMid(c)' /\ (FirstRead(c, s)' <=> s <= at) /\ ~SecondRead(c, s)'
        BY <4>1, <2>1, <2>4, <1>3 DEF PastMid, FirstRead, SecondRead
      <4> QED BY <4>2, <3>2, <2>2, <1>1 DEF SlotInv
    <3>4. CASE ~(at + 1 < entries)
      <4>1. place' = "second" /\ chan' = chan /\ at' = 0 /\ s <= at
        BY <3>4, <2>1, <2>4, <1>2, <1>3
      <4>2. PastMid(c)' /\ ~SecondRead(c, s)'
        BY <4>1, <2>1, <2>4 DEF PastMid, SecondRead
      <4>3. mid'[c].ring[s] = ring[c][s]
        BY <3>4, <2>4, <2>1, <1>2 DEF FramesTypeOK
      <4> QED BY <4>1, <4>2, <4>3, <3>2, <2>2, <1>1 DEF SlotInv
    <3> QED BY <3>3, <3>4
  <2>5. CASE c = chan /\ place = "second"
    <3>1. PastMid(c) /\ (SecondRead(c, s) <=> s < at) /\ mid' = mid
      BY <2>5, <2>1, <1>2 DEF PastMid, SecondRead
    <3>2. s <= at => \/ mid'[c].ring[s] = frame'.first[c][s]
                     \/ mid'[c].ring[s] = frame'.second[c][s]
      BY <2>1, <2>3, <2>5, <3>1, <1>3 DEF SlotInv
    <3>3. s > at => \/ mid'[c].ring[s] = frame'.first[c][s]
                    \/ mid'[c].ring[s] = ring'[c][s] /\ Dirty(c, s)'
      BY <2>1, <2>2, <2>3, <2>5, <3>1, <1>1, <1>3 DEF SlotInv
    <3>4. CASE at + 1 < entries
      <4>1. place' = "second" /\ chan' = chan /\ at' = at + 1
        BY <3>4, <2>5, <1>2
      <4>2. PastMid(c)' /\ (SecondRead(c, s)' <=> s <= at)
        BY <4>1, <2>1, <2>5, <1>3 DEF PastMid, SecondRead
      <4> QED BY <4>2, <3>2, <3>3, <2>1, <1>3 DEF SlotInv
    <3>5. CASE ~(at + 1 < entries)
      <4>1. PastMid(c)' /\ SecondRead(c, s)' /\ s <= at
        BY <3>5, <2>5, <2>1, <1>2, <1>3 DEF PastMid, SecondRead
      <4> QED BY <4>1, <3>2 DEF SlotInv
    <3> QED BY <3>4, <3>5
  <2>6. CASE c # chan
    <3>1. PastMid(c)' = PastMid(c)
      <4>1. ~(chan + 1 < Count) => c < chan
        BY <2>1, <2>6, <1>3, CountAssumption DEF Channels
      <4> QED BY <4>1, <2>1, <2>6, <1>1, <1>2, <1>3 DEF PastMid
    <3>2. /\ FirstRead(c, s) = PastMid(c) /\ SecondRead(c, s) = PastMid(c)
      BY <2>6, <1>1 DEF FirstRead, SecondRead, PastMid
    <3>3. (FirstRead(c, s)' <=> PastMid(c)') /\ (SecondRead(c, s)' <=> PastMid(c)')
      <4>1. (c = chan' => (place' = "first" /\ at' = 0) \/ place' = "after")
            /\ place' \in {"first", "second", "after"}
        BY <2>6, <1>1, <1>2
      <4>2. CASE c = chan' /\ place' = "first"
        BY <4>1, <4>2, <2>1 DEF FirstRead, SecondRead, PastMid
      <4>3. CASE place' = "after"
        BY <4>3 DEF FirstRead, SecondRead, PastMid
      <4>4. CASE c # chan'
        BY <4>1, <4>4 DEF FirstRead, SecondRead, PastMid
      <4> QED BY <4>1, <4>2, <4>3, <4>4
    <3>4. PastMid(c) => mid'[c] = mid[c]
      BY <2>6, <2>1, <1>2 DEF FramesTypeOK
    <3> QED BY <3>1, <3>2, <3>3, <3>4, <2>1, <2>3, <2>6 DEF SlotInv
  <2> QED BY <1>1, <2>4, <2>5, <2>6
<1>9. PutsInv'
  <2> SUFFICES ASSUME NEW d \in Channels
               PROVE  PutInv(d)'
    BY <1>1 DEF PutsInv
  <2>1. PutInv(d) /\ d \in Nat /\ BeforeRead(d) /\ PutBefore(d) <= Reached(d)
    BY <1>1, <1>3, SizeTypes DEF PutsInv, PutInv, BeforeRead
  <2>2. ~AfterRead(d)'
    BY <2>1, <1>1, <1>2 DEF AfterRead
  <2>3. /\ PutBefore(d)' = PutBefore(d) /\ Reached(d)' = Reached(d) /\ Reached(d) \in Int
    BY <1>1, <1>4 DEF PutBefore, Reached, Off, FramesTypeOK
  <2>4. ASSUME NEW c \in rings, PastMid(c)'
        PROVE  PutBefore(d)' <= PutMid(c, d)' /\ PutMid(c, d)' <= Reached(d)'
    <3>1. c \in Channels /\ c \in Nat
      BY SizeTypes DEF FramesTypeOK
    <3>2. CASE c = chan /\ place = "first"
      <4>1. mid'[c] = [ring |-> ring[chan], puts |-> Puts]
        <5>1. place' = "second"
          BY <2>4, <3>1, <3>2, <1>2 DEF PastMid
        <5> QED BY <5>1, <3>1, <3>2, <1>2 DEF FramesTypeOK
      <4>2. PutMid(c, d)' = Reached(d)
        BY <4>1, <1>1, <1>3, PutIsReached DEF PutMid, Off
      <4> QED BY <4>2, <2>1, <2>3
    <3>3. CASE ~(c = chan /\ place = "first")
      <4>1. PastMid(c)
        <5>1. ~(chan + 1 < Count) => c <= chan
          BY <3>1, <1>3, CountAssumption DEF Channels
        <5> QED BY <5>1, <2>4, <3>1, <3>3, <1>1, <1>2, <1>3 DEF PastMid
      <4>2. mid'[c] = mid[c]
        BY <3>1, <3>3, <1>2 DEF FramesTypeOK
      <4>3. PutMid(c, d)' = PutMid(c, d)
        BY <4>2, <1>1 DEF PutMid, Off
      <4> QED BY <4>1, <4>3, <2>1, <2>3, <1>3 DEF PutInv
    <3> QED BY <3>2, <3>3
  <2> QED BY <2>1, <2>2, <2>3, <2>4, <1>1 DEF PutInv
<1> QED BY <1>6, <1>7, <1>8, <1>9

--------------------------------------------------------------------------------
(* Every step keeps the order of a reading.                                 *)

\* Between two frames libcuda may do what it likes.
LEMMA IdleKeeps ==
  ASSUME ReadingInv, ~Reading, UNCHANGED <<entries, reuse, sampler>>,
         ring' \in [Channels -> [Slots -> Nat]],
         written' \in [Channels -> Nat], published' \in [Channels -> Nat]
  PROVE  ReadingInv'
<1> USE DEF ReadingInv
<1>1. UNCHANGED <<entries, rings, place, chan, at, frame, begun, mid>> /\ place = "done"
  BY DEF sampler, Reading
<1>2. FramesTypeOK' /\ Placed' /\ Bounded'
  BY <1>1 DEF FramesTypeOK, Slots, Placed, Bounded, Reading
<1>3. SlotsInv'
  <2> SUFFICES ASSUME NEW c \in rings, NEW s \in Slots
               PROVE  SlotInv(c, s)'
    BY <1>1 DEF SlotsInv, Slots
  <2>1. SlotInv(c, s)
    BY DEF SlotsInv
  <2> QED BY <2>1, <1>1 DEF SlotInv, PastMid, SecondRead
<1>4. PutsInv'
  BY <1>1 DEF PutsInv, PutInv, PutBefore, PutMid, PutAfter, Off, Reading, BeforeRead, AfterRead, PastMid
<1> QED BY <1>2, <1>3, <1>4

LEMMA FramesInit == Init => FramesInv
<1> SUFFICES ASSUME Init PROVE FramesInv
  OBVIOUS
<1>1. /\ place = "done" /\ chan = 0 /\ at = 0
      /\ frame = NoFrame(entries) /\ mid = NoMid(entries)
      /\ begun = [written |-> written, published |-> published]
      /\ ring = [c \in Channels |-> [s \in Slots |-> 0]]
  BY DEF Init
<1>2. entries \in Sizes /\ reuse \in BOOLEAN
  <2>1. entries \in (IF Graph THEN GraphSizes ELSE Sizes) /\ reuse \in BOOLEAN
    BY DEF Init
  <2> QED BY <2>1, EntryBoundsAssumption
<1>3. entries \in Nat \ {0} /\ Slots \subseteq Nat /\ 0 \in Slots /\ 0 \in Channels
  BY <1>2, SizesAssumption, CountAssumption DEF Slots, Channels
<1>4. written \in [Channels -> Nat] /\ published \in [Channels -> Nat]
  <2>1. PICK p \in Slots : written = [c \in Channels |-> p] /\ published = written
    BY DEF Init
  <2> QED BY <2>1, <1>3
<1>5. rings \subseteq Channels
  <2>1. rings = IF Graph THEN Channels ELSE {Active}
    BY DEF Init
  <2> QED BY <2>1, <1>3 DEF Active
<1>6. frame \in [before : [Channels -> Slots], after : [Channels -> Slots],
                 first : [Channels -> [Slots -> Nat]], second : [Channels -> [Slots -> Nat]]]
  BY <1>1, <1>3 DEF NoFrame, Slots
<1>7. mid \in [Channels -> [ring : [Slots -> Nat], puts : [Channels -> Slots]]]
  BY <1>1, <1>3 DEF NoMid, Slots
<1>8. FramesTypeOK
  <2>1. begun \in [written : [Channels -> Nat], published : [Channels -> Nat]]
    BY <1>1, <1>4
  <2>2. ring \in [Channels -> [Slots -> Nat]]
    BY <1>1
  <2> QED BY <1>1, <1>2, <1>3, <1>4, <1>5, <1>6, <1>7, <2>1, <2>2 DEF FramesTypeOK
<1>9. ~Reading /\ Bounded /\ Placed
  BY <1>1 DEF Reading, Bounded, Placed
<1>10. SlotsInv
  <2> SUFFICES ASSUME NEW c \in rings, NEW s \in Slots
               PROVE  SlotInv(c, s)
    BY DEF SlotsInv
  <2>1. mid[c].ring[s] = 0 /\ frame.first[c][s] = 0
    BY <1>1, <1>5 DEF NoMid, NoFrame, Slots
  <2> QED BY <2>1, <1>1 DEF SlotInv, PastMid, SecondRead
<1>11. PutsInv
  <2> SUFFICES ASSUME NEW d \in Channels
               PROVE  PutInv(d)
    BY DEF PutsInv
  <2>1. PutBefore(d) = Off(0, begun.published[d]) /\ PutAfter(d) = Off(0, begun.published[d])
    BY <1>1 DEF PutBefore, PutAfter, NoFrame
  <2>2. \A c \in rings : PutMid(c, d) = Off(0, begun.published[d])
    BY <1>1, <1>5 DEF PutMid, NoMid
  <2>3. Off(0, begun.published[d]) \in Nat
    BY <1>3, <1>8, OffTypes DEF FramesTypeOK
  <2> QED BY <2>1, <2>2, <2>3, <1>9 DEF PutInv
<1> QED BY <1>8, <1>9, <1>10, <1>11 DEF FramesInv, ReadingInv

LEMMA FramesStep == FramesInv /\ [Next]_vars => FramesInv'
<1> SUFFICES ASSUME FramesInv, [Next]_vars PROVE FramesInv'
  OBVIOUS
<1>0. ReadingInv /\ (Reading => pc \in Labels)
  BY DEF FramesInv
<1>1. ASSUME UNCHANGED <<memory, sampler>>, pc \notin Labels \/ pc' = pc
      PROVE  FramesInv'
  <2>1. UNCHANGED <<entries, reuse, ring, written, published, rings, place, chan, at, frame, begun, mid>>
    BY <1>1 DEF memory, sampler
  <2>2. ReadingInv'
    <3>1. FramesTypeOK' /\ Placed' /\ Bounded'
      BY <1>0, <2>1 DEF ReadingInv, FramesTypeOK, Slots, Placed, Bounded, Reading
    <3>2. SlotsInv'
      BY <1>0, <2>1 DEF ReadingInv, SlotsInv, SlotInv, Slots, PastMid, FirstRead, SecondRead, Dirty, Off
    <3>3. PutsInv'
      BY <1>0, <2>1 DEF ReadingInv, PutsInv, PutInv, PutBefore, PutMid, PutAfter, Reached, Off,
           Reading, BeforeRead, AfterRead, PastMid
    <3> QED BY <3>1, <3>2, <3>3 DEF ReadingInv
  <2> QED BY <1>0, <1>1, <2>1, <2>2 DEF FramesInv, Reading
<1>2. CASE Capture
  BY <1>1, <1>2 DEF Capture, Labels
<1>3. CASE StartFrame
  <2>1. BeginFrame /\ pc \in Labels /\ pc' = pc
    BY <1>3 DEF StartFrame
  <2> QED BY <1>0, <2>1, BeginFrameKeeps DEF FramesInv
<1>4. CASE TakeWord
  <2>1. ReadWord /\ (place' = "done" \/ pc' = pc)
    BY <1>4 DEF TakeWord
  <2>2. Reading
    BY <2>1 DEF ReadWord, ReadPut, SkipRing, ReadSlot, Reading
  <2>3. ReadingInv'
    BY <1>0, <2>1, ReadPutKeeps, SkipRingKeeps, ReadSlotKeeps DEF ReadWord
  <2> QED BY <1>0, <2>1, <2>2, <2>3 DEF FramesInv, Reading
<1>5. CASE Prepare
  <2>1. PICK n \in 0..entries : written' = [written EXCEPT ![Active] = @ + n] /\ published' = written'
    BY <1>5 DEF Prepare
  <2>2. ~Reading /\ UNCHANGED <<entries, reuse, ring, sampler>>
    BY <1>0, <1>5 DEF Prepare, Labels
  <2>3. FramesTypeOK
    BY <1>0 DEF ReadingInv
  <2>4. written' \in [Channels -> Nat] /\ published' \in [Channels -> Nat]
    <3>1. n \in Nat /\ Active \in Channels /\ written \in [Channels -> Nat]
      BY <2>3, SizeTypes DEF Active, FramesTypeOK
    <3> QED BY <2>1, <3>1
  <2>5. ring' \in [Channels -> [Slots -> Nat]]
    BY <2>2, <2>3 DEF FramesTypeOK
  <2>6. ReadingInv'
    BY <1>0, <2>2, <2>4, <2>5, IdleKeeps
  <2> QED BY <2>2, <2>6 DEF FramesInv, Reading, sampler
<1>6. CASE Call
  BY <1>1, <1>6 DEF Call, Labels
<1>7. CASE Work
  <2>1. pc' = pc /\ \E c \in Channels : WriteEntry(c) \/ PublishPut(c)
    BY <1>7 DEF Work
  <2>2. ReadingInv'
    BY <1>0, <2>1, WriteEntryKeeps, PublishPutKeeps
  <2>3. place' = place
    BY <2>1 DEF WriteEntry, PublishPut, sampler
  <2> QED BY <1>0, <2>1, <2>2, <2>3 DEF FramesInv, Reading
<1>8. CASE Pause
  BY <1>1, <1>8 DEF Pause, Labels
<1>9. CASE JudgeEntry
  BY <1>1, <1>9 DEF JudgeEntry, Labels
<1>10. CASE JudgeGraph
  BY <1>1, <1>10 DEF JudgeGraph, Labels
<1>11. CASE NextCase
  <2>1. CASE UNCHANGED memory
    BY <1>1, <1>11, <2>1 DEF NextCase, Labels
  <2>2. CASE ~UNCHANGED memory
    <3>1. PICK p \in Slots : written' = [c \in Channels |-> p] /\ published' = written'
      BY <1>11, <2>2 DEF NextCase
    <3>2. /\ ring' = [c \in Channels |-> [s \in Slots |-> 0]]
          /\ UNCHANGED <<entries, reuse, sampler>> /\ ~Reading
      BY <1>0, <1>11, <2>2 DEF NextCase, Labels
    <3>3. FramesTypeOK
      BY <1>0 DEF ReadingInv
    <3>4. written' \in [Channels -> Nat] /\ published' \in [Channels -> Nat] /\ ring' \in [Channels -> [Slots -> Nat]]
      BY <3>1, <3>2, <3>3, SizeTypes
    <3>5. ReadingInv'
      BY <1>0, <3>2, <3>4, IdleKeeps
    <3> QED BY <3>2, <3>5 DEF FramesInv, Reading, sampler
  <2> QED BY <2>1, <2>2
<1>12. CASE Ended \/ UNCHANGED vars
  BY <1>1, <1>12 DEF Ended, vars
<1> QED
  BY <1>2, <1>3, <1>4, <1>5, <1>6, <1>7, <1>8, <1>9, <1>10, <1>11, <1>12 DEF Next

--------------------------------------------------------------------------------
(* The theorems about frames.                                               *)

\* The invariant of a reading that goes on.
THEOREM FramesAreOrdered == Spec => []FramesInv
<1>1. Init => FramesInv
  BY FramesInit
<1>2. FramesInv /\ [Next]_vars => FramesInv'
  BY FramesStep
<1> QED BY <1>1, <1>2, PTL DEF Spec

\* Both readings of each slot agree with it half-way, as it is written once at
\* most; so does PUT, as it never comes back to where it was.
LEMMA OrderedIsInstant == FramesInv => FramesAreInstants
<1> SUFFICES ASSUME FramesInv, place = "done", StableFrame(frame), NEW c \in rings
             PROVE  mid[c] = [ring |-> frame.first[c], puts |-> frame.before]
  BY DEF FramesAreInstants
<1> USE DEF FramesInv, ReadingInv
<1>1. /\ c \in Channels
      /\ mid[c] \in [ring : [Slots -> Nat], puts : [Channels -> Slots]]
      /\ frame.first[c] \in [Slots -> Nat] /\ frame.second[c] = frame.first[c]
      /\ frame.before \in [Channels -> Slots] /\ frame.after = frame.before
  BY DEF FramesTypeOK, StableFrame
<1>2. ASSUME NEW s \in Slots
      PROVE  mid[c].ring[s] = frame.first[c][s]
  <2>1. SlotInv(c, s) /\ SecondRead(c, s)
    BY DEF SlotsInv, SecondRead
  <2> QED BY <2>1, <1>1 DEF SlotInv
<1>3. ASSUME NEW d \in Channels
      PROVE  mid[c].puts[d] = frame.before[d]
  <2>1. PutBefore(d) <= PutMid(c, d) /\ PutMid(c, d) <= PutAfter(d)
    <3>1. PutInv(d) /\ PastMid(c) /\ AfterRead(d)
      BY DEF PutsInv, PastMid, AfterRead
    <3> QED BY <3>1 DEF PutInv
  <2>2. /\ mid[c].puts[d] \in Slots /\ frame.before[d] \in Slots
        /\ begun.published[d] \in Nat /\ FramesTypeOK
    BY <1>1 DEF FramesTypeOK
  <2>3. PutBefore(d) = PutAfter(d) /\ PutBefore(d) \in Nat /\ PutMid(c, d) \in Nat
    BY <1>1, <2>2, OffTypes, SizeTypes DEF PutBefore, PutAfter, PutMid
  <2>4. Off(mid[c].puts[d], begun.published[d]) = Off(frame.before[d], begun.published[d])
    BY <2>1, <2>3 DEF PutBefore, PutMid
  <2> QED BY <2>2, <2>4, OffUnique
<1>4. mid[c].ring = frame.first[c] /\ mid[c].puts = frame.before
  BY <1>1, <1>2, <1>3
<1> QED BY <1>1, <1>4

\* A stable frame shows each ring, with all PUTs, as they were at one instant:
\* for every ring size, every number of channels and every value of the entries.
THEOREM StableFramesAreInstants == Spec => []FramesAreInstants
BY FramesAreOrdered, OrderedIsInstant, PTL

--------------------------------------------------------------------------------
(* What is known of a window, of its launch and of the results.             *)

\* Where libcuda does nothing for the program.
Before == {"capture", "before_fill", "idle", "prepare", "before_launch"}

\* Where the launch is measured against the frame before it.
Launched == {"call", "after_launch", "pause", "settled", "judge"}

\* What has been read of the frame is what is there.
Quiet ==
  /\ \A d \in Channels : BeforeRead(d) => frame.before[d] = Puts[d]
  /\ \A c \in rings, s \in Slots : FirstRead(c, s) => frame.first[c][s] = ring[c][s]

\* Where each of the places of a window can be.
PlaceInv ==
  /\ rings = IF Graph THEN Channels ELSE {Active}
  /\ pc \in {"capture", "next"} => Graph
  /\ pc = "before_fill" => ~Graph
  /\ Reading /\ pc # "after_launch" => Quiet
  /\ pc \in Before \union {"settled", "judge"} => published = written
  /\ pc \in Before => calls = 0 /\ amount = [c \in Channels |-> 0] /\ made = {}
  /\ pc = "call" => calls < ApiCalls
  /\ ~Graph /\ k = 2 =>
       /\ pc \notin {"before_fill", "idle", "prepare"}
       /\ wrap => Put(taken["idle"], Active) = 0

\* Where the launch's entries on a channel begin.
Base(c) == written[c] - amount[c]

\* What the launch has written, and what it leaves of the ring before it.
ChannelInv(c) ==
  /\ amount[c] <= written[c]
  /\ reuse \/ c \notin rings => amount[c] < entries
  /\ \A s \in Slots : <<c, s>> \in made <=> \E w \in Base(c)..(written[c] - 1) : s = w % entries
  /\ ~reuse => \A s \in Slots :
       /\ ring[c][s] <= written[c]
       /\ <<c, s>> \in made => ring[c][s] > Base(c)

\* The frame before the launch and the one that settles it are true.
FrameInv(c) ==
  /\ pc \in Launched =>
       /\ Put(Pre, c) = Base(c) % entries
       /\ ~reuse /\ c \in rings => \A s \in Slots : Pre.first[c][s] <= Base(c)
  /\ pc = "judge" =>
       /\ Put(taken["settled"], c) = Puts[c]
       /\ c \in rings => taken["settled"].first[c] = ring[c]

\* Nothing later than the last start that was accepted has been stamped, and the
\* graph of three nodes is a chain.
ResultInv ==
  /\ pc # "failed" => \A n \in 0..3 : started[n] <= previous_start[n]
  /\ Graph /\ pc \notin {"capture", "failed"} => {<<1, 2>>, <<2, 3>>} \subseteq edges

WindowInv ==
  /\ FramesInv /\ TypeOK /\ PlaceInv /\ ResultInv /\ VerifiedIsFresh
  /\ \A c \in Channels : ChannelInv(c) /\ FrameInv(c)

--------------------------------------------------------------------------------
(* The analysis of a settled window.                                        *)

LEMMA WindowTypes ==
  ASSUME WindowInv
  PROVE  /\ FramesTypeOK /\ entries \in Nat \ {0, 1} /\ Slots = 0..(entries - 1)
         /\ \A c \in Channels : /\ amount[c] \in Nat /\ written[c] \in Nat /\ published[c] \in Nat
                                /\ Base(c) \in Nat /\ written[c] = Base(c) + amount[c]
<1>1. FramesTypeOK
  BY DEF WindowInv, FramesInv, ReadingInv
<1>2. entries \in Nat \ {0, 1} /\ Slots = 0..(entries - 1)
  BY <1>1, SizesAssumption DEF FramesTypeOK, Slots
<1>3. ASSUME NEW c \in Channels
      PROVE  /\ amount[c] \in Nat /\ written[c] \in Nat /\ published[c] \in Nat
             /\ Base(c) \in Nat /\ written[c] = Base(c) + amount[c]
  <2>1. amount[c] \in Nat /\ written[c] \in Nat /\ published[c] \in Nat
    BY <1>1 DEF WindowInv, TypeOK, FramesTypeOK
  <2>2. amount[c] <= written[c]
    BY DEF WindowInv, ChannelInv
  <2> QED BY <2>1, <2>2 DEF Base
<1> QED BY <1>1, <1>2, <1>3

LEMMA RingTypes ==
  ASSUME WindowInv, NEW c \in Channels
  PROVE  written[c] % entries \in Slots /\ \A s \in Slots : ring[c][s] \in Nat
<1>1. FramesTypeOK
  BY DEF WindowInv, FramesInv, ReadingInv
<1>2. written[c] \in Int /\ \A s \in Slots : ring[c][s] \in Nat
  BY <1>1 DEF FramesTypeOK
<1> QED BY <1>1, <1>2, SizeTypes

\* What a settled frame says of PUT, which the frame before the launch began at.
LEMMA SettledPuts ==
  ASSUME WindowInv, pc = "judge", Same(Post, taken["settled"]), NEW c \in Channels
  PROVE  /\ Put(Pre, c) = Base(c) % entries /\ Put(Post, c) = written[c] % entries
         /\ (Put(Post, c) - Put(Pre, c)) % entries = amount[c] % entries
         /\ c \in rings => Post.first[c] = ring[c]
<1>1. FrameInv(c) /\ published = written
  BY DEF WindowInv, PlaceInv
<1>2. Put(Pre, c) = Base(c) % entries
  BY <1>1 DEF FrameInv, Launched
<1>3. Put(Post, c) = written[c] % entries /\ (c \in rings => Post.first[c] = ring[c])
  BY <1>1 DEF FrameInv, Same, Put, Puts
<1>4. entries \in Nat \ {0} /\ written[c] \in Int /\ Base(c) \in Int /\ written[c] - Base(c) = amount[c]
  BY WindowTypes
<1>5. ((written[c] % entries) - (Base(c) % entries)) % entries = amount[c] % entries
  BY <1>4, ModOfDifference
<1> QED BY <1>2, <1>3, <1>5

\* A launch of less than a ring of entries is the interval of its channel.
LEMMA IntervalIsLaunch ==
  ASSUME WindowInv, pc = "judge", Same(Post, taken["settled"]), NEW c \in Channels,
         amount[c] < entries, NEW s \in Slots
  PROVE  s \in Interval(c, Pre, Post) <=> <<c, s>> \in made
<1>1. entries \in Nat \ {0} /\ amount[c] \in 0..(entries - 1) /\ Base(c) \in Nat /\ written[c] = Base(c) + amount[c]
  BY WindowTypes
<1>2. (Put(Post, c) - Put(Pre, c)) % entries = amount[c]
  BY <1>1, SmallMod, SettledPuts
<1>3. s \in Interval(c, Pre, Post) <=> \E j \in 0..(amount[c] - 1) : s = (Put(Pre, c) + j) % entries
  BY <1>2 DEF Interval
<1>4. ASSUME NEW j \in 0..(amount[c] - 1)
      PROVE  (Put(Pre, c) + j) % entries = (Base(c) + j) % entries
  <2>1. j \in Int /\ Base(c) \in Int /\ Put(Pre, c) = Base(c) % entries
    BY <1>1, SettledPuts
  <2> QED BY <1>1, <2>1, ModOfSum
<1>5. <<c, s>> \in made <=> \E w \in Base(c)..(written[c] - 1) : s = w % entries
  BY DEF WindowInv, ChannelInv
<1>6. ASSUME NEW j \in 0..(amount[c] - 1), s = (Put(Pre, c) + j) % entries
      PROVE  <<c, s>> \in made
  <2>1. Base(c) + j \in Base(c)..(written[c] - 1) /\ s = (Base(c) + j) % entries
    BY <1>1, <1>4, <1>6
  <2> QED BY <2>1, <1>5
<1>7. ASSUME NEW w \in Base(c)..(written[c] - 1), s = w % entries
      PROVE  s \in Interval(c, Pre, Post)
  <2>1. w - Base(c) \in 0..(amount[c] - 1) /\ Base(c) + (w - Base(c)) = w
    BY <1>1
  <2> QED BY <2>1, <1>3, <1>4, <1>7
<1> QED BY <1>3, <1>5, <1>6, <1>7

\* A launch of a ring of entries or more has changed every slot, of which PUT
\* accounts for some only.
LEMMA FullRingShows ==
  ASSUME WindowInv, pc = "judge", Same(Post, taken["settled"]), NEW c \in Channels,
         amount[c] >= entries
  PROVE  /\ Changed(c, Pre, Post) = Slots
         /\ \E s \in Slots : s \notin Interval(c, Pre, Post)
<1>1. entries \in Nat \ {0, 1} /\ amount[c] \in Nat /\ Base(c) \in Nat /\ written[c] = Base(c) + amount[c]
      /\ Slots = 0..(entries - 1) /\ written[c] \in Nat
  BY WindowTypes
<1>2. ChannelInv(c) /\ FrameInv(c)
  BY DEF WindowInv
<1>3. ~reuse /\ c \in rings
  <2>1. ~(amount[c] < entries)
    BY <1>1
  <2> QED BY <1>2, <2>1 DEF ChannelInv
<1>4. ASSUME NEW s \in Slots
      PROVE  Pre.first[c][s] # Post.first[c][s]
  <2>1. PICK j \in 0..(entries - 1) : (Base(c) + j) % entries = s
    <3>1. entries \in Nat \ {0} /\ Base(c) \in Int /\ s \in 0..(entries - 1)
      BY <1>1
    <3> QED BY <3>1, EverySlot
  <2>2. Base(c) + j \in Base(c)..(written[c] - 1)
    BY <1>1
  <2>3. ring[c][s] > Base(c)
    BY <1>2, <1>3, <2>1, <2>2 DEF ChannelInv
  <2>4. Pre.first[c][s] <= Base(c) /\ Post.first[c][s] = ring[c][s]
    BY <1>2, <1>3, SettledPuts DEF FrameInv, Launched
  <2>5. Pre.first[c][s] \in Nat /\ ring[c][s] \in Nat
    BY WindowTypes DEF WindowInv, TypeOK, FramesTypeOK, Labels, Pre
  <2> QED BY <2>3, <2>4, <2>5, <1>1
<1> DEFINE r == (Put(Post, c) - Put(Pre, c)) % entries
           p == Put(Pre, c)
           s == (p + r) % entries
<1>5. p \in Int /\ r \in 0..(entries - 1) /\ s \in Slots
  <2>1. Base(c) \in Int /\ written[c] \in Int /\ entries \in Nat \ {0}
    BY <1>1
  <2>2. p \in 0..(entries - 1) /\ Put(Post, c) \in Int
    <3>1. Base(c) % entries \in 0..(entries - 1)
      BY <2>1, Division
    <3>2. written[c] % entries \in 0..(entries - 1)
      BY <2>1, Division
    <3> QED BY <3>1, <3>2, SettledPuts
  <2>3. r \in 0..(entries - 1)
    <3>1. Put(Post, c) - Put(Pre, c) \in Int
      BY <2>1, <2>2
    <3> QED BY <3>1, <2>1, Division
  <2>4. p + r \in Int
    <3> HIDE DEF p, r
    <3> QED BY <2>1, <2>2, <2>3
  <2>5. s \in 0..(entries - 1)
    <3> HIDE DEF p, r
    <3> QED BY <2>1, <2>4, Division
  <2> HIDE DEF p, r, s
  <2> QED BY <2>2, <2>3, <2>5, <1>1
<1>6. s \notin Interval(c, Pre, Post)
  <2> SUFFICES ASSUME NEW j \in 0..(r - 1), s = (p + j) % entries
               PROVE  FALSE
    BY DEF Interval
  <2>1. j \in 0..(entries - 1) /\ j # r
    <3> HIDE DEF r, p, s
    <3> QED BY <1>5, <1>1
  <2> HIDE DEF r, p
  <2> QED BY <2>1, <1>1, <1>5, StepInjective
<1>7. Changed(c, Pre, Post) = Slots
  BY <1>4 DEF Changed
<1> QED BY <1>5, <1>6, <1>7

\* An entry set that is complete and exclusive is the launch, on every ring.
LEMMA ExactIsLaunch ==
  ASSUME WindowInv, pc = "judge", Exact, NEW c \in Channels, NEW s \in Slots
  PROVE  s \in Interval(c, Pre, Post) <=> <<c, s>> \in made
<1>1. Same(Post, taken["settled"]) /\ Changed(c, Pre, Post) = Interval(c, Pre, Post)
  BY DEF Exact
<1>2. amount[c] < entries
  <2>1. ~(amount[c] >= entries)
    BY <1>1, FullRingShows
  <2> QED BY <2>1, WindowTypes
<1> QED BY <1>1, <1>2, IntervalIsLaunch

\* An isolated launch is one entry of the active ring.
LEMMA AttributedIsOne ==
  ASSUME WindowInv, pc = "judge", ~Graph, Attributed
  PROVE  /\ \A c \in Channels \ {Active} : amount[c] = 0
         /\ amount[Active] = 1 /\ Active \in Channels
<1>1. /\ Same(Post, taken["settled"])
      /\ Moved(Pre, Post) = {Active}
      /\ Put(Post, Active) = (Put(Pre, Active) + 1) % entries
      /\ Changed(Active, Pre, Post) = {Put(Pre, Active)}
  BY DEF Attributed
<1>2. Active \in Channels /\ entries \in Nat \ {0, 1} /\ 0 \in Slots /\ 1 \in Slots
  BY WindowTypes, SizeTypes DEF Active
<1>3. ASSUME NEW c \in Channels \ {Active}
      PROVE  amount[c] = 0
  <2>1. Put(Pre, c) = Put(Post, c)
    BY <1>1 DEF Moved
  <2>2. c \notin rings
    BY DEF WindowInv, PlaceInv
  <2>3. amount[c] \in 0..(entries - 1)
    BY <2>2, WindowTypes DEF WindowInv, ChannelInv
  <2>4. Put(Pre, c) \in Int
    BY <1>1, <1>2, WindowTypes, SettledPuts, Division
  <2>5. amount[c] % entries = 0 % entries
    <3>1. Put(Post, c) - Put(Pre, c) = 0
      BY <2>1, <2>4
    <3> QED BY <3>1, <1>1, SettledPuts
  <2> QED BY <2>3, <2>5, <1>2, SmallMod
<1>4. amount[Active] < entries
  <2>1. ~(amount[Active] >= entries)
    BY <1>1, <1>2, FullRingShows
  <2> QED BY <2>1, <1>2, WindowTypes
<1>5. amount[Active] = 1
  <2>1. Put(Pre, Active) = Base(Active) % entries /\ Put(Post, Active) = written[Active] % entries
        /\ Base(Active) \in Int /\ written[Active] = Base(Active) + amount[Active]
        /\ amount[Active] \in 0..(entries - 1) /\ 1 \in 0..(entries - 1)
    BY <1>1, <1>2, <1>4, WindowTypes, SettledPuts
  <2>2. (Put(Pre, Active) + 1) % entries = (Base(Active) + 1) % entries
    BY <2>1, <1>2, ModOfSum
  <2> QED BY <1>1, <1>2, <2>1, <2>2, StepInjective
<1> QED BY <1>2, <1>3, <1>5

LEMMA WindowImpliesEntries == WindowInv => EntriesAreTheLaunchs
<1> SUFFICES ASSUME WindowInv, pc = "judge", IF Graph THEN GraphWindow /\ Exact ELSE Attributed
             PROVE  EntrySet = made
  BY DEF EntriesAreTheLaunchs
<1>1. ASSUME NEW c \in Channels, NEW s \in Slots
      PROVE  s \in Interval(c, Pre, Post) <=> <<c, s>> \in made
  <2>1. CASE Graph
    BY <2>1, ExactIsLaunch
  <2>2. CASE ~Graph
    <3>1. Attributed /\ Same(Post, taken["settled"])
      BY <2>2 DEF Attributed
    <3>2. amount[c] < entries
      BY <2>2, <3>1, AttributedIsOne, WindowTypes
    <3> QED BY <3>1, <3>2, IntervalIsLaunch
  <2> QED BY <2>1, <2>2
<1>2. ASSUME NEW c \in Channels
      PROVE  Interval(c, Pre, Post) \subseteq Slots
  <2> SUFFICES ASSUME NEW j \in 0..(((Put(Post, c) - Put(Pre, c)) % entries) - 1)
               PROVE  (Put(Pre, c) + j) % entries \in Slots
    BY DEF Interval
  <2>1. Same(Post, taken["settled"])
    BY DEF Exact, Attributed
  <2>2. Put(Pre, c) \in Int
    BY <2>1, WindowTypes, SettledPuts, Division
  <2>3. Put(Pre, c) + j \in Int
    BY <2>2
  <2> QED BY <2>3, WindowTypes, SizeTypes
<1>3. made \subseteq Channels \X Slots
  BY DEF WindowInv, TypeOK
<1>4. \A e : e \in EntrySet <=> \E c \in Channels : e \in {c} \X Interval(c, Pre, Post)
  BY DEF EntrySet
<1>5. ASSUME NEW e \in EntrySet PROVE e \in made
  <2>1. PICK c \in Channels : e \in {c} \X Interval(c, Pre, Post)
    BY <1>4
  <2>2. PICK s \in Interval(c, Pre, Post) : e = <<c, s>>
    BY <2>1
  <2> QED BY <2>2, <1>1, <1>2
<1>6. ASSUME NEW e \in made PROVE e \in EntrySet
  <2>1. PICK c \in Channels, s \in Slots : e = <<c, s>>
    BY <1>3
  <2>2. s \in Interval(c, Pre, Post)
    BY <2>1, <1>1
  <2> QED BY <2>1, <2>2, <1>4
<1> QED BY <1>5, <1>6

LEMMA WindowImpliesWrap == WindowInv => WrapIsPhysical
<1> SUFFICES ASSUME WindowInv, pc = "judge", ~Graph, wrap, Attributed
             PROVE  made = {<<Active, IF k = 1 THEN entries - 1 ELSE 0>>}
  BY DEF WrapIsPhysical
<1>1. /\ amount[Active] = 1 /\ Active \in Channels
      /\ \A c \in Channels \ {Active} : amount[c] = 0
  BY AttributedIsOne
<1>2. Same(Post, taken["settled"]) /\ Same(taken["idle"], Pre)
  BY DEF Attributed
<1>3. /\ entries \in Nat \ {0, 1} /\ Slots = 0..(entries - 1)
      /\ \A c \in Channels : Base(c) \in Nat /\ written[c] = Base(c) + amount[c]
  BY WindowTypes
<1>4. Put(Pre, Active) = IF k = 1 THEN entries - 1 ELSE 0
  <2>1. CASE k = 1
    <3>1. Put(taken["idle"], Active) = entries - 1
      BY <2>1 DEF Attributed, Wrapped
    <3> QED BY <3>1, <2>1, <1>2 DEF Same, Put
  <2>2. CASE k # 1
    <3>1. k = 2
      BY <2>2 DEF WindowInv, TypeOK
    <3>2. Put(taken["idle"], Active) = 0
      BY <3>1 DEF WindowInv, PlaceInv
    <3> QED BY <3>2, <2>2, <1>2 DEF Same, Put
  <2> QED BY <2>1, <2>2
<1>5. Put(Pre, Active) = Base(Active) % entries
  BY <1>1, <1>2, SettledPuts
<1>6. ASSUME NEW c \in Channels, NEW s \in Slots
      PROVE  <<c, s>> \in made <=> c = Active /\ s = Put(Pre, Active)
  <2>1. <<c, s>> \in made <=> \E w \in Base(c)..(written[c] - 1) : s = w % entries
    BY DEF WindowInv, ChannelInv
  <2>2. CASE c = Active
    <3>1. Base(c)..(written[c] - 1) = {Base(c)}
      BY <2>2, <1>1, <1>3
    <3> QED BY <3>1, <2>1, <2>2, <1>5
  <2>3. CASE c # Active
    <3>1. Base(c)..(written[c] - 1) = {}
      BY <2>3, <1>1, <1>3
    <3> QED BY <3>1, <2>1, <2>3
  <2> QED BY <2>2, <2>3
<1>7. Put(Pre, Active) \in Slots /\ made \subseteq Channels \X Slots
  BY <1>3, <1>4 DEF WindowInv, TypeOK
<1>8. made = {<<Active, Put(Pre, Active)>>}
  BY <1>1, <1>6, <1>7
<1> QED BY <1>4, <1>8

--------------------------------------------------------------------------------
(* A frame that is read while libcuda does nothing.                         *)

LEMMA QuietPut ==
  ASSUME ReadingInv, Quiet, ReadPut
  PROVE  Quiet'
<1>1. /\ place \in {"before", "after"} /\ frame' = [frame EXCEPT ![place][chan] = Puts[chan]]
      /\ IF chan + 1 < Count
         THEN chan' = chan + 1 /\ place' = place
         ELSE place' = (IF place = "before" THEN "first" ELSE "done") /\ chan' = 0
      /\ UNCHANGED <<entries, reuse, ring, written, published, rings, at, begun, mid>>
  BY DEF ReadPut, memory
<1>2. FramesTypeOK /\ at = 0 /\ chan \in Channels /\ chan \in Nat
  BY <1>1, SizeTypes DEF ReadingInv, Placed, FramesTypeOK
<1>3. Puts' = Puts /\ Slots' = Slots
  BY <1>1 DEF Puts, Slots
<1>4. ASSUME NEW d \in Channels, BeforeRead(d)'
      PROVE  frame'.before[d] = Puts[d]
  <2>1. d \in Nat /\ d < Count
    BY CountAssumption DEF Channels
  <2>2. CASE place = "after"
    <3>1. frame'.before = frame.before /\ BeforeRead(d)
      BY <1>1, <1>2, <2>2 DEF FramesTypeOK, BeforeRead
    <3> QED BY <3>1 DEF Quiet
  <2>3. CASE place = "before" /\ d = chan
    BY <1>1, <1>2, <2>3 DEF FramesTypeOK
  <2>4. CASE place = "before" /\ d # chan
    <3>1. d < chan
      BY <1>1, <1>2, <1>4, <2>1, <2>4, CountAssumption DEF BeforeRead
    <3>2. frame'.before[d] = frame.before[d]
      BY <1>1, <1>2, <2>4 DEF FramesTypeOK
    <3> QED BY <3>1, <3>2 DEF Quiet, BeforeRead
  <2> QED BY <1>1, <2>2, <2>3, <2>4
<1>5. ASSUME NEW c \in rings, NEW s \in Slots, FirstRead(c, s)'
      PROVE  frame'.first[c][s] = ring[c][s]
  <2>1. c \in Nat /\ s \in Nat
    BY <1>2, SizeTypes DEF FramesTypeOK
  <2>2. frame'.first = frame.first
    BY <1>1, <1>2 DEF FramesTypeOK
  <2>3. place = "after"
    BY <1>1, <1>2, <1>5, <2>1 DEF FirstRead, PastMid
  <2> QED BY <2>2, <2>3 DEF Quiet, FirstRead, PastMid
<1> QED BY <1>1, <1>3, <1>4, <1>5 DEF Quiet

LEMMA QuietSkip ==
  ASSUME ReadingInv, Quiet, SkipRing
  PROVE  Quiet'
<1>1. /\ place = "first" /\ chan \notin rings
      /\ IF chan + 1 < Count THEN chan' = chan + 1 /\ place' = place
                             ELSE chan' = 0 /\ place' = "after"
      /\ UNCHANGED <<entries, reuse, ring, written, published, rings, at, frame, begun, mid>>
  BY DEF SkipRing, memory
<1>2. FramesTypeOK /\ at = 0 /\ chan \in Channels /\ chan \in Nat
  BY <1>1, SizeTypes DEF ReadingInv, Placed, FramesTypeOK
<1>3. Puts' = Puts /\ Slots' = Slots
  BY <1>1 DEF Puts, Slots
<1>4. \A d \in Channels : BeforeRead(d)
  BY <1>1 DEF BeforeRead
<1>5. ASSUME NEW c \in rings, NEW s \in Slots, FirstRead(c, s)'
      PROVE  FirstRead(c, s)
  <2>1. c \in Nat /\ s \in Nat /\ c < Count /\ c # chan
    <3>1. c \in Channels /\ c # chan /\ s \in Nat
      BY <1>1, <1>2, SizeTypes DEF FramesTypeOK
    <3> QED BY <3>1, CountAssumption DEF Channels
  <2>2. c < chan
    BY <1>1, <1>2, <1>5, <2>1, CountAssumption DEF FirstRead, PastMid
  <2> QED BY <1>1, <2>2 DEF FirstRead, PastMid
<1> QED BY <1>1, <1>3, <1>4, <1>5 DEF Quiet

LEMMA QuietSlot ==
  ASSUME ReadingInv, Quiet, ReadSlot
  PROVE  Quiet'
<1>1. /\ place \in {"first", "second"} /\ chan \in rings
      /\ frame' = [frame EXCEPT ![place][chan][at] = ring[chan][at]]
      /\ UNCHANGED <<entries, reuse, ring, written, published, rings, begun>>
  BY DEF ReadSlot, memory
<1>2. IF at + 1 < entries
      THEN at' = at + 1 /\ place' = place /\ chan' = chan
      ELSE /\ at' = 0
           /\ IF place = "first"
              THEN place' = "second" /\ chan' = chan
              ELSE IF chan + 1 < Count THEN chan' = chan + 1 /\ place' = "first"
                                       ELSE chan' = 0 /\ place' = "after"
  BY DEF ReadSlot
<1>3. FramesTypeOK /\ chan \in Channels /\ chan \in Nat /\ at \in Slots /\ at \in Nat /\ entries \in Nat \ {0}
  BY <1>1, SizeTypes DEF ReadingInv, FramesTypeOK
<1>4. Puts' = Puts /\ Slots' = Slots
  BY <1>1 DEF Puts, Slots
<1>5. /\ \A d \in Channels : BeforeRead(d)
      /\ frame'.before = frame.before
  BY <1>1, <1>3 DEF BeforeRead, FramesTypeOK
<1>6. ASSUME NEW c \in rings, NEW s \in Slots, FirstRead(c, s)'
      PROVE  frame'.first[c][s] = ring[c][s]
  <2>1. c \in Nat /\ s \in Nat /\ c < Count /\ c \in Channels /\ s < entries
    BY <1>3, SizeTypes, CountAssumption DEF FramesTypeOK, Channels, Slots
  <2>2. CASE c = chan /\ s = at /\ place = "first"
    BY <1>1, <1>3, <2>1, <2>2 DEF FramesTypeOK
  <2>3. CASE ~(c = chan /\ s = at /\ place = "first")
    <3>1. frame'.first[c][s] = frame.first[c][s]
      BY <1>1, <1>3, <2>1, <2>3 DEF FramesTypeOK
    <3>2. FirstRead(c, s)
      <4>1. CASE place = "first" /\ at + 1 < entries
        BY <1>2, <1>3, <1>6, <2>1, <2>3, <4>1 DEF FirstRead, PastMid
      <4>2. CASE place = "first" /\ ~(at + 1 < entries)
        BY <1>2, <1>3, <1>6, <2>1, <2>3, <4>2 DEF FirstRead, PastMid
      <4>3. CASE place = "second"
        BY <1>2, <1>3, <1>6, <2>1, <4>3, CountAssumption DEF FirstRead, PastMid
      <4> QED BY <1>1, <4>1, <4>2, <4>3
    <3> QED BY <3>1, <3>2 DEF Quiet
  <2> QED BY <2>2, <2>3
<1> QED BY <1>1, <1>4, <1>5, <1>6 DEF Quiet

\* When the last word has been read, the frame is what is there.
LEMMA QuietFrame ==
  ASSUME FramesInv', Quiet', place' = "done"
  PROVE  /\ \A c \in Channels : frame'.before[c] = Puts'[c]
         /\ \A c \in rings' : frame'.first[c] = ring'[c]
<1>1. FramesTypeOK'
  BY DEF FramesInv, ReadingInv
<1>2. \A c \in Channels : BeforeRead(c)'
  BY DEF BeforeRead
<1>3. ASSUME NEW c \in rings'
      PROVE  frame'.first[c] = ring'[c]
  <2>1. frame'.first[c] \in [Slots' -> Nat] /\ ring'[c] \in [Slots' -> Nat]
    BY <1>1 DEF FramesTypeOK
  <2>2. \A s \in Slots' : frame'.first[c][s] = ring'[c][s]
    BY DEF Quiet, FirstRead, PastMid
  <2> QED BY <2>1, <2>2
<1> QED BY <1>2, <1>3 DEF Quiet

--------------------------------------------------------------------------------
(* The results of a case.                                                   *)

LEMMA NodeSets ==
  /\ ToSet(<<0>>) = {0} /\ ToSet(<<1, 2, 3>>) = {1, 2, 3} /\ ToSet(<<0, 1, 2, 3>>) = 0..3
  /\ Len(<<0>>) = 1 /\ Len(<<1, 2, 3>>) = 3 /\ Len(<<0, 1, 2, 3>>) = 4
<1>1. ToSet(<<0>>) = {0}
  BY DEF ToSet
<1>2. ToSet(<<1, 2, 3>>) = {1, 2, 3}
  BY DEF ToSet
<1>3. ToSet(<<0, 1, 2, 3>>) = 0..3
  BY DEF ToSet
<1> QED BY <1>1, <1>2, <1>3

LEMMA NodesOfCases ==
  ASSUME NEW case \in 1..5
  PROVE  Nodes(case) = <<0>> \/ Nodes(case) = <<1, 2, 3>>
BY DEF Nodes

LEMMA OrdersAre ==
  ASSUME NEW nodes, NEW before, NEW order \in Orders(nodes, before)
  PROVE  /\ \E n \in 0..Len(nodes) : order \in [1..n -> ToSet(nodes)]
         /\ \A i, j \in DOMAIN order : i < j => order[i] # order[j] /\ <<order[j], order[i]>> \notin before
BY DEF Orders

\* A start later than the last one that was accepted was stamped in this case.
LEMMA VerifyKeeps ==
  ASSUME NEW nodes, NEW order, NEW stamp \in 0..6, ToSet(nodes) \subseteq 0..3,
         ToSet(order) \subseteq ToSet(nodes),
         started \in [0..3 -> 0..6], previous_start \in [0..3 -> 0..6],
         \A n \in 0..3 : started[n] <= previous_start[n],
         Verify(nodes, order, stamp)
  PROVE  /\ started' \in [0..3 -> 0..6] /\ previous_start' \in [0..3 -> 0..6]
         /\ Fresh(nodes) => /\ \A n \in 0..3 : started'[n] <= previous_start'[n]
                            /\ ToSet(nodes) \subseteq ToSet(order)
<1>1. /\ started' = [n \in 0..3 |-> IF n \in ToSet(order) THEN stamp ELSE started[n]]
      /\ previous_start' = [n \in 0..3 |-> IF Fresh(nodes) /\ n \in ToSet(nodes)
                                           THEN started'[n] ELSE previous_start[n]]
  BY DEF Verify, Stamped
<1>2. started' \in [0..3 -> 0..6]
  BY <1>1
<1>3. previous_start' \in [0..3 -> 0..6]
  BY <1>1, <1>2
<1>4. ASSUME Fresh(nodes), NEW n \in ToSet(nodes)
      PROVE  n \in ToSet(order)
  <2>1. PICK i \in DOMAIN nodes : n = nodes[i]
    BY DEF ToSet
  <2>2. started'[n] > previous_start[n]
    BY <1>4, <2>1 DEF Fresh
  <2>3. n \in 0..3 /\ started[n] <= previous_start[n] /\ started[n] \in 0..6 /\ previous_start[n] \in 0..6
    OBVIOUS
  <2>4. started'[n] # started[n]
    BY <2>2, <2>3
  <2> QED BY <2>3, <2>4, <1>1
<1>5. ASSUME Fresh(nodes), NEW n \in 0..3
      PROVE  started'[n] <= previous_start'[n]
  <2>1. CASE n \in ToSet(nodes)
    BY <1>1, <1>2, <1>5, <2>1
  <2>2. CASE n \notin ToSet(nodes)
    BY <1>1, <1>5, <2>2
  <2> QED BY <2>1, <2>2
<1> QED BY <1>2, <1>3, <1>4, <1>5

\* Kernels that have all run, each after those it depends on, ran in the order of
\* the chain.
LEMMA ChainOrder ==
  ASSUME NEW case \in 1..5, NEW before, {<<1, 2>>, <<2, 3>>} \subseteq before,
         NEW order \in Orders(Nodes(case), before), ToSet(Nodes(case)) \subseteq ToSet(order)
  PROVE  order = Nodes(case) /\ order \in Seq(0..3)
<1>1. PICK n \in 0..Len(Nodes(case)) : order \in [1..n -> ToSet(Nodes(case))]
  BY OrdersAre
<1>2. ASSUME NEW x \in ToSet(Nodes(case))
      PROVE  \E i \in 1..n : order[i] = x
  <2>1. \E i \in DOMAIN order : order[i] = x
    BY DEF ToSet
  <2> QED BY <1>1, <2>1
<1>3. CASE Nodes(case) = <<0>>
  <2>1. n \in 0..1 /\ order \in [1..n -> {0}]
    BY <1>1, <1>3, NodeSets
  <2>2. PICK i \in 1..n : order[i] = 0
    BY <1>2, <1>3, NodeSets
  <2>3. n = 1
    BY <2>1, <2>2
  <2>4. order = <<0>>
    BY <2>1, <2>3
  <2> QED BY <1>3, <2>4
<1>4. CASE Nodes(case) = <<1, 2, 3>>
  <2>1. n \in 0..3 /\ order \in [1..n -> {1, 2, 3}]
    BY <1>1, <1>4, NodeSets
  <2>2. /\ \E i \in 1..n : order[i] = 1
        /\ \E i \in 1..n : order[i] = 2
        /\ \E i \in 1..n : order[i] = 3
    BY <1>2, <1>4, NodeSets
  <2>3. PICK i1 \in 1..n : order[i1] = 1
    BY <2>2
  <2>4. PICK i2 \in 1..n : order[i2] = 2
    BY <2>2
  <2>5. PICK i3 \in 1..n : order[i3] = 3
    BY <2>2
  <2>6. i1 < i2 /\ i2 < i3
    <3>1. \A i, j \in 1..n : i < j => <<order[j], order[i]>> \notin before
      BY <1>1, OrdersAre
    <3>2. <<order[i1], order[i2]>> \in before /\ <<order[i2], order[i3]>> \in before
      BY <2>3, <2>4, <2>5
    <3>3. ~(i2 < i1) /\ ~(i3 < i2)
      BY <3>1, <3>2
    <3>4. i1 # i2 /\ i2 # i3
      BY <2>3, <2>4, <2>5
    <3>5. i1 \in Int /\ i2 \in Int /\ i3 \in Int
      BY <2>1
    <3> QED BY <3>3, <3>4, <3>5
  <2>7. n = 3 /\ i1 = 1 /\ i2 = 2 /\ i3 = 3
    BY <2>1, <2>6
  <2>8. order = <<1, 2, 3>>
    BY <2>1, <2>3, <2>4, <2>5, <2>7
  <2> QED BY <1>4, <2>8
<1> QED BY <1>3, <1>4, NodesOfCases

LEMMA ChainEdges ==
  ASSUME NEW e \in [1..2 -> (1..3) \X (1..3)], Chain(e)
  PROVE  {<<1, 2>>, <<2, 3>>} \subseteq ToSet(e)
<1>1. ASSUME NEW i \in 1..2
      PROVE  \E j \in DOMAIN e : e[j] = <<i, i + 1>>
  <2>1. Cardinality({j \in DOMAIN e : e[j] = <<i, i + 1>>}) = 1
    BY DEF Chain
  <2>2. {j \in DOMAIN e : e[j] = <<i, i + 1>>} # {}
    BY <2>1, FS_EmptySet
  <2> QED BY <2>2
<1>2. <<1, 2>> \in ToSet(e)
  <2>1. \E j \in DOMAIN e : e[j] = <<1, 2>>
    BY <1>1
  <2> QED BY <2>1 DEF ToSet
<1>3. <<2, 3>> \in ToSet(e)
  <2>1. \E j \in DOMAIN e : e[j] = <<2, 3>>
    BY <1>1
  <2> QED BY <2>1 DEF ToSet
<1> QED BY <1>2, <1>3

--------------------------------------------------------------------------------
(* Every step of a window keeps what is known of it.                        *)

\* Steps that touch neither the rings nor the launch's entries.
LEMMA RingsUntouched ==
  ASSUME WindowInv, UNCHANGED <<memory, rings, amount, made>>, NEW c \in Channels
  PROVE  ChannelInv(c)'
BY DEF WindowInv, ChannelInv, Base, memory, Slots

LEMMA FramesUntouched ==
  ASSUME WindowInv, UNCHANGED <<memory, rings, amount, taken>>, NEW c \in Channels,
         pc' \in Launched => pc \in Launched, pc' = "judge" => pc = "judge"
  PROVE  FrameInv(c)'
<1>1. FrameInv(c)
  BY DEF WindowInv
<1>2. UNCHANGED <<entries, reuse, ring, written, published, rings, amount, taken>>
  BY DEF memory
<1>3. Pre' = Pre /\ Base(c)' = Base(c) /\ Puts' = Puts /\ Slots' = Slots
  BY <1>2 DEF Pre, Base, Puts, Slots
<1> QED BY <1>1, <1>2, <1>3 DEF FrameInv, Put

\* Steps that stamp nothing.
LEMMA ResultsUntouched ==
  ASSUME ResultInv, UNCHANGED <<mode, started, previous_start, edges>>,
         pc' = pc \/ pc' = "failed" \/ pc \notin {"capture", "failed"}
  PROVE  ResultInv'
BY DEF ResultInv, Graph

LEMMA CallsPositive ==
  ASSUME TypeOK
  PROVE  ApiCalls \in Nat \ {0}
BY DEF ApiCalls

LEMMA StartFrameKeeps ==
  ASSUME WindowInv, FramesInv', StartFrame
  PROVE  WindowInv'
<1>1. /\ UNCHANGED <<entries, reuse, ring, written, published, rings>>
      /\ UNCHANGED <<mode, wrap, initial_put, calls, amount, made, edges, started,
                     previous_start, verified, pc, k, taken>>
      /\ place' = "before" /\ chan' = 0
  BY DEF StartFrame, BeginFrame, memory, window, launch, graph
<1>2. FramesTypeOK'
  BY DEF FramesInv, ReadingInv
<1>3. TypeOK'
  BY <1>1, <1>2 DEF WindowInv, TypeOK, Graph, ApiCalls, Slots
<1>4. Quiet'
  <2>1. \A d \in Channels : ~BeforeRead(d)'
    BY <1>1, <1>2, SizeTypes DEF BeforeRead, WindowInv, FramesInv, ReadingInv
  <2>2. \A c, s : ~FirstRead(c, s)'
    BY <1>1 DEF FirstRead, PastMid
  <2> QED BY <2>1, <2>2 DEF Quiet
<1>5. PlaceInv'
  BY <1>1, <1>4 DEF WindowInv, PlaceInv, Graph, ApiCalls, Put
<1>6. ResultInv' /\ VerifiedIsFresh'
  BY <1>1, ResultsUntouched DEF WindowInv, VerifiedIsFresh
<1>7. \A c \in Channels : ChannelInv(c)' /\ FrameInv(c)'
  BY <1>1, RingsUntouched, FramesUntouched DEF memory
<1> QED BY <1>3, <1>5, <1>6, <1>7 DEF WindowInv

LEMMA TakeWordKeeps ==
  ASSUME WindowInv, FramesInv', TakeWord
  PROVE  WindowInv'
<1>1. /\ UNCHANGED <<entries, reuse, ring, written, published, rings>>
      /\ UNCHANGED <<mode, wrap, initial_put, calls, amount, made, edges, started,
                     previous_start, verified, k>>
  <2>1. ReadWord /\ UNCHANGED <<window, launch, graph, k>>
    BY DEF TakeWord
  <2> QED BY <2>1 DEF ReadWord, ReadPut, SkipRing, ReadSlot, memory, window, launch, graph
<1>2. FramesTypeOK' /\ FramesTypeOK /\ Channels' = Channels
  BY DEF FramesInv, ReadingInv, WindowInv
<1>3. ReadingInv /\ Reading /\ pc \in Labels
  <2>1. Reading
    BY DEF TakeWord, ReadWord, ReadPut, SkipRing, ReadSlot, Reading
  <2> QED BY <2>1 DEF WindowInv, FramesInv
<1>4. pc # "after_launch" => Quiet'
  <2>1. pc # "after_launch" => Quiet
    BY <1>3 DEF WindowInv, PlaceInv
  <2>2. ReadWord
    BY DEF TakeWord
  <2> QED BY <1>3, <2>1, <2>2, QuietPut, QuietSkip, QuietSlot DEF ReadWord
<1>5. \A c \in Channels : ChannelInv(c)'
  BY <1>1, RingsUntouched DEF memory
<1>6. CASE place' # "done"
  <2>1. UNCHANGED <<pc, taken>>
    BY <1>6 DEF TakeWord
  <2>2. TypeOK'
    BY <1>1, <1>2, <2>1 DEF WindowInv, TypeOK, Graph, ApiCalls, Slots
  <2>3. PlaceInv'
    BY <1>1, <1>4, <2>1 DEF WindowInv, PlaceInv, Graph, ApiCalls, Put
  <2>4. ResultInv' /\ VerifiedIsFresh'
    BY <1>1, <2>1, ResultsUntouched DEF WindowInv, VerifiedIsFresh
  <2>5. \A c \in Channels : FrameInv(c)'
    BY <1>1, <2>1, FramesUntouched DEF memory
  <2> QED BY <1>5, <2>2, <2>3, <2>4, <2>5 DEF WindowInv
<1>7. CASE place' = "done"
  <2>1. taken' = [taken EXCEPT ![pc] = frame'] /\ pc' \in {After, "rejected"}
    BY <1>7 DEF TakeWord
  <2>2. /\ pc = "before_fill" => After = "prepare"
        /\ pc = "idle" => After = (IF Graph /\ Wrapped THEN "prepare" ELSE "before_launch")
        /\ pc = "before_launch" => After = "call"
        /\ pc = "after_launch" => After = "pause"
        /\ pc = "settled" => After = "judge"
    BY DEF After
  <2>3. pc \in {"before_fill", "idle", "before_launch", "after_launch", "settled"}
    BY <1>3 DEF Labels
  <2>4. taken' \in [Labels -> [before : [Channels -> Slots], after : [Channels -> Slots],
                      first : [Channels -> [Slots -> Nat]], second : [Channels -> [Slots -> Nat]]]]
    <3>1. frame' \in [before : [Channels -> Slots], after : [Channels -> Slots],
                      first : [Channels -> [Slots -> Nat]], second : [Channels -> [Slots -> Nat]]]
      BY <1>1, <1>2 DEF FramesTypeOK, Slots
    <3>2. taken \in [Labels -> [before : [Channels -> Slots], after : [Channels -> Slots],
                      first : [Channels -> [Slots -> Nat]], second : [Channels -> [Slots -> Nat]]]]
      BY DEF WindowInv, TypeOK
    <3> QED BY <2>1, <3>1, <3>2
  <2>5. /\ taken'[pc] = frame'
        /\ \A l \in Labels \ {pc} : taken'[l] = taken[l]
    BY <1>3, <2>1 DEF WindowInv, TypeOK
  <2>6. pc' \in {"prepare", "before_launch", "call", "pause", "judge", "rejected"}
    BY <2>1, <2>2, <2>3
  <2>7. TypeOK'
    <3>1. pc' \in Labels \union {"capture", "prepare", "call", "pause", "judge", "next",
                                 "captured", "rejected", "failed"}
      BY <2>6 DEF Labels
    <3>2. Slots' = Slots /\ ApiCalls' = ApiCalls /\ Graph' = Graph
      BY <1>1 DEF Slots, ApiCalls, Graph
    <3>3. TypeOK
      BY DEF WindowInv
    <3> QED BY <1>1, <1>2, <2>4, <3>1, <3>2, <3>3 DEF TypeOK
  <2>8. PlaceInv'
    <3>1. ~Reading'
      BY <1>7 DEF Reading
    <3>2. (rings = IF Graph THEN Channels ELSE {Active})' /\ ~(pc' \in {"capture", "next", "before_fill", "settled"})
      BY <1>1, <2>6 DEF WindowInv, PlaceInv, Graph
    <3>3. pc' \in {"prepare", "before_launch"} => pc \in Before
      BY <2>1, <2>2, <2>3 DEF Before
    <3>4. pc' = "call" => pc \in Before /\ calls < ApiCalls
      <4>1. pc' = "call" => pc = "before_launch"
        BY <2>1, <2>2, <2>3
      <4>2. pc = "before_launch" => calls = 0
        BY DEF WindowInv, PlaceInv, Before
      <4> QED BY <4>1, <4>2, CallsPositive DEF WindowInv, Before
    <3>5. pc' = "judge" => pc = "settled"
      BY <2>1, <2>2, <2>3
    <3>6. pc' \in Before \union {"settled", "judge"} => published' = written'
      BY <1>1, <2>6, <3>3, <3>5 DEF WindowInv, PlaceInv, Before
    <3>7. pc' \in Before => calls' = 0 /\ amount' = [c \in Channels |-> 0] /\ made' = {}
      BY <1>1, <2>6, <3>3 DEF WindowInv, PlaceInv, Before
    <3>8. pc' = "call" => calls' < ApiCalls'
      BY <1>1, <3>4 DEF ApiCalls, Graph
    <3>9. (~Graph /\ k = 2)' =>
            /\ pc' \notin {"before_fill", "idle", "prepare"}
            /\ wrap' => Put(taken'["idle"], Active) = 0
      <4>1. ASSUME ~Graph, k = 2
            PROVE  pc \notin {"before_fill", "idle", "prepare"} /\ (wrap => Put(taken["idle"], Active) = 0)
        BY <4>1 DEF WindowInv, PlaceInv
      <4>2. ASSUME ~Graph, k = 2
            PROVE  taken'["idle"] = taken["idle"]
        BY <4>1, <4>2, <2>5 DEF Labels
      <4>3. ASSUME ~Graph, k = 2
            PROVE  pc' \notin {"before_fill", "idle", "prepare"}
        BY <4>1, <4>3, <2>1, <2>2, <2>3
      <4> QED BY <1>1, <4>1, <4>2, <4>3 DEF Graph
    <3> QED BY <3>1, <3>2, <3>6, <3>7, <3>8, <3>9 DEF PlaceInv
  <2>9. ResultInv' /\ VerifiedIsFresh'
    BY <1>1, <2>3, ResultsUntouched DEF WindowInv, VerifiedIsFresh
  <2>10. ASSUME NEW c \in Channels
         PROVE  FrameInv(c)'
    <3>1. FrameInv(c) /\ Base(c)' = Base(c) /\ Puts' = Puts /\ Slots' = Slots
      BY <1>1 DEF WindowInv, Base, Puts, Slots
    <3>2. pc # "after_launch" => frame'.before[c] = Puts[c] /\ (c \in rings => frame'.first[c] = ring[c])
      BY <1>1, <1>4, <1>7, <3>1, QuietFrame
    <3>3. CASE pc = "before_launch"
      <4>1. pc' # "judge" /\ Pre' = frame'
        BY <3>3, <2>1, <2>2, <2>5 DEF Pre
      <4>2. published = written /\ amount[c] = 0
        BY <3>3 DEF WindowInv, PlaceInv, Before
      <4>3. Base(c) = written[c]
        BY <4>2, WindowTypes
      <4>4. Put(Pre, c)' = Base(c)' % entries'
        BY <1>1, <3>1, <3>2, <3>3, <4>1, <4>2, <4>3 DEF Put, Puts
      <4>5. ~reuse /\ c \in rings => \A s \in Slots : frame'.first[c][s] <= Base(c)
        BY <3>2, <3>3, <4>3 DEF WindowInv, ChannelInv
      <4> QED BY <1>1, <3>1, <4>1, <4>4, <4>5 DEF FrameInv
    <3>4. CASE pc # "before_launch"
      <4>1. Pre' = Pre
        BY <3>4, <2>5 DEF Pre, Labels
      <4>2. pc' \in Launched => pc \in Launched
        BY <3>4, <2>1, <2>2, <2>3 DEF Launched
      <4>3. pc' = "judge" => pc = "settled" /\ taken'["settled"] = frame'
        BY <2>1, <2>2, <2>3, <2>5
      <4> QED BY <1>1, <3>1, <3>2, <4>1, <4>2, <4>3 DEF FrameInv, Put
    <3> QED BY <3>3, <3>4
  <2> QED BY <1>5, <2>7, <2>8, <2>9, <2>10 DEF WindowInv
<1> QED BY <1>6, <1>7

LEMMA PrepareKeeps ==
  ASSUME WindowInv, FramesInv', Prepare
  PROVE  WindowInv'
<1>1. /\ UNCHANGED <<entries, reuse, ring, rings, place, chan, at, frame, begun, mid>>
      /\ UNCHANGED <<mode, wrap, initial_put, calls, amount, made, edges, started,
                     previous_start, verified, k, taken>>
      /\ pc = "prepare" /\ pc' = (IF Graph THEN "before_launch" ELSE "idle")
      /\ published' = written'
  BY DEF Prepare, sampler, window, launch, graph
<1>2. PICK n \in 0..entries : written' = [written EXCEPT ![Active] = @ + n]
  BY DEF Prepare
<1>3. FramesTypeOK /\ FramesTypeOK' /\ ~Reading'
  BY <1>1 DEF FramesInv, ReadingInv, WindowInv, Reading, Labels
<1>4. calls = 0 /\ amount = [c \in Channels |-> 0] /\ made = {} /\ ~(~Graph /\ k = 2)
  BY <1>1 DEF WindowInv, PlaceInv, Before
<1>5. TypeOK'
  <2>1. pc' \in Labels
    BY <1>1 DEF Labels
  <2>2. Slots' = Slots /\ ApiCalls' = ApiCalls /\ Graph' = Graph
    BY <1>1 DEF Slots, ApiCalls, Graph
  <2> QED BY <1>1, <1>3, <2>1, <2>2 DEF WindowInv, TypeOK
<1>6. PlaceInv'
  BY <1>1, <1>3, <1>4 DEF WindowInv, PlaceInv, Graph, ApiCalls, Put
<1>7. ResultInv' /\ VerifiedIsFresh'
  BY <1>1, ResultsUntouched DEF WindowInv, VerifiedIsFresh
<1>8. ASSUME NEW c \in Channels
      PROVE  ChannelInv(c)' /\ FrameInv(c)'
  <2>1. written[c] \in Nat /\ written'[c] \in Nat /\ written[c] <= written'[c] /\ entries \in Nat \ {0}
    <3>1. written \in [Channels -> Nat] /\ written[c] \in Nat /\ entries \in Nat \ {0}
      BY WindowTypes DEF FramesTypeOK
    <3>2. n \in Nat
      BY <3>1
    <3> QED BY <1>2, <3>1, <3>2
  <2>2. ChannelInv(c) /\ Slots' = Slots
    BY <1>1 DEF WindowInv, Slots
  <2>3. amount'[c] = 0 /\ \A s : <<c, s>> \notin made'
    BY <1>1, <1>4
  <2>4. Base(c)' = written'[c] /\ (Base(c)..(written[c] - 1))' = {}
    BY <2>1, <2>3 DEF Base
  <2>5. ~reuse => \A s \in Slots : ring'[c][s] <= written'[c]
    <3> SUFFICES ASSUME ~reuse, NEW s \in Slots
                 PROVE  ring[c][s] <= written'[c]
      BY <1>1
    <3>1. ring[c][s] \in Nat /\ ring[c][s] <= written[c]
      BY <2>2, RingTypes DEF ChannelInv
    <3> QED BY <3>1, <2>1
  <2>6. ChannelInv(c)'
    BY <1>1, <2>1, <2>2, <2>3, <2>4, <2>5 DEF ChannelInv
  <2>7. FrameInv(c)'
    BY <1>1 DEF FrameInv, Launched
  <2> QED BY <2>6, <2>7
<1> QED BY <1>5, <1>6, <1>7, <1>8 DEF WindowInv

LEMMA CallKeeps ==
  ASSUME WindowInv, FramesInv', Call
  PROVE  WindowInv'
<1>1. /\ UNCHANGED <<entries, reuse, ring, written, published, rings, place, chan, at, frame, begun, mid>>
      /\ UNCHANGED <<mode, wrap, initial_put, amount, made, edges, started,
                     previous_start, verified, k, taken>>
      /\ pc = "call"
      /\ \/ calls' = calls + 1 /\ pc' = (IF calls' = ApiCalls THEN "after_launch" ELSE "call")
         \/ pc' = "failed" /\ calls' = calls
  BY DEF Call, memory, sampler, window, graph
<1>2. FramesTypeOK' /\ ~Reading'
  BY <1>1 DEF FramesInv, ReadingInv, WindowInv, Reading, Labels
<1>3. Slots' = Slots /\ ApiCalls' = ApiCalls /\ Graph' = Graph /\ ApiCalls \in Nat /\ calls \in Nat /\ calls < ApiCalls
  BY <1>1, CallsPositive DEF Slots, ApiCalls, Graph, WindowInv, PlaceInv, TypeOK
<1>4. calls' \in 0..ApiCalls /\ (pc' = "call" => calls' < ApiCalls)
  BY <1>1, <1>3
<1>5. TypeOK'
  <2>1. pc' \in Labels \union {"call", "failed"}
    BY <1>1 DEF Labels
  <2> QED BY <1>1, <1>2, <1>3, <1>4, <2>1 DEF WindowInv, TypeOK
<1>6. PlaceInv'
  BY <1>1, <1>2, <1>3, <1>4 DEF WindowInv, PlaceInv, Put, Before, Graph
<1>7. ResultInv' /\ VerifiedIsFresh'
  BY <1>1, ResultsUntouched DEF WindowInv, VerifiedIsFresh
<1>8. \A c \in Channels : ChannelInv(c)' /\ FrameInv(c)'
  BY <1>1, RingsUntouched, FramesUntouched DEF memory, Launched
<1> QED BY <1>5, <1>6, <1>7, <1>8 DEF WindowInv

LEMMA PauseKeeps ==
  ASSUME WindowInv, FramesInv', Pause
  PROVE  WindowInv'
<1>1. /\ UNCHANGED <<entries, reuse, ring, written, published, rings, place, chan, at, frame, begun, mid>>
      /\ UNCHANGED <<mode, wrap, initial_put, calls, amount, made, edges, started,
                     previous_start, verified, k, taken>>
      /\ pc = "pause" /\ pc' = "settled" /\ written = published
  BY DEF Pause, memory, sampler, window, launch, graph
<1>2. FramesTypeOK' /\ ~Reading'
  BY <1>1 DEF FramesInv, ReadingInv, WindowInv, Reading, Labels
<1>3. Slots' = Slots /\ ApiCalls' = ApiCalls /\ Graph' = Graph
  BY <1>1 DEF Slots, ApiCalls, Graph
<1>4. TypeOK'
  BY <1>1, <1>2, <1>3 DEF WindowInv, TypeOK, Labels
<1>5. PlaceInv'
  BY <1>1, <1>2, <1>3 DEF WindowInv, PlaceInv, Put, Before
<1>6. ResultInv' /\ VerifiedIsFresh'
  BY <1>1, ResultsUntouched DEF WindowInv, VerifiedIsFresh
<1>7. \A c \in Channels : ChannelInv(c)' /\ FrameInv(c)'
  BY <1>1, RingsUntouched, FramesUntouched DEF memory, Launched
<1> QED BY <1>4, <1>5, <1>6, <1>7 DEF WindowInv

\* An entry is added at the end of what the launch has written.
LEMMA WriteAdds ==
  ASSUME WindowInv, FramesTypeOK', NEW d \in Channels, WriteEntry(d),
         reuse \/ d \notin rings => amount[d] + 1 < entries,
         amount' = [amount EXCEPT ![d] = @ + 1],
         made' = made \union {<<d, written[d] % entries>>}, NEW c \in Channels
  PROVE  ChannelInv(c)' /\ Base(c)' = Base(c)
<1>1. /\ UNCHANGED <<entries, reuse, published, rings>>
      /\ written' = [written EXCEPT ![d] = @ + 1]
  BY DEF WriteEntry, sampler
<1>2. PICK value : /\ ring' = [ring EXCEPT ![d][written[d] % entries] = value]
                   /\ ~reuse => value = written[d] + 1
  <2>1. PICK value \in (IF reuse THEN {0, 1} ELSE {written[d] + 1}) :
          ring' = [ring EXCEPT ![d][written[d] % entries] = value]
    BY DEF WriteEntry
  <2> QED BY <2>1
<1>3. /\ written \in [Channels -> Nat] /\ amount \in [Channels -> Nat]
      /\ ring \in [Channels -> [Slots -> Nat]] /\ made \subseteq Channels \X Slots
      /\ Slots' = Slots /\ entries \in Nat \ {0}
  BY <1>1, WindowTypes DEF WindowInv, TypeOK, FramesTypeOK, Slots
<1>4. /\ ChannelInv(c) /\ amount[c] \in Nat /\ written[c] \in Nat
      /\ Base(c) \in Nat /\ written[c] = Base(c) + amount[c]
  BY WindowTypes DEF WindowInv
<1>5. written[d] % entries \in Slots
  BY RingTypes
<1>6. CASE c # d
  <2>1. written'[c] = written[c] /\ amount'[c] = amount[c] /\ ring'[c] = ring[c]
    BY <1>1, <1>2, <1>3, <1>6
  <2>2. \A s : <<c, s>> \in made' <=> <<c, s>> \in made
    BY <1>6
  <2> QED BY <1>1, <1>3, <1>4, <2>1, <2>2 DEF ChannelInv, Base
<1>7. CASE c = d
  <2>1. written'[c] = written[c] + 1 /\ amount'[c] = amount[c] + 1
    BY <1>1, <1>3, <1>7
  <2>2. Base(c)' = Base(c)
    BY <1>4, <2>1 DEF Base
  <2>3. amount'[c] <= written'[c] /\ (reuse \/ c \notin rings => amount'[c] < entries)
    BY <1>3, <1>4, <1>7, <2>1
  <2>4. ASSUME NEW s \in Slots
        PROVE  <<c, s>> \in made' <=> \E w \in Base(c)..(written'[c] - 1) : s = w % entries
    <3>1. <<c, s>> \in made <=> \E w \in Base(c)..(written[c] - 1) : s = w % entries
      BY <1>4 DEF ChannelInv
    <3>2. \A w : w \in Base(c)..(written'[c] - 1) <=> w \in Base(c)..(written[c] - 1) \/ w = written[c]
      BY <1>4, <2>1
    <3>3. <<c, s>> \in made' <=> <<c, s>> \in made \/ s = written[c] % entries
      BY <1>7
    <3> QED BY <3>1, <3>2, <3>3
  <2>5. ASSUME ~reuse, NEW s \in Slots
        PROVE  ring'[c][s] <= written'[c] /\ (<<c, s>> \in made' => ring'[c][s] > Base(c))
    <3>1. ring[c][s] \in Nat /\ ring[c][s] <= written[c] /\ (<<c, s>> \in made => ring[c][s] > Base(c))
      BY <1>3, <1>4, <2>5 DEF ChannelInv
    <3>2. CASE s = written[c] % entries
      <4>1. ring'[c][s] = written[c] + 1
        BY <1>2, <1>3, <1>7, <2>5, <3>2
      <4> QED BY <4>1, <1>4, <2>1
    <3>3. CASE s # written[c] % entries
      <4>1. ring'[c][s] = ring[c][s]
        BY <1>2, <1>3, <1>5, <1>7, <3>3
      <4>2. <<c, s>> \in made' => <<c, s>> \in made
        BY <1>7, <3>3
      <4> QED BY <4>1, <4>2, <3>1, <1>4, <2>1
    <3> QED BY <3>2, <3>3
  <2>6. ChannelInv(c)'
    <3>1. UNCHANGED <<entries, reuse, rings, Slots>> /\ Base(c)' = Base(c)
      BY <1>1, <1>3, <2>2
    <3>2. \A s \in Slots' : <<c, s>> \in made' <=> \E w \in Base(c)'..(written'[c] - 1) : s = w % entries'
      BY <3>1, <2>4
    <3>3. ~reuse' => \A s \in Slots' : ring'[c][s] <= written'[c] /\ (<<c, s>> \in made' => ring'[c][s] > Base(c)')
      BY <3>1, <2>5
    <3>4. amount'[c] <= written'[c] /\ (reuse' \/ c \notin rings' => amount'[c] < entries')
      BY <3>1, <2>3
    <3> QED BY <3>2, <3>3, <3>4 DEF ChannelInv
  <2> QED BY <2>2, <2>6
<1> QED BY <1>6, <1>7

LEMMA WorkKeeps ==
  ASSUME WindowInv, FramesInv', Work
  PROVE  WindowInv'
<1>1. /\ pc \in {"call", "after_launch", "pause"}
      /\ UNCHANGED <<mode, wrap, initial_put, calls, edges, started,
                     previous_start, verified, pc, k, taken>>
  BY DEF Work, window, graph
<1>2. PICK d \in Channels :
        \/ /\ WriteEntry(d)
           /\ reuse \/ d \notin rings => amount[d] + 1 < entries
           /\ amount' = [amount EXCEPT ![d] = @ + 1]
           /\ made' = made \union {<<d, written[d] % entries>>}
        \/ PublishPut(d) /\ UNCHANGED <<amount, made>>
  BY DEF Work
<1>3. UNCHANGED <<entries, reuse, rings, place, chan, at, frame, begun, mid>>
  BY <1>2 DEF WriteEntry, PublishPut, sampler
<1>4. FramesTypeOK' /\ (Reading' => pc = "after_launch")
  BY <1>1, <1>3 DEF FramesInv, ReadingInv, WindowInv, Reading, Labels
<1>5. Slots' = Slots /\ ApiCalls' = ApiCalls /\ Graph' = Graph /\ Pre' = Pre
  BY <1>1, <1>3 DEF Slots, ApiCalls, Graph, Pre
<1>6. amount' \in [Channels -> Nat] /\ made' \subseteq Channels \X Slots
  <2>1. amount \in [Channels -> Nat] /\ made \subseteq Channels \X Slots
    BY DEF WindowInv, TypeOK
  <2>2. written[d] % entries \in Slots
    BY RingTypes
  <2> QED BY <1>2, <2>1, <2>2
<1>7. TypeOK'
  BY <1>1, <1>3, <1>4, <1>5, <1>6 DEF WindowInv, TypeOK
<1>8. PlaceInv'
  BY <1>1, <1>3, <1>4, <1>5 DEF WindowInv, PlaceInv, Put, Before
<1>9. ResultInv' /\ VerifiedIsFresh'
  BY <1>1, ResultsUntouched DEF WindowInv, VerifiedIsFresh
<1>10. ASSUME NEW c \in Channels
       PROVE  ChannelInv(c)' /\ Base(c)' = Base(c)
  <2>1. CASE PublishPut(d) /\ UNCHANGED <<amount, made>>
    <3>1. UNCHANGED <<ring, written>>
      BY <2>1 DEF PublishPut
    <3> QED BY <2>1, <3>1, <1>3, <1>5 DEF WindowInv, ChannelInv, Base
  <2> QED BY <1>2, <1>4, <2>1, WriteAdds
<1>11. ASSUME NEW c \in Channels
       PROVE  FrameInv(c)'
  <2>1. FrameInv(c) /\ pc \in Launched /\ pc' # "judge"
    BY <1>1 DEF WindowInv, Launched
  <2> QED BY <2>1, <1>1, <1>3, <1>5, <1>10 DEF FrameInv, Put
<1> QED BY <1>7, <1>8, <1>9, <1>10, <1>11 DEF WindowInv

LEMMA CaptureKeeps ==
  ASSUME WindowInv, FramesInv', Capture
  PROVE  WindowInv'
<1>1. /\ UNCHANGED <<entries, reuse, ring, written, published, rings, place, chan, at, frame, begun, mid>>
      /\ UNCHANGED <<mode, wrap, initial_put, calls, amount, made, verified, k, taken>>
      /\ pc = "capture"
  BY DEF Capture, memory, sampler, window, launch
<1>2. PICK e \in [1..2 -> (1..3) \X (1..3)], order \in Orders(<<0, 1, 2, 3>>, {}) :
        /\ edges' = ToSet(e)
        /\ Verify(<<0, 1, 2, 3>>, order, 1)
        /\ pc' = IF Chain(e) /\ Fresh(<<0, 1, 2, 3>>) THEN "idle" ELSE "failed"
  BY DEF Capture
<1>3. FramesTypeOK' /\ ~Reading'
  BY <1>1 DEF FramesInv, ReadingInv, WindowInv, Reading, Labels
<1>4. Slots' = Slots /\ ApiCalls' = ApiCalls /\ Graph' = Graph /\ Graph
  BY <1>1 DEF Slots, ApiCalls, Graph, WindowInv, PlaceInv
<1>5. ToSet(order) \subseteq ToSet(<<0, 1, 2, 3>>)
  <2>1. PICK n \in 0..Len(<<0, 1, 2, 3>>) : order \in [1..n -> ToSet(<<0, 1, 2, 3>>)]
    BY <1>2, OrdersAre
  <2> QED BY <2>1 DEF ToSet
<1>6. /\ started' \in [0..3 -> 0..6] /\ previous_start' \in [0..3 -> 0..6]
      /\ pc' # "failed" => \A n \in 0..3 : started'[n] <= previous_start'[n]
  <2>1. /\ started \in [0..3 -> 0..6] /\ previous_start \in [0..3 -> 0..6]
        /\ \A n \in 0..3 : started[n] <= previous_start[n]
    BY <1>1 DEF WindowInv, TypeOK, ResultInv
  <2>2. pc' # "failed" => Fresh(<<0, 1, 2, 3>>)
    BY <1>2
  <2>3. ToSet(<<0, 1, 2, 3>>) \subseteq 0..3 /\ 1 \in 0..6
    BY NodeSets
  <2>4. /\ started' \in [0..3 -> 0..6] /\ previous_start' \in [0..3 -> 0..6]
        /\ Fresh(<<0, 1, 2, 3>>) => \A n \in 0..3 : started'[n] <= previous_start'[n]
    BY <1>2, <1>5, <2>1, <2>3, VerifyKeeps
  <2> QED BY <2>2, <2>4
<1>7. edges' \subseteq (1..3) \X (1..3)
  BY <1>2 DEF ToSet
<1>8. pc' # "failed" => {<<1, 2>>, <<2, 3>>} \subseteq edges'
  BY <1>2, ChainEdges
<1>9. pc' \in {"idle", "failed"}
  BY <1>2
<1>10. TypeOK'
  <2>1. pc' \in Labels \union {"failed"}
    BY <1>9 DEF Labels
  <2> QED BY <1>1, <1>3, <1>4, <1>6, <1>7, <2>1 DEF WindowInv, TypeOK
<1>11. PlaceInv'
  BY <1>1, <1>3, <1>4, <1>9 DEF WindowInv, PlaceInv, Before
<1>12. ResultInv' /\ VerifiedIsFresh'
  <2>1. VerifiedIsFresh'
    BY <1>1 DEF WindowInv, VerifiedIsFresh
  <2>2. ResultInv'
    BY <1>6, <1>8 DEF ResultInv
  <2> QED BY <2>1, <2>2
<1>13. \A c \in Channels : ChannelInv(c)' /\ FrameInv(c)'
  BY <1>1, <1>9, RingsUntouched, FramesUntouched DEF memory, Launched
<1> QED BY <1>10, <1>11, <1>12, <1>13 DEF WindowInv

LEMMA JudgeGraphKeeps ==
  ASSUME WindowInv, FramesInv', JudgeGraph
  PROVE  WindowInv'
<1>1. /\ UNCHANGED <<entries, reuse, ring, written, published, rings, place, chan, at, frame, begun, mid>>
      /\ UNCHANGED <<mode, wrap, initial_put, calls, amount, made, edges, k, taken>>
      /\ pc = "judge" /\ Graph
  BY DEF JudgeGraph, memory, sampler, window, launch
<1>2. FramesTypeOK' /\ ~Reading'
  BY <1>1 DEF FramesInv, ReadingInv, WindowInv, Reading, Labels
<1>3. Slots' = Slots /\ ApiCalls' = ApiCalls /\ Graph' = Graph
  BY <1>1 DEF Slots, ApiCalls, Graph
<1>4. k \in 1..5
  BY <1>1 DEF WindowInv, TypeOK
<1>5. \/ pc' \in {"rejected", "failed"} /\ UNCHANGED <<started, previous_start, verified>>
      \/ \E order \in Orders(Nodes(k), edges) :
           /\ Verify(Nodes(k), order, k + 1)
           /\ IF Fresh(Nodes(k)) THEN pc' = "next" /\ verified' = [case |-> k, order |-> order]
                                 ELSE pc' = "failed" /\ verified' = verified
  BY DEF JudgeGraph
<1>6. pc' \in {"rejected", "failed", "next"}
  BY <1>5
<1>7. PlaceInv'
  BY <1>1, <1>2, <1>3, <1>6 DEF WindowInv, PlaceInv, Before
<1>8. \A c \in Channels : ChannelInv(c)' /\ FrameInv(c)'
  BY <1>1, <1>6, RingsUntouched, FramesUntouched DEF memory, Launched
<1>9. /\ started \in [0..3 -> 0..6] /\ previous_start \in [0..3 -> 0..6]
      /\ verified.case \in 0..5 /\ verified.order \in Seq(0..3)
      /\ \A n \in 0..3 : started[n] <= previous_start[n]
      /\ {<<1, 2>>, <<2, 3>>} \subseteq edges
      /\ VerifiedIsFresh
  BY <1>1 DEF WindowInv, TypeOK, ResultInv
<1>10. /\ started' \in [0..3 -> 0..6] /\ previous_start' \in [0..3 -> 0..6]
       /\ verified'.case \in 0..5 /\ verified'.order \in Seq(0..3)
       /\ pc' # "failed" => \A n \in 0..3 : started'[n] <= previous_start'[n]
       /\ VerifiedIsFresh'
  <2>1. CASE UNCHANGED <<started, previous_start, verified>>
    BY <1>9, <2>1 DEF VerifiedIsFresh
  <2>2. ASSUME NEW order \in Orders(Nodes(k), edges), Verify(Nodes(k), order, k + 1),
               IF Fresh(Nodes(k)) THEN pc' = "next" /\ verified' = [case |-> k, order |-> order]
                                  ELSE pc' = "failed" /\ verified' = verified
        PROVE  /\ started' \in [0..3 -> 0..6] /\ previous_start' \in [0..3 -> 0..6]
               /\ verified'.case \in 0..5 /\ verified'.order \in Seq(0..3)
               /\ pc' # "failed" => \A n \in 0..3 : started'[n] <= previous_start'[n]
               /\ VerifiedIsFresh'
    <3>1. ToSet(Nodes(k)) \subseteq 0..3 /\ k + 1 \in 0..6
      BY <1>4, NodesOfCases, NodeSets
    <3>2. ToSet(order) \subseteq ToSet(Nodes(k))
      <4>1. PICK n \in 0..Len(Nodes(k)) : order \in [1..n -> ToSet(Nodes(k))]
        BY OrdersAre
      <4> QED BY <4>1 DEF ToSet
    <3>3. /\ started' \in [0..3 -> 0..6] /\ previous_start' \in [0..3 -> 0..6]
          /\ Fresh(Nodes(k)) => /\ \A n \in 0..3 : started'[n] <= previous_start'[n]
                                /\ ToSet(Nodes(k)) \subseteq ToSet(order)
      BY <1>9, <2>2, <3>1, <3>2, VerifyKeeps
    <3>4. CASE Fresh(Nodes(k))
      <4>1. order = Nodes(k) /\ order \in Seq(0..3)
        BY <1>4, <1>9, <3>3, <3>4, ChainOrder
      <4>2. verified' = [case |-> k, order |-> order]
        BY <2>2, <3>4
      <4>3. verified'.case = k /\ verified'.order = order
        BY <4>2
      <4> QED BY <1>4, <3>3, <3>4, <4>1, <4>3 DEF VerifiedIsFresh
    <3>5. CASE ~Fresh(Nodes(k))
      <4>1. pc' = "failed" /\ verified' = verified
        BY <2>2, <3>5
      <4> QED BY <1>9, <3>3, <4>1 DEF VerifiedIsFresh
    <3> QED BY <3>4, <3>5
  <2> QED BY <1>5, <2>1, <2>2
<1>11. TypeOK'
  BY <1>1, <1>2, <1>3, <1>6, <1>10 DEF WindowInv, TypeOK
<1>12. ResultInv'
  BY <1>1, <1>9, <1>10 DEF ResultInv
<1> QED BY <1>7, <1>8, <1>10, <1>11, <1>12 DEF WindowInv

LEMMA JudgeEntryKeeps ==
  ASSUME WindowInv, FramesInv', JudgeEntry
  PROVE  WindowInv'
<1>1. /\ UNCHANGED <<entries, reuse, ring, written, published, rings, place, chan, at, frame, begun, mid>>
      /\ UNCHANGED <<mode, wrap, initial_put, edges, started, previous_start, verified>>
      /\ pc = "judge" /\ ~Graph
  BY DEF JudgeEntry, memory, sampler, window, graph
<1>2. FramesTypeOK' /\ ~Reading'
  BY <1>1 DEF FramesInv, ReadingInv, WindowInv, Reading, Labels
<1>3. Slots' = Slots /\ Graph' = Graph
  BY <1>1 DEF Slots, Graph
<1>4. ResultInv' /\ VerifiedIsFresh'
  BY <1>1, ResultsUntouched DEF WindowInv, VerifiedIsFresh
<1>5. CASE pc' \in {"rejected", "captured"} /\ UNCHANGED <<launch, k, taken>>
  <2>1. UNCHANGED <<calls, amount, made, k, taken>>
    BY <1>5 DEF launch
  <2>2. TypeOK'
    BY <1>1, <1>2, <1>3, <1>5, <2>1 DEF WindowInv, TypeOK, ApiCalls
  <2>3. PlaceInv'
    BY <1>1, <1>2, <1>3, <1>5, <2>1 DEF WindowInv, PlaceInv, Before, Put
  <2>4. \A c \in Channels : ChannelInv(c)' /\ FrameInv(c)'
    BY <1>1, <1>5, <2>1, RingsUntouched, FramesUntouched DEF memory, Launched
  <2> QED BY <1>4, <2>2, <2>3, <2>4 DEF WindowInv
<1>6. CASE /\ Attributed /\ k # 2 /\ NextWindow
           /\ taken' = [taken EXCEPT !["idle"] = taken["settled"]]
           /\ pc' = "before_launch"
  <2>1. k = 1 /\ k' = 2 /\ calls' = 0 /\ amount' = [c \in Channels |-> 0] /\ made' = {}
    BY <1>1, <1>6 DEF WindowInv, TypeOK, NextWindow
  <2>2. taken' \in [Labels -> [before : [Channels -> Slots], after : [Channels -> Slots],
                      first : [Channels -> [Slots -> Nat]], second : [Channels -> [Slots -> Nat]]]]
    <3>1. taken \in [Labels -> [before : [Channels -> Slots], after : [Channels -> Slots],
                      first : [Channels -> [Slots -> Nat]], second : [Channels -> [Slots -> Nat]]]]
      BY DEF WindowInv, TypeOK
    <3>2. "settled" \in Labels
      BY DEF Labels
    <3> QED BY <1>6, <3>1, <3>2
  <2>3. TypeOK'
    <3>1. 0 \in 0..ApiCalls'
      BY <1>1, <1>3 DEF ApiCalls
    <3>2. pc' \in Labels /\ amount' \in [Channels -> Nat]
      BY <1>6, <2>1 DEF Labels
    <3>3. TypeOK /\ k' \in 1..(IF Graph' THEN 5 ELSE 2) /\ calls' \in 0..ApiCalls' /\ made' = {}
      BY <1>1, <1>3, <2>1, <3>1 DEF WindowInv
    <3> QED BY <1>1, <1>2, <1>3, <2>2, <3>2, <3>3 DEF TypeOK
  <2>4. wrap => Put(taken'["idle"], Active) = 0
    <3> SUFFICES ASSUME wrap
                 PROVE  Put(taken["settled"], Active) = 0
      BY <1>6 DEF WindowInv, TypeOK, Labels
    <3>1. /\ Put(taken["idle"], Active) = entries - 1
          /\ Same(taken["idle"], Pre) /\ Same(Post, taken["settled"])
          /\ Put(Post, Active) = (Put(Pre, Active) + 1) % entries
      BY <1>1, <1>6, <2>1 DEF Attributed, Wrapped
    <3>2. Put(taken["settled"], Active) = ((entries - 1) + 1) % entries
      BY <3>1 DEF Same, Put
    <3>3. entries \in Nat \ {0}
      BY WindowTypes
    <3>4. (entries * 1 + 0) % entries = 0
      BY <3>3, ModUnique
    <3>5. (entries - 1) + 1 = entries * 1 + 0
      BY <3>3
    <3> QED BY <3>2, <3>4, <3>5
  <2>5. PlaceInv'
    BY <1>1, <1>2, <1>3, <1>6, <2>1, <2>4 DEF WindowInv, PlaceInv, Before
  <2>6. ASSUME NEW c \in Channels
        PROVE  ChannelInv(c)' /\ FrameInv(c)'
    <3>1. written[c] \in Nat /\ entries \in Nat \ {0} /\ amount'[c] = 0 /\ \A s : <<c, s>> \notin made'
      BY <2>1, WindowTypes
    <3>2. (Base(c)..(written[c] - 1))' = {}
      BY <1>1, <3>1 DEF Base
    <3>3. ChannelInv(c)'
      BY <1>1, <1>3, <3>1, <3>2 DEF WindowInv, ChannelInv
    <3>4. FrameInv(c)'
      BY <1>6 DEF FrameInv, Launched
    <3> QED BY <3>3, <3>4
  <2> QED BY <1>4, <2>3, <2>5, <2>6 DEF WindowInv
<1> QED BY <1>5, <1>6 DEF JudgeEntry

LEMMA NextCaseKeeps ==
  ASSUME WindowInv, FramesInv', NextCase
  PROVE  WindowInv'
<1>1. /\ UNCHANGED <<entries, reuse, rings, place, chan, at, frame, begun, mid>>
      /\ UNCHANGED <<mode, wrap, initial_put, edges, started, previous_start, verified>>
      /\ pc = "next" /\ taken' = [l \in Labels |-> NoFrame(entries)]
  BY DEF NextCase, memory, sampler, window, graph
<1>2. FramesTypeOK' /\ FramesTypeOK /\ ~Reading' /\ Graph
  BY <1>1 DEF FramesInv, ReadingInv, WindowInv, Reading, Labels, PlaceInv
<1>3. Slots' = Slots /\ Graph' = Graph
  BY <1>1 DEF Slots, Graph
<1>4. ResultInv' /\ VerifiedIsFresh'
  BY <1>1, ResultsUntouched DEF WindowInv, VerifiedIsFresh
<1>5. taken' \in [Labels -> [before : [Channels -> Slots], after : [Channels -> Slots],
                    first : [Channels -> [Slots -> Nat]], second : [Channels -> [Slots -> Nat]]]]
  <2>1. NoFrame(entries) \in [before : [Channels -> Slots], after : [Channels -> Slots],
                    first : [Channels -> [Slots -> Nat]], second : [Channels -> [Slots -> Nat]]]
    BY <1>2, SizeTypes DEF NoFrame, Slots
  <2> QED BY <1>1, <2>1
<1>6. CASE k = Len(Cases)
  <2>1. UNCHANGED <<entries, reuse, ring, written, published, calls, amount, made, k>> /\ pc' = "captured"
    BY <1>6 DEF NextCase, memory, launch
  <2>2. TypeOK'
    BY <1>1, <1>2, <1>3, <1>5, <2>1 DEF WindowInv, TypeOK, ApiCalls
  <2>3. PlaceInv'
    BY <1>1, <1>2, <1>3, <2>1 DEF WindowInv, PlaceInv, Before
  <2>4. ASSUME NEW c \in Channels PROVE ChannelInv(c)' /\ FrameInv(c)'
    <3>1. ChannelInv(c)'
      BY <1>1, <2>1, RingsUntouched DEF memory
    <3>2. FrameInv(c)'
      BY <2>1 DEF FrameInv, Launched
    <3> QED BY <3>1, <3>2
  <2> QED BY <1>4, <2>2, <2>3, <2>4 DEF WindowInv
<1>7. CASE k # Len(Cases)
  <2>1. PICK p \in Slots : written' = [c \in Channels |-> p] /\ published' = written'
    BY <1>7 DEF NextCase
  <2>2. /\ ring' = [c \in Channels |-> [s \in Slots |-> 0]] /\ pc' = "idle"
        /\ k' = k + 1 /\ calls' = 0 /\ amount' = [c \in Channels |-> 0] /\ made' = {}
    BY <1>7 DEF NextCase, NextWindow
  <2>3. k \in 1..5 /\ k' \in 1..5
    <3>1. k \in 1..5 /\ Len(Cases) = 5
      BY <1>2 DEF WindowInv, TypeOK, Cases
    <3> QED BY <1>7, <2>2, <3>1
  <2>4. TypeOK'
    <3>1. 0 \in 0..ApiCalls'
      BY DEF ApiCalls
    <3>2. pc' \in Labels /\ amount' \in [Channels -> Nat]
      BY <2>2 DEF Labels
    <3> QED BY <1>1, <1>2, <1>3, <1>5, <2>2, <2>3, <3>1, <3>2 DEF WindowInv, TypeOK
  <2>5. PlaceInv'
    BY <1>1, <1>2, <1>3, <2>1, <2>2 DEF WindowInv, PlaceInv, Before
  <2>6. ASSUME NEW c \in Channels
        PROVE  ChannelInv(c)' /\ FrameInv(c)'
    <3>1. written'[c] = p /\ p \in Nat /\ entries \in Nat \ {0} /\ amount'[c] = 0
          /\ \A s : <<c, s>> \notin made'
      BY <1>2, <2>1, <2>2, SizeTypes
    <3>2. (Base(c)..(written[c] - 1))' = {}
      BY <3>1 DEF Base
    <3>3. \A s \in Slots : ring'[c][s] = 0 /\ ring'[c][s] <= written'[c]
      BY <2>2, <3>1
    <3>4. amount'[c] <= written'[c] /\ amount'[c] < entries /\ entries' = entries
      BY <1>1, <3>1
    <3>5. ChannelInv(c)'
      BY <1>3, <3>1, <3>2, <3>3, <3>4 DEF ChannelInv
    <3>6. FrameInv(c)'
      BY <2>2 DEF FrameInv, Launched
    <3> QED BY <3>5, <3>6
  <2> QED BY <1>4, <2>4, <2>5, <2>6 DEF WindowInv
<1> QED BY <1>6, <1>7

LEMMA StutterKeeps ==
  ASSUME WindowInv, FramesInv', UNCHANGED vars
  PROVE  WindowInv'
<1>1. /\ UNCHANGED <<entries, reuse, ring, written, published, rings, place, chan, at, frame, begun, mid>>
      /\ UNCHANGED <<mode, wrap, initial_put, calls, amount, made, edges, started, previous_start,
                     verified, pc, k, taken>>
  BY DEF vars, memory, sampler, window, launch, graph
<1>2. FramesTypeOK'
  BY DEF FramesInv, ReadingInv
<1>3. Slots' = Slots /\ Graph' = Graph /\ ApiCalls' = ApiCalls /\ Puts' = Puts /\ Reading' = Reading
  BY <1>1 DEF Slots, Graph, ApiCalls, Puts, Reading
<1>4. TypeOK'
  BY <1>1, <1>2, <1>3 DEF WindowInv, TypeOK
<1>5. Quiet' = Quiet
  BY <1>1, <1>3 DEF Quiet, BeforeRead, FirstRead, PastMid
<1>6. PlaceInv'
  BY <1>1, <1>3, <1>5 DEF WindowInv, PlaceInv, Put
<1>7. ResultInv' /\ VerifiedIsFresh'
  BY <1>1, ResultsUntouched DEF WindowInv, VerifiedIsFresh
<1>8. \A c \in Channels : ChannelInv(c)' /\ FrameInv(c)'
  BY <1>1, RingsUntouched, FramesUntouched DEF memory
<1> QED BY <1>4, <1>6, <1>7, <1>8 DEF WindowInv

LEMMA WindowInit == Init => WindowInv
<1> SUFFICES ASSUME Init PROVE WindowInv
  OBVIOUS
<1>1. FramesInv /\ FramesTypeOK
  BY FramesInit DEF FramesInv, ReadingInv
<1>2. PICK p \in Slots : written = [c \in Channels |-> p] /\ published = written
  BY DEF Init
<1>3. /\ mode \in {"gpfifo-entry", "graph-entry"} /\ wrap \in BOOLEAN
      /\ initial_put \in Slots /\ place = "done" /\ k = 1
      /\ rings = IF Graph THEN Channels ELSE {Active}
      /\ ring = [c \in Channels |-> [s \in Slots |-> 0]] /\ frame = NoFrame(entries)
      /\ taken = [l \in Labels |-> frame]
      /\ calls = 0 /\ amount = [c \in Channels |-> 0] /\ made = {} /\ edges = {}
      /\ started = [n \in 0..3 |-> 0] /\ previous_start = started
      /\ verified = [case |-> 0, order |-> <<>>]
  BY DEF Init
<1>4. /\ pc \in {"capture", "before_fill", "idle"}
      /\ pc = "capture" <=> Graph
  <2>1. pc = CASE Graph -> "capture" [] ~Graph /\ wrap -> "before_fill" [] OTHER -> "idle"
    BY DEF Init
  <2> QED BY <2>1
<1>5. TypeOK
  <2>1. pc \in Labels \union {"capture"}
    BY <1>4 DEF Labels
  <2>2. taken \in [Labels -> [before : [Channels -> Slots], after : [Channels -> Slots],
                    first : [Channels -> [Slots -> Nat]], second : [Channels -> [Slots -> Nat]]]]
    BY <1>1, <1>3 DEF FramesTypeOK
  <2>3. 0 \in 0..ApiCalls
    BY DEF ApiCalls
  <2>4. verified.case \in 0..5 /\ verified.order \in Seq(0..3)
    BY <1>3
  <2>5. /\ amount \in [Channels -> Nat] /\ started \in [0..3 -> 0..6] /\ previous_start \in [0..3 -> 0..6]
        /\ made \subseteq Channels \X Slots /\ edges \subseteq (1..3) \X (1..3)
        /\ k \in 1..(IF Graph THEN 5 ELSE 2) /\ calls \in 0..ApiCalls
    BY <1>3, <2>3
  <2> QED BY <1>1, <1>3, <2>1, <2>2, <2>4, <2>5 DEF TypeOK
<1>6. PlaceInv
  BY <1>2, <1>3, <1>4 DEF PlaceInv, Reading
<1>7. ResultInv /\ VerifiedIsFresh
  BY <1>3, <1>4 DEF ResultInv, VerifiedIsFresh
<1>8. ASSUME NEW c \in Channels
      PROVE  ChannelInv(c) /\ FrameInv(c)
  <2>1. written[c] = p /\ p \in Nat /\ entries \in Nat \ {0} /\ amount[c] = 0
        /\ \A s : <<c, s>> \notin made
    BY <1>1, <1>2, <1>3, SizeTypes
  <2>2. Base(c)..(written[c] - 1) = {}
    BY <2>1 DEF Base
  <2>3. ChannelInv(c)
    BY <1>3, <2>1, <2>2 DEF ChannelInv
  <2>4. FrameInv(c)
    BY <1>4 DEF FrameInv, Launched
  <2> QED BY <2>3, <2>4
<1> QED BY <1>1, <1>5, <1>6, <1>7, <1>8 DEF WindowInv

LEMMA WindowStep == WindowInv /\ [Next]_vars => WindowInv'
<1> SUFFICES ASSUME WindowInv, [Next]_vars PROVE WindowInv'
  OBVIOUS
<1>1. FramesInv'
  BY FramesStep DEF WindowInv
<1>2. CASE Capture
  BY <1>1, <1>2, CaptureKeeps
<1>3. CASE StartFrame
  BY <1>1, <1>3, StartFrameKeeps
<1>4. CASE TakeWord
  BY <1>1, <1>4, TakeWordKeeps
<1>5. CASE Prepare
  BY <1>1, <1>5, PrepareKeeps
<1>6. CASE Call
  BY <1>1, <1>6, CallKeeps
<1>7. CASE Work
  BY <1>1, <1>7, WorkKeeps
<1>8. CASE Pause
  BY <1>1, <1>8, PauseKeeps
<1>9. CASE JudgeEntry
  BY <1>1, <1>9, JudgeEntryKeeps
<1>10. CASE JudgeGraph
  BY <1>1, <1>10, JudgeGraphKeeps
<1>11. CASE NextCase
  BY <1>1, <1>11, NextCaseKeeps
<1>12. CASE Ended \/ UNCHANGED vars
  BY <1>1, <1>12, StutterKeeps DEF Ended
<1> QED
  BY <1>2, <1>3, <1>4, <1>5, <1>6, <1>7, <1>8, <1>9, <1>10, <1>11, <1>12 DEF Next

--------------------------------------------------------------------------------
(* The theorems about windows.                                              *)

\* The invariant of the windows: what each frame says, where the launch's entries
\* are, and what has been stamped.
THEOREM WindowsAreKept == Spec => []WindowInv
<1>1. Init => WindowInv
  BY WindowInit
<1>2. WindowInv /\ [Next]_vars => WindowInv'
  BY WindowStep
<1> QED BY <1>1, <1>2, PTL DEF Spec

\* The type of every variable.
THEOREM TypeCorrect == Spec => []TypeOK
<1>1. WindowInv => TypeOK
  BY DEF WindowInv
<1> QED BY <1>1, WindowsAreKept, PTL

\* An entry set that is accepted, and an isolated launch, are the entries that
\* libcuda wrote for the launch, and with --entry-wrap the last slot and the
\* first: whatever the ring size, the number of channels and of entries.
THEOREM AttributionHolds == Spec => []AttributionIsTrue
<1>1. WindowInv => AttributionIsTrue
  BY WindowImpliesEntries, WindowImpliesWrap DEF AttributionIsTrue
<1> QED BY <1>1, WindowsAreKept, PTL

\* A case with a result file has run each of its kernels since its own launch, in
\* the order of its chain.
THEOREM VerifiedHolds == Spec => []VerifiedIsFresh
<1>1. WindowInv => VerifiedIsFresh
  BY DEF WindowInv
<1> QED BY <1>1, WindowsAreKept, PTL

================================================================================
