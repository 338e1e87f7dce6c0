------------------------------- MODULE RingFrames -------------------------------
(****************************************************************************)
(* The rings of a channel group, as libcuda writes them and as              *)
(* userd_observer_ring_sample and userd_observer_ring_set_sample            *)
(* (src/src/userd_observer.cpp) read them: one word after the other, while  *)
(* libcuda goes on.  StableFrame is stable_frame of                         *)
(* src/scripts/analyze_gpfifo_entry.py, which decides afterwards whether    *)
(* such a reading may be taken for the state of the rings.                  *)
(*                                                                          *)
(* A channel's PUT counts the entries made public, modulo the ring size.    *)
(* An entry is opaque: two of them are equal or not.                        *)
(****************************************************************************)
EXTENDS Integers

CONSTANTS Count,  \* channels in the group
          Sizes   \* ring sizes, the same for all channels of a run

ASSUME CountAssumption == Count \in Nat \ {0}
ASSUME SizesAssumption == Sizes \subseteq Nat \ {0, 1}

VARIABLES
  entries,    \* the ring size
  reuse,      \* whether an entry may equal the one it replaces
  ring,       \* what is in each slot
  written,    \* entries written to each ring
  published,  \* entries covered by its PUT
  rings,      \* the channels whose rings are read
  place, chan, at,  \* the next word to read
  frame,      \* the words read
  begun,      \* written and published when the frame was begun
  mid         \* each ring, with all PUTs, between its two readings

memory == <<entries, reuse, ring, written, published>>
sampler == <<rings, place, chan, at, frame, begun, mid>>

Channels == 0..(Count - 1)

Slots == 0..(entries - 1)

\* Faulty: PUT never wraps.
PutsUnwrapped == [c \in Channels |-> published[c]]

Puts == [c \in Channels |-> published[c] % entries]

--------------------------------------------------------------------------------
(* libcuda.                                                                 *)

Reading == place # "done"

\* libcuda fills the slot at the end of what it has written.  The ring is never
\* full, and a frame is read before a ring's worth of entries has been added.
WriteEntry(c) ==
  /\ written[c] - published[c] < entries - 1
  /\ Reading => written[c] + 1 < begun.written[c] + entries
  /\ \E value \in IF reuse THEN {0, 1} ELSE {written[c] + 1} :
       ring' = [ring EXCEPT ![c][written[c] % entries] = value]
  /\ written' = [written EXCEPT ![c] = @ + 1]
  /\ UNCHANGED <<entries, reuse, published, sampler>>

\* PUT is moved past everything written.
PublishPut(c) ==
  /\ published[c] < written[c]
  /\ Reading => written[c] < begun.published[c] + entries
  /\ published' = [published EXCEPT ![c] = written[c]]
  /\ UNCHANGED <<entries, reuse, ring, written, sampler>>

--------------------------------------------------------------------------------
(* A frame.                                                                 *)

NoFrame(n) ==
  [before |-> [c \in Channels |-> 0], after |-> [c \in Channels |-> 0],
   first  |-> [c \in Channels |-> [s \in 0..(n - 1) |-> 0]],
   second |-> [c \in Channels |-> [s \in 0..(n - 1) |-> 0]]]

NoMid(n) ==
  [c \in Channels |-> [ring |-> [s \in 0..(n - 1) |-> 0], puts |-> [d \in Channels |-> 0]]]

BeginFrame ==
  /\ place = "done"
  /\ place' = "before" /\ chan' = 0 /\ at' = 0
  /\ frame' = NoFrame(entries)
  /\ begun' = [written |-> written, published |-> published]
  /\ mid' = NoMid(entries)
  /\ UNCHANGED <<memory, rings>>

\* The lambda userd: PUT of every channel, before and after the rings.
ReadPut ==
  /\ place \in {"before", "after"}
  /\ frame' = [frame EXCEPT ![place][chan] = Puts[chan]]
  /\ IF chan + 1 < Count
     THEN chan' = chan + 1 /\ UNCHANGED place
     ELSE /\ place' = IF place = "before" THEN "first" ELSE "done"
          /\ chan' = 0
  /\ UNCHANGED <<memory, rings, at, begun, mid>>

\* A channel whose ring is not read.
SkipRing ==
  /\ place = "first" /\ chan \notin rings
  /\ IF chan + 1 < Count THEN chan' = chan + 1 /\ UNCHANGED place
                         ELSE chan' = 0 /\ place' = "after"
  /\ UNCHANGED <<memory, rings, at, frame, begun, mid>>

ReadSlot ==
  /\ place \in {"first", "second"} /\ chan \in rings
  /\ frame' = [frame EXCEPT ![place][chan][at] = ring[chan][at]]
  /\ IF at + 1 < entries
     THEN at' = at + 1 /\ UNCHANGED <<place, chan, mid>>
     ELSE /\ at' = 0
          /\ IF place = "first"
             THEN /\ place' = "second" /\ UNCHANGED chan
                  /\ mid' = [mid EXCEPT ![chan] = [ring |-> ring[chan], puts |-> Puts]]
             ELSE /\ IF chan + 1 < Count THEN chan' = chan + 1 /\ place' = "first"
                                         ELSE chan' = 0 /\ place' = "after"
                  /\ UNCHANGED mid
  /\ UNCHANGED <<memory, rings, begun>>

ReadWord == ReadPut \/ SkipRing \/ ReadSlot

--------------------------------------------------------------------------------
(* Faulty variants of StableFrame, used by no specification.                *)

\* The rings are compared, but not the PUTs around them.
StableRings(f) == \A c \in rings : f.first[c] = f.second[c]

\* The PUTs are compared, but not the two readings of a ring.
StablePuts(f) == f.before = f.after

\* stable_frame, for every ring of a set.
StableFrame(f) ==
  /\ \A c \in rings : f.first[c] = f.second[c]
  /\ f.before = f.after

\* A stable frame is, for each ring, the ring and all PUTs as they were at one
\* instant: reading words one by one, while entries are written and made public,
\* does not show a mixture.
FramesAreInstants ==
  place = "done" /\ StableFrame(frame) =>
    \A c \in rings : mid[c] = [ring |-> frame.first[c], puts |-> frame.before]

FramesTypeOK ==
  /\ entries \in Sizes
  /\ reuse \in BOOLEAN
  /\ ring \in [Channels -> [Slots -> Nat]]
  /\ written \in [Channels -> Nat]
  /\ published \in [Channels -> Nat]
  /\ rings \subseteq Channels
  /\ place \in {"before", "first", "second", "after", "done"}
  /\ chan \in Channels
  /\ at \in Slots
  /\ frame \in [before : [Channels -> Slots], after : [Channels -> Slots],
                first : [Channels -> [Slots -> Nat]], second : [Channels -> [Slots -> Nat]]]
  /\ begun \in [written : [Channels -> Nat], published : [Channels -> Nat]]
  /\ mid \in [Channels -> [ring : [Slots -> Nat], puts : [Channels -> Slots]]]

================================================================================
