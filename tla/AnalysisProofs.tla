---------------------------- MODULE AnalysisProofs -----------------------------
(****************************************************************************)
(* Proofs about what is concluded from the records.                         *)
(*                                                                          *)
(* ClockEstimate: the estimate of B's start is sound for any number of      *)
(* tries, any clocks and any drift of their offset in one direction.  First *)
(* the arithmetic of estimate_start by itself, then the invariant that puts *)
(* every measurement under it.                                              *)
(*                                                                          *)
(* MappingBinding: an address that is resolved shows what it is taken for,  *)
(* for any set-up, any calls in between and any number of them.  First what *)
(* a call does to each part of the system, then that by the row it leaves.  *)
(* The invariant says what a row tells of the system while no later row     *)
(* takes it back; the conditions of resolve_channel and resolve_ring are    *)
(* that none does.                                                          *)
(****************************************************************************)
EXTENDS ClockEstimate, MappingBinding, FiniteSetTheorems, WellFoundedInduction, TLAPS

\* The offset of the clocks when the kernel of measurement m began.
Off(m) == m.began - m.gpu_ns

\* The start lies between launch and completion.
Bracketed(m) == m.before <= m.began /\ m.began <= m.after

\* From offset x to offset y the clocks drifted the way they drift.
Along(x, y) ==
  /\ direction = 1 => x <= y
  /\ direction = -1 => y <= x
  /\ direction = 0 \/ drift = 0 => x = y

\* n began after m; m began before now.
Precedes(m, n) == m.gpu_ns <= n.gpu_ns /\ Along(Off(m), Off(n))
Past(m)        == m.gpu_ns <= gpu /\ Along(Off(m), cpu - gpu)

--------------------------------------------------------------------------------
(* The arithmetic.                                                          *)

\* The bounded interval contains the start, if its offset lies between those of
\* two bracketed anchors.
LEMMA EnvelopeContainsStart ==
  ASSUME NEW p \in Measurement, NEW b \in Measurement, NEW q \in Measurement,
         Bracketed(p), Bracketed(b), Bracketed(q),
         \/ Off(p) <= Off(b) /\ Off(b) <= Off(q)
         \/ Off(q) <= Off(b) /\ Off(b) <= Off(p)
  PROVE  bounded_low(p, b, q) <= b.began /\ b.began <= bounded_high(p, b, q)
<1> USE DEF Measurement, Bracketed, Off
<1>1. lowestOffset(p, q) \in Int /\ lowestOffset(p, q) <= Off(b)
  BY DEF lowestOffset, low, Lesser
<1>2. highestOffset(p, q) \in Int /\ Off(b) <= highestOffset(p, q)
  BY DEF highestOffset, high, Greater
<1> QED
  BY <1>1, <1>2 DEF bounded_low, bounded_high, Lesser, Greater

\* Two bracketed anchors of the same offset are consistent.
LEMMA SameOffsetConsistent ==
  ASSUME NEW p \in Measurement, NEW q \in Measurement,
         Bracketed(p), Bracketed(q), Off(p) = Off(q)
  PROVE  consistent(p, q)
BY DEF Measurement, Bracketed, Off, consistent, low, high, Lesser, Greater

--------------------------------------------------------------------------------
(* The invariant.                                                           *)

\* Every completed measurement is bracketed and in the past; an empty one is
\* recognised by its completion time.
MeasuredInv ==
  /\ cpu >= 1
  /\ \A m \in {pre, sample, post} : Bracketed(m) /\ (m.after # 0 => Past(m))
  /\ place # "idle" => run.before <= cpu
  /\ place = "started" => run.before <= run.began /\ run.began <= cpu /\ Past(run)

\* The measurements follow one another.
OrderInv ==
  /\ phase # "pre" => pre.after # 0
  /\ phase \in {"post", "done"} => sample.after # 0 /\ Precedes(pre, sample)
  /\ phase \in {"pre", "b"} => post.after = 0
  /\ phase = "done" => post.after # 0
  /\ post.after # 0 => Precedes(sample, post)
  /\ place = "started" /\ phase = "b" => Precedes(pre, run)
  /\ place = "started" /\ phase = "post" => Precedes(sample, run)

IInv == TypeOK /\ MeasuredInv /\ OrderInv

USE TriesAssumption, BoundsAssumption
USE DEF Measurement, Empty, moreTries

LEMMA IInvInit == Init => IInv
BY DEF Init, IInv, TypeOK, MeasuredInv, OrderInv, Bracketed

\* Time passes: what is past stays past.
LEMMA ClocksIInv == ASSUME IInv, Tick \/ Drift PROVE IInv'
<1> USE DEF IInv, TypeOK, MeasuredInv, OrderInv, measured
<1>1. CASE Tick
  BY <1>1 DEF Tick, Past, Precedes, Along, Off, Bracketed
<1>2. CASE Drift
  BY <1>2 DEF Drift, Past, Precedes, Along, Off, Bracketed
<1> QED
  BY <1>1, <1>2

LEMMA LaunchIInv == ASSUME IInv, Launch PROVE IInv'
BY DEF IInv, TypeOK, MeasuredInv, OrderInv, Launch, Past, Precedes, Along, Off, Bracketed

\* A kernel that starts now starts after everything that is past.
LEMMA StartIInv == ASSUME IInv, Start PROVE IInv'
<1> USE DEF IInv, Start
<1>1. TypeOK'
  BY DEF TypeOK
<1>2. run'.gpu_ns = gpu /\ run'.began = cpu /\ run'.before = run.before
  BY DEF TypeOK
<1>3. MeasuredInv'
  BY <1>2 DEF TypeOK, MeasuredInv, Past, Along, Off, Bracketed
<1>4. OrderInv'
  BY <1>2 DEF TypeOK, MeasuredInv, OrderInv, Past, Precedes, Along, Off
<1> QED
  BY <1>1, <1>3, <1>4

LEMMA CompleteIInv == ASSUME IInv, Complete PROVE IInv'
<1> USE DEF IInv, TypeOK, MeasuredInv, OrderInv
<1> DEFINE done == [run EXCEPT !.after = cpu]
<1>1. done \in Measurement /\ done.after = cpu /\ done.after # 0 /\ Bracketed(done)
      /\ done.gpu_ns = run.gpu_ns /\ Off(done) = Off(run) /\ place = "started"
  BY DEF Complete, Bracketed, Off
<1>2. CASE phase = "pre"
  <2>1. pre' \in {pre, done} /\ pre'.after # 0
    BY <1>1, <1>2 DEF Complete, Keep, better
  <2>2. TypeOK'
    BY <1>1, <1>2, <2>1 DEF Complete
  <2>3. MeasuredInv'
    BY <1>1, <1>2, <2>1 DEF Complete, Past, Along, Off, Bracketed
  <2>4. OrderInv'
    BY <1>1, <1>2, <2>1 DEF Complete, Precedes, Along, Off
  <2> QED
    BY <2>2, <2>3, <2>4
<1>3. CASE phase = "b"
  BY <1>1, <1>3 DEF Complete, Past, Precedes, Along, Off, Bracketed
<1>4. CASE phase = "post"
  <2>1. post' \in {post, done} /\ post'.after # 0
    BY <1>1, <1>4 DEF Complete, Keep, better
  <2>2. TypeOK'
    BY <1>1, <1>4, <2>1 DEF Complete
  <2>3. MeasuredInv'
    BY <1>1, <1>4, <2>1 DEF Complete, Past, Along, Off, Bracketed
  <2>4. OrderInv'
    BY <1>1, <1>4, <2>1 DEF Complete, Precedes, Along, Off
  <2> QED
    BY <2>2, <2>3, <2>4
<1> QED
  BY <1>2, <1>3, <1>4 DEF Complete

LEMMA IInvNext == IInv /\ [Next]_vars => IInv'
<1> SUFFICES ASSUME IInv, [Next]_vars PROVE IInv'
  OBVIOUS
<1>1. CASE Next
  BY <1>1, ClocksIInv, LaunchIInv, StartIInv, CompleteIInv DEF Next
<1>2. CASE UNCHANGED vars
  BY <1>2 DEF vars, IInv, TypeOK, MeasuredInv, OrderInv, Past, Precedes, Along, Off,
     Bracketed
<1> QED
  BY <1>1, <1>2

\* The inductive invariant.
THEOREM Inductive == Spec => []IInv
BY IInvInit, IInvNext, PTL DEF Spec

--------------------------------------------------------------------------------

\* The type of every variable.
THEOREM TypeCorrect == Spec => []TypeOK
<1>1. IInv => TypeOK
  BY DEF IInv
<1> QED BY <1>1, Inductive, PTL

\* estimate_start: B's true start lies in the reported interval.
THEOREM EstimateIsSound == Spec => []EnvelopeSound
<1>1. ASSUME IInv, phase = "done"
      PROVE  /\ bounded_low(pre, sample, post) <= sample.began
             /\ sample.began <= bounded_high(pre, sample, post)
  <2>1. Precedes(pre, sample) /\ Precedes(sample, post)
    BY <1>1 DEF IInv, OrderInv
  <2>2. \/ Off(pre) <= Off(sample) /\ Off(sample) <= Off(post)
        \/ Off(post) <= Off(sample) /\ Off(sample) <= Off(pre)
    BY <1>1, <2>1 DEF IInv, TypeOK, Precedes, Along, Off
  <2> QED
    BY <1>1, <2>2, EnvelopeContainsStart DEF IInv, TypeOK, MeasuredInv
<1>2. IInv => EnvelopeSound
  BY <1>1 DEF EnvelopeSound
<1> QED
  BY <1>2, Inductive, PTL

\* Clocks of constant offset are never taken for inconsistent ones.
THEOREM EstimateIsNotWithheld == Spec => []ConstantOffsetAccepted
<1>1. ASSUME IInv, phase = "done", drift = 0
      PROVE  start_est_valid(pre, sample, post)
  <2>1. Precedes(pre, sample) /\ Precedes(sample, post)
    BY <1>1 DEF IInv, OrderInv
  <2>2. Off(pre) = Off(sample) /\ Off(sample) = Off(post)
    BY <1>1, <2>1 DEF Precedes, Along
  <2>3. consistent(pre, post)
    BY <1>1, <2>2, SameOffsetConsistent DEF IInv, TypeOK, MeasuredInv
  <2>4. /\ bounded_low(pre, sample, post) <= sample.began
        /\ sample.began <= bounded_high(pre, sample, post)
    BY <1>1, <2>2, EnvelopeContainsStart DEF IInv, TypeOK, MeasuredInv, Off
  <2>5. bounded_low(pre, sample, post) \in Int /\ bounded_high(pre, sample, post) \in Int
    BY <1>1 DEF IInv, TypeOK, bounded_low, bounded_high, lowestOffset, highestOffset,
       low, high, Lesser, Greater
  <2> QED
    BY <1>1, <2>1, <2>3, <2>4, <2>5 DEF IInv, TypeOK, Precedes, start_est_valid
<1>2. IInv => ConstantOffsetAccepted
  BY <1>1 DEF ConstantOffsetAccepted
<1> QED
  BY <1>2, Inductive, PTL

--------------------------------------------------------------------------------
(* The least and the greatest of a bounded set.                             *)

\* A set of naturals has a least one.
LEMMA LeastExists ==
  ASSUME NEW D \in SUBSET Nat, D # {}
  PROVE  \E x \in D : \A y \in D : x <= y
<1> DEFINE Less == OpToRel(<, Nat)
<1>1. IsWellFoundedOn(Less, Nat)
  BY NatLessThanWellFounded
<1>2. \A x, y \in Nat : x < y => <<x, y>> \in Less
  BY DEF OpToRel
<1> HIDE DEF Less
<1>3. PICK x \in D : \A y \in D : <<y, x>> \notin Less
  BY <1>1, WFMin
<1>4. SUFFICES ASSUME NEW y \in D PROVE x <= y
  BY <1>3
<1>5. x \in Nat /\ y \in Nat
  BY <1>3
<1>6. ~(y < x)
  BY <1>2, <1>3, <1>5
<1> QED  BY <1>5, <1>6

\* Min of a set of naturals.
LEMMA MinIsLeast ==
  ASSUME NEW D \in SUBSET Nat, D # {}
  PROVE  Min(D) \in D /\ \A y \in D : Min(D) <= y
BY LeastExists DEF Min

\* Max of a set of places.
LEMMA MaxIsGreatest ==
  ASSUME NEW n \in Nat, NEW D \in SUBSET (1..n), D # {}
  PROVE  Max(D) \in D /\ \A y \in D : Max(D) >= y
<1> DEFINE E == {n - x : x \in D}
<1>0. \A x \in D : x \in 1..n
  OBVIOUS
<1>1. E \in SUBSET Nat /\ E # {}
  <2>1. \A x \in D : n - x \in Nat
    BY <1>0
  <2> QED  BY <2>1
<1>2. PICK e \in E : \A y \in E : e <= y
  <2> HIDE DEF E
  <2> QED  BY <1>1, LeastExists
<1>3. PICK x \in D : e = n - x
  OBVIOUS
<1>4. ASSUME NEW y \in D PROVE x >= y
  <2>1. n - x <= n - y
    BY <1>2, <1>3
  <2> QED  BY <1>0, <2>1
<1> QED  BY <1>3, <1>4 DEF Max

--------------------------------------------------------------------------------
(* What a row does, if it tells of a call that was successful.              *)

Gives(r, h) == r.ok /\ r.kind \in {"alloc", "alloc_memory"} /\ r.call.object = h
Frees(r, h) == r.ok /\ r.kind = "free" /\ r.call.object = h

\* The row attaches the memory object to a file.
Attaches(r, mem) == r.ok /\ r.kind = "map_memory" /\ r.call.memory = mem

\* The file is mapped, closed or attached to something.
UsesFile(r, fd) ==
  \/ r.kind \in {"close", "mmap"} /\ r.call.fd = fd
  \/ r.ok /\ r.kind \in {"map_memory", "alloc_memory"} /\ r.call.map_fd = fd

\* What the call c has mapped of the memory object may be gone.
Spoils(r, c, mem) ==
  /\ r.ok
  /\ \/ r.kind = "unmap_memory" /\ r.call.memory = mem
     \/ /\ r.kind \in {"munmap", "mremap"} \/ (r.kind = "mmap" /\ r.call.fixed)
        /\ Overlaps(c.address, c.length, r.call.address, r.call.length)
     \/ /\ r.kind = "mremap"
        /\ Overlaps(c.address, c.length, r.call.new_address, r.call.length)

\* The channel is no longer registered.
Releases(r) ==
  /\ r.ok
  /\ \/ r.kind \in {"uvm_unregister_vaspace", "uvm_unregister_channel"}
     \/ r.kind = "close" /\ r.call.fd = "uvm"

HoldsRing(c) == c.base <= Ring /\ Ring < c.base + c.length

\* What the call c has mapped at the ring's address may be gone.
SpoilsRing(r, c) ==
  /\ r.ok
  /\ \/ r.kind \in {"uvm_ioctl", "uvm_unregister_vaspace"}
     \/ r.kind = "close" /\ r.call.fd = "uvm"
     \/ r.kind = "uvm_free" /\ r.call.base = c.base
     \/ /\ r.kind \in {"uvm_unmap_external", "uvm_other_range", "uvm_map_external", "uvm_create_range"}
        /\ Overlaps(Ring, 1, r.call.base, r.call.length)

--------------------------------------------------------------------------------
(* The invariant.                                                           *)

Places == DOMAIN log

\* The object that row i has allocated has neither been freed nor replaced.
Lives(h, i) ==
  /\ i \in Places /\ Gives(log[i], h)
  /\ \A j \in Places : j > i => ~Gives(log[j], h) /\ ~Frees(log[j], h)

\* Row s attaches a memory object that lives.
Attached(mem, s) ==
  /\ s \in Places /\ Attaches(log[s], mem)
  /\ \E j \in Places : j < s /\ Lives(mem, j)

\* The first use of its file is row m, an mmap of all of it.
Mapped(s, m) ==
  /\ m \in Places /\ s < m
  /\ log[m].kind = "mmap" /\ log[m].ok
  /\ log[m].call.fd = log[s].call.map_fd /\ log[m].call.length = log[s].call.length
  /\ \A i \in Places : s < i /\ i < m => ~UsesFile(log[i], log[s].call.map_fd)

\* An object that lives has a generation, which no other has.
BornInv ==
  /\ \A h \in Handles : \A i \in Places : Lives(h, i) => sys.born[h] # 0
  /\ \A h, k \in Handles : h # k /\ sys.born[h] = sys.born[k] => sys.born[h] = 0

\* The USERD of the channel is in the memory it was allocated with.
UserdInv ==
  \A mem \in Memories : \A i, j \in Places :
    Lives("channel", i) /\ log[i].call.memory = mem /\ j < i /\ Lives(mem, j) =>
      sys.userd.gen = sys.born[mem] /\ sys.userd.off = log[i].call.offset

\* A file is attached to what the last row that uses it has attached it to.
ContextInv ==
  \A mem \in Memories : \A s \in Places :
    Attached(mem, s) /\ (\A i \in Places : i > s => ~UsesFile(log[i], log[s].call.map_fd)) =>
      sys.context[log[s].call.map_fd] =
        [gen |-> sys.born[mem], off |-> log[s].call.offset, length |-> log[s].call.length]

\* A mapping that nothing has spoilt shows the memory object from where it was
\* attached.
PageInv ==
  \A mem \in Memories : \A s, m \in Places :
    /\ Attached(mem, s) /\ Mapped(s, m)
    /\ \A i \in Places : i > m => ~Spoils(log[i], log[m].call, mem)
    => \A a \in Pages :
         log[m].call.address <= a /\ a < log[m].call.address + log[m].call.length =>
           /\ sys.page[a].gen = sys.born[mem]
           /\ sys.page[a].off = log[s].call.offset + a - log[m].call.address

\* A channel that was registered and not released is bound.
BoundInv ==
  \A i, c \in Places :
    /\ Lives("channel", i) /\ i < c
    /\ log[c].ok /\ log[c].kind = "uvm_register_channel"
    /\ \A k \in Places : k > c => ~Releases(log[k])
    => sys.bound = sys.born["channel"]

RegistersSpace(i) == log[i].ok /\ log[i].kind = "uvm_register_vaspace"

\* Channels are registered in an address space.
SpaceInv ==
  /\ sys.vaspace => \E i \in Places : RegistersSpace(i)
  /\ \A c \in Places :
       log[c].ok /\ log[c].kind = "uvm_register_channel" => \E i \in Places : i < c /\ RegistersSpace(i)

\* One range at most holds the ring.
RangesInv ==
  \A q, r \in sys.ranges :
    q[1] <= Ring /\ Ring < q[1] + q[2] /\ r[1] <= Ring /\ Ring < r[1] + r[2] => q = r

\* The GPU's page table shows what the last row about the ring's address has put there.
VaInv ==
  \A mem \in Memories : \A g \in Places :
    /\ log[g].ok /\ log[g].kind = "uvm_map_external" /\ HoldsRing(log[g].call)
    /\ log[g].call.memory = mem /\ \E j \in Places : j < g /\ Lives(mem, j)
    /\ \A i \in Places : i > g => ~SpoilsRing(log[i], log[g].call)
    => /\ sys.va[Ring].gen = sys.born[mem]
       /\ sys.va[Ring].off = log[g].call.offset + Ring - log[g].call.base
       /\ <<log[g].call.base, log[g].call.length>> \in sys.ranges

RowsInv ==
  /\ BornInv /\ UserdInv /\ ContextInv /\ PageInv
  /\ BoundInv /\ SpaceInv /\ RangesInv /\ VaInv

--------------------------------------------------------------------------------
(* The calls.                                                               *)

\* The calls that allocate an object.
Allocates(c) == c.request \in {"RM_ALLOC", "RM_ALLOC_MEMORY"}

\* The requests that clear the GPU's page table from base on.
Clears == {"UVM_UNMAP_EXTERNAL", "UVM_MAP_EXTERNAL_SPARSE", "UVM_ALLOC_SEMAPHORE_POOL"}

\* What each call names.
LEMMA CallFields ==
  ASSUME NEW c \in Call
  PROVE  /\ c.request \in DOMAIN Decoded \union KernelRequests \union {"close", "UVM_UNKNOWN"}
         /\ Allocates(c) => c.object \in Handles
         /\ c.request = "RM_ALLOC" /\ c.object = "channel" =>
              c.memory \in Memories /\ c.offset \in Nat
         /\ c.request = "RM_ALLOC_MEMORY" =>
              c.object \in Memories /\ c.map_fd \in Files /\ c.length \in Nat
         /\ c.request = "RM_FREE" => c.object \in Handles
         /\ c.request = "RM_MAP_MEMORY" =>
              c.memory \in Memories /\ c.map_fd \in Files /\ c.offset \in Nat /\ c.length \in Nat
         /\ c.request = "RM_UNMAP_MEMORY" => c.memory \in Memories
         /\ c.request \in KernelRequests => c.address \in Nat /\ c.length \in Nat
         /\ c.request = "mmap" => c.fd \in Files \union {"none"} /\ c.fixed \in BOOLEAN
         /\ c.request = "mremap" => c.new_address \in Nat
         /\ c.request = "close" => c.fd \in Files \union {"uvm"}
         /\ c.request \in Clears \union {"UVM_CREATE_EXTERNAL_RANGE", "UVM_FREE",
                                         "UVM_MAP_EXTERNAL_ALLOCATION"} =>
              c.base \in Nat /\ c.length \in Nat
         /\ c.request = "UVM_MAP_EXTERNAL_ALLOCATION" => c.memory \in Memories /\ c.offset \in Nat
BY BindingAssumption DEF Call, Decoded, KernelRequests, Allocates, Handles, Clears

\* The kind of a row tells the request.
LEMMA KindFacts ==
  ASSUME NEW c \in Call
  PROVE  /\ Kind(c) \in {"alloc", "alloc_memory"} <=> Allocates(c)
         /\ Kind(c) = "alloc_memory" <=> c.request = "RM_ALLOC_MEMORY"
         /\ Kind(c) = "free" <=> c.request = "RM_FREE"
         /\ Kind(c) = "map_memory" <=> c.request = "RM_MAP_MEMORY"
         /\ Kind(c) = "unmap_memory" <=> c.request = "RM_UNMAP_MEMORY"
         /\ Kind(c) = "mmap" <=> c.request = "mmap"
         /\ Kind(c) = "munmap" <=> c.request = "munmap"
         /\ Kind(c) = "mremap" <=> c.request = "mremap"
         /\ Kind(c) = "close" <=> c.request = "close"
         /\ Kind(c) = "uvm_register_vaspace" <=> c.request = "UVM_REGISTER_GPU_VASPACE"
         /\ Kind(c) = "uvm_unregister_vaspace" <=> c.request = "UVM_UNREGISTER_GPU_VASPACE"
         /\ Kind(c) = "uvm_register_channel" <=> c.request = "UVM_REGISTER_CHANNEL"
         /\ Kind(c) = "uvm_unregister_channel" <=> c.request = "UVM_UNREGISTER_CHANNEL"
         /\ Kind(c) = "uvm_create_range" <=> c.request = "UVM_CREATE_EXTERNAL_RANGE"
         /\ Kind(c) = "uvm_map_external" <=> c.request = "UVM_MAP_EXTERNAL_ALLOCATION"
         /\ Kind(c) \in {"uvm_unmap_external", "uvm_other_range"} <=> c.request \in Clears
         /\ Kind(c) = "uvm_free" <=> c.request = "UVM_FREE"
         /\ Kind(c) = "uvm_ioctl" <=> c.request = "UVM_UNKNOWN"
<1>1. c.request \in DOMAIN Decoded \union KernelRequests \union {"close", "UVM_UNKNOWN"}
  BY CallFields
<1> QED  BY <1>1 DEF Kind, Decoded, KernelRequests, Allocates, Clears

--------------------------------------------------------------------------------
(* The state.                                                               *)

Spot == [gen : Nat, off : Int, at : Nat \union {-1, -2}]
Attachment == [gen : Nat, off : Nat, length : Nat]

System ==
  [births : Nat, born : [Handles -> Nat], userd : Spot, context : [Files -> Attachment],
   page : [Pages -> Spot], vaspace : BOOLEAN, bound : Nat, ranges : SUBSET (Nat \X Nat),
   va : [Vas -> Spot]]

\* No generation has been given that is not an object's.
Given(s) ==
  /\ \A h \in Handles : s.born[h] <= s.births
  /\ s.userd.gen <= s.births /\ s.bound <= s.births
  /\ \A f \in Files : s.context[f].gen <= s.births
  /\ \A a \in Pages : s.page[a].gen <= s.births
  /\ \A x \in Vas : s.va[x].gen <= s.births

--------------------------------------------------------------------------------
(* What a successful call does to each part.                                *)

IsKernel(c) == c.request \in KernelRequests \/ (c.request = "close" /\ c.fd \in Files)

\* Whose effect it is.
LEMMA Whose ==
  ASSUME NEW c \in Call
  PROVE  \/ c.request \in RmRequests /\ Effect(c) = RmEffect(c)
         \/ c.request \notin RmRequests /\ IsKernel(c) /\ Effect(c) = KernelEffect(c)
         \/ c.request \notin RmRequests /\ ~IsKernel(c) /\ Effect(c) = UvmEffect(c)
BY DEF Effect, IsKernel, RmRequests, KernelRequests

\* Only an allocation or a free changes a birth.
LEMMA BornAfter ==
  ASSUME sys \in System, NEW c \in Call
  PROVE  /\ Effect(c).births = IF Allocates(c) THEN sys.births + 1 ELSE sys.births
         /\ Effect(c).born = IF Allocates(c) THEN [sys.born EXCEPT ![c.object] = sys.births + 1]
                             ELSE IF c.request = "RM_FREE" THEN [sys.born EXCEPT ![c.object] = 0]
                             ELSE sys.born
<1>1. CASE c.request \in RmRequests /\ Effect(c) = RmEffect(c)
  BY <1>1 DEF RmEffect, System, Allocates, RmRequests
<1>2. CASE c.request \notin RmRequests /\ IsKernel(c) /\ Effect(c) = KernelEffect(c)
  BY <1>2 DEF KernelEffect, System, Allocates, RmRequests, IsKernel, KernelRequests
<1>3. CASE c.request \notin RmRequests /\ ~IsKernel(c) /\ Effect(c) = UvmEffect(c)
  BY <1>3 DEF UvmEffect, System, Allocates, RmRequests
<1> QED  BY <1>1, <1>2, <1>3, Whose

\* The USERD is given to a channel with its memory.
LEMMA UserdAfter ==
  ASSUME sys \in System, NEW c \in Call
  PROVE  Effect(c).userd =
           IF Allocates(c) /\ c.object = "channel"
           THEN [gen |-> sys.born[c.memory], off |-> c.offset, at |-> -1] ELSE sys.userd
<1>1. CASE c.request \in RmRequests /\ Effect(c) = RmEffect(c)
  BY <1>1 DEF RmEffect, System, Allocates, RmRequests
<1>2. CASE c.request \notin RmRequests /\ IsKernel(c) /\ Effect(c) = KernelEffect(c)
  BY <1>2 DEF KernelEffect, System, Allocates, RmRequests, IsKernel, KernelRequests
<1>3. CASE c.request \notin RmRequests /\ ~IsKernel(c) /\ Effect(c) = UvmEffect(c)
  BY <1>3 DEF UvmEffect, System, Allocates, RmRequests
<1> QED  BY <1>1, <1>2, <1>3, Whose

\* What is attached to the files.
LEMMA ContextAfter ==
  ASSUME sys \in System, NEW c \in Call
  PROVE  Effect(c).context =
           CASE c.request = "RM_ALLOC_MEMORY" ->
                  [sys.context EXCEPT ![c.map_fd] = [gen |-> sys.births + 1, off |-> 0, length |-> c.length]]
             [] c.request = "RM_MAP_MEMORY" ->
                  [sys.context EXCEPT ![c.map_fd] =
                     [gen |-> sys.born[c.memory], off |-> c.offset, length |-> c.length]]
             [] c.request = "close" /\ c.fd \in Files -> [sys.context EXCEPT ![c.fd] = Unattached]
             [] OTHER -> sys.context
<1>1. CASE c.request \in RmRequests /\ Effect(c) = RmEffect(c)
  BY <1>1 DEF RmEffect, System, RmRequests
<1>2. CASE c.request \notin RmRequests /\ IsKernel(c) /\ Effect(c) = KernelEffect(c)
  BY <1>2 DEF KernelEffect, System, RmRequests, IsKernel, KernelRequests
<1>3. CASE c.request \notin RmRequests /\ ~IsKernel(c) /\ Effect(c) = UvmEffect(c)
  BY <1>3 DEF UvmEffect, System, RmRequests, IsKernel
<1> QED  BY <1>1, <1>2, <1>3, Whose

InRange(a, x, n) == x <= a /\ a < x + n

\* The pages a call replaces.
LEMMA PageAfter ==
  ASSUME sys \in System, NEW c \in Call, NEW a \in Pages
  PROVE  \/ Effect(c).page[a] = sys.page[a]
         \/ c.request = "RM_UNMAP_MEMORY" /\ sys.page[a].gen = sys.born[c.memory]
         \/ c.request \in KernelRequests /\ InRange(a, c.address, c.length)
         \/ c.request = "mremap" /\ InRange(a, c.new_address, c.length)
<1>0. a \in Nat
  BY BindingAssumption
<1>1. CASE c.request \in RmRequests /\ Effect(c) = RmEffect(c)
  BY <1>1 DEF RmEffect, System, RmRequests
<1>2. CASE c.request \notin RmRequests /\ IsKernel(c) /\ Effect(c) = KernelEffect(c)
  <2>1. CASE c.request = "close"
    BY <1>2, <2>1 DEF KernelEffect, System, IsKernel, KernelRequests
  <2>2. CASE c.request \in KernelRequests
    <3>1. c.address \in Nat /\ c.length \in Nat /\ (c.request = "mremap" => c.new_address \in Nat)
      BY <2>2, CallFields
    <3> QED  BY <1>0, <1>2, <2>2, <3>1 DEF KernelEffect, System, KernelRequests, Filled, InRange
  <2> QED  BY <1>2, <2>1, <2>2 DEF IsKernel
<1>3. CASE c.request \notin RmRequests /\ ~IsKernel(c) /\ Effect(c) = UvmEffect(c)
  BY <1>3 DEF UvmEffect, System, RmRequests
<1> QED  BY <1>1, <1>2, <1>3, Whose

\* An mmap shows what is attached to its file.
LEMMA MmapShows ==
  ASSUME sys \in System, NEW c \in Call, c.request = "mmap", c.fd \in Files,
         NEW a \in Pages, InRange(a, c.address, c.length)
  PROVE  /\ Effect(c).page[a].gen = sys.context[c.fd].gen
         /\ Effect(c).page[a].off = sys.context[c.fd].off + a - c.address
<1>1. a \in Nat /\ c.address \in Nat /\ c.length \in Nat
  BY BindingAssumption, CallFields DEF KernelRequests
<1>2. Effect(c) = KernelEffect(c)
  BY DEF Effect, RmRequests, KernelRequests
<1> QED  BY <1>1, <1>2 DEF KernelEffect, System, Filled, InRange

\* The address space, its channel and its ranges.
LEMMA SpaceAfter ==
  ASSUME sys \in System, NEW c \in Call
  PROVE  /\ Effect(c).vaspace = IF c.request = "UVM_REGISTER_GPU_VASPACE" THEN TRUE
                                ELSE IF \/ c.request = "UVM_UNREGISTER_GPU_VASPACE"
                                        \/ c.request = "close" /\ c.fd = "uvm"
                                     THEN FALSE ELSE sys.vaspace
         /\ Effect(c).bound =
              IF \/ c.request \in {"UVM_UNREGISTER_GPU_VASPACE", "UVM_UNREGISTER_CHANNEL"}
                 \/ c.request = "close" /\ c.fd = "uvm"
              THEN 0
              ELSE IF c.request = "UVM_REGISTER_CHANNEL" THEN sys.born["channel"] ELSE sys.bound
         /\ Effect(c).ranges =
              IF c.request = "close" /\ c.fd = "uvm" THEN {}
              ELSE IF c.request = "UVM_CREATE_EXTERNAL_RANGE" THEN sys.ranges \union {<<c.base, c.length>>}
              ELSE IF c.request = "UVM_FREE" THEN {r \in sys.ranges : r[1] # c.base}
              ELSE sys.ranges
<1>0. "uvm" \notin Files /\ (c.request = "close" => c.fd \in Files \union {"uvm"})
  BY CallFields, BindingAssumption
<1>1. CASE c.request \in RmRequests /\ Effect(c) = RmEffect(c)
  BY <1>1 DEF RmEffect, System, RmRequests
<1>2. CASE c.request \notin RmRequests /\ IsKernel(c) /\ Effect(c) = KernelEffect(c)
  BY <1>0, <1>2 DEF KernelEffect, System, RmRequests, IsKernel, KernelRequests
<1>3. CASE c.request \notin RmRequests /\ ~IsKernel(c) /\ Effect(c) = UvmEffect(c)
  <2> DEFINE leaves == c.request = "close" /\ c.fd = "uvm"
  <2>1. c.request = "close" => leaves
    BY <1>0, <1>3 DEF IsKernel
  <2>2. CASE c.request \in {"UVM_REGISTER_GPU_VASPACE", "UVM_UNREGISTER_GPU_VASPACE"}
    BY <1>3, <2>2 DEF UvmEffect, System
  <2>3. CASE c.request \in {"UVM_REGISTER_CHANNEL", "UVM_UNREGISTER_CHANNEL"}
    BY <1>3, <2>3 DEF UvmEffect, System
  <2>4. CASE c.request \in {"UVM_CREATE_EXTERNAL_RANGE", "UVM_FREE"}
    BY <1>3, <2>4 DEF UvmEffect, System
  <2>5. CASE c.request = "close"
    BY <1>3, <2>1, <2>5 DEF UvmEffect, System
  <2>6. CASE c.request \notin {"UVM_REGISTER_GPU_VASPACE", "UVM_UNREGISTER_GPU_VASPACE",
                             "UVM_REGISTER_CHANNEL", "UVM_UNREGISTER_CHANNEL",
                             "UVM_CREATE_EXTERNAL_RANGE", "UVM_FREE", "close"}
    BY <1>3, <2>6 DEF UvmEffect, System
  <2> QED  BY <2>2, <2>3, <2>4, <2>5, <2>6
<1> QED  BY <1>1, <1>2, <1>3, Whose

\* What a call may change of the GPU's page table.
LEMMA VaAfter ==
  ASSUME sys \in System, NEW c \in Call, NEW x \in Vas
  PROVE  \/ Effect(c).va[x] = sys.va[x]
         \/ c.request \in {"UVM_UNREGISTER_GPU_VASPACE", "UVM_UNKNOWN"}
         \/ c.request = "close" /\ c.fd = "uvm"
         \/ c.request \in Clears \union {"UVM_MAP_EXTERNAL_ALLOCATION"} /\ InRange(x, c.base, c.length)
         \/ c.request = "UVM_FREE" /\ \E r \in sys.ranges : r[1] = c.base /\ InRange(x, r[1], r[2])
<1>0. /\ x \in Nat
      /\ c.request = "close" => c.fd \in Files \union {"uvm"}
      /\ c.request \in DOMAIN Decoded \union KernelRequests \union {"close", "UVM_UNKNOWN"}
  BY CallFields, BindingAssumption
<1>1. CASE c.request \in RmRequests /\ Effect(c) = RmEffect(c)
  BY <1>1 DEF RmEffect, System, RmRequests
<1>2. CASE c.request \notin RmRequests /\ IsKernel(c) /\ Effect(c) = KernelEffect(c)
  BY <1>0, <1>2 DEF KernelEffect, System, RmRequests, IsKernel, KernelRequests
<1>3. CASE c.request \notin RmRequests /\ ~IsKernel(c) /\ Effect(c) = UvmEffect(c)
  <2>1. CASE c.request \in Clears \union {"UVM_MAP_EXTERNAL_ALLOCATION"}
    <3>1. c.base \in Nat /\ c.length \in Nat
      BY <2>1, CallFields
    <3> QED  BY <1>0, <1>3, <2>1, <3>1 DEF UvmEffect, System, Clears, Filled, InRange
  <2>2. CASE c.request = "UVM_FREE"
    <3>1. Effect(c).va =
            [y \in Vas |-> IF \E r \in sys.ranges : r[1] = c.base /\ y < r[1] + r[2] /\ y >= r[1]
                          THEN Nothing ELSE sys.va[y]]
      BY <1>3, <2>2 DEF UvmEffect, System
    <3>2. CASE \E r \in sys.ranges : r[1] = c.base /\ x < r[1] + r[2] /\ x >= r[1]
      <4>1. PICK r \in sys.ranges : r[1] = c.base /\ x < r[1] + r[2] /\ x >= r[1]
        BY <3>2
      <4>2. r[1] \in Nat
        BY DEF System
      <4> QED  BY <1>0, <2>2, <4>1, <4>2 DEF InRange
    <3> QED  BY <3>1, <3>2
  <2>3. CASE c.request \notin Clears \union {"UVM_MAP_EXTERNAL_ALLOCATION", "UVM_FREE"}
    BY <1>0, <1>3, <2>3 DEF UvmEffect, System, Clears, IsKernel, Decoded, KernelRequests, RmRequests
  <2> QED  BY <2>1, <2>2, <2>3
<1> QED  BY <1>1, <1>2, <1>3, Whose

\* An external mapping shows the memory object.
LEMMA ExternalShows ==
  ASSUME sys \in System, NEW c \in Call, c.request = "UVM_MAP_EXTERNAL_ALLOCATION",
         NEW x \in Vas, InRange(x, c.base, c.length)
  PROVE  /\ Effect(c).va[x].gen = sys.born[c.memory]
         /\ Effect(c).va[x].off = c.offset + x - c.base
<1>1. x \in Nat /\ c.base \in Nat /\ c.length \in Nat
  BY BindingAssumption, CallFields
<1>2. Effect(c) = UvmEffect(c)
  BY DEF Effect, RmRequests, KernelRequests
<1> QED  BY <1>1, <1>2 DEF UvmEffect, System, Filled, InRange

--------------------------------------------------------------------------------
(* Types.                                                                   *)

\* What is not the GPU's memory is still a page's entry.
LEMMA NothingIsSpot == Nothing \in Spot /\ Foreign \in Spot /\ Unattached \in Attachment
  BY DEF Nothing, Foreign, Spot, Unattached, Attachment

\* RM's calls keep the type of the system.
LEMMA RmType ==
  ASSUME sys \in System, NEW c \in Call, c.request \in RmRequests, Works(c)
  PROVE  RmEffect(c) \in System
<1> USE DEF System, RmEffect, RmRequests
<1>1. CASE c.request = "RM_ALLOC"
  <2>1. c.object \in Handles /\ (c.object = "channel" => c.memory \in Memories /\ c.offset \in Nat)
    BY <1>1, CallFields DEF Allocates
  <2>2. c.object = "channel" => [gen |-> sys.born[c.memory], off |-> c.offset, at |-> -1] \in Spot
    BY <2>1 DEF Spot, Handles
  <2>3. RmEffect(c).userd \in Spot /\ RmEffect(c).context \in [Files -> Attachment]
    BY <1>1, <2>2
  <2>4. RmEffect(c).births \in Nat /\ RmEffect(c).born \in [Handles -> Nat]
    <3>1. RmEffect(c) = Effect(c) /\ Allocates(c)
      BY <1>1 DEF Effect, Allocates
    <3>2. /\ RmEffect(c).births = sys.births + 1
          /\ RmEffect(c).born = [sys.born EXCEPT ![c.object] = sys.births + 1]
      BY <3>1, BornAfter
    <3> HIDE DEF RmEffect
    <3> QED  BY <2>1, <3>2
  <2>5. RmEffect(c) = [sys EXCEPT !.births = RmEffect(c).births, !.born = RmEffect(c).born,
                         !.userd = RmEffect(c).userd, !.context = RmEffect(c).context]
    BY <1>1
  <2> HIDE DEF RmEffect
  <2> QED  BY <2>3, <2>4, <2>5
<1>2. CASE c.request = "RM_ALLOC_MEMORY"
  <2>1. c.object \in Handles /\ c.object # "channel" /\ c.map_fd \in Files /\ c.length \in Nat
    BY <1>2, CallFields, BindingAssumption DEF Handles
  <2>2. [gen |-> sys.births + 1, off |-> 0, length |-> c.length] \in Attachment
    BY <2>1 DEF Attachment
  <2>3. RmEffect(c).userd \in Spot /\ RmEffect(c).context \in [Files -> Attachment]
    BY <1>2, <2>1, <2>2
  <2>4. RmEffect(c).births \in Nat /\ RmEffect(c).born \in [Handles -> Nat]
    <3>1. RmEffect(c) = Effect(c) /\ Allocates(c)
      BY <1>2 DEF Effect, Allocates
    <3>2. /\ RmEffect(c).births = sys.births + 1
          /\ RmEffect(c).born = [sys.born EXCEPT ![c.object] = sys.births + 1]
      BY <3>1, BornAfter
    <3> HIDE DEF RmEffect
    <3> QED  BY <2>1, <3>2
  <2>5. RmEffect(c) = [sys EXCEPT !.births = RmEffect(c).births, !.born = RmEffect(c).born,
                         !.userd = RmEffect(c).userd, !.context = RmEffect(c).context]
    BY <1>2
  <2> HIDE DEF RmEffect
  <2> QED  BY <2>3, <2>4, <2>5
<1>3. CASE c.request = "RM_FREE"
  BY <1>3, CallFields
<1>4. CASE c.request = "RM_MAP_MEMORY"
  <2>1. c.memory \in Memories /\ c.map_fd \in Files /\ c.offset \in Nat /\ c.length \in Nat
    BY <1>4, CallFields
  <2>2. [gen |-> sys.born[c.memory], off |-> c.offset, length |-> c.length] \in Attachment
    BY <2>1 DEF Attachment, Handles
  <2> QED  BY <1>4, <2>1, <2>2
<1>5. CASE c.request = "RM_UNMAP_MEMORY"
  <2>1. \A a \in Pages : [sys.page[a] EXCEPT !.gen = 0] \in Spot
    BY DEF Spot
  <2> QED  BY <1>5, <2>1
<1> QED  BY <1>1, <1>2, <1>3, <1>4, <1>5

\* Pages may be emptied.
LEMMA FilledType ==
  ASSUME NEW table \in [Pages -> Spot], NEW a \in Nat, NEW n \in Nat
  PROVE  Filled(table, a, n, Nowhere) \in [Pages -> Spot]
BY NothingIsSpot DEF Filled, Nowhere

\* The kernel's calls keep the type of the system.
LEMMA KernelType ==
  ASSUME sys \in System, NEW c \in Call, IsKernel(c), Within(c)
  PROVE  KernelEffect(c) \in System
<1> USE DEF System, KernelEffect, KernelRequests, IsKernel
<1>0. c.request \in KernelRequests => c.address \in Nat /\ c.length \in Nat
  BY CallFields
<1>1. CASE c.request = "mmap"
  <2> DEFINE shown(a) == IF c.fd \in Files
                         THEN [gen |-> sys.context[c.fd].gen, at |-> a - c.address,
                               off |-> sys.context[c.fd].off + a - c.address]
                         ELSE Foreign
  <2>1. KernelEffect(c) = [sys EXCEPT !.page = Filled(@, c.address, c.length, shown)]
    BY <1>1
  <2>2. ASSUME NEW a \in c.address..(c.address + c.length - 1) PROVE shown(a) \in Spot
    <3>1. a \in Nat /\ c.address <= a
      BY <1>0, <1>1
    <3>2. CASE c.fd \in Files
      BY <1>0, <1>1, <3>1, <3>2 DEF Spot, Attachment
    <3> QED  BY <3>2, NothingIsSpot
  <2> HIDE DEF shown
  <2>3. Filled(sys.page, c.address, c.length, shown) \in [Pages -> Spot]
    BY <2>2 DEF Filled
  <2> QED  BY <2>1, <2>3
<1>2. CASE c.request = "munmap"
  <2>1. Filled(sys.page, c.address, c.length, Nowhere) \in [Pages -> Spot]
    BY <1>0, <1>2, FilledType
  <2> QED  BY <1>2, <2>1
<1>3. CASE c.request = "mremap"
  <2> DEFINE moved(a) == sys.page[a - c.new_address + c.address]
             gone == Filled(sys.page, c.address, c.length, Nowhere)
  <2>1. KernelEffect(c) = [sys EXCEPT !.page = Filled(gone, c.new_address, c.length, moved)]
    BY <1>3
  <2>2. gone \in [Pages -> Spot]
    BY <1>0, <1>3, FilledType
  <2>3. ASSUME NEW a \in c.new_address..(c.new_address + c.length - 1) PROVE moved(a) \in Spot
    <3>1. c.new_address \in Nat
      BY <1>3, CallFields
    <3>2. a - c.new_address + c.address \in c.address..(c.address + c.length - 1)
      BY <1>0, <1>3, <3>1
    <3>3. a - c.new_address + c.address \in Pages
      BY <1>3, <3>2 DEF Within
    <3> QED  BY <3>3
  <2> HIDE DEF moved, gone
  <2>4. Filled(gone, c.new_address, c.length, moved) \in [Pages -> Spot]
    BY <2>2, <2>3 DEF Filled
  <2> QED  BY <2>1, <2>4
<1>4. CASE c.request = "close" /\ c.fd \in Files
  BY <1>4, NothingIsSpot
<1> QED  BY <1>1, <1>2, <1>3, <1>4

\* UVM's calls keep the type of the system.
LEMMA UvmType ==
  ASSUME sys \in System, NEW c \in Call, c.request \notin RmRequests, ~IsKernel(c), Works(c)
  PROVE  UvmEffect(c) \in System
<1>1. Clean.va \in [Vas -> Spot]
  BY NothingIsSpot DEF Clean
<1>2. CASE c.request \in {"UVM_REGISTER_GPU_VASPACE", "UVM_UNREGISTER_GPU_VASPACE", "close",
                          "UVM_REGISTER_CHANNEL", "UVM_UNREGISTER_CHANNEL"}
  BY <1>1, <1>2 DEF UvmEffect, System, Handles
<1>3. CASE c.request = "UVM_CREATE_EXTERNAL_RANGE"
  <2>1. <<c.base, c.length>> \in Nat \X Nat
    BY <1>3, CallFields
  <2> QED  BY <1>3, <2>1 DEF UvmEffect, System
<1>4. CASE c.request = "UVM_MAP_EXTERNAL_ALLOCATION"
  <2>1. c.base \in Nat /\ c.length \in Nat /\ c.memory \in Memories /\ c.offset \in Nat
    BY <1>4, CallFields
  <2> DEFINE shown(x) == [gen |-> sys.born[c.memory], off |-> c.offset + x - c.base, at |-> -1]
  <2>2. UvmEffect(c) = [sys EXCEPT !.va = Filled(@, c.base, c.length, shown)]
    BY <1>4 DEF UvmEffect
  <2>3. ASSUME NEW x \in Vas PROVE shown(x) \in Spot
    <3>1. x \in Nat /\ sys.born[c.memory] \in Nat
      BY <2>1, BindingAssumption DEF System, Handles
    <3>2. c.offset + x - c.base \in Int
      BY <2>1, <3>1
    <3> QED  BY <3>1, <3>2 DEF Spot
  <2> HIDE DEF shown
  <2>4. Filled(sys.va, c.base, c.length, shown) \in [Vas -> Spot]
    BY <2>3 DEF Filled, System
  <2> QED  BY <2>2, <2>4 DEF System
<1>5. CASE c.request \in Clears
  <2>1. Filled(sys.va, c.base, c.length, Nowhere) \in [Vas -> Spot]
    BY NothingIsSpot DEF Filled, Nowhere, System
  <2>2. UvmEffect(c) = [sys EXCEPT !.va = Filled(@, c.base, c.length, Nowhere)]
    BY <1>5 DEF UvmEffect, Clears
  <2> QED  BY <2>1, <2>2 DEF System
<1>6. CASE c.request = "UVM_FREE"
  BY <1>6, NothingIsSpot DEF UvmEffect, System
<1>7. CASE c.request = "UVM_VALIDATE_VA_RANGE"
  BY <1>7 DEF UvmEffect
<1>8. CASE c.request = "UVM_UNKNOWN"
  BY <1>1, <1>8 DEF UvmEffect, System
<1>9. c.request \in DOMAIN Decoded \union KernelRequests \union {"close", "UVM_UNKNOWN"}
  BY CallFields
<1> QED
  BY <1>2, <1>3, <1>4, <1>5, <1>6, <1>7, <1>8, <1>9
  DEF Decoded, RmRequests, Clears, IsKernel, KernelRequests

\* Every call keeps the type of the system.
LEMMA EffectType ==
  ASSUME sys \in System, NEW c \in Call, Within(c), Works(c)
  PROVE  Effect(c) \in System
BY Whose, RmType, KernelType, UvmType

\* A page shows what another page, or an attached file, has shown.
LEMMA PageGens ==
  ASSUME sys \in System, NEW c \in Call, Within(c), NEW n \in Nat,
         \A a \in Pages : sys.page[a].gen <= n, \A f \in Files : sys.context[f].gen <= n,
         NEW a \in Pages
  PROVE  Effect(c).page[a].gen <= n
<1>0. a \in Nat /\ Nothing.gen <= n /\ Foreign.gen <= n
  BY BindingAssumption DEF Nothing, Foreign
<1>1. CASE c.request \in RmRequests /\ Effect(c) = RmEffect(c)
  <2>1. CASE c.request = "RM_UNMAP_MEMORY"
    BY <1>1, <2>1 DEF RmEffect, System, Spot
  <2>2. CASE c.request # "RM_UNMAP_MEMORY"
    <3>1. Effect(c).page = sys.page
      BY <1>1, <2>2 DEF RmEffect, System, RmRequests
    <3> QED  BY <3>1
  <2> QED  BY <2>1, <2>2
<1>2. CASE c.request \notin RmRequests /\ IsKernel(c) /\ Effect(c) = KernelEffect(c)
  <2>0. c.request \in KernelRequests => c.address \in Nat /\ c.length \in Nat
    BY CallFields
  <2>1. CASE c.request = "close"
    BY <1>2, <2>1 DEF KernelEffect, System, IsKernel, KernelRequests
  <2>2. CASE c.request = "mmap"
    <3>1. \/ Effect(c).page[a] = sys.page[a] \/ Effect(c).page[a] = Foreign
          \/ c.fd \in Files /\ Effect(c).page[a].gen = sys.context[c.fd].gen
      BY <1>2, <2>2 DEF KernelEffect, System, Filled
    <3> QED  BY <1>0, <3>1
  <2>3. CASE c.request = "munmap"
    <3>1. Effect(c).page[a] = sys.page[a] \/ Effect(c).page[a] = Nothing
      BY <1>2, <2>3 DEF KernelEffect, System, Filled, Nowhere
    <3> QED  BY <1>0, <3>1
  <2>4. CASE c.request = "mremap"
    <3>1. \/ Effect(c).page[a] = sys.page[a] \/ Effect(c).page[a] = Nothing
          \/ /\ a \in c.new_address..(c.new_address + c.length - 1)
             /\ Effect(c).page[a] = sys.page[a - c.new_address + c.address]
      BY <1>2, <2>4 DEF KernelEffect, System, Filled, Nowhere
    <3>2. a \in c.new_address..(c.new_address + c.length - 1) => a - c.new_address + c.address \in Pages
      <4>1. c.new_address \in Nat
        BY <2>4, CallFields
      <4> QED  BY <1>0, <2>0, <2>4, <4>1 DEF Within, KernelRequests
    <3> QED  BY <1>0, <3>1, <3>2
  <2> QED  BY <1>2, <2>1, <2>2, <2>3, <2>4 DEF IsKernel, KernelRequests
<1>3. CASE c.request \notin RmRequests /\ ~IsKernel(c) /\ Effect(c) = UvmEffect(c)
  <2>1. Effect(c).page = sys.page
    BY <1>3 DEF UvmEffect, System, RmRequests
  <2> QED  BY <2>1
<1> QED  BY <1>1, <1>2, <1>3, Whose

\* The GPU's page table shows what it has shown, or an object of now.
LEMMA VaGens ==
  ASSUME sys \in System, NEW c \in Call, NEW n \in Nat,
         \A x \in Vas : sys.va[x].gen <= n, \A h \in Handles : sys.born[h] <= n,
         NEW x \in Vas
  PROVE  Effect(c).va[x].gen <= n
<1>0. /\ Nothing.gen <= n
      /\ c.request \in DOMAIN Decoded \union KernelRequests \union {"close", "UVM_UNKNOWN"}
  BY CallFields DEF Nothing
<1>1. CASE c.request \notin RmRequests /\ ~IsKernel(c) /\ Effect(c) = UvmEffect(c)
  <2>1. CASE c.request = "UVM_MAP_EXTERNAL_ALLOCATION"
    <3>1. Effect(c).va[x] = sys.va[x] \/ Effect(c).va[x].gen = sys.born[c.memory]
      BY <1>1, <2>1 DEF UvmEffect, System, Filled
    <3>2. c.memory \in Handles
      BY <2>1, CallFields DEF Handles
    <3> QED  BY <3>1, <3>2
  <2>2. CASE c.request # "UVM_MAP_EXTERNAL_ALLOCATION"
    <3>1. CASE c.request \in Clears
      BY <1>0, <1>1, <3>1 DEF UvmEffect, System, Filled, Nowhere, Clears
    <3>2. CASE c.request = "UVM_FREE"
      <4>1. Effect(c).va =
              [y \in Vas |-> IF \E r \in sys.ranges : r[1] = c.base /\ y < r[1] + r[2] /\ y >= r[1]
                            THEN Nothing ELSE sys.va[y]]
        BY <1>1, <3>2 DEF UvmEffect, System
      <4>2. Effect(c).va[x] = sys.va[x] \/ Effect(c).va[x] = Nothing
        BY <4>1
      <4> QED  BY <1>0, <4>2
    <3>3. CASE c.request \notin Clears \union {"UVM_FREE"}
      <4>1. Effect(c).va = sys.va \/ Effect(c).va = Clean.va
        BY <1>1, <2>2, <3>3 DEF UvmEffect, System, Clears
      <4> QED  BY <1>0, <4>1 DEF Clean
    <3> QED  BY <3>1, <3>2, <3>3
  <2> QED  BY <2>1, <2>2
<1>2. CASE c.request \in RmRequests /\ Effect(c) = RmEffect(c)
  <2>1. Effect(c).va = sys.va
    BY <1>2 DEF RmEffect, System, RmRequests
  <2> QED  BY <2>1
<1>3. CASE c.request \notin RmRequests /\ IsKernel(c) /\ Effect(c) = KernelEffect(c)
  <2>1. Effect(c).va = sys.va
    BY <1>3 DEF KernelEffect, System, RmRequests, KernelRequests, IsKernel
  <2> QED  BY <2>1
<1> QED  BY <1>1, <1>2, <1>3, Whose

\* A call gives no generation that is not an object's.
LEMMA GivenAfter ==
  ASSUME sys \in System, Given(sys), NEW c \in Call, Within(c), Works(c)
  PROVE  Given(Effect(c))
<1>1. /\ Effect(c) \in System
      /\ Effect(c).births \in Nat /\ sys.births \in Nat /\ sys.births <= Effect(c).births
  <2>1. Effect(c) \in System
    BY EffectType
  <2>2. Effect(c).births \in Nat /\ sys.births \in Nat
    BY <2>1 DEF System
  <2>3. Effect(c).births = sys.births + 1 \/ Effect(c).births = sys.births
    BY BornAfter
  <2> QED  BY <2>1, <2>2, <2>3
<1> DEFINE n == Effect(c).births
<1>2. \A h \in Handles : sys.born[h] \in Nat /\ sys.born[h] <= n
  BY <1>1 DEF Given, System
<1>3. ASSUME NEW h \in Handles PROVE Effect(c).born[h] <= n
  <2>1. sys.born \in [Handles -> Nat]
    BY DEF System
  <2>2. CASE Allocates(c)
    <3>1. n = sys.births + 1 /\ Effect(c).born[h] \in {sys.born[h], sys.births + 1}
      BY <2>1, <2>2, BornAfter
    <3> QED  BY <1>1, <1>2, <3>1
  <2>3. CASE ~Allocates(c)
    <3>1. Effect(c).born[h] \in {sys.born[h], 0}
      BY <2>1, <2>3, BornAfter
    <3> QED  BY <1>1, <1>2, <3>1
  <2> QED  BY <2>2, <2>3
<1>4. Effect(c).userd.gen <= n
  <2>1. Allocates(c) /\ c.object = "channel" => c.memory \in Handles
    BY CallFields, BindingAssumption DEF Handles, Allocates
  <2>2. sys.userd.gen <= n
    BY <1>1 DEF Given, System, Spot
  <2> HIDE DEF n
  <2>3. CASE Allocates(c) /\ c.object = "channel"
    <3>1. Effect(c).userd = [gen |-> sys.born[c.memory], off |-> c.offset, at |-> -1]
      BY <2>3, UserdAfter
    <3> QED  BY <1>2, <2>1, <2>3, <3>1
  <2>4. CASE ~(Allocates(c) /\ c.object = "channel")
    <3>1. Effect(c).userd = sys.userd
      BY <2>4, UserdAfter
    <3> QED  BY <2>2, <3>1
  <2> QED  BY <2>3, <2>4
<1>5. Effect(c).bound <= n
  <2>1. "channel" \in Handles /\ sys.bound <= n /\ 0 <= n
    BY <1>1 DEF Handles, Given, System
  <2> HIDE DEF n
  <2> QED  BY <1>2, <2>1, SpaceAfter
<1>6. ASSUME NEW f \in Files PROVE Effect(c).context[f].gen <= n
  <2>1. sys.context[f].gen <= n /\ Unattached.gen <= n
    BY <1>1 DEF Given, System, Attachment, Unattached
  <2>2. c.request = "RM_MAP_MEMORY" => c.memory \in Handles
    BY CallFields DEF Handles
  <2>3. c.request = "RM_ALLOC_MEMORY" => n = sys.births + 1
    BY BornAfter DEF Allocates
  <2>4. n \in Nat
    BY <1>1
  <2>5. sys.context \in [Files -> Attachment]
    BY DEF System
  <2> HIDE DEF n
  <2>6. CASE c.request = "RM_ALLOC_MEMORY"
    <3>1. Effect(c).context[f].gen = sys.births + 1 \/ Effect(c).context[f] = sys.context[f]
      <4>1. Effect(c).context = [sys.context EXCEPT ![c.map_fd] =
                                   [gen |-> sys.births + 1, off |-> 0, length |-> c.length]]
        BY <2>6, ContextAfter
      <4> QED  BY <2>5, <4>1
    <3> QED  BY <1>1, <2>1, <2>3, <2>4, <2>6, <3>1
  <2>7. CASE c.request = "RM_MAP_MEMORY"
    <3>1. Effect(c).context[f].gen = sys.born[c.memory] \/ Effect(c).context[f] = sys.context[f]
      <4>1. Effect(c).context = [sys.context EXCEPT ![c.map_fd] =
                                   [gen |-> sys.born[c.memory], off |-> c.offset, length |-> c.length]]
        BY <2>7, ContextAfter
      <4> QED  BY <2>5, <4>1
    <3> QED  BY <1>2, <2>1, <2>2, <2>7, <3>1
  <2>8. CASE c.request \notin {"RM_ALLOC_MEMORY", "RM_MAP_MEMORY"}
    BY <2>1, <2>4, <2>5, <2>8, ContextAfter
  <2> QED  BY <2>6, <2>7, <2>8
<1>7. ASSUME NEW a \in Pages PROVE Effect(c).page[a].gen <= n
  <2>1. /\ \A b \in Pages : sys.page[b].gen <= n
        /\ \A f \in Files : sys.context[f].gen <= n
    BY <1>1 DEF Given, System, Attachment, Spot
  <2> QED  BY <1>1, <2>1, PageGens
<1>8. ASSUME NEW x \in Vas PROVE Effect(c).va[x].gen <= n
  <2>1. \A y \in Vas : sys.va[y].gen <= n
    BY <1>1 DEF Given, System, Spot
  <2> QED  BY <1>1, <1>2, <2>1, VaGens
<1> QED  BY <1>3, <1>4, <1>5, <1>6, <1>7, <1>8 DEF Given

--------------------------------------------------------------------------------
(* What a call does, by its row.                                            *)

RowOf(c, ok) == [kind |-> Kind(c), call |-> c, ok |-> ok]

Row == {RowOf(c, ok) : c \in Call, ok \in BOOLEAN}

\* The fields of a row.
LEMMA RowFields ==
  ASSUME NEW r \in Row
  PROVE  r.call \in Call /\ r.ok \in BOOLEAN /\ r.kind = Kind(r.call)
BY DEF Row, RowOf

\* The call is made.
Makes(c, ok) ==
  /\ c \in Call /\ ok \in BOOLEAN /\ Within(c)
  /\ ok => Works(c)
  /\ sys' = IF ok THEN Effect(c) ELSE sys

\* By its row a call gives a handle, frees it or leaves it.
LEMMA RowBorn ==
  ASSUME sys \in System, NEW c, NEW ok, NEW r, Makes(c, ok), r = RowOf(c, ok), NEW h \in Handles
  PROVE  /\ Gives(r, h) =>
              sys.born[h] = 0 /\ sys'.births = sys.births + 1 /\ sys'.born[h] = sys.births + 1
         /\ Frees(r, h) => sys'.born[h] = 0
         /\ ~Gives(r, h) /\ ~Frees(r, h) => sys'.born[h] = sys.born[h]
         /\ sys'.born[h] \in {sys.born[h], 0, sys.births + 1}
<1>1. /\ c \in Call /\ r.ok = ok /\ r.call = c /\ r.kind = Kind(c) /\ sys.born \in [Handles -> Nat]
      /\ ok \in BOOLEAN
  BY DEF RowOf, Makes, System
<1>2. /\ Gives(r, h) <=> ok /\ Allocates(c) /\ c.object = h
      /\ Frees(r, h) <=> ok /\ c.request = "RM_FREE" /\ c.object = h
  <2> QED  BY <1>1, KindFacts DEF Gives, Frees
<1>3. CASE ~ok
  BY <1>2, <1>3 DEF Makes
<1>4. CASE ok
  <2>1. /\ sys' = Effect(c)
        /\ Allocates(c) => c.object \in Handles
        /\ c.request = "RM_FREE" => c.object \in Handles
    BY <1>1, <1>4, CallFields DEF Makes
  <2>2. CASE Allocates(c)
    <3>1. sys'.births = sys.births + 1 /\ sys'.born = [sys.born EXCEPT ![c.object] = sys.births + 1]
      BY <1>1, <2>1, <2>2, BornAfter
    <3>2. sys.born[c.object] = 0
      BY <1>1, <1>4, <2>2 DEF Makes, Works, Allocates
    <3>3. ~(c.request = "RM_FREE")
      BY <2>2 DEF Allocates
    <3>4. CASE c.object = h
      BY <1>1, <1>2, <1>4, <2>2, <3>1, <3>2, <3>3, <3>4
    <3>5. CASE c.object # h
      BY <1>1, <1>2, <3>1, <3>5
    <3> QED  BY <3>4, <3>5
  <2>3. CASE c.request = "RM_FREE"
    <3>1. sys'.born = [sys.born EXCEPT ![c.object] = 0] /\ ~Allocates(c)
      <4>1. ~Allocates(c)
        BY <2>3 DEF Allocates
      <4> QED  BY <1>1, <2>1, <2>3, <4>1, BornAfter
    <3>4. CASE c.object = h
      BY <1>1, <1>2, <1>4, <2>3, <3>1, <3>4
    <3>5. CASE c.object # h
      BY <1>1, <1>2, <3>1, <3>5
    <3> QED  BY <3>4, <3>5
  <2>4. CASE ~Allocates(c) /\ c.request # "RM_FREE"
    <3>1. sys'.born = sys.born
      BY <1>1, <2>1, <2>4, BornAfter
    <3> QED  BY <1>2, <2>4, <3>1
  <2> QED  BY <2>2, <2>3, <2>4
<1> QED  BY <1>1, <1>3, <1>4

\* Only a row that gives the channel changes its USERD.
LEMMA RowUserd ==
  ASSUME sys \in System, NEW c, NEW ok, NEW r, Makes(c, ok), r = RowOf(c, ok)
  PROVE  /\ Gives(r, "channel") =>
              c.memory \in Memories /\ sys'.userd = [gen |-> sys.born[c.memory], off |-> c.offset, at |-> -1]
         /\ ~Gives(r, "channel") => sys'.userd = sys.userd
<1>1. /\ c \in Call /\ r.ok = ok /\ r.call = c /\ r.kind = Kind(c) /\ ok \in BOOLEAN
  BY DEF RowOf, Makes
<1>2. Gives(r, "channel") <=> ok /\ Allocates(c) /\ c.object = "channel"
  BY <1>1, KindFacts DEF Gives
<1>3. Allocates(c) /\ c.object = "channel" => c.memory \in Memories
  BY <1>1, CallFields, BindingAssumption DEF Allocates
<1>4. CASE ~ok
  BY <1>2, <1>4 DEF Makes
<1>5. CASE ok /\ Allocates(c) /\ c.object = "channel"
  BY <1>1, <1>2, <1>3, <1>5, UserdAfter DEF Makes
<1>6. CASE ok /\ ~(Allocates(c) /\ c.object = "channel")
  BY <1>1, <1>2, <1>6, UserdAfter DEF Makes
<1> QED  BY <1>1, <1>4, <1>5, <1>6

\* Only a row that uses a file changes what is attached to it.
LEMMA RowContext ==
  ASSUME sys \in System, NEW c, NEW ok, NEW r, Makes(c, ok), r = RowOf(c, ok), NEW f \in Files
  PROVE  /\ ~UsesFile(r, f) => sys'.context[f] = sys.context[f]
         /\ \A mem : Attaches(r, mem) /\ c.map_fd = f =>
              sys'.context[f] = [gen |-> sys.born[mem], off |-> c.offset, length |-> c.length]
<1>1. /\ c \in Call /\ r.ok = ok /\ r.call = c /\ r.kind = Kind(c) /\ ok \in BOOLEAN
      /\ sys.context \in [Files -> Attachment]
  BY DEF RowOf, Makes, System
<1>2. /\ ok /\ c.request \in {"RM_MAP_MEMORY", "RM_ALLOC_MEMORY"} /\ c.map_fd = f => UsesFile(r, f)
      /\ c.request = "close" /\ c.fd = f => UsesFile(r, f)
      /\ \A mem : Attaches(r, mem) <=> ok /\ c.request = "RM_MAP_MEMORY" /\ c.memory = mem
  <2>1. UsesFile(r, f) <=> \/ Kind(c) \in {"close", "mmap"} /\ c.fd = f
                           \/ ok /\ Kind(c) \in {"map_memory", "alloc_memory"} /\ c.map_fd = f
    BY <1>1 DEF UsesFile
  <2>2. \A mem : Attaches(r, mem) <=> ok /\ Kind(c) = "map_memory" /\ c.memory = mem
    BY <1>1 DEF Attaches
  <2> QED  BY <1>1, <2>1, <2>2, KindFacts
<1>3. CASE ~ok
  BY <1>2, <1>3 DEF Makes
<1>4. CASE ok
  <2>0. sys' = Effect(c)
    BY <1>4 DEF Makes
  <2>1. CASE c.request = "RM_MAP_MEMORY"
    <3>1. sys'.context = [sys.context EXCEPT ![c.map_fd] =
                           [gen |-> sys.born[c.memory], off |-> c.offset, length |-> c.length]]
      BY <1>1, <2>0, <2>1, ContextAfter
    <3>2. CASE c.map_fd = f
      <4>1. sys'.context[f] = [gen |-> sys.born[c.memory], off |-> c.offset, length |-> c.length]
        BY <1>1, <3>1, <3>2
      <4> QED  BY <1>1, <1>2, <1>4, <2>1, <3>2, <4>1
    <3>3. CASE c.map_fd # f
      BY <1>1, <3>1, <3>3
    <3> QED  BY <3>2, <3>3
  <2>2. CASE c.request = "RM_ALLOC_MEMORY"
    <3>1. sys'.context = [sys.context EXCEPT ![c.map_fd] =
                           [gen |-> sys.births + 1, off |-> 0, length |-> c.length]]
      BY <1>1, <2>0, <2>2, ContextAfter
    <3> QED  BY <1>1, <1>2, <1>4, <2>2, <3>1
  <2>3. CASE c.request = "close" /\ c.fd \in Files
    <3>1. sys'.context = [sys.context EXCEPT ![c.fd] = Unattached]
      BY <1>1, <2>0, <2>3, ContextAfter
    <3> QED  BY <1>1, <1>2, <2>3, <3>1
  <2>4. CASE ~(c.request = "close" /\ c.fd \in Files) /\ c.request \notin {"RM_MAP_MEMORY", "RM_ALLOC_MEMORY"}
    <3>1. sys'.context = sys.context
      BY <1>1, <2>0, <2>4, ContextAfter
    <3> QED  BY <1>2, <2>4, <3>1
  <2> QED  BY <2>1, <2>2, <2>3, <2>4
<1> QED  BY <1>1, <1>3, <1>4

\* Nothing that a call which spoils nothing changes was ours.
LEMMA RowPage ==
  ASSUME sys \in System, BornInv, NEW c, NEW ok, NEW r, Makes(c, ok), r = RowOf(c, ok),
         NEW mem \in Memories, NEW a \in Pages, NEW d,
         d.address \in Nat, d.length \in Nat, InRange(a, d.address, d.length),
         sys.page[a].gen = sys.born[mem], sys.born[mem] # 0,
         ~Spoils(r, d, mem)
  PROVE  sys'.page[a] = sys.page[a]
<1>1. /\ c \in Call /\ r.ok = ok /\ r.call = c /\ r.kind = Kind(c) /\ ok \in BOOLEAN /\ a \in Nat
  BY BindingAssumption DEF RowOf, Makes
<1>2. CASE ~ok
  BY <1>2 DEF Makes
<1>3. CASE ok
  <2>0. sys' = Effect(c) /\ Works(c)
    BY <1>3 DEF Makes
  <2>1. c.request \in KernelRequests => c.address \in Nat /\ c.length \in Nat
    BY <1>1, CallFields
  <2>2. ASSUME c.request = "RM_UNMAP_MEMORY", sys.page[a].gen = sys.born[c.memory] PROVE FALSE
    <3>1. c.memory = mem
      <4>1. c.memory \in Handles /\ mem \in Handles
        BY <1>1, <2>2, CallFields DEF Handles
      <4> QED  BY <2>2, <4>1 DEF BornInv
    <3>2. Kind(c) = "unmap_memory"
      BY <1>1, <2>2, KindFacts
    <3> QED  BY <1>1, <1>3, <3>1, <3>2 DEF Spoils
  <2>3. ASSUME c.request \in KernelRequests, InRange(a, c.address, c.length) PROVE FALSE
    <3>1. Overlaps(d.address, d.length, c.address, c.length)
      BY <1>1, <2>1, <2>3 DEF Overlaps, InRange
    <3>2. Kind(c) = c.request
      BY <1>1, <2>3, KindFacts DEF KernelRequests
    <3>3. c.request = "mmap" /\ ~c.fixed
      BY <1>1, <1>3, <2>3, <3>1, <3>2 DEF Spoils, KernelRequests
    <3>4. a \in c.address..(c.address + c.length - 1)
      BY <1>1, <2>1, <2>3 DEF InRange
    <3>5. sys.page[a] = Nothing
      BY <2>0, <3>3, <3>4 DEF Works
    <3> QED  BY <3>5 DEF Nothing
  <2>4. ASSUME c.request = "mremap", InRange(a, c.new_address, c.length) PROVE FALSE
    <3>1. c.new_address \in Nat /\ c.length \in Nat
      BY <1>1, <2>4, CallFields DEF KernelRequests
    <3>2. Overlaps(d.address, d.length, c.new_address, c.length)
      BY <1>1, <2>4, <3>1 DEF Overlaps, InRange
    <3>3. Kind(c) = "mremap"
      BY <1>1, <2>4, KindFacts
    <3> QED  BY <1>1, <1>3, <3>2, <3>3 DEF Spoils
  <2> QED  BY <1>1, <2>0, <2>2, <2>3, <2>4, PageAfter
<1> QED  BY <1>1, <1>2, <1>3

\* Only a row that releases or registers the channel changes whether it is bound.
LEMMA RowBound ==
  ASSUME sys \in System, NEW c, NEW ok, NEW r, Makes(c, ok), r = RowOf(c, ok)
  PROVE  /\ r.ok /\ r.kind = "uvm_register_channel" => sys.vaspace /\ sys'.bound = sys.born["channel"]
         /\ ~Releases(r) /\ ~(r.ok /\ r.kind = "uvm_register_channel") => sys'.bound = sys.bound
         /\ sys'.vaspace => sys.vaspace \/ (r.ok /\ r.kind = "uvm_register_vaspace")
<1>1. /\ c \in Call /\ r.ok = ok /\ r.call = c /\ r.kind = Kind(c) /\ ok \in BOOLEAN
      /\ sys.vaspace \in BOOLEAN
  BY DEF RowOf, Makes, System
<1>2. /\ r.kind = "uvm_register_channel" <=> c.request = "UVM_REGISTER_CHANNEL"
      /\ r.kind = "uvm_register_vaspace" <=> c.request = "UVM_REGISTER_GPU_VASPACE"
      /\ r.kind = "uvm_unregister_channel" <=> c.request = "UVM_UNREGISTER_CHANNEL"
      /\ r.kind = "uvm_unregister_vaspace" <=> c.request = "UVM_UNREGISTER_GPU_VASPACE"
      /\ r.kind = "close" <=> c.request = "close"
  BY <1>1, KindFacts
<1>3. CASE ~ok
  BY <1>1, <1>3 DEF Makes
<1>4. CASE ok
  <2>0. sys' = Effect(c) /\ Works(c)
    BY <1>4 DEF Makes
  <2>1. ASSUME c.request = "UVM_REGISTER_CHANNEL" PROVE sys.vaspace
    BY <2>0, <2>1 DEF Works
  <2>2. ASSUME ~Releases(r)
        PROVE  ~(\/ c.request \in {"UVM_UNREGISTER_GPU_VASPACE", "UVM_UNREGISTER_CHANNEL"}
                 \/ c.request = "close" /\ c.fd = "uvm")
    BY <1>1, <1>2, <1>4, <2>2 DEF Releases
  <2>3. /\ sys'.bound =
             IF \/ c.request \in {"UVM_UNREGISTER_GPU_VASPACE", "UVM_UNREGISTER_CHANNEL"}
                \/ c.request = "close" /\ c.fd = "uvm"
             THEN 0
             ELSE IF c.request = "UVM_REGISTER_CHANNEL" THEN sys.born["channel"] ELSE sys.bound
        /\ sys'.vaspace => sys.vaspace \/ c.request = "UVM_REGISTER_GPU_VASPACE"
    BY <1>1, <2>0, SpaceAfter
  <2> QED  BY <1>1, <1>2, <1>4, <2>1, <2>2, <2>3
<1> QED  BY <1>1, <1>3, <1>4

\* The ring is in one range at most.
LEMMA RowRanges ==
  ASSUME sys \in System, RangesInv, NEW c, NEW ok, NEW r, Makes(c, ok), r = RowOf(c, ok)
  PROVE  RangesInv'
<1>1. c \in Call /\ ok \in BOOLEAN /\ sys.ranges \subseteq Nat \X Nat
  BY DEF Makes, System
<1>2. CASE ok /\ c.request = "UVM_CREATE_EXTERNAL_RANGE"
  <2>1. sys' = Effect(c) /\ Works(c) /\ c.base \in Nat /\ c.length \in Nat
    BY <1>1, <1>2, CallFields DEF Makes
  <2>2. sys'.ranges = sys.ranges \union {<<c.base, c.length>>}
    BY <1>1, <1>2, <2>1, SpaceAfter
  <2>3. \A q \in sys.ranges : ~Overlaps(q[1], q[2], c.base, c.length)
    BY <1>2, <2>1 DEF Works
  <2>4. ASSUME NEW q \in sys'.ranges, NEW s \in sys'.ranges,
               q[1] <= Ring /\ Ring < q[1] + q[2], s[1] <= Ring /\ Ring < s[1] + s[2]
        PROVE  q = s
    <3>1. q[1] \in Nat /\ q[2] \in Nat /\ s[1] \in Nat /\ s[2] \in Nat
      BY <1>1, <2>1, <2>2
    <3>2. Overlaps(q[1], q[2], s[1], s[2]) /\ Overlaps(s[1], s[2], q[1], q[2])
      BY <2>4, <3>1 DEF Overlaps, Ring
    <3>3. CASE q \in sys.ranges /\ s \in sys.ranges
      BY <2>4, <3>3 DEF RangesInv
    <3>4. CASE q \in sys.ranges /\ s = <<c.base, c.length>>
      BY <2>3, <3>2, <3>4
    <3>5. CASE s \in sys.ranges /\ q = <<c.base, c.length>>
      BY <2>3, <3>2, <3>5
    <3> QED  BY <2>2, <3>3, <3>4, <3>5
  <2> QED  BY <2>4 DEF RangesInv
<1>3. CASE ~(ok /\ c.request = "UVM_CREATE_EXTERNAL_RANGE")
  <2>1. sys'.ranges \subseteq sys.ranges
    <3>1. CASE ok
      <4>1. sys'.ranges \in {{}, {q \in sys.ranges : q[1] # c.base}, sys.ranges}
        BY <1>1, <1>3, <3>1, SpaceAfter DEF Makes
      <4> QED  BY <4>1
    <3>2. CASE ~ok
      BY <3>2 DEF Makes
    <3> QED  BY <1>1, <3>1, <3>2
  <2> QED  BY <2>1 DEF RangesInv
<1> QED  BY <1>2, <1>3

\* Nothing that a call which spoils nothing changes is shown at the ring's address.
LEMMA RowRing ==
  ASSUME sys \in System, RangesInv, NEW c, NEW ok, NEW r, Makes(c, ok), r = RowOf(c, ok),
         NEW d, <<d.base, d.length>> \in sys.ranges, HoldsRing(d), ~SpoilsRing(r, d)
  PROVE  sys'.va[Ring] = sys.va[Ring] /\ <<d.base, d.length>> \in sys'.ranges
<1>1. /\ c \in Call /\ r.ok = ok /\ r.call = c /\ r.kind = Kind(c) /\ ok \in BOOLEAN
      /\ sys.ranges \subseteq Nat \X Nat /\ Ring \in Vas
  BY BindingAssumption DEF RowOf, Makes, System
<1>2. CASE ~ok
  BY <1>2 DEF Makes
<1>3. CASE ok
  <2>0. sys' = Effect(c) /\ d.base \in Nat /\ d.length \in Nat
    BY <1>1, <1>3 DEF Makes
  <2>1. ~(c.request = "close" /\ c.fd = "uvm")
    BY <1>1, <1>3, KindFacts DEF SpoilsRing
  <2>2. c.request \notin {"UVM_UNKNOWN", "UVM_UNREGISTER_GPU_VASPACE"}
    BY <1>1, <1>3, KindFacts DEF SpoilsRing
  <2>3. c.request = "UVM_FREE" => c.base # d.base
    BY <1>1, <1>3, KindFacts DEF SpoilsRing
  <2>4. ASSUME c.request \in Clears \union {"UVM_MAP_EXTERNAL_ALLOCATION"}, InRange(Ring, c.base, c.length)
        PROVE  FALSE
    <3>1. c.base \in Nat /\ c.length \in Nat
      BY <1>1, <2>4, CallFields
    <3>2. Overlaps(Ring, 1, c.base, c.length)
      BY <2>4, <3>1 DEF Overlaps, InRange, Ring
    <3>3. r.kind \in {"uvm_unmap_external", "uvm_other_range", "uvm_map_external"}
      BY <1>1, <2>4, KindFacts
    <3> QED  BY <1>1, <1>3, <3>2, <3>3 DEF SpoilsRing
  <2>5. ASSUME c.request = "UVM_FREE", NEW q \in sys.ranges, q[1] = c.base, InRange(Ring, q[1], q[2])
        PROVE  FALSE
    <3>1. q = <<d.base, d.length>>
      BY <2>5 DEF RangesInv, HoldsRing, InRange
    <3> QED  BY <2>3, <2>5, <3>1
  <2>6. sys'.va[Ring] = sys.va[Ring]
    BY <1>1, <2>0, <2>1, <2>2, <2>4, <2>5, VaAfter
  <2>7. <<d.base, d.length>> \in sys'.ranges
    <3>1. CASE c.request = "UVM_FREE"
      <4>1. sys'.ranges = {q \in sys.ranges : q[1] # c.base}
        BY <1>1, <2>0, <3>1, SpaceAfter
      <4> QED  BY <2>3, <3>1, <4>1
    <3>2. CASE c.request # "UVM_FREE"
      <4>1. sys.ranges \subseteq sys'.ranges
        BY <1>1, <2>0, <2>1, <3>2, SpaceAfter
      <4> QED  BY <4>1
    <3> QED  BY <3>1, <3>2
  <2> QED  BY <2>6, <2>7
<1> QED  BY <1>1, <1>2, <1>3

\* What a row that maps the ring has put there.
LEMMA RowMapsRing ==
  ASSUME sys \in System, NEW c, NEW ok, NEW r, Makes(c, ok), r = RowOf(c, ok),
         r.ok, r.kind = "uvm_map_external", HoldsRing(c)
  PROVE  /\ sys'.va[Ring].gen = sys.born[c.memory]
         /\ sys'.va[Ring].off = c.offset + Ring - c.base
         /\ <<c.base, c.length>> \in sys'.ranges
<1>1. c \in Call /\ c.request = "UVM_MAP_EXTERNAL_ALLOCATION" /\ sys' = Effect(c) /\ Works(c)
  <2>1. c \in Call /\ r.ok = ok /\ r.kind = Kind(c)
    BY DEF RowOf, Makes
  <2> QED  BY <2>1, KindFacts DEF Makes
<1>2. <<c.base, c.length>> \in sys.ranges
  BY <1>1 DEF Works
<1>3. sys'.ranges = sys.ranges
  BY <1>1, SpaceAfter
<1>4. InRange(Ring, c.base, c.length) /\ Ring \in Vas
  BY BindingAssumption DEF InRange, HoldsRing
<1> QED  BY <1>1, <1>2, <1>3, <1>4, ExternalShows

\* What a row that maps a file has shown.
LEMMA RowMaps ==
  ASSUME sys \in System, NEW c, NEW ok, NEW r, Makes(c, ok), r = RowOf(c, ok),
         r.ok, r.kind = "mmap", c.fd \in Files, NEW a \in Pages, InRange(a, c.address, c.length)
  PROVE  /\ sys'.page[a].gen = sys.context[c.fd].gen
         /\ sys'.page[a].off = sys.context[c.fd].off + a - c.address
<1>1. c \in Call /\ c.request = "mmap" /\ sys' = Effect(c)
  <2>1. c \in Call /\ r.ok = ok /\ r.kind = Kind(c)
    BY DEF RowOf, Makes
  <2> QED  BY <2>1, KindFacts DEF Makes
<1> QED  BY <1>1, MmapShows

\* A call that leaves no row changes nothing but pages that showed nothing.
LEMMA NoRow ==
  ASSUME sys \in System, NEW c, NEW ok, Makes(c, ok), ~Observed(c)
  PROVE  /\ sys'.births = sys.births /\ sys'.born = sys.born /\ sys'.userd = sys.userd
         /\ sys'.context = sys.context /\ sys'.vaspace = sys.vaspace /\ sys'.bound = sys.bound
         /\ sys'.ranges = sys.ranges /\ sys'.va = sys.va
         /\ \A a \in Pages : sys.page[a].gen # 0 => sys'.page[a] = sys.page[a]
<1>1. c \in Call /\ c.request = "mmap" /\ ~c.fixed /\ ok \in BOOLEAN
  BY DEF Observed, Makes
<1>2. CASE ~ok
  BY <1>2 DEF Makes
<1>3. CASE ok
  <2>1. sys' = KernelEffect(c) /\ Works(c)
    BY <1>1, <1>3 DEF Makes, Effect, RmRequests, KernelRequests
  <2>2. ASSUME NEW a \in Pages, sys.page[a].gen # 0 PROVE sys'.page[a] = sys.page[a]
    <3>1. a \notin c.address..(c.address + c.length - 1)
      BY <1>1, <2>1, <2>2 DEF Works, Nothing
    <3> QED  BY <1>1, <2>1, <3>1 DEF KernelEffect, System, Filled
  <2> QED  BY <1>1, <2>1, <2>2 DEF KernelEffect, System
<1> QED  BY <1>1, <1>2, <1>3

--------------------------------------------------------------------------------
(* A row more.                                                              *)

RowIs(c, ok, r) ==
  /\ Makes(c, ok) /\ r = RowOf(c, ok)
  /\ log' = Append(log, r)

\* The rows after a call.
LEMMA NewRow ==
  ASSUME log \in Seq(Row), NEW c, NEW ok, NEW r, RowIs(c, ok, r)
  PROVE  /\ r \in Row /\ r.call = c
         /\ log' \in Seq(Row) /\ Len(log) \in Nat /\ Len(log') = Len(log) + 1
         /\ Places = 1..Len(log) /\ Places' = 1..(Len(log) + 1)
         /\ Places \subseteq Nat
         /\ \A i \in Places : log'[i] = log[i] /\ log[i] \in Row
         /\ log'[Len(log) + 1] = r
<1>1. r \in Row /\ r.call = c
  BY DEF RowIs, Makes, Row, RowOf
<1> QED  BY <1>1 DEF RowIs, Places

\* What lives after a row has lived before it or is given by it.
LEMMA LivesBack ==
  ASSUME log \in Seq(Row), NEW c, NEW ok, NEW r, RowIs(c, ok, r), NEW h, NEW i, Lives(h, i)'
  PROVE  \/ i \in Places /\ Lives(h, i) /\ ~Gives(r, h) /\ ~Frees(r, h)
         \/ i = Len(log) + 1 /\ Gives(r, h)
<1>1. /\ i \in Places' /\ Gives(log'[i], h)
      /\ \A j \in Places' : j > i => ~Gives(log'[j], h) /\ ~Frees(log'[j], h)
  BY DEF Lives
<1> QED  BY <1>1, NewRow DEF Lives

\* An object that lives since an earlier row keeps its generation.
LEMMA LivesOn ==
  ASSUME sys \in System, log \in Seq(Row), NEW c, NEW ok, NEW r, RowIs(c, ok, r),
         NEW h \in Handles, NEW i, i < Len(log) + 1, Lives(h, i)'
  PROVE  i \in Places /\ Lives(h, i) /\ sys'.born[h] = sys.born[h]
<1>1. i \in Places' /\ i \in Nat
  BY NewRow DEF Lives
<1>2. i \in Places /\ Lives(h, i) /\ ~Gives(r, h) /\ ~Frees(r, h)
  BY <1>1, LivesBack, NewRow
<1> QED  BY <1>2, RowBorn DEF RowIs

\* What is attached after a row was attached before it or by it.
LEMMA AttachedBack ==
  ASSUME sys \in System, log \in Seq(Row), NEW c, NEW ok, NEW r, RowIs(c, ok, r),
         NEW mem \in Memories, NEW s \in Places', Attached(mem, s)'
  PROVE  /\ s \in Places => Attached(mem, s)
         /\ s = Len(log) + 1 => Attaches(r, mem)
         /\ sys'.born[mem] = sys.born[mem]
         /\ \E j \in Places : Lives(mem, j)
<1>1. /\ Attaches(log'[s], mem)
      /\ \E j \in Places' : j < s /\ Lives(mem, j)'
  BY DEF Attached
<1>2. PICK j \in Places' : j < s /\ Lives(mem, j)'
  BY <1>1
<1>3. j < Len(log) + 1
  BY <1>2, NewRow
<1>4. j \in Places /\ Lives(mem, j) /\ sys'.born[mem] = sys.born[mem]
  BY <1>2, <1>3, LivesOn DEF Handles
<1> QED  BY <1>1, <1>2, <1>4, NewRow DEF Attached

\* A row more: the births.
LEMMA BornStep ==
  ASSUME sys \in System, Given(sys), log \in Seq(Row), BornInv,
         NEW c, NEW ok, NEW r, RowIs(c, ok, r)
  PROVE  BornInv'
<1>1. sys.births \in Nat /\ sys.born \in [Handles -> Nat] /\ \A h \in Handles : sys.born[h] <= sys.births
  BY DEF System, Given
<1>2. ASSUME NEW h \in Handles, NEW i \in Places', Lives(h, i)' PROVE sys'.born[h] # 0
  <2>1. CASE i \in Places /\ Lives(h, i) /\ ~Gives(r, h) /\ ~Frees(r, h)
    BY <2>1, RowBorn DEF RowIs, BornInv
  <2>2. CASE Gives(r, h)
    BY <1>1, <2>2, RowBorn DEF RowIs
  <2> QED  BY <1>2, <2>1, <2>2, LivesBack
<1>3. ASSUME NEW h \in Handles, NEW k \in Handles, h # k, sys'.born[h] = sys'.born[k], sys'.born[h] # 0
      PROVE FALSE
  <2>1. ~(Gives(r, h) /\ Gives(r, k))
    BY <1>3 DEF Gives
  <2>2. \A x \in Handles : /\ Gives(r, x) => sys'.born[x] = sys.births + 1
                           /\ ~Gives(r, x) => sys'.born[x] \in {sys.born[x], 0}
    BY RowBorn DEF RowIs
  <2> QED  BY <1>1, <1>3, <2>1, <2>2 DEF BornInv
<1> QED  BY <1>2, <1>3 DEF BornInv

\* The channel is allocated with a memory object.
LEMMA ChannelRow ==
  ASSUME NEW r \in Row, Gives(r, "channel")
  PROVE  r.call.memory \in Memories /\ r.call.memory \in Handles /\ r.call.offset \in Nat
<1>1. r.call \in Call /\ r.kind = Kind(r.call)
  BY RowFields
<1>2. Allocates(r.call) /\ r.call.object = "channel"
  BY <1>1, KindFacts DEF Gives
<1> QED  BY <1>1, <1>2, CallFields, BindingAssumption DEF Allocates, Handles

\* A row more: the USERD.
LEMMA UserdStep ==
  ASSUME sys \in System, log \in Seq(Row), UserdInv,
         NEW c, NEW ok, NEW r, RowIs(c, ok, r)
  PROVE  UserdInv'
<1>1. SUFFICES ASSUME NEW mem \in Memories, NEW i \in Places', NEW j \in Places',
                      Lives("channel", i)', log'[i].call.memory = mem, j < i, Lives(mem, j)'
               PROVE  sys'.userd.gen = sys'.born[mem] /\ sys'.userd.off = log'[i].call.offset
  BY DEF UserdInv
<1>2. j \in Places /\ Lives(mem, j) /\ sys'.born[mem] = sys.born[mem]
  <2>1. j < Len(log) + 1 /\ mem \in Handles
    BY <1>1, NewRow DEF Handles
  <2> QED  BY <1>1, <2>1, LivesOn
<1>3. CASE i \in Places /\ Lives("channel", i) /\ ~Gives(r, "channel")
  <2>1. log'[i] = log[i] /\ sys'.userd = sys.userd
    BY <1>3, NewRow, RowUserd DEF RowIs
  <2> QED  BY <1>1, <1>2, <1>3, <2>1 DEF UserdInv
<1>4. CASE i = Len(log) + 1 /\ Gives(r, "channel")
  <2>1. log'[i] = r /\ r.call = c
    BY <1>4, NewRow
  <2>2. sys'.userd = [gen |-> sys.born[c.memory], off |-> c.offset, at |-> -1]
    BY <1>4, RowUserd DEF RowIs
  <2> QED  BY <1>1, <1>2, <2>1, <2>2
<1> QED  BY <1>1, <1>3, <1>4, LivesBack

\* A row that attaches memory names a file.
LEMMA AttachRow ==
  ASSUME NEW r \in Row, NEW mem, Attaches(r, mem)
  PROVE  r.call.map_fd \in Files /\ r.call.offset \in Nat /\ r.call.length \in Nat
<1>1. r.call \in Call /\ r.kind = Kind(r.call)
  BY RowFields
<1>2. r.call.request = "RM_MAP_MEMORY"
  BY <1>1, KindFacts DEF Attaches
<1> QED  BY <1>1, <1>2, CallFields

\* A row more: the files.
LEMMA ContextStep ==
  ASSUME sys \in System, log \in Seq(Row), ContextInv,
         NEW c, NEW ok, NEW r, RowIs(c, ok, r)
  PROVE  ContextInv'
<1>1. SUFFICES ASSUME NEW mem \in Memories, NEW s \in Places', Attached(mem, s)',
                      \A i \in Places' : i > s => ~UsesFile(log'[i], log'[s].call.map_fd)
               PROVE  sys'.context[log'[s].call.map_fd] =
                        [gen |-> sys'.born[mem], off |-> log'[s].call.offset, length |-> log'[s].call.length]
  BY DEF ContextInv
<1>2. sys'.born[mem] = sys.born[mem]
  BY <1>1, AttachedBack
<1>3. Attaches(log'[s], mem) /\ log'[s] \in Row
  BY <1>1, NewRow DEF Attached
<1>4. log'[s].call.map_fd \in Files
  BY <1>3, AttachRow
<1>5. CASE s \in Places
  <2>1. log'[s] = log[s] /\ Attached(mem, s)
    BY <1>1, <1>5, AttachedBack, NewRow
  <2>2. \A i \in Places : i > s => ~UsesFile(log[i], log[s].call.map_fd)
    BY <1>1, <2>1, NewRow
  <2>3. ~UsesFile(r, log[s].call.map_fd)
    BY <1>1, <1>5, <2>1, NewRow
  <2>4. sys'.context[log[s].call.map_fd] = sys.context[log[s].call.map_fd]
    BY <1>4, <2>1, <2>3, RowContext DEF RowIs
  <2> QED  BY <1>2, <1>5, <2>1, <2>2, <2>4 DEF ContextInv
<1>6. CASE s = Len(log) + 1
  <2>1. log'[s] = r /\ r.call = c /\ Attaches(r, mem)
    BY <1>3, <1>6, NewRow
  <2>2. sys'.context[c.map_fd] = [gen |-> sys.born[mem], off |-> c.offset, length |-> c.length]
    BY <1>4, <2>1, RowContext DEF RowIs
  <2> QED  BY <1>2, <2>1, <2>2
<1> QED  BY <1>1, <1>5, <1>6, NewRow

\* A row more: the pages.  An mmap takes what its file was attached to; a later call
\* that could change one of the pages spoils it, maps only free ones, or takes away
\* another object.
LEMMA PageStep ==
  ASSUME sys \in System, log \in Seq(Row), BornInv, ContextInv, PageInv,
         NEW c, NEW ok, NEW r, RowIs(c, ok, r)
  PROVE  PageInv'
<1>1. SUFFICES ASSUME NEW mem \in Memories, NEW s \in Places', NEW m \in Places',
                      Attached(mem, s)', Mapped(s, m)',
                      \A i \in Places' : i > m => ~Spoils(log'[i], log'[m].call, mem),
                      NEW a \in Pages,
                      log'[m].call.address <= a, a < log'[m].call.address + log'[m].call.length
               PROVE  /\ sys'.page[a].gen = sys'.born[mem]
                      /\ sys'.page[a].off = log'[s].call.offset + a - log'[m].call.address
  BY DEF PageInv
<1>2. /\ s < m /\ log'[m].kind = "mmap" /\ log'[m].ok
      /\ log'[m].call.fd = log'[s].call.map_fd /\ log'[m].call.length = log'[s].call.length
      /\ \A i \in Places' : s < i /\ i < m => ~UsesFile(log'[i], log'[s].call.map_fd)
  BY <1>1 DEF Mapped
<1>3. s \in Places /\ log'[s] = log[s] /\ s \in Nat
  BY <1>2, NewRow
<1>4. /\ Attached(mem, s) /\ sys'.born[mem] = sys.born[mem]
      /\ \E j \in Places : Lives(mem, j)
  BY <1>1, <1>3, AttachedBack
<1>5. sys.born[mem] # 0
  BY <1>4 DEF BornInv, Handles
<1>6. log[s].call.map_fd \in Files
  BY <1>3, <1>4, NewRow, AttachRow DEF Attached
<1>7. CASE m \in Places
  <2>1. log'[m] = log[m] /\ log[m] \in Row /\ m < Len(log) + 1
    BY <1>7, NewRow
  <2>2. log[m].call.address \in Nat /\ log[m].call.length \in Nat
    <3>1. log[m].call \in Call /\ log[m].call.request = "mmap"
      BY <1>2, <2>1, RowFields, KindFacts
    <3> QED  BY <3>1, CallFields DEF KernelRequests
  <2>3. Mapped(s, m)
    <3>1. \A i \in Places : s < i /\ i < m => ~UsesFile(log[i], log[s].call.map_fd)
      BY <1>2, <1>3, NewRow
    <3> QED  BY <1>2, <1>3, <1>7, <2>1, <3>1 DEF Mapped
  <2>4. \A i \in Places : i > m => ~Spoils(log[i], log[m].call, mem)
    BY <1>1, <2>1, NewRow
  <2>5. ~Spoils(r, log[m].call, mem)
    BY <1>1, <2>1, NewRow
  <2>6. sys.page[a].gen = sys.born[mem] /\ sys.page[a].off = log[s].call.offset + a - log[m].call.address
    BY <1>1, <1>3, <1>4, <1>7, <2>1, <2>3, <2>4 DEF PageInv
  <2>7. InRange(a, log[m].call.address, log[m].call.length)
    BY <1>1, <2>1 DEF InRange
  <2>8. sys'.page[a] = sys.page[a]
    BY <1>5, <2>2, <2>5, <2>6, <2>7, RowPage DEF RowIs
  <2> QED  BY <1>3, <1>4, <2>1, <2>6, <2>8
<1>8. CASE m = Len(log) + 1
  <2>1. log'[m] = r /\ r.call = c
    BY <1>8, NewRow
  <2>2. \A i \in Places : i > s => ~UsesFile(log[i], log[s].call.map_fd)
    BY <1>2, <1>3, <1>8, NewRow
  <2>3. sys.context[log[s].call.map_fd] =
          [gen |-> sys.born[mem], off |-> log[s].call.offset, length |-> log[s].call.length]
    BY <1>3, <1>4, <2>2 DEF ContextInv
  <2>4. r.ok /\ r.kind = "mmap" /\ c.fd = log[s].call.map_fd
    BY <1>2, <1>3, <2>1
  <2>5. InRange(a, c.address, c.length)
    BY <1>1, <2>1 DEF InRange
  <2>6. /\ sys'.page[a].gen = sys.context[c.fd].gen
        /\ sys'.page[a].off = sys.context[c.fd].off + a - c.address
    BY <1>6, <2>4, <2>5, RowMaps DEF RowIs
  <2> QED  BY <1>3, <1>4, <2>1, <2>3, <2>4, <2>6
<1> QED  BY <1>1, <1>7, <1>8, NewRow

\* A row more: the channel.
LEMMA BoundStep ==
  ASSUME sys \in System, log \in Seq(Row), BoundInv,
         NEW c, NEW ok, NEW r, RowIs(c, ok, r)
  PROVE  BoundInv'
<1>1. SUFFICES ASSUME NEW i \in Places', NEW g \in Places', Lives("channel", i)', i < g,
                      log'[g].ok, log'[g].kind = "uvm_register_channel",
                      \A k \in Places' : k > g => ~Releases(log'[k])
               PROVE  sys'.bound = sys'.born["channel"]
  BY DEF BoundInv
<1>2. i \in Places /\ Lives("channel", i) /\ sys'.born["channel"] = sys.born["channel"]
  <2>1. i < Len(log) + 1
    BY <1>1, NewRow
  <2> QED  BY <1>1, <2>1, LivesOn DEF Handles
<1>3. CASE g = Len(log) + 1
  <2>1. log'[g] = r
    BY <1>3, NewRow
  <2> QED  BY <1>1, <1>2, <2>1, RowBound DEF RowIs
<1>4. CASE g \in Places
  <2>1. log'[g] = log[g] /\ g < Len(log) + 1
    BY <1>4, NewRow
  <2>2. \A k \in Places : k > g => ~Releases(log[k])
    BY <1>1, NewRow
  <2>3. ~Releases(r)
    BY <1>1, <2>1, NewRow
  <2>4. sys.bound = sys.born["channel"]
    BY <1>1, <1>2, <1>4, <2>1, <2>2 DEF BoundInv
  <2> QED  BY <1>2, <2>3, <2>4, RowBound DEF RowIs
<1> QED  BY <1>1, <1>3, <1>4, NewRow

\* A row more: the address space.
LEMMA SpaceStep ==
  ASSUME sys \in System, log \in Seq(Row), SpaceInv,
         NEW c, NEW ok, NEW r, RowIs(c, ok, r)
  PROVE  SpaceInv'
<1>0. Makes(c, ok) /\ r = RowOf(c, ok)
  BY DEF RowIs
<1>1. \A i \in Places : i \in Places' /\ i < Len(log) + 1 /\ (RegistersSpace(i) => RegistersSpace(i)')
  BY NewRow DEF RegistersSpace
<1>2. r.ok /\ r.kind = "uvm_register_vaspace" => \E i \in Places' : RegistersSpace(i)'
  BY NewRow DEF RegistersSpace
<1>3. sys'.vaspace => \E i \in Places' : RegistersSpace(i)'
  BY <1>0, <1>1, <1>2, RowBound DEF SpaceInv
<1>4. ASSUME NEW g \in Places', log'[g].ok, log'[g].kind = "uvm_register_channel"
      PROVE  \E i \in Places' : i < g /\ RegistersSpace(i)'
  <2>1. CASE g \in Places
    <3>1. PICK i \in Places : i < g /\ RegistersSpace(i)
      BY <1>4, <2>1, NewRow DEF SpaceInv
    <3> QED  BY <1>1, <3>1
  <2>2. CASE g = Len(log) + 1
    <3>1. sys.vaspace
      BY <1>0, <1>4, <2>2, NewRow, RowBound
    <3>2. PICK i \in Places : RegistersSpace(i)
      BY <3>1 DEF SpaceInv
    <3> QED  BY <1>1, <2>2, <3>2
  <2> QED  BY <1>4, <2>1, <2>2, NewRow
<1> QED  BY <1>3, <1>4 DEF SpaceInv

\* A row more: the GPU's page table at the ring's address.
LEMMA VaStep ==
  ASSUME sys \in System, log \in Seq(Row), RangesInv, VaInv,
         NEW c, NEW ok, NEW r, RowIs(c, ok, r)
  PROVE  VaInv'
<1>0. Makes(c, ok) /\ r = RowOf(c, ok)
  BY DEF RowIs
<1>1. SUFFICES ASSUME NEW mem \in Memories, NEW g \in Places',
                      log'[g].ok, log'[g].kind = "uvm_map_external", HoldsRing(log'[g].call),
                      log'[g].call.memory = mem,
                      NEW j \in Places', j < g, Lives(mem, j)',
                      \A i \in Places' : i > g => ~SpoilsRing(log'[i], log'[g].call)
               PROVE  /\ sys'.va[Ring].gen = sys'.born[mem]
                      /\ sys'.va[Ring].off = log'[g].call.offset + Ring - log'[g].call.base
                      /\ <<log'[g].call.base, log'[g].call.length>> \in sys'.ranges
  BY DEF VaInv
<1>2. j \in Places /\ Lives(mem, j) /\ sys'.born[mem] = sys.born[mem]
  <2>1. j < Len(log) + 1
    BY <1>1, NewRow
  <2> QED  BY <1>1, <2>1, LivesOn DEF Handles
<1>3. CASE g = Len(log) + 1
  <2>1. log'[g] = r /\ r.call = c
    BY <1>3, NewRow
  <2> QED  BY <1>0, <1>1, <1>2, <2>1, RowMapsRing
<1>4. CASE g \in Places
  <2>1. log'[g] = log[g] /\ g < Len(log) + 1
    BY <1>4, NewRow
  <2>2. \A i \in Places : i > g => ~SpoilsRing(log[i], log[g].call)
    BY <1>1, <2>1, NewRow
  <2>3. ~SpoilsRing(r, log[g].call)
    BY <1>1, <2>1, NewRow
  <2>4. /\ sys.va[Ring].gen = sys.born[mem]
        /\ sys.va[Ring].off = log[g].call.offset + Ring - log[g].call.base
        /\ <<log[g].call.base, log[g].call.length>> \in sys.ranges
    BY <1>1, <1>2, <1>4, <2>1, <2>2 DEF VaInv
  <2>5. HoldsRing(log[g].call)
    BY <1>1, <2>1
  <2>6. sys'.va[Ring] = sys.va[Ring] /\ <<log[g].call.base, log[g].call.length>> \in sys'.ranges
    BY <1>0, <2>3, <2>4, <2>5, RowRing
  <2> QED  BY <1>2, <2>1, <2>4, <2>6
<1> QED  BY <1>1, <1>3, <1>4, NewRow

--------------------------------------------------------------------------------
(* The invariant.                                                           *)

Offered == Others \union [call : ToSet(Usual), ok : BOOLEAN]

LogInv ==
  /\ log \in Seq(Row)
  /\ \A i \in DOMAIN log : [call |-> log[i].call, ok |-> log[i].ok] \in Offered

SavedInv ==
  /\ saved.born \in [Handles -> Nat]
  /\ saved.at \in [Pages -> Nat \union {-1, -2}]
  /\ saved = [born |-> saved.born, at |-> saved.at]
  /\ stage \in {"open", "identified", "saved", "marked"}
  /\ step \in 1..(Len(Usual) + 1)
  /\ others \in 0..MaxOthers

BindingInv ==
  /\ sys \in System /\ Given(sys)
  /\ LogInv /\ SavedInv
  /\ RowsInv

\* At the beginning there is nothing.
LEMMA InvInit == BindingInit => BindingInv
<1>1. SUFFICES ASSUME BindingInit PROVE BindingInv
  OBVIOUS
<1>2. Clean \in System
  BY NothingIsSpot DEF Clean, System
<1>3. sys = Clean /\ log = <<>> /\ Places = {}
  BY <1>1 DEF BindingInit, Places
<1>4. Given(sys)
  BY <1>3 DEF Given, Clean, Nothing, Unattached
<1>5. LogInv
  BY <1>3 DEF LogInv
<1>6. SavedInv
  <2>1. saved = [born |-> Clean.born, at |-> [a \in Pages |-> -1]]
    BY <1>1 DEF BindingInit
  <2>2. Clean.born \in [Handles -> Nat]
    BY DEF Clean
  <2>3. stage = "open" /\ step = 1 /\ others = 0 /\ Len(Usual) \in Nat /\ MaxOthers \in Nat
    BY <1>1, BindingAssumption DEF BindingInit
  <2> QED  BY <2>1, <2>2, <2>3 DEF SavedInv
<1>7. RowsInv
  <2>1. BornInv /\ UserdInv /\ ContextInv /\ PageInv /\ BoundInv /\ VaInv
    BY <1>3 DEF BornInv, UserdInv, ContextInv, PageInv, BoundInv, VaInv, Clean
  <2>2. SpaceInv /\ RangesInv
    BY <1>3 DEF SpaceInv, RangesInv, Clean
  <2> QED  BY <2>1, <2>2 DEF RowsInv
<1> QED  BY <1>2, <1>3, <1>4, <1>5, <1>6, <1>7 DEF BindingInv

\* A call that leaves a row.
LEMMA RowStep ==
  ASSUME sys \in System, Given(sys), LogInv, RowsInv, NEW c, NEW ok, NEW r, RowIs(c, ok, r)
  PROVE  RowsInv'
<1>1. log \in Seq(Row) /\ BornInv /\ RangesInv /\ Makes(c, ok) /\ r = RowOf(c, ok)
  BY DEF LogInv, RowsInv, RowIs
<1> QED
  BY <1>1, BornStep, UserdStep, ContextStep, PageStep, BoundStep, SpaceStep, RowRanges, VaStep DEF RowsInv

\* A call that leaves none.
LEMMA NoRowStep ==
  ASSUME sys \in System, RowsInv, NEW c, NEW ok, Makes(c, ok), ~Observed(c), log' = log
  PROVE  RowsInv'
<1>1. /\ sys'.born = sys.born /\ sys'.userd = sys.userd
      /\ sys'.context = sys.context /\ sys'.vaspace = sys.vaspace /\ sys'.bound = sys.bound
      /\ sys'.ranges = sys.ranges /\ sys'.va = sys.va
      /\ \A a \in Pages : sys.page[a].gen # 0 => sys'.page[a] = sys.page[a]
  BY NoRow
<1>2. /\ Places' = Places
      /\ \A h, i : Lives(h, i)' <=> Lives(h, i)
      /\ \A mem, s : Attached(mem, s)' <=> Attached(mem, s)
      /\ \A s, m : Mapped(s, m)' <=> Mapped(s, m)
      /\ \A i : RegistersSpace(i)' <=> RegistersSpace(i)
  BY DEF Places, Lives, Attached, Mapped, RegistersSpace
<1>3. BornInv' /\ UserdInv'
  BY <1>1, <1>2 DEF RowsInv, BornInv, UserdInv
<1>4. ContextInv'
  BY <1>1, <1>2 DEF RowsInv, ContextInv
<1>5. PageInv'
  <2>1. SUFFICES ASSUME NEW mem \in Memories, NEW s \in Places, NEW m \in Places,
                        Attached(mem, s), Mapped(s, m),
                        \A i \in Places : i > m => ~Spoils(log[i], log[m].call, mem),
                        NEW a \in Pages,
                        log[m].call.address <= a, a < log[m].call.address + log[m].call.length
                 PROVE  /\ sys'.page[a].gen = sys.born[mem]
                        /\ sys'.page[a].off = log[s].call.offset + a - log[m].call.address
    BY <1>1, <1>2 DEF PageInv
  <2>2. /\ sys.page[a].gen = sys.born[mem]
        /\ sys.page[a].off = log[s].call.offset + a - log[m].call.address
    BY <2>1 DEF RowsInv, PageInv
  <2>3. sys.born[mem] # 0
    BY <2>1 DEF RowsInv, BornInv, Attached, Handles
  <2> QED  BY <1>1, <2>2, <2>3
<1>6. BoundInv' /\ SpaceInv'
  BY <1>1, <1>2 DEF RowsInv, BoundInv, SpaceInv
<1>7. RangesInv' /\ VaInv'
  BY <1>1, <1>2 DEF RowsInv, RangesInv, VaInv
<1> QED  BY <1>3, <1>4, <1>5, <1>6, <1>7 DEF RowsInv

\* A call that is recorded, with its row or without.
LEMMA RecordStep ==
  ASSUME BindingInv, NEW c \in Call, NEW ok \in BOOLEAN, Within(c), Record(c, ok),
         [call |-> c, ok |-> ok] \in Offered
  PROVE  sys' \in System /\ Given(sys)' /\ LogInv' /\ RowsInv'
<1> DEFINE r == RowOf(c, ok)
<1>1. /\ Makes(c, ok)
      /\ log' = IF Observed(c) THEN Append(log, r) ELSE log
  BY DEF Record, Makes, RowOf
<1>2. sys' \in System /\ Given(sys)'
  BY <1>1, EffectType, GivenAfter DEF BindingInv, Makes
<1>3. CASE Observed(c)
  <2>1. RowIs(c, ok, r) /\ r.ok = ok
    BY <1>1, <1>3 DEF RowIs, RowOf
  <2> HIDE DEF r
  <2>2. LogInv'
    <3>1. log' \in Seq(Row) /\ DOMAIN log' = 1..(Len(log) + 1) /\ DOMAIN log = 1..Len(log)
      BY <2>1, NewRow DEF BindingInv, LogInv, Places
    <3>2. ASSUME NEW i \in DOMAIN log' PROVE [call |-> log'[i].call, ok |-> log'[i].ok] \in Offered
      <4>1. CASE i \in DOMAIN log
        <5>1. log'[i] = log[i]
          BY <2>1, <4>1, NewRow DEF BindingInv, LogInv, Places
        <5> QED  BY <4>1, <5>1 DEF BindingInv, LogInv
      <4>2. CASE i = Len(log) + 1
        <5>1. log'[i] = r /\ r.call = c
          BY <2>1, <4>2, NewRow DEF BindingInv, LogInv
        <5> QED  BY <2>1, <5>1
      <4> QED  BY <3>1, <3>2, <4>1, <4>2
    <3> QED  BY <3>1, <3>2 DEF LogInv, Offered
  <2>3. RowsInv'
    BY <2>1, RowStep DEF BindingInv
  <2> QED  BY <1>2, <2>2, <2>3
<1>4. CASE ~Observed(c)
  <2>1. log' = log
    BY <1>1, <1>4
  <2>2. LogInv'
    BY <2>1 DEF BindingInv, LogInv, Offered
  <2>3. RowsInv'
    BY <1>1, <1>4, <2>1, NoRowStep DEF BindingInv
  <2> QED  BY <1>2, <2>2, <2>3
<1> QED  BY <1>3, <1>4

\* Nothing else changes what the rows tell of.
LEMMA RowsUnchanged ==
  ASSUME BindingInv, UNCHANGED <<sys, log>>
  PROVE  sys' \in System /\ Given(sys)' /\ LogInv' /\ RowsInv'
BY DEF BindingInv, Given, LogInv, Offered, RowsInv, BornInv, UserdInv, ContextInv, PageInv, BoundInv,
       SpaceInv, RangesInv, VaInv, Places, Lives, Attached, Mapped, RegistersSpace

\* Every step keeps the invariant.
LEMMA InvStep == BindingInv /\ [BindingNext]_bindingVars => BindingInv'
<1> SUFFICES ASSUME BindingInv, [BindingNext]_bindingVars PROVE BindingInv'
  OBVIOUS
<1>0. /\ Len(Usual) \in Nat /\ MaxOthers \in Nat /\ DOMAIN Usual = 1..Len(Usual)
      /\ step \in 1..(Len(Usual) + 1) /\ others \in 0..MaxOthers
  BY BindingAssumption DEF BindingInv, SavedInv
<1>1. CASE UsualCall
  <2>1. /\ step \in DOMAIN Usual /\ Record(Usual[step], Works(Usual[step]))
        /\ step' = step + 1 /\ others' = others
    BY <1>0, <1>1 DEF UsualCall
  <2>2. Usual[step] \in Call /\ Within(Usual[step])
    BY <2>1, BindingAssumption
  <2>3. Works(Usual[step]) \in BOOLEAN
    BY DEF Works
  <2>4. [call |-> Usual[step], ok |-> Works(Usual[step])] \in Offered
    BY <2>1, <2>3 DEF Offered, ToSet
  <2>5. sys' \in System /\ Given(sys)' /\ LogInv' /\ RowsInv'
    BY <2>1, <2>2, <2>3, <2>4, RecordStep
  <2>6. SavedInv'
    BY <1>0, <2>1 DEF BindingInv, SavedInv, Record
  <2> QED  BY <2>5, <2>6 DEF BindingInv
<1>2. CASE OtherCall
  <2>1. PICK row \in Others : Record(row.call, row.ok)
    BY <1>2 DEF OtherCall
  <2>2. row.call \in Call /\ Within(row.call) /\ row.ok \in BOOLEAN
        /\ row = [call |-> row.call, ok |-> row.ok]
    BY BindingAssumption
  <2>3. [call |-> row.call, ok |-> row.ok] \in Offered
    BY <2>2 DEF Offered
  <2>4. sys' \in System /\ Given(sys)' /\ LogInv' /\ RowsInv'
    BY <2>1, <2>2, <2>3, RecordStep
  <2>5. SavedInv'
    BY <1>0, <1>2, <2>1 DEF BindingInv, SavedInv, Record, OtherCall
  <2> QED  BY <2>4, <2>5 DEF BindingInv
<1>3. CASE BeginAgain
  <2>1. SavedInv'
    BY <1>0, <1>3 DEF BindingInv, SavedInv, BeginAgain
  <2> QED  BY <1>3, <2>1, RowsUnchanged DEF BindingInv, BeginAgain
<1>4. CASE SaveIdentity
  <2>1. SavedInv'
    BY <1>4 DEF BindingInv, SavedInv, SaveIdentity, System
  <2> QED  BY <1>4, <2>1, RowsUnchanged DEF BindingInv, SaveIdentity
<1>5. CASE SaveMaps
  <2>1. SavedInv'
    <3>1. [a \in Pages |-> sys.page[a].at] \in [Pages -> Nat \union {-1, -2}]
      BY DEF BindingInv, System, Spot
    <3> QED  BY <1>5, <3>1 DEF BindingInv, SavedInv, SaveMaps
  <2> QED  BY <1>5, <2>1, RowsUnchanged DEF BindingInv, SaveMaps
<1>6. CASE WriteMark
  <2>1. SavedInv'
    BY <1>6 DEF BindingInv, SavedInv, WriteMark
  <2> QED  BY <1>6, <2>1, RowsUnchanged DEF BindingInv, WriteMark
<1>7. CASE UNCHANGED bindingVars
  <2>1. SavedInv'
    BY <1>7 DEF BindingInv, SavedInv, bindingVars
  <2> QED  BY <1>7, <2>1, RowsUnchanged DEF BindingInv, bindingVars
<1> QED  BY <1>1, <1>2, <1>3, <1>4, <1>5, <1>6, <1>7 DEF BindingNext, Done

--------------------------------------------------------------------------------
(* What is resolved.                                                        *)

\* The rows and their places.
LEMMA LogFacts ==
  ASSUME BindingInv
  PROVE  /\ Len(log) \in Nat /\ Places = 1..Len(log) /\ Places \subseteq Nat
         /\ \A i \in Places : log[i] \in Row
BY DEF BindingInv, LogInv, Places

\* A birth that is found is that of an object that lives.
LEMMA BirthLives ==
  ASSUME BindingInv, NEW h, Birth(h) # 0
  PROVE  Lives(h, Birth(h))
<1> DEFINE births == {i \in Oks({"alloc", "alloc_memory"}) : log[i].call.object = h}
<1>1. births # {} /\ Birth(h) = Max(births)
      /\ ~\E i \in Oks({"free"}) : log[i].call.object = h /\ i > Max(births)
  BY DEF Birth
<1>2. \A i \in Places : i \in births <=> Gives(log[i], h)
  BY DEF Oks, Ok, Is, Gives, Places
<1>3. births \in SUBSET (1..Len(log)) /\ Len(log) \in Nat /\ Places = 1..Len(log)
  BY LogFacts DEF Oks, Places
<1> HIDE DEF births
<1>4. Max(births) \in births /\ \A i \in births : Max(births) >= i
  BY <1>1, <1>3, MaxIsGreatest
<1>5. ASSUME NEW j \in Places, j > Max(births) PROVE ~Gives(log[j], h) /\ ~Frees(log[j], h)
  <2>1. ~Gives(log[j], h)
    <3>1. j \in Nat /\ Max(births) \in Nat
      <4>1. births \subseteq Nat
        BY <1>3
      <4> QED  BY <1>4, <1>5, <4>1, LogFacts
    <3>2. j \notin births
      BY <1>4, <1>5, <3>1
    <3> QED  BY <1>2, <1>5, <3>2
  <2>2. ~Frees(log[j], h)
    BY <1>1, <1>5 DEF Frees, Oks, Ok, Is, Places
  <2> QED  BY <2>1, <2>2
<1> QED  BY <1>1, <1>2, <1>3, <1>4, <1>5 DEF Lives

\* An mmap that is found, and maps what was attached, is the first use of its file.
LEMMA MmapMaps ==
  ASSUME BindingInv, NEW s \in Places, MmapOf(s) # 0,
         log[MmapOf(s)].ok, log[MmapOf(s)].call.length = log[s].call.length
  PROVE  Mapped(s, MmapOf(s))
<1> DEFINE fd == log[s].call.map_fd
           later == {i \in DOMAIN log : i > s /\ Uses(i, fd)}
<1>1. later # {} /\ MmapOf(s) = Min(later) /\ Is(Min(later), {"mmap"})
  BY DEF MmapOf
<1>2. \A i \in Places : i \in later <=> i > s /\ UsesFile(log[i], fd)
  BY DEF UsesFile, Uses, Ok, Is, Places
<1>3. later \in SUBSET Nat /\ later \subseteq Places /\ Places \subseteq Nat
  BY LogFacts DEF Places
<1> HIDE DEF later
<1>4. Min(later) \in later /\ \A i \in later : Min(later) <= i
  BY <1>1, <1>3, MinIsLeast
<1>5. UsesFile(log[Min(later)], fd) /\ log[Min(later)].kind = "mmap"
  BY <1>1, <1>2, <1>3, <1>4 DEF Is
<1>6. log[Min(later)].call.fd = fd
  BY <1>5 DEF UsesFile
<1>7. \A i \in Places : s < i /\ i < Min(later) => ~UsesFile(log[i], fd)
  <2>1. ASSUME NEW i \in Places, s < i, i < Min(later) PROVE ~UsesFile(log[i], fd)
    <3>1. i \in Nat /\ s \in Nat /\ Min(later) \in Nat
      BY <1>3, <1>4, <2>1
    <3>2. i \notin later
      BY <1>4, <2>1, <3>1
    <3> QED  BY <1>2, <2>1, <3>1, <3>2
  <2> QED  BY <2>1
<1> QED  BY <1>1, <1>2, <1>3, <1>4, <1>5, <1>6, <1>7 DEF Mapped

\* What the search has found.
LEMMA Found ==
  ASSUME BindingInv, ChannelResolved
  PROVE  /\ Lives("channel", ca) /\ channel = log[ca].call /\ ca \in Places
         /\ channel.memory \in Memories /\ channel.offset \in Nat
         /\ ma \in Places /\ ma < ca /\ Lives(channel.memory, ma)
         /\ setup \in Places /\ setup > ma /\ Attached(channel.memory, setup)
         /\ Covers(setup, channel.offset) /\ InMaps(setup, channel.offset)
         /\ Mapped(setup, MmapOf(setup))
         /\ \A i \in Places : i > MmapOf(setup) =>
              ~Spoils(log[i], log[MmapOf(setup)].call, channel.memory)
<1>1. ca # 0 /\ ma # 0 /\ ma < ca /\ Cardinality(Candidates) = 1
  BY DEF ChannelResolved
<1>2. Lives("channel", ca) /\ Lives(channel.memory, ma)
  BY <1>1, BirthLives DEF ca, ma
<1>3. ca \in Places /\ ma \in Places /\ Gives(log[ca], "channel") /\ log[ca] \in Row
  BY <1>2, LogFacts DEF Lives
<1>4. channel.memory \in Memories /\ channel.offset \in Nat
  BY <1>3, ChannelRow DEF channel
<1>5. setup \in Candidates
  <2>1. Candidates # {}
    BY <1>1, FS_EmptySet
  <2> QED  BY <2>1 DEF setup
<1>6. /\ setup \in Places /\ setup > ma /\ Attaches(log[setup], channel.memory)
      /\ Covers(setup, channel.offset) /\ InMaps(setup, channel.offset)
      /\ MmapOf(setup) # 0 /\ log[MmapOf(setup)].ok
      /\ log[MmapOf(setup)].call.length = log[setup].call.length
      /\ ~Undone(MmapOf(setup))
  BY <1>5 DEF Candidates, Oks, Ok, Is, Attaches, Places
<1>7. Attached(channel.memory, setup)
  BY <1>2, <1>3, <1>6, LogFacts DEF Attached
<1>8. Mapped(setup, MmapOf(setup))
  BY <1>6, MmapMaps
<1>9. ASSUME NEW i \in Places, i > MmapOf(setup)
      PROVE  ~Spoils(log[i], log[MmapOf(setup)].call, channel.memory)
  BY <1>6, <1>9 DEF Undone, Spoils, Ok, Is, Places
<1> QED  BY <1>1, <1>2, <1>3, <1>4, <1>6, <1>7, <1>8, <1>9 DEF channel

\* At the address of a unit that the mapping covers, it shows that unit.
LEMMA AddressShows ==
  ASSUME BindingInv, ChannelResolved, NEW off \in Int, Covers(setup, off), InMaps(setup, off)
  PROVE  LET shown == sys.page[Address(setup, off)]
         IN shown.gen = sys.born[channel.memory] /\ shown.gen # 0 /\ shown.off = off
<1> DEFINE m == MmapOf(setup)
           a == Address(setup, off)
<1>1. /\ setup \in Places /\ Attached(channel.memory, setup) /\ Mapped(setup, m)
      /\ \A i \in Places : i > m => ~Spoils(log[i], log[m].call, channel.memory)
      /\ channel.memory \in Memories /\ Lives(channel.memory, ma) /\ ma \in Places
  BY Found
<1>2. a = log[m].call.address + off - log[setup].call.offset /\ a \in Pages
  BY DEF Address, InMaps
<1>3. log[setup].call.offset \in Nat /\ log[setup].call.length \in Nat
  BY <1>1, LogFacts, AttachRow DEF Attached
<1>4. log[m].call.address \in Nat /\ log[m].call.length = log[setup].call.length /\ m \in Places
  <2>1. m \in Places /\ log[m].kind = "mmap" /\ log[m].call.length = log[setup].call.length
    BY <1>1 DEF Mapped
  <2>2. log[m].call \in Call /\ log[m].call.request = "mmap"
    BY <2>1, LogFacts, RowFields, KindFacts
  <2> QED  BY <2>1, <2>2, CallFields DEF KernelRequests
<1>5. log[m].call.address <= a /\ a < log[m].call.address + log[m].call.length
  BY <1>2, <1>3, <1>4 DEF Covers
<1> HIDE DEF m, a
<1>6. /\ sys.page[a].gen = sys.born[channel.memory]
      /\ sys.page[a].off = log[setup].call.offset + a - log[m].call.address
  BY <1>1, <1>2, <1>4, <1>5 DEF BindingInv, RowsInv, PageInv
<1>7. sys.born[channel.memory] # 0
  BY <1>1 DEF BindingInv, RowsInv, BornInv, Handles
<1>8. log[setup].call.offset + a - log[m].call.address = off
  BY <1>2, <1>3, <1>4
<1> QED  BY <1>6, <1>7, <1>8 DEF a

\* UserdIsLive, from what the rows tell.
LEMMA UserdFollows == BindingInv => UserdIsLive
<1>1. SUFFICES ASSUME BindingInv, ChannelResolved PROVE UserdIsLive
  BY DEF UserdIsLive
<1>2. /\ Lives("channel", ca) /\ channel = log[ca].call /\ ca \in Places
      /\ channel.memory \in Memories /\ channel.offset \in Nat
      /\ ma \in Places /\ ma < ca /\ Lives(channel.memory, ma)
      /\ Covers(setup, channel.offset) /\ InMaps(setup, channel.offset)
  BY <1>1, Found
<1>3. sys.userd.gen = sys.born[channel.memory] /\ sys.userd.off = channel.offset
  BY <1>1, <1>2 DEF BindingInv, RowsInv, UserdInv
<1>4. sys.born["channel"] # 0
  BY <1>1, <1>2 DEF BindingInv, RowsInv, BornInv, Handles
<1>5. LET shown == sys.page[Address(setup, channel.offset)]
      IN shown.gen = sys.born[channel.memory] /\ shown.gen # 0 /\ shown.off = channel.offset
  BY <1>1, <1>2, AddressShows
<1> QED  BY <1>3, <1>4, <1>5 DEF UserdIsLive

\* The one element of a set of places.
LEMMA OnlyIs ==
  ASSUME BindingInv, NEW D \in SUBSET Places, Only(D) # 0
  PROVE  D = {Only(D)}
<1>1. Cardinality(D) = 1 /\ Only(D) = CHOOSE i \in D : TRUE
  BY DEF Only
<1>2. IsFiniteSet(D)
  <2>1. IsFiniteSet(1..Len(log)) /\ D \in SUBSET (1..Len(log))
    BY LogFacts, FS_Interval
  <2> QED  BY <2>1, FS_Subset
<1>3. \E x : D = {x}
  BY <1>1, <1>2, FS_Singleton
<1> QED  BY <1>1, <1>3

\* RingIsShared: the channel was registered after the only address space, and released
\* neither from it nor with it; the ring's mapping was not spoilt.
LEMMA RingFollows == BindingInv => RingIsShared
<1>1. SUFFICES ASSUME BindingInv, RingResolved PROVE RingIsShared
  BY DEF RingIsShared
<1>2. ChannelResolved
  BY <1>1 DEF RingResolved
<1>3. /\ Lives("channel", ca) /\ ca \in Places /\ channel.memory \in Memories
      /\ ma \in Places /\ Lives(channel.memory, ma)
  BY <1>1, <1>2, Found
<1>4. /\ reg # 0 /\ cr # 0 /\ ~Unregistered /\ gm > reg
      /\ log[gm].call.memory = channel.memory /\ ma < gm /\ ~RingChanged(gm)
      /\ Covers(setup, RingOffset) /\ InMaps(setup, RingOffset)
  BY <1>1 DEF RingResolved
<1>5. /\ reg \in Places /\ RegistersSpace(reg)
      /\ \A i \in Places : RegistersSpace(i) => i = reg
  <2> DEFINE D == Oks({"uvm_register_vaspace"})
  <2>1. \A i \in Places : i \in D <=> RegistersSpace(i)
    BY DEF Oks, Ok, Is, RegistersSpace, Places
  <2>2. D \in SUBSET Places /\ reg = Only(D)
    BY DEF Oks, reg, Places
  <2> HIDE DEF D
  <2>3. D = {reg}
    BY <1>1, <1>4, <2>2, OnlyIs
  <2> QED  BY <2>1, <2>2, <2>3
<1>6. cr \in Places /\ cr > ca /\ log[cr].ok /\ log[cr].kind = "uvm_register_channel"
  <2> DEFINE D == {i \in Oks({"uvm_register_channel"}) : i > ca}
  <2>1. D \in SUBSET Places /\ cr = Only(D)
    BY DEF Oks, cr, Places
  <2>2. \A i \in D : i > ca /\ log[i].ok /\ log[i].kind = "uvm_register_channel"
    BY DEF Oks, Ok, Is
  <2> HIDE DEF D
  <2>3. D = {cr}
    BY <1>1, <1>4, <2>1, OnlyIs
  <2> QED  BY <2>1, <2>2, <2>3
<1>7. gm \in Places /\ log[gm].ok /\ log[gm].kind = "uvm_map_external" /\ HoldsRing(log[gm].call)
  <2> DEFINE D == {i \in Oks({"uvm_map_external"}) :
                     log[i].call.base <= Ring /\ Ring < log[i].call.base + log[i].call.length}
  <2>1. D \in SUBSET Places /\ gm = Only(D)
    BY DEF Oks, gm, Places
  <2>2. \A i \in D : log[i].ok /\ log[i].kind = "uvm_map_external" /\ HoldsRing(log[i].call)
    BY DEF Oks, Ok, Is, HoldsRing
  <2> HIDE DEF D
  <2>3. gm # 0
    BY <1>1, <1>4, <1>5, LogFacts
  <2>4. D = {gm}
    BY <1>1, <2>1, <2>3, OnlyIs
  <2> QED  BY <2>1, <2>2, <2>4
<1>8. reg < cr
  BY <1>1, <1>5, <1>6 DEF BindingInv, RowsInv, SpaceInv
<1>9. sys.bound = sys.born["channel"]
  <2>1. ASSUME NEW k \in Places, k > cr PROVE ~Releases(log[k])
    <3>1. k > reg
      BY <1>1, <1>5, <1>6, <1>8, <2>1, LogFacts
    <3> QED  BY <1>4, <2>1, <3>1 DEF Unregistered, Releases, Ok, Is, Places
  <2> QED  BY <1>1, <1>3, <1>6, <2>1 DEF BindingInv, RowsInv, BoundInv
<1>10. ASSUME NEW i \in Places, i > gm PROVE ~SpoilsRing(log[i], log[gm].call)
  <2>1. i > reg
    BY <1>1, <1>4, <1>5, <1>7, <1>10, LogFacts
  <2>2. ~(\E k \in DOMAIN log : Ok(k, {"close"}) /\ log[k].call.fd = "uvm")
        /\ ~(\E k \in DOMAIN log : k > reg /\ Ok(k, {"uvm_unregister_vaspace"}))
    BY <1>4 DEF Unregistered
  <2> QED  BY <1>4, <1>10, <2>1, <2>2 DEF RingChanged, SpoilsRing, Ok, Is, Places
<1>11. sys.va[Ring].gen = sys.born[channel.memory] /\ sys.va[Ring].off = RingOffset
  BY <1>1, <1>3, <1>4, <1>7, <1>10 DEF BindingInv, RowsInv, VaInv, RingOffset
<1>12. RingOffset \in Int
  <2>1. log[gm].call \in Call /\ log[gm].call.request = "UVM_MAP_EXTERNAL_ALLOCATION"
    BY <1>1, <1>7, LogFacts, RowFields, KindFacts
  <2>2. log[gm].call.offset \in Nat /\ log[gm].call.base \in Nat
    BY <2>1, CallFields
  <2> QED  BY <2>2 DEF RingOffset, Ring
<1>13. LET shown == sys.page[Address(setup, RingOffset)]
       IN shown.gen = sys.born[channel.memory] /\ shown.gen # 0 /\ shown.off = RingOffset
  BY <1>1, <1>2, <1>4, <1>12, AddressShows
<1> QED  BY <1>9, <1>11, <1>13 DEF RingIsShared

--------------------------------------------------------------------------------
(* The theorems.                                                            *)

\* What the rows tell of the objects, files, page tables and ranges holds, while no
\* later row takes it back.
THEOREM RowsAreKept == BindingSpec => []BindingInv
BY InvInit, InvStep, PTL DEF BindingSpec

\* Every variable of the model of the bindings has its type.
THEOREM BindingTypeCorrect == BindingSpec => []BindingTypeOK
<1>1. BindingInv => BindingTypeOK
  <2>1. SUFFICES ASSUME BindingInv PROVE BindingTypeOK
    OBVIOUS
  <2>2. /\ sys.births \in Nat /\ sys.born \in [Handles -> 0..sys.births]
        /\ sys.vaspace \in BOOLEAN /\ Given(sys)
    BY <2>1 DEF BindingInv, System, Given
  <2>3. \A i \in DOMAIN log :
          /\ [call |-> log[i].call, ok |-> log[i].ok] \in Offered
          /\ log[i].kind = Kind(log[i].call)
    BY <2>1, LogFacts, RowFields DEF BindingInv, LogInv, Places
  <2> QED  BY <2>1, <2>2, <2>3 DEF BindingInv, SavedInv, Given, BindingTypeOK, Offered
<1> QED  BY <1>1, RowsAreKept, PTL

\* What resolve_channel and resolve_ring return is live: the CPU sees the USERD of the
\* living channel, and at the ring's address what the GPU sees there.
THEOREM ResolvedHolds == BindingSpec => []ResolvedIsLive
<1>1. BindingInv => ResolvedIsLive
  BY UserdFollows, RingFollows DEF ResolvedIsLive
<1> QED  BY <1>1, RowsAreKept, PTL

================================================================================
