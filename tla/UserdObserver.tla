----------------------------- MODULE UserdObserver -----------------------------
(****************************************************************************)
(* src/src/userd_observer.cpp: the preloaded library that records every     *)
(* system call libcuda makes on the GPU's device files and its own address  *)
(* space, and that reads USERD and ring memory only while no such call has  *)
(* been recorded since a snapshot was validated.                            *)
(*                                                                          *)
(* libcuda's threads (Drivers) make calls through the interposed ioctl,     *)
(* mmap, munmap and mremap; the program under test (Prober) calls the       *)
(* library's own entry points.  Each body runs under one mutex.  A hook is  *)
(* three steps, since the call takes effect before it is recorded, and a    *)
(* sample is two, since it dereferences its pages before it is recorded.    *)
(*                                                                          *)
(* One channel is observed.  A page is where its USERD (or its ring) may be *)
(* mapped.  Calls that the hooks forward without recording, such as a close *)
(* of another file or an mmap at an address of the kernel's choice, do not  *)
(* take a mapping away and are left out, as is begin, before which the      *)
(* process has one thread.                                                  *)
(****************************************************************************)
EXTENDS Naturals, Sequences, FiniteSets

CONSTANTS Drivers,    \* the threads of libcuda
          Prober,     \* the thread that calls the library
          Nobody,     \* the holder of a mutex that is free
          Pages,      \* where USERD may be mapped
          MaxRounds,  \* 256 samples of a window
          MaxSeq,     \* 20000 rows of the log
          MaxCalls    \* bound: the system calls libcuda makes

ASSUMPTION ObserverAssumption ==
  /\ Prober \notin Drivers /\ Nobody \notin Drivers /\ Prober # Nobody
  /\ Pages # {}
  /\ MaxRounds \in Nat /\ MaxSeq \in Nat /\ MaxCalls \in Nat

VARIABLES
  page,            \* what is mapped at each page
  log,             \* the rows of observations.jsonl
  mutex,           \* the thread that holds State::mutex
  call,            \* the hooked call each driver is in
  calls,           \* how many calls libcuda has made
  failed,          \* State::failed
  reads_armed,     \* State::reads_armed
  rounds,          \* State::rounds
  late,            \* State::read_deadline has passed
  userd_addresses, \* State::userd_addresses
  ring_address,    \* State::ring_address as a set, empty if it is 0
  ring_addresses   \* State::ring_addresses

targets  == <<userd_addresses, ring_address, ring_addresses>>
window   == <<reads_armed, rounds, late, targets>>
observer == <<page, log, mutex, call, calls, failed, window>>

\* A hooked call: USERD is mapped at a free page, something else is mapped over
\* a page, a page is unmapped, or the address space does not change.
SysCall == [kind : {"mmap", "mmap_fixed", "munmap"}, page : Pages]
           \union {[kind |-> "ioctl"]}

Idle == [stage |-> "idle"]

SampleKinds == {"userd_sample", "ring_sample", "ring_progress", "ring_set_sample"}

\* Marks of one label are told apart by a number, the graph case in their label.
Labels == {"after_warmup", "reads_finished", "after_tiny", "ring_reads_finished",
           "after_entries", "graph_before", "graph_reads_finished", "graph_after", "failed"}

Mark(label, n)    == [kind |-> "mark", label |-> label, n |-> n]
Sample(kind, n)   == [kind |-> kind, round |-> n]
Torn              == [kind |-> "torn"]

Row == SysCall \union [kind : {"mark"}, label : Labels, n : Nat]
       \union [kind : SampleKinds, round : Nat] \union {Torn}

\* What libcuda's allocations during the warm-up have left in the log; the pages
\* are alike, so that USERD starts at one of them.
Init ==
  LET first == CHOOSE p \in Pages : TRUE IN
    /\ page = [p \in Pages |-> IF p = first THEN "userd" ELSE "none"]
    /\ log = <<[kind |-> "mmap", page |-> first]>>
    /\ mutex = Nobody
    /\ call = [d \in Drivers |-> Idle]
    /\ calls = 0
    /\ failed = FALSE
    /\ reads_armed = FALSE
    /\ rounds = 0
    /\ late = FALSE
    /\ userd_addresses = {}
    /\ ring_address = {}
    /\ ring_addresses = {}

--------------------------------------------------------------------------------
(* Faulty variants of definitions below, used by no specification.          *)

\* A row that is not part of the window does not fail it.
EmitTolerant(row) ==
  LET full == Len(log) >= MaxSeq
  IN \E short \in {FALSE, ~full} :
       /\ log' = IF full THEN log ELSE Append(log, IF short THEN Torn ELSE row)
       /\ failed' = (failed \/ full \/ short)

\* A window may be armed at any sequence not before the snapshot's.
CanArmLater(sequence, addresses) ==
  /\ ~failed /\ ~reads_armed
  /\ Len(log) >= sequence
  /\ addresses # {}

\* The rounds are not reset by arming.
ArmReadsKeepsRounds(sequence, addresses) ==
  /\ mutex = Nobody
  /\ ~failed /\ ~reads_armed /\ Len(log) = sequence
  /\ reads_armed' = TRUE
  /\ late' = FALSE
  /\ userd_addresses' = addresses
  /\ ring_address' = {} /\ ring_addresses' = {}
  /\ UNCHANGED <<rounds, page, log, mutex, call, calls, failed>>

--------------------------------------------------------------------------------
\* emit: a row that is not part of the read window, a full log and a short write
\* each fail the observer for good.  It returns 0 if it has failed.
Emit(row) ==
  LET full == Len(log) >= MaxSeq
      alien == reads_armed /\ row.kind \notin SampleKinds \union {"mark"}
  IN \E short \in {FALSE, ~full} :
       /\ log' = IF full THEN log ELSE Append(log, IF short THEN Torn ELSE row)
       /\ failed' = (failed \/ alien \/ full \/ short)

emitted == ~failed'

--------------------------------------------------------------------------------
(* The hooks of libcuda's thread d.                                         *)

HookEnter(d) ==
  /\ call[d] = Idle
  /\ mutex = Nobody
  /\ calls < MaxCalls
  /\ \E c \in SysCall :
       /\ c.kind = "mmap" => page[c.page] = "none"
       /\ call' = [call EXCEPT ![d] = [stage |-> "entered", request |-> c]]
  /\ calls' = calls + 1
  /\ mutex' = d
  /\ UNCHANGED <<page, log, failed, window>>

Effect(c) ==
  CASE c.kind = "mmap"       -> [page EXCEPT ![c.page] = "userd"]
    [] c.kind = "mmap_fixed" -> [page EXCEPT ![c.page] = "other"]
    [] c.kind = "munmap"     -> [page EXCEPT ![c.page] = "none"]
    [] c.kind = "ioctl"      -> page

HookCall(d) ==
  /\ call[d] # Idle /\ call[d].stage = "entered"
  /\ page' = Effect(call[d].request)
  /\ call' = [call EXCEPT ![d].stage = "made"]
  /\ UNCHANGED <<log, mutex, calls, failed, window>>

\* A row that cannot be put together is lost in the hook's catch (...).
HookEmit(d) ==
  /\ call[d] # Idle /\ call[d].stage = "made"
  /\ \/ Emit(call[d].request)
     \/ failed' = TRUE /\ UNCHANGED log
  /\ call' = [call EXCEPT ![d] = Idle]
  /\ mutex' = Nobody
  /\ UNCHANGED <<page, calls, window>>

Hook(d) == HookEnter(d) \/ HookCall(d) \/ HookEmit(d)

--------------------------------------------------------------------------------
(* The entry points.                                                        *)

\* userd_observer_mark returns emitted.
WriteMark(label, n) ==
  /\ mutex = Nobody
  /\ Emit(Mark(label, n))
  /\ UNCHANGED <<page, mutex, call, calls, window>>

\* userd_observer_arm_reads returns CanArm.
CanArm(sequence, addresses) ==
  /\ ~failed /\ ~reads_armed
  /\ Len(log) = sequence
  /\ addresses # {}

ArmReads(sequence, addresses) ==
  /\ mutex = Nobody
  /\ CanArm(sequence, addresses)
  /\ reads_armed' = TRUE
  /\ late' = FALSE
  /\ rounds' = 0
  /\ userd_addresses' = addresses
  /\ ring_address' = {} /\ ring_addresses' = {}
  /\ UNCHANGED <<page, log, mutex, call, calls, failed>>

RefuseReads(sequence, addresses) ==
  /\ mutex = Nobody
  /\ ~CanArm(sequence, addresses)
  /\ UNCHANGED observer

\* The rest of userd_observer_arm_ring, or with set of _arm_ring_set, once it has
\* the lock again.  They return ~failed.
ArmRing(ring, set) ==
  /\ mutex = Nobody
  /\ ring_address' = IF failed \/ set THEN ring_address ELSE ring
  /\ ring_addresses' = IF failed \/ ~set THEN ring_addresses ELSE ring
  /\ UNCHANGED <<page, log, mutex, call, calls, failed, reads_armed, rounds, late, userd_addresses>>

\* The first part of userd_observer_sample, of _ring_sample and of _ring_set_sample.
MayRead(what) ==
  /\ ~failed /\ reads_armed
  /\ what = "ring" => ring_address # {}
  /\ what = "set" => ring_addresses # {}
  /\ rounds < MaxRounds
  /\ ~late

SampleEnter(what) ==
  /\ mutex = Nobody
  /\ MayRead(what)
  /\ rounds' = rounds + 1
  /\ mutex' = Prober
  /\ UNCHANGED <<page, log, call, calls, failed, reads_armed, late, targets>>

SampleRefused(what) ==
  /\ mutex = Nobody
  /\ ~MayRead(what)
  /\ failed' = TRUE
  /\ UNCHANGED <<page, log, mutex, call, calls, window>>

\* The pages a sample dereferences.
Targets(what) ==
  userd_addresses \union (CASE what = "ring" -> ring_address
                            [] what = "set"  -> ring_addresses
                            [] OTHER         -> {})

\* The rest of a sample, which returns emitted.
SampleEmit(what) ==
  /\ mutex = Prober
  /\ Emit(Sample(CASE what = "ring"       -> "ring_sample"
                   [] what = "set"        -> "ring_set_sample"
                   [] what = "userd" /\ ring_address # {} -> "ring_progress"
                   [] OTHER               -> "userd_sample", rounds - 1))
  /\ mutex' = Nobody
  /\ UNCHANGED <<page, call, calls, window>>

\* userd_observer_finish_reads returns the rounds, or 0 if it is refused or its
\* mark cannot be written.
CanFinish == reads_armed /\ ~failed

FinishReads ==
  /\ mutex = Nobody
  /\ CanFinish
  /\ reads_armed' = FALSE
  /\ Emit(Mark(CASE ring_addresses # {} -> "graph_reads_finished"
                 [] ring_address # {}   -> "ring_reads_finished"
                 [] OTHER               -> "reads_finished", 0))
  /\ UNCHANGED <<page, mutex, call, calls, rounds, late, targets>>

RefuseFinish ==
  /\ mutex = Nobody
  /\ ~CanFinish
  /\ UNCHANGED observer

\* Three seconds pass.
ReadDeadline ==
  /\ reads_armed /\ ~late
  /\ late' = TRUE
  /\ UNCHANGED <<page, log, mutex, call, calls, failed, reads_armed, rounds, targets>>

ObserverTypeOK ==
  /\ page \in [Pages -> {"userd", "other", "none"}]
  /\ log \in Seq(Row)
  /\ mutex \in Drivers \union {Prober, Nobody}
  /\ call \in [Drivers -> {Idle} \union [stage : {"entered", "made"}, request : SysCall]]
  /\ calls \in 0..MaxCalls
  /\ failed \in BOOLEAN
  /\ reads_armed \in BOOLEAN
  /\ rounds \in Nat
  /\ late \in BOOLEAN
  /\ userd_addresses \subseteq Pages
  /\ ring_address \subseteq Pages /\ ring_addresses \subseteq Pages

================================================================================
