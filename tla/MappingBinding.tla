----------------------------- MODULE MappingBinding -----------------------------
(****************************************************************************)
(* How the address of a channel's USERD and of its ring is found:           *)
(* resolve_channel of src/scripts/analyze_userd_mapping.py and resolve_ring *)
(* of src/scripts/gpfifo_binding.py join the rows that                      *)
(* src/src/userd_observer.cpp has decoded from libcuda's calls with what a  *)
(* snapshot has saved.  The program dereferences what they return.          *)
(*                                                                          *)
(* RM, UVM and the kernel are the environment: objects whose handles are    *)
(* used again, memory that RM's map_memory attaches to a file and mmap then *)
(* maps, and the GPU's own page table.  A recorded call and its row are one *)
(* step, as they are made under the observer's mutex.  libcuda makes the    *)
(* calls of its usual set-up in their order, and may begin again at any of  *)
(* them; up to MaxOthers other calls come in between, on any thread.        *)
(*                                                                          *)
(* There is one client, one GPU, one channel and one UVM file; all mappings *)
(* are shared and readable.  Memory and addresses are counted in units that *)
(* hold the USERD or the ring.                                              *)
(****************************************************************************)
EXTENDS Integers, Sequences, FiniteSetsExt, SequencesExt

CONSTANTS Memories,   \* handles of memory objects
          Files,      \* descriptors of the GPU's files, other than UVM's
          Usual,      \* the calls by which libcuda sets a channel up
          Others,     \* bound: the rows of calls that may come in between
          MaxOthers,  \* bound: how many of them do
          Pages,      \* bound: the CPU addresses
          Vas         \* bound: the GPU addresses, with that of the ring

Handles == Memories \union {"channel"}

\* gpfifo_gpu_va
Ring == 0

\* The calls; UVM_UNKNOWN stands for every request that is not decoded.
Call ==
  [request : {"RM_ALLOC"}, object : Memories]
  \union [request : {"RM_ALLOC"}, object : {"channel"}, memory : Memories, offset : Nat]
  \union [request : {"RM_ALLOC_MEMORY"}, object : Memories, map_fd : Files, length : Nat]
  \union [request : {"RM_FREE"}, object : Handles]
  \union [request : {"RM_MAP_MEMORY"}, memory : Memories, tid : STRING, map_fd : Files,
          offset : Nat, length : Nat]
  \union [request : {"RM_UNMAP_MEMORY"}, memory : Memories]
  \union [request : {"mmap"}, tid : STRING, fd : Files \union {"none"}, address : Nat,
          length : Nat, fixed : BOOLEAN]
  \union [request : {"munmap"}, address : Nat, length : Nat]
  \union [request : {"mremap"}, address : Nat, length : Nat, new_address : Nat]
  \union [request : {"close"}, fd : Files \union {"uvm"}]
  \union [request : {"UVM_REGISTER_GPU_VASPACE", "UVM_UNREGISTER_GPU_VASPACE",
                     "UVM_REGISTER_CHANNEL", "UVM_UNREGISTER_CHANNEL",
                     "UVM_VALIDATE_VA_RANGE", "UVM_UNKNOWN"}]
  \union [request : {"UVM_CREATE_EXTERNAL_RANGE", "UVM_UNMAP_EXTERNAL", "UVM_MAP_EXTERNAL_SPARSE",
                     "UVM_ALLOC_SEMAPHORE_POOL", "UVM_FREE"}, base : Nat, length : Nat]
  \union [request : {"UVM_MAP_EXTERNAL_ALLOCATION"}, memory : Memories, base : Nat, length : Nat,
          offset : Nat]

\* The addresses a call names are among those that are counted.
Within(c) ==
  c.request \in {"mmap", "mremap"} => \A a \in c.address..(c.address + c.length - 1) : a \in Pages

ASSUME BindingAssumption ==
  /\ "channel" \notin Memories /\ "uvm" \notin Files /\ "none" \notin Files
  /\ MaxOthers \in Nat /\ Pages \subseteq Nat /\ Vas \subseteq Nat /\ Ring \in Vas
  /\ Usual \in Seq(Call) /\ Others \subseteq [call : Call, ok : BOOLEAN]
  /\ \A i \in DOMAIN Usual : Within(Usual[i])
  /\ \A row \in Others : Within(row.call)

VARIABLES
  sys,     \* objects, files, CPU and GPU page tables
  log,     \* the rows of observations.jsonl
  saved,   \* <label>.identity.json and .memory.json, and <label>.maps
  stage,   \* how far the snapshot is
  step,    \* the next usual call
  others   \* how many other calls there have been

bindingVars == <<sys, log, saved, stage, step, others>>

\* What a page shows: unit off of the memory object born as gen, and at, the file
\* offset in the maps; or nothing; or memory that is not the GPU's.
Nothing == [gen |-> 0, off |-> 0, at |-> -1]
Foreign == [Nothing EXCEPT !.at = -2]

Unattached == [gen |-> 0, off |-> 0, length |-> 0]

Clean ==
  [births |-> 0, born |-> [h \in Handles |-> 0], userd |-> Nothing,
   context |-> [f \in Files |-> Unattached], page |-> [a \in Pages |-> Nothing],
   vaspace |-> FALSE, bound |-> 0, ranges |-> {}, va |-> [x \in Vas |-> Nothing]]

BindingInit ==
  /\ sys = Clean
  /\ log = <<>>
  /\ saved = [born |-> Clean.born, at |-> [a \in Pages |-> -1]]
  /\ stage = "open"
  /\ step = 1
  /\ others = 0

--------------------------------------------------------------------------------
(* RM, the kernel and UVM: the environment.                                 *)

Overlaps(a, n, b, m) == a < b + m /\ b < a + n

\* Whether a call can succeed.
Works(c) ==
  CASE c.request \in {"RM_ALLOC", "RM_ALLOC_MEMORY"} ->
         /\ sys.born[c.object] = 0
         /\ c.object = "channel" => sys.born[c.memory] # 0
    [] c.request = "RM_FREE" -> sys.born[c.object] # 0
    [] c.request \in {"RM_MAP_MEMORY", "RM_UNMAP_MEMORY"} -> sys.born[c.memory] # 0
    [] c.request = "mmap" ->
         /\ c.fd \in Files => c.length = sys.context[c.fd].length
         /\ c.fixed \/ \A a \in c.address..(c.address + c.length - 1) : sys.page[a] = Nothing
    [] c.request = "mremap" -> sys.page[c.address] # Nothing
    [] c.request = "UVM_REGISTER_GPU_VASPACE" -> ~sys.vaspace
    [] c.request = "UVM_REGISTER_CHANNEL" -> sys.vaspace /\ sys.born["channel"] # 0
    [] c.request = "UVM_CREATE_EXTERNAL_RANGE" ->
         \A r \in sys.ranges : ~Overlaps(r[1], r[2], c.base, c.length)
    [] c.request = "UVM_MAP_EXTERNAL_ALLOCATION" ->
         sys.vaspace /\ sys.born[c.memory] # 0 /\ <<c.base, c.length>> \in sys.ranges
    [] OTHER -> TRUE

\* The table with n entries from a replaced.
Filled(table, a, n, entry(_)) ==
  [x \in DOMAIN table |-> IF x \in a..(a + n - 1) THEN entry(x) ELSE table[x]]

Nowhere(x) == Nothing

\* RM: objects are born with a generation of their own, a channel with the USERD
\* its memory then is; memory is attached to a file, and taken out of all pages.
RmEffect(c) ==
  CASE c.request \in {"RM_ALLOC", "RM_ALLOC_MEMORY"} ->
         LET gen == sys.births + 1 IN
         [sys EXCEPT !.births = gen, !.born[c.object] = gen,
            !.userd = IF c.object = "channel"
                      THEN [gen |-> sys.born[c.memory], off |-> c.offset, at |-> -1] ELSE @,
            !.context = IF c.request = "RM_ALLOC_MEMORY"
                        THEN [@ EXCEPT ![c.map_fd] = [gen |-> gen, off |-> 0, length |-> c.length]]
                        ELSE @]
    [] c.request = "RM_FREE" -> [sys EXCEPT !.born[c.object] = 0]
    [] c.request = "RM_MAP_MEMORY" ->
         [sys EXCEPT !.context[c.map_fd] =
            [gen |-> sys.born[c.memory], off |-> c.offset, length |-> c.length]]
    [] c.request = "RM_UNMAP_MEMORY" ->
         [sys EXCEPT !.page = [a \in Pages |->
            IF @[a].gen = sys.born[c.memory] THEN [@[a] EXCEPT !.gen = 0] ELSE @[a]]]

\* The kernel: a mapping shows what is attached to its file.
KernelEffect(c) ==
  CASE c.request = "mmap" ->
         LET shown(a) == IF c.fd \in Files
                         THEN [gen |-> sys.context[c.fd].gen, at |-> a - c.address,
                               off |-> sys.context[c.fd].off + a - c.address]
                         ELSE Foreign
         IN [sys EXCEPT !.page = Filled(@, c.address, c.length, shown)]
    [] c.request = "munmap" -> [sys EXCEPT !.page = Filled(@, c.address, c.length, Nowhere)]
    [] c.request = "mremap" ->
         LET moved(a) == sys.page[a - c.new_address + c.address]
         IN [sys EXCEPT !.page = Filled(Filled(@, c.address, c.length, Nowhere),
                                        c.new_address, c.length, moved)]
    [] c.request = "close" /\ c.fd \in Files -> [sys EXCEPT !.context[c.fd] = Unattached]

\* UVM: the GPU's page table of a registered address space.
UvmEffect(c) ==
  CASE c.request = "UVM_REGISTER_GPU_VASPACE" -> [sys EXCEPT !.vaspace = TRUE]
    [] c.request = "UVM_UNREGISTER_GPU_VASPACE" ->
         [sys EXCEPT !.vaspace = FALSE, !.bound = 0, !.va = Clean.va]
    [] c.request = "close" ->
         [sys EXCEPT !.vaspace = FALSE, !.bound = 0, !.va = Clean.va, !.ranges = {}]
    [] c.request = "UVM_REGISTER_CHANNEL" -> [sys EXCEPT !.bound = sys.born["channel"]]
    [] c.request = "UVM_UNREGISTER_CHANNEL" -> [sys EXCEPT !.bound = 0]
    [] c.request = "UVM_CREATE_EXTERNAL_RANGE" -> [sys EXCEPT !.ranges = @ \union {<<c.base, c.length>>}]
    [] c.request = "UVM_MAP_EXTERNAL_ALLOCATION" ->
         LET shown(x) == [gen |-> sys.born[c.memory], off |-> c.offset + x - c.base, at |-> -1]
         IN [sys EXCEPT !.va = Filled(@, c.base, c.length, shown)]
    [] c.request \in {"UVM_UNMAP_EXTERNAL", "UVM_MAP_EXTERNAL_SPARSE", "UVM_ALLOC_SEMAPHORE_POOL"} ->
         [sys EXCEPT !.va = Filled(@, c.base, c.length, Nowhere)]
    [] c.request = "UVM_FREE" ->
         [sys EXCEPT !.ranges = {r \in @ : r[1] # c.base},
            !.va = [x \in Vas |-> IF \E r \in sys.ranges : r[1] = c.base /\ x < r[1] + r[2] /\ x >= r[1]
                                  THEN Nothing ELSE @[x]]]
    [] c.request = "UVM_VALIDATE_VA_RANGE" -> sys
    [] OTHER -> [sys EXCEPT !.va = Clean.va]

RmRequests ==
  {"RM_ALLOC", "RM_ALLOC_MEMORY", "RM_FREE", "RM_MAP_MEMORY", "RM_UNMAP_MEMORY"}
KernelRequests == {"mmap", "munmap", "mremap"}

Effect(c) ==
  IF c.request \in RmRequests THEN RmEffect(c)
  ELSE IF c.request \in KernelRequests \/ (c.request = "close" /\ c.fd \in Files)
       THEN KernelEffect(c)
  ELSE UvmEffect(c)

--------------------------------------------------------------------------------
(* The observer.                                                            *)

\* The kind of an ioctl's row, by its request; of every other UVM request it is
\* uvm_ioctl.  The other calls' rows are named for them.
Decoded ==
  [RM_ALLOC                    |-> "alloc",
   RM_ALLOC_MEMORY             |-> "alloc_memory",
   RM_FREE                     |-> "free",
   RM_MAP_MEMORY               |-> "map_memory",
   RM_UNMAP_MEMORY             |-> "unmap_memory",
   UVM_REGISTER_GPU_VASPACE    |-> "uvm_register_vaspace",
   UVM_UNREGISTER_GPU_VASPACE  |-> "uvm_unregister_vaspace",
   UVM_REGISTER_CHANNEL        |-> "uvm_register_channel",
   UVM_UNREGISTER_CHANNEL      |-> "uvm_unregister_channel",
   UVM_CREATE_EXTERNAL_RANGE   |-> "uvm_create_range",
   UVM_MAP_EXTERNAL_ALLOCATION |-> "uvm_map_external",
   UVM_UNMAP_EXTERNAL          |-> "uvm_unmap_external",
   UVM_MAP_EXTERNAL_SPARSE     |-> "uvm_unmap_external",
   UVM_FREE                    |-> "uvm_free",
   UVM_VALIDATE_VA_RANGE       |-> "uvm_validate_range",
   UVM_ALLOC_SEMAPHORE_POOL    |-> "uvm_other_range"]

Kind(c) ==
  IF c.request \in DOMAIN Decoded THEN Decoded[c.request]
  ELSE IF c.request \in KernelRequests \union {"close"} THEN c.request
  ELSE "uvm_ioctl"

\* Whether observe_mmap writes a row: an anonymous mapping concerns nothing that
\* is observed, unless it is put where something was.
Observed(c) == c.request = "mmap" => c.fd \in Files \/ c.fixed

\* A faulty variant of Record, used by no specification: the row is written before
\* the call has returned its status.
RecordUnread(c, ok) ==
  /\ stage # "marked"
  /\ ok => Works(c)
  /\ sys' = IF ok THEN Effect(c) ELSE sys
  /\ log' = IF Observed(c) THEN Append(log, [kind |-> Kind(c), call |-> c, ok |-> FALSE]) ELSE log
  /\ UNCHANGED <<saved, stage>>

\* A call is made and recorded; ok stands for rc and status both 0.
Record(c, ok) ==
  /\ stage # "marked"
  /\ ok => Works(c)
  /\ sys' = IF ok THEN Effect(c) ELSE sys
  /\ log' = IF Observed(c) THEN Append(log, [kind |-> Kind(c), call |-> c, ok |-> ok]) ELSE log
  /\ UNCHANGED <<saved, stage>>

UsualCall ==
  /\ step <= Len(Usual)
  /\ Record(Usual[step], Works(Usual[step]))
  /\ step' = step + 1
  /\ UNCHANGED others

OtherCall ==
  /\ others < MaxOthers
  /\ \E row \in Others : Record(row.call, row.ok)
  /\ others' = others + 1
  /\ UNCHANGED step

\* The set-up is begun again.
BeginAgain ==
  /\ others < MaxOthers /\ stage # "marked"
  /\ \E s \in 1..(step - 1) : step' = s
  /\ others' = others + 1
  /\ UNCHANGED <<sys, log, saved, stage>>

--------------------------------------------------------------------------------
(* The snapshot.                                                            *)

\* The program asks for a snapshot when CUDA has returned from the set-up.
SaveIdentity ==
  /\ stage = "open" /\ step > Len(Usual)
  /\ saved' = [saved EXCEPT !.born = sys.born]
  /\ stage' = "identified"
  /\ UNCHANGED <<sys, log, step, others>>

SaveMaps ==
  /\ stage = "identified"
  /\ saved' = [saved EXCEPT !.at = [a \in Pages |-> sys.page[a].at]]
  /\ stage' = "saved"
  /\ UNCHANGED <<sys, log, step, others>>

WriteMark ==
  /\ stage = "saved"
  /\ stage' = "marked"
  /\ UNCHANGED <<sys, log, saved, step, others>>

Done == stage = "marked" /\ UNCHANGED bindingVars

BindingNext ==
  \/ UsualCall \/ OtherCall \/ BeginAgain
  \/ SaveIdentity \/ SaveMaps \/ WriteMark \/ Done

BindingSpec == BindingInit /\ [][BindingNext]_bindingVars

--------------------------------------------------------------------------------
(* The rows, by their places in the log.                                    *)

Is(i, kinds) == log[i].kind \in kinds

Ok(i, kinds) == log[i].ok /\ Is(i, kinds)

Oks(kinds) == {i \in DOMAIN log : Ok(i, kinds)}

--------------------------------------------------------------------------------
(* Faulty variants of definitions below, used by no specification.          *)

\* A handle stands for the object it was given to first.
BirthFirst(h) ==
  LET births == {i \in Oks({"alloc", "alloc_memory"}) : log[i].call.object = h}
  IN IF births = {} THEN 0 ELSE Min(births)

\* Any later mmap of the descriptor is taken.
MmapOfLater(s) ==
  LET later == {i \in DOMAIN log : i > s /\ Ok(i, {"mmap"}) /\ log[i].call.fd = log[s].call.map_fd}
  IN IF later # {} THEN Min(later) ELSE 0

\* Only munmap takes a mapping away.
UndoneByMunmap(m) ==
  \E i \in Oks({"munmap"}) :
    i > m /\ Overlaps(log[m].call.address, log[m].call.length, log[i].call.address, log[i].call.length)

\* The range of the GPU mapping is not followed any further.
RingChangedByFree(g) ==
  \E i \in Oks({"uvm_free"}) : i > g /\ log[i].call.base = log[g].call.base

--------------------------------------------------------------------------------
(* The objects and mappings the rows tell of.                         *)

\* birth: the last allocation of a handle, or 0 if there is none or it was freed.
Birth(h) ==
  LET births == {i \in Oks({"alloc", "alloc_memory"}) : log[i].call.object = h}
  IN IF \/ births = {}
        \/ \E i \in Oks({"free"}) : log[i].call.object = h /\ i > Max(births)
     THEN 0 ELSE Max(births)

ca == Birth("channel")
channel == log[ca].call
ma == Birth(channel.memory)

\* The lambda of resolve_channel's search: the first row after a map_memory that
\* uses its descriptor, if that is an mmap.
Uses(i, fd) ==
  \/ Is(i, {"close", "mmap"}) /\ log[i].call.fd = fd
  \/ Ok(i, {"map_memory", "alloc_memory"}) /\ log[i].call.map_fd = fd

MmapOf(s) ==
  LET later == {i \in DOMAIN log : i > s /\ Uses(i, log[s].call.map_fd)}
  IN IF later # {} /\ Is(Min(later), {"mmap"}) THEN Min(later) ELSE 0

--------------------------------------------------------------------------------
(* resolve_channel.                                                         *)

\* A later call that may have taken the mapping of row m away.
Undone(m) ==
  LET c == log[m].call
      hits(d) == Overlaps(c.address, c.length, d.address, d.length)
  IN \E i \in DOMAIN log :
       /\ i > m
       /\ \/ Ok(i, {"unmap_memory"}) /\ log[i].call.memory = channel.memory
          \/ Ok(i, {"munmap", "mremap"}) /\ hits(log[i].call)
          \/ Ok(i, {"mmap"}) /\ log[i].call.fixed /\ hits(log[i].call)
          \/ /\ Ok(i, {"mremap"})
             /\ Overlaps(c.address, c.length, log[i].call.new_address, log[i].call.length)

\* The address of a unit of the memory object, by a map_memory and its mmap.
Address(s, off) == log[MmapOf(s)].call.address + off - log[s].call.offset

Covers(s, off) == log[s].call.offset <= off /\ off < log[s].call.offset + log[s].call.length

\* The saved maps show it where the mmap has put it.
InMaps(s, off) ==
  /\ Address(s, off) \in Pages
  /\ saved.at[Address(s, off)] = Address(s, off) - log[MmapOf(s)].call.address

Candidates ==
  {s \in Oks({"map_memory"}) :
     /\ log[s].call.memory = channel.memory /\ s > ma
     /\ Covers(s, channel.offset)
     /\ MmapOf(s) # 0
     /\ LET m == MmapOf(s) IN
          /\ log[m].ok
          /\ log[m].call.tid = log[s].call.tid
          /\ log[m].call.length = log[s].call.length
          /\ ~Undone(m)
     /\ InMaps(s, channel.offset)}

\* Every require of resolve_channel.
ChannelResolved ==
  /\ saved.born["channel"] # 0
  /\ ca # 0
  /\ saved.born[channel.memory] # 0
  /\ ma # 0 /\ ma < ca
  /\ Cardinality(Candidates) = 1

setup == CHOOSE s \in Candidates : TRUE

--------------------------------------------------------------------------------
(* resolve_ring.                                                            *)

Only(S) == IF Cardinality(S) = 1 THEN CHOOSE i \in S : TRUE ELSE 0

reg == Only(Oks({"uvm_register_vaspace"}))
cr  == Only({i \in Oks({"uvm_register_channel"}) : i > ca})
gm  == Only({i \in Oks({"uvm_map_external"}) :
               log[i].call.base <= Ring /\ Ring < log[i].call.base + log[i].call.length})

ranges ==
  {i \in Oks({"uvm_create_range"}) :
     /\ i < gm
     /\ log[i].call.base = log[gm].call.base /\ log[i].call.length = log[gm].call.length}

\* The UVM file, or what it registers, is no longer what it was.
Unregistered ==
  \E i \in DOMAIN log :
    \/ Ok(i, {"close"}) /\ log[i].call.fd = "uvm"
    \/ i > reg /\ Ok(i, {"uvm_unregister_vaspace"})
    \/ i > cr /\ Ok(i, {"uvm_unregister_channel"})

\* A later call that may have changed what the GPU address shows.
RingChanged(g) ==
  \E i \in DOMAIN log :
    /\ i > g
    /\ \/ Ok(i, {"uvm_ioctl"})
       \/ Ok(i, {"uvm_free"}) /\ log[i].call.base = log[g].call.base
       \/ /\ Ok(i, {"uvm_unmap_external", "uvm_other_range", "uvm_map_external", "uvm_create_range"})
          /\ Overlaps(Ring, 1, log[i].call.base, log[i].call.length)

RingOffset == log[gm].call.offset + Ring - log[gm].call.base

RingResolved ==
  /\ ChannelResolved
  /\ reg # 0 /\ cr # 0 /\ ~Unregistered
  /\ gm > reg
  /\ log[gm].call.memory = channel.memory /\ ma < gm
  /\ Cardinality(ranges) = 1
  /\ ~RingChanged(gm)
  /\ Covers(setup, RingOffset)
  /\ InMaps(setup, RingOffset)

--------------------------------------------------------------------------------
(* Properties.                                                              *)

\* The type of every variable.
BindingTypeOK ==
  /\ sys.births \in Nat
  /\ sys.born \in [Handles -> 0..sys.births]
  /\ sys.userd.gen <= sys.births
  /\ \A f \in Files : sys.context[f].gen <= sys.births
  /\ \A a \in Pages : sys.page[a].gen <= sys.births
  /\ \A x \in Vas : sys.va[x].gen <= sys.births
  /\ sys.vaspace \in BOOLEAN /\ sys.bound <= sys.births
  /\ \A i \in DOMAIN log :
       /\ [call |-> log[i].call, ok |-> log[i].ok] \in Others \union [call : ToSet(Usual), ok : BOOLEAN]
       /\ log[i].kind = Kind(log[i].call)
  /\ saved.born \in [Handles -> Nat]
  /\ saved.at \in [Pages -> Nat \union {-1, -2}]
  /\ stage \in {"open", "identified", "saved", "marked"}
  /\ step \in 1..(Len(Usual) + 1)
  /\ others \in 0..MaxOthers

\* An address that is resolved for the snapshot is one at which, when its mark is
\* written, the CPU sees the USERD of the living channel: whatever was freed,
\* mapped over, moved or used again before.
UserdIsLive ==
  stage = "marked" /\ ChannelResolved =>
    LET shown == sys.page[Address(setup, channel.offset)]
    IN /\ sys.born["channel"] # 0
       /\ shown.gen = sys.born[channel.memory] /\ shown.gen # 0
       /\ shown.gen = sys.userd.gen /\ shown.off = sys.userd.off

\* At the address that is resolved for the ring the CPU sees what the GPU sees at
\* the channel's gpfifo_gpu_va.
RingIsShared ==
  stage = "marked" /\ RingResolved =>
    LET shown == sys.page[Address(setup, RingOffset)]
    IN /\ sys.bound = sys.born["channel"]
       /\ shown.gen # 0 /\ shown.gen = sys.born[channel.memory]
       /\ shown.gen = sys.va[Ring].gen /\ shown.off = sys.va[Ring].off

\* What is resolved may be dereferenced, and means what it is taken for.
ResolvedIsLive == UserdIsLive /\ RingIsShared

================================================================================
