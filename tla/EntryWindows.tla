------------------------------ MODULE EntryWindows ------------------------------
(****************************************************************************)
(* What one launch writes into the rings, as the program measures it: the   *)
(* read windows of mode gpfifo-entry (run_userd_mapping of                  *)
(* src/src/userd_mapping.hpp, two launches of the tiny kernel) and of mode  *)
(* graph-entry (GraphEntryProbe and graph_entry_experiment of               *)
(* src/src/graph_entry.hpp, five cases), with what                          *)
(* analyze_gpfifo_entry.py and analyze_graph_entry.py conclude from them.   *)
(*                                                                          *)
(* A launch hands work to libcuda, which writes entries to any ring, during *)
(* the call or after it has returned, and has finished when the pause that  *)
(* follows is over.  Frames are taken before and after the call and after   *)
(* the pause.  How a plan comes about, and that nothing else is called in a *)
(* window, is in LiveReads.  The samples of the pause itself can only       *)
(* reject more and are left out.                                            *)
(*                                                                          *)
(* The analysis runs when the program has ended.  It is the conjunction of  *)
(* what it requires of each window, so that a window that fails ends the    *)
(* behaviour here.                                                          *)
(****************************************************************************)
EXTENDS RingFrames, Sequences, FiniteSets, SequencesExt, Functions

CONSTANTS GraphSizes,  \* bound: the ring sizes of Sizes used in mode graph-entry
          MaxEntries   \* bound: entries of one launch, for each ring size

ASSUME EntryBoundsAssumption == GraphSizes \subseteq Sizes /\ MaxEntries \in [Sizes -> Nat]

VARIABLES
  mode, wrap,   \* --mode, --entry-wrap
  pc,           \* where the owner thread of A or the analysis is
  k,            \* the launch, 1 and 2, or the case, 1 to 5
  initial_put,  \* in the plan of mode gpfifo-entry
  taken,        \* the frames of this window
  calls,        \* how many calls of this launch have been made
  amount, made, \* how many entries the launch has caused on each channel, and where
  edges,        \* of the captured graph of three nodes
  started,      \* start_gpu_ns in the result buffer, of each slot
  previous_start,  \* previous_start_
  verified      \* the last case with a result file, and the nodes that really ran

window == <<mode, wrap, initial_put>>
launch == <<calls, amount, made>>
graph  == <<edges, started, previous_start, verified>>
vars   == <<memory, sampler, window, launch, graph, pc, k, taken>>

Labels == {"before_fill", "idle", "before_launch", "after_launch", "settled"}

Graph == mode = "graph-entry"

Active == 0

Cases == <<"direct_one", "direct_three", "graph_one", "graph_three", "graph_three_repeat">>

\* The result slots of a case, and in how many calls its kernels are launched.
Nodes(case) == IF Cases[case] \in {"direct_one", "graph_one"} THEN <<0>> ELSE <<1, 2, 3>>

ApiCalls == IF Graph /\ Cases[k] = "direct_three" THEN 3 ELSE 1

\* The window in which the PUT is brought to the end of the ring first.
Wrapped == wrap /\ k = IF Graph THEN 4 ELSE 1

Init ==
  /\ mode \in {"gpfifo-entry", "graph-entry"} /\ wrap \in BOOLEAN
  /\ entries \in (IF Graph THEN GraphSizes ELSE Sizes) /\ reuse \in BOOLEAN
  /\ initial_put \in Slots /\ (Graph \/ ~wrap => initial_put = 0)
  /\ \E p \in Slots : written = [c \in Channels |-> p] /\ published = written
  /\ ring = [c \in Channels |-> [s \in Slots |-> 0]]
  /\ rings = IF Graph THEN Channels ELSE {Active}
  /\ place = "done" /\ chan = 0 /\ at = 0
  /\ frame = NoFrame(entries)
  /\ begun = [written |-> written, published |-> published]
  /\ mid = NoMid(entries)
  /\ pc = CASE Graph -> "capture" [] ~Graph /\ wrap -> "before_fill" [] OTHER -> "idle"
  /\ k = 1
  /\ taken = [l \in Labels |-> frame]
  /\ calls = 0 /\ amount = [c \in Channels |-> 0] /\ made = {}
  /\ edges = {}
  /\ started = [n \in 0..3 |-> 0] /\ previous_start = started
  /\ verified = [case |-> 0, order |-> <<>>]

--------------------------------------------------------------------------------
(* The analysis of one window.                                              *)

Put(f, c) == f.before[c]

\* ring_interval: from one PUT to the other, around the end of the ring.
Interval(c, a, b) ==
  {(Put(a, c) + j) % entries : j \in 0..(((Put(b, c) - Put(a, c)) % entries) - 1)}

Changed(c, a, b) == {s \in Slots : a.first[c][s] # b.first[c][s]}

Moved(a, b) == {c \in Channels : Put(a, c) # Put(b, c)}

\* same_publication
Same(a, b) == a.before = b.before /\ a.first = b.first

Pre  == taken["before_launch"]
Post == taken["after_launch"]

\* Faulty: the changed slots are not compared with the PUT.
AttributedByPut ==
  /\ Same(taken["idle"], Pre) /\ Same(Post, taken["settled"])
  /\ Moved(Pre, Post) = {Active}
  /\ Put(Post, Active) = (Put(Pre, Active) + 1) % entries

\* Faulty: what changes in the pause is not looked at.
AttributedAtOnce ==
  /\ Same(taken["idle"], Pre)
  /\ Moved(Pre, Post) = {Active}
  /\ Put(Post, Active) = (Put(Pre, Active) + 1) % entries
  /\ Changed(Active, Pre, Post) = {Put(Pre, Active)}

\* Faulty: the preparation is taken to have worked.
AttributedUnprepared ==
  /\ Same(taken["idle"], Pre) /\ Same(Post, taken["settled"])
  /\ Moved(Pre, Post) = {Active}
  /\ Put(Post, Active) = (Put(Pre, Active) + 1) % entries
  /\ Changed(Active, Pre, Post) = {Put(Pre, Active)}

\* analyze and attribute_launch of analyze_gpfifo_entry.py: the launch is
\* attributed the one slot that changed.
Attributed ==
  /\ Wrapped => Put(taken["before_fill"], Active) = initial_put
                /\ Put(taken["idle"], Active) = entries - 1
  /\ Same(taken["idle"], Pre) /\ Same(Post, taken["settled"])
  /\ Moved(Pre, Post) = {Active}
  /\ Put(Post, Active) = (Put(Pre, Active) + 1) % entries
  /\ Changed(Active, Pre, Post) = {Put(Pre, Active)}

\* Faulty: changes outside the interval do not count.
ExactInside ==
  /\ Moved(Pre, Post) # {} /\ Same(Post, taken["settled"])
  /\ \A c \in Channels : Interval(c, Pre, Post) \subseteq Changed(c, Pre, Post)

\* complete_exclusive_observed of analyze_graph_entry.py: the slots that changed
\* are those PUT moved over, on every ring.
Exact ==
  /\ Moved(Pre, Post) # {} /\ Same(Post, taken["settled"])
  /\ \A c \in Channels : Changed(c, Pre, Post) = Interval(c, Pre, Post)

\* What graph-entry requires of a window whatever its entries.
GraphWindow ==
  /\ IF Wrapped THEN Put(Pre, Active) = entries - 1 ELSE Same(taken["idle"], Pre)

\* entry_set
EntrySet == UNION {{c} \X Interval(c, Pre, Post) : c \in Channels}

--------------------------------------------------------------------------------
(* The result slots.                                                        *)

\* The kernels of a case run in some order that its stream or its graph allows;
\* some may not run at all, which no call reports.
Orders(nodes, before) ==
  {order \in UNION {[1..n -> ToSet(nodes)] : n \in 0..Len(nodes)} :
     \A i, j \in DOMAIN order : i < j => order[i] # order[j] /\ <<order[j], order[i]>> \notin before}

\* Their start is stamped with the case, the warm-up's with 1.
Stamped(order, stamp) == [n \in 0..3 |-> IF n \in ToSet(order) THEN stamp ELSE started[n]]

\* Faulty: the value is compared with the token, which is the same every time.
FreshByToken(nodes) == \A i \in DOMAIN nodes : started'[nodes[i]] > 0

\* verify: each node's start is later than the one seen last.
Fresh(nodes) == \A i \in DOMAIN nodes : started'[nodes[i]] > previous_start[nodes[i]]

Verify(nodes, order, stamp) ==
  /\ started' = Stamped(order, stamp)
  /\ previous_start' = [n \in 0..3 |-> IF Fresh(nodes) /\ n \in ToSet(nodes)
                                       THEN started'[n] ELSE previous_start[n]]

\* capture: each node but the last has one edge to the next, among as many edges
\* as there are such pairs.
Chain(e) ==
  /\ Len(e) = 2
  /\ \A i \in 1..2 : Cardinality({j \in DOMAIN e : e[j] = <<i, i + 1>>}) = 1

\* The constructor of GraphEntryProbe: both graphs are captured, checked,
\* launched once and verified, then the first window is prepared.
Capture ==
  /\ pc = "capture"
  /\ \E e \in [1..2 -> (1..3) \X (1..3)], order \in Orders(<<0, 1, 2, 3>>, {}) :
       /\ edges' = ToSet(e)
       /\ Verify(<<0, 1, 2, 3>>, order, 1)
       /\ pc' = IF Chain(e) /\ Fresh(<<0, 1, 2, 3>>) THEN "idle" ELSE "failed"
  /\ UNCHANGED <<memory, sampler, window, launch, verified, k, taken>>

--------------------------------------------------------------------------------
(* A window.                                                                *)

\* A frame is begun, read word by word, and taken.
After ==
  CASE pc = "before_fill"   -> "prepare"
    [] pc = "idle"          -> IF Graph /\ Wrapped THEN "prepare" ELSE "before_launch"
    [] pc = "before_launch" -> "call"
    [] pc = "after_launch"  -> "pause"
    [] pc = "settled"       -> "judge"

StartFrame ==
  /\ pc \in Labels
  /\ pc = "settled" => published = written
  /\ BeginFrame
  /\ UNCHANGED <<window, launch, graph, pc, k, taken>>

\* The last word of a frame completes it.
TakeWord ==
  /\ ReadWord
  /\ IF place' = "done"
     THEN /\ taken' = [taken EXCEPT ![pc] = frame']
          /\ pc' = IF StableFrame(frame') THEN After ELSE "rejected"
     ELSE UNCHANGED <<pc, taken>>
  /\ UNCHANGED <<window, launch, graph, k>>

\* entries - 1 - put launches of the tiny kernel, each of which should publish
\* one entry.  What they leave in the ring counts as its old content.
Prepare ==
  /\ pc = "prepare"
  /\ \E n \in 0..entries :
       written' = [written EXCEPT ![Active] = @ + n] /\ published' = written'
  /\ pc' = IF Graph THEN "before_launch" ELSE "idle"
  /\ UNCHANGED <<entries, reuse, ring, sampler, window, launch, graph, k, taken>>

\* One cuLaunchKernel or cuGraphLaunch.  The first that fails ends the launch, and
\* the program when it has taken its frames, which are no evidence then.  With
\* --entry-wrap the preparation is checked before the first.
Call ==
  /\ pc = "call"
  /\ \/ /\ ~(Graph /\ Wrapped /\ Put(Pre, Active) # entries - 1)
        /\ calls' = calls + 1
        /\ pc' = IF calls' = ApiCalls THEN "after_launch" ELSE "call"
     \/ pc' = "failed" /\ UNCHANGED calls
  /\ UNCHANGED <<memory, sampler, window, amount, made, graph, k, taken>>

\* libcuda works on what the calls gave it.  It adds less than a ring of entries
\* to a channel whose ring is not read, or whose entries may recur: beyond that the
\* PUT is back where it was with nothing else to show it.
Work ==
  /\ pc = "after_launch" \/ pc = "pause" \/ (pc = "call" /\ calls # 0)
  /\ \E c \in Channels :
       \/ /\ WriteEntry(c)
          /\ SumFunction(amount) < MaxEntries[entries]
          /\ reuse \/ c \notin rings => amount[c] + 1 < entries
          /\ amount' = [amount EXCEPT ![c] = @ + 1]
          /\ made' = made \union {<<c, written[c] % entries>>}
       \/ PublishPut(c) /\ UNCHANGED <<amount, made>>
  /\ UNCHANGED <<window, calls, graph, pc, k, taken>>

\* Two milliseconds in mode graph-entry, eight samples in mode gpfifo-entry.
Pause ==
  /\ pc = "pause"
  /\ written = published
  /\ pc' = "settled"
  /\ UNCHANGED <<memory, sampler, window, launch, graph, k, taken>>

NextWindow ==
  /\ k' = k + 1
  /\ calls' = 0 /\ amount' = [c \in Channels |-> 0] /\ made' = {}

\* The second launch is measured against the frame that settled the first.
JudgeEntry ==
  /\ pc = "judge" /\ ~Graph
  /\ IF ~Attributed
     THEN pc' = "rejected" /\ UNCHANGED <<launch, k, taken>>
     ELSE IF k = 2
     THEN pc' = "captured" /\ UNCHANGED <<launch, k, taken>>
     ELSE /\ NextWindow
          /\ taken' = [taken EXCEPT !["idle"] = taken["settled"]]
          /\ pc' = "before_launch"
  /\ UNCHANGED <<memory, sampler, window, graph>>

\* The calls' results are looked at, the nodes' results are read back and
\* verified, or the stream does not finish in three seconds.
JudgeGraph ==
  /\ pc = "judge" /\ Graph
  /\ IF ~GraphWindow
     THEN pc' = "rejected" /\ UNCHANGED <<started, previous_start, verified>>
     ELSE \/ \E order \in Orders(Nodes(k), edges) :
               /\ Verify(Nodes(k), order, k + 1)
               /\ IF Fresh(Nodes(k)) THEN pc' = "next" /\ verified' = [case |-> k, order |-> order]
                                     ELSE pc' = "failed" /\ UNCHANGED verified
          \/ pc' = "failed" /\ UNCHANGED <<started, previous_start, verified>>
  /\ UNCHANGED <<memory, sampler, window, launch, edges, k, taken>>

\* Reading back, the snapshots and the launcher's turn use the rings as well:
\* they may be found in any state, of which nothing is compared with.
NextCase ==
  /\ pc = "next"
  /\ IF k = Len(Cases)
     THEN pc' = "captured" /\ UNCHANGED <<memory, launch, k>>
     ELSE /\ NextWindow
          /\ pc' = "idle"
          /\ \E p \in Slots : written' = [c \in Channels |-> p] /\ published' = written'
          /\ ring' = [c \in Channels |-> [s \in Slots |-> 0]]
          /\ UNCHANGED <<entries, reuse>>
  /\ taken' = [l \in Labels |-> NoFrame(entries)]
  /\ UNCHANGED <<sampler, window, graph>>

Ended == pc \in {"captured", "rejected", "failed"} /\ UNCHANGED vars

Next ==
  \/ Capture \/ StartFrame \/ TakeWord \/ Prepare \/ Call \/ Work \/ Pause
  \/ JudgeEntry \/ JudgeGraph \/ NextCase \/ Ended

Spec == Init /\ [][Next]_vars

--------------------------------------------------------------------------------
(* Properties.                                                              *)

\* The type of every variable.
TypeOK ==
  /\ FramesTypeOK
  /\ mode \in {"gpfifo-entry", "graph-entry"} /\ wrap \in BOOLEAN
  /\ pc \in Labels \union {"capture", "prepare", "call", "pause", "judge", "next",
                           "captured", "rejected", "failed"}
  /\ k \in 1..(IF Graph THEN 5 ELSE 2)
  /\ initial_put \in Slots
  /\ taken \in [Labels -> [before : [Channels -> Slots], after : [Channels -> Slots],
                 first : [Channels -> [Slots -> Nat]], second : [Channels -> [Slots -> Nat]]]]
  /\ calls \in 0..ApiCalls
  /\ amount \in [Channels -> Nat] /\ made \subseteq Channels \X Slots
  /\ edges \subseteq (1..3) \X (1..3)
  /\ started \in [0..3 -> 0..6] /\ previous_start \in [0..3 -> 0..6]
  /\ verified.case \in 0..5 /\ verified.order \in Seq(0..3)

\* An entry set that is reported as complete and exclusive, and the slot of an
\* isolated launch, is where libcuda wrote for that launch, and all of it: however
\* many entries it wrote, on which channels, and whether at once or late.
EntriesAreTheLaunchs ==
  pc = "judge" /\ (IF Graph THEN GraphWindow /\ Exact ELSE Attributed) => EntrySet = made

\* With --entry-wrap the two launches that are attributed are the last slot and
\* the first, although the plan's PUT may be outdated and a preparing launch may
\* not publish the one entry it should.
WrapIsPhysical ==
  pc = "judge" /\ ~Graph /\ wrap /\ Attributed =>
    made = {<<Active, IF k = 1 THEN entries - 1 ELSE 0>>}

\* What an accepted window says of entries is true.
AttributionIsTrue == EntriesAreTheLaunchs /\ WrapIsPhysical

\* A case with a result file has run each of its kernels since its own launch, in
\* the order of its chain: the slots and tokens are those of earlier cases, and
\* what these left behind does not pass for a result.
VerifiedIsFresh == verified.case # 0 => verified.order = Nodes(verified.case)

================================================================================
