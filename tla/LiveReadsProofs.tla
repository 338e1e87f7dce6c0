---------------------------- MODULE LiveReadsProofs ----------------------------
(****************************************************************************)
(* Proofs about LiveReads, for any pages, drivers, calls, rounds and length *)
(* of the log.  The decisive fact is about the log as a record of the       *)
(* address space: while the observer has not failed, a page that the log    *)
(* shows as bound is mapped, except between a call's effect and its row.    *)
(* The launcher finds a page bound at a mark; the probe arms only at that   *)
(* mark; and no row that could undo the binding leaves an armed observer    *)
(* unfailed.  A second invariant is about the rows themselves: which mark   *)
(* the samples of a window follow, how many they are and by which mark they *)
(* end, from which all that is reported of the log follows.                 *)
(****************************************************************************)
EXTENDS LiveReads, SequenceTheorems, TLAPS

(* Places.                                                                  *)

Loads   == {"userd", "ring", "set"}
Armed   == {"arm_ring", "read"} \union Loads
Planned == {"check", "arm"} \union Armed
Opened  == {"await"} \union Planned

--------------------------------------------------------------------------------
(* The inductive invariant.                                                 *)

\* What a log says of a page up to the n-th row.
Undoes(row, p) == row.kind \in {"munmap", "mmap_fixed"} /\ row.page = p
BoundBy(rows, i, p, n) ==
  /\ rows[i].kind = "mmap" /\ rows[i].page = p
  /\ \A j \in i+1..n : ~Undoes(rows[j], p)
Bound(rows, p, n) == \E i \in 1..n : BoundBy(rows, i, p, n)

\* A call in progress holds the mutex, and so does a sample.
MutexInv ==
  /\ \A d \in Drivers : call[d] # Idle => mutex = d
  /\ pc \in Loads => mutex = Prober

\* The thread that has made a call which the log does not show yet.
Made(d) == call[d] # Idle /\ call[d].stage = "made"

AuditInv ==
  /\ \A d \in Drivers : Made(d) /\ call[d].request.kind = "mmap" =>
       page[call[d].request.page] = "userd"
  /\ ~failed => \A p \in Pages : Bound(log, p, Len(log)) =>
       \/ page[p] = "userd"
       \/ \E d \in Drivers : Made(d) /\ Undoes(call[d].request, p)

\* How far the probe and the launcher are.
PlaceInv ==
  /\ Len(vmas) <= Snapshots
  /\ pc \in {"maps", "ready"} \union Opened => Len(vmas) < Snapshots
  /\ pc \in {"mark", "ok", "ready", "report"} \union Opened => Len(vmas) >= 1
  /\ pc \in Opened => opened >= 1
  /\ pc \in Planned => opened <= Len(plan)
  /\ pc \in {"arm", "arm_ring"} => plan[opened].sequence = snapshot_seq
  /\ Len(plan) <= Windows
  /\ launcher \in {"validate", "check_maps", "publish"} => Len(plan) = turn - 1
  /\ launcher = "wait_ready" => Ended \/ Len(plan) = turn - 1

\* A snapshot's mark stands in the log at most once, and only when it was taken.
SnapInv ==
  /\ Len(log) >= 1
  /\ \A k \in 1..Snapshots : \A i \in DOMAIN log :
       log[i] = Snap(k) => /\ k <= Len(vmas) /\ (pc = "mark" => k < Len(vmas))
                           /\ \A j \in DOMAIN log : log[j] = Snap(k) => i = j

\* The plan of window w: its page is bound at its mark; in gpfifo-entry, so is
\* still the page of the first plan at the second mark.
Good(q, w) ==
  /\ q \in Plan /\ q.sequence \in DOMAIN log /\ Bound(log, q.page, q.sequence)
  /\ w = 1 => /\ log[q.sequence] = Snap(1)
              /\ 1 \in DOMAIN vmas /\ q.page \in vmas[1]
  /\ w = 2 /\ mode = "gpfifo-entry" => 1 \in DOMAIN plan /\ Bound(log, plan[1].page, q.sequence)
PlansInv ==
  /\ \A w \in DOMAIN plan : Good(plan[w], w)
  /\ launcher \in {"check_maps", "publish"} => Good(draft, turn)

\* What the probe arms the observer with is bound at the last mark.
AddressInv ==
  /\ mode = "gpfifo-entry" => \A a \in addresses : 1 \in DOMAIN plan /\ a = plan[1].page
  /\ pc = "arm" => \A a \in addresses : Bound(log, a, snapshot_seq)

\* An armed observer that has not failed reads what is bound to this day.
ArmedInv ==
  /\ pc \in Armed =>
       /\ reads_armed
       /\ ~failed => \A p \in userd_addresses \union ring_address \union ring_addresses :
                       Bound(log, p, Len(log))
  /\ pc = "arm_ring" /\ ~failed => Bound(log, plan[opened].page, Len(log))
  /\ pc \in Loads => ~failed /\ rounds >= 1

IInv == TypeOK /\ MutexInv /\ AuditInv /\ PlaceInv /\ SnapInv /\ PlansInv /\ AddressInv /\ ArmedInv

--------------------------------------------------------------------------------
(* The log.                                                                 *)

\* The rows added by a step.
Grown == log' = log \/ \E r \in Row : log' = Append(log, r)

\* The rows libcuda's calls leave.
Quiet(r) == r.kind \in SampleKinds \union {"mark", "torn"}

LEMMA AppendFacts ==
  ASSUME NEW rows \in Seq(Row), NEW r \in Row
  PROVE  /\ Append(rows, r) \in Seq(Row) /\ Len(rows) \in Nat
         /\ Len(Append(rows, r)) = Len(rows) + 1
         /\ DOMAIN rows = 1..Len(rows) /\ DOMAIN Append(rows, r) = 1..(Len(rows) + 1)
         /\ \A i \in DOMAIN rows : Append(rows, r)[i] = rows[i]
         /\ Append(rows, r)[Len(rows) + 1] = r
OBVIOUS

LEMMA BoundEarlier ==
  ASSUME NEW rows \in Seq(Row), NEW r \in Row, NEW p, NEW n \in 0..Len(rows)
  PROVE  Bound(Append(rows, r), p, n) <=> Bound(rows, p, n)
<1>1. \A i \in 1..n : Append(rows, r)[i] = rows[i]
  BY AppendFacts
<1>2. ASSUME NEW i \in 1..n
      PROVE  BoundBy(Append(rows, r), i, p, n) <=> BoundBy(rows, i, p, n)
  <2>1. \A j \in i+1..n : j \in 1..n
    BY AppendFacts
  <2> QED
    BY <1>1, <2>1 DEF BoundBy
<1> QED
  BY <1>2 DEF Bound

LEMMA BoundLater ==
  ASSUME NEW rows \in Seq(Row), NEW r \in Row, NEW p
  PROVE  Bound(Append(rows, r), p, Len(rows) + 1) <=>
           \/ r.kind = "mmap" /\ r.page = p
           \/ Bound(rows, p, Len(rows)) /\ ~Undoes(r, p)
<1> DEFINE more == Append(rows, r)
           n == Len(rows)
<1>1. /\ n \in Nat /\ more[n + 1] = r /\ \A i \in 1..n : more[i] = rows[i]
  BY AppendFacts
<1> HIDE DEF more, n
<1>2. BoundBy(more, n + 1, p, n + 1) <=> r.kind = "mmap" /\ r.page = p
  <2>1. \A j \in (n+1)+1..n+1 : FALSE
    BY <1>1
  <2> QED
    BY <1>1, <2>1 DEF BoundBy
<1>3. ASSUME NEW i \in 1..n
      PROVE  BoundBy(more, i, p, n + 1) <=> BoundBy(rows, i, p, n) /\ ~Undoes(r, p)
  <2>1. \A j \in i+1..n+1 : j \in i+1..n \/ j = n + 1
    BY <1>1
  <2>2. n + 1 \in i+1..n+1 /\ \A j \in i+1..n : j \in i+1..n+1 /\ j \in 1..n
    BY <1>1
  <2> QED
    BY <1>1, <2>1, <2>2 DEF BoundBy
<1>4. \A i \in 1..n+1 : i \in 1..n \/ i = n + 1
  BY <1>1
<1>5. n + 1 \in 1..n+1 /\ \A i \in 1..n : i \in 1..n+1
  BY <1>1
<1>6. Bound(more, p, n + 1) <=>
        BoundBy(more, n + 1, p, n + 1) \/ \E i \in 1..n : BoundBy(more, i, p, n + 1)
  BY <1>4, <1>5 DEF Bound
<1> QED
  BY <1>2, <1>3, <1>6 DEF Bound, more, n

\* What was bound at a row of the log stays so.
LEMMA BoundKept ==
  ASSUME log \in Seq(Row), Grown
  PROVE  /\ log' \in Seq(Row) /\ Len(log) \in Nat /\ Len(log') \in Nat /\ Len(log') >= Len(log)
         /\ DOMAIN log \subseteq DOMAIN log' /\ DOMAIN log = 1..Len(log)
         /\ \A i \in DOMAIN log : log'[i] = log[i]
         /\ \A p : \A n \in 0..Len(log) : Bound(log', p, n) <=> Bound(log, p, n)
<1>1. CASE log' = log
  BY <1>1
<1>2. CASE \E r \in Row : log' = Append(log, r)
  <2>1. PICK r \in Row : log' = Append(log, r)
    BY <1>2
  <2>2. /\ log' \in Seq(Row) /\ Len(log) \in Nat /\ Len(log') = Len(log) + 1
        /\ DOMAIN log = 1..Len(log) /\ DOMAIN log' = 1..(Len(log) + 1)
        /\ \A i \in DOMAIN log : log'[i] = log[i]
    BY <2>1, AppendFacts
  <2>3. \A p : \A n \in 0..Len(log) : Bound(log', p, n) <=> Bound(log, p, n)
    BY <2>1, BoundEarlier
  <2> QED
    BY <2>2, <2>3
<1> QED
  BY <1>1, <1>2 DEF Grown

--------------------------------------------------------------------------------
(* emit.                                                                    *)

LEMMA RowFacts ==
         /\ Torn \in Row /\ Quiet(Torn)
         /\ \A label \in Labels, n \in Nat : Mark(label, n) \in Row /\ Quiet(Mark(label, n))
         /\ \A kind \in SampleKinds, n \in Nat : Sample(kind, n) \in Row /\ Quiet(Sample(kind, n))
         /\ \A c \in SysCall : c \in Row
         /\ \A r : Quiet(r) => r.kind # "mmap" /\ \A p : ~Undoes(r, p)
<1>1. Torn \in Row /\ Quiet(Torn)
  BY DEF Row, Torn, Quiet
<1>2. \A label \in Labels, n \in Nat : Mark(label, n) \in Row /\ Quiet(Mark(label, n))
  BY DEF Row, Mark, Quiet
<1>3. \A kind \in SampleKinds, n \in Nat : Sample(kind, n) \in Row /\ Quiet(Sample(kind, n))
  BY DEF Row, Sample, Quiet
<1>4. \A c \in SysCall : c \in Row
  BY DEF Row
<1>5. \A r : Quiet(r) => r.kind # "mmap" /\ \A p : ~Undoes(r, p)
  BY DEF Quiet, SampleKinds, Undoes
<1> QED
  BY <1>1, <1>2, <1>3, <1>4, <1>5

\* A row is added as it is, or the observer has failed.
LEMMA EmitFacts ==
  ASSUME log \in Seq(Row), failed \in BOOLEAN, reads_armed \in BOOLEAN, NEW row \in Row, Emit(row)
  PROVE  /\ failed' \in BOOLEAN /\ (failed => failed') /\ Grown
         /\ log' = log \/ log' = Append(log, row) \/ log' = Append(log, Torn)
         /\ ~failed' => log' = Append(log, row)
         /\ ~failed' /\ reads_armed => Quiet(row)
<1>1. PICK short \in BOOLEAN :
        /\ log' = IF Len(log) >= MaxSeq THEN log ELSE Append(log, IF short THEN Torn ELSE row)
        /\ failed' = (failed \/ (reads_armed /\ row.kind \notin SampleKinds \union {"mark"})
                             \/ Len(log) >= MaxSeq \/ short)
  BY DEF Emit
<1>2. failed' \in BOOLEAN /\ (failed => failed')
  BY <1>1
<1>3. log' = log \/ log' = Append(log, row) \/ log' = Append(log, Torn)
  BY <1>1
<1>4. ~failed' => ~short /\ ~(Len(log) >= MaxSeq)
                  /\ ~(reads_armed /\ row.kind \notin SampleKinds \union {"mark"})
  BY <1>1
<1>5. ~failed' => log' = Append(log, row)
  BY <1>1, <1>4
<1>6. ~failed' /\ reads_armed => Quiet(row)
  BY <1>4 DEF Quiet
<1>7. Grown
  BY <1>3, RowFacts DEF Grown
<1> QED
  BY <1>2, <1>3, <1>5, <1>6, <1>7

\* What a row that is no call leaves bound.
LEMMA QuietKeeps ==
  ASSUME log \in Seq(Row), failed \in BOOLEAN, reads_armed \in BOOLEAN,
         NEW row \in Row, Emit(row), ~failed', Quiet(row)
  PROVE  \A p : Bound(log', p, Len(log')) <=> Bound(log, p, Len(log))
<1>1. log' = Append(log, row)
  BY EmitFacts
<1>2. Len(log') = Len(log) + 1
  BY <1>1, AppendFacts
<1> QED
  BY <1>1, <1>2, BoundLater, RowFacts

--------------------------------------------------------------------------------
(* The log and the address space.                                           *)

LEMMA TypeFacts ==
  ASSUME TypeOK
  PROVE  /\ log \in Seq(Row) /\ failed \in BOOLEAN /\ reads_armed \in BOOLEAN /\ Len(log) \in Nat
         /\ DOMAIN log = 1..Len(log) /\ call \in [Drivers -> {Idle} \union [stage : {"entered", "made"}, request : SysCall]]
         /\ page \in [Pages -> {"userd", "other", "none"}] /\ rounds \in Nat
BY DEF TypeOK, ObserverTypeOK

LEMMA CallFacts ==
  ASSUME TypeOK, NEW d \in Drivers, call[d] # Idle
  PROVE  /\ call[d] \in [stage : {"entered", "made"}, request : SysCall]
         /\ call[d].stage \in {"entered", "made"} /\ call[d].request \in SysCall
BY DEF TypeOK, ObserverTypeOK

LEMMA SysCallFacts ==
  ASSUME NEW c \in SysCall
  PROVE  /\ c.kind \in {"mmap", "mmap_fixed", "munmap", "ioctl"}
         /\ c.kind # "ioctl" => c.page \in Pages
BY DEF SysCall

LEMMA AuditSame ==
  ASSUME AuditInv, UNCHANGED <<page, log, call>>, failed' \/ failed' = failed
  PROVE  AuditInv'
BY DEF AuditInv, Made

LEMMA AuditQuiet ==
  ASSUME TypeOK, AuditInv, NEW row \in Row, Emit(row), Quiet(row), UNCHANGED <<page, call>>
  PROVE  AuditInv'
<1>1. \A d \in Drivers : Made(d)' <=> Made(d)
  BY DEF Made
<1>2. ASSUME ~failed' PROVE ~failed /\ \A p : Bound(log', p, Len(log')) <=> Bound(log, p, Len(log))
  BY <1>2, TypeFacts, EmitFacts, QuietKeeps
<1> QED
  BY <1>1, <1>2 DEF AuditInv

LEMMA AuditEnter ==
  ASSUME TypeOK, AuditInv, NEW d \in Drivers, HookEnter(d)
  PROVE  AuditInv'
<1>1. call[d] = Idle /\ UNCHANGED <<page, log, failed>>
  BY DEF HookEnter
<1>2. PICK c \in SysCall : call' = [call EXCEPT ![d] = [stage |-> "entered", request |-> c]]
  BY DEF HookEnter
<1>3. \A e \in Drivers : (Made(e)' <=> Made(e)) /\ (Made(e) => call'[e] = call[e])
  BY <1>1, <1>2, TypeFacts DEF Made, Idle
<1> QED
  BY <1>1, <1>3 DEF AuditInv

\* Only the call of the thread that holds the mutex is in progress.
LEMMA Alone ==
  ASSUME MutexInv, NEW d \in Drivers, NEW e \in Drivers, call[d] # Idle, call[e] # Idle
  PROVE  d = e
BY DEF MutexInv

LEMMA CallStep ==
  ASSUME TypeOK, NEW d \in Drivers, HookCall(d)
  PROVE  /\ call[d] # Idle /\ call[d].stage = "entered" /\ call[d].request \in SysCall
         /\ page' = Effect(call[d].request)
         /\ call' \in [Drivers -> {Idle} \union [stage : {"entered", "made"}, request : SysCall]]
         /\ call'[d] # Idle /\ call'[d].stage = "made" /\ call'[d].request = call[d].request
         /\ \A e \in Drivers : e # d => call'[e] = call[e]
<1>1. /\ call[d] # Idle /\ call[d].stage = "entered" /\ page' = Effect(call[d].request)
      /\ call' = [call EXCEPT ![d] = [call[d] EXCEPT !.stage = "made"]]
  BY DEF HookCall
<1>2. PICK st \in {"entered", "made"}, c \in SysCall : call[d] = [stage |-> st, request |-> c]
  BY <1>1, CallFacts
<1>3. [call[d] EXCEPT !.stage = "made"] = [stage |-> "made", request |-> c] /\ call[d].request = c
  BY <1>2
<1>4. [stage |-> "made", request |-> c] # Idle
  BY DEF Idle
<1>5. call'[d] = [stage |-> "made", request |-> c]
  BY <1>1, <1>3, TypeFacts
<1>6. call' \in [Drivers -> {Idle} \union [stage : {"entered", "made"}, request : SysCall]]
  BY <1>1, <1>3, TypeFacts
<1> QED
  BY <1>1, <1>3, <1>4, <1>5, <1>6, TypeFacts

LEMMA EffectFacts ==
  ASSUME TypeOK, NEW c \in SysCall
  PROVE  /\ Effect(c) \in [Pages -> {"userd", "other", "none"}]
         /\ c.kind = "mmap" => Effect(c)[c.page] = "userd"
         /\ \A p \in Pages : page[p] = "userd" => Effect(c)[p] = "userd" \/ Undoes(c, p)
<1>0. page \in [Pages -> {"userd", "other", "none"}]
  BY TypeFacts
<1>1. CASE c.kind = "mmap"
  <2>1. Effect(c) = [page EXCEPT ![c.page] = "userd"] /\ c.page \in Pages
    BY <1>1, SysCallFacts DEF Effect
  <2> QED
    BY <1>0, <1>1, <2>1
<1>2. CASE c.kind = "mmap_fixed"
  <2>1. Effect(c) = [page EXCEPT ![c.page] = "other"] /\ c.page \in Pages
    BY <1>2, SysCallFacts DEF Effect
  <2> QED
    BY <1>0, <1>2, <2>1 DEF Undoes
<1>3. CASE c.kind = "munmap"
  <2>1. Effect(c) = [page EXCEPT ![c.page] = "none"] /\ c.page \in Pages
    BY <1>3, SysCallFacts DEF Effect
  <2> QED
    BY <1>0, <1>3, <2>1 DEF Undoes
<1>4. CASE c.kind = "ioctl"
  BY <1>0, <1>4 DEF Effect
<1> QED
  BY <1>1, <1>2, <1>3, <1>4, SysCallFacts

LEMMA AuditCall ==
  ASSUME TypeOK, MutexInv, AuditInv, NEW d \in Drivers, HookCall(d)
  PROVE  AuditInv'
<1> DEFINE c == call[d].request
<1>1. /\ call[d] # Idle /\ call[d].stage = "entered" /\ c \in SysCall /\ page' = Effect(c)
      /\ call'[d] # Idle /\ call'[d].stage = "made" /\ call'[d].request = c
      /\ \A e \in Drivers : e # d => call'[e] = call[e]
  BY CallStep
<1>2. UNCHANGED <<log, failed>>
  BY DEF HookCall
<1>3. \A e \in Drivers : ~Made(e) /\ (Made(e)' <=> e = d)
  BY <1>1, Alone DEF Made
<1> HIDE DEF c
<1>4. \A e \in Drivers : Made(e)' /\ call'[e].request.kind = "mmap" => page'[call'[e].request.page] = "userd"
  BY <1>1, <1>3, EffectFacts
<1>5. ASSUME ~failed, NEW p \in Pages, Bound(log, p, Len(log))
      PROVE  page'[p] = "userd" \/ \E e \in Drivers : Made(e)' /\ Undoes(call'[e].request, p)
  <2>1. page[p] = "userd"
    BY <1>3, <1>5 DEF AuditInv
  <2> QED
    BY <1>1, <1>3, <2>1, EffectFacts
<1> QED
  BY <1>2, <1>4, <1>5 DEF AuditInv

LEMMA AuditEmit ==
  ASSUME TypeOK, MutexInv, AuditInv, NEW d \in Drivers, HookEmit(d)
  PROVE  AuditInv'
<1> DEFINE c == call[d].request
<1>1. /\ call[d] # Idle /\ call[d].stage = "made" /\ UNCHANGED page
      /\ Emit(c) \/ failed'
      /\ call' = [call EXCEPT ![d] = Idle]
  BY DEF HookEmit
<1>2. c \in SysCall /\ c \in Row
  BY <1>1, CallFacts, RowFacts
<1>3. Made(d) /\ \A e \in Drivers : ~Made(e)' /\ (Made(e) => e = d)
  BY <1>1, TypeFacts, Alone DEF Made
<1> HIDE DEF c
<1>4. ASSUME ~failed', NEW p \in Pages, Bound(log', p, Len(log'))
      PROVE  page'[p] = "userd"
  <2>1. log' = Append(log, c) /\ ~failed
    BY <1>1, <1>2, <1>4, TypeFacts, EmitFacts
  <2>2. Len(log') = Len(log) + 1
    BY <1>2, <2>1, TypeFacts, AppendFacts
  <2>3. \/ c.kind = "mmap" /\ c.page = p
        \/ Bound(log, p, Len(log)) /\ ~Undoes(c, p)
    BY <1>2, <1>4, <2>1, <2>2, TypeFacts, BoundLater
  <2>4. CASE c.kind = "mmap" /\ c.page = p
    BY <1>1, <1>3, <2>4 DEF AuditInv, c
  <2>5. CASE Bound(log, p, Len(log)) /\ ~Undoes(c, p)
    BY <1>1, <1>3, <2>1, <2>5 DEF AuditInv, c
  <2> QED
    BY <2>3, <2>4, <2>5
<1> QED
  BY <1>3, <1>4 DEF AuditInv

--------------------------------------------------------------------------------
(* Snapshots and windows.                                                   *)

SnapLabels == {"after_warmup", "after_tiny", "after_entries", "graph_before", "graph_after"}

LEMMA ModeFacts ==
  ASSUME mode \in Modes
  PROVE  /\ mode \in {"userd-progress", "gpfifo-entry", "graph-entry"}
         /\ Cases \in 1..5
         /\ mode = "userd-progress" => Snapshots = 2 /\ Served = <<1>>
         /\ mode = "gpfifo-entry" => Snapshots = 3 /\ Served = <<1, 2>>
         /\ mode = "graph-entry" =>
              Snapshots = 2 + 2 * Cases /\ Served = [w \in 1..(Cases + 1) |-> 2 * w - 1]
BY ModesAssumption DEF Snapshots, Served

LEMMA ServedFacts ==
  ASSUME mode \in Modes
  PROVE  /\ Snapshots \in Nat /\ Windows \in Nat /\ Windows >= 1
         /\ Served[1] = 1
         /\ DOMAIN Served = 1..Windows
         /\ \A w \in 1..Windows : Served[w] \in Nat /\ 1 <= Served[w] /\ Served[w] < Snapshots
         /\ mode = "userd-progress" => Windows = 1
         /\ mode = "gpfifo-entry" => Windows = 2 /\ Served[2] = 2
<1>1. CASE mode = "userd-progress"
  <2>1. Served = <<1>> /\ Snapshots = 2
    BY <1>1, ModeFacts
  <2> QED
    BY <1>1, <2>1 DEF Windows
<1>2. CASE mode = "gpfifo-entry"
  <2>1. Served = <<1, 2>> /\ Snapshots = 3
    BY <1>2, ModeFacts
  <2> QED
    BY <1>2, <2>1 DEF Windows
<1>3. CASE mode = "graph-entry"
  <2>1. Served = [w \in 1..(Cases + 1) |-> 2 * w - 1] /\ Snapshots = 2 + 2 * Cases /\ Cases \in 1..5
    BY <1>3, ModeFacts
  <2>2. Served \in Seq(Int) /\ Len(Served) = Cases + 1 /\ DOMAIN Served = 1..(Cases + 1)
    <3>1. Cases + 1 \in Nat /\ \A w \in 1..(Cases + 1) : 2 * w - 1 \in Int
      BY <2>1
    <3>2. Served \in [1..(Cases + 1) -> Int]
      BY <2>1, <3>1
    <3>3. Served \in Seq(Int)
      BY <3>1, <3>2, IsASeq
    <3> QED
      BY <3>1, <3>2, <3>3, LenProperties
  <2>3. \A w \in 1..(Cases + 1) : Served[w] = 2 * w - 1
    BY <2>1
  <2>4. Served[1] = 1
    BY <2>1, <2>3
  <2> QED
    BY <1>3, <2>1, <2>2, <2>3, <2>4 DEF Windows
<1> QED
  BY <1>1, <1>2, <1>3, ModeFacts

LEMMA ServedRange ==
  ASSUME mode \in Modes, NEW k \in Range(Served)
  PROVE  k < Snapshots
<1>1. PICK w \in DOMAIN Served : k = Served[w]
  BY DEF Range
<1> QED
  BY <1>1, ServedFacts

LEMMA SnapFacts ==
  ASSUME mode \in Modes, NEW k \in 1..Snapshots
  PROVE  /\ Snap(k).label \in SnapLabels /\ Snap(k).n \in Nat
         /\ Snap(k) = Mark(Snap(k).label, Snap(k).n)
         /\ Snap(1) = Mark("after_warmup", 0)
<1>0. Snapshots \in Nat
  BY ServedFacts
<1>1. CASE mode = "graph-entry" /\ k > 2
  <2>1. Snap(k) = Mark(IF k % 2 = 1 THEN "graph_before" ELSE "graph_after", (k - 1) \div 2)
    BY <1>1 DEF Snap
  <2>2. (k - 1) \div 2 \in Nat
    BY <1>1
  <2> QED
    BY <2>1, <2>2 DEF Mark, SnapLabels, Snap
<1>2. CASE ~(mode = "graph-entry" /\ k > 2)
  <2>1. k \in 1..3
    BY <1>0, <1>2, ModeFacts
  <2>2. Snap(k) = Mark(<<"after_warmup", "after_tiny", "after_entries">>[k], 0)
    BY <1>2 DEF Snap
  <2>3. <<"after_warmup", "after_tiny", "after_entries">>[k] \in SnapLabels
    BY <2>1 DEF SnapLabels
  <2> QED
    BY <2>2, <2>3 DEF Mark, Snap
<1> QED
  BY <1>1, <1>2

LEMMA SnapDistinct ==
  ASSUME mode \in Modes, NEW k \in 1..Snapshots, NEW l \in 1..Snapshots, Snap(k) = Snap(l)
  PROVE  k = l
<1>0. Snapshots \in Nat
  BY ServedFacts
<1> DEFINE cased(x) == mode = "graph-entry" /\ x > 2
<1>1. \A x \in 1..Snapshots : cased(x) =>
        /\ Snap(x).label = IF x % 2 = 1 THEN "graph_before" ELSE "graph_after"
        /\ Snap(x).n = (x - 1) \div 2
  BY DEF Snap, Mark
<1>2. \A x \in 1..Snapshots : ~cased(x) =>
        /\ x \in 1..3
        /\ Snap(x).label = <<"after_warmup", "after_tiny", "after_entries">>[x]
  BY <1>0, ModeFacts DEF Snap, Mark
<1>3. CASE cased(k) /\ cased(l)
  <2>1. (k % 2 = 1 <=> l % 2 = 1) /\ (k - 1) \div 2 = (l - 1) \div 2
    BY <1>1, <1>3
  <2>2. k \in Nat /\ l \in Nat
    BY <1>0
  <2> QED
    BY <2>1, <2>2
<1>4. CASE ~cased(k) /\ ~cased(l)
  BY <1>2, <1>4
<1>5. ASSUME NEW x \in 1..Snapshots, NEW y \in 1..Snapshots, cased(x), ~cased(y)
      PROVE  Snap(x).label # Snap(y).label
  <2>1. Snap(x).label \in {"graph_before", "graph_after"}
    BY <1>1, <1>5
  <2>2. Snap(y).label \in {"after_warmup", "after_tiny", "after_entries"}
    BY <1>2, <1>5
  <2> QED
    BY <2>1, <2>2
<1> QED
  BY <1>3, <1>4, <1>5

\* Rows that are no snapshot's mark.
LEMMA NoSnap ==
  ASSUME mode \in Modes, NEW k \in 1..Snapshots
  PROVE  /\ Torn # Snap(k)
         /\ \A c \in SysCall : c # Snap(k)
         /\ \A kind \in SampleKinds, n \in Nat : Sample(kind, n) # Snap(k)
         /\ \A label, n : label \notin SnapLabels => Mark(label, n) # Snap(k)
<1>1. Snap(k).kind = "mark" /\ Snap(k).label \in SnapLabels
  <2>1. Snap(k) = Mark(Snap(k).label, Snap(k).n) /\ Snap(k).label \in SnapLabels
    BY SnapFacts
  <2>2. Mark(Snap(k).label, Snap(k).n).kind = "mark"
    BY DEF Mark
  <2> QED
    BY <2>1, <2>2
<1>2. Torn.kind = "torn"
  BY DEF Torn
<1>3. \A c \in SysCall : c.kind # "mark"
  BY SysCallFacts
<1>4. \A kind \in SampleKinds, n \in Nat : Sample(kind, n).kind # "mark"
  BY DEF Sample, SampleKinds
<1>5. \A label, n : Mark(label, n).label = label
  BY DEF Mark
<1> QED
  BY <1>1, <1>2, <1>3, <1>4, <1>5

--------------------------------------------------------------------------------
(* What a step leaves as it was.                                            *)

LEMMA SameMode ==
  ASSUME UNCHANGED mode
  PROVE  /\ Snapshots' = Snapshots /\ Served' = Served /\ Windows' = Windows
         /\ \A k : Snap(k)' = Snap(k)
         /\ \A w : Asks(w)' = Asks(w)
<1>1. Snapshots' = Snapshots /\ Served' = Served
  BY DEF Snapshots, Served
<1>2. Windows' = Windows
  BY <1>1 DEF Windows
<1>3. \A k : Snap(k)' = Snap(k)
  BY DEF Snap, Mark
<1>4. \A w : Asks(w)' = Asks(w)
  BY DEF Asks
<1> QED
  BY <1>1, <1>2, <1>3, <1>4

LEMMA SeqFacts ==
  ASSUME TypeOK
  PROVE  /\ mode \in Modes /\ turn \in 1..Windows
         /\ vmas \in Seq(SUBSET Pages) /\ Len(vmas) \in Nat /\ DOMAIN vmas = 1..Len(vmas)
         /\ plan \in Seq(Plan) /\ Len(plan) \in Nat /\ DOMAIN plan = 1..Len(plan)
         /\ \A w \in DOMAIN plan : plan[w] \in Plan
         /\ ready \in Seq(Nat) /\ Len(ready) \in Nat /\ DOMAIN ready = 1..Len(ready)
         /\ reported \in Seq(Nat)
BY DEF TypeOK

LEMMA SnapKept ==
  ASSUME TypeOK, SnapInv, UNCHANGED <<mode, vmas>>, pc' = "mark" => pc = "mark",
         NEW row \in Row, log' = log \/ log' = Append(log, row) \/ log' = Append(log, Torn),
         \A k \in 1..Snapshots : row # Snap(k)
  PROVE  SnapInv'
<1>1. Snapshots' = Snapshots /\ \A k : Snap(k)' = Snap(k)
  BY SameMode
<1>2. ASSUME NEW r \in Row, log' = Append(log, r), \A k \in 1..Snapshots : r # Snap(k)
      PROVE  SnapInv'
  <2>1. /\ DOMAIN log' = DOMAIN log \union {Len(log) + 1} /\ log'[Len(log) + 1] = r
        /\ Len(log') = Len(log) + 1 /\ Len(log) \in Nat
        /\ \A i \in DOMAIN log : log'[i] = log[i]
    <3>1. /\ log' = Append(log, r) /\ log \in Seq(Row) /\ r \in Row
      BY <1>2, TypeFacts
    <3> QED
      BY <3>1, AppendFacts
  <2> QED
    BY <1>1, <1>2, <2>1 DEF SnapInv
<1>3. \A k \in 1..Snapshots : Torn # Snap(k)
  BY NoSnap, SeqFacts
<1>4. CASE log' = log
  BY <1>1, <1>4 DEF SnapInv
<1> QED
  BY <1>2, <1>3, <1>4, RowFacts

LEMMA GoodKept ==
  ASSUME TypeOK, Grown, UNCHANGED <<mode, plan>>,
         vmas' = vmas \/ \E v \in SUBSET Pages : vmas' = Append(vmas, v),
         NEW q, NEW w, Good(q, w)
  PROVE  Good(q, w)'
<1>1. /\ q \in Plan /\ q.sequence \in DOMAIN log /\ q.sequence \in 0..Len(log)
      /\ Bound(log, q.page, q.sequence)
  BY TypeFacts DEF Good
<1>2. /\ q.sequence \in DOMAIN log' /\ log'[q.sequence] = log[q.sequence]
      /\ \A p : Bound(log', p, q.sequence) <=> Bound(log, p, q.sequence)
  BY <1>1, TypeFacts, BoundKept
<1>3. 1 \in DOMAIN vmas => 1 \in DOMAIN vmas' /\ vmas'[1] = vmas[1]
  <2>1. CASE vmas' = vmas
    BY <2>1
  <2>2. CASE \E v \in SUBSET Pages : vmas' = Append(vmas, v)
    <3>1. PICK v \in SUBSET Pages : vmas' = Append(vmas, v)
      BY <2>2
    <3>2. vmas \in Seq(SUBSET Pages)
      BY SeqFacts
    <3>3. DOMAIN vmas' = 1..(Len(vmas) + 1) /\ \A i \in DOMAIN vmas : vmas'[i] = vmas[i]
      BY <3>1, <3>2
    <3> QED
      BY <3>2, <3>3
  <2> QED
    BY <2>1, <2>2
<1>4. Snap(1)' = Snap(1)
  BY SameMode
<1> QED
  BY <1>1, <1>2, <1>3, <1>4 DEF Good

LEMMA PlansKept ==
  ASSUME TypeOK, PlansInv, Grown, UNCHANGED <<mode, plan>>,
         vmas' = vmas \/ \E v \in SUBSET Pages : vmas' = Append(vmas, v),
         launcher' \in {"check_maps", "publish"} =>
           launcher \in {"check_maps", "publish"} /\ UNCHANGED <<draft, turn>>
  PROVE  PlansInv'
<1>1. \A q, w : Good(q, w) => Good(q, w)'
  BY GoodKept
<1>2. \A w \in DOMAIN plan' : Good(plan[w], w)'
  BY <1>1 DEF PlansInv
<1>3. launcher' \in {"check_maps", "publish"} => Good(draft, turn)'
  BY <1>1 DEF PlansInv
<1> QED
  BY <1>2, <1>3 DEF PlansInv

\* The sequence the probe arms at is a row of the log.
LEMMA ArmsAtRow ==
  ASSUME IInv, pc \in {"arm", "arm_ring"}
  PROVE  /\ opened \in DOMAIN plan /\ plan[opened].sequence = snapshot_seq
         /\ snapshot_seq \in 0..Len(log) /\ Good(plan[opened], opened)
<1>1. opened \in DOMAIN plan /\ plan[opened].sequence = snapshot_seq
  BY SeqFacts DEF IInv, PlaceInv, Planned, Armed, Opened, opened
<1>2. Good(plan[opened], opened)
  BY <1>1 DEF IInv, PlansInv
<1> QED
  BY <1>1, <1>2, TypeFacts DEF IInv, Good

LEMMA AddressKept ==
  ASSUME IInv, Grown, UNCHANGED <<mode, plan, addresses, snapshot_seq>>, pc' = "arm" => pc = "arm"
  PROVE  AddressInv'
<1>1. ASSUME pc = "arm", NEW a \in addresses
      PROVE  Bound(log, a, snapshot_seq)' <=> Bound(log, a, snapshot_seq)
  BY <1>1, ArmsAtRow, TypeFacts, BoundKept DEF IInv
<1> QED
  BY <1>1 DEF IInv, AddressInv

--------------------------------------------------------------------------------
(* The launcher's steps.                                                    *)

\* They leave the observer and most of the probe alone.
LEMMA LauncherSide ==
  ASSUME IInv, pc' = pc \/ pc' = "killed",
         UNCHANGED <<observer, mode, vmas, snapshot_seq, ready, addresses, reported, run_status>>,
         plan' = plan \/ (launcher = "publish" /\ plan' = Append(plan, draft))
  PROVE  /\ MutexInv' /\ AuditInv' /\ SnapInv' /\ AddressInv' /\ ArmedInv' /\ ObserverTypeOK'
         /\ UNCHANGED <<log, failed>> /\ Grown
<1>1. /\ UNCHANGED <<page, log, mutex, call, calls, failed, reads_armed, rounds, late>>
      /\ UNCHANGED <<userd_addresses, ring_address, ring_addresses>>
  BY DEF observer, window, targets
<1>2. /\ pc' \in Loads => pc \in Loads
      /\ pc' = "mark" => pc = "mark"
      /\ pc' \in Armed => pc \in Armed
      /\ pc' = "arm" => pc = "arm"
      /\ pc' = "arm_ring" => pc = "arm_ring"
  BY DEF Loads, Armed
<1>3. MutexInv'
  BY <1>1, <1>2 DEF IInv, MutexInv
<1>4. AuditInv'
  BY <1>1, AuditSame DEF IInv
<1>5. SnapInv'
  BY <1>1, <1>2, SameMode DEF IInv, SnapInv
<1>6. \A w \in DOMAIN plan : w \in DOMAIN plan' /\ plan'[w] = plan[w]
  <2>1. CASE plan' = plan
    BY <2>1
  <2>2. CASE launcher = "publish" /\ plan' = Append(plan, draft)
    <3>1. draft \in Plan
      BY <2>2 DEF IInv, PlansInv, Good
    <3> QED
      BY <2>2, <3>1, SeqFacts DEF IInv
  <2> QED
    BY <2>1, <2>2
<1>7. AddressInv'
  BY <1>1, <1>2, <1>6 DEF IInv, AddressInv
<1>8. ArmedInv'
  <2>1. pc' = "arm_ring" => plan'[opened'] = plan[opened]
    BY <1>2, <1>6, ArmsAtRow DEF opened
  <2> QED
    BY <1>1, <1>2, <2>1 DEF IInv, ArmedInv
<1>9. ObserverTypeOK'
  BY <1>1 DEF IInv, TypeOK, ObserverTypeOK
<1> QED
  BY <1>1, <1>3, <1>4, <1>5, <1>7, <1>8, <1>9 DEF Grown

LEMMA NextTurnFacts ==
  ASSUME TypeOK, NextTurn
  PROVE  \/ launcher' = "wait_ready" /\ turn' = turn + 1 /\ turn' \in 1..Windows
         \/ launcher' = "wait_exit" /\ turn' = turn /\ turn = Windows
BY SeqFacts, ServedFacts DEF NextTurn

LEMMA KillKeeps == ASSUME IInv, NEW code \in {124, 125}, Kill(code) PROVE IInv'
<1>1. /\ pc' = (IF Ended THEN pc ELSE "killed") /\ exit_code' = code /\ launcher' = "exited"
      /\ UNCHANGED <<plan, turn, draft, observer, mode, vmas, snapshot_seq, ready, addresses,
                     reported, run_status>>
  BY DEF Kill
<1>2. /\ MutexInv' /\ AuditInv' /\ SnapInv' /\ AddressInv' /\ ArmedInv' /\ ObserverTypeOK'
      /\ Grown
  BY <1>1, LauncherSide
<1>3. PlansInv'
  BY <1>1, <1>2, PlansKept DEF IInv
<1>4. PlaceInv'
  BY <1>1, SameMode DEF IInv, PlaceInv, Opened, Planned, Armed, Loads, opened, Ended
<1>5. TypeOK'
  BY <1>1, <1>2, SameMode DEF IInv, TypeOK
<1> QED
  BY <1>2, <1>3, <1>4, <1>5 DEF IInv

LEMMA SeesReadyKeeps == ASSUME IInv, SeesReady PROVE IInv'
<1>1. /\ launcher = "wait_ready"
      /\ UNCHANGED <<plan, draft, exit_code, observer, mode, pc, vmas, snapshot_seq, ready,
                     addresses, reported, run_status>>
  BY DEF SeesReady, probe
<1>0. IF Ended THEN NextTurn ELSE launcher' = "validate" /\ turn' = turn
  BY DEF SeesReady
<1>2. /\ MutexInv' /\ AuditInv' /\ SnapInv' /\ AddressInv' /\ ArmedInv' /\ ObserverTypeOK'
      /\ Grown
  BY <1>1, LauncherSide
<1>3. /\ launcher' \in {"wait_ready", "wait_exit", "validate"} /\ turn' \in 1..Windows
      /\ Windows' = Windows
      /\ launcher' = "wait_ready" => Ended'
      /\ launcher' = "validate" => ~Ended /\ turn' = turn
  BY <1>0, <1>1, NextTurnFacts, SameMode, SeqFacts DEF IInv, Ended
<1>4. PlansInv'
  BY <1>1, <1>2, <1>3, PlansKept DEF IInv
<1>5. PlaceInv'
  BY <1>1, <1>3, SameMode DEF IInv, PlaceInv, opened
<1>6. TypeOK'
  BY <1>1, <1>2, <1>3 DEF IInv, TypeOK
<1> QED
  BY <1>2, <1>4, <1>5, <1>6 DEF IInv

LEMMA CheckMapsKeeps == ASSUME IInv, CheckMaps PROVE IInv'
<1>1. CASE Kill(125)
  BY <1>1, KillKeeps
<1>2. CASE /\ launcher = "check_maps" /\ launcher' = "publish"
           /\ UNCHANGED <<plan, turn, draft, exit_code, observer, probe>>
  <2>1. UNCHANGED <<mode, pc, vmas, snapshot_seq, ready, addresses, reported, run_status>>
    BY <1>2 DEF probe
  <2>2. /\ MutexInv' /\ AuditInv' /\ SnapInv' /\ AddressInv' /\ ArmedInv' /\ ObserverTypeOK'
        /\ Grown
    BY <1>2, <2>1, LauncherSide
  <2>3. PlansInv'
    BY <1>2, <2>1, <2>2, PlansKept DEF IInv
  <2>4. PlaceInv'
    BY <1>2, <2>1, SameMode DEF IInv, PlaceInv, opened
  <2>5. TypeOK'
    BY <1>2, <2>1, <2>2, SameMode DEF IInv, TypeOK
  <2> QED
    BY <2>2, <2>3, <2>4, <2>5 DEF IInv
<1> QED
  BY <1>1, <1>2 DEF CheckMaps

LEMMA WaitExitKeeps == ASSUME IInv, WaitExit PROVE IInv'
<1>1. /\ launcher' = "exited" /\ exit_code' \in {0, 1, 2}
      /\ UNCHANGED <<plan, turn, draft, observer, mode, pc, vmas, snapshot_seq, ready, addresses,
                     reported, run_status>>
  BY DEF WaitExit, probe
<1>2. /\ MutexInv' /\ AuditInv' /\ SnapInv' /\ AddressInv' /\ ArmedInv' /\ ObserverTypeOK'
      /\ Grown
  BY <1>1, LauncherSide
<1>3. PlansInv'
  BY <1>1, <1>2, PlansKept DEF IInv
<1>4. PlaceInv'
  BY <1>1, SameMode DEF IInv, PlaceInv, opened
<1>5. TypeOK'
  BY <1>1, <1>2, SameMode DEF IInv, TypeOK
<1> QED
  BY <1>2, <1>3, <1>4, <1>5 DEF IInv

LEMMA PublishKeeps == ASSUME IInv, Publish PROVE IInv'
<1>1. /\ launcher = "publish" /\ plan' = Append(plan, draft) /\ NextTurn
      /\ UNCHANGED <<draft, exit_code, observer, mode, pc, vmas, snapshot_seq, ready, addresses,
                     reported, run_status>>
  BY DEF Publish, probe
<1>2. /\ MutexInv' /\ AuditInv' /\ SnapInv' /\ AddressInv' /\ ArmedInv' /\ ObserverTypeOK'
      /\ UNCHANGED log
  BY <1>1, LauncherSide
<1>3. /\ Good(draft, turn) /\ draft \in Plan /\ Len(plan) = turn - 1 /\ Windows' = Windows
      /\ turn \in 1..Windows /\ Windows \in Nat /\ Len(plan) \in Nat
  BY <1>1, SameMode, SeqFacts, ServedFacts DEF IInv, PlansInv, PlaceInv, Good
<1>4. /\ plan' \in Seq(Plan) /\ Len(plan') = turn /\ DOMAIN plan' = DOMAIN plan \union {turn}
      /\ DOMAIN plan = 1..Len(plan)
      /\ plan'[turn] = draft /\ \A w \in DOMAIN plan : plan'[w] = plan[w]
  BY <1>1, <1>3, SeqFacts DEF IInv
<1>5. \/ launcher' = "wait_ready" /\ turn' = turn + 1 /\ turn' \in 1..Windows
      \/ launcher' = "wait_exit" /\ turn' = turn
  BY <1>1, NextTurnFacts DEF IInv
<1>6. PlansInv'
  <2>1. \A q, w : Good(q, w) => Good(q, w)'
    BY <1>1, <1>2, <1>4, SameMode DEF Good
  <2>2. \A w \in DOMAIN plan' : Good(plan'[w], w)
    BY <1>3, <1>4 DEF IInv, PlansInv
  <2>3. \A w \in DOMAIN plan' : Good(plan[w], w)'
    BY <2>1, <2>2
  <2> QED
    BY <1>5, <2>3 DEF PlansInv
<1>7. PlaceInv'
  <2>1. pc \in {"arm", "arm_ring"} => plan'[opened] = plan[opened]
    BY <1>4, ArmsAtRow
  <2>2. pc \in Planned => opened <= Len(plan) /\ opened \in Nat
    BY SeqFacts DEF IInv, PlaceInv, opened
  <2>3. /\ Len(vmas)' <= Snapshots'
        /\ pc' \in {"maps", "ready"} \union Opened => Len(vmas)' < Snapshots'
        /\ pc' \in {"mark", "ok", "ready", "report"} \union Opened => Len(vmas)' >= 1
        /\ pc' \in Opened => opened' >= 1
    BY <1>1, SameMode DEF IInv, PlaceInv, opened
  <2>4. /\ pc' \in Planned => opened' <= Len(plan)'
        /\ pc' \in {"arm", "arm_ring"} => (plan[opened].sequence)' = snapshot_seq'
    <3>1. opened' = opened /\ pc' = pc /\ snapshot_seq' = snapshot_seq
      BY <1>1 DEF opened
    <3>2. pc \in Planned => opened <= Len(plan')
      BY <1>3, <1>4, <2>2
    <3>3. pc \in {"arm", "arm_ring"} => plan[opened].sequence = snapshot_seq
      BY DEF IInv, PlaceInv
    <3> QED
      BY <2>1, <3>1, <3>2, <3>3
  <2>5. /\ Len(plan)' <= Windows'
        /\ launcher' = "wait_ready" => Len(plan)' = turn' - 1
        /\ launcher' \notin {"validate", "check_maps", "publish"}
    BY <1>3, <1>4, <1>5
  <2> QED
    BY <2>3, <2>4, <2>5 DEF PlaceInv
<1>8. TypeOK'
  BY <1>1, <1>2, <1>3, <1>4, <1>5 DEF IInv, TypeOK
<1> QED
  BY <1>2, <1>6, <1>7, <1>8 DEF IInv

LEMMA MarkFound ==
  ASSUME IInv, NEW k \in 1..Snapshots, NEW m \in DOMAIN log, log[m] = Snap(k)
  PROVE  MarkOf(log, k) = m
<1>1. \A j \in DOMAIN log : log[j] = Snap(k) => j = m
  BY DEF IInv, SnapInv
<1> QED
  BY <1>1 DEF MarkOf

LEMMA BindingFacts ==
  ASSUME TypeOK, NEW k, NEW m \in Nat, MarkOf(log, k) = m
  PROVE  \A i : i \in Bindings(log, k) <=>
           i \in 1..m /\ BoundBy(log, i, log[i].page, m) /\ log[i].page \in vmas[k]
<1>1. \A i \in 1..m : BoundBy(log, i, log[i].page, m) <=>
        /\ log[i].kind = "mmap"
        /\ \A j \in i+1..m : log[j].kind \in {"munmap", "mmap_fixed"} => log[j].page # log[i].page
  BY DEF BoundBy, Undoes
<1> QED
  BY <1>1 DEF Bindings

\* The plan that is drawn from an accepted log.
LEMMA DraftGood ==
  ASSUME IInv, launcher = "validate", LogAccepted(log, turn),
         NEW i \in Bindings(log, Served[turn])
  PROVE  Good([sequence |-> ready[turn], page |-> log[i].page], turn)
<1> DEFINE k == Served[turn]
           m == Len(log)
           q == [sequence |-> ready[turn], page |-> log[i].page]
<1>1. /\ TypeOK /\ mode \in Modes /\ turn \in 1..Windows /\ m \in Nat /\ m >= 1
      /\ DOMAIN log = 1..m /\ m \in DOMAIN log /\ log[m] = Snap(k) /\ ready[turn] = m
      /\ turn > 1 => ProgressGate(log)
  BY SeqFacts, TypeFacts DEF IInv, SnapInv, LogAccepted
<1>2. k \in 1..Snapshots /\ (turn = 1 => k = 1) /\ (mode = "gpfifo-entry" /\ turn = 2 => k = 2)
  BY <1>1, ServedFacts
<1>3. MarkOf(log, k) = m
  BY <1>1, <1>2, MarkFound
<1>4. i \in 1..m /\ BoundBy(log, i, log[i].page, m) /\ log[i].page \in vmas[k]
  BY <1>1, <1>3, BindingFacts
<1>5. k \in DOMAIN vmas /\ vmas[k] \in SUBSET Pages
  <2>1. k <= Len(vmas)
    BY <1>1, <1>2 DEF IInv, SnapInv
  <2> QED
    BY <1>1, <1>2, <2>1, SeqFacts
<1>6. q \in Plan /\ q.sequence = m /\ q.page = log[i].page
  BY <1>1, <1>4, <1>5 DEF Plan
<1>7. Bound(log, q.page, q.sequence)
  BY <1>4, <1>6 DEF Bound
<1>8. turn = 1 => log[q.sequence] = Snap(1) /\ 1 \in DOMAIN vmas /\ q.page \in vmas[1]
  BY <1>1, <1>2, <1>4, <1>5, <1>6
<1>9. ASSUME turn = 2, mode = "gpfifo-entry"
      PROVE  1 \in DOMAIN plan /\ Bound(log, plan[1].page, q.sequence)
  <2>1. 1 \in DOMAIN plan /\ Good(plan[1], 1)
    <3>1. Len(plan) = 1
      BY <1>9 DEF IInv, PlaceInv
    <3> QED
      BY <1>1, <3>1, SeqFacts DEF IInv, PlansInv
  <2> DEFINE p == plan[1].page
             first == plan[1].sequence
  <2>2. /\ first \in DOMAIN log /\ first \in Nat /\ log[first] = Snap(1) /\ p \in vmas[1]
        /\ Bound(log, p, first)
    BY <1>1, <2>1 DEF Good
  <2>3. MarkOf(log, 1) = first
    BY <1>1, <1>2, <1>9, <2>2, ServedFacts, MarkFound
  <2>4. PICK b \in 1..first : BoundBy(log, b, p, first)
    BY <2>2 DEF Bound
  <2>5. log[b].page = p
    BY <2>4 DEF BoundBy
  <2>6. b \in Bindings(log, 1)
    BY <1>1, <2>2, <2>3, <2>4, <2>5, BindingFacts
  <2>7. Bindings(log, 1) = Bindings(log, 2)
    BY <1>1, <1>9 DEF ProgressGate
  <2>8. b \in 1..m /\ BoundBy(log, b, log[b].page, m)
    BY <1>1, <1>2, <1>3, <1>9, <2>6, <2>7, BindingFacts
  <2> QED
    BY <1>6, <2>1, <2>5, <2>8 DEF Bound
<1> QED
  BY <1>1, <1>6, <1>7, <1>8, <1>9 DEF Good

LEMMA ValidateKeeps == ASSUME IInv, Validate PROVE IInv'
<1>1. CASE Kill(125)
  BY <1>1, KillKeeps
<1>2. CASE /\ launcher = "validate" /\ LogAccepted(log, turn)
           /\ \E i \in Bindings(log, Served[turn]) :
                draft' = [sequence |-> ready[turn], page |-> log[i].page]
           /\ launcher' = "check_maps"
           /\ UNCHANGED <<plan, turn, exit_code, observer, probe>>
  <2>1. UNCHANGED <<mode, pc, vmas, snapshot_seq, ready, addresses, reported, run_status>>
    BY <1>2 DEF probe
  <2>2. /\ MutexInv' /\ AuditInv' /\ SnapInv' /\ AddressInv' /\ ArmedInv' /\ ObserverTypeOK'
        /\ UNCHANGED log /\ Grown
    BY <1>2, <2>1, LauncherSide
  <2>3. Good(draft', turn)
    BY <1>2, DraftGood
  <2>4. \A q, w : Good(q, w) => Good(q, w)'
    BY <1>2, <2>1, <2>2, SameMode DEF Good
  <2>5. PlansInv'
    <3>1. \A w \in DOMAIN plan' : Good(plan[w], w)'
      BY <1>2, <2>4 DEF IInv, PlansInv
    <3>2. Good(draft, turn)'
      <4>1. turn' = turn
        BY <1>2
      <4> QED
        BY <2>3, <2>4, <4>1
    <3> QED
      BY <3>1, <3>2 DEF PlansInv
  <2>6. PlaceInv'
    BY <1>2, <2>1, SameMode DEF IInv, PlaceInv, opened
  <2>7. draft' \in Plan
    BY <2>3 DEF Good
  <2>8. TypeOK'
    BY <1>2, <2>1, <2>2, <2>7, SameMode DEF IInv, TypeOK
  <2> QED
    BY <2>2, <2>5, <2>6, <2>8 DEF IInv
<1> QED
  BY <1>1, <1>2 DEF Validate

LEMMA LauncherKeeps == ASSUME IInv, LauncherStep PROVE IInv'
BY SeesReadyKeeps, ValidateKeeps, CheckMapsKeeps, PublishKeeps, WaitExitKeeps, KillKeeps
   DEF LauncherStep, GiveUpWaiting, GiveUpExit

--------------------------------------------------------------------------------
(* libcuda and time.                                                        *)

\* What they leave of the other two.
LEMMA Aside ==
  ASSUME IInv, Grown, UNCHANGED <<probe, boss>>
  PROVE  /\ PlansInv' /\ PlaceInv' /\ AddressInv'
         /\ ObserverTypeOK' => TypeOK'
         /\ UNCHANGED <<mode, pc, vmas, snapshot_seq, ready, addresses, plan>>
<1>1. /\ UNCHANGED <<mode, pc, vmas, snapshot_seq, ready, addresses, reported, run_status>>
      /\ UNCHANGED <<plan, launcher, turn, draft, exit_code>>
  BY DEF probe, boss
<1>2. PlansInv'
  BY <1>1, PlansKept DEF IInv
<1>3. AddressInv'
  BY <1>1, AddressKept
<1>4. PlaceInv'
  BY <1>1, SameMode DEF IInv, PlaceInv, opened, Ended
<1>5. ObserverTypeOK' => TypeOK'
  BY <1>1, SameMode DEF IInv, TypeOK
<1> QED
  BY <1>1, <1>2, <1>3, <1>4, <1>5

LEMMA HookEnterKeeps ==
  ASSUME IInv, NEW d \in Drivers, HookEnter(d), UNCHANGED <<probe, boss>>
  PROVE  IInv'
<1>1. /\ mutex = Nobody /\ mutex' = d /\ call[d] = Idle /\ calls < MaxCalls /\ calls' = calls + 1
      /\ UNCHANGED <<page, log, failed, reads_armed, rounds, late>>
      /\ UNCHANGED <<userd_addresses, ring_address, ring_addresses>>
  BY DEF HookEnter, window, targets
<1>2. PICK c \in SysCall : call' = [call EXCEPT ![d] = [stage |-> "entered", request |-> c]]
  BY DEF HookEnter
<1>3. Grown
  BY <1>1 DEF Grown
<1>4. /\ PlansInv' /\ PlaceInv' /\ AddressInv' /\ (ObserverTypeOK' => TypeOK')
      /\ UNCHANGED <<mode, pc, vmas, ready, plan>>
  BY <1>3, Aside
<1>5. AuditInv'
  BY AuditEnter DEF IInv
<1>6. MutexInv'
  <2>1. \A e \in Drivers : e # d => call'[e] = Idle
    BY <1>1, <1>2, TypeFacts, ObserverAssumption DEF IInv, MutexInv
  <2>2. pc \notin Loads
    BY <1>1, ObserverAssumption DEF IInv, MutexInv
  <2> QED
    BY <1>1, <1>4, <2>1, <2>2 DEF MutexInv
<1>7. SnapInv'
  BY <1>1, <1>4, SameMode DEF IInv, SnapInv
<1>8. ArmedInv'
  BY <1>1, <1>4 DEF IInv, ArmedInv, opened
<1>9. ObserverTypeOK'
  <2>1. call' \in [Drivers -> {Idle} \union [stage : {"entered", "made"}, request : SysCall]]
    BY <1>2, TypeFacts DEF IInv
  <2>2. calls' \in 0..MaxCalls
    BY <1>1, ObserverAssumption DEF IInv, TypeOK, ObserverTypeOK
  <2> QED
    BY <1>1, <2>1, <2>2 DEF IInv, TypeOK, ObserverTypeOK
<1> QED
  BY <1>4, <1>5, <1>6, <1>7, <1>8, <1>9 DEF IInv

LEMMA HookCallKeeps ==
  ASSUME IInv, NEW d \in Drivers, HookCall(d), UNCHANGED <<probe, boss>>
  PROVE  IInv'
<1>1. /\ UNCHANGED <<log, mutex, calls, failed, reads_armed, rounds, late>>
      /\ UNCHANGED <<userd_addresses, ring_address, ring_addresses>>
  BY DEF HookCall, window, targets
<1>2. /\ call[d] # Idle /\ call[d].request \in SysCall /\ page' = Effect(call[d].request)
      /\ call' \in [Drivers -> {Idle} \union [stage : {"entered", "made"}, request : SysCall]]
      /\ \A e \in Drivers : e # d => call'[e] = call[e]
  BY CallStep DEF IInv
<1>3. Grown
  BY <1>1 DEF Grown
<1>4. /\ PlansInv' /\ PlaceInv' /\ AddressInv' /\ (ObserverTypeOK' => TypeOK')
      /\ UNCHANGED <<mode, pc, vmas, ready, plan>>
  BY <1>3, Aside
<1>5. AuditInv'
  BY AuditCall DEF IInv
<1>6. MutexInv'
  BY <1>1, <1>2, <1>4 DEF IInv, MutexInv
<1>7. SnapInv'
  BY <1>1, <1>4, SameMode DEF IInv, SnapInv
<1>8. ArmedInv'
  BY <1>1, <1>4 DEF IInv, ArmedInv, opened
<1>9. ObserverTypeOK'
  BY <1>1, <1>2, EffectFacts DEF IInv, TypeOK, ObserverTypeOK
<1> QED
  BY <1>4, <1>5, <1>6, <1>7, <1>8, <1>9 DEF IInv

LEMMA HookEmitKeeps ==
  ASSUME IInv, NEW d \in Drivers, HookEmit(d), UNCHANGED <<probe, boss>>
  PROVE  IInv'
<1> DEFINE c == call[d].request
<1>1. /\ UNCHANGED <<page, calls, reads_armed, rounds, late>> /\ mutex' = Nobody
      /\ UNCHANGED <<userd_addresses, ring_address, ring_addresses>>
      /\ call[d] # Idle /\ call' = [call EXCEPT ![d] = Idle]
      /\ Emit(c) \/ (failed' = TRUE /\ UNCHANGED log)
  BY DEF HookEmit, window, targets
<1>2. c \in SysCall /\ c \in Row
  BY <1>1, CallFacts, RowFacts DEF IInv
<1> HIDE DEF c
<1>3. /\ failed' \in BOOLEAN /\ (failed => failed') /\ Grown
      /\ log' = log \/ log' = Append(log, c) \/ log' = Append(log, Torn)
      /\ ~failed' /\ reads_armed => Quiet(c)
  <2>1. CASE Emit(c)
    BY <1>2, <2>1, TypeFacts, EmitFacts DEF IInv
  <2>2. CASE failed' = TRUE /\ UNCHANGED log
    BY <2>2 DEF Grown
  <2> QED
    BY <1>1, <2>1, <2>2
<1>4. /\ PlansInv' /\ PlaceInv' /\ AddressInv' /\ (ObserverTypeOK' => TypeOK')
      /\ UNCHANGED <<mode, pc, vmas, ready, plan>>
  BY <1>3, Aside
<1>5. AuditInv'
  BY AuditEmit DEF IInv
<1>6. pc \notin Loads
  BY <1>1, ObserverAssumption DEF IInv, MutexInv
<1>7. MutexInv'
  <2>1. \A e \in Drivers : call[e] # Idle => e = d
    BY <1>1, Alone DEF IInv
  <2>2. \A e \in Drivers : call'[e] = Idle
    BY <1>1, <2>1, TypeFacts DEF IInv
  <2> QED
    BY <1>4, <1>6, <2>2 DEF MutexInv
<1>8. SnapInv'
  BY <1>2, <1>3, <1>4, SnapKept, NoSnap, SeqFacts DEF IInv
<1>9. ArmedInv'
  <2>1. ~Quiet(c)
    BY <1>2, SysCallFacts DEF Quiet, SampleKinds
  <2>2. pc \in Armed => reads_armed
    BY DEF IInv, ArmedInv
  <2>3. pc \in Armed => failed'
    BY <1>3, <2>1, <2>2
  <2>4. pc = "arm_ring" => pc \in Armed
    BY DEF Armed
  <2> QED
    BY <1>1, <1>4, <1>6, <2>2, <2>3, <2>4 DEF ArmedInv
<1>10. ObserverTypeOK'
  <2>1. call' \in [Drivers -> {Idle} \union [stage : {"entered", "made"}, request : SysCall]]
    BY <1>1, TypeFacts DEF IInv
  <2>2. log' \in Seq(Row)
    BY <1>3, TypeFacts, BoundKept DEF IInv
  <2> QED
    BY <1>1, <1>3, <2>1, <2>2 DEF IInv, TypeOK, ObserverTypeOK
<1> QED
  BY <1>4, <1>5, <1>7, <1>8, <1>9, <1>10 DEF IInv

LEMMA DeadlineKeeps == ASSUME IInv, ReadDeadline, UNCHANGED <<probe, boss>> PROVE IInv'
<1>1. /\ UNCHANGED <<page, log, mutex, call, calls, failed, reads_armed, rounds>> /\ late' = TRUE
      /\ UNCHANGED <<userd_addresses, ring_address, ring_addresses>>
  BY DEF ReadDeadline, targets
<1>2. Grown
  BY <1>1 DEF Grown
<1>3. /\ PlansInv' /\ PlaceInv' /\ AddressInv' /\ (ObserverTypeOK' => TypeOK')
      /\ UNCHANGED <<mode, pc, vmas, ready, plan>>
  BY <1>2, Aside
<1>4. AuditInv'
  BY <1>1, AuditSame DEF IInv
<1>5. MutexInv'
  BY <1>1, <1>3 DEF IInv, MutexInv
<1>6. SnapInv'
  BY <1>1, <1>3, SameMode DEF IInv, SnapInv
<1>7. ArmedInv'
  BY <1>1, <1>3 DEF IInv, ArmedInv, opened
<1>8. ObserverTypeOK'
  BY <1>1 DEF IInv, TypeOK, ObserverTypeOK
<1> QED
  BY <1>3, <1>4, <1>5, <1>6, <1>7, <1>8 DEF IInv

LEMMA StutterKeeps == ASSUME IInv, UNCHANGED vars PROVE IInv'
<1>1. UNCHANGED observer /\ UNCHANGED <<probe, boss>>
  BY DEF vars
<1>2. UNCHANGED <<mode, pc, vmas, snapshot_seq, ready, addresses, reported, run_status, plan>>
  BY <1>1 DEF probe, boss
<1>3. /\ MutexInv' /\ AuditInv' /\ SnapInv' /\ AddressInv' /\ ArmedInv' /\ ObserverTypeOK' /\ Grown
  BY <1>1, <1>2, LauncherSide
<1> QED
  BY <1>1, <1>3, Aside DEF IInv

--------------------------------------------------------------------------------
(* The probe's steps that leave the observer alone.                         *)

LEMMA ProbeSide ==
  ASSUME IInv, UNCHANGED <<observer, boss, mode>>, pc' \notin Armed,
         vmas' = vmas \/ \E v \in SUBSET Pages : vmas' = Append(vmas, v)
  PROVE  /\ MutexInv' /\ AuditInv' /\ PlansInv' /\ ArmedInv' /\ ObserverTypeOK'
         /\ Grown /\ UNCHANGED <<log, plan, launcher, turn, draft, exit_code>>
<1>1. /\ UNCHANGED <<page, log, mutex, call, calls, failed, reads_armed, rounds, late>>
      /\ UNCHANGED <<userd_addresses, ring_address, ring_addresses>>
      /\ UNCHANGED <<plan, launcher, turn, draft, exit_code>>
  BY DEF observer, window, targets, boss
<1>2. pc' \notin Loads /\ pc' # "arm_ring"
  BY DEF Armed
<1>3. MutexInv'
  BY <1>1, <1>2 DEF IInv, MutexInv
<1>4. AuditInv'
  BY <1>1, AuditSame DEF IInv
<1>5. Grown
  BY <1>1 DEF Grown
<1>6. PlansInv'
  BY <1>1, <1>5, PlansKept DEF IInv
<1>7. ArmedInv'
  BY <1>2 DEF ArmedInv
<1>8. ObserverTypeOK'
  BY <1>1 DEF IInv, TypeOK, ObserverTypeOK
<1> QED
  BY <1>1, <1>3, <1>4, <1>5, <1>6, <1>7, <1>8

LEMMA SaveMapsKeeps == ASSUME IInv, SaveMaps, UNCHANGED boss PROVE IInv'
<1>1. /\ pc = "maps" /\ pc' = "mark" /\ vmas' = Append(vmas, Mapped)
      /\ UNCHANGED <<observer, mode, snapshot_seq, ready, addresses, reported, run_status>>
  BY DEF SaveMaps
<1>2. Mapped \in SUBSET Pages /\ pc' \notin Armed
  BY <1>1 DEF Mapped, Armed, Loads
<1>3. /\ MutexInv' /\ AuditInv' /\ PlansInv' /\ ArmedInv' /\ ObserverTypeOK'
      /\ Grown /\ UNCHANGED <<log, plan, launcher, turn, draft, exit_code>>
  BY <1>1, <1>2, ProbeSide
<1>4. /\ Len(vmas') = Len(vmas) + 1 /\ vmas' \in Seq(SUBSET Pages) /\ Len(vmas) \in Nat
      /\ Snapshots \in Nat
  BY <1>1, <1>2, SeqFacts, ServedFacts DEF IInv
<1>5. AddressInv'
  BY <1>1, <1>3, AddressKept
<1>6. SnapInv'
  <2>1. \A k \in 1..Snapshots : k <= Len(vmas) => k < Len(vmas')
    BY <1>4
  <2>2. \A k \in 1..Snapshots : k < Len(vmas') => k <= Len(vmas')
    BY <1>4
  <2> QED
    BY <1>1, <1>3, <2>1, <2>2, SameMode DEF IInv, SnapInv
<1>7. PlaceInv'
  <2>1. Len(vmas) < Snapshots
    BY <1>1 DEF IInv, PlaceInv
  <2>2. pc' \notin {"maps", "ready"} \union Opened /\ pc' \notin Planned /\ ~Ended
    BY <1>1 DEF Opened, Planned, Armed, Loads, Ended
  <2> QED
    BY <1>1, <1>3, <1>4, <2>1, <2>2, SameMode DEF IInv, PlaceInv
<1>8. TypeOK'
  BY <1>1, <1>3, <1>4, SameMode DEF IInv, TypeOK
<1> QED
  BY <1>3, <1>5, <1>6, <1>7, <1>8 DEF IInv

\* The probe goes from a place in the snapshot to another.
LEMMA AskOkKeeps == ASSUME IInv, AskOk, UNCHANGED boss PROVE IInv'
<1>1. /\ pc = "ok" /\ pc' \in {"catch", "ready", "report", "maps"}
      /\ pc' = "ready" => current \in Range(Served)
      /\ pc' = "maps" => current # Snapshots
      /\ UNCHANGED <<observer, mode, vmas, snapshot_seq, ready, addresses, reported, run_status>>
  <2>1. Else(~failed, CASE current \in Range(Served) -> "ready"
                        [] current = Snapshots       -> "report"
                        [] OTHER                     -> "maps")
    BY DEF AskOk
  <2> QED
    BY <2>1 DEF AskOk, Else
<1>2. pc' \notin Armed /\ pc' \notin Opened /\ pc' \notin Planned /\ ~Ended /\ pc' # "mark" /\ pc' # "arm"
  BY <1>1 DEF Armed, Loads, Opened, Planned, Ended
<1>3. /\ MutexInv' /\ AuditInv' /\ PlansInv' /\ ArmedInv' /\ ObserverTypeOK'
      /\ Grown /\ UNCHANGED <<log, plan, launcher, turn, draft, exit_code>>
  BY <1>1, <1>2, ProbeSide
<1>4. AddressInv'
  BY <1>1, <1>2, <1>3, AddressKept
<1>5. SnapInv'
  BY <1>1, <1>2, <1>3, SameMode DEF IInv, SnapInv
<1>6. PlaceInv'
  <2>1. Len(vmas) >= 1 /\ Len(vmas) <= Snapshots /\ Len(vmas) \in Nat /\ Snapshots \in Nat
    BY <1>1, SeqFacts, ServedFacts DEF IInv, PlaceInv
  <2>2. CASE pc' = "ready"
    <3>1. current < Snapshots
      BY <1>1, <2>2, ServedRange, SeqFacts DEF IInv
    <3> QED
      BY <1>1, <1>2, <1>3, <2>1, <2>2, <3>1, SameMode DEF IInv, PlaceInv, current
  <2>3. CASE pc' = "maps"
    <3>1. Len(vmas) < Snapshots
      BY <1>1, <2>1, <2>3 DEF current
    <3> QED
      BY <1>1, <1>2, <1>3, <2>1, <2>3, <3>1, SameMode DEF IInv, PlaceInv
  <2>4. CASE pc' \notin {"maps", "ready"}
    BY <1>1, <1>2, <1>3, <2>1, <2>4, SameMode DEF IInv, PlaceInv
  <2> QED
    BY <2>2, <2>3, <2>4
<1>7. TypeOK'
  BY <1>1, <1>3, SameMode DEF IInv, TypeOK
<1> QED
  BY <1>3, <1>4, <1>5, <1>6, <1>7 DEF IInv

LEMMA SayReadyKeeps == ASSUME IInv, SayReady, UNCHANGED boss PROVE IInv'
<1>1. /\ pc = "ready" /\ pc' = "await" /\ ready' = Append(ready, snapshot_seq)
      /\ UNCHANGED <<observer, mode, vmas, snapshot_seq, addresses, reported, run_status>>
  BY DEF SayReady
<1>2. pc' \notin Armed /\ pc' \notin Planned /\ ~Ended /\ pc' # "mark" /\ pc' # "arm"
  BY <1>1 DEF Armed, Loads, Planned, Ended
<1>3. /\ MutexInv' /\ AuditInv' /\ PlansInv' /\ ArmedInv' /\ ObserverTypeOK'
      /\ Grown /\ UNCHANGED <<log, plan, launcher, turn, draft, exit_code>>
  BY <1>1, <1>2, ProbeSide
<1>4. ready' \in Seq(Nat) /\ Len(ready') >= 1
  <2>1. snapshot_seq \in Nat /\ ready \in Seq(Nat)
    BY DEF IInv, TypeOK
  <2> QED
    BY <1>1, <2>1
<1>5. AddressInv'
  BY <1>1, <1>2, <1>3, AddressKept
<1>6. SnapInv'
  BY <1>1, <1>2, <1>3, SameMode DEF IInv, SnapInv
<1>7. PlaceInv'
  <2>1. Len(vmas) >= 1 /\ Len(vmas) < Snapshots /\ Len(vmas) <= Snapshots
    BY <1>1 DEF IInv, PlaceInv
  <2> QED
    BY <1>1, <1>2, <1>3, <1>4, <2>1, SameMode DEF IInv, PlaceInv, opened
<1>8. TypeOK'
  BY <1>1, <1>3, <1>4, SameMode DEF IInv, TypeOK
<1> QED
  BY <1>3, <1>5, <1>6, <1>7, <1>8 DEF IInv

\* Steps to the handler, and the last one.
LEMMA LeaveKeeps ==
  ASSUME IInv, UNCHANGED boss, ~Ended,
         UNCHANGED <<observer, mode, vmas, snapshot_seq, ready, addresses, reported>>,
         \/ pc' \in {"catch", "catch_unwritable"} /\ UNCHANGED run_status
         \/ pc' = "captured" /\ run_status' = "captured"
  PROVE  IInv'
<1>1. /\ pc' \notin Armed /\ pc' \notin Opened /\ pc' \notin Planned
      /\ pc' \notin {"mark", "arm", "arm_ring", "maps", "ready", "ok", "report"}
      /\ run_status' \in {"initializing", "captured", "failed"}
  BY DEF Armed, Loads, Opened, Planned, IInv, TypeOK
<1>2. /\ MutexInv' /\ AuditInv' /\ PlansInv' /\ ArmedInv' /\ ObserverTypeOK'
      /\ Grown /\ UNCHANGED <<log, plan, launcher, turn, draft, exit_code>>
  BY <1>1, ProbeSide
<1>3. AddressInv'
  BY <1>1, <1>2, AddressKept
<1>4. SnapInv'
  BY <1>1, <1>2, SameMode DEF IInv, SnapInv
<1>5. PlaceInv'
  BY <1>1, <1>2, SameMode DEF IInv, PlaceInv
<1>6. TypeOK'
  BY <1>1, <1>2, SameMode DEF IInv, TypeOK
<1> QED
  BY <1>2, <1>3, <1>4, <1>5, <1>6 DEF IInv

LEMMA AwaitPlanKeeps == ASSUME IInv, AwaitPlan, UNCHANGED boss PROVE IInv'
<1>1. /\ pc = "await"
      /\ UNCHANGED <<observer, mode, vmas, snapshot_seq, ready, addresses, reported, run_status>>
      /\ (pc' = "check" /\ Len(plan) >= opened) \/ pc' = "catch"
  BY DEF AwaitPlan
<1>2. CASE pc' = "catch"
  BY <1>1, <1>2, LeaveKeeps DEF Ended
<1>3. CASE pc' = "check" /\ Len(plan) >= opened
  <2>1. pc' \notin Armed /\ ~Ended /\ pc \in Opened /\ pc' # "mark" /\ pc' # "arm"
    BY <1>1, <1>3 DEF Armed, Loads, Opened, Ended
  <2>2. /\ MutexInv' /\ AuditInv' /\ PlansInv' /\ ArmedInv' /\ ObserverTypeOK'
        /\ Grown /\ UNCHANGED <<log, plan, launcher, turn, draft, exit_code>>
    BY <1>1, <2>1, ProbeSide
  <2>3. AddressInv'
    BY <1>1, <2>1, <2>2, AddressKept
  <2>4. SnapInv'
    BY <1>1, <2>1, <2>2, SameMode DEF IInv, SnapInv
  <2>5. PlaceInv'
    <3>1. opened <= Len(plan) /\ opened >= 1
      BY <1>3, <2>1, SeqFacts DEF IInv, PlaceInv, opened
    <3> QED
      BY <1>1, <1>3, <2>1, <2>2, <3>1, SameMode DEF IInv, PlaceInv, opened
  <2>6. TypeOK'
    BY <1>1, <1>3, <2>2, SameMode DEF IInv, TypeOK
  <2> QED
    BY <2>2, <2>3, <2>4, <2>5, <2>6 DEF IInv
<1> QED
  BY <1>1, <1>2, <1>3

\* What is armed is bound at the sequence of the plan that was checked.
LEMMA CheckPlanKeeps == ASSUME IInv, CheckPlan, UNCHANGED boss PROVE IInv'
<1>1. /\ pc = "check"
      /\ UNCHANGED <<observer, mode, vmas, snapshot_seq, ready, reported, run_status>>
      /\ (pc' = "arm" /\ plan[opened].sequence = snapshot_seq) \/ pc' = "catch"
      /\ addresses' = IF opened = 1 \/ mode = "graph-entry" THEN {plan[opened].page} ELSE addresses
  BY DEF CheckPlan, Else
<1>2. /\ pc' \notin Armed /\ ~Ended /\ pc \in Opened /\ pc \in Planned
      /\ pc' \notin {"mark", "maps", "ready", "ok", "report", "arm_ring"}
      /\ opened' = opened
  BY <1>1 DEF Armed, Loads, Opened, Planned, Ended, opened
<1>3. /\ MutexInv' /\ AuditInv' /\ PlansInv' /\ ArmedInv' /\ ObserverTypeOK'
      /\ Grown /\ UNCHANGED <<log, plan, launcher, turn, draft, exit_code>>
  BY <1>1, <1>2, ProbeSide
<1>4. /\ opened \in DOMAIN plan /\ Good(plan[opened], opened) /\ plan[opened] \in Plan
      /\ opened \in 1..Windows
  <2>1. opened >= 1 /\ opened <= Len(plan) /\ Len(plan) <= Windows /\ Windows \in Nat
    BY <1>2, SeqFacts, ServedFacts DEF IInv, PlaceInv
  <2>2. opened \in Nat
    BY SeqFacts DEF IInv, opened
  <2> QED
    BY <2>1, <2>2, SeqFacts DEF IInv, PlansInv
<1>5. AddressInv'
  <2>1. ASSUME mode = "gpfifo-entry", NEW a \in addresses' PROVE 1 \in DOMAIN plan /\ a = plan[1].page
    BY <1>1, <1>4, <2>1 DEF IInv, AddressInv
  <2>2. ASSUME pc' = "arm", NEW a \in addresses' PROVE Bound(log, a, snapshot_seq)
    <3>1. /\ plan[opened].sequence = snapshot_seq
          /\ Bound(log, plan[opened].page, plan[opened].sequence)
      BY <1>1, <1>4, <2>2 DEF Good
    <3>2. CASE opened = 1 \/ mode = "graph-entry"
      BY <1>1, <2>2, <3>1, <3>2
    <3>3. CASE ~(opened = 1 \/ mode = "graph-entry")
      <4>1. mode = "gpfifo-entry" /\ opened = 2
        BY <1>4, <3>3, ModeFacts, ServedFacts, SeqFacts DEF IInv
      <4>2. a = plan[1].page
        BY <2>1, <2>2, <4>1
      <4>3. Bound(log, plan[1].page, plan[opened].sequence)
        BY <1>4, <4>1 DEF Good
      <4> QED
        BY <3>1, <4>2, <4>3
    <3> QED
      BY <3>2, <3>3
  <2> QED
    BY <1>1, <1>3, <2>1, <2>2 DEF AddressInv
<1>6. SnapInv'
  BY <1>1, <1>2, <1>3, SameMode DEF IInv, SnapInv
<1>7. PlaceInv'
  <2>1. pc' \in {"arm", "arm_ring"} => plan'[opened'].sequence = snapshot_seq'
    BY <1>1, <1>2, <1>3
  <2> QED
    BY <1>1, <1>2, <1>3, <2>1, SameMode DEF IInv, PlaceInv
<1>8. TypeOK'
  <2>1. addresses' \subseteq Pages
    BY <1>1, <1>4 DEF Plan, IInv, TypeOK
  <2> QED
    BY <1>1, <1>3, <2>1, SameMode DEF IInv, TypeOK
<1> QED
  BY <1>3, <1>5, <1>6, <1>7, <1>8 DEF IInv


--------------------------------------------------------------------------------
(* The probe's steps in the observer.                                       *)

LEMMA ThrowKeeps == ASSUME IInv, Throw, UNCHANGED boss PROVE IInv'
BY LeaveKeeps DEF Throw, Ended

LEMMA ReportKeeps == ASSUME IInv, Report, UNCHANGED boss PROVE IInv'
BY LeaveKeeps DEF Report, Ended

\* A row that is no call, written by the probe itself.
LEMMA Written ==
  ASSUME IInv, NEW row \in Row, Emit(row), Quiet(row), pc' \notin {"arm", "mark"},
         UNCHANGED <<page, call, mode, vmas, ready, addresses, boss>>
  PROVE  /\ AuditInv' /\ PlansInv' /\ AddressInv'
         /\ (\A k \in 1..Snapshots : row # Snap(k)) => SnapInv'
         /\ log' \in Seq(Row) /\ Len(log') \in Nat /\ failed' \in BOOLEAN
         /\ UNCHANGED <<plan, launcher, turn, draft, exit_code>>
<1>1. UNCHANGED <<plan, launcher, turn, draft, exit_code>>
  BY DEF boss
<1>2. /\ failed' \in BOOLEAN /\ Grown
      /\ log' = log \/ log' = Append(log, row) \/ log' = Append(log, Torn)
  BY TypeFacts, EmitFacts DEF IInv
<1>3. AuditInv'
  BY AuditQuiet DEF IInv
<1>4. PlansInv'
  BY <1>1, <1>2, PlansKept DEF IInv
<1>5. AddressInv'
  BY <1>1 DEF IInv, AddressInv
<1>6. (\A k \in 1..Snapshots : row # Snap(k)) => SnapInv'
  BY <1>2, SnapKept DEF IInv
<1>7. log' \in Seq(Row) /\ Len(log') \in Nat
  BY <1>2, TypeFacts, BoundKept DEF IInv
<1> QED
  BY <1>1, <1>2, <1>3, <1>4, <1>5, <1>6, <1>7

\* The mark of a snapshot is the first of its kind.
LEMMA MarkSnapshotKeeps == ASSUME IInv, MarkSnapshot, UNCHANGED boss PROVE IInv'
<1> DEFINE row == Mark(Snap(current).label, Snap(current).n)
<1>1. /\ pc = "mark" /\ pc' \in {"ok", "catch"} /\ Emit(row)
      /\ snapshot_seq' = (IF emitted THEN Len(log') ELSE 0)
      /\ UNCHANGED <<page, mutex, call, calls, reads_armed, rounds, late>>
      /\ UNCHANGED <<userd_addresses, ring_address, ring_addresses>>
      /\ UNCHANGED <<mode, vmas, ready, addresses, reported, run_status>>
  BY DEF MarkSnapshot, WriteMark, Else, window, targets
<1>2. current \in 1..Snapshots /\ current = Len(vmas) /\ Len(vmas) \in Nat /\ Snapshots \in Nat
  <2>1. Len(vmas) >= 1 /\ Len(vmas) <= Snapshots
    BY <1>1 DEF IInv, PlaceInv
  <2> QED
    BY <2>1, SeqFacts, ServedFacts DEF IInv, current
<1>3. row = Snap(current) /\ row \in Row /\ Quiet(row)
  <2>1. row = Snap(current) /\ Snap(current).label \in Labels /\ Snap(current).n \in Nat
    BY <1>2, SnapFacts, SeqFacts DEF IInv, SnapLabels, Labels
  <2> QED
    BY <2>1, RowFacts
<1> HIDE DEF row
<1>4. /\ AuditInv' /\ PlansInv' /\ AddressInv'
      /\ log' \in Seq(Row) /\ Len(log') \in Nat /\ failed' \in BOOLEAN
      /\ UNCHANGED <<plan, launcher, turn, draft, exit_code>>
  <2>1. pc' \notin {"arm", "mark"}
    BY <1>1
  <2> QED
    BY <1>1, <1>3, <2>1, Written
<1>5. pc' \notin Armed /\ pc' \notin Opened /\ pc' \notin Planned /\ pc' \notin Loads /\ ~Ended
      /\ pc' \notin {"maps", "ready", "mark", "arm", "arm_ring"}
  BY <1>1 DEF Armed, Opened, Planned, Loads, Ended
<1>6. SnapInv'
  <2>1. log' = log \/ log' = Append(log, Torn) \/ log' = Append(log, row)
    BY <1>1, <1>3, TypeFacts, EmitFacts DEF IInv
  <2>2. CASE log' = log \/ log' = Append(log, Torn)
    BY <1>1, <1>5, <2>2, SnapKept, NoSnap, RowFacts, SeqFacts DEF IInv
  <2>3. CASE log' = Append(log, row)
    <3> DEFINE n == Len(log)
    <3>1. /\ DOMAIN log' = DOMAIN log \union {n + 1} /\ log'[n + 1] = Snap(current)
          /\ Len(log') = n + 1 /\ n \in Nat /\ n + 1 \notin DOMAIN log
          /\ \A i \in DOMAIN log : log'[i] = log[i]
      BY <1>3, <2>3, TypeFacts, AppendFacts DEF IInv
    <3> HIDE DEF n
    <3>2. \A i \in DOMAIN log : log[i] # Snap(current)
      BY <1>1, <1>2 DEF IInv, SnapInv
    <3>3. ASSUME NEW k \in 1..Snapshots, NEW i \in DOMAIN log', log'[i] = Snap(k)
          PROVE  k <= Len(vmas) /\ \A j \in DOMAIN log' : log'[j] = Snap(k) => i = j
      <4>1. CASE i \in DOMAIN log
        <5>1. /\ log[i] = Snap(k) /\ k <= Len(vmas)
              /\ \A j \in DOMAIN log : log[j] = Snap(k) => i = j
          BY <3>1, <3>3, <4>1 DEF IInv, SnapInv
        <5>2. Snap(k) # Snap(current)
          BY <3>2, <4>1, <5>1
        <5> QED
          BY <3>1, <5>1, <5>2
      <4>2. CASE i = n + 1
        <5>1. k = current
          BY <1>2, <3>1, <3>3, <4>2, SnapDistinct, SeqFacts DEF IInv
        <5>2. \A j \in DOMAIN log' : log'[j] = Snap(k) => j = n + 1
          BY <3>1, <3>2, <5>1
        <5> QED
          BY <1>2, <4>2, <5>1, <5>2
      <4> QED
        BY <3>1, <3>3, <4>1, <4>2
    <3>4. Len(log') >= 1
      BY <3>1
    <3> QED
      BY <1>1, <1>5, <3>3, <3>4, SameMode DEF SnapInv
  <2> QED
    BY <2>1, <2>2, <2>3
<1>7. MutexInv'
  BY <1>1, <1>5 DEF IInv, MutexInv
<1>8. ArmedInv'
  BY <1>5 DEF ArmedInv, Armed
<1>9. PlaceInv'
  <2>1. Len(vmas) >= 1 /\ Len(vmas) <= Snapshots
    BY <1>1 DEF IInv, PlaceInv
  <2> QED
    BY <1>1, <1>4, <1>5, <2>1, SameMode DEF IInv, PlaceInv
<1>10. TypeOK'
  <2>1. ObserverTypeOK'
    BY <1>1, <1>4 DEF IInv, TypeOK, ObserverTypeOK
  <2>2. snapshot_seq' \in Nat
    BY <1>1, <1>4
  <2> QED
    BY <1>1, <1>4, <2>1, <2>2, SameMode DEF IInv, TypeOK
<1> QED
  BY <1>4, <1>6, <1>7, <1>8, <1>9, <1>10 DEF IInv

LEMMA CatchKeeps == ASSUME IInv, Catch, UNCHANGED boss PROVE IInv'
<1> DEFINE row == Mark("failed", 0)
<1>1. /\ pc \in {"catch", "catch_unwritable"} /\ pc' \in {"failed", "returned"} /\ Emit(row)
      /\ run_status' \in {run_status, "failed"}
      /\ UNCHANGED <<page, mutex, call, calls, reads_armed, rounds, late>>
      /\ UNCHANGED <<userd_addresses, ring_address, ring_addresses>>
      /\ UNCHANGED <<mode, vmas, snapshot_seq, ready, addresses, reported>>
  BY DEF Catch, WriteMark, window, targets
<1>2. row \in Row /\ Quiet(row)
  BY RowFacts DEF Labels
<1>3. \A k \in 1..Snapshots : row # Snap(k)
  BY NoSnap, SeqFacts DEF IInv, SnapLabels
<1> HIDE DEF row
<1>4. /\ AuditInv' /\ PlansInv' /\ AddressInv' /\ SnapInv'
      /\ log' \in Seq(Row) /\ Len(log') \in Nat /\ failed' \in BOOLEAN
      /\ UNCHANGED <<plan, launcher, turn, draft, exit_code>>
  <2>1. pc' \notin {"arm", "mark"}
    BY <1>1
  <2> QED
    BY <1>1, <1>2, <1>3, <2>1, Written
<1>5. pc' \notin Armed /\ pc' \notin Opened /\ pc' \notin Planned /\ pc' \notin Loads
      /\ ~Ended /\ Ended'
  BY <1>1 DEF Armed, Opened, Planned, Loads, Ended
<1>6. MutexInv'
  BY <1>1, <1>5 DEF IInv, MutexInv
<1>7. ArmedInv'
  BY <1>5 DEF ArmedInv, Armed
<1>8. PlaceInv'
  BY <1>1, <1>4, <1>5, SameMode DEF IInv, PlaceInv
<1>9. TypeOK'
  <2>1. ObserverTypeOK'
    BY <1>1, <1>4 DEF IInv, TypeOK, ObserverTypeOK
  <2> QED
    BY <1>1, <1>4, <2>1, SameMode DEF IInv, TypeOK
<1> QED
  BY <1>4, <1>6, <1>7, <1>8, <1>9 DEF IInv

\* The observer is armed at the mark that the plan was checked against.
LEMMA ArmKeeps == ASSUME IInv, Arm, UNCHANGED boss PROVE IInv'
<1>0. /\ pc = "arm" /\ ~Ended /\ UNCHANGED <<mode, vmas, snapshot_seq, ready, addresses, reported, run_status>>
  BY DEF Arm, Ended
<1>1. CASE RefuseReads(snapshot_seq, addresses) /\ pc' = "catch"
  BY <1>0, <1>1, LeaveKeeps DEF RefuseReads
<1>2. CASE ArmReads(snapshot_seq, addresses) /\ pc' = IF opened = 1 THEN "read" ELSE "arm_ring"
  <2>1. /\ Len(log) = snapshot_seq /\ reads_armed' /\ late' = FALSE /\ rounds' = 0
        /\ userd_addresses' = addresses /\ ring_address' = {} /\ ring_addresses' = {}
        /\ UNCHANGED <<page, log, mutex, call, calls, failed>> /\ pc' \in {"read", "arm_ring"}
    BY <1>2 DEF ArmReads, CanArm
  <2>2. UNCHANGED <<plan, launcher, turn, draft, exit_code>> /\ opened' = opened
    BY <1>0 DEF boss, opened
  <2>3. /\ pc \in Opened /\ pc \in Planned /\ pc' \notin Loads
        /\ ~Ended /\ pc' \notin {"mark", "arm"}
    BY <1>0, <2>1 DEF Opened, Planned, Armed, Loads, Ended
  <2>4. Grown
    BY <2>1 DEF Grown
  <2>5. AuditInv'
    BY <2>1, AuditSame DEF IInv
  <2>6. PlansInv'
    BY <1>0, <2>2, <2>4, PlansKept DEF IInv
  <2>7. AddressInv'
    BY <1>0, <2>2, <2>3, <2>4, AddressKept
  <2>8. SnapInv'
    BY <1>0, <2>1, <2>3, SameMode DEF IInv, SnapInv
  <2>9. MutexInv'
    BY <2>1, <2>3 DEF IInv, MutexInv
  <2>10. ArmedInv'
    <3>1. \A a \in addresses : Bound(log, a, Len(log))
      BY <1>0, <2>1 DEF IInv, AddressInv
    <3>2. Bound(log, plan[opened].page, Len(log))
      BY <1>0, <2>1, ArmsAtRow DEF Good
    <3> QED
      BY <2>1, <2>2, <2>3, <3>1, <3>2 DEF ArmedInv
  <2>11. PlaceInv'
    <3>1. /\ Len(vmas) < Snapshots /\ Len(vmas) >= 1 /\ Len(vmas) <= Snapshots
          /\ opened >= 1 /\ opened <= Len(plan) /\ plan[opened].sequence = snapshot_seq
      BY <1>0, <2>3 DEF IInv, PlaceInv
    <3> QED
      BY <1>0, <2>1, <2>2, <2>3, <3>1, SameMode DEF IInv, PlaceInv
  <2>12. TypeOK'
    <3>1. ObserverTypeOK'
      BY <2>1 DEF IInv, TypeOK, ObserverTypeOK
    <3> QED
      BY <1>0, <2>1, <2>2, <3>1, SameMode DEF IInv, TypeOK
  <2> QED
    BY <2>5, <2>6, <2>7, <2>8, <2>9, <2>10, <2>11, <2>12 DEF IInv
<1> QED
  BY <1>1, <1>2 DEF Arm

\* What a step leaves of the parts that are about the log's marks, the plans and the
\* places, when the probe stays in a window or leaves it for the handler.
LEMMA WindowSide ==
  ASSUME IInv, UNCHANGED <<boss, mode, vmas, snapshot_seq, ready, addresses, run_status, log>>,
         pc \in Opened, pc' \in {"read", "catch"} \union Loads, pc' \in Opened => pc \in Planned
  PROVE  /\ PlansInv' /\ AddressInv' /\ SnapInv' /\ PlaceInv'
         /\ UNCHANGED <<plan, launcher, turn, draft, exit_code>> /\ opened' = opened
         /\ ObserverTypeOK' /\ reported' \in Seq(Nat) => TypeOK'
<1>1. UNCHANGED <<plan, launcher, turn, draft, exit_code>> /\ opened' = opened
  BY DEF boss, opened
<1>2. /\ pc' \notin {"mark", "arm", "arm_ring", "maps", "ready", "ok", "report"} /\ ~Ended
      /\ pc' \in Planned => pc' \in Opened
  BY DEF Opened, Planned, Armed, Loads, Ended
<1>3. Grown
  BY DEF Grown
<1>4. PlansInv'
  BY <1>1, <1>3, PlansKept DEF IInv
<1>5. AddressInv'
  BY <1>1, <1>2, <1>3, AddressKept
<1>6. SnapInv'
  BY <1>2, SameMode DEF IInv, SnapInv
<1>7. PlaceInv'
  <2>1. /\ Len(vmas) < Snapshots /\ Len(vmas) >= 1 /\ Len(vmas) <= Snapshots /\ opened >= 1
        /\ pc \in Planned => opened <= Len(plan)
    BY DEF IInv, PlaceInv
  <2> QED
    BY <1>1, <1>2, <2>1, SameMode DEF IInv, PlaceInv
<1>8. ASSUME ObserverTypeOK', reported' \in Seq(Nat) PROVE TypeOK'
  BY <1>1, <1>8, SameMode DEF IInv, TypeOK, Loads
<1> QED
  BY <1>1, <1>4, <1>5, <1>6, <1>7, <1>8

LEMMA FinishArmingKeeps == ASSUME IInv, FinishArming, UNCHANGED boss PROVE IInv'
<1> DEFINE ring == {plan[opened].page}
<1>1. /\ pc = "arm_ring" /\ pc' \in {"read", "catch"}
      /\ ring_address' = ring_address \/ ring_address' = ring
      /\ ring_addresses' = ring_addresses \/ ring_addresses' = ring
      /\ UNCHANGED <<page, log, mutex, call, calls, failed, reads_armed, rounds, late, userd_addresses>>
      /\ UNCHANGED <<mode, vmas, snapshot_seq, ready, addresses, reported, run_status>>
  BY DEF FinishArming, ArmRing, Else
<1>2. /\ pc \in Opened /\ pc \in Planned /\ pc \in Armed /\ pc' \notin Loads /\ pc' # "arm_ring"
  BY <1>1 DEF Opened, Planned, Armed, Loads
<1>3. /\ PlansInv' /\ AddressInv' /\ SnapInv' /\ PlaceInv'
      /\ ObserverTypeOK' /\ reported' \in Seq(Nat) => TypeOK'
  BY <1>1, <1>2, WindowSide
<1>4. AuditInv'
  BY <1>1, AuditSame DEF IInv
<1>5. MutexInv'
  BY <1>1, <1>2 DEF IInv, MutexInv
<1>6. ArmedInv'
  <2>1. reads_armed /\ (~failed => Bound(log, plan[opened].page, Len(log)))
    BY <1>1, <1>2 DEF IInv, ArmedInv
  <2>2. ~failed => \A p \in userd_addresses' \union ring_address' \union ring_addresses' :
                     Bound(log, p, Len(log))
    BY <1>1, <1>2, <2>1 DEF IInv, ArmedInv
  <2> QED
    BY <1>1, <1>2, <2>1, <2>2 DEF ArmedInv
<1>7. ObserverTypeOK'
  <2>1. opened \in DOMAIN plan /\ plan[opened].page \in Pages
    BY <1>1, ArmsAtRow DEF Good, Plan
  <2> QED
    BY <1>1, <2>1 DEF IInv, TypeOK, ObserverTypeOK
<1>8. reported' \in Seq(Nat)
  BY <1>1 DEF IInv, TypeOK
<1> QED
  BY <1>3, <1>4, <1>5, <1>6, <1>7, <1>8 DEF IInv

LEMMA ReadKeeps == ASSUME IInv, Read, UNCHANGED boss PROVE IInv'
<1>1. /\ pc = "read" /\ mutex = Nobody
      /\ UNCHANGED <<mode, vmas, snapshot_seq, ready, addresses, reported, run_status>>
  BY DEF Read, SampleEnter, SampleRefused
<1>2. PICK what \in Asks(opened) : \/ SampleEnter(what) /\ pc' = what
                                   \/ SampleRefused(what) /\ pc' = "catch"
  BY DEF Read
<1>3. pc \in Opened /\ pc \in Planned /\ pc \in Armed /\ reported' \in Seq(Nat)
  BY <1>1 DEF Opened, Planned, Armed, Loads, IInv, TypeOK
<1>4. what \in Loads
  <2>1. opened >= 1 /\ opened <= Windows /\ opened \in Nat /\ Windows \in Nat
    BY <1>3, SeqFacts, ServedFacts DEF IInv, PlaceInv, opened
  <2>2. opened > 1 => mode \in {"gpfifo-entry", "graph-entry"}
    BY <2>1, SeqFacts, ModeFacts, ServedFacts DEF IInv
  <2> QED
    BY <1>2, <2>1, <2>2 DEF Asks, Loads
<1>5. CASE SampleEnter(what) /\ pc' = what
  <2>1. /\ ~failed /\ rounds' = rounds + 1 /\ mutex' = Prober
        /\ UNCHANGED <<page, log, call, calls, failed, reads_armed, late>>
        /\ UNCHANGED <<userd_addresses, ring_address, ring_addresses>>
    BY <1>5 DEF SampleEnter, MayRead, targets
  <2>2. /\ PlansInv' /\ AddressInv' /\ SnapInv' /\ PlaceInv'
        /\ ObserverTypeOK' /\ reported' \in Seq(Nat) => TypeOK'
    BY <1>1, <1>3, <1>4, <1>5, <2>1, WindowSide
  <2>3. AuditInv'
    BY <2>1, AuditSame DEF IInv
  <2>4. MutexInv'
    BY <1>1, <2>1, ObserverAssumption DEF IInv, MutexInv
  <2>5. rounds' \in Nat /\ rounds' >= 1
    BY <2>1, TypeFacts DEF IInv
  <2>6. ArmedInv'
    <3>1. pc' # "arm_ring"
      BY <1>4, <1>5 DEF Loads
    <3> QED
      BY <1>3, <2>1, <2>5, <3>1 DEF IInv, ArmedInv
  <2>7. ObserverTypeOK'
    BY <2>1, <2>5 DEF IInv, TypeOK, ObserverTypeOK
  <2> QED
    BY <1>3, <2>2, <2>3, <2>4, <2>6, <2>7 DEF IInv
<1>6. CASE SampleRefused(what) /\ pc' = "catch"
  <2>1. /\ failed' = TRUE
        /\ UNCHANGED <<page, log, mutex, call, calls, reads_armed, rounds, late>>
        /\ UNCHANGED <<userd_addresses, ring_address, ring_addresses>>
    BY <1>6 DEF SampleRefused, window, targets
  <2>2. pc' \notin Armed /\ pc' \notin Loads /\ pc' \notin Opened
    BY <1>6 DEF Armed, Loads, Opened, Planned
  <2>3. /\ PlansInv' /\ AddressInv' /\ SnapInv' /\ PlaceInv'
        /\ ObserverTypeOK' /\ reported' \in Seq(Nat) => TypeOK'
    BY <1>1, <1>3, <1>6, <2>1, <2>2, WindowSide
  <2>4. AuditInv'
    BY <2>1, AuditSame DEF IInv
  <2>5. MutexInv'
    BY <2>1, <2>2 DEF IInv, MutexInv
  <2>6. ArmedInv'
    BY <2>2 DEF ArmedInv, Armed
  <2>7. ObserverTypeOK'
    BY <2>1 DEF IInv, TypeOK, ObserverTypeOK
  <2> QED
    BY <1>3, <2>3, <2>4, <2>5, <2>6, <2>7 DEF IInv
<1> QED
  BY <1>2, <1>5, <1>6

\* A sample and the mark that ends a window are no call: what was bound stays so.
LEMMA LoadKeeps == ASSUME IInv, Load, UNCHANGED boss PROVE IInv'
<1>1. PICK kind \in SampleKinds :
        /\ pc \in Loads /\ pc' \in {"read", "catch"} /\ (pc' = "read" => ~failed')
        /\ Emit(Sample(kind, rounds - 1)) /\ mutex = Prober /\ mutex' = Nobody
        /\ UNCHANGED <<page, call, calls, reads_armed, rounds, late>>
        /\ UNCHANGED <<userd_addresses, ring_address, ring_addresses>>
        /\ UNCHANGED <<mode, vmas, snapshot_seq, ready, addresses, reported, run_status>>
  <2>1. /\ pc \in Loads /\ SampleEmit(pc) /\ Else(emitted, "read")
        /\ UNCHANGED <<mode, vmas, snapshot_seq, ready, addresses, reported, run_status>>
    BY DEF Load, Loads
  <2> DEFINE k == CASE pc = "ring"                          -> "ring_sample"
                    [] pc = "set"                           -> "ring_set_sample"
                    [] pc = "userd" /\ ring_address # {}   -> "ring_progress"
                    [] OTHER                                -> "userd_sample"
  <2>2. k \in SampleKinds
    <3>1. CASE pc = "ring"
      BY <3>1 DEF SampleKinds
    <3>2. CASE pc = "set"
      BY <3>2 DEF SampleKinds
    <3>3. CASE pc = "userd"
      BY <3>3 DEF SampleKinds
    <3> QED
      BY <2>1, <3>1, <3>2, <3>3 DEF Loads
  <2>3. /\ Emit(Sample(k, rounds - 1)) /\ mutex = Prober /\ mutex' = Nobody
        /\ UNCHANGED <<page, call, calls, reads_armed, rounds, late>>
        /\ UNCHANGED <<userd_addresses, ring_address, ring_addresses>>
    BY <2>1 DEF SampleEmit, window, targets
  <2> QED
    <3> HIDE DEF k
    <3> QED
      BY <2>1, <2>2, <2>3 DEF Else, emitted
<1> DEFINE row == Sample(kind, rounds - 1)
<1>2. rounds - 1 \in Nat /\ row \in Row /\ Quiet(row) /\ \A k \in 1..Snapshots : row # Snap(k)
  <2>1. rounds - 1 \in Nat
    BY <1>1, TypeFacts DEF IInv, ArmedInv
  <2> QED
    BY <1>1, <2>1, RowFacts, NoSnap, SeqFacts DEF IInv
<1>3. Emit(row)
  BY <1>1
<1> HIDE DEF row
<1>4. pc' \notin {"arm", "mark", "arm_ring", "maps", "ready", "ok", "report"}
      /\ pc \in Opened /\ pc \in Planned /\ pc \in Armed /\ pc' \notin Loads /\ ~Ended
  BY <1>1 DEF Opened, Planned, Armed, Loads, Ended
<1>5. /\ AuditInv' /\ PlansInv' /\ AddressInv' /\ SnapInv'
      /\ log' \in Seq(Row) /\ Len(log') \in Nat /\ failed' \in BOOLEAN
      /\ UNCHANGED <<plan, launcher, turn, draft, exit_code>>
  BY <1>1, <1>2, <1>3, <1>4, Written
<1>6. MutexInv'
  BY <1>1, <1>4, ObserverAssumption DEF IInv, MutexInv
<1>7. ArmedInv'
  <2>1. ASSUME ~failed' PROVE ~failed /\ \A p : Bound(log', p, Len(log')) <=> Bound(log, p, Len(log))
    BY <1>2, <1>3, <2>1, TypeFacts, EmitFacts, QuietKeeps DEF IInv
  <2> QED
    BY <1>1, <1>4, <2>1 DEF IInv, ArmedInv
<1>8. PlaceInv'
  <2>1. /\ Len(vmas) < Snapshots /\ Len(vmas) >= 1 /\ Len(vmas) <= Snapshots
        /\ opened >= 1 /\ opened <= Len(plan)
    BY <1>4 DEF IInv, PlaceInv
  <2> QED
    BY <1>1, <1>4, <1>5, <2>1, SameMode DEF IInv, PlaceInv, opened
<1>9. TypeOK'
  <2>1. ObserverTypeOK'
    BY <1>1, <1>5 DEF IInv, TypeOK, ObserverTypeOK
  <2> QED
    BY <1>1, <1>5, <2>1, SameMode DEF IInv, TypeOK
<1> QED
  BY <1>5, <1>6, <1>7, <1>8, <1>9 DEF IInv

LEMMA StopReadingKeeps == ASSUME IInv, StopReading, UNCHANGED boss PROVE IInv'
<1>0. /\ pc = "read" /\ ~Ended
      /\ UNCHANGED <<mode, vmas, snapshot_seq, ready, addresses, run_status>>
  BY DEF StopReading, Ended
<1>1. CASE RefuseFinish /\ pc' = "catch" /\ UNCHANGED reported
  BY <1>0, <1>1, LeaveKeeps DEF RefuseFinish
<1>2. CASE /\ FinishReads /\ Else(emitted, "maps")
           /\ reported' = IF emitted THEN Append(reported, rounds) ELSE reported
  <2>1. PICK label \in {"graph_reads_finished", "ring_reads_finished", "reads_finished"} :
          /\ Emit(Mark(label, 0)) /\ pc' \in {"maps", "catch"}
          /\ reads_armed' = FALSE
          /\ UNCHANGED <<page, mutex, call, calls, rounds, late>>
          /\ UNCHANGED <<userd_addresses, ring_address, ring_addresses>>
    BY <1>2 DEF FinishReads, targets, Else
  <2> DEFINE row == Mark(label, 0)
  <2>2. Emit(row) /\ row \in Row /\ Quiet(row) /\ \A k \in 1..Snapshots : row # Snap(k)
    <3>1. label \in Labels /\ label \notin SnapLabels
      BY DEF Labels, SnapLabels
    <3> QED
      BY <2>1, <3>1, RowFacts, NoSnap, SeqFacts DEF IInv
  <2> HIDE DEF row
  <2>3. /\ pc' \notin {"arm", "mark", "arm_ring", "ready", "ok", "report"} /\ pc \in Opened
        /\ pc' \notin Opened /\ pc' \notin Planned /\ pc' \notin Armed /\ pc' \notin Loads
    BY <1>0, <2>1 DEF Opened, Planned, Armed, Loads
  <2>4. /\ AuditInv' /\ PlansInv' /\ AddressInv' /\ SnapInv'
        /\ log' \in Seq(Row) /\ Len(log') \in Nat /\ failed' \in BOOLEAN
        /\ UNCHANGED <<plan, launcher, turn, draft, exit_code>>
    BY <1>0, <2>1, <2>2, <2>3, Written
  <2>5. MutexInv'
    BY <2>1, <2>3 DEF IInv, MutexInv
  <2>6. ArmedInv'
    BY <2>3 DEF ArmedInv, Armed
  <2>7. PlaceInv'
    <3>1. Len(vmas) < Snapshots /\ Len(vmas) <= Snapshots
      BY <2>3 DEF IInv, PlaceInv
    <3> QED
      BY <1>0, <2>1, <2>3, <2>4, <3>1, SameMode DEF IInv, PlaceInv
  <2>8. TypeOK'
    <3>1. ObserverTypeOK'
      BY <2>1, <2>4 DEF IInv, TypeOK, ObserverTypeOK
    <3>2. reported' \in Seq(Nat)
      BY <1>2, TypeFacts, SeqFacts DEF IInv
    <3> QED
      BY <1>0, <2>1, <2>4, <3>1, <3>2, SameMode DEF IInv, TypeOK
  <2> QED
    BY <2>4, <2>5, <2>6, <2>7, <2>8 DEF IInv
<1> QED
  BY <1>1, <1>2 DEF StopReading

--------------------------------------------------------------------------------
(* The specification.                                                       *)

LEMMA ProbeKeeps == ASSUME IInv, ProbeStep PROVE IInv'
<1>1. UNCHANGED boss
  BY DEF ProbeStep
<1>2. SaveMaps \/ MarkSnapshot \/ AskOk \/ SayReady \/ AwaitPlan \/ CheckPlan \/ Arm \/ FinishArming
      \/ Read \/ Load \/ StopReading \/ Throw \/ Report \/ Catch
  BY DEF ProbeStep
<1> QED
  BY <1>1, <1>2, SaveMapsKeeps, MarkSnapshotKeeps, AskOkKeeps, SayReadyKeeps, AwaitPlanKeeps,
     CheckPlanKeeps, ArmKeeps, FinishArmingKeeps, ReadKeeps, LoadKeeps, StopReadingKeeps,
     ThrowKeeps, ReportKeeps, CatchKeeps

LEMMA NextKeeps == ASSUME IInv, [Next]_vars PROVE IInv'
<1>1. CASE ProbeStep
  BY <1>1, ProbeKeeps
<1>2. CASE Driver
  BY <1>2, HookEnterKeeps, HookCallKeeps, HookEmitKeeps DEF Driver, Hook
<1>3. CASE Deadline
  BY <1>3, DeadlineKeeps DEF Deadline
<1>4. CASE LauncherStep
  BY <1>4, LauncherKeeps
<1>5. CASE Done \/ UNCHANGED vars
  BY <1>5, StutterKeeps DEF Done
<1> QED
  BY <1>1, <1>2, <1>3, <1>4, <1>5 DEF Next

LEMMA InitHolds == ASSUME LiveInit PROVE IInv
<1> DEFINE first == CHOOSE p \in Pages : TRUE
           row == [kind |-> "mmap", page |-> first]
<1>1. /\ page = [p \in Pages |-> IF p = first THEN "userd" ELSE "none"] /\ log = <<row>>
      /\ mutex = Nobody /\ call = [d \in Drivers |-> Idle] /\ calls = 0 /\ failed = FALSE
      /\ reads_armed = FALSE /\ rounds = 0 /\ late = FALSE
      /\ userd_addresses = {} /\ ring_address = {} /\ ring_addresses = {}
      /\ mode \in Modes /\ pc = "maps" /\ vmas = <<>> /\ snapshot_seq = 0 /\ ready = <<>>
      /\ addresses = {} /\ reported = <<>> /\ run_status = "initializing"
      /\ plan = <<>> /\ draft = NoPlan /\ launcher = "wait_ready" /\ turn = 1 /\ exit_code = NoCode
  BY DEF LiveInit, Init
<1>2. first \in Pages
  BY ObserverAssumption
<1>3. row \in SysCall /\ row \in Row /\ row.kind = "mmap" /\ row.page = first
  BY <1>2 DEF SysCall, Row
<1> HIDE DEF first, row
<1>4. /\ pc \notin Loads /\ pc \notin Armed /\ pc \notin Opened /\ pc \notin Planned
      /\ \A d \in Drivers : ~Made(d) /\ call[d] = Idle
  BY <1>1 DEF Loads, Armed, Opened, Planned, Made
<1>5. TypeOK
  <2>1. ObserverTypeOK
    <3>1. page \in [Pages -> {"userd", "other", "none"}]
      BY <1>1
    <3>2. log \in Seq(Row)
      BY <1>1, <1>3
    <3>3. call \in [Drivers -> {Idle} \union [stage : {"entered", "made"}, request : SysCall]]
      BY <1>1
    <3>4. calls \in 0..MaxCalls
      BY <1>1, ObserverAssumption
    <3> QED
      BY <1>1, <3>1, <3>2, <3>3, <3>4 DEF ObserverTypeOK
  <2>2. 1 \in 1..Windows /\ exit_code \in {0, 2, 124, 125, NoCode}
    BY <1>1, ServedFacts
  <2> QED
    BY <1>1, <2>1, <2>2 DEF TypeOK
<1>6. MutexInv
  BY <1>4 DEF MutexInv
<1>7. AuditInv
  <2>1. ASSUME NEW p \in Pages, Bound(log, p, Len(log)) PROVE p = first
    BY <1>1, <1>3, <2>1 DEF Bound, BoundBy
  <2> QED
    BY <1>1, <1>2, <1>4, <2>1 DEF AuditInv
<1>8. PlaceInv
  BY <1>1, <1>4, ServedFacts DEF PlaceInv
<1>9. SnapInv
  <2>1. \A k \in 1..Snapshots : row # Snap(k)
    BY <1>1, <1>3, NoSnap
  <2> QED
    BY <1>1, <2>1 DEF SnapInv
<1>10. PlansInv /\ AddressInv /\ ArmedInv
  BY <1>1, <1>4 DEF PlansInv, AddressInv, ArmedInv, Armed
<1> QED
  BY <1>5, <1>6, <1>7, <1>8, <1>9, <1>10 DEF IInv

\* The log is a true record of the address space while the observer has not failed,
\* and an armed probe has only addresses that it shows as bound.
THEOREM Inductive == Spec => []IInv
<1>1. LiveInit => IInv
  BY InitHolds
<1>2. IInv /\ [Next]_vars => IInv'
  BY NextKeeps
<1> QED
  BY <1>1, <1>2, PTL DEF Spec

\* Every variable keeps its type.
THEOREM TypeCorrect == Spec => []TypeOK
<1>1. IInv => TypeOK
  BY DEF IInv
<1> QED
  BY <1>1, Inductive, PTL

\* Whenever the probe dereferences an address, USERD is mapped there.
THEOREM Audited == Spec => []LoadsAreAudited
<1>1. ASSUME IInv, pc \in Loads PROVE \A p \in Targets(pc) : page[p] = "userd"
  <2>1. ~failed /\ mutex = Prober /\ pc \in Armed
    BY <1>1 DEF IInv, ArmedInv, MutexInv, Armed
  <2>2. Targets(pc) \subseteq userd_addresses \union ring_address \union ring_addresses
    BY DEF Targets
  <2>3. \A p \in Targets(pc) : p \in Pages /\ Bound(log, p, Len(log))
    <3>1. \A p \in userd_addresses \union ring_address \union ring_addresses : Bound(log, p, Len(log))
      BY <1>1, <2>1 DEF IInv, ArmedInv
    <3>2. userd_addresses \union ring_address \union ring_addresses \subseteq Pages
      BY <1>1 DEF IInv, TypeOK, ObserverTypeOK
    <3> QED
      BY <2>2, <3>1, <3>2
  <2>4. \A d \in Drivers : ~Made(d)
    BY <1>1, <2>1, ObserverAssumption DEF IInv, MutexInv, Made
  <2> QED
    BY <1>1, <2>1, <2>3, <2>4 DEF IInv, AuditInv
<1>2. IInv => LoadsAreAudited
  BY <1>1 DEF LoadsAreAudited, Loads
<1> QED
  BY <1>2, Inductive, PTL

--------------------------------------------------------------------------------
(* What is reported of the log.                                             *)

\* The first k windows are those whose snapshots are among the first n.
Counted(n, k) ==
  k \in 0..Windows /\ \A w \in 1..Windows : Served[w] <= n <=> w <= k

\* How many snapshots, windows and reports there are.
WindowInv ==
  /\ pc \in {"maps", "report"} => Counted(Len(vmas), opened) /\ Len(reported) = opened
  /\ pc \in {"mark", "ok", "ready"} => Counted(Len(vmas) - 1, opened) /\ Len(reported) = opened
  /\ pc = "ready" => opened < Windows /\ Served[opened + 1] = Len(vmas)
  /\ pc \in Opened => /\ Counted(Len(vmas), opened) /\ Len(reported) = opened - 1
                      /\ Served[opened] = Len(vmas)
  /\ pc \in {"report", "captured"} => Len(vmas) = Snapshots /\ Len(reported) = Windows

\* The mark of the last snapshot, and after it the samples of its window.
SampleInv ==
  /\ pc \in {"ok", "ready", "report", "captured"} \union Opened =>
       snapshot_seq \in DOMAIN log /\ log[snapshot_seq] = Snap(Len(vmas))
  /\ pc \in Armed /\ ~failed =>
       /\ Len(log) = snapshot_seq + IF pc \in Loads THEN rounds - 1 ELSE rounds
       /\ \A m \in snapshot_seq+1..Len(log) : log[m].kind \in SampleKinds

\* What the window reads, by which its samples and its end are named.
KindInv ==
  /\ pc \in Armed /\ (opened = 1 \/ pc = "arm_ring") => ring_address = {} /\ ring_addresses = {}
  /\ pc = "arm_ring" => opened > 1
  /\ pc \in Armed \ {"arm_ring"} /\ opened > 1 /\ ~failed =>
       IF mode = "graph-entry" THEN ring_addresses # {} /\ ring_address = {}
                               ELSE ring_addresses = {} /\ ring_address # {}
  /\ pc \in Loads => pc \in Asks(opened)

\* A row is lost only with the observer.
TornInv ==
  /\ ~failed => \A i \in DOMAIN log : log[i] # Torn
  /\ pc \in {"ok", "report", "captured"} => \A i \in 1..snapshot_seq : log[i] # Torn

ExitInv ==
  /\ exit_code = 0 => pc = "captured"
  /\ pc = "captured" => run_status = "captured"

ReportInv ==
  /\ WindowInv /\ SampleInv /\ KindInv /\ TornInv /\ ExitInv
  /\ SamplesFollowTheirSnapshot /\ ReportedRoundsAreLogged

--------------------------------------------------------------------------------
(* What a step leaves of the report.                                        *)

LEMMA ServedGrows ==
  ASSUME mode \in Modes
  PROVE  \A v, w \in 1..Windows : v < w => Served[v] < Served[w]
<1>1. CASE mode = "userd-progress"
  BY <1>1, ServedFacts
<1>2. CASE mode = "gpfifo-entry"
  <2>1. Windows = 2 /\ Served[1] = 1 /\ Served[2] = 2
    BY <1>2, ServedFacts
  <2> QED
    BY <2>1
<1>3. CASE mode = "graph-entry"
  <2>1. \A w \in DOMAIN Served : Served[w] = 2 * w - 1
    BY <1>3, ModeFacts
  <2>2. DOMAIN Served = 1..Windows /\ Windows \in Nat
    BY ServedFacts
  <2> QED
    BY <2>1, <2>2
<1> QED
  BY <1>1, <1>2, <1>3, ModeFacts

LEMMA CountedKept ==
  ASSUME UNCHANGED mode
  PROVE  \A n, k : Counted(n, k)' <=> Counted(n, k)
BY SameMode DEF Counted

\* The next window's snapshot comes next, and a snapshot without one changes nothing.
LEMMA CountedNext ==
  ASSUME mode \in Modes, NEW n \in Nat, NEW k, Counted(n - 1, k)
  PROVE  /\ n \in Range(Served) => k < Windows /\ Served[k + 1] = n
         /\ n \notin Range(Served) => Counted(n, k)
         /\ n = Snapshots => k = Windows
         /\ k < Windows /\ Served[k + 1] = n => Counted(n, k + 1)
<1>0. /\ Windows \in Nat /\ Windows >= 1 /\ DOMAIN Served = 1..Windows /\ Snapshots \in Nat
      /\ \A w \in 1..Windows : Served[w] \in Nat /\ Served[w] < Snapshots
      /\ \A v, w \in 1..Windows : v < w => Served[v] < Served[w]
  BY ServedFacts, ServedGrows
<1>1. k \in 0..Windows /\ \A w \in 1..Windows : Served[w] <= n - 1 <=> w <= k
  BY DEF Counted
<1>2. ASSUME n \in Range(Served) PROVE k < Windows /\ Served[k + 1] = n
  <2>1. PICK w \in 1..Windows : Served[w] = n
    BY <1>0, <1>2 DEF Range
  <2>2. ~(w <= k)
    BY <1>0, <1>1, <2>1
  <2>3. k + 1 \in 1..Windows /\ k < Windows /\ w \in Nat /\ k \in Nat
    BY <1>0, <1>1, <2>2
  <2>4. Served[k + 1] >= n
    BY <1>0, <1>1, <2>3
  <2>5. ~(k + 1 < w)
    BY <1>0, <2>1, <2>3, <2>4
  <2>6. w = k + 1
    BY <2>2, <2>3, <2>5
  <2> QED
    BY <2>1, <2>3, <2>6
<1>3. ASSUME n \notin Range(Served) PROVE Counted(n, k)
  <2>1. \A w \in 1..Windows : Served[w] # n
    BY <1>0, <1>3 DEF Range
  <2> QED
    BY <1>0, <1>1, <2>1 DEF Counted
<1>4. ASSUME n = Snapshots PROVE k = Windows
  <2>1. Windows \in 1..Windows /\ Served[Windows] <= n - 1
    BY <1>0, <1>4
  <2> QED
    BY <1>0, <1>1, <2>1
<1>5. ASSUME k < Windows, Served[k + 1] = n PROVE Counted(n, k + 1)
  <2>1. k + 1 \in 0..Windows /\ k + 1 \in 1..Windows /\ k \in Nat
    BY <1>0, <1>1, <1>5
  <2>2. ASSUME NEW w \in 1..Windows PROVE Served[w] <= n <=> w <= k + 1
    <3>1. w < k + 1 \/ w = k + 1 \/ k + 1 < w
      BY <1>0, <2>1
    <3> QED
      BY <1>0, <1>5, <2>1, <3>1
  <2> QED
    BY <2>1, <2>2 DEF Counted
<1> QED
  BY <1>2, <1>3, <1>4, <1>5

LEMMA FollowKept ==
  ASSUME TypeOK, SamplesFollowTheirSnapshot, UNCHANGED mode,
         NEW r \in Row, r.kind \notin SampleKinds, log' = log \/ log' = Append(log, r)
  PROVE  SamplesFollowTheirSnapshot'
<1>0. Served' = Served /\ \A k : Snap(k)' = Snap(k)
  BY SameMode
<1>1. CASE log' = log
  BY <1>0, <1>1 DEF SamplesFollowTheirSnapshot
<1>2. CASE log' = Append(log, r)
  <2>1. /\ Len(log) \in Nat /\ DOMAIN log = 1..Len(log) /\ DOMAIN log' = 1..(Len(log) + 1)
        /\ log'[Len(log) + 1] = r /\ \A i \in DOMAIN log : log'[i] = log[i]
    BY <1>2, TypeFacts, AppendFacts
  <2>2. ASSUME NEW j \in DOMAIN log', log'[j].kind \in SampleKinds
        PROVE  \E w \in DOMAIN Served : \E i \in 1..j-1 :
                 /\ (w = 1) = (log'[j].kind = "userd_sample")
                 /\ log'[i] = Snap(Served[w])
                 /\ log'[j].round = j - i - 1
                 /\ \A m \in i+1..j-1 : log'[m].kind \in SampleKinds
    <3>1. j \in DOMAIN log /\ log'[j] = log[j]
      BY <2>1, <2>2
    <3>2. PICK w \in DOMAIN Served, i \in 1..j-1 :
            /\ (w = 1) = (log[j].kind = "userd_sample")
            /\ log[i] = Snap(Served[w])
            /\ log[j].round = j - i - 1
            /\ \A m \in i+1..j-1 : log[m].kind \in SampleKinds
      BY <2>2, <3>1 DEF SamplesFollowTheirSnapshot
    <3>3. log'[i] = log[i] /\ \A m \in i+1..j-1 : log'[m] = log[m]
      BY <2>1, <3>1
    <3> QED
      BY <3>1, <3>2, <3>3
  <2> QED
    BY <1>0, <2>2 DEF SamplesFollowTheirSnapshot
<1> QED
  BY <1>1, <1>2

LEMMA ReportedKept ==
  ASSUME TypeOK, ReportedRoundsAreLogged, UNCHANGED <<mode, reported>>, Grown
  PROVE  ReportedRoundsAreLogged'
<1>0. (\A k : Snap(k)' = Snap(k)) /\ Served' = Served /\ \A k : Finish(k)' = Finish(k)
  BY SameMode DEF Finish, Mark
<1>1. /\ Len(log) \in Nat /\ DOMAIN log = 1..Len(log) /\ DOMAIN log \subseteq DOMAIN log'
      /\ \A i \in DOMAIN log : log'[i] = log[i]
  BY TypeFacts, BoundKept
<1>2. ASSUME NEW k \in DOMAIN reported
      PROVE  \E f \in DOMAIN log' : /\ log'[f] = Finish(k)
                                    /\ f > reported[k] + 1
                                    /\ log'[f - reported[k] - 1] = Snap(Served[k])
  <2>1. PICK f \in DOMAIN log : /\ log[f] = Finish(k)
                                /\ f > reported[k] + 1
                                /\ log[f - reported[k] - 1] = Snap(Served[k])
    BY <1>2 DEF ReportedRoundsAreLogged
  <2>2. reported[k] \in Nat
    BY <1>2, SeqFacts
  <2>3. f - reported[k] - 1 \in DOMAIN log
    BY <1>1, <2>1, <2>2
  <2> QED
    BY <1>1, <2>1, <2>3
<1> QED
  BY <1>0, <1>2 DEF ReportedRoundsAreLogged

\* The log grows by a row that is no sample, or not at all.
LEMMA LogSide ==
  ASSUME IInv, ReportInv, UNCHANGED <<mode, reported>>, NEW row \in Row,
         row.kind \notin SampleKinds, row # Torn,
         Emit(row) \/ (UNCHANGED log /\ (failed => failed'))
  PROVE  /\ SamplesFollowTheirSnapshot' /\ ReportedRoundsAreLogged' /\ Grown
         /\ ~failed' => ~failed /\ \A i \in DOMAIN log' : log'[i] # Torn
<1>1. /\ Grown /\ (failed => failed') /\ log \in Seq(Row) /\ Torn \in Row
      /\ log' = log \/ log' = Append(log, row) \/ log' = Append(log, Torn)
      /\ ~failed' => log' = log \/ log' = Append(log, row)
  BY TypeFacts, EmitFacts, RowFacts DEF IInv, Grown
<1>2. Torn.kind \notin SampleKinds
  BY DEF Torn, SampleKinds
<1>3. SamplesFollowTheirSnapshot'
  <2>1. CASE log' = log \/ log' = Append(log, row)
    BY <2>1, FollowKept DEF IInv, ReportInv
  <2>2. CASE log' = Append(log, Torn)
    BY <1>1, <1>2, <2>2, FollowKept DEF IInv, ReportInv
  <2> QED
    BY <1>1, <2>1, <2>2
<1>4. ReportedRoundsAreLogged'
  BY <1>1, ReportedKept DEF IInv, ReportInv
<1>5. ASSUME ~failed' PROVE ~failed /\ \A i \in DOMAIN log' : log'[i] # Torn
  <2>1. ~failed /\ \A i \in DOMAIN log : log[i] # Torn
    BY <1>1, <1>5 DEF ReportInv, TornInv
  <2>2. CASE log' = log
    BY <2>1, <2>2
  <2>3. CASE log' = Append(log, row)
    <3>1. /\ DOMAIN log = 1..Len(log) /\ DOMAIN log' = 1..(Len(log) + 1) /\ Len(log) \in Nat
          /\ log'[Len(log) + 1] = row /\ \A i \in DOMAIN log : log'[i] = log[i]
      BY <1>1, <2>3, AppendFacts
    <3> QED
      BY <2>1, <3>1
  <2> QED
    BY <1>1, <1>5, <2>1, <2>2, <2>3
<1> QED
  BY <1>1, <1>3, <1>4, <1>5

LEMMA LogSame ==
  ASSUME IInv, ReportInv, UNCHANGED <<mode, reported, log>>, failed => failed'
  PROVE  /\ SamplesFollowTheirSnapshot' /\ ReportedRoundsAreLogged' /\ Grown
         /\ ~failed' => ~failed /\ \A i \in DOMAIN log' : log'[i] # Torn
<1> DEFINE row == Mark("failed", 0)
<1>1. row.kind \notin SampleKinds /\ row # Torn
  BY DEF Mark, SampleKinds, Torn
<1>2. row \in Row
  BY RowFacts DEF Labels
<1> HIDE DEF row
<1> QED
  BY <1>1, <1>2, LogSide

\* The mark of the last snapshot stays, and what is before it.
LEMMA MarkKept ==
  ASSUME IInv, Grown, UNCHANGED <<mode, vmas, snapshot_seq>>,
         snapshot_seq \in DOMAIN log, log[snapshot_seq] = Snap(Len(vmas))
  PROVE  /\ snapshot_seq' \in DOMAIN log' /\ log'[snapshot_seq'] = Snap(Len(vmas))'
         /\ \A i \in 1..snapshot_seq : log'[i] = log[i]
<1>1. /\ DOMAIN log = 1..Len(log) /\ Len(log) \in Nat /\ DOMAIN log \subseteq DOMAIN log'
      /\ \A i \in DOMAIN log : log'[i] = log[i]
  BY TypeFacts, BoundKept DEF IInv
<1>2. \A k : Snap(k)' = Snap(k)
  BY SameMode
<1>3. \A i \in 1..snapshot_seq : i \in DOMAIN log
  BY <1>1
<1> QED
  BY <1>1, <1>2, <1>3

Gone == {"catch", "catch_unwritable", "failed", "returned", "killed"}

\* The probe is about to fail, fails, or is killed.
LEMMA GoneReports ==
  ASSUME ReportInv, pc' \in Gone, exit_code' # 0 \/ (UNCHANGED exit_code /\ pc # "captured"),
         SamplesFollowTheirSnapshot', ReportedRoundsAreLogged',
         ~failed' => \A i \in DOMAIN log' : log'[i] # Torn
  PROVE  ReportInv'
<1>1. /\ pc' \notin {"maps", "mark", "ok", "ready", "report", "captured", "arm_ring"}
      /\ pc' \notin Opened /\ pc' \notin Armed /\ pc' \notin Loads
  BY DEF Gone, Opened, Planned, Armed, Loads
<1>2. WindowInv'
  BY <1>1 DEF WindowInv
<1>3. SampleInv'
  BY <1>1 DEF SampleInv
<1>4. KindInv'
  BY <1>1 DEF KindInv
<1>5. TornInv'
  BY <1>1 DEF TornInv
<1>6. ExitInv'
  BY <1>1 DEF ReportInv, ExitInv
<1> QED
  BY <1>2, <1>3, <1>4, <1>5, <1>6 DEF ReportInv

\* The probe stands still: a row of libcuda's fails an armed observer, and only the
\* launcher's last look at the probe leaves the exit code 0.
LEMMA StillReports ==
  ASSUME IInv, ReportInv, UNCHANGED <<mode, pc, vmas, snapshot_seq, ready, reported, run_status>>,
         UNCHANGED <<rounds, ring_address, ring_addresses>>,
         exit_code' = 0 => exit_code = 0 \/ pc = "captured",
         SamplesFollowTheirSnapshot', ReportedRoundsAreLogged', Grown,
         ~failed' => ~failed /\ \A i \in DOMAIN log' : log'[i] # Torn,
         ~failed' /\ pc \in Armed => UNCHANGED log
  PROVE  ReportInv'
<1>1. opened' = opened /\ (\A n, k : Counted(n, k)' <=> Counted(n, k))
  BY CountedKept DEF opened
<1>2. Served' = Served /\ Windows' = Windows /\ Snapshots' = Snapshots /\ \A k : Asks(k)' = Asks(k)
  BY SameMode
<1>3. WindowInv'
  BY <1>1, <1>2 DEF ReportInv, WindowInv
<1>4. SampleInv'
  <2>1. ASSUME pc \in {"ok", "ready", "report", "captured"} \union Opened
        PROVE  snapshot_seq' \in DOMAIN log' /\ log'[snapshot_seq'] = Snap(Len(vmas))'
    BY <2>1, MarkKept DEF ReportInv, SampleInv
  <2>2. ASSUME pc \in Armed, ~failed'
        PROVE  /\ Len(log') = snapshot_seq + IF pc \in Loads THEN rounds - 1 ELSE rounds
               /\ \A m \in snapshot_seq+1..Len(log') : log'[m].kind \in SampleKinds
    BY <2>2 DEF ReportInv, SampleInv
  <2> QED
    BY <2>1, <2>2 DEF SampleInv
<1>5. KindInv'
  <2>1. ~failed' => ~failed
    OBVIOUS
  <2> QED
    BY <1>1, <1>2, <2>1 DEF ReportInv, KindInv
<1>6. TornInv'
  <2>1. ASSUME pc \in {"ok", "report", "captured"} PROVE \A i \in 1..snapshot_seq : log'[i] # Torn
    <3>1. \A i \in 1..snapshot_seq : log[i] # Torn
      BY <2>1 DEF ReportInv, TornInv
    <3>2. \A i \in 1..snapshot_seq : log'[i] = log[i]
      BY <2>1, MarkKept DEF ReportInv, SampleInv
    <3> QED
      BY <3>1, <3>2
  <2> QED
    BY <2>1 DEF TornInv
<1>7. ExitInv'
  BY DEF ReportInv, ExitInv
<1> QED
  BY <1>3, <1>4, <1>5, <1>6, <1>7 DEF ReportInv

--------------------------------------------------------------------------------
(* The report, when others move.                                            *)

LEMMA LauncherReports == ASSUME IInv, ReportInv, LauncherStep PROVE ReportInv'
<1>1. UNCHANGED observer
  BY DEF LauncherStep, SeesReady, GiveUpWaiting, Validate, CheckMaps, Publish, WaitExit, GiveUpExit, Kill
<1>2. UNCHANGED <<log, failed, rounds, ring_address, ring_addresses>>
  BY <1>1 DEF observer, window, targets
<1>3. CASE UNCHANGED probe /\ (exit_code' = exit_code \/ (exit_code' = 0 => pc = "captured"))
  <2>1. UNCHANGED <<mode, pc, vmas, snapshot_seq, ready, reported, run_status>>
    BY <1>3 DEF probe
  <2>2. /\ SamplesFollowTheirSnapshot' /\ ReportedRoundsAreLogged' /\ Grown
        /\ ~failed' => ~failed /\ \A i \in DOMAIN log' : log'[i] # Torn
    BY <1>2, <2>1, LogSame
  <2>3. exit_code' = 0 => exit_code = 0 \/ pc = "captured"
    BY <1>3
  <2> QED
    BY <1>2, <2>1, <2>2, <2>3, StillReports
<1>4. ASSUME NEW code \in {124, 125}, Kill(code) PROVE ReportInv'
  <2>1. /\ pc' = (IF Ended THEN pc ELSE "killed") /\ exit_code' = code
        /\ UNCHANGED <<mode, vmas, snapshot_seq, ready, reported, run_status>>
    BY <1>4 DEF Kill
  <2>2. /\ SamplesFollowTheirSnapshot' /\ ReportedRoundsAreLogged' /\ Grown
        /\ ~failed' => ~failed /\ \A i \in DOMAIN log' : log'[i] # Torn
    BY <1>2, <2>1, LogSame
  <2>3. CASE Ended
    BY <1>2, <2>1, <2>2, <2>3, StillReports
  <2>4. CASE ~Ended
    BY <2>1, <2>2, <2>4, GoneReports DEF Gone
  <2> QED
    BY <2>3, <2>4
<1>5. \/ UNCHANGED probe /\ (exit_code' = exit_code \/ (exit_code' = 0 => pc = "captured"))
      \/ \E code \in {124, 125} : Kill(code)
  BY DEF LauncherStep, SeesReady, GiveUpWaiting, Validate, CheckMaps, Publish, WaitExit, GiveUpExit
<1> QED
  BY <1>3, <1>4, <1>5

LEMMA DriverReports == ASSUME IInv, ReportInv, NEW d \in Drivers, Hook(d), UNCHANGED <<probe, boss>> PROVE ReportInv'
<1>1. UNCHANGED <<mode, pc, vmas, snapshot_seq, ready, reported, run_status, exit_code>>
  BY DEF probe, boss
<1>2. UNCHANGED <<rounds, reads_armed, ring_address, ring_addresses>>
  BY DEF Hook, HookEnter, HookCall, HookEmit, window, targets
<1>3. CASE UNCHANGED <<log, failed>>
  BY <1>1, <1>2, <1>3, LogSame, StillReports
<1>4. CASE HookEmit(d)
  <2> DEFINE row == call[d].request
  <2>1. /\ row \in SysCall /\ row \in Row
        /\ Emit(row) \/ (failed' = TRUE /\ UNCHANGED log)
    BY <1>4, CallFacts, RowFacts DEF HookEmit, IInv
  <2> HIDE DEF row
  <2>2. row.kind \notin SampleKinds /\ row.kind # "mark" /\ row # Torn
    BY <2>1, SysCallFacts DEF SampleKinds, Torn
  <2>3. ~failed' /\ pc \in Armed => FALSE
    <3>1. pc \in Armed => reads_armed
      BY DEF IInv, ArmedInv
    <3> QED
      BY <2>1, <2>2, <3>1 DEF Emit
  <2> QED
    BY <1>1, <1>2, <2>1, <2>2, <2>3, LogSide, StillReports
<1> QED
  BY <1>3, <1>4 DEF Hook, HookEnter, HookCall

--------------------------------------------------------------------------------
(* The report, when the probe moves.                                        *)

\* The probe goes from a place outside the reads to another.
LEMMA MoveReports ==
  ASSUME IInv, ReportInv, UNCHANGED <<observer, boss, mode, reported, run_status>>,
         pc' \notin Armed, pc # "captured", pc' # "captured",
         WindowInv',
         pc' \in {"ok", "ready", "report"} \union Opened =>
           /\ pc \in {"ok", "ready"} \union Opened
           /\ UNCHANGED <<vmas, snapshot_seq>>,
         pc' \in {"ok", "report"} => pc = "ok"
  PROVE  ReportInv'
<1>1. UNCHANGED <<log, failed, rounds, ring_address, ring_addresses, exit_code>>
  BY DEF observer, window, targets, boss
<1>2. /\ SamplesFollowTheirSnapshot' /\ ReportedRoundsAreLogged' /\ Grown
      /\ ~failed' => ~failed /\ \A i \in DOMAIN log' : log'[i] # Torn
  BY <1>1, LogSame
<1>3. pc' \notin Loads /\ pc' # "arm_ring"
  BY DEF Armed
<1>4. SampleInv'
  <2>1. ASSUME pc' \in {"ok", "ready", "report"} \union Opened
        PROVE  snapshot_seq' \in DOMAIN log' /\ log'[snapshot_seq'] = Snap(Len(vmas))'
    BY <1>2, <2>1, MarkKept DEF ReportInv, SampleInv
  <2> QED
    BY <2>1 DEF SampleInv
<1>5. KindInv'
  BY <1>3 DEF KindInv
<1>6. TornInv'
  <2>1. pc' \in {"ok", "report"} => \A i \in 1..snapshot_seq' : log'[i] # Torn
    BY <1>1 DEF ReportInv, TornInv
  <2> QED
    BY <1>2, <2>1 DEF TornInv
<1>7. ExitInv'
  BY <1>1 DEF ReportInv, ExitInv
<1> QED
  BY <1>2, <1>4, <1>5, <1>6, <1>7 DEF ReportInv

LEMMA SaveMapsReports == ASSUME IInv, ReportInv, SaveMaps, UNCHANGED boss PROVE ReportInv'
<1>1. /\ pc = "maps" /\ pc' = "mark" /\ vmas' = Append(vmas, Mapped)
      /\ UNCHANGED <<observer, mode, ready, reported, run_status>>
  BY DEF SaveMaps
<1>2. Len(vmas') = Len(vmas) + 1 /\ Len(vmas) \in Nat /\ opened' = opened
  <2>1. Mapped \in SUBSET Pages
    BY DEF Mapped
  <2> QED
    BY <1>1, <2>1, SeqFacts DEF IInv, opened
<1>3. pc' \notin Armed /\ pc' \notin Opened
  BY <1>1 DEF Armed, Opened, Planned, Loads
<1>4. WindowInv'
  <2>1. Counted(Len(vmas), opened) /\ Len(reported) = opened
    BY <1>1 DEF ReportInv, WindowInv
  <2>2. Counted(Len(vmas) - 1, opened)'
    <3>1. Len(vmas') - 1 = Len(vmas)
      BY <1>2
    <3> QED
      BY <1>1, <1>2, <2>1, <3>1, SameMode DEF Counted
  <2> QED
    BY <1>1, <1>2, <1>3, <2>1, <2>2 DEF WindowInv
<1> QED
  BY <1>1, <1>3, <1>4, MoveReports

LEMMA AskOkReports == ASSUME IInv, ReportInv, AskOk, UNCHANGED boss PROVE ReportInv'
<1>1. /\ pc = "ok" /\ pc' \in {"catch", "ready", "report", "maps"}
      /\ pc' = "ready" => current \in Range(Served)
      /\ pc' = "report" => current \notin Range(Served) /\ current = Snapshots
      /\ pc' = "maps" => current \notin Range(Served)
      /\ UNCHANGED <<observer, mode, vmas, snapshot_seq, ready, addresses, reported, run_status>>
  <2>1. /\ pc = "ok" /\ Else(~failed, CASE current \in Range(Served) -> "ready"
                                       [] current = Snapshots       -> "report"
                                       [] OTHER                     -> "maps")
        /\ UNCHANGED <<observer, mode, vmas, snapshot_seq, ready, addresses, reported, run_status>>
    BY DEF AskOk
  <2>2. CASE failed
    BY <2>1, <2>2 DEF Else
  <2>3. CASE ~failed /\ current \in Range(Served)
    <3>1. current < Snapshots /\ Snapshots \in Nat
      BY <2>3, ServedRange, SeqFacts, ServedFacts DEF IInv
    <3>2. current # Snapshots
      BY <3>1
    <3> QED
      BY <2>1, <2>3, <3>2 DEF Else
  <2>4. CASE ~failed /\ current \notin Range(Served)
    BY <2>1, <2>4, ServedFacts DEF Else
  <2> QED
    BY <2>1, <2>2, <2>3, <2>4
<1>2. /\ Counted(Len(vmas) - 1, opened) /\ Len(reported) = opened
      /\ Len(vmas) \in Nat /\ current = Len(vmas) /\ mode \in Modes
  BY <1>1, SeqFacts DEF ReportInv, WindowInv, IInv, current
<1>3. opened' = opened /\ (\A n, k : Counted(n, k)' <=> Counted(n, k))
      /\ Served' = Served /\ Windows' = Windows /\ Snapshots' = Snapshots
  BY <1>1, CountedKept, SameMode DEF opened
<1>4. pc' \notin Armed /\ pc' \notin Opened
  BY <1>1 DEF Armed, Opened, Planned, Loads
<1>5. WindowInv'
  <2>1. CASE pc' = "catch"
    BY <1>4, <2>1 DEF WindowInv
  <2>2. CASE pc' = "ready"
    <3>1. opened < Windows /\ Served[opened + 1] = Len(vmas)
      BY <1>1, <1>2, <2>2, CountedNext
    <3> QED
      BY <1>1, <1>2, <1>3, <1>4, <2>2, <3>1 DEF WindowInv
  <2>3. CASE pc' = "report"
    <3>1. Counted(Len(vmas), opened) /\ opened = Windows /\ Len(vmas) = Snapshots
      BY <1>1, <1>2, <2>3, CountedNext
    <3> QED
      BY <1>1, <1>2, <1>3, <1>4, <2>3, <3>1 DEF WindowInv
  <2>4. CASE pc' = "maps"
    <3>1. Counted(Len(vmas), opened)
      BY <1>1, <1>2, <2>4, CountedNext
    <3> QED
      BY <1>1, <1>2, <1>3, <1>4, <2>4, <3>1 DEF WindowInv
  <2> QED
    BY <1>1, <2>1, <2>2, <2>3, <2>4
<1> QED
  BY <1>1, <1>4, <1>5, MoveReports

LEMMA SayReadyReports == ASSUME IInv, ReportInv, SayReady, UNCHANGED boss PROVE ReportInv'
<1>1. /\ pc = "ready" /\ pc' = "await" /\ ready' = Append(ready, snapshot_seq)
      /\ UNCHANGED <<observer, mode, vmas, snapshot_seq, addresses, reported, run_status>>
  BY DEF SayReady
<1>2. /\ Counted(Len(vmas) - 1, opened) /\ Len(reported) = opened
      /\ opened < Windows /\ Served[opened + 1] = Len(vmas)
      /\ Len(vmas) \in Nat /\ mode \in Modes
  BY <1>1, SeqFacts DEF ReportInv, WindowInv, IInv
<1>3. opened' = opened + 1 /\ opened \in Nat
  <2>1. snapshot_seq \in Nat
    BY DEF IInv, TypeOK
  <2> QED
    BY <1>1, <2>1, SeqFacts DEF IInv, opened
<1>4. Counted(Len(vmas), opened + 1)
  BY <1>2, CountedNext
<1>5. pc' \notin Armed /\ pc' \in Opened
  BY <1>1 DEF Armed, Opened, Planned, Loads
<1>6. WindowInv'
  <2>1. Counted(Len(vmas), opened)'
    BY <1>1, <1>3, <1>4, SameMode DEF Counted
  <2>2. Len(reported') = opened' - 1 /\ Served'[opened'] = Len(vmas')
    BY <1>1, <1>2, <1>3, SameMode
  <2> QED
    BY <1>1, <1>5, <2>1, <2>2 DEF WindowInv
<1> QED
  BY <1>1, <1>5, <1>6, MoveReports

\* The steps that stay in a window, or fail.
LEMMA PlanReports ==
  ASSUME IInv, ReportInv, AwaitPlan \/ CheckPlan, UNCHANGED boss
  PROVE  ReportInv'
<1>1. /\ pc \in {"await", "check"} /\ pc' \in {"check", "arm", "catch"}
      /\ UNCHANGED <<observer, mode, vmas, snapshot_seq, ready, reported, run_status>>
  BY DEF AwaitPlan, CheckPlan, Else
<1>2. /\ pc \in Opened /\ pc' \notin Armed
      /\ pc' \notin {"maps", "mark", "ok", "ready", "report", "captured"}
  BY <1>1 DEF Armed, Opened, Planned, Loads
<1>3. WindowInv'
  BY <1>1, <1>2, SameMode, CountedKept DEF ReportInv, WindowInv, opened
<1> QED
  BY <1>1, <1>2, <1>3, MoveReports

LEMMA ThrowReports == ASSUME IInv, ReportInv, Throw, UNCHANGED boss PROVE ReportInv'
<1>1. /\ pc # "captured" /\ pc' \in Gone
      /\ UNCHANGED <<observer, mode, vmas, snapshot_seq, ready, reported, run_status>>
  BY DEF Throw, Gone
<1>2. UNCHANGED <<log, failed, exit_code>>
  BY <1>1 DEF observer, boss
<1> QED
  BY <1>1, <1>2, LogSame, GoneReports

LEMMA ReportReports == ASSUME IInv, ReportInv, Report, UNCHANGED boss PROVE ReportInv'
<1>1. /\ pc = "report" /\ pc' = "captured" /\ run_status' = "captured"
      /\ UNCHANGED <<observer, mode, vmas, snapshot_seq, ready, reported>>
  BY DEF Report
<1>2. UNCHANGED <<log, failed, exit_code>>
  BY <1>1 DEF observer, boss
<1>3. /\ SamplesFollowTheirSnapshot' /\ ReportedRoundsAreLogged' /\ Grown
      /\ ~failed' => ~failed /\ \A i \in DOMAIN log' : log'[i] # Torn
  BY <1>1, <1>2, LogSame
<1>4. pc' \notin Armed /\ pc' \notin Opened /\ pc' \notin Loads
  BY <1>1 DEF Armed, Opened, Planned, Loads
<1>5. WindowInv'
  <2>1. Len(vmas) = Snapshots /\ Len(reported) = Windows
    BY <1>1 DEF ReportInv, WindowInv
  <2> QED
    BY <1>1, <1>4, <2>1, SameMode DEF WindowInv
<1>6. SampleInv'
  <2>1. snapshot_seq' \in DOMAIN log' /\ log'[snapshot_seq'] = Snap(Len(vmas))'
    BY <1>1, <1>3, MarkKept DEF ReportInv, SampleInv
  <2> QED
    BY <1>4, <2>1 DEF SampleInv
<1>7. KindInv'
  BY <1>1, <1>4 DEF KindInv
<1>8. TornInv'
  BY <1>1, <1>2, <1>3 DEF ReportInv, TornInv
<1>9. ExitInv'
  BY <1>1, <1>2 DEF ReportInv, ExitInv
<1> QED
  BY <1>3, <1>5, <1>6, <1>7, <1>8, <1>9 DEF ReportInv

LEMMA MarkSnapshotReports == ASSUME IInv, ReportInv, MarkSnapshot, UNCHANGED boss PROVE ReportInv'
<1> DEFINE row == Mark(Snap(current).label, Snap(current).n)
<1>1. /\ pc = "mark" /\ Emit(row) /\ pc' = (IF ~failed' THEN "ok" ELSE "catch")
      /\ snapshot_seq' = (IF ~failed' THEN Len(log') ELSE 0)
      /\ UNCHANGED <<mode, vmas, ready, reported, run_status>>
  BY DEF MarkSnapshot, WriteMark, Else, emitted
<1>2. current \in 1..Snapshots /\ current = Len(vmas)
  <2>1. Len(vmas) >= 1 /\ Len(vmas) <= Snapshots
    BY <1>1 DEF IInv, PlaceInv
  <2> QED
    BY <2>1, SeqFacts, ServedFacts DEF IInv, current
<1>3. row = Snap(current) /\ row \in Row /\ row.kind = "mark"
  <2>1. row = Snap(current) /\ Snap(current).label \in Labels /\ Snap(current).n \in Nat
    BY <1>2, SnapFacts, SeqFacts DEF IInv, SnapLabels, Labels
  <2>2. row.kind = "mark"
    BY DEF Mark
  <2> QED
    BY <2>1, <2>2, RowFacts
<1> HIDE DEF row
<1>4. row.kind \notin SampleKinds /\ row # Torn
  BY <1>3 DEF SampleKinds, Torn
<1>5. /\ SamplesFollowTheirSnapshot' /\ ReportedRoundsAreLogged'
      /\ ~failed' => ~failed /\ \A i \in DOMAIN log' : log'[i] # Torn
  BY <1>1, <1>3, <1>4, LogSide
<1>6. UNCHANGED exit_code
  BY DEF boss
<1>7. CASE failed'
  BY <1>1, <1>5, <1>6, <1>7, GoneReports DEF Gone
<1>8. CASE ~failed'
  <2>0. pc' = "ok" /\ pc' \notin Armed /\ pc' \notin Opened /\ pc' \notin Loads
    BY <1>1, <1>8 DEF Armed, Opened, Planned, Loads
  <2>1. log' = Append(log, row) /\ log \in Seq(Row)
    BY <1>1, <1>3, <1>8, TypeFacts, EmitFacts DEF IInv
  <2>2. snapshot_seq' \in DOMAIN log' /\ log'[snapshot_seq'] = Snap(current) /\ DOMAIN log' = 1..snapshot_seq'
    <3>1. snapshot_seq' = Len(log) + 1
      BY <1>1, <1>3, <1>8, <2>1, AppendFacts
    <3> QED
      BY <1>3, <2>1, <3>1, AppendFacts
  <2>3. WindowInv'
    <3>1. Counted(Len(vmas) - 1, opened) /\ Len(reported) = opened
      BY <1>1 DEF ReportInv, WindowInv
    <3> QED
      BY <1>1, <2>0, <3>1, CountedKept DEF WindowInv, opened
  <2>4. SampleInv'
    <3>1. log'[snapshot_seq'] = Snap(Len(vmas))'
      BY <1>1, <1>2, <2>2, SameMode
    <3> QED
      BY <2>0, <2>2, <3>1 DEF SampleInv
  <2>5. KindInv'
    BY <2>0 DEF KindInv, Armed
  <2>6. TornInv'
    BY <1>5, <1>8, <2>2 DEF TornInv
  <2>7. ExitInv'
    BY <1>1, <1>6, <2>0 DEF ReportInv, ExitInv
  <2> QED
    BY <1>5, <2>3, <2>4, <2>5, <2>6, <2>7 DEF ReportInv
<1> QED
  BY <1>7, <1>8

LEMMA CatchReports == ASSUME IInv, ReportInv, Catch, UNCHANGED boss PROVE ReportInv'
<1> DEFINE row == Mark("failed", 0)
<1>1. /\ pc # "captured" /\ pc' \in Gone /\ Emit(row) /\ UNCHANGED <<mode, reported, exit_code>>
  BY DEF Catch, WriteMark, boss, Gone
<1>2. row \in Row /\ row.kind \notin SampleKinds /\ row # Torn
  <2>1. row \in Row
    BY RowFacts DEF Labels
  <2>2. row.kind \notin SampleKinds /\ row # Torn
    BY DEF Mark, SampleKinds, Torn
  <2> QED
    BY <2>1, <2>2
<1> HIDE DEF row
<1>3. /\ SamplesFollowTheirSnapshot' /\ ReportedRoundsAreLogged'
      /\ ~failed' => ~failed /\ \A i \in DOMAIN log' : log'[i] # Torn
  BY <1>1, <1>2, LogSide
<1> QED
  BY <1>1, <1>3, GoneReports

LEMMA ArmReports == ASSUME IInv, ReportInv, Arm, UNCHANGED boss PROVE ReportInv'
<1>0. /\ pc = "arm" /\ UNCHANGED <<mode, vmas, snapshot_seq, ready, reported, run_status, exit_code>>
  BY DEF Arm, boss
<1>1. CASE RefuseReads(snapshot_seq, addresses) /\ pc' = "catch"
  <2>1. UNCHANGED <<log, failed>> /\ pc' \in Gone
    BY <1>1 DEF RefuseReads, observer, Gone
  <2> QED
    BY <1>0, <2>1, LogSame, GoneReports
<1>2. CASE ArmReads(snapshot_seq, addresses) /\ pc' = IF opened = 1 THEN "read" ELSE "arm_ring"
  <2>1. /\ Len(log) = snapshot_seq /\ rounds' = 0 /\ ring_address' = {} /\ ring_addresses' = {}
        /\ UNCHANGED <<log, failed>>
    BY <1>2 DEF ArmReads, CanArm
  <2>2. /\ SamplesFollowTheirSnapshot' /\ ReportedRoundsAreLogged' /\ Grown
        /\ ~failed' => ~failed /\ \A i \in DOMAIN log' : log'[i] # Torn
    BY <1>0, <2>1, LogSame
  <2>3. /\ pc \in Opened /\ pc' \in Opened /\ pc' \in Armed /\ pc' \notin Loads
        /\ pc' \notin {"maps", "mark", "ok", "ready", "report", "captured"}
    BY <1>0, <1>2 DEF Armed, Opened, Planned, Loads
  <2>4. opened' = opened /\ opened \in Nat /\ opened >= 1
    BY <1>0, <2>3, SeqFacts DEF IInv, PlaceInv, opened
  <2>5. WindowInv'
    BY <1>0, <2>3, <2>4, SameMode, CountedKept DEF ReportInv, WindowInv
  <2>6. SampleInv'
    <3>1. snapshot_seq' \in DOMAIN log' /\ log'[snapshot_seq'] = Snap(Len(vmas))'
      BY <1>0, <2>2, <2>3, MarkKept DEF ReportInv, SampleInv
    <3>2. Len(log') = snapshot_seq' + rounds' /\ \A m \in snapshot_seq'+1..Len(log') : FALSE
      BY <1>0, <2>1, TypeFacts DEF IInv
    <3> QED
      BY <2>3, <3>1, <3>2 DEF SampleInv
  <2>7. KindInv'
    <3>1. pc' = "read" => opened = 1
      BY <1>2
    <3>2. pc' = "arm_ring" => opened > 1
      BY <1>2, <2>4
    <3>3. pc' = "read" \/ pc' = "arm_ring"
      BY <1>2
    <3> QED
      BY <2>1, <2>3, <2>4, <3>1, <3>2, <3>3 DEF KindInv
  <2>8. TornInv' /\ ExitInv'
    BY <1>0, <2>2, <2>3 DEF ReportInv, TornInv, ExitInv
  <2> QED
    BY <2>2, <2>5, <2>6, <2>7, <2>8 DEF ReportInv
<1> QED
  BY <1>1, <1>2, <1>0 DEF Arm

LEMMA FinishArmingReports == ASSUME IInv, ReportInv, FinishArming, UNCHANGED boss PROVE ReportInv'
<1> DEFINE ring == {plan[opened].page}
<1>1. /\ pc = "arm_ring" /\ pc' = (IF ~failed THEN "read" ELSE "catch")
      /\ ~failed => /\ ring_address' = IF mode = "graph-entry" THEN ring_address ELSE ring
                    /\ ring_addresses' = IF mode = "graph-entry" THEN ring ELSE ring_addresses
      /\ UNCHANGED <<log, failed, rounds, mode, vmas, snapshot_seq, ready, reported, run_status, exit_code>>
  BY DEF FinishArming, ArmRing, Else, boss
<1>2. /\ SamplesFollowTheirSnapshot' /\ ReportedRoundsAreLogged' /\ Grown
      /\ ~failed' => ~failed /\ \A i \in DOMAIN log' : log'[i] # Torn
  BY <1>1, LogSame
<1>3. CASE failed
  BY <1>1, <1>2, <1>3, GoneReports DEF Gone
<1>4. CASE ~failed
  <2>1. /\ pc \in Opened /\ pc \in Armed /\ pc \notin Loads
        /\ pc' = "read" /\ pc' \in Opened /\ pc' \in Armed /\ pc' \notin Loads
    BY <1>1, <1>4 DEF Armed, Opened, Planned, Loads
  <2>2. opened' = opened /\ opened > 1 /\ ring_address = {} /\ ring_addresses = {} /\ opened \in Nat
    BY <1>1, <2>1, SeqFacts DEF ReportInv, KindInv, IInv, opened
  <2>3. WindowInv'
    BY <1>1, <2>1, <2>2, SameMode, CountedKept DEF ReportInv, WindowInv
  <2>4. SampleInv'
    <3>1. snapshot_seq' \in DOMAIN log' /\ log'[snapshot_seq'] = Snap(Len(vmas))'
      BY <1>1, <1>2, <2>1, MarkKept DEF ReportInv, SampleInv
    <3>2. /\ Len(log) = snapshot_seq + rounds
          /\ \A m \in snapshot_seq+1..Len(log) : log[m].kind \in SampleKinds
      BY <1>4, <2>1 DEF ReportInv, SampleInv
    <3> QED
      BY <1>1, <2>1, <3>1, <3>2 DEF SampleInv
  <2>5. KindInv'
    <3> HIDE DEF ring
    <3>1. ring # {}
      BY DEF ring
    <3> QED
      BY <1>1, <1>4, <2>1, <2>2, <3>1 DEF KindInv
  <2>6. TornInv' /\ ExitInv'
    BY <1>1, <1>2, <2>1 DEF ReportInv, TornInv, ExitInv
  <2> QED
    BY <1>2, <2>3, <2>4, <2>5, <2>6 DEF ReportInv
<1> QED
  BY <1>3, <1>4

LEMMA ReadReports == ASSUME IInv, ReportInv, Read, UNCHANGED boss PROVE ReportInv'
<1>1. /\ pc = "read" /\ UNCHANGED <<mode, vmas, snapshot_seq, ready, reported, run_status, exit_code>>
  BY DEF Read, boss
<1>2. PICK what \in Asks(opened) : \/ SampleEnter(what) /\ pc' = what
                                   \/ SampleRefused(what) /\ pc' = "catch"
  BY DEF Read
<1>3. UNCHANGED log /\ (failed => failed')
  BY <1>2 DEF SampleEnter, SampleRefused
<1>4. /\ SamplesFollowTheirSnapshot' /\ ReportedRoundsAreLogged' /\ Grown
      /\ ~failed' => ~failed /\ \A i \in DOMAIN log' : log'[i] # Torn
  BY <1>1, <1>3, LogSame
<1>5. CASE SampleRefused(what) /\ pc' = "catch"
  BY <1>1, <1>4, <1>5, GoneReports DEF Gone
<1>6. CASE SampleEnter(what) /\ pc' = what
  <2>0. /\ pc \in Opened /\ pc \in Planned /\ pc \in Armed /\ pc \notin Loads
    BY <1>1 DEF Armed, Opened, Planned, Loads
  <2>1. /\ ~failed /\ rounds' = rounds + 1 /\ UNCHANGED <<failed, ring_address, ring_addresses>>
    BY <1>6 DEF SampleEnter, MayRead, targets
  <2>2. opened' = opened /\ opened \in Nat /\ opened >= 1 /\ opened \in 0..Windows
    BY <1>1, <2>0, SeqFacts DEF IInv, PlaceInv, opened, ReportInv, WindowInv, Counted
  <2>3. what \in Loads
    <3>1. opened > 1 => mode \in {"gpfifo-entry", "graph-entry"}
      BY <2>2, SeqFacts, ModeFacts, ServedFacts DEF IInv
    <3> QED
      BY <1>2, <2>2, <3>1 DEF Asks, Loads
  <2>4. pc' \in Opened /\ pc' \in Armed /\ pc' \in Loads
        /\ pc' \notin {"maps", "mark", "ok", "ready", "report", "captured", "arm_ring"}
    BY <1>6, <2>3 DEF Armed, Opened, Planned, Loads
  <2>5. WindowInv'
    BY <1>1, <2>0, <2>2, <2>4, SameMode, CountedKept DEF ReportInv, WindowInv
  <2>6. SampleInv'
    <3>1. snapshot_seq' \in DOMAIN log' /\ log'[snapshot_seq'] = Snap(Len(vmas))'
      BY <1>1, <1>4, <2>0, MarkKept DEF ReportInv, SampleInv
    <3>2. /\ Len(log) = snapshot_seq + rounds
          /\ \A m \in snapshot_seq+1..Len(log) : log[m].kind \in SampleKinds
      BY <2>0, <2>1 DEF ReportInv, SampleInv
    <3>3. Len(log') = snapshot_seq' + (rounds' - 1)
      BY <1>1, <1>3, <2>1, <3>2, TypeFacts DEF IInv
    <3> QED
      BY <1>1, <1>3, <2>4, <3>1, <3>2, <3>3 DEF SampleInv
  <2>7. KindInv'
    <3>1. Asks(opened)' = Asks(opened)
      BY <1>1, <2>2, SameMode
    <3> QED
      BY <1>1, <1>2, <1>6, <2>0, <2>1, <2>2, <2>4, <3>1 DEF ReportInv, KindInv
  <2>8. TornInv' /\ ExitInv'
    BY <1>1, <1>4, <2>4 DEF ReportInv, TornInv, ExitInv
  <2> QED
    BY <1>4, <2>5, <2>6, <2>7, <2>8 DEF ReportInv
<1> QED
  BY <1>2, <1>5, <1>6

\* A sample is named by what it reads, and only the first window reads USERD alone.
LEMMA KindOfSample ==
  ASSUME IInv, ReportInv, pc \in Loads,
         NEW kind, kind = CASE pc = "ring"                        -> "ring_sample"
                            [] pc = "set"                         -> "ring_set_sample"
                            [] pc = "userd" /\ ring_address # {} -> "ring_progress"
                            [] OTHER                              -> "userd_sample"
  PROVE  kind \in SampleKinds /\ (opened = 1) = (kind = "userd_sample")
<1>1. /\ pc \in Armed /\ pc # "arm_ring" /\ ~failed /\ opened \in 1..Windows /\ Windows \in Nat
  <2>1. pc \in Armed /\ pc # "arm_ring" /\ pc \in Opened
    BY DEF Armed, Opened, Planned, Loads
  <2> QED
    BY <2>1, SeqFacts, ServedFacts DEF IInv, ArmedInv, PlaceInv, opened, ReportInv, WindowInv, Counted
<1>2. CASE opened = 1
  <2>1. pc = "userd" /\ ring_address = {}
    BY <1>1, <1>2 DEF ReportInv, KindInv, Asks
  <2> QED
    BY <1>2, <2>1 DEF SampleKinds
<1>3. CASE opened > 1
  <2>1. mode \in {"gpfifo-entry", "graph-entry"}
    BY <1>1, <1>3, SeqFacts, ModeFacts, ServedFacts DEF IInv
  <2>2. CASE mode = "gpfifo-entry"
    <3>1. pc \in {"userd", "ring"} /\ ring_address # {}
      BY <1>1, <1>3, <2>2 DEF ReportInv, KindInv, Asks
    <3>2. kind \in {"ring_sample", "ring_progress"}
      BY <3>1
    <3> QED
      BY <1>3, <3>2 DEF SampleKinds
  <2>3. CASE mode = "graph-entry"
    <3>1. pc = "set"
      BY <1>1, <1>3, <2>3 DEF ReportInv, KindInv, Asks
    <3>2. kind = "ring_set_sample"
      BY <3>1
    <3> QED
      BY <1>3, <3>2 DEF SampleKinds
  <2> QED
    BY <2>1, <2>2, <2>3
<1> QED
  BY <1>1, <1>2, <1>3

LEMMA LoadReports == ASSUME IInv, ReportInv, Load, UNCHANGED boss PROVE ReportInv'
<1> DEFINE kind == CASE pc = "ring"                        -> "ring_sample"
                     [] pc = "set"                         -> "ring_set_sample"
                     [] pc = "userd" /\ ring_address # {} -> "ring_progress"
                     [] OTHER                              -> "userd_sample"
           row == Sample(kind, rounds - 1)
<1>1. /\ pc \in Loads /\ Emit(row) /\ pc' = (IF ~failed' THEN "read" ELSE "catch")
      /\ UNCHANGED <<rounds, ring_address, ring_addresses>>
      /\ UNCHANGED <<mode, vmas, snapshot_seq, ready, reported, run_status, exit_code>>
  <2>1. /\ pc \in Loads /\ SampleEmit(pc) /\ Else(emitted, "read")
        /\ UNCHANGED <<mode, vmas, snapshot_seq, ready, reported, run_status, exit_code>>
    BY DEF Load, Loads, boss
  <2> QED
    BY <2>1 DEF SampleEmit, Else, emitted, window, targets
<1>2. kind \in SampleKinds /\ (opened = 1) = (kind = "userd_sample")
  <2> HIDE DEF kind
  <2> SUFFICES pc \in Loads /\ kind = CASE pc = "ring"              -> "ring_sample"
                              [] pc = "set"                         -> "ring_set_sample"
                              [] pc = "userd" /\ ring_address # {} -> "ring_progress"
                              [] OTHER                              -> "userd_sample"
    BY KindOfSample
  <2> QED
    BY <1>1 DEF kind
<1> HIDE DEF kind
<1>3. /\ row.kind = kind /\ row.round = rounds - 1 /\ rounds - 1 \in Nat /\ rounds \in Nat
      /\ row \in Row /\ row # Torn
  <2>1. rounds - 1 \in Nat /\ rounds \in Nat
    BY <1>1, TypeFacts DEF IInv, ArmedInv
  <2>2. row.kind = kind /\ row.round = rounds - 1
    BY DEF Sample
  <2>3. row # Torn
    BY <1>2, <2>2 DEF Torn, SampleKinds
  <2> QED
    BY <1>2, <2>1, <2>2, <2>3, RowFacts
<1> HIDE DEF row
<1>4. /\ pc \in Opened /\ pc \in Armed /\ ~failed
      /\ opened \in DOMAIN Served /\ snapshot_seq \in DOMAIN log
      /\ log[snapshot_seq] = Snap(Served[opened])
      /\ Len(log) = snapshot_seq + (rounds - 1)
      /\ \A m \in snapshot_seq+1..Len(log) : log[m].kind \in SampleKinds
  <2>1. pc \in Armed /\ pc \in Opened
    BY <1>1 DEF Armed, Opened, Planned, Loads
  <2>2. ~failed
    BY <1>1 DEF IInv, ArmedInv
  <2>3. opened \in 1..Windows /\ Served[opened] = Len(vmas)
    BY <2>1, SeqFacts, ServedFacts DEF IInv, PlaceInv, opened, ReportInv, WindowInv, Counted
  <2>4. /\ snapshot_seq \in DOMAIN log /\ log[snapshot_seq] = Snap(Len(vmas))
        /\ Len(log) = snapshot_seq + (rounds - 1)
        /\ \A m \in snapshot_seq+1..Len(log) : log[m].kind \in SampleKinds
    BY <1>1, <2>1, <2>2 DEF ReportInv, SampleInv
  <2> QED
    BY <2>1, <2>2, <2>3, <2>4, ServedFacts, SeqFacts DEF IInv
<1>5. /\ log \in Seq(Row) /\ Len(log) \in Nat /\ DOMAIN log = 1..Len(log) /\ Grown
      /\ log' = log \/ log' = Append(log, row) \/ log' = Append(log, Torn)
      /\ ~failed' => log' = Append(log, row)
  BY <1>1, <1>3, TypeFacts, EmitFacts DEF IInv
<1>6. ReportedRoundsAreLogged'
  BY <1>1, <1>5, ReportedKept DEF IInv, ReportInv
<1>7. SamplesFollowTheirSnapshot'
  <2>1. CASE log' = log \/ log' = Append(log, Torn)
    <3>1. Torn \in Row /\ Torn.kind \notin SampleKinds
      BY RowFacts DEF Torn, SampleKinds
    <3> QED
      BY <1>1, <2>1, <3>1, FollowKept DEF IInv, ReportInv
  <2>2. CASE log' = Append(log, row)
    <3> DEFINE n == Len(log)
    <3>0. n \in Nat /\ n = snapshot_seq + (rounds - 1) /\ snapshot_seq \in 1..n
      BY <1>4, <1>5
    <3>1. /\ DOMAIN log' = 1..(n + 1) /\ log'[n + 1] = row /\ \A i \in 1..n : log'[i] = log[i]
      BY <1>3, <1>5, <2>2, AppendFacts
    <3>2. \A m \in snapshot_seq+1..n : log[m].kind \in SampleKinds
      BY <1>4
    <3> HIDE DEF n
    <3>3. ASSUME NEW j \in DOMAIN log', log'[j].kind \in SampleKinds
          PROVE  \E w \in DOMAIN Served : \E i \in 1..j-1 :
                   /\ (w = 1) = (log'[j].kind = "userd_sample")
                   /\ log'[i] = Snap(Served[w])
                   /\ log'[j].round = j - i - 1
                   /\ \A m \in i+1..j-1 : log'[m].kind \in SampleKinds
      <4>1. CASE j \in 1..n
        <5>1. log'[j] = log[j] /\ j \in DOMAIN log
          BY <1>5, <3>1, <4>1 DEF n
        <5>2. PICK w \in DOMAIN Served, i \in 1..j-1 :
                /\ (w = 1) = (log[j].kind = "userd_sample")
                /\ log[i] = Snap(Served[w])
                /\ log[j].round = j - i - 1
                /\ \A m \in i+1..j-1 : log[m].kind \in SampleKinds
          BY <3>3, <5>1 DEF ReportInv, SamplesFollowTheirSnapshot
        <5>3. log'[i] = log[i] /\ \A m \in i+1..j-1 : log'[m] = log[m]
          BY <3>0, <3>1, <4>1
        <5> QED
          BY <5>1, <5>2, <5>3
      <4>2. CASE j = n + 1
        <5>1. snapshot_seq \in 1..j-1 /\ j - snapshot_seq - 1 = rounds - 1
          BY <1>3, <3>0, <4>2
        <5>2. log'[snapshot_seq] = Snap(Served[opened])
          BY <1>4, <3>0, <3>1
        <5>3. \A m \in snapshot_seq+1..j-1 : log'[m].kind \in SampleKinds
          <6>1. \A m \in snapshot_seq+1..j-1 : m \in snapshot_seq+1..n /\ m \in 1..n
            BY <3>0, <4>2
          <6> QED
            BY <3>1, <3>2, <6>1
        <5>4. log'[j] = row
          BY <3>1, <4>2
        <5> QED
          BY <1>2, <1>3, <1>4, <5>1, <5>2, <5>3, <5>4
      <4> QED
        BY <3>0, <3>1, <3>3, <4>1, <4>2
    <3> QED
      BY <1>1, <3>3, SameMode DEF SamplesFollowTheirSnapshot
  <2> QED
    BY <1>5, <2>1, <2>2
<1>8. CASE failed'
  <2>1. pc' \in Gone /\ pc # "captured"
    BY <1>1, <1>8 DEF Gone, Loads
  <2> QED
    BY <1>1, <1>6, <1>7, <1>8, <2>1, GoneReports
<1>9. CASE ~failed'
  <2>0. /\ pc' = "read" /\ pc' \in Opened /\ pc' \in Armed /\ pc' \notin Loads
        /\ pc # "arm_ring" /\ log' = Append(log, row)
    BY <1>1, <1>5, <1>9 DEF Armed, Opened, Planned, Loads
  <2>1. /\ DOMAIN log' = 1..(Len(log) + 1) /\ log'[Len(log) + 1] = row
        /\ Len(log') = Len(log) + 1 /\ \A i \in 1..Len(log) : log'[i] = log[i]
    BY <1>3, <1>5, <2>0, AppendFacts
  <2>2. opened' = opened
    BY <1>1 DEF opened
  <2>3. WindowInv'
    BY <1>1, <1>4, <2>0, <2>2, SameMode, CountedKept DEF ReportInv, WindowInv
  <2>4. SampleInv'
    <3>1. snapshot_seq' \in DOMAIN log' /\ log'[snapshot_seq'] = Snap(Len(vmas))'
      BY <1>1, <1>4, <1>5, MarkKept DEF ReportInv, SampleInv
    <3>2. Len(log') = snapshot_seq' + rounds'
      BY <1>1, <1>3, <1>4, <1>5, <2>1
    <3>3. ASSUME NEW m \in snapshot_seq+1..Len(log') PROVE log'[m].kind \in SampleKinds
      <4>1. (m \in snapshot_seq+1..Len(log) /\ m \in 1..Len(log)) \/ m = Len(log) + 1
        BY <1>4, <1>5, <2>1
      <4> QED
        BY <1>2, <1>3, <1>4, <2>1, <4>1
    <3> QED
      BY <1>1, <2>0, <3>1, <3>2, <3>3 DEF SampleInv
  <2>5. KindInv'
    BY <1>1, <1>4, <2>0, <2>2 DEF ReportInv, KindInv
  <2>6. TornInv'
    <3>1. \A i \in DOMAIN log : log[i] # Torn
      BY <1>4 DEF ReportInv, TornInv
    <3> QED
      BY <1>3, <1>5, <2>0, <2>1, <3>1 DEF TornInv
  <2>7. ExitInv'
    BY <1>1, <2>0 DEF ReportInv, ExitInv, Loads
  <2> QED
    BY <1>6, <1>7, <2>3, <2>4, <2>5, <2>6, <2>7 DEF ReportInv
<1> QED
  BY <1>8, <1>9

\* The mark that ends a window is as far from its snapshot's mark as there are samples.
LEMMA StopReadingReports == ASSUME IInv, ReportInv, StopReading, UNCHANGED boss PROVE ReportInv'
<1>0. /\ pc = "read" /\ pc \in Opened /\ pc \in Armed /\ pc \notin Loads /\ pc # "arm_ring"
      /\ UNCHANGED <<mode, vmas, snapshot_seq, ready, run_status, exit_code>>
  BY DEF StopReading, Opened, Planned, Armed, Loads, boss
<1>1. CASE RefuseFinish /\ pc' = "catch" /\ UNCHANGED reported
  <2>1. UNCHANGED <<log, failed>> /\ pc' \in Gone
    BY <1>1 DEF RefuseFinish, observer, Gone
  <2> QED
    BY <1>0, <1>1, <2>1, LogSame, GoneReports
<1>2. CASE /\ FinishReads /\ Else(emitted, "maps")
           /\ reported' = IF emitted THEN Append(reported, rounds) ELSE reported
  <2> DEFINE label == CASE ring_addresses # {} -> "graph_reads_finished"
                        [] ring_address # {}   -> "ring_reads_finished"
                        [] OTHER               -> "reads_finished"
             row == Mark(label, 0)
  <2>1. /\ Emit(row) /\ ~failed /\ pc' = (IF ~failed' THEN "maps" ELSE "catch")
        /\ reported' = IF ~failed' THEN Append(reported, rounds) ELSE reported
        /\ UNCHANGED <<rounds, ring_address, ring_addresses>>
    BY <1>2 DEF FinishReads, CanFinish, Else, emitted, targets
  <2>2. /\ opened \in 1..Windows /\ opened \in Nat /\ Served[opened] = Len(vmas)
        /\ Len(reported) = opened - 1 /\ Counted(Len(vmas), opened)
    BY <1>0, SeqFacts, ServedFacts DEF IInv, PlaceInv, opened, ReportInv, WindowInv, Counted
  <2>3. label \in Labels /\ row = Finish(opened)
    <3>1. CASE opened = 1
      <4>1. ring_addresses = {} /\ ring_address = {}
        BY <1>0, <3>1 DEF ReportInv, KindInv
      <4>2. label = "reads_finished"
        BY <4>1
      <4> HIDE DEF label
      <4> QED
        BY <3>1, <4>2 DEF Labels, Finish
    <3>2. CASE opened > 1
      <4>1. mode \in {"gpfifo-entry", "graph-entry"}
        BY <2>2, <3>2, SeqFacts, ModeFacts, ServedFacts DEF IInv
      <4>2. CASE mode = "gpfifo-entry"
        <5>1. ring_addresses = {} /\ ring_address # {}
          BY <1>0, <2>1, <3>2, <4>2 DEF ReportInv, KindInv
        <5>2. label = "ring_reads_finished"
          BY <5>1
        <5> HIDE DEF label
        <5>3. Finish(opened) = Mark("ring_reads_finished", 0)
          BY <3>2, <4>2 DEF Finish
        <5> QED
          BY <5>2, <5>3 DEF Labels
      <4>3. CASE mode = "graph-entry"
        <5>1. ring_addresses # {} /\ ring_address = {}
          BY <1>0, <2>1, <3>2, <4>3 DEF ReportInv, KindInv
        <5>2. label = "graph_reads_finished"
          BY <5>1
        <5> HIDE DEF label
        <5>3. Finish(opened) = Mark("graph_reads_finished", 0)
          BY <3>2, <4>3 DEF Finish
        <5> QED
          BY <5>2, <5>3 DEF Labels
      <4> QED
        BY <4>1, <4>2, <4>3
    <3> QED
      BY <2>2, <3>1, <3>2
  <2> HIDE DEF label
  <2>4. row \in Row /\ row.kind = "mark" /\ row.kind \notin SampleKinds /\ row # Torn
    <3>1. row.kind = "mark"
      BY DEF Mark
    <3> QED
      BY <2>3, <3>1, RowFacts DEF SampleKinds, Torn
  <2> HIDE DEF row
  <2>5. CASE failed'
    <3>1. UNCHANGED reported /\ pc' \in Gone
      BY <2>1, <2>5 DEF Gone
    <3> QED
      BY <1>0, <2>1, <2>4, <2>5, <3>1, LogSide, GoneReports
  <2>6. CASE ~failed'
    <3>1. /\ log' = Append(log, row) /\ log \in Seq(Row) /\ Grown
      BY <2>1, <2>4, <2>6, TypeFacts, EmitFacts DEF IInv
    <3>2. /\ DOMAIN log' = 1..(Len(log) + 1) /\ log'[Len(log) + 1] = row /\ Len(log) \in Nat
          /\ \A i \in 1..Len(log) : log'[i] = log[i]
      BY <2>4, <3>1, AppendFacts
    <3>3. SamplesFollowTheirSnapshot'
      BY <1>0, <2>4, <3>1, FollowKept DEF IInv, ReportInv
    <3>4. /\ snapshot_seq \in 1..Len(log) /\ log[snapshot_seq] = Snap(Served[opened])
          /\ Len(log) = snapshot_seq + rounds
      BY <1>0, <2>1, <2>2, TypeFacts DEF ReportInv, SampleInv, IInv
    <3>5. /\ DOMAIN reported' = 1..opened /\ DOMAIN reported = 1..(opened - 1)
          /\ Len(reported') = opened
          /\ reported'[opened] = rounds /\ \A k \in 1..(opened - 1) : reported'[k] = reported[k]
      <4>1. reported \in Seq(Nat) /\ rounds \in Nat /\ reported' = Append(reported, rounds)
        BY <2>1, <2>6, SeqFacts, TypeFacts DEF IInv
      <4> QED
        BY <2>2, <4>1
    <3>6. ReportedRoundsAreLogged'
      <4>1. ASSUME NEW k \in 1..opened
            PROVE  \E f \in DOMAIN log' : /\ log'[f] = Finish(k)
                                          /\ f > reported'[k] + 1
                                          /\ log'[f - reported'[k] - 1] = Snap(Served[k])
        <5>1. CASE k = opened
          <6> DEFINE f == Len(log) + 1
          <6>1. rounds \in Nat
            BY TypeFacts DEF IInv
          <6>2. f \in DOMAIN log' /\ f > rounds + 1 /\ f - rounds - 1 = snapshot_seq
            BY <3>2, <3>4, <6>1
          <6>3. log'[f] = Finish(k) /\ log'[snapshot_seq] = Snap(Served[k])
            BY <2>3, <3>2, <3>4, <5>1
          <6> HIDE DEF f
          <6> QED
            BY <3>5, <5>1, <6>2, <6>3
        <5>2. CASE k \in 1..(opened - 1)
          <6>1. PICK f \in DOMAIN log : /\ log[f] = Finish(k)
                                        /\ f > reported[k] + 1
                                        /\ log[f - reported[k] - 1] = Snap(Served[k])
            BY <3>5, <5>2 DEF ReportInv, ReportedRoundsAreLogged
          <6>2. reported[k] \in Nat
            BY <3>5, <5>2, SeqFacts DEF IInv
          <6>3. DOMAIN log = 1..Len(log)
            BY TypeFacts DEF IInv
          <6>4. /\ f \in DOMAIN log' /\ log'[f] = log[f]
                /\ f - reported[k] - 1 \in 1..Len(log)
            BY <3>2, <6>1, <6>2, <6>3
          <6> QED
            BY <3>2, <3>5, <5>2, <6>1, <6>4
        <5> QED
          BY <2>2, <5>1, <5>2
      <4>2. (\A k : Finish(k)' = Finish(k)) /\ Served' = Served /\ \A k : Snap(k)' = Snap(k)
        BY <1>0, SameMode DEF Finish, Mark
      <4> QED
        BY <3>5, <4>1, <4>2 DEF ReportedRoundsAreLogged
    <3>7. /\ pc' = "maps" /\ pc' \notin Opened /\ pc' \notin Armed /\ pc' \notin Loads
      BY <2>1, <2>6 DEF Opened, Planned, Armed, Loads
    <3>8. WindowInv'
      BY <1>0, <2>2, <3>5, <3>7, CountedKept DEF WindowInv, opened
    <3>9. SampleInv' /\ KindInv'
      BY <3>7 DEF SampleInv, KindInv
    <3>10. TornInv'
      <4>1. \A i \in 1..Len(log) : log[i] # Torn
        BY <2>1, TypeFacts DEF ReportInv, TornInv, IInv
      <4>2. \A i \in 1..(Len(log) + 1) : log'[i] # Torn
        BY <2>4, <3>2, <4>1
      <4> QED
        BY <3>2, <3>7, <4>2 DEF TornInv
    <3>11. ExitInv'
      BY <1>0, <3>7 DEF ReportInv, ExitInv
    <3> QED
      BY <3>3, <3>6, <3>8, <3>9, <3>10, <3>11 DEF ReportInv
  <2> QED
    BY <2>5, <2>6
<1> QED
  BY <1>1, <1>2 DEF StopReading

LEMMA NextReports == ASSUME IInv, ReportInv, [Next]_vars PROVE ReportInv'
<1>1. CASE ProbeStep
  <2>1. UNCHANGED boss
    BY <1>1 DEF ProbeStep
  <2>2. SaveMaps \/ MarkSnapshot \/ AskOk \/ SayReady \/ AwaitPlan \/ CheckPlan \/ Arm \/ FinishArming
        \/ Read \/ Load \/ StopReading \/ Throw \/ Report \/ Catch
    BY <1>1 DEF ProbeStep
  <2> QED
    BY <2>1, <2>2, SaveMapsReports, MarkSnapshotReports, AskOkReports, SayReadyReports, PlanReports,
       ArmReports, FinishArmingReports, ReadReports, LoadReports, StopReadingReports, ThrowReports,
       ReportReports, CatchReports
<1>2. CASE Driver
  BY <1>2, DriverReports DEF Driver
<1>3. CASE Deadline \/ Done \/ UNCHANGED vars
  <2>1. /\ UNCHANGED <<log, failed, rounds, ring_address, ring_addresses>>
        /\ UNCHANGED <<mode, pc, vmas, snapshot_seq, ready, reported, run_status, exit_code>>
    BY <1>3 DEF Deadline, ReadDeadline, Done, vars, observer, window, targets, probe, boss
  <2> QED
    BY <2>1, LogSame, StillReports
<1>4. CASE LauncherStep
  BY <1>4, LauncherReports
<1> QED
  BY <1>1, <1>2, <1>3, <1>4 DEF Next

LEMMA InitReports == ASSUME LiveInit PROVE ReportInv
<1> DEFINE row == [kind |-> "mmap", page |-> CHOOSE p \in Pages : TRUE]
<1>1. /\ log = <<row>> /\ mode \in Modes /\ pc = "maps" /\ vmas = <<>> /\ ready = <<>>
      /\ reported = <<>> /\ exit_code = NoCode
  BY DEF LiveInit, Init
<1>2. row.kind \notin SampleKinds /\ row # Torn
  BY DEF SampleKinds, Torn
<1> HIDE DEF row
<1>3. pc \notin Opened /\ pc \notin Armed /\ pc \notin Loads /\ exit_code # 0
  BY <1>1 DEF Opened, Planned, Armed, Loads, NoCode
<1>4. WindowInv
  <2>1. Len(vmas) = 0 /\ opened = 0 /\ Len(reported) = 0
    BY <1>1 DEF opened
  <2>2. Windows \in Nat /\ \A w \in 1..Windows : Served[w] \in Nat /\ 1 <= Served[w]
    BY <1>1, ServedFacts
  <2>3. Counted(0, 0)
    BY <2>2 DEF Counted
  <2> QED
    BY <1>1, <1>3, <2>1, <2>3 DEF WindowInv
<1>5. SampleInv /\ KindInv /\ ExitInv
  BY <1>1, <1>3 DEF SampleInv, KindInv, ExitInv
<1>6. TornInv /\ SamplesFollowTheirSnapshot
  BY <1>1, <1>2 DEF TornInv, SamplesFollowTheirSnapshot
<1>7. ReportedRoundsAreLogged
  BY <1>1 DEF ReportedRoundsAreLogged
<1> QED
  BY <1>4, <1>5, <1>6, <1>7 DEF ReportInv

\* What the probe and the launcher report is in the log: every sample follows the mark
\* of its window's snapshot, every round reported lies between the two marks of its
\* window, and exit code 0 means that no row up to the last snapshot was lost.
THEOREM ReportComplete == Spec => []ReportIsComplete
<1>1. LiveInit => IInv /\ ReportInv
  BY InitHolds, InitReports
<1>2. (IInv /\ ReportInv) /\ [Next]_vars => (IInv /\ ReportInv)'
  BY NextKeeps, NextReports
<1>3. IInv /\ ReportInv => ReportIsComplete
  <2>1. ASSUME IInv, ReportInv, exit_code = 0
        PROVE  /\ run_status = "captured" /\ Len(reported) = Windows
               /\ \E m \in DOMAIN log : log[m] = Snap(Snapshots) /\ \A i \in 1..m : log[i] # Torn
    <3>1. pc = "captured" /\ run_status = "captured"
      BY <2>1 DEF ReportInv, ExitInv
    <3>2. Len(reported) = Windows /\ Len(vmas) = Snapshots
      BY <2>1, <3>1 DEF ReportInv, WindowInv
    <3>3. snapshot_seq \in DOMAIN log /\ log[snapshot_seq] = Snap(Snapshots)
      BY <2>1, <3>1, <3>2 DEF ReportInv, SampleInv
    <3>4. \A i \in 1..snapshot_seq : log[i] # Torn
      BY <2>1, <3>1 DEF ReportInv, TornInv
    <3> QED
      BY <3>1, <3>2, <3>3, <3>4
  <2> QED
    BY <2>1 DEF ReportIsComplete, SuccessIsComplete, ReportInv
<1> QED
  BY <1>1, <1>2, <1>3, PTL DEF Spec

================================================================================
