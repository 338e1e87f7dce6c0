---------------------------- MODULE MCMappingBinding ----------------------------
(* One channel on one of two memory objects; the set-up is the one the tests of *)
(* the analyzers replay (src/tests/test_gpfifo_entry.py), with its USERD in the *)
(* first unit and its ring in the second.                                       *)
EXTENDS MappingBinding

Alloc(m) == [request |-> "RM_ALLOC", object |-> m]
AllocChannel(m) == [request |-> "RM_ALLOC", object |-> "channel", memory |-> m, offset |-> 0]
AllocMemory(m, f) == [request |-> "RM_ALLOC_MEMORY", object |-> m, map_fd |-> f, length |-> 2]
Free(h) == [request |-> "RM_FREE", object |-> h]
MapMemory(m, t, f) ==
  [request |-> "RM_MAP_MEMORY", memory |-> m, tid |-> t, map_fd |-> f, offset |-> 0, length |-> 2]
UnmapMemory(m) == [request |-> "RM_UNMAP_MEMORY", memory |-> m]
Mmap(t, f, a, n, fixed) ==
  [request |-> "mmap", tid |-> t, fd |-> f, address |-> a, length |-> n, fixed |-> fixed]
Munmap(a) == [request |-> "munmap", address |-> a, length |-> 1]
Mremap(a, b) == [request |-> "mremap", address |-> a, length |-> 1, new_address |-> b]
Close(f) == [request |-> "close", fd |-> f]
Uvm(request) == [request |-> request]
UvmRange(request, x, n) == [request |-> request, base |-> x, length |-> n]
MapExternal(m, x, off) ==
  [request |-> "UVM_MAP_EXTERNAL_ALLOCATION", memory |-> m, base |-> x, length |-> 1, offset |-> off]

UsualCalls ==
  <<Alloc("m1"), Alloc("m2"), MapMemory("m1", "t1", "f1"), Mmap("t1", "f1", 0, 2, FALSE),
    Uvm("UVM_REGISTER_GPU_VASPACE"), UvmRange("UVM_CREATE_EXTERNAL_RANGE", 0, 1), MapExternal("m1", 0, 1),
    AllocChannel("m1"), Uvm("UVM_REGISTER_CHANNEL")>>

Made ==
  {Free(h) : h \in {"m1", "channel"}}
  \union {AllocChannel("m2"), AllocMemory("m1", "f1"), AllocMemory("m2", "f1")}
  \union {MapMemory("m2", t, "f1") : t \in {"t1", "t2"}}
  \union {UnmapMemory("m1")}
  \union {Mmap("t1", "f1", 2, 2, FALSE), Mmap("t2", "f1", 0, 2, TRUE), Mmap("t1", "none", 0, 1, TRUE), Mmap("t1", "none", 2, 2, FALSE)}
  \union {Munmap(0), Mremap(0, 2), Mremap(2, 0), Close("f1"), Close("uvm")}
  \union {Uvm(k) : k \in {"UVM_UNREGISTER_GPU_VASPACE", "UVM_UNREGISTER_CHANNEL", "UVM_VALIDATE_VA_RANGE", "UVM_UNKNOWN"}}
  \union {UvmRange(k, 0, 1) : k \in {"UVM_UNMAP_EXTERNAL", "UVM_MAP_EXTERNAL_SPARSE", "UVM_ALLOC_SEMAPHORE_POOL", "UVM_FREE"}}
  \union {MapExternal("m2", 0, 1), MapExternal("m1", 0, 0)}

\* Calls that fail and leave a row.
Refused == {MapMemory("m2", "t1", "f1"), Mmap("t1", "f1", 2, 2, FALSE), Munmap(0), Free("m1")}

OtherRows == {[call |-> c, ok |-> TRUE] : c \in Made} \union {[call |-> c, ok |-> FALSE] : c \in Refused}

================================================================================
