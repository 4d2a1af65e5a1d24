---------------------------- MODULE SharedMemory -----------------------------
(***************************************************************************)
(* The cl::SharedMemory objects (Source/SharedMemory.cpp) of all processes *)
(* of a machine.  A constructor makes a backing under a random name that   *)
(* must not exist yet, and takes the name away again once it has the       *)
(* handle.  Names belong to the system: those of a process that died       *)
(* between the two calls stay.                                             *)
(*                                                                         *)
(* A step is one system call.  A backing is named by the object that       *)
(* created it.                                                             *)
(***************************************************************************)
EXTENDS Naturals

CONSTANTS
  Objects,     \* SharedMemory objects, each constructed at most once
  Names,       \* what SharedMemory_RandomFileName() may return
  None,        \* no backing (handle -1, or a name that is free), or no name
  MaxRetries,  \* SharedMemoryTempHandleMaxRetries
  Failures     \* may shm_open(), ftruncate() and mmap() fail for want of
               \* memory or descriptors?

ASSUME ObjectsAssumption == None \notin Objects \cup Names
ASSUME ParametersAssumption == MaxRetries \in Nat \ {0} /\ Failures \in BOOLEAN

VARIABLES
  backing,   \* backing[n]: what name n refers to
  phase,     \* phase[o]: where the constructor of o stands, or how o ended
  tempFile,  \* tempFile[o]: the name drawn last, while it is needed
  tries,     \* tries[o]: calls of shm_open() so far
  handle,    \* handle[o]: the backing that _handle refers to
  address    \* address[o]: _address, "null", "mapped" or "MAP_FAILED"

vars == <<backing, phase, tempFile, tries, handle, address>>

\* "unmap" and "close" are the calls after the label failure.
Constructing == {"open", "unlink", "truncate", "map", "unmap", "close"}
Phases == Constructing \cup {"none", "ready", "failed", "cleaned", "crashed"}

Init ==
  /\ backing = [n \in Names |-> None]
  /\ phase = [o \in Objects |-> "none"]
  /\ tempFile = [o \in Objects |-> None]
  /\ tries = [o \in Objects |-> 0]
  /\ handle = [o \in Objects |-> None]
  /\ address = [o \in Objects |-> "null"]

Goto(o, from, to) ==
  /\ phase[o] = from
  /\ phase' = [phase EXCEPT ![o] = to]

-----------------------------------------------------------------------------
(* SharedMemory_CreateBackingIfNecessary() *)

Draw(o) == \E n \in Names : tempFile' = [tempFile EXCEPT ![o] = n]

Construct(o) ==
  /\ Goto(o, "none", "open")
  /\ Draw(o)
  /\ UNCHANGED <<backing, tries, handle, address>>

\* Mutant: shm_open() without O_EXCL.
Open_NotExclusive(o) ==
  /\ Goto(o, "open", "unlink")
  /\ LET found == backing[tempFile[o]]
         opened == IF found = None THEN o ELSE found IN
     /\ backing' = [backing EXCEPT ![tempFile[o]] = opened]
     /\ handle' = [handle EXCEPT ![o] = opened]
  /\ UNCHANGED <<tempFile, tries, address>>

\* shm_open() creates the backing.
Open(o) ==
  /\ Goto(o, "open", "unlink")
  /\ backing[tempFile[o]] = None
  /\ backing' = [backing EXCEPT ![tempFile[o]] = o]
  /\ handle' = [handle EXCEPT ![o] = o]
  /\ UNCHANGED <<tempFile, tries, address>>

\* Mutant: a name that exists is taken for a leftover and removed.
OpenExists_Removes(o) ==
  /\ phase[o] = "open"
  /\ backing[tempFile[o]] # None
  /\ backing' = [backing EXCEPT ![tempFile[o]] = None]
  /\ UNCHANGED <<phase, tempFile, tries, handle, address>>

\* Mutant: the tries are not counted.
OpenExists_NotCounted(o) ==
  /\ phase[o] = "open"
  /\ backing[tempFile[o]] # None
  /\ Draw(o)
  /\ UNCHANGED <<backing, phase, tries, handle, address>>

\* Mutant: one try too many.
OpenExists_OneMore(o) ==
  /\ phase[o] = "open"
  /\ backing[tempFile[o]] # None
  /\ Draw(o)
  /\ tries' = [tries EXCEPT ![o] = @ + 1]
  /\ phase' = [phase EXCEPT ![o] = IF tries[o] < MaxRetries THEN "open" ELSE "unmap"]
  /\ UNCHANGED <<backing, handle, address>>

\* EEXIST: draw another name, MaxRetries times in all.
OpenExists(o) ==
  /\ phase[o] = "open"
  /\ backing[tempFile[o]] # None
  /\ Draw(o)
  /\ tries' = [tries EXCEPT ![o] = @ + 1]
  /\ phase' = [phase EXCEPT ![o] = IF tries[o] + 1 < MaxRetries THEN "open" ELSE "unmap"]
  /\ UNCHANGED <<backing, handle, address>>

\* Mutant: the name is kept.
Unlink_Skipped(o) ==
  /\ Goto(o, "unlink", "truncate")
  /\ UNCHANGED <<backing, tempFile, tries, handle, address>>

\* CL_CHECK(::shm_unlink(tempFile)), which stops the process if there is no
\* such name.
Unlink(o) ==
  /\ Goto(o, "unlink", "truncate")
  /\ backing[tempFile[o]] # None
  /\ backing' = [backing EXCEPT ![tempFile[o]] = None]
  /\ tempFile' = [tempFile EXCEPT ![o] = None]
  /\ UNCHANGED <<tries, handle, address>>

-----------------------------------------------------------------------------
(* The rest of SharedMemory::SharedMemory() *)

\* ftruncate()
Truncate(o) ==
  /\ Goto(o, "truncate", "map")
  /\ UNCHANGED <<backing, tempFile, tries, handle, address>>

\* mmap()
Map(o) ==
  /\ Goto(o, "map", "ready")
  /\ address' = [address EXCEPT ![o] = "mapped"]
  /\ UNCHANGED <<backing, tempFile, tries, handle>>

\* One of the three calls fails otherwise: goto failure.
Fail(o) ==
  /\ Failures
  /\ \E from \in {"open", "truncate", "map"} : Goto(o, from, "unmap")
  /\ address' = [address EXCEPT ![o] = IF phase[o] = "map" THEN "MAP_FAILED" ELSE @]
  /\ UNCHANGED <<backing, tempFile, tries, handle>>

\* if (_address != nullptr) CL_CHECK(::munmap(_address)): munmap(MAP_FAILED)
\* is an error, at which the process stops.
FailureUnmap(o) ==
  /\ address[o] = "null"
  /\ Goto(o, "unmap", "close")
  /\ UNCHANGED <<backing, tempFile, tries, handle, address>>

\* if (_handle == -1) CL_CHECK(::close(_handle)), an error as well; any other
\* handle is forgotten without being closed.
FailureClose(o) ==
  /\ handle[o] # None
  /\ Goto(o, "close", "failed")
  /\ handle' = [handle EXCEPT ![o] = None]
  /\ UNCHANGED <<backing, tempFile, tries, address>>

\* SharedMemory::cleanup(), from user code or from the destructor; when the
\* object is not ready it returns at once.
Cleanup(o) ==
  /\ Goto(o, "ready", "cleaned")
  /\ handle' = [handle EXCEPT ![o] = None]
  /\ address' = [address EXCEPT ![o] = "null"]
  /\ UNCHANGED <<backing, tempFile, tries>>

\* The process of o dies.
Crash(o) ==
  /\ phase[o] \in Constructing \cup {"ready"}
  /\ phase' = [phase EXCEPT ![o] = "crashed"]
  /\ handle' = [handle EXCEPT ![o] = None]
  /\ address' = [address EXCEPT ![o] = "null"]
  /\ tempFile' = [tempFile EXCEPT ![o] = None]
  /\ UNCHANGED <<backing, tries>>

ConstructorStep(o) ==
  \/ Open(o) \/ OpenExists(o) \/ Unlink(o) \/ Truncate(o) \/ Map(o) \/ Fail(o)
  \/ FailureUnmap(o) \/ FailureClose(o)

Next == \E o \in Objects :
  Construct(o) \/ ConstructorStep(o) \/ Cleanup(o) \/ Crash(o)

\* A constructor that has begun goes on.
Spec == Init /\ [][Next]_vars /\ \A o \in Objects : WF_vars(ConstructorStep(o))

-----------------------------------------------------------------------------
TypeOK ==
  /\ backing \in [Names -> Objects \cup {None}]
  /\ phase \in [Objects -> Phases]
  /\ tempFile \in [Objects -> Names \cup {None}]
  /\ tries \in [Objects -> 0 .. MaxRetries]
  /\ handle \in [Objects -> Objects \cup {None}]
  /\ address \in [Objects -> {"null", "mapped", "MAP_FAILED"}]

\* No two objects share a backing unless a handle is passed on: constructors
\* that draw the same name do not get the same memory.
BackingIsPrivate ==
  \A o, p \in Objects : handle[o] # None /\ handle[o] = handle[p] => o = p

\* shm_unlink() removes the name its own constructor has made.
UnlinksOwnName ==
  \A o \in Objects : phase[o] = "unlink" => backing[tempFile[o]] = o

\* A backing has a name between two calls of its constructor only, or if its
\* process died there.
NamesAreTemporary ==
  \A n \in Names :
    backing[n] # None => phase[backing[n]] \in {"unlink", "crashed"}

\* The constructor ends whatever names are taken, or stops at a failed check.
ConstructorEnds ==
  \A o \in Objects : phase[o] \in {"open", "unlink", "truncate", "map"} ~>
                     phase[o] \notin {"open", "unlink", "truncate", "map"}

\* The calls that the failure path checks succeed.
FailureIsClean ==
  \A o \in Objects :
    /\ phase[o] = "unmap" => address[o] # "MAP_FAILED"
    /\ phase[o] = "close" => handle[o] # None
=============================================================================
