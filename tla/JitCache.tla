------------------------------ MODULE JitCache ------------------------------
(***************************************************************************)
(* The JIT cache: several processes, on one node or on several with a      *)
(* distributed file system, build the same kernels into one directory.     *)
(*                                                                         *)
(* Compiler::build looks into the kernels the process has loaded, then     *)
(* into the cache directory.  On a miss it compiles into a directory of    *)
(* its own under tmp/, syncs it, and renames it to its place in the cache; *)
(* if another process was faster, it removes its own and uses the other's. *)
(* An external command (nvcc, cuobjdump) may fail, which raises an         *)
(* exception and leaves the directory in tmp/ behind; a process may be     *)
(* killed between any two steps and started again; a node may lose power,  *)
(* and with it whatever of its files was not synced.                       *)
(*                                                                         *)
(* The file system: a rename is atomic and seen by everybody at once; what *)
(* a process wrote and did not sync is seen on its own node only.          *)
(***************************************************************************)
EXTENDS Naturals, FiniteSets, Sequences

CONSTANTS Processes,
          Nodes,
          Keys,          \* kernel_signature: name, compiler, flags and code
          NodeOf,        \* the node a process runs on
          Calls,         \* Calls[p]: the keys a process builds, in order
          Dumping,       \* the processes with DG_JIT_DUMP_SASS / _PTX
          MaxCalls,      \* bound: calls of a process
          MaxFaults,     \* bound: processes killed and nodes that lose power
          NoDir

Files == {"cu", "cubin", "dump"}
\* make_tmp_dir() / get_uuid(): one directory per attempt of a process.
Dirs == Processes \X (1 .. MaxCalls * (MaxFaults + 1))

ASSUME JitAssumption ==
  /\ NodeOf \in [Processes -> Nodes]
  /\ Calls \in [Processes -> Seq(Keys)]
  /\ MaxCalls \in Nat /\ \A p \in Processes : Len(Calls[p]) <= MaxCalls
  /\ Dumping \subseteq Processes
  /\ MaxFaults \in Nat
  /\ NoDir \notin Dirs

VARIABLES
  nvrtc,    \* DG_JIT_USE_NVRTC, the same for all processes
  pc,       \* pc[p]: where a process is in build
  call,     \* call[p]: the call it is in
  attempt,  \* attempt[p]: directories it has created
  loaded,   \* loaded[p]: kernel_runtime_cache
  result,   \* result[p]: how its last call ended
  cacheDir, \* cacheDir[k]: the directory at cache/kernel.<name>.<digest>
  file,     \* file[d][f]: what a directory holds
  synced,   \* synced[d][f]: whether it is durable and seen on all nodes
  made,     \* made[d]: the key whose code a directory was made from
  faults    \* processes killed and power losses so far

fsVars == <<cacheDir, file, synced, made>>
vars == <<nvrtc, pc, call, attempt, loaded, result, fsVars, faults>>

Init ==
  /\ nvrtc \in BOOLEAN
  /\ pc = [p \in Processes |-> "call"]
  /\ call = [p \in Processes |-> 1]
  /\ attempt = [p \in Processes |-> 0]
  /\ loaded = [p \in Processes |-> {}]
  /\ result = [p \in Processes |-> "none"]
  /\ cacheDir = [k \in Keys |-> NoDir]
  /\ file = [d \in Dirs |-> [f \in Files |-> "absent"]]
  /\ synced = [d \in Dirs |-> [f \in Files |-> FALSE]]
  /\ made = [d \in Dirs |-> NoDir]
  /\ faults = 0

-----------------------------------------------------------------------------
Key(p) == Calls[p][call[p]]
Tmp(p) == <<p, attempt[p]>>
Goto(p, where) == pc' = [pc EXCEPT ![p] = where]

\* What a process sees of a file.
Seen(p, d, f) ==
  IF NodeOf[d[1]] = NodeOf[p] \/ synced[d][f] THEN file[d][f] ELSE "absent"

\* The call ends, with the kernel or with an exception.
Return(p, how) ==
  /\ result' = [result EXCEPT ![p] = how]
  /\ call' = [call EXCEPT ![p] = @ + 1]
  /\ Goto(p, "call")

\* KernelRuntimeCache::get with check_validity: the kernel is loaded, or its
\* directory exists and holds both files (they are loaded next), or it exists
\* and does not, or there is none.
Get(p, missing) ==
  LET k == Key(p)
      d == cacheDir[k]
      both == Seen(p, d, "cu") # "absent" /\ Seen(p, d, "cubin") # "absent"
  IN  \/ k \in loaded[p] /\ Return(p, "kernel")
      \/ k \notin loaded[p] /\ d = NoDir /\ missing
      \/ /\ k \notin loaded[p] /\ d # NoDir /\ both
         /\ Goto(p, "load") /\ UNCHANGED <<call, result>>
      \/ k \notin loaded[p] /\ d # NoDir /\ ~both /\ Return(p, "corrupted")

\* The start of build.
Lookup(p) ==
  /\ pc[p] = "call" /\ call[p] <= Len(Calls[p])
  /\ Get(p, Goto(p, "mkdir") /\ UNCHANGED <<call, result>>)
  /\ UNCHANGED <<nvrtc, attempt, loaded, fsVars, faults>>

\* KernelRuntime: cuobjdump lists the symbols, the library is loaded.
Load(p) ==
  /\ pc[p] = "load"
  /\ \/ /\ Seen(p, cacheDir[Key(p)], "cubin") = "complete"
        /\ made[cacheDir[Key(p)]] = Key(p)
        /\ loaded' = [loaded EXCEPT ![p] = @ \cup {Key(p)}]
        /\ Return(p, "kernel")
     \/ /\ Seen(p, cacheDir[Key(p)], "cubin") # "complete" \/ made[cacheDir[Key(p)]] # Key(p)
        /\ Return(p, "corrupted")
        /\ UNCHANGED loaded
     \/ /\ ~nvrtc
        /\ Return(p, "command failed")
        /\ UNCHANGED loaded
  /\ UNCHANGED <<nvrtc, attempt, fsVars, faults>>

MakeTmpDir(p) ==
  /\ pc[p] = "mkdir"
  /\ attempt' = [attempt EXCEPT ![p] = @ + 1]
  /\ made' = [made EXCEPT ![<<p, attempt[p] + 1>>] = Key(p)]
  /\ Goto(p, "put")
  /\ UNCHANGED <<nvrtc, call, loaded, result, cacheDir, file, synced, faults>>

Write(p, f, content) == file' = [file EXCEPT ![Tmp(p)][f] = content]

\* put(kernel.cu): write, close and sync.
PutCode(p) ==
  /\ pc[p] = "put"
  /\ Write(p, "cu", "complete")
  /\ synced' = [synced EXCEPT ![Tmp(p)]["cu"] = TRUE]
  /\ Goto(p, "compile")
  /\ UNCHANGED <<nvrtc, call, attempt, loaded, result, cacheDir, made, faults>>

\* The compiler has begun to write kernel.cubin; NVRTC compiles in memory
\* first, so that only NVCC can fail after this.
StartCubin(p) ==
  /\ pc[p] = "compile"
  /\ Write(p, "cubin", "partial")
  /\ Goto(p, "compiling")
  /\ UNCHANGED <<nvrtc, call, attempt, loaded, result, cacheDir, synced, made, faults>>

\* The file is complete.  NVRTC's is written by put, which syncs it.
FinishCubin(p) ==
  /\ pc[p] = "compiling"
  /\ Write(p, "cubin", "complete")
  /\ synced' = [synced EXCEPT ![Tmp(p)]["cubin"] = nvrtc]
  /\ Goto(p, IF p \in Dumping THEN "dump" ELSE "sync")
  /\ UNCHANGED <<nvrtc, call, attempt, loaded, result, cacheDir, made, faults>>

\* PTX or SASS is written next to it.
Dump(p) ==
  /\ pc[p] = "dump"
  /\ Write(p, "dump", "complete")
  /\ Goto(p, "sync")
  /\ UNCHANGED <<nvrtc, call, attempt, loaded, result, cacheDir, synced, made, faults>>

\* Fault: the call is made again and again.
CommandFails_Retry(p) ==
  /\ pc[p] \in {"compile", "compiling", "dump"}
  /\ Goto(p, "compile")
  /\ UNCHANGED <<nvrtc, call, attempt, loaded, result, fsVars, faults>>
\* The compiler or cuobjdump fails or is killed by a signal: an exception, and
\* nothing is removed.
CommandFails(p) ==
  /\ \/ pc[p] \in {"compile", "dump"}
     \/ pc[p] = "compiling" /\ ~nvrtc
  /\ Return(p, "command failed")
  /\ UNCHANGED <<nvrtc, attempt, loaded, fsVars, faults>>

\* Fault: the directory is renamed without having been synced.
SyncDir_Skip(p) ==
  /\ pc[p] = "sync"
  /\ Goto(p, "rename")
  /\ UNCHANGED <<nvrtc, call, attempt, loaded, result, fsVars, faults>>
\* fsync_dir: every file, then the directory.
SyncDir(p) ==
  /\ pc[p] = "sync"
  /\ synced' = [synced EXCEPT ![Tmp(p)] = [f \in Files |-> file[Tmp(p)][f] # "absent"]]
  /\ Goto(p, "rename")
  /\ UNCHANGED <<nvrtc, call, attempt, loaded, result, cacheDir, file, made, faults>>

\* Fault: the rename replaces a directory that is there already.
Rename_Replace(p) ==
  /\ pc[p] = "rename"
  /\ cacheDir' = [cacheDir EXCEPT ![Key(p)] = Tmp(p)]
  /\ Goto(p, "get")
  /\ UNCHANGED <<nvrtc, call, attempt, loaded, result, file, synced, made, faults>>
\* Fault: the loser of the race removes the directory in the cache.
Rename_RemoveWinner(p) ==
  /\ pc[p] = "rename"
  /\ cacheDir' = [cacheDir EXCEPT ![Key(p)] = IF @ = NoDir THEN Tmp(p) ELSE NoDir]
  /\ Goto(p, IF cacheDir[Key(p)] = NoDir THEN "get" ELSE "remove")
  /\ UNCHANGED <<nvrtc, call, attempt, loaded, result, file, synced, made, faults>>
\* Rename to the final path; it fails if somebody was there before.
Rename(p) ==
  /\ pc[p] = "rename"
  /\ IF cacheDir[Key(p)] = NoDir
       THEN cacheDir' = [cacheDir EXCEPT ![Key(p)] = Tmp(p)] /\ Goto(p, "get")
       ELSE UNCHANGED cacheDir /\ Goto(p, "remove")
  /\ UNCHANGED <<nvrtc, call, attempt, loaded, result, file, synced, made, faults>>

\* safe_remove_all, entry by entry.
RemoveEntry(p) ==
  /\ pc[p] = "remove"
  /\ IF \E f \in Files : file[Tmp(p)][f] # "absent"
       THEN \E f \in Files : /\ file[Tmp(p)][f] # "absent"
                             /\ Write(p, f, "absent")
                             /\ UNCHANGED pc
       ELSE Goto(p, "get") /\ UNCHANGED file
  /\ UNCHANGED <<nvrtc, call, attempt, loaded, result, cacheDir, synced, made, faults>>

\* The end of build: the directory must be there now.
GetAgain(p) ==
  /\ pc[p] = "get"
  /\ Get(p, Return(p, "missing"))
  /\ UNCHANGED <<nvrtc, attempt, loaded, fsVars, faults>>

Build(p) == \/ Lookup(p) \/ Load(p) \/ MakeTmpDir(p) \/ PutCode(p) \/ StartCubin(p)
            \/ FinishCubin(p) \/ Dump(p) \/ CommandFails(p) \/ SyncDir(p)
            \/ Rename(p) \/ RemoveEntry(p) \/ GetAgain(p)

-----------------------------------------------------------------------------
\* A process is killed; what it wrote stays.
Kill(p) ==
  /\ pc[p] # "dead" /\ faults < MaxFaults
  /\ Goto(p, "dead")
  /\ faults' = faults + 1
  /\ UNCHANGED <<nvrtc, call, attempt, loaded, result, fsVars>>

\* The task is started again, with nothing loaded.
Restart(p) ==
  /\ pc[p] = "dead"
  /\ Goto(p, "call")
  /\ call' = [call EXCEPT ![p] = 1]
  /\ loaded' = [loaded EXCEPT ![p] = {}]
  /\ result' = [result EXCEPT ![p] = "none"]
  /\ UNCHANGED <<nvrtc, attempt, fsVars, faults>>

\* A node loses power with what its processes did not sync.
PowerLoss(n) ==
  /\ faults < MaxFaults
  /\ faults' = faults + 1
  /\ pc' = [p \in Processes |-> IF NodeOf[p] = n THEN "dead" ELSE pc[p]]
  /\ file' = [d \in Dirs |-> [f \in Files |->
                IF NodeOf[d[1]] = n /\ ~synced[d][f] THEN "absent" ELSE file[d][f]]]
  /\ UNCHANGED <<nvrtc, call, attempt, loaded, result, cacheDir, synced, made>>

Done == \A p \in Processes : pc[p] = "call" /\ call[p] > Len(Calls[p])
Finished == Done /\ UNCHANGED vars

Next == \/ \E p \in Processes : Build(p) \/ Kill(p) \/ Restart(p)
        \/ \E n \in Nodes : PowerLoss(n)
        \/ Finished

Spec == Init /\ [][Next]_vars

\* A process that runs goes on, external commands end, and a task that died is
\* started again.
FairSpec == Spec /\ \A p \in Processes : WF_vars(Build(p)) /\ WF_vars(Restart(p))
-----------------------------------------------------------------------------
\* kernel_runtime.hpp:134: a directory in the cache holds a complete kernel.cu
\* and kernel.cubin, made from the code its name was computed from, durable and
\* seen on every node: whoever is killed, and when.
CacheComplete ==
  \A k \in Keys : cacheDir[k] # NoDir =>
    LET d == cacheDir[k]
    IN  /\ made[d] = k
        /\ \A f \in {"cu", "cubin"} : file[d][f] = "complete" /\ synced[d][f]

\* No call ends with the assertion on a corrupted directory or on a directory
\* that is missing after the rename: an exception is the failure of a command.
NoFalseAlarm == \A p \in Processes : result[p] \in {"none", "kernel", "command failed"}

\* A directory in the cache stays as it is; in particular nobody who lost the
\* race removes or replaces the one others load from.
Immutable ==
  [][\A k \in Keys : cacheDir[k] # NoDir =>
       cacheDir'[k] = cacheDir[k] /\ file'[cacheDir[k]] = file[cacheDir[k]]]_vars

\* Every process gets through its calls.
CallsReturn == <>[]Done
=============================================================================
