---------------------------- MODULE JitCacheProofs ----------------------------
(***************************************************************************)
(* What the processes may rely on in the cache directory, for any number   *)
(* of processes, nodes, kernels, calls and faults.                         *)
(***************************************************************************)
EXTENDS JitCache, Integers, TLAPS

Places == {"call", "load", "mkdir", "put", "compile", "compiling", "dump", "sync", "rename",
           "remove", "get", "dead"}

\* Between the creation of a directory and its rename or removal.
Building == {"put", "compile", "compiling", "dump", "sync", "rename", "remove"}

TypeInv ==
  /\ nvrtc \in BOOLEAN
  /\ pc \in [Processes -> Places]
  /\ call \in [Processes -> Nat]
  /\ attempt \in [Processes -> Nat]
  /\ loaded \in [Processes -> SUBSET Keys]
  /\ result \in [Processes -> {"none", "kernel", "command failed", "corrupted", "missing"}]
  /\ cacheDir \in [Keys -> Dirs \cup {NoDir}]
  /\ file \in [Dirs -> [Files -> {"absent", "partial", "complete"}]]
  /\ synced \in [Dirs -> [Files -> BOOLEAN]]
  /\ made \in [Dirs -> Keys \cup {NoDir}]
  /\ faults \in 0 .. MaxFaults

\* A process that is in a call has one.
Calling ==
  \A p \in Processes :
    /\ call[p] >= 1 /\ call[p] <= Len(Calls[p]) + 1
    /\ pc[p] \notin {"call", "dead"} => call[p] <= Len(Calls[p])

\* The directories of so many lives.
Before(lives) == MaxCalls * lives

\* A life makes at most one directory per call, and there are as many lives
\* as faults, and one more.
Budget ==
  \A p \in Processes :
    attempt[p] <= Before(faults)
                  + (IF pc[p] = "dead" THEN 0
                     ELSE IF pc[p] \in {"call", "mkdir"} THEN call[p] - 1 ELSE call[p])

\* Directories a process has yet to create are in no one's cache ...
Fresh ==
  \A k \in Keys : cacheDir[k] # NoDir => cacheDir[k][2] <= attempt[cacheDir[k][1]]

\* ... nor is the one it is building, which was made for its key.
Private ==
  \A p \in Processes : pc[p] \in Building =>
    /\ Tmp(p) \in Dirs
    /\ made[Tmp(p)] = Key(p)
    /\ \A k \in Keys : cacheDir[k] # Tmp(p)

\* What the directory holds by then.
Written ==
  \A p \in Processes :
    /\ pc[p] \in {"compile", "compiling", "dump", "sync", "rename"} =>
         file[Tmp(p)]["cu"] = "complete" /\ synced[Tmp(p)]["cu"]
    /\ pc[p] \in {"dump", "sync", "rename"} => file[Tmp(p)]["cubin"] = "complete"
    /\ pc[p] = "rename" => synced[Tmp(p)]["cubin"]

\* After the rename there is a directory, one's own or another's.
Won == \A p \in Processes : pc[p] \in {"get", "remove", "load"} => cacheDir[Key(p)] # NoDir

IInv == /\ TypeInv /\ Calling /\ Budget /\ Fresh /\ Private /\ Written /\ Won
        /\ CacheComplete /\ NoFalseAlarm

-----------------------------------------------------------------------------
\* Directories are told apart by their processes.
LEMMA DirsApart ==
  ASSUME NEW p \in Processes, NEW q \in Processes, p # q
  PROVE  Tmp(p) # Tmp(q)
  BY DEF Tmp

LEMMA KeyType ==
  ASSUME NEW p \in Processes, call[p] \in Nat, call[p] >= 1, call[p] <= Len(Calls[p])
  PROVE  Key(p) \in Keys
<1>1. Calls[p] \in Seq(Keys)
  BY JitAssumption DEF JitAssumption
<1> QED
  BY <1>1 DEF Key

\* The bound on directories grows by the calls of a life.
LEMMA Lives ==
  ASSUME NEW f \in 0 .. MaxFaults
  PROVE  /\ Before(f) \in Nat
         /\ Before(f + 1) = Before(f) + MaxCalls
         /\ Before(f) + MaxCalls <= MaxCalls * (MaxFaults + 1)
<1>1. MaxCalls \in Nat /\ MaxFaults \in Nat
  BY JitAssumption DEF JitAssumption
<1>2. f \in Nat
  BY <1>1
<1>3. MaxCalls * f <= MaxCalls * MaxFaults
  BY <1>1, <1>2
<1> QED
  BY <1>1, <1>2, <1>3 DEF Before

LEMMA CallsType ==
  ASSUME NEW p \in Processes
  PROVE  Len(Calls[p]) \in Nat /\ MaxCalls \in Nat /\ Len(Calls[p]) <= MaxCalls
  BY JitAssumption DEF JitAssumption

\* What is done to a directory nobody has published is not seen.
LEMMA Unseen ==
  ASSUME IInv, NEW d \in Dirs, \A k \in Keys : cacheDir[k] # d,
         cacheDir' = cacheDir,
         \A e \in Dirs : e # d => file'[e] = file[e] /\ synced'[e] = synced[e] /\ made'[e] = made[e]
  PROVE  CacheComplete'
<1>1. \A k \in Keys : cacheDir[k] # NoDir => cacheDir[k] \in Dirs /\ cacheDir[k] # d
  BY DEF IInv, TypeInv
<1> QED
  BY <1>1 DEF IInv, CacheComplete

LEMMA InitInv == Init => IInv
<1> SUFFICES ASSUME Init PROVE IInv
  OBVIOUS
<1> USE DEF Init
<1>0. MaxFaults \in Nat
  BY JitAssumption DEF JitAssumption
<1>1. TypeInv
  BY <1>0 DEF TypeInv, Places
<1>2. Calling
  BY CallsType DEF Calling
<1>3. Budget
  <2>1. Before(faults) \in Nat
    BY <1>0, Lives
  <2> QED
    BY <2>1 DEF Budget
<1>4. Fresh /\ Private /\ Written /\ Won /\ CacheComplete /\ NoFalseAlarm
  BY DEF Fresh, Private, Building, Written, Won, CacheComplete, NoFalseAlarm
<1> QED
  BY <1>1, <1>2, <1>3, <1>4 DEF IInv

-----------------------------------------------------------------------------

\* A step of p that moves no other process and publishes nothing keeps the
\* bounds, if it keeps them for p.
LEMMA OthersKeep ==
  ASSUME IInv, NEW p \in Processes, NEW where, pc' = [pc EXCEPT ![p] = where],
         UNCHANGED <<attempt, faults>>,
         \A q \in Processes : q # p => call'[q] = call[q],
         call'[p] \in Nat, call'[p] >= 1, call'[p] <= Len(Calls[p]) + 1,
         where \notin {"call", "dead"} => call'[p] <= Len(Calls[p]),
         where # "dead",
         attempt[p] <= Before(faults) + (IF where \in {"call", "mkdir"} THEN call'[p] - 1 ELSE call'[p])
  PROVE  Calling' /\ Budget'
<1>1. pc'[p] = where /\ \A q \in Processes : q # p => pc'[q] = pc[q]
  BY DEF IInv, TypeInv
<1>2. Calling'
  BY <1>1 DEF IInv, Calling
<1>3. Budget'
  BY <1>1 DEF IInv, Budget
<1> QED
  BY <1>2, <1>3

\* In a call a process has room for the directory it may have made in it.
LEMMA RoomInCall ==
  ASSUME IInv, NEW p \in Processes, pc[p] \notin {"call", "dead"} \/ (pc[p] = "call" /\ call[p] <= Len(Calls[p]))
  PROVE  /\ call[p] \in Nat /\ call[p] >= 1 /\ call[p] <= Len(Calls[p])
         /\ Key(p) \in Keys
         /\ Before(faults) \in Nat
         /\ attempt[p] \in Nat
         /\ attempt[p] <= Before(faults) + call[p]
         /\ pc[p] \in {"call", "mkdir"} => attempt[p] <= Before(faults) + call[p] - 1
<1>1. call[p] \in Nat /\ attempt[p] \in Nat
  BY DEF IInv, TypeInv
<1>2. call[p] >= 1 /\ call[p] <= Len(Calls[p])
  BY DEF IInv, Calling
<1>3. Key(p) \in Keys
  BY <1>1, <1>2, KeyType
<1>4. Before(faults) \in Nat
  BY Lives DEF IInv, TypeInv
<1>5. pc[p] # "dead"
  OBVIOUS
<1>6. attempt[p] <= Before(faults) + (IF pc[p] \in {"call", "mkdir"} THEN call[p] - 1 ELSE call[p])
  BY <1>5 DEF IInv, Budget
<1> QED
  BY <1>1, <1>2, <1>3, <1>4, <1>6

\* A step of p that changes no file, no count and no place in the cache.
LEMMA FilesKept ==
  ASSUME IInv, NEW p \in Processes, NEW where, pc' = [pc EXCEPT ![p] = where],
         UNCHANGED <<attempt, fsVars>>,
         \A q \in Processes : q # p => call'[q] = call[q],
         where \notin Building,
         where \in {"get", "remove", "load"} => call'[p] = call[p] /\ cacheDir[Key(p)] # NoDir
  PROVE  Fresh' /\ Private' /\ Written' /\ Won' /\ CacheComplete'
<1>1. pc'[p] = where /\ \A q \in Processes : q # p => pc'[q] = pc[q]
  BY DEF IInv, TypeInv
<1>2. \A q \in Processes : q # p => Key(q)' = Key(q) /\ Tmp(q)' = Tmp(q)
  BY DEF Key, Tmp
<1>3. UNCHANGED <<attempt, cacheDir, file, synced, made>>
  BY DEF fsVars
<1>4. Fresh' /\ CacheComplete'
  BY <1>3 DEF IInv, Fresh, CacheComplete
<1>5. Private'
  BY <1>1, <1>2, <1>3 DEF IInv, Private
<1>6. Written'
  BY <1>1, <1>2, <1>3 DEF IInv, Written, Building
<1>7. Won'
  <2>1. where \in {"get", "remove", "load"} => Key(p)' = Key(p)
    BY DEF Key
  <2> QED
    BY <1>1, <1>2, <1>3, <2>1 DEF IInv, Won
<1> QED
  BY <1>4, <1>5, <1>6, <1>7

LEMMA NextCall ==
  ASSUME NEW p \in Processes, call \in [Processes -> Nat], call' = [call EXCEPT ![p] = @ + 1]
  PROVE  /\ call' \in [Processes -> Nat]
         /\ call'[p] = call[p] + 1
         /\ \A q \in Processes : q # p => call'[q] = call[q]
         /\ call'[p] \in Nat /\ call'[p] >= 1 /\ call'[p] - 1 = call[p]
         /\ \A n \in Nat : call[p] <= n => call'[p] <= n + 1
<1>1. call' \in [Processes -> Nat] /\ call[p] \in Nat /\ call'[p] = call[p] + 1
  OBVIOUS
<1>2. \A q \in Processes : q # p => call'[q] = call[q]
  OBVIOUS
<1> QED
  BY <1>1, <1>2

\* A call ends.
LEMMA Ends ==
  ASSUME IInv, NEW p \in Processes, NEW how \in {"kernel", "command failed"}, Return(p, how),
         pc[p] \notin {"call", "dead"} \/ (pc[p] = "call" /\ call[p] <= Len(Calls[p])),
         loaded' \in [Processes -> SUBSET Keys], UNCHANGED <<nvrtc, attempt, fsVars, faults>>
  PROVE  IInv'
<1>1. /\ pc' = [pc EXCEPT ![p] = "call"]
      /\ call' = [call EXCEPT ![p] = @ + 1]
      /\ result' = [result EXCEPT ![p] = how]
  BY DEF Return, Goto
<1>2. UNCHANGED <<nvrtc, attempt, cacheDir, file, synced, made, faults>>
  BY DEF fsVars
<1>3. TypeInv
  BY DEF IInv
<1>4. TypeInv'
  <2>1. pc' \in [Processes -> Places]
    BY <1>1, <1>3 DEF TypeInv, Places
  <2>2. call' \in [Processes -> Nat]
    BY <1>1, <1>3, NextCall DEF TypeInv
  <2>3. result' \in [Processes -> {"none", "kernel", "command failed", "corrupted", "missing"}]
    BY <1>1, <1>3 DEF TypeInv
  <2> QED
    BY <1>2, <1>3, <2>1, <2>2, <2>3 DEF TypeInv
<1>5. Calling' /\ Budget'
  <2>1. call'[p] = call[p] + 1 /\ \A q \in Processes : q # p => call'[q] = call[q]
    BY <1>1, <1>3, NextCall DEF TypeInv
  <2>2. /\ call[p] \in Nat /\ call[p] >= 1 /\ call[p] <= Len(Calls[p])
        /\ attempt[p] <= Before(faults) + call[p]
    BY RoomInCall
  <2>3. Len(Calls[p]) \in Nat /\ attempt[p] \in Nat /\ Before(faults) \in Nat
    BY CallsType, Lives, <1>3 DEF TypeInv
  <2>4. call'[p] \in Nat /\ call'[p] >= 1 /\ call'[p] <= Len(Calls[p]) + 1 /\ call'[p] - 1 = call[p]
    BY <1>1, <1>3, <2>2, <2>3, NextCall DEF TypeInv
  <2> QED
    BY <1>1, <1>2, <2>1, <2>2, <2>4, OthersKeep
<1>6. Fresh' /\ Private' /\ Written' /\ Won' /\ CacheComplete'
  BY <1>1, <1>2, <1>3, FilesKept DEF Building, fsVars, TypeInv
<1>7. NoFalseAlarm'
  BY <1>1, <1>3 DEF IInv, NoFalseAlarm, TypeInv
<1> QED
  BY <1>4, <1>5, <1>6, <1>7 DEF IInv

\* A process goes on to the next place without a change of anything else.
LEMMA Goes ==
  ASSUME IInv, NEW p \in Processes, NEW where \in {"mkdir", "load"}, Goto(p, where),
         pc[p] \notin {"call", "dead"} \/ (pc[p] = "call" /\ call[p] <= Len(Calls[p])),
         where = "mkdir" => pc[p] = "call",
         where = "load" => cacheDir[Key(p)] # NoDir,
         UNCHANGED <<nvrtc, call, result, attempt, loaded, fsVars, faults>>
  PROVE  IInv'
<1>1. pc' = [pc EXCEPT ![p] = where]
  BY DEF Goto
<1>2. UNCHANGED <<nvrtc, call, result, attempt, loaded, cacheDir, file, synced, made, faults>>
  BY DEF fsVars
<1>3. TypeInv
  BY DEF IInv
<1>4. TypeInv'
  <2>1. pc' \in [Processes -> Places]
    BY <1>1, <1>3 DEF TypeInv, Places
  <2> QED
    BY <1>2, <1>3, <2>1 DEF TypeInv
<1>5. Calling' /\ Budget'
  <2>1. /\ call[p] \in Nat /\ call[p] >= 1 /\ call[p] <= Len(Calls[p])
        /\ attempt[p] <= Before(faults) + call[p]
        /\ pc[p] \in {"call", "mkdir"} => attempt[p] <= Before(faults) + call[p] - 1
    BY RoomInCall
  <2>2. attempt[p] <= Before(faults) + (IF where \in {"call", "mkdir"} THEN call[p] - 1 ELSE call[p])
    <3>1. CASE where = "mkdir"
      <4>1. Before(faults) \in Nat
        BY RoomInCall
      <4> QED
        BY <2>1, <3>1, <4>1
    <3>2. CASE where = "load"
      BY <2>1, <3>2
    <3> QED
      BY <3>1, <3>2
  <2>3. call[p] <= Len(Calls[p]) + 1
    BY <2>1, CallsType
  <2>4. \A q \in Processes : q # p => call'[q] = call[q]
    BY <1>2
  <2> QED
    BY <1>1, <1>2, <2>1, <2>2, <2>3, <2>4, OthersKeep
<1>6. Fresh' /\ Private' /\ Written' /\ Won' /\ CacheComplete'
  BY <1>1, <1>2, FilesKept DEF Building, fsVars
<1>7. NoFalseAlarm'
  BY <1>2 DEF IInv, NoFalseAlarm
<1> QED
  BY <1>4, <1>5, <1>6, <1>7 DEF IInv

\* A process works in its own directory.
LEMMA Builds ==
  ASSUME IInv, NEW p \in Processes, NEW where \in Building, pc[p] \in Building,
         pc' = [pc EXCEPT ![p] = where],
         UNCHANGED <<nvrtc, call, attempt, loaded, result, cacheDir, made, faults>>,
         file' \in [Dirs -> [Files -> {"absent", "partial", "complete"}]],
         synced' \in [Dirs -> [Files -> BOOLEAN]],
         \A d \in Dirs : d # Tmp(p) => file'[d] = file[d] /\ synced'[d] = synced[d],
         where = "remove" => cacheDir[Key(p)] # NoDir,
         where \in {"compile", "compiling", "dump", "sync", "rename"} =>
           file'[Tmp(p)]["cu"] = "complete" /\ synced'[Tmp(p)]["cu"],
         where \in {"dump", "sync", "rename"} => file'[Tmp(p)]["cubin"] = "complete",
         where = "rename" => synced'[Tmp(p)]["cubin"]
  PROVE  IInv'
<1>1. TypeInv /\ pc'[p] = where /\ \A q \in Processes : q # p => pc'[q] = pc[q]
  BY DEF IInv, TypeInv
<1>2. \A q \in Processes : Tmp(q)' = Tmp(q) /\ Key(q)' = Key(q)
  BY DEF Tmp, Key
<1>3. /\ Tmp(p) \in Dirs /\ made[Tmp(p)] = Key(p)
      /\ \A k \in Keys : cacheDir[k] # Tmp(p)
  BY DEF IInv, Private
<1>4. TypeInv'
  <2>1. pc' \in [Processes -> Places]
    BY <1>1 DEF TypeInv, Places, Building
  <2> QED
    BY <1>1, <2>1 DEF TypeInv
<1>5. Calling' /\ Budget'
  <2>1. /\ call[p] \in Nat /\ call[p] >= 1 /\ call[p] <= Len(Calls[p])
        /\ attempt[p] <= Before(faults) + call[p]
    BY RoomInCall DEF Building
  <2>2. call[p] <= Len(Calls[p]) + 1
    BY <2>1, CallsType
  <2>3. attempt[p] <= Before(faults) + (IF where \in {"call", "mkdir"} THEN call[p] - 1 ELSE call[p])
    BY <2>1 DEF Building
  <2>4. where # "dead"
    BY DEF Building
  <2> QED
    BY <2>1, <2>2, <2>3, <2>4, OthersKeep
<1>6. Fresh'
  BY DEF IInv, Fresh
<1>7. Private'
  BY <1>1, <1>2, <1>3 DEF IInv, Private
<1>8. Written'
  <2>1. ASSUME NEW q \in Processes, q # p, pc[q] \in Building
        PROVE  file'[Tmp(q)] = file[Tmp(q)] /\ synced'[Tmp(q)] = synced[Tmp(q)]
    <3>1. Tmp(q) \in Dirs
      BY <2>1 DEF IInv, Private
    <3> QED
      BY <2>1, <3>1, DirsApart
  <2>2. ASSUME NEW q \in Processes, q # p
        PROVE  /\ pc'[q] \in {"compile", "compiling", "dump", "sync", "rename"} =>
                    file'[Tmp(q)]["cu"] = "complete" /\ synced'[Tmp(q)]["cu"]
               /\ pc'[q] \in {"dump", "sync", "rename"} => file'[Tmp(q)]["cubin"] = "complete"
               /\ pc'[q] = "rename" => synced'[Tmp(q)]["cubin"]
    BY <1>1, <2>1, <2>2 DEF IInv, Written, Building
  <2> QED
    BY <1>1, <1>2, <2>2 DEF Written
<1>9. Won'
  BY <1>1, <1>2 DEF IInv, Won, Building
<1>10. CacheComplete'
  BY <1>3, Unseen
<1>11. NoFalseAlarm'
  BY DEF IInv, NoFalseAlarm
<1> QED
  BY <1>4, <1>5, <1>6, <1>7, <1>8, <1>9, <1>10, <1>11 DEF IInv

-----------------------------------------------------------------------------
\* What the process sees of a directory in the cache.
LEMMA SeesAll ==
  ASSUME IInv, NEW p \in Processes, NEW k \in Keys, cacheDir[k] # NoDir, NEW f \in {"cu", "cubin"}
  PROVE  Seen(p, cacheDir[k], f) = "complete" /\ made[cacheDir[k]] = k
  BY DEF IInv, CacheComplete, Seen

LEMMA NeverCorrupted ==
  ASSUME IInv, NEW p \in Processes, cacheDir[Key(p)] # NoDir,
         pc[p] \notin {"call", "dead"} \/ (pc[p] = "call" /\ call[p] <= Len(Calls[p]))
  PROVE  /\ Seen(p, cacheDir[Key(p)], "cu") = "complete"
         /\ Seen(p, cacheDir[Key(p)], "cubin") = "complete"
         /\ made[cacheDir[Key(p)]] = Key(p)
<1>1. Key(p) \in Keys
  BY RoomInCall
<1> QED
  BY <1>1, SeesAll

LEMMA LookupInv ==
  ASSUME IInv, NEW p \in Processes, Lookup(p)
  PROVE  IInv'
<1>1. /\ pc[p] = "call" /\ call[p] <= Len(Calls[p])
      /\ UNCHANGED <<nvrtc, attempt, loaded, fsVars, faults>>
  BY DEF Lookup
<1>2. loaded' \in [Processes -> SUBSET Keys]
  BY <1>1 DEF IInv, TypeInv
<1>3. CASE Return(p, "kernel")
  BY <1>1, <1>2, <1>3, Ends
<1>4. CASE Goto(p, "mkdir") /\ UNCHANGED <<call, result>>
  BY <1>1, <1>4, Goes
<1>5. CASE cacheDir[Key(p)] # NoDir /\ Goto(p, "load") /\ UNCHANGED <<call, result>>
  BY <1>1, <1>5, Goes
<1> QED
  BY <1>1, <1>3, <1>4, <1>5, NeverCorrupted DEF Lookup, Get

LEMMA GetAgainInv ==
  ASSUME IInv, NEW p \in Processes, GetAgain(p)
  PROVE  IInv'
<1>1. pc[p] = "get" /\ UNCHANGED <<nvrtc, attempt, loaded, fsVars, faults>>
  BY DEF GetAgain
<1>2. loaded' \in [Processes -> SUBSET Keys]
  BY <1>1 DEF IInv, TypeInv
<1>3. CASE Return(p, "kernel")
  BY <1>1, <1>2, <1>3, Ends
<1>4. cacheDir[Key(p)] # NoDir
  BY <1>1 DEF IInv, Won
<1>5. CASE Goto(p, "load") /\ UNCHANGED <<call, result>>
  BY <1>1, <1>4, <1>5, Goes
<1> QED
  BY <1>1, <1>3, <1>4, <1>5, NeverCorrupted DEF GetAgain, Get

LEMMA LoadInv ==
  ASSUME IInv, NEW p \in Processes, Load(p)
  PROVE  IInv'
<1>1. pc[p] = "load" /\ UNCHANGED <<nvrtc, attempt, fsVars, faults>>
  BY DEF Load
<1>2. cacheDir[Key(p)] # NoDir
  BY <1>1 DEF IInv, Won
<1>3. CASE loaded' = [loaded EXCEPT ![p] = @ \cup {Key(p)}] /\ Return(p, "kernel")
  <2>1. loaded' \in [Processes -> SUBSET Keys]
    BY <1>1, <1>3, RoomInCall DEF IInv, TypeInv
  <2> QED
    BY <1>1, <1>3, <2>1, Ends
<1>4. CASE loaded' = loaded /\ Return(p, "command failed")
  <2>1. loaded' \in [Processes -> SUBSET Keys]
    BY <1>4 DEF IInv, TypeInv
  <2> QED
    BY <1>1, <1>4, <2>1, Ends
<1> QED
  BY <1>1, <1>2, <1>3, <1>4, NeverCorrupted DEF Load

LEMMA CommandFailsInv ==
  ASSUME IInv, NEW p \in Processes, CommandFails(p)
  PROVE  IInv'
<1>1. /\ pc[p] \in {"compile", "compiling", "dump"} /\ Return(p, "command failed")
      /\ UNCHANGED <<nvrtc, attempt, loaded, fsVars, faults>>
  BY DEF CommandFails
<1>2. loaded' \in [Processes -> SUBSET Keys]
  BY <1>1 DEF IInv, TypeInv
<1> QED
  BY <1>1, <1>2, Ends

LEMMA NextAttempt ==
  ASSUME NEW p \in Processes, attempt \in [Processes -> Nat], attempt' = [attempt EXCEPT ![p] = @ + 1]
  PROVE  /\ attempt' \in [Processes -> Nat]
         /\ attempt'[p] = attempt[p] + 1
         /\ \A q \in Processes : q # p => attempt'[q] = attempt[q]
         /\ \A q \in Processes : \A n \in Nat : n <= attempt[q] => n <= attempt'[q]
  OBVIOUS

LEMMA DirType ==
  ASSUME NEW d \in Dirs
  PROVE  d[1] \in Processes /\ d[2] \in Nat
<1> DEFINE n == MaxCalls * (MaxFaults + 1)
<1>1. n \in Nat
  BY JitAssumption DEF JitAssumption
<1>2. d \in Processes \X (1 .. n)
  BY DEF Dirs
<1> HIDE DEF n
<1> QED
  BY <1>1, <1>2

\* The directory of the next attempt is nobody's yet.
LEMMA MakeTmpDirInv ==
  ASSUME IInv, NEW p \in Processes, MakeTmpDir(p)
  PROVE  IInv'
<1> DEFINE d == <<p, attempt[p] + 1>>
<1>1. /\ pc[p] = "mkdir" /\ pc' = [pc EXCEPT ![p] = "put"]
      /\ attempt' = [attempt EXCEPT ![p] = @ + 1]
      /\ made' = [made EXCEPT ![d] = Key(p)]
      /\ UNCHANGED <<nvrtc, call, loaded, result, cacheDir, file, synced, faults>>
  BY DEF MakeTmpDir, Goto
<1>2. TypeInv
  BY DEF IInv
<1>3. /\ call[p] \in Nat /\ call[p] >= 1 /\ call[p] <= Len(Calls[p]) /\ Key(p) \in Keys
      /\ attempt[p] \in Nat /\ Before(faults) \in Nat
      /\ attempt[p] <= Before(faults) + call[p] - 1
  BY <1>1, RoomInCall
<1>4. /\ attempt' \in [Processes -> Nat] /\ attempt'[p] = attempt[p] + 1
      /\ \A q \in Processes : q # p => attempt'[q] = attempt[q]
  BY <1>1, <1>2, NextAttempt DEF TypeInv
<1>5. pc'[p] = "put" /\ \A q \in Processes : q # p => pc'[q] = pc[q]
  BY <1>1, <1>2 DEF TypeInv
<1>6. d \in Dirs
  <2>1. Before(faults) + MaxCalls <= MaxCalls * (MaxFaults + 1)
    BY <1>2, Lives DEF TypeInv
  <2>2. Len(Calls[p]) \in Nat /\ MaxCalls \in Nat /\ Len(Calls[p]) <= MaxCalls /\ MaxFaults \in Nat
    BY CallsType, JitAssumption DEF JitAssumption
  <2>3. MaxCalls * (MaxFaults + 1) \in Nat
    BY <2>2
  <2>4. attempt[p] + 1 \in 1 .. MaxCalls * (MaxFaults + 1)
    BY <1>3, <2>1, <2>2, <2>3
  <2> QED
    BY <2>4 DEF Dirs
<1>7. \A k \in Keys : cacheDir[k] # d
  <2>1. SUFFICES ASSUME NEW k \in Keys, cacheDir[k] = d PROVE FALSE
    OBVIOUS
  <2>2. d # NoDir
    BY <1>6, JitAssumption DEF JitAssumption
  <2>3. attempt[p] + 1 <= attempt[p]
    BY <2>1, <2>2 DEF IInv, Fresh
  <2> QED
    BY <1>3, <2>3
<1>8. \A q \in Processes : Key(q)' = Key(q) /\ (q # p => Tmp(q)' = Tmp(q))
  BY <1>1, <1>4 DEF Key, Tmp
<1>9. Tmp(p)' = d
  BY <1>4 DEF Tmp
<1>10. \A q \in Processes : q # p => Tmp(q) # d
  BY DEF Tmp
<1> HIDE DEF d
<1>11. /\ made'[d] = Key(p) /\ made' \in [Dirs -> Keys \cup {NoDir}]
       /\ \A e \in Dirs : e # d => made'[e] = made[e]
  BY <1>1, <1>2, <1>3, <1>6 DEF TypeInv
<1>12. TypeInv'
  <2>1. pc' \in [Processes -> Places]
    BY <1>1, <1>2 DEF TypeInv, Places
  <2> QED
    BY <1>1, <1>2, <1>4, <1>11, <2>1 DEF TypeInv
<1>13. Calling'
  BY <1>1, <1>3, <1>5 DEF IInv, Calling
<1>14. Budget'
  <2>1. attempt[p] + 1 <= Before(faults) + call[p]
    BY <1>3
  <2> QED
    BY <1>1, <1>4, <1>5, <2>1 DEF IInv, Budget
<1>15. Fresh'
  <2>1. SUFFICES ASSUME NEW k \in Keys, cacheDir[k] # NoDir
                 PROVE  cacheDir[k][2] <= attempt'[cacheDir[k][1]]
    BY <1>1 DEF Fresh
  <2>2. cacheDir[k] \in Dirs
    BY <1>2, <2>1 DEF TypeInv
  <2>3. cacheDir[k][1] \in Processes /\ cacheDir[k][2] \in Nat
    BY <2>2, DirType
  <2>4. cacheDir[k][2] <= attempt[cacheDir[k][1]]
    BY <2>1 DEF IInv, Fresh
  <2> QED
    BY <1>1, <1>2, <2>3, <2>4, NextAttempt DEF TypeInv
<1>16. Private'
  BY <1>1, <1>5, <1>6, <1>7, <1>8, <1>9, <1>10, <1>11 DEF IInv, Private
<1>17. Written' /\ Won'
  BY <1>1, <1>5, <1>8 DEF IInv, Written, Won
<1>18. CacheComplete'
  BY <1>1, <1>6, <1>7, <1>11, Unseen
<1>19. NoFalseAlarm'
  BY <1>1 DEF IInv, NoFalseAlarm
<1> QED
  BY <1>12, <1>13, <1>14, <1>15, <1>16, <1>17, <1>18, <1>19 DEF IInv

-----------------------------------------------------------------------------
\* A file of the process's directory is written.
LEMMA Writes ==
  ASSUME IInv, NEW p \in Processes, pc[p] \in Building,
         NEW f \in Files, NEW content \in {"absent", "partial", "complete"}, Write(p, f, content)
  PROVE  /\ Tmp(p) \in Dirs
         /\ file' \in [Dirs -> [Files -> {"absent", "partial", "complete"}]]
         /\ \A d \in Dirs : d # Tmp(p) => file'[d] = file[d]
         /\ file'[Tmp(p)][f] = content
         /\ \A g \in Files : g # f => file'[Tmp(p)][g] = file[Tmp(p)][g]
<1>1. Tmp(p) \in Dirs
  BY DEF IInv, Private
<1> QED
  BY <1>1 DEF IInv, TypeInv, Write

LEMMA BuildInv ==
  ASSUME IInv, NEW p \in Processes,
         PutCode(p) \/ StartCubin(p) \/ FinishCubin(p) \/ Dump(p) \/ SyncDir(p)
  PROVE  IInv'
<1>1. pc[p] \in Building
  BY DEF PutCode, StartCubin, FinishCubin, Dump, SyncDir, Building
<1>2. Tmp(p) \in Dirs /\ synced \in [Dirs -> [Files -> BOOLEAN]] /\ nvrtc \in BOOLEAN
  BY <1>1 DEF IInv, Private, TypeInv
<1>3. CASE PutCode(p)
  <2>1. /\ Write(p, "cu", "complete") /\ synced' = [synced EXCEPT ![Tmp(p)]["cu"] = TRUE]
        /\ pc' = [pc EXCEPT ![p] = "compile"]
        /\ UNCHANGED <<nvrtc, call, attempt, loaded, result, cacheDir, made, faults>>
    BY <1>3 DEF PutCode, Goto
  <2>2. synced' \in [Dirs -> [Files -> BOOLEAN]] /\ synced'[Tmp(p)]["cu"]
        /\ \A d \in Dirs : d # Tmp(p) => synced'[d] = synced[d]
    BY <1>2, <2>1 DEF Files
  <2> QED
    BY <1>1, <2>1, <2>2, Writes, Builds DEF Files, Building
<1>4. CASE StartCubin(p)
  <2>1. /\ Write(p, "cubin", "partial") /\ pc[p] = "compile"
        /\ pc' = [pc EXCEPT ![p] = "compiling"]
        /\ UNCHANGED <<nvrtc, call, attempt, loaded, result, cacheDir, synced, made, faults>>
    BY <1>4 DEF StartCubin, Goto
  <2>2. file[Tmp(p)]["cu"] = "complete" /\ synced[Tmp(p)]["cu"]
    BY <2>1 DEF IInv, Written
  <2>3. file'[Tmp(p)]["cu"] = "complete"
    BY <1>1, <2>1, <2>2, Writes DEF Files
  <2> QED
    BY <1>1, <1>2, <2>1, <2>2, <2>3, Writes, Builds DEF Files, Building
<1>5. CASE FinishCubin(p)
  <2>1. /\ Write(p, "cubin", "complete") /\ pc[p] = "compiling"
        /\ synced' = [synced EXCEPT ![Tmp(p)]["cubin"] = nvrtc]
        /\ pc' = [pc EXCEPT ![p] = IF p \in Dumping THEN "dump" ELSE "sync"]
        /\ UNCHANGED <<nvrtc, call, attempt, loaded, result, cacheDir, made, faults>>
    BY <1>5 DEF FinishCubin, Goto
  <2>2. file[Tmp(p)]["cu"] = "complete" /\ synced[Tmp(p)]["cu"]
    BY <2>1 DEF IInv, Written
  <2>3. synced' \in [Dirs -> [Files -> BOOLEAN]] /\ synced'[Tmp(p)]["cu"]
        /\ \A d \in Dirs : d # Tmp(p) => synced'[d] = synced[d]
    BY <1>2, <2>1, <2>2 DEF Files
  <2>4. file'[Tmp(p)]["cu"] = "complete" /\ file'[Tmp(p)]["cubin"] = "complete"
    BY <1>1, <2>1, <2>2, Writes DEF Files
  <2>5. /\ file' \in [Dirs -> [Files -> {"absent", "partial", "complete"}]]
        /\ \A d \in Dirs : d # Tmp(p) => file'[d] = file[d]
    BY <1>1, <2>1, Writes DEF Files
  <2>6. CASE p \in Dumping
    BY <1>1, <2>1, <2>3, <2>4, <2>5, <2>6, Builds DEF Building
  <2>7. CASE p \notin Dumping
    BY <1>1, <2>1, <2>3, <2>4, <2>5, <2>7, Builds DEF Building
  <2> QED
    BY <2>6, <2>7
<1>6. CASE Dump(p)
  <2>1. /\ Write(p, "dump", "complete") /\ pc[p] = "dump"
        /\ pc' = [pc EXCEPT ![p] = "sync"]
        /\ UNCHANGED <<nvrtc, call, attempt, loaded, result, cacheDir, synced, made, faults>>
    BY <1>6 DEF Dump, Goto
  <2>2. /\ file[Tmp(p)]["cu"] = "complete" /\ synced[Tmp(p)]["cu"]
        /\ file[Tmp(p)]["cubin"] = "complete"
    BY <2>1 DEF IInv, Written
  <2>3. file'[Tmp(p)]["cu"] = "complete" /\ file'[Tmp(p)]["cubin"] = "complete"
    BY <1>1, <2>1, <2>2, Writes DEF Files
  <2> QED
    BY <1>1, <1>2, <2>1, <2>2, <2>3, Writes, Builds DEF Files, Building
<1>7. CASE SyncDir(p)
  <2>1. /\ pc[p] = "sync" /\ pc' = [pc EXCEPT ![p] = "rename"]
        /\ synced' = [synced EXCEPT ![Tmp(p)] = [f \in Files |-> file[Tmp(p)][f] # "absent"]]
        /\ UNCHANGED <<nvrtc, call, attempt, loaded, result, cacheDir, file, made, faults>>
    BY <1>7 DEF SyncDir, Goto
  <2>2. file[Tmp(p)]["cu"] = "complete" /\ file[Tmp(p)]["cubin"] = "complete"
    BY <2>1 DEF IInv, Written
  <2>3. /\ synced' \in [Dirs -> [Files -> BOOLEAN]]
        /\ synced'[Tmp(p)]["cu"] /\ synced'[Tmp(p)]["cubin"]
        /\ \A d \in Dirs : d # Tmp(p) => synced'[d] = synced[d]
    BY <1>2, <2>1, <2>2 DEF Files
  <2>4. file' \in [Dirs -> [Files -> {"absent", "partial", "complete"}]]
    BY <2>1 DEF IInv, TypeInv
  <2> QED
    BY <1>1, <2>1, <2>2, <2>3, <2>4, Builds DEF Building
<1> QED
  BY <1>3, <1>4, <1>5, <1>6, <1>7

\* The winner of the race publishes a directory that is complete.
LEMMA RenameInv ==
  ASSUME IInv, NEW p \in Processes, Rename(p)
  PROVE  IInv'
<1>1. /\ pc[p] = "rename"
      /\ UNCHANGED <<nvrtc, call, attempt, loaded, result, file, synced, made, faults>>
  BY DEF Rename
<1>2. /\ Key(p) \in Keys /\ Tmp(p) \in Dirs /\ made[Tmp(p)] = Key(p)
      /\ file[Tmp(p)]["cu"] = "complete" /\ synced[Tmp(p)]["cu"]
      /\ file[Tmp(p)]["cubin"] = "complete" /\ synced[Tmp(p)]["cubin"]
  BY <1>1, RoomInCall DEF IInv, Private, Written, Building
<1>3. CASE cacheDir[Key(p)] # NoDir /\ cacheDir' = cacheDir /\ Goto(p, "remove")
  BY <1>1, <1>2, <1>3, Builds DEF Goto, Building, IInv, TypeInv
<1>4. CASE cacheDir[Key(p)] = NoDir /\ cacheDir' = [cacheDir EXCEPT ![Key(p)] = Tmp(p)] /\ Goto(p, "get")
  <2>1. /\ TypeInv
        /\ pc' = [pc EXCEPT ![p] = "get"]
        /\ cacheDir'[Key(p)] = Tmp(p)
        /\ \A k \in Keys : k # Key(p) => cacheDir'[k] = cacheDir[k]
        /\ cacheDir' \in [Keys -> Dirs \cup {NoDir}]
        /\ Tmp(p) # NoDir
    BY <1>2, <1>4, JitAssumption DEF Goto, IInv, TypeInv, JitAssumption
  <2>2. pc'[p] = "get" /\ \A q \in Processes : q # p => pc'[q] = pc[q]
    BY <2>1 DEF TypeInv
  <2>3. \A q \in Processes : Tmp(q)' = Tmp(q) /\ Key(q)' = Key(q)
    BY <1>1 DEF Tmp, Key
  <2>4. TypeInv'
    <3>1. pc' \in [Processes -> Places]
      BY <2>1 DEF TypeInv, Places
    <3> QED
      BY <1>1, <2>1, <3>1 DEF TypeInv
  <2>5. Calling' /\ Budget'
    <3>1. /\ call[p] \in Nat /\ call[p] >= 1 /\ call[p] <= Len(Calls[p])
          /\ attempt[p] <= Before(faults) + call[p]
      BY <1>1, RoomInCall
    <3>2. call[p] <= Len(Calls[p]) + 1
      BY <3>1, CallsType
    <3> QED
      BY <1>1, <2>1, <3>1, <3>2, OthersKeep
  <2>6. Fresh'
    <3>1. Tmp(p)[1] = p /\ Tmp(p)[2] = attempt[p] /\ attempt[p] \in Nat
      BY <2>1 DEF Tmp, TypeInv
    <3>2. ASSUME NEW k \in Keys, cacheDir'[k] # NoDir
          PROVE  cacheDir'[k][2] <= attempt[cacheDir'[k][1]]
      <4>1. CASE k = Key(p)
        BY <2>1, <3>1, <4>1
      <4>2. CASE k # Key(p)
        BY <2>1, <3>2, <4>2 DEF IInv, Fresh
      <4> QED
        BY <4>1, <4>2
    <3> QED
      BY <1>1, <3>2 DEF Fresh
  <2>7. Private'
    <3>1. ASSUME NEW q \in Processes, pc'[q] \in Building
          PROVE  /\ Tmp(q) \in Dirs /\ made[Tmp(q)] = Key(q)
                 /\ \A k \in Keys : cacheDir'[k] # Tmp(q)
      <4>1. q # p /\ pc[q] \in Building
        BY <2>2, <3>1 DEF Building
      <4> QED
        BY <2>1, <4>1, DirsApart DEF IInv, Private
    <3> QED
      BY <1>1, <2>3, <3>1 DEF Private
  <2>8. Written'
    BY <1>1, <2>2, <2>3 DEF IInv, Written
  <2>9. Won'
    <3>1. ASSUME NEW q \in Processes, pc'[q] \in {"get", "remove", "load"}
          PROVE  cacheDir'[Key(q)] # NoDir
      <4>1. CASE Key(q) = Key(p)
        BY <2>1, <4>1
      <4>2. CASE Key(q) # Key(p)
        <5>1. q # p /\ pc[q] \in {"get", "remove", "load"}
          BY <2>2, <3>1, <4>2
        <5>2. Key(q) \in Keys
          BY <5>1, RoomInCall
        <5> QED
          BY <2>1, <4>2, <5>1, <5>2 DEF IInv, Won
      <4> QED
        BY <4>1, <4>2
    <3> QED
      BY <2>3, <3>1 DEF Won
  <2>10. CacheComplete'
    BY <1>1, <1>2, <2>1 DEF IInv, CacheComplete
  <2>11. NoFalseAlarm'
    BY <1>1 DEF IInv, NoFalseAlarm
  <2> QED
    BY <2>4, <2>5, <2>6, <2>7, <2>8, <2>9, <2>10, <2>11 DEF IInv
<1> QED
  BY <1>3, <1>4 DEF Rename

\* The loser removes its own directory, which nobody sees.
LEMMA RemoveEntryInv ==
  ASSUME IInv, NEW p \in Processes, RemoveEntry(p)
  PROVE  IInv'
<1>1. /\ pc[p] = "remove"
      /\ UNCHANGED <<nvrtc, call, attempt, loaded, result, cacheDir, synced, made, faults>>
  BY DEF RemoveEntry
<1>2. cacheDir[Key(p)] # NoDir
  BY <1>1 DEF IInv, Won
<1>3. ASSUME NEW f \in Files, Write(p, f, "absent"), pc' = pc PROVE IInv'
  <2>1. pc' = [pc EXCEPT ![p] = "remove"]
    BY <1>1, <1>3 DEF IInv, TypeInv
  <2>2. synced' \in [Dirs -> [Files -> BOOLEAN]]
    BY <1>1 DEF IInv, TypeInv
  <2> QED
    BY <1>1, <1>2, <1>3, <2>1, <2>2, Writes, Builds DEF Building
<1>4. CASE Goto(p, "get") /\ file' = file
  <2>1. pc' = [pc EXCEPT ![p] = "get"] /\ UNCHANGED fsVars
    BY <1>1, <1>4 DEF Goto, fsVars
  <2>2. TypeInv'
    <3>1. pc' \in [Processes -> Places]
      BY <2>1 DEF IInv, TypeInv, Places
    <3> QED
      BY <1>1, <1>4, <3>1 DEF IInv, TypeInv
  <2>3. Calling' /\ Budget'
    <3>1. /\ call[p] \in Nat /\ call[p] >= 1 /\ call[p] <= Len(Calls[p])
          /\ attempt[p] <= Before(faults) + call[p]
      BY <1>1, RoomInCall
    <3>2. call[p] <= Len(Calls[p]) + 1
      BY <3>1, CallsType
    <3> QED
      BY <1>1, <2>1, <3>1, <3>2, OthersKeep
  <2>4. Fresh' /\ Private' /\ Written' /\ Won' /\ CacheComplete'
    BY <1>1, <1>2, <2>1, FilesKept DEF Building
  <2>5. NoFalseAlarm'
    BY <1>1 DEF IInv, NoFalseAlarm
  <2> QED
    BY <2>2, <2>3, <2>4, <2>5 DEF IInv
<1> QED
  BY <1>3, <1>4 DEF RemoveEntry

-----------------------------------------------------------------------------
LEMMA OneMore ==
  ASSUME NEW f \in 0 .. MaxFaults, f < MaxFaults
  PROVE  f + 1 \in 0 .. MaxFaults
<1>1. MaxFaults \in Nat
  BY JitAssumption DEF JitAssumption
<1> QED
  BY <1>1

\* Processes die, with all they knew; a new life has room for its calls.
LEMMA Dies ==
  ASSUME IInv, NEW dying \in SUBSET Processes, faults < MaxFaults, faults' = faults + 1,
         pc' = [p \in Processes |-> IF p \in dying THEN "dead" ELSE pc[p]],
         UNCHANGED <<nvrtc, call, attempt, loaded, result, cacheDir, synced, made>>,
         file' \in [Dirs -> [Files -> {"absent", "partial", "complete"}]],
         \A d \in Dirs : \A f \in Files :
           (d[1] \in dying /\ ~synced[d][f]) \/ file'[d][f] = file[d][f]
  PROVE  IInv'
<1>1. /\ TypeInv
      /\ \A p \in dying : pc'[p] = "dead"
      /\ \A p \in Processes : p \notin dying => pc'[p] = pc[p]
  BY DEF IInv
<1>2. \A p \in Processes : Tmp(p)' = Tmp(p) /\ Key(p)' = Key(p)
  BY DEF Tmp, Key
<1>3. TypeInv'
  <2>1. pc' \in [Processes -> Places]
    BY <1>1 DEF TypeInv, Places
  <2>2. faults' \in 0 .. MaxFaults
    <3>1. faults \in 0 .. MaxFaults
      BY <1>1 DEF TypeInv
    <3>2. faults + 1 \in 0 .. MaxFaults
      BY <3>1, OneMore
    <3> QED
      BY <3>2
  <2> QED
    BY <1>1, <2>1, <2>2 DEF TypeInv
<1>4. Calling'
  BY <1>1 DEF IInv, Calling
<1>5. Budget'
  <2>1. /\ Before(faults) \in Nat /\ MaxCalls \in Nat
        /\ Before(faults') = Before(faults) + MaxCalls
    BY <1>1, Lives, JitAssumption DEF TypeInv, JitAssumption
  <2>2. ASSUME NEW p \in Processes
        PROVE  attempt[p] <= Before(faults') + (IF pc'[p] = "dead" THEN 0
                               ELSE IF pc'[p] \in {"call", "mkdir"} THEN call[p] - 1 ELSE call[p])
    <3>1. /\ attempt[p] \in Nat /\ call[p] \in Nat /\ call[p] >= 1 /\ call[p] <= Len(Calls[p]) + 1
          /\ pc[p] \notin {"call", "dead"} => call[p] <= Len(Calls[p])
          /\ Len(Calls[p]) \in Nat /\ Len(Calls[p]) <= MaxCalls
      BY <1>1, CallsType DEF TypeInv, IInv, Calling
    <3>2. attempt[p] <= Before(faults) + (IF pc[p] = "dead" THEN 0
                          ELSE IF pc[p] \in {"call", "mkdir"} THEN call[p] - 1 ELSE call[p])
      BY DEF IInv, Budget
    <3>3. CASE p \in dying
      BY <1>1, <2>1, <3>1, <3>2, <3>3
    <3>4. CASE p \notin dying
      BY <1>1, <2>1, <3>1, <3>2, <3>4
    <3> QED
      BY <3>3, <3>4
  <2> QED
    BY <2>2 DEF Budget, Before
<1>6. Fresh'
  BY DEF IInv, Fresh
<1>7. Private' /\ Won'
  BY <1>1, <1>2 DEF IInv, Private, Won, Building
<1>8. Written'
  <2>1. ASSUME NEW p \in Processes, p \notin dying, pc[p] \in Building
        PROVE  \A f \in Files : file'[Tmp(p)][f] = file[Tmp(p)][f]
    <3>1. Tmp(p) \in Dirs /\ Tmp(p)[1] = p
      BY <2>1 DEF IInv, Private, Tmp
    <3> QED
      BY <2>1, <3>1
  <2> QED
    BY <1>1, <1>2, <2>1 DEF IInv, Written, Building, Files
<1>9. CacheComplete'
  <2>1. \A k \in Keys : cacheDir[k] # NoDir => cacheDir[k] \in Dirs
    BY <1>1 DEF TypeInv
  <2> QED
    BY <2>1 DEF IInv, CacheComplete, Files
<1>10. NoFalseAlarm'
  BY DEF IInv, NoFalseAlarm
<1> QED
  BY <1>3, <1>4, <1>5, <1>6, <1>7, <1>8, <1>9, <1>10 DEF IInv

LEMMA FaultInv ==
  ASSUME IInv, (\E p \in Processes : Kill(p)) \/ (\E n \in Nodes : PowerLoss(n))
  PROVE  IInv'
<1>1. TypeInv
  BY DEF IInv
<1>2. ASSUME NEW p \in Processes, Kill(p) PROVE IInv'
  <2>1. pc' = [q \in Processes |-> IF q \in {p} THEN "dead" ELSE pc[q]]
    BY <1>1, <1>2 DEF Kill, Goto, TypeInv
  <2>2. /\ faults < MaxFaults /\ faults' = faults + 1
        /\ UNCHANGED <<nvrtc, call, attempt, loaded, result, cacheDir, synced, made>>
        /\ file' = file
    BY <1>2 DEF Kill, fsVars
  <2>3. file' \in [Dirs -> [Files -> {"absent", "partial", "complete"}]]
    BY <1>1, <2>2 DEF TypeInv
  <2>4. \A d \in Dirs : \A f \in Files : (d[1] \in {p} /\ ~synced[d][f]) \/ file'[d][f] = file[d][f]
    BY <2>2
  <2>5. {p} \in SUBSET Processes
    OBVIOUS
  <2> HIDE <1>1, <1>2
  <2> QED
    BY <2>1, <2>2, <2>3, <2>4, <2>5, Dies
<1>3. ASSUME NEW n \in Nodes, PowerLoss(n) PROVE IInv'
  <2> DEFINE dying == { p \in Processes : NodeOf[p] = n }
  <2>1. /\ faults < MaxFaults /\ faults' = faults + 1
        /\ UNCHANGED <<nvrtc, call, attempt, loaded, result, cacheDir, synced, made>>
        /\ pc' = [p \in Processes |-> IF p \in dying THEN "dead" ELSE pc[p]]
    BY <1>3 DEF PowerLoss
  <2>2. file' \in [Dirs -> [Files -> {"absent", "partial", "complete"}]]
    BY <1>1, <1>3 DEF PowerLoss, TypeInv
  <2>3. \A d \in Dirs : \A f \in Files : (d[1] \in dying /\ ~synced[d][f]) \/ file'[d][f] = file[d][f]
    BY <1>3, DirType DEF PowerLoss
  <2> HIDE DEF dying
  <2>4. dying \in SUBSET Processes
    BY DEF dying
  <2> QED
    BY <2>1, <2>2, <2>3, <2>4, Dies
<1> QED
  BY <1>2, <1>3

LEMMA RestartInv ==
  ASSUME IInv, NEW p \in Processes, Restart(p)
  PROVE  IInv'
<1>1. /\ pc[p] = "dead" /\ pc' = [pc EXCEPT ![p] = "call"]
      /\ call' = [call EXCEPT ![p] = 1]
      /\ loaded' = [loaded EXCEPT ![p] = {}]
      /\ result' = [result EXCEPT ![p] = "none"]
      /\ UNCHANGED <<nvrtc, attempt, fsVars, faults>>
  BY DEF Restart, Goto
<1>2. TypeInv
  BY DEF IInv
<1>3. call' \in [Processes -> Nat] /\ call'[p] = 1 /\ \A q \in Processes : q # p => call'[q] = call[q]
  BY <1>1, <1>2 DEF TypeInv
<1>4. TypeInv'
  <2>1. pc' \in [Processes -> Places]
    BY <1>1, <1>2 DEF TypeInv, Places
  <2>2. /\ loaded' \in [Processes -> SUBSET Keys]
        /\ result' \in [Processes -> {"none", "kernel", "command failed", "corrupted", "missing"}]
    BY <1>1, <1>2 DEF TypeInv
  <2> QED
    BY <1>1, <1>2, <1>3, <2>1, <2>2 DEF TypeInv, fsVars
<1>5. Calling' /\ Budget'
  <2>1. attempt[p] \in Nat /\ faults \in 0 .. MaxFaults
    BY <1>2 DEF TypeInv
  <2>2. Before(faults) \in Nat
    BY <2>1, Lives
  <2>3. attempt[p] <= Before(faults) + 0
    BY <1>1 DEF IInv, Budget
  <2>4. attempt[p] <= Before(faults) + (1 - 1)
    BY <2>3
  <2>5. Len(Calls[p]) \in Nat
    BY CallsType
  <2>6. call'[p] \in Nat /\ call'[p] >= 1 /\ call'[p] <= Len(Calls[p]) + 1
    BY <1>3, <2>5
  <2>7. attempt[p] <= Before(faults) + (IF "call" \in {"call", "mkdir"} THEN call'[p] - 1 ELSE call'[p])
    BY <1>3, <2>4
  <2>8. UNCHANGED <<attempt, faults>> /\ pc' = [pc EXCEPT ![p] = "call"]
    BY <1>1
  <2>9. \A q \in Processes : q # p => call'[q] = call[q]
    BY <1>3
  <2> QED
    BY <2>6, <2>7, <2>8, <2>9, OthersKeep
<1>6. Fresh' /\ Private' /\ Written' /\ Won' /\ CacheComplete'
  BY <1>1, <1>3, FilesKept DEF Building
<1>7. NoFalseAlarm'
  BY <1>1, <1>2 DEF IInv, NoFalseAlarm, TypeInv
<1> QED
  BY <1>4, <1>5, <1>6, <1>7 DEF IInv

LEMMA StutterInv == IInv /\ UNCHANGED vars => IInv'
<1> SUFFICES ASSUME IInv, UNCHANGED vars PROVE IInv'
  OBVIOUS
<1>1. UNCHANGED <<nvrtc, pc, call, attempt, loaded, result, cacheDir, file, synced, made, faults>>
  BY DEF vars, fsVars
<1>2. \A p \in Processes : Tmp(p)' = Tmp(p) /\ Key(p)' = Key(p)
  BY <1>1 DEF Tmp, Key
<1>3. TypeInv'
  BY <1>1 DEF IInv, TypeInv
<1>4. Calling'
  BY <1>1 DEF IInv, Calling
<1>5. Budget'
  BY <1>1 DEF IInv, Budget, Before
<1>6. Fresh'
  BY <1>1 DEF IInv, Fresh
<1>7. Private'
  BY <1>1, <1>2 DEF IInv, Private
<1>8. Written'
  BY <1>1, <1>2 DEF IInv, Written
<1>9. Won'
  BY <1>1, <1>2 DEF IInv, Won
<1>10. CacheComplete' /\ NoFalseAlarm'
  BY <1>1 DEF IInv, CacheComplete, NoFalseAlarm
<1> QED
  BY <1>3, <1>4, <1>5, <1>6, <1>7, <1>8, <1>9, <1>10 DEF IInv

\* The strengthened invariant is inductive.
LEMMA StepInv == IInv /\ [Next]_vars => IInv'
<1> SUFFICES ASSUME IInv, [Next]_vars PROVE IInv'
  OBVIOUS
<1>1. CASE UNCHANGED vars
  BY <1>1, StutterInv
<1>2. ASSUME NEW p \in Processes, Build(p) PROVE IInv'
  BY <1>2, LookupInv, LoadInv, MakeTmpDirInv, BuildInv, CommandFailsInv, RenameInv, RemoveEntryInv, GetAgainInv
     DEF Build
<1>3. CASE Finished
  BY <1>1, <1>3 DEF Finished
<1> QED
  BY <1>1, <1>2, <1>3, FaultInv, RestartInv DEF Next

-----------------------------------------------------------------------------
LEMMA Invariant == Spec => []IInv
  BY InitInv, StepInv, PTL DEF Spec

\* Whoever is killed, and when, what is visible under a final name is complete,
\* durable and made from the right code (kernel_runtime.hpp:134).
THEOREM AlwaysComplete == Spec => []CacheComplete
<1>1. IInv => CacheComplete
  BY DEF IInv
<1> QED
  BY <1>1, Invariant, PTL

\* The assertions of build and get never fire: a call ends with the kernel or
\* with the failure of an external command.
THEOREM AlarmsAreReal == Spec => []NoFalseAlarm
<1>1. IInv => NoFalseAlarm
  BY DEF IInv
<1> QED
  BY <1>1, Invariant, PTL

-----------------------------------------------------------------------------
\* Nothing in the cache is lost with a node, a dump included.
Durable ==
  /\ \A k \in Keys : cacheDir[k] # NoDir =>
       \A f \in Files : file[cacheDir[k]][f] # "absent" => synced[cacheDir[k]][f]
  /\ \A p \in Processes : pc[p] = "rename" =>
       \A f \in Files : file[Tmp(p)][f] # "absent" => synced[Tmp(p)][f]

\* What a step leaves as it is.
Stays ==
  \A k \in Keys : cacheDir[k] # NoDir =>
    cacheDir'[k] = cacheDir[k] /\ file'[cacheDir[k]] = file[cacheDir[k]]

\* The files are not touched, and nobody comes to rename a directory.
LEMMA QuietStays ==
  ASSUME IInv, Durable, UNCHANGED <<attempt, cacheDir, file, synced>>,
         \A p \in Processes : pc'[p] = "rename" => pc[p] = "rename"
  PROVE  Durable' /\ Stays
<1>1. \A p \in Processes : Tmp(p)' = Tmp(p)
  BY DEF Tmp
<1> QED
  BY <1>1 DEF Durable, Stays

\* A process works in its own directory.
LEMMA BuildStays ==
  ASSUME IInv, Durable, NEW p \in Processes, pc[p] \in Building, UNCHANGED <<attempt, cacheDir>>,
         \A q \in Processes : q # p => pc'[q] = pc[q],
         \A d \in Dirs : d # Tmp(p) => file'[d] = file[d] /\ synced'[d] = synced[d],
         pc'[p] = "rename" => \A f \in Files : file'[Tmp(p)][f] # "absent" => synced'[Tmp(p)][f]
  PROVE  Durable' /\ Stays
<1>1. \A k \in Keys : cacheDir[k] # NoDir => cacheDir[k] \in Dirs /\ cacheDir[k] # Tmp(p)
  BY DEF IInv, TypeInv, Private
<1>2. \A k \in Keys : cacheDir[k] # NoDir =>
        file'[cacheDir[k]] = file[cacheDir[k]] /\ synced'[cacheDir[k]] = synced[cacheDir[k]]
  BY <1>1
<1>3. \A q \in Processes : Tmp(q)' = Tmp(q)
  BY DEF Tmp
<1>4. ASSUME NEW q \in Processes, pc'[q] = "rename"
      PROVE  \A f \in Files : file'[Tmp(q)][f] # "absent" => synced'[Tmp(q)][f]
  <2>1. CASE q = p
    BY <1>4, <2>1
  <2>2. CASE q # p
    <3>1. pc[q] = "rename"
      BY <1>4, <2>2
    <3>2. Tmp(q) \in Dirs /\ Tmp(q) # Tmp(p)
      BY <2>2, <3>1, DirsApart DEF IInv, Private, Building
    <3> QED
      BY <3>1, <3>2 DEF Durable
  <2> QED
    BY <2>1, <2>2
<1>5. Stays
  BY <1>2 DEF Stays
<1>6. Durable'
  BY <1>2, <1>3, <1>4 DEF Durable
<1> QED
  BY <1>5, <1>6

\* The rename takes only a place that is free.
LEMMA RenameStays ==
  ASSUME IInv, Durable, NEW p \in Processes, Rename(p)
  PROVE  Durable' /\ Stays
<1>1. /\ pc[p] = "rename" /\ UNCHANGED <<attempt, file, synced>>
      /\ \A q \in Processes : pc'[q] = "rename" => pc[q] = "rename"
  BY DEF Rename, Goto, IInv, TypeInv
<1>2. CASE cacheDir' = cacheDir
  BY <1>1, <1>2, QuietStays
<1>3. CASE cacheDir[Key(p)] = NoDir /\ cacheDir' = [cacheDir EXCEPT ![Key(p)] = Tmp(p)]
  <2>1. \A k \in Keys : cacheDir'[k] = cacheDir[k] \/ (k = Key(p) /\ cacheDir'[k] = Tmp(p))
    BY <1>3 DEF IInv, TypeInv
  <2>2. \A k \in Keys : cacheDir[k] # NoDir => cacheDir'[k] = cacheDir[k]
    BY <1>3 DEF IInv, TypeInv
  <2>3. \A q \in Processes : Tmp(q)' = Tmp(q)
    BY <1>1 DEF Tmp
  <2>4. Stays
    BY <1>1, <2>2 DEF Stays
  <2>5. Durable'
    BY <1>1, <2>1, <2>3 DEF Durable
  <2> QED
    BY <2>4, <2>5
<1> QED
  BY <1>2, <1>3 DEF Rename

\* The node loses what was not synced, which nobody has published.
LEMMA LossStays ==
  ASSUME IInv, Durable, NEW n \in Nodes, PowerLoss(n)
  PROVE  Durable' /\ Stays
<1>1. /\ UNCHANGED <<attempt, cacheDir, synced>>
      /\ \A p \in Processes : pc'[p] = "rename" => pc[p] = "rename"
  BY DEF PowerLoss
<1>2. \A d \in Dirs : \A f \in Files :
        /\ synced[d][f] => file'[d][f] = file[d][f]
        /\ file[d][f] = "absent" => file'[d][f] = "absent"
        /\ file'[d][f] # "absent" => file[d][f] # "absent"
  BY DEF PowerLoss
<1>3. file' \in [Dirs -> [Files -> {"absent", "partial", "complete"}]]
  BY DEF PowerLoss, IInv, TypeInv
<1>4. \A k \in Keys : cacheDir[k] # NoDir => cacheDir[k] \in Dirs
  BY DEF IInv, TypeInv
<1>5. ASSUME NEW k \in Keys, cacheDir[k] # NoDir
      PROVE  file'[cacheDir[k]] = file[cacheDir[k]]
  <2>1. \A f \in Files : file'[cacheDir[k]][f] = file[cacheDir[k]][f]
    BY <1>2, <1>4, <1>5 DEF Durable
  <2>2. file[cacheDir[k]] \in [Files -> {"absent", "partial", "complete"}]
    BY <1>4, <1>5 DEF IInv, TypeInv
  <2>3. file'[cacheDir[k]] \in [Files -> {"absent", "partial", "complete"}]
    BY <1>3, <1>4, <1>5
  <2> QED
    BY <2>1, <2>2, <2>3
<1>6. ASSUME NEW p \in Processes, pc'[p] = "rename"
      PROVE  \A f \in Files : file'[Tmp(p)][f] # "absent" => synced[Tmp(p)][f]
  <2>1. pc[p] = "rename" /\ Tmp(p) \in Dirs
    BY <1>1, <1>6 DEF IInv, Private, Building
  <2> QED
    BY <1>2, <2>1 DEF Durable
<1>7. \A p \in Processes : Tmp(p)' = Tmp(p)
  BY <1>1 DEF Tmp
<1>8. Stays
  BY <1>1, <1>5 DEF Stays
<1>9. Durable'
  BY <1>1, <1>5, <1>6, <1>7 DEF Durable
<1> QED
  BY <1>8, <1>9

LEMMA WorkStays ==
  ASSUME IInv, Durable, NEW p \in Processes,
         PutCode(p) \/ StartCubin(p) \/ FinishCubin(p) \/ Dump(p) \/ SyncDir(p) \/ RemoveEntry(p)
  PROVE  Durable' /\ Stays
<1>1. pc[p] \in Building /\ UNCHANGED <<attempt, cacheDir>>
  BY DEF PutCode, StartCubin, FinishCubin, Dump, SyncDir, RemoveEntry, Building
<1>2. \A q \in Processes : q # p => pc'[q] = pc[q]
  BY DEF PutCode, StartCubin, FinishCubin, Dump, SyncDir, RemoveEntry, Goto, IInv, TypeInv
<1>3. file \in [Dirs -> [Files -> {"absent", "partial", "complete"}]]
      /\ synced \in [Dirs -> [Files -> BOOLEAN]] /\ Tmp(p) \in Dirs
  BY <1>1 DEF IInv, TypeInv, Private
<1>4. \A d \in Dirs : d # Tmp(p) => file'[d] = file[d]
  BY <1>3 DEF PutCode, StartCubin, FinishCubin, Dump, SyncDir, RemoveEntry, Write
<1>5. \A d \in Dirs : d # Tmp(p) => synced'[d] = synced[d]
  BY <1>3 DEF PutCode, StartCubin, FinishCubin, Dump, SyncDir, RemoveEntry
<1>6. ASSUME pc'[p] = "rename"
      PROVE  \A f \in Files : file'[Tmp(p)][f] # "absent" => synced'[Tmp(p)][f]
  <2>1. SyncDir(p)
    BY <1>6 DEF PutCode, StartCubin, FinishCubin, Dump, RemoveEntry, Goto, IInv, TypeInv
  <2> QED
    BY <1>3, <2>1 DEF SyncDir
<1> QED
  BY <1>1, <1>2, <1>4, <1>5, <1>6, BuildStays

\* All other steps leave the files alone.
LEMMA OtherStays ==
  ASSUME IInv, Durable, NEW p \in Processes,
         \/ Lookup(p) \/ Load(p) \/ CommandFails(p) \/ GetAgain(p) \/ Kill(p) \/ Restart(p)
  PROVE  Durable' /\ Stays
<1>1. UNCHANGED <<attempt, cacheDir, file, synced>>
  BY DEF Lookup, Load, CommandFails, GetAgain, Kill, Restart, fsVars
<1>2. \A q \in Processes : pc'[q] = "rename" => pc[q] = "rename"
  BY DEF Lookup, Load, CommandFails, GetAgain, Kill, Restart, Get, Return, Goto, IInv, TypeInv
<1> QED
  BY <1>1, <1>2, QuietStays

LEMMA MakeTmpDirStays ==
  ASSUME IInv, Durable, NEW p \in Processes, MakeTmpDir(p)
  PROVE  Durable' /\ Stays
<1>1. UNCHANGED <<cacheDir, file, synced>>
  BY DEF MakeTmpDir
<1>2. \A q \in Processes : pc'[q] = "rename" => pc[q] = "rename" /\ q # p
  BY DEF MakeTmpDir, Goto, IInv, TypeInv
<1>3. \A q \in Processes : q # p => attempt'[q] = attempt[q]
  BY DEF MakeTmpDir, IInv, TypeInv
<1>4. \A q \in Processes : q # p => Tmp(q)' = Tmp(q)
  BY <1>3 DEF Tmp
<1> QED
  BY <1>1, <1>2, <1>4 DEF Durable, Stays

LEMMA StepStays == IInv /\ Durable /\ [Next]_vars => Durable' /\ Stays
<1> SUFFICES ASSUME IInv, Durable, [Next]_vars PROVE Durable' /\ Stays
  OBVIOUS
<1>1. CASE UNCHANGED vars
  BY <1>1, QuietStays DEF vars, fsVars
<1>2. ASSUME NEW p \in Processes, Build(p) PROVE Durable' /\ Stays
  BY <1>2, WorkStays, OtherStays, RenameStays, MakeTmpDirStays DEF Build
<1>3. CASE Finished
  BY <1>1, <1>3 DEF Finished
<1> QED
  BY <1>1, <1>2, <1>3, OtherStays, LossStays DEF Next

\* Nobody removes, replaces or damages a directory others load from: not the
\* process that lost the race, nor a process or node that dies.
THEOREM NeverTouched == Spec => Immutable
<1>1. Init => Durable
  BY DEF Init, Durable
<1>2. IInv /\ Durable /\ [Next]_vars => Durable'
  BY StepStays
<1>3. IInv /\ Durable /\ [Next]_vars => [Stays]_vars
  BY StepStays
<1>4. Spec => []Durable
  BY <1>1, <1>2, Invariant, PTL DEF Spec
<1>5. Spec => [][Stays]_vars
  BY <1>3, <1>4, Invariant, PTL DEF Spec
<1> QED
  BY <1>5 DEF Immutable, Stays
=============================================================================
