------------------------ MODULE ResearchStoreProofs ------------------------
(***************************************************************************)
(* Proofs about ResearchStore.  Every step belongs to one call unless two  *)
(* executions overlap; then the temporary file is the caller's alone, and  *)
(* what the call merged is what the store still holds when it is written.  *)
(***************************************************************************)
EXTENDS ResearchStore, TLAPS

(* The outcome of a merge is a record. *)
LEMMA MergeType ==
  ASSUME NEW old \in Records, NEW patch \in {Creation} \cup {Patch(s) : s \in Statuses \ {"absent"}}
  PROVE  Merge(old, patch) \in Records
  BY DEF Merge, Records, Statuses, Creation, Patch

(* The patches the callers make are patches of the register. *)
LEMMA PatchesAre == Patches \subseteq {Creation} \cup {Patch(s) : s \in Statuses \ {"absent"}}
<1> SUFFICES ASSUME NEW patch \in Patches
             PROVE  patch \in {Creation} \cup {Patch(s) : s \in Statuses \ {"absent"}}
  OBVIOUS
<1>1. patch = Creation \/ \E s \in Statuses \ {"absent"} : patch = Patch(s)
  BY DEF Patches, Statuses
<1> QED BY <1>1

(* get_task returns a record whatever tier answers. *)
LEMMA GetTaskType ==
  ASSUME TypeOK, NEW p \in Procs, NEW answers \in BOOLEAN PROVE GetTask(p, answers) \in Records
<1>1. Disk \in Records
  BY DEF TypeOK, Disk, Records, Absent, Statuses
<1> QED BY <1>1 DEF GetTask, TypeOK

(* A call keeps the types: set_task up to the write *)
LEMMA CallType ==
  ASSUME TypeOK, UNCHANGED faults, NEW p \in Procs, NEW patch \in Patches, Call(p, patch)
  PROVE  TypeOK'
<1>1. merged' \in [Procs -> Records]
  <2>1. PICK answers \in Answers : merged' = [merged EXCEPT ![p] = Merge(GetTask(p, answers), patch)]
    BY DEF Call
  <2>2. Merge(GetTask(p, answers), patch) \in Records
    BY GetTaskType, MergeType, PatchesAre DEF Answers
  <2> QED BY <2>1, <2>2 DEF TypeOK
<1>2. told' \in Records /\ kept' \in Records
  <2>1. Said(patch) = Merge(told, patch)
    BY DEF Said, Merge
  <2> QED BY <2>1, MergeType, PatchesAre DEF Call, TypeOK
<1>3. \A q \in Procs : pc'[q] \in {"open", "fill", "replace"} => merged'[q].status = "completed"
  BY DEF Call, TypeOK
<1>4. \A q \in Procs : pc'[q] = "fill" <=> fd'[q] # None
  BY DEF Call, TypeOK, fileVars
<1> QED BY <1>1, <1>2, <1>3, <1>4 DEF Call, TypeOK, fileVars

(* Every step keeps the types. *)
LEMMA StepType == ASSUME TypeOK, [Next]_vars PROVE TypeOK'
<1> USE ProcsAssumption DEF fileVars, callVars, ghostVars
<1>0. Absent \in Records /\ Torn \notin Records
  BY DEF Absent, Torn, Records, Statuses
<1>f. UNCHANGED faults
  BY DEF Next, vars
<1>1. ASSUME NEW p \in Procs, Write(p) PROVE TypeOK'
  BY <1>f, <1>0, <1>1 DEF TypeOK, Write, AfterWrite, Return
<1>2. ASSUME NEW p \in Procs, WriteLocal(p) PROVE TypeOK'
  BY <1>f, <1>0, <1>2 DEF TypeOK, WriteLocal, AfterWrite, Return
<1>3. ASSUME NEW p \in Procs, Open(p) PROVE TypeOK'
  BY <1>f, <1>3 DEF TypeOK, Open
<1>4. ASSUME NEW p \in Procs, Fill(p) PROVE TypeOK'
  BY <1>f, <1>4 DEF TypeOK, Fill
<1>5. ASSUME NEW p \in Procs, Replace(p) PROVE TypeOK'
  BY <1>f, <1>0, <1>5 DEF TypeOK, Replace, Return
<1>6. ASSUME NEW p \in Procs, DiskError(p) PROVE TypeOK'
  BY <1>f, <1>0, <1>6 DEF TypeOK, DiskError, Return
<1>7. ASSUME NEW p \in Procs, Crash(p) PROVE TypeOK'
  BY <1>f, <1>0, <1>7 DEF TypeOK, Crash, Return
<1>8. CASE Expire
  BY <1>f, <1>0, <1>8 DEF TypeOK, Expire
<1>9. CASE UNCHANGED vars
  BY <1>9 DEF TypeOK, vars
<1>10. ASSUME NEW p \in Procs, SetTask(p) PROVE TypeOK'
  <2>1. ASSUME NEW patch \in Patches, Call(p, patch) PROVE TypeOK'
    BY <1>f, <2>1, CallType
  <2> QED BY <2>1, <1>1, <1>2, <1>3, <1>4, <1>5, <1>6, <1>10 DEF SetTask
<1> QED BY <1>7, <1>8, <1>9, <1>10 DEF Next

(* The initial state is well typed. *)
LEMMA InitType == Init => TypeOK
<1>1. Absent \in Records
  BY DEF Absent, Records, Statuses
<1> QED BY <1>1, ProcsAssumption DEF Init, TypeOK

(* The tiers, files and calls keep their shape whatever goes wrong. *)
THEOREM StoreTypeCorrect == Spec => []TypeOK
  BY InitType, StepType, PTL DEF Spec

-----------------------------------------------------------------------------
(* One call at a time, and the temporary file is that call's alone: it is   *)
(* never the file readers open, and it is whole when it is renamed.         *)
FilesInv ==
  /\ TypeOK /\ "overlap" \notin faults
  /\ \A p, q \in Procs : pc[p] # "idle" /\ pc[q] # "idle" => p = q
  /\ path # None => data[path] # Torn
  /\ tmp # None => tmp # path
  /\ \A p \in Procs : pc[p] = "fill" => tmp # None /\ fd[p] = tmp
  /\ \A p \in Procs : pc[p] = "replace" => tmp # None /\ data[tmp] # Torn

(* Without overlapping executions every step keeps FilesInv. *)
LEMMA FilesStep ==
  ASSUME FilesInv, [Next]_vars PROVE FilesInv'
<1> USE ProcsAssumption DEF fileVars, callVars, ghostVars, FilesInv
<1>0. TypeOK' /\ UNCHANGED faults
  BY StepType DEF Next, vars
<1>t. Torn \notin Records
  BY DEF Torn, Records, Statuses
<1>1. ASSUME NEW p \in Procs, NEW patch \in Patches, Call(p, patch) PROVE FilesInv'
  BY <1>0, <1>1 DEF TypeOK, Call
<1>2. ASSUME NEW p \in Procs, Write(p) \/ WriteLocal(p) PROVE FilesInv'
  BY <1>0, <1>2 DEF TypeOK, Write, WriteLocal, AfterWrite, Return
<1>3. ASSUME NEW p \in Procs, Open(p) PROVE FilesInv'
  BY <1>0, <1>3 DEF TypeOK, Open, Free
<1>4. ASSUME NEW p \in Procs, Fill(p) PROVE FilesInv'
  BY <1>0, <1>t, <1>4 DEF TypeOK, Fill
<1>5. ASSUME NEW p \in Procs, Replace(p) PROVE FilesInv'
  BY <1>0, <1>5 DEF TypeOK, Replace, Return
<1>6. ASSUME NEW p \in Procs, DiskError(p) \/ Crash(p) PROVE FilesInv'
  BY <1>0, <1>6 DEF TypeOK, DiskError, Crash, Return
<1>7. CASE Expire
  BY <1>0, <1>7 DEF Expire
<1>8. CASE UNCHANGED vars
  BY <1>0, <1>8 DEF vars
<1> QED BY <1>1, <1>2, <1>3, <1>4, <1>5, <1>6, <1>7, <1>8 DEF Next, SetTask

(* _persist_to_disk is atomic for readers, through Redis outages, disk      *)
(* errors, crashes and repeated executions, as long as no two overlap.      *)
THEOREM NoTornReadHolds == Spec => []NoTornRead
<1> DEFINE I == "overlap" \in faults \/ FilesInv
<1>1. Init => I
  BY InitType DEF Init, FilesInv
<1>2. I /\ [Next]_vars => I'
  BY FilesStep DEF Next, vars
<1>3. I => NoTornRead
  BY DEF FilesInv, NoTornRead
<1> QED BY <1>1, <1>2, <1>3, PTL DEF Spec

-----------------------------------------------------------------------------
Value == GetTask(Api, TRUE)

RegisterPatches == {Creation} \cup {Patch(s) : s \in Statuses \ {"absent"}}

Persisting(p) == pc[p] \in {"open", "fill", "replace"}

(* Between calls the store holds what has been said, and the durable copy  *)
(* is the last completed record; while a completed one is being copied, or *)
(* about to be written, the copy may still be an older one.                *)
AgreeInv ==
  /\ FilesInv /\ Healthy
  /\ Quiet => Value = told
  /\ \A p \in Procs : pc[p] = "write" =>
       /\ merged[p] = told
       /\ \E patch \in RegisterPatches : merged[p] = Merge(Value, patch)
  /\ \A p \in Procs : Persisting(p) => redis = told /\ merged[p] = told
  /\ \A p \in Procs : pc[p] = "replace" => data[tmp] = told
  /\ told.status = "completed" => kept = told
  /\ Quiet \/ told.status # "completed" => Disk = kept

(* A merged record is a record somebody set: it is not the empty one. *)
LEMMA MergedIsSet ==
  ASSUME NEW old, NEW patch \in RegisterPatches
  PROVE  /\ Merge(old, patch) # Absent /\ Merge(old, patch).status = patch.status
         /\ patch.status # "absent"
  BY DEF Merge, Absent, RegisterPatches, Creation, Patch, Statuses

(* A call reads the value and merges its patch into it. *)
LEMMA CallAgrees ==
  ASSUME AgreeInv, Healthy', FilesInv',
         NEW p \in Procs, NEW patch \in Patches, Call(p, patch)
  PROVE  AgreeInv' /\ Value' = Value /\ Copied' = Copied
<1> USE DEF AgreeInv, FilesInv
<1>0. FilesInv'
  OBVIOUS
<1>1. Quiet /\ Disk = kept
  BY DEF Call, Healthy, Quiet
<1>2. Answers = {TRUE}
  BY DEF Healthy, Answers
<1>3. GetTask(p, TRUE) = Value
  BY DEF GetTask, Value
<1>4. Value' = Value /\ Disk' = Disk
  BY DEF Value, GetTask, Disk, Call, fileVars
<1>5. merged'[p] = told' /\ told' = Merge(Value, patch)
  <2>1. told' = Merge(told, patch) /\ told = Value
    BY <1>1 DEF Call, Said, Merge
  <2>2. PICK answers \in Answers : merged' = [merged EXCEPT ![p] = Merge(GetTask(p, answers), patch)]
    BY DEF Call
  <2>3. answers = TRUE
    BY <1>2
  <2>4. merged'[p] = Merge(GetTask(p, TRUE), patch)
    BY <2>2, <2>3 DEF TypeOK
  <2> QED BY <1>3, <2>1, <2>4
<1>6. pc' = [pc EXCEPT ![p] = "write"] /\ path' = path /\ data' = data /\ tmp' = tmp
  BY DEF Call, fileVars
<1>7. \A q \in Procs : pc'[q] = "write" => q = p
  BY <1>1, <1>6 DEF TypeOK, Quiet
<1>8. \A q \in Procs : ~Persisting(q) /\ ~Persisting(q)'
  BY <1>1, <1>6 DEF TypeOK, Quiet, Persisting
<1>9. ~Quiet'
  BY <1>6 DEF Quiet, TypeOK
<1>10. kept' = IF told'.status = "completed" THEN told' ELSE kept
  <2>1. told'.status = patch.status
    BY <1>5 DEF Merge
  <2> QED BY <2>1 DEF Call
<1>11. patch \in RegisterPatches
  BY PatchesAre DEF RegisterPatches
<1>12. \A q \in Procs : pc'[q] = "write" =>
         /\ merged'[q] = told'
         /\ \E x \in RegisterPatches : merged'[q] = Merge(Value, x)'
  BY <1>4, <1>5, <1>7, <1>11 DEF Merge
<1>13. \A q \in Procs : pc'[q] # "replace"
  BY <1>8 DEF Persisting
<1>14. Copied' = Copied
  BY <1>4, <1>8 DEF Copied, Persisting
<1> QED BY <1>0, <1>1, <1>4, <1>8, <1>9, <1>10, <1>12, <1>13, <1>14

(* What a write does to the register: it is one of its steps. *)
Sets(patch) ==
  /\ Value' = Merge(Value, patch)
  /\ Copied' = IF patch.status = "completed" THEN Value' ELSE Copied

(* The write puts the merged record in force. *)
LEMMA WriteAgrees ==
  ASSUME AgreeInv, Healthy', FilesInv', NEW p \in Procs, Write(p)
  PROVE  AgreeInv' /\ \E patch \in RegisterPatches : Sets(patch)
<1> USE DEF AgreeInv, FilesInv
<1>1. pc[p] = "write" /\ redis' = told /\ merged[p] = told
  BY DEF Write
<1>2. PICK patch \in RegisterPatches : told = Merge(Value, patch)
  BY <1>1
<1>3. told # Absent /\ told.status = patch.status
  BY <1>2, MergedIsSet
<1>4. told' = told /\ kept' = kept /\ path' = path /\ data' = data /\ tmp' = tmp
  BY DEF Write, fileVars, ghostVars
<1>5. Value' = told /\ Disk' = Disk
  BY <1>1, <1>3, <1>4 DEF Value, GetTask, Disk
<1>6. \A q \in Procs \ {p} : pc[q] = "idle" /\ pc'[q] = "idle"
  BY <1>1 DEF Write, AfterWrite, Return, TypeOK
<1>7. Copied = Disk
  BY <1>1, <1>6 DEF Copied
<1>8. CASE told.status = "completed"
  <2>1. pc'[p] = "open" /\ merged'[p] = told
    BY <1>1, <1>8 DEF Write, AfterWrite, TypeOK
  <2>2. ~Quiet' /\ Copied' = told
    BY <1>1, <2>1 DEF Quiet, Copied
  <2>3. \A q \in Procs : pc'[q] \notin {"write", "replace"}
    BY <2>1, <1>6
  <2>4. \A q \in Procs : Persisting(q)' => redis' = told' /\ merged'[q] = told'
    BY <2>1, <1>6, <1>1, <1>4 DEF Persisting
  <2>5. AgreeInv'
    BY <1>4, <1>8, <2>2, <2>3, <2>4
  <2>6. Sets(patch)
    BY <1>2, <1>3, <1>5, <1>8, <2>2 DEF Sets
  <2> QED BY <2>5, <2>6
<1>9. CASE told.status # "completed"
  <2>1. pc'[p] = "idle"
    BY <1>1, <1>9 DEF Write, AfterWrite, Return, TypeOK
  <2>2. \A q \in Procs : pc'[q] = "idle"
    BY <2>1, <1>6
  <2>3. Copied' = Disk
    BY <1>5, <2>2 DEF Copied
  <2>4. AgreeInv'
    BY <1>4, <1>5, <1>9, <2>2 DEF Quiet, Persisting
  <2>5. Sets(patch)
    BY <1>2, <1>3, <1>5, <1>7, <1>9, <2>3 DEF Sets
  <2> QED BY <2>4, <2>5
<1> QED BY <1>8, <1>9

(* Writing the durable copy changes nothing a reader can see. *)
LEMMA PersistAgrees ==
  ASSUME AgreeInv, Healthy', FilesInv', NEW p \in Procs, Open(p) \/ Fill(p) \/ Replace(p)
  PROVE  AgreeInv' /\ Value' = Value /\ Copied' = Copied
<1> USE DEF AgreeInv, FilesInv
<1>1. /\ Persisting(p) /\ redis = told /\ merged[p] = told /\ told.status = "completed"
      /\ kept = told /\ told \in Records
  BY DEF Persisting, Open, Fill, Replace, TypeOK
<1>2. redis' = redis /\ told' = told /\ kept' = kept /\ redis # Absent
  BY <1>1 DEF Open, Fill, Replace, ghostVars, Absent
<1>3. Value' = Value /\ Value = told
  BY <1>1, <1>2 DEF Value, GetTask
<1>4. \A q \in Procs \ {p} : pc[q] = "idle" /\ pc'[q] = "idle"
  BY <1>1 DEF Persisting, Open, Fill, Replace, Return, TypeOK
<1>5. Copied = told
  BY <1>1 DEF Copied, Persisting
<1>6. ASSUME pc'[p] \in {"fill", "replace"} PROVE ~Quiet' /\ Copied' = Copied
  BY <1>1, <1>2, <1>5, <1>6 DEF Quiet, Copied
<1>7. CASE Open(p)
  <2>1. pc'[p] = "fill"
    BY <1>7 DEF Open, TypeOK
  <2> QED BY <1>1, <1>2, <1>3, <1>4, <1>6, <1>7, <2>1 DEF Open, Persisting, TypeOK
<1>8. CASE Fill(p)
  <2>1. pc'[p] = "replace"
    BY <1>8 DEF Fill, TypeOK
  <2>2. data'[tmp'] = told
    BY <1>1, <1>8 DEF Fill, TypeOK
  <2> QED BY <1>1, <1>2, <1>3, <1>4, <1>6, <1>8, <2>1, <2>2 DEF Fill, Persisting, TypeOK
<1>9. CASE Replace(p)
  <2>1. path' = tmp /\ tmp # None /\ data' = data /\ data[tmp] = told
    BY <1>9 DEF Replace
  <2>2. \A q \in Procs : pc'[q] = "idle"
    BY <1>4, <1>9 DEF Replace, Return, TypeOK
  <2>3. Disk' = told
    BY <1>1, <2>1 DEF Disk, Records, Torn, Statuses
  <2>4. Copied' = Copied
    BY <1>5, <2>2, <2>3 DEF Copied
  <2> QED BY <1>1, <1>2, <1>3, <2>2, <2>3, <2>4 DEF Persisting
<1> QED BY <1>7, <1>8, <1>9

(* After expiry the durable copy is what every process reads. *)
LEMMA ExpireAgrees ==
  ASSUME AgreeInv, Healthy', FilesInv', Expire
  PROVE  AgreeInv' /\ Value' = Copied /\ Copied' = Copied
<1> USE DEF AgreeInv, FilesInv
<1>1. /\ Quiet /\ redis' = Absent /\ told' = kept /\ kept' = kept
      /\ path' = path /\ data' = data /\ tmp' = tmp /\ pc' = pc
  BY DEF Expire, Quiet, fileVars, callVars
<1>2. Disk = kept /\ Disk' = Disk
  BY <1>1 DEF Disk
<1>3. Value' = Disk'
  BY <1>1 DEF Value, GetTask
<1>4. Copied = Disk /\ Copied' = Disk
  BY <1>1, <1>2 DEF Copied, Quiet
<1> QED BY <1>1, <1>2, <1>3, <1>4 DEF Quiet, Persisting

(* Every healthy step keeps the agreement and is a step of the register. *)
LEMMA StepAgrees ==
  ASSUME AgreeInv, [Next]_vars
  PROVE  /\ AgreeInv'
         /\ \/ Value' = Value /\ Copied' = Copied
            \/ \E patch \in RegisterPatches : Sets(patch)
            \/ Value' = Copied /\ Copied' = Copied
<1>0. FilesInv' /\ Healthy'
  BY FilesStep DEF AgreeInv, Healthy, Next, vars
<1>1. ASSUME NEW p \in Procs, NEW patch \in Patches, Call(p, patch)
      PROVE  AgreeInv' /\ Value' = Value /\ Copied' = Copied
  BY <1>0, <1>1, CallAgrees
<1>2. ASSUME NEW p \in Procs, Write(p)
      PROVE  AgreeInv' /\ \E patch \in RegisterPatches : Sets(patch)
  BY <1>0, <1>2, WriteAgrees
<1>3. ASSUME NEW p \in Procs, Open(p) \/ Fill(p) \/ Replace(p)
      PROVE  AgreeInv' /\ Value' = Value /\ Copied' = Copied
  BY <1>0, <1>3, PersistAgrees
<1>4. ASSUME NEW p \in Procs PROVE ~WriteLocal(p) /\ ~DiskError(p) /\ ~Crash(p)
  BY DEF AgreeInv, Healthy, WriteLocal, DiskError, Crash
<1>5. CASE Expire
  BY <1>0, <1>5, ExpireAgrees
<1>6. CASE UNCHANGED vars
  <2>1. Value' = Value /\ Copied' = Copied /\ Disk' = Disk
    BY <1>6 DEF vars, Value, GetTask, Disk, Copied
  <2> QED BY <1>0, <1>6, <2>1 DEF vars, AgreeInv, Quiet, Persisting, Merge
<1>7. ASSUME NEW p \in Procs, SetTask(p)
      PROVE  /\ AgreeInv'
             /\ \/ Value' = Value /\ Copied' = Copied
                \/ \E patch \in RegisterPatches : Sets(patch)
  <2>1. CASE \E patch \in Patches : Call(p, patch)
    BY <1>1, <2>1
  <2> QED BY <1>2, <1>3, <1>4, <1>7, <2>1 DEF SetTask
<1>8. CASE \E p \in Procs : SetTask(p)
  BY <1>7, <1>8
<1> QED BY <1>4, <1>5, <1>6, <1>8 DEF Next

(* The agreement holds at the start. *)
LEMMA InitAgrees == Init /\ Healthy => AgreeInv
<1> SUFFICES ASSUME Init, Healthy PROVE AgreeInv
  OBVIOUS
<1>1. FilesInv
  BY InitType DEF Init, FilesInv, Healthy
<1> QED BY <1>1 DEF Init, AgreeInv, Quiet, Persisting, Value, GetTask, Disk, Absent

(* What holds in every behaviour: the agreement, where nothing else fails. *)
HealthyAgrees == Healthy => AgreeInv

(* Every step keeps it. *)
LEMMA AgreesAlways == Spec => []HealthyAgrees
<1>1. Init => HealthyAgrees
  BY InitAgrees DEF HealthyAgrees
<1>2. HealthyAgrees /\ [Next]_vars => HealthyAgrees'
  BY StepAgrees DEF HealthyAgrees, Healthy, Next, vars
<1> QED BY <1>1, <1>2, PTL DEF Spec

(* Between calls every process reads what the calls have said, whatever     *)
(* repeated executions wrote: nothing is lost between the tiers when the    *)
(* key expires.                                                             *)
THEOREM ReadsLatestHolds == Spec => []ReadsLatest
<1>1. HealthyAgrees => ReadsLatest
  BY DEF HealthyAgrees, AgreeInv, ReadsLatest, Value, GetTask
<1> QED BY <1>1, AgreesAlways, PTL

(* The tiers together are one atomic record.                                *)
THEOREM StoreIsRegister == Spec => Refines
<1> DEFINE value == IF Healthy THEN GetTask(Api, TRUE) ELSE Absent
           copied == IF Healthy THEN Copied ELSE Absent
<1>1. Init => Register!Init
  BY DEF Init, Register!Init, Register!Nothing, GetTask, Disk, Copied, Absent
<1>2. HealthyAgrees /\ [Next]_vars => [Register!Next]_<<value, copied>>
  <2> SUFFICES ASSUME HealthyAgrees, [Next]_vars
               PROVE  [Register!Next]_<<value, copied>>
    OBVIOUS
  <2>1. Healthy' <=> Healthy
    BY DEF Healthy, Next, vars
  <2>2. CASE ~Healthy
    BY <2>1, <2>2
  <2>3. CASE Healthy
    <3>1. value = Value /\ value' = Value' /\ copied = Copied /\ copied' = Copied'
      BY <2>1, <2>3 DEF Value
    <3>2. CASE Value' = Value /\ Copied' = Copied
      BY <3>1, <3>2
    <3>3. CASE \E patch \in RegisterPatches : Sets(patch)
      <4>1. PICK patch \in RegisterPatches : Sets(patch)
        BY <3>3
      <4>2. Register!Set(patch)
        BY <2>1, <2>3, <4>1 DEF Value, Sets, Merge, Register!Set, Register!Merge
      <4> QED BY <4>1, <4>2 DEF RegisterPatches, Register!Next
    <3>4. CASE Value' = Copied /\ Copied' = Copied
      BY <2>1, <2>3, <3>4 DEF Value, Register!Next, Register!Forget
    <3> QED BY <2>3, <3>2, <3>3, <3>4, StepAgrees DEF HealthyAgrees
  <2> QED BY <2>2, <2>3
<1> QED BY <1>1, <1>2, AgreesAlways, PTL DEF Spec, Refines, Register!Spec

-----------------------------------------------------------------------------
(* When Redis fails too, the durable copy still follows the calls: a call   *)
(* that completes the task is on its way to a completed copy.               *)
DurableInv ==
  /\ FilesInv /\ faults \subseteq {"redis", "expiry", "redo"}
  /\ \A p \in Procs : pc[p] = "write" => merged[p].status = told.status
  /\ \A p \in Procs : Persisting(p) => told.status = "completed"
  /\ \A p \in Procs : pc[p] = "replace" => data[tmp].status = "completed"
  /\ path # None => data[path].status = "completed"
  /\ (Quiet \/ told.status # "completed") /\ kept # Absent => path # None

(* Every step without crashes and disk errors keeps it. *)
LEMMA DurableStep ==
  ASSUME DurableInv, [Next]_vars
  PROVE  DurableInv'
<1> USE DEF DurableInv, FilesInv
<1>0. FilesInv' /\ UNCHANGED faults
  BY FilesStep DEF Next, vars
<1>1. ASSUME NEW p \in Procs, NEW patch \in Patches, Call(p, patch) PROVE DurableInv'
  <2>1. /\ merged'[p].status = patch.status /\ told'.status = patch.status
        /\ told'.status # "completed" => kept' = kept
    BY <1>1 DEF Call, Said, Merge, TypeOK
  <2>2. pc' = [pc EXCEPT ![p] = "write"] /\ path' = path /\ data' = data /\ Quiet
    BY <1>1 DEF Call, Quiet, fileVars
  <2>3. \A q \in Procs \ {p} : pc[q] = "idle" /\ pc'[q] = "idle"
    BY <1>1, <2>2 DEF Call, TypeOK
  <2>4. pc'[p] = "write"
    BY <2>2 DEF TypeOK
  <2> QED BY <1>0, <2>1, <2>2, <2>3, <2>4 DEF Quiet, Persisting
<1>2. ASSUME NEW p \in Procs, Write(p) \/ WriteLocal(p) PROVE DurableInv'
  <2>1. pc[p] = "write" /\ told' = told /\ kept' = kept /\ path' = path /\ data' = data
    BY <1>2 DEF Write, WriteLocal, fileVars, ghostVars
  <2>2. \A q \in Procs \ {p} : pc[q] = "idle" /\ pc'[q] = "idle"
    BY <1>2, <2>1 DEF Write, WriteLocal, AfterWrite, Return, TypeOK
  <2>3. IF told.status = "completed" THEN pc'[p] = "open" ELSE pc'[p] = "idle"
    BY <1>2, <2>1 DEF Write, WriteLocal, AfterWrite, Return, TypeOK
  <2> QED BY <1>0, <2>1, <2>2, <2>3 DEF Quiet, Persisting
<1>3. ASSUME NEW p \in Procs, Open(p) \/ Fill(p) PROVE DurableInv'
  <2>1. Persisting(p) /\ told' = told /\ path' = path /\ pc'[p] \in {"fill", "replace"}
    BY <1>3 DEF Open, Fill, Persisting, ghostVars, TypeOK
  <2>2. \A q \in Procs \ {p} : pc[q] = "idle" /\ pc'[q] = "idle"
    BY <1>3, <2>1 DEF Open, Fill, Persisting, TypeOK
  <2>3. path # None => data'[path] = data[path]
    BY <1>3, ProcsAssumption DEF Open, Fill, Free, TypeOK
  <2>4. pc'[p] = "replace" => data'[tmp'].status = "completed"
    BY <1>3 DEF Open, Fill, TypeOK
  <2> QED BY <1>0, <2>1, <2>2, <2>3, <2>4 DEF Quiet, Persisting
<1>4. ASSUME NEW p \in Procs, Replace(p) PROVE DurableInv'
  <2>1. path' = tmp /\ tmp # None /\ data' = data /\ told' = told /\ pc[p] = "replace"
    BY <1>4 DEF Replace, ghostVars
  <2>2. \A q \in Procs : pc'[q] = "idle"
    BY <1>4 DEF Replace, Return, TypeOK
  <2> QED BY <1>0, <2>1, <2>2 DEF Persisting
<1>5. ASSUME NEW p \in Procs PROVE ~DiskError(p) /\ ~Crash(p)
  BY DEF DiskError, Crash
<1>6. CASE Expire
  BY <1>0, <1>6 DEF Expire, fileVars, callVars, Quiet, Persisting, Absent
<1>7. CASE UNCHANGED vars
  BY <1>0, <1>7 DEF vars, Quiet, Persisting
<1>8. ASSUME NEW p \in Procs, SetTask(p) PROVE DurableInv'
  <2>1. CASE \E patch \in Patches : Call(p, patch)
    BY <1>1, <2>1
  <2> QED BY <1>2, <1>3, <1>4, <1>5, <1>8, <2>1 DEF SetTask
<1> QED BY <1>5, <1>6, <1>7, <1>8 DEF Next

(* A set_task(completed) that has returned left a durable completed answer, *)
(* whether or not Redis took any of its writes, and it stays.               *)
THEOREM FinishedIsDurableHolds == Spec => []FinishedIsDurable
<1> DEFINE I == faults \subseteq {"redis", "expiry", "redo"} => DurableInv
<1>1. Init => I
  <2> SUFFICES ASSUME Init, faults \subseteq {"redis", "expiry", "redo"} PROVE DurableInv
    OBVIOUS
  <2>1. FilesInv
    BY InitType DEF Init, FilesInv
  <2> QED BY <2>1 DEF Init, DurableInv, Persisting, Quiet, Absent
<1>2. I /\ [Next]_vars => I'
  BY DurableStep DEF Next, vars
<1>3. I => FinishedIsDurable
  BY DEF DurableInv, FilesInv, FinishedIsDurable, Disk
<1> QED BY <1>1, <1>2, <1>3, PTL DEF Spec

=============================================================================
