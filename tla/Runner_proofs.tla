---------------------------- MODULE Runner_proofs ----------------------------
(* The gates hold and a forced run stands on its own, for any number of runs of  *)
(* any stages, killed anywhere, and any number of visitors at the GPU.            *)
EXTENDS Runner, WellFoundedInduction, TLAPS

\* What a stage leaves: the run it was made in, and whether it is good.
Records == [run : 0..run, ok : BOOLEAN]

\* Only what is written in place can be cut off.
TypeOK ==
    /\ pc \in Steps \union {"rest", "crashed"}
    /\ stage \in Arguments /\ force \in BOOLEAN
    /\ run \in Nat
    /\ gate \in BOOLEAN /\ others \in BOOLEAN
    /\ disk \in [Files -> Records \union {NoFile, Torn}]
    /\ \A k \in Files \ Measured : disk[k] # Torn

\* This run has step s behind it.
Done(s) == pc \in Steps /\ s \in StepsOf(stage) /\ Place[s] < Place[pc]

\* A call runs the steps of its argument only.
OnCourse == pc \in Steps => pc \in StepsOf(stage)

\* What every run knows that has come this far.
Gates ==
    /\ Done("audit") => Good("audit")
    /\ Done("pack") => Exists("sidecar")
    /\ Done("verify") => Good("verification")
    /\ Done("before") => disk["before"] = Result(TRUE)

\* A forced run of all stages.
ForcedAll == force /\ stage = "all"

\* What a forced run of all stages has written itself.
Fresh ==
    ForcedAll =>
        /\ Done("audit") => disk["audit"].run = run
        /\ Done("pack") => disk["sidecar"].run = run
        /\ Done("packing") => disk["packing"].run = run
        /\ Done("verify") => disk["verification"].run = run /\ disk["sidecar"].ok
        /\ \A k \in Measured \union {"after"} : Done(k) => disk[k] = Result(TRUE)

\* What the verdict of such a run rests on.
FreshFiles == Inputs \union {"sidecar", "packing", "before"}

\* The verdict is the last thing such a run does.
Concluded ==
    ForcedAll /\ Exists("analysis") /\ disk["analysis"].run = run =>
        /\ pc = "rest"
        /\ \A k \in FreshFiles : disk[k].run = run
        /\ disk["analysis"].ok => disk["sidecar"].ok

\* The inductive invariant.
IInv == TypeOK /\ OnCourse /\ Gates /\ Fresh /\ Concluded /\ ForcedRunRecovers

----------------------------------------------------------------------------
(* The order of the steps. *)

\* The steps have different places.
LEMMA Places ==
    /\ Steps = {"download", "audit", "pack", "packing", "verify", "before", "bridge",
                "v0", "v1", "after", "reports"}
    /\ \A s \in Steps : Place[s] \in Nat
    /\ \A s, t \in Steps : Place[s] = Place[t] => s = t
  BY DEF Steps, Place

\* A set of steps has a first one.
LEMMA FirstStep ==
    ASSUME NEW S \in SUBSET Steps, S # {}
    PROVE  First(S) \in S /\ \A t \in S : Place[First(S)] <= Place[t]
  <1> DEFINE P == {Place[s] : s \in S}
  <1>1. P \subseteq Nat /\ P # {}
    <2>1. \A s \in S : Place[s] \in Nat
      BY Places
    <2>2. PICK s \in S : TRUE
      OBVIOUS
    <2> QED
      BY <2>1, <2>2
  <1>2. PICK p \in P : \A q \in P : ~(<<q, p>> \in OpToRel(<, Nat))
    BY <1>1, NatLessThanWellFounded, WFMin
  <1>3. PICK s \in S : p = Place[s]
    BY <1>2
  <1>4. ASSUME NEW t \in S
        PROVE  Place[s] <= Place[t]
    <2>1. Place[s] \in Nat /\ Place[t] \in Nat
      BY Places
    <2>2. Place[t] < Place[s] => <<Place[t], p>> \in OpToRel(<, Nat)
      BY <1>3, <2>1 DEF OpToRel
    <2>3. ~(Place[t] < Place[s])
      BY <1>2, <1>3, <2>2
    <2> QED
      BY <2>1, <2>3
  <1> QED
    BY <1>3, <1>4 DEF First

\* A step is followed by the next one of the call, or by none.
LEMMA NextStep ==
    ASSUME pc \in Steps, pc' = Advance, UNCHANGED stage
    PROVE  /\ pc' \in Steps \union {"rest"}
           /\ OnCourse'
           /\ \A s : Done(s)' => Done(s) \/ s = pc
  <1> DEFINE ahead == {s \in StepsOf(stage) : Place[s] > Place[pc]}
  <1>1. ahead \in SUBSET Steps /\ ahead \subseteq StepsOf(stage)
    BY DEF StepsOf
  <1>2. Advance = IF ahead = {} THEN "rest" ELSE First(ahead)
    BY DEF Advance
  <1>3. \A t \in StepsOf(stage) : Place[t] > Place[pc] => t \in ahead
    OBVIOUS
  <1> HIDE DEF ahead
  <1>4. CASE ahead = {}
    <2>1. pc' = "rest" /\ "rest" \notin Steps
      BY <1>2, <1>4, Places
    <2> QED
      BY <2>1 DEF OnCourse, Done
  <1>5. CASE ahead # {}
    <2>1. pc' \in ahead /\ \A t \in ahead : Place[pc'] <= Place[t]
      BY <1>1, <1>2, <1>5, FirstStep
    <2>2. OnCourse' /\ pc' \in Steps
      BY <1>1, <2>1 DEF OnCourse, StepsOf, RunsIn, Part
    <2>3. ASSUME NEW s, Done(s)'
          PROVE  Done(s) \/ s = pc
      <3>1. s \in Steps /\ s \in StepsOf(stage) /\ Place[s] < Place[pc']
        BY <2>3 DEF Done, StepsOf, RunsIn, Part
      <3>2. ~(Place[s] > Place[pc])
        <4>1. SUFFICES ASSUME Place[s] > Place[pc] PROVE FALSE
          OBVIOUS
        <4>2. Place[pc'] <= Place[s]
          BY <1>3, <2>1, <3>1, <4>1
        <4> QED
          BY <2>2, <3>1, <4>2, Places
      <3>3. Place[s] < Place[pc] \/ Place[s] = Place[pc]
        BY <3>1, <3>2, Places
      <3> QED
        BY <3>1, <3>3, Places DEF Done
    <2> QED
      BY <2>2, <2>3
  <1> QED
    BY <1>4, <1>5

\* A run that has ended has nothing behind it.
LEMMA Halted ==
    ASSUME pc' \in {"rest", "crashed"}
    PROVE  OnCourse' /\ Gates' /\ Fresh'
  <1>1. pc' \notin Steps
    BY Places
  <1> QED
    BY <1>1 DEF OnCourse, Gates, Fresh, Done, Measured

\* A run on its way has not given its verdict.
LEMMA StillOpen ==
    ASSUME Concluded, pc \in Steps, UNCHANGED call, disk'["analysis"] = disk["analysis"]
    PROVE  Concluded'
  <1>1. pc # "rest"
    BY Places
  <1> QED
    BY <1>1 DEF Concluded, call, Exists, ForcedAll

\* A result of this run may stand in any file.
LEMMA WriteTypeOK ==
    ASSUME TypeOK, NEW k \in Files, NEW b \in BOOLEAN, disk' = [disk EXCEPT ![k] = Result(b)],
           UNCHANGED <<call, gate>>, others' \in BOOLEAN,
           pc' \in Steps \union {"rest", "crashed"}
    PROVE  TypeOK'
  <1>1. Records' = Records /\ Result(b) \in Records
    BY DEF TypeOK, Records, Result, call
  <1>2. Result(b) # Torn
    BY <1>1, RunnerAssumption DEF Records, TypeOK
  <1> QED
    BY <1>1, <1>2 DEF TypeOK, call

\* A marker is never mistaken for a result.
LEMMA Marked ==
    ASSUME TypeOK, NEW b \in BOOLEAN
    PROVE  /\ \A r \in Records : r # NoFile /\ r # Torn /\ r.run \in 0..run /\ r.ok \in BOOLEAN
           /\ Result(b) \in Records /\ Result(b).run = run /\ Result(b).ok = b
  <1>1. Records \subseteq [run : Nat, ok : BOOLEAN]
    BY DEF TypeOK, Records
  <1>2. \A r \in Records : r # NoFile /\ r # Torn
    BY <1>1, RunnerAssumption
  <1>3. Result(b) \in Records
    BY DEF TypeOK, Records, Result
  <1> QED
    BY <1>2, <1>3 DEF Records, Result

----------------------------------------------------------------------------
(* One lemma for each action. *)

\* main
LEMMA StartStep ==
    ASSUME IInv, NEW arg \in Arguments, NEW f \in BOOLEAN, Start(arg, f)
    PROVE  IInv'
  <1> USE DEF IInv, Start
  <1>1. StepsOf(arg) \in SUBSET Steps /\ StepsOf(arg) # {}
    <2>1. \E s \in Steps : arg \in RunsIn(Part(s))
      <3>1. arg \in RunsIn(Part(CASE arg = "download" -> "download" [] arg = "audit" -> "audit"
                                  [] arg = "pack" -> "pack" [] arg = "verify" -> "verify"
                                  [] arg = "cuda" -> "before" [] OTHER -> "reports"))
        BY RunnerAssumption DEF RunsIn, Part
      <3> QED
        BY <3>1, Places, RunnerAssumption
    <2> QED
      BY <2>1 DEF StepsOf
  <1>2. pc' \in StepsOf(arg) /\ \A t \in StepsOf(arg) : Place[pc'] <= Place[t]
    BY <1>1, FirstStep
  <1>3. \A s : ~Done(s)'
    <2> SUFFICES ASSUME NEW s, Done(s)' PROVE FALSE
      OBVIOUS
    <2>1. s \in StepsOf(arg) /\ Place[s] < Place[pc']
      BY DEF Done, StepsOf, RunsIn, Part
    <2> QED
      BY <1>1, <1>2, <2>1, Places
  <1>4. TypeOK'
    BY <1>1, <1>2 DEF TypeOK, gpu, Records
  <1>5. OnCourse'
    BY <1>2 DEF OnCourse, StepsOf, RunsIn, Part
  <1>6. Gates' /\ Fresh'
    BY <1>3 DEF Gates, Fresh, Done
  \* What is on the disk is of an earlier run.
  <1>7. Concluded'
    <2>1. disk["analysis"] \in Records \union {NoFile}
      BY DEF TypeOK, Files, Measured
    <2>2. Exists("analysis") => disk["analysis"].run # run + 1
      BY <2>1 DEF Exists, Records, TypeOK
    <2> QED
      BY <2>2 DEF Concluded, Exists
  <1>8. ForcedRunRecovers'
    BY <1>1, <1>2, Places DEF ForcedRunRecovers
  <1> QED
    BY <1>4, <1>5, <1>6, <1>7, <1>8

\* An exception that nobody catches, or a kill, where no file is half written.
LEMMA KillStep ==
    ASSUME IInv, Kill
    PROVE  IInv'
  <1> USE DEF IInv, Kill
  <1>1. TypeOK'
    BY DEF TypeOK, call, gpu, Records
  <1>2. pc \in Steps
    BY DEF TypeOK, Idle
  <1>3. Concluded'
    BY <1>2, StillOpen
  <1>4. ForcedRunRecovers'
    BY DEF ForcedRunRecovers
  <1> QED
    BY <1>1, <1>3, <1>4, Halted

\* A kill leaves cut off what is written in place, and nothing else.
LEMMA KillWritingStep ==
    ASSUME IInv, KillWriting
    PROVE  IInv'
  <1> USE DEF IInv, KillWriting
  <1>1. TypeOK'
    BY DEF TypeOK, call, gpu, Records, Measured, Files
  <1>2. Concluded'
    BY StillOpen, Places DEF Measured, TypeOK, Files
  <1>3. ForcedRunRecovers'
    BY DEF ForcedRunRecovers
  <1> QED
    BY <1>1, <1>2, <1>3, Halted

\* Other processes come to the GPU and leave it.
LEMMA VisitorStep ==
    ASSUME IInv, Arrive \/ Leave
    PROVE  IInv'
  <1>1. UNCHANGED <<pc, call, disk>> /\ gate' = gate /\ others' \in BOOLEAN
    BY DEF Arrive, Leave
  <1>2. TypeOK'
    BY <1>1 DEF IInv, TypeOK, call, Records
  <1>3. UNCHANGED <<OnCourse, Gates, Fresh, Concluded, ForcedRunRecovers>>
    BY <1>1 DEF call, OnCourse, Gates, Fresh, Concluded, ForcedRunRecovers, Done, StepsOf,
                Good, Parses, Exists, ForcedAll, Result
  <1> QED
    BY <1>2, <1>3 DEF IInv

\* A new download touches no result.
LEMMA DownloadStep ==
    ASSUME IInv, Download
    PROVE  IInv'
  <1> USE DEF IInv, Download
  <1>1. pc \in Steps
    BY Places
  <1>2. /\ pc' \in Steps \union {"rest"}
        /\ OnCourse'
        /\ \A s : Done(s)' => Done(s) \/ s = pc
    BY <1>1, NextStep DEF call
  <1>3. TypeOK'
    BY <1>2 DEF TypeOK, call, gpu, Records
  <1>4. Gates' /\ Fresh'
    BY <1>2 DEF Gates, Fresh, Good, Parses, Exists, ForcedAll, Result, call, Measured
  <1>5. Concluded'
    BY <1>1, StillOpen
  <1>6. ForcedRunRecovers'
    BY <1>2, Places DEF ForcedRunRecovers
  <1> QED
    BY <1>2, <1>3, <1>4, <1>5, <1>6

\* InvalidExperiment: the run ends, and run_status.json says so.
LEMMA Invalidated ==
    ASSUME IInv, pc \in Steps, NEW files, Invalidate(files), UNCHANGED <<call, gate>>,
           others' \in BOOLEAN,
           files = disk \/ \E k \in Files \ {"analysis"}, b \in BOOLEAN :
                              files = [disk EXCEPT ![k] = Result(b)]
    PROVE  IInv'
  <1> USE DEF IInv, Invalidate
  <1>1. TypeOK'
    <2>1. files \in [Files -> Records \union {NoFile, Torn}] /\ \A k \in Files \ Measured : files[k] # Torn
      <3>1. CASE files = disk
        BY <3>1 DEF TypeOK
      <3>2. ASSUME NEW k \in Files, NEW b \in BOOLEAN, files = [disk EXCEPT ![k] = Result(b)]
            PROVE  /\ files \in [Files -> Records \union {NoFile, Torn}]
                   /\ \A l \in Files \ Measured : files[l] # Torn
        BY <3>2, Marked DEF TypeOK
      <3> QED
        BY <3>1, <3>2
    <2>2. /\ disk' \in [Files -> Records \union {NoFile, Torn}]
          /\ \A k \in Files \ Measured : disk'[k] # Torn
      BY <2>1, Marked
    <2> QED
      BY <2>2 DEF TypeOK, Records, call
  <1>2. disk'["analysis"] = disk["analysis"]
    BY DEF TypeOK, Files
  <1>3. Concluded'
    BY <1>2, StillOpen
  <1>4. ForcedRunRecovers'
    BY DEF ForcedRunRecovers
  <1> QED
    BY <1>1, <1>3, <1>4, Halted

\* _audit: a gate that does not pass ends the run.
LEMMA AuditStep ==
    ASSUME IInv, Audit
    PROVE  IInv'
  <1> DEFINE audit == IF Forced("audit") \/ ~Exists("audit") THEN Result(gate) ELSE disk["audit"]
             files == [disk EXCEPT !["audit"] = audit]
  <1>1. /\ pc = "audit" /\ pc \in Steps /\ UNCHANGED <<call, gate>> /\ others' \in BOOLEAN
        /\ gate \in BOOLEAN /\ "audit" \in Files
    BY Places DEF Audit, gpu, IInv, TypeOK, Files
  <1>2. audit \in Records /\ (ForcedAll => audit.run = run)
    BY Marked DEF IInv, TypeOK, Exists, ForcedAll, Forced, Files, Measured
  <1>3. files = disk \/ \E b \in BOOLEAN : files = [disk EXCEPT !["audit"] = Result(b)]
    BY <1>1 DEF IInv, TypeOK
  <1>4. CASE audit.ok
    <2>1. disk' = files /\ pc' = Advance
      BY <1>4 DEF Audit
    <2>2. /\ pc' \in Steps \union {"rest"}
          /\ OnCourse'
          /\ \A s : Done(s)' => Done(s) \/ s = pc
      BY <1>1, <2>1, NextStep DEF call
    <2>3. TypeOK'
      <3>1. CASE files = disk
        BY <1>1, <2>1, <2>2, <3>1 DEF IInv, TypeOK, call, Records
      <3>2. CASE files # disk
        BY <1>1, <1>3, <2>1, <2>2, <3>2, WriteTypeOK DEF IInv
      <3> QED
        BY <3>1, <3>2
    <2>4. /\ disk'["audit"] = audit
          /\ \A k \in Files \ {"audit"} : disk'[k] = disk[k]
      BY <2>1 DEF IInv, TypeOK, Files
    <2>5. audit # NoFile /\ audit # Torn
      BY <1>2, Marked DEF IInv
    <2> HIDE DEF audit, files
    <2>6. Gates'
      BY <1>1, <1>4, <2>2, <2>4, <2>5 DEF IInv, Gates, Good, Parses, Exists, Result, call, Files
    <2>7. Fresh'
      BY <1>1, <1>2, <2>2, <2>4 DEF IInv, Fresh, ForcedAll, Result, call, Files, Measured
    <2>8. Concluded'
      BY <1>1, <2>4, StillOpen DEF IInv, Files
    <2>9. ForcedRunRecovers'
      BY <2>2, Places DEF ForcedRunRecovers
    <2> QED
      BY <2>2, <2>3, <2>6, <2>7, <2>8, <2>9 DEF IInv
  <1>5. CASE ~audit.ok
    <2>1. Invalidate(files)
      BY <1>5 DEF Audit
    <2> HIDE DEF files
    <2> QED
      BY <1>1, <1>3, <2>1, Invalidated
  <1> QED
    BY <1>4, <1>5

\* pack_model: the sidecar is replaced, the record of it is not written yet.
LEMMA PackSidecarStep ==
    ASSUME IInv, PackSidecar
    PROVE  IInv'
  <1>1. PICK lossless \in BOOLEAN : disk' = [disk EXCEPT !["sidecar"] = Result(lossless)]
    BY DEF PackSidecar
  <1>2. pc = "pack" /\ pc' = "packing" /\ UNCHANGED <<call, gate>> /\ others' \in BOOLEAN
    BY DEF PackSidecar, IInv, TypeOK, gpu
  <1>3. pc \in Steps /\ pc' \in Steps /\ Place["packing"] = 4 /\ Place["pack"] = 3
    BY <1>2, Places DEF Place
  <1>4. OnCourse'
    BY <1>2, <1>3 DEF IInv, OnCourse, StepsOf, Part, RunsIn, call
  <1>5. ASSUME NEW s, Done(s)'
        PROVE  Done(s) \/ s = "pack"
    <2>1. s \in Steps /\ s \in StepsOf(stage) /\ Place[s] < Place["packing"]
      BY <1>2, <1>5 DEF Done, call, StepsOf, RunsIn, Part
    <2>2. Place[s] < Place["pack"] \/ Place[s] = Place["pack"]
      BY <1>3, <2>1, Places
    <2> QED
      BY <1>2, <1>3, <2>1, <2>2, Places DEF Done
  <1>6. /\ disk'["sidecar"] = Result(lossless)
        /\ \A k \in Files \ {"sidecar"} : disk'[k] = disk[k]
    BY <1>1 DEF IInv, TypeOK, Files
  <1>7. /\ Result(lossless).run = run /\ Result(lossless) # NoFile
    BY Marked DEF IInv
  <1>8. TypeOK'
    BY <1>1, <1>2, <1>3, WriteTypeOK DEF IInv, Files
  \* Nothing is verified yet.
  <1>9. ~Done("verify")' /\ ~Done("packing")'
    BY <1>2, <1>3, Places DEF Done, Place
  <1>10. Gates'
    BY <1>2, <1>5, <1>6, <1>7, <1>9 DEF IInv, Gates, Good, Parses, Exists, Result, call, Files
  <1>11. Fresh'
    BY <1>2, <1>5, <1>6, <1>7, <1>9 DEF IInv, Fresh, ForcedAll, Result, call, Files, Measured
  <1>12. Concluded'
    BY <1>2, <1>3, <1>6, StillOpen DEF IInv, Files
  <1>13. ForcedRunRecovers'
    BY <1>2 DEF ForcedRunRecovers
  <1> QED
    BY <1>4, <1>8, <1>10, <1>11, <1>12, <1>13 DEF IInv

\* A step that leaves its result behind, or none, and hands over to the next one.
LEMMA Advanced ==
    ASSUME IInv, pc \in Steps, pc' = Advance, UNCHANGED <<call, gate>>, others' \in BOOLEAN,
           \/ disk' = disk
           \/ \E k \in Files \ {"analysis"}, b \in BOOLEAN : disk' = [disk EXCEPT ![k] = Result(b)]
    PROVE  /\ TypeOK' /\ OnCourse' /\ Concluded' /\ ForcedRunRecovers'
           /\ \A s : Done(s)' => Done(s) \/ s = pc
  <1>1. /\ pc' \in Steps \union {"rest"}
        /\ OnCourse'
        /\ \A s : Done(s)' => Done(s) \/ s = pc
    BY NextStep DEF call
  <1>2. TypeOK'
    <2>1. CASE disk' = disk
      BY <1>1, <2>1 DEF IInv, TypeOK, call, Records
    <2>2. CASE disk' # disk
      BY <1>1, <2>2, WriteTypeOK DEF IInv
    <2> QED
      BY <2>1, <2>2
  <1>3. disk'["analysis"] = disk["analysis"]
    BY DEF IInv, TypeOK, Files
  <1>4. Concluded'
    BY <1>3, StillOpen DEF IInv
  <1>5. ForcedRunRecovers'
    BY <1>1, Places DEF ForcedRunRecovers
  <1> QED
    BY <1>1, <1>2, <1>4, <1>5

\* The record of the packing.
LEMMA RecordPackingStep ==
    ASSUME IInv, RecordPacking
    PROVE  IInv'
  <1>1. /\ pc = "packing" /\ pc \in Steps /\ pc' = Advance
        /\ UNCHANGED <<call, gate>> /\ others' \in BOOLEAN
        /\ disk' = [disk EXCEPT !["packing"] = Result(TRUE)]
    BY Places DEF RecordPacking, IInv, TypeOK, gpu
  <1>2. \E k \in Files \ {"analysis"}, b \in BOOLEAN : disk' = [disk EXCEPT ![k] = Result(b)]
    BY <1>1 DEF Files
  <1>3. /\ TypeOK' /\ OnCourse' /\ Concluded' /\ ForcedRunRecovers'
        /\ \A s : Done(s)' => Done(s) \/ s = pc
    BY <1>1, <1>2, Advanced
  <1>4. /\ disk'["packing"] = Result(TRUE)
        /\ \A k \in Files \ {"packing"} : disk'[k] = disk[k]
    BY <1>1 DEF IInv, TypeOK, Files
  <1>5. Gates'
    BY <1>1, <1>3, <1>4 DEF IInv, Gates, Good, Parses, Exists, Result, call, Files
  <1>6. Fresh'
    BY <1>1, <1>3, <1>4, Marked DEF IInv, Fresh, ForcedAll, Result, call, Files, Measured
  <1> QED
    BY <1>3, <1>5, <1>6 DEF IInv

\* The sidecar of an earlier run is kept; a forced run of all stages keeps none.
LEMMA KeepSidecarStep ==
    ASSUME IInv, KeepSidecar
    PROVE  IInv'
  <1>1. /\ pc = "pack" /\ UNCHANGED <<call, gate, disk>> /\ others' \in BOOLEAN
        /\ pc' = (IF stage = "pack" THEN "rest" ELSE "verify")
        /\ ~ForcedAll /\ Exists("sidecar")
    BY DEF KeepSidecar, MustPack, Forced, ForcedAll, IInv, TypeOK, gpu
  <1>2. pc \in Steps /\ "pack" \in StepsOf(stage)
    BY <1>1, Places DEF IInv, OnCourse
  <1>3. TypeOK'
    BY <1>1, Places DEF IInv, TypeOK, Records, call
  <1>4. ForcedRunRecovers' /\ Concluded'
    BY <1>1, <1>2, StillOpen DEF ForcedRunRecovers, IInv, ForcedAll, call
  <1>5. CASE stage = "pack"
    BY <1>1, <1>3, <1>4, <1>5, Halted DEF IInv
  <1>6. CASE stage # "pack"
    <2>1. pc' = "verify" /\ stage \in RunsIn("verify")
      BY <1>1, <1>2, <1>6 DEF StepsOf, Part, RunsIn
    <2>2. OnCourse'
      BY <1>1, <2>1, Places DEF OnCourse, StepsOf, Part, RunsIn, call
    <2>3. ASSUME NEW s, Done(s)'
          PROVE  Done(s) \/ s \in {"pack", "packing"}
      <3>1. s \in Steps /\ s \in StepsOf(stage) /\ Place[s] < Place["verify"]
        BY <1>1, <2>1, <2>3 DEF Done, call, StepsOf, RunsIn, Part
      <3>2. s \in {"download", "audit", "pack", "packing"}
        BY <3>1, Places DEF Place
      <3> QED
        BY <1>1, <1>2, <3>1, <3>2 DEF Done, Place
    <2>4. Gates'
      BY <1>1, <2>3 DEF IInv, Gates, Good, Parses, Exists, Result, call
    <2>5. Fresh'
      BY <1>1 DEF Fresh, ForcedAll, call
    <2> QED
      BY <1>3, <1>4, <2>2, <2>4, <2>5 DEF IInv
  <1> QED
    BY <1>5, <1>6

\* verify_model: nothing goes on behind a packing that is not lossless.
LEMMA VerifyStep ==
    ASSUME IInv, Verify
    PROVE  IInv'
  <1> DEFINE verification == IF Forced("verify") \/ ~Exists("verification")
                             THEN Result(disk["sidecar"].ok)
                             ELSE disk["verification"]
             files == [disk EXCEPT !["verification"] = verification]
  <1>1. /\ pc = "verify" /\ pc \in Steps /\ UNCHANGED <<call, gate>> /\ others' \in BOOLEAN
        /\ "verification" \in Files
    BY Places DEF Verify, gpu, IInv, TypeOK, Files
  <1>2. Done("pack")
    BY <1>1 DEF Done, IInv, OnCourse, StepsOf, Part, RunsIn, Place, Steps
  <1>3. disk["sidecar"] \in Records /\ disk["sidecar"].ok \in BOOLEAN
    BY <1>2, Marked DEF IInv, Gates, Exists, TypeOK, Files, Measured
  <1>4. /\ verification \in Records
        /\ ForcedAll => verification = Result(disk["sidecar"].ok)
    BY <1>1, <1>3, Marked DEF IInv, TypeOK, Exists, ForcedAll, Forced, Files, Measured
  <1>5. files = disk \/ \E b \in BOOLEAN : files = [disk EXCEPT !["verification"] = Result(b)]
    BY <1>1, <1>3 DEF IInv, TypeOK
  <1>6. CASE verification.ok
    <2>1. disk' = files /\ pc' = Advance
      BY <1>6 DEF Verify
    <2>2. /\ TypeOK' /\ OnCourse' /\ Concluded' /\ ForcedRunRecovers'
          /\ \A s : Done(s)' => Done(s) \/ s = pc
      <3>1. \/ disk' = disk
            \/ \E k \in Files \ {"analysis"}, b \in BOOLEAN : disk' = [disk EXCEPT ![k] = Result(b)]
        BY <1>1, <1>5, <2>1
      <3> HIDE DEF files
      <3> QED
        BY <1>1, <2>1, <3>1, Advanced
    <2>3. /\ disk'["verification"] = verification
          /\ \A k \in Files \ {"verification"} : disk'[k] = disk[k]
      BY <2>1 DEF IInv, TypeOK, Files
    <2>4. /\ verification # NoFile /\ verification # Torn
          /\ ForcedAll => verification.run = run /\ disk["sidecar"].ok
      BY <1>3, <1>4, <1>6, Marked DEF IInv
    <2> HIDE DEF verification, files
    <2>5. Gates'
      BY <1>1, <1>6, <2>2, <2>3, <2>4 DEF IInv, Gates, Good, Parses, Exists, Result, call, Files
    <2>6. Fresh'
      BY <1>1, <2>2, <2>3, <2>4 DEF IInv, Fresh, ForcedAll, Result, call, Files, Measured
    <2> QED
      BY <2>2, <2>5, <2>6 DEF IInv
  <1>7. CASE ~verification.ok
    <2>1. Invalidate(files)
      BY <1>7 DEF Verify
    <2> HIDE DEF files
    <2> QED
      BY <1>1, <1>5, <2>1, Invalidated
  <1> QED
    BY <1>6, <1>7

\* _cuda: the GPU is looked at before and after the measurements.
LEMMA CaptureStep ==
    ASSUME IInv, NEW k \in {"before", "after"}, Capture(k)
    PROVE  IInv'
  <1> DEFINE files == [disk EXCEPT ![k] = Result(~others)]
  <1>1. /\ pc = k /\ pc \in Steps /\ UNCHANGED <<call, gate>> /\ others' \in BOOLEAN
        /\ k \in Files \ {"analysis"} /\ (~others) \in BOOLEAN
    <2>1. pc = k /\ UNCHANGED <<call, gate>> /\ others' = others
      BY DEF Capture, gpu
    <2>2. k \in Files \ {"analysis"} /\ k \in Steps
      BY Places DEF Files
    <2> QED
      BY <2>1, <2>2 DEF IInv, TypeOK
  <1>2. \E l \in Files \ {"analysis"}, b \in BOOLEAN : files = [disk EXCEPT ![l] = Result(b)]
    BY <1>1
  <1>3. CASE others
    <2>1. Invalidate(files)
      BY <1>3 DEF Capture
    <2> HIDE DEF files
    <2> QED
      BY <1>1, <1>2, <2>1, Invalidated
  <1>4. CASE ~others
    <2>1. disk' = files /\ pc' = Advance
      BY <1>4 DEF Capture
    <2>2. /\ TypeOK' /\ OnCourse' /\ Concluded' /\ ForcedRunRecovers'
          /\ \A s : Done(s)' => Done(s) \/ s = pc
      BY <1>1, <1>2, <2>1, Advanced
    <2>3. /\ disk'[k] = Result(TRUE) /\ \A l \in Files \ {k} : disk'[l] = disk[l]
      BY <1>1, <1>4, <2>1 DEF IInv, TypeOK, Result
    <2> HIDE DEF files
    <2>4. Gates'
      BY <1>1, <2>2, <2>3 DEF IInv, Gates, Good, Parses, Exists, Result, call, Files
    <2>5. Fresh'
      BY <1>1, <2>2, <2>3 DEF IInv, Fresh, ForcedAll, Result, call, Files, Measured
    <2> QED
      BY <2>2, <2>4, <2>5 DEF IInv
  <1> QED
    BY <1>3, <1>4

\* A measurement.
LEMMA MeasureStep ==
    ASSUME IInv, NEW k \in Measured, Measure(k)
    PROVE  IInv'
  <1>1. PICK right \in BOOLEAN :
            /\ disk' = [disk EXCEPT ![k] = Result(right)]
            /\ pc' = IF right THEN Advance ELSE "crashed"
    BY DEF Measure
  <1>2. /\ pc = k /\ pc \in Steps /\ UNCHANGED <<call, gate>> /\ others' \in BOOLEAN
        /\ k \in Files \ {"analysis"}
    BY Places DEF Measure, gpu, IInv, TypeOK, Files, Measured
  <1>3. disk'[k] = Result(right) /\ \A l \in Files \ {k} : disk'[l] = disk[l]
    BY <1>1, <1>2 DEF IInv, TypeOK
  <1>4. CASE right
    <2>1. /\ TypeOK' /\ OnCourse' /\ Concluded' /\ ForcedRunRecovers'
          /\ \A s : Done(s)' => Done(s) \/ s = pc
      BY <1>1, <1>2, <1>4, Advanced
    <2>2. Result(right) = Result(TRUE)
      BY <1>4 DEF Result
    <2>3. Gates'
      BY <1>2, <1>3, <2>1 DEF IInv, Gates, Good, Parses, Exists, Result, call, Files, Measured
    <2>4. Fresh'
      BY <1>2, <1>3, <2>1, <2>2 DEF IInv, Fresh, ForcedAll, Result, call, Files, Measured
    <2> QED
      BY <2>1, <2>3, <2>4 DEF IInv
  <1>5. CASE ~right
    <2>1. pc' = "crashed"
      BY <1>1, <1>5
    <2>2. TypeOK'
      BY <1>1, <1>2, <2>1, WriteTypeOK DEF IInv
    <2>3. Concluded'
      BY <1>2, <1>3, StillOpen DEF IInv, Files
    <2>4. Result(right) = Result(FALSE)' /\ disk'[k] = Result(FALSE)'
      BY <1>2, <1>3, <1>5 DEF Result, call
    <2>5. ForcedRunRecovers'
      BY <2>4 DEF ForcedRunRecovers
    <2> QED
      BY <2>1, <2>2, <2>3, <2>5, Halted DEF IInv
  <1> QED
    BY <1>4, <1>5

\* A forced run measures everything itself; what another one reads may not parse.
LEMMA ReuseStep ==
    ASSUME IInv, NEW k \in Measured, Reuse(k)
    PROVE  IInv'
  <1>1. /\ pc = k /\ pc \in Steps /\ UNCHANGED <<call, gate>> /\ others' \in BOOLEAN
        /\ ~ForcedAll
    BY Places DEF Reuse, MustMeasure, Forced, ForcedAll, gpu, IInv, TypeOK, Measured
  <1>2. CASE Crash
    <2>1. pc' = "crashed" /\ disk' = disk
      BY <1>2 DEF Crash
    <2>2. TypeOK'
      BY <1>1, <2>1 DEF IInv, TypeOK, call, Records
    <2>3. Concluded' /\ ForcedRunRecovers'
      BY <1>1, <2>1, StillOpen DEF IInv, ForcedRunRecovers, ForcedAll, call
    <2> QED
      BY <2>1, <2>2, <2>3, Halted DEF IInv
  <1>3. CASE Invalidate(disk)
    BY <1>1, <1>3, Invalidated
  <1>4. CASE pc' = Advance /\ UNCHANGED <<disk, invalid>>
    <2>1. /\ TypeOK' /\ OnCourse' /\ Concluded' /\ ForcedRunRecovers'
          /\ \A s : Done(s)' => Done(s) \/ s = pc
      BY <1>1, <1>4, Advanced
    <2>2. Gates'
      BY <1>1, <1>4, <2>1 DEF IInv, Gates, Good, Parses, Exists, Result, call, Measured
    <2>3. Fresh'
      BY <1>1 DEF Fresh, ForcedAll, call
    <2> QED
      BY <2>1, <2>2, <2>3 DEF IInv
  <1> QED
    BY <1>2, <1>3, <1>4 DEF Reuse

\* _reports: in a forced run of all stages everything it reads is there and parses.
LEMMA ReportsStep ==
    ASSUME IInv, Reports
    PROVE  IInv'
  <1>1. /\ pc = "reports" /\ pc \in Steps /\ UNCHANGED <<call, gate>> /\ others' \in BOOLEAN
        /\ pc' \in {"rest", "crashed"}
    BY Places DEF Reports, Crash, gpu, IInv, TypeOK
  <1>2. ForcedAll => \A s \in Steps \ {"reports"} : Done(s)
    BY <1>1 DEF ForcedAll, Done, StepsOf, RunsIn, Part, Place, Steps
  <1>3. ForcedAll => /\ \A k \in FreshFiles : disk[k].run = run
                     /\ disk["sidecar"].ok
                     /\ \A k \in Measured \union {"after"} : disk[k] = Result(TRUE)
                     /\ Good("audit") /\ Good("verification")
    BY <1>2, Places, Marked DEF IInv, Fresh, Gates, FreshFiles, Inputs, Measured
  <1>4. CASE \A k \in Inputs : Parses(k)
    <2>1. disk' = [disk EXCEPT !["analysis"] = Result(Passes)] /\ pc' = "rest"
      BY <1>4 DEF Reports
    <2>2. Passes \in BOOLEAN
      <3>1. \A k \in Inputs : disk[k].ok \in BOOLEAN
        BY <1>4, Marked DEF Inputs, Parses, IInv, TypeOK, Files
      <3>2. Exists("before") => disk["before"].ok \in BOOLEAN
        BY Marked DEF Exists, IInv, TypeOK, Files, Measured
      <3> QED
        BY <3>1, <3>2 DEF Passes, TimingValid, Inputs
    <2>3. TypeOK'
      <3> HIDE DEF Passes
      <3> QED
        BY <1>1, <2>1, <2>2, WriteTypeOK DEF IInv, Files
    <2>4. \A k \in FreshFiles : disk'[k] = disk[k]
      BY <2>1 DEF IInv, TypeOK, Files, FreshFiles, Inputs
    <2>5. Concluded'
      BY <1>1, <1>3, <2>1, <2>4 DEF Concluded, ForcedAll, call, FreshFiles
    <2>6. ForcedRunRecovers'
      BY <2>1 DEF ForcedRunRecovers
    <2> QED
      BY <2>1, <2>3, <2>5, <2>6, Halted DEF IInv
  <1>5. CASE ~\A k \in Inputs : Parses(k)
    <2>1. pc' = "crashed" /\ disk' = disk
      BY <1>5 DEF Reports, Crash
    <2>2. ~ForcedAll
      <3>1. ForcedAll => \A k \in Inputs : Parses(k)
        BY <1>3, Marked DEF Inputs, Parses, Good, Measured, IInv
      <3> QED
        BY <1>5, <3>1
    <2>3. TypeOK'
      BY <1>1, <2>1 DEF IInv, TypeOK, call, Records
    <2>4. Concluded' /\ ForcedRunRecovers'
      BY <1>1, <2>1, <2>2, StillOpen DEF IInv, ForcedRunRecovers, ForcedAll, call
    <2> QED
      BY <2>1, <2>3, <2>4, Halted DEF IInv
  <1> QED
    BY <1>4, <1>5

----------------------------------------------------------------------------

\* The program begins with no file and no run.
LEMMA InitIInv == Init => IInv
  <1> SUFFICES ASSUME Init PROVE IInv
    OBVIOUS
  <1>1. TypeOK
    BY RunnerAssumption DEF Init, TypeOK, Records
  <1>2. OnCourse /\ Gates /\ Fresh
    BY Places DEF Init, OnCourse, Gates, Fresh, Done, Measured
  <1>3. Concluded /\ ForcedRunRecovers
    BY DEF Init, Concluded, ForcedAll, ForcedRunRecovers
  <1> QED
    BY <1>1, <1>2, <1>3 DEF IInv

\* Every step keeps the invariant.
LEMMA NextIInv == IInv /\ [Next]_vars => IInv'
  <1> SUFFICES ASSUME IInv, [Next]_vars PROVE IInv'
    OBVIOUS
  <1>1. CASE \E arg \in Arguments, f \in BOOLEAN : Start(arg, f)
    BY <1>1, StartStep
  <1>2. CASE Download \/ Audit \/ PackSidecar \/ RecordPacking \/ KeepSidecar \/ Verify
    BY <1>2, DownloadStep, AuditStep, PackSidecarStep, RecordPackingStep, KeepSidecarStep, VerifyStep
  <1>3. CASE CaptureBefore \/ CaptureAfter
    BY <1>3, CaptureStep DEF CaptureBefore, CaptureAfter
  <1>4. CASE Reports
    BY <1>4, ReportsStep
  <1>5. CASE \E k \in Measured : Measure(k) \/ Reuse(k)
    BY <1>5, MeasureStep, ReuseStep
  <1>6. CASE Kill \/ KillWriting \/ Arrive \/ Leave
    BY <1>6, KillStep, KillWritingStep, VisitorStep
  <1>7. CASE UNCHANGED vars
    <2>1. UNCHANGED <<pc, call, disk, gate, others>>
      BY <1>7 DEF vars, gpu
    <2>2. UNCHANGED <<TypeOK, ForcedRunRecovers>>
      BY <2>1 DEF call, TypeOK, Records, ForcedRunRecovers, Result
    <2>3. UNCHANGED <<OnCourse, Gates, Fresh, Concluded>>
      BY <2>1 DEF call, OnCourse, Gates, Fresh, Concluded, Done, StepsOf, Good, Parses, Exists,
                  ForcedAll, Result
    <2> QED
      BY <2>2, <2>3 DEF IInv
  <1> QED
    BY <1>1, <1>2, <1>3, <1>4, <1>5, <1>6, <1>7 DEF Next

\* Every state of the program, however often it was called and killed, is one that
\* the invariant describes.
THEOREM Inductive == Spec => []IInv
  BY InitIInv, NextIInv, PTL DEF Spec

\* The files hold results of runs that were made, or what is left of one that was cut
\* off while it was written in place.
THEOREM TypeCorrect == Spec => []TypeOK
  <1>1. IInv => TypeOK
    BY DEF IInv
  <1> QED
    BY <1>1, Inductive, PTL

\* A verdict of `all --force` is about nothing but what this run computed and measured.
THEOREM FreshVerdict == Spec => []ForcedVerdictIsFresh
  <1>1. IInv => ForcedVerdictIsFresh
    BY DEF IInv, Concluded, ForcedVerdictIsFresh, ForcedAll, FreshFiles
  <1> QED
    BY <1>1, Inductive, PTL

\* `all --force` is stopped by no file that a killed run left torn or half done.
THEOREM RecoveryByForce == Spec => []ForcedRunRecovers
  <1>1. IInv => ForcedRunRecovers
    BY DEF IInv
  <1> QED
    BY <1>1, Inductive, PTL

\* Only the three measurements, and a kill in the middle of one, write their results.
LEMMA WhoMeasures ==
    ASSUME IInv, [Next]_vars, NEW k \in Measured, disk'[k] # disk[k]
    PROVE  pc = k
  <1>1. k \in Files /\ k \notin {"audit", "sidecar", "packing", "verification", "before",
                                 "after", "analysis", "run_status"}
    BY DEF Measured, Files
  <1>2. ASSUME NEW files, Invalidate(files), files[k] = disk[k], DOMAIN files = Files
        PROVE  disk'[k] = disk[k]
    BY <1>1, <1>2 DEF Invalidate
  <1>3. DOMAIN disk = Files
    BY DEF IInv, TypeOK
  <1>4. CASE \E arg \in Arguments, f \in BOOLEAN : Start(arg, f)
    BY <1>4 DEF Start
  <1>5. CASE Download \/ KeepSidecar \/ PackSidecar \/ RecordPacking
    BY <1>1, <1>3, <1>5 DEF Download, KeepSidecar, PackSidecar, RecordPacking
  <1>6. CASE Audit
    <2> DEFINE files == [disk EXCEPT !["audit"] = IF Forced("audit") \/ ~Exists("audit")
                                                 THEN Result(gate) ELSE disk["audit"]]
    <2>1. files[k] = disk[k] /\ DOMAIN files = Files
      BY <1>1, <1>3
    <2>2. disk' = files \/ Invalidate(files)
      BY <1>6 DEF Audit
    <2> HIDE DEF files
    <2> QED
      BY <1>2, <2>1, <2>2
  <1>7. CASE Verify
    <2> DEFINE files == [disk EXCEPT !["verification"] =
                             IF Forced("verify") \/ ~Exists("verification")
                             THEN Result(disk["sidecar"].ok) ELSE disk["verification"]]
    <2>1. files[k] = disk[k] /\ DOMAIN files = Files
      BY <1>1, <1>3
    <2>2. disk' = files \/ Invalidate(files)
      BY <1>7 DEF Verify
    <2> HIDE DEF files
    <2> QED
      BY <1>2, <2>1, <2>2
  <1>8. ASSUME NEW l \in {"before", "after"}, Capture(l)
        PROVE  FALSE
    <2> DEFINE files == [disk EXCEPT ![l] = Result(~others)]
    <2>1. files[k] = disk[k] /\ DOMAIN files = Files
      BY <1>1, <1>3
    <2>2. disk' = files \/ Invalidate(files)
      BY <1>8 DEF Capture
    <2> HIDE DEF files
    <2> QED
      BY <1>2, <2>1, <2>2
  <1>9. CASE Reports
    BY <1>1, <1>3, <1>9 DEF Reports, Crash
  <1>10. ASSUME NEW l \in Measured, Measure(l) \/ Reuse(l)
         PROVE  pc = k
    <2>1. CASE Measure(l)
      <3>1. PICK right \in BOOLEAN : disk' = [disk EXCEPT ![l] = Result(right)]
        BY <2>1 DEF Measure
      <3> QED
        BY <1>1, <1>3, <2>1, <3>1 DEF Measure
    <2>2. CASE Reuse(l)
      BY <1>2, <1>3, <2>2 DEF Reuse, Crash
    <2> QED
      BY <1>10, <2>1, <2>2
  <1>11. CASE Kill \/ Arrive \/ Leave
    BY <1>11 DEF Kill, Arrive, Leave
  <1>12. CASE KillWriting
    BY <1>1, <1>3, <1>12 DEF KillWriting
  <1>13. CASE UNCHANGED vars
    BY <1>13 DEF vars
  <1> QED
    BY <1>4, <1>5, <1>6, <1>7, <1>8, <1>9, <1>10, <1>11, <1>12, <1>13
       DEF Next, CaptureBefore, CaptureAfter

\* Nothing runs on the GPU, and so no result of it changes, unless the gates are on
\* record as passed and this run found the GPU idle.
THEOREM GatesBeforeMeasuring == Spec => MeasuredBehindGates
  <1>1. ASSUME IInv, [Next]_vars, NEW k \in Measured, disk'[k] # disk[k]
        PROVE  Good("audit") /\ Good("verification") /\ disk["before"] = Result(TRUE)
    <2>1. pc = k
      BY <1>1, WhoMeasures
    <2>2. pc \in Steps /\ stage \in {"cuda", "all"}
      BY <1>1, <2>1, Places DEF Measured, IInv, OnCourse, StepsOf, RunsIn, Part
    <2>3. \A s \in {"audit", "verify", "before"} : Done(s)
      BY <2>1, <2>2 DEF Done, StepsOf, RunsIn, Part, Place, Steps, Measured
    <2> QED
      BY <1>1, <2>3 DEF IInv, Gates
  <1>2. IInv /\ [Next]_vars =>
            [\A k \in Measured : disk'[k] # disk[k] =>
                 /\ Good("audit")
                 /\ Good("verification")
                 /\ disk["before"] = Result(TRUE)]_vars
    BY <1>1
  <1> QED
    BY <1>2, Inductive, PTL DEF Spec, MeasuredBehindGates

\* The verdict is given by the reports alone.
LEMMA WhoConcludes ==
    ASSUME IInv, [Next]_vars, disk'["analysis"] # disk["analysis"]
    PROVE  Reports
  <1>1. DOMAIN disk = Files /\ "analysis" \in Files /\ "analysis" \notin Measured
    BY DEF IInv, TypeOK, Measured, Files
  <1>2. ASSUME NEW files, Invalidate(files), files["analysis"] = disk["analysis"], DOMAIN files = Files
        PROVE  FALSE
    BY <1>1, <1>2 DEF Invalidate
  <1>3. ASSUME NEW l \in Files \ {"analysis"}, NEW f,
               disk' = [disk EXCEPT ![l] = f] \/ Invalidate([disk EXCEPT ![l] = f])
        PROVE  FALSE
    <2> DEFINE files == [disk EXCEPT ![l] = f]
    <2>1. files["analysis"] = disk["analysis"] /\ DOMAIN files = Files
      BY <1>1
    <2>2. disk' = files \/ Invalidate(files)
      BY <1>3
    <2> HIDE DEF files
    <2> QED
      BY <1>2, <2>1, <2>2
  <1>4. CASE \E arg \in Arguments, f \in BOOLEAN : Start(arg, f)
    BY <1>4 DEF Start
  <1>5. CASE Download \/ KeepSidecar
    BY <1>5 DEF Download, KeepSidecar
  <1>6. CASE PackSidecar \/ RecordPacking
    BY <1>1, <1>6 DEF PackSidecar, RecordPacking
  <1>7. CASE Audit
    BY <1>3, <1>7 DEF Audit, Files
  <1>8. CASE Verify
    BY <1>3, <1>8 DEF Verify, Files
  <1>9. ASSUME NEW l \in {"before", "after"}, Capture(l)
        PROVE  FALSE
    <2>1. l \in Files \ {"analysis"}
      BY DEF Files
    <2> QED
      BY <1>3, <1>9, <2>1 DEF Capture
  <1>10. ASSUME NEW l \in Measured, Measure(l) \/ Reuse(l)
         PROVE  FALSE
    <2>1. CASE Measure(l)
      <3>1. PICK right \in BOOLEAN : disk' = [disk EXCEPT ![l] = Result(right)]
        BY <2>1 DEF Measure
      <3> QED
        BY <1>1, <3>1
    <2>2. CASE Reuse(l)
      BY <1>1, <1>2, <2>2 DEF Reuse, Crash
    <2> QED
      BY <1>10, <2>1, <2>2
  <1>11. CASE Kill \/ Arrive \/ Leave
    BY <1>11 DEF Kill, Arrive, Leave
  <1>12. CASE KillWriting
    BY <1>1, <1>12 DEF KillWriting
  <1>13. CASE UNCHANGED vars
    BY <1>13 DEF vars
  <1> QED
    BY <1>4, <1>5, <1>6, <1>7, <1>8, <1>9, <1>10, <1>11, <1>12, <1>13
       DEF Next, CaptureBefore, CaptureAfter

\* Numbers that were wrong, in this run or in the one whose results it reads, are in no
\* verdict that passes.
THEOREM WrongNumbersAreSeen == Spec => WrongNumbersNeverPass
  <1>1. ASSUME IInv, [Next]_vars, disk'["analysis"] # disk["analysis"], disk'["analysis"].ok,
               NEW k \in Measured
        PROVE  Good(k)
    <2>1. Reports
      BY <1>1, WhoConcludes
    <2>2. /\ \A l \in Inputs : Parses(l)
          /\ disk' = [disk EXCEPT !["analysis"] = Result(Passes)]
      BY <1>1, <2>1 DEF Reports, Crash
    <2>3. Passes
      BY <1>1, <2>2 DEF IInv, TypeOK, Files, Result
    <2> QED
      BY <2>2, <2>3 DEF Passes, Inputs, Measured, Good, Parses
  <1>2. IInv /\ [Next]_vars =>
            [disk'["analysis"] # disk["analysis"] /\ disk'["analysis"].ok =>
                 \A k \in Measured : Good(k)]_vars
    BY <1>1
  <1> QED
    BY <1>2, Inductive, PTL DEF Spec, WrongNumbersNeverPass
=============================================================================
