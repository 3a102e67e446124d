------------------------ MODULE UpdateStagingProofs ------------------------
(***************************************************************************)
(* Proofs about UpdateStaging, for any processes, versions and artifacts:  *)
(* the directory fits its journal wherever commands were stopped, nothing  *)
(* that is there is overwritten, a whole set is recovered, and the         *)
(* commands implement StagedSet.                                           *)
(***************************************************************************)
EXTENDS UpdateStaging, TLAPS

Writing == {"create", "write", "replace"}
Bound == Writing \cup {"begin", "check", "verify"}

(* The lease is held from the first step of a command to its last; a       *)
(* command has a version from its authentication on, and no result yet.    *)
LeaseInv ==
  \A p \in Proc :
    /\ pc[p] # "idle" <=> lease = p
    /\ pc[p] \in Bound <=> of[p] # Nothing
    /\ pc[p] # "idle" => result[p] = "none"

(* The place in the plan, and what lies ready for it; recover writes the   *)
(* last journal only.                                                      *)
PlaceInv ==
  \A p \in Proc :
    /\ pc[p] = "begin" => at[p] = 0
    /\ pc[p] \in Writing => at[p] > 0
    /\ pc[p] \in Writing /\ command[p] = "recover" => at[p] = Final(p)
    /\ pc[p] = "replace" => partial[Target(p)] = Payload(p)

(* What recover has read of the manifest is still there when it checks.    *)
ManifestInv ==
  \A p \in Proc :
    pc[p] \in {"begin", "check"} /\ command[p] = "recover" => file[Manifest] = of[p]

(* What a name may hold before the inputs are checked: its own content, or *)
(* nothing yet.                                                            *)
Fits(p, n) ==
  \/ file[n] = Absent
  \/ n = Journal /\ file[n] = <<"receiving", of[p]>>
  \/ n \in Files(of[p]) /\ file[n] = of[p]

(* While the files are received the directory has no others; the journal   *)
(* is the first of them, and it is closed over a complete set only.        *)
FilesInv ==
  \A p \in Proc :
    /\ pc[p] \in Writing /\ at[p] < Final(p) =>
         /\ \A n \in Name : Fits(p, n)
         /\ file[Journal] = IF at[p] = 1 THEN Absent ELSE <<"receiving", of[p]>>
    /\ pc[p] \in Writing /\ at[p] = Final(p) =>
         /\ file[Journal] = <<"receiving", of[p]>>
         /\ Whole(of[p]) /\ Present \subseteq Files(of[p]) \cup {Journal}
    /\ pc[p] = "check" => file[Journal] \in Phase \X {of[p]}
    /\ pc[p] = "verify" => file[Journal] = <<"staged", of[p]>> /\ Whole(of[p])

StagingInv ==
  TypeOK /\ LeaseInv /\ PlaceInv /\ ManifestInv /\ FilesInv /\ StagedIsWhole /\ OneBinding
-----------------------------------------------------------------------------
(* A plan begins and ends with the journal; between are the files.         *)
LEMMA PlanFacts ==
  ASSUME NEW v \in Version
  PROVE  /\ Len(Plan(v)) \in Nat /\ Len(Plan(v)) > 2
         /\ Plan(v)[1] = Journal /\ Plan(v)[Len(Plan(v))] = Journal
         /\ \A i \in 2 .. Len(Plan(v)) - 1 : Plan(v)[i] \in Files(v)
<1>1. /\ <<Journal, Manifest>> \in Seq(Name) /\ <<Journal>> \in Seq(Name)
      /\ Rows[v] \in Seq(Name) /\ Len(Rows[v]) \in Nat
      /\ \A i \in 1 .. Len(Rows[v]) : Rows[v][i] \in Files(v)
  BY UpdateStagingAssumption DEF Name, Files
<1> DEFINE first == <<Journal, Manifest>> \o Rows[v]
<1>2. /\ first \in Seq(Name) /\ Len(first) = 2 + Len(Rows[v])
      /\ first[1] = Journal /\ first[2] = Manifest
      /\ \A i \in 3 .. 2 + Len(Rows[v]) : first[i] = Rows[v][i - 2]
  BY <1>1
<1>3. \A i \in 2 .. Len(first) : first[i] \in Files(v)
  <2> SUFFICES ASSUME NEW i \in 2 .. Len(first) PROVE first[i] \in Files(v)
    OBVIOUS
  <2>1. CASE i = 2
    BY <1>2, <2>1 DEF Files
  <2>2. CASE i # 2
    BY <1>1, <1>2, <2>2
  <2> QED BY <2>1, <2>2
<1>4. Plan(v) = first \o <<Journal>>
  BY DEF Plan
<1> HIDE DEF first
<1>5. /\ Len(Plan(v)) = Len(first) + 1 /\ Plan(v)[Len(first) + 1] = Journal
      /\ \A i \in 1 .. Len(first) : Plan(v)[i] = first[i]
  BY <1>1, <1>2, <1>4
<1> QED BY <1>1, <1>2, <1>3, <1>5

(* Nothing and damage are neither a version nor a phase of the journal.    *)
LEMMA EntryFacts ==
  ASSUME NEW v \in Version
  PROVE  /\ v \notin {Absent, Broken}
         /\ <<"receiving", v>> \notin {Absent, Broken} /\ <<"staged", v>> \notin {Absent, Broken}
<1>1. <<"receiving", v>> \in Phase \X Version /\ <<"staged", v>> \in Phase \X Version
  BY DEF Phase
<1> QED BY <1>1, UpdateStagingAssumption

LEMMA FilesFacts ==
  ASSUME NEW v \in Version PROVE Files(v) \subseteq Name \ {Journal}
BY UpdateStagingAssumption DEF Files, Name

(* While one command has the lease, the others are idle.                   *)
LEMMA Alone ==
  ASSUME StagingInv, NEW p \in Proc, pc[p] # "idle"
  PROVE  lease = p /\ \A q \in Proc : q # p => pc[q] = "idle" /\ of[q] = Nothing
BY DEF StagingInv, TypeOK, LeaseInv, Bound, Writing

(* What is said of the directory alone survives while nothing touches it.  *)
LEMMA SameDirectory ==
  ASSUME StagingInv, UNCHANGED <<file, spoiled>> PROVE StagedIsWhole' /\ OneBinding'
BY DEF StagingInv, StagedIsWhole, OneBinding, Whole, Present

(* The end of a command, whatever it reports.                              *)
LEMMA EndStep ==
  ASSUME StagingInv, NEW p \in Proc, pc[p] # "idle",
         NEW r \in Version \cup {"refused", "failed"}, End(p, r),
         partial' \in [Name -> Entry], UNCHANGED <<file, command, spoiled>>
  PROVE  StagingInv'
<1> USE DEF End, Goto, At
<1>1. \A q \in Proc : pc'[q] = "idle" /\ of'[q] = Nothing
  BY Alone DEF StagingInv, TypeOK
<1>2. TypeOK'
  BY Alone, <1>1 DEF StagingInv, TypeOK, Final
<1>3. LeaseInv'
  BY <1>1, UpdateStagingAssumption DEF LeaseInv, Bound, Writing
<1>4. PlaceInv' /\ ManifestInv' /\ FilesInv'
  BY <1>1 DEF PlaceInv, ManifestInv, FilesInv, Writing
<1> QED BY <1>2, <1>3, <1>4, SameDirectory DEF StagingInv

LEMMA LeaseStep ==
  ASSUME StagingInv, NEW p \in Proc, NEW c \in Command, Lease(p, c) PROVE StagingInv'
<1> USE DEF Lease, Goto
<1>1. \A q \in Proc : pc[q] = "idle" /\ of[q] = Nothing
  BY UpdateStagingAssumption DEF StagingInv, TypeOK, LeaseInv, Bound, Writing
<1>2. pc' = [q \in Proc |-> IF q = p THEN "open" ELSE "idle"]
  BY <1>1 DEF StagingInv, TypeOK
<1>3. TypeOK'
  BY DEF StagingInv, TypeOK, Final
<1>4. LeaseInv'
  BY <1>1, <1>2 DEF StagingInv, TypeOK, LeaseInv, Bound, Writing
<1>5. PlaceInv' /\ ManifestInv' /\ FilesInv'
  BY <1>2 DEF PlaceInv, ManifestInv, FilesInv, Writing
<1> QED BY <1>3, <1>4, <1>5, SameDirectory DEF StagingInv

LEMMA BusyStep ==
  ASSUME StagingInv, NEW p \in Proc, NEW c \in Command, Busy(p, c) PROVE StagingInv'
<1> USE DEF Busy
<1>1. TypeOK'
  BY DEF StagingInv, TypeOK, Final
<1>2. LeaseInv'
  BY DEF StagingInv, TypeOK, LeaseInv
<1>3. PlaceInv' /\ ManifestInv' /\ FilesInv'
  BY DEF StagingInv, TypeOK, PlaceInv, ManifestInv, FilesInv, Writing, Target, Payload, Final,
         Fits, Whole, Present
<1> QED BY <1>1, <1>2, <1>3, SameDirectory DEF StagingInv

LEMMA AuthenticateStep ==
  ASSUME StagingInv, NEW p \in Proc, Authenticate(p) PROVE StagingInv'
<1> USE DEF Authenticate, Goto
<1>1. PICK v \in Version : /\ command[p] = "recover" => file[Manifest] = v
                           /\ of' = [of EXCEPT ![p] = v]
  OBVIOUS
<1>2. /\ \A q \in Proc \ {p} : pc'[q] = "idle" /\ of'[q] = Nothing /\ at'[q] = at[q]
      /\ pc'[p] = "begin" /\ of'[p] = v /\ at'[p] = 0 /\ lease' = p
  BY <1>1, Alone DEF StagingInv, TypeOK, LeaseInv, Bound, Writing
<1>3. TypeOK'
  BY <1>1, <1>2, PlanFacts, UpdateStagingAssumption DEF StagingInv, TypeOK, Final
<1>4. LeaseInv'
  BY <1>2, UpdateStagingAssumption DEF StagingInv, LeaseInv, Bound, Writing
<1>5. PlaceInv' /\ ManifestInv' /\ FilesInv'
  BY <1>1, <1>2 DEF PlaceInv, ManifestInv, FilesInv, Writing
<1> QED BY <1>3, <1>4, <1>5, SameDirectory DEF StagingInv

LEMMA PrepareStep ==
  ASSUME StagingInv, NEW p \in Proc, Prepare(p) PROVE StagingInv'
<1> USE DEF Prepare, Goto, At
<1>1. /\ \A q \in Proc \ {p} : pc'[q] = "idle"
      /\ pc'[p] = "create" /\ at'[p] = 1 /\ of[p] \in Version
  BY Alone DEF StagingInv, TypeOK, LeaseInv, Bound
<1>2. \A n \in Name : file[n] = Absent
  BY DEF MayPrepare, Present
<1>3. TypeOK'
  BY <1>1, PlanFacts, UpdateStagingAssumption DEF StagingInv, TypeOK, Final
<1>4. LeaseInv'
  BY <1>1 DEF StagingInv, TypeOK, LeaseInv, Bound, Writing
<1>5. PlaceInv' /\ ManifestInv'
  BY <1>1 DEF PlaceInv, ManifestInv, Writing
<1>6. FilesInv'
  BY <1>1, <1>2, PlanFacts DEF FilesInv, Writing, Final, Fits, Name
<1> QED BY <1>3, <1>4, <1>5, <1>6, SameDirectory DEF StagingInv

LEMMA RecoverStep ==
  ASSUME StagingInv, NEW p \in Proc, Recover(p) PROVE StagingInv'
<1> USE DEF Recover, Goto
<1>1. /\ \A q \in Proc \ {p} : pc'[q] = "idle"
      /\ pc'[p] = "check" /\ of[p] \in Version
  BY Alone DEF StagingInv, TypeOK, LeaseInv, Bound
<1>2. TypeOK'
  BY DEF StagingInv, TypeOK, Final
<1>3. LeaseInv'
  BY <1>1 DEF StagingInv, TypeOK, LeaseInv, Bound, Writing
<1>4. PlaceInv' /\ ManifestInv'
  BY <1>1 DEF StagingInv, PlaceInv, ManifestInv, Writing
<1>5. FilesInv'
  BY <1>1 DEF FilesInv, Writing, MayRecover
<1> QED BY <1>2, <1>3, <1>4, <1>5, SameDirectory DEF StagingInv

LEMMA CreateStep ==
  ASSUME StagingInv, NEW p \in Proc, Create(p) PROVE StagingInv'
<1> USE DEF Create, Goto
<1>1. /\ \A q \in Proc \ {p} : pc'[q] = "idle"
      /\ pc'[p] = "write"
  BY Alone DEF StagingInv, TypeOK
<1>2. TypeOK'
  BY DEF StagingInv, TypeOK, Final, Entry
<1>3. LeaseInv'
  BY <1>1 DEF StagingInv, TypeOK, LeaseInv, Bound, Writing
<1>4. PlaceInv' /\ ManifestInv'
  BY <1>1 DEF StagingInv, PlaceInv, ManifestInv, Writing, Final
<1>5. FilesInv'
  BY <1>1 DEF StagingInv, FilesInv, Writing, Final, Fits, Whole, Present
<1> QED BY <1>2, <1>3, <1>4, <1>5, SameDirectory DEF StagingInv

(* What is written is an entry, and only the journal gets a phase.         *)
LEMMA TargetFacts ==
  ASSUME StagingInv, NEW p \in Proc, pc[p] \in Writing
  PROVE  /\ of[p] \in Version /\ at[p] \in 1 .. Final(p) /\ Final(p) \in Nat /\ Final(p) > 2
         /\ Target(p) \in Name /\ Payload(p) \in Entry
         /\ at[p] \in 2 .. Final(p) - 1 => Target(p) \in Files(of[p]) /\ Payload(p) = of[p]
         /\ at[p] = 1 => Target(p) = Journal /\ Payload(p) = <<"receiving", of[p]>>
         /\ at[p] = Final(p) => Target(p) = Journal /\ Payload(p) = <<"staged", of[p]>>
<1>1. of[p] \in Version
  BY DEF StagingInv, TypeOK, LeaseInv, Bound
<1>2. at[p] \in 1 .. Final(p) /\ Final(p) \in Nat /\ Final(p) > 2
  BY <1>1, PlanFacts, UpdateStagingAssumption DEF StagingInv, TypeOK, PlaceInv, Final
<1>3. at[p] \in 2 .. Final(p) - 1 => Target(p) \in Files(of[p])
  BY <1>1, PlanFacts DEF Final, Target
<1>4. at[p] \in {1, Final(p)} => Target(p) = Journal
  BY <1>1, PlanFacts DEF Final, Target
<1>5. Target(p) \in Name /\ (Target(p) = Journal <=> at[p] \in {1, Final(p)})
  BY <1>1, <1>2, <1>3, <1>4, FilesFacts DEF Name
<1> QED BY <1>1, <1>2, <1>3, <1>4, <1>5 DEF Payload, Entry, Phase

LEMMA WriteStep ==
  ASSUME StagingInv, NEW p \in Proc, Write(p) PROVE StagingInv'
<1>w. pc[p] = "write"
  BY DEF Write
<1>1. PICK c \in {Payload(p), Broken} :
        /\ partial' = [partial EXCEPT ![Target(p)] = c]
        /\ IF c = Payload(p)
           THEN Goto(p, "replace") /\ UNCHANGED <<lease, of, at, result>>
           ELSE End(p, "refused")
  BY DEF Write
<1>u. UNCHANGED <<file, command, spoiled>>
  BY DEF Write
<1>2. Target(p) \in Name /\ c \in Entry
  BY <1>w, TargetFacts DEF Writing, Entry
<1>3. partial' \in [Name -> Entry] /\ partial'[Target(p)] = c
  BY <1>1, <1>2 DEF StagingInv, TypeOK
<1>4. CASE c # Payload(p)
  BY <1>w, <1>1, <1>u, <1>3, <1>4, EndStep
<1>5. CASE c = Payload(p)
  <2>1. /\ \A q \in Proc \ {p} : pc'[q] = "idle"
        /\ pc'[p] = "replace" /\ UNCHANGED <<lease, of, at, result>>
    BY <1>w, <1>1, <1>5, Alone DEF StagingInv, TypeOK, Goto
  <2>2. TypeOK'
    BY <1>1, <1>3, <1>5, <1>u DEF StagingInv, TypeOK, Final, Goto
  <2>3. LeaseInv'
    BY <2>1, <1>w DEF StagingInv, TypeOK, LeaseInv, Bound, Writing
  <2>4. PlaceInv'
    BY <1>w, <1>u, <1>3, <1>5, <2>1
       DEF StagingInv, PlaceInv, Writing, Target, Payload, Final
  <2>5. ManifestInv' /\ FilesInv'
    BY <1>w, <1>u, <2>1
       DEF StagingInv, ManifestInv, FilesInv, Writing, Final, Fits, Whole, Present
  <2> QED BY <1>u, <2>2, <2>3, <2>4, <2>5, SameDirectory DEF StagingInv
<1> QED BY <1>4, <1>5

(* The directory after a replacement: before the last, files are received; *)
(* the last one closes a complete set.                                     *)
LEMMA ReplaceEffect ==
  ASSUME StagingInv, NEW p \in Proc, Replace(p)
  PROVE  /\ file' = [file EXCEPT ![Target(p)] = Payload(p)]
         /\ file' \in [Name -> Entry] /\ partial' \in [Name -> Entry]
         /\ at[p] < Final(p) =>
              /\ \A n \in Name : \/ file'[n] = Absent
                                 \/ n = Journal /\ file'[n] = <<"receiving", of[p]>>
                                 \/ n \in Files(of[p]) /\ file'[n] = of[p]
              /\ file'[Journal] = <<"receiving", of[p]>>
              /\ file[Journal] \in {Absent, <<"receiving", of[p]>>}
         /\ at[p] = Final(p) =>
              /\ file[Journal] = <<"receiving", of[p]>>
              /\ file'[Journal] = <<"staged", of[p]>>
              /\ Whole(of[p]) /\ Whole(of[p])'
              /\ Present' \subseteq Files(of[p]) \cup {Journal}
<1>1. pc[p] = "replace" /\ pc[p] \in Writing
  BY DEF Replace, Writing
<1>2. file' = [file EXCEPT ![Target(p)] = Payload(p)]
  BY <1>1 DEF Replace, StagingInv, PlaceInv
<1>3. Journal \in Name
  BY DEF Name
<1>4. file' \in [Name -> Entry] /\ partial' \in [Name -> Entry]
  BY <1>1, <1>2, TargetFacts DEF StagingInv, TypeOK, Replace, Entry
<1>5. ASSUME at[p] < Final(p)
      PROVE  /\ \A n \in Name : \/ file'[n] = Absent
                                \/ n = Journal /\ file'[n] = <<"receiving", of[p]>>
                                \/ n \in Files(of[p]) /\ file'[n] = of[p]
             /\ file'[Journal] = <<"receiving", of[p]>>
             /\ file[Journal] \in {Absent, <<"receiving", of[p]>>}
  <2>1. /\ \A n \in Name : Fits(p, n)
        /\ file[Journal] = IF at[p] = 1 THEN Absent ELSE <<"receiving", of[p]>>
    BY <1>1, <1>5 DEF StagingInv, FilesInv
  <2>2. CASE at[p] = 1
    BY <1>1, <1>2, <1>3, <2>1, <2>2, TargetFacts DEF StagingInv, TypeOK, Fits
  <2>3. CASE at[p] # 1
    <3>1. at[p] \in 2 .. Final(p) - 1
      BY <1>1, <1>5, <2>3, TargetFacts
    <3>2. Target(p) \in Files(of[p]) /\ Payload(p) = of[p] /\ Target(p) # Journal
      BY <1>1, <3>1, TargetFacts, FilesFacts
    <3> QED BY <1>2, <1>3, <2>1, <2>3, <3>2 DEF StagingInv, TypeOK, Fits
  <2> QED BY <2>2, <2>3
<1>6. ASSUME at[p] = Final(p)
      PROVE  /\ file[Journal] = <<"receiving", of[p]>>
             /\ file'[Journal] = <<"staged", of[p]>>
             /\ Whole(of[p]) /\ Whole(of[p])'
             /\ Present' \subseteq Files(of[p]) \cup {Journal}
  <2>1. /\ file[Journal] = <<"receiving", of[p]>>
        /\ Whole(of[p]) /\ Present \subseteq Files(of[p]) \cup {Journal}
    BY <1>1, <1>6 DEF StagingInv, FilesInv
  <2>2. Target(p) = Journal /\ Payload(p) = <<"staged", of[p]>> /\ of[p] \in Version
    BY <1>1, <1>6, TargetFacts
  <2>3. \A n \in Name : n # Journal => file'[n] = file[n]
    BY <1>2, <2>2 DEF StagingInv, TypeOK
  <2>4. Whole(of[p])'
    <3>1. \A n \in Files(of[p]) : file'[n] = of[p]
      BY <2>1, <2>2, <2>3, FilesFacts DEF Whole
    <3>2. of'[p] = of[p]
      BY DEF Replace
    <3> QED BY <3>1, <3>2 DEF Whole
  <2>5. Present' \subseteq Files(of[p]) \cup {Journal}
    BY <2>1, <2>3 DEF Present
  <2> QED BY <1>2, <1>3, <2>1, <2>2, <2>4, <2>5 DEF StagingInv, TypeOK
<1> QED BY <1>2, <1>4, <1>5, <1>6

LEMMA ReplaceStep ==
  ASSUME StagingInv, NEW p \in Proc, Replace(p) PROVE StagingInv'
<1> USE DEF Goto, At
<1>1. /\ pc[p] = "replace" /\ pc[p] \in Writing /\ lease = p
      /\ UNCHANGED <<lease, command, of, result, spoiled>>
  BY Alone DEF Replace, Writing
<1>2. /\ of[p] \in Version /\ at[p] \in 1 .. Final(p)
      /\ Final(p) \in Nat /\ Final(p) > 2 /\ Final(p)' = Final(p)
  BY <1>1, TargetFacts DEF Final
<1>3. /\ \A q \in Proc \ {p} : pc'[q] = "idle"
      /\ IF at[p] < Final(p) - 1
         THEN pc'[p] = "create" /\ at' = [at EXCEPT ![p] = at[p] + 1]
         ELSE pc'[p] = (IF at[p] = Final(p) THEN "verify" ELSE "check") /\ at' = at
  BY <1>1, Alone DEF StagingInv, TypeOK, Replace
<1>4. TypeOK'
  <2>1. at' \in [Proc -> Nat]
    BY <1>2, <1>3 DEF StagingInv, TypeOK
  <2>2. \A q \in Proc : at'[q] <= IF of'[q] = Nothing THEN 0 ELSE Final(q)'
    BY <1>1, <1>2, <1>3, UpdateStagingAssumption, SMTT(20) DEF StagingInv, TypeOK, Final
  <2>3. pc' \in [Proc -> {"idle", "open", "begin", "create", "write", "replace",
                          "check", "verify"}]
    BY DEF StagingInv, TypeOK, Replace
  <2> QED BY <1>1, <2>1, <2>2, <2>3, ReplaceEffect DEF StagingInv, TypeOK
<1>5. LeaseInv'
  BY <1>1, <1>3 DEF StagingInv, TypeOK, LeaseInv, Bound, Writing
<1>6. PlaceInv' /\ ManifestInv'
  <2>1. PlaceInv'
    BY <1>1, <1>2, <1>3 DEF StagingInv, TypeOK, PlaceInv, Writing
  <2>2. ManifestInv'
    BY <1>1, <1>2, <1>3 DEF StagingInv, PlaceInv, ManifestInv
  <2> QED BY <2>1, <2>2
<1>7. FilesInv'
  <2> SUFFICES /\ pc'[p] \in Writing /\ at'[p] < Final(p) =>
                    /\ \A n \in Name : Fits(p, n)'
                    /\ file'[Journal] = IF at'[p] = 1 THEN Absent ELSE <<"receiving", of[p]>>
               /\ ~(pc'[p] \in Writing /\ at'[p] = Final(p))
               /\ pc'[p] = "check" => file'[Journal] \in Phase \X {of[p]}
               /\ pc'[p] = "verify" => file'[Journal] = <<"staged", of[p]>> /\ Whole(of[p])'
    BY <1>1, <1>2, <1>3 DEF FilesInv, Writing
  <2>1. CASE at[p] = Final(p)
    BY <1>1, <1>2, <1>3, <2>1, ReplaceEffect DEF Writing
  <2>2. CASE at[p] < Final(p)
    <3>1. \A n \in Name : Fits(p, n)'
      BY <1>1, <2>2, ReplaceEffect DEF Fits
    <3>2. file'[Journal] = <<"receiving", of[p]>>
      BY <2>2, ReplaceEffect
    <3>3. pc'[p] \in Writing => at'[p] = at[p] + 1 /\ at[p] < Final(p) - 1
      BY <1>2, <1>3, <2>2 DEF Writing, StagingInv, TypeOK
    <3>4. pc'[p] # "verify"
      BY <1>2, <1>3, <2>2
    <3> QED BY <1>2, <3>1, <3>2, <3>3, <3>4 DEF Phase
  <2> QED BY <1>2, <2>1, <2>2
<1>8. StagedIsWhole' /\ OneBinding'
  <2>1. CASE at[p] = Final(p)
    <3>1. \A n \in Files(of[p]) : file'[n] = of[p]
      BY <1>1, <2>1, ReplaceEffect DEF Whole
    <3>2. /\ file'[Journal] = <<"staged", of[p]>>
          /\ Present' \subseteq Files(of[p]) \cup {Journal}
      BY <2>1, ReplaceEffect
    <3>3. StagedIsWhole'
      BY <3>1, <3>2 DEF StagedIsWhole, Whole
    <3>4. OneBinding'
      <4>1. file'[Journal] \in Phase \X {of[p]}
        BY <3>2 DEF Phase
      <4>2. \A n \in Present' \ {Journal} : file'[n] = of[p]
        BY <3>1, <3>2
      <4> QED BY <1>2, <3>2, <4>1, <4>2 DEF OneBinding
    <3> QED BY <3>3, <3>4
  <2>2. CASE at[p] < Final(p)
    <3>1. file'[Journal] = <<"receiving", of[p]>>
      BY <2>2, ReplaceEffect
    <3>2. Present' \subseteq Files(of[p]) \cup {Journal}
      BY <2>2, ReplaceEffect DEF Present
    <3>3. \A n \in Present' \ {Journal} : file'[n] = of[p]
      BY <2>2, ReplaceEffect DEF Present
    <3> QED BY <1>2, <3>1, <3>2, <3>3 DEF StagedIsWhole, OneBinding, Phase
  <2> QED BY <1>2, <2>1, <2>2
<1> QED BY <1>4, <1>5, <1>6, <1>7, <1>8 DEF StagingInv

LEMMA CheckStep ==
  ASSUME StagingInv, NEW p \in Proc, Check(p) PROVE StagingInv'
<1> USE DEF Goto, At
<1>1. /\ pc[p] = "check" /\ of[p] \in Version /\ lease = p
      /\ UNCHANGED <<file, partial, lease, command, of, result, spoiled>>
      /\ Inventory(of[p]) /\ Whole(of[p])
  BY Alone DEF Check, StagingInv, TypeOK, LeaseInv, Bound
<1>2. /\ \A q \in Proc \ {p} : pc'[q] = "idle"
      /\ IF file[Journal][1] = "staged"
         THEN pc'[p] = "verify" /\ at' = at
         ELSE pc'[p] = "create" /\ at' = [at EXCEPT ![p] = Final(p)]
  BY <1>1, Alone DEF StagingInv, TypeOK, Check
<1>3. Final(p) \in Nat /\ Final(p) > 2 /\ Final(p)' = Final(p)
  BY <1>1, PlanFacts DEF Final
<1>4. TypeOK'
  <2>1. at' \in [Proc -> Nat] /\ pc' \in [Proc -> {"idle", "open", "begin", "create",
                                                 "write", "replace", "check", "verify"}]
    BY <1>3 DEF StagingInv, TypeOK, Check
  <2>2. \A q \in Proc : at'[q] <= IF of'[q] = Nothing THEN 0 ELSE Final(q)'
    <3>1. at'[p] \in {at[p], Final(p)} /\ \A q \in Proc \ {p} : at'[q] = at[q]
      BY <1>2 DEF StagingInv, TypeOK
    <3>2. at[p] <= Final(p) /\ of[p] # Nothing
      BY <1>1, UpdateStagingAssumption DEF StagingInv, TypeOK
    <3>3. \A q \in Proc : Final(q)' = Final(q)
      BY <1>1 DEF Final
    <3> QED BY <1>1, <1>3, <3>1, <3>2, <3>3 DEF StagingInv, TypeOK
  <2> QED BY <1>1, <2>1, <2>2 DEF StagingInv, TypeOK
<1>5. LeaseInv'
  BY <1>1, <1>2 DEF StagingInv, TypeOK, LeaseInv, Bound, Writing
<1>6. PlaceInv' /\ ManifestInv'
  BY <1>1, <1>2, <1>3 DEF StagingInv, TypeOK, PlaceInv, ManifestInv, Writing
<1>7. FilesInv'
  <2>1. file[Journal] \in Phase \X {of[p]}
    BY <1>1 DEF StagingInv, FilesInv
  <2>2. CASE file[Journal][1] = "staged"
    <3>1. file[Journal] = <<"staged", of[p]>>
      BY <2>1, <2>2
    <3> QED BY <1>1, <1>2, <2>2, <3>1 DEF FilesInv, Writing, Whole
  <2>3. CASE file[Journal][1] # "staged"
    <3>1. file[Journal] = <<"receiving", of[p]>>
      BY <2>1, <2>3 DEF Phase
    <3>2. pc'[p] = "create" /\ at'[p] = Final(p)
      BY <1>2, <2>3 DEF StagingInv, TypeOK
    <3> QED BY <1>1, <1>2, <1>3, <3>1, <3>2 DEF FilesInv, Writing, Whole, Inventory, Present
  <2> QED BY <2>2, <2>3
<1> QED BY <1>1, <1>4, <1>5, <1>6, <1>7, SameDirectory DEF StagingInv

LEMMA ReportStep ==
  ASSUME StagingInv, NEW p \in Proc, Report(p) PROVE StagingInv'
<1>1. pc[p] # "idle" /\ of[p] \in Version
  BY DEF Report, StagingInv, TypeOK, LeaseInv, Bound
<1>2. partial' \in [Name -> Entry]
  BY DEF Report, StagingInv, TypeOK
<1> QED BY <1>1, <1>2, EndStep DEF Report

LEMMA RefuseStep ==
  ASSUME StagingInv, NEW p \in Proc, Refuse(p) PROVE StagingInv'
<1>1. pc[p] # "idle" /\ partial' \in [Name -> Entry]
  BY DEF Refuse, StagingInv, TypeOK
<1> QED BY <1>1, EndStep DEF Refuse

LEMMA StopStep ==
  ASSUME StagingInv, NEW p \in Proc, Stop(p) PROVE StagingInv'
<1>1. pc[p] # "idle" /\ partial' \in [Name -> Entry]
  BY DEF Stop, StagingInv, TypeOK
<1> QED BY <1>1, EndStep DEF Stop

(* While nobody has the lease every command is idle.                       *)
LEMMA NobodyWorks ==
  ASSUME StagingInv, lease = NoProc, UNCHANGED <<lease, pc, command, of, at, result>>,
         file' \in [Name -> Entry], partial' \in [Name -> Entry], spoiled' \in BOOLEAN
  PROVE  (TypeOK /\ LeaseInv /\ PlaceInv /\ ManifestInv /\ FilesInv)'
<1>1. \A p \in Proc : pc[p] = "idle"
  BY UpdateStagingAssumption DEF StagingInv, LeaseInv
<1>2. TypeOK' /\ LeaseInv'
  BY DEF StagingInv, TypeOK, LeaseInv, Final
<1>3. PlaceInv' /\ ManifestInv' /\ FilesInv'
  BY <1>1 DEF PlaceInv, ManifestInv, FilesInv, Writing
<1> QED BY <1>2, <1>3

LEMMA DamageStep ==
  ASSUME StagingInv, Damage PROVE StagingInv'
<1>1. file' \in [Name -> Entry] /\ partial' \in [Name -> Entry] /\ spoiled' = TRUE
  BY DEF Damage, StagingInv, TypeOK, Entry
<1>2. StagedIsWhole' /\ OneBinding'
  BY <1>1 DEF StagedIsWhole, OneBinding
<1> QED BY <1>1, <1>2, NobodyWorks DEF Damage, StagingInv

LEMMA TidyStep ==
  ASSUME StagingInv, Tidy PROVE StagingInv'
<1>1. file' \in [Name -> Entry] /\ partial' \in [Name -> Entry] /\ spoiled' \in BOOLEAN
  BY DEF Tidy, StagingInv, TypeOK, Entry
<1>2. StagedIsWhole' /\ OneBinding'
  BY SameDirectory DEF Tidy
<1> QED BY <1>1, <1>2, NobodyWorks DEF Tidy, StagingInv

LEMMA EmptyStep ==
  ASSUME StagingInv, Empty PROVE StagingInv'
<1>1. file' \in [Name -> Entry] /\ partial' \in [Name -> Entry] /\ spoiled' \in BOOLEAN
  BY DEF Empty, Entry
<1>2. \A n \in Name : file'[n] = Absent
  BY DEF Empty
<1>3. StagedIsWhole' /\ OneBinding'
  BY <1>2, EntryFacts DEF StagedIsWhole, OneBinding, Present, Name
<1> QED BY <1>1, <1>3, NobodyWorks DEF Empty, StagingInv

-----------------------------------------------------------------------------
LEMMA InitStaging == Init => StagingInv
<1> SUFFICES ASSUME Init PROVE StagingInv
  OBVIOUS
<1> USE DEF Init
<1>1. TypeOK
  <2>1. file \in [Name -> Entry] /\ partial \in [Name -> Entry]
    BY DEF Entry
  <2>2. /\ pc \in [Proc -> {"idle", "open", "begin", "create", "write", "replace",
                           "check", "verify"}]
        /\ command \in [Proc -> Command] /\ of \in [Proc -> Version \cup {Nothing}]
        /\ result \in [Proc -> Version \cup {"none", "refused", "failed"}]
    BY DEF Command
  <2>3. at \in [Proc -> Nat] /\ \A p \in Proc : at[p] <= 0 /\ of[p] = Nothing
    OBVIOUS
  <2> QED BY <2>1, <2>2, <2>3 DEF TypeOK
<1>2. LeaseInv /\ PlaceInv /\ ManifestInv /\ FilesInv
  BY UpdateStagingAssumption DEF LeaseInv, PlaceInv, ManifestInv, FilesInv, Bound, Writing
<1>3. StagedIsWhole /\ OneBinding
  BY EntryFacts DEF StagedIsWhole, OneBinding, Present, Name
<1> QED BY <1>1, <1>2, <1>3 DEF StagingInv

(* Whatever processes do, are stopped at and find, the invariant holds.    *)
THEOREM StagingInvariant == Spec => []StagingInv
<1>1. StagingInv /\ [Next]_vars => StagingInv'
  <2> SUFFICES ASSUME StagingInv, [Next]_vars PROVE StagingInv'
    OBVIOUS
  <2>1. ASSUME NEW p \in Proc, NEW c \in Command, Lease(p, c) \/ Busy(p, c)
        PROVE  StagingInv'
    BY <2>1, LeaseStep, BusyStep
  <2>2. ASSUME NEW p \in Proc,
               \/ Authenticate(p) \/ Prepare(p) \/ Recover(p)
               \/ Create(p) \/ Write(p) \/ Replace(p) \/ Check(p)
        PROVE  StagingInv'
    BY <2>2, AuthenticateStep, PrepareStep, RecoverStep, CreateStep, WriteStep,
       ReplaceStep, CheckStep
  <2>3. ASSUME NEW p \in Proc, Report(p) \/ Refuse(p) \/ Stop(p)
        PROVE  StagingInv'
    BY <2>3, ReportStep, RefuseStep, StopStep
  <2>4. CASE Damage \/ Tidy \/ Empty
    BY <2>4, DamageStep, TidyStep, EmptyStep
  <2>5. CASE UNCHANGED vars
    <3>1. TypeOK' /\ LeaseInv'
      BY <2>5 DEF vars, StagingInv, TypeOK, LeaseInv, Final
    <3>2. PlaceInv' /\ ManifestInv'
      BY <2>5 DEF vars, StagingInv, PlaceInv, ManifestInv, Target, Payload, Final
    <3>3. FilesInv'
      BY <2>5 DEF vars, StagingInv, FilesInv, Fits, Final, Whole, Present
    <3> QED BY <2>5, <3>1, <3>2, <3>3, SameDirectory DEF vars, StagingInv
  <2> QED BY <2>1, <2>2, <2>3, <2>4, <2>5 DEF Next
<1> QED BY <1>1, InitStaging, PTL DEF Spec

(* DirectoryFits: a journal that says "staged" stands for a complete set,  *)
(* and the files in the directory are those of its journal's binding.      *)
THEOREM DirectoryAlwaysFits == Spec => []DirectoryFits
<1>1. StagingInv => DirectoryFits
  BY DEF StagingInv, DirectoryFits
<1> QED BY <1>1, StagingInvariant, PTL

(* Only a replacement changes a file while a command has the lease.        *)
LEMMA OnlyReplaceWrites ==
  ASSUME StagingInv, [Next]_vars, lease # NoProc, file' # file
  PROVE  \E p \in Proc : Replace(p)
BY DEF Next, vars, Lease, Busy, Authenticate, Prepare, Recover, Create, Write, Check, Report,
       Refuse, Stop, Damage, Tidy, Empty

(* NeverOverwritten: a command replaces no file that is there, but for the *)
(* journal it closes.                                                      *)
THEOREM NothingIsOverwritten == Spec => NeverOverwritten
<1> DEFINE Kept(n) == \/ file'[n] = file[n]
                      \/ \E v \in Version :
                           /\ n = Journal
                           /\ file[n] = <<"receiving", v>> /\ file'[n] = <<"staged", v>>
<1>1. ASSUME StagingInv, [Next]_vars, lease # NoProc, NEW n \in Present PROVE Kept(n)
  <2>1. CASE file' = file
    BY <2>1
  <2>2. CASE file' # file
    <3>1. PICK p \in Proc : Replace(p)
      BY <1>1, <2>2, OnlyReplaceWrites
    <3>2. pc[p] \in Writing
      BY <3>1 DEF Replace, Writing
    <3>3. /\ of[p] \in Version /\ at[p] \in 1 .. Final(p) /\ Final(p) \in Nat
          /\ file' = [file EXCEPT ![Target(p)] = Payload(p)]
          /\ file \in [Name -> Entry] /\ Target(p) \in Name
      BY <1>1, <3>1, <3>2, TargetFacts, ReplaceEffect DEF StagingInv, TypeOK
    <3>4. CASE n # Target(p)
      BY <3>3, <3>4 DEF Present
    <3>5. CASE n = Target(p) /\ at[p] = Final(p)
      BY <1>1, <3>1, <3>2, <3>3, <3>5, TargetFacts, ReplaceEffect
    <3>6. CASE n = Target(p) /\ at[p] < Final(p)
      <4>1. Fits(p, n) /\ file[Journal] = IF at[p] = 1 THEN Absent ELSE <<"receiving", of[p]>>
        BY <1>1, <3>2, <3>6 DEF StagingInv, FilesInv, Present
      <4>2. at[p] # 1
        BY <1>1, <3>2, <3>6, <4>1, TargetFacts DEF Present
      <4>3. n \in Files(of[p]) /\ Payload(p) = of[p] /\ n # Journal
        BY <1>1, <3>2, <3>3, <3>6, <4>2, TargetFacts, FilesFacts
      <4>4. file[n] = of[p] /\ file'[n] = of[p]
        BY <3>3, <3>6, <4>1, <4>3 DEF Fits, Present
      <4> QED BY <4>4
    <3> QED BY <3>3, <3>4, <3>5, <3>6
  <2> QED BY <2>1, <2>2
<1>2. StagingInv /\ [Next]_vars => [lease # NoProc => \A n \in Present : Kept(n)]_vars
  BY <1>1
<1> QED BY <1>2, StagingInvariant, PTL DEF Spec, NeverOverwritten

(* WholeIsRecovered: recover does not refuse a set that is complete, with  *)
(* either phase of its journal.                                            *)
THEOREM WholeSetsAreRecovered == Spec => WholeIsRecovered
<1> DEFINE Kept(p) == /\ pc[p] \in {"open", "begin", "check"} /\ command[p] = "recover"
                      /\ result'[p] = "refused"
                      => ~\E v \in Version :
                           /\ Inventory(v) /\ Whole(v)
                           /\ file[Journal] \in Phase \X {v}
<1>1. ASSUME StagingInv, [Next]_vars, NEW p \in Proc PROVE Kept(p)
  <2> SUFFICES ASSUME pc[p] \in {"open", "begin", "check"}, command[p] = "recover",
                      result'[p] = "refused",
                      NEW v \in Version, Inventory(v), Whole(v),
                      file[Journal] \in Phase \X {v}
               PROVE  FALSE
    OBVIOUS
  <2>1. result[p] = "none" /\ lease = p /\ \A q \in Proc \ {p} : pc[q] = "idle"
    BY <1>1, Alone DEF StagingInv, LeaseInv
  <2>2. Refuse(p)
    <3>1. ASSUME NEW q \in Proc, NEW c \in Command, Lease(q, c) \/ Busy(q, c)
          PROVE  q # p /\ result'[p] = result[p]
      BY <1>1, <2>1, <3>1, UpdateStagingAssumption DEF Lease, Busy, StagingInv, TypeOK
    <3>2. ASSUME NEW q \in Proc, q # p,
                 \/ Authenticate(q) \/ Prepare(q) \/ Recover(q) \/ Create(q) \/ Write(q)
                 \/ Replace(q) \/ Check(q) \/ Report(q) \/ Refuse(q) \/ Stop(q)
          PROVE  FALSE
      BY <2>1, <3>2 DEF Authenticate, Prepare, Recover, Create, Write, Replace, Check, Report,
                        Refuse, Stop
    <3>3. ASSUME \/ Authenticate(p) \/ Prepare(p) \/ Recover(p) \/ Create(p) \/ Write(p)
                 \/ Replace(p) \/ Check(p)
          PROVE  result'[p] = result[p]
      BY <3>3 DEF Authenticate, Prepare, Recover, Create, Write, Replace, Check
    <3>4. ~Report(p) /\ ~Stop(p)
      BY <1>1, UpdateStagingAssumption DEF Report, Stop, End, StagingInv, TypeOK
    <3>5. ASSUME Damage \/ Tidy \/ Empty \/ UNCHANGED vars PROVE result'[p] = result[p]
      BY <3>5 DEF Damage, Tidy, Empty, vars
    <3> QED BY <1>1, <2>1, <3>1, <3>2, <3>3, <3>4, <3>5 DEF Next
  <2>3. file[Manifest] = v /\ Present = Files(v) \cup {Journal}
    <3>1. file[Manifest] = v
      BY DEF Whole, Files
    <3>2. \A n \in Files(v) \cup {Journal} : n \in Name /\ file[n] # Absent
      BY FilesFacts, EntryFacts DEF Whole, Phase, Name
    <3> QED BY <3>1, <3>2 DEF Inventory, Present
  <2>4. pc[p] # "open" => of[p] = v
    BY <1>1, <2>3 DEF StagingInv, ManifestInv
  <2>5. MayRecover(v)
    BY <2>3 DEF MayRecover, Inventory
  <2> QED BY <2>2, <2>3, <2>4, <2>5 DEF Refuse
<1>2. StagingInv /\ [Next]_vars => [\A p \in Proc : Kept(p)]_vars
  BY <1>1
<1> QED BY <1>2, StagingInvariant, PTL DEF Spec, WholeIsRecovered

-----------------------------------------------------------------------------
(* The refinement of StagedSet: what its variables are here.               *)
StagedNow == IF \E v \in Version : Committed(v)
             THEN CHOOSE v \in Version : Committed(v) ELSE Nothing
Told == [p \in Proc |-> IF result[p] \in Version THEN result[p] ELSE Nothing]

LEMMA StagedIs ==
  /\ \A v \in Version : Committed(v) => StagedNow = v
  /\ (\A v \in Version : ~Committed(v)) => StagedNow = Nothing
  /\ StagedNow = Nothing \/ (StagedNow \in Version /\ Committed(StagedNow))
<1>1. \A v, w \in Version : Committed(v) /\ Committed(w) => v = w
  BY DEF Committed
<1>2. CASE \E v \in Version : Committed(v)
  <2> DEFINE w == CHOOSE v \in Version : Committed(v)
  <2>1. w \in Version /\ Committed(w)
    BY <1>2
  <2>2. StagedNow = w
    BY <1>2 DEF StagedNow
  <2> HIDE DEF w
  <2> QED BY <1>1, <1>2, <2>1, <2>2
<1>3. CASE \A v \in Version : ~Committed(v)
  BY <1>3 DEF StagedNow
<1> QED BY <1>2, <1>3

LEMMA StagedIsNext ==
  (/\ \A v \in Version : Committed(v) => StagedNow = v
   /\ (\A v \in Version : ~Committed(v)) => StagedNow = Nothing
   /\ StagedNow = Nothing \/ (StagedNow \in Version /\ Committed(StagedNow)))'
BY StagedIs, PTL

(* What a command reports is all that told can change to.                  *)
LEMMA ToldSteps ==
  ASSUME StagingInv, NEW p \in Proc, NEW r \in Version \cup {"none", "refused", "failed"},
         result' = [result EXCEPT ![p] = r]
  PROVE  Told' = [Told EXCEPT ![p] = IF r \in Version THEN r ELSE Nothing]
BY DEF StagingInv, TypeOK, Told

(* A step that leaves the directory alone and changes a result begins or   *)
(* reports.                                                                *)
LEMMA ResultStep ==
  ASSUME StagingInv, NEW p \in Proc, NEW r \in {"none", "refused", "failed"},
         result' = [result EXCEPT ![p] = r], file' = file
  PROVE  Abstract!Begin(p)
<1>1. Told' = [Told EXCEPT ![p] = Nothing]
  BY ToldSteps, UpdateStagingAssumption
<1>2. StagedNow' = StagedNow
  BY DEF StagedNow, Committed, Whole
<1> QED BY <1>1, <1>2 DEF Abstract!Begin, Told, StagedNow

(* A step after which no more is staged than before, and no result differs,*)
(* spoils the set or does nothing.                                         *)
LEMMA LessStep ==
  ASSUME result' = result, \A v \in Version : Committed(v)' => Committed(v)
  PROVE  Abstract!Spoil \/ UNCHANGED <<StagedNow, Told>>
<1>1. Told' = Told
  BY DEF Told
<1>2. StagedNow' \in {Nothing, StagedNow}
  BY StagedIs, StagedIsNext
<1> QED BY <1>1, <1>2 DEF Abstract!Spoil, Told, StagedNow

LEMMA StepRefines ==
  StagingInv /\ [Next]_vars => [Abstract!Next]_<<StagedNow, Told>>
<1> SUFFICES ASSUME StagingInv, [Next]_vars
             PROVE  Abstract!Next \/ UNCHANGED <<StagedNow, Told>>
  OBVIOUS
<1> USE DEF Abstract!Next
<1>1. ASSUME NEW p \in Proc, NEW c \in Command, Lease(p, c) \/ Busy(p, c)
      PROVE  Abstract!Begin(p)
  BY <1>1, ResultStep DEF Lease, Busy
<1>2. ASSUME NEW p \in Proc,
             Authenticate(p) \/ Prepare(p) \/ Recover(p) \/ Create(p) \/ Check(p)
      PROVE  UNCHANGED <<StagedNow, Told>>
  <2>1. UNCHANGED <<file, result>>
    BY <1>2 DEF Authenticate, Prepare, Recover, Create, Check
  <2> QED BY <2>1 DEF StagedNow, Told, Committed, Whole
<1>3. ASSUME NEW p \in Proc, Write(p)
      PROVE  Abstract!Begin(p) \/ UNCHANGED <<StagedNow, Told>>
  <2>1. file' = file /\ (result' = result \/ result' = [result EXCEPT ![p] = "refused"])
    BY <1>3 DEF Write, End
  <2>2. CASE result' = result
    BY <2>1, <2>2 DEF StagedNow, Told, Committed, Whole
  <2> QED BY <2>1, <2>2, ResultStep
<1>4. ASSUME NEW p \in Proc, Replace(p)
      PROVE  Abstract!Commit \/ UNCHANGED <<StagedNow, Told>>
  <2>1. /\ result' = result /\ of' = of /\ of[p] \in Version
        /\ at[p] \in 1 .. Final(p) /\ Final(p) \in Nat
    BY <1>4, TargetFacts DEF Replace, Writing
  <2>2. Told' = Told
    BY <2>1 DEF Told
  <2>3. file[Journal] \in {Absent, <<"receiving", of[p]>>}
    BY <1>4, <2>1, ReplaceEffect, SMTT(20)
  <2>4. \A v \in Version : ~Committed(v)
    BY <2>1, <2>3, EntryFacts DEF Committed
  <2>5. StagedNow = Nothing
    BY <2>4, StagedIs
  <2>6. CASE at[p] = Final(p)
    <3>1. Committed(of[p])'
      BY <1>4, <2>1, <2>6, ReplaceEffect DEF Committed
    <3>2. StagedNow' = of[p]
      BY <2>1, <3>1, StagedIsNext DEF Committed
    <3> QED BY <2>1, <2>2, <2>5, <3>2 DEF Abstract!Commit, StagedNow, Told
  <2>7. CASE at[p] < Final(p)
    <3>1. file'[Journal] = <<"receiving", of[p]>>
      BY <1>4, <2>7, ReplaceEffect
    <3>2. \A v \in Version : ~Committed(v)'
      BY <3>1 DEF Committed
    <3> QED BY <2>2, <2>5, <3>2, StagedIsNext
  <2> QED BY <2>1, <2>6, <2>7
<1>5. ASSUME NEW p \in Proc, Report(p) PROVE Abstract!Report(p)
  <2>1. /\ file' = file /\ result' = [result EXCEPT ![p] = of[p]] /\ pc[p] = "verify"
    BY <1>5 DEF Report, End
  <2>2. of[p] \in Version /\ Committed(of[p])
    <3>1. of[p] \in Version
      BY <2>1 DEF StagingInv, TypeOK, LeaseInv, Bound
    <3>2. file[Journal] = <<"staged", of[p]>> /\ Whole(of[p])
      BY <2>1 DEF StagingInv, FilesInv
    <3> QED BY <3>1, <3>2 DEF Committed
  <2>3. StagedNow = of[p] /\ StagedNow' = StagedNow
    BY <2>1, <2>2, StagedIs DEF StagedNow, Committed, Whole
  <2>4. Told' = [Told EXCEPT ![p] = StagedNow]
    BY <2>1, <2>2, <2>3, ToldSteps
  <2>5. StagedNow # Nothing
    BY <2>2, <2>3, UpdateStagingAssumption
  <2> QED BY <2>3, <2>4, <2>5 DEF Abstract!Report, StagedNow, Told
<1>6. ASSUME NEW p \in Proc, Refuse(p) \/ Stop(p) PROVE Abstract!Begin(p)
  BY <1>6, ResultStep DEF Refuse, Stop, End
<1>7. CASE Damage
  <2>1. result' = result /\ \A v \in Version : Committed(v)' => Committed(v)
    <3>1. PICK n \in Name, c \in {Absent, Broken} : file' = [file EXCEPT ![n] = c]
      BY <1>7 DEF Damage
    <3>2. \A m \in Name : file'[m] \in {file[m], Absent, Broken}
      BY <3>1 DEF StagingInv, TypeOK
    <3>3. ASSUME NEW v \in Version, Committed(v)' PROVE Committed(v)
      <4>1. file[Journal] = <<"staged", v>>
        BY <3>2, <3>3, EntryFacts DEF Committed, Name
      <4>2. \A m \in Files(v) : file[m] = v
        BY <3>2, <3>3, EntryFacts, FilesFacts DEF Committed, Whole
      <4> QED BY <4>1, <4>2 DEF Committed, Whole
    <3> QED BY <1>7, <3>3 DEF Damage
  <2> QED BY <2>1, LessStep
<1>8. CASE Empty
  <2>1. \A v \in Version : ~Committed(v)'
    BY <1>8, EntryFacts DEF Empty, Committed, Name
  <2> QED BY <1>8, <2>1, LessStep DEF Empty
<1>9. CASE Tidy \/ UNCHANGED vars
  <2>1. UNCHANGED <<file, result>>
    BY <1>9 DEF Tidy, vars
  <2> QED BY <2>1 DEF StagedNow, Told, Committed, Whole
<1> QED BY <1>1, <1>2, <1>3, <1>4, <1>5, <1>6, <1>7, <1>8, <1>9 DEF Next

(* The commands on the directory implement StagedSet: a set becomes staged *)
(* at once, and what is reported is the set that is staged.                *)
THEOREM Refinement == Spec => AbstractSpec
<1>1. Init => Abstract!Init
  <2> SUFFICES ASSUME Init PROVE StagedNow = Nothing /\ Told = [p \in Proc |-> Nothing]
    BY DEF Abstract!Init, StagedNow, Told
  <2>1. \A v \in Version : ~Committed(v)
    BY EntryFacts DEF Init, Committed, Name
  <2> QED BY <2>1, StagedIs, UpdateStagingAssumption DEF Init, Told
<1>2. StagingInv /\ [Next]_vars
        => [Abstract!Next]_<<IF \E v \in Version : Committed(v)
                             THEN CHOOSE v \in Version : Committed(v) ELSE Nothing,
                             [p \in Proc |-> IF result[p] \in Version THEN result[p]
                                             ELSE Nothing]>>
  BY StepRefines DEF StagedNow, Told
<1> QED BY <1>1, <1>2, StagingInvariant, PTL DEF Spec, AbstractSpec, Abstract!Spec
=============================================================================
