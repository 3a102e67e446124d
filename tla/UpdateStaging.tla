---------------------------- MODULE UpdateStaging ----------------------------
(***************************************************************************)
(* update_staging.AssetSetTransaction under update_channel.stage_update    *)
(* and recover_update: a signed manifest and every file it binds are put   *)
(* into a private directory, one atomic file at a time, between two phases *)
(* of a journal.  Commands of several processes take the lease of the      *)
(* directory; a command can fail or be killed at every step.               *)
(*                                                                         *)
(* The content of a file is the version whose bytes it holds, or Broken.   *)
(* A journal is <<phase, version>>.  The first names of a Plan are written *)
(* before the inputs are checked, its last is the journal once more.       *)
(***************************************************************************)
EXTENDS Integers, Sequences

CONSTANTS
  Proc, Version, Artifact,
  Rows,     \* the artifacts of a version, in the order of its binding
  Journal, Manifest,
  Absent, Broken, NoProc, Nothing

Name == Artifact \cup {Journal, Manifest}
Phase == {"receiving", "staged"}
Entry == (Phase \X Version) \cup Version \cup {Absent, Broken}
Command == {"prepare", "recover"}

ASSUME UpdateStagingAssumption ==
  /\ NoProc \notin Proc /\ Nothing \notin Version
  /\ Absent # Broken /\ {Absent, Broken} \cap (Version \cup (Phase \X Version)) = {}
  /\ {"none", "refused", "failed"} \cap Version = {}
  /\ Journal \notin Artifact /\ Manifest \notin Artifact /\ Journal # Manifest
  /\ Rows \in [Version -> Seq(Artifact)]

VARIABLES
  file,     \* what is behind each final name
  partial,  \* what is behind its .partial
  lease,    \* the process that holds the lock of the journal
  pc,       \* where its command is
  command,
  of,       \* the version its transaction is bound to
  at,       \* the place in the plan of the file it writes
  result,   \* how the last command of a process ended
  spoiled   \* something was damaged since the directory was last empty

vars == <<file, partial, lease, pc, command, of, at, result, spoiled>>

Plan(v) == <<Journal, Manifest>> \o Rows[v] \o <<Journal>>
Files(v) == {Manifest} \cup {Rows[v][i] : i \in DOMAIN Rows[v]}
Final(p) == Len(Plan(of[p]))
Target(p) == Plan(of[p])[at[p]]

(* What belongs under the name that is being written.                      *)
Payload(p) ==
  IF Target(p) # Journal THEN of[p]
  ELSE <<IF at[p] = Final(p) THEN "staged" ELSE "receiving", of[p]>>

(* _inventory: the final names that exist; it refuses a directory with a   *)
(* partial or a name the binding does not have.                            *)
Present == {n \in Name : file[n] # Absent}
NoPartial == \A n \in Name : partial[n] = Absent
Inventory(v) == NoPartial /\ Present \subseteq Files(v) \cup {Journal}

(* _check_inputs: the manifest and every artifact have the bytes bound.    *)
Whole(v) == \A n \in Files(v) : file[n] = v

(* prepare starts in an empty directory only.                              *)
MayPrepare == NoPartial /\ Present = {}

(* Mutant: a stage that was still receiving is not recovered.              *)
MayRecoverStaged(v) ==
  /\ NoPartial /\ Present = Files(v) \cup {Journal}
  /\ file[Journal] = <<"staged", v>>

(* recover asks for the complete inventory and the journal of its binding. *)
MayRecover(v) ==
  /\ NoPartial /\ Present = Files(v) \cup {Journal}
  /\ file[Journal] \in Phase \X {v}

Init ==
  /\ file = [n \in Name |-> Absent] /\ partial = [n \in Name |-> Absent]
  /\ lease = NoProc /\ spoiled = FALSE
  /\ pc = [p \in Proc |-> "idle"] /\ command = [p \in Proc |-> "prepare"]
  /\ of = [p \in Proc |-> Nothing] /\ at = [p \in Proc |-> 0]
  /\ result = [p \in Proc |-> "none"]

Goto(p, label) == pc' = [pc EXCEPT ![p] = label]
At(p, i) == at' = [at EXCEPT ![p] = i]

(* Every way out of a command: the lease is given up, the files stay.      *)
End(p, r) ==
  /\ Goto(p, "idle") /\ result' = [result EXCEPT ![p] = r]
  /\ lease' = NoProc
  /\ of' = [of EXCEPT ![p] = Nothing] /\ At(p, 0)

(* Mutant: the lease does not exclude another command.                     *)
LeaseShared(p, c) ==
  /\ pc[p] = "idle"
  /\ lease' = p /\ Goto(p, "open") /\ command' = [command EXCEPT ![p] = c]
  /\ result' = [result EXCEPT ![p] = "none"]
  /\ UNCHANGED <<file, partial, of, at, spoiled>>

(* The command takes the lease of the directory, for its whole length.     *)
Lease(p, c) ==
  /\ pc[p] = "idle" /\ lease = NoProc
  /\ lease' = p /\ Goto(p, "open") /\ command' = [command EXCEPT ![p] = c]
  /\ result' = [result EXCEPT ![p] = "none"]
  /\ UNCHANGED <<file, partial, of, at, spoiled>>

(* The lease is not to be had within the timeout.                          *)
Busy(p, c) ==
  /\ pc[p] = "idle" /\ lease # NoProc
  /\ command' = [command EXCEPT ![p] = c]
  /\ result' = [result EXCEPT ![p] = "failed"]
  /\ UNCHANGED <<file, partial, lease, pc, of, at, spoiled>>

(* stage_update downloads the manifest the feed offers now; recover_update *)
(* reads the one in the directory.  The policy of the day authenticates it.*)
Authenticate(p) ==
  /\ pc[p] = "open"
  /\ \E v \in Version :
       /\ command[p] = "recover" => file[Manifest] = v
       /\ of' = [of EXCEPT ![p] = v]
  /\ Goto(p, "begin")
  /\ UNCHANGED <<file, partial, lease, command, at, result, spoiled>>

(* Mutant: prepare looks for a journal instead of an empty directory.      *)
PrepareOver(p) ==
  /\ pc[p] = "begin" /\ command[p] = "prepare"
  /\ NoPartial /\ Journal \notin Present
  /\ Goto(p, "create") /\ At(p, 1)
  /\ UNCHANGED <<file, partial, lease, command, of, result, spoiled>>

Prepare(p) ==
  /\ pc[p] = "begin" /\ command[p] = "prepare" /\ MayPrepare
  /\ Goto(p, "create") /\ At(p, 1)
  /\ UNCHANGED <<file, partial, lease, command, of, result, spoiled>>

Recover(p) ==
  /\ pc[p] = "begin" /\ command[p] = "recover" /\ MayRecover(of[p])
  /\ Goto(p, "check")
  /\ UNCHANGED <<file, partial, lease, command, of, at, result, spoiled>>

(* _atomic: the exclusive creation of the partial.                         *)
Create(p) ==
  /\ pc[p] = "create" /\ partial[Target(p)] = Absent
  /\ partial' = [partial EXCEPT ![Target(p)] = Broken]
  /\ Goto(p, "write")
  /\ UNCHANGED <<file, lease, command, of, at, result, spoiled>>

(* _atomic: the chunks are written; a download whose size or digest is not *)
(* the one bound is refused and its partial stays.                         *)
Write(p) ==
  /\ pc[p] = "write"
  /\ \E c \in {Payload(p)} \cup {Broken : n \in {Target(p)} \cap Artifact} :
       /\ partial' = [partial EXCEPT ![Target(p)] = c]
       /\ IF c = Payload(p)
          THEN Goto(p, "replace") /\ UNCHANGED <<lease, of, at, result>>
          ELSE End(p, "refused")
  /\ UNCHANGED <<file, command, spoiled>>

(* _atomic: os.replace, and on to the next name, the check or the report.  *)
Replace(p) ==
  /\ pc[p] = "replace"
  /\ file' = [file EXCEPT ![Target(p)] = partial[Target(p)]]
  /\ partial' = [partial EXCEPT ![Target(p)] = Absent]
  /\ IF at[p] < Final(p) - 1 THEN Goto(p, "create") /\ At(p, at[p] + 1)
     ELSE Goto(p, IF at[p] = Final(p) THEN "verify" ELSE "check") /\ UNCHANGED at
  /\ UNCHANGED <<lease, command, of, result, spoiled>>

(* Mutant: the journal is not finalized.                                   *)
CheckOnly(p) ==
  /\ pc[p] = "check" /\ Inventory(of[p]) /\ Whole(of[p])
  /\ Goto(p, "verify")
  /\ UNCHANGED <<file, partial, lease, command, of, at, result, spoiled>>

(* The inputs are read again; then the journal says "staged", unless       *)
(* recover found that it does already.                                     *)
Check(p) ==
  /\ pc[p] = "check" /\ Inventory(of[p]) /\ Whole(of[p])
  /\ IF file[Journal][1] = "staged"
     THEN Goto(p, "verify") /\ UNCHANGED at
     ELSE Goto(p, "create") /\ At(p, Final(p))
  /\ UNCHANGED <<file, partial, lease, command, of, result, spoiled>>

(* _verify_complete: inventory and bytes once more, and the report.        *)
Report(p) ==
  /\ pc[p] = "verify" /\ Inventory(of[p]) /\ Whole(of[p])
  /\ End(p, of[p])
  /\ UNCHANGED <<file, partial, command, spoiled>>

(* The directory is not what the command needs: no version to bind, not    *)
(* empty, not complete, another journal, other bytes.                      *)
Refuse(p) ==
  /\ \/ pc[p] = "open" /\ command[p] = "recover" /\ file[Manifest] \notin Version
     \/ pc[p] = "begin" /\ command[p] = "prepare" /\ ~MayPrepare
     \/ pc[p] = "begin" /\ command[p] = "recover" /\ ~MayRecover(of[p])
     \/ pc[p] = "check" /\ ~(Inventory(of[p]) /\ Whole(of[p]))
  /\ End(p, "refused")
  /\ UNCHANGED <<file, partial, command, spoiled>>

(* At any step: the deadline, an I/O error, a policy that refuses the      *)
(* manifest, a kill.  A partial stays.                                     *)
Stop(p) ==
  /\ pc[p] # "idle" /\ End(p, "failed")
  /\ UNCHANGED <<file, partial, command, spoiled>>

(* Between commands a file is damaged, removed or added.                   *)
Damage ==
  /\ lease = NoProc
  /\ \E n \in Name, c \in {Absent, Broken} :
       file[n] # c /\ file' = [file EXCEPT ![n] = c]
  /\ spoiled' = TRUE
  /\ UNCHANGED <<partial, lease, pc, command, of, at, result>>

(* The operator removes what an interrupted command has left behind: one   *)
(* partial, or everything.                                                 *)
Tidy ==
  /\ lease = NoProc /\ ~NoPartial
  /\ \E n \in Name : partial[n] # Absent
       /\ partial' = [partial EXCEPT ![n] = Absent]
  /\ UNCHANGED <<file, lease, pc, command, of, at, result, spoiled>>

Empty ==
  /\ lease = NoProc /\ spoiled' = FALSE
  /\ file' = [n \in Name |-> Absent] /\ partial' = [n \in Name |-> Absent]
  /\ UNCHANGED <<lease, pc, command, of, at, result>>

Next ==
  \/ \E p \in Proc :
       \/ \E c \in Command : Lease(p, c) \/ Busy(p, c)
       \/ Authenticate(p) \/ Prepare(p) \/ Recover(p)
       \/ Create(p) \/ Write(p) \/ Replace(p) \/ Check(p) \/ Report(p)
       \/ Refuse(p) \/ Stop(p)
  \/ Damage \/ Tidy \/ Empty

Spec == Init /\ [][Next]_vars

-----------------------------------------------------------------------------
(* Every name holds a version, a journal or something broken, and a       *)
(* command is at a place of the plan of its own version.                   *)
TypeOK ==
  /\ file \in [Name -> Entry] /\ partial \in [Name -> Entry]
  /\ lease \in Proc \cup {NoProc}
  /\ pc \in [Proc -> {"idle", "open", "begin", "create", "write", "replace",
                      "check", "verify"}]
  /\ command \in [Proc -> Command]
  /\ of \in [Proc -> Version \cup {Nothing}]
  /\ at \in [Proc -> Nat]
  /\ \A p \in Proc : at[p] <= IF of[p] = Nothing THEN 0 ELSE Final(p)
  /\ result \in [Proc -> Version \cup {"none", "refused", "failed"}]
  /\ spoiled \in BOOLEAN

(* A journal that says "staged" stands for a complete set, wherever the    *)
(* commands before were stopped: the phase is written after every file of  *)
(* its binding, and no later command writes a file of another.             *)
StagedIsWhole ==
  \A v \in Version :
    file[Journal] = <<"staged", v>> /\ ~spoiled => Whole(v)

(* The set under construction is of one version: what lies under a final   *)
(* name is complete, belongs to the journal, and never came from a part or *)
(* from another download.                                                  *)
OneBinding ==
  ~spoiled /\ Present # {} =>
    \E v \in Version :
      /\ file[Journal] \in Phase \X {v}
      /\ Present \subseteq Files(v) \cup {Journal}
      /\ \A n \in Present \ {Journal} : file[n] = v

(* Whatever commands were stopped before, the files in the directory fit   *)
(* its journal.                                                            *)
DirectoryFits == TypeOK /\ StagedIsWhole /\ OneBinding

(* A command that fails destroys nothing: no file but the journal is ever  *)
(* overwritten, and a journal never goes back from "staged".               *)
NeverOverwritten ==
  [][lease # NoProc =>
       \A n \in Present :
         \/ file'[n] = file[n]
         \/ \E v \in Version :
              /\ n = Journal
              /\ file[n] = <<"receiving", v>> /\ file'[n] = <<"staged", v>>]_vars

(* Recovery accepts what an interrupted command has completed: a whole set *)
(* with either phase of its journal and no partial is not refused.         *)
WholeIsRecovered ==
  [][\A p \in Proc :
       /\ pc[p] \in {"open", "begin", "check"} /\ command[p] = "recover"
       /\ result'[p] = "refused"
       => ~\E v \in Version :
            /\ Inventory(v) /\ Whole(v)
            /\ file[Journal] \in Phase \X {v}]_vars

Committed(v) == file[Journal] = <<"staged", v>> /\ Whole(v)

Abstract ==
  INSTANCE StagedSet WITH
    set <- IF \E v \in Version : Committed(v)
           THEN CHOOSE v \in Version : Committed(v) ELSE Nothing,
    told <- [p \in Proc |-> IF result[p] \in Version THEN result[p] ELSE Nothing]

(* The detailed commands implement the promise of StagedSet: the set       *)
(* becomes staged in one step, and a report is of the set that is staged.  *)
AbstractSpec == Abstract!Spec
=============================================================================
