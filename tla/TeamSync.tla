------------------------------- MODULE TeamSync -------------------------------
(***************************************************************************)
(* team_sync.py: workstations share the public part of their profiles      *)
(* through one versioned record on a mounted directory.  A push names the  *)
(* version it builds on and is refused if the record has another; the      *)
(* check and the write are under the record's lock.  A pull reads the      *)
(* record without the lock and merges it into the local store in one store *)
(* transaction (Catalogue: one step).                                      *)
(*                                                                         *)
(* A row is its public endpoint (what public_profile_binding compares) and *)
(* what stays local: a credential, forwards.  All profiles are in one      *)
(* group.                                                                  *)
(***************************************************************************)
EXTENDS Naturals, FiniteSets

CONSTANTS
  Client,        \* workstations, each with a profile store
  Command,       \* the `row team-sync` processes that may run at a time
  ClientOf,      \* the workstation of each
  Name,
  Endpoint,
  LocalOnly,     \* endpoints `profile_is_shareable` refuses
  LocalRow,      \* the rows users write in their stores
  PullReplaces,  \* with and without `--replace`
  Absent,
  NoCommand,
  Cap,           \* rows that fit in MAX_TEAM_SYNC_BYTES
  MaxVersion, MaxEdits  \* bounds

ASSUME TeamSyncAssumption ==
  /\ ClientOf \in [Command -> Client]
  /\ NoCommand \notin Command
  /\ LocalOnly \subseteq Endpoint
  /\ Absent \notin Endpoint
  /\ LocalRow \subseteq [pub : Endpoint, cred : BOOLEAN, forwards : BOOLEAN]
  /\ Absent \notin [pub : Endpoint, cred : BOOLEAN, forwards : BOOLEAN]
  /\ PullReplaces \subseteq BOOLEAN
  /\ Cap \in Nat /\ MaxVersion \in Nat /\ MaxEdits \in Nat

VARIABLES
  record,    \* the shared record: its version and its rows
  holder,    \* the command that holds the record's lock
  store,     \* the rows of each workstation's store
  defaults,  \* does its group hand down credentials or forwards?
  pc,
  expected,  \* the version a push builds on
  rows,      \* the rows a pull has read, or a push has loaded
  carried,   \* of those, the ones a push has loaded
  known,     \* the newest version a pull or push has printed there
  edited,    \* the names its user has changed since they were last pulled
  edits      \* number of local changes, for the bound

vars == <<record, holder, store, defaults, pc, expected, rows, carried, known, edited,
          edits>>
local == <<store, defaults, edited, edits>>

Row == [pub : Endpoint, cred : BOOLEAN, forwards : BOOLEAN]
Shared == [Name -> Endpoint \cup {Absent}]
Store == [Name -> Row \cup {Absent}]

Named(r) == {n \in Name : r[n] # Absent}

Nothing == [n \in Name |-> Absent]

Goto(m, label) == pc' = [pc EXCEPT ![m] = label]

(* The process ends, and its variables with it.                            *)
End(m) ==
  /\ Goto(m, "idle")
  /\ expected' = [expected EXCEPT ![m] = 0]
  /\ rows' = [rows EXCEPT ![m] = Nothing]
  /\ carried' = [carried EXCEPT ![m] = {}]

Init ==
  /\ record = [version |-> 0, rows |-> Nothing]
  /\ holder = NoCommand
  /\ store = [c \in Client |-> Nothing]
  /\ defaults = [c \in Client |-> FALSE]
  /\ pc = [m \in Command |-> "idle"]
  /\ expected = [m \in Command |-> 0]
  /\ rows = [m \in Command |-> Nothing]
  /\ carried = [m \in Command |-> {}]
  /\ known = [c \in Client |-> 0]
  /\ edited = [c \in Client |-> {}]
  /\ edits = 0

(* The user changes, adds or removes a profile of a workstation.           *)
Edit(c, n) ==
  /\ edits < MaxEdits
  /\ \E row \in LocalRow \cup {Absent} :
       /\ row # store[c][n]
       /\ store' = [store EXCEPT ![c][n] = row]
  /\ edited' = [edited EXCEPT ![c] = @ \cup {n}]
  /\ edits' = edits + 1
  /\ UNCHANGED <<record, holder, defaults, pc, expected, rows, carried, known>>

SetGroupDefaults(c) ==
  /\ edits < MaxEdits
  /\ defaults' = [defaults EXCEPT ![c] = ~@]
  /\ edits' = edits + 1
  /\ UNCHANGED <<record, holder, store, pc, expected, rows, carried, known, edited>>
-------------------------------------------------------------------------------
(* `_read_team_sync_bytes` refuses a record that is too large.             *)
Readable == Cardinality(Named(record.rows)) <= Cap

PullRead(m) ==
  /\ pc[m] = "idle" /\ Readable
  /\ rows' = [rows EXCEPT ![m] = record.rows]
  /\ expected' = [expected EXCEPT ![m] = record.version]
  /\ Goto(m, "merge")
  /\ UNCHANGED <<record, holder, carried, known, local>>

SameBinding(c, n, remote) == store[c][n] # Absent /\ store[c][n].pub = remote[n]

(* assert_untrusted_profile_defaults_safe, for every row received.         *)
Safe(c, remote) ==
  defaults[c] => \A n \in Named(remote) : SameBinding(c, n, remote)

(* Mutant: the credential stays with the name.                             *)
ReceivedByName(c, n, remote) ==
  [pub |-> remote[n],
   cred |-> store[c][n] # Absent /\ store[c][n].cred,
   forwards |-> FALSE]

(* A received row: only the credential of the same endpoint is kept.       *)
Received(c, n, remote) ==
  [pub |-> remote[n],
   cred |-> SameBinding(c, n, remote) /\ store[c][n].cred,
   forwards |-> FALSE]

MergeInto(c, remote, replace) ==
  [n \in Name |-> IF n \in Named(remote) THEN Received(c, n, remote)
                  ELSE IF replace THEN Absent ELSE store[c][n]]

(* `update_profiles(merge)`; the command then prints the version.          *)
PullMerge(m) ==
  LET c == ClientOf[m]
  IN  /\ pc[m] = "merge" /\ Safe(c, rows[m])
      /\ \E replace \in PullReplaces :
           /\ store' = [store EXCEPT ![c] = MergeInto(c, rows[m], replace)]
           /\ edited' = [edited EXCEPT ![c] = IF replace THEN {} ELSE @ \ Named(rows[m])]
      /\ known' = [known EXCEPT ![c] = IF expected[m] > @ THEN expected[m] ELSE @]
      /\ End(m)
      /\ UNCHANGED <<record, holder, defaults, edits>>

(* A row that would inherit, a policy, a busy store: nothing is merged.    *)
PullRefused(m) ==
  /\ pc[m] = "merge"
  /\ End(m)
  /\ UNCHANGED <<record, holder, known, local>>
-------------------------------------------------------------------------------
(* The rows a store would publish.                                         *)
Public(s) ==
  [n \in Name |-> IF s[n] # Absent /\ s[n].pub \notin LocalOnly THEN s[n].pub ELSE Absent]

(* `store.load(resolve=False)`, before any lock.  The user names the       *)
(* newest version printed.                                                 *)
PushLoad(m) ==
  /\ pc[m] = "idle"
  /\ rows' = [rows EXCEPT ![m] = Public(store[ClientOf[m]])]
  /\ expected' = [expected EXCEPT ![m] = known[ClientOf[m]]]
  /\ carried' = [carried EXCEPT ![m] = edited[ClientOf[m]]]
  /\ Goto(m, "lock")
  /\ UNCHANGED <<record, holder, known, local>>

(* Mutant: the lock is one that readers may share.                         *)
PushLockShared(m) ==
  /\ pc[m] = "lock"
  /\ holder' = m
  /\ Goto(m, "check")
  /\ UNCHANGED <<record, expected, rows, carried, known, local>>

PushLock(m) ==
  /\ pc[m] = "lock" /\ holder = NoCommand
  /\ holder' = m
  /\ Goto(m, "check")
  /\ UNCHANGED <<record, expected, rows, carried, known, local>>

(* TeamSyncBusyError.                                                      *)
PushBusy(m) ==
  /\ pc[m] = "lock"
  /\ End(m)
  /\ UNCHANGED <<record, holder, known, local>>

(* Mutant: any version read before will do.                                *)
PushCheckNotNewer(m) ==
  /\ pc[m] = "check" /\ Readable
  /\ expected[m] <= record.version
  /\ Goto(m, "write")
  /\ UNCHANGED <<record, holder, expected, rows, carried, known, local>>

PushCheck(m) ==
  /\ pc[m] = "check" /\ Readable
  /\ record.version = expected[m]
  /\ Goto(m, "write")
  /\ UNCHANGED <<record, holder, expected, rows, carried, known, local>>

(* TeamSyncConflictError, or a record that cannot be read.                 *)
PushConflict(m) ==
  /\ pc[m] = "check"
  /\ record.version # expected[m] \/ ~Readable
  /\ holder' = NoCommand
  /\ End(m)
  /\ UNCHANGED <<record, known, local>>

PushWrite(m) ==
  /\ pc[m] = "write" /\ record.version < MaxVersion
  /\ record' = [version |-> expected[m] + 1, rows |-> rows[m]]
  /\ Goto(m, "written")
  /\ UNCHANGED <<holder, expected, rows, carried, known, local>>

(* `_write_bytes_shared_atomic` raises before the rename, if it does.      *)
PushFails(m) ==
  /\ pc[m] = "write"
  /\ holder' = NoCommand
  /\ End(m)
  /\ UNCHANGED <<record, known, local>>

(* The lock is released and the new version printed.                       *)
PushDone(m) ==
  /\ pc[m] = "written"
  /\ holder' = NoCommand
  /\ known' = [known EXCEPT ![ClientOf[m]] = expected[m] + 1]
  /\ End(m)
  /\ UNCHANGED <<record, local>>

(* A command is killed, its lock released by the system.                   *)
Crash(m) ==
  /\ pc[m] # "idle"
  /\ holder' = IF holder = m THEN NoCommand ELSE holder
  /\ End(m)
  /\ UNCHANGED <<record, known, local>>

Next ==
  \/ \E c \in Client : SetGroupDefaults(c) \/ \E n \in Name : Edit(c, n)
  \/ \E m \in Command :
       \/ PullRead(m) \/ PullMerge(m) \/ PullRefused(m)
       \/ PushLoad(m) \/ PushLock(m) \/ PushBusy(m) \/ PushCheck(m) \/ PushConflict(m)
       \/ PushWrite(m) \/ PushFails(m) \/ PushDone(m)
       \/ Crash(m)

Spec == Init /\ [][Next]_vars
-------------------------------------------------------------------------------
TypeOK ==
  /\ record \in [version : 0..MaxVersion, rows : Shared]
  /\ holder \in Command \cup {NoCommand}
  /\ store \in [Client -> Store]
  /\ defaults \in [Client -> BOOLEAN]
  /\ pc \in [Command -> {"idle", "merge", "lock", "check", "write", "written"}]
  /\ expected \in [Command -> 0..MaxVersion]
  /\ rows \in [Command -> Shared]
  /\ carried \in [Command -> SUBSET Name]
  /\ known \in [Client -> 0..MaxVersion]
  /\ edited \in [Client -> SUBSET Name]
  /\ edits \in 0..MaxEdits

(* docs/TEAM_SYNC.md: the lock serializes the check and the write,         *)
(* "preventing two writers from publishing the same version concurrently". *)
(* TypeOK is the type invariant.                                           *)
EachVersionOnce ==
  []TypeOK /\ [][record' # record => record'.version = record.version + 1]_record

(* A row is as its user left it, or as an endpoint without a credential:   *)
(* what a pull brings never gets a credential or a forward that was not    *)
(* there for the same endpoint, not even through the group.                *)
Armed(s, d, n) == s[n] # Absent /\ s[n].pub \notin LocalOnly /\ (s[n].cred \/ d)

PullNeverRebinds ==
  [][\A c \in Client, n \in Name :
       edits' = edits /\ Armed(store'[c], defaults'[c], n) =>
         /\ Armed(store[c], defaults[c], n)
         /\ store'[c][n].pub = store[c][n].pub]_vars

(* "A client must push the version it read; if another client has published*)
(* first, the stale client receives a conflict": a push only changes rows  *)
(* of the version before it that its user changed.                         *)
NoLostPublication ==
  [][\A n \in Name :
       record'.rows[n] # record.rows[n] /\ record.rows[n] # Absent =>
         \E m \in Command :
           /\ pc[m] = "write" /\ pc'[m] = "written"
           /\ n \in carried[m]]_record
===============================================================================
