------------------------------- MODULE Catalogue -------------------------------
(***************************************************************************)
(* What a ProfileStore promises its callers (storage.py): each mutation    *)
(* takes effect at one moment, on the document as it is at that moment, or *)
(* not at all.  Effect says what each one makes of a document; it is empty *)
(* where the call is refused.                                              *)
(*                                                                         *)
(* Rows have unique names here.  The order of the rows is left out, and so *)
(* is what a row holds beyond being equal to another one or not.           *)
(***************************************************************************)
CONSTANTS
  Thread,
  Name,
  Row,
  NoRow,
  Setting,    \* group default settings
  Examples,   \* the rows `example_profiles` makes
  Op,         \* the calls made
  Missing,    \* the document while there is no file
  NoOp

Rows == [Name -> Row \cup {NoRow}]
Document == [rows : Rows, defaults : SUBSET Setting]
Empty == [rows |-> [n \in Name |-> NoRow], defaults |-> {}]

(* The calls and their arguments.  `update` stands for every updater.      *)
OpType ==
  [kind : {"init"}, examples : BOOLEAN, purge : BOOLEAN]
    \cup [kind : {"purge", "update"}]
    \cup [kind : {"save"}, rows : Rows]
    \cup [kind : {"replace_named"}, original : Name, name : Name, row : Row]
    \cup [kind : {"add"}, name : Name, row : Row, replace : BOOLEAN]
    \cup [kind : {"remove"}, name : Name]
    \cup [kind : {"add_many"}, rows : Rows, replace : BOOLEAN, skip : BOOLEAN]
    \cup [kind : {"import"}, rows : Rows, replace : BOOLEAN,
          hasDefaults : BOOLEAN, defaults : SUBSET Setting]
    \cup [kind : {"set_defaults"}, defaults : SUBSET Setting, replace : BOOLEAN]

Named(rows) == {n \in Name : rows[n] # NoRow}

(* Rows of `new` win over the rows of `old` with their names.              *)
Merged(old, new) == [n \in Name |-> IF new[n] # NoRow THEN new[n] ELSE old[n]]

Without(rows, names) == [n \in Name |-> IF n \in names THEN NoRow ELSE rows[n]]

(* The example rows that are still what `example_profiles` made them.      *)
Unchanged(rows) == {n \in Named(rows) : rows[n] = Examples[n]}

Add(op, rows) ==
  IF op.name \in Named(rows) /\ ~op.replace
    THEN {}
    ELSE {[rows EXCEPT ![op.name] = op.row]}

Remove(op, rows) ==
  IF op.name \in Named(rows) THEN {Without(rows, {op.name})} ELSE {}

ReplaceNamed(op, rows) ==
  IF op.original \in Named(rows) /\ (op.name = op.original \/ op.name \notin Named(rows))
    THEN {[Without(rows, {op.original}) EXCEPT ![op.name] = op.row]}
    ELSE {}

AddMany(op, rows) ==
  LET known == Named(op.rows) \cap Named(rows)
  IN  IF known # {} /\ ~op.replace /\ ~op.skip
        THEN {}
        ELSE {IF op.replace THEN Merged(rows, op.rows) ELSE Merged(op.rows, rows)}

Import(op, doc) ==
  IF Named(op.rows) \cap Named(doc.rows) # {} /\ ~op.replace
    THEN {}
    ELSE {[rows |-> Merged(doc.rows, op.rows),
           defaults |-> IF op.replace /\ op.hasDefaults THEN op.defaults
                                                         ELSE doc.defaults]}

SetDefaults(op, doc) ==
  {[doc EXCEPT !.defaults = IF op.replace THEN op.defaults ELSE @ \cup op.defaults]}

WithRows(doc, results) == {[doc EXCEPT !.rows = r] : r \in results}

Effect(op, doc) ==
  CASE op.kind = "purge" -> WithRows(doc, {Without(doc.rows, Unchanged(doc.rows))})
    [] op.kind = "save" -> WithRows(doc, {op.rows})
    [] op.kind = "update" -> WithRows(doc, Rows)
    [] op.kind = "replace_named" -> WithRows(doc, ReplaceNamed(op, doc.rows))
    [] op.kind = "add" -> WithRows(doc, Add(op, doc.rows))
    [] op.kind = "remove" -> WithRows(doc, Remove(op, doc.rows))
    [] op.kind = "add_many" -> WithRows(doc, AddMany(op, doc.rows))
    [] op.kind = "import" -> Import(op, doc)
    [] op.kind = "set_defaults" -> SetDefaults(op, doc)

(* `init` fills a store that has no file; one that has is purged, if asked.*)
Created(op) ==
  [Empty EXCEPT !.rows = IF op.examples THEN Examples ELSE @]

(* A missing file reads as an empty document, for every call but `init`.   *)
Read(doc) == IF doc = Missing THEN Empty ELSE doc

Results(op, doc) ==
  CASE op.kind # "init" -> Effect(op, Read(doc))
    [] op.kind = "init" /\ doc = Missing -> {Created(op)}
    [] op.kind = "init" /\ doc # Missing /\ op.purge -> Effect([kind |-> "purge"], doc)
    [] OTHER -> {doc}
-------------------------------------------------------------------------------
VARIABLES
  document,   \* the stored document
  pending,    \* the call each thread is in
  ended       \* how it ended, if it has

vars == <<document, pending, ended>>

Init ==
  /\ document \in Document \cup {Missing}
  /\ pending = [t \in Thread |-> NoOp]
  /\ ended = [t \in Thread |-> "no"]

Call(t, op) ==
  /\ pending[t] = NoOp
  /\ pending' = [pending EXCEPT ![t] = op]
  /\ ended' = [ended EXCEPT ![t] = "no"]
  /\ UNCHANGED document

Ends(t, how) ==
  /\ pending[t] # NoOp /\ ended[t] = "no"
  /\ ended' = [ended EXCEPT ![t] = how]
  /\ UNCHANGED pending

(* The one moment of a call.  A result that changes nothing need not be    *)
(* written, and a failure after the file is replaced may not be undone.    *)
Apply(t) ==
  /\ \E how \in {"ok", "error"} : Ends(t, how)
  /\ \E d \in Results(pending[t], document) :
       \/ document' = d
       \/ d = Read(document) /\ UNCHANGED document

Refused(t) == Ends(t, "error") /\ UNCHANGED document

(* Back to the caller, or killed before there was an outcome.              *)
Return(t) ==
  /\ pending[t] # NoOp
  /\ pending' = [pending EXCEPT ![t] = NoOp]
  /\ ended' = [ended EXCEPT ![t] = "no"]
  /\ UNCHANGED document

Next ==
  \E t \in Thread :
    (\E op \in Op : Call(t, op)) \/ Apply(t) \/ Refused(t) \/ Return(t)

Spec == Init /\ [][Next]_vars
================================================================================
