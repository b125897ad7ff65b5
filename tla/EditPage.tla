------------------------------- MODULE EditPage -------------------------------
(***************************************************************************)
(* The edit page of the frontend (store/page.ts), the sandbox behind its   *)
(* form (models/sandbox.ts) and the look-ups of foreign keys by its fields *)
(* (fields/fk/fk/composables.ts), among other clients that save the row.   *)
(*                                                                         *)
(* The user works on a page that is not loading: the form is hidden while  *)
(* it is.  An ETag is abstracted to whether the row is still as it was     *)
(* when the instance was read (fresh).  Values are valid; an invalid one   *)
(* ends a save before anything is changed.                                 *)
(*                                                                         *)
(* The server compares the tag, gets the row and saves it in three steps   *)
(* with nothing locked: others may save the row between them.              *)
(***************************************************************************)
EXTENDS Naturals, FiniteSets

CONSTANTS
  Fields,
  Lookups,    \* the fields whose values are keys of related objects
  Values,
  FirstRow,   \* what is in the database when the page is opened
  Saves,      \* saves that may be on their way at a time
  Views,      \* how the views save
  MaxOthers,  \* bound: saves of other clients
  MaxReloads  \* bound: reloads of the page

ASSUME EditAssumption ==
  /\ Lookups \subseteq Fields /\ FirstRow \in [Fields -> Values] /\ MaxOthers \in Nat /\ MaxReloads \in Nat
  /\ Views \subseteq [partial : BOOLEAN, sameModel : BOOLEAN]

None == "none"

ASSUME NoneAssumption == None \notin Values

VARIABLES
  view,      \* partial: PATCH, of changed fields only; sameModel: the row is
             \* updated with the model it is retrieved with
  row,       \* in the database
  others,    \* saves of other clients so far
  place,     \* "open", "error" or "left"
  reloads,   \* so far
  loading,
  load,      \* a GET on its way: "none", "asked" or what it has read
  fresh,     \* the ETag of the page's instance is that of the row
  shown,     \* the sandbox
  raw,       \* fields that show a key whose object is not known
  looking,   \* look-ups on their way
  changed,   \* changedFields
  saves,
  typed,     \* history: fields the user has set, until saved or given up
  under,     \* history: fields typed into while a save was on its way
  late       \* history: fields a look-up has set to another value

database == <<row, others>>
form == <<shown, raw, looking, changed>>
editHistory == <<typed, under, late>>
editVars == <<view, database, place, reloads, loading, load, fresh, form, saves, editHistory>>

Idle == [at |-> "idle"]
Flying == {s \in Saves : saves[s].at # "idle"}
Nothing == [f \in Fields |-> None]

EditInit ==
  /\ view \in Views
  /\ row = FirstRow /\ others = 0
  /\ place = "open" /\ reloads = 0 /\ loading = TRUE /\ load = [at |-> "asked"] /\ fresh = FALSE
  /\ shown = Nothing /\ raw = {} /\ looking = {} /\ changed = {}
  /\ saves = [s \in Saves |-> Idle]
  /\ typed = {} /\ under = {} /\ late = {}

-----------------------------------------------------------------------------
(* The row *)

\* Whatever is written, no tag read before is the row's any more.
WriteRow(values) ==
  /\ row' = [f \in Fields |-> IF f \in DOMAIN values THEN values[f] ELSE row[f]]
  /\ fresh' = FALSE
  /\ load' = IF load.at = "read" THEN [load EXCEPT !.fresh = FALSE] ELSE load

\* Another save has changed some fields.
Overtaken(save, fields) ==
  CASE save.at = "sent" -> [save EXCEPT !.fresh = FALSE]
    [] save.at \in {"allowed", "got"} -> [save EXCEPT !.moved = @ \cup fields]
    [] OTHER -> save

OtherSaves(f, v) ==
  /\ place # "left" /\ others < MaxOthers /\ others' = others + 1
  /\ row[f] # v /\ WriteRow([g \in {f} |-> v])
  /\ saves' = [s \in Saves |-> Overtaken(saves[s], {f})]
  /\ UNCHANGED <<view, reloads, place, loading, form, editHistory>>

-----------------------------------------------------------------------------
(* Loading *)

LoadServed ==
  /\ load.at = "asked"
  /\ load' = [at |-> "read", row |-> row, fresh |-> view.sameModel]
  /\ UNCHANGED <<view, reloads, database, place, loading, fresh, form, saves, editHistory>>

\* Fields that are shown a key ask for its object.
Fetched(values) == looking \cup {<<f, values[f]>> : f \in Lookups}

\* updateData with another instance, and a sandbox of its own; put into another
\* model it has no tag.
Loaded ==
  /\ load.at = "read" /\ place = "open"
  /\ load' = [at |-> "none"] /\ loading' = FALSE
  /\ shown' = load.row /\ fresh' = load.fresh
  /\ raw' = Lookups /\ looking' = Fetched(load.row)
  /\ changed' = {} /\ typed' = {} /\ under' = {} /\ late' = {}
  /\ saves' = [s \in Saves |-> IF s \in Flying THEN [saves[s] EXCEPT !.mine = FALSE] ELSE Idle]
  /\ UNCHANGED <<view, reloads, database, place>>

LoadFails ==
  /\ load.at # "none" /\ place = "open"
  /\ load' = [at |-> "none"] /\ loading' = FALSE /\ place' = "error"
  /\ UNCHANGED <<view, reloads, database, fresh, form, saves, editHistory>>

CanAct == place = "open" /\ ~loading

Reload ==
  /\ CanAct /\ load.at = "none" /\ reloads < MaxReloads /\ reloads' = reloads + 1
  /\ load' = [at |-> "asked"] /\ loading' = TRUE
  /\ UNCHANGED <<view, database, place, fresh, form, saves, editHistory>>

-----------------------------------------------------------------------------
(* The form *)

\* The object of a key arrives and replaces what the field shows, unmarked.
LookUp(f, v) ==
  /\ <<f, v>> \in looking /\ place = "open"
  /\ looking' = looking \ {<<f, v>>}
  /\ shown' = [shown EXCEPT ![f] = v] /\ raw' = raw \ {f}
  /\ late' = IF shown[f] = v THEN late ELSE late \cup {f}
  /\ UNCHANGED <<view, reloads, database, place, loading, load, fresh, changed, saves,
                 typed, under>>

\* A mutant of Marked: markChanged is not given to sandbox.set.
MarkedNever(f) == changed

Marked(f) == changed \cup {f}

Edit(f, v) ==
  /\ CanAct /\ shown[f] # v
  /\ shown' = [shown EXCEPT ![f] = v] /\ raw' = raw \ {f}
  /\ changed' = Marked(f)
  /\ typed' = typed \cup {f}
  /\ under' = IF Flying = {} THEN under \ {f} ELSE under \cup {f}
  /\ late' = late \ {f}
  /\ UNCHANGED <<view, reloads, database, place, loading, load, fresh, looking, saves>>

-----------------------------------------------------------------------------
(* Saving *)

Sent(all) == [f \in (IF view.partial /\ ~all THEN changed ELSE Fields) |-> shown[f]]

\* With allFields and ignoreEtag it is the overwriting the user has agreed to.
\* History: touched, by the user or a look-up; moved, by others since the tag
\* was compared.
Request(agreed) ==
  [at |-> "sent", values |-> Sent(agreed), match |-> view.sameModel /\ ~agreed, fresh |-> fresh,
   mine |-> TRUE, agreed |-> agreed, writes |-> Sent(agreed), touched |-> late \cup typed, moved |-> {}]

Save(s) ==
  /\ CanAct /\ saves[s] = Idle
  /\ saves' = [saves EXCEPT ![s] = Request(FALSE)]
  /\ loading' = TRUE
  /\ UNCHANGED <<view, reloads, database, place, load, fresh, form, editHistory>>

Accepted(save) == save.match => save.fresh

\* What it has done to the row is past.
Ended(save, answer) == [save EXCEPT !.at = answer, !.writes = save.values, !.moved = {}]

\* A mutant of Compare: If-Match is not looked at.
CompareNothing(s) ==
  /\ saves[s].at = "sent" /\ saves' = [saves EXCEPT ![s].at = "allowed"]
  /\ UNCHANGED <<view, reloads, database, place, loading, load, fresh, form, editHistory>>

\* check_etag, in the initial of the view.
Compare(s) ==
  /\ saves[s].at = "sent"
  /\ saves' = [saves EXCEPT ![s].at = IF Accepted(saves[s]) THEN "allowed" ELSE "changed"]
  /\ UNCHANGED <<view, reloads, database, place, loading, load, fresh, form, editHistory>>

\* The object of the view, with what was sent set on it.
GetObject(s) ==
  /\ saves[s].at = "allowed"
  /\ LET sent == DOMAIN saves[s].values
         writes == [f \in Fields |-> IF f \in sent THEN saves[s].values[f] ELSE row[f]]
     IN  saves' = [saves EXCEPT ![s] = [saves[s] EXCEPT !.at = "got", !.writes = writes,
                                                        !.moved = saves[s].moved \cap sent]]
  /\ UNCHANGED <<view, reloads, database, place, loading, load, fresh, form, editHistory>>

\* All its fields are written.  The answer says so, or is lost on its way.
Write(s, answer) ==
  /\ saves[s].at = "got" /\ WriteRow(saves[s].writes)
  /\ LET fields == {f \in Fields : saves[s].writes[f] # row[f]}
     IN  saves' = [t \in Saves |-> IF t = s THEN Ended(saves[s], answer)
                                             ELSE Overtaken(saves[t], fields)]
  /\ UNCHANGED <<view, reloads, others, place, loading, form, editHistory>>

\* For any other reason, the network included.
Refuse(s) ==
  /\ saves[s].at \in {"sent", "allowed", "got"} /\ saves' = [saves EXCEPT ![s] = Ended(@, "failed")]
  /\ UNCHANGED <<view, reloads, database, place, loading, load, fresh, form, editHistory>>

\* The page's store is disposed; its requests go on.
Gone ==
  /\ place' = "left" /\ loading' = FALSE /\ load' = [at |-> "none"] /\ fresh' = FALSE
  /\ shown' = Nothing /\ raw' = {} /\ looking' = {} /\ changed' = {}

Unsaved(save) ==
  {f \in typed : ~(save.mine /\ f \in DOMAIN save.values \ late /\ save.values[f] = shown[f])}

\* markUnchanged of the instance that was saved, and openPage: the router's
\* guard asks if there are marks, and the user may stay.
Succeeded(s) ==
  /\ saves[s].at = "ok" /\ place # "left"
  /\ saves' = [saves EXCEPT ![s] = Idle]
  /\ LET marks == IF saves[s].mine THEN {} ELSE changed
     IN  \/ Gone /\ typed' = IF marks = {} THEN Unsaved(saves[s]) ELSE {}
         \/ /\ marks # {} /\ typed' = Unsaved(saves[s]) /\ changed' = marks /\ loading' = FALSE
            /\ UNCHANGED <<place, load, fresh, shown, raw, looking>>
  /\ UNCHANGED <<view, reloads, database, under, late>>

\* A mutant of Failed: without the finally.
FailedLoading(s) ==
  /\ saves[s].at = "failed" /\ place # "left"
  /\ saves' = [saves EXCEPT ![s] = Idle]
  /\ UNCHANGED <<view, reloads, database, place, loading, load, fresh, form, editHistory>>

Failed(s) ==
  /\ saves[s].at = "failed" /\ place # "left"
  /\ saves' = [saves EXCEPT ![s] = Idle]
  /\ loading' = FALSE
  /\ UNCHANGED <<view, reloads, database, place, load, fresh, form, editHistory>>

\* 412: the user does not want to overwrite, or does.  The second save is
\* returned and not awaited, so finally ends the loading it has just begun.
Conflict(s, agreed) ==
  /\ saves[s].at = "changed" /\ place # "left"
  /\ saves' = [saves EXCEPT ![s] = IF agreed THEN Request(TRUE) ELSE Idle]
  /\ loading' = FALSE
  /\ UNCHANGED <<view, reloads, database, place, load, fresh, form, editHistory>>

AnswerHandled(s) == Succeeded(s) \/ Failed(s) \/ Conflict(s, TRUE) \/ Conflict(s, FALSE)

-----------------------------------------------------------------------------
(* Leaving *)

Leave ==
  /\ place # "left" /\ Gone
  /\ typed' = IF changed = {} THEN typed ELSE {}
  /\ UNCHANGED <<view, reloads, database, saves, under, late>>

Cancel ==
  /\ CanAct /\ Gone /\ typed' = {}
  /\ UNCHANGED <<view, reloads, database, saves, under, late>>

ServeSave(s) == Compare(s) \/ GetObject(s) \/ Write(s, "ok") \/ Write(s, "failed") \/ Refuse(s)

EditNext ==
  \/ \E f \in Fields, v \in Values : OtherSaves(f, v) \/ LookUp(f, v) \/ Edit(f, v)
  \/ LoadServed \/ Loaded \/ LoadFails \/ Reload
  \/ \E s \in Saves : Save(s) \/ ServeSave(s) \/ AnswerHandled(s)
  \/ Leave \/ Cancel

EditSpec == EditInit /\ [][EditNext]_editVars

\* Requests are answered and their promises settle.
EditFairSpec ==
  /\ EditSpec /\ WF_editVars(LoadServed) /\ WF_editVars(Loaded)
  /\ \A s \in Saves : WF_editVars(ServeSave(s)) /\ WF_editVars(AnswerHandled(s))
-----------------------------------------------------------------------------
\* The shape of the state; a field that shows a bare key is being looked up.
EditTypeOK ==
  /\ row \in [Fields -> Values] /\ others \in 0..MaxOthers /\ reloads \in 0..MaxReloads
  /\ place \in {"open", "error", "left"} /\ loading \in BOOLEAN /\ fresh \in BOOLEAN
  /\ shown \in [Fields -> Values \cup {None}]
  /\ typed \subseteq Fields /\ changed \subseteq Fields /\ under \subseteq Fields /\ late \subseteq Lookups
  /\ \A f \in raw : <<f, shown[f]>> \in looking

\* 'Changes you made may not be saved.': what the user has typed has its mark, and
\* the page is left with it unsaved only if the user has agreed, but for what
\* a late look-up has replaced or was typed while a save was on its way.
UnsavedIsAskedAbout ==
  typed \subseteq under \cup late \cup (IF place = "left" THEN {} ELSE changed)

\* On its way to the row, with no refusal to come.
Passing(save) == (save.at = "sent" /\ Accepted(save)) \/ save.at \in {"allowed", "got"}

Undoes(save, f) == f \in DOMAIN save.writes \ save.touched /\ save.writes[f] # row[f]

\* 'The data has been changed on the server. Do you want to overwrite it?': a
\* save the user has not been asked about undoes nothing that others had saved
\* when its tag was compared, to fields the user has not touched.  A PUT of
\* another model than the page has read overwrites without a question.
OthersAreKept ==
  view.partial \/ view.sameModel =>
    \A s \in Saves : Passing(saves[s]) /\ ~saves[s].agreed =>
      \A f \in Fields \ saves[s].moved : ~Undoes(saves[s], f)

\* The whole of it, which no run checks since the code does not keep it: what
\* others save after the comparison is undone, by a PATCH too.
OthersAreAlwaysKept ==
  view.partial \/ view.sameModel =>
    \A s \in Saves : Passing(saves[s]) /\ ~saves[s].agreed => \A f \in Fields : ~Undoes(saves[s], f)

\* A page that is loading or saving is usable again, or left, in the end.
FormComesBack == loading ~> (~loading \/ place = "left")
=============================================================================
