-------------------------- MODULE Frontend_proofs --------------------------
(***************************************************************************)
(* The frontend: the edit page over its sandbox, and the pages that keep   *)
(* themselves up to date, which share no state.                            *)
(***************************************************************************)
EXTENDS AutoUpdate, EditPage, FiniteSetTheorems, SequenceTheorems, WellFoundedInduction, TLAPS

(***************************************************************************)
(* The edit page, with any fields, any number of saves on their way and    *)
(* any view.                                                               *)
(***************************************************************************)

\* What is carried to and from the server.
Partials == UNION {[D -> Values] : D \in SUBSET Fields}
SaveRequests ==
  [at : {"sent", "allowed", "got", "ok", "failed", "changed"}, values : Partials, match : BOOLEAN,
   fresh : BOOLEAN, mine : BOOLEAN, agreed : BOOLEAN, writes : Partials, touched : SUBSET Fields,
   moved : SUBSET Fields]
GetRequests ==
  {[at |-> "none"], [at |-> "asked"]}
    \cup [at : {"read"}, row : [Fields -> Values], fresh : BOOLEAN]

\* The requests, the look-ups and the view keep their types too.
TrafficOK ==
  /\ view \in Views /\ load \in GetRequests /\ saves \in [Saves -> SaveRequests \cup {Idle}]
  /\ raw \subseteq Lookups /\ looking \subseteq Lookups \X Values

\* A form is filled before it can be used.
FilledBeforeUse ==
  \/ place = "left"
  \/ shown \in [Fields -> Values]
  \/ Flying = {} /\ looking = {} /\ (place = "open" => loading)

\* A save of this sandbox carries all that was typed before it, as it is shown.
SavesCarryTyped ==
  \A s \in Flying : saves[s].mine =>
    \A f \in typed \ (under \cup late) :
      f \in DOMAIN saves[s].values /\ saves[s].values[f] = shown[f]

\* Only what the user has typed is marked.
MarksAreTyped == changed \subseteq typed

\* A tag that is the row's stands for its values.
FreshTagIsRow ==
  /\ fresh => \A f \in Fields \ (late \cup typed) : shown[f] = row[f]
  /\ load.at = "read" => (load.fresh => load.row = row)
  /\ \A s \in Saves : saves[s].at = "sent" /\ saves[s].fresh =>
       \A f \in Fields : ~Undoes(saves[s], f)

\* What a save is made of, and by which condition.  It writes what was sent
\* until the row is got.
SavesFollowView ==
  \A s \in Saves :
    /\ saves[s].at \in {"sent", "allowed"} => saves[s].writes = saves[s].values
    /\ saves[s].at = "sent" /\ ~saves[s].agreed =>
         /\ view.sameModel => saves[s].match
         /\ view.partial => DOMAIN saves[s].writes \subseteq saves[s].touched

EditInv ==
  /\ EditTypeOK /\ TrafficOK /\ FilledBeforeUse /\ SavesCarryTyped /\ MarksAreTyped
  /\ FreshTagIsRow /\ SavesFollowView /\ OthersAreKept /\ UnsavedIsAskedAbout

\* An open form that is not loading shows values; so does one with a save under way.
LEMMA ShownInUse ==
  ASSUME EditInv, CanAct \/ (place # "left" /\ Flying # {})
  PROVE  shown \in [Fields -> Values]
BY DEF EditInv, EditTypeOK, FilledBeforeUse, CanAct

LEMMA ViewTypes == ASSUME TrafficOK PROVE view \in [partial : BOOLEAN, sameModel : BOOLEAN]
BY EditAssumption DEF TrafficOK

LEMMA IdleSave ==
  ASSUME NEW save \in SaveRequests \cup {Idle}
  PROVE  /\ save = Idle <=> save.at = "idle"
         /\ save # Idle => save \in SaveRequests
<1>1. ASSUME save \in SaveRequests PROVE save.at # "idle"
  BY <1>1 DEF SaveRequests
<1>2. Idle.at = "idle"
  BY DEF Idle
<1> QED
  BY <1>1, <1>2

\* Another save changes nothing of a save but what it is compared by.
LEMMA OvertakenSave ==
  ASSUME NEW save \in SaveRequests \cup {Idle}, NEW fields \in SUBSET Fields
  PROVE  /\ Overtaken(save, fields) \in SaveRequests \cup {Idle}
         /\ Overtaken(save, fields).at = save.at
         /\ save # Idle =>
              LET o == Overtaken(save, fields)
              IN  /\ o.values = save.values /\ o.mine = save.mine /\ o.match = save.match
                  /\ o.agreed = save.agreed /\ o.touched = save.touched /\ o.writes = save.writes
                  /\ save.at \in {"allowed", "got"} => o.moved = save.moved \cup fields
         /\ save.at = "sent" => ~Overtaken(save, fields).fresh
<1>1. CASE save = Idle
  BY <1>1 DEF Overtaken, Idle
<1>2. CASE save \in SaveRequests
  <2>1. CASE save.at = "sent"
    <3>1. Overtaken(save, fields) = [save EXCEPT !.fresh = FALSE]
      BY <2>1 DEF Overtaken
    <3> QED
      BY <1>2, <2>1, <3>1 DEF SaveRequests
  <2>2. CASE save.at \in {"allowed", "got"}
    <3>1. Overtaken(save, fields) = [save EXCEPT !.moved = @ \cup fields]
      BY <2>2 DEF Overtaken
    <3> QED
      BY <1>2, <2>2, <3>1 DEF SaveRequests
  <2>3. CASE save.at \notin {"sent", "allowed", "got"}
    <3>1. Overtaken(save, fields) = save
      BY <2>3 DEF Overtaken
    <3> QED
      BY <1>2, <2>3, <3>1
  <2> QED
    BY <2>1, <2>2, <2>3
<1> QED
  BY <1>1, <1>2

LEMMA WrittenRow ==
  ASSUME EditTypeOK, TrafficOK, NEW values \in Partials, WriteRow(values)
  PROVE  /\ row' \in [Fields -> Values] /\ fresh' = FALSE
         /\ load' \in GetRequests /\ load'.at = load.at
         /\ load.at = "read" => ~load'.fresh
<1>1. PICK D \in SUBSET Fields : values \in [D -> Values]
  BY DEF Partials
<1>2. row' \in [Fields -> Values]
  BY <1>1 DEF WriteRow, EditTypeOK
<1>3. CASE load.at = "read"
  <2>1. load \in [at : {"read"}, row : [Fields -> Values], fresh : BOOLEAN]
    BY <1>3 DEF TrafficOK, GetRequests
  <2>2. load' = [load EXCEPT !.fresh = FALSE] /\ fresh' = FALSE
    BY <1>3 DEF WriteRow
  <2> QED
    BY <1>2, <2>1, <2>2 DEF GetRequests
<1>4. CASE load.at # "read"
  BY <1>2, <1>4 DEF WriteRow, TrafficOK
<1> QED
  BY <1>3, <1>4

LEMMA RequestType ==
  ASSUME EditInv, shown \in [Fields -> Values], NEW agreed \in BOOLEAN
  PROVE  /\ Request(agreed) \in SaveRequests
         /\ DOMAIN Request(agreed).values \subseteq Fields
         /\ agreed => DOMAIN Request(agreed).values = Fields
         /\ \A f \in DOMAIN Request(agreed).values : Request(agreed).values[f] = shown[f]
         /\ changed \subseteq DOMAIN Request(agreed).values
         /\ Request(agreed).writes = Request(agreed).values
<1> DEFINE D == IF view.partial /\ ~agreed THEN changed ELSE Fields
<1>1. D \subseteq Fields /\ changed \subseteq D /\ (agreed => D = Fields)
  BY DEF EditInv, EditTypeOK
<1>2. Sent(agreed) = [f \in D |-> shown[f]]
  BY DEF Sent
<1> HIDE DEF D
<1>3. Sent(agreed) \in [D -> Values] /\ \A f \in D : Sent(agreed)[f] = shown[f]
  BY <1>1, <1>2
<1>4. Sent(agreed) \in Partials /\ DOMAIN Sent(agreed) = D
  BY <1>1, <1>3 DEF Partials
<1>5. late \cup typed \subseteq Fields
  BY EditAssumption DEF EditInv, EditTypeOK
<1>6. view.sameModel \in BOOLEAN /\ fresh \in BOOLEAN
  BY ViewTypes DEF EditInv, EditTypeOK
<1>7. /\ Request(agreed) \in SaveRequests /\ Request(agreed).values = Sent(agreed)
      /\ Request(agreed).writes = Sent(agreed)
  BY <1>4, <1>5, <1>6 DEF Request, SaveRequests
<1> QED
  BY <1>1, <1>3, <1>4, <1>7

LEMMA EditInvInit == EditInit => EditInv
<1> SUFFICES ASSUME EditInit PROVE EditInv
  OBVIOUS
<1>1. EditTypeOK
  <2>1. others = 0 /\ reloads = 0 /\ 0 \in 0..MaxOthers /\ 0 \in 0..MaxReloads
    BY EditAssumption DEF EditInit
  <2>2. row \in [Fields -> Values] /\ shown \in [Fields -> Values \cup {None}]
    BY EditAssumption DEF EditInit, Nothing
  <2> QED
    BY <2>1, <2>2 DEF EditInit, EditTypeOK
<1>2. TrafficOK /\ saves = [s \in Saves |-> Idle]
  BY DEF EditInit, TrafficOK, GetRequests
<1>3. Flying = {} /\ \A s \in Saves : saves[s].at = "idle"
  BY <1>2 DEF Flying, Idle
<1> QED
  BY <1>1, <1>2, <1>3 DEF EditInv, EditInit, FilledBeforeUse, SavesCarryTyped, MarksAreTyped,
     FreshTagIsRow, SavesFollowView, OthersAreKept, Passing, UnsavedIsAskedAbout

\* One save of this page undoes nothing.
KeptBy(save) ==
  (view.partial \/ view.sameModel) /\ Passing(save) /\ ~save.agreed =>
    \A f \in Fields \ save.moved : ~Undoes(save, f)

\* A write of the row makes every tag another, and its fields moved.
LEMMA KeptAfterWrite ==
  ASSUME EditInv, NEW fields \in SUBSET Fields, \A f \in Fields \ fields : row'[f] = row[f], view' = view,
         \A t \in Saves : \/ saves'[t] = Overtaken(saves[t], fields)
                          \/ saves'[t].at \in {"ok", "failed"}
  PROVE  OthersAreKept'
<1> SUFFICES ASSUME view.partial \/ view.sameModel, NEW t \in Saves, Passing(saves'[t]), ~saves'[t].agreed,
                    NEW f \in Fields \ saves'[t].moved, f \in DOMAIN saves'[t].writes \ saves'[t].touched
             PROVE  saves'[t].writes[f] = row'[f]
  BY DEF OthersAreKept, Passing, Accepted, Undoes
<1>1. saves'[t] = Overtaken(saves[t], fields) /\ saves[t] \in SaveRequests \cup {Idle}
  BY DEF Passing, EditInv, TrafficOK
<1>2. saves[t].at = saves'[t].at /\ saves[t].at # "idle"
  BY <1>1, OvertakenSave DEF Passing
<1>3. saves[t] # Idle
  BY <1>1, <1>2, IdleSave
<1>4. /\ saves'[t].match = saves[t].match /\ saves'[t].agreed = saves[t].agreed
      /\ saves'[t].touched = saves[t].touched /\ saves'[t].writes = saves[t].writes
      /\ saves[t].at \in {"allowed", "got"} => saves'[t].moved = saves[t].moved \cup fields
      /\ saves[t].at = "sent" => ~saves'[t].fresh
  BY <1>1, <1>3, OvertakenSave
<1>5. CASE saves[t].at = "sent"
  <2>1. ~saves[t].match
    BY <1>2, <1>4, <1>5 DEF Passing, Accepted
  <2>2. view.partial /\ DOMAIN saves[t].writes \subseteq saves[t].touched
    BY <1>4, <1>5, <2>1 DEF EditInv, SavesFollowView
  <2> QED
    BY <1>4, <2>2
<1>6. CASE saves[t].at \in {"allowed", "got"}
  <2>1. f \in Fields \ saves[t].moved /\ f \notin fields /\ Passing(saves[t])
    BY <1>4, <1>6 DEF Passing
  <2> QED
    BY <1>4, <2>1 DEF EditInv, OthersAreKept, Undoes
<1> QED
  BY <1>2, <1>5, <1>6 DEF Passing

LEMMA OtherSavesInv ==
  ASSUME EditInv, NEW f \in Fields, NEW v \in Values, OtherSaves(f, v)
  PROVE  EditInv'
<1> DEFINE values == [g \in {f} |-> v]
<1>1. values \in Partials /\ WriteRow(values)
  BY DEF Partials, OtherSaves
<1>2. /\ row' \in [Fields -> Values] /\ fresh' = FALSE
      /\ load' \in GetRequests /\ load'.at = load.at
      /\ load.at = "read" => ~load'.fresh
  BY <1>1, WrittenRow DEF EditInv
<1>3. UNCHANGED <<view, reloads, place, loading, shown, raw, looking, changed, typed, under, late>>
  BY DEF OtherSaves, form, editHistory
<1>4. \A s \in Saves : saves'[s] = Overtaken(saves[s], {f}) /\ saves[s] \in SaveRequests \cup {Idle}
  BY DEF OtherSaves, EditInv, TrafficOK
<1>5. EditTypeOK'
  <2>1. others' \in 0..MaxOthers
    BY EditAssumption DEF EditInv, EditTypeOK, OtherSaves
  <2> QED
    BY <1>2, <1>3, <2>1 DEF EditInv, EditTypeOK
<1>6. saves' \in [Saves -> SaveRequests \cup {Idle}]
  BY <1>4, OvertakenSave DEF OtherSaves
<1>7. Flying' = Flying
  BY <1>4, OvertakenSave DEF Flying, Idle
<1>8. TrafficOK'
  BY <1>2, <1>3, <1>6 DEF EditInv, TrafficOK
<1>9. SavesCarryTyped'
  BY <1>3, <1>4, <1>7, OvertakenSave DEF EditInv, SavesCarryTyped, Flying, Idle
<1>10. FreshTagIsRow'
  BY <1>2, <1>4, OvertakenSave DEF EditInv, FreshTagIsRow, Undoes
<1>11. SavesFollowView'
  BY <1>3, <1>4, OvertakenSave DEF EditInv, SavesFollowView, Idle
<1>12. OthersAreKept'
  <2>1. \A g \in Fields \ {f} : row'[g] = row[g]
    BY <1>1 DEF WriteRow
  <2> QED
    BY <1>3, <1>4, <2>1, KeptAfterWrite
<1> QED
  BY <1>3, <1>5, <1>7, <1>8, <1>9, <1>10, <1>11, <1>12 DEF EditInv, FilledBeforeUse, MarksAreTyped,
     UnsavedIsAskedAbout

\* What happens to a load.
LEMMA LoadInv == ASSUME EditInv, LoadServed \/ Loaded \/ LoadFails \/ Reload PROVE EditInv'
<1>1. CASE LoadServed
  <2>1. load' = [at |-> "read", row |-> row, fresh |-> view.sameModel]
        /\ UNCHANGED <<view, reloads, row, others, place, loading, fresh, shown, raw, looking, changed,
                       saves, typed, under, late>>
    BY <1>1 DEF LoadServed, database, form, editHistory
  <2>2. load' \in GetRequests /\ load'.row = row
    BY <2>1, ViewTypes DEF GetRequests, EditInv, EditTypeOK
  <2> QED
    BY <2>1, <2>2 DEF EditInv, EditTypeOK, TrafficOK, FilledBeforeUse, SavesCarryTyped, MarksAreTyped,
       FreshTagIsRow, SavesFollowView, OthersAreKept, UnsavedIsAskedAbout, Flying,
       Passing, Accepted, Undoes
<1>2. CASE Loaded
  <2>1. load.row \in [Fields -> Values] /\ load.fresh \in BOOLEAN
    BY <1>2 DEF Loaded, EditInv, TrafficOK, GetRequests
  <2>2. /\ load' = [at |-> "none"] /\ loading' = FALSE /\ shown' = load.row /\ fresh' = load.fresh
        /\ raw' = Lookups /\ looking' = Fetched(load.row) /\ place = "open" /\ load.at = "read"
        /\ changed' = {} /\ typed' = {} /\ under' = {} /\ late' = {}
        /\ UNCHANGED <<view, reloads, row, others, place>>
    BY <1>2 DEF Loaded, database
  <2>3. \A s \in Saves : /\ saves[s] \in SaveRequests \cup {Idle}
                         /\ saves'[s] = IF s \in Flying THEN [saves[s] EXCEPT !.mine = FALSE] ELSE Idle
    BY <1>2 DEF Loaded, EditInv, TrafficOK
  <2>4. \A s \in Saves : saves[s] # Idle <=> s \in Flying
    BY <2>3, IdleSave DEF Flying
  <2>5. \A s \in Saves :
          /\ saves'[s] \in SaveRequests \cup {Idle} /\ saves'[s].at = saves[s].at
          /\ s \in Flying => /\ ~saves'[s].mine /\ saves'[s].values = saves[s].values
                             /\ saves'[s].match = saves[s].match /\ saves'[s].fresh = saves[s].fresh
                             /\ saves'[s].agreed = saves[s].agreed /\ saves'[s].touched = saves[s].touched
                             /\ saves'[s].writes = saves[s].writes /\ saves'[s].moved = saves[s].moved
    BY <2>3, <2>4 DEF SaveRequests, Idle
  <2>6. Flying' = Flying
    BY <2>5 DEF Flying
  <2>7. EditTypeOK'
    BY <2>1, <2>2, EditAssumption DEF EditInv, EditTypeOK, Fetched
  <2>8. TrafficOK'
    <3>1. looking' \subseteq Lookups \X Values
      BY <2>1, <2>2, EditAssumption DEF EditInv, TrafficOK, Fetched
    <3>2. saves' \in [Saves -> SaveRequests \cup {Idle}]
      BY <1>2, <2>5 DEF Loaded
    <3> QED
      BY <2>2, <3>1, <3>2 DEF EditInv, TrafficOK, GetRequests
  <2>9. SavesCarryTyped'
    BY <2>5, <2>6 DEF SavesCarryTyped, Flying
  <2>10. FreshTagIsRow' /\ SavesFollowView'
    BY <2>2, <2>4, <2>5 DEF EditInv, FreshTagIsRow, SavesFollowView, Flying, Undoes
  <2>11. OthersAreKept'
    BY <2>2, <2>5 DEF EditInv, OthersAreKept, Passing, Accepted, Undoes, Flying
  <2> QED
    BY <2>1, <2>2, <2>7, <2>8, <2>9, <2>10, <2>11 DEF EditInv, FilledBeforeUse, MarksAreTyped, UnsavedIsAskedAbout
<1>3. CASE LoadFails \/ Reload
  <2>1. /\ load' \in {[at |-> "none"], [at |-> "asked"]} /\ place = "open"
        /\ \/ loading' = TRUE /\ place' = place
           \/ place' = "error" /\ loading' = FALSE
        /\ reloads' \in 0..MaxReloads
        /\ UNCHANGED <<view, row, others, fresh, shown, raw, looking, changed, saves, typed, under, late>>
    BY <1>3, EditAssumption DEF LoadFails, Reload, CanAct, database, form, editHistory, EditInv, EditTypeOK
  <2>2. load' \in GetRequests /\ load'.at # "read"
    BY <2>1 DEF GetRequests
  <2>3. EditTypeOK' /\ TrafficOK'
    BY <2>1, <2>2 DEF EditInv, EditTypeOK, TrafficOK
  <2>4. FilledBeforeUse' /\ SavesCarryTyped'
    BY <2>1 DEF EditInv, FilledBeforeUse, SavesCarryTyped, Flying
  <2>5. MarksAreTyped' /\ FreshTagIsRow' /\ SavesFollowView' /\ OthersAreKept' /\ UnsavedIsAskedAbout'
    BY <2>1, <2>2 DEF EditInv, MarksAreTyped, FreshTagIsRow, SavesFollowView, OthersAreKept,
       Passing, Accepted, Undoes, UnsavedIsAskedAbout
  <2> QED
    BY <2>3, <2>4, <2>5 DEF EditInv
<1> QED
  BY <1>1, <1>2, <1>3

LEMMA LookUpInv ==
  ASSUME EditInv, NEW f \in Fields, NEW v \in Values, LookUp(f, v)
  PROVE  EditInv'
<1>1. /\ <<f, v>> \in looking /\ place = "open" /\ looking' = looking \ {<<f, v>>}
      /\ shown' = [shown EXCEPT ![f] = v] /\ raw' = raw \ {f}
      /\ late' = IF shown[f] = v THEN late ELSE late \cup {f}
      /\ UNCHANGED <<view, reloads, row, others, place, loading, load, fresh, changed, saves, typed, under>>
  BY DEF LookUp, database
<1>2. f \in Lookups /\ looking \subseteq Lookups \X Values /\ raw \subseteq Lookups
  BY <1>1 DEF EditInv, TrafficOK
<1>3. shown \in [Fields -> Values] /\ shown' \in [Fields -> Values]
  BY <1>1 DEF EditInv, FilledBeforeUse
<1>4. \A g \in Fields : shown'[g] = shown[g] \/ g \in late'
  BY <1>1, <1>3
<1>5. late \subseteq late' /\ late' \subseteq Lookups
  BY <1>1, <1>2 DEF EditInv, EditTypeOK
<1>6. EditTypeOK'
  <2>1. \A g \in raw' : <<g, shown'[g]>> \in looking'
    BY <1>1, <1>2, <1>3, EditAssumption DEF EditInv, EditTypeOK
  <2> QED
    BY <1>1, <1>3, <1>5, <2>1 DEF EditInv, EditTypeOK
<1>7. TrafficOK' /\ FilledBeforeUse'
  BY <1>1, <1>2, <1>3 DEF EditInv, TrafficOK, FilledBeforeUse
<1>8. SavesCarryTyped'
  BY <1>1, <1>4, <1>5 DEF EditInv, EditTypeOK, SavesCarryTyped, Flying
<1>9. FreshTagIsRow'
  BY <1>1, <1>4, <1>5 DEF EditInv, FreshTagIsRow, Undoes
<1> QED
  BY <1>1, <1>5, <1>6, <1>7, <1>8, <1>9 DEF EditInv, MarksAreTyped, SavesFollowView, OthersAreKept, Passing, Accepted, Undoes,
     UnsavedIsAskedAbout

LEMMA EditFieldInv ==
  ASSUME EditInv, NEW f \in Fields, NEW v \in Values, Edit(f, v)
  PROVE  EditInv'
<1>1. /\ place = "open" /\ loading = FALSE /\ shown' = [shown EXCEPT ![f] = v] /\ raw' = raw \ {f}
      /\ changed' = changed \cup {f} /\ typed' = typed \cup {f} /\ late' = late \ {f}
      /\ under' = IF Flying = {} THEN under \ {f} ELSE under \cup {f}
      /\ UNCHANGED <<view, reloads, row, others, place, loading, load, fresh, looking, saves>>
  BY DEF Edit, CanAct, Marked, database, EditInv, EditTypeOK
<1>2. shown \in [Fields -> Values] /\ shown' \in [Fields -> Values]
  BY <1>1, ShownInUse DEF CanAct
<1>3. \A g \in Fields \ {f} : shown'[g] = shown[g]
  BY <1>1, <1>2
<1>4. EditTypeOK'
  <2>1. \A g \in raw' : <<g, shown'[g]>> \in looking'
    BY <1>1, <1>2, EditAssumption DEF EditInv, EditTypeOK, TrafficOK
  <2> QED
    BY <1>1, <1>2, <2>1 DEF EditInv, EditTypeOK
<1>5. TrafficOK' /\ FilledBeforeUse'
  BY <1>1, <1>2 DEF EditInv, TrafficOK, FilledBeforeUse
<1>6. SavesCarryTyped'
  BY <1>1, <1>3 DEF EditInv, EditTypeOK, SavesCarryTyped, Flying
<1>7. FreshTagIsRow'
  BY <1>1, <1>3 DEF EditInv, FreshTagIsRow, Undoes
<1> QED
  BY <1>1, <1>4, <1>5, <1>6, <1>7 DEF EditInv, MarksAreTyped, SavesFollowView, OthersAreKept, Passing, Accepted, Undoes,
     UnsavedIsAskedAbout

\* Only one save is changed, and the form is not.
LEMMA OneSaveInv ==
  ASSUME EditInv, NEW s \in Saves, NEW save \in SaveRequests \cup {Idle},
         saves' = [saves EXCEPT ![s] = save], loading' \in BOOLEAN,
         UNCHANGED <<view, reloads, row, others, place, load, fresh, shown, raw, looking, changed,
                     typed, under, late>>,
         \/ shown \in [Fields -> Values] \/ place = "left",
         \/ save = Idle
         \/ save = Request(save.agreed) /\ shown \in [Fields -> Values]
         \/ /\ saves[s] # Idle /\ save.at # "sent" /\ save.values = saves[s].values
            /\ save.at = "allowed" => save.writes = save.values
            /\ save.mine = saves[s].mine /\ KeptBy(save)
  PROVE  EditInv'
<1>1. EditTypeOK' /\ TrafficOK'
  BY DEF EditInv, EditTypeOK, TrafficOK
<1>2. \A t \in Saves : saves'[t] = IF t = s THEN save ELSE saves[t]
  BY DEF EditInv, TrafficOK
<1>3. CASE save = Idle
  <2>1. Flying' \subseteq Flying /\ s \notin Flying'
    BY <1>2, <1>3 DEF Flying, Idle
  <2>2. SavesCarryTyped'
    BY <1>2, <2>1 DEF EditInv, SavesCarryTyped, Flying
  <2>3. FreshTagIsRow' /\ SavesFollowView'
    BY <1>2, <1>3 DEF EditInv, FreshTagIsRow, SavesFollowView, Idle, Undoes
  <2>4. OthersAreKept'
    BY <1>2, <1>3 DEF EditInv, OthersAreKept, Passing, Accepted, Undoes, Idle
  <2> QED
    BY <1>1, <2>1, <2>2, <2>3, <2>4 DEF EditInv, FilledBeforeUse, MarksAreTyped, UnsavedIsAskedAbout
<1>4. CASE save # Idle /\ save = Request(save.agreed) /\ shown \in [Fields -> Values]
  <2>1. shown \in [Fields -> Values] /\ save.agreed \in BOOLEAN
    BY <1>4 DEF SaveRequests
  <2>2. /\ DOMAIN save.values \subseteq Fields
        /\ save.agreed => DOMAIN save.values = Fields
        /\ \A f \in DOMAIN save.values : save.values[f] = shown[f]
        /\ changed \subseteq DOMAIN save.values
        /\ save.writes = save.values /\ save.at = "sent"
    BY <1>4, <2>1, RequestType DEF Request
  <2>3. /\ save.touched = late \cup typed /\ save.fresh = fresh
        /\ view.sameModel /\ ~save.agreed => save.match
        /\ view.partial /\ ~save.agreed => DOMAIN save.values = changed
    <3>1. save.touched = late \cup typed /\ save.fresh = fresh /\ save.values = Sent(save.agreed)
      BY <1>4 DEF Request
    <3>2. save.match = (view.sameModel /\ ~save.agreed)
      BY <1>4 DEF Request
    <3>3. view.partial /\ ~save.agreed => DOMAIN Sent(save.agreed) = changed
      BY DEF Sent
    <3> QED
      BY <3>1, <3>2, <3>3
  <2>4. SavesCarryTyped'
    BY <1>2, <2>2 DEF EditInv, SavesCarryTyped, UnsavedIsAskedAbout, Flying
  <2>5. FreshTagIsRow'
    <3>1. save.fresh => \A f \in Fields : ~Undoes(save, f)
      BY <2>2, <2>3 DEF EditInv, FreshTagIsRow, Undoes
    <3> QED
      BY <1>2, <3>1 DEF EditInv, FreshTagIsRow, Undoes
  <2>6. SavesFollowView'
    <3>1. view.partial /\ ~save.agreed => DOMAIN save.writes \subseteq save.touched
      BY <2>2, <2>3 DEF EditInv, MarksAreTyped
    <3> QED
      BY <1>2, <2>2, <2>3, <3>1 DEF EditInv, SavesFollowView
  <2>7. OthersAreKept'
    <3>1. KeptBy(save)
      <4> SUFFICES ASSUME view.partial \/ view.sameModel, Passing(save), ~save.agreed, NEW f \in Fields
                   PROVE  ~Undoes(save, f)
        BY DEF KeptBy
      <4>1. CASE view.partial
        BY <2>2, <2>3, <4>1 DEF EditInv, MarksAreTyped, Undoes
      <4>2. CASE view.sameModel
        BY <2>2, <2>3, <4>2 DEF EditInv, FreshTagIsRow, Undoes, Passing, Accepted
      <4> QED
        BY <4>1, <4>2
    <3> QED
      BY <1>2, <3>1 DEF EditInv, OthersAreKept, KeptBy, Passing, Accepted, Undoes
  <2> QED
    BY <1>1, <2>1, <2>4, <2>5, <2>6, <2>7 DEF EditInv, FilledBeforeUse, MarksAreTyped, UnsavedIsAskedAbout
<1>5. CASE /\ saves[s] # Idle /\ save.at # "sent" /\ save.values = saves[s].values
           /\ save.at = "allowed" => save.writes = save.values
           /\ save.mine = saves[s].mine /\ KeptBy(save)
  <2>1. s \in Flying
    BY <1>5, IdleSave DEF Flying, EditInv, TrafficOK
  <2>2. SavesCarryTyped'
    BY <1>2, <1>5, <2>1 DEF EditInv, SavesCarryTyped, Flying
  <2>3. FreshTagIsRow' /\ SavesFollowView'
    BY <1>2, <1>5 DEF EditInv, FreshTagIsRow, SavesFollowView, Undoes
  <2>4. OthersAreKept'
    BY <1>2, <1>5 DEF EditInv, OthersAreKept, KeptBy, Passing, Accepted, Undoes
  <2> QED
    BY <1>1, <2>1, <2>2, <2>3, <2>4 DEF EditInv, FilledBeforeUse, MarksAreTyped, UnsavedIsAskedAbout
<1> QED
  BY <1>3, <1>4, <1>5

\* The requests of a save, and what the form does with the answers.
LEMMA SaveInv == ASSUME EditInv, NEW s \in Saves, Save(s) PROVE EditInv'
<1>1. shown \in [Fields -> Values]
  BY ShownInUse DEF Save
<1>2. Request(FALSE) \in SaveRequests /\ Request(FALSE).agreed = FALSE
  BY <1>1, RequestType DEF Request
<1> QED
  BY <1>1, <1>2, OneSaveInv DEF Save, database, form, editHistory

LEMMA AnswerInv ==
  ASSUME EditInv, NEW s \in Saves, Failed(s) \/ Conflict(s, TRUE) \/ Conflict(s, FALSE)
  PROVE  EditInv'
<1>1. saves[s].at # "idle" /\ s \in Flying
  BY DEF Failed, Conflict, Flying
<1>2. \/ shown \in [Fields -> Values] \/ place = "left"
  BY <1>1, ShownInUse
<1>3. CASE Failed(s) \/ Conflict(s, FALSE)
  BY <1>2, <1>3, OneSaveInv DEF Failed, Conflict, database, form, editHistory
<1>4. CASE Conflict(s, TRUE)
  <2>1. Request(TRUE) \in SaveRequests /\ Request(TRUE).agreed = TRUE /\ shown \in [Fields -> Values]
    BY <1>2, <1>4, RequestType DEF Request, Conflict
  <2> QED
    BY <1>4, <2>1, OneSaveInv DEF Conflict, database, form, editHistory
<1> QED
  BY <1>3, <1>4

\* The server compares the tag and gets the row, or refuses.
LEMMA ComparedInv ==
  ASSUME EditInv, NEW s \in Saves, Compare(s) \/ GetObject(s) \/ Refuse(s)
  PROVE  EditInv'
<1>1. saves[s] \in SaveRequests /\ saves[s] # Idle /\ s \in Flying
  <2>1. saves[s].at # "idle"
    BY DEF Compare, GetObject, Refuse
  <2> QED
    BY <2>1, IdleSave DEF EditInv, TrafficOK, Flying
<1>2. \/ shown \in [Fields -> Values] \/ place = "left"
  BY <1>1, ShownInUse
<1>3. /\ UNCHANGED <<view, reloads, row, others, place, load, fresh, shown, raw, looking, changed,
                    typed, under, late>>
      /\ loading' \in BOOLEAN
  BY DEF Compare, GetObject, Refuse, EditInv, EditTypeOK, database, form, editHistory
<1>4. ASSUME NEW save \in SaveRequests, saves' = [saves EXCEPT ![s] = save], save.at # "sent",
             save.values = saves[s].values, save.mine = saves[s].mine, KeptBy(save),
             save.at = "allowed" => save.writes = save.values
      PROVE  EditInv'
  BY <1>1, <1>2, <1>3, <1>4, OneSaveInv
<1>5. CASE Compare(s)
  <2> DEFINE answer == IF Accepted(saves[s]) THEN "allowed" ELSE "changed"
             save == [saves[s] EXCEPT !.at = answer]
  <2>1. saves' = [saves EXCEPT ![s] = save] /\ saves[s].at = "sent"
    BY <1>5 DEF Compare
  <2>2. /\ save \in SaveRequests /\ save.at = answer /\ save.values = saves[s].values
        /\ save.mine = saves[s].mine /\ save.moved = saves[s].moved /\ save.agreed = saves[s].agreed
        /\ save.writes = saves[s].writes /\ save.touched = saves[s].touched
    BY <1>1 DEF SaveRequests
  <2>3. KeptBy(save)
    <3> HIDE DEF save
    <3>1. Passing(save) => Passing(saves[s])
      BY <2>1, <2>2 DEF Passing
    <3> QED
      BY <2>2, <3>1 DEF KeptBy, EditInv, OthersAreKept, Undoes
  <2>4. save.at # "sent" /\ save.writes = save.values
    BY <2>1, <2>2 DEF EditInv, SavesFollowView
  <2> HIDE DEF save, answer
  <2> QED
    BY <1>4, <2>1, <2>2, <2>3, <2>4
<1>6. CASE GetObject(s)
  <2> DEFINE sent == DOMAIN saves[s].values
             writes == [f \in Fields |-> IF f \in sent THEN saves[s].values[f] ELSE row[f]]
             save == [saves[s] EXCEPT !.at = "got", !.writes = writes, !.moved = saves[s].moved \cap sent]
  <2>1. saves' = [saves EXCEPT ![s] = save] /\ saves[s].at = "allowed"
    BY <1>6 DEF GetObject
  <2>2. PICK D \in SUBSET Fields : saves[s].values \in [D -> Values]
    BY <1>1 DEF SaveRequests, Partials
  <2>3. writes \in [Fields -> Values]
    BY <2>2 DEF EditInv, EditTypeOK
  <2>4. writes \in Partials
    BY <2>3 DEF Partials
  <2>5. /\ save \in SaveRequests /\ save.at = "got" /\ save.values = saves[s].values
        /\ save.mine = saves[s].mine /\ save.moved = saves[s].moved \cap sent
        /\ save.agreed = saves[s].agreed /\ save.writes = writes /\ save.touched = saves[s].touched
    <3> HIDE DEF writes
    <3> QED
      BY <1>1, <2>4 DEF SaveRequests
  <2>6. KeptBy(save)
    <3> SUFFICES ASSUME view.partial \/ view.sameModel, ~saves[s].agreed,
                        NEW f \in Fields \ (saves[s].moved \cap sent), f \in sent, f \notin saves[s].touched
                 PROVE  saves[s].values[f] = row[f]
      BY <2>5 DEF KeptBy, Undoes
    <3>1. ~Undoes(saves[s], f)
      BY <2>1 DEF EditInv, OthersAreKept, Passing
    <3> QED
      BY <3>1, <2>1 DEF Undoes, EditInv, SavesFollowView
  <2> HIDE DEF save
  <2> QED
    BY <1>4, <2>1, <2>5, <2>6
<1>7. CASE Refuse(s)
  <2> DEFINE save == Ended(saves[s], "failed")
  <2>1. saves' = [saves EXCEPT ![s] = save]
    BY <1>7 DEF Refuse, EditInv, TrafficOK
  <2>2. /\ save \in SaveRequests /\ save.at = "failed" /\ save.values = saves[s].values
        /\ save.mine = saves[s].mine
    BY <1>1 DEF SaveRequests, Ended
  <2>3. KeptBy(save)
    BY <2>2 DEF KeptBy, Passing
  <2> HIDE DEF save
  <2> QED
    BY <1>4, <2>1, <2>2, <2>3
<1> QED
  BY <1>5, <1>6, <1>7

\* A save is written: no tag that was read before is the row's any more.
LEMMA WriteInv ==
  ASSUME EditInv, NEW s \in Saves, NEW answer \in {"ok", "failed"}, Write(s, answer)
  PROVE  EditInv'
<1> DEFINE fields == {f \in Fields : saves[s].writes[f] # row[f]}
<1>1. saves[s] \in SaveRequests /\ saves[s].at = "got"
  BY IdleSave DEF Write, Idle, EditInv, TrafficOK
<1>2. s \in Flying /\ saves[s].writes \in Partials
  BY <1>1, IdleSave DEF Flying, SaveRequests
<1>3. /\ row' \in [Fields -> Values] /\ fresh' = FALSE
      /\ load' \in GetRequests /\ load'.at = load.at
      /\ load.at = "read" => ~load'.fresh
  BY <1>2, WrittenRow DEF EditInv, Write
<1>4. UNCHANGED <<view, reloads, others, place, loading, shown, raw, looking, changed, typed, under, late>>
  BY DEF Write, form, editHistory
<1>5. \A t \in Saves : /\ saves'[t] = IF t = s THEN Ended(saves[s], answer)
                                              ELSE Overtaken(saves[t], fields)
                       /\ saves[t] \in SaveRequests \cup {Idle}
  BY DEF Write, EditInv, TrafficOK
<1>6. /\ saves'[s] \in SaveRequests /\ saves'[s].at = answer
      /\ saves'[s].values = saves[s].values /\ saves'[s].mine = saves[s].mine
  BY <1>1, <1>5 DEF SaveRequests, Ended
<1>7. EditTypeOK'
  BY <1>3, <1>4 DEF EditInv, EditTypeOK
<1>8. fields \in SUBSET Fields /\ \A f \in Fields \ fields : row'[f] = row[f]
  BY DEF Write, WriteRow
<1> HIDE DEF fields
<1>9. saves' \in [Saves -> SaveRequests \cup {Idle}]
  BY <1>5, <1>6, <1>8, OvertakenSave DEF Write
<1>10. Flying' = Flying
  BY <1>2, <1>5, <1>6, <1>8, OvertakenSave DEF Flying, SaveRequests
<1>11. TrafficOK'
  BY <1>3, <1>4, <1>9 DEF EditInv, TrafficOK
<1>12. SavesCarryTyped'
  BY <1>4, <1>5, <1>6, <1>8, <1>10, OvertakenSave, IdleSave DEF EditInv, SavesCarryTyped, Flying
<1>13. FreshTagIsRow'
  BY <1>3, <1>5, <1>6, <1>8, OvertakenSave DEF EditInv, FreshTagIsRow
<1>14. SavesFollowView'
  BY <1>4, <1>5, <1>6, <1>8, OvertakenSave DEF EditInv, SavesFollowView, Idle
<1>15. OthersAreKept'
  BY <1>4, <1>5, <1>6, <1>8, KeptAfterWrite
<1> QED
  BY <1>4, <1>7, <1>10, <1>11, <1>12, <1>13, <1>14, <1>15 DEF EditInv, FilledBeforeUse, MarksAreTyped,
     UnsavedIsAskedAbout

\* The page is left, with whatever saves are on their way.
LEMMA GoneInv ==
  ASSUME EditInv, Gone, typed' \subseteq under \cup late, typed' \subseteq Fields,
         saves' \in [Saves -> SaveRequests \cup {Idle}],
         \A s \in Saves : saves'[s] \in {saves[s], Idle},
         UNCHANGED <<view, reloads, row, others, under, late>>
  PROVE  EditInv'
<1>1. /\ place' = "left" /\ loading' = FALSE /\ load' = [at |-> "none"] /\ fresh' = FALSE
      /\ shown' = Nothing /\ raw' = {} /\ looking' = {} /\ changed' = {}
  BY DEF Gone
<1>2. EditTypeOK'
  BY <1>1 DEF EditInv, EditTypeOK, Nothing
<1>3. TrafficOK'
  BY <1>1 DEF EditInv, TrafficOK, GetRequests
<1>4. FreshTagIsRow' /\ SavesFollowView' /\ OthersAreKept'
  <2>1. \A s \in Saves : saves'[s].at # "idle" => saves'[s] = saves[s]
    BY DEF Idle
  <2> QED
    BY <1>1, <2>1 DEF EditInv, FreshTagIsRow, SavesFollowView, OthersAreKept, Passing, Accepted, Undoes
<1> QED
  BY <1>1, <1>2, <1>3, <1>4 DEF EditInv, FilledBeforeUse, SavesCarryTyped, MarksAreTyped, UnsavedIsAskedAbout

\* A save that succeeds takes what it has saved off the user's list.
LEMMA SucceededInv == ASSUME EditInv, NEW s \in Saves, Succeeded(s) PROVE EditInv'
<1> DEFINE marks == IF saves[s].mine THEN {} ELSE changed
<1>1. s \in Flying /\ saves' = [saves EXCEPT ![s] = Idle]
  BY DEF Succeeded, Flying
<1>2. /\ place # "left"
      /\ \/ Gone /\ typed' = IF marks = {} THEN Unsaved(saves[s]) ELSE {}
         \/ /\ marks # {} /\ typed' = Unsaved(saves[s]) /\ changed' = marks /\ loading' = FALSE
            /\ UNCHANGED <<place, load, fresh, shown, raw, looking>>
      /\ UNCHANGED <<view, reloads, row, others, under, late>>
  BY DEF Succeeded, database
<1>3. /\ saves' \in [Saves -> SaveRequests \cup {Idle}]
      /\ \A t \in Saves : saves'[t] \in {saves[t], Idle}
  BY <1>1 DEF EditInv, TrafficOK
<1>4. CASE Gone /\ typed' = IF marks = {} THEN Unsaved(saves[s]) ELSE {}
  <2>1. marks = {} => Unsaved(saves[s]) \subseteq under \cup late
    BY <1>1, <1>2 DEF Unsaved, EditInv, SavesCarryTyped, UnsavedIsAskedAbout
  <2>2. typed' \subseteq typed
    BY <1>4 DEF Unsaved
  <2> QED
    BY <1>2, <1>3, <1>4, <2>1, <2>2, GoneInv DEF EditInv, EditTypeOK
<1>5. CASE /\ marks # {} /\ typed' = Unsaved(saves[s]) /\ changed' = marks /\ loading' = FALSE
           /\ UNCHANGED <<place, load, fresh, shown, raw, looking>>
  <2>1. ~saves[s].mine /\ changed' = changed /\ typed' = typed
    BY <1>5 DEF Unsaved
  <2>2. \/ shown \in [Fields -> Values] \/ place = "left"
    BY <1>1, <1>2, ShownInUse
  <2> QED
    BY <1>1, <1>2, <1>5, <2>1, <2>2, OneSaveInv
<1> QED
  BY <1>2, <1>4, <1>5

LEMMA LeaveInv == ASSUME EditInv, Leave \/ Cancel PROVE EditInv'
<1>1. Gone /\ UNCHANGED <<view, reloads, row, others, saves, under, late>>
  BY DEF Leave, Cancel, database
<1>2. typed' \subseteq under \cup late /\ typed' \subseteq typed
  BY DEF Leave, Cancel, EditInv, UnsavedIsAskedAbout
<1> QED
  BY <1>1, <1>2, GoneInv DEF EditInv, EditTypeOK, TrafficOK

LEMMA EditInvNext == ASSUME EditInv, [EditNext]_editVars PROVE EditInv'
<1>1. ASSUME NEW f \in Fields, NEW v \in Values, OtherSaves(f, v) \/ LookUp(f, v) \/ Edit(f, v)
      PROVE  EditInv'
  BY <1>1, OtherSavesInv, LookUpInv, EditFieldInv
<1>2. ASSUME NEW s \in Saves, Save(s) \/ ServeSave(s) \/ AnswerHandled(s)
      PROVE  EditInv'
  BY <1>2, SaveInv, ComparedInv, WriteInv, AnswerInv, SucceededInv DEF ServeSave, AnswerHandled
<1>3. CASE UNCHANGED editVars
  BY <1>3 DEF editVars, database, form, editHistory, EditInv, EditTypeOK, TrafficOK, FilledBeforeUse,
     SavesCarryTyped, MarksAreTyped, FreshTagIsRow, SavesFollowView, OthersAreKept, UnsavedIsAskedAbout, Flying,
     Passing, Accepted, Undoes
<1> QED
  BY <1>1, <1>2, <1>3, LoadInv, LeaveInv DEF EditNext

LEMMA EditInvariance == EditSpec => []EditInv
BY EditInvInit, EditInvNext, PTL DEF EditSpec

\* The page, its form and the row keep their types, and a field that shows a
\* bare key is being looked up.
THEOREM EditTypeCorrect == EditSpec => []EditTypeOK
BY EditInvariance, PTL DEF EditInv

\* What the user has typed is asked about before it is given up, whatever saves,
\* look-ups and reloads come in between.
THEOREM TypedIsAskedAbout == EditSpec => []UnsavedIsAskedAbout
BY EditInvariance, PTL DEF EditInv

\* From the comparison of its tag to its write a save undoes nothing that
\* others had saved by then to a field the user has not touched.
THEOREM OthersSurvive == EditSpec => []OthersAreKept
BY EditInvariance, PTL DEF EditInv

-----------------------------------------------------------------------------
(***************************************************************************)
(* The pages that keep themselves up to date, for any objects, visits,     *)
(* tours and numbers of requests.                                          *)
(***************************************************************************)

\* Sets of numbers have a least element: what holds of 0 and is passed on from
\* each number to the next holds of all.
LEMMA LeastNumber ==
  ASSUME NEW S \in SUBSET Nat, S # {}
  PROVE  \E m \in S : \A k \in S : m \leq k
<1> DEFINE R == {ss \in Nat \X Nat : ss[1] < ss[2]}
<1>1. IsWellFoundedOn(R, Nat)
  BY NatLessThanWellFounded DEF OpToRel
<1>2. PICK m \in S : \A k \in S : <<k, m>> \notin R
  <2> HIDE DEF R
  <2> QED
    BY <1>1, WFMin
<1>3. \A k \in S : <<k, m>> \notin R => m \leq k
  OBVIOUS
<1> QED
  BY <1>2, <1>3

\* The promises of a bulk are settled one after another.
LEMMA SettlingStepwise ==
  ASSUME NEW f, Len(f.reqs) \in Nat
  PROVE  Settling(f) = [i \in 0..Len(f.reqs) |->
                          IF i = 0 THEN Standing ELSE Answered(Settling(f)[i - 1], f.reqs[i], f.got[i])]
<1> DEFINE n == Len(f.reqs)
           Body(g, i) == IF i = 0 THEN Standing ELSE Answered(g[i - 1], f.reqs[i], f.got[i])
           Unfolds(g, k) == g = [i \in 0..k |-> Body(g, i)]
<1>1. Settling(f) = CHOOSE g : Unfolds(g, n)
  BY DEF Settling
<1> HIDE DEF Body
<1>2. \E g : Unfolds(g, 0)
  <2>1. Unfolds([i \in 0..0 |-> Standing], 0)
    BY DEF Body
  <2> QED
    BY <2>1
<1>3. ASSUME NEW k \in Nat, NEW g, Unfolds(g, k) PROVE \E h : Unfolds(h, k + 1)
  <2> DEFINE h == [i \in 0..(k + 1) |-> IF i = k + 1 THEN Body(g, i) ELSE g[i]]
  <2>1. \A i \in 0..(k + 1) : Body(h, i) = Body(g, i)
    <3> TAKE i \in 0..(k + 1)
    <3>1. i = 0 \/ h[i - 1] = g[i - 1]
      OBVIOUS
    <3> HIDE DEF h
    <3> QED
      BY <3>1 DEF Body
  <2>2. \A i \in 0..(k + 1) : h[i] = Body(g, i)
    <3>1. \A i \in 0..k : g[i] = Body(g, i)
      <4> DEFINE gg == [i \in 0..k |-> Body(g, i)]
      <4>1. \A i \in 0..k : gg[i] = Body(g, i)
        OBVIOUS
      <4>2. g = gg
        BY <1>3, Zenon
      <4> QED
        BY <4>1, <4>2, Zenon
    <3> QED
      BY <3>1
  <2>3. Unfolds(h, k + 1)
    BY <2>1, <2>2
  <2> QED
    BY <2>3
<1>4. \E g : Unfolds(g, n)
  <2> DEFINE S == {k \in Nat : ~\E g : Unfolds(g, k)}
  <2>1. SUFFICES S = {}
    BY <2>1
  <2>2. SUFFICES ASSUME S # {} PROVE FALSE
    BY <2>2
  <2>3. PICK m \in S : \A k \in S : m \leq k
    BY <2>2, LeastNumber
  <2>4. m \in Nat \ {0}
    BY <1>2, <2>3
  <2>5. m - 1 \in Nat /\ m - 1 \notin S /\ (m - 1) + 1 = m
    BY <2>3, <2>4
  <2> QED
    BY <1>3, <2>3, <2>5
<1> HIDE DEF Unfolds
<1>5. Unfolds(Settling(f), n)
  BY <1>1, <1>4, Zenon
<1> QED
  BY <1>5 DEF Unfolds, Body

-----------------------------------------------------------------------------
\* The invariant.

\* A request that is queued or on its way is that of a page that has been opened
\* and, if it is the first load, has been started.
Asking(q) == q.by \in 1..current /\ (q.why = "load" => page[q.by].state # "new")
RequestsAreOfPages ==
  /\ \A i \in 1..Len(collected) : Asking(collected[i])
  /\ \A f \in flights : \A i \in 1..Len(f.reqs) : Asking(f.reqs[i])

\* A bulk is not empty, and is answered as a whole.
BulksAreWhole ==
  \A f \in flights : f.reqs # <<>> /\ (f.got # <<>> => Len(f.got) = Len(f.reqs))

OpenedInOrder == \A v \in Visits : page[v].state # "none" => v \leq current

\* Nothing is newer than what is on the server.
NothingFromFuture ==
  /\ \A v \in Visits : page[v].shows.ver \leq version[page[v].shows.of]
  /\ \A f \in flights : \A i \in 1..Len(f.got) : f.got[i] \leq version[f.reqs[i].for]

ShowsItsOwn == ~astray => \A v \in Visits : page[v].shows.of = page[v].route

\* A page is subscribed in one way, and hears the publications of its own data.
OneWay ==
  /\ table.subs \cap table.timers = {}
  /\ \A v \in table.subs : v \in table.hears[page[v].route]

\* A link has been chained for the batch that waits, besides the one that runs.
BatchIsLinked ==
  /\ executing => links > 0
  /\ bulked # {} => links > IF executing THEN 1 ELSE 0
  /\ bulked \subseteq 1..current

AutoInv ==
  /\ AutoTypeOK /\ RequestsAreOfPages /\ BulksAreWhole /\ OpenedInOrder /\ NothingFromFuture
  /\ ShowsItsOwn /\ OneWay /\ BatchIsLinked /\ SubscriptionsCounted /\ StaleIsBeingRefreshed

LEMMA AutoInvInit == Init => AutoInv
<1> SUFFICES ASSUME Init PROVE AutoInv
  OBVIOUS
<1> USE AutoUpdateAssumption
<1>1. AutoTypeOK
  <2>1. version \in [Routes -> Nat] /\ List \in Routes
    BY DEF Init, Routes
  <2>2. page \in [Visits -> Pages]
    BY <2>1 DEF Init, Fresh, Pages, Data
  <2>3. table \in Tables
    BY DEF Init, Tables
  <2>4. current \in 0..MaxVisits /\ failures \in Nat /\ links \in Nat
    BY DEF Init
  <2>5. collected \in Seq(Requests) /\ flights \subseteq Flights
    BY DEF Init
  <2> QED
    BY <2>1, <2>2, <2>3, <2>4, <2>5 DEF Init, AutoTypeOK
<1>2. RequestsAreOfPages /\ BulksAreWhole
  BY DEF Init, RequestsAreOfPages, BulksAreWhole
<1>3. \A v \in Visits : page[v].state = "none" /\ page[v].shows.ver = 0 /\ page[v].shows.of = List
                        /\ page[v].route = List
  BY DEF Init, Fresh
<1>4. OpenedInOrder /\ NothingFromFuture /\ ShowsItsOwn
  BY <1>1, <1>3 DEF Init, OpenedInOrder, NothingFromFuture, ShowsItsOwn, Routes
<1>5. OneWay /\ BatchIsLinked
  BY DEF Init, OneWay, BatchIsLinked
<1>6. SubscriptionsCounted
  BY FS_EmptySet DEF Init, SubscriptionsCounted
<1>7. StaleIsBeingRefreshed
  BY DEF Init, StaleIsBeingRefreshed
<1> QED
  BY <1>1, <1>2, <1>4, <1>5, <1>6, <1>7 DEF AutoInv

\* The tables of the controller.
LEMMA Unsubscribed ==
  ASSUME AutoInv
  PROVE  LET t == Unsubscribe(table, current)
         IN  t \in Tables /\ t.subs = {} /\ t.timers = {} /\ t.count = 0
             /\ \A r \in Routes : t.hears[r] = {}
<1> DEFINE s == current
           t == Unsubscribe(table, s)
<1>1. table \in Tables /\ table.subs \cup table.timers \subseteq {s} /\ table.count = Cardinality(table.subs)
  BY DEF AutoInv, AutoTypeOK, SubscriptionsCounted
<1>2. \A r \in Routes : table.hears[r] \subseteq table.subs
  BY DEF AutoInv, SubscriptionsCounted
<1>3. table.subs \cap table.timers = {}
  BY DEF AutoInv, OneWay
<1>4. table.subs = {} => table.count = 0
  BY <1>1, FS_EmptySet
<1>5. CASE s \in table.timers
  <2>1. t = [table EXCEPT !.timers = table.timers \ {s}] /\ table.subs = {} /\ table.timers \ {s} = {}
    BY <1>1, <1>3, <1>5 DEF Unsubscribe
  <2> HIDE DEF t
  <2> QED
    BY <1>1, <1>2, <1>4, <2>1 DEF Tables, t
<1>6. CASE s \notin table.timers /\ s \notin table.subs
  <2>1. t = table /\ table.subs = {} /\ table.timers = {}
    BY <1>1, <1>6 DEF Unsubscribe
  <2> HIDE DEF t
  <2> QED
    BY <1>1, <1>2, <1>4, <2>1 DEF t
<1>7. CASE s \notin table.timers /\ s \in table.subs
  <2>1. table.subs = {s} /\ table.timers = {} /\ table.count = 1
    <3>1. table.subs = {s}
      BY <1>1, <1>7
    <3>2. Cardinality({s}) = 1
      BY FS_Singleton, Zenon
    <3> QED
      BY <1>1, <1>3, <1>7, <3>1, <3>2
  <2>2. t = [table EXCEPT !.subs = {}, !.hears = [pk \in Routes |-> table.hears[pk] \ {s}], !.count = 0]
    <3>1. t = [table EXCEPT !.subs = @ \ {s}, !.hears = [pk \in Routes |-> @[pk] \ {s}], !.count = @ - 1]
      BY <1>7 DEF Unsubscribe
    <3>2. table.subs \ {s} = {} /\ table.count - 1 = 0
      BY <2>1
    <3> QED
      BY <3>1, <3>2
  <2>3. \A r \in Routes : table.hears[r] \ {s} = {} /\ table.hears[r] \ {s} \subseteq Visits
    BY <1>2, <2>1
  <2> HIDE DEF t
  <2>4. t \in Tables
    BY <1>1, <2>2, <2>3 DEF Tables
  <2>5. t.subs = {} /\ t.timers = {} /\ t.count = 0 /\ t.hears = [pk \in Routes |-> table.hears[pk] \ {s}]
    BY <1>1, <2>1, <2>2 DEF Tables
  <2> QED
    BY <2>3, <2>4, <2>5 DEF t
<1> QED
  BY <1>5, <1>6, <1>7

\* The timer or the channel is taken by a page when the tables are empty.
LEMMA Subscribed ==
  ASSUME NEW t \in Tables, t.subs = {}, t.timers = {}, t.count = 0, \A r \in Routes : t.hears[r] = {},
         NEW v \in Visits, NEW r \in Routes, NEW u \in {SubscribeTimer(t, v), Subscribe(t, v, r)}
  PROVE  /\ u \in Tables /\ u.subs \cup u.timers \subseteq {v} /\ u.subs \cap u.timers = {}
         /\ u.count = Cardinality(u.subs) /\ u.subs = UNION {u.hears[q] : q \in Routes}
         /\ u.subs # {} => v \in u.hears[r]
<1>1. CASE u = SubscribeTimer(t, v)
  <2>1. u = [t EXCEPT !.timers = {v}]
    BY <1>1 DEF SubscribeTimer
  <2>2. /\ u \in Tables /\ u.subs = {} /\ u.timers = {v} /\ u.count = 0
        /\ \A q \in Routes : u.hears[q] = {}
    BY <2>1 DEF Tables
  <2> QED
    BY <2>2, FS_EmptySet
<1>2. CASE u = Subscribe(t, v, r)
  <2>1. u = [t EXCEPT !.subs = {v}, !.hears = [t.hears EXCEPT ![r] = {v}], !.count = 1]
    <3>1. u = [t EXCEPT !.subs = @ \cup {v}, !.hears[r] = @ \cup {v}, !.count = @ + 1]
      BY <1>2 DEF Subscribe
    <3>2. t.subs \cup {v} = {v} /\ t.hears[r] \cup {v} = {v} /\ t.count + 1 = 1
      OBVIOUS
    <3> QED
      BY <3>1, <3>2
  <2>2. /\ u \in Tables /\ u.subs = {v} /\ u.timers = {} /\ u.count = 1
        /\ \A q \in Routes : u.hears[q] = IF q = r THEN {v} ELSE {}
    BY <2>1 DEF Tables
  <2>3. Cardinality({v}) = 1
    BY FS_Singleton, Zenon
  <2>4. {v} = UNION {u.hears[q] : q \in Routes}
    <3>1. \A x : x \in UNION {u.hears[q] : q \in Routes} <=> \E q \in Routes : x \in u.hears[q]
      OBVIOUS
    <3> QED
      BY <2>2, <3>1
  <2> QED
    BY <2>2, <2>3, <2>4
<1> QED
  BY <1>1, <1>2

LEMMA OpenInv == ASSUME AutoInv, NEW r \in Routes, Open(r) PROVE AutoInv'
<1> DEFINE c == current + 1
<1> USE AutoUpdateAssumption
<1>1. /\ c \in Visits /\ current' = c /\ page' = [page EXCEPT ![c] = Fresh(r, "new")]
      /\ \E u \in {Unsubscribe(table, current)} : table' \in {SubscribeTimer(u, c), Subscribe(u, c, r)}
      /\ UNCHANGED <<version, coming, bulked, links, executing, ticking, collected, flights, failures,
                     astray, overtaken>>
  BY DEF Open, Visits, server, chain, queue, history, AutoInv, AutoTypeOK
<1>2. /\ table' \in Tables /\ table'.subs \cup table'.timers \subseteq {c} /\ table'.subs \cap table'.timers = {}
      /\ table'.count = Cardinality(table'.subs) /\ table'.subs = UNION {table'.hears[q] : q \in Routes}
      /\ table'.subs # {} => c \in table'.hears[r]
  BY <1>1, Unsubscribed, Subscribed
<1>3. Fresh(r, "new") \in Pages /\ Fresh(r, "new").route = r /\ Fresh(r, "new").state = "new"
      /\ Fresh(r, "new").shows.ver = 0 /\ Fresh(r, "new").shows.of = r
  BY DEF Fresh, Pages, Data
<1>4. \A v \in Visits : page'[v] = IF v = c THEN Fresh(r, "new") ELSE page[v]
  BY <1>1 DEF AutoInv, AutoTypeOK
<1>5. page' \in [Visits -> Pages] /\ current' \in 0..MaxVisits /\ current \in 0..MaxVisits
  BY <1>1, <1>3 DEF AutoInv, AutoTypeOK, Visits
<1>6. AutoTypeOK'
  BY <1>1, <1>2, <1>5 DEF AutoInv, AutoTypeOK
<1>7. \A q : Asking(q) => Asking(q)'
  <2> SUFFICES ASSUME NEW q, Asking(q) PROVE Asking(q)'
    OBVIOUS
  <2>1. q.by \in 1..current /\ q.by \in Visits /\ q.by # c /\ q.by \in 1..c
    BY <1>5 DEF Asking, Visits
  <2> QED
    BY <1>1, <1>4, <2>1 DEF Asking
<1>8. RequestsAreOfPages' /\ BulksAreWhole'
  BY <1>1, <1>7 DEF AutoInv, RequestsAreOfPages, BulksAreWhole
<1>9. OpenedInOrder'
  BY <1>1, <1>4, <1>5 DEF AutoInv, OpenedInOrder, Visits
<1>10. NothingFromFuture'
  <2>1. \A v \in Visits : page'[v].shows.ver \leq version[page'[v].shows.of]
    <3>1. version[r] \in Nat
      BY DEF AutoInv, AutoTypeOK
    <3> QED
      BY <1>3, <1>4, <3>1 DEF AutoInv, NothingFromFuture
  <2> QED
    BY <1>1, <2>1 DEF AutoInv, NothingFromFuture
<1>11. ShowsItsOwn'
  BY <1>1, <1>3, <1>4 DEF AutoInv, ShowsItsOwn
<1>12. OneWay' /\ SubscriptionsCounted'
  BY <1>1, <1>2, <1>3, <1>4 DEF OneWay, SubscriptionsCounted
<1>13. BatchIsLinked'
  BY <1>1, <1>5 DEF AutoInv, BatchIsLinked
<1>14. StaleIsBeingRefreshed'
  BY <1>1, <1>3, <1>4 DEF StaleIsBeingRefreshed, Expected
<1> QED
  BY <1>6, <1>8, <1>9, <1>10, <1>11, <1>12, <1>13, <1>14 DEF AutoInv

LEMMA RemoveInstanceInv == ASSUME AutoInv, RemoveInstance PROVE AutoInv'
<1>1. /\ table' = Unsubscribe(table, current)
      /\ UNCHANGED <<version, coming, current, page, bulked, links, executing, ticking, collected, flights,
                     failures, astray, overtaken>>
  BY DEF RemoveInstance, server, chain, queue, history
<1>2. /\ table' \in Tables /\ table'.subs = {} /\ table'.timers = {} /\ table'.count = 0
      /\ \A r \in Routes : table'.hears[r] = {}
  BY <1>1, Unsubscribed
<1>3. AutoTypeOK' /\ BatchIsLinked'
  BY <1>1, <1>2 DEF AutoInv, AutoTypeOK, BatchIsLinked
<1>4. RequestsAreOfPages' /\ BulksAreWhole' /\ OpenedInOrder' /\ NothingFromFuture' /\ ShowsItsOwn'
  BY <1>1 DEF AutoInv, RequestsAreOfPages, Asking, BulksAreWhole, OpenedInOrder, NothingFromFuture, ShowsItsOwn
<1>5. OneWay' /\ SubscriptionsCounted'
  BY <1>2, FS_EmptySet DEF OneWay, SubscriptionsCounted
<1>6. StaleIsBeingRefreshed'
  BY <1>2 DEF StaleIsBeingRefreshed
<1> QED
  BY <1>3, <1>4, <1>5, <1>6 DEF AutoInv

\* What has been sent stays good for a page whose data have not been changed.
LEMMA RefreshStays ==
  ASSUME AutoInv, RefreshSent, UNCHANGED <<current, page, collected, flights>>,
         version'[page[current].route] = version[page[current].route]
  PROVE  RefreshSent'
BY DEF RefreshSent, Refreshing

LEMMA ChangeInv == ASSUME AutoInv, NEW o \in Objects, Change(o) PROVE AutoInv'
<1> USE AutoUpdateAssumption
<1>1. /\ version' = [version EXCEPT ![o] = @ + 1, ![List] = @ + 1] /\ coming' = coming \cup {o}
      /\ UNCHANGED <<current, page, table, bulked, links, executing, ticking, collected, flights,
                     failures, astray, overtaken>>
  BY DEF Change, chain, queue, history
<1>2. version \in [Routes -> Nat] /\ o \in Routes /\ List \in Routes /\ o # List
  BY DEF AutoInv, AutoTypeOK, Routes
<1>3. /\ version' \in [Routes -> Nat] /\ \A r \in Routes : version'[r] \geq version[r]
      /\ \A r \in Routes \ {o, List} : version'[r] = version[r]
  BY <1>1, <1>2
<1>4. AutoTypeOK'
  BY <1>1, <1>3 DEF AutoInv, AutoTypeOK
<1>5. RequestsAreOfPages' /\ BulksAreWhole' /\ OpenedInOrder' /\ ShowsItsOwn' /\ OneWay' /\ BatchIsLinked'
      /\ SubscriptionsCounted'
  BY <1>1 DEF AutoInv, RequestsAreOfPages, Asking, BulksAreWhole, OpenedInOrder, ShowsItsOwn, OneWay,
     BatchIsLinked, SubscriptionsCounted
<1>6. NothingFromFuture'
  <2>1. \A v \in Visits : page[v].shows.of \in Routes /\ page[v].shows.ver \in Nat
    BY DEF AutoInv, AutoTypeOK, Pages, Data
  <2>2. \A f \in flights : \A i \in 1..Len(f.got) : f.reqs[i].for \in Routes /\ f.got[i] \in Nat
    <3> TAKE f \in flights
    <3> TAKE i \in 1..Len(f.got)
    <3>1. f.reqs \in Seq(Requests) /\ f.got \in Seq(Nat)
      BY DEF AutoInv, AutoTypeOK, Flights
    <3>2. f.got # <<>> /\ i \in 1..Len(f.reqs)
      BY <3>1 DEF AutoInv, BulksAreWhole
    <3>3. f.reqs[i] \in Requests /\ f.got[i] \in Nat
      BY <3>1, <3>2
    <3> QED
      BY <3>3 DEF Requests
  <2>3. \A r \in Routes, n \in Nat : n \leq version[r] => n \leq version'[r]
    BY <1>2, <1>3
  <2>4. \A v \in Visits : page'[v].shows.ver \leq version'[page'[v].shows.of]
    BY <1>1, <2>1, <2>3 DEF AutoInv, NothingFromFuture
  <2>5. \A f \in flights : \A i \in 1..Len(f.got) : f.got[i] \leq version'[f.reqs[i].for]
    BY <2>2, <2>3 DEF AutoInv, NothingFromFuture
  <2> QED
    BY <1>1, <2>4, <2>5 DEF NothingFromFuture
<1>7. StaleIsBeingRefreshed'
  <2> SUFFICES ASSUME current > 0, current \in table.subs, ~UpToDate(current)',
                      failures = 0, ~astray, ~overtaken
               PROVE  Expected' \/ RefreshSent'
    BY <1>1 DEF StaleIsBeingRefreshed
  <2>1. page[current].route \in Routes /\ current \in Visits
    BY DEF AutoInv, AutoTypeOK, Pages, Visits
  <2>2. CASE page[current].route \in {o, List}
    BY <1>1, <2>2 DEF Expected
  <2>3. CASE page[current].route \notin {o, List}
    <3>1. version'[page[current].route] = version[page[current].route]
      BY <1>3, <2>1, <2>3
    <3>2. ~UpToDate(current)
      BY <1>1, <3>1 DEF UpToDate
    <3>3. Expected => Expected'
      BY <1>1 DEF Expected
    <3> QED
      BY <1>1, <3>1, <3>2, <3>3, RefreshStays DEF AutoInv, StaleIsBeingRefreshed
  <2> QED
    BY <2>2, <2>3
<1> QED
  BY <1>4, <1>5, <1>6, <1>7 DEF AutoInv

LEMMA PublicationInv == ASSUME AutoInv, NEW o \in Objects, Publication(o) PROVE AutoInv'
<1> USE AutoUpdateAssumption
<1>1. /\ coming' = coming \ {o} /\ bulked' = bulked \cup table.hears[List] \cup table.hears[o]
      /\ links' = links + Added(table.hears[List]) + Added(table.hears[o])
      /\ UNCHANGED <<version, current, page, table, executing, ticking, collected, flights,
                     failures, astray, overtaken>>
  BY DEF Publication, Heard, queue, history
<1>2. /\ o \in Routes /\ List \in Routes /\ current \in 0..MaxVisits
      /\ \A r \in Routes : table.hears[r] \subseteq table.subs
      /\ table.subs \subseteq {current} /\ table.subs \subseteq Visits
  BY DEF AutoInv, AutoTypeOK, Routes, SubscriptionsCounted, Tables
<1>3. table.subs \subseteq 1..current
  BY <1>2 DEF Visits
<1>4. /\ links \in Nat /\ links' \in Nat /\ links' \geq links
      /\ links' > links \/ bulked' = bulked
  BY <1>1 DEF Added, AutoInv, AutoTypeOK
<1>5. AutoTypeOK'
  BY <1>1, <1>2, <1>4 DEF AutoInv, AutoTypeOK
<1>6. RequestsAreOfPages' /\ BulksAreWhole' /\ OpenedInOrder' /\ NothingFromFuture' /\ ShowsItsOwn' /\ OneWay'
      /\ SubscriptionsCounted'
  BY <1>1 DEF AutoInv, RequestsAreOfPages, Asking, BulksAreWhole, OpenedInOrder, NothingFromFuture, ShowsItsOwn,
     OneWay, SubscriptionsCounted
<1>7. BatchIsLinked'
  <2>1. bulked' \subseteq 1..current'
    BY <1>1, <1>2, <1>3 DEF AutoInv, BatchIsLinked
  <2>2. links' > (IF executing THEN 1 ELSE 0) \/ bulked' = {}
    BY <1>4 DEF AutoInv, BatchIsLinked
  <2> QED
    BY <1>1, <1>4, <2>1, <2>2 DEF AutoInv, BatchIsLinked
<1>8. StaleIsBeingRefreshed'
  <2> SUFFICES ASSUME current > 0, current \in table.subs, ~UpToDate(current),
                      failures = 0, ~astray, ~overtaken
               PROVE  Expected' \/ RefreshSent'
    BY <1>1 DEF StaleIsBeingRefreshed, UpToDate
  <2>1. Expected \/ RefreshSent
    BY DEF AutoInv, StaleIsBeingRefreshed
  <2>2. CASE page[current].route \in {o, List}
    <3>1. current \in bulked'
      BY <1>1, <2>2 DEF AutoInv, OneWay
    <3> QED
      BY <1>1, <1>7, <3>1 DEF BatchIsLinked, Expected
  <2>3. CASE RefreshSent
    BY <1>1, <2>3, RefreshStays
  <2>4. CASE Expected /\ page[current].route \notin {o, List}
    BY <1>1, <1>4, <2>4 DEF Expected, AutoInv, AutoTypeOK
  <2> QED
    BY <2>1, <2>2, <2>3, <2>4
<1> QED
  BY <1>5, <1>6, <1>7, <1>8 DEF AutoInv

\* Requests that join the queue.
LEMMA QueueGrows ==
  ASSUME AutoInv, NEW more \in Seq(Requests), collected' = collected \o more
  PROVE  /\ collected' \in Seq(Requests)
         /\ \A i \in 1..Len(collected) : i \in 1..Len(collected') /\ collected'[i] = collected[i]
         /\ \A i \in 1..Len(collected') : i \in 1..Len(collected) \/ \E j \in 1..Len(more) : collected'[i] = more[j]
         /\ \A j \in 1..Len(more) : \E i \in 1..Len(collected') : collected'[i] = more[j]
<1> DEFINE s == collected
           t == s \o more
<1>1. s \in Seq(Requests)
  BY DEF AutoInv, AutoTypeOK
<1> HIDE DEF s
<1>2. /\ t \in Seq(Requests) /\ Len(t) = Len(s) + Len(more)
      /\ \A i \in 1..Len(t) : t[i] = IF i \leq Len(s) THEN s[i] ELSE more[i - Len(s)]
  BY <1>1, ConcatProperties
<1> HIDE DEF t
<1>3. Len(s) \in Nat /\ Len(more) \in Nat
  BY <1>1
<1>4. \A i \in 1..Len(s) : i \in 1..Len(t) /\ t[i] = s[i]
  <2> TAKE i \in 1..Len(s)
  <2>1. i \in 1..Len(t) /\ i \leq Len(s)
    BY <1>2, <1>3
  <2> QED
    BY <1>2, <2>1
<1>5. \A i \in 1..Len(t) : i \in 1..Len(s) \/ (i - Len(s) \in 1..Len(more) /\ t[i] = more[i - Len(s)])
  <2> TAKE i \in 1..Len(t)
  <2>1. i \leq Len(s) => i \in 1..Len(s)
    BY <1>2, <1>3
  <2>2. ~(i \leq Len(s)) => i - Len(s) \in 1..Len(more)
    BY <1>2, <1>3
  <2> QED
    BY <1>2, <2>1, <2>2
<1>6. \A j \in 1..Len(more) : j + Len(s) \in 1..Len(t) /\ t[j + Len(s)] = more[j]
  <2> TAKE j \in 1..Len(more)
  <2>1. j + Len(s) \in 1..Len(t) /\ ~(j + Len(s) \leq Len(s)) /\ (j + Len(s)) - Len(s) = j
    BY <1>2, <1>3
  <2> QED
    BY <1>2, <2>1
<1>7. collected' = t
  BY DEF s, t
<1> QED
  BY <1>2, <1>4, <1>5, <1>6, <1>7 DEF s

LEMMA GrownQueue ==
  ASSUME AutoInv, NEW more \in Seq(Requests), collected' = collected \o more, flights' = flights,
         current' = current,
         \A j \in 1..Len(more) : Asking(more[j])', \A q : Asking(q) => Asking(q)'
  PROVE  /\ collected' \in Seq(Requests) /\ RequestsAreOfPages' /\ BulksAreWhole'
         /\ version' = version /\ page'[current].route = page[current].route /\ RefreshSent => RefreshSent'
<1>1. /\ collected' \in Seq(Requests)
      /\ \A i \in 1..Len(collected) : i \in 1..Len(collected') /\ collected'[i] = collected[i]
      /\ \A i \in 1..Len(collected') : i \in 1..Len(collected) \/ \E j \in 1..Len(more) : collected'[i] = more[j]
  BY QueueGrows
<1>2. RequestsAreOfPages'
  BY <1>1 DEF AutoInv, RequestsAreOfPages
<1>3. BulksAreWhole'
  BY DEF AutoInv, BulksAreWhole
<1>4. version' = version /\ page'[current].route = page[current].route /\ RefreshSent => RefreshSent'
  BY <1>1 DEF RefreshSent, Refreshing
<1> QED
  BY <1>1, <1>2, <1>3, <1>4

LEMMA PagesOpened == ASSUME AutoInv PROVE current \in Nat /\ 1..current \subseteq Visits
BY AutoUpdateAssumption DEF AutoInv, AutoTypeOK, Visits

LEMMA AskedRoutes ==
  ASSUME AutoInv, current > 0, NEW v \in Visits
  PROVE  /\ Asked(v) \in Routes
         /\ ~astray => Asked(current) = page[current].route
BY DEF AutoInv, AutoTypeOK, ShowsItsOwn, Asked, Routes, Pages, Data, Visits

\* What a stale page asks for, by whichever way, will refresh it.
LEMMA UpdatesRefresh ==
  ASSUME AutoInv, current > 0, NEW n \in Nat, NEW why \in {"load", "sub", "timer"}
  PROVE  /\ Updates(n, why) \in Seq(Requests) /\ Len(Updates(n, why)) = n
         /\ \A j \in 1..n : /\ Updates(n, why)[j].by = current /\ Updates(n, why)[j].why = why
                            /\ ~astray => Refreshing(Updates(n, why)[j])
<1>1. current \in Visits
  BY DEF AutoInv, AutoTypeOK, Visits
<1>2. /\ Update(why) \in Requests /\ Update(why).by = current /\ Update(why).why = why
      /\ Update(why).for = Asked(current)
  BY <1>1, AskedRoutes DEF Update, Requests
<1>3. ~astray => Refreshing(Update(why))
  BY <1>1, <1>2, AskedRoutes DEF Refreshing
<1>4. Updates(n, why) = [i \in 1..n |-> Update(why)]
  BY DEF Updates
<1>5. Updates(n, why) \in Seq(Requests) /\ Len(Updates(n, why)) = n
  BY <1>2, <1>4
<1> QED
  BY <1>2, <1>3, <1>4, <1>5

LEMMA AutoLoadInv == ASSUME AutoInv, NEW v \in Visits, Load(v) PROVE AutoInv'
<1>1. /\ page[v].state = "new" /\ page' = [page EXCEPT ![v].state = "loading"]
      /\ collected' = Append(collected, [by |-> v, for |-> Asked(v), why |-> "load"])
      /\ UNCHANGED <<version, coming, current, table, bulked, links, executing, ticking, flights,
                     failures, astray, overtaken>>
  BY DEF Load, server, chain, history
<1>2. v \leq current /\ current > 0 /\ v \in 1..current
  BY <1>1 DEF AutoInv, OpenedInOrder, AutoTypeOK, Visits
<1>3. page \in [Visits -> Pages] /\ current \in Visits
  BY <1>2 DEF AutoInv, AutoTypeOK, Visits
<1>4. /\ page' \in [Visits -> Pages]
      /\ \A w \in Visits : page'[w].route = page[w].route /\ page'[w].shows = page[w].shows
      /\ \A w \in Visits : page'[w].state = IF w = v THEN "loading" ELSE page[w].state
  BY <1>1, <1>3 DEF Pages
<1>5. PICK q \in Requests : q.by = v /\ q.for = Asked(v) /\ collected' = Append(collected, q)
  BY <1>1, <1>2, AskedRoutes DEF Requests
<1>6. PICK more \in Seq(Requests) : Len(more) = 1 /\ more[1] = q /\ collected' = collected \o more
  <2>1. collected \in Seq(Requests)
    BY DEF AutoInv, AutoTypeOK
  <2>2. Append(collected, q) = collected \o <<q>>
    BY <1>5, <2>1, AppendIsConcat
  <2>3. <<q>> \in Seq(Requests) /\ Len(<<q>>) = 1 /\ <<q>>[1] = q
    OBVIOUS
  <2> QED
    BY <1>5, <2>2, <2>3
<1>7. \A p : Asking(p) => Asking(p)'
  <2> SUFFICES ASSUME NEW p, Asking(p) PROVE Asking(p)'
    OBVIOUS
  <2>1. p.by \in Visits
    BY PagesOpened DEF Asking
  <2> QED
    BY <1>1, <1>4, <2>1 DEF Asking
<1>8. \A j \in 1..Len(more) : Asking(more[j])'
  BY <1>1, <1>2, <1>4, <1>5, <1>6 DEF Asking
<1>9. /\ collected' \in Seq(Requests) /\ RequestsAreOfPages' /\ BulksAreWhole'
      /\ RefreshSent => RefreshSent'
  BY <1>1, <1>3, <1>4, <1>6, <1>7, <1>8, GrownQueue
<1>10. AutoTypeOK'
  BY <1>1, <1>4, <1>9 DEF AutoInv, AutoTypeOK
<1>11. OpenedInOrder' /\ NothingFromFuture' /\ ShowsItsOwn' /\ BatchIsLinked' /\ SubscriptionsCounted'
  <2>1. OpenedInOrder'
    BY <1>1, <1>2, <1>4 DEF AutoInv, OpenedInOrder
  <2>2. NothingFromFuture' /\ ShowsItsOwn'
    BY <1>1, <1>4 DEF AutoInv, NothingFromFuture, ShowsItsOwn
  <2>3. BatchIsLinked' /\ SubscriptionsCounted'
    BY <1>1 DEF AutoInv, BatchIsLinked, SubscriptionsCounted
  <2> QED
    BY <2>1, <2>2, <2>3
<1>12. OneWay'
  <2>1. table.subs \subseteq Visits
    BY DEF AutoInv, AutoTypeOK, Tables
  <2> QED
    BY <1>1, <1>4, <2>1 DEF AutoInv, OneWay
<1>13. StaleIsBeingRefreshed'
  <2> SUFFICES ASSUME current > 0, current \in table.subs, ~UpToDate(current),
                      failures = 0, ~astray, ~overtaken
               PROVE  Expected' \/ RefreshSent'
    BY <1>1, <1>3, <1>4 DEF StaleIsBeingRefreshed, UpToDate
  <2>1. Expected \/ RefreshSent
    BY DEF AutoInv, StaleIsBeingRefreshed
  <2>2. CASE v = current
    <3>1. Asked(current) = page[current].route
      BY <1>3, AskedRoutes
    <3>2. \E i \in 1..Len(collected') : collected'[i] = q
      <4>1. \A j \in 1..Len(more) : \E i \in 1..Len(collected') : collected'[i] = more[j]
        BY <1>6, QueueGrows
      <4> QED
        BY <1>6, <4>1
    <3>3. Refreshing(q)'
      BY <1>1, <1>3, <1>4, <1>5, <2>2, <3>1 DEF Refreshing
    <3> QED
      BY <3>2, <3>3 DEF RefreshSent
  <2>3. CASE v # current
    <3>1. Expected => Expected'
      BY <1>1, <1>3, <1>4, <2>3 DEF Expected
    <3> QED
      BY <1>9, <2>1, <3>1
  <2> QED
    BY <2>2, <2>3
<1> QED
  BY <1>9, <1>10, <1>11, <1>12, <1>13 DEF AutoInv

LEMMA NoUpdates == ASSUME NEW why PROVE Updates(0, why) = <<>>
BY DEF Updates

\* A round of callbacks asks for the current page.
LEMMA RoundAsks ==
  ASSUME AutoInv, NEW S \in SUBSET (1..current), NEW why \in {"sub", "timer"},
         collected' = collected \o Updates(Cardinality(S), why), UNCHANGED <<flights, current, page, version>>
  PROVE  /\ collected' \in Seq(Requests) /\ RequestsAreOfPages' /\ BulksAreWhole'
         /\ RefreshSent => RefreshSent'
         /\ S # {} /\ ~astray => RefreshSent'
<1>1. IsFiniteSet(S) /\ Cardinality(S) \in Nat /\ (Cardinality(S) = 0 <=> S = {})
  <2>1. IsFiniteSet(1..current)
    BY PagesOpened, FS_Interval
  <2>2. IsFiniteSet(S)
    BY <2>1, FS_Subset
  <2> QED
    BY <2>2, FS_CardinalityType, FS_EmptySet
<1>2. S # {} => current > 0
  <2> SUFFICES ASSUME S # {} PROVE current > 0
    OBVIOUS
  <2>1. PICK x \in 1..current : TRUE
    OBVIOUS
  <2>2. current \in Nat
    BY PagesOpened
  <2> QED
    BY <2>1, <2>2
<1>3. PICK more \in Seq(Requests) :
        /\ collected' = collected \o more /\ Len(more) = Cardinality(S)
        /\ \A j \in 1..Len(more) : /\ more[j].by = current /\ more[j].why = why
                                   /\ ~astray => Refreshing(more[j])
  <2>1. CASE S = {}
    <3>1. Updates(Cardinality(S), why) = <<>>
      BY <1>1, <2>1, NoUpdates
    <3>2. <<>> \in Seq(Requests) /\ Len(<<>>) = 0 /\ 1..0 = {}
      OBVIOUS
    <3> QED
      BY <1>1, <2>1, <3>1, <3>2
  <2>2. CASE S # {}
    <3> DEFINE n == Cardinality(S)
    <3>1. n \in Nat /\ current > 0 /\ why \in {"load", "sub", "timer"}
      BY <1>1, <1>2, <2>2
    <3> HIDE DEF n
    <3>2. /\ Updates(n, why) \in Seq(Requests) /\ Len(Updates(n, why)) = n
          /\ \A j \in 1..n : /\ Updates(n, why)[j].by = current /\ Updates(n, why)[j].why = why
                             /\ ~astray => Refreshing(Updates(n, why)[j])
      BY <3>1, UpdatesRefresh
    <3> QED
      BY <3>2 DEF n
  <2> QED
    BY <2>1, <2>2
<1>4. \A j \in 1..Len(more) : Asking(more[j])'
  <2> TAKE j \in 1..Len(more)
  <2>1. current \in 1..current
    BY <1>1, <1>2, <1>3, PagesOpened
  <2> QED
    BY <1>3, <2>1 DEF Asking
<1>5. \A q : Asking(q) => Asking(q)'
  BY DEF Asking
<1>6. /\ collected' \in Seq(Requests) /\ RequestsAreOfPages' /\ BulksAreWhole'
      /\ RefreshSent => RefreshSent'
  BY <1>3, <1>4, <1>5, GrownQueue
<1>7. ASSUME S # {}, ~astray PROVE RefreshSent'
  <2>1. 1 \in 1..Len(more)
    <3>1. Len(more) \in Nat \ {0}
      BY <1>1, <1>3, <1>7
    <3> QED
      BY <3>1
  <2>2. PICK i \in 1..Len(collected') : collected'[i] = more[1]
    BY <1>3, <2>1, QueueGrows
  <2>3. Refreshing(more[1])'
    BY <1>3, <1>7, <2>1 DEF Refreshing
  <2> QED
    BY <2>2, <2>3 DEF RefreshSent
<1> QED
  BY <1>6, <1>7

LEMMA ExecuteInv == ASSUME AutoInv, Execute PROVE AutoInv'
<1>1. /\ links > 0 /\ ~executing /\ executing' = TRUE /\ bulked' = {}
      /\ collected' = collected \o Updates(Cardinality(bulked), "sub")
      /\ UNCHANGED <<version, coming, current, page, table, links, ticking, flights, failures, astray, overtaken>>
  BY DEF Execute, server, history
<1>2. /\ collected' \in Seq(Requests) /\ RequestsAreOfPages' /\ BulksAreWhole'
      /\ RefreshSent => RefreshSent'
      /\ bulked # {} /\ ~astray => RefreshSent'
  BY <1>1, RoundAsks DEF AutoInv, BatchIsLinked
<1>3. AutoTypeOK'
  BY <1>1, <1>2 DEF AutoInv, AutoTypeOK
<1>4. OpenedInOrder' /\ NothingFromFuture' /\ ShowsItsOwn' /\ OneWay' /\ BatchIsLinked' /\ SubscriptionsCounted'
  BY <1>1 DEF AutoInv, OpenedInOrder, NothingFromFuture, ShowsItsOwn, OneWay, BatchIsLinked, SubscriptionsCounted
<1>5. StaleIsBeingRefreshed'
  BY <1>1, <1>2 DEF AutoInv, StaleIsBeingRefreshed, UpToDate, Expected
<1> QED
  BY <1>2, <1>3, <1>4, <1>5 DEF AutoInv

LEMMA TickInv == ASSUME AutoInv, Tick PROVE AutoInv'
<1>1. /\ ticking' = TRUE /\ collected' = collected \o Updates(Cardinality(table.timers), "timer")
      /\ UNCHANGED <<version, coming, current, page, table, bulked, links, executing, flights, failures,
                     astray, overtaken>>
  BY DEF Tick, server, chain, history
<1>2. table.timers \subseteq 1..current
  BY AutoUpdateAssumption DEF AutoInv, SubscriptionsCounted, AutoTypeOK, Tables, Visits
<1>3. /\ collected' \in Seq(Requests) /\ RequestsAreOfPages' /\ BulksAreWhole'
      /\ RefreshSent => RefreshSent'
  BY <1>1, <1>2, RoundAsks
<1>4. AutoTypeOK'
  BY <1>1, <1>3 DEF AutoInv, AutoTypeOK
<1>5. OpenedInOrder' /\ NothingFromFuture' /\ ShowsItsOwn' /\ OneWay' /\ BatchIsLinked' /\ SubscriptionsCounted'
  BY <1>1 DEF AutoInv, OpenedInOrder, NothingFromFuture, ShowsItsOwn, OneWay, BatchIsLinked, SubscriptionsCounted
<1>6. StaleIsBeingRefreshed'
  BY <1>1, <1>3 DEF AutoInv, StaleIsBeingRefreshed, UpToDate, Expected
<1> QED
  BY <1>3, <1>4, <1>5, <1>6 DEF AutoInv

\* A link of the chain, or a round of the timer, comes to its end.
LEMMA RoundEndsInv == ASSUME AutoInv, LinkEnds \/ TickEnds PROVE AutoInv'
<1>1. UNCHANGED <<version, coming, current, page, table, bulked, collected, flights, failures, astray, overtaken>>
  BY DEF LinkEnds, TickEnds, server, chain, queue, history
<1>2. /\ links' \in Nat /\ BatchIsLinked' /\ executing' \in BOOLEAN /\ ticking' \in BOOLEAN
      /\ links > (IF executing THEN 1 ELSE 0) => links' > (IF executing' THEN 1 ELSE 0)
  <2>1. CASE LinkEnds
    <3>1. executing = TRUE /\ executing' = FALSE /\ links' = links - 1 /\ UNCHANGED <<bulked, current, ticking>>
      BY <2>1 DEF LinkEnds, AutoInv, AutoTypeOK
    <3>2. links \in Nat /\ links > 0 /\ ticking \in BOOLEAN
      BY <3>1 DEF AutoInv, AutoTypeOK, BatchIsLinked
    <3>3. bulked # {} => links > 1
      BY <3>1 DEF AutoInv, BatchIsLinked
    <3>4. links' \in Nat /\ (links > 1 => links' > 0)
      BY <3>1, <3>2
    <3>5. BatchIsLinked'
      BY <3>1, <3>3, <3>4 DEF AutoInv, BatchIsLinked
    <3> QED
      BY <3>1, <3>2, <3>4, <3>5
  <2>2. CASE TickEnds
    BY <2>2 DEF TickEnds, chain, AutoInv, AutoTypeOK, BatchIsLinked
  <2> QED
    BY <2>1, <2>2
<1>3. AutoTypeOK'
  BY <1>1, <1>2 DEF AutoInv, AutoTypeOK
<1>4. RequestsAreOfPages' /\ BulksAreWhole' /\ OpenedInOrder' /\ NothingFromFuture' /\ ShowsItsOwn' /\ OneWay'
      /\ SubscriptionsCounted'
  BY <1>1 DEF AutoInv, RequestsAreOfPages, Asking, BulksAreWhole, OpenedInOrder, NothingFromFuture, ShowsItsOwn,
     OneWay, SubscriptionsCounted
<1>5. StaleIsBeingRefreshed'
  <2>1. RefreshSent => RefreshSent'
    BY <1>1, RefreshStays
  <2>2. Expected => Expected'
    BY <1>1, <1>2 DEF Expected
  <2> QED
    BY <1>1, <2>1, <2>2 DEF AutoInv, StaleIsBeingRefreshed, UpToDate
<1> QED
  BY <1>2, <1>3, <1>4, <1>5 DEF AutoInv

\* What is sent, answered and settled.
LEMMA FlightTypes ==
  ASSUME AutoInv, NEW f \in flights
  PROVE  /\ f \in Flights /\ f.reqs \in Seq(Requests) /\ f.got \in Seq(Nat) /\ Len(f.reqs) \in Nat
         /\ \A i \in 1..Len(f.reqs) : f.reqs[i] \in Requests /\ f.reqs[i].for \in Routes /\ Asking(f.reqs[i])
<1>1. f \in Flights /\ f.reqs \in Seq(Requests) /\ f.got \in Seq(Nat)
  BY DEF AutoInv, AutoTypeOK, Flights
<1>2. \A i \in 1..Len(f.reqs) : f.reqs[i] \in Requests
  BY <1>1
<1>3. \A i \in 1..Len(f.reqs) : f.reqs[i].for \in Routes /\ Asking(f.reqs[i])
  BY <1>2 DEF Requests, AutoInv, RequestsAreOfPages
<1> QED
  BY <1>1, <1>2, <1>3

LEMMA SendInv == ASSUME AutoInv, Send PROVE AutoInv'
<1> DEFINE f == [reqs |-> collected, got |-> <<>>]
<1>1. /\ collected # <<>> /\ flights' = flights \cup {f} /\ collected' = <<>>
      /\ UNCHANGED <<version, coming, current, page, table, bulked, links, executing, ticking, failures,
                     astray, overtaken>>
  BY DEF Send, server, chain, history
<1>2. collected \in Seq(Requests) /\ <<>> \in Seq(Nat) /\ <<>> \in Seq(Requests) /\ Len(<<>>) = 0
  BY DEF AutoInv, AutoTypeOK
<1>3. f \in Flights /\ f.reqs = collected /\ f.got = <<>>
  BY <1>2 DEF Flights
<1> HIDE DEF f
<1>4. AutoTypeOK'
  BY <1>1, <1>2, <1>3 DEF AutoInv, AutoTypeOK
<1>5. \A q : Asking(q)' <=> Asking(q)
  BY <1>1 DEF Asking
<1>6. RequestsAreOfPages'
  BY <1>1, <1>2, <1>3, <1>5 DEF AutoInv, RequestsAreOfPages
<1>7. BulksAreWhole' /\ NothingFromFuture'
  BY <1>1, <1>2, <1>3 DEF AutoInv, BulksAreWhole, NothingFromFuture
<1>8. OpenedInOrder' /\ ShowsItsOwn' /\ OneWay' /\ BatchIsLinked' /\ SubscriptionsCounted'
  BY <1>1 DEF AutoInv, OpenedInOrder, ShowsItsOwn, OneWay, BatchIsLinked, SubscriptionsCounted
<1>9. RefreshSent => RefreshSent'
  BY <1>1, <1>3 DEF RefreshSent, Refreshing
<1>10. StaleIsBeingRefreshed'
  BY <1>1, <1>9 DEF AutoInv, StaleIsBeingRefreshed, UpToDate, Expected
<1> QED
  BY <1>4, <1>6, <1>7, <1>8, <1>10 DEF AutoInv

LEMMA ServeInv == ASSUME AutoInv, NEW f \in flights, Serve(f) PROVE AutoInv'
<1> DEFINE got == [i \in 1..Len(f.reqs) |-> version[f.reqs[i].for]]
           g == [f EXCEPT !.got = got]
<1>1. /\ f.got = <<>> /\ flights' = (flights \ {f}) \cup {g}
      /\ UNCHANGED <<version, coming, current, page, table, bulked, links, executing, ticking, collected,
                     failures, astray, overtaken>>
  BY DEF Serve, server, chain, history
<1>2. /\ f \in Flights /\ f.reqs \in Seq(Requests) /\ Len(f.reqs) \in Nat /\ f.reqs # <<>>
      /\ \A i \in 1..Len(f.reqs) : f.reqs[i].for \in Routes
  BY FlightTypes DEF AutoInv, BulksAreWhole
<1>3. /\ got \in Seq(Nat) /\ Len(got) = Len(f.reqs)
      /\ \A i \in 1..Len(f.reqs) : got[i] = version[f.reqs[i].for] /\ got[i] \in Nat
  <2>1. \A i \in 1..Len(f.reqs) : version[f.reqs[i].for] \in Nat
    BY <1>2 DEF AutoInv, AutoTypeOK
  <2> QED
    BY <1>2, <2>1
<1> HIDE DEF got
<1>4. g \in Flights /\ g.reqs = f.reqs /\ g.got = got
  BY <1>2, <1>3 DEF Flights
<1> HIDE DEF g
<1>5. AutoTypeOK'
  BY <1>1, <1>4 DEF AutoInv, AutoTypeOK
<1>6. \A q : Asking(q)' <=> Asking(q)
  BY <1>1 DEF Asking
<1>7. RequestsAreOfPages'
  BY <1>1, <1>4, <1>6 DEF AutoInv, RequestsAreOfPages
<1>8. BulksAreWhole'
  BY <1>1, <1>2, <1>3, <1>4 DEF AutoInv, BulksAreWhole
<1>9. NothingFromFuture'
  BY <1>1, <1>3, <1>4 DEF AutoInv, NothingFromFuture
<1>10. OpenedInOrder' /\ ShowsItsOwn' /\ OneWay' /\ BatchIsLinked' /\ SubscriptionsCounted'
  BY <1>1 DEF AutoInv, OpenedInOrder, ShowsItsOwn, OneWay, BatchIsLinked, SubscriptionsCounted
<1>11. RefreshSent => RefreshSent'
  <2>1. CASE \E i \in 1..Len(collected) : Refreshing(collected[i])
    BY <1>1, <2>1 DEF RefreshSent, Refreshing
  <2>2. ASSUME NEW h \in flights, NEW i \in 1..Len(h.reqs), Refreshing(h.reqs[i]),
               h.got = <<>> \/ h.got[i] = version[page[current].route]
        PROVE  RefreshSent'
    <3>1. CASE h = f
      BY <1>1, <1>3, <1>4, <2>2, <3>1 DEF RefreshSent, Refreshing
    <3>2. CASE h # f
      BY <1>1, <2>2, <3>2 DEF RefreshSent, Refreshing
    <3> QED
      BY <3>1, <3>2
  <2> QED
    BY <2>1, <2>2 DEF RefreshSent
<1>12. StaleIsBeingRefreshed'
  BY <1>1, <1>11 DEF AutoInv, StaleIsBeingRefreshed, UpToDate, Expected
<1> QED
  BY <1>5, <1>7, <1>8, <1>9, <1>10, <1>12 DEF AutoInv

\* When a bulk is settled, so is the loading of the pages it was to load.
LEMMA SettledPages ==
  ASSUME AutoInv, NEW f \in flights, NEW pages \in [Visits -> Pages],
         \A v \in Visits : pages[v].route = page[v].route /\ pages[v].state = page[v].state,
         page' = Settled(pages, Loads(f)), flights' = flights \ {f},
         UNCHANGED <<version, coming, current, table, bulked, links, executing, ticking, collected>>
  PROVE  /\ page' \in [Visits -> Pages] /\ \A v \in Visits : page'[v].route = page[v].route
         /\ \A v \in Visits : page'[v].shows = pages[v].shows
         /\ \A v \in Visits : page'[v].state = "new" <=> page[v].state = "new"
         /\ RequestsAreOfPages' /\ BulksAreWhole' /\ OpenedInOrder' /\ OneWay' /\ BatchIsLinked'
         /\ SubscriptionsCounted'
<1>1. \A v \in Visits : page'[v] = IF v \in Loads(f) THEN [pages[v] EXCEPT !.state = "done"] ELSE pages[v]
  BY DEF Settled
<1>2. page' \in [Visits -> Pages]
  BY DEF Settled, Pages
<1>3. \A v \in Visits : /\ page'[v].route = page[v].route /\ page'[v].shows = pages[v].shows
                        /\ page'[v].state = IF v \in Loads(f) THEN "done" ELSE page[v].state
  BY <1>1 DEF Pages
<1>4. \A v \in Loads(f) : v \in 1..current /\ page[v].state # "new"
  BY FlightTypes DEF Loads, Asking
<1>5. \A v \in Visits : page'[v].state = "new" <=> page[v].state = "new"
  BY <1>3, <1>4
<1>6. \A q : Asking(q) => Asking(q)'
  BY <1>5, PagesOpened DEF Asking
<1>7. RequestsAreOfPages' /\ BulksAreWhole'
  BY <1>6 DEF AutoInv, RequestsAreOfPages, BulksAreWhole
<1>8. OpenedInOrder'
  BY <1>3, <1>4, PagesOpened DEF AutoInv, OpenedInOrder
<1>9. OneWay'
  <2>1. table.subs \subseteq Visits
    BY DEF AutoInv, AutoTypeOK, Tables
  <2> QED
    BY <1>3, <2>1 DEF AutoInv, OneWay
<1>10. BatchIsLinked' /\ SubscriptionsCounted'
  <2>1. BatchIsLinked'
    BY DEF AutoInv, BatchIsLinked
  <2>2. SubscriptionsCounted'
    BY DEF AutoInv, SubscriptionsCounted
  <2> QED
    BY <2>1, <2>2
<1> QED
  BY <1>2, <1>3, <1>5, <1>7, <1>8, <1>9, <1>10

LEMMA FailInv == ASSUME AutoInv, NEW f \in flights, Fail(f) PROVE AutoInv'
<1>1. /\ failures' = failures + 1 /\ flights' = flights \ {f} /\ page' = Settled(page, Loads(f))
      /\ UNCHANGED <<version, coming, current, table, bulked, links, executing, ticking, collected,
                     astray, overtaken>>
  BY DEF Fail, server, chain, history
<1>2. page \in [Visits -> Pages] /\ failures \in Nat
  BY DEF AutoInv, AutoTypeOK
<1>3. /\ page' \in [Visits -> Pages] /\ \A v \in Visits : page'[v].route = page[v].route
      /\ \A v \in Visits : page'[v].shows = page[v].shows
      /\ RequestsAreOfPages' /\ BulksAreWhole' /\ OpenedInOrder' /\ OneWay' /\ BatchIsLinked'
      /\ SubscriptionsCounted'
  BY <1>1, <1>2, SettledPages
<1>4. AutoTypeOK'
  BY <1>1, <1>2, <1>3 DEF AutoInv, AutoTypeOK
<1>5. NothingFromFuture' /\ ShowsItsOwn'
  BY <1>1, <1>3 DEF AutoInv, NothingFromFuture, ShowsItsOwn
<1>6. StaleIsBeingRefreshed'
  BY <1>1, <1>2 DEF StaleIsBeingRefreshed
<1> QED
  BY <1>3, <1>4, <1>5, <1>6 DEF AutoInv

\* What holds of the pages between two promises of a bulk.
Sound(w) ==
  /\ w.shows \in [Visits -> Data] /\ w.astray \in BOOLEAN /\ w.overtaken \in BOOLEAN
  /\ \A v \in Visits : w.shows[v].ver \leq version[w.shows[v].of]
  /\ ~w.astray => \A v \in Visits : w.shows[v].of = page[v].route
Flagged(w) == w.astray \/ w.overtaken
Newest(w) == w.shows[current] = [of |-> page[current].route, ver |-> version[page[current].route]]

\* An answer keeps that, and never takes the newest data off the current page
\* without a flag; one with the newest data puts them there.
LEMMA AnsweredKeeps ==
  ASSUME AutoInv, NEW w, Sound(w), NEW q \in Requests, Asking(q), NEW ver \in Nat, ver \leq version[q.for]
  PROVE  LET a == Answered(w, q, ver)
         IN  /\ Sound(a) /\ (w.astray => a.astray) /\ (w.overtaken => a.overtaken)
             /\ Newest(w) => Flagged(a) \/ Newest(a)
             /\ Refreshing(q) /\ ver = version[page[current].route] => Flagged(a) \/ Newest(a)
<1> DEFINE data == [of |-> q.for, ver |-> ver]
           targets == IF page[q.by].route = List THEN {q.by}
                      ELSE IF q.for = List \/ w.shows[q.by] = data THEN {}
                      ELSE {v \in {current} : page[v].route # List}
           a == Answered(w, q, ver)
<1>1. q.by \in Visits /\ q.for \in Routes /\ current \in Visits
  BY PagesOpened DEF Requests, Asking
<1>2. data \in Data /\ data.of = q.for /\ data.ver = ver
  BY <1>1 DEF Data
<1>3. targets \subseteq Visits
  BY <1>1
<1>4. a = [shows |-> [v \in Visits |-> IF v \in targets THEN data ELSE w.shows[v]],
           astray |-> w.astray \/ \E v \in targets : page[v].route # data.of,
           overtaken |-> w.overtaken \/ \E v \in targets : w.shows[v].of = data.of /\ w.shows[v].ver > ver]
  BY DEF Answered
<1> HIDE DEF a
<1>5. /\ \A v \in Visits : a.shows[v] = IF v \in targets THEN data ELSE w.shows[v]
      /\ a.astray \in BOOLEAN /\ (a.astray <=> (w.astray \/ \E v \in targets : page[v].route # data.of))
      /\ a.overtaken \in BOOLEAN
      /\ a.overtaken <=> (w.overtaken \/ \E v \in targets : w.shows[v].of = data.of /\ w.shows[v].ver > ver)
  BY <1>4
<1>6. a.shows \in [Visits -> Data]
  BY <1>2, <1>4 DEF Sound
<1>7. targets = {current} \/ (current \notin targets /\ (Refreshing(q) => w.shows[current] = data))
  BY <1>1 DEF Refreshing
<1> HIDE DEF targets
<1>8. \A v \in Visits : a.shows[v].ver \leq version[a.shows[v].of]
  <2> TAKE v \in Visits
  <2>1. a.shows[v] = data \/ a.shows[v] = w.shows[v]
    BY <1>5
  <2> QED
    BY <1>2, <2>1 DEF Sound
<1>9. ~a.astray => \A v \in Visits : a.shows[v].of = page[v].route
  BY <1>2, <1>5 DEF Sound
<1>10. (w.astray => a.astray) /\ (w.overtaken => a.overtaken)
  BY <1>5
<1>11. ASSUME Newest(w), ~Flagged(a) PROVE Newest(a)
  <2>1. CASE current \notin targets
    BY <1>1, <1>5, <1>11, <2>1 DEF Newest
  <2>2. CASE current \in targets
    <3>1. data.of = page[current].route /\ ~(w.shows[current].of = data.of /\ w.shows[current].ver > ver)
      BY <1>5, <1>11, <2>2 DEF Flagged
    <3>2. ~(version[page[current].route] > ver) /\ ver \leq version[page[current].route]
      BY <1>2, <1>11, <3>1 DEF Newest
    <3>3. version[page[current].route] \in Nat
      BY <1>1 DEF AutoInv, AutoTypeOK, Pages
    <3>4. ver = version[page[current].route]
      BY <3>2, <3>3
    <3> QED
      BY <1>1, <1>2, <1>5, <2>2, <3>1, <3>4 DEF Newest
  <2> QED
    BY <2>1, <2>2
<1>12. ASSUME Refreshing(q), ver = version[page[current].route] PROVE Newest(a)
  <2>1. data = [of |-> page[current].route, ver |-> version[page[current].route]]
    BY <1>12 DEF Refreshing
  <2> HIDE DEF data
  <2>2. a.shows[current] = data
    BY <1>1, <1>5, <1>7, <1>12
  <2> QED
    BY <2>1, <2>2 DEF Newest
<1>13. Sound(a)
  BY <1>5, <1>6, <1>8, <1>9 DEF Sound
<1> QED
  BY <1>10, <1>11, <1>12, <1>13 DEF a

\* The pages after i promises of a bulk.
SettledWell(f, i) ==
  LET w == Settling(f)[i]
  IN  /\ Sound(w) /\ (astray => w.astray) /\ (overtaken => w.overtaken)
      /\ UpToDate(current) => Flagged(w) \/ Newest(w)
      /\ \A j \in 1..i : Refreshing(f.reqs[j]) /\ f.got[j] = version[page[current].route]
                           => Flagged(w) \/ Newest(w)

LEMMA SettlingKeeps ==
  ASSUME AutoInv, NEW f \in flights, f.got # <<>>
  PROVE  SettledWell(f, Len(f.reqs))
<1> DEFINE n == Len(f.reqs)
<1>1. /\ n \in Nat \ {0} /\ n = Len(f.got)
      /\ \A i \in 1..n : /\ f.reqs[i] \in Requests /\ Asking(f.reqs[i]) /\ f.got[i] \in Nat
                         /\ f.got[i] \leq version[f.reqs[i].for]
  <2>1. /\ f.reqs \in Seq(Requests) /\ f.got \in Seq(Nat) /\ f.reqs # <<>> /\ n = Len(f.got)
        /\ \A i \in 1..n : f.reqs[i] \in Requests /\ Asking(f.reqs[i])
    BY FlightTypes DEF AutoInv, BulksAreWhole
  <2>2. n \in Nat \ {0} /\ \A i \in 1..n : f.got[i] \in Nat
    BY <2>1
  <2>3. \A i \in 1..n : f.got[i] \leq version[f.reqs[i].for]
    BY <2>1 DEF AutoInv, NothingFromFuture
  <2> QED
    BY <2>1, <2>2, <2>3
<1> HIDE DEF n
<1>2. current \in Visits
  BY <1>1, PagesOpened DEF Asking
<1>3. /\ Settling(f)[0] = Standing
      /\ \A i \in 1..n : Settling(f)[i] = Answered(Settling(f)[i - 1], f.reqs[i], f.got[i])
  <2> DEFINE S == [i \in 0..n |-> IF i = 0 THEN Standing ELSE Answered(Settling(f)[i - 1], f.reqs[i], f.got[i])]
  <2>1. Settling(f) = S
    BY <1>1, SettlingStepwise DEF n
  <2>2. S[0] = Standing /\ \A i \in 1..n : S[i] = Answered(Settling(f)[i - 1], f.reqs[i], f.got[i])
    BY <1>1
  <2> HIDE DEF S
  <2> QED
    BY <2>1, <2>2, Zenon
<1>4. SettledWell(f, 0)
  <2>1. Standing = [shows |-> [v \in Visits |-> page[v].shows], astray |-> astray, overtaken |-> overtaken]
    BY DEF Standing
  <2>2. /\ \A v \in Visits : Standing.shows[v] = page[v].shows
        /\ Standing.astray = astray /\ Standing.overtaken = overtaken
    BY <2>1
  <2>3. Standing.shows \in [Visits -> Data]
    BY <2>1 DEF AutoInv, AutoTypeOK, Pages
  <2>4. Sound(Standing)
    BY <2>2, <2>3 DEF Sound, AutoInv, AutoTypeOK, NothingFromFuture, ShowsItsOwn
  <2>5. UpToDate(current) => Newest(Standing)
    BY <1>2, <2>2 DEF UpToDate, Newest
  <2> QED
    BY <1>3, <2>2, <2>4, <2>5 DEF SettledWell
<1>5. ASSUME NEW i \in 1..n, SettledWell(f, i - 1) PROVE SettledWell(f, i)
  <2>1. PICK w : w = Settling(f)[i - 1] /\ Settling(f)[i] = Answered(w, f.reqs[i], f.got[i])
    BY <1>3
  <2>2. PICK a : a = Answered(w, f.reqs[i], f.got[i])
    OBVIOUS
  <2>3. Sound(w)
    BY <1>5, <2>1 DEF SettledWell
  <2>4. /\ Sound(a) /\ (w.astray => a.astray) /\ (w.overtaken => a.overtaken)
        /\ Newest(w) => Flagged(a) \/ Newest(a)
        /\ Refreshing(f.reqs[i]) /\ f.got[i] = version[page[current].route] => Flagged(a) \/ Newest(a)
    BY <1>1, <2>2, <2>3, AnsweredKeeps
  <2>5. Flagged(w) \/ Newest(w) => Flagged(a) \/ Newest(a)
    BY <2>4 DEF Flagged
  <2>6. \A j \in 1..i : j = i \/ j \in 1..(i - 1)
    BY <1>1
  <2> QED
    BY <1>5, <2>1, <2>2, <2>4, <2>5, <2>6 DEF SettledWell
<1>6. {k \in 0..n : ~SettledWell(f, k)} = {}
  <2> DEFINE S == {k \in 0..n : ~SettledWell(f, k)}
  <2>1. SUFFICES ASSUME S # {} PROVE FALSE
    BY <2>1
  <2>2. S \in SUBSET Nat
    BY <1>1
  <2>3. PICK m \in S : \A k \in S : m \leq k
    BY <2>1, <2>2, LeastNumber
  <2>4. m \in 1..n /\ m - 1 \in 0..n /\ ~(m \leq m - 1)
    BY <1>1, <1>4, <2>3
  <2> QED
    BY <1>5, <2>3, <2>4
<1> QED
  BY <1>1, <1>6 DEF n

LEMMA DeliverInv == ASSUME AutoInv, NEW f \in flights, Deliver(f) PROVE AutoInv'
<1> DEFINE pages == [v \in Visits |-> [page[v] EXCEPT !.shows = Settling(f)[Len(f.reqs)].shows[v]]]
<1>1. PICK last : last = Settling(f)[Len(f.reqs)]
  OBVIOUS
<1>2. /\ f.got # <<>> /\ page' = Settled(pages, Loads(f)) /\ astray' = last.astray /\ overtaken' = last.overtaken
      /\ flights' = flights \ {f}
      /\ UNCHANGED <<version, coming, current, table, bulked, links, executing, ticking, collected, failures>>
  BY <1>1 DEF Deliver, server, chain
<1>3. /\ Sound(last) /\ (astray => last.astray) /\ (overtaken => last.overtaken)
      /\ UpToDate(current) => Flagged(last) \/ Newest(last)
      /\ \A j \in 1..Len(f.reqs) : Refreshing(f.reqs[j]) /\ f.got[j] = version[page[current].route]
                                     => Flagged(last) \/ Newest(last)
  BY <1>1, <1>2, SettlingKeeps DEF SettledWell
<1>4. /\ pages \in [Visits -> Pages]
      /\ \A v \in Visits : /\ pages[v].route = page[v].route /\ pages[v].state = page[v].state
                           /\ pages[v].shows = last.shows[v]
  <2>1. pages = [v \in Visits |-> [page[v] EXCEPT !.shows = last.shows[v]]]
    BY <1>1
  <2>2. \A v \in Visits : last.shows[v] \in Data /\ page[v] \in Pages
    BY <1>3 DEF Sound, AutoInv, AutoTypeOK
  <2> HIDE DEF pages
  <2> QED
    BY <2>1, <2>2 DEF Pages
<1> HIDE DEF pages
<1>5. /\ page' \in [Visits -> Pages] /\ \A v \in Visits : page'[v].route = page[v].route
      /\ \A v \in Visits : page'[v].shows = last.shows[v]
      /\ \A v \in Visits : page'[v].state = "new" <=> page[v].state = "new"
      /\ RequestsAreOfPages' /\ BulksAreWhole' /\ OpenedInOrder' /\ OneWay' /\ BatchIsLinked'
      /\ SubscriptionsCounted'
  BY <1>2, <1>4, SettledPages
<1>6. AutoTypeOK'
  BY <1>2, <1>3, <1>5 DEF Sound, AutoInv, AutoTypeOK
<1>7. NothingFromFuture' /\ ShowsItsOwn'
  BY <1>2, <1>3, <1>5 DEF Sound, AutoInv, NothingFromFuture, ShowsItsOwn
<1>8. StaleIsBeingRefreshed'
  <2> SUFFICES ASSUME current > 0, current \in table.subs, ~UpToDate(current)', failures = 0, ~astray', ~overtaken'
               PROVE  Expected' \/ RefreshSent'
    BY <1>2 DEF StaleIsBeingRefreshed
  <2>1. current \in Visits
    BY PagesOpened
  <2>2. ~Flagged(last) /\ ~Newest(last) /\ ~astray /\ ~overtaken
    BY <1>2, <1>3, <1>5, <2>1 DEF Flagged, Newest, UpToDate
  <2>3. Expected \/ RefreshSent
    BY <1>3, <2>2 DEF AutoInv, StaleIsBeingRefreshed
  <2>4. Expected => Expected'
    BY <1>2, <1>5, <2>1 DEF Expected
  <2>5. RefreshSent => RefreshSent'
    <3>1. \A q : Refreshing(q)' <=> Refreshing(q)
      BY <1>2, <1>5, <2>1 DEF Refreshing
    <3>2. ASSUME NEW h \in flights, NEW i \in 1..Len(h.reqs), Refreshing(h.reqs[i]),
                 h.got = <<>> \/ h.got[i] = version[page[current].route]
          PROVE  h \in flights'
      BY <1>2, <1>3, <2>2, <3>2
    <3> QED
      BY <1>2, <1>5, <2>1, <3>1, <3>2 DEF RefreshSent
  <2> QED
    BY <2>3, <2>4, <2>5
<1> QED
  BY <1>5, <1>6, <1>7, <1>8 DEF AutoInv

LEMMA AutoInvNext == ASSUME AutoInv, [Next]_vars PROVE AutoInv'
<1>1. CASE UNCHANGED vars
  <2>1. UNCHANGED <<version, coming, failures, current, page, table, bulked, links, executing, ticking,
                    collected, flights, astray, overtaken>>
    BY <1>1 DEF vars, server, chain, queue, history
  <2>2. AutoTypeOK' /\ RequestsAreOfPages' /\ BulksAreWhole' /\ OpenedInOrder' /\ NothingFromFuture'
    BY <2>1 DEF AutoInv, AutoTypeOK, RequestsAreOfPages, Asking, BulksAreWhole, OpenedInOrder, NothingFromFuture
  <2>3. ShowsItsOwn' /\ OneWay' /\ BatchIsLinked' /\ SubscriptionsCounted'
    BY <2>1 DEF AutoInv, ShowsItsOwn, OneWay, BatchIsLinked, SubscriptionsCounted
  <2>4. RefreshSent => RefreshSent'
    BY <2>1, RefreshStays
  <2>5. StaleIsBeingRefreshed'
    BY <2>1, <2>4 DEF AutoInv, StaleIsBeingRefreshed, UpToDate, Expected
  <2> QED
    BY <2>2, <2>3, <2>5 DEF AutoInv
<1>2. CASE Next
  BY <1>2, OpenInv, AutoLoadInv, RemoveInstanceInv, ChangeInv, PublicationInv, ExecuteInv, TickInv, RoundEndsInv,
     SendInv, ServeInv, FailInv, DeliverInv DEF Next
<1> QED
  BY <1>1, <1>2

LEMMA AutoInvariance == Spec => []AutoInv
BY AutoInvInit, AutoInvNext, PTL DEF Spec

\* The pages, the controller's tables and the queue keep their types.
THEOREM AutoTypeCorrect == Spec => []AutoTypeOK
BY AutoInvariance, PTL DEF AutoInv

\* The counted subscriptions are the listeners, and only the current page is
\* among them, however pages are opened and instances removed.
THEOREM ListenersAreCounted == Spec => []SubscriptionsCounted
BY AutoInvariance, PTL DEF AutoInv

\* No change that a subscribed page does not show is forgotten, on any tour and
\* however publications, batches, bulk requests and their answers interleave.
THEOREM NoChangeIsForgotten == Spec => []StaleIsBeingRefreshed
BY AutoInvariance, PTL DEF AutoInv
=============================================================================
