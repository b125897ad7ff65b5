-------------------------------- MODULE Etags --------------------------------
(***************************************************************************)
(* Conditional requests: CachableHeadMixin of vstutils/api/base.py, the    *)
(* tags of a model in the etag cache (vstutils/models/base.py), and the    *)
(* browser on the other side: the cache of bulk.ts, which answers a 304    *)
(* from what it stored, and the edit page, which sends If-Match and asks   *)
(* the user when the server answers 412.                                   *)
(*                                                                         *)
(* A browser has one request open at a time.  Its write is atomic (a bulk  *)
(* operation, a nested view) or in autocommit (a plain request).  Tags are *)
(* uuids, here numbers with 0 for none: a new one is one nobody holds.     *)
(* Looking a tag up is one step, since the look-up of the postfix in its   *)
(* key only moves it earlier.                                              *)
(*                                                                         *)
(* The receiver that renews the tags when a related row is saved is a      *)
(* partial that only a local variable holds.  Signals keep a weak          *)
(* reference to it, so it is collected when the class has been made; with  *)
(* DEBUG on, a cache of Django, which examines receivers then, keeps it.   *)
(***************************************************************************)
EXTENDS Naturals

CONSTANTS
  Clients,    \* browsers
  Rows,       \* instances of a model with _cache_responses and of the labels
              \*   in its _cache_related_labels
  Related,    \* those of the labels
  Debug,      \* settings.DEBUG
  Resources,  \* what has a tag: some of the rows, and the list
  Covers,     \* the rows each resource shows
  NoPage,     \* no edit page is open
  SameModel,  \* the view updates with the model it retrieves with
  Uuids,      \* the numbers that stand for uuids
  MaxSaves    \* bound: saves tried

ASSUME EtagAssumption ==
  /\ Covers \in [Resources -> SUBSET Rows]
  /\ \A r \in Resources \cap Rows : r \in Covers[r]
  /\ Related \subseteq Rows \ Resources /\ Debug \in BOOLEAN
  /\ NoPage \notin Resources
  /\ SameModel \in BOOLEAN
  /\ Uuids \subseteq Nat \ {0} /\ MaxSaves \in Nat

VARIABLES
  row,      \* the committed version of each row
  saves,    \* the number of saves tried: each writes a version of its own
  tag,      \* the etag cache
  step,     \* where the request of each browser is
  req,      \* what it asks for and has gathered
  cached,   \* the responses in the browser's cache
  editing,  \* the row on its edit page
  mixed,    \* history: another request wrote during this one
  missed    \* history: a committed save did not renew its tags

vars == <<row, saves, tag, step, req, cached, editing, mixed, missed>>

Data == [Rows -> Nat]
Current(r) == [x \in Rows |-> IF x \in Covers[r] THEN row[x] ELSE 0]

Responses == [data : Data, tag : Nat, clean : BOOLEAN]
Empty == [x \in Rows |-> 0]
Nothing == [data |-> Empty, tag |-> 0, clean |-> TRUE]

Requests == [on : Resources \cup Rows \cup {NoPage}, sent : Nat, atomic : BOOLEAN, data : Data]
Request(on, sent, atomic) == [on |-> on, sent |-> sent, atomic |-> atomic, data |-> Empty]
NoRequest == Request(NoPage, 0, FALSE)

Steps == {"idle", "check", "read", "tag", "load", "save", "signal", "commit", "confirm"}

\* Every variable keeps its type, and only a conditional save of an open edit
\* page makes the browser ask its user.
EtagTypeOK ==
  /\ row \in Data /\ saves \in Nat
  /\ tag \in [Resources -> Nat]
  /\ step \in [Clients -> Steps]
  /\ req \in [Clients -> Requests]
  /\ cached \in [Clients -> [Resources -> Responses]]
  /\ editing \in [Clients -> (Resources \cap Rows) \cup {NoPage}]
  /\ mixed \in [Clients -> BOOLEAN] /\ missed \in BOOLEAN
  /\ \A c \in Clients : step[c] = "confirm" => req[c].sent # 0 /\ editing[c] # NoPage

Init ==
  /\ row = Empty /\ saves = 0
  /\ tag = [r \in Resources |-> 0]
  /\ step = [c \in Clients |-> "idle"]
  /\ req = [c \in Clients |-> NoRequest]
  /\ cached = [c \in Clients |-> [r \in Resources |-> Nothing]]
  /\ editing = [c \in Clients |-> NoPage]
  /\ mixed = [c \in Clients |-> FALSE] /\ missed = FALSE

\* Requests whose save has begun and not ended: tags and rows may disagree.
Writing == {c \in Clients : step[c] \in {"signal", "commit"}}

Goto(c, s) == step' = [step EXCEPT ![c] = s]

\* The browser begins a request, or has done with it.
Ask(c, s, request) ==
  /\ Goto(c, s)
  /\ req' = [req EXCEPT ![c] = request]
  /\ mixed' = [mixed EXCEPT ![c] = Writing # {}]

Done(c) ==
  /\ Goto(c, "idle")
  /\ req' = [req EXCEPT ![c] = NoRequest]
  /\ mixed' = [mixed EXCEPT ![c] = FALSE]

\* A new uuid.  Which one makes no difference, so the least.
InUse == {tag[r] : r \in Resources} \cup {req[c].sent : c \in Clients}
           \cup UNION {{cached[c][r].tag : r \in Resources} : c \in Clients}

New(u) == u \notin InUse /\ \A v \in Uuids : v < u => v \in InUse

\* Django's get_or_set: what is in the cache, or a new uuid put there.
LookUp(r, t) ==
  /\ IF tag[r] = 0 THEN New(t) ELSE t = tag[r]
  /\ tag' = [tag EXCEPT ![r] = t]

-----------------------------------------------------------------------------
\* Reading.  The browser asks with the tag of what it has stored.
Fetch(c, r) ==
  /\ step[c] = "idle"
  /\ Ask(c, "check", Request(r, cached[c][r].tag, FALSE))
  /\ UNCHANGED <<row, saves, tag, cached, editing, missed>>

\* An edit page is loaded by what has been answered.
Show(c, r) == editing' = [editing EXCEPT ![c] = IF r \in Rows THEN r ELSE @]

Matches(c) == req[c].sent # 0 /\ req[c].sent = tag[req[c].on]

NotModified(c) ==
  /\ step[c] = "check" /\ Matches(c)
  /\ Show(c, req[c].on)
  /\ Done(c)
  /\ UNCHANGED <<row, saves, tag, cached, missed>>

Modified(c) ==
  /\ step[c] = "check" /\ ~Matches(c)
  /\ \E t \in Uuids : LookUp(req[c].on, t)
  /\ Goto(c, "read")
  /\ UNCHANGED <<row, saves, req, cached, editing, mixed, missed>>

Read(c) ==
  /\ step[c] = "read"
  /\ req' = [req EXCEPT ![c].data = Current(req[c].on)]
  /\ Goto(c, "tag")
  /\ UNCHANGED <<row, saves, tag, cached, editing, mixed, missed>>

\* finalize_response looks the tag up when the data has been read.
Respond(c) ==
  /\ step[c] = "tag"
  /\ \E t \in Uuids :
       /\ LookUp(req[c].on, t)
       /\ cached' = [cached EXCEPT ![c][req[c].on] =
            [data |-> req[c].data, tag |-> t, clean |-> ~mixed[c]]]
  /\ Show(c, req[c].on)
  /\ Done(c)
  /\ UNCHANGED <<row, saves, missed>>

-----------------------------------------------------------------------------
\* Writing.  The edit page saves what it shows, with the tag it came with if
\* it sends one at all.
Shown(c) == cached[c][editing[c]]

Send(c, sent) == \E a \in BOOLEAN : Ask(c, "load", Request(editing[c], sent, a))

Save(c) ==
  /\ step[c] = "idle" /\ editing[c] # NoPage /\ saves < MaxSaves
  /\ Send(c, IF SameModel THEN Shown(c).tag ELSE 0)
  /\ UNCHANGED <<row, saves, tag, cached, editing, missed>>

\* 412: the user is asked whether to overwrite what is on the server.
Refused(c) ==
  /\ step[c] = "load" /\ req[c].sent # 0 /\ ~Matches(c)
  /\ \E t \in Uuids : LookUp(req[c].on, t)
  /\ Goto(c, "confirm")
  /\ UNCHANGED <<row, saves, req, cached, editing, mixed, missed>>

Overwrite(c) ==
  /\ step[c] = "confirm"
  /\ Send(c, 0)
  /\ UNCHANGED <<row, saves, tag, cached, editing, missed>>

KeepTheirs(c) ==
  /\ step[c] = "confirm"
  /\ Done(c)
  /\ UNCHANGED <<row, saves, tag, cached, editing, missed>>

\* A mutant of Allowed: the header is not looked at.
AllowedAlways(c) ==
  /\ step[c] = "load"
  /\ \E t \in Uuids : LookUp(req[c].on, t)
  /\ Goto(c, "save")
  /\ UNCHANGED <<row, saves, req, cached, editing, mixed, missed>>

Allowed(c) ==
  /\ step[c] = "load" /\ (req[c].sent = 0 \/ Matches(c))
  /\ \E t \in Uuids : LookUp(req[c].on, t)
  /\ Goto(c, "save")
  /\ UNCHANGED <<row, saves, req, cached, editing, mixed, missed>>

\* A successful save leaves the edit page.
Leave(c) ==
  /\ Done(c)
  /\ editing' = [editing EXCEPT ![c] = IF req[c].on = @ THEN NoPage ELSE @]

\* Something else of the application saves a row.
SaveElsewhere(c) ==
  /\ step[c] = "idle" /\ saves < MaxSaves
  /\ \E x \in Rows \ {editing[c]}, a \in BOOLEAN : Ask(c, "save", Request(x, 0, a))
  /\ UNCHANGED <<row, saves, tag, cached, editing, missed>>

\* The row is locked from the save to the end of its transaction.
Locked(x) == \E c \in Writing : req[c].atomic /\ req[c].on = x

Write(c) ==
  /\ step[c] = "save" /\ ~Locked(req[c].on)
  /\ saves' = saves + 1
  /\ IF req[c].atomic
     THEN req' = [req EXCEPT ![c].data[req[c].on] = saves'] /\ UNCHANGED row
     ELSE row' = [row EXCEPT ![req[c].on] = saves'] /\ UNCHANGED req
  /\ Goto(c, "signal")
  /\ mixed' = [b \in Clients |-> mixed[b] \/ (b # c /\ step[b] # "idle")]
  /\ UNCHANGED <<tag, cached, editing, missed>>

\* The rows whose saves reach a receiver.
Heard == IF Debug THEN Rows ELSE Rows \ Related

\* A mutant of Renewed: only the list's tag is renewed, as without a pk.
RenewedList(x, u) ==
  [r \in Resources |-> IF r \notin Rows /\ x \in Covers[r] \cap Heard THEN u ELSE tag[r]]

\* update_cache_for_model_signal after a save, if anything is called.  For a row
\* of the model it renews the tags of the list and the row; for a related one
\* that of the list and the postfix in the keys of all rows.
Renewed(x, u) == [r \in Resources |-> IF x \in Covers[r] \cap Heard THEN u ELSE tag[r]]

SetTags(c) ==
  /\ step[c] = "signal"
  /\ \E u \in Uuids : New(u) /\ tag' = Renewed(req[c].on, u)
  /\ IF req[c].atomic THEN Goto(c, "commit") /\ UNCHANGED <<req, mixed, editing>> ELSE Leave(c)
  /\ UNCHANGED <<row, saves, cached, missed>>

\* The etag cache does not answer, or the process dies: the save is rolled
\* back, or it is committed and the tags are the old ones.
SignalFails(c) ==
  /\ step[c] = "signal"
  /\ missed' = (missed \/ ~req[c].atomic)
  /\ Done(c)
  /\ UNCHANGED <<row, saves, tag, cached, editing>>

Commit(c) ==
  /\ step[c] = "commit"
  /\ row' = [row EXCEPT ![req[c].on] = req[c].data[req[c].on]]
  /\ Leave(c)
  /\ UNCHANGED <<saves, tag, cached, missed>>

Rollback(c) ==
  /\ step[c] = "commit"
  /\ Done(c)
  /\ UNCHANGED <<row, saves, tag, cached, editing, missed>>

-----------------------------------------------------------------------------
\* A tag expires or is evicted.
Evict(r) ==
  /\ tag[r] # 0
  /\ tag' = [tag EXCEPT ![r] = 0]
  /\ UNCHANGED <<row, saves, step, req, cached, editing, mixed, missed>>

Next ==
  \/ \E c \in Clients :
       \/ \E r \in Resources : Fetch(c, r)
       \/ NotModified(c) \/ Modified(c) \/ Read(c) \/ Respond(c)
       \/ Save(c) \/ Refused(c) \/ Overwrite(c) \/ KeepTheirs(c) \/ Allowed(c)
       \/ SaveElsewhere(c) \/ Write(c) \/ SetTags(c) \/ SignalFails(c)
       \/ Commit(c) \/ Rollback(c)
  \/ \E r \in Resources : Evict(r)

Spec == Init /\ [][Next]_vars

-----------------------------------------------------------------------------
\* If the tag of a stored response is current, so is its data of some rows.
True(p, r, xs) ==
  p.tag # 0 /\ p.tag = tag[r] => \A x \in Covers[r] \cap xs : p.data[x] = row[x]

\* "If the resource has not changed (the ETag matches), the server responds
\* with a 304 Not Modified status, indicating that the client's cached version
\* is up-to-date": with no write in progress, and if the etag cache never failed
\* after a commit, a stored response whose tag is current holds current data.
\* No run lists it: related rows change unheard, and writes overlap requests.
CurrentTagIsCurrentData ==
  Writing = {} /\ ~missed => \A c \in Clients, r \in Resources : True(cached[c][r], r, Rows)

\* The same for the rows whose saves a receiver hears of, and for responses
\* whose request no write overlapped.
UndisturbedTagIsCurrentData ==
  Writing = {} /\ ~missed => \A c \in Clients, r \in Resources :
    cached[c][r].clean => True(cached[c][r], r, Heard)

\* "preventing concurrent write operations from overwriting each other without
\* acknowledgment of updated state": a save overwrites what its edit page
\* shows, unless the user has confirmed to overwrite what is there.
SeesWhatItOverwrites(c) == row[editing[c]] = Shown(c).data[editing[c]]

NoBlindOverwrite ==
  [][\A c \in Clients : Write(c) /\ req[c].sent # 0 /\ ~missed => SeesWhatItOverwrites(c)]_vars

\* The same for a save that no other write overlaps, of a page no write
\* overlapped when it was loaded.
UndisturbedSaveIsSeen ==
  [][\A c \in Clients :
       Write(c) /\ req[c].sent # 0 /\ ~mixed[c] /\ Shown(c).clean /\ ~missed
         => SeesWhatItOverwrites(c)]_vars
=============================================================================
