--------------------------- MODULE Etags_proofs ---------------------------
(***************************************************************************)
(* What conditional requests guarantee to requests no write overlaps, for  *)
(* any browsers, rows and resources.  A stored response whose tag is still *)
(* the current one (Live) is right row by row, for the rows whose saves    *)
(* are heard of: a row can only have changed in an autocommit save that    *)
(* has not renewed the tags yet, and no open transaction is going to       *)
(* change one, since it renewed the tags first.                            *)
(***************************************************************************)
EXTENDS Etags, TLAPS

Live(c, r) ==
  cached[c][r].clean /\ cached[c][r].tag # 0 /\ cached[c][r].tag = tag[r] /\ ~missed

Renewing(b, x) == step[b] = "signal" /\ req[b].on = x /\ ~req[b].atomic

\* A request is for what its step works on.
Placed == \A c \in Clients :
  /\ step[c] \in {"check", "read", "tag"} => req[c].on \in Resources
  /\ step[c] = "load" => req[c].on = editing[c] /\ req[c].on \in Resources
  /\ step[c] \in {"save", "signal", "commit"} => req[c].on \in Rows
  /\ step[c] \in {"load", "save"} /\ req[c].sent # 0 =>
       req[c].sent = Shown(c).tag /\ req[c].on = editing[c] /\ req[c].on \in Resources \cap Rows

\* A request that is not mixed is alone with the rows.
Alone == \A b, c \in Clients :
  b # c /\ step[c] # "idle" /\ ~mixed[c] => step[b] \notin {"signal", "commit"}

\* What an unmixed request has read is still there.
ReadIsCurrent == \A c \in Clients : \A x \in Rows :
  step[c] = "tag" /\ ~mixed[c] /\ x \in Covers[req[c].on] => req[c].data[x] = row[x]

NoPending == \A b, c \in Clients, r \in Resources :
  Live(c, r) /\ step[b] = "commit" => req[b].on \notin Covers[r] \cap Heard

LiveIsRight == \A c \in Clients, r \in Resources : Live(c, r) =>
  \A x \in Covers[r] \cap Heard : cached[c][r].data[x] = row[x] \/ \E b \in Clients : Renewing(b, x)

SaveIsSeen == \A c \in Clients :
  step[c] = "save" /\ req[c].sent # 0 /\ ~mixed[c] /\ Shown(c).clean /\ ~missed =>
    row[editing[c]] = Shown(c).data[editing[c]]

IInv == EtagTypeOK /\ Placed /\ Alone /\ ReadIsCurrent /\ NoPending /\ LiveIsRight /\ SaveIsSeen

-----------------------------------------------------------------------------
USE EtagAssumption

LEMMA Constants == Empty \in Data /\ NoRequest \in Requests /\ Nothing \in Responses
BY DEF Empty, Data, NoRequest, Request, Requests, Nothing, Responses

LEMMA InitInv == Init => IInv
<1> SUFFICES ASSUME Init PROVE IInv OBVIOUS
<1> USE DEF Init
<1>1. EtagTypeOK BY Constants DEF EtagTypeOK, Steps, Data, Empty
<1>2. Placed /\ Alone BY DEF Placed, Alone
<1>3. ReadIsCurrent BY DEF ReadIsCurrent
<1>4. NoPending /\ LiveIsRight /\ SaveIsSeen
  BY DEF NoPending, LiveIsRight, SaveIsSeen, Live, Nothing
<1> QED BY <1>1, <1>2, <1>3, <1>4 DEF IInv

\* The three variables a request of its own changes, when it begins and ends.
Own == <<step, req, mixed>>
OwnTypeOK ==
  /\ step \in [Clients -> Steps] /\ req \in [Clients -> Requests] /\ mixed \in [Clients -> BOOLEAN]

LEMMA DoneType == ASSUME OwnTypeOK, NEW c \in Clients, Done(c) PROVE OwnTypeOK'
BY Constants DEF OwnTypeOK, Done, Goto, Steps

LEMMA AskType ==
  ASSUME OwnTypeOK, NEW c \in Clients, NEW s \in Steps, NEW on \in Resources \cup Rows \cup {NoPage},
         NEW sent \in Nat, NEW a \in BOOLEAN, Ask(c, s, Request(on, sent, a))
  PROVE  OwnTypeOK'
<1>1. Request(on, sent, a) \in Requests BY Constants DEF Request, Requests
<1> QED BY <1>1 DEF OwnTypeOK, Ask, Goto

LEMMA LookUpType ==
  ASSUME tag \in [Resources -> Nat], NEW r \in Resources, NEW t \in Uuids, LookUp(r, t)
  PROVE  tag' \in [Resources -> Nat]
BY DEF LookUp

\* Who asks the user, and for what.
Asking == \A c \in Clients : step[c] = "confirm" => req[c].sent # 0 /\ editing[c] # NoPage

Rest ==
  /\ row \in Data /\ saves \in Nat /\ tag \in [Resources -> Nat]
  /\ cached \in [Clients -> [Resources -> Responses]]
  /\ editing \in [Clients -> (Resources \cap Rows) \cup {NoPage}] /\ missed \in BOOLEAN

LEMMA TypeParts == EtagTypeOK <=> OwnTypeOK /\ Asking /\ Rest
BY DEF EtagTypeOK, OwnTypeOK, Asking, Rest

\* Every step keeps the types.
LEMMA TypeStep == ASSUME EtagTypeOK, Placed, Next PROVE EtagTypeOK'
<1> SUFFICES OwnTypeOK' /\ Asking' /\ Rest' BY DEF EtagTypeOK, OwnTypeOK, Asking, Rest
<1> OwnTypeOK /\ Asking /\ Rest BY TypeParts
<1>1. ASSUME NEW c \in Clients, NEW r \in Resources, Fetch(c, r) PROVE OwnTypeOK' /\ Asking' /\ Rest'
  <2>1. cached[c][r].tag \in Nat /\ FALSE \in BOOLEAN BY DEF Rest, Responses
  <2>2. Ask(c, "check", Request(r, cached[c][r].tag, FALSE)) BY <1>1 DEF Fetch
  <2>3. OwnTypeOK' BY <2>1, <2>2, AskType DEF Steps
  <2> QED BY <1>1, <2>2, <2>3 DEF Fetch, Ask, Goto, Asking, Rest, OwnTypeOK
<1>2. ASSUME NEW c \in Clients, NotModified(c) PROVE OwnTypeOK' /\ Asking' /\ Rest'
  <2>1. OwnTypeOK' BY <1>2, DoneType DEF NotModified
  <2>2. Asking' BY <1>2 DEF NotModified, Show, Done, Goto, Asking, OwnTypeOK, Rest
  <2>3. Rest' BY <1>2 DEF NotModified, Show, Placed, Rest
  <2> QED BY <2>1, <2>2, <2>3
<1>3. ASSUME NEW c \in Clients, Modified(c) PROVE OwnTypeOK' /\ Asking' /\ Rest'
  <2>1. tag' \in [Resources -> Nat] BY <1>3, LookUpType DEF Modified, Placed, Rest
  <2>2. Asking' BY <1>3 DEF Modified, Goto, Asking, OwnTypeOK
  <2> QED BY <1>3, <2>1, <2>2 DEF Modified, Goto, Rest, OwnTypeOK, Steps
<1>4. ASSUME NEW c \in Clients, Read(c) PROVE OwnTypeOK' /\ Asking' /\ Rest'
  <2>1. Current(req[c].on) \in Data BY DEF Current, Data, Rest
  <2>2. OwnTypeOK' BY <1>4, <2>1 DEF Read, Goto, OwnTypeOK, Requests, Steps
  <2>3. Asking' BY <1>4 DEF Read, Goto, Asking, OwnTypeOK
  <2> QED BY <1>4, <2>2, <2>3 DEF Read, Rest
<1>5. ASSUME NEW c \in Clients, Respond(c) PROVE OwnTypeOK' /\ Asking' /\ Rest'
  <2>1. OwnTypeOK' BY <1>5, DoneType DEF Respond
  <2>2. PICK t \in Uuids : LookUp(req[c].on, t) /\ cached' = [cached EXCEPT ![c][req[c].on] =
            [data |-> req[c].data, tag |-> t, clean |-> ~mixed[c]]]
    BY <1>5 DEF Respond
  <2>3. req[c].on \in Resources BY <1>5 DEF Respond, Placed
  <2>4. tag' \in [Resources -> Nat] BY <2>2, <2>3, LookUpType DEF Rest
  <2>5. [data |-> req[c].data, tag |-> t, clean |-> ~mixed[c]] \in Responses
    BY DEF Responses, OwnTypeOK, Requests
  <2>6. cached' \in [Clients -> [Resources -> Responses]] BY <2>2, <2>3, <2>5 DEF Rest
  <2> QED BY <1>5, <2>1, <2>4, <2>6 DEF Respond, Show, Done, Goto, Asking, Rest, OwnTypeOK
<1>6. ASSUME NEW c \in Clients, Save(c) \/ Overwrite(c) PROVE OwnTypeOK' /\ Asking' /\ Rest'
  <2>1. editing[c] \in Resources \cap Rows BY <1>6 DEF Save, Overwrite, Asking, Rest
  <2>2. Shown(c).tag \in Nat BY <2>1 DEF Shown, Rest, Responses
  <2>3. PICK sent \in Nat, a \in BOOLEAN : Ask(c, "load", Request(editing[c], sent, a))
    BY <1>6, <2>2 DEF Save, Overwrite, Send
  <2>4. OwnTypeOK' BY <2>1, <2>3, AskType DEF Steps
  <2> QED BY <1>6, <2>3, <2>4 DEF Save, Overwrite, Ask, Goto, Asking, Rest, OwnTypeOK
<1>7. ASSUME NEW c \in Clients, KeepTheirs(c) PROVE OwnTypeOK' /\ Asking' /\ Rest'
  <2>1. OwnTypeOK' BY <1>7, DoneType DEF KeepTheirs
  <2> QED BY <1>7, <2>1 DEF KeepTheirs, Done, Goto, Asking, Rest, OwnTypeOK
<1>8. ASSUME NEW c \in Clients, Refused(c) \/ Allowed(c) PROVE OwnTypeOK' /\ Asking' /\ Rest'
  <2>1. req[c].on \in Resources /\ req[c].on = editing[c] BY <1>8 DEF Refused, Allowed, Placed
  <2>2. tag' \in [Resources -> Nat] BY <1>8, <2>1, LookUpType DEF Refused, Allowed, Rest
  <2>3. step[c] = "load" /\ req[c].sent # 0 => editing[c] # NoPage BY <2>1 
  <2> QED BY <1>8, <2>1, <2>2 DEF Refused, Allowed, Goto, Asking, Rest, OwnTypeOK, Steps
<1>9. ASSUME NEW c \in Clients, SaveElsewhere(c) PROVE OwnTypeOK' /\ Asking' /\ Rest'
  <2>1. PICK x \in Rows, a \in BOOLEAN : Ask(c, "save", Request(x, 0, a)) BY <1>9 DEF SaveElsewhere
  <2>2. OwnTypeOK' BY <2>1, AskType DEF Steps
  <2> QED BY <1>9, <2>1, <2>2 DEF SaveElsewhere, Ask, Goto, Asking, Rest, OwnTypeOK
<1>10. ASSUME NEW c \in Clients, Write(c) PROVE OwnTypeOK' /\ Asking' /\ Rest'
  <2>1. req[c].on \in Rows /\ saves' \in Nat BY <1>10 DEF Write, Placed, Rest
  <2>2. row' \in Data BY <1>10, <2>1 DEF Write, Data, Rest
  <2>3. req' \in [Clients -> Requests]
    <3>1. CASE ~req[c].atomic BY <1>10, <3>1 DEF Write, OwnTypeOK
    <3>2. CASE req[c].atomic
      <4>1. req' = [req EXCEPT ![c].data[req[c].on] = saves'] BY <1>10, <3>2 DEF Write
      <4>2. [req[c].data EXCEPT ![req[c].on] = saves'] \in Data
        BY <2>1 DEF Data, OwnTypeOK, Requests
      <4> QED BY <4>1, <4>2 DEF OwnTypeOK, Requests
    <3> QED BY <3>1, <3>2
  <2>4. \A b \in Clients : req'[b].sent = req[b].sent
    BY <1>10 DEF Write, OwnTypeOK, Requests
  <2> QED BY <1>10, <2>1, <2>2, <2>3, <2>4 DEF Write, Goto, Asking, Rest, OwnTypeOK, Steps
<1>11. ASSUME NEW c \in Clients, SetTags(c) PROVE OwnTypeOK' /\ Asking' /\ Rest'
  <2>1. tag' \in [Resources -> Nat] BY <1>11 DEF SetTags, Renewed, Rest
  <2>2. CASE req[c].atomic
    BY <1>11, <2>1, <2>2 DEF SetTags, Goto, Asking, Rest, OwnTypeOK, Steps
  <2>3. CASE ~req[c].atomic
    <3>1. OwnTypeOK' BY <1>11, <2>3, DoneType DEF SetTags, Leave
    <3>2. Asking' BY <1>11, <2>3 DEF SetTags, Leave, Done, Goto, Asking, OwnTypeOK, Rest
    <3> QED BY <1>11, <2>1, <2>3, <3>1, <3>2 DEF SetTags, Leave, Rest
  <2> QED BY <2>2, <2>3
<1>12. ASSUME NEW c \in Clients, SignalFails(c) \/ Rollback(c) PROVE OwnTypeOK' /\ Asking' /\ Rest'
  <2>1. OwnTypeOK' BY <1>12, DoneType DEF SignalFails, Rollback
  <2>2. Asking' BY <1>12 DEF SignalFails, Rollback, Done, Goto, Asking, OwnTypeOK
  <2>3. missed' \in BOOLEAN BY <1>12, Zenon DEF SignalFails, Rollback, Rest
  <2> QED BY <1>12, <2>1, <2>2, <2>3 DEF SignalFails, Rollback, Rest
<1>13. ASSUME NEW c \in Clients, Commit(c) PROVE OwnTypeOK' /\ Asking' /\ Rest'
  <2>1. OwnTypeOK' BY <1>13, DoneType DEF Commit, Leave
  <2>2. Asking' BY <1>13 DEF Commit, Leave, Done, Goto, Asking, OwnTypeOK, Rest
  <2>3. row' \in Data BY <1>13 DEF Commit, Data, OwnTypeOK, Requests, Rest, Placed
  <2> QED BY <1>13, <2>1, <2>2, <2>3 DEF Commit, Leave, Rest
<1>14. ASSUME NEW r \in Resources, Evict(r) PROVE OwnTypeOK' /\ Asking' /\ Rest'
  BY <1>14 DEF Evict, OwnTypeOK, Asking, Rest
<1> QED BY <1>1, <1>2, <1>3, <1>4, <1>5, <1>6, <1>7, <1>8, <1>9, <1>10, <1>11, <1>12, <1>13, <1>14 DEF Next

-----------------------------------------------------------------------------
\* A quiet step of a browser: it neither writes nor ends a write.
Quiet(c) ==
  \/ \E r \in Resources : Fetch(c, r)
  \/ NotModified(c) \/ Modified(c) \/ Read(c) \/ Respond(c)
  \/ Save(c) \/ Refused(c) \/ Overwrite(c) \/ KeepTheirs(c) \/ Allowed(c) \/ SaveElsewhere(c)

Loud(c) == Write(c) \/ SetTags(c) \/ SignalFails(c) \/ Commit(c) \/ Rollback(c)

LEMMA StepKinds == Next <=> (\E c \in Clients : Quiet(c) \/ Loud(c)) \/ \E r \in Resources : Evict(r)
BY DEF Next, Quiet, Loud

LEMMA QuietStep ==
  ASSUME OwnTypeOK, Rest, NEW c \in Clients, Quiet(c)
  PROVE  /\ row' = row /\ missed' = missed
         /\ \A b \in Clients \ {c} : step'[b] = step[b] /\ req'[b] = req[b] /\ mixed'[b] = mixed[b]
         /\ \A b \in Clients \ {c} : editing'[b] = editing[b] /\ cached'[b] = cached[b]
         /\ step[c] \notin {"signal", "commit"} /\ step'[c] \notin {"signal", "commit"}
         /\ step'[c] # "idle" /\ ~mixed'[c] => Writing = {} \/ (step[c] # "idle" /\ ~mixed[c])
<1> USE DEF OwnTypeOK, Rest, Goto
<1>1. CASE \E r \in Resources : Fetch(c, r) BY <1>1 DEF Fetch, Ask
<1>2. CASE NotModified(c) BY <1>2 DEF NotModified, Show, Done
<1>3. CASE Modified(c) BY <1>3 DEF Modified
<1>4. CASE Read(c) BY <1>4 DEF Read
<1>5. CASE Respond(c) BY <1>5 DEF Respond, Show, Done
<1>6. CASE Save(c) BY <1>6 DEF Save, Send, Ask
<1>7. CASE Refused(c) BY <1>7 DEF Refused
<1>8. CASE Overwrite(c) BY <1>8 DEF Overwrite, Send, Ask
<1>9. CASE KeepTheirs(c) BY <1>9 DEF KeepTheirs, Done
<1>10. CASE Allowed(c) BY <1>10 DEF Allowed
<1>11. CASE SaveElsewhere(c) BY <1>11 DEF SaveElsewhere, Ask
<1> QED BY <1>1, <1>2, <1>3, <1>4, <1>5, <1>6, <1>7, <1>8, <1>9, <1>10, <1>11 DEF Quiet

LEMMA LoudStep ==
  ASSUME OwnTypeOK, NEW c \in Clients, Loud(c)
  PROVE  /\ cached' = cached /\ (~missed' => ~missed)
         /\ \A b \in Clients \ {c} : step'[b] = step[b] /\ req'[b] = req[b] /\ editing'[b] = editing[b]
         /\ \A b \in Clients \ {c} : ~mixed'[b] => ~mixed[b]
         /\ \A b \in Clients \ {c} : ~Write(c) => mixed'[b] = mixed[b]
         /\ step'[c] \in {"idle", "signal", "commit"}
         /\ ~Write(c) => step[c] \in {"signal", "commit"}
<1> USE DEF OwnTypeOK, Goto
<1>1. CASE Write(c)
  <2>1. \A b \in Clients \ {c} : req'[b] = req[b] BY <1>1 DEF Write
  <2> QED BY <1>1, <2>1 DEF Write
<1>2. CASE SetTags(c)
  <2>1. CASE req[c].atomic
    <3>1. step[c] = "signal" /\ UNCHANGED <<cached, missed, req, mixed, editing>> /\ Goto(c, "commit")
      BY <1>2, <2>1, Zenon DEF SetTags
    <3> QED BY <3>1
  <2>2. CASE ~req[c].atomic
    <3>1. step[c] = "signal" /\ UNCHANGED <<cached, missed>> /\ Leave(c)
      BY <1>2, <2>2, Zenon DEF SetTags
    <3> QED BY <3>1 DEF Leave, Done
  <2> QED BY <2>1, <2>2
<1>3. CASE SignalFails(c)
  <2>1. ~missed' => ~missed BY <1>3, Zenon DEF SignalFails
  <2> QED BY <1>3, <2>1 DEF SignalFails, Done
<1>4. CASE Commit(c) BY <1>4 DEF Commit, Leave, Done
<1>5. CASE Rollback(c) BY <1>5 DEF Rollback, Done
<1> QED BY <1>1, <1>2, <1>3, <1>4, <1>5 DEF Loud

LEMMA NewUnheld ==
  ASSUME NEW u, New(u), NEW c \in Clients, NEW r \in Resources
  PROVE  cached[c][r].tag # u
<1> DEFINE Held(d) == {cached[d][q].tag : q \in Resources}
<1>1. cached[c][r].tag \in Held(c) OBVIOUS
<1> HIDE DEF Held
<1>2. cached[c][r].tag \in UNION {Held(d) : d \in Clients} BY <1>1
<1>3. cached[c][r].tag \in InUse BY <1>2 DEF InUse, Held
<1> QED BY <1>3 DEF New

\* A tag only changes to nothing or to one that nobody holds.
LEMMA TagStep ==
  ASSUME EtagTypeOK, Placed, Next, NEW r \in Resources
  PROVE  tag'[r] \in {0, tag[r]} \/ \A c \in Clients : cached[c][r].tag # tag'[r]
<1> USE DEF EtagTypeOK
<1>1. ASSUME NEW u \in Uuids, New(u) PROVE \A c \in Clients : cached[c][r].tag # u
  BY <1>1, NewUnheld
<1>2. ASSUME NEW on \in Resources, NEW t \in Uuids, LookUp(on, t)
      PROVE tag'[r] \in {0, tag[r]} \/ \A c \in Clients : cached[c][r].tag # tag'[r]
  BY <1>1, <1>2 DEF LookUp
<1>3. ASSUME NEW c \in Clients, Modified(c) \/ Respond(c) \/ Refused(c) \/ Allowed(c)
      PROVE tag'[r] \in {0, tag[r]} \/ \A b \in Clients : cached[b][r].tag # tag'[r]
  <2>1. req[c].on \in Resources BY <1>3 DEF Modified, Respond, Refused, Allowed, Placed
  <2>2. \E t \in Uuids : LookUp(req[c].on, t) BY <1>3 DEF Modified, Respond, Refused, Allowed
  <2> QED BY <1>2, <2>1, <2>2
<1>4. ASSUME NEW c \in Clients, SetTags(c)
      PROVE tag'[r] \in {0, tag[r]} \/ \A b \in Clients : cached[b][r].tag # tag'[r]
  BY <1>1, <1>4 DEF SetTags, Renewed
<1>5. ASSUME NEW q \in Resources, Evict(q) PROVE tag'[r] \in {0, tag[r]}
  BY <1>5 DEF Evict
<1>6. CASE tag' = tag BY <1>6
<1> QED BY <1>3, <1>4, <1>5, <1>6 DEF Next, Fetch, NotModified, Read, Save, Overwrite, KeepTheirs,
    SaveElsewhere, Write, SignalFails, Commit, Rollback

LEMMA StaysLive ==
  ASSUME EtagTypeOK, Placed, Next, NEW b \in Clients, NEW r \in Resources,
         Live(b, r)', cached'[b][r] = cached[b][r], ~missed' => ~missed
  PROVE  Live(b, r) /\ tag'[r] = tag[r]
BY TagStep DEF Live

LEMMA AloneStep == ASSUME EtagTypeOK, Alone, Next PROVE Alone'
<1> OwnTypeOK /\ Rest BY TypeParts
<1>1. ASSUME NEW c \in Clients, Quiet(c) PROVE Alone'
  BY <1>1, QuietStep DEF Alone, Writing
<1>2. ASSUME NEW c \in Clients, Loud(c) PROVE Alone'
  <2>1. CASE Write(c)
    <3>1. \A b \in Clients \ {c} : step[b] # "idle" => mixed'[b] BY <2>1 DEF Write, OwnTypeOK
    <3>2. mixed'[c] = mixed[c] /\ step[c] = "save" BY <2>1 DEF Write, OwnTypeOK
    <3> QED BY <1>2, <3>1, <3>2, LoudStep DEF Alone
  <2>2. CASE ~Write(c)
    <3>1. step'[c] # "idle" => mixed'[c] = mixed[c]
      BY <1>2, <2>2 DEF Loud, SetTags, SignalFails, Commit, Rollback, Leave, Done, Goto, OwnTypeOK
    <3> QED BY <1>2, <2>2, <3>1, LoudStep DEF Alone
  <2> QED BY <2>1, <2>2
<1>3. ASSUME NEW r \in Resources, Evict(r) PROVE Alone' BY <1>3 DEF Evict, Alone
<1> QED BY <1>1, <1>2, <1>3, StepKinds

\* A write disturbs every other open request.
LEMMA LoudDisturbs ==
  ASSUME EtagTypeOK, Alone, NEW a \in Clients, Loud(a), NEW c \in Clients, step'[c] # "idle", ~mixed'[c]
  PROVE  c = a
<1> OwnTypeOK BY TypeParts
<1> SUFFICES ASSUME c # a PROVE FALSE OBVIOUS
<1>1. step'[c] = step[c] /\ ~mixed[c] BY LoudStep
<1>2. CASE Write(a) BY <1>1, <1>2 DEF Write, OwnTypeOK
<1>3. CASE ~Write(a) BY <1>1, <1>3, LoudStep DEF Alone
<1> QED BY <1>2, <1>3

LEMMA PlacedStep == ASSUME EtagTypeOK, Placed, Next PROVE Placed'
<1> OwnTypeOK /\ Rest BY TypeParts
<1> DEFINE PlacedFor(b) ==
  /\ step[b] \in {"check", "read", "tag"} => req[b].on \in Resources
  /\ step[b] = "load" => req[b].on = editing[b] /\ req[b].on \in Resources
  /\ step[b] \in {"save", "signal", "commit"} => req[b].on \in Rows
  /\ step[b] \in {"load", "save"} /\ req[b].sent # 0 =>
       req[b].sent = Shown(b).tag /\ req[b].on = editing[b] /\ req[b].on \in Resources \cap Rows
<1>1. ASSUME NEW c \in Clients, Quiet(c), NEW b \in Clients \ {c} PROVE PlacedFor(b)'
  BY <1>1, QuietStep DEF Placed, Shown
<1>2. ASSUME NEW c \in Clients, Loud(c), NEW b \in Clients \ {c} PROVE PlacedFor(b)'
  BY <1>2, LoudStep DEF Placed, Shown
<1>3. ASSUME NEW c \in Clients, Quiet(c) PROVE PlacedFor(c)'
  <2> USE DEF OwnTypeOK, Rest, Goto
  <2>1. CASE \E r \in Resources : Fetch(c, r) BY <2>1 DEF Fetch, Ask, Request
  <2>2. CASE NotModified(c) BY <2>2 DEF NotModified, Done
  <2>3. CASE Modified(c) BY <2>3 DEF Modified, Placed
  <2>4. CASE Read(c) BY <2>4 DEF Read, Placed
  <2>5. CASE Respond(c) BY <2>5 DEF Respond, Done
  <2>6. CASE Save(c) \/ Overwrite(c)
    <3>1. editing[c] \in Resources \cap Rows /\ UNCHANGED <<editing, cached>>
      BY <2>6 DEF Save, Overwrite, EtagTypeOK
    <3>2. PICK sent \in {0, Shown(c).tag}, a \in BOOLEAN : Ask(c, "load", Request(editing[c], sent, a))
      BY <2>6 DEF Save, Overwrite, Send
    <3> QED BY <3>1, <3>2 DEF Ask, Request, Shown
  <2>7. CASE Refused(c) BY <2>7 DEF Refused
  <2>8. CASE KeepTheirs(c) BY <2>8 DEF KeepTheirs, Done
  <2>9. CASE Allowed(c)
    <3>1. req[c].on \in Resources \cap Rows BY <2>9 DEF Allowed, Placed
    <3> QED BY <2>9, <3>1 DEF Allowed, Placed, Shown
  <2>10. CASE SaveElsewhere(c) BY <2>10 DEF SaveElsewhere, Ask, Request
  <2> QED BY <1>3, <2>1, <2>2, <2>3, <2>4, <2>5, <2>6, <2>7, <2>8, <2>9, <2>10 DEF Quiet
<1>4. ASSUME NEW c \in Clients, Loud(c) PROVE PlacedFor(c)'
  <2>1. step'[c] # "idle" => step[c] \in {"save", "signal", "commit"} /\ req'[c].on = req[c].on
    BY <1>4 DEF Loud, Write, SetTags, SignalFails, Commit, Rollback, Leave, Done, Goto, OwnTypeOK, Requests
  <2> QED BY <1>4, <2>1, LoudStep DEF Placed
<1>5. ASSUME NEW r \in Resources, Evict(r), NEW b \in Clients PROVE PlacedFor(b)'
  BY <1>5 DEF Evict, Placed, Shown
<1>6. \A b \in Clients : PlacedFor(b)' BY <1>1, <1>2, <1>3, <1>4, <1>5, StepKinds
<1> QED BY <1>6 DEF Placed

\* What Respond stores; nothing else changes the browser's cache.
LEMMA StoredStep ==
  ASSUME EtagTypeOK, Placed, Next, NEW b \in Clients, NEW r \in Resources
  PROVE  \/ cached'[b][r] = cached[b][r]
         \/ /\ Respond(b) /\ r = req[b].on /\ row' = row /\ missed' = missed
            /\ cached'[b][r].data = req[b].data /\ cached'[b][r].clean = ~mixed[b]
<1>1. CASE \E c \in Clients : Respond(c)
  <2>1. PICK c \in Clients : Respond(c) BY <1>1
  <2>2. PICK t \in Uuids : cached' = [cached EXCEPT ![c][req[c].on] =
            [data |-> req[c].data, tag |-> t, clean |-> ~mixed[c]]]
    BY <2>1 DEF Respond
  <2> QED BY <2>1, <2>2 DEF EtagTypeOK, Respond
<1>2. CASE cached' = cached BY <1>2
<1> QED BY <1>1, <1>2 DEF Next, Fetch, NotModified, Modified, Read, Save, Refused, Overwrite, KeepTheirs,
  Allowed, SaveElsewhere, Write, SetTags, SignalFails, Commit, Rollback, Evict

\* Only Read brings a request to the step "tag".
LEMMA TagArrival ==
  ASSUME EtagTypeOK, Next, NEW b \in Clients, step'[b] = "tag", ~Read(b)
  PROVE  step[b] = "tag" /\ req'[b] = req[b]
<1> OwnTypeOK /\ Rest BY TypeParts
<1>1. ASSUME NEW c \in Clients, Quiet(c) PROVE step[b] = "tag" /\ req'[b] = req[b]
  <2>1. CASE b # c BY <1>1, <2>1, QuietStep
  <2>2. CASE b = c
    BY <1>1, <2>2 DEF Quiet, Fetch, NotModified, Modified, Respond, Save, Refused, Overwrite, KeepTheirs,
      Allowed, SaveElsewhere, Send, Ask, Done, Goto, OwnTypeOK
  <2> QED BY <2>1, <2>2
<1>2. ASSUME NEW c \in Clients, Loud(c) PROVE step[b] = "tag" /\ req'[b] = req[b]
  BY <1>2, LoudStep
<1> QED BY <1>1, <1>2, StepKinds DEF Evict

LEMMA ReadStep == ASSUME EtagTypeOK, Alone, ReadIsCurrent, Next PROVE ReadIsCurrent'
<1> OwnTypeOK /\ Rest BY TypeParts
<1> SUFFICES ASSUME NEW b \in Clients, NEW x \in Rows,
                    step'[b] = "tag", ~mixed'[b], x \in Covers[req'[b].on]
             PROVE  req'[b].data[x] = row'[x]
  BY DEF ReadIsCurrent
<1>1. CASE Read(b)
  BY <1>1 DEF Read, Current, OwnTypeOK, Requests
<1>2. CASE ~Read(b)
  <2>1. step[b] = "tag" /\ req'[b] = req[b] BY <1>2, TagArrival
  <2>2. ASSUME NEW c \in Clients, Quiet(c) PROVE row' = row /\ ~mixed[b]
    <3>1. row' = row BY <2>2, QuietStep
    <3>2. b # c => ~mixed[b] BY <2>2, QuietStep
    <3>3. b = c => FALSE
      BY <1>2, <2>1, <2>2 DEF Quiet, Fetch, NotModified, Modified, Respond, Save, Refused, Overwrite,
        KeepTheirs, Allowed, SaveElsewhere, Done, Goto, OwnTypeOK
    <3> QED BY <3>1, <3>2, <3>3
  <2>3. ASSUME NEW c \in Clients, Loud(c) PROVE FALSE
    BY <2>3, LoudDisturbs, LoudStep
  <2>4. row' = row /\ ~mixed[b] BY <2>2, <2>3, StepKinds DEF Evict
  <2> QED BY <2>1, <2>4 DEF ReadIsCurrent
<1> QED BY <1>1, <1>2

LEMMA NoPendingStep == ASSUME EtagTypeOK, Placed, Alone, NoPending, Next PROVE NoPending'
<1> OwnTypeOK /\ Rest BY TypeParts
<1> SUFFICES ASSUME NEW b \in Clients, NEW c \in Clients, NEW r \in Resources,
                    Live(c, r)', step'[b] = "commit"
             PROVE  req'[b].on \notin Covers[r] \cap Heard
  BY DEF NoPending
<1>1. ASSUME NEW a \in Clients, Quiet(a) PROVE req'[b].on \notin Covers[r] \cap Heard
  <2>1. step[b] = "commit" /\ req'[b] = req[b] /\ missed' = missed BY <1>1, QuietStep
  <2>2. CASE cached'[c][r] = cached[c][r] BY <2>1, <2>2, StaysLive DEF NoPending
  <2>3. CASE Respond(c) /\ cached'[c][r].clean = ~mixed[c]
    BY <2>1, <2>3 DEF Respond, Alone, Live
  <2> QED BY <2>2, <2>3, StoredStep
<1>2. ASSUME NEW a \in Clients, Loud(a) PROVE req'[b].on \notin Covers[r] \cap Heard
  <2>1. Live(c, r) /\ tag'[r] = tag[r] BY <1>2, LoudStep, StaysLive
  <2>2. CASE b # a BY <1>2, <2>1, <2>2, LoudStep DEF NoPending
  <2>3. CASE b = a
    <3>1. SetTags(a) /\ req'[a].on = req[a].on
      BY <1>2, <2>3 DEF Loud, Write, SetTags, SignalFails, Commit, Rollback, Leave, Done, Goto, OwnTypeOK
    <3>2. PICK u \in Uuids : New(u) /\ tag' = Renewed(req[a].on, u) BY <3>1 DEF SetTags
    <3>3. req[a].on \in Covers[r] \cap Heard => tag'[r] = u BY <3>2 DEF Renewed
    <3> QED BY <2>1, <2>3, <3>1, <3>2, <3>3, NewUnheld DEF Live
  <2> QED BY <2>2, <2>3
<1>3. ASSUME NEW q \in Resources, Evict(q) PROVE req'[b].on \notin Covers[r] \cap Heard
  BY <1>3, StaysLive DEF Evict, NoPending
<1> QED BY <1>1, <1>2, <1>3, StepKinds

LEMMA LiveStep ==
  ASSUME EtagTypeOK, Placed, Alone, ReadIsCurrent, NoPending, LiveIsRight, Next PROVE LiveIsRight'
<1> OwnTypeOK /\ Rest BY TypeParts
<1> SUFFICES ASSUME NEW c \in Clients, NEW r \in Resources, Live(c, r)', NEW x \in Covers[r] \cap Heard
             PROVE  cached'[c][r].data[x] = row'[x] \/ \E b \in Clients : Renewing(b, x)'
  BY DEF LiveIsRight
<1> x \in Rows BY DEF Heard
<1>1. ASSUME NEW a \in Clients, Quiet(a)
      PROVE cached'[c][r].data[x] = row'[x] \/ \E b \in Clients : Renewing(b, x)'
  <2>1. row' = row /\ missed' = missed /\ \A b \in Clients : Renewing(b, x) => Renewing(b, x)'
    BY <1>1, QuietStep DEF Renewing
  <2>2. CASE cached'[c][r] = cached[c][r] BY <2>1, <2>2, StaysLive DEF LiveIsRight
  <2>3. CASE /\ Respond(c) /\ r = req[c].on
             /\ cached'[c][r].data = req[c].data /\ cached'[c][r].clean = ~mixed[c]
    <3>1. ~mixed[c] /\ step[c] = "tag" BY <2>3 DEF Respond, Live
    <3>2. req[c].data[x] = row[x] BY <2>3, <3>1 DEF ReadIsCurrent
    <3> QED BY <2>1, <2>3, <3>2
  <2> QED BY <2>2, <2>3, StoredStep
<1>2. ASSUME NEW a \in Clients, Loud(a)
      PROVE cached'[c][r].data[x] = row'[x] \/ \E b \in Clients : Renewing(b, x)'
  <2>1. Live(c, r) /\ tag'[r] = tag[r] /\ cached' = cached /\ (~missed' => ~missed)
    BY <1>2, LoudStep, StaysLive
  <2>2. cached[c][r].data[x] = row[x] \/ \E b \in Clients : Renewing(b, x) BY <2>1 DEF LiveIsRight
  <2>3. \A b \in Clients \ {a} : Renewing(b, x) => Renewing(b, x)' BY <1>2, LoudStep DEF Renewing
  <2>4. CASE Write(a)
    <3>1. step'[a] = "signal" /\ ~Renewing(a, x) BY <2>4 DEF Write, Goto, Renewing, OwnTypeOK
    <3>2. CASE req[a].atomic \/ req[a].on # x
      <4>1. row'[x] = row[x] BY <2>4, <3>2 DEF Write, Rest, Data
      <4> QED BY <2>1, <2>2, <2>3, <3>1, <4>1
    <3>3. CASE ~req[a].atomic /\ req[a].on = x
      <4>1. Renewing(a, x)' BY <2>4, <3>1, <3>3 DEF Write, Renewing
      <4> QED BY <4>1
    <3> QED BY <3>2, <3>3
  <2>5. CASE SetTags(a)
    <3>1. PICK u \in Uuids : New(u) /\ tag' = Renewed(req[a].on, u) BY <2>5 DEF SetTags
    <3>2. req[a].on # x
      <4> SUFFICES ASSUME req[a].on = x PROVE FALSE OBVIOUS
      <4>1. tag'[r] = u BY <3>1 DEF Renewed
      <4> QED BY <2>1, <3>1, <4>1, NewUnheld DEF Live
    <3> QED BY <2>1, <2>2, <2>3, <2>5, <3>2 DEF SetTags, Renewing
  <2>6. CASE SignalFails(a)
    <3>1. req[a].atomic BY <2>6, Zenon DEF SignalFails, Live
    <3> QED BY <2>1, <2>2, <2>3, <2>6, <3>1 DEF SignalFails, Renewing
  <2>7. CASE Commit(a)
    <3>1. req[a].on # x /\ ~Renewing(a, x) BY <2>1, <2>7 DEF Commit, NoPending, Renewing
    <3>2. row'[x] = row[x] BY <2>7, <3>1 DEF Commit, Rest, Data
    <3> QED BY <2>1, <2>2, <2>3, <3>1, <3>2
  <2>8. CASE Rollback(a) BY <2>1, <2>2, <2>3, <2>8 DEF Rollback, Renewing
  <2> QED BY <1>2, <2>4, <2>5, <2>6, <2>7, <2>8 DEF Loud
<1>3. ASSUME NEW q \in Resources, Evict(q)
      PROVE cached'[c][r].data[x] = row'[x] \/ \E b \in Clients : Renewing(b, x)'
  <2>1. UNCHANGED <<row, step, req, cached, missed>> BY <1>3 DEF Evict
  <2>2. Live(c, r) BY <2>1, StaysLive
  <2> QED BY <2>1, <2>2 DEF LiveIsRight, Renewing
<1> QED BY <1>1, <1>2, <1>3, StepKinds

LEMMA SaveStep ==
  ASSUME EtagTypeOK, Placed, Alone, LiveIsRight, SaveIsSeen, Next PROVE SaveIsSeen'
<1> OwnTypeOK /\ Rest BY TypeParts
<1> SUFFICES ASSUME NEW b \in Clients, step'[b] = "save", req'[b].sent # 0, ~mixed'[b],
                    Shown(b)'.clean, ~missed'
             PROVE  row'[editing'[b]] = Shown(b)'.data[editing'[b]]
  BY DEF SaveIsSeen
<1>1. ASSUME NEW a \in Clients, Quiet(a) PROVE row'[editing'[b]] = Shown(b)'.data[editing'[b]]
  <2>1. CASE a # b BY <1>1, <2>1, QuietStep DEF SaveIsSeen, Shown
  <2>2. CASE a = b
    <3>1. Allowed(b)
      BY <1>1, <2>2 DEF Quiet, Fetch, NotModified, Modified, Read, Respond, Save, Refused, Overwrite,
        KeepTheirs, SaveElsewhere, Send, Ask, Request, Done, Goto, OwnTypeOK
    <3>2. UNCHANGED <<row, req, cached, editing, mixed, missed>> /\ step[b] = "load" /\ Matches(b)
      BY <3>1 DEF Allowed
    <3> DEFINE r == editing[b]
    <3>3. r \in Resources \cap Rows /\ r \in Covers[r] \cap Heard /\ Live(b, r)
      BY <3>2 DEF Placed, Matches, Live, Shown, Heard
    <3>4. \A c \in Clients : ~Renewing(c, r) BY <3>2 DEF Alone, Renewing
    <3> QED BY <3>2, <3>3, <3>4 DEF LiveIsRight, Shown
  <2> QED BY <2>1, <2>2
<1>2. ASSUME NEW a \in Clients, Loud(a) PROVE FALSE
  BY <1>2, LoudDisturbs, LoudStep
<1>3. ASSUME NEW q \in Resources, Evict(q) PROVE row'[editing'[b]] = Shown(b)'.data[editing'[b]]
  BY <1>3 DEF Evict, SaveIsSeen, Shown
<1> QED BY <1>1, <1>2, <1>3, StepKinds

-----------------------------------------------------------------------------
LEMMA Invariance == Spec => []IInv
<1>1. IInv /\ [Next]_vars => IInv'
  <2> SUFFICES ASSUME IInv, [Next]_vars PROVE IInv' OBVIOUS
  <2>1. CASE Next
    BY <2>1, TypeStep, PlacedStep, AloneStep, ReadStep, NoPendingStep, LiveStep, SaveStep DEF IInv
  <2>2. CASE UNCHANGED vars
    BY <2>2 DEF vars, IInv, EtagTypeOK, Placed, Alone, ReadIsCurrent, NoPending, LiveIsRight,
      SaveIsSeen, Live, Renewing, Shown
  <2> QED BY <2>1, <2>2
<1> QED BY InitInv, <1>1, PTL DEF Spec

\* The variables of conditional requests keep their types, and a browser only
\* asks its user about a conditional save (models/base.py, api/base.py, bulk.ts).
THEOREM EtagTypeCorrect == Spec => []EtagTypeOK
<1>1. IInv => EtagTypeOK BY DEF IInv
<1> QED BY <1>1, Invariance, PTL

\* Of a response whose request no write overlapped, the tag is current only while
\* its data of the rows whose saves are heard of are: but for related rows, what
\* check_etag answers with a 304 is up to date.
THEOREM FreshTags == Spec => []UndisturbedTagIsCurrentData
<1>1. IInv => UndisturbedTagIsCurrentData
  <2> SUFFICES ASSUME IInv, Writing = {}, ~missed, NEW c \in Clients, NEW r \in Resources,
                      cached[c][r].clean, cached[c][r].tag # 0, cached[c][r].tag = tag[r],
                      NEW x \in Covers[r] \cap Heard
               PROVE  cached[c][r].data[x] = row[x]
    BY DEF UndisturbedTagIsCurrentData, True
  <2>1. Live(c, r) BY DEF Live
  <2> QED BY <2>1 DEF IInv, LiveIsRight, Renewing, Writing
<1> QED BY <1>1, Invariance, PTL

\* A conditional save that no write overlaps replaces what its user has seen.
THEOREM SeenSaves == Spec => UndisturbedSaveIsSeen
<1>1. IInv => \A c \in Clients :
        Write(c) /\ req[c].sent # 0 /\ ~mixed[c] /\ Shown(c).clean /\ ~missed => SeesWhatItOverwrites(c)
  BY DEF IInv, SaveIsSeen, Write, SeesWhatItOverwrites
<1> QED BY <1>1, Invariance, PTL DEF UndisturbedSaveIsSeen
=============================================================================
