------------------------------ MODULE AutoUpdate ------------------------------
(***************************************************************************)
(* Pages that keep themselves up to date: AutoUpdateController.ts, the     *)
(* useAutoUpdate of a page, the page stores of store/page.ts and, under    *)
(* them, the queue of bulk.ts that collects requests, sends them together  *)
(* and settles each with its part of the answer.                           *)
(*                                                                         *)
(* A visit is one opening of a route: a component and a store of its own.  *)
(* There is one label, so one channel, and a publication carries the pk of *)
(* what has changed.  Data are versions.  The operations of a bulk are     *)
(* independent of each other and are read in one step.                     *)
(***************************************************************************)
EXTENDS Naturals, FiniteSets, Sequences

CONSTANTS
  Objects,     \* instances with a page of their own
  List,        \* the page that lists them, and the pk undefined
  MaxVisits,   \* bound: pages opened
  Tours,       \* bound: the routes of a user's visits, in order
  MaxFlights,  \* bound: bulk requests on their way together
  MaxEvents    \* bound: pages opened, objects changed and requests failed, together

Routes == Objects \cup {List}
Visits == 1..MaxVisits

ASSUME AutoUpdateAssumption ==
  /\ List \notin Objects
  /\ MaxVisits \in Nat /\ Tours \subseteq [Visits -> Routes] /\ MaxFlights \in Nat \ {0}
  /\ MaxEvents \in Nat

VARIABLES
  version,    \* of each route's data, on the server
  coming,     \* objects whose publication is on its way
  failures,   \* the number of bulk requests that have failed
  current,    \* the visit in app.store.page, 0 at first
  page,       \* the store of each visit
  table,      \* the subscriptions of the controller
  bulked,     \* bulkedActions
  links,      \* what is chained to nextBulkExecutionPromise and has not ended
  executing,  \* the first of them has called its callbacks
  ticking,    \* the timer has called its callbacks
  collected,  \* collectedBulks
  flights,    \* bulk requests sent and not settled
  astray,     \* history: data of another object were put into a page
  overtaken   \* history: data were replaced by an older version

server == <<version, coming>>
chain == <<bulked, links, executing>>
queue == <<collected, flights, failures>>
history == <<astray, overtaken>>
vars == <<server, current, page, table, chain, ticking, queue, history>>

Data == [of : Routes, ver : Nat]
Pages == [route : Routes, state : {"none", "new", "loading", "done"}, shows : Data]
Tables == [timers : SUBSET Visits, subs : SUBSET Visits,
           hears : [Routes -> SUBSET Visits], count : Nat]
Requests == [by : Visits, for : Routes, why : {"load", "sub", "timer"}]
Flights == [reqs : Seq(Requests), got : Seq(Nat)]

\* Every variable keeps its type.
AutoTypeOK ==
  /\ version \in [Routes -> Nat] /\ coming \subseteq Objects /\ failures \in Nat
  /\ current \in 0..MaxVisits /\ page \in [Visits -> Pages] /\ table \in Tables
  /\ bulked \subseteq Visits /\ links \in Nat /\ executing \in BOOLEAN
  /\ ticking \in BOOLEAN
  /\ collected \in Seq(Requests) /\ flights \subseteq Flights
  /\ astray \in BOOLEAN /\ overtaken \in BOOLEAN

Fresh(r, state) == [route |-> r, state |-> state, shows |-> [of |-> r, ver |-> 0]]

Init ==
  /\ version = [r \in Routes |-> 1] /\ coming = {} /\ failures = 0
  /\ current = 0 /\ page = [v \in Visits |-> Fresh(List, "none")]
  /\ table = [timers |-> {}, subs |-> {}, hears |-> [r \in Routes |-> {}], count |-> 0]
  /\ bulked = {} /\ links = 0 /\ executing = FALSE /\ ticking = FALSE
  /\ collected = <<>> /\ flights = {}
  /\ astray = FALSE /\ overtaken = FALSE

MoreEvents == current + (version[List] - 1) + failures < MaxEvents

-----------------------------------------------------------------------------
\* The controller's tables.

SubscribeTimer(t, s) == [t EXCEPT !.timers = @ \cup {s}]

\* Listening to a pk, or to every publication.
Subscribe(t, s, pk) ==
  [t EXCEPT !.subs = @ \cup {s}, !.hears[pk] = @ \cup {s}, !.count = @ + 1]

\* A mutant of Unsubscribe: the subscriber stays in centrifugoSubscribers.
UnsubscribeKept(t, s) ==
  IF s \in t.timers THEN [t EXCEPT !.timers = @ \ {s}]
  ELSE IF s \notin t.subs THEN t
  ELSE [t EXCEPT !.hears = [pk \in Routes |-> @[pk] \ {s}], !.count = @ - 1]

Unsubscribe(t, s) ==
  IF s \in t.timers THEN [t EXCEPT !.timers = @ \ {s}]
  ELSE IF s \notin t.subs THEN t
  ELSE [t EXCEPT !.subs = @ \ {s}, !.hears = [pk \in Routes |-> @[pk] \ {s}], !.count = @ - 1]

-----------------------------------------------------------------------------
\* Requests.

Has(reqs, why) == \E i \in 1..Len(reqs) : reqs[i].why = why
Outstanding(why) == Has(collected, why) \/ \E f \in flights : Has(f.reqs, why)

\* What a store asks for: a page of an object the instance it shows or, while
\* it shows none, the pk of the router's current route.
Asked(v) ==
  IF page[v].route = List THEN List
  ELSE IF page[v].shows.ver > 0 THEN page[v].shows.of
  ELSE page[current].route

\* The callback of every page: updateData of the current page.
Update(why) == [by |-> current, for |-> Asked(current), why |-> why]
Updates(n, why) == [i \in 1..n |-> Update(why)]

-----------------------------------------------------------------------------
\* Pages.

\* createViewStore, and the hooks of the component that leaves and of the one
\* that comes.  Whether Centrifugo is connected is looked at once, here.
Open(r) ==
  /\ current < MaxVisits /\ MoreEvents
  /\ \E tour \in Tours : tour[current + 1] = r /\ \A v \in 1..current : tour[v] = page[v].route
  /\ current' = current + 1
  /\ page' = [page EXCEPT ![current'] = Fresh(r, "new")]
  /\ \E t \in {Unsubscribe(table, current)} :
       table' \in {SubscribeTimer(t, current'), Subscribe(t, current', r)}
  /\ UNCHANGED <<server, chain, ticking, queue, history>>

\* fetchData, when setPage has resolved the parent views.
Load(v) ==
  /\ page[v].state = "new"
  /\ page' = [page EXCEPT ![v].state = "loading"]
  /\ collected' = Append(collected, [by |-> v, for |-> Asked(v), why |-> "load"])
  /\ UNCHANGED <<server, current, table, chain, ticking, flights, failures, history>>

\* removeInstance stops the auto-update; when the removal fails nothing
\* starts it again.
RemoveInstance ==
  /\ current > 0 /\ page[current].route # List /\ page[current].state = "done"
  /\ table' = Unsubscribe(table, current)
  /\ UNCHANGED <<server, current, page, chain, ticking, queue, history>>

-----------------------------------------------------------------------------
\* Publications and the timer.

\* Publications of one object that are on their way together count as one.
Change(o) ==
  /\ MoreEvents
  /\ version' = [version EXCEPT ![o] = @ + 1, ![List] = @ + 1]
  /\ coming' = coming \cup {o}
  /\ UNCHANGED <<current, page, table, chain, ticking, queue, history>>

Added(S) == IF S \subseteq bulked THEN 0 ELSE 1

\* A mutant of Heard: no link is chained while another has not ended.
HeardOnce(o) ==
  /\ bulked' = bulked \cup table.hears[List] \cup table.hears[o]
  /\ links' = IF links > 0 THEN links ELSE Added(table.hears[List]) + Added(table.hears[o])

\* onCentrifugoUpdate: bulkInvoke of the listeners to everything, then of
\* those to the pk.
Heard(o) ==
  /\ bulked' = bulked \cup table.hears[List] \cup table.hears[o]
  /\ links' = links + Added(table.hears[List]) + Added(table.hears[o])

Publication(o) ==
  /\ o \in coming
  /\ coming' = coming \ {o}
  /\ Heard(o)
  /\ UNCHANGED <<version, current, page, table, executing, ticking, queue, history>>

\* The sleep of a link is over: the batch is copied and emptied, and the
\* callbacks of pages send requests.
Execute ==
  /\ links > 0 /\ ~executing
  /\ executing' = TRUE
  /\ bulked' = {}
  /\ collected' = collected \o Updates(Cardinality(bulked), "sub")
  /\ UNCHANGED <<server, current, page, table, links, ticking, flights, failures, history>>

\* A mutant of LinkEnds: the batch is emptied when its callbacks have ended.
LinkEndsEmptied ==
  /\ executing /\ ~Outstanding("sub")
  /\ executing' = FALSE /\ links' = links - 1 /\ bulked' = {}
  /\ UNCHANGED <<server, current, page, table, ticking, queue, history>>

LinkEnds ==
  /\ executing /\ ~Outstanding("sub")
  /\ executing' = FALSE /\ links' = links - 1
  /\ UNCHANGED <<server, current, page, table, bulked, ticking, queue, history>>

Tick ==
  /\ ~ticking /\ table.timers # {}
  /\ ticking' = TRUE
  /\ collected' = collected \o Updates(Cardinality(table.timers), "timer")
  /\ UNCHANGED <<server, current, page, table, chain, flights, failures, history>>

TickEnds ==
  /\ ticking /\ ~Outstanding("timer")
  /\ ticking' = FALSE
  /\ UNCHANGED <<server, current, page, table, chain, queue, history>>

-----------------------------------------------------------------------------
\* Bulk requests.

\* 100 ms without a new request are over.
Send ==
  /\ collected # <<>> /\ Cardinality(flights) < MaxFlights
  /\ flights' = flights \cup {[reqs |-> collected, got |-> <<>>]}
  /\ collected' = <<>>
  /\ UNCHANGED <<server, current, page, table, chain, ticking, failures, history>>

Serve(f) ==
  /\ f.got = <<>>
  /\ flights' = (flights \ {f}) \cup
       {[f EXCEPT !.got = [i \in 1..Len(f.reqs) |-> version[f.reqs[i].for]]]}
  /\ UNCHANGED <<server, current, page, table, chain, ticking, collected, failures, history>>

\* The loading of a page ends with its request, whatever became of it.
Settled(pages, loads) ==
  [v \in Visits |-> IF v \in loads THEN [pages[v] EXCEPT !.state = "done"] ELSE pages[v]]

Loads(f) == {v \in Visits : \E i \in 1..Len(f.reqs) : f.reqs[i].by = v /\ f.reqs[i].why = "load"}

\* A mutant of Fail: an error rejects nothing.
FailSilently(f) ==
  /\ f.got = <<>> /\ MoreEvents
  /\ failures' = failures + 1
  /\ flights' = flights \ {f}
  /\ UNCHANGED <<server, current, page, table, chain, ticking, collected, history>>

\* The fetch fails, or its answer is too short: every request is rejected.
Fail(f) ==
  /\ f.got = <<>> /\ MoreEvents
  /\ failures' = failures + 1
  /\ flights' = flights \ {f}
  /\ page' = Settled(page, Loads(f))
  /\ UNCHANGED <<server, current, table, chain, ticking, collected, history>>

\* What an answer does to the pages.  A list keeps its own data; a page of an
\* object that gets something new hands it to the current page, which keeps it
\* if it shows an object.
Answered(w, q, ver) ==
  LET data == [of |-> q.for, ver |-> ver]
      targets == IF page[q.by].route = List THEN {q.by}
                 ELSE IF q.for = List \/ w.shows[q.by] = data THEN {}
                 ELSE {v \in {current} : page[v].route # List}
  IN  [shows |-> [v \in Visits |-> IF v \in targets THEN data ELSE w.shows[v]],
       astray |-> w.astray \/ \E v \in targets : page[v].route # data.of,
       overtaken |-> w.overtaken \/ \E v \in targets : w.shows[v].of = data.of /\ w.shows[v].ver > ver]

Standing ==
  [shows |-> [v \in Visits |-> page[v].shows], astray |-> astray, overtaken |-> overtaken]

\* All promises of a request are settled in one task of the event loop, in order.
Settling(f) ==
  LET after[i \in 0..Len(f.reqs)] ==
        IF i = 0 THEN Standing ELSE Answered(after[i - 1], f.reqs[i], f.got[i])
  IN  after

Deliver(f) ==
  /\ f.got # <<>>
  /\ LET last == Settling(f)[Len(f.reqs)]
     IN  /\ page' = Settled([v \in Visits |-> [page[v] EXCEPT !.shows = last.shows[v]]], Loads(f))
         /\ astray' = last.astray /\ overtaken' = last.overtaken
  /\ flights' = flights \ {f}
  /\ UNCHANGED <<server, current, table, chain, ticking, collected, failures>>

Next ==
  \/ \E r \in Routes : Open(r)
  \/ \E v \in Visits : Load(v)
  \/ RemoveInstance
  \/ \E o \in Objects : Change(o) \/ Publication(o)
  \/ Execute \/ LinkEnds \/ Tick \/ TickEnds \/ Send
  \/ \E f \in flights : Serve(f) \/ Fail(f) \/ Deliver(f)

Spec == Init /\ [][Next]_vars

Progress(whys) ==
  \E f \in flights : (\E why \in whys : Has(f.reqs, why)) /\ (Serve(f) \/ Deliver(f))

\* What one opened page or one change leads to, which comes to an end, and the
\* round of the timer, which does not.
Work ==
  \/ \E v \in Visits : Load(v)
  \/ \E o \in Objects : Publication(o)
  \/ Execute \/ LinkEnds \/ Progress({"load", "sub"})
Round == Tick \/ TickEnds \/ Progress({"timer"})

\* The event loop serves both; the window is visible, requests pause for 100 ms
\* now and then, publications arrive and every fetch ends.
FairSpec == Spec /\ WF_vars(Work) /\ WF_vars(Round) /\ WF_vars(Send)

-----------------------------------------------------------------------------
\* The tables of the controller agree with each other, whoever unsubscribes
\* once or twice: the channel is open while it has listeners and no longer, and
\* of the pages only the current one is ever called.
SubscriptionsCounted ==
  /\ table.count = Cardinality(table.subs)
  /\ table.subs = UNION {table.hears[r] : r \in Routes}
  /\ table.subs \cup table.timers \subseteq {current}

UpToDate(v) == page[v].shows = [of |-> page[v].route, ver |-> version[page[v].route]]

\* Requests of the current page that will bring its newest version.
Refreshing(q) == q.by = current /\ q.for = page[current].route
RefreshSent ==
  \/ \E i \in 1..Len(collected) : Refreshing(collected[i])
  \/ \E f \in flights : \E i \in 1..Len(f.reqs) :
       Refreshing(f.reqs[i]) /\ (f.got = <<>> \/ f.got[i] = version[page[current].route])

Expected == page[current].state = "new"
            \/ (\E o \in coming : page[current].route \in {o, List})
            \/ (current \in bulked /\ links > IF executing THEN 1 ELSE 0)

\* "When user change some data, other clients get notification on channel":
\* while a subscribed page does not show the newest version of its data, its
\* first load, a publication, a batch that has not been executed or a request is
\* on its way to bring it, unless a request failed or answers came in the wrong
\* order or place.
StaleIsBeingRefreshed ==
  current > 0 /\ current \in table.subs /\ ~UpToDate(current) /\ failures = 0 /\ ~astray /\ ~overtaken
  => Expected \/ RefreshSent

\* And in the end it is replaced, once the user stays on a page.  "Without the
\* service all GUI-clients get page data every 5 seconds": polling repairs even
\* what failures and late answers have done to a page, but for the data of
\* another object that a page then asks for itself.
PublishedIsShown ==
  current \in table.subs \cup table.timers ~>
    \/ current \notin table.subs \cup table.timers \/ UpToDate(current)
    \/ current \in table.subs /\ (failures > 0 \/ astray \/ overtaken)
    \/ astray /\ page[current].route # List

\* No page stays in the loading state.
LoadingEnds == (\E v \in Visits : page[v].state = "loading") ~> \A v \in Visits : page[v].state # "loading"
=============================================================================
