------------------------------- MODULE Journal -------------------------------
(***************************************************************************)
(* The request journal (core/observability) and its readers: the threads   *)
(* that finish requests, the bounded store of records, the endpoint that   *)
(* lists them page by page, and the endpoint that streams live events to   *)
(* subscribers (monitoring/api.py).                                        *)
(*                                                                         *)
(* Every call of the store holds its lock, and is one action here.  A      *)
(* thread that finishes a request makes several of them, with nothing to   *)
(* keep two threads from alternating.                                      *)
(***************************************************************************)
EXTENDS Naturals, Sequences, FiniteSets, SequencesExt

CONSTANTS
  Request,     \* the requests; new_request_id gives each an id of its own
  Status,      \* what may become of a request
  AnyStatus,   \* a listing without a filter
  Client,      \* the clients of the live endpoint, each with one subscriber
  MaxRecords,  \* config.max_records
  QueueSize,   \* config.live_queue_size
  Limit        \* the page sizes the reader of the listing may ask for

ASSUME JournalAssumption ==
  /\ AnyStatus \notin Status
  /\ MaxRecords \in Nat \ {0}
  /\ QueueSize \in Nat \ {0}
  /\ Limit \subseteq Nat \ {0}

VARIABLES
  phase,        \* how far each request is: see Phase
  sequence,     \* the store's _sequence
  number,       \* the sequence of each request's record, 0 before it has one
  status,       \* the status of each request's record
  records,      \* the store's deque of records, the newest first
  index,        \* the keys of _by_request_id
  todo,         \* the subscribers a thread in _publish has yet to serve
  subscribers,  \* the service's _subscribers
  queue,        \* the queue of each LiveSubscriber
  closed,       \* the subscribers that have been closed
  live,         \* the live endpoint's coroutine for each client
  connected,    \* the clients whose connection to it stands
  reader,       \* a client that walks the listing page by page
  before        \* history: what was recorded when the walk began

journal == << phase, sequence, number, status, records, index >>
lives == << subscribers, queue, closed, live, connected >>
walk == << reader, before >>
jvars == << journal, todo, lives, walk >>

\* The order in which a thread takes a request through the journal: in flight
\* from start_request on, popped, numbered, appended, and then published as
\* trace.completed and as stats.updated.
Phase == {"new", "in_flight", "popped", "numbered", "appended", "trace", "stats"}

Event == {"trace.completed", "stats.updated", "None"}

NoCursor == 0  \* the first record has sequence 1

\* What the reader has: the query it repeats, the cursor for the next page, the
\* records it has got; and two facts about its walk: it has got a record twice,
\* and the deque was in order whenever it got a page.
Idle == [at |-> "idle", limit |-> 1, filter |-> AnyStatus, cursor |-> NoCursor,
         got |-> {}, twice |-> FALSE, ordered |-> TRUE]

JInit ==
  /\ phase = [r \in Request |-> "new"]
  /\ sequence = 0
  /\ number = [r \in Request |-> 0]
  /\ status \in [Request -> Status]
  /\ records = << >>
  /\ index = {}
  /\ todo = [r \in Request |-> {}]
  /\ subscribers = {}
  /\ queue = [c \in Client |-> << >>]
  /\ closed = {}
  /\ live = [c \in Client |-> "none"]
  /\ connected = {}
  /\ reader = Idle
  /\ before = {}

-----------------------------------------------------------------------------
(* The threads of the requests. *)

\* start_request: create_in_flight.
Start(r) ==
  /\ phase[r] = "new"
  /\ phase' = [phase EXCEPT ![r] = "in_flight"]
  /\ UNCHANGED << sequence, number, status, records, index, todo, lives, walk >>

\* finish_success or finish_error: pop_in_flight.  How it ended was chosen by
\* Init, where it makes no difference and fewer states.
Pop(r) ==
  /\ phase[r] = "in_flight"
  /\ phase' = [phase EXCEPT ![r] = "popped"]
  /\ UNCHANGED << sequence, number, status, records, index, todo, lives, walk >>

\* _finalize_record: next_sequence.
TakeNumber(r) ==
  /\ phase[r] = "popped"
  /\ sequence' = sequence + 1
  /\ number' = [number EXCEPT ![r] = sequence + 1]
  /\ phase' = [phase EXCEPT ![r] = "numbered"]
  /\ UNCHANGED << status, records, index, todo, lives, walk >>

Full == Len(records) = MaxRecords

Evicted == IF Full THEN {records[Len(records)]} ELSE {}

\* The deque after appendleft.
Pushed(r) == << r >> \o (IF Full THEN SubSeq(records, 1, MaxRecords - 1) ELSE records)

\* append_record.
AppendRecord(r) ==
  /\ phase[r] = "numbered"
  /\ records' = Pushed(r)
  /\ index' = (index \ Evicted) \union {r}
  /\ phase' = [phase EXCEPT ![r] = "appended"]
  /\ UNCHANGED << sequence, number, status, todo, lives, walk >>

\* _publish begins with a copy of the set of subscribers.
Snapshot(r) ==
  /\ phase[r] \in {"appended", "trace"} /\ todo[r] = {}
  /\ phase' = [phase EXCEPT ![r] = IF @ = "appended" THEN "trace" ELSE "stats"]
  /\ todo' = [todo EXCEPT ![r] = subscribers]
  /\ UNCHANGED << sequence, number, status, records, index, lives, walk >>

EventOf(r) == IF phase[r] = "trace" THEN "trace.completed" ELSE "stats.updated"

\* put_nowait; a full queue drops its oldest event first.
Offered(q, event) == Append(IF Len(q) = QueueSize THEN Tail(q) ELSE q, event)

\* LiveSubscriber.publish, for the next subscriber of the copy.
Publish(r) ==
  /\ \E c \in todo[r] :
       /\ todo' = [todo EXCEPT ![r] = @ \ {c}]
       /\ queue' = IF c \in closed THEN queue
                   ELSE [queue EXCEPT ![c] = Offered(@, EventOf(r))]
  /\ UNCHANGED << journal, subscribers, closed, live, connected, walk >>

Work(r) == TakeNumber(r) \/ AppendRecord(r) \/ Snapshot(r) \/ Publish(r)

-----------------------------------------------------------------------------
(* The live endpoint. *)

Connect(c) ==
  /\ live[c] = "none"
  /\ live' = [live EXCEPT ![c] = "asked"]
  /\ connected' = connected \union {c}
  /\ UNCHANGED << journal, todo, subscribers, queue, closed, walk >>

\* The client goes away, or the connection breaks.
Disconnect(c) ==
  /\ c \in connected
  /\ connected' = connected \ {c}
  /\ UNCHANGED << journal, todo, subscribers, queue, closed, live, walk >>

\* The handler: subscribe, and a response whose generator has yet to start.
Subscribe(c) ==
  /\ live[c] = "asked"
  /\ live' = [live EXCEPT ![c] = "subscribed"]
  /\ subscribers' = subscribers \union {c}
  /\ UNCHANGED << journal, todo, queue, closed, connected, walk >>

BeginStream(c) ==
  /\ live[c] = "subscribed"
  /\ live' = [live EXCEPT ![c] = "streaming"]
  /\ UNCHANGED << journal, todo, subscribers, queue, closed, connected, walk >>

\* The client is gone before the generator starts, so its finally never runs.
Drop(c) ==
  /\ live[c] = "subscribed" /\ c \notin connected
  /\ live' = [live EXCEPT ![c] = "dropped"]
  /\ UNCHANGED << journal, todo, subscribers, queue, closed, connected, walk >>

\* subscriber.get finds an event, which is sent to the client.  (When it finds
\* none in time a heartbeat is sent, which changes nothing.)
Relay(c) ==
  /\ live[c] = "streaming" /\ queue[c] # << >>
  /\ queue' = [queue EXCEPT ![c] = Tail(@)]
  /\ UNCHANGED << journal, todo, subscribers, closed, live, connected, walk >>

Unsubscribed(c) == subscribers \ {c}

\* The coroutine sees the client gone: unsubscribe, and close with its sentinel.
EndStream(c) ==
  /\ live[c] = "streaming" /\ c \notin connected
  /\ live' = [live EXCEPT ![c] = "ended"]
  /\ subscribers' = Unsubscribed(c)
  /\ closed' = closed \union {c}
  /\ queue' = IF Len(queue[c]) = QueueSize THEN queue
              ELSE [queue EXCEPT ![c] = Append(@, "None")]
  /\ UNCHANGED << journal, todo, connected, walk >>

LiveStep(c) == Subscribe(c) \/ BeginStream(c) \/ Relay(c) \/ EndStream(c)

-----------------------------------------------------------------------------
(* The listing. *)

\* Mutant of Below: the record the last page ended with comes again.
BelowOrAt(r, cursor) == cursor = NoCursor \/ number[r] <= cursor

Below(r, cursor) == cursor = NoCursor \/ number[r] < cursor

Fits(r, filter) == filter = AnyStatus \/ status[r] = filter

\* The places in the deque of the records that fit a query.
Found(filter, cursor) ==
  {i \in DOMAIN records : Below(records[i], cursor) /\ Fits(records[i], filter)}

\* list_records: the first places found, as many as the limit, or all when
\* there are fewer.  (A set with one element.)
Pages(limit, filter, cursor) ==
  {items \in SUBSET Found(filter, cursor) :
     /\ \A i \in items, j \in Found(filter, cursor) : j < i => j \in items
     /\ \/ Cardinality(items) = limit
        \/ items = Found(filter, cursor) /\ Cardinality(items) < limit}

At(items) == {records[i] : i \in items}

\* nextCursor: the sequence of the page's last record when the page is full,
\* and null otherwise.  (A set with one element.)
NextCursors(items, limit) ==
  IF Cardinality(items) < limit THEN {NoCursor}
  ELSE {number[records[i]] : i \in {k \in items : \A j \in items : j <= k}}

InOrder == \A i, j \in DOMAIN records : i < j => number[records[i]] > number[records[j]]

\* The reader asks for a page, the first of a walk or the one at its cursor.
GetPage(from) ==
  \E items \in Pages(from.limit, from.filter, from.cursor) :
    \E cursor \in NextCursors(items, from.limit) :
      reader' = [at      |-> IF Cardinality(items) < from.limit THEN "done" ELSE "walking",
                 limit   |-> from.limit,
                 filter  |-> from.filter,
                 cursor  |-> cursor,
                 got     |-> from.got \union At(items),
                 twice   |-> from.twice \/ At(items) \intersect from.got # {},
                 ordered |-> from.ordered /\ InOrder]

BeginWalk ==
  /\ reader.at # "walking"
  /\ \E limit \in Limit, filter \in Status \union {AnyStatus} :
       GetPage([Idle EXCEPT !.limit = limit, !.filter = filter])
  /\ before' = ToSet(records)
  /\ UNCHANGED << journal, todo, lives >>

NextPage ==
  /\ reader.at = "walking"
  /\ GetPage(reader)
  /\ UNCHANGED << journal, todo, lives, before >>

-----------------------------------------------------------------------------
JNext ==
  \/ \E r \in Request : Start(r) \/ Pop(r) \/ Work(r)
  \/ \E c \in Client : Connect(c) \/ Disconnect(c) \/ Drop(c) \/ LiveStep(c)
  \/ BeginWalk
  \/ NextPage

JSpec == JInit /\ [][JNext]_jvars

-----------------------------------------------------------------------------
(* Properties. *)

Reader ==
  [at : {"idle", "walking", "done"}, limit : Nat \ {0},
   filter : Status \union {AnyStatus}, cursor : Nat,
   got : SUBSET Request, twice : BOOLEAN, ordered : BOOLEAN]

JTypeOK ==
  /\ phase \in [Request -> Phase]
  /\ sequence \in Nat
  /\ number \in [Request -> Nat]
  /\ status \in [Request -> Status]
  /\ records \in Seq(Request) /\ Len(records) <= MaxRecords
  /\ index \subseteq Request
  /\ todo \in [Request -> SUBSET Client]
  /\ subscribers \subseteq Client
  /\ queue \in [Client -> Seq(Event)]
  /\ \A c \in Client : Len(queue[c]) <= QueueSize
  /\ closed \subseteq Client
  /\ live \in [Client -> {"none", "asked", "subscribed", "streaming", "ended", "dropped"}]
  /\ connected \subseteq Client
  /\ reader \in Reader
  /\ before \subseteq Request

\* A trace of the list has a detail, and only those have: _by_request_id never
\* drifts from the deque, in which no request is twice (store.py:76-86).
IndexMatches ==
  /\ index = ToSet(records)
  /\ IsInjective(records)

\* Walking the listing by its cursor gives no record twice, and at its end has
\* given every record that fits, was there from the beginning and still is, in
\* spite of records appended and evicted between two pages (store.py:131-181,
\* api.py:115).  This is so when the walk never finds a record that was
\* appended after one with a higher sequence.
WalkIsComplete ==
  reader.ordered =>
    /\ ~reader.twice
    /\ reader.at = "done" =>
         \A r \in before \intersect ToSet(records) :
           Fits(r, reader.filter) => r \in reader.got

\* The inductive invariant of the proofs.  A record has its number before it is
\* listed and keeps it; and while a walk goes on, what it has got lies at or
\* above its cursor, and what it has yet to get below.
Recorded == {r \in Request : phase[r] \in {"appended", "trace", "stats"}}

WalkGoesOn ==
  /\ reader.cursor # NoCursor
  /\ \A r \in reader.got : number[r] >= reader.cursor
  /\ \A r \in before \intersect ToSet(records) :
       Fits(r, reader.filter) => r \in reader.got \/ number[r] < reader.cursor

JIInv ==
  /\ JTypeOK
  /\ \A r \in Request : number[r] = 0 <=> phase[r] \in {"new", "in_flight", "popped"}
  /\ index \union before \union reader.got \subseteq Recorded
  /\ IndexMatches
  /\ WalkIsComplete
  /\ reader.ordered /\ reader.at = "walking" => WalkGoesOn

=============================================================================
