----------------------------- MODULE TrafficPage -----------------------------
(***************************************************************************)
(* The traffic page of the dashboard (dashboard/src/features/traffic) with *)
(* the journal it shows.  The page fetches the list of the newest records, *)
(* and again 150 ms after the last live event.  Its fetches and its live   *)
(* connection are unordered requests to the gateway.                       *)
(***************************************************************************)
EXTENDS Journal

CONSTANT ListLimit  \* EVENTS_LIMIT

ASSUME TrafficPageAssumption == ListLimit \in Nat \ {0}

VARIABLES
  fetch,    \* the fetch of the list: "none", "sent" or "answered"
  answer,   \* the list on its way to the page
  loaded,   \* the pages that have got a list
  shown,    \* the list each page shows
  timer     \* the pages whose refreshTimer runs

page == << fetch, answer, loaded, shown, timer >>

vars == << jvars, page >>

Init ==
  /\ JInit
  /\ fetch = [c \in Client |-> "none"]
  /\ answer = [c \in Client |-> {}]
  /\ loaded = {}
  /\ shown = [c \in Client |-> {}]
  /\ timer = {}

-----------------------------------------------------------------------------
\* The page is opened: useTrafficEventsQuery fetches and
\* useTrafficLiveInvalidation connects.
Open(c) ==
  /\ Connect(c)
  /\ fetch' = [fetch EXCEPT ![c] = "sent"]
  /\ UNCHANGED << answer, loaded, shown, timer >>

\* The page is closed, which ends everything it does.
Close(c) ==
  /\ IF c \in connected THEN Disconnect(c) ELSE UNCHANGED jvars
  /\ live[c] # "none"
  /\ fetch' = [fetch EXCEPT ![c] = "none"]
  /\ timer' = timer \ {c}
  /\ loaded' = loaded \ {c}
  /\ UNCHANGED << answer, shown >>

\* The live connection fails; source.onerror closes it for good.
Lose(c) ==
  /\ Disconnect(c)
  /\ UNCHANGED page

\* What events lists without cursor or filter.
Newest == Pages(ListLimit, AnyStatus, NoCursor)

\* The gateway answers a fetch.
Serve(c) ==
  /\ fetch[c] = "sent"
  /\ fetch' = [fetch EXCEPT ![c] = "answered"]
  /\ \E items \in Newest : answer' = [answer EXCEPT ![c] = At(items)]
  /\ UNCHANGED << jvars, loaded, shown, timer >>

Show(c) ==
  /\ fetch[c] = "answered"
  /\ fetch' = [fetch EXCEPT ![c] = "none"]
  /\ shown' = [shown EXCEPT ![c] = answer[c]]
  /\ loaded' = loaded \union {c}
  /\ UNCHANGED << jvars, answer, timer >>

\* Mutant of Heard: no refresh is scheduled while a fetch is under way.
HeardWhenIdle(c) == IF fetch[c] = "none" THEN timer \union {c} ELSE timer

\* scheduleRefresh: the timer is started, or started anew.
Heard(c) == timer \union {c}

\* A live event reaches the page, if the connection still stands.
RelayToPage(c) ==
  /\ Relay(c)
  /\ timer' = IF c \in connected THEN Heard(c) ELSE timer
  /\ UNCHANGED << fetch, answer, loaded, shown >>

\* invalidateQueries of TanStack Query: a fetch under way is given up for a new
\* one, but the first fetch, as long as there is no data, is left to go on.
Invalidate(c) ==
  fetch' = [fetch EXCEPT ![c] = IF c \in loaded \/ @ = "none" THEN "sent" ELSE @]

\* The timer fires.
Refresh(c) ==
  /\ c \in timer
  /\ timer' = timer \ {c}
  /\ Invalidate(c)
  /\ UNCHANGED << jvars, answer, loaded, shown >>

PageStep(c) == Serve(c) \/ Show(c) \/ Refresh(c)

\* The journal goes on without the page.  (Nobody walks the listing here; that
\* would change neither the journal nor the page.)
JournalStep ==
  /\ \/ \E r \in Request : Start(r) \/ Pop(r) \/ Work(r)
     \/ \E c \in Client : Subscribe(c) \/ BeginStream(c) \/ Drop(c) \/ EndStream(c)
  /\ UNCHANGED page

Next ==
  \/ JournalStep
  \/ \E c \in Client : Open(c) \/ Close(c) \/ Lose(c) \/ RelayToPage(c) \/ PageStep(c)

\* The journal's threads and streams proceed as there; the gateway answers, its
\* answers arrive, and timers fire.
Fairness ==
  /\ \A r \in Request : WF_vars(Work(r) /\ UNCHANGED page)
  /\ \A c \in Client :
       /\ WF_vars(Subscribe(c) /\ UNCHANGED page)
       /\ WF_vars(BeginStream(c) /\ UNCHANGED page)
       /\ WF_vars(EndStream(c) /\ UNCHANGED page)
       /\ WF_vars(RelayToPage(c))
       /\ WF_vars(Serve(c)) /\ WF_vars(Show(c)) /\ WF_vars(Refresh(c))

Spec == Init /\ [][Next]_vars /\ Fairness

-----------------------------------------------------------------------------
(* Properties. *)

\* The page follows the traffic: a trace recorded while the page has its first
\* list and its live stream is shown in the end, however threads, pushed and
\* dropped events, timers and answers overlap, unless newer records have taken
\* its place or the connection is lost (useTrafficLiveInvalidation.ts:25-49).
PageFollows ==
  \A c \in Client, r \in Request :
    (phase[r] = "appended" /\ c \in loaded /\ c \in subscribers) ~>
      \/ r \in shown[c]
      \/ \A items \in Newest : r \notin At(items)
      \/ c \notin connected
=============================================================================
