----------------------------- MODULE QueryCache -----------------------------
(* One cached query of a web client, as TanStack Query keeps it, while the user
   moves through the client and the operations offered there change the data
   behind the query on the server.  Both clients load a query when a component
   that shows it appears, never on their own after that, and rely on the
   onSuccess callbacks of their operations to mark what has become stale.

   The version of the data counts the writes that changed them.  A request and
   its answer are separate steps, so fetches and operations overtake each
   other, and others write at any time.                                      *)
EXTENDS Naturals, FiniteSets

CONSTANTS
    Client,         \* the tables of the client; a relation is the set of its tuples
    MaxVersion,     \* bound: versions of the data
    MaxCalls        \* bound: operations under way

Queries == Client.queries           \* the cache is modelled for each query in turn
Places == Client.places             \* the states of the user interface
Ops == Client.ops                   \* the operations
At == Client.at                     \* <<x, s>>: s is a place of the client that has query x
Shows == Client.shows               \* <<s, x>>: some component shows x at s
ProjectAt == Client.projectAt       \* ProjectAt[s]: the project components are rendered for
Offers == Client.offers             \* <<o, s>>: the user can start o at s
Touches == Client.touches           \* <<x, o>>: the operations of interest next to x
Lives == Client.lives               \* <<o, s>>: the component with the hook of o is at s
Hook == Client.hook                 \* Hook[o]: the hook of o
Solo == Client.solo                 \* the o disabled while their hook has one pending
Changes == Client.changes           \* <<o, x>>: o changes the data behind x
ProjectOf == Client.projectOf       \* ProjectOf[o]: the project of o, or "none"
Survives == Client.survives         \* the o whose callback runs also without their component
Refetches == Client.refetches       \* <<o, p, x>>: the callback of o, in a rendering for
                                    \* project p, invalidates x
WritesFirst == Client.writesFirst   \* ... before that, it writes the answer of o to x
WritesLast == Client.writesLast     \* ... or after that
Amends == Client.amends             \* ... or adds the answer to the x it has, after that
Promised == Client.promised         \* <<o, x>>: the user of o is promised its effect on x
RefreshButton == Client.refresh     \* <<x, s>>: the refresh button invalidates x at s
RefreshWaits == Client.refreshWaits \* the x while whose loading it is disabled
Aborts == Client.aborts             \* the x that stop loading when nothing shows them

VARIABLES
    query,      \* the query
    place,      \* what the user has on the screen
    server,     \* the version the server has
    cached,     \* the version in the cache, 0 for none
    invalid,    \* isInvalidated
    foreign,    \* the cache holds the data of another project
    fetch,      \* "off", "sent", or <<v>>: an answer with version v under way
    calls,      \* operations under way: version is 0 until the server has served
                \* it; attached: its hook still has it as its latest; project:
                \* the project its callback would be run for
    due         \* history: the latest version the user was promised to see

cacheVars == <<query, place, server, cached, invalid, foreign, fetch, calls, due>>

Versions == 1..MaxVersion
Answer(v) == <<"answer", v>>
Off == <<"off", 0>>
Sent == <<"sent", 0>>

Shown == <<place, query>> \in Shows

\* The project the callback of o is for in a rendering at s
Rendered(o, s) ==
    IF o \in Survives /\ ProjectOf[o] # "none" THEN ProjectAt[s] ELSE ProjectOf[o]

Call(o, p) == [op |-> o, project |-> p, version |-> 0, attached |-> TRUE]

\* Nobody waits for the answer of a call whose callback is not to run.
Pending(S) == {c \in S : c.version = 0 \/ c.attached \/ c.op \in Survives}

CacheInit ==
    /\ query \in Queries
    /\ place \in {s \in Places : <<query, s>> \in At}
    /\ server = 1 /\ cached = 0 /\ due = 0
    /\ invalid = FALSE /\ foreign = FALSE
    /\ fetch = IF Shown THEN Sent ELSE Off
    /\ calls = {}

-----------------------------------------------------------------------------
(* The query.                                                               *)

\* A fetch that is under way is joined.
Load == fetch' = IF fetch = Off THEN Sent ELSE fetch

\* Components appear and disappear.  A query that comes into view is loaded
\* (staleTime 0).  An operation whose component is gone has no latest call any
\* more; one that stays is rendered for the new project.
Navigate(s) ==
    /\ s # place /\ <<query, s>> \in At
    /\ place' = s
    /\ IF <<s, query>> \in Shows /\ ~Shown THEN Load
       ELSE fetch' = IF Shown /\ <<s, query>> \notin Shows /\ query \in Aborts THEN Off ELSE fetch
    /\ calls' = Pending({IF ~c.attached THEN c
                         ELSE IF <<c.op, s>> \notin Lives THEN [c EXCEPT !.attached = FALSE]
                         ELSE [c EXCEPT !.project = Rendered(c.op, s)] : c \in calls})
    /\ UNCHANGED <<query, server, cached, invalid, foreign, due>>

\* Another component with the query appears, the window gets the focus, or the
\* user retries after an error.
Reload ==
    /\ Shown /\ fetch = Off
    /\ Load
    /\ UNCHANGED <<query, place, server, cached, invalid, foreign, calls, due>>

\* The server reads the data.
ServeFetch ==
    /\ fetch = Sent
    /\ fetch' = Answer(server)
    /\ UNCHANGED <<query, place, server, cached, invalid, foreign, calls, due>>

ReceiveFetch ==
    /\ \E v \in Versions : fetch = Answer(v) /\ cached' = v
    /\ invalid' = FALSE /\ foreign' = FALSE
    /\ fetch' = Off
    /\ UNCHANGED <<query, place, server, calls, due>>

\* The last retry failed; the cached data stay, and so does their mark.
FailFetch ==
    /\ fetch # Off
    /\ fetch' = Off
    /\ UNCHANGED <<query, place, server, cached, invalid, foreign, calls, due>>

Later(v) == IF v > due THEN v ELSE due

\* Data are on the screen, and none of the calls will replace them by its
\* answer, which may be older than they are then.
Settled(others) ==
    Shown /\ cached > 0 /\ ~\E c \in others : <<c.op, c.project, query>> \in WritesLast

\* refetchQueries in the place of invalidateQueries: nothing is marked.
Refresh_OnlyRefetches ==
    /\ <<query, place>> \in RefreshButton
    /\ query \in RefreshWaits => fetch = Off
    /\ fetch' = IF Shown /\ (cached > 0 \/ fetch = Off) THEN Sent ELSE fetch
    /\ due' = IF Settled(calls) THEN Later(server) ELSE due
    /\ UNCHANGED <<query, place, server, cached, invalid, foreign, calls>>

\* The refresh button: what is shown will be at least as new as the server is.
\* invalidateQueries marks the query, and restarts the fetch of one that is
\* shown; the very first fetch is not restarted.
Refresh ==
    /\ <<query, place>> \in RefreshButton
    /\ query \in RefreshWaits => fetch = Off
    /\ invalid' = (cached > 0 \/ invalid)
    /\ fetch' = IF Shown /\ (cached > 0 \/ fetch = Off) THEN Sent ELSE fetch
    /\ due' = IF Settled(calls) THEN Later(server) ELSE due
    /\ UNCHANGED <<query, place, server, cached, foreign, calls>>

-----------------------------------------------------------------------------
(* The operations.                                                          *)

\* mutate(): the hook has a new latest call
Mutate(o) ==
    /\ <<o, place>> \in Offers /\ <<query, o>> \in Touches
    /\ Cardinality(calls) < MaxCalls
    /\ o \in Solo => \A c \in calls : ~(c.attached /\ Hook[c.op] = Hook[o])
    /\ calls' = Pending({IF Hook[c.op] = Hook[o] THEN [c EXCEPT !.attached = FALSE] ELSE c :
                           c \in calls})
                \cup {Call(o, Rendered(o, place))}
    /\ UNCHANGED <<query, place, server, cached, invalid, foreign, fetch, due>>

\* The server serves an operation.
Commit(c) ==
    /\ c.version = 0
    /\ IF <<c.op, query>> \in Changes THEN server < MaxVersion /\ server' = server + 1
       ELSE server' = server
    /\ calls' = (calls \ {c}) \cup Pending({[c EXCEPT !.version = server']})
    /\ UNCHANGED <<query, place, cached, invalid, foreign, fetch, due>>

\* invalidateQueries before setQueryData, which takes the mark away.
Callback_InvalidatesFirst(c) ==
    LET here == <<c.op, c.project, query>>
        Writes == here \in WritesFirst \cup WritesLast
    IN  /\ cached' = IF Writes THEN c.version ELSE cached
        /\ foreign' = IF Writes THEN c.project # ProjectOf[c.op] ELSE foreign
        /\ invalid' = (~Writes /\ (invalid \/ (here \in Refetches /\ cached > 0)))
        /\ fetch' = IF here \in Refetches /\ Shown /\ cached > 0 THEN Sent ELSE fetch
        /\ UNCHANGED due

\* The answer arrives and the callback runs: setQueryData and
\* invalidateQueries in the order of the code.  Data with a part added are as
\* old as they were, and no longer marked: with the mark goes what it promised.
Callback(c) ==
    LET here == <<c.op, c.project, query>>
        First == here \in WritesFirst
        Last == here \in WritesLast
        Amend == here \in Amends
        Stale == here \in Refetches
    IN  /\ cached' = IF First \/ Last THEN c.version
                     ELSE IF Amend /\ cached = 0 THEN 1 ELSE cached
        /\ foreign' = IF First \/ Last THEN c.project # ProjectOf[c.op] ELSE foreign
        /\ invalid' = IF Last \/ Amend THEN FALSE
                      ELSE IF Stale THEN (cached' > 0 \/ invalid)
                      ELSE IF First THEN FALSE ELSE invalid
        /\ fetch' = IF Stale /\ Shown
                      THEN IF (cached > 0 \/ First \/ fetch = Off) THEN Sent ELSE fetch
                      ELSE fetch
        /\ due' = IF Amend THEN 0
                  ELSE IF /\ Settled(calls \ {c})
                          /\ <<c.op, query>> \in Promised /\ c.project = ProjectOf[c.op]
                    THEN Later(c.version) ELSE due

Settle(c) ==
    /\ c.version > 0
    /\ calls' = calls \ {c}
    /\ Callback(c)
    /\ UNCHANGED <<query, place, server>>

\* The operation is refused, or it or its answer is lost.
FailOp(c) ==
    /\ calls' = calls \ {c}
    /\ UNCHANGED <<query, place, server, cached, invalid, foreign, fetch, due>>

\* Agents, watchers and other browsers write.
ForeignWrite ==
    /\ server < MaxVersion
    /\ server' = server + 1
    /\ UNCHANGED <<query, place, cached, invalid, foreign, fetch, calls, due>>

CacheNext ==
    \/ \E s \in Places : Navigate(s)
    \/ Reload
    \/ ServeFetch
    \/ ReceiveFetch
    \/ FailFetch
    \/ Refresh
    \/ \E o \in Ops : Mutate(o)
    \/ \E c \in calls : Commit(c) \/ Settle(c) \/ FailOp(c)
    \/ ForeignWrite

CacheSpec == CacheInit /\ [][CacheNext]_cacheVars

-----------------------------------------------------------------------------
(* What the properties ask of the tables of a client; module QueryCache_proofs
   shows that it is enough.                                                 *)

\* The callback of an operation invalidates, or adds to, all it promises.
EffectsInvalidated ==
    \A c \in Promised : <<c[1], ProjectOf[c[1]], c[2]>> \in Refetches \cup Amends

\* An answer that is written before the invalidation is invalidated.
FirstIsMarked == WritesFirst \subseteq Refetches

\* An answer that stays in the cache as it is, and whose project depends on
\* where the user is, belongs to the project of the places that show it.
LastIsShown ==
    \A w \in WritesLast, s \in Places :
        w[1] \in Survives /\ ProjectOf[w[1]] # "none" /\ <<s, w[3]>> \in Shows
          => w[2] = ProjectAt[s]

\* An answer written under another project is invalidated, for good.
ForeignIsMarked ==
    \A w \in WritesFirst \cup WritesLast :
        w[2] # ProjectOf[w[1]] => /\ w \in Refetches \ (WritesLast \cup Amends)
                                 /\ \A v \in Amends : v[3] # w[3]

TablesSound == EffectsInvalidated /\ FirstIsMarked /\ LastIsShown /\ ForeignIsMarked

-----------------------------------------------------------------------------
(* Properties.                                                              *)

\* No stale state after a mutation (Plans.tsx, INV-PLAN-7; T06): once the
\* callback of an operation has run for data on the screen, what the cache has
\* shows the operation or is marked stale, whatever fetches, other operations
\* and moves of the user came in between; the same for the refresh button.
OwnWriteShows == due > 0 => invalid \/ cached >= due

\* The answer of an operation written under the project the user has moved on
\* to (useReindex) is never taken for that project's data: it stays marked
\* stale until they are loaded.
ForeignDataIsInvalid == foreign => invalid

=============================================================================
