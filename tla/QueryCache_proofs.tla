------------------------- MODULE QueryCache_proofs -------------------------
(* Proofs about module QueryCache, for every client whose tables meet
   TablesSound and any number of versions and calls.  That the tables of the
   control panel and of the web dashboard meet it is checked by TLC, in
   MCQueryCache: so a new operation needs only its row in the tables to be
   right, not a new argument about overtaking fetches.                      *)
EXTENDS QueryCache, TLAPS

Renderings == {ProjectOf[o] : o \in Ops} \cup {ProjectAt[s] : s \in Places}
CallType == [op : Ops, project : Renderings, version : Nat, attached : BOOLEAN]
FetchType == {Off, Sent} \cup {Answer(v) : v \in Nat}

TypeOK ==
    /\ place \in Places
    /\ server \in Nat \ {0} /\ cached \in Nat /\ due \in Nat
    /\ invalid \in BOOLEAN /\ foreign \in BOOLEAN
    /\ fetch \in FetchType
    /\ calls \subseteq CallType

\* The project a callback would run for, as long as its component is there.
Attachment ==
    \A c \in calls : c.attached => c.project = Rendered(c.op, place)

\* The answer of c will stay in the cache as it is, here or where the user goes.
MayStay(c) ==
    \/ <<c.op, c.project, query>> \in WritesLast
    \/ /\ c.attached /\ c.op \in Survives /\ ProjectOf[c.op] # "none"
       /\ \E p : <<c.op, p, query>> \in WritesLast

\* Whatever reaches the cache unmarked, from a fetch or an operation, is as new
\* as what the user was promised.
NothingOlder ==
    /\ due <= server
    /\ \A v \in Nat : fetch = Answer(v) => due <= v
    /\ \A c \in calls : c.version <= server
    /\ \A c \in calls : MayStay(c) /\ c.version > 0 => due <= c.version

\* Only a query that is never amended holds the data of another project.
ForeignOrigin ==
    foreign => \E w \in WritesFirst \cup WritesLast : w[2] # ProjectOf[w[1]] /\ w[3] = query

CacheInv ==
    /\ TypeOK
    /\ Attachment
    /\ NothingOlder
    /\ OwnWriteShows
    /\ ForeignOrigin
    /\ ForeignDataIsInvalid

-----------------------------------------------------------------------------
(* Calls.                                                                   *)

\* What becomes of the calls when the hook of some of them, or their component,
\* changes: they keep operation and version, and may lose their attachment.
Detached(c) == [c EXCEPT !.attached = FALSE]
Moved(c, s) == [c EXCEPT !.project = Rendered(c.op, s)]

LEMMA RenderedType ==
  ASSUME NEW o \in Ops, NEW s \in Places
  PROVE  Rendered(o, s) \in Renderings
BY DEF Rendered, Renderings

LEMMA DetachedFields ==
  ASSUME NEW c \in CallType
  PROVE  /\ Detached(c) \in CallType
         /\ Detached(c).op = c.op /\ Detached(c).project = c.project
         /\ Detached(c).version = c.version /\ ~Detached(c).attached
BY DEF CallType, Detached

LEMMA MovedFields ==
  ASSUME NEW c \in CallType, NEW s \in Places
  PROVE  /\ Moved(c, s) \in CallType
         /\ Moved(c, s).op = c.op /\ Moved(c, s).project = Rendered(c.op, s)
         /\ Moved(c, s).version = c.version /\ Moved(c, s).attached = c.attached
<1>1. Rendered(c.op, s) \in Renderings
  BY RenderedType DEF CallType
<1> QED
  BY <1>1 DEF CallType, Moved

LEMMA ServedFields ==
  ASSUME NEW c \in CallType, NEW v \in Nat
  PROVE  LET d == [c EXCEPT !.version = v]
         IN  /\ d \in CallType /\ d.op = c.op /\ d.project = c.project
             /\ d.version = v /\ d.attached = c.attached
BY DEF CallType

LEMMA NewCall ==
  ASSUME NEW o \in Ops, NEW s \in Places
  PROVE  LET c == Call(o, Rendered(o, s))
         IN  /\ c \in CallType /\ c.op = o /\ c.project = Rendered(o, s)
             /\ c.version = 0 /\ c.attached = TRUE
BY RenderedType DEF Call, CallType

\* While the data are settled on the screen, no answer under way may stay in the
\* cache, wherever the user goes before it arrives.
LEMMA SettledNothingStays ==
  ASSUME TablesSound, TypeOK, Attachment, NEW cs \in SUBSET calls, Settled(cs)
  PROVE  \A c \in cs : ~MayStay(c)
<1> SUFFICES ASSUME NEW c \in cs, MayStay(c) PROVE FALSE
  OBVIOUS
<1>1. <<c.op, c.project, query>> \notin WritesLast /\ <<place, query>> \in Shows
  BY DEF Settled, Shown
<1>2. PICK p : c.attached /\ c.op \in Survives /\ ProjectOf[c.op] # "none"
                 /\ <<c.op, p, query>> \in WritesLast
  BY <1>1 DEF MayStay
<1>3. p = ProjectAt[place]
  BY <1>1, <1>2 DEF TablesSound, LastIsShown, TypeOK
<1>4. c.project = ProjectAt[place]
  BY <1>2 DEF Attachment, Rendered
<1> QED
  BY <1>1, <1>2, <1>3, <1>4

-----------------------------------------------------------------------------
(* The steps that leave the cache as it is.                                 *)

LEMMA NavigateStep ==
  ASSUME CacheInv, NEW s \in Places, Navigate(s)
  PROVE  CacheInv'
<1>1. calls \subseteq CallType
  BY DEF CacheInv, TypeOK
<1>2. \A d \in calls' : \E c \in calls : \/ ~c.attached /\ d = c
                                         \/ d = Detached(c)
                                         \/ c.attached /\ d = Moved(c, s)
  BY DEF Navigate, Pending, Detached, Moved
<1>3. calls' \subseteq CallType
  BY <1>1, <1>2, DetachedFields, MovedFields
<1>4. Attachment'
  <2> SUFFICES ASSUME NEW d \in calls', d.attached PROVE d.project = Rendered(d.op, s)
    BY DEF Attachment, Navigate, Rendered
  <2>1. PICK c \in calls : \/ ~c.attached /\ d = c
                           \/ d = Detached(c)
                           \/ c.attached /\ d = Moved(c, s)
    BY <1>2
  <2> QED
    BY <1>1, <2>1, DetachedFields, MovedFields
<1>5. ASSUME NEW d \in calls', MayStay(d)', d.version > 0
      PROVE  due <= d.version
  <2>1. PICK c \in calls : \/ ~c.attached /\ d = c
                           \/ d = Detached(c)
                           \/ c.attached /\ d = Moved(c, s)
    BY <1>2
  <2>2. c \in CallType /\ d.op = c.op /\ d.version = c.version /\ (d.attached => c.attached)
    BY <1>1, <2>1, DetachedFields, MovedFields
  <2>3. MayStay(d)
    BY <1>5 DEF MayStay, Navigate
  <2>4. MayStay(c)
    <3>1. CASE d.attached /\ c.op \in Survives /\ ProjectOf[c.op] # "none"
      BY <2>2, <2>3, <3>1 DEF MayStay
    <3>2. CASE ~(d.attached /\ c.op \in Survives /\ ProjectOf[c.op] # "none")
      <4>1. <<c.op, d.project, query>> \in WritesLast
        BY <2>2, <2>3, <3>2 DEF MayStay
      <4>2. d.project = c.project
        <5>1. CASE ~d.attached
          BY <1>1, <2>1, <5>1, DetachedFields, MovedFields
        <5>2. CASE d.attached
          <6>1. c.attached /\ d.project = Rendered(c.op, s) /\ c.project = Rendered(c.op, place)
            BY <1>1, <2>1, <2>2, <5>2, DetachedFields, MovedFields DEF CacheInv, Attachment
          <6> QED
            BY <2>2, <3>2, <5>2, <6>1 DEF Rendered
        <5> QED
          BY <5>1, <5>2
      <4> QED
        BY <4>1, <4>2 DEF MayStay
    <3> QED
      BY <3>1, <3>2
  <2> QED
    BY <1>5, <2>2, <2>4 DEF CacheInv, NothingOlder
<1>6. \A d \in calls' : d.version <= server
  BY <1>1, <1>2, DetachedFields, MovedFields DEF CacheInv, NothingOlder
<1>7. fetch' \in {fetch, Off, Sent}
  BY DEF Navigate, Load
<1>8. \A v \in Nat : Answer(v) # Off /\ Answer(v) # Sent
  BY DEF Answer, Off, Sent
<1>9. TypeOK' /\ NothingOlder'
  BY <1>3, <1>5, <1>6, <1>7, <1>8 DEF Navigate, CacheInv, TypeOK, NothingOlder, FetchType
<1> QED
  BY <1>4, <1>9 DEF Navigate, CacheInv, OwnWriteShows, ForeignOrigin, ForeignDataIsInvalid

\* The fetch under way is one of the data, or none; the three are told apart.
LEMMA FetchValues ==
  /\ Off # Sent
  /\ \A v \in Nat : Answer(v) # Off /\ Answer(v) # Sent
  /\ \A v, w \in Nat : Answer(v) = Answer(w) => v = w
BY DEF Answer, Off, Sent

LEMMA FetchStep ==
  ASSUME CacheInv, Reload \/ ServeFetch \/ FailFetch
  PROVE  CacheInv'
<1>1. /\ UNCHANGED <<query, place, server, cached, invalid, foreign, calls, due>>
      /\ fetch' \in {fetch, Off, Sent, Answer(server)}
  BY DEF Reload, ServeFetch, FailFetch, Load
<1>2. TypeOK' /\ NothingOlder'
  BY <1>1, FetchValues DEF CacheInv, TypeOK, NothingOlder, FetchType, MayStay
<1> QED
  BY <1>1, <1>2 DEF CacheInv, Attachment, OwnWriteShows, ForeignOrigin, ForeignDataIsInvalid, Rendered

\* The data that come in are as new as what was promised.
LEMMA ReceiveFetchStep ==
  ASSUME CacheInv, ReceiveFetch
  PROVE  CacheInv'
<1>1. PICK v \in Versions : fetch = Answer(v) /\ cached' = v
  BY DEF ReceiveFetch
<1>2. v \in Nat
  BY DEF Versions
<1>3. due <= v
  BY <1>1, <1>2 DEF CacheInv, NothingOlder
<1>4. /\ UNCHANGED <<query, place, server, calls, due>>
      /\ fetch' = Off /\ invalid' = FALSE /\ foreign' = FALSE
  BY DEF ReceiveFetch
<1>5. TypeOK' /\ NothingOlder'
  BY <1>1, <1>2, <1>4, FetchValues DEF CacheInv, TypeOK, NothingOlder, FetchType, MayStay
<1> QED
  BY <1>1, <1>3, <1>4, <1>5 DEF CacheInv, Attachment, OwnWriteShows, ForeignOrigin,
     ForeignDataIsInvalid, Rendered

LEMMA RefreshStep ==
  ASSUME TablesSound, CacheInv, Refresh
  PROVE  CacheInv'
<1>1. /\ UNCHANGED <<query, place, server, cached, foreign, calls>>
      /\ invalid' = (cached > 0 \/ invalid)
      /\ fetch' = IF Shown /\ (cached > 0 \/ fetch = Off) THEN Sent ELSE fetch
      /\ due' = IF Settled(calls) THEN Later(server) ELSE due
  BY DEF Refresh
<1>2. CASE Settled(calls)
  <2>1. \A c \in calls : ~MayStay(c)
    BY <1>2, SettledNothingStays DEF CacheInv
  <2>2. Shown /\ cached > 0
    BY <1>2 DEF Settled
  <2>3. due' = server
    BY <1>1, <1>2 DEF Later, CacheInv, TypeOK, NothingOlder
  <2>4. fetch' = Sent /\ invalid' = TRUE
    BY <1>1, <2>2
  <2>5. TypeOK'
    BY <1>1, <2>3, <2>4 DEF CacheInv, TypeOK, FetchType
  <2>6. NothingOlder'
    <3>1. \A c \in calls' : ~MayStay(c)'
      BY <1>1, <2>1 DEF MayStay
    <3> QED
      BY <1>1, <2>3, <2>4, <3>1, FetchValues DEF CacheInv, TypeOK, NothingOlder
  <2> QED
    BY <1>1, <2>4, <2>5, <2>6 DEF CacheInv, Attachment, OwnWriteShows, ForeignOrigin,
       ForeignDataIsInvalid, Rendered
<1>3. CASE ~Settled(calls)
  <2>1. due' = due /\ fetch' \in {fetch, Sent} /\ invalid' \in BOOLEAN
    BY <1>1, <1>3 DEF CacheInv, TypeOK
  <2>2. TypeOK' /\ NothingOlder'
    BY <1>1, <2>1, FetchValues DEF CacheInv, TypeOK, NothingOlder, FetchType, MayStay
  <2> QED
    BY <1>1, <2>1, <2>2 DEF CacheInv, Attachment, OwnWriteShows, ForeignOrigin,
       ForeignDataIsInvalid, Rendered
<1> QED
  BY <1>2, <1>3

-----------------------------------------------------------------------------
(* Operations.                                                              *)

LEMMA MutateStep ==
  ASSUME CacheInv, NEW o \in Ops, Mutate(o)
  PROVE  CacheInv'
<1> DEFINE new == Call(o, Rendered(o, place))
<1>1. calls \subseteq CallType /\ place \in Places
  BY DEF CacheInv, TypeOK
<1>2. \A d \in calls' : d = new \/ \E c \in calls : d = c \/ d = Detached(c)
  BY DEF Mutate, Pending, Detached
<1>3. new \in CallType /\ new.project = Rendered(new.op, place) /\ new.version = 0
  <2>1. /\ new \in CallType /\ new.op = o /\ new.project = Rendered(o, place)
        /\ new.version = 0
    BY <1>1, NewCall
  <2> HIDE DEF new
  <2> QED
    BY <2>1
<1>4. UNCHANGED <<query, place, server, cached, invalid, foreign, fetch, due>>
  BY DEF Mutate
<1> HIDE DEF new
<1>5. ASSUME NEW d \in calls'
      PROVE  /\ d \in CallType /\ d.version <= server
             /\ d.attached => d.project = Rendered(d.op, place)
             /\ MayStay(d) /\ d.version > 0 => due <= d.version
  <2>1. CASE d = new
    BY <1>3, <2>1 DEF CacheInv, TypeOK
  <2>2. CASE d \in calls
    BY <2>2 DEF CacheInv, TypeOK, Attachment, NothingOlder
  <2>3. ASSUME NEW c \in calls, d = Detached(c)
        PROVE  /\ d \in CallType /\ d.version <= server /\ ~d.attached
               /\ MayStay(d) => MayStay(c)
    BY <1>1, <2>3, DetachedFields DEF MayStay, CacheInv, NothingOlder
  <2>4. ASSUME NEW c \in calls, d = Detached(c)
        PROVE  MayStay(d) /\ d.version > 0 => due <= d.version
    BY <1>1, <2>3, <2>4, DetachedFields DEF CacheInv, NothingOlder
  <2> QED
    BY <1>2, <2>1, <2>2, <2>3, <2>4
<1>6. TypeOK' /\ Attachment' /\ NothingOlder'
  BY <1>4, <1>5 DEF CacheInv, TypeOK, Attachment, NothingOlder, MayStay, Rendered
<1> QED
  BY <1>4, <1>6 DEF CacheInv, OwnWriteShows, ForeignOrigin, ForeignDataIsInvalid

LEMMA CommitStep ==
  ASSUME CacheInv, NEW c \in calls, Commit(c)
  PROVE  CacheInv'
<1> DEFINE served == [c EXCEPT !.version = server']
<1>1. c \in CallType /\ server \in Nat \ {0} /\ due <= server /\ due \in Nat
  BY DEF CacheInv, TypeOK, NothingOlder
<1>2. server' \in Nat \ {0} /\ server <= server'
  BY <1>1 DEF Commit
<1>3. \A d \in calls' : d = served \/ d \in calls
  BY DEF Commit, Pending
<1>4. UNCHANGED <<query, place, cached, invalid, foreign, fetch, due>>
  BY DEF Commit
<1>5. /\ served \in CallType /\ served.op = c.op /\ served.project = c.project
      /\ served.version = server' /\ served.attached = c.attached
  BY <1>1, <1>2, ServedFields
<1> HIDE DEF served
<1>6. ASSUME NEW d \in calls'
      PROVE  /\ d \in CallType /\ d.version <= server'
             /\ d.attached => d.project = Rendered(d.op, place)
             /\ MayStay(d) /\ d.version > 0 => due <= d.version
  <2>1. CASE d = served
    BY <1>1, <1>2, <1>5, <2>1 DEF CacheInv, Attachment
  <2>2. CASE d \in calls
    <3>1. d \in CallType /\ d.version \in Nat /\ d.version <= server
      BY <2>2 DEF CacheInv, TypeOK, NothingOlder, CallType
    <3> QED
      BY <1>1, <1>2, <2>2, <3>1 DEF CacheInv, Attachment, NothingOlder
  <2> QED
    BY <1>3, <2>1, <2>2
<1>7. TypeOK' /\ Attachment'
  BY <1>2, <1>4, <1>6 DEF CacheInv, TypeOK, Attachment, Rendered
<1>8. NothingOlder'
  <2>1. \A d \in calls' : MayStay(d)' => MayStay(d)
    BY <1>4 DEF MayStay
  <2> QED
    BY <1>1, <1>2, <1>4, <1>6, <2>1 DEF CacheInv, NothingOlder
<1> QED
  BY <1>4, <1>7, <1>8 DEF CacheInv, OwnWriteShows, ForeignOrigin, ForeignDataIsInvalid

LEMMA FailOpStep ==
  ASSUME CacheInv, NEW c \in calls, FailOp(c)
  PROVE  CacheInv'
BY DEF FailOp, CacheInv, TypeOK, Attachment, NothingOlder, MayStay, Rendered, OwnWriteShows,
   ForeignOrigin, ForeignDataIsInvalid

LEMMA ForeignWriteStep ==
  ASSUME CacheInv, ForeignWrite
  PROVE  CacheInv'
<1>1. server \in Nat \ {0} /\ server' = server + 1 /\ due \in Nat
  BY DEF CacheInv, TypeOK, ForeignWrite
<1>2. UNCHANGED <<query, place, cached, invalid, foreign, fetch, calls, due>>
  BY DEF ForeignWrite
<1>3. TypeOK' /\ Attachment'
  BY <1>1, <1>2 DEF CacheInv, TypeOK, Attachment, Rendered
<1>4. NothingOlder'
  <2>1. \A d \in calls : d.version \in Nat /\ (MayStay(d)' => MayStay(d))
    BY <1>2 DEF CacheInv, TypeOK, CallType, MayStay
  <2> QED
    BY <1>1, <1>2, <2>1 DEF CacheInv, NothingOlder
<1> QED
  BY <1>2, <1>3, <1>4 DEF CacheInv, OwnWriteShows, ForeignOrigin, ForeignDataIsInvalid

-----------------------------------------------------------------------------
(* The answer arrives.                                                      *)

\* The calls that are left, and what is known of them whatever c does.
LEMMA OthersLeft ==
  ASSUME CacheInv, NEW c \in calls, Settle(c)
  PROVE  /\ UNCHANGED <<query, place, server>> /\ calls' \subseteq calls
         /\ c \in CallType /\ c.version \in Nat /\ 0 < c.version /\ c.version <= server
         /\ due \in Nat /\ due <= server
         /\ Attachment'
         /\ \A d \in calls' : d.version <= server
         /\ \A d \in calls' : MayStay(d)' => MayStay(d)
<1>1. UNCHANGED <<query, place, server>> /\ calls' \subseteq calls /\ c.version > 0
  BY DEF Settle
<1>2. c \in CallType /\ c.version \in Nat /\ c.version <= server
  BY DEF CacheInv, TypeOK, CallType, NothingOlder
<1>3. \A d \in calls' : MayStay(d)' => MayStay(d)
  BY <1>1 DEF MayStay
<1>4. Attachment'
  BY <1>1 DEF CacheInv, Attachment, Rendered
<1> QED
  BY <1>1, <1>2, <1>3, <1>4 DEF CacheInv, TypeOK, NothingOlder

\* The data are settled and c keeps its promise: what was due is now what c did.
Kept(c) ==
    /\ Settled(calls \ {c})
    /\ <<c.op, query>> \in Promised /\ c.project = ProjectOf[c.op]

\* An amendment withdraws the promises; the data are as they were.
LEMMA AmendStep ==
  ASSUME TablesSound, CacheInv, NEW c \in calls, Settle(c),
         <<c.op, c.project, query>> \in Amends
  PROVE  CacheInv'
<1> DEFINE here == <<c.op, c.project, query>>
<1>1. /\ UNCHANGED <<query, place, server>> /\ calls' \subseteq calls
      /\ c.version \in Nat /\ Attachment'
      /\ \A d \in calls' : d.version <= server
  BY OthersLeft
<1>2. /\ due' = 0 /\ invalid' = FALSE /\ cached' \in {c.version, 1, cached}
      /\ fetch' \in {fetch, Sent}
  BY DEF Settle, Callback
<1>3. foreign' = IF here \in WritesFirst \cup WritesLast THEN c.project # ProjectOf[c.op]
                 ELSE foreign
  BY DEF Settle, Callback
<1>4. foreign' = FALSE
  <2>1. CASE here \in WritesFirst \cup WritesLast
    <3>1. here[1] = c.op /\ here[2] = c.project /\ here[3] = query
      OBVIOUS
    <3> HIDE DEF here
    <3>2. c.project = ProjectOf[c.op]
      <4>1. SUFFICES ASSUME c.project # ProjectOf[c.op] PROVE FALSE
        OBVIOUS
      <4>2. here \notin Amends
        BY <2>1, <3>1, <4>1 DEF TablesSound, ForeignIsMarked
      <4> QED
        BY <4>2 DEF here
    <3> QED
      BY <1>3, <2>1, <3>2
  <2>2. CASE here \notin WritesFirst \cup WritesLast
    <3>1. ~foreign
      <4>1. SUFFICES ASSUME foreign PROVE FALSE
        OBVIOUS
      <4>2. PICK w \in WritesFirst \cup WritesLast : w[2] # ProjectOf[w[1]] /\ w[3] = query
        BY <4>1 DEF CacheInv, ForeignOrigin
      <4>3. \A v \in Amends : v[3] # query
        BY <4>2 DEF TablesSound, ForeignIsMarked
      <4>4. here \in Amends /\ here[3] = query
        OBVIOUS
      <4> QED
        BY <4>3, <4>4
    <3> QED
      BY <1>3, <2>2, <3>1 DEF CacheInv, TypeOK
  <2> QED
    BY <2>1, <2>2
<1>5. TypeOK'
  <2>1. cached' \in Nat
    BY <1>1, <1>2 DEF CacheInv, TypeOK
  <2>2. fetch' \in FetchType /\ calls' \subseteq CallType
    BY <1>1, <1>2 DEF CacheInv, TypeOK, FetchType
  <2> QED
    BY <1>1, <1>2, <1>4, <2>1, <2>2 DEF CacheInv, TypeOK
<1>6. NothingOlder'
  BY <1>1, <1>2, <1>5 DEF TypeOK, NothingOlder, CallType
<1> QED
  BY <1>1, <1>2, <1>4, <1>5, <1>6 DEF CacheInv, OwnWriteShows, ForeignOrigin, ForeignDataIsInvalid

\* What any other answer does to the cache and its marks.
LEMMA AnswerKeepsMarks ==
  ASSUME TablesSound, CacheInv, NEW c \in calls, Settle(c),
         <<c.op, c.project, query>> \notin Amends
  PROVE  /\ cached' \in Nat /\ invalid' \in BOOLEAN /\ foreign' \in BOOLEAN
         /\ invalid' \/ (c.version <= cached' /\ due <= cached')
                     \/ (cached' = cached /\ invalid' = invalid)
         /\ (/\ <<c.op, c.project, query>> \in Refetches
             /\ <<c.op, c.project, query>> \notin WritesLast
             /\ cached > 0) => invalid'
         /\ ForeignOrigin' /\ ForeignDataIsInvalid'
<1> DEFINE here == <<c.op, c.project, query>>
<1>1. /\ UNCHANGED query
      /\ c.version \in Nat /\ 0 < c.version
      /\ cached \in Nat /\ invalid \in BOOLEAN /\ foreign \in BOOLEAN
  BY OthersLeft DEF CacheInv, TypeOK
<1>2. /\ cached' = IF here \in WritesFirst \/ here \in WritesLast THEN c.version ELSE cached
      /\ foreign' = IF here \in WritesFirst \/ here \in WritesLast
                      THEN c.project # ProjectOf[c.op] ELSE foreign
      /\ invalid' = IF here \in WritesLast THEN FALSE
                    ELSE IF here \in Refetches THEN (cached' > 0 \/ invalid)
                    ELSE IF here \in WritesFirst THEN FALSE ELSE invalid
  BY DEF Settle, Callback
<1>3. here[1] = c.op /\ here[2] = c.project /\ here[3] = query
  OBVIOUS
<1>4. here \in WritesLast => MayStay(c)
  BY DEF MayStay
<1> HIDE DEF here
<1>5. CASE here \in WritesLast
  <2>1. cached' = c.version /\ invalid' = FALSE /\ foreign' = (c.project # ProjectOf[c.op])
    BY <1>2, <1>5
  <2>2. due <= c.version
    BY <1>1, <1>4, <1>5 DEF CacheInv, NothingOlder
  <2>3. c.project = ProjectOf[c.op]
    BY <1>3, <1>5 DEF TablesSound, ForeignIsMarked
  <2>4. foreign' = FALSE
    BY <2>1, <2>3
  <2>5. ForeignOrigin' /\ ForeignDataIsInvalid'
    BY <2>4 DEF ForeignOrigin, ForeignDataIsInvalid
  <2> QED
    <3>1. cached' \in Nat /\ invalid' \in BOOLEAN /\ foreign' \in BOOLEAN
      BY <1>1, <2>1, <2>4
    <3>2. c.version <= cached' /\ due <= cached'
      BY <1>1, <2>1, <2>2
    <3> QED
      BY <1>5, <2>5, <3>1, <3>2 DEF here
<1>6. CASE here \in WritesFirst /\ here \notin WritesLast
  <2>1. here \in Refetches
    BY <1>6 DEF TablesSound, FirstIsMarked
  <2>2. cached' = c.version /\ foreign' = (c.project # ProjectOf[c.op])
    BY <1>2, <1>6
  <2>3. invalid' = TRUE
    BY <1>1, <1>2, <1>6, <2>1, <2>2
  <2>4. ForeignOrigin'
    BY <1>1, <1>3, <1>6, <2>2 DEF ForeignOrigin
  <2> QED
    <3>1. cached' \in Nat /\ invalid' \in BOOLEAN /\ foreign' \in BOOLEAN
      BY <1>1, <2>2, <2>3
    <3>2. ForeignDataIsInvalid'
      BY <2>3 DEF ForeignDataIsInvalid
    <3> QED
      BY <2>3, <2>4, <3>1, <3>2
<1>7. CASE here \notin WritesFirst /\ here \notin WritesLast
  <2>1. cached' = cached /\ foreign' = foreign
    BY <1>2, <1>7
  <2>2. CASE here \in Refetches
    <3>1. invalid' = (cached > 0 \/ invalid)
      BY <1>2, <1>7, <2>1, <2>2
    <3>2. ForeignOrigin' /\ ForeignDataIsInvalid'
      BY <1>1, <2>1, <3>1 DEF CacheInv, ForeignOrigin, ForeignDataIsInvalid
    <3>3. cached' \in Nat /\ invalid' \in BOOLEAN /\ foreign' \in BOOLEAN
      BY <1>1, <2>1, <3>1
    <3>4. cached > 0 => invalid'
      BY <1>1, <3>1
    <3>5. cached = 0 => invalid' = invalid
      BY <1>1, <3>1
    <3>6. cached > 0 \/ cached = 0
      BY <1>1
    <3> QED
      BY <2>1, <3>2, <3>3, <3>4, <3>5, <3>6
  <2>3. CASE here \notin Refetches
    <3>1. invalid' = invalid
      BY <1>2, <1>7, <2>3
    <3>2. ForeignOrigin' /\ ForeignDataIsInvalid'
      BY <1>1, <2>1, <3>1 DEF CacheInv, ForeignOrigin, ForeignDataIsInvalid
    <3>3. cached' \in Nat /\ invalid' \in BOOLEAN /\ foreign' \in BOOLEAN
      BY <1>1, <2>1, <3>1
    <3> QED
      BY <2>1, <2>3, <3>1, <3>2, <3>3 DEF here
  <2> QED
    BY <2>2, <2>3
<1> QED
  BY <1>5, <1>6, <1>7

LEMMA AnswerStep ==
  ASSUME TablesSound, CacheInv, NEW c \in calls, Settle(c),
         <<c.op, c.project, query>> \notin Amends
  PROVE  CacheInv'
<1>1. /\ UNCHANGED <<query, place, server>> /\ calls' \subseteq calls
      /\ c.version \in Nat /\ 0 < c.version /\ c.version <= server
      /\ due \in Nat /\ due <= server /\ Attachment'
      /\ \A d \in calls' : d.version <= server
      /\ \A d \in calls' : MayStay(d)' => MayStay(d)
  BY OthersLeft
<1>2. /\ cached' \in Nat /\ invalid' \in BOOLEAN /\ foreign' \in BOOLEAN
      /\ invalid' \/ (c.version <= cached' /\ due <= cached')
                  \/ (cached' = cached /\ invalid' = invalid)
      /\ ForeignOrigin' /\ ForeignDataIsInvalid'
  BY AnswerKeepsMarks
<1>3. fetch' \in {fetch, Sent}
  BY DEF Settle, Callback
<1>4. due' = IF Kept(c) THEN Later(c.version) ELSE due
  BY DEF Settle, Callback, Kept
<1>5. CASE Kept(c)
  <2>1. Settled(calls \ {c}) /\ Shown /\ cached > 0
    BY <1>5 DEF Kept, Settled
  <2>2. <<c.op, c.project, query>> \in Refetches
    <3>1. /\ <<c.op, query>> \in Promised /\ c.project = ProjectOf[c.op]
          /\ <<c.op, query>>[1] = c.op /\ <<c.op, query>>[2] = query
      BY <1>5 DEF Kept
    <3>2. <<c.op, ProjectOf[c.op], query>> \in Refetches \cup Amends
      BY <3>1 DEF TablesSound, EffectsInvalidated
    <3> QED
      BY <3>1, <3>2
  <2>3. fetch' = Sent
    BY <2>1, <2>2 DEF Settle, Callback
  <2>4. \A d \in calls \ {c} : ~MayStay(d)
    BY <2>1, SettledNothingStays DEF CacheInv
  <2>5. \A d \in calls' : ~MayStay(d)'
    BY <1>1, <2>4 DEF Settle
  <2>6. due' \in {due, c.version}
    BY <1>4, <1>5 DEF Later
  <2>7. TypeOK'
    BY <1>1, <1>2, <2>3, <2>6 DEF CacheInv, TypeOK, FetchType
  <2>8. NothingOlder'
    BY <1>1, <2>3, <2>5, <2>6, FetchValues DEF NothingOlder
  <2>9. OwnWriteShows'
    <3>1. CASE <<c.op, c.project, query>> \in WritesLast
      <4>1. cached' = c.version
        BY <3>1 DEF Settle, Callback
      <4>2. due <= c.version
        BY <1>1, <3>1 DEF CacheInv, NothingOlder, MayStay
      <4> QED
        BY <1>1, <2>6, <4>1, <4>2 DEF OwnWriteShows
    <3>2. CASE <<c.op, c.project, query>> \notin WritesLast
      <4>1. invalid'
        BY <2>1, <2>2, <3>2, AnswerKeepsMarks
      <4> QED
        BY <4>1 DEF OwnWriteShows
    <3> QED
      BY <3>1, <3>2
  <2> QED
    BY <1>1, <1>2, <2>7, <2>8, <2>9 DEF CacheInv
<1>6. CASE ~Kept(c)
  <2>1. due' = due
    BY <1>4, <1>6
  <2>2. TypeOK'
    BY <1>1, <1>2, <1>3, <2>1 DEF CacheInv, TypeOK, FetchType
  <2>3. NothingOlder'
    BY <1>1, <1>3, <2>1, FetchValues DEF CacheInv, NothingOlder
  <2>4. OwnWriteShows'
    BY <1>1, <1>2, <2>1 DEF CacheInv, OwnWriteShows
  <2> QED
    BY <1>1, <1>2, <2>2, <2>3, <2>4 DEF CacheInv
<1> QED
  BY <1>5, <1>6

-----------------------------------------------------------------------------
(* The theorems.  The hypothesis says what the code of a client must get      *)
(* right; no bound on versions or calls is assumed.                          *)

\* CacheInv holds in every reachable state of a client with sound tables.
THEOREM CacheInvariant ==
  ASSUME TablesSound
  PROVE  CacheSpec => []CacheInv
<1>1. ASSUME CacheInit PROVE CacheInv
  <2>1. TypeOK
    <3>1. fetch \in {Off, Sent}
      BY <1>1 DEF CacheInit
    <3>2. /\ place \in Places /\ server = 1 /\ cached = 0 /\ due = 0
          /\ invalid = FALSE /\ foreign = FALSE /\ calls = {}
      BY <1>1 DEF CacheInit
    <3>3. fetch \in FetchType
      BY <3>1 DEF FetchType
    <3>4. invalid \in BOOLEAN /\ foreign \in BOOLEAN
      BY <3>2
    <3> QED
      BY <3>2, <3>3, <3>4 DEF TypeOK
  <2>2. NothingOlder
    BY <1>1, FetchValues DEF CacheInit, NothingOlder
  <2> QED
    BY <1>1, <2>1, <2>2 DEF CacheInit, CacheInv, Attachment, OwnWriteShows, ForeignOrigin,
       ForeignDataIsInvalid
<1>2. ASSUME CacheInv, [CacheNext]_cacheVars PROVE CacheInv'
  <2>1. CASE \E s \in Places : Navigate(s)
    BY <1>2, <2>1, NavigateStep
  <2>2. CASE Reload \/ ServeFetch \/ FailFetch
    BY <1>2, <2>2, FetchStep
  <2>3. CASE ReceiveFetch
    BY <1>2, <2>3, ReceiveFetchStep
  <2>4. CASE Refresh
    BY <1>2, <2>4, RefreshStep
  <2>5. CASE \E o \in Ops : Mutate(o)
    BY <1>2, <2>5, MutateStep
  <2>6. CASE \E c \in calls : Commit(c)
    BY <1>2, <2>6, CommitStep
  <2>7. CASE \E c \in calls : Settle(c)
    BY <1>2, <2>7, AmendStep, AnswerStep
  <2>8. CASE \E c \in calls : FailOp(c)
    BY <1>2, <2>8, FailOpStep
  <2>9. CASE ForeignWrite
    BY <1>2, <2>9, ForeignWriteStep
  <2>10. CASE UNCHANGED cacheVars
    BY <1>2, <2>10 DEF cacheVars, CacheInv, TypeOK, Attachment, NothingOlder, MayStay,
       Rendered, OwnWriteShows, ForeignOrigin, ForeignDataIsInvalid
  <2> QED
    BY <1>2, <2>1, <2>2, <2>3, <2>4, <2>5, <2>6, <2>7, <2>8, <2>9, <2>10 DEF CacheNext
<1> QED
  BY <1>1, <1>2, PTL DEF CacheSpec

\* No stale state after a mutation (Plans.tsx, INV-PLAN-7; T06), for every
\* number of operations, fetches and moves of the user that overtake each other:
\* the cache shows what the user was promised, or is marked stale.
THEOREM OwnWritesShow ==
  ASSUME TablesSound
  PROVE  CacheSpec => []OwnWriteShows
<1>1. CacheInv => OwnWriteShows
  BY DEF CacheInv
<1> QED
  BY <1>1, CacheInvariant, PTL

\* The answer of an operation written under a project the user has moved on to
\* (useReindex) stays marked until that project's data are loaded.
THEOREM ForeignDataMarked ==
  ASSUME TablesSound
  PROVE  CacheSpec => []ForeignDataIsInvalid
<1>1. CacheInv => ForeignDataIsInvalid
  BY DEF CacheInv
<1> QED
  BY <1>1, CacheInvariant, PTL

=============================================================================
