---------------------------- MODULE QueryClient ----------------------------
(* What the tables of the two web clients are written in: cached queries,
   filters that select some of them, places of the user interface, and the
   operations (mutations) offered there.                                     *)
EXTENDS ServerApi

\* A cached query: its key and the request that loads it
Query(key, call) == [key |-> key, call |-> call]

IsPrefixOf(s, t) == Len(s) <= Len(t) /\ \A i \in 1..Len(s) : s[i] = t[i]

\* A filter of invalidateQueries: KeyStarts is {queryKey}, which TanStack Query
\* compares with the leading elements of a key; PathStarts is a predicate that
\* compares the text of the first element.
KeyStarts(key) == [by |-> "elements", prefix |-> key]
PathStarts(path) == [by |-> "text", prefix |-> path]

Selects(filter, x) ==
    IF filter.by = "elements" THEN IsPrefixOf(filter.prefix, x.key)
    ELSE IsPrefixOf(filter.prefix, x.key[1])

\* A place: a view of a project ("none" for a global one), and what is open in
\* it, one thing at a time: a dialog, an expanded row, a selected file.
Place(view, project, opened) == [view |-> view, project |-> project, opened |-> opened]

\* An operation: where its hook lives (a view, "shell" for the frame of every
\* view but the home page; a part of it; within that a dialog or "any" state),
\* its request, the keys its answer is written to before or after or added to
\* after, the filters it invalidates, and whether its button is disabled while
\* one is pending.
Op(name, view, project, call) ==
    [name |-> name, view |-> view, part |-> "page", hook |-> name, dialog |-> "any",
     project |-> project, call |-> call, writesFirst |-> {}, writesLast |-> {}, amends |-> {},
     invalidates |-> {}, solo |-> TRUE]

Invalidating(o, filters) == [o EXCEPT !.invalidates = filters]
Repeatable(o) == [o EXCEPT !.solo = FALSE]

\* One hook serves the operations that differ in their variables only.
HookOf(o) == <<o.view, o.part, o.hook>>

\* Is the component with the hook of o mounted?  It stays mounted when only
\* the project changes: no component has the project as its key.
LivesAt(o, here) ==
    /\ o.view = here.view \/ (o.view = "shell" /\ here.view # "home")
    /\ o.dialog \in {here.opened, "any"}

OfferedAt(o, here) ==
    LivesAt(o, here) /\ (o.project \in {here.project, "none"} \/ here.project = "none")

=============================================================================
