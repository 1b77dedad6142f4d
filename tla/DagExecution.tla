--------------------------- MODULE DagExecution ----------------------------
(* What plan execution promises, without plans, clients, leases or tokens: a
   growing acyclic graph of tasks in which a task is started only when all its
   prerequisites are done, a done task stays done, and a started or done task
   never acquires a prerequisite.  Module PlanTasks implements it.          *)

CONSTANT Tasks

VARIABLES phase, edges

dagVars == <<phase, edges>>

Phase == {"absent", "todo", "started", "done", "dropped"}

DagTypeOK ==
    /\ phase \in [Tasks -> Phase]
    /\ edges \subseteq Tasks \X Tasks

DagInit ==
    /\ phase = [t \in Tasks |-> "absent"]
    /\ edges = {}

DagPrereqs(t) == {d \in Tasks : <<t, d>> \in edges}
NoCycle(N, E) ==
    \A S \in SUBSET N :
        S # {} => \E n \in S : \A m \in S : <<n, m>> \notin E

\* New tasks appear, with edges among themselves.
Grow(T, E) ==
    /\ T # {}
    /\ \A t \in T : phase[t] = "absent"
    /\ E \subseteq T \X T
    /\ NoCycle(T, E)
    /\ phase' = [t \in Tasks |-> IF t \in T THEN "todo" ELSE phase[t]]
    /\ edges' = edges \cup E

\* A task that is not started acquires a prerequisite.
Link(t, d) ==
    /\ phase[t] = "todo"
    /\ phase[d] # "absent"
    /\ NoCycle({u \in Tasks : phase[u] # "absent"}, edges \cup {<<t, d>>})
    /\ edges' = edges \cup {<<t, d>>}
    /\ UNCHANGED phase

Start(t) ==
    /\ phase[t] = "todo"
    /\ \A d \in DagPrereqs(t) : phase[d] = "done"
    /\ phase' = [phase EXCEPT ![t] = "started"]
    /\ UNCHANGED edges

\* Work on a task is given up; it can be started again.
GiveUp(t) ==
    /\ phase[t] = "started"
    /\ phase' = [phase EXCEPT ![t] = "todo"]
    /\ UNCHANGED edges

Finish(t) ==
    /\ phase[t] = "started"
    /\ phase' = [phase EXCEPT ![t] = "done"]
    /\ UNCHANGED edges

\* Tasks that are not done are dropped for good.
Drop(T) ==
    /\ \A t \in T : phase[t] \in {"todo", "started"}
    /\ phase' = [t \in Tasks |-> IF t \in T THEN "dropped" ELSE phase[t]]
    /\ UNCHANGED edges

DagNext ==
    \/ \E T \in SUBSET Tasks : \E E \in SUBSET (T \X T) : Grow(T, E)
    \/ \E t, d \in Tasks : Link(t, d)
    \/ \E t \in Tasks : Start(t) \/ GiveUp(t) \/ Finish(t)
    \/ \E T \in SUBSET Tasks : Drop(T)

DagSpec == DagInit /\ [][DagNext]_dagVars

=============================================================================
