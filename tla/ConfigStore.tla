----------------------------- MODULE ConfigStore -----------------------------
(***************************************************************************)
(* What the configuration of the AFTR daemon promises for each static      *)
(* binding and no-NAT tunnel, whatever the generations, lists, cursors and *)
(* slices it keeps them with.  An item is wanted (it is of the             *)
(* configuration), owned by an open session that made it, or waits to be   *)
(* removed: doomed when a reload has left it out, orphaned when its        *)
(* session has closed.                                                     *)
(*                                                                         *)
(* A load of the file takes its lines one by one, and is an event when it  *)
(* ends: all that it did not declare is doomed at once if it succeeds, and *)
(* nothing is if it fails.  The next load begins only when what was doomed *)
(* or orphaned is gone.                                                    *)
(***************************************************************************)
EXTENDS Naturals

CONSTANTS
    Thing,      \* static bindings and no-NAT tunnels
    Session,    \* the generations of sessions
    Terminal    \* the session that is never closed

VARIABLES
    status,     \* [Thing -> Status]
    open,       \* the open sessions
    loading,    \* a load of the file is on
    file        \* what it has declared

Absent == [st |-> "absent"]
Wanted == [st |-> "wanted"]
Owned(s) == [st |-> "owned", by |-> s]
Doomed == [st |-> "doomed"]
Orphaned == [st |-> "orphaned"]

cvars == <<status, open, loading, file>>

CInit ==
    /\ status \in [Thing -> {Absent, Wanted}]
    /\ open = {Terminal}
    /\ loading = FALSE
    /\ file = {}

\* x becomes v, and the rest is as it was
Put(x, v) == status' = [status EXCEPT ![x] = v]

\* a line of the file, and one that deletes
Declare(x) ==
    /\ loading
    /\ Put(x, Wanted)
    /\ file' = file \cup {x}
    /\ UNCHANGED <<open, loading>>

Delete(x) ==
    /\ status[x] # Absent
    /\ Put(x, Absent)
    /\ file' = file \ {x}
    /\ UNCHANGED <<open, loading>>

Begin ==
    /\ ~loading
    /\ \A x \in Thing : status[x] \notin {Doomed, Orphaned}
    /\ loading' = TRUE
    /\ file' = {}
    /\ UNCHANGED <<status, open>>

\* the file has been read: what it left out is gone, or will be
Commit ==
    /\ loading
    /\ \A x \in Thing :
           status'[x] \in IF status[x] = Wanted /\ x \notin file
                          THEN {Doomed, Absent}
                          ELSE {status[x]}
    /\ status' = [x \in Thing |-> status'[x]]
    /\ loading' = FALSE
    /\ file' = {}
    /\ UNCHANGED open

\* a line failed: what was wanted still is, with what the file declared
Abort ==
    /\ loading
    /\ loading' = FALSE
    /\ file' = {}
    /\ UNCHANGED <<status, open>>

OpenSession(s) ==
    /\ s \notin open
    /\ \A x \in Thing : status[x] # Owned(s)
    /\ open' = open \cup {s}
    /\ UNCHANGED <<status, loading, file>>

\* a line of a session, which makes what there is not
Make(x, s) ==
    /\ ~loading
    /\ s \in open
    /\ status[x] = Absent
    /\ Put(x, Owned(s))
    /\ UNCHANGED <<open, loading, file>>

\* what the session made, and the file has not claimed, goes with it
CloseSession(s) ==
    /\ s \in open \ {Terminal}
    /\ open' = open \ {s}
    /\ \A x \in Thing :
           status'[x] \in IF status[x] = Owned(s) THEN {Orphaned, Absent} ELSE {status[x]}
    /\ status' = [x \in Thing |-> status'[x]]
    /\ UNCHANGED <<loading, file>>

Collect(x) ==
    /\ ~loading
    /\ status[x] \in {Doomed, Orphaned}
    /\ Put(x, Absent)
    /\ UNCHANGED <<open, loading, file>>

CNext ==
    \/ Begin \/ Commit \/ Abort
    \/ \E x \in Thing : Declare(x) \/ Delete(x) \/ Collect(x)
    \/ \E s \in Session : OpenSession(s) \/ CloseSession(s) \/ \E x \in Thing : Make(x, s)

CSpec == CInit /\ [][CNext]_cvars
=============================================================================
